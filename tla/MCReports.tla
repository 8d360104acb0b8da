----------------------------- MODULE MCReports -----------------------------
(***************************************************************************)
(* Reports for TLC: records and incidents are interchangeable.             *)
(***************************************************************************)
EXTENDS Reports, TLC

Interchangeable == Permutations(Record) \cup Permutations(Incident)
=============================================================================
