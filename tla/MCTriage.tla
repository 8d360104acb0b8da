------------------------------ MODULE MCTriage ------------------------------
(***************************************************************************)
(* Triage for TLC: the four echo requests of the code, and latencies on    *)
(* both sides of the threshold and on it.                                  *)
(***************************************************************************)
EXTENDS Triage

AroundTheThreshold == {0, HighLatencyMs, HighLatencyMs + 1}
=============================================================================
