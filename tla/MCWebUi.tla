------------------------------ MODULE MCWebUi ------------------------------
(***************************************************************************)
(* WebUi for TLC: an incident that is there and one still to be created.   *)
(***************************************************************************)
EXTENDS WebUi

CONSTANTS i1, i2
=============================================================================
