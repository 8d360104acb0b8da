------------------------------ MODULE MCPaging ------------------------------
(***************************************************************************)
(* Paging for TLC: page sizes of 1 and 2 against up to three incidents.     *)
(***************************************************************************)
EXTENDS Paging

\* None, a negative one, one within the cap, one above it.
Limits == {-1, 0, 1, 3}
=============================================================================
