--------------------------- MODULE MCConnections ---------------------------
(***************************************************************************)
(* Connections for TLC, on pools of one connection: a save and a read on   *)
(* one replica, a save of the same incident on another, and two replicas   *)
(* that start and sweep.                                                   *)
(***************************************************************************)
EXTENDS Connections, TLC

CONSTANTS a, b, c, d, s1, s2, r1, w1, w2, i1

Homes == s1 :> a @@ r1 :> a @@ s2 :> b @@ w1 :> c @@ w2 :> d
Reads == r1 :> 2
Abouts == s1 :> i1 @@ s2 :> i1
=============================================================================
