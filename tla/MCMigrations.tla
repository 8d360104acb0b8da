---------------------------- MODULE MCMigrations ----------------------------
(***************************************************************************)
(* Migrations for TLC: two replicas of the newest release, one process of  *)
(* an older release.                                                       *)
(***************************************************************************)
EXTENDS Migrations, TLC

CONSTANTS p1, p2, p3

TwoReleases == p1 :> 3 @@ p2 :> 3 @@ p3 :> 1

NothingSkipped == [p \in {p1, p2, p3} |-> {}]
=============================================================================
