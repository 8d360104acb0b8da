-------------------------- MODULE MCInvestigations --------------------------
(***************************************************************************)
(* Small instances of Investigations for TLC.  One unit of time stands for *)
(* INVESTIGATION_TIMEOUT, and for saveTimeout: what matters is which bound *)
(* expires first, which the values of Lag and Slack leave open.            *)
(***************************************************************************)
EXTENDS Investigations, TLC

CONSTANTS r1, r2, q1, q2, i1, i2

\* Both replicas run one configuration.
SameTimeouts == r1 :> 1 @@ r2 :> 1
LlmOnly == r1 :> "llm" @@ r2 :> "llm"

\* A replica that was rolled out with another provider.
OneOfEach == r1 :> "llm" @@ r2 :> "rules"

\* Only where all replicas have one timeout and one provider.
AllSymmetry == Permutations(Request) \cup Permutations(Replica)
=============================================================================
