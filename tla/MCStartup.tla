----------------------------- MODULE MCStartup -----------------------------
(***************************************************************************)
(* Startup for TLC: every environment in which at most two variables       *)
(* differ from the smallest that works.                                    *)
(***************************************************************************)
EXTENDS Startup

Smallest == [v \in Variable |-> IF v = "DATABASE_URL" THEN "url" ELSE "unset"]

Setting == UNION {{<<v, x>> : x \in Values[v]} : v \in Variable}

Environments == {[Smallest EXCEPT ![s[1]] = s[2], ![t[1]] = t[2]] : s, t \in Setting}
=============================================================================
