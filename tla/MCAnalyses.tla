----------------------------- MODULE MCAnalyses -----------------------------
(***************************************************************************)
(* Analyses for TLC: a good document, those that differ from it in one     *)
(* field or in two, and those that are no document.                        *)
(***************************************************************************)
EXTENDS Analyses, TLC

Ref(source, description) == [source |-> source, description |-> description]

Good == [summary |-> "plain", root_cause |-> "plain", confidence |-> 996, severity |-> "high",
         evidence |-> {Ref("dns", "plain")}, possible_causes |-> {},
         recommended_actions |-> {"plain"}]

\* The values a field may have instead.
Other ==
    [summary |-> {Null, "blank", "nul"}, root_cause |-> {Null, "blank"},
     confidence |-> {Null, -1, 0, 1000, 1001}, severity |-> {Null, "severe"},
     evidence |-> {Null, {}, {Ref("ping", "plain")}, {Ref("dns", "blank")},
                   {Ref("dns", "nul"), Ref("tcp", "plain")}},
     possible_causes |-> {Null, {"nul"}}, recommended_actions |-> {Null, {}, {"blank"}}]

OneOff == UNION {{[Good EXCEPT ![f] = v] : v \in Other[f]} : f \in RequiredFields}
TwoOff == UNION {{[g EXCEPT ![f] = v] : v \in Other[f]} : g \in OneOff, f \in RequiredFields}
Shorter == {[f \in RequiredFields \ {g} |-> Good[f]] : g \in RequiredFields}
Longer == {Good @@ [extra |-> "plain"]}

Contents ==
    [syntax : {"object"}, fields : {Good} \cup OneOff \cup TwoOff \cup Shorter \cup Longer]
    \cup [syntax : {"fenced", "broken", "trailing"}, fields : {Good}]
=============================================================================
