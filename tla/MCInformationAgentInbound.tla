---------------------- MODULE MCInformationAgentInbound ----------------------
(* One reply of each kind, delivered twice at once, beside a case that      *)
(* others change; a worker that stalls; two replies of a case.              *)
EXTENDS InformationAgentInbound

CONSTANTS m1, m2

One == [emails |-> {m1}, hook |-> "answer", job |-> "answer", stall |-> FALSE, faults |-> 2, changes |-> 1]

AllStories ==
    {One, [One EXCEPT !.stall = TRUE, !.faults = 0],
     [One EXCEPT !.emails = {m1, m2}, !.faults = 0]}
    \cup {[One EXCEPT !.hook = k, !.job = k] : k \in Kinds \ {"answer"}}
    \cup {[One EXCEPT !.job = k, !.faults = 1] : k \in Kinds \ {"answer"}}
=============================================================================
