------------------------------- MODULE MCJobQueue -------------------------------
(* JobQueue with two jobs of two organisations, one of which always fails, and two *)
(* workers.                                                                        *)
EXTENDS JobQueue

MCOrgOf == [j \in Jobs |-> j]

\* Nothing is left to do but to restart or to post.
Terminated ==
    /\ \A j \in Jobs : spec[j] \in {"queued", "jobless"} /\ status[j] # "pending"
    /\ UNCHANGED vars

MCSpec == Init /\ [][Next \/ Terminated]_vars /\ Fairness

==============================================================================
