------------------------------- MODULE MCPoller -------------------------------
(* Poller on a small instance: a static target and one from the database. *)
EXTENDS Poller, TLC

CONSTANTS k1, k2, a, b

MCStatic == (k1 :> a) @@ (k2 :> NoConf)

\* A runner's key and configuration mean nothing before it starts.
MCInit ==
    /\ Init
    /\ \A r \in Runners : key[r] = k1 /\ conf[r] = a

Terminated ==
    /\ sync = "exited"
    /\ \A r \in Runners : pc[r] \in {"unused", "done"}
    /\ UNCHANGED vars

MCSpec == MCInit /\ [][Next \/ Terminated]_vars /\ Fairness

==============================================================================
