---------------------------- MODULE MCIngestService ----------------------------
(* IngestService with two requests, one target and a one-event buffer. *)
EXTENDS IngestService, TLC

CONSTANTS q1, q2, k1, a, b

MCRequestSize == (q1 :> 2) @@ (q2 :> 1)
MCStatic == (k1 :> NoConf)

MCInit ==
    /\ Init
    /\ \A r \in Runners : key[r] = k1 /\ conf[r] = a

Terminated == ~Alive /\ UNCHANGED vars

MCSpec == MCInit /\ [][Next \/ Terminated]_vars /\ Fairness

==============================================================================
