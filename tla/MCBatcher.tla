------------------------------ MODULE MCBatcher ------------------------------
(* Batcher on a small instance. *)
EXTENDS Batcher, TLC

CONSTANTS c1, c2, c3

MCCalls == {c1, c2, c3}

\* Two calls that do not fit into eventCh together, and an empty one.
MCSize == (c1 :> 2) @@ (c2 :> 1) @@ (c3 :> 0)

\* The service is down and every call that was made has its answer.
Terminated ==
    /\ stop = "returned"
    /\ \A c \in Calls : call[c] \notin {"idle", "sending"}
    /\ UNCHANGED vars

MCSpec == Init /\ [][Next \/ Terminated]_vars /\ Fairness

\* What the README promises of the pipeline (ingest-service/README.md:207
\* "at-least-once"): an event whose call was accepted reaches the log, at the
\* latest when the service has stopped.
AtLeastOnce ==
    \A e \in Events : stop = "returned" /\ call[e[1]] = "accepted" => e \in acked

==============================================================================
