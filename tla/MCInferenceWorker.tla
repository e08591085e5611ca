--------------------------- MODULE MCInferenceWorker ---------------------------
(* InferenceWorker with messages of each kind, two that may have alerts. *)
EXTENDS InferenceWorker

MCKind == <<"normal", "invalid", "normal", "notFound">>
MCAlerts == <<2, 0, 1, 0>>

\* Every message was polled; what is left is up to the broker.
Terminated ==
    /\ pc = "polling"
    /\ position = MaxOffset
    /\ UNCHANGED vars

MCSpec == Init /\ [][Next \/ Terminated]_vars /\ Fairness

==============================================================================
