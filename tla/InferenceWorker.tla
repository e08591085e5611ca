---------------------------- MODULE InferenceWorker ----------------------------
(***************************************************************************)
(* The inference worker of ml-service: workers/inference_worker.py with    *)
(* its Kafka client, app/kafka/consumer.py.                                *)
(*                                                                         *)
(* One task polls the raw topic message by message.  A message is decoded, *)
(* its events stored, scored and, if the risk is high, alerted on; then    *)
(* its offset is committed.  A message whose handling raises is counted    *)
(* and left behind; only after too many failures in one process it goes to *)
(* the dead-letter topic.  Alerts and dead letters pass through the        *)
(* asynchronous producer, whose callbacks run only while it is polled.     *)
(*                                                                         *)
(* The topic has one partition, and Kafka is modelled by what the worker   *)
(* sees of it: offsets, redelivery from the committed one, and late or     *)
(* failed deliveries.  A message is its offset; Kind says what is in it.   *)
(***************************************************************************)
EXTENDS Naturals, FiniteSets

CONSTANTS
    MaxOffset,   \* bound: the messages are 1..MaxOffset
    Kind,        \* Kind[m]: "invalid" events only, "notFound" (404), "normal"
    Alerts,      \* Alerts[m]: the most risky rows a try of m may find
    MaxRetries,  \* processing_failure_max_retries, 3 by default
    MaxFaults    \* bound: failures, stops and rebalances in a run

Messages == 1..MaxOffset

ASSUME InferenceWorkerAssumption ==
    /\ MaxOffset \in Nat
    /\ Kind \in [Messages -> {"invalid", "notFound", "normal"}]
    /\ Alerts \in [Messages -> Nat]
    /\ \A m \in Messages : Alerts[m] > 0 => Kind[m] = "normal"
    /\ MaxRetries \in Nat \ {0}
    /\ MaxFaults \in Nat

VARIABLES
    produced,   \* the last offset in the topic
    committed,  \* the last offset the group has committed, 0 for none
    position,   \* the last offset this process has polled or jumped over
    pc,         \* where the worker's task is
    attempts,   \* _message_failures
    risky,      \* how many rows this try of the message at hand has to alert on
    published,  \* how many of these alerts were produced
    outbox,     \* alerts without a delivery callback yet, with their fate
    errors,     \* is _delivery_errors non-empty
    dlqQueue,   \* dead letters in the producer
    stored,     \* messages whose telemetry rows were written
    predicted,  \* messages with a prediction written for each feature row
    missing,    \* alerts that have not arrived, as <<message, number>>: of the try
                \* at hand, and of those that handled a message
    dlq,        \* dead letters that arrived
    handled,    \* messages committed at the end of _handle_message
    failures,   \* failures[m]: how often handling m has failed, over all processes
    skipped,    \* messages jumped over because nothing was committed yet
    faults      \* faults so far

topicVars == <<produced, committed>>
producerVars == <<risky, published, outbox, errors, dlqQueue>>
resultVars == <<stored, predicted, missing, dlq>>
historyVars == <<handled, failures, skipped>>
vars == <<topicVars, position, pc, attempts, producerVars, resultVars, historyVars, faults>>

Init ==
    /\ produced = 0
    /\ committed = 0
    /\ position = 0
    /\ pc = "down"
    /\ attempts = [m \in Messages |-> 0]
    /\ risky = 0
    /\ published = 0
    /\ outbox = {}
    /\ errors = FALSE
    /\ dlqQueue = {}
    /\ stored = {}
    /\ predicted = {}
    /\ missing = {}
    /\ dlq = {}
    /\ handled = {}
    /\ failures = [m \in Messages |-> 0]
    /\ skipped = {}
    /\ faults = 0

Fault ==
    /\ faults < MaxFaults
    /\ faults' = faults + 1

\* The message at hand is the one polled last.
Current == position

------------------------------------------------------------------------------
(* The topic and the consumer group *)

\* The ingest service publishes a batch.
Produce ==
    /\ produced < MaxOffset
    /\ produced' = produced + 1
    /\ UNCHANGED <<committed, position, pc, attempts, producerVars, resultVars,
                   historyVars, faults>>

\* Slip: reading starts at the beginning of the topic.
AssignFromStart == position' = 0 /\ UNCHANGED skipped

\* The partition is assigned: reading goes on behind the committed offset, or,
\* with none (auto.offset.reset "latest"), at the end of the topic.
Assign ==
    IF committed > 0
    THEN position' = committed /\ UNCHANGED skipped
    ELSE position' = produced /\ skipped' = skipped \union 1..produced

\* The process starts with an empty memory.
Start ==
    /\ pc = "down"
    /\ Assign
    /\ pc' = "polling"
    /\ UNCHANGED <<topicVars, attempts, producerVars, resultVars, handled, failures, faults>>

\* A rebalance is served inside poll; the process keeps its memory.
Rebalance ==
    /\ pc = "polling"
    /\ Fault
    /\ Assign
    /\ UNCHANGED <<topicVars, pc, attempts, producerVars, resultVars, handled, failures>>

\* The next try finds its own rows, and what this one still misses counts no more.
GiveUpTry ==
    /\ risky' = 0
    /\ published' = 0
    /\ missing' = {a \in missing : a[1] \in handled}

\* A crash at any point, or a shutdown whose flush ran out of time: what the
\* producer had not sent is gone.
Stop ==
    /\ pc # "down"
    /\ Fault
    /\ pc' = "down"
    /\ attempts' = [m \in Messages |-> 0]
    /\ GiveUpTry
    /\ outbox' = {}
    /\ errors' = FALSE
    /\ dlqQueue' = {}
    /\ UNCHANGED <<topicVars, position, stored, predicted, dlq, historyVars>>

------------------------------------------------------------------------------
(* The producer *)

\* An alert reaches the topic or not, and its report is right or a lost
\* acknowledgement.  One of an earlier try, which may have found other rows, does
\* not count for the last.
Deliver ==
    \E m \in Messages : \E k \in 1..Alerts[m], n \in 0..failures[m] :
        /\ <<m, k, n, "queued">> \in outbox
        /\ \E arrived, ok \in BOOLEAN :
             /\ ok => arrived
             /\ IF ok THEN UNCHANGED faults ELSE Fault
             /\ missing' = IF arrived /\ n = failures[m] THEN missing \ {<<m, k>>}
                                                          ELSE missing
             /\ outbox' = (outbox \ {<<m, k, n, "queued">>})
                             \union {<<m, k, n, IF ok THEN "sent" ELSE "lost">>}
    /\ UNCHANGED <<topicVars, position, pc, attempts, risky, published, errors, dlqQueue,
                   stored, predicted, dlq, historyVars>>

\* A dead letter is produced without a callback: a loss goes unnoticed.
DeliverDeadLetter ==
    /\ \E m \in dlqQueue :
         /\ dlqQueue' = dlqQueue \ {m}
         /\ \/ dlq' = dlq \union {m} /\ UNCHANGED faults
            \/ Fault /\ UNCHANGED dlq
    /\ UNCHANGED <<topicVars, position, pc, attempts, risky, published, outbox, errors,
                   stored, predicted, missing, historyVars>>

\* _on_alert_delivery, called from a poll of the producer.
OnAlertDelivery ==
    /\ pc \in {"decoding", "alerting", "confirming", "deadLetter"}
    /\ \E a \in outbox :
         /\ a[4] # "queued"
         /\ outbox' = outbox \ {a}
         /\ errors' = (errors \/ a[4] = "lost")
    /\ UNCHANGED <<topicVars, position, pc, attempts, risky, published, dlqQueue,
                   resultVars, historyVars, faults>>

------------------------------------------------------------------------------
(* run and _handle_message *)

Poll ==
    /\ pc = "polling"
    /\ position < produced
    /\ position' = position + 1
    /\ pc' = "decoding"
    /\ UNCHANGED <<topicVars, attempts, producerVars, resultVars, historyVars, faults>>

\* Slip: the offset is committed when the message arrives.
DecodeCommitted ==
    /\ pc = "decoding"
    /\ committed' = Current
    /\ pc' = IF Kind[Current] = "invalid" THEN "committing" ELSE "storing"
    /\ UNCHANGED <<produced, position, attempts, producerVars, resultVars, historyVars,
                   faults>>

\* Invalid events go to a dead-letter topic of their own, whether or not that
\* succeeds; a message without valid ones is committed at once.
Decode ==
    /\ pc = "decoding"
    /\ pc' = IF Kind[Current] = "invalid" THEN "committing" ELSE "storing"
    /\ UNCHANGED <<topicVars, position, attempts, producerVars, resultVars, historyVars,
                   faults>>

\* write_telemetry, with its retries.
WriteTelemetry ==
    /\ pc = "storing"
    /\ stored' = stored \union {Current}
    /\ pc' = IF Kind[Current] = "notFound" THEN "committing" ELSE "predicting"
    /\ UNCHANGED <<topicVars, position, attempts, producerVars, predicted, missing, dlq,
                   historyVars, faults>>

\* Feature rows, predict and write_predictions, with its retries.  The rows come
\* from windows that keep what earlier tries put in, and events drop out when they
\* are too late, maybe all of them: each try finds some of the rows the message may
\* have too risky, or none.
WritePredictions ==
    /\ pc = "predicting"
    /\ risky' \in 0..Alerts[Current]
    /\ predicted' = predicted \union {Current}
    /\ missing' = missing \union ({Current} \X (1..risky'))
    /\ pc' = IF risky' > 0 THEN "alerting" ELSE "committing"
    /\ UNCHANGED <<topicVars, position, attempts, published, outbox, errors, dlqQueue,
                   stored, dlq, historyVars, faults>>

\* publish_alert for the next alert.  A first try that raises leaves its error
\* behind even if a retry goes through.
PublishAlert ==
    /\ pc = "alerting"
    /\ published' = published + 1
    /\ outbox' = outbox \union {<<Current, published', failures[Current], "queued">>}
    /\ \/ UNCHANGED <<errors, faults>>
       \/ Fault /\ errors' = TRUE
    /\ pc' = IF published' = risky THEN "confirming" ELSE "alerting"
    /\ UNCHANGED <<topicVars, position, attempts, risky, dlqQueue, resultVars, historyVars>>

\* Slip: the delivery errors are not looked at.
AlertsConfirmedBlindly ==
    /\ pc = "confirming"
    /\ outbox = {}
    /\ errors' = FALSE
    /\ pc' = "committing"
    /\ UNCHANGED <<topicVars, position, attempts, risky, published, outbox, dlqQueue,
                   resultVars, historyVars, faults>>

\* wait_for_pending_alerts saw every callback, and no error was collected.
AlertsConfirmed ==
    /\ pc = "confirming"
    /\ outbox = {}
    /\ ~errors
    /\ pc' = "committing"
    /\ UNCHANGED <<topicVars, position, attempts, producerVars, resultVars, historyVars,
                   faults>>

\* Slip: the wait for the callbacks has no timeout.
AlertsUnconfirmedNoTimeout ==
    /\ pc = "confirming"
    /\ outbox = {}
    /\ errors
    /\ errors' = FALSE
    /\ pc' = "failing"
    /\ UNCHANGED <<topicVars, position, attempts, risky, published, outbox, dlqQueue,
                   resultVars, historyVars, faults>>

\* An error was collected, by whichever message, or the wait timed out.
AlertsUnconfirmed ==
    /\ pc = "confirming"
    /\ errors \/ outbox # {}
    /\ errors' = FALSE
    /\ pc' = "failing"
    /\ UNCHANGED <<topicVars, position, attempts, risky, published, outbox, dlqQueue,
                   resultVars, historyVars, faults>>

\* A commit covers every lower offset, and the failures of m are forgotten.
CommitUpTo(m) ==
    /\ committed' = m
    /\ attempts' = [attempts EXCEPT ![m] = 0]

CommitMessage ==
    /\ pc = "committing"
    /\ CommitUpTo(Current)
    /\ handled' = handled \union {Current}
    /\ risky' = 0
    /\ published' = 0
    /\ pc' = "polling"
    /\ UNCHANGED <<produced, position, outbox, errors, dlqQueue, resultVars, failures,
                   skipped, faults>>

\* Any of these calls raises in the end: the lag query, the model, the producer,
\* or a write or a commit whose answer may be all that was lost.
Raise ==
    /\ pc \in {"decoding", "storing", "predicting", "alerting", "committing"}
    /\ Fault
    /\ stored' \in IF pc = "storing" THEN {stored, stored \union {Current}} ELSE {stored}
    /\ predicted' \in IF pc = "predicting" THEN {predicted, predicted \union {Current}}
                                           ELSE {predicted}
    /\ committed' \in IF pc = "committing" THEN {committed, Current} ELSE {committed}
    /\ handled' = IF committed' = committed THEN handled ELSE handled \union {Current}
    /\ errors' = (errors \/ pc = "alerting")
    /\ pc' = "failing"
    /\ UNCHANGED <<produced, position, attempts, risky, published, outbox, dlqQueue, missing,
                   dlq, failures, skipped>>

HandleMessage ==
    \/ Decode
    \/ WriteTelemetry
    \/ WritePredictions
    \/ PublishAlert
    \/ AlertsConfirmed
    \/ AlertsUnconfirmed
    \/ CommitMessage

------------------------------------------------------------------------------
(* _handle_processing_failure *)

\* Slip: the last retry is missed.
CountFailureEarly ==
    /\ pc = "failing"
    /\ attempts' = [attempts EXCEPT ![Current] = @ + 1]
    /\ failures' = [failures EXCEPT ![Current] = @ + 1]
    /\ GiveUpTry
    /\ pc' = IF attempts'[Current] < MaxRetries THEN "polling" ELSE "deadLetter"
    /\ UNCHANGED <<topicVars, position, outbox, errors, dlqQueue, stored, predicted,
                   dlq, handled, skipped, faults>>

\* The message is counted and, up to the limit, simply left: the consumer is
\* not moved back, so the next poll returns the next message.
CountFailure ==
    /\ pc = "failing"
    /\ attempts' = [attempts EXCEPT ![Current] = @ + 1]
    /\ failures' = [failures EXCEPT ![Current] = @ + 1]
    /\ GiveUpTry
    /\ pc' = IF attempts'[Current] <= MaxRetries THEN "polling" ELSE "deadLetter"
    /\ UNCHANGED <<topicVars, position, outbox, errors, dlqQueue, stored, predicted,
                   dlq, handled, skipped, faults>>

\* publish_processing_failure hands the message to the producer.
PublishDeadLetter ==
    /\ pc = "deadLetter"
    /\ dlqQueue' = dlqQueue \union {Current}
    /\ pc' = "deadLetterCommit"
    /\ UNCHANGED <<topicVars, position, attempts, risky, published, outbox, errors,
                   resultVars, historyVars, faults>>

CommitDeadLetter ==
    /\ pc = "deadLetterCommit"
    /\ CommitUpTo(Current)
    /\ pc' = "polling"
    /\ UNCHANGED <<produced, position, producerVars, resultVars, historyVars, faults>>

\* Either call raises: it is logged and the message is left after all.
DeadLetterFails ==
    /\ pc \in {"deadLetter", "deadLetterCommit"}
    /\ Fault
    /\ committed' \in IF pc = "deadLetterCommit" THEN {committed, Current} ELSE {committed}
    /\ pc' = "polling"
    /\ UNCHANGED <<produced, position, attempts, producerVars, resultVars, historyVars>>

HandleProcessingFailure == CountFailure \/ PublishDeadLetter \/ CommitDeadLetter

Work == Poll \/ HandleMessage \/ HandleProcessingFailure

Next ==
    \/ Produce
    \/ Start
    \/ Rebalance
    \/ Stop
    \/ Deliver
    \/ DeliverDeadLetter
    \/ OnAlertDelivery
    \/ Work
    \/ Raise
    \/ DeadLetterFails

Spec == Init /\ [][Next]_vars

\* The task runs on, and a stopped worker is started again.  Nothing is owed
\* by the broker: a delivery may never be reported.
Fairness == WF_vars(Work) /\ WF_vars(Start)

FairSpec == Spec /\ Fairness

------------------------------------------------------------------------------
(* Properties *)

AllAlerts == UNION {{m} \X (1..Alerts[m]) : m \in Messages}

\* The types of the variables.
TypeOK ==
    /\ produced \in 0..MaxOffset
    /\ committed \in 0..MaxOffset
    /\ position \in 0..MaxOffset
    /\ pc \in {"down", "polling", "decoding", "storing", "predicting", "alerting",
               "confirming", "committing", "failing", "deadLetter", "deadLetterCommit"}
    /\ attempts \in [Messages -> Nat]
    /\ risky \in Nat
    /\ published \in Nat
    /\ \A a \in outbox : <<a[1], a[2]>> \in AllAlerts /\ a[4] \in {"queued", "sent", "lost"}
    /\ errors \in BOOLEAN
    /\ dlqQueue \in SUBSET Messages
    /\ stored \in SUBSET Messages
    /\ predicted \in SUBSET Messages
    /\ missing \in SUBSET AllAlerts
    /\ dlq \in SUBSET Messages
    /\ handled \in SUBSET Messages
    /\ failures \in [Messages -> Nat]
    /\ skipped \in SUBSET Messages
    /\ faults \in 0..MaxFaults

\* A message that was committed as handled has left everything it should: rows,
\* a prediction for each feature row, and each alert of its last try in the alert
\* topic, though deliveries are reported late, their errors are collected across
\* messages, and an earlier try may have found other rows to alert on.
HandledIsComplete ==
    \A m \in handled :
        /\ Kind[m] # "invalid" => m \in stored
        /\ Kind[m] = "normal" => m \in predicted
        /\ \A k \in 1..Alerts[m] : <<m, k>> \notin missing

\* The committed offset never passes a message whose handling was not tried to
\* its end: a crash or a rebalance loses nothing, save what was jumped over
\* before the group's first commit.
CrashLosesNothing ==
    \A m \in 1..committed : m \in handled \union skipped \/ failures[m] > 0

\* A message is dead-lettered only after MaxRetries retries have failed too,
\* while the counts live in memory and are dropped with every process.
DeadLetterAfterRetries ==
    \A m \in dlqQueue \union dlq : failures[m] > MaxRetries

\* The offset the group has committed never goes back, whatever a redelivered
\* message and a rebalance do, so nothing committed is delivered again.
CommitsAdvance == [][committed' >= committed]_vars

\* No message holds up the partition: each is handled, or fails, or is jumped
\* over, even if the broker never reports a delivery.
MessagesEnd ==
    \A m \in Messages :
        produced >= m ~> m \in handled \union skipped \/ failures[m] > 0

\* What the settings say of a failed message (ml-service/.env.example:49-51
\* "Processing failure handling", PROCESSING_FAILURE_MAX_RETRIES=3 and a
\* dead-letter topic): it is not passed over before it is handled or given to
\* the dead-letter topic.
FailedIsRetried ==
    \A m \in 1..committed : failures[m] > 0 => m \in handled \union dlqQueue \union dlq

==============================================================================
