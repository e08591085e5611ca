---------------------------- MODULE InferenceProofs ----------------------------
(***************************************************************************)
(* Proofs about InferenceWorker, for any messages, alerts, retries and     *)
(* faults: its invariants, and how many steps a message takes.             *)
(***************************************************************************)
EXTENDS InferenceWorker, Integers, TLAPS

Busy == {"decoding", "storing", "predicting", "alerting", "confirming",
         "committing", "failing", "deadLetter", "deadLetterCommit"}

\* The places of the task at which the message at hand is not committed yet.
Fresh == {"decoding", "storing", "predicting", "alerting", "confirming", "committing"}

\* The places at which alerts of the try at hand may be on their way.
OnTheWay == {"alerting", "confirming", "failing"}

\* What became of a message below the committed offset.
Tried(m) == m \in handled \union skipped \/ failures[m] > 0

\* The consumer stands at or behind the committed offset only before a message was
\* polled; everything up to its position was tried, but for the message at hand.
PositionInv ==
    /\ position <= produced /\ committed <= produced
    /\ pc # "down" => committed <= position
    /\ pc \in Busy => position \in Messages /\ committed <= position
    /\ \A m \in 1..committed : Tried(m)
    /\ pc = "polling" => \A m \in 1..position : Tried(m)
    /\ pc \in Busy => \A m \in 1..(position - 1) : Tried(m)
    /\ pc \in {"deadLetter", "deadLetterCommit"} => Tried(position)

\* What was handled was committed, and a message is never handled twice.
HandledInv ==
    /\ handled \subseteq 1..committed
    /\ pc \in Fresh => committed < position

\* The counts of a process never exceed the failures there were, and a dead letter
\* has more than the limit of them.
RetryInv ==
    /\ \A m \in Messages : attempts[m] <= failures[m]
    /\ pc \in {"deadLetter", "deadLetterCommit"} => failures[position] > MaxRetries
    /\ DeadLetterAfterRetries

\* The rows and predictions that have to be there once the message is handled.
Written(m) ==
    /\ Kind[m] # "invalid" => m \in stored
    /\ Kind[m] = "normal" => m \in predicted

\* How far the message at hand has come, and what of it is written by then.
ProgressInv ==
    /\ pc \in {"down", "polling", "decoding", "storing", "predicting",
              "deadLetter", "deadLetterCommit"} => published = 0
    /\ pc = "alerting" => published < risky
    /\ pc = "confirming" => published = risky
    /\ pc \in {"alerting", "confirming"} => risky <= Alerts[position]
    /\ pc = "storing" => Kind[position] # "invalid"
    /\ pc \in {"predicting", "alerting", "confirming"} =>
          Kind[position] = "normal" /\ position \in stored
    /\ pc \in {"alerting", "confirming"} => position \in predicted
    /\ pc = "committing" => Written(position)
    /\ \A m \in handled : Written(m)

\* What has not arrived is of the try at hand, and its message is not handled.
MissingInv ==
    /\ pc \notin OnTheWay => missing = {}
    /\ missing \subseteq {position} \X (1..risky)
    /\ missing # {} => position \notin handled

\* An alert in the producer is of a try that failed, or of the one at hand.
TryOf(a) ==
    \/ a[3] < failures[a[1]]
    \/ pc \in OnTheWay /\ a[1] = position /\ a[3] = failures[position]

\* Alert k of the try at hand is in the producer.
Outstanding(k) == \E a \in outbox : a[1] = position /\ a[2] = k /\ a[3] = failures[position]

\* An alert that was produced in the try at hand has arrived, or its callback is to
\* come, or an error was noted: an empty outbox without errors says all.
OutboxInv ==
    /\ \A a \in outbox : a[3] \in Nat /\ TryOf(a)
    /\ \A a \in outbox :
          a[4] = "sent" /\ a[3] = failures[a[1]] => <<a[1], a[2]>> \notin missing
    /\ pc \in {"alerting", "confirming"} =>
          errors \/ \A k \in 1..published : <<position, k>> \notin missing \/ Outstanding(k)

IInv ==
    TypeOK /\ PositionInv /\ HandledInv /\ RetryInv /\ ProgressInv /\ MissingInv /\ OutboxInv

------------------------------------------------------------------------------
(* Types *)

\* The place an assignment puts the consumer at.
LEMMA AssignTypes ==
    ASSUME TypeOK, Assign
    PROVE  position' \in 0..MaxOffset /\ skipped' \in SUBSET Messages
<1> USE InferenceWorkerAssumption DEF TypeOK, Assign
<1>1. CASE committed > 0 BY <1>1
<1>2. CASE ~(committed > 0)
  <2>1. 1..produced \subseteq Messages BY DEF Messages
  <2>2. QED BY <1>2, <2>1
<1>3. QED BY <1>1, <1>2

\* Every step keeps the types.
LEMMA TypeStep ==
    ASSUME TypeOK, PositionInv, ProgressInv, [Next]_vars
    PROVE  TypeOK'
<1> USE InferenceWorkerAssumption
        DEF TypeOK, Fault, topicVars, producerVars, resultVars, historyVars, Current
<1> DEFINE OutboxType == \A a \in outbox : <<a[1], a[2]>> \in AllAlerts
                                          /\ a[4] \in {"queued", "sent", "lost"}
<1>1. CASE Produce
  <2>1. produced' \in 0..MaxOffset BY <1>1 DEF Produce
  <2>2. QED BY <1>1, <2>1 DEF Produce
<1>2. CASE Start
  <2>1. position' \in 0..MaxOffset /\ skipped' \in SUBSET Messages
    BY <1>2, AssignTypes DEF Start
  <2>2. QED BY <1>2, <2>1 DEF Start
<1>3. CASE Rebalance
  <2>1. position' \in 0..MaxOffset /\ skipped' \in SUBSET Messages
    BY <1>3, AssignTypes DEF Rebalance
  <2>2. faults' \in 0..MaxFaults BY <1>3 DEF Rebalance
  <2>3. QED BY <1>3, <2>1, <2>2 DEF Rebalance
<1>4. CASE Stop
  <2>1. attempts' \in [Messages -> Nat] BY <1>4 DEF Stop
  <2>2. /\ outbox' = {} /\ errors' = FALSE /\ dlqQueue' = {} /\ pc' = "down"
        /\ published' = 0 /\ risky' = 0 /\ missing' \subseteq missing
    BY <1>4 DEF Stop, GiveUpTry
  <2>3. faults' \in 0..MaxFaults BY <1>4 DEF Stop
  <2>4. UNCHANGED <<topicVars, position, stored, predicted, dlq, historyVars>> BY <1>4 DEF Stop
  <2>5. dlqQueue' \in SUBSET Messages BY <2>2
  <2>6. \A a \in outbox' : <<a[1], a[2]>> \in AllAlerts /\ a[4] \in {"queued", "sent", "lost"}
    BY <2>2
  <2>7. QED BY <2>1, <2>2, <2>3, <2>4, <2>5, <2>6
<1>5. CASE Deliver
  <2>1. PICK m \in Messages : \E k \in 1..Alerts[m], n \in 0..failures[m] :
          /\ <<m, k, n, "queued">> \in outbox
          /\ \E arrived, ok \in BOOLEAN :
               /\ ok => arrived
               /\ IF ok THEN UNCHANGED faults ELSE Fault
               /\ missing' = IF arrived /\ n = failures[m] THEN missing \ {<<m, k>>} ELSE missing
               /\ outbox' = (outbox \ {<<m, k, n, "queued">>})
                               \union {<<m, k, n, IF ok THEN "sent" ELSE "lost">>}
    BY <1>5 DEF Deliver
  <2>2. PICK k \in 1..Alerts[m], n \in 0..failures[m] :
          \E arrived, ok \in BOOLEAN :
               /\ IF ok THEN UNCHANGED faults ELSE Fault
               /\ missing' = IF arrived /\ n = failures[m] THEN missing \ {<<m, k>>} ELSE missing
               /\ outbox' = (outbox \ {<<m, k, n, "queued">>})
                               \union {<<m, k, n, IF ok THEN "sent" ELSE "lost">>}
    BY <2>1
  <2>3. <<m, k>> \in AllAlerts
    BY DEF AllAlerts
  <2>4. faults' \in 0..MaxFaults /\ missing' \in SUBSET AllAlerts
    BY <2>2
  <2>5. PICK s \in {"sent", "lost"} :
          outbox' = (outbox \ {<<m, k, n, "queued">>}) \union {<<m, k, n, s>>}
    BY <2>2
  <2>6. OutboxType'
    <3> SUFFICES ASSUME NEW a \in outbox'
                 PROVE  <<a[1], a[2]>> \in AllAlerts /\ a[4] \in {"queued", "sent", "lost"}
      OBVIOUS
    <3>1. CASE a \in outbox BY <3>1
    <3>2. CASE a = <<m, k, n, s>>
      <4>1. a[1] = m /\ a[2] = k /\ a[4] = s BY <3>2
      <4>2. QED BY <2>3, <4>1
    <3>3. QED BY <2>5, <3>1, <3>2
  <2>7. UNCHANGED <<topicVars, position, pc, attempts, risky, published, errors, dlqQueue,
                    stored, predicted, dlq, historyVars>>
    BY <1>5 DEF Deliver
  <2>8. QED BY <2>4, <2>6, <2>7
<1>6. CASE DeliverDeadLetter BY <1>6 DEF DeliverDeadLetter
<1>7. CASE OnAlertDelivery BY <1>7, Zenon DEF OnAlertDelivery
<1>8. CASE Poll BY <1>8 DEF Poll
<1>9. CASE Decode BY <1>9 DEF Decode
<1>10. CASE WriteTelemetry BY <1>10 DEF WriteTelemetry, PositionInv, Busy
<1>11. CASE WritePredictions
  <2>1. position \in Messages /\ risky' \in 0..Alerts[position] /\ risky' \in Nat
    BY <1>11 DEF WritePredictions, PositionInv, Busy
  <2>2. {position} \X (1..risky') \subseteq AllAlerts
    <3> SUFFICES ASSUME NEW k \in 1..risky' PROVE <<position, k>> \in AllAlerts
      OBVIOUS
    <3>1. k \in 1..Alerts[position] BY <2>1
    <3>2. QED BY <2>1, <3>1 DEF AllAlerts
  <2>3. missing' \in SUBSET AllAlerts
    BY <1>11, <2>2 DEF WritePredictions
  <2>4. pc' \in {"alerting", "committing"} /\ predicted' \in SUBSET Messages
    BY <1>11, <2>1 DEF WritePredictions
  <2>5. UNCHANGED <<topicVars, position, attempts, published, outbox, errors, dlqQueue,
                    stored, dlq, historyVars, faults>>
    BY <1>11 DEF WritePredictions
  <2>6. QED BY <2>1, <2>3, <2>4, <2>5
<1>12. CASE PublishAlert
  <2>1. <<position, published + 1>> \in AllAlerts
    <3>1. published + 1 \in 1..Alerts[position] /\ position \in Messages
      BY <1>12 DEF PublishAlert, ProgressInv, PositionInv, Busy
    <3>2. QED BY <3>1 DEF AllAlerts
  <2>2. /\ outbox' = outbox \union {<<position, published + 1, failures[position], "queued">>}
        /\ published' \in Nat
    BY <1>12 DEF PublishAlert
  <2>3. OutboxType'
    <3> SUFFICES ASSUME NEW a \in outbox'
                 PROVE  <<a[1], a[2]>> \in AllAlerts /\ a[4] \in {"queued", "sent", "lost"}
      OBVIOUS
    <3>1. CASE a \in outbox BY <3>1
    <3>2. CASE a = <<position, published + 1, failures[position], "queued">>
      <4>1. a[1] = position /\ a[2] = published + 1 /\ a[4] = "queued" BY <3>2
      <4>2. QED BY <2>1, <4>1
    <3>3. QED BY <2>2, <3>1, <3>2
  <2>4. faults' \in 0..MaxFaults
    BY <1>12 DEF PublishAlert
  <2>5. errors' \in BOOLEAN
    BY <1>12 DEF PublishAlert
  <2>6. pc' \in {"alerting", "confirming"}
        /\ UNCHANGED <<topicVars, position, attempts, risky, dlqQueue, resultVars, historyVars>>
    BY <1>12 DEF PublishAlert
  <2>7. QED BY <2>2, <2>3, <2>4, <2>5, <2>6
<1>13. CASE AlertsConfirmed \/ AlertsUnconfirmed
  BY <1>13 DEF AlertsConfirmed, AlertsUnconfirmed
<1>14. CASE CommitMessage
  BY <1>14 DEF CommitMessage, CommitUpTo, PositionInv, Busy
<1>15. CASE Raise
  <2>1. UNCHANGED <<produced, position, attempts, risky, published, outbox, dlqQueue, missing,
                    dlq, failures, skipped>>
        /\ faults' \in 0..MaxFaults /\ pc' = "failing" /\ errors' \in BOOLEAN
    BY <1>15 DEF Raise
  <2>2. stored' \in SUBSET Messages /\ predicted' \in SUBSET Messages
    BY <1>15 DEF Raise, PositionInv, Busy
  <2>3. committed' \in 0..MaxOffset /\ handled' \in SUBSET Messages
    BY <1>15 DEF Raise, PositionInv, Busy
  <2>4. QED BY <2>1, <2>2, <2>3
<1>16. CASE CountFailure BY <1>16 DEF CountFailure, GiveUpTry, PositionInv, Busy
<1>17. CASE PublishDeadLetter BY <1>17 DEF PublishDeadLetter, PositionInv, Busy
<1>18. CASE CommitDeadLetter
  BY <1>18 DEF CommitDeadLetter, CommitUpTo, PositionInv, Busy
<1>19. CASE DeadLetterFails BY <1>19 DEF DeadLetterFails
<1>20. CASE UNCHANGED vars BY <1>20 DEF vars
<1>21. QED BY <1>1, <1>2, <1>3, <1>4, <1>5, <1>6, <1>7, <1>8, <1>9, <1>10, <1>11, <1>12,
              <1>13, <1>14, <1>15, <1>16, <1>17, <1>18, <1>19, <1>20
           DEF Next, Work, HandleMessage, HandleProcessingFailure

------------------------------------------------------------------------------
(* Offsets and retries *)

\* What was tried stays tried.
LEMMA TriedGrows ==
    ASSUME TypeOK, [Next]_vars
    PROVE  \A m \in Messages : Tried(m) => Tried(m)'
<1>1. handled \subseteq handled'
  BY DEF Next, Work, HandleMessage, HandleProcessingFailure, Produce, Start, Rebalance,
         Stop, Deliver, DeliverDeadLetter, OnAlertDelivery, Poll, Decode, WriteTelemetry,
         WritePredictions, PublishAlert, AlertsConfirmed, AlertsUnconfirmed,
         CommitMessage, Raise, CountFailure, PublishDeadLetter, CommitDeadLetter,
         DeadLetterFails, historyVars, vars
<1>2. skipped \subseteq skipped'
  BY DEF Next, Work, HandleMessage, HandleProcessingFailure, Produce, Start, Rebalance,
         Stop, Deliver, DeliverDeadLetter, OnAlertDelivery, Poll, Decode, WriteTelemetry,
         WritePredictions, PublishAlert, AlertsConfirmed, AlertsUnconfirmed,
         CommitMessage, Raise, CountFailure, PublishDeadLetter, CommitDeadLetter,
         DeadLetterFails, Assign, historyVars, vars
<1>3. CASE CountFailure
  <2>1. \A m \in Messages : failures[m] > 0 => failures'[m] > 0
    BY <1>3 DEF CountFailure, TypeOK
  <2>2. QED BY <1>1, <1>2, <2>1 DEF Tried
<1>4. CASE UNCHANGED failures
  BY <1>1, <1>2, <1>4 DEF Tried
<1>5. QED
  BY <1>3, <1>4
     DEF Next, Work, HandleMessage, HandleProcessingFailure, Produce, Start, Rebalance,
         Stop, Deliver, DeliverDeadLetter, OnAlertDelivery, Poll, Decode, WriteTelemetry,
         WritePredictions, PublishAlert, AlertsConfirmed, AlertsUnconfirmed,
         CommitMessage, Raise, PublishDeadLetter, CommitDeadLetter,
         DeadLetterFails, historyVars, vars

\* Counts and failures grow together, and what is dead-lettered has failed enough.
LEMMA RetryStep ==
    ASSUME TypeOK, PositionInv, RetryInv, [Next]_vars
    PROVE  RetryInv'
<1> USE InferenceWorkerAssumption
        DEF RetryInv, DeadLetterAfterRetries, topicVars, producerVars, resultVars,
            historyVars
<1>1. CASE /\ UNCHANGED <<attempts, failures, dlqQueue, dlq, position>>
           /\ pc' \in {"deadLetter", "deadLetterCommit"} => pc' = pc
  BY <1>1
<1>2. CASE Start
  BY <1>2 DEF Start
<1>3. CASE Rebalance
  BY <1>3 DEF Rebalance
<1>4. CASE Stop
  <2>1. /\ pc' = "down" /\ dlqQueue' = {} /\ UNCHANGED <<dlq, failures>>
        /\ \A m \in Messages : attempts'[m] = 0
    BY <1>4 DEF Stop
  <2>2. QED BY <2>1 DEF TypeOK
<1>5. CASE DeliverDeadLetter
  <2>1. dlqQueue' \union dlq' \subseteq dlqQueue \union dlq
        /\ UNCHANGED <<attempts, failures, position, pc>>
    BY <1>5 DEF DeliverDeadLetter
  <2>2. QED BY <2>1
<1>6. CASE Poll
  BY <1>6 DEF Poll
<1>7. CASE CommitMessage
  BY <1>7 DEF CommitMessage, CommitUpTo, TypeOK
<1>8. CASE CommitDeadLetter
  BY <1>8 DEF CommitDeadLetter, CommitUpTo, TypeOK
<1>9. CASE CountFailure
  <2>1. position \in Messages
    BY <1>9 DEF CountFailure, PositionInv, Busy
  <2>2. /\ attempts'[position] = attempts[position] + 1
        /\ failures'[position] = failures[position] + 1
        /\ \A m \in Messages \ {position} :
              attempts'[m] = attempts[m] /\ failures'[m] = failures[m]
        /\ UNCHANGED <<position, dlqQueue, dlq>>
        /\ pc' \in {"polling", "deadLetter"}
        /\ pc' = "deadLetter" => attempts'[position] > MaxRetries
    BY <1>9, <2>1 DEF CountFailure, TypeOK, Current
  <2>3. \A m \in Messages : attempts'[m] <= failures'[m]
    BY <2>1, <2>2 DEF TypeOK
  <2>4. \A m \in Messages : failures'[m] >= failures[m]
    BY <2>1, <2>2 DEF TypeOK
  <2>5. \A m \in Messages : failures[m] \in Nat /\ failures'[m] \in Nat /\ attempts'[m] \in Nat
    BY <2>1, <2>2 DEF TypeOK
  <2>6. \A m \in dlqQueue' \union dlq' : m \in Messages /\ failures'[m] > MaxRetries
    BY <2>2, <2>4, <2>5 DEF TypeOK
  <2>7. pc' = "deadLetter" => failures'[position] > MaxRetries
    BY <2>1, <2>2, <2>3, <2>5
  <2>8. QED BY <2>2, <2>3, <2>6, <2>7
<1>10. CASE PublishDeadLetter
  BY <1>10 DEF PublishDeadLetter, Current
<1>11. QED
  BY <1>1, <1>2, <1>3, <1>4, <1>5, <1>6, <1>7, <1>8, <1>9, <1>10
     DEF Next, Work, HandleMessage, HandleProcessingFailure, Produce, Deliver,
         OnAlertDelivery, Decode, WriteTelemetry, WritePredictions, PublishAlert,
         AlertsConfirmed, AlertsUnconfirmed, Raise, DeadLetterFails, vars

\* Nothing is committed or passed over untried.
LEMMA PositionStep ==
    ASSUME TypeOK, TypeOK', PositionInv, RetryInv, [Next]_vars
    PROVE  PositionInv'
<1> USE InferenceWorkerAssumption
        DEF PositionInv, Busy, TypeOK, topicVars, producerVars, resultVars, historyVars,
            Current
<1>t. \A m \in Messages : Tried(m) => Tried(m)'
  BY TriedGrows
<1>u. 1..position \subseteq Messages /\ 1..committed \subseteq Messages
      /\ 1..position' \subseteq Messages /\ 1..committed' \subseteq Messages
  BY DEF Messages
<1> DEFINE Onward == /\ pc \in Busy /\ pc' \in Busy
                     /\ pc' # "deadLetter" /\ pc' # "deadLetterCommit"
<1>1. ASSUME UNCHANGED <<position, committed>>, produced' >= produced,
             pc' = pc \/ Onward \/ pc' = "down"
      PROVE  PositionInv'
  BY <1>1, <1>t, <1>u
<1>2. CASE Assign /\ UNCHANGED <<produced, committed>> /\ pc' = "polling"
  <2>1. CASE committed > 0
    BY <1>2, <1>t, <1>u, <2>1 DEF Assign
  <2>2. CASE ~(committed > 0)
    <3>1. committed = 0 /\ position' = produced /\ 1..produced \subseteq skipped'
      BY <1>2, <2>2 DEF Assign
    <3>2. \A m \in 1..position' : Tried(m)'
      BY <3>1 DEF Tried
    <3>3. QED BY <1>2, <3>1, <3>2
  <2>3. QED BY <2>1, <2>2
<1>3. CASE Poll
  <2>1. /\ position' = position + 1 /\ position < produced /\ pc' = "decoding"
        /\ pc = "polling" /\ UNCHANGED <<produced, committed>>
    BY <1>3 DEF Poll
  <2>2. position' \in Messages BY <2>1 DEF Messages
  <2>3. \A m \in 1..(position' - 1) : Tried(m)'
    BY <2>1, <1>t, <1>u
  <2>4. QED BY <2>1, <2>2, <2>3, <1>t, <1>u
<1>4. CASE CommitMessage
  <2>1. /\ committed' = position /\ position \in handled' /\ pc' = "polling"
        /\ pc \in Busy /\ UNCHANGED <<position, produced>>
    BY <1>4 DEF CommitMessage, CommitUpTo
  <2>2. \A m \in 1..position : Tried(m)'
    <3> SUFFICES ASSUME NEW m \in 1..position PROVE Tried(m)'
      OBVIOUS
    <3>1. CASE m = position BY <2>1, <3>1 DEF Tried
    <3>2. CASE m # position
      <4>1. m \in 1..(position - 1) BY <3>2
      <4>2. QED BY <2>1, <4>1, <1>t, <1>u
    <3>3. QED BY <3>1, <3>2
  <2>3. QED BY <2>1, <2>2
<1>5. CASE Raise
  <2>1. /\ UNCHANGED <<position, produced, failures, skipped>> /\ pc \in Busy /\ pc' = "failing"
        /\ \/ committed' = committed
           \/ committed' = position /\ position \in handled'
    BY <1>5 DEF Raise
  <2>2. \A m \in 1..(position - 1) : Tried(m)'
    BY <2>1, <1>t, <1>u
  <2>3. CASE committed' = committed
    BY <2>1, <2>2, <2>3, <1>t, <1>u
  <2>4. CASE committed' = position /\ position \in handled'
    <3>1. \A m \in 1..position : m = position \/ m \in 1..(position - 1)
      OBVIOUS
    <3>2. Tried(position)' BY <2>1, <2>4 DEF Tried
    <3>3. \A m \in 1..position : Tried(m)' BY <2>2, <3>1, <3>2, <2>1
    <3>4. QED BY <2>1, <2>2, <2>4, <3>3
  <2>5. QED BY <2>1, <2>3, <2>4
<1>6. CASE CountFailure
  <2>1. /\ UNCHANGED <<position, produced, committed>> /\ pc \in Busy
        /\ pc' \in {"polling", "deadLetter"}
        /\ failures' = [failures EXCEPT ![position] = @ + 1]
    BY <1>6 DEF CountFailure
  <2>2. failures'[position] > 0 BY <2>1
  <2>3. Tried(position)' BY <2>1, <2>2 DEF Tried
  <2>4. \A m \in 1..(position - 1) : Tried(m)'
    BY <2>1, <1>t, <1>u
  <2>5. \A m \in 1..position : m = position \/ m \in 1..(position - 1)
    OBVIOUS
  <2>6. \A m \in 1..position : Tried(m)' BY <2>3, <2>4, <2>5, <2>1
  <2>7. QED BY <2>1, <2>3, <2>4, <2>6, <1>t, <1>u
<1>7. CASE PublishDeadLetter
  BY <1>7, <1>t, <1>u DEF PublishDeadLetter
<1>8. CASE CommitDeadLetter \/ DeadLetterFails
  <2>1. /\ UNCHANGED <<position, produced>> /\ pc' = "polling"
        /\ pc \in {"deadLetter", "deadLetterCommit"}
        /\ committed' \in {committed, position}
    BY <1>8 DEF CommitDeadLetter, CommitUpTo, DeadLetterFails
  <2>2. \A m \in 1..position : m = position \/ m \in 1..(position - 1)
    OBVIOUS
  <2>3. \A m \in 1..(position - 1) : Tried(m)'
    BY <2>1, <1>t, <1>u
  <2>4. Tried(position)' BY <2>1, <1>t
  <2>5. \A m \in 1..position : Tried(m)' BY <2>2, <2>3, <2>4, <2>1
  <2>6. \A m \in 1..committed : Tried(m)' BY <1>t, <1>u
  <2>7. QED BY <2>1, <2>5, <2>6
<1>9. CASE Start \/ Rebalance
  BY <1>2, <1>9 DEF Start, Rebalance
<1>10. CASE Produce \/ Stop
  <2>1. /\ UNCHANGED <<position, committed>> /\ produced' >= produced
        /\ (pc' = pc \/ Onward \/ pc' = "down")
    BY <1>10 DEF Produce, Stop
  <2>2. QED BY <1>1, <2>1
<1>11. CASE Deliver \/ DeliverDeadLetter \/ OnAlertDelivery
  <2>1. UNCHANGED <<produced, position, committed, pc>>
    BY <1>11 DEF Deliver, DeliverDeadLetter, OnAlertDelivery
  <2>2. produced' >= produced BY <2>1
  <2>3. QED BY <1>1, <2>1, <2>2
<1>12. CASE Decode \/ WriteTelemetry \/ WritePredictions
  <2>1. /\ UNCHANGED <<position, committed>> /\ produced' >= produced
        /\ (pc' = pc \/ Onward \/ pc' = "down")
    BY <1>12 DEF Decode, WriteTelemetry, WritePredictions
  <2>2. QED BY <1>1, <2>1
<1>13. CASE PublishAlert \/ AlertsConfirmed \/ AlertsUnconfirmed
  <2>1. /\ UNCHANGED <<position, committed>> /\ produced' >= produced
        /\ (pc' = pc \/ Onward \/ pc' = "down")
    BY <1>13 DEF PublishAlert, AlertsConfirmed, AlertsUnconfirmed
  <2>2. QED BY <1>1, <2>1
<1>14. CASE UNCHANGED vars
  <2>1. /\ UNCHANGED <<position, committed>> /\ produced' >= produced
        /\ (pc' = pc \/ Onward \/ pc' = "down")
    BY <1>14 DEF vars
  <2>2. QED BY <1>1, <2>1
<1>15. QED
  BY <1>3, <1>4, <1>5, <1>6, <1>7, <1>8, <1>9, <1>10, <1>11, <1>12, <1>13, <1>14
     DEF Next, Work, HandleMessage, HandleProcessingFailure

\* Only a commit makes a message handled, and the next one polled lies behind it.
LEMMA HandledStep ==
    ASSUME TypeOK, PositionInv, HandledInv, [Next]_vars
    PROVE  HandledInv'
<1> USE DEF HandledInv, TypeOK, Fresh, topicVars, historyVars, Current
<1>b. pc \in Busy => position \in Nat /\ committed <= position
  BY DEF PositionInv, Messages
<1>1. CASE CommitMessage
  <2>1. /\ committed < position /\ committed' = position /\ pc' = "polling"
        /\ handled' = handled \union {position} /\ position \in Nat
    BY <1>1 DEF CommitMessage, CommitUpTo
  <2>2. 1..committed \subseteq 1..position /\ position \in 1..position BY <2>1
  <2>3. QED BY <2>1, <2>2
<1>2. CASE Raise
  <2>1. /\ committed < position /\ pc' = "failing" /\ position \in Nat
        /\ \/ committed' = committed /\ handled' = handled
           \/ committed' = position /\ handled' = handled \union {position}
    BY <1>2 DEF Raise
  <2>2. 1..committed \subseteq 1..position /\ position \in 1..position BY <2>1
  <2>3. QED BY <2>1, <2>2
<1>3. CASE CommitDeadLetter \/ DeadLetterFails
  <2>1. /\ committed' \in {committed, position} /\ handled' = handled /\ pc' = "polling"
        /\ pc \in Busy
    BY <1>3 DEF CommitDeadLetter, CommitUpTo, DeadLetterFails, Busy
  <2>2. QED BY <1>b, <2>1
<1>4. CASE Poll
  <2>1. /\ position' = position + 1 /\ pc = "polling"
        /\ UNCHANGED <<committed, handled>>
    BY <1>4 DEF Poll
  <2>2. committed <= position BY <2>1 DEF PositionInv
  <2>3. QED BY <2>1, <2>2
<1>5. ASSUME UNCHANGED <<committed, handled>>,
             pc' \in Fresh => pc \in Fresh /\ position' = position
      PROVE  HandledInv'
  BY <1>5
<1>6. CASE Produce \/ Deliver \/ DeliverDeadLetter \/ OnAlertDelivery \/ UNCHANGED vars
  BY <1>5, <1>6 DEF Produce, Deliver, DeliverDeadLetter, OnAlertDelivery, vars
<1>7. CASE Start \/ Rebalance \/ Stop
  BY <1>5, <1>7 DEF Start, Rebalance, Stop
<1>8. CASE Decode \/ WriteTelemetry \/ WritePredictions \/ PublishAlert
  BY <1>5, <1>8 DEF Decode, WriteTelemetry, WritePredictions, PublishAlert
<1>9. CASE AlertsConfirmed \/ AlertsUnconfirmed \/ CountFailure \/ PublishDeadLetter
  BY <1>5, <1>9 DEF AlertsConfirmed, AlertsUnconfirmed, CountFailure, PublishDeadLetter
<1>10. QED
  BY <1>1, <1>2, <1>3, <1>4, <1>6, <1>7, <1>8, <1>9
     DEF Next, Work, HandleMessage, HandleProcessingFailure

------------------------------------------------------------------------------
(* Rows, predictions and alerts *)

\* What is written stays written.
LEMMA WrittenGrows ==
    ASSUME [Next]_vars
    PROVE  \A m \in Messages : Written(m) => Written(m)'
<1>1. stored \subseteq stored' /\ predicted \subseteq predicted'
  BY DEF Next, Work, HandleMessage, HandleProcessingFailure, Produce, Start, Rebalance,
         Stop, Deliver, DeliverDeadLetter, OnAlertDelivery, Poll, Decode, WriteTelemetry,
         WritePredictions, PublishAlert, AlertsConfirmed, AlertsUnconfirmed,
         CommitMessage, Raise, CountFailure, PublishDeadLetter, CommitDeadLetter,
         DeadLetterFails, resultVars, vars
<1>2. QED BY <1>1 DEF Written

\* A message is committed as handled once its rows and predictions are there.
LEMMA ProgressStep ==
    ASSUME TypeOK, PositionInv, ProgressInv, [Next]_vars
    PROVE  ProgressInv'
<1> USE InferenceWorkerAssumption
        DEF ProgressInv, topicVars, producerVars, resultVars, historyVars, Current
<1>c. /\ \A m \in Messages : Written(m) => Written(m)'
      /\ \A m \in handled : m \in Messages /\ Written(m)
  BY WrittenGrows DEF TypeOK
<1>h. handled' = handled => \A m \in handled' : Written(m)'
  BY <1>c
<1>b. pc \in Busy => position \in Messages
  BY DEF PositionInv
<1>1. CASE Produce \/ Deliver \/ DeliverDeadLetter \/ OnAlertDelivery \/ UNCHANGED vars
  <2>1. UNCHANGED <<position, pc, risky, published, stored, predicted, handled>>
    BY <1>1 DEF Produce, Deliver, DeliverDeadLetter, OnAlertDelivery, vars
  <2>2. pc' = "committing" => Written(position)'
    BY <2>1, <1>b, <1>c DEF Busy, Written
  <2>3. QED BY <2>1, <2>2, <1>h
<1>2. CASE Start \/ Rebalance \/ Stop \/ Poll
  <2>1. pc' \in {"down", "polling", "decoding"} /\ published' = 0 /\ UNCHANGED handled
    BY <1>2 DEF Start, Rebalance, Stop, GiveUpTry, Poll
  <2>2. QED BY <2>1, <1>h
<1>3. CASE Decode
  <2>1. UNCHANGED <<position, published, handled>> /\ published = 0 /\ position \in Messages
    BY <1>3, <1>b DEF Decode, Busy
  <2>2. CASE Kind[position] = "invalid"
    <3>1. pc' = "committing" BY <1>3, <2>2 DEF Decode
    <3>2. Written(position) BY <2>2 DEF Written
    <3>3. QED BY <2>1, <3>1, <3>2, <1>c, <1>h
  <2>3. CASE Kind[position] # "invalid"
    <3>1. pc' = "storing" BY <1>3, <2>3 DEF Decode
    <3>2. QED BY <2>1, <2>3, <3>1, <1>h
  <2>4. QED BY <2>2, <2>3
<1>4. CASE WriteTelemetry
  <2>1. /\ UNCHANGED <<position, published, handled>> /\ published = 0
        /\ position \in Messages /\ Kind[position] # "invalid" /\ position \in stored'
    BY <1>4, <1>b DEF WriteTelemetry, Busy
  <2>2. CASE Kind[position] = "notFound"
    <3>1. pc' = "committing" BY <1>4, <2>2 DEF WriteTelemetry
    <3>2. Written(position)' BY <2>1, <2>2 DEF Written
    <3>3. QED BY <2>1, <3>1, <3>2, <1>h
  <2>3. CASE Kind[position] # "notFound"
    <3>1. pc' = "predicting" BY <1>4, <2>3 DEF WriteTelemetry
    <3>2. Kind[position] = "normal" BY <2>1, <2>3
    <3>3. QED BY <2>1, <3>1, <3>2, <1>h
  <2>4. QED BY <2>2, <2>3
<1>5. CASE WritePredictions
  <2>1. /\ UNCHANGED <<position, published, handled, stored>> /\ published = 0
        /\ position \in Messages /\ Kind[position] = "normal" /\ position \in stored
        /\ position \in predicted' /\ risky' \in 0..Alerts[position]
    BY <1>5, <1>b DEF WritePredictions, Busy
  <2>2. CASE risky' > 0
    <3>1. pc' = "alerting" BY <1>5, <2>2 DEF WritePredictions
    <3>2. QED BY <2>1, <2>2, <3>1, <1>h
  <2>3. CASE ~(risky' > 0)
    <3>1. pc' = "committing" BY <1>5, <2>3 DEF WritePredictions
    <3>2. Written(position)' BY <2>1 DEF Written
    <3>3. QED BY <2>1, <3>1, <3>2, <1>h
  <2>4. QED BY <2>2, <2>3
<1>6. CASE PublishAlert
  <2>1. /\ UNCHANGED <<position, handled, stored, predicted, risky>>
        /\ position \in Messages /\ Kind[position] = "normal" /\ position \in stored
        /\ position \in predicted /\ published < risky /\ risky <= Alerts[position]
        /\ published' = published + 1
        /\ pc' = IF published' = risky THEN "confirming" ELSE "alerting"
    BY <1>6, <1>b DEF PublishAlert, Busy
  <2>2. published \in Nat /\ risky \in Nat BY DEF TypeOK
  <2>3. QED BY <2>1, <2>2, <1>h
<1>7. CASE AlertsConfirmed
  <2>1. /\ UNCHANGED <<position, handled, stored, predicted>>
        /\ Kind[position] = "normal" /\ position \in stored /\ position \in predicted
        /\ pc' = "committing"
    BY <1>7 DEF AlertsConfirmed
  <2>2. Written(position)' BY <2>1 DEF Written
  <2>3. QED BY <2>1, <2>2, <1>h
<1>8. CASE CommitMessage
  <2>1. /\ handled' = handled \union {position} /\ published' = 0 /\ pc' = "polling"
        /\ position \in Messages /\ Written(position)
    BY <1>8, <1>b DEF CommitMessage, Busy
  <2>2. \A m \in handled' : Written(m)'
    BY <2>1, <1>c
  <2>3. QED BY <2>1, <2>2
<1>9. CASE Raise
  <2>1. /\ pc' = "failing"
        /\ handled' = handled \/ (pc = "committing" /\ handled' = handled \union {position})
    BY <1>9 DEF Raise
  <2>2. \A m \in handled' : Written(m)'
    BY <2>1, <1>b, <1>c DEF Busy
  <2>3. QED BY <2>1, <2>2
<1>10. CASE AlertsUnconfirmed \/ CountFailure
  <2>1. UNCHANGED handled
        /\ (pc' = "failing" \/ (pc' \in {"polling", "deadLetter"} /\ published' = 0))
    BY <1>10 DEF AlertsUnconfirmed, CountFailure, GiveUpTry
  <2>2. QED BY <2>1, <1>h
<1>11. CASE PublishDeadLetter \/ CommitDeadLetter \/ DeadLetterFails
  <2>1. UNCHANGED <<handled, published>> /\ published = 0
        /\ pc' \in {"polling", "deadLetterCommit"}
    BY <1>11 DEF PublishDeadLetter, CommitDeadLetter, DeadLetterFails
  <2>2. QED BY <2>1, <1>h
<1>12. QED
  BY <1>1, <1>2, <1>3, <1>4, <1>5, <1>6, <1>7, <1>8, <1>9, <1>10, <1>11
     DEF Next, Work, HandleMessage, HandleProcessingFailure

\* Only the try at hand misses alerts, and none once it is confirmed.
LEMMA MissingStep ==
    ASSUME TypeOK, PositionInv, HandledInv, ProgressInv, MissingInv, OutboxInv, [Next]_vars
    PROVE  MissingInv'
<1> USE DEF MissingInv, OnTheWay, topicVars, producerVars, resultVars, historyVars, Current
<1>f. pc \in Fresh => position \notin handled
  BY DEF HandledInv, TypeOK
<1>1. CASE WritePredictions
  <2>1. /\ missing = {} /\ missing' = missing \union ({position} \X (1..risky'))
        /\ UNCHANGED <<position, handled>> /\ pc = "predicting"
        /\ pc' = IF risky' > 0 THEN "alerting" ELSE "committing"
        /\ risky' \in 0..Alerts[position]
    BY <1>1 DEF WritePredictions
  <2>2. missing' = {position'} \X (1..risky') BY <2>1
  <2>3. position' \notin handled' BY <1>f, <2>1 DEF Fresh
  <2>4. pc' \notin OnTheWay => missing' = {}
    <3>1. SUFFICES ASSUME pc' \notin OnTheWay PROVE 1..risky' = {}
      BY <2>2
    <3>2. ~(risky' > 0) BY <2>1, <3>1
    <3>3. Alerts[position] \in Nat
      BY <2>1, InferenceWorkerAssumption DEF PositionInv, Busy
    <3>4. QED BY <2>1, <3>2, <3>3
  <2>5. QED BY <2>2, <2>3, <2>4
<1>2. CASE AlertsConfirmed
  <2>1. /\ outbox = {} /\ ~errors /\ pc = "confirming"
        /\ UNCHANGED <<position, missing, risky, handled>>
    BY <1>2 DEF AlertsConfirmed
  <2>2. \A k \in 1..risky : <<position, k>> \notin missing
    BY <2>1 DEF OutboxInv, Outstanding, ProgressInv
  <2>3. missing = {} BY <2>2
  <2>4. QED BY <2>1, <2>3
<1>3. CASE Stop \/ CountFailure
  <2>1. missing' = {a \in missing : a[1] \in handled}
    BY <1>3 DEF Stop, CountFailure, GiveUpTry
  <2>2. \A a \in missing : a[1] = position /\ position \notin handled
    OBVIOUS
  <2>3. missing' = {} BY <2>1, <2>2
  <2>4. QED BY <2>3
<1>4. CASE Raise
  <2>1. /\ UNCHANGED <<missing, position, risky>> /\ pc' = "failing"
        /\ pc = "committing" \/ handled' = handled
    BY <1>4 DEF Raise
  <2>2. QED BY <2>1
<1>5. CASE Deliver
  <2>1. missing' \subseteq missing /\ UNCHANGED <<position, pc, risky, handled>>
    BY <1>5 DEF Deliver
  <2>2. QED BY <2>1
<1>6. CASE Start \/ Rebalance \/ Poll \/ CommitMessage
  <2>1. UNCHANGED missing /\ missing = {}
    BY <1>6 DEF Start, Rebalance, Poll, CommitMessage
  <2>2. QED BY <2>1
<1>7. CASE Decode \/ WriteTelemetry \/ PublishDeadLetter \/ CommitDeadLetter \/ DeadLetterFails
  <2>1. UNCHANGED missing /\ missing = {}
    BY <1>7 DEF Decode, WriteTelemetry, PublishDeadLetter, CommitDeadLetter, DeadLetterFails
  <2>2. QED BY <2>1
<1>8. CASE PublishAlert \/ AlertsUnconfirmed
  <2>1. UNCHANGED <<missing, position, risky, handled>> /\ pc' \in OnTheWay
    BY <1>8 DEF PublishAlert, AlertsUnconfirmed
  <2>2. QED BY <2>1
<1>9. CASE Produce \/ DeliverDeadLetter \/ OnAlertDelivery \/ UNCHANGED vars
  <2>1. UNCHANGED <<missing, position, risky, handled, pc>>
    BY <1>9 DEF Produce, DeliverDeadLetter, OnAlertDelivery, vars
  <2>2. QED BY <2>1
<1>10. QED
  BY <1>1, <1>2, <1>3, <1>4, <1>5, <1>6, <1>7, <1>8, <1>9
     DEF Next, Work, HandleMessage, HandleProcessingFailure

\* An empty outbox without errors says that the alerts of the try arrived.
LEMMA OutboxStep ==
    ASSUME TypeOK, PositionInv, ProgressInv, OutboxInv, [Next]_vars
    PROVE  OutboxInv'
<1> USE DEF OnTheWay, topicVars, producerVars, resultVars, historyVars, Current
<1> DEFINE Sent(a) == a[4] = "sent" /\ a[3] = failures[a[1]] => <<a[1], a[2]>> \notin missing
           Known == errors \/ \A k \in 1..published :
                                 <<position, k>> \notin missing \/ Outstanding(k)
<1>o. /\ \A a \in outbox : a[3] \in Nat /\ TryOf(a) /\ Sent(a)
      /\ pc \in {"alerting", "confirming"} => Known
  BY DEF OutboxInv
<1>m. \A a \in outbox : a[1] \in Messages /\ failures[a[1]] \in Nat
  <2> SUFFICES ASSUME NEW a \in outbox PROVE a[1] \in Messages
    BY DEF TypeOK
  <2>1. <<a[1], a[2]>> \in AllAlerts BY DEF TypeOK
  <2>2. QED BY <2>1 DEF AllAlerts
<1>q. /\ \A a \in outbox' : a[3] \in Nat /\ TryOf(a)' /\ Sent(a)'
      /\ pc' \in {"alerting", "confirming"} => Known'
      => OutboxInv'
  BY DEF OutboxInv
<1>1. ASSUME UNCHANGED <<outbox, errors, published, position, missing, failures>>,
             pc \in OnTheWay => pc' \in OnTheWay \/ outbox = {},
             pc' \in {"alerting", "confirming"} => pc \in {"alerting", "confirming"}
      PROVE  OutboxInv'
  BY <1>1, <1>o, <1>q DEF TryOf, Outstanding
<1>2. CASE Start \/ Rebalance \/ Poll \/ CommitMessage
  <2>1. /\ UNCHANGED <<outbox, missing, failures>> /\ pc \notin OnTheWay
        /\ pc' \notin {"alerting", "confirming"}
    BY <1>2 DEF Start, Rebalance, Poll, CommitMessage
  <2>2. \A a \in outbox' : a[3] \in Nat /\ TryOf(a)' /\ Sent(a)'
    BY <2>1, <1>o DEF TryOf
  <2>3. QED BY <2>1, <2>2, <1>q
<1>3. CASE Stop
  <2>1. outbox' = {} /\ pc' = "down" BY <1>3 DEF Stop
  <2>2. QED BY <2>1, <1>q
<1>4. CASE Raise \/ AlertsUnconfirmed
  <2>1. /\ UNCHANGED <<outbox, missing, failures, position>> /\ pc' = "failing"
    BY <1>4 DEF Raise, AlertsUnconfirmed
  <2>2. \A a \in outbox' : a[3] \in Nat /\ TryOf(a)' /\ Sent(a)'
    BY <2>1, <1>o DEF TryOf
  <2>3. QED BY <2>1, <2>2, <1>q
<1>5. CASE CountFailure
  <2>1. /\ outbox' = outbox /\ missing' \subseteq missing
        /\ pc' \in {"polling", "deadLetter"} /\ position \in Messages
        /\ failures' = [failures EXCEPT ![position] = @ + 1]
    BY <1>5 DEF CountFailure, GiveUpTry, PositionInv, Busy
  <2>2. ASSUME NEW a \in outbox' PROVE a[3] \in Nat /\ TryOf(a)' /\ Sent(a)'
    <3>1. /\ a[3] \in Nat /\ TryOf(a)
          /\ a[1] \in Messages /\ failures[a[1]] \in Nat
          /\ failures'[a[1]] = IF a[1] = position THEN failures[a[1]] + 1 ELSE failures[a[1]]
      BY <1>o, <1>m, <2>1, <2>2 DEF TypeOK
    <3>2. a[3] < failures'[a[1]] BY <3>1 DEF TryOf
    <3>3. QED BY <3>1, <3>2 DEF TryOf
  <2>3. QED BY <2>1, <2>2, <1>q
<1>6. CASE WritePredictions
  <2>1. /\ UNCHANGED <<outbox, published, position, failures>> /\ published = 0
        /\ pc = "predicting" /\ pc' \in {"alerting", "committing"}
    BY <1>6 DEF WritePredictions, ProgressInv
  <2>2. ASSUME NEW a \in outbox' PROVE a[3] \in Nat /\ TryOf(a)' /\ Sent(a)'
    <3>1. a[3] \in Nat /\ TryOf(a) /\ failures[a[1]] \in Nat
      BY <1>o, <1>m, <2>1, <2>2
    <3>2. a[3] < failures'[a[1]] /\ failures'[a[1]] \in Nat BY <2>1, <3>1 DEF TryOf
    <3>3. QED BY <3>1, <3>2 DEF TryOf
  <2>3. 1..published' = {} BY <2>1
  <2>4. QED BY <2>2, <2>3, <1>q
<1>7. CASE Deliver
  <2>1. PICK m \in Messages : \E k \in 1..Alerts[m], n \in 0..failures[m] :
          /\ <<m, k, n, "queued">> \in outbox
          /\ \E arrived, ok \in BOOLEAN :
               /\ ok => arrived
               /\ IF ok THEN UNCHANGED faults ELSE Fault
               /\ missing' = IF arrived /\ n = failures[m] THEN missing \ {<<m, k>>} ELSE missing
               /\ outbox' = (outbox \ {<<m, k, n, "queued">>})
                               \union {<<m, k, n, IF ok THEN "sent" ELSE "lost">>}
    BY <1>7 DEF Deliver
  <2>2. PICK k \in 1..Alerts[m], n \in 0..failures[m] :
          /\ <<m, k, n, "queued">> \in outbox
          /\ \E arrived, ok \in BOOLEAN :
               /\ ok => arrived
               /\ missing' = IF arrived /\ n = failures[m] THEN missing \ {<<m, k>>} ELSE missing
               /\ outbox' = (outbox \ {<<m, k, n, "queued">>})
                               \union {<<m, k, n, IF ok THEN "sent" ELSE "lost">>}
    BY <2>1
  <2> DEFINE old == <<m, k, n, "queued">>
  <2>3. PICK s \in {"sent", "lost"} :
          /\ s = "sent" /\ n = failures[m] => <<m, k>> \notin missing'
          /\ outbox' = (outbox \ {old}) \union {<<m, k, n, s>>}
          /\ missing' \subseteq missing
    BY <2>2
  <2> DEFINE new == <<m, k, n, s>>
  <2>4. UNCHANGED <<errors, published, position, pc, failures>>
    BY <1>7 DEF Deliver
  <2>5. /\ old[1] = m /\ old[2] = k /\ old[3] = n
        /\ new[1] = m /\ new[2] = k /\ new[3] = n /\ new[4] = s
    OBVIOUS
  <2>6. old \in outbox BY <2>2
  <2> HIDE DEF old, new
  <2>7. ASSUME NEW a \in outbox' PROVE a[3] \in Nat /\ TryOf(a)' /\ Sent(a)'
    <3>1. CASE a \in outbox
      BY <1>o, <2>3, <2>4, <3>1 DEF TryOf
    <3>2. CASE a = new
      <4>1. old[3] \in Nat /\ TryOf(old) BY <1>o, <2>6
      <4>2. a[3] \in Nat /\ TryOf(a)' BY <2>4, <2>5, <3>2, <4>1 DEF TryOf
      <4>3. Sent(a)' BY <2>3, <2>4, <2>5, <3>2
      <4>4. QED BY <4>2, <4>3
    <3>3. QED BY <2>3, <2>7, <3>1, <3>2 DEF new
  <2>8. ASSUME NEW i, Outstanding(i) PROVE Outstanding(i)'
    <3>1. PICK a \in outbox : a[1] = position /\ a[2] = i /\ a[3] = failures[position]
      BY <2>8 DEF Outstanding
    <3>2. CASE a = old
      <4>1. new \in outbox' BY <2>3 DEF new
      <4>2. QED BY <2>4, <2>5, <3>1, <3>2, <4>1 DEF Outstanding
    <3>3. CASE a # old
      <4>1. a \in outbox' BY <2>3, <3>1, <3>3
      <4>2. QED BY <2>4, <3>1, <4>1 DEF Outstanding
    <3>4. QED BY <3>2, <3>3
  <2>9. pc' \in {"alerting", "confirming"} => Known'
    BY <1>o, <2>3, <2>4, <2>8
  <2>10. QED BY <2>7, <2>9, <1>q
<1>8. CASE OnAlertDelivery
  <2>1. PICK a \in outbox :
          /\ a[4] # "queued"
          /\ outbox' = outbox \ {a}
          /\ errors' = (errors \/ a[4] = "lost")
    BY <1>8 DEF OnAlertDelivery
  <2>2. UNCHANGED <<missing, published, position, pc, failures>>
    BY <1>8 DEF OnAlertDelivery
  <2>3. \A b \in outbox' : b[3] \in Nat /\ TryOf(b)' /\ Sent(b)'
    BY <1>o, <2>1, <2>2 DEF TryOf
  <2>4. a[4] = "sent" \/ errors'
    BY <2>1 DEF TypeOK
  <2>5. ASSUME pc \in {"alerting", "confirming"}, ~errors', NEW i \in 1..published
        PROVE  <<position, i>> \notin missing' \/ Outstanding(i)'
    <3>1. ~errors /\ a[4] = "sent" BY <2>1, <2>4, <2>5
    <3>2. CASE <<position, i>> \notin missing BY <2>2, <3>2
    <3>3. CASE Outstanding(i)
      <4>1. PICK b \in outbox : b[1] = position /\ b[2] = i /\ b[3] = failures[position]
        BY <3>3 DEF Outstanding
      <4>2. CASE b = a
        <5>1. <<position, i>> \notin missing BY <1>o, <3>1, <4>1, <4>2
        <5>2. QED BY <2>2, <5>1
      <4>3. CASE b # a
        <5>1. b \in outbox' BY <2>1, <4>1, <4>3
        <5>2. QED BY <2>2, <4>1, <5>1 DEF Outstanding
      <4>4. QED BY <4>2, <4>3
    <3>4. QED BY <1>o, <2>5, <3>1, <3>2, <3>3
  <2>6. QED BY <2>2, <2>3, <2>5, <1>q
<1>9. CASE PublishAlert
  <2> DEFINE new == <<position, published + 1, failures[position], "queued">>
  <2>1. /\ published' = published + 1 /\ published \in Nat
        /\ outbox' = outbox \union {new}
        /\ UNCHANGED <<missing, position, failures>> /\ (errors => errors')
        /\ pc = "alerting" /\ pc' \in {"alerting", "confirming"}
    BY <1>9 DEF PublishAlert, TypeOK
  <2>2. /\ new[1] = position /\ new[2] = published + 1
        /\ new[3] = failures[position] /\ new[4] = "queued"
    OBVIOUS
  <2>3. failures[position] \in Nat
    BY <2>1 DEF TypeOK, PositionInv, Busy
  <2> HIDE DEF new
  <2>4. ASSUME NEW a \in outbox' PROVE a[3] \in Nat /\ TryOf(a)' /\ Sent(a)'
    <3>1. CASE a \in outbox BY <1>o, <2>1, <3>1 DEF TryOf
    <3>2. CASE a = new BY <2>1, <2>2, <2>3, <3>2 DEF TryOf
    <3>3. QED BY <2>1, <2>4, <3>1, <3>2
  <2>5. ASSUME NEW i, i = published + 1 PROVE Outstanding(i)'
    <3>1. new \in outbox' BY <2>1
    <3>2. QED BY <2>1, <2>2, <2>5, <3>1 DEF Outstanding
  <2>6. ASSUME NEW i, Outstanding(i) PROVE Outstanding(i)'
    BY <2>1, <2>6 DEF Outstanding
  <2>7. \A i \in 1..published' : i = published + 1 \/ i \in 1..published
    BY <2>1
  <2>8. Known' BY <1>o, <2>1, <2>5, <2>6, <2>7
  <2>9. QED BY <2>4, <2>8, <1>q
<1>10. CASE Produce \/ DeliverDeadLetter \/ Decode \/ WriteTelemetry \/ AlertsConfirmed
            \/ PublishDeadLetter \/ CommitDeadLetter \/ DeadLetterFails \/ UNCHANGED vars
  <2>1. UNCHANGED <<outbox, errors, published, position, missing, failures>>
    BY <1>10 DEF Produce, DeliverDeadLetter, Decode, WriteTelemetry, AlertsConfirmed,
                 PublishDeadLetter, CommitDeadLetter, DeadLetterFails, vars
  <2>2. /\ pc' \in {"alerting", "confirming"} => pc \in {"alerting", "confirming"}
        /\ pc \in OnTheWay => pc' \in OnTheWay \/ outbox = {}
    BY <1>10 DEF Produce, DeliverDeadLetter, Decode, WriteTelemetry, AlertsConfirmed,
                 PublishDeadLetter, CommitDeadLetter, DeadLetterFails, vars
  <2>3. QED BY <1>1, <2>1, <2>2
<1>11. QED
  BY <1>2, <1>3, <1>4, <1>5, <1>6, <1>7, <1>8, <1>9, <1>10
     DEF Next, Work, HandleMessage, HandleProcessingFailure

------------------------------------------------------------------------------
(* The theorems *)

\* Nothing has been polled at the start.
LEMMA InitIInv == Init => IInv
<1> SUFFICES ASSUME Init PROVE IInv
  OBVIOUS
<1> USE InferenceWorkerAssumption DEF Init
<1>1. TypeOK
  <2>1. attempts \in [Messages -> Nat] /\ failures \in [Messages -> Nat] OBVIOUS
  <2>2. \A a \in outbox : <<a[1], a[2]>> \in AllAlerts /\ a[4] \in {"queued", "sent", "lost"}
    OBVIOUS
  <2>3. /\ 0 \in 0..MaxOffset /\ 0 \in 0..MaxFaults
    OBVIOUS
  <2>4. QED BY <2>1, <2>2, <2>3 DEF TypeOK
<1>2. PositionInv BY DEF PositionInv, Busy
<1>3. RetryInv BY DEF RetryInv, DeadLetterAfterRetries
<1>4. ProgressInv BY DEF ProgressInv
<1>5. MissingInv /\ OutboxInv BY DEF MissingInv, OutboxInv, OnTheWay
<1>6. HandledInv BY DEF HandledInv, Fresh
<1>7. QED BY <1>1, <1>2, <1>3, <1>4, <1>5, <1>6 DEF IInv

\* Every state of the worker satisfies the inductive invariant.
THEOREM WorkerInvariant == Spec => []IInv
<1>1. IInv /\ [Next]_vars => IInv'
  <2> SUFFICES ASSUME IInv, [Next]_vars PROVE IInv'
    OBVIOUS
  <2>1. TypeOK' BY TypeStep DEF IInv
  <2>2. PositionInv' /\ RetryInv' /\ HandledInv'
    BY <2>1, PositionStep, RetryStep, HandledStep DEF IInv
  <2>3. ProgressInv' /\ MissingInv' /\ OutboxInv'
    BY ProgressStep, MissingStep, OutboxStep DEF IInv
  <2>4. QED BY <2>1, <2>2, <2>3 DEF IInv
<1>2. QED BY InitIInv, <1>1, PTL DEF Spec

\* The variables keep their types, for any messages, alerts, retries and faults.
THEOREM WorkerTypes == Spec => []TypeOK
<1>1. IInv => TypeOK BY DEF IInv
<1>2. QED BY WorkerInvariant, <1>1, PTL

\* A message committed as handled has left its rows, its predictions and each alert
\* of its last try, however late the deliveries are reported.
THEOREM HandledLeavesAll == Spec => []HandledIsComplete
<1>1. IInv => HandledIsComplete
  <2> SUFFICES ASSUME IInv, NEW m \in handled
               PROVE  Written(m) /\ \A k \in 1..Alerts[m] : <<m, k>> \notin missing
    BY DEF HandledIsComplete, Written
  <2>1. Written(m) BY DEF IInv, ProgressInv
  <2>2. ASSUME NEW k \in 1..Alerts[m], <<m, k>> \in missing PROVE FALSE
    <3>1. m = position BY <2>2 DEF IInv, MissingInv
    <3>2. QED BY <2>2, <3>1 DEF IInv, MissingInv
  <2>3. QED BY <2>1, <2>2
<1>2. QED BY WorkerInvariant, <1>1, PTL

\* No crash and no rebalance moves the committed offset past a message whose
\* handling was not tried to its end.
THEOREM CommitFollowsTries == Spec => []CrashLosesNothing
<1>1. IInv => CrashLosesNothing
  BY DEF IInv, PositionInv, Tried, CrashLosesNothing
<1>2. QED BY WorkerInvariant, <1>1, PTL

\* What is dead-lettered has failed more often than the retries allow, over however
\* many processes.
THEOREM DeadLettersFailed == Spec => []DeadLetterAfterRetries
<1>1. IInv => DeadLetterAfterRetries BY DEF IInv, RetryInv
<1>2. QED BY WorkerInvariant, <1>1, PTL

\* The committed offset never goes back: the consumer is never behind it while
\* the process runs.
THEOREM CommitsOnlyAdvance == Spec => CommitsAdvance
<1>1. IInv /\ [Next]_vars => [committed' >= committed]_vars
  <2> SUFFICES ASSUME IInv, [Next]_vars PROVE committed' >= committed
    OBVIOUS
  <2> USE DEF IInv, TypeOK, PositionInv, Busy, Current, topicVars
  <2>1. CASE CommitMessage \/ CommitDeadLetter
    BY <2>1 DEF CommitMessage, CommitDeadLetter, CommitUpTo
  <2>2. CASE Raise \/ DeadLetterFails
    BY <2>2 DEF Raise, DeadLetterFails
  <2>3. CASE committed' = committed
    BY <2>3
  <2>4. QED
    BY <2>1, <2>2, <2>3
       DEF Next, Work, HandleMessage, HandleProcessingFailure, Produce, Start, Rebalance,
           Stop, Deliver, DeliverDeadLetter, OnAlertDelivery, Poll, Decode,
           WriteTelemetry, WritePredictions, PublishAlert, AlertsConfirmed,
           AlertsUnconfirmed, CountFailure, PublishDeadLetter, vars
<1>2. QED BY WorkerInvariant, <1>1, PTL DEF Spec, CommitsAdvance

------------------------------------------------------------------------------
(* Why messages end *)

\* How many steps the task is at most away from its next poll: rows, predictions,
\* each alert, the wait for their callbacks, the commit, and if one of them raises
\* the count and the dead letter.
StepsLeft ==
    CASE pc = "decoding" -> Alerts[position] + 9
      [] pc = "storing" -> Alerts[position] + 8
      [] pc = "predicting" -> Alerts[position] + 7
      [] pc = "alerting" -> (risky - published) + 6
      [] pc = "confirming" -> 6
      [] pc = "committing" -> 5
      [] pc = "failing" -> 4
      [] pc = "deadLetter" -> 3
      [] pc = "deadLetterCommit" -> 2
      [] OTHER -> 0

\* It is never further than that.
StepsBounded == pc \in Busy => StepsLeft \in 2..(Alerts[position] + 9)

\* The message at hand stays at hand until it is done with, and whatever the task,
\* the broker or a failure does brings that nearer.
RunsDown ==
    pc \in Busy =>
        /\ position' = position
        /\ (pc' = pc /\ published' = published) \/ StepsLeft' < StepsLeft

\* A step of the task takes it on to the next, or to the failure, of its message.
LEMMA StepLowers ==
    ASSUME IInv, [Next]_vars
    PROVE  RunsDown
<1> SUFFICES ASSUME pc \in Busy
             PROVE  /\ position' = position
                    /\ (pc' = pc /\ published' = published) \/ StepsLeft' < StepsLeft
  BY DEF RunsDown
<1>0. /\ position \in Messages /\ Alerts[position] \in Nat
      /\ published \in Nat /\ risky \in Nat
      /\ pc = "predicting" => published = 0
      /\ pc = "alerting" => published < risky /\ risky <= Alerts[position]
  BY InferenceWorkerAssumption DEF IInv, TypeOK, PositionInv, ProgressInv
<1>1. CASE UNCHANGED <<pc, position, published>>
  BY <1>1
<1>2. CASE Produce \/ Deliver \/ DeliverDeadLetter \/ OnAlertDelivery
  BY <1>2 DEF Produce, Deliver, DeliverDeadLetter, OnAlertDelivery, producerVars
<1>3. CASE Start \/ Rebalance \/ Poll
  BY <1>3 DEF Start, Rebalance, Poll, Busy
<1>4. CASE Stop
  <2>1. pc' = "down" /\ position' = position
    BY <1>4 DEF Stop
  <2>2. QED BY <1>0, <2>1 DEF StepsLeft, Busy
<1>5. CASE Decode
  <2>1. pc = "decoding" /\ pc' \in {"committing", "storing"} /\ position' = position
    BY <1>5 DEF Decode
  <2>2. StepsLeft = Alerts[position] + 9
    BY <2>1 DEF StepsLeft
  <2>3. StepsLeft' \in {5, Alerts[position] + 8}
    BY <2>1 DEF StepsLeft
  <2>4. QED BY <1>0, <2>1, <2>2, <2>3
<1>6. CASE WriteTelemetry
  <2>1. pc = "storing" /\ pc' \in {"committing", "predicting"} /\ position' = position
    BY <1>6 DEF WriteTelemetry
  <2>2. StepsLeft = Alerts[position] + 8
    BY <2>1 DEF StepsLeft
  <2>3. StepsLeft' \in {5, Alerts[position] + 7}
    BY <2>1 DEF StepsLeft
  <2>4. QED BY <1>0, <2>1, <2>2, <2>3
<1>7. CASE WritePredictions
  <2>1. /\ pc = "predicting" /\ pc' \in {"committing", "alerting"}
        /\ position' = position /\ published' = published /\ risky' \in 0..Alerts[position]
    BY <1>7 DEF WritePredictions, Current
  <2>2. StepsLeft = Alerts[position] + 7
    BY <2>1 DEF StepsLeft
  <2>3. StepsLeft' \in {5, (risky' - published) + 6}
    BY <2>1 DEF StepsLeft
  <2>4. risky' \in Nat /\ risky' <= Alerts[position] /\ published = 0
    BY <1>0, <2>1
  <2>5. CASE StepsLeft' = 5 BY <1>0, <2>1, <2>2, <2>5
  <2>6. CASE StepsLeft' = (risky' - published) + 6
    <3>1. StepsLeft' = risky' + 6 BY <2>4, <2>6
    <3>2. StepsLeft' < StepsLeft BY <1>0, <2>2, <2>4, <3>1
    <3>3. QED BY <2>1, <3>2
  <2>7. QED BY <2>3, <2>5, <2>6
<1>8. CASE PublishAlert
  <2>1. /\ pc = "alerting" /\ pc' \in {"confirming", "alerting"}
        /\ position' = position /\ published' = published + 1 /\ risky' = risky
    BY <1>8 DEF PublishAlert
  <2>2. StepsLeft = (risky - published) + 6
    BY <2>1 DEF StepsLeft
  <2>3. StepsLeft' \in {6, (risky - (published + 1)) + 6}
    BY <2>1 DEF StepsLeft
  <2>4. QED BY <1>0, <2>1, <2>2, <2>3
<1>9. CASE AlertsConfirmed \/ AlertsUnconfirmed
  <2>1. pc = "confirming" /\ pc' \in {"committing", "failing"} /\ position' = position
    BY <1>9 DEF AlertsConfirmed, AlertsUnconfirmed
  <2>2. StepsLeft = 6 /\ StepsLeft' \in {5, 4}
    BY <2>1 DEF StepsLeft
  <2>3. QED BY <2>1, <2>2
<1>10. CASE CommitMessage
  <2>1. pc = "committing" /\ pc' = "polling" /\ position' = position
    BY <1>10 DEF CommitMessage
  <2>2. StepsLeft = 5 /\ StepsLeft' = 0
    BY <2>1 DEF StepsLeft
  <2>3. QED BY <2>1, <2>2
<1>11. CASE Raise
  <2>1. /\ pc \in {"decoding", "storing", "predicting", "alerting", "committing"}
        /\ pc' = "failing" /\ position' = position
    BY <1>11 DEF Raise
  <2>2. StepsLeft' = 4
    BY <2>1 DEF StepsLeft
  <2>3. StepsLeft \in {Alerts[position] + 9, Alerts[position] + 8, Alerts[position] + 7,
                       (risky - published) + 6, 5}
    BY <2>1 DEF StepsLeft
  <2>4. CASE pc = "alerting"
    <3>1. StepsLeft = (risky - published) + 6
      BY <2>4 DEF StepsLeft
    <3>2. QED BY <1>0, <2>1, <2>2, <2>4, <3>1
  <2>5. CASE pc # "alerting"
    <3>1. StepsLeft \in {Alerts[position] + 9, Alerts[position] + 8, Alerts[position] + 7, 5}
      BY <2>1, <2>5 DEF StepsLeft
    <3>2. QED BY <1>0, <2>1, <2>2, <3>1
  <2>6. QED BY <2>4, <2>5
<1>12. CASE CountFailure
  <2>1. pc = "failing" /\ pc' \in {"polling", "deadLetter"} /\ position' = position
    BY <1>12 DEF CountFailure
  <2>2. StepsLeft = 4 /\ StepsLeft' \in {0, 3}
    BY <2>1 DEF StepsLeft
  <2>3. QED BY <2>1, <2>2
<1>13. CASE PublishDeadLetter
  <2>1. pc = "deadLetter" /\ pc' = "deadLetterCommit" /\ position' = position
    BY <1>13 DEF PublishDeadLetter
  <2>2. StepsLeft = 3 /\ StepsLeft' = 2
    BY <2>1 DEF StepsLeft
  <2>3. QED BY <2>1, <2>2
<1>14. CASE CommitDeadLetter \/ DeadLetterFails
  <2>1. /\ pc \in {"deadLetter", "deadLetterCommit"} /\ pc' = "polling"
        /\ position' = position
    BY <1>14 DEF CommitDeadLetter, DeadLetterFails
  <2>2. StepsLeft \in {3, 2} /\ StepsLeft' = 0
    BY <2>1 DEF StepsLeft
  <2>3. QED BY <2>1, <2>2
<1>15. QED
  BY <1>1, <1>2, <1>3, <1>4, <1>5, <1>6, <1>7, <1>8, <1>9, <1>10, <1>11, <1>12, <1>13,
     <1>14 DEF Next, Work, HandleMessage, HandleProcessingFailure, vars, producerVars

\* The task is done with a message after at most Alerts + 9 steps, its failures and
\* dead letter included: a broker that never reports a delivery (the timeout in
\* wait_for_pending_alerts) cannot hold it, and no failure starts it over.
THEOREM MessagesRunDown == Spec => []StepsBounded /\ [][RunsDown]_vars
<1>1. IInv => StepsBounded
  <2> SUFFICES ASSUME IInv, pc \in Busy
               PROVE  StepsLeft \in 2..(Alerts[position] + 9)
    BY DEF StepsBounded
  <2>1. /\ Alerts[position] \in Nat /\ published \in Nat /\ risky \in Nat
        /\ pc = "alerting" => published < risky /\ risky <= Alerts[position]
    BY InferenceWorkerAssumption DEF IInv, TypeOK, PositionInv, ProgressInv
  <2>2. CASE pc = "alerting"
    <3>1. StepsLeft = (risky - published) + 6
      BY <2>2 DEF StepsLeft
    <3>2. QED BY <2>1, <2>2, <3>1
  <2>3. CASE pc # "alerting"
    <3>1. StepsLeft \in {Alerts[position] + 9, Alerts[position] + 8, Alerts[position] + 7,
                         6, 5, 4, 3, 2}
      BY <2>3 DEF StepsLeft, Busy
    <3>2. QED BY <2>1, <3>1
  <2>4. QED BY <2>2, <2>3
<1>2. IInv /\ [Next]_vars => [RunsDown]_vars
  BY StepLowers
<1>3. QED BY <1>1, <1>2, WorkerInvariant, PTL DEF Spec

==============================================================================
