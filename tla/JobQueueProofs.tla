----------------------------- MODULE JobQueueProofs -----------------------------
(***************************************************************************)
(* Proofs about JobQueue, for any jobs, workers, attempts and faults: its  *)
(* invariants, and how often a job's row changes before it rests.          *)
(***************************************************************************)
EXTENDS JobQueue, Integers, SequenceTheorems, TLAPS

\* The due jobs are pending, each once.
DueInv ==
    /\ \A i \in DOMAIN due : status[due[i]] = "pending"
    /\ \A i, k \in DOMAIN due : due[i] = due[k] => i = k

\* A job has a row once its upload has enqueued it, and before that nothing.
RowInv ==
    \A j \in Jobs :
        /\ status[j] = "none" <=> spec[j] # "queued"
        /\ spec[j] # "queued" => /\ attempts[j] = 0
                                 /\ j \notin synced /\ j \notin taken
                                 /\ \A w \in Workers : job[w] # j

\* A worker holds a job while it works on it; a bad one is never synced.
WorkInv ==
    /\ \A w \in Workers : job[w] # NoJob <=> worker[w] \in {"working", "synced"}
    /\ \A w \in Workers : worker[w] = "synced" => job[w] \in synced
    /\ synced \intersect Bad = {}

\* A job in the hands of an HTTP client runs, and no worker has synced it.
TakenInv == \A j \in taken \ stray : status[j] = "running" /\ j \notin synced

\* The attempt that is under way is counted, and is one of those allowed.
CountInv ==
    \A j \in Jobs \ stray : status[j] = "running" => attempts[j] \in 1..MaxAttempts

Safe == /\ DueInv /\ RowInv /\ WorkInv /\ TakenInv /\ CountInv
        /\ OneRunnerPerJob /\ RetriesBounded /\ SyncedIsFinal

IInv == TypeOK /\ Safe

------------------------------------------------------------------------------
(* The queue of due jobs *)

\* Unqueue takes its job out of the queue and leaves the others in it, each once.
LEMMA UnqueueRemoves ==
    ASSUME TypeOK, DueInv, NEW j \in Jobs
    PROVE  /\ Unqueue(j) \in Seq(Jobs)
           /\ \A i \in DOMAIN Unqueue(j) :
                /\ Unqueue(j)[i] # j
                /\ \E k \in DOMAIN due : Unqueue(j)[i] = due[k]
           /\ \A i, k \in DOMAIN Unqueue(j) : Unqueue(j)[i] = Unqueue(j)[k] => i = k
           /\ \A k \in DOMAIN due : due[k] # j =>
                \E i \in DOMAIN Unqueue(j) : Unqueue(j)[i] = due[k]
<1>1. due \in Seq(Jobs) /\ DOMAIN due = 1..Len(due) /\ Len(due) \in Nat
  BY DEF TypeOK
<1>2. CASE ~\E i \in DOMAIN due : due[i] = j
  <2>1. Unqueue(j) = due
    BY <1>2 DEF Unqueue
  <2>2. QED BY <1>1, <1>2, <2>1 DEF DueInv
<1>3. CASE \E i \in DOMAIN due : due[i] = j
  <2> DEFINE at == CHOOSE i \in DOMAIN due : due[i] = j
             front == SubSeq(due, 1, at - 1)
             back == SubSeq(due, at + 1, Len(due))
             from(i) == IF i < at THEN i ELSE i + 1
  <2>1. at \in 1..Len(due) /\ due[at] = j
    BY <1>1, <1>3
  <2>2. Unqueue(j) = front \o back
    BY <1>3 DEF Unqueue
  <2>. HIDE DEF at
  <2>3. /\ front \in Seq(Jobs) /\ Len(front) = at - 1
        /\ \A i \in 1..(at - 1) : front[i] = due[i]
    BY <1>1, <2>1
  <2>4. /\ back \in Seq(Jobs) /\ Len(back) = Len(due) - at
        /\ \A i \in 1..(Len(due) - at) : back[i] = due[at + i]
    <3>1. \A i \in (at + 1)..Len(due) : due[i] \in Jobs
      BY <1>1, <2>1
    <3>2. at + 1 \in Int /\ Len(due) \in Int
      BY <1>1, <2>1
    <3>3. /\ back \in Seq(Jobs)
          /\ Len(back) = IF at + 1 <= Len(due) THEN Len(due) - (at + 1) + 1 ELSE 0
          /\ \A i \in 1..(Len(due) - (at + 1) + 1) : back[i] = due[at + 1 + i - 1]
      BY <3>1, <3>2, SubSeqProperties
    <3>. HIDE DEF back
    <3>4. Len(back) = Len(due) - at
      <4>1. Len(back) = IF at + 1 <= Len(due) THEN Len(due) - (at + 1) + 1 ELSE 0
        BY <3>3
      <4>2. Len(due) \in Nat /\ at \in 1..Len(due)
        BY <1>1, <2>1
      <4>3. QED BY <4>1, <4>2
    <3>5. ASSUME NEW i \in 1..(Len(due) - at)
          PROVE  back[i] = due[at + i]
      <4>1. i \in 1..(Len(due) - (at + 1) + 1) /\ at + 1 + i - 1 = at + i
        BY <1>1, <2>1
      <4>2. QED BY <3>3, <4>1
    <3>6. QED BY <3>3, <3>4, <3>5
  <2>. HIDE DEF front, back
  <2>5. /\ front \o back \in Seq(Jobs)
        /\ Len(front \o back) = Len(front) + Len(back)
        /\ \A i \in 1..(Len(front) + Len(back)) :
              (front \o back)[i] =
                 IF i <= Len(front) THEN front[i] ELSE back[i - Len(front)]
    BY <2>3, <2>4, ConcatProperties
  <2>6. DOMAIN (front \o back) = 1..(Len(due) - 1)
    <3>1. Len(front \o back) = Len(due) - 1
      <4>1. Len(front \o back) = (at - 1) + (Len(due) - at)
        BY <2>3, <2>4, <2>5
      <4>2. Len(due) \in Nat /\ at \in 1..Len(due)
        BY <1>1, <2>1
      <4>3. QED BY <4>1, <4>2
    <3>2. QED BY <2>5, <3>1
  <2>7. ASSUME NEW i \in 1..(Len(due) - 1)
        PROVE  (front \o back)[i] = due[from(i)]
    <3>1. CASE i < at
      BY <1>1, <2>1, <2>3, <2>4, <2>5, <3>1
    <3>2. CASE ~(i < at)
      <4>1. i - (at - 1) \in 1..(Len(due) - at) /\ at + (i - (at - 1)) = i + 1
        BY <1>1, <2>1, <3>2
      <4>2. back[i - (at - 1)] = due[i + 1]
        BY <2>4, <4>1
      <4>3. (front \o back)[i] = back[i - (at - 1)]
        BY <1>1, <2>1, <2>3, <2>4, <2>5, <3>2
      <4>4. QED BY <3>2, <4>2, <4>3
    <3>3. QED BY <3>1, <3>2
  <2>8. \A i \in 1..(Len(due) - 1) : from(i) \in DOMAIN due /\ from(i) # at
    BY <1>1, <2>1
  <2>9. \A i, k \in 1..(Len(due) - 1) : from(i) = from(k) => i = k
    BY <1>1, <2>1
  <2>10. ASSUME NEW k \in DOMAIN due, k # at
         PROVE  \E i \in 1..(Len(due) - 1) : from(i) = k
    <3>1. CASE k < at
      <4>1. k \in 1..(Len(due) - 1) /\ from(k) = k
        BY <1>1, <2>1, <3>1
      <4>2. QED BY <4>1
    <3>2. CASE ~(k < at)
      <4>1. k - 1 \in 1..(Len(due) - 1) /\ from(k - 1) = k
        BY <1>1, <2>1, <2>10, <3>2
      <4>2. QED BY <4>1
    <3>3. QED BY <3>1, <3>2
  <2>. HIDE DEF from
  <2>11. \A i \in 1..(Len(due) - 1) : due[from(i)] # j
    BY <1>1, <2>1, <2>8 DEF DueInv
  <2>12. \A i, k \in 1..(Len(due) - 1) : due[from(i)] = due[from(k)] => i = k
    BY <2>8, <2>9 DEF DueInv
  <2>13. \A i \in DOMAIN Unqueue(j) : Unqueue(j)[i] = due[from(i)]
    BY <2>2, <2>6, <2>7
  <2>14. DOMAIN Unqueue(j) = 1..(Len(due) - 1) /\ Unqueue(j) \in Seq(Jobs)
    BY <2>2, <2>5, <2>6
  <2>15. ASSUME NEW k \in DOMAIN due, due[k] # j
         PROVE  \E i \in DOMAIN Unqueue(j) : Unqueue(j)[i] = due[k]
    BY <2>1, <2>10, <2>13, <2>14, <2>15
  <2>16. QED BY <2>8, <2>11, <2>12, <2>13, <2>14, <2>15
<1>4. QED BY <1>2, <1>3

\* A job that is marked is not due, and the others still are.
LEMMA MarkKeepsQueue ==
    ASSUME TypeOK, DueInv, NEW j \in Jobs, NEW s,
           status' = [status EXCEPT ![j] = s], due' = Unqueue(j)
    PROVE  due' \in Seq(Jobs) /\ DueInv'
<1>1. ASSUME NEW i \in DOMAIN due' PROVE status'[due'[i]] = "pending"
  <2>1. PICK k \in DOMAIN due : due'[i] = due[k]
    BY UnqueueRemoves
  <2>2. due'[i] # j /\ due[k] \in Jobs
    BY UnqueueRemoves DEF TypeOK
  <2>3. QED BY <2>1, <2>2 DEF DueInv, TypeOK
<1>2. \A i, k \in DOMAIN due' : due'[i] = due'[k] => i = k
  BY UnqueueRemoves
<1>3. QED BY <1>1, <1>2, UnqueueRemoves DEF DueInv

\* A claim takes a due job, which was pending, and leaves the others in the queue.
LEMMA ClaimKeepsQueue ==
    ASSUME TypeOK, DueInv, NEW S, NEW j, ClaimNext(j, S)
    PROVE  j \in Jobs /\ status[j] = "pending" /\ due' \in Seq(Jobs) /\ DueInv'
<1>1. PICK i \in DOMAIN due : due[i] = j
  BY DEF ClaimNext, First
<1>2. j \in Jobs /\ status[j] = "pending"
  BY <1>1 DEF TypeOK, DueInv
<1>3. due' = Unqueue(j) /\ status' = [status EXCEPT ![j] = "running"]
  BY DEF ClaimNext
<1>4. QED BY <1>2, <1>3, MarkKeepsQueue

\* A job that is pending and not due may become due.
LEMMA AppendKeepsQueue ==
    ASSUME TypeOK, DueInv, NEW j \in Jobs, status'[j] = "pending",
           \A i \in DOMAIN due : status'[due[i]] = "pending" /\ due[i] # j,
           due' = Append(due, j)
    PROVE  due' \in Seq(Jobs) /\ DueInv'
<1>1. due \in Seq(Jobs)
  BY DEF TypeOK
<1>2. /\ due' \in Seq(Jobs) /\ DOMAIN due' = DOMAIN due \union {Len(due) + 1}
      /\ due'[Len(due) + 1] = j
      /\ \A i \in DOMAIN due : due'[i] = due[i] /\ i # Len(due) + 1
  BY <1>1
<1>3. \A i \in DOMAIN due' : status'[due'[i]] = "pending"
  BY <1>2
<1>4. \A i, k \in DOMAIN due' : due'[i] = due'[k] => i = k
  BY <1>2 DEF DueInv
<1>5. QED BY <1>2, <1>3, <1>4 DEF DueInv

------------------------------------------------------------------------------
(* One transaction at a time *)

\* The invariants that a worker's release does not disturb: it only forgets its job.
LEMMA ReleaseKeeps ==
    ASSUME IInv, NEW w \in Workers, NEW state \in {"idle", "dead", "down"},
           Release(w, state),
           UNCHANGED <<spec, status, attempts, due, synced, taken, stray>>
    PROVE  Safe'
<1> USE JobQueueAssumption
<1>1. DueInv' /\ TakenInv' /\ CountInv' /\ RetriesBounded' /\ SyncedIsFinal'
  BY DEF IInv, Safe, DueInv, TakenInv, CountInv, RetriesBounded, SyncedIsFinal
<1>2. /\ job' = [job EXCEPT ![w] = NoJob] /\ seen' = [seen EXCEPT ![w] = 0]
      /\ worker' = [worker EXCEPT ![w] = state]
  BY DEF Release
<1>3. RowInv'
  BY <1>2 DEF IInv, Safe, TypeOK, RowInv
<1>4. WorkInv'
  BY <1>2 DEF IInv, Safe, TypeOK, WorkInv
<1>5. OneRunnerPerJob'
  BY <1>2 DEF IInv, Safe, TypeOK, OneRunnerPerJob
<1>6. QED BY <1>1, <1>3, <1>4, <1>5 DEF Safe

\* The variables keep their types.
LEMMA TypeStep ==
    ASSUME TypeOK, DueInv, WorkInv, [Next]_vars
    PROVE  TypeOK'
<1> USE JobQueueAssumption DEF TypeOK, Terminal, jobVars, workerVars, httpVars
<1>0. ASSUME NEW w \in Workers, NEW state \in {"idle", "dead", "down"},
             Release(w, state)
      PROVE  /\ worker' \in [Workers -> {"idle", "working", "synced", "dead", "down"}]
             /\ job' \in [Workers -> Jobs \union {NoJob}]
             /\ seen' \in [Workers -> Nat]
  BY <1>0 DEF Release
<1>1. ASSUME NEW j \in Jobs, SaveSpec(j) \/ UploadFails(j) \/ DeleteOld(j)
      PROVE  TypeOK'
  <2>1. CASE SaveSpec(j) BY <2>1 DEF SaveSpec
  <2>2. CASE UploadFails(j) BY <2>2 DEF UploadFails
  <2>3. CASE DeleteOld(j) BY <2>3 DEF DeleteOld
  <2>4. QED BY <1>1, <2>1, <2>2, <2>3
<1>2. ASSUME NEW j \in Jobs, EnqueueJob(j) \/ BackoffOver(j) PROVE TypeOK'
  <2>1. Append(due, j) \in Seq(Jobs)
    OBVIOUS
  <2>2. CASE EnqueueJob(j) BY <2>1, <2>2 DEF EnqueueJob
  <2>3. CASE BackoffOver(j) BY <2>1, <2>3 DEF BackoffOver
  <2>4. QED BY <1>2, <2>2, <2>3
<1>3. ASSUME NEW j \in Jobs, PostComplete(j) \/ PostFail(j) PROVE TypeOK'
  <2>1. due' \in Seq(Jobs)
    BY <1>3, UnqueueRemoves DEF PostComplete, PostFail, MarkCompleted, MarkFailed
  <2>2. QED BY <1>3, <2>1
            DEF PostComplete, PostFail, MarkCompleted, MarkFailed, Posted
<1>4. CASE PostClaim
  <2>1. PICK org \in Range(OrgOf), j \in Jobs :
          /\ ClaimNext(j, {k \in Jobs : OrgOf[k] = org})
          /\ taken' = taken \union {j}
    BY <1>4 DEF PostClaim
  <2>2. due' \in Seq(Jobs)
    BY <2>1, ClaimKeepsQueue
  <2>3. QED BY <1>4, <2>1, <2>2 DEF PostClaim, ClaimNext
<1>5. ASSUME NEW w \in Workers, WorkerClaims(w) PROVE TypeOK'
  <2>1. PICK j \in Jobs : /\ ClaimNext(j, Jobs)
                          /\ job' = [job EXCEPT ![w] = j]
                          /\ seen' = [seen EXCEPT ![w] = attempts'[j]]
    BY <1>5 DEF WorkerClaims
  <2>2. due' \in Seq(Jobs)
    BY <2>1, ClaimKeepsQueue
  <2>3. attempts' \in [Jobs -> Nat] /\ status' = [status EXCEPT ![j] = "running"]
    BY <2>1 DEF ClaimNext
  <2>4. QED BY <1>5, <2>1, <2>2, <2>3 DEF WorkerClaims
<1>6. ASSUME NEW w \in Workers, WorkerSyncs(w) PROVE TypeOK'
  BY <1>6 DEF WorkerSyncs, WorkInv
<1>7. ASSUME NEW w \in Workers, WorkerCompletes(w) \/ WorkerFails(w)
      PROVE  TypeOK'
  <2>1. job[w] \in Jobs
    BY <1>7 DEF WorkerCompletes, WorkerFails, WorkInv
  <2>2. due' \in Seq(Jobs)
    BY <1>7, <2>1, UnqueueRemoves
       DEF WorkerCompletes, WorkerFails, MarkCompleted, MarkFailed
  <2>3. status' \in [Jobs -> {"none", "pending", "running", "deleted"} \union Terminal]
    BY <1>7, <2>1 DEF WorkerCompletes, WorkerFails, MarkCompleted, MarkFailed
  <2>4. UNCHANGED <<spec, attempts, synced, taken, stray, faults>>
        /\ Release(w, "idle")
    BY <1>7 DEF WorkerCompletes, WorkerFails, MarkCompleted, MarkFailed
  <2>5. QED BY <1>0, <2>2, <2>3, <2>4
<1>8. ASSUME NEW w \in Workers,
             \/ WorkerLosesRow(w) \/ WorkerDies(w)
             \/ ProcessCrashes(w) \/ ProcessRestarts(w)
      PROVE  TypeOK'
  <2>1. UNCHANGED <<spec, status, attempts, due, synced, taken, stray>>
        /\ faults' \in 0..MaxFaults
    BY <1>8 DEF WorkerLosesRow, WorkerDies, ProcessCrashes, ProcessRestarts
  <2>2. \E state \in {"idle", "dead", "down"} : Release(w, state)
    BY <1>8 DEF WorkerLosesRow, WorkerDies, ProcessCrashes, ProcessRestarts
  <2>3. QED BY <1>0, <2>1, <2>2
<1>9. CASE UNCHANGED vars
  BY <1>9 DEF vars
<1>10. QED BY <1>1, <1>2, <1>3, <1>4, <1>5, <1>6, <1>7, <1>8, <1>9 DEF Next, Work

\* Every transaction keeps the other invariants.
LEMMA SafeStep ==
    ASSUME IInv, [Next]_vars
    PROVE  Safe'
<1> USE JobQueueAssumption DEF IInv, Safe, jobVars, workerVars, httpVars
<1> DEFINE Rest == /\ RowInv' /\ WorkInv' /\ TakenInv' /\ CountInv'
                   /\ OneRunnerPerJob' /\ RetriesBounded' /\ SyncedIsFinal'
<1>1. ASSUME NEW j \in Jobs, SaveSpec(j) \/ UploadFails(j) PROVE Safe'
  <2>1. /\ UNCHANGED <<jobVars, workerVars, httpVars>>
        /\ spec[j] # "queued"
        /\ spec' \in {[spec EXCEPT ![j] = "saved"], [spec EXCEPT ![j] = "jobless"]}
    BY <1>1 DEF SaveSpec, UploadFails
  <2>2. DueInv' /\ WorkInv' /\ TakenInv' /\ CountInv'
    BY <2>1 DEF DueInv, WorkInv, TakenInv, CountInv
  <2>3. OneRunnerPerJob' /\ RetriesBounded' /\ SyncedIsFinal'
    BY <2>1 DEF OneRunnerPerJob, RetriesBounded, SyncedIsFinal
  <2>4. RowInv'
    BY <2>1 DEF RowInv, TypeOK
  <2>5. QED BY <2>2, <2>3, <2>4
<1>2. ASSUME NEW j \in Jobs, EnqueueJob(j) PROVE Safe'
  <2>1. /\ spec' = [spec EXCEPT ![j] = "queued"]
        /\ status' = [status EXCEPT ![j] = "pending"]
        /\ UNCHANGED <<attempts, workerVars, httpVars>>
        /\ status[j] = "none" /\ attempts[j] = 0
        /\ j \notin synced /\ j \notin taken /\ \A w \in Workers : job[w] # j
    BY <1>2 DEF EnqueueJob, RowInv
  <2>2. DueInv'
    <3>1. \A i \in DOMAIN due : due[i] # j /\ due[i] \in Jobs
      BY <2>1 DEF DueInv, TypeOK
    <3>2. \A i \in DOMAIN due : status'[due[i]] = "pending" /\ due[i] # j
      BY <2>1, <3>1 DEF DueInv, TypeOK
    <3>3. status'[j] = "pending" /\ due' = Append(due, j)
      BY <1>2, <2>1 DEF EnqueueJob, TypeOK
    <3>4. QED BY <3>2, <3>3, AppendKeepsQueue
  <2>3. RowInv' /\ WorkInv' /\ TakenInv' /\ CountInv'
    BY <2>1 DEF RowInv, WorkInv, TakenInv, CountInv, TypeOK
  <2>4. OneRunnerPerJob' /\ RetriesBounded' /\ SyncedIsFinal'
    BY <2>1 DEF OneRunnerPerJob, RetriesBounded, SyncedIsFinal, TypeOK
  <2>5. QED BY <2>2, <2>3, <2>4
<1>3. ASSUME NEW j \in Jobs, BackoffOver(j) PROVE Safe'
  <2>1. UNCHANGED <<spec, status, attempts, workerVars, httpVars>>
    BY <1>3 DEF BackoffOver
  <2>2. DueInv'
    <3>1. \A i \in DOMAIN due : status'[due[i]] = "pending" /\ due[i] # j
      BY <1>3 DEF BackoffOver, DueInv, Range
    <3>2. QED BY <1>3, <3>1, AppendKeepsQueue DEF BackoffOver
  <2>3. Rest
    BY <2>1 DEF RowInv, WorkInv, TakenInv, CountInv,
                OneRunnerPerJob, RetriesBounded, SyncedIsFinal
  <2>4. QED BY <2>2, <2>3
<1>4. ASSUME NEW j \in Jobs, DeleteOld(j) PROVE Safe'
  <2>1. /\ status[j] \in {"completed", "failed"}
        /\ status' = [status EXCEPT ![j] = "deleted"]
        /\ UNCHANGED <<spec, attempts, due, workerVars, httpVars>>
    BY <1>4 DEF DeleteOld, Terminal
  <2>2. DueInv'
    BY <2>1 DEF DueInv, TypeOK
  <2>3. RowInv' /\ WorkInv' /\ TakenInv' /\ CountInv'
    BY <2>1 DEF RowInv, WorkInv, TakenInv, CountInv, TypeOK
  <2>4. OneRunnerPerJob' /\ RetriesBounded' /\ SyncedIsFinal'
    BY <2>1 DEF OneRunnerPerJob, RetriesBounded, SyncedIsFinal, TypeOK
  <2>5. QED BY <2>2, <2>3, <2>4
<1>5. ASSUME NEW j \in Jobs, PostComplete(j) \/ PostFail(j) PROVE Safe'
  <2>1. /\ status[j] \notin {"none", "deleted"}
        /\ UNCHANGED <<spec, attempts, workerVars>>
        /\ due' = Unqueue(j)
        /\ taken' = taken \ {j}
        /\ stray' = IF j \in taken THEN stray ELSE stray \union {j}
    BY <1>5 DEF PostComplete, PostFail, Present, MarkCompleted, MarkFailed, Posted
  <2>2. PICK s \in {"completed", "failed", "pending"} :
          /\ status' = [status EXCEPT ![j] = s]
          /\ s = "failed" => attempts[j] >= MaxAttempts
          /\ s = "pending" => ~(attempts[j] >= MaxAttempts)
    BY <1>5 DEF PostComplete, PostFail, MarkCompleted, MarkFailed
  <2>3. j \notin stray' => /\ status[j] = "running" /\ j \notin synced
                           /\ \A w \in Workers : job[w] # j
    BY <2>1 DEF TakenInv, OneRunnerPerJob, TypeOK
  <2>4. DueInv'
    BY <2>1, <2>2, MarkKeepsQueue
  <2>5. RowInv' /\ WorkInv' /\ TakenInv' /\ CountInv'
    BY <2>1, <2>2, <2>3 DEF RowInv, WorkInv, TakenInv, CountInv, TypeOK
  <2>6. OneRunnerPerJob' /\ SyncedIsFinal'
    BY <2>1, <2>2, <2>3 DEF OneRunnerPerJob, SyncedIsFinal, TypeOK
  <2>7. RetriesBounded'
    BY <2>1, <2>2, <2>3 DEF RetriesBounded, CountInv, TypeOK
  <2>8. QED BY <2>4, <2>5, <2>6, <2>7
<1>6. CASE PostClaim
  <2>1. PICK org \in Range(OrgOf), j \in Jobs :
          /\ ClaimNext(j, {k \in Jobs : OrgOf[k] = org})
          /\ taken' = taken \union {j}
    BY <1>6 DEF PostClaim
  <2>2. DueInv' /\ status[j] = "pending"
    BY <2>1, ClaimKeepsQueue
  <2>3. /\ status' = [status EXCEPT ![j] = "running"]
        /\ attempts' = [attempts EXCEPT ![j] = @ + 1]
        /\ UNCHANGED <<spec, workerVars, stray>>
    BY <1>6, <2>1 DEF PostClaim, ClaimNext
  <2>4. RowInv' /\ WorkInv'
    BY <2>1, <2>2, <2>3 DEF RowInv, WorkInv, TypeOK
  <2>5. TakenInv' /\ SyncedIsFinal'
    <3>1. j \notin synced \ stray
      BY <2>2 DEF SyncedIsFinal
    <3>2. TakenInv'
      BY <2>1, <2>3, <3>1 DEF TakenInv, TypeOK
    <3>3. SyncedIsFinal'
      BY <2>3, <3>1 DEF SyncedIsFinal, TypeOK
    <3>4. QED BY <3>2, <3>3
  <2>6. CountInv' /\ RetriesBounded'
    BY <2>1, <2>2, <2>3 DEF CountInv, RetriesBounded, TypeOK
  <2>7. OneRunnerPerJob'
    BY <2>1, <2>2, <2>3 DEF OneRunnerPerJob, TypeOK
  <2>8. QED BY <2>2, <2>4, <2>5, <2>6, <2>7
<1>7. ASSUME NEW w \in Workers, WorkerClaims(w) PROVE Safe'
  <2>1. PICK j \in Jobs : /\ ClaimNext(j, Jobs)
                          /\ job' = [job EXCEPT ![w] = j]
                          /\ seen' = [seen EXCEPT ![w] = attempts'[j]]
    BY <1>7 DEF WorkerClaims
  <2>2. DueInv' /\ status[j] = "pending"
    BY <2>1, ClaimKeepsQueue
  <2>3. /\ status' = [status EXCEPT ![j] = "running"]
        /\ attempts' = [attempts EXCEPT ![j] = @ + 1]
        /\ worker[w] = "idle" /\ worker' = [worker EXCEPT ![w] = "working"]
        /\ UNCHANGED <<spec, synced, httpVars>>
    BY <1>7, <2>1 DEF WorkerClaims, ClaimNext
  <2>4. RowInv'
    BY <2>1, <2>2, <2>3 DEF RowInv, TypeOK
  <2>5. WorkInv'
    BY <2>1, <2>2, <2>3 DEF WorkInv, TypeOK
  <2>6. TakenInv' /\ SyncedIsFinal'
    BY <2>2, <2>3 DEF TakenInv, SyncedIsFinal, TypeOK
  <2>7. CountInv' /\ RetriesBounded'
    BY <2>2, <2>3 DEF CountInv, RetriesBounded, TypeOK
  <2>8. OneRunnerPerJob'
    BY <2>1, <2>2, <2>3 DEF OneRunnerPerJob, TakenInv, TypeOK
  <2>9. QED BY <2>2, <2>4, <2>5, <2>6, <2>7, <2>8
<1>8. ASSUME NEW w \in Workers, WorkerSyncs(w) PROVE Safe'
  <2>1. /\ job[w] \in Jobs \ Bad
        /\ synced' = synced \union {job[w]}
        /\ worker' = [worker EXCEPT ![w] = "synced"] /\ worker[w] = "working"
        /\ UNCHANGED <<spec, jobVars, job, seen, httpVars>>
    BY <1>8 DEF WorkerSyncs, WorkInv, TypeOK
  <2>2. job[w] \notin stray => status[job[w]] = "running" /\ job[w] \notin taken
    BY <2>1 DEF OneRunnerPerJob
  <2>3. DueInv' /\ OneRunnerPerJob' /\ CountInv' /\ RetriesBounded'
    BY <2>1 DEF DueInv, OneRunnerPerJob, CountInv, RetriesBounded
  <2>4. RowInv' /\ WorkInv'
    BY <2>1 DEF RowInv, WorkInv, TypeOK
  <2>5. TakenInv' /\ SyncedIsFinal'
    BY <2>1, <2>2 DEF TakenInv, SyncedIsFinal
  <2>6. QED BY <2>3, <2>4, <2>5
<1>9. ASSUME NEW w \in Workers, WorkerCompletes(w) \/ WorkerFails(w) PROVE Safe'
  <2>1. /\ job[w] \in Jobs /\ status[job[w]] # "deleted"
        /\ UNCHANGED <<spec, attempts, synced, httpVars>>
        /\ due' = Unqueue(job[w])
        /\ job' = [job EXCEPT ![w] = NoJob] /\ seen' = [seen EXCEPT ![w] = 0]
        /\ worker' = [worker EXCEPT ![w] = "idle"]
    BY <1>9 DEF WorkerCompletes, WorkerFails, MarkCompleted, MarkFailed, Release,
                WorkInv, TypeOK
  <2>2. PICK s \in {"completed", "failed", "pending"} :
          /\ status' = [status EXCEPT ![job[w]] = s]
          /\ s = "failed" => seen[w] >= MaxAttempts
          /\ s = "pending" => ~(seen[w] >= MaxAttempts)
          /\ s # "completed" => job[w] \in Bad
    BY <1>9 DEF WorkerCompletes, WorkerFails, MarkCompleted, MarkFailed
  <2>3. job[w] \notin stray =>
          /\ status[job[w]] = "running" /\ attempts[job[w]] = seen[w]
          /\ job[w] \notin taken
          /\ \A v \in Workers \ {w} : job[v] # job[w]
    BY <2>1 DEF OneRunnerPerJob
  <2>4. DueInv'
    BY <2>1, <2>2, MarkKeepsQueue
  <2>5. RowInv' /\ WorkInv'
    BY <2>1, <2>2 DEF RowInv, WorkInv, TypeOK
  <2>6. TakenInv' /\ SyncedIsFinal'
    BY <2>1, <2>2, <2>3 DEF TakenInv, SyncedIsFinal, WorkInv, TypeOK
  <2>7. CountInv' /\ RetriesBounded'
    BY <2>1, <2>2, <2>3 DEF CountInv, RetriesBounded, TypeOK
  <2>8. OneRunnerPerJob'
    BY <2>1, <2>2, <2>3 DEF OneRunnerPerJob, TypeOK
  <2>9. QED BY <2>4, <2>5, <2>6, <2>7, <2>8
<1>10. ASSUME NEW w \in Workers,
              \/ WorkerLosesRow(w) \/ WorkerDies(w)
              \/ ProcessCrashes(w) \/ ProcessRestarts(w)
       PROVE  Safe'
  <2>1. UNCHANGED <<spec, status, attempts, due, synced, taken, stray>>
    BY <1>10 DEF WorkerLosesRow, WorkerDies, ProcessCrashes, ProcessRestarts
  <2>2. \E state \in {"idle", "dead", "down"} : Release(w, state)
    BY <1>10 DEF WorkerLosesRow, WorkerDies, ProcessCrashes, ProcessRestarts
  <2>3. QED BY <2>1, <2>2, ReleaseKeeps
<1>11. CASE UNCHANGED vars
  BY <1>11 DEF vars, DueInv, RowInv, WorkInv, TakenInv, CountInv,
               OneRunnerPerJob, RetriesBounded, SyncedIsFinal
<1>12. QED BY <1>1, <1>2, <1>3, <1>4, <1>5, <1>6, <1>7, <1>8, <1>9, <1>10, <1>11
           DEF Next, Work

------------------------------------------------------------------------------

\* The inductive invariant.
THEOREM QueueInvariant == Spec => []IInv
<1>1. Init => IInv
  <2> SUFFICES ASSUME Init PROVE IInv
    OBVIOUS
  <2>1. TypeOK /\ due = << >>
    BY JobQueueAssumption DEF Init, TypeOK
  <2>2. Safe
    BY <2>1, JobQueueAssumption
       DEF Init, Safe, DueInv, RowInv, WorkInv, TakenInv, CountInv,
           OneRunnerPerJob, RetriesBounded, SyncedIsFinal
  <2>3. QED BY <2>1, <2>2 DEF IInv
<1>2. IInv /\ [Next]_vars => IInv'
  BY TypeStep, SafeStep DEF IInv, Safe
<1>3. QED BY <1>1, <1>2, PTL DEF Spec

\* The variables keep their types.
THEOREM QueueTypes == Spec => []TypeOK
<1>1. IInv => TypeOK
  BY DEF IInv
<1>2. QED BY <1>1, QueueInvariant, PTL

\* A job has one runner, a worker or an HTTP client, whatever crashes in between,
\* unless a stray mark put it back (claim_next_job, SKIP LOCKED).
THEOREM JobHasOneRunner == Spec => []OneRunnerPerJob
<1>1. IInv => OneRunnerPerJob
  BY DEF IInv, Safe
<1>2. QED BY <1>1, QueueInvariant, PTL

\* A job is given up after exactly max_attempts tries (mark_job_failed_with_backoff).
THEOREM TriesAreBounded == Spec => []RetriesBounded
<1>1. IInv => RetriesBounded
  BY DEF IInv, Safe
<1>2. QED BY <1>1, QueueInvariant, PTL

\* A job whose contracts were committed is not run again nor given up.
THEOREM SyncHappensOnce == Spec => []SyncedIsFinal
<1>1. IInv => SyncedIsFinal
  BY DEF IInv, Safe
<1>2. QED BY <1>1, QueueInvariant, PTL

------------------------------------------------------------------------------
(* Why jobs settle *)

Due(j) == \E i \in DOMAIN due : due[i] = j

\* How many changes of its row a job is at most away from its end: each attempt is
\* due, claimed and failed, and the last one ends it; a settled job may be deleted.
Rank(j) ==
    CASE status[j] = "none" -> 3 * MaxAttempts + 3
      [] status[j] = "pending" -> 3 * (MaxAttempts - attempts[j]) + (IF Due(j) THEN 1 ELSE 2)
      [] status[j] = "running" -> 3 * (MaxAttempts - attempts[j]) + 3
      [] status[j] \in Terminal -> 1
      [] OTHER -> 0

\* It is never further than that.
RankBounded == \A j \in Jobs \ stray : Rank(j) \in 0..(3 * MaxAttempts + 3)

\* The row of a job changes only towards its end, unless a client marks the job over
\* HTTP without having claimed it.
RunsDown ==
    \A j \in Jobs : j \notin stray' =>
        \/ status'[j] = status[j] /\ attempts'[j] = attempts[j] /\ (Due(j)' <=> Due(j))
        \/ Rank(j)' < Rank(j)

\* A mark takes its job and no other out of the queue.
LEMMA MarkKeepsOthers ==
    ASSUME TypeOK, DueInv, NEW j \in Jobs, due' = Unqueue(j), NEW m \in Jobs
    PROVE  /\ ~Due(j)'
           /\ m # j => (Due(m)' <=> Due(m))
BY UnqueueRemoves DEF Due

\* A claim takes its job, which was due, and no other out of the queue.
LEMMA ClaimKeepsOthers ==
    ASSUME TypeOK, DueInv, NEW S, NEW j, ClaimNext(j, S), NEW m \in Jobs
    PROVE  /\ Due(j)
           /\ m # j => (Due(m)' <=> Due(m))
<1>1. Due(j) /\ due' = Unqueue(j)
  BY DEF ClaimNext, First, Due
<1>2. j \in Jobs
  BY ClaimKeepsQueue
<1>3. QED BY <1>1, <1>2, MarkKeepsOthers

\* A job that becomes due leaves the others where they are.
LEMMA AppendKeepsOthers ==
    ASSUME TypeOK, NEW j \in Jobs, due' = Append(due, j), NEW m \in Jobs
    PROVE  /\ Due(j)'
           /\ m # j => (Due(m)' <=> Due(m))
<1>1. due \in Seq(Jobs)
  BY DEF TypeOK
<1>2. /\ DOMAIN due' = DOMAIN due \union {Len(due) + 1}
      /\ due'[Len(due) + 1] = j
      /\ \A i \in DOMAIN due : due'[i] = due[i]
  BY <1>1
<1>3. QED BY <1>2 DEF Due

\* What a transaction may do to the row of a job.
Changed(j) ==
    \/ status'[j] = status[j] /\ attempts'[j] = attempts[j] /\ (Due(j)' <=> Due(j))
    \/ status[j] = "none" /\ status'[j] = "pending" /\ attempts'[j] = 0
    \/ /\ status[j] = "pending" /\ ~Due(j)
       /\ status'[j] = "pending" /\ attempts'[j] = attempts[j] /\ Due(j)'
    \/ /\ status[j] = "pending" /\ Due(j)
       /\ status'[j] = "running" /\ attempts'[j] = attempts[j] + 1
    \/ /\ status[j] = "running"
       /\ status'[j] = "pending" /\ attempts'[j] = attempts[j] /\ ~Due(j)'
    \/ status[j] = "running" /\ status'[j] \in Terminal
    \/ status[j] \in Terminal /\ status'[j] = "deleted"

\* Each of them brings the job nearer to its end.
LEMMA ChangeLowers ==
    ASSUME IInv, NEW j \in Jobs, j \notin stray, Changed(j)
    PROVE  \/ status'[j] = status[j] /\ attempts'[j] = attempts[j] /\ (Due(j)' <=> Due(j))
           \/ Rank(j)' < Rank(j)
<1>1. MaxAttempts \in Nat /\ MaxAttempts > 0
  BY JobQueueAssumption
<1>2. /\ attempts[j] \in Nat
      /\ status[j] \in {"pending", "running"} => attempts[j] <= MaxAttempts
  BY DEF IInv, Safe, TypeOK, RetriesBounded
<1>3. CASE status[j] = "none" /\ status'[j] = "pending" /\ attempts'[j] = 0
  <2>1. Rank(j) = 3 * MaxAttempts + 3
    BY <1>3 DEF Rank, Terminal
  <2>2. Rank(j)' = 3 * (MaxAttempts - 0) + (IF Due(j)' THEN 1 ELSE 2)
    BY <1>3 DEF Rank, Terminal
  <2>3. QED BY <1>1, <2>1, <2>2
<1>4. CASE /\ status[j] = "pending" /\ ~Due(j)
           /\ status'[j] = "pending" /\ attempts'[j] = attempts[j] /\ Due(j)'
  <2>1. Rank(j) = 3 * (MaxAttempts - attempts[j]) + 2
    BY <1>4 DEF Rank, Terminal
  <2>2. Rank(j)' = 3 * (MaxAttempts - attempts[j]) + 1
    BY <1>4 DEF Rank, Terminal
  <2>3. QED BY <1>1, <1>2, <2>1, <2>2
<1>5. CASE /\ status[j] = "pending" /\ Due(j)
           /\ status'[j] = "running" /\ attempts'[j] = attempts[j] + 1
  <2>1. Rank(j) = 3 * (MaxAttempts - attempts[j]) + 1
    BY <1>5 DEF Rank, Terminal
  <2>2. Rank(j)' = 3 * (MaxAttempts - (attempts[j] + 1)) + 3
    BY <1>5 DEF Rank, Terminal
  <2>3. QED BY <1>1, <1>2, <2>1, <2>2
<1>6. CASE /\ status[j] = "running"
           /\ status'[j] = "pending" /\ attempts'[j] = attempts[j] /\ ~Due(j)'
  <2>1. Rank(j) = 3 * (MaxAttempts - attempts[j]) + 3
    BY <1>6 DEF Rank, Terminal
  <2>2. Rank(j)' = 3 * (MaxAttempts - attempts[j]) + 2
    BY <1>6 DEF Rank, Terminal
  <2>3. QED BY <1>1, <1>2, <2>1, <2>2
<1>7. CASE status[j] = "running" /\ status'[j] \in Terminal
  <2>1. Rank(j) = 3 * (MaxAttempts - attempts[j]) + 3
    BY <1>7 DEF Rank, Terminal
  <2>2. Rank(j)' = 1
    BY <1>7 DEF Rank, Terminal
  <2>3. QED BY <1>1, <1>2, <1>7, <2>1, <2>2
<1>8. CASE status[j] \in Terminal /\ status'[j] = "deleted"
  <2>1. Rank(j) = 1 /\ Rank(j)' = 0
    BY <1>8 DEF Rank, Terminal
  <2>2. QED BY <2>1
<1>9. QED BY <1>3, <1>4, <1>5, <1>6, <1>7, <1>8 DEF Changed

\* No transaction does anything else to a row that no client has marked astray.
LEMMA StepChanges ==
    ASSUME IInv, [Next]_vars, NEW m \in Jobs, m \notin stray'
    PROVE  Changed(m) /\ m \notin stray
<1> USE DEF jobVars, workerVars, httpVars
<1>0. /\ TypeOK /\ DueInv /\ RowInv /\ WorkInv /\ OneRunnerPerJob /\ RetriesBounded
      /\ TakenInv
  BY DEF IInv, Safe
<1>1. CASE UNCHANGED <<status, attempts, due, stray>>
  BY <1>1 DEF Changed, Due
<1>2. ASSUME NEW j \in Jobs, EnqueueJob(j) PROVE Changed(m) /\ m \notin stray
  <2>1. /\ status[j] = "none" /\ attempts[j] = 0
        /\ status' = [status EXCEPT ![j] = "pending"]
        /\ UNCHANGED <<attempts, stray>>
    BY <1>0, <1>2 DEF EnqueueJob, RowInv
  <2>2. Due(j)' /\ (m # j => (Due(m)' <=> Due(m)))
    BY <1>0, <1>2, AppendKeepsOthers DEF EnqueueJob
  <2>3. QED BY <1>0, <2>1, <2>2 DEF Changed, TypeOK
<1>3. ASSUME NEW j \in Jobs, BackoffOver(j) PROVE Changed(m) /\ m \notin stray
  <2>1. status[j] = "pending" /\ ~Due(j) /\ UNCHANGED <<status, attempts, stray>>
    BY <1>3 DEF BackoffOver, Range, Due
  <2>2. Due(j)' /\ (m # j => (Due(m)' <=> Due(m)))
    BY <1>0, <1>3, AppendKeepsOthers DEF BackoffOver
  <2>3. QED BY <2>1, <2>2 DEF Changed
<1>4. ASSUME NEW j \in Jobs, DeleteOld(j) PROVE Changed(m) /\ m \notin stray
  <2>1. /\ status[j] \in Terminal /\ status' = [status EXCEPT ![j] = "deleted"]
        /\ UNCHANGED <<attempts, due, stray>>
    BY <1>4 DEF DeleteOld
  <2>2. QED BY <1>0, <2>1 DEF Changed, Due, TypeOK
<1>5. ASSUME NEW S, NEW j, ClaimNext(j, S), UNCHANGED stray PROVE Changed(m) /\ m \notin stray
  <2>1. j \in Jobs /\ status[j] = "pending"
    BY <1>0, <1>5, ClaimKeepsQueue
  <2>2. /\ status' = [status EXCEPT ![j] = "running"]
        /\ attempts' = [attempts EXCEPT ![j] = @ + 1]
    BY <1>5 DEF ClaimNext
  <2>3. Due(j) /\ (m # j => (Due(m)' <=> Due(m)))
    BY <1>0, <1>5, ClaimKeepsOthers
  <2>4. QED BY <1>0, <1>5, <2>1, <2>2, <2>3 DEF Changed, TypeOK
<1>6. ASSUME NEW j \in Jobs, NEW s \in {"completed", "failed", "pending"},
             status' = [status EXCEPT ![j] = s], due' = Unqueue(j), UNCHANGED attempts,
             m \notin stray, m = j => status[j] = "running"
      PROVE  Changed(m) /\ m \notin stray
  <2>1. ~Due(j)' /\ (m # j => (Due(m)' <=> Due(m)))
    BY <1>0, <1>6, MarkKeepsOthers
  <2>2. CASE m # j BY <1>0, <1>6, <2>1, <2>2 DEF Changed, TypeOK
  <2>3. CASE m = j BY <1>0, <1>6, <2>1, <2>3 DEF Changed, TypeOK, Terminal
  <2>4. QED BY <2>2, <2>3
<1>7. ASSUME NEW j \in Jobs, PostComplete(j) \/ PostFail(j) PROVE Changed(m) /\ m \notin stray
  <2>1. stray' = IF j \in taken THEN stray ELSE stray \union {j}
    BY <1>7 DEF PostComplete, PostFail, Posted
  <2>2. m \notin stray /\ (m = j => status[j] = "running")
    BY <1>0, <2>1 DEF TakenInv
  <2>3. /\ due' = Unqueue(j) /\ UNCHANGED attempts
        /\ \E s \in {"completed", "failed", "pending"} : status' = [status EXCEPT ![j] = s]
    BY <1>7 DEF PostComplete, PostFail, MarkCompleted, MarkFailed
  <2>4. QED BY <1>6, <2>2, <2>3
<1>8. ASSUME NEW w \in Workers, WorkerCompletes(w) \/ WorkerFails(w)
      PROVE  Changed(m) /\ m \notin stray
  <2>1. job[w] # NoJob /\ job[w] \in Jobs
    BY <1>0, <1>8 DEF WorkerCompletes, WorkerFails, WorkInv, TypeOK
  <2>2. m \notin stray /\ (m = job[w] => status[job[w]] = "running")
    BY <1>0, <1>8, <2>1 DEF WorkerCompletes, WorkerFails, OneRunnerPerJob
  <2>3. /\ due' = Unqueue(job[w]) /\ UNCHANGED attempts
        /\ \E s \in {"completed", "failed", "pending"} :
              status' = [status EXCEPT ![job[w]] = s]
    BY <1>8 DEF WorkerCompletes, WorkerFails, MarkCompleted, MarkFailed
  <2>4. QED BY <1>6, <2>1, <2>2, <2>3
<1>9. CASE PostClaim
  BY <1>5, <1>9 DEF PostClaim
<1>10. ASSUME NEW w \in Workers, WorkerClaims(w) PROVE Changed(m) /\ m \notin stray
  BY <1>5, <1>10 DEF WorkerClaims
<1>11. QED
  BY <1>1, <1>2, <1>3, <1>4, <1>7, <1>8, <1>9, <1>10
     DEF Next, Work, SaveSpec, UploadFails, WorkerSyncs, WorkerLosesRow, WorkerDies,
         ProcessCrashes, ProcessRestarts, vars

\* A job's row changes at most 3 * max_attempts + 3 times, each time towards its end,
\* unless a client marks it astray: no crash, backoff or clean-up starts it over.
THEOREM JobsRunDown == Spec => []RankBounded /\ [][RunsDown]_vars
<1>1. IInv => RankBounded
  <2> SUFFICES ASSUME IInv, NEW j \in Jobs \ stray
               PROVE  Rank(j) \in 0..(3 * MaxAttempts + 3)
    BY DEF RankBounded
  <2>1. MaxAttempts \in Nat /\ MaxAttempts > 0
    BY JobQueueAssumption
  <2>2. attempts[j] \in 0..MaxAttempts
    BY <2>1 DEF IInv, Safe, TypeOK, RetriesBounded
  <2>3. PICK n \in {0, 1, 2, 3} :
          Rank(j) \in {3 * MaxAttempts + 3, 3 * (MaxAttempts - attempts[j]) + n, 1, 0}
    BY DEF Rank, Terminal
  <2>4. QED BY <2>1, <2>2, <2>3
<1>2. IInv /\ [Next]_vars => [RunsDown]_vars
  BY StepChanges, ChangeLowers DEF RunsDown
<1>3. QED BY <1>1, <1>2, QueueInvariant, PTL DEF Spec

==============================================================================
