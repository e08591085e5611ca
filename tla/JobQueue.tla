-------------------------------- MODULE JobQueue --------------------------------
(***************************************************************************)
(* The jobs table of the control plane and everybody who works on it:      *)
(* app/services/job_service.py, app/services/job_worker.py and the job     *)
(* routes of app/routers/contracts.py.                                     *)
(*                                                                         *)
(* An upload commits its OpenAPI spec and then enqueues a job for it.  The *)
(* JobWorker task of each control-plane process claims due jobs, syncs the *)
(* contracts and marks the job.  Admins may claim jobs of their own        *)
(* organisation over HTTP too, and may mark any job, whoever runs it.      *)
(* Every transaction is one action.                                        *)
(*                                                                         *)
(* run_at is modelled by order: due holds the pending jobs whose run_at    *)
(* has passed, by run_at; the other pending jobs wait out their backoff.   *)
(***************************************************************************)
EXTENDS Naturals, Sequences, Functions

CONSTANTS
    Jobs,         \* one job per uploaded spec
    OrgOf,        \* OrgOf[j]: the organisation of job j
    Bad,          \* jobs whose sync raises: unknown type, payload or spec
    Workers,      \* the JobWorker task of each control-plane process
    NoJob,        \* a worker works on nothing
    MaxAttempts,  \* max_attempts, 5 in the code
    MaxFaults     \* bound: how many crashes and database errors happen

ASSUME JobQueueAssumption ==
    /\ Bad \subseteq Jobs
    /\ NoJob \notin Jobs
    /\ MaxAttempts \in Nat \ {0}
    /\ MaxFaults \in Nat

VARIABLES
    spec,      \* spec[j]: the upload that leads to job j
    status,    \* status[j]: the status column, "none" before, "deleted" after
    attempts,  \* attempts[j]: the attempts column
    due,       \* the due pending jobs, ORDER BY run_at
    worker,    \* worker[w]: where the worker task is
    job,       \* job[w]: the Job object in its session
    seen,      \* seen[w]: the attempts that object was refreshed with
    synced,    \* jobs whose contracts were committed
    taken,     \* jobs claimed over HTTP and not marked since
    stray,     \* jobs marked over HTTP that were not taken that way
    faults     \* crashes and database errors so far

jobVars == <<status, attempts, due>>
workerVars == <<worker, job, seen, synced>>
httpVars == <<taken, stray>>
vars == <<spec, jobVars, workerVars, httpVars, faults>>

Init ==
    /\ spec = [j \in Jobs |-> "none"]
    /\ status = [j \in Jobs |-> "none"]
    /\ attempts = [j \in Jobs |-> 0]
    /\ due = <<>>
    /\ worker = [w \in Workers |-> "idle"]
    /\ job = [w \in Workers |-> NoJob]
    /\ seen = [w \in Workers |-> 0]
    /\ synced = {}
    /\ taken = {}
    /\ stray = {}
    /\ faults = 0

Terminal == {"completed", "failed"}

\* due without j, which is in it once at most.
Unqueue(j) ==
    IF \E i \in DOMAIN due : due[i] = j
    THEN LET at == CHOOSE i \in DOMAIN due : due[i] = j
         IN  SubSeq(due, 1, at - 1) \o SubSeq(due, at + 1, Len(due))
    ELSE due

------------------------------------------------------------------------------
(* Uploading a spec *)

\* upload_openapi commits the spec ...
SaveSpec(j) ==
    /\ spec[j] = "none"
    /\ spec' = [spec EXCEPT ![j] = "saved"]
    /\ UNCHANGED <<jobVars, workerVars, httpVars, faults>>

\* ... and enqueue_job commits its job in a transaction of its own.
EnqueueJob(j) ==
    /\ spec[j] = "saved"
    /\ spec' = [spec EXCEPT ![j] = "queued"]
    /\ status' = [status EXCEPT ![j] = "pending"]
    /\ due' = Append(due, j)
    /\ UNCHANGED <<attempts, workerVars, httpVars, faults>>

\* The process or the database fails between the two.
UploadFails(j) ==
    /\ spec[j] = "saved"
    /\ faults < MaxFaults
    /\ faults' = faults + 1
    /\ spec' = [spec EXCEPT ![j] = "jobless"]
    /\ UNCHANGED <<jobVars, workerVars, httpVars>>

------------------------------------------------------------------------------
(* Claiming and marking *)

\* The first due job of those in S: WHERE ... ORDER BY run_at ASC.
First(j, S) ==
    \E i \in DOMAIN due :
        /\ due[i] = j /\ j \in S
        /\ \A k \in 1..(i - 1) : due[k] \notin S

\* Slip: without the row lock two claims read the same row as pending.
ClaimNextUnlocked(j, S) ==
    /\ First(j, S)
    /\ due' \in {due, Unqueue(j)}
    /\ status' = [status EXCEPT ![j] = "running"]
    /\ attempts' = [attempts EXCEPT ![j] = @ + 1]

\* Slip: the attempt is not counted.
ClaimNextUncounted(j, S) ==
    /\ First(j, S)
    /\ due' = Unqueue(j)
    /\ status' = [status EXCEPT ![j] = "running"]
    /\ UNCHANGED attempts

\* The SELECT ... FOR UPDATE SKIP LOCKED LIMIT 1 among the jobs in S, and the update
\* of its row.
ClaimNext(j, S) ==
    /\ First(j, S)
    /\ due' = Unqueue(j)
    /\ status' = [status EXCEPT ![j] = "running"]
    /\ attempts' = [attempts EXCEPT ![j] = @ + 1]

\* mark_job_completed, whatever the status was.
MarkCompleted(j) ==
    /\ status' = [status EXCEPT ![j] = "completed"]
    /\ due' = Unqueue(j)
    /\ UNCHANGED attempts

\* Slip: one attempt too many.
MarkFailedLate(j, n) ==
    /\ status' = [status EXCEPT ![j] = IF n > MaxAttempts THEN "failed" ELSE "pending"]
    /\ due' = Unqueue(j)
    /\ UNCHANGED attempts

\* mark_job_failed_with_backoff, deciding by the attempts n of the Job object.
MarkFailed(j, n) ==
    /\ status' = [status EXCEPT ![j] = IF n >= MaxAttempts THEN "failed" ELSE "pending"]
    /\ due' = Unqueue(j)
    /\ UNCHANGED attempts

\* The backoff of a pending job is over.
BackoffOver(j) ==
    /\ status[j] = "pending"
    /\ j \notin Range(due)
    /\ due' = Append(due, j)
    /\ UNCHANGED <<spec, status, attempts, workerVars, httpVars, faults>>

\* delete_old_terminal_jobs, run by a live worker; any job may be old enough.
DeleteOld(j) ==
    /\ status[j] \in Terminal
    /\ \E w \in Workers : worker[w] = "idle"
    /\ status' = [status EXCEPT ![j] = "deleted"]
    /\ UNCHANGED <<spec, attempts, due, workerVars, httpVars, faults>>

------------------------------------------------------------------------------
(* JobWorker.run *)

\* claim_next_available_job: of any organisation.
WorkerClaims(w) ==
    /\ worker[w] = "idle"
    /\ \E j \in Jobs :
         /\ ClaimNext(j, Jobs)
         /\ job' = [job EXCEPT ![w] = j]
         /\ seen' = [seen EXCEPT ![w] = attempts'[j]]
    /\ worker' = [worker EXCEPT ![w] = "working"]
    /\ UNCHANGED <<spec, synced, httpVars, faults>>

\* sync_contracts_from_openapi commits the contracts.
WorkerSyncs(w) ==
    /\ worker[w] = "working"
    /\ job[w] \notin Bad
    /\ synced' = synced \union {job[w]}
    /\ worker' = [worker EXCEPT ![w] = "synced"]
    /\ UNCHANGED <<spec, jobVars, job, seen, httpVars, faults>>

Release(w, state) ==
    /\ worker' = [worker EXCEPT ![w] = state]
    /\ job' = [job EXCEPT ![w] = NoJob]
    /\ seen' = [seen EXCEPT ![w] = 0]

WorkerCompletes(w) ==
    /\ worker[w] = "synced"
    /\ status[job[w]] # "deleted"
    /\ MarkCompleted(job[w])
    /\ Release(w, "idle")
    /\ UNCHANGED <<spec, synced, httpVars, faults>>

\* Slip: every job goes through the except clause.
WorkerFailsAlways(w) ==
    /\ worker[w] \in {"working", "synced"}
    /\ status[job[w]] # "deleted"
    /\ MarkFailed(job[w], seen[w])
    /\ Release(w, "idle")
    /\ UNCHANGED <<spec, synced, httpVars, faults>>

\* The sync raised without touching the database session.
WorkerFails(w) ==
    /\ worker[w] = "working"
    /\ job[w] \in Bad
    /\ status[job[w]] # "deleted"
    /\ MarkFailed(job[w], seen[w])
    /\ Release(w, "idle")
    /\ UNCHANGED <<spec, synced, httpVars, faults>>

\* The row to mark is gone: the flush fails, and so does the attempt to mark
\* the job failed in the same session.  The exception ends the task.
WorkerLosesRow(w) ==
    /\ \/ worker[w] = "synced"
       \/ worker[w] = "working" /\ job[w] \in Bad
    /\ status[job[w]] = "deleted"
    /\ Release(w, "dead")
    /\ UNCHANGED <<spec, jobVars, synced, httpVars, faults>>

\* A database error: while claiming nothing catches it, later the except
\* clause runs into the broken session.  Either way the task ends for good.
WorkerDies(w) ==
    /\ worker[w] \in {"idle", "working", "synced"}
    /\ faults < MaxFaults
    /\ faults' = faults + 1
    /\ Release(w, "dead")
    /\ UNCHANGED <<spec, jobVars, synced, httpVars>>

ProcessCrashes(w) ==
    /\ worker[w] # "down"
    /\ faults < MaxFaults
    /\ faults' = faults + 1
    /\ Release(w, "down")
    /\ UNCHANGED <<spec, jobVars, synced, httpVars>>

\* The process starts again, after a crash or to replace a dead worker.
ProcessRestarts(w) ==
    /\ worker[w] \in {"down", "dead"}
    /\ Release(w, "idle")
    /\ UNCHANGED <<spec, jobVars, synced, httpVars, faults>>

Work(w) == WorkerClaims(w) \/ WorkerSyncs(w) \/ WorkerCompletes(w) \/ WorkerFails(w)
               \/ WorkerLosesRow(w)

------------------------------------------------------------------------------
(* The job routes *)

\* claim_next_job: of the admin's organisation.
PostClaim ==
    /\ \E org \in Range(OrgOf), j \in Jobs :
          /\ ClaimNext(j, {k \in Jobs : OrgOf[k] = org})
          /\ taken' = taken \union {j}
    /\ UNCHANGED <<spec, workerVars, stray, faults>>

Present(j) == status[j] \notin {"none", "deleted"}

\* Neither route looks at who runs the job, or at its status.
Posted(j) ==
    /\ taken' = taken \ {j}
    /\ stray' = IF j \in taken THEN stray ELSE stray \union {j}

PostComplete(j) ==
    /\ Present(j)
    /\ MarkCompleted(j)
    /\ Posted(j)
    /\ UNCHANGED <<spec, workerVars, faults>>

PostFail(j) ==
    /\ Present(j)
    /\ MarkFailed(j, attempts[j])
    /\ Posted(j)
    /\ UNCHANGED <<spec, workerVars, faults>>

Next ==
    \/ \E j \in Jobs :
         \/ SaveSpec(j)
         \/ EnqueueJob(j)
         \/ UploadFails(j)
         \/ BackoffOver(j)
         \/ DeleteOld(j)
         \/ PostComplete(j)
         \/ PostFail(j)
    \/ PostClaim
    \/ \E w \in Workers :
         \/ Work(w)
         \/ WorkerDies(w)
         \/ ProcessCrashes(w)
         \/ ProcessRestarts(w)

Spec == Init /\ [][Next]_vars

\* An upload goes on, a live worker loops every poll_interval_seconds, and a
\* backoff ends.  Nobody is obliged to restart a process, to post or to clean up.
Fairness ==
    /\ \A j \in Jobs : WF_vars(EnqueueJob(j)) /\ WF_vars(BackoffOver(j))
    /\ \A w \in Workers : WF_vars(Work(w))

FairSpec == Spec /\ Fairness

------------------------------------------------------------------------------
(* Properties *)

\* The types of the variables.
TypeOK ==
    /\ spec \in [Jobs -> {"none", "saved", "queued", "jobless"}]
    /\ status \in [Jobs -> {"none", "pending", "running", "deleted"} \union Terminal]
    /\ attempts \in [Jobs -> Nat]
    /\ due \in Seq(Jobs)
    /\ worker \in [Workers -> {"idle", "working", "synced", "dead", "down"}]
    /\ job \in [Workers -> Jobs \union {NoJob}]
    /\ seen \in [Workers -> Nat]
    /\ synced \in SUBSET Jobs
    /\ taken \in SUBSET Jobs
    /\ stray \in SUBSET Jobs
    /\ faults \in 0..MaxFaults

\* SKIP LOCKED and the statuses keep a job with one worker: two do not run the
\* same job, nor does one run a job that is handed out over HTTP, and while it
\* runs no one else changes its row.  Only a stray mark breaks this.
OneRunnerPerJob ==
    \A w \in Workers : job[w] # NoJob /\ job[w] \notin stray =>
        /\ status[job[w]] = "running"
        /\ attempts[job[w]] = seen[w]
        /\ job[w] \notin taken
        /\ \A v \in Workers \ {w} : job[v] # job[w]

\* A job is given up only after max_attempts tries and never tried more often,
\* though tries are counted in the row and decided on in a worker's memory.
RetriesBounded ==
    \A j \in Jobs \ stray :
        /\ attempts[j] <= MaxAttempts
        /\ status[j] = "failed" => attempts[j] = MaxAttempts
        /\ status[j] = "pending" => attempts[j] < MaxAttempts

\* A sync that was committed is not repeated and its job is not given up,
\* wherever a crash falls between the commit and the mark.
SyncedIsFinal ==
    \A j \in synced \ stray : status[j] \in {"running", "completed", "deleted"}

\* Nobody will ever mark this job: it is running without a worker.
Orphaned(j) == status[j] = "running" /\ \A w \in Workers : job[w] # j

\* The job of a saved spec settles, unless it was never enqueued, a fault or an
\* HTTP client leaves it running, stray marks put it off, or no worker is left.
SpecsSettle ==
    \A j \in Jobs :
        spec[j] = "saved" ~>
            \/ status[j] \in Terminal \union {"deleted"}
            \/ Orphaned(j)
            \/ j \in stray
            \/ spec[j] = "jobless"
            \/ \A w \in Workers : worker[w] \in {"dead", "down"}

\* What the design document says of the jobs table (EngineeringDocument.txt:379
\* "Retry with backoff", :380 "Dead-letter via status"): a job that was started
\* is retried or ends with a status that says so.  Jobs handed to an HTTP client
\* are left out: whether they end is up to the client.
RetriedOrDeadLettered ==
    \A j \in Jobs : status[j] = "running" /\ j \notin taken ~> status[j] # "running"

==============================================================================
