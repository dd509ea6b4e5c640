---------------------------- MODULE JobPipeline ----------------------------
(***************************************************************************)
(* The background execution of reconciliation runs: the API that queues,   *)
(* cancels and retries jobs, the retention cleanup that deletes them, and  *)
(* the worker processes that recover, claim, process and complete them.    *)
(*                                                                         *)
(* Every action that touches the database is one transaction of the code.  *)
(* Each transaction locks the job or run row it is about before reading    *)
(* it, so it is atomic; what a worker remembers BETWEEN two transactions   *)
(* (its WorkerJob snapshot and where its Python code stands) is local      *)
(* state, and may be out of date when the next transaction runs.           *)
(*                                                                         *)
(* Time is abstracted to three flags of a job row, each set by an action   *)
(* of its own: `due` (scheduled_at and retry_at have passed), `stale`      *)
(* (heartbeat_at is older than the stale timeout) and `overdue`            *)
(* (deadline_at has passed).                                               *)
(***************************************************************************)
EXTENDS Naturals

CONSTANTS
    Runs,               \* reconciliation runs
    Workers,            \* worker processes, by worker_id
    NoWorker,           \* claimed_by IS NULL
    NoRun,              \* a worker that holds no snapshot
    MaxAttempts,        \* background_jobs.max_attempts
    MaxManualRetries,   \* RECONCILEFLOW_MAX_MANUAL_JOB_RETRIES
    Checkpoints,        \* how many checkpoints one execution passes
    MaxJobsPerRun       \* bound: jobs ever created for one run

ASSUME AttemptsAssumption == MaxAttempts \in Nat \ {0}
ASSUME ManualAssumption == MaxManualRetries \in Nat \ {0}
ASSUME CheckpointsAssumption == Checkpoints \in Nat \ {0}
ASSUME BoundAssumption == MaxJobsPerRun \in Nat
ASSUME NullAssumption == NoWorker \notin Workers /\ NoRun \notin Runs

VARIABLES
    run,        \* run[r]: reconciliation_runs.status, "ABSENT" before creation
    results,    \* results[r]: result sets stored for the run
    job,        \* job[r]: the row of background_jobs whose run_id is r
    worker      \* worker[w]: the local state of a worker process

vars == <<run, results, job, worker>>

RunStatuses == {"ABSENT", "PENDING", "RUNNING", "SUCCEEDED", "FAILED"}
JobStatuses == {"ABSENT", "QUEUED", "RUNNING", "CANCEL_REQUESTED",
                "SUCCEEDED", "FAILED", "CANCELLED"}
TerminalStatuses == {"SUCCEEDED", "FAILED", "CANCELLED"}

\* `id` counts the jobs created for the run: it identifies the row, and keeps
\* its value when retention deletes the row (status "ABSENT").
Jobs == [status      : JobStatuses,
         id          : 0 .. MaxJobsPerRun,
         attempt     : 0 .. MaxAttempts,
         total       : Nat,
         manual      : 0 .. MaxManualRetries,
         owner       : Workers \cup {NoWorker},
         cancelAsked : BOOLEAN,
         due         : BOOLEAN,
         stale       : BOOLEAN,
         overdue     : BOOLEAN]

\* Where a worker process stands.  "down" is a process that was stopped or
\* killed, "exited" one that an uncaught exception ended.
Places == {"idle", "begin", "processing", "commit", "failRun", "finish",
           "down", "exited"}
\* How the processor returned: normally, or with which exception.
Outcomes == {"none", "succeeded", "cancelled", "timedOut", "failed"}

WorkerStates == [at      : Places,
                 run     : Runs \cup {NoRun},
                 id      : 0 .. MaxJobsPerRun,
                 attempt : 0 .. MaxAttempts,
                 step    : 0 .. Checkpoints,
                 outcome : Outcomes]

NoJob(id) == [status |-> "ABSENT", id |-> id, attempt |-> 0, total |-> 0,
              manual |-> 0, owner |-> NoWorker, cancelAsked |-> FALSE,
              due |-> FALSE, stale |-> FALSE, overdue |-> FALSE]

Resting(place) == [at |-> place, run |-> NoRun, id |-> 0, attempt |-> 0,
                   step |-> 0, outcome |-> "none"]

Busy(w) == worker[w].at \in {"begin", "processing", "commit", "failRun", "finish"}

Init ==
    /\ run = [r \in Runs |-> "ABSENT"]
    /\ results = [r \in Runs |-> 0]
    /\ job = [r \in Runs |-> NoJob(0)]
    /\ worker = [w \in Workers |-> Resting("down")]

-----------------------------------------------------------------------------
(* Rows of background_jobs, as the repository updates them.                *)

Leased(j) == j.status \in {"RUNNING", "CANCEL_REQUESTED"}

\* Both complete and recover_stale clear claimed_by, heartbeat_at and
\* deadline_at whatever status they set.
Released(j, status) ==
    [j EXCEPT !.status = status, !.owner = NoWorker,
              !.stale = FALSE, !.overdue = FALSE]

QueuedJob(id, due) == [NoJob(id) EXCEPT !.status = "QUEUED", !.due = due]

Claimable(j) == j.status = "QUEUED" /\ j.due /\ j.attempt < MaxAttempts

Claimed(j, w) ==
    [j EXCEPT !.status = "RUNNING", !.attempt = @ + 1, !.total = @ + 1,
              !.owner = w, !.stale = FALSE, !.overdue = FALSE]

\* Mutant: recovery starts a new attempt cycle.
RecoveredWithFreshCycle(j) ==
    IF j.status = "CANCEL_REQUESTED" THEN Released(j, "CANCELLED")
    ELSE IF j.attempt < MaxAttempts
         THEN [Released(j, "QUEUED") EXCEPT !.due = TRUE, !.attempt = 0]
         ELSE Released(j, "FAILED")

\* Mutant: recovery requeues whatever the attempts.
RecoveredWithoutLimit(j) ==
    IF j.status = "CANCEL_REQUESTED" THEN Released(j, "CANCELLED")
    ELSE [Released(j, "QUEUED") EXCEPT !.due = TRUE]

\* A recovered job is due at once: retry_at is the time of the recovery.
Recovered(j) ==
    IF j.status = "CANCEL_REQUESTED" THEN Released(j, "CANCELLED")
    ELSE IF j.attempt < MaxAttempts
         THEN [Released(j, "QUEUED") EXCEPT !.due = TRUE]
         ELSE Released(j, "FAILED")

RecoverStale ==
    [r \in Runs |-> IF Leased(job[r]) /\ job[r].stale
                    THEN Recovered(job[r]) ELSE job[r]]

\* complete() with a retry_at puts the job back in the queue, not yet due.
Completed(j, target, retry) ==
    IF retry THEN [Released(j, "QUEUED") EXCEPT !.due = FALSE]
             ELSE Released(j, target)

CompleteTransitions ==
    {<<"RUNNING", "SUCCEEDED">>, <<"RUNNING", "FAILED">>,
     <<"CANCEL_REQUESTED", "CANCELLED">>, <<"CANCEL_REQUESTED", "FAILED">>}

\* Mutant: any status may be completed.
CompleteAcceptsAnyStatus(j, target, retry) ==
    /\ j.status # "ABSENT"
    /\ retry => j.attempt < MaxAttempts

\* complete() compares the status only: it does not look at claimed_by.
CompleteAccepts(j, target, retry) ==
    /\ <<j.status, target>> \in CompleteTransitions
    /\ retry => j.attempt < MaxAttempts

-----------------------------------------------------------------------------
(* The API and the retention cleanup.                                      *)

CreateRun(r) ==
    /\ run[r] = "ABSENT"
    /\ run' = [run EXCEPT ![r] = "PENDING"]
    /\ UNCHANGED <<results, job, worker>>

\* The job is due now, or scheduled for later.
ExecuteRun(r) ==
    /\ run[r] = "PENDING"
    /\ job[r].status = "ABSENT"
    /\ job[r].id < MaxJobsPerRun
    /\ \E due \in BOOLEAN : job' = [job EXCEPT ![r] = QueuedJob(job[r].id + 1, due)]
    /\ UNCHANGED <<run, results, worker>>

CancelQueuedJob(r) ==
    /\ job[r].status = "QUEUED"
    /\ job' = [job EXCEPT ![r].status = "CANCELLED", ![r].cancelAsked = TRUE]
    /\ UNCHANGED <<run, results, worker>>

CancelRunningJob(r) ==
    /\ job[r].status = "RUNNING"
    /\ job' = [job EXCEPT ![r].status = "CANCEL_REQUESTED", ![r].cancelAsked = TRUE]
    /\ UNCHANGED <<run, results, worker>>

\* A manual retry starts a new cycle of attempts and forgets a cancellation.
Retried(j) ==
    [Released(j, "QUEUED") EXCEPT
        !.attempt = 0, !.manual = @ + 1, !.cancelAsked = FALSE, !.due = TRUE]

\* Mutant: the manual retries are not counted against their limit.
RetryRefusedUnlimited(r) ==
    \/ job[r].status # "FAILED"
    \/ results[r] > 0
    \/ run[r] # "FAILED"

\* Mutant: the status of the run is not looked at.
RetryRefusedIgnoringRun(r) ==
    \/ job[r].status # "FAILED"
    \/ job[r].manual >= MaxManualRetries
    \/ results[r] > 0

RetryRefused(r) ==
    \/ job[r].status # "FAILED"
    \/ job[r].manual >= MaxManualRetries
    \/ results[r] > 0
    \/ run[r] # "FAILED"

RetryFailedJob(r) ==
    /\ ~RetryRefused(r)
    /\ job' = [job EXCEPT ![r] = Retried(@)]
    /\ run' = [run EXCEPT ![r] = "PENDING"]
    /\ UNCHANGED <<results, worker>>

\* delete_expired_terminal: the retention period of the job has passed.
DeleteExpiredJob(r) ==
    /\ job[r].status \in TerminalStatuses
    /\ job' = [job EXCEPT ![r] = NoJob(job[r].id)]
    /\ UNCHANGED <<run, results, worker>>

-----------------------------------------------------------------------------
(* Time.                                                                   *)

BecomeDue(r) ==
    /\ job[r].status = "QUEUED" /\ ~job[r].due
    /\ job' = [job EXCEPT ![r].due = TRUE]
    /\ UNCHANGED <<run, results, worker>>

\* No heartbeat for the stale timeout: the worker crashed, or is merely slow.
LeaseExpires(r) ==
    /\ Leased(job[r]) /\ ~job[r].stale
    /\ job' = [job EXCEPT ![r].stale = TRUE]
    /\ UNCHANGED <<run, results, worker>>

DeadlinePasses(r) ==
    /\ Leased(job[r]) /\ ~job[r].overdue
    /\ job' = [job EXCEPT ![r].overdue = TRUE]
    /\ UNCHANGED <<run, results, worker>>

-----------------------------------------------------------------------------
(* Worker processes.                                                       *)

\* The container starts, or restarts after an exit: run_forever begins.
StartWorker(w) ==
    /\ worker[w].at \in {"down", "exited"}
    /\ worker' = [worker EXCEPT ![w] = Resting("idle")]
    /\ UNCHANGED <<run, results, job>>

\* SIGTERM between two jobs, or a kill at any point of the execution.
StopWorker(w) ==
    /\ worker[w].at \notin {"down", "exited"}
    /\ worker' = [worker EXCEPT ![w] = Resting("down")]
    /\ UNCHANGED <<run, results, job>>

Claiming(w, r, j) ==
    [at |-> "begin", run |-> r, id |-> j.id, attempt |-> j.attempt,
     step |-> 0, outcome |-> "none"]

\* One transaction of run_once: recover every stale lease, then claim at most
\* one eligible job (possibly one it has just recovered) and snapshot it.
RunOnce(w) ==
    /\ worker[w].at = "idle"
    /\ LET eligible == {r \in Runs : Claimable(RecoverStale[r])}
       IN \/ \E r \in eligible :
               /\ job' = [RecoverStale EXCEPT ![r] = Claimed(@, w)]
               /\ worker' = [worker EXCEPT ![w] = Claiming(w, r, job'[r])]
          \/ /\ eligible = {}
             /\ job' = RecoverStale
             /\ UNCHANGED worker
    /\ UNCHANGED <<run, results>>

Advance(w, place) == worker' = [worker EXCEPT ![w].at = place]

\* The processor is done, and run_once goes on to the matching _finish_*.
FinishWith(w, outcome) ==
    worker' = [worker EXCEPT ![w].at = "finish", ![w].outcome = outcome]

\* An exception inside the processor's try block.  Cancellation always fails
\* the run, the other exceptions only on what the snapshot says is the last
\* attempt.
Raise(w, outcome) ==
    worker' = [worker EXCEPT
        ![w].at = IF outcome = "cancelled" \/ worker[w].attempt >= MaxAttempts
                  THEN "failRun" ELSE "finish",
        ![w].outcome = outcome]

\* Mutant: a run that has ended either way counts as already processed.
BeginUnlessEnded(w) ==
    LET r == worker[w].run IN
    /\ worker[w].at = "begin"
    /\ \/ /\ run[r] \in {"SUCCEEDED", "FAILED"}
          /\ FinishWith(w, "succeeded")
          /\ UNCHANGED run
       \/ /\ run[r] \in {"PENDING", "RUNNING"}
          /\ run' = [run EXCEPT ![r] = "RUNNING"]
          /\ Advance(w, "processing")
    /\ UNCHANGED <<results, job>>

\* The processor's first transaction, outside its try block.
BeginProcessing(w) ==
    LET r == worker[w].run IN
    /\ worker[w].at = "begin"
    /\ \/ /\ run[r] = "SUCCEEDED"
          /\ FinishWith(w, "succeeded")
          /\ UNCHANGED run
       \/ /\ run[r] \in {"PENDING", "RUNNING"}
          /\ run' = [run EXCEPT ![r] = "RUNNING"]
          /\ Advance(w, "processing")
       \/ /\ run[r] \notin {"SUCCEEDED", "PENDING", "RUNNING"}
          /\ FinishWith(w, "failed")
          /\ UNCHANGED run
    /\ UNCHANGED <<results, job>>

Holds(w) ==
    LET j == job[worker[w].run] IN
    /\ Leased(j)
    /\ j.id = worker[w].id
    /\ j.owner = w

\* WorkerContext.checkpoint: renew the lease, then stop if a cancellation was
\* requested or the deadline has passed.
Checkpoint(w) ==
    LET r == worker[w].run IN
    /\ worker[w].at = "processing"
    /\ \/ /\ ~Holds(w)
          /\ Raise(w, "failed")
          /\ UNCHANGED job
       \/ /\ Holds(w)
          /\ job' = [job EXCEPT ![r].stale = FALSE]
          /\ \/ /\ job[r].status = "CANCEL_REQUESTED"
                /\ Raise(w, "cancelled")
             \/ /\ job[r].status # "CANCEL_REQUESTED"
                /\ job[r].overdue
                /\ Raise(w, "timedOut")
             \/ /\ job[r].status # "CANCEL_REQUESTED"
                /\ ~job[r].overdue
                /\ worker' = [worker EXCEPT
                       ![w].step = @ + 1,
                       ![w].at = IF worker[w].step + 1 = Checkpoints
                                 THEN "commit" ELSE "processing"]
    /\ UNCHANGED <<run, results>>

\* The processor's last transaction: store the results and end the run.
CommitResults(w) ==
    LET r == worker[w].run IN
    /\ worker[w].at = "commit"
    /\ \/ /\ run[r] = "SUCCEEDED"
          /\ FinishWith(w, "succeeded")
          /\ UNCHANGED <<run, results>>
       \/ /\ run[r] \notin {"SUCCEEDED", "RUNNING"}
          /\ Raise(w, "failed")
          /\ UNCHANGED <<run, results>>
       \/ /\ run[r] = "RUNNING"
          /\ results' = [results EXCEPT ![r] = @ + 1]
          /\ run' = [run EXCEPT ![r] = "SUCCEEDED"]
          /\ FinishWith(w, "succeeded")
    /\ UNCHANGED job

\* Mutant: the run is failed without looking at its status.
FailRunUnchecked(w) ==
    LET r == worker[w].run IN
    /\ worker[w].at = "failRun"
    /\ run' = [run EXCEPT ![r] = "FAILED"]
    /\ Advance(w, "finish")
    /\ UNCHANGED <<results, job>>

\* _fail_run: end the run as FAILED unless someone else has already ended it.
FailRun(w) ==
    LET r == worker[w].run IN
    /\ worker[w].at = "failRun"
    /\ run' = [run EXCEPT ![r] = IF @ = "RUNNING" THEN "FAILED" ELSE @]
    /\ Advance(w, "finish")
    /\ UNCHANGED <<results, job>>

\* A source file that cannot be read, a storage or database error: the open
\* transaction, if any, is rolled back.
ProcessingError(w) ==
    /\ \/ worker[w].at \in {"processing", "commit"} /\ Raise(w, "failed")
       \/ worker[w].at \in {"begin", "failRun"} /\ FinishWith(w, "failed")
    /\ UNCHANGED <<run, results, job>>

\* Mutant: a late cancellation is not looked for before completing.
FinishTargetIgnoringCancel(outcome, status) ==
    CASE outcome = "cancelled" -> "CANCELLED"
      [] outcome \in {"failed", "timedOut"} -> "FAILED"
      [] outcome = "succeeded" -> "SUCCEEDED"

FinishTarget(outcome, status) ==
    CASE outcome = "cancelled" -> "CANCELLED"
      [] outcome = "failed" -> "FAILED"
      [] outcome = "succeeded" ->
            IF status = "CANCEL_REQUESTED" THEN "CANCELLED" ELSE "SUCCEEDED"
      [] outcome = "timedOut" ->
            IF status = "CANCEL_REQUESTED" THEN "CANCELLED" ELSE "FAILED"

\* _finish_successfully, _finish_cancelled, _finish_timed_out, _finish_failed.
\* When complete() refuses, or the job is gone, nothing catches the exception:
\* it leaves run_once and run_forever, and the process exits.
FinishJob(w) ==
    LET r == worker[w].run
        j == job[r]
        target == FinishTarget(worker[w].outcome, j.status)
        retry == target = "FAILED" /\ worker[w].attempt < MaxAttempts
        accepted == j.id = worker[w].id /\ CompleteAccepts(j, target, retry)
    IN /\ worker[w].at = "finish"
       /\ \/ /\ accepted
             /\ job' = [job EXCEPT ![r] = Completed(j, target, retry)]
             /\ worker' = [worker EXCEPT ![w] = Resting("idle")]
          \/ /\ ~accepted
             /\ worker' = [worker EXCEPT ![w] = Resting("exited")]
             /\ UNCHANGED job
       /\ UNCHANGED <<run, results>>

-----------------------------------------------------------------------------
UserStep(r) == CreateRun(r) \/ ExecuteRun(r) \/ CancelQueuedJob(r)
               \/ CancelRunningJob(r) \/ RetryFailedJob(r)
TimeStep(r) == BecomeDue(r) \/ LeaseExpires(r) \/ DeadlinePasses(r)
WorkStep(w) == BeginProcessing(w) \/ Checkpoint(w) \/ CommitResults(w)
               \/ FailRun(w) \/ FinishJob(w)

Next ==
    \/ \E r \in Runs : UserStep(r) \/ DeleteExpiredJob(r) \/ TimeStep(r)
    \/ \E w \in Workers : \/ StartWorker(w) \/ StopWorker(w) \/ RunOnce(w)
                          \/ WorkStep(w) \/ ProcessingError(w)

Spec == Init /\ [][Next]_vars

\* Time passes, a started worker runs its code, the container supervisor
\* restarts a worker that is down, and a worker that is restarted again and
\* again survives to its next poll.  Nobody is obliged to execute, cancel,
\* retry or delete a job, and no fault has to happen.
Fairness ==
    /\ \A r \in Runs : WF_vars(BecomeDue(r)) /\ WF_vars(LeaseExpires(r))
    /\ \A w \in Workers : /\ WF_vars(WorkStep(w))
                          /\ WF_vars(StartWorker(w))
                          /\ SF_vars(RunOnce(w))

FairSpec == Spec /\ Fairness

-----------------------------------------------------------------------------
(* Properties.                                                             *)

\* Every variable keeps its type; in particular no attempt count passes
\* max_attempts and no manual retry passes its limit.
TypeOK ==
    /\ run \in [Runs -> RunStatuses]
    /\ results \in [Runs -> Nat]
    /\ job \in [Runs -> Jobs]
    /\ worker \in [Workers -> WorkerStates]

\* However many workers process a run (a lease that expired, a retry, a crash),
\* its results are stored once, and exactly when the run is SUCCEEDED: no
\* partial, repeated or orphaned results.
ResultsExactlyWhenSucceeded ==
    \A r \in Runs : results[r] = IF run[r] = "SUCCEEDED" THEN 1 ELSE 0

\* A job is reported SUCCEEDED only when its run is, whichever worker, current
\* or not, completed it.
SucceededJobHasResults ==
    \A r \in Runs : job[r].status = "SUCCEEDED" => run[r] = "SUCCEEDED"

\* total_attempt_count, which recovery and manual retries never reset, is
\* bounded: each cycle claims the job at most max_attempts times.
AttemptBudget ==
    \A r \in Runs : job[r].total <= MaxAttempts * (job[r].manual + 1)

\* A worker that still holds the lease of the job it is processing decides on
\* the current attempt, although it only remembers a snapshot of it.
LeaseSnapshotIsCurrent ==
    \A w \in Workers :
        Busy(w) /\ Holds(w) => worker[w].attempt = job[worker[w].run].attempt

\* A worker whose lease was not taken away can always complete its job: only
\* one that lost its lease is ended by the error complete() raises.
LeaseHolderNeverExits ==
    [][\A w \in Workers :
          worker[w].at = "finish" /\ worker'[w].at = "exited" => ~Holds(w)]_vars

\* A job that has ended stays as it is until retention deletes it; only a
\* FAILED one may go back to the queue, and only by a manual retry.
TerminalJobsStay ==
    [][\A r \in Runs :
          job[r].status \in TerminalStatuses =>
              \/ job'[r] = job[r]
              \/ job'[r].status = "ABSENT"
              \/ /\ job[r].status = "FAILED"
                 /\ job'[r].status = "QUEUED"
                 /\ job'[r].manual = job[r].manual + 1]_vars

\* The pipeline implements what the run promises its clients.
Lifecycle == INSTANCE RunLifecycle WITH Runs <- Runs, run <- run, results <- results
ImplementsLifecycle == Lifecycle!Spec

\* What the handlers of source files see of a run.
SeenStatus(r) ==
    CASE run[r] \in {"ABSENT", "PENDING"} -> "PENDING"
      [] run[r] \in {"RUNNING", "SUCCEEDED"} -> "RUNNING"
      [] run[r] = "FAILED" -> "FAILED"
SeenJob(r) ==
    CASE job[r].status = "ABSENT" -> "none"
      [] job[r].status \in {"QUEUED", "RUNNING", "CANCEL_REQUESTED"} -> "active"
      [] job[r].status = "FAILED" -> "failed"
      [] job[r].status \in {"SUCCEEDED", "CANCELLED"} -> "ended"
MayBegin(r) == \E w \in Workers : worker[w].at = "begin" /\ worker[w].run = r

\* Whatever workers, recoveries and retries do, the files of each run see no
\* more than RunView: in particular a run goes back to PENDING, where its files
\* may change, only with a FAILED job that goes back to the queue, and RUNNING
\* only through a worker that claimed its job.
View(r) == INSTANCE RunView WITH
    status <- SeenStatus(r), job <- SeenJob(r), claimed <- MayBegin(r)
ImplementsRunView ==
    /\ \A r \in Runs : View(r)!Init
    /\ [][\A r \in Runs : [View(r)!Next]_(View(r)!viewVars)]_vars

\* A queued, running or cancelling job does not stay so for ever: it ends, or
\* goes back to the queue a bounded number of times and ends.
JobsSettle ==
    \A r \in Runs :
        job[r].status \in {"QUEUED", "RUNNING", "CANCEL_REQUESTED"} ~>
            job[r].status \in TerminalStatuses \cup {"ABSENT"}

-----------------------------------------------------------------------------
(* Claims of the documentation that the code does not keep.                *)

\* A failed job without results can be retried manually while it has manual
\* retries left (README, background jobs).
FailedJobIsRetryable ==
    \A r \in Runs :
        /\ job[r].status = "FAILED"
        /\ job[r].manual < MaxManualRetries
        /\ results[r] = 0
        => ~RetryRefused(r)
=============================================================================
