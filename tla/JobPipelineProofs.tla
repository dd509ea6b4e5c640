------------------------- MODULE JobPipelineProofs -------------------------
(***************************************************************************)
(* Proofs about JobPipeline, for any number of runs, workers, attempts,    *)
(* manual retries and checkpoints: what a run promises its clients         *)
(* (RunLifecycle), what jobs and leases promise, and what the files of a   *)
(* run see of them (RunView).                                              *)
(***************************************************************************)
EXTENDS JobPipeline, TLAPS

-----------------------------------------------------------------------------
(* What the row operators return.                                          *)

\* Releasing a lease keeps a job a job.
LEMMA ReleasedType ==
    ASSUME NEW j \in Jobs, NEW status \in JobStatuses
    PROVE  Released(j, status) \in Jobs
  BY Zenon DEF Released, Jobs

\* The counters of a new row are in range.
LEMMA ZerosInRange ==
    /\ 0 \in 0 .. MaxAttempts
    /\ 0 \in 0 .. MaxManualRetries
    /\ 0 \in 0 .. MaxJobsPerRun
    /\ 0 \in 0 .. Checkpoints
    /\ 0 \in Nat
  BY AttemptsAssumption, ManualAssumption, BoundAssumption, CheckpointsAssumption

\* A deleted or new row is a job.
LEMMA NewRowType ==
    ASSUME NEW id \in 0 .. MaxJobsPerRun, NEW due \in BOOLEAN
    PROVE  NoJob(id) \in Jobs /\ QueuedJob(id, due) \in Jobs
  <1>1. NoJob(id) \in Jobs
    BY ZerosInRange, Zenon DEF NoJob, Jobs, JobStatuses
  <1>2. QueuedJob(id, due) \in Jobs
    BY <1>1, Zenon DEF QueuedJob, Jobs, JobStatuses
  <1> QED
    BY <1>1, <1>2

\* Claiming stays within the attempts, because only a job with an attempt left
\* is claimable.
LEMMA ClaimedType ==
    ASSUME NEW j \in Jobs, Claimable(j), NEW w \in Workers
    PROVE  Claimed(j, w) \in Jobs
  <1>1. j.attempt + 1 \in 0 .. MaxAttempts /\ j.total + 1 \in Nat
    BY AttemptsAssumption DEF Claimable, Jobs
  <1> QED
    BY <1>1, Zenon DEF Claimed, Jobs, JobStatuses

\* A manual retry stays within its limit when it is within it before.
LEMMA RetriedType ==
    ASSUME NEW j \in Jobs, j.manual < MaxManualRetries
    PROVE  Retried(j) \in Jobs
  <1>1. j.manual + 1 \in 0 .. MaxManualRetries
    <2>1. j.manual \in 0 .. MaxManualRetries
      BY Zenon DEF Jobs
    <2> QED
      BY <2>1, ManualAssumption
  <1>2. Released(j, "QUEUED") \in Jobs
    BY ReleasedType DEF JobStatuses
  <1>3. Released(j, "QUEUED").manual = j.manual
    BY DEF Released, Jobs
  <1> QED
    BY <1>1, <1>2, <1>3, ZerosInRange, Zenon DEF Retried, Jobs

\* Recovery yields a job.
LEMMA RecoveredType ==
    ASSUME NEW j \in Jobs
    PROVE  Recovered(j) \in Jobs
  <1>1. \A status \in JobStatuses : Released(j, status) \in Jobs
    BY ReleasedType
  <1>2. [Released(j, "QUEUED") EXCEPT !.due = TRUE] \in Jobs
    BY Zenon DEF Released, Jobs, JobStatuses
  <1> QED
    BY <1>1, <1>2 DEF Recovered, JobStatuses

\* Completion yields a job.
LEMMA CompletedType ==
    ASSUME NEW j \in Jobs, NEW target \in TerminalStatuses, NEW retry \in BOOLEAN
    PROVE  Completed(j, target, retry) \in Jobs
  <1>1. \A status \in JobStatuses : Released(j, status) \in Jobs
    BY ReleasedType
  <1>2. [Released(j, "QUEUED") EXCEPT !.due = FALSE] \in Jobs
    BY Zenon DEF Released, Jobs, JobStatuses
  <1> QED
    BY <1>1, <1>2 DEF Completed, JobStatuses, TerminalStatuses

\* A worker at rest is in a legal state.
LEMMA RestingType ==
    ASSUME NEW place \in Places
    PROVE  Resting(place) \in WorkerStates
  BY AttemptsAssumption, CheckpointsAssumption, BoundAssumption
     DEF Resting, WorkerStates, Outcomes

-----------------------------------------------------------------------------
(* Type correctness.                                                       *)

\* A worker that executes a job has a snapshot of it and, until the last one,
\* checkpoints left; an execution that is over has an outcome.
LegalWorker(k) ==
    /\ k.at \in {"begin", "processing", "commit", "failRun", "finish"} => k.run \in Runs
    /\ k.at \in {"begin", "processing"} => k.step < Checkpoints
    /\ k.at = "failRun" => k.outcome \in {"cancelled", "timedOut", "failed"}
    /\ k.at = "finish" => k.outcome # "none"

TypeInv == TypeOK /\ \A w \in Workers : LegalWorker(worker[w])

\* The initial state is well typed.
LEMMA TypeInit == Init => TypeInv
  <1> SUFFICES ASSUME Init PROVE TypeInv
    OBVIOUS
  <1>1. NoJob(0) \in Jobs
    BY NewRowType, ZerosInRange
  <1>2. Resting("down") \in WorkerStates
    BY RestingType DEF Places
  <1>3. TypeOK
    BY <1>1, <1>2, ZerosInRange, Zenon DEF Init, TypeOK, RunStatuses
  <1>4. \A w \in Workers : LegalWorker(worker[w])
    BY DEF Init, LegalWorker, Resting
  <1> QED
    BY <1>3, <1>4 DEF TypeInv

\* Steps of users, of retention and of time touch the runs and jobs only.
LEMMA TypeOfRowSteps ==
    ASSUME TypeInv, NEW r \in Runs,
           UserStep(r) \/ DeleteExpiredJob(r) \/ TimeStep(r)
    PROVE  TypeInv'
  <1> USE DEF TypeInv, TypeOK
  <1>0. UNCHANGED worker
    BY DEF UserStep, TimeStep, CreateRun, ExecuteRun, CancelQueuedJob, CancelRunningJob,
           RetryFailedJob, DeleteExpiredJob, BecomeDue, LeaseExpires, DeadlinePasses
  <1>1. results' \in [Runs -> Nat] /\ run' \in [Runs -> RunStatuses]
    BY DEF UserStep, TimeStep, CreateRun, ExecuteRun, CancelQueuedJob, CancelRunningJob,
           RetryFailedJob, DeleteExpiredJob, BecomeDue, LeaseExpires, DeadlinePasses,
           RunStatuses
  <1>2. job' \in [Runs -> Jobs]
    <2>1. CASE CreateRun(r)
      BY <2>1 DEF CreateRun
    <2>2. CASE ExecuteRun(r)
      <3>1. job[r].id \in 0 .. MaxJobsPerRun
        BY DEF Jobs
      <3>2. job[r].id + 1 \in 0 .. MaxJobsPerRun
        BY <2>2, <3>1, BoundAssumption DEF ExecuteRun
      <3>3. \A due \in BOOLEAN : QueuedJob(job[r].id + 1, due) \in Jobs
        BY <3>2, NewRowType
      <3> QED
        BY <2>2, <3>3 DEF ExecuteRun
    <2>3. CASE CancelQueuedJob(r)
      <3>1. [job[r] EXCEPT !.status = "CANCELLED", !.cancelAsked = TRUE] \in Jobs
        BY Zenon DEF Jobs, JobStatuses
      <3> QED
        BY <2>3, <3>1 DEF CancelQueuedJob
    <2>4. CASE CancelRunningJob(r)
      <3>1. [job[r] EXCEPT !.status = "CANCEL_REQUESTED", !.cancelAsked = TRUE] \in Jobs
        BY Zenon DEF Jobs, JobStatuses
      <3> QED
        BY <2>4, <3>1 DEF CancelRunningJob
    <2>5. CASE RetryFailedJob(r)
      <3>1. job[r].manual < MaxManualRetries
        BY <2>5, ManualAssumption DEF RetryFailedJob, RetryRefused, Jobs
      <3> QED
        BY <2>5, <3>1, RetriedType DEF RetryFailedJob
    <2>6. CASE DeleteExpiredJob(r)
      BY <2>6, NewRowType DEF DeleteExpiredJob, Jobs
    <2>7. CASE TimeStep(r)
      <3>1. /\ [job[r] EXCEPT !.due = TRUE] \in Jobs
            /\ [job[r] EXCEPT !.stale = TRUE] \in Jobs
            /\ [job[r] EXCEPT !.overdue = TRUE] \in Jobs
        BY Zenon DEF Jobs
      <3> QED
        BY <2>7, <3>1 DEF TimeStep, BecomeDue, LeaseExpires, DeadlinePasses
    <2> QED
      BY <2>1, <2>2, <2>3, <2>4, <2>5, <2>6, <2>7 DEF UserStep
  <1>3. \A w \in Workers : LegalWorker(worker'[w])
    BY <1>0
  <1> QED
    BY <1>0, <1>1, <1>2, <1>3

\* Recovery keeps every row a job.
LEMMA RecoverStaleType ==
    ASSUME TypeOK
    PROVE  RecoverStale \in [Runs -> Jobs]
  BY RecoveredType, Zenon DEF RecoverStale, TypeOK

\* Changing where a worker stands, or how its execution ended, keeps its type.
LEMMA MovedType ==
    ASSUME NEW k \in WorkerStates, NEW place \in Places, NEW outcome \in Outcomes
    PROVE  /\ [k EXCEPT !.at = place] \in WorkerStates
           /\ [k EXCEPT !.at = place, !.outcome = outcome] \in WorkerStates
  BY Zenon DEF WorkerStates

\* The local states of the other workers are untouched, and the one of w legal,
\* after each of the helpers that the worker's actions share.
WorkersLegal == worker' \in [Workers -> WorkerStates] /\ \A v \in Workers : LegalWorker(worker'[v])

\* Giving w a legal state is enough.
LEMMA PutLegal ==
    ASSUME TypeInv, NEW w \in Workers, NEW k \in WorkerStates, LegalWorker(k),
           worker' = [worker EXCEPT ![w] = k]
    PROVE  WorkersLegal
  BY Zenon DEF TypeInv, TypeOK, WorkersLegal

\* Going on to a _finish_* function with an outcome is legal.
LEMMA FinishWithLegal ==
    ASSUME TypeInv, NEW w \in Workers, Busy(w),
           NEW outcome \in Outcomes \ {"none"}, FinishWith(w, outcome)
    PROVE  WorkersLegal
  <1> DEFINE k == [worker[w] EXCEPT !.at = "finish", !.outcome = outcome]
  <1>1. worker[w] \in WorkerStates /\ LegalWorker(worker[w])
    BY DEF TypeInv, TypeOK
  <1>2. k \in WorkerStates
    BY <1>1, MovedType DEF Places
  <1>3. worker' = [worker EXCEPT ![w] = k]
    BY Zenon DEF FinishWith
  <1>4. LegalWorker(k)
    BY <1>1 DEF LegalWorker, Busy, WorkerStates
  <1> QED
    BY <1>2, <1>3, <1>4, PutLegal

\* An exception of the processor leads to a legal state.
LEMMA RaiseLegal ==
    ASSUME TypeInv, NEW w \in Workers, Busy(w),
           NEW outcome \in {"cancelled", "timedOut", "failed"}, Raise(w, outcome)
    PROVE  WorkersLegal
  <1> DEFINE place == IF outcome = "cancelled" \/ worker[w].attempt >= MaxAttempts
                      THEN "failRun" ELSE "finish"
             k == [worker[w] EXCEPT !.at = place, !.outcome = outcome]
  <1>1. worker[w] \in WorkerStates /\ LegalWorker(worker[w])
    BY DEF TypeInv, TypeOK
  <1>2. place \in {"failRun", "finish"}
    OBVIOUS
  <1>3. worker' = [worker EXCEPT ![w] = k]
    BY Zenon DEF Raise
  <1> HIDE DEF place
  <1>4. k \in WorkerStates
    BY <1>1, <1>2, MovedType DEF Places, Outcomes
  <1>5. LegalWorker(k)
    BY <1>1, <1>2 DEF LegalWorker, Busy, WorkerStates
  <1> QED
    BY <1>3, <1>4, <1>5, PutLegal

\* So do the two places where a worker goes on without changing anything else.
LEMMA AdvanceLegal ==
    ASSUME TypeInv, NEW w \in Workers,
           \/ worker[w].at = "begin" /\ Advance(w, "processing")
           \/ worker[w].at = "failRun" /\ Advance(w, "finish")
    PROVE  WorkersLegal
  <1>1. worker[w] \in WorkerStates /\ LegalWorker(worker[w])
    BY DEF TypeInv, TypeOK
  <1>2. \A place \in Places : [worker[w] EXCEPT !.at = place] \in WorkerStates
    BY <1>1, Zenon DEF WorkerStates
  <1>3. CASE worker[w].at = "begin" /\ Advance(w, "processing")
    <2> DEFINE k == [worker[w] EXCEPT !.at = "processing"]
    <2>1. k \in WorkerStates
      BY <1>2 DEF Places
    <2>2. LegalWorker(k)
      BY <1>1, <1>3 DEF LegalWorker, WorkerStates
    <2> QED
      BY <1>3, <2>1, <2>2, PutLegal DEF Advance
  <1>4. CASE worker[w].at = "failRun" /\ Advance(w, "finish")
    <2> DEFINE k == [worker[w] EXCEPT !.at = "finish"]
    <2>1. k \in WorkerStates
      BY <1>2 DEF Places
    <2>2. LegalWorker(k)
      BY <1>1, <1>4 DEF LegalWorker, WorkerStates
    <2> QED
      BY <1>4, <2>1, <2>2, PutLegal DEF Advance
  <1> QED
    BY <1>3, <1>4

\* A step of a worker keeps every type.
LEMMA TypeOfWorkerSteps ==
    ASSUME TypeInv, NEW w \in Workers,
           StartWorker(w) \/ StopWorker(w) \/ RunOnce(w) \/ WorkStep(w) \/ ProcessingError(w)
    PROVE  TypeInv'
  <1>1. /\ worker[w] \in WorkerStates
        /\ LegalWorker(worker[w])
        /\ worker[w].run \in Runs => job[worker[w].run] \in Jobs
    BY DEF TypeInv, TypeOK
  <1>2. \A place \in {"idle", "down", "exited"} :
            Resting(place) \in WorkerStates /\ LegalWorker(Resting(place))
    BY RestingType DEF LegalWorker, Resting, Places
  <1>3. Busy(w) => worker[w].run \in Runs
    BY <1>1 DEF Busy, LegalWorker
  <1>4. results' \in [Runs -> Nat] /\ run' \in [Runs -> RunStatuses]
    <2>1. CASE StartWorker(w) \/ StopWorker(w) \/ RunOnce(w) \/ ProcessingError(w)
               \/ Checkpoint(w) \/ FinishJob(w)
      BY <2>1 DEF TypeInv, TypeOK, StartWorker, StopWorker, RunOnce, ProcessingError,
                  Checkpoint, FinishJob
    <2>2. CASE BeginProcessing(w)
      BY <2>2 DEF TypeInv, TypeOK, BeginProcessing, RunStatuses
    <2>3. CASE CommitResults(w)
      BY <2>3 DEF TypeInv, TypeOK, CommitResults, RunStatuses
    <2>4. CASE FailRun(w)
      BY <2>4 DEF TypeInv, TypeOK, FailRun, RunStatuses
    <2> QED
      BY <2>1, <2>2, <2>3, <2>4 DEF WorkStep
  <1>5. job' \in [Runs -> Jobs]
    <2>1. CASE StartWorker(w) \/ StopWorker(w) \/ ProcessingError(w)
               \/ BeginProcessing(w) \/ CommitResults(w) \/ FailRun(w)
      BY <2>1 DEF TypeInv, TypeOK, StartWorker, StopWorker, ProcessingError,
                  BeginProcessing, CommitResults, FailRun
    <2>2. CASE RunOnce(w)
      <3>1. RecoverStale \in [Runs -> Jobs]
        BY RecoverStaleType DEF TypeInv
      <3>2. \A r \in Runs : Claimable(RecoverStale[r]) => Claimed(RecoverStale[r], w) \in Jobs
        BY <3>1, ClaimedType
      <3> QED
        BY <2>2, <3>1, <3>2, Zenon DEF RunOnce
    <2>3. CASE Checkpoint(w)
      <3>1. worker[w].run \in Runs
        BY <1>3, <2>3 DEF Checkpoint, Busy
      <3>2. [job[worker[w].run] EXCEPT !.stale = FALSE] \in Jobs
        BY <1>1, <3>1, Zenon DEF Jobs
      <3> QED
        BY <2>3, <3>1, <3>2 DEF Checkpoint, TypeInv, TypeOK
    <2>4. CASE FinishJob(w)
      <3> DEFINE r == worker[w].run
                 target == FinishTarget(worker[w].outcome, job[r].status)
                 retry == target = "FAILED" /\ worker[w].attempt < MaxAttempts
      <3>1. r \in Runs
        BY <1>3, <2>4 DEF FinishJob, Busy
      <3>2. worker[w].outcome \in {"succeeded", "cancelled", "timedOut", "failed"}
        BY <1>1, <2>4 DEF FinishJob, LegalWorker, WorkerStates, Outcomes
      <3>3. target \in TerminalStatuses
        BY <3>2 DEF FinishTarget, TerminalStatuses
      <3>4. retry \in BOOLEAN
        OBVIOUS
      <3>5. Completed(job[r], target, retry) \in Jobs
        BY <1>1, <3>1, <3>3, <3>4, CompletedType
      <3>6. \/ job' = [job EXCEPT ![r] = Completed(job[r], target, retry)]
            \/ UNCHANGED job
        BY <2>4, Zenon DEF FinishJob
      <3> QED
        BY <3>1, <3>5, <3>6 DEF TypeInv, TypeOK
    <2> QED
      BY <2>1, <2>2, <2>3, <2>4 DEF WorkStep
  <1>6. WorkersLegal
    <2>1. CASE StartWorker(w) \/ StopWorker(w)
      BY <1>2, <2>1, PutLegal DEF StartWorker, StopWorker
    <2>2. CASE RunOnce(w)
      <3>1. ASSUME NEW r \in Runs, Claimable(RecoverStale[r]),
                   job' = [RecoverStale EXCEPT ![r] = Claimed(@, w)],
                   worker' = [worker EXCEPT ![w] = Claiming(w, r, job'[r])]
            PROVE  WorkersLegal
        <4>1. job'[r] \in Jobs
          BY <1>5
        <4>2. Claiming(w, r, job'[r]) \in WorkerStates
          BY <4>1, ZerosInRange, Zenon DEF Claiming, WorkerStates, Places, Outcomes, Jobs
        <4>3. LegalWorker(Claiming(w, r, job'[r]))
          BY CheckpointsAssumption DEF Claiming, LegalWorker
        <4> QED
          BY <3>1, <4>2, <4>3, PutLegal
      <3>2. CASE UNCHANGED worker
        BY <3>2 DEF WorkersLegal, TypeInv, TypeOK
      <3> QED
        BY <2>2, <3>1, <3>2, Zenon DEF RunOnce
    <2>3. CASE BeginProcessing(w)
      BY <2>3, FinishWithLegal, AdvanceLegal DEF BeginProcessing, Busy, Outcomes
    <2>4. CASE Checkpoint(w)
      <3>1. Busy(w)
        BY <2>4 DEF Checkpoint, Busy
      <3>2. CASE \E outcome \in {"failed", "cancelled", "timedOut"} : Raise(w, outcome)
        BY <3>1, <3>2, RaiseLegal DEF Outcomes
      <3>3. ASSUME worker' = [worker EXCEPT
                       ![w].step = @ + 1,
                       ![w].at = IF worker[w].step + 1 = Checkpoints
                                 THEN "commit" ELSE "processing"]
            PROVE  WorkersLegal
        <4> DEFINE place == IF worker[w].step + 1 = Checkpoints THEN "commit" ELSE "processing"
                   k == [worker[w] EXCEPT !.step = @ + 1, !.at = place]
        <4>1. worker[w].step \in 0 .. Checkpoints /\ worker[w].step < Checkpoints
          BY <1>1, <2>4 DEF Checkpoint, LegalWorker, WorkerStates
        <4>2. worker[w].step + 1 \in 0 .. Checkpoints
          BY <4>1, CheckpointsAssumption
        <4>3. place \in {"commit", "processing"}
              /\ (place = "processing" => worker[w].step + 1 < Checkpoints)
          BY <4>1, CheckpointsAssumption
        <4>4. worker' = [worker EXCEPT ![w] = k]
          BY <3>3, Zenon
        <4> HIDE DEF place
        <4>5. k \in WorkerStates
          BY <1>1, <4>2, <4>3, Zenon DEF WorkerStates, Places
        <4>6. LegalWorker(k)
          BY <1>1, <1>3, <3>1, <4>3 DEF LegalWorker, WorkerStates
        <4> QED
          BY <4>4, <4>5, <4>6, PutLegal
      <3> QED
        BY <2>4, <3>2, <3>3, Zenon DEF Checkpoint
    <2>5. CASE CommitResults(w)
      BY <2>5, FinishWithLegal, RaiseLegal DEF CommitResults, Busy, Outcomes
    <2>6. CASE FailRun(w)
      BY <2>6, AdvanceLegal DEF FailRun
    <2>7. CASE FinishJob(w)
      BY <1>2, <2>7, PutLegal DEF FinishJob
    <2>8. CASE ProcessingError(w)
      BY <2>8, FinishWithLegal, RaiseLegal DEF ProcessingError, Busy, Outcomes
    <2> QED
      BY <2>1, <2>2, <2>3, <2>4, <2>5, <2>6, <2>7, <2>8 DEF WorkStep
  <1> QED
    BY <1>4, <1>5, <1>6 DEF TypeInv, TypeOK, WorkersLegal

\* Every step keeps the type invariant.
LEMMA TypeStep == TypeInv /\ [Next]_vars => TypeInv'
  <1> SUFFICES ASSUME TypeInv, [Next]_vars PROVE TypeInv'
    OBVIOUS
  <1>1. CASE Next
    BY <1>1, TypeOfRowSteps, TypeOfWorkerSteps DEF Next
  <1>2. CASE UNCHANGED vars
    BY <1>2 DEF vars, TypeInv, TypeOK, LegalWorker
  <1> QED
    BY <1>1, <1>2

\* Every reachable state is well typed: attempts and manual retries stay within
\* their limits, for every number of runs, workers and attempts.
THEOREM TypeCorrect == Spec => []TypeOK
  <1>1. TypeInv => TypeOK
    BY DEF TypeInv
  <1> QED
    BY <1>1, TypeInit, TypeStep, PTL DEF Spec

-----------------------------------------------------------------------------
(* What a run promises: the pipeline implements RunLifecycle, and stores   *)
(* results exactly once.                                                   *)

\* Every step of the pipeline is a step of the abstract run, or leaves runs and
\* results alone.
LEMMA StepRefines ==
    ASSUME TypeInv, ResultsExactlyWhenSucceeded, [Next]_vars
    PROVE  [Lifecycle!Next]_(Lifecycle!lifecycleVars)
  <1> USE DEF TypeInv, TypeOK, Lifecycle!Next, Lifecycle!lifecycleVars
  <1>1. ASSUME NEW r \in Runs, UserStep(r) \/ DeleteExpiredJob(r) \/ TimeStep(r)
        PROVE  [Lifecycle!Next]_(Lifecycle!lifecycleVars)
    <2>1. CASE CreateRun(r)
      BY <2>1 DEF CreateRun, Lifecycle!Create
    <2>2. CASE RetryFailedJob(r)
      <3>1. run[r] = "FAILED" /\ results[r] = 0
        BY <2>2 DEF RetryFailedJob, RetryRefused
      <3>2. Lifecycle!Reopen(r)
        BY <2>2, <3>1 DEF RetryFailedJob, Lifecycle!Reopen
      <3> QED
        BY <3>2
    <2>3. CASE ExecuteRun(r) \/ CancelQueuedJob(r) \/ CancelRunningJob(r)
               \/ DeleteExpiredJob(r) \/ TimeStep(r)
      <3>1. UNCHANGED <<run, results>>
        BY <2>3, Zenon DEF ExecuteRun, CancelQueuedJob, CancelRunningJob, DeleteExpiredJob,
                    TimeStep, BecomeDue, LeaseExpires, DeadlinePasses
      <3> QED
        BY <3>1
    <2> QED
      BY <1>1, <2>1, <2>2, <2>3 DEF UserStep
  <1>2. ASSUME NEW w \in Workers,
               StartWorker(w) \/ StopWorker(w) \/ RunOnce(w) \/ WorkStep(w) \/ ProcessingError(w)
        PROVE  [Lifecycle!Next]_(Lifecycle!lifecycleVars)
    <2> DEFINE r == worker[w].run
    <2>1. Busy(w) => r \in Runs
      BY DEF Busy, LegalWorker
    <2>2. CASE BeginProcessing(w)
      <3>1. r \in Runs
        BY <2>1, <2>2 DEF BeginProcessing, Busy
      <3>2. CASE run[r] = "PENDING"
        <4>1. Lifecycle!Start(r)
          BY <2>2, <3>2 DEF BeginProcessing, Lifecycle!Start
        <4> QED
          BY <3>1, <4>1
      <3>3. CASE run[r] # "PENDING"
        BY <2>2, <3>1, <3>3 DEF BeginProcessing
      <3> QED
        BY <3>2, <3>3
    <2>3. CASE CommitResults(w)
      <3>1. r \in Runs
        BY <2>1, <2>3 DEF CommitResults, Busy
      <3>2. CASE run[r] = "RUNNING"
        <4>1. results[r] = 0
          BY <3>1, <3>2 DEF ResultsExactlyWhenSucceeded
        <4>2. Lifecycle!Succeed(r)
          BY <2>3, <3>1, <3>2, <4>1 DEF CommitResults, Lifecycle!Succeed
        <4> QED
          BY <3>1, <4>2
      <3>3. CASE run[r] # "RUNNING"
        BY <2>3, <3>3 DEF CommitResults
      <3> QED
        BY <3>2, <3>3
    <2>4. CASE FailRun(w)
      <3>1. r \in Runs
        BY <2>1, <2>4 DEF FailRun, Busy
      <3>2. CASE run[r] = "RUNNING"
        <4>1. Lifecycle!Fail(r)
          BY <2>4, <3>1, <3>2 DEF FailRun, Lifecycle!Fail
        <4> QED
          BY <3>1, <4>1
      <3>3. CASE run[r] # "RUNNING"
        BY <2>4, <3>1, <3>3 DEF FailRun
      <3> QED
        BY <3>2, <3>3
    <2>5. CASE StartWorker(w) \/ StopWorker(w) \/ RunOnce(w) \/ ProcessingError(w)
               \/ Checkpoint(w) \/ FinishJob(w)
      <3>1. UNCHANGED <<run, results>>
        BY <2>5, Zenon DEF StartWorker, StopWorker, RunOnce, ProcessingError, Checkpoint, FinishJob
      <3> QED
        BY <3>1
    <2> QED
      BY <1>2, <2>2, <2>3, <2>4, <2>5 DEF WorkStep
  <1>3. CASE UNCHANGED vars
    BY <1>3 DEF vars
  <1> QED
    BY <1>1, <1>2, <1>3 DEF Next

\* The abstract run stores its results with the step that makes it SUCCEEDED,
\* and stays SUCCEEDED.
LEMMA LifecycleKeepsResults ==
    ASSUME TypeInv, ResultsExactlyWhenSucceeded, [Lifecycle!Next]_(Lifecycle!lifecycleVars)
    PROVE  /\ ResultsExactlyWhenSucceeded'
           /\ \A r \in Runs : run[r] = "SUCCEEDED" => run'[r] = "SUCCEEDED"
  <1> USE DEF TypeInv, TypeOK, ResultsExactlyWhenSucceeded
  <1>1. ASSUME NEW r \in Runs,
               Lifecycle!Create(r) \/ Lifecycle!Start(r) \/ Lifecycle!Succeed(r)
                   \/ Lifecycle!Fail(r) \/ Lifecycle!Reopen(r)
        PROVE  /\ ResultsExactlyWhenSucceeded'
               /\ \A s \in Runs : run[s] = "SUCCEEDED" => run'[s] = "SUCCEEDED"
    BY <1>1 DEF Lifecycle!Create, Lifecycle!Start, Lifecycle!Succeed, Lifecycle!Fail,
                Lifecycle!Reopen
  <1>2. CASE UNCHANGED Lifecycle!lifecycleVars
    BY <1>2 DEF Lifecycle!lifecycleVars
  <1> QED
    BY <1>1, <1>2 DEF Lifecycle!Next

\* Results are stored once, and exactly when the run is SUCCEEDED, whatever
\* workers with and without the lease do.
THEOREM ResultsCorrect == Spec => []ResultsExactlyWhenSucceeded
  <1>1. Init => ResultsExactlyWhenSucceeded
    BY DEF Init, ResultsExactlyWhenSucceeded
  <1>2. TypeInv /\ ResultsExactlyWhenSucceeded /\ [Next]_vars => ResultsExactlyWhenSucceeded'
    BY StepRefines, LifecycleKeepsResults
  <1> QED
    BY <1>1, <1>2, TypeInit, TypeStep, PTL DEF Spec

\* The pipeline implements the abstract run.
THEOREM LifecycleImplemented == Spec => ImplementsLifecycle
  <1>1. Init => Lifecycle!Init
    BY DEF Init, Lifecycle!Init
  <1>2. TypeInv /\ ResultsExactlyWhenSucceeded /\ [Next]_vars
            => [Lifecycle!Next]_(Lifecycle!lifecycleVars)
    BY StepRefines
  <1>3. Spec => []TypeInv
    BY TypeInit, TypeStep, PTL DEF Spec
  <1> QED
    BY <1>1, <1>2, <1>3, ResultsCorrect, PTL DEF Spec, ImplementsLifecycle, Lifecycle!Spec

-----------------------------------------------------------------------------
(* A SUCCEEDED job belongs to a SUCCEEDED run.                             *)

\* A worker that is about to report success has seen its run SUCCEEDED, which
\* is final.
SuccessSeen ==
    \A w \in Workers :
        worker[w].at = "finish" /\ worker[w].outcome = "succeeded" =>
            run[worker[w].run] = "SUCCEEDED"

SuccessInv == SuccessSeen /\ SucceededJobHasResults

\* No operator on rows but complete() makes a job SUCCEEDED.
LEMMA RowsNotSucceeded ==
    ASSUME NEW j \in Jobs
    PROVE  /\ Recovered(j).status # "SUCCEEDED"
           /\ \A w \in Workers : Claimed(j, w).status # "SUCCEEDED"
           /\ Retried(j).status # "SUCCEEDED"
           /\ \A id \in Nat, due \in BOOLEAN :
                  QueuedJob(id, due).status # "SUCCEEDED" /\ NoJob(id).status # "SUCCEEDED"
  <1>1. \A status \in {"QUEUED", "FAILED", "CANCELLED"} : Released(j, status).status # "SUCCEEDED"
    BY DEF Released, Jobs
  <1>2. Recovered(j).status # "SUCCEEDED"
    BY <1>1 DEF Recovered, Released, Jobs
  <1>3. \A w \in Workers : Claimed(j, w).status # "SUCCEEDED"
    BY DEF Claimed, Jobs
  <1>4. Retried(j).status # "SUCCEEDED"
    BY DEF Retried, Released, Jobs
  <1>5. \A id \in Nat, due \in BOOLEAN :
            QueuedJob(id, due).status # "SUCCEEDED" /\ NoJob(id).status # "SUCCEEDED"
    BY DEF QueuedJob, NoJob
  <1> QED
    BY <1>2, <1>3, <1>4, <1>5

\* A row becomes SUCCEEDED only by a worker that completes it.
LEMMA OnlyFinishSucceeds ==
    ASSUME TypeInv, [Next]_vars, NEW r \in Runs,
           job[r].status # "SUCCEEDED", job'[r].status = "SUCCEEDED"
    PROVE  \E w \in Workers : FinishJob(w)
  <1> USE DEF TypeInv, TypeOK
  <1>1. ASSUME NEW s \in Runs, UserStep(s) \/ DeleteExpiredJob(s) \/ TimeStep(s)
        PROVE  FALSE
    <2>1. job[s] \in Jobs /\ job[s].id \in Nat
      BY BoundAssumption DEF Jobs
    <2>2. CASE CreateRun(s)
      BY <2>2 DEF CreateRun
    <2>3. CASE ExecuteRun(s)
      BY <2>1, <2>3, RowsNotSucceeded DEF ExecuteRun
    <2>4. CASE CancelQueuedJob(s) \/ CancelRunningJob(s) \/ TimeStep(s)
      BY <2>1, <2>4 DEF CancelQueuedJob, CancelRunningJob, TimeStep, BecomeDue, LeaseExpires,
                        DeadlinePasses, Jobs
    <2>5. CASE RetryFailedJob(s)
      BY <2>1, <2>5, RowsNotSucceeded DEF RetryFailedJob
    <2>6. CASE DeleteExpiredJob(s)
      BY <2>1, <2>6, RowsNotSucceeded DEF DeleteExpiredJob
    <2> QED
      BY <1>1, <2>2, <2>3, <2>4, <2>5, <2>6 DEF UserStep
  <1>2. ASSUME NEW w \in Workers,
               StartWorker(w) \/ StopWorker(w) \/ RunOnce(w) \/ WorkStep(w) \/ ProcessingError(w),
               ~FinishJob(w)
        PROVE  FALSE
    <2>1. CASE RunOnce(w)
      <3>1. RecoverStale \in [Runs -> Jobs] /\ RecoverStale[r].status # "SUCCEEDED"
        BY RecoverStaleType, RowsNotSucceeded, Zenon DEF RecoverStale
      <3>2. \A s \in Runs : Claimed(RecoverStale[s], w).status # "SUCCEEDED"
        BY <3>1, RowsNotSucceeded
      <3> QED
        BY <2>1, <3>1, <3>2 DEF RunOnce
    <2>2. CASE Checkpoint(w)
      <3>1. worker[w].run \in Runs
        BY <2>2 DEF Checkpoint, LegalWorker
      <3> QED
        BY <2>2, <3>1 DEF Checkpoint, Jobs
    <2>3. CASE StartWorker(w) \/ StopWorker(w) \/ ProcessingError(w)
               \/ BeginProcessing(w) \/ CommitResults(w) \/ FailRun(w)
      BY <2>3 DEF StartWorker, StopWorker, ProcessingError, BeginProcessing, CommitResults, FailRun
    <2> QED
      BY <1>2, <2>1, <2>2, <2>3 DEF WorkStep
  <1> QED
    BY <1>1, <1>2 DEF Next, vars

\* Once a run is SUCCEEDED, nobody takes that from the job or the worker.
LEMMA SuccessStep ==
    ASSUME TypeInv, TypeInv', SuccessInv, [Next]_vars,
           \A r \in Runs : run[r] = "SUCCEEDED" => run'[r] = "SUCCEEDED"
    PROVE  SuccessInv'
  <1> USE DEF TypeInv, TypeOK
  <1>1. SuccessSeen'
    <2> SUFFICES ASSUME NEW v \in Workers,
                        worker'[v].at = "finish", worker'[v].outcome = "succeeded"
                 PROVE  run'[worker'[v].run] = "SUCCEEDED"
      BY DEF SuccessSeen
    <2>0. worker'[v].run \in Runs
      BY DEF LegalWorker
    <2>1. CASE worker'[v] = worker[v]
      BY <2>0, <2>1 DEF SuccessInv, SuccessSeen
    <2>2. CASE worker'[v] # worker[v]
      <3>1. PICK w \in Workers : StartWorker(w) \/ StopWorker(w) \/ RunOnce(w)
                                   \/ WorkStep(w) \/ ProcessingError(w)
        BY <2>2, Zenon DEF Next, vars, UserStep, TimeStep, CreateRun, ExecuteRun, CancelQueuedJob,
               CancelRunningJob, RetryFailedJob, DeleteExpiredJob, BecomeDue, LeaseExpires,
               DeadlinePasses
      <3>2. CASE StartWorker(w) \/ StopWorker(w) \/ FinishJob(w)
        BY <2>2, <3>2 DEF StartWorker, StopWorker, FinishJob, Resting
      <3>3. CASE RunOnce(w)
        BY <2>2, <3>3 DEF RunOnce, Claiming
      <3>4. CASE BeginProcessing(w)
        BY <2>0, <2>2, <3>4 DEF BeginProcessing, FinishWith, Advance, WorkerStates
      <3>5. CASE Checkpoint(w)
        BY <2>2, <3>5 DEF Checkpoint, Raise, WorkerStates
      <3>6. CASE CommitResults(w)
        BY <2>0, <2>2, <3>6 DEF CommitResults, FinishWith, Raise, WorkerStates
      <3>7. CASE FailRun(w)
        <4>1. v = w /\ worker[w].outcome = "succeeded" /\ worker[w].at = "failRun"
          BY <2>2, <3>7 DEF FailRun, Advance, WorkerStates
        <4> QED
          BY <4>1 DEF LegalWorker
      <3>8. CASE ProcessingError(w)
        BY <2>2, <3>8 DEF ProcessingError, Raise, FinishWith, WorkerStates
      <3> QED
        BY <3>1, <3>2, <3>3, <3>4, <3>5, <3>6, <3>7, <3>8 DEF WorkStep
    <2> QED
      BY <2>1, <2>2
  <1>2. SucceededJobHasResults'
    <2> SUFFICES ASSUME NEW r \in Runs, job'[r].status = "SUCCEEDED"
                 PROVE  run'[r] = "SUCCEEDED"
      BY DEF SucceededJobHasResults
    <2>1. CASE job[r].status = "SUCCEEDED"
      BY <2>1 DEF SuccessInv, SucceededJobHasResults
    <2>2. CASE job[r].status # "SUCCEEDED"
      <3>1. PICK w \in Workers : FinishJob(w)
        BY <2>2, OnlyFinishSucceeds
      <3> DEFINE target == FinishTarget(worker[w].outcome, job[r].status)
      <3>2. /\ worker[w].at = "finish" /\ worker[w].run = r
            /\ \E retry \in BOOLEAN : job'[r] = Completed(job[r], target, retry)
        BY <2>2, <3>1, Zenon DEF FinishJob
      <3>3. target = "SUCCEEDED"
        BY <3>2 DEF Completed, Released, Jobs
      <3>4. worker[w].outcome = "succeeded"
        BY <3>2, <3>3 DEF FinishTarget, LegalWorker, WorkerStates, Outcomes
      <3>5. run[r] = "SUCCEEDED"
        BY <3>2, <3>4 DEF SuccessInv, SuccessSeen
      <3> QED
        BY <3>5
    <2> QED
      BY <2>1, <2>2
  <1> QED
    BY <1>1, <1>2 DEF SuccessInv

\* A job is reported SUCCEEDED only if its run is, also when a worker that lost
\* its lease completes it.
THEOREM SucceededJobs == Spec => []SucceededJobHasResults
  <1>1. Init => SuccessInv
    BY DEF Init, SuccessInv, SuccessSeen, SucceededJobHasResults, NoJob, Resting
  <1>2. TypeInv /\ TypeInv' /\ ResultsExactlyWhenSucceeded /\ SuccessInv /\ [Next]_vars
            => SuccessInv'
    BY StepRefines, LifecycleKeepsResults, SuccessStep
  <1>3. SuccessInv => SucceededJobHasResults
    BY DEF SuccessInv
  <1>4. Spec => []TypeInv
    BY TypeInit, TypeStep, PTL DEF Spec
  <1> QED
    BY <1>1, <1>2, <1>3, <1>4, ResultsCorrect, PTL DEF Spec

-----------------------------------------------------------------------------
(* Leases: what a worker remembers of a job it still holds is true.        *)

\* A worker that stopped for a cancellation, and still holds the lease, finds
\* the cancellation still requested.
CancelSeen ==
    \A w \in Workers :
        /\ worker[w].at \in {"failRun", "finish"}
        /\ worker[w].outcome = "cancelled"
        /\ Holds(w)
        => job[worker[w].run].status = "CANCEL_REQUESTED"

LeaseInv == LeaseSnapshotIsCurrent /\ CancelSeen

\* The lease of r is the same before and after the step.
SameLease(r) ==
    /\ Leased(job[r])
    /\ job'[r].id = job[r].id
    /\ job'[r].owner = job[r].owner
    /\ job'[r].attempt = job[r].attempt
    /\ job[r].status = "CANCEL_REQUESTED" => job'[r].status = "CANCEL_REQUESTED"

\* Recovery and completion end a lease.
LEMMA RowsNotLeased ==
    ASSUME NEW j \in Jobs
    PROVE  /\ ~Leased(Recovered(j))
           /\ ~Leased(Retried(j))
           /\ \A target \in TerminalStatuses, retry \in BOOLEAN :
                  ~Leased(Completed(j, target, retry))
           /\ \A id \in Nat, due \in BOOLEAN : ~Leased(QueuedJob(id, due)) /\ ~Leased(NoJob(id))
  <1>1. \A status \in {"QUEUED", "SUCCEEDED", "FAILED", "CANCELLED"} : ~Leased(Released(j, status))
    BY DEF Released, Jobs, Leased
  <1>2. ~Leased(Recovered(j))
    BY <1>1 DEF Recovered, Released, Jobs, Leased
  <1>3. ~Leased(Retried(j))
    BY DEF Retried, Released, Jobs, Leased
  <1>4. \A target \in TerminalStatuses, retry \in BOOLEAN : ~Leased(Completed(j, target, retry))
    BY <1>1 DEF Completed, Released, Jobs, Leased, TerminalStatuses
  <1>5. \A id \in Nat, due \in BOOLEAN : ~Leased(QueuedJob(id, due)) /\ ~Leased(NoJob(id))
    BY DEF QueuedJob, NoJob, Leased
  <1> QED
    BY <1>2, <1>3, <1>4, <1>5

\* A lease seen after a step was there before it, unless the step is the claim
\* that gave it.
LEMMA LeaseFrame ==
    ASSUME TypeInv, [Next]_vars, NEW r \in Runs, Leased(job'[r])
    PROVE  \/ SameLease(r)
           \/ \E w \in Workers : /\ worker[w].at = "idle"
                                /\ job'[r].owner = w
                                /\ worker'[w] = Claiming(w, r, job'[r])
  <1> USE DEF TypeInv, TypeOK
  <1>0. job[r] \in Jobs
    OBVIOUS
  <1>1. ASSUME NEW s \in Runs, UserStep(s) \/ DeleteExpiredJob(s) \/ TimeStep(s)
        PROVE  SameLease(r)
    <2>1. job[s] \in Jobs /\ job[s].id \in Nat
      BY BoundAssumption DEF Jobs
    <2>2. CASE CreateRun(s)
      BY <2>2 DEF CreateRun, SameLease
    <2>3. CASE ExecuteRun(s)
      BY <2>1, <2>3, RowsNotLeased DEF ExecuteRun, SameLease
    <2>4. CASE CancelQueuedJob(s) \/ CancelRunningJob(s) \/ TimeStep(s)
      BY <1>0, <2>1, <2>4 DEF CancelQueuedJob, CancelRunningJob, TimeStep, BecomeDue,
                        LeaseExpires, DeadlinePasses, Jobs, SameLease, Leased
    <2>5. CASE RetryFailedJob(s)
      BY <2>1, <2>5, RowsNotLeased DEF RetryFailedJob, SameLease
    <2>6. CASE DeleteExpiredJob(s)
      BY <2>1, <2>6, RowsNotLeased DEF DeleteExpiredJob, SameLease
    <2> QED
      BY <1>1, <2>2, <2>3, <2>4, <2>5, <2>6 DEF UserStep
  <1>2. ASSUME NEW w \in Workers, RunOnce(w)
        PROVE  \/ SameLease(r)
               \/ /\ worker[w].at = "idle"
                  /\ job'[r].owner = w
                  /\ worker'[w] = Claiming(w, r, job'[r])
    <2>1. RecoverStale \in [Runs -> Jobs]
      BY RecoverStaleType
    <2>2. Leased(RecoverStale[r]) => RecoverStale[r] = job[r]
      BY RowsNotLeased, Zenon DEF RecoverStale
    <2>3. CASE job' = RecoverStale
      BY <2>2, <2>3 DEF SameLease
    <2>4. ASSUME NEW s \in Runs,
                 job' = [RecoverStale EXCEPT ![s] = Claimed(@, w)],
                 worker' = [worker EXCEPT ![w] = Claiming(w, s, job'[s])]
          PROVE  \/ SameLease(r)
                 \/ /\ job'[r].owner = w
                    /\ worker'[w] = Claiming(w, r, job'[r])
      <3>1. CASE s = r
        <4>1. job'[r].owner = w
          BY <2>1, <2>4, <3>1 DEF Claimed, Jobs
        <4> QED
          BY <2>4, <3>1, <4>1
      <3>2. CASE s # r
        BY <2>1, <2>2, <2>4, <3>2 DEF SameLease
      <3> QED
        BY <3>1, <3>2
    <2> QED
      BY <1>2, <2>3, <2>4, Zenon DEF RunOnce
  <1>3. ASSUME NEW w \in Workers,
               StartWorker(w) \/ StopWorker(w) \/ WorkStep(w) \/ ProcessingError(w)
        PROVE  SameLease(r)
    <2>1. CASE Checkpoint(w)
      <3>1. worker[w].run \in Runs
        BY <2>1 DEF Checkpoint, LegalWorker
      <3> QED
        BY <1>0, <2>1, <3>1 DEF Checkpoint, Jobs, SameLease, Leased
    <2>2. CASE FinishJob(w)
      <3> DEFINE target == FinishTarget(worker[w].outcome, job[worker[w].run].status)
                 retry == target = "FAILED" /\ worker[w].attempt < MaxAttempts
      <3>1. worker[w].run \in Runs /\ job[worker[w].run] \in Jobs
        BY <2>2 DEF FinishJob, LegalWorker
      <3>2. target \in TerminalStatuses
        <4>1. worker[w].outcome \in {"succeeded", "cancelled", "timedOut", "failed"}
          BY <2>2 DEF FinishJob, LegalWorker, WorkerStates, Outcomes
        <4> QED
          BY <4>1 DEF FinishTarget, TerminalStatuses
      <3>3. retry \in BOOLEAN
        OBVIOUS
      <3>4. ~Leased(Completed(job[worker[w].run], target, retry))
        BY <3>1, <3>2, <3>3, RowsNotLeased
      <3>5. \/ job' = [job EXCEPT ![worker[w].run] = Completed(job[worker[w].run], target, retry)]
            \/ UNCHANGED job
        BY <2>2, Zenon DEF FinishJob
      <3> QED
        BY <3>1, <3>4, <3>5 DEF SameLease
    <2>3. CASE StartWorker(w) \/ StopWorker(w) \/ ProcessingError(w)
               \/ BeginProcessing(w) \/ CommitResults(w) \/ FailRun(w)
      BY <2>3 DEF StartWorker, StopWorker, ProcessingError, BeginProcessing, CommitResults,
                  FailRun, SameLease
    <2> QED
      BY <1>3, <2>1, <2>2, <2>3 DEF WorkStep
  <1>4. CASE UNCHANGED vars
    BY <1>4 DEF vars, SameLease
  <1> QED
    BY <1>1, <1>2, <1>3, <1>4 DEF Next

\* Every step keeps what the lease holders remember true.
LEMMA LeaseStep ==
    ASSUME TypeInv, TypeInv', LeaseInv, [Next]_vars
    PROVE  LeaseInv'
  <1> USE DEF TypeInv, TypeOK
  <1> SUFFICES ASSUME NEW v \in Workers, Busy(v)', Holds(v)'
               PROVE  /\ worker'[v].attempt = job'[worker'[v].run].attempt
                      /\ worker'[v].at \in {"failRun", "finish"} /\ worker'[v].outcome = "cancelled"
                            => job'[worker'[v].run].status = "CANCEL_REQUESTED"
    BY DEF LeaseInv, LeaseSnapshotIsCurrent, CancelSeen, Busy
  <1> DEFINE r == worker'[v].run
  <1>1. r \in Runs
    BY DEF Busy, LegalWorker
  <1>2. Leased(job'[r]) /\ job'[r].id = worker'[v].id /\ job'[r].owner = v
    BY DEF Holds
  <1>3. \/ SameLease(r)
        \/ \E w \in Workers : /\ worker[w].at = "idle"
                             /\ job'[r].owner = w
                             /\ worker'[w] = Claiming(w, r, job'[r])
    BY <1>1, <1>2, LeaseFrame
  <1>4. ASSUME worker[v].at = "idle", worker'[v] = Claiming(v, r, job'[r])
        PROVE  worker'[v].attempt = job'[r].attempt /\ worker'[v].at = "begin"
    BY <1>4 DEF Claiming
  <1>5. ASSUME SameLease(r), worker'[v] = worker[v]
        PROVE  /\ worker'[v].attempt = job'[r].attempt
               /\ worker'[v].at \in {"failRun", "finish"} /\ worker'[v].outcome = "cancelled"
                     => job'[r].status = "CANCEL_REQUESTED"
    <2>1. Busy(v) /\ Holds(v)
      BY <1>2, <1>5 DEF Busy, Holds, SameLease
    <2> QED
      BY <1>5, <2>1 DEF LeaseInv, LeaseSnapshotIsCurrent, CancelSeen, SameLease
  <1>6. ASSUME SameLease(r), worker'[v] # worker[v]
        PROVE  /\ worker'[v].attempt = job'[r].attempt
               /\ worker'[v].at \in {"failRun", "finish"} /\ worker'[v].outcome = "cancelled"
                     => job'[r].status = "CANCEL_REQUESTED"
    <2>1. PICK w \in Workers : StartWorker(w) \/ StopWorker(w) \/ RunOnce(w)
                                 \/ WorkStep(w) \/ ProcessingError(w)
      BY <1>6, Zenon DEF Next, vars, UserStep, TimeStep, CreateRun, ExecuteRun, CancelQueuedJob,
             CancelRunningJob, RetryFailedJob, DeleteExpiredJob, BecomeDue, LeaseExpires,
             DeadlinePasses
    <2>2. CASE StartWorker(w) \/ StopWorker(w) \/ FinishJob(w)
      BY <1>6, <2>2 DEF StartWorker, StopWorker, FinishJob, Resting, Busy
    <2>3. CASE RunOnce(w)
      <3>1. v = w /\ \E s \in Runs : worker'[v] = Claiming(v, s, job'[s])
        BY <1>6, <2>3 DEF RunOnce
      <3> QED
        BY <3>1 DEF Claiming
    <2>4. CASE BeginProcessing(w) \/ CommitResults(w) \/ FailRun(w) \/ ProcessingError(w)
      <3>1. v = w /\ Busy(v) /\ worker[v].run = r /\ worker[v].id = worker'[v].id
              /\ worker[v].attempt = worker'[v].attempt
        BY <1>6, <2>4 DEF BeginProcessing, CommitResults, FailRun, ProcessingError, FinishWith,
                          Raise, Advance, Busy, WorkerStates
      <3>2. Holds(v)
        BY <1>2, <1>6, <3>1 DEF Holds, SameLease
      <3>3. worker'[v].outcome = "cancelled" =>
               \/ worker[v].at = "failRun" /\ worker[v].outcome = "cancelled"
               \/ worker'[v].at = "processing"
        BY <2>4, <3>1 DEF BeginProcessing, CommitResults, FailRun, ProcessingError, FinishWith,
                          Raise, Advance, WorkerStates
      <3> QED
        BY <1>6, <3>1, <3>2, <3>3 DEF LeaseInv, LeaseSnapshotIsCurrent, CancelSeen, SameLease
    <2>5. CASE Checkpoint(w)
      <3>1. v = w /\ Busy(v) /\ worker[v].run = r /\ worker[v].id = worker'[v].id
              /\ worker[v].attempt = worker'[v].attempt
        BY <1>6, <2>5 DEF Checkpoint, Raise, Busy, WorkerStates
      <3>2. Holds(v)
        BY <1>2, <1>6, <3>1 DEF Holds, SameLease
      <3>3. worker'[v].at \in {"failRun", "finish"} /\ worker'[v].outcome = "cancelled"
               => job[r].status = "CANCEL_REQUESTED"
        BY <2>5, <3>1, <3>2 DEF Checkpoint, Raise, WorkerStates
      <3> QED
        BY <1>6, <3>1, <3>2, <3>3 DEF LeaseInv, LeaseSnapshotIsCurrent, SameLease
    <2> QED
      BY <2>1, <2>2, <2>3, <2>4, <2>5 DEF WorkStep
  <1> QED
    BY <1>2, <1>3, <1>4, <1>5, <1>6

\* A worker that holds the lease decides on the current attempt.
THEOREM LeaseSnapshots == Spec => [](LeaseSnapshotIsCurrent /\ CancelSeen)
  <1>1. Init => LeaseInv
    BY DEF Init, LeaseInv, LeaseSnapshotIsCurrent, CancelSeen, Busy, Resting
  <1>2. TypeInv /\ TypeInv' /\ LeaseInv /\ [Next]_vars => LeaseInv'
    BY LeaseStep
  <1>3. LeaseInv => LeaseSnapshotIsCurrent /\ CancelSeen
    BY DEF LeaseInv
  <1>4. Spec => []TypeInv
    BY TypeInit, TypeStep, PTL DEF Spec
  <1> QED
    BY <1>1, <1>2, <1>3, <1>4, PTL DEF Spec

\* complete() accepts what a lease holder asks for.
LEMMA HolderIsAccepted ==
    ASSUME TypeInv, LeaseInv, [Next]_vars, NEW w \in Workers,
           worker[w].at = "finish", worker'[w].at = "exited"
    PROVE  ~Holds(w)
  <1> USE DEF TypeInv, TypeOK
  <1> DEFINE j == job[worker[w].run]
             target == FinishTarget(worker[w].outcome, j.status)
             retry == target = "FAILED" /\ worker[w].attempt < MaxAttempts
  <1>1. worker'[w] # worker[w]
    OBVIOUS
  <1>2. PICK v \in Workers : StartWorker(v) \/ StopWorker(v) \/ RunOnce(v)
                               \/ WorkStep(v) \/ ProcessingError(v)
    BY <1>1, Zenon DEF Next, vars, UserStep, TimeStep, CreateRun, ExecuteRun, CancelQueuedJob,
           CancelRunningJob, RetryFailedJob, DeleteExpiredJob, BecomeDue, LeaseExpires,
           DeadlinePasses
  <1>3. FinishJob(w)
    <2>1. CASE StartWorker(v) \/ StopWorker(v) \/ FinishJob(v)
      BY <1>1, <2>1 DEF StartWorker, StopWorker, Resting, FinishJob
    <2>2. CASE RunOnce(v)
      BY <2>2 DEF RunOnce, Claiming
    <2>3. CASE BeginProcessing(v) \/ FailRun(v) \/ ProcessingError(v) \/ CommitResults(v)
      BY <1>1, <2>3 DEF BeginProcessing, FailRun, ProcessingError, CommitResults, FinishWith,
                        Raise, Advance, WorkerStates
    <2>4. CASE Checkpoint(v)
      BY <1>1, <2>4 DEF Checkpoint, Raise, WorkerStates
    <2> QED
      BY <1>2, <2>1, <2>2, <2>3, <2>4 DEF WorkStep
  <1>4. ~(j.id = worker[w].id /\ CompleteAccepts(j, target, retry))
    BY <1>3 DEF FinishJob, Resting
  <1>5. SUFFICES ASSUME Holds(w) PROVE FALSE
    OBVIOUS
  <1>6. Leased(j) /\ j.id = worker[w].id /\ worker[w].attempt = j.attempt
        /\ (worker[w].outcome = "cancelled" => j.status = "CANCEL_REQUESTED")
    BY <1>5 DEF Holds, LeaseInv, LeaseSnapshotIsCurrent, CancelSeen, Busy
  <1>7. worker[w].outcome \in {"succeeded", "cancelled", "timedOut", "failed"}
    BY DEF LegalWorker, WorkerStates, Outcomes
  <1>8. <<j.status, target>> \in CompleteTransitions
    BY <1>6, <1>7 DEF CompleteTransitions, FinishTarget, Leased
  <1>9. retry => j.attempt < MaxAttempts
    BY <1>6
  <1> QED
    BY <1>4, <1>6, <1>8, <1>9 DEF CompleteAccepts

\* Only a worker that lost its lease is ended by the error of complete().
THEOREM HoldersNeverExit == Spec => LeaseHolderNeverExits
  <1>1. TypeInv /\ LeaseInv /\ [Next]_vars =>
            [\A w \in Workers :
                worker[w].at = "finish" /\ worker'[w].at = "exited" => ~Holds(w)]_vars
    BY HolderIsAccepted
  <1>2. Spec => []TypeInv
    BY TypeInit, TypeStep, PTL DEF Spec
  <1>3. LeaseSnapshotIsCurrent /\ CancelSeen => LeaseInv
    BY DEF LeaseInv
  <1> QED
    BY <1>1, <1>2, <1>3, LeaseSnapshots, PTL DEF Spec, LeaseHolderNeverExits

-----------------------------------------------------------------------------
(* Jobs that have ended, and the attempts they took.                       *)

\* One step of a job that has ended.
EndedStep(r) ==
    \/ job'[r] = job[r]
    \/ job'[r].status = "ABSENT"
    \/ /\ job[r].status = "FAILED"
       /\ job'[r].status = "QUEUED"
       /\ job'[r].manual = job[r].manual + 1

\* No worker touches a job that has ended, not even one that thinks it is
\* processing it.
LEMMA EndedFrame ==
    ASSUME TypeInv, [Next]_vars, NEW r \in Runs, job[r].status \in TerminalStatuses
    PROVE  EndedStep(r)
  <1> USE DEF TypeInv, TypeOK
  <1>0. job[r] \in Jobs /\ ~Leased(job[r]) /\ ~Claimable(job[r])
    BY DEF TerminalStatuses, Leased, Claimable
  <1>1. ASSUME NEW s \in Runs, UserStep(s) \/ DeleteExpiredJob(s) \/ TimeStep(s)
        PROVE  EndedStep(r)
    <2>1. CASE s # r \/ CreateRun(s)
      BY <1>1, <2>1 DEF UserStep, TimeStep, CreateRun, ExecuteRun, CancelQueuedJob,
             CancelRunningJob, RetryFailedJob, DeleteExpiredJob, BecomeDue, LeaseExpires,
             DeadlinePasses, EndedStep
    <2>2. CASE s = r /\ RetryFailedJob(s)
      <3>1. Retried(job[r]).status = "QUEUED" /\ Retried(job[r]).manual = job[r].manual + 1
        BY <1>0 DEF Retried, Released, Jobs
      <3> QED
        BY <2>2, <3>1 DEF RetryFailedJob, RetryRefused, EndedStep
    <2>3. CASE s = r /\ DeleteExpiredJob(s)
      BY <2>3 DEF DeleteExpiredJob, NoJob, EndedStep
    <2>4. CASE s = r /\ (ExecuteRun(s) \/ CancelQueuedJob(s) \/ CancelRunningJob(s) \/ TimeStep(s))
      BY <1>0, <2>4 DEF ExecuteRun, CancelQueuedJob, CancelRunningJob, TimeStep, BecomeDue,
             LeaseExpires, DeadlinePasses, TerminalStatuses, Leased
    <2> QED
      BY <1>1, <2>1, <2>2, <2>3, <2>4 DEF UserStep
  <1>2. ASSUME NEW w \in Workers,
               StartWorker(w) \/ StopWorker(w) \/ RunOnce(w) \/ WorkStep(w) \/ ProcessingError(w)
        PROVE  job'[r] = job[r]
    <2>1. CASE RunOnce(w)
      <3>1. RecoverStale \in [Runs -> Jobs] /\ RecoverStale[r] = job[r]
        BY <1>0, RecoverStaleType, Zenon DEF RecoverStale
      <3>2. \A s \in Runs : Claimable(RecoverStale[s]) => s # r
        BY <1>0, <3>1
      <3> QED
        BY <2>1, <3>1, <3>2 DEF RunOnce
    <2>2. CASE Checkpoint(w)
      BY <1>0, <2>2 DEF Checkpoint, Holds
    <2>3. CASE FinishJob(w)
      <3> DEFINE target == FinishTarget(worker[w].outcome, job[worker[w].run].status)
                 retry == target = "FAILED" /\ worker[w].attempt < MaxAttempts
      <3>1. CASE worker[w].run = r
        <4>1. ~CompleteAccepts(job[r], target, retry)
          BY DEF CompleteAccepts, CompleteTransitions, TerminalStatuses
        <4> QED
          BY <2>3, <3>1, <4>1 DEF FinishJob
      <3>2. CASE worker[w].run # r
        BY <2>3, <3>2 DEF FinishJob
      <3> QED
        BY <3>1, <3>2
    <2>4. CASE StartWorker(w) \/ StopWorker(w) \/ ProcessingError(w)
               \/ BeginProcessing(w) \/ CommitResults(w) \/ FailRun(w)
      BY <2>4 DEF StartWorker, StopWorker, ProcessingError, BeginProcessing, CommitResults, FailRun
    <2> QED
      BY <1>2, <2>1, <2>2, <2>3, <2>4 DEF WorkStep
  <1>3. CASE UNCHANGED vars
    BY <1>3 DEF vars, EndedStep
  <1> QED
    BY <1>1, <1>2, <1>3 DEF Next, EndedStep

\* A job that has ended stays so until it is deleted or manually retried.
THEOREM EndedJobsStay == Spec => TerminalJobsStay
  <1>1. TypeInv /\ [Next]_vars =>
            [\A r \in Runs :
                job[r].status \in TerminalStatuses =>
                    \/ job'[r] = job[r]
                    \/ job'[r].status = "ABSENT"
                    \/ /\ job[r].status = "FAILED"
                       /\ job'[r].status = "QUEUED"
                       /\ job'[r].manual = job[r].manual + 1]_vars
    BY EndedFrame DEF EndedStep
  <1>2. Spec => []TypeInv
    BY TypeInit, TypeStep, PTL DEF Spec
  <1> QED
    BY <1>1, <1>2, PTL DEF Spec, TerminalJobsStay

\* The attempts of the finished cycles and of the current one cover them all.
WithinBudget(j) == j.total <= MaxAttempts * j.manual + j.attempt

BudgetInv == \A r \in Runs : WithinBudget(job[r])

\* A new row has spent nothing.
LEMMA NewRowBudget ==
    \A id \in Nat, due \in BOOLEAN : WithinBudget(QueuedJob(id, due)) /\ WithinBudget(NoJob(id))
  BY AttemptsAssumption DEF QueuedJob, NoJob, WithinBudget

\* What the row operators do to the counters.
LEMMA RowBudget ==
    ASSUME NEW j \in Jobs, WithinBudget(j)
    PROVE  /\ WithinBudget(Recovered(j))
           /\ \A target \in TerminalStatuses, retry \in BOOLEAN :
                  WithinBudget(Completed(j, target, retry))
           /\ \A w \in Workers : WithinBudget(Claimed(j, w))
           /\ j.manual < MaxManualRetries => WithinBudget(Retried(j))
           /\ \A id \in Nat, due \in BOOLEAN :
                  WithinBudget(QueuedJob(id, due)) /\ WithinBudget(NoJob(id))
  <1>1. \A status \in JobStatuses :
            /\ Released(j, status).total = j.total
            /\ Released(j, status).manual = j.manual
            /\ Released(j, status).attempt = j.attempt
    BY DEF Released, Jobs
  <1>2. \A status \in JobStatuses, due \in BOOLEAN :
            /\ [Released(j, status) EXCEPT !.due = due].total = j.total
            /\ [Released(j, status) EXCEPT !.due = due].manual = j.manual
            /\ [Released(j, status) EXCEPT !.due = due].attempt = j.attempt
    BY DEF Released, Jobs
  <1>3. WithinBudget(Recovered(j))
    BY <1>1, <1>2 DEF Recovered, WithinBudget, JobStatuses
  <1>4. \A target \in TerminalStatuses, retry \in BOOLEAN : WithinBudget(Completed(j, target, retry))
    BY <1>1, <1>2 DEF Completed, WithinBudget, JobStatuses, TerminalStatuses
  <1>5. j.total \in Nat /\ j.manual \in Nat /\ j.attempt \in Nat /\ j.attempt <= MaxAttempts
    <2>1. j.total \in Nat /\ j.manual \in 0 .. MaxManualRetries /\ j.attempt \in 0 .. MaxAttempts
      BY Zenon DEF Jobs
    <2> QED
      BY <2>1, AttemptsAssumption, ManualAssumption
  <1>6. MaxAttempts * j.manual \in Nat /\ MaxAttempts * (j.manual + 1) = MaxAttempts * j.manual + MaxAttempts
    BY <1>5, AttemptsAssumption
  <1>7. \A w \in Workers : WithinBudget(Claimed(j, w))
    <2>1. \A w \in Workers : /\ Claimed(j, w).total = j.total + 1
                            /\ Claimed(j, w).manual = j.manual
                            /\ Claimed(j, w).attempt = j.attempt + 1
      BY DEF Claimed, Jobs
    <2> QED
      BY <1>5, <1>6, <2>1 DEF WithinBudget
  <1>8. WithinBudget(Retried(j))
    <2>1. Retried(j).total = j.total /\ Retried(j).manual = j.manual + 1 /\ Retried(j).attempt = 0
      BY DEF Retried, Released, Jobs
    <2>2. j.total <= MaxAttempts * j.manual + j.attempt
      BY DEF WithinBudget
    <2> DEFINE spent == MaxAttempts * j.manual
               allowed == MaxAttempts * (j.manual + 1)
    <2>3. spent \in Nat /\ allowed = spent + MaxAttempts /\ j.total <= spent + j.attempt
      BY <1>6, <2>2
    <2> HIDE DEF spent, allowed
    <2>4. j.total <= allowed + 0
      BY <1>5, <2>3, AttemptsAssumption
    <2> QED
      BY <2>1, <2>4 DEF WithinBudget, allowed
  <1>9. \A id \in Nat, due \in BOOLEAN : WithinBudget(QueuedJob(id, due)) /\ WithinBudget(NoJob(id))
    BY NewRowBudget
  <1> QED
    BY <1>3, <1>4, <1>7, <1>8, <1>9

\* No step lets a job be claimed more often than its cycles allow.
LEMMA BudgetStep ==
    ASSUME TypeInv, BudgetInv, [Next]_vars
    PROVE  BudgetInv'
  <1> USE DEF TypeInv, TypeOK, BudgetInv
  <1>1. ASSUME NEW s \in Runs, UserStep(s) \/ DeleteExpiredJob(s) \/ TimeStep(s)
        PROVE  BudgetInv'
    <2>1. job[s] \in Jobs /\ job[s].id \in Nat /\ WithinBudget(job[s])
      BY BoundAssumption DEF Jobs
    <2>2. CASE CreateRun(s)
      BY <2>2 DEF CreateRun
    <2>3. CASE ExecuteRun(s)
      <3>1. \A due \in BOOLEAN : WithinBudget(QueuedJob(job[s].id + 1, due))
        BY <2>1, RowBudget
      <3> QED
        BY <2>3, <3>1 DEF ExecuteRun
    <2>4. CASE CancelQueuedJob(s) \/ CancelRunningJob(s) \/ TimeStep(s)
      <3>1. /\ job' \in [Runs -> Jobs]
            /\ \A r \in Runs : /\ job'[r].total = job[r].total
                              /\ job'[r].manual = job[r].manual
                              /\ job'[r].attempt = job[r].attempt
        BY <1>1, <2>1, <2>4, TypeOfRowSteps DEF CancelQueuedJob, CancelRunningJob, TimeStep,
              BecomeDue, LeaseExpires, DeadlinePasses, Jobs
      <3> QED
        BY <3>1 DEF WithinBudget
    <2>5. CASE RetryFailedJob(s)
      <3>1. job[s].manual < MaxManualRetries
        <4>1. job[s].manual \in 0 .. MaxManualRetries
          BY <2>1, Zenon DEF Jobs
        <4> QED
          BY <2>5, <4>1, ManualAssumption DEF RetryFailedJob, RetryRefused
      <3>2. WithinBudget(Retried(job[s]))
        BY <2>1, <3>1, RowBudget
      <3> QED
        BY <2>5, <3>2 DEF RetryFailedJob
    <2>6. CASE DeleteExpiredJob(s)
      <3>1. WithinBudget(NoJob(job[s].id))
        BY <2>1, RowBudget
      <3> QED
        BY <2>6, <3>1 DEF DeleteExpiredJob
    <2> QED
      BY <1>1, <2>2, <2>3, <2>4, <2>5, <2>6 DEF UserStep
  <1>2. ASSUME NEW w \in Workers,
               StartWorker(w) \/ StopWorker(w) \/ RunOnce(w) \/ WorkStep(w) \/ ProcessingError(w)
        PROVE  BudgetInv'
    <2>1. CASE RunOnce(w)
      <3>1. RecoverStale \in [Runs -> Jobs]
        BY RecoverStaleType
      <3>2. \A r \in Runs : WithinBudget(RecoverStale[r])
        BY RowBudget, Zenon DEF RecoverStale
      <3>3. \A r \in Runs : WithinBudget(Claimed(RecoverStale[r], w))
        BY <3>1, <3>2, RowBudget
      <3> QED
        BY <2>1, <3>1, <3>2, <3>3 DEF RunOnce
    <2>2. CASE Checkpoint(w)
      <3>1. worker[w].run \in Runs
        BY <2>2 DEF Checkpoint, LegalWorker
      <3>2. WithinBudget([job[worker[w].run] EXCEPT !.stale = FALSE])
        BY <3>1 DEF WithinBudget, Jobs
      <3> QED
        BY <2>2, <3>1, <3>2 DEF Checkpoint
    <2>3. CASE FinishJob(w)
      <3> DEFINE j == job[worker[w].run]
                 target == FinishTarget(worker[w].outcome, j.status)
                 retry == target = "FAILED" /\ worker[w].attempt < MaxAttempts
      <3>1. worker[w].run \in Runs /\ j \in Jobs /\ WithinBudget(j)
        BY <2>3 DEF FinishJob, LegalWorker
      <3>2. target \in TerminalStatuses
        <4>1. worker[w].outcome \in {"succeeded", "cancelled", "timedOut", "failed"}
          BY <2>3 DEF FinishJob, LegalWorker, WorkerStates, Outcomes
        <4> QED
          BY <4>1 DEF FinishTarget, TerminalStatuses
      <3>3. retry \in BOOLEAN
        OBVIOUS
      <3>4. WithinBudget(Completed(j, target, retry))
        BY <3>1, <3>2, <3>3, RowBudget
      <3>5. \/ job' = [job EXCEPT ![worker[w].run] = Completed(j, target, retry)]
            \/ UNCHANGED job
        BY <2>3, Zenon DEF FinishJob
      <3> QED
        BY <3>1, <3>4, <3>5
    <2>4. CASE StartWorker(w) \/ StopWorker(w) \/ ProcessingError(w)
               \/ BeginProcessing(w) \/ CommitResults(w) \/ FailRun(w)
      BY <2>4 DEF StartWorker, StopWorker, ProcessingError, BeginProcessing, CommitResults, FailRun
    <2> QED
      BY <1>2, <2>1, <2>2, <2>3, <2>4 DEF WorkStep
  <1>3. CASE UNCHANGED vars
    BY <1>3 DEF vars
  <1> QED
    BY <1>1, <1>2, <1>3 DEF Next

\* A job is claimed at most max_attempts times in each of its cycles.
THEOREM AttemptsBounded == Spec => []AttemptBudget
  <1>1. Init => BudgetInv
    BY NewRowBudget DEF Init, BudgetInv
  <1>2. TypeInv /\ BudgetInv => AttemptBudget
    <2> SUFFICES ASSUME TypeInv, BudgetInv, NEW r \in Runs
                 PROVE  job[r].total <= MaxAttempts * (job[r].manual + 1)
      BY DEF AttemptBudget
    <2>1. job[r].total \in Nat /\ job[r].manual \in 0 .. MaxManualRetries
          /\ job[r].attempt \in 0 .. MaxAttempts
      <3>1. job[r] \in Jobs
        BY DEF TypeInv, TypeOK
      <3> QED
        BY <3>1, Zenon DEF Jobs
    <2>2. job[r].manual \in Nat
      BY <2>1, ManualAssumption
    <2>3. MaxAttempts * job[r].manual \in Nat
          /\ MaxAttempts * (job[r].manual + 1) = MaxAttempts * job[r].manual + MaxAttempts
      BY <2>2, AttemptsAssumption
    <2>4. job[r].total <= MaxAttempts * job[r].manual + job[r].attempt
      BY DEF BudgetInv, WithinBudget
    <2> QED
      BY <2>1, <2>3, <2>4, AttemptsAssumption
  <1>3. TypeInv /\ BudgetInv /\ [Next]_vars => BudgetInv'
    BY BudgetStep
  <1>4. Spec => []TypeInv
    BY TypeInit, TypeStep, PTL DEF Spec
  <1> QED
    BY <1>1, <1>2, <1>3, <1>4, PTL DEF Spec

-----------------------------------------------------------------------------
(* What the files of a run see: the pipeline implements RunView, run by    *)
(* run.                                                                    *)

SeenStep(r) == [View(r)!Next]_(View(r)!viewVars)

\* A step that leaves the run, the job as seen, and who may begin alone shows
\* nothing.
LEMMA UnseenStep ==
    ASSUME NEW r \in Runs, run'[r] = run[r], SeenJob(r)' = SeenJob(r),
           MayBegin(r)' = MayBegin(r)
    PROVE  SeenStep(r)
  <1>1. SeenStatus(r)' = SeenStatus(r)
    BY DEF SeenStatus
  <1> QED
    BY <1>1 DEF SeenStep, View!viewVars

\* Users, retention and time.
LEMMA RowStepsSeen ==
    ASSUME TypeInv, NEW r \in Runs, NEW s \in Runs,
           UserStep(s) \/ DeleteExpiredJob(s) \/ TimeStep(s)
    PROVE  SeenStep(r)
  <1> USE DEF TypeInv, TypeOK
  <1>1. MayBegin(r)' = MayBegin(r)
    BY DEF MayBegin, UserStep, TimeStep, CreateRun, ExecuteRun, CancelQueuedJob,
           CancelRunningJob, RetryFailedJob, DeleteExpiredJob, BecomeDue, LeaseExpires,
           DeadlinePasses
  <1>2. CASE s # r
    <2>1. run'[r] = run[r] /\ job'[r] = job[r]
      BY <1>2 DEF UserStep, TimeStep, CreateRun, ExecuteRun, CancelQueuedJob,
             CancelRunningJob, RetryFailedJob, DeleteExpiredJob, BecomeDue, LeaseExpires,
             DeadlinePasses
    <2> QED
      BY <1>1, <2>1, UnseenStep DEF SeenJob
  <1>3. CASE s = r
    <2>0. job[r] \in Jobs
      OBVIOUS
    <2>1. CASE CreateRun(r)
      BY <1>1, <2>1 DEF CreateRun, SeenStatus, SeenJob, SeenStep, View!viewVars
    <2>2. CASE ExecuteRun(r)
      <3>1. run'[r] = run[r] /\ job'[r].status = "QUEUED"
        BY <2>2 DEF ExecuteRun, QueuedJob, NoJob
      <3>2. View(r)!Execute
        BY <1>1, <2>2, <3>1 DEF ExecuteRun, SeenStatus, SeenJob, View!Execute
      <3> QED
        BY <3>2 DEF SeenStep, View!Next
    <2>3. CASE CancelQueuedJob(r)
      <3>1. job[r].status = "QUEUED" /\ job'[r].status = "CANCELLED" /\ run'[r] = run[r]
        BY <2>0, <2>3 DEF CancelQueuedJob, Jobs
      <3>2. View(r)!End
        BY <1>1, <3>1 DEF SeenStatus, SeenJob, View!End
      <3> QED
        BY <3>2 DEF SeenStep, View!Next
    <2>4. CASE CancelRunningJob(r) \/ TimeStep(r)
      <3>1. /\ run'[r] = run[r]
            /\ \/ job'[r].status = job[r].status
               \/ job[r].status = "RUNNING" /\ job'[r].status = "CANCEL_REQUESTED"
        BY <2>0, <2>4 DEF CancelRunningJob, TimeStep, BecomeDue, LeaseExpires,
                          DeadlinePasses, Jobs
      <3>2. SeenJob(r)' = SeenJob(r)
        BY <3>1 DEF SeenJob
      <3> QED
        BY <1>1, <3>1, <3>2, UnseenStep
    <2>5. CASE RetryFailedJob(r)
      <3>1. Retried(job[r]).status = "QUEUED"
        BY <2>0 DEF Retried, Released, Jobs
      <3>2. /\ job[r].status = "FAILED" /\ job'[r].status = "QUEUED"
            /\ run[r] = "FAILED" /\ run'[r] = "PENDING"
        BY <2>5, <3>1 DEF RetryFailedJob, RetryRefused
      <3>3. View(r)!Retry
        BY <1>1, <3>2 DEF SeenStatus, SeenJob, View!Retry
      <3> QED
        BY <3>3 DEF SeenStep, View!Next
    <2>6. CASE DeleteExpiredJob(r)
      <3>1. /\ job[r].status \in TerminalStatuses /\ job'[r].status = "ABSENT"
            /\ run'[r] = run[r]
        BY <2>6 DEF DeleteExpiredJob, NoJob
      <3>2. View(r)!Expire
        BY <1>1, <3>1 DEF SeenStatus, SeenJob, TerminalStatuses, View!Expire
      <3> QED
        BY <3>2 DEF SeenStep, View!Next
    <2> QED
      BY <1>3, <2>1, <2>2, <2>3, <2>4, <2>5, <2>6 DEF UserStep
  <1> QED
    BY <1>2, <1>3

\* Taking a stale lease away leaves the job waiting or ends it for good; what
\* is claimed is active before and after.
LEMMA RecoverySeen ==
    ASSUME TypeInv, NEW r \in Runs
    PROVE  /\ \/ RecoverStale[r].status = job[r].status
              \/ /\ Leased(job[r])
                 /\ RecoverStale[r].status \in {"QUEUED", "FAILED", "CANCELLED"}
           /\ Claimable(RecoverStale[r]) => SeenJob(r) = "active"
           /\ \A w \in Workers : Claimed(RecoverStale[r], w).status = "RUNNING"
  <1> USE DEF TypeInv, TypeOK
  <1>1. RecoverStale[r] \in Jobs /\ job[r] \in Jobs
    BY RecoverStaleType
  <1>2. \A w \in Workers : Claimed(RecoverStale[r], w).status = "RUNNING"
    BY <1>1 DEF Claimed, Jobs
  <1>3. Recovered(job[r]).status \in {"QUEUED", "FAILED", "CANCELLED"}
    BY <1>1 DEF Recovered, Released, Jobs
  <1>4. \/ RecoverStale[r].status = job[r].status
        \/ /\ Leased(job[r])
           /\ RecoverStale[r].status \in {"QUEUED", "FAILED", "CANCELLED"}
    BY <1>3 DEF RecoverStale
  <1>5. Claimable(RecoverStale[r]) => SeenJob(r) = "active"
    BY <1>4 DEF Claimable, Leased, SeenJob
  <1> QED
    BY <1>2, <1>4, <1>5

\* One transaction of a worker recovers every job and claims at most one.
LEMMA RunOnceSeen ==
    ASSUME TypeInv, NEW r \in Runs, NEW w \in Workers, RunOnce(w)
    PROVE  SeenStep(r)
  <1> USE DEF TypeInv, TypeOK
  <1>1. worker[w].at = "idle" /\ UNCHANGED run /\ SeenStatus(r)' = SeenStatus(r)
    BY DEF RunOnce, SeenStatus
  <1>2. ASSUME job'[r] = RecoverStale[r], MayBegin(r)' = MayBegin(r)
        PROVE  SeenStep(r)
    <2>1. CASE RecoverStale[r].status \in {job[r].status, "QUEUED"}
      <3>1. SeenJob(r)' = SeenJob(r)
        BY <1>2, <2>1, RecoverySeen DEF SeenJob, Leased
      <3> QED
        BY <1>1, <1>2, <3>1, UnseenStep
    <2>2. CASE RecoverStale[r].status \notin {job[r].status, "QUEUED"}
      <3>1. SeenJob(r) = "active" /\ SeenJob(r)' \in {"ended", "failed"}
        BY <1>2, <2>2, RecoverySeen DEF SeenJob, Leased
      <3>2. View(r)!End
        BY <1>1, <1>2, <3>1 DEF View!End
      <3> QED
        BY <3>2 DEF SeenStep, View!Next
    <2> QED
      BY <2>1, <2>2
  <1>3. ASSUME NEW s \in Runs, Claimable(RecoverStale[s]),
               job' = [RecoverStale EXCEPT ![s] = Claimed(@, w)],
               worker' = [worker EXCEPT ![w] = Claiming(w, s, job'[s])]
        PROVE  SeenStep(r)
    <2>1. worker'[w].at = "begin" /\ worker'[w].run = s
      BY <1>3 DEF Claiming
    <2>2. CASE s = r
      <3>1. SeenJob(r) = "active" /\ job'[r].status = "RUNNING"
        BY <1>3, <2>2, RecoverySeen, RecoverStaleType
      <3>2. MayBegin(r)' = TRUE
        BY <2>1, <2>2 DEF MayBegin
      <3>3. View(r)!Claim
        BY <1>1, <3>1, <3>2 DEF SeenJob, View!Claim
      <3> QED
        BY <3>3 DEF SeenStep, View!Next
    <2>3. CASE s # r
      <3>1. job'[r] = RecoverStale[r]
        BY <1>3, <2>3, RecoverStaleType
      <3>2. \A v \in Workers : v # w => worker'[v] = worker[v]
        BY <1>3
      <3>3. MayBegin(r)' = MayBegin(r)
        BY <1>1, <2>1, <2>3, <3>2 DEF MayBegin
      <3> QED
        BY <1>2, <3>1, <3>3
    <2> QED
      BY <2>2, <2>3
  <1>4. CASE job' = RecoverStale /\ UNCHANGED worker
    BY <1>2, <1>4 DEF MayBegin
  <1> QED
    BY <1>3, <1>4, Zenon DEF RunOnce

\* Only the worker itself leaves the place from which it may begin a run.
LEMMA OthersMayBegin ==
    ASSUME TypeInv, NEW w \in Workers, NEW r \in Runs,
           worker' = [worker EXCEPT ![w] = worker'[w]], worker'[w].at # "begin"
    PROVE  /\ worker[w].at # "begin" \/ worker[w].run # r => MayBegin(r)' = MayBegin(r)
           /\ MayBegin(r)' => MayBegin(r)
  <1>1. \A v \in Workers : v # w => worker'[v] = worker[v]
    BY DEF TypeInv, TypeOK
  <1> QED
    BY <1>1 DEF MayBegin

\* A worker at work changes its own place only, and does not claim.
LEMMA WorkerMoves ==
    ASSUME TypeInv, NEW w \in Workers,
           StartWorker(w) \/ StopWorker(w) \/ WorkStep(w) \/ ProcessingError(w)
    PROVE  worker' = [worker EXCEPT ![w] = worker'[w]] /\ worker'[w].at # "begin"
  <1> USE DEF TypeInv, TypeOK
  <1>1. worker[w] \in WorkerStates
    OBVIOUS
  <1>2. CASE StartWorker(w) \/ StopWorker(w) \/ FinishJob(w)
    BY <1>2 DEF StartWorker, StopWorker, FinishJob, Resting
  <1>3. CASE BeginProcessing(w) \/ CommitResults(w) \/ FailRun(w) \/ ProcessingError(w)
    BY <1>1, <1>3 DEF BeginProcessing, CommitResults, FailRun, ProcessingError, FinishWith,
                      Raise, Advance, WorkerStates
  <1>4. CASE Checkpoint(w)
    BY <1>1, <1>4 DEF Checkpoint, Raise, WorkerStates
  <1> QED
    BY <1>2, <1>3, <1>4 DEF WorkStep

\* The job as it is seen, when a worker begins, checkpoints or ends a run.
LEMMA WorkersKeepJobs ==
    ASSUME TypeInv, NEW w \in Workers, NEW r \in Runs,
           \/ StartWorker(w) \/ StopWorker(w) \/ ProcessingError(w)
           \/ BeginProcessing(w) \/ Checkpoint(w) \/ CommitResults(w) \/ FailRun(w)
    PROVE  SeenJob(r)' = SeenJob(r)
  <1> USE DEF TypeInv, TypeOK
  <1>1. CASE Checkpoint(w)
    <2>1. worker[w].run \in Runs
      BY <1>1 DEF Checkpoint, LegalWorker
    <2>2. job'[r].status = job[r].status
      BY <1>1, <2>1 DEF Checkpoint, Jobs
    <2> QED
      BY <2>2 DEF SeenJob
  <1>2. CASE UNCHANGED job
    BY <1>2 DEF SeenJob
  <1> QED
    BY <1>1, <1>2 DEF StartWorker, StopWorker, ProcessingError, BeginProcessing,
                      CommitResults, FailRun

\* Completing a job ends it, or lets it wait for its retry.
LEMMA FinishSeen ==
    ASSUME TypeInv, NEW w \in Workers, FinishJob(w), NEW r \in Runs
    PROVE  \/ SeenJob(r)' = SeenJob(r)
           \/ SeenJob(r) = "active" /\ SeenJob(r)' \in {"ended", "failed"}
  <1> USE DEF TypeInv, TypeOK
  <1> DEFINE s == worker[w].run
             target == FinishTarget(worker[w].outcome, job[s].status)
             retry == target = "FAILED" /\ worker[w].attempt < MaxAttempts
  <1>1. CASE UNCHANGED job
    BY <1>1 DEF SeenJob
  <1>2. CASE job' = [job EXCEPT ![s] = Completed(job[s], target, retry)]
             /\ CompleteAccepts(job[s], target, retry)
    <2>1. CASE s # r
      BY <1>2, <2>1 DEF SeenJob
    <2>2. CASE s = r
      <3>1. <<job[r].status, target>> \in CompleteTransitions
        BY <1>2, <2>2 DEF CompleteAccepts
      <3>2. /\ job[r].status \in {"RUNNING", "CANCEL_REQUESTED"}
            /\ target \in {"SUCCEEDED", "FAILED", "CANCELLED"}
        BY <3>1 DEF CompleteTransitions
      <3>3. job'[r] = Completed(job[r], target, retry) /\ job[r] \in Jobs
        BY <1>2, <2>2
      <3> HIDE DEF target, retry
      <3>4. job'[r].status \in {"QUEUED", target}
        BY <3>3 DEF Completed, Released, Jobs
      <3> QED
        BY <3>2, <3>4 DEF SeenJob
    <2> QED
      BY <2>1, <2>2
  <1> QED
    BY <1>1, <1>2, Zenon DEF FinishJob

\* What a worker does to the run it has claimed, and to no other.
LEMMA WorkerStepsSeen ==
    ASSUME TypeInv, NEW w \in Workers, NEW r \in Runs,
           StartWorker(w) \/ StopWorker(w) \/ WorkStep(w) \/ ProcessingError(w)
    PROVE  SeenStep(r)
  <1> USE DEF TypeInv, TypeOK
  <1> DEFINE leaves == worker[w].at = "begin" /\ worker[w].run = r
  <1>1. /\ ~leaves => MayBegin(r)' = MayBegin(r)
        /\ leaves => MayBegin(r)
        /\ MayBegin(r)' => MayBegin(r)
        /\ MayBegin(r) \in BOOLEAN /\ MayBegin(r)' \in BOOLEAN
    BY WorkerMoves, OthersMayBegin DEF MayBegin
  <1>2. ASSUME run'[r] = run[r], SeenJob(r)' = SeenJob(r)
        PROVE  SeenStep(r)
    <2>1. SeenStatus(r)' = SeenStatus(r)
      BY <1>2 DEF SeenStatus
    <2>2. CASE MayBegin(r)' = MayBegin(r)
      BY <1>2, <2>2, UnseenStep
    <2>3. CASE MayBegin(r)' # MayBegin(r)
      <3>1. MayBegin(r) /\ MayBegin(r)' = FALSE
        BY <1>1, <2>3
      <3>2. View(r)!LoseClaim
        BY <1>2, <2>1, <3>1 DEF View!LoseClaim
      <3> QED
        BY <3>2 DEF SeenStep, View!Next
    <2> QED
      BY <2>2, <2>3
  <1>3. CASE BeginProcessing(w)
    <2>1. SeenJob(r)' = SeenJob(r)
      BY <1>3, WorkersKeepJobs
    <2>2. CASE run'[r] = run[r]
      BY <1>2, <2>1, <2>2
    <2>3. CASE run'[r] # run[r]
      <3>1. worker[w].run = r /\ run[r] = "PENDING" /\ run'[r] = "RUNNING"
        BY <1>3, <2>3 DEF BeginProcessing
      <3>2. MayBegin(r)
        BY <1>1, <1>3, <3>1 DEF BeginProcessing
      <3>3. SeenStatus(r) = "PENDING" /\ SeenStatus(r)' = "RUNNING"
        BY <3>1 DEF SeenStatus
      <3>4. View(r)!Begin
        BY <1>1, <2>1, <3>2, <3>3 DEF View!Begin
      <3> QED
        BY <3>4 DEF SeenStep, View!Next
    <2> QED
      BY <2>2, <2>3
  <1>4. CASE CommitResults(w)
    <2>1. SeenJob(r)' = SeenJob(r) /\ MayBegin(r)' = MayBegin(r)
      BY <1>1, <1>4, WorkersKeepJobs DEF CommitResults
    <2>2. run'[r] = run[r] \/ (run[r] = "RUNNING" /\ run'[r] = "SUCCEEDED")
      BY <1>4 DEF CommitResults
    <2>3. SeenStatus(r)' = SeenStatus(r)
      BY <2>2 DEF SeenStatus
    <2> QED
      BY <2>1, <2>3 DEF SeenStep, View!viewVars
  <1>5. CASE FailRun(w)
    <2>1. SeenJob(r)' = SeenJob(r) /\ MayBegin(r)' = MayBegin(r)
      BY <1>1, <1>5, WorkersKeepJobs DEF FailRun
    <2>2. CASE run'[r] = run[r]
      BY <1>2, <2>1, <2>2
    <2>3. CASE run'[r] # run[r]
      <3>1. run[r] = "RUNNING" /\ run'[r] = "FAILED"
        BY <1>5, <2>3 DEF FailRun
      <3>2. View(r)!Fail
        BY <2>1, <3>1 DEF SeenStatus, View!Fail
      <3> QED
        BY <3>2 DEF SeenStep, View!Next
    <2> QED
      BY <2>2, <2>3
  <1>6. CASE FinishJob(w)
    <2>1. run'[r] = run[r] /\ SeenStatus(r)' = SeenStatus(r) /\ MayBegin(r)' = MayBegin(r)
      BY <1>1, <1>6 DEF FinishJob, SeenStatus
    <2>2. CASE SeenJob(r)' = SeenJob(r)
      BY <1>2, <2>1, <2>2
    <2>3. CASE SeenJob(r) = "active" /\ SeenJob(r)' \in {"ended", "failed"}
      <3>1. View(r)!End
        BY <2>1, <2>3 DEF View!End
      <3> QED
        BY <3>1 DEF SeenStep, View!Next
    <2> QED
      BY <1>6, <2>2, <2>3, FinishSeen
  <1>7. CASE StartWorker(w) \/ StopWorker(w) \/ ProcessingError(w) \/ Checkpoint(w)
    <2>1. run'[r] = run[r]
      BY <1>7 DEF StartWorker, StopWorker, ProcessingError, Checkpoint
    <2> QED
      BY <1>2, <1>7, <2>1, WorkersKeepJobs
  <1> QED
    BY <1>3, <1>4, <1>5, <1>6, <1>7 DEF WorkStep

\* Whatever happens in the pipeline, each run is seen to take a step of RunView.
LEMMA EveryStepSeen ==
    ASSUME TypeInv, [Next]_vars, NEW r \in Runs
    PROVE  SeenStep(r)
  <1>1. CASE UNCHANGED vars
    BY <1>1, UnseenStep DEF vars, SeenJob, MayBegin
  <1>2. ASSUME NEW w \in Workers,
               StartWorker(w) \/ StopWorker(w) \/ RunOnce(w) \/ WorkStep(w) \/ ProcessingError(w)
        PROVE  SeenStep(r)
    BY <1>2, RunOnceSeen, WorkerStepsSeen
  <1> QED
    BY <1>1, <1>2, RowStepsSeen DEF Next

\* Before anything happened no run was started and no job claimed.
LEMMA FirstSeen ==
    ASSUME Init, NEW r \in Runs
    PROVE  View(r)!Init
  BY DEF Init, NoJob, Resting, SeenStatus, SeenJob, MayBegin, View!Init

\* For any number of workers, each run behaves towards its files as RunView
\* allows.
THEOREM RunViewImplemented == Spec => ImplementsRunView
  <1>1. Init => \A r \in Runs : View(r)!Init
    BY FirstSeen
  <1>2. TypeInv /\ [Next]_vars
            => [\A r \in Runs : [View(r)!Next]_(View(r)!viewVars)]_vars
    BY EveryStepSeen DEF SeenStep
  <1>3. Spec => []TypeInv
    BY TypeInit, TypeStep, PTL DEF Spec
  <1> QED
    BY <1>1, <1>2, <1>3, PTL DEF Spec, ImplementsRunView

\* The same as a behaviour of the abstract specification, for one run.
THEOREM EachRunImplementsView ==
    ASSUME NEW r \in Runs
    PROVE  Spec => View(r)!Spec
  <1>1. Init => View(r)!Init
    BY FirstSeen
  <1>2. TypeInv /\ [Next]_vars => [View(r)!Next]_(View(r)!viewVars)
    BY EveryStepSeen DEF SeenStep
  <1>3. Spec => []TypeInv
    BY TypeInit, TypeStep, PTL DEF Spec
  <1> QED
    BY <1>1, <1>2, <1>3, PTL DEF Spec, View!Spec
=============================================================================
