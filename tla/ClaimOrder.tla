----------------------------- MODULE ClaimOrder -----------------------------
(***************************************************************************)
(* Which queued job a worker claims: claim_next orders the jobs that are   *)
(* due by their effective priority, which grows with the time they have    *)
(* been waiting, and then by the time since which they have been due.      *)
(*                                                                         *)
(* Time advances in ticks.  A job is in the queue from the moment it is    *)
(* due (scheduled_at, or retry_at after a failed attempt), so the order in *)
(* which jobs enter the queue is the order of eligible_since, with ties    *)
(* broken by created_at and id.  Until it is due, a QUEUED job is delayed. *)
(***************************************************************************)
EXTENDS Naturals, FiniteSets

CONSTANTS
    Jobs,           \* job rows, reused once a job has left the pipeline
    WorkerCount,    \* how many jobs can be running at a time
    Aging           \* priority_aging_seconds, in ticks

ASSUME AgingAssumption == Aging \in Nat \ {0}
ASSUME WorkerAssumption == WorkerCount \in Nat \ {0}

VARIABLES
    phase,      \* phase[j]: the part of the job's status the queue looks at
    priority,   \* priority[j]: the persisted priority
    age,        \* age[j]: ticks since eligible_since, up to MaxAge
    ahead       \* ahead[j]: the waiting jobs that were due before j

vars == <<phase, priority, age, ahead>>

Phases == {"absent", "delayed", "waiting", "running"}
Priorities == {"LOW", "NORMAL", "HIGH"}
\* Bound: no comparison of the code tells greater ages apart.
MaxAge == 2 * Aging

Waiting == {j \in Jobs : phase[j] = "waiting"}
Running == {j \in Jobs : phase[j] = "running"}

Init ==
    /\ phase = [j \in Jobs |-> "absent"]
    /\ priority = [j \in Jobs |-> "NORMAL"]
    /\ age = [j \in Jobs |-> 0]
    /\ ahead = [j \in Jobs |-> {}]

-----------------------------------------------------------------------------
\* Mutant: a waiting job gains one level at most.
EffectivePriorityOneLevel(p, waited) ==
    CASE p = "HIGH" -> 2
      [] p = "NORMAL" -> IF waited >= Aging THEN 2 ELSE 1
      [] p = "LOW" -> IF waited >= Aging THEN 1 ELSE 0

\* Mutant: the comparison with the aging period is the wrong way round.
EffectivePriorityYoungFirst(p, waited) ==
    CASE p = "HIGH" -> 2
      [] p = "NORMAL" -> IF waited < Aging THEN 2 ELSE 1
      [] p = "LOW" -> IF waited < 2 * Aging THEN 1 ELSE 2

EffectivePriority(p, waited) ==
    CASE p = "HIGH" -> 2
      [] p = "NORMAL" -> IF waited >= Aging THEN 2 ELSE 1
      [] p = "LOW" -> IF waited >= 2 * Aging THEN 2 ELSE IF waited >= Aging THEN 1 ELSE 0

Level(j) == EffectivePriority(priority[j], age[j])

\* ORDER BY effective_priority DESC, eligible_since, created_at, id.
Precedes(i, j) == Level(i) > Level(j) \/ (Level(i) = Level(j) /\ i \in ahead[j])

\* The job leaves the queue.
Leave(j, next) ==
    /\ phase' = [phase EXCEPT ![j] = next]
    /\ age' = [age EXCEPT ![j] = 0]
    /\ ahead' = [i \in Jobs |-> IF i = j THEN {} ELSE ahead[i] \ {j}]

\* The job is due now, after every job that is waiting already.
Enter(j) ==
    /\ phase' = [phase EXCEPT ![j] = "waiting"]
    /\ age' = [age EXCEPT ![j] = 0]
    /\ ahead' = [ahead EXCEPT ![j] = Waiting]

\* The job is QUEUED, due at some later time.
Delay(j) ==
    /\ phase' = [phase EXCEPT ![j] = "delayed"]
    /\ UNCHANGED <<age, ahead>>

\* execute_run creates a job, due at once or at the time it was asked for.
Submit(j) ==
    /\ phase[j] = "absent"
    /\ \E p \in Priorities : priority' = [priority EXCEPT ![j] = p]
    /\ Enter(j) \/ Delay(j)

BecomeDue(j) ==
    /\ phase[j] = "delayed"
    /\ Enter(j)
    /\ UNCHANGED priority

Cancel(j) ==
    /\ phase[j] \in {"delayed", "waiting"}
    /\ Leave(j, "absent")
    /\ UNCHANGED priority

Claim(j) ==
    /\ phase[j] = "waiting"
    /\ Cardinality(Running) < WorkerCount
    /\ \A i \in Waiting \ {j} : Precedes(j, i)
    /\ Leave(j, "running")
    /\ UNCHANGED priority

\* The attempt ends and the job with it; a later manual retry of the job is a
\* Submit.
Finish(j) ==
    /\ phase[j] = "running"
    /\ phase' = [phase EXCEPT ![j] = "absent"]
    /\ UNCHANGED <<priority, age, ahead>>

\* A failed attempt is retried after a delay, a recovered lease at once.  The
\* job keeps its priority, and waits from its new retry_at.
Requeue(j) ==
    /\ phase[j] = "running"
    /\ Enter(j) \/ Delay(j)
    /\ UNCHANGED priority

Tick ==
    /\ age' = [j \in Jobs |->
          IF phase[j] = "waiting" /\ age[j] < MaxAge THEN age[j] + 1 ELSE age[j]]
    /\ UNCHANGED <<phase, priority, ahead>>

Next ==
    \/ Tick
    \/ \E j \in Jobs :
          \/ Submit(j) \/ BecomeDue(j) \/ Cancel(j)
          \/ Claim(j) \/ Finish(j) \/ Requeue(j)

Spec == Init /\ [][Next]_vars

\* Time passes, a worker that is free polls the queue, and every attempt ends.
\* Jobs keep arriving as they like.
Fairness ==
    /\ WF_vars(Tick)
    /\ WF_vars(\E j \in Jobs : Claim(j))
    /\ \A j \in Jobs : WF_vars(Finish(j) \/ Requeue(j))

FairSpec == Spec /\ Fairness

-----------------------------------------------------------------------------
(* Properties.                                                             *)

\* Every variable keeps its type.
TypeOK ==
    /\ phase \in [Jobs -> Phases]
    /\ priority \in [Jobs -> Priorities]
    /\ age \in [Jobs -> 0 .. MaxAge]
    /\ ahead \in [Jobs -> SUBSET Jobs]

Claimed(j) == phase[j] = "waiting" /\ phase'[j] = "running"

\* "FIFO order within a priority": no job is claimed before one of the same
\* priority that has been due for longer, although their ages may put them on
\* different levels.
FifoWithinPriority ==
    [][\A j \in Jobs : Claimed(j) =>
          \A i \in ahead[j] : priority[i] # priority[j]]_vars

\* A job that has waited two aging periods is not overtaken by any job that
\* came later, of whatever priority.
AgedJobsAreNotOvertaken ==
    [][\A j \in Jobs : Claimed(j) => \A i \in ahead[j] : age[i] < 2 * Aging]_vars

\* "Routine work cannot starve": every waiting job is claimed or cancelled,
\* however many jobs of a higher priority keep arriving.
NoJobStarves == \A j \in Jobs : phase[j] = "waiting" ~> phase[j] # "waiting"
=============================================================================
