-------------------------- MODULE ClaimOrderProofs --------------------------
(***************************************************************************)
(* The order in which workers claim jobs, for any number of jobs and       *)
(* workers and any aging period: equal priorities are claimed first in,    *)
(* first out, and a job that has waited two aging periods is not overtaken.*)
(*                                                                         *)
(* Both follow from an invariant of the queue: ahead is antisymmetric on   *)
(* the waiting jobs, and who was due earlier is at least as old.           *)
(***************************************************************************)
EXTENDS ClaimOrder, TLAPS

\* Only waiting jobs have a place in the queue, and two of them cannot each be
\* before the other.
QueueOrdered ==
    \A i, j \in Jobs : i \in ahead[j] =>
        /\ phase[i] = "waiting" /\ phase[j] = "waiting"
        /\ j \notin ahead[i]

\* Ages grow together, so a job that was due earlier is never the younger one.
AgesOrdered == \A i, j \in Jobs : i \in ahead[j] => age[i] >= age[j]

QueueInv == TypeOK /\ QueueOrdered /\ AgesOrdered

-----------------------------------------------------------------------------
(* The effective priority.                                                 *)

\* It is one of three levels.
LEMMA LevelRange ==
    ASSUME NEW p \in Priorities, NEW a \in Nat
    PROVE  EffectivePriority(p, a) \in 0 .. 2
  BY AgingAssumption DEF EffectivePriority, Priorities

\* After two aging periods every priority has reached the highest one.
LEMMA AgedIsHighest ==
    ASSUME NEW p \in Priorities, NEW a \in Nat, a >= 2 * Aging
    PROVE  EffectivePriority(p, a) = 2
  BY AgingAssumption DEF EffectivePriority, Priorities

\* Of two jobs of one priority the older one is on no lower level.
LEMMA LevelGrowsWithAge ==
    ASSUME NEW p \in Priorities, NEW a \in Nat, NEW b \in Nat, a >= b
    PROVE  EffectivePriority(p, a) >= EffectivePriority(p, b)
  BY AgingAssumption DEF EffectivePriority, Priorities

-----------------------------------------------------------------------------
(* The invariant.                                                          *)

LEMMA MaxAgeIsNat == MaxAge \in Nat
  BY AgingAssumption DEF MaxAge

\* A job that becomes due goes behind all the others.
LEMMA EnterKeepsInv ==
    ASSUME QueueInv, NEW j \in Jobs, phase[j] # "waiting", Enter(j),
           priority' \in [Jobs -> Priorities]
    PROVE  QueueInv'
  <1>1. TypeOK'
    <2>1. phase' \in [Jobs -> Phases]
      BY DEF QueueInv, TypeOK, Enter, Phases
    <2>2. age' \in [Jobs -> 0 .. MaxAge]
      BY MaxAgeIsNat DEF QueueInv, TypeOK, Enter
    <2>3. ahead' \in [Jobs -> SUBSET Jobs]
      BY DEF QueueInv, TypeOK, Enter, Waiting
    <2>4. QED BY <2>1, <2>2, <2>3 DEF TypeOK
  <1>2. QueueOrdered'
    BY DEF QueueInv, TypeOK, QueueOrdered, Enter, Waiting
  <1>3. AgesOrdered'
    BY MaxAgeIsNat DEF QueueInv, TypeOK, QueueOrdered, AgesOrdered, Enter, Waiting
  <1>4. QED BY <1>1, <1>2, <1>3 DEF QueueInv

\* A job that is to become due later has no place in the queue yet.
LEMMA DelayKeepsInv ==
    ASSUME QueueInv, NEW j \in Jobs, phase[j] # "waiting", Delay(j),
           priority' \in [Jobs -> Priorities]
    PROVE  QueueInv'
  <1>1. TypeOK'
    BY DEF QueueInv, TypeOK, Delay, Phases
  <1>2. QueueOrdered' /\ AgesOrdered'
    BY DEF QueueInv, TypeOK, QueueOrdered, AgesOrdered, Delay
  <1>3. QED BY <1>1, <1>2 DEF QueueInv

\* A job that leaves is before and behind no other.
LEMMA LeaveKeepsInv ==
    ASSUME QueueInv, NEW j \in Jobs, NEW next \in Phases, Leave(j, next),
           UNCHANGED priority
    PROVE  QueueInv'
  <1>1. TypeOK'
    BY MaxAgeIsNat DEF QueueInv, TypeOK, Leave
  <1>2. QueueOrdered'
    BY DEF QueueInv, TypeOK, QueueOrdered, Leave
  <1>3. AgesOrdered'
    BY MaxAgeIsNat DEF QueueInv, TypeOK, QueueOrdered, AgesOrdered, Leave
  <1>4. QED BY <1>1, <1>2, <1>3 DEF QueueInv

\* Time makes every waiting job older, up to the bound.
LEMMA TickKeepsInv ==
    ASSUME QueueInv, Tick
    PROVE  QueueInv'
  <1>1. TypeOK'
    BY MaxAgeIsNat DEF QueueInv, TypeOK, Tick
  <1>2. QueueOrdered'
    BY DEF QueueInv, QueueOrdered, Tick
  <1>3. AgesOrdered'
    BY MaxAgeIsNat DEF QueueInv, TypeOK, QueueOrdered, AgesOrdered, Tick
  <1>4. QED BY <1>1, <1>2, <1>3 DEF QueueInv

LEMMA InitQueueInv == Init => QueueInv
  BY MaxAgeIsNat
     DEF Init, QueueInv, TypeOK, QueueOrdered, AgesOrdered, Phases, Priorities

LEMMA NextQueueInv == QueueInv /\ [Next]_vars => QueueInv'
  <1> SUFFICES ASSUME QueueInv, [Next]_vars PROVE QueueInv'
    OBVIOUS
  <1>1. CASE Tick
    BY <1>1, TickKeepsInv
  <1>2. ASSUME NEW j \in Jobs, Submit(j) PROVE QueueInv'
    <2>1. priority' \in [Jobs -> Priorities] /\ phase[j] # "waiting"
      BY <1>2 DEF Submit, QueueInv, TypeOK
    <2>2. QED BY <1>2, <2>1, EnterKeepsInv, DelayKeepsInv DEF Submit
  <1>3. ASSUME NEW j \in Jobs, BecomeDue(j) PROVE QueueInv'
    BY <1>3, EnterKeepsInv DEF BecomeDue, QueueInv, TypeOK
  <1>4. ASSUME NEW j \in Jobs, Cancel(j) PROVE QueueInv'
    BY <1>4, LeaveKeepsInv DEF Cancel, Phases
  <1>5. ASSUME NEW j \in Jobs, Claim(j) PROVE QueueInv'
    BY <1>5, LeaveKeepsInv DEF Claim, Phases
  <1>6. ASSUME NEW j \in Jobs, Finish(j) PROVE QueueInv'
    BY <1>6 DEF Finish, QueueInv, TypeOK, QueueOrdered, AgesOrdered, Phases
  <1>7. ASSUME NEW j \in Jobs, Requeue(j) PROVE QueueInv'
    BY <1>7, EnterKeepsInv, DelayKeepsInv DEF Requeue, QueueInv, TypeOK
  <1>8. CASE UNCHANGED vars
    BY <1>8 DEF vars, QueueInv, TypeOK, QueueOrdered, AgesOrdered
  <1>9. QED BY <1>1, <1>2, <1>3, <1>4, <1>5, <1>6, <1>7, <1>8 DEF Next

\* The queue is ordered in every reachable state.
THEOREM QueueInvariant == Spec => []QueueInv
  BY InitQueueInv, NextQueueInv, PTL DEF Spec

\* The type invariant of the queue.
THEOREM QueueTypeCorrect == Spec => []TypeOK
  <1>1. QueueInv => TypeOK
    BY DEF QueueInv
  <1>2. QED BY <1>1, QueueInvariant, PTL

-----------------------------------------------------------------------------
(* What a claim may pass over.                                             *)

\* A job is only claimed before one that was due earlier if it is on a
\* strictly higher level.
LEMMA OvertakingNeedsLevel ==
    ASSUME QueueInv, [Next]_vars, NEW j \in Jobs, Claimed(j), NEW i \in ahead[j]
    PROVE  i \in Jobs /\ Level(j) > Level(i)
  <1>1. Claim(j)
    <2>1. phase[j] = "waiting" /\ phase'[j] = "running"
      BY DEF Claimed
    <2>2. PICK k \in Jobs :
              Submit(k) \/ BecomeDue(k) \/ Cancel(k) \/ Claim(k) \/ Finish(k) \/ Requeue(k)
      BY <2>1 DEF Next, vars, Tick
    <2>3. ~(Submit(k) \/ BecomeDue(k) \/ Cancel(k) \/ Finish(k) \/ Requeue(k))
      BY <2>1 DEF QueueInv, TypeOK, Submit, BecomeDue, Cancel, Finish, Requeue,
                  Enter, Delay, Leave
    <2>4. k = j
      BY <2>1, <2>2, <2>3 DEF Claim, Leave, QueueInv, TypeOK
    <2>5. QED BY <2>2, <2>3, <2>4
  <1>2. i \in Jobs /\ i \in Waiting \ {j} /\ j \notin ahead[i]
    BY DEF QueueInv, TypeOK, QueueOrdered, Waiting
  <1>3. QED BY <1>1, <1>2 DEF Claim, Precedes

LEMMA StepIsFifo ==
    ASSUME QueueInv, [Next]_vars, NEW j \in Jobs, Claimed(j), NEW i \in ahead[j]
    PROVE  priority[i] # priority[j]
  <1>1. i \in Jobs /\ Level(j) > Level(i) /\ age[i] >= age[j]
    BY OvertakingNeedsLevel DEF QueueInv, TypeOK, AgesOrdered
  <1>2. priority[i] \in Priorities /\ priority[j] \in Priorities
        /\ age[i] \in Nat /\ age[j] \in Nat
    BY <1>1, MaxAgeIsNat DEF QueueInv, TypeOK
  <1>3. ASSUME priority[i] = priority[j] PROVE Level(i) >= Level(j)
    BY <1>1, <1>2, <1>3, LevelGrowsWithAge DEF Level
  <1>4. Level(i) \in 0 .. 2 /\ Level(j) \in 0 .. 2
    BY <1>2, LevelRange DEF Level
  <1>5. QED BY <1>1, <1>3, <1>4

LEMMA StepSparesAged ==
    ASSUME QueueInv, [Next]_vars, NEW j \in Jobs, Claimed(j), NEW i \in ahead[j]
    PROVE  age[i] < 2 * Aging
  <1>1. i \in Jobs /\ Level(j) > Level(i)
    BY OvertakingNeedsLevel
  <1>2. priority[i] \in Priorities /\ priority[j] \in Priorities
        /\ age[i] \in Nat /\ age[j] \in Nat
    BY <1>1, MaxAgeIsNat DEF QueueInv, TypeOK
  <1>3. ASSUME age[i] >= 2 * Aging PROVE Level(i) = 2
    BY <1>2, <1>3, AgedIsHighest DEF Level
  <1>4. Level(i) \in 0 .. 2 /\ Level(j) \in 0 .. 2
    BY <1>2, LevelRange DEF Level
  <1>5. QED BY <1>1, <1>2, <1>3, <1>4, AgingAssumption

\* claim_next keeps the order of arrival within a priority, although aging puts
\* jobs of one priority on different levels.
THEOREM ClaimsAreFifo == Spec => FifoWithinPriority
  <1>1. QueueInv /\ [Next]_vars =>
            [\A j \in Jobs : Claimed(j) => \A i \in ahead[j] : priority[i] # priority[j]]_vars
    BY StepIsFifo
  <1>2. QED BY <1>1, QueueInvariant, PTL DEF Spec, FifoWithinPriority

\* claim_next passes over no job that has waited for two aging periods in
\* favour of one that was due later, whatever their priorities.
THEOREM AgedJobsGoFirst == Spec => AgedJobsAreNotOvertaken
  <1>1. QueueInv /\ [Next]_vars =>
            [\A j \in Jobs : Claimed(j) => \A i \in ahead[j] : age[i] < 2 * Aging]_vars
    BY StepSparesAged
  <1>2. QED BY <1>1, QueueInvariant, PTL DEF Spec, AgedJobsAreNotOvertaken
=============================================================================
