--------------------------- MODULE FileStoreProofs --------------------------
(***************************************************************************)
(* What the row lock of a run protects, for any number of runs, storage    *)
(* keys and concurrent requests, whatever the maintenance commands do: the *)
(* files of a run change only while it is PENDING, and no file of a run    *)
(* with an active job is removed.                                          *)
(*                                                                         *)
(* A request checks the run at one step and changes its row at a later     *)
(* one.  The invariant says that what it checked stays true in between,    *)
(* because whatever would change it needs the lock.                        *)
(*                                                                         *)
(* The sweeps hold no lock.  What they have listed stays old because only  *)
(* a fresh key or an open URL is written to, and an object does not grow   *)
(* old while its URL is open.                                              *)
(*                                                                         *)
(* The last section shows that nothing JobPipeline may do to a run is left *)
(* out here, through the specification both implement (RunView).           *)
(***************************************************************************)
EXTENDS FileStore, FiniteSetTheorems, TLAPS

Holding == {"verifying", "adding", "removing"}

\* Two requests never hold the lock of one run.
LocksExclusive ==
    \A p, q \in Requests :
        request[p].at \in Holding /\ request[q].at \in Holding
        /\ request[p].run = request[q].run => p = q

\* While a request holds the lock of its run, the run is PENDING.
LockedRunsPending ==
    \A q \in Requests : request[q].at \in Holding =>
        /\ request[q].run \in Runs /\ request[q].key \in Keys
        /\ status[request[q].run] = "PENDING"

\* A request that has looked a file up knows its run and its key.
FoundFile ==
    \A q \in Requests : request[q].at = "found" =>
        request[q].run \in Runs /\ request[q].key \in Keys

\* While a request removes the file of a run, the run's job is not active.
RemovalsUnclaimed ==
    \A q \in Requests : request[q].at = "removing" => job[request[q].run] # "active"

LockInv ==
    TypeOK /\ LocksExclusive /\ LockedRunsPending /\ FoundFile /\ RemovalsUnclaimed

-----------------------------------------------------------------------------
(* The records of requests and sweeps.                                     *)

LEMMA ZeroIsNat == 0 \in Nat /\ {} \in SUBSET Keys
  OBVIOUS

LEMMA IdleStates == IdleRequest \in RequestStates /\ IdleSweep \in SweepStates
  BY Zenon, ZeroIsNat
     DEF IdleRequest, IdleSweep, RequestStates, SweepStates

\* A request may move on, or lose sight of its row, and remain a request.
LEMMA RequestUpdates ==
    ASSUME NEW x \in RequestStates
    PROVE  /\ \A a \in {"idle", "verifying", "adding", "discarding", "found", "removing"} :
                  [x EXCEPT !.at = a] \in RequestStates
           /\ [x EXCEPT !.row = FALSE] \in RequestStates
  BY DEF RequestStates

-----------------------------------------------------------------------------
(* What each group of actions leaves alone.                                *)

LEMMA RunStepFrame ==
    ASSUME NEW r \in Runs, RunStep(r)
    PROVE  UNCHANGED <<record, object, key, used, request, sweep>>
  BY DEF RunStep, ExecuteRun, ClaimJob, BeginRun, LoseClaim, FailRun, EndJob, RetryJob,
         ExpireJob, storeVars

LEMMA UploadFrame ==
    ASSUME NEW r \in Runs, Upload(r) \/ UploadInterrupted(r)
    PROVE  UNCHANGED <<status, job, claimed, request, sweep>>
  BY DEF Upload, UploadInterrupted, Save, runVars

LEMMA KeyStepFrame ==
    ASSUME NEW k \in Keys, KeyStep(k)
    PROVE  UNCHANGED <<status, job, claimed, record, used, request, sweep>>
  BY DEF KeyStep, Put, UrlExpires, Age, Presign, runVars

LEMMA RequestStepFrame ==
    ASSUME NEW q \in Requests, RequestStep(q)
    PROVE  UNCHANGED <<status, job, claimed, key, sweep>>
  BY DEF RequestStep, FindFile, StartFinalize, FinalizeAccepts, FinalizeRejects,
         FinalizeDiscards, FinalizeAdds, DeleteObject, RemoveRow, RequestFails, runVars, storeVars

LEMMA SweepStepFrame ==
    ASSUME NEW m \in Sweeps, SweepStep(m)
    PROVE  UNCHANGED <<status, job, claimed, record, key, request>>
  BY DEF SweepStep, CleanupLists, CleanupReadsReferences, RepairReadsUsage,
         RepairReadsRows, RepairWritesUsage, RepairLists, SweepDeletes, SweepEnds,
         runVars, storeVars

-----------------------------------------------------------------------------
(* The type invariant.                                                     *)

\* Deleting an object, in whatever step, leaves a storage.
LEMMA ObjectUpdates ==
    ASSUME TypeOK, NEW k, NEW v \in {"absent", "young", "aged"}
    PROVE  [object EXCEPT ![k] = v] \in [Keys -> {"absent", "young", "aged"}]
  BY DEF TypeOK

LEMMA RunStepType ==
    ASSUME TypeOK, NEW r \in Runs, RunStep(r)
    PROVE  TypeOK'
  <1>1. /\ status' \in [Runs -> {"PENDING", "RUNNING", "FAILED"}]
        /\ job' \in [Runs -> {"none", "active", "ended", "failed"}]
        /\ claimed' \in [Runs -> BOOLEAN]
    BY DEF TypeOK, RunStep, ExecuteRun, ClaimJob, BeginRun, LoseClaim, FailRun, EndJob,
           RetryJob, ExpireJob
  <1>2. QED BY <1>1, RunStepFrame DEF TypeOK

LEMMA UploadType ==
    ASSUME TypeOK, NEW r \in Runs, Upload(r) \/ UploadInterrupted(r)
    PROVE  TypeOK'
  <1>1. /\ object' \in [Keys -> {"absent", "young", "aged"}]
        /\ key' \in [Keys -> {"fresh", "internal", "presigned", "expired"}]
    BY ObjectUpdates DEF TypeOK, Upload, UploadInterrupted, Save
  <1>2. record' \in [Runs -> Keys \cup {NoKey}] /\ used' \in Nat
    BY DEF TypeOK, Upload, UploadInterrupted, Save
  <1>3. QED BY <1>1, <1>2, UploadFrame DEF TypeOK

LEMMA KeyStepType ==
    ASSUME TypeOK, NEW k \in Keys, KeyStep(k)
    PROVE  TypeOK'
  <1>1. /\ object' \in [Keys -> {"absent", "young", "aged"}]
        /\ key' \in [Keys -> {"fresh", "internal", "presigned", "expired"}]
    BY ObjectUpdates DEF TypeOK, KeyStep, Put, UrlExpires, Age, Presign, storeVars
  <1>2. QED BY <1>1, KeyStepFrame DEF TypeOK

LEMMA RequestStepType ==
    ASSUME TypeOK, NEW q \in Requests, RequestStep(q)
    PROVE  TypeOK'
  <1>1. object' \in [Keys -> {"absent", "young", "aged"}]
    BY ObjectUpdates
       DEF TypeOK, RequestStep, FindFile, StartFinalize, FinalizeAccepts, FinalizeRejects,
           FinalizeDiscards, FinalizeAdds, DeleteObject, RemoveRow, RequestFails, storeVars
  <1>2. request[q] \in RequestStates /\ request[q].key \in Keys \cup {NoKey}
    BY DEF TypeOK, RequestStates
  <1>3. record' \in [Runs -> Keys \cup {NoKey}]
    BY <1>2
       DEF TypeOK, RequestStep, FindFile, StartFinalize, FinalizeAccepts, FinalizeRejects,
           FinalizeDiscards, FinalizeAdds, DeleteObject, RemoveRow, RequestFails
  <1>4. used' \in Nat
    BY DEF TypeOK, RequestStep, FindFile, StartFinalize, FinalizeAccepts, FinalizeRejects,
           FinalizeDiscards, FinalizeAdds, DeleteObject, RemoveRow, RequestFails
  <1>5. request' \in [Requests -> RequestStates]
    <2>1. ASSUME NEW r \in Runs, FindFile(q, r)
          PROVE  request' \in [Requests -> RequestStates]
      <3>1. [at |-> "found", run |-> r, key |-> record[r], row |-> TRUE] \in RequestStates
        BY DEF TypeOK, RequestStates
      <3>2. QED BY <2>1, <3>1 DEF TypeOK, FindFile
    <2>2. ASSUME NEW r \in Runs, NEW k \in Keys, StartFinalize(q, r, k)
          PROVE  request' \in [Requests -> RequestStates]
      <3>1. [at |-> "verifying", run |-> r, key |-> k, row |-> FALSE] \in RequestStates
        BY DEF RequestStates
      <3>2. QED BY <2>2, <3>1 DEF TypeOK, StartFinalize
    <2>3. CASE FinalizeAccepts(q) \/ FinalizeRejects(q)
      BY <1>2, <2>3, RequestUpdates DEF TypeOK, FinalizeAccepts, FinalizeRejects
    <2>4. CASE FinalizeDiscards(q) \/ FinalizeAdds(q) \/ RequestFails(q)
      BY <2>4, IdleStates DEF TypeOK, FinalizeDiscards, FinalizeAdds, RequestFails
    <2>5. CASE DeleteObject(q)
      BY <1>2, <2>5, IdleStates, RequestUpdates DEF TypeOK, DeleteObject
    <2>6. CASE RemoveRow(q)
      <3>1. \A p \in Requests : [request[p] EXCEPT !.row = FALSE] \in RequestStates
        BY RequestUpdates DEF TypeOK
      <3>2. QED BY <2>6, <3>1, IdleStates DEF TypeOK, RemoveRow
    <2>7. QED BY <2>1, <2>2, <2>3, <2>4, <2>5, <2>6 DEF RequestStep
  <1>6. QED BY <1>1, <1>3, <1>4, <1>5, RequestStepFrame DEF TypeOK

\* The sum of the sizes of the rows is a number.
LEMMA StoredIsCounted == Cardinality(Stored) \in Nat
  BY RunsAssumption, FS_Subset, FS_CardinalityType DEF Stored

LEMMA SweepStepType ==
    ASSUME TypeOK, NEW m \in Sweeps, SweepStep(m)
    PROVE  TypeOK'
  <1>1. /\ sweep[m] \in SweepStates
        /\ sweep[m].keys \in SUBSET Keys
        /\ sweep[m].seen \in Nat /\ sweep[m].expected \in Nat
    BY DEF TypeOK, SweepStates
  <1>2. object' \in [Keys -> {"absent", "young", "aged"}] /\ used' \in Nat
    BY <1>1, ObjectUpdates
       DEF TypeOK, SweepStep, CleanupLists, CleanupReadsReferences, RepairReadsUsage,
           RepairReadsRows, RepairWritesUsage, RepairLists, SweepDeletes, SweepEnds,
           storeVars
  <1>3. sweep' \in [Sweeps -> SweepStates]
    <2>1. CASE CleanupLists(m)
      <3>1. PICK page \in Pages :
                sweep' = [sweep EXCEPT ![m].at = "listed", ![m].keys = page \cap Aged]
        BY <2>1 DEF CleanupLists
      <3>2. page \cap Aged \in SUBSET Keys
        BY DEF Aged
      <3>3. [sweep[m] EXCEPT !.at = "listed", !.keys = page \cap Aged] \in SweepStates
        BY <1>1, <3>2 DEF SweepStates
      <3>4. QED BY <3>1, <3>3 DEF TypeOK
    <2>2. CASE CleanupReadsReferences(m)
      <3>1. [sweep[m] EXCEPT !.at = "deleting", !.keys = @ \ Recorded] \in SweepStates
        BY <1>1 DEF SweepStates
      <3>2. QED BY <2>2, <3>1 DEF TypeOK, CleanupReadsReferences
    <2>3. CASE RepairReadsUsage(m)
      <3>1. [sweep[m] EXCEPT !.at = "counting", !.keys = Aged, !.seen = used] \in SweepStates
        BY <1>1 DEF SweepStates, TypeOK, Aged
      <3>2. QED BY <2>3, <3>1 DEF TypeOK, RepairReadsUsage
    <2>4. CASE RepairReadsRows(m)
      <3>1. [sweep[m] EXCEPT !.at = "repairing", !.keys = @ \ Recorded,
                             !.expected = Cardinality(Stored)] \in SweepStates
        BY <1>1, StoredIsCounted DEF SweepStates
      <3>2. QED BY <2>4, <3>1 DEF TypeOK, RepairReadsRows
    <2>5. CASE RepairWritesUsage(m)
      <3>1. [sweep[m] EXCEPT !.at = "listing", !.seen = 0, !.expected = 0] \in SweepStates
        BY <1>1 DEF SweepStates
      <3>2. QED BY <2>5, <3>1 DEF TypeOK, RepairWritesUsage
    <2>6. CASE RepairLists(m)
      <3>1. PICK page \in Pages :
                sweep' = [sweep EXCEPT ![m].at = "deleting", ![m].keys = @ \cap page]
        BY <2>6 DEF RepairLists
      <3>2. [sweep[m] EXCEPT !.at = "deleting", !.keys = @ \cap page] \in SweepStates
        BY <1>1 DEF SweepStates
      <3>3. QED BY <3>1, <3>2 DEF TypeOK
    <2>7. ASSUME NEW k \in Keys, SweepDeletes(m, k) PROVE sweep' \in [Sweeps -> SweepStates]
      <3>1. [sweep[m] EXCEPT !.keys = @ \ {k}] \in SweepStates
        BY <1>1 DEF SweepStates
      <3>2. QED BY <2>7, <3>1 DEF TypeOK, SweepDeletes
    <2>8. CASE SweepEnds(m)
      BY <2>8, IdleStates DEF TypeOK, SweepEnds
    <2>9. QED BY <2>1, <2>2, <2>3, <2>4, <2>5, <2>6, <2>7, <2>8 DEF SweepStep
  <1>4. QED BY <1>2, <1>3, SweepStepFrame DEF TypeOK

LEMMA InitType == Init => TypeOK
  BY IdleStates DEF Init, TypeOK

LEMMA NextType == TypeOK /\ [Next]_vars => TypeOK'
  <1> SUFFICES ASSUME TypeOK, [Next]_vars PROVE TypeOK'
    OBVIOUS
  <1>1. CASE UNCHANGED vars
    BY <1>1 DEF vars, TypeOK
  <1>2. CASE Next
    BY <1>2, RunStepType, UploadType, KeyStepType, RequestStepType, SweepStepType DEF Next
  <1>3. QED BY <1>1, <1>2

\* The type invariant: in particular the usage counter is never negative.
THEOREM FileStoreTypeCorrect == Spec => []TypeOK
  BY InitType, NextType, PTL DEF Spec
-----------------------------------------------------------------------------
(* The lock invariant.                                                     *)

\* A step that moves no request, and keeps its hands off locked runs.
LEMMA OutsiderKeepsLocks ==
    ASSUME LockInv, TypeOK', UNCHANGED request,
           \A r \in Runs : Locked(r) =>
               status'[r] = status[r] /\ (job'[r] = "active" => job[r] = "active")
    PROVE  LockInv'
  <1>1. ASSUME NEW q \in Requests, request[q].at \in Holding
        PROVE  Locked(request[q].run) /\ request[q].run \in Runs
    BY <1>1 DEF Locked, Holding, LockInv, LockedRunsPending
  <1>2. LocksExclusive' /\ FoundFile'
    BY DEF LockInv, LocksExclusive, FoundFile
  <1>3. LockedRunsPending'
    BY <1>1 DEF LockInv, LockedRunsPending
  <1>4. RemovalsUnclaimed'
    BY <1>1 DEF LockInv, RemovalsUnclaimed, Holding
  <1>5. QED BY <1>2, <1>3, <1>4 DEF LockInv

\* A request ends, gives its lock back, or loses sight of its row.
LEMMA ReleaseKeepsLocks ==
    ASSUME LockInv, TypeOK', UNCHANGED <<status, job>>,
           \A p \in Requests :
               request'[p].at \notin {"idle", "discarding"} =>
                   /\ request'[p].at = request[p].at
                   /\ request'[p].run = request[p].run
                   /\ request'[p].key = request[p].key
    PROVE  LockInv'
  <1>1. /\ {"idle", "discarding"} \cap Holding = {}
        /\ {"found", "removing"} \cap {"idle", "discarding"} = {}
    BY DEF Holding
  <1>2. LocksExclusive'
    BY <1>1 DEF LockInv, LocksExclusive
  <1>3. LockedRunsPending'
    BY <1>1 DEF LockInv, LockedRunsPending
  <1>4. FoundFile' /\ RemovalsUnclaimed'
    BY <1>1 DEF LockInv, FoundFile, RemovalsUnclaimed
  <1>5. QED BY <1>2, <1>3, <1>4 DEF LockInv

\* A request takes the lock of a run, or keeps the one it has: it has checked
\* the run, and nobody else holds its lock.
LEMMA AcquireKeepsLocks ==
    ASSUME LockInv, TypeOK', UNCHANGED <<status, job>>,
           NEW q \in Requests, NEW x \in RequestStates,
           request' = [request EXCEPT ![q] = x],
           x.run \in Runs, x.key \in Keys,
           x.at \in Holding => status[x.run] = "PENDING",
           x.at = "removing" => job[x.run] # "active",
           x.at \in Holding => \A p \in Requests \ {q} :
               ~(request[p].at \in Holding /\ request[p].run = x.run)
    PROVE  LockInv'
  <1>1. \A p \in Requests : request'[p] = IF p = q THEN x ELSE request[p]
    BY DEF LockInv, TypeOK
  <1>2. LocksExclusive'
    BY <1>1 DEF LockInv, LocksExclusive
  <1>3. LockedRunsPending'
    BY <1>1 DEF LockInv, LockedRunsPending
  <1>4. FoundFile' /\ RemovalsUnclaimed'
    BY <1>1 DEF LockInv, FoundFile, RemovalsUnclaimed
  <1>5. QED BY <1>2, <1>3, <1>4 DEF LockInv

LEMMA RunStepKeepsLocks ==
    ASSUME LockInv, NEW r \in Runs, RunStep(r)
    PROVE  LockInv'
  <1>1. TypeOK' /\ UNCHANGED request
    BY RunStepType, RunStepFrame DEF LockInv
  <1>2. ASSUME NEW s \in Runs, Locked(s)
        PROVE  status'[s] = status[s] /\ (job'[s] = "active" => job[s] = "active")
    BY <1>2 DEF LockInv, TypeOK, RunStep, ExecuteRun, ClaimJob, BeginRun, LoseClaim, FailRun,
                EndJob, RetryJob, ExpireJob
  <1>3. QED BY <1>1, <1>2, OutsiderKeepsLocks

LEMMA StoreStepKeepsLocks ==
    ASSUME LockInv, TypeOK', UNCHANGED <<status, job, request>>
    PROVE  LockInv'
  BY OutsiderKeepsLocks

LEMMA RequestStepKeepsLocks ==
    ASSUME LockInv, NEW q \in Requests, RequestStep(q)
    PROVE  LockInv'
  <1>1. TypeOK' /\ UNCHANGED <<status, job>>
    BY RequestStepType, RequestStepFrame DEF LockInv
  <1>2. request[q] \in RequestStates /\ request \in [Requests -> RequestStates]
    BY DEF LockInv, TypeOK
  <1>3. ASSUME NEW r \in Runs, FindFile(q, r) PROVE LockInv'
    <2> DEFINE x == [at |-> "found", run |-> r, key |-> record[r], row |-> TRUE]
    <2>1. record[r] \in Keys
      BY <1>3 DEF FindFile, LockInv, TypeOK
    <2>2. x \in RequestStates /\ x.run \in Runs /\ x.key \in Keys
          /\ x.at \notin Holding /\ x.at # "removing"
      BY <2>1 DEF RequestStates, Holding
    <2>3. request' = [request EXCEPT ![q] = x]
      BY <1>3 DEF FindFile
    <2> HIDE DEF x
    <2>4. QED BY <1>1, <2>2, <2>3, AcquireKeepsLocks
  <1>4. ASSUME NEW r \in Runs, NEW k \in Keys, StartFinalize(q, r, k) PROVE LockInv'
    <2> DEFINE x == [at |-> "verifying", run |-> r, key |-> k, row |-> FALSE]
    <2>1. x \in RequestStates /\ x.run = r /\ x.key \in Keys /\ x.at # "removing"
      BY DEF RequestStates
    <2>2. request' = [request EXCEPT ![q] = x] /\ status[r] = "PENDING" /\ ~Locked(r)
      BY <1>4 DEF StartFinalize
    <2>3. \A p \in Requests : ~(request[p].at \in Holding /\ request[p].run = r)
      BY <2>2 DEF Locked, Holding
    <2> HIDE DEF x
    <2>4. QED BY <1>1, <2>1, <2>2, <2>3, AcquireKeepsLocks
  <1>5. CASE FinalizeAccepts(q)
    <2> DEFINE x == [request[q] EXCEPT !.at = "adding"]
    <2>1. x \in RequestStates /\ x.run = request[q].run /\ x.key = request[q].key
          /\ x.at = "adding"
      BY <1>2 DEF RequestStates
    <2>2. request' = [request EXCEPT ![q] = x] /\ request[q].at = "verifying"
      BY <1>5 DEF FinalizeAccepts
    <2>3. request[q].at \in Holding
      BY <2>2 DEF Holding
    <2>4. /\ request[q].run \in Runs /\ request[q].key \in Keys
          /\ status[request[q].run] = "PENDING"
      BY <2>3 DEF LockInv, LockedRunsPending
    <2>5. \A p \in Requests \ {q} :
              ~(request[p].at \in Holding /\ request[p].run = request[q].run)
      BY <2>3 DEF LockInv, LocksExclusive
    <2> HIDE DEF x
    <2>6. QED BY <1>1, <2>1, <2>2, <2>4, <2>5, AcquireKeepsLocks
  <1>6. CASE FinalizeDiscards(q) \/ FinalizeAdds(q) \/ RequestFails(q)
    <2>1. request' = [request EXCEPT ![q] = IdleRequest]
      BY <1>6 DEF FinalizeDiscards, FinalizeAdds, RequestFails
    <2>2. QED BY <1>1, <1>2, <2>1, ReleaseKeepsLocks DEF IdleRequest
  <1>7. CASE DeleteObject(q)
    <2> DEFINE x == [request[q] EXCEPT !.at = "removing"]
    <2>1. CASE request' = [request EXCEPT ![q] = IdleRequest]
      BY <1>1, <1>2, <2>1, ReleaseKeepsLocks DEF IdleRequest
    <2>2. CASE Deletable(request[q].run) /\ request' = [request EXCEPT ![q] = x]
      <3>1. x \in RequestStates /\ x.run = request[q].run /\ x.key = request[q].key
            /\ x.at = "removing"
        BY <1>2 DEF RequestStates
      <3>2. request[q].run \in Runs /\ request[q].key \in Keys
        BY <1>7 DEF DeleteObject, LockInv, FoundFile
      <3>3. \A p \in Requests :
                ~(request[p].at \in Holding /\ request[p].run = request[q].run)
        BY <1>7 DEF DeleteObject, Locked, Holding
      <3> HIDE DEF x
      <3>4. QED BY <1>1, <2>2, <3>1, <3>2, <3>3, AcquireKeepsLocks DEF Deletable
    <2>3. QED BY <1>7, <2>1, <2>2 DEF DeleteObject
  <1>8. CASE RemoveRow(q)
    <2>1. \A p \in Requests :
              \/ request'[p] = IdleRequest
              \/ request'[p] = request[p]
              \/ request'[p] = [request[p] EXCEPT !.row = FALSE]
      BY <1>8 DEF RemoveRow
    <2>2. ASSUME NEW p \in Requests, request'[p].at \notin {"idle", "discarding"}
          PROVE  /\ request'[p].at = request[p].at
                 /\ request'[p].run = request[p].run
                 /\ request'[p].key = request[p].key
      <3>1. request'[p] # IdleRequest
        BY <2>2 DEF IdleRequest
      <3>2. request[p] \in RequestStates
        BY <1>2
      <3>3. LET y == [request[p] EXCEPT !.row = FALSE]
            IN  y.at = request[p].at /\ y.run = request[p].run /\ y.key = request[p].key
        BY <3>2 DEF RequestStates
      <3>4. QED BY <2>1, <3>1, <3>3
    <2>3. QED BY <1>1, <2>2, ReleaseKeepsLocks
  <1>9. CASE FinalizeRejects(q)
    <2>1. [request[q] EXCEPT !.at = "discarding"].at = "discarding"
      BY <1>2 DEF RequestStates
    <2>2. QED BY <1>1, <1>2, <1>9, <2>1, ReleaseKeepsLocks DEF FinalizeRejects
  <1>10. QED BY <1>3, <1>4, <1>5, <1>6, <1>7, <1>8, <1>9 DEF RequestStep

LEMMA InitLockInv == Init => LockInv
  BY InitType
     DEF Init, LockInv, LocksExclusive, LockedRunsPending, FoundFile, RemovalsUnclaimed,
         Holding, IdleRequest

LEMMA NextLockInv == LockInv /\ [Next]_vars => LockInv'
  <1> SUFFICES ASSUME LockInv, [Next]_vars PROVE LockInv'
    OBVIOUS
  <1>1. TypeOK'
    BY NextType DEF LockInv
  <1>2. CASE UNCHANGED vars
    BY <1>1, <1>2, StoreStepKeepsLocks DEF vars
  <1>3. ASSUME NEW r \in Runs, Upload(r) \/ UploadInterrupted(r) PROVE LockInv'
    BY <1>1, <1>3, UploadFrame, StoreStepKeepsLocks
  <1>4. ASSUME NEW k \in Keys, KeyStep(k) PROVE LockInv'
    BY <1>1, <1>4, KeyStepFrame, StoreStepKeepsLocks
  <1>5. ASSUME NEW m \in Sweeps, SweepStep(m) PROVE LockInv'
    BY <1>1, <1>5, SweepStepFrame, StoreStepKeepsLocks
  <1>6. QED
    BY <1>2, <1>3, <1>4, <1>5, RunStepKeepsLocks, RequestStepKeepsLocks DEF Next

\* What a request has checked under the lock of its run stays true until it
\* gives the lock back.
THEOREM LocksProtectRuns == Spec => []LockInv
  BY InitLockInv, NextLockInv, PTL DEF Spec

-----------------------------------------------------------------------------
(* The files of a run.                                                     *)

\* Only these steps change a row, and each of them has checked the run.
LEMMA RecordSteps ==
    ASSUME LockInv, [Next]_vars, NEW r \in Runs, record'[r] # record[r]
    PROVE  /\ status[r] = "PENDING"
           /\ record[r] # NoKey => job[r] # "active"
  <1>1. ASSUME NEW s \in Runs, Upload(s) \/ UploadInterrupted(s)
        PROVE  /\ status[r] = "PENDING"
               /\ record[r] # NoKey => job[r] # "active"
    BY <1>1 DEF Upload, UploadInterrupted, LockInv, TypeOK
  <1>2. ASSUME NEW q \in Requests, RequestStep(q)
        PROVE  /\ status[r] = "PENDING"
               /\ record[r] # NoKey => job[r] # "active"
    <2>1. FinalizeAdds(q) \/ RemoveRow(q)
      BY <1>2 DEF RequestStep, FindFile, StartFinalize, FinalizeAccepts, FinalizeRejects,
                  FinalizeDiscards, DeleteObject, RequestFails
    <2>2. r = request[q].run
      BY <2>1 DEF FinalizeAdds, RemoveRow, LockInv, TypeOK
    <2>3. request[q].at \in Holding
      BY <2>1 DEF FinalizeAdds, RemoveRow, Holding
    <2>4. status[r] = "PENDING"
      BY <2>2, <2>3 DEF LockInv, LockedRunsPending
    <2>5. CASE FinalizeAdds(q)
      <3>1. record[r] = NoKey
        BY <2>2, <2>5 DEF FinalizeAdds
      <3>2. QED BY <2>4, <3>1
    <2>6. CASE RemoveRow(q)
      <3>1. job[r] # "active"
        BY <2>2, <2>6 DEF RemoveRow, LockInv, RemovalsUnclaimed
      <3>2. QED BY <2>4, <3>1
    <2>7. QED BY <2>1, <2>5, <2>6
  <1>3. ASSUME NEW s \in Runs, RunStep(s) PROVE FALSE
    BY <1>3, RunStepFrame
  <1>4. ASSUME NEW k \in Keys, KeyStep(k) PROVE FALSE
    BY <1>4, KeyStepFrame
  <1>5. ASSUME NEW m \in Sweeps, SweepStep(m) PROVE FALSE
    BY <1>5, SweepStepFrame
  <1>6. QED BY <1>1, <1>2, <1>3, <1>4, <1>5 DEF Next, vars

\* The files of a run change only while it is PENDING, although a finalization
\* or a deletion checked its status long before it changes the row.
THEOREM FilesChangeUnderLock == Spec => FilesChangeOnlyWhilePending
  <1>1. LockInv /\ [Next]_vars =>
            [\A r \in Runs : record'[r] # record[r] => status[r] = "PENDING"]_vars
    BY RecordSteps
  <1>2. QED BY <1>1, LocksProtectRuns, PTL DEF Spec, FilesChangeOnlyWhilePending

\* No deletion removes a file of a run whose job is queued or running, however
\* long before the deletion began.
THEOREM ActiveJobsKeepTheirFiles == Spec => FilesOfActiveJobsStay
  <1>1. LockInv /\ [Next]_vars =>
            [\A r \in Runs : job[r] = "active" /\ record[r] # NoKey
                                => record'[r] = record[r]]_vars
    BY RecordSteps
  <1>2. QED BY <1>1, LocksProtectRuns, PTL DEF Spec, FilesOfActiveJobsStay

-----------------------------------------------------------------------------
(* What the sweeps delete.                                                 *)

Settled == {"internal", "expired"}

\* Nobody may write an old object any more, nor one a sweep has listed, and what
\* a sweep has listed was old and is not written again.
Retained ==
    /\ \A k \in Keys : object[k] # "absent" => key[k] # "fresh"
    /\ \A k \in Keys : object[k] = "aged" => key[k] \in Settled
    /\ \A m \in Sweeps : \A k \in sweep[m].keys :
          key[k] \in Settled /\ object[k] # "young"

\* A key that is settled stays so, and nothing new is written under it.
LEMMA SettledKeysStay ==
    ASSUME TypeOK, [Next]_vars, NEW k \in Keys, key[k] \in Settled
    PROVE  key'[k] \in Settled /\ (object'[k] = "young" => object[k] = "young")
  <1>1. CASE UNCHANGED vars
    BY <1>1 DEF vars, storeVars
  <1>2. ASSUME NEW r \in Runs, RunStep(r)
        PROVE  key'[k] \in Settled /\ (object'[k] = "young" => object[k] = "young")
    BY <1>2, RunStepFrame
  <1>3. ASSUME NEW r \in Runs, Upload(r) \/ UploadInterrupted(r)
        PROVE  key'[k] \in Settled /\ (object'[k] = "young" => object[k] = "young")
    BY <1>3 DEF Upload, UploadInterrupted, Save, TypeOK, Settled
  <1>4. ASSUME NEW h \in Keys, KeyStep(h)
        PROVE  key'[k] \in Settled /\ (object'[k] = "young" => object[k] = "young")
    BY <1>4 DEF KeyStep, Put, UrlExpires, Age, Presign, TypeOK, Settled
  <1>5. ASSUME NEW q \in Requests, RequestStep(q)
        PROVE  key'[k] \in Settled /\ (object'[k] = "young" => object[k] = "young")
    BY <1>5, RequestStepFrame
       DEF RequestStep, FindFile, StartFinalize, FinalizeAccepts, FinalizeRejects,
           FinalizeDiscards, FinalizeAdds, DeleteObject, RemoveRow, RequestFails,
           storeVars, TypeOK
  <1>6. ASSUME NEW m \in Sweeps, SweepStep(m)
        PROVE  key'[k] \in Settled /\ (object'[k] = "young" => object[k] = "young")
    BY <1>6, SweepStepFrame
       DEF SweepStep, CleanupLists, CleanupReadsReferences, RepairReadsUsage,
           RepairReadsRows, RepairWritesUsage, RepairLists, SweepDeletes, SweepEnds,
           storeVars, TypeOK
  <1> QED BY <1>1, <1>2, <1>3, <1>4, <1>5, <1>6 DEF Next

\* An object appears under a key that is no longer fresh, and grows old only when
\* its key is settled.
LEMMA ObjectsAppear ==
    ASSUME TypeOK, Retained, [Next]_vars, NEW k \in Keys
    PROVE  /\ object'[k] # "absent" => key'[k] # "fresh"
           /\ object'[k] = "aged" => key'[k] \in Settled
  <1> DEFINE Good == /\ object'[k] # "absent" => key'[k] # "fresh"
                     /\ object'[k] = "aged" => key'[k] \in Settled
  <1>1. CASE UNCHANGED vars
    BY <1>1 DEF vars, storeVars, Retained
  <1>2. ASSUME NEW r \in Runs, RunStep(r) PROVE Good
    BY <1>2, RunStepFrame DEF Retained
  <1>3. ASSUME NEW r \in Runs, Upload(r) \/ UploadInterrupted(r) PROVE Good
    BY <1>3 DEF Upload, UploadInterrupted, Save, TypeOK, Settled, Retained
  <1>4. ASSUME NEW h \in Keys, KeyStep(h) PROVE Good
    BY <1>4 DEF KeyStep, Put, UrlExpires, Age, Presign, TypeOK, Settled, Retained
  <1>5. ASSUME NEW q \in Requests, RequestStep(q) PROVE Good
    BY <1>5, RequestStepFrame
       DEF RequestStep, FindFile, StartFinalize, FinalizeAccepts, FinalizeRejects,
           FinalizeDiscards, FinalizeAdds, DeleteObject, RemoveRow, RequestFails,
           storeVars, TypeOK, Retained
  <1>6. ASSUME NEW m \in Sweeps, SweepStep(m) PROVE Good
    BY <1>6, SweepStepFrame
       DEF SweepStep, CleanupLists, CleanupReadsReferences, RepairReadsUsage,
           RepairReadsRows, RepairWritesUsage, RepairLists, SweepDeletes, SweepEnds,
           storeVars, TypeOK, Retained
  <1> QED BY <1>1, <1>2, <1>3, <1>4, <1>5, <1>6 DEF Next

\* Whatever a sweep adds to its list is old when it does.
LEMMA SweepsListAged ==
    ASSUME TypeOK, [Next]_vars, NEW m \in Sweeps, NEW k \in sweep'[m].keys
    PROVE  k \in sweep[m].keys \/ k \in Aged
  <1>1. ASSUME NEW n \in Sweeps, SweepStep(n)
        PROVE  k \in sweep[m].keys \/ k \in Aged
    <2>1. /\ sweep \in [Sweeps -> SweepStates] /\ sweep[n] \in SweepStates
          /\ sweep[m] \in SweepStates
      BY DEF TypeOK
    <2>2. \E keys : /\ keys \subseteq sweep[n].keys \cup Aged
                    /\ \A p \in Sweeps : sweep'[p].keys = IF p = n THEN keys ELSE sweep[p].keys
      <3>1. CASE CleanupLists(n)
        <4>1. PICK page \in Pages :
                  sweep' = [sweep EXCEPT ![n].at = "listed", ![n].keys = page \cap Aged]
          BY <3>1 DEF CleanupLists
        <4> WITNESS page \cap Aged
        <4> QED BY <2>1, <4>1 DEF SweepStates
      <3>2. CASE CleanupReadsReferences(n)
        <4> WITNESS sweep[n].keys \ Recorded
        <4> QED BY <2>1, <3>2 DEF CleanupReadsReferences, SweepStates
      <3>3. CASE RepairReadsUsage(n)
        <4> WITNESS Aged
        <4> QED BY <2>1, <3>3 DEF RepairReadsUsage, SweepStates
      <3>4. CASE RepairReadsRows(n)
        <4> WITNESS sweep[n].keys \ Recorded
        <4> QED BY <2>1, <3>4 DEF RepairReadsRows, SweepStates
      <3>5. CASE RepairWritesUsage(n)
        <4> WITNESS sweep[n].keys
        <4> QED BY <2>1, <3>5 DEF RepairWritesUsage, SweepStates
      <3>6. CASE RepairLists(n)
        <4>1. PICK page \in Pages :
                  sweep' = [sweep EXCEPT ![n].at = "deleting", ![n].keys = @ \cap page]
          BY <3>6 DEF RepairLists
        <4> WITNESS sweep[n].keys \cap page
        <4> QED BY <2>1, <4>1 DEF SweepStates
      <3>7. ASSUME NEW h \in Keys, SweepDeletes(n, h)
            PROVE  \E keys : /\ keys \subseteq sweep[n].keys \cup Aged
                             /\ \A p \in Sweeps :
                                   sweep'[p].keys = IF p = n THEN keys ELSE sweep[p].keys
        <4> WITNESS sweep[n].keys \ {h}
        <4> QED BY <2>1, <3>7 DEF SweepDeletes, SweepStates
      <3>8. CASE SweepEnds(n)
        <4> WITNESS {}
        <4> QED BY <2>1, <3>8 DEF SweepEnds, IdleSweep
      <3> QED BY <1>1, <3>1, <3>2, <3>3, <3>4, <3>5, <3>6, <3>7, <3>8 DEF SweepStep
    <2> QED BY <2>2
  <1>2. ASSUME sweep' = sweep PROVE k \in sweep[m].keys
    BY <1>2
  <1> QED BY <1>1, <1>2, RunStepFrame, UploadFrame, KeyStepFrame, RequestStepFrame DEF Next, vars

LEMMA NextRetained == TypeOK /\ Retained /\ [Next]_vars => Retained'
  <1> SUFFICES ASSUME TypeOK, Retained, [Next]_vars PROVE Retained'
    OBVIOUS
  <1>1. ASSUME NEW m \in Sweeps, NEW k \in sweep'[m].keys
        PROVE  key'[k] \in Settled /\ object'[k] # "young"
    <2>1. k \in Keys
      BY NextType DEF TypeOK, SweepStates
    <2>2. key[k] \in Settled /\ object[k] # "young"
      BY SweepsListAged DEF Retained, Aged
    <2> QED BY <2>1, <2>2, SettledKeysStay
  <1> QED BY <1>1, ObjectsAppear DEF Retained

\* A sweep never deletes an object that has only just been written, although it
\* decided to delete it long before, on the age the object had then.
THEOREM YoungObjectsAreSpared == Spec => SweepsSpareYoungObjects
  <1>1. Init => Retained
    BY DEF Init, Retained, IdleSweep
  <1>2. Retained => [\A m \in Sweeps, k \in Keys : SweepDeletes(m, k) => object[k] # "young"]_vars
    BY DEF Retained, SweepDeletes
  <1> QED BY <1>1, <1>2, NextRetained, FileStoreTypeCorrect, PTL DEF Spec, SweepsSpareYoungObjects

-----------------------------------------------------------------------------
(* The runs and jobs of this module beside those of JobPipeline.  Both     *)
(* implement RunView, and whatever RunView does to a run may happen here,  *)
(* at any moment the row lock of the run admits it.                        *)

\* A step of one run changes what is seen of that run, by a step of RunView.
LEMMA RunStepsAreViewed ==
    ASSUME TypeOK, NEW r \in Runs, NEW s \in Runs, RunStep(s)
    PROVE  [View(r)!Next]_(View(r)!viewVars)
  <1>1. CASE s # r
    <2>1. UNCHANGED <<status[r], job[r], claimed[r]>>
      BY <1>1 DEF TypeOK, RunStep, ExecuteRun, ClaimJob, BeginRun, LoseClaim, FailRun,
                  EndJob, RetryJob, ExpireJob
    <2> QED BY <2>1 DEF View!viewVars
  <1>2. CASE s = r
    <2>1. CASE ExecuteRun(r) \/ ClaimJob(r) \/ LoseClaim(r) \/ FailRun(r)
      <3>1. View(r)!Execute \/ View(r)!Claim \/ View(r)!LoseClaim \/ View(r)!Fail
        BY <2>1 DEF TypeOK, ExecuteRun, ClaimJob, LoseClaim, FailRun, View!Execute,
                    View!Claim, View!LoseClaim, View!Fail
      <3> QED BY <3>1 DEF View!Next
    <2>2. CASE BeginRun(r)
      <3>1. View(r)!Begin
        BY <2>2 DEF TypeOK, BeginRun, View!Begin
      <3> QED BY <3>1 DEF View!Next
    <2>3. CASE EndJob(r) \/ RetryJob(r) \/ ExpireJob(r)
      <3>1. View(r)!End \/ View(r)!Retry \/ View(r)!Expire
        BY <2>3 DEF TypeOK, EndJob, RetryJob, ExpireJob, View!End, View!Retry, View!Expire
      <3> QED BY <3>1 DEF View!Next
    <2> QED BY <1>2, <2>1, <2>2, <2>3 DEF RunStep
  <1> QED BY <1>1, <1>2

\* Requests and maintenance commands never change a run or its job, and every
\* run is seen to behave as RunView allows.
THEOREM EachRunImplementsView ==
    ASSUME NEW r \in Runs
    PROVE  Spec => View(r)!Spec
  <1>1. Init => View(r)!Init
    BY DEF Init, View!Init
  <1>2. TypeOK /\ [Next]_vars => [View(r)!Next]_(View(r)!viewVars)
    <2> SUFFICES ASSUME TypeOK, [Next]_vars PROVE [View(r)!Next]_(View(r)!viewVars)
      OBVIOUS
    <2>1. CASE \E s \in Runs : RunStep(s)
      BY <2>1, RunStepsAreViewed
    <2>2. CASE ~\E s \in Runs : RunStep(s)
      <3>1. UNCHANGED runVars
        BY <2>2, UploadFrame, KeyStepFrame, RequestStepFrame, SweepStepFrame
           DEF Next, vars, runVars
      <3> QED BY <3>1 DEF runVars, View!viewVars
    <2> QED BY <2>1, <2>2
  <1> QED BY <1>1, <1>2, FileStoreTypeCorrect, PTL DEF Spec, View!Spec

\* One run changes, and nothing else in this module.
OnlyRun(r) ==
    /\ \E s : status' = [status EXCEPT ![r] = s]
    /\ \E j : job' = [job EXCEPT ![r] = j]
    /\ \E c : claimed' = [claimed EXCEPT ![r] = c]
    /\ UNCHANGED <<record, storeVars, used, request, sweep>>

\* The transactions that lock the row of the run wait for its lock, and
\* execute_run wants the files.
Admitted(r) ==
    /\ View(r)!Execute \/ View(r)!Begin \/ View(r)!Fail \/ View(r)!Retry => ~Locked(r)
    /\ View(r)!Execute => record[r] # NoKey

\* Nothing the rest of the system may do to a run is left out here: each step
\* of RunView that the lock and the files admit is a step of this module, so
\* what is proved about files holds beside everything JobPipeline does.
THEOREM ViewStepsAreAdmitted ==
    ASSUME TypeOK, NEW r \in Runs, View(r)!Next, OnlyRun(r), Admitted(r)
    PROVE  RunStep(r) \/ UNCHANGED vars
  <1>a. /\ status' = [status EXCEPT ![r] = status[r]']
        /\ status[r]' = status[r] => UNCHANGED status
    BY DEF OnlyRun, TypeOK
  <1>b. /\ job' = [job EXCEPT ![r] = job[r]']
        /\ job[r]' = job[r] => UNCHANGED job
    BY DEF OnlyRun, TypeOK
  <1>c. /\ claimed' = [claimed EXCEPT ![r] = claimed[r]']
        /\ claimed[r]' = claimed[r] => UNCHANGED claimed
    BY DEF OnlyRun, TypeOK
  <1>d. UNCHANGED <<record, storeVars, used, request, sweep>>
    BY DEF OnlyRun
  <1> USE <1>a, <1>b, <1>c, <1>d
  <1>1. CASE View(r)!Execute
    <2>1. ExecuteRun(r)
      BY <1>1 DEF View!Execute, Admitted, ExecuteRun
    <2> QED BY <2>1 DEF RunStep
  <1>2. CASE View(r)!Claim
    <2>1. CASE claimed[r]
      <3>1. claimed[r] = TRUE
        BY <2>1 DEF TypeOK
      <3>2. UNCHANGED <<status, job, claimed>>
        BY <1>2, <3>1 DEF View!Claim
      <3> QED BY <3>2 DEF vars, storeVars
    <2>2. CASE ~claimed[r]
      <3>1. ClaimJob(r)
        BY <1>2, <2>2 DEF View!Claim, ClaimJob
      <3> QED BY <3>1 DEF RunStep
    <2> QED BY <2>1, <2>2
  <1>3. CASE View(r)!Begin
    <2>1. BeginRun(r)
      BY <1>3 DEF View!Begin, Admitted, BeginRun
    <2> QED BY <2>1 DEF RunStep
  <1>4. CASE View(r)!LoseClaim
    <2>1. LoseClaim(r)
      BY <1>4 DEF View!LoseClaim, LoseClaim
    <2> QED BY <2>1 DEF RunStep
  <1>5. CASE View(r)!Fail
    <2>1. FailRun(r)
      BY <1>5 DEF View!Fail, Admitted, FailRun
    <2> QED BY <2>1 DEF RunStep
  <1>6. CASE View(r)!End
    <2>1. EndJob(r)
      BY <1>6 DEF View!End, EndJob
    <2> QED BY <2>1 DEF RunStep
  <1>7. CASE View(r)!Retry
    <2>1. RetryJob(r)
      BY <1>7 DEF View!Retry, Admitted, RetryJob
    <2> QED BY <2>1 DEF RunStep
  <1>8. CASE View(r)!Expire
    <2>1. ExpireJob(r)
      BY <1>8 DEF View!Expire, ExpireJob
    <2> QED BY <2>1 DEF RunStep
  <1> QED
    BY <1>1, <1>2, <1>3, <1>4, <1>5, <1>6, <1>7, <1>8 DEF View!Next
=============================================================================
