----------------------------- MODULE FileStore -----------------------------
(***************************************************************************)
(* The source files of one organization: their rows in the database, the   *)
(* objects in private storage, and the storage-usage counter of the        *)
(* organization, as the upload, finalization and deletion handlers change  *)
(* them while the maintenance commands sweep the storage.                  *)
(*                                                                         *)
(* No transaction spans the database and the storage.  A handler holds the *)
(* row lock of its run from its first check to its commit (Locked), the    *)
(* maintenance commands hold no lock at all.  Every file has size one, so  *)
(* the usage counter counts files, and a run has one source type, so a run *)
(* has at most one row, as (run_id, source_type) is unique.                *)
(*                                                                         *)
(* Runs and jobs are reduced to what the handlers look at; JobPipeline has *)
(* the detail of how they change, and RunView is what the two agree on.    *)
(***************************************************************************)
EXTENDS Integers, FiniteSets

CONSTANTS
    Runs,           \* the organization's reconciliation runs
    Keys,           \* storage keys: each is generated once, by save or presign
    NoRun, NoKey,   \* null values
    Requests,       \* concurrent finalize and delete requests
    Sweeps,         \* the maintenance commands that run: "cleanup", "repair"
    BatchSize,      \* how many objects one sweep lists
    Quota           \* storage_quota_bytes

ASSUME RunsAssumption == IsFiniteSet(Runs)
ASSUME SweepsAssumption == Sweeps \subseteq {"cleanup", "repair"}
ASSUME BatchAssumption == BatchSize \in Nat \ {0}
ASSUME QuotaAssumption == Quota \in Nat
ASSUME NullAssumption == NoRun \notin Runs /\ NoKey \notin Keys

VARIABLES
    status,     \* status[r]: reconciliation_runs.status
    job,        \* job[r]: no job row, one not yet ended, FAILED, or ended
    claimed,    \* claimed[r]: a worker has claimed the job and not begun the run
    record,     \* record[r]: the storage key of the run's source-file row
    object,     \* object[k]: what the storage holds under the key
    key,        \* key[k]: who may still write the object
    used,       \* organizations.storage_used_bytes
    request,    \* request[q]: where a finalize or delete request stands
    sweep       \* sweep[m]: where a maintenance command stands

vars == <<status, job, claimed, record, object, key, used, request, sweep>>
runVars == <<status, job, claimed>>
storeVars == <<object, key>>

RequestStates ==
    [at : {"idle", "verifying", "adding", "discarding", "found", "removing"},
     run : Runs \cup {NoRun}, key : Keys \cup {NoKey}, row : BOOLEAN]
SweepStates ==
    [at : {"idle", "listed", "counting", "repairing", "listing", "deleting"},
     keys : SUBSET Keys, seen : Nat, expected : Nat]

IdleRequest == [at |-> "idle", run |-> NoRun, key |-> NoKey, row |-> FALSE]
IdleSweep == [at |-> "idle", keys |-> {}, seen |-> 0, expected |-> 0]

Stored == {r \in Runs : record[r] # NoKey}
Recorded == {record[r] : r \in Stored}

Init ==
    /\ status = [r \in Runs |-> "PENDING"]
    /\ job = [r \in Runs |-> "none"]
    /\ claimed = [r \in Runs |-> FALSE]
    /\ record = [r \in Runs |-> NoKey]
    /\ object = [k \in Keys |-> "absent"]
    /\ key = [k \in Keys |-> "fresh"]
    /\ used = 0
    /\ request = [q \in Requests |-> IdleRequest]
    /\ sweep = [m \in Sweeps |-> IdleSweep]

\* Mutant: the row lock of the run is released before the row is added.
LockedWhileVerifying(r) ==
    \E q \in Requests : request[q].run = r /\ request[q].at \in {"verifying", "removing"}

\* A request holds SELECT ... FOR UPDATE on the run between these points.
Locked(r) ==
    \E q \in Requests :
        request[q].run = r /\ request[q].at \in {"verifying", "adding", "removing"}

-----------------------------------------------------------------------------
(* Runs and jobs, as far as files depend on them.                          *)

ExecuteRun(r) ==
    /\ ~Locked(r) /\ status[r] = "PENDING" /\ record[r] # NoKey /\ job[r] = "none"
    /\ job' = [job EXCEPT ![r] = "active"]
    /\ UNCHANGED <<status, claimed, record, storeVars, used, request, sweep>>

ClaimJob(r) ==
    /\ job[r] = "active" /\ ~claimed[r]
    /\ claimed' = [claimed EXCEPT ![r] = TRUE]
    /\ UNCHANGED <<status, job, record, storeVars, used, request, sweep>>

\* A worker that claimed the job starts the run, even if the job has been
\* cancelled or recovered from it in the meantime; another one may have claimed
\* the job since.
BeginRun(r) ==
    /\ claimed[r] /\ ~Locked(r)
    /\ \E another \in BOOLEAN : claimed' = [claimed EXCEPT ![r] = another]
    /\ status' = [status EXCEPT ![r] = IF @ = "PENDING" THEN "RUNNING" ELSE @]
    /\ UNCHANGED <<job, record, storeVars, used, request, sweep>>

\* The worker is killed, or its first transaction fails.
LoseClaim(r) ==
    /\ claimed[r]
    /\ claimed' = [claimed EXCEPT ![r] = FALSE]
    /\ UNCHANGED <<status, job, record, storeVars, used, request, sweep>>

\* A run that SUCCEEDED is to its files what a RUNNING one is, and stays so.
FailRun(r) ==
    /\ status[r] = "RUNNING" /\ ~Locked(r)
    /\ status' = [status EXCEPT ![r] = "FAILED"]
    /\ UNCHANGED <<job, claimed, record, storeVars, used, request, sweep>>

\* Completed, cancelled, or recovered for good: none of them locks the run.
EndJob(r) ==
    /\ job[r] = "active"
    /\ \E end \in {"ended", "failed"} : job' = [job EXCEPT ![r] = end]
    /\ UNCHANGED <<status, claimed, record, storeVars, used, request, sweep>>

RetryJob(r) ==
    /\ job[r] = "failed" /\ status[r] = "FAILED" /\ ~Locked(r)
    /\ job' = [job EXCEPT ![r] = "active"]
    /\ status' = [status EXCEPT ![r] = "PENDING"]
    /\ UNCHANGED <<claimed, record, storeVars, used, request, sweep>>

ExpireJob(r) ==
    /\ job[r] \in {"ended", "failed"}
    /\ job' = [job EXCEPT ![r] = "none"]
    /\ UNCHANGED <<status, claimed, record, storeVars, used, request, sweep>>

\* What these operations do to one run, without the locks.
View(r) == INSTANCE RunView WITH
    status <- status[r], job <- job[r], claimed <- claimed[r]

-----------------------------------------------------------------------------
(* upload_source_file: saves the object, then adds the row and the size.   *)

\* The storage chooses a new key; an object is there as a whole or not at all.
Save(k) ==
    /\ key[k] = "fresh"
    /\ key' = [key EXCEPT ![k] = "internal"]
    /\ object' = [object EXCEPT ![k] = "young"]

Upload(r) ==
    /\ ~Locked(r) /\ status[r] = "PENDING" /\ record[r] = NoKey /\ used < Quota
    /\ \E k \in Keys : Save(k) /\ record' = [record EXCEPT ![r] = k]
    /\ used' = used + 1
    /\ UNCHANGED <<runVars, request, sweep>>

\* The API process dies between the save and the commit.
UploadInterrupted(r) ==
    /\ ~Locked(r) /\ status[r] = "PENDING"
    /\ \E k \in Keys : Save(k)
    /\ UNCHANGED <<runVars, record, used, request, sweep>>

-----------------------------------------------------------------------------
(* Direct uploads.                                                         *)

\* create_presigned_upload checks the quota and reserves nothing.
Presign(r, k) ==
    /\ status[r] = "PENDING" /\ used < Quota
    /\ key[k] = "fresh"
    /\ key' = [key EXCEPT ![k] = "presigned"]
    /\ UNCHANGED <<runVars, record, object, used, request, sweep>>

\* The client may post to the URL, again and again, until it expires.
Put(k) ==
    /\ key[k] = "presigned"
    /\ object' = [object EXCEPT ![k] = "young"]
    /\ UNCHANGED <<runVars, record, key, used, request, sweep>>

UrlExpires(k) ==
    /\ key[k] = "presigned"
    /\ key' = [key EXCEPT ![k] = "expired"]
    /\ UNCHANGED <<runVars, record, object, used, request, sweep>>

\* Mutant: the retention period may be shorter than the life of a URL.
AgeAnyTime(k) ==
    /\ object[k] = "young"
    /\ object' = [object EXCEPT ![k] = "aged"]
    /\ UNCHANGED <<runVars, record, key, used, request, sweep>>

\* An object grows older than the retention period, which is at least an hour,
\* while a URL lives fifteen minutes at most.
Age(k) ==
    /\ object[k] = "young" /\ key[k] # "presigned"
    /\ object' = [object EXCEPT ![k] = "aged"]
    /\ UNCHANGED <<runVars, record, key, used, request, sweep>>

\* finalize_direct_upload, up to the point where it owns the object.  A key
\* that already has a row is answered at once and changes nothing.
StartFinalize(q, r, k) ==
    /\ request[q].at = "idle"
    /\ key[k] \in {"presigned", "expired"}
    /\ ~Locked(r) /\ status[r] = "PENDING"
    /\ k \notin Recorded
    /\ request' = [request EXCEPT
           ![q] = [at |-> "verifying", run |-> r, key |-> k, row |-> FALSE]]
    /\ UNCHANGED <<runVars, record, storeVars, used, sweep>>

\* stat, materialize and inspect_materialized accept the object.
FinalizeAccepts(q) ==
    /\ request[q].at = "verifying" /\ object[request[q].key] # "absent"
    /\ request' = [request EXCEPT ![q].at = "adding"]
    /\ UNCHANGED <<runVars, record, storeVars, used, sweep>>

\* They find it different from what the client declared, or the transaction
\* fails: it is rolled back, which releases the run ...
FinalizeRejects(q) ==
    /\ \/ request[q].at = "verifying" /\ object[request[q].key] # "absent"
       \/ request[q].at = "adding"
    /\ request' = [request EXCEPT ![q].at = "discarding"]
    /\ UNCHANGED <<runVars, record, storeVars, used, sweep>>

\* ... and only then is the object deleted.
FinalizeDiscards(q) ==
    /\ request[q].at = "discarding"
    /\ object' = [object EXCEPT ![request[q].key] = "absent"]
    /\ request' = [request EXCEPT ![q] = IdleRequest]
    /\ UNCHANGED <<runVars, record, key, used, sweep>>

\* Add the row and the size.  A run that has a file already or a quota that is
\* exceeded fails the transaction: FinalizeRejects.
FinalizeAdds(q) ==
    LET r == request[q].run IN
    /\ request[q].at = "adding" /\ record[r] = NoKey /\ used < Quota
    /\ record' = [record EXCEPT ![r] = request[q].key]
    /\ used' = used + 1
    /\ request' = [request EXCEPT ![q] = IdleRequest]
    /\ UNCHANGED <<runVars, storeVars, sweep>>

-----------------------------------------------------------------------------
(* delete_source_file.                                                     *)

\* The row is looked up before the run is locked.
FindFile(q, r) ==
    /\ request[q].at = "idle" /\ record[r] # NoKey
    /\ request' = [request EXCEPT
           ![q] = [at |-> "found", run |-> r, key |-> record[r], row |-> TRUE]]
    /\ UNCHANGED <<runVars, record, storeVars, used, sweep>>

\* Mutant: only the status of the run is checked, not its job.
DeletableIgnoringJob(r) == status[r] = "PENDING"

Deletable(r) == status[r] = "PENDING" /\ job[r] # "active"

\* Lock the run, look at it and at its job, then delete the object.
DeleteObject(q) ==
    LET r == request[q].run IN
    /\ request[q].at = "found" /\ ~Locked(r)
    /\ \/ /\ Deletable(r)
          /\ object' = [object EXCEPT ![request[q].key] = "absent"]
          /\ request' = [request EXCEPT ![q].at = "removing"]
       \/ /\ ~Deletable(r)
          /\ request' = [request EXCEPT ![q] = IdleRequest]
          /\ UNCHANGED object
    /\ UNCHANGED <<runVars, record, key, used, sweep>>

\* Mutant: the counter is not stopped at zero.
RemoveRowUnclamped(q) ==
    LET r == request[q].run
        removed == request[q].row
    IN /\ request[q].at = "removing"
       /\ record' = IF removed THEN [record EXCEPT ![r] = NoKey] ELSE record
       /\ used' = used - 1
       /\ request' = [p \in Requests |->
             IF p = q THEN IdleRequest
             ELSE IF removed /\ request[p].run = r
                  THEN [request[p] EXCEPT !.row = FALSE]
                  ELSE request[p]]
       /\ UNCHANGED <<runVars, storeVars, sweep>>

\* Delete the row and subtract its size.  A row that a concurrent request has
\* deleted is not missed: the statement matches nothing and the size is
\* subtracted again (the counter stops at zero).
RemoveRow(q) ==
    LET r == request[q].run
        removed == request[q].row
    IN /\ request[q].at = "removing"
       /\ record' = IF removed THEN [record EXCEPT ![r] = NoKey] ELSE record
       /\ used' = IF used > 0 THEN used - 1 ELSE 0
       /\ request' = [p \in Requests |->
             IF p = q THEN IdleRequest
             ELSE IF removed /\ request[p].run = r
                  THEN [request[p] EXCEPT !.row = FALSE]
                  ELSE request[p]]
       /\ UNCHANGED <<runVars, storeVars, sweep>>

\* A storage or database error, or the death of the process: the transaction is
\* rolled back, what was done to the storage is not.
RequestFails(q) ==
    /\ request[q].at # "idle"
    /\ request' = [request EXCEPT ![q] = IdleRequest]
    /\ UNCHANGED <<runVars, record, storeVars, used, sweep>>

-----------------------------------------------------------------------------
(* The maintenance commands.                                               *)

Aged == {k \in Keys : object[k] = "aged"}

\* list_older_than of the S3 storage, which is the one with direct uploads, reads
\* one page of the namespace, and keeps of it what is older than the cutoff.
Pages ==
    LET stored == {k \in Keys : object[k] # "absent"}
    IN {page \in SUBSET stored :
          \/ page = stored /\ Cardinality(stored) <= BatchSize
          \/ Cardinality(stored) > BatchSize /\ Cardinality(page) = BatchSize}

\* AbandonedUploadCleanup.run lists the objects first ...
CleanupLists(m) ==
    /\ m = "cleanup" /\ sweep[m].at = "idle"
    /\ \E page \in Pages :
          sweep' = [sweep EXCEPT ![m].at = "listed", ![m].keys = page \cap Aged]
    /\ UNCHANGED <<runVars, record, storeVars, used, request>>

\* ... and then reads which of them have a row.
CleanupReadsReferences(m) ==
    /\ sweep[m].at = "listed"
    /\ sweep' = [sweep EXCEPT ![m].at = "deleting", ![m].keys = @ \ Recorded]
    /\ UNCHANGED <<runVars, record, storeVars, used, request>>

\* StorageIntegrityVerifier.run(repair=True) fixes the cutoff, then reads the
\* usage counter, then the rows (the references, and the sum of their sizes),
\* each in a statement of its own, without a lock.  `keys` are the objects old
\* at the cutoff and, once the rows are read, without a row ...
RepairReadsUsage(m) ==
    /\ m = "repair" /\ sweep[m].at = "idle"
    /\ sweep' = [sweep EXCEPT ![m].at = "counting", ![m].keys = Aged,
                              ![m].seen = used]
    /\ UNCHANGED <<runVars, record, storeVars, used, request>>

RepairReadsRows(m) ==
    /\ sweep[m].at = "counting"
    /\ sweep' = [sweep EXCEPT ![m].at = "repairing", ![m].keys = @ \ Recorded,
                              ![m].expected = Cardinality(Stored)]
    /\ UNCHANGED <<runVars, record, storeVars, used, request>>

\* Mutant: a mismatch is reported but not repaired.
RepairReportsOnly(m) ==
    /\ sweep[m].at = "repairing"
    /\ sweep' = [sweep EXCEPT ![m].at = "listing", ![m].seen = 0, ![m].expected = 0]
    /\ UNCHANGED <<runVars, record, storeVars, used, request>>

\* ... overwrites the counter if the two did not agree ...
RepairWritesUsage(m) ==
    /\ sweep[m].at = "repairing"
    /\ used' = IF sweep[m].seen # sweep[m].expected THEN sweep[m].expected ELSE used
    /\ sweep' = [sweep EXCEPT ![m].at = "listing", ![m].seen = 0, ![m].expected = 0]
    /\ UNCHANGED <<runVars, record, storeVars, request>>

\* ... and lists the objects long after it has read the references.
RepairLists(m) ==
    /\ sweep[m].at = "listing"
    /\ \E page \in Pages :
          sweep' = [sweep EXCEPT ![m].at = "deleting", ![m].keys = @ \cap page]
    /\ UNCHANGED <<runVars, record, storeVars, used, request>>

\* Mutant: a command that was asked to delete only counts.
SweepCounts(m, k) ==
    /\ sweep[m].at = "deleting" /\ k \in sweep[m].keys
    /\ sweep' = [sweep EXCEPT ![m].keys = @ \ {k}]
    /\ UNCHANGED <<runVars, record, storeVars, used, request>>

SweepDeletes(m, k) ==
    /\ sweep[m].at = "deleting" /\ k \in sweep[m].keys
    /\ object' = [object EXCEPT ![k] = "absent"]
    /\ sweep' = [sweep EXCEPT ![m].keys = @ \ {k}]
    /\ UNCHANGED <<runVars, record, key, used, request>>

SweepEnds(m) ==
    /\ sweep[m].at = "deleting" /\ sweep[m].keys = {}
    /\ sweep' = [sweep EXCEPT ![m] = IdleSweep]
    /\ UNCHANGED <<runVars, record, storeVars, used, request>>

-----------------------------------------------------------------------------
RunStep(r) == ExecuteRun(r) \/ ClaimJob(r) \/ BeginRun(r) \/ LoseClaim(r) \/ FailRun(r)
              \/ EndJob(r) \/ RetryJob(r) \/ ExpireJob(r)
KeyStep(k) == Put(k) \/ UrlExpires(k) \/ Age(k) \/ \E r \in Runs : Presign(r, k)
RequestStep(q) == \/ \E r \in Runs : FindFile(q, r) \/ \E k \in Keys : StartFinalize(q, r, k)
                  \/ FinalizeAccepts(q) \/ FinalizeAdds(q)
                  \/ FinalizeRejects(q) \/ FinalizeDiscards(q)
                  \/ DeleteObject(q) \/ RemoveRow(q) \/ RequestFails(q)
SweepStep(m) == \/ CleanupLists(m) \/ CleanupReadsReferences(m)
                \/ RepairReadsUsage(m) \/ RepairReadsRows(m) \/ RepairWritesUsage(m)
                \/ RepairLists(m) \/ (\E k \in Keys : SweepDeletes(m, k)) \/ SweepEnds(m)

Next ==
    \/ \E r \in Runs : RunStep(r) \/ Upload(r) \/ UploadInterrupted(r)
    \/ \E k \in Keys : KeyStep(k)
    \/ \E q \in Requests : RequestStep(q)
    \/ \E m \in Sweeps : SweepStep(m)

Spec == Init /\ [][Next]_vars

\* The operator runs the maintenance commands again and again, and each runs to
\* its end.  Nothing else has to happen.
FairSpec == Spec /\ \A m \in Sweeps : WF_vars(SweepStep(m))

-----------------------------------------------------------------------------
(* Properties.                                                             *)

\* Every variable keeps its type.
TypeOK ==
    /\ status \in [Runs -> {"PENDING", "RUNNING", "FAILED"}]
    /\ job \in [Runs -> {"none", "active", "ended", "failed"}]
    /\ claimed \in [Runs -> BOOLEAN]
    /\ record \in [Runs -> Keys \cup {NoKey}]
    /\ object \in [Keys -> {"absent", "young", "aged"}]
    /\ key \in [Keys -> {"fresh", "internal", "presigned", "expired"}]
    /\ used \in Nat
    /\ request \in [Requests -> RequestStates]
    /\ sweep \in [Sweeps -> SweepStates]

\* The files of a run change only while it is PENDING, although the handlers
\* check its status long before they change the row.
FilesChangeOnlyWhilePending ==
    [][\A r \in Runs : record'[r] # record[r] => status[r] = "PENDING"]_vars

\* "Deletion is blocked after processing starts": a file is never removed while
\* its run has a queued or running job, not even when the deletion began before
\* the run was executed or its job retried.
FilesOfActiveJobsStay ==
    [][\A r \in Runs :
          job[r] = "active" /\ record[r] # NoKey => record'[r] = record[r]]_vars

\* A sweep never deletes an object that has only just been written: the client
\* still has time to finalize it.
SweepsSpareYoungObjects ==
    [][\A m \in Sweeps, k \in Keys : SweepDeletes(m, k) => object[k] # "young"]_vars

\* An abandoned object is eventually removed by the sweeps, or becomes a file.
AbandonedObjectsAreRemoved ==
    \A k \in Keys :
        object[k] = "aged" /\ k \notin Recorded ~>
            object[k] # "aged" \/ k \in Recorded

\* Once the files stop changing, repairing the usage counter again and again
\* makes it right and keeps it right, whatever concurrent deletions and earlier
\* repairs have done to it.
RepairedUsageConverges ==
    \A files \in SUBSET Runs :
        <>[](Stored = files /\ \A q \in Requests : request[q].at = "idle")
            => <>[](used = Cardinality(files))

-----------------------------------------------------------------------------
(* Claims of the documentation that the code does not keep.                *)

\* "delete only aged, confirmed abandoned objects" (verify-storage --repair).
SweepsSpareRecordedFiles ==
    [][\A m \in Sweeps, k \in Keys : SweepDeletes(m, k) => k \notin Recorded]_vars
=============================================================================
