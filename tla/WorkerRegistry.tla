--------------------------- MODULE WorkerRegistry ---------------------------
(***************************************************************************)
(* The registry of worker processes: a worker records heartbeats and its   *)
(* end, the health endpoint and the container's health check count the     *)
(* workers from whom they have heard, and the retention cleanup deletes    *)
(* old records, batch after batch.                                         *)
(*                                                                         *)
(* A worker reads its record without a lock and writes it afterwards, and  *)
(* the cleanup lists records before it deletes them.  A record's heartbeat *)
(* has an age as far as the thresholds tell ages apart, and due says which *)
(* running cleanups have a cutoff after it: those that started when it had *)
(* expired.  Each process has a worker id of its own.                      *)
(***************************************************************************)
EXTENDS Naturals, FiniteSets

CONSTANTS
    Workers,        \* worker ids
    Cleanups,       \* runs of the cleanup command that may be going on at once
    BatchSize       \* cleanup_batch_size

ASSUME BatchAssumption == BatchSize \in Nat \ {0}

VARIABLES
    process,    \* process[w]: where the worker's code stands, what it has read
    record,     \* record[w]: the worker's row
    older,      \* older[w]: the rows with an earlier heartbeat
    cleanup     \* cleanup[c]: where a cleanup stands, the ids it has listed

vars == <<process, record, older, cleanup>>

Places == {"starting", "polling", "working", "stopping", "ended", "killed"}
Down(w) == process[w].at \in {"ended", "killed"}

Records == [status : {"absent", "RUNNING", "STOPPED"},
            age : {"fresh", "stale", "expired"}, due : SUBSET Cleanups]
Written(status) == [status |-> status, age |-> "fresh", due |-> {}]
Present == {w \in Workers : record[w].status # "absent"}

\* What health_counts counts as active.
Available(w) == record[w].status = "RUNNING" /\ record[w].age = "fresh"

Resting == [at |-> "idle", batch |-> {}]
Runs(at, seen) == [at |-> at, seen |-> seen]

Init ==
    /\ process = [w \in Workers |-> Runs("ended", "nothing")]
    /\ record = [w \in Workers |-> Written("absent")]
    /\ older = [w \in Workers |-> {}]
    /\ cleanup = [c \in Cleanups |-> Resting]

-----------------------------------------------------------------------------
(* A worker process.                                                       *)

Moves(w, at) == process' = [process EXCEPT ![w] = Runs(at, "nothing")]
Write(w, status) ==
    /\ record' = [record EXCEPT ![w] = Written(status)]
    /\ older' = [v \in Workers |-> IF v = w THEN Present \ {w} ELSE older[v] \ {w}]

Start(w) == Down(w) /\ Moves(w, "starting") /\ UNCHANGED <<record, older, cleanup>>

\* session.get of a heartbeat or of stop.
Read(w) ==
    /\ ~Down(w) /\ process[w].seen = "nothing"
    /\ process' = [process EXCEPT ![w] =
          Runs(@.at, IF w \in Present THEN "row" ELSE "noRow")]
    /\ UNCHANGED <<record, older, cleanup>>

\* The flush finds the row as it was read: there, or not there.
StillAsRead(w) == process[w].seen = IF w \in Present THEN "row" ELSE "noRow"

\* The first heartbeat, run_once with or without a job, and a checkpoint.
AfterHeartbeat(at) ==
    CASE at = "starting" -> {"polling"}
      [] at = "polling" -> {"polling", "working"}
      [] OTHER -> {"working"}

Heartbeat(w) ==
    /\ process[w].at \in {"starting", "polling", "working"}
    /\ process[w].seen # "nothing" /\ StillAsRead(w)
    /\ Write(w, "RUNNING")
    /\ \E at \in AfterHeartbeat(process[w].at) : Moves(w, at)
    /\ UNCHANGED cleanup

\* Mutant: run_forever records the end only when it was asked to stop.
WithoutFinally == "ended"
AfterError == "stopping"

\* The row was deleted after it was read, or the row of a job that is no longer
\* the worker's cannot be completed.  The first heartbeat is not guarded; an
\* error inside a job fails the job, and its completion may raise as well.
HeartbeatFails(w) ==
    /\ process[w].seen # "nothing" /\ ~StillAsRead(w)
    /\ \/ process[w].at = "starting" /\ Moves(w, "ended")
       \/ process[w].at = "polling" /\ Moves(w, AfterError)
       \/ process[w].at = "working" /\ \E at \in {"polling", AfterError} : Moves(w, at)
    /\ UNCHANGED <<record, older, cleanup>>

FinishJob(w) ==
    /\ process[w].at = "working" /\ process[w].seen = "nothing"
    /\ \E at \in {"polling", AfterError} : Moves(w, at)
    /\ UNCHANGED <<record, older, cleanup>>

ShutDown(w) ==
    /\ process[w].at = "polling" /\ process[w].seen = "nothing"
    /\ Moves(w, "stopping")
    /\ UNCHANGED <<record, older, cleanup>>

\* stop raises when there is no row, and the process ends all the same.
Stop(w) ==
    /\ process[w].at = "stopping" /\ process[w].seen # "nothing"
    /\ Moves(w, "ended")
    /\ IF process[w].seen = "row" /\ StillAsRead(w)
       THEN Write(w, "STOPPED") ELSE UNCHANGED <<record, older>>
    /\ UNCHANGED cleanup

Kill(w) == ~Down(w) /\ Moves(w, "killed") /\ UNCHANGED <<record, older, cleanup>>

-----------------------------------------------------------------------------
(* Time and the retention cleanup.                                         *)

\* Heartbeats grow old in their order.
GrowOld(w) ==
    /\ w \in Present
    /\ \/ /\ record[w].age = "fresh" /\ \A v \in older[w] : record[v].age # "fresh"
          /\ record' = [record EXCEPT ![w].age = "stale"]
       \/ /\ record[w].age = "stale" /\ \A v \in older[w] : record[v].age = "expired"
          /\ record' = [record EXCEPT ![w].age = "expired"]
    /\ UNCHANGED <<process, older, cleanup>>

Advances(c, at, batch) ==
    cleanup' = [cleanup EXCEPT ![c] = [at |-> at, batch |-> batch]]

\* run takes its cutoff.  The jobs it deletes first are in JobPipeline.
StartCleanup(c) ==
    /\ cleanup[c].at = "idle" /\ Advances(c, "listing", {})
    /\ record' = [w \in Workers |-> [record[w] EXCEPT !.due =
          IF w \in Present /\ record[w].age = "expired" THEN @ \cup {c} ELSE @ \ {c}]]
    /\ UNCHANGED <<process, older>>

Due(c) == {w \in Present : c \in record[w].due}

\* Mutant: the batch is taken in the order of the ids.
OldestById(c) ==
    CHOOSE B \in SUBSET Due(c) :
        Cardinality(B) = BatchSize \/ (Cardinality(B) < BatchSize /\ B = Due(c))
Oldest(c) == {w \in Due(c) : Cardinality(older[w] \cap Due(c)) < BatchSize}

ListBatch(c) ==
    /\ cleanup[c].at = "listing"
    /\ IF Due(c) = {} THEN Advances(c, "idle", {}) ELSE Advances(c, "deleting", Oldest(c))
    /\ UNCHANGED <<process, record, older>>

\* Mutant: the listed ids are deleted without the condition.
DeletedAsListed(c) == cleanup[c].batch
Deleted(c) == cleanup[c].batch \cap Due(c)

\* The cleanup ends with the first batch that is not full.
DeleteBatch(c) ==
    /\ cleanup[c].at = "deleting"
    /\ record' = [w \in Workers |-> IF w \in Deleted(c) THEN Written("absent") ELSE record[w]]
    /\ older' = [w \in Workers |-> IF w \in Deleted(c) THEN {} ELSE older[w] \ Deleted(c)]
    /\ Advances(c, IF Cardinality(Deleted(c)) < BatchSize THEN "idle" ELSE "listing", {})
    /\ UNCHANGED process

Interrupt(c) ==
    /\ cleanup[c].at # "idle" /\ Advances(c, "idle", {})
    /\ UNCHANGED <<process, record, older>>

-----------------------------------------------------------------------------
WorkerStep(w) ==
    \/ Start(w) \/ Read(w) \/ Heartbeat(w) \/ HeartbeatFails(w) \/ FinishJob(w)
    \/ ShutDown(w) \/ Stop(w) \/ Kill(w)
CleanupStep(c) == StartCleanup(c) \/ ListBatch(c) \/ DeleteBatch(c) \/ Interrupt(c)

Next ==
    \/ \E w \in Workers : WorkerStep(w) \/ GrowOld(w)
    \/ \E c \in Cleanups : CleanupStep(c)

Spec == Init /\ [][Next]_vars

\* Time passes, and the operator runs the cleanup again and again; one that is
\* interrupted time and again gets through a statement now and then.
FairSpec ==
    /\ Spec
    /\ \A w \in Workers : WF_vars(GrowOld(w))
    /\ \A c \in Cleanups :
          WF_vars(StartCleanup(c)) /\ SF_vars(ListBatch(c)) /\ SF_vars(DeleteBatch(c))

-----------------------------------------------------------------------------
(* Properties.                                                             *)

\* Every variable keeps its type.
TypeOK ==
    /\ process \in [Workers -> [at : Places, seen : {"nothing", "row", "noRow"}]]
    /\ record \in [Workers -> Records]
    /\ older \in [Workers -> SUBSET Workers]
    /\ cleanup \in [Cleanups -> [at : {"idle", "listing", "deleting"}, batch : SUBSET Workers]]

\* Retention never takes a worker from the health counts: one that comes back
\* after its old record was listed for deletion keeps its row.
AvailableWorkersStay == [][\A w \in Workers : Available(w) => w \in Present']_vars

\* A worker whose process has come to its end is not counted as active, nor as
\* stale, however it ended and whatever the cleanup did meanwhile: only one
\* that was killed leaves a RUNNING record.
EndedWorkersAreNotCounted ==
    \A w \in Workers : process[w].at = "ended" => record[w].status # "RUNNING"

\* The record of a worker that stays away is deleted, although other workers
\* may come back in the middle of every cleanup and end it early.
LostWorkersAreForgotten ==
    \A w \in Workers : <>[]Down(w) => <>[](w \notin Present)
=============================================================================
