------------------------ MODULE WorkerRegistryProofs ------------------------
(***************************************************************************)
(* For any number of workers and concurrent cleanups: no cleanup takes an  *)
(* available worker's record, and a process that came to its end leaves no *)
(* RUNNING record.                                                         *)
(*                                                                         *)
(* Both need more than themselves.  What a cleanup may delete is decided   *)
(* when it starts and deleted later: in between, a heartbeat resets the    *)
(* row.  And a process ends after reading its row: that nobody else        *)
(* inserts the row makes what it has read of an absent one stay true.      *)
(***************************************************************************)
EXTENDS WorkerRegistry, TLAPS

\* What a cleanup that is going on may delete has expired.
DueRecordsExpired == \A w \in Workers : record[w].due # {} => record[w].age = "expired"

\* A row that was not there when its process looked is still not there.
AbsenceLasts == \A w \in Workers : process[w].seen = "noRow" => w \notin Present

RegistryInv == TypeOK /\ DueRecordsExpired /\ AbsenceLasts /\ EndedWorkersAreNotCounted

\* What the steps of a process do to its own place and row and to nobody else's.
OwnStep(w) ==
    /\ \A v \in Workers \ {w} : process'[v] = process[v] /\ record'[v] = record[v]
    /\ cleanup' = cleanup

-----------------------------------------------------------------------------
LEMMA WrittenRecord ==
    ASSUME NEW status \in {"absent", "RUNNING", "STOPPED"}
    PROVE  /\ Written(status) \in Records
           /\ Written(status).status = status
           /\ Written(status).age = "fresh" /\ Written(status).due = {}
  BY DEF Written, Records

LEMMA MovesPlace ==
    ASSUME TypeOK, NEW w \in Workers, NEW at \in Places, Moves(w, at)
    PROVE  /\ process' \in [Workers -> [at : Places, seen : {"nothing", "row", "noRow"}]]
           /\ process'[w].at = at /\ process'[w].seen = "nothing"
           /\ \A v \in Workers \ {w} : process'[v] = process[v]
  <1>1. Runs(at, "nothing") \in [at : Places, seen : {"nothing", "row", "noRow"}]
    BY DEF Runs
  <1>2. Runs(at, "nothing").at = at /\ Runs(at, "nothing").seen = "nothing"
    BY DEF Runs
  <1> QED BY <1>1, <1>2 DEF Moves, TypeOK

LEMMA WriteRow ==
    ASSUME TypeOK, NEW w \in Workers, NEW status \in {"RUNNING", "STOPPED"}, Write(w, status)
    PROVE  /\ record' \in [Workers -> Records] /\ older' \in [Workers -> SUBSET Workers]
           /\ record'[w] = Written(status)
           /\ \A v \in Workers \ {w} : record'[v] = record[v]
  BY WrittenRecord DEF Write, TypeOK, Present

\* A step of one process keeps the invariant when the process and its row do.
LEMMA OwnStepKeeps ==
    ASSUME RegistryInv, NEW w \in Workers, OwnStep(w), TypeOK',
           record'[w].due # {} => record'[w].age = "expired",
           process'[w].seen = "noRow" => record'[w].status = "absent",
           process'[w].at = "ended" => record'[w].status # "RUNNING"
    PROVE  RegistryInv'
  <1>1. DueRecordsExpired'
    BY DEF OwnStep, RegistryInv, DueRecordsExpired
  <1>2. AbsenceLasts'
    BY DEF OwnStep, RegistryInv, AbsenceLasts, Present
  <1>3. EndedWorkersAreNotCounted'
    BY DEF OwnStep, RegistryInv, EndedWorkersAreNotCounted
  <1> QED BY <1>1, <1>2, <1>3 DEF RegistryInv

\* A process that only moves on, without touching a row.
LEMMA MoveKeeps ==
    ASSUME RegistryInv, NEW w \in Workers, NEW at \in Places, Moves(w, at),
           UNCHANGED <<record, older, cleanup>>,
           at = "ended" => w \notin Present
    PROVE  RegistryInv'
  <1>1. /\ process' \in [Workers -> [at : Places, seen : {"nothing", "row", "noRow"}]]
        /\ process'[w].at = at /\ process'[w].seen = "nothing"
        /\ \A v \in Workers \ {w} : process'[v] = process[v]
    BY MovesPlace DEF RegistryInv
  <1>2. TypeOK' /\ OwnStep(w)
    BY <1>1 DEF RegistryInv, TypeOK, OwnStep
  <1>3. record'[w].due # {} => record'[w].age = "expired"
    BY DEF RegistryInv, DueRecordsExpired
  <1>4. at = "ended" => record'[w].status # "RUNNING"
    BY DEF Present
  <1> QED BY <1>1, <1>2, <1>3, <1>4, OwnStepKeeps

\* What is in the row while its process writes.
LEMMA WriteKeeps ==
    ASSUME RegistryInv, NEW w \in Workers, NEW at \in Places, Moves(w, at),
           NEW status \in {"RUNNING", "STOPPED"}, Write(w, status), UNCHANGED cleanup,
           at = "ended" => status = "STOPPED"
    PROVE  RegistryInv'
  <1>1. /\ process' \in [Workers -> [at : Places, seen : {"nothing", "row", "noRow"}]]
        /\ process'[w].at = at /\ process'[w].seen = "nothing"
        /\ \A v \in Workers \ {w} : process'[v] = process[v]
    BY MovesPlace DEF RegistryInv
  <1>2. /\ record' \in [Workers -> Records] /\ older' \in [Workers -> SUBSET Workers]
        /\ record'[w] = Written(status)
        /\ \A v \in Workers \ {w} : record'[v] = record[v]
    BY WriteRow DEF RegistryInv
  <1>3. TypeOK' /\ OwnStep(w)
    BY <1>1, <1>2 DEF RegistryInv, TypeOK, OwnStep
  <1>4. record'[w].due = {} /\ record'[w].status = status
    BY <1>2, WrittenRecord
  <1> QED BY <1>1, <1>3, <1>4, OwnStepKeeps

-----------------------------------------------------------------------------
LEMMA ReadKeeps ==
    ASSUME RegistryInv, NEW w \in Workers, Read(w)
    PROVE  RegistryInv'
  <1> DEFINE found == IF w \in Present THEN "row" ELSE "noRow"
  <1>1. /\ process' = [process EXCEPT ![w] = Runs(process[w].at, found)]
        /\ record' = record /\ older' = older /\ cleanup' = cleanup
    BY DEF Read
  <1>2. process[w].at \in Places
    BY DEF RegistryInv, TypeOK
  <1>3. Runs(process[w].at, found) \in [at : Places, seen : {"nothing", "row", "noRow"}]
    BY <1>2 DEF Runs
  <1>4. Runs(process[w].at, found).at = process[w].at /\ Runs(process[w].at, found).seen = found
    BY DEF Runs
  <1> HIDE DEF found
  <1>5. process'[w] = Runs(process[w].at, found)
    BY <1>1 DEF RegistryInv, TypeOK
  <1>6. TypeOK' /\ OwnStep(w)
    BY <1>1, <1>3 DEF RegistryInv, TypeOK, OwnStep
  <1>7. process'[w].seen = "noRow" => record'[w].status = "absent"
    BY <1>1, <1>4, <1>5 DEF found, Present
  <1>8. process'[w].at = "ended" => record'[w].status # "RUNNING"
    BY <1>1, <1>4, <1>5 DEF RegistryInv, EndedWorkersAreNotCounted
  <1>9. record'[w].due # {} => record'[w].age = "expired"
    BY <1>1 DEF RegistryInv, DueRecordsExpired
  <1> QED BY <1>6, <1>7, <1>8, <1>9, OwnStepKeeps

\* What was read is not true any more only when the row has been deleted.
LEMMA MisreadMeansDeleted ==
    ASSUME RegistryInv, NEW w \in Workers, process[w].seen # "nothing",
           process[w].seen # "row" \/ ~StillAsRead(w)
    PROVE  w \notin Present
  BY DEF RegistryInv, AbsenceLasts, StillAsRead, TypeOK

LEMMA WorkerStepKeeps ==
    ASSUME RegistryInv, NEW w \in Workers, WorkerStep(w)
    PROVE  RegistryInv'
  <1>1. CASE Start(w)
    BY <1>1, MoveKeeps DEF Start, Places
  <1>2. CASE Heartbeat(w)
    <2>1. PICK at \in AfterHeartbeat(process[w].at) : Moves(w, at)
      BY <1>2 DEF Heartbeat
    <2>2. at \in Places /\ at # "ended"
      BY <1>2 DEF Heartbeat, AfterHeartbeat, Places
    <2> QED BY <1>2, <2>1, <2>2, WriteKeeps DEF Heartbeat
  <1>3. CASE HeartbeatFails(w)
    <2>1. w \notin Present
      BY <1>3, MisreadMeansDeleted DEF HeartbeatFails
    <2>2. PICK at \in Places : Moves(w, at)
      BY <1>3 DEF HeartbeatFails, AfterError, Places
    <2> QED BY <1>3, <2>1, <2>2, MoveKeeps DEF HeartbeatFails
  <1>4. CASE FinishJob(w)
    <2>1. PICK at \in {"polling", "stopping"} : Moves(w, at)
      BY <1>4 DEF FinishJob, AfterError
    <2>2. at \in Places /\ at # "ended"
      BY DEF Places
    <2> QED BY <1>4, <2>1, <2>2, MoveKeeps DEF FinishJob
  <1>5. CASE ShutDown(w)
    BY <1>5, MoveKeeps DEF ShutDown, Places
  <1>6. CASE Stop(w)
    <2>1. Moves(w, "ended") /\ "ended" \in Places /\ cleanup' = cleanup
      BY <1>6 DEF Stop, Places
    <2>2. CASE process[w].seen = "row" /\ StillAsRead(w)
      <3>1. Write(w, "STOPPED")
        BY <1>6, <2>2 DEF Stop
      <3> QED BY <2>1, <3>1, WriteKeeps
    <2>3. CASE ~(process[w].seen = "row" /\ StillAsRead(w))
      <3>1. UNCHANGED <<record, older, cleanup>>
        BY <1>6, <2>3 DEF Stop
      <3>2. w \notin Present
        BY <1>6, <2>3, MisreadMeansDeleted DEF Stop
      <3> QED BY <2>1, <3>1, <3>2, MoveKeeps
    <2> QED BY <2>2, <2>3
  <1>7. CASE Kill(w)
    BY <1>7, MoveKeeps DEF Kill, Places
  <1>8. CASE Read(w)
    BY <1>8, ReadKeeps
  <1> QED BY <1>1, <1>2, <1>3, <1>4, <1>5, <1>6, <1>7, <1>8 DEF WorkerStep

-----------------------------------------------------------------------------
LEMMA GrowOldKeeps ==
    ASSUME RegistryInv, NEW w \in Workers, GrowOld(w)
    PROVE  RegistryInv'
  <1>1. PICK age \in {"stale", "expired"} :
            /\ record' = [record EXCEPT ![w].age = age] /\ record[w].age # "expired"
            /\ process' = process /\ older' = older /\ cleanup' = cleanup
    BY DEF GrowOld
  <1>2. /\ record' \in [Workers -> Records]
        /\ record'[w].due = record[w].due /\ record'[w].status = record[w].status
        /\ \A v \in Workers \ {w} : record'[v] = record[v]
    BY <1>1 DEF RegistryInv, TypeOK, Records
  <1>3. record'[w].due = {}
    BY <1>1, <1>2 DEF RegistryInv, DueRecordsExpired
  <1>4. TypeOK' /\ OwnStep(w)
    BY <1>1, <1>2 DEF RegistryInv, TypeOK, OwnStep
  <1>5. process'[w].seen = "noRow" => record'[w].status = "absent"
    BY <1>1, <1>2 DEF RegistryInv, AbsenceLasts, Present
  <1>6. process'[w].at = "ended" => record'[w].status # "RUNNING"
    BY <1>1, <1>2 DEF RegistryInv, EndedWorkersAreNotCounted
  <1> QED BY <1>3, <1>4, <1>5, <1>6, OwnStepKeeps

\* A cleanup moves on; rows keep their status or go, and none becomes due
\* that has not expired.
LEMMA CleanupStepKeeps ==
    ASSUME RegistryInv, NEW c \in Cleanups, CleanupStep(c)
    PROVE  RegistryInv'
  <1> DEFINE Kept(w) ==
          /\ record'[w] \in Records
          /\ record'[w].status \in {record[w].status, "absent"}
          /\ record'[w].due # {} => record'[w].age = "expired"
  <1>1. /\ process' = process
        /\ record' \in [Workers -> Records] /\ older' \in [Workers -> SUBSET Workers]
        /\ cleanup' \in [Cleanups -> [at : {"idle", "listing", "deleting"}, batch : SUBSET Workers]]
        /\ \A w \in Workers : Kept(w)
    <2>0. \A w \in Workers : record[w] \in Records /\ (record[w].due # {} => record[w].age = "expired")
      BY DEF RegistryInv, TypeOK, DueRecordsExpired
    <2>1. CASE StartCleanup(c)
      <3>1. record' = [w \in Workers |-> [record[w] EXCEPT !.due =
                IF w \in Present /\ record[w].age = "expired" THEN @ \cup {c} ELSE @ \ {c}]]
        BY <2>1 DEF StartCleanup
      <3>2. ASSUME NEW w \in Workers PROVE Kept(w)
        <4>1. CASE w \in Present /\ record[w].age = "expired"
          <5>1. record'[w] = [record[w] EXCEPT !.due = record[w].due \cup {c}]
            BY <3>1, <4>1
          <5> QED BY <2>0, <4>1, <5>1 DEF Records
        <4>2. CASE ~(w \in Present /\ record[w].age = "expired")
          <5>1. record'[w] = [record[w] EXCEPT !.due = record[w].due \ {c}]
            BY <3>1, <4>2
          <5> QED BY <2>0, <4>2, <5>1 DEF Records
        <4> QED BY <4>1, <4>2
      <3>3. record' \in [Workers -> Records]
        BY <3>1, <3>2
      <3> QED BY <2>1, <3>2, <3>3 DEF StartCleanup, Advances, RegistryInv, TypeOK
    <2>2. CASE ListBatch(c)
      <3>1. Oldest(c) \subseteq Workers
        BY DEF Oldest, Due, Present
      <3>2. process' = process /\ record' = record /\ older' = older
        BY <2>2 DEF ListBatch
      <3>3. cleanup' \in [Cleanups -> [at : {"idle", "listing", "deleting"}, batch : SUBSET Workers]]
        BY <2>2, <3>1 DEF ListBatch, Advances, RegistryInv, TypeOK
      <3> QED BY <2>0, <3>2, <3>3 DEF RegistryInv, TypeOK
    <2>3. CASE DeleteBatch(c)
      <3>1. record' = [w \in Workers |-> IF w \in Deleted(c) THEN Written("absent") ELSE record[w]]
        BY <2>3 DEF DeleteBatch
      <3>2. ASSUME NEW w \in Workers PROVE Kept(w)
        BY <2>0, <3>1, WrittenRecord
      <3>3. record' \in [Workers -> Records]
        BY <3>1, <3>2
      <3>4. older' \in [Workers -> SUBSET Workers] /\ process' = process
        BY <2>3 DEF DeleteBatch, RegistryInv, TypeOK
      <3>5. cleanup' \in [Cleanups -> [at : {"idle", "listing", "deleting"}, batch : SUBSET Workers]]
        BY <2>3 DEF DeleteBatch, Advances, RegistryInv, TypeOK
      <3> QED BY <3>2, <3>3, <3>4, <3>5
    <2>4. CASE Interrupt(c)
      BY <2>0, <2>4 DEF Interrupt, Advances, RegistryInv, TypeOK
    <2> QED BY <2>1, <2>2, <2>3, <2>4 DEF CleanupStep
  <1>2. TypeOK' /\ DueRecordsExpired'
    BY <1>1 DEF RegistryInv, TypeOK, DueRecordsExpired
  <1>3. AbsenceLasts'
    BY <1>1 DEF RegistryInv, AbsenceLasts, Present
  <1>4. EndedWorkersAreNotCounted'
    BY <1>1 DEF RegistryInv, EndedWorkersAreNotCounted
  <1> QED BY <1>2, <1>3, <1>4 DEF RegistryInv

-----------------------------------------------------------------------------
LEMMA RegistryInvariant == Spec => []RegistryInv
  <1>1. Init => RegistryInv
    <2> SUFFICES ASSUME Init PROVE RegistryInv
      OBVIOUS
    <2>1. TypeOK
      BY WrittenRecord DEF Init, TypeOK, Runs, Resting, Places
    <2>2. DueRecordsExpired /\ AbsenceLasts /\ EndedWorkersAreNotCounted
      BY WrittenRecord DEF Init, DueRecordsExpired, AbsenceLasts, EndedWorkersAreNotCounted, Runs
    <2> QED BY <2>1, <2>2 DEF RegistryInv
  <1>2. RegistryInv /\ [Next]_vars => RegistryInv'
    <2> SUFFICES ASSUME RegistryInv, [Next]_vars PROVE RegistryInv'
      OBVIOUS
    <2>1. CASE UNCHANGED vars
      BY <2>1 DEF RegistryInv, TypeOK, DueRecordsExpired, AbsenceLasts, Present,
                  EndedWorkersAreNotCounted, vars
    <2> QED BY <2>1, WorkerStepKeeps, GrowOldKeeps, CleanupStepKeeps DEF Next
  <1> QED BY <1>1, <1>2, PTL DEF Spec

\* Every variable keeps its type, and only expired records are due.
THEOREM RegistryTypes == Spec => [](TypeOK /\ DueRecordsExpired)
  <1>1. RegistryInv => TypeOK /\ DueRecordsExpired
    BY DEF RegistryInv
  <1> QED BY RegistryInvariant, <1>1, PTL

\* run_forever ends with stop, unless the row is gone: whichever way a process
\* ends, no RUNNING record of it is left.
THEOREM EndedWorkersLeaveTheCounts == Spec => []EndedWorkersAreNotCounted
  <1>1. RegistryInv => EndedWorkersAreNotCounted
    BY DEF RegistryInv
  <1> QED BY RegistryInvariant, <1>1, PTL

\* The DELETE of delete_expired repeats the condition of its SELECT, so that a
\* worker that has been heard of since keeps its record.
LEMMA AvailableStaysStep ==
    ASSUME RegistryInv, [Next]_vars, NEW w \in Workers, Available(w)
    PROVE  w \in Present'
  <1>0. record[w].status = "RUNNING" /\ record[w].due = {}
    BY DEF Available, RegistryInv, DueRecordsExpired
  <1>1. ASSUME NEW v \in Workers, WorkerStep(v) PROVE w \in Present'
    <2>1. record' = record \/ (\E status \in {"RUNNING", "STOPPED"} : Write(v, status))
      BY <1>1 DEF WorkerStep, Start, Read, Heartbeat, HeartbeatFails, FinishJob, ShutDown, Stop, Kill
    <2>2. CASE record' = record
      BY <1>0, <2>2 DEF Present
    <2>3. ASSUME NEW status \in {"RUNNING", "STOPPED"}, Write(v, status) PROVE w \in Present'
      <3>1. /\ record'[v] = Written(status)
            /\ \A u \in Workers \ {v} : record'[u] = record[u]
        BY <2>3, WriteRow DEF RegistryInv
      <3>2. Written(status).status = status
        BY WrittenRecord
      <3> QED BY <1>0, <3>1, <3>2 DEF Present
    <2> QED BY <2>1, <2>2, <2>3
  <1>2. ASSUME NEW v \in Workers, GrowOld(v) PROVE w \in Present'
    <2>1. PICK age : record' = [record EXCEPT ![v].age = age]
      BY <1>2 DEF GrowOld
    <2>2. record'[w].status = record[w].status
      BY <2>1 DEF RegistryInv, TypeOK, Records
    <2> QED BY <1>0, <2>2 DEF Present
  <1>3. ASSUME NEW c \in Cleanups, CleanupStep(c) PROVE w \in Present'
    <2>1. record'[w].status = record[w].status
      <3>1. CASE StartCleanup(c)
        BY <3>1 DEF StartCleanup, RegistryInv, TypeOK, Records
      <3>2. CASE DeleteBatch(c)
        <4>1. w \notin Deleted(c)
          BY <1>0 DEF Deleted, Due
        <4> QED BY <3>2, <4>1 DEF DeleteBatch
      <3>3. CASE ListBatch(c) \/ Interrupt(c)
        BY <3>3 DEF ListBatch, Interrupt
      <3> QED BY <1>3, <3>1, <3>2, <3>3 DEF CleanupStep
    <2> QED BY <1>0, <2>1 DEF Present
  <1>4. CASE UNCHANGED vars
    BY <1>0, <1>4 DEF vars, Present
  <1> QED BY <1>1, <1>2, <1>3, <1>4 DEF Next

THEOREM AvailableWorkersKeepTheirRecords == Spec => AvailableWorkersStay
  <1>1. RegistryInv /\ [Next]_vars =>
            [\A w \in Workers : Available(w) => w \in Present']_vars
    BY AvailableStaysStep
  <1> QED BY RegistryInvariant, <1>1, PTL DEF Spec, AvailableWorkersStay
=============================================================================
