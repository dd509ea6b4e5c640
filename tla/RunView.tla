------------------------------- MODULE RunView -------------------------------
(***************************************************************************)
(* What the handlers of source files see of one run and its job: whether   *)
(* the run may still be changed, whether a job is waiting or working, and  *)
(* whether some worker has claimed it and may yet start the run.           *)
(*                                                                         *)
(* JobPipeline implements this for each run, and FileStore lets every step *)
(* of it happen whenever the row lock of the run allows it, so that what   *)
(* FileStore shows holds beside the whole pipeline.                        *)
(***************************************************************************)
VARIABLES
    status,     \* a run that SUCCEEDED is to its files what a RUNNING one is
    job,        \* no job row, one not yet ended, FAILED, or ended
    claimed     \* a worker has claimed the job and not begun the run

viewVars == <<status, job, claimed>>

Init == status = "PENDING" /\ job = "none" /\ claimed = FALSE

Execute ==
    /\ status = "PENDING" /\ job = "none"
    /\ job' = "active"
    /\ UNCHANGED <<status, claimed>>

Claim ==
    /\ job = "active"
    /\ claimed' = TRUE
    /\ UNCHANGED <<status, job>>

\* A worker starts the run, even if the job was cancelled or recovered from it
\* in the meantime.  Another worker may have claimed the job since.
Begin ==
    /\ claimed
    /\ claimed' \in BOOLEAN
    /\ status' = IF status = "PENDING" THEN "RUNNING" ELSE status
    /\ UNCHANGED job

\* The worker is killed, or its first transaction fails.
LoseClaim ==
    /\ claimed
    /\ claimed' = FALSE
    /\ UNCHANGED <<status, job>>

Fail ==
    /\ status = "RUNNING"
    /\ status' = "FAILED"
    /\ UNCHANGED <<job, claimed>>

\* Completed, cancelled, or recovered for good.
End ==
    /\ job = "active"
    /\ job' \in {"ended", "failed"}
    /\ UNCHANGED <<status, claimed>>

Retry ==
    /\ job = "failed" /\ status = "FAILED"
    /\ job' = "active"
    /\ status' = "PENDING"
    /\ UNCHANGED claimed

Expire ==
    /\ job \in {"ended", "failed"}
    /\ job' = "none"
    /\ UNCHANGED <<status, claimed>>

Next == Execute \/ Claim \/ Begin \/ LoseClaim \/ Fail \/ End \/ Retry \/ Expire

Spec == Init /\ [][Next]_viewVars
=============================================================================
