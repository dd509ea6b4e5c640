---------------------------- MODULE RunLifecycle ----------------------------
(***************************************************************************)
(* What a reconciliation run promises to the clients of the API, whatever  *)
(* workers, retries, cancellations and crashes go on behind it.            *)
(*                                                                         *)
(* A run is created PENDING, is started at most once at a time, and ends   *)
(* SUCCEEDED or FAILED.  Its results appear in one step, the one that      *)
(* makes it SUCCEEDED, and are never written again.  A FAILED run may be   *)
(* put back to PENDING (a manual retry) as long as it has no results.      *)
(*                                                                         *)
(* The status machine is ReconciliationRunRepository._TRANSITIONS; the     *)
(* extra edge FAILED -> PENDING is BackgroundJobRepository.retry_failed.   *)
(***************************************************************************)
EXTENDS Naturals

CONSTANT Runs              \* the identifiers of reconciliation runs

VARIABLES
    run,                   \* run[r]: the status column of the run
    results                \* results[r]: how many result sets are stored

lifecycleVars == <<run, results>>

RunStatuses == {"ABSENT", "PENDING", "RUNNING", "SUCCEEDED", "FAILED"}

Init ==
    /\ run = [r \in Runs |-> "ABSENT"]
    /\ results = [r \in Runs |-> 0]

Create(r) ==
    /\ run[r] = "ABSENT"
    /\ run' = [run EXCEPT ![r] = "PENDING"]
    /\ UNCHANGED results

Start(r) ==
    /\ run[r] = "PENDING"
    /\ run' = [run EXCEPT ![r] = "RUNNING"]
    /\ UNCHANGED results

Succeed(r) ==
    /\ run[r] = "RUNNING"
    /\ results[r] = 0
    /\ run' = [run EXCEPT ![r] = "SUCCEEDED"]
    /\ results' = [results EXCEPT ![r] = 1]

Fail(r) ==
    /\ run[r] = "RUNNING"
    /\ run' = [run EXCEPT ![r] = "FAILED"]
    /\ UNCHANGED results

Reopen(r) ==
    /\ run[r] = "FAILED"
    /\ results[r] = 0
    /\ run' = [run EXCEPT ![r] = "PENDING"]
    /\ UNCHANGED results

Next == \E r \in Runs : Create(r) \/ Start(r) \/ Succeed(r) \/ Fail(r) \/ Reopen(r)

Spec == Init /\ [][Next]_lifecycleVars
=============================================================================
