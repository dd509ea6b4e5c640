--------------------------- MODULE RunProcessing ---------------------------
(***************************************************************************)
(* One reconciliation from its source files to its published results: the  *)
(* local workflow, which writes a report, and the job processor, which     *)
(* stores results and audit events in the database and may be called again *)
(* for the same run.                                                       *)
(*                                                                         *)
(* input.files has the form of each source's file (Ingestion), and its     *)
(* records hold the values; the details of audit events are left out.      *)
(* Calls for one run follow each other here; JobPipeline lets them         *)
(* overlap.                                                                *)
(***************************************************************************)
EXTENDS ReconciliationEngine, Ingestion, SequencesExt

CONSTANT MaxAttempts    \* max_attempts of the job

ASSUME AttemptsAssumption == MaxAttempts \in Nat \ {0}

VARIABLES
    sink,               \* "report", "unsupported" (extension) or "database"
    overwrite,
    attempt,            \* attempt_count of the job
    at,                 \* the stage of the call
    trail,              \* the events the call has emitted
    report,             \* the report at the output path
    run,                \* status of the run's row
    stored,             \* the audit events of the run
    published           \* the results of the run in the database

processVars == <<sink, overwrite, attempt, at, trail, report, run, stored, published>>
vars == <<engineVars, processVars>>

Stages == {"idle", "called", "initialization", "erp_ingestion", "gateway_ingestion",
           "reconciliation", "export", "finalizing", "over"}
Events == {"RUN_STARTED", "BANK_INGESTION_COMPLETED", "ERP_INGESTION_COMPLETED",
           "GATEWAY_INGESTION_COMPLETED", "GATEWAY_INGESTION_SKIPPED",
           "RECONCILIATION_COMPLETED", "EXPORT_COMPLETED", "RUN_SUCCEEDED", "RUN_FAILED"}

-----------------------------------------------------------------------------
(* Ingestion: one bad row refuses the file.                                *)

BankValid(r) == r.amount > 0 /\ r.reversal # "unnamed"

LineValid(l) ==
    /\ l.number >= 1 /\ l.quantity > 0
    /\ \A n \in {l.price, l.net, l.tax, l.gross, l.discount, l.charge} : n >= 0
    /\ l.net = l.quantity * l.price - l.discount + l.charge
    /\ l.gross = l.net + l.tax
InvoiceValid(r) ==
    /\ \A n \in {r.subtotal, r.discount, r.charge, r.tax, r.total, r.settled, r.due} : n >= 0
    /\ r.lines # <<>> /\ UniqueIds(r.lines)
    /\ r.subtotal = SumFunction([i \in DOMAIN r.lines |-> r.lines[i].net])
    /\ r.tax = SumFunction([i \in DOMAIN r.lines |-> r.lines[i].tax])
    /\ r.total = r.subtotal - r.discount + r.charge + r.tax
    /\ r.due = r.total - r.settled

GatewayValid(r) ==
    /\ r.gross >= 0 /\ r.deductions >= 0
    /\ r.net = r.gross - r.deductions + r.adjustment
    /\ r.currency = r.payout \/ r.rated

\* The processor passes no mapping of columns.
Mapping(source) == IF sink = "database" THEN <<>> ELSE input.mappings[source]
FileLoads(source) == Loads(source, Mapping(source), input.files[source])

BanksLoad == FileLoads("bank") /\ \A b \in Banks : BankValid(input.banks[b])
InvoicesLoad ==
    /\ FileLoads("erp")
    /\ \A v \in Invoices :
          /\ \A i \in DOMAIN input.invoices[v].lines : LineValid(input.invoices[v].lines[i])
          /\ InvoiceValid(input.invoices[v])
GatewaysLoad == FileLoads("gateway") /\ \A g \in Gateways : GatewayValid(input.gateways[g])

-----------------------------------------------------------------------------
Init ==
    /\ EngineInit
    /\ sink \in {"report", "unsupported", "database"}
    /\ overwrite \in IF sink = "report" THEN BOOLEAN ELSE {FALSE}
    /\ report \in IF sink = "report" THEN {"absent", "previous"} ELSE {"absent"}
    /\ attempt = 1 /\ at = "idle" /\ run = "PENDING"
    /\ trail = <<>> /\ stored = <<>> /\ published = <<>>

Emits(event) == trail' = Append(trail, event)
Outside == UNCHANGED <<sink, overwrite, attempt, report, run, stored, published>>
Proceeds(from, to) == at = from /\ at' = to /\ Outside /\ UNCHANGED engineVars

StartWorkflow == sink # "database" /\ Proceeds("idle", "initialization") /\ Emits("RUN_STARTED")

\* The first transaction of the processor.  A call for a run that has ended
\* returns or raises before it does anything else.
CallProcessor ==
    /\ sink = "database" /\ at = "idle" /\ trail' = <<>>
    /\ \/ /\ run \in {"SUCCEEDED", "FAILED"}
          /\ at' = "over" /\ UNCHANGED <<run, engineVars>>
       \/ /\ run \in {"PENDING", "RUNNING"}
          /\ run' = "RUNNING" /\ at' = "called"
          /\ rule' = 0 /\ todo' = {} /\ results' = <<>>
          /\ usedBanks' = {} /\ usedInvoices' = {} /\ usedGateways' = {}
          /\ UNCHANGED input
    /\ UNCHANGED <<sink, overwrite, attempt, report, stored, published>>

StartTrail ==
    /\ ~Absent(input.files["bank"]) /\ ~Absent(input.files["erp"])
    /\ Proceeds("called", "initialization") /\ Emits("RUN_STARTED")

LoadBanks ==
    /\ sink # "unsupported" /\ BanksLoad
    /\ Proceeds("initialization", "erp_ingestion") /\ Emits("BANK_INGESTION_COMPLETED")
LoadInvoices ==
    /\ InvoicesLoad
    /\ Proceeds("erp_ingestion", "gateway_ingestion") /\ Emits("ERP_INGESTION_COMPLETED")
LoadGateways ==
    /\ Proceeds("gateway_ingestion", "reconciliation")
    /\ \/ GatewaysLoad /\ Emits("GATEWAY_INGESTION_COMPLETED")
       \/ Absent(input.files["gateway"]) /\ Emits("GATEWAY_INGESTION_SKIPPED")

Reconcile == at = "reconciliation" /\ EngineNext /\ UNCHANGED processVars

CompleteReconciliation ==
    rule = Over /\ Proceeds("reconciliation", "export") /\ Emits("RECONCILIATION_COMPLETED")

-----------------------------------------------------------------------------
(* The local workflow.                                                     *)

MayWrite == report # "previous" \/ overwrite

Export ==
    /\ sink = "report" /\ at = "export" /\ MayWrite
    /\ report' = "complete" /\ at' = "over"
    /\ trail' = trail \o <<"EXPORT_COMPLETED", "RUN_SUCCEEDED">>
    /\ UNCHANGED <<sink, overwrite, attempt, run, stored, published, engineVars>>

\* The export may fail before it opens the file and while it writes.
ExportFails ==
    /\ sink = "report" /\ at = "export"
    /\ report' \in {report} \cup (IF MayWrite THEN {"partial"} ELSE {})
    /\ at' = "over" /\ Emits("RUN_FAILED")
    /\ UNCHANGED <<sink, overwrite, attempt, run, stored, published, engineVars>>

WorkflowFails ==
    /\ sink # "database"
    /\ \E stage \in {"initialization", "erp_ingestion", "gateway_ingestion", "reconciliation"} :
          Proceeds(stage, "over")
    /\ at = "reconciliation" => rule = 0 /\ ~UniqueSourceIds
    /\ Emits("RUN_FAILED")

-----------------------------------------------------------------------------
(* The job processor.                                                      *)

\* The sequence number follows the last one of the run, whose row is locked.
AppendEach(events) == stored \o events

\* succeed() is called before the last checkpoint and the last transaction.
Succeed == sink = "database" /\ Proceeds("export", "finalizing") /\ Emits("RUN_SUCCEEDED")

Store ==
    /\ at = "finalizing" /\ run = "RUNNING"
    /\ published' = published \o results
    /\ stored' = AppendEach(trail)
    /\ run' = "SUCCEEDED" /\ at' = "over"
    /\ UNCHANGED <<sink, overwrite, attempt, trail, report, engineVars>>

\* Mutant: the event of a success that was not stored is kept.
AllEvents(events) == events
Reportable(events) ==
    LET kept[n \in 0..Len(events)] ==
            IF n = 0 THEN <<>>
            ELSE IF events[n] = "RUN_SUCCEEDED" THEN kept[n - 1]
            ELSE Append(kept[n - 1], events[n])
    IN  kept[Len(events)]
Failed == IF trail = <<>> THEN <<>> ELSE Append(trail, "RUN_FAILED")

\* Mutant: the attempts of the job are not limited.
Unlimited == TRUE
AttemptsLeft == attempt < MaxAttempts

\* A cancellation ends the run, any other failure only on the last attempt;
\* checkpoints precede every stage, and nothing but a duplicate id fails in
\* the engine.
Raises(error) ==
    /\ sink = "database" /\ at \notin {"idle", "over"}
    /\ at = "called" => error = "Exception"
    /\ at = "reconciliation" => rule = 0 /\ (error = "Exception" => ~UniqueSourceIds)
    /\ at' = "over"
    /\ \/ /\ error = "JobCancelled" \/ ~AttemptsLeft
          /\ run = "RUNNING" /\ run' = "FAILED"
          /\ trail' = Failed
          /\ stored' = AppendEach(Reportable(Failed))
       \/ /\ error # "JobCancelled" /\ AttemptsLeft
          /\ UNCHANGED <<trail, run, stored>>
    /\ UNCHANGED <<sink, overwrite, attempt, report, published, engineVars>>

Crash ==
    /\ sink = "database" /\ at \notin {"idle", "over"}
    /\ at = "reconciliation" => rule = 0
    /\ at' = "over" /\ UNCHANGED <<trail, engineVars>> /\ Outside

\* The job is due again: it was retried, or its worker died with the call.
NextAttempt ==
    /\ sink = "database" /\ at = "over" /\ AttemptsLeft
    /\ at' = "idle" /\ attempt' = attempt + 1
    /\ UNCHANGED <<sink, overwrite, trail, report, run, stored, published, engineVars>>

Workflow == StartWorkflow \/ Export \/ ExportFails \/ WorkflowFails
Processor ==
    \/ CallProcessor \/ StartTrail \/ Succeed \/ Store \/ Crash \/ NextAttempt
    \/ \E error \in {"JobCancelled", "JobTimedOut", "Exception"} : Raises(error)
Next ==
    \/ LoadBanks \/ LoadInvoices \/ LoadGateways
    \/ Reconcile \/ CompleteReconciliation
    \/ Workflow \/ Processor

Spec == Init /\ [][Next]_vars

-----------------------------------------------------------------------------
(* Properties.                                                             *)

\* The type invariant of a call and of the engine in it.
TypeOK ==
    /\ EngineTypes
    /\ sink \in {"report", "unsupported", "database"}
    /\ overwrite \in BOOLEAN
    /\ attempt \in 1..MaxAttempts
    /\ at \in Stages
    /\ trail \in Seq(Events)
    /\ report \in {"absent", "previous", "partial", "complete"}
    /\ run \in {"PENDING", "RUNNING", "SUCCEEDED", "FAILED"}
    /\ stored \in Seq(Events)
    /\ published \in Seq(Results)

Says(events, event) == \E i \in DOMAIN events : events[i] = event
Ingested(events) ==
    /\ Says(events, "BANK_INGESTION_COMPLETED") /\ Says(events, "ERP_INGESTION_COMPLETED")
    /\ Says(events, "RECONCILIATION_COMPLETED")

\* "Export happens only after every input has loaded and reconciliation
\* succeeds" (workflow.py:59): a report or stored results hold what the engine
\* said at its end, and neither the trail nor the stored events claim anything
\* that did not happen, although RUN_SUCCEEDED is emitted before the results
\* are stored, a cancellation may still come, and calls are repeated.
PublishedOutcomesAreTrue ==
    /\ report \in {"partial", "complete"} \/ run = "SUCCEEDED" => rule = Over
    /\ report \in {"partial", "complete"} => Ingested(trail)
    /\ sink = "report" => (Says(trail, "RUN_SUCCEEDED") <=> report = "complete")
    /\ run = "SUCCEEDED" => Ingested(stored) /\ Last(stored) = "RUN_SUCCEEDED"
    /\ IF run = "SUCCEEDED" THEN published = results ELSE published = <<>>
    /\ Says(stored, "RUN_SUCCEEDED") => run = "SUCCEEDED"
    /\ Says(stored, "RUN_FAILED") => run = "FAILED" /\ Last(stored) = "RUN_FAILED"
    /\ stored # <<>> => run \in {"SUCCEEDED", "FAILED"}
    /\ \A i \in DOMAIN stored : stored[i] = "RUN_STARTED" <=> i = 1
=============================================================================
