------------------------ MODULE ReconciliationEngine ------------------------
(***************************************************************************)
(* The reconciliation engine: bank transactions, invoices and gateway      *)
(* entries are matched by seven rules in a fixed order, each of which goes *)
(* through its records in order and takes what it matches out of the reach *)
(* of the later ones; what is left is reported for review.                 *)
(*                                                                         *)
(* A record is its position in the sorted input, which is one of Inputs.   *)
(* input.refers is _mentions and _within_days of a bank transaction and an *)
(* invoice, input.pays the bank reference and the dates of a bank          *)
(* transaction and a gateway entry: texts and dates are used in no other   *)
(* way.  The amounts are whole numbers of the smallest unit; settlement    *)
(* ids and fingerprints are numbers, two of which are equal or not.        *)
(***************************************************************************)
EXTENDS Integers, Sequences, FiniteSetsExt

CONSTANTS
    Inputs,             \* the record files a run may be given
    NoReference,        \* what an optional reference is when it is not given
    AmountTolerance, MaximumGroupSize

\* What the rules and the checks of the domain models look at in a record.
BankTransactions ==
    [id : Nat, amount : Int, currency : STRING, fingerprint : Nat,
     status : {"BOOKED", "PENDING", "REVERSED", "CANCELLED"},
     direction : {"CREDIT", "DEBIT"}, reversal : {"no", "other", "unnamed"}]
InvoiceLines ==
    [id : Nat, number : Int, quantity : Int, price : Int, discount : Int, charge : Int,
     net : Int, tax : Int, gross : Int]
ERPInvoices ==
    [lines : Seq(InvoiceLines), subtotal : Int, discount : Int, charge : Int, tax : Int,
     total : Int, settled : Int, due : Int, currency : STRING,
     references : SUBSET (STRING \cup {NoReference})]
GatewayEntries ==
    [id : Nat, settlement : Nat, gross : Int, deductions : Int, adjustment : Int, net : Int,
     currency : STRING, payout : STRING, rated : BOOLEAN, reference : STRING \cup {NoReference}]

ASSUME InputsAssumption ==
    /\ \A x \in Inputs :
          DOMAIN x.banks \cup DOMAIN x.invoices \cup DOMAIN x.gateways \subseteq Nat
    /\ \A x \in Inputs :
          /\ x.banks \in Seq(BankTransactions)
          /\ x.invoices \in Seq(ERPInvoices)
          /\ x.gateways \in Seq(GatewayEntries)

ConfigValid(tolerance, size) == tolerance >= 0 /\ size \in 2..10
ASSUME ConfigAssumption ==
    /\ AmountTolerance \in Int /\ MaximumGroupSize \in Int
    /\ ConfigValid(AmountTolerance, MaximumGroupSize)

VARIABLES
    input,
    rule,               \* the rule that runs; 0 before, Over after the rules
    todo,               \* what the rule still has to look at
    usedBanks, usedInvoices, usedGateways,
    results

engineVars == <<input, rule, todo, usedBanks, usedInvoices, usedGateways, results>>
used == <<usedBanks, usedInvoices, usedGateways>>

Over == 10
Banks == DOMAIN input.banks
Invoices == DOMAIN input.invoices
Gateways == DOMAIN input.gateways
FreeBanks == Banks \ usedBanks
FreeInvoices == Invoices \ usedInvoices
FreeGateways == Gateways \ usedGateways

Statuses == {"DUPLICATE", "EXACT_MATCH", "SETTLEMENT_MATCH", "TOLERANCE_MATCH",
             "MANY_TO_ONE_MATCH", "ONE_TO_MANY_MATCH", "REQUIRES_REVIEW"}
Result(status, B, V, G) == [status |-> status, banks |-> B, invoices |-> V, gateways |-> G]

Eligible(b) ==
    /\ input.banks[b].status = "BOOKED"
    /\ input.banks[b].direction = "CREDIT"
    /\ input.banks[b].reversal = "no"
Amount(b) == input.banks[b].amount
Due(v) == input.invoices[v].due
Refers(b, v) == <<b, v>> \in input.refers

\* Entries of one group share the fingerprint.
Twins(b) == {c \in Banks : input.banks[c].fingerprint = input.banks[b].fingerprint}
Settlement(s) == {g \in Gateways : input.gateways[g].settlement = s}
Settlements == {input.gateways[g].settlement : g \in Gateways}
Lead(G) == input.gateways[Min(G)]

BankSum(B) == MapThenSumSet(LAMBDA b : input.banks[b].amount, B)
DueSum(V) == MapThenSumSet(LAMBDA v : input.invoices[v].due, V)
Net(G) == MapThenSumSet(LAMBDA g : input.gateways[g].net, G)
Gross(G) == MapThenSumSet(LAMBDA g : input.gateways[g].gross, G)

UniqueIds(file) == \A i, j \in DOMAIN file : file[i].id = file[j].id => i = j
UniqueSourceIds == UniqueIds(input.banks) /\ UniqueIds(input.gateways)

-----------------------------------------------------------------------------
(* What the rules look for.                                                *)

\* Free bank transactions that may pay the invoice, whatever their amount.
Payers(v) ==
    {b \in FreeBanks : /\ Eligible(b) /\ Refers(b, v)
                       /\ input.banks[b].currency = input.invoices[v].currency}
Payable(b) ==
    {v \in FreeInvoices : /\ Refers(b, v)
                          /\ input.banks[b].currency = input.invoices[v].currency}

\* Mutant: the exact rule accepts what the tolerance rule accepts.
ExactOrNear(v) == {b \in Payers(v) : Amount(b) - Due(v) \in -AmountTolerance..AmountTolerance}
Exact(v) == {b \in Payers(v) : Amount(b) = Due(v)}
Near(v) ==
    {b \in Payers(v) : /\ Amount(b) # Due(v)
                       /\ Amount(b) - Due(v) \in -AmountTolerance..AmountTolerance}

\* Mutant: the bank reference of the payout is not compared.
AnyPayout(G) ==
    {b \in FreeBanks : /\ Eligible(b) /\ input.banks[b].currency = Lead(G).payout}
Payouts(G) ==
    {b \in FreeBanks : /\ Eligible(b) /\ input.banks[b].currency = Lead(G).payout
                       /\ Amount(b) = Net(G)
                       /\ \E g \in G : <<b, g>> \in input.pays}

\* The entry's reference may be None, and so may the invoice's.
Referenced(G) ==
    {v \in FreeInvoices : \E g \in G : input.gateways[g].reference \in input.invoices[v].references}
Funded(G) ==
    {v \in Referenced(G) : Due(v) = Gross(G) /\ input.invoices[v].currency = Lead(G).currency}

\* The first size for which one group of that size, and no other, has the sum.
Groups(S) == {T \in SUBSET S : Cardinality(T) \in 2..MaximumGroupSize}
OnlyOne(T, matches) == \A U \in matches : Cardinality(U) = Cardinality(T) => U = T
Smallest(matches) ==
    {T \in matches : /\ OnlyOne(T, matches)
                     /\ \A U \in matches : OnlyOne(U, matches) => Cardinality(T) <= Cardinality(U)}
InvoiceGroups(b) == Smallest({V \in Groups(Payable(b)) : DueSum(V) = Amount(b)})
BankGroups(v) == Smallest({B \in Groups(Payers(v)) : BankSum(B) = Due(v)})

-----------------------------------------------------------------------------
(* The rules.                                                              *)

\* What rule r goes through; a rule that starts with a used record skips it.
Items(r) ==
    CASE r = 1 -> {b \in Banks : b = Min(Twins(b)) /\ Twins(b) # {b}}
      [] r \in {2, 4, 6, 9} -> FreeInvoices
      [] r = 3 -> Settlements
      [] r = 5 -> {b \in FreeBanks : Eligible(b)}
      [] r = 7 -> {s \in Settlements : Settlement(s) \cap FreeGateways # {}}
      [] r = 8 -> FreeBanks
      [] OTHER -> {}

EngineInit ==
    /\ input \in Inputs
    /\ rule = 0 /\ todo = {} /\ results = <<>>
    /\ usedBanks = {} /\ usedInvoices = {} /\ usedGateways = {}

\* reconcile refuses an input that gives a record twice.
NextRule ==
    /\ rule < Over /\ todo = {} /\ (rule = 0 => UniqueSourceIds)
    /\ rule' = rule + 1
    /\ todo' = Items(rule + 1)
    /\ UNCHANGED <<input, used, results>>

\* Groups of duplicates are ordered by source id, the rest by position.
At(r, i) == rule = r /\ i \in todo /\ (r = 1 \/ i = Min(todo))

Shows(i, status, B, V, G) ==
    /\ results' = Append(results, Result(status, B, V, G))
    /\ todo' = todo \ {i}
    /\ UNCHANGED <<input, rule>>

\* Mutant: the invoices of a match stay free.
TakesNoInvoice(i, status, B, V, G) ==
    /\ Shows(i, status, B, V, G)
    /\ usedBanks' = usedBanks \cup B
    /\ usedGateways' = usedGateways \cup G
    /\ UNCHANGED usedInvoices
Takes(i, status, B, V, G) ==
    /\ Shows(i, status, B, V, G)
    /\ usedBanks' = usedBanks \cup B
    /\ usedInvoices' = usedInvoices \cup V
    /\ usedGateways' = usedGateways \cup G

Passes(i) == todo' = todo \ {i} /\ UNCHANGED <<input, rule, used, results>>

\* Mutant: only the first entry of the group is quarantined.
QuarantineFirst(b) ==
    At(1, b) /\ Takes(b, "DUPLICATE", {b}, {v \in FreeInvoices : Refers(b, v)}, {})
Duplicates(b) ==
    /\ At(1, b)
    /\ Takes(b, "DUPLICATE", Twins(b),
             {v \in FreeInvoices : \E c \in Twins(b) : Refers(c, v)}, {})

ExactMatch(v) ==
    /\ At(2, v)
    /\ \/ \E b \in Exact(v) : Exact(v) = {b} /\ Takes(v, "EXACT_MATCH", {b}, {v}, {})
       \/ (\A b \in Exact(v) : Exact(v) # {b}) /\ Passes(v)

SettlementMatch(s) ==
    LET G == Settlement(s) IN
    /\ At(3, s)
    /\ \/ \E b \in Payouts(G) :
             Payouts(G) = {b} /\ Takes(s, "SETTLEMENT_MATCH", {b}, Funded(G), G)
       \/ (\A b \in Payouts(G) : Payouts(G) # {b}) /\ Passes(s)

ToleranceMatch(v) ==
    /\ At(4, v)
    /\ \/ \E b \in Near(v) : Near(v) = {b} /\ Takes(v, "TOLERANCE_MATCH", {b}, {v}, {})
       \/ (\A b \in Near(v) : Near(v) # {b}) /\ Passes(v)

ManyToOne(b) ==
    /\ At(5, b)
    /\ \/ \E V \in InvoiceGroups(b) : Takes(b, "MANY_TO_ONE_MATCH", {b}, V, {})
       \/ InvoiceGroups(b) = {} /\ Passes(b)

OneToMany(v) ==
    /\ At(6, v)
    /\ \/ \E B \in BankGroups(v) : Takes(v, "ONE_TO_MANY_MATCH", B, {v}, {})
       \/ BankGroups(v) = {} /\ Passes(v)

AwaitsSettlement(s) ==
    LET G == Settlement(s) \cap FreeGateways IN
    At(7, s) /\ Takes(s, "REQUIRES_REVIEW", {}, Referenced(G), G)

UnmatchedBank(b) == At(8, b) /\ Shows(b, "REQUIRES_REVIEW", {b}, {}, {}) /\ UNCHANGED used
UnmatchedInvoice(v) == At(9, v) /\ Shows(v, "REQUIRES_REVIEW", {}, {v}, {}) /\ UNCHANGED used

ByBank == \E b \in Banks : Duplicates(b) \/ ManyToOne(b) \/ UnmatchedBank(b)
ByInvoice ==
    \E v \in Invoices : ExactMatch(v) \/ ToleranceMatch(v) \/ OneToMany(v) \/ UnmatchedInvoice(v)
BySettlement == \E s \in Settlements : SettlementMatch(s) \/ AwaitsSettlement(s)
EngineNext == NextRule \/ ByBank \/ ByInvoice \/ BySettlement

EngineSpec == EngineInit /\ [][EngineNext]_engineVars

-----------------------------------------------------------------------------
(* Properties.                                                             *)

Results ==
    [status : Statuses, banks : SUBSET Banks, invoices : SUBSET Invoices,
     gateways : SUBSET Gateways]

EngineTypes ==
    /\ rule \in 0..Over
    /\ todo \subseteq CASE rule \in {1, 5, 8} -> Banks
                        [] rule \in {3, 7} -> Settlements
                        [] OTHER -> Invoices
    /\ usedBanks \subseteq Banks
    /\ usedInvoices \subseteq Invoices
    /\ usedGateways \subseteq Gateways
    /\ results \in Seq(Results)

BankReports(b) == {i \in DOMAIN results : b \in results[i].banks}
InvoiceReports(v) == {i \in DOMAIN results : v \in results[i].invoices}
GatewayReports(g) == {i \in DOMAIN results : g \in results[i].gateways}
AtMostOne(S) == \A i, j \in S : i = j

\* Over nine passes that share three sets of used records, no record is ever in
\* two results, and when reconcile returns every record is in one: "anything
\* left remains visible rather than silently disappearing" (engine.py:179).
ReportedOnce ==
    /\ \A b \in Banks : AtMostOne(BankReports(b)) /\ (rule = Over => BankReports(b) # {})
    /\ \A v \in Invoices : AtMostOne(InvoiceReports(v)) /\ (rule = Over => InvoiceReports(v) # {})
    /\ \A g \in Gateways : AtMostOne(GatewayReports(g)) /\ (rule = Over => GatewayReports(g) # {})

\* A result that needs no review is money that arrived: booked incoming
\* payments that refer to what they pay, and sums that agree but for the
\* tolerance, whichever of the rules made the match.
Balanced(r) ==
    /\ r.banks # {} /\ \A b \in r.banks : Eligible(b)
    /\ \/ /\ r.status = "SETTLEMENT_MATCH"
          /\ BankSum(r.banks) = Net(r.gateways)
          /\ \A b \in r.banks : \E g \in r.gateways : <<b, g>> \in input.pays
          /\ \A v \in r.invoices : Due(v) = Gross(r.gateways)
       \/ /\ r.status # "SETTLEMENT_MATCH"
          /\ \A b \in r.banks, v \in r.invoices :
                Refers(b, v) /\ input.banks[b].currency = input.invoices[v].currency
          /\ BankSum(r.banks) - DueSum(r.invoices) \in -AmountTolerance..AmountTolerance
          /\ r.status # "TOLERANCE_MATCH" => BankSum(r.banks) = DueSum(r.invoices)
MatchesBalance ==
    \A i \in DOMAIN results :
        results[i].status \in {"DUPLICATE", "REQUIRES_REVIEW"} \/ Balanced(results[i])

\* A bank entry that shares its fingerprint with another one is never counted
\* as a payment: it appears with all its twins, and for review.
DuplicatesStayOut ==
    \A i \in DOMAIN results : \A b \in results[i].banks :
        Twins(b) # {b} => results[i].status = "DUPLICATE" /\ results[i].banks = Twins(b)

\* Which pairs only one payment and one invoice can form is decided by the
\* input: neither can find another partner, and no duplicate takes them.
Pair(b, v) ==
    /\ Eligible(b) /\ Refers(b, v) /\ Amount(b) = Due(v)
    /\ input.banks[b].currency = input.invoices[v].currency
Clear(b, v) ==
    /\ Pair(b, v)
    /\ \A c \in Banks : Pair(c, v) => c = b
    /\ \A w \in Invoices : Pair(b, w) => w = v
    /\ Twins(b) = {b}
    /\ \A c \in Banks : Refers(c, v) => Twins(c) = {c}

\* An exact payment of one invoice is matched with it whatever else the input
\* holds: no later, looser rule and no other record gets hold of either.
ClearPaymentsAreMatched ==
    rule > 2 =>
        \A b \in Banks, v \in Invoices :
            Clear(b, v) => \E i \in DOMAIN results : results[i] = Result("EXACT_MATCH", {b}, {v}, {})

\* A gateway result is linked to an invoice because one of its entries names it:
\* invoice_reference is the "ERP invoice reference in gateway metadata"
\* (data/sample/README.md:234).  Refuted: an entry without a reference equals
\* an invoice without a payment reference.
LinkedInvoicesAreReferenced ==
    \A i \in DOMAIN results : results[i].gateways # {} =>
        \A v \in results[i].invoices : \E g \in results[i].gateways :
            /\ input.gateways[g].reference # NoReference
            /\ input.gateways[g].reference \in input.invoices[v].references
=============================================================================
