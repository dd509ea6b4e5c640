------------------------ MODULE RunProcessingProofs ------------------------
(***************************************************************************)
(* For any input files, in any number of attempts: no record is in two     *)
(* results and none is lost, duplicates are never matched, a clear payment *)
(* is matched exactly, every match balances, and what a call publishes     *)
(* happened.                                                               *)
(*                                                                         *)
(* The argument: up to the seventh rule a record is in a result exactly    *)
(* when it is used, and the leftover rules report what is not used (the    *)
(* accounts); what a rule has still to look at is free (Waiting); after    *)
(* the first rule no free bank entry has a twin (Quarantined); a clear     *)
(* pair is free until its invoice is looked at (ClearOnesWait).  A match   *)
(* is balanced when it is added and never changed (BalanceInv).  While a   *)
(* call runs, its trail tells how far it has come (TrailTellsStage) and    *)
(* nothing is published (ReportWaits, RowWaits).                           *)
(***************************************************************************)
EXTENDS RunProcessing, WellFoundedInduction, FiniteSetTheorems, SequenceTheorems,
        TLAPS

BanksAccounted ==
    /\ \A b \in Banks : AtMostOne(BankReports(b))
    /\ \A b \in usedBanks : BankReports(b) # {}
    /\ \A b \in FreeBanks :
          BankReports(b) # {} <=> (rule > 8 \/ (rule = 8 /\ b \notin todo))
InvoicesAccounted ==
    /\ \A v \in Invoices : AtMostOne(InvoiceReports(v))
    /\ \A v \in usedInvoices : InvoiceReports(v) # {}
    /\ \A v \in FreeInvoices :
          InvoiceReports(v) # {} <=> (rule > 9 \/ (rule = 9 /\ v \notin todo))
GatewaysAccounted ==
    /\ \A g \in Gateways : AtMostOne(GatewayReports(g))
    /\ \A g \in Gateways : GatewayReports(g) # {} <=> g \in usedGateways
    /\ rule = 7 => \A g \in FreeGateways : input.gateways[g].settlement \in todo
    /\ rule > 7 => FreeGateways = {}

Waiting ==
    /\ rule = 0 => usedBanks = {} /\ usedInvoices = {} /\ todo = {}
    /\ rule <= 2 => usedGateways = {}
    /\ rule = 1 => \A c \in todo :
          Twins(c) # {c} /\ c = Min(Twins(c)) /\ Twins(c) \subseteq FreeBanks
    /\ rule \in {2, 4, 6, 9} => todo \subseteq FreeInvoices
    /\ rule = 3 => \A s \in todo : Settlement(s) \subseteq FreeGateways
    /\ rule \in {5, 8} => todo \subseteq FreeBanks

Quarantined ==
    /\ rule = 1 => \A b \in FreeBanks : Twins(b) # {b} => Min(Twins(b)) \in todo
    /\ rule > 1 => \A b \in FreeBanks : Twins(b) = {b}

Matched(b, v) == \E i \in DOMAIN results : results[i] = Result("EXACT_MATCH", {b}, {v}, {})
ClearOnesWait ==
    \A b \in Banks, v \in Invoices : Clear(b, v) =>
        /\ rule <= 1 => b \in FreeBanks /\ v \in FreeInvoices
        /\ rule = 2 => (v \in todo /\ b \in FreeBanks) \/ Matched(b, v)
        /\ rule > 2 => Matched(b, v)

Accounts == BanksAccounted /\ InvoicesAccounted /\ GatewaysAccounted
EInv ==
    /\ input \in Inputs /\ EngineTypes
    /\ Accounts /\ Waiting /\ Quarantined /\ DuplicatesStayOut /\ ClearOnesWait

-----------------------------------------------------------------------------
\* A set of positions that is not empty has a least element.
LEMMA LeastPosition ==
    ASSUME NEW S \in SUBSET Nat, S # {}
    PROVE  Min(S) \in S /\ \A y \in S : Min(S) <= y
  <1>1. \E x \in S : \A y \in S : ~(<<y, x>> \in OpToRel(<, Nat))
    BY NatLessThanWellFounded, WFMin
  <1>2. PICK x \in S : \A y \in S : ~(<<y, x>> \in OpToRel(<, Nat))
    BY <1>1
  <1>3. ASSUME NEW y \in S PROVE x <= y
    <2>1. <<y, x>> \in OpToRel(<, Nat) <=> y < x
      BY Zenon DEF OpToRel
    <2>2. ~(y < x)
      BY <2>1, <1>2, Zenon
    <2>3. x \in Nat /\ y \in Nat
      OBVIOUS
    <2> QED BY ONLY <2>2, <2>3
  <1> QED BY <1>2, <1>3 DEF Min

LEMMA ResultIsARecord ==
    ASSUME NEW st \in Statuses, NEW B \in SUBSET Banks, NEW V \in SUBSET Invoices,
           NEW G \in SUBSET Gateways
    PROVE  /\ Result(st, B, V, G) \in Results
           /\ Result(st, B, V, G).status = st
           /\ Result(st, B, V, G).banks = B
           /\ Result(st, B, V, G).invoices = V
           /\ Result(st, B, V, G).gateways = G
  BY DEF Result, Results

OneMore(st, B, V, G) ==
    /\ results' \in Seq(Results) /\ Results' = Results
    /\ DOMAIN results' = DOMAIN results \cup {Len(results) + 1}
    /\ Len(results) + 1 \notin DOMAIN results
    /\ \A j \in DOMAIN results : results'[j] = results[j]
    /\ results'[Len(results) + 1] = Result(st, B, V, G)
    /\ \A b : BankReports(b)' = BankReports(b) \cup (IF b \in B THEN {Len(results) + 1} ELSE {})
    /\ \A v : InvoiceReports(v)' =
                  InvoiceReports(v) \cup (IF v \in V THEN {Len(results) + 1} ELSE {})
    /\ \A g : GatewayReports(g)' =
                  GatewayReports(g) \cup (IF g \in G THEN {Len(results) + 1} ELSE {})

\* A new result reports its own records and leaves the earlier results alone.
LEMMA OneMoreResult ==
    ASSUME NEW i, NEW st \in Statuses, NEW B \in SUBSET Banks, NEW V \in SUBSET Invoices,
           NEW G \in SUBSET Gateways, EngineTypes, Shows(i, st, B, V, G)
    PROVE  OneMore(st, B, V, G)
  <1> DEFINE new == Result(st, B, V, G)
  <1>1. new \in Results
    BY ResultIsARecord
  <1>2. /\ results \in Seq(Results) /\ results' = Append(results, new) /\ input' = input
    BY DEF EngineTypes, Shows
  <1>3. Results' = Results
    BY <1>2 DEF Results, Banks, Invoices, Gateways
  <1>4. /\ results' \in Seq(Results)
        /\ DOMAIN results' = DOMAIN results \cup {Len(results) + 1}
        /\ Len(results) + 1 \notin DOMAIN results
        /\ \A j \in DOMAIN results : results'[j] = results[j]
        /\ results'[Len(results) + 1] = new
    <2> HIDE DEF new
    <2> QED BY <1>1, <1>2
  <1>5. new.banks = B /\ new.invoices = V /\ new.gateways = G
    BY ResultIsARecord
  <1>6. \A b : BankReports(b)' = BankReports(b) \cup (IF b \in B THEN {Len(results) + 1} ELSE {})
    <2> HIDE DEF new
    <2> QED BY <1>4, <1>5 DEF BankReports
  <1>7. \A v : InvoiceReports(v)' =
            InvoiceReports(v) \cup (IF v \in V THEN {Len(results) + 1} ELSE {})
    <2> HIDE DEF new
    <2> QED BY <1>4, <1>5 DEF InvoiceReports
  <1>8. \A g : GatewayReports(g)' =
            GatewayReports(g) \cup (IF g \in G THEN {Len(results) + 1} ELSE {})
    <2> HIDE DEF new
    <2> QED BY <1>4, <1>5 DEF GatewayReports
  <1> QED BY <1>3, <1>4, <1>6, <1>7, <1>8 DEF OneMore

\* A match of free records by one of the first seven rules.
LEMMA TakingKeepsAccounts ==
    ASSUME NEW i, NEW st \in Statuses, NEW B \in SUBSET FreeBanks,
           NEW V \in SUBSET FreeInvoices, NEW G \in SUBSET FreeGateways,
           EInv, rule \in 1..7, Takes(i, st, B, V, G),
           rule = 7 => i \in Settlements /\ G = Settlement(i) \cap FreeGateways,
           \A b \in B : Twins(b) # {b} => st = "DUPLICATE" /\ B = Twins(b)
    PROVE  input' \in Inputs /\ EngineTypes' /\ Accounts' /\ DuplicatesStayOut'
  <1>1. B \in SUBSET Banks /\ V \in SUBSET Invoices /\ G \in SUBSET Gateways
    BY DEF FreeBanks, FreeInvoices, FreeGateways
  <1>2. Shows(i, st, B, V, G) /\ EngineTypes /\ input' = input /\ rule' = rule
    BY DEF Takes, EInv, Shows
  <1>3. /\ usedBanks' = usedBanks \cup B /\ usedInvoices' = usedInvoices \cup V
        /\ usedGateways' = usedGateways \cup G /\ todo' = todo \ {i}
    BY DEF Takes, Shows
  <1>4. OneMore(st, B, V, G)
    BY <1>1, <1>2, OneMoreResult, Zenon
  <1>5. /\ \A b : BankReports(b)' =
               BankReports(b) \cup (IF b \in B THEN {Len(results) + 1} ELSE {})
        /\ \A v : InvoiceReports(v)' =
               InvoiceReports(v) \cup (IF v \in V THEN {Len(results) + 1} ELSE {})
        /\ \A g : GatewayReports(g)' =
               GatewayReports(g) \cup (IF g \in G THEN {Len(results) + 1} ELSE {})
    BY <1>4, Zenon DEF OneMore
  <1>6. /\ Banks' = Banks /\ Invoices' = Invoices /\ Gateways' = Gateways
        /\ Settlements' = Settlements
    BY <1>2 DEF Banks, Invoices, Gateways, Settlements
  <1>7. EngineTypes'
    BY <1>1, <1>2, <1>3, <1>4, <1>6 DEF EngineTypes, Over, OneMore
  <1>8. BanksAccounted'
    <2>1. \A b \in B : BankReports(b) = {}
      BY DEF EInv, Accounts, BanksAccounted
    <2> QED BY <1>1, <1>2, <1>3, <1>5, <1>6, <2>1
            DEF EInv, Accounts, BanksAccounted, FreeBanks, AtMostOne
  <1>9. InvoicesAccounted'
    <2>1. \A v \in V : InvoiceReports(v) = {}
      BY DEF EInv, Accounts, InvoicesAccounted
    <2> QED BY <1>1, <1>2, <1>3, <1>5, <1>6, <2>1
            DEF EInv, Accounts, InvoicesAccounted, FreeInvoices, AtMostOne
  <1>10. GatewaysAccounted'
    <2>1. \A g \in G : GatewayReports(g) = {}
      BY <1>1 DEF EInv, Accounts, GatewaysAccounted, FreeGateways
    <2>2. FreeGateways' = FreeGateways \ G
      BY <1>3, <1>6 DEF FreeGateways
    <2>3. rule = 7 => \A g \in FreeGateways \ G : input.gateways[g].settlement \in todo \ {i}
      BY DEF EInv, Accounts, GatewaysAccounted, Settlement, FreeGateways
    <2>4. \A g \in Gateways : AtMostOne(GatewayReports(g)')
      BY <1>1, <1>5, <2>1 DEF EInv, Accounts, GatewaysAccounted, AtMostOne
    <2>5. \A g \in Gateways : GatewayReports(g)' # {} <=> g \in usedGateways'
      BY <1>3, <1>5 DEF EInv, Accounts, GatewaysAccounted
    <2> QED BY <1>2, <1>3, <1>6, <2>2, <2>3, <2>4, <2>5 DEF GatewaysAccounted, AtMostOne
  <1>11. DuplicatesStayOut'
    <2>1. /\ Result(st, B, V, G).status = st /\ Result(st, B, V, G).banks = B
      BY <1>1, ResultIsARecord
    <2>2. \A b : Twins(b)' = Twins(b)
      BY <1>2 DEF Twins, Banks
    <2> QED BY <1>4, <2>1, <2>2 DEF EInv, DuplicatesStayOut, OneMore
  <1> QED BY <1>2, <1>7, <1>8, <1>9, <1>10, <1>11 DEF Accounts, EInv

\* What was matched stays matched, and the input decides which pairs are clear.
LEMMA MatchesStay ==
    ASSUME NEW i, NEW st \in Statuses, NEW B \in SUBSET Banks, NEW V \in SUBSET Invoices,
           NEW G \in SUBSET Gateways, EngineTypes, Shows(i, st, B, V, G)
    PROVE  /\ \A b \in Banks, v \in Invoices : Matched(b, v) => Matched(b, v)'
           /\ \A b \in Banks, v \in Invoices :
                 st = "EXACT_MATCH" /\ B = {b} /\ V = {v} /\ G = {} => Matched(b, v)'
  <1>1. OneMore(st, B, V, G)
    BY OneMoreResult, Zenon
  <1> QED BY <1>1 DEF Matched, OneMore

LEMMA SameInput ==
    ASSUME input' = input
    PROVE  /\ Banks' = Banks /\ Invoices' = Invoices /\ Gateways' = Gateways
           /\ Settlements' = Settlements
           /\ \A b : Twins(b)' = Twins(b)
           /\ \A s : Settlement(s)' = Settlement(s)
           /\ \A b, v : Clear(b, v)' <=> Clear(b, v)
  <1>1. Banks' = Banks /\ Invoices' = Invoices /\ Gateways' = Gateways
    BY DEF Banks, Invoices, Gateways
  <1>2. \A b : Twins(b)' = Twins(b)
    BY DEF Twins, Banks
  <1>3. \A b, v : Pair(b, v)' <=> Pair(b, v)
    BY DEF Pair, Eligible, Refers, Amount, Due
  <1>4. \A b, v : Clear(b, v)' <=> Clear(b, v)
    BY <1>1, <1>2, <1>3 DEF Clear, Refers
  <1> QED BY <1>1, <1>2, <1>4 DEF Settlements, Settlement, Gateways

\* After the second rule no clear pair waits any more.
LEMMA LaterRulesKeepMatches ==
    ASSUME NEW i, NEW st \in Statuses, NEW B \in SUBSET Banks, NEW V \in SUBSET Invoices,
           NEW G \in SUBSET Gateways, EInv, rule > 2, Shows(i, st, B, V, G)
    PROVE  ClearOnesWait'
  <1>1. input' = input /\ rule' = rule /\ EngineTypes
    BY DEF Shows, EInv
  <1>2. \A b \in Banks, v \in Invoices : Matched(b, v) => Matched(b, v)'
    BY <1>1, MatchesStay
  <1>3. Banks' = Banks /\ Invoices' = Invoices /\ \A b, v : Clear(b, v)' <=> Clear(b, v)
    BY <1>1, SameInput, Zenon
  <1>4. rule' > 2 /\ ~(rule' <= 1) /\ rule' # 2
    BY <1>1 DEF EngineTypes, Over
  <1>5. \A b \in Banks, v \in Invoices : Clear(b, v) => Matched(b, v)
    BY DEF EInv, ClearOnesWait
  <1> QED BY <1>2, <1>3, <1>4, <1>5 DEF ClearOnesWait

\* Later than the first rule, only free bank entries without a twin are taken.
LEMMA LaterRulesKeepQuarantine ==
    ASSUME EInv, rule > 1, input' = input, rule' = rule, usedBanks \subseteq usedBanks'
    PROVE  Quarantined'
  <1>1. Banks' = Banks /\ \A b : Twins(b)' = Twins(b)
    BY SameInput, Zenon
  <1>2. rule' > 1 /\ rule' # 1
    BY DEF EInv, EngineTypes, Over
  <1> QED BY <1>1, <1>2 DEF EInv, Quarantined, FreeBanks

LEMMA DuplicatesStep ==
    ASSUME EInv, NEW x, Duplicates(x)
    PROVE  EInv'
  <1> DEFINE L == {v \in FreeInvoices : \E c \in Twins(x) : Refers(c, v)}
  <1>1. rule = 1 /\ x \in todo /\ Takes(x, "DUPLICATE", Twins(x), L, {})
    BY DEF Duplicates, At
  <1>2. Twins(x) # {x} /\ x = Min(Twins(x)) /\ Twins(x) \subseteq FreeBanks
    BY <1>1 DEF EInv, Waiting
  <1>3. \A b \in Twins(x) : Twins(b) = Twins(x)
    BY DEF Twins
  <1>4. input' \in Inputs /\ EngineTypes' /\ Accounts' /\ DuplicatesStayOut'
    BY <1>1, <1>2, <1>3, TakingKeepsAccounts DEF Statuses
  <1>5. Shows(x, "DUPLICATE", Twins(x), L, {}) /\ input' = input /\ rule' = 1
    BY <1>1 DEF Takes, Shows
  <1>6. /\ Banks' = Banks /\ Invoices' = Invoices /\ Gateways' = Gateways
        /\ \A b : Twins(b)' = Twins(b)
        /\ \A b, v : Clear(b, v)' <=> Clear(b, v)
    BY <1>5, SameInput, Zenon
  <1>7. /\ todo' = todo \ {x} /\ usedBanks' = usedBanks \cup Twins(x)
        /\ usedInvoices' = usedInvoices \cup L /\ usedGateways' = usedGateways
    BY <1>1 DEF Takes, Shows
  <1>8. FreeBanks' = FreeBanks \ Twins(x) /\ FreeInvoices' = FreeInvoices \ L
    BY <1>6, <1>7 DEF FreeBanks, FreeInvoices
  <1>9. Waiting'
    <2>1. ASSUME NEW c \in todo, c # x PROVE Twins(c) \cap Twins(x) = {}
      <3>1. c = Min(Twins(c))
        BY <1>1 DEF EInv, Waiting
      <3>2. ASSUME NEW d \in Twins(c) \cap Twins(x) PROVE Twins(c) = Twins(x)
        BY DEF Twins
      <3> QED BY <1>2, <2>1, <3>1, <3>2
    <2> HIDE DEF L
    <2> QED BY <1>1, <1>5, <1>6, <1>7, <1>8, <2>1 DEF EInv, Waiting
  <1>10. Quarantined'
    <2>1. \A b \in FreeBanks \ Twins(x) : Twins(b) # {b} => Min(Twins(b)) \in todo
      BY <1>1 DEF EInv, Quarantined
    <2>2. \A b \in FreeBanks \ Twins(x) : b \in Banks /\ Twins(b) \in SUBSET Nat /\ b \in Twins(b)
      BY InputsAssumption DEF FreeBanks, EInv, Twins, Banks
    <2>3. \A b \in FreeBanks \ Twins(x) : Min(Twins(b)) \in Twins(b)
      BY <2>2, LeastPosition
    <2>4. \A b \in FreeBanks \ Twins(x) : Min(Twins(b)) # x
      BY <2>2, <2>3, <1>2 DEF Twins, FreeBanks
    <2> QED BY <1>5, <1>6, <1>7, <1>8, <2>1, <2>4 DEF Quarantined
  <1>11. ClearOnesWait'
    <2>1. ASSUME NEW b \in Banks, NEW v \in Invoices, Clear(b, v)
          PROVE  b \notin Twins(x) /\ v \notin L
      <3>1. Twins(b) = {b} /\ \A c \in Banks : Refers(c, v) => Twins(c) = {c}
        BY <2>1 DEF Clear
      <3>2. \A c \in Twins(x) : Twins(c) # {c} /\ c \in Banks
        <4>1. x \in Banks
          BY <1>1 DEF EInv, EngineTypes
        <4> QED BY <1>2, <1>3, <4>1 DEF Twins
      <3> QED BY <3>1, <3>2
    <2> HIDE DEF L
    <2> QED BY <1>1, <1>5, <1>6, <1>8, <2>1 DEF EInv, ClearOnesWait
  <1> QED BY <1>4, <1>9, <1>10, <1>11 DEF EInv

\* A match of one of the rules from the second to the seventh.
LEMMA LaterTakes ==
    ASSUME EInv, NEW i, NEW st \in Statuses, NEW B \in SUBSET FreeBanks,
           NEW V \in SUBSET FreeInvoices, NEW G \in SUBSET FreeGateways,
           rule \in 2..7, Takes(i, st, B, V, G),
           rule \in {2, 4, 6} => V = {i},
           rule = 2 => G = {},
           rule = 5 => B = {i},
           rule = 3 => G = Settlement(i),
           rule = 7 => i \in Settlements /\ G = Settlement(i) \cap FreeGateways
    PROVE  (rule = 2 => ClearOnesWait') => EInv'
  <1>1. \A b \in B : Twins(b) = {b}
    BY DEF EInv, Quarantined
  <1>2. input' \in Inputs /\ EngineTypes' /\ Accounts' /\ DuplicatesStayOut'
    BY <1>1, TakingKeepsAccounts
  <1>3. Shows(i, st, B, V, G) /\ input' = input /\ rule' = rule
    BY DEF Takes, Shows
  <1>4. /\ todo' = todo \ {i} /\ usedBanks' = usedBanks \cup B
        /\ usedInvoices' = usedInvoices \cup V /\ usedGateways' = usedGateways \cup G
    BY DEF Takes, Shows
  <1>5. Quarantined'
    BY <1>3, <1>4, LaterRulesKeepQuarantine
  <1>6. /\ Banks' = Banks /\ Invoices' = Invoices /\ Gateways' = Gateways
        /\ \A s : Settlement(s)' = Settlement(s)
    BY <1>3, SameInput, Zenon
  <1>7. /\ FreeBanks' = FreeBanks \ B /\ FreeInvoices' = FreeInvoices \ V
        /\ FreeGateways' = FreeGateways \ G
    BY <1>4, <1>6 DEF FreeBanks, FreeInvoices, FreeGateways
  <1>8. Waiting'
    <2>1. ASSUME rule = 3, NEW s \in todo, s # i PROVE Settlement(s) \subseteq FreeGateways \ G
      <3>1. Settlement(s) \subseteq FreeGateways
        BY <2>1 DEF EInv, Waiting
      <3>2. Settlement(s) \cap Settlement(i) = {}
        BY <2>1 DEF Settlement
      <3> QED BY <2>1, <3>1, <3>2
    <2> QED BY <1>3, <1>4, <1>6, <1>7, <2>1 DEF EInv, Waiting
  <1>9. ASSUME rule > 2 PROVE ClearOnesWait'
    <2>1. B \in SUBSET Banks /\ V \in SUBSET Invoices /\ G \in SUBSET Gateways
      BY DEF FreeBanks, FreeInvoices, FreeGateways
    <2> QED BY <1>3, <1>9, <2>1, LaterRulesKeepMatches, Zenon
  <1>10. rule = 2 \/ rule > 2
    OBVIOUS
  <1> QED BY <1>2, <1>5, <1>8, <1>9, <1>10 DEF EInv

\* An item that matches nothing is only taken off the list.
LEMMA PassingStep ==
    ASSUME EInv, NEW i, Passes(i), rule \in 2..6, rule = 2 => ClearOnesWait'
    PROVE  EInv'
  <1>1. /\ input' = input /\ rule' = rule /\ results' = results /\ todo' = todo \ {i}
        /\ usedBanks' = usedBanks /\ usedInvoices' = usedInvoices /\ usedGateways' = usedGateways
    BY DEF Passes, used
  <1>2. /\ Banks' = Banks /\ Invoices' = Invoices /\ Gateways' = Gateways
        /\ Settlements' = Settlements
        /\ \A b : Twins(b)' = Twins(b)
        /\ \A s : Settlement(s)' = Settlement(s)
        /\ \A b, v : Clear(b, v)' <=> Clear(b, v)
    BY <1>1, SameInput, Zenon
  <1>3. EngineTypes'
    BY <1>1, <1>2 DEF EInv, EngineTypes, Results
  <1>4. Accounts'
    <2>1. BanksAccounted'
      BY <1>1, <1>2 DEF EInv, Accounts, BanksAccounted, FreeBanks, BankReports, AtMostOne
    <2>2. InvoicesAccounted'
      BY <1>1, <1>2 DEF EInv, Accounts, InvoicesAccounted, FreeInvoices, InvoiceReports, AtMostOne
    <2>3. GatewaysAccounted'
      BY <1>1, <1>2 DEF EInv, Accounts, GatewaysAccounted, FreeGateways, GatewayReports, AtMostOne
    <2> QED BY <2>1, <2>2, <2>3 DEF Accounts
  <1>5. Waiting'
    BY <1>1, <1>2 DEF EInv, Waiting, FreeBanks, FreeInvoices, FreeGateways
  <1>6. Quarantined'
    BY <1>1, LaterRulesKeepQuarantine
  <1>7. DuplicatesStayOut'
    BY <1>1, <1>2 DEF EInv, DuplicatesStayOut
  <1>8. ASSUME rule > 2 PROVE ClearOnesWait'
    <2>1. \A b, v : Matched(b, v)' <=> Matched(b, v)
      BY <1>1 DEF Matched
    <2>2. \A b \in Banks, v \in Invoices : Clear(b, v) => Matched(b, v)
      BY <1>8 DEF EInv, ClearOnesWait
    <2>3. rule' > 2 /\ ~(rule' <= 1) /\ rule' # 2
      BY <1>1, <1>8
    <2> QED BY <1>2, <2>1, <2>2, <2>3 DEF ClearOnesWait
  <1> QED BY <1>1, <1>3, <1>4, <1>5, <1>6, <1>7, <1>8 DEF EInv

LEMMA ExactMatchStep ==
    ASSUME EInv, NEW x, ExactMatch(x)
    PROVE  EInv'
  <1>1. rule = 2 /\ x \in todo /\ x \in FreeInvoices
    BY DEF ExactMatch, At, EInv, Waiting
  <1>2. Exact(x) \subseteq FreeBanks /\ \A b \in Exact(x) : Pair(b, x)
    BY DEF Exact, Payers, Pair, FreeBanks
  <1>3. ASSUME NEW b \in Banks, Clear(b, x), b \in FreeBanks PROVE Exact(x) = {b}
    BY <1>2, <1>3 DEF Exact, Payers, Pair, Clear, FreeBanks
  <1>4. ASSUME NEW b \in Banks, NEW v \in Invoices, Clear(b, v)
        PROVE  Matched(b, v) \/ (v \in todo /\ b \in FreeBanks)
    BY <1>1, <1>4 DEF EInv, ClearOnesWait
  <1>5. CASE \E b \in Exact(x) : Exact(x) = {b} /\ Takes(x, "EXACT_MATCH", {b}, {x}, {})
    <2>1. PICK c \in Exact(x) : Exact(x) = {c} /\ Takes(x, "EXACT_MATCH", {c}, {x}, {})
      BY <1>5
    <2>2. /\ input' = input /\ rule' = 2 /\ todo' = todo \ {x}
          /\ usedBanks' = usedBanks \cup {c} /\ Shows(x, "EXACT_MATCH", {c}, {x}, {})
      BY <1>1, <2>1 DEF Takes, Shows
    <2>3. /\ Banks' = Banks /\ Invoices' = Invoices
          /\ \A b, v : Clear(b, v)' <=> Clear(b, v)
      BY <2>2, SameInput, Zenon
    <2>4. /\ {c} \in SUBSET Banks /\ {x} \in SUBSET Invoices /\ {} \in SUBSET Gateways
          /\ "EXACT_MATCH" \in Statuses /\ EngineTypes
      BY <1>1, <1>2 DEF FreeBanks, FreeInvoices, Statuses, EInv
    <2>5. /\ \A b \in Banks, v \in Invoices : Matched(b, v) => Matched(b, v)'
          /\ c \in Banks /\ x \in Invoices => Matched(c, x)'
      BY <2>2, <2>4, MatchesStay
    <2>6. ASSUME NEW b \in Banks, NEW v \in Invoices, Clear(b, v)
          PROVE  Matched(b, v)' \/ (v \in todo' /\ b \in FreeBanks')
      <3>1. CASE v = x
        BY <1>3, <1>4, <2>1, <2>4, <2>5, <2>6, <3>1
      <3>2. CASE v # x
        <4>1. b # c
          BY <1>2, <2>6, <3>2, <2>4 DEF Clear
        <4> QED BY <1>4, <2>2, <2>3, <2>5, <2>6, <3>2, <4>1 DEF FreeBanks
      <3> QED BY <3>1, <3>2
    <2>7. ClearOnesWait'
      BY <2>2, <2>3, <2>6 DEF ClearOnesWait
    <2> QED BY <1>1, <1>2, <2>1, <2>7, LaterTakes DEF Statuses
  <1>6. CASE (\A b \in Exact(x) : Exact(x) # {b}) /\ Passes(x)
    <2>1. /\ input' = input /\ rule' = 2 /\ todo' = todo \ {x}
          /\ usedBanks' = usedBanks /\ results' = results
      BY <1>1, <1>6 DEF Passes, used
    <2>2. /\ Banks' = Banks /\ Invoices' = Invoices
          /\ \A b, v : Clear(b, v)' <=> Clear(b, v)
      BY <2>1, SameInput, Zenon
    <2>3. ASSUME NEW b \in Banks, NEW v \in Invoices, Clear(b, v)
          PROVE  Matched(b, v) \/ (v \in todo \ {x} /\ b \in FreeBanks)
      BY <1>3, <1>4, <1>6, <2>3
    <2>4. FreeBanks' = FreeBanks /\ \A b, v : Matched(b, v)' <=> Matched(b, v)
      BY <2>1, <2>2 DEF FreeBanks, Matched
    <2>5. ClearOnesWait'
      BY <2>1, <2>2, <2>3, <2>4 DEF ClearOnesWait
    <2> QED BY <1>1, <1>6, <2>5, PassingStep
  <1> QED BY <1>5, <1>6 DEF ExactMatch

LEMMA SettlementMatchStep ==
    ASSUME EInv, NEW x, SettlementMatch(x)
    PROVE  EInv'
  <1> DEFINE G == Settlement(x)
  <1>1. rule = 3 /\ G \subseteq FreeGateways
    BY DEF SettlementMatch, At, EInv, Waiting
  <1>2. Payouts(G) \subseteq FreeBanks /\ Funded(G) \subseteq FreeInvoices
    BY DEF Payouts, Funded, Referenced
  <1>3. CASE \E b \in Payouts(G) :
                Payouts(G) = {b} /\ Takes(x, "SETTLEMENT_MATCH", {b}, Funded(G), G)
    <2>1. PICK b \in Payouts(G) : Takes(x, "SETTLEMENT_MATCH", {b}, Funded(G), G)
      BY <1>3
    <2>2. /\ {b} \in SUBSET FreeBanks /\ Funded(G) \in SUBSET FreeInvoices
          /\ G \in SUBSET FreeGateways /\ "SETTLEMENT_MATCH" \in Statuses
      BY <1>1, <1>2 DEF Statuses
    <2> QED BY <1>1, <2>1, <2>2, LaterTakes
  <1>4. CASE (\A b \in Payouts(G) : Payouts(G) # {b}) /\ Passes(x)
    BY <1>1, <1>4, PassingStep
  <1> QED BY <1>3, <1>4 DEF SettlementMatch

LEMMA ToleranceMatchStep ==
    ASSUME EInv, NEW x, ToleranceMatch(x)
    PROVE  EInv'
  <1>1. rule = 4 /\ x \in FreeInvoices
    BY DEF ToleranceMatch, At, EInv, Waiting
  <1>2. Near(x) \subseteq FreeBanks
    BY DEF Near, Payers
  <1>3. CASE \E b \in Near(x) : Near(x) = {b} /\ Takes(x, "TOLERANCE_MATCH", {b}, {x}, {})
    BY <1>1, <1>2, <1>3, LaterTakes DEF Statuses
  <1>4. CASE (\A b \in Near(x) : Near(x) # {b}) /\ Passes(x)
    BY <1>1, <1>4, PassingStep
  <1> QED BY <1>3, <1>4 DEF ToleranceMatch

LEMMA ManyToOneStep ==
    ASSUME EInv, NEW x, ManyToOne(x)
    PROVE  EInv'
  <1>1. rule = 5 /\ x \in FreeBanks
    BY DEF ManyToOne, At, EInv, Waiting
  <1>2. \A V \in InvoiceGroups(x) : V \subseteq FreeInvoices
    BY DEF InvoiceGroups, Smallest, Groups, Payable
  <1>3. CASE \E V \in InvoiceGroups(x) : Takes(x, "MANY_TO_ONE_MATCH", {x}, V, {})
    BY <1>1, <1>2, <1>3, LaterTakes DEF Statuses
  <1>4. CASE InvoiceGroups(x) = {} /\ Passes(x)
    BY <1>1, <1>4, PassingStep
  <1> QED BY <1>3, <1>4 DEF ManyToOne

LEMMA OneToManyStep ==
    ASSUME EInv, NEW x, OneToMany(x)
    PROVE  EInv'
  <1>1. rule = 6 /\ x \in FreeInvoices
    BY DEF OneToMany, At, EInv, Waiting
  <1>2. \A B \in BankGroups(x) : B \subseteq FreeBanks
    BY DEF BankGroups, Smallest, Groups, Payers
  <1>3. CASE \E B \in BankGroups(x) : Takes(x, "ONE_TO_MANY_MATCH", B, {x}, {})
    <2>1. PICK B \in BankGroups(x) : Takes(x, "ONE_TO_MANY_MATCH", B, {x}, {})
      BY <1>3
    <2>2. B \in SUBSET FreeBanks /\ {x} \in SUBSET FreeInvoices /\ "ONE_TO_MANY_MATCH" \in Statuses
      BY <1>1, <1>2 DEF Statuses
    <2> QED BY <1>1, <2>1, <2>2, LaterTakes
  <1>4. CASE BankGroups(x) = {} /\ Passes(x)
    BY <1>1, <1>4, PassingStep
  <1> QED BY <1>3, <1>4 DEF OneToMany

LEMMA AwaitsSettlementStep ==
    ASSUME EInv, NEW x, AwaitsSettlement(x)
    PROVE  EInv'
  <1> DEFINE G == Settlement(x) \cap FreeGateways
  <1>1. rule = 7 /\ x \in Settlements
    BY DEF AwaitsSettlement, At, EInv, EngineTypes
  <1>2. Referenced(G) \subseteq FreeInvoices /\ G \subseteq FreeGateways
    BY DEF Referenced
  <1>3. Takes(x, "REQUIRES_REVIEW", {}, Referenced(G), G)
    BY DEF AwaitsSettlement
  <1>4. /\ {} \in SUBSET FreeBanks /\ Referenced(G) \in SUBSET FreeInvoices
        /\ G \in SUBSET FreeGateways /\ "REQUIRES_REVIEW" \in Statuses
    BY <1>2 DEF Statuses
  <1>5. G = Settlement(x) \cap FreeGateways
    OBVIOUS
  <1> HIDE DEF G
  <1> QED BY <1>1, <1>3, <1>4, <1>5, LaterTakes

LEMMA UnmatchedStep ==
    ASSUME EInv, NEW x, UnmatchedBank(x) \/ UnmatchedInvoice(x)
    PROVE  EInv'
  <1> DEFINE B == IF rule = 8 THEN {x} ELSE {}
             V == IF rule = 9 THEN {x} ELSE {}
  <1>1. /\ rule \in {8, 9} /\ x \in todo /\ UNCHANGED used
        /\ Shows(x, "REQUIRES_REVIEW", B, V, {})
    BY DEF UnmatchedBank, UnmatchedInvoice, At
  <1>2. B \in SUBSET FreeBanks /\ V \in SUBSET FreeInvoices
    BY <1>1 DEF EInv, Waiting
  <1>3. /\ B \in SUBSET Banks /\ V \in SUBSET Invoices /\ {} \in SUBSET Gateways
        /\ "REQUIRES_REVIEW" \in Statuses /\ EngineTypes
    BY <1>2 DEF FreeBanks, FreeInvoices, Statuses, EInv
  <1>4. /\ input' = input /\ rule' = rule /\ todo' = todo \ {x}
        /\ usedBanks' = usedBanks /\ usedInvoices' = usedInvoices /\ usedGateways' = usedGateways
    BY <1>1 DEF Shows, used
  <1>5. /\ Banks' = Banks /\ Invoices' = Invoices /\ Gateways' = Gateways
        /\ Settlements' = Settlements
        /\ \A b : Twins(b)' = Twins(b)
    BY <1>4, SameInput, Zenon
  <1>6. OneMore("REQUIRES_REVIEW", B, V, {})
    <2> HIDE DEF B, V
    <2> QED BY <1>1, <1>3, OneMoreResult, Zenon
  <1>7. /\ \A b : BankReports(b)' = BankReports(b) \cup (IF b \in B THEN {Len(results) + 1} ELSE {})
        /\ \A v : InvoiceReports(v)' =
               InvoiceReports(v) \cup (IF v \in V THEN {Len(results) + 1} ELSE {})
        /\ \A g : GatewayReports(g)' = GatewayReports(g)
    BY <1>6 DEF OneMore
  <1>8. EngineTypes'
    BY <1>3, <1>4, <1>5, <1>6 DEF EngineTypes, OneMore
  <1>9. BanksAccounted'
    <2>1. \A b \in B : BankReports(b) = {}
      BY <1>1, <1>2 DEF EInv, Accounts, BanksAccounted
    <2>2. \A b \in Banks : AtMostOne(BankReports(b)')
      BY <1>7, <2>1 DEF EInv, Accounts, BanksAccounted, AtMostOne
    <2>3. \A b \in FreeBanks : BankReports(b)' # {} <=> (rule > 8 \/ (rule = 8 /\ b \notin todo'))
      BY <1>1, <1>4, <1>7 DEF EInv, Accounts, BanksAccounted
    <2>4. \A b \in usedBanks : BankReports(b)' # {}
      BY <1>7 DEF EInv, Accounts, BanksAccounted
    <2> QED BY <1>4, <1>5, <2>2, <2>3, <2>4 DEF BanksAccounted, FreeBanks, AtMostOne
  <1>10. InvoicesAccounted'
    <2>1. \A v \in V : InvoiceReports(v) = {}
      BY <1>1, <1>2 DEF EInv, Accounts, InvoicesAccounted
    <2>2. \A v \in Invoices : AtMostOne(InvoiceReports(v)')
      BY <1>7, <2>1 DEF EInv, Accounts, InvoicesAccounted, AtMostOne
    <2>3. \A v \in FreeInvoices :
              InvoiceReports(v)' # {} <=> (rule > 9 \/ (rule = 9 /\ v \notin todo'))
      BY <1>1, <1>4, <1>7 DEF EInv, Accounts, InvoicesAccounted
    <2>4. \A v \in usedInvoices : InvoiceReports(v)' # {}
      BY <1>7 DEF EInv, Accounts, InvoicesAccounted
    <2> QED BY <1>4, <1>5, <2>2, <2>3, <2>4 DEF InvoicesAccounted, FreeInvoices, AtMostOne
  <1>11. GatewaysAccounted'
    BY <1>1, <1>4, <1>5, <1>7 DEF EInv, Accounts, GatewaysAccounted, FreeGateways, AtMostOne
  <1>12. Waiting'
    BY <1>1, <1>4, <1>5 DEF EInv, Waiting, FreeBanks, FreeInvoices
  <1>13. Quarantined'
    BY <1>1, <1>4, LaterRulesKeepQuarantine
  <1>14. DuplicatesStayOut'
    <2>1. \A b \in B : Twins(b) = {b}
      BY <1>1, <1>2 DEF EInv, Quarantined
    <2>2. Result("REQUIRES_REVIEW", B, V, {}).banks = B
      BY DEF Result
    <2> HIDE DEF B, V
    <2> QED BY <1>5, <1>6, <2>1, <2>2 DEF EInv, DuplicatesStayOut, OneMore
  <1>15. ClearOnesWait'
    <2> HIDE DEF B, V
    <2>1. rule > 2
      BY <1>1
    <2> QED BY <1>1, <1>3, <2>1, LaterRulesKeepMatches, Zenon
  <1> QED BY <1>4, <1>8, <1>9, <1>10, <1>11, <1>12, <1>13, <1>14, <1>15 DEF EInv, Accounts

\* A rule starts on what the rules before it have left.
LEMMA NextRuleStep ==
    ASSUME EInv, NextRule
    PROVE  EInv'
  <1>1. /\ rule \in 0..9 /\ todo = {} /\ rule' = rule + 1 /\ todo' = Items(rule + 1)
        /\ input' = input /\ results' = results
        /\ usedBanks' = usedBanks /\ usedInvoices' = usedInvoices /\ usedGateways' = usedGateways
    BY DEF NextRule, used, EInv, EngineTypes, Over
  <1>2. /\ Banks' = Banks /\ Invoices' = Invoices /\ Gateways' = Gateways
        /\ Settlements' = Settlements
        /\ \A b : Twins(b)' = Twins(b)
        /\ \A s : Settlement(s)' = Settlement(s)
        /\ \A b, v : Clear(b, v)' <=> Clear(b, v)
    BY <1>1, SameInput, Zenon
  <1>3. /\ rule' = 1 => todo' = {b \in Banks : b = Min(Twins(b)) /\ Twins(b) # {b}}
        /\ rule' \in {2, 4, 6, 9} => todo' = FreeInvoices
        /\ rule' = 3 => todo' = Settlements
        /\ rule' = 5 => todo' = {b \in FreeBanks : Eligible(b)}
        /\ rule' = 7 => todo' = {s \in Settlements : Settlement(s) \cap FreeGateways # {}}
        /\ rule' = 8 => todo' = FreeBanks
        /\ rule' = 10 => todo' = {}
    BY <1>1 DEF Items
  <1>4. FreeBanks' = FreeBanks /\ FreeInvoices' = FreeInvoices /\ FreeGateways' = FreeGateways
    BY <1>1, <1>2 DEF FreeBanks, FreeInvoices, FreeGateways
  <1>5. rule' \in 1..10
    BY <1>1
  <1>6. EngineTypes'
    BY <1>1, <1>2, <1>3, <1>5
       DEF EInv, EngineTypes, Results, Over, FreeBanks, FreeInvoices
  <1>7. Accounts'
    <2>1. BanksAccounted'
      <3>1. \A b : BankReports(b)' = BankReports(b)
        BY <1>1 DEF BankReports
      <3> QED BY <1>1, <1>2, <1>3, <1>4, <3>1 DEF EInv, Accounts, BanksAccounted, AtMostOne
    <2>2. InvoicesAccounted'
      <3>1. \A v : InvoiceReports(v)' = InvoiceReports(v)
        BY <1>1 DEF InvoiceReports
      <3> QED BY <1>1, <1>2, <1>3, <1>4, <3>1 DEF EInv, Accounts, InvoicesAccounted, AtMostOne
    <2>3. GatewaysAccounted'
      <3>1. \A g : GatewayReports(g)' = GatewayReports(g)
        BY <1>1 DEF GatewayReports
      <3>2. rule' = 7 => \A g \in FreeGateways : input.gateways[g].settlement \in todo'
        BY <1>3 DEF Settlements, Settlement, FreeGateways
      <3>3. rule' > 7 => FreeGateways = {}
        BY <1>1 DEF EInv, Accounts, GatewaysAccounted
      <3> QED BY <1>1, <1>2, <1>4, <3>1, <3>2, <3>3
              DEF EInv, Accounts, GatewaysAccounted, AtMostOne
    <2> QED BY <2>1, <2>2, <2>3 DEF Accounts
  <1>8. Waiting'
    <2>1. rule' = 1 => \A c \in todo' : Twins(c) \subseteq FreeBanks
      BY <1>1 DEF EInv, Waiting, Twins, FreeBanks
    <2>2. rule' = 3 => \A s : Settlement(s) \subseteq FreeGateways
      BY <1>1 DEF EInv, Waiting, Settlement, FreeGateways
    <2>3. rule' <= 2 => usedGateways = {}
      BY <1>1 DEF EInv, Waiting
    <2> QED BY <1>1, <1>2, <1>3, <1>4, <1>5, <2>1, <2>2, <2>3 DEF Waiting
  <1>9. Quarantined'
    <2>1. ASSUME rule' = 1, NEW b \in Banks, Twins(b) # {b}
          PROVE  Min(Twins(b)) \in todo'
      <3>1. b \in Twins(b) /\ Twins(b) \in SUBSET Nat /\ Twins(b) \subseteq Banks
        BY InputsAssumption DEF EInv, Twins, Banks
      <3>2. Min(Twins(b)) \in Twins(b)
        BY <3>1, LeastPosition
      <3>3. Twins(Min(Twins(b))) = Twins(b)
        BY <3>2 DEF Twins
      <3> QED BY <1>3, <2>1, <3>1, <3>2, <3>3
    <2>2. rule' > 1 => \A b \in FreeBanks : Twins(b) = {b}
      BY <1>1 DEF EInv, Quarantined
    <2> QED BY <1>2, <1>4, <2>1, <2>2 DEF Quarantined, FreeBanks
  <1>10. DuplicatesStayOut'
    BY <1>1, <1>2 DEF EInv, DuplicatesStayOut
  <1>11. ClearOnesWait'
    <2>1. \A b, v : Matched(b, v)' <=> Matched(b, v)
      BY <1>1 DEF Matched
    <2> QED BY <1>1, <1>2, <1>3, <1>4, <2>1 DEF EInv, ClearOnesWait
  <1> QED BY <1>1, <1>6, <1>7, <1>8, <1>9, <1>10, <1>11 DEF EInv

LEMMA EngineStep ==
    ASSUME EInv, EngineNext
    PROVE  EInv'
  BY NextRuleStep, DuplicatesStep, ExactMatchStep, SettlementMatchStep, ToleranceMatchStep,
     ManyToOneStep, OneToManyStep, AwaitsSettlementStep, UnmatchedStep
     DEF EngineNext, ByBank, ByInvoice, BySettlement

Fresh ==
    /\ input \in Inputs
    /\ rule = 0 /\ todo = {} /\ results = <<>>
    /\ usedBanks = {} /\ usedInvoices = {} /\ usedGateways = {}

LEMMA FreshInv == Fresh => EInv
  <1> SUFFICES ASSUME Fresh PROVE EInv
    OBVIOUS
  <1>1. DOMAIN results = {} /\ results \in Seq(Results)
    BY DEF Fresh
  <1>2. EngineTypes
    BY <1>1 DEF Fresh, EngineTypes, Over
  <1>3. Accounts
    BY <1>1 DEF Fresh, Accounts, BanksAccounted, InvoicesAccounted, GatewaysAccounted,
                BankReports, InvoiceReports, GatewayReports, AtMostOne, FreeBanks,
                FreeInvoices, FreeGateways
  <1>4. Waiting /\ Quarantined
    BY DEF Fresh, Waiting, Quarantined
  <1>5. DuplicatesStayOut
    BY <1>1 DEF DuplicatesStayOut
  <1>6. ClearOnesWait
    BY DEF Fresh, ClearOnesWait, FreeBanks, FreeInvoices
  <1> QED BY <1>2, <1>3, <1>4, <1>5, <1>6 DEF EInv, Fresh

\* What a step of a call does to the engine: nothing, one step of its own, or it
\* starts it again for the next attempt.
LEMMA EngineHistory ==
    ASSUME [Next]_vars, input \in Inputs
    PROVE  UNCHANGED engineVars \/ EngineNext \/ Fresh'
  <1>1. CASE Reconcile
    BY <1>1 DEF Reconcile
  <1>2. CASE CallProcessor
    BY <1>2 DEF CallProcessor, Fresh
  <1>3. CASE \/ LoadBanks \/ LoadInvoices \/ LoadGateways \/ CompleteReconciliation
             \/ Workflow
    BY <1>3 DEF LoadBanks, LoadInvoices, LoadGateways, CompleteReconciliation, Workflow,
        StartWorkflow, Export, ExportFails, WorkflowFails, Proceeds
  <1>4. CASE \/ StartTrail \/ Succeed \/ Store \/ Crash \/ NextAttempt
             \/ \E error \in {"JobCancelled", "JobTimedOut", "Exception"} : Raises(error)
    BY <1>4 DEF StartTrail, Succeed, Store, Crash, NextAttempt, Raises, Proceeds
  <1> QED BY <1>1, <1>2, <1>3, <1>4 DEF Next, Processor, vars

\* The invariant of the engine, in every call of every attempt.
THEOREM EngineInvariant == Spec => []EInv
  <1>1. Init => Fresh
    BY DEF Init, EngineInit, Fresh
  <1>2. ASSUME EInv, [Next]_vars PROVE EInv' \/ Fresh'
    <2>1. CASE UNCHANGED engineVars
      <3>1. /\ input' = input /\ rule' = rule /\ todo' = todo /\ results' = results
            /\ usedBanks' = usedBanks /\ usedInvoices' = usedInvoices
            /\ usedGateways' = usedGateways
        BY <2>1 DEF engineVars
      <3>2. /\ Banks' = Banks /\ Invoices' = Invoices /\ Gateways' = Gateways
            /\ Settlements' = Settlements
            /\ \A b : Twins(b)' = Twins(b)
            /\ \A s : Settlement(s)' = Settlement(s)
            /\ \A b, v : Clear(b, v)' <=> Clear(b, v)
        BY <3>1, SameInput, Zenon
      <3>3. EngineTypes'
        BY <1>2, <3>1, <3>2 DEF EInv, EngineTypes, Results
      <3>4. Accounts'
        BY <1>2, <3>1, <3>2
           DEF EInv, Accounts, BanksAccounted, InvoicesAccounted, GatewaysAccounted, BankReports,
               InvoiceReports, GatewayReports, AtMostOne, FreeBanks, FreeInvoices, FreeGateways
      <3>5. Waiting' /\ Quarantined'
        BY <1>2, <3>1, <3>2
           DEF EInv, Waiting, Quarantined, FreeBanks, FreeInvoices, FreeGateways
      <3>6. DuplicatesStayOut'
        BY <1>2, <3>1, <3>2 DEF EInv, DuplicatesStayOut
      <3>7. ClearOnesWait'
        BY <1>2, <3>1, <3>2 DEF EInv, ClearOnesWait, Matched, FreeBanks, FreeInvoices
      <3> QED BY <1>2, <3>1, <3>3, <3>4, <3>5, <3>6, <3>7 DEF EInv
    <2> QED BY <1>2, <2>1, EngineStep, EngineHistory DEF EInv
  <1>3. Fresh' => EInv'
    BY FreshInv, PTL
  <1> QED BY <1>1, <1>2, <1>3, FreshInv, PTL DEF Spec

\* No record is in two results, and none is lost (engine.py:179).
THEOREM RecordsAreReportedOnce == Spec => []ReportedOnce
  <1>1. EInv => ReportedOnce
    BY DEF EInv, Accounts, BanksAccounted, InvoicesAccounted, GatewaysAccounted, ReportedOnce,
           FreeBanks, FreeInvoices, FreeGateways, Over
  <1> QED BY <1>1, EngineInvariant, PTL

\* Repeated bank entries are quarantined together before any match (engine.py:79).
THEOREM DuplicatesAreQuarantined == Spec => []DuplicatesStayOut
  <1>1. EInv => DuplicatesStayOut
    BY DEF EInv
  <1> QED BY <1>1, EngineInvariant, PTL

\* A payment and an invoice that fit each other alone are matched (engine.py:103).
THEOREM ClearPaymentsAreFound == Spec => []ClearPaymentsAreMatched
  <1>1. EInv => ClearPaymentsAreMatched
    BY DEF EInv, ClearOnesWait, ClearPaymentsAreMatched, Matched
  <1> QED BY <1>1, EngineInvariant, PTL

-----------------------------------------------------------------------------
(* Matches balance.                                                        *)

\* The fifth rule goes through eligible payments only.
EligibleWait == rule = 5 => \A b \in todo : Eligible(b)
BalanceInv == EInv /\ EligibleWait /\ MatchesBalance

\* A fold over one record is that record's value.
LEMMA BankSumOfOne ==
    ASSUME NEW b, Amount(b) \in Int
    PROVE  BankSum({b}) = Amount(b)
  <1> DEFINE Step(g) ==
                 [s \in SUBSET {b} |->
                    IF s = {} THEN 0
                    ELSE input.banks[CHOOSE x \in s : TRUE].amount + g[s \ {CHOOSE x \in s : TRUE}]]
             sum == CHOOSE g : g = Step(g)
  <1>1. BankSum({b}) = sum[{b}]
    BY DEF BankSum, MapThenSumSet, MapThenFoldSet
  <1>2. /\ \A s \in SUBSET {b} : s = {} \/ s = {b}
        /\ (CHOOSE x \in {b} : TRUE) = b
    OBVIOUS
  <1>3. \E g : g = Step(g)
    <2> DEFINE w == [s \in SUBSET {b} |-> IF s = {} THEN 0 ELSE Amount(b)]
    <2>1. w = Step(w)
      BY <1>2 DEF Amount
    <2> QED BY <2>1
  <1>4. sum = Step(sum)
    BY <1>3
  <1> HIDE DEF sum
  <1>5. sum[{}] = 0 /\ sum[{b}] = input.banks[b].amount + sum[{}]
    BY <1>2, <1>4
  <1> QED BY <1>1, <1>5 DEF Amount

LEMMA DueSumOfOne ==
    ASSUME NEW v, Due(v) \in Int
    PROVE  DueSum({v}) = Due(v)
  <1> DEFINE Step(g) ==
                 [s \in SUBSET {v} |->
                    IF s = {} THEN 0
                    ELSE input.invoices[CHOOSE x \in s : TRUE].due + g[s \ {CHOOSE x \in s : TRUE}]]
             sum == CHOOSE g : g = Step(g)
  <1>1. DueSum({v}) = sum[{v}]
    BY DEF DueSum, MapThenSumSet, MapThenFoldSet
  <1>2. /\ \A s \in SUBSET {v} : s = {} \/ s = {v}
        /\ (CHOOSE x \in {v} : TRUE) = v
    OBVIOUS
  <1>3. \E g : g = Step(g)
    <2> DEFINE w == [s \in SUBSET {v} |-> IF s = {} THEN 0 ELSE Due(v)]
    <2>1. w = Step(w)
      BY <1>2 DEF Due
    <2> QED BY <2>1
  <1>4. sum = Step(sum)
    BY <1>3
  <1> HIDE DEF sum
  <1>5. sum[{}] = 0 /\ sum[{v}] = input.invoices[v].due + sum[{}]
    BY <1>2, <1>4
  <1> QED BY <1>1, <1>5 DEF Due

LEMMA SameSums ==
    ASSUME input' = input
    PROVE  /\ \A B : BankSum(B)' = BankSum(B)
           /\ \A V : DueSum(V)' = DueSum(V)
           /\ \A G : Net(G)' = Net(G) /\ Gross(G)' = Gross(G)
  <1>1. \A B : BankSum(B)' = BankSum(B)
    BY DEF BankSum, MapThenSumSet, MapThenFoldSet
  <1>2. \A V : DueSum(V)' = DueSum(V)
    BY DEF DueSum, MapThenSumSet, MapThenFoldSet
  <1>3. \A G : Net(G)' = Net(G)
    BY DEF Net, MapThenSumSet, MapThenFoldSet
  <1>4. \A G : Gross(G)' = Gross(G)
    BY DEF Gross, MapThenSumSet, MapThenFoldSet
  <1> QED BY <1>1, <1>2, <1>3, <1>4

\* Whether a result balances is decided by the input.
LEMMA SameBalance ==
    ASSUME input' = input, NEW r
    PROVE  Balanced(r)' <=> Balanced(r)
  BY SameSums DEF Balanced, Eligible, Refers, Due

LEMMA AmountsAreNumbers ==
    ASSUME input \in Inputs
    PROVE  /\ \A b \in Banks : Amount(b) \in Int
           /\ \A v \in Invoices : Due(v) \in Int
  <1>1. \A b \in Banks : input.banks[b] \in BankTransactions
    BY InputsAssumption DEF Banks
  <1>2. \A v \in Invoices : input.invoices[v] \in ERPInvoices
    BY InputsAssumption DEF Invoices
  <1>3. \A b \in Banks : Amount(b) \in Int
    BY <1>1 DEF BankTransactions, Amount
  <1>4. \A v \in Invoices : Due(v) \in Int
    BY <1>2 DEF ERPInvoices, Due
  <1> QED BY <1>3, <1>4

LEMMA ShownBalances ==
    ASSUME NEW i, NEW st \in Statuses, NEW B \in SUBSET Banks, NEW V \in SUBSET Invoices,
           NEW G \in SUBSET Gateways, EngineTypes, MatchesBalance, Shows(i, st, B, V, G),
           st \in {"DUPLICATE", "REQUIRES_REVIEW"} \/ Balanced(Result(st, B, V, G))
    PROVE  MatchesBalance'
  <1>1. input' = input
    BY DEF Shows
  <1>2. OneMore(st, B, V, G)
    BY OneMoreResult, Zenon
  <1>3. \A r : Balanced(r)' <=> Balanced(r)
    BY <1>1, SameBalance
  <1>4. Result(st, B, V, G).status = st
    BY ResultIsARecord
  <1>5. ASSUME NEW j \in DOMAIN results'
        PROVE  results'[j].status \in {"DUPLICATE", "REQUIRES_REVIEW"} \/ Balanced(results'[j])
    <2>1. CASE j \in DOMAIN results
      BY <1>2, <2>1 DEF OneMore, MatchesBalance
    <2>2. CASE j = Len(results) + 1
      BY <1>2, <1>4, <2>2 DEF OneMore
    <2> QED BY <1>2, <1>5, <2>1, <2>2 DEF OneMore
  <1> QED BY <1>3, <1>5 DEF MatchesBalance

\* One payment and one invoice whose amounts agree, or nearly so.
LEMMA PairBalances ==
    ASSUME input \in Inputs, NEW b \in Banks, NEW v \in Invoices,
           NEW st \in {"EXACT_MATCH", "TOLERANCE_MATCH"},
           Eligible(b), Refers(b, v), input.banks[b].currency = input.invoices[v].currency,
           Amount(b) - Due(v) \in -AmountTolerance..AmountTolerance,
           st = "EXACT_MATCH" => Amount(b) = Due(v)
    PROVE  Balanced(Result(st, {b}, {v}, {}))
  <1>1. BankSum({b}) = Amount(b) /\ DueSum({v}) = Due(v)
    BY AmountsAreNumbers, BankSumOfOne, DueSumOfOne
  <1> QED BY <1>1 DEF Balanced, Result

LEMMA ZeroIsTolerated == \A n \in Int : n - n \in -AmountTolerance..AmountTolerance
  BY ConfigAssumption DEF ConfigValid

LEMMA MatchStepBalances ==
    ASSUME BalanceInv, NEW x,
           \/ ExactMatch(x) \/ SettlementMatch(x) \/ ToleranceMatch(x)
           \/ ManyToOne(x) \/ OneToMany(x)
    PROVE  MatchesBalance'
  <1>1. /\ input \in Inputs /\ EngineTypes /\ MatchesBalance
        /\ \A b \in Banks : Amount(b) \in Int
        /\ \A v \in Invoices : Due(v) \in Int
    BY AmountsAreNumbers DEF BalanceInv, EInv
  <1>2. CASE Passes(x)
    <2>1. results' = results /\ input' = input
      BY <1>2 DEF Passes
    <2> QED BY <1>1, <2>1, SameBalance DEF MatchesBalance
  <1>3. ASSUME NEW b \in Exact(x), ExactMatch(x), Takes(x, "EXACT_MATCH", {b}, {x}, {})
        PROVE  MatchesBalance'
    <2>1. /\ b \in Banks /\ x \in Invoices /\ Eligible(b) /\ Refers(b, x)
          /\ input.banks[b].currency = input.invoices[x].currency /\ Amount(b) = Due(x)
      BY <1>1, <1>3 DEF ExactMatch, Exact, Payers, FreeBanks, At, BalanceInv, EInv, Waiting,
                        FreeInvoices
    <2>2. Balanced(Result("EXACT_MATCH", {b}, {x}, {}))
      BY <1>1, <2>1, ZeroIsTolerated, PairBalances
    <2> QED BY <1>1, <1>3, <2>1, <2>2, ShownBalances DEF Takes, Statuses
  <1>4. ASSUME NEW b \in Near(x), ToleranceMatch(x), Takes(x, "TOLERANCE_MATCH", {b}, {x}, {})
        PROVE  MatchesBalance'
    <2>1. /\ b \in Banks /\ x \in Invoices /\ Eligible(b) /\ Refers(b, x)
          /\ input.banks[b].currency = input.invoices[x].currency
          /\ Amount(b) - Due(x) \in -AmountTolerance..AmountTolerance
      BY <1>1, <1>4 DEF ToleranceMatch, Near, Payers, FreeBanks, At, BalanceInv, EInv, Waiting,
                        FreeInvoices
    <2>2. Balanced(Result("TOLERANCE_MATCH", {b}, {x}, {}))
      BY <1>1, <2>1, PairBalances
    <2> QED BY <1>1, <1>4, <2>1, <2>2, ShownBalances DEF Takes, Statuses
  <1>5. ASSUME NEW b \in Payouts(Settlement(x)), SettlementMatch(x),
               Takes(x, "SETTLEMENT_MATCH", {b}, Funded(Settlement(x)), Settlement(x))
        PROVE  MatchesBalance'
    <2> DEFINE G == Settlement(x)
    <2>1. /\ b \in Banks /\ Eligible(b) /\ Amount(b) = Net(G)
          /\ \E g \in G : <<b, g>> \in input.pays
      BY <1>5 DEF Payouts, FreeBanks
    <2>2. /\ Funded(G) \in SUBSET Invoices /\ G \in SUBSET Gateways
          /\ \A v \in Funded(G) : Due(v) = Gross(G)
      BY DEF Funded, Referenced, FreeInvoices, Settlement
    <2>3. Takes(x, "SETTLEMENT_MATCH", {b}, Funded(G), G)
      BY <1>5
    <2> HIDE DEF G
    <2>4. BankSum({b}) = Net(G)
      BY <1>1, <2>1, BankSumOfOne
    <2>5. Balanced(Result("SETTLEMENT_MATCH", {b}, Funded(G), G))
      BY <2>1, <2>2, <2>4 DEF Balanced, Result
    <2> QED BY <1>1, <2>1, <2>2, <2>3, <2>5, ShownBalances DEF Takes, Statuses
  <1>6. ASSUME NEW V \in InvoiceGroups(x), ManyToOne(x),
               Takes(x, "MANY_TO_ONE_MATCH", {x}, V, {})
        PROVE  MatchesBalance'
    <2>1. x \in Banks /\ Eligible(x)
      BY <1>6 DEF ManyToOne, At, BalanceInv, EInv, Waiting, FreeBanks, EligibleWait
    <2>2. /\ V \in SUBSET Invoices /\ DueSum(V) = Amount(x)
          /\ \A v \in V :
                Refers(x, v) /\ input.banks[x].currency = input.invoices[v].currency
      BY DEF InvoiceGroups, Smallest, Groups, Payable, FreeInvoices
    <2>3. BankSum({x}) = Amount(x)
      BY <1>1, <2>1, BankSumOfOne
    <2>4. Balanced(Result("MANY_TO_ONE_MATCH", {x}, V, {}))
      BY <1>1, <2>1, <2>2, <2>3, ZeroIsTolerated DEF Balanced, Result
    <2>5. /\ {x} \in SUBSET Banks /\ {} \in SUBSET Gateways /\ "MANY_TO_ONE_MATCH" \in Statuses
          /\ Shows(x, "MANY_TO_ONE_MATCH", {x}, V, {})
      BY <1>6, <2>1 DEF Takes, Statuses
    <2> QED BY <1>1, <2>2, <2>4, <2>5, ShownBalances
  <1>7. ASSUME NEW B \in BankGroups(x), OneToMany(x),
               Takes(x, "ONE_TO_MANY_MATCH", B, {x}, {})
        PROVE  MatchesBalance'
    <2>1. x \in Invoices
      BY <1>7 DEF OneToMany, At, BalanceInv, EInv, Waiting, FreeInvoices
    <2>2. /\ B \in SUBSET Banks /\ BankSum(B) = Due(x) /\ Cardinality(B) \in 2..MaximumGroupSize
          /\ \A b \in B : /\ Eligible(b) /\ Refers(b, x)
                          /\ input.banks[b].currency = input.invoices[x].currency
      BY DEF BankGroups, Smallest, Groups, Payers, FreeBanks
    <2>3. B # {}
      BY <2>2, FS_EmptySet
    <2>4. DueSum({x}) = Due(x)
      BY <1>1, <2>1, DueSumOfOne
    <2>5. Balanced(Result("ONE_TO_MANY_MATCH", B, {x}, {}))
      BY <1>1, <2>1, <2>2, <2>3, <2>4, ZeroIsTolerated DEF Balanced, Result
    <2> QED BY <1>1, <1>7, <2>1, <2>2, <2>5, ShownBalances DEF Takes, Statuses
  <1> QED BY <1>2, <1>3, <1>4, <1>5, <1>6, <1>7
          DEF ExactMatch, SettlementMatch, ToleranceMatch, ManyToOne, OneToMany

LEMMA ReviewStepBalances ==
    ASSUME BalanceInv, NEW x,
           Duplicates(x) \/ AwaitsSettlement(x) \/ UnmatchedBank(x) \/ UnmatchedInvoice(x)
    PROVE  MatchesBalance'
  <1>1. EngineTypes /\ MatchesBalance
    BY DEF BalanceInv, EInv
  <1>2. PICK st \in {"DUPLICATE", "REQUIRES_REVIEW"}, B \in SUBSET Banks,
             V \in SUBSET Invoices, G \in SUBSET Gateways : Shows(x, st, B, V, G)
    <2>1. CASE Duplicates(x)
      BY <2>1 DEF Duplicates, Takes, Twins, FreeInvoices
    <2>2. CASE AwaitsSettlement(x)
      BY <2>2 DEF AwaitsSettlement, Takes, Settlement, Referenced, FreeInvoices, FreeGateways
    <2>3. CASE UnmatchedBank(x)
      BY <2>3 DEF UnmatchedBank, At, BalanceInv, EInv, Waiting, FreeBanks
    <2>4. CASE UnmatchedInvoice(x)
      BY <2>4 DEF UnmatchedInvoice, At, BalanceInv, EInv, Waiting, FreeInvoices
    <2> QED BY <2>1, <2>2, <2>3, <2>4
  <1> QED BY <1>1, <1>2, ShownBalances DEF Statuses

\* Every rule that looks at its items one by one keeps the rest waiting.
LEMMA EligibleStep ==
    ASSUME EligibleWait, EngineTypes, EngineNext
    PROVE  EligibleWait'
  <1>1. CASE NextRule
    <2>1. rule' = 5 => todo' = {b \in FreeBanks : Eligible(b)}
      BY <1>1 DEF NextRule, Items
    <2>2. \A b : Eligible(b)' <=> Eligible(b)
      BY <1>1 DEF NextRule, Eligible
    <2> QED BY <2>1, <2>2 DEF EligibleWait
  <1>2. CASE ByBank \/ ByInvoice \/ BySettlement
    <2>1. input' = input /\ rule' = rule /\ \E i : todo' = todo \ {i}
      BY <1>2 DEF ByBank, ByInvoice, BySettlement, Duplicates, ManyToOne, UnmatchedBank,
                  ExactMatch, ToleranceMatch, OneToMany, UnmatchedInvoice, SettlementMatch,
                  AwaitsSettlement, Takes, Shows, Passes
    <2>2. \A b : Eligible(b)' <=> Eligible(b)
      BY <2>1 DEF Eligible
    <2> QED BY <2>1, <2>2 DEF EligibleWait
  <1> QED BY <1>1, <1>2 DEF EngineNext

LEMMA EngineStepBalances ==
    ASSUME BalanceInv, EngineNext
    PROVE  EligibleWait' /\ MatchesBalance'
  <1>1. EligibleWait'
    BY EligibleStep DEF BalanceInv, EInv
  <1>2. CASE NextRule
    <2>1. input' = input /\ results' = results
      BY <1>2 DEF NextRule
    <2> QED BY <1>1, <2>1, SameBalance DEF BalanceInv, MatchesBalance
  <1>3. CASE ByBank \/ ByInvoice \/ BySettlement
    BY <1>1, <1>3, MatchStepBalances, ReviewStepBalances DEF ByBank, ByInvoice, BySettlement
  <1> QED BY <1>2, <1>3 DEF EngineNext

\* "A result that needs no review is money that arrived": the sums, currencies
\* and references of a match agree, whichever of the rules made it, for any
\* amounts and tolerance (engine.py:103-166).
THEOREM ResultsBalance == Spec => []MatchesBalance
  <1>1. Fresh => EligibleWait /\ MatchesBalance
    BY DEF Fresh, EligibleWait, MatchesBalance
  <1>2. Init => EligibleWait /\ MatchesBalance
    BY <1>1 DEF Init, EngineInit, Fresh
  <1>3. Fresh' => EligibleWait' /\ MatchesBalance'
    BY <1>1, PTL
  <1>4. ASSUME BalanceInv, UNCHANGED engineVars PROVE EligibleWait' /\ MatchesBalance'
    <2>1. input' = input /\ rule' = rule /\ todo' = todo /\ results' = results
      BY <1>4 DEF engineVars
    <2>2. \A b : Eligible(b)' <=> Eligible(b)
      BY <2>1 DEF Eligible
    <2> QED BY <1>4, <2>1, <2>2, SameBalance DEF BalanceInv, EligibleWait, MatchesBalance
  <1>5. EInv /\ EligibleWait /\ MatchesBalance /\ [Next]_vars => EligibleWait' /\ MatchesBalance'
    BY <1>3, <1>4, EngineHistory, EngineStepBalances DEF BalanceInv, EInv
  <1> QED BY <1>2, <1>5, EngineInvariant, PTL DEF Spec

-----------------------------------------------------------------------------
(* The events a failed call reports.                                       *)

OneStart(events) == \A i \in DOMAIN events : events[i] = "RUN_STARTED" <=> i = 1

Keeps(kept, events, m) ==
    kept = [n \in 0..m |->
              IF n = 0 THEN <<>>
              ELSE IF events[n] = "RUN_SUCCEEDED" THEN kept[n - 1]
              ELSE Append(kept[n - 1], events[n])]

\* What has been kept of the first n events: all but RUN_SUCCEEDED, and in order
\* as far as the first and the last one go.
KeptOf(q, events, n) ==
    /\ q \in Seq(Events)
    /\ \A e : Says(q, e) <=> e # "RUN_SUCCEEDED" /\ \E i \in 1..n : events[i] = e
    /\ n > 0 /\ events[n] # "RUN_SUCCEEDED" => Last(q) = events[n]
    /\ n > 0 /\ OneStart(events) => q # <<>> /\ OneStart(q)

\* The loop of _fail_run is defined for every number of events.
LEMMA KeepingIsDefined ==
    ASSUME NEW events
    PROVE  \A m \in Nat : \E kept : Keeps(kept, events, m)
  <1> DEFINE bad == {m \in Nat : ~\E kept : Keeps(kept, events, m)}
  <1>1. ASSUME bad # {} PROVE FALSE
    <2>1. Min(bad) \in bad /\ \A y \in bad : Min(bad) <= y
      BY <1>1, LeastPosition
    <2>2. PICK m \in bad : \A y \in bad : m <= y
      BY <2>1
    <2>3. CASE m = 0
      <3> DEFINE g == [n \in 0..0 |-> <<>>]
      <3>1. Keeps(g, events, 0)
        BY DEF Keeps
      <3> QED BY <2>2, <2>3, <3>1
    <2>4. CASE m # 0
      <3>1. m - 1 \in Nat /\ m - 1 \notin bad
        BY <2>2, <2>4
      <3>2. PICK g : Keeps(g, events, m - 1)
        BY <3>1
      <3> DEFINE next == IF events[m] = "RUN_SUCCEEDED" THEN g[m - 1]
                         ELSE Append(g[m - 1], events[m])
                 h == [n \in 0..m |-> IF n = m THEN next ELSE g[n]]
      <3>3. /\ h[m] = next
            /\ \A n \in 0..(m - 1) : h[n] = g[n]
        BY <3>1
      <3>4. /\ m - 1 \in 0..(m - 1) /\ h[m - 1] = g[m - 1]
        BY <3>1, <3>3
      <3>5. \A n \in 0..(m - 1) :
                g[n] = IF n = 0 THEN <<>>
                       ELSE IF events[n] = "RUN_SUCCEEDED" THEN g[n - 1]
                       ELSE Append(g[n - 1], events[n])
        BY <3>2 DEF Keeps
      <3>6. ASSUME NEW n \in 0..m
            PROVE  h[n] = IF n = 0 THEN <<>>
                          ELSE IF events[n] = "RUN_SUCCEEDED" THEN h[n - 1]
                          ELSE Append(h[n - 1], events[n])
        <4>1. CASE n = m
          BY <2>4, <3>3, <3>4, <4>1
        <4>2. CASE n # m
          <5>1. n \in 0..(m - 1) /\ (n # 0 => n - 1 \in 0..(m - 1))
            BY <3>1, <4>2
          <5> HIDE DEF h, next
          <5> QED BY <3>3, <3>5, <5>1
        <4> QED BY <4>1, <4>2
      <3>7. Keeps(h, events, m)
        <4>1. h = [n \in 0..m |-> h[n]]
          OBVIOUS
        <4> HIDE DEF h
        <4> QED BY <3>6, <4>1 DEF Keeps
      <3> HIDE DEF h
      <3> QED BY <2>2, <3>7
    <2> QED BY <2>3, <2>4
  <1> QED BY <1>1

LEMMA KeptGrows ==
    ASSUME NEW events \in Seq(Events), NEW n \in 1..Len(events), NEW q, KeptOf(q, events, n - 1)
    PROVE  KeptOf(IF events[n] = "RUN_SUCCEEDED" THEN q ELSE Append(q, events[n]), events, n)
  <1>1. /\ events[n] \in Events /\ n - 1 \in Nat /\ q \in Seq(Events)
        /\ \A e : (\E i \in 1..n : events[i] = e) <=> events[n] = e \/ \E i \in 1..(n - 1) : events[i] = e
    BY DEF KeptOf
  <1>2. n = 1 => q = <<>>
    <2>1. ASSUME n = 1, q # <<>> PROVE FALSE
      <3>1. Says(q, q[1])
        BY <1>1, <2>1 DEF Says
      <3> QED BY <2>1, <3>1 DEF KeptOf
    <2> QED BY <2>1
  <1>3. OneStart(events) => (events[n] = "RUN_STARTED" <=> n = 1)
    BY DEF OneStart
  <1>4. CASE events[n] = "RUN_SUCCEEDED"
    <2>1. OneStart(events) => n # 1
      BY <1>3, <1>4
    <2> QED BY <1>1, <1>4, <2>1 DEF KeptOf
  <1>5. CASE events[n] # "RUN_SUCCEEDED"
    <2> DEFINE p == Append(q, events[n])
    <2>1. /\ p \in Seq(Events) /\ p # <<>> /\ Last(p) = events[n]
          /\ DOMAIN p = DOMAIN q \cup {Len(q) + 1} /\ Len(q) + 1 \notin DOMAIN q
          /\ p[Len(q) + 1] = events[n] /\ \A i \in DOMAIN q : p[i] = q[i]
      BY <1>1 DEF Last
    <2>2. \A e : Says(p, e) <=> Says(q, e) \/ e = events[n]
      BY <2>1 DEF Says
    <2>3. OneStart(events) => OneStart(p)
      <3>1. CASE n = 1
        <4>1. q = <<>> /\ Len(q) = 0
          BY <1>2, <3>1
        <4> QED BY <1>3, <2>1, <3>1, <4>1 DEF OneStart
      <3>2. CASE n # 1
        <4>1. OneStart(events) => q # <<>> /\ OneStart(q) /\ events[n] # "RUN_STARTED"
          BY <1>1, <1>3, <3>2 DEF KeptOf
        <4>2. q # <<>> => Len(q) + 1 # 1
          BY <1>1
        <4> QED BY <2>1, <4>1, <4>2 DEF OneStart
      <3> QED BY <3>1, <3>2
    <2> HIDE DEF p
    <2>4. \A e : Says(p, e) <=> e # "RUN_SUCCEEDED" /\ \E i \in 1..n : events[i] = e
      BY <1>1, <1>5, <2>2 DEF KeptOf
    <2>5. KeptOf(p, events, n)
      BY <2>1, <2>3, <2>4 DEF KeptOf
    <2> QED BY <1>5, <2>5 DEF p
  <1> QED BY <1>4, <1>5

\* Whatever the trail, a failed call reports every event of it but RUN_SUCCEEDED:
\* the first one first, and the last one last.
LEMMA ReportableEvents ==
    ASSUME NEW events \in Seq(Events)
    PROVE  KeptOf(Reportable(events), events, Len(events))
  <1> DEFINE kept == CHOOSE kept : Keeps(kept, events, Len(events))
  <1>1. Reportable(events) = kept[Len(events)]
    BY DEF Reportable, Keeps
  <1>2. Keeps(kept, events, Len(events))
    BY KeepingIsDefined
  <1> HIDE DEF kept
  <1>3. \A n \in 0..Len(events) :
            kept[n] = IF n = 0 THEN <<>>
                      ELSE IF events[n] = "RUN_SUCCEEDED" THEN kept[n - 1]
                      ELSE Append(kept[n - 1], events[n])
    BY <1>2 DEF Keeps
  <1> DEFINE bad == {n \in 0..Len(events) : ~KeptOf(kept[n], events, n)}
  <1>4. ASSUME bad # {} PROVE FALSE
    <2>1. bad \in SUBSET Nat
      OBVIOUS
    <2>2. Min(bad) \in bad /\ \A y \in bad : Min(bad) <= y
      BY <1>4, <2>1, LeastPosition
    <2>3. PICK n \in bad : \A y \in bad : n <= y
      BY <2>2
    <2>4. CASE n = 0
      <3>1. kept[0] = <<>>
        BY <1>3
      <3>2. KeptOf(<<>>, events, 0)
        BY DEF KeptOf, Says
      <3> QED BY <2>3, <2>4, <3>1, <3>2
    <2>5. CASE n # 0
      <3>1. n \in 1..Len(events) /\ n - 1 \in 0..Len(events) /\ ~(n <= n - 1)
        BY <2>3, <2>5
      <3>2. KeptOf(kept[n - 1], events, n - 1)
        BY <2>3, <3>1
      <3>3. kept[n] = IF events[n] = "RUN_SUCCEEDED" THEN kept[n - 1]
                      ELSE Append(kept[n - 1], events[n])
        BY <1>3, <3>1
      <3>4. KeptOf(kept[n], events, n)
        BY <3>1, <3>2, <3>3, KeptGrows
      <3> QED BY <2>3, <3>4
    <2> QED BY <2>4, <2>5
  <1>5. Len(events) \in 0..Len(events)
    OBVIOUS
  <1> QED BY <1>1, <1>4, <1>5

-----------------------------------------------------------------------------
(* Published outcomes.                                                     *)

Running == {"initialization", "erp_ingestion", "gateway_ingestion", "reconciliation",
            "export", "finalizing"}

\* While a call runs, its trail tells how far it has come.
TrailTellsStage ==
    /\ at = "called" \/ (at = "idle" /\ sink # "database") => trail = <<>>
    /\ at \in Running =>
          /\ trail # <<>> /\ OneStart(trail) /\ ~Says(trail, "RUN_FAILED")
          /\ Says(trail, "RUN_SUCCEEDED") => at = "finalizing"
    /\ at \in Running \ {"initialization"} => Says(trail, "BANK_INGESTION_COMPLETED")
    /\ at \in Running \ {"initialization", "erp_ingestion"} =>
          Says(trail, "ERP_INGESTION_COMPLETED")
    /\ at \in {"export", "finalizing"} => rule = Over /\ Says(trail, "RECONCILIATION_COMPLETED")
    /\ at = "finalizing" => sink = "database" /\ Last(trail) = "RUN_SUCCEEDED"

\* A report is written in the last step of a call only.
ReportWaits ==
    /\ sink # "report" => report = "absent"
    /\ sink = "report" /\ at # "over" => report \in {"absent", "previous"}

\* A run is RUNNING while a call of the processor works on it, and has no events
\* before it has ended.
RowWaits ==
    /\ IF sink = "database" THEN at \notin {"idle", "over"} => run = "RUNNING"
                            ELSE run = "PENDING"
    /\ run \in {"PENDING", "RUNNING"} => stored = <<>>

CallInv == TypeOK /\ TrailTellsStage /\ ReportWaits /\ RowWaits /\ PublishedOutcomesAreTrue

Appended(p, q, e) ==
    /\ p \in Seq(Events) /\ p # <<>> /\ Last(p) = e
    /\ \A f : Says(p, f) <=> Says(q, f) \/ f = e
    /\ q # <<>> /\ OneStart(q) /\ e # "RUN_STARTED" => OneStart(p)
    /\ q = <<>> /\ e = "RUN_STARTED" => OneStart(p)

LEMMA AppendingAnEvent ==
    ASSUME NEW q \in Seq(Events), NEW e \in Events
    PROVE  Appended(Append(q, e), q, e)
  <1> DEFINE p == Append(q, e)
  <1>1. /\ p \in Seq(Events) /\ p # <<>> /\ Last(p) = e
        /\ DOMAIN p = DOMAIN q \cup {Len(q) + 1} /\ Len(q) + 1 \notin DOMAIN q
        /\ p[Len(q) + 1] = e /\ \A i \in DOMAIN q : p[i] = q[i]
    BY DEF Last
  <1>2. \A f : Says(p, f) <=> Says(q, f) \/ f = e
    BY <1>1 DEF Says
  <1>3. q # <<>> => Len(q) + 1 # 1
    OBVIOUS
  <1>4. q = <<>> => Len(q) = 0
    OBVIOUS
  <1> HIDE DEF p
  <1>5. q # <<>> /\ OneStart(q) /\ e # "RUN_STARTED" => OneStart(p)
    BY <1>1, <1>3 DEF OneStart
  <1>6. q = <<>> /\ e = "RUN_STARTED" => OneStart(p)
    BY <1>1, <1>4 DEF OneStart
  <1>7. Appended(p, q, e)
    BY <1>1, <1>2, <1>5, <1>6 DEF Appended
  <1> QED BY <1>7 DEF p

LEMMA NothingSaid == ~\E e : Says(<<>>, e)
  BY DEF Says

LEMMA InputStays == [Next]_vars => input' = input
  BY DEF Next, vars, engineVars, LoadBanks, LoadInvoices, LoadGateways, Reconcile,
         CompleteReconciliation, Workflow, Processor, StartWorkflow, Export, ExportFails,
         WorkflowFails, CallProcessor, StartTrail, Succeed, Store, Crash, NextAttempt, Raises,
         Proceeds, EngineNext, NextRule, ByBank, ByInvoice, BySettlement, Duplicates,
         ManyToOne, UnmatchedBank, ExactMatch, ToleranceMatch, OneToMany, UnmatchedInvoice,
         SettlementMatch, AwaitsSettlement, Takes, Shows, Passes

\* A step that only moves a call on and emits an event.
LEMMA ProceedingStep ==
    ASSUME CallInv, EngineTypes', NEW from, NEW to, NEW e, Proceeds(from, to), Emits(e),
           \/ /\ from = "idle" /\ sink # "database" /\ to = "initialization"
              /\ e = "RUN_STARTED"
           \/ from = "called" /\ to = "initialization" /\ e = "RUN_STARTED"
           \/ /\ from = "initialization" /\ to = "erp_ingestion"
              /\ e = "BANK_INGESTION_COMPLETED"
           \/ /\ from = "erp_ingestion" /\ to = "gateway_ingestion"
              /\ e = "ERP_INGESTION_COMPLETED"
           \/ /\ from = "gateway_ingestion" /\ to = "reconciliation"
              /\ e \in {"GATEWAY_INGESTION_COMPLETED", "GATEWAY_INGESTION_SKIPPED"}
           \/ /\ from = "reconciliation" /\ to = "export" /\ rule = Over
              /\ e = "RECONCILIATION_COMPLETED"
           \/ /\ from = "export" /\ sink = "database" /\ to = "finalizing"
              /\ e = "RUN_SUCCEEDED"
           \/ from # "over" /\ sink # "database" /\ to = "over" /\ e = "RUN_FAILED"
    PROVE  CallInv'
  <1>1. /\ at = from /\ at' = to
        /\ UNCHANGED <<sink, overwrite, attempt, report, run, stored, published>>
        /\ UNCHANGED engineVars
    BY DEF Proceeds, Outside
  <1>2. e \in Events /\ to \in Stages
    BY DEF Events, Stages
  <1>3. Appended(trail', trail, e)
    BY <1>2, AppendingAnEvent DEF Emits, CallInv, TypeOK
  <1>4. input' = input /\ rule' = rule /\ results' = results /\ Results' = Results
    BY <1>1 DEF engineVars, Results, Banks, Invoices, Gateways
  <1>5. TypeOK'
    BY <1>1, <1>2, <1>3, <1>4 DEF CallInv, TypeOK, Appended
  <1>6. TrailTellsStage'
    BY <1>1, <1>3, <1>4, NothingSaid
       DEF CallInv, TypeOK, Stages, TrailTellsStage, Appended, Running
  <1>7. ReportWaits' /\ RowWaits'
    BY <1>1 DEF CallInv, TypeOK, Stages, ReportWaits, RowWaits
  <1>8. PublishedOutcomesAreTrue'
    <2>1. at # "over"
      BY <1>1
    <2>2. report \notin {"partial", "complete"}
      BY <2>1 DEF CallInv, ReportWaits
    <2>3. sink = "report" => ~Says(trail', "RUN_SUCCEEDED")
      BY <1>1, <1>3, <2>1, <2>2 DEF CallInv, PublishedOutcomesAreTrue, Appended
    <2>4. \A e1 : Says(stored', e1) <=> Says(stored, e1)
      BY <1>1
    <2> QED BY <1>1, <1>4, <2>2, <2>3, <2>4 DEF CallInv, PublishedOutcomesAreTrue, Ingested
  <1> QED BY <1>5, <1>6, <1>7, <1>8 DEF CallInv

\* A call of the processor begins, or finds that the run has ended.
LEMMA CallStep ==
    ASSUME CallInv, EngineTypes', CallProcessor
    PROVE  CallInv'
  <1>1. /\ sink = "database" /\ at = "idle" /\ trail' = <<>>
        /\ UNCHANGED <<sink, overwrite, attempt, report, stored, published>>
        /\ input' = input /\ Results' = Results
    BY DEF CallProcessor, engineVars, Results, Banks, Invoices, Gateways
  <1>2. \/ /\ run \in {"SUCCEEDED", "FAILED"} /\ run' = run /\ at' = "over"
           /\ rule' = rule /\ results' = results
        \/ /\ run \in {"PENDING", "RUNNING"} /\ run' = "RUNNING" /\ at' = "called"
    BY DEF CallProcessor, engineVars
  <1>3. TypeOK'
    BY <1>1, <1>2 DEF CallInv, TypeOK, Stages
  <1>4. TrailTellsStage'
    BY <1>1, <1>2 DEF TrailTellsStage, Running
  <1>5. ReportWaits' /\ RowWaits'
    BY <1>1, <1>2 DEF CallInv, ReportWaits, RowWaits
  <1>6. PublishedOutcomesAreTrue'
    <2>1. report \notin {"partial", "complete"}
      BY <1>1 DEF CallInv, ReportWaits
    <2>2. run \in {"PENDING", "RUNNING"} => stored = <<>> /\ published = <<>>
      BY DEF CallInv, RowWaits, PublishedOutcomesAreTrue
    <2>3. \A e : Says(stored', e) <=> Says(stored, e)
      BY <1>1
    <2> QED BY <1>1, <1>2, <2>1, <2>2, <2>3, NothingSaid
            DEF CallInv, PublishedOutcomesAreTrue, Ingested
  <1> QED BY <1>3, <1>4, <1>5, <1>6 DEF CallInv

\* The engine works for a call that has published nothing yet.
LEMMA ReconcileStep ==
    ASSUME CallInv, EngineTypes', input' = input, Reconcile
    PROVE  CallInv'
  <1>1. /\ at = "reconciliation"
        /\ UNCHANGED <<sink, overwrite, attempt, at, trail, report, run, stored, published>>
        /\ Results' = Results
    BY DEF Reconcile, processVars, Results, Banks, Invoices, Gateways
  <1>2. TypeOK'
    BY <1>1 DEF CallInv, TypeOK
  <1>3. TrailTellsStage' /\ ReportWaits' /\ RowWaits'
    BY <1>1 DEF CallInv, TrailTellsStage, ReportWaits, RowWaits
  <1>4. report \notin {"partial", "complete"} /\ run # "SUCCEEDED"
    BY <1>1 DEF CallInv, ReportWaits, RowWaits
  <1>5. PublishedOutcomesAreTrue'
    BY <1>1, <1>4 DEF CallInv, PublishedOutcomesAreTrue
  <1> QED BY <1>2, <1>3, <1>5 DEF CallInv

\* Export appends two events, the failing export one.
LEMMA ExportStep ==
    ASSUME CallInv, EngineTypes', Export \/ ExportFails
    PROVE  CallInv'
  <1>1. /\ sink = "report" /\ at = "export" /\ at' = "over"
        /\ UNCHANGED <<sink, overwrite, attempt, run, stored, published>>
        /\ input' = input /\ rule' = rule /\ results' = results /\ Results' = Results
    BY DEF Export, ExportFails, engineVars, Results, Banks, Invoices, Gateways
  <1>2. /\ rule = Over /\ Ingested(trail) /\ ~Says(trail, "RUN_SUCCEEDED")
        /\ report \in {"absent", "previous"}
        /\ trail \in Seq(Events)
    BY <1>1 DEF CallInv, TrailTellsStage, ReportWaits, Running, Ingested, TypeOK
  <1>3. /\ trail' \in Seq(Events) /\ Ingested(trail')
        /\ report' \in {"absent", "previous", "partial", "complete"}
        /\ Says(trail', "RUN_SUCCEEDED") <=> report' = "complete"
    <2>1. CASE Export
      <3> DEFINE middle == Append(trail, "EXPORT_COMPLETED")
      <3>1. Appended(middle, trail, "EXPORT_COMPLETED")
        BY <1>2, AppendingAnEvent DEF Events
      <3>2. Appended(Append(middle, "RUN_SUCCEEDED"), middle, "RUN_SUCCEEDED")
        BY <3>1, AppendingAnEvent DEF Events, Appended
      <3>3. trail' = Append(middle, "RUN_SUCCEEDED") /\ report' = "complete"
        BY <1>2, <2>1 DEF Export
      <3> HIDE DEF middle
      <3> QED BY <1>2, <3>1, <3>2, <3>3 DEF Appended, Ingested
    <2>2. CASE ExportFails
      <3>1. Appended(trail', trail, "RUN_FAILED")
        BY <1>2, <2>2, AppendingAnEvent DEF ExportFails, Emits, Events
      <3>2. report' \in {report, "partial"}
        BY <2>2 DEF ExportFails
      <3> QED BY <1>2, <3>1, <3>2 DEF Appended, Ingested
    <2> QED BY <2>1, <2>2
  <1>4. TypeOK'
    BY <1>1, <1>3 DEF CallInv, TypeOK, Stages
  <1>5. TrailTellsStage' /\ ReportWaits' /\ RowWaits'
    BY <1>1 DEF CallInv, TrailTellsStage, ReportWaits, RowWaits, Running
  <1>6. PublishedOutcomesAreTrue'
    BY <1>1, <1>2, <1>3 DEF CallInv, PublishedOutcomesAreTrue
  <1> QED BY <1>4, <1>5, <1>6 DEF CallInv

\* The run, its results and its events change together.
LEMMA StoreStep ==
    ASSUME CallInv, EngineTypes', Store
    PROVE  CallInv'
  <1>1. /\ at = "finalizing" /\ at' = "over" /\ run = "RUNNING" /\ run' = "SUCCEEDED"
        /\ UNCHANGED <<sink, overwrite, attempt, trail, report>>
        /\ input' = input /\ rule' = rule /\ results' = results /\ Results' = Results
    BY DEF Store, engineVars, Results, Banks, Invoices, Gateways
  <1>2. /\ sink = "database" /\ rule = Over /\ Ingested(trail)
        /\ Last(trail) = "RUN_SUCCEEDED" /\ OneStart(trail) /\ ~Says(trail, "RUN_FAILED")
        /\ trail \in Seq(Events) /\ results \in Seq(Results)
        /\ stored = <<>> /\ published = <<>> /\ report = "absent"
    BY <1>1 DEF CallInv, TrailTellsStage, RowWaits, ReportWaits, PublishedOutcomesAreTrue,
                Running, Ingested, TypeOK, EngineTypes
  <1>3. stored' = trail /\ published' = results
    <2>1. <<>> \o trail = trail /\ <<>> \o results = results
      BY <1>2, ConcatEmptySeq
    <2> QED BY <1>2, <2>1 DEF Store, AppendEach
  <1>4. TypeOK'
    BY <1>1, <1>2, <1>3 DEF CallInv, TypeOK, Stages
  <1>5. TrailTellsStage' /\ ReportWaits' /\ RowWaits'
    BY <1>1, <1>2 DEF CallInv, TrailTellsStage, ReportWaits, RowWaits, Running
  <1>6. PublishedOutcomesAreTrue'
    BY <1>1, <1>2, <1>3 DEF PublishedOutcomesAreTrue, Ingested, OneStart
  <1> QED BY <1>4, <1>5, <1>6 DEF CallInv

\* A call that fails ends the run with the events of its trail, but without the
\* success it may have announced, or leaves the run to the next attempt.
LEMMA RaisesStep ==
    ASSUME CallInv, EngineTypes', NEW error, Raises(error)
    PROVE  CallInv'
  <1>1. /\ sink = "database" /\ at \notin {"idle", "over"} /\ at' = "over"
        /\ UNCHANGED <<sink, overwrite, attempt, report, published>>
        /\ input' = input /\ rule' = rule /\ results' = results /\ Results' = Results
    BY DEF Raises, engineVars, Results, Banks, Invoices, Gateways
  <1>2. /\ run = "RUNNING" /\ stored = <<>> /\ published = <<>> /\ report = "absent"
        /\ trail \in Seq(Events)
        /\ trail # <<>> => OneStart(trail) /\ ~Says(trail, "RUN_FAILED")
        /\ at \in Stages
    BY <1>1 DEF CallInv, TypeOK, RowWaits, ReportWaits, PublishedOutcomesAreTrue, TrailTellsStage,
                Running, Stages
  <1>3. ReportWaits' /\ TrailTellsStage'
    BY <1>1 DEF CallInv, ReportWaits, TrailTellsStage, Running
  <1>4. CASE UNCHANGED <<trail, run, stored>>
    <2>1. TypeOK' /\ RowWaits'
      BY <1>1, <1>2, <1>4 DEF CallInv, TypeOK, RowWaits, Stages
    <2>2. PublishedOutcomesAreTrue'
      BY <1>1, <1>2, <1>4, NothingSaid DEF CallInv, PublishedOutcomesAreTrue
    <2> QED BY <1>3, <2>1, <2>2 DEF CallInv
  <1>5. CASE /\ run' = "FAILED" /\ trail' = Failed
             /\ stored' = AppendEach(Reportable(Failed))
    <2>1. Failed \in Seq(Events) /\ Reportable(Failed) \in Seq(Events)
      <3>1. Failed \in Seq(Events)
        BY <1>2 DEF Failed, Events
      <3> QED BY <3>1, ReportableEvents DEF KeptOf
    <2>2. stored' = Reportable(Failed)
      BY <1>2, <1>5, <2>1, ConcatEmptySeq DEF AppendEach
    <2>3. /\ ~Says(Reportable(Failed), "RUN_SUCCEEDED")
          /\ Says(Reportable(Failed), "RUN_FAILED") => Last(Reportable(Failed)) = "RUN_FAILED"
          /\ OneStart(Reportable(Failed))
      <3>1. CASE trail = <<>>
        <4>1. Failed = <<>> /\ Len(Failed) = 0
          BY <3>1 DEF Failed
        <4>2. \A e : ~Says(Reportable(Failed), e)
          <5>1. KeptOf(Reportable(Failed), Failed, 0)
            BY <2>1, <4>1, ReportableEvents
          <5>2. 1..0 = {}
            OBVIOUS
          <5> QED BY <5>1, <5>2 DEF KeptOf
        <4>3. Reportable(Failed) = <<>>
          <5>1. ASSUME Reportable(Failed) # <<>> PROVE FALSE
            <6>1. Says(Reportable(Failed), Reportable(Failed)[1])
              BY <2>1, <5>1 DEF Says
            <6> QED BY <4>2, <6>1
          <5> QED BY <5>1
        <4> QED BY <4>2, <4>3 DEF OneStart
      <3>2. CASE trail # <<>>
        <4>1. Appended(Failed, trail, "RUN_FAILED") /\ Failed = Append(trail, "RUN_FAILED")
          BY <1>2, <3>2, AppendingAnEvent DEF Failed, Events
        <4>2. /\ Len(Failed) > 0 /\ OneStart(Failed)
              /\ Failed[Len(Failed)] = "RUN_FAILED"
          BY <1>2, <3>2, <4>1 DEF Appended
        <4> QED BY <2>1, <4>2, ReportableEvents DEF KeptOf
      <3> QED BY <3>1, <3>2
    <2>4. TypeOK' /\ RowWaits'
      BY <1>1, <1>2, <1>5, <2>1, <2>2 DEF CallInv, TypeOK, RowWaits, Stages
    <2>5. PublishedOutcomesAreTrue'
      BY <1>1, <1>2, <1>5, <2>2, <2>3 DEF PublishedOutcomesAreTrue, OneStart
    <2> QED BY <1>3, <2>4, <2>5 DEF CallInv
  <1> QED BY <1>4, <1>5 DEF Raises

\* The process dies, or the job is due again.
LEMMA AgainStep ==
    ASSUME CallInv, EngineTypes', Crash \/ NextAttempt
    PROVE  CallInv'
  <1>1. /\ sink = "database" /\ at' \in {"idle", "over"}
        /\ UNCHANGED <<sink, overwrite, report, run, stored, published, trail>>
        /\ input' = input /\ rule' = rule /\ results' = results /\ Results' = Results
    BY DEF Crash, NextAttempt, Outside, engineVars, Results, Banks, Invoices, Gateways
  <1>2. attempt' \in 1..MaxAttempts
    BY AttemptsAssumption DEF CallInv, TypeOK, Crash, NextAttempt, Outside, AttemptsLeft
  <1>3. TypeOK'
    BY <1>1, <1>2 DEF CallInv, TypeOK, Stages
  <1>4. TrailTellsStage' /\ ReportWaits' /\ RowWaits'
    BY <1>1 DEF CallInv, TrailTellsStage, ReportWaits, RowWaits, Running
  <1>5. PublishedOutcomesAreTrue'
    BY <1>1 DEF CallInv, PublishedOutcomesAreTrue
  <1> QED BY <1>3, <1>4, <1>5 DEF CallInv

LEMMA CallInvStep ==
    ASSUME CallInv, EngineTypes', [Next]_vars
    PROVE  CallInv'
  <1>1. CASE UNCHANGED vars
    <2>1. /\ UNCHANGED <<sink, overwrite, attempt, at, trail, report, run, stored, published>>
          /\ input' = input /\ rule' = rule /\ results' = results /\ Results' = Results
      BY <1>1 DEF vars, processVars, engineVars, Results, Banks, Invoices, Gateways
    <2>2. TypeOK'
      BY <2>1 DEF CallInv, TypeOK
    <2>3. TrailTellsStage' /\ ReportWaits' /\ RowWaits' /\ PublishedOutcomesAreTrue'
      BY <2>1 DEF CallInv, TrailTellsStage, ReportWaits, RowWaits, PublishedOutcomesAreTrue
    <2> QED BY <2>2, <2>3 DEF CallInv
  <1>2. CASE LoadBanks \/ LoadInvoices \/ LoadGateways \/ CompleteReconciliation
    BY <1>2, ProceedingStep DEF LoadBanks, LoadInvoices, LoadGateways, CompleteReconciliation
  <1>3. CASE StartWorkflow \/ WorkflowFails
    BY <1>3, ProceedingStep DEF StartWorkflow, WorkflowFails
  <1>4. CASE StartTrail \/ Succeed
    BY <1>4, ProceedingStep DEF StartTrail, Succeed
  <1> QED BY <1>1, <1>2, <1>3, <1>4, InputStays, CallStep, ReconcileStep, ExportStep, StoreStep,
             RaisesStep, AgainStep
          DEF Next, Workflow, Processor

LEMMA CallInvHolds == Spec => []CallInv
  <1>1. Init => CallInv
    <2> SUFFICES ASSUME Init PROVE CallInv
      OBVIOUS
    <2>1. EngineTypes
      BY FreshInv DEF Init, EngineInit, Fresh, EInv
    <2>2. /\ at = "idle" /\ run = "PENDING" /\ trail = <<>> /\ stored = <<>> /\ published = <<>>
          /\ attempt = 1 /\ sink \in {"report", "unsupported", "database"}
          /\ overwrite \in BOOLEAN
          /\ report \in {"absent", "previous"} /\ (sink # "report" => report = "absent")
      BY DEF Init
    <2>3. TypeOK
      BY <2>1, <2>2, AttemptsAssumption DEF TypeOK, Stages
    <2>4. TrailTellsStage /\ ReportWaits /\ RowWaits
      BY <2>2 DEF TrailTellsStage, ReportWaits, RowWaits, Running
    <2>5. PublishedOutcomesAreTrue
      BY <2>2, NothingSaid DEF PublishedOutcomesAreTrue
    <2> QED BY <2>3, <2>4, <2>5 DEF CallInv
  <1>2. EInv => EngineTypes
    BY DEF EInv
  <1>3. (EInv => EngineTypes)'
    BY <1>2, PTL
  <1>4. CallInv /\ EngineTypes' /\ [Next]_vars => CallInv'
    BY CallInvStep
  <1> QED BY <1>1, <1>3, <1>4, EngineInvariant, PTL DEF Spec

\* The type invariant of a call: in particular the attempts stay within the limit
\* and only known events are stored.
THEOREM CallTypeCorrect == Spec => []TypeOK
  <1>1. CallInv => TypeOK
    BY DEF CallInv
  <1> QED BY <1>1, CallInvHolds, PTL

\* "Export happens only after every input has loaded and reconciliation succeeds"
\* (workflow.py:59), in any number of attempts: what is published is what the
\* engine said at its end, and no stored event claims what did not happen.
THEOREM OutcomesAreTrue == Spec => []PublishedOutcomesAreTrue
  <1>1. CallInv => PublishedOutcomesAreTrue
    BY DEF CallInv
  <1> QED BY <1>1, CallInvHolds, PTL

-----------------------------------------------------------------------------
(* Groups and files.                                                       *)

\* The group rules try the sizes in ascending order and stop at the first one
\* that a single group has: whatever the records, a payment is matched with
\* one group of invoices at most, and an invoice with one group of payments.
THEOREM GroupsAreUnique ==
    ASSUME NEW b, NEW v
    PROVE  /\ \A S, T \in InvoiceGroups(b) : S = T
           /\ \A S, T \in BankGroups(v) : S = T
  <1>1. ASSUME NEW matches, \A S \in matches : Cardinality(S) \in Int
        PROVE  \A S, T \in Smallest(matches) : S = T
    <2> SUFFICES ASSUME NEW S \in Smallest(matches), NEW T \in Smallest(matches)
                 PROVE  S = T
      OBVIOUS
    <2>1. /\ S \in matches /\ OnlyOne(S, matches)
          /\ T \in matches /\ OnlyOne(T, matches)
          /\ Cardinality(S) <= Cardinality(T) /\ Cardinality(T) <= Cardinality(S)
      BY Zenon DEF Smallest
    <2>2. Cardinality(S) = Cardinality(T)
      BY <1>1, <2>1
    <2> QED BY <2>1, <2>2 DEF OnlyOne
  <1>2. \A W : \A S \in Groups(W) : Cardinality(S) \in Int
    BY ConfigAssumption DEF Groups
  <1> QED BY <1>1, <1>2 DEF InvoiceGroups, BankGroups

\* One column, and no other, is read for the field.
OnlyColumn(source, mapping, file, h, field) ==
    /\ h \in Range(file.headers) /\ Resolved(source, mapping, file)[h] = field
    /\ \A g \in Columns(source, mapping, file) :
          Resolved(source, mapping, file)[g] = field => g = h

\* In row i of the file the field has a value of its type.
Provides(source, mapping, file, i, field) ==
    \E h \in Columns(source, mapping, file) :
        /\ OnlyColumn(source, mapping, file, h, field)
        /\ Filled(file.rows[i].cells[h]) /\ Converted(file.rows[i].cells[h])

\* A file that is accepted gives every record it yields each of its required
\* fields, from one column: in every row, or for an invoice in the first of its
\* lines, whatever headers, aliases and mapping the columns are found by.
THEOREM LoadedRecordsAreComplete ==
    ASSUME NEW source \in DOMAIN Fields, NEW mapping, NEW file, Loads(source, mapping, file)
    PROVE  /\ source # "erp" => \A i \in Rows(file), field \in Required[source] :
                                    Provides(source, mapping, file, i, field)
           /\ source = "erp" =>
                 /\ \A i \in Rows(file), field \in Required["erp"] \cap LineFields :
                       Provides("erp", mapping, file, i, field)
                 /\ \A i \in FirstLines(file), field \in Required["erp"] :
                       Provides("erp", mapping, file, i, field)
  <1>1. ASSUME NEW i, NEW fields, Converts(source, mapping, file, i, fields),
               NEW field \in Required[source] \cap fields
        PROVE  Provides(source, mapping, file, i, field)
    <2> DEFINE resolved == Resolved(source, mapping, file)
    <2>1. IsInjective(resolved) /\ field \in Range(resolved)
      BY Zenon DEF Loads, Maps
    <2>2. DOMAIN resolved = Columns(source, mapping, file)
      BY DEF Resolved
    <2>3. PICK h \in Columns(source, mapping, file) : resolved[h] = field
      BY <2>1, <2>2 DEF Range
    <2>4. OnlyColumn(source, mapping, file, h, field)
      <3>1. \A g \in Columns(source, mapping, file) : resolved[g] = field => g = h
        BY <2>1, <2>2, <2>3 DEF IsInjective
      <3> QED BY <2>3, <3>1, Zenon DEF OnlyColumn, Columns
    <2>5. Converted(file.rows[i].cells[h]) /\ Filled(file.rows[i].cells[h])
      BY <1>1, <2>3, Zenon DEF Converts
    <2> QED BY <2>4, <2>5 DEF Provides
  <1>2. CASE source # "erp"
    <2>1. \A i \in Rows(file) : Converts(source, mapping, file, i, Fields[source])
      BY <1>2 DEF Loads
    <2> QED BY <1>1, <1>2, <2>1, FieldsAssumption
  <1>3. CASE source = "erp"
    <2>1. ConvertsInvoices(mapping, file)
      BY <1>3 DEF Loads
    <2>2. \A i \in Rows(file), field \in Required["erp"] \cap LineFields :
              Provides("erp", mapping, file, i, field)
      BY <1>1, <1>3, <2>1 DEF ConvertsInvoices
    <2>3. ASSUME NEW i \in FirstLines(file), NEW field \in Required["erp"]
          PROVE  Provides("erp", mapping, file, i, field)
      <3>1. i \in Rows(file)
        BY DEF FirstLines
      <3>2. CASE field \in LineFields
        BY <2>2, <3>1, <3>2
      <3>3. CASE field \notin LineFields
        <4>1. Converts("erp", mapping, file, i, Fields["erp"] \ LineFields)
          BY <2>1 DEF ConvertsInvoices
        <4> QED BY <1>1, <1>3, <3>3, <4>1, FieldsAssumption
      <3> QED BY <3>2, <3>3
    <2> QED BY <1>3, <2>2, <2>3
  <1> QED BY <1>2, <1>3
=============================================================================
