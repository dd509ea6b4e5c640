-------------------------- MODULE MCReconciliation --------------------------
(***************************************************************************)
(* RunProcessing on families of small inputs, each built around what some  *)
(* rules compete for.                                                      *)
(***************************************************************************)
EXTENDS RunProcessing

\* A booked incoming payment, an unpaid invoice, a captured payment.
Bank(id, amount, fingerprint) ==
    [id |-> id, amount |-> amount, currency |-> "EUR", status |-> "BOOKED",
     direction |-> "CREDIT", reversal |-> "no", fingerprint |-> fingerprint]
Line(id, quantity, price) ==
    [id |-> id, number |-> id, quantity |-> quantity, price |-> price, discount |-> 1,
     charge |-> 0, net |-> quantity * price - 1, tax |-> 1, gross |-> quantity * price]
Invoice(due, references) ==
    [lines |-> <<Line(1, 2, due + 1)>>, subtotal |-> 2 * due + 1, discount |-> due + 1,
     charge |-> 0, tax |-> 1, total |-> due + 1, settled |-> 1, due |-> due,
     currency |-> "EUR", references |-> references]
Gateway(id, settlement, gross, deductions, reference) ==
    [id |-> id, settlement |-> settlement, gross |-> gross, deductions |-> deductions,
     adjustment |-> 0, net |-> gross - deductions, currency |-> "EUR", payout |-> "EUR",
     rated |-> FALSE, reference |-> reference]

\* Two fields a source, two of them with an alias; a line is its net amount.
MCFields ==
    [bank |-> {"amount", "category"}, erp |-> {"number", "net"}, gateway |-> {"amount"}]
MCRequired == [bank |-> {"amount"}, erp |-> {"number", "net"}, gateway |-> {"amount"}]
MCLineFields == {"net"}
MCNames ==
    [h \in {"amount", "total", "category", "number", "no", "net"} |->
        CASE h = "total" -> "amount" [] h = "no" -> "number" [] OTHER -> h]

Header(source) == IF source = "erp" THEN <<"number", "net">> ELSE <<"amount">>
File(format, headers) ==
    [format |-> format, headers |-> headers,
     rows |-> <<[invoice |-> 1, cells |-> [h \in Range(headers) |-> "fits"]]>>]
Files == [source \in {"bank", "erp", "gateway"} |-> File("csv", Header(source))]
NoGateway == [Files EXCEPT !["gateway"] = File("absent", <<>>)]
NoMappings == [source \in {"bank", "erp", "gateway"} |-> <<>>]
Given(banks, invoices, refers) ==
    [files |-> NoGateway, mappings |-> NoMappings,
     banks |-> banks, invoices |-> invoices, gateways |-> <<>>,
     refers |-> refers, pays |-> {}]

\* Two payments, duplicates of each other or not, and two invoices.
Ordinary ==
    {Given(<<Bank(1, a, 1), Bank(2, b, f)>>, <<Invoice(c, {"i1"}), Invoice(d, {"i2"})>>, refers) :
        a \in 1..3, b \in 1..3, c \in 1..2, d \in 1..2, f \in 1..2,
        refers \in SUBSET ((1..2) \X (1..2))}

\* Two groups of duplicates and a payment, all of which may refer to one invoice.
Repeated ==
    {Given(<<Bank(1, 1, 1), Bank(2, 1, 2), Bank(3, 1, f), Bank(4, 1, 1), Bank(5, 1, g)>>,
           <<Invoice(1, {"i1"})>>, S \X {1}) :
        f \in 2..3, g \in 1..4, S \in SUBSET (1..5)}

\* Partial payments: three payments, two of them perhaps duplicates, one invoice.
Partial ==
    {Given(<<Bank(1, a, 1), Bank(2, b, 2), Bank(3, c, f)>>, <<Invoice(4, {"i1"})>>, S \X {1}) :
        a \in 1..2, b \in 1..3, c \in 1..3, f \in 2..3, S \in SUBSET (1..3)}

\* Collective payments: three invoices, one of them perhaps in another currency.
Collective ==
    {Given(<<Bank(1, a, 1)>>,
           <<Invoice(1, {"i1"}), Invoice(d, {"i2"}),
             [Invoice(2, {"i3"}) EXCEPT !.currency = c]>>, {1} \X S) :
        a \in 2..5, d \in 1..2, c \in {"EUR", "USD"}, S \in SUBSET (1..3)}

\* Two settlements or one, their payouts, and invoices they may name.
Settled ==
    {[Given(<<Bank(1, 1, 1), Bank(2, a, f)>>,
            <<Invoice(2, {"i1", p}), Invoice(d, {"i2"})>>, refers)
        EXCEPT !.files = Files, !.pays = pays,
               !.gateways = <<Gateway(1, 1, 2, 1, q), Gateway(2, s, 1, 0, "i2")>>] :
        a \in 1..2, f \in 1..2, d \in 1..3, s \in 1..2,
        p \in {NoReference, "p1"}, q \in {NoReference, "p1"},
        refers \in {{}, {<<2, 2>>}}, pays \in SUBSET {<<1, 1>>, <<2, 1>>, <<1, 2>>}}

\* Payments that do not count, other currencies, files that are not loaded.
Base ==
    [Given(<<Bank(1, 1, 1), Bank(2, 2, 2)>>,
           <<Invoice(2, {"i1", "p1"}), Invoice(2, {"i2", NoReference})>>, (1..2) \X (1..2))
        EXCEPT !.files = Files, !.pays = {<<1, 1>>, <<2, 2>>},
               !.gateways = <<Gateway(1, 1, 2, 1, "p1"), Gateway(2, 2, 2, 0, NoReference)>>]
Forms ==
    {[Base EXCEPT !.files[source] = File(format, Header(source))] :
        source \in {"bank", "erp", "gateway"}, format \in {"xlsx", "other", "absent"}}
    \cup {[Base EXCEPT !.files["bank"] = File("csv", headers), !.mappings["bank"] = mapping] :
              headers \in {<<>>, <<"total">>, <<"amount", "amount">>, <<"amount", "total">>,
                          <<"category">>, <<"amount", "colour">>, <<NoHeader, "amount">>},
              mapping \in {<<>>, [h \in {"category"} |-> "amount"],
                           [h \in {"colour"} |-> "shade"]}}

\* A row that has something in no column, and one that lacks a value or has a
\* wrong one: the second row of an invoice or the first one of another.
Cells ==
    {[Base EXCEPT !.files["bank"] =
        [File("csv", <<"amount", "category", "colour">>) EXCEPT !.rows =
            Append(@, [invoice |-> 2, cells |-> [amount |-> a, category |-> c, colour |-> d]])]] :
        a \in {"fits", "unfit", "empty", "blank"}, c \in {"fits", "unfit", "empty"},
        d \in {"unfit", "empty"}}
    \cup {[Base EXCEPT !.files["erp"] =
        [File("csv", <<"no", "net">>) EXCEPT !.rows =
            Append(@, [invoice |-> i, cells |-> [no |-> a, net |-> b]])]] :
        i \in 1..2, a \in {"fits", "unfit", "empty"}, b \in {"fits", "unfit", "empty"}}

Odd ==
    Forms \cup Cells \cup
        {[Base EXCEPT !.banks[1].status = "PENDING"],
          [Base EXCEPT !.banks[1].direction = "DEBIT"],
          [Base EXCEPT !.banks[1].reversal = "other"],
          [Base EXCEPT !.banks[1].reversal = "unnamed"],
          [Base EXCEPT !.banks[1].currency = "USD"],
          [Base EXCEPT !.banks[1].amount = 0],
          [Base EXCEPT !.banks[2].id = 1],
          [Base EXCEPT !.invoices[1].settled = 0],
          [Base EXCEPT !.invoices[1].subtotal = 4],
          [Base EXCEPT !.invoices[1].lines = <<>>],
          [Base EXCEPT !.invoices[1].lines[1].price = 4],
          [Base EXCEPT !.invoices[1].lines = <<Line(1, 1, 4), Line(1, 1, 3)>>],
          [Base EXCEPT !.invoices[1].lines = <<Line(1, 1, 4), Line(2, 1, 3)>>],
          [Base EXCEPT !.invoices[1].lines = <<Line(1, 1, 4), Line(2, 1, 3)>>,
                       !.invoices[1].tax = 2, !.invoices[1].discount = 4],
          [Base EXCEPT !.gateways[1].deductions = 0],
          [Base EXCEPT !.gateways[1].payout = "USD"],
          [Base EXCEPT !.gateways[1].payout = "USD", !.gateways[1].rated = TRUE],
          [Base EXCEPT !.gateways[2].id = 1]}

\* Entries of one group share what the fingerprint holds.
Consistent(x) ==
    \A b, c \in DOMAIN x.banks : x.banks[b].fingerprint = x.banks[c].fingerprint =>
        /\ x.banks[b].amount = x.banks[c].amount
        /\ \A g \in DOMAIN x.gateways : <<b, g>> \in x.pays <=> <<c, g>> \in x.pays

MCInputs ==
    {x \in UNION {Ordinary, Repeated, Partial, Collective, Settled, Odd} : Consistent(x)}
=============================================================================
