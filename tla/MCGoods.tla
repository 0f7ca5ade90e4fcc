----------------------------- MODULE MCGoods ------------------------------
(***************************************************************************)
(* Stock and Trading on two godowns and a vendor's, three calls at a time;  *)
(* Gst on the seeded rates; Payloads on invoices of one and two lines.      *)
(* Reports on three postings over two days, one report at a time; YearEnd,  *)
(* Assets and Forex on four overlapping calls each.                         *)
(* They share no state: focus is the one a behaviour is about.              *)
(***************************************************************************)
EXTENDS Trading, Payloads, Reports, YearEnd, Assets, Forex, TLC
CONSTANTS c1, c2, c3, c4, shelf, plant, vendorBin

MCOpening == <<[bin |-> shelf, left |-> 1], [bin |-> shelf, left |-> 2],
               [bin |-> plant, left |-> 2]>>
MCFactor == ("piece" :> 1) @@ ("box" :> 2)

Line(b, q) == [bin |-> b, qty |-> q, uom |-> "piece"]
Sale(k, ls) == [kind |-> "sale", key |-> k, lines |-> ls]
Produce(over) == [kind |-> "produce", uses |-> <<Line(plant, 1)>>, makes |-> <<Line(shelf, 1)>>,
                  material |-> 2, overhead |-> over, byProducts |-> 1]
Adjust(move, b, q) == [kind |-> "move", move |-> move, lines |-> <<Line(b, q)>>]
Goods(i, t, b, q) == [item |-> i, type |-> t, bin |-> b, to |-> vendorBin, qty |-> q]
Send(ls) == [kind |-> "sendOut", vendor |-> "v", lines |-> ls]
Receive(of, ls) == [kind |-> "receive", of |-> of, vendor |-> "v", lines |-> ls]
Counter == [kind |-> "counter"]

(* Sales that share a bin and a key, beside production or a transfer.       *)
Selling == (c1 :> Sale("k1", <<Line(shelf, 1), [bin |-> shelf, qty |-> 1, uom |-> "box"]>>))
        @@ (c2 :> Sale("k1", <<Line(shelf, 1)>>)) @@ (c3 :> Produce(2))
Adjusting == (c1 :> Sale("k1", <<Line(shelf, 3)>>)) @@ (c2 :> Adjust("ADJUSTMENT_OUT", shelf, 2))
          @@ (c3 :> Adjust("TRANSFER_OUT", shelf, 2))
(* A vendor gets two goods and returns them with two challans at a time.    *)
Jobbing == (c1 :> Send(<<Goods("i", "FINISHED_GOOD", shelf, 1), Goods("j", "SCRAP", plant, 2)>>))
        @@ (c2 :> Receive(c1, <<Goods("i", "FINISHED_GOOD", shelf, 1), Goods("j", "SCRAP", plant, 1)>>))
        @@ (c3 :> Receive(c1, <<Goods("j", "SCRAP", plant, 1)>>))
Vendors == (c1 :> Send(<<Goods("i", "FINISHED_GOOD", shelf, 1)>>))
        @@ (c2 :> Send(<<Goods("i", "RAW_MATERIAL", plant, 1)>>))
        @@ (c3 :> Receive(c2, <<Goods("i", "RAW_MATERIAL", vendorBin, 1)>>))
Splitting == (c1 :> Send(<<Goods("i", "SCRAP", shelf, 2)>>))
          @@ (c2 :> Receive(c1, <<Goods("i", "SCRAP", shelf, 1), Goods("i", "SCRAP", shelf, 2)>>))
Mixing == (c1 :> Send(<<Goods("i", "SCRAP", shelf, 2), Goods("i", "PACKING", plant, 1)>>))
       @@ (c2 :> Receive(c1, <<Goods("i", "SCRAP", shelf, 1), Goods("i", "PACKING", shelf, 1)>>))
Counting == [c \in {c1, c2, c3} |-> Counter]
Refusals == (c1 :> Sale("k2", <<Line(shelf, 1)>>)) @@ (c2 :> Produce(2)) @@ (c3 :> Counter)
Lopsided == (c1 :> Produce(1))

MCSettings == {[asked |-> a, rejected |-> {}] :
                    a \in {Selling, Adjusting, Jobbing, Splitting, Mixing, Vendors, Counting, Lopsided}}
              \cup {[asked |-> a, rejected |-> Unstorable] : a \in {Refusals, Vendors}}

MCRate == {500, 1200, 1800, 2800}
MCCess == {0, 1200, 2200}
MCPrice == 0 .. 24 \cup {49, 50, 51, 149, 150, 499999, 500000, 500001}
MCCode == {[i \in 1 .. 14 |-> (i * k) % 36] : k \in {0, 5, 7, 35}}
MCTenders == {<<[code |-> "CARD", amount |-> a]>> : a \in {0, 100, 200}}
        \cup {<<[code |-> "CARD", amount |-> 100], [code |-> "CASH", amount |-> 100]>>}

Taxed(code, value, rate, cess) == [code |-> code, value |-> value, rate |-> rate, cess |-> cess]
MCInvoices == [
    lines : {<<Taxed("8471", 10001, 1800, 0)>>,
             <<Taxed("8471", 10001, 1800, 0), Taxed("8703", 50051, 2800, 2200)>>,
             <<Taxed("8471", 10001, 1800, 0), Taxed("8471", 333, 1800, 0)>>,
             <<Taxed("8471", 10001, 1800, 0), Taxed("9983", 10001, 500, 0)>>},
    interstate : BOOLEAN, region : {"state", "bare"},
    buyer : {"active", "none", "inactive"}, seller : {"active", "inactive"}]
MCTrips == [same : BOOLEAN, google : {Unknown, 12, 840}, table : {Unknown, 9, 700}]

Posted(debit, credit, amount, year) == [debit |-> debit, credit |-> credit, amount |-> amount, year |-> year]
MCPostingOf == <<Posted(1, 2, 5, 2025), Posted(2, 3, 3, 2024), Posted(1, 3, 4, 2025)>>
MCQuestions ==
    [kind : {"trial"}, day : {0}, year : {2025}]
    \cup [kind : {"ledger"}, account : {1, 3}, from : {1}, to : {1}]
    \cup {[kind |-> "rebuild"]}

Close == [kind |-> "close"]
Dated(day, lines) == [kind |-> "post", day |-> day, lines |-> lines]
SoldFor(n) == [sales |-> n]
Both(s, r) == [sales |-> s, rent |-> r]
Ends(a, b, c, d) == (c1 :> a) @@ (c2 :> b) @@ (c3 :> c) @@ (c4 :> d)
MCEndSettings == {
    Ends(Close, Close, Dated(1, SoldFor(10)), Dated(2, Both(5, -5))),
    Ends(Close, [kind |-> "reopen"], Dated(2, SoldFor(10)), Close),
    Ends(Close, [kind |-> "reopen"], Dated(1, Both(10, -14)), Dated(2, SoldFor(-3))),
    Ends(Close, Dated(1, Both(4, -9)), Dated(2, Both(5, 2)), Dated(3, SoldFor(7)))}

Depreciate(y, acts) == [year |-> y, acts |-> acts]
It == <<"INCOME_TAX">>
Ca == <<"COMPANIES_ACT">>
Asset(value, residual, slm, bought) ==
    [value |-> value, residual |-> residual, slm |-> slm, rate |-> 4000, bought |-> bought]
MCAssets == <<Asset(100000, 5000, 6000, -40), Asset(33335, 0, 0, 185), Asset(7001, 1, 10000, 500)>>
MCDeprSettings == {[assets |-> MCAssets, calls |-> calls] : calls \in {
    Ends(Depreciate(0, It \o Ca), Depreciate(0, It), Depreciate(1, Ca), Depreciate(1, It)),
    Ends(Depreciate(0, Ca), Depreciate(1, Ca), Depreciate(2, Ca), Depreciate(1, Ca))}}

Owing(kind, currency, amount) == [kind |-> kind, currency |-> currency, amount |-> amount, rate |-> 8345]
OnDay(currency, month, rate) == [currency |-> currency, month |-> month, rate |-> rate]
Revalue(months) == [kind |-> "revalue", months |-> months]
SettleItem(e, rate) == [kind |-> "settle", of |-> e, rate |-> rate]
MCItems == <<Owing("RECEIVABLE", "USD", 1001), Owing("PAYABLE", "USD", 333), Owing("LOAN_TAKEN", "EUR", 7)>>
MCFxSettings == {[items |-> MCItems, open |-> open, accounts |-> accounts, calls |-> calls,
                  rates |-> {OnDay("USD", 1, 8412), OnDay("USD", 2, 8301)}] :
    open \in {{1, 2}}, accounts \in {{"gain", "loss"}, {"gain"}}, calls \in {
        Ends(Revalue(<<1, 2>>), Revalue(<<2>>), SettleItem(1, 8400), SettleItem(1, 8300)),
        Ends(Revalue(<<1>>), [kind |-> "register", of |-> 3], SettleItem(3, 8400), Revalue(<<2, 3>>)),
        Ends(Revalue(<<1>>), [kind |-> "rate", rate |-> OnDay("USD", 1, 8345)],
             [kind |-> "rate", rate |-> OnDay("EUR", 2, 9100)], Revalue(<<1>>))}}

VARIABLE focus
Init ==
    /\ focus \in {"trading", "gst", "payload", "reports", "yearEnd", "assets", "forex"} /\ GstInit
    /\ TradingInit /\ ReportInit /\ EndInit /\ DeprInit /\ FxInit
    /\ focus # "forex" => "months" \in DOMAIN fxAsked.calls[c2] /\ fxAsked.accounts = {"gain"}
    /\ focus # "assets" => Len(deprAsked.calls[c1].acts) = 2
    /\ focus # "yearEnd" => endAsked = Ends(Close, Close, Dated(1, SoldFor(10)), Dated(2, Both(5, -5)))
    /\ focus # "reports" => asked = [kind |-> "rebuild"]
    /\ focus # "trading" => setting = [asked |-> Lopsided, rejected |-> {}]
(* A behaviour about a report ends with it; no date matters to a rebuild.   *)
Read == rebuild.stage = "done" \/ (report.kind \in {"trial", "ledger"} /\ report.done)
Next ==
    /\ \/ focus = "trading" /\ TradingNext /\ UNCHANGED <<gstVars, reportVars, endVars, deprVars, fxVars>>
       \/ focus = "gst" /\ GstNext /\ UNCHANGED <<tradingVars, reportVars, endVars, deprVars, fxVars>>
       \/ focus = "payload" /\ PayloadNext /\ UNCHANGED <<tradingVars, reportVars, endVars, deprVars, fxVars>>
       \/ focus = "reports" /\ ~Read /\ ReportNext /\ (asked.kind = "rebuild" => now' = 0) /\ UNCHANGED <<tradingVars, gstVars, endVars, deprVars, fxVars>>
       \/ focus = "yearEnd" /\ EndNext /\ UNCHANGED <<tradingVars, gstVars, reportVars, deprVars, fxVars>>
       \/ focus = "assets" /\ DeprNext /\ UNCHANGED <<tradingVars, gstVars, reportVars, endVars, fxVars>>
       \/ focus = "forex" /\ FxNext /\ UNCHANGED <<tradingVars, gstVars, reportVars, endVars, deprVars>>
    /\ UNCHANGED focus
Spec == Init /\ [][Next]_<<tradingVars, gstVars, reportVars, endVars, deprVars, fxVars, focus>>
=============================================================================
