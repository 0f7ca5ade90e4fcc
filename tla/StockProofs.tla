---------------------------- MODULE StockProofs ----------------------------
(***************************************************************************)
(* The stock ledger and the services of Trading over it: types, StockAddsUp *)
(* and ServicesAddUp for any calls, bins, opening layers, requests and      *)
(* interleaving of the statements of triggers and services.                 *)
(*                                                                         *)
(* Stock.  What a transaction carries is what its movements come to: its    *)
(* new layers less what it has taken of those it holds are its movements    *)
(* with a layer less those that consume (Counted), and its changes of       *)
(* stock_valuations are what came in less what went out (Changes).  A       *)
(* commit adds the two sums up (CommitGoes).  That the layers of the others *)
(* are not disturbed by it needs that a layer is held by one transaction    *)
(* (Apart); that none falls below zero, that a holder takes no more than is *)
(* left (Reaches), which is what the loop over the layers, oldest first,    *)
(* does (OldestFirst).                                                      *)
(*                                                                         *)
(* Services.  A service has moved what its program has before the statement *)
(* it stands at (Here), which is all of it at COMMIT (Atomic).  A sale past *)
(* its claim has a key, its own or one it found (KeyStands).  What an IN    *)
(* challan will add follows from the statements it is past (Receiving), and *)
(* what others commit meanwhile only adds (Grows), so that a status that    *)
(* was right when read is right when written.  One counter at a time has    *)
(* passed the unique index, with the next number (OneCounts).               *)
(***************************************************************************)
EXTENDS Trading, SumTheorems

-----------------------------------------------------------------------------
(* What a service does next: a statement of its own, or a movement.         *)
Words == {"findKey", "claimKey", "taxEntries", "findGodown", "claimGodown", "challan", "findChallan",
          "receipt", "readStatus", "writeStatus", "journal", "number", "invoice"}
Statement == [do : Words] \cup [do : Inward \cup Outward \cup {"challan"}, bin : Bin, qty : Nat \ {0}]

LEMMA SaysMovement ==
    ASSUME NEW e \in Statement, e.do \in Inward \cup Outward
    PROVE  e.bin \in Bin /\ e.qty \in Nat \ {0}
  BY DEF Statement, Words, Inward, Outward, Consuming

LEMMA DoIs == ASSUME NEW w \in Words PROVE Do(w) \in Seq(Statement)
  BY DEF Do, Statement

LEMMA LinesAre == ASSUME NEW ls, AreLines(ls) PROVE Len(ls) \in Nat /\ DOMAIN ls = 1 .. Len(ls)
  BY DEF AreLines

LEMMA MovesAre ==
    ASSUME NEW kind \in Inward \cup Outward, NEW ls, AreLines(ls)
    PROVE  Moves(kind, ls) \in Seq(Statement)
<1>1. Len(ls) \in Nat /\ DOMAIN ls = 1 .. Len(ls)
  BY LinesAre
<1>2. \A i \in 1 .. Len(ls) : [do |-> kind, bin |-> ls[i].bin, qty |-> ls[i].qty] \in Statement
  BY <1>1 DEF AreLines, Statement
<1>3. Moves(kind, ls) = [i \in 1 .. Len(ls) |-> [do |-> kind, bin |-> ls[i].bin, qty |-> ls[i].qty]]
  BY <1>1 DEF Moves
<1> QED
  BY <1>1, <1>2, <1>3

LEMMA BaseIs == ASSUME NEW q \in Nat \ {0}, NEW u PROVE ToBase(q, u) \in Nat \ {0}
<1>1. CASE u \in Uom
  <2>1. Factor[u] \in Nat \ {0}
    BY <1>1, TradingAssumption
  <2>2. PICK f \in Nat \ {0} : f = Factor[u]
    BY <2>1
  <2>3. q * f \in Nat /\ q * f # 0
    OBVIOUS
  <2> QED
    BY <2>2, <2>3 DEF ToBase
<1>2. CASE u \notin Uom
  BY <1>2 DEF ToBase
<1> QED
  BY <1>1, <1>2

(* Where the statements of a service stand among its movements.             *)
LEMMA Appended ==
    ASSUME NEW S, NEW a \in Seq(S), NEW b \in Seq(S)
    PROVE  /\ a \o b \in Seq(S) /\ Len(a) \in Nat /\ Len(b) \in Nat
           /\ Len(a \o b) = Len(a) + Len(b)
           /\ \A i \in 1 .. Len(a) : (a \o b)[i] = a[i]
           /\ \A i \in 1 .. Len(b) : (a \o b)[Len(a) + i] = b[i]
  OBVIOUS

Moving(s) == s.do \in Inward \cup Outward
Inner(s) == Moving(s) \/ s.do = "challan"
AreMoves(ms) == ms \in Seq(Statement) /\ \A i \in 1 .. Len(ms) : Inner(ms[i])

(* The words of a service before its movements, and after them; a line of a *)
(* challan that moves nothing stands among them.                            *)
Program(all, first, ms, last) ==
    /\ all \in Seq(Statement)
    /\ Len(first) \in Nat /\ Len(ms) \in Nat /\ Len(last) \in Nat
    /\ Len(all) = Len(first) + Len(ms) + Len(last)
    /\ \A i \in 1 .. Len(first) : all[i].do = first[i]
    /\ \A i \in 1 .. Len(ms) : Inner(all[Len(first) + i])
    /\ \A i \in 1 .. Len(last) : all[Len(first) + Len(ms) + i].do = last[i]

Says(all, words) ==
    /\ all \in Seq(Statement) /\ Len(all) = Len(words) /\ Len(words) \in Nat
    /\ \A i \in 1 .. Len(words) : all[i].do = words[i]

LEMMA DoSays == ASSUME NEW w \in Words PROVE Says(Do(w), <<w>>)
<1>1. Do(w) \in Seq(Statement)
  BY DoIs
<1> QED
  BY <1>1 DEF Says, Do

LEMMA BothSay ==
    ASSUME NEW a, NEW b, NEW v, NEW w, Says(a, <<v>>), Says(b, <<w>>)
    PROVE  Says(a \o b, <<v, w>>)
<1>1. a \in Seq(Statement) /\ b \in Seq(Statement) /\ Len(a) = 1 /\ Len(b) = 1 /\ a[1].do = v /\ b[1].do = w
  <2>1. Len(<<v>>) = 1 /\ Len(<<w>>) = 1 /\ 1 \in 1 .. 1 /\ <<v>>[1] = v /\ <<w>>[1] = w
    OBVIOUS
  <2>2. Len(a) = 1 /\ Len(b) = 1 /\ a \in Seq(Statement) /\ b \in Seq(Statement)
    BY <2>1 DEF Says
  <2>3. a[1].do = <<v>>[1] /\ b[1].do = <<w>>[1]
    BY <2>1 DEF Says
  <2> QED
    BY <2>1, <2>2, <2>3
<1>2. PICK all : all = a \o b
  OBVIOUS
<1>3. all \in Seq(Statement) /\ Len(all) = 2
  BY <1>1, <1>2, Appended
<1>4. all[1] = a[1] /\ all[2] = b[1]
  <2>1. 1 \in 1 .. Len(a) /\ 1 \in 1 .. Len(b) /\ Len(a) + 1 = 2
    BY <1>1
  <2> QED
    BY <1>1, <1>2, <2>1, Appended
<1> QED
  BY <1>1, <1>2, <1>3, <1>4 DEF Says

LEMMA Assembled ==
    ASSUME NEW a, NEW ms, NEW d, NEW first, NEW last, Says(a, first), AreMoves(ms), Says(d, last)
    PROVE  Program((a \o ms) \o d, first, ms, last)
<1>1. a \in Seq(Statement) /\ ms \in Seq(Statement) /\ d \in Seq(Statement)
  BY DEF Says, AreMoves
<1>2. PICK e : e = a \o ms
  OBVIOUS
<1>3. /\ e \in Seq(Statement) /\ Len(a) \in Nat /\ Len(ms) \in Nat /\ Len(e) = Len(a) + Len(ms)
      /\ \A i \in 1 .. Len(a) : e[i] = a[i]
      /\ \A i \in 1 .. Len(ms) : e[Len(a) + i] = ms[i]
  BY <1>1, <1>2, Appended
<1>4. PICK all : all = e \o d
  OBVIOUS
<1>14. e \in Seq(Statement) /\ d \in Seq(Statement)
  BY <1>1, <1>3
<1>5. /\ all \in Seq(Statement) /\ Len(d) \in Nat /\ Len(all) = Len(e) + Len(d)
      /\ \A i \in 1 .. Len(e) : all[i] = e[i]
      /\ \A i \in 1 .. Len(d) : all[Len(e) + i] = d[i]
  BY <1>14, <1>4, Appended
<1>6. PICK j, k, l : j = Len(a) /\ k = Len(ms) /\ l = Len(d)
  OBVIOUS
<1>7. j \in Nat /\ k \in Nat /\ l \in Nat /\ Len(e) = j + k /\ Len(first) = j /\ Len(last) = l
  BY <1>3, <1>5, <1>6 DEF Says
<1>8. \A i \in 1 .. j : i \in 1 .. j + k
  BY <1>7
<1>9. \A i \in 1 .. k : j + i \in 1 .. j + k
  BY <1>7
<1>10. \A i \in 1 .. j : all[i].do = first[i]
  BY <1>3, <1>5, <1>6, <1>7, <1>8 DEF Says
<1>11. \A i \in 1 .. k : Inner(all[j + i])
  BY <1>3, <1>5, <1>6, <1>7, <1>9 DEF AreMoves
<1>12. \A i \in 1 .. l : all[j + k + i].do = last[i]
  BY <1>5, <1>6, <1>7 DEF Says
<1>13. Len(all) = j + k + l
  BY <1>5, <1>6, <1>7
<1> QED
  BY <1>2, <1>4, <1>5, <1>6, <1>7, <1>10, <1>11, <1>12, <1>13 DEF Program

LEMMA OneWordMore ==
    ASSUME NEW all, NEW first, NEW ms, NEW last, NEW d, NEW w,
           Program(all, first, ms, last), last \in Seq(Words), Says(d, <<w>>), w \in Words
    PROVE  Program(all \o d, first, ms, Append(last, w))
<1>1. all \in Seq(Statement) /\ d \in Seq(Statement) /\ Len(d) = 1 /\ d[1].do = w
  <2>1. Len(<<w>>) = 1 /\ 1 \in 1 .. 1 /\ <<w>>[1] = w
    OBVIOUS
  <2>2. Len(d) = 1 /\ d[1].do = <<w>>[1] /\ d \in Seq(Statement)
    BY <2>1 DEF Says
  <2> QED
    BY <2>1, <2>2 DEF Program
<1>2. PICK n, j, k, l : n = Len(all) /\ j = Len(first) /\ k = Len(ms) /\ l = Len(last)
  OBVIOUS
<1>3. j \in Nat /\ k \in Nat /\ l \in Nat /\ n = j + k + l
  BY <1>2 DEF Program
<1>4. PICK more : more = all \o d
  OBVIOUS
<1>12. all \in Seq(Statement) /\ d \in Seq(Statement)
  BY <1>1
<1>13. /\ more \in Seq(Statement) /\ Len(more) = Len(all) + Len(d)
       /\ \A i \in 1 .. Len(all) : more[i] = all[i]
       /\ \A i \in 1 .. Len(d) : more[Len(all) + i] = d[i]
  BY <1>4, <1>12, Appended
<1>5. /\ more \in Seq(Statement) /\ Len(more) = n + 1
      /\ \A i \in 1 .. n : more[i] = all[i]
  BY <1>1, <1>2, <1>13
<1>6. more[n + 1] = d[1]
  <2>1. 1 \in 1 .. Len(d)
    BY <1>1
  <2> QED
    BY <1>2, <1>13, <2>1
<1>7. PICK longer : longer = Append(last, w)
  OBVIOUS
<1>8. Len(longer) = l + 1 /\ longer[l + 1] = w /\ \A i \in 1 .. l : longer[i] = last[i]
  BY <1>2, <1>7
<1>9. \A i \in 1 .. j : more[i].do = first[i]
  <2>1. \A i \in 1 .. j : i \in 1 .. n
    BY <1>3
  <2> QED
    BY <1>2, <1>5, <2>1 DEF Program
<1>10. \A i \in 1 .. k : Inner(more[j + i])
  <2>1. \A i \in 1 .. k : j + i \in 1 .. n
    BY <1>3
  <2> QED
    BY <1>2, <1>5, <2>1 DEF Program
<1>11. \A i \in 1 .. l + 1 : more[j + k + i].do = longer[i]
  <2> SUFFICES ASSUME NEW i \in 1 .. l + 1 PROVE more[j + k + i].do = longer[i]
    OBVIOUS
  <2>1. CASE i = l + 1
    <3>1. j + k + i = n + 1
      BY <1>3, <2>1
    <3> QED
      BY <1>1, <1>6, <1>8, <2>1, <3>1
  <2>2. CASE i # l + 1
    <3>1. i \in 1 .. l /\ j + k + i \in 1 .. n
      BY <1>3, <2>2
    <3>2. all[j + k + i].do = last[i]
      BY <1>2, <3>1 DEF Program
    <3> QED
      BY <1>5, <1>8, <3>1, <3>2
  <2> QED
    BY <2>1, <2>2
<1> QED
  BY <1>2, <1>3, <1>4, <1>5, <1>7, <1>8, <1>9, <1>10, <1>11 DEF Program

LEMMA MovesMove ==
    ASSUME NEW kind \in Inward \cup Outward, NEW ls, AreLines(ls)
    PROVE  AreMoves(Moves(kind, ls))
<1>1. PICK n \in Nat : n = Len(ls) /\ DOMAIN ls = 1 .. n
  BY LinesAre
<1>2. PICK m : m = Moves(kind, ls)
  OBVIOUS
<1>3. m = [i \in 1 .. n |-> [do |-> kind, bin |-> ls[i].bin, qty |-> ls[i].qty]]
  BY <1>1, <1>2 DEF Moves
<1>4. Len(m) = n /\ \A i \in 1 .. n : m[i].do = kind
  BY <1>3
<1>5. m \in Seq(Statement)
  BY <1>2, MovesAre
<1> QED
  BY <1>2, <1>4, <1>5 DEF AreMoves, Inner, Moving

LEMMA SoldMove ==
    ASSUME NEW r, AreLines(r.lines)
    PROVE  AreMoves([i \in DOMAIN r.lines |-> [do |-> "SALES", bin |-> r.lines[i].bin,
                                  qty |-> ToBase(r.lines[i].qty, r.lines[i].uom)]])
<1>1. PICK n \in Nat : n = Len(r.lines) /\ DOMAIN r.lines = 1 .. n
  BY LinesAre
<1>2. PICK sold : sold = [i \in DOMAIN r.lines |-> [do |-> "SALES", bin |-> r.lines[i].bin,
                                  qty |-> ToBase(r.lines[i].qty, r.lines[i].uom)]]
  OBVIOUS
<1>3. \A i \in 1 .. n : sold[i] \in Statement /\ sold[i].do = "SALES"
  <2> SUFFICES ASSUME NEW i \in 1 .. n PROVE sold[i] \in Statement /\ sold[i].do = "SALES"
    OBVIOUS
  <2>1. r.lines[i].bin \in Bin /\ r.lines[i].qty \in Nat \ {0}
    BY <1>1 DEF AreLines
  <2>2. PICK q \in Nat \ {0} : q = ToBase(r.lines[i].qty, r.lines[i].uom)
    BY <2>1, BaseIs
  <2>3. sold[i] = [do |-> "SALES", bin |-> r.lines[i].bin, qty |-> q]
    BY <1>1, <1>2, <2>2
  <2> QED
    BY <2>1, <2>3 DEF Statement, Outward, Consuming
<1>4. sold = [i \in 1 .. n |-> sold[i]]
  BY <1>1, <1>2
<1>5. sold \in Seq(Statement) /\ Len(sold) = n
  BY <1>3, <1>4
<1> QED
  BY <1>2, <1>3, <1>5 DEF AreMoves, Inner, Moving, Outward, Consuming

LEMMA SaleProgram ==
    ASSUME NEW r, AreLines(r.lines)
    PROVE  \E ms : Program(SaleSteps(r), <<"findKey", "claimKey">>, ms, <<"taxEntries">>)
<1>1. PICK sold : sold = [i \in DOMAIN r.lines |-> [do |-> "SALES", bin |-> r.lines[i].bin,
                                  qty |-> ToBase(r.lines[i].qty, r.lines[i].uom)]]
  OBVIOUS
<1>2. AreMoves(sold)
  BY <1>1, SoldMove
<1>3. PICK a, b, d : a = Do("findKey") /\ b = Do("claimKey") /\ d = Do("taxEntries")
  OBVIOUS
<1>4. Says(a, <<"findKey">>) /\ Says(b, <<"claimKey">>) /\ Says(d, <<"taxEntries">>)
  BY <1>3, DoSays DEF Words
<1>5. Says(a \o b, <<"findKey", "claimKey">>)
  BY <1>4, BothSay
<1>6. Program(((a \o b) \o sold) \o d, <<"findKey", "claimKey">>, sold, <<"taxEntries">>)
  BY <1>2, <1>4, <1>5, Assembled
<1>7. SaleSteps(r) = ((a \o b) \o sold) \o d
  BY <1>1, <1>3 DEF SaleSteps
<1> QED
  BY <1>6, <1>7

LEMMA SentMove ==
    ASSUME NEW r, AreLines(r.lines), \A i \in DOMAIN r.lines : r.lines[i].to \in Bin
    PROVE  AreMoves([i \in 1 .. 2 * Len(r.lines) |->
           LET line == r.lines[(i + 1) \div 2]
           IN  IF i % 2 = 1 THEN [do |-> "TRANSFER_OUT", bin |-> line.bin, qty |-> line.qty]
                            ELSE [do |-> "TRANSFER_IN", bin |-> line.to, qty |-> line.qty]])
<1>1. PICK n \in Nat : n = Len(r.lines) /\ DOMAIN r.lines = 1 .. n
  BY LinesAre
<1>2. PICK sent : sent = [i \in 1 .. 2 * n |->
           LET line == r.lines[(i + 1) \div 2]
           IN  IF i % 2 = 1 THEN [do |-> "TRANSFER_OUT", bin |-> line.bin, qty |-> line.qty]
                            ELSE [do |-> "TRANSFER_IN", bin |-> line.to, qty |-> line.qty]]
  OBVIOUS
<1>3. \A i \in 1 .. 2 * n : sent[i] \in Statement /\ Inner(sent[i])
  <2> SUFFICES ASSUME NEW i \in 1 .. 2 * n PROVE sent[i] \in Statement /\ Inner(sent[i])
    OBVIOUS
  <2>1. PICK j : j = (i + 1) \div 2
    OBVIOUS
  <2>2. j \in 1 .. n
    BY <2>1
  <2>3. r.lines[j].bin \in Bin /\ r.lines[j].qty \in Nat \ {0} /\ r.lines[j].to \in Bin
    BY <1>1, <2>2 DEF AreLines
  <2>4. \/ sent[i] = [do |-> "TRANSFER_OUT", bin |-> r.lines[j].bin, qty |-> r.lines[j].qty]
        \/ sent[i] = [do |-> "TRANSFER_IN", bin |-> r.lines[j].to, qty |-> r.lines[j].qty]
    BY <1>2, <2>1
  <2>5. sent[i].do = "TRANSFER_OUT" \/ sent[i].do = "TRANSFER_IN"
    BY <2>4
  <2> QED
    BY <2>3, <2>4, <2>5 DEF Statement, Inner, Moving, Outward, Inward, Consuming
<1>4. sent \in Seq(Statement) /\ Len(sent) = 2 * n
  <2>1. 2 * n \in Nat
    OBVIOUS
  <2>2. sent = [i \in 1 .. 2 * n |-> sent[i]]
    BY <1>2
  <2> QED
    BY <1>3, <2>1, <2>2
<1> QED
  BY <1>1, <1>2, <1>3, <1>4 DEF AreMoves

LEMMA SendProgram ==
    ASSUME NEW r, AreLines(r.lines), \A i \in DOMAIN r.lines : r.lines[i].to \in Bin
    PROVE  \E ms : Program(SendSteps(r), <<"findGodown", "claimGodown">>, ms, <<"challan">>)
<1>1. PICK sent : sent = [i \in 1 .. 2 * Len(r.lines) |->
           LET line == r.lines[(i + 1) \div 2]
           IN  IF i % 2 = 1 THEN [do |-> "TRANSFER_OUT", bin |-> line.bin, qty |-> line.qty]
                            ELSE [do |-> "TRANSFER_IN", bin |-> line.to, qty |-> line.qty]]
  OBVIOUS
<1>2. AreMoves(sent)
  BY <1>1, SentMove
<1>3. PICK a, b, d : a = Do("findGodown") /\ b = Do("claimGodown") /\ d = Do("challan")
  OBVIOUS
<1>4. Says(a, <<"findGodown">>) /\ Says(b, <<"claimGodown">>) /\ Says(d, <<"challan">>)
  BY <1>3, DoSays DEF Words
<1>5. Says(a \o b, <<"findGodown", "claimGodown">>)
  BY <1>4, BothSay
<1>6. Program(((a \o b) \o sent) \o d, <<"findGodown", "claimGodown">>, sent, <<"challan">>)
  BY <1>2, <1>4, <1>5, Assembled
<1>7. SendSteps(r) = ((a \o b) \o sent) \o d
  BY <1>1, <1>3 DEF SendSteps
<1> QED
  BY <1>6, <1>7

LEMMA BackMove ==
    ASSUME NEW r, AreLines(r.lines)
    PROVE  AreMoves([i \in DOMAIN r.lines |-> [do |-> ReceiveKind(r.lines[i].type),
                                  bin |-> r.lines[i].bin, qty |-> r.lines[i].qty]])
<1>1. PICK n \in Nat : n = Len(r.lines) /\ DOMAIN r.lines = 1 .. n
  BY LinesAre
<1>2. PICK back : back = [i \in DOMAIN r.lines |-> [do |-> ReceiveKind(r.lines[i].type),
                                  bin |-> r.lines[i].bin, qty |-> r.lines[i].qty]]
  OBVIOUS
<1>3. \A i \in 1 .. n : back[i] \in Statement /\ Inner(back[i])
  <2> SUFFICES ASSUME NEW i \in 1 .. n PROVE back[i] \in Statement /\ Inner(back[i])
    OBVIOUS
  <2>1. r.lines[i].bin \in Bin /\ r.lines[i].qty \in Nat \ {0}
    BY <1>1 DEF AreLines
  <2>2. ReceiveKind(r.lines[i].type) \in Inward \cup Outward \cup {"challan"}
    BY DEF ReceiveKind, Inward, Outward, Consuming
  <2>3. back[i] = [do |-> ReceiveKind(r.lines[i].type), bin |-> r.lines[i].bin, qty |-> r.lines[i].qty]
    BY <1>1, <1>2
  <2> QED
    BY <2>1, <2>2, <2>3 DEF Statement, Inner, Moving
<1>4. back \in Seq(Statement) /\ Len(back) = n
  <2>1. back = [i \in 1 .. n |-> back[i]]
    BY <1>1, <1>2
  <2> QED
    BY <1>3, <2>1
<1> QED
  BY <1>2, <1>3, <1>4 DEF AreMoves

LEMMA ReceiveProgram ==
    ASSUME NEW r, AreLines(r.lines)
    PROVE  \E ms, last : /\ Program(ReceiveSteps(r), <<"findChallan">>, ms, last) /\ Len(last) = 3
                         /\ last[1] = "receipt" /\ last[2] = "readStatus" /\ last[3] = "writeStatus"
<1>1. PICK back : back = [i \in DOMAIN r.lines |-> [do |-> ReceiveKind(r.lines[i].type),
                                  bin |-> r.lines[i].bin, qty |-> r.lines[i].qty]]
  OBVIOUS
<1>2. AreMoves(back)
  BY <1>1, BackMove
<1>3. PICK a, d, e, g : a = Do("findChallan") /\ d = Do("receipt") /\ e = Do("readStatus") /\ g = Do("writeStatus")
  OBVIOUS
<1>4. Says(a, <<"findChallan">>) /\ Says(d, <<"receipt">>) /\ Says(e, <<"readStatus">>) /\ Says(g, <<"writeStatus">>)
  BY <1>3, DoSays DEF Words
<1>5. Program((a \o back) \o d, <<"findChallan">>, back, <<"receipt">>)
  BY <1>2, <1>4, Assembled
<1>6. Program(((a \o back) \o d) \o e, <<"findChallan">>, back, Append(<<"receipt">>, "readStatus"))
  <2>1. <<"receipt">> \in Seq(Words) /\ "readStatus" \in Words
    BY DEF Words
  <2> QED
    BY <1>4, <1>5, <2>1, OneWordMore
<1>7. PICK last : last = Append(<<"receipt">>, "readStatus")
  OBVIOUS
<1>8. /\ last \in Seq(Words) /\ Len(last) = 2 /\ last[1] = "receipt" /\ last[2] = "readStatus"
      /\ "writeStatus" \in Words
  BY <1>7 DEF Words
<1>10. Program((((a \o back) \o d) \o e) \o g, <<"findChallan">>, back, Append(last, "writeStatus"))
  BY <1>4, <1>6, <1>7, <1>8, OneWordMore
<1>11. PICK all : all = Append(last, "writeStatus")
  OBVIOUS
<1>12. Len(all) = 3 /\ all[1] = "receipt" /\ all[2] = "readStatus" /\ all[3] = "writeStatus"
  BY <1>8, <1>11
<1>9. ReceiveSteps(r) = (((a \o back) \o d) \o e) \o g
  BY <1>1, <1>3 DEF ReceiveSteps
<1> QED
  BY <1>9, <1>10, <1>11, <1>12

LEMMA ProduceProgram ==
    ASSUME NEW r, AreLines(r.uses), AreLines(r.makes)
    PROVE  \E ms : Program(ProduceSteps(r), <<"journal">>, ms, <<>>)
<1>1. PICK a, u, m : a = Do("journal") /\ u = Moves("PRODUCTION_OUT", r.uses) /\ m = Moves("PRODUCTION_IN", r.makes)
  OBVIOUS
<1>2. AreMoves(u) /\ AreMoves(m)
  BY <1>1, MovesMove DEF Inward, Outward, Consuming
<1>3. Says(a, <<"journal">>)
  BY <1>1, DoSays DEF Words
<1>4. Program((a \o u) \o m, <<"journal">>, u \o m, <<>>)
  <2>1. a \in Seq(Statement) /\ u \in Seq(Statement) /\ m \in Seq(Statement)
    BY <1>2, <1>3 DEF Says, AreMoves
  <2>2. PICK b : b = a \o u
    OBVIOUS
  <2>3. /\ b \in Seq(Statement) /\ Len(b) = Len(a) + Len(u) /\ Len(a) \in Nat /\ Len(u) \in Nat
        /\ \A i \in 1 .. Len(a) : b[i] = a[i]
        /\ \A i \in 1 .. Len(u) : b[Len(a) + i] = u[i]
    BY <2>1, <2>2, Appended
  <2>4. b \in Seq(Statement) /\ m \in Seq(Statement)
    BY <2>1, <2>3
  <2>5. PICK all : all = b \o m
    OBVIOUS
  <2>6. /\ all \in Seq(Statement) /\ Len(all) = Len(b) + Len(m) /\ Len(m) \in Nat
        /\ \A i \in 1 .. Len(b) : all[i] = b[i]
        /\ \A i \in 1 .. Len(m) : all[Len(b) + i] = m[i]
    BY <2>4, <2>5, Appended
  <2>7. PICK um : um = u \o m
    OBVIOUS
  <2>8. um \in Seq(Statement) /\ Len(um) = Len(u) + Len(m)
    BY <2>1, <2>7, Appended
  <2>9. Len(a) = 1 /\ a[1].do = "journal"
    BY <1>1 DEF Do
  <2>10. PICK j \in Nat, k \in Nat : j = Len(u) /\ k = Len(m)
    BY <2>3, <2>6
  <2>11. Len(b) = 1 + j /\ Len(all) = 1 + j + k /\ Len(um) = j + k
    BY <2>3, <2>6, <2>8, <2>9, <2>10
  <2>12. all[1].do = "journal"
    <3>1. 1 \in 1 .. Len(b) /\ 1 \in 1 .. Len(a)
      BY <2>9, <2>11
    <3> QED
      BY <2>3, <2>6, <2>9, <3>1
  <2>13. \A i \in 1 .. j + k : Inner(all[1 + i])
    <3> SUFFICES ASSUME NEW i \in 1 .. j + k PROVE Inner(all[1 + i])
      OBVIOUS
    <3>1. CASE i <= j
      <4>1. i \in 1 .. Len(u) /\ 1 + i \in 1 .. Len(b)
        BY <2>10, <2>11, <3>1
      <4>2. all[1 + i] = u[i]
        BY <2>3, <2>6, <2>9, <4>1
      <4> QED
        BY <1>2, <4>1, <4>2 DEF AreMoves
    <3>2. CASE i > j
      <4>1. i - j \in 1 .. Len(m) /\ Len(b) + (i - j) = 1 + i
        BY <2>10, <2>11, <3>2
      <4>2. all[1 + i] = m[i - j]
        BY <2>6, <4>1
      <4> QED
        BY <1>2, <4>1, <4>2 DEF AreMoves
    <3> QED
      BY <3>1, <3>2
  <2>14. Len(<<"journal">>) = 1 /\ <<"journal">>[1] = "journal" /\ Len(<<>>) = 0
    OBVIOUS
  <2> QED
    BY <2>2, <2>5, <2>6, <2>7, <2>11, <2>12, <2>13, <2>14 DEF Program
<1>5. ProduceSteps(r) = (a \o u) \o m
  BY <1>1 DEF ProduceSteps
<1> QED
  BY <1>4, <1>5

(* Every statement of a program is one of its words or a movement.          *)
LEMMA EachSaid ==
    ASSUME NEW all, NEW first, NEW ms, NEW last, Program(all, first, ms, last),
           NEW i \in 1 .. Len(all)
    PROVE  \/ Inner(all[i])
           \/ i \in 1 .. Len(first) /\ all[i].do = first[i]
           \/ \E j \in 1 .. Len(last) : i = Len(first) + Len(ms) + j /\ all[i].do = last[j]
<1>1. PICK j, k, l : j = Len(first) /\ k = Len(ms) /\ l = Len(last)
  OBVIOUS
<1>2. j \in Nat /\ k \in Nat /\ l \in Nat /\ i \in 1 .. j + k + l
  BY <1>1 DEF Program
<1>3. CASE i <= j
  <2>1. i \in 1 .. Len(first)
    BY <1>1, <1>2, <1>3
  <2> QED
    BY <2>1 DEF Program
<1>4. CASE i > j /\ i <= j + k
  <2>1. i - j \in 1 .. k /\ j + (i - j) = i
    BY <1>2, <1>4
  <2>2. Inner(all[j + (i - j)])
    BY <1>1, <2>1 DEF Program
  <2> QED
    BY <2>1, <2>2
<1>5. CASE i > j + k
  <2>1. i - (j + k) \in 1 .. l /\ j + k + (i - (j + k)) = i
    BY <1>2, <1>5
  <2>2. all[j + k + (i - (j + k))].do = last[i - (j + k)]
    BY <1>1, <2>1 DEF Program
  <2> QED
    BY <1>1, <2>1, <2>2
<1> QED
  BY <1>2, <1>3, <1>4, <1>5

(* Of the order of a service's statements, what its invariant uses.         *)
Finds == {"findKey", "findGodown"}
Skips(all) == \A i \in 1 .. Len(all) : all[i].do \in Finds => i + 1 <= Len(all) /\ ~Moving(all[i + 1])
Receives(kind, all) == (\E i \in 1 .. Len(all) : all[i].do = "receipt") => kind = "receive"
Ordered(kind, all) ==
    LET n == Len(all)
    IN  /\ kind = "sale" => n >= 3 /\ all[1].do = "findKey" /\ all[2].do = "claimKey"
        /\ kind = "counter" => n = 2 /\ all[1].do = "number" /\ all[2].do = "invoice"
        /\ kind = "receive" =>
              /\ n >= 4 /\ all[1].do = "findChallan" /\ all[n - 2].do = "receipt"
              /\ all[n - 1].do = "readStatus" /\ all[n].do = "writeStatus"
              /\ \A i \in 2 .. n - 3 : Inner(all[i])
Laid(kind, all) == all \in Seq(Statement) /\ Skips(all) /\ Receives(kind, all) /\ Ordered(kind, all)

LEMMA WordsStay == \A s : Moving(s) => s.do \notin Words
  BY DEF Moving, Words, Inward, Outward, Consuming
LEMMA InnerStays == \A s : Inner(s) => s.do \notin Words \ {"challan"}
  BY WordsStay DEF Inner

LEMMA FindsLaid ==
    ASSUME NEW all, NEW ms, NEW u \in Finds, NEW v \in Words \ Finds, NEW w \in Words \ Finds,
           v # "receipt", w # "receipt", Program(all, <<u, v>>, ms, <<w>>)
    PROVE  /\ all \in Seq(Statement) /\ Skips(all) /\ \A i \in 1 .. Len(all) : all[i].do # "receipt"
           /\ Len(all) >= 3 /\ all[1].do = u /\ all[2].do = v
<1>1. Len(<<u, v>>) = 2 /\ <<u, v>>[1] = u /\ <<u, v>>[2] = v /\ Len(<<w>>) = 1 /\ <<w>>[1] = w
  OBVIOUS
<1>2. all \in Seq(Statement) /\ Len(ms) \in Nat /\ Len(all) = 2 + Len(ms) + 1
  BY <1>1 DEF Program
<1>3. 1 \in 1 .. 2 /\ 2 \in 1 .. 2 /\ u \in Words
  BY DEF Finds, Words
<1>4. all[1].do = u /\ all[2].do = v
  BY <1>1, <1>3 DEF Program
<1>5. ASSUME NEW i \in 1 .. Len(all), ~Inner(all[i])
      PROVE  (i = 1 /\ all[i].do = u) \/ all[i].do = v \/ all[i].do = w
  <2>1. \/ i \in 1 .. 2 /\ all[i].do = <<u, v>>[i]
        \/ \E j \in 1 .. 1 : all[i].do = <<w>>[j]
    BY <1>1, <1>5, EachSaid
  <2> QED
    BY <1>1, <1>4, <2>1
<1>6. Len(all) >= 3 /\ 2 <= Len(all)
  BY <1>2
<1>7. ~Moving(all[2])
  BY <1>4, WordsStay
<1>8. Skips(all)
  <2> SUFFICES ASSUME NEW i \in 1 .. Len(all), all[i].do \in Finds
               PROVE  i + 1 <= Len(all) /\ ~Moving(all[i + 1])
    BY DEF Skips
  <2>1. ~Inner(all[i])
    BY InnerStays DEF Finds, Words
  <2>2. i = 1
    BY <1>5, <2>1
  <2> QED
    BY <1>6, <1>7, <2>2
<1>9. ASSUME NEW i \in 1 .. Len(all) PROVE all[i].do # "receipt"
  <2>1. Inner(all[i]) => all[i].do # "receipt"
    BY InnerStays DEF Words
  <2> QED
    BY <1>5, <2>1 DEF Finds
<1> QED
  BY <1>2, <1>4, <1>6, <1>8, <1>9

LEMMA StepsLaid == ASSUME setting \in Settings, NEW c \in Asking PROVE Laid(Asked[c].kind, Steps(c))
<1>1. PICK r, all : r = Asked[c] /\ all = Steps(c)
  OBVIOUS
<1>2. /\ r.kind \in Service
      /\ r.kind \in {"sale", "move", "sendOut", "receive"} => AreLines(r.lines)
      /\ r.kind = "sendOut" => \A i \in DOMAIN r.lines : r.lines[i].to \in Bin
      /\ r.kind = "produce" => AreLines(r.uses) /\ AreLines(r.makes)
      /\ r.kind = "move" => r.move \in Inward \cup Outward
  BY <1>1, TradingAssumption, GoodsAssumption DEF Asked, Asking
<1>3. all = CASE r.kind = "sale"    -> SaleSteps(r)
              [] r.kind = "move"    -> Moves(r.move, r.lines)
              [] r.kind = "sendOut" -> SendSteps(r)
              [] r.kind = "receive" -> ReceiveSteps(r)
              [] r.kind = "produce" -> ProduceSteps(r)
              [] r.kind = "counter" -> Do("number") \o Do("invoice")
  BY <1>1 DEF Steps
<1>4. CASE r.kind = "sale"
  <2>1. PICK ms : Program(all, <<"findKey", "claimKey">>, ms, <<"taxEntries">>)
    BY <1>2, <1>3, <1>4, SaleProgram
  <2>2. /\ "findKey" \in Finds /\ "claimKey" \in Words \ Finds /\ "taxEntries" \in Words \ Finds
        /\ "claimKey" # "receipt" /\ "taxEntries" # "receipt"
    BY DEF Finds, Words
  <2>3. /\ all \in Seq(Statement) /\ Skips(all) /\ \A i \in 1 .. Len(all) : all[i].do # "receipt"
        /\ Len(all) >= 3 /\ all[1].do = "findKey" /\ all[2].do = "claimKey"
    BY <2>1, <2>2, FindsLaid
  <2> QED
    BY <1>1, <1>4, <2>3 DEF Laid, Receives, Ordered
<1>5. CASE r.kind = "move"
  <2>1. AreMoves(all)
    BY <1>2, <1>3, <1>5, MovesMove
  <2>2. all \in Seq(Statement) /\ \A i \in 1 .. Len(all) : Inner(all[i]) /\ all[i].do \notin (Words \ {"challan"})
    BY <2>1, InnerStays DEF AreMoves
  <2> QED
    BY <1>1, <1>5, <2>2 DEF Laid, Receives, Ordered, Skips, Finds, Words
<1>6. CASE r.kind = "sendOut"
  <2>1. PICK ms : Program(all, <<"findGodown", "claimGodown">>, ms, <<"challan">>)
    BY <1>2, <1>3, <1>6, SendProgram
  <2>2. /\ "findGodown" \in Finds /\ "claimGodown" \in Words \ Finds /\ "challan" \in Words \ Finds
        /\ "claimGodown" # "receipt" /\ "challan" # "receipt"
    BY DEF Finds, Words
  <2>3. all \in Seq(Statement) /\ Skips(all) /\ \A i \in 1 .. Len(all) : all[i].do # "receipt"
    BY <2>1, <2>2, FindsLaid
  <2> QED
    BY <1>1, <1>6, <2>3 DEF Laid, Receives, Ordered
<1>7. CASE r.kind = "receive"
  <2>1. PICK ms, last : /\ Program(all, <<"findChallan">>, ms, last) /\ Len(last) = 3
                        /\ last[1] = "receipt" /\ last[2] = "readStatus" /\ last[3] = "writeStatus"
    BY <1>2, <1>3, <1>7, ReceiveProgram
  <2>2. PICK first : first = <<"findChallan">>
    OBVIOUS
  <2>3. /\ Len(first) = 1 /\ first[1] = "findChallan" /\ Len(last) = 3
        /\ last[1] = "receipt" /\ last[2] = "readStatus" /\ last[3] = "writeStatus"
    BY <2>1, <2>2
  <2>4. Program(all, first, ms, last)
    BY <2>1, <2>2
  <2>5. PICK k \in Nat : k = Len(ms) /\ Len(all) = 1 + k + 3
    BY <2>3, <2>4 DEF Program
  <2>6. PICK n \in Nat : n = Len(all) /\ n = k + 4
    BY <2>5
  <2>7. /\ all \in Seq(Statement) /\ all[1].do = "findChallan"
        /\ all[1 + k + 1].do = "receipt" /\ all[1 + k + 2].do = "readStatus" /\ all[1 + k + 3].do = "writeStatus"
    <3>1. 1 \in 1 .. 1 /\ 1 \in 1 .. 3 /\ 2 \in 1 .. 3 /\ 3 \in 1 .. 3
      OBVIOUS
    <3> QED
      BY <2>3, <2>4, <2>5, <3>1 DEF Program
  <2>8. 1 + k + 1 = n - 2 /\ 1 + k + 2 = n - 1 /\ 1 + k + 3 = n
    BY <2>6
  <2>9. \A i \in 2 .. n - 3 : Inner(all[i])
    <3> SUFFICES ASSUME NEW i \in 2 .. n - 3 PROVE Inner(all[i])
      OBVIOUS
    <3>1. i - 1 \in 1 .. k /\ 1 + (i - 1) = i
      BY <2>6
    <3>2. Inner(all[1 + (i - 1)])
      BY <2>3, <2>4, <2>5, <3>1 DEF Program
    <3> QED
      BY <3>1, <3>2
  <2>10. Ordered("receive", all)
    BY <2>6, <2>7, <2>8, <2>9 DEF Ordered
  <2>11. Skips(all)
    <3>1. ASSUME NEW i \in 1 .. Len(all) PROVE all[i].do \notin Finds
      <4>1. \/ Inner(all[i])
            \/ i \in 1 .. Len(first) /\ all[i].do = first[i]
            \/ \E j \in 1 .. Len(last) : all[i].do = last[j]
        BY <2>4, EachSaid
      <4>3. /\ \A j \in 1 .. Len(first) : first[j] \notin Finds
            /\ \A j \in 1 .. Len(last) : last[j] \notin Finds
        BY <2>3 DEF Finds
      <4>2. Inner(all[i]) => all[i].do \notin Finds
        BY InnerStays DEF Finds, Words
      <4> QED
        BY <4>1, <4>2, <4>3
    <3> QED
      BY <3>1 DEF Skips
  <2> QED
    BY <1>1, <1>7, <2>7, <2>10, <2>11 DEF Laid, Receives
<1>8. CASE r.kind = "produce"
  <2>1. PICK ms : Program(all, <<"journal">>, ms, <<>>)
    BY <1>2, <1>3, <1>8, ProduceProgram
  <2>2. Len(<<"journal">>) = 1 /\ <<"journal">>[1] = "journal" /\ Len(<<>>) = 0
    OBVIOUS
  <2>3. ASSUME NEW i \in 1 .. Len(all) PROVE all[i].do \notin Finds /\ all[i].do # "receipt"
    <3>1. \/ Inner(all[i])
          \/ i \in 1 .. 1 /\ all[i].do = <<"journal">>[i]
          \/ \E j \in 1 .. 0 : all[i].do = << >>[j]
      BY <2>1, <2>2, EachSaid
    <3>2. Inner(all[i]) => all[i].do \notin Finds /\ all[i].do # "receipt"
      BY InnerStays DEF Finds, Words
    <3> QED
      BY <2>2, <3>1, <3>2 DEF Finds
  <2>4. all \in Seq(Statement)
    BY <2>1 DEF Program
  <2> QED
    BY <1>1, <1>8, <2>3, <2>4 DEF Laid, Receives, Ordered, Skips
<1>9. CASE r.kind = "counter"
  <2>1. Says(all, <<"number", "invoice">>)
    BY <1>3, <1>9, DoSays, BothSay DEF Words
  <2>2. PICK w : w = <<"number", "invoice">>
    OBVIOUS
  <2>3. Len(w) = 2 /\ w[1] = "number" /\ w[2] = "invoice" /\ 1 \in 1 .. 2 /\ 2 \in 1 .. 2
    BY <2>2
  <2>4. all \in Seq(Statement) /\ Len(all) = 2 /\ all[1].do = "number" /\ all[2].do = "invoice"
    BY <2>1, <2>2, <2>3 DEF Says
  <2>5. \A i \in 1 .. 2 : i = 1 \/ i = 2
    OBVIOUS
  <2>6. \A i \in 1 .. Len(all) : all[i].do \notin Finds /\ all[i].do # "receipt"
    BY <2>4, <2>5 DEF Finds
  <2> QED
    BY <1>1, <1>9, <2>4, <2>6 DEF Laid, Receives, Ordered, Skips
<1> QED
  BY <1>2, <1>4, <1>5, <1>6, <1>7, <1>8, <1>9 DEF Service
-----------------------------------------------------------------------------
(* Sums of quantities, of what layers hold and of what is taken of them.    *)
LEMMA SumOfSums ==
    ASSUME NEW S, NEW w, NEW v, NEW u, Weighs(w, S), Weighs(v, S), \A x \in S : u[x] = w[x] + v[x]
    PROVE  /\ Weighs(u, S)
           /\ SumFunctionOnSet(u, S) = SumFunctionOnSet(w, S) + SumFunctionOnSet(v, S)
<1>0. Weighs(u, S)
  BY DEF Weighs
<1>1. PICK N : N = {n \in Nat : \A s \in UpTo(S, n) :
                      SumFunctionOnSet(u, s) = SumFunctionOnSet(w, s) + SumFunctionOnSet(v, s)}
  OBVIOUS
<1>2. 0 \in N
  <2>1. \A s \in UpTo(S, 0) : s = {}
    BY Small DEF Weighs
  <2>2. SumFunctionOnSet(u, {}) = 0 /\ SumFunctionOnSet(w, {}) = 0 /\ SumFunctionOnSet(v, {}) = 0
    BY SumOfNone
  <2>3. SumFunctionOnSet(u, {}) = SumFunctionOnSet(w, {}) + SumFunctionOnSet(v, {})
    BY <2>2
  <2> QED
    BY <1>1, <2>1, <2>3
<1>3. ASSUME NEW n \in N PROVE n + 1 \in N
  <2>1. SUFFICES ASSUME NEW t \in UpTo(S, n + 1)
                 PROVE  SumFunctionOnSet(u, t) = SumFunctionOnSet(w, t) + SumFunctionOnSet(v, t)
    BY <1>1
  <2>2. CASE t = {}
    BY <2>2, SumOfNone
  <2>3. CASE t # {}
    <3>1. PICK x \in t : TRUE
      BY <2>3
    <3>2. PICK r : r = t \ {x}
      OBVIOUS
    <3>3. r \in UpTo(S, n) /\ x \in S /\ r \subseteq S
      BY <1>1, <3>2, OneLess DEF UpTo, Weighs
    <3>4. SumFunctionOnSet(u, r) = SumFunctionOnSet(w, r) + SumFunctionOnSet(v, r)
      BY <1>1, <3>3
    <3>5. IsFiniteSet(r)
      BY <3>3, FS_Subset DEF Weighs
    <3>6. Weighs(w, r) /\ Weighs(v, r) /\ Weighs(u, r) /\ w[x] \in Int /\ v[x] \in Int /\ u[x] \in Int
      BY <1>0, <3>3, <3>5 DEF Weighs
    <3>7. t = r \cup {x} /\ x \notin r
      BY <3>2
    <3>8. /\ SumFunctionOnSet(u, t) = SumFunctionOnSet(u, r) + u[x]
          /\ SumFunctionOnSet(w, t) = SumFunctionOnSet(w, r) + w[x]
          /\ SumFunctionOnSet(v, t) = SumFunctionOnSet(v, r) + v[x]
      BY <3>6, <3>7, SumOfMore
    <3>9. SumFunctionOnSet(w, r) \in Int /\ SumFunctionOnSet(v, r) \in Int
      BY <3>6, SumIsInt
    <3> QED
      BY <3>3, <3>4, <3>6, <3>8, <3>9
  <2> QED
    BY <2>2, <2>3
<1>4. N = Nat
  BY <1>1, <1>2, <1>3, FromZeroOn
<1>5. S \in UpTo(S, Cardinality(S)) /\ Cardinality(S) \in Nat
  BY Small DEF Weighs
<1> QED
  BY <1>0, <1>1, <1>4, <1>5

Of(ms, b, kinds) == {m \in ms : m.bin = b /\ m.kind \in kinds}
Qtys == [m \in Movement |-> m.qty]
Qty(ms) == SumFunctionOnSet(Qtys, ms)
Movements(ms) == ms \in SUBSET Movement /\ IsFiniteSet(ms)

LEMMA QtyWeighs == ASSUME NEW ms, Movements(ms) PROVE Weighs(Qtys, ms) /\ Qty(ms) \in Int
<1>1. \A m \in ms : Qtys[m] \in Int
  BY DEF Movements, Qtys, Movement
<1>2. Weighs(Qtys, ms)
  BY <1>1 DEF Weighs, Movements
<1> QED
  BY <1>2, SumIsInt DEF Qty

LEMMA OfIs ==
    ASSUME NEW ms, Movements(ms), NEW b, NEW kinds
    PROVE  Movements(Of(ms, b, kinds)) /\ Qty(Of(ms, b, kinds)) \in Int
<1>1. Of(ms, b, kinds) \subseteq ms
  BY DEF Of
<1>2. Movements(Of(ms, b, kinds))
  BY <1>1, FS_Subset DEF Movements
<1> QED
  BY <1>2, QtyWeighs

LEMMA QtyOfNone == \A b, kinds : Qty(Of({}, b, kinds)) = 0
<1>1. \A b, kinds : Of({}, b, kinds) = {}
  BY DEF Of
<1> QED
  BY <1>1, SumOfNone DEF Qty

LEMMA QtyOfMore ==
    ASSUME NEW ms, Movements(ms), NEW m \in Movement, m \notin ms, NEW b, NEW kinds
    PROVE  Qty(Of(ms \cup {m}, b, kinds)) =
               Qty(Of(ms, b, kinds)) + (IF m.bin = b /\ m.kind \in kinds THEN m.qty ELSE 0)
<1>1. PICK s : s = Of(ms, b, kinds)
  OBVIOUS
<1>2. Movements(s) /\ Weighs(Qtys, s) /\ Qty(s) \in Int /\ m \notin s
  BY <1>1, OfIs, QtyWeighs DEF Of
<1>3. CASE m.bin = b /\ m.kind \in kinds
  <2>1. Of(ms \cup {m}, b, kinds) = s \cup {m}
    BY <1>1, <1>3 DEF Of
  <2>2. Qtys[m] = m.qty /\ m.qty \in Int
    BY DEF Qtys, Movement
  <2> QED
    BY <1>1, <1>2, <1>3, <2>1, <2>2, SumOfMore DEF Qty
<1>4. CASE ~(m.bin = b /\ m.kind \in kinds)
  <2>1. Of(ms \cup {m}, b, kinds) = s
    BY <1>1, <1>4 DEF Of
  <2> QED
    BY <1>1, <1>2, <1>4, <2>1
<1> QED
  BY <1>3, <1>4

LEMMA QtyOfBoth ==
    ASSUME NEW ms, Movements(ms), NEW ns, Movements(ns), ms \cap ns = {}, NEW b, NEW kinds
    PROVE  Qty(Of(ms \cup ns, b, kinds)) = Qty(Of(ms, b, kinds)) + Qty(Of(ns, b, kinds))
<1>1. PICK s, t : s = Of(ms, b, kinds) /\ t = Of(ns, b, kinds)
  OBVIOUS
<1>2. Weighs(Qtys, s) /\ Weighs(Qtys, t)
  BY <1>1, OfIs, QtyWeighs
<1>3. s \cap t = {} /\ Of(ms \cup ns, b, kinds) = s \cup t
  BY <1>1 DEF Of
<1> QED
  BY <1>1, <1>2, <1>3, SumOfBoth DEF Qty

LEMMA TotalIs == ASSUME NEW ms, Movements(ms) PROVE Total(ms) = Qty(ms)
<1>1. PICK w : w = Qtys
  OBVIOUS
<1>2. Weighs(w, ms)
  BY <1>1, QtyWeighs
<1>3. PICK h : Unrolls(h, ms, w) /\ SumFunctionOnSet(w, ms) = h[ms]
  BY <1>2, SumUnrolls
<1>4. PICK g : g = CHOOSE f : f = [s \in SUBSET ms |->
                     IF s = {} THEN 0 ELSE AnyOf(s).qty + f[s \ {AnyOf(s)}]]
  OBVIOUS
<1>5. Total(ms) = g[ms]
  BY <1>4 DEF Total, MapThenSumSet, MapThenFoldSet, AnyOf
<1>6. \A s \in SUBSET ms : s # {} => w[AnyOf(s)] = AnyOf(s).qty
  BY <1>1, AnyOfIsIn DEF Qtys, Movements
<1>7. h = [s \in SUBSET ms |-> IF s = {} THEN 0 ELSE AnyOf(s).qty + h[s \ {AnyOf(s)}]]
  BY <1>3, <1>6 DEF Unrolls
<1>8. g = [s \in SUBSET ms |-> IF s = {} THEN 0 ELSE AnyOf(s).qty + g[s \ {AnyOf(s)}]]
  BY <1>4, <1>7, Zenon
<1>9. Unrolls(g, ms, w)
  BY <1>6, <1>8 DEF Unrolls
<1> QED
  BY <1>1, <1>2, <1>3, <1>5, <1>9, SameValues DEF Qty

LEMMA LeftIs ==
    ASSUME NEW f, NEW S, IsFiniteSet(S), \A l \in S : f[l].left \in Int
    PROVE  /\ Weighs([l \in S |-> f[l].left], S)
           /\ MapThenSumSet(LAMBDA l : f[l].left, S) = SumFunctionOnSet([l \in S |-> f[l].left], S)
<1>1. PICK w : w = [l \in S |-> f[l].left]
  OBVIOUS
<1>2. Weighs(w, S)
  BY <1>1 DEF Weighs
<1>3. PICK h : Unrolls(h, S, w) /\ SumFunctionOnSet(w, S) = h[S]
  BY <1>2, SumUnrolls
<1>4. PICK g : g = CHOOSE e : e = [s \in SUBSET S |->
                     IF s = {} THEN 0 ELSE f[AnyOf(s)].left + e[s \ {AnyOf(s)}]]
  OBVIOUS
<1>5. MapThenSumSet(LAMBDA l : f[l].left, S) = g[S]
  BY <1>4 DEF MapThenSumSet, MapThenFoldSet, AnyOf
<1>6. \A s \in SUBSET S : s # {} => w[AnyOf(s)] = f[AnyOf(s)].left
  BY <1>1, AnyOfIsIn
<1>7. h = [s \in SUBSET S |-> IF s = {} THEN 0 ELSE f[AnyOf(s)].left + h[s \ {AnyOf(s)}]]
  BY <1>3, <1>6 DEF Unrolls
<1>8. g = [s \in SUBSET S |-> IF s = {} THEN 0 ELSE f[AnyOf(s)].left + g[s \ {AnyOf(s)}]]
  BY <1>4, <1>7, Zenon
<1>9. Unrolls(g, S, w)
  BY <1>6, <1>8 DEF Unrolls
<1> QED
  BY <1>1, <1>2, <1>3, <1>5, <1>9, SameValues
LEMMA ZerosAdded ==
    ASSUME NEW T, IsFiniteSet(T), NEW S \in SUBSET T, NEW v, Weighs(v, S),
           NEW w, \A x \in S : w[x] = v[x], \A x \in T \ S : w[x] = 0
    PROVE  Weighs(w, T) /\ SumFunctionOnSet(w, T) = SumFunctionOnSet(v, S)
<1>1. PICK R : R = T \ S
  OBVIOUS
<1>2. IsFiniteSet(R) /\ R \cap S = {} /\ S \cup R = T
  BY <1>1, FS_Subset
<1>3. Weighs(w, R) /\ SumFunctionOnSet(w, R) = 0
  BY <1>1, <1>2, SumOfZeros
<1>4. Weighs(w, S) /\ SumFunctionOnSet(w, S) = SumFunctionOnSet(v, S)
  <2>1. Weighs(w, S)
    BY DEF Weighs
  <2> QED
    BY <2>1, SumIsSame
<1>5. Weighs(w, S \cup R) /\ SumFunctionOnSet(w, S \cup R) = SumFunctionOnSet(w, S) + SumFunctionOnSet(w, R)
  BY <1>2, <1>3, <1>4, SumOfBoth
<1>6. PICK n \in Int : n = SumFunctionOnSet(v, S)
  BY SumIsInt
<1>7. SumFunctionOnSet(w, S \cup R) = n
  BY <1>3, <1>4, <1>5, <1>6
<1> QED
  BY <1>2, <1>5, <1>6, <1>7

(* Oldest first: what is taken of the layers, each only when the older ones *)
(* are used up, adds up to what was wanted, or to all there is.             *)
Portion(rest, have) == IF rest <= 0 THEN 0 ELSE Least(rest, have)
Below(ls, n) == {l \in ls : l <= n}

LEMMA PortionIs == ASSUME NEW r \in Int, NEW h \in Nat PROVE Portion(r, h) \in Nat /\ Portion(r, h) <= h
  BY DEF Portion, Least

LEMMA OldestFirst ==
    ASSUME NEW last \in Nat, NEW ls \in SUBSET (1 .. last), NEW have, \A l \in ls : have[l] \in Nat,
           NEW wanted \in Nat, NEW share,
           \A l \in ls : share[l] = Portion(wanted - SumFunctionOnSet(have, {k \in ls : k < l}), have[l])
    PROVE  /\ Weighs(share, ls) /\ Weighs(have, ls)
           /\ \A l \in ls : share[l] \in Nat /\ share[l] <= have[l]
           /\ SumFunctionOnSet(share, ls) = Least(wanted, SumFunctionOnSet(have, ls))
<1>0. ls \subseteq 1 .. last /\ \A l \in ls : l \in Nat /\ 1 <= l /\ l <= last
  OBVIOUS
<1>1. IsFiniteSet(ls)
  <2>1. IsFiniteSet(1 .. last)
    BY FS_Interval
  <2> QED
    BY <1>0, <2>1, FS_Subset
<1>2. \A s \in SUBSET ls : Weighs(have, s) /\ SumFunctionOnSet(have, s) \in Nat
  BY <1>1, FS_Subset, SumOfNaturals
<1>3. \A l \in ls : share[l] \in Nat /\ share[l] <= have[l]
  <2> SUFFICES ASSUME NEW l \in ls PROVE share[l] \in Nat /\ share[l] <= have[l]
    OBVIOUS
  <2>1. PICK b : b = SumFunctionOnSet(have, {k \in ls : k < l})
    OBVIOUS
  <2>2. b \in Nat
    BY <1>2, <2>1
  <2>3. wanted - b \in Int /\ have[l] \in Nat /\ share[l] = Portion(wanted - b, have[l])
    BY <2>1, <2>2
  <2> QED
    BY <2>3, PortionIs
<1>4. \A s \in SUBSET ls : Weighs(share, s)
  <2>1. \A s \in SUBSET ls : IsFiniteSet(s)
    BY <1>1, FS_Subset
  <2> QED
    BY <1>3, <2>1 DEF Weighs
<1>5. PICK N : N = {n \in Nat : SumFunctionOnSet(share, Below(ls, n)) =
                                   Least(wanted, SumFunctionOnSet(have, Below(ls, n)))}
  OBVIOUS
<1>6. 0 \in N
  <2>1. Below(ls, 0) = {}
    <3>1. \A l \in ls : ~(l <= 0)
      BY <1>0
    <3> QED
      BY <3>1, Zenon DEF Below
  <2>2. SumFunctionOnSet(share, {}) = 0 /\ SumFunctionOnSet(have, {}) = 0
    BY SumOfNone
  <2> QED
    <3>1. SumFunctionOnSet(share, {}) = Least(wanted, SumFunctionOnSet(have, {}))
      BY <2>2 DEF Least
    <3> QED
      BY <1>5, <2>1, <3>1
<1>7. ASSUME NEW n \in N PROVE n + 1 \in N
  <2>0. n \in Nat
    BY <1>5
  <2>1. PICK s : s = Below(ls, n)
    OBVIOUS
  <2>2. s \in SUBSET ls /\ SumFunctionOnSet(share, s) = Least(wanted, SumFunctionOnSet(have, s))
    BY <1>5, <2>1 DEF Below
  <2>3. CASE n + 1 \notin ls
    <3>1. Below(ls, n + 1) = s
      <4>1. \A l \in ls : l <= n + 1 <=> l <= n
        BY <1>0, <2>0, <2>3
      <4> QED
        BY <2>1, <4>1, Zenon DEF Below
    <3>2. n + 1 \in Nat
      BY <2>0
    <3> QED
      BY <1>5, <2>2, <3>1, <3>2
  <2>4. CASE n + 1 \in ls
    <3>1. Below(ls, n + 1) = s \cup {n + 1} /\ n + 1 \notin s /\ {k \in ls : k < n + 1} = s
      <4>1. \A l \in ls : (l <= n + 1 <=> l <= n \/ l = n + 1) /\ (l < n + 1 <=> l <= n)
        BY <1>0, <2>0
      <4>2. ~(n + 1 <= n) /\ n + 1 <= n + 1
        BY <2>0
      <4>3. n + 1 \notin s /\ {k \in ls : k < n + 1} = s
        BY <2>1, <4>1, <4>2, Zenon DEF Below
      <4>4. Below(ls, n + 1) = s \cup {n + 1}
        BY <2>1, <2>4, <4>1, <4>2, Zenon DEF Below
      <4> QED
        BY <4>3, <4>4
    <3>2. PICK x \in Nat : x = SumFunctionOnSet(have, s)
      BY <1>2, <2>2
    <3>3. PICK h \in Nat : h = have[n + 1]
      BY <2>4
    <3>4. share[n + 1] = Portion(wanted - x, h)
      BY <2>4, <3>1, <3>2, <3>3
    <3>5. Weighs(share, s) /\ Weighs(have, s) /\ share[n + 1] \in Int
      <4>1. Weighs(share, s) /\ Weighs(have, s)
        BY <1>2, <1>4, <2>2
      <4>2. share[n + 1] \in Nat
        BY <1>3, <2>4
      <4> QED
        BY <4>1, <4>2
    <3>6. SumFunctionOnSet(share, s \cup {n + 1}) = Least(wanted, x) + Portion(wanted - x, h)
      BY <2>2, <3>1, <3>2, <3>4, <3>5, SumOfMore
    <3>7. SumFunctionOnSet(have, s \cup {n + 1}) = x + h
      BY <3>1, <3>2, <3>3, <3>5, SumOfMore
    <3>8. Least(wanted, x) + Portion(wanted - x, h) = Least(wanted, x + h)
      BY DEF Least, Portion
    <3> QED
      <4>1. n + 1 \in Nat
        BY <2>0
      <4>2. SumFunctionOnSet(share, Below(ls, n + 1)) = Least(wanted, SumFunctionOnSet(have, Below(ls, n + 1)))
        BY <3>1, <3>6, <3>7, <3>8
      <4> QED
        BY <1>5, <4>1, <4>2
  <2> QED
    BY <2>3, <2>4
<1>8. N = Nat
  BY <1>5, <1>6, <1>7, FromZeroOn
<1>9. Below(ls, last) = ls
  BY <1>0 DEF Below
<1> QED
  BY <1>2, <1>3, <1>4, <1>5, <1>8, <1>9

-----------------------------------------------------------------------------
(* Layers, and what a transaction t makes of them.                          *)
LayersAre(f) ==
    /\ f = [l \in DOMAIN f |-> f[l]] /\ IsFiniteSet(DOMAIN f) /\ DOMAIN f \subseteq Nat
    /\ \A l \in DOMAIN f : f[l] \in [bin : Bin, left : Nat]
InB(f, b) == {l \in DOMAIN f : f[l].bin = b}
LeftsOf(f) == [l \in DOMAIN f |-> f[l].left]
Holds(f, b) == SumFunctionOnSet(LeftsOf(f), InB(f, b))

LayerOf(f, t, l) == IF l \in DOMAIN f THEN f[l] ELSE t.fresh[l]
TakenFrom(f, t, b) == {l \in t.held : LayerOf(f, t, l).bin = b}
TakenOf(f, t, b) == SumFunctionOnSet(t.taken, TakenFrom(f, t, b))

LEMMA HoldsWeighs ==
    ASSUME NEW f, LayersAre(f), NEW b
    PROVE  Weighs(LeftsOf(f), InB(f, b)) /\ Holds(f, b) \in Int
<1>1. IsFiniteSet(InB(f, b)) /\ \A l \in InB(f, b) : LeftsOf(f)[l] \in Int
  BY FS_Subset DEF InB, LayersAre, LeftsOf
<1>2. Weighs(LeftsOf(f), InB(f, b))
  BY <1>1 DEF Weighs
<1> QED
  BY <1>2, SumIsInt DEF Holds

LeftIf(e, b) == IF e.bin = b THEN e.left ELSE 0
OneLayerMore(f, n, e, g) ==
    LayersAre(f) /\ n \in Nat /\ n \notin DOMAIN f /\ e \in [bin : Bin, left : Nat] /\ g = Put(f, n, e)

Extends(f, n, e, g) == DOMAIN g = DOMAIN f \cup {n} /\ g[n] = e /\ \A l \in DOMAIN f : g[l] = f[l]

LEMMA PutIs ==
    ASSUME NEW f, NEW n, NEW e, NEW g, OneLayerMore(f, n, e, g)
    PROVE  LayersAre(g) /\ Extends(f, n, e, g)
<1> USE DEF OneLayerMore
<1>1. DOMAIN g = DOMAIN f \cup {n} /\ g[n] = e /\ \A l \in DOMAIN f : g[l] = f[l]
  BY DEF Put
<1>2. g = [l \in DOMAIN g |-> g[l]]
  BY DEF Put
<1>3. LayersAre(g)
  BY <1>1, <1>2, FS_AddElement DEF LayersAre
<1> QED
  BY <1>1, <1>3 DEF Extends

LEMMA HoldsMore ==
    ASSUME NEW f, NEW n, NEW e, NEW g, OneLayerMore(f, n, e, g), NEW b
    PROVE  Holds(g, b) = Holds(f, b) + LeftIf(e, b)
<1>1. /\ LayersAre(g) /\ DOMAIN g = DOMAIN f \cup {n} /\ g[n] = e /\ \A l \in DOMAIN f : g[l] = f[l]
      /\ LayersAre(f) /\ n \notin DOMAIN f /\ e.left \in Nat
  <2>1. LayersAre(f) /\ n \notin DOMAIN f /\ e.left \in Nat
    BY DEF OneLayerMore
  <2>2. LayersAre(g) /\ Extends(f, n, e, g)
    BY PutIs
  <2> QED
    BY <2>1, <2>2 DEF Extends
<1>2. Weighs(LeftsOf(f), InB(f, b)) /\ Holds(f, b) \in Int /\ Weighs(LeftsOf(g), InB(g, b))
  BY <1>1, HoldsWeighs
<1>3. PICK s : s = InB(f, b)
  OBVIOUS
<1>4. \A l \in s : LeftsOf(f)[l] = LeftsOf(g)[l]
  BY <1>1, <1>3 DEF LeftsOf, InB
<1>5. SumFunctionOnSet(LeftsOf(g), s) = Holds(f, b)
  BY <1>2, <1>3, <1>4, SumIsSame DEF Holds
<1>6. CASE e.bin = b
  <2>1. InB(g, b) = s \cup {n} /\ n \notin s
    BY <1>1, <1>3, <1>6 DEF InB
  <2>2. LeftsOf(g)[n] = e.left /\ e.left \in Int
    BY <1>1 DEF LeftsOf
  <2>3. Weighs(LeftsOf(g), s)
    BY <1>2, <1>3, <1>4 DEF Weighs
  <2> QED
    BY <1>5, <1>6, <2>1, <2>2, <2>3, SumOfMore DEF Holds, LeftIf
<1>7. CASE e.bin # b
  <2>1. InB(g, b) = s
    BY <1>1, <1>3, <1>7 DEF InB
  <2> QED
    BY <1>2, <1>5, <1>7, <2>1 DEF Holds, LeftIf
<1> QED
  BY <1>6, <1>7

(* A transaction has its own new layers and holds some of those it sees, of *)
(* which it takes no more than there is.                                    *)
Reaches(f, t) ==
    /\ LayersAre(t.fresh) /\ DOMAIN f \cap DOMAIN t.fresh = {}
    /\ IsFiniteSet(t.held) /\ DOMAIN t.taken = t.held
    /\ t.held \subseteq DOMAIN f \cup DOMAIN t.fresh
    /\ t.cursor \subseteq DOMAIN f \cup DOMAIN t.fresh
    /\ \A l \in t.held : t.taken[l] \in Nat /\ t.taken[l] <= LayerOf(f, t, l).left

LEMMA TakenWeighs ==
    ASSUME NEW f, NEW t, Reaches(f, t), NEW b
    PROVE  Weighs(t.taken, TakenFrom(f, t, b)) /\ TakenOf(f, t, b) \in Int
<1>1. IsFiniteSet(TakenFrom(f, t, b)) /\ \A l \in TakenFrom(f, t, b) : t.taken[l] \in Int
  BY FS_Subset DEF TakenFrom, Reaches
<1>2. Weighs(t.taken, TakenFrom(f, t, b))
  BY <1>1 DEF Weighs
<1> QED
  BY <1>2, SumIsInt DEF TakenOf

LEMMA LayerIs ==
    ASSUME NEW f, LayersAre(f), NEW t, Reaches(f, t), NEW l \in DOMAIN f \cup DOMAIN t.fresh
    PROVE  LayerOf(f, t, l) \in [bin : Bin, left : Nat]
  BY DEF LayersAre, Reaches, LayerOf

LEMMA LayersSettled ==
    ASSUME NEW f, LayersAre(f), NEW t, Reaches(f, t), NEW g,
           g = [l \in DOMAIN f \cup DOMAIN t.fresh |->
                   [bin |-> LayerOf(f, t, l).bin, left |-> LayerOf(f, t, l).left - At(t.taken, l)]]
    PROVE  /\ LayersAre(g) /\ DOMAIN g = DOMAIN f \cup DOMAIN t.fresh
           /\ \A b : Holds(g, b) = Holds(f, b) + Holds(t.fresh, b) - TakenOf(f, t, b)
<1>1. DOMAIN g = DOMAIN f \cup DOMAIN t.fresh
  OBVIOUS
<1>2. \A l \in DOMAIN g : At(t.taken, l) \in Nat /\ At(t.taken, l) <= LayerOf(f, t, l).left
  <2> SUFFICES ASSUME NEW l \in DOMAIN g
               PROVE  At(t.taken, l) \in Nat /\ At(t.taken, l) <= LayerOf(f, t, l).left
    OBVIOUS
  <2>1. LayerOf(f, t, l).left \in Nat
    BY <1>1, LayerIs
  <2> QED
    BY <2>1 DEF At, Reaches
<1>3. \A l \in DOMAIN g : /\ LayerOf(f, t, l) \in [bin : Bin, left : Nat]
                          /\ g[l].bin = LayerOf(f, t, l).bin
                          /\ g[l].left = LayerOf(f, t, l).left - At(t.taken, l)
                          /\ g[l] \in [bin : Bin, left : Nat]
  <2> SUFFICES ASSUME NEW l \in DOMAIN g
               PROVE  /\ LayerOf(f, t, l) \in [bin : Bin, left : Nat]
                      /\ g[l].bin = LayerOf(f, t, l).bin
                      /\ g[l].left = LayerOf(f, t, l).left - At(t.taken, l)
                      /\ g[l] \in [bin : Bin, left : Nat]
    OBVIOUS
  <2>1. LayerOf(f, t, l) \in [bin : Bin, left : Nat]
    BY <1>1, LayerIs
  <2>2. g[l] = [bin |-> LayerOf(f, t, l).bin, left |-> LayerOf(f, t, l).left - At(t.taken, l)]
    BY <1>1
  <2>3. LayerOf(f, t, l).left - At(t.taken, l) \in Nat
    BY <1>2, <2>1
  <2> QED
    BY <2>1, <2>2, <2>3
<1>4. LayersAre(g)
  <2>1. IsFiniteSet(DOMAIN g) /\ DOMAIN g \subseteq Nat
    BY <1>1, FS_Union DEF LayersAre, Reaches
  <2>2. g = [l \in DOMAIN g |-> g[l]]
    OBVIOUS
  <2> QED
    BY <1>3, <2>1, <2>2 DEF LayersAre
<1>5. ASSUME NEW b PROVE Holds(g, b) = Holds(f, b) + Holds(t.fresh, b) - TakenOf(f, t, b)
  <2>1. PICK s, r, v : s = InB(f, b) /\ r = InB(t.fresh, b) /\ v = InB(g, b)
    OBVIOUS
  <2>2. PICK a, d : /\ a = [l \in DOMAIN g |-> LayerOf(f, t, l).left]
                    /\ d = [l \in DOMAIN g |-> At(t.taken, l)]
    OBVIOUS
  <2>3. v = s \cup r /\ s \cap r = {}
    BY <1>1, <1>3, <2>1 DEF InB, LayerOf, Reaches
  <2>4. Weighs(LeftsOf(f), s) /\ Weighs(LeftsOf(t.fresh), r) /\ Weighs(LeftsOf(g), v)
    BY <1>4, <2>1, HoldsWeighs DEF Reaches
  <2>5. Holds(f, b) \in Int /\ Holds(t.fresh, b) \in Int /\ Holds(g, b) \in Int /\ TakenOf(f, t, b) \in Int
    BY <1>4, HoldsWeighs, TakenWeighs DEF Reaches
  <2>6. Weighs(a, v) /\ SumFunctionOnSet(a, v) = Holds(f, b) + Holds(t.fresh, b)
    <3>1. \A l \in s : LeftsOf(f)[l] = a[l]
      BY <1>1, <2>1, <2>2 DEF LeftsOf, InB, LayerOf
    <3>2. \A l \in r : LeftsOf(t.fresh)[l] = a[l]
      BY <1>1, <2>1, <2>2 DEF LeftsOf, InB, LayerOf, Reaches
    <3>3. SumFunctionOnSet(a, s) = Holds(f, b)
      BY <2>1, <2>4, <3>1, SumIsSame DEF Holds
    <3>4. SumFunctionOnSet(a, r) = Holds(t.fresh, b)
      BY <2>1, <2>4, <3>2, SumIsSame DEF Holds
    <3>5. Weighs(a, s) /\ Weighs(a, r)
      BY <2>4, <3>1, <3>2 DEF Weighs
    <3> QED
      BY <2>3, <3>3, <3>4, <3>5, SumOfBoth
  <2>7. Weighs(d, v) /\ SumFunctionOnSet(d, v) = TakenOf(f, t, b)
    <3>1. PICK h : h = TakenFrom(f, t, b)
      OBVIOUS
    <3>2. h \in SUBSET v
      BY <1>1, <1>3, <2>1, <3>1 DEF TakenFrom, InB, Reaches
    <3>3. \A l \in h : d[l] = t.taken[l]
      BY <1>1, <2>2, <3>1 DEF TakenFrom, Reaches, At
    <3>4. \A l \in v \ h : d[l] = 0
      BY <1>1, <1>3, <2>1, <2>2, <3>1 DEF TakenFrom, Reaches, At, InB
    <3>5. IsFiniteSet(v) /\ Weighs(t.taken, h)
      BY <2>4, <3>1, TakenWeighs DEF Weighs
    <3> QED
      BY <3>1, <3>2, <3>3, <3>4, <3>5, ZerosAdded DEF TakenOf
  <2>8. \A l \in v : a[l] = LeftsOf(g)[l] + d[l]
    <3> SUFFICES ASSUME NEW l \in v PROVE a[l] = LeftsOf(g)[l] + d[l]
      OBVIOUS
    <3>1. l \in DOMAIN g
      BY <2>1 DEF InB
    <3>2. a[l] = LayerOf(f, t, l).left /\ d[l] = At(t.taken, l) /\ LeftsOf(g)[l] = g[l].left
      BY <2>2, <3>1 DEF LeftsOf
    <3>3. PICK x, y : x = LayerOf(f, t, l).left /\ y = At(t.taken, l)
      OBVIOUS
    <3>4. x \in Nat /\ y \in Nat /\ g[l].left = x - y
      BY <1>2, <1>3, <3>1, <3>3
    <3> QED
      BY <3>2, <3>3, <3>4
  <2>9. SumFunctionOnSet(a, v) = SumFunctionOnSet(LeftsOf(g), v) + SumFunctionOnSet(d, v)
    BY <2>4, <2>7, <2>8, SumOfSums
  <2> QED
    BY <2>1, <2>5, <2>6, <2>7, <2>9 DEF Holds
<1> QED
  BY <1>1, <1>4, <1>5

(* What is taken of layers of one bin counts for that bin.                  *)
Takes(f, t, u, ls, share, bin) ==
    /\ Reaches(f, t) /\ IsFiniteSet(ls) /\ Weighs(share, ls) /\ u.fresh = t.fresh /\ u.held = t.held \cup ls
    /\ u.taken = [l \in t.held \cup ls |-> At(t.taken, l) + (IF l \in ls THEN share[l] ELSE 0)]
    /\ \A l \in ls : LayerOf(f, t, l).bin = bin

LEMMA MoreTaken ==
    ASSUME NEW f, NEW t, NEW u, NEW ls, NEW share, NEW bin, Takes(f, t, u, ls, share, bin), NEW b
    PROVE  TakenOf(f, u, b) = TakenOf(f, t, b) + (IF b = bin THEN SumFunctionOnSet(share, ls) ELSE 0)
<1>0. /\ Reaches(f, t) /\ IsFiniteSet(ls) /\ Weighs(share, ls) /\ u.fresh = t.fresh /\ u.held = t.held \cup ls
      /\ u.taken = [l \in t.held \cup ls |-> At(t.taken, l) + (IF l \in ls THEN share[l] ELSE 0)]
      /\ \A l \in ls : LayerOf(f, t, l).bin = bin
  BY DEF Takes
<1> USE <1>0
<1>1. PICK h, k : h = TakenFrom(f, t, b) /\ k = TakenFrom(f, u, b)
  OBVIOUS
<1>2. \A l : LayerOf(f, u, l) = LayerOf(f, t, l)
  BY DEF LayerOf
<1>3. Weighs(t.taken, h) /\ TakenOf(f, t, b) \in Int
  BY <1>1, TakenWeighs
<1>4. PICK w, v : /\ w = [l \in t.held \cup ls |-> At(t.taken, l)]
                  /\ v = [l \in t.held \cup ls |-> IF l \in ls THEN share[l] ELSE 0]
  OBVIOUS
<1>5. IsFiniteSet(k) /\ k \subseteq t.held \cup ls /\ h \in SUBSET k
  <2>1. IsFiniteSet(t.held \cup ls)
    BY FS_Union DEF Reaches
  <2>2. k \subseteq t.held \cup ls /\ h \in SUBSET k
    BY <1>1, <1>2 DEF TakenFrom
  <2> QED
    BY <2>1, <2>2, FS_Subset
<1>6. Weighs(w, k) /\ SumFunctionOnSet(w, k) = TakenOf(f, t, b)
  <2>1. \A l \in h : w[l] = t.taken[l]
    BY <1>1, <1>4 DEF TakenFrom, Reaches, At
  <2>2. \A l \in k \ h : w[l] = 0
    BY <1>1, <1>2, <1>4, <1>5 DEF TakenFrom, Reaches, At
  <2> QED
    BY <1>1, <1>3, <1>5, <2>1, <2>2, ZerosAdded DEF TakenOf
<1>7. Weighs(v, k) /\ SumFunctionOnSet(v, k) = IF b = bin THEN SumFunctionOnSet(share, ls) ELSE 0
  <2>1. CASE b = bin
    <3>1. ls \in SUBSET k
      BY <1>1, <1>2, <2>1 DEF TakenFrom
    <3>2. (\A l \in ls : v[l] = share[l]) /\ \A l \in k \ ls : v[l] = 0
      BY <1>4, <1>5
    <3> QED
      BY <1>5, <2>1, <3>1, <3>2, ZerosAdded
  <2>2. CASE b # bin
    <3>1. \A l \in k : v[l] = 0
      BY <1>1, <1>2, <1>4, <1>5, <2>2 DEF TakenFrom
    <3> QED
      BY <1>5, <2>2, <3>1, SumOfZeros
  <2> QED
    BY <2>1, <2>2
<1>8. \A l \in k : u.taken[l] = w[l] + v[l]
  BY <1>4, <1>5
<1>9. SumFunctionOnSet(u.taken, k) = SumFunctionOnSet(w, k) + SumFunctionOnSet(v, k)
  <2> HIDE <1>0
  <2>1. Weighs(w, k) /\ Weighs(v, k)
    BY <1>6, <1>7
  <2> QED
    BY <1>8, <2>1, SumOfSums
<1> QED
  BY <1>1, <1>6, <1>7, <1>9 DEF TakenOf
-----------------------------------------------------------------------------
(* The invariant.  Of one call: where it is and what it moves, ...          *)
Stages == {"none", "check", "layer", "open", "take", "value"}
OfStage(c, st, m) ==
    /\ st = "none" => m = Idle
    /\ st # "none" => m \in Movement /\ m.by = c
    /\ st = "layer" => m.kind \in Layered
    /\ st \in {"open", "take"} => m.kind \in Consuming

IsTx(t) == t = [cursor |-> t.cursor, held |-> t.held, taken |-> t.taken, fresh |-> t.fresh,
                delta |-> t.delta, moved |-> t.moved]

(* ... that a movement is inserted once, n being the next number, ...       *)
Once(c, st, m, t, n) ==
    /\ n \in Nat /\ Movements(t.moved)
    /\ \A x \in t.moved : x.by = c /\ x.n < n
    /\ st # "none" => m.n < n /\ m \notin t.moved

(* ... that its cursor is over layers of the bin, ...                       *)
Aims(st, m, f, t) == st = "take" => \A l \in t.cursor : LayerOf(f, t, l).bin = m.bin

(* ... what its layers say of its movements, the one whose layers are done  *)
(* among them, and what its quantities do.                                  *)
Layerings(st, m, t) == IF st = "value" THEN t.moved \cup {m} ELSE t.moved
Counted(st, m, f, t) == \A b \in Bin :
    Holds(t.fresh, b) - TakenOf(f, t, b) =
        Qty(Of(Layerings(st, m, t), b, Layered)) - Qty(Of(Layerings(st, m, t), b, Consuming))
Changes(t) ==
    /\ DOMAIN t.delta \subseteq Bin /\ \A b \in DOMAIN t.delta : t.delta[b] \in Int
    /\ \A b \in Bin : OpeningLeft(b) > 0 =>
          At(t.delta, b) = Qty(Of(t.moved, b, Inward)) - Qty(Of(t.moved, b, Outward))

CallIs(c, st, m, t, n, f, last) ==
    /\ st \in Stages /\ OfStage(c, st, m) /\ IsTx(t) /\ Once(c, st, m, t, n)
    /\ Reaches(f, t) /\ DOMAIN t.fresh \subseteq 1 .. last
    /\ Aims(st, m, f, t) /\ Counted(st, m, f, t) /\ Changes(t)

(* Of two calls: they hold different layers and made different ones.        *)
Apart(t, u) == t.held \cap u.held = {} /\ DOMAIN t.fresh \cap DOMAIN u.fresh = {}

(* Of the tables.                                                           *)
TablesAre(f, last, q, ms) ==
    /\ LayersAre(f) /\ last \in Nat /\ DOMAIN f \subseteq 1 .. last
    /\ DOMAIN q \subseteq Bin /\ \A b \in DOMAIN q : q[b] \in Int
    /\ Movements(ms)
    /\ \A b \in Bin : Holds(f, b) = OpeningLeft(b) + Qty(Of(ms, b, Layered)) - Qty(Of(ms, b, Consuming))
    /\ \A b \in Bin : OpeningLeft(b) > 0 =>
          b \in DOMAIN q /\ q[b] = OpeningLeft(b) + Qty(Of(ms, b, Inward)) - Qty(Of(ms, b, Outward))

CallsAre ==
    /\ setting \in Settings /\ at \in [Call -> Nat] /\ (\A c \in Call : at[c] > 0 => c \in Asking)
    /\ stage \in [Call -> Stages] /\ moving = [c \in Call |-> moving[c]] /\ tx = [c \in Call |-> tx[c]]
    /\ ended \in [Call -> {"no", "committed", "failed"}]
EachCall == \A c \in Call : CallIs(c, stage[c], moving[c], tx[c], at[c], layers, lastLayer)
AllApart == \A c, d \in Call : c # d => Apart(tx[c], tx[d])
NothingEarly == \A m \in moved : m.by \in Call /\ ended[m.by] # "no"
StockInv == CallsAre /\ EachCall /\ AllApart /\ TablesAre(layers, lastLayer, quantity, moved) /\ NothingEarly

LEMMA OpeningIs ==
    /\ LayersAre(Opening) /\ DOMAIN Opening = 1 .. Len(Opening) /\ Len(Opening) \in Nat
    /\ \A b : OpeningLeft(b) = Holds(Opening, b) /\ OpeningLeft(b) \in Int
<1>1. /\ Len(Opening) \in Nat /\ DOMAIN Opening = 1 .. Len(Opening)
      /\ \A l \in DOMAIN Opening : Opening[l] \in [bin : Bin, left : Nat \ {0}]
  <2>1. PICK S : S = [bin : Bin, left : Nat \ {0}]
    OBVIOUS
  <2>2. Opening \in Seq(S)
    BY <2>1, OpeningAssumption
  <2>3. Len(Opening) \in Nat /\ DOMAIN Opening = 1 .. Len(Opening)
    BY <2>2
  <2>4. \A l \in DOMAIN Opening : Opening[l] \in S
    BY <2>2
  <2> QED
    BY <2>1, <2>3, <2>4
<1>2. LayersAre(Opening)
  <2>1. IsFiniteSet(DOMAIN Opening)
    BY <1>1, FS_Interval
  <2>2. \A l \in DOMAIN Opening : Opening[l] \in [bin : Bin, left : Nat]
    BY <1>1
  <2>3. Opening = [l \in DOMAIN Opening |-> Opening[l]]
    <3>1. \A S : \A s \in Seq(S) : s = [i \in DOMAIN s |-> s[i]]
      OBVIOUS
    <3> QED
      BY <3>1, OpeningAssumption
  <2> QED
    BY <1>1, <2>1, <2>2, <2>3 DEF LayersAre
<1>3. ASSUME NEW b PROVE OpeningLeft(b) = Holds(Opening, b) /\ OpeningLeft(b) \in Int
  <2>1. PICK s : s = {l \in DOMAIN Opening : Opening[l].bin = b}
    OBVIOUS
  <2>2. IsFiniteSet(s) /\ \A l \in s : Opening[l].left \in Int
    BY <1>2, <2>1, FS_Subset DEF LayersAre
  <2>3. /\ Weighs([l \in s |-> Opening[l].left], s)
        /\ OpeningLeft(b) = SumFunctionOnSet([l \in s |-> Opening[l].left], s)
    BY <2>1, <2>2, LeftIs DEF OpeningLeft
  <2>4. \A l \in s : [k \in s |-> Opening[k].left][l] = LeftsOf(Opening)[l]
    BY <2>1 DEF LeftsOf
  <2>5. Holds(Opening, b) = SumFunctionOnSet(LeftsOf(Opening), s)
    BY <2>1 DEF Holds, InB
  <2> QED
    BY <2>3, <2>4, <2>5, SumIsSame, SumIsInt
<1> QED
  BY <1>1, <1>2, <1>3

LEMMA NothingIs ==
    ASSUME NEW c, NEW n \in Nat, NEW f, NEW last
    PROVE  CallIs(c, "none", Idle, Nothing, n, f, last)
<1> DEFINE t == Nothing
<1>1. /\ t.cursor = {} /\ t.held = {} /\ t.taken = Nowhere /\ t.fresh = Nowhere /\ t.delta = Nowhere
      /\ t.moved = {} /\ IsTx(t)
  BY DEF Nothing, IsTx
<1>2. DOMAIN Nowhere = {} /\ Nowhere = [l \in DOMAIN Nowhere |-> Nowhere[l]]
  BY DEF Nowhere
<1>3. Movements({}) /\ IsFiniteSet({})
  BY FS_EmptySet DEF Movements
<1>4. LayersAre(Nowhere)
  BY <1>2, <1>3 DEF LayersAre
<1>5. Reaches(f, t)
  BY <1>1, <1>2, <1>3, <1>4 DEF Reaches
<1>6. \A b : Holds(Nowhere, b) = 0
  <2>1. \A b : InB(Nowhere, b) = {}
    BY <1>2 DEF InB
  <2> QED
    BY <2>1, SumOfNone DEF Holds
<1>7. \A b : TakenOf(f, t, b) = 0
  <2>1. \A b : TakenFrom(f, t, b) = {}
    BY <1>1 DEF TakenFrom
  <2> QED
    BY <2>1, SumOfNone DEF TakenOf
<1>8. Counted("none", Idle, f, t)
  BY <1>1, <1>6, <1>7, QtyOfNone DEF Counted, Layerings
<1>9. Changes(t)
  BY <1>1, <1>2, QtyOfNone DEF Changes, At
<1> QED
  BY <1>1, <1>2, <1>3, <1>5, <1>8, <1>9 DEF CallIs, Stages, OfStage, Once, Aims

(* The beginning.                                                           *)
LEMMA StockStarts == StockInit /\ at = [c \in Call |-> 0] /\ ended = [c \in Call |-> "no"] /\ setting \in Settings
                     => StockInv
<1> SUFFICES ASSUME StockInit, at = [c \in Call |-> 0], ended = [c \in Call |-> "no"], setting \in Settings
             PROVE  StockInv
  OBVIOUS
<1>1. CallsAre
  BY DEF StockInit, CallsAre, Stages
<1>2. EachCall
  BY NothingIs DEF StockInit, EachCall
<1>3. AllApart
  <2>1. Apart(Nothing, Nothing)
    BY DEF Apart, Nothing, Nowhere
  <2> QED
    BY <2>1 DEF StockInit, AllApart
<1>4. NothingEarly
  BY DEF StockInit, NothingEarly
<1>5. TablesAre(layers, lastLayer, quantity, moved)
  <2>1. layers = Opening /\ lastLayer = Len(Opening) /\ moved = {}
    BY DEF StockInit
  <2>2. LayersAre(layers) /\ lastLayer \in Nat /\ DOMAIN layers \subseteq 1 .. lastLayer
    BY <2>1, OpeningIs
  <2>3. Movements(moved)
    BY <2>1, FS_EmptySet DEF Movements
  <2>4. quantity = [b \in {Opening[l].bin : l \in DOMAIN Opening} |-> OpeningLeft(b)]
    BY DEF StockInit, OpeningLeft
  <2>5. DOMAIN quantity \subseteq Bin
    BY <2>4, OpeningIs DEF LayersAre
  <2>6. \A b \in DOMAIN quantity : quantity[b] = OpeningLeft(b) /\ quantity[b] \in Int
    BY <2>4, OpeningIs
  <2>7. ASSUME NEW b, OpeningLeft(b) > 0 PROVE b \in DOMAIN quantity
    <3>1. SUFFICES ASSUME \A l \in DOMAIN Opening : Opening[l].bin # b PROVE FALSE
      BY <2>4
    <3>2. InB(Opening, b) = {}
      BY <3>1 DEF InB
    <3>3. OpeningLeft(b) = 0
      BY <3>2, OpeningIs, SumOfNone DEF Holds
    <3> QED
      BY <2>7, <3>3
  <2>8. \A b, kinds : Qty(Of(moved, b, kinds)) = 0
    BY <2>1, QtyOfNone
  <2>9. \A b \in Bin : Holds(layers, b) = OpeningLeft(b) + Qty(Of(moved, b, Layered)) - Qty(Of(moved, b, Consuming))
    BY <2>1, <2>8, OpeningIs
  <2>10. \A b \in Bin : OpeningLeft(b) > 0 =>
            b \in DOMAIN quantity /\ quantity[b] = OpeningLeft(b) + Qty(Of(moved, b, Inward)) - Qty(Of(moved, b, Outward))
    BY <2>6, <2>7, <2>8, OpeningIs
  <2> QED
    BY <2>2, <2>3, <2>5, <2>6, <2>9, <2>10 DEF TablesAre
<1> QED
  BY <1>1, <1>2, <1>3, <1>4, <1>5 DEF StockInv

-----------------------------------------------------------------------------
(* A call goes on in its own transaction: nobody else sees it.              *)
GoesOn(c, st, m, t, n, last, how) ==
    /\ stage' = [stage EXCEPT ![c] = st] /\ moving' = [moving EXCEPT ![c] = m] /\ tx' = [tx EXCEPT ![c] = t]
    /\ at' = [at EXCEPT ![c] = n] /\ ended' = [ended EXCEPT ![c] = how]
    /\ lastLayer' = last /\ layers' = layers /\ quantity' = quantity /\ moved' = moved /\ setting' = setting
    /\ n \in Nat /\ (n > 0 => c \in Asking) /\ how \in {ended[c], "failed"}
    /\ last \in Nat /\ last >= lastLayer

LEMMA LastGrows ==
    ASSUME NEW c, NEW st, NEW m, NEW t, NEW n, NEW f, NEW k \in Nat, NEW l \in Nat, l >= k,
           CallIs(c, st, m, t, n, f, k)
    PROVE  CallIs(c, st, m, t, n, f, l)
<1>1. DOMAIN t.fresh \subseteq 1 .. l
  <2>1. 1 .. k \subseteq 1 .. l
    OBVIOUS
  <2> QED
    BY <2>1 DEF CallIs
<1> QED
  BY <1>1 DEF CallIs

LEMMA CallGoes ==
    ASSUME StockInv, NEW c \in Call, NEW st, NEW m, NEW t, NEW n, NEW last, NEW how,
           GoesOn(c, st, m, t, n, last, how), CallIs(c, st, m, t, n, layers, last),
           \A d \in Call \ {c} : Apart(t, tx[d])
    PROVE  StockInv'
<1>0. CallsAre /\ lastLayer \in Nat /\ DOMAIN layers \subseteq 1 .. lastLayer
  BY DEF StockInv, TablesAre
<1>1. /\ stage'[c] = st /\ moving'[c] = m /\ tx'[c] = t /\ at'[c] = n
      /\ \A d \in Call \ {c} : stage'[d] = stage[d] /\ moving'[d] = moving[d] /\ tx'[d] = tx[d] /\ at'[d] = at[d]
  BY <1>0 DEF GoesOn, CallsAre
<1>2. layers' = layers /\ quantity' = quantity /\ moved' = moved /\ setting' = setting /\ lastLayer' = last
  BY DEF GoesOn, stockTables
<1>3. CallsAre'
  <2>1. stage' \in [Call -> Stages]
    BY <1>0 DEF GoesOn, CallsAre, CallIs
  <2>2. at' \in [Call -> Nat] /\ \A d \in Call : at'[d] > 0 => d \in Asking'
    BY <1>0, <1>1, <1>2 DEF GoesOn, CallsAre, Asking, Asked
  <2>3. ended' \in [Call -> {"no", "committed", "failed"}]
    BY <1>0 DEF GoesOn, CallsAre
  <2>4. moving' = [d \in Call |-> moving'[d]] /\ tx' = [d \in Call |-> tx'[d]]
    BY <1>0 DEF GoesOn, CallsAre
  <2> QED
    BY <1>0, <1>2, <2>1, <2>2, <2>3, <2>4 DEF CallsAre
<1>4. EachCall'
  <2>1. ASSUME NEW d \in Call PROVE CallIs(d, stage'[d], moving'[d], tx'[d], at'[d], layers, last)
    <3>1. CASE d = c
      BY <1>1, <3>1
    <3>2. CASE d # c
      <4>1. CallIs(d, stage[d], moving[d], tx[d], at[d], layers, lastLayer)
        BY DEF StockInv, EachCall
      <4> QED
        BY <1>0, <1>1, <3>2, <4>1, LastGrows DEF GoesOn
    <3> QED
      BY <3>1, <3>2
  <2> QED
    BY <1>2, <2>1 DEF EachCall
<1>5. AllApart'
  BY <1>1 DEF StockInv, AllApart, Apart
<1>6. TablesAre(layers, last, quantity, moved)
  <2>1. 1 .. lastLayer \subseteq 1 .. last
    BY <1>0 DEF GoesOn
  <2> QED
    BY <2>1 DEF StockInv, TablesAre, GoesOn
<1>7. NothingEarly'
  BY <1>0, <1>2 DEF StockInv, NothingEarly, GoesOn, CallsAre
<1> QED
  BY <1>2, <1>3, <1>4, <1>5, <1>6, <1>7 DEF StockInv

(* A statement outside the stock tables.                                    *)
LEMMA PaperGoes ==
    ASSUME StockInv, NEW c \in Call, NEW n \in Nat, n >= at[c], n > 0 => c \in Asking,
           at' = [at EXCEPT ![c] = n], UNCHANGED <<stockVars, ended, setting>>
    PROVE  StockInv'
<1>0. CallsAre
  BY DEF StockInv
<1>1. PICK st, m, t : st = stage[c] /\ m = moving[c] /\ t = tx[c]
  OBVIOUS
<1>2. CallIs(c, st, m, t, at[c], layers, lastLayer)
  BY <1>1 DEF StockInv, EachCall
<1>3. CallIs(c, st, m, t, n, layers, lastLayer)
  <2>1. at[c] \in Nat /\ (st # "none" => m \in Movement) /\ \A x \in t.moved : x \in Movement
    BY <1>0, <1>2 DEF CallsAre, CallIs, OfStage, Once, Movements
  <2>2. \A x \in Movement : x.n \in Nat
    BY DEF Movement
  <2>3. \A k \in Nat : k < at[c] => k < n
    BY <2>1
  <2>4. Once(c, st, m, t, n)
    BY <1>2, <2>1, <2>2, <2>3 DEF CallIs, Once
  <2> QED
    BY <1>2, <2>4 DEF CallIs
<1>4. GoesOn(c, st, m, t, n, lastLayer, ended[c])
  <2>1. lastLayer \in Nat /\ lastLayer >= lastLayer
    BY DEF StockInv, TablesAre
  <2>2. stage' = [stage EXCEPT ![c] = st] /\ moving' = [moving EXCEPT ![c] = m] /\ tx' = [tx EXCEPT ![c] = t]
    BY <1>0, <1>1 DEF stockVars, CallsAre
  <2>3. ended' = [ended EXCEPT ![c] = ended[c]]
    BY <1>0 DEF CallsAre
  <2> QED
    BY <2>1, <2>2, <2>3 DEF GoesOn, stockVars, stockTables
<1>5. \A d \in Call \ {c} : Apart(t, tx[d])
  BY <1>1 DEF StockInv, AllApart
<1> QED
  BY <1>3, <1>4, <1>5, CallGoes

(* A rollback.                                                              *)
LEMMA AbortGoes == ASSUME StockInv, NEW c \in Call, Abort(c), UNCHANGED setting PROVE StockInv'
<1>0. CallsAre /\ lastLayer \in Nat
  BY DEF StockInv, TablesAre
<1>1. at[c] \in Nat /\ (at[c] > 0 => c \in Asking)
  BY <1>0 DEF CallsAre
<1>2. GoesOn(c, "none", Idle, Nothing, at[c], lastLayer, "failed")
  <2>1. at' = [at EXCEPT ![c] = at[c]]
    BY <1>0 DEF Abort, CallsAre
  <2>2. layers' = layers /\ quantity' = quantity /\ moved' = moved /\ lastLayer' = lastLayer
    BY DEF Abort, Undo, stockTables
  <2>3. /\ stage' = [stage EXCEPT ![c] = "none"] /\ moving' = [moving EXCEPT ![c] = Idle]
        /\ tx' = [tx EXCEPT ![c] = Nothing] /\ ended' = [ended EXCEPT ![c] = "failed"]
    BY DEF Abort, Undo
  <2>4. lastLayer \in Nat /\ lastLayer >= lastLayer
    BY <1>0
  <2> QED
    BY <1>1, <2>1, <2>2, <2>3, <2>4, Zenon DEF GoesOn
<1>3. CallIs(c, "none", Idle, Nothing, at[c], layers, lastLayer)
  BY <1>1, NothingIs
<1>4. \A d \in Call \ {c} : Apart(Nothing, tx[d])
  BY DEF Apart, Nothing, Nowhere
<1> QED
  BY <1>2, <1>3, <1>4, CallGoes

LEMMA Kinds ==
    /\ Layered \subseteq Inward /\ Consuming \subseteq Outward /\ Layered \cap Consuming = {}
    /\ Inward \cap Outward = {} /\ Layered \cap Outward = {} /\ Consuming \cap Inward = {}
  BY DEF Inward, Outward, Layered, Consuming

(* An INSERT of a movement.                                                 *)
LEMMA MoveGoes == ASSUME StockInv, NEW c \in Call, Move(c), UNCHANGED setting PROVE StockInv'
<1>0. CallsAre /\ lastLayer \in Nat /\ lastLayer >= lastLayer
  BY DEF StockInv, TablesAre
<1>1. at[c] \in Nat /\ at[c] > 0 /\ at[c] <= Len(Steps(c)) /\ c \in Asking /\ setting \in Settings
  BY <1>0 DEF CallsAre, Move, Open
<1>2. PICK s : s = Steps(c)[at[c]]
  OBVIOUS
<1>3. s \in Statement
  <2>1. PICK all : all = Steps(c)
    OBVIOUS
  <2>2. all \in Seq(Statement) /\ at[c] \in 1 .. Len(all)
    BY <1>1, <2>1, StepsLaid DEF Laid
  <2> QED
    BY <1>2, <2>1, <2>2
<1>4. s.do \in Inward \cup Outward /\ Insert(c, at[c], s.do, s.bin, s.qty) /\ Advance(c)
  BY <1>2 DEF Move
<1>5. PICK m : m = [by |-> c, n |-> at[c], kind |-> s.do, bin |-> s.bin, qty |-> s.qty]
  OBVIOUS
<1>6. m \in Movement /\ m.by = c /\ m.n = at[c]
  BY <1>1, <1>3, <1>4, <1>5, SaysMovement DEF Movement
<1>7. PICK t : t = tx[c]
  OBVIOUS
<1>8. CallIs(c, "none", moving[c], t, at[c], layers, lastLayer)
  BY <1>4, <1>7 DEF StockInv, EachCall, Insert
<1>9. CallIs(c, "check", m, t, at[c] + 1, layers, lastLayer)
  <2>1. \A x \in t.moved : x \in Movement /\ x.by = c /\ x.n < at[c]
    BY <1>8 DEF CallIs, Once, Movements
  <2>2. \A x \in t.moved : x.n \in Nat
    BY <2>1 DEF Movement
  <2>3. \A k \in Nat : k < at[c] => k < at[c] + 1 /\ k # at[c]
    BY <1>1
  <2>4. Once(c, "check", m, t, at[c] + 1)
    BY <1>1, <1>6, <1>8, <2>1, <2>2, <2>3 DEF CallIs, Once
  <2>5. OfStage(c, "check", m) /\ Aims("check", m, layers, t)
    BY <1>6 DEF OfStage, Aims
  <2>6. Counted("check", m, layers, t)
    BY <1>8 DEF CallIs, Counted, Layerings
  <2> QED
    BY <1>8, <2>4, <2>5, <2>6 DEF CallIs, Stages
<1>10. GoesOn(c, "check", m, t, at[c] + 1, lastLayer, ended[c])
  <2>1. tx' = [tx EXCEPT ![c] = t] /\ ended' = [ended EXCEPT ![c] = ended[c]]
    BY <1>0, <1>4, <1>7 DEF CallsAre, Insert, Advance
  <2>2. stage' = [stage EXCEPT ![c] = "check"] /\ moving' = [moving EXCEPT ![c] = m]
    BY <1>4, <1>5 DEF Insert
  <2>3. at' = [at EXCEPT ![c] = at[c] + 1]
    BY <1>4 DEF Advance
  <2>4. layers' = layers /\ quantity' = quantity /\ moved' = moved /\ lastLayer' = lastLayer
    BY <1>4 DEF Insert, stockTables
  <2>5. at[c] + 1 \in Nat
    BY <1>1
  <2> QED
    BY <1>0, <1>1, <2>1, <2>2, <2>3, <2>4, <2>5, Zenon DEF GoesOn
<1>11. \A d \in Call \ {c} : Apart(t, tx[d])
  BY <1>7 DEF StockInv, AllApart
<1> QED
  BY <1>9, <1>10, <1>11, CallGoes

(* A trigger's statement.                                                   *)
LEMMA TriggerGoes ==
    ASSUME StockInv, NEW c \in Call, NEW st, NEW m, NEW t, NEW last \in Nat, last >= lastLayer,
           UNCHANGED <<at, ended, setting, stockTables>>,
           stage' = [stage EXCEPT ![c] = st], moving' = [moving EXCEPT ![c] = m], tx' = [tx EXCEPT ![c] = t],
           lastLayer' = last, CallIs(c, st, m, t, at[c], layers, last), \A d \in Call \ {c} : Apart(t, tx[d])
    PROVE  StockInv'
<1>0. CallsAre
  BY DEF StockInv
<1>1. GoesOn(c, st, m, t, at[c], last, ended[c])
  <2>1. at' = [at EXCEPT ![c] = at[c]] /\ ended' = [ended EXCEPT ![c] = ended[c]]
    BY <1>0 DEF CallsAre
  <2>2. at[c] \in Nat /\ (at[c] > 0 => c \in Asking)
    BY <1>0 DEF CallsAre
  <2> QED
    BY <2>1, <2>2 DEF GoesOn, stockTables
<1> QED
  BY <1>1, CallGoes

LEMMA CheckGoes ==
    ASSUME StockInv, NEW c \in Call, CheckQuantity(c), UNCHANGED <<at, ended, setting>> PROVE StockInv'
<1>0. CallsAre /\ lastLayer \in Nat /\ lastLayer >= lastLayer
  BY DEF StockInv, TablesAre
<1>1. PICK m, t : m = moving[c] /\ t = tx[c]
  OBVIOUS
<1>2. CallIs(c, "check", m, t, at[c], layers, lastLayer)
  BY <1>1 DEF StockInv, EachCall, CheckQuantity
<1>3. m \in Movement /\ m.by = c /\ Movements(t.moved) /\ m \notin t.moved
  BY <1>2 DEF CallIs, OfStage, Once
<1>4. PICK st : st = NextStage(c)
  OBVIOUS
<1>5. /\ m.kind \in Layered => st = "layer"
      /\ m.kind \in Consuming => st = "open"
      /\ m.kind \notin Layered \cup Consuming => st = "value"
  BY <1>1, <1>4, Kinds DEF NextStage
<1>6. st \in {"layer", "open", "value"}
  BY <1>5
<1>7. OfStage(c, st, m) /\ Aims(st, m, layers, t) /\ Once(c, st, m, t, at[c])
  BY <1>2, <1>3, <1>5, <1>6 DEF OfStage, Aims, CallIs, Once
<1>8. Counted(st, m, layers, t)
  <2>1. CASE st # "value"
    BY <1>2, <2>1 DEF CallIs, Counted, Layerings
  <2>2. CASE st = "value"
    <3>1. m.kind \notin Layered /\ m.kind \notin Consuming
      BY <1>5, <2>2
    <3>2. ASSUME NEW b, NEW kinds, m.kind \notin kinds
          PROVE  Qty(Of(t.moved \cup {m}, b, kinds)) = Qty(Of(t.moved, b, kinds))
      <4>1. Qty(Of(t.moved \cup {m}, b, kinds)) = Qty(Of(t.moved, b, kinds)) + 0
        BY <1>3, <3>2, QtyOfMore
      <4>2. Qty(Of(t.moved, b, kinds)) \in Int
        BY <1>3, OfIs
      <4> QED
        BY <4>1, <4>2
    <3>3. \A b \in Bin : Holds(t.fresh, b) - TakenOf(layers, t, b) =
                            Qty(Of(t.moved, b, Layered)) - Qty(Of(t.moved, b, Consuming))
      BY <1>2 DEF CallIs, Counted, Layerings
    <3>4. \A b : /\ Qty(Of(t.moved \cup {m}, b, Layered)) = Qty(Of(t.moved, b, Layered))
                 /\ Qty(Of(t.moved \cup {m}, b, Consuming)) = Qty(Of(t.moved, b, Consuming))
      BY <3>1, <3>2
    <3> QED
      BY <2>2, <3>3, <3>4 DEF Counted, Layerings
  <2> QED
    BY <2>1, <2>2
<1>9. CallIs(c, st, m, t, at[c], layers, lastLayer)
  BY <1>2, <1>6, <1>7, <1>8 DEF CallIs, Stages
<1>10. \A d \in Call \ {c} : Apart(t, tx[d])
  BY <1>1 DEF StockInv, AllApart
<1>11. /\ stage' = [stage EXCEPT ![c] = st] /\ moving' = [moving EXCEPT ![c] = m] /\ tx' = [tx EXCEPT ![c] = t]
       /\ lastLayer' = lastLayer /\ UNCHANGED stockTables
  BY <1>0, <1>1, <1>4 DEF CheckQuantity, CallsAre, stockTables
<1> QED
  BY <1>0, <1>9, <1>10, <1>11, TriggerGoes

(* What a call has of its own, and the numbers its sums are.                *)
LEMMA SumsAre ==
    ASSUME StockInv, NEW c \in Call, NEW st, NEW m, NEW t, CallIs(c, st, m, t, at[c], layers, lastLayer)
    PROVE  /\ LayersAre(layers) /\ LayersAre(t.fresh) /\ Reaches(layers, t) /\ lastLayer \in Nat
           /\ DOMAIN layers \subseteq 1 .. lastLayer /\ DOMAIN t.fresh \subseteq 1 .. lastLayer
           /\ \A b : Holds(t.fresh, b) \in Int /\ TakenOf(layers, t, b) \in Int
           /\ Movements(t.moved)
           /\ \A b, kinds : Qty(Of(t.moved, b, kinds)) \in Int
<1>1. Reaches(layers, t) /\ Movements(t.moved) /\ DOMAIN t.fresh \subseteq 1 .. lastLayer
  BY DEF CallIs, Once
<1>2. LayersAre(t.fresh)
  BY <1>1 DEF Reaches
<1>3. LayersAre(layers) /\ lastLayer \in Nat /\ DOMAIN layers \subseteq 1 .. lastLayer
  BY DEF StockInv, TablesAre
<1> QED
  BY <1>1, <1>2, <1>3, HoldsWeighs, TakenWeighs, OfIs

LEMMA LayerGoes ==
    ASSUME StockInv, NEW c \in Call, CreateLayer(c), UNCHANGED <<at, ended, setting>> PROVE StockInv'
<1>0. CallsAre
  BY DEF StockInv
<1>1. PICK m, t : m = moving[c] /\ t = tx[c]
  OBVIOUS
<1>2. CallIs(c, "layer", m, t, at[c], layers, lastLayer)
  BY <1>1 DEF StockInv, EachCall, CreateLayer
<1>3. m \in Movement /\ m.by = c /\ Movements(t.moved) /\ m \notin t.moved /\ m.kind \in Layered
  BY <1>2 DEF CallIs, OfStage, Once
<1>4. m.bin \in Bin /\ m.qty \in Nat
  BY <1>3 DEF Movement
<1>5. PICK last, e, g : last = lastLayer + 1 /\ e = [bin |-> m.bin, left |-> m.qty] /\ g = Put(t.fresh, last, e)
  OBVIOUS
<1>6. /\ LayersAre(t.fresh) /\ Reaches(layers, t) /\ lastLayer \in Nat
      /\ DOMAIN layers \subseteq 1 .. lastLayer /\ DOMAIN t.fresh \subseteq 1 .. lastLayer
      /\ \A b : Holds(t.fresh, b) \in Int /\ TakenOf(layers, t, b) \in Int
      /\ \A b, kinds : Qty(Of(t.moved, b, kinds)) \in Int
  BY <1>2, SumsAre
<1>7. last \in Nat /\ last >= lastLayer /\ last \notin 1 .. lastLayer /\ 1 .. lastLayer \subseteq 1 .. last /\ last \in 1 .. last
  BY <1>5, <1>6
<1>8. e \in [bin : Bin, left : Nat] /\ e.bin = m.bin /\ e.left = m.qty
  BY <1>4, <1>5
<1>9. /\ LayersAre(g) /\ DOMAIN g = DOMAIN t.fresh \cup {last} /\ DOMAIN g \subseteq 1 .. last
      /\ \A b : Holds(g, b) = Holds(t.fresh, b) + (IF m.bin = b THEN m.qty ELSE 0)
  <2>1. last \notin DOMAIN t.fresh
    BY <1>6, <1>7
  <2>2. /\ LayersAre(g) /\ DOMAIN g = DOMAIN t.fresh \cup {last}
        /\ \A b : Holds(g, b) = Holds(t.fresh, b) + LeftIf(e, b)
    <3>1. OneLayerMore(t.fresh, last, e, g)
      BY <1>5, <1>6, <1>7, <1>8, <2>1 DEF OneLayerMore
    <3>2. LayersAre(g) /\ DOMAIN g = DOMAIN t.fresh \cup {last}
      BY <3>1, PutIs DEF Extends
    <3>3. ASSUME NEW b PROVE Holds(g, b) = Holds(t.fresh, b) + LeftIf(e, b)
      BY <3>1, HoldsMore
    <3> QED
      BY <3>2, <3>3
  <2>3. DOMAIN g \subseteq 1 .. last
    BY <1>6, <1>7, <2>2
  <2> QED
    BY <1>8, <2>2, <2>3 DEF LeftIf
<1>10. PICK u : u = [t EXCEPT !.fresh = g]
  OBVIOUS
<1>11. IsTx(u) /\ u.cursor = t.cursor /\ u.held = t.held /\ u.taken = t.taken /\ u.fresh = g /\ u.delta = t.delta /\ u.moved = t.moved
  BY <1>2, <1>10 DEF CallIs, IsTx
<1>12. \A l \in t.held \cup t.cursor : LayerOf(layers, u, l) = LayerOf(layers, t, l)
  <2>1. \A l \in DOMAIN t.fresh : g[l] = t.fresh[l]
    BY <1>5, <1>6, <1>7 DEF Put
  <2> QED
    BY <1>6, <1>11, <2>1 DEF LayerOf, Reaches
<1>13. Reaches(layers, u)
  <2>1. DOMAIN layers \cap DOMAIN g = {}
    BY <1>6, <1>7, <1>9 DEF Reaches
  <2> QED
    BY <1>6, <1>9, <1>11, <1>12, <2>1 DEF Reaches
<1>14. \A b : TakenOf(layers, u, b) = TakenOf(layers, t, b)
  BY <1>11, <1>12 DEF TakenOf, TakenFrom
<1>15. Counted("value", m, layers, u)
  <2> SUFFICES ASSUME NEW b \in Bin
               PROVE  Holds(g, b) - TakenOf(layers, u, b) =
                          Qty(Of(t.moved \cup {m}, b, Layered)) - Qty(Of(t.moved \cup {m}, b, Consuming))
    BY <1>11 DEF Counted, Layerings
  <2>1. Qty(Of(t.moved \cup {m}, b, Layered)) = Qty(Of(t.moved, b, Layered)) + (IF m.bin = b THEN m.qty ELSE 0)
    BY <1>3, QtyOfMore
  <2>2. Qty(Of(t.moved \cup {m}, b, Consuming)) = Qty(Of(t.moved, b, Consuming)) + 0
    <3>1. m.kind \notin Consuming
      BY <1>3, Kinds
    <3> QED
      BY <1>3, <3>1, QtyOfMore
  <2>3. Holds(t.fresh, b) - TakenOf(layers, t, b) = Qty(Of(t.moved, b, Layered)) - Qty(Of(t.moved, b, Consuming))
    BY <1>2 DEF CallIs, Counted, Layerings
  <2> QED
    BY <1>4, <1>6, <1>9, <1>14, <2>1, <2>2, <2>3
<1>16. CallIs(c, "value", m, u, at[c], layers, last)
  BY <1>2, <1>3, <1>9, <1>11, <1>13, <1>15 DEF CallIs, Stages, OfStage, Once, Aims, Changes, Layered, Consuming
<1>17. \A d \in Call \ {c} : Apart(u, tx[d])
  <2> SUFFICES ASSUME NEW d \in Call \ {c} PROVE Apart(u, tx[d])
    OBVIOUS
  <2>1. Apart(t, tx[d])
    BY <1>1 DEF StockInv, AllApart
  <2>2. DOMAIN tx[d].fresh \subseteq 1 .. lastLayer
    BY DEF StockInv, EachCall, CallIs
  <2> QED
    BY <1>7, <1>9, <1>11, <2>1, <2>2 DEF Apart
<1>18. /\ stage' = [stage EXCEPT ![c] = "value"] /\ moving' = [moving EXCEPT ![c] = m] /\ tx' = [tx EXCEPT ![c] = u]
       /\ lastLayer' = last /\ UNCHANGED stockTables
  <2>1. tx' = [tx EXCEPT ![c] = u]
    BY <1>0, <1>1, <1>5, <1>10 DEF CreateLayer, CallsAre
  <2> QED
    BY <1>0, <1>1, <1>5, <2>1 DEF CreateLayer, CallsAre, stockTables
<1> QED
  BY <1>7, <1>16, <1>17, <1>18, TriggerGoes

LEMMA OpenGoes ==
    ASSUME StockInv, NEW c \in Call, OpenLayers(c), UNCHANGED <<at, ended, setting>> PROVE StockInv'
<1>0. CallsAre
  BY DEF StockInv
<1>1. PICK m, t : m = moving[c] /\ t = tx[c]
  OBVIOUS
<1>2. CallIs(c, "open", m, t, at[c], layers, lastLayer)
  BY <1>1 DEF StockInv, EachCall, OpenLayers
<1>3. PICK cursor : cursor = {l \in Visible(c) : Layer(c, l).bin = m.bin /\ Left(c, l) > 0}
  OBVIOUS
<1>4. PICK u : u = [t EXCEPT !.cursor = cursor]
  OBVIOUS
<1>5. IsTx(u) /\ u.cursor = cursor /\ u.held = t.held /\ u.taken = t.taken /\ u.fresh = t.fresh /\ u.delta = t.delta /\ u.moved = t.moved
  BY <1>2, <1>4 DEF CallIs, IsTx
<1>6. \A l : LayerOf(layers, u, l) = LayerOf(layers, t, l)
  BY <1>5 DEF LayerOf
<1>7. cursor \subseteq DOMAIN layers \cup DOMAIN t.fresh
  BY <1>1, <1>3 DEF Visible
<1>8. Reaches(layers, u)
  BY <1>2, <1>5, <1>6, <1>7 DEF Reaches, CallIs
<1>9. Aims("take", m, layers, u)
  <2>1. \A l \in cursor : Layer(c, l).bin = m.bin
    BY <1>3
  <2>2. \A l : Layer(c, l) = LayerOf(layers, t, l)
    BY <1>1 DEF Layer, LayerOf
  <2> QED
    BY <1>5, <1>6, <2>1, <2>2 DEF Aims
<1>10. Counted("take", m, layers, u)
  <2>1. \A b : TakenFrom(layers, u, b) = TakenFrom(layers, t, b)
    BY <1>5, <1>6 DEF TakenFrom
  <2>2. \A b : TakenOf(layers, u, b) = TakenOf(layers, t, b)
    BY <1>5, <2>1 DEF TakenOf
  <2> QED
    BY <1>2, <1>5, <2>2 DEF CallIs, Counted, Layerings
<1>11. Once(c, "take", m, u, at[c]) /\ OfStage(c, "take", m)
  BY <1>2, <1>5 DEF CallIs, Once, OfStage
<1>12. CallIs(c, "take", m, u, at[c], layers, lastLayer)
  BY <1>2, <1>5, <1>8, <1>9, <1>10, <1>11 DEF CallIs, Stages, Changes
<1>13. \A d \in Call \ {c} : Apart(u, tx[d])
  BY <1>1, <1>5 DEF StockInv, AllApart, Apart
<1>14. /\ stage' = [stage EXCEPT ![c] = "take"] /\ moving' = [moving EXCEPT ![c] = m] /\ tx' = [tx EXCEPT ![c] = u]
       /\ lastLayer' = lastLayer /\ UNCHANGED stockTables
  <2>1. tx' = [tx EXCEPT ![c] = u]
    BY <1>0, <1>1, <1>3, <1>4 DEF OpenLayers, CallsAre
  <2> QED
    BY <1>0, <1>1, <2>1 DEF OpenLayers, CallsAre, stockTables
<1>15. lastLayer \in Nat /\ lastLayer >= lastLayer
  BY DEF StockInv, TablesAre
<1> QED
  BY <1>12, <1>13, <1>14, <1>15, TriggerGoes

(* The sums of the trigger's loop.                                          *)
LEMMA LeftInIs ==
    ASSUME NEW c, NEW S, IsFiniteSet(S), NEW have, \A l \in S : have[l] = Left(c, l) /\ have[l] \in Int
    PROVE  LeftIn(c, S) = SumFunctionOnSet(have, S)
<1>1. PICK w : w = [l \in S |-> have[l]]
  OBVIOUS
<1>2. Weighs(w, S) /\ Weighs(have, S) /\ SumFunctionOnSet(w, S) = SumFunctionOnSet(have, S)
  <2>1. Weighs(w, S) /\ Weighs(have, S)
    BY <1>1 DEF Weighs
  <2> QED
    BY <1>1, <2>1, SumIsSame
<1>3. PICK h : Unrolls(h, S, w) /\ SumFunctionOnSet(w, S) = h[S]
  BY <1>2, SumUnrolls
<1>4. PICK left : left = [l \in S |-> Left(c, l)]
  OBVIOUS
<1>5. PICK g : g = CHOOSE e : e = [s \in SUBSET S |->
                     IF s = {} THEN 0 ELSE Left(c, AnyOf(s)) + e[s \ {AnyOf(s)}]]
  OBVIOUS
<1>6. LeftIn(c, S) = g[S]
  BY <1>5 DEF LeftIn, MapThenSumSet, MapThenFoldSet, AnyOf
<1>7. \A s \in SUBSET S : s # {} => w[AnyOf(s)] = Left(c, AnyOf(s))
  BY <1>1, AnyOfIsIn
<1>8. h = [s \in SUBSET S |-> IF s = {} THEN 0 ELSE Left(c, AnyOf(s)) + h[s \ {AnyOf(s)}]]
  BY <1>3, <1>7 DEF Unrolls
<1>9. g = [s \in SUBSET S |-> IF s = {} THEN 0 ELSE Left(c, AnyOf(s)) + g[s \ {AnyOf(s)}]]
  BY <1>5, <1>8, Zenon
<1>10. Unrolls(g, S, w)
  BY <1>7, <1>9 DEF Unrolls
<1> QED
  BY <1>2, <1>3, <1>6, <1>10, SameValues

LEMMA TakeGoes ==
    ASSUME StockInv, NEW c \in Call, TakeLayers(c), UNCHANGED <<at, ended, setting>> PROVE StockInv'
<1>0. CallsAre
  BY DEF StockInv
<1>1. PICK m, t, ls : m = moving[c] /\ t = tx[c] /\ ls = Alive(c)
  OBVIOUS
<1>2. CallIs(c, "take", m, t, at[c], layers, lastLayer)
  BY <1>1 DEF StockInv, EachCall, TakeLayers
<1>3. /\ m \in Movement /\ m.by = c /\ Movements(t.moved) /\ m \notin t.moved /\ m.kind \in Consuming
      /\ m.bin \in Bin /\ m.qty \in Nat
  BY <1>2 DEF CallIs, OfStage, Once, Movement
<1>4. /\ LayersAre(layers) /\ LayersAre(t.fresh) /\ Reaches(layers, t) /\ lastLayer \in Nat
      /\ DOMAIN layers \subseteq 1 .. lastLayer /\ DOMAIN t.fresh \subseteq 1 .. lastLayer
      /\ \A b : Holds(t.fresh, b) \in Int /\ TakenOf(layers, t, b) \in Int
      /\ \A b, kinds : Qty(Of(t.moved, b, kinds)) \in Int
  BY <1>2, SumsAre
<1>5. ls \subseteq t.cursor /\ ls \subseteq 1 .. lastLayer /\ ls \subseteq DOMAIN layers \cup DOMAIN t.fresh
  BY <1>1, <1>4 DEF Alive, Reaches
<1>6. \A l : Left(c, l) = LayerOf(layers, t, l).left - At(t.taken, l)
  BY <1>1 DEF Left, Layer, LayerOf
<1>7. \A l \in DOMAIN layers \cup DOMAIN t.fresh :
         LayerOf(layers, t, l) \in [bin : Bin, left : Nat] /\ At(t.taken, l) \in Nat
           /\ At(t.taken, l) <= LayerOf(layers, t, l).left
  <2> SUFFICES ASSUME NEW l \in DOMAIN layers \cup DOMAIN t.fresh
               PROVE  /\ LayerOf(layers, t, l) \in [bin : Bin, left : Nat] /\ At(t.taken, l) \in Nat
                      /\ At(t.taken, l) <= LayerOf(layers, t, l).left
    OBVIOUS
  <2>1. LayerOf(layers, t, l) \in [bin : Bin, left : Nat]
    BY <1>4, LayerIs
  <2> QED
    BY <1>4, <2>1 DEF At, Reaches
<1>8. PICK have : have = [l \in ls |-> Left(c, l)]
  OBVIOUS
<1>9. \A l \in ls : have[l] = Left(c, l) /\ have[l] \in Nat
  BY <1>5, <1>6, <1>7, <1>8
<1>10. IsFiniteSet(ls) /\ \A s \in SUBSET ls : LeftIn(c, s) = SumFunctionOnSet(have, s)
  <2>1. IsFiniteSet(ls)
    <3>1. IsFiniteSet(1 .. lastLayer)
      BY <1>4, FS_Interval
    <3> QED
      BY <1>5, <3>1, FS_Subset
  <2>2. \A s \in SUBSET ls : IsFiniteSet(s)
    BY <2>1, FS_Subset
  <2>3. ASSUME NEW s \in SUBSET ls PROVE LeftIn(c, s) = SumFunctionOnSet(have, s)
    <3>1. IsFiniteSet(s) /\ \A l \in s : have[l] = Left(c, l) /\ have[l] \in Int
      BY <1>9, <2>2
    <3> QED
      BY <3>1, LeftInIs
  <2> QED
    BY <2>1, <2>3
<1>11. PICK share : share = [l \in ls |-> Share(c, l)]
  OBVIOUS
<1>12. \A l \in ls : share[l] = Portion(m.qty - SumFunctionOnSet(have, {k \in ls : k < l}), have[l])
  <2> SUFFICES ASSUME NEW l \in ls
               PROVE  share[l] = Portion(m.qty - SumFunctionOnSet(have, {k \in ls : k < l}), have[l])
    OBVIOUS
  <2>1. LeftIn(c, {k \in ls : k < l}) = SumFunctionOnSet(have, {k \in ls : k < l})
    BY <1>10
  <2>2. share[l] = Share(c, l)
    BY <1>11
  <2> QED
    BY <1>1, <1>9, <2>1, <2>2 DEF Share, Portion
<1>13. /\ Weighs(share, ls) /\ Weighs(have, ls)
       /\ \A l \in ls : share[l] \in Nat /\ share[l] <= have[l]
       /\ SumFunctionOnSet(share, ls) = Least(m.qty, SumFunctionOnSet(have, ls))
  <2>1. ls \in SUBSET (1 .. lastLayer)
    BY <1>5
  <2>2. \A l \in ls : have[l] \in Nat
    BY <1>9
  <2> QED
    BY <1>3, <1>4, <1>12, <2>1, <2>2, OldestFirst
<1>14. SumFunctionOnSet(share, ls) = m.qty
  <2>1. ~(LeftIn(c, ls) < m.qty)
    BY <1>1 DEF TakeLayers, Underflow
  <2>2. LeftIn(c, ls) = SumFunctionOnSet(have, ls)
    BY <1>10
  <2>3. SumFunctionOnSet(have, ls) \in Int
    BY <1>13, SumIsInt
  <2> QED
    BY <1>3, <1>13, <2>1, <2>2, <2>3 DEF Least
<1>15. PICK taken : taken = [l \in t.held \cup ls |-> At(t.taken, l) + (IF l \in ls THEN share[l] ELSE 0)]
  OBVIOUS
<1>16. PICK u : u = [t EXCEPT !.taken = taken, !.held = t.held \cup ls, !.cursor = {}]
  OBVIOUS
<1>17. IsTx(u) /\ u.cursor = {} /\ u.held = t.held \cup ls /\ u.taken = taken /\ u.fresh = t.fresh /\ u.delta = t.delta /\ u.moved = t.moved
  BY <1>2, <1>16 DEF CallIs, IsTx
<1>18. \A l : LayerOf(layers, u, l) = LayerOf(layers, t, l)
  BY <1>17 DEF LayerOf
<1>19. Reaches(layers, u)
  <2>1. IsFiniteSet(t.held \cup ls)
    BY <1>4, <1>10, FS_Union DEF Reaches
  <2>2. t.held \cup ls \subseteq DOMAIN layers \cup DOMAIN t.fresh
    BY <1>4, <1>5 DEF Reaches
  <2>3. ASSUME NEW l \in t.held \cup ls PROVE taken[l] \in Nat /\ taken[l] <= LayerOf(layers, t, l).left
    <3>1. PICK x, y : x = LayerOf(layers, t, l).left /\ y = At(t.taken, l)
      OBVIOUS
    <3>2. x \in Nat /\ y \in Nat /\ y <= x
      BY <1>7, <2>2, <3>1
    <3>3. CASE l \in ls
      <4>1. PICK z \in Nat : z = share[l] /\ z <= x - y
        BY <1>6, <1>9, <1>13, <3>1, <3>3
      <4>2. taken[l] = y + z
        BY <1>15, <3>1, <3>3, <4>1
      <4> QED
        BY <3>1, <3>2, <4>1, <4>2
    <3>4. CASE l \notin ls
      BY <1>15, <3>1, <3>2, <3>4
    <3> QED
      BY <3>3, <3>4
  <2> QED
    BY <1>4, <1>15, <1>17, <1>18, <2>1, <2>2, <2>3 DEF Reaches
<1>20. \A b : TakenOf(layers, u, b) = TakenOf(layers, t, b) + (IF b = m.bin THEN m.qty ELSE 0)
  <2>1. \A l \in ls : LayerOf(layers, t, l).bin = m.bin
    BY <1>2, <1>5 DEF CallIs, Aims
  <2> SUFFICES ASSUME NEW b
               PROVE  TakenOf(layers, u, b) = TakenOf(layers, t, b) + (IF b = m.bin THEN m.qty ELSE 0)
    OBVIOUS
  <2>2. TakenOf(layers, u, b) = TakenOf(layers, t, b) + (IF b = m.bin THEN SumFunctionOnSet(share, ls) ELSE 0)
    <3>1. u.taken = [l \in t.held \cup ls |-> At(t.taken, l) + (IF l \in ls THEN share[l] ELSE 0)]
      BY <1>15, <1>17
    <3>2. Takes(layers, t, u, ls, share, m.bin)
      BY <1>4, <1>10, <1>13, <1>17, <2>1, <3>1 DEF Takes
    <3> QED
      BY <3>2, MoreTaken
  <2> QED
    BY <1>14, <2>2
<1>21. Counted("value", m, layers, u)
  <2> SUFFICES ASSUME NEW b \in Bin
               PROVE  Holds(t.fresh, b) - TakenOf(layers, u, b) =
                          Qty(Of(t.moved \cup {m}, b, Layered)) - Qty(Of(t.moved \cup {m}, b, Consuming))
    BY <1>17 DEF Counted, Layerings
  <2>1. Qty(Of(t.moved \cup {m}, b, Consuming)) = Qty(Of(t.moved, b, Consuming)) + (IF m.bin = b THEN m.qty ELSE 0)
    BY <1>3, QtyOfMore
  <2>2. Qty(Of(t.moved \cup {m}, b, Layered)) = Qty(Of(t.moved, b, Layered)) + 0
    <3>1. m.kind \notin Layered
      BY <1>3, Kinds
    <3> QED
      BY <1>3, <3>1, QtyOfMore
  <2>3. Holds(t.fresh, b) - TakenOf(layers, t, b) = Qty(Of(t.moved, b, Layered)) - Qty(Of(t.moved, b, Consuming))
    BY <1>2 DEF CallIs, Counted, Layerings
  <2> QED
    BY <1>3, <1>4, <1>20, <2>1, <2>2, <2>3
<1>22. CallIs(c, "value", m, u, at[c], layers, lastLayer)
  BY <1>2, <1>3, <1>17, <1>19, <1>21 DEF CallIs, Stages, OfStage, Once, Aims, Changes, Layered, Consuming
<1>23. \A d \in Call \ {c} : Apart(u, tx[d])
  <2> SUFFICES ASSUME NEW d \in Call \ {c} PROVE Apart(u, tx[d])
    OBVIOUS
  <2>1. Apart(t, tx[d])
    BY <1>1 DEF StockInv, AllApart
  <2>2. tx[d].held \cap t.cursor = {}
    BY <1>1 DEF TakeLayers, LayersFree
  <2> QED
    BY <1>5, <1>17, <2>1, <2>2 DEF Apart
<1>24. /\ stage' = [stage EXCEPT ![c] = "value"] /\ moving' = [moving EXCEPT ![c] = m] /\ tx' = [tx EXCEPT ![c] = u]
       /\ lastLayer' = lastLayer /\ UNCHANGED stockTables
  <2>1. DOMAIN t.taken = t.held
    BY <1>4 DEF Reaches
  <2>2. taken = [l \in DOMAIN t.taken \cup Alive(c) |->
                   At(t.taken, l) + (IF l \in Alive(c) THEN Share(c, l) ELSE 0)]
    BY <1>1, <1>11, <1>15, <2>1
  <2>3. c \in DOMAIN tx /\ tx[c] = t
    BY <1>0, <1>1 DEF CallsAre
  <2>4. tx' = [tx EXCEPT ![c] = u]
    BY <1>1, <1>16, <2>2, <2>3 DEF TakeLayers
  <2>5. moving' = [moving EXCEPT ![c] = m]
    BY <1>0, <1>1 DEF TakeLayers, CallsAre
  <2> QED
    BY <2>4, <2>5 DEF TakeLayers, stockTables
<1>25. lastLayer \in Nat /\ lastLayer >= lastLayer
  BY DEF StockInv, TablesAre
<1> QED
  BY <1>22, <1>23, <1>24, <1>25, TriggerGoes

LEMMA ValueGoes ==
    ASSUME StockInv, NEW c \in Call, UpdateValuation(c), UNCHANGED <<at, ended, setting>> PROVE StockInv'
<1>0. CallsAre
  BY DEF StockInv
<1>1. PICK m, t : m = moving[c] /\ t = tx[c]
  OBVIOUS
<1>2. CallIs(c, "value", m, t, at[c], layers, lastLayer)
  BY <1>1 DEF StockInv, EachCall, UpdateValuation
<1>3. m \in Movement /\ m.by = c /\ Movements(t.moved) /\ m \notin t.moved /\ m.n < at[c]
  BY <1>2 DEF CallIs, OfStage, Once
<1>4. m.bin \in Bin /\ m.qty \in Nat /\ m.kind \in Inward \cup Outward
  BY <1>3 DEF Movement
<1>5. \A b, kinds : Qty(Of(t.moved, b, kinds)) \in Int
  BY <1>2, SumsAre
<1>6. PICK change : change = IF HasRow(c, m.bin) \/ m.kind \in Inward THEN Signed(m) ELSE 0
  OBVIOUS
<1>7. Signed(m) \in Int /\ change \in Int
  BY <1>4, <1>6 DEF Signed
<1>8. PICK delta : delta = Put(t.delta, m.bin, At(t.delta, m.bin) + change)
  OBVIOUS
<1>9. \A b : At(t.delta, b) \in Int
  BY <1>2 DEF CallIs, Changes, At
<1>10. /\ DOMAIN delta = DOMAIN t.delta \cup {m.bin} /\ At(delta, m.bin) = At(t.delta, m.bin) + change
       /\ \A b : b # m.bin => At(delta, b) = At(t.delta, b)
       /\ \A b \in DOMAIN delta : delta[b] \in Int
  <2>1. DOMAIN delta = DOMAIN t.delta \cup {m.bin} /\ delta[m.bin] = At(t.delta, m.bin) + change
    BY <1>8 DEF Put
  <2>2. \A b \in DOMAIN t.delta : b # m.bin => delta[b] = t.delta[b]
    BY <1>8 DEF Put
  <2>3. \A b \in DOMAIN t.delta : t.delta[b] \in Int
    BY <1>2 DEF CallIs, Changes
  <2>4. At(t.delta, m.bin) + change \in Int
    BY <1>7, <1>9
  <2>5. \A b : b # m.bin => At(delta, b) = At(t.delta, b)
    BY <2>1, <2>2 DEF At
  <2>6. At(delta, m.bin) = delta[m.bin]
    BY <2>1 DEF At
  <2>7. \A b \in DOMAIN delta : delta[b] \in Int
    BY <2>1, <2>2, <2>3, <2>4
  <2> QED
    BY <2>1, <2>5, <2>6, <2>7
<1>11. PICK u : u = [t EXCEPT !.delta = delta, !.moved = t.moved \cup {m}]
  OBVIOUS
<1>12. IsTx(u) /\ u.cursor = t.cursor /\ u.held = t.held /\ u.taken = t.taken /\ u.fresh = t.fresh /\ u.delta = delta
       /\ u.moved = t.moved \cup {m}
  BY <1>2, <1>11 DEF CallIs, IsTx
<1>13. \A l : LayerOf(layers, u, l) = LayerOf(layers, t, l)
  BY <1>12 DEF LayerOf
<1>14. Reaches(layers, u)
  BY <1>2, <1>12, <1>13 DEF CallIs, Reaches
<1>15. Counted("none", Idle, layers, u)
  <2>1. \A b : TakenFrom(layers, u, b) = TakenFrom(layers, t, b)
    BY <1>12, <1>13 DEF TakenFrom
  <2>2. \A b : TakenOf(layers, u, b) = TakenOf(layers, t, b)
    BY <1>12, <2>1 DEF TakenOf
  <2> QED
    BY <1>2, <1>12, <2>2 DEF CallIs, Counted, Layerings
<1>16. Changes(u)
  <2>1. DOMAIN delta \subseteq Bin
    BY <1>2, <1>4, <1>10 DEF CallIs, Changes
  <2>2. ASSUME NEW b \in Bin, OpeningLeft(b) > 0
        PROVE  At(delta, b) = Qty(Of(t.moved \cup {m}, b, Inward)) - Qty(Of(t.moved \cup {m}, b, Outward))
    <3>1. At(t.delta, b) = Qty(Of(t.moved, b, Inward)) - Qty(Of(t.moved, b, Outward))
      BY <1>2, <2>2 DEF CallIs, Changes
    <3>2. Qty(Of(t.moved \cup {m}, b, Inward)) =
              Qty(Of(t.moved, b, Inward)) + (IF m.bin = b /\ m.kind \in Inward THEN m.qty ELSE 0)
      BY <1>3, QtyOfMore
    <3>3. Qty(Of(t.moved \cup {m}, b, Outward)) =
              Qty(Of(t.moved, b, Outward)) + (IF m.bin = b /\ m.kind \in Outward THEN m.qty ELSE 0)
      BY <1>3, QtyOfMore
    <3>4. CASE b = m.bin
      <4>1. HasRow(c, b)
        BY <2>2 DEF HasRow, StockInv, TablesAre
      <4>2. change = Signed(m)
        BY <1>6, <3>4, <4>1
      <4>3. CASE m.kind \in Inward
        <5>1. change = m.qty /\ m.kind \notin Outward
          BY <4>2, <4>3, Kinds DEF Signed
        <5> QED
          BY <1>4, <1>5, <1>10, <3>1, <3>2, <3>3, <3>4, <4>3, <5>1
      <4>4. CASE m.kind \notin Inward
        <5>1. change = -m.qty /\ m.kind \in Outward
          BY <1>4, <4>2, <4>4 DEF Signed
        <5> QED
          BY <1>4, <1>5, <1>10, <3>1, <3>2, <3>3, <3>4, <4>4, <5>1
      <4> QED
        BY <4>3, <4>4
    <3>5. CASE b # m.bin
      BY <1>5, <1>10, <3>1, <3>2, <3>3, <3>5
    <3> QED
      BY <3>4, <3>5
  <2> QED
    BY <1>10, <1>12, <2>1, <2>2 DEF Changes
<1>17. Once(c, "none", Idle, u, at[c])
  <2>1. Movements(t.moved \cup {m})
    BY <1>3, FS_AddElement DEF Movements
  <2> QED
    BY <1>2, <1>3, <1>12, <2>1 DEF CallIs, Once
<1>18. CallIs(c, "none", Idle, u, at[c], layers, lastLayer)
  BY <1>2, <1>12, <1>14, <1>15, <1>16, <1>17 DEF CallIs, Stages, OfStage, Aims
<1>19. \A d \in Call \ {c} : Apart(u, tx[d])
  BY <1>1, <1>12 DEF StockInv, AllApart, Apart
<1>20. /\ stage' = [stage EXCEPT ![c] = "none"] /\ moving' = [moving EXCEPT ![c] = Idle] /\ tx' = [tx EXCEPT ![c] = u]
       /\ lastLayer' = lastLayer /\ UNCHANGED stockTables
  <2>1. c \in DOMAIN tx /\ tx[c] = t
    BY <1>0, <1>1 DEF CallsAre
  <2>2. tx' = [tx EXCEPT ![c] = u]
    BY <1>1, <1>6, <1>8, <1>11, <2>1 DEF UpdateValuation
  <2> QED
    BY <2>2 DEF UpdateValuation, stockTables
<1>21. lastLayer \in Nat /\ lastLayer >= lastLayer
  BY DEF StockInv, TablesAre
<1> QED
  BY <1>18, <1>19, <1>20, <1>21, TriggerGoes

-----------------------------------------------------------------------------
(* The COMMIT of t: what another transaction u is and reaches stays so.     *)
Settled(f, t) == [l \in DOMAIN f \cup DOMAIN t.fresh |->
                   [bin |-> LayerOf(f, t, l).bin, left |-> LayerOf(f, t, l).left - At(t.taken, l)]]

LEMMA OthersStay ==
    ASSUME NEW f, NEW t, NEW u, LayersAre(f), Reaches(f, t), Reaches(f, u), Apart(t, u)
    PROVE  /\ Reaches(Settled(f, t), u)
           /\ \A l \in u.held \cup u.cursor : LayerOf(Settled(f, t), u, l).bin = LayerOf(f, u, l).bin
           /\ \A b : TakenOf(Settled(f, t), u, b) = TakenOf(f, u, b)
<1>1. PICK g : g = Settled(f, t)
  OBVIOUS
<1>2. /\ DOMAIN g = DOMAIN f \cup DOMAIN t.fresh
      /\ \A l \in DOMAIN f : /\ g[l].bin = f[l].bin
                            /\ g[l].left = f[l].left - At(t.taken, l)
  <2>1. DOMAIN g = DOMAIN f \cup DOMAIN t.fresh
    BY <1>1 DEF Settled
  <2>2. ASSUME NEW l \in DOMAIN f PROVE g[l].bin = f[l].bin /\ g[l].left = f[l].left - At(t.taken, l)
    <3>1. g[l] = [bin |-> LayerOf(f, t, l).bin, left |-> LayerOf(f, t, l).left - At(t.taken, l)]
      BY <1>1 DEF Settled
    <3>2. LayerOf(f, t, l) = f[l]
      BY DEF LayerOf
    <3> QED
      BY <3>1, <3>2
  <2> QED
    BY <2>1, <2>2
<1>3. /\ DOMAIN f \cap DOMAIN u.fresh = {} /\ DOMAIN t.fresh \cap DOMAIN u.fresh = {} /\ t.held \cap u.held = {}
      /\ u.held \subseteq DOMAIN f \cup DOMAIN u.fresh /\ u.cursor \subseteq DOMAIN f \cup DOMAIN u.fresh
      /\ DOMAIN t.taken = t.held
  BY DEF Reaches, Apart
<1>4. ASSUME NEW l \in DOMAIN f \cup DOMAIN u.fresh PROVE LayerOf(g, u, l).bin = LayerOf(f, u, l).bin
  <2>1. CASE l \in DOMAIN f
    BY <1>2, <2>1 DEF LayerOf
  <2>2. CASE l \notin DOMAIN f
    <3>1. l \notin DOMAIN g
      BY <1>2, <1>3, <2>2
    <3> QED
      BY <2>2, <3>1 DEF LayerOf
  <2> QED
    BY <2>1, <2>2
<1>5. ASSUME NEW l \in u.held PROVE LayerOf(g, u, l).left = LayerOf(f, u, l).left
  <2>1. CASE l \in DOMAIN f
    <3>1. At(t.taken, l) = 0
      BY <1>3 DEF At
    <3>2. f[l].left \in Nat
      BY <2>1 DEF LayersAre
    <3>3. g[l].left = f[l].left - 0
      BY <1>2, <2>1, <3>1
    <3> QED
      BY <1>2, <2>1, <3>2, <3>3 DEF LayerOf
  <2>2. CASE l \notin DOMAIN f
    <3>1. l \notin DOMAIN g
      BY <1>2, <1>3, <2>2
    <3> QED
      BY <2>2, <3>1 DEF LayerOf
  <2> QED
    BY <2>1, <2>2
<1>6. Reaches(g, u)
  <2>1. DOMAIN g \cap DOMAIN u.fresh = {}
    BY <1>2, <1>3
  <2>2. u.held \subseteq DOMAIN g \cup DOMAIN u.fresh /\ u.cursor \subseteq DOMAIN g \cup DOMAIN u.fresh
    BY <1>2, <1>3
  <2> QED
    BY <1>5, <2>1, <2>2 DEF Reaches
<1>7. \A b : TakenFrom(g, u, b) = TakenFrom(f, u, b)
  BY <1>3, <1>4 DEF TakenFrom
<1>8. \A b : TakenOf(g, u, b) = TakenOf(f, u, b)
  BY <1>7 DEF TakenOf
<1> QED
  BY <1>1, <1>3, <1>4, <1>6, <1>8

LEMMA CommitGoes == ASSUME StockInv, NEW c \in Call, Commit(c), UNCHANGED setting PROVE StockInv'
<1>0. CallsAre
  BY DEF StockInv
<1>1. PICK t : t = tx[c]
  OBVIOUS
<1>2. /\ StockCommit(c) /\ stage[c] = "none" /\ ended[c] = "no" /\ ended' = [ended EXCEPT ![c] = "committed"]
      /\ at' = at /\ stage' = stage /\ moving' = moving /\ lastLayer' = lastLayer /\ setting' = setting
      /\ tx' = [tx EXCEPT ![c] = Nothing] /\ moved' = moved \cup t.moved
  BY <1>1 DEF Commit, AtCommit, Open, StockCommit
<1>3. CallIs(c, "none", moving[c], t, at[c], layers, lastLayer)
  BY <1>1, <1>2 DEF StockInv, EachCall
<1>4. /\ LayersAre(layers) /\ LayersAre(t.fresh) /\ Reaches(layers, t) /\ lastLayer \in Nat
      /\ DOMAIN layers \subseteq 1 .. lastLayer /\ DOMAIN t.fresh \subseteq 1 .. lastLayer
      /\ \A b : Holds(t.fresh, b) \in Int /\ TakenOf(layers, t, b) \in Int
      /\ Movements(t.moved) /\ \A b, kinds : Qty(Of(t.moved, b, kinds)) \in Int
  BY <1>3, SumsAre
<1>5. layers' = Settled(layers, t)
  <2>1. \A l : Layer(c, l) = LayerOf(layers, t, l) /\ Left(c, l) = LayerOf(layers, t, l).left - At(t.taken, l)
    BY <1>1 DEF Layer, LayerOf, Left
  <2>2. Visible(c) = DOMAIN layers \cup DOMAIN t.fresh
    BY <1>1 DEF Visible
  <2>3. layers' = [l \in Visible(c) |-> [bin |-> Layer(c, l).bin, left |-> Left(c, l)]]
    BY <1>2 DEF StockCommit
  <2> QED
    BY <2>1, <2>2, <2>3 DEF Settled
<1>6. PICK g : g = Settled(layers, t)
  OBVIOUS
<1>7. /\ LayersAre(g) /\ DOMAIN g = DOMAIN layers \cup DOMAIN t.fresh
      /\ \A b : Holds(g, b) = Holds(layers, b) + Holds(t.fresh, b) - TakenOf(layers, t, b)
  <2>1. g = [l \in DOMAIN layers \cup DOMAIN t.fresh |->
               [bin |-> LayerOf(layers, t, l).bin, left |-> LayerOf(layers, t, l).left - At(t.taken, l)]]
    BY <1>6 DEF Settled
  <2> QED
    BY <1>4, <2>1, LayersSettled
<1>8. DOMAIN g \subseteq 1 .. lastLayer
  BY <1>4, <1>7
<1>9. /\ Movements(moved) /\ moved \cap t.moved = {} /\ Movements(moved \cup t.moved)
      /\ \A b, kinds : /\ Qty(Of(moved \cup t.moved, b, kinds)) = Qty(Of(moved, b, kinds)) + Qty(Of(t.moved, b, kinds))
                       /\ Qty(Of(moved, b, kinds)) \in Int
  <2>1. Movements(moved)
    BY DEF StockInv, TablesAre
  <2>2. moved \cap t.moved = {}
    <3>1. \A x \in t.moved : x.by = c
      BY <1>3 DEF CallIs, Once
    <3> QED
      BY <1>2, <3>1 DEF StockInv, NothingEarly
  <2>3. Movements(moved \cup t.moved)
    BY <1>4, <2>1, FS_Union DEF Movements
  <2>4. ASSUME NEW b, NEW kinds
        PROVE  /\ Qty(Of(moved \cup t.moved, b, kinds)) = Qty(Of(moved, b, kinds)) + Qty(Of(t.moved, b, kinds))
               /\ Qty(Of(moved, b, kinds)) \in Int
    <3>1. Qty(Of(moved \cup t.moved, b, kinds)) = Qty(Of(moved, b, kinds)) + Qty(Of(t.moved, b, kinds))
      BY <1>4, <2>1, <2>2, QtyOfBoth
    <3> QED
      BY <2>1, <3>1, OfIs
  <2> QED
    BY <2>1, <2>2, <2>3, <2>4
<1>10. PICK q : q = [b \in DOMAIN quantity \cup DOMAIN t.delta |-> At(quantity, b) + At(t.delta, b)]
  OBVIOUS
<1>11. quantity' = q
  BY <1>1, <1>2, <1>10 DEF StockCommit, OnHand
<1>12. TablesAre(g, lastLayer, q, moved \cup t.moved)
  <2>1. \A b : At(quantity, b) \in Int /\ At(t.delta, b) \in Int
    BY <1>3 DEF StockInv, TablesAre, CallIs, Changes, At
  <2>2. DOMAIN q \subseteq Bin /\ \A b \in DOMAIN q : q[b] \in Int
    <3>1. DOMAIN quantity \subseteq Bin /\ DOMAIN t.delta \subseteq Bin
      BY <1>3 DEF StockInv, TablesAre, CallIs, Changes
    <3> QED
      BY <1>10, <2>1, <3>1
  <2>3. ASSUME NEW b \in Bin
        PROVE  Holds(g, b) = OpeningLeft(b) + Qty(Of(moved \cup t.moved, b, Layered)) - Qty(Of(moved \cup t.moved, b, Consuming))
    <3>1. Holds(layers, b) = OpeningLeft(b) + Qty(Of(moved, b, Layered)) - Qty(Of(moved, b, Consuming))
      BY DEF StockInv, TablesAre
    <3>2. Holds(t.fresh, b) - TakenOf(layers, t, b) = Qty(Of(t.moved, b, Layered)) - Qty(Of(t.moved, b, Consuming))
      BY <1>3 DEF CallIs, Counted, Layerings
    <3>3. Holds(g, b) = Holds(layers, b) + Holds(t.fresh, b) - TakenOf(layers, t, b)
      BY <1>7
    <3>4. /\ Qty(Of(moved \cup t.moved, b, Layered)) = Qty(Of(moved, b, Layered)) + Qty(Of(t.moved, b, Layered))
          /\ Qty(Of(moved \cup t.moved, b, Consuming)) = Qty(Of(moved, b, Consuming)) + Qty(Of(t.moved, b, Consuming))
      BY <1>9
    <3>5. /\ Qty(Of(moved, b, Layered)) \in Int /\ Qty(Of(t.moved, b, Layered)) \in Int
          /\ Qty(Of(moved, b, Consuming)) \in Int /\ Qty(Of(t.moved, b, Consuming)) \in Int
          /\ OpeningLeft(b) \in Int /\ Holds(t.fresh, b) \in Int /\ TakenOf(layers, t, b) \in Int
      BY <1>4, <1>9, OpeningIs
    <3> QED
      BY <3>1, <3>2, <3>3, <3>4, <3>5
  <2>4. ASSUME NEW b \in Bin, OpeningLeft(b) > 0
        PROVE  /\ b \in DOMAIN q
               /\ q[b] = OpeningLeft(b) + Qty(Of(moved \cup t.moved, b, Inward)) - Qty(Of(moved \cup t.moved, b, Outward))
    <3>1. b \in DOMAIN quantity /\ quantity[b] = OpeningLeft(b) + Qty(Of(moved, b, Inward)) - Qty(Of(moved, b, Outward))
      BY <2>4 DEF StockInv, TablesAre
    <3>2. At(t.delta, b) = Qty(Of(t.moved, b, Inward)) - Qty(Of(t.moved, b, Outward))
      BY <1>3, <2>4 DEF CallIs, Changes
    <3>3. b \in DOMAIN q /\ q[b] = quantity[b] + At(t.delta, b)
      BY <1>10, <3>1 DEF At
    <3>4. /\ Qty(Of(moved \cup t.moved, b, Inward)) = Qty(Of(moved, b, Inward)) + Qty(Of(t.moved, b, Inward))
          /\ Qty(Of(moved \cup t.moved, b, Outward)) = Qty(Of(moved, b, Outward)) + Qty(Of(t.moved, b, Outward))
      BY <1>9
    <3>5. /\ Qty(Of(moved, b, Inward)) \in Int /\ Qty(Of(t.moved, b, Inward)) \in Int
          /\ Qty(Of(moved, b, Outward)) \in Int /\ Qty(Of(t.moved, b, Outward)) \in Int
          /\ OpeningLeft(b) \in Int
      BY <1>4, <1>9, OpeningIs
    <3> QED
      BY <3>1, <3>2, <3>3, <3>4, <3>5
  <2> QED
    BY <1>4, <1>7, <1>8, <1>9, <2>2, <2>3, <2>4 DEF TablesAre
<1>13. ASSUME NEW d \in Call PROVE CallIs(d, stage'[d], moving'[d], tx'[d], at'[d], g, lastLayer)
  <2>1. CASE d = c
    <3>1. moving[c] = Idle /\ at[c] \in Nat
      BY <1>0, <1>3 DEF CallIs, OfStage, CallsAre
    <3>2. tx'[c] = Nothing
      BY <1>0, <1>2 DEF CallsAre
    <3> QED
      BY <1>2, <2>1, <3>1, <3>2, NothingIs
  <2>2. CASE d # c
    <3>1. PICK st, m, u : st = stage[d] /\ m = moving[d] /\ u = tx[d]
      OBVIOUS
    <3>2. CallIs(d, st, m, u, at[d], layers, lastLayer)
      BY <3>1 DEF StockInv, EachCall
    <3>3. tx'[d] = u /\ stage'[d] = st /\ moving'[d] = m /\ at'[d] = at[d]
      BY <1>0, <1>2, <2>2, <3>1 DEF CallsAre
    <3>4. Apart(t, u) /\ Reaches(layers, u)
      BY <1>1, <2>2, <3>1, <3>2 DEF StockInv, AllApart, CallIs
    <3>5. /\ Reaches(g, u)
          /\ \A l \in u.held \cup u.cursor : LayerOf(g, u, l).bin = LayerOf(layers, u, l).bin
          /\ \A b : TakenOf(g, u, b) = TakenOf(layers, u, b)
      BY <1>4, <1>6, <3>4, OthersStay
    <3>6. Aims(st, m, g, u)
      BY <3>2, <3>5 DEF CallIs, Aims
    <3>7. Counted(st, m, g, u)
      BY <3>2, <3>5 DEF CallIs, Counted
    <3>8. CallIs(d, st, m, u, at[d], g, lastLayer)
      BY <3>2, <3>5, <3>6, <3>7 DEF CallIs
    <3> QED
      BY <3>3, <3>8
  <2> QED
    BY <2>1, <2>2
<1>14. EachCall'
  BY <1>2, <1>5, <1>6, <1>13 DEF EachCall
<1>15. CallsAre'
  <2>1. ended' \in [Call -> {"no", "committed", "failed"}] /\ tx' = [d \in Call |-> tx'[d]]
    BY <1>0, <1>2 DEF CallsAre
  <2> QED
    BY <1>0, <1>2, <2>1 DEF CallsAre, Asking, Asked
<1>16. AllApart'
  <2>1. tx'[c] = Nothing /\ \A d \in Call \ {c} : tx'[d] = tx[d]
    BY <1>0, <1>2 DEF CallsAre
  <2>2. \A u : Apart(Nothing, u) /\ Apart(u, Nothing)
    BY DEF Apart, Nothing, Nowhere
  <2> QED
    BY <2>1, <2>2 DEF StockInv, AllApart
<1>17. NothingEarly'
  <2>1. \A d \in Call : ended[d] # "no" => ended'[d] # "no"
    BY <1>0, <1>2 DEF CallsAre
  <2>2. ended'[c] # "no"
    BY <1>0, <1>2 DEF CallsAre
  <2>3. \A x \in t.moved : x.by = c
    BY <1>3 DEF CallIs, Once
  <2> QED
    BY <1>2, <2>1, <2>2, <2>3 DEF StockInv, NothingEarly
<1>18. TablesAre(layers', lastLayer', quantity', moved')
  BY <1>2, <1>5, <1>6, <1>11, <1>12
<1> QED
  BY <1>14, <1>15, <1>16, <1>17, <1>18 DEF StockInv

-----------------------------------------------------------------------------
(* Every step.                                                              *)
LEMMA Advances ==
    ASSUME StockInv, NEW c \in Call, Open(c), UNCHANGED <<stockVars, ended, setting>>,
           NEW n \in Nat, n >= at[c], at' = [at EXCEPT ![c] = n]
    PROVE  StockInv'
<1>1. at[c] > 0 => c \in Asking
  BY DEF StockInv, CallsAre
<1>2. at[c] > 0
  BY DEF Open
<1> QED
  BY <1>1, <1>2, PaperGoes

LEMMA StatementGoes ==
    ASSUME StockInv, NEW c \in Call, Open(c), Advance(c), UNCHANGED <<stockVars, setting>>
    PROVE  StockInv'
<1>1. at[c] \in Nat
  BY DEF StockInv, CallsAre
<1>2. at' = [at EXCEPT ![c] = at[c] + 1] /\ at[c] + 1 \in Nat /\ at[c] + 1 >= at[c]
  BY <1>1 DEF Advance
<1>3. UNCHANGED <<stockVars, ended, setting>>
  BY DEF Advance
<1> QED
  BY <1>2, <1>3, Advances

LEMMA StockSteps == ASSUME StockInv, [TradingNext]_tradingVars PROVE StockInv'
<1>1. CASE UNCHANGED tradingVars
  <2>1. stage' = stage /\ moving' = moving /\ tx' = tx /\ layers' = layers /\ lastLayer' = lastLayer
        /\ quantity' = quantity /\ moved' = moved /\ at' = at /\ ended' = ended /\ setting' = setting
    BY <1>1 DEF tradingVars, serviceVars, stockVars
  <2> QED
    BY <2>1 DEF StockInv, CallsAre, EachCall, AllApart, NothingEarly, Asking, Asked
<1>2. CASE TradingNext
  <2>1. PICK c \in Call : TradingStep(c)
    BY <1>2 DEF TradingNext
  <2>2. UNCHANGED setting
    BY <1>2 DEF TradingNext
  <2>3. at[c] \in Nat
    BY DEF StockInv, CallsAre
  <2>4. CASE Begin(c)
    <3>1. at' = [at EXCEPT ![c] = 1] /\ c \in Asking /\ 1 >= at[c] /\ 1 \in Nat
      BY <2>3, <2>4 DEF Begin
    <3>2. UNCHANGED <<stockVars, ended, setting>>
      BY <2>2, <2>4 DEF Begin
    <3> QED
      BY <3>1, <3>2, PaperGoes
  <2>5. CASE Move(c)
    BY <2>2, <2>5, MoveGoes
  <2>6. CASE RunTrigger(c)
    <3>1. Trigger(c) /\ UNCHANGED <<at, ended, setting>>
      BY <2>2, <2>6 DEF RunTrigger
    <3> QED
      BY <3>1, CheckGoes, LayerGoes, OpenGoes, TakeGoes, ValueGoes DEF Trigger
  <2>7. CASE Abort(c)
    BY <2>2, <2>7, AbortGoes
  <2>8. CASE FindKey(c) \/ FindGodown(c)
    <3>1. PICK n \in Nat : n >= at[c] /\ at' = [at EXCEPT ![c] = n]
      <4>1. at' = [at EXCEPT ![c] = at[c] + 2] \/ at' = [at EXCEPT ![c] = at[c] + 1]
        BY <2>8 DEF FindKey, FindGodown
      <4>2. at[c] + 2 \in Nat /\ at[c] + 1 \in Nat /\ at[c] + 2 >= at[c] /\ at[c] + 1 >= at[c]
        BY <2>3
      <4> QED
        BY <4>1, <4>2
    <3>2. Open(c) /\ UNCHANGED <<stockVars, ended, setting>>
      BY <2>2, <2>8 DEF FindKey, FindGodown, Doing
    <3> QED
      BY <3>1, <3>2, Advances
  <2>9. CASE Open(c) /\ Advance(c) /\ UNCHANGED stockVars
    BY <2>2, <2>9, StatementGoes
  <2>10. CASE Commit(c)
    BY <2>2, <2>10, CommitGoes
  <2>11. \/ Begin(c) \/ Move(c) \/ RunTrigger(c) \/ Abort(c) \/ FindKey(c) \/ FindGodown(c)
         \/ (Open(c) /\ Advance(c) /\ UNCHANGED stockVars) \/ Commit(c)
    <3>1. MoveRefused(c) \/ RowRefused(c) \/ KeyConflict(c) \/ GodownConflict(c) \/ NoChallan(c) \/ NumberConflict(c)
            \/ Unbalanced(c) \/ Fail(c) => Abort(c)
      BY DEF MoveRefused, RowRefused, KeyConflict, GodownConflict, NoChallan, NumberConflict, Unbalanced, Fail
    <3>2. ClaimKey(c) \/ TaxEntries(c) \/ ClaimGodown(c) \/ Challan(c) \/ FindChallan(c)
            => Open(c) /\ Advance(c) /\ UNCHANGED stockVars
      BY DEF ClaimKey, TaxEntries, ClaimGodown, Challan, FindChallan, Doing
    <3>3. Receipt(c) \/ ReadStatus(c) \/ WriteStatus(c) \/ Journal(c) \/ Number(c) \/ Invoice(c)
            => Open(c) /\ Advance(c) /\ UNCHANGED stockVars
      BY DEF Receipt, ReadStatus, WriteStatus, Journal, Number, Invoice, Doing
    <3> QED
      BY <2>1, <3>1, <3>2, <3>3 DEF TradingStep
  <2> QED
    BY <2>4, <2>5, <2>6, <2>7, <2>8, <2>9, <2>10, <2>11
<1> QED
  BY <1>1, <1>2

-----------------------------------------------------------------------------
(* The preview's loop, layer by layer, comes to the trigger's shares.       *)
LEMMA HasNewest ==
    ASSUME NEW last \in Nat, NEW ls \in SUBSET (1 .. last), ls # {}
    PROVE  Max(ls) \in ls /\ \A l \in ls : l <= Max(ls)
<1>1. PICK N : N = {n \in Nat : \A s \in SUBSET (1 .. n) : s # {} => \E x \in s : \A y \in s : x >= y}
  OBVIOUS
<1>2. 0 \in N
  <2>1. 1 .. 0 = {} /\ \A s \in SUBSET {} : s = {}
    OBVIOUS
  <2> QED
    BY <1>1, <2>1
<1>3. ASSUME NEW n \in N PROVE n + 1 \in N
  <2>0. n \in Nat
    BY <1>1
  <2> SUFFICES ASSUME NEW s \in SUBSET (1 .. n + 1), s # {} PROVE \E x \in s : \A y \in s : x >= y
    BY <1>1, <2>0
  <2>1. CASE n + 1 \in s
    BY <2>0, <2>1
  <2>2. CASE n + 1 \notin s
    <3>1. s \in SUBSET (1 .. n)
      BY <2>0, <2>2
    <3> QED
      BY <1>1, <3>1
  <2> QED
    BY <2>1, <2>2
<1>4. N = Nat
  BY <1>1, <1>2, <1>3, FromZeroOn
<1>5. \E x \in ls : \A y \in ls : x >= y
  BY <1>1, <1>4
<1>6. Max(ls) \in ls /\ \A y \in ls : Max(ls) >= y
  BY <1>5, Zenon DEF Max
<1> QED
  BY <1>6

Ahead(have, s, l) == SumFunctionOnSet(have, {k \in s : k < l})
Looped(have, l, sim) ==
    LET consumed == Least(sim.remaining, have[l])
    IN  IF sim.remaining <= 0 THEN sim
        ELSE [remaining |-> sim.remaining - consumed, consumed |-> Put(sim.consumed, l, consumed)]
Untouched(w) == [remaining |-> w, consumed |-> <<>>]
Reached(have, w, s) == {l \in s : Ahead(have, s, l) < w}
After(have, w, s) ==
    IF s = {} THEN Untouched(w)
    ELSE [remaining |-> LET r == w - SumFunctionOnSet(have, s) IN IF r <= 0 THEN 0 ELSE r,
          consumed |-> [l \in Reached(have, w, s) |-> Least(w - Ahead(have, s, l), have[l])]]

LEMMA LoopsOn ==
    ASSUME NEW last \in Nat, NEW s \in SUBSET (1 .. last), s # {}, NEW have, \A l \in s : have[l] \in Nat,
           NEW w \in Nat \ {0}
    PROVE  After(have, w, s) = Looped(have, Max(s), After(have, w, s \ {Max(s)}))
<1>1. PICK x : x = Max(s)
  OBVIOUS
<1>2. x \in s /\ x \in Nat /\ \A l \in s : l \in Nat /\ l <= x
  <2>1. \A l \in s : l \in Nat
    OBVIOUS
  <2>2. x \in s /\ \A l \in s : l <= x
    BY <1>1, HasNewest
  <2> QED
    BY <2>1, <2>2
<1>3. PICK r : r = s \ {x}
  OBVIOUS
<1>4. IsFiniteSet(s)
  <2>1. IsFiniteSet(1 .. last)
    BY FS_Interval
  <2> QED
    BY <2>1, FS_Subset
<1>5. \A t \in SUBSET s : Weighs(have, t) /\ SumFunctionOnSet(have, t) \in Nat
  BY <1>4, FS_Subset, SumOfNaturals
<1>6. {k \in s : k < x} = r
  <2>1. \A k \in s : k < x <=> k # x
    BY <1>2
  <2> QED
    BY <1>3, <2>1
<1>7. \A l \in r : {k \in s : k < l} = {k \in r : k < l}
  BY <1>2, <1>3
<1>8. Ahead(have, s, x) = SumFunctionOnSet(have, r) /\ \A l \in r : Ahead(have, s, l) = Ahead(have, r, l)
  BY <1>6, <1>7 DEF Ahead
<1>9. PICK b \in Nat : b = SumFunctionOnSet(have, r)
  BY <1>3, <1>5
<1>10. PICK h \in Nat : h = have[x]
  BY <1>2
<1>11. SumFunctionOnSet(have, s) = b + h
  <2>1. s = r \cup {x} /\ x \notin r /\ Weighs(have, r)
    BY <1>2, <1>3, <1>5
  <2> QED
    BY <1>9, <1>10, <2>1, SumOfMore
<1>12. Reached(have, w, s) = IF b < w THEN Reached(have, w, r) \cup {x} ELSE Reached(have, w, r)
  BY <1>2, <1>3, <1>8, <1>9 DEF Reached
<1>13. PICK u : u = After(have, w, r)
  OBVIOUS
<1>14. /\ u.remaining = IF w - b <= 0 THEN 0 ELSE w - b
       /\ DOMAIN u.consumed = Reached(have, w, r)
       /\ \A l \in Reached(have, w, r) : u.consumed[l] = Least(w - Ahead(have, s, l), have[l])
  <2>1. CASE r = {}
    <3>1. b = 0
      BY <1>9, <2>1, SumOfNone
    <3>2. u.remaining = w /\ u.consumed = <<>> /\ Reached(have, w, r) = {}
      BY <1>13, <2>1 DEF After, Untouched, Reached
    <3>3. DOMAIN u.consumed = {}
      BY <3>2
    <3> QED
      BY <3>1, <3>2, <3>3
  <2>2. CASE r # {}
    <3>1. u = [remaining |-> IF w - b <= 0 THEN 0 ELSE w - b,
               consumed |-> [l \in Reached(have, w, r) |-> Least(w - Ahead(have, r, l), have[l])]]
      BY <1>9, <1>13, <2>2 DEF After
    <3> QED
      BY <1>8, <3>1 DEF Reached
  <2> QED
    BY <2>1, <2>2
<1>15. PICK f : f = [l \in Reached(have, w, s) |-> Least(w - Ahead(have, s, l), have[l])]
  OBVIOUS
<1>16. After(have, w, s) = [remaining |-> IF w - (b + h) <= 0 THEN 0 ELSE w - (b + h), consumed |-> f]
  BY <1>11, <1>15 DEF After
<1>17. CASE w <= b
  <2>1. Looped(have, x, u) = u
    BY <1>14, <1>17 DEF Looped
  <2>2. Reached(have, w, s) = Reached(have, w, r)
    BY <1>12, <1>17
  <2>3. r # {}
    BY <1>9, <1>17, SumOfNone
  <2>4. u = [remaining |-> 0, consumed |-> f]
    <3>1. u = [remaining |-> IF w - b <= 0 THEN 0 ELSE w - b,
               consumed |-> [l \in Reached(have, w, r) |-> Least(w - Ahead(have, r, l), have[l])]]
      BY <1>9, <1>13, <2>3 DEF After
    <3>2. [l \in Reached(have, w, r) |-> Least(w - Ahead(have, r, l), have[l])] = f
      BY <1>8, <1>15, <2>2 DEF Reached
    <3> QED
      BY <1>17, <3>1, <3>2
  <2>5. w - (b + h) <= 0
    BY <1>17
  <2> QED
    BY <1>1, <1>3, <1>13, <1>16, <2>1, <2>4, <2>5
<1>18. CASE b < w
  <2>1. PICK v : v = Least(w - b, h)
    OBVIOUS
  <2>2. u.remaining = w - b /\ ~(w - b <= 0) /\ w - b \in Int
    BY <1>14, <1>18
  <2>3. Looped(have, x, u) = [remaining |-> (w - b) - v, consumed |-> Put(u.consumed, x, v)]
    BY <1>10, <2>1, <2>2 DEF Looped
  <2>4. Reached(have, w, s) = Reached(have, w, r) \cup {x} /\ x \notin Reached(have, w, r)
    BY <1>3, <1>12, <1>18 DEF Reached
  <2>5. f[x] = v
    BY <1>8, <1>9, <1>10, <1>15, <2>1, <2>4
  <2>6. \A l \in Reached(have, w, r) : f[l] = u.consumed[l]
    BY <1>14, <1>15, <2>4
  <2>7. Put(u.consumed, x, v) = f
    <3>1. f = [l \in Reached(have, w, r) \cup {x} |-> f[l]]
      BY <1>15, <2>4
    <3>2. \A l \in Reached(have, w, r) \cup {x} : f[l] = IF l = x THEN v ELSE u.consumed[l]
      BY <2>4, <2>5, <2>6
    <3>3. [l \in Reached(have, w, r) \cup {x} |-> f[l]] =
              [l \in Reached(have, w, r) \cup {x} |-> IF l = x THEN v ELSE u.consumed[l]]
      BY <3>2
    <3> QED
      BY <1>14, <3>1, <3>3 DEF Put
  <2>8. (w - b) - v = IF w - (b + h) <= 0 THEN 0 ELSE w - (b + h)
    BY <1>18, <2>1 DEF Least
  <2> QED
    BY <1>1, <1>3, <1>13, <1>16, <2>3, <2>7, <2>8
<1> QED
  BY <1>2, <1>9, <1>17, <1>18

Loops(g, S, have, w) ==
    g = [s \in SUBSET S |-> IF s = {} THEN Untouched(w) ELSE Looped(have, Max(s), g[s \ {Max(s)}])]

LEMMA LoopIs ==
    ASSUME NEW last \in Nat, NEW S \in SUBSET (1 .. last), NEW have, \A l \in S : have[l] \in Nat,
           NEW w \in Nat \ {0}
    PROVE  /\ \E g : Loops(g, S, have, w)
           /\ \A g : Loops(g, S, have, w) => g[S] = After(have, w, S)
<1>1. \A s \in SUBSET S : s # {} => Max(s) \in s /\ s \ {Max(s)} \in SUBSET S
  BY HasNewest
<1>2. \A s \in SUBSET S : s # {} => After(have, w, s) = Looped(have, Max(s), After(have, w, s \ {Max(s)}))
  BY LoopsOn
<1>3. IsFiniteSet(S)
  <2>1. IsFiniteSet(1 .. last)
    BY FS_Interval
  <2> QED
    BY <2>1, FS_Subset
<1>4. \E g : Loops(g, S, have, w)
  <2>1. PICK g : g = [s \in SUBSET S |-> After(have, w, s)]
    OBVIOUS
  <2>2. \A s \in SUBSET S : g[s] = After(have, w, s)
    BY <2>1
  <2>3. \A s \in SUBSET S :
           After(have, w, s) = IF s = {} THEN Untouched(w) ELSE Looped(have, Max(s), g[s \ {Max(s)}])
    <3> SUFFICES ASSUME NEW s \in SUBSET S
                 PROVE  After(have, w, s) = IF s = {} THEN Untouched(w) ELSE Looped(have, Max(s), g[s \ {Max(s)}])
      OBVIOUS
    <3>1. CASE s = {}
      BY <3>1 DEF After
    <3>2. CASE s # {}
      <4>1. g[s \ {Max(s)}] = After(have, w, s \ {Max(s)})
        BY <1>1, <2>2, <3>2
      <4> QED
        BY <1>2, <3>2, <4>1
    <3> QED
      BY <3>1, <3>2
  <2>4. Loops(g, S, have, w)
    BY <2>1, <2>3, Zenon DEF Loops
  <2> QED
    BY <2>4
<1>5. ASSUME NEW g, Loops(g, S, have, w) PROVE g[S] = After(have, w, S)
  <2>1. \A s \in SUBSET S : g[s] = IF s = {} THEN Untouched(w) ELSE Looped(have, Max(s), g[s \ {Max(s)}])
    BY <1>5 DEF Loops
  <2>2. PICK N : N = {n \in Nat : \A s \in UpTo(S, n) : g[s] = After(have, w, s)}
    OBVIOUS
  <2>3. 0 \in N
    <3>1. \A s \in UpTo(S, 0) : s = {}
      BY <1>3, Small
    <3>2. g[{}] = Untouched(w) /\ After(have, w, {}) = Untouched(w)
      BY <2>1 DEF After
    <3> QED
      BY <2>2, <3>1, <3>2
  <2>4. ASSUME NEW n \in N PROVE n + 1 \in N
    <3>0. n \in Nat
      BY <2>2
    <3> SUFFICES ASSUME NEW s \in UpTo(S, n + 1) PROVE g[s] = After(have, w, s)
      BY <2>2, <3>0
    <3>1. s \in SUBSET S
      BY DEF UpTo
    <3>2. CASE s = {}
      BY <2>1, <3>2 DEF After
    <3>3. CASE s # {}
      <4>1. Max(s) \in s /\ s \ {Max(s)} \in UpTo(S, n)
        BY <1>1, <1>3, <3>0, <3>1, <3>3, OneLess
      <4>2. g[s \ {Max(s)}] = After(have, w, s \ {Max(s)})
        BY <2>2, <4>1
      <4>3. g[s] = Looped(have, Max(s), g[s \ {Max(s)}])
        BY <2>1, <3>1, <3>3
      <4> QED
        BY <1>2, <3>1, <3>3, <4>2, <4>3
    <3> QED
      BY <3>2, <3>3
  <2>5. N = Nat
    BY <2>2, <2>3, <2>4, FromZeroOn
  <2>6. S \in UpTo(S, Cardinality(S)) /\ Cardinality(S) \in Nat
    BY <1>3, Small
  <2> QED
    BY <2>2, <2>5, <2>6
<1> QED
  BY <1>4, <1>5

LEMMA PreviewIs ==
    ASSUME NEW c, NEW last \in Nat, NEW S \in SUBSET (1 .. last), S = Alive(c),
           NEW have, \A l \in S : have[l] = Left(c, l) /\ have[l] \in Nat,
           NEW w \in Nat \ {0}, w = moving[c].qty
    PROVE  Preview(c) = After(have, w, S)
<1>1. PICK g : g = CHOOSE e : e = [s \in SUBSET S |->
                     IF s = {} THEN Untouched(w)
                     ELSE LET consumed == Least(e[s \ {Max(s)}].remaining, Left(c, Max(s)))
                          IN  IF e[s \ {Max(s)}].remaining <= 0 THEN e[s \ {Max(s)}]
                              ELSE [remaining |-> e[s \ {Max(s)}].remaining - consumed,
                                    consumed |-> Put(e[s \ {Max(s)}].consumed, Max(s), consumed)]]
  OBVIOUS
<1>2. Preview(c) = g[S]
  BY <1>1 DEF Preview, MapThenFoldSet, Untouched
<1>3. \A s \in SUBSET S : s # {} => have[Max(s)] = Left(c, Max(s))
  BY HasNewest
<1>4. ASSUME NEW e
      PROVE  Loops(e, S, have, w) <=>
                 e = [s \in SUBSET S |->
                     IF s = {} THEN Untouched(w)
                     ELSE LET consumed == Least(e[s \ {Max(s)}].remaining, Left(c, Max(s)))
                          IN  IF e[s \ {Max(s)}].remaining <= 0 THEN e[s \ {Max(s)}]
                              ELSE [remaining |-> e[s \ {Max(s)}].remaining - consumed,
                                    consumed |-> Put(e[s \ {Max(s)}].consumed, Max(s), consumed)]]
  <2>1. \A s \in SUBSET S : s # {} =>
           Looped(have, Max(s), e[s \ {Max(s)}]) =
               LET consumed == Least(e[s \ {Max(s)}].remaining, Left(c, Max(s)))
               IN  IF e[s \ {Max(s)}].remaining <= 0 THEN e[s \ {Max(s)}]
                   ELSE [remaining |-> e[s \ {Max(s)}].remaining - consumed,
                         consumed |-> Put(e[s \ {Max(s)}].consumed, Max(s), consumed)]
    BY <1>3 DEF Looped
  <2> QED
    BY <2>1 DEF Loops
<1>5. PICK h : Loops(h, S, have, w)
  BY LoopIs
<1>6. Loops(g, S, have, w)
  BY <1>1, <1>4, <1>5, Zenon
<1> QED
  BY <1>2, <1>6, LoopIs

-----------------------------------------------------------------------------
(* What the invariant says in the properties' words.                        *)
LEMMA HeldIs ==
    ASSUME NEW f, LayersAre(f), NEW b, NEW s, s = InB(f, b)
    PROVE  MapThenSumSet(LAMBDA l : f[l].left, s) = Holds(f, b)
<1>1. s = InB(f, b)
  OBVIOUS
<1>2. IsFiniteSet(s) /\ \A l \in s : f[l].left \in Int
  BY <1>1, FS_Subset DEF LayersAre, InB
<1>3. /\ Weighs([l \in s |-> f[l].left], s)
      /\ MapThenSumSet(LAMBDA l : f[l].left, s) = SumFunctionOnSet([l \in s |-> f[l].left], s)
  BY <1>2, LeftIs
<1>4. \A l \in s : [k \in s |-> f[k].left][l] = LeftsOf(f)[l]
  BY <1>1 DEF LeftsOf, InB
<1>5. Holds(f, b) = SumFunctionOnSet([l \in s |-> f[l].left], s)
  BY <1>1, <1>3, <1>4, SumIsSame DEF Holds
<1> QED
  BY <1>1, <1>3, <1>5

LEMMA Previewed == ASSUME StockInv PROVE PreviewIsCharged
<1> SUFFICES ASSUME NEW c \in Call, stage[c] = "take", ~Underflow(c), LayersFree(c)
             PROVE  /\ Preview(c).remaining = 0
                    /\ \A l \in Alive(c) : At(Preview(c).consumed, l) = Share(c, l)
  BY DEF PreviewIsCharged
<1>1. CallIs(c, stage[c], moving[c], tx[c], at[c], layers, lastLayer)
  BY DEF StockInv, EachCall
<1>2. TablesAre(layers, lastLayer, quantity, moved)
  BY DEF StockInv
<1>3. PICK S : S = Alive(c)
  OBVIOUS
<1>4. PICK w : w = moving[c].qty
  OBVIOUS
<1>5. w \in Nat \ {0}
  <2>1. moving[c] \in Movement
    BY <1>1 DEF CallIs, OfStage
  <2> QED
    BY <1>4, <2>1 DEF Movement
<1>6. S \in SUBSET (1 .. lastLayer) /\ lastLayer \in Nat /\ \A l \in S : Left(c, l) \in Nat
  <2>1. PICK t : t = tx[c]
    OBVIOUS
  <2>2. CallIs(c, "take", moving[c], t, at[c], layers, lastLayer)
    BY <1>1, <2>1
  <2>3. /\ LayersAre(layers) /\ LayersAre(t.fresh) /\ Reaches(layers, t) /\ lastLayer \in Nat
        /\ DOMAIN layers \subseteq 1 .. lastLayer /\ DOMAIN t.fresh \subseteq 1 .. lastLayer
    BY <1>2, <2>2 DEF CallIs, TablesAre, Reaches
  <2>4. S \subseteq 1 .. lastLayer /\ S \subseteq DOMAIN layers \cup DOMAIN t.fresh
    BY <1>3, <2>1, <2>3 DEF Alive, Reaches
  <2>5. ASSUME NEW l \in S PROVE Left(c, l) \in Nat
    <3>1. LayerOf(layers, t, l) \in [bin : Bin, left : Nat]
      BY <2>3, <2>4, LayerIs
    <3>2. At(t.taken, l) \in Nat /\ At(t.taken, l) <= LayerOf(layers, t, l).left
      BY <2>3, <3>1 DEF At, Reaches
    <3>3. Left(c, l) = LayerOf(layers, t, l).left - At(t.taken, l)
      BY <2>1 DEF Left, Layer, LayerOf
    <3> QED
      BY <3>1, <3>2, <3>3
  <2> QED
    BY <2>3, <2>4, <2>5
<1>7. PICK have : have = [l \in S |-> Left(c, l)]
  OBVIOUS
<1>8. \A l \in S : have[l] = Left(c, l) /\ have[l] \in Nat
  BY <1>6, <1>7
<1>9. Preview(c) = After(have, w, S)
  BY <1>3, <1>4, <1>5, <1>6, <1>8, PreviewIs
<1>10. IsFiniteSet(S)
  <2>1. IsFiniteSet(1 .. lastLayer)
    BY <1>6, FS_Interval
  <2> QED
    BY <1>6, <2>1, FS_Subset
<1>11. \A s \in SUBSET S : LeftIn(c, s) = SumFunctionOnSet(have, s) /\ SumFunctionOnSet(have, s) \in Nat
  <2> SUFFICES ASSUME NEW s \in SUBSET S
               PROVE  LeftIn(c, s) = SumFunctionOnSet(have, s) /\ SumFunctionOnSet(have, s) \in Nat
    OBVIOUS
  <2>1. IsFiniteSet(s)
    BY <1>10, FS_Subset
  <2>2. \A l \in s : have[l] = Left(c, l) /\ have[l] \in Nat
    BY <1>8
  <2>4. SumFunctionOnSet(have, s) \in Nat
    BY <2>1, <2>2, SumOfNaturals
  <2>5. LeftIn(c, s) = SumFunctionOnSet(have, s)
    <3>1. \A l \in s : have[l] = Left(c, l) /\ have[l] \in Int
      BY <2>2
    <3> QED
      BY <2>1, <3>1, LeftInIs
  <2> QED
    BY <2>4, <2>5
<1>12. w <= SumFunctionOnSet(have, S)
  <2>1. ~ (LeftIn(c, S) < w)
    BY <1>3, <1>4 DEF Underflow
  <2> QED
    BY <1>5, <1>11, <2>1
<1>13. S # {}
  BY <1>5, <1>12, SumOfNone
<1>14. After(have, w, S).remaining = 0
  <2>1. PICK n \in Nat : n = SumFunctionOnSet(have, S)
    BY <1>11
  <2>2. w - n <= 0
    BY <1>5, <1>12, <2>1
  <2> QED
    BY <1>13, <2>1, <2>2 DEF After
<1>15. ASSUME NEW l \in S PROVE At(After(have, w, S).consumed, l) = Share(c, l)
  <2>1. PICK n \in Nat : n = SumFunctionOnSet(have, {k \in S : k < l})
    BY <1>11
  <2>2. Share(c, l) = IF w - n <= 0 THEN 0 ELSE Least(w - n, have[l])
    <3>1. LeftIn(c, {k \in S : k < l}) = n
      BY <1>11, <2>1
    <3> QED
      BY <1>3, <1>4, <1>8, <3>1 DEF Share
  <2>3. After(have, w, S).consumed = [k \in Reached(have, w, S) |-> Least(w - Ahead(have, S, k), have[k])]
    BY <1>13 DEF After
  <2>4. Ahead(have, S, l) = n /\ (l \in Reached(have, w, S) <=> n < w)
    BY <2>1 DEF Ahead, Reached
  <2>5. n < w <=> ~(w - n <= 0)
    BY <1>5
  <2> QED
    BY <2>2, <2>3, <2>4, <2>5 DEF At
<1> QED
  BY <1>3, <1>9, <1>14, <1>15

LEMMA StockMeans == ASSUME StockInv PROVE StockTypeOK /\ LayersMatchMoves /\ QuantityMatchesMoves
<1>0. CallsAre /\ TablesAre(layers, lastLayer, quantity, moved)
  BY DEF StockInv
<1>1. LayersAre(layers) /\ DOMAIN layers \subseteq 1 .. lastLayer /\ Movements(moved)
  BY <1>0 DEF TablesAre
<1>2. \A b, kinds : Total(InBin(b, kinds)) = Qty(Of(moved, b, kinds))
  <2> SUFFICES ASSUME NEW b, NEW kinds PROVE Total(InBin(b, kinds)) = Qty(Of(moved, b, kinds))
    OBVIOUS
  <2>1. PICK ms : ms = InBin(b, kinds)
    OBVIOUS
  <2>2. ms = Of(moved, b, kinds)
    BY <2>1 DEF InBin, Of
  <2>3. Movements(ms)
    BY <1>1, <2>2, OfIs
  <2>4. Total(ms) = Qty(ms)
    BY <2>3, TotalIs
  <2> QED
    BY <2>1, <2>2, <2>4
<1>3. LayersMatchMoves
  <2> SUFFICES ASSUME NEW b \in Bin
               PROVE  /\ \A l \in InB(layers, b) : layers[l].left >= 0
                      /\ MapThenSumSet(LAMBDA l : layers[l].left, InB(layers, b)) =
                             OpeningLeft(b) + Total(InBin(b, Layered)) - Total(InBin(b, Consuming))
    BY DEF LayersMatchMoves, InB
  <2>1. \A l \in InB(layers, b) : layers[l].left >= 0
    <3>1. \A l \in DOMAIN layers : layers[l].left \in Nat
      BY <1>1 DEF LayersAre
    <3> QED
      BY <3>1 DEF InB
  <2>2. PICK f, s : f = layers /\ s = InB(layers, b)
    OBVIOUS
  <2>3. MapThenSumSet(LAMBDA l : f[l].left, s) = Holds(f, b)
    <3>1. LayersAre(f) /\ s = InB(f, b)
      BY <1>1, <2>2
    <3> QED
      BY <3>1, HeldIs
  <2>4. MapThenSumSet(LAMBDA l : layers[l].left, InB(layers, b)) = Holds(layers, b)
    BY <2>2, <2>3
  <2>5. Holds(layers, b) = OpeningLeft(b) + Qty(Of(moved, b, Layered)) - Qty(Of(moved, b, Consuming))
    BY <1>0 DEF TablesAre
  <2> QED
    BY <1>2, <2>1, <2>4, <2>5
<1>4. QuantityMatchesMoves
  <2> SUFFICES ASSUME NEW b \in DOMAIN quantity, OpeningLeft(b) > 0
               PROVE  quantity[b] = OpeningLeft(b) + Total(InBin(b, Inward)) - Total(InBin(b, Outward))
    BY DEF QuantityMatchesMoves, CurrentStock, StockLedger, At
  <2>1. b \in Bin
    BY <1>0 DEF TablesAre
  <2>2. quantity[b] = OpeningLeft(b) + Qty(Of(moved, b, Inward)) - Qty(Of(moved, b, Outward))
    BY <1>0, <2>1 DEF TablesAre
  <2> QED
    BY <1>2, <2>2
<1>5. StockTypeOK
  <2>1. stage \in [Call -> {"none", "check", "layer", "open", "take", "value"}]
    BY <1>0 DEF CallsAre, Stages
  <2>2. \A l \in DOMAIN layers : layers[l] \in [bin : Bin, left : Int] /\ l \in 1 .. lastLayer
    <3>1. \A l \in DOMAIN layers : layers[l] \in [bin : Bin, left : Nat]
      BY <1>1 DEF LayersAre
    <3> QED
      BY <1>1, <3>1
  <2>3. \A b \in DOMAIN quantity : b \in Bin /\ quantity[b] \in Int
    BY <1>0 DEF TablesAre
  <2>4. moved \subseteq Movement
    BY <1>1 DEF Movements
  <2>5. ASSUME NEW c \in Call
        PROVE  /\ moving[c] \in Movement \cup {Idle}
               /\ tx[c].cursor \cup tx[c].held \subseteq Visible(c)
               /\ DOMAIN tx[c].taken = tx[c].held /\ DOMAIN tx[c].delta \subseteq Bin
               /\ tx[c].moved \subseteq Movement
    <3>1. CallIs(c, stage[c], moving[c], tx[c], at[c], layers, lastLayer)
      BY DEF StockInv, EachCall
    <3>2. moving[c] \in Movement \cup {Idle}
      BY <3>1 DEF CallIs, OfStage
    <3>3. Reaches(layers, tx[c]) /\ DOMAIN tx[c].delta \subseteq Bin /\ Movements(tx[c].moved)
      BY <3>1 DEF CallIs, Changes, Once
    <3> QED
      BY <3>2, <3>3 DEF Reaches, Visible, Movements
  <2> QED
    BY <2>1, <2>2, <2>3, <2>4, <2>5 DEF StockTypeOK
<1> QED
  BY <1>3, <1>4, <1>5

(* Types, and StockAddsUp: the layers of a bin hold what came in with one   *)
(* less what was taken, none is below zero, stock_valuations says what the  *)
(* movements say, and a preview what is charged, for any calls, bins,       *)
(* opening layers and requests.                                             *)
THEOREM StockMatchesMoves == TradingSpec => [](StockTypeOK /\ StockAddsUp)
<1>1. TradingInit => StockInv
  BY StockStarts DEF TradingInit
<1>2. StockInv /\ [TradingNext]_tradingVars => StockInv'
  BY StockSteps
<1>3. StockInv => StockTypeOK /\ StockAddsUp
  BY StockMeans, Previewed DEF StockAddsUp
<1> QED
  BY <1>1, <1>2, <1>3, PTL DEF TradingSpec

-----------------------------------------------------------------------------
(* What a step of a service does: begins, inserts a movement, runs a        *)
(* trigger, says one of its words, rolls back or commits.                   *)
IsPaper(p) == p = [key |-> p.key, godown |-> p.godown, rows |-> p.rows, got |-> p.got, status |-> p.status,
                   read |-> p.read, number |-> p.number]
PapersAre == paper = [c \in Call |-> paper[c]] /\ \A c \in Call : IsPaper(paper[c])

Scribbles(c) ==
    /\ UNCHANGED <<stockVars, ended, papers>>
    /\ paper' = [paper EXCEPT ![c] = paper'[c]] /\ IsPaper(paper'[c])
Speaks(c) ==
    /\ \E w \in Words : Doing(c, w) /\ (at'[c] = at[c] + 1 \/ (at'[c] = at[c] + 2 /\ w \in Finds))
    /\ at' = [at EXCEPT ![c] = at'[c]]
    /\ Scribbles(c)

LEMMA Written ==
    ASSUME PapersAre, NEW c \in Call, NEW field, NEW v,
           field \in {"key", "godown", "status", "read", "number"}, Write(c, field, v)
    PROVE  paper' = [paper EXCEPT ![c] = paper'[c]] /\ IsPaper(paper'[c])
<1>1. IsPaper(paper[c]) /\ paper = [d \in Call |-> paper[d]]
  BY DEF PapersAre
<1>2. CASE field = "key"
  BY <1>1, <1>2 DEF Write, IsPaper
<1>3. CASE field = "godown"
  BY <1>1, <1>3 DEF Write, IsPaper
<1>4. CASE field = "status"
  BY <1>1, <1>4 DEF Write, IsPaper
<1>5. CASE field = "read"
  BY <1>1, <1>5 DEF Write, IsPaper
<1>6. CASE field = "number"
  BY <1>1, <1>6 DEF Write, IsPaper
<1> QED
  BY <1>2, <1>3, <1>4, <1>5, <1>6

LEMMA Unwritten ==
    ASSUME PapersAre, NEW c \in Call, UNCHANGED paper
    PROVE  paper' = [paper EXCEPT ![c] = paper'[c]] /\ IsPaper(paper'[c])
<1>1. IsPaper(paper[c]) /\ paper = [d \in Call |-> paper[d]]
  BY DEF PapersAre
<1> QED
  BY <1>1

LEMMA Receipted ==
    ASSUME PapersAre, NEW c \in Call, Receipt(c)
    PROVE  /\ paper' = [paper EXCEPT ![c] = paper'[c]] /\ IsPaper(paper'[c])
           /\ \E f \in Sources(c) : paper'[c].got = [s \in Matched(c) |-> f[s].qty]
           /\ paper'[c].rows = {[by |-> c, n |-> i, line |-> Asked[c].lines[i]] : i \in DOMAIN Asked[c].lines}
           /\ paper'[c].key = paper[c].key /\ paper'[c].number = paper[c].number
           /\ paper'[c].read = paper[c].read /\ paper'[c].status = paper[c].status
<1>1. IsPaper(paper[c]) /\ paper = [d \in Call |-> paper[d]]
  BY DEF PapersAre
<1>2. PICK f \in Sources(c) :
          paper' = [paper EXCEPT
                       ![c].got = [s \in Matched(c) |-> f[s].qty],
                       ![c].rows = {[by |-> c, n |-> i, line |-> Asked[c].lines[i]]
                                       : i \in DOMAIN Asked[c].lines}]
  BY DEF Receipt
<1>3. PICK g, rs : /\ g = [s \in Matched(c) |-> f[s].qty]
                   /\ rs = {[by |-> c, n |-> i, line |-> Asked[c].lines[i]] : i \in DOMAIN Asked[c].lines}
  OBVIOUS
<1>4. paper' = [paper EXCEPT ![c].got = g, ![c].rows = rs]
  BY <1>2, <1>3
<1>5. paper'[c] = [paper[c] EXCEPT !.got = g, !.rows = rs]
  BY <1>1, <1>4
<1>6. paper' = [paper EXCEPT ![c] = paper'[c]]
  BY <1>1, <1>4
<1>7. /\ IsPaper(paper'[c]) /\ paper'[c].got = g /\ paper'[c].rows = rs
      /\ paper'[c].key = paper[c].key /\ paper'[c].number = paper[c].number
      /\ paper'[c].read = paper[c].read /\ paper'[c].status = paper[c].status
  BY <1>1, <1>5 DEF IsPaper
<1> QED
  BY <1>3, <1>6, <1>7

LEMMA OneOn ==
    ASSUME at \in [Call -> Nat], NEW c \in Call, NEW w \in Words, Doing(c, w), Advance(c), UNCHANGED stockVars,
           paper' = [paper EXCEPT ![c] = paper'[c]], IsPaper(paper'[c])
    PROVE  Speaks(c)
<1>1. at' = [at EXCEPT ![c] = at[c] + 1] /\ UNCHANGED <<stockVars, ended, papers>>
  BY DEF Advance
<1>2. at'[c] = at[c] + 1
  BY <1>1
<1>3. at' = [at EXCEPT ![c] = at'[c]]
  BY <1>1, <1>2
<1>4. Scribbles(c)
  BY <1>1 DEF Scribbles
<1> QED
  BY <1>2, <1>3, <1>4 DEF Speaks

LEMMA TwoOn ==
    ASSUME at \in [Call -> Nat], PapersAre, NEW c \in Call, FindKey(c) \/ FindGodown(c)
    PROVE  Speaks(c)
<1>1. PICK w \in Finds : Doing(c, w)
  BY DEF FindKey, FindGodown, Finds
<1>2. /\ at' = [at EXCEPT ![c] = at[c] + 2] \/ at' = [at EXCEPT ![c] = at[c] + 1]
      /\ UNCHANGED <<stockVars, ended, papers>> /\ UNCHANGED paper
  BY DEF FindKey, FindGodown
<1>3. at' = [at EXCEPT ![c] = at'[c]] /\ (at'[c] = at[c] + 1 \/ at'[c] = at[c] + 2)
  BY <1>2
<1>4. Scribbles(c)
  BY <1>2, Unwritten DEF Scribbles
<1>5. w \in Words
  BY DEF Finds, Words
<1> QED
  BY <1>1, <1>3, <1>4, <1>5 DEF Speaks

LEMMA StepForms ==
    ASSUME at \in [Call -> Nat], PapersAre, NEW c \in Call, TradingStep(c)
    PROVE  \/ Begin(c) \/ Move(c) \/ RunTrigger(c) \/ (Open(c) /\ Abort(c)) \/ Speaks(c) \/ Commit(c)
<1>1. MoveRefused(c) \/ RowRefused(c) \/ KeyConflict(c) \/ GodownConflict(c) \/ NoChallan(c) \/ NumberConflict(c)
         \/ Unbalanced(c) \/ Fail(c) => Open(c) /\ Abort(c)
  BY DEF MoveRefused, RowRefused, Refusing, KeyConflict, GodownConflict, NoChallan, NumberConflict, Unbalanced,
         Fail, Doing, AtCommit
<1>2. TaxEntries(c) \/ Challan(c) \/ FindChallan(c) \/ Journal(c) \/ Invoice(c) => Speaks(c)
  <2> SUFFICES ASSUME TaxEntries(c) \/ Challan(c) \/ FindChallan(c) \/ Journal(c) \/ Invoice(c) PROVE Speaks(c)
    OBVIOUS
  <2>1. PICK w \in Words : Doing(c, w)
    BY DEF TaxEntries, Challan, FindChallan, Journal, Invoice, Words
  <2>2. Advance(c) /\ UNCHANGED stockVars /\ UNCHANGED paper
    BY DEF TaxEntries, Challan, FindChallan, Journal, Invoice
  <2> QED
    BY <2>1, <2>2, Unwritten, OneOn
<1>3. ClaimKey(c) \/ ClaimGodown(c) \/ ReadStatus(c) \/ WriteStatus(c) \/ Number(c) => Speaks(c)
  <2> SUFFICES ASSUME ClaimKey(c) \/ ClaimGodown(c) \/ ReadStatus(c) \/ WriteStatus(c) \/ Number(c) PROVE Speaks(c)
    OBVIOUS
  <2>1. PICK w \in Words : Doing(c, w)
    BY DEF ClaimKey, ClaimGodown, ReadStatus, WriteStatus, Number, Words
  <2>2. Advance(c) /\ UNCHANGED stockVars
    BY DEF ClaimKey, ClaimGodown, ReadStatus, WriteStatus, Number
  <2>3. \E f \in {"key", "godown", "status", "read", "number"} : \E v : Write(c, f, v)
    BY DEF ClaimKey, ClaimGodown, ReadStatus, WriteStatus, Number
  <2> QED
    BY <2>1, <2>2, <2>3, Written, OneOn
<1>4. Receipt(c) => Speaks(c)
  <2> SUFFICES ASSUME Receipt(c) PROVE Speaks(c)
    OBVIOUS
  <2>1. Doing(c, "receipt") /\ "receipt" \in Words /\ Advance(c) /\ UNCHANGED stockVars
    BY DEF Receipt, Words
  <2>2. paper' = [paper EXCEPT ![c] = paper'[c]] /\ IsPaper(paper'[c])
    BY Receipted
  <2> QED
    BY <2>1, <2>2, OneOn
<1>5. FindKey(c) \/ FindGodown(c) => Speaks(c)
  BY TwoOn
<1> QED
  BY <1>1, <1>2, <1>3, <1>4, <1>5 DEF TradingStep

(* Each paper is written by one word.                                       *)
WritesItsOwn(c) ==
    /\ ClaimKey(c) \/ paper'[c].key = paper[c].key
    /\ Number(c) \/ paper'[c].number = paper[c].number
    /\ Receipt(c) \/ (paper'[c].rows = paper[c].rows /\ paper'[c].got = paper[c].got)
    /\ ReadStatus(c) \/ paper'[c].read = paper[c].read
    /\ WriteStatus(c) \/ paper'[c].status = paper[c].status

LEMMA OthersKept ==
    ASSUME PapersAre, NEW c \in Call, NEW field, NEW v,
           field \in {"key", "godown", "status", "read", "number"}, Write(c, field, v)
    PROVE  /\ field = "key" \/ paper'[c].key = paper[c].key
           /\ field = "number" \/ paper'[c].number = paper[c].number
           /\ paper'[c].rows = paper[c].rows /\ paper'[c].got = paper[c].got
           /\ field = "read" \/ paper'[c].read = paper[c].read
           /\ field = "status" \/ paper'[c].status = paper[c].status
<1>1. IsPaper(paper[c]) /\ paper = [d \in Call |-> paper[d]]
  BY DEF PapersAre
<1>2. CASE field = "key"
  BY <1>1, <1>2 DEF Write, IsPaper
<1>3. CASE field = "godown"
  BY <1>1, <1>3 DEF Write, IsPaper
<1>4. CASE field = "status"
  BY <1>1, <1>4 DEF Write, IsPaper
<1>5. CASE field = "read"
  BY <1>1, <1>5 DEF Write, IsPaper
<1>6. CASE field = "number"
  BY <1>1, <1>6 DEF Write, IsPaper
<1> QED
  BY <1>2, <1>3, <1>4, <1>5, <1>6

LEMMA Spoken ==
    ASSUME PapersAre, NEW c \in Call, TradingStep(c), Speaks(c)
    PROVE  WritesItsOwn(c) \/ Abort(c) \/ Commit(c) \/ Begin(c) \/ Move(c) \/ RunTrigger(c)
<1>1. MoveRefused(c) \/ RowRefused(c) \/ KeyConflict(c) \/ GodownConflict(c) \/ NoChallan(c) \/ NumberConflict(c)
         \/ Unbalanced(c) \/ Fail(c) => Abort(c)
  BY DEF MoveRefused, RowRefused, KeyConflict, GodownConflict, NoChallan, NumberConflict, Unbalanced, Fail
<1>2. TaxEntries(c) \/ Challan(c) \/ FindChallan(c) \/ Journal(c) \/ Invoice(c) \/ FindKey(c) \/ FindGodown(c)
         => UNCHANGED paper
  BY DEF TaxEntries, Challan, FindChallan, Journal, Invoice, FindKey, FindGodown
<1>3. UNCHANGED paper => WritesItsOwn(c)
  BY DEF WritesItsOwn
<1>4. ClaimKey(c) => WritesItsOwn(c)
  <2>1. ClaimKey(c) => Write(c, "key", Asked[c].key)
    BY DEF ClaimKey
  <2> QED
    BY <2>1, OthersKept DEF WritesItsOwn
<1>5. ClaimGodown(c) => WritesItsOwn(c)
  <2>1. ClaimGodown(c) => Write(c, "godown", Asked[c].vendor)
    BY DEF ClaimGodown
  <2> QED
    BY <2>1, OthersKept DEF WritesItsOwn
<1>6. ReadStatus(c) => WritesItsOwn(c)
  <2>1. ReadStatus(c) => \E v : Write(c, "read", v)
    BY DEF ReadStatus
  <2> QED
    BY <2>1, OthersKept DEF WritesItsOwn
<1>7. WriteStatus(c) => WritesItsOwn(c)
  <2>1. WriteStatus(c) => \E v : Write(c, "status", v)
    BY DEF WriteStatus
  <2> QED
    BY <2>1, OthersKept DEF WritesItsOwn
<1>8. Number(c) => WritesItsOwn(c)
  <2>1. Number(c) => \E v : Write(c, "number", v)
    BY DEF Number
  <2> QED
    BY <2>1, OthersKept DEF WritesItsOwn
<1>9. Receipt(c) => WritesItsOwn(c)
  BY Receipted DEF WritesItsOwn
<1> QED
  BY <1>1, <1>2, <1>3, <1>4, <1>5, <1>6, <1>7, <1>8, <1>9 DEF TradingStep

(* A call passes a statement by doing what it says.                         *)
Passes(c, w) == Doing(c, w) /\ at'[c] # at[c]
Answers(c) ==
    /\ Passes(c, "findKey") => FindKey(c)
    /\ Passes(c, "claimKey") => ClaimKey(c)
    /\ Passes(c, "findChallan") => FindChallan(c)
    /\ Passes(c, "receipt") => Receipt(c)
    /\ Passes(c, "readStatus") => ReadStatus(c)
    /\ Passes(c, "writeStatus") => WriteStatus(c)
    /\ Passes(c, "number") => Number(c)
    /\ Passes(c, "invoice") => Invoice(c)

LEMMA SaysOne == ASSUME NEW c, NEW v, NEW w, Doing(c, v), Doing(c, w) PROVE v = w
  BY DEF Doing

LEMMA Answered == ASSUME NEW c \in Call, TradingStep(c), ~Commit(c) PROVE Answers(c)
<1>1. MoveRefused(c) \/ RowRefused(c) \/ KeyConflict(c) \/ GodownConflict(c) \/ NoChallan(c) \/ NumberConflict(c)
         \/ Unbalanced(c) \/ Fail(c) \/ RunTrigger(c) => at' = at
  BY DEF MoveRefused, RowRefused, KeyConflict, GodownConflict, NoChallan, NumberConflict, Unbalanced, Fail, Abort,
         RunTrigger
<1>2. at' = at => Answers(c)
  BY DEF Answers, Passes
<1>3. Begin(c) => Answers(c)
  BY DEF Begin, Answers, Passes, Doing, Open
<1>4. Move(c) => Answers(c)
  BY DEF Move, Answers, Passes, Doing, Inward, Outward, Consuming
<1>5. TaxEntries(c) \/ Challan(c) \/ Journal(c) \/ FindGodown(c) \/ ClaimGodown(c) => Answers(c)
  <2>1. TaxEntries(c) \/ Challan(c) \/ Journal(c) \/ FindGodown(c) \/ ClaimGodown(c) =>
           \E w \in {"taxEntries", "challan", "journal", "findGodown", "claimGodown"} : Doing(c, w)
    BY DEF TaxEntries, Challan, Journal, FindGodown, ClaimGodown
  <2> QED
    BY <2>1, SaysOne DEF Answers, Passes
<1>6. FindKey(c) => Answers(c)
  <2>1. FindKey(c) => Doing(c, "findKey")
    BY DEF FindKey
  <2> QED
    BY <2>1, SaysOne DEF Answers, Passes
<1>7. ClaimKey(c) => Answers(c)
  <2>1. ClaimKey(c) => Doing(c, "claimKey")
    BY DEF ClaimKey
  <2> QED
    BY <2>1, SaysOne DEF Answers, Passes
<1>8. FindChallan(c) => Answers(c)
  <2>1. FindChallan(c) => Doing(c, "findChallan")
    BY DEF FindChallan
  <2> QED
    BY <2>1, SaysOne DEF Answers, Passes
<1>9. Receipt(c) => Answers(c)
  <2>1. Receipt(c) => Doing(c, "receipt")
    BY DEF Receipt
  <2> QED
    BY <2>1, SaysOne DEF Answers, Passes
<1>10. ReadStatus(c) => Answers(c)
  <2>1. ReadStatus(c) => Doing(c, "readStatus")
    BY DEF ReadStatus
  <2> QED
    BY <2>1, SaysOne DEF Answers, Passes
<1>11. WriteStatus(c) => Answers(c)
  <2>1. WriteStatus(c) => Doing(c, "writeStatus")
    BY DEF WriteStatus
  <2> QED
    BY <2>1, SaysOne DEF Answers, Passes
<1>12. Number(c) => Answers(c)
  <2>1. Number(c) => Doing(c, "number")
    BY DEF Number
  <2> QED
    BY <2>1, SaysOne DEF Answers, Passes
<1>13. Invoice(c) => Answers(c)
  <2>1. Invoice(c) => Doing(c, "invoice")
    BY DEF Invoice
  <2> QED
    BY <2>1, SaysOne DEF Answers, Passes
<1> QED
  BY <1>1, <1>2, <1>3, <1>4, <1>5, <1>6, <1>7, <1>8, <1>9, <1>10, <1>11, <1>12, <1>13 DEF TradingStep

(* What a step does to its call, and that the others keep what they have.   *)
Kept(d) ==
    /\ at'[d] = at[d] /\ ended'[d] = ended[d] /\ paper'[d] = paper[d]
    /\ stage'[d] = stage[d] /\ moving'[d] = moving[d] /\ tx'[d] = tx[d]
TablesKept ==
    /\ posted' = posted /\ taxed' = taxed /\ journals' = journals /\ challans' = challans
    /\ receipts' = receipts /\ invoices' = invoices /\ moved' = moved

Begun(c) ==
    /\ at[c] = 0 /\ c \in Asking /\ at'[c] = 1 /\ ended'[c] = ended[c] /\ paper'[c] = paper[c]
    /\ stage'[c] = stage[c] /\ moving'[c] = moving[c] /\ tx'[c] = tx[c]
RolledBack(c) ==
    /\ Open(c) /\ at'[c] = at[c] /\ ended'[c] = "failed" /\ paper'[c] = Blank
    /\ stage'[c] = "none" /\ tx'[c] = Nothing
Triggered(c) ==
    /\ stage[c] # "none" /\ at'[c] = at[c] /\ ended'[c] = ended[c] /\ paper'[c] = paper[c]
    /\ \/ stage'[c] # "none" /\ moving'[c] = moving[c] /\ tx'[c].moved = tx[c].moved
       \/ stage'[c] = "none" /\ tx'[c].moved = tx[c].moved \cup {moving[c]}
Inserted(c) ==
    /\ Open(c) /\ stage[c] = "none" /\ at[c] <= Len(Steps(c)) /\ Moving(Steps(c)[at[c]])
    /\ at'[c] = at[c] + 1 /\ ended'[c] = ended[c] /\ paper'[c] = paper[c]
    /\ stage'[c] = "check" /\ moving'[c].n = at[c] /\ tx'[c] = tx[c]
Spoke(c) ==
    /\ \E w \in Words : Doing(c, w) /\ (at'[c] = at[c] + 1 \/ (at'[c] = at[c] + 2 /\ w \in Finds))
    /\ ended'[c] = ended[c] /\ stage'[c] = stage[c] /\ moving'[c] = moving[c] /\ tx'[c] = tx[c]
    /\ WritesItsOwn(c)
Served(c) == Begun(c) \/ RolledBack(c) \/ Triggered(c) \/ Inserted(c) \/ Spoke(c)

Alone(c) == PapersAre' /\ TablesKept /\ setting' = setting /\ \A d \in Call \ {c} : Kept(d)

LEMMA BeginServes ==
    ASSUME StockInv, PapersAre, NEW c \in Call, Begin(c), setting' = setting PROVE Alone(c) /\ Begun(c)
<1>0. CallsAre
  BY DEF StockInv
<1>1. /\ at[c] = 0 /\ c \in Asking /\ at' = [at EXCEPT ![c] = 1]
      /\ ended' = ended /\ paper' = paper /\ stage' = stage /\ moving' = moving /\ tx' = tx
  BY DEF Begin, stockVars
<1>2. TablesKept
  BY DEF Begin, TablesKept, papers, stockVars
<1>3. at'[c] = 1 /\ \A d \in Call \ {c} : at'[d] = at[d]
  BY <1>0, <1>1 DEF CallsAre
<1>4. PapersAre'
  BY <1>1 DEF PapersAre, IsPaper
<1> QED
  BY <1>1, <1>2, <1>3, <1>4 DEF Alone, Begun, Kept

LEMMA AbortServes ==
    ASSUME StockInv, PapersAre, NEW c \in Call, Open(c), Abort(c), setting' = setting
    PROVE  Alone(c) /\ RolledBack(c)
<1>0. CallsAre
  BY DEF StockInv
<1>1. /\ at' = at /\ ended' = [ended EXCEPT ![c] = "failed"] /\ paper' = [paper EXCEPT ![c] = Blank]
      /\ stage' = [stage EXCEPT ![c] = "none"] /\ moving' = [moving EXCEPT ![c] = Idle]
      /\ tx' = [tx EXCEPT ![c] = Nothing]
  BY DEF Abort, Undo
<1>2. TablesKept
  BY DEF Abort, Undo, TablesKept, papers, stockTables
<1>3. /\ at'[c] = at[c] /\ ended'[c] = "failed" /\ paper'[c] = Blank
      /\ stage'[c] = "none" /\ tx'[c] = Nothing
      /\ \A d \in Call \ {c} : Kept(d)
  BY <1>0, <1>1 DEF CallsAre, PapersAre, Kept
<1>4. PapersAre'
  <2>1. IsPaper(Blank)
    BY DEF IsPaper, Blank
  <2>2. paper' = [d \in Call |-> paper'[d]]
    BY <1>1 DEF PapersAre
  <2>3. \A d \in Call : paper'[d] = Blank \/ paper'[d] = paper[d]
    BY <1>3 DEF Kept
  <2>4. ASSUME NEW d \in Call PROVE IsPaper(paper'[d])
    BY <2>1, <2>3 DEF PapersAre
  <2> QED
    BY <2>2, <2>4 DEF PapersAre
<1> QED
  BY <1>2, <1>3, <1>4 DEF Alone, RolledBack

LEMMA MoveServes ==
    ASSUME StockInv, PapersAre, NEW c \in Call, Move(c), setting' = setting PROVE Alone(c) /\ Inserted(c)
<1>0. CallsAre
  BY DEF StockInv
<1>1. PICK s : s = Steps(c)[at[c]]
  OBVIOUS
<1>2. Open(c) /\ at[c] <= Len(Steps(c)) /\ Moving(s) /\ Insert(c, at[c], s.do, s.bin, s.qty) /\ Advance(c) /\ paper' = paper
  BY <1>1 DEF Move, Moving
<1>3. PICK m : m = [by |-> c, n |-> at[c], kind |-> s.do, bin |-> s.bin, qty |-> s.qty]
  OBVIOUS
<1>4. /\ stage[c] = "none" /\ stage' = [stage EXCEPT ![c] = "check"] /\ moving' = [moving EXCEPT ![c] = m] /\ tx' = tx
      /\ at' = [at EXCEPT ![c] = at[c] + 1] /\ ended' = ended
  BY <1>2, <1>3 DEF Insert, Advance
<1>5. TablesKept
  BY <1>2 DEF Insert, Advance, TablesKept, papers, stockTables
<1>6. m.n = at[c]
  BY <1>3
<1>7. /\ at'[c] = at[c] + 1 /\ stage'[c] = "check" /\ moving'[c] = m
      /\ \A d \in Call \ {c} : Kept(d)
  BY <1>0, <1>2, <1>4 DEF CallsAre, Kept
<1>8. PapersAre'
  BY <1>2 DEF PapersAre, IsPaper
<1> QED
  BY <1>1, <1>2, <1>4, <1>5, <1>6, <1>7, <1>8 DEF Alone, Inserted

LEMMA SpeaksServes ==
    ASSUME StockInv, PapersAre, NEW c \in Call, Speaks(c), WritesItsOwn(c), setting' = setting
    PROVE  Alone(c) /\ Spoke(c)
<1>0. CallsAre
  BY DEF StockInv
<1>1. /\ at' = [at EXCEPT ![c] = at'[c]] /\ paper' = [paper EXCEPT ![c] = paper'[c]] /\ IsPaper(paper'[c])
      /\ ended' = ended /\ stage' = stage /\ moving' = moving /\ tx' = tx
  BY DEF Speaks, Scribbles, stockVars
<1>2. TablesKept
  BY DEF Speaks, Scribbles, TablesKept, papers, stockVars
<1>3. \A d \in Call \ {c} : at'[d] = at[d] /\ paper'[d] = paper[d]
  <2>1. PICK n, p : n = at'[c] /\ p = paper'[c]
    OBVIOUS
  <2>2. at' = [at EXCEPT ![c] = n] /\ paper' = [paper EXCEPT ![c] = p]
    BY <1>1, <2>1
  <2> QED
    BY <1>0, <2>2 DEF CallsAre, PapersAre
<1>4. PapersAre'
  <2>1. paper' = [d \in Call |-> paper'[d]]
    BY <1>1 DEF PapersAre
  <2>2. ASSUME NEW d \in Call PROVE IsPaper(paper'[d])
    BY <1>1, <1>3 DEF PapersAre
  <2> QED
    BY <2>1, <2>2 DEF PapersAre
<1>5. Spoke(c)
  BY <1>1 DEF Spoke, Speaks
<1> QED
  BY <1>1, <1>2, <1>3, <1>4, <1>5 DEF Alone, Kept

LEMMA TriggerServes ==
    ASSUME StockInv, PapersAre, NEW c \in Call, RunTrigger(c), setting' = setting PROVE Alone(c) /\ Triggered(c)
<1>0. CallsAre /\ IsTx(tx[c])
  BY DEF StockInv, EachCall, CallIs
<1>1. at' = at /\ ended' = ended /\ paper' = paper /\ Trigger(c)
  BY DEF RunTrigger
<1>2. TablesKept
  BY DEF RunTrigger, Trigger, TablesKept, papers, CheckQuantity, CreateLayer, OpenLayers, TakeLayers, UpdateValuation,
         stockTables
<1>3. PapersAre'
  BY <1>1 DEF PapersAre, IsPaper
<1>4. \/ \E st, t : /\ stage[c] # "none" /\ st # "none" /\ t.moved = tx[c].moved
                    /\ stage' = [stage EXCEPT ![c] = st] /\ moving' = moving /\ tx' = [tx EXCEPT ![c] = t]
      \/ \E t : /\ stage[c] # "none" /\ t.moved = tx[c].moved \cup {moving[c]}
                /\ stage' = [stage EXCEPT ![c] = "none"] /\ moving' = [moving EXCEPT ![c] = Idle]
                /\ tx' = [tx EXCEPT ![c] = t]
  <2>1. CASE CheckQuantity(c)
    <3>1. NextStage(c) \in {"layer", "open", "value"}
      BY DEF NextStage
    <3>2. PICK t : t = tx[c]
      OBVIOUS
    <3>3. stage[c] # "none" /\ tx' = [tx EXCEPT ![c] = t] /\ stage' = [stage EXCEPT ![c] = NextStage(c)] /\ moving' = moving
      BY <1>0, <2>1, <3>2 DEF CheckQuantity, CallsAre
    <3> QED
      BY <3>1, <3>2, <3>3
  <2>2. CASE CreateLayer(c)
    <3>1. PICK e : e = Put(tx[c].fresh, lastLayer + 1, [bin |-> moving[c].bin, left |-> moving[c].qty])
      OBVIOUS
    <3>2. PICK t : t = [tx[c] EXCEPT !.fresh = e]
      OBVIOUS
    <3>3. tx' = [tx EXCEPT ![c].fresh = e]
      BY <1>0, <2>2, <3>1 DEF CreateLayer, CallsAre
    <3>4. tx' = [tx EXCEPT ![c] = t] /\ t.moved = tx[c].moved
      BY <1>0, <3>2, <3>3 DEF CallsAre, IsTx
    <3>5. stage[c] # "none" /\ stage' = [stage EXCEPT ![c] = "value"] /\ moving' = moving
      BY <2>2 DEF CreateLayer
    <3> QED
      BY <3>4, <3>5
  <2>3. CASE OpenLayers(c)
    <3>1. PICK e : e = {l \in Visible(c) : Layer(c, l).bin = moving[c].bin /\ Left(c, l) > 0}
      OBVIOUS
    <3>2. PICK t : t = [tx[c] EXCEPT !.cursor = e]
      OBVIOUS
    <3>3. tx' = [tx EXCEPT ![c].cursor = e]
      BY <2>3, <3>1 DEF OpenLayers
    <3>4. tx' = [tx EXCEPT ![c] = t] /\ t.moved = tx[c].moved
      BY <1>0, <3>2, <3>3 DEF CallsAre, IsTx
    <3>5. stage[c] # "none" /\ stage' = [stage EXCEPT ![c] = "take"] /\ moving' = moving
      BY <2>3 DEF OpenLayers
    <3> QED
      BY <3>4, <3>5
  <2>4. CASE TakeLayers(c)
    <3>1. PICK e, h : /\ e = [l \in DOMAIN tx[c].taken \cup Alive(c) |->
                                 At(tx[c].taken, l) + (IF l \in Alive(c) THEN Share(c, l) ELSE 0)]
                      /\ h = tx[c].held \cup Alive(c)
      OBVIOUS
    <3>2. PICK t : t = [tx[c] EXCEPT !.taken = e, !.held = h, !.cursor = {}]
      OBVIOUS
    <3>3. tx' = [tx EXCEPT ![c].taken = e, ![c].held = h, ![c].cursor = {}]
      BY <1>0, <2>4, <3>1 DEF TakeLayers, CallsAre
    <3>4. tx' = [tx EXCEPT ![c] = t] /\ t.moved = tx[c].moved
      BY <1>0, <3>2, <3>3 DEF CallsAre, IsTx
    <3>5. stage[c] # "none" /\ stage' = [stage EXCEPT ![c] = "value"] /\ moving' = moving
      BY <2>4 DEF TakeLayers
    <3> QED
      BY <3>4, <3>5
  <2>5. CASE UpdateValuation(c)
    <3>1. \E e : tx' = [tx EXCEPT ![c].delta = e, ![c].moved = tx[c].moved \cup {moving[c]}]
      BY <1>0, <2>5 DEF UpdateValuation, CallsAre
    <3>2. PICK e, h : tx' = [tx EXCEPT ![c].delta = e, ![c].moved = h] /\ h = tx[c].moved \cup {moving[c]}
      BY <3>1
    <3>3. PICK t : t = [tx[c] EXCEPT !.delta = e, !.moved = h]
      OBVIOUS
    <3>4. tx' = [tx EXCEPT ![c] = t] /\ t.moved = h
      BY <1>0, <3>2, <3>3 DEF CallsAre, IsTx
    <3>5. stage[c] # "none" /\ stage' = [stage EXCEPT ![c] = "none"] /\ moving' = [moving EXCEPT ![c] = Idle]
      BY <2>5 DEF UpdateValuation
    <3> QED
      BY <3>2, <3>4, <3>5
  <2> QED
    BY <1>1, <2>1, <2>2, <2>3, <2>4, <2>5 DEF Trigger
<1>5. Triggered(c) /\ \A d \in Call \ {c} : Kept(d)
  BY <1>0, <1>1, <1>4 DEF Triggered, Kept, CallsAre
<1> QED
  BY <1>2, <1>3, <1>5 DEF Alone

LEMMA StepServes ==
    ASSUME StockInv, PapersAre, NEW c \in Call, TradingStep(c), ~Commit(c), setting' = setting
    PROVE  Alone(c) /\ Served(c) /\ Answers(c)
<1>1. at \in [Call -> Nat]
  BY DEF StockInv, CallsAre
<1>2. Answers(c)
  BY Answered
<1>3. CASE Begin(c)
  BY <1>2, <1>3, BeginServes DEF Served
<1>4. CASE Move(c)
  BY <1>2, <1>4, MoveServes DEF Served
<1>5. CASE RunTrigger(c)
  BY <1>2, <1>5, TriggerServes DEF Served
<1>6. CASE Open(c) /\ Abort(c)
  BY <1>2, <1>6, AbortServes DEF Served
<1>7. CASE Speaks(c) /\ ~Abort(c) /\ ~Begin(c) /\ ~Move(c) /\ ~RunTrigger(c)
  <2>1. WritesItsOwn(c)
    BY <1>7, Spoken
  <2> QED
    BY <1>2, <1>7, <2>1, SpeaksServes DEF Served
<1>8. Speaks(c) => Open(c)
  BY DEF Speaks, Doing
<1> QED
  BY <1>1, <1>3, <1>4, <1>5, <1>6, <1>7, <1>8, StepForms

(* A commit.                                                                *)
Concluded(c) ==
    /\ Open(c) /\ stage[c] = "none" /\ at[c] = Len(Steps(c)) + 1
    /\ PapersAre' /\ setting' = setting /\ \A d \in Call \ {c} : Kept(d)
    /\ at'[c] = at[c] /\ ended'[c] = "committed" /\ paper'[c] = Blank
    /\ stage'[c] = "none" /\ tx'[c] = Nothing /\ moved' = moved \cup tx[c].moved

LEMMA CommitConcludes ==
    ASSUME StockInv, PapersAre, NEW c \in Call, Commit(c), setting' = setting PROVE Concluded(c)
<1>0. CallsAre
  BY DEF StockInv
<1>1. /\ at' = at /\ ended' = [ended EXCEPT ![c] = "committed"] /\ paper' = [paper EXCEPT ![c] = Blank]
      /\ stage' = stage /\ moving' = moving /\ tx' = [tx EXCEPT ![c] = Nothing] /\ moved' = moved \cup tx[c].moved
  BY DEF Commit, StockCommit
<1>2. Open(c) /\ stage[c] = "none" /\ at[c] = Len(Steps(c)) + 1
  BY DEF Commit, AtCommit
<1>3. /\ ended'[c] = "committed" /\ paper'[c] = Blank /\ tx'[c] = Nothing
      /\ \A d \in Call \ {c} : Kept(d)
  BY <1>0, <1>1 DEF CallsAre, PapersAre, Kept
<1>4. PapersAre'
  <2>1. IsPaper(Blank)
    BY DEF IsPaper, Blank
  <2>2. paper' = [d \in Call |-> paper'[d]]
    BY <1>1 DEF PapersAre
  <2>3. \A d \in Call : paper'[d] = Blank \/ paper'[d] = paper[d]
    BY <1>3 DEF Kept
  <2>4. ASSUME NEW d \in Call PROVE IsPaper(paper'[d])
    BY <2>1, <2>3 DEF PapersAre
  <2> QED
    BY <2>2, <2>4 DEF PapersAre
<1> QED
  BY <1>1, <1>2, <1>3, <1>4 DEF Concluded

-----------------------------------------------------------------------------
(* Where a call stands: it has moved what it is past, ...                   *)
Numbers(ms) == {m.n : m \in ms}
Passed(c) ==
    Numbers(tx[c].moved) \cup (IF stage[c] = "none" THEN {} ELSE {moving[c].n}) =
        {i \in MoveSteps(c) : i < at[c]}
Here(c) ==
    /\ at[c] = 0 => ended[c] = "no"
    /\ at[c] > 0 => at[c] <= Len(Steps(c)) + 1
    /\ ~Open(c) => stage[c] = "none" /\ tx[c] = Nothing /\ paper[c] = Blank
    /\ Open(c) => Passed(c)

LEMMA StepsStay ==
    ASSUME setting' = setting, NEW c
    PROVE  Steps(c)' = Steps(c) /\ MoveSteps(c)' = MoveSteps(c) /\ Asked' = Asked /\ Asking' = Asking
<1>1. Asked' = Asked
  BY DEF Asked
<1>2. Asking' = Asking
  BY <1>1 DEF Asking
<1>3. Steps(c)' = Steps(c)
  BY <1>1 DEF Steps
<1> QED
  BY <1>1, <1>2, <1>3 DEF MoveSteps

LEMMA MoveStepsAre ==
    ASSUME CallsAre, NEW c \in Call, at[c] > 0
    PROVE  /\ Len(Steps(c)) \in Nat /\ Steps(c) \in Seq(Statement) /\ Laid(Asked[c].kind, Steps(c))
           /\ \A i : i \in MoveSteps(c) <=> i \in 1 .. Len(Steps(c)) /\ Moving(Steps(c)[i])
<1>1. c \in Asking /\ setting \in Settings
  BY DEF CallsAre
<1>2. PICK all : all = Steps(c)
  OBVIOUS
<1>3. Laid(Asked[c].kind, all) /\ all \in Seq(Statement)
  BY <1>1, <1>2, StepsLaid DEF Laid
<1>4. Len(all) \in Nat /\ DOMAIN all = 1 .. Len(all)
  BY <1>3
<1> QED
  BY <1>2, <1>3, <1>4 DEF MoveSteps, Moving

LEMMA KeptHere == ASSUME NEW c, Kept(c), setting' = setting, Here(c) PROVE Here(c)'
<1>1. Steps(c)' = Steps(c) /\ MoveSteps(c)' = MoveSteps(c)
  BY StepsStay
<1>2. (Passed(c))' <=> Passed(c)
  BY <1>1 DEF Kept, Passed
<1>3. (Open(c))' <=> Open(c)
  BY DEF Open, Kept
<1> QED
  BY <1>1, <1>2, <1>3 DEF Here, Kept

LEMMA ServedHere ==
    ASSUME StockInv, NEW c \in Call, Served(c), setting' = setting, Here(c) PROVE Here(c)'
<1>0. CallsAre /\ at[c] \in Nat
  BY DEF StockInv, CallsAre
<1>1. PICK n, st, t, m : n = at[c] /\ st = stage[c] /\ t = tx[c] /\ m = moving[c]
  OBVIOUS
<1>2. PICK all, M : all = Steps(c) /\ M = MoveSteps(c)
  OBVIOUS
<1>3. Steps(c)' = all /\ MoveSteps(c)' = M
  BY <1>2, StepsStay
<1>4. n \in Nat
  BY <1>0, <1>1
<1>5. ASSUME at'[c] > 0 /\ (n > 0 \/ c \in Asking) PROVE
         /\ Len(all) \in Nat /\ Laid(Asked[c].kind, all)
         /\ \A i : i \in M <=> i \in 1 .. Len(all) /\ Moving(all[i])
  <2>1. c \in Asking /\ setting \in Settings
    BY <1>0, <1>1, <1>5 DEF CallsAre
  <2>2. Laid(Asked[c].kind, all) /\ all \in Seq(Statement)
    BY <1>2, <2>1, StepsLaid DEF Laid
  <2>3. Len(all) \in Nat /\ DOMAIN all = 1 .. Len(all)
    BY <2>2
  <2> QED
    BY <1>2, <2>2, <2>3 DEF MoveSteps, Moving
<1>6. CASE Begun(c)
  <2>1. n = 0 /\ at'[c] = 1 /\ ended'[c] = "no" /\ stage'[c] = "none" /\ tx'[c] = Nothing /\ ~Open(c)
    BY <1>1, <1>6 DEF Begun, Here, Open
  <2>2. Len(all) \in Nat /\ \A i : i \in M <=> i \in 1 .. Len(all) /\ Moving(all[i])
    BY <1>5, <1>6, <2>1 DEF Begun
  <2>3. {i \in M : i < 1} = {}
    BY <2>2
  <2>4. (Passed(c))'
    BY <1>3, <2>1, <2>3 DEF Passed, Numbers, Nothing
  <2>5. (Open(c))'
    BY <2>1 DEF Open
  <2> QED
    BY <1>3, <2>1, <2>2, <2>4, <2>5 DEF Here
<1>7. CASE RolledBack(c)
  <2>1. ~(Open(c))' /\ at[c] > 0
    BY <1>7 DEF RolledBack, Open
  <2> QED
    BY <1>2, <1>3, <1>7, <2>1 DEF RolledBack, Here
<1>8. CASE Triggered(c)
  <2>1. Open(c) /\ (Open(c))' /\ st # "none"
    BY <1>1, <1>8 DEF Here, Triggered, Open
  <2>2. Numbers(t.moved) \cup {m.n} = {i \in M : i < n}
    BY <1>1, <1>2, <2>1 DEF Here, Passed
  <2>3. Numbers(t.moved \cup {m}) = Numbers(t.moved) \cup {m.n}
    BY DEF Numbers
  <2>4. \/ stage'[c] # "none" /\ moving'[c] = m /\ tx'[c].moved = t.moved
        \/ stage'[c] = "none" /\ tx'[c].moved = t.moved \cup {m}
    BY <1>1, <1>8 DEF Triggered
  <2>5. Numbers(tx'[c].moved) \cup (IF stage'[c] = "none" THEN {} ELSE {moving'[c].n}) = {i \in M : i < n}
    BY <2>2, <2>3, <2>4
  <2>6. at'[c] = n /\ ended'[c] = ended[c]
    BY <1>1, <1>8 DEF Triggered
  <2>7. (Passed(c))'
    BY <1>3, <2>5, <2>6 DEF Passed
  <2> QED
    BY <1>1, <1>2, <1>3, <2>1, <2>6, <2>7 DEF Here
<1>9. CASE Inserted(c)
  <2>1. Open(c) /\ st = "none" /\ n <= Len(all) /\ n > 0 /\ Moving(all[n])
    BY <1>0, <1>1, <1>2, <1>9 DEF Inserted, Open
  <2>2. at'[c] = n + 1 /\ ended'[c] = ended[c] /\ stage'[c] = "check" /\ moving'[c].n = n /\ tx'[c] = t
    BY <1>1, <1>9 DEF Inserted
  <2>3. (Open(c))' /\ at'[c] > 0
    BY <1>4, <2>1, <2>2 DEF Open
  <2>4. Len(all) \in Nat /\ \A i : i \in M <=> i \in 1 .. Len(all) /\ Moving(all[i])
    BY <1>5, <2>1, <2>3
  <2>5. {i \in M : i < n + 1} = {i \in M : i < n} \cup {n}
    BY <1>4, <2>1, <2>4
  <2>6. Numbers(t.moved) = {i \in M : i < n}
    BY <1>1, <1>2, <2>1 DEF Here, Passed
  <2>7. (Passed(c))'
    BY <1>3, <2>2, <2>5, <2>6 DEF Passed
  <2>8. n + 1 <= Len(all) + 1
    BY <1>4, <2>1, <2>4
  <2> QED
    BY <1>3, <1>4, <2>2, <2>3, <2>7, <2>8 DEF Here
<1>10. CASE Spoke(c)
  <2>1. PICK w \in Words : Doing(c, w) /\ (at'[c] = at[c] + 1 \/ (at'[c] = at[c] + 2 /\ w \in Finds))
    BY <1>10 DEF Spoke
  <2>2. Open(c) /\ st = "none" /\ n <= Len(all) /\ n > 0 /\ all[n].do = w
    BY <1>0, <1>1, <1>2, <2>1 DEF Doing, Open
  <2>3. (at'[c] = n + 1 \/ (at'[c] = n + 2 /\ w \in Finds)) /\ ended'[c] = ended[c] /\ stage'[c] = "none" /\ tx'[c] = t
    BY <1>1, <1>10, <2>1, <2>2 DEF Spoke
  <2>4. (Open(c))' /\ at'[c] > 0
    BY <1>4, <2>2, <2>3 DEF Open
  <2>5. Len(all) \in Nat /\ Skips(all) /\ \A i : i \in M <=> i \in 1 .. Len(all) /\ Moving(all[i])
    BY <1>5, <2>2, <2>4 DEF Laid
  <2>6. ~Moving(all[n])
    BY <2>2, WordsStay
  <2>7. Numbers(t.moved) = {i \in M : i < n}
    BY <1>1, <1>2, <2>2 DEF Here, Passed
  <2>8. {i \in M : i < at'[c]} = {i \in M : i < n} /\ at'[c] <= Len(all) + 1
    <3>1. CASE at'[c] = n + 1
      <4>1. {i \in M : i < n + 1} = {i \in M : i < n}
        BY <1>4, <2>5, <2>6
      <4> QED
        BY <1>4, <2>2, <2>5, <3>1, <4>1
    <3>2. CASE at'[c] = n + 2 /\ w \in Finds
      <4>1. n \in 1 .. Len(all)
        BY <1>4, <2>2, <2>5
      <4>2. n + 1 <= Len(all) /\ ~Moving(all[n + 1])
        BY <2>2, <2>5, <3>2, <4>1 DEF Skips
      <4>3. \A i \in M : i < n + 2 => i < n
        BY <1>4, <2>5, <2>6, <4>2
      <4>4. {i \in M : i < n + 2} = {i \in M : i < n}
        BY <1>4, <2>5, <4>3
      <4> QED
        BY <1>4, <2>5, <3>2, <4>2, <4>4
    <3> QED
      BY <2>3, <3>1, <3>2
  <2>9. (Passed(c))'
    BY <1>3, <2>3, <2>7, <2>8 DEF Passed
  <2> QED
    BY <1>3, <2>3, <2>4, <2>8, <2>9 DEF Here
<1> QED
  BY <1>6, <1>7, <1>8, <1>9, <1>10 DEF Served

LEMMA ConcludedHere == ASSUME NEW c \in Call, Concluded(c), Here(c) PROVE Here(c)'
<1>1. ~(Open(c))' /\ at[c] > 0
  BY DEF Concluded, Open
<1>2. Steps(c)' = Steps(c)
  BY StepsStay DEF Concluded
<1> QED
  BY <1>1, <1>2 DEF Concluded, Here

(* ... a sale past its second statement has a key, its own or one it found, *)
(* and what is committed is whole.                                          *)
KeyStands(c) ==
    Open(c) /\ Asked[c].kind = "sale" /\ at[c] > 2 =>
        Known(Asked[c].key) \/ paper[c].key = Asked[c].key
Did(c, kind) == ended[c] = "committed" /\ Asked[c].kind = kind
Atomic(c) ==
    /\ Numbers(MovesOf(c)) = IF ended[c] = "committed" THEN MoveSteps(c) ELSE {}
    /\ c \in taxed <=> Did(c, "sale")
    /\ c \in taxed => Known(Asked[c].key)
    /\ c \in journals <=> Did(c, "produce")
    /\ c \in DOMAIN challans <=> Did(c, "sendOut")

LEMMA KeptKey ==
    ASSUME NEW c, Kept(c), setting' = setting, posted \subseteq posted', KeyStands(c) PROVE KeyStands(c)'
<1>1. Asked' = Asked
  BY DEF Asked
<1>2. (Open(c))' <=> Open(c)
  BY DEF Open, Kept
<1>3. Known(Asked[c].key) => (Known(Asked[c].key))'
  BY <1>1 DEF Known
<1> QED
  BY <1>1, <1>2, <1>3 DEF KeyStands, Kept

LEMMA KeyClaimed ==
    ASSUME PapersAre, NEW c \in Call, ClaimKey(c) PROVE paper'[c].key = Asked[c].key
<1>1. IsPaper(paper[c]) /\ paper = [d \in Call |-> paper[d]]
  BY DEF PapersAre
<1>2. Write(c, "key", Asked[c].key)
  BY DEF ClaimKey
<1> QED
  BY <1>1, <1>2 DEF Write, IsPaper

LEMMA ServedKey ==
    ASSUME StockInv, PapersAre, NEW c \in Call, Served(c), Answers(c), TablesKept, setting' = setting,
           Here(c), KeyStands(c)
    PROVE  KeyStands(c)'
<1>0. CallsAre /\ at[c] \in Nat
  BY DEF StockInv, CallsAre
<1>1. Asked' = Asked
  BY DEF Asked
<1>2. Known(Asked[c].key)' <=> Known(Asked[c].key)
  BY <1>1 DEF Known, TablesKept
<1>3. SUFFICES ASSUME (Open(c))', Asked[c].kind = "sale", at'[c] > 2
               PROVE  Known(Asked[c].key) \/ paper'[c].key = Asked[c].key
  BY <1>1, <1>2 DEF KeyStands
<1>4. CASE Begun(c)
  BY <1>3, <1>4 DEF Begun
<1>5. CASE RolledBack(c)
  BY <1>3, <1>5 DEF RolledBack, Open
<1>6. CASE Triggered(c)
  <2>1. Open(c) /\ at[c] > 2 /\ paper'[c] = paper[c]
    BY <1>3, <1>6 DEF Triggered, Here
  <2> QED
    BY <1>3, <2>1 DEF KeyStands
<1>7. CASE (Inserted(c) \/ Spoke(c)) /\ at[c] > 2
  <2>1. Open(c) /\ (ClaimKey(c) \/ paper'[c].key = paper[c].key)
    BY <1>7 DEF Inserted, Spoke, Doing, WritesItsOwn
  <2>2. Known(Asked[c].key) \/ paper[c].key = Asked[c].key
    BY <1>3, <1>7, <2>1 DEF KeyStands
  <2> QED
    BY <2>1, <2>2, KeyClaimed
<1>8. CASE (Inserted(c) \/ Spoke(c)) /\ at[c] <= 2
  <2>1. Open(c) /\ at[c] > 0 /\ stage[c] = "none" /\ at[c] <= Len(Steps(c))
    BY <1>8 DEF Inserted, Spoke, Doing, Open
  <2>2. Steps(c)[1].do = "findKey" /\ Steps(c)[2].do = "claimKey"
    <3>1. Laid("sale", Steps(c))
      BY <1>0, <1>3, <2>1, MoveStepsAre
    <3> QED
      BY <3>1 DEF Laid, Ordered
  <2>3. at'[c] # at[c]
    BY <1>0, <1>3, <1>8
  <2>4. CASE at[c] = 1
    <3>1. Passes(c, "findKey")
      BY <2>1, <2>2, <2>3, <2>4 DEF Passes, Doing
    <3>2. FindKey(c)
      BY <3>1 DEF Answers
    <3>3. at' = [at EXCEPT ![c] = IF Known(Asked[c].key) THEN at[c] + 2 ELSE at[c] + 1]
      BY <3>2 DEF FindKey
    <3>4. Known(Asked[c].key) \/ at'[c] = 2
      BY <1>0, <2>4, <3>3 DEF CallsAre
    <3> QED
      BY <1>3, <3>4
  <2>5. CASE at[c] = 2
    <3>1. Passes(c, "claimKey")
      BY <2>1, <2>2, <2>3, <2>5 DEF Passes, Doing
    <3>2. ClaimKey(c)
      BY <3>1 DEF Answers
    <3> QED
      BY <3>2, KeyClaimed
  <2> QED
    BY <1>0, <1>8, <2>1, <2>4, <2>5
<1> QED
  BY <1>0, <1>4, <1>5, <1>6, <1>7, <1>8 DEF Served

LEMMA KeptAtomic ==
    ASSUME TablesKept, setting' = setting, NEW c,
           (ended'[c] = "committed") <=> (ended[c] = "committed"), Atomic(c)
    PROVE  Atomic(c)'
<1>1. Asked' = Asked /\ MoveSteps(c)' = MoveSteps(c)
  BY StepsStay
<1>2. Known(Asked[c].key)' <=> Known(Asked[c].key)
  BY <1>1 DEF Known, TablesKept
<1>3. MovesOf(c)' = MovesOf(c)
  BY DEF MovesOf, TablesKept
<1>4. \A kind : (Did(c, kind))' <=> Did(c, kind)
  BY <1>1 DEF Did
<1>5. taxed' = taxed /\ journals' = journals /\ challans' = challans
  BY DEF TablesKept
<1> QED
  BY <1>1, <1>2, <1>3, <1>4, <1>5 DEF Atomic

LEMMA ServedAtomic ==
    ASSUME NEW c \in Call, Served(c), TablesKept, setting' = setting, Here(c), Atomic(c) PROVE Atomic(c)'
<1>1. (ended'[c] = "committed") <=> (ended[c] = "committed")
  BY DEF Served, Begun, RolledBack, Triggered, Inserted, Spoke, Open
<1> QED
  BY <1>1, KeptAtomic

(* The tables after a commit.                                               *)
LEMMA DomainPut == ASSUME NEW f, NEW x, NEW v PROVE DOMAIN Put(f, x, v) = DOMAIN f \cup {x}
  BY DEF Put

LEMMA CommitTables ==
    ASSUME NEW c \in Call, Commit(c)
    PROVE  /\ posted \subseteq posted' /\ (paper[c].key # "none" => [key |-> paper[c].key, by |-> c] \in posted')
           /\ taxed' = With(taxed, c, "sale") /\ journals' = With(journals, c, "produce")
           /\ DOMAIN challans' = IF Asked[c].kind = "sendOut" THEN DOMAIN challans \cup {c} ELSE DOMAIN challans
<1>1. posted \subseteq posted' /\ (paper[c].key # "none" => [key |-> paper[c].key, by |-> c] \in posted')
  BY DEF Commit
<1>2. taxed' = With(taxed, c, "sale") /\ journals' = With(journals, c, "produce")
  BY DEF Commit
<1>3. CASE Asked[c].kind = "sendOut"
  <2>1. challans' = Put(challans, c, NewChallan(c))
    BY <1>3 DEF Commit
  <2> QED
    BY <1>1, <1>2, <1>3, <2>1, DomainPut
<1>4. CASE Asked[c].kind = "receive"
  <2>1. challans' = [challans EXCEPT ![Asked[c].of].received = Received(c), ![Asked[c].of].status = paper[c].status]
    BY <1>4 DEF Commit
  <2> QED
    BY <1>1, <1>2, <1>4, <2>1
<1>5. CASE Asked[c].kind \notin {"sendOut", "receive"}
  <2>1. challans' = challans
    BY <1>5 DEF Commit
  <2> QED
    BY <1>1, <1>2, <1>5, <2>1
<1> QED
  BY <1>3, <1>4, <1>5

LEMMA CommitAtomic ==
    ASSUME StockInv, NEW c \in Call, Commit(c), Concluded(c), \A d \in Call : Here(d) /\ KeyStands(d) /\ Atomic(d)
    PROVE  \A d \in Call : Atomic(d)' /\ KeyStands(d)'
<1>0. CallsAre /\ EachCall /\ setting' = setting /\ Open(c) /\ stage[c] = "none"
  BY DEF StockInv, Concluded
<1>1. \A x \in tx[c].moved : x.by = c
  BY <1>0 DEF EachCall, CallIs, Once
<1>2. moved' = moved \cup tx[c].moved /\ Asked' = Asked
  BY <1>0 DEF Concluded, Asked
<1>3. /\ posted \subseteq posted' /\ (paper[c].key # "none" => [key |-> paper[c].key, by |-> c] \in posted')
      /\ taxed' = With(taxed, c, "sale") /\ journals' = With(journals, c, "produce")
      /\ DOMAIN challans' = IF Asked[c].kind = "sendOut" THEN DOMAIN challans \cup {c} ELSE DOMAIN challans
  BY CommitTables
<1>5. ASSUME NEW d \in Call \ {c} PROVE Atomic(d)' /\ KeyStands(d)'
  <2>1. Kept(d) /\ Atomic(d) /\ KeyStands(d)
    BY <1>5 DEF Concluded
  <2>2. KeyStands(d)'
    BY <1>0, <1>3, <2>1, KeptKey
  <2>3. MovesOf(d)' = MovesOf(d)
    BY <1>1, <1>2 DEF MovesOf
  <2>4. MoveSteps(d)' = MoveSteps(d)
    BY <1>0, StepsStay
  <2>5. \A kind : (Did(d, kind))' <=> Did(d, kind)
    BY <1>2, <2>1 DEF Did, Kept
  <2>6. /\ d \in taxed' <=> d \in taxed
        /\ d \in journals' <=> d \in journals
        /\ d \in DOMAIN challans' <=> d \in DOMAIN challans
    BY <1>3 DEF With
  <2>7. Known(Asked[d].key) => Known(Asked[d].key)'
    BY <1>2, <1>3 DEF Known
  <2>8. ended'[d] = ended[d]
    BY <2>1 DEF Kept
  <2> QED
    BY <1>2, <2>1, <2>2, <2>3, <2>4, <2>5, <2>6, <2>7, <2>8 DEF Atomic
<1>6. KeyStands(c)'
  BY DEF KeyStands, Open, Concluded
<1>7. Atomic(c)'
  <2>1. Here(c) /\ Atomic(c) /\ ended[c] = "no" /\ at[c] > 0 /\ KeyStands(c)
    BY <1>0 DEF Open
  <2>2. Laid(Asked[c].kind, Steps(c)) /\ Len(Steps(c)) \in Nat /\ MoveSteps(c) \subseteq 1 .. Len(Steps(c))
    BY <1>0, <2>1, MoveStepsAre
  <2>3. at[c] = Len(Steps(c)) + 1
    BY DEF Concluded
  <2>4. Numbers(tx[c].moved) = MoveSteps(c)
    <3>1. Numbers(tx[c].moved) = {i \in MoveSteps(c) : i < at[c]}
      BY <1>0, <2>1 DEF Here, Passed
    <3> QED
      BY <2>2, <2>3, <3>1
  <2>5. Numbers(MovesOf(c)) = {}
    BY <2>1 DEF Atomic
  <2>6. MovesOf(c)' = MovesOf(c) \cup tx[c].moved
    BY <1>1, <1>2 DEF MovesOf
  <2>7. Numbers(MovesOf(c)') = MoveSteps(c)
    BY <2>4, <2>5, <2>6 DEF Numbers
  <2>8. MoveSteps(c)' = MoveSteps(c)
    BY <1>0, StepsStay
  <2>9. c \notin taxed /\ c \notin journals /\ c \notin DOMAIN challans
    BY <2>1 DEF Atomic, Did
  <2>10. ended'[c] = "committed"
    BY DEF Concluded
  <2>11. \A kind : (Did(c, kind))' <=> Asked[c].kind = kind
    BY <1>2, <2>10 DEF Did
  <2>12. c \in taxed' => Known(Asked[c].key)'
    <3> SUFFICES ASSUME c \in taxed' PROVE Known(Asked[c].key)'
      OBVIOUS
    <3>1. Asked[c].kind = "sale"
      BY <1>3, <2>9 DEF With
    <3>2. at[c] > 2
      BY <2>2, <2>3, <3>1 DEF Laid, Ordered
    <3>3. Known(Asked[c].key) \/ paper[c].key = Asked[c].key
      BY <1>0, <2>1, <3>1, <3>2 DEF KeyStands
    <3>4. Asked[c].key # "none"
      BY <1>0, <2>1, <3>1, GoodsAssumption DEF CallsAre, Asking, Asked
    <3>5. [key |-> Asked[c].key, by |-> c] \in posted' \/ Known(Asked[c].key)
      BY <1>3, <3>3, <3>4
    <3>6. [key |-> Asked[c].key, by |-> c] \in posted' => Known(Asked[c].key)'
      BY <1>2 DEF Known
    <3>7. Known(Asked[c].key) => Known(Asked[c].key)'
      BY <1>2, <1>3 DEF Known
    <3> QED
      BY <3>5, <3>6, <3>7
  <2> QED
    BY <1>3, <2>7, <2>8, <2>9, <2>10, <2>11, <2>12 DEF Atomic, With
<1> QED
  BY <1>5, <1>6, <1>7

(* Counter invoices: the numbers used are the first ones, a counter about   *)
(* to insert has one of those or the next, and of the counters that         *)
(* inserted, waiting for their COMMIT, there is one, with the next.         *)
Counting(c, n) == Open(c) /\ Asked[c].kind = "counter" /\ at[c] >= n
Issued == Cardinality(DOMAIN invoices)
NumbersRun ==
    /\ DOMAIN invoices \subseteq Call /\ (\A c \in DOMAIN invoices : ended[c] # "no")
    /\ Used = 1 .. Issued
NumberStands(c) ==
    /\ Counting(c, 2) => paper[c].number \in 1 .. Issued + 1
    /\ Counting(c, 3) => paper[c].number = Issued + 1
OneCounts == \A c, d \in Call : Counting(c, 3) /\ Counting(d, 3) => c = d
NumbersInv == NumbersRun /\ OneCounts /\ \A c \in Call : NumberStands(c)

LEMMA KeptCounting ==
    ASSUME NEW c, Kept(c), setting' = setting, NEW n
    PROVE  (Counting(c, n))' <=> Counting(c, n)
<1>1. Asked' = Asked
  BY DEF Asked
<1>2. (Open(c))' <=> Open(c)
  BY DEF Open, Kept
<1> QED
  BY <1>1, <1>2 DEF Counting, Kept

LEMMA IssuedIs == ASSUME NumbersRun PROVE Issued \in Nat /\ Cardinality(Used) = Issued /\ IsFiniteSet(DOMAIN invoices)
<1>1. IsFiniteSet(DOMAIN invoices)
  BY CallAssumption, FS_Subset DEF NumbersRun
<1>2. Issued \in Nat
  BY <1>1, FS_CardinalityType DEF Issued
<1>3. PICK n \in Nat : n = Issued
  BY <1>2
<1>4. Cardinality(1 .. n) = IF 1 > n THEN 0 ELSE n - 1 + 1
  BY FS_Interval
<1>5. Cardinality(1 .. n) = n
  BY <1>4
<1> QED
  BY <1>1, <1>3, <1>5 DEF NumbersRun

(* How a counter gets on.                                                   *)
LEMMA ServedCounting ==
    ASSUME StockInv, PapersAre, NEW c \in Call, Served(c), Answers(c), setting' = setting, Here(c)
    PROVE  (Counting(c, 2))' =>
               \/ Counting(c, 2) /\ at'[c] = at[c] /\ paper'[c] = paper[c]
               \/ at'[c] = 2 /\ Number(c)
               \/ at[c] = 2 /\ Counting(c, 2) /\ at'[c] = 3 /\ Invoice(c)
<1>0. CallsAre /\ at[c] \in Nat /\ at \in [Call -> Nat]
  BY DEF StockInv, CallsAre
<1>1. Asked' = Asked
  BY DEF Asked
<1>2. SUFFICES ASSUME (Open(c))', Asked[c].kind = "counter", at'[c] >= 2
               PROVE  \/ Counting(c, 2) /\ at'[c] = at[c] /\ paper'[c] = paper[c]
                      \/ at'[c] = 2 /\ Number(c)
                      \/ at[c] = 2 /\ Counting(c, 2) /\ at'[c] = 3 /\ Invoice(c)
  BY <1>1 DEF Counting
<1>3. CASE Begun(c)
  BY <1>2, <1>3 DEF Begun
<1>4. CASE RolledBack(c)
  BY <1>2, <1>4 DEF RolledBack, Open
<1>5. CASE Triggered(c)
  BY <1>2, <1>5 DEF Triggered, Here, Counting
<1>6. CASE Inserted(c) \/ Spoke(c)
  <2>1. Open(c) /\ at[c] > 0 /\ stage[c] = "none" /\ at[c] <= Len(Steps(c)) /\ at'[c] # at[c]
    BY <1>0, <1>6 DEF Inserted, Spoke, Doing, Open
  <2>2. Laid("counter", Steps(c))
    BY <1>0, <1>2, <2>1, MoveStepsAre
  <2>3. Len(Steps(c)) = 2 /\ Steps(c)[1].do = "number" /\ Steps(c)[2].do = "invoice"
    BY <2>2 DEF Laid, Ordered
  <2>4. CASE at[c] = 1
    <3>1. Number(c)
      BY <2>1, <2>3, <2>4 DEF Answers, Passes, Doing
    <3>2. at'[c] = 2
      BY <1>0, <2>4, <3>1 DEF Number, Advance
    <3> QED
      BY <3>1, <3>2
  <2>5. CASE at[c] = 2
    <3>1. Invoice(c)
      BY <2>1, <2>3, <2>5 DEF Answers, Passes, Doing
    <3>2. at'[c] = 3
      BY <1>0, <2>5, <3>1 DEF Invoice, Advance
    <3> QED
      BY <1>2, <2>1, <2>5, <3>1, <3>2 DEF Counting
  <2> QED
    BY <1>0, <2>1, <2>3, <2>4, <2>5
<1> QED
  BY <1>3, <1>4, <1>5, <1>6 DEF Served

LEMMA LastUsed == ASSUME NumbersRun PROVE Max(Used \cup {0}) = Issued
<1>1. PICK n \in Nat : n = Issued /\ Used = 1 .. n
  BY IssuedIs DEF NumbersRun
<1>2. PICK used : used = Used \cup {0}
  OBVIOUS
<1>3. n \in used /\ (\A y \in used : n >= y) /\ used \subseteq Int
  BY <1>1, <1>2
<1>4. PICK m : m = Max(used)
  OBVIOUS
<1>5. m \in used /\ \A y \in used : m >= y
  BY <1>3, <1>4, Zenon DEF Max
<1>6. m = n
  BY <1>3, <1>5
<1> QED
  BY <1>1, <1>2, <1>4, <1>6

LEMMA NumberGiven ==
    ASSUME PapersAre, NumbersRun, NEW c \in Call, Number(c) PROVE paper'[c].number = Issued + 1
<1>1. IsPaper(paper[c]) /\ paper = [d \in Call |-> paper[d]]
  BY DEF PapersAre
<1>2. PICK n : n = Issued + 1 /\ n = Max(Used \cup {0}) + 1
  BY LastUsed
<1>3. Write(c, "number", n)
  BY <1>2 DEF Number
<1> QED
  BY <1>1, <1>2, <1>3 DEF Write, IsPaper

LEMMA NumbersServed ==
    ASSUME StockInv, PapersAre, NEW c \in Call, Served(c), Answers(c), Alone(c), \A d \in Call : Here(d), NumbersInv
    PROVE  NumbersInv'
<1>0. CallsAre /\ NumbersRun /\ setting' = setting /\ Here(c) /\ invoices' = invoices /\ at[c] \in Nat
  BY DEF StockInv, NumbersInv, Alone, TablesKept, CallsAre
<1>1. Issued \in Nat /\ Cardinality(Used) = Issued /\ Issued' = Issued /\ Used' = Used
  BY <1>0, IssuedIs DEF Issued, Used
<1>2. NumbersRun'
  <2>1. ASSUME NEW d \in DOMAIN invoices PROVE ended'[d] # "no"
    <3>1. d \in Call /\ ended[d] # "no"
      BY <1>0 DEF NumbersRun
    <3>2. CASE d = c
      BY <3>1, <3>2 DEF Served, Begun, RolledBack, Triggered, Inserted, Spoke, Open
    <3>3. CASE d # c
      BY <3>1, <3>3 DEF Alone, Kept
    <3> QED
      BY <3>2, <3>3
  <2> QED
    BY <1>0, <1>1, <2>1 DEF NumbersRun
<1>3. ASSUME NEW d \in Call \ {c}
      PROVE  /\ \A n : (Counting(d, n))' <=> Counting(d, n)
             /\ paper'[d] = paper[d] /\ NumberStands(d) /\ NumberStands(d)'
  <2>1. Kept(d)
    BY DEF Alone
  <2>2. \A n : (Counting(d, n))' <=> Counting(d, n)
    BY <1>0, <2>1, KeptCounting
  <2>3. NumberStands(d)
    BY DEF NumbersInv
  <2> QED
    BY <1>1, <2>1, <2>2, <2>3 DEF NumberStands, Kept
<1>4. (Counting(c, 3))' => (Counting(c, 2))' /\ at'[c] >= 3
  <2>1. at'[c] \in Nat
    <3>1. StockInv' => at' \in [Call -> Nat]
      BY DEF StockInv, CallsAre
    <3>2. at'[c] = at[c] \/ at'[c] = at[c] + 1 \/ at'[c] = at[c] + 2 \/ at'[c] = 1
      BY DEF Served, Begun, RolledBack, Triggered, Inserted, Spoke
    <3> QED
      BY <1>0, <3>2
  <2> QED
    BY <2>1 DEF Counting
<1>5. (Counting(c, 2))' =>
               \/ Counting(c, 2) /\ at'[c] = at[c] /\ paper'[c] = paper[c]
               \/ at'[c] = 2 /\ Number(c)
               \/ at[c] = 2 /\ Counting(c, 2) /\ at'[c] = 3 /\ Invoice(c)
  BY <1>0, ServedCounting
<1>6. Invoice(c) => paper'[c] = paper[c] /\ NumberFree(c) /\ paper[c].number \notin Used
  BY DEF Invoice
<1>7. NumberStands(c)
  BY DEF NumbersInv
<1>8. Counting(c, 2) /\ Invoice(c) => paper[c].number = Issued + 1
  BY <1>0, <1>1, <1>6, <1>7 DEF NumberStands, NumbersRun
<1>9. (Counting(c, 3))' => Counting(c, 3) \/ (Counting(c, 2) /\ Invoice(c))
  BY <1>4, <1>5 DEF Counting
<1>10. NumberStands(c)'
  <2>1. Number(c) => paper'[c].number = Issued + 1
    BY <1>1, NumberGiven DEF NumbersInv
  <2>2. (Counting(c, 2))' => paper'[c].number \in 1 .. Issued + 1
    BY <1>1, <1>5, <1>6, <1>7, <1>8, <2>1 DEF NumberStands
  <2>3. (Counting(c, 3))' => paper'[c].number = Issued + 1
    <3>1. Counting(c, 3) => paper[c].number = Issued + 1
      BY <1>7 DEF NumberStands
    <3>2. (Counting(c, 3))' => at'[c] # 2
      BY <1>4
    <3> QED
      BY <1>4, <1>5, <1>6, <1>8, <1>9, <2>1, <3>1, <3>2
  <2> QED
    BY <1>1, <2>2, <2>3 DEF NumberStands
<1>11. ASSUME NEW d \in Call \ {c}, Counting(d, 3), (Counting(c, 3))' PROVE FALSE
  <2>1. ~Counting(c, 3)
    BY <1>11 DEF NumbersInv, OneCounts
  <2>2. Counting(c, 2) /\ Invoice(c)
    BY <1>9, <1>11, <2>1
  <2>3. paper[c].number = Issued + 1 /\ paper[d].number = Issued + 1
    BY <1>3, <1>8, <1>11, <2>2 DEF NumberStands
  <2>4. d \in Others(c)
    BY <1>11 DEF Others, Counting
  <2>5. ~Doing(d, "invoice")
    <3>1. Laid("counter", Steps(d))
      BY <1>0, <1>11, MoveStepsAre DEF Counting, Open
    <3>2. Len(Steps(d)) = 2
      BY <3>1 DEF Laid, Ordered
    <3>3. at[d] \in Nat /\ at[d] >= 3
      BY <1>0, <1>11 DEF CallsAre, Counting
    <3> QED
      BY <3>2, <3>3 DEF Doing
  <2> QED
    BY <1>6, <2>2, <2>3, <2>4, <2>5 DEF NumberFree
<1>12. OneCounts'
  <2> SUFFICES ASSUME NEW d \in Call, NEW e \in Call, (Counting(d, 3))', (Counting(e, 3))' PROVE d = e
    BY DEF OneCounts
  <2>1. CASE d # c /\ e # c
    BY <1>3, <2>1 DEF NumbersInv, OneCounts
  <2>2. CASE d = c /\ e # c
    BY <1>3, <1>11, <2>2
  <2>3. CASE d # c /\ e = c
    BY <1>3, <1>11, <2>3
  <2> QED
    BY <2>1, <2>2, <2>3
<1> QED
  BY <1>2, <1>3, <1>10, <1>12 DEF NumbersInv

LEMMA NumbersCommit ==
    ASSUME StockInv, NEW c \in Call, Commit(c), Concluded(c), NumbersInv
    PROVE  NumbersInv'
<1>0. CallsAre /\ NumbersRun /\ setting' = setting /\ Open(c) /\ ended'[c] = "committed" /\ at[c] \in Nat /\ at[c] > 0
  BY DEF StockInv, NumbersInv, Concluded, CallsAre, Open
<1>1. Issued \in Nat /\ IsFiniteSet(DOMAIN invoices)
  BY <1>0, IssuedIs
<1>2. \A n : ~(Counting(c, n))'
  BY <1>0 DEF Counting, Open
<1>3. ASSUME NEW d \in Call \ {c}
      PROVE  /\ \A n : (Counting(d, n))' <=> Counting(d, n)
             /\ paper'[d] = paper[d] /\ NumberStands(d) /\ ended'[d] = ended[d]
  <2>1. Kept(d)
    BY DEF Concluded
  <2>2. \A n : (Counting(d, n))' <=> Counting(d, n)
    BY <1>0, <2>1, KeptCounting
  <2>3. NumberStands(d)
    BY DEF NumbersInv
  <2> QED
    BY <2>1, <2>2, <2>3 DEF Kept
<1>4. OneCounts'
  BY <1>2, <1>3 DEF NumbersInv, OneCounts
<1>5. \A d \in DOMAIN invoices \cup {c} : d \in Call /\ ended'[d] # "no"
  BY <1>0, <1>3 DEF NumbersRun
<1>6. CASE Asked[c].kind # "counter"
  <2>1. invoices' = invoices
    BY <1>6 DEF Commit
  <2>2. Issued' = Issued /\ Used' = Used
    BY <2>1 DEF Issued, Used
  <2>3. NumbersRun'
    BY <1>0, <1>5, <2>1, <2>2 DEF NumbersRun
  <2>4. ASSUME NEW d \in Call PROVE NumberStands(d)'
    <3>1. CASE d = c
      BY <1>2, <3>1 DEF NumberStands
    <3>2. CASE d # c
      BY <1>3, <2>2, <3>2 DEF NumberStands
    <3> QED
      BY <3>1, <3>2
  <2> QED
    BY <1>4, <2>3, <2>4 DEF NumbersInv
<1>7. CASE Asked[c].kind = "counter"
  <2>1. at[c] = 3
    <3>1. Laid("counter", Steps(c))
      BY <1>0, <1>7, MoveStepsAre
    <3>2. Len(Steps(c)) = 2 /\ at[c] = Len(Steps(c)) + 1
      BY <3>1 DEF Concluded, Laid, Ordered
    <3> QED
      BY <3>2
  <2>2. Counting(c, 3)
    BY <1>0, <1>7, <2>1 DEF Counting
  <2>3. paper[c].number = Issued + 1
    BY <2>2 DEF NumbersInv, NumberStands
  <2>4. invoices' = Put(invoices, c, Issued + 1)
    BY <1>7, <2>3 DEF Commit
  <2>5. c \notin DOMAIN invoices
    BY <1>0 DEF NumbersRun, Open
  <2>6. DOMAIN invoices' = DOMAIN invoices \cup {c}
    BY <2>4, DomainPut
  <2>7. invoices'[c] = Issued + 1 /\ \A d \in DOMAIN invoices : invoices'[d] = invoices[d]
    BY <2>4, <2>5 DEF Put
  <2>8. Issued' = Issued + 1
    <3>1. Cardinality(DOMAIN invoices \cup {c}) = Cardinality(DOMAIN invoices) + 1
      BY <1>1, <2>5, FS_AddElement
    <3> QED
      BY <2>6, <3>1 DEF Issued
  <2>9. Used' = 1 .. Issued + 1
    <3>1. Used' = Used \cup {Issued + 1}
      BY <2>6, <2>7 DEF Used
    <3>2. Used = 1 .. Issued
      BY <1>0 DEF NumbersRun
    <3> QED
      BY <1>1, <3>1, <3>2
  <2>10. NumbersRun'
    BY <1>5, <2>6, <2>8, <2>9 DEF NumbersRun
  <2>11. ASSUME NEW d \in Call PROVE NumberStands(d)'
    <3>1. CASE d = c
      BY <1>2, <3>1 DEF NumberStands
    <3>2. CASE d # c
      <4>1. ~Counting(d, 3)
        BY <2>2, <3>2 DEF NumbersInv, OneCounts
      <4> QED
        BY <1>1, <1>3, <2>8, <3>2, <4>1 DEF NumberStands
    <3> QED
      BY <3>1, <3>2
  <2> QED
    BY <1>4, <2>10, <2>11 DEF NumbersInv
<1> QED
  BY <1>6, <1>7

(* Job work.  What came back is the sum over the receipts, ...              *)
Came(rs) == MapThenSumSet(LAMBDA r : r.line.qty, rs)

LEMMA CameIs ==
    ASSUME NEW S, IsFiniteSet(S), NEW w, \A r \in S : w[r] = r.line.qty /\ w[r] \in Int
    PROVE  Weighs(w, S) /\ Came(S) = SumFunctionOnSet(w, S)
<1>2. Weighs(w, S)
  BY DEF Weighs
<1>3. PICK h : Unrolls(h, S, w) /\ SumFunctionOnSet(w, S) = h[S]
  BY <1>2, SumUnrolls
<1>4. PICK g : g = CHOOSE e : e = [s \in SUBSET S |->
                     IF s = {} THEN 0 ELSE AnyOf(s).line.qty + e[s \ {AnyOf(s)}]]
  OBVIOUS
<1>5. Came(S) = g[S]
  BY <1>4 DEF Came, MapThenSumSet, MapThenFoldSet, AnyOf
<1>6. \A s \in SUBSET S : s # {} => w[AnyOf(s)] = AnyOf(s).line.qty
  BY AnyOfIsIn
<1>7. h = [s \in SUBSET S |-> IF s = {} THEN 0 ELSE AnyOf(s).line.qty + h[s \ {AnyOf(s)}]]
  BY <1>3, <1>6 DEF Unrolls
<1>8. g = [s \in SUBSET S |-> IF s = {} THEN 0 ELSE AnyOf(s).line.qty + g[s \ {AnyOf(s)}]]
  BY <1>4, <1>7, Zenon
<1>9. Unrolls(g, S, w)
  BY <1>6, <1>8 DEF Unrolls
<1> QED
  BY <1>2, <1>3, <1>5, <1>9, SameValues

LEMMA CameOfNone == Came({}) = 0
<1>1. PICK w : w = [r \in {} |-> 0]
  OBVIOUS
<1>2. Came({}) = SumFunctionOnSet(w, {})
  BY <1>1, FS_EmptySet, CameIs
<1> QED
  BY <1>2, SumOfNone

LEMMA CameOfMore ==
    ASSUME NEW S, IsFiniteSet(S), \A r \in S : r.line.qty \in Int, NEW x, x \notin S, x.line.qty \in Int
    PROVE  Came(S \cup {x}) = Came(S) + x.line.qty
<1>1. PICK w : w = [r \in S \cup {x} |-> r.line.qty]
  OBVIOUS
<1>2. \A r \in S \cup {x} : w[r] = r.line.qty /\ w[r] \in Int
  BY <1>1
<1>3. IsFiniteSet(S \cup {x})
  BY FS_AddElement
<1>4. Weighs(w, S) /\ Came(S) = SumFunctionOnSet(w, S)
  BY <1>2, CameIs
<1>5. Came(S \cup {x}) = SumFunctionOnSet(w, S \cup {x})
  BY <1>2, <1>3, CameIs
<1>6. SumFunctionOnSet(w, S \cup {x}) = SumFunctionOnSet(w, S) + w[x]
  BY <1>2, <1>4, SumOfMore
<1> QED
  BY <1>2, <1>4, <1>5, <1>6

(* ... a receipt is of a challan, by a call that is over, ...               *)
ReceiptIs(r) ==
    /\ r.by \in Call /\ ended[r.by] # "no" /\ Asked[r.by].of \in DOMAIN challans
    /\ r.line.qty \in Nat
ReceiptsAre == IsFiniteSet(receipts) /\ \A r \in receipts : ReceiptIs(r)
ChallanIs(c) ==
    LET ch == challans[c]
    IN  /\ c \in Call /\ ch = [sent |-> ch.sent, received |-> ch.received, status |-> ch.status]
        /\ \A s \in ch.sent : s.qty \in Nat
        /\ \A x \in DOMAIN ch.received : ch.received[x] \in Nat
ChallansAre == \A c \in DOMAIN challans : ChallanIs(c)

(* ... and what a call that receives has on its papers follows from the     *)
(* statements it is past.                                                   *)
RowsOf(c) == {[by |-> c, n |-> i, line |-> Asked[c].lines[i]] : i \in DOMAIN Asked[c].lines}
GotIs(c) == \E f \in Sources(c) : paper[c].got = [s \in Matched(c) |-> f[s].qty]
Returned(c) == \A s \in Sent(c) : At(challans[Asked[c].of].received, s) + At(paper[c].got, s) >= s.qty
Receiving(c, n) ==
    /\ at[c] > 1 => Asked[c].of \in DOMAIN challans
    /\ at[c] <= n - 2 => paper[c].rows = {}
    /\ at[c] > n - 2 => paper[c].rows = RowsOf(c) /\ GotIs(c)
    /\ at[c] > n - 1 => (paper[c].read = "COMPLETED" => Returned(c))
    /\ at[c] > n => paper[c].status = paper[c].read
ReceiptStands(c) ==
    Open(c) => IF Asked[c].kind = "receive" THEN Receiving(c, Len(Steps(c))) ELSE paper[c].rows = {}
Back(c, s) == {r \in receipts : Asked[r.by].of = c /\ Matches(r.line, s)}
OnceEach(rs) == \A p, r \in rs : p.by = r.by => p = r
CameBack(c, s) == OnceEach(Back(c, s)) => At(challans[c].received, s) = Came(Back(c, s))
AllCameBack == \A c \in DOMAIN challans : \A s \in challans[c].sent : CameBack(c, s)
ReceiptsInv ==
    /\ ReceiptsAre /\ ChallansAre /\ AllCameBack /\ CompletedIsReceived
    /\ \A c \in Call : ReceiptStands(c)

LEMMA SameChallans ==
    ASSUME NEW c, setting' = setting, challans'[Asked[c].of].sent = challans[Asked[c].of].sent
    PROVE  Sent(c)' = Sent(c) /\ Matched(c)' = Matched(c) /\ Sources(c)' = Sources(c) /\ RowsOf(c)' = RowsOf(c)
<1>1. Asked' = Asked
  BY DEF Asked
<1>2. Sent(c)' = Sent(c) /\ Lines(c)' = Lines(c)
  BY <1>1 DEF Sent, Lines
<1>3. Matched(c)' = Matched(c)
  BY <1>2 DEF Matched
<1>4. Sources(c)' = Sources(c)
  BY <1>2, <1>3 DEF Sources
<1> QED
  BY <1>1, <1>2, <1>3, <1>4 DEF RowsOf

LEMMA LinesHave ==
    ASSUME setting \in Settings, NEW c \in Asking, Asked[c].kind = "receive"
    PROVE  /\ \A i \in DOMAIN Asked[c].lines : Asked[c].lines[i].qty \in Nat
           /\ IsFiniteSet(DOMAIN Asked[c].lines) /\ \A l \in Lines(c) : l.qty \in Nat
<1>1. AreLines(Asked[c].lines)
  BY GoodsAssumption DEF Asked, Asking
<1>2. \A i \in DOMAIN Asked[c].lines : Asked[c].lines[i].qty \in Nat
  BY <1>1 DEF AreLines
<1>3. IsFiniteSet(DOMAIN Asked[c].lines)
  <2>1. PICK n \in Nat : DOMAIN Asked[c].lines = 1 .. n
    BY <1>1, LinesAre
  <2> QED
    BY <2>1, FS_Interval
<1> QED
  BY <1>2, <1>3 DEF Lines

LEMMA GotAre ==
    ASSUME setting \in Settings, NEW c \in Asking, Asked[c].kind = "receive", GotIs(c)
    PROVE  DOMAIN paper[c].got = Matched(c) /\ \A s : At(paper[c].got, s) \in Nat
<1>1. PICK f \in Sources(c) : paper[c].got = [s \in Matched(c) |-> f[s].qty]
  BY DEF GotIs
<1>2. \A s \in Matched(c) : f[s].qty \in Nat
  <2>1. \A s \in Matched(c) : f[s] \in Lines(c)
    BY DEF Sources
  <2> QED
    BY <2>1, LinesHave
<1> QED
  BY <1>1, <1>2 DEF At

(* What a challan received never grows less: a status that was right stays. *)
Grows(of) ==
    /\ of \in DOMAIN challans' /\ challans'[of].sent = challans[of].sent
    /\ \A s : /\ At(challans[of].received, s) \in Nat /\ At(challans'[of].received, s) \in Nat
              /\ At(challans'[of].received, s) >= At(challans[of].received, s)

LEMMA KeptReceiving ==
    ASSUME CallsAre, setting' = setting, ChallansAre, NEW c \in Call, NEW n \in Nat, n >= 4, at[c] > 0,
           Asked[c].kind = "receive", Kept(c), Receiving(c, n), at[c] > 1 => Grows(Asked[c].of)
    PROVE  Receiving(c, n)'
<1>1. Asked' = Asked /\ at[c] \in Nat /\ c \in Asking /\ setting \in Settings
  BY DEF Asked, CallsAre
<1>2. at'[c] = at[c] /\ paper'[c] = paper[c]
  BY DEF Kept
<1>3. CASE at[c] <= 1
  <2>1. at[c] <= n - 2
    BY <1>1, <1>3
  <2> QED
    BY <1>1, <1>2, <1>3, <2>1 DEF Receiving
<1>4. CASE at[c] > 1
  <2>1. Grows(Asked[c].of)
    BY <1>4
  <2>2. Sent(c)' = Sent(c) /\ Matched(c)' = Matched(c) /\ Sources(c)' = Sources(c) /\ RowsOf(c)' = RowsOf(c)
    BY <2>1, SameChallans DEF Grows
  <2>3. GotIs(c) => GotIs(c)'
    BY <1>2, <2>2 DEF GotIs
  <2>4. GotIs(c) /\ Returned(c) => Returned(c)'
    <3> SUFFICES ASSUME GotIs(c), Returned(c), NEW s \in Sent(c)
                 PROVE  At(challans'[Asked[c].of].received, s) + At(paper[c].got, s) >= s.qty
      BY <1>1, <1>2, <2>2 DEF Returned
    <3>1. At(paper[c].got, s) \in Nat
      BY <1>1, GotAre
    <3>2. At(challans[Asked[c].of].received, s) + At(paper[c].got, s) >= s.qty
      BY DEF Returned
    <3>3. s.qty \in Nat
      BY <1>4 DEF Receiving, ChallansAre, ChallanIs, Sent
    <3>4. PICK a \in Nat, b \in Nat : /\ a = At(challans[Asked[c].of].received, s)
                                      /\ b = At(challans'[Asked[c].of].received, s) /\ b >= a
      BY <2>1 DEF Grows
    <3> QED
      BY <3>1, <3>2, <3>3, <3>4
  <2>5. at[c] > n - 1 => at[c] > n - 2
    BY <1>1
  <2>6. Asked[c].of \in DOMAIN challans'
    BY <2>1 DEF Grows
  <2> QED
    BY <1>1, <1>2, <2>2, <2>3, <2>4, <2>5, <2>6 DEF Receiving
<1> QED
  BY <1>1, <1>3, <1>4

LEMMA StatusRead ==
    ASSUME PapersAre, NEW c \in Call, ReadStatus(c)
    PROVE  paper'[c].read = IF Outstanding(c) # {} THEN "PARTIALLY_RECEIVED" ELSE "COMPLETED"
<1>1. IsPaper(paper[c]) /\ paper = [d \in Call |-> paper[d]]
  BY DEF PapersAre
<1>2. PICK v : v = IF Outstanding(c) # {} THEN "PARTIALLY_RECEIVED" ELSE "COMPLETED"
  OBVIOUS
<1>3. Write(c, "read", v)
  BY <1>2 DEF ReadStatus
<1> QED
  BY <1>1, <1>2, <1>3 DEF Write, IsPaper

LEMMA StatusWritten ==
    ASSUME PapersAre, NEW c \in Call, WriteStatus(c) PROVE paper'[c].status = paper[c].read
<1>1. IsPaper(paper[c]) /\ paper = [d \in Call |-> paper[d]]
  BY DEF PapersAre
<1>2. Write(c, "status", paper[c].read)
  BY DEF WriteStatus
<1> QED
  BY <1>1, <1>2 DEF Write, IsPaper

(* A call that receives goes through its statements.                        *)
LEMMA ServedReceiving ==
    ASSUME StockInv, PapersAre, ChallansAre, NEW c \in Call, Asked[c].kind = "receive", NEW n, n = Len(Steps(c)),
           Inserted(c) \/ Spoke(c), Answers(c), TablesKept, setting' = setting, Receiving(c, n)
    PROVE  Receiving(c, n)'
<1>0. CallsAre /\ at \in [Call -> Nat] /\ at[c] \in Nat /\ at[c] > 0 /\ stage[c] = "none" /\ Open(c)
  BY DEF StockInv, CallsAre, Inserted, Spoke, Doing, Open
<1>1. PICK all : all = Steps(c)
  OBVIOUS
<1>2. Laid("receive", all) /\ Len(all) = n /\ n \in Nat
  BY <1>0, <1>1, MoveStepsAre
<1>3. /\ n >= 4 /\ all[1].do = "findChallan" /\ all[n - 2].do = "receipt"
      /\ all[n - 1].do = "readStatus" /\ all[n].do = "writeStatus"
      /\ \A i \in 2 .. n - 3 : Inner(all[i])
  BY <1>2 DEF Laid, Ordered
<1>4. at[c] <= n /\ at'[c] # at[c]
  BY <1>0, <1>1, <1>2 DEF Inserted, Spoke, Doing
<1>5. challans' = challans /\ Asked' = Asked
  BY DEF TablesKept, Asked
<1>6. Sent(c)' = Sent(c) /\ Matched(c)' = Matched(c) /\ Sources(c)' = Sources(c) /\ RowsOf(c)' = RowsOf(c)
  BY <1>5, SameChallans
<1>7. c \in Asking /\ setting \in Settings
  BY <1>0 DEF CallsAre
<1>8. \A w \in {"findChallan", "receipt", "readStatus", "writeStatus"} : all[at[c]].do = w => Passes(c, w)
  BY <1>0, <1>1, <1>2, <1>4 DEF Passes, Doing
<1>9. CASE at[c] = 1
  <2>1. FindChallan(c)
    BY <1>3, <1>8, <1>9 DEF Answers
  <2>2. Asked[c].of \in DOMAIN challans /\ paper' = paper /\ at'[c] = 2
    BY <1>0, <1>9, <2>1 DEF FindChallan, Advance
  <2>3. 1 <= n - 2 /\ 2 <= n - 2 /\ ~(2 > n - 2) /\ ~(2 > n - 1) /\ ~(2 > n)
    BY <1>2, <1>3
  <2> QED
    BY <1>5, <1>9, <2>2, <2>3 DEF Receiving
<1>10. CASE at[c] \in 2 .. n - 3
  <2>1. Inner(all[at[c]])
    BY <1>3, <1>10
  <2>2. CASE Inserted(c)
    <3>1. at'[c] = at[c] + 1 /\ paper'[c] = paper[c]
      BY <2>2 DEF Inserted
    <3>2. PICK k \in Nat : k = at[c] /\ k > 1 /\ k <= n - 2 /\ k + 1 <= n - 2 /\ ~(k + 1 > n - 2) /\ ~(k + 1 > n - 1)
                           /\ ~(k + 1 > n)
      BY <1>0, <1>2, <1>10
    <3> QED
      BY <1>5, <3>1, <3>2 DEF Receiving
  <2>3. CASE Spoke(c)
    <3>1. PICK w \in Words : Doing(c, w) /\ (at'[c] = at[c] + 1 \/ (at'[c] = at[c] + 2 /\ w \in Finds)) /\ WritesItsOwn(c)
      BY <2>3 DEF Spoke
    <3>2. w = "challan"
      BY <1>1, <2>1, <3>1, InnerStays DEF Doing
    <3>3. ~Receipt(c)
      BY <3>1, <3>2, SaysOne DEF Receipt
    <3>4. paper'[c].rows = paper[c].rows /\ at'[c] = at[c] + 1
      BY <3>1, <3>2, <3>3 DEF WritesItsOwn, Finds
    <3>5. PICK k \in Nat : k = at[c] /\ k > 1 /\ k <= n - 2 /\ k + 1 <= n - 2 /\ ~(k + 1 > n - 2) /\ ~(k + 1 > n - 1)
                           /\ ~(k + 1 > n)
      BY <1>0, <1>2, <1>10
    <3> QED
      BY <1>5, <3>4, <3>5 DEF Receiving
  <2> QED
    BY <2>2, <2>3
<1>11. CASE at[c] = n - 2
  <2>1. Receipt(c)
    BY <1>3, <1>8, <1>11 DEF Answers
  <2>2. /\ \E f \in Sources(c) : paper'[c].got = [s \in Matched(c) |-> f[s].qty]
        /\ paper'[c].rows = RowsOf(c)
    BY <2>1, Receipted DEF RowsOf
  <2>3. at'[c] = n - 1
    BY <1>0, <1>2, <1>11, <2>1 DEF Receipt, Advance
  <2>4. GotIs(c)'
    BY <1>6, <2>2 DEF GotIs
  <2>5. at[c] > 1 /\ ~(n - 1 <= n - 2) /\ ~(n - 1 > n - 1) /\ ~(n - 1 > n)
    BY <1>2, <1>3, <1>11
  <2> QED
    BY <1>5, <1>6, <2>2, <2>3, <2>4, <2>5 DEF Receiving
<1>12. CASE at[c] = n - 1
  <2>1. ReadStatus(c)
    BY <1>3, <1>8, <1>12 DEF Answers
  <2>2. at[c] > 1 /\ at[c] > n - 2
    BY <1>2, <1>3, <1>12
  <2>3. paper[c].rows = RowsOf(c) /\ GotIs(c) /\ Asked[c].of \in DOMAIN challans
    BY <2>2 DEF Receiving
  <2>4. paper'[c].rows = paper[c].rows /\ paper'[c].got = paper[c].got
    <3>1. ~Receipt(c)
      BY <2>1, SaysOne DEF Receipt, ReadStatus
    <3>2. ~Inserted(c)
      BY <1>1, <1>3, <1>12, WordsStay DEF Inserted, Words
    <3> QED
      BY <3>1, <3>2 DEF Spoke, WritesItsOwn
  <2>5. at'[c] = n
    BY <1>0, <1>2, <1>12, <2>1 DEF ReadStatus, Advance
  <2>6. paper'[c].read = "COMPLETED" => Returned(c)
    <3> SUFFICES ASSUME paper'[c].read = "COMPLETED", NEW s \in Sent(c)
                 PROVE  At(challans[Asked[c].of].received, s) + At(paper[c].got, s) >= s.qty
      BY DEF Returned
    <3>1. Outstanding(c) = {}
      BY <2>1, StatusRead
    <3>2. ~(At(challans[Asked[c].of].received, s) + At(paper[c].got, s) < s.qty)
      BY <3>1 DEF Outstanding
    <3>3. At(paper[c].got, s) \in Nat
      BY <1>7, <2>3, GotAre
    <3>4. s.qty \in Nat /\ At(challans[Asked[c].of].received, s) \in Nat
      BY <2>3 DEF ChallansAre, ChallanIs, Sent, At
    <3> QED
      BY <3>2, <3>3, <3>4
  <2>7. Returned(c) => Returned(c)'
    BY <1>5, <1>6, <2>4 DEF Returned
  <2>8. GotIs(c)'
    BY <1>6, <2>3, <2>4 DEF GotIs
  <2>9. ~(n <= n - 2) /\ ~(n > n)
    BY <1>2
  <2> QED
    BY <1>5, <1>6, <2>3, <2>4, <2>5, <2>6, <2>7, <2>8, <2>9 DEF Receiving
<1>13. CASE at[c] = n
  <2>1. WriteStatus(c)
    BY <1>3, <1>8, <1>13 DEF Answers
  <2>2. at[c] > 1 /\ at[c] > n - 2 /\ at[c] > n - 1
    BY <1>2, <1>3, <1>13
  <2>3. /\ paper[c].rows = RowsOf(c) /\ GotIs(c) /\ Asked[c].of \in DOMAIN challans
        /\ paper[c].read = "COMPLETED" => Returned(c)
    BY <2>2 DEF Receiving
  <2>4. paper'[c].rows = paper[c].rows /\ paper'[c].got = paper[c].got /\ paper'[c].read = paper[c].read
    <3>1. ~Receipt(c) /\ ~ReadStatus(c)
      BY <2>1, SaysOne DEF Receipt, ReadStatus, WriteStatus
    <3>2. ~Inserted(c)
      BY <1>1, <1>3, <1>13, WordsStay DEF Inserted, Words
    <3> QED
      BY <3>1, <3>2 DEF Spoke, WritesItsOwn
  <2>5. at'[c] = n + 1
    BY <1>0, <1>2, <1>13, <2>1 DEF WriteStatus, Advance
  <2>6. paper'[c].status = paper'[c].read
    BY <2>1, <2>4, StatusWritten
  <2>7. Returned(c) => Returned(c)'
    BY <1>5, <1>6, <2>4 DEF Returned
  <2>8. GotIs(c)'
    BY <1>6, <2>3, <2>4 DEF GotIs
  <2>9. ~(n + 1 <= n - 2)
    BY <1>2
  <2> QED
    BY <1>5, <1>6, <2>3, <2>4, <2>5, <2>6, <2>7, <2>8, <2>9 DEF Receiving
<1> QED
  BY <1>0, <1>2, <1>3, <1>4, <1>9, <1>10, <1>11, <1>12, <1>13

LEMMA AddUpIs == AllCameBack <=> ReceiptsAddUp
  BY DEF AllCameBack, ReceiptsAddUp, CameBack, Back, OnceEach, Came

LEMMA ServedReceipt ==
    ASSUME StockInv, PapersAre, ChallansAre, NEW c \in Call, Served(c), Answers(c), TablesKept, setting' = setting,
           Here(c), ReceiptStands(c)
    PROVE  ReceiptStands(c)'
<1>0. CallsAre /\ at[c] \in Nat /\ Asked' = Asked /\ Steps(c)' = Steps(c)
  BY StepsStay DEF StockInv, CallsAre
<1>1. SUFFICES ASSUME (Open(c))'
               PROVE  IF Asked[c].kind = "receive" THEN Receiving(c, Len(Steps(c)))' ELSE paper'[c].rows = {}
  BY <1>0 DEF ReceiptStands
<1>2. CASE Begun(c)
  <2>1. paper'[c] = Blank /\ at'[c] = 1
    BY <1>2 DEF Begun, Here, Open
  <2>2. paper'[c].rows = {}
    BY <2>1 DEF Blank
  <2>3. Asked[c].kind = "receive" => Len(Steps(c)) \in Nat /\ Len(Steps(c)) >= 4
    <3>1. Laid(Asked[c].kind, Steps(c)) /\ Steps(c) \in Seq(Statement)
      BY <1>0, <1>2, StepsLaid DEF Begun, CallsAre, Laid
    <3>2. Len(Steps(c)) \in Nat
      BY <3>1
    <3> QED
      BY <3>1, <3>2 DEF Laid, Ordered
  <2>4. Asked[c].kind = "receive" =>
           1 <= Len(Steps(c)) - 2 /\ ~(1 > Len(Steps(c)) - 2) /\ ~(1 > Len(Steps(c)) - 1) /\ ~(1 > Len(Steps(c)))
    BY <2>3
  <2> QED
    BY <1>0, <2>1, <2>2, <2>4 DEF Receiving
<1>3. CASE RolledBack(c)
  BY <1>1, <1>3 DEF RolledBack, Open
<1>4. CASE Triggered(c)
  <2>1. Open(c) /\ at'[c] = at[c] /\ paper'[c] = paper[c]
    BY <1>4 DEF Triggered, Here
  <2>2. challans' = challans
    BY DEF TablesKept
  <2>3. Sent(c)' = Sent(c) /\ Matched(c)' = Matched(c) /\ Sources(c)' = Sources(c) /\ RowsOf(c)' = RowsOf(c)
    BY <2>2, SameChallans
  <2>4. GotIs(c)' <=> GotIs(c)
    BY <2>1, <2>3 DEF GotIs
  <2>5. Returned(c)' <=> Returned(c)
    BY <1>0, <2>1, <2>2, <2>3 DEF Returned
  <2> QED
    BY <1>0, <2>1, <2>2, <2>3, <2>4, <2>5 DEF ReceiptStands, Receiving
<1>5. CASE Inserted(c) \/ Spoke(c)
  <2>0. Open(c) /\ at[c] > 0
    BY <1>5 DEF Inserted, Spoke, Doing, Open
  <2>1. CASE Asked[c].kind = "receive"
    <3>1. PICK n : n = Len(Steps(c))
      OBVIOUS
    <3>2. Receiving(c, n)
      BY <2>0, <2>1, <3>1 DEF ReceiptStands
    <3>3. Receiving(c, n)'
      BY <1>5, <2>1, <3>1, <3>2, ServedReceiving
    <3>4. Len(Steps(c))' = n
      BY <1>0, <3>1
    <3> QED
      BY <2>1, <3>1, <3>3, <3>4
  <2>2. CASE Asked[c].kind # "receive"
    <3>1. paper[c].rows = {}
      BY <2>0, <2>2 DEF ReceiptStands
    <3>2. ~Receipt(c)
      <4>1. Laid(Asked[c].kind, Steps(c))
        BY <1>0, <2>0, MoveStepsAre
      <4>2. Len(Steps(c)) \in Nat
        BY <1>0, <2>0, MoveStepsAre
      <4>3. ASSUME Receipt(c) PROVE FALSE
        <5>1. at[c] \in 1 .. Len(Steps(c)) /\ Steps(c)[at[c]].do = "receipt"
          BY <1>0, <2>0, <4>2, <4>3 DEF Receipt, Doing
        <5> QED
          BY <2>2, <4>1, <5>1 DEF Laid, Receives
      <4> QED
        BY <4>3
    <3> QED
      BY <1>5, <2>2, <3>1, <3>2 DEF Inserted, Spoke, WritesItsOwn
  <2> QED
    BY <2>1, <2>2
<1> QED
  BY <1>2, <1>3, <1>4, <1>5 DEF Served

LEMMA KeptReceipt ==
    ASSUME CallsAre, setting' = setting, ChallansAre, NEW c \in Call, Kept(c), ReceiptStands(c),
           Open(c) /\ Asked[c].kind = "receive" /\ at[c] > 1 => Grows(Asked[c].of)
    PROVE  ReceiptStands(c)'
<1>1. Asked' = Asked /\ Steps(c)' = Steps(c) /\ at[c] \in Nat
  BY StepsStay DEF CallsAre
<1>2. (Open(c))' <=> Open(c)
  BY DEF Open, Kept
<1>3. paper'[c] = paper[c]
  BY DEF Kept
<1>4. CASE Open(c) /\ Asked[c].kind = "receive"
  <2>1. PICK n : n = Len(Steps(c))
    OBVIOUS
  <2>2. at[c] > 0
    BY <1>4 DEF Open
  <2>3. n \in Nat /\ n >= 4
    <3>1. Laid("receive", Steps(c)) /\ Len(Steps(c)) \in Nat
      BY <1>4, <2>2, MoveStepsAre
    <3> QED
      BY <2>1, <3>1 DEF Laid, Ordered
  <2>4. Receiving(c, n)
    BY <1>4, <2>1 DEF ReceiptStands
  <2>5. Receiving(c, n)'
    BY <1>4, <2>2, <2>3, <2>4, KeptReceiving
  <2>6. Len(Steps(c))' = n
    BY <1>1, <2>1
  <2> QED
    BY <1>1, <1>2, <1>4, <2>5, <2>6 DEF ReceiptStands
<1>5. CASE ~(Open(c) /\ Asked[c].kind = "receive")
  BY <1>1, <1>2, <1>3, <1>5 DEF ReceiptStands
<1> QED
  BY <1>4, <1>5

LEMMA ReceiptsServed ==
    ASSUME StockInv, PapersAre, NEW c \in Call, Served(c), Answers(c), Alone(c), \A d \in Call : Here(d), ReceiptsInv
    PROVE  ReceiptsInv'
<1>0. /\ CallsAre /\ ReceiptsAre /\ ChallansAre /\ AllCameBack /\ CompletedIsReceived /\ setting' = setting
      /\ TablesKept /\ Here(c) /\ ReceiptStands(c)
  BY DEF StockInv, ReceiptsInv, Alone
<1>1. challans' = challans /\ receipts' = receipts /\ Asked' = Asked
  BY <1>0 DEF TablesKept, Asked
<1>2. ChallansAre'
  BY <1>0, <1>1 DEF ChallansAre, ChallanIs
<1>3. AllCameBack' /\ CompletedIsReceived'
  <2>1. AllCameBack'
    <3>1. ASSUME NEW d \in DOMAIN challans, NEW s \in challans[d].sent PROVE CameBack(d, s)'
      <4>1. Back(d, s)' = Back(d, s)
        BY <1>1 DEF Back
      <4>2. CameBack(d, s)
        BY <1>0 DEF AllCameBack
      <4> QED
        BY <1>1, <4>1, <4>2 DEF CameBack
    <3>2. \A d \in DOMAIN challans' : \A s \in challans'[d].sent : CameBack(d, s)'
      BY <1>1, <3>1
    <3> QED
      BY <3>2 DEF AllCameBack
  <2>2. CompletedIsReceived'
    BY <1>0, <1>1 DEF CompletedIsReceived
  <2> QED
    BY <2>1, <2>2
<1>4. ReceiptsAre'
  <2>1. ASSUME NEW r \in receipts PROVE ReceiptIs(r)'
    <3>1. ReceiptIs(r)
      BY <1>0 DEF ReceiptsAre
    <3>2. ended'[r.by] # "no"
      <4>1. CASE r.by = c
        BY <3>1, <4>1 DEF ReceiptIs, Served, Begun, RolledBack, Triggered, Inserted, Spoke, Open
      <4>2. CASE r.by # c
        BY <3>1, <4>2 DEF ReceiptIs, Alone, Kept
      <4> QED
        BY <4>1, <4>2
    <3> QED
      BY <1>1, <3>1, <3>2 DEF ReceiptIs
  <2> QED
    BY <1>0, <1>1, <2>1 DEF ReceiptsAre
<1>5. ASSUME NEW d \in Call PROVE ReceiptStands(d)'
  <2>1. CASE d = c
    BY <1>0, <2>1, ServedReceipt
  <2>2. CASE d # c
    <3>1. Kept(d) /\ ReceiptStands(d)
      BY <2>2 DEF Alone, ReceiptsInv
    <3>2. Asked[d].of \in DOMAIN challans => Grows(Asked[d].of)
      <4> SUFFICES ASSUME Asked[d].of \in DOMAIN challans PROVE Grows(Asked[d].of)
        OBVIOUS
      <4>1. \A s : At(challans[Asked[d].of].received, s) \in Nat
        BY <1>0 DEF ChallansAre, ChallanIs, At
      <4> QED
        BY <1>1, <4>1 DEF Grows
    <3>3. Open(d) /\ Asked[d].kind = "receive" /\ at[d] > 1 => Asked[d].of \in DOMAIN challans
      BY <3>1 DEF ReceiptStands, Receiving
    <3> QED
      BY <1>0, <3>1, <3>2, <3>3, KeptReceipt
  <2> QED
    BY <2>1, <2>2
<1> QED
  BY <1>2, <1>3, <1>4, <1>5 DEF ReceiptsInv

(* An IN challan commits: its lines are added to what the OUT challan       *)
(* received, and the status it read is written.                             *)
LEMMA ReceivingEnds ==
    ASSUME CallsAre, NEW c \in Call, Concluded(c), Asked[c].kind = "receive", ReceiptStands(c)
    PROVE  /\ Asked[c].of \in DOMAIN challans /\ paper[c].rows = RowsOf(c) /\ GotIs(c)
           /\ paper[c].status = "COMPLETED" => Returned(c)
<1>1. PICK n : n = Len(Steps(c))
  OBVIOUS
<1>2. Open(c) /\ at[c] = n + 1 /\ at[c] > 0
  BY <1>1 DEF Concluded, Open
<1>3. Receiving(c, n)
  BY <1>1, <1>2 DEF ReceiptStands
<1>4. n \in Nat /\ n >= 4
  <2>1. Laid("receive", Steps(c)) /\ Len(Steps(c)) \in Nat
    BY <1>2, MoveStepsAre
  <2> QED
    BY <1>1, <2>1 DEF Laid, Ordered
<1>5. at[c] > 1 /\ at[c] > n - 2 /\ at[c] > n - 1 /\ at[c] > n
  BY <1>2, <1>4
<1> QED
  BY <1>3, <1>5 DEF Receiving

LEMMA ChallanReceives ==
    ASSUME ChallansAre, NEW c \in Call, Commit(c), Asked[c].kind = "receive", Asked[c].of \in DOMAIN challans
    PROVE  /\ DOMAIN challans' = DOMAIN challans
           /\ \A d \in DOMAIN challans : d # Asked[c].of => challans'[d] = challans[d]
           /\ challans'[Asked[c].of] = [sent |-> challans[Asked[c].of].sent, received |-> Received(c),
                                        status |-> paper[c].status]
<1>1. PICK of : of = Asked[c].of
  OBVIOUS
<1>2. PICK ch : ch = challans[of]
  OBVIOUS
<1>3. ch = [sent |-> ch.sent, received |-> ch.received, status |-> ch.status]
  BY <1>1, <1>2 DEF ChallansAre, ChallanIs
<1>4. PICK got, st : got = Received(c) /\ st = paper[c].status
  OBVIOUS
<1>5. challans' = [challans EXCEPT ![of].received = got, ![of].status = st]
  BY <1>1, <1>4 DEF Commit
<1>6. DOMAIN challans' = DOMAIN challans /\ \A d \in DOMAIN challans : d # of => challans'[d] = challans[d]
  BY <1>5
<1>7. challans'[of] = [ch EXCEPT !.received = got, !.status = st]
  BY <1>1, <1>2, <1>5
<1>8. challans'[of] = [sent |-> ch.sent, received |-> got, status |-> st]
  BY <1>3, <1>7
<1> QED
  BY <1>1, <1>2, <1>4, <1>6, <1>8

LEMMA ReceivedIs ==
    ASSUME NEW c, \A s : At(challans[Asked[c].of].received, s) \in Nat /\ At(paper[c].got, s) \in Nat
    PROVE  \A s : At(Received(c), s) = At(challans[Asked[c].of].received, s) + At(paper[c].got, s)
<1> SUFFICES ASSUME NEW s
             PROVE  At(Received(c), s) = At(challans[Asked[c].of].received, s) + At(paper[c].got, s)
  OBVIOUS
<1>1. PICK old, got : old = challans[Asked[c].of].received /\ got = paper[c].got
  OBVIOUS
<1>2. Received(c) = [x \in DOMAIN old \cup DOMAIN got |-> At(old, x) + At(got, x)]
  BY <1>1 DEF Received
<1>3. CASE s \in DOMAIN old \cup DOMAIN got
  <2>1. At(Received(c), s) = At(old, s) + At(got, s)
    BY <1>2, <1>3 DEF At
  <2> QED
    BY <1>1, <2>1
<1>4. CASE s \notin DOMAIN old \cup DOMAIN got
  <2>1. At(Received(c), s) = 0 /\ At(old, s) = 0 /\ At(got, s) = 0
    BY <1>2, <1>4 DEF At
  <2> QED
    BY <1>1, <2>1
<1> QED
  BY <1>3, <1>4

(* Of the lines of an IN challan one matches a line sent, if any does: it   *)
(* is the one added.                                                        *)
RowsFor(c, s) == {r \in RowsOf(c) : Matches(r.line, s)}

LEMMA RowsForSome ==
    ASSUME NEW c, NEW s \in Matched(c), GotIs(c), OnceEach(RowsFor(c, s))
    PROVE  \E x : RowsFor(c, s) = {x} /\ x.line.qty = At(paper[c].got, s)
<1>1. PICK f \in Sources(c) : paper[c].got = [t \in Matched(c) |-> f[t].qty]
  BY DEF GotIs
<1>2. f[s] \in Lines(c) /\ Matches(f[s], s)
  BY DEF Sources
<1>3. PICK i \in DOMAIN Asked[c].lines : f[s] = Asked[c].lines[i]
  BY <1>2 DEF Lines
<1>4. PICK x : x = [by |-> c, n |-> i, line |-> Asked[c].lines[i]]
  OBVIOUS
<1>5. x \in RowsFor(c, s)
  BY <1>2, <1>3, <1>4 DEF RowsFor, RowsOf
<1>6. \A r \in RowsFor(c, s) : r.by = c
  BY DEF RowsFor, RowsOf
<1>7. \A r \in RowsFor(c, s) : r = x
  BY <1>4, <1>5, <1>6 DEF OnceEach
<1>8. RowsFor(c, s) = {x}
  BY <1>5, <1>7
<1>9. At(paper[c].got, s) = f[s].qty
  BY <1>1 DEF At
<1> QED
  BY <1>3, <1>4, <1>8, <1>9

LEMMA RowsForNone ==
    ASSUME NEW c, NEW s \in Sent(c), s \notin Matched(c), GotIs(c)
    PROVE  RowsFor(c, s) = {} /\ At(paper[c].got, s) = 0
<1>1. \A l \in Lines(c) : ~Matches(l, s)
  BY DEF Matched
<1>2. RowsFor(c, s) = {}
  BY <1>1 DEF RowsFor, RowsOf, Lines
<1>3. DOMAIN paper[c].got = Matched(c)
  BY DEF GotIs
<1> QED
  BY <1>2, <1>3 DEF At

LEMMA RowsAre ==
    ASSUME setting \in Settings, NEW c \in Asking, Asked[c].kind = "receive"
    PROVE  IsFiniteSet(RowsOf(c)) /\ \A r \in RowsOf(c) : r.by = c /\ r.line.qty \in Nat
<1>1. IsFiniteSet(DOMAIN Asked[c].lines) /\ \A i \in DOMAIN Asked[c].lines : Asked[c].lines[i].qty \in Nat
  BY LinesHave
<1>2. PICK f : f = [i \in DOMAIN Asked[c].lines |-> [by |-> c, n |-> i, line |-> Asked[c].lines[i]]]
  OBVIOUS
<1>3. f \in Surjection(DOMAIN Asked[c].lines, RowsOf(c))
  BY <1>2 DEF RowsOf, Surjection
<1>4. IsFiniteSet(RowsOf(c))
  BY <1>1, <1>3, FS_Surjection
<1> QED
  BY <1>1, <1>4 DEF RowsOf

LEMMA BackIs ==
    ASSUME setting' = setting, NEW c, receipts' = receipts \cup RowsOf(c), NEW d, NEW s
    PROVE  Back(d, s)' = Back(d, s) \cup (IF d = Asked[c].of THEN RowsFor(c, s) ELSE {})
<1>1. Asked' = Asked
  BY DEF Asked
<1>2. \A r \in RowsOf(c) : r.by = c
  BY DEF RowsOf
<1> QED
  BY <1>1, <1>2 DEF Back, RowsFor

LEMMA BackGrows ==
    ASSUME setting' = setting, setting \in Settings, ReceiptsAre, NEW c \in Asking, Asked[c].kind = "receive",
           NEW of, of = Asked[c].of, NEW s \in Sent(c), GotIs(c), receipts' = receipts \cup RowsOf(c),
           \A r \in receipts : r.by # c, At(challans[of].received, s) \in Nat,
           At(challans'[of].received, s) = At(challans[of].received, s) + At(paper[c].got, s), CameBack(of, s)
    PROVE  CameBack(of, s)'
<1>3. PICK B, N : B = Back(of, s) /\ N = RowsFor(c, s)
  OBVIOUS
<1>4. Back(of, s)' = B \cup N
  BY <1>3, BackIs
<1>5. SUFFICES ASSUME OnceEach(B \cup N) PROVE At(challans'[of].received, s) = Came(B \cup N)
  BY <1>4 DEF CameBack
<1>6. OnceEach(B) /\ OnceEach(N)
  BY <1>5 DEF OnceEach
<1>7. At(challans[of].received, s) = Came(B)
  BY <1>3, <1>6 DEF CameBack
<1>8. IsFiniteSet(B) /\ \A r \in B : r.line.qty \in Int
  <2>1. B \subseteq receipts /\ IsFiniteSet(receipts)
    BY <1>3 DEF Back, ReceiptsAre
  <2>2. IsFiniteSet(B)
    BY <2>1, FS_Subset
  <2> QED
    BY <2>1, <2>2 DEF ReceiptsAre, ReceiptIs
<1>9. CASE s \in Matched(c)
  <2>1. PICK x : N = {x} /\ x.line.qty = At(paper[c].got, s)
    BY <1>3, <1>6, <1>9, RowsForSome
  <2>2. x \in RowsOf(c)
    BY <1>3, <2>1 DEF RowsFor
  <2>3. x.by = c /\ x.line.qty \in Int
    BY <2>2, RowsAre
  <2>4. x \notin B
    BY <1>3, <2>3 DEF Back
  <2>5. Came(B \cup {x}) = Came(B) + x.line.qty
    BY <1>8, <2>3, <2>4, CameOfMore
  <2> QED
    BY <1>7, <2>1, <2>5
<1>10. CASE s \notin Matched(c)
  <2>1. N = {} /\ At(paper[c].got, s) = 0
    BY <1>3, <1>10, RowsForNone
  <2>2. B \cup N = B
    BY <2>1
  <2> QED
    BY <1>7, <2>1, <2>2
<1> QED
  BY <1>9, <1>10

(* The others' challans and receipts stand.                                 *)
LEMMA BackStays ==
    ASSUME setting' = setting, NEW c, receipts' = receipts \cup RowsOf(c), NEW d, d # Asked[c].of, NEW s,
           challans'[d] = challans[d], CameBack(d, s)
    PROVE  CameBack(d, s)'
<1>1. PICK B, N : B = Back(d, s) /\ N = (IF d = Asked[c].of THEN RowsFor(c, s) ELSE {})
  OBVIOUS
<1>2. Back(d, s)' = B \cup N
  BY <1>1, BackIs
<1>3. Back(d, s)' = B
  BY <1>1, <1>2
<1>4. OnceEach(B) => At(challans[d].received, s) = Came(B)
  BY <1>1 DEF CameBack
<1> QED
  BY <1>3, <1>4 DEF CameBack

LEMMA ReceiptStays ==
    ASSUME setting' = setting, NEW c, Concluded(c), DOMAIN challans \subseteq DOMAIN challans', NEW r, ReceiptIs(r)
    PROVE  ReceiptIs(r)'
<1>1. Asked' = Asked
  BY DEF Asked
<1>2. ended'[r.by] # "no"
  BY DEF ReceiptIs, Concluded, Kept
<1> QED
  BY <1>1, <1>2 DEF ReceiptIs

LEMMA ReceiptsBefore ==
    ASSUME ReceiptsAre, NEW c \in Call, Open(c) PROVE \A r \in receipts : r.by # c
  BY DEF ReceiptsAre, ReceiptIs, Open

(* The call that commits is over; the others see what was received grow.    *)
LEMMA OthersStand ==
    ASSUME CallsAre, ChallansAre, NEW c \in Call, Concluded(c), \A d \in Call : ReceiptStands(d),
           \A of \in DOMAIN challans : Grows(of)
    PROVE  \A d \in Call : ReceiptStands(d)'
<1> SUFFICES ASSUME NEW d \in Call PROVE ReceiptStands(d)'
  OBVIOUS
<1>1. CASE d = c
  BY <1>1 DEF ReceiptStands, Concluded, Open
<1>2. CASE d # c
  <2>1. Kept(d) /\ setting' = setting
    BY <1>2 DEF Concluded
  <2>2. Open(d) /\ Asked[d].kind = "receive" /\ at[d] > 1 => Asked[d].of \in DOMAIN challans
    BY DEF ReceiptStands, Receiving
  <2> QED
    BY <2>1, <2>2, KeptReceipt
<1> QED
  BY <1>1, <1>2

LEMMA ReceivesCommit ==
    ASSUME StockInv, NEW c \in Call, Commit(c), Concluded(c), Asked[c].kind = "receive", ReceiptsInv
    PROVE  ReceiptsInv'
<1>0. /\ CallsAre /\ ReceiptsAre /\ ChallansAre /\ AllCameBack /\ CompletedIsReceived /\ setting' = setting
      /\ ReceiptStands(c) /\ Open(c) /\ at[c] > 0
  BY DEF StockInv, ReceiptsInv, Concluded, Open
<1>1. c \in Asking /\ setting \in Settings
  BY <1>0 DEF CallsAre
<1>2. PICK of : of = Asked[c].of
  OBVIOUS
<1>3. of \in DOMAIN challans /\ paper[c].rows = RowsOf(c) /\ GotIs(c) /\ (paper[c].status = "COMPLETED" => Returned(c))
  BY <1>0, <1>2, ReceivingEnds
<1>4. /\ DOMAIN challans' = DOMAIN challans
      /\ \A d \in DOMAIN challans : d # of => challans'[d] = challans[d]
      /\ challans'[of] = [sent |-> challans[of].sent, received |-> Received(c), status |-> paper[c].status]
  BY <1>0, <1>2, <1>3, ChallanReceives
<1>5. challans'[of].sent = challans[of].sent /\ challans'[of].received = Received(c) /\ challans'[of].status = paper[c].status
  BY <1>4
<1>6. receipts' = receipts \cup RowsOf(c)
  BY <1>3 DEF Commit
<1>7. \A r \in receipts : r.by # c
  BY <1>0, ReceiptsBefore
<1>8. \A s : At(paper[c].got, s) \in Nat
  BY <1>1, <1>3, GotAre
<1>9. \A d \in DOMAIN challans : \A s : At(challans[d].received, s) \in Nat
  BY <1>0 DEF ChallansAre, ChallanIs, At
<1>10. \A s : At(challans'[of].received, s) = At(challans[of].received, s) + At(paper[c].got, s)
  BY <1>2, <1>3, <1>5, <1>8, <1>9, ReceivedIs
<1>11. ASSUME NEW d \in DOMAIN challans PROVE Grows(d)
  <2>1. CASE d = of
    <3>1. ASSUME NEW s
          PROVE  /\ At(challans[d].received, s) \in Nat /\ At(challans'[d].received, s) \in Nat
                 /\ At(challans'[d].received, s) >= At(challans[d].received, s)
      BY <1>8, <1>9, <1>10, <2>1
    <3> QED
      BY <1>4, <1>5, <2>1, <3>1 DEF Grows
  <2>2. CASE d # of
    <3>1. challans'[d] = challans[d] /\ \A s : At(challans[d].received, s) \in Nat
      BY <1>4, <1>9, <2>2
    <3> QED
      BY <1>4, <3>1 DEF Grows
  <2> QED
    BY <2>1, <2>2
<1>12. \A d \in Call : ReceiptStands(d)'
  BY <1>0, <1>11, OthersStand DEF ReceiptsInv
<1>13. ReceiptsAre'
  <2>1. IsFiniteSet(RowsOf(c)) /\ \A r \in RowsOf(c) : r.by = c /\ r.line.qty \in Nat
    BY <1>1, RowsAre
  <2>2. IsFiniteSet(receipts')
    BY <1>0, <1>6, <2>1, FS_Union DEF ReceiptsAre
  <2>3. ASSUME NEW r \in receipts PROVE ReceiptIs(r)'
    BY <1>0, <1>4, ReceiptStays DEF ReceiptsAre
  <2>4. ASSUME NEW r \in RowsOf(c) PROVE ReceiptIs(r)'
    <3>1. Asked' = Asked
      BY <1>0 DEF Asked
    <3>2. ended'[c] # "no"
      BY DEF Concluded
    <3> QED
      BY <1>2, <1>3, <1>4, <2>1, <3>1, <3>2 DEF ReceiptIs
  <2> QED
    BY <1>6, <2>2, <2>3, <2>4 DEF ReceiptsAre
<1>14. ChallansAre'
  <2> SUFFICES ASSUME NEW d \in DOMAIN challans PROVE ChallanIs(d)'
    BY <1>4 DEF ChallansAre
  <2>1. CASE d = of
    <3>1. \A x \in DOMAIN Received(c) : Received(c)[x] \in Nat
      <4> SUFFICES ASSUME NEW x \in DOMAIN Received(c) PROVE Received(c)[x] \in Nat
        OBVIOUS
      <4>1. Received(c)[x] = At(Received(c), x)
        BY DEF At
      <4> QED
        BY <1>3, <1>5, <1>8, <1>9, <1>10, <4>1
    <3>2. d \in Call /\ \A s \in challans[d].sent : s.qty \in Nat
      BY <1>0 DEF ChallansAre, ChallanIs
    <3> QED
      BY <1>4, <1>5, <2>1, <3>1, <3>2 DEF ChallanIs
  <2>2. CASE d # of
    BY <1>0, <1>4, <2>2 DEF ChallansAre, ChallanIs
  <2> QED
    BY <2>1, <2>2
<1>15. AllCameBack'
  <2>1. ASSUME NEW d \in DOMAIN challans, NEW s \in challans[d].sent PROVE CameBack(d, s)'
    <3>1. CameBack(d, s)
      BY <1>0 DEF AllCameBack
    <3>2. CASE d = of
      <4>1. s \in Sent(c)
        BY <1>2, <3>2 DEF Sent
      <4>2. At(challans[d].received, s) \in Nat
        BY <1>9
      <4>3. At(challans'[d].received, s) = At(challans[d].received, s) + At(paper[c].got, s)
        BY <1>10, <3>2
      <4> QED
        BY <1>0, <1>1, <1>2, <1>3, <1>6, <1>7, <3>1, <3>2, <4>1, <4>2, <4>3, BackGrows
    <3>3. CASE d # of
      BY <1>0, <1>2, <1>4, <1>6, <3>1, <3>3, BackStays
    <3> QED
      BY <3>2, <3>3
  <2>2. \A d \in DOMAIN challans : challans'[d].sent = challans[d].sent
    BY <1>4, <1>5
  <2> QED
    BY <1>4, <2>1, <2>2 DEF AllCameBack
<1>16. CompletedIsReceived'
  <2> SUFFICES ASSUME NEW d \in DOMAIN challans, challans'[d].status = "COMPLETED", NEW s \in challans'[d].sent
               PROVE  At(challans'[d].received, s) >= s.qty
    BY <1>4 DEF CompletedIsReceived
  <2>1. CASE d = of
    <3>1. s \in Sent(c) /\ Returned(c)
      BY <1>2, <1>3, <1>5, <2>1 DEF Sent
    <3> QED
      BY <1>2, <1>10, <2>1, <3>1 DEF Returned
  <2>2. CASE d # of
    BY <1>0, <1>4, <2>2 DEF CompletedIsReceived
  <2> QED
    BY <2>1, <2>2
<1> QED
  BY <1>12, <1>13, <1>14, <1>15, <1>16 DEF ReceiptsInv

(* An OUT challan commits with nothing received.                            *)
LEMMA NewChallanIs ==
    ASSUME setting \in Settings, NEW c \in Asking, Asked[c].kind = "sendOut"
    PROVE  /\ NewChallan(c) = [sent |-> NewChallan(c).sent, received |-> Nowhere, status |-> "SENT"]
           /\ \A s \in NewChallan(c).sent : s.qty \in Nat
<1>1. AreLines(Asked[c].lines)
  BY GoodsAssumption DEF Asked, Asking
<1>2. \A l \in Lines(c) : l.qty \in Nat
  BY <1>1 DEF AreLines, Lines
<1>3. \A s \in {[item |-> l.item, type |-> l.type, qty |-> l.qty] : l \in Lines(c)} : s.qty \in Nat
  BY <1>2
<1>4. PICK sent : sent = {[item |-> l.item, type |-> l.type, qty |-> l.qty] : l \in Lines(c)}
  OBVIOUS
<1>5. NewChallan(c) = [sent |-> sent, received |-> Nowhere, status |-> "SENT"]
  BY <1>4 DEF NewChallan
<1> QED
  BY <1>3, <1>4, <1>5

(* Any other commit leaves the challans that are there alone.               *)
LEMMA OthersCommit ==
    ASSUME StockInv, NEW c \in Call, Commit(c), Concluded(c), Asked[c].kind # "receive", Atomic(c), ReceiptsInv
    PROVE  ReceiptsInv'
<1>0. /\ CallsAre /\ ReceiptsAre /\ ChallansAre /\ AllCameBack /\ CompletedIsReceived /\ setting' = setting
      /\ ReceiptStands(c) /\ Open(c) /\ at[c] > 0 /\ ended[c] = "no"
  BY DEF StockInv, ReceiptsInv, Concluded, Open
<1>1. c \in Asking /\ setting \in Settings
  BY <1>0 DEF CallsAre
<1>2. c \notin DOMAIN challans
  BY <1>0 DEF Atomic, Did
<1>3. receipts' = receipts
  <2>1. paper[c].rows = {}
    BY <1>0 DEF ReceiptStands
  <2> QED
    BY <2>1 DEF Commit
<1>4. /\ \A d \in DOMAIN challans : d \in DOMAIN challans' /\ challans'[d] = challans[d]
      /\ \A d \in DOMAIN challans' : d \in DOMAIN challans \/
            (d = c /\ Asked[c].kind = "sendOut" /\ challans'[c] = NewChallan(c))
  <2>1. CASE Asked[c].kind = "sendOut"
    <3>1. challans' = Put(challans, c, NewChallan(c))
      BY <2>1 DEF Commit
    <3> QED
      BY <1>2, <2>1, <3>1 DEF Put
  <2>2. CASE Asked[c].kind # "sendOut"
    <3>1. challans' = challans
      BY <2>2 DEF Commit
    <3> QED
      BY <3>1
  <2> QED
    BY <2>1, <2>2
<1>5. ASSUME NEW d \in DOMAIN challans PROVE Grows(d)
  <2>1. \A s : At(challans[d].received, s) \in Nat
    BY <1>0 DEF ChallansAre, ChallanIs, At
  <2> QED
    BY <1>4, <2>1 DEF Grows
<1>6. \A d \in Call : ReceiptStands(d)'
  BY <1>0, <1>5, OthersStand DEF ReceiptsInv
<1>7. ReceiptsAre'
  <2>1. DOMAIN challans \subseteq DOMAIN challans'
    BY <1>4
  <2>2. ASSUME NEW r \in receipts PROVE ReceiptIs(r)'
    BY <1>0, <2>1, ReceiptStays DEF ReceiptsAre
  <2> QED
    BY <1>0, <1>3, <2>2 DEF ReceiptsAre
<1>8. ASSUME Asked[c].kind = "sendOut"
      PROVE  /\ NewChallan(c) = [sent |-> NewChallan(c).sent, received |-> Nowhere, status |-> "SENT"]
             /\ \A s \in NewChallan(c).sent : s.qty \in Nat
  BY <1>1, <1>8, NewChallanIs
<1>9. ChallansAre'
  <2> SUFFICES ASSUME NEW d \in DOMAIN challans' PROVE ChallanIs(d)'
    BY DEF ChallansAre
  <2>1. CASE d \in DOMAIN challans
    BY <1>0, <1>4, <2>1 DEF ChallansAre, ChallanIs
  <2>2. CASE d \notin DOMAIN challans
    <3>1. d = c /\ challans'[d] = NewChallan(c) /\ Asked[c].kind = "sendOut"
      BY <1>4, <2>2
    <3>2. challans'[d].received = Nowhere
      BY <1>8, <3>1
    <3>3. \A x \in DOMAIN challans'[d].received : challans'[d].received[x] \in Nat
      BY <3>2 DEF Nowhere
    <3>4. challans'[d] = [sent |-> challans'[d].sent, received |-> challans'[d].received, status |-> challans'[d].status]
      BY <1>8, <3>1
    <3> QED
      BY <1>8, <3>1, <3>3, <3>4 DEF ChallanIs
  <2> QED
    BY <2>1, <2>2
<1>10. Asked' = Asked
  BY <1>0 DEF Asked
<1>11. AllCameBack'
  <2> SUFFICES ASSUME NEW d \in DOMAIN challans', NEW s \in challans'[d].sent PROVE CameBack(d, s)'
    BY DEF AllCameBack
  <2>0. Back(d, s)' = Back(d, s)
    BY <1>3, <1>10 DEF Back
  <2>1. CASE d \in DOMAIN challans
    <3>1. CameBack(d, s) /\ challans'[d] = challans[d]
      BY <1>0, <1>4, <2>1 DEF AllCameBack
    <3> QED
      BY <2>0, <3>1 DEF CameBack
  <2>2. CASE d \notin DOMAIN challans
    <3>1. Back(d, s) = {}
      BY <1>0, <2>2 DEF Back, ReceiptsAre, ReceiptIs
    <3>2. Came(Back(d, s)) = 0
      BY <3>1, CameOfNone
    <3>3. challans'[d].received = Nowhere
      BY <1>4, <1>8, <2>2
    <3>4. At(challans'[d].received, s) = 0
      BY <3>3 DEF At, Nowhere
    <3> QED
      BY <2>0, <3>2, <3>4 DEF CameBack
  <2> QED
    BY <2>1, <2>2
<1>12. CompletedIsReceived'
  <2> SUFFICES ASSUME NEW d \in DOMAIN challans', challans'[d].status = "COMPLETED", NEW s \in challans'[d].sent
               PROVE  At(challans'[d].received, s) >= s.qty
    BY DEF CompletedIsReceived
  <2>1. d \in DOMAIN challans
    <3> SUFFICES ASSUME d \notin DOMAIN challans PROVE FALSE
      OBVIOUS
    <3>1. challans'[d].status = "SENT"
      BY <1>4, <1>8
    <3> QED
      BY <3>1
  <2> QED
    BY <1>0, <1>4, <2>1 DEF CompletedIsReceived
<1> QED
  BY <1>6, <1>7, <1>9, <1>11, <1>12 DEF ReceiptsInv

(* What holds of the services in every state.                               *)
OfCalls == taxed \cup journals \cup DOMAIN challans \cup DOMAIN invoices \subseteq Call
EachServes == \A c \in Call : Here(c) /\ KeyStands(c) /\ Atomic(c)
ServiceInv == PapersAre /\ OfCalls /\ EachServes /\ NumbersInv /\ ReceiptsInv

LEMMA ServiceStarts == TradingInit => ServiceInv
<1> SUFFICES ASSUME TradingInit PROVE ServiceInv
  OBVIOUS
<1>1. /\ stage = [c \in Call |-> "none"] /\ tx = [c \in Call |-> Nothing] /\ moved = {}
      /\ at = [c \in Call |-> 0] /\ ended = [c \in Call |-> "no"] /\ paper = [c \in Call |-> Blank]
      /\ posted = {} /\ taxed = {} /\ journals = {} /\ challans = Nowhere /\ receipts = {} /\ invoices = Nowhere
  BY DEF TradingInit, StockInit
<1>2. DOMAIN challans = {} /\ DOMAIN invoices = {}
  BY <1>1 DEF Nowhere
<1>3. \A c \in Call : at[c] = 0 /\ ended[c] = "no" /\ ~Open(c) /\ paper[c] = Blank /\ stage[c] = "none" /\ tx[c] = Nothing
  BY <1>1 DEF Open
<1>4. PapersAre
  <2>1. IsPaper(Blank)
    BY DEF IsPaper, Blank
  <2> QED
    BY <1>1, <2>1 DEF PapersAre
<1>5. OfCalls
  BY <1>1, <1>2 DEF OfCalls
<1>6. EachServes
  <2> SUFFICES ASSUME NEW c \in Call PROVE Here(c) /\ KeyStands(c) /\ Atomic(c)
    BY DEF EachServes
  <2>1. Here(c) /\ KeyStands(c)
    BY <1>3 DEF Here, KeyStands
  <2>2. Numbers(MovesOf(c)) = {}
    BY <1>1 DEF Numbers, MovesOf
  <2>3. Atomic(c)
    BY <1>1, <1>2, <1>3, <2>2 DEF Atomic, Did
  <2> QED
    BY <2>1, <2>3
<1>7. NumbersInv
  <2>1. Used = {}
    BY <1>2 DEF Used
  <2>2. Issued = 0
    BY <1>2, FS_EmptySet DEF Issued
  <2>3. Used = 1 .. Issued
    BY <2>1, <2>2
  <2>4. NumbersRun
    BY <1>2, <2>3 DEF NumbersRun
  <2>5. \A c \in Call, n \in {2, 3} : ~Counting(c, n)
    BY <1>3 DEF Counting
  <2> QED
    BY <2>4, <2>5 DEF NumbersInv, OneCounts, NumberStands
<1>8. ReceiptsInv
  <2>1. ReceiptsAre
    BY <1>1, FS_EmptySet DEF ReceiptsAre
  <2>2. ChallansAre /\ AllCameBack /\ CompletedIsReceived
    BY <1>2 DEF ChallansAre, AllCameBack, CompletedIsReceived
  <2>3. \A c \in Call : ReceiptStands(c)
    BY <1>3 DEF ReceiptStands
  <2> QED
    BY <2>1, <2>2, <2>3 DEF ReceiptsInv
<1> QED
  BY <1>4, <1>5, <1>6, <1>7, <1>8 DEF ServiceInv

(* Nothing happens.                                                         *)
LEMMA ServiceStays ==
    ASSUME CallsAre, \A d \in Call : Kept(d), TablesKept, UNCHANGED <<paper, setting>>, ServiceInv
    PROVE  ServiceInv'
<1>0. /\ paper' = paper /\ setting' = setting /\ Asked' = Asked
      /\ posted' = posted /\ taxed' = taxed /\ journals' = journals /\ challans' = challans
      /\ receipts' = receipts /\ invoices' = invoices /\ moved' = moved
  BY DEF TablesKept, Asked
<1>1. PapersAre' /\ OfCalls'
  BY <1>0 DEF ServiceInv, PapersAre, OfCalls
<1>2. EachServes'
  <2> SUFFICES ASSUME NEW d \in Call PROVE Here(d)' /\ KeyStands(d)' /\ Atomic(d)'
    BY DEF EachServes
  <2>1. Kept(d) /\ Here(d) /\ KeyStands(d) /\ Atomic(d)
    BY DEF ServiceInv, EachServes
  <2>2. Here(d)'
    BY <1>0, <2>1, KeptHere
  <2>3. KeyStands(d)'
    BY <1>0, <2>1, KeptKey
  <2>4. Atomic(d)'
    BY <1>0, <2>1, KeptAtomic DEF Kept
  <2> QED
    BY <2>2, <2>3, <2>4
<1>3. NumbersInv'
  <2>1. NumbersRun' /\ Issued' = Issued
    <3>1. Used' = Used /\ Issued' = Issued
      BY <1>0 DEF Used, Issued
    <3>2. \A c \in Call : ended'[c] = ended[c]
      BY DEF Kept
    <3> QED
      BY <1>0, <3>1, <3>2 DEF ServiceInv, NumbersInv, NumbersRun
  <2>2. ASSUME NEW d \in Call PROVE ((Counting(d, 2))' <=> Counting(d, 2)) /\ ((Counting(d, 3))' <=> Counting(d, 3))
    BY <1>0, KeptCounting
  <2>3. OneCounts'
    BY <2>2 DEF ServiceInv, NumbersInv, OneCounts
  <2>4. ASSUME NEW d \in Call PROVE NumberStands(d)'
    BY <1>0, <2>1, <2>2 DEF ServiceInv, NumbersInv, NumberStands
  <2> QED
    BY <2>1, <2>3, <2>4 DEF NumbersInv
<1>4. ReceiptsInv'
  <2>0. ReceiptsAre /\ ChallansAre /\ AllCameBack /\ CompletedIsReceived
    BY DEF ServiceInv, ReceiptsInv
  <2>1. ChallansAre' /\ CompletedIsReceived'
    BY <1>0, <2>0 DEF ChallansAre, ChallanIs, CompletedIsReceived
  <2>2. AllCameBack'
    <3> SUFFICES ASSUME NEW d \in DOMAIN challans, NEW s \in challans[d].sent PROVE CameBack(d, s)'
      BY <1>0 DEF AllCameBack
    <3>1. Back(d, s)' = Back(d, s)
      BY <1>0 DEF Back
    <3> QED
      BY <1>0, <2>0, <3>1 DEF AllCameBack, CameBack
  <2>3. ReceiptsAre'
    BY <1>0, <2>0 DEF ReceiptsAre, ReceiptIs, Kept
  <2>4. ASSUME NEW d \in Call PROVE ReceiptStands(d)'
    <3>1. Kept(d) /\ ReceiptStands(d)
      BY DEF ServiceInv, ReceiptsInv
    <3>2. Asked[d].of \in DOMAIN challans => Grows(Asked[d].of)
      <4> SUFFICES ASSUME Asked[d].of \in DOMAIN challans PROVE Grows(Asked[d].of)
        OBVIOUS
      <4>1. \A s : At(challans[Asked[d].of].received, s) \in Nat
        BY <2>0 DEF ChallansAre, ChallanIs, At
      <4> QED
        BY <1>0, <4>1 DEF Grows
    <3>3. Open(d) /\ Asked[d].kind = "receive" /\ at[d] > 1 => Asked[d].of \in DOMAIN challans
      BY <3>1 DEF ReceiptStands, Receiving
    <3> QED
      BY <1>0, <2>0, <3>1, <3>2, <3>3, KeptReceipt
  <2> QED
    BY <2>1, <2>2, <2>3, <2>4 DEF ReceiptsInv
<1> QED
  BY <1>1, <1>2, <1>3, <1>4 DEF ServiceInv

(* A statement of a service, or its end without a commit.                   *)
LEMMA ServiceGoes ==
    ASSUME StockInv, ServiceInv, NEW c \in Call, TradingStep(c), ~Commit(c), setting' = setting
    PROVE  ServiceInv'
<1>0. PapersAre /\ OfCalls /\ NumbersInv /\ ReceiptsInv /\ \A d \in Call : Here(d) /\ KeyStands(d) /\ Atomic(d)
  BY DEF ServiceInv, EachServes
<1>1. Alone(c) /\ Served(c) /\ Answers(c)
  BY <1>0, StepServes
<1>2. PapersAre' /\ TablesKept /\ \A d \in Call \ {c} : Kept(d)
  BY <1>1 DEF Alone
<1>3. OfCalls'
  BY <1>0, <1>2 DEF OfCalls, TablesKept
<1>4. EachServes'
  <2> SUFFICES ASSUME NEW d \in Call PROVE Here(d)' /\ KeyStands(d)' /\ Atomic(d)'
    BY DEF EachServes
  <2>1. CASE d = c
    <3>1. Here(c)'
      BY <1>0, <1>1, ServedHere
    <3>2. KeyStands(c)'
      BY <1>0, <1>1, <1>2, ServedKey
    <3>3. Atomic(c)'
      BY <1>0, <1>1, <1>2, ServedAtomic
    <3> QED
      BY <2>1, <3>1, <3>2, <3>3
  <2>2. CASE d # c
    <3>1. Kept(d) /\ Here(d) /\ KeyStands(d) /\ Atomic(d)
      BY <1>0, <1>2, <2>2
    <3>2. Here(d)'
      BY <3>1, KeptHere
    <3>3. KeyStands(d)'
      BY <1>2, <3>1, KeptKey DEF TablesKept
    <3>4. Atomic(d)'
      BY <1>2, <3>1, KeptAtomic DEF Kept
    <3> QED
      BY <3>2, <3>3, <3>4
  <2> QED
    BY <2>1, <2>2
<1>5. NumbersInv'
  BY <1>0, <1>1, NumbersServed
<1>6. ReceiptsInv'
  BY <1>0, <1>1, ReceiptsServed
<1> QED
  BY <1>2, <1>3, <1>4, <1>5, <1>6 DEF ServiceInv

LEMMA ServiceCommits ==
    ASSUME StockInv, ServiceInv, NEW c \in Call, Commit(c), setting' = setting PROVE ServiceInv'
<1>0. PapersAre /\ OfCalls /\ NumbersInv /\ ReceiptsInv /\ \A d \in Call : Here(d) /\ KeyStands(d) /\ Atomic(d)
  BY DEF ServiceInv, EachServes
<1>1. Concluded(c)
  BY <1>0, CommitConcludes
<1>2. PapersAre' /\ \A d \in Call \ {c} : Kept(d)
  BY <1>1 DEF Concluded
<1>3. NumbersInv'
  BY <1>0, <1>1, NumbersCommit
<1>4. OfCalls'
  <2>1. DOMAIN invoices' \subseteq Call
    BY <1>3 DEF NumbersInv, NumbersRun
  <2>2. taxed' \subseteq taxed \cup {c} /\ journals' \subseteq journals \cup {c}
        /\ DOMAIN challans' \subseteq DOMAIN challans \cup {c}
    BY CommitTables DEF With
  <2> QED
    BY <1>0, <2>1, <2>2 DEF OfCalls
<1>5. EachServes'
  <2> SUFFICES ASSUME NEW d \in Call PROVE Here(d)' /\ KeyStands(d)' /\ Atomic(d)'
    BY DEF EachServes
  <2>1. Here(d)'
    <3>1. CASE d = c
      BY <1>0, <1>1, <3>1, ConcludedHere
    <3>2. CASE d # c
      <4>1. Kept(d) /\ Here(d)
        BY <1>0, <1>2, <3>2
      <4> QED
        BY <4>1, KeptHere
    <3> QED
      BY <3>1, <3>2
  <2>2. KeyStands(d)' /\ Atomic(d)'
    BY <1>0, <1>1, CommitAtomic
  <2> QED
    BY <2>1, <2>2
<1>6. ReceiptsInv'
  BY <1>0, <1>1, ReceivesCommit, OthersCommit
<1> QED
  BY <1>2, <1>3, <1>4, <1>5, <1>6 DEF ServiceInv

LEMMA ServiceSteps == ASSUME StockInv, ServiceInv, [TradingNext]_tradingVars PROVE ServiceInv'
<1>1. CASE UNCHANGED tradingVars
  <2>1. /\ stage' = stage /\ moving' = moving /\ tx' = tx /\ moved' = moved /\ at' = at /\ ended' = ended
        /\ paper' = paper /\ setting' = setting /\ posted' = posted /\ taxed' = taxed /\ journals' = journals
        /\ challans' = challans /\ receipts' = receipts /\ invoices' = invoices
    BY <1>1, ZenonT(60) DEF tradingVars, serviceVars, stockVars, papers
  <2>2. (\A d \in Call : Kept(d)) /\ TablesKept
    BY <2>1 DEF Kept, TablesKept
  <2> QED
    BY <2>1, <2>2, ServiceStays DEF StockInv
<1>2. CASE TradingNext
  <2>1. PICK c \in Call : TradingStep(c) /\ setting' = setting
    BY <1>2 DEF TradingNext
  <2> QED
    BY <2>1, ServiceGoes, ServiceCommits
<1> QED
  BY <1>1, <1>2

LEMMA ServiceMeans == ASSUME StockInv, ServiceInv PROVE ServicesAddUp
<1>0. /\ CallsAre /\ OfCalls /\ NumbersRun /\ ReceiptsInv /\ \A c \in Call : Here(c) /\ Atomic(c)
  BY DEF StockInv, ServiceInv, EachServes, NumbersInv
<1>1. TradingTypeOK
  <2>1. StockTypeOK
    BY StockMeans
  <2>2. \A c \in Call : at[c] > 0 => c \in Asking /\ at[c] <= Len(Steps(c)) + 1
    BY <1>0 DEF CallsAre, Here
  <2>3. \A c \in Call : ended[c] # "no" => tx[c] = Nothing /\ paper[c] = Blank
    BY <1>0 DEF Here, Open
  <2> QED
    BY <1>0, <2>1, <2>2, <2>3 DEF TradingTypeOK, CallsAre, OfCalls
<1>2. ServicesAreAtomic
  <2> SUFFICES ASSUME NEW c \in Call
               PROVE  /\ {m.n : m \in MovesOf(c)} = IF ended[c] = "committed" THEN MoveSteps(c) ELSE {}
                      /\ c \in taxed <=> c \in Committed("sale")
                      /\ c \in taxed => Known(Asked[c].key)
                      /\ c \in journals <=> c \in Committed("produce")
                      /\ c \in DOMAIN challans <=> c \in Committed("sendOut")
    BY DEF ServicesAreAtomic
  <2>1. Atomic(c)
    BY <1>0
  <2> QED
    BY <2>1 DEF Atomic, Numbers, Did, Committed
<1>3. ReceiptsAddUp /\ CompletedIsReceived
  BY <1>0, AddUpIs DEF ReceiptsInv
<1>4. NumbersRunOn
  BY <1>0 DEF NumbersRun, NumbersRunOn, Used, Issued
<1> QED
  BY <1>1, <1>2, <1>3, <1>4 DEF ServicesAddUp

(* What the services leave behind adds up, for any requests of any calls in *)
(* any interleaving, with failures anywhere: a sale, a challan or a         *)
(* production is there with its movements and its own rows or not at all,   *)
(* what a challan received is what the IN challans of it say, one that says *)
(* COMPLETED has its goods back, and counter invoices have no gaps.         *)
THEOREM WholeServices == TradingSpec => []ServicesAddUp
<1>1. TradingInit => StockInv /\ ServiceInv
  BY StockStarts, ServiceStarts DEF TradingInit
<1>2. StockInv /\ ServiceInv /\ [TradingNext]_tradingVars => StockInv' /\ ServiceInv'
  BY StockSteps, ServiceSteps
<1>3. StockInv /\ ServiceInv => ServicesAddUp
  BY ServiceMeans
<1> QED
  BY <1>1, <1>2, <1>3, PTL DEF TradingSpec
=============================================================================
