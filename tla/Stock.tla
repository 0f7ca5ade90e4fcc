------------------------------- MODULE Stock -------------------------------
(***************************************************************************)
(* The stock ledger: stock_transactions, stock_layers and stock_valuations  *)
(* of src/inventory_schema.sql with the triggers of                         *)
(* src/stock_accounting_triggers.sql.  Services insert a movement; the      *)
(* triggers check it, consume layers first in first out, and maintain the   *)
(* quantity on hand.  One action is one statement of a trigger: between     *)
(* them other transactions run (READ COMMITTED).                            *)
(*                                                                         *)
(* A bin is an item in a godown.  Quantities are in the base unit; rates    *)
(* and values are left out.  tx[c] is what the open transaction of call c   *)
(* wrote and the rows it locked: nobody else sees it before COMMIT.         *)
(***************************************************************************)
EXTENDS Integers, Sequences, FiniteSets, FiniteSetsExt, SequencesExt

CONSTANTS
    Call,       \* the requests a run considers
    Bin,        \* (stock_item_id, godown_id) pairs
    Opening     \* the layers OPENING_STOCK brought, oldest first

ASSUME CallAssumption == IsFiniteSet(Call)
ASSUME OpeningAssumption == Opening \in Seq([bin : Bin, left : Nat \ {0}])

Inward    == {"PURCHASE", "PURCHASE_RETURN", "TRANSFER_IN", "ADJUSTMENT_IN",
              "PRODUCTION_IN", "OPENING_STOCK"}
Layered   == {"PURCHASE", "PURCHASE_RETURN", "PRODUCTION_IN", "OPENING_STOCK"}
Consuming == {"SALES", "SALES_RETURN", "TRANSFER_OUT", "PRODUCTION_OUT"}
Outward   == Consuming \cup {"ADJUSTMENT_OUT"}

Movement == [by : Call, n : Nat, kind : Inward \cup Outward, bin : Bin, qty : Nat \ {0}]
Idle     == [kind |-> "none"]

VARIABLES
    stage,      \* stage[c]: the trigger c's INSERT is at, "none" between INSERTs
    moving,     \* moving[c]: the movement c inserts
    tx,         \* tx[c]: the uncommitted work of c
    layers,     \* committed stock_layers: layer_id -> bin, remaining_quantity
    lastLayer,  \* the identity sequence of stock_layers
    quantity,   \* committed stock_valuations: bin -> total_quantity
    moved       \* committed stock_transactions

stockVars == <<stage, moving, tx, layers, lastLayer, quantity, moved>>
stockTables == <<layers, quantity, moved>>

Nowhere == [x \in {} |-> 0]
Nothing == [cursor |-> {}, held |-> {}, taken |-> Nowhere, fresh |-> Nowhere,
            delta |-> Nowhere, moved |-> {}]

(* What c sees: the committed rows and its own changes to them.             *)
At(f, x)     == IF x \in DOMAIN f THEN f[x] ELSE 0
Layer(c, l)  == IF l \in DOMAIN layers THEN layers[l] ELSE tx[c].fresh[l]
Left(c, l)   == Layer(c, l).left - At(tx[c].taken, l)
Visible(c)   == DOMAIN layers \cup DOMAIN tx[c].fresh
HasRow(c, b) == b \in DOMAIN quantity \cup DOMAIN tx[c].delta
OnHand(c, b) == At(quantity, b) + At(tx[c].delta, b)

Put(f, x, v) == [y \in DOMAIN f \cup {x} |-> IF y = x THEN v ELSE f[y]]

StockInit ==
    /\ stage = [c \in Call |-> "none"]
    /\ moving = [c \in Call |-> Idle]
    /\ tx = [c \in Call |-> Nothing]
    /\ layers = Opening
    /\ lastLayer = Len(Opening)
    /\ quantity = [b \in {Opening[l].bin : l \in DOMAIN Opening} |->
                      MapThenSumSet(LAMBDA l : Opening[l].left,
                                    {l \in DOMAIN Opening : Opening[l].bin = b})]
    /\ moved = {}

-----------------------------------------------------------------------------
(* A service inserts the n-th movement of call c.                           *)
Insert(c, n, kind, bin, qty) ==
    /\ stage[c] = "none"
    /\ stage' = [stage EXCEPT ![c] = "check"]
    /\ moving' = [moving EXCEPT ![c] =
                     [by |-> c, n |-> n, kind |-> kind, bin |-> bin, qty |-> qty]]
    /\ UNCHANGED <<tx, stockTables, lastLayer>>

(* c's transaction is over without a trace.                                 *)
Undo(c) ==
    /\ stage' = [stage EXCEPT ![c] = "none"]
    /\ moving' = [moving EXCEPT ![c] = Idle]
    /\ tx' = [tx EXCEPT ![c] = Nothing]
    /\ UNCHANGED <<stockTables, lastLayer>>

(* BEFORE INSERT: the quantity is read without a lock; where the bin has no *)
(* row the comparison is with NULL and passes.                              *)
Insufficient(c) ==
    /\ stage[c] = "check"
    /\ moving[c].kind \in Outward
    /\ HasRow(c, moving[c].bin)
    /\ OnHand(c, moving[c].bin) < moving[c].qty

NextStage(c) ==
    CASE moving[c].kind \in Layered   -> "layer"
      [] moving[c].kind \in Consuming -> "open"
      [] OTHER                        -> "value"

CheckQuantity(c) ==
    /\ stage[c] = "check"
    /\ ~Insufficient(c)
    /\ stage' = [stage EXCEPT ![c] = NextStage(c)]
    /\ UNCHANGED <<moving, tx, stockTables, lastLayer>>

(* AFTER INSERT, stock_layers: a new layer ...                              *)
CreateLayer(c) ==
    /\ stage[c] = "layer"
    /\ lastLayer' = lastLayer + 1
    /\ tx' = [tx EXCEPT ![c].fresh =
                 Put(@, lastLayer + 1, [bin |-> moving[c].bin, left |-> moving[c].qty])]
    /\ stage' = [stage EXCEPT ![c] = "value"]
    /\ UNCHANGED <<moving, stockTables>>

(* ... or the layers of the bin as the query's snapshot shows them, ...     *)
OpenLayers(c) ==
    /\ stage[c] = "open"
    /\ tx' = [tx EXCEPT ![c].cursor = {l \in Visible(c) : /\ Layer(c, l).bin = moving[c].bin
                                                          /\ Left(c, l) > 0}]
    /\ stage' = [stage EXCEPT ![c] = "take"]
    /\ UNCHANGED <<moving, stockTables, lastLayer>>

(* Mutant: FOR UPDATE left out, nobody waits and nobody re-reads.           *)
Crowded(c) == TRUE

(* ... which FOR UPDATE locks and re-reads, waiting for whoever holds one.  *)
LayersFree(c) == \A d \in Call \ {c} : tx[d].held \cap tx[c].cursor = {}

Alive(c) == {l \in tx[c].cursor : Left(c, l) > 0}
LeftIn(c, ls) == MapThenSumSet(LAMBDA l : Left(c, l), ls)
Underflow(c) == stage[c] = "take" /\ LayersFree(c) /\ LeftIn(c, Alive(c)) < moving[c].qty

(* What the loop takes of layer l once the older ones are used up.          *)
Least(a, b) == IF a < b THEN a ELSE b
NewestShare(c, l) ==  \* Mutant: the newest layers first
    LET wanted == moving[c].qty - LeftIn(c, {k \in Alive(c) : k > l})
    IN  IF wanted <= 0 THEN 0 ELSE Least(wanted, Left(c, l))
Share(c, l) ==
    LET wanted == moving[c].qty - LeftIn(c, {k \in Alive(c) : k < l})
    IN  IF wanted <= 0 THEN 0 ELSE Least(wanted, Left(c, l))

TakeLayers(c) ==
    /\ stage[c] = "take"
    /\ LayersFree(c)
    /\ ~Underflow(c)
    /\ tx' = [tx EXCEPT ![c].taken = [l \in DOMAIN @ \cup Alive(c) |->
                                         At(@, l) + (IF l \in Alive(c) THEN Share(c, l) ELSE 0)],
                        ![c].held = @ \cup Alive(c),
                        ![c].cursor = {}]
    /\ stage' = [stage EXCEPT ![c] = "value"]
    /\ UNCHANGED <<moving, stockTables, lastLayer>>

(* AFTER INSERT, stock_valuations: the upsert waits for the row's lock.  A  *)
(* missing row is inserted with GREATEST(v_qty, 0).                         *)
Signed(m) == IF m.kind \in Inward THEN m.qty ELSE -m.qty
RowFree(c, b) == \A d \in Call \ {c} : b \notin DOMAIN tx[d].delta
UpdateValuation(c) ==
    LET m == moving[c]
        change == IF HasRow(c, m.bin) \/ m.kind \in Inward THEN Signed(m) ELSE 0
    IN  /\ stage[c] = "value"
        /\ RowFree(c, m.bin)
        /\ tx' = [tx EXCEPT ![c].delta = Put(@, m.bin, At(@, m.bin) + change),
                            ![c].moved = @ \cup {m}]
        /\ stage' = [stage EXCEPT ![c] = "none"]
        /\ moving' = [moving EXCEPT ![c] = Idle]
        /\ UNCHANGED <<stockTables, lastLayer>>

StockCommit(c) ==
    /\ stage[c] = "none"
    /\ layers' = [l \in Visible(c) |-> [bin |-> Layer(c, l).bin, left |-> Left(c, l)]]
    /\ quantity' = [b \in DOMAIN quantity \cup DOMAIN tx[c].delta |-> OnHand(c, b)]
    /\ moved' = moved \cup tx[c].moved
    /\ tx' = [tx EXCEPT ![c] = Nothing]
    /\ UNCHANGED <<stage, moving, lastLayer>>

Trigger(c) == \/ CheckQuantity(c) \/ CreateLayer(c) \/ OpenLayers(c)
              \/ TakeLayers(c) \/ UpdateValuation(c)
Refused(c) == Insufficient(c) \/ Underflow(c)

-----------------------------------------------------------------------------
StockTypeOK ==
    /\ stage \in [Call -> {"none", "check", "layer", "open", "take", "value"}]
    /\ \A c \in Call : moving[c] \in Movement \cup {Idle}
    /\ \A l \in DOMAIN layers : layers[l] \in [bin : Bin, left : Int] /\ l \in 1 .. lastLayer
    /\ \A b \in DOMAIN quantity : b \in Bin /\ quantity[b] \in Int
    /\ moved \subseteq Movement
    /\ \A c \in Call :
          /\ tx[c].cursor \cup tx[c].held \subseteq Visible(c)
          /\ DOMAIN tx[c].taken = tx[c].held /\ DOMAIN tx[c].delta \subseteq Bin
          /\ tx[c].moved \subseteq Movement

Total(ms) == MapThenSumSet(LAMBDA m : m.qty, ms)
InBin(b, kinds) == {m \in moved : m.bin = b /\ m.kind \in kinds}
OpeningLeft(b) == MapThenSumSet(LAMBDA l : Opening[l].left,
                                {l \in DOMAIN Opening : Opening[l].bin = b})

(* The layers of a bin add up to what came in with a layer less what was    *)
(* sold, transferred or used in production, and none is below zero: two     *)
(* transactions never consume the same units, whatever the unlocked check   *)
(* before them saw (trg_manage_stock_layers).                               *)
LayersMatchMoves ==
    \A b \in Bin :
        LET ofBin == {l \in DOMAIN layers : layers[l].bin = b}
        IN  /\ \A l \in ofBin : layers[l].left >= 0
            /\ MapThenSumSet(LAMBDA l : layers[l].left, ofBin) =
                   OpeningLeft(b) + Total(InBin(b, Layered)) - Total(InBin(b, Consuming))

(* ValuationService.simulateFifoConsumption, the preview of an invoice, as  *)
(* the loop it is: over the layers, the newest of which comes last, until   *)
(* nothing remains.                                                         *)
Preview(c) ==
    MapThenFoldSet(LAMBDA l, sim :
                       LET consumed == Least(sim.remaining, Left(c, l))
                       IN  IF sim.remaining <= 0 THEN sim
                           ELSE [remaining |-> sim.remaining - consumed,
                                 consumed |-> Put(sim.consumed, l, consumed)],
                   [remaining |-> moving[c].qty, consumed |-> <<>>],
                   LAMBDA l : l, LAMBDA ls : Max(ls), Alive(c))

(* What the preview says of the layers at the moment of the sale is what    *)
(* the trigger consumes, layer by layer.                                    *)
PreviewIsCharged ==
    \A c \in Call :
        stage[c] = "take" /\ LayersFree(c) /\ ~Underflow(c) =>
            /\ Preview(c).remaining = 0
            /\ \A l \in Alive(c) : At(Preview(c).consumed, l) = Share(c, l)

(* getStockLedger sums the movements; getCurrentStock reads the valuation.  *)
StockLedger(b) ==
    OpeningLeft(b) + Total(InBin(b, Inward)) - Total(InBin(b, Outward))
CurrentStock(b) == At(quantity, b)

(* The quantity of a bin that opened with stock is the closing balance of   *)
(* its ledger: no update of stock_valuations is lost.                       *)
QuantityMatchesMoves ==
    \A b \in DOMAIN quantity : OpeningLeft(b) > 0 => CurrentStock(b) = StockLedger(b)

(* Quantities and layers of a bin both agree with the movements that were   *)
(* committed, and a preview with what is then consumed, however sales,      *)
(* transfers and production of the bin interleave.                          *)
StockAddsUp ==
    /\ LayersMatchMoves
    /\ QuantityMatchesMoves
    /\ PreviewIsCharged
=============================================================================
