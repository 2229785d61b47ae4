----------------------------- MODULE StockRoom -----------------------------
(***************************************************************************)
(* The stock of one branch and the statement of one supplier               *)
(* (inventory, recipes, purchasing and suppliers services).  Stock moves   *)
(* under the row lock of the item's level and a supplier's balance under   *)
(* that of the supplier; the locks are held to the end of the transaction  *)
(* around them.  Whether a document is posted already, and the level an    *)
(* adjustment is computed from, are read before any lock is taken.         *)
(*                                                                         *)
(* The purchase order is submitted, and its receipts name its supplier.    *)
(***************************************************************************)
EXTENDS Integers, FiniteSets, Sequences, SequencesExt

CONSTANTS
    Items,
    Workers,            \* requests in progress
    Nobody,
    Receipts,           \* GoodsReceipts of the purchase order
    Returns, Counts,    \* PurchaseReturns and StockCounts
    ItemsOf,            \* the item of each line, by document
    Sold,               \* the recipes of what is sold: sequences of items
    AllowNegative,      \* inventory.allow_negative
    MaxMoves            \* bound: movements of one item

Docs == Receipts \cup Returns \cup Counts

ASSUME StockAssumption ==
    /\ Nobody \notin Workers \cup Docs
    /\ Items \cap {"supplier", "order"} = {}
    /\ ItemsOf \in [Docs -> Seq(Items)]
    \* An order without lines is not submitted, an empty receipt or return not posted.
    /\ Receipts # {} /\ \A d \in Receipts \cup Returns : ItemsOf[d] # <<>>
    /\ Sold \subseteq Seq(Items)
    /\ AllowNegative \in BOOLEAN
    /\ MaxMoves \in Nat

VARIABLES
    level,        \* StockLevel.quantity_on_hand
    ledger,       \* StockMovements of each item: quantity_delta and balance_after
    balance,      \* Supplier.current_balance
    statement,    \* SupplierLedgerEntry: amount and balance_after
    order,        \* the purchase order: its status, and quantity_received per item
    posted,       \* how often each document was posted
    holds,        \* the request that holds the lock of each row
    job           \* what each request does, and what it wrote and did not commit

stockVars == <<level, ledger, balance, statement, order, posted, holds, job>>

Supplier == "supplier"
PoRow    == "order"
Rows     == Items \cup {Supplier, PoRow}

OrderStatus == {"SUBMITTED", "PARTIAL", "RECEIVED", "CANCELLED"}

\* One quantity of each item was ordered.
Ordered == UNION {Range(ItemsOf[d]) : d \in Receipts}

Entry(delta, after) == [delta |-> delta, after |-> after]

NoJob == [kind |-> "idle", doc |-> Nobody, step |-> "move", todo |-> <<>>,
          moved |-> [i \in Items |-> <<>>], bill |-> <<>>, status |-> "SUBMITTED"]

Entries == Seq([delta : Int, after : Int])
Jobs == [kind : {"idle", "sale", "post", "adjust", "cancel", "pay"}, doc : Docs \cup {Nobody},
         step : {"move", "bill", "advance", "save", "commit"},
         todo : Seq([item : Items, delta : Int, strict : BOOLEAN]),
         moved : [Items -> Entries], bill : Entries, status : OrderStatus]

StockTypeOK ==
    /\ level \in [Items -> Int] /\ ledger \in [Items -> Entries]
    /\ balance \in Int /\ statement \in Entries
    /\ order \in [status : OrderStatus, received : [Items -> Nat]]
    /\ posted \in [Docs -> Nat]
    /\ holds \in [Rows -> Workers \cup {Nobody}]
    /\ job \in [Workers -> Jobs]

StockInit ==
    /\ level = [i \in Items |-> 0]
    /\ ledger = [i \in Items |-> <<>>]
    /\ balance = 0 /\ statement = <<>>
    /\ order = [status |-> "SUBMITTED", received |-> [i \in Items |-> 0]]
    /\ posted = [d \in Docs |-> 0]
    /\ holds = [r \in Rows |-> Nobody]
    /\ job = [w \in Workers |-> NoJob]

-----------------------------------------------------------------------------
(* Requests, and what they read before they write.                         *)

Todo(item, delta, strict) == [item |-> item, delta |-> delta, strict |-> strict]

Start(w, j) ==
    /\ job[w] = NoJob
    /\ job' = [job EXCEPT ![w] = j]
    /\ UNCHANGED <<level, ledger, balance, statement, order, posted, holds>>

\* A sale takes its ingredients, an add-on may take below zero.
ConsumeForSale(recipe)  == [k \in DOMAIN recipe |-> Todo(recipe[k], -1, ~AllowNegative)]
ConsumeForModifier(i)   == <<Todo(i, -1, FALSE)>>

Sell(w) ==
    \E recipe \in Sold : \E addOn \in {<<>>} \cup {ConsumeForModifier(i) : i \in Items} :
        Start(w, [NoJob EXCEPT !.kind = "sale", !.todo = ConsumeForSale(recipe) \o addOn])

\* is_posted, read with the document.
NotPosted(d) == posted[d] = 0

Post(w, docs, sign) ==
    \E d \in docs :
        /\ NotPosted(d)
        /\ Start(w, [NoJob EXCEPT !.kind = "post", !.doc = d,
              !.todo = [k \in DOMAIN ItemsOf[d] |-> Todo(ItemsOf[d][k], sign, FALSE)]])

\* A count found one missing of each item it names.
PostReceipt(w) == Post(w, Receipts, 1)
PostReturn(w)  == Post(w, Returns, -1)
PostCount(w)   == Post(w, Counts, -1)

\* adjust: the difference to the level as it is now; record_waste has no target.
Adjust(w) ==
    \E i \in Items, target \in 0 .. 1 :
        /\ target # level[i]
        /\ Start(w, [NoJob EXCEPT !.kind = "adjust",
                                  !.todo = <<Todo(i, target - level[i], FALSE)>>])

RecordWaste(w) ==
    \E i \in Items :
        Start(w, [NoJob EXCEPT !.kind = "adjust", !.todo = <<Todo(i, -1, FALSE)>>])

PaySupplier(w) == Start(w, [NoJob EXCEPT !.kind = "pay", !.step = "bill"])

CancelOrder(w) ==
    /\ order.status \notin {"RECEIVED", "CANCELLED"}
    /\ Start(w, [NoJob EXCEPT !.kind = "cancel", !.status = "CANCELLED", !.step = "save"])

-----------------------------------------------------------------------------
(* apply_movement and record_ledger_entry.                                 *)

Next1(w) == Head(job[w].todo)
HasTodo(w) == job[w].step = "move" /\ job[w].todo # <<>>

\* SELECT ... FOR UPDATE.
Unguarded(w, row) == TRUE
MayLock(w, row) == holds[row] \in {Nobody, w}

\* The row as the transaction sees it: its own write, or the committed one.
LastOr(entries, value) == IF entries = <<>> THEN value ELSE Last(entries).after
OnHand(w, i) == LastOr(job[w].moved[i], level[i])

Suffices(w) == Next1(w).strict => OnHand(w, Next1(w).item) + Next1(w).delta >= 0

Move(w) ==
    /\ HasTodo(w)
    /\ LET t == Next1(w) IN
         /\ MayLock(w, t.item)
         /\ Suffices(w)
         /\ Len(ledger[t.item] \o job[w].moved[t.item]) < MaxMoves
         /\ holds' = [holds EXCEPT ![t.item] = w]
         /\ job' = [job EXCEPT ![w].todo = Tail(@),
                ![w].moved[t.item] = Append(@, Entry(t.delta, OnHand(w, t.item) + t.delta))]
    /\ UNCHANGED <<level, ledger, balance, statement, order, posted>>

\* A request without documents commits; one for the supplier bills first.
Moved(w) ==
    /\ job[w].step = "move" /\ job[w].todo = <<>> /\ job[w] # NoJob
    /\ job' = [job EXCEPT ![w].step =
                 IF job[w].doc \in Receipts \cup Returns THEN "bill" ELSE "commit"]
    /\ UNCHANGED <<level, ledger, balance, statement, order, posted, holds>>

\* The row of the supplier.
MayBill(w) == MayLock(w, Supplier)

Bill(w) ==
    /\ job[w].step = "bill" /\ MayBill(w)
    /\ Len(statement) < MaxMoves
    /\ holds' = [holds EXCEPT ![Supplier] = w]
    /\ LET amount == IF job[w].doc \in Receipts THEN Len(ItemsOf[job[w].doc])
                     ELSE IF job[w].doc \in Returns THEN -Len(ItemsOf[job[w].doc]) ELSE -1
       IN  job' = [job EXCEPT ![w].bill = <<Entry(amount, balance + amount)>>,
                     ![w].step = IF job[w].doc \in Receipts THEN "advance" ELSE "commit"]
    /\ UNCHANGED <<level, ledger, balance, statement, order, posted>>

\* quantity_received as the transaction sees it.
Received(w, i) ==
    order.received[i] + (IF job[w].doc \in Receipts THEN Len(job[w].moved[i]) ELSE 0)

\* _advance_po_status reads the lines of the order, then saves the status.
Advance(w) ==
    /\ job[w].step = "advance"
    /\ job' = [job EXCEPT ![w].step = "save", ![w].status =
                 IF \A i \in Ordered : Received(w, i) >= 1 THEN "RECEIVED" ELSE "PARTIAL"]
    /\ UNCHANGED <<level, ledger, balance, statement, order, posted, holds>>

\* That update, or that of a cancellation, takes the row of the order.
SaveStatus(w) ==
    /\ job[w].step = "save" /\ MayLock(w, PoRow)
    /\ holds' = [holds EXCEPT ![PoRow] = w]
    /\ job' = [job EXCEPT ![w].step = "commit"]
    /\ UNCHANGED <<level, ledger, balance, statement, order, posted>>

Released(w) == [r \in Rows |-> IF holds[r] = w THEN Nobody ELSE holds[r]]

Commit(w) ==
    LET j == job[w] IN
    /\ j.step = "commit"
    /\ level' = [i \in Items |-> LastOr(j.moved[i], level[i])]
    /\ ledger' = [i \in Items |-> ledger[i] \o j.moved[i]]
    /\ balance' = LastOr(j.bill, balance)
    /\ statement' = statement \o j.bill
    /\ order' = [status   |-> IF holds[PoRow] = w THEN j.status ELSE order.status,
                 received |-> [i \in Items |-> Received(w, i)]]
    /\ posted' = [d \in Docs |-> posted[d] + (IF d = j.doc THEN 1 ELSE 0)]
    /\ holds' = Released(w)
    /\ job' = [job EXCEPT ![w] = NoJob]

RollBack(w) ==
    /\ holds' = Released(w)
    /\ job' = [job EXCEPT ![w] = NoJob]
    /\ UNCHANGED <<level, ledger, balance, statement, order, posted>>

\* InsufficientStock undoes the ingredients taken before, and the payment.
Refuse(w) ==
    /\ HasTodo(w) /\ MayLock(w, Next1(w).item) /\ ~Suffices(w)
    /\ RollBack(w)

Wants(w) ==
    IF job[w].step = "bill" THEN Supplier
    ELSE IF job[w].step = "save" THEN PoRow
    ELSE IF HasTodo(w) THEN Next1(w).item ELSE "none"

WaitsFor(w, u) == w # u /\ Wants(w) # "none" /\ holds[Wants(w)] = u

\* Items are locked in the order of the lines: the database ends a deadlock.
BreakDeadlock(w) ==
    /\ \E ring \in SUBSET Workers :
         /\ w \in ring
         /\ \A u \in ring : \E v \in ring : WaitsFor(u, v)
    /\ RollBack(w)

StockNext ==
    \E w \in Workers :
        \/ Sell(w) \/ PostReceipt(w) \/ PostReturn(w) \/ PostCount(w)
        \/ Adjust(w) \/ RecordWaste(w)
        \/ PaySupplier(w) \/ CancelOrder(w)
        \/ Move(w) \/ Moved(w) \/ Bill(w) \/ Advance(w) \/ SaveStatus(w)
        \/ Commit(w) \/ Refuse(w) \/ BreakDeadlock(w)

StockSpec == StockInit /\ [][StockNext]_stockVars

-----------------------------------------------------------------------------
(* Properties.                                                             *)

Replays(entries, total) ==
    /\ total = LastOr(entries, 0)
    /\ \A n \in DOMAIN entries :
         entries[n].after = entries[n].delta + (IF n = 1 THEN 0 ELSE entries[n - 1].after)

\* reconcile finds no drift, of an item or of the supplier: replaying the ledger
\* gives every balance_after on the way and the level at the end (so that the level
\* is the sum of the deltas), whoever moved it at once.
LedgersReplay ==
    /\ \A i \in Items : Replays(ledger[i], level[i])
    /\ Replays(statement, balance)

\* Once receipts brought every line, the order leaves the list of outstanding
\* orders, also when they were posted at once and each saw only its own lines.
ReceivedOrderIsClosed ==
    (\A i \in Ordered : order.received[i] >= 1) => order.status \in {"RECEIVED", "CANCELLED"}

\* purchasing/services.py, inventory/services.py: what was received is in the
\* levels, in the ledgers, in the balance and in the order, and adds up in each.
StockAddsUp == LedgersReplay /\ ReceivedOrderIsClosed

\* "test_posting_twice_is_refused".
PostedOnce == \A d \in Docs : posted[d] =< 1
=============================================================================
