----------------------------- MODULE TillDrawer -----------------------------
(***************************************************************************)
(* The cash drawer of one terminal, counted twice: by the terminal, offline*)
(* (desktop shifts/service.py, ui/shell.py), and by the server, from the   *)
(* operations the terminal queued (sync/handlers.py).                      *)
(*                                                                         *)
(* A call of the cashier writes its row and queues its operation in one    *)
(* transaction (OfflineTill), so the terminal's tables are read off the    *)
(* queue.  Each operation is answered once (SyncPush), and in any order,   *)
(* for each comes due again at a time of its own.  A web browser pays and  *)
(* refunds the same orders and may close the drawer.  Every amount is one. *)
(***************************************************************************)
EXTENDS Integers, FiniteSets, FiniteSetsExt

CONSTANTS
    DrawerIds,      \* ids of shifts, minted by the terminal
    Sales,          \* orders
    NoDrawer,
    SaleTotal,      \* grand_total of a sale
    OpeningCash,
    max_variance,   \* setting shifts.max_variance
    Miscounts,      \* bound: by how much a count differs from the expected
    Moves,          \* bound: the kinds of cash movement that are made
    MaxCashMoves,   \* bound: cash movements of the terminal
    MaxWebActs      \* bound: payments, refunds and closes in a browser

ASSUME TillDrawerAssumption ==
    /\ NoDrawer \notin DrawerIds
    /\ SaleTotal \in Nat \ {0} /\ OpeningCash \in Nat /\ max_variance \in Nat
    /\ Miscounts \subseteq Int /\ Moves \subseteq {"PAY_IN", "PAY_OUT", "DROP"}
    /\ MaxCashMoves \in Nat /\ MaxWebActs \in Nat

VARIABLES
    answer,       \* sync_outbox: the operations queued and what became of them
    slip,         \* what the terminal's shift_close of a drawer says
    drawer,       \* Shift of the server: its status and z_report
    bill,         \* Order of the server: its status and shift
    cashbook,     \* Payment, Refund and CashMovement of the server
    web_acts

tillDrawerVars == <<answer, slip, drawer, bill, cashbook, web_acts>>

PAY_IN  == "PAY_IN"
PAY_OUT == "PAY_OUT"
DROP    == "DROP"
MOVEMENT_LABELS == {PAY_IN, PAY_OUT, DROP}

\* CashMovementType of the server has another name for cash that comes in.
CashIn == "IN"

Tenders == {"cash", "card"}

\* Payments and cash movements of the terminal are numbered by n.
Operation ==
    [type : {"shift_open", "shift_close"}, on : DrawerIds]
    \cup [type : {"order_open"}, sale : Sales, on : DrawerIds \cup {NoDrawer}]
    \cup [type : {"payment"}, sale : Sales, on : DrawerIds \cup {NoDrawer},
          what : Tenders, n : Nat]
    \cup [type : {"cash_movement"}, on : DrawerIds, what : MOVEMENT_LABELS, n : Nat]

Answers == {"PENDING", "APPLIED", "CONFLICT", "REJECTED"}

Queued    == DOMAIN answer
OfType(t) == {op \in Queued : op.type = t}

NoSlip == [expected |-> 0, counted |-> 0, reason |-> FALSE]
NoReport == [expected |-> 0, told |-> FALSE, entries |-> {}]
NotThere == [status |-> "none", report |-> NoReport]

TillDrawerTypeOK ==
    /\ Queued \subseteq Operation
    /\ \A op \in Queued : answer[op] \in Answers
    /\ slip \in [DrawerIds -> [expected : Int, counted : Int, reason : BOOLEAN]]
    /\ DOMAIN drawer = DrawerIds
    /\ \A d \in DrawerIds : drawer[d].status \in {"none", "OPEN", "CLOSED"}
    /\ bill \in [Sales -> [status : {"none", "OPEN", "PAID", "REFUNDED"},
                           on : DrawerIds \cup {NoDrawer}]]
    /\ web_acts \in 0 .. MaxWebActs

TillDrawerInit ==
    /\ answer = << >>
    /\ slip = [d \in DrawerIds |-> NoSlip]
    /\ drawer = [d \in DrawerIds |-> NotThere]
    /\ bill = [o \in Sales |-> [status |-> "none", on |-> NoDrawer]]
    /\ cashbook = {}
    /\ web_acts = 0

-----------------------------------------------------------------------------
(* The terminal.                                                           *)

Opened(d) == [type |-> "shift_open", on |-> d] \in Queued
Counted(d) == [type |-> "shift_close", on |-> d] \in Queued

\* shifts.current, which the shell gives to the till whenever it changes.
Current == {d \in DrawerIds : Opened(d) /\ ~Counted(d)}
CurrentDrawer   == IF Current = {} THEN NoDrawer ELSE CHOOSE d \in Current : TRUE

Queue(op) ==
    answer' = [q \in Queued \cup {op} |-> IF q = op THEN "PENDING" ELSE answer[q]]

Entries == OfType("payment") \cup OfType("cash_movement")
Number  == Cardinality(Entries) + 1

OpenDrawer(d) ==
    /\ Current = {} /\ ~Opened(d)
    /\ Queue([type |-> "shift_open", on |-> d])
    /\ UNCHANGED <<slip, drawer, bill, cashbook, web_acts>>

OpenedSale(o) == \E op \in OfType("order_open") : op.sale = o
Owed(o) == SaleTotal - Cardinality({op \in OfType("payment") : op.sale = o})

\* PosWindow.new_order carries the open drawer; a tap on the floor map does not.
OpenSale(o) ==
    /\ ~OpenedSale(o)
    /\ \E d \in {CurrentDrawer, NoDrawer} : Queue([type |-> "order_open", sale |-> o, on |-> d])
    /\ UNCHANGED <<slip, drawer, bill, cashbook, web_acts>>

\* No sale needs an open drawer.
PayAtTill(o) ==
    /\ OpenedSale(o) /\ Owed(o) > 0
    /\ \E tender \in Tenders :
         Queue([type |-> "payment", sale |-> o, on |-> CurrentDrawer, what |-> tender, n |-> Number])
    /\ UNCHANGED <<slip, drawer, bill, cashbook, web_acts>>

\* record_movement
MoveCashAtTill ==
    /\ Cardinality(OfType("cash_movement")) < MaxCashMoves
    /\ \E d \in Current, what \in MOVEMENT_LABELS \cap Moves :
         Queue([type |-> "cash_movement", on |-> d, what |-> what, n |-> Number])
    /\ UNCHANGED <<slip, drawer, bill, cashbook, web_acts>>

TakenIn(d) == {op \in Entries : op.on = d}
With(entries, whats) == Cardinality({e \in entries : e.what \in whats})

\* z_report: expected_cash
ExpectedAtTill(d) ==
    OpeningCash + With(TakenIn(d), {"cash", PAY_IN}) - With(TakenIn(d), {PAY_OUT, DROP})

\* The dialog asks for a reason when the count differs from the terminal's own
\* expected cash; it warns of unsettled orders and closes over them.
CountDrawer ==
    /\ \E d \in Current, miscount \in Miscounts, reason \in BOOLEAN :
         /\ miscount # 0 => reason
         /\ ExpectedAtTill(d) + miscount >= 0
         /\ slip' = [slip EXCEPT ![d] = [expected |-> ExpectedAtTill(d), reason |-> reason,
                                         counted |-> ExpectedAtTill(d) + miscount]]
         /\ Queue([type |-> "shift_close", on |-> d])
    /\ UNCHANGED <<drawer, bill, cashbook, web_acts>>

-----------------------------------------------------------------------------
(* The server.                                                             *)

OpenThere == {d \in DrawerIds : drawer[d].status = "OPEN"}

\* A payment that carries a shift lands on it, open or closed; a shift the server
\* does not know is no shift.
OpenShiftOfDevice(d) == IF OpenThere = {} THEN NoDrawer ELSE CHOOSE e \in OpenThere : TRUE
ShiftFor(d) == IF d # NoDrawer /\ drawer[d].status # "none" THEN d ELSE NoDrawer

AccountOf(d) == {e \in cashbook : e.on = d}

\* compute_totals: cash that did not come in went out.
ExpectedThere(d) ==
    LET moves == {e \in AccountOf(d) : e.what \in MOVEMENT_LABELS \cup {CashIn}} IN
      OpeningCash + With(AccountOf(d), {"cash"}) - With(AccountOf(d), {"refund"})
        + With(moves, {CashIn}) - Cardinality(moves \ {e \in moves : e.what = CashIn})

PaidThere(o) == Cardinality({e \in cashbook : e.sale = o /\ e.what \in Tenders})
RefundedThere(o) == Cardinality({e \in cashbook : e.sale = o /\ e.what = "refund"})

Answered(op, status) == answer' = [answer EXCEPT ![op] = status]
Book(entry) == cashbook' = cashbook \cup {entry}

EnterShiftOpen(op) ==
    /\ op.type = "shift_open"
    /\ IF drawer[op.on].status = "none" /\ OpenThere # {}
       THEN answer[op] = "PENDING" /\ Answered(op, "CONFLICT") /\ UNCHANGED drawer
       ELSE /\ Answered(op, "APPLIED")
            /\ drawer' = IF drawer[op.on].status = "none"
                         THEN [drawer EXCEPT ![op.on].status = "OPEN"] ELSE drawer
    /\ UNCHANGED <<slip, bill, cashbook, web_acts>>

EnterOrderOpen(op) ==
    /\ op.type = "order_open"
    /\ Answered(op, "APPLIED")
    /\ bill' = [bill EXCEPT ![op.sale] = [status |-> "OPEN", on |-> ShiftFor(op.on)]]
    /\ UNCHANGED <<slip, drawer, cashbook, web_acts>>

Pay(o, entry) ==
    /\ Book(entry)
    /\ bill' = [bill EXCEPT ![o].status = IF PaidThere(o) + 1 = SaleTotal THEN "PAID" ELSE @]

EnterPayment(op) ==
    /\ op.type = "payment"
    /\ IF bill[op.sale].status = "OPEN"
       THEN /\ Answered(op, "APPLIED")
            /\ Pay(op.sale, [sale |-> op.sale, on |-> ShiftFor(op.on), what |-> op.what,
                             by |-> "till", n |-> op.n])
       ELSE Answered(op, "REJECTED") /\ UNCHANGED <<bill, cashbook>>
    /\ UNCHANGED <<slip, drawer, web_acts>>

EnterCashMovement(op) ==
    /\ op.type = "cash_movement"
    /\ IF drawer[op.on].status = "OPEN"
       THEN /\ Answered(op, "APPLIED")
            /\ Book([sale |-> NoDrawer, on |-> op.on, what |-> op.what,
                     by |-> "till", n |-> op.n])
       ELSE Answered(op, "REJECTED") /\ UNCHANGED cashbook
    /\ UNCHANGED <<slip, drawer, bill, web_acts>>

\* OPEN_ORDERS_REMAIN, and the Z report frozen.
NothingOpenOn(d) == \A o \in Sales : ~(bill[o].on = d /\ bill[o].status = "OPEN")
Freeze(d, told) ==
    drawer' = [drawer EXCEPT ![d] =
        [status |-> "CLOSED",
         report |-> [expected |-> ExpectedThere(d), told |-> told, entries |-> AccountOf(d)]]]

Away(n) == IF n < 0 THEN -n ELSE n

\* A device brings no approval, and no reason the terminal did not ask for.
MayClose(d) ==
    LET variance == slip[d].counted - ExpectedThere(d) IN
      /\ drawer[d].status = "OPEN" /\ NothingOpenOn(d)
      /\ Away(variance) =< max_variance
      /\ variance # 0 => slip[d].reason

EnterShiftClose(op) ==
    /\ op.type = "shift_close"
    /\ Answered(op, IF drawer[op.on].status = "CLOSED" \/ MayClose(op.on)
                    THEN "APPLIED" ELSE "REJECTED")
    /\ IF MayClose(op.on) THEN Freeze(op.on, TRUE) ELSE UNCHANGED drawer
    /\ UNCHANGED <<slip, bill, cashbook, web_acts>>

\* Once from the queue, and again when a human retries a conflict.
Handle(op) ==
    /\ answer[op] \in {"PENDING", "CONFLICT"}
    /\ \/ EnterShiftOpen(op) \/ EnterOrderOpen(op) \/ EnterPayment(op)
       \/ EnterCashMovement(op) \/ EnterShiftClose(op)

-----------------------------------------------------------------------------
(* The browser: PaymentView and RefundView book on the shift of the order, *)
(* CloseShiftView brings an approval with any count.                       *)

WebActs == web_acts < MaxWebActs /\ web_acts' = web_acts + 1

OnTheWeb(o, what) ==
    [sale |-> o, on |-> bill[o].on, what |-> what, by |-> "web", n |-> web_acts + 1]

PayOnTheWeb(o) ==
    /\ WebActs /\ bill[o].status = "OPEN"
    /\ Pay(o, OnTheWeb(o, "cash"))
    /\ UNCHANGED <<answer, slip, drawer>>

RefundOnTheWeb(o) ==
    /\ WebActs
    /\ RefundedThere(o) < PaidThere(o)
    /\ RefundedThere(o) + 1 = PaidThere(o) => bill[o].status = "PAID"
    /\ Book(OnTheWeb(o, "refund"))
    /\ bill' = [bill EXCEPT ![o].status =
                  IF RefundedThere(o) + 1 = PaidThere(o) THEN "REFUNDED" ELSE @]
    /\ UNCHANGED <<answer, slip, drawer>>

CloseOnTheWeb(d) ==
    /\ WebActs
    /\ drawer[d].status = "OPEN" /\ NothingOpenOn(d)
    /\ Freeze(d, FALSE)
    /\ UNCHANGED <<answer, slip, bill, cashbook>>

TillDrawerNext ==
    \/ \E d \in DrawerIds : OpenDrawer(d) \/ CloseOnTheWeb(d)
    \/ \E o \in Sales : OpenSale(o) \/ PayAtTill(o) \/ PayOnTheWeb(o) \/ RefundOnTheWeb(o)
    \/ MoveCashAtTill \/ CountDrawer
    \/ \E op \in Queued : Handle(op)

TillDrawerSpec == TillDrawerInit /\ [][TillDrawerNext]_tillDrawerVars

-----------------------------------------------------------------------------
(* Properties.                                                             *)

Arrived(d) == {op \in TakenIn(d) : answer[op] = "APPLIED"}

\* The server's account of a drawer holds nothing the terminal put elsewhere and
\* nothing twice: each of its entries is a payment or a movement the terminal
\* took into that very drawer, or a browser's on an order of it.
CountedWhereTaken ==
    \A d \in DrawerIds : \A e \in AccountOf(d) :
        IF e.by = "web" THEN bill[e.sale].on = d
        ELSE \E op \in Arrived(d) : op.n = e.n /\ op.what = e.what

\* A drawer that stays open on the server after it was counted is one whose
\* count is on its way, or was refused in the terminal's sight.
NoDrawerIsForgotten ==
    \A d \in OpenThere : Counted(d) =>
        answer[[type |-> "shift_close", on |-> d]] \in {"PENDING", "REJECTED"}

\* desktop shifts/service.py and sync/handlers.py: whatever order the operations
\* of two shifts arrive in, the drawers of the two sides are the same drawers.
OneDrawerTwoBooks == CountedWhereTaken /\ NoDrawerIsForgotten /\ Cardinality(OpenThere) =< 1

\* close_shift of the terminal: a disagreement "means the two sides saw different
\* sales".  Where the server froze exactly what the terminal took, and was told
\* the terminal's figure, the figures are the same.
SameEntriesSameCash ==
    \A d \in DrawerIds :
        LET frozen == drawer[d].report IN
          frozen.told /\ Cardinality(frozen.entries) = Cardinality(TakenIn(d))
            /\ (\A e \in frozen.entries : e.by = "till")
          => frozen.expected = slip[d].expected
=============================================================================
