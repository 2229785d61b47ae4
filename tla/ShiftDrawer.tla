---------------------------- MODULE ShiftDrawer ----------------------------
(***************************************************************************)
(* Cash drawers of one branch (shifts/services.py): shifts opened and      *)
(* closed, orders sold on them, cash that moves in and out, and the report *)
(* frozen at the close, with several requests at work.                     *)
(*                                                                         *)
(* close_shift holds the row of the shift locked.  A row that names the    *)
(* shift (an order, a payment, a refund, a cash movement) checks its       *)
(* foreign key when it commits and waits for that lock, so such rows are   *)
(* added only while nobody closes the shift.                               *)
(***************************************************************************)
EXTENDS Integers, FiniteSets, Functions

CONSTANTS
    ShiftIds,
    Devices,        \* tills
    Browser,        \* a shift without a device
    Orders,
    Requests,       \* requests in progress
    NoOne,         \* no shift, no request, no report
    Total,           \* grand_total of an order
    Float,          \* opening_cash
    MaxMoved,       \* bound: cash moved in or out of one drawer
    Variances       \* bound: by how much a count may differ

ASSUME DrawerAssumption ==
    /\ Browser \notin Devices
    /\ NoOne \notin ShiftIds \cup Requests
    /\ Variances \subseteq Int
    /\ Total \in Nat \ {0} /\ Float \in Nat /\ MaxMoved \in Nat

VARIABLES
    shift,        \* status and device of each Shift
    report,       \* z_report with counted_cash and variance
    sale,         \* Order: its shift and status
    cash, card,   \* payments of each order by methods that count as cash, and others
    refunded,     \* refunds of each order
    moved,        \* cash movements of each shift, signed
    request       \* what a request read before it writes

drawerVars == <<shift, report, sale, cash, card, refunded, moved, request>>

NoShift == [status |-> "none", device |-> Browser]
Money   == 0 .. Total
Moves   == -MaxMoved .. MaxMoved

\* Orders the close refuses to leave behind.
NoStatus == {}
OpenStatus == {"OPEN"}

\* Orders the report counts: order_count and void_count.
Final == {"PAID", "REFUNDED", "CANCELLED"}

NoRequest == [kind |-> "idle", on |-> NoOne, device |-> Browser, expected |-> 0]

DrawerTypeOK ==
    /\ shift \in [ShiftIds -> [status : {"none", "OPEN", "CLOSED"}, device : Devices \cup {Browser}]]
    /\ DOMAIN report = ShiftIds
    /\ \A s \in ShiftIds : report[s] = NoOne \/ report[s].sales \subseteq Orders
    /\ sale \in [Orders -> [status : {"none", "OPEN", "PAID", "CANCELLED", "REFUNDED"},
                            on : ShiftIds \cup {NoOne}]]
    /\ cash \in [Orders -> Money] /\ card \in [Orders -> Money]
    /\ refunded \in [Orders -> Money]
    /\ moved \in [ShiftIds -> Moves]
    /\ DOMAIN request = Requests
    /\ \A q \in Requests : /\ request[q].kind \in {"idle", "open", "sell", "move", "close"}
                           /\ request[q].on \in ShiftIds \cup {NoOne}
                           /\ request[q].device \in Devices \cup {Browser}

DrawerInit ==
    /\ shift = [s \in ShiftIds |-> NoShift]
    /\ report = [s \in ShiftIds |-> NoOne]
    /\ sale = [o \in Orders |-> [status |-> "none", on |-> NoOne]]
    /\ cash = [o \in Orders |-> 0] /\ card = [o \in Orders |-> 0]
    /\ refunded = [o \in Orders |-> 0]
    /\ moved = [s \in ShiftIds |-> 0]
    /\ request = [q \in Requests |-> NoRequest]

-----------------------------------------------------------------------------
(* compute_totals: one read of everything committed on the shift.          *)

Sum(amount, os) == SumFunction([o \in os |-> amount[o]])

SalesOn(s)  == {o \in Orders : sale[o].on = s}
CashSales(s) == Sum(cash, SalesOn(s))
Expected(s) == Float + CashSales(s) + moved[s] - Sum(refunded, SalesOn(s))

IsOpen(s) == shift[s].status = "OPEN"

\* The row lock of close_shift, which a foreign key check waits for.
Closing(s)   == \E q \in Requests : request[q].kind = "close" /\ request[q].on = s
NoLock(s)    == TRUE
MayCommit(s) == ~Closing(s)

Free(q)    == request[q].kind = "idle"
Become(q, r) == request' = [request EXCEPT ![q] = r]
Holding(kind, s) == [NoRequest EXCEPT !.kind = kind, !.on = s]

-----------------------------------------------------------------------------
(* Opening.  The check and the insert are apart; the unique index          *)
(* one_open_shift_per_device stands between two openings of one device.    *)

OpenOf(d) == {s \in ShiftIds : IsOpen(s) /\ shift[s].device = d}

CheckOpen(q) ==
    /\ Free(q)
    /\ \E s \in ShiftIds, d \in Devices \cup {Browser} :
         /\ shift[s] = NoShift
         /\ d = Browser \/ OpenOf(d) = {}
         /\ Become(q, [Holding("open", s) EXCEPT !.device = d])
    /\ UNCHANGED <<shift, report, sale, cash, card, refunded, moved>>

OneOpenIndex(d) == d = Browser \/ OpenOf(d) = {}

OpenShift(q) ==
    /\ request[q].kind = "open"
    /\ LET s == request[q].on
           d == request[q].device IN
         shift' = IF shift[s] = NoShift /\ OneOpenIndex(d)
                  THEN [shift EXCEPT ![s] = [status |-> "OPEN", device |-> d]]
                  ELSE shift
    /\ Become(q, NoRequest)
    /\ UNCHANGED <<report, sale, cash, card, refunded, moved>>

-----------------------------------------------------------------------------
(* Selling: _resolve_shift picks the shift, open_order inserts the order.  *)

\* A till sells on its own open shift, a browser on the only one, and a caller
\* that names a shift on that one, open or not.
ResolveShift(q) ==
    /\ Free(q)
    /\ \E s \in ShiftIds :
         /\ shift[s].status \in {"OPEN", "CLOSED"}
         /\ Become(q, Holding("sell", s))
    /\ UNCHANGED <<shift, report, sale, cash, card, refunded, moved>>

OpenOrder(q) ==
    /\ request[q].kind = "sell" /\ MayCommit(request[q].on)
    /\ \E o \in Orders :
         /\ sale[o].status = "none"
         /\ sale' = [sale EXCEPT ![o] = [status |-> "OPEN", on |-> request[q].on]]
    /\ Become(q, NoRequest)
    /\ UNCHANGED <<shift, report, cash, card, refunded, moved>>

\* balance_due of an order.
NeverPaid(o) == Total
Due(o)       == Total - cash[o] - card[o]

\* PaymentView records the payment on order.shift.
TakePayment(o, byCash) ==
    /\ sale[o].status = "OPEN" /\ MayCommit(sale[o].on)
    /\ \E amount \in 1 .. Due(o) :
         /\ cash' = [cash EXCEPT ![o] = IF byCash THEN @ + amount ELSE @]
         /\ card' = [card EXCEPT ![o] = IF byCash THEN @ ELSE @ + amount]
         /\ sale' = [sale EXCEPT ![o].status =
                       IF amount = Due(o) THEN "PAID" ELSE @]
    /\ UNCHANGED <<shift, report, refunded, moved, request>>

\* RefundView as well, whenever it comes; only a paid order is refunded in full.
Refund(o) ==
    /\ sale[o].status # "none" /\ MayCommit(sale[o].on)
    /\ \E amount \in 1 .. (cash[o] + card[o] - refunded[o]) :
         /\ refunded[o] + amount = cash[o] + card[o] => sale[o].status = "PAID"
         /\ refunded' = [refunded EXCEPT ![o] = @ + amount]
         /\ sale' = [sale EXCEPT ![o].status =
                       IF refunded[o] + amount = cash[o] + card[o] THEN "REFUNDED" ELSE @]
    /\ UNCHANGED <<shift, report, cash, card, moved, request>>

\* An update of the order only: it waits for no one.
VoidOrder(o) ==
    /\ sale[o].status = "OPEN"
    /\ sale' = [sale EXCEPT ![o].status = "CANCELLED"]
    /\ UNCHANGED <<shift, report, cash, card, refunded, moved, request>>

-----------------------------------------------------------------------------
(* Cash that is not a sale: the check of is_open and the insert are apart. *)

CheckMove(q) ==
    /\ Free(q)
    /\ \E s \in ShiftIds : IsOpen(s) /\ Become(q, Holding("move", s))
    /\ UNCHANGED <<shift, report, sale, cash, card, refunded, moved>>

MoveCash(q) ==
    /\ request[q].kind = "move" /\ MayCommit(request[q].on)
    /\ \E amount \in {-1, 1} :
         /\ moved[request[q].on] + amount \in Moves
         /\ moved' = [moved EXCEPT ![request[q].on] = @ + amount]
    /\ Become(q, NoRequest)
    /\ UNCHANGED <<shift, report, sale, cash, card, refunded>>

-----------------------------------------------------------------------------
(* Closing: lock, count the open orders, total; then total again for the   *)
(* report and commit.                                                      *)

NoOpenOrders(s) == \A o \in SalesOn(s) : sale[o].status \notin OpenStatus

BeginClose(q) ==
    /\ Free(q)
    /\ \E s \in ShiftIds :
         /\ IsOpen(s) /\ ~Closing(s) /\ NoOpenOrders(s)
         /\ Become(q, [Holding("close", s) EXCEPT !.expected = Expected(s)])
    /\ UNCHANGED <<shift, report, sale, cash, card, refunded, moved>>

\* The drawer may hold something else than expected.
Close(q) ==
    /\ request[q].kind = "close"
    /\ LET s == request[q].on IN
         /\ \E variance \in Variances :
              report' = [report EXCEPT ![s] =
                 [sales      |-> {o \in SalesOn(s) : sale[o].status \in Final},
                  cash_sales |-> CashSales(s),
                  expected   |-> Expected(s),
                  counted    |-> request[q].expected + variance,
                  variance   |-> variance]]
         /\ shift' = [shift EXCEPT ![s].status = "CLOSED"]
    /\ Become(q, NoRequest)
    /\ UNCHANGED <<sale, cash, card, refunded, moved>>

\* A variance over the limit without approval, or without a reason: rolled back.
RefuseClose(q) ==
    /\ request[q].kind = "close"
    /\ Become(q, NoRequest)
    /\ UNCHANGED <<shift, report, sale, cash, card, refunded, moved>>

DrawerNext ==
    \/ \E q \in Requests :
          \/ CheckOpen(q) \/ OpenShift(q) \/ ResolveShift(q) \/ OpenOrder(q)
          \/ CheckMove(q) \/ MoveCash(q)
          \/ BeginClose(q) \/ Close(q) \/ RefuseClose(q)
    \/ \E o \in Orders :
          TakePayment(o, TRUE) \/ TakePayment(o, FALSE) \/ Refund(o) \/ VoidOrder(o)

DrawerSpec == DrawerInit /\ [][DrawerNext]_drawerVars

-----------------------------------------------------------------------------
(* Properties.                                                             *)

\* Two openings at once leave one open drawer per till.
OneOpenShiftPerDevice == \A d \in Devices : Cardinality(OpenOf(d)) =< 1

\* The frozen report is true of the shift it closed: the variance saved on the
\* shift is what the counted cash is more than the report's own expected cash, though
\* the two were totalled by different reads, and all cash taken for the orders it counts
\* is in it, whoever paid, refunded or moved cash while it was being written.
ReportIsTrue ==
    \A s \in ShiftIds : report[s] # NoOne =>
        /\ report[s].counted = report[s].expected + report[s].variance
        /\ report[s].cash_sales = Sum(cash, report[s].sales)

\* shifts/services.py: a till has one drawer, and it is counted truly.
DrawersAddUp == OneOpenShiftPerDevice /\ ReportIsTrue

\* "A shift with open orders cannot close": docs/08-roadmap.md.
ClosedShiftHasNoOpenOrders ==
    \A s \in ShiftIds : shift[s].status = "CLOSED" => NoOpenOrders(s)
=============================================================================
