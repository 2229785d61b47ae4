----------------------------- MODULE OrderDesk -----------------------------
(***************************************************************************)
(* One order on the server, with everybody who works on it at once: tills  *)
(* that add lines and take or return money, the kitchen that moves its     *)
(* tickets, a manager who voids it (backend apps orders, payments,         *)
(* kitchen).                                                               *)
(*                                                                         *)
(* apply_events, take_payment, refund and transition lock the row of the   *)
(* order and read it again, so all they do under the lock is one action.   *)
(* What they read before the lock is an action of its own (Ask...), and    *)
(* void_order, which takes no lock, writes from what it read then.         *)
(***************************************************************************)
EXTENDS Integers, FiniteSets, FiniteSetsExt

CONSTANTS
    Lines,        \* lines a till may add
    Stations,     \* kitchen stations
    StationOf,    \* the station of each line; a line may have none
    NoStation,
    AutoAccept,   \* stations whose tickets start ACCEPTED
    Workers,      \* requests in progress
    Keys,         \* idempotency keys
    Nothing,      \* no request, no invoice
    MaxTotal,     \* bound: the largest total, in the smallest unit
    MaxRounds     \* bound: firings of one order

ASSUME StationAssumption ==
    /\ NoStation \notin Stations
    /\ StationOf \in [Lines -> Stations \cup {NoStation}]
    /\ AutoAccept \subseteq Stations
ASSUME TotalAssumption == MaxTotal \in Nat /\ MaxRounds \in Nat
ASSUME KeysAssumption == IsFiniteSet(Keys)

Tickets == Stations \X (1..MaxRounds)

VARIABLES
    status,       \* Order.status
    line,         \* OrderItem: not there, not fired, fired or voided
    grand_total, paid_total,
    payment,      \* the amount of each Payment, 0 without a row
    returned,     \* the amount of each Refund, 0 without a row
    invoice,      \* the totals frozen in the Invoice
    deductions,   \* how often the stock of the order was deducted
    ticket,       \* KitchenTicket.status, "none" without a row
    cooks,        \* the lines of each ticket
    rounds,       \* firings so far
    job           \* what each request read before it waits for the lock

books   == <<grand_total, paid_total, payment, returned, invoice, deductions>>
kitchen == <<ticket, cooks, rounds>>
vars    == <<status, line, books, kitchen, job>>

OrderStatus  == {"OPEN", "IN_KITCHEN", "READY", "SERVED", "PAID", "CANCELLED", "REFUNDED"}
LineStatus   == {"none", "new", "fired", "voided"}
TicketStatus == {"NEW", "ACCEPTED", "PREPARING", "READY", "SERVED", "CANCELLED"}
Terminal     == {"PAID", "CANCELLED", "REFUNDED"}
Mutable      == {"OPEN", "IN_KITCHEN", "READY"}
Done         == {"READY", "SERVED"}
Amounts      == 0..MaxTotal

\* orders/state.py; DRAFT is gone when open_order commits.
Allowed ==
    [OPEN       |-> {"IN_KITCHEN", "PAID", "CANCELLED"},
     IN_KITCHEN |-> {"OPEN", "READY", "PAID", "CANCELLED"},
     READY      |-> {"SERVED", "PAID", "CANCELLED"},
     SERVED     |-> {"PAID"},
     PAID       |-> {"REFUNDED"},
     CANCELLED  |-> {},
     REFUNDED   |-> {}]

\* kitchen/models.py.
TicketAllowed ==
    [NEW       |-> {"ACCEPTED", "PREPARING", "CANCELLED"},
     ACCEPTED  |-> {"PREPARING", "CANCELLED"},
     PREPARING |-> {"READY", "CANCELLED"},
     READY     |-> {"SERVED", "PREPARING"},
     SERVED    |-> {"PREPARING"},
     CANCELLED |-> {}]

Jobs == [kind : {"pay", "refund"}, key : Keys, amount : Amounts] \cup [kind : {"void"}]

ASSUME NothingAssumption ==
    Nothing \notin Jobs \cup [total : Amounts, paid : Amounts]

TypeOK ==
    /\ status \in OrderStatus
    /\ line \in [Lines -> LineStatus]
    /\ grand_total \in Amounts
    /\ paid_total \in Amounts
    /\ payment \in [Keys -> Amounts]
    /\ returned \in [Keys -> Amounts]
    /\ invoice \in [total : Amounts, paid : Amounts] \cup {Nothing}
    /\ deductions \in Nat
    /\ ticket \in [Tickets -> TicketStatus \cup {"none"}]
    /\ cooks \in [Tickets -> SUBSET Lines]
    /\ rounds \in 0..MaxRounds
    /\ job \in [Workers -> Jobs \cup {Nothing}]

\* open_order.
Init ==
    /\ status = "OPEN"
    /\ line = [l \in Lines |-> "none"]
    /\ grand_total = 0 /\ paid_total = 0
    /\ payment = [k \in Keys |-> 0]
    /\ returned = [k \in Keys |-> 0]
    /\ invoice = Nothing
    /\ deductions = 0
    /\ ticket = [t \in Tickets |-> "none"]
    /\ cooks = [t \in Tickets |-> {}]
    /\ rounds = 0
    /\ job = [w \in Workers |-> Nothing]

-----------------------------------------------------------------------------
(* Lines and firing: apply_events, under the lock.                         *)

Active(state) == {l \in Lines : state[l] \in {"new", "fired"}}

\* recalculate.  Prices, overrides, discounts, service and tax may give any
\* total; an order without lines costs nothing.
Recalculate ==
    \E total \in Amounts :
        /\ Active(line') = {} => total = 0
        /\ grand_total' = total

\* Fault of apply_events: no assert_mutable.
AnyTime(state) == TRUE

\* assert_mutable.
IsMutable(state) == state \in Mutable

\* ITEM_ADDED, ITEM_VOIDED and the events that only change the total.
EditLine(l, state) ==
    /\ IsMutable(status)
    /\ \/ line[l] = "none" /\ state = "new"
       \/ line[l] \in {"new", "fired"} /\ state = "voided"
       \/ line[l] # "none" /\ state = line[l]
    /\ line' = [line EXCEPT ![l] = state]
    /\ Recalculate
    /\ UNCHANGED <<status, paid_total, payment, returned, invoice, deductions, kitchen, job>>

Unfired(at) == {l \in Lines : line[l] = "new" /\ StationOf[l] = at}

\* Fault of route_order: the lines are not stamped as fired.
NotStamped == UNCHANGED line

\* fired_at, for the lines without a station too.
Stamped == line' = [l \in Lines |-> IF line[l] = "new" THEN "fired" ELSE line[l]]

\* ORDER_FIRED: route_order makes one ticket per station, and the order goes
\* to the kitchen.  From READY, assert_transition refuses.
Fire ==
    /\ IsMutable(status)
    /\ rounds < MaxRounds
    /\ \E l \in Lines : line[l] = "new"
    /\ status = "IN_KITCHEN" \/ "IN_KITCHEN" \in Allowed[status]
    /\ status' = "IN_KITCHEN"
    /\ rounds' = rounds + 1
    /\ ticket' = [t \in Tickets |->
                    IF t[2] = rounds + 1 /\ Unfired(t[1]) # {}
                    THEN IF t[1] \in AutoAccept THEN "ACCEPTED" ELSE "NEW"
                    ELSE ticket[t]]
    /\ cooks' = [t \in Tickets |-> IF t[2] = rounds + 1 THEN Unfired(t[1]) ELSE cooks[t]]
    /\ Stamped
    /\ Recalculate
    /\ UNCHANGED <<paid_total, payment, returned, invoice, deductions, job>>

-----------------------------------------------------------------------------
(* The kitchen.                                                            *)

\* Fault of _sync_order_status: any instead of all.
AnyDone(state) == \E t \in Tickets : state[t] \in Done

AllDone(state) == \A t \in Tickets : state[t] \in Done \cup {"none", "CANCELLED"}

\* _sync_order_status, for the tickets as they are after the move.
Target(state) ==
    LET live == {t \in Tickets : state[t] \notin {"none", "CANCELLED"}} IN
    IF live = {} THEN status
    ELSE IF \A t \in live : state[t] = "SERVED" THEN "SERVED"
    ELSE IF AllDone(state) THEN "READY" ELSE "IN_KITCHEN"

\* Fault of _sync_order_status: neither the terminal states nor the state
\* machine are asked.
SyncAlways == status' = Target(ticket')

SyncOrderStatus ==
    status' = IF status \notin Terminal /\ Target(ticket') \in Allowed[status]
              THEN Target(ticket') ELSE status

\* transition, which locks the ticket and, through select_related, its
\* order.  Recall is a move from SERVED within a time window.
MoveTicket(t, target) ==
    /\ ticket[t] # "none"
    /\ target \in TicketAllowed[ticket[t]]
    /\ ticket' = [ticket EXCEPT ![t] = target]
    /\ SyncOrderStatus
    /\ UNCHANGED <<line, books, cooks, rounds, job>>

-----------------------------------------------------------------------------
(* Money.                                                                  *)

Start(w, what) ==
    /\ job[w] = Nothing
    /\ job' = [job EXCEPT ![w] = what]
    /\ UNCHANGED <<status, line, books, kitchen>>

End(w) == job' = [job EXCEPT ![w] = Nothing]

\* take_payment looks for the key before it waits for the lock.  A key that
\* is found is answered with its row and changes nothing.
AskPayment(w, key, amount) ==
    /\ payment[key] = 0
    /\ amount > 0
    /\ Start(w, [kind |-> "pay", key |-> key, amount |-> amount])

AskRefund(w, key, amount) ==
    /\ returned[key] = 0
    /\ amount > 0
    /\ Start(w, [kind |-> "refund", key |-> key, amount |-> amount])

\* _on_settled: stock and invoice.
Settled(paid) ==
    /\ status' = "PAID"
    /\ deductions' = deductions + 1
    /\ invoice' = [total |-> grand_total, paid |-> paid]

\* Faults of take_payment: no look at the balance; no unique key, so a
\* duplicate goes unnoticed.
CanOverpay(key, amount) == status \notin Terminal /\ payment[key] = 0
CanPayAgain(key, amount) ==
    /\ status \notin Terminal
    /\ amount <= grand_total - paid_total

\* The checks of take_payment under the lock; the unique key last.
CanPay(key, amount) ==
    /\ status \notin Terminal
    /\ amount <= grand_total - paid_total
    /\ payment[key] = 0

\* take_payment.  What it refuses, and a duplicate key, which breaks the
\* transaction, changes nothing (GiveUp).
Pay(w, key, amount) ==
    /\ job[w] = [kind |-> "pay", key |-> key, amount |-> amount]
    /\ CanPay(key, amount)
    /\ paid_total' = paid_total + amount
    /\ payment' = [payment EXCEPT ![key] = amount]
    /\ \/ paid_total' < grand_total /\ UNCHANGED <<status, invoice, deductions>>
       \/ paid_total' >= grand_total /\ Settled(paid_total')
    /\ End(w)
    /\ UNCHANGED <<line, grand_total, returned, kitchen>>

Refunded == MapThenSumSet(LAMBDA k : returned[k], Keys)

CanRefund(key, amount) == amount + Refunded <= paid_total /\ returned[key] = 0

\* refund.  The last part of the money makes the order REFUNDED, which the
\* state machine allows from PAID only; a refund in part asks for no status.
Refund(w, key, amount) ==
    /\ job[w] = [kind |-> "refund", key |-> key, amount |-> amount]
    /\ CanRefund(key, amount)
    /\ \/ amount + Refunded < paid_total /\ UNCHANGED status
       \/ /\ amount + Refunded >= paid_total
          /\ "REFUNDED" \in Allowed[status]
          /\ status' = "REFUNDED"
    /\ returned' = [returned EXCEPT ![key] = amount]
    /\ End(w)
    /\ UNCHANGED <<line, grand_total, paid_total, payment, invoice, deductions, kitchen>>

\* The view loads the order, and void_order checks the status it loaded.
AskVoid(w) ==
    /\ "CANCELLED" \in Allowed[status]
    /\ Start(w, [kind |-> "void"])

\* void_order saves CANCELLED, whatever the status is by now.
Void(w) ==
    /\ job[w] = [kind |-> "void"]
    /\ status' = "CANCELLED"
    /\ End(w)
    /\ UNCHANGED <<line, books, kitchen>>

\* A request that is refused, or dies, before it commits.
GiveUp(w) ==
    /\ job[w] # Nothing
    /\ End(w)
    /\ UNCHANGED <<status, line, books, kitchen>>

Next ==
    \/ \E l \in Lines, state \in LineStatus : EditLine(l, state)
    \/ Fire
    \/ \E t \in Tickets, target \in TicketStatus : MoveTicket(t, target)
    \/ \E w \in Workers, k \in Keys, amount \in Amounts :
          \/ AskPayment(w, k, amount) \/ Pay(w, k, amount)
          \/ AskRefund(w, k, amount) \/ Refund(w, k, amount)
    \/ \E w \in Workers : AskVoid(w) \/ Void(w) \/ GiveUp(w)

Spec == Init /\ [][Next]_vars

-----------------------------------------------------------------------------
(* What must hold whoever works on the order.                              *)

\* The order's paid total is the sum of its Payment rows: a key sent twice,
\* at the same time or later, is charged once.
MoneyAddsUp == paid_total = MapThenSumSet(LAMBDA k : payment[k], Keys)

\* No more money goes back than came in, however many refunds race.
RefundsWithinPaid == Refunded <= paid_total

\* The receipt the customer holds stays true: after settlement nobody moves
\* the total of the order or takes more money for it, not even after a void
\* that came too late.
InvoiceMatchesOrder ==
    invoice # Nothing => invoice = [total |-> grand_total, paid |-> paid_total]

\* Stock leaves once per sale, exactly when the receipt is issued, and an
\* order that is PAID or REFUNDED has both.
SettledOnce ==
    /\ deductions = IF invoice = Nothing THEN 0 ELSE 1
    /\ status \in {"PAID", "REFUNDED"} => invoice # Nothing

\* No line is on two kitchen tickets, however often the order is fired.
NoLineCookedTwice ==
    \A t, u \in Tickets : t # u => cooks[t] \cap cooks[u] = {}

\* An order becomes READY only when all its tickets are: with two stations
\* finishing at once, neither may overlook the other.
ReadyWhenAllReady ==
    [][status # "READY" /\ status' = "READY" =>
          \A t \in Tickets : ticket'[t] \in Done \cup {"none", "CANCELLED"}]_vars

\* "The order is READY only when every one of its tickets is READY."
ReadyMeansReady == status = "READY" => AllDone(ticket)

\* "Terminal states have no outbound edges": what is paid is refunded or
\* stays paid, and what is cancelled or refunded stays so.
TerminalIsFinal ==
    [][status' = status \/ status \notin Terminal \/ status' \in Allowed[status]]_vars
=============================================================================
