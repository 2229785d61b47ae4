---------------------------- MODULE OrderNumbers ----------------------------
(***************************************************************************)
(* The readable numbers of the orders of one branch: orders/services.py on *)
(* the server, orders/service.py on a terminal, and order_open of          *)
(* sync/handlers.py, which carries a terminal's number over.  Both sides   *)
(* count the orders of the day and add one; a number names a code and a    *)
(* count, and no day.                                                      *)
(***************************************************************************)
EXTENDS Naturals, FiniteSets, Sequences

CONSTANTS
    Registers,      \* terminals that open orders offline
    CodeOf,         \* the device_code each of them prints; the program passes none
    WebCodes,       \* "00" and the last characters of device ids, on the web
    Requests,       \* web requests in progress
    MaxOrders,      \* bound: orders of one register, and of the web
    LastDay         \* bound

VARIABLES
    today,
    kept,         \* l_orders of each register: number and day
    sends,        \* numbers of the order_open operations on their way
    orders,       \* rows of the branch on the server: number and day
    refusedOpen,  \* operations rejected as HANDLER_ERROR
    counting,     \* what each web request counted, or Idle
    webErrors     \* requests the constraint ended

numberVars == <<today, kept, sends, orders, refusedOpen, counting, webErrors>>

Number(code, n) == [code |-> code, n |-> n]
Opened(number, r) == [number |-> number, day |-> today, by |-> r]
Free == [code |-> "", n |-> 0]

NumbersInit ==
    /\ today = 1
    /\ kept = [r \in Registers |-> {}]
    /\ sends = [r \in Registers |-> <<>>]
    /\ orders = {} /\ refusedOpen = {}
    /\ counting = [q \in Requests |-> Free]
    /\ webErrors = 0

OfToday(rows) == {o \in rows : o.day = today}

\* open_order of a register: count, insert and enqueue in one transaction.
OpenOffline(r) ==
    /\ Cardinality(kept[r]) < MaxOrders
    /\ LET number == Number(CodeOf[r], Cardinality(OfToday(kept[r])) + 1) IN
         /\ kept' = [kept EXCEPT ![r] = @ \cup {Opened(number, r)}]
         /\ sends' = [sends EXCEPT ![r] = Append(@, Opened(number, r))]
    /\ UNCHANGED <<today, orders, refusedOpen, counting, webErrors>>

\* uniq_local_number_per_branch.
NumberIsFree(number) == \A o \in orders : o.number # number

\* The printed number is preserved; the server's day is that of the arrival.
ArriveOrder(r) ==
    /\ sends[r] # <<>>
    /\ LET number == Head(sends[r]).number IN
         IF NumberIsFree(number)
         THEN orders' = orders \cup {Opened(number, r)} /\ UNCHANGED refusedOpen
         ELSE refusedOpen' = refusedOpen \cup {Head(sends[r])} /\ UNCHANGED orders
    /\ sends' = [sends EXCEPT ![r] = Tail(@)]
    /\ UNCHANGED <<today, kept, counting, webErrors>>

\* A web request counts; a second one may count before it inserts.
CountOrders(q) ==
    /\ counting[q] = Free
    /\ \E code \in WebCodes :
         counting' = [counting EXCEPT ![q] = Number(code, Cardinality(OfToday(orders)) + 1)]
    /\ UNCHANGED <<today, kept, sends, orders, refusedOpen, webErrors>>

InsertOrder(q) ==
    /\ counting[q] # Free
    /\ Cardinality({o \in orders : o.by \notin Registers}) + webErrors < MaxOrders
    /\ IF NumberIsFree(counting[q])
       THEN orders' = orders \cup {Opened(counting[q], "web")} /\ UNCHANGED webErrors
       ELSE webErrors' = webErrors + 1 /\ UNCHANGED orders
    /\ counting' = [counting EXCEPT ![q] = Free]
    /\ UNCHANGED <<today, kept, sends, refusedOpen>>

NextDay ==
    /\ today < LastDay
    /\ today' = today + 1
    /\ UNCHANGED <<kept, sends, orders, refusedOpen, counting, webErrors>>

NumbersNext ==
    \/ \E r \in Registers : OpenOffline(r) \/ ArriveOrder(r)
    \/ \E q \in Requests : CountOrders(q) \/ InsertOrder(q)
    \/ NextDay

NumbersSpec == NumbersInit /\ [][NumbersNext]_numberVars

-----------------------------------------------------------------------------
(* Properties.                                                             *)

\* "`MB-01-0042` stays unique without coordination because the device code is in
\* it": no order a terminal opened is refused by the server for its number.
NumbersNeedNoCoordination == refusedOpen = {}
=============================================================================
