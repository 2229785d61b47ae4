---------------------------- MODULE OfflineTill ----------------------------
(***************************************************************************)
(* Orders on a terminal (desktop orders/service.py, fold.py, local/db.py). *)
(* An order is its event log; l_orders is a projection written back from   *)
(* the fold.  Each write of the cashier is one transaction for the event,  *)
(* the payment and the operation of the outbox, and another one for the    *)
(* projection; the puller adds events of other devices between them, and   *)
(* the program may be killed between any two steps.                        *)
(***************************************************************************)
EXTENDS Integers, FiniteSets, FiniteSetsExt

CONSTANTS
    Orders,
    Lines,              \* line_ids minted here
    OtherLines,         \* line_ids of other devices
    NoOrder,
    MaxSeq,             \* bound: events of one order
    MaxPulled,          \* bound: events that come from the server
    MaxKills            \* bound: how often the program dies

ASSUME TillAssumption ==
    /\ NoOrder \notin Orders
    /\ Lines \cap OtherLines = {}
    /\ MaxSeq \in Nat /\ MaxPulled \in Nat /\ MaxKills \in Nat

VARIABLES
    log,          \* l_order_events of each order
    row,          \* l_orders: the projection, or NoRow
    paid,         \* l_payments: the numbers of the events they came with
    queued,       \* sync_outbox
    call,         \* the call of the cashier in progress
    tx,           \* the open transaction and what it wrote
    pulled, kills

tillVars == <<log, row, paid, queued, call, tx, pulled, kills>>

LineIds == Lines \cup OtherLines
Types   == {"ORDER_OPENED", "ITEM_ADDED", "ITEM_VOIDED", "ORDER_FIRED",
            "PAYMENT_TAKEN", "ORDER_CLOSED", "ORDER_VOIDED"}
Status  == {"DRAFT", "OPEN", "IN_KITCHEN", "PAID", "CANCELLED"}
Terminal == {"PAID", "CANCELLED"}

\* arg is the line of an item event, and every payment is of one line's price.
Event == [order : Orders, sequence : 1 .. MaxSeq, type : Types,
          arg : LineIds \cup {NoOrder}, ours : BOOLEAN]

NoRow  == [status |-> "DRAFT", due |-> 0]
NoCall == [step |-> "idle", order |-> NoOrder, type |-> "ORDER_OPENED",
           arg |-> NoOrder, seen |-> NoRow]
NoTx   == [open |-> FALSE, events |-> {}, ops |-> {}]

Steps == {"idle", "begin", "insert", "enqueue", "commit", "reload", "persist"}

TillTypeOK ==
    /\ \A o \in Orders : log[o] \subseteq Event
    /\ \A o \in Orders : row[o].status \in Status /\ row[o].due \in Int
    /\ paid \subseteq Event /\ queued \subseteq Event
    /\ call.step \in Steps /\ call.order \in Orders \cup {NoOrder} /\ call.type \in Types
    /\ tx.open \in BOOLEAN /\ tx.events \subseteq Event /\ tx.ops \subseteq Event
    /\ pulled \in 0 .. MaxPulled /\ kills \in 0 .. MaxKills

TillInit ==
    /\ log = [o \in Orders |-> {}]
    /\ row = [o \in Orders |-> NoRow]
    /\ paid = {} /\ queued = {}
    /\ call = NoCall /\ tx = NoTx
    /\ pulled = 0 /\ kills = 0

-----------------------------------------------------------------------------
(* fold: replay the events in the order of their numbers.                  *)

Of(events, type) == {e \in events : e.type = type}
Before(e, f) == e.sequence < f.sequence

AnyMoves(events, e) == TRUE

\* _order_fired moves a DRAFT or OPEN order only.
FiredMoves(events, e) ==
    \A f \in Of(events, "ORDER_CLOSED") \cup Of(events, "ORDER_VOIDED") : ~Before(f, e)

StatusEvents(events) ==
    Of(events, "ORDER_OPENED") \cup Of(events, "ORDER_CLOSED") \cup Of(events, "ORDER_VOIDED")
    \cup {e \in Of(events, "ORDER_FIRED") : FiredMoves(events, e)}

StatusAfter(type) ==
    CASE type = "ORDER_OPENED" -> "OPEN"      [] type = "ORDER_FIRED"  -> "IN_KITCHEN"
      [] type = "ORDER_CLOSED" -> "PAID"      [] type = "ORDER_VOIDED" -> "CANCELLED"

FoldStatus(events) ==
    IF StatusEvents(events) = {} THEN "DRAFT"
    ELSE StatusAfter((CHOOSE e \in StatusEvents(events) :
                        \A f \in StatusEvents(events) : ~Before(e, f)).type)

\* A line voided before it was added stays: item() finds nothing to mark.
ActiveItems(events) ==
    {e \in Of(events, "ITEM_ADDED") :
        ~ \E v \in Of(events, "ITEM_VOIDED") : v.arg = e.arg /\ Before(e, v)}

Unfired(events) ==
    {e \in ActiveItems(events) : ~ \E f \in Of(events, "ORDER_FIRED") : Before(e, f)}

BalanceDue(events) ==
    Cardinality(ActiveItems(events)) - Cardinality(Of(events, "PAYMENT_TAKEN"))

Fold(events) == [status |-> FoldStatus(events), due |-> BalanceDue(events)]

-----------------------------------------------------------------------------
(* The calls of the cashier: load and check, then write.                   *)

\* "Fold from the events -- the truth, not the projection."
FromProjection(o) == row[o].status
StatusOf(o) == FoldStatus(log[o])

Editable(o) == StatusOf(o) \notin Terminal

Start(o, type, arg) ==
    /\ call = NoCall
    /\ call' = [NoCall EXCEPT !.step = "begin", !.order = o, !.type = type, !.arg = arg]
    /\ UNCHANGED <<log, row, paid, queued, tx, pulled, kills>>

Known(o) == \E e \in log[o] : e.type = "ORDER_OPENED"

OpenOrder(o) == log[o] = {} /\ Start(o, "ORDER_OPENED", NoOrder)

AddItem(o) ==
    /\ Known(o) /\ Editable(o)
    /\ \E line \in Lines :
         /\ \A p \in Orders : \A e \in log[p] : e.arg # line
         /\ Start(o, "ITEM_ADDED", line)

VoidItem(o) ==
    /\ Known(o) /\ Editable(o)
    /\ \E e \in ActiveItems(log[o]) : Start(o, "ITEM_VOIDED", e.arg)

Fire(o) ==
    /\ Known(o) /\ Editable(o) /\ Unfired(log[o]) # {}
    /\ Start(o, "ORDER_FIRED", NoOrder)

VoidOrder(o) == Known(o) /\ Editable(o) /\ Start(o, "ORDER_VOIDED", NoOrder)

\* More than the balance is refused.
TakePayment(o) ==
    /\ Known(o) /\ Editable(o) /\ BalanceDue(log[o]) >= 1
    /\ Start(o, "PAYMENT_TAKEN", NoOrder)

-----------------------------------------------------------------------------
(* The transaction.  Without BEGIN each statement commits by itself.       *)

Autocommit == FALSE
BeginImmediate == TRUE

Begin ==
    /\ call.step = "begin"
    /\ tx' = [NoTx EXCEPT !.open = BeginImmediate]
    /\ call' = [call EXCEPT !.step = "insert"]
    /\ UNCHANGED <<log, row, paid, queued, pulled, kills>>

Highest(events) == Max({e.sequence : e \in events} \cup {0})

\* _append_event, and the row of the payment before it.
Ours == [order |-> call.order, sequence |-> Highest(log[call.order]) + 1,
         type |-> call.type, arg |-> call.arg, ours |-> TRUE]

WithEvents(events) ==
    /\ log' = [o \in Orders |-> log[o] \cup {e \in events : e.order = o}]
    /\ paid' = paid \cup Of(events, "PAYMENT_TAKEN")

Insert ==
    /\ call.step = "insert" /\ Ours.sequence =< MaxSeq
    /\ IF tx.open
       THEN tx' = [tx EXCEPT !.events = {Ours}] /\ UNCHANGED <<log, paid>>
       ELSE WithEvents({Ours}) /\ tx' = [tx EXCEPT !.events = {Ours}]
    /\ call' = [call EXCEPT !.step = "enqueue"]
    /\ UNCHANGED <<row, queued, pulled, kills>>

\* ORDER_CLOSED is recorded with enqueue=False.
Enqueue ==
    /\ call.step = "enqueue"
    /\ LET ops == tx.events \ Of(tx.events, "ORDER_CLOSED") IN
         IF tx.open
         THEN tx' = [tx EXCEPT !.ops = ops] /\ UNCHANGED queued
         ELSE queued' = queued \cup ops /\ UNCHANGED tx
    /\ call' = [call EXCEPT !.step = "commit"]
    /\ UNCHANGED <<log, row, paid, pulled, kills>>

Commit ==
    /\ call.step = "commit"
    /\ IF tx.open THEN WithEvents(tx.events) ELSE UNCHANGED <<log, paid>>
    /\ queued' = queued \cup tx.ops
    /\ tx' = NoTx
    /\ call' = [call EXCEPT !.step = "reload"]
    /\ UNCHANGED <<row, pulled, kills>>

\* reload: fold, then a transaction of its own for the projection.
Reload ==
    /\ call.step = "reload"
    /\ call' = [call EXCEPT !.step = "persist", !.seen = Fold(log[call.order])]
    /\ UNCHANGED <<log, row, paid, queued, tx, pulled, kills>>

\* take_payment goes on to record ORDER_CLOSED when nothing is due.
PersistProjection ==
    /\ call.step = "persist"
    /\ row' = [row EXCEPT ![call.order] = call.seen]
    /\ call' = IF call.type = "PAYMENT_TAKEN" /\ call.seen.due =< 0
               THEN [NoCall EXCEPT !.step = "begin", !.order = call.order,
                                   !.type = "ORDER_CLOSED"]
               ELSE NoCall
    /\ UNCHANGED <<log, paid, queued, tx, pulled, kills>>

-----------------------------------------------------------------------------
(* The puller and the end of the process.                                  *)

\* _apply_order_event keeps the number the server gave; a number that is taken
\* here loses the event.  The puller's transaction waits for an open one.
PullEvent ==
    /\ ~tx.open /\ pulled < MaxPulled
    /\ \E o \in Orders, n \in 1 .. MaxSeq,
          type \in Types \ {"ORDER_OPENED"}, line \in OtherLines :
         /\ \A e \in log[o] : e.sequence # n
         /\ Known(o) /\ n > 1
         /\ log' = [log EXCEPT ![o] = @ \cup
              {[order |-> o, sequence |-> n, type |-> type, ours |-> FALSE,
                arg |-> IF type \in {"ITEM_ADDED", "ITEM_VOIDED"} THEN line ELSE NoOrder]}]
    /\ pulled' = pulled + 1
    /\ UNCHANGED <<row, paid, queued, call, tx, kills>>

Kill ==
    /\ call # NoCall /\ kills < MaxKills
    /\ call' = NoCall /\ tx' = NoTx
    /\ kills' = kills + 1
    /\ UNCHANGED <<log, row, paid, queued, pulled>>

TillNext ==
    \/ \E o \in Orders :
          \/ OpenOrder(o) \/ AddItem(o) \/ VoidItem(o) \/ Fire(o) \/ VoidOrder(o)
          \/ TakePayment(o)
    \/ Begin \/ Insert \/ Enqueue \/ Commit \/ Reload \/ PersistProjection
    \/ PullEvent \/ Kill

TillSpec == TillInit /\ [][TillNext]_tillVars

-----------------------------------------------------------------------------
(* Properties.                                                             *)

OurEvents(o) == {e \in log[o] : e.ours}

\* What the cashier did and what will be sent never part: each event and each
\* payment of this terminal has its operation, and the other way round, at any
\* point at which the program may die.
NothingIsLeftUnsent ==
    /\ queued = UNION {OurEvents(o) \ Of(log[o], "ORDER_CLOSED") : o \in Orders}
    /\ paid = UNION {Of(OurEvents(o), "PAYMENT_TAKEN") : o \in Orders}

\* Once the terminal closed or voided an order it adds nothing to it, also when
\* the program died before the projection said so.
NoEditAfterTheEnd ==
    \A o \in Orders : \A e, f \in OurEvents(o) :
        e.type \in {"ORDER_CLOSED", "ORDER_VOIDED"} => ~Before(e, f)

\* No event that arrives late, and lands anywhere in the log, takes an order out
\* of its terminal states.
EndIsFinal ==
    [][\A o \in Orders :
         FoldStatus(log[o]) \in Terminal => FoldStatus(log'[o]) \in Terminal]_tillVars

\* "the order closes at zero balance".
PaidOrderCloses ==
    \A o \in Orders :
        call = NoCall /\ Of(log[o], "PAYMENT_TAKEN") # {} /\ BalanceDue(log[o]) =< 0
        => StatusOf(o) \in Terminal
=============================================================================
