-------------------------- MODULE OfflineTillProofs --------------------------
(***************************************************************************)
(* What holds of a terminal for any number of orders, lines, kills and     *)
(* events of other devices: what the cashier did is what will be sent,     *)
(* the end of an order is its last event, no late event undoes it, and its *)
(* drawer is the server's.                                                 *)
(***************************************************************************)
EXTENDS OfflineTill, TillDrawer, FiniteSetTheorems, WellFoundedInduction, TLAPS

-----------------------------------------------------------------------------
(* The highest of a set of bounded numbers.                                *)

LEMMA GreatestExists ==
    ASSUME NEW N \in Nat, NEW S \in SUBSET (0..N), S # {}
    PROVE  \E x \in S : \A y \in S : x >= y
<1> DEFINE T == {n \in Nat : \E x \in S : n = N - x}
<1>1. \A x \in S : x \in Nat /\ x =< N /\ N - x \in T
  OBVIOUS
<1>2. T \subseteq Nat /\ T # {}
  BY <1>1
<1>3. PICK m \in T : \A y \in T : ~ (<<y, m>> \in OpToRel(<, Nat))
  BY <1>2, NatLessThanWellFounded, WFMin
<1>4. \A y \in T : ~ (y < m)
  BY <1>2, <1>3 DEF OpToRel
<1>5. PICK x \in S : m = N - x
  OBVIOUS
<1> HIDE DEF T
<1>6. \A y \in S : x >= y
  <2> TAKE y \in S
  <2>1. ~ (N - y < m)
    BY <1>1, <1>4
  <2> QED BY <2>1, <1>1, <1>5
<1> QED BY <1>6

\* The next number of an order is behind all of its events.
LEMMA HighestIsBehind ==
    ASSUME NEW events \in SUBSET Event
    PROVE  /\ Highest(events) \in 0..MaxSeq
           /\ \A e \in events : e.sequence =< Highest(events)
           /\ events = {} => Highest(events) = 0
<1> DEFINE N == {e.sequence : e \in events}
<1>1. \A e \in events : e.sequence \in 0..MaxSeq /\ e.sequence \in N
  BY TillAssumption DEF Event
<1>2. N \subseteq 0..MaxSeq /\ (events = {} => N = {})
  BY <1>1
<1>3. Highest(events) = Max(N \cup {0})
  BY DEF Highest
<1> HIDE DEF N
<1>4. N \cup {0} \in SUBSET (0..MaxSeq) /\ N \cup {0} # {}
  BY <1>2, TillAssumption
<1>5. /\ Max(N \cup {0}) \in N \cup {0}
      /\ \A y \in N \cup {0} : Max(N \cup {0}) >= y
  BY <1>4, GreatestExists, TillAssumption DEF Max
<1>6. Max(N \cup {0}) \in 0..MaxSeq
  BY <1>4, <1>5
<1> QED BY <1>1, <1>2, <1>3, <1>5, <1>6

-----------------------------------------------------------------------------
(* Logs whose fold is final.                                               *)

Ends(e) == e.type \in {"ORDER_CLOSED", "ORDER_VOIDED"}

\* Numbers are unique, and the opening has the first.
IsLog(events) ==
    /\ events \subseteq Event
    /\ \A e, f \in events : e.sequence = f.sequence => e = f
    /\ \A e \in events : e.type = "ORDER_OPENED" => e.sequence = 1

\* The fold takes the last event that moves the status.
LEMMA FoldTakesTheLast ==
    ASSUME NEW events, IsLog(events), StatusEvents(events) # {}
    PROVE  \E e \in StatusEvents(events) :
              /\ \A f \in StatusEvents(events) : f.sequence =< e.sequence
              /\ FoldStatus(events) = StatusAfter(e.type)
<1> DEFINE N == {n \in Nat : \E e \in StatusEvents(events) : n = e.sequence}
<1>1. \A e \in StatusEvents(events) :
         e \in events /\ e.sequence \in Nat /\ e.sequence =< MaxSeq /\ e.sequence \in N
  BY TillAssumption DEF StatusEvents, Of, IsLog, Event
<1>2. N \in SUBSET (0..MaxSeq) /\ N # {}
  BY <1>1, TillAssumption
<1>3. PICK n \in N : \A m \in N : n >= m
  BY <1>2, GreatestExists, TillAssumption
<1>4. PICK e \in StatusEvents(events) : n = e.sequence
  BY <1>3
<1>5. \A f \in StatusEvents(events) : ~Before(e, f)
  BY <1>1, <1>3, <1>4 DEF Before
<1> DEFINE c == CHOOSE d \in StatusEvents(events) : \A f \in StatusEvents(events) : ~Before(d, f)
<1>6. c \in StatusEvents(events) /\ \A f \in StatusEvents(events) : ~Before(c, f)
  BY <1>5
<1>7. \A f \in StatusEvents(events) : f.sequence =< c.sequence
  BY <1>1, <1>6 DEF Before
<1>8. FoldStatus(events) = StatusAfter(c.type)
  BY DEF FoldStatus
<1> QED BY <1>6, <1>7, <1>8

\* An order that was closed or voided folds to a terminal state, wherever the
\* events of other devices land, and no other order does.
LEMMA EndedIsTerminal ==
    ASSUME NEW events, IsLog(events)
    PROVE  FoldStatus(events) \in Terminal <=> \E e \in events : Ends(e)
<1>1. ASSUME NEW c \in events, Ends(c) PROVE FoldStatus(events) \in Terminal
  <2>1. c \in StatusEvents(events)
    BY <1>1 DEF Ends, StatusEvents, Of
  <2>2. PICK e \in StatusEvents(events) :
          /\ \A f \in StatusEvents(events) : f.sequence =< e.sequence
          /\ FoldStatus(events) = StatusAfter(e.type)
    BY <2>1, FoldTakesTheLast
  <2>3. e \in events /\ e \in Event /\ c \in Event /\ c.sequence =< e.sequence
    BY <2>1, <2>2 DEF StatusEvents, Of, IsLog
  <2>4. e.type # "ORDER_OPENED"
    <3>1. SUFFICES ASSUME e.type = "ORDER_OPENED" PROVE FALSE
      OBVIOUS
    <3>2. c.sequence = e.sequence
      BY <2>3, <3>1, TillAssumption DEF IsLog, Event
    <3> QED BY <1>1, <2>3, <3>1, <3>2 DEF IsLog, Ends
  <2>5. e.type # "ORDER_FIRED"
    <3>1. SUFFICES ASSUME e.type = "ORDER_FIRED" PROVE FALSE
      OBVIOUS
    <3>2. FiredMoves(events, e)
      BY <2>2, <3>1 DEF StatusEvents, Of
    <3>3. ~Before(c, e)
      BY <1>1, <3>2 DEF FiredMoves, Ends, Of
    <3>4. c.sequence = e.sequence
      BY <2>3, <3>3, TillAssumption DEF Before, Event
    <3> QED BY <1>1, <2>3, <3>1, <3>4 DEF IsLog, Ends
  <2>6. Ends(e)
    BY <2>2, <2>4, <2>5 DEF StatusEvents, Of, Ends
  <2> QED BY <2>2, <2>6 DEF Ends, StatusAfter, Terminal
<1>2. ASSUME FoldStatus(events) \in Terminal PROVE \E e \in events : Ends(e)
  <2>1. StatusEvents(events) # {}
    BY <1>2 DEF FoldStatus, Terminal
  <2>2. PICK e \in StatusEvents(events) : FoldStatus(events) = StatusAfter(e.type)
    BY <2>1, FoldTakesTheLast
  <2>3. e \in events /\ e.type \in {"ORDER_OPENED", "ORDER_FIRED", "ORDER_CLOSED", "ORDER_VOIDED"}
    BY <2>2 DEF StatusEvents, Of
  <2>4. Ends(e)
    BY <1>2, <2>2, <2>3 DEF StatusAfter, Terminal, Ends
  <2> QED BY <2>3, <2>4
<1> QED BY <1>1, <1>2

-----------------------------------------------------------------------------
(* The strengthening: what the transaction in progress may count on.       *)

Writing == {"begin", "insert", "enqueue", "commit"}

LogsAreLogs ==
    /\ log \in [Orders -> SUBSET Event]
    /\ \A o \in Orders : IsLog(log[o]) /\ \A e \in log[o] : e.order = o

CallFits ==
    /\ call = [step |-> call.step, order |-> call.order, type |-> call.type,
               arg |-> call.arg, seen |-> call.seen]
    /\ call.step \in Steps /\ call.type \in Types /\ call.arg \in LineIds \cup {NoOrder}
    /\ call.step # "idle" => call.order \in Orders
    /\ call.step \in Writing /\ call.type = "ORDER_OPENED" => log[call.order] = {}

\* One event at a time, with the number behind all of its order's events; an
\* open transaction keeps the puller out until it commits.
TxFits ==
    /\ call.step \notin {"insert", "enqueue", "commit"} => tx = NoTx
    /\ call.step = "insert" => tx = [NoTx EXCEPT !.open = TRUE]
    /\ call.step = "enqueue" =>
          tx = [open |-> TRUE, events |-> {Ours}, ops |-> {}] /\ Ours.sequence =< MaxSeq
    /\ call.step = "commit" =>
          /\ tx = [open |-> TRUE, events |-> {Ours},
                   ops |-> {Ours} \ Of({Ours}, "ORDER_CLOSED")]
          /\ Ours.sequence =< MaxSeq

\* A call writes to an order this terminal did not end, also when it goes on
\* from a payment to the closing.
StillOpen ==
    call.step \in Writing \/ (call.step \in {"reload", "persist"} /\ call.type = "PAYMENT_TAKEN")
    => \A e \in log[call.order] : e.ours => ~Ends(e)

\* Event by event: NothingIsLeftUnsent and NoEditAfterTheEnd.
QueuedIsDone ==
    /\ \A e : e \in queued <=>
          \E o \in Orders : e \in log[o] /\ e.ours /\ e.type # "ORDER_CLOSED"
    /\ \A e : e \in paid <=>
          \E o \in Orders : e \in log[o] /\ e.ours /\ e.type = "PAYMENT_TAKEN"

EndsLast ==
    \A o \in Orders : \A e, f \in log[o] :
        e.ours /\ f.ours /\ Ends(e) => ~Before(e, f)

TillInv == LogsAreLogs /\ CallFits /\ TxFits /\ StillOpen /\ QueuedIsDone /\ EndsLast

LEMMA NothingIsLost == QueuedIsDone => NothingIsLeftUnsent
<1> SUFFICES ASSUME QueuedIsDone PROVE NothingIsLeftUnsent
  OBVIOUS
<1>1. queued = UNION {OurEvents(o) \ Of(log[o], "ORDER_CLOSED") : o \in Orders}
  <2>1. \A e : e \in queued <=>
           \E o \in Orders : e \in OurEvents(o) \ Of(log[o], "ORDER_CLOSED")
    BY DEF QueuedIsDone, OurEvents, Of
  <2> QED BY <2>1
<1>2. paid = UNION {Of(OurEvents(o), "PAYMENT_TAKEN") : o \in Orders}
  <2>1. \A e : e \in paid <=> \E o \in Orders : e \in Of(OurEvents(o), "PAYMENT_TAKEN")
    BY DEF QueuedIsDone, OurEvents, Of
  <2> QED BY <2>1
<1> QED BY <1>1, <1>2 DEF NothingIsLeftUnsent

LEMMA LastIsLast == EndsLast => NoEditAfterTheEnd
BY DEF EndsLast, NoEditAfterTheEnd, OurEvents, Ends

LEMMA TillStart == TillInit => TillInv
BY DEF TillInit, TillInv, LogsAreLogs, IsLog, CallFits, TxFits, StillOpen, QueuedIsDone, EndsLast,
       NoCall, NoTx, Steps, Types, Writing

-----------------------------------------------------------------------------
(* Each step keeps it.                                                     *)

\* A call begins on an order that has no end.
LEMMA CallsStart ==
    ASSUME TillInv, NEW o \in Orders,
           OpenOrder(o) \/ AddItem(o) \/ VoidItem(o) \/ Fire(o) \/ VoidOrder(o)
           \/ TakePayment(o)
    PROVE  TillInv'
<1>1. PICK type \in Types, arg \in LineIds \cup {NoOrder} :
        /\ Start(o, type, arg)
        /\ log[o] = {} \/ (Editable(o) /\ type # "ORDER_OPENED")
  <2>1. CASE OpenOrder(o)
    BY <2>1 DEF OpenOrder, Types
  <2>2. CASE AddItem(o)
    BY <2>2 DEF AddItem, Types, LineIds
  <2>3. CASE VoidItem(o)
    <3>1. PICK e \in ActiveItems(log[o]) : Editable(o) /\ Start(o, "ITEM_VOIDED", e.arg)
      BY <2>3 DEF VoidItem
    <3>2. e.arg \in LineIds \cup {NoOrder}
      BY <3>1 DEF ActiveItems, Of, TillInv, LogsAreLogs, Event
    <3> QED BY <3>1, <3>2 DEF Types
  <2>4. CASE Fire(o) \/ VoidOrder(o) \/ TakePayment(o)
    BY <2>4 DEF Fire, VoidOrder, TakePayment, Types
  <2> QED BY <2>1, <2>2, <2>3, <2>4
<1>2. /\ UNCHANGED <<log, paid, queued, tx>> /\ call.step = "idle"
      /\ call' = [step |-> "begin", order |-> o, type |-> type, arg |-> arg, seen |-> NoRow]
  BY <1>1 DEF Start, NoCall
<1>3. \A e \in log[o] : ~Ends(e)
  <2>1. Editable(o) => ~ (FoldStatus(log[o]) \in Terminal)
    BY DEF Editable, StatusOf
  <2> QED BY <1>1, <2>1, EndedIsTerminal DEF TillInv, LogsAreLogs
<1>4. CallFits'
  BY <1>1, <1>2 DEF CallFits, Steps
<1>5. TxFits' /\ StillOpen'
  BY <1>2, <1>3 DEF TillInv, TxFits, StillOpen
<1> QED BY <1>2, <1>4, <1>5 DEF TillInv, LogsAreLogs, QueuedIsDone, EndsLast

LEMMA TxBegins ==
    ASSUME TillInv, Begin
    PROVE  TillInv'
<1>1. /\ UNCHANGED <<log, paid, queued>> /\ call.step = "begin"
      /\ tx' = [NoTx EXCEPT !.open = TRUE]
      /\ call' = [call EXCEPT !.step = "insert"]
  BY DEF Begin, BeginImmediate
<1>2. call' = [step |-> "insert", order |-> call.order, type |-> call.type,
               arg |-> call.arg, seen |-> call.seen]
  BY <1>1 DEF TillInv, CallFits
<1>3. CallFits' /\ StillOpen'
  BY <1>1, <1>2 DEF TillInv, CallFits, StillOpen, Steps, Writing
<1> QED BY <1>1, <1>2, <1>3 DEF TillInv, LogsAreLogs, QueuedIsDone, EndsLast, TxFits

LEMMA TxInserts ==
    ASSUME TillInv, Insert
    PROVE  TillInv'
<1>1. /\ UNCHANGED <<log, paid, queued>> /\ call.step = "insert"
      /\ tx' = [open |-> TRUE, events |-> {Ours}, ops |-> {}] /\ Ours.sequence =< MaxSeq
      /\ call' = [call EXCEPT !.step = "enqueue"]
  BY DEF Insert, TillInv, TxFits, NoTx
<1>2. call' = [step |-> "enqueue", order |-> call.order, type |-> call.type,
               arg |-> call.arg, seen |-> call.seen]
  BY <1>1 DEF TillInv, CallFits
<1>3. CallFits' /\ StillOpen'
  BY <1>1, <1>2 DEF TillInv, CallFits, StillOpen, Steps, Writing
<1>4. Ours' = Ours
  BY <1>1, <1>2 DEF Ours
<1> QED BY <1>1, <1>2, <1>3, <1>4 DEF TillInv, LogsAreLogs, QueuedIsDone, EndsLast, TxFits

LEMMA TxEnqueues ==
    ASSUME TillInv, Enqueue
    PROVE  TillInv'
<1>1. /\ UNCHANGED <<log, paid, queued>> /\ call.step = "enqueue"
      /\ tx' = [open |-> TRUE, events |-> {Ours}, ops |-> {Ours} \ Of({Ours}, "ORDER_CLOSED")]
      /\ Ours.sequence =< MaxSeq
      /\ call' = [call EXCEPT !.step = "commit"]
  BY DEF Enqueue, TillInv, TxFits
<1>2. call' = [step |-> "commit", order |-> call.order, type |-> call.type,
               arg |-> call.arg, seen |-> call.seen]
  BY <1>1 DEF TillInv, CallFits
<1>3. CallFits' /\ StillOpen'
  BY <1>1, <1>2 DEF TillInv, CallFits, StillOpen, Steps, Writing
<1>4. Ours' = Ours
  BY <1>1, <1>2 DEF Ours
<1> QED BY <1>1, <1>2, <1>3, <1>4 DEF TillInv, LogsAreLogs, QueuedIsDone, EndsLast, TxFits

\* The commit adds one event, behind all others, with its operation.
LEMMA TxCommits ==
    ASSUME TillInv, Commit
    PROVE  TillInv'
<1> DEFINE o == call.order
           new == Ours
<1>1. /\ call.step = "commit" /\ o \in Orders
      /\ tx = [open |-> TRUE, events |-> {new}, ops |-> {new} \ Of({new}, "ORDER_CLOSED")]
      /\ new.sequence =< MaxSeq
      /\ tx' = NoTx /\ call' = [call EXCEPT !.step = "reload"]
  BY DEF Commit, TillInv, TxFits, CallFits
<1>2. /\ new.order = o /\ new.ours /\ new.type = call.type
      /\ new.sequence = Highest(log[o]) + 1
  BY DEF Ours
<1>3. log \in [Orders -> SUBSET Event]
  BY DEF TillInv, LogsAreLogs
<1>4. /\ new.sequence \in 1..MaxSeq
      /\ \A e \in log[o] : e.sequence < new.sequence /\ e.sequence \in Nat
      /\ log[o] = {} => new.sequence = 1
  <2>1. log[o] \in SUBSET Event
    BY <1>1, <1>3
  <2>2. \A e \in log[o] : e.sequence \in Nat
    BY <2>1, TillAssumption DEF Event
  <2> QED BY <1>1, <1>2, <2>1, <2>2, HighestIsBehind, TillAssumption
<1>5. new \in Event
  <2>1. new = [order |-> o, sequence |-> new.sequence, type |-> call.type,
               arg |-> call.arg, ours |-> TRUE]
    BY DEF Ours
  <2>2. call.type \in Types /\ call.arg \in LineIds \cup {NoOrder}
    BY DEF TillInv, CallFits
  <2>3. new.sequence \in 1..MaxSeq
    BY <1>4
  <2> DEFINE n == new.sequence
  <2> HIDE DEF new, n
  <2>4. [order |-> o, sequence |-> n, type |-> call.type, arg |-> call.arg, ours |-> TRUE]
        \in Event
    <3>1. n \in 1..MaxSeq
      BY <2>3 DEF n
    <3> QED BY <1>1, <2>2, <3>1 DEF Event
  <2> QED BY <2>1, <2>4 DEF n
<1> HIDE DEF new, o
<1>16. /\ log' = [p \in Orders |-> log[p] \cup {e \in {new} : e.order = p}]
       /\ paid' = paid \cup Of({new}, "PAYMENT_TAKEN")
       /\ queued' = queued \cup ({new} \ Of({new}, "ORDER_CLOSED"))
  <2>1. tx.open /\ tx.events = {new} /\ tx.ops = {new} \ Of({new}, "ORDER_CLOSED")
    BY <1>1
  <2> QED BY <2>1 DEF Commit, WithEvents
<1>6. \A p \in Orders : log'[p] = IF p = o THEN log[o] \cup {new} ELSE log[p]
  <2> TAKE p \in Orders
  <2>1. {e \in {new} : e.order = p} = IF p = o THEN {new} ELSE {}
    BY <1>2
  <2> QED BY <1>16, <2>1
<1>7. /\ log' \in [Orders -> SUBSET Event]
      /\ paid' = paid \cup Of({new}, "PAYMENT_TAKEN")
      /\ queued' = queued \cup ({new} \ Of({new}, "ORDER_CLOSED"))
  BY <1>3, <1>5, <1>16
<1>8. IsLog(log[o] \cup {new})
  <2>1. new.type = "ORDER_OPENED" => new.sequence = 1
    BY <1>1, <1>2, <1>4 DEF TillInv, CallFits, Writing, o
  <2>2. IsLog(log[o])
    BY <1>1 DEF TillInv, LogsAreLogs
  <2>3. \A e \in log[o] : e.sequence # new.sequence
    BY <1>4
  <2> QED BY <1>5, <2>1, <2>2, <2>3 DEF IsLog
<1>9. LogsAreLogs'
  <2> SUFFICES ASSUME NEW p \in Orders
               PROVE  IsLog(log'[p]) /\ \A e \in log'[p] : e.order = p
    BY <1>7 DEF LogsAreLogs
  <2>1. IsLog(log[p]) /\ \A e \in log[p] : e.order = p
    BY DEF TillInv, LogsAreLogs
  <2> QED BY <1>2, <1>6, <1>8, <2>1
<1>10. call' = [step |-> "reload", order |-> o, type |-> call.type,
                arg |-> call.arg, seen |-> call.seen]
  BY <1>1 DEF TillInv, CallFits, o
<1>11. CallFits' /\ TxFits'
  BY <1>1, <1>10 DEF TillInv, CallFits, TxFits, Steps, Writing
<1>12. \A e \in log[o] : e.ours => ~Ends(e)
  BY <1>1 DEF TillInv, StillOpen, Writing, o
<1>13. StillOpen'
  BY <1>1, <1>2, <1>6, <1>10, <1>12 DEF StillOpen, Writing, Ends
<1>14. QueuedIsDone'
  BY <1>1, <1>2, <1>6, <1>7 DEF TillInv, QueuedIsDone, Of
<1>15. EndsLast'
  BY <1>1, <1>2, <1>4, <1>6, <1>12 DEF TillInv, EndsLast, Before
<1> QED BY <1>9, <1>11, <1>13, <1>14, <1>15 DEF TillInv

LEMMA ProjectionFollows ==
    ASSUME TillInv, Reload \/ PersistProjection
    PROVE  TillInv'
<1>1. UNCHANGED <<log, paid, queued, tx>> /\ call.step \in {"reload", "persist"} /\ tx = NoTx
  BY DEF Reload, PersistProjection, TillInv, TxFits
<1>2. CASE Reload
  <2>1. call' = [step |-> "persist", order |-> call.order, type |-> call.type,
                 arg |-> call.arg, seen |-> Fold(log[call.order])]
    BY <1>2 DEF Reload, TillInv, CallFits
  <2> QED BY <1>1, <1>2, <2>1
          DEF Reload, TillInv, LogsAreLogs, CallFits, TxFits, StillOpen, QueuedIsDone, EndsLast, Steps,
              Writing
<1>3. CASE PersistProjection
  <2>1. CASE call.type = "PAYMENT_TAKEN" /\ call.seen.due =< 0
    <3>1. call' = [step |-> "begin", order |-> call.order, type |-> "ORDER_CLOSED",
                   arg |-> NoOrder, seen |-> NoRow]
      BY <1>3, <2>1 DEF PersistProjection, NoCall
    <3> QED BY <1>1, <2>1, <3>1
            DEF TillInv, LogsAreLogs, CallFits, TxFits, StillOpen, QueuedIsDone, EndsLast, Steps,
                Writing, Types
  <2>2. CASE ~ (call.type = "PAYMENT_TAKEN" /\ call.seen.due =< 0)
    <3>1. call' = NoCall
      BY <1>3, <2>2 DEF PersistProjection
    <3> QED BY <1>1, <3>1
            DEF TillInv, LogsAreLogs, CallFits, TxFits, StillOpen, QueuedIsDone, EndsLast, Steps,
                Writing, Types, NoCall
  <2> QED BY <2>1, <2>2
<1> QED BY <1>2, <1>3

\* An event of another device may land anywhere behind the opening.
LEMMA Pulls ==
    ASSUME TillInv, PullEvent
    PROVE  TillInv'
<1>1. PICK o \in Orders, new \in Event :
        /\ UNCHANGED <<paid, queued, call, tx>> /\ ~tx.open
        /\ Known(o) /\ new.order = o /\ ~new.ours /\ new.type # "ORDER_OPENED"
        /\ \A e \in log[o] : e.sequence # new.sequence
        /\ log' = [log EXCEPT ![o] = @ \cup {new}]
  <2>1. PICK o \in Orders, n \in 1 .. MaxSeq,
             type \in Types \ {"ORDER_OPENED"}, line \in OtherLines :
          /\ \A e \in log[o] : e.sequence # n
          /\ Known(o)
          /\ log' = [log EXCEPT ![o] = @ \cup
               {[order |-> o, sequence |-> n, type |-> type, ours |-> FALSE,
                 arg |-> IF type \in {"ITEM_ADDED", "ITEM_VOIDED"} THEN line ELSE NoOrder]}]
    BY DEF PullEvent
  <2> DEFINE new == [order |-> o, sequence |-> n, type |-> type, ours |-> FALSE,
                     arg |-> IF type \in {"ITEM_ADDED", "ITEM_VOIDED"} THEN line ELSE NoOrder]
  <2>2. new \in Event
    BY DEF Event, LineIds
  <2> QED BY <2>1, <2>2 DEF PullEvent
<1>2. call.step \notin {"insert", "enqueue", "commit"}
  BY <1>1 DEF TillInv, TxFits, NoTx
<1>3. /\ \A p \in Orders : log'[p] = IF p = o THEN log[o] \cup {new} ELSE log[p]
      /\ log' \in [Orders -> SUBSET Event]
  BY <1>1 DEF TillInv, LogsAreLogs
<1>4. LogsAreLogs'
  <2>1. IsLog(log[o] \cup {new})
    BY <1>1 DEF TillInv, LogsAreLogs, IsLog
  <2> QED BY <1>1, <1>3, <2>1 DEF TillInv, LogsAreLogs
<1>5. CallFits'
  <2>1. log[o] # {}
    BY <1>1 DEF Known
  <2> QED BY <1>1, <1>3, <2>1 DEF TillInv, CallFits, Steps, Writing
<1>6. TxFits'
  BY <1>1, <1>2 DEF TillInv, TxFits
<1>7. StillOpen'
  BY <1>1, <1>3 DEF TillInv, StillOpen, CallFits, Steps, Writing
<1>8. QueuedIsDone' /\ EndsLast'
  BY <1>1, <1>3 DEF TillInv, QueuedIsDone, EndsLast
<1> QED BY <1>4, <1>5, <1>6, <1>7, <1>8 DEF TillInv

LEMMA TillStep == TillInv /\ [TillNext]_tillVars => TillInv'
<1> SUFFICES ASSUME TillInv, [TillNext]_tillVars PROVE TillInv'
  OBVIOUS
<1>1. CASE Kill
  BY <1>1 DEF Kill, TillInv, LogsAreLogs, CallFits, TxFits, StillOpen, QueuedIsDone, EndsLast, Steps,
              Writing, Types, NoCall
<1>2. CASE UNCHANGED tillVars
  BY <1>2 DEF tillVars, TillInv, LogsAreLogs, CallFits, TxFits, StillOpen, QueuedIsDone, EndsLast, Ours
<1> QED BY <1>1, <1>2, CallsStart, TxBegins, TxInserts, TxEnqueues, TxCommits,
           ProjectionFollows, Pulls DEF TillNext

LEMMA TillAlways == TillSpec => []TillInv
BY TillStart, TillStep, PTL DEF TillSpec

-----------------------------------------------------------------------------
(* What follows.                                                           *)

\* However often the program dies, and wherever: the events and payments of the
\* cashier are exactly those that are queued for the server.
THEOREM NothingStaysUnsent == TillSpec => []NothingIsLeftUnsent
BY TillAlways, NothingIsLost, PTL DEF TillInv

\* The terminal adds nothing to an order it closed or voided.
THEOREM NothingAfterTheEnd == TillSpec => []NoEditAfterTheEnd
BY TillAlways, LastIsLast, PTL DEF TillInv

\* Logs only grow.
LEMMA LogsGrow ==
    ASSUME TillInv, [TillNext]_tillVars, NEW o \in Orders
    PROVE  log[o] \subseteq log'[o]
<1>1. CASE Commit
  BY <1>1 DEF Commit, WithEvents
<1>2. CASE PullEvent
  BY <1>2 DEF PullEvent, TillInv, LogsAreLogs
<1>3. CASE Insert
  BY <1>3 DEF Insert, WithEvents
<1>4. CASE UNCHANGED log
  BY <1>4
<1> QED BY <1>1, <1>2, <1>3, <1>4
        DEF TillNext, tillVars, OpenOrder, AddItem, VoidItem, Fire, VoidOrder, TakePayment,
            Start, Begin, Enqueue, Reload, PersistProjection, Kill

\* No step takes an order out of its terminal states, wherever in the log an
\* event of another device lands.
THEOREM TheEndIsFinal == TillSpec => EndIsFinal
<1>1. TillInv /\ TillInv' /\ [TillNext]_tillVars =>
         [\A o \in Orders :
            FoldStatus(log[o]) \in Terminal => FoldStatus(log'[o]) \in Terminal]_tillVars
  <2> SUFFICES ASSUME TillInv, TillInv', [TillNext]_tillVars, NEW o \in Orders,
                      FoldStatus(log[o]) \in Terminal
               PROVE  FoldStatus(log'[o]) \in Terminal
    OBVIOUS
  <2>1. IsLog(log[o]) /\ IsLog(log'[o])
    BY DEF TillInv, LogsAreLogs
  <2>2. \E e \in log[o] : Ends(e)
    BY <2>1, EndedIsTerminal
  <2> QED BY <2>1, <2>2, EndedIsTerminal, LogsGrow
<1> QED BY <1>1, TillAlways, PTL DEF TillSpec, EndIsFinal

-----------------------------------------------------------------------------
(* What the projection and the calls are made of.                          *)

\* A log is finite: its events have numbers of their own.
LEMMA LogIsFinite == ASSUME NEW events, IsLog(events) PROVE IsFiniteSet(events)
<1>1. \A e \in events : e.sequence \in 1 .. MaxSeq
  BY DEF IsLog, Event
<1>2. IsFiniteSet(1 .. MaxSeq)
  BY FS_Interval, TillAssumption
<1> DEFINE number == [e \in events |-> e.sequence]
<1>3. number \in Injection(events, 1 .. MaxSeq)
  BY <1>1 DEF Injection, IsInjective, IsLog
<1> QED BY <1>2, <1>3, FS_Injection

\* What an order folds to is a status and an amount.
LEMMA FoldTypes ==
    ASSUME NEW events, IsLog(events)
    PROVE  FoldStatus(events) \in Status /\ BalanceDue(events) \in Int
<1>1. FoldStatus(events) \in Status
  <2>1. CASE StatusEvents(events) = {}
    BY <2>1 DEF FoldStatus, Status
  <2>2. CASE StatusEvents(events) # {}
    <3>1. PICK e \in StatusEvents(events) : FoldStatus(events) = StatusAfter(e.type)
      BY <2>2, FoldTakesTheLast
    <3>2. e.type \in {"ORDER_OPENED", "ORDER_FIRED", "ORDER_CLOSED", "ORDER_VOIDED"}
      BY <3>1 DEF StatusEvents, Of
    <3> QED BY <3>1, <3>2 DEF StatusAfter, Status
  <2> QED BY <2>1, <2>2
<1>2. IsFiniteSet(ActiveItems(events)) /\ IsFiniteSet(Of(events, "PAYMENT_TAKEN"))
  <2>1. ActiveItems(events) \subseteq events /\ Of(events, "PAYMENT_TAKEN") \subseteq events
    BY DEF ActiveItems, Of
  <2> QED BY <2>1, LogIsFinite, FS_Subset
<1>3. /\ Cardinality(ActiveItems(events)) \in Nat
      /\ Cardinality(Of(events, "PAYMENT_TAKEN")) \in Nat
  BY <1>2, FS_CardinalityType
<1> QED BY <1>1, <1>3 DEF BalanceDue

\* The rows of the projection are folds, what a call has seen is one, and a terminal
\* that is idle has no call.
RowsAreFolds ==
    /\ DOMAIN row = Orders
    /\ \A o \in Orders : row[o].status \in Status /\ row[o].due \in Int
    /\ call.seen.status \in Status /\ call.seen.due \in Int
    /\ call.step = "idle" => call = NoCall
    /\ pulled \in 0 .. MaxPulled /\ kills \in 0 .. MaxKills

\* Nothing is projected at first.
LEMMA RowsStart == TillInit => RowsAreFolds
BY TillAssumption DEF TillInit, RowsAreFolds, NoRow, NoCall, Status

\* A call that only moves on has seen what it had seen.
LEMMA CallMovesOn ==
    ASSUME TillInv, RowsAreFolds, NEW step \in Steps \ {"idle"},
           call' = [call EXCEPT !.step = step], UNCHANGED <<row, pulled, kills>>
    PROVE  RowsAreFolds'
<1>1. call' = [step |-> step, order |-> call.order, type |-> call.type,
               arg |-> call.arg, seen |-> call.seen]
  BY DEF TillInv, CallFits
<1>2. call'.seen = call.seen /\ call'.step # "idle"
  BY <1>1
<1> QED BY <1>2 DEF RowsAreFolds, NoCall

\* Every step keeps the rows folds.
LEMMA RowsFollow == TillInv /\ RowsAreFolds /\ [TillNext]_tillVars => RowsAreFolds'
<1> SUFFICES ASSUME TillInv, RowsAreFolds, [TillNext]_tillVars PROVE RowsAreFolds'
  OBVIOUS
<1>1. ASSUME NEW o, NEW type, NEW arg, Start(o, type, arg) PROVE RowsAreFolds'
  <2>1. /\ call' = [step |-> "begin", order |-> o, type |-> type, arg |-> arg, seen |-> NoRow]
        /\ row' = row /\ pulled' = pulled /\ kills' = kills
    BY <1>1 DEF Start, NoCall
  <2>2. call'.seen = NoRow /\ call'.step # "idle"
    BY <2>1
  <2> QED BY <2>1, <2>2 DEF RowsAreFolds, NoRow, Status
<1>2. ASSUME NEW o \in Orders,
             OpenOrder(o) \/ AddItem(o) \/ VoidItem(o) \/ Fire(o) \/ VoidOrder(o) \/ TakePayment(o)
      PROVE  RowsAreFolds'
  BY <1>1, <1>2 DEF OpenOrder, AddItem, VoidItem, Fire, VoidOrder, TakePayment
<1>3. CASE Begin \/ Insert \/ Enqueue \/ Commit
  <2>1. PICK step \in {"insert", "enqueue", "commit", "reload"} :
           call' = [call EXCEPT !.step = step] /\ UNCHANGED <<row, pulled, kills>>
    BY <1>3 DEF Begin, Insert, Enqueue, Commit
  <2>2. step \in Steps \ {"idle"}
    BY DEF Steps
  <2> QED BY <2>1, <2>2, CallMovesOn
<1>4. CASE Reload
  <2>1. call.step = "reload" /\ call.order \in Orders
    BY <1>4 DEF Reload, TillInv, CallFits
  <2>2. PICK seen : seen = Fold(log[call.order])
    OBVIOUS
  <2>3. call' = [call EXCEPT !.step = "persist", !.seen = seen]
    BY <1>4, <2>2 DEF Reload
  <2>4. call' = [step |-> "persist", order |-> call.order, type |-> call.type,
                 arg |-> call.arg, seen |-> seen]
    BY <2>3 DEF TillInv, CallFits
  <2>5. IsLog(log[call.order])
    BY <2>1 DEF TillInv, LogsAreLogs
  <2>6. seen.status \in Status /\ seen.due \in Int
    BY <2>2, <2>5, FoldTypes DEF Fold
  <2>7. call'.seen = seen /\ call'.step # "idle"
    BY <2>4
  <2>8. row' = row /\ pulled' = pulled /\ kills' = kills
    BY <1>4 DEF Reload
  <2> QED BY <2>6, <2>7, <2>8 DEF RowsAreFolds
<1>5. CASE PersistProjection
  <2>1. row' = [row EXCEPT ![call.order] = call.seen] /\ pulled' = pulled /\ kills' = kills
    BY <1>5 DEF PersistProjection
  <2>2. \/ call' = NoCall
        \/ call' = [step |-> "begin", order |-> call.order, type |-> "ORDER_CLOSED",
                    arg |-> NoOrder, seen |-> NoRow]
    BY <1>5 DEF PersistProjection, NoCall
  <2>3. call'.seen = NoRow /\ (call'.step = "idle" => call' = NoCall)
    BY <2>2 DEF NoCall
  <2>4. NoRow.status \in Status /\ NoRow.due \in Int
    BY DEF NoRow, Status
  <2>5. DOMAIN row' = Orders
    BY <2>1 DEF RowsAreFolds
  <2>6. \A o \in Orders : row'[o] = IF o = call.order THEN call.seen ELSE row[o]
    BY <2>1 DEF RowsAreFolds
  <2>7. \A o \in Orders : row'[o].status \in Status /\ row'[o].due \in Int
    BY <2>6 DEF RowsAreFolds
  <2> QED BY <2>1, <2>3, <2>4, <2>5, <2>7 DEF RowsAreFolds
<1>6. CASE PullEvent
  BY <1>6, TillAssumption DEF PullEvent, RowsAreFolds
<1>7. CASE Kill
  BY <1>7, TillAssumption DEF Kill, RowsAreFolds, NoCall, NoRow, Status
<1>8. CASE UNCHANGED tillVars
  BY <1>8 DEF tillVars, RowsAreFolds
<1> QED BY <1>2, <1>3, <1>4, <1>5, <1>6, <1>7, <1>8 DEF TillNext

\* Together with the rest this is the type of the terminal.
LEMMA TillTypes == TillInv /\ RowsAreFolds => TillTypeOK
<1> SUFFICES ASSUME TillInv, RowsAreFolds PROVE TillTypeOK
  OBVIOUS
<1>1. \A o \in Orders : log[o] \subseteq Event
  BY DEF TillInv, LogsAreLogs
<1>2. paid \subseteq Event /\ queued \subseteq Event
  BY <1>1 DEF TillInv, QueuedIsDone
<1>3. call.step \in Steps /\ call.type \in Types /\ call.order \in Orders \cup {NoOrder}
  BY DEF TillInv, CallFits, RowsAreFolds, NoCall
<1>4. tx.open \in BOOLEAN /\ tx.events \subseteq Event /\ tx.ops \subseteq Event
  <2>1. CASE call.step \in {"enqueue", "commit"}
    <3>1. IsLog(log[call.order]) /\ log[call.order] \in SUBSET Event /\ call.order \in Orders
      BY <2>1 DEF TillInv, CallFits, LogsAreLogs, IsLog
    <3>2. Ours.sequence =< MaxSeq
      BY <2>1 DEF TillInv, TxFits
    <3>3. Highest(log[call.order]) \in 0 .. MaxSeq
      BY <3>1, HighestIsBehind
    <3>4. Ours.sequence \in 1 .. MaxSeq
      BY <3>2, <3>3, TillAssumption DEF Ours
    <3>5. Ours \in Event
      BY <3>1, <3>4 DEF Ours, Event, TillInv, CallFits
    <3>6. \E ops \in SUBSET {Ours} : tx = [open |-> TRUE, events |-> {Ours}, ops |-> ops]
      BY <2>1 DEF TillInv, TxFits
    <3> HIDE DEF Ours
    <3>7. tx.open = TRUE /\ tx.events = {Ours} /\ tx.ops \subseteq {Ours}
      BY <3>6
    <3>8. TRUE \in BOOLEAN
      OBVIOUS
    <3> QED BY <3>5, <3>7, <3>8
  <2>2. CASE call.step \notin {"enqueue", "commit"}
    <3>1. tx = NoTx \/ tx = [NoTx EXCEPT !.open = TRUE]
      BY <2>2 DEF TillInv, TxFits
    <3>2. (tx.open = TRUE \/ tx.open = FALSE) /\ tx.events = {} /\ tx.ops = {}
      BY <3>1 DEF NoTx
    <3>3. TRUE \in BOOLEAN /\ FALSE \in BOOLEAN
      OBVIOUS
    <3> QED BY <3>2, <3>3
  <2> QED BY <2>1, <2>2
<1> QED BY <1>1, <1>2, <1>3, <1>4 DEF TillTypeOK, RowsAreFolds

\* Rows, queue and transactions of the terminal keep their types.
THEOREM TillTyping == TillSpec => []TillTypeOK
<1>1. TillInit => TillInv /\ RowsAreFolds
  BY TillStart, RowsStart
<1>2. TillInv /\ RowsAreFolds /\ [TillNext]_tillVars => TillInv' /\ RowsAreFolds'
  BY TillStep, RowsFollow
<1>3. TillInv /\ RowsAreFolds => TillTypeOK
  BY TillTypes
<1> QED BY <1>1, <1>2, <1>3, PTL DEF TillSpec

-----------------------------------------------------------------------------
(* The drawer, counted twice.                                              *)

\* What the server's cash book is made of.
BookRows ==
    [sale : Sales \cup {NoDrawer}, on : DrawerIds \cup {NoDrawer},
     what : Tenders \cup MOVEMENT_LABELS \cup {"refund"}, by : {"till", "web"}, n : Nat]

\* Queue and book are finite, and a drawer of the server is a row with a report.
BooksAreWritten ==
    /\ IsFiniteSet(Queued)
    /\ IsFiniteSet(cashbook) /\ cashbook \subseteq BookRows
    /\ \A d \in DrawerIds :
          drawer[d] = [status |-> drawer[d].status, report |-> drawer[d].report]

\* A new payment or movement is one the queue does not hold.
NumbersAreTaken == \A op \in Entries : op.n =< Cardinality(Entries)

\* Only the opening of a drawer waits for a human; a count that was accepted
\* closed its drawer; a sale whose opening is on its way is not on the server.
AnswersFit ==
    \A op \in Queued :
        /\ answer[op] = "CONFLICT" => op.type = "shift_open"
        /\ op.type = "shift_close" /\ answer[op] = "APPLIED" => drawer[op.on].status = "CLOSED"
        /\ op.type = "order_open" /\ answer[op] = "PENDING" => bill[op.sale].status = "none"

\* The terminal opens a sale once, and the server knows no other.
SalesOpenOnce ==
    /\ \A p, q \in OfType("order_open") : p.sale = q.sale => p = q
    /\ \A o \in Sales : bill[o].status # "none" => OpenedSale(o)

\* Money is taken for, and given back on, a sale the server has opened.
MoneyIsForASale ==
    \A e \in cashbook : e.what \in Tenders \/ e.by = "web" =>
        e.sale \in Sales /\ bill[e.sale].status # "none"

\* One drawer is open on the server at most.
OneIsOpen == \A d, e \in OpenThere : d = e

\* The strengthening.
TillDrawerInv ==
    /\ TillDrawerTypeOK /\ BooksAreWritten
    /\ NumbersAreTaken /\ AnswersFit /\ SalesOpenOnce /\ MoneyIsForASale
    /\ OneIsOpen /\ CountedWhereTaken

-----------------------------------------------------------------------------

\* What the operations of a type carry.
LEMMA OperationFields ==
    ASSUME NEW op \in Operation
    PROVE  /\ op.type \in {"shift_open", "shift_close", "order_open", "payment", "cash_movement"}
           /\ op.type \in {"shift_open", "shift_close", "cash_movement"} => op.on \in DrawerIds
           /\ op.on \in DrawerIds \cup {NoDrawer}
           /\ op.type \in {"order_open", "payment"} => op.sale \in Sales
           /\ op.type = "payment" => op.what \in Tenders /\ op.n \in Nat
           /\ op.type = "cash_movement" => op.what \in MOVEMENT_LABELS /\ op.n \in Nat
           /\ op.type = "shift_close" => op = [type |-> "shift_close", on |-> op.on]
BY DEF Operation

\* So whatever is a part of the queue can be counted.
LEMMA EntriesAreFinite ==
    ASSUME BooksAreWritten
    PROVE  /\ IsFiniteSet(Entries) /\ Cardinality(Entries) \in Nat
           /\ \A S \in SUBSET Queued : Cardinality(S) \in Nat
<1>1. Entries \subseteq Queued /\ IsFiniteSet(Queued)
  BY DEF Entries, OfType, BooksAreWritten
<1>2. \A S \in SUBSET Queued : IsFiniteSet(S)
  BY <1>1, FS_Subset
<1> QED BY <1>1, <1>2, FS_CardinalityType

\* The number of the next payment or movement is a new one.
LEMMA NumberIsNew ==
    ASSUME TillDrawerInv, NEW op \in Operation,
           op.type \in {"payment", "cash_movement"}, op.n = Number
    PROVE  op \notin Queued
<1> SUFFICES ASSUME op \in Queued PROVE FALSE
  OBVIOUS
<1>1. op \in Entries
  BY DEF Entries, OfType
<1>2. op.n =< Cardinality(Entries) /\ Cardinality(Entries) \in Nat
  BY <1>1, EntriesAreFinite DEF TillDrawerInv, NumbersAreTaken
<1> QED BY <1>2 DEF Number

\* Money is only where the sale is open.
LEMMA NoneIsPaid ==
    ASSUME TillDrawerInv, NEW o \in Sales, bill[o].status = "none"
    PROVE  PaidThere(o) = 0 /\ RefundedThere(o) \in Nat
<1>1. {e \in cashbook : e.sale = o /\ e.what \in Tenders} = {}
  BY DEF TillDrawerInv, MoneyIsForASale
<1>2. IsFiniteSet({e \in cashbook : e.sale = o /\ e.what = "refund"})
  <2>1. {e \in cashbook : e.sale = o /\ e.what = "refund"} \subseteq cashbook
    OBVIOUS
  <2> QED BY <2>1, FS_Subset DEF TillDrawerInv, BooksAreWritten
<1>3. PaidThere(o) = 0
  BY <1>1, FS_EmptySet DEF PaidThere
<1> QED BY <1>2, <1>3, FS_CardinalityType DEF RefundedThere

\* Nothing is queued at first.
LEMMA TillDrawerStart == TillDrawerInit => TillDrawerInv
<1> SUFFICES ASSUME TillDrawerInit PROVE TillDrawerInv
  OBVIOUS
<1> USE TillDrawerAssumption
<1>1. DOMAIN answer = {} /\ cashbook = {}
  BY DEF TillDrawerInit
<1>2. TillDrawerTypeOK
  BY <1>1 DEF TillDrawerInit, TillDrawerTypeOK, Queued, NoSlip, NotThere
<1>3. BooksAreWritten
  BY <1>1, FS_EmptySet DEF TillDrawerInit, BooksAreWritten, Queued, NotThere
<1>4. NumbersAreTaken /\ AnswersFit
  BY <1>1 DEF NumbersAreTaken, AnswersFit, Entries, OfType, Queued
<1>5. SalesOpenOnce
  BY <1>1 DEF TillDrawerInit, SalesOpenOnce, OfType, Queued
<1>6. MoneyIsForASale /\ CountedWhereTaken
  BY <1>1 DEF MoneyIsForASale, CountedWhereTaken, AccountOf
<1>7. OneIsOpen
  BY DEF TillDrawerInit, OneIsOpen, OpenThere, NotThere
<1> QED BY <1>2, <1>3, <1>4, <1>5, <1>6, <1>7 DEF TillDrawerInv

-----------------------------------------------------------------------------
(* The terminal queues an operation.                                       *)

\* A new operation keeps the books as they are.
LEMMA QueueKeeps ==
    ASSUME TillDrawerInv, NEW op \in Operation, op \notin Queued, Queue(op),
           UNCHANGED <<drawer, bill, cashbook, web_acts>>,
           slip' \in [DrawerIds -> [expected : Int, counted : Int, reason : BOOLEAN]],
           op.type = "order_open" => ~OpenedSale(op.sale),
           op.type \in {"payment", "cash_movement"} => op.n = Number
    PROVE  TillDrawerInv'
<1>1. /\ Queued' = Queued \cup {op}
      /\ answer'[op] = "PENDING"
      /\ \A q \in Queued : answer'[q] = answer[q]
  BY DEF Queue, Queued
<1>2. drawer' = drawer /\ bill' = bill /\ cashbook' = cashbook /\ web_acts' = web_acts
  OBVIOUS
<1>3. TillDrawerTypeOK'
  <2>1. Queued' \subseteq Operation
    BY <1>1 DEF TillDrawerInv, TillDrawerTypeOK
  <2>2. \A q \in Queued' : answer'[q] \in Answers
    BY <1>1 DEF TillDrawerInv, TillDrawerTypeOK, Answers
  <2> QED BY <1>2, <2>1, <2>2 DEF TillDrawerInv, TillDrawerTypeOK
<1>4. BooksAreWritten'
  <2>1. IsFiniteSet(Queued')
    BY <1>1, FS_AddElement DEF TillDrawerInv, BooksAreWritten
  <2> QED BY <1>2, <2>1 DEF TillDrawerInv, BooksAreWritten, BookRows, Tenders, MOVEMENT_LABELS
<1>5. \A t : OfType(t)' = IF op.type = t THEN OfType(t) \cup {op} ELSE OfType(t)
  BY <1>1 DEF OfType
<1>6. NumbersAreTaken'
  <2>0. IsFiniteSet(Entries) /\ Cardinality(Entries) \in Nat
    BY EntriesAreFinite DEF TillDrawerInv
  <2>1. CASE op.type \in {"payment", "cash_movement"}
    <3>1. Entries' = Entries \cup {op} /\ op \notin Entries
      BY <1>5, <2>1 DEF Entries, OfType
    <3>2. Cardinality(Entries') = Cardinality(Entries) + 1
      BY <2>0, <3>1, FS_AddElement
    <3>3. \A q \in Entries : q.n \in Nat /\ q.n =< Cardinality(Entries)
      <4>1. \A q \in Entries : q \in Operation /\ q.type \in {"payment", "cash_movement"}
        BY DEF Entries, OfType, TillDrawerInv, TillDrawerTypeOK
      <4> QED BY <4>1, OperationFields DEF TillDrawerInv, NumbersAreTaken
    <3>4. op.n = Cardinality(Entries) + 1
      BY <2>1 DEF Number
    <3> QED BY <2>0, <3>1, <3>2, <3>3, <3>4 DEF NumbersAreTaken
  <2>2. CASE op.type \notin {"payment", "cash_movement"}
    <3>1. Entries' = Entries
      BY <1>5, <2>2 DEF Entries
    <3> QED BY <3>1 DEF TillDrawerInv, NumbersAreTaken
  <2> QED BY <2>1, <2>2
<1>7. AnswersFit'
  <2>1. op.type = "order_open" => bill[op.sale].status = "none"
    BY OperationFields DEF TillDrawerInv, SalesOpenOnce
  <2> QED BY <1>1, <1>2, <2>1 DEF TillDrawerInv, AnswersFit
<1>8. SalesOpenOnce'
  <2>1. \A p, q \in OfType("order_open")' : p.sale = q.sale => p = q
    <3>1. CASE op.type = "order_open"
      <4>1. \A q \in OfType("order_open") : q.sale # op.sale
        BY <3>1 DEF OpenedSale
      <4> QED BY <1>5, <3>1, <4>1 DEF TillDrawerInv, SalesOpenOnce
    <3>2. CASE op.type # "order_open"
      BY <1>5, <3>2 DEF TillDrawerInv, SalesOpenOnce
    <3> QED BY <3>1, <3>2
  <2>2. \A o : OpenedSale(o) => OpenedSale(o)'
    BY <1>5 DEF OpenedSale
  <2> QED BY <1>2, <2>1, <2>2 DEF TillDrawerInv, SalesOpenOnce
<1>9. MoneyIsForASale'
  BY <1>2 DEF TillDrawerInv, MoneyIsForASale
<1>10. OneIsOpen'
  BY <1>2 DEF TillDrawerInv, OneIsOpen, OpenThere
<1>11. CountedWhereTaken'
  <2>1. \A d \in DrawerIds : Arrived(d) \subseteq Arrived(d)'
    BY <1>1, <1>5 DEF Arrived, TakenIn, Entries, OfType
  <2>2. \A d \in DrawerIds : AccountOf(d)' = AccountOf(d)
    BY <1>2 DEF AccountOf
  <2> QED BY <1>2, <2>1, <2>2 DEF TillDrawerInv, CountedWhereTaken
<1> QED BY <1>3, <1>4, <1>6, <1>7, <1>8, <1>9, <1>10, <1>11 DEF TillDrawerInv

\* Such are the opening of a drawer,
LEMMA OpenDrawerKeeps ==
    ASSUME TillDrawerInv, NEW d \in DrawerIds, OpenDrawer(d) PROVE TillDrawerInv'
<1> DEFINE op == [type |-> "shift_open", on |-> d]
<1>1. op \in Operation /\ op \notin Queued /\ Queue(op) /\ op.type = "shift_open"
  BY DEF OpenDrawer, Opened, Operation
<1>2. UNCHANGED <<drawer, bill, cashbook, web_acts>> /\ slip' = slip
  BY DEF OpenDrawer
<1>3. slip' \in [DrawerIds -> [expected : Int, counted : Int, reason : BOOLEAN]]
  BY <1>2 DEF TillDrawerInv, TillDrawerTypeOK
<1> HIDE DEF op
<1> QED BY <1>1, <1>2, <1>3, QueueKeeps

\* (what the till is given is a drawer or none)
LEMMA CurrentIsADrawer == CurrentDrawer \in DrawerIds \cup {NoDrawer}
BY DEF CurrentDrawer, Current

\* of a sale,
LEMMA OpenSaleKeeps ==
    ASSUME TillDrawerInv, NEW o \in Sales, OpenSale(o) PROVE TillDrawerInv'
<1>1. PICK d \in {CurrentDrawer, NoDrawer} :
          Queue([type |-> "order_open", sale |-> o, on |-> d])
  BY DEF OpenSale
<1> DEFINE op == [type |-> "order_open", sale |-> o, on |-> d]
<1>2. op.type = "order_open" /\ op.sale = o /\ Queue(op)
  BY <1>1
<1>3. op \in Operation
  <2>1. d \in DrawerIds \cup {NoDrawer}
    BY <1>1, CurrentIsADrawer
  <2> QED BY <2>1 DEF Operation
<1> HIDE DEF op
<1>4. op \notin Queued
  BY <1>2 DEF OpenSale, OpenedSale, OfType
<1>5. ~OpenedSale(op.sale)
  BY <1>2 DEF OpenSale
<1>6. UNCHANGED <<drawer, bill, cashbook, web_acts>> /\ slip' = slip
  BY DEF OpenSale
<1>7. slip' \in [DrawerIds -> [expected : Int, counted : Int, reason : BOOLEAN]]
  BY <1>6 DEF TillDrawerInv, TillDrawerTypeOK
<1> QED BY <1>2, <1>3, <1>4, <1>5, <1>6, <1>7, QueueKeeps

\* (numbers count)
LEMMA NumberIsNatural == ASSUME TillDrawerInv PROVE Number \in Nat
BY EntriesAreFinite DEF TillDrawerInv, Number

\* a payment,
LEMMA PayAtTillKeeps ==
    ASSUME TillDrawerInv, NEW o \in Sales, PayAtTill(o) PROVE TillDrawerInv'
<1>1. PICK tender \in Tenders :
          Queue([type |-> "payment", sale |-> o, on |-> CurrentDrawer, what |-> tender,
                 n |-> Number])
  BY DEF PayAtTill
<1> DEFINE op == [type |-> "payment", sale |-> o, on |-> CurrentDrawer, what |-> tender,
                  n |-> Number]
<1>2. op.type = "payment" /\ op.n = Number /\ Queue(op)
  BY <1>1
<1>3. op \in Operation
  BY CurrentIsADrawer, NumberIsNatural DEF Operation
<1> HIDE DEF op
<1>4. op \notin Queued
  BY <1>2, <1>3, NumberIsNew
<1>5. UNCHANGED <<drawer, bill, cashbook, web_acts>> /\ slip' = slip
  BY DEF PayAtTill
<1>6. slip' \in [DrawerIds -> [expected : Int, counted : Int, reason : BOOLEAN]]
  BY <1>5 DEF TillDrawerInv, TillDrawerTypeOK
<1> QED BY <1>2, <1>3, <1>4, <1>5, <1>6, QueueKeeps

\* a movement of cash,
LEMMA MoveCashKeeps == ASSUME TillDrawerInv, MoveCashAtTill PROVE TillDrawerInv'
<1>1. PICK d \in Current, what \in MOVEMENT_LABELS \cap Moves :
          Queue([type |-> "cash_movement", on |-> d, what |-> what, n |-> Number])
  BY DEF MoveCashAtTill
<1> DEFINE op == [type |-> "cash_movement", on |-> d, what |-> what, n |-> Number]
<1>2. op.type = "cash_movement" /\ op.n = Number /\ Queue(op)
  BY <1>1
<1>3. op \in Operation
  <2>1. d \in DrawerIds
    BY <1>1 DEF Current
  <2> QED BY <2>1, <1>1, NumberIsNatural DEF Operation
<1> HIDE DEF op
<1>4. op \notin Queued
  BY <1>2, <1>3, NumberIsNew
<1>5. UNCHANGED <<drawer, bill, cashbook, web_acts>> /\ slip' = slip
  BY DEF MoveCashAtTill
<1>6. slip' \in [DrawerIds -> [expected : Int, counted : Int, reason : BOOLEAN]]
  BY <1>5 DEF TillDrawerInv, TillDrawerTypeOK
<1> QED BY <1>2, <1>3, <1>4, <1>5, <1>6, QueueKeeps

\* The expected cash of the terminal is an amount.
LEMMA ExpectedIsAnAmount ==
    ASSUME TillDrawerInv, NEW d \in DrawerIds PROVE ExpectedAtTill(d) \in Int
<1>1. \A whats : {e \in TakenIn(d) : e.what \in whats} \in SUBSET Queued
  BY DEF TakenIn, Entries, OfType
<1>2. \A whats : With(TakenIn(d), whats) \in Nat
  BY <1>1, EntriesAreFinite DEF TillDrawerInv, With
<1>3. /\ With(TakenIn(d), {"cash", PAY_IN}) \in Nat
      /\ With(TakenIn(d), {PAY_OUT, DROP}) \in Nat
  BY <1>2
<1> HIDE DEF With
<1> QED BY <1>3, TillDrawerAssumption DEF ExpectedAtTill

\* and a count.
LEMMA CountDrawerKeeps == ASSUME TillDrawerInv, CountDrawer PROVE TillDrawerInv'
<1>1. PICK d \in Current, miscount \in Miscounts, reason \in BOOLEAN :
          /\ slip' = [slip EXCEPT ![d] = [expected |-> ExpectedAtTill(d), reason |-> reason,
                                          counted |-> ExpectedAtTill(d) + miscount]]
          /\ Queue([type |-> "shift_close", on |-> d])
  BY DEF CountDrawer
<1> DEFINE op == [type |-> "shift_close", on |-> d]
<1>2. d \in DrawerIds /\ ~Counted(d)
  BY <1>1 DEF Current
<1>3. op \in Operation /\ op \notin Queued /\ Queue(op) /\ op.type = "shift_close"
  BY <1>1, <1>2 DEF Counted, Operation
<1>4. UNCHANGED <<drawer, bill, cashbook, web_acts>>
  BY DEF CountDrawer
<1>5. slip' \in [DrawerIds -> [expected : Int, counted : Int, reason : BOOLEAN]]
  <2>1. ExpectedAtTill(d) \in Int /\ miscount \in Int
    BY <1>1, <1>2, ExpectedIsAnAmount, TillDrawerAssumption
  <2>2. ExpectedAtTill(d) + miscount \in Int
    BY <2>1
  <2>3. slip \in [DrawerIds -> [expected : Int, counted : Int, reason : BOOLEAN]]
    BY DEF TillDrawerInv, TillDrawerTypeOK
  <2> HIDE DEF ExpectedAtTill
  <2> QED BY <1>1, <2>1, <2>2, <2>3
<1> HIDE DEF op
<1> QED BY <1>3, <1>4, <1>5, QueueKeeps

-----------------------------------------------------------------------------
(* The server answers an operation.                                        *)

\* What an answer leaves as it is: every operation but the one it answers, and
\* whatever was accepted.
LEMMA AnswerKeeps ==
    ASSUME TillDrawerInv, NEW op \in Queued, NEW status \in Answers,
           answer[op] \in {"PENDING", "CONFLICT"}, Answered(op, status)
    PROVE  /\ Queued' = Queued
           /\ \A q \in Queued : answer'[q] = IF q = op THEN status ELSE answer[q]
           /\ \A q \in Queued' : answer'[q] \in Answers
           /\ Entries' = Entries
           /\ \A t : OfType(t)' = OfType(t)
           /\ \A d \in DrawerIds : Arrived(d) \subseteq Arrived(d)'
           /\ NumbersAreTaken'
<1>1. Queued' = Queued
  BY DEF Answered, Queued
<1>2. \A q \in Queued : answer'[q] = IF q = op THEN status ELSE answer[q]
  BY DEF Answered, Queued
<1>3. \A q \in Queued' : answer'[q] \in Answers
  BY <1>1, <1>2 DEF TillDrawerInv, TillDrawerTypeOK
<1>4. \A t : OfType(t)' = OfType(t)
  BY <1>1 DEF OfType
<1>5. Entries' = Entries
  BY <1>4 DEF Entries
<1>6. \A d \in DrawerIds : Arrived(d) \subseteq Arrived(d)'
  <2>1. \A d : TakenIn(d)' = TakenIn(d) /\ TakenIn(d) \subseteq Queued
    BY <1>5 DEF TakenIn, Entries, OfType
  <2> QED BY <1>2, <2>1 DEF Arrived
<1>7. NumbersAreTaken'
  BY <1>5 DEF TillDrawerInv, NumbersAreTaken
<1> QED BY <1>1, <1>2, <1>3, <1>4, <1>5, <1>6, <1>7

\* An answer that books nothing, and leaves the sales as they are: the drawers may
\* open one, or close some.
LEMMA DrawersMove ==
    ASSUME TillDrawerInv, UNCHANGED <<bill, cashbook>>,
           IsFiniteSet(Queued'), Queued' = Queued,
           slip' = slip, web_acts' \in 0 .. MaxWebActs,
           \A q \in Queued' : answer'[q] \in Answers,
           DOMAIN drawer' = DrawerIds,
           \A d \in DrawerIds :
               /\ drawer'[d].status \in {"none", "OPEN", "CLOSED"}
               /\ drawer'[d] = [status |-> drawer'[d].status, report |-> drawer'[d].report],
           OneIsOpen', AnswersFit', NumbersAreTaken',
           \A d \in DrawerIds : Arrived(d) \subseteq Arrived(d)'
    PROVE  TillDrawerInv'
<1>1. bill' = bill /\ cashbook' = cashbook
  OBVIOUS
<1>2. TillDrawerTypeOK'
  BY <1>1 DEF TillDrawerInv, TillDrawerTypeOK
<1>3. BooksAreWritten'
  BY <1>1 DEF TillDrawerInv, BooksAreWritten, BookRows, Tenders, MOVEMENT_LABELS
<1>4. SalesOpenOnce'
  <2>1. \A t : OfType(t)' = OfType(t)
    BY DEF OfType
  <2> QED BY <1>1, <2>1 DEF TillDrawerInv, SalesOpenOnce, OpenedSale
<1>5. MoneyIsForASale'
  BY <1>1 DEF TillDrawerInv, MoneyIsForASale
<1>6. CountedWhereTaken'
  <2>1. \A d \in DrawerIds : AccountOf(d)' = AccountOf(d)
    BY <1>1 DEF AccountOf
  <2> QED BY <1>1, <2>1 DEF TillDrawerInv, CountedWhereTaken
<1> QED BY <1>2, <1>3, <1>4, <1>5, <1>6 DEF TillDrawerInv

\* The server opens a drawer where none is open.
LEMMA ShiftOpenKeeps ==
    ASSUME TillDrawerInv, NEW op \in Queued, answer[op] \in {"PENDING", "CONFLICT"},
           EnterShiftOpen(op)
    PROVE  TillDrawerInv'
<1>1. op \in Operation /\ op.type = "shift_open"
  BY DEF TillDrawerInv, TillDrawerTypeOK, EnterShiftOpen
<1>2. op.on \in DrawerIds
  BY <1>1, OperationFields
<1>3. PICK d \in DrawerIds : d = op.on
  BY <1>2
<1>4. UNCHANGED <<bill, cashbook>> /\ slip' = slip /\ web_acts' = web_acts
  BY DEF EnterShiftOpen
<1>5. PICK status \in {"CONFLICT", "APPLIED"} : Answered(op, status)
  BY DEF EnterShiftOpen
<1>6. status \in Answers
  BY DEF Answers
<1>7. /\ Queued' = Queued
      /\ \A q \in Queued : answer'[q] = IF q = op THEN status ELSE answer[q]
      /\ \A q \in Queued' : answer'[q] \in Answers
      /\ \A e \in DrawerIds : Arrived(e) \subseteq Arrived(e)'
      /\ NumbersAreTaken'
  BY <1>5, <1>6, AnswerKeeps
<1>8. \/ drawer' = drawer
      \/ /\ drawer[d].status = "none" /\ OpenThere = {}
         /\ drawer' = [drawer EXCEPT ![d].status = "OPEN"]
  BY <1>3 DEF EnterShiftOpen
<1>9. /\ DOMAIN drawer = DrawerIds
      /\ \A e \in DrawerIds :
            /\ drawer[e].status \in {"none", "OPEN", "CLOSED"}
            /\ drawer[e] = [status |-> drawer[e].status, report |-> drawer[e].report]
  BY DEF TillDrawerInv, TillDrawerTypeOK, BooksAreWritten
<1>10. /\ DOMAIN drawer' = DrawerIds
       /\ \A e \in DrawerIds :
             /\ drawer'[e].status = drawer[e].status
                \/ (e = d /\ drawer[e].status = "none" /\ OpenThere = {} /\ drawer'[e].status = "OPEN")
             /\ drawer'[e] = [status |-> drawer'[e].status, report |-> drawer'[e].report]
  BY <1>8, <1>9
<1>11. \A e \in DrawerIds : drawer'[e].status \in {"none", "OPEN", "CLOSED"}
  BY <1>9, <1>10
<1>12. OneIsOpen'
  BY <1>10 DEF TillDrawerInv, OneIsOpen, OpenThere
<1>13. AnswersFit'
  <2>1. \A q \in Queued : q.type = "shift_close" => q.on \in DrawerIds
    BY OperationFields DEF TillDrawerInv, TillDrawerTypeOK
  <2> QED BY <1>1, <1>4, <1>7, <1>10, <2>1 DEF TillDrawerInv, AnswersFit
<1>14. web_acts' \in 0 .. MaxWebActs /\ IsFiniteSet(Queued')
  BY <1>4, <1>7 DEF TillDrawerInv, TillDrawerTypeOK, BooksAreWritten
<1> QED BY <1>4, <1>7, <1>10, <1>11, <1>12, <1>13, <1>14, DrawersMove

\* A drawer that is closed, by a device or in a browser.
LEMMA FreezeCloses ==
    ASSUME TillDrawerInv, NEW d \in DrawerIds, NEW told, Freeze(d, told)
    PROVE  /\ DOMAIN drawer' = DrawerIds
           /\ \A e \in DrawerIds :
                 /\ drawer'[e].status = IF e = d THEN "CLOSED" ELSE drawer[e].status
                 /\ drawer'[e] = [status |-> drawer'[e].status, report |-> drawer'[e].report]
           /\ \A e \in DrawerIds : drawer'[e].status \in {"none", "OPEN", "CLOSED"}
           /\ OneIsOpen'
<1>1. PICK record : record = [status |-> "CLOSED",
                        report |-> [expected |-> ExpectedThere(d), told |-> told,
                                    entries |-> AccountOf(d)]]
  OBVIOUS
<1>2. drawer' = [drawer EXCEPT ![d] = record]
  BY <1>1 DEF Freeze
<1>3. record.status = "CLOSED" /\ record = [status |-> record.status, report |-> record.report]
  BY <1>1
<1>4. /\ DOMAIN drawer = DrawerIds
      /\ \A e \in DrawerIds :
            /\ drawer[e].status \in {"none", "OPEN", "CLOSED"}
            /\ drawer[e] = [status |-> drawer[e].status, report |-> drawer[e].report]
  BY DEF TillDrawerInv, TillDrawerTypeOK, BooksAreWritten
<1>5. /\ DOMAIN drawer' = DrawerIds
      /\ \A e \in DrawerIds : drawer'[e] = IF e = d THEN record ELSE drawer[e]
  BY <1>2, <1>4
<1>6. \A e \in DrawerIds : drawer'[e].status = IF e = d THEN "CLOSED" ELSE drawer[e].status
  BY <1>3, <1>5
<1>7. OneIsOpen'
  BY <1>6 DEF TillDrawerInv, OneIsOpen, OpenThere
<1> QED BY <1>3, <1>4, <1>5, <1>6, <1>7

\* It closes one, or refuses to.
LEMMA ShiftCloseKeeps ==
    ASSUME TillDrawerInv, NEW op \in Queued, answer[op] \in {"PENDING", "CONFLICT"},
           EnterShiftClose(op)
    PROVE  TillDrawerInv'
<1>1. op \in Operation /\ op.type = "shift_close"
  BY DEF TillDrawerInv, TillDrawerTypeOK, EnterShiftClose
<1>2. op.on \in DrawerIds
  BY <1>1, OperationFields
<1>3. PICK d \in DrawerIds : d = op.on
  BY <1>2
<1>4. UNCHANGED <<bill, cashbook>> /\ slip' = slip /\ web_acts' = web_acts
  BY DEF EnterShiftClose
<1>5. PICK status \in {"REJECTED", "APPLIED"} :
          /\ Answered(op, status)
          /\ status = "APPLIED" => drawer[d].status = "CLOSED" \/ MayClose(d)
  BY <1>3 DEF EnterShiftClose
<1>6. status \in Answers
  BY DEF Answers
<1>7. /\ Queued' = Queued
      /\ \A q \in Queued : answer'[q] = IF q = op THEN status ELSE answer[q]
      /\ \A q \in Queued' : answer'[q] \in Answers
      /\ \A e \in DrawerIds : Arrived(e) \subseteq Arrived(e)'
      /\ NumbersAreTaken'
  BY <1>5, <1>6, AnswerKeeps
<1>8. /\ DOMAIN drawer' = DrawerIds
      /\ \A e \in DrawerIds :
            /\ drawer'[e].status = IF e = d /\ MayClose(d) THEN "CLOSED" ELSE drawer[e].status
            /\ drawer'[e] = [status |-> drawer'[e].status, report |-> drawer'[e].report]
      /\ \A e \in DrawerIds : drawer'[e].status \in {"none", "OPEN", "CLOSED"}
      /\ OneIsOpen'
  <2>1. CASE MayClose(d)
    <3>1. Freeze(d, TRUE)
      BY <1>3, <2>1 DEF EnterShiftClose
    <3> QED BY <2>1, <3>1, FreezeCloses
  <2>2. CASE ~MayClose(d)
    <3>1. drawer' = drawer
      BY <1>3, <2>2 DEF EnterShiftClose
    <3> QED BY <2>2, <3>1 DEF TillDrawerInv, TillDrawerTypeOK, BooksAreWritten, OneIsOpen, OpenThere
  <2> QED BY <2>1, <2>2
<1>9. AnswersFit'
  <2>1. \A q \in Queued : q.type = "shift_close" => q.on \in DrawerIds
    BY OperationFields DEF TillDrawerInv, TillDrawerTypeOK
  <2>2. \A e \in DrawerIds : drawer[e].status = "CLOSED" => drawer'[e].status = "CLOSED"
    BY <1>8
  <2>3. status = "APPLIED" => drawer'[d].status = "CLOSED"
    BY <1>5, <1>8
  <2> QED BY <1>1, <1>3, <1>4, <1>7, <2>1, <2>2, <2>3 DEF TillDrawerInv, AnswersFit
<1>10. web_acts' \in 0 .. MaxWebActs /\ IsFiniteSet(Queued')
  BY <1>4, <1>7 DEF TillDrawerInv, TillDrawerTypeOK, BooksAreWritten
<1> QED BY <1>4, <1>7, <1>8, <1>9, <1>10, DrawersMove

\* A browser closes one.
LEMMA WebCloseKeeps ==
    ASSUME TillDrawerInv, NEW d \in DrawerIds, CloseOnTheWeb(d) PROVE TillDrawerInv'
<1>1. answer' = answer /\ slip' = slip /\ UNCHANGED <<bill, cashbook>> /\ Freeze(d, FALSE)
  BY DEF CloseOnTheWeb
<1>2. Queued' = Queued /\ (\A t : OfType(t)' = OfType(t)) /\ Entries' = Entries
  BY <1>1 DEF Queued, OfType, Entries
<1>3. /\ DOMAIN drawer' = DrawerIds
      /\ \A e \in DrawerIds :
            /\ drawer'[e].status = IF e = d THEN "CLOSED" ELSE drawer[e].status
            /\ drawer'[e] = [status |-> drawer'[e].status, report |-> drawer'[e].report]
      /\ \A e \in DrawerIds : drawer'[e].status \in {"none", "OPEN", "CLOSED"}
      /\ OneIsOpen'
  BY <1>1, FreezeCloses
<1>4. AnswersFit'
  <2>1. \A q \in Queued : q.type = "shift_close" => q.on \in DrawerIds
    BY OperationFields DEF TillDrawerInv, TillDrawerTypeOK
  <2> QED BY <1>1, <1>2, <1>3, <2>1 DEF TillDrawerInv, AnswersFit
<1>5. web_acts' \in 0 .. MaxWebActs
  BY TillDrawerAssumption DEF CloseOnTheWeb, WebActs, TillDrawerInv, TillDrawerTypeOK
<1>6. IsFiniteSet(Queued') /\ \A q \in Queued' : answer'[q] \in Answers
  BY <1>1, <1>2 DEF TillDrawerInv, TillDrawerTypeOK, BooksAreWritten
<1>7. NumbersAreTaken'
  BY <1>2 DEF TillDrawerInv, NumbersAreTaken
<1>8. \A e \in DrawerIds : Arrived(e) \subseteq Arrived(e)'
  BY <1>1, <1>2 DEF Arrived, TakenIn
<1> QED BY <1>1, <1>2, <1>3, <1>4, <1>5, <1>6, <1>7, <1>8, DrawersMove

\* A sale comes to the server once, before any money for it.
LEMMA OrderOpenKeeps ==
    ASSUME TillDrawerInv, NEW op \in Queued, answer[op] \in {"PENDING", "CONFLICT"},
           EnterOrderOpen(op)
    PROVE  TillDrawerInv'
<1>1. op \in Operation /\ op.type = "order_open"
  BY DEF TillDrawerInv, TillDrawerTypeOK, EnterOrderOpen
<1>2. PICK o \in Sales : o = op.sale
  BY <1>1, OperationFields
<1>3. answer[op] = "PENDING" /\ bill[o].status = "none"
  BY <1>1, <1>2 DEF TillDrawerInv, AnswersFit
<1>4. /\ drawer' = drawer /\ cashbook' = cashbook /\ slip' = slip /\ web_acts' = web_acts
      /\ Answered(op, "APPLIED")
  BY DEF EnterOrderOpen
<1>5. /\ Queued' = Queued
      /\ \A q \in Queued : answer'[q] = IF q = op THEN "APPLIED" ELSE answer[q]
      /\ \A q \in Queued' : answer'[q] \in Answers
      /\ \A t : OfType(t)' = OfType(t)
      /\ \A e \in DrawerIds : Arrived(e) \subseteq Arrived(e)'
      /\ NumbersAreTaken'
  BY <1>4, AnswerKeeps DEF Answers
<1>6. PICK record : record = [status |-> "OPEN", on |-> ShiftFor(op.on)]
  OBVIOUS
<1>7. record \in [status : {"none", "OPEN", "PAID", "REFUNDED"}, on : DrawerIds \cup {NoDrawer}]
  <2>1. ShiftFor(op.on) \in DrawerIds \cup {NoDrawer}
    BY <1>1, OperationFields DEF ShiftFor
  <2> QED BY <1>6, <2>1
<1>8. bill \in [Sales -> [status : {"none", "OPEN", "PAID", "REFUNDED"},
                          on : DrawerIds \cup {NoDrawer}]]
  BY DEF TillDrawerInv, TillDrawerTypeOK
<1>9. bill' = [bill EXCEPT ![o] = record]
  BY <1>2, <1>6 DEF EnterOrderOpen
<1>10. /\ bill' \in [Sales -> [status : {"none", "OPEN", "PAID", "REFUNDED"},
                              on : DrawerIds \cup {NoDrawer}]]
       /\ \A s \in Sales : bill'[s] = IF s = o THEN record ELSE bill[s]
  BY <1>7, <1>8, <1>9
<1>11. record.status = "OPEN"
  BY <1>6
<1>12. TillDrawerTypeOK'
  BY <1>4, <1>5, <1>10 DEF TillDrawerInv, TillDrawerTypeOK
<1>13. BooksAreWritten'
  BY <1>4, <1>5 DEF TillDrawerInv, BooksAreWritten, BookRows, Tenders, MOVEMENT_LABELS
<1>14. AnswersFit'
  <2>1. \A q \in Queued : q.type = "order_open" =>
           q.sale \in Sales /\ (q.sale = o => q = op)
    BY <1>1, <1>2, OperationFields DEF TillDrawerInv, TillDrawerTypeOK, SalesOpenOnce, OfType
  <2> QED BY <1>1, <1>4, <1>5, <1>10, <2>1 DEF TillDrawerInv, AnswersFit
<1>15. SalesOpenOnce'
  <2>1. OpenedSale(o)
    BY <1>1, <1>2 DEF OpenedSale, OfType
  <2>2. \A s : OpenedSale(s)' <=> OpenedSale(s)
    BY <1>5 DEF OpenedSale
  <2>3. \A s \in Sales : bill'[s].status # "none" => OpenedSale(s)'
    BY <1>10, <2>1, <2>2 DEF TillDrawerInv, SalesOpenOnce
  <2> QED BY <1>5, <2>3 DEF TillDrawerInv, SalesOpenOnce
<1>16. MoneyIsForASale'
  BY <1>4, <1>10, <1>11 DEF TillDrawerInv, MoneyIsForASale
<1>17. OneIsOpen'
  BY <1>4 DEF TillDrawerInv, OneIsOpen, OpenThere
<1>18. CountedWhereTaken'
  <2>1. \A d : AccountOf(d)' = AccountOf(d)
    BY <1>4 DEF AccountOf
  <2>2. \A e \in cashbook : e.by = "web" => e.sale \in Sales /\ e.sale # o
    BY <1>3 DEF TillDrawerInv, MoneyIsForASale
  <2>3. \A e \in cashbook : e.by = "web" => bill'[e.sale].on = bill[e.sale].on
    BY <1>10, <2>2
  <2>4. \A d : AccountOf(d) \subseteq cashbook
    BY DEF AccountOf
  <2> QED BY <1>5, <2>1, <2>3, <2>4 DEF TillDrawerInv, CountedWhereTaken
<1> QED BY <1>5, <1>12, <1>13, <1>14, <1>15, <1>16, <1>17, <1>18 DEF TillDrawerInv

-----------------------------------------------------------------------------
(* Money is booked.                                                        *)

\* An entry is booked where it was taken.
LEMMA BookKeeps ==
    ASSUME TillDrawerInv, NEW entry \in BookRows, Book(entry),
           drawer' = drawer, slip' = slip, web_acts' \in 0 .. MaxWebActs,
           Queued' = Queued, NumbersAreTaken',
           \A q \in Queued' : answer'[q] \in Answers,
           \A q \in Queued : \/ answer'[q] = answer[q]
                             \/ /\ q.type \in {"payment", "cash_movement"}
                                /\ answer'[q] = "APPLIED",
           \A d \in DrawerIds : Arrived(d) \subseteq Arrived(d)',
           bill' \in [Sales -> [status : {"none", "OPEN", "PAID", "REFUNDED"},
                                on : DrawerIds \cup {NoDrawer}]],
           \A o \in Sales : /\ bill'[o].on = bill[o].on
                            /\ bill'[o].status = "none" <=> bill[o].status = "none",
           entry.what \in Tenders \/ entry.by = "web" =>
               entry.sale \in Sales /\ bill[entry.sale].status # "none",
           entry.by = "web" => bill[entry.sale].on = entry.on,
           entry.by # "web" /\ entry.on \in DrawerIds =>
               \E op \in Arrived(entry.on)' : op.n = entry.n /\ op.what = entry.what
    PROVE  TillDrawerInv'
<1>1. cashbook' = cashbook \cup {entry}
  BY DEF Book
<1>2. TillDrawerTypeOK'
  BY DEF TillDrawerInv, TillDrawerTypeOK
<1>3. BooksAreWritten'
  <2>1. IsFiniteSet(cashbook')
    BY <1>1, FS_AddElement DEF TillDrawerInv, BooksAreWritten
  <2>2. cashbook' \subseteq BookRows
    BY <1>1 DEF TillDrawerInv, BooksAreWritten
  <2>3. BookRows' = BookRows
    BY DEF BookRows, Tenders, MOVEMENT_LABELS
  <2>4. IsFiniteSet(Queued')
    BY DEF TillDrawerInv, BooksAreWritten
  <2> QED BY <2>1, <2>2, <2>3, <2>4 DEF TillDrawerInv, BooksAreWritten
<1>4. \A t : OfType(t)' = OfType(t)
  BY DEF OfType
<1>5. AnswersFit'
  <2>1. \A q \in Queued : q.type = "order_open" => q.sale \in Sales
    BY OperationFields DEF TillDrawerInv, TillDrawerTypeOK
  <2> QED BY <2>1 DEF TillDrawerInv, AnswersFit
<1>6. SalesOpenOnce'
  BY <1>4 DEF TillDrawerInv, SalesOpenOnce, OpenedSale
<1>7. MoneyIsForASale'
  <2>1. Tenders' = Tenders
    BY DEF Tenders
  <2>2. \A e \in cashbook : e.what \in Tenders \/ e.by = "web" =>
            e.sale \in Sales /\ bill'[e.sale].status # "none"
    BY DEF TillDrawerInv, MoneyIsForASale
  <2> QED BY <1>1, <2>1, <2>2 DEF MoneyIsForASale
<1>8. OneIsOpen'
  BY DEF TillDrawerInv, OneIsOpen, OpenThere
<1>9. CountedWhereTaken'
  <2> SUFFICES ASSUME NEW d \in DrawerIds, NEW e \in AccountOf(d)'
               PROVE  IF e.by = "web" THEN bill'[e.sale].on = d
                      ELSE \E op \in Arrived(d)' : op.n = e.n /\ op.what = e.what
    BY DEF CountedWhereTaken
  <2>1. e \in cashbook \cup {entry} /\ e.on = d
    BY <1>1 DEF AccountOf
  <2>2. CASE e = entry
    <3>1. entry.by = "web" => bill'[entry.sale].on = d
      BY <2>1, <2>2
    <3>2. entry.by # "web" => \E op \in Arrived(d)' : op.n = entry.n /\ op.what = entry.what
      BY <2>1, <2>2
    <3> QED BY <2>2, <3>1, <3>2
  <2>3. CASE e # entry
    <3>1. e \in AccountOf(d) /\ e \in cashbook
      BY <2>1, <2>3 DEF AccountOf
    <3>2. CASE e.by = "web"
      <4>1. bill[e.sale].on = d
        BY <3>1, <3>2 DEF TillDrawerInv, CountedWhereTaken
      <4>2. e.sale \in Sales
        BY <3>1, <3>2 DEF TillDrawerInv, MoneyIsForASale
      <4> QED BY <3>2, <4>1, <4>2
    <3>3. CASE e.by # "web"
      <4>1. \E op \in Arrived(d) : op.n = e.n /\ op.what = e.what
        BY <3>1, <3>3 DEF TillDrawerInv, CountedWhereTaken
      <4>2. Arrived(d) \subseteq Arrived(d)'
        OBVIOUS
      <4> QED BY <3>3, <4>1, <4>2
    <3> QED BY <3>2, <3>3
  <2> QED BY <2>2, <2>3
<1> QED BY <1>2, <1>3, <1>5, <1>6, <1>7, <1>8, <1>9 DEF TillDrawerInv

\* What a status that changes leaves of a sale.
LEMMA StatusChanges ==
    ASSUME TillDrawerInv, NEW o \in Sales, bill[o].status # "none",
           NEW status \in {"OPEN", "PAID", "REFUNDED"},
           bill' = [bill EXCEPT ![o].status = status]
    PROVE  /\ bill' \in [Sales -> [status : {"none", "OPEN", "PAID", "REFUNDED"},
                                   on : DrawerIds \cup {NoDrawer}]]
           /\ \A s \in Sales : /\ bill'[s].on = bill[s].on
                               /\ bill'[s].status = "none" <=> bill[s].status = "none"
<1>1. bill \in [Sales -> [status : {"none", "OPEN", "PAID", "REFUNDED"},
                          on : DrawerIds \cup {NoDrawer}]]
  BY DEF TillDrawerInv, TillDrawerTypeOK
<1>2. \A s \in Sales : bill'[s] = IF s = o THEN [bill[o] EXCEPT !.status = status] ELSE bill[s]
  BY <1>1
<1>3. PICK record : record = [bill[o] EXCEPT !.status = status]
  OBVIOUS
<1>4. bill[o] \in [status : {"none", "OPEN", "PAID", "REFUNDED"}, on : DrawerIds \cup {NoDrawer}]
  BY <1>1
<1>5. /\ record.status = status /\ record.on = bill[o].on
      /\ record \in [status : {"none", "OPEN", "PAID", "REFUNDED"}, on : DrawerIds \cup {NoDrawer}]
  BY <1>3, <1>4
<1>6. \A s \in Sales : bill'[s] = IF s = o THEN record ELSE bill[s]
  BY <1>2, <1>3
<1>7. \A s \in Sales : /\ bill'[s].on = bill[s].on
                       /\ bill'[s].status = "none" <=> bill[s].status = "none"
  BY <1>5, <1>6
<1>8. DOMAIN bill' = Sales /\ bill' = [s \in Sales |-> bill'[s]]
  BY <1>1
<1>9. \A s \in Sales : bill'[s] \in [status : {"none", "OPEN", "PAID", "REFUNDED"},
                                     on : DrawerIds \cup {NoDrawer}]
  BY <1>1, <1>5, <1>6
<1> QED BY <1>7, <1>8, <1>9

\* A sale that is open stays open, or is paid.
LEMMA PayChanges ==
    ASSUME TillDrawerInv, NEW o \in Sales, bill[o].status = "OPEN", NEW entry, Pay(o, entry)
    PROVE  /\ Book(entry)
           /\ bill' \in [Sales -> [status : {"none", "OPEN", "PAID", "REFUNDED"},
                                   on : DrawerIds \cup {NoDrawer}]]
           /\ \A s \in Sales : /\ bill'[s].on = bill[s].on
                               /\ bill'[s].status = "none" <=> bill[s].status = "none"
<1>1. PICK status : status = IF PaidThere(o) + 1 = SaleTotal THEN "PAID" ELSE bill[o].status
  OBVIOUS
<1>2. bill' = [bill EXCEPT ![o].status = status] /\ Book(entry)
  BY <1>1 DEF Pay
<1>3. status \in {"OPEN", "PAID", "REFUNDED"}
  BY <1>1
<1> QED BY <1>2, <1>3, StatusChanges

\* A payment lands on the drawer it names or on none.
LEMMA ShiftForIsADrawer ==
    ASSUME NEW d \in DrawerIds \cup {NoDrawer} PROVE ShiftFor(d) \in {d, NoDrawer}
BY DEF ShiftFor

\* What was refused changes the queue alone.
LEMMA RefusalKeeps ==
    ASSUME TillDrawerInv, NEW op \in Queued, answer[op] \in {"PENDING", "CONFLICT"},
           Answered(op, "REJECTED"),
           drawer' = drawer, bill' = bill, cashbook' = cashbook, slip' = slip,
           web_acts' = web_acts
    PROVE  TillDrawerInv'
<1>1. /\ Queued' = Queued
      /\ \A q \in Queued : answer'[q] = IF q = op THEN "REJECTED" ELSE answer[q]
      /\ \A q \in Queued' : answer'[q] \in Answers
      /\ \A e \in DrawerIds : Arrived(e) \subseteq Arrived(e)'
      /\ NumbersAreTaken'
  BY AnswerKeeps DEF Answers
<1>2. AnswersFit'
  BY <1>1 DEF TillDrawerInv, AnswersFit
<1>3. OneIsOpen'
  BY DEF TillDrawerInv, OneIsOpen, OpenThere
<1>4. web_acts' \in 0 .. MaxWebActs /\ IsFiniteSet(Queued')
  BY <1>1 DEF TillDrawerInv, TillDrawerTypeOK, BooksAreWritten
<1>5. /\ DOMAIN drawer' = DrawerIds
      /\ \A d \in DrawerIds :
            /\ drawer'[d].status \in {"none", "OPEN", "CLOSED"}
            /\ drawer'[d] = [status |-> drawer'[d].status, report |-> drawer'[d].report]
  BY DEF TillDrawerInv, TillDrawerTypeOK, BooksAreWritten
<1>6. UNCHANGED <<bill, cashbook>>
  OBVIOUS
<1> QED BY <1>1, <1>2, <1>3, <1>4, <1>5, <1>6, DrawersMove

\* So payments keep the books,
LEMMA PaymentKeeps ==
    ASSUME TillDrawerInv, NEW op \in Queued, answer[op] \in {"PENDING", "CONFLICT"},
           EnterPayment(op)
    PROVE  TillDrawerInv'
<1>1. op \in Operation /\ op.type = "payment"
  BY DEF TillDrawerInv, TillDrawerTypeOK, EnterPayment
<1>2. op.sale \in Sales /\ op.on \in DrawerIds \cup {NoDrawer} /\ op.what \in Tenders /\ op.n \in Nat
  BY <1>1, OperationFields
<1>3. drawer' = drawer /\ slip' = slip /\ web_acts' = web_acts
  BY DEF EnterPayment
<1>4. CASE bill[op.sale].status # "OPEN"
  <2>1. Answered(op, "REJECTED") /\ bill' = bill /\ cashbook' = cashbook
    BY <1>4 DEF EnterPayment
  <2> QED BY <1>3, <2>1, RefusalKeeps
<1>5. CASE bill[op.sale].status = "OPEN"
  <2>0. PICK entry : entry = [sale |-> op.sale, on |-> ShiftFor(op.on), what |-> op.what,
                              by |-> "till", n |-> op.n]
    OBVIOUS
  <2>1. Answered(op, "APPLIED") /\ Pay(op.sale, entry)
    BY <1>5, <2>0 DEF EnterPayment
  <2>2. /\ Queued' = Queued
        /\ \A q \in Queued : answer'[q] = IF q = op THEN "APPLIED" ELSE answer[q]
        /\ \A q \in Queued' : answer'[q] \in Answers
        /\ Entries' = Entries
        /\ \A d \in DrawerIds : Arrived(d) \subseteq Arrived(d)'
        /\ NumbersAreTaken'
    BY <2>1, AnswerKeeps DEF Answers
  <2>3. ShiftFor(op.on) \in {op.on, NoDrawer}
    BY <1>2, ShiftForIsADrawer
  <2>4. entry \in BookRows
    BY <1>2, <2>0, <2>3 DEF BookRows
  <2>5. /\ entry.sale = op.sale /\ entry.by = "till" /\ entry.on \in {op.on, NoDrawer}
        /\ entry.n = op.n /\ entry.what = op.what
    BY <2>0, <2>3
  <2>6. /\ Book(entry)
        /\ bill' \in [Sales -> [status : {"none", "OPEN", "PAID", "REFUNDED"},
                                on : DrawerIds \cup {NoDrawer}]]
        /\ \A s \in Sales : /\ bill'[s].on = bill[s].on
                            /\ bill'[s].status = "none" <=> bill[s].status = "none"
    BY <1>2, <1>5, <2>1, PayChanges
  <2>7. entry.on \in DrawerIds =>
           \E q \in Arrived(entry.on)' : q.n = entry.n /\ q.what = entry.what
    <3> SUFFICES ASSUME entry.on \in DrawerIds PROVE op \in Arrived(entry.on)'
      BY <2>5
    <3>1. entry.on = op.on
      BY <2>5, TillDrawerAssumption
    <3>2. op \in Entries' /\ answer'[op] = "APPLIED"
      BY <1>1, <2>2 DEF Entries, OfType
    <3> QED BY <3>1, <3>2 DEF Arrived, TakenIn
  <2>8. web_acts' \in 0 .. MaxWebActs
    BY <1>3 DEF TillDrawerInv, TillDrawerTypeOK
  <2>9. \A q \in Queued : \/ answer'[q] = answer[q]
                          \/ /\ q.type \in {"payment", "cash_movement"}
                             /\ answer'[q] = "APPLIED"
    BY <1>1, <2>2
  <2>10. entry.sale \in Sales /\ bill[entry.sale].status # "none" /\ entry.by # "web"
    BY <1>2, <1>5, <2>5
  <2> QED BY <1>3, <2>2, <2>4, <2>6, <2>7, <2>8, <2>9, <2>10, BookKeeps
<1> QED BY <1>4, <1>5

\* so do movements of cash,
LEMMA CashMovementKeeps ==
    ASSUME TillDrawerInv, NEW op \in Queued, answer[op] \in {"PENDING", "CONFLICT"},
           EnterCashMovement(op)
    PROVE  TillDrawerInv'
<1>1. op \in Operation /\ op.type = "cash_movement"
  BY DEF TillDrawerInv, TillDrawerTypeOK, EnterCashMovement
<1>2. op.on \in DrawerIds /\ op.what \in MOVEMENT_LABELS /\ op.n \in Nat
  BY <1>1, OperationFields
<1>3. drawer' = drawer /\ slip' = slip /\ web_acts' = web_acts /\ bill' = bill
  BY DEF EnterCashMovement
<1>4. CASE drawer[op.on].status # "OPEN"
  <2>1. Answered(op, "REJECTED") /\ cashbook' = cashbook
    BY <1>4 DEF EnterCashMovement
  <2> QED BY <1>3, <2>1, RefusalKeeps
<1>5. CASE drawer[op.on].status = "OPEN"
  <2> DEFINE entry == [sale |-> NoDrawer, on |-> op.on, what |-> op.what,
                       by |-> "till", n |-> op.n]
  <2>1. Answered(op, "APPLIED") /\ Book(entry)
    BY <1>5 DEF EnterCashMovement
  <2>2. /\ Queued' = Queued
        /\ \A q \in Queued : answer'[q] = IF q = op THEN "APPLIED" ELSE answer[q]
        /\ \A q \in Queued' : answer'[q] \in Answers
        /\ Entries' = Entries
        /\ \A d \in DrawerIds : Arrived(d) \subseteq Arrived(d)'
        /\ NumbersAreTaken'
    BY <2>1, AnswerKeeps DEF Answers
  <2>3. entry \in BookRows
    BY <1>2 DEF BookRows
  <2>4. entry.what \notin Tenders
    BY <1>2 DEF MOVEMENT_LABELS, PAY_IN, PAY_OUT, DROP, Tenders
  <2>5. entry.by = "till" /\ entry.on = op.on /\ entry.n = op.n /\ entry.what = op.what
    OBVIOUS
  <2> HIDE DEF entry
  <2>6. op \in Arrived(entry.on)'
    <3>1. op \in Entries' /\ answer'[op] = "APPLIED"
      BY <1>1, <2>2 DEF Entries, OfType
    <3> QED BY <2>5, <3>1 DEF Arrived, TakenIn
  <2>7. web_acts' \in 0 .. MaxWebActs
    BY <1>3 DEF TillDrawerInv, TillDrawerTypeOK
  <2>8. \A q \in Queued : \/ answer'[q] = answer[q]
                          \/ /\ q.type \in {"payment", "cash_movement"}
                             /\ answer'[q] = "APPLIED"
    BY <1>1, <2>2
  <2>9. /\ bill' \in [Sales -> [status : {"none", "OPEN", "PAID", "REFUNDED"},
                               on : DrawerIds \cup {NoDrawer}]]
        /\ \A o \in Sales : /\ bill'[o].on = bill[o].on
                            /\ bill'[o].status = "none" <=> bill[o].status = "none"
    BY <1>3 DEF TillDrawerInv, TillDrawerTypeOK
  <2>10. entry.by # "web"
    BY <2>5
  <2>11. \E q \in Arrived(entry.on)' : q.n = entry.n /\ q.what = entry.what
    BY <2>5, <2>6
  <2> QED BY <1>3, <2>1, <2>2, <2>3, <2>4, <2>7, <2>8, <2>9, <2>10, <2>11, BookKeeps
<1> QED BY <1>4, <1>5

\* What a browser books on a sale.
LEMMA WebBooks ==
    ASSUME TillDrawerInv, NEW o \in Sales, bill[o].status # "none", NEW what \in {"cash", "refund"},
           WebActs, Book(OnTheWeb(o, what)), answer' = answer, slip' = slip, drawer' = drawer,
           bill' \in [Sales -> [status : {"none", "OPEN", "PAID", "REFUNDED"},
                                on : DrawerIds \cup {NoDrawer}]],
           \A s \in Sales : /\ bill'[s].on = bill[s].on
                            /\ bill'[s].status = "none" <=> bill[s].status = "none"
    PROVE  TillDrawerInv'
<1>1. PICK entry : entry = OnTheWeb(o, what)
  OBVIOUS
<1>2. web_acts \in Nat /\ web_acts' \in 0 .. MaxWebActs
  BY TillDrawerAssumption DEF WebActs, TillDrawerInv, TillDrawerTypeOK
<1>3. bill[o].on \in DrawerIds \cup {NoDrawer}
  BY DEF TillDrawerInv, TillDrawerTypeOK
<1>4. entry \in BookRows
  BY <1>1, <1>2, <1>3 DEF OnTheWeb, BookRows, Tenders
<1>5. entry.by = "web" /\ entry.sale = o /\ entry.on = bill[o].on
  BY <1>1 DEF OnTheWeb
<1>6. Queued' = Queued /\ Entries' = Entries
  BY DEF Queued, Entries, OfType
<1>7. NumbersAreTaken'
  BY <1>6 DEF TillDrawerInv, NumbersAreTaken
<1>8. \A d \in DrawerIds : Arrived(d) \subseteq Arrived(d)'
  BY <1>6 DEF Arrived, TakenIn
<1>9. \A q \in Queued' : answer'[q] \in Answers
  BY <1>6 DEF TillDrawerInv, TillDrawerTypeOK
<1>10. Book(entry)
  BY <1>1
<1>11. entry.sale \in Sales /\ bill[entry.sale].status # "none" /\ bill[entry.sale].on = entry.on
  BY <1>5
<1>12. \A q \in Queued : answer'[q] = answer[q]
  OBVIOUS
<1> QED BY <1>2, <1>4, <1>5, <1>6, <1>7, <1>8, <1>9, <1>10, <1>11, <1>12, BookKeeps

\* so do payments in a browser,
LEMMA WebPayKeeps ==
    ASSUME TillDrawerInv, NEW o \in Sales, PayOnTheWeb(o) PROVE TillDrawerInv'
<1>1. /\ WebActs /\ bill[o].status = "OPEN" /\ Pay(o, OnTheWeb(o, "cash"))
      /\ answer' = answer /\ slip' = slip /\ drawer' = drawer
  BY DEF PayOnTheWeb
<1>2. /\ Book(OnTheWeb(o, "cash"))
      /\ bill' \in [Sales -> [status : {"none", "OPEN", "PAID", "REFUNDED"},
                              on : DrawerIds \cup {NoDrawer}]]
      /\ \A s \in Sales : /\ bill'[s].on = bill[s].on
                          /\ bill'[s].status = "none" <=> bill[s].status = "none"
  BY <1>1, PayChanges
<1>3. bill[o].status # "none"
  BY <1>1
<1> QED BY <1>1, <1>2, <1>3, WebBooks

\* and so do refunds: what was never paid is not refunded.
LEMMA WebRefundKeeps ==
    ASSUME TillDrawerInv, NEW o \in Sales, RefundOnTheWeb(o) PROVE TillDrawerInv'
<1>1. /\ WebActs /\ RefundedThere(o) < PaidThere(o) /\ Book(OnTheWeb(o, "refund"))
      /\ answer' = answer /\ slip' = slip /\ drawer' = drawer
  BY DEF RefundOnTheWeb
<1>2. bill[o].status # "none"
  <2> SUFFICES ASSUME bill[o].status = "none" PROVE FALSE
    OBVIOUS
  <2>1. PaidThere(o) = 0 /\ RefundedThere(o) \in Nat
    BY NoneIsPaid
  <2> QED BY <1>1, <2>1
<1>3. PICK status : status = IF RefundedThere(o) + 1 = PaidThere(o) THEN "REFUNDED"
                             ELSE bill[o].status
  OBVIOUS
<1>4. status \in {"OPEN", "PAID", "REFUNDED"}
  BY <1>2, <1>3 DEF TillDrawerInv, TillDrawerTypeOK
<1>5. bill' = [bill EXCEPT ![o].status = status]
  BY <1>3 DEF RefundOnTheWeb
<1>6. /\ bill' \in [Sales -> [status : {"none", "OPEN", "PAID", "REFUNDED"},
                              on : DrawerIds \cup {NoDrawer}]]
      /\ \A s \in Sales : /\ bill'[s].on = bill[s].on
                          /\ bill'[s].status = "none" <=> bill[s].status = "none"
  BY <1>2, <1>4, <1>5, StatusChanges
<1> QED BY <1>1, <1>2, <1>6, WebBooks

-----------------------------------------------------------------------------

\* Nothing happens.
LEMMA TillDrawerIdle ==
    ASSUME TillDrawerInv, UNCHANGED tillDrawerVars PROVE TillDrawerInv'
<1>1. /\ answer' = answer /\ slip' = slip /\ drawer' = drawer /\ bill' = bill
      /\ cashbook' = cashbook /\ web_acts' = web_acts
  BY DEF tillDrawerVars
<1>2. Queued' = Queued /\ (\A t : OfType(t)' = OfType(t)) /\ Entries' = Entries
  BY <1>1 DEF Queued, OfType, Entries
<1>3. IsFiniteSet(Queued')
  BY <1>2 DEF TillDrawerInv, BooksAreWritten
<1>4. TillDrawerTypeOK /\ TillDrawerTypeOK'
  BY <1>1, <1>2 DEF TillDrawerInv, TillDrawerTypeOK
<1>5. AnswersFit' /\ NumbersAreTaken'
  BY <1>1, <1>2 DEF TillDrawerInv, AnswersFit, NumbersAreTaken
<1>6. OneIsOpen'
  BY <1>1 DEF TillDrawerInv, OneIsOpen, OpenThere
<1>7. \A d \in DrawerIds : Arrived(d) \subseteq Arrived(d)'
  BY <1>1, <1>2 DEF Arrived, TakenIn
<1>8. \A d \in DrawerIds : drawer'[d] = [status |-> drawer'[d].status, report |-> drawer'[d].report]
  BY <1>1 DEF TillDrawerInv, BooksAreWritten
<1>9. UNCHANGED <<bill, cashbook>>
  BY <1>1
<1> QED BY <1>1, <1>2, <1>3, <1>4, <1>5, <1>6, <1>7, <1>8, <1>9, DrawersMove DEF TillDrawerTypeOK

\* Together: every step keeps the invariant.
LEMMA TillDrawerStep ==
    ASSUME TillDrawerInv, [TillDrawerNext]_tillDrawerVars PROVE TillDrawerInv'
<1>1. CASE UNCHANGED tillDrawerVars
  BY <1>1, TillDrawerIdle
<1>2. ASSUME NEW d \in DrawerIds, OpenDrawer(d) \/ CloseOnTheWeb(d) PROVE TillDrawerInv'
  BY <1>2, OpenDrawerKeeps, WebCloseKeeps
<1>3. ASSUME NEW o \in Sales,
             OpenSale(o) \/ PayAtTill(o) \/ PayOnTheWeb(o) \/ RefundOnTheWeb(o)
      PROVE  TillDrawerInv'
  BY <1>3, OpenSaleKeeps, PayAtTillKeeps, WebPayKeeps, WebRefundKeeps
<1>4. CASE MoveCashAtTill \/ CountDrawer
  BY <1>4, MoveCashKeeps, CountDrawerKeeps
<1>5. ASSUME NEW op \in Queued, Handle(op) PROVE TillDrawerInv'
  <2>1. answer[op] \in {"PENDING", "CONFLICT"}
    BY <1>5 DEF Handle
  <2>2. CASE EnterShiftOpen(op)
    BY <2>1, <2>2, ShiftOpenKeeps
  <2>3. CASE EnterOrderOpen(op)
    BY <2>1, <2>3, OrderOpenKeeps
  <2>4. CASE EnterPayment(op)
    BY <2>1, <2>4, PaymentKeeps
  <2>5. CASE EnterCashMovement(op)
    BY <2>1, <2>5, CashMovementKeeps
  <2>6. CASE EnterShiftClose(op)
    BY <2>1, <2>6, ShiftCloseKeeps
  <2> QED BY <1>5, <2>2, <2>3, <2>4, <2>5, <2>6 DEF Handle
<1> QED BY <1>1, <1>2, <1>3, <1>4, <1>5 DEF TillDrawerNext

\* A count that was answered, and refused nobody's sight, closed its drawer.
LEMMA NoneForgotten == TillDrawerInv => NoDrawerIsForgotten
<1> SUFFICES ASSUME TillDrawerInv, NEW d \in OpenThere, Counted(d)
             PROVE  answer[[type |-> "shift_close", on |-> d]] \in {"PENDING", "REJECTED"}
  BY DEF NoDrawerIsForgotten
<1>1. PICK op \in Queued : op = [type |-> "shift_close", on |-> d]
  BY DEF Counted
<1>2. op.type = "shift_close" /\ op.on = d
  BY <1>1
<1>3. answer[op] \in Answers
  BY DEF TillDrawerInv, TillDrawerTypeOK
<1>4. answer[op] # "CONFLICT"
  BY <1>2 DEF TillDrawerInv, AnswersFit
<1>5. answer[op] # "APPLIED"
  BY <1>2 DEF TillDrawerInv, AnswersFit, OpenThere
<1> QED BY <1>1, <1>3, <1>4, <1>5 DEF Answers

\* At most one drawer is open, counted.
LEMMA AtMostOneIsOpen == OneIsOpen => Cardinality(OpenThere) =< 1
<1> SUFFICES ASSUME OneIsOpen PROVE Cardinality(OpenThere) =< 1
  OBVIOUS
<1>1. CASE OpenThere = {}
  BY <1>1, FS_EmptySet
<1>2. CASE OpenThere # {}
  <2>1. PICK d : d \in OpenThere
    BY <1>2
  <2>2. OpenThere = {d}
    BY <2>1 DEF OneIsOpen
  <2>3. Cardinality({d}) = 1
    BY FS_Singleton
  <2> QED BY <2>2, <2>3
<1> QED BY <1>1, <1>2

\* So it always holds.
LEMMA BooksAlwaysMatch == TillDrawerSpec => []TillDrawerInv
<1>1. TillDrawerInit => TillDrawerInv
  BY TillDrawerStart
<1>2. TillDrawerInv /\ [TillDrawerNext]_tillDrawerVars => TillDrawerInv'
  BY TillDrawerStep
<1> QED BY <1>1, <1>2, PTL DEF TillDrawerSpec

\* One drawer, two books: the rows of the two sides keep their shape.
THEOREM TillDrawerTyping == TillDrawerSpec => []TillDrawerTypeOK
<1>1. TillDrawerInv => TillDrawerTypeOK
  BY DEF TillDrawerInv
<1> QED BY <1>1, BooksAlwaysMatch, PTL

\* shifts/service.py and sync/handlers.py: in whatever order operations arrive, each entry of the server is one the terminal took into that drawer, and none stays open unseen.
THEOREM OneDrawerTwoBooksHolds == TillDrawerSpec => []OneDrawerTwoBooks
<1>1. TillDrawerInv => OneDrawerTwoBooks
  BY NoneForgotten, AtMostOneIsOpen DEF TillDrawerInv, OneDrawerTwoBooks
<1> QED BY <1>1, BooksAlwaysMatch, PTL
=============================================================================
