--------------------------- MODULE SyncPushProofs ---------------------------
(***************************************************************************)
(* The safety of the push for any number of terminals, orders, operations  *)
(* and requests, and any bound on faults.  What the books and the queues   *)
(* say of an operation follows from one inductive invariant, PushInv, on   *)
(* which the refinement and the agreement of both sides also rest.         *)
(***************************************************************************)
EXTENDS SyncPush, TLAPS

LEMMA Constants ==
    ASSUME NEW op \in Ops
    PROVE  /\ Device(op) \in Devices /\ Type(op) \in EntityTypes
           /\ OrderOf(op) \in Orders /\ Seq(op) \in Nat /\ Created(op) \in Nat
BY OperationAssumption DEF Device, Type, OrderOf, Seq, Created

-----------------------------------------------------------------------------
(* Types.                                                                  *)

\* What the handler of an operation writes has the right type.
LEMMA HandlerTypes ==
    ASSUME TypeOK, NEW op \in Ops, HandlerReturns(op) \/ EventApplies(op) \/ NoEntry
    PROVE  effects' \in [Ops -> Nat] /\ orders' \in [Orders -> {"none", "open", "closed"}]
<1>1. CASE NoEntry
  BY <1>1 DEF NoEntry, TypeOK
<1>2. CASE EventApplies(op)
  BY <1>2 DEF EventApplies, Enter, NoEntry, TypeOK
<1>3. CASE HandlerReturns(op)
  <2>1. OrderOf(op) \in Orders
    BY Constants
  <2>2. CASE Enter(op) /\ UNCHANGED orders
    BY <2>2 DEF Enter, TypeOK
  <2>3. CASE Enter(op) /\ (SetOrder(op, "open") \/ SetOrder(op, "closed"))
    BY <2>1, <2>3 DEF Enter, SetOrder, TypeOK
  <2> QED
    BY <1>1, <1>2, <1>3, <2>2, <2>3 DEF HandlerReturns, PaymentApplies
<1> QED BY <1>1, <1>2, <1>3

LEMMA TypeInit == Init => TypeOK
BY BoundAssumption DEF Init, TypeOK, Unanswered, Phases, LocalStatus, ServerStatus, Final

LEMMA AbandonTypes ==
    ASSUME TypeOK, NEW r \in Requests, Abandon(r)
    PROVE  /\ phase' \in [Requests -> Phases]
           /\ batch' \in [Requests -> SUBSET Ops]
           /\ todo' \in [Requests -> SUBSET Ops]
           /\ outcome' \in [Requests -> Final \cup {"none"}]
           /\ answer' \in [Requests -> [Ops -> ServerStatus \cup {"none"}]]
<1>1. CASE Release(r)
  BY <1>1 DEF Release, Unanswered, TypeOK, Phases
<1>2. CASE UNCHANGED request
  BY <1>2 DEF request, TypeOK
<1> QED BY <1>1, <1>2 DEF Abandon

LEMMA TerminalTypes ==
    ASSUME TypeOK, NEW d \in Devices, TerminalStep(d)
    PROVE  TypeOK'
<1>1. CASE SendBatch(d)
  BY <1>1 DEF SendBatch, TypeOK, server, human, budgets, Phases
<1>2. CASE Receive(d)
  BY <1>2, BoundAssumption, RequestAssumption
  DEF Receive, Release, Unanswered, LocalStatusOf, LocalStatus, TypeOK, server, human, budgets, Phases
<1>3. CASE TimeOut(d)
  <2>1. flight[d] \in Requests /\ Abandon(flight[d])
    BY <1>3 DEF TimeOut, TypeOK
  <2> QED
    BY <1>3, <2>1, AbandonTypes, BoundAssumption DEF TimeOut, TypeOK, server, human
<1>4. CASE Refused(d)
  BY <1>4, BoundAssumption DEF Refused, Release, Unanswered, TypeOK, server, human, Phases
<1>5. CASE Restart(d)
  <2>1. flight[d] \in Requests /\ Abandon(flight[d])
    BY <1>5 DEF Restart, TypeOK
  <2> QED
    BY <1>5, <2>1, AbandonTypes, BoundAssumption DEF Restart, TypeOK, server, human
<1> QED BY <1>1, <1>2, <1>3, <1>4, <1>5 DEF TerminalStep

LEMMA ServerTypes ==
    ASSUME TypeOK, NEW r \in Requests, ServerStep(r)
    PROVE  TypeOK'
<1>1. CASE Replay(r)
  BY <1>1 DEF Replay, Answered, TypeOK, terminal, server, human, budgets, Phases
<1>2. CASE Claim(r)
  BY <1>2 DEF Claim, TypeOK, terminal, budgets, Phases, ServerStatus
<1>3. CASE Handle(r)
  <2>1. PICK op \in Ops : Handle(r)!2!(op)
    BY <1>3 DEF Handle
  <2>2. effects' \in [Ops -> Nat] /\ orders' \in [Orders -> {"none", "open", "closed"}]
    BY <2>1, HandlerTypes
  <2> QED BY <1>3, <2>1, <2>2 DEF Handle, Returned, TypeOK, terminal, human, budgets, Phases, Final, ServerStatus
<1>4. CASE ApplyEvent(r)
  <2>1. PICK op \in Ops : ApplyEvent(r)!2!(op)
    BY <1>4 DEF ApplyEvent
  <2>2. effects' \in [Ops -> Nat] /\ orders' \in [Orders -> {"none", "open", "closed"}]
    BY <2>1, HandlerTypes
  <2> QED BY <1>4, <2>1, <2>2 DEF ApplyEvent, Returned, TypeOK, terminal, human, budgets, Phases, Final, ServerStatus
<1>5. CASE Save(r)
  BY <1>5 DEF Save, Answered, TypeOK, terminal, budgets, Phases, Final, ServerStatus
<1> QED BY <1>1, <1>2, <1>3, <1>4, <1>5 DEF ServerStep

LEMMA HumanTypes ==
    ASSUME TypeOK, NEW user \in Users, NEW op \in Ops, NEW kind \in Kinds, HumanStep(user, op, kind)
    PROVE  TypeOK'
<1>1. CASE Look(user, op, kind)
  BY <1>1, BoundAssumption DEF Look, TypeOK, terminal, request, server
<1>2. CASE Settle(user, op, kind)
  BY <1>2 DEF Settle, CloseConflict, TypeOK, terminal, request, server, budgets
<1>3. CASE Retry(user, op, kind)
  BY <1>3, HandlerTypes DEF Retry, CloseConflict, TypeOK, terminal, request, budgets, ServerStatus
<1>4. CASE RetryFails(user, op, kind)
  BY <1>4 DEF RetryFails, TypeOK, terminal, request, server, budgets
<1> QED BY <1>1, <1>2, <1>3, <1>4 DEF HumanStep

LEMMA TypeNext == TypeOK /\ [Next]_vars => TypeOK'
<1> SUFFICES ASSUME TypeOK, [Next]_vars PROVE TypeOK'
  OBVIOUS
<1>1. ASSUME NEW op \in Ops, Enqueue(op) PROVE TypeOK'
  BY <1>1 DEF Enqueue, TypeOK, request, server, human, budgets, LocalStatus
<1>2. ASSUME NEW op \in Ops, BackoffEnds(op) PROVE TypeOK'
  BY <1>2 DEF BackoffEnds, TypeOK, request, server, human, budgets
<1>3. ASSUME NEW op \in Ops, Requeue(op) PROVE TypeOK'
  BY <1>3, BoundAssumption DEF Requeue, TypeOK, request, server, human, LocalStatus
<1>4. ASSUME NEW r \in Requests, Drop(r) PROVE TypeOK'
  BY <1>4, BoundAssumption DEF Drop, Lose, Unanswered, TypeOK, terminal, server, human, Phases
<1>5. ASSUME NEW r \in Requests, Forget(r) PROVE TypeOK'
  BY <1>5 DEF Forget, Release, Unanswered, TypeOK, terminal, server, human, budgets, Phases
<1>6. ASSUME NEW r \in Requests, Crash(r) PROVE TypeOK'
  BY <1>6, BoundAssumption
  DEF Crash, Lose, Unanswered, TypeOK, terminal, human, Phases, ServerStatus
<1>7. ASSUME NEW o \in Orders, CloseElsewhere(o) PROVE TypeOK'
  BY <1>7 DEF CloseElsewhere, TypeOK, terminal, request, human, budgets
<1>8. CASE UNCHANGED vars
  BY <1>8 DEF vars, TypeOK, terminal, request, server, human, budgets
<1> QED
  BY <1>1, <1>2, <1>3, <1>4, <1>5, <1>6, <1>7, <1>8, TerminalTypes, ServerTypes, HumanTypes DEF Next

\* Every variable keeps its type, and the budgets their bounds, in every
\* behaviour of terminals, requests, worker and humans.
THEOREM Typing == Spec => []TypeOK
BY TypeInit, TypeNext, PTL DEF Spec

-----------------------------------------------------------------------------
(* The inductive invariant.                                                *)

\* The worker of request r is between the row of op and its final status.
Working(r, op) == phase[r] \in {"handling", "locking", "saving"} /\ IsNext(op, r)

\* A request carries operations one terminal has queued.
Batches ==
    \A r \in Requests :
        /\ todo[r] \subseteq batch[r]
        /\ \A op \in batch[r] : outbox[op] # "none"
        /\ \A a, b \in batch[r] : Device(a) = Device(b)

\* The books have the opening of an order exactly when the order is there.
Openings ==
    \A op \in Ops : Type(op) = "order_open" =>
        (effects[op] > 0 <=> orders[OrderOf(op)] # "none")

\* Whoever says that an operation is applied tells the truth.
Truthful ==
    \A op \in Ops :
        /\ outbox[op] = "SYNCED" => effects[op] > 0
        /\ record[op] = "APPLIED" => effects[op] > 0
        /\ \A r \in Requests : answer[r][op] = "APPLIED" => effects[op] > 0

\* One worker at a time works on an operation, and as long as no human
\* retries it, nobody else writes its row or its effect.
Alone(r, op) ==
    /\ record[op] # "none"
    /\ \A s \in Requests : Working(s, op) => s = r
    /\ phase[r] = "saving" => outcome[r] \in Final
    /\ phase[r] = "saving" /\ outcome[r] = "APPLIED" => effects[op] > 0
    /\ op \notin retried =>
          /\ record[op] = "PENDING"
          /\ phase[r] # "saving" \/ outcome[r] # "APPLIED" => effects[op] = 0

Workers == \A r \in Requests, op \in Ops : Working(r, op) => Alone(r, op)

\* Only operations that were queued reach the server or a human.
Queued ==
    \A op \in Ops :
        /\ effects[op] > 0 \/ record[op] # "none" => outbox[op] # "none"
        /\ op \in skews \cup conflicts => outbox[op] # "none"
        /\ \A user \in Users, kind \in Kinds :
              <<user, op, kind>> \in looking => outbox[op] # "none"

Books == Openings /\ Truthful /\ Workers /\ EnteredOnce /\ StatusMatchesBooks

PushInv == TypeOK /\ Batches /\ Queued /\ Books

-----------------------------------------------------------------------------
(* Lemmas.                                                                 *)

\* A request has one next operation: one terminal wrote them all, and no two
\* of a terminal have the same created_seq.
LEMMA NextIsUnique ==
    ASSUME TypeOK, Batches, NEW r \in Requests, NEW a \in Ops, NEW b \in Ops,
           IsNext(a, r), IsNext(b, r)
    PROVE  a = b
<1>1. Device(a) = Device(b)
  BY DEF IsNext, Batches
<1>2. Created(a) <= Created(b) /\ Created(b) <= Created(a)
  BY DEF IsNext
<1>3. Created(a) = Created(b)
  BY <1>2, Constants
<1> QED BY <1>1, <1>3, SequenceAssumption DEF Device, Created

\* What a handler that returns has done to the books.
LEMMA HandlerEffect ==
    ASSUME TypeOK, Openings, NEW op \in Ops,
           HandlerReturns(op) \/ EventApplies(op)
    PROVE  /\ \A other \in Ops \ {op} : effects'[other] = effects[other]
           /\ effects'[op] > 0
           /\ effects[op] = 0 => effects'[op] = 1
           /\ effects[op] > 0 /\ Type(op) # "unkeyed" => effects'[op] = effects[op]
           /\ Openings'
<1> USE Constants
<1> DEFINE Shape == /\ \A other \in Ops \ {op} : effects'[other] = effects[other]
                    /\ effects'[op] > 0
                    /\ effects[op] = 0 => effects'[op] = 1
<1>1. ASSUME Written(op), NoEntry PROVE Shape /\ effects' = effects /\ orders' = orders
  BY <1>1 DEF Written, NoEntry, TypeOK
<1>2. ASSUME Enter(op) PROVE Shape
  BY <1>2 DEF Enter, TypeOK
<1>3. CASE Written(op) /\ NoEntry
  BY <1>1, <1>3 DEF Openings
<1>4. CASE ~Written(op) /\ Enter(op) /\ Type(op) # "order_open"
           /\ (UNCHANGED orders \/ (orders[OrderOf(op)] = "open" /\ SetOrder(op, "closed")))
  <2>1. Openings'
    <3> SUFFICES ASSUME NEW o \in Ops, Type(o) = "order_open"
                 PROVE  effects'[o] > 0 <=> orders'[OrderOf(o)] # "none"
      BY DEF Openings
    <3>1. o # op
      BY <1>4
    <3>2. effects'[o] = effects[o]
      BY <1>4, <1>2, <3>1
    <3>3. orders'[OrderOf(o)] = "none" <=> orders[OrderOf(o)] = "none"
      BY <1>4 DEF SetOrder, TypeOK
    <3> QED BY <3>2, <3>3 DEF Openings
  <2> QED BY <1>2, <1>4, <2>1 DEF Written
<1>5. CASE Type(op) = "order_open" /\ Exists(op) /\ NoEntry
  <2>1. Written(op)
    BY <1>5 DEF Openings, Exists, Written
  <2> QED BY <1>3, <1>5, <2>1
<1>6. CASE Type(op) = "order_open" /\ ~Exists(op) /\ Enter(op) /\ SetOrder(op, "open")
  <2>1. effects[op] = 0
    BY <1>6 DEF Openings, Exists, TypeOK
  <2>2. Openings'
    <3> SUFFICES ASSUME NEW o \in Ops, Type(o) = "order_open"
                 PROVE  effects'[o] > 0 <=> orders'[OrderOf(o)] # "none"
      BY DEF Openings
    <3>1. CASE o = op
      BY <3>1, <1>6, <1>2 DEF SetOrder, TypeOK
    <3>2. CASE o # op
      <4>1. OrderOf(o) # OrderOf(op)
        BY <3>2, <1>6, MintAssumption DEF OrderOf, Type
      <4> QED BY <4>1, <3>2, <1>6, <1>2 DEF SetOrder, TypeOK, Openings
    <3> QED BY <3>1, <3>2
  <2> QED BY <1>2, <1>6, <2>1, <2>2
<1>7. CASE Type(op) = "unkeyed" /\ Enter(op) /\ UNCHANGED orders
  <2>1. Openings'
    BY <1>2, <1>7 DEF Openings
  <2> QED BY <1>2, <1>7, <2>1
<1>8. ~Written(op) /\ orders[OrderOf(op)] = "open" => Type(op) # "order_open"
  BY DEF Openings, Written
<1> QED
  BY <1>3, <1>4, <1>5, <1>6, <1>7, <1>8 DEF HandlerReturns, EventApplies, PaymentApplies

\* A step that leaves the books, the rows and the workers alone.
LEMMA Frame ==
    ASSUME Books, TypeOK, TypeOK', UNCHANGED <<server, retried>>,
           \A r \in Requests : phase'[r] \in {"handling", "locking", "saving"} =>
               phase'[r] = phase[r] /\ todo'[r] = todo[r] /\ outcome'[r] = outcome[r],
           \A r \in Requests, op \in Ops : answer'[r][op] = "APPLIED" =>
               answer[r][op] = "APPLIED" \/ record[op] = "APPLIED",
           \A op \in Ops : outbox'[op] = "SYNCED" =>
               outbox[op] = "SYNCED" \/ \E r \in Requests : answer[r][op] = "APPLIED"
    PROVE  Books'
<1>1. Openings' /\ EnteredOnce' /\ StatusMatchesBooks'
  BY DEF Books, Openings, EnteredOnce, StatusMatchesBooks, server
<1>2. Truthful'
  BY DEF Books, Truthful, server
<1>3. Workers'
  <2>1. \A r \in Requests, op \in Ops : Working(r, op)' => Working(r, op)
    BY DEF Working, IsNext
  <2> SUFFICES ASSUME NEW r \in Requests, NEW op \in Ops, Working(r, op)' PROVE Alone(r, op)'
    BY DEF Workers
  <2>2. Working(r, op) /\ phase'[r] = phase[r] /\ outcome'[r] = outcome[r]
    BY <2>1 DEF Working
  <2> QED BY <2>1, <2>2 DEF Workers, Alone, server, Books
<1> QED BY <1>1, <1>2, <1>3 DEF Books

-----------------------------------------------------------------------------
(* The steps.                                                              *)

\* A request that is given up drops what it carried; the others go on.
LEMMA GivenUp ==
    ASSUME TypeOK, NEW r \in Requests, Lose(r) \/ Release(r) \/ Abandon(r)
    PROVE  \A s \in Requests :
               \/ /\ phase'[s] = phase[s] /\ batch'[s] = batch[s] /\ todo'[s] = todo[s]
                  /\ outcome'[s] = outcome[s] /\ answer'[s] = answer[s]
               \/ /\ phase'[s] \in {"idle", "lost"} /\ batch'[s] \subseteq batch[s]
                  /\ todo'[s] = {} /\ answer'[s] = Unanswered
<1>1. CASE Lose(r)
  BY <1>1 DEF Lose, TypeOK
<1>2. CASE Release(r)
  BY <1>2 DEF Release, TypeOK
<1>3. CASE UNCHANGED request
  BY <1>3 DEF request
<1> QED BY <1>1, <1>2, <1>3 DEF Abandon

LEMMA GivenUpKeeps ==
    ASSUME PushInv, TypeOK', NEW r \in Requests, Lose(r) \/ Release(r) \/ Abandon(r),
           UNCHANGED <<outbox, server, human>>
    PROVE  PushInv'
<1> USE DEF PushInv
<1>1. Batches'
  <2> SUFFICES ASSUME NEW s \in Requests
               PROVE  /\ todo'[s] \subseteq batch'[s]
                      /\ \A op \in batch'[s] : outbox'[op] # "none"
                      /\ \A a, b \in batch'[s] : Device(a) = Device(b)
    BY DEF Batches
  <2> QED BY GivenUp DEF Batches
<1>2. Queued'
  BY DEF Queued, server, human
<1>3. Books'
  <2>1. \A s \in Requests : phase'[s] \in {"handling", "locking", "saving"} =>
            phase'[s] = phase[s] /\ todo'[s] = todo[s] /\ outcome'[s] = outcome[s]
    BY GivenUp
  <2>2. \A s \in Requests, op \in Ops : answer'[s][op] = "APPLIED" => answer[s][op] = "APPLIED"
    BY GivenUp DEF Unanswered
  <2>3. UNCHANGED <<server, retried, outbox>>
    BY DEF human
  <2> QED BY <2>1, <2>2, <2>3, Frame
<1> QED BY <1>1, <1>2, <1>3

LEMMA TerminalKeeps ==
    ASSUME PushInv, TypeOK', NEW d \in Devices, TerminalStep(d)
    PROVE  PushInv'
<1> USE DEF PushInv
<1>1. CASE SendBatch(d)
  <2>1. PICK r \in Requests, b \in SUBSET Ops : SendBatch(d)!2!(r, b)
    BY <1>1 DEF SendBatch
  <2>2. Batches'
    BY <1>1, <2>1 DEF SendBatch, IsBatch, Due, Batches, TypeOK
  <2>3. Books'
    BY <1>1, <2>1, Frame DEF SendBatch, server, human, TypeOK
  <2>4. Queued'
    BY <1>1 DEF SendBatch, Queued, server, human
  <2> QED BY <2>2, <2>3, <2>4
<1>2. CASE Receive(d)
  <2> DEFINE r == flight[d]
  <2>1. r \in Requests /\ phase[r] = "replied" /\ Release(r) /\ UNCHANGED <<server, human>>
    BY <1>2 DEF Receive, TypeOK
  <2>2. PICK done \in SUBSET batch[r] :
            outbox' = [op \in Ops |->
                         IF op \in done THEN LocalStatusOf(answer[r][op]) ELSE outbox[op]]
    BY <1>2 DEF Receive
  <2>3. \A op \in Ops : outbox[op] # "none" => outbox'[op] # "none"
    BY <2>2 DEF LocalStatusOf
  <2>4. \A op \in Ops : outbox'[op] = "SYNCED" => outbox[op] = "SYNCED" \/ answer[r][op] = "APPLIED"
    BY <2>2 DEF LocalStatusOf
  <2>5. Batches'
    BY <2>1, <2>3 DEF Release, Batches, TypeOK
  <2>6. Books'
    BY <2>1, <2>4, Frame DEF Release, Unanswered, server, human, TypeOK
  <2>7. Queued'
    BY <2>1, <2>3 DEF Queued, server, human
  <2> QED BY <2>5, <2>6, <2>7
<1>3. CASE TimeOut(d) \/ Refused(d) \/ Restart(d)
  <2>1. PICK r \in Requests : Abandon(r) \/ Release(r)
    BY <1>3 DEF TimeOut, Refused, Restart, TypeOK
  <2> QED BY <1>3, <2>1, GivenUpKeeps DEF TimeOut, Refused, Restart
<1> QED BY <1>1, <1>2, <1>3 DEF TerminalStep

LEMMA QueueKeeps ==
    ASSUME PushInv, TypeOK', NEW op \in Ops, Enqueue(op) \/ BackoffEnds(op) \/ Requeue(op)
    PROVE  PushInv'
<1> USE DEF PushInv
<1>1. UNCHANGED <<request, server, human>>
  BY DEF Enqueue, BackoffEnds, Requeue
<1>2. \A o \in Ops : /\ outbox[o] # "none" => outbox'[o] # "none"
                     /\ outbox'[o] = "SYNCED" => outbox[o] = "SYNCED"
  BY DEF Enqueue, BackoffEnds, Requeue, TypeOK
<1>3. Batches' /\ Queued'
  BY <1>1, <1>2 DEF Batches, Queued, request, server, human, TypeOK
<1>4. Books'
  BY <1>1, <1>2, Frame DEF request, server, human
<1> QED BY <1>3, <1>4

LEMMA NetworkKeeps ==
    ASSUME PushInv, TypeOK', NEW r \in Requests, Drop(r) \/ Forget(r)
    PROVE  PushInv'
BY GivenUpKeeps DEF Drop, Forget, terminal

LEMMA CrashKeeps ==
    ASSUME PushInv, TypeOK', NEW r \in Requests, Crash(r)
    PROVE  PushInv'
<1> USE DEF PushInv
<1>1. /\ UNCHANGED <<outbox, effects, orders, human>>
      /\ phase' = [phase EXCEPT ![r] = "lost"]
      /\ todo' = [todo EXCEPT ![r] = {}]
      /\ outcome' = [outcome EXCEPT ![r] = "none"]
      /\ answer' = [answer EXCEPT ![r] = Unanswered]
      /\ batch' = batch
  BY DEF Crash, Lose, terminal
<1>2. Batches'
  BY <1>1 DEF Batches, TypeOK
<1>3. \A s \in Requests, op \in Ops : Working(s, op)' => Working(s, op) /\ s # r
  BY <1>1 DEF Working, IsNext, TypeOK
<1>4. \/ record' = record
      \/ \E op \in Ops : /\ Working(r, op) /\ phase[r] = "saving" /\ outcome[r] = "CONFLICT"
                         /\ record' = [record EXCEPT ![op] = "CONFLICT"]
  BY DEF Crash, Working
<1>5. \A op \in Ops : \/ record'[op] = record[op]
                      \/ /\ record'[op] = "CONFLICT" /\ Working(r, op)
                         /\ op \notin retried => effects[op] = 0
                         /\ outbox[op] # "none"
  BY <1>4 DEF Books, Workers, Alone, TypeOK, Working, IsNext, Batches
<1>6. Queued'
  BY <1>1, <1>5 DEF Queued, human
<1>7. Openings' /\ EnteredOnce'
  BY <1>1 DEF Books, Openings, EnteredOnce, human
<1>8. Truthful'
  BY <1>1, <1>5 DEF Books, Truthful, Unanswered, TypeOK
<1>9. StatusMatchesBooks'
  BY <1>1, <1>5 DEF Books, StatusMatchesBooks, human
<1>10. Workers'
  <2> SUFFICES ASSUME NEW s \in Requests, NEW op \in Ops, Working(s, op)' PROVE Alone(s, op)'
    BY DEF Workers
  <2>1. Working(s, op) /\ s # r /\ phase'[s] = phase[s] /\ outcome'[s] = outcome[s]
    BY <1>1, <1>3 DEF TypeOK
  <2>2. Alone(s, op) /\ ~Working(r, op)
    BY <2>1 DEF Books, Workers, Alone
  <2>3. record'[op] = record[op]
    BY <1>5, <2>2
  <2> QED BY <1>1, <1>3, <2>1, <2>2, <2>3 DEF Alone, human
<1> QED BY <1>2, <1>6, <1>7, <1>8, <1>9, <1>10 DEF Books

LEMMA ReplayKeeps ==
    ASSUME PushInv, TypeOK', NEW r \in Requests, Replay(r)
    PROVE  PushInv'
<1> USE DEF PushInv
<1>1. PICK op \in Ops : IsNext(op, r) /\ Answered(r, op, record[op])
  BY DEF Replay
<1>2. UNCHANGED <<terminal, batch, outcome, server, human>>
  BY DEF Replay
<1>3. Batches' /\ Queued'
  BY <1>1, <1>2 DEF Answered, Batches, Queued, terminal, server, human, TypeOK
<1>4. Books'
  <2>1. \A s \in Requests : phase'[s] \in {"handling", "locking", "saving"} =>
            phase'[s] = phase[s] /\ todo'[s] = todo[s] /\ outcome'[s] = outcome[s]
    BY <1>1, <1>2 DEF Answered, TypeOK
  <2>2. \A s \in Requests, o \in Ops : answer'[s][o] = "APPLIED" =>
            answer[s][o] = "APPLIED" \/ record[o] = "APPLIED"
    BY <1>1 DEF Answered, TypeOK
  <2>3. UNCHANGED <<server, retried, outbox>>
    BY <1>2 DEF human, terminal
  <2> QED BY <2>1, <2>2, <2>3, Frame
<1> QED BY <1>3, <1>4

LEMMA ClaimKeeps ==
    ASSUME PushInv, TypeOK', NEW r \in Requests, Claim(r)
    PROVE  PushInv'
<1> USE DEF PushInv
<1>1. PICK op \in Ops : /\ IsNext(op, r) /\ record[op] = "none"
                        /\ record' = [record EXCEPT ![op] = "PENDING"]
                        /\ skews' \subseteq skews \cup {op}
  BY DEF Claim
<1>2. /\ UNCHANGED <<terminal, batch, todo, outcome, answer, effects, orders, conflicts, looking, retried>>
      /\ phase' = [phase EXCEPT ![r] = "handling"]
  BY DEF Claim
<1>3. outbox[op] # "none"
  BY <1>1 DEF IsNext, Batches
<1>4. Batches' /\ Queued'
  BY <1>1, <1>2, <1>3 DEF Batches, Queued, terminal, TypeOK
<1>5. Openings' /\ EnteredOnce'
  BY <1>2 DEF Books, Openings, EnteredOnce
<1>6. Truthful' /\ StatusMatchesBooks'
  BY <1>1, <1>2 DEF Books, Truthful, StatusMatchesBooks, terminal, TypeOK
<1>7. Workers'
  <2> SUFFICES ASSUME NEW s \in Requests, NEW o \in Ops, Working(s, o)' PROVE Alone(s, o)'
    BY DEF Workers
  <2>1. \A t \in Requests : t # r => (Working(t, o)' <=> Working(t, o)) /\ phase'[t] = phase[t]
    BY <1>2 DEF Working, IsNext, TypeOK
  <2>2. \A t \in Requests : ~Working(t, op)
    BY <1>1 DEF Books, Workers, Alone
  <2>3. Working(r, o)' => o = op
    BY <1>1, <1>2, NextIsUnique DEF Working, IsNext
  <2>4. CASE s = r
    <3>1. o = op /\ phase'[r] = "handling"
      BY <2>3, <2>4, <1>2 DEF TypeOK
    <3>2. \A t \in Requests : Working(t, o)' => t = r
      BY <2>1, <2>2, <3>1
    <3>3. record'[o] = "PENDING" /\ (o \notin retried => effects[o] = 0)
      BY <1>1, <3>1 DEF Books, StatusMatchesBooks, TypeOK
    <3> QED BY <1>2, <2>4, <3>1, <3>2, <3>3 DEF Alone
  <2>5. CASE s # r
    <3>1. Working(s, o) /\ Alone(s, o) /\ o # op
      BY <2>1, <2>2, <2>5 DEF Books, Workers
    <3>2. \A t \in Requests : Working(t, o)' => t = s
      BY <2>1, <2>3, <3>1 DEF Alone
    <3> QED BY <1>1, <1>2, <2>1, <2>5, <3>1, <3>2 DEF Alone, TypeOK
  <2> QED BY <2>4, <2>5
<1> QED BY <1>4, <1>5, <1>6, <1>7 DEF Books

\* The worker of r got on with operation op.
Advanced(r, op) ==
    /\ UNCHANGED <<terminal, batch, todo, answer, record, human>>
    /\ \/ phase' = [phase EXCEPT ![r] = "locking"] /\ UNCHANGED outcome /\ NoEntry
       \/ NoEntry /\ (Returned(r, "CONFLICT") \/ Returned(r, "REJECTED"))
       \/ /\ HandlerReturns(op) \/ EventApplies(op)
          /\ Returned(r, "APPLIED")

LEMMA AdvancedKeeps ==
    ASSUME PushInv, TypeOK', NEW r \in Requests, NEW op \in Ops,
           Working(r, op), phase[r] # "saving", Advanced(r, op)
    PROVE  PushInv'
<1> USE DEF PushInv
<1>1. UNCHANGED <<terminal, batch, todo, answer, record, human>>
  BY DEF Advanced
<1>2. /\ \A s \in Requests : s # r => phase'[s] = phase[s] /\ outcome'[s] = outcome[s]
      /\ phase'[r] \in {"locking", "saving"}
      /\ phase'[r] = "saving" => outcome'[r] \in Final
  BY DEF Advanced, Returned, TypeOK, Final, ServerStatus
<1>3. /\ \A o \in Ops \ {op} : effects'[o] = effects[o]
      /\ effects[op] > 0 => effects'[op] > 0
      /\ effects[op] = 0 /\ effects'[op] # 0 => effects'[op] = 1
      /\ effects[op] > 0 /\ Type(op) # "unkeyed" => effects'[op] = effects[op]
      /\ Openings'
  <2>1. CASE NoEntry
    BY <2>1 DEF NoEntry, Books, Openings
  <2>2. CASE HandlerReturns(op) \/ EventApplies(op)
    BY <2>2, HandlerEffect DEF Books
  <2> QED BY <2>1, <2>2 DEF Advanced
<1>4. /\ phase'[r] = "saving" /\ outcome'[r] = "APPLIED" => effects'[op] > 0
      /\ phase'[r] # "saving" \/ outcome'[r] # "APPLIED" => effects' = effects
  BY HandlerEffect DEF Advanced, Returned, NoEntry, Books, TypeOK
<1>5. op \notin retried => record[op] = "PENDING" /\ effects[op] = 0
  BY DEF Books, Workers, Alone
<1>6. outbox[op] # "none"
  BY DEF Working, IsNext, Batches
<1>7. Batches' /\ Queued'
  BY <1>1, <1>3, <1>6 DEF Batches, Queued, terminal, human, TypeOK
<1>8. Truthful'
  BY <1>1, <1>3 DEF Books, Truthful, terminal
<1>9. StatusMatchesBooks'
  <2> SUFFICES ASSUME NEW o \in Ops, o \notin retried
               PROVE  /\ record[o] = "APPLIED" => effects'[o] > 0
                      /\ record[o] \in {"none", "CONFLICT", "REJECTED"} => effects'[o] = 0
    BY <1>1 DEF StatusMatchesBooks, human
  <2>1. CASE o = op
    BY <1>5, <2>1
  <2>2. CASE o # op
    BY <1>3, <2>2 DEF Books, StatusMatchesBooks
  <2> QED BY <2>1, <2>2
<1>10. EnteredOnce'
  <2> SUFFICES ASSUME NEW o \in Ops, Type(o) # "unkeyed" \/ o \notin retried
               PROVE  effects'[o] <= 1
    BY <1>1 DEF EnteredOnce, human
  <2>1. CASE o = op
    BY <1>3, <1>5, <2>1 DEF Books, EnteredOnce, TypeOK
  <2>2. CASE o # op
    BY <1>3, <2>2 DEF Books, EnteredOnce
  <2> QED BY <2>1, <2>2
<1>11. Workers'
  <2> SUFFICES ASSUME NEW s \in Requests, NEW o \in Ops, Working(s, o)' PROVE Alone(s, o)'
    BY DEF Workers
  <2>1. Working(s, o) /\ Alone(s, o)
    BY <1>1, <1>2 DEF Working, IsNext, Books, Workers
  <2>2. \A t \in Requests : Working(t, o)' => t = s
    BY <1>1, <1>2, <2>1 DEF Alone, Working, IsNext
  <2>3. CASE s = r
    <3>1. o = op
      BY <2>1, <2>3, NextIsUnique DEF Working
    <3> QED BY <1>1, <1>2, <1>4, <1>5, <2>1, <2>2, <2>3, <3>1 DEF Alone, human
  <2>4. CASE s # r
    <3>1. o # op
      BY <2>1, <2>4 DEF Alone
    <3> QED BY <1>1, <1>2, <1>3, <2>1, <2>2, <2>4, <3>1 DEF Alone, human
  <2> QED BY <2>3, <2>4
<1> QED BY <1>3, <1>7, <1>8, <1>9, <1>10, <1>11 DEF Books

LEMMA HandleKeeps ==
    ASSUME PushInv, TypeOK', NEW r \in Requests, Handle(r) \/ ApplyEvent(r)
    PROVE  PushInv'
<1>1. ASSUME Handle(r) PROVE \E op \in Ops : Working(r, op) /\ phase[r] # "saving" /\ Advanced(r, op)
  <2>1. PICK op \in Ops : Handle(r)!2!(op)
    BY <1>1 DEF Handle
  <2> QED BY <1>1, <2>1 DEF Handle, Working, Advanced, human
<1>2. ASSUME ApplyEvent(r) PROVE \E op \in Ops : Working(r, op) /\ phase[r] # "saving" /\ Advanced(r, op)
  <2>1. PICK op \in Ops : ApplyEvent(r)!2!(op)
    BY <1>2 DEF ApplyEvent
  <2> QED BY <1>2, <2>1 DEF ApplyEvent, Working, Advanced, human
<1> QED BY <1>1, <1>2, AdvancedKeeps

LEMMA SaveKeeps ==
    ASSUME PushInv, TypeOK', NEW r \in Requests, Save(r)
    PROVE  PushInv'
<1> USE DEF PushInv
<1>1. PICK op \in Ops : /\ IsNext(op, r)
                        /\ record' = [record EXCEPT ![op] = outcome[r]]
                        /\ Answered(r, op, outcome[r])
                        /\ conflicts' \subseteq conflicts \cup {op}
  BY DEF Save
<1>2. /\ UNCHANGED <<terminal, batch, effects, orders, skews, looking, retried>>
      /\ outcome' = [outcome EXCEPT ![r] = "none"]
      /\ phase[r] = "saving"
  BY DEF Save
<1>3. Working(r, op) /\ Alone(r, op) /\ outbox[op] # "none" /\ outcome[r] \in Final
  BY <1>1, <1>2 DEF Working, Alone, Books, Workers, IsNext, Batches
<1>4. Batches' /\ Queued'
  BY <1>1, <1>2, <1>3 DEF Batches, Queued, Answered, terminal, TypeOK
<1>5. Openings' /\ EnteredOnce'
  BY <1>2 DEF Books, Openings, EnteredOnce
<1>6. Truthful'
  BY <1>1, <1>2, <1>3 DEF Books, Truthful, Answered, Alone, terminal, TypeOK
<1>7. StatusMatchesBooks'
  BY <1>1, <1>2, <1>3 DEF Books, StatusMatchesBooks, Alone, TypeOK, Final
<1>8. Workers'
  <2> SUFFICES ASSUME NEW s \in Requests, NEW o \in Ops, Working(s, o)' PROVE Alone(s, o)'
    BY DEF Workers
  <2>1. \A t \in Requests, p \in Ops : Working(t, p)' => Working(t, p) /\ t # r /\ phase'[t] = phase[t]
    BY <1>1, <1>2 DEF Working, IsNext, Answered, TypeOK
  <2>2. Working(s, o) /\ Alone(s, o) /\ s # r /\ phase'[s] = phase[s] /\ outcome'[s] = outcome[s]
    BY <1>2, <2>1 DEF Books, Workers, TypeOK
  <2>3. o # op
    BY <1>3, <2>2 DEF Alone
  <2> QED BY <1>1, <1>2, <2>1, <2>2, <2>3 DEF Alone, TypeOK
<1> QED BY <1>4, <1>5, <1>6, <1>7, <1>8 DEF Books

LEMMA ElsewhereKeeps ==
    ASSUME PushInv, TypeOK', NEW o \in Orders, CloseElsewhere(o)
    PROVE  PushInv'
<1> USE DEF PushInv
<1>1. /\ UNCHANGED <<terminal, request, record, effects, human>>
      /\ \A p \in Orders : orders'[p] = "none" <=> orders[p] = "none"
  BY DEF CloseElsewhere, TypeOK
<1>2. Batches' /\ Queued'
  BY <1>1 DEF Batches, Queued, request, terminal, human
<1>3. Openings'
  BY <1>1, Constants DEF Books, Openings
<1>4. Truthful' /\ EnteredOnce' /\ StatusMatchesBooks'
  BY <1>1 DEF Books, Truthful, EnteredOnce, StatusMatchesBooks, terminal, request, human
<1>5. Workers'
  BY <1>1 DEF Books, Workers, Working, Alone, IsNext, request, human
<1> QED BY <1>2, <1>3, <1>4, <1>5 DEF Books

LEMMA HumanKeeps ==
    ASSUME PushInv, TypeOK', NEW user \in Users, NEW op \in Ops, NEW kind \in Kinds,
           HumanStep(user, op, kind)
    PROVE  PushInv'
<1> USE DEF PushInv
<1>1. CASE Look(user, op, kind) \/ Settle(user, op, kind) \/ RetryFails(user, op, kind)
  <2>1. UNCHANGED <<terminal, request, server, retried>>
    BY <1>1 DEF Look, Settle, CloseConflict, RetryFails
  <2>2. skews' \subseteq skews /\ conflicts' \subseteq conflicts
    BY <1>1 DEF Look, Settle, CloseConflict, RetryFails
  <2>3. looking' \subseteq looking \/ (op \in skews \cup conflicts /\ looking' \subseteq looking \cup {<<user, op, kind>>})
    BY <1>1 DEF Look, Settle, CloseConflict, RetryFails, OpenConflicts
  <2>4. Batches'
    BY <2>1 DEF Batches, terminal, request
  <2>5. Queued'
    BY <2>1, <2>2, <2>3 DEF Queued, terminal, server
  <2>6. Books'
    BY <2>1, Frame DEF terminal, request
  <2> QED BY <2>4, <2>5, <2>6
<1>2. CASE Retry(user, op, kind)
  <2>1. /\ UNCHANGED <<terminal, request>>
        /\ record' = [record EXCEPT ![op] = "APPLIED"]
        /\ retried' = retried \cup {op}
        /\ skews' \subseteq skews /\ conflicts' \subseteq conflicts /\ looking' \subseteq looking
        /\ outbox[op] # "none"
    BY <1>2 DEF Retry, CloseConflict, Queued
  <2>2. /\ \A other \in Ops \ {op} : effects'[other] = effects[other]
        /\ effects'[op] > 0
        /\ effects[op] = 0 => effects'[op] = 1
        /\ effects[op] > 0 /\ Type(op) # "unkeyed" => effects'[op] = effects[op]
        /\ Openings'
    BY <1>2, HandlerEffect DEF Retry, Books
  <2>3. Batches' /\ Queued'
    BY <2>1, <2>2 DEF Batches, Queued, terminal, request, TypeOK
  <2>4. Truthful'
    BY <2>1, <2>2 DEF Books, Truthful, terminal, request, TypeOK
  <2>5. EnteredOnce'
    BY <2>1, <2>2 DEF Books, EnteredOnce, TypeOK
  <2>6. StatusMatchesBooks'
    BY <2>1, <2>2 DEF Books, StatusMatchesBooks, TypeOK
  <2>7. Workers'
    BY <2>1, <2>2 DEF Books, Workers, Working, Alone, IsNext, request, TypeOK
  <2> QED BY <2>2, <2>3, <2>4, <2>5, <2>6, <2>7 DEF Books
<1> QED BY <1>1, <1>2 DEF HumanStep

-----------------------------------------------------------------------------
(* The theorems.                                                           *)

LEMMA PushInit == Init => PushInv
<1> SUFFICES ASSUME Init PROVE PushInv
  OBVIOUS
<1>1. TypeOK
  BY TypeInit
<1>2. Batches /\ Queued /\ Truthful /\ EnteredOnce /\ StatusMatchesBooks
  BY DEF Init, Batches, Queued, Truthful, EnteredOnce, StatusMatchesBooks, Unanswered
<1>3. Openings
  BY Constants DEF Init, Openings
<1>4. Workers
  BY DEF Init, Workers, Working
<1> QED BY <1>1, <1>2, <1>3, <1>4 DEF PushInv, Books

LEMMA PushNext == PushInv /\ [Next]_vars => PushInv'
<1> SUFFICES ASSUME PushInv, [Next]_vars PROVE PushInv'
  OBVIOUS
<1>1. TypeOK'
  BY TypeNext DEF PushInv
<1>2. CASE UNCHANGED vars
  <2>1. UNCHANGED <<terminal, request, server, human>>
    BY <1>2 DEF vars
  <2>2. Batches' /\ Queued'
    BY <2>1 DEF PushInv, Batches, Queued, terminal, request, server, human
  <2>3. Books'
    BY <1>1, <2>1, Frame DEF PushInv, terminal, request, human
  <2> QED BY <1>1, <2>2, <2>3 DEF PushInv
<1>3. ASSUME NEW r \in Requests, ServerStep(r) PROVE PushInv'
  BY <1>1, <1>3, ReplayKeeps, ClaimKeeps, HandleKeeps, SaveKeeps DEF ServerStep
<1> QED
  BY <1>1, <1>2, <1>3, TerminalKeeps, QueueKeeps, NetworkKeeps, CrashKeeps, ElsewhereKeeps,
     HumanKeeps DEF Next

THEOREM Inductive == Spec => []PushInv
BY PushInit, PushNext, PTL DEF Spec

\* A terminal never drops an operation the books do not have.
THEOREM NothingIsLost == Spec => []SyncedIsEntered
<1>1. PushInv => SyncedIsEntered
  BY DEF PushInv, Books, Truthful, SyncedIsEntered
<1> QED BY <1>1, Inductive, PTL

\* No operation is entered twice, however often it is sent, replayed, cut
\* short or retried.
THEOREM NothingIsDoubled == Spec => []EnteredOnce
<1>1. PushInv => EnteredOnce
  BY DEF PushInv, Books
<1> QED BY <1>1, Inductive, PTL

\* The server's row agrees with the server's books.
THEOREM StatusIsTrue == Spec => []StatusMatchesBooks
<1>1. PushInv => StatusMatchesBooks
  BY DEF PushInv, Books
<1> QED BY <1>1, Inductive, PTL

=============================================================================
