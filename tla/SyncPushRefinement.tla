------------------------- MODULE SyncPushRefinement -------------------------
(***************************************************************************)
(* What follows from PushInv, for every value of the constants. First,     *)
(* SyncPush implements DeliveryLedger for the operations that carry a key: *)
(* to queue an operation is to submit it, the handler's transaction enters *)
(* it, and the response that is stored confirms it; every other step is a  *)
(* stutter. Beside PushInv that needs to know that what a terminal waits   *)
(* for is still pending in its outbox. Then what both sides keep in        *)
(* agreement: the terminal's status and the server's row, the order of a   *)
(* terminal's events, and the order the business writes go to; it rests on *)
(* one fact of PushInv, that until a human retries an operation only the   *)
(* one worker that works on it writes its row, and only once.              *)
(***************************************************************************)
EXTENDS SyncPushProofs

-----------------------------------------------------------------------------
(* The refinement.                                                         *)

\* A terminal waits for a request of its own, which carries operations that
\* are pending in its outbox.
Flights ==
    \A d \in Devices : flight[d] # NoRequest =>
        /\ phase[flight[d]] # "idle"
        /\ \A op \in batch[flight[d]] : Device(op) = d /\ outbox[op] = "PENDING"
        /\ \A e \in Devices : flight[e] = flight[d] => e = d

\* A step that ends no request and sends none.
LEMMA FlightsFrame ==
    ASSUME TypeOK, Flights, UNCHANGED <<flight, batch>>,
           \A op \in Ops : outbox[op] = "PENDING" => outbox'[op] = "PENDING",
           \A r \in Requests : phase[r] # "idle" => phase'[r] # "idle"
    PROVE  Flights'
<1> SUFFICES ASSUME NEW d \in Devices, flight[d] # NoRequest
             PROVE  /\ phase'[flight[d]] # "idle"
                    /\ \A op \in batch[flight[d]] : Device(op) = d /\ outbox'[op] = "PENDING"
                    /\ \A e \in Devices : flight[e] = flight[d] => e = d
  BY DEF Flights
<1>1. flight[d] \in Requests /\ batch[flight[d]] \subseteq Ops
  BY DEF TypeOK
<1> QED BY <1>1 DEF Flights

\* Terminal d stops waiting: the requests of the others are not touched.
LEMMA FlightEnds ==
    ASSUME TypeOK, Flights, NEW d \in Devices, flight[d] # NoRequest,
           flight' = [flight EXCEPT ![d] = NoRequest],
           \A op \in Ops : Device(op) # d => outbox'[op] = outbox[op],
           Release(flight[d]) \/ Abandon(flight[d])
    PROVE  Flights'
<1> SUFFICES ASSUME NEW e \in Devices, flight'[e] # NoRequest
             PROVE  /\ phase'[flight[e]] # "idle"
                    /\ \A op \in batch'[flight[e]] : Device(op) = e /\ outbox'[op] = "PENDING"
                    /\ \A f \in Devices : flight'[f] = flight[e] => f = e
                    /\ flight'[e] = flight[e]
  BY DEF Flights
<1>1. e # d /\ flight[e] = flight'[e] /\ flight[e] # flight[d] /\ flight[e] \in Requests
  BY DEF TypeOK, Flights
<1>2. phase'[flight[e]] = phase[flight[e]] /\ batch'[flight[e]] = batch[flight[e]]
  BY <1>1 DEF Release, Abandon, request, TypeOK
<1>3. batch[flight[e]] \subseteq Ops
  BY <1>1 DEF TypeOK
<1>4. \A f \in Devices : flight'[f] = flight[e] => f = e
  BY <1>1, RequestAssumption DEF Flights, TypeOK
<1> QED BY <1>1, <1>2, <1>3, <1>4 DEF Flights

LEMMA FlightsTerminal ==
    ASSUME TypeOK, Flights, NEW d \in Devices, TerminalStep(d)
    PROVE  Flights'
<1>1. CASE SendBatch(d)
  <2>1. PICK r \in Requests, b \in SUBSET Ops : SendBatch(d)!2!(r, b)
    BY <1>1 DEF SendBatch
  <2>2. \A op \in b : Device(op) = d /\ outbox[op] = "PENDING"
    BY <2>1 DEF IsBatch, Due
  <2>3. \A e \in Devices : flight[e] # r
    BY <2>1, RequestAssumption DEF Flights
  <2> SUFFICES ASSUME NEW e \in Devices, flight'[e] # NoRequest
               PROVE  /\ phase'[flight'[e]] # "idle"
                      /\ \A op \in batch'[flight'[e]] : Device(op) = e /\ outbox'[op] = "PENDING"
                      /\ \A f \in Devices : flight'[f] = flight'[e] => f = e
    BY DEF Flights
  <2>4. CASE e = d
    BY <1>1, <2>1, <2>2, <2>3, <2>4 DEF SendBatch, TypeOK
  <2>5. CASE e # d
    <3>1. flight'[e] = flight[e] /\ flight[e] # r /\ flight[e] \in Requests
      BY <2>1, <2>3, <2>5 DEF TypeOK
    <3>2. phase'[flight[e]] = phase[flight[e]] /\ batch'[flight[e]] = batch[flight[e]]
      BY <2>1, <3>1 DEF TypeOK
    <3>3. \A f \in Devices : flight'[f] = flight[e] => f = e
      BY <2>1, <3>1 DEF Flights, TypeOK
    <3> QED BY <1>1, <3>1, <3>2, <3>3 DEF SendBatch, Flights
  <2> QED BY <2>4, <2>5
<1>2. CASE Receive(d)
  <2>1. flight[d] # NoRequest /\ flight' = [flight EXCEPT ![d] = NoRequest] /\ Release(flight[d])
    BY <1>2 DEF Receive
  <2>2. PICK done \in SUBSET batch[flight[d]] :
            outbox' = [op \in Ops |-> IF op \in done THEN LocalStatusOf(answer[flight[d]][op])
                                      ELSE outbox[op]]
    BY <1>2 DEF Receive
  <2>3. \A op \in Ops : Device(op) # d => outbox'[op] = outbox[op]
    BY <2>1, <2>2 DEF Flights
  <2> QED BY <2>1, <2>3, FlightEnds
<1>3. CASE TimeOut(d) \/ Refused(d) \/ Restart(d)
  <2>1. /\ flight[d] # NoRequest /\ flight' = [flight EXCEPT ![d] = NoRequest]
        /\ Release(flight[d]) \/ Abandon(flight[d])
        /\ outbox' = outbox
    BY <1>3 DEF TimeOut, Refused, Restart
  <2> QED BY <2>1, FlightEnds
<1> QED BY <1>1, <1>2, <1>3 DEF TerminalStep

LEMMA FlightsNext == TypeOK /\ Flights /\ [Next]_vars => Flights'
<1> SUFFICES ASSUME TypeOK, Flights, [Next]_vars PROVE Flights'
  OBVIOUS
<1>1. ASSUME NEW op \in Ops, Enqueue(op) \/ BackoffEnds(op) \/ Requeue(op) PROVE Flights'
  BY <1>1, FlightsFrame DEF Enqueue, BackoffEnds, Requeue, request, TypeOK
<1>2. ASSUME NEW r \in Requests, ServerStep(r) PROVE Flights'
  <2>1. UNCHANGED <<flight, batch, outbox>>
    BY <1>2 DEF ServerStep, Replay, Claim, Handle, ApplyEvent, Save, terminal
  <2>2. \A s \in Requests : phase[s] # "idle" => phase'[s] # "idle"
    BY <1>2 DEF ServerStep, Replay, Claim, Handle, ApplyEvent, Save, Answered, Returned, TypeOK
  <2> QED BY <2>1, <2>2, FlightsFrame
<1>3. ASSUME NEW r \in Requests, Drop(r) \/ Crash(r) PROVE Flights'
  <2>1. Lose(r) /\ UNCHANGED terminal
    BY <1>3 DEF Drop, Crash
  <2> QED BY <2>1, FlightsFrame DEF Lose, terminal, TypeOK
<1>4. ASSUME NEW r \in Requests, Forget(r) PROVE Flights'
  <2>1. /\ Release(r) /\ UNCHANGED terminal
        /\ \A d \in Devices : flight[d] # r
    BY <1>4 DEF Forget
  <2> SUFFICES ASSUME NEW d \in Devices, flight[d] # NoRequest
               PROVE  /\ phase'[flight[d]] # "idle"
                      /\ \A op \in batch'[flight[d]] : Device(op) = d /\ outbox[op] = "PENDING"
                      /\ \A e \in Devices : flight[e] = flight[d] => e = d
    BY <2>1 DEF Flights, terminal
  <2>2. flight[d] \in Requests /\ flight[d] # r
    BY <2>1 DEF TypeOK
  <2>3. phase'[flight[d]] = phase[flight[d]] /\ batch'[flight[d]] = batch[flight[d]]
    BY <2>1, <2>2 DEF Release, TypeOK
  <2> QED BY <2>3 DEF Flights
<1>5. ASSUME NEW o \in Orders, CloseElsewhere(o) PROVE Flights'
  BY <1>5, FlightsFrame DEF CloseElsewhere, terminal, request
<1>6. ASSUME NEW user \in Users, NEW op \in Ops, NEW kind \in Kinds, HumanStep(user, op, kind)
      PROVE  Flights'
  BY <1>6, FlightsFrame DEF HumanStep, Look, Settle, Retry, RetryFails, terminal, request
<1>7. CASE UNCHANGED vars
  BY <1>7, FlightsFrame DEF vars, terminal, request
<1> QED BY <1>1, <1>2, <1>3, <1>4, <1>5, <1>6, <1>7, FlightsTerminal DEF Next

-----------------------------------------------------------------------------
(* The refinement mapping, for the variables of the ledger.                *)

LEMMA LedgerInit == Init => Ledger!Init
BY DEF Init, Ledger!Init, KeyedOps

\* The ledger does not see a step that keeps the outbox and the keyed effects.
LEMMA LedgerStutters ==
    ASSUME UNCHANGED outbox, \A op \in KeyedOps : effects'[op] = effects[op]
    PROVE  UNCHANGED Ledger!vars
BY DEF Ledger!vars, KeyedOps

\* A handler that returned entered the operation, or had entered it before.
LEMMA LedgerEnters ==
    ASSUME PushInv, NEW op \in Ops, outbox[op] # "none", UNCHANGED outbox,
           HandlerReturns(op) \/ EventApplies(op) \/ NoEntry
    PROVE  Ledger!Next \/ UNCHANGED Ledger!vars
<1>1. CASE NoEntry
  BY <1>1, LedgerStutters DEF NoEntry
<1>2. CASE HandlerReturns(op) \/ EventApplies(op)
  <2>1. /\ \A other \in Ops \ {op} : effects'[other] = effects[other]
        /\ effects[op] = 0 => effects'[op] = 1
        /\ effects[op] > 0 /\ Type(op) # "unkeyed" => effects'[op] = effects[op]
    BY <1>2, HandlerEffect DEF PushInv, Books
  <2>2. CASE op \notin KeyedOps \/ effects[op] > 0
    BY <2>1, <2>2, LedgerStutters DEF KeyedOps
  <2>3. CASE op \in KeyedOps /\ effects[op] = 0
    <3>1. [o \in KeyedOps |-> effects'[o]] = [[o \in KeyedOps |-> effects[o]] EXCEPT ![op] = 1]
      BY <2>1, <2>3 DEF KeyedOps
    <3>2. Ledger!Enter(op)
      BY <2>3, <3>1 DEF Ledger!Enter, KeyedOps
    <3> QED BY <2>3, <3>2 DEF Ledger!Next
  <2> QED BY <2>2, <2>3 DEF PushInv, TypeOK
<1> QED BY <1>1, <1>2

LEMMA LedgerEnqueues ==
    ASSUME TypeOK, NEW op \in Ops, Enqueue(op)
    PROVE  Ledger!Next \/ UNCHANGED Ledger!vars
<1>1. /\ outbox[op] = "none" /\ outbox' = [outbox EXCEPT ![op] = "PENDING"]
      /\ effects' = effects
  BY DEF Enqueue, server
<1>2. CASE op \in KeyedOps
  <2>1. {o \in KeyedOps : outbox'[o] # "none"} = {o \in KeyedOps : outbox[o] # "none"} \cup {op}
    BY <1>1, <1>2 DEF KeyedOps, TypeOK
  <2>2. {o \in KeyedOps : outbox'[o] = "SYNCED"} = {o \in KeyedOps : outbox[o] = "SYNCED"}
    BY <1>1 DEF KeyedOps, TypeOK
  <2>3. Ledger!Submit(op)
    BY <1>1, <1>2, <2>1, <2>2 DEF Ledger!Submit, KeyedOps
  <2> QED BY <1>2, <2>3 DEF Ledger!Next
<1>3. CASE op \notin KeyedOps
  BY <1>1, <1>3 DEF Ledger!vars, KeyedOps, TypeOK
<1> QED BY <1>2, <1>3

\* What a terminal stores of a response confirms operations that were pending
\* and that the books have.
LEMMA LedgerConfirms ==
    ASSUME PushInv, Flights, NEW d \in Devices, Receive(d)
    PROVE  Ledger!Next \/ UNCHANGED Ledger!vars
<1> DEFINE r == flight[d]
           confirmed(box) == {op \in KeyedOps : box[op] = "SYNCED"}
           news == confirmed(outbox') \ confirmed(outbox)
<1> USE DEF PushInv
<1>1. r \in Requests /\ r # NoRequest /\ effects' = effects
  BY RequestAssumption DEF Receive, TypeOK, server
<1>2. PICK done \in SUBSET batch[r] :
          outbox' = [op \in Ops |->
                       IF op \in done THEN LocalStatusOf(answer[r][op]) ELSE outbox[op]]
    BY DEF Receive
<1>3. \A op \in done : op \in Ops /\ outbox[op] = "PENDING"
  BY <1>1, <1>2 DEF Flights, TypeOK
<1>4. \A op \in Ops : outbox'[op] = "none" <=> outbox[op] = "none"
  BY <1>2, <1>3 DEF LocalStatusOf
<1>5. confirmed(outbox) \subseteq confirmed(outbox')
  BY <1>2, <1>3 DEF KeyedOps
<1>6. \A op \in news : effects[op] = 1
  <2> SUFFICES ASSUME NEW op \in news PROVE effects[op] = 1
    OBVIOUS
  <2>1. op \in Ops /\ Type(op) # "unkeyed" /\ op \in done /\ LocalStatusOf(answer[r][op]) = "SYNCED"
    BY <1>2 DEF KeyedOps
  <2>2. answer[r][op] = "APPLIED"
    BY <2>1 DEF LocalStatusOf
  <2>3. effects[op] > 0 /\ effects[op] <= 1
    BY <1>1, <2>1, <2>2 DEF Books, Truthful, EnteredOnce
  <2> QED BY <2>1, <2>3 DEF TypeOK
<1>7. {op \in KeyedOps : outbox'[op] # "none"} = {op \in KeyedOps : outbox[op] # "none"}
  BY <1>4 DEF KeyedOps
<1>8. CASE news = {}
  <2>1. confirmed(outbox') = confirmed(outbox)
    BY <1>5, <1>8
  <2> QED BY <1>1, <1>7, <2>1 DEF Ledger!vars
<1>9. CASE news # {}
  <2>1. PICK b \in SUBSET KeyedOps : b = news
    OBVIOUS
  <2>2. confirmed(outbox') = confirmed(outbox) \cup b /\ b \cap confirmed(outbox) = {} /\ b # {}
    BY <1>5, <1>9, <2>1
  <2>3. \A op \in b : [o \in KeyedOps |-> effects[o]][op] = 1
    BY <1>6, <2>1
  <2>4. Ledger!Confirm(b)
    BY <1>1, <1>7, <2>2, <2>3 DEF Ledger!Confirm
  <2> QED BY <2>4 DEF Ledger!Next
<1> QED BY <1>8, <1>9

LEMMA LedgerNext == PushInv /\ Flights /\ [Next]_vars => [Ledger!Next]_(Ledger!vars)
<1> SUFFICES ASSUME PushInv, Flights, [Next]_vars PROVE Ledger!Next \/ UNCHANGED Ledger!vars
  OBVIOUS
<1>1. ASSUME NEW op \in Ops, Enqueue(op) PROVE Ledger!Next \/ UNCHANGED Ledger!vars
  BY <1>1, LedgerEnqueues DEF PushInv
<1>2. ASSUME NEW op \in Ops, Requeue(op) PROVE UNCHANGED Ledger!vars
  <2>1. /\ outbox[op] = "CONFLICT" /\ outbox' = [outbox EXCEPT ![op] = "PENDING"]
        /\ effects' = effects
    BY <1>2 DEF Requeue, server
  <2> QED BY <2>1 DEF Ledger!vars, KeyedOps, PushInv, TypeOK
<1>3. ASSUME NEW op \in Ops, BackoffEnds(op) PROVE UNCHANGED Ledger!vars
  BY <1>3, LedgerStutters DEF BackoffEnds, server
<1>4. ASSUME NEW d \in Devices, TerminalStep(d) PROVE Ledger!Next \/ UNCHANGED Ledger!vars
  <2>1. CASE Receive(d)
    BY <2>1, LedgerConfirms
  <2>2. CASE SendBatch(d) \/ TimeOut(d) \/ Refused(d) \/ Restart(d)
    BY <2>2, LedgerStutters DEF SendBatch, TimeOut, Refused, Restart, server
  <2> QED BY <1>4, <2>1, <2>2 DEF TerminalStep
<1>5. ASSUME NEW r \in Requests, Handle(r) \/ ApplyEvent(r)
      PROVE  Ledger!Next \/ UNCHANGED Ledger!vars
  <2>1. \E op \in Ops : IsNext(op, r) /\ (HandlerReturns(op) \/ EventApplies(op) \/ NoEntry)
    BY <1>5 DEF Handle, ApplyEvent
  <2>2. \A op \in Ops : IsNext(op, r) => outbox[op] # "none"
    BY DEF IsNext, PushInv, Batches
  <2>3. UNCHANGED outbox
    BY <1>5 DEF Handle, ApplyEvent, terminal
  <2> QED BY <2>1, <2>2, <2>3, LedgerEnters
<1>6. ASSUME NEW r \in Requests,
             Replay(r) \/ Claim(r) \/ Save(r) \/ Drop(r) \/ Forget(r) \/ Crash(r)
      PROVE  UNCHANGED Ledger!vars
  BY <1>6, LedgerStutters DEF Replay, Claim, Save, Drop, Forget, Crash, terminal, server
<1>7. ASSUME NEW o \in Orders, CloseElsewhere(o) PROVE UNCHANGED Ledger!vars
  BY <1>7, LedgerStutters DEF CloseElsewhere, terminal
<1>8. ASSUME NEW user \in Users, NEW op \in Ops, NEW kind \in Kinds, HumanStep(user, op, kind)
      PROVE  Ledger!Next \/ UNCHANGED Ledger!vars
  <2>1. CASE Retry(user, op, kind)
    <3>1. outbox[op] # "none" /\ UNCHANGED outbox /\ HandlerReturns(op)
      BY <2>1 DEF Retry, PushInv, Queued, terminal
    <3> QED BY <3>1, LedgerEnters
  <2>2. CASE Look(user, op, kind) \/ Settle(user, op, kind) \/ RetryFails(user, op, kind)
    BY <2>2, LedgerStutters DEF Look, Settle, RetryFails, terminal, server
  <2> QED BY <1>8, <2>1, <2>2 DEF HumanStep
<1>9. CASE UNCHANGED vars
  BY <1>9, LedgerStutters DEF vars, terminal, server
<1> QED
  BY <1>1, <1>2, <1>3, <1>4, <1>5, <1>6, <1>7, <1>8, <1>9 DEF Next, ServerStep

\* To the cashier the whole push, with its losses, replays, crashes and
\* humans, is a ledger that takes each operation once and confirms only what
\* it has taken.
THEOREM Refines == Spec => ImplementsLedger
<1>1. Init => Flights
  BY DEF Init, Flights
<1>2. PushInv /\ Flights /\ [Next]_vars => Flights'
  BY FlightsNext DEF PushInv
<1> QED
  BY <1>1, <1>2, LedgerInit, LedgerNext, Inductive, PTL DEF Spec, ImplementsLedger, Ledger!Spec

-----------------------------------------------------------------------------
(* A row that has its final status keeps it.                               *)

LEMMA RetriedGrows == [Next]_vars => retried \subseteq retried'
<1>1. ASSUME NEW user \in Users, NEW op \in Ops, NEW kind \in Kinds, HumanStep(user, op, kind)
      PROVE  retried \subseteq retried'
  BY <1>1 DEF HumanStep, Look, Settle, Retry, RetryFails
<1>2. ASSUME NEW r \in Requests, ServerStep(r) \/ Drop(r) \/ Forget(r) \/ Crash(r)
      PROVE  retried' = retried
  BY <1>2 DEF ServerStep, Replay, Claim, Handle, ApplyEvent, Save, Drop, Forget, Crash, human
<1>3. ASSUME NEW d \in Devices, TerminalStep(d) PROVE retried' = retried
  BY <1>3 DEF TerminalStep, SendBatch, Receive, TimeOut, Refused, Restart, human
<1>4. ASSUME NEW op \in Ops, Enqueue(op) \/ BackoffEnds(op) \/ Requeue(op) PROVE retried' = retried
  BY <1>4 DEF Enqueue, BackoffEnds, Requeue, human
<1>5. ASSUME NEW o \in Orders, CloseElsewhere(o) PROVE retried' = retried
  BY <1>5 DEF CloseElsewhere, human
<1> QED BY <1>1, <1>2, <1>3, <1>4, <1>5 DEF Next, vars, human

LEMMA FinalStays ==
    ASSUME PushInv, [Next]_vars, NEW op \in Ops, record[op] \in Final, op \notin retried'
    PROVE  record'[op] = record[op]
<1> USE DEF PushInv
<1>1. op \notin retried /\ \A r \in Requests : ~Working(r, op)
  BY RetriedGrows DEF Books, Workers, Alone, Final
<1>2. ASSUME NEW r \in Requests, ServerStep(r) \/ Crash(r) PROVE record'[op] = record[op]
  <2>1. CASE Replay(r) \/ Handle(r) \/ ApplyEvent(r)
    BY <2>1 DEF Replay, Handle, ApplyEvent, server
  <2>2. CASE Claim(r)
    BY <2>2 DEF Claim, Final, ServerStatus, TypeOK
  <2>3. CASE Save(r)
    BY <1>1, <2>3 DEF Save, Working, TypeOK
  <2>4. CASE Crash(r)
    BY <1>1, <2>4 DEF Crash, Working, TypeOK
  <2> QED BY <1>2, <2>1, <2>2, <2>3, <2>4 DEF ServerStep
<1>3. ASSUME NEW user \in Users, NEW o \in Ops, NEW kind \in Kinds, HumanStep(user, o, kind)
      PROVE  record'[op] = record[op]
  <2>1. CASE Retry(user, o, kind)
    BY <2>1 DEF Retry, TypeOK
  <2>2. CASE Look(user, o, kind) \/ Settle(user, o, kind) \/ RetryFails(user, o, kind)
    BY <2>2 DEF Look, Settle, RetryFails, server
  <2> QED BY <1>3, <2>1, <2>2 DEF HumanStep
<1>4. CASE UNCHANGED vars
  BY <1>4 DEF vars, server
<1>5. ASSUME NEW d \in Devices, TerminalStep(d) PROVE record' = record
  BY <1>5 DEF TerminalStep, SendBatch, Receive, TimeOut, Refused, Restart, server
<1>6. ASSUME NEW o \in Ops, Enqueue(o) \/ BackoffEnds(o) \/ Requeue(o) PROVE record' = record
  BY <1>6 DEF Enqueue, BackoffEnds, Requeue, server
<1>7. ASSUME NEW r \in Requests, Drop(r) \/ Forget(r) PROVE record' = record
  BY <1>7 DEF Drop, Forget, server
<1>8. ASSUME NEW o \in Orders, CloseElsewhere(o) PROVE record' = record
  BY <1>8 DEF CloseElsewhere
<1> QED BY <1>2, <1>3, <1>4, <1>5, <1>6, <1>7, <1>8 DEF Next

-----------------------------------------------------------------------------
(* The terminal and the server.                                            *)

\* What a response or a terminal says of an operation is what its row says.
Agreed ==
    \A op \in Ops : op \notin retried =>
        /\ outbox[op] \in LocalStatus \ {"PENDING"} => LocalStatusOf(record[op]) = outbox[op]
        /\ \A r \in Requests : answer[r][op] \in Final => record[op] = answer[r][op]

\* An answer comes from the row, and the terminal stores what an answer says.
LEMMA AgreedStep ==
    ASSUME PushInv, Agreed, [Next]_vars,
           \A op \in Ops : op \notin retried' =>
               outbox'[op] \in {outbox[op], "PENDING", LocalStatusOf(record[op])},
           \A r \in Requests, op \in Ops :
               answer'[r][op] \in {answer[r][op], "none", record'[op]}
    PROVE  Agreed'
<1> SUFFICES ASSUME NEW op \in Ops, op \notin retried'
             PROVE  /\ outbox'[op] \in LocalStatus \ {"PENDING"}
                       => LocalStatusOf(record'[op]) = outbox'[op]
                    /\ \A r \in Requests : answer'[r][op] \in Final => record'[op] = answer'[r][op]
  BY DEF Agreed
<1>1. op \notin retried /\ (record[op] \in Final => record'[op] = record[op])
  BY FinalStays, RetriedGrows
<1>2. ASSUME outbox'[op] \in LocalStatus \ {"PENDING"}
      PROVE  LocalStatusOf(record'[op]) = outbox'[op]
  <2>1. LocalStatusOf(record[op]) = outbox'[op] /\ outbox'[op] # "PENDING"
    BY <1>1, <1>2 DEF Agreed
  <2>2. record[op] \in Final
    BY <2>1 DEF LocalStatusOf, Final, ServerStatus
  <2> QED BY <1>1, <2>1, <2>2
<1>3. ASSUME NEW r \in Requests, answer'[r][op] \in Final PROVE record'[op] = answer'[r][op]
  <2>1. CASE answer'[r][op] = answer[r][op]
    BY <1>1, <1>3, <2>1 DEF Agreed
  <2>2. CASE answer'[r][op] # answer[r][op]
    BY <1>3, <2>2 DEF Final, ServerStatus
  <2> QED BY <2>1, <2>2
<1> QED BY <1>2, <1>3

LEMMA AgreedNext == PushInv /\ Agreed /\ [Next]_vars => Agreed'
<1> SUFFICES ASSUME PushInv, Agreed, [Next]_vars PROVE Agreed'
  OBVIOUS
<1> USE DEF PushInv
<1> DEFINE Stored == \A op \in Ops : op \notin retried' =>
               outbox'[op] \in {outbox[op], "PENDING", LocalStatusOf(record[op])}
           Told == \A r \in Requests, op \in Ops :
               answer'[r][op] \in {answer[r][op], "none", record'[op]}
<1>1. ASSUME NEW op \in Ops, Enqueue(op) \/ BackoffEnds(op) \/ Requeue(op) PROVE Stored /\ Told
  BY <1>1 DEF Enqueue, BackoffEnds, Requeue, request, TypeOK
<1>2. ASSUME NEW r \in Requests, Release(r) \/ Lose(r) \/ UNCHANGED request PROVE Told
  BY <1>2 DEF Release, Lose, request, Unanswered, TypeOK
<1>3. ASSUME NEW d \in Devices, TerminalStep(d) PROVE Stored /\ Told
  <2>1. CASE SendBatch(d)
    BY <2>1 DEF SendBatch
  <2>2. CASE TimeOut(d) \/ Refused(d) \/ Restart(d)
    <3>1. flight[d] \in Requests /\ outbox' = outbox
      BY <2>2 DEF TimeOut, Refused, Restart, TypeOK
    <3> QED BY <1>2, <2>2, <3>1 DEF TimeOut, Refused, Restart, Abandon
  <2>3. CASE Receive(d)
    <3>1. PICK done \in SUBSET batch[flight[d]] :
              outbox' = [op \in Ops |-> IF op \in done THEN LocalStatusOf(answer[flight[d]][op])
                                        ELSE outbox[op]]
      BY <2>3 DEF Receive
    <3>2. flight[d] \in Requests /\ Release(flight[d]) /\ record' = record /\ retried' = retried
      BY <2>3 DEF Receive, TypeOK, server, human
    <3>3. ASSUME NEW op \in Ops, op \notin retried
          PROVE  LocalStatusOf(answer[flight[d]][op]) \in {"PENDING", LocalStatusOf(record[op])}
      <4>1. CASE answer[flight[d]][op] \in Final
        BY <3>2, <3>3, <4>1 DEF Agreed
      <4>2. CASE answer[flight[d]][op] \notin Final
        BY <4>2 DEF LocalStatusOf, Final, ServerStatus
      <4> QED BY <4>1, <4>2
    <3> QED BY <1>2, <3>1, <3>2, <3>3
  <2> QED BY <1>3, <2>1, <2>2, <2>3 DEF TerminalStep
<1>4. ASSUME NEW r \in Requests, ServerStep(r) PROVE Stored /\ Told
  <2>1. outbox' = outbox
    BY <1>4 DEF ServerStep, Replay, Claim, Handle, ApplyEvent, Save, terminal
  <2>2. CASE Claim(r) \/ Handle(r) \/ ApplyEvent(r)
    BY <2>1, <2>2 DEF Claim, Handle, ApplyEvent
  <2>3. CASE Replay(r) \/ Save(r)
    <3>1. CASE Replay(r)
      BY <2>1, <3>1 DEF Replay, Answered, server, TypeOK
    <3>2. CASE Save(r)
      BY <2>1, <3>2 DEF Save, Answered, TypeOK
    <3> QED BY <2>3, <3>1, <3>2
  <2> QED BY <1>4, <2>2, <2>3 DEF ServerStep
<1>5. ASSUME NEW r \in Requests, Drop(r) \/ Forget(r) \/ Crash(r) PROVE Stored /\ Told
  BY <1>2, <1>5 DEF Drop, Forget, Crash, terminal
<1>6. ASSUME NEW o \in Orders, CloseElsewhere(o) PROVE Stored /\ Told
  BY <1>6 DEF CloseElsewhere, terminal, request
<1>7. ASSUME NEW user \in Users, NEW op \in Ops, NEW kind \in Kinds, HumanStep(user, op, kind)
      PROVE  Stored /\ Told
  BY <1>7 DEF HumanStep, Look, Settle, Retry, RetryFails, terminal, request
<1>8. ASSUME UNCHANGED vars PROVE Stored /\ Told
  BY <1>8 DEF vars, terminal, request
<1>9. Stored /\ Told
  <2> HIDE DEF Stored, Told, PushInv
  <2> QED BY <1>1, <1>3, <1>4, <1>5, <1>6, <1>7, <1>8 DEF Next
<1> QED BY <1>9, AgreedStep

\* Until a human retries an operation, the terminal that no longer sends it
\* shows the status of the server's row.
THEOREM BothSidesAgree == Spec => []TerminalAgrees
<1>1. Init => Agreed
  BY DEF Init, Agreed, Unanswered, LocalStatus, Final, ServerStatus
<1>2. PushInv /\ Agreed /\ [Next]_vars => Agreed'
  BY AgreedNext
<1>3. Agreed => TerminalAgrees
  BY DEF Agreed, TerminalAgrees
<1> QED BY <1>1, <1>2, <1>3, Inductive, PTL DEF Spec

-----------------------------------------------------------------------------
(* The order of a terminal's events.                                       *)

\* Events 1 to Seq(e) - 1 of that terminal on that order are applied.
Filled(e) ==
    \A n \in 1..(Seq(e) - 1) :
        \E f \in Ops : /\ Type(f) = "order_event" /\ Seq(f) = n
                       /\ Device(f) = Device(e) /\ OrderOf(f) = OrderOf(e)
                       /\ record[f] = "APPLIED" \/ f \in retried

\* A worker whose event has passed the check for a gap.
Passed(r, op) ==
    /\ Working(r, op)
    /\ phase[r] = "locking" \/ (phase[r] = "saving" /\ outcome[r] = "APPLIED")

\* What was checked before the lock still holds when the status is saved.
Unbroken ==
    \A op \in Ops : Type(op) = "order_event" =>
        /\ record[op] = "APPLIED" => Filled(op)
        /\ \A r \in Requests : Passed(r, op) => Filled(op)

LEMMA FilledStays ==
    ASSUME PushInv, [Next]_vars, NEW e \in Ops, Filled(e)
    PROVE  Filled(e)'
<1> SUFFICES ASSUME NEW n \in 1..(Seq(e) - 1)
             PROVE  \E f \in Ops : /\ Type(f) = "order_event" /\ Seq(f) = n
                                   /\ Device(f) = Device(e) /\ OrderOf(f) = OrderOf(e)
                                   /\ record'[f] = "APPLIED" \/ f \in retried'
  BY DEF Filled
<1>1. PICK f \in Ops : /\ Type(f) = "order_event" /\ Seq(f) = n
                       /\ Device(f) = Device(e) /\ OrderOf(f) = OrderOf(e)
                       /\ record[f] = "APPLIED" \/ f \in retried
  BY DEF Filled
<1>2. record'[f] = "APPLIED" \/ f \in retried'
  BY <1>1, FinalStays, RetriedGrows DEF Final, ServerStatus
<1> QED BY <1>1, <1>2

\* An event without a gap stands on an applied event, which stands on the
\* ones before it.
LEMMA NoGapIsFilled ==
    ASSUME Unbroken, NEW op \in Ops, ~SequenceGap(op)
    PROVE  Filled(op)
<1>1. Seq(op) \in Nat
  BY Constants
<1>2. CASE Seq(op) <= 1
  BY <1>1, <1>2 DEF Filled
<1>3. CASE Seq(op) > 1
  <2>1. PICK e \in AppliedEvents(op) : ~(Seq(op) > Seq(e) + 1)
    BY <1>3 DEF SequenceGap
  <2>2. /\ e \in Ops /\ Type(e) = "order_event" /\ record[e] = "APPLIED"
        /\ Device(e) = Device(op) /\ OrderOf(e) = OrderOf(op)
    BY <2>1 DEF AppliedEvents
  <2>3. Filled(e) /\ Seq(e) \in Nat
    BY <2>2, Constants DEF Unbroken
  <2> SUFFICES ASSUME NEW n \in 1..(Seq(op) - 1)
               PROVE  \E f \in Ops : /\ Type(f) = "order_event" /\ Seq(f) = n
                                     /\ Device(f) = Device(op) /\ OrderOf(f) = OrderOf(op)
                                     /\ record[f] = "APPLIED" \/ f \in retried
    BY DEF Filled
  <2>4. CASE n = Seq(e)
    BY <2>2, <2>4
  <2>5. CASE n # Seq(e)
    <3>1. n \in 1..(Seq(e) - 1)
      BY <1>1, <2>1, <2>3, <2>5
    <3> QED BY <2>2, <2>3, <3>1 DEF Filled
  <2> QED BY <2>4, <2>5
<1> QED BY <1>1, <1>2, <1>3

LEMMA UnbrokenNext == PushInv /\ Unbroken /\ [Next]_vars => Unbroken'
<1> SUFFICES ASSUME PushInv, Unbroken, [Next]_vars,
                    NEW op \in Ops, Type(op) = "order_event",
                    \/ record'[op] = "APPLIED" /\ record[op] # "APPLIED"
                    \/ \E r \in Requests : Passed(r, op)' /\ ~Passed(r, op)
             PROVE  Filled(op)
  BY FilledStays DEF Unbroken
<1> USE DEF PushInv
<1>1. ASSUME NEW r \in Requests, Handle(r) PROVE Filled(op)
  <2>1. PICK o \in Ops : Handle(r)!2!(o)
    BY <1>1 DEF Handle
  <2>2. record' = record /\ UNCHANGED todo
    BY <1>1 DEF Handle
  <2>3. o = op /\ ~SequenceGap(op)
    <3>1. PICK s \in Requests : Passed(s, op)' /\ ~Passed(s, op)
      BY <2>2
    <3>2. s = r
      BY <2>1, <2>2, <3>1 DEF Passed, Working, IsNext, Returned, TypeOK
    <3>3. o = op
      BY <2>1, <2>2, <3>1, <3>2, NextIsUnique DEF Passed, Working, IsNext
    <3>4. phase'[r] = "locking" \/ outcome'[r] = "APPLIED"
      BY <3>1, <3>2 DEF Passed
    <3> QED BY <1>1, <2>1, <3>3, <3>4 DEF EventPasses, Returned, TypeOK, Phases
  <2> QED BY <2>3, NoGapIsFilled
<1>2. ASSUME NEW r \in Requests, ApplyEvent(r) PROVE Filled(op)
  <2>1. PICK o \in Ops : ApplyEvent(r)!2!(o)
    BY <1>2 DEF ApplyEvent
  <2>2. record' = record /\ UNCHANGED todo
    BY <1>2 DEF ApplyEvent
  <2>3. PICK s \in Requests : Passed(s, op)' /\ ~Passed(s, op)
    BY <2>2
  <2>4. s = r
    BY <2>1, <2>2, <2>3 DEF Passed, Working, IsNext, Returned, TypeOK
  <2>5. Passed(r, op)
    BY <1>2, <2>2, <2>3, <2>4 DEF ApplyEvent, Passed, Working, IsNext
  <2> QED BY <2>3, <2>4, <2>5
<1>3. ASSUME NEW r \in Requests, Save(r) PROVE Filled(op)
  <2>1. PICK o \in Ops : /\ IsNext(o, r)
                         /\ record' = [record EXCEPT ![o] = outcome[r]]
                         /\ Answered(r, o, outcome[r])
    BY <1>3 DEF Save
  <2>2. phase[r] = "saving" /\ outcome' = [outcome EXCEPT ![r] = "none"]
    BY <1>3 DEF Save
  <2>3. \A s \in Requests : Passed(s, op)' => Passed(s, op)
    BY <2>1, <2>2 DEF Passed, Working, IsNext, Answered, TypeOK
  <2>4. record'[op] = "APPLIED" /\ record[op] # "APPLIED"
    BY <2>3
  <2>5. o = op /\ outcome[r] = "APPLIED"
    BY <2>1, <2>4 DEF TypeOK
  <2> QED BY <2>1, <2>2, <2>5 DEF Unbroken, Passed, Working
<1>4. ASSUME NEW user \in Users, NEW o \in Ops, NEW kind \in Kinds, Retry(user, o, kind)
      PROVE  Filled(op)
  <2>1. UNCHANGED request
    BY <1>4 DEF Retry
  <2>2. \A s \in Requests : Passed(s, op)' => Passed(s, op)
    BY <2>1 DEF request, Passed, Working, IsNext
  <2>3. o = op
    BY <1>4, <2>2 DEF Retry, TypeOK
  <2>4. ~SequenceGap(op)
    BY <1>4, <2>3 DEF Retry, HandlerReturns, EventPasses
  <2> QED BY <2>4, NoGapIsFilled
<1>5. ASSUME record' = record, \A s \in Requests : Passed(s, op)' => Passed(s, op) PROVE FALSE
  BY <1>5
<1>6. ASSUME NEW r \in Requests, Release(r) \/ Lose(r) \/ UNCHANGED request
      PROVE  \A s \in Requests : Passed(s, op)' => Passed(s, op)
  BY <1>6 DEF Release, Lose, request, Passed, Working, IsNext, TypeOK
<1>7. ASSUME NEW d \in Devices, TerminalStep(d) PROVE FALSE
  <2>1. record' = record
    BY <1>7 DEF TerminalStep, SendBatch, Receive, TimeOut, Refused, Restart, server
  <2>2. CASE SendBatch(d)
    <3>1. \A s \in Requests : Passed(s, op)' => Passed(s, op)
      BY <2>2 DEF SendBatch, Passed, Working, IsNext, TypeOK
    <3> QED BY <1>5, <2>1, <3>1
  <2>3. CASE ~SendBatch(d)
    <3>1. flight[d] \in Requests /\ (Release(flight[d]) \/ UNCHANGED request)
      BY <1>7, <2>3 DEF TerminalStep, Receive, TimeOut, Refused, Restart, Abandon, TypeOK
    <3> QED BY <1>5, <1>6, <2>1, <3>1
  <2> QED BY <2>2, <2>3
<1>8. ASSUME NEW r \in Requests, Replay(r) \/ Claim(r) PROVE FALSE
  <2>1. \A s \in Requests : Passed(s, op)' => Passed(s, op)
    BY <1>8 DEF Replay, Claim, Answered, Passed, Working, IsNext, TypeOK
  <2>2. record'[op] = "APPLIED" => record[op] = "APPLIED"
    BY <1>8 DEF Replay, Claim, server, TypeOK
  <2> QED BY <2>1, <2>2
<1>9. ASSUME NEW r \in Requests, Drop(r) \/ Forget(r) \/ Crash(r) PROVE FALSE
  <2>1. \A s \in Requests : Passed(s, op)' => Passed(s, op)
    BY <1>6, <1>9 DEF Drop, Forget, Crash
  <2>2. record'[op] = "APPLIED" => record[op] = "APPLIED"
    BY <1>9 DEF Drop, Forget, Crash, server, TypeOK
  <2> QED BY <2>1, <2>2
<1>10. ASSUME NEW o \in Ops, Enqueue(o) \/ BackoffEnds(o) \/ Requeue(o) PROVE FALSE
  BY <1>10 DEF Enqueue, BackoffEnds, Requeue, request, server, Passed, Working, IsNext
<1>11. ASSUME NEW o \in Orders, CloseElsewhere(o) PROVE FALSE
  BY <1>11 DEF CloseElsewhere, request, Passed, Working, IsNext
<1>12. ASSUME NEW user \in Users, NEW o \in Ops, NEW kind \in Kinds,
              Look(user, o, kind) \/ Settle(user, o, kind) \/ RetryFails(user, o, kind)
       PROVE  FALSE
  BY <1>12 DEF Look, Settle, RetryFails, request, server, Passed, Working, IsNext
<1>13. ~(UNCHANGED vars)
  BY DEF vars, request, server, Passed, Working, IsNext
<1> QED
  <2> HIDE DEF PushInv
  <2> QED
    BY <1>1, <1>2, <1>3, <1>4, <1>7, <1>8, <1>9, <1>10, <1>11, <1>12, <1>13
    DEF Next, ServerStep, HumanStep

\* A terminal's events on one order are applied in sequence, although the gap
\* is looked for before the lock and the status saved after it.
THEOREM EventsFollowEachOther == Spec => []AppliedWithoutHoles
<1>1. Init => Unbroken
  BY DEF Init, Unbroken, Passed, Working
<1>2. PushInv /\ Unbroken /\ [Next]_vars => Unbroken'
  BY UnbrokenNext
<1>3. Unbroken => AppliedWithoutHoles
  BY DEF Unbroken, Filled, AppliedWithoutHoles
<1> QED BY <1>1, <1>2, <1>3, Inductive, PTL DEF Spec

-----------------------------------------------------------------------------
(* Closed orders.                                                          *)

\* Whatever transaction enters a sale or a payment reads its order as open.
LEMMA EntersAnOpenOrder ==
    ASSUME TypeOK, NEW op \in Ops, HandlerReturns(op) \/ EventApplies(op) \/ NoEntry,
           NEW o \in Ops, effects'[o] > effects[o], Type(o) \in {"order_event", "payment"}
    PROVE  orders[OrderOf(o)] = "open"
<1>1. effects[o] \in Nat /\ ~(effects[o] > effects[o])
  BY DEF TypeOK
<1>2. ~NoEntry /\ effects' # effects
  BY <1>1 DEF NoEntry
<1>3. Enter(op)
  BY <1>2 DEF HandlerReturns, EventApplies, PaymentApplies, NoEntry
<1>4. o = op
  BY <1>1, <1>3 DEF Enter, TypeOK
<1> QED BY <1>2, <1>4 DEF HandlerReturns, EventApplies, PaymentApplies, NoEntry

\* No sale and no payment enters an order that was closed before its
\* transaction had the lock.
THEOREM ClosedStaysClosed == Spec => NothingEntersAClosedOrder
<1>1. TypeOK /\ [Next]_vars =>
        \A op \in Ops : effects'[op] > effects[op] /\ Type(op) \in {"order_event", "payment"}
                        => orders[OrderOf(op)] = "open"
  <2> SUFFICES ASSUME TypeOK, [Next]_vars, NEW op \in Ops, effects'[op] > effects[op],
                      Type(op) \in {"order_event", "payment"}
               PROVE  orders[OrderOf(op)] = "open"
    OBVIOUS
  <2>1. effects' # effects
    BY DEF TypeOK
  <2>2. ASSUME NEW r \in Requests, Handle(r) \/ ApplyEvent(r) PROVE orders[OrderOf(op)] = "open"
    BY <2>2, EntersAnOpenOrder DEF Handle, ApplyEvent
  <2>3. ASSUME NEW user \in Users, NEW o \in Ops, NEW kind \in Kinds, Retry(user, o, kind)
        PROVE  orders[OrderOf(op)] = "open"
    BY <2>3, EntersAnOpenOrder DEF Retry
  <2>4. ASSUME NEW d \in Devices, TerminalStep(d) PROVE FALSE
    BY <2>1, <2>4 DEF TerminalStep, SendBatch, Receive, TimeOut, Refused, Restart, server
  <2>5. ASSUME NEW r \in Requests, Replay(r) \/ Claim(r) \/ Save(r) \/ Drop(r) \/ Forget(r) \/ Crash(r)
        PROVE  FALSE
    BY <2>1, <2>5 DEF Replay, Claim, Save, Drop, Forget, Crash, server
  <2>6. ASSUME NEW o \in Ops, Enqueue(o) \/ BackoffEnds(o) \/ Requeue(o) PROVE FALSE
    BY <2>1, <2>6 DEF Enqueue, BackoffEnds, Requeue, server
  <2>7. ASSUME NEW user \in Users, NEW o \in Ops, NEW kind \in Kinds,
               Look(user, o, kind) \/ Settle(user, o, kind) \/ RetryFails(user, o, kind)
        PROVE  FALSE
    BY <2>1, <2>7 DEF Look, Settle, RetryFails, server
  <2>8. ASSUME NEW o \in Orders, CloseElsewhere(o) PROVE FALSE
    BY <2>1, <2>8 DEF CloseElsewhere
  <2>9. ~(UNCHANGED vars)
    BY <2>1 DEF vars, server
  <2> QED
    BY <2>2, <2>3, <2>4, <2>5, <2>6, <2>7, <2>8, <2>9 DEF Next, ServerStep, HumanStep
<1> QED BY <1>1, Typing, PTL DEF Spec, NothingEntersAClosedOrder
=============================================================================
