------------------------------ MODULE SyncPush ------------------------------
(***************************************************************************)
(* The push half of synchronisation, end to end: the SQLite outbox of each *)
(* terminal and the batch it drains (desktop local/outbox.py,              *)
(* sync/pusher.py), the network, and apply_push with its handlers, its     *)
(* idempotency row and its conflicts on the server (backend apps/sync).    *)
(*                                                                         *)
(* One operation of the outbox is an element of Ops, its op_uuid.  What    *)
(* the terminal wrote in it never changes, so it is a constant record:     *)
(* Operation[op].  The number of a database transaction is the number of   *)
(* an action: apply_push runs every operation in three of them (the row,   *)
(* the handler, the status), and between any two the worker may die, a     *)
(* second request may run, or a human may resolve a conflict.              *)
(***************************************************************************)
EXTENDS Integers, FiniteSets

CONSTANTS
    Devices,      \* terminals
    Orders,       \* orders, minted by the terminals
    Ops,          \* op_uuids
    Operation,    \* what each op_uuid carries
    Requests,     \* identities of the requests that exist at one time
    NoRequest,    \* a terminal waiting for nothing
    Skewed,       \* terminals whose clock is off beyond the tolerance
    Users,        \* humans resolving conflicts on the server
    BatchSize,    \* DEFAULT_BATCH
    MaxLosses,    \* bound: network losses, impatient timeouts and restarts
    MaxCrashes,   \* bound: server workers that die in a request
    MaxResolves   \* bound: conflicts resolved on the server, retries on a terminal

EntityTypes == {"order_open", "order_event", "payment", "keyed", "unkeyed"}

ASSUME OperationAssumption ==
    Operation \in [Ops -> [device : Devices, entity_type : EntityTypes, order : Orders,
                           aggregate_seq : Nat, created_seq : Nat]]
ASSUME BatchAssumption == BatchSize \in Nat \ {0}
ASSUME BoundAssumption == MaxLosses \in Nat /\ MaxCrashes \in Nat /\ MaxResolves \in Nat
ASSUME RequestAssumption == NoRequest \notin Requests

\* uuid4 identifies an operation, sync_sequence orders those of a terminal,
\* and only the terminal that minted an order opens it.
ASSUME SequenceAssumption ==
    \A a, b \in Ops :
        /\ Operation[a].device = Operation[b].device
        /\ Operation[a].created_seq = Operation[b].created_seq
        => a = b
ASSUME MintAssumption ==
    \A a, b \in Ops :
        /\ Operation[a].entity_type = "order_open"
        /\ Operation[b].entity_type = "order_open"
        /\ Operation[a].order = Operation[b].order
        => a = b

Device(op)  == Operation[op].device
Type(op)    == Operation[op].entity_type
OrderOf(op) == Operation[op].order
Seq(op)     == Operation[op].aggregate_seq
Created(op) == Operation[op].created_seq

VARIABLES
    outbox,       \* sync_outbox.status of each operation, on its terminal
    waiting,      \* operations whose next_retry_at has not come
    flight,       \* the request each terminal waits for
    phase,        \* where each request is
    batch,        \* the operations of each request
    todo,         \* those of them the server has not answered
    outcome,      \* what the handler of the current operation returned
    answer,       \* the results collected for the response
    record,       \* SyncOperation.status, "none" without a row
    effects,      \* how often the handler's business write was committed
    orders,       \* the order on the server
    skews,        \* operations with an open CLOCK_SKEW conflict
    conflicts,    \* operations with an open conflict raised by a handler
    looking,      \* humans who loaded an open conflict
    retried,      \* history: operations whose RETRIED succeeded
    losses, crashes, resolves  \* budgets spent

terminal == <<outbox, waiting, flight>>
request  == <<phase, batch, todo, outcome, answer>>
server   == <<record, effects, orders>>
human    == <<skews, conflicts, looking, retried>>
budgets  == <<losses, crashes, resolves>>
vars     == <<terminal, request, server, human, budgets>>

LocalStatus  == {"PENDING", "SYNCED", "CONFLICT", "REJECTED"}
ServerStatus == {"PENDING", "APPLIED", "CONFLICT", "REJECTED"}
Final        == ServerStatus \ {"PENDING"}
Phases == {"idle", "sent", "running", "handling", "locking", "saving", "replied", "lost"}
Kinds  == {"CLOCK_SKEW", "HANDLER"}

TypeOK ==
    /\ outbox \in [Ops -> LocalStatus \cup {"none"}]
    /\ waiting \subseteq Ops
    /\ flight \in [Devices -> Requests \cup {NoRequest}]
    /\ phase \in [Requests -> Phases]
    /\ batch \in [Requests -> SUBSET Ops]
    /\ todo \in [Requests -> SUBSET Ops]
    /\ outcome \in [Requests -> Final \cup {"none"}]
    /\ answer \in [Requests -> [Ops -> ServerStatus \cup {"none"}]]
    /\ record \in [Ops -> ServerStatus \cup {"none"}]
    /\ effects \in [Ops -> Nat]
    /\ orders \in [Orders -> {"none", "open", "closed"}]
    /\ skews \subseteq Ops
    /\ conflicts \subseteq Ops
    /\ looking \subseteq Users \X Ops \X Kinds
    /\ retried \subseteq Ops
    /\ losses \in 0..MaxLosses
    /\ crashes \in 0..MaxCrashes
    /\ resolves \in 0..MaxResolves

Unanswered == [op \in Ops |-> "none"]

\* An order may have been opened by another terminal or in the browser.
Init ==
    /\ outbox = [op \in Ops |-> "none"]
    /\ waiting = {}
    /\ flight = [d \in Devices |-> NoRequest]
    /\ phase = [r \in Requests |-> "idle"]
    /\ batch = [r \in Requests |-> {}]
    /\ todo = [r \in Requests |-> {}]
    /\ outcome = [r \in Requests |-> "none"]
    /\ answer = [r \in Requests |-> Unanswered]
    /\ record = [op \in Ops |-> "none"]
    /\ effects = [op \in Ops |-> 0]
    /\ orders = [o \in Orders |->
                   IF \E op \in Ops : OrderOf(op) = o /\ Type(op) = "order_open"
                   THEN "none" ELSE "open"]
    /\ skews = {} /\ conflicts = {} /\ looking = {} /\ retried = {}
    /\ losses = 0 /\ crashes = 0 /\ resolves = 0

-----------------------------------------------------------------------------
(* The terminal.                                                           *)

\* outbox.enqueue: the row is written with the data it describes.  Rows are
\* written in the order of sync_sequence, and not while a request is out:
\* the tick that waits for it blocks the user interface.
Enqueue(op) ==
    /\ outbox[op] = "none"
    /\ flight[Device(op)] = NoRequest
    /\ \A other \in Ops :
          Device(other) = Device(op) /\ Created(other) < Created(op) => outbox[other] # "none"
    /\ outbox' = [outbox EXCEPT ![op] = "PENDING"]
    /\ UNCHANGED <<waiting, flight, request, server, human, budgets>>

\* A request is over for both sides; its identity may be used again.
Release(r) ==
    /\ phase' = [phase EXCEPT ![r] = "idle"]
    /\ batch' = [batch EXCEPT ![r] = {}]
    /\ todo' = [todo EXCEPT ![r] = {}]
    /\ answer' = [answer EXCEPT ![r] = Unanswered]
    /\ UNCHANGED outcome

\* A request is over for the server, but its terminal may still wait.
Lose(r) ==
    /\ phase' = [phase EXCEPT ![r] = "lost"]
    /\ todo' = [todo EXCEPT ![r] = {}]
    /\ answer' = [answer EXCEPT ![r] = Unanswered]
    /\ outcome' = [outcome EXCEPT ![r] = "none"]
    /\ UNCHANGED batch

Due(d) == {op \in Ops : Device(op) = d /\ outbox[op] = "PENDING" /\ op \notin waiting}

\* Fault of pending: a batch that is not full is never sent.
FullBatch(b, d) ==
    /\ b \subseteq Due(d)
    /\ \A op \in b, other \in Due(d) \ b : Created(op) < Created(other)
    /\ Cardinality(b) = BatchSize

\* outbox.pending: the first BatchSize rows that are due, by created_seq.
IsBatch(b, d) ==
    /\ b \subseteq Due(d)
    /\ b # {}
    /\ \A op \in b, other \in Due(d) \ b : Created(op) < Created(other)
    /\ Cardinality(b) = BatchSize \/ (b = Due(d) /\ Cardinality(b) <= BatchSize)

\* drain_once, up to the POST.
SendBatch(d) ==
    /\ flight[d] = NoRequest
    /\ \E r \in Requests, b \in SUBSET Ops :
          /\ phase[r] = "idle"
          /\ IsBatch(b, d)
          /\ flight' = [flight EXCEPT ![d] = r]
          /\ phase' = [phase EXCEPT ![r] = "sent"]
          /\ batch' = [batch EXCEPT ![r] = b]
          /\ todo' = [todo EXCEPT ![r] = b]
    /\ UNCHANGED <<outbox, waiting, outcome, answer, server, human, budgets>>

\* next_retry_at has come.  Every operation drew its own jitter, so the
\* operations of one deferred batch come due one by one and in any order.
BackoffEnds(op) ==
    /\ op \in waiting
    /\ waiting' = waiting \ {op}
    /\ UNCHANGED <<outbox, flight, request, server, human, budgets>>

\* The terminal stops waiting.  A request the server still works on goes on.
Abandon(r) ==
    IF phase[r] = "lost" THEN Release(r) ELSE UNCHANGED request

\* The POST raised NetworkUnavailable or a 5xx: _defer_all puts every
\* operation of the batch behind a backoff.  The request may still be
\* running (the terminal lost patience) or gone.
TimeOut(d) ==
    /\ flight[d] # NoRequest
    /\ LET r == flight[d] IN
          /\ \/ phase[r] = "lost" /\ UNCHANGED losses
             \/ phase[r] # "lost" /\ losses < MaxLosses /\ losses' = losses + 1
          /\ waiting' = waiting \cup batch[r]
          /\ Abandon(r)
    /\ flight' = [flight EXCEPT ![d] = NoRequest]
    /\ UNCHANGED <<outbox, server, human, crashes, resolves>>

\* 401 or 403 (an expired token, a device refused by _device): nothing was
\* applied, and the batch stays due at once.
Refused(d) ==
    /\ flight[d] # NoRequest
    /\ phase[flight[d]] = "sent"
    /\ losses < MaxLosses
    /\ losses' = losses + 1
    /\ Release(flight[d])
    /\ flight' = [flight EXCEPT ![d] = NoRequest]
    /\ UNCHANGED <<outbox, waiting, server, human, crashes, resolves>>

\* Faults of _apply_results: a PENDING replay taken for success; the server's
\* status stored as it came.
PendingIsSynced(status) == IF status \in {"CONFLICT", "REJECTED"} THEN status ELSE "SYNCED"
StatusAsSent(status) == status

\* _apply_results for one result.
LocalStatusOf(status) ==
    IF status = "APPLIED" THEN "SYNCED"
    ELSE IF status \in {"CONFLICT", "REJECTED"} THEN status ELSE "PENDING"

\* The response arrives.  Each result is stored in a transaction of its own,
\* in batch order; a terminal that is killed on the way has stored a prefix
\* and forgets that it ever asked.
Receive(d) ==
    /\ flight[d] # NoRequest
    /\ phase[flight[d]] = "replied"
    /\ \E done \in SUBSET batch[flight[d]] :
          LET r == flight[d] IN
          /\ \A op \in done, other \in batch[r] \ done : Created(op) < Created(other)
          /\ \/ done = batch[r] /\ UNCHANGED losses
             \/ done # batch[r] /\ losses < MaxLosses /\ losses' = losses + 1
          /\ outbox' = [op \in Ops |->
                          IF op \in done THEN LocalStatusOf(answer[r][op]) ELSE outbox[op]]
          /\ waiting' = waiting \cup {op \in done : answer[r][op] \in {"PENDING", "none"}}
          /\ Release(r)
          /\ flight' = [flight EXCEPT ![d] = NoRequest]
    /\ UNCHANGED <<server, human, crashes, resolves>>

\* The terminal is killed while it waits; only the SQLite file survives.
Restart(d) ==
    /\ flight[d] # NoRequest
    /\ losses < MaxLosses
    /\ losses' = losses + 1
    /\ Abandon(flight[d])
    /\ flight' = [flight EXCEPT ![d] = NoRequest]
    /\ UNCHANGED <<outbox, waiting, server, human, crashes, resolves>>

\* The cashier presses "retry" on the conflict screen: outbox.requeue.
Requeue(op) ==
    /\ outbox[op] = "CONFLICT"
    /\ flight[Device(op)] = NoRequest
    /\ resolves < MaxResolves
    /\ resolves' = resolves + 1
    /\ outbox' = [outbox EXCEPT ![op] = "PENDING"]
    /\ waiting' = waiting \ {op}
    /\ UNCHANGED <<flight, request, server, human, losses, crashes>>

-----------------------------------------------------------------------------
(* The network and the worker that runs apply_push.                        *)

\* A request that is waited for, or its response, is dropped on the way.
Drop(r) ==
    /\ phase[r] \in {"sent", "replied"}
    /\ \E d \in Devices : flight[d] = r
    /\ losses < MaxLosses
    /\ losses' = losses + 1
    /\ Lose(r)
    /\ UNCHANGED <<terminal, server, human, crashes, resolves>>

\* Nobody waits for this response, or for this lost request, any more.
Forget(r) ==
    /\ phase[r] \in {"replied", "lost"}
    /\ \A d \in Devices : flight[d] # r
    /\ Release(r)
    /\ UNCHANGED <<terminal, server, human, budgets>>

IsNext(op, r) ==
    /\ op \in todo[r]
    /\ \A other \in todo[r] : Created(op) <= Created(other)

\* One result more; after the last operation the response is on its way.
Answered(r, op, status) ==
    /\ answer' = [answer EXCEPT ![r][op] = status]
    /\ todo' = [todo EXCEPT ![r] = @ \ {op}]
    /\ phase' = [phase EXCEPT ![r] = IF todo[r] = {op} THEN "replied" ELSE "running"]

\* Faults of apply_push: a replay reported as applied without reading the
\* row; a row that is still PENDING handled again.
ReplayAsApplied(r) ==
    /\ phase[r] \in {"sent", "running"}
    /\ \E op \in Ops :
          /\ IsNext(op, r)
          /\ record[op] # "none"
          /\ Answered(r, op, "APPLIED")
    /\ UNCHANGED <<terminal, batch, outcome, server, human, budgets>>
ClaimAgain(r) ==
    /\ phase[r] \in {"sent", "running"}
    /\ \E op \in Ops :
          /\ IsNext(op, r)
          /\ record[op] \in {"none", "PENDING"}
          /\ record' = [record EXCEPT ![op] = "PENDING"]
    /\ phase' = [phase EXCEPT ![r] = "handling"]
    /\ UNCHANGED <<terminal, batch, todo, outcome, answer, effects, orders, human, budgets>>

\* get_or_create found the row: the answer is what the row says now.
Replay(r) ==
    /\ phase[r] \in {"sent", "running"}
    /\ \E op \in Ops :
          /\ IsNext(op, r)
          /\ record[op] # "none"
          /\ Answered(r, op, record[op])
    /\ UNCHANGED <<terminal, batch, outcome, server, human, budgets>>

\* get_or_create created the row.  A skewed clock is recorded, as a conflict
\* for a human, and the operation goes on.
Claim(r) ==
    /\ phase[r] \in {"sent", "running"}
    /\ \E op \in Ops :
          /\ IsNext(op, r)
          /\ record[op] = "none"
          /\ record' = [record EXCEPT ![op] = "PENDING"]
          /\ skews' = IF Device(op) \in Skewed THEN skews \cup {op} ELSE skews
    /\ phase' = [phase EXCEPT ![r] = "handling"]
    /\ UNCHANGED <<terminal, batch, todo, outcome, answer, effects, orders, conflicts, looking,
                   retried, budgets>>

-----------------------------------------------------------------------------
(* The handlers.  "keyed" stands for refund, shift_open and play_check_in, *)
(* which find their own earlier write by a key of the payload; "unkeyed"   *)
(* for cash_movement and waste, which do not look for one.                 *)

Exists(op)  == orders[OrderOf(op)] # "none"
Closed(op)  == orders[OrderOf(op)] = "closed"
Written(op) == effects[op] > 0

AppliedEvents(op) ==
    {e \in Ops : /\ Type(e) = "order_event"
                 /\ record[e] = "APPLIED"
                 /\ Device(e) = Device(op)
                 /\ OrderOf(e) = OrderOf(op)}

\* Fault of _order_event: off by one.
GapOfTwo(op) ==
    /\ Seq(op) > 2
    /\ \A e \in AppliedEvents(op) : Seq(op) > Seq(e) + 2

\* sequence > highest + 1, highest being 0 when nothing is applied.
SequenceGap(op) ==
    /\ Seq(op) > 1
    /\ \A e \in AppliedEvents(op) : Seq(op) > Seq(e) + 1

\* The checks _order_event makes on rows it has not locked.
EventPasses(op) == Exists(op) /\ ~SequenceGap(op) /\ ~Closed(op)

Enter(op) == effects' = [effects EXCEPT ![op] = @ + 1]
NoEntry   == UNCHANGED <<effects, orders>>
SetOrder(op, status) == orders' = [orders EXCEPT ![OrderOf(op)] = status]

\* Fault of apply_events: no assert_mutable under the lock.
EventAlwaysApplies(op) == IF Written(op) THEN NoEntry ELSE Enter(op) /\ UNCHANGED orders

\* apply_events, on the locked order: a known event id is skipped before the
\* order is asked whether it may change.
EventApplies(op) ==
    \/ Written(op) /\ NoEntry
    \/ ~Written(op) /\ orders[OrderOf(op)] = "open" /\ Enter(op) /\ UNCHANGED orders

\* take_payment, on the locked order; the last payment closes it.
PaymentApplies(op) ==
    \/ Written(op) /\ NoEntry
    \/ /\ ~Written(op)
       /\ orders[OrderOf(op)] = "open"
       /\ Enter(op)
       /\ UNCHANGED orders \/ SetOrder(op, "closed")

\* A handler that returns, with everything it wrote.
HandlerReturns(op) ==
    \/ /\ Type(op) = "order_open"
       /\ \/ Exists(op) /\ NoEntry
          \/ ~Exists(op) /\ Enter(op) /\ SetOrder(op, "open")
    \/ Type(op) = "order_event" /\ EventPasses(op) /\ EventApplies(op)
    \/ Type(op) = "payment" /\ Exists(op) /\ PaymentApplies(op)
    \/ Type(op) = "keyed" /\ Written(op) /\ NoEntry
    \/ Type(op) = "keyed" /\ ~Written(op) /\ Enter(op) /\ UNCHANGED orders
    \/ Type(op) = "unkeyed" /\ Enter(op) /\ UNCHANGED orders

\* A handler that raises ConflictError: a human has to decide.
HandlerConflicts(op) ==
    \/ Type(op) = "order_event" /\ Exists(op) /\ (SequenceGap(op) \/ Closed(op))
    \/ Type(op) = "keyed" /\ ~Written(op)

\* A handler that raises anything else: an order that is not there, or is
\* terminal, an amount above the balance, a payload that is not valid.
HandlerRefuses(op) ==
    \/ Type(op) = "order_open" /\ ~Exists(op)
    \/ Type(op) = "order_event" /\ (~Exists(op) \/ (EventPasses(op) /\ ~Written(op)))
    \/ Type(op) = "payment" /\ (~Exists(op) \/ ~Written(op))
    \/ Type(op) = "keyed" /\ ~Written(op)
    \/ Type(op) = "unkeyed"

Returned(r, status) ==
    /\ phase' = [phase EXCEPT ![r] = "saving"]
    /\ outcome' = [outcome EXCEPT ![r] = status]

\* One operation in its own transaction.  An event that passed the checks
\* still has to wait for the row lock on its order.
Handle(r) ==
    /\ phase[r] = "handling"
    /\ \E op \in Ops :
          /\ IsNext(op, r)
          /\ \/ /\ Type(op) # "order_event"
                /\ HandlerReturns(op)
                /\ Returned(r, "APPLIED")
             \/ /\ Type(op) = "order_event"
                /\ EventPasses(op)
                /\ phase' = [phase EXCEPT ![r] = "locking"]
                /\ UNCHANGED outcome
                /\ NoEntry
             \/ HandlerConflicts(op) /\ NoEntry /\ Returned(r, "CONFLICT")
             \/ HandlerRefuses(op) /\ NoEntry /\ Returned(r, "REJECTED")
    /\ UNCHANGED <<terminal, batch, todo, answer, record, human, budgets>>

\* Fault of apply_push: no savepoint, so a handler that raises leaves its
\* writes behind.
ApplyEventUnsaved(r) ==
    /\ phase[r] = "locking"
    /\ \E op \in Ops :
          /\ IsNext(op, r)
          /\ IF orders[OrderOf(op)] = "open" THEN Returned(r, "APPLIED") ELSE Returned(r, "REJECTED")
          /\ Enter(op) /\ UNCHANGED orders
    /\ UNCHANGED <<terminal, batch, todo, answer, record, human, budgets>>

\* The lock is granted and the order read again.  assert_mutable raises an
\* InvalidStateTransition, which is no ConflictError.
ApplyEvent(r) ==
    /\ phase[r] = "locking"
    /\ \E op \in Ops :
          /\ IsNext(op, r)
          /\ \/ EventApplies(op) /\ Returned(r, "APPLIED")
             \/ ~Written(op) /\ orders[OrderOf(op)] # "open" /\ NoEntry /\ Returned(r, "REJECTED")
    /\ UNCHANGED <<terminal, batch, todo, answer, record, human, budgets>>

\* The status is saved, in a transaction after the handler's.
Save(r) ==
    /\ phase[r] = "saving"
    /\ \E op \in Ops :
          /\ IsNext(op, r)
          /\ record' = [record EXCEPT ![op] = outcome[r]]
          /\ Answered(r, op, outcome[r])
          /\ conflicts' = IF outcome[r] = "CONFLICT" THEN conflicts \cup {op} ELSE conflicts
    /\ outcome' = [outcome EXCEPT ![r] = "none"]
    /\ UNCHANGED <<terminal, batch, effects, orders, skews, looking, retried, budgets>>

\* The worker dies: between the status and the SyncConflict row of _conflict
\* too, which are two transactions.
Crash(r) ==
    /\ phase[r] \in {"running", "handling", "locking", "saving"}
    /\ crashes < MaxCrashes
    /\ crashes' = crashes + 1
    /\ \/ UNCHANGED record
       \/ /\ phase[r] = "saving" /\ outcome[r] = "CONFLICT"
          /\ \E op \in Ops : IsNext(op, r) /\ record' = [record EXCEPT ![op] = "CONFLICT"]
    /\ Lose(r)
    /\ UNCHANGED <<terminal, effects, orders, human, losses, resolves>>

-----------------------------------------------------------------------------
(* The rest of the server.                                                 *)

\* A browser till takes the last payment of the order, or voids it.
CloseElsewhere(o) ==
    /\ orders[o] = "open"
    /\ orders' = [orders EXCEPT ![o] = "closed"]
    /\ UNCHANGED <<terminal, request, record, effects, human, budgets>>

OpenConflicts(kind) == IF kind = "CLOCK_SKEW" THEN skews ELSE conflicts

\* ConflictResolveView loads a conflict that is open.
Look(user, op, kind) ==
    /\ op \in OpenConflicts(kind)
    /\ resolves < MaxResolves
    /\ resolves' = resolves + 1
    /\ looking' = looking \cup {<<user, op, kind>>}
    /\ UNCHANGED <<terminal, request, server, skews, conflicts, retried, losses, crashes>>

CloseConflict(user, op, kind) ==
    /\ looking' = looking \ {<<user, op, kind>>}
    /\ skews' = IF kind = "CLOCK_SKEW" THEN skews \ {op} ELSE skews
    /\ conflicts' = IF kind = "HANDLER" THEN conflicts \ {op} ELSE conflicts

\* resolve_conflict with ACKNOWLEDGED or DISCARDED.
Settle(user, op, kind) ==
    /\ <<user, op, kind>> \in looking
    /\ CloseConflict(user, op, kind)
    /\ UNCHANGED <<terminal, request, server, retried, budgets>>

\* resolve_conflict with RETRIED: the handler again, with no lock on the
\* conflict and no look at the operation's status.
Retry(user, op, kind) ==
    /\ <<user, op, kind>> \in looking
    /\ HandlerReturns(op)
    /\ record' = [record EXCEPT ![op] = "APPLIED"]
    /\ retried' = retried \cup {op}
    /\ CloseConflict(user, op, kind)
    /\ UNCHANGED <<terminal, request, budgets>>

\* A retry that raises is rolled back whole.
RetryFails(user, op, kind) ==
    /\ <<user, op, kind>> \in looking
    /\ HandlerConflicts(op) \/ HandlerRefuses(op)
    /\ looking' = looking \ {<<user, op, kind>>}
    /\ UNCHANGED <<terminal, request, server, skews, conflicts, retried, budgets>>

TerminalStep(d) == SendBatch(d) \/ Receive(d) \/ TimeOut(d) \/ Refused(d) \/ Restart(d)
ServerStep(r) == Replay(r) \/ Claim(r) \/ Handle(r) \/ ApplyEvent(r) \/ Save(r)
HumanStep(user, op, kind) ==
    \/ Look(user, op, kind) \/ Settle(user, op, kind)
    \/ Retry(user, op, kind) \/ RetryFails(user, op, kind)

Next ==
    \/ \E op \in Ops : Enqueue(op) \/ BackoffEnds(op) \/ Requeue(op)
    \/ \E d \in Devices : TerminalStep(d)
    \/ \E r \in Requests : ServerStep(r) \/ Drop(r) \/ Forget(r) \/ Crash(r)
    \/ \E o \in Orders : CloseElsewhere(o)
    \/ \E user \in Users, op \in Ops, kind \in Kinds : HumanStep(user, op, kind)

Spec == Init /\ [][Next]_vars

\* The engine ticks on a timer, a worker that is not killed finishes, and
\* clocks advance.  Nothing obliges a cashier, a human or a fault to act.
Fairness ==
    /\ \A op \in Ops : WF_vars(BackoffEnds(op))
    /\ \A d \in Devices : /\ WF_vars(SendBatch(d))
                          /\ WF_vars(Receive(d) /\ UNCHANGED losses)
                          /\ WF_vars(TimeOut(d) /\ UNCHANGED losses)
    /\ \A r \in Requests : WF_vars(ServerStep(r)) /\ WF_vars(Forget(r))

FairSpec == Spec /\ Fairness
-----------------------------------------------------------------------------
(* What the push must guarantee.                                           *)

\* A terminal that dropped an operation from its queue as SYNCED can rely on
\* it: the business write of that operation is committed on the server,
\* whatever requests were lost, replayed or cut short on the way.
SyncedIsEntered ==
    \A op \in Ops : outbox[op] = "SYNCED" => effects[op] > 0

\* No sequence of timeouts, replays, crashes and human retries enters an
\* operation that carries a key twice: no second sale, payment or refund.
\* One without a key (cash put in the drawer, waste) is entered once as long
\* as no human retries it.
EnteredOnce ==
    \A op \in Ops : Type(op) # "unkeyed" \/ op \notin retried => effects[op] <= 1

\* Until a human retries it, the row of an operation tells the truth about
\* the books: APPLIED means entered, CONFLICT and REJECTED mean that the
\* handler's transaction left nothing behind.
StatusMatchesBooks ==
    \A op \in Ops : op \notin retried =>
        /\ record[op] = "APPLIED" => effects[op] > 0
        /\ record[op] \in {"none", "CONFLICT", "REJECTED"} => effects[op] = 0

\* Until a human retries it, what the terminal shows of an operation it no
\* longer sends is what the server's row says, so a replay can never answer
\* differently from the first time.
TerminalAgrees ==
    \A op \in Ops : op \notin retried /\ outbox[op] \in LocalStatus \ {"PENDING"} =>
        LocalStatusOf(record[op]) = outbox[op]

\* A terminal's events on one order are applied without a hole: whatever
\* batch they came in, event n is only applied over applied events 1..n-1.
AppliedWithoutHoles ==
    \A e \in Ops : Type(e) = "order_event" /\ record[e] = "APPLIED" =>
        \A n \in 1..(Seq(e) - 1) :
            \E f \in Ops : /\ Type(f) = "order_event" /\ Seq(f) = n
                           /\ Device(f) = Device(e) /\ OrderOf(f) = OrderOf(e)
                           /\ record[f] = "APPLIED" \/ f \in retried

\* Nothing is sold on, and no money taken for, an order that is closed, even
\* when it closes between the unlocked check of the handler and the lock.
NothingEntersAClosedOrder ==
    [][\A op \in Ops :
          effects'[op] > effects[op] /\ Type(op) \in {"order_event", "payment"}
          => orders[OrderOf(op)] = "open"]_vars

\* Every operation that is queued gets an answer the terminal keeps.
EveryOperationSettles ==
    \A op \in Ops : outbox[op] = "PENDING" ~> outbox[op] # "PENDING"

\* "Events for one order arrive in the order they happened": when the server
\* sees an operation, it has seen all the terminal did to that order before.
CausalArrival ==
    \A op, before \in Ops :
        /\ record[op] # "none"
        /\ Device(before) = Device(op)
        /\ OrderOf(before) = OrderOf(op)
        /\ Created(before) < Created(op)
        => record[before] # "none"

\* "SEQUENCE_GAP self-heals - the client backfills and nobody is involved": an
\* event that conflicts while its order is open is applied in the end.
GapsHeal ==
    \A op \in Ops :
        Type(op) = "order_event" /\ record[op] = "CONFLICT" /\ orders[OrderOf(op)] = "open"
        ~> record[op] = "APPLIED" \/ orders[OrderOf(op)] # "open"

\* The promise to the cashier, for the operations that carry a key.
KeyedOps == {op \in Ops : Type(op) # "unkeyed"}

Ledger == INSTANCE DeliveryLedger WITH
    Ops       <- KeyedOps,
    submitted <- {op \in KeyedOps : outbox[op] # "none"},
    entries   <- [op \in KeyedOps |-> effects[op]],
    confirmed <- {op \in KeyedOps : outbox[op] = "SYNCED"}

ImplementsLedger == Ledger!Spec
=============================================================================
