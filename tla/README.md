# Caesar Cafe in TLA+

Caesar Cafe is a point-of-sale system: a Django server on PostgreSQL
(`backend/`), desktop tills that keep selling without a network
(`desktop/src/caesar_pos`, PySide6 on SQLite) and a web client (`frontend/`).
This directory models the parts in which several actors touch the same order,
the same money, the same room or the same queue, checks them with TLC on small
instances and proves the central facts with TLAPS for every instance.

All paths below are relative to the repository.

## 1. Inventory

| Component | State | Operations | Speaks to |
|---|---|---|---|
| outbox and pusher (`desktop/…/local/outbox.py`, `sync/pusher.py`, `sync/engine.py`) | `sync_outbox` rows with status, attempts, `next_retry_at` | `enqueue`, `pending`, `drain_once`, `_apply_results`, `_defer_all`, `requeue` | POST `/sync/push/`; the tick runs on the UI thread |
| push server (`backend/apps/sync/services.py`, `handlers.py`) | `SyncOperation`, `SyncConflict` | `apply_push` (row, handler, status: three transactions per operation), `resolve_conflict` | every handler calls a business service |
| change feed (`backend/apps/sync/changelog.py`, `receivers.py`) | `sync_change_log` with `seq` and `txid` | `record` (on commit), `visible_changes`, `pull` | post-save signals of the business models |
| puller (`desktop/…/sync/puller.py`, `local/db.py`) | mirror tables, one cursor per stream | `pull_stream`, `_apply_change`, `_apply_order_event` | GET `/sync/pull/` |
| orders (`backend/apps/orders`) | `Order`, `OrderItem`, `OrderEvent` | `open_order`, `apply_events`, `recalculate`, `void_order`, `next_local_number` | kitchen on firing, payments on settling |
| payments (`backend/apps/payments`) | `Payment`, `Refund`, `Invoice` | `take_payment`, `refund`, `issue_invoice`, `_next_invoice_number` | inventory deduction, invoice blocks |
| invoice blocks (`backend/apps/licensing`) | `InvoiceBlock` | `allocate_invoice_block` | called inside a settlement or by a till |
| kitchen (`backend/apps/kitchen`) | `KitchenTicket`, `TicketLine` | `route_order`, `transition`, `recall`, `_sync_order_status` | writes the order's status |
| shifts (`backend/apps/shifts`) | `Shift`, `CashMovement`, Z-report | `open_shift`, `record_cash_movement`, `close_shift` | sums payments and refunds |
| shifts of a terminal (`desktop/…/shifts`, `ui/shell.py`, `ui/shift`) | `l_shifts`, `l_cash_movements`, its payments | open, cash movement, count, Z-report | the outbox; the server counts the same drawer again |
| floor (`backend/apps/floor`) | `Table`, `TableSession` | open, close, transfer, `merge_sessions` | orders name a session |
| inventory, recipes, purchasing, suppliers (`backend/apps/…`) | `StockLevel`, `StockMovement`, counts, receipts, returns, `PurchaseOrder`, `SupplierLedgerEntry` | `apply_movement`, `adjust`, `consume_for_sale`, `post_receipt`, `post_return`, `post_count`, `record_ledger_entry` | settlement consumes, receipts bill the supplier |
| play area (`backend/apps/kids`, `desktop/…/kids`) | `PlaySession`, `l_play_sessions` | `check_in`, `check_out`, `bill_session`, `change_tariff`, override | charges an order; the terminal's sessions travel as operations |
| play pricing (`backend/apps/core/play_pricing.py` and its copy) | none | `compute_charge` | both sides quote by it |
| licences (`backend/apps/licensing`, `desktop/…/bootstrap.py`, `license_gate.py`, `offline_token.py`) | `License`, `Device`, the stored token, the ratchet | activation, heartbeat, the gate, what an administrator does | the terminal starts on the gate's decision |
| offline orders (`desktop/…/orders`) | local events, projection, payments | `open_order`, edits, `take_payment`, `fold`, `reload` | the outbox; the puller adds events of other devices |
| attendance (`backend/apps/hr`) | `Attendance`, `AttendanceEvent` | `check_in`, `check_out`, `amend` | the timesheet is computed from it |
| configuration (`backend/apps/configuration`) | `SettingValue`, the cache of overrides | `resolve`, `set_value`, `reset` | read by every service |
| bills (`backend/apps/core/money.py` and its copies, `orders/services.py`, `desktop/…/orders/fold.py`) | lines, discounts, rules snapshotted at the opening | `compute_order`; every event changes the figures on both sides | the terminal quotes, the server books |
| notifications (`backend/apps/notifications`) | `SentAlert`, `PushSubscription` | `evaluate`, `claim`, `deliver`, subscribe | reads most services; a push service |
| backups (`backend/apps/ops`) | `BackupRecord`, files | `create`, `prune`, the nightly task | an alert looks at the last record |
| sessions (`backend/apps/accounts`, `desktop/…/api`, `frontend/src/api/client.ts`) | access and refresh tokens, who renews them | start, sign in, the interceptor, the tick | every request |
| reporting (`backend/apps/reporting`) | `SalesDaily`, `ProductDaily`, `HourlyDaily` | `build_day` by the nightly task, by a rebuild and by a report; the reports | reads orders, payments, refunds |
| the rest | reference data, permissions, printing | mostly single-row | `PROJECT.json` names each with the reason it is left out |

What is hard here: every push may be lost, repeated or cut short at any of its
transactions; a request may still run when its terminal has given up on it;
several tills, the kitchen and a manager act on one order, some under its row
lock and some not; a cursor must not pass what is still being committed; and
many services read a row without a lock, decide, and save later. What must be
true of each component:

* **push** – nothing confirmed is missing from the books, nothing with a key is
  in them twice, the row's status agrees with the books and with the terminal,
  everything queued settles;
* **orders, payments, kitchen** – money adds up, the receipt stays true, stock
  leaves once, no line is cooked twice, the order's status follows its tickets
  and never leaves a terminal state;
* **feed** – a terminal shows the committed rows, replays the log in order, and
  skips nothing;
* **invoice serials** – blocks are disjoint, untouched by others and without
  holes; **order numbers** – unique without coordination;
* **shifts** – one open drawer per till, and a frozen report that equals its
  rows, on both sides the same drawers; **floor** – one party per table, merges
  that end somewhere;
* **stock and suppliers** – level and balance are the sums of their ledgers, an
  order that arrived is closed;
* **play area** – no more children than places, each wristband once, each visit
  billed once, a price that never falls;
* **offline orders** – what the cashier did is what will be sent, whenever the
  program dies, and an order that ended stays ended;
* **attendance** – a row and its trail tell one story, and who arrived is there;
* **configuration** – what is served was decided, and is the last decision once
  all is quiet;
* **licences** – no more devices than seats, and a terminal that takes its own
  fresh token;
* **bills** – a total within its roundings of the exact one, and the same on
  both sides;
* **notifications** – nobody is told twice; **backups** – what the rotation
  promises to keep is on disk; **sessions** – a client that is refused gets
  through again;
* **reporting** – each sale is reported once, whoever builds a day beside whom.

`PROJECT.json` lists the hazards one by one, at their lines.

## 2. Modules

| Module | Models |
|---|---|
| `DeliveryLedger` | abstract: operations are submitted, entered at most once, confirmed only when entered |
| `SyncPush`, `MCSyncPush` | outbox, network, `apply_push`, handlers, conflicts, humans |
| `OrderDesk` | one order on the server: lines, firing, tickets, payments, refunds, void |
| `Money` | how a bill is computed, and what it comes to when nothing is rounded |
| `Bill` | one order priced on the terminal and again on the server |
| `DayReports` | rollups of business days, who builds them, and reports read from them |
| `MCOrderDesk` | `OrderDesk`, `Bill` and `DayReports` side by side |
| `ChangeFeed`, `MCChangeFeed` | one stream: writers, change log, terminals |
| `InvoiceSerials` | numbers of a branch: blocks of tills, browsers, roll-back |
| `ShiftDrawer` | shifts, orders on them, cash, the close and its report |
| `StockRoom` | stock, recipes, purchasing and the supplier's statement |
| `DiningFloor` | tables, parties, their orders, waiters |
| `Attendance` | one person's punches, their corrections and the trail |
| `Settings` | one setting through its scopes, its cache, readers and writers |
| `MCBackOffice` | the six above (from `InvoiceSerials` on) and `ChangeFeed` side by side |
| `PlayArea` | play sessions on the server and on terminals |
| `PlayPricing` | the price of a visit, minute by minute |
| `OfflineTill` | an order's event log on a terminal, its projection and outbox |
| `TillDrawer` | a terminal's drawer as the terminal and as the server count it |
| `Licence` | seats, tokens, the gate |
| `Alerts` | sweeps that claim and push alerts |
| `Backups` | backup runs and their retention |
| `MCTerminals` | the seven above (from `PlayArea` on) side by side |
| `Sessions` | access tokens of terminals and browsers |
| `OrderNumbers`, `MCOrderNumbers` | readable order numbers on both sides |
| `SyncPushProofs`, `SyncPushRefinement`, `OrderDeskProofs`, `ChangeFeedProofs`, `InvoiceSerialsProofs`, `BackOfficeProofs`, `OfflineTillProofs`, `TerminalProofs` | theorems (section 4) |

The components of `MCBackOffice` share no state, nor do those of `MCTerminals`
and `MCOrderDesk`: the code lets them touch only through a call whose outcome is
a choice here (a settlement that fails rolls its block back, whatever failed).
So one behaviour moves one component, named by the variable `focus`, and the
state space is the sum of the components and not their product. Workers,
requests, waiters, readers and writers share their names in `MCBackOffice`, as
do shifts, parties, administrators and terminals, so that a permutation of the
names is a symmetry of every component at once. Components that do interact are
in one module: the pusher and the server, orders and kitchen and payments, the
feed and its terminals, terminals and the server's play area.

### SyncPush

An element of `Ops` is an `op_uuid`; `Operation[op]` is what the terminal wrote
in the row and never changes. One TLA+ action is one database transaction or one
message:

* terminal: `Enqueue`, `SendBatch` (`pending` and the POST), `Receive`
  (`_apply_results`, possibly cut short by a kill), `TimeOut` (`_defer_all`),
  `Refused` (401/403), `Restart`, `BackoffEnds`, `Requeue`;
* network: `Drop`, `Forget`; a request the terminal gave up on goes on running;
* server: `Claim` (`get_or_create` created the row), `Replay` (it found it),
  `Handle`, `ApplyEvent` (the row lock inside `apply_events` is granted later
  than the handler's own checks), `Save`, `Crash` between any two of them;
* humans: `Look`, `Settle`, `Retry`, `RetryFails` for `resolve_conflict`.

`order_open`, `order_event` and `payment` have their own handlers in the model.
The others differ, for what is checked here, only in whether they look for their
own earlier write: "keyed" (`refund`, `shift_open`, `play_check_in`, …) and
"unkeyed" (`cash_movement`, `waste`). A handler that may raise for reasons of its
payload raises nondeterministically. `effects[op]` counts committed business
writes. The variable `retried` only remembers that a human used RETRIED.

An event that finds its order open and unlocked and closed once it has the lock
is REJECTED, not `ORDER_ALREADY_CLOSED`; the model keeps that difference.

### OrderDesk

What the code does under the order's row lock is one action; what it reads
before is another (`AskPayment`, `AskRefund`, `AskVoid`). `void_order` takes no
lock, so `Void` writes CANCELLED over whatever is there. A recalculation may
give any total (`Recalculate`), how it comes about being the subject of `Bill`;
an order without active lines costs nothing. `transition` locks the order
together with the ticket (`select_related`), so the derived status is computed
and saved in one action.

### Bill and Money

`Money` is `compute_order` in whole piasters, with `Whole` parts in a percentage
and `Portion` parts in one of a good (a thousand in the programs).
On the terminal, `events` is the log of the order, `fold` replays it, and an
action of the cashier (`AddToBill`, `OverridePrice`, …) appends to it with the
price of the mirror. `OpenOnServer` and `Enter` are the handlers behind the push:
they take quantities and discounts from the event, and price, exemption and
rules from the server's own rows. Events enter once and in their order here,
which is what `SyncPush` is about; modifiers and the payments of an order that
was repriced are left out. `ExactTotal` and `RoundingError` are a reference
written without rounding.

### DayReports

A builder is a request or a task. `Nightly`, `Rebuild` and `Ask` are its
beginnings; each date it has to build is one transaction: `BuildDay` reads the
totals, `Write` deletes and inserts one table, `CommitDay` shows all three.
Every statement sees what was committed when it began. A deletion waits for
another transaction that deleted the same rows, an insertion for one that
inserted the same key (`Rivals`); when that one commits the waiter goes on
without having seen the rows that came, or fails on the unique constraint
(`Woken`). A report goes on to `ReadRolled`, which takes one table of the closed
days, and `ReadLive`, which counts the rest from the orders. Rows carry the
orders they count in place of sums of their money.

### ChangeFeed

A business transaction saves a row under its lock (`Save`, `Commit`,
`Rollback`); the payload is computed at the save. After the commit the append
draws its seq and its transaction id in two steps and in either order, because
two concurrent INSERTs may interleave between them, and becomes visible at
`Append`. `BelowXmin` is the guard of `visible_changes`. `Answer`, `Apply` and
`Lose` are the pull; rows and cursor move together. A delete is one more value
of a row.

### InvoiceSerials

A settlement is one transaction, so what it wrote stays in `work[s]` until
`Issue` commits it or `Collide` throws it away; `blocks` and `issued` are what
others can see. `TakeNumber` is the `SELECT … FOR UPDATE` on the first open
block; a settlement that meets a lock waits for that row (`WaitForBlock`) and,
as READ COMMITTED does, looks at the condition again on the row it waited for
and on no other (`TakeAfterWait`, `LoseAfterWait`). `LockBranch` is the row of
the branch that serialises allocations, held to the commit. `WebNumber` is the
branch-wide sequence of an order without a device. `TryAgain` is the cashier.

### ShiftDrawer

`close_shift` counts open orders and totals at `BeginClose`, and totals again
for the report at `Close`, holding the shift's row from one to the other. Rows
that name the shift check their foreign key when they commit and wait for that
lock (`MayCommit`); a void names no shift anew and waits for nobody. `CheckOpen`,
`ResolveShift` and `CheckMove` are the reads before an insert.

### StockRoom

A request carries the movements of one transaction (`job[w].todo`), takes each
item's row lock when it comes to it (`Move`) and holds all locks to `Commit`.
`Refuse` is InsufficientStock, `BreakDeadlock` the database's victim. What a
transaction wrote and did not commit is in `job`; `level`, `ledger`, `balance`,
`statement` and `order` are committed. The read of `is_posted` and the level an
adjustment starts from come with the request, before any lock.

### DiningFloor

`LockTable` and `LockSource`/`LockTarget` lock; `ReadToClose`, `CountOrders`
(two queries of one request), `ReadToTransfer` and `ReadPair` only read, and
their writes use what they read. A locked session
is locked together with its table (`select_for_update` over `select_related`).
The history variable `into` remembers merges. `Abandon` stands for every
refusal and for the deadlock's victim.

### PlayArea and PlayPricing

`CheckIn` runs under the lock of the area, `CheckOut` under that of the session;
`Bill` is a transaction of its own on the web and part of the check-out in a
pushed operation. A terminal's own sessions are `here`, its operations arrive in
its order (`DeliverCheckIn`, `DeliverCheckOut`), and the server may refuse them;
a pushed check-out that billing refuses is rolled back whole. Only
`bill_session` writes PLAY_SESSION_CHARGED here: no client of the repository
posts that event to an order itself. What a session is priced at is named by the
tariff and not computed here; `PlayPricing` computes it, as a meter that looks
at every minute, in whole piasters over exact quotients (the program divides
with 28 digits, so a half may fall the other way where a quotient does not end).

### OfflineTill

One call of the cashier is load, check, transaction (`Begin`, `Insert`,
`Enqueue`, `Commit`), fold (`Reload`) and a second transaction for the
projection (`PersistProjection`); a payment that leaves nothing due goes on to
record ORDER_CLOSED. `Kill` may come between any two. `PullEvent` is the
puller's transaction, with the server's number of the event. The fold is
written as what decides the status: the last of the events that move it.

### TillDrawer

The terminal writes its row and queues its operation in one transaction, so the
module keeps one record of both: `answer` is the queue, and the terminal's
payments, movements and shifts are read off it (`Current`, `TakenIn`). `Handle`
is the whole of one operation on the server, in any order, because operations
that were deferred come due each at its own time; what happens inside
`apply_push` is `SyncPush`. `OpenSale` has two forms: the till's own button
carries the drawer, a tap on the floor map does not. A close that the handler
refuses is REJECTED for good, one whose drawer a browser closed is answered
"replayed" and its count is dropped.

What the model shows beside its properties: a payment that comes before its
`shift_open` is booked on no drawer; a close that arrives before an order's last
payment is refused (OPEN_ORDERS_REMAIN, though `dialogs.py:281` lets the cashier
leave a table to the next shift), and then the server's drawer stays open and the
next `shift_open` of that terminal is a conflict; the terminal's own list of
unsettled orders looks for a status that no order has (`shifts/service.py:331`).

### Licence

`BeginActivation` to `FinishActivation` hold the licence's row; a heartbeat is
`Authenticate`, `Admitted` (the middleware, which knows active devices only, so
that a device suspended since loses its credential like a revoked one),
`Beat` (what it read), `AdvanceSeq` (`F("token_seq") + 1`) and
`Stamp` (`refresh_from_db`); `EvaluateGate` is `offline_token.accept` in the order
of its checks and the gate behind it. The administrator's requests read and save
in two steps where the code does. `revived` remembers seats given back to
revoked devices, which the code allows without counting.

What the model shows of this part beside its properties: no code sets EXPIRED;
resuming revives a REVOKED licence; a renewal saves the status it read, over a
suspension that came between; the gate is evaluated at start only; and two
heartbeats may be stamped with one `token_seq`, although the comment in
`licensing/services.py` (line 572) says they never are.

### OrderNumbers

Both sides count the orders of the day and add one. The server keeps a
terminal's printed number, and its day is that of the arrival.

### Attendance

`check_in` and `check_out` hold the row's lock and are one action each.
`amend` works on the copy that `AmendView` fetched (`FetchToAmend`) and saves
the columns of the correction from it. `trail` is the list of `AttendanceEvent`s
of a date.

### Settings

A read is `Query` (a miss) and `Fill`; a hit changes nothing. A write is
`SetValue` (or `FindRow` and `DeleteRow` of a reset), `Invalidate` and
`CommitChange`: the cache is cleared before the commit. `pk` tells a row that
was deleted and inserted again from the one a reset had found; `past` remembers
what was ever committed.

### Alerts

A worker is `Evaluate` (the list), then for each alert `Claim` (the insert under
`uniq_alert_per_subject`, in its own transaction) and one request per
subscription that `recipients` read (`Sent`, `Dropped`, `Refused`), then
`Delivered`. `Unsubscribe` and an answer 404 delete a row that another worker
still holds; `Update` of a deleted row touches nothing. `told` counts what
arrived at a browser.

### Backups

`BeginRun` commits the record, `Dump` and `Write` are the file growing under its
name, `Save` and `Fail` the outcome. The nightly run goes on to `ListDoomed`,
`Unlink` and `Delete`. Months have `MonthLength` days; `taken` remembers every
run that was ever complete, so that what the rotation should have kept is known
after it deleted the wrong thing.

### Sessions

`Start` asks for a terminal's only token, `Tick` pushes with it; `SignIn` gives a
browser its pair, `Renew` is the interceptor and `Answered` everything else a
response leads to. `answer` is the middleware, which catches every TokenError
and goes on as ANONYMOUS.

## 3. Runs

| Run | Instance | Shows |
|---|---|---|
| `push_safety` | one till, two events and a payment, batches of 2, one fault of the network or the till, one crash of a worker | types; SYNCED means entered; statuses match the books; both sides agree; no event over a hole; nothing enters a closed order; refines `DeliveryLedger` |
| `push_settles` | two tills, one with a skewed clock, an opening, a cash movement and a refund, one loss, one retry, fair scheduling | every queued operation settles; nothing is entered twice that has a key or was not retried |
| `push_gap` | the desktop's own numbering, fair, no fault at all | **violated**: the first event of an order is a gap for ever |
| `orders` | two lines, two stations (one auto-accepting), two requests, two keys, totals up to 2, two firings; a bill of two lines and four events over two menus and two sets of rules, of which one changes once; the rollups of one order over two days, two builders and three jobs | money, refunds, receipt, stock, kitchen; a bill within its roundings of the exact amount, and the same in every figure on both sides unless a price or a rule differed; each sale in the reports once |
| `orders_void` | the order alone, with one firing | **violated**: PAID becomes CANCELLED |
| `drawers_differ` | one drawer with a movement of each kind | **violated**: cash paid in counts as cash out on the server |
| `feed_skips` | two writers, one till, pages of 1 | **violated**: a cursor passes a seq in flight |
| `back_office` | two requests each: two items, two receipts, a return, a count; two tills and two settlements over blocks of 2; two shifts of one till or a browser, one order; two tables, two parties, one order; two dates with three events and a manager; a setting in two scopes, two readers and two writers of up to three changes; two writers, two rows, two terminals, pages of 2, three saves, one failure | ledgers replay, an order that arrived is closed; blocks disjoint and without holes; one open drawer, a true report; one party per table, merges end; the trail explains the punches; only committed settings served; mirrors replay, are real, and skip nothing visible |
| `serials_collide` | two tills, two settlements, blocks of 2 | **violated**: a browser takes a number out of a till's block |
| `terminals` | a play area with one place, two visits, two wristbands, one terminal and two clerks; 144 tariffs in three modes and three roundings over 12 minutes; one order of up to 6 events with one kill and one foreign event; two shifts of one terminal with a sale of one payment, a cash movement and one act of a browser; one licence with one seat, two devices and an administrator; one subject, two browsers and two sweeps; two backup jobs over five days, three runs and a kill | places and wristbands; a visit billed once; prices against blocks counted one by one, and never falling; nothing left unsent; an end stays an end; entries on the drawer they were taken into, and no drawer forgotten; seats; own tokens advance; nobody told twice; what is to be kept is on disk |
| `numbers_collide` | one terminal, one web request, two days | **violated**: the second day's first number is taken |
| `token_expires` | one terminal, one browser, one operation, fair | **violated**: what a terminal sold after its token expired stays in its outbox as long as it runs |

**Bounds.** `MaxLosses`, `MaxCrashes`, `MaxResolves`, `MaxSaves`, `MaxFailures`,
`MaxRounds`, `MaxTotal`, `MaxNumber`, `MaxMoved`, `MaxMoves`, `MaxSeq`,
`MaxPulled`, `MaxKills`, `MaxOrders`, `LastDay`, `MaxMinutes`, `MaxTime`,
`Moves`, `MaxCashMoves`, `MaxWebActs`, `Miscounts`, `MaxTokens`, `MaxActs`,
`MaxTrail`, `MaxWrites`, `MaxLines`, `MaxEvents`, `MaxChanges`, `MaxRaised`,
`LastInstant`, `MaxJobs`, `MaxRefused`, `MaxDay`, `MaxRuns`, `MaxKilled` and
`MaxWork` are budgets or ceilings in guards.

* Push: one fault is enough to reach every fault branch, and two requests are
  enough for a request to overlap its own resend; batches of 2 out of 3
  operations split an order's events over batches.
* Orders: two keys and a total of 2 allow a partial payment, a full one and an
  overpayment.
* Reports: an instant on each side of the boundary; two builders that overlap in
  every statement and a third job that reads what they left. One order may be
  sold before, between or after the statements, and counted in any of them.
* Feed: pages of 2 with 3 saves leave a row for a second page and put two
  changes of one row in one page.
* Serials: `MaxNumber = 5` with blocks of 2 leaves room for two blocks and one
  number between or behind them; two settlements are enough to wait for each
  other's block, to allocate at once and to collide.
* Drawer: a total of 2 pays in parts, by cash and by card; two requests put an
  order, a payment or a movement between the two totals of a close.
* Stock: two movements per item let one request build on another's
  `balance_after`, two items sold in both orders deadlock, two receipts of one
  line each complete the order only together.
* Floor: two tables and two parties are a pair to merge in both directions and a
  table to fight for.
* Attendance: three events of a date arrive, correct and arrive again, or leave
  and come back around a correction that was fetched before.
* Settings: three writes set, reset and set one scope again while a reader still
  holds what it found before the first.
* Play: one place and two visits make the last place scarce; 12 minutes reach
  over the covered time, the grace, three blocks and the cap.
* Till: 6 events open, add, fire, pay and close an order with one foreign event
  in any gap.
* Terminal drawers: two drawers may arrive at the server interleaved; one
  payment, one movement and one act of a browser fall before, between and after
  their opening and their count. Every count is right to the terminal, and a
  pay-in makes it wrong to the server.
* Licence: one seat and two devices make the seat scarce; two acts of the
  administrator or the clock suspend and resume, or revoke and revive, around an
  activation or a heartbeat; four tokens are one of each activation and two of
  heartbeats that race.
* Bill: two lines are the least on which a discount of the order, an exempt line
  and a line of its own percentage meet; four events add both and edit twice;
  one change falls before the opening, between opening and event, or after.
  Percentages are out of 50, so that amounts of a few piasters round; a line has
  one of a good, or one and a half.
* Alerts: two sweeps overlap, two browsers make one delivery fail and the other
  arrive, two refusals drop a subscription; the condition may come up twice.
* Backups: months of two days, one day of daily and two months of monthly copies
  over five days prune in every order; three runs put a failed or killed one
  before, between or after two good ones.
* Sessions: one operation is enough to be stuck.

`CHECK_DEADLOCK FALSE` stands in every configuration because the budgets run
out: when everything is settled nothing more has to happen. Request, worker,
key, row, shift, visit, device-name and till identities are symmetric where the
run has no liveness property and no constant tells them apart.

**Fairness** (`SyncPush!Fairness`). The engine ticks on a timer, so sending,
receiving and timing out are weakly fair; clocks advance, so a backoff ends; a
worker that is not killed finishes. No cashier, human or fault is fair, and the
steps that spend a budget are excluded. `ChangeFeed!FairSpec` is the same for
transactions, appends and pulls. `Sessions!SessionsFairness` is a terminal's
timer and a browser that reads its answers; both are strongly fair, because the
link may fail between two ticks, and the link comes back. A refusal (401) in
`SyncPush` spends a loss, so that `EveryOperationSettles` says what happens once
refusals end, which for an expired token is a restart: `Sessions` shows that
nothing less ends them. The other modules have safety properties only: what
would have to happen there waits for a person.

**Violations.** The seven runs that expect a violation are disagreements between
the code and a text of the repository; `PROJECT.json` quotes the text under
`findings`. `EnteredOnce` and `StatusMatchesBooks` speak of operations until a
human retries them, because RETRIED on a clock-skew conflict really does enter a
cash movement again.

**Refuted statements without a run.** These definitions stand in the modules
with the properties that hold; TLC finds each of them false by a short
behaviour. They say what a reader might expect and does not get:

| Definition | What happens instead |
|---|---|
| `SyncPush!CausalArrival` | deferred operations come due in any order, and a payment overtakes its items |
| `SyncPush!EveryOperationSettles` with a crash | a row left PENDING by a killed worker is never healed |
| `OrderDesk!ReadyMeansReady` | READY stays when a ticket is recalled |
| `ChangeFeed!EveryTerminalCatchesUp` | a failed append, or two in the wrong order, leaves the older row with every terminal |
| `ShiftDrawer!ClosedShiftHasNoOpenOrders` | an order that picked its shift before the close is opened on it afterwards (`docs/08-roadmap.md` rules it out) |
| `Bill!TillAndServerAgree` | a price changed before the event arrived, or one of the order's channel, gives the server another total than the till's ("the same numbers the server will produce", `fold.py:5`) |
| `DayReports!TodayIsNeverRolledUp` | a manager's rebuild takes any range, and the rows of the day in progress stand until it is built again (`reports.py:41`) |
| `StockRoom!PostedOnce` | two requests read `is_posted` and both post (the tests post one after the other) |
| `DiningFloor!NoBillIsLeftBehind`, `BoardIsTrue` | an order put on a session between the count and the save stays on a closed one; two closes free a table twice, the second under a new party |
| `PlayArea!CheckOutResolves` | a check-out that requires a verified guardian is refused when it comes from a terminal |
| `OfflineTill!PaidOrderCloses` | a kill, or a line voided after a part payment, leaves a paid order open ("the order closes at zero balance", `orders/service.py`) |
| `Settings!QuietCacheIsCurrent` | `set_value` and `reset` clear the cache before they commit, and a reader puts the old value back (`resolver.py:227`) |
| `Attendance!ArrivalOpensTheRow` | a second arrival of the day leaves a row that a manager closed as it is (`hr/services.py:88`) |
| `Alerts!TriedAgain` | the row that stops a second alert also stops the first from being tried again (`notifications/services.py:37`) |
| `Backups!FailureIsTold` | a run that was killed stays RUNNING, which is neither missing nor failed (`alerts.py:250`) |
| `Sessions!NobodyIsTurnedAway` | the interceptor waits for TOKEN_EXPIRED, and the middleware has made it NOT_AUTHENTICATED (`client.ts:83`) |
| `Licence!FreshTokenIsAccepted` | a terminal activated under a second licence has a ratchet ahead of its new tokens |

## 4. Proofs

TLAPS proves, for any number of terminals, orders, operations, requests, humans,
lines, stations, keys, settlements, tables, parties, waiters, writers, rows,
shifts, items, builders, days, visits, licences, devices, sweeps, backup jobs
and scopes and for any value of the bounds, every property of the passing runs
but the one that is about liveness (below):

| Theorem | Property |
|---|---|
| `SyncPushProofs!Typing` | `TypeOK` |
| `SyncPushProofs!NothingIsLost` | `SyncedIsEntered` (what the refinement needs; no run states it apart) |
| `SyncPushProofs!NothingIsDoubled` | `EnteredOnce` |
| `SyncPushProofs!StatusIsTrue` | `StatusMatchesBooks` |
| `SyncPushRefinement!BothSidesAgree` | `TerminalAgrees` |
| `SyncPushRefinement!EventsFollowEachOther` | `AppliedWithoutHoles` |
| `SyncPushRefinement!ClosedStaysClosed` | `NothingEntersAClosedOrder` |
| `SyncPushRefinement!Refines` | `ImplementsLedger` |
| `OrderDeskProofs!Typing`, `OrdersTyping` | `TypeOK`, `MCOrderDesk!TypesOK` |
| `OrderDeskProofs!MoneyHolds`, `MoneyBalancesHolds` | `MoneyAddsUp` and `RefundsWithinPaid`, which are `MoneyBalances` |
| `OrderDeskProofs!ReceiptIsTrue`, `StockLeavesOnce` | `InvoiceMatchesOrder`, `SettledOnce` |
| `OrderDeskProofs!CookedOnce`, `ReadyInTime` | `NoLineCookedTwice`, `ReadyWhenAllReady` |
| `OrderDeskProofs!RoundingHolds` | `RoundingIsBounded` |
| `OrderDeskProofs!BillsAgree` | `BillsAgreeUnlessRepriced` |
| `OrderDeskProofs!ReportsTruth` | `ReportsAreTrue` |
| `ChangeFeedProofs!FeedTyping` | `TypeOK` |
| `ChangeFeedProofs!NothingUncommittedIsShown`, `MirrorsReplay` | `MirrorIsReal`, `MirrorIsReplay` |
| `ChangeFeedProofs!PagesSkipNothing` | `VisibleIsNotSkipped` |
| `InvoiceSerialsProofs!SerialsTyping` | `SerialsTypeOK` |
| `InvoiceSerialsProofs!NoNumberIsReservedTwice`, `NoNumberIsSkipped` | `BlocksAreDisjoint`, `NoNumberIsLost` |
| `BackOfficeProofs!NoTableIsShared`, `MergesDoNotMeet` | `OnePartyPerTable`, `MergesEndSomewhere` |
| `BackOfficeProofs!StockAddsUpHolds`, `DrawersAddUpHolds` | `StockAddsUp`, `DrawersAddUp` |
| `BackOfficeProofs!TrailExplainsPunchesHolds`, `ServedWasCommittedHolds` | `TrailExplainsPunches`, `ServedWasCommitted` |
| `BackOfficeProofs!BackOfficeTyping` | `MCBackOffice!TypesOK` |
| `OfflineTillProofs!NothingStaysUnsent`, `NothingAfterTheEnd` | `NothingIsLeftUnsent`, `NoEditAfterTheEnd` |
| `OfflineTillProofs!TheEndIsFinal` | `EndIsFinal` |
| `OfflineTillProofs!OneDrawerTwoBooksHolds` | `OneDrawerTwoBooks` |
| `TerminalProofs!RoomStaysSafe`, `VisitsAreBilledOnce` | `RoomIsSafe`, `BilledOnce` |
| `TerminalProofs!BlocksAreChargedHolds` | `BlocksAreCharged` |
| `TerminalProofs!PlanAndTokensAreHeld` | `PlanAndTokensHold` |
| `TerminalProofs!ToldOnceHolds`, `SurvivorsReachHolds` | `ToldOnce`, `SurvivorsReach` |
| `TerminalProofs!TerminalsTyping` | `MCTerminals!TypesOK` |

A theorem about a component is stated of its own specification. The runs check
compositions; `EachBehaves` in `OrderDeskProofs`, `BackOfficeProofs` and
`TerminalProofs` shows that a behaviour of the composition is one of every
component, which carries the theorems over. The theorems `OrdersTyping`,
`MoneyBalancesHolds`, `BackOfficeTyping` and `TerminalsTyping` are the ones
stated of a composition.

**Assumptions.** What the modules declare about their constants: operations have
the fields they have (`OperationAssumption`), bounds are natural numbers, a block
and a page have at least one entry, the value that stands for "none" is none,
menus, rules, quantities and percentages have the types and ranges of their
columns and settings (`ShopAssumption`), and
idempotency keys are finitely many (`KeysAssumption`, without which the sum of
the payments would mean nothing). Three say something about the program: a
terminal never uses a `sync_sequence` twice (`SequenceAssumption`, without which
a request would have no next operation); only the terminal that minted an
order's UUID opens it (`MintAssumption`, without which two operations would claim
one opening); and an order, a receipt and a return have at least one line
(`StockAssumption`; the services refuse empty ones: `purchasing/services.py`,
lines 45, 81 and 171). `BatchSize` and the set `Skewed` are arbitrary.

**The push.** `EnteredOnce` is not inductive: a handler without a key of its own
(`cash_movement`, `waste`) enters again whenever it runs again, so one has to
know that it runs once. `PushInv` says why. Its parts:

* `Batches`: a request carries operations of one terminal, which have been
  queued; with `SequenceAssumption` its next operation is unique;
* `Workers`: while a worker is between the row and the status of an operation
  (`Working`), it is `Alone`: no other worker is on that operation, and until a
  human retries it the row is PENDING, nothing is entered unless the outcome is
  already APPLIED. This holds because `get_or_create` lets only one request
  create the row and a row that exists is only replayed, never handled again;
* `Openings`: the opening of an order is entered exactly when the order is
  there, which is what makes the look-up by order id an idempotency key;
* `Truthful`: an outbox, a row or a response says APPLIED only of what is
  entered, whichever request the response belongs to;
* `Queued`: nothing reaches the server or a human that was not queued;
* `EnteredOnce` and `StatusMatchesBooks` themselves.

`AdvancedKeeps` is the heart: the handler's transaction moves the worker from
"nothing entered" to "outcome APPLIED and entered" at once, because the
savepoint ties the return value to the writes. From `PushInv` follows
`FinalStays`, that a final row is not written again until a human retries it;
on it rest `Agreed` (what responses and terminals say is what the row says) and
`Unbroken` (an event that passed the check for a gap keeps its predecessors
until its status is saved, though neither lock nor transaction spans the two).

**The refinement.** `Enqueue` is `Submit`, the handler's or human's transaction
is `Enter`, `Receive` is `Confirm`, everything else a stutter. Beside `PushInv`
it needs `Flights`: what a terminal waits for is its own and still PENDING in
its outbox, so a late response cannot take back what was confirmed.

**The order.** `ReceiptStands` adds to the two properties that an order with an
invoice is in a terminal state: totals change only in mutable states, money is
taken only in states that are not terminal, and even the unlocked write of
`void_order` leaves a terminal state behind. `LinesOnce` adds that a line on a
ticket is stamped as fired and that no ticket belongs to a firing to come.

**The money.** Every action adds one payment or one refund, or none, so all that
`MoneyInv` needs is what a sum does when one of its amounts grows (`SumsGrow`).
The sum over a set is a recursive function that picks its elements in an order
nobody knows. `SumsExist` shows that there is such a function, `KeyByKey` proves
a statement about all sums by its least counterexample, the smallest set of keys
for which it fails (`Least`, from the well-foundedness of the numbers).

**The bill.** `BillsAgreeUnlessRepriced` compares a fold over the whole log with
a row that was changed event by event. `EventByEvent` turns the fold into a
trace: the order as it was after each event. The server's row is then `Alike` the
trace at the number of events it has entered (`Steps`): quantities, discounts,
overrides and voids agree line by line and only what was looked up may differ;
every event fits the order it was recorded on (`EventFits`), so the two sides
never disagree on whether its line exists. When all is entered and nothing was
looked up differently, both hand the same lines to `compute_order`.

**The roundings.** `RoundingIsBounded` is about one computation, not about
steps: `BillInv` only has to know that the lines have the types they have.
`Within` says how far a whole number is from a quotient. A rounding is within a
half (`RoundedIsWithin`); the lemmas around it carry such a bound through a
factor, through a second rounding and through a division. A line is rounded
where its quantity is not whole, and again for its discount (`LineIsWithin`);
`LinesAddUp` adds the lines up, by the same least counterexample as the
payments. `BillIsWithin` chains discount, service, taxable base, tax and step;
multiplying by the net instead of dividing by it, and counting in the parts of a
quantity (`InParts`), is what lets the SMT solver follow.

**The reports.** `RowsFit` is what every reader may count on: a row counts sales
of its own day under its own key, and no key is there twice. `BuiltIsOver` is why
a report may take a closed day from its rows: they were written when the day was
over, and then its sales no longer change. For the transactions in between,
`BuildFits` says what each table of an open transaction will be, and
`OneInserts` and `WaitersLose` say why the last to commit does not add its rows
to another's: of two that write one table of one day only one has inserted, and
whoever waits for it clashes with it and fails. `Promise` carries through the
builds of a request what it was asked for: each day is built, in progress or
still to do.

**The feed.** `FeedInv` says what a writer knows (`WritersKnow`: it saves the
next value of a row it holds, and appends a value that was committed), that a
seq is drawn once and is on one row (`SeqsAreUnique`), and that a cursor lies
behind the page on its way and not before what was handed (`CursorsFit`). So a
page only adds seqs above all that the terminal has, and the last of them wins
in the mirror as it does in the log. `PagesSkipNothing` is an action property: a
page ends at the last seq it carries, and what was visible below that seq is in
it (`PageSkipsNothing`), so only the page that was answered may move a cursor,
and never over a visible row. What is not yet visible is another matter, and the
run `feed_skips`.

**The numbers.** `BlocksAreDisjoint` speaks of committed rows, and the danger is
a block that nobody sees yet. `SerialsInv` follows it: whoever holds a new block
holds the branch until its commit, and the block lies behind every committed
block (`HoldsNewBlock`); whoever works on an old one holds its row
(`HoldsOldBlock`), so the number in its hands is the row's `next_unused` and
every earlier one is on an invoice (`NumberIsNext`). That a collision gives the
number back is then the roll-back itself.

**The floor.** `SeatsAreHeld`: who is about to seat a party holds the table
alone and found it free, and a transfer needs that lock too. `PartiesCome`: a
merged party is closed and no step opens it again, so a second merge of the
pair finds one of them closed whoever locked first.

**The stock.** A ledger that replays is a chain: each entry continues the balance
before it (`ReplaysIsChain`). `JobsAreSound`: what a transaction wrote continues
the committed balance of its item, because it holds the row's lock from its first
entry to its commit, so that committing joins two chains (`ChainsJoin`), however
many requests are open. A receipt bills before it saves the order's status, and
from the bill on it holds the supplier's row; that lock alone makes the status
it computed still right when it commits. The rollback of a deadlock's victim
takes nothing that was seen.

**The drawer.** `CloseHolds`: from `BeginClose` to `Close` the shift stays open,
none of its orders is open and its expected cash is the one first read, because
a row that names the shift cannot commit under the lock. `ReportIsFinal`: the
sales of a report are over, so no later payment belongs to it; with `SameSum`
(a sum is not changed by what is not in it) the frozen figures stay those of the
rows.

**Attendance.** `Events` types the trail. A row that exists begins with an
arrival, and a copy that a manager holds is of a row that exists; so the three
writers each leave a row and an event that explain each other.

**The settings.** `ServedWasCommitted` speaks of readers that already answered.
`QueriesWereCommitted` says the same of a query still in flight, and the table
of now is one of the past (`stored \in past`): what a reader is about to put
into the cache was committed once, although it may be overtaken.

**The till.** `TxFits`: an open transaction holds one event, numbered behind all
others of its order, and its operation, because BEGIN IMMEDIATE keeps the puller
out until the commit; so event, payment and operation become visible together.
`StillOpen`: a call writes to an order this terminal did not end, also when it
goes on from a payment to the closing. `FoldTakesTheLast` and `EndedIsTerminal`
carry `EndIsFinal`: an order folds to a terminal state exactly when some event
of it ends it, wherever the events of other devices land, because firing moves a
DRAFT or OPEN order only. `RowsAreFolds` adds that the projection holds statuses
and amounts the fold can have.

**The drawer, counted twice.** Operations arrive in any order, so nothing can be
said of the server's books from the queue alone. `TillDrawerInv` relates them:
the number of a payment or movement is new (`NumbersAreTaken`), what was
answered is what was booked (`AnswersFit`), a sale is opened once and the
server knows no other (`SalesOpenOnce`), money names a sale that was opened
(`MoneyIsForASale`), and one drawer is open on the server (`OneIsOpen`), which
is the drawer an entry falls on.

**The play area.** `RoomIsSafe` counts; what has to be carried is that the
children in the room are finitely many (`RoomIsCounted`), since the number of
visits is not bounded. `BilledOnce` needs `BillsArePending`, that a closed
session is waiting for one bill at most, and has no line while it does; and
`CheckInsAreNew`, that the check-in of a visit is queued once, at the
terminal that minted it, and comes to a server that does not know the visit.

**The meter.** Each rounding is a quotient of two natural numbers; `Quotients`
and `RoundedUp` say where it lies. `BlocksAreCounted` shows that the number of
blocks begun is the overrun divided and rounded up, `OverrunGrows` and
`ExtraGrows` that a minute more never costs less.

**The licence.** `SeatsCounted` are the devices in use or about to be, less those
an administrator revived, which the code does not count; `SeatsAreHeld` bounds
them because an activation counts under the licence's lock and takes its seat
under the same lock (`LocksAreRequests`). `RatchetFollows`: a token's number is
one the licence gave out, and a ratchet that has heard of one licence only is no
further than that licence and the terminal's own token of it. `OwnTokensAdvance`
is stated for such a terminal: with tokens of two licences a ratchet compares
numbers of different counters (`FreshTokenIsAccepted`, above).

**Alerts and backups.** `ClaimIsTheRow`: who delivers holds the row of its
subject, alone, and has not yet told the phones on its list. `DoomedAreSpare`:
what a pruning has listed is none of the `Survivors` of all that was ever taken;
since fewer copies to choose from keep more of them (`FewerKeepSurvivors`), a
run that completes in between, or a second pruning beside it, does not make the
list wrong.

**Only model-checked.** `EveryOperationSettles`, because liveness under fairness
is out of the prover's reach, and what the violation runs show. The `RECURSIVE`
operators that the prover refuses do not occur in these modules. A recursive
function can be reasoned about through its least counterexample, as for the
money, where an induction theorem with an operator for its parameter could not
be cited.

**What the proofs changed in the model.** With three builders of one day,
`DayReports` let one wait for ever for another that had failed itself; whoever
waited for it now tries again (`Losers`, `Freed`). `OwnTokensAdvance` was false
with two licences and is stated for a terminal that knows one. `StockAssumption`
was too weak: an order of no lines is RECEIVED before anything arrives.
`Replays`, `ReportIsTrue` and `TrailExplainsPunches` say entry by entry what
they said before. The lines that are charged are a function of their numbers and
no longer a filtered sequence, and the sums over them are `SumFunction`: no
total depends on the order of the lines, and a sum over a set can be reasoned
about.

**Taken from PostgreSQL and SQLite.** Row locks are held to the end of their
transaction; READ COMMITTED looks at a condition again on a row it waited for; a
foreign key to a locked row waits; a deadlock ends with one victim rolled back;
a unique index lets the first commit through; what was committed stays so.
`BEGIN IMMEDIATE` admits one writer.

## 5. Plan

Done: the push with its refinement, orders with kitchen and payments, the feed,
invoice and order numbers, drawers on both sides, stock with purchasing and
suppliers, the floor, the play area and its prices, the offline till, licences,
attendance, settings, bills, alerts, backups, sessions, reports. What is left:

1. *Proofs*: the step lemmas that `EveryOperationSettles` would rest on, such as
   that a retry never undoes progress; the theorems of what is modelled next.
2. *Abstract specifications*: `Drawer` (money in, money out, one close) for
   payments and shifts, `Feed` (a log and readers that replay a prefix) for
   `ChangeFeed`.
3. *Composition*: `OfflineTill` with `SyncPush`, so that the numbering of
   `DesktopSale` is derived and not given.
4. *The print spooler* (retries and lost jobs) of the desktop, and the *web till*
   (a tap that times out and comes again under a new id).
5. *Costs*: the weighted average of stock against a reference.

## 6. Not modelled

* Reference data and organizations: single rows without a protocol; the feed
  models how they reach the terminals.
* Identity and permissions, audit: decisions of one request.
* Printing of the server: templates on which no sale depends.
* Of reporting, money and quantities (sums over the orders a row counts) and the
  reports on stock, play and suppliers. An order that is settled, or arrives,
  after its day was last rebuilt is in no rollup ("the ledger is right and the
  rollup is a bug", `reporting/models.py`), which is why `TablesAgree` speaks of
  days whose orders were closed when they were built. A boundary that changes
  counts the hours between the old and the new one twice or not at all.
* Of notifications, the rules and quiet hours. The counter of a subscription's
  failures is read and written back, so two sweeps may count one refusal; an
  alert whose key holds a count is silent when the count comes again.
* Of backups, the archive, the restore and the download. A kill between the
  removal of a file and of its record leaves a COMPLETE record without a file
  until the next prune.
* Of sessions, families and reuse of refresh tokens, PINs and step-up approvals.
* Of attendance, the rota and the timesheet; of configuration, the definitions.
  Two amendments at once lose the first correction from the row, and one may put
  a departure before an arrival it had not seen; two writes of a setting may
  name the same old value in the history. The repository says nothing of either.
* The print spooler (ten jobs that no printer takes stand at the head of
  `pending` and keep the rest waiting, `spooler.py:98`), sign-in of the desktop,
  receipt layout, the web till (it mints an id per tap, `pos.ts:16`, and keeps
  the last answer), deployment.
* Inside modelled components: modifiers, step-up approvals, payment methods,
  units and costs of stock, ages and guardians, licence keys and signatures,
  reservations (a status no code sets).

`PROJECT.json` says for each component what is left out of it.
