----------------------------- MODULE ChangeFeed -----------------------------
(***************************************************************************)
(* One stream of one branch: server rows that transactions save, the       *)
(* change log they append to after their commit (backend sync/changelog.py *)
(* and receivers.py), and the terminals that pull it with a cursor         *)
(* (sync/services.py pull, desktop sync/puller.py).                        *)
(*                                                                         *)
(* The value of a row is the number of times it was saved.  A transaction  *)
(* has an id once it wrote; pg_snapshot_xmin is the oldest id in flight.   *)
(***************************************************************************)
EXTENDS Integers, FiniteSets

CONSTANTS
    Entities,    \* rows of the models that feed the stream
    Writers,     \* requests that save them
    Terminals,     \* terminals of the branch
    NoWriter,
    Limit,       \* pull_page_size
    MaxSaves,    \* bound: transactions that save a row
    MaxFailures  \* bound: appends that fail, or whose process dies first,
                 \* and responses that are lost

ASSUME FeedAssumption ==
    /\ NoWriter \notin Writers
    /\ Limit \in Nat \ {0}
    /\ MaxSaves \in Nat /\ MaxFailures \in Nat

VARIABLES
    committed,   \* the value of each row
    held,        \* who holds the row lock
    stage,       \* where each writer is
    change,      \* the entity and the value each writer saved
    xid,         \* the transaction id each writer is in flight with, 0 if none
    seq,         \* the seq each writer drew, 0 if none
    next_xid, next_seq,
    log,         \* sync_change_log
    cursor,      \* of each terminal
    mirror,      \* the rows each terminal has
    response,    \* the page on its way to each terminal
    handed,      \* history: the seqs each terminal was handed
    saves, failures

writers == <<stage, change, xid, seq>>
devices == <<cursor, mirror, response, handed>>
vars    == <<committed, held, writers, next_xid, next_seq, log, devices, saves, failures>>

Stages == {"idle", "saving", "appending"}
LogRows   == [seq : Nat, txid : Nat, entity : Entities, value : Nat]

TypeOK ==
    /\ committed \in [Entities -> Nat]
    /\ held \in [Entities -> Writers \cup {NoWriter}]
    /\ stage \in [Writers -> Stages]
    /\ change \in [Writers -> [entity : Entities, value : Nat] \cup {NoWriter}]
    /\ xid \in [Writers -> Nat]
    /\ seq \in [Writers -> Nat]
    /\ next_xid \in Nat \ {0} /\ next_seq \in Nat \ {0}
    /\ log \subseteq LogRows
    /\ cursor \in [Terminals -> Nat]
    /\ mirror \in [Terminals -> [Entities -> Nat]]
    /\ \A d \in Terminals :
          \/ response[d] = NoWriter
          \/ /\ response[d].rows \subseteq log /\ Cardinality(response[d].rows) <= Limit
             /\ response[d].cursor \in Nat
    /\ handed \in [Terminals -> SUBSET Nat]
    /\ saves \in 0..MaxSaves /\ failures \in 0..MaxFailures

Init ==
    /\ committed = [e \in Entities |-> 0]
    /\ held = [e \in Entities |-> NoWriter]
    /\ stage = [w \in Writers |-> "idle"]
    /\ change = [w \in Writers |-> NoWriter]
    /\ xid = [w \in Writers |-> 0]
    /\ seq = [w \in Writers |-> 0]
    /\ next_xid = 1 /\ next_seq = 1
    /\ log = {}
    /\ cursor = [d \in Terminals |-> 0]
    /\ mirror = [d \in Terminals |-> [e \in Entities |-> 0]]
    /\ response = [d \in Terminals |-> NoWriter]
    /\ handed = [d \in Terminals |-> {}]
    /\ saves = 0 /\ failures = 0

-----------------------------------------------------------------------------
(* The server.                                                             *)

\* A transaction saves a row.  post_save computes the payload now, and
\* record keeps it for on_commit.
Save(w, e) ==
    /\ stage[w] = "idle" /\ held[e] = NoWriter /\ saves < MaxSaves
    /\ saves' = saves + 1
    /\ held' = [held EXCEPT ![e] = w]
    /\ stage' = [stage EXCEPT ![w] = "saving"]
    /\ change' = [change EXCEPT ![w] = [entity |-> e, value |-> committed[e] + 1]]
    /\ xid' = [xid EXCEPT ![w] = next_xid]
    /\ next_xid' = next_xid + 1
    /\ UNCHANGED <<committed, seq, next_seq, log, devices, failures>>

Unlock(w) == held' = [e \in Entities |-> IF held[e] = w THEN NoWriter ELSE held[e]]

CommitSave(w) ==
    /\ stage[w] = "saving"
    /\ committed' = [committed EXCEPT ![change[w].entity] = change[w].value]
    /\ Unlock(w)
    /\ stage' = [stage EXCEPT ![w] = "appending"]
    /\ xid' = [xid EXCEPT ![w] = 0]
    /\ UNCHANGED <<change, seq, next_xid, next_seq, log, devices, saves, failures>>

\* Fault of record: the append does not wait for the commit.
RollbackAppends(w) ==
    /\ stage[w] = "saving"
    /\ Unlock(w)
    /\ stage' = [stage EXCEPT ![w] = "appending"]
    /\ xid' = [xid EXCEPT ![w] = 0]
    /\ UNCHANGED <<committed, change, seq, next_xid, next_seq, log, devices, saves, failures>>

Rest(w) ==
    /\ stage' = [stage EXCEPT ![w] = "idle"]
    /\ change' = [change EXCEPT ![w] = NoWriter]
    /\ xid' = [xid EXCEPT ![w] = 0]
    /\ seq' = [seq EXCEPT ![w] = 0]

\* Nothing is appended for what is rolled back.
Rollback(w) ==
    /\ stage[w] = "saving"
    /\ Unlock(w)
    /\ Rest(w)
    /\ UNCHANGED <<committed, next_xid, next_seq, log, devices, saves, failures>>

\* on_commit: one INSERT in a transaction of its own.  It draws a seq and a
\* transaction id, in an order that is the database's, and its row appears
\* when it commits.
DrawSeq(w) ==
    /\ stage[w] = "appending" /\ seq[w] = 0
    /\ seq' = [seq EXCEPT ![w] = next_seq]
    /\ next_seq' = next_seq + 1
    /\ UNCHANGED <<committed, held, stage, change, xid, next_xid, log, devices, saves, failures>>

DrawXid(w) ==
    /\ stage[w] = "appending" /\ xid[w] = 0
    /\ xid' = [xid EXCEPT ![w] = next_xid]
    /\ next_xid' = next_xid + 1
    /\ UNCHANGED <<committed, held, stage, change, seq, next_seq, log, devices, saves, failures>>

AppendRow(w) ==
    /\ stage[w] = "appending" /\ seq[w] # 0 /\ xid[w] # 0
    /\ log' = log \cup {[seq |-> seq[w], txid |-> xid[w],
                         entity |-> change[w].entity, value |-> change[w].value]}
    /\ Rest(w)
    /\ UNCHANGED <<committed, held, next_xid, next_seq, devices, saves, failures>>

\* The append raises, which is logged, or the process dies before it.
AppendFails(w) ==
    /\ stage[w] = "appending"
    /\ failures < MaxFailures
    /\ failures' = failures + 1
    /\ Rest(w)
    /\ UNCHANGED <<committed, held, next_xid, next_seq, log, devices, saves>>

-----------------------------------------------------------------------------
(* The terminals.                                                          *)

InFlight == {xid[w] : w \in Writers} \ {0}

\* txid < pg_snapshot_xmin(pg_current_snapshot()).
BelowXmin(row) == row.txid < next_xid /\ \A x \in InFlight : row.txid < x

Visible(d) == {row \in log : row.seq > cursor[d] /\ BelowXmin(row)}

\* The first Limit rows by seq.
IsPage(rows, d) ==
    /\ rows \subseteq Visible(d)
    /\ \A row \in rows, other \in Visible(d) \ rows : row.seq < other.seq
    /\ \/ Cardinality(rows) = Limit
       \/ Cardinality(rows) < Limit /\ rows = Visible(d)

\* Fault of pull: the cursor is the head of the stream.
HeadOf(rows, d) ==
    IF rows = {} THEN cursor[d]
    ELSE CHOOSE n \in {row.seq : row \in Visible(d)} : \A row \in Visible(d) : row.seq <= n

\* The cursor is the seq of the last row in the response.
LastOf(rows, d) ==
    IF rows = {} THEN cursor[d]
    ELSE CHOOSE n \in {row.seq : row \in rows} : \A row \in rows : row.seq <= n

\* pull: a terminal asks from its cursor, one request at a time.
Answer(d) ==
    /\ response[d] = NoWriter
    /\ \E rows \in SUBSET log :
          /\ IsPage(rows, d)
          /\ response' = [response EXCEPT ![d] = [rows |-> rows, cursor |-> LastOf(rows, d)]]
    /\ UNCHANGED <<committed, held, writers, next_xid, next_seq, log,
                   cursor, mirror, handed, saves, failures>>

\* Fault of pull_stream: the rows of a page are applied in any order.
AppliedFirst(rows, have) ==
    [e \in Entities |->
        LET of == {row \in rows : row.entity = e} IN
        IF of = {} THEN have[e]
        ELSE (CHOOSE row \in of : \A other \in of : other.seq >= row.seq).value]

\* _apply_change for the rows of one page, in their order: the last one wins.
Applied(rows, have) ==
    [e \in Entities |->
        LET of == {row \in rows : row.entity = e} IN
        IF of = {} THEN have[e]
        ELSE (CHOOSE row \in of : \A other \in of : other.seq <= row.seq).value]

\* pull_stream: rows and cursor in one transaction of the terminal.
Apply(d) ==
    /\ response[d] # NoWriter
    /\ response' = [response EXCEPT ![d] = NoWriter]
    /\ cursor' = [cursor EXCEPT ![d] = response[d].cursor]
    /\ mirror' = [mirror EXCEPT ![d] = Applied(response[d].rows, @)]
    /\ handed' = [handed EXCEPT ![d] = @ \cup {row.seq : row \in response[d].rows}]
    /\ UNCHANGED <<committed, held, writers, next_xid, next_seq, log, saves, failures>>

\* The response is lost, or the terminal dies before it commits it.
Lose(d) ==
    /\ response[d] # NoWriter
    /\ failures < MaxFailures
    /\ failures' = failures + 1
    /\ response' = [response EXCEPT ![d] = NoWriter]
    /\ UNCHANGED <<committed, held, writers, next_xid, next_seq, log,
                   cursor, mirror, handed, saves>>

Next ==
    \/ \E w \in Writers, e \in Entities : Save(w, e)
    \/ \E w \in Writers : \/ CommitSave(w) \/ Rollback(w) \/ DrawSeq(w) \/ DrawXid(w)
                          \/ AppendRow(w) \/ AppendFails(w)
    \/ \E d \in Terminals : Answer(d) \/ Apply(d) \/ Lose(d)

Spec == Init /\ [][Next]_vars

\* A process that serves a request and a terminal that pulls get to run.
FairSpec ==
    /\ Spec
    /\ \A w \in Writers : /\ WF_vars(CommitSave(w) \/ Rollback(w)) /\ WF_vars(AppendRow(w))
                          /\ WF_vars(DrawSeq(w)) /\ WF_vars(DrawXid(w))
    /\ \A d \in Terminals : WF_vars(Answer(d)) /\ WF_vars(Apply(d))

-----------------------------------------------------------------------------
(* What the feed promises.                                                 *)

\* "A pull must never hand out a cursor position that a not-yet-committed
\* row could later fall behind": every row at or below a terminal's cursor,
\* whenever it was committed, was handed to that terminal.
NoRowFallsBehind ==
    \A d \in Terminals : \A row \in log : row.seq <= cursor[d] => row.seq \in handed[d]

\* A terminal never shows a value that was not committed: no price of a
\* transaction that was rolled back.
MirrorIsReal == \A d \in Terminals, e \in Entities : mirror[d][e] <= committed[e]

\* What a terminal shows of a row is the last of the changes it was handed:
\* no page is half applied, re-applied or applied out of order, although the
\* response and the terminal can be lost between any two steps.
LastHanded(d, e) == {row \in log : row.seq \in handed[d] /\ row.entity = e}
MirrorIsReplay ==
    \A d \in Terminals, e \in Entities :
        IF LastHanded(d, e) = {} THEN mirror[d][e] = 0
        ELSE \E row \in LastHanded(d, e) :
                /\ mirror[d][e] = row.value
                /\ \A other \in LastHanded(d, e) : other.seq <= row.seq

\* No row that a pull could see is passed over by the cursor it answers with,
\* the pages being as small as they may be.
VisibleIsNotSkipped ==
    [][\A d \in Terminals : response[d] = NoWriter /\ response'[d] # NoWriter =>
          \A row \in Visible(d) : row.seq <= response'[d].cursor => row \in response'[d].rows]_vars

\* What the server has committed reaches every terminal: "The device re-pulls
\* the entity on its next full sync, so the cost is staleness, not loss".
EveryTerminalCatchesUp == <>[](\A d \in Terminals : mirror[d] = committed)
=============================================================================
