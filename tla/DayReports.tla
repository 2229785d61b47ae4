----------------------------- MODULE DayReports -----------------------------
(***************************************************************************)
(* The rollups of a branch and the reports read from them (backend         *)
(* apps/reporting).  A business day is rolled up by the nightly task, by a *)
(* manager's rebuild, or by the first report that misses it; each is one   *)
(* transaction of several statements, and each statement sees what was     *)
(* committed when it began.  A report adds the rows of the closed days to  *)
(* what it reads itself of the day in progress.                            *)
(*                                                                         *)
(* Reports on sales are modelled by the orders they count; money, refunds   *)
(* and quantities are sums over the same orders and the same windows.       *)
(***************************************************************************)
EXTENDS Integers

CONSTANTS
    Orders,        \* orders
    Builders,       \* requests and tasks that build or report
    Nobody,
    DayLength,      \* instants of a business day
    boundary,       \* finance.business_day_start, in instants
    LastInstant, MaxJobs   \* bounds: time, builds and reports

ASSUME DayReportsAssumption ==
    /\ Nobody \notin Builders
    /\ DayLength \in Nat \ {0}
    /\ boundary \in 0 .. DayLength - 1
    /\ LastInstant \in Nat /\ MaxJobs \in Nat

VARIABLES
    now,
    order,         \* Order: opened_at and status
    rows,           \* ProductDaily, HourlyDaily and SalesDaily, as committed
    builder,        \* what each request and task is doing
    early,          \* business dates whose rows come from a build that came too early
    jobs

reportVars == <<now, order, rows, builder, early, jobs>>

\* In the order in which build_day replaces them.
Tables == {"products", "hours", "sales"}
SETTLED == {"PAID", "REFUNDED"}

day_window(date) == (date * DayLength + boundary) .. ((date + 1) * DayLength + boundary - 1)
range_window(from, to) == UNION {day_window(date) : date \in from .. to}
business_date_of(t) == (t - boundary) \div DayLength
today == business_date_of(now)
\* Nothing was sold before the first instant.
Days == {business_date_of(t) : t \in 0 .. LastInstant}

OpenedIn(window) == {o \in Orders : order[o].at \in window /\ order[o].status # "none"}
SettledIn(window)  == {o \in OpenedIn(window) : order[o].status \in SETTLED}

\* A row counts orders; its key is its hour, its one dish, or its day.
Row == [key : 0 .. LastInstant, orders : SUBSET Orders]
RowOf(at, orders) == [key |-> at, orders |-> orders]
NewRows(t, orders) ==
    CASE t = "products" -> IF orders = {} THEN {} ELSE {RowOf(0, orders)}
      [] t = "hours" -> {RowOf(at, {o \in orders : order[o].at = at}) :
                           at \in {order[o].at : o \in orders}}
      [] t = "sales" -> {RowOf(0, orders)}
Clash(these, those) == \E r \in these, s \in those : r.key = s.key

Idle == [stage |-> "idle"]
Busy(b) == builder[b].stage # "idle"
\* What its open transaction did to a table: rows deleted, rows inserted.
Untouched == [doomed |-> {}, new |-> {}]
Building(b) == builder[b].stage \in Tables \cup {"commit"}

DayReportsTypeOK ==
    /\ now \in 0 .. LastInstant
    /\ order \in [Orders -> [at : 0 .. LastInstant,
                               status : {"none", "OPEN", "CANCELLED"} \cup SETTLED]]
    /\ \A t \in Tables, d \in Days : rows[t][d] \subseteq Row
    /\ \A b \in Builders :
         /\ builder[b].stage \in Tables \cup {"idle", "next", "commit", "rolled", "live"}
         /\ Building(b) => builder[b].date \in Days /\ builder[b].waits \in Builders \cup {Nobody}
    /\ early \subseteq Days
    /\ jobs \in 0 .. MaxJobs

DayReportsInit ==
    /\ now = 0
    /\ order = [o \in Orders |-> [at |-> 0, status |-> "none"]]
    /\ rows = [t \in Tables |-> [d \in Days |-> {}]]
    /\ builder = [b \in Builders |-> Idle]
    /\ early = {}
    /\ jobs = 0

-----------------------------------------------------------------------------
(* What is reported on.                                                    *)

TimePasses ==
    /\ now < LastInstant /\ now' = now + 1
    /\ UNCHANGED <<order, rows, builder, early, jobs>>

\* opened_at is the time at the server, which never dates an order back.
OpenOrder(o) ==
    /\ order[o].status = "none"
    /\ order' = [order EXCEPT ![o] = [at |-> now, status |-> "OPEN"]]
    /\ UNCHANGED <<now, rows, builder, early, jobs>>

CloseOrder(o) ==
    /\ \/ order[o].status = "OPEN"
          /\ \E s \in {"PAID", "CANCELLED"} : order' = [order EXCEPT ![o].status = s]
       \/ order[o].status = "PAID" /\ order' = [order EXCEPT ![o].status = "REFUNDED"]
    /\ UNCHANGED <<now, rows, builder, early, jobs>>

-----------------------------------------------------------------------------
(* Who builds.                                                             *)

StartJob(b, work) ==
    /\ ~Busy(b)
    /\ jobs < MaxJobs /\ jobs' = jobs + 1
    /\ builder' = [builder EXCEPT ![b] = work]
    /\ UNCHANGED <<now, order, rows, early>>

\* The days of a job are built one by one, from the first or from the last.
Job(dates, backwards) ==
    [stage |-> "next", todo |-> dates, backwards |-> backwards, report |-> FALSE]
Comes(d, work) == \A e \in work.todo : IF work.backwards THEN e =< d ELSE d =< e

\* build_rollups, as beat calls it: the last two closed days.
Nightly(b) == StartJob(b, Job({today - 1, today - 2} \cap Days, TRUE))

\* RollupRebuildView asks for any range, the day in progress included.
Rebuild(b) == \E from, to \in Days : from =< to /\ StartJob(b, Job(from .. to, FALSE))

\* _ensure_rollups
first_raw(from) == IF from > today THEN from ELSE today
Missing(from, to) == {d \in from .. to : d < today /\ rows["sales"][d] = {}}

Request(from, to, raw_from, dates) ==
    [stage |-> "next", todo |-> dates, backwards |-> FALSE, report |-> TRUE,
     from |-> from, to |-> to, raw_from |-> raw_from,
     asked |-> SettledIn(range_window(from, to))]

\* Summary, hours and products read rollups; channels, employees and methods of
\* payment read the orders of the whole range.
Ask(b) ==
    \E from, to \in Days :
        /\ from =< to
        /\ \/ StartJob(b, Request(from, to, first_raw(from), Missing(from, to)))
           \/ StartJob(b, Request(from, to, from, {}))

-----------------------------------------------------------------------------
(* build_day                                                               *)

\* Over, and nothing of it still to be paid.
Finished(d) == d < today /\ \A o \in OpenedIn(day_window(d)) : order[o].status # "OPEN"

BuildDay(b) ==
    /\ builder[b].stage = "next"
    /\ \E d \in builder[b].todo :
         /\ Comes(d, builder[b])
         /\ builder' = [builder EXCEPT ![b] =
              [stage |-> "products", date |-> d, totals |-> SettledIn(day_window(d)),
               finished |-> Finished(d), done |-> [t \in Tables |-> Untouched],
               waits |-> Nobody, work |-> [@ EXCEPT !.todo = builder[b].todo \ {d}]]]
    /\ UNCHANGED <<now, order, rows, early, jobs>>

After == [products |-> "hours", hours |-> "sales", sales |-> "commit"]

\* The totals were summed first; products and hours are read as they are written.
Found(b, t) ==
    IF t = "sales" THEN builder[b].totals
    ELSE SettledIn(day_window(builder[b].date))

Wrote(record, doomed, new) ==
    [record EXCEPT !.done[record.stage] = [doomed |-> doomed, new |-> new],
                   !.stage = After[record.stage], !.waits = Nobody]

Later == [products |-> {"hours", "sales", "commit"}, hours |-> {"sales", "commit"},
          sales |-> {"commit"}]
HasWritten(a, t) == builder[a].stage \in Later[t]

\* Rows another transaction deleted, and keys it inserted, must be waited for.
Rivals(b, new) ==
    {a \in Builders \ {b} :
        HasWritten(a, builder[b].stage) /\ builder[a].date = builder[b].date
        /\ LET theirs == builder[a].done[builder[b].stage] IN
             theirs.doomed # {} \/ Clash(theirs.new, new)}

Write(b) ==
    /\ builder[b].stage \in Tables /\ builder[b].waits = Nobody
    /\ LET t == builder[b].stage
           old == rows[t][builder[b].date]
           new == NewRows(t, Found(b, t)) IN
         IF Rivals(b, new) = {}
         THEN builder' = [builder EXCEPT ![b] = Wrote(@, old, new)]
         ELSE \E a \in Rivals(b, new) :
                builder' = [builder EXCEPT ![b] = [@ EXCEPT !.waits = a, !.done[t].new = new]]
    /\ UNCHANGED <<now, order, rows, early, jobs>>

\* The deletion that waited does not see the rows that came: its insertion fails
\* on the unique constraint, or there was nothing to insert that is there.
Woken(w, b) ==
    LET t == w.stage
        new == w.done[t].new IN
      IF Clash(builder[b].done[t].new, new) THEN Idle
      ELSE Wrote(w, rows[t][w.date] \ builder[b].done[t].doomed, new)

WaitsFor(w, b) == Building(w) /\ builder[w].waits = b
Losers(b) == {w \in Builders : WaitsFor(w, b) /\ Woken(builder[w], b) = Idle}
Freed(w, gone) ==
    IF \E b \in gone : WaitsFor(w, b) THEN [builder[w] EXCEPT !.waits = Nobody]
    ELSE builder[w]

CommitDay(b) ==
    /\ builder[b].stage = "commit"
    /\ LET d == builder[b].date IN
         /\ rows' = [t \in Tables |-> [rows[t] EXCEPT ![d] =
                    (@ \ builder[b].done[t].doomed) \cup builder[b].done[t].new]]
         /\ early' = IF builder[b].finished THEN early \ {d} ELSE early \cup {d}
    /\ builder' = [w \in Builders |->
         CASE w = b -> builder[b].work
           [] w # b /\ WaitsFor(w, b) -> Woken(builder[w], b)
           [] OTHER -> Freed(w, Losers(b))]
    /\ UNCHANGED <<now, order, jobs>>

\* Killed, or timed out, at any statement: the transaction rolls back.
Abort(b) ==
    /\ Busy(b)
    /\ builder' = [w \in Builders |-> IF w = b THEN Idle ELSE Freed(w, {b})]
    /\ UNCHANGED <<now, order, rows, early, jobs>>

-----------------------------------------------------------------------------
(* What a report reads.                                                    *)

Built(b) ==
    /\ builder[b].stage = "next" /\ builder[b].todo = {}
    /\ builder' = [builder EXCEPT ![b] =
         IF ~builder[b].report THEN Idle ELSE [@ EXCEPT !.stage = "rolled"]]
    /\ UNCHANGED <<now, order, rows, early, jobs>>

ThroughToday(work) == IF work.to < work.raw_from THEN work.to ELSE work.raw_from
LastRolled(work) == IF work.to < work.raw_from THEN work.to ELSE work.raw_from - 1

\* The rows of the closed days, from the table the report is about.
ReadRolled(b) ==
    /\ builder[b].stage = "rolled"
    /\ LET work == builder[b] IN
         \E t \in Tables :
           builder' = [builder EXCEPT ![b] =
             [stage |-> "live", from |-> work.from, to |-> work.to, raw_from |-> work.raw_from,
              asked |-> work.asked, early |-> early,
              rolled |-> UNION {{<<d, r>> : r \in rows[t][d]} :
                                  d \in work.from .. LastRolled(work)}]]
    /\ UNCHANGED <<now, order, rows, early, jobs>>

\* The rest from the orders; the answer is given with what they are then.
Live(work) == SettledIn(range_window(work.raw_from, work.to))
ReadLive(b) ==
    /\ builder[b].stage = "live"
    /\ builder' = [builder EXCEPT ![b] = Idle]
    /\ UNCHANGED <<now, order, rows, early, jobs>>

DayReportsNext ==
    \/ TimePasses
    \/ \E o \in Orders : OpenOrder(o) \/ CloseOrder(o)
    \/ \E b \in Builders :
         \/ Nightly(b) \/ Rebuild(b) \/ Ask(b)
         \/ BuildDay(b) \/ Write(b) \/ CommitDay(b) \/ Abort(b)
         \/ Built(b) \/ ReadRolled(b) \/ ReadLive(b)

DayReportsSpec == DayReportsInit /\ [][DayReportsNext]_reportVars

-----------------------------------------------------------------------------
(* Properties.                                                             *)

Counted(some) == UNION {r.orders : r \in some}
CountedOnce(some) ==
    \A p, q \in some : p # q => p[2].orders \cap q[2].orders = {}

\* "must not double a day's revenue": no two dates, and no two rows of one date,
\* count one sale, whoever built them and however builds overlapped, failed or
\* repeated.
NoRevenueTwice ==
    \A t \in Tables : CountedOnce(UNION {{<<d, r>> : r \in rows[t][d]} : d \in Days})

\* "a rebuild always reproduces the same numbers": a day that was built last when
\* it was over and its orders were closed has three tables that count what it sold,
\* whatever was built of it before, or beside it.
TablesAgree ==
    \A d \in Days, t \in Tables :
        rows["sales"][d] # {} /\ d \notin early =>
            Counted(rows[t][d]) = SettledIn(day_window(d))

\* A report counts a sale once, and none it should not; it misses none that
\* was paid when it was asked for, but those of days that were built too early.
ReportsCountOnce ==
    \A b \in Builders :
        builder[b].stage = "live" =>
            LET work == builder[b]
                rolled == Counted({p[2] : p \in work.rolled}) IN
              /\ CountedOnce(work.rolled) /\ rolled \cap Live(work) = {}
              /\ rolled \cup Live(work) \subseteq SettledIn(range_window(work.from, work.to))
              /\ \A o \in work.asked \ (rolled \cup Live(work)) :
                   business_date_of(order[o].at) \in work.early

\* reporting/rollups.py, reports.py: what is reported of the sales is what was
\* sold, once.
ReportsAreTrue == NoRevenueTwice /\ TablesAgree /\ ReportsCountOnce

\* "Today is never rolled up."
TodayIsNeverRolledUp == \A d \in Days : rows["sales"][d] # {} => d < today
=============================================================================
