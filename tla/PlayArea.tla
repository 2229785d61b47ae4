------------------------------ MODULE PlayArea ------------------------------
(***************************************************************************)
(* The children's play area: sessions on the server (kids/services.py),    *)
(* the sessions terminals keep by themselves (desktop kids/service.py) and *)
(* the operations that carry them over (play_check_in and play_check_out   *)
(* of sync/handlers.py), delivered in the order of each terminal.          *)
(*                                                                         *)
(* check_in locks the row of the area and check_out that of the session.   *)
(* change_tariff, override_session_charge and the billing of a check-out   *)
(* work on a session the request read before; that read is an action.      *)
(***************************************************************************)
EXTENDS Naturals, FiniteSets, Sequences

CONSTANTS
    Visits,             \* PlaySession ids, minted by whoever checks in
    Terminals,
    Tags,               \* wristbands
    Tariffs,
    OpenDay,            \* the tariffs without an expected end
    Capacity,           \* max_capacity of the area, here and in every mirror
    VerifyGuardian,     \* kids.require_guardian_verification
    Clerks,             \* web requests in progress
    Nil

ASSUME PlayAssumption ==
    /\ Capacity \in Nat \ {0}
    /\ OpenDay \subseteq Tariffs
    /\ VerifyGuardian \in BOOLEAN
    /\ Nil \notin Visits \cup Tariffs \cup Tags \cup {"ACTIVE", "OVERDUE", "CHECKED_OUT"}

VARIABLES
    play,         \* PlaySession rows
    lines,        \* what the order lines of each session were priced at
    here,         \* l_play_sessions of each terminal: the status, or Nil
    wears,        \* the tag a terminal gave a child
    ops,          \* the play operations each terminal has queued
    refused,      \* sessions with an operation the server refused
    clerk         \* the session each web request read

playVars == <<play, lines, here, wears, ops, refused, clerk>>

Blank == [status |-> Nil, tag |-> Nil, tariff |-> Nil, charge |-> Nil,
          override |-> FALSE, line |-> FALSE]

\* OPEN_SESSION_STATUSES.
Inside == {"ACTIVE", "OVERDUE"}

\* payable: the override when there is one.
Payable(row) == IF row.override THEN "override" ELSE row.charge

Rows == [status   : Inside \cup {"CHECKED_OUT", Nil},
         tag      : Tags \cup {Nil},
         tariff   : Tariffs \cup {Nil},      \* tariff_snapshot
         charge   : Tariffs \cup {Nil},      \* what computed_charge was computed by
         override : BOOLEAN,
         line     : BOOLEAN]                 \* order_line_id is set

\* What a request remembers of the session it read.
NoClerk == [kind |-> "idle", visit |-> Nil, open |-> FALSE, line |-> FALSE]

PlayTypeOK ==
    /\ play \in [Visits -> Rows]
    /\ lines \in [Visits -> Seq(Tariffs \cup {"override"})]
    /\ here \in [Terminals -> [Visits -> {Nil, "ACTIVE", "CHECKED_OUT"}]]
    /\ wears \in [Visits -> Tags \cup {Nil}]
    /\ ops \in [Terminals -> Seq({"in", "out"} \X Visits)]
    /\ refused \subseteq Visits
    /\ clerk \in [Clerks -> [kind : {"idle", "out", "bill", "tariff", "override"},
                             visit : Visits \cup {Nil}, open : BOOLEAN, line : BOOLEAN]]

PlayInit ==
    /\ play = [v \in Visits |-> Blank]
    /\ lines = [v \in Visits |-> <<>>]
    /\ here = [t \in Terminals |-> [v \in Visits |-> Nil]]
    /\ wears = [v \in Visits |-> Nil]
    /\ ops = [t \in Terminals |-> <<>>]
    /\ refused = {}
    /\ clerk = [c \in Clerks |-> NoClerk]

IsOpenVisit(v) == play[v].status \in Inside
Unused(v) == /\ play[v] = Blank
             /\ \A t \in Terminals : here[t][v] = Nil

-----------------------------------------------------------------------------
(* Check-in on the server, under the lock of the area.                     *)

Occupancy == Cardinality({v \in Visits : IsOpenVisit(v)})

RoomForOneMore == Occupancy =< Capacity
HasRoom == Occupancy < Capacity

\* uniq_open_tag_per_area, looked up before.
TagFree(tag) == \A v \in Visits : IsOpenVisit(v) => play[v].tag # tag

Admit(v, tag) ==
    \E r \in Tariffs :
        play' = [play EXCEPT ![v] =
                   [Blank EXCEPT !.status = "ACTIVE", !.tag = tag, !.tariff = r]]

CheckIn ==
    /\ HasRoom
    /\ \E v \in Visits, tag \in Tags : Unused(v) /\ TagFree(tag) /\ Admit(v, tag)
    /\ UNCHANGED <<lines, here, wears, ops, refused, clerk>>

\* refresh_overdue, whenever somebody looks at the board.
RefreshOverdue ==
    /\ \E v \in Visits :
         /\ play[v].status = "ACTIVE" /\ play[v].tariff \notin OpenDay
         /\ play' = [play EXCEPT ![v].status = "OVERDUE"]
    /\ UNCHANGED <<lines, here, wears, ops, refused, clerk>>

-----------------------------------------------------------------------------
(* Web requests: read the session, then act on it.                         *)

ReadVisit(c) ==
    /\ clerk[c] = NoClerk
    /\ \E v \in Visits, kind \in {"out", "tariff", "override"} :
         /\ play[v] # Blank
         /\ clerk' = [clerk EXCEPT ![c] =
               [kind |-> kind, visit |-> v, open |-> IsOpenVisit(v), line |-> play[v].line]]
    /\ UNCHANGED <<play, lines, here, wears, ops, refused>>

Done(c) == clerk' = [clerk EXCEPT ![c] = NoClerk]

\* The session is read again under its lock.
LeavesAnyway(v) == TRUE
MayLeave(v) == IsOpenVisit(v)

LeftUnpriced(row) == [row EXCEPT !.status = "CHECKED_OUT"]
CheckedOut(row)   == [row EXCEPT !.status = "CHECKED_OUT", !.charge = row.tariff]

CheckOut(c) ==
    LET v == clerk[c].visit IN
    /\ clerk[c].kind = "out" /\ MayLeave(v)
    /\ play' = [play EXCEPT ![v] = CheckedOut(@)]
    /\ \/ clerk' = [clerk EXCEPT ![c].kind = "bill", ![c].line = play[v].line]
       \/ Done(c)                                   \* "bill" was not asked for
    /\ UNCHANGED <<lines, here, wears, ops, refused>>

\* _play_session_charged reads the session again for the price.
Billed(v) == lines' = [lines EXCEPT ![v] = Append(@, Payable(play[v]))]

\* bill_session, a transaction of its own after the check-out.  It alone sends
\* PLAY_SESSION_CHARGED: no client of the repository posts that event itself.
Bill(c) ==
    LET v == clerk[c].visit IN
    /\ clerk[c].kind = "bill" /\ ~clerk[c].line
    /\ Billed(v)
    /\ play' = [play EXCEPT ![v].line = TRUE]
    /\ Done(c)
    /\ UNCHANGED <<here, wears, ops, refused>>

\* No billing product, an order that is closed by now, or the process dies.
BillFails(c) ==
    /\ clerk[c].kind = "bill"
    /\ Done(c)
    /\ UNCHANGED <<play, lines, here, wears, ops, refused>>

\* change_tariff looks at the copy it read and saves the tariff alone.
ChangeTariff(c) ==
    /\ clerk[c].kind = "tariff" /\ clerk[c].open
    /\ \E r \in Tariffs : play' = [play EXCEPT ![clerk[c].visit].tariff = r]
    /\ Done(c)
    /\ UNCHANGED <<lines, here, wears, ops, refused>>

OverrideCharge(c) ==
    /\ clerk[c].kind = "override" /\ ~clerk[c].line
    /\ play' = [play EXCEPT ![clerk[c].visit].override = TRUE]
    /\ Done(c)
    /\ UNCHANGED <<lines, here, wears, ops, refused>>

Refuse(c) ==
    /\ \/ clerk[c].kind = "out" /\ ~MayLeave(clerk[c].visit)
       \/ clerk[c].kind = "tariff" /\ ~clerk[c].open
       \/ clerk[c].kind = "override" /\ clerk[c].line
    /\ Done(c)
    /\ UNCHANGED <<play, lines, here, wears, ops, refused>>

-----------------------------------------------------------------------------
(* A terminal, online or not, and its operations at the server.            *)

LocalInside(t) == {v \in Visits : here[t][v] = "ACTIVE"}

LocalCheckIn(t) ==
    /\ Cardinality(LocalInside(t)) < Capacity
    /\ \E v \in Visits, tag \in Tags :
         /\ Unused(v)
         /\ \A w \in LocalInside(t) : wears[w] # tag
         /\ here' = [here EXCEPT ![t][v] = "ACTIVE"]
         /\ wears' = [wears EXCEPT ![v] = tag]
         /\ ops' = [ops EXCEPT ![t] = Append(@, <<"in", v>>)]
    /\ UNCHANGED <<play, lines, refused, clerk>>

LocalCheckOut(t) ==
    /\ \E v \in LocalInside(t) :
         /\ here' = [here EXCEPT ![t][v] = "CHECKED_OUT"]
         /\ ops' = [ops EXCEPT ![t] = Append(@, <<"out", v>>)]
    /\ UNCHANGED <<play, lines, wears, refused, clerk>>

Deliver(t) ==
    /\ ops[t] # <<>>
    /\ ops' = [ops EXCEPT ![t] = Tail(@)]
    /\ UNCHANGED <<here, wears, clerk>>

Reject(v) == refused' = refused \cup {v} /\ UNCHANGED <<play, lines>>

\* A full area is a conflict and a tag in use a rejection.
DeliverCheckIn(t) ==
    /\ Deliver(t)
    /\ LET v == Head(ops[t])[2] IN
         /\ Head(ops[t])[1] = "in"
         /\ IF HasRoom /\ TagFree(wears[v])
            THEN Admit(v, wears[v]) /\ UNCHANGED <<lines, refused>>
            ELSE Reject(v)

\* The terminal sends no "verified": check_out refuses unless it is not required.
Verified == ~VerifyGuardian

\* Check-out and billing are one transaction here.
DeliverCheckOut(t) ==
    /\ Deliver(t)
    /\ LET v == Head(ops[t])[2] IN
         /\ Head(ops[t])[1] = "out"
         /\ \/ /\ play[v] # Blank /\ ~IsOpenVisit(v)
               /\ \/ UNCHANGED <<play, lines, refused>>        \* replayed
                  \/ Reject(v)                 \* it closed after the handler looked
            \/ /\ IsOpenVisit(v) /\ Verified
               /\ play' = [play EXCEPT ![v] = [CheckedOut(@) EXCEPT !.line = TRUE]]
               /\ lines' = [lines EXCEPT ![v] = Append(@, Payable(CheckedOut(play[v])))]
               /\ UNCHANGED refused
            \* Not here, not verified, or bill_session refuses: all rolled back.
            \/ (play[v] = Blank \/ IsOpenVisit(v)) /\ Reject(v)

PlayNext ==
    \/ CheckIn \/ RefreshOverdue
    \/ \E c \in Clerks :
          ReadVisit(c) \/ CheckOut(c) \/ Bill(c) \/ BillFails(c)
          \/ ChangeTariff(c) \/ OverrideCharge(c) \/ Refuse(c)
    \/ \E t \in Terminals :
          LocalCheckIn(t) \/ LocalCheckOut(t) \/ DeliverCheckIn(t) \/ DeliverCheckOut(t)

PlaySpec == PlayInit /\ [][PlayNext]_playVars

-----------------------------------------------------------------------------
(* Properties.                                                             *)

\* The safety limit, and that staff can match a wristband to one child, however
\* web requests and terminals that were offline come together.
RoomIsSafe ==
    /\ Occupancy =< Capacity
    /\ \A v, w \in Visits :
         IsOpenVisit(v) /\ IsOpenVisit(w) /\ v # w => play[v].tag # play[w].tag

\* A visit becomes at most one order line, whoever checks it out or bills it
\* (bill_session looks at order_line_id; the event's handler does not).
BilledOnce == \A v \in Visits : Len(lines[v]) =< 1

\* "the check-out queued against it resolves when it arrives": the session the
\* server has open is closed by the check-out of its terminal.
CheckOutResolves ==
    \A t \in Terminals, v \in Visits :
        here[t][v] = "CHECKED_OUT" /\ ops[t] = <<>> => ~IsOpenVisit(v)
=============================================================================
