---------------------------- MODULE DiningFloor ----------------------------
(***************************************************************************)
(* Tables, the parties that sit at them (TableSession) and their orders    *)
(* (floor/views.py, floor/services.py), with several waiters at work.      *)
(*                                                                         *)
(* Opening locks the row of the table, merging the rows of both sessions   *)
(* with their tables; closing and transferring read the session without a  *)
(* lock and write what they decided from that copy.                        *)
(***************************************************************************)
EXTENDS Naturals, FiniteSets

CONSTANTS
    Tables,
    Parties,        \* rows of TableSession
    Bills,          \* orders
    Waiters,        \* requests in progress
    NoTable,
    NoParty

ASSUME FloorAssumption == NoTable \notin Tables /\ NoParty \notin Parties

VARIABLES
    tableStatus,    \* Table.status
    party,          \* TableSession: its table, and whether closed_at is null
    bill,           \* Order: its table_session, and whether its status is ACTIVE
    into,           \* history: the party a party was merged into
    errand          \* what a request read and locked before it writes

floorVars == <<tableStatus, party, bill, into, errand>>

TableStatus == {"AVAILABLE", "OCCUPIED", "CLEANING"}

NoErrand == [kind |-> "idle", party |-> NoParty, other |-> NoParty, table |-> NoTable]

FloorTypeOK ==
    /\ tableStatus \in [Tables -> TableStatus]
    /\ party \in [Parties -> [at : Tables \cup {NoTable}, open : BOOLEAN]]
    /\ bill \in [Bills -> [on : Parties \cup {NoParty}, active : BOOLEAN]]
    /\ into \in [Parties -> Parties \cup {NoParty}]
    /\ errand \in [Waiters ->
                     [kind : {"idle", "seat", "count", "close", "transfer", "pair", "source", "merge"},
                      party : Parties \cup {NoParty}, other : Parties \cup {NoParty},
                      table : Tables \cup {NoTable}]]

FloorInit ==
    /\ tableStatus = [t \in Tables |-> "AVAILABLE"]
    /\ party = [p \in Parties |-> [at |-> NoTable, open |-> FALSE]]
    /\ bill = [b \in Bills |-> [on |-> NoParty, active |-> FALSE]]
    /\ into = [p \in Parties |-> NoParty]
    /\ errand = [w \in Waiters |-> NoErrand]

-----------------------------------------------------------------------------

Came(p) == party[p].at # NoTable
OpenAt(t) == {p \in Parties : party[p].open /\ party[p].at = t}
OrdersOf(p) == {b \in Bills : bill[b].on = p}

Waiting(w) == errand[w].kind = "idle"
Send(w, kind, p, q, t) ==
    errand' = [errand EXCEPT ![w] = [kind |-> kind, party |-> p, other |-> q, table |-> t]]
Done(w) == errand' = [errand EXCEPT ![w] = NoErrand]

\* Rows locked until a request commits.  A session is locked with its table.
PartyLocked(p) ==
    \E w \in Waiters :
        \/ errand[w].kind \in {"source", "merge"} /\ errand[w].party = p
        \/ errand[w].kind = "merge" /\ errand[w].other = p
TableLocked(t) ==
    \/ \E w \in Waiters : errand[w].kind = "seat" /\ errand[w].table = t
    \/ \E p \in Parties : PartyLocked(p) /\ party[p].at = t

-----------------------------------------------------------------------------
(* Opening: lock the table, see that nobody sits there, seat the party.    *)

IsFreeUnlocked(t) == OpenAt(t) = {}
IsFree(t) == OpenAt(t) = {} /\ ~TableLocked(t)

LockTable(w) ==
    /\ Waiting(w)
    /\ \E t \in Tables : IsFree(t) /\ Send(w, "seat", NoParty, NoParty, t)
    /\ UNCHANGED <<tableStatus, party, bill, into>>

Seat(w) ==
    /\ errand[w].kind = "seat"
    /\ \E p \in Parties :
         /\ ~Came(p)
         /\ party' = [party EXCEPT ![p] = [at |-> errand[w].table, open |-> TRUE]]
    /\ tableStatus' = [tableStatus EXCEPT ![errand[w].table] = "OCCUPIED"]
    /\ Done(w)
    /\ UNCHANGED <<bill, into>>

-----------------------------------------------------------------------------
(* Closing: the session with its table, and then the count of its active   *)
(* orders, are read without a lock.                                        *)

Settled(p) == \A b \in OrdersOf(p) : ~bill[b].active

ReadToClose(w) ==
    /\ Waiting(w)
    /\ \E p \in Parties : party[p].open /\ Send(w, "count", p, NoParty, party[p].at)
    /\ UNCHANGED <<tableStatus, party, bill, into>>

CountOrders(w) ==
    /\ errand[w].kind = "count" /\ Settled(errand[w].party)
    /\ errand' = [errand EXCEPT ![w].kind = "close"]
    /\ UNCHANGED <<tableStatus, party, bill, into>>

\* The table it frees is the one it read; auto_cleaning_status picks how.
CloseSession(w) ==
    /\ errand[w].kind = "close"
    /\ ~PartyLocked(errand[w].party) /\ ~TableLocked(errand[w].table)
    /\ party' = [party EXCEPT ![errand[w].party].open = FALSE]
    /\ \E freed \in {"AVAILABLE", "CLEANING"} :
         tableStatus' = [tableStatus EXCEPT ![errand[w].table] = freed]
    /\ Done(w)
    /\ UNCHANGED <<bill, into>>

-----------------------------------------------------------------------------
(* Transferring: the session is read without a lock, the target is locked. *)

ReadToTransfer(w) ==
    /\ Waiting(w)
    /\ \E p \in Parties : party[p].open /\ Send(w, "transfer", p, NoParty, party[p].at)
    /\ UNCHANGED <<tableStatus, party, bill, into>>

\* The target is locked and checked; the session moves there even if another
\* request closed or moved it, and the table that was read becomes available.
Transfer(w) ==
    /\ errand[w].kind = "transfer"
    /\ ~PartyLocked(errand[w].party) /\ ~TableLocked(errand[w].table)
    /\ \E t \in Tables \ {errand[w].table} :
         /\ IsFree(t)
         /\ party' = [party EXCEPT ![errand[w].party].at = t]
         /\ tableStatus' = [tableStatus EXCEPT ![t] = "OCCUPIED",
                                               ![errand[w].table] = "AVAILABLE"]
    /\ Done(w)
    /\ UNCHANGED <<bill, into>>

-----------------------------------------------------------------------------
(* Merging: the view reads both sessions, merge_sessions locks the source, *)
(* then the target, and looks at both again.                               *)

ReadPair(w) ==
    /\ Waiting(w)
    /\ \E p, q \in Parties :
         /\ p # q /\ party[p].open /\ party[q].open
         /\ Send(w, "pair", p, q, NoTable)
    /\ UNCHANGED <<tableStatus, party, bill, into>>

LockSource(w) ==
    /\ errand[w].kind = "pair"
    /\ ~PartyLocked(errand[w].party) /\ ~TableLocked(party[errand[w].party].at)
    /\ errand' = [errand EXCEPT ![w].kind = "source"]
    /\ UNCHANGED <<tableStatus, party, bill, into>>

LockTarget(w) ==
    /\ errand[w].kind = "source"
    /\ ~PartyLocked(errand[w].other) /\ ~TableLocked(party[errand[w].other].at)
    /\ errand' = [errand EXCEPT ![w].kind = "merge"]
    /\ UNCHANGED <<tableStatus, party, bill, into>>

\* The copies of the view were open when it read them.
OpenWhenRead(p, q) == TRUE
BothOpen(p, q)     == party[p].open /\ party[q].open

Merge(w) ==
    /\ errand[w].kind = "merge"
    /\ LET source == errand[w].party
           target == errand[w].other IN
         /\ BothOpen(source, target)
         /\ bill' = [b \in Bills |->
                       IF bill[b].on = source THEN [bill[b] EXCEPT !.on = target] ELSE bill[b]]
         /\ party' = [party EXCEPT ![source].open = FALSE]
         /\ tableStatus' = [tableStatus EXCEPT ![party[source].at] = "AVAILABLE"]
         /\ into' = [into EXCEPT ![source] = target]
    /\ Done(w)

\* Refused (occupied, unsettled, closed, another area), failed, or chosen by the database
\* as the victim of a deadlock: everything is rolled back.
Abandon(w) ==
    /\ ~Waiting(w)
    /\ Done(w)
    /\ UNCHANGED <<tableStatus, party, bill, into>>

-----------------------------------------------------------------------------
(* What others do to the orders and tables of a party.                     *)

\* OrdersView and TABLE_ASSIGNED look the session up, open or not; the foreign
\* key waits for a session that is locked.
PutOnTable(b) ==
    /\ \E p \in Parties :
         /\ Came(p) /\ ~PartyLocked(p)
         /\ bill' = [bill EXCEPT ![b] = [on |-> p, active |-> TRUE]]
    /\ UNCHANGED <<tableStatus, party, into, errand>>

OrderAtTable(b) == bill[b].on = NoParty /\ PutOnTable(b)
AssignTable(b)  == bill[b].active /\ PutOnTable(b)

SettleBill(b) ==
    /\ bill[b].active
    /\ bill' = [bill EXCEPT ![b].active = FALSE]
    /\ UNCHANGED <<tableStatus, party, into, errand>>

\* A waiter wipes a table: PATCH of its status.
Wipe(t) ==
    /\ tableStatus[t] = "CLEANING" /\ ~TableLocked(t)
    /\ tableStatus' = [tableStatus EXCEPT ![t] = "AVAILABLE"]
    /\ UNCHANGED <<party, bill, into, errand>>

FloorNext ==
    \/ \E w \in Waiters :
          \/ LockTable(w) \/ Seat(w)
          \/ ReadToClose(w) \/ CountOrders(w) \/ CloseSession(w)
          \/ ReadToTransfer(w) \/ Transfer(w)
          \/ ReadPair(w) \/ LockSource(w) \/ LockTarget(w) \/ Merge(w)
          \/ Abandon(w)
    \/ \E b \in Bills : OrderAtTable(b) \/ AssignTable(b) \/ SettleBill(b)
    \/ \E t \in Tables : Wipe(t)

FloorSpec == FloorInit /\ [][FloorNext]_floorVars

-----------------------------------------------------------------------------
(* Properties.                                                             *)

\* Openings and transfers that race leave at most one open party at a table.
OnePartyPerTable ==
    \A p, q \in Parties :
        party[p].open /\ party[q].open /\ party[p].at = party[q].at => p = q

\* "Two waiters merging the same pair from two terminals would otherwise each
\* read one open session and both close it" (merge_sessions): no two merges
\* send the parties into each other, so one of the pair stays open.
MergesEndSomewhere ==
    \A p, q \in Parties : into[p] = q => into[q] # p

\* The merge is not the only one who closes: an order that is still to be paid
\* may be left on a session that ended, by a close that counted before.
NoBillIsLeftBehind ==
    \A b \in Bills : bill[b].active => party[bill[b].on].open

\* The board: a table shows OCCUPIED exactly while a party sits there.
BoardIsTrue ==
    \A t \in Tables : (tableStatus[t] = "OCCUPIED") <=> (OpenAt(t) # {})
=============================================================================
