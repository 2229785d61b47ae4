-------------------------- MODULE BackOfficeProofs --------------------------
(***************************************************************************)
(* What holds of the floor, the settings, the attendance, the drawer and   *)
(* the stock of a branch for every value of their constants, and of all    *)
(* the components of the back office together.                             *)
(***************************************************************************)
EXTENDS MCBackOffice, InvoiceSerialsProofs, ChangeFeedProofs, FiniteSetTheorems, TLAPS

-----------------------------------------------------------------------------
(* The strengthening: what a request knows from its locks.                 *)

\* A party that came has a table for good; one that did not is neither open
\* nor merged, and a merged party is closed.
PartiesCome ==
    \A p \in Parties :
        /\ party[p].open => Came(p)
        /\ into[p] # NoParty => Came(p) /\ ~party[p].open

\* Who seats a party holds the table alone and found it free.
SeatsAreHeld ==
    \A w \in Waiters : errand[w].kind = "seat" =>
        /\ errand[w].table \in Tables
        /\ OpenAt(errand[w].table) = {}
        /\ \A v \in Waiters :
             errand[v].kind = "seat" /\ errand[v].table = errand[w].table => v = w

\* A request that is not to open a table speaks of parties that came.
ErrandsNameParties ==
    \A w \in Waiters :
        /\ errand[w].kind \in {"count", "close", "transfer"} =>
              errand[w].party \in Parties /\ Came(errand[w].party) /\ errand[w].table \in Tables
        /\ errand[w].kind \in {"pair", "source", "merge"} =>
              /\ errand[w].party \in Parties /\ errand[w].other \in Parties
              /\ errand[w].party # errand[w].other
              /\ Came(errand[w].party)

FloorInv ==
    /\ FloorTypeOK
    /\ PartiesCome
    /\ SeatsAreHeld
    /\ ErrandsNameParties
    /\ OnePartyPerTable
    /\ MergesEndSomewhere

LEMMA FloorStart == FloorInit => FloorInv
BY FloorAssumption
DEF FloorInit, FloorInv, FloorTypeOK, TableStatus, NoErrand, PartiesCome, SeatsAreHeld,
    ErrandsNameParties, OnePartyPerTable, MergesEndSomewhere, Came

Errands == [kind : {"idle", "seat", "count", "close", "transfer", "pair", "source", "merge"},
            party : Parties \cup {NoParty}, other : Parties \cup {NoParty},
            table : Tables \cup {NoTable}]

-----------------------------------------------------------------------------
(* Each step keeps it.                                                     *)

\* Steps that only read or lock: the floor stays as it is.
LEMMA OnlyReads ==
    ASSUME FloorInv, NEW w \in Waiters,
           LockTable(w) \/ ReadToClose(w) \/ CountOrders(w) \/ ReadToTransfer(w) \/ ReadPair(w)
           \/ LockSource(w) \/ LockTarget(w) \/ Abandon(w)
    PROVE  FloorInv'
<1>1. UNCHANGED <<tableStatus, party, bill, into>> /\ FloorTypeOK
  BY DEF LockTable, ReadToClose, CountOrders, ReadToTransfer, ReadPair, LockSource, LockTarget,
         Abandon, FloorInv
<1> DEFINE e == errand'[w]
<1>3. errand \in [Waiters -> Errands]
  BY <1>1 DEF FloorTypeOK, Errands
<1>2. /\ e \in Errands /\ errand' = [errand EXCEPT ![w] = e]
      /\ e.kind = "seat" => IsFree(e.table) /\ e.table \in Tables
      /\ e.kind \in {"count", "close", "transfer"} =>
              e.party \in Parties /\ Came(e.party) /\ e.table \in Tables
      /\ e.kind \in {"pair", "source", "merge"} =>
              e.party \in Parties /\ e.other \in Parties /\ e.party # e.other /\ Came(e.party)
  <2>1. CASE LockTable(w)
    <3>1. PICK t \in Tables : IsFree(t) /\ Send(w, "seat", NoParty, NoParty, t)
      BY <2>1 DEF LockTable
    <3> QED BY <1>3, <3>1 DEF Send, Errands
  <2>2. CASE ReadToClose(w)
    <3>1. PICK p \in Parties : party[p].open /\ Send(w, "count", p, NoParty, party[p].at)
      BY <2>2 DEF ReadToClose
    <3>2. party[p].at \in Tables /\ Came(p)
      BY <1>1, <3>1 DEF FloorInv, PartiesCome, Came, FloorTypeOK
    <3> QED BY <1>3, <3>1, <3>2 DEF Send, Errands
  <2>3. CASE ReadToTransfer(w)
    <3>1. PICK p \in Parties : party[p].open /\ Send(w, "transfer", p, NoParty, party[p].at)
      BY <2>3 DEF ReadToTransfer
    <3>2. party[p].at \in Tables /\ Came(p)
      BY <1>1, <3>1 DEF FloorInv, PartiesCome, Came, FloorTypeOK
    <3> QED BY <1>3, <3>1, <3>2 DEF Send, Errands
  <2>4. CASE ReadPair(w)
    <3>1. PICK p, q \in Parties : p # q /\ party[p].open /\ Send(w, "pair", p, q, NoTable)
      BY <2>4 DEF ReadPair
    <3>2. Came(p)
      BY <3>1 DEF FloorInv, PartiesCome
    <3> QED BY <1>3, <3>1, <3>2 DEF Send, Errands
  <2>7. CASE CountOrders(w)
    <3>1. errand' = [errand EXCEPT ![w] = [errand[w] EXCEPT !.kind = "close"]]
      BY <2>7, <1>1 DEF CountOrders, FloorTypeOK
    <3>2. errand[w].kind = "count" /\ errand[w] \in Errands
      BY <2>7, <1>1 DEF CountOrders, FloorTypeOK, Errands
    <3> QED BY <1>3, <3>1, <3>2 DEF Errands, FloorInv, ErrandsNameParties
  <2>5. CASE LockSource(w) \/ LockTarget(w)
    <3>1. PICK k \in {"source", "merge"} : errand' = [errand EXCEPT ![w] = [errand[w] EXCEPT !.kind = k]]
      BY <2>5, <1>1 DEF LockSource, LockTarget, FloorTypeOK
    <3>2. errand[w].kind \in {"pair", "source"}
      BY <2>5 DEF LockSource, LockTarget
    <3>3. errand[w] \in Errands
      BY <1>1 DEF FloorTypeOK, Errands
    <3> QED BY <1>3, <3>1, <3>2, <3>3 DEF Errands, FloorInv, ErrandsNameParties
  <2>6. CASE Abandon(w)
    BY <1>3, <2>6 DEF Abandon, Done, NoErrand, Errands
  <2> QED BY <2>1, <2>2, <2>3, <2>4, <2>5, <2>6, <2>7
<1> HIDE DEF e
<1>4. FloorTypeOK'
  BY <1>1, <1>2, <1>3 DEF FloorTypeOK, Errands
<1>5. PartiesCome' /\ OnePartyPerTable' /\ MergesEndSomewhere'
  BY <1>1 DEF FloorInv, PartiesCome, OnePartyPerTable, MergesEndSomewhere, Came
<1>6. ErrandsNameParties'
  BY <1>1, <1>2, <1>3 DEF FloorInv, ErrandsNameParties, Came
<1>7. SeatsAreHeld'
  <2>1. e.kind = "seat" =>
          OpenAt(e.table) = {} /\ \A v \in Waiters :
             ~ (errand[v].kind = "seat" /\ errand[v].table = e.table)
    BY <1>2 DEF IsFree, TableLocked
  <2>2. \A t : OpenAt(t)' = OpenAt(t)
    BY <1>1 DEF OpenAt
  <2> QED BY <1>2, <1>3, <2>1, <2>2 DEF FloorInv, SeatsAreHeld
<1> QED BY <1>4, <1>5, <1>6, <1>7 DEF FloorInv

HasToSeat(w, t) == errand[w].kind = "seat" /\ errand[w].table = t

\* A request that ends leaves what the others know as it is.
LEMMA OthersKnow ==
    ASSUME FloorInv, NEW w \in Waiters, errand' = [errand EXCEPT ![w] = NoErrand],
           \A v \in Waiters \ {w}, t \in Tables : HasToSeat(v, t) => OpenAt(t)' = {},
           \A p \in Parties : Came(p) => Came(p)'
    PROVE  SeatsAreHeld' /\ ErrandsNameParties' /\ errand' \in [Waiters -> Errands]
<1>1. errand \in [Waiters -> Errands]
  BY DEF FloorInv, FloorTypeOK, Errands
<1>2. \A v \in Waiters : errand'[v] = IF v = w THEN NoErrand ELSE errand[v]
  BY <1>1
<1>3. SeatsAreHeld'
  BY <1>2 DEF FloorInv, SeatsAreHeld, HasToSeat, NoErrand
<1>4. ErrandsNameParties'
  BY <1>2 DEF FloorInv, ErrandsNameParties, NoErrand
<1>5. errand' \in [Waiters -> Errands]
  BY <1>1 DEF NoErrand, Errands
<1> QED BY <1>3, <1>4, <1>5

LEMMA Seats ==
    ASSUME FloorInv, NEW w \in Waiters, Seat(w)
    PROVE  FloorInv'
<1> DEFINE t == errand[w].table
<1>1. /\ FloorTypeOK /\ UNCHANGED <<bill, into>> /\ errand' = [errand EXCEPT ![w] = NoErrand]
      /\ tableStatus' = [tableStatus EXCEPT ![t] = "OCCUPIED"]
      /\ t \in Tables /\ OpenAt(t) = {}
      /\ \A v \in Waiters \ {w} : errand[v].kind = "seat" => errand[v].table # t
  BY DEF Seat, Done, FloorInv, SeatsAreHeld
<1>2. PICK p \in Parties : ~Came(p) /\ party' = [party EXCEPT ![p] = [at |-> t, open |-> TRUE]]
  BY DEF Seat
<1> HIDE DEF t
<1>3. /\ ~party[p].open /\ into[p] = NoParty
      /\ \A q \in Parties : party'[q] = IF q = p THEN [at |-> t, open |-> TRUE] ELSE party[q]
  BY <1>1, <1>2 DEF FloorInv, PartiesCome, FloorTypeOK
<1>4. PartiesCome'
  BY <1>1, <1>3, FloorAssumption DEF FloorInv, PartiesCome, Came
<1>5. \A v \in Waiters \ {w}, u \in Tables : HasToSeat(v, u) => OpenAt(u)' = {}
  BY <1>1, <1>3 DEF FloorInv, SeatsAreHeld, HasToSeat, OpenAt
<1>10. \A q \in Parties : Came(q) => Came(q)'
  BY <1>1, <1>3, FloorAssumption DEF Came
<1>6. SeatsAreHeld' /\ ErrandsNameParties' /\ errand' \in [Waiters -> Errands]
  BY <1>1, <1>5, <1>10, OthersKnow
<1>7. FloorTypeOK'
  BY <1>1, <1>2, <1>6 DEF FloorTypeOK, Errands, TableStatus
<1>8. OnePartyPerTable'
  BY <1>1, <1>3 DEF FloorInv, OnePartyPerTable, OpenAt
<1>9. MergesEndSomewhere'
  BY <1>1 DEF FloorInv, MergesEndSomewhere
<1> QED BY <1>4, <1>6, <1>7, <1>8, <1>9 DEF FloorInv

LEMMA Closes ==
    ASSUME FloorInv, NEW w \in Waiters, CloseSession(w)
    PROVE  FloorInv'
<1> DEFINE p == errand[w].party
<1>1. /\ FloorTypeOK /\ UNCHANGED <<bill, into>> /\ errand' = [errand EXCEPT ![w] = NoErrand]
      /\ party' = [party EXCEPT ![p] = [@ EXCEPT !.open = FALSE]]
      /\ p \in Parties
  BY DEF CloseSession, Done, FloorInv, ErrandsNameParties
<1>2. tableStatus' \in [Tables -> TableStatus]
  BY <1>1 DEF CloseSession, FloorTypeOK, TableStatus
<1> HIDE DEF p
<1>3. /\ \A q \in Parties : party'[q].at = party[q].at /\ (party'[q].open => party[q].open)
      /\ party' \in [Parties -> [at : Tables \cup {NoTable}, open : BOOLEAN]]
  BY <1>1 DEF FloorTypeOK
<1>4. PartiesCome' /\ OnePartyPerTable' /\ MergesEndSomewhere'
  BY <1>1, <1>3 DEF FloorInv, PartiesCome, OnePartyPerTable, MergesEndSomewhere, Came
<1>5. \A v \in Waiters \ {w}, t \in Tables : HasToSeat(v, t) => OpenAt(t)' = {}
  BY <1>3 DEF FloorInv, SeatsAreHeld, HasToSeat, OpenAt
<1>6. SeatsAreHeld' /\ ErrandsNameParties' /\ errand' \in [Waiters -> Errands]
  BY <1>1, <1>3, <1>5, OthersKnow DEF Came
<1> QED BY <1>1, <1>2, <1>3, <1>4, <1>6 DEF FloorInv, FloorTypeOK, Errands

LEMMA Transfers ==
    ASSUME FloorInv, NEW w \in Waiters, Transfer(w)
    PROVE  FloorInv'
<1> DEFINE p == errand[w].party
<1>1. /\ FloorTypeOK /\ UNCHANGED <<bill, into>> /\ errand' = [errand EXCEPT ![w] = NoErrand]
      /\ p \in Parties
  BY DEF Transfer, Done, FloorInv, ErrandsNameParties
<1>2. PICK t \in Tables :
        /\ IsFree(t)
        /\ party' = [party EXCEPT ![p] = [@ EXCEPT !.at = t]]
        /\ tableStatus' \in [Tables -> TableStatus]
  BY <1>1 DEF Transfer, FloorTypeOK, TableStatus
<1>3. /\ OpenAt(t) = {}
      /\ \A v \in Waiters : errand[v].kind = "seat" => errand[v].table # t
  BY <1>2 DEF IsFree, TableLocked
<1> HIDE DEF p
<1>4. /\ \A q \in Parties : /\ party'[q].at = IF q = p THEN t ELSE party[q].at
                            /\ party'[q].open = party[q].open
      /\ party' \in [Parties -> [at : Tables \cup {NoTable}, open : BOOLEAN]]
  BY <1>1, <1>2 DEF FloorTypeOK
<1>5. PartiesCome' /\ OnePartyPerTable' /\ MergesEndSomewhere'
  BY <1>1, <1>3, <1>4, FloorAssumption
  DEF FloorInv, PartiesCome, OnePartyPerTable, MergesEndSomewhere, Came, OpenAt
<1>6. \A v \in Waiters \ {w}, u \in Tables : HasToSeat(v, u) => OpenAt(u)' = {}
  BY <1>3, <1>4 DEF FloorInv, SeatsAreHeld, HasToSeat, OpenAt
<1>7. SeatsAreHeld' /\ ErrandsNameParties' /\ errand' \in [Waiters -> Errands]
  BY <1>1, <1>4, <1>6, FloorAssumption, OthersKnow DEF Came
<1> QED BY <1>1, <1>2, <1>4, <1>5, <1>7 DEF FloorInv, FloorTypeOK, Errands

\* The target of a merge is open, so it was never merged into anything.
LEMMA Merges ==
    ASSUME FloorInv, NEW w \in Waiters, Merge(w)
    PROVE  FloorInv'
<1> DEFINE p == errand[w].party
           q == errand[w].other
<1>1. /\ FloorTypeOK /\ errand' = [errand EXCEPT ![w] = NoErrand]
      /\ party[p].open /\ party[q].open
      /\ party' = [party EXCEPT ![p] = [@ EXCEPT !.open = FALSE]]
      /\ into' = [into EXCEPT ![p] = q]
      /\ p \in Parties /\ q \in Parties /\ p # q /\ Came(p)
  BY DEF Merge, BothOpen, Done, FloorInv, ErrandsNameParties
<1>2. /\ tableStatus' \in [Tables -> TableStatus]
      /\ bill' \in [Bills -> [on : Parties \cup {NoParty}, active : BOOLEAN]]
  <2>1. tableStatus' \in [Tables -> TableStatus]
    BY <1>1 DEF Merge, FloorTypeOK, TableStatus
  <2>2. bill' = [b \in Bills |-> IF bill[b].on = p THEN [bill[b] EXCEPT !.on = q] ELSE bill[b]]
    BY DEF Merge
  <2>3. \A b \in Bills : bill[b] \in [on : Parties \cup {NoParty}, active : BOOLEAN]
    BY <1>1 DEF FloorTypeOK
  <2> HIDE DEF p, q
  <2>4. \A b \in Bills :
          [bill[b] EXCEPT !.on = q] \in [on : Parties \cup {NoParty}, active : BOOLEAN]
    BY <1>1, <2>3
  <2> QED BY <2>1, <2>2, <2>3, <2>4
<1>3. into[q] = NoParty /\ into[p] = NoParty
  BY <1>1 DEF FloorInv, PartiesCome, FloorTypeOK
<1> HIDE DEF p, q
<1>4. /\ \A r \in Parties : /\ party'[r].at = party[r].at
                            /\ party'[r].open => party[r].open
                            /\ into'[r] = IF r = p THEN q ELSE into[r]
      /\ ~party'[p].open
      /\ party' \in [Parties -> [at : Tables \cup {NoTable}, open : BOOLEAN]]
      /\ into' \in [Parties -> Parties \cup {NoParty}]
  BY <1>1 DEF FloorTypeOK
<1>5. PartiesCome' /\ OnePartyPerTable'
  BY <1>1, <1>4 DEF FloorInv, PartiesCome, OnePartyPerTable, Came
<1>6. MergesEndSomewhere'
  BY <1>1, <1>3, <1>4, FloorAssumption DEF FloorInv, MergesEndSomewhere
<1>7. \A v \in Waiters \ {w}, t \in Tables : HasToSeat(v, t) => OpenAt(t)' = {}
  BY <1>4 DEF FloorInv, SeatsAreHeld, HasToSeat, OpenAt
<1>8. SeatsAreHeld' /\ ErrandsNameParties' /\ errand' \in [Waiters -> Errands]
  BY <1>1, <1>4, <1>7, OthersKnow DEF Came
<1> QED BY <1>1, <1>2, <1>4, <1>5, <1>6, <1>8 DEF FloorInv, FloorTypeOK, Errands

\* Orders and wiped tables do not move parties.
LEMMA OrdersMove ==
    ASSUME FloorInv,
           \/ \E b \in Bills : OrderAtTable(b) \/ AssignTable(b) \/ SettleBill(b)
           \/ \E t \in Tables : Wipe(t)
           \/ UNCHANGED floorVars
    PROVE  FloorInv'
<1>1. FloorTypeOK /\ UNCHANGED <<party, into, errand>>
  BY DEF OrderAtTable, AssignTable, PutOnTable, SettleBill, Wipe, floorVars, FloorInv
<1>2. tableStatus' \in [Tables -> TableStatus]
  BY <1>1 DEF OrderAtTable, AssignTable, PutOnTable, SettleBill, Wipe, floorVars,
              FloorTypeOK, TableStatus
<1>3. bill' \in [Bills -> [on : Parties \cup {NoParty}, active : BOOLEAN]]
  <2>1. ASSUME NEW b \in Bills, PutOnTable(b) 
        PROVE  bill' \in [Bills -> [on : Parties \cup {NoParty}, active : BOOLEAN]]
    BY <1>1, <2>1 DEF PutOnTable, FloorTypeOK
  <2>2. ASSUME NEW b \in Bills, SettleBill(b) 
        PROVE  bill' \in [Bills -> [on : Parties \cup {NoParty}, active : BOOLEAN]]
    BY <1>1, <2>2 DEF SettleBill, FloorTypeOK
  <2>3. CASE UNCHANGED bill
    BY <1>1, <2>3 DEF FloorTypeOK
  <2> QED BY <2>1, <2>2, <2>3 DEF OrderAtTable, AssignTable, Wipe, floorVars
<1> QED BY <1>1, <1>2, <1>3
        DEF FloorInv, FloorTypeOK, PartiesCome, SeatsAreHeld, ErrandsNameParties,
            OnePartyPerTable, MergesEndSomewhere, Came, OpenAt

LEMMA FloorStep == FloorInv /\ [FloorNext]_floorVars => FloorInv'
BY OnlyReads, Seats, Closes, Transfers, Merges, OrdersMove DEF FloorNext

LEMMA FloorAlways == FloorSpec => []FloorInv
BY FloorStart, FloorStep, PTL DEF FloorSpec

-----------------------------------------------------------------------------
(* What follows.                                                           *)

\* Whoever opens, moves, closes or merges at once: tables, parties and orders
\* keep their types.
THEOREM FloorTyping == FloorSpec => []FloorTypeOK
BY FloorAlways, PTL DEF FloorInv

\* Two waiters never seat two parties at one table, whether they open it or
\* transfer to it.
THEOREM NoTableIsShared == FloorSpec => []OnePartyPerTable
BY FloorAlways, PTL DEF FloorInv

\* Merges that race in opposite directions leave one party of the pair open.
THEOREM MergesDoNotMeet == FloorSpec => []MergesEndSomewhere
BY FloorAlways, PTL DEF FloorInv

-----------------------------------------------------------------------------
(* Settings: what a reader is served was committed, cache or not.          *)

\* What a cache entry or a query in flight may hold: the overrides of a context
\* as one committed state of the table had them.
Committed(c, overrides) == \E table \in past : \A s \in c : overrides[s] = table[s]

\* What is cached, in flight and being written are functions.
Shapes ==
    /\ cached = [c \in Contexts |-> cached[c]]
    /\ query = [r \in Readers |-> query[r]]
    /\ writing = [w \in Admins |-> writing[w]]

\* So is what a query in flight read.
QueriesWereCommitted ==
    \A r \in Readers : query[r] # NoQuery =>
        /\ query[r].context \in Contexts
        /\ Committed(query[r].context, query[r].found)

\* The strengthening.
SettingsInv ==
    /\ SettingsTypeOK /\ Shapes
    /\ stored \in past
    /\ ServedWasCommitted /\ QueriesWereCommitted

\* Nothing is cached at first.
LEMMA SettingsStart == SettingsInit => SettingsInv
<1> SUFFICES ASSUME SettingsInit PROVE SettingsInv
  OBVIOUS
<1>1. SettingsTypeOK
  BY SettingsAssumption DEF SettingsInit, SettingsTypeOK, Overrides
<1> QED BY <1>1 DEF SettingsInit, SettingsInv, Shapes, ServedWasCommitted, QueriesWereCommitted

\* A step of a writer that leaves table, cache and queries alone.
LEMMA WriterStepKeeps ==
    ASSUME SettingsInv, NEW w \in Admins, NEW edit \in Changes \cup {NoChange},
           writing' = [writing EXCEPT ![w] = edit],
           UNCHANGED <<stored, pk, cached, query, past>>, writes' \in Nat
    PROVE  SettingsInv'
<1>1. SettingsTypeOK'
  <2>1. \A v \in Admins : writing'[v] = IF v = w THEN edit ELSE writing[v]
    BY DEF SettingsInv, Shapes
  <2>2. \A v \in Admins : writing'[v] = NoChange \/ writing'[v] \in Changes
    BY <2>1 DEF SettingsInv, SettingsTypeOK
  <2> QED BY <2>2 DEF SettingsInv, SettingsTypeOK, Found, Overrides, Changes, Scopes
<1>2. Shapes'
  BY DEF SettingsInv, Shapes
<1>3. ServedWasCommitted' /\ QueriesWereCommitted'
  BY DEF SettingsInv, ServedWasCommitted, QueriesWereCommitted, Committed, NoQuery
<1> QED BY <1>1, <1>2, <1>3 DEF SettingsInv

\* Every step of a request keeps it.
LEMMA SettingsStep == SettingsInv /\ [SettingsNext]_settingsVars => SettingsInv'
<1> SUFFICES ASSUME SettingsInv, [SettingsNext]_settingsVars PROVE SettingsInv'
  OBVIOUS
<1>1. ASSUME NEW r \in Readers, Query(r) PROVE SettingsInv'
  <2> PICK c \in Contexts :
          query' = [query EXCEPT ![r] = [context |-> c, found |-> [s \in c |-> stored[s]]]]
    BY <1>1 DEF Query
  <2> DEFINE read == [s \in c |-> stored[s]]
             asked == [context |-> c, found |-> read]
  <2>1. UNCHANGED <<stored, pk, cached, writing, past, writes>>
    BY <1>1 DEF Query
  <2>2. read \in Found(c) /\ Committed(c, read)
    <3>1. c \subseteq Scopes /\ stored \in [Scopes -> Values \cup {Inherited}] /\ stored \in past
      BY DEF SettingsInv, SettingsTypeOK, Overrides, Scopes
    <3>2. \A s \in c : read[s] = stored[s]
      OBVIOUS
    <3> QED BY <3>1, <3>2 DEF Found, Committed
  <2> HIDE DEF read
  <2>3. asked.context = c /\ asked.found = read
    OBVIOUS
  <2> HIDE DEF asked
  <2>4. query' = [query EXCEPT ![r] = asked]
    BY DEF asked, read
  <2>5. \A q \in Readers : query'[q] = IF q = r THEN asked ELSE query[q]
    BY <2>4 DEF SettingsInv, Shapes
  <2>6. \A q \in Readers : query'[q] = NoQuery \/ query'[q].found \in Found(query'[q].context)
    BY <2>2, <2>3, <2>5 DEF SettingsInv, SettingsTypeOK
  <2>7. SettingsTypeOK'
    BY <2>1, <2>6 DEF SettingsInv, SettingsTypeOK, Found, Overrides, Changes, Scopes, NoQuery
  <2>8. Shapes' /\ ServedWasCommitted'
    BY <2>1, <2>4 DEF SettingsInv, Shapes, ServedWasCommitted
  <2>9. QueriesWereCommitted'
    BY <2>1, <2>2, <2>3, <2>5 DEF SettingsInv, QueriesWereCommitted, Committed, NoQuery
  <2> QED BY <2>1, <2>7, <2>8, <2>9 DEF SettingsInv
<1>2. ASSUME NEW r \in Readers, Fill(r) PROVE SettingsInv'
  <2>1. /\ UNCHANGED <<stored, pk, writing, past, writes>>
        /\ cached' = [cached EXCEPT ![query[r].context] = query[r].found]
        /\ query'  = [query EXCEPT ![r] = NoQuery]
    BY <1>2 DEF Fill
  <2>2. query[r].context \in Contexts /\ query[r].found \in Found(query[r].context)
        /\ Committed(query[r].context, query[r].found)
    BY <1>2 DEF Fill, SettingsInv, SettingsTypeOK, QueriesWereCommitted
  <2>3. \A c \in Contexts : cached'[c] = IF c = query[r].context THEN query[r].found ELSE cached[c]
    BY <2>1 DEF SettingsInv, Shapes
  <2>4. \A q \in Readers : query'[q] = IF q = r THEN NoQuery ELSE query[q]
    BY <2>1 DEF SettingsInv, Shapes
  <2>5. SettingsTypeOK'
    BY <2>1, <2>2, <2>3, <2>4 DEF SettingsInv, SettingsTypeOK, Found, Overrides, Changes
  <2>6. Shapes'
    BY <2>1 DEF SettingsInv, Shapes
  <2>7. ServedWasCommitted'
    BY <2>1, <2>2, <2>3 DEF SettingsInv, ServedWasCommitted, Committed
  <2>8. QueriesWereCommitted'
    BY <2>1, <2>4 DEF SettingsInv, QueriesWereCommitted, Committed, NoQuery
  <2> QED BY <2>1, <2>5, <2>6, <2>7, <2>8 DEF SettingsInv
<1>3. ASSUME NEW c \in Contexts, Expire(c) PROVE SettingsInv'
  <2>1. SettingsTypeOK'
    BY <1>3 DEF Expire, SettingsInv, Shapes, SettingsTypeOK, Found, Overrides, Changes, Scopes
  <2>2. Shapes'
    BY <1>3 DEF Expire, SettingsInv, Shapes
  <2>3. ServedWasCommitted' /\ QueriesWereCommitted'
    BY <1>3 DEF Expire, SettingsInv, Shapes, ServedWasCommitted, QueriesWereCommitted, Committed, NoQuery
  <2> QED BY <1>3, <2>1, <2>2, <2>3 DEF Expire, SettingsInv
<1>4. ASSUME NEW w \in Admins, SetValue(w) \/ FindRow(w) \/ DeleteRow(w) \/ RollBackChange(w)
      PROVE  SettingsInv'
  <2>1. \E edit \in Changes \cup {NoChange} : writing' = [writing EXCEPT ![w] = edit]
    <3>1. CASE SetValue(w)
      <4>1. PICK s \in Scopes, v \in Values :
              Write(w, [kind |-> "set", scope |-> s, value |-> v, pk |-> pk[s], step |-> "written"])
        BY <3>1 DEF SetValue
      <4> QED BY <4>1 DEF Write, Changes, SettingsInv, SettingsTypeOK
    <3>2. CASE FindRow(w)
      BY <3>2 DEF FindRow, Write, Changes, SettingsInv, SettingsTypeOK
    <3>3. CASE DeleteRow(w)
      <4>1. writing[w] \in Changes
        BY <3>3 DEF DeleteRow, Step, SettingsInv, SettingsTypeOK
      <4>2. [writing[w] EXCEPT !.step = "written"] \in Changes
        BY <4>1 DEF Changes
      <4> QED BY <3>3, <4>2 DEF DeleteRow, Write
    <3>4. CASE RollBackChange(w)
      BY <3>4 DEF RollBackChange, Write
    <3> QED BY <1>4, <3>1, <3>2, <3>3, <3>4
  <2>2. UNCHANGED <<stored, pk, cached, query, past>> /\ writes' \in Nat
    BY <1>4 DEF SetValue, FindRow, DeleteRow, RollBackChange, SettingsInv, SettingsTypeOK
  <2> QED BY <2>1, <2>2, WriterStepKeeps
<1>5. ASSUME NEW w \in Admins, Invalidate(w) PROVE SettingsInv'
  <2>1. UNCHANGED <<stored, pk, query, past, writes>> /\ cached' = [c \in Contexts |-> NoOverrides]
    BY <1>5 DEF Invalidate, Invalidated
  <2>2. \E edit \in Changes : writing' = [writing EXCEPT ![w] = edit]
    <3>1. writing[w] \in Changes
      BY <1>5 DEF Invalidate, Step, SettingsInv, SettingsTypeOK
    <3>2. [writing[w] EXCEPT !.step = "invalidated"] \in Changes
      BY <3>1 DEF Changes
    <3> QED BY <1>5, <3>2 DEF Invalidate, Write
  <2>3. \A v \in Admins : writing'[v] = NoChange \/ writing'[v] \in Changes
    BY <2>2 DEF SettingsInv, SettingsTypeOK, Shapes
  <2>4. SettingsTypeOK'
    BY <2>1, <2>3 DEF SettingsInv, SettingsTypeOK, Found, Overrides, Changes, Scopes
  <2>5. Shapes'
    BY <2>1, <2>2 DEF SettingsInv, Shapes
  <2>6. ServedWasCommitted' /\ QueriesWereCommitted'
    BY <2>1 DEF SettingsInv, ServedWasCommitted, QueriesWereCommitted, Committed, NoQuery
  <2> QED BY <2>1, <2>4, <2>5, <2>6 DEF SettingsInv
<1>6. ASSUME NEW w \in Admins, CommitChange(w) PROVE SettingsInv'
  <2>1. /\ UNCHANGED <<cached, query, writes>>
        /\ writing' = [writing EXCEPT ![w] = NoChange]
        /\ past' = past \cup {stored'}
    BY <1>6 DEF CommitChange, Write
  <2>2. writing[w] \in Changes
    BY <1>6 DEF CommitChange, Step, SettingsInv, SettingsTypeOK
  <2>3. stored' \in Overrides /\ pk' \in [Scopes -> Nat]
    BY <1>6, <2>2 DEF CommitChange, SettingsInv, SettingsTypeOK, Overrides, Changes
  <2>4. \A v \in Admins : writing'[v] = NoChange \/ writing'[v] \in Changes
    BY <2>1 DEF SettingsInv, SettingsTypeOK, Shapes
  <2>5. SettingsTypeOK'
    BY <2>1, <2>3, <2>4 DEF SettingsInv, SettingsTypeOK, Found, Changes, Overrides, Scopes
  <2>6. Shapes'
    BY <2>1 DEF SettingsInv, Shapes
  <2>7. ServedWasCommitted'
    BY <2>1 DEF SettingsInv, ServedWasCommitted
  <2>8. QueriesWereCommitted'
    <3>1. \A c, o : Committed(c, o) => Committed(c, o)'
      BY <2>1 DEF Committed
    <3> QED BY <2>1, <3>1 DEF SettingsInv, QueriesWereCommitted, NoQuery
  <2> QED BY <2>1, <2>5, <2>6, <2>7, <2>8 DEF SettingsInv
<1>7. CASE UNCHANGED settingsVars
  <2> USE <1>7 DEF settingsVars
  <2>1. SettingsTypeOK'
    BY DEF SettingsInv, SettingsTypeOK, Found, Overrides, Changes, Scopes
  <2>2. Shapes' /\ ServedWasCommitted' /\ QueriesWereCommitted'
    BY DEF SettingsInv, Shapes, ServedWasCommitted, QueriesWereCommitted, Committed, NoQuery
  <2> QED BY <2>1, <2>2 DEF SettingsInv
<1> QED BY <1>1, <1>2, <1>3, <1>4, <1>5, <1>6, <1>7 DEF SettingsNext

\* configuration/resolver.py: what a request is served was committed at one time, whatever is written and evicted meanwhile.
THEOREM ServedWasCommittedHolds == SettingsSpec => [](SettingsTypeOK /\ ServedWasCommitted)
<1>1. SettingsInv => SettingsTypeOK /\ ServedWasCommitted
  BY DEF SettingsInv
<1> QED BY <1>1, SettingsStart, SettingsStep, PTL DEF SettingsSpec

-----------------------------------------------------------------------------
(* Attendance: the row and its trail.                                      *)

\* What the trail holds of a day.
Events == [kind : {"CHECK_IN", "CHECK_OUT", "AMENDED"}, at : MaybeHour]

\* A row begins with an arrival, and a correction is of a row that exists.
RowsBeginWithAnArrival ==
    \A d \in Dates : Punches(d) # {} => punch[d].checked_in_at \in Hours
CopiesAreOfRows ==
    \A m \in Managers : copy[m] # NoCopy => copy[m].on \in Dates /\ HasRow(copy[m].on)

\* The strengthening.
AttendanceInv ==
    /\ AttendanceTypeOK
    /\ RowsBeginWithAnArrival /\ CopiesAreOfRows /\ TrailExplainsPunches

\* Nobody came yet.
LEMMA AttendanceStart == AttendanceInit => AttendanceInv
<1> SUFFICES ASSUME AttendanceInit PROVE AttendanceInv
  OBVIOUS
<1>1. NoRow \in AttendanceRows
  BY DEF NoRow, AttendanceRows, MaybeHour
<1>2. AttendanceTypeOK
  BY <1>1 DEF AttendanceInit, AttendanceTypeOK, NoCopy
<1>3. \A d \in Dates : Punches(d) = {}
  BY DEF AttendanceInit, Punches
<1> QED BY <1>2, <1>3 DEF AttendanceInit, AttendanceInv, RowsBeginWithAnArrival, CopiesAreOfRows,
                          TrailExplainsPunches

\* The trail of a date grows by an event at its end.
LEMMA TrailGrows ==
    ASSUME AttendanceInv, NEW d \in Dates, NEW e \in Events, Record(d, e)
    PROVE  /\ trail' \in [Dates -> Seq(Events)]
           /\ \A c \in Dates \ {d} : trail'[c] = trail[c]
           /\ DOMAIN trail[d] = 1 .. Len(trail[d]) /\ Len(trail[d]) \in Nat
           /\ DOMAIN trail'[d] = 1 .. Len(trail[d]) + 1
           /\ trail'[d][Len(trail[d]) + 1] = e
           /\ \A i \in 1 .. Len(trail[d]) : trail'[d][i] = trail[d][i]
<1>1. trail[d] \in Seq(Events) /\ trail' = [trail EXCEPT ![d] = Append(trail[d], e)]
  BY DEF AttendanceInv, AttendanceTypeOK, Events, Record
<1>2. /\ Append(trail[d], e) \in Seq(Events)
      /\ DOMAIN trail[d] = 1 .. Len(trail[d]) /\ Len(trail[d]) \in Nat
      /\ DOMAIN Append(trail[d], e) = 1 .. Len(trail[d]) + 1
      /\ Append(trail[d], e)[Len(trail[d]) + 1] = e
      /\ \A i \in 1 .. Len(trail[d]) : Append(trail[d], e)[i] = trail[d][i]
  BY <1>1
<1>3. trail \in [Dates -> Seq(Events)]
  BY DEF AttendanceInv, AttendanceTypeOK, Events
<1> HIDE DEF Events
<1> QED BY <1>1, <1>2, <1>3

\* A punch on a date: an arrival keeps the one there is or is the first, and the row
\* says what the last event says.
LEMMA PunchKeeps ==
    ASSUME AttendanceInv, NEW d \in Dates, NEW at \in Hours, NEW kind \in {"CHECK_IN", "CHECK_OUT"},
           Record(d, Event(kind, at)), NEW row \in AttendanceRows,
           punch' = [punch EXCEPT ![d] = row],
           row.checked_in_at = IF HasRow(d) THEN punch[d].checked_in_at ELSE at,
           row.checked_out_at = IF kind = "CHECK_OUT" THEN at ELSE Unset,
           UNCHANGED copy
    PROVE  AttendanceInv'
<1> USE AttendanceAssumption
<1> DEFINE n == Len(trail[d])
           e == Event(kind, at)
<1>1. e \in Events /\ e.kind = kind /\ e.at = at
  BY DEF Event, Events, MaybeHour
<1>2. /\ trail' \in [Dates -> Seq(Events)]
      /\ \A c \in Dates \ {d} : trail'[c] = trail[c]
      /\ DOMAIN trail[d] = 1 .. n /\ n \in Nat
      /\ DOMAIN trail'[d] = 1 .. n + 1
      /\ trail'[d][n + 1] = e
      /\ \A i \in 1 .. n : trail'[d][i] = trail[d][i]
  BY <1>1, TrailGrows
<1> HIDE DEF n, e
<1>3. punch' \in [Dates -> AttendanceRows] /\ punch'[d] = row
      /\ \A c \in Dates \ {d} : punch'[c] = punch[c]
  BY DEF AttendanceInv, AttendanceTypeOK
<1>4. AttendanceTypeOK'
  BY <1>2, <1>3 DEF AttendanceInv, AttendanceTypeOK, Events
<1>5. Punches(d)' = Punches(d) \cup {n + 1} /\ \A i \in Punches(d) : i \in 1 .. n
  BY <1>1, <1>2 DEF Punches
<1>6. \A c \in Dates \ {d} : Punches(c)' = Punches(c)
  BY <1>2 DEF Punches
<1>7. row.checked_in_at \in Hours
  BY DEF HasRow, AttendanceInv, RowsBeginWithAnArrival, TrailExplainsPunches
<1>8. RowsBeginWithAnArrival'
  BY <1>3, <1>6, <1>7 DEF AttendanceInv, RowsBeginWithAnArrival
<1>9. CopiesAreOfRows'
  <2>1. row # NoRow
    BY <1>7 DEF NoRow
  <2> QED BY <1>3, <2>1 DEF AttendanceInv, CopiesAreOfRows, HasRow
<1>10. TrailExplainsPunches'
  <2> SUFFICES ASSUME NEW c \in Dates
               PROVE  /\ Punches(c)' = {} => punch'[c] = NoRow
                      /\ \A i \in Punches(c)' :
                           /\ IsFirst(i, c)' => punch'[c].checked_in_at = trail'[c][i].at
                           /\ IsLast(i, c)' =>
                                punch'[c].checked_out_at =
                                  IF trail'[c][i].kind = "CHECK_OUT" THEN trail'[c][i].at ELSE Unset
    BY DEF TrailExplainsPunches
  <2>1. CASE c # d
    <3>1. \A i \in Punches(c) : (IsFirst(i, c)' <=> IsFirst(i, c)) /\ (IsLast(i, c)' <=> IsLast(i, c))
      BY <1>6, <2>1 DEF IsFirst, IsLast
    <3> QED BY <1>2, <1>3, <1>6, <2>1, <3>1 DEF AttendanceInv, TrailExplainsPunches
  <2>2. CASE c = d
    <3>1. Punches(c)' # {}
      BY <1>5, <2>2
    <3>2. ASSUME NEW i \in Punches(d)', IsFirst(i, d)' PROVE row.checked_in_at = trail'[d][i].at
      <4>1. CASE i \in Punches(d)
        <5>1. IsFirst(i, d)
          BY <1>5, <3>2 DEF IsFirst
        <5>2. punch[d].checked_in_at = trail[d][i].at /\ trail'[d][i] = trail[d][i]
          BY <1>2, <1>5, <4>1, <5>1 DEF AttendanceInv, TrailExplainsPunches
        <5>3. HasRow(d)
          BY <4>1 DEF AttendanceInv, RowsBeginWithAnArrival, HasRow, NoRow
        <5> QED BY <5>2, <5>3
      <4>2. CASE i \notin Punches(d)
        <5>1. i = n + 1
          BY <1>5, <3>2, <4>2
        <5>2. Punches(d) = {}
          <6>1. \A j \in Punches(d) : n + 1 =< j /\ j =< n
            BY <1>2, <1>5, <3>2, <5>1 DEF IsFirst
          <6> QED BY <1>2, <1>5, <6>1
        <5>3. ~HasRow(d)
          BY <5>2 DEF AttendanceInv, TrailExplainsPunches, HasRow
        <5> QED BY <1>1, <1>2, <5>1, <5>3
      <4> QED BY <4>1, <4>2
    <3>3. ASSUME NEW i \in Punches(d)', IsLast(i, d)'
          PROVE  row.checked_out_at = IF trail'[d][i].kind = "CHECK_OUT" THEN trail'[d][i].at ELSE Unset
      <4>1. i = n + 1
        <5>1. n + 1 =< i /\ (i \in 1 .. n \/ i = n + 1)
          BY <1>5, <3>3 DEF IsLast
        <5> QED BY <1>2, <5>1
      <4> QED BY <1>1, <1>2, <4>1
    <3> QED BY <1>3, <2>2, <3>1, <3>2, <3>3
  <2> QED BY <2>1, <2>2
<1> QED BY <1>4, <1>8, <1>9, <1>10 DEF AttendanceInv

\* Every punch, correction and passing hour keeps it.
LEMMA AttendanceStep == AttendanceInv /\ [AttendanceNext]_attendanceVars => AttendanceInv'
<1> SUFFICES ASSUME AttendanceInv, [AttendanceNext]_attendanceVars PROVE AttendanceInv'
  OBVIOUS
<1> USE AttendanceAssumption
<1>1. ASSUME NEW at \in Hours, check_in(at) PROVE AttendanceInv'
  <2>1. PICK d : d = business_date_of(at) /\ d \in Dates
    BY DEF Dates
  <2> DEFINE row == IF HasRow(d) THEN Reopened(punch[d]) ELSE [NoRow EXCEPT !.checked_in_at = at]
  <2>2. /\ punch' = [punch EXCEPT ![d] = row] /\ Record(d, Event("CHECK_IN", at)) /\ UNCHANGED copy
    BY <1>1, <2>1 DEF check_in
  <2>3. punch[d] \in AttendanceRows
    BY <2>1 DEF AttendanceInv, AttendanceTypeOK
  <2>4. /\ row \in AttendanceRows
        /\ row.checked_in_at = IF HasRow(d) THEN punch[d].checked_in_at ELSE at
        /\ row.checked_out_at = Unset
    <3>1. CASE HasRow(d)
      BY <2>3, <3>1 DEF Reopened, AttendanceRows, MaybeHour
    <3>2. CASE ~HasRow(d)
      BY <3>2 DEF NoRow, AttendanceRows, MaybeHour
    <3> QED BY <3>1, <3>2
  <2> HIDE DEF row
  <2> QED BY <2>1, <2>2, <2>4, PunchKeeps
<1>2. ASSUME NEW at \in Hours, check_out(at) PROVE AttendanceInv'
  <2> PICK d \in OpenDates : /\ punch' = [punch EXCEPT ![d].checked_out_at = at]
                             /\ Record(d, Event("CHECK_OUT", at)) /\ UNCHANGED copy
    BY <1>2 DEF check_out
  <2> DEFINE row == [punch[d] EXCEPT !.checked_out_at = at]
  <2>1. d \in Dates /\ HasRow(d)
    BY DEF OpenDates
  <2>2. punch[d] \in AttendanceRows
    BY <2>1 DEF AttendanceInv, AttendanceTypeOK
  <2>3. /\ row \in AttendanceRows /\ row.checked_in_at = punch[d].checked_in_at
        /\ row.checked_out_at = at
    BY <2>2 DEF AttendanceRows, MaybeHour
  <2>4. punch' = [punch EXCEPT ![d] = row]
    OBVIOUS
  <2> HIDE DEF row
  <2>5. row.checked_in_at = IF HasRow(d) THEN punch[d].checked_in_at ELSE at
    BY <2>1, <2>3
  <2>6. PICK kind \in {"CHECK_IN", "CHECK_OUT"} : kind = "CHECK_OUT"
    OBVIOUS
  <2>7. Record(d, Event(kind, at)) /\ UNCHANGED copy
    BY <2>6
  <2>8. row.checked_out_at = IF kind = "CHECK_OUT" THEN at ELSE Unset
    BY <2>3, <2>6
  <2>9. d \in Dates /\ row \in AttendanceRows
    BY <2>1, <2>3
  <2> QED BY <2>4, <2>5, <2>7, <2>8, <2>9, PunchKeeps
<1>3. ASSUME NEW m \in Managers, FetchToAmend(m) PROVE AttendanceInv'
  <2> PICK d \in Dates : HasRow(d) /\ copy' = [copy EXCEPT ![m] = [on |-> d, row |-> punch[d]]]
    BY <1>3 DEF FetchToAmend
  <2>1. UNCHANGED <<punch, trail>>
    BY <1>3 DEF FetchToAmend
  <2>2. copy' \in [Managers -> [on : Dates \cup {Unset}, row : AttendanceRows]]
    BY DEF AttendanceInv, AttendanceTypeOK
  <2>3. \A k \in Managers : copy'[k] = copy[k] \/ copy'[k].on = d
    BY DEF AttendanceInv, AttendanceTypeOK
  <2>4. AttendanceTypeOK'
    BY <2>1, <2>2 DEF AttendanceInv, AttendanceTypeOK
  <2>5. CopiesAreOfRows'
    BY <2>1, <2>3 DEF AttendanceInv, CopiesAreOfRows, HasRow
  <2>6. RowsBeginWithAnArrival' /\ TrailExplainsPunches'
    BY <2>1 DEF AttendanceInv, RowsBeginWithAnArrival, TrailExplainsPunches, Punches, IsFirst, IsLast
  <2> QED BY <2>4, <2>5, <2>6 DEF AttendanceInv
<1>4. ASSUME NEW m \in Managers, amend(m) \/ RefuseToAmend(m) PROVE AttendanceInv'
  <2>1. copy[m] # NoCopy /\ copy' = [copy EXCEPT ![m] = NoCopy]
    BY <1>4 DEF amend, RefuseToAmend
  <2>2. NoCopy \in [on : Dates \cup {Unset}, row : AttendanceRows]
    BY DEF NoCopy, NoRow, AttendanceRows, MaybeHour
  <2>3. /\ copy' \in [Managers -> [on : Dates \cup {Unset}, row : AttendanceRows]]
        /\ \A k \in Managers : copy'[k] = copy[k] \/ copy'[k] = NoCopy
    BY <2>1, <2>2 DEF AttendanceInv, AttendanceTypeOK
  <2>4. CASE RefuseToAmend(m)
    <3>1. UNCHANGED <<punch, trail>>
      BY <2>4 DEF RefuseToAmend
    <3>2. AttendanceTypeOK'
      BY <2>3, <3>1 DEF AttendanceInv, AttendanceTypeOK
    <3>3. CopiesAreOfRows'
      BY <2>3, <3>1 DEF AttendanceInv, CopiesAreOfRows, HasRow
    <3>4. RowsBeginWithAnArrival' /\ TrailExplainsPunches'
      BY <3>1 DEF AttendanceInv, RowsBeginWithAnArrival, TrailExplainsPunches, Punches, IsFirst, IsLast
    <3> QED BY <3>2, <3>3, <3>4 DEF AttendanceInv
  <2>5. CASE amend(m)
    <3> DEFINE d == copy[m].on
    <3>1. d \in Dates /\ HasRow(d) /\ copy[m].row \in AttendanceRows /\ punch[d] \in AttendanceRows
      BY <2>1 DEF AttendanceInv, CopiesAreOfRows, AttendanceTypeOK
    <3>2. PICK new_in \in MaybeHour, new_out \in MaybeHour :
             /\ punch' = [punch EXCEPT ![d] = Saved(punch[d], Amended(copy[m].row, new_in, new_out))]
             /\ Record(d, Event("AMENDED", Unset))
      BY <2>5 DEF amend
    <3>3. Amended(copy[m].row, new_in, new_out) \in AttendanceRows
      BY <3>1 DEF Amended, Or, AttendanceRows
    <3>4. PICK row : row = Saved(punch[d], Amended(copy[m].row, new_in, new_out))
      OBVIOUS
    <3>5. /\ row \in AttendanceRows
          /\ row.checked_in_at = punch[d].checked_in_at /\ row.checked_out_at = punch[d].checked_out_at
      BY <3>1, <3>3, <3>4 DEF Saved, AttendanceRows
    <3> DEFINE n == Len(trail[d])
               e == Event("AMENDED", Unset)
    <3>6. e \in Events /\ e.kind = "AMENDED"
      BY DEF Event, Events, MaybeHour
    <3>7. /\ trail' \in [Dates -> Seq(Events)]
          /\ \A c \in Dates \ {d} : trail'[c] = trail[c]
          /\ DOMAIN trail[d] = 1 .. n /\ n \in Nat
          /\ DOMAIN trail'[d] = 1 .. n + 1
          /\ trail'[d][n + 1] = e
          /\ \A i \in 1 .. n : trail'[d][i] = trail[d][i]
      BY <3>1, <3>2, <3>6, TrailGrows
    <3>8. PICK c : c = d
      OBVIOUS
    <3> HIDE DEF n, e
    <3>9. punch' \in [Dates -> AttendanceRows] /\ punch'[c] = row
          /\ \A z \in Dates \ {c} : punch'[z] = punch[z]
      BY <3>1, <3>2, <3>4, <3>5, <3>8 DEF AttendanceInv, AttendanceTypeOK
    <3>10. Punches(c)' = Punches(c) /\ \A i \in Punches(c) : trail'[c][i] = trail[c][i]
      BY <3>6, <3>7, <3>8 DEF Punches
    <3>11. \A z \in Dates : /\ Punches(z)' = Punches(z)
                            /\ \A i \in Punches(z) : trail'[z][i] = trail[z][i]
      BY <3>7, <3>8, <3>10 DEF Punches
    <3>12. AttendanceTypeOK'
      BY <2>3, <3>7, <3>9 DEF AttendanceInv, AttendanceTypeOK, Events
    <3>13. Punches(c) # {} /\ row.checked_in_at \in Hours
      BY <3>1, <3>5, <3>8 DEF AttendanceInv, TrailExplainsPunches, RowsBeginWithAnArrival, HasRow
    <3>14. RowsBeginWithAnArrival'
      BY <3>9, <3>11, <3>13 DEF AttendanceInv, RowsBeginWithAnArrival
    <3>15. CopiesAreOfRows'
      <4>1. row # NoRow
        BY <3>13 DEF NoRow
      <4> QED BY <2>3, <3>9, <4>1 DEF AttendanceInv, CopiesAreOfRows, HasRow
    <3>16. TrailExplainsPunches'
      <4> SUFFICES ASSUME NEW z \in Dates
                   PROVE  /\ Punches(z)' = {} => punch'[z] = NoRow
                          /\ \A i \in Punches(z)' :
                               /\ IsFirst(i, z)' => punch'[z].checked_in_at = trail'[z][i].at
                               /\ IsLast(i, z)' =>
                                    punch'[z].checked_out_at =
                                      IF trail'[z][i].kind = "CHECK_OUT" THEN trail'[z][i].at ELSE Unset
        BY DEF TrailExplainsPunches
      <4>1. \A i : (IsFirst(i, z)' <=> IsFirst(i, z)) /\ (IsLast(i, z)' <=> IsLast(i, z))
        BY <3>11 DEF IsFirst, IsLast
      <4>2. punch'[z].checked_in_at = punch[z].checked_in_at
            /\ punch'[z].checked_out_at = punch[z].checked_out_at
        BY <3>5, <3>8, <3>9
      <4>3. Punches(z)' = {} => punch'[z] = NoRow
        BY <3>9, <3>11, <3>13 DEF AttendanceInv, TrailExplainsPunches
      <4> QED BY <3>11, <4>1, <4>2, <4>3 DEF AttendanceInv, TrailExplainsPunches
    <3> QED BY <3>12, <3>14, <3>15, <3>16 DEF AttendanceInv
  <2> QED BY <1>4, <2>4, <2>5
<1>5. CASE UNCHANGED attendanceVars
  <2> USE <1>5 DEF attendanceVars
  <2>1. AttendanceTypeOK' /\ CopiesAreOfRows'
    BY DEF AttendanceInv, AttendanceTypeOK, CopiesAreOfRows, HasRow
  <2>2. RowsBeginWithAnArrival' /\ TrailExplainsPunches'
    BY DEF AttendanceInv, RowsBeginWithAnArrival, TrailExplainsPunches, Punches, IsFirst, IsLast
  <2> QED BY <2>1, <2>2 DEF AttendanceInv
<1> QED BY <1>1, <1>2, <1>3, <1>4, <1>5 DEF AttendanceNext

\* hr/services.py: what the row says of arrival and departure is what the trail says,
\* whatever managers corrected meanwhile from rows they read earlier.
THEOREM TrailExplainsPunchesHolds == AttendanceSpec => [](AttendanceTypeOK /\ TrailExplainsPunches)
<1>1. AttendanceInv => AttendanceTypeOK /\ TrailExplainsPunches
  BY DEF AttendanceInv
<1> QED BY <1>1, AttendanceStart, AttendanceStep, PTL DEF AttendanceSpec

-----------------------------------------------------------------------------
(* The drawer: requests at once, and the frozen report.                    *)

\* A request works on a shift that exists, unless it rests.
WorksOnAShift == \A q \in Requests : request[q].kind # "idle" => request[q].on \in ShiftIds

\* A sale is on a shift as soon as it exists, and what was paid for it is not more
\* than it costs.
SalesAreSold ==
    \A o \in Orders : /\ sale[o].on \in ShiftIds => sale[o].status # "none"
                      /\ cash[o] + card[o] =< Total

\* What a close found stays so until it commits: the shift is open, nobody else
\* closes it, none of its orders is open, and its expected cash is the one it read.
CloseHolds ==
    \A q \in Requests : request[q].kind = "close" =>
        LET s == request[q].on IN
        /\ IsOpen(s) /\ NoOpenOrders(s)
        /\ request[q].expected = Expected(s)
        /\ \A p \in Requests : request[p].kind = "close" /\ request[p].on = s => p = q

OpensOnce ==
    \A d \in Devices : \A s, r \in OpenOf(d) : s = r

\* The sales of a report are over: no payment comes to them any more.
ReportIsFinal ==
    \A s \in ShiftIds : report[s] # NoOne => \A o \in report[s].sales : sale[o].status \in Final

\* The strengthening.
DrawerInv ==
    /\ DrawerTypeOK
    /\ WorksOnAShift /\ SalesAreSold /\ CloseHolds /\ OpensOnce
    /\ ReportIsFinal /\ ReportIsTrue

\* At most one open drawer is at most one, counted.
LEMMA OneOfEach == OpensOnce => OneOpenShiftPerDevice
<1> SUFFICES ASSUME OpensOnce, NEW d \in Devices PROVE Cardinality(OpenOf(d)) =< 1
  BY DEF OneOpenShiftPerDevice
<1>1. CASE OpenOf(d) = {}
  BY <1>1, FS_EmptySet
<1>2. CASE OpenOf(d) # {}
  <2>1. PICK s : s \in OpenOf(d)
    BY <1>2
  <2>2. OpenOf(d) = {s}
    BY <2>1 DEF OpensOnce
  <2>3. Cardinality({s}) = 1
    BY FS_Singleton
  <2> QED BY <2>2, <2>3
<1> QED BY <1>1, <1>2

\* A total depends on the amounts of its orders only.
LEMMA SameSum ==
    ASSUME NEW f, NEW g, NEW os, \A o \in os : f[o] = g[o]
    PROVE  Sum(f, os) = Sum(g, os)
<1>1. [o \in os |-> f[o]] = [o \in os |-> g[o]]
  OBVIOUS
<1> QED BY <1>1 DEF Sum

\* Expected cash is the same when the sales of a shift, their cash and its movements are.
LEMMA SameExpected ==
    ASSUME NEW s \in ShiftIds, SalesOn(s)' = SalesOn(s), moved'[s] = moved[s],
           \A o \in SalesOn(s) : cash'[o] = cash[o] /\ refunded'[o] = refunded[o]
    PROVE  Expected(s)' = Expected(s)
<1> DEFINE os == SalesOn(s)
<1>1. \A o \in os : cash'[o] = cash[o] /\ refunded'[o] = refunded[o]
  OBVIOUS
<1>2. SalesOn(s)' = os
  OBVIOUS
<1> HIDE DEF os
<1>3. Sum(cash', os) = Sum(cash, os)
  BY <1>1, SameSum
<1>4. Sum(refunded', os) = Sum(refunded, os)
  BY <1>1, SameSum
<1>5. Expected(s)' = Float + Sum(cash', os) + moved'[s] - Sum(refunded', os)
  BY <1>2 DEF Expected, CashSales
<1>6. Expected(s) = Float + Sum(cash, os) + moved[s] - Sum(refunded, os)
  BY DEF os, Expected, CashSales
<1> QED BY <1>3, <1>4, <1>5, <1>6

\* A close in progress stays sound when the shift it closes stays as it is.
LEMMA ClosesStay ==
    ASSUME CloseHolds, WorksOnAShift,
           \A p \in Requests : request'[p].kind = "close" => request'[p] = request[p],
           \A p \in Requests, s \in ShiftIds :
               request'[p].kind = "close" /\ request[p].on = s =>
                   IsOpen(s)' /\ NoOpenOrders(s)' /\ Expected(s)' = Expected(s)
    PROVE  CloseHolds'
<1> SUFFICES ASSUME NEW p \in Requests, request'[p].kind = "close"
             PROVE  /\ IsOpen(request[p].on)' /\ NoOpenOrders(request[p].on)'
                    /\ request'[p].expected = Expected(request[p].on)'
                    /\ \A u \in Requests :
                          request'[u].kind = "close" /\ request'[u].on = request'[p].on => u = p
  BY DEF CloseHolds
<1>1. request'[p] = request[p] /\ request[p].kind = "close" /\ request[p].on \in ShiftIds
  BY DEF WorksOnAShift
<1>2. PICK s : s = request[p].on
  OBVIOUS
<1>3. s \in ShiftIds /\ IsOpen(s)' /\ NoOpenOrders(s)' /\ Expected(s)' = Expected(s)
  BY <1>1, <1>2
<1>4. request'[p].expected = Expected(s)'
  <2>1. request[p].expected = Expected(s)
    BY <1>1, <1>2 DEF CloseHolds
  <2> QED BY <1>1, <1>3, <2>1
<1>5. ASSUME NEW u \in Requests, request'[u].kind = "close", request'[u].on = request'[p].on
      PROVE  u = p
  <2>1. request[u].kind = "close" /\ request[u].on = request[p].on
    BY <1>1, <1>5
  <2> QED BY <1>1, <2>1 DEF CloseHolds
<1>6. request'[p].on = s
  BY <1>1, <1>2
<1>7. IsOpen(request[p].on)'
  BY <1>3, <1>6 DEF IsOpen
<1>8. NoOpenOrders(request[p].on)'
  BY <1>3, <1>6 DEF NoOpenOrders, SalesOn
<1>9. request'[p].expected = Expected(request[p].on)'
  BY <1>4, <1>6 DEF Expected, CashSales, SalesOn
<1> QED BY <1>5, <1>7, <1>8, <1>9

\* No drawer is open at first.
LEMMA DrawerStart == DrawerInit => DrawerInv
<1> SUFFICES ASSUME DrawerInit PROVE DrawerInv
  OBVIOUS
<1> USE DrawerAssumption
<1>1. DrawerTypeOK
  BY DEF DrawerInit, DrawerTypeOK, NoShift, NoRequest, Money, Moves
<1>2. OpensOnce
  BY DEF DrawerInit, OpensOnce, OpenOf, IsOpen, NoShift
<1> QED BY <1>1, <1>2 DEF DrawerInit, DrawerInv, WorksOnAShift, SalesAreSold, CloseHolds,
                          ReportIsFinal, ReportIsTrue, NoRequest

-----------------------------------------------------------------------------
(* Steps of a request that change nothing but the request, and do not      *)
(* begin a close.                                                          *)

\* A request that only moves on itself keeps the rest.
LEMMA RequestKeeps ==
    ASSUME DrawerInv, NEW q \in Requests, NEW r, Become(q, r),
           r.kind \in {"idle", "open", "sell", "move"},
           r.kind # "idle" => r.on \in ShiftIds,
           r.on \in ShiftIds \cup {NoOne}, r.device \in Devices \cup {Browser},
           UNCHANGED <<shift, report, sale, cash, card, refunded, moved>>
    PROVE  DrawerInv'
<1>1. /\ DOMAIN request' = Requests
      /\ \A p \in Requests : request'[p] = IF p = q THEN r ELSE request[p]
  BY DEF DrawerInv, DrawerTypeOK, Become
<1>2. DrawerTypeOK'
  <2>1. \A p \in Requests : /\ request'[p].kind \in {"idle", "open", "sell", "move", "close"}
                            /\ request'[p].on \in ShiftIds \cup {NoOne}
                            /\ request'[p].device \in Devices \cup {Browser}
    BY <1>1 DEF DrawerInv, DrawerTypeOK
  <2> QED BY <1>1, <2>1 DEF DrawerInv, DrawerTypeOK
<1>3. WorksOnAShift'
  BY <1>1 DEF DrawerInv, WorksOnAShift
<1>4. CloseHolds'
  BY <1>1 DEF DrawerInv, CloseHolds, IsOpen, NoOpenOrders, Expected, CashSales, SalesOn
<1>5. SalesAreSold' /\ OpensOnce' /\ ReportIsFinal' /\ ReportIsTrue'
  BY DEF DrawerInv, SalesAreSold, OpensOnce, OpenOf, IsOpen, ReportIsFinal, ReportIsTrue
<1> QED BY <1>2, <1>3, <1>4, <1>5 DEF DrawerInv

\* What a request holds.
LEMMA HoldingIs ==
    ASSUME NEW kind, NEW s
    PROVE  /\ Holding(kind, s).kind = kind /\ Holding(kind, s).on = s
           /\ Holding(kind, s).device = Browser
           /\ NoRequest.kind = "idle" /\ NoRequest.on = NoOne /\ NoRequest.device = Browser
BY DEF Holding, NoRequest

\* Payments, refunds and voids, on a shift that is not being closed when money moves.
LEMMA SaleKeeps ==
    ASSUME DrawerInv, NEW o \in Orders, NEW status \in {"OPEN", "PAID", "CANCELLED", "REFUNDED"},
           sale[o].status # "none",
           sale' = [sale EXCEPT ![o].status = status],
           sale[o].status = "OPEN" \/ (sale[o].status \in Final /\ status \in Final)
             \/ status = sale[o].status,
           cash' \in [Orders -> Money], card' \in [Orders -> Money], refunded' \in [Orders -> Money],
           cash'[o] + card'[o] =< Total,
           \A p \in Orders \ {o} : cash'[p] = cash[p] /\ card'[p] = card[p] /\ refunded'[p] = refunded[p],
           cash'[o] = cash[o] \/ sale[o].status = "OPEN",
           (cash'[o] = cash[o] /\ refunded'[o] = refunded[o]) \/ MayCommit(sale[o].on),
           status = "OPEN" => sale[o].status = "OPEN",
           UNCHANGED <<shift, report, moved, request>>
    PROVE  DrawerInv'
<1>1. /\ sale' = [sale EXCEPT ![o] = [sale[o] EXCEPT !.status = status]]
      /\ \A p \in Orders : sale'[p].on = sale[p].on
      /\ \A p \in Orders : sale'[p].status = IF p = o THEN status ELSE sale[p].status
  BY DEF DrawerInv, DrawerTypeOK
<1>2. DrawerTypeOK'
  <2>1. [sale[o] EXCEPT !.status = status] \in
          [status : {"none", "OPEN", "PAID", "CANCELLED", "REFUNDED"}, on : ShiftIds \cup {NoOne}]
    BY DEF DrawerInv, DrawerTypeOK
  <2>2. sale' \in [Orders -> [status : {"none", "OPEN", "PAID", "CANCELLED", "REFUNDED"},
                             on : ShiftIds \cup {NoOne}]]
    BY <1>1, <2>1 DEF DrawerInv, DrawerTypeOK
  <2> QED BY <2>2 DEF DrawerInv, DrawerTypeOK
<1>3. WorksOnAShift' /\ OpensOnce'
  BY DEF DrawerInv, WorksOnAShift, OpensOnce, OpenOf, IsOpen
<1>4. SalesAreSold'
  BY <1>1 DEF DrawerInv, SalesAreSold
<1>5. CloseHolds'
  <2> SUFFICES ASSUME NEW q \in Requests, request[q].kind = "close", NEW s, s = request[q].on
               PROVE  NoOpenOrders(s)' /\ Expected(s)' = Expected(s)
    BY DEF DrawerInv, CloseHolds, IsOpen
  <2>1. s \in ShiftIds /\ NoOpenOrders(s) /\ ~MayCommit(s)
    BY DEF DrawerInv, CloseHolds, WorksOnAShift, MayCommit, Closing
  <2>2. SalesOn(s)' = SalesOn(s)
    BY <1>1 DEF SalesOn
  <2>3. NoOpenOrders(s)'
    BY <1>1, <2>1, <2>2 DEF NoOpenOrders, OpenStatus, SalesOn
  <2>4. \A p \in SalesOn(s) : cash'[p] = cash[p] /\ refunded'[p] = refunded[p]
    BY <2>1 DEF SalesOn
  <2> QED BY <2>1, <2>2, <2>3, <2>4, SameExpected
<1>6. ReportIsFinal'
  BY <1>1 DEF DrawerInv, DrawerTypeOK, ReportIsFinal, Final
<1>7. ReportIsTrue'
  <2> SUFFICES ASSUME NEW s \in ShiftIds, report[s] # NoOne
               PROVE  Sum(cash', report[s].sales) = Sum(cash, report[s].sales)
    BY DEF DrawerInv, ReportIsTrue
  <2>1. \A p \in report[s].sales : p \in Orders /\ sale[p].status \in Final
    BY DEF DrawerInv, DrawerTypeOK, ReportIsFinal
  <2>2. \A p \in report[s].sales : cash'[p] = cash[p]
    BY <2>1 DEF Final
  <2> QED BY <2>2, SameSum
<1> QED BY <1>2, <1>3, <1>4, <1>5, <1>6, <1>7 DEF DrawerInv

-----------------------------------------------------------------------------
\* Every request, payment, refund and void keeps the invariant.
LEMMA DrawerStep == DrawerInv /\ [DrawerNext]_drawerVars => DrawerInv'
<1> SUFFICES ASSUME DrawerInv, [DrawerNext]_drawerVars PROVE DrawerInv'
  OBVIOUS
<1> USE DrawerAssumption
<1>1. ASSUME NEW q \in Requests, CheckOpen(q) PROVE DrawerInv'
  <2> PICK s \in ShiftIds, d \in Devices \cup {Browser} :
          Become(q, [Holding("open", s) EXCEPT !.device = d])
    BY <1>1 DEF CheckOpen
  <2> DEFINE r == [Holding("open", s) EXCEPT !.device = d]
  <2>1. r.kind = "open" /\ r.on = s /\ r.device = d
    BY DEF Holding, NoRequest
  <2>2. Become(q, r) /\ UNCHANGED <<shift, report, sale, cash, card, refunded, moved>>
    BY <1>1 DEF CheckOpen
  <2> HIDE DEF r
  <2> QED BY <2>1, <2>2, RequestKeeps
<1>2. ASSUME NEW q \in Requests, ResolveShift(q) \/ CheckMove(q) PROVE DrawerInv'
  <2> PICK s \in ShiftIds, kind \in {"sell", "move"} : Become(q, Holding(kind, s))
    BY <1>2 DEF ResolveShift, CheckMove
  <2> DEFINE r == Holding(kind, s)
  <2>1. r.kind = kind /\ r.on = s /\ r.device = Browser
    BY HoldingIs
  <2>2. Become(q, r) /\ UNCHANGED <<shift, report, sale, cash, card, refunded, moved>>
    BY <1>2 DEF ResolveShift, CheckMove
  <2> HIDE DEF r
  <2> QED BY <2>1, <2>2, RequestKeeps
<1>3. ASSUME NEW q \in Requests, RefuseClose(q) PROVE DrawerInv'
  <2>1. Become(q, NoRequest) /\ UNCHANGED <<shift, report, sale, cash, card, refunded, moved>>
    BY <1>3 DEF RefuseClose
  <2> QED BY <2>1, HoldingIs, RequestKeeps
<1>4. ASSUME NEW q \in Requests, OpenShift(q) PROVE DrawerInv'
  <2> DEFINE s == request[q].on
             d == request[q].device
  <2>1. s \in ShiftIds /\ d \in Devices \cup {Browser} /\ request[q].kind = "open"
    BY <1>4 DEF OpenShift, DrawerInv, DrawerTypeOK, WorksOnAShift
  <2>2. /\ DOMAIN request' = Requests
        /\ \A p \in Requests : request'[p] = IF p = q THEN NoRequest ELSE request[p]
        /\ UNCHANGED <<report, sale, cash, card, refunded, moved>>
    BY <1>4 DEF OpenShift, Become, DrawerInv, DrawerTypeOK
  <2>3. \/ shift' = shift
        \/ /\ shift[s] = NoShift /\ OneOpenIndex(d)
           /\ shift' = [shift EXCEPT ![s] = [status |-> "OPEN", device |-> d]]
    BY <1>4 DEF OpenShift
  <2> HIDE DEF s, d
  <2>4. \A z \in ShiftIds : \/ shift'[z] = shift[z]
                            \/ z = s /\ shift[s] = NoShift /\ OneOpenIndex(d)
                                 /\ shift'[s] = [status |-> "OPEN", device |-> d]
    BY <2>1, <2>3 DEF DrawerInv, DrawerTypeOK
  <2>5. DrawerTypeOK'
    <3>1. shift' \in [ShiftIds -> [status : {"none", "OPEN", "CLOSED"}, device : Devices \cup {Browser}]]
      BY <2>1, <2>3 DEF DrawerInv, DrawerTypeOK
    <3>2. \A p \in Requests : /\ request'[p].kind \in {"idle", "open", "sell", "move", "close"}
                              /\ request'[p].on \in ShiftIds \cup {NoOne}
                              /\ request'[p].device \in Devices \cup {Browser}
      BY <2>2, HoldingIs DEF DrawerInv, DrawerTypeOK
    <3> QED BY <2>2, <3>1, <3>2 DEF DrawerInv, DrawerTypeOK
  <2>6. WorksOnAShift' /\ SalesAreSold' /\ ReportIsFinal' /\ ReportIsTrue'
    BY <2>2, HoldingIs DEF DrawerInv, WorksOnAShift, SalesAreSold, ReportIsFinal, ReportIsTrue
  <2>7. OpensOnce'
    <3> SUFFICES ASSUME NEW e \in Devices, NEW a \in OpenOf(e)', NEW b \in OpenOf(e)' PROVE a = b
      BY DEF OpensOnce
    <3>1. a \in ShiftIds /\ b \in ShiftIds
      BY DEF OpenOf
    <3>2. CASE shift'[a] = shift[a] /\ shift'[b] = shift[b]
      <4>1. a \in OpenOf(e) /\ b \in OpenOf(e)
        BY <3>2 DEF OpenOf, IsOpen
      <4> QED BY <4>1 DEF DrawerInv, OpensOnce
    <3>3. CASE ~(shift'[a] = shift[a] /\ shift'[b] = shift[b])
      <4>1. OneOpenIndex(d) /\ shift'[s].device = d /\ (a = s \/ b = s)
        BY <2>4, <3>1, <3>3
      <4>2. d = e
        BY <4>1 DEF OpenOf
      <4>3. OpenOf(e) = {}
        BY <4>1, <4>2 DEF OneOpenIndex
      <4>4. \A z \in OpenOf(e)' : z = s
        BY <2>4, <4>3 DEF OpenOf, IsOpen
      <4> QED BY <4>4
    <3> QED BY <3>2, <3>3
  <2>8. CloseHolds'
    <3>1. \A p \in Requests : request'[p].kind = "close" => request'[p] = request[p]
      BY <2>2, HoldingIs
    <3>2. ASSUME NEW p \in Requests, NEW z \in ShiftIds,
                 request'[p].kind = "close", request[p].on = z
          PROVE  IsOpen(z)' /\ NoOpenOrders(z)' /\ Expected(z)' = Expected(z)
      <4>1. request[p].kind = "close"
        BY <3>1, <3>2
      <4>2. IsOpen(z) /\ NoOpenOrders(z)
        BY <3>2, <4>1 DEF DrawerInv, CloseHolds
      <4>3. SalesOn(z)' = SalesOn(z)
        BY <2>2 DEF SalesOn
      <4>4. NoOpenOrders(z)'
        BY <2>2, <4>2, <4>3 DEF NoOpenOrders
      <4>5. IsOpen(z)'
        BY <2>4, <4>2 DEF IsOpen
      <4>6. Expected(z)' = Expected(z)
        BY <2>2, <4>3, SameExpected
      <4> QED BY <4>4, <4>5, <4>6
    <3> QED BY <3>1, <3>2, ClosesStay DEF DrawerInv
  <2> QED BY <2>5, <2>6, <2>7, <2>8 DEF DrawerInv
<1>5. ASSUME NEW q \in Requests, OpenOrder(q) PROVE DrawerInv'
  <2> PICK o \in Orders : /\ sale[o].status = "none"
                          /\ sale' = [sale EXCEPT ![o] = [status |-> "OPEN", on |-> request[q].on]]
    BY <1>5 DEF OpenOrder
  <2> DEFINE t == request[q].on
  <2>1. t \in ShiftIds /\ MayCommit(t)
    BY <1>5 DEF OpenOrder, DrawerInv, WorksOnAShift
  <2>2. /\ DOMAIN request' = Requests
        /\ \A p \in Requests : request'[p] = IF p = q THEN NoRequest ELSE request[p]
        /\ UNCHANGED <<shift, report, cash, card, refunded, moved>>
    BY <1>5 DEF OpenOrder, Become, DrawerInv, DrawerTypeOK
  <2>3. \A p \in Orders : sale'[p] = IF p = o THEN [status |-> "OPEN", on |-> t] ELSE sale[p]
    BY DEF DrawerInv, DrawerTypeOK
  <2>4. DrawerTypeOK'
    <3>1. sale' \in [Orders -> [status : {"none", "OPEN", "PAID", "CANCELLED", "REFUNDED"},
                                on : ShiftIds \cup {NoOne}]]
      BY <2>1 DEF DrawerInv, DrawerTypeOK
    <3>2. \A p \in Requests : /\ request'[p].kind \in {"idle", "open", "sell", "move", "close"}
                              /\ request'[p].on \in ShiftIds \cup {NoOne}
                              /\ request'[p].device \in Devices \cup {Browser}
      BY <2>2, HoldingIs DEF DrawerInv, DrawerTypeOK
    <3> QED BY <2>2, <3>1, <3>2 DEF DrawerInv, DrawerTypeOK
  <2> HIDE DEF t
  <2>5. WorksOnAShift' /\ OpensOnce' /\ ReportIsTrue'
    BY <2>2, HoldingIs DEF DrawerInv, WorksOnAShift, OpensOnce, OpenOf, IsOpen, ReportIsTrue
  <2>6. SalesAreSold' /\ ReportIsFinal'
    <3>1. SalesAreSold'
      BY <2>2, <2>3 DEF DrawerInv, SalesAreSold
    <3>2. \A s \in ShiftIds : report[s] # NoOne => o \notin report[s].sales
      BY DEF DrawerInv, ReportIsFinal, Final
    <3>3. ReportIsFinal'
      BY <2>2, <2>3, <3>2 DEF DrawerInv, DrawerTypeOK, ReportIsFinal
    <3> QED BY <3>1, <3>3
  <2>7. CloseHolds'
    <3> SUFFICES ASSUME NEW p \in Requests, request'[p].kind = "close"
                 PROVE  /\ p # q /\ NoOpenOrders(request[p].on)'
                        /\ Expected(request[p].on)' = Expected(request[p].on)
      BY <2>2, HoldingIs DEF DrawerInv, CloseHolds, IsOpen
    <3>1. p # q /\ request[p].kind = "close"
      BY <2>2, HoldingIs
    <3>3. PICK s : s = request[p].on
      OBVIOUS
    <3>2. s \in ShiftIds /\ NoOpenOrders(s) /\ s # t
      BY <2>1, <3>1, <3>3 DEF DrawerInv, CloseHolds, WorksOnAShift, MayCommit, Closing
    <3>4. o \notin SalesOn(s) /\ SalesOn(s)' = SalesOn(s)
      <4>1. sale[o].on # s
        BY <3>2 DEF DrawerInv, SalesAreSold
      <4>2. \A x \in Orders : sale'[x].on = s <=> sale[x].on = s
        BY <2>3, <3>2, <4>1
      <4> QED BY <4>1, <4>2 DEF SalesOn
    <3>5. NoOpenOrders(s)'
      BY <2>3, <3>2, <3>4 DEF NoOpenOrders, OpenStatus, SalesOn
    <3>6. Expected(s)' = Expected(s)
      <4>1. /\ \A x \in SalesOn(s) : cash'[x] = cash[x] /\ refunded'[x] = refunded[x]
            /\ moved'[s] = moved[s]
        BY <2>2
      <4>2. s \in ShiftIds /\ SalesOn(s)' = SalesOn(s)
        BY <3>2, <3>4
      <4> QED BY <4>1, <4>2, SameExpected
    <3>7. request'[p].on = s
      BY <2>2, <3>1, <3>3
    <3> QED BY <3>1, <3>3, <3>5, <3>6, <3>7 DEF NoOpenOrders, Expected, CashSales, SalesOn
  <2> QED BY <2>4, <2>5, <2>6, <2>7 DEF DrawerInv
<1>6. ASSUME NEW q \in Requests, MoveCash(q) PROVE DrawerInv'
  <2> DEFINE t == request[q].on
  <2>1. t \in ShiftIds /\ MayCommit(t)
    BY <1>6 DEF MoveCash, DrawerInv, WorksOnAShift
  <2>2. /\ DOMAIN request' = Requests
        /\ \A p \in Requests : request'[p] = IF p = q THEN NoRequest ELSE request[p]
        /\ UNCHANGED <<shift, report, sale, cash, card, refunded>>
    BY <1>6 DEF MoveCash, Become, DrawerInv, DrawerTypeOK
  <2>3. moved' \in [ShiftIds -> Moves] /\ \A s \in ShiftIds \ {t} : moved'[s] = moved[s]
    <3>1. PICK amount \in {-1, 1} :
            moved[t] + amount \in Moves /\ moved' = [moved EXCEPT ![t] = moved[t] + amount]
      BY <1>6 DEF MoveCash
    <3>2. moved \in [ShiftIds -> Moves]
      BY DEF DrawerInv, DrawerTypeOK
    <3> QED BY <2>1, <3>1, <3>2
  <2>4. DrawerTypeOK'
    <3>1. \A p \in Requests : /\ request'[p].kind \in {"idle", "open", "sell", "move", "close"}
                              /\ request'[p].on \in ShiftIds \cup {NoOne}
                              /\ request'[p].device \in Devices \cup {Browser}
      BY <2>2, HoldingIs DEF DrawerInv, DrawerTypeOK
    <3> QED BY <2>2, <2>3, <3>1 DEF DrawerInv, DrawerTypeOK
  <2> HIDE DEF t
  <2>5. WorksOnAShift' /\ OpensOnce' /\ ReportIsTrue' /\ SalesAreSold' /\ ReportIsFinal'
    BY <2>2, HoldingIs DEF DrawerInv, WorksOnAShift, OpensOnce, OpenOf, IsOpen, ReportIsTrue,
                           SalesAreSold, ReportIsFinal
  <2>6. CloseHolds'
    <3> SUFFICES ASSUME NEW p \in Requests, request'[p].kind = "close"
                 PROVE  p # q /\ Expected(request[p].on)' = Expected(request[p].on)
      BY <2>2, HoldingIs DEF DrawerInv, CloseHolds, IsOpen, NoOpenOrders, SalesOn
    <3>1. p # q /\ request[p].kind = "close"
      BY <2>2, HoldingIs
    <3>2. request[p].on \in ShiftIds /\ request[p].on # t
      BY <2>1, <3>1 DEF DrawerInv, WorksOnAShift, MayCommit, Closing
    <3>3. SalesOn(request[p].on)' = SalesOn(request[p].on)
      BY <2>2, <3>1 DEF SalesOn
    <3>4. Expected(request[p].on)' = Expected(request[p].on)
      <4> DEFINE s == request[p].on
      <4>1. s \in ShiftIds /\ SalesOn(s)' = SalesOn(s) /\ moved'[s] = moved[s] /\ s' = s
        BY <2>2, <2>3, <3>1, <3>2, <3>3
      <4> QED BY <2>2, <2>3, <3>1, <3>2 DEF Expected, CashSales, SalesOn
    <3> QED BY <3>1, <3>4
  <2> QED BY <2>4, <2>5, <2>6 DEF DrawerInv
<1>7. ASSUME NEW q \in Requests, BeginClose(q) PROVE DrawerInv'
  <2> PICK s \in ShiftIds : /\ IsOpen(s) /\ ~Closing(s) /\ NoOpenOrders(s)
                            /\ Become(q, [Holding("close", s) EXCEPT !.expected = Expected(s)])
    BY <1>7 DEF BeginClose
  <2> DEFINE r == [Holding("close", s) EXCEPT !.expected = Expected(s)]
  <2>1. r.kind = "close" /\ r.on = s /\ r.device = Browser /\ r.expected = Expected(s)
    BY DEF Holding, NoRequest
  <2>2. /\ DOMAIN request' = Requests
        /\ \A p \in Requests : request'[p] = IF p = q THEN r ELSE request[p]
        /\ UNCHANGED <<shift, report, sale, cash, card, refunded, moved>>
    BY <1>7 DEF BeginClose, Become, DrawerInv, DrawerTypeOK
  <2> HIDE DEF r
  <2>3. DrawerTypeOK'
    <3>1. \A p \in Requests : /\ request'[p].kind \in {"idle", "open", "sell", "move", "close"}
                              /\ request'[p].on \in ShiftIds \cup {NoOne}
                              /\ request'[p].device \in Devices \cup {Browser}
      BY <2>1, <2>2 DEF DrawerInv, DrawerTypeOK
    <3> QED BY <2>2, <3>1 DEF DrawerInv, DrawerTypeOK
  <2>4. WorksOnAShift' /\ OpensOnce' /\ ReportIsTrue' /\ SalesAreSold' /\ ReportIsFinal'
    BY <2>1, <2>2 DEF DrawerInv, WorksOnAShift, OpensOnce, OpenOf, IsOpen, ReportIsTrue,
                           SalesAreSold, ReportIsFinal
  <2>5. \A z : Expected(z)' = Expected(z) /\ (NoOpenOrders(z)' <=> NoOpenOrders(z)) /\ (IsOpen(z)' <=> IsOpen(z))
    BY <2>2 DEF Expected, CashSales, NoOpenOrders, SalesOn, IsOpen
  <2>6. CloseHolds'
    <3> SUFFICES ASSUME NEW p \in Requests, request'[p].kind = "close", NEW z, z = request'[p].on
                 PROVE  /\ IsOpen(z) /\ NoOpenOrders(z) /\ request'[p].expected = Expected(z)
                        /\ \A u \in Requests : request'[u].kind = "close" /\ request'[u].on = z => u = p
      BY <2>5 DEF CloseHolds
    <3> QED BY <2>1, <2>2 DEF DrawerInv, CloseHolds, Closing
  <2> QED BY <2>3, <2>4, <2>6 DEF DrawerInv
<1>8. ASSUME NEW q \in Requests, Close(q) PROVE DrawerInv'
  <2> DEFINE s == request[q].on
  <2> PICK variance \in Variances :
        report' = [report EXCEPT ![s] =
                 [sales      |-> {o \in SalesOn(s) : sale[o].status \in Final},
                  cash_sales |-> CashSales(s),
                  expected   |-> Expected(s),
                  counted    |-> request[q].expected + variance,
                  variance   |-> variance]]
    BY <1>8 DEF Close
  <2> DEFINE z == [sales      |-> {o \in SalesOn(s) : sale[o].status \in Final},
                  cash_sales |-> CashSales(s),
                  expected   |-> Expected(s),
                  counted    |-> request[q].expected + variance,
                  variance   |-> variance]
  <2>1. /\ s \in ShiftIds /\ request[q].kind = "close" /\ IsOpen(s) /\ NoOpenOrders(s)
        /\ request[q].expected = Expected(s)
        /\ \A p \in Requests : request[p].kind = "close" /\ request[p].on = s => p = q
    BY <1>8 DEF Close, DrawerInv, CloseHolds, WorksOnAShift
  <2>2. /\ DOMAIN request' = Requests
        /\ \A p \in Requests : request'[p] = IF p = q THEN NoRequest ELSE request[p]
        /\ shift' = [shift EXCEPT ![s].status = "CLOSED"]
        /\ UNCHANGED <<sale, cash, card, refunded, moved>>
    BY <1>8 DEF Close, Become, DrawerInv, DrawerTypeOK
  <2>3. z.sales = SalesOn(s) /\ SalesOn(s) \subseteq Orders
    <3>1. \A o \in SalesOn(s) : sale[o].status \in Final
      BY <2>1 DEF NoOpenOrders, OpenStatus, SalesOn, Final, DrawerInv, DrawerTypeOK, SalesAreSold
    <3> QED BY <3>1 DEF SalesOn
  <2>4. /\ z.counted = z.expected + z.variance
        /\ z.cash_sales = Sum(cash, z.sales)
        /\ z.sales \subseteq Orders
        /\ \A o \in z.sales : sale[o].status \in Final
    BY <2>1, <2>3 DEF CashSales
  <2>5. /\ DOMAIN report' = ShiftIds
        /\ \A y \in ShiftIds : report'[y] = IF y = s THEN z ELSE report[y]
    BY DEF DrawerInv, DrawerTypeOK
  <2>6. /\ shift' \in [ShiftIds -> [status : {"none", "OPEN", "CLOSED"}, device : Devices \cup {Browser}]]
        /\ \A y \in ShiftIds : y # s => shift'[y] = shift[y]
        /\ shift'[s].status = "CLOSED"
    <3>1. [shift[s] EXCEPT !.status = "CLOSED"] \in [status : {"none", "OPEN", "CLOSED"}, device : Devices \cup {Browser}]
      BY <2>1 DEF DrawerInv, DrawerTypeOK
    <3>2. shift' = [shift EXCEPT ![s] = [shift[s] EXCEPT !.status = "CLOSED"]]
      BY <2>2
    <3> HIDE DEF s
    <3> QED BY <2>1, <2>2, <3>1, <3>2 DEF DrawerInv, DrawerTypeOK
  <2>7. s = request[q].on
    OBVIOUS
  <2> HIDE DEF s, z
  <2>8. DrawerTypeOK'
    <3>1. \A p \in Requests : /\ request'[p].kind \in {"idle", "open", "sell", "move", "close"}
                              /\ request'[p].on \in ShiftIds \cup {NoOne}
                              /\ request'[p].device \in Devices \cup {Browser}
      BY <2>2, HoldingIs DEF DrawerInv, DrawerTypeOK
    <3>2. \A y \in ShiftIds : report'[y] = NoOne \/ report'[y].sales \subseteq Orders
      BY <2>4, <2>5 DEF DrawerInv, DrawerTypeOK
    <3> QED BY <2>2, <2>5, <2>6, <3>1, <3>2 DEF DrawerInv, DrawerTypeOK
  <2>9. WorksOnAShift' /\ SalesAreSold'
    BY <2>2, HoldingIs DEF DrawerInv, WorksOnAShift, SalesAreSold
  <2>10. ReportIsFinal' /\ ReportIsTrue'
    <3>1. ReportIsFinal'
      BY <2>2, <2>4, <2>5 DEF DrawerInv, ReportIsFinal
    <3>2. ReportIsTrue'
      BY <2>2, <2>4, <2>5 DEF DrawerInv, ReportIsTrue
    <3> QED BY <3>1, <3>2
  <2>11. OpensOnce'
    <3>1. \A d \in Devices : OpenOf(d)' \subseteq OpenOf(d)
      BY <2>6 DEF OpenOf, IsOpen
    <3> QED BY <3>1 DEF DrawerInv, OpensOnce
  <2>12. CloseHolds'
    <3>1. \A y : Expected(y)' = Expected(y) /\ (NoOpenOrders(y)' <=> NoOpenOrders(y))
      BY <2>2 DEF Expected, CashSales, NoOpenOrders, SalesOn
    <3> SUFFICES ASSUME NEW p \in Requests, request'[p].kind = "close", NEW y, y = request'[p].on
                 PROVE  /\ IsOpen(y)' /\ NoOpenOrders(y) /\ request'[p].expected = Expected(y)
                        /\ \A u \in Requests : request'[u].kind = "close" /\ request'[u].on = y => u = p
      BY <3>1 DEF CloseHolds
    <3>2. p # q /\ request'[p] = request[p] /\ y \in ShiftIds /\ y # s
      BY <2>1, <2>2, <2>7, HoldingIs DEF DrawerInv, WorksOnAShift
    <3>3. IsOpen(y)'
      BY <2>6, <3>2 DEF IsOpen, DrawerInv, CloseHolds
    <3> QED BY <2>2, <3>2, <3>3, HoldingIs DEF DrawerInv, CloseHolds
  <2> QED BY <2>8, <2>9, <2>10, <2>11, <2>12 DEF DrawerInv
<1>9. ASSUME NEW o \in Orders, TakePayment(o, TRUE) \/ TakePayment(o, FALSE) PROVE DrawerInv'
  <2> PICK amount \in 1 .. Due(o), byCash \in BOOLEAN :
         /\ cash' = [cash EXCEPT ![o] = IF byCash THEN @ + amount ELSE @]
         /\ card' = [card EXCEPT ![o] = IF byCash THEN @ ELSE @ + amount]
         /\ sale' = [sale EXCEPT ![o].status = IF amount = Due(o) THEN "PAID" ELSE @]
    BY <1>9 DEF TakePayment
  <2>1. /\ sale[o].status = "OPEN" /\ MayCommit(sale[o].on)
        /\ UNCHANGED <<shift, report, refunded, moved, request>>
    BY <1>9 DEF TakePayment
  <2>2. cash[o] \in Money /\ card[o] \in Money /\ cash[o] + card[o] =< Total /\ refunded[o] \in Money
    BY DEF DrawerInv, DrawerTypeOK, SalesAreSold
  <2>3. /\ (IF byCash THEN cash[o] + amount ELSE cash[o]) \in Money
        /\ (IF byCash THEN card[o] ELSE card[o] + amount) \in Money
        /\ amount \in Int /\ cash[o] + card[o] + amount =< Total
    <3>1. amount \in Int /\ 1 =< amount /\ amount =< Total - cash[o] - card[o]
      BY <2>2 DEF Money, Due
    <3>2. cash[o] \in Int /\ card[o] \in Int /\ 0 =< cash[o] /\ 0 =< card[o]
      BY <2>2 DEF Money
    <3>3. cash[o] + amount \in 0 .. Total /\ card[o] + amount \in 0 .. Total
      BY <3>1, <3>2
    <3>4. cash[o] + card[o] + amount =< Total
      BY <3>1, <3>2
    <3> QED BY <2>2, <3>1, <3>3, <3>4 DEF Money
  <2>4. cash' \in [Orders -> Money] /\ card' \in [Orders -> Money]
    BY <2>2, <2>3 DEF DrawerInv, DrawerTypeOK
  <2>5. cash'[o] + card'[o] =< Total
    <3>1. /\ cash'[o] = IF byCash THEN cash[o] + amount ELSE cash[o]
          /\ card'[o] = IF byCash THEN card[o] ELSE card[o] + amount
      BY DEF DrawerInv, DrawerTypeOK
    <3>2. cash[o] \in Int /\ card[o] \in Int /\ amount \in Int
      BY <2>2, <2>3 DEF Money
    <3>3. (cash[o] + amount) + card[o] = cash[o] + card[o] + amount
          /\ cash[o] + (card[o] + amount) = cash[o] + card[o] + amount
      BY <3>2
    <3> QED BY <2>3, <3>1, <3>3
  <2> DEFINE status == IF amount = Due(o) THEN "PAID" ELSE "OPEN"
  <2>6. sale' = [sale EXCEPT ![o].status = status] /\ status \in {"OPEN", "PAID"}
    BY <2>1 DEF DrawerInv, DrawerTypeOK
  <2>7. \A p \in Orders \ {o} : cash'[p] = cash[p] /\ card'[p] = card[p] /\ refunded'[p] = refunded[p]
    BY <2>1 DEF DrawerInv, DrawerTypeOK
  <2>8. refunded' \in [Orders -> Money]
    BY <2>1 DEF DrawerInv, DrawerTypeOK
  <2> HIDE DEF status
  <2> QED BY <2>1, <2>4, <2>5, <2>6, <2>7, <2>8, SaleKeeps
<1>10. ASSUME NEW o \in Orders, Refund(o) PROVE DrawerInv'
  <2> PICK amount \in 1 .. (cash[o] + card[o] - refunded[o]) :
         /\ refunded[o] + amount = cash[o] + card[o] => sale[o].status = "PAID"
         /\ refunded' = [refunded EXCEPT ![o] = @ + amount]
         /\ sale' = [sale EXCEPT ![o].status =
                       IF refunded[o] + amount = cash[o] + card[o] THEN "REFUNDED" ELSE @]
    BY <1>10 DEF Refund
  <2>1. /\ sale[o].status # "none" /\ MayCommit(sale[o].on)
        /\ UNCHANGED <<shift, report, cash, card, moved, request>>
    BY <1>10 DEF Refund
  <2>2. cash[o] \in Money /\ card[o] \in Money /\ cash[o] + card[o] =< Total /\ refunded[o] \in Money
    BY DEF DrawerInv, DrawerTypeOK, SalesAreSold
  <2>3. refunded[o] + amount \in Money
    BY <2>2 DEF Money
  <2>4. /\ refunded' \in [Orders -> Money] /\ cash' \in [Orders -> Money] /\ card' \in [Orders -> Money]
        /\ \A p \in Orders \ {o} : cash'[p] = cash[p] /\ card'[p] = card[p] /\ refunded'[p] = refunded[p]
    BY <2>1, <2>3 DEF DrawerInv, DrawerTypeOK
  <2>5. PICK status : /\ status = IF refunded[o] + amount = cash[o] + card[o] THEN "REFUNDED" ELSE sale[o].status
                      /\ sale' = [sale EXCEPT ![o].status = status]
    OBVIOUS
  <2>6. status \in {"OPEN", "PAID", "CANCELLED", "REFUNDED"} /\ (status = "OPEN" => sale[o].status = "OPEN")
    BY <2>1, <2>5 DEF DrawerInv, DrawerTypeOK
  <2>7. (sale[o].status \in Final /\ status \in Final) \/ status = sale[o].status
    BY <2>5 DEF Final
  <2> QED BY <2>1, <2>2, <2>4, <2>5, <2>6, <2>7, SaleKeeps
<1>11. ASSUME NEW o \in Orders, VoidOrder(o) PROVE DrawerInv'
  <2>1. /\ sale[o].status = "OPEN" /\ sale' = [sale EXCEPT ![o].status = "CANCELLED"]
        /\ UNCHANGED <<shift, report, cash, card, refunded, moved, request>>
    BY <1>11 DEF VoidOrder
  <2>2. /\ refunded' \in [Orders -> Money] /\ cash' \in [Orders -> Money] /\ card' \in [Orders -> Money]
        /\ cash'[o] + card'[o] =< Total
    BY <2>1 DEF DrawerInv, DrawerTypeOK, SalesAreSold
  <2> QED BY <2>1, <2>2, SaleKeeps
<1>12. CASE UNCHANGED drawerVars
  <2> USE <1>12 DEF drawerVars, DrawerInv
  <2>1. DrawerTypeOK' /\ WorksOnAShift' /\ SalesAreSold' /\ ReportIsFinal' /\ ReportIsTrue'
    BY DEF DrawerTypeOK, WorksOnAShift, SalesAreSold, ReportIsFinal, ReportIsTrue
  <2>2. OpensOnce'
    BY DEF OpensOnce, OpenOf, IsOpen
  <2>3. CloseHolds'
    <3>1. ASSUME NEW z \in ShiftIds
          PROVE  /\ IsOpen(z)' <=> IsOpen(z)
                 /\ NoOpenOrders(z)' <=> NoOpenOrders(z)
                 /\ Expected(z)' = Expected(z)
      <4>1. SalesOn(z)' = SalesOn(z)
        BY DEF SalesOn
      <4>2. NoOpenOrders(z)' <=> NoOpenOrders(z)
        BY <4>1 DEF NoOpenOrders
      <4>3. Expected(z)' = Expected(z)
        BY <4>1, SameExpected
      <4> QED BY <4>2, <4>3 DEF IsOpen
    <3>2. ASSUME NEW p \in Requests, NEW z \in ShiftIds,
                 request'[p].kind = "close", request[p].on = z
          PROVE  IsOpen(z)' /\ NoOpenOrders(z)' /\ Expected(z)' = Expected(z)
      BY <3>1, <3>2 DEF CloseHolds
    <3> QED BY <3>2, ClosesStay
  <2> QED BY <2>1, <2>2, <2>3
<1> QED BY <1>1, <1>2, <1>3, <1>4, <1>5, <1>6, <1>7, <1>8, <1>9, <1>10, <1>11, <1>12 DEF DrawerNext

\* shifts/services.py: whatever the requests do while a shift is closed, a till has
\* one open drawer and the frozen report is true of the sales it counts.
THEOREM DrawersAddUpHolds == DrawerSpec => [](DrawerTypeOK /\ DrawersAddUp)
<1>1. DrawerInv => DrawerTypeOK /\ DrawersAddUp
  BY OneOfEach DEF DrawerInv, DrawersAddUp
<1> QED BY <1>1, DrawerStart, DrawerStep, PTL DEF DrawerSpec

-----------------------------------------------------------------------------
(* The stock room: ledgers as chains.                                      *)

\* Every entry continues the balance before it, the first one a base.
ChainFrom(entries, base) ==
    \A n \in DOMAIN entries :
        entries[n].after = entries[n].delta + (IF n = 1 THEN base ELSE entries[n - 1].after)

\* A ledger that replays is a chain from nothing to its last balance.
LEMMA ReplaysIsChain ==
    ASSUME NEW entries, NEW total
    PROVE  Replays(entries, total) <=> ChainFrom(entries, 0) /\ total = LastOr(entries, 0)
BY DEF Replays, ChainFrom

\* The last balance of entries is an integer.
LEMMA LastIsAnInteger ==
    ASSUME NEW a \in Entries, NEW base \in Int
    PROVE  LastOr(a, base) \in Int
<1>1. a \in Seq([delta : Int, after : Int])
  BY DEF Entries
<1>2. a # <<>> => Len(a) \in 1 .. Len(a)
  BY <1>1
<1>3. a # <<>> => a[Len(a)] \in [delta : Int, after : Int]
  <2> DEFINE R == [delta : Int, after : Int]
  <2>1. a \in Seq(R)
    BY <1>1
  <2> HIDE DEF R
  <2>2. a # <<>> => a[Len(a)] \in R
    BY <1>2, <2>1
  <2> QED BY <2>2 DEF R
<1>4. a # <<>> => a[Len(a)].after \in Int
  BY <1>3
<1> QED BY <1>4 DEF LastOr, Last

\* A chain grows by an entry that continues its last balance.
LEMMA ChainGrows ==
    ASSUME NEW a \in Entries, NEW base \in Int, NEW delta \in Int, ChainFrom(a, base)
    PROVE  LET e == Entry(delta, LastOr(a, base) + delta) IN
           /\ LastOr(a, base) \in Int
           /\ Append(a, e) \in Entries /\ Append(a, e) # <<>>
           /\ ChainFrom(Append(a, e), base)
<1> DEFINE e == Entry(delta, LastOr(a, base) + delta)
           b == Append(a, e)
<1>1. LastOr(a, base) \in Int
  BY LastIsAnInteger
<1>2. e \in [delta : Int, after : Int] /\ e.delta = delta /\ e.after = LastOr(a, base) + delta
  BY <1>1 DEF Entry
<1> HIDE DEF e
<1>3. /\ b \in Entries /\ b # <<>> /\ Len(a) \in Nat
      /\ DOMAIN a = 1 .. Len(a) /\ DOMAIN b = 1 .. Len(a) + 1
      /\ b[Len(a) + 1] = e /\ \A n \in 1 .. Len(a) : b[n] = a[n]
  BY <1>2 DEF Entries
<1>4. ChainFrom(b, base)
  <2> HIDE DEF b
  <2> SUFFICES ASSUME NEW n \in 1 .. Len(a) + 1
               PROVE  b[n].after = b[n].delta + (IF n = 1 THEN base ELSE b[n - 1].after)
    BY <1>3 DEF ChainFrom
  <2>1. CASE n \in 1 .. Len(a)
    <3>1. n # 1 => n - 1 \in 1 .. Len(a)
      BY <1>3, <2>1
    <3> QED BY <1>3, <2>1, <3>1 DEF ChainFrom
  <2>2. CASE n = Len(a) + 1
    <3>1. CASE a = <<>>
      <4>1. Len(a) = 0 /\ n = 1 /\ LastOr(a, base) = base
        BY <2>2, <3>1 DEF LastOr
      <4> QED BY <1>2, <1>3, <2>2, <4>1
    <3>2. CASE a # <<>>
      <4>1. n # 1 /\ n - 1 = Len(a) /\ Len(a) \in 1 .. Len(a)
        BY <1>3, <2>2, <3>2 DEF Entries
      <4>2. LastOr(a, base) = a[Len(a)].after
        BY <3>2 DEF LastOr, Last
      <4>3. b[n].after = LastOr(a, base) + delta /\ b[n].delta = delta
        BY <1>2, <1>3, <2>2
      <4>4. b[n - 1].after = LastOr(a, base)
        BY <1>3, <4>1, <4>2
      <4> QED BY <1>1, <4>1, <4>3, <4>4
    <3> QED BY <3>1, <3>2
  <2> QED BY <1>3, <2>1, <2>2
<1> QED BY <1>1, <1>3, <1>4 DEF e

\* Two chains join where the one ends and the other begins.
LEMMA ChainsJoin ==
    ASSUME NEW a \in Entries, NEW b \in Entries, ChainFrom(a, 0), ChainFrom(b, LastOr(a, 0))
    PROVE  /\ a \o b \in Entries /\ ChainFrom(a \o b, 0)
           /\ LastOr(a \o b, 0) = LastOr(b, LastOr(a, 0))
<1> DEFINE c == a \o b
<1>1. /\ c \in Entries /\ Len(a) \in Nat /\ Len(b) \in Nat
      /\ DOMAIN a = 1 .. Len(a) /\ DOMAIN b = 1 .. Len(b) /\ DOMAIN c = 1 .. Len(a) + Len(b)
      /\ Len(c) = Len(a) + Len(b)
      /\ \A n \in 1 .. Len(a) + Len(b) : c[n] = IF n =< Len(a) THEN a[n] ELSE b[n - Len(a)]
  BY DEF Entries
<1>2. /\ (a = <<>> <=> Len(a) = 0) /\ (b = <<>> <=> Len(b) = 0) /\ (c = <<>> <=> Len(c) = 0)
  <2>1. a \in Seq([delta : Int, after : Int]) /\ b \in Seq([delta : Int, after : Int])
        /\ c \in Seq([delta : Int, after : Int])
    BY <1>1 DEF Entries
  <2> HIDE DEF c
  <2> QED BY <2>1
<1> HIDE DEF c
<1>3. ChainFrom(c, 0)
  <2> SUFFICES ASSUME NEW n \in 1 .. Len(a) + Len(b)
               PROVE  c[n].after = c[n].delta + (IF n = 1 THEN 0 ELSE c[n - 1].after)
    BY <1>1 DEF ChainFrom
  <2>1. CASE n =< Len(a)
    <3>1. n \in 1 .. Len(a) /\ c[n] = a[n]
      BY <1>1, <2>1
    <3>2. n # 1 => c[n - 1] = a[n - 1]
      BY <1>1, <2>1
    <3> QED BY <1>1, <3>1, <3>2 DEF ChainFrom
  <2>2. CASE n > Len(a)
    <3> DEFINE k == n - Len(a)
    <3>1. k \in 1 .. Len(b) /\ c[n] = b[k]
      BY <1>1, <2>2
    <3>2. b[k].after = b[k].delta + (IF k = 1 THEN LastOr(a, 0) ELSE b[k - 1].after)
      BY <1>1, <3>1 DEF ChainFrom
    <3>3. CASE k = 1
      <4>1. CASE a = <<>>
        <5>1. n = 1 /\ LastOr(a, 0) = 0
          BY <1>1, <1>2, <3>3, <4>1 DEF LastOr
        <5> QED BY <3>1, <3>2, <3>3, <5>1
      <4>2. CASE a # <<>>
        <5>1. n # 1 /\ n - 1 = Len(a) /\ Len(a) \in 1 .. Len(a)
          BY <1>1, <1>2, <3>3, <4>2
        <5>2. c[n - 1] = a[Len(a)] /\ LastOr(a, 0) = a[Len(a)].after
          BY <1>1, <4>2, <5>1 DEF LastOr, Last
        <5> QED BY <3>1, <3>2, <3>3, <5>1, <5>2
      <4> QED BY <4>1, <4>2
    <3>4. CASE k # 1
      <4>1. n # 1 /\ n - 1 \in 1 .. Len(a) + Len(b) /\ n - 1 > Len(a) /\ n - 1 - Len(a) = k - 1
        BY <1>1, <3>1, <3>4
      <4>2. c[n - 1] = b[k - 1]
        BY <1>1, <4>1
      <4> QED BY <3>1, <3>2, <3>4, <4>1, <4>2
    <3> QED BY <3>3, <3>4
  <2> QED BY <1>1, <2>1, <2>2
<1>4. LastOr(c, 0) = LastOr(b, LastOr(a, 0))
  <2>1. CASE b = <<>>
    <3>1. Len(c) = Len(a) /\ (c = <<>> <=> a = <<>>)
      BY <1>1, <1>2, <2>1
    <3>2. a # <<>> => c[Len(c)] = a[Len(a)]
      BY <1>1, <1>2, <2>1, <3>1
    <3> QED BY <2>1, <3>1, <3>2 DEF LastOr, Last
  <2>2. CASE b # <<>>
    <3>1. c # <<>> /\ c[Len(c)] = b[Len(b)]
      BY <1>1, <1>2, <2>2
    <3> QED BY <2>2, <3>1 DEF LastOr, Last
  <2> QED BY <2>1, <2>2
<1> QED BY <1>1, <1>3, <1>4 DEF c

-----------------------------------------------------------------------------
(* Requests.                                                               *)

\* What a request wrote and did not commit continues what is committed, and it
\* holds the lock of every row it wrote; a receipt keeps the row of the supplier
\* from the bill on, so that the status it saves is still that of the order when
\* it commits; whatever else writes a status cancels the order.
Sound(w, j, locks, onHand, owed, received) ==
    /\ \A i \in Items : j.moved[i] # <<>> => locks[i] = w /\ ChainFrom(j.moved[i], onHand[i])
    /\ j.bill # <<>> => locks[Supplier] = w /\ ChainFrom(j.bill, owed)
    /\ j.step = "advance" => j.doc \in Receipts
    /\ j.doc \in Receipts =>
         /\ j.step \in {"advance", "save", "commit"} => locks[Supplier] = w
         /\ j.step \in {"save", "commit"} =>
               j.status = IF \A i \in Ordered : received[i] + Len(j.moved[i]) >= 1
                          THEN "RECEIVED" ELSE "PARTIAL"
         /\ j.step = "commit" => locks[PoRow] = w
    /\ j.doc \notin Receipts /\ (locks[PoRow] = w \/ j.step = "save") => j.status = "CANCELLED"

JobsAreSound == \A w \in Workers : Sound(w, job[w], holds, level, balance, order.received)

\* The strengthening.
StockInv == StockTypeOK /\ StockAddsUp /\ JobsAreSound

\* No row is locked by nobody's name, and what was ordered are items.
LEMMA StockNames ==
    /\ Nobody \notin Workers /\ Nobody \notin Docs
    /\ Supplier \in Rows /\ PoRow \in Rows /\ Supplier # PoRow
    /\ \A i \in Items : i \in Rows /\ i # Supplier /\ i # PoRow
    /\ Ordered \subseteq Items
    /\ \A d \in Docs : ItemsOf[d] \in Seq(Items) /\ Len(ItemsOf[d]) \in Nat
<1>1. \A d \in Docs : ItemsOf[d] \in Seq(Items) /\ Len(ItemsOf[d]) \in Nat
  BY StockAssumption
<1>2. \A d \in Receipts : Range(ItemsOf[d]) \subseteq Items
  <2> SUFFICES ASSUME NEW d \in Receipts, NEW k \in DOMAIN ItemsOf[d]
               PROVE  ItemsOf[d][k] \in Items
    BY DEF Range
  <2>1. ItemsOf[d] \in Seq(Items)
    BY <1>1 DEF Docs
  <2> QED BY <2>1
<1>3. Ordered \subseteq Items
  BY <1>2 DEF Ordered
<1>4. \A i \in Items : i # "supplier" /\ i # "order"
  BY StockAssumption
<1> QED BY <1>1, <1>3, <1>4, StockAssumption DEF Rows, Supplier, PoRow, Docs

\* An idle request is one of the jobs.
LEMMA IdleIsAJob == NoJob \in Jobs
<1>1. <<>> \in Entries /\ <<>> \in Seq([item : Items, delta : Int, strict : BOOLEAN])
  BY DEF Entries
<1>2. [i \in Items |-> <<>>] \in [Items -> Entries]
  BY <1>1
<1> QED BY <1>1, <1>2 DEF NoJob, Jobs, OrderStatus

\* It is sound while it does not hold the row of the order.
LEMMA IdleIsSound ==
    ASSUME NEW w, NEW locks, NEW onHand, NEW owed, NEW received, locks[PoRow] # w
    PROVE  Sound(w, NoJob, locks, onHand, owed, received)
<1>1. NoJob.doc \notin Receipts
  BY StockNames DEF NoJob, Docs
<1> QED BY <1>1 DEF Sound, NoJob

\* A step of one request that commits nothing keeps the invariant if its own job
\* stays sound and it takes no lock from another.
LEMMA JobStep ==
    ASSUME StockInv, NEW w \in Workers, NEW row \in Jobs,
           NEW locks \in [Rows -> Workers \cup {Nobody}],
           job' = [job EXCEPT ![w] = row], holds' = locks,
           UNCHANGED <<level, ledger, balance, statement, order, posted>>,
           Sound(w, row, locks, level, balance, order.received),
           \A u \in Workers : u # w => \A r \in Rows : locks[r] = u <=> holds[r] = u
    PROVE  StockInv'
<1>1. StockTypeOK'
  BY DEF StockInv, StockTypeOK
<1>2. StockAddsUp'
  BY DEF StockInv, StockAddsUp, LedgersReplay, ReceivedOrderIsClosed
<1>3. JobsAreSound'
  <2> SUFFICES ASSUME NEW u \in Workers
               PROVE  Sound(u, job'[u], locks, level, balance, order.received)
    BY DEF JobsAreSound
  <2>1. CASE u = w
    <3>1. job'[u] = row
      BY <2>1 DEF StockInv, StockTypeOK
    <3> QED BY <2>1, <3>1
  <2>2. CASE u # w
    <3>1. job'[u] = job[u]
      BY <2>2 DEF StockInv, StockTypeOK
    <3>2. Sound(u, job[u], holds, level, balance, order.received)
      BY DEF StockInv, JobsAreSound
    <3>3. \A r \in Rows : locks[r] = u <=> holds[r] = u
      BY <2>2
    <3>4. Sound(u, job[u], locks, level, balance, order.received)
      BY <3>2, <3>3, StockNames DEF Sound
    <3> QED BY <3>1, <3>4
  <2> QED BY <2>1, <2>2
<1> QED BY <1>1, <1>2, <1>3 DEF StockInv

\* A lock that is free, or its own, is taken from nobody.
LEMMA TakesNoLock ==
    ASSUME StockInv, NEW w \in Workers, NEW row \in Rows, MayLock(w, row)
    PROVE  /\ [holds EXCEPT ![row] = w] \in [Rows -> Workers \cup {Nobody}]
           /\ [holds EXCEPT ![row] = w][row] = w
           /\ \A r \in Rows : r # row => [holds EXCEPT ![row] = w][r] = holds[r]
           /\ \A r \in Rows : holds[r] = w => [holds EXCEPT ![row] = w][r] = w
           /\ \A u \in Workers : u # w => \A r \in Rows :
                [holds EXCEPT ![row] = w][r] = u <=> holds[r] = u
BY StockNames DEF StockInv, StockTypeOK, MayLock

\* A request that ends releases its own locks and no others.
LEMMA ReleasesItsOwn ==
    ASSUME StockInv, NEW w \in Workers
    PROVE  /\ Released(w) \in [Rows -> Workers \cup {Nobody}]
           /\ \A r \in Rows : Released(w)[r] # w
           /\ \A u \in Workers : u # w => \A r \in Rows : Released(w)[r] = u <=> holds[r] = u
BY StockNames DEF StockInv, StockTypeOK, Released

\* A request that starts has written nothing.
LEMMA StartKeeps ==
    ASSUME StockInv, NEW w \in Workers, NEW j \in Jobs, Start(w, j),
           j.moved = NoJob.moved, j.bill = <<>>,
           \/ j.step \in {"move", "bill"}
           \/ j.step = "save" /\ j.status = "CANCELLED" /\ j.doc = Nobody
    PROVE  StockInv'
<1>1. job[w] = NoJob /\ holds' = holds /\ job' = [job EXCEPT ![w] = j]
      /\ UNCHANGED <<level, ledger, balance, statement, order, posted>>
  BY DEF Start
<1>2. holds[PoRow] # w
  <2>1. Sound(w, NoJob, holds, level, balance, order.received)
    BY <1>1 DEF StockInv, JobsAreSound
  <2>2. NoJob.doc \notin Receipts /\ NoJob.status # "CANCELLED"
    BY StockNames DEF NoJob, Docs
  <2> QED BY <2>1, <2>2 DEF Sound
<1>3. Sound(w, j, holds, level, balance, order.received)
  <2>1. \A i \in Items : j.moved[i] = <<>>
    BY DEF NoJob
  <2>2. j.doc = Nobody => j.doc \notin Receipts
    BY StockNames DEF Docs
  <2> QED BY <1>2, <2>1, <2>2 DEF Sound
<1>4. holds \in [Rows -> Workers \cup {Nobody}]
  BY DEF StockInv, StockTypeOK
<1> QED BY <1>1, <1>3, <1>4, JobStep

\* What requests begin with is a job: a list of things to do, and nothing written.
LEMMA RequestsAreJobs ==
    ASSUME NEW kind \in {"idle", "sale", "post", "adjust", "cancel", "pay"},
           NEW doc \in Docs \cup {Nobody}, NEW step \in {"move", "bill", "save"},
           NEW todo \in Seq([item : Items, delta : Int, strict : BOOLEAN]),
           NEW status \in OrderStatus
    PROVE  [NoJob EXCEPT !.kind = kind, !.doc = doc, !.step = step, !.todo = todo,
                         !.status = status] \in Jobs
BY IdleIsAJob DEF Jobs, NoJob

\* What is to be done for the items of a sequence.
LEMMA TodosOfItems ==
    ASSUME NEW items \in Seq(Items), NEW delta \in Int, NEW strict \in BOOLEAN
    PROVE  [k \in DOMAIN items |-> Todo(items[k], delta, strict)]
             \in Seq([item : Items, delta : Int, strict : BOOLEAN])
<1> DEFINE T == [item : Items, delta : Int, strict : BOOLEAN]
<1>1. DOMAIN items = 1 .. Len(items) /\ Len(items) \in Nat
  OBVIOUS
<1>2. \A k \in DOMAIN items : Todo(items[k], delta, strict) \in T
  BY DEF Todo
<1> HIDE DEF T
<1>3. [k \in 1 .. Len(items) |-> Todo(items[k], delta, strict)] \in [1 .. Len(items) -> T]
  BY <1>1, <1>2
<1>4. [k \in DOMAIN items |-> Todo(items[k], delta, strict)] \in Seq(T)
  BY <1>1, <1>3
<1> QED BY <1>4 DEF T

\* One thing to do.
LEMMA OneTodo ==
    ASSUME NEW i \in Items, NEW delta \in Int, NEW strict \in BOOLEAN
    PROVE  <<Todo(i, delta, strict)>> \in Seq([item : Items, delta : Int, strict : BOOLEAN])
<1>1. Todo(i, delta, strict) \in [item : Items, delta : Int, strict : BOOLEAN]
  BY DEF Todo
<1> QED BY <1>1

\* Every request that starts keeps the invariant.
LEMMA SellKeeps == ASSUME StockInv, NEW w \in Workers, Sell(w) PROVE StockInv'
<1> DEFINE T == Seq([item : Items, delta : Int, strict : BOOLEAN])
<1>1. PICK recipe \in Sold : \E addOn \in {<<>>} \cup {ConsumeForModifier(i) : i \in Items} :
        Start(w, [NoJob EXCEPT !.kind = "sale", !.todo = ConsumeForSale(recipe) \o addOn])
  BY DEF Sell
<1>2. PICK addOn \in {<<>>} \cup {ConsumeForModifier(i) : i \in Items} :
        Start(w, [NoJob EXCEPT !.kind = "sale", !.todo = ConsumeForSale(recipe) \o addOn])
  BY <1>1
<1>3. ConsumeForSale(recipe) \in T
  <2>1. recipe \in Seq(Items) /\ (~AllowNegative) \in BOOLEAN /\ -1 \in Int
    BY StockAssumption
  <2> QED BY <2>1, TodosOfItems DEF ConsumeForSale
<1>4. addOn \in T
  <2>1. \A i \in Items : ConsumeForModifier(i) \in T
    <3>1. -1 \in Int /\ FALSE \in BOOLEAN
      OBVIOUS
    <3>2. \A i \in Items : <<Todo(i, -1, FALSE)>> \in T
      BY <3>1, OneTodo
    <3> QED BY <3>2 DEF ConsumeForModifier
  <2>2. <<>> \in T
    OBVIOUS
  <2> QED BY <2>1, <2>2
<1>5. ConsumeForSale(recipe) \o addOn \in T
  BY <1>3, <1>4
<1> DEFINE j == [NoJob EXCEPT !.kind = "sale", !.todo = ConsumeForSale(recipe) \o addOn]
<1>6. j \in Jobs /\ j.moved = NoJob.moved /\ j.bill = <<>> /\ j.step = "move"
  <2> DEFINE todo == ConsumeForSale(recipe) \o addOn
  <2>1. todo \in Seq([item : Items, delta : Int, strict : BOOLEAN])
    BY <1>5
  <2> HIDE DEF todo
  <2>2. [NoJob EXCEPT !.kind = "sale", !.todo = todo] \in Jobs
    BY <2>1, IdleIsAJob DEF Jobs, NoJob
  <2> QED BY <2>2 DEF NoJob, todo
<1>7. Start(w, j)
  BY <1>2
<1> HIDE DEF j
<1> QED BY <1>6, <1>7, StartKeeps

\* So does a receipt, a return or a count.
LEMMA PostKeeps ==
    ASSUME StockInv, NEW w \in Workers, NEW docs \in SUBSET Docs, NEW sign \in Int,
           Post(w, docs, sign)
    PROVE  StockInv'
<1>1. PICK d \in docs : Start(w, [NoJob EXCEPT !.kind = "post", !.doc = d,
              !.todo = [k \in DOMAIN ItemsOf[d] |-> Todo(ItemsOf[d][k], sign, FALSE)]])
  BY DEF Post
<1> DEFINE todo == [k \in DOMAIN ItemsOf[d] |-> Todo(ItemsOf[d][k], sign, FALSE)]
<1>2. todo \in Seq([item : Items, delta : Int, strict : BOOLEAN])
  BY StockNames, TodosOfItems
<1> HIDE DEF todo
<1> DEFINE j == [NoJob EXCEPT !.kind = "post", !.doc = d, !.todo = todo]
<1>3. j \in Jobs /\ j.moved = NoJob.moved /\ j.bill = <<>> /\ j.step = "move"
  <2>1. j \in Jobs
    BY <1>2, IdleIsAJob DEF Jobs, NoJob
  <2> QED BY <2>1 DEF NoJob
<1>4. Start(w, j)
  BY <1>1 DEF todo
<1> HIDE DEF j
<1> QED BY <1>3, <1>4, StartKeeps

\* So does a correction.
LEMMA AdjustKeeps ==
    ASSUME StockInv, NEW w \in Workers, Adjust(w) \/ RecordWaste(w) PROVE StockInv'
<1>1. PICK i \in Items, delta \in Int :
        Start(w, [NoJob EXCEPT !.kind = "adjust", !.todo = <<Todo(i, delta, FALSE)>>])
  <2>1. CASE Adjust(w)
    <3>1. PICK i \in Items, target \in 0 .. 1 :
            Start(w, [NoJob EXCEPT !.kind = "adjust",
                                   !.todo = <<Todo(i, target - level[i], FALSE)>>])
      BY <2>1 DEF Adjust
    <3>2. target - level[i] \in Int
      BY DEF StockInv, StockTypeOK
    <3> QED BY <3>1, <3>2
  <2>2. CASE RecordWaste(w)
    <3>1. -1 \in Int
      OBVIOUS
    <3> QED BY <2>2, <3>1 DEF RecordWaste
  <2> QED BY <2>1, <2>2
<1> DEFINE todo == <<Todo(i, delta, FALSE)>>
<1>2. todo \in Seq([item : Items, delta : Int, strict : BOOLEAN])
  BY OneTodo
<1> HIDE DEF todo
<1> DEFINE j == [NoJob EXCEPT !.kind = "adjust", !.todo = todo]
<1>3. j \in Jobs /\ j.moved = NoJob.moved /\ j.bill = <<>> /\ j.step = "move"
  <2>1. j \in Jobs
    BY <1>2, IdleIsAJob DEF Jobs, NoJob
  <2> QED BY <2>1 DEF NoJob
<1>4. Start(w, j)
  BY <1>1 DEF todo
<1> HIDE DEF j
<1> QED BY <1>3, <1>4, StartKeeps

\* So does a payment, and so does a cancellation.
LEMMA PayOrCancelKeeps ==
    ASSUME StockInv, NEW w \in Workers, PaySupplier(w) \/ CancelOrder(w) PROVE StockInv'
<1>1. CASE PaySupplier(w)
  <2> DEFINE j == [NoJob EXCEPT !.kind = "pay", !.step = "bill"]
  <2>1. j \in Jobs /\ j.moved = NoJob.moved /\ j.bill = <<>> /\ j.step = "bill"
    <3>1. j \in Jobs
      BY IdleIsAJob DEF Jobs, NoJob
    <3> QED BY <3>1 DEF NoJob
  <2>2. Start(w, j)
    BY <1>1 DEF PaySupplier
  <2> HIDE DEF j
  <2> QED BY <2>1, <2>2, StartKeeps
<1>2. CASE CancelOrder(w)
  <2> DEFINE j == [NoJob EXCEPT !.kind = "cancel", !.status = "CANCELLED", !.step = "save"]
  <2>1. /\ j \in Jobs /\ j.moved = NoJob.moved /\ j.bill = <<>>
        /\ j.step = "save" /\ j.status = "CANCELLED" /\ j.doc = Nobody
    <3>1. j \in Jobs
      BY IdleIsAJob DEF Jobs, NoJob, OrderStatus
    <3> QED BY <3>1 DEF NoJob
  <2>2. Start(w, j)
    BY <1>2 DEF CancelOrder
  <2> HIDE DEF j
  <2> QED BY <2>1, <2>2, StartKeeps
<1> QED BY <1>1, <1>2

\* A movement: the row of the item is locked, and the chain of what the request
\* wrote of it grows by one entry.
LEMMA MoveKeeps == ASSUME StockInv, NEW w \in Workers, Move(w) PROVE StockInv'
<1>1. PICK j : j = job[w]
  OBVIOUS
<1>2. j \in Jobs /\ Sound(w, j, holds, level, balance, order.received)
  BY <1>1 DEF StockInv, StockTypeOK, JobsAreSound
<1>3. PICK t : t = Head(j.todo)
  OBVIOUS
<1>4. j.step = "move" /\ j.todo # <<>> /\ j.todo \in Seq([item : Items, delta : Int, strict : BOOLEAN])
  BY <1>1, <1>2 DEF Move, HasTodo, Jobs
<1>5. t.item \in Items /\ t.delta \in Int /\ Tail(j.todo) \in Seq([item : Items, delta : Int, strict : BOOLEAN])
  <2> DEFINE T == [item : Items, delta : Int, strict : BOOLEAN]
  <2>1. j.todo \in Seq(T) /\ j.todo # <<>>
    BY <1>4
  <2> HIDE DEF T
  <2>2. t \in T /\ Tail(j.todo) \in Seq(T)
    BY <1>3, <2>1
  <2> QED BY <2>2 DEF T
<1>6. j.moved \in [Items -> Entries] /\ level[t.item] \in Int
      /\ ChainFrom(j.moved[t.item], level[t.item])
  <2>1. j.moved \in [Items -> Entries] /\ level[t.item] \in Int
    BY <1>2, <1>5 DEF Jobs, StockInv, StockTypeOK
  <2>2. j.moved[t.item] = <<>> => ChainFrom(j.moved[t.item], level[t.item])
    BY DEF ChainFrom
  <2> QED BY <1>2, <1>5, <2>1, <2>2 DEF Sound
<1>7. PICK more : more = Append(j.moved[t.item],
                       Entry(t.delta, LastOr(j.moved[t.item], level[t.item]) + t.delta))
  OBVIOUS
<1>8. more \in Entries /\ more # <<>> /\ ChainFrom(more, level[t.item])
  BY <1>5, <1>6, <1>7, ChainGrows
<1> DEFINE row == [j EXCEPT !.todo = Tail(j.todo), !.moved = [j.moved EXCEPT ![t.item] = more]]
<1>9. /\ MayLock(w, t.item) /\ holds' = [holds EXCEPT ![t.item] = w]
      /\ job' = [job EXCEPT ![w] = row]
      /\ UNCHANGED <<level, ledger, balance, statement, order, posted>>
  <2>1. Next1(w) = t /\ OnHand(w, t.item) = LastOr(j.moved[t.item], level[t.item])
    BY <1>1, <1>3 DEF Next1, OnHand
  <2>2. job \in [Workers -> Jobs]
    BY DEF StockInv, StockTypeOK
  <2> QED BY <1>1, <1>2, <1>7, <2>1, <2>2 DEF Move, Jobs
<1>10. row \in Jobs
  <2>1. [j.moved EXCEPT ![t.item] = more] \in [Items -> Entries]
    BY <1>6, <1>8
  <2> QED BY <1>2, <1>5, <2>1 DEF Jobs
<1>11. /\ row.doc = j.doc /\ row.step = "move" /\ row.status = j.status /\ row.bill = j.bill
       /\ row.moved[t.item] = more
       /\ \A i \in Items : i # t.item => row.moved[i] = j.moved[i]
  BY <1>2, <1>4, <1>5, <1>6 DEF Jobs
<1> HIDE DEF row
<1>12. PICK locks : locks = [holds EXCEPT ![t.item] = w]
  OBVIOUS
<1>13. /\ locks \in [Rows -> Workers \cup {Nobody}] /\ locks[t.item] = w
       /\ \A r \in Rows : r # t.item => locks[r] = holds[r]
       /\ \A r \in Rows : holds[r] = w => locks[r] = w
       /\ \A u \in Workers : u # w => \A r \in Rows : locks[r] = u <=> holds[r] = u
  BY <1>5, <1>9, <1>12, StockNames, TakesNoLock
<1>14. Sound(w, row, locks, level, balance, order.received)
  <2>1. locks[Supplier] = holds[Supplier] /\ locks[PoRow] = holds[PoRow]
    BY <1>5, <1>13, StockNames
  <2>2. \A i \in Items : row.moved[i] # <<>> => locks[i] = w /\ ChainFrom(row.moved[i], level[i])
    BY <1>2, <1>8, <1>11, <1>13, StockNames DEF Sound
  <2>3. row.doc \notin Receipts /\ locks[PoRow] = w => row.status = "CANCELLED"
    BY <1>2, <1>11, <2>1 DEF Sound
  <2>4. row.bill # <<>> => locks[Supplier] = w /\ ChainFrom(row.bill, balance)
    BY <1>2, <1>11, <2>1 DEF Sound
  <2>5. row.step \notin {"advance", "save", "commit"}
    BY <1>11
  <2> QED BY <2>2, <2>3, <2>4, <2>5 DEF Sound
<1>15. holds' = locks
  BY <1>9, <1>12
<1>16. job' = [job EXCEPT ![w] = row]
  BY <1>9
<1>17. UNCHANGED <<level, ledger, balance, statement, order, posted>>
  BY <1>9
<1> QED BY <1>10, <1>13, <1>14, <1>15, <1>16, <1>17, JobStep

\* The items done, a receipt or a return goes on to the bill, anything else commits.
LEMMA MovedKeeps == ASSUME StockInv, NEW w \in Workers, Moved(w) PROVE StockInv'
<1>1. PICK j : j = job[w]
  OBVIOUS
<1>2. j \in Jobs /\ Sound(w, j, holds, level, balance, order.received)
  BY <1>1 DEF StockInv, StockTypeOK, JobsAreSound
<1>3. PICK step : step = IF j.doc \in Receipts \cup Returns THEN "bill" ELSE "commit"
  OBVIOUS
<1> DEFINE row == [j EXCEPT !.step = step]
<1>4. /\ row \in Jobs /\ row.step = step /\ row.doc = j.doc /\ row.moved = j.moved
      /\ row.bill = j.bill /\ row.status = j.status
  BY <1>2, <1>3 DEF Jobs
<1>5. job' = [job EXCEPT ![w] = row]
  BY <1>1, <1>3 DEF Moved
<1>6. holds' = holds /\ UNCHANGED <<level, ledger, balance, statement, order, posted>>
  BY DEF Moved
<1> HIDE DEF row
<1>7. Sound(w, row, holds, level, balance, order.received)
  <2>1. step \notin {"advance", "save"} /\ (j.doc \in Receipts => step # "commit")
    BY <1>3
  <2> QED BY <1>2, <1>4, <2>1 DEF Sound
<1>8. holds \in [Rows -> Workers \cup {Nobody}]
  BY DEF StockInv, StockTypeOK
<1> QED BY <1>4, <1>5, <1>6, <1>7, <1>8, JobStep

\* The bill continues the balance of the supplier, whose row is locked.
LEMMA BillKeeps == ASSUME StockInv, NEW w \in Workers, Bill(w) PROVE StockInv'
<1>1. PICK j : j = job[w]
  OBVIOUS
<1>2. j \in Jobs /\ Sound(w, j, holds, level, balance, order.received)
  BY <1>1 DEF StockInv, StockTypeOK, JobsAreSound
<1>3. PICK amount : amount = IF j.doc \in Receipts THEN Len(ItemsOf[j.doc])
                     ELSE IF j.doc \in Returns THEN -Len(ItemsOf[j.doc]) ELSE -1
  OBVIOUS
<1>4. amount \in Int
  <2>1. j.doc \in Receipts \cup Returns => Len(ItemsOf[j.doc]) \in Nat
    BY StockNames DEF Docs
  <2> QED BY <1>3, <2>1
<1>5. PICK entries : entries = <<Entry(amount, balance + amount)>>
  OBVIOUS
<1>6. entries \in Entries /\ ChainFrom(entries, balance)
  <2>1. balance \in Int
    BY DEF StockInv, StockTypeOK
  <2>2. Entry(amount, balance + amount) \in [delta : Int, after : Int]
    BY <1>4, <2>1 DEF Entry
  <2>3. entries \in Entries
    BY <1>5, <2>2 DEF Entries
  <2>4. DOMAIN entries = {1} /\ entries[1].delta = amount /\ entries[1].after = balance + amount
    BY <1>5 DEF Entry
  <2>5. ChainFrom(entries, balance)
    BY <1>4, <2>1, <2>4 DEF ChainFrom
  <2> QED BY <2>3, <2>5
<1>7. PICK step : step = IF j.doc \in Receipts THEN "advance" ELSE "commit"
  OBVIOUS
<1> DEFINE row == [j EXCEPT !.bill = entries, !.step = step]
<1>8. /\ row \in Jobs /\ row.step = step /\ row.doc = j.doc /\ row.moved = j.moved
      /\ row.bill = entries /\ row.status = j.status
  BY <1>2, <1>6, <1>7 DEF Jobs
<1>9. /\ MayLock(w, Supplier) /\ holds' = [holds EXCEPT ![Supplier] = w]
      /\ UNCHANGED <<level, ledger, balance, statement, order, posted>>
  BY DEF Bill, MayBill
<1>10. job' = [job EXCEPT ![w] = row]
  <2>1. job \in [Workers -> Jobs]
    BY DEF StockInv, StockTypeOK
  <2> QED BY <1>1, <1>2, <1>3, <1>5, <1>7, <2>1 DEF Bill, Jobs
<1> HIDE DEF row
<1>11. PICK locks : locks = [holds EXCEPT ![Supplier] = w]
  OBVIOUS
<1>12. /\ locks \in [Rows -> Workers \cup {Nobody}] /\ locks[Supplier] = w
       /\ \A r \in Rows : r # Supplier => locks[r] = holds[r]
       /\ \A u \in Workers : u # w => \A r \in Rows : locks[r] = u <=> holds[r] = u
  BY <1>9, <1>11, StockNames, TakesNoLock
<1>13. Sound(w, row, locks, level, balance, order.received)
  <2>1. locks[PoRow] = holds[PoRow] /\ \A i \in Items : locks[i] = holds[i]
    BY <1>12, StockNames
  <2>2. step \notin {"save"} /\ (step = "advance" <=> j.doc \in Receipts)
        /\ (step = "commit" <=> j.doc \notin Receipts)
    BY <1>7
  <2> QED BY <1>2, <1>6, <1>8, <1>12, <2>1, <2>2 DEF Sound
<1>14. holds' = locks
  BY <1>9, <1>11
<1>15. UNCHANGED <<level, ledger, balance, statement, order, posted>>
  BY <1>9
<1> QED BY <1>8, <1>10, <1>12, <1>13, <1>14, <1>15, JobStep

\* The status is computed from what was received before and what the request brings.
LEMMA AdvanceKeeps == ASSUME StockInv, NEW w \in Workers, Advance(w) PROVE StockInv'
<1>1. PICK j : j = job[w]
  OBVIOUS
<1>2. j \in Jobs /\ Sound(w, j, holds, level, balance, order.received)
  BY <1>1 DEF StockInv, StockTypeOK, JobsAreSound
<1>3. j.step = "advance" /\ j.doc \in Receipts
  BY <1>1, <1>2 DEF Advance, Sound
<1>4. PICK status :
        status = IF \A i \in Ordered : Received(w, i) >= 1 THEN "RECEIVED" ELSE "PARTIAL"
  OBVIOUS
<1>5. status = IF \A i \in Ordered : order.received[i] + Len(j.moved[i]) >= 1
               THEN "RECEIVED" ELSE "PARTIAL"
  BY <1>1, <1>3, <1>4 DEF Received
<1> DEFINE row == [j EXCEPT !.step = "save", !.status = status]
<1>6. /\ row \in Jobs /\ row.step = "save" /\ row.doc = j.doc /\ row.moved = j.moved
      /\ row.bill = j.bill /\ row.status = status
  BY <1>2, <1>4 DEF Jobs, OrderStatus
<1>7. job' = [job EXCEPT ![w] = row]
  <2>1. job \in [Workers -> Jobs]
    BY DEF StockInv, StockTypeOK
  <2> QED BY <1>1, <1>2, <1>4, <2>1 DEF Advance, Jobs
<1>8. holds' = holds /\ UNCHANGED <<level, ledger, balance, statement, order, posted>>
  BY DEF Advance
<1> HIDE DEF row
<1>9. Sound(w, row, holds, level, balance, order.received)
  BY <1>2, <1>3, <1>5, <1>6 DEF Sound
<1>10. holds \in [Rows -> Workers \cup {Nobody}]
  BY DEF StockInv, StockTypeOK
<1> QED BY <1>6, <1>7, <1>8, <1>9, <1>10, JobStep

\* The row of the order is locked before the commit.
LEMMA SaveKeeps == ASSUME StockInv, NEW w \in Workers, SaveStatus(w) PROVE StockInv'
<1>1. PICK j : j = job[w]
  OBVIOUS
<1>2. j \in Jobs /\ Sound(w, j, holds, level, balance, order.received)
  BY <1>1 DEF StockInv, StockTypeOK, JobsAreSound
<1> DEFINE row == [j EXCEPT !.step = "commit"]
<1>3. /\ row \in Jobs /\ row.step = "commit" /\ row.doc = j.doc /\ row.moved = j.moved
      /\ row.bill = j.bill /\ row.status = j.status
  BY <1>2 DEF Jobs
<1>4. job' = [job EXCEPT ![w] = row] /\ j.step = "save"
  BY <1>1 DEF SaveStatus
<1>5. /\ MayLock(w, PoRow) /\ holds' = [holds EXCEPT ![PoRow] = w]
      /\ UNCHANGED <<level, ledger, balance, statement, order, posted>>
  BY DEF SaveStatus
<1> HIDE DEF row
<1>6. PICK locks : locks = [holds EXCEPT ![PoRow] = w]
  OBVIOUS
<1>7. /\ locks \in [Rows -> Workers \cup {Nobody}] /\ locks[PoRow] = w
      /\ \A r \in Rows : r # PoRow => locks[r] = holds[r]
      /\ \A u \in Workers : u # w => \A r \in Rows : locks[r] = u <=> holds[r] = u
  BY <1>5, <1>6, StockNames, TakesNoLock
<1>8. Sound(w, row, locks, level, balance, order.received)
  <2>1. locks[Supplier] = holds[Supplier] /\ \A i \in Items : locks[i] = holds[i]
    BY <1>7, StockNames
  <2> QED BY <1>2, <1>3, <1>4, <1>7, <2>1 DEF Sound
<1>9. holds' = locks
  BY <1>5, <1>6
<1> QED BY <1>3, <1>4, <1>5, <1>7, <1>8, <1>9, JobStep

\* A rollback gives the locks back and writes nothing.
LEMMA RollBackKeeps == ASSUME StockInv, NEW w \in Workers, RollBack(w) PROVE StockInv'
<1>1. PICK locks : locks = Released(w)
  OBVIOUS
<1>2. /\ locks \in [Rows -> Workers \cup {Nobody}] /\ locks[PoRow] # w
      /\ \A u \in Workers : u # w => \A r \in Rows : locks[r] = u <=> holds[r] = u
  BY <1>1, StockNames, ReleasesItsOwn
<1>3. /\ holds' = locks /\ job' = [job EXCEPT ![w] = NoJob]
      /\ UNCHANGED <<level, ledger, balance, statement, order, posted>>
  BY <1>1 DEF RollBack
<1>4. Sound(w, NoJob, locks, level, balance, order.received)
  BY <1>2, IdleIsSound
<1> QED BY <1>2, <1>3, <1>4, IdleIsAJob, JobStep

\* A commit appends what the request wrote to what is committed, which nobody
\* moved since, and makes the status of the order that of what it received.
LEMMA CommitKeeps == ASSUME StockInv, NEW w \in Workers, Commit(w) PROVE StockInv'
<1>1. PICK j : j = job[w]
  OBVIOUS
<1>2. j \in Jobs /\ Sound(w, j, holds, level, balance, order.received)
  BY <1>1 DEF StockInv, StockTypeOK, JobsAreSound
<1>3. PICK got : got = [i \in Items |-> Received(w, i)]
  OBVIOUS
<1>4. /\ j.step = "commit"
      /\ level' = [i \in Items |-> LastOr(j.moved[i], level[i])]
      /\ ledger' = [i \in Items |-> ledger[i] \o j.moved[i]]
      /\ balance' = LastOr(j.bill, balance)
      /\ statement' = statement \o j.bill
      /\ order' = [status   |-> IF holds[PoRow] = w THEN j.status ELSE order.status,
                   received |-> got]
      /\ posted' = [d \in Docs |-> posted[d] + (IF d = j.doc THEN 1 ELSE 0)]
      /\ holds' = Released(w)
      /\ job' = [job EXCEPT ![w] = NoJob]
  BY <1>1, <1>3 DEF Commit
<1>5. /\ level \in [Items -> Int] /\ ledger \in [Items -> Entries]
      /\ balance \in Int /\ statement \in Entries
      /\ order.status \in OrderStatus /\ order.received \in [Items -> Nat]
      /\ posted \in [Docs -> Nat] /\ job \in [Workers -> Jobs]
      /\ j.moved \in [Items -> Entries] /\ j.bill \in Entries /\ j.status \in OrderStatus
  BY <1>2 DEF StockInv, StockTypeOK, Jobs
<1>6. \A i \in Items :
        /\ LastOr(j.moved[i], level[i]) \in Int
        /\ ledger[i] \o j.moved[i] \in Entries
        /\ Replays(ledger[i] \o j.moved[i], LastOr(j.moved[i], level[i]))
  <2> SUFFICES ASSUME NEW i \in Items
               PROVE  /\ LastOr(j.moved[i], level[i]) \in Int
                      /\ ledger[i] \o j.moved[i] \in Entries
                      /\ Replays(ledger[i] \o j.moved[i], LastOr(j.moved[i], level[i]))
    OBVIOUS
  <2>1. ledger[i] \in Entries /\ j.moved[i] \in Entries /\ level[i] \in Int
    BY <1>5
  <2>2. ChainFrom(ledger[i], 0) /\ level[i] = LastOr(ledger[i], 0)
    BY ReplaysIsChain DEF StockInv, StockAddsUp, LedgersReplay
  <2>3. ChainFrom(j.moved[i], level[i])
    <3>1. j.moved[i] = <<>> => ChainFrom(j.moved[i], level[i])
      BY DEF ChainFrom
    <3> QED BY <1>2, <3>1 DEF Sound
  <2>4. /\ ledger[i] \o j.moved[i] \in Entries /\ ChainFrom(ledger[i] \o j.moved[i], 0)
        /\ LastOr(ledger[i] \o j.moved[i], 0) = LastOr(j.moved[i], level[i])
    BY <2>1, <2>2, <2>3, ChainsJoin
  <2> QED BY <2>1, <2>4, LastIsAnInteger, ReplaysIsChain
<1>7. /\ LastOr(j.bill, balance) \in Int /\ statement \o j.bill \in Entries
      /\ Replays(statement \o j.bill, LastOr(j.bill, balance))
  <2>1. ChainFrom(statement, 0) /\ balance = LastOr(statement, 0)
    BY ReplaysIsChain DEF StockInv, StockAddsUp, LedgersReplay
  <2>2. ChainFrom(j.bill, balance)
    <3>1. j.bill = <<>> => ChainFrom(j.bill, balance)
      BY DEF ChainFrom
    <3> QED BY <1>2, <3>1 DEF Sound
  <2>3. /\ statement \o j.bill \in Entries /\ ChainFrom(statement \o j.bill, 0)
        /\ LastOr(statement \o j.bill, 0) = LastOr(j.bill, balance)
    BY <1>5, <2>1, <2>2, ChainsJoin
  <2> QED BY <1>5, <2>3, LastIsAnInteger, ReplaysIsChain
<1>8. /\ got \in [Items -> Nat]
      /\ \A i \in Items : got[i] = order.received[i]
                                   + (IF j.doc \in Receipts THEN Len(j.moved[i]) ELSE 0)
  <2>1. \A i \in Items : Received(w, i) = order.received[i]
                                   + (IF j.doc \in Receipts THEN Len(j.moved[i]) ELSE 0)
    BY <1>1 DEF Received
  <2>2. \A i \in Items : Len(j.moved[i]) \in Nat
    BY <1>5 DEF Entries
  <2>3. \A i \in Items : Received(w, i) \in Nat
    <3> SUFFICES ASSUME NEW i \in Items PROVE Received(w, i) \in Nat
      OBVIOUS
    <3>1. order.received[i] \in Nat /\ Len(j.moved[i]) \in Nat
      BY <1>5, <2>2
    <3>2. CASE j.doc \in Receipts
      <4>1. Received(w, i) = order.received[i] + Len(j.moved[i])
        BY <2>1, <3>2
      <4> QED BY <3>1, <4>1
    <3>3. CASE j.doc \notin Receipts
      <4>1. Received(w, i) = order.received[i]
        BY <2>1, <3>1, <3>3
      <4> QED BY <3>1, <4>1
    <3> QED BY <3>2, <3>3
  <2> QED BY <1>3, <2>1, <2>3
<1>9. /\ order'.received = got
      /\ order'.status = IF holds[PoRow] = w THEN j.status ELSE order.status
      /\ order' \in [status : OrderStatus, received : [Items -> Nat]]
  BY <1>4, <1>5, <1>8
<1>10. StockTypeOK'
  <2>1. level' \in [Items -> Int] /\ ledger' \in [Items -> Entries]
    BY <1>4, <1>6
  <2>2. balance' \in Int /\ statement' \in Entries
    BY <1>4, <1>7
  <2>3. posted' \in [Docs -> Nat]
    <3>1. \A d \in Docs : posted[d] + (IF d = j.doc THEN 1 ELSE 0) \in Nat
      BY <1>5
    <3> QED BY <1>4, <3>1
  <2>4. holds' \in [Rows -> Workers \cup {Nobody}]
    BY <1>4, ReleasesItsOwn
  <2>5. job' \in [Workers -> Jobs]
    BY <1>4, <1>5, IdleIsAJob
  <2> QED BY <1>9, <2>1, <2>2, <2>3, <2>4, <2>5 DEF StockTypeOK
<1>11. LedgersReplay'
  <2>1. \A i \in Items : Replays(ledger'[i], level'[i])
    BY <1>4, <1>6
  <2>2. Replays(statement', balance')
    BY <1>4, <1>7
  <2> QED BY <2>1, <2>2 DEF LedgersReplay, Replays
<1>12. ReceivedOrderIsClosed'
  <2> SUFFICES ASSUME \A i \in Ordered : got[i] >= 1
               PROVE  order'.status \in {"RECEIVED", "CANCELLED"}
    BY <1>9 DEF ReceivedOrderIsClosed
  <2>1. CASE j.doc \in Receipts
    <3>1. holds[PoRow] = w
      BY <1>2, <1>4, <2>1 DEF Sound
    <3>2. \A i \in Ordered : order.received[i] + Len(j.moved[i]) >= 1
      BY <1>8, <2>1, StockNames
    <3>3. j.status = "RECEIVED"
      BY <1>2, <1>4, <2>1, <3>2 DEF Sound
    <3> QED BY <1>9, <3>1, <3>3
  <2>2. CASE j.doc \notin Receipts
    <3>1. \A i \in Ordered : order.received[i] >= 1
      BY <1>5, <1>8, <2>2, StockNames
    <3>2. order.status \in {"RECEIVED", "CANCELLED"}
      BY <3>1 DEF StockInv, StockAddsUp, ReceivedOrderIsClosed
    <3>3. holds[PoRow] = w => j.status = "CANCELLED"
      BY <1>2, <2>2 DEF Sound
    <3> QED BY <1>9, <3>2, <3>3
  <2> QED BY <2>1, <2>2
<1>13. JobsAreSound'
  <2> SUFFICES ASSUME NEW u \in Workers
               PROVE  Sound(u, job'[u], Released(w), level', balance', got)
    BY <1>4, <1>9 DEF JobsAreSound
  <2>1. CASE u = w
    <3>1. job'[u] = NoJob
      BY <1>4, <1>5, <2>1
    <3>2. Released(w)[PoRow] # u
      BY <2>1, StockNames, ReleasesItsOwn
    <3> QED BY <3>1, <3>2, IdleIsSound
  <2>2. CASE u # w
    <3>1. PICK o : o = job[u]
      OBVIOUS
    <3>2. job'[u] = o
      BY <1>4, <1>5, <2>2, <3>1
    <3>3. o \in Jobs /\ Sound(u, o, holds, level, balance, order.received)
      BY <1>5, <3>1 DEF StockInv, JobsAreSound
    <3>4. \A r \in Rows : Released(w)[r] = u <=> holds[r] = u
      BY <2>2, ReleasesItsOwn
    <3>5. \A i \in Items : o.moved[i] # <<>> =>
            Released(w)[i] = u /\ ChainFrom(o.moved[i], level'[i])
      <4> SUFFICES ASSUME NEW i \in Items, o.moved[i] # <<>>
                   PROVE  Released(w)[i] = u /\ ChainFrom(o.moved[i], level'[i])
        OBVIOUS
      <4>1. holds[i] = u /\ ChainFrom(o.moved[i], level[i])
        BY <3>3 DEF Sound
      <4>2. j.moved[i] = <<>>
        BY <1>2, <2>2, <4>1 DEF Sound
      <4>3. level'[i] = level[i]
        BY <1>4, <4>2 DEF LastOr
      <4> QED BY <3>4, <4>1, <4>3, StockNames
    <3>6. o.bill # <<>> => Released(w)[Supplier] = u /\ ChainFrom(o.bill, balance')
      <4> SUFFICES ASSUME o.bill # <<>>
                   PROVE  Released(w)[Supplier] = u /\ ChainFrom(o.bill, balance')
        OBVIOUS
      <4>1. holds[Supplier] = u /\ ChainFrom(o.bill, balance)
        BY <3>3 DEF Sound
      <4>2. j.bill = <<>>
        BY <1>2, <2>2, <4>1 DEF Sound
      <4>3. balance' = balance
        BY <1>4, <4>2 DEF LastOr
      <4> QED BY <3>4, <4>1, <4>3, StockNames
    <3>7. o.doc \in Receipts =>
            /\ o.step \in {"advance", "save", "commit"} => Released(w)[Supplier] = u
            /\ o.step = "commit" => Released(w)[PoRow] = u
      BY <3>3, <3>4, StockNames DEF Sound
    <3>8. ASSUME o.doc \in Receipts, o.step \in {"save", "commit"}
          PROVE  o.status = IF \A i \in Ordered : got[i] + Len(o.moved[i]) >= 1
                            THEN "RECEIVED" ELSE "PARTIAL"
      <4>1. holds[Supplier] = u
        BY <3>3, <3>8 DEF Sound
      <4>2. j.doc \notin Receipts
        BY <1>2, <1>4, <2>2, <4>1 DEF Sound
      <4>3. \A i \in Items : got[i] = order.received[i]
        BY <1>5, <1>8, <4>2
      <4>4. o.status = IF \A i \in Ordered : order.received[i] + Len(o.moved[i]) >= 1
                       THEN "RECEIVED" ELSE "PARTIAL"
        BY <3>3, <3>8 DEF Sound
      <4> QED BY <4>3, <4>4, StockNames
    <3>9. o.doc \notin Receipts /\ (Released(w)[PoRow] = u \/ o.step = "save")
            => o.status = "CANCELLED"
      BY <3>3, <3>4, StockNames DEF Sound
    <3>10. o.step = "advance" => o.doc \in Receipts
      BY <3>3 DEF Sound
    <3> QED BY <3>2, <3>5, <3>6, <3>7, <3>8, <3>9, <3>10 DEF Sound
  <2> QED BY <2>1, <2>2
<1> QED BY <1>10, <1>11, <1>12, <1>13 DEF StockInv, StockAddsUp

\* Nothing is in stock, and nobody works.
LEMMA StockStart == ASSUME StockInit PROVE StockInv
<1>1. <<>> \in Entries
  BY DEF Entries
<1>2. StockTypeOK
  <2>1. holds \in [Rows -> Workers \cup {Nobody}] /\ posted \in [Docs -> Nat]
    BY DEF StockInit
  <2>2. order \in [status : OrderStatus, received : [Items -> Nat]]
    BY DEF StockInit, OrderStatus
  <2> QED BY <1>1, <2>1, <2>2, IdleIsAJob DEF StockInit, StockTypeOK
<1>3. LedgersReplay
  <2>1. Replays(<<>>, 0)
    BY DEF Replays, LastOr
  <2> QED BY <2>1 DEF StockInit, LedgersReplay
<1>4. ReceivedOrderIsClosed
  <2>1. PICK d \in Receipts : ItemsOf[d] # <<>>
    BY StockAssumption
  <2>2. ItemsOf[d] \in Seq(Items)
    BY StockNames DEF Docs
  <2>3. 1 \in DOMAIN ItemsOf[d]
    BY <2>1, <2>2
  <2>4. ItemsOf[d][1] \in Ordered
    BY <2>3 DEF Ordered, Range
  <2>5. ItemsOf[d][1] \in Items
    BY <2>4, StockNames
  <2>6. order.received[ItemsOf[d][1]] = 0
    BY <2>5 DEF StockInit
  <2> QED BY <2>4, <2>6 DEF ReceivedOrderIsClosed
<1>5. JobsAreSound
  <2> SUFFICES ASSUME NEW w \in Workers
               PROVE  Sound(w, job[w], holds, level, balance, order.received)
    BY DEF JobsAreSound
  <2>1. job[w] = NoJob /\ holds[PoRow] # w
    BY StockNames DEF StockInit
  <2> QED BY <2>1, IdleIsSound
<1> QED BY <1>2, <1>3, <1>4, <1>5 DEF StockInv, StockAddsUp

\* Every step keeps the invariant.
LEMMA StockStep == ASSUME StockInv, [StockNext]_stockVars PROVE StockInv'
<1>1. CASE UNCHANGED stockVars
  BY <1>1 DEF stockVars, StockInv, StockTypeOK, StockAddsUp, LedgersReplay, Replays,
              ReceivedOrderIsClosed, JobsAreSound, Sound
<1>2. ASSUME NEW w \in Workers,
             \/ Sell(w) \/ PostReceipt(w) \/ PostReturn(w) \/ PostCount(w)
             \/ Adjust(w) \/ RecordWaste(w)
             \/ PaySupplier(w) \/ CancelOrder(w)
             \/ Move(w) \/ Moved(w) \/ Bill(w) \/ Advance(w) \/ SaveStatus(w)
             \/ Commit(w) \/ Refuse(w) \/ BreakDeadlock(w)
      PROVE  StockInv'
  <2>1. CASE Sell(w)
    BY <2>1, SellKeeps
  <2>2. CASE PostReceipt(w) \/ PostReturn(w) \/ PostCount(w)
    <3>1. /\ Receipts \in SUBSET Docs /\ Returns \in SUBSET Docs /\ Counts \in SUBSET Docs
          /\ 1 \in Int /\ -1 \in Int
      BY DEF Docs
    <3> QED BY <2>2, <3>1, PostKeeps DEF PostReceipt, PostReturn, PostCount
  <2>3. CASE Adjust(w) \/ RecordWaste(w)
    BY <2>3, AdjustKeeps
  <2>4. CASE PaySupplier(w) \/ CancelOrder(w)
    BY <2>4, PayOrCancelKeeps
  <2>5. CASE Move(w)
    BY <2>5, MoveKeeps
  <2>6. CASE Moved(w)
    BY <2>6, MovedKeeps
  <2>7. CASE Bill(w)
    BY <2>7, BillKeeps
  <2>8. CASE Advance(w)
    BY <2>8, AdvanceKeeps
  <2>9. CASE SaveStatus(w)
    BY <2>9, SaveKeeps
  <2>10. CASE Commit(w)
    BY <2>10, CommitKeeps
  <2>11. CASE Refuse(w) \/ BreakDeadlock(w)
    BY <2>11, RollBackKeeps DEF Refuse, BreakDeadlock
  <2> QED BY <1>2, <2>1, <2>2, <2>3, <2>4, <2>5, <2>6, <2>7, <2>8, <2>9, <2>10, <2>11
<1> QED BY <1>1, <1>2 DEF StockNext

\* inventory/services.py, purchasing/services.py, suppliers/services.py: whatever
\* sells, receives, returns, counts, corrects and pays at once, every ledger explains
\* its balance entry by entry, and an order whose every line came is closed.
THEOREM StockAddsUpHolds == StockSpec => [](StockTypeOK /\ StockAddsUp)
<1>1. StockInit => StockInv
  BY StockStart
<1>2. StockInv /\ [StockNext]_stockVars => StockInv'
  BY StockStep
<1>3. StockInv => StockTypeOK /\ StockAddsUp
  BY DEF StockInv
<1> QED BY <1>1, <1>2, <1>3, PTL DEF StockSpec

-----------------------------------------------------------------------------
(* All of them.                                                            *)

\* The components share no state: what one may do alone it does beside the others.
LEMMA EachBehaves ==
    MCSpec => /\ StockSpec /\ SerialsSpec /\ DrawerSpec /\ FloorSpec
              /\ AttendanceSpec /\ SettingsSpec /\ Spec
<1>1. MCInit => /\ StockInit /\ SerialsInit /\ DrawerInit /\ FloorInit
                /\ AttendanceInit /\ SettingsInit /\ Init
  BY DEF MCInit
<1>2. [MCNext]_mcVars => [StockNext]_stockVars
  BY DEF MCNext, mcVars
<1>3. [MCNext]_mcVars => [SerialsNext]_serialVars
  BY DEF MCNext, mcVars
<1>4. [MCNext]_mcVars => [DrawerNext]_drawerVars
  BY DEF MCNext, mcVars
<1>5. [MCNext]_mcVars => [FloorNext]_floorVars
  BY DEF MCNext, mcVars
<1>6. [MCNext]_mcVars => [AttendanceNext]_attendanceVars
  BY DEF MCNext, mcVars
<1>7. [MCNext]_mcVars => [SettingsNext]_settingsVars
  BY DEF MCNext, mcVars
<1>8. [MCNext]_mcVars => [Next]_vars
  BY DEF MCNext, mcVars
<1> QED BY <1>1, <1>2, <1>3, <1>4, <1>5, <1>6, <1>7, <1>8, PTL
        DEF MCSpec, StockSpec, SerialsSpec, DrawerSpec, FloorSpec, AttendanceSpec,
            SettingsSpec, Spec

\* Whatever the branch does in its components, their rows, work in progress and
\* reports keep the shape the services give them.
THEOREM BackOfficeTyping == MCSpec => []TypesOK
<1>1. StockTypeOK /\ SerialsTypeOK /\ DrawerTypeOK /\ FloorTypeOK
        /\ AttendanceTypeOK /\ SettingsTypeOK /\ TypeOK => TypesOK
  BY DEF TypesOK
<1> QED BY <1>1, EachBehaves, StockAddsUpHolds, SerialsTyping, DrawersAddUpHolds, FloorTyping,
           TrailExplainsPunchesHolds, ServedWasCommittedHolds, FeedTyping, PTL
=============================================================================
