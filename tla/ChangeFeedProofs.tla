-------------------------- MODULE ChangeFeedProofs --------------------------
(***************************************************************************)
(* What holds of the change feed for any number of rows, writers,          *)
(* terminals, losses and any size of a page: a terminal shows nothing that *)
(* was not committed, and exactly the last change it was handed.           *)
(***************************************************************************)
EXTENDS ChangeFeed, FiniteSetTheorems, WellFoundedInduction, TLAPS

-----------------------------------------------------------------------------
(* The strengthening.                                                      *)

ChangeRows == [entity : Entities, value : Nat]

\* A writer that saves holds its row and has its next value; one that appends
\* has a value that was committed.
WritersKnow ==
    \A w \in Writers :
        /\ stage[w] = "saving" =>
              /\ change[w] \in ChangeRows /\ seq[w] = 0
              /\ held[change[w].entity] = w
              /\ change[w].value = committed[change[w].entity] + 1
        /\ stage[w] = "appending" =>
              change[w] \in ChangeRows /\ change[w].value =< committed[change[w].entity]
        /\ stage[w] = "idle" => seq[w] = 0

\* A seq is drawn once, and is on one row at most.
SeqsAreUnique ==
    /\ \A w \in Writers : seq[w] < next_seq
    /\ \A w, v \in Writers : seq[w] = seq[v] /\ seq[w] # 0 => w = v
    /\ \A row \in log : row.seq # 0 /\ row.seq < next_seq
    /\ \A row, other \in log : row.seq = other.seq => row = other
    /\ \A w \in Writers, row \in log : row.seq # seq[w]

LogIsReal == \A row \in log : row.value =< committed[row.entity]

\* What a terminal was handed is behind its cursor, what is on its way before.
CursorsFit ==
    /\ response = [d \in Terminals |-> response[d]]
    /\ \A d \in Terminals :
        /\ \A n \in handed[d] : n =< cursor[d] /\ \E row \in log : row.seq = n
        /\ response[d] # NoWriter =>
              /\ response[d].cursor >= cursor[d]
              /\ \A row \in response[d].rows :
                    cursor[d] < row.seq /\ row.seq =< response[d].cursor

FeedInv ==
    /\ TypeOK
    /\ IsFiniteSet(log)
    /\ WritersKnow
    /\ SeqsAreUnique
    /\ LogIsReal
    /\ CursorsFit
    /\ MirrorIsReal
    /\ MirrorIsReplay

LEMMA FeedStart == Init => FeedInv
<1> SUFFICES ASSUME Init PROVE FeedInv
  OBVIOUS
<1>1. TypeOK
  BY FeedAssumption DEF Init, TypeOK, Stages
<1>2. IsFiniteSet(log)
  BY FS_EmptySet DEF Init
<1>3. WritersKnow /\ SeqsAreUnique /\ LogIsReal /\ CursorsFit
  BY DEF Init, WritersKnow, SeqsAreUnique, LogIsReal, CursorsFit
<1>4. MirrorIsReal /\ MirrorIsReplay
  BY DEF Init, MirrorIsReal, MirrorIsReplay, LastHanded
<1> QED BY <1>1, <1>2, <1>3, <1>4 DEF FeedInv

-----------------------------------------------------------------------------
(* Each step of the server keeps it.                                       *)

\* What terminals have is compared with the log and the committed values.
LEMMA TerminalsStay ==
    ASSUME FeedInv, UNCHANGED devices, log' = log,
           committed' \in [Entities -> Nat],
           \A e \in Entities : committed[e] =< committed'[e]
    PROVE  LogIsReal' /\ CursorsFit' /\ MirrorIsReal' /\ MirrorIsReplay'
<1>1. TypeOK
  BY DEF FeedInv
<1>2. LogIsReal'
  BY <1>1 DEF FeedInv, LogIsReal, TypeOK, LogRows
<1>3. CursorsFit'
  BY DEF FeedInv, CursorsFit, devices
<1>4. MirrorIsReal'
  <2> SUFFICES ASSUME NEW d \in Terminals, NEW e \in Entities
               PROVE  mirror[d][e] =< committed'[e]
    BY DEF MirrorIsReal, devices
  <2>1. mirror[d][e] \in Nat /\ committed[e] \in Nat /\ committed'[e] \in Nat
    BY <1>1 DEF TypeOK
  <2> QED BY <2>1 DEF FeedInv, MirrorIsReal
<1>5. MirrorIsReplay'
  BY DEF FeedInv, MirrorIsReplay, LastHanded, devices
<1> QED BY <1>2, <1>3, <1>4, <1>5

LEMMA WriterSaves ==
    ASSUME FeedInv, NEW w \in Writers, NEW e \in Entities, Save(w, e)
    PROVE  FeedInv'
<1>1. TypeOK /\ UNCHANGED devices /\ log' = log /\ committed' = committed
      /\ seq' = seq /\ next_seq' = next_seq
  BY DEF Save, FeedInv
<1>2. TypeOK'
  BY <1>1, FeedAssumption DEF Save, TypeOK, Stages, devices
<1>3. WritersKnow'
  BY <1>1, FeedAssumption DEF Save, TypeOK, FeedInv, WritersKnow, ChangeRows
<1>4. SeqsAreUnique'
  BY <1>1 DEF FeedInv, SeqsAreUnique
<1>5. LogIsReal' /\ CursorsFit' /\ MirrorIsReal' /\ MirrorIsReplay'
  BY <1>1, TerminalsStay DEF TypeOK
<1> QED BY <1>1, <1>2, <1>3, <1>4, <1>5 DEF FeedInv

LEMMA WriterCommits ==
    ASSUME FeedInv, NEW w \in Writers, CommitSave(w)
    PROVE  FeedInv'
<1>1. TypeOK /\ UNCHANGED devices /\ log' = log /\ seq' = seq /\ next_seq' = next_seq
  BY DEF CommitSave, FeedInv
<1>2. /\ stage[w] = "saving" /\ change[w] \in ChangeRows
      /\ held[change[w].entity] = w
      /\ change[w].value = committed[change[w].entity] + 1
  BY DEF CommitSave, FeedInv, WritersKnow
<1>3. /\ committed' = [committed EXCEPT ![change[w].entity] = committed[change[w].entity] + 1]
      /\ held' = [e \in Entities |-> IF held[e] = w THEN NoWriter ELSE held[e]]
      /\ stage' = [stage EXCEPT ![w] = "appending"]
      /\ change' = change /\ seq' = seq
  BY <1>2 DEF CommitSave, Unlock
<1>4. /\ committed' \in [Entities -> Nat]
      /\ \A e \in Entities : committed[e] =< committed'[e]
      /\ \A e \in Entities : held[e] # w => committed'[e] = committed[e]
  BY <1>1, <1>2, <1>3 DEF TypeOK, ChangeRows
<1>5. TypeOK'
  BY <1>1, <1>3, <1>4 DEF CommitSave, TypeOK, Stages, devices
<1>6. WritersKnow'
  <2> SUFFICES ASSUME NEW v \in Writers
               PROVE  /\ stage'[v] = "saving" =>
                           /\ change[v] \in ChangeRows /\ seq[v] = 0
                           /\ held'[change[v].entity] = v
                           /\ change[v].value = committed'[change[v].entity] + 1
                      /\ stage'[v] = "appending" =>
                           change[v] \in ChangeRows /\ change[v].value =< committed'[change[v].entity]
                      /\ stage'[v] = "idle" => seq[v] = 0
    BY <1>3 DEF WritersKnow
  <2>1. CASE v = w
    BY <2>1, <1>1, <1>2, <1>3 DEF TypeOK, ChangeRows
  <2>2. CASE v # w
    <3>1. stage'[v] = stage[v]
      BY <2>2, <1>1, <1>3 DEF TypeOK
    <3>2. CASE stage[v] = "saving"
      <4>1. /\ change[v] \in ChangeRows /\ seq[v] = 0 /\ held[change[v].entity] = v
            /\ change[v].value = committed[change[v].entity] + 1
        BY <3>2 DEF FeedInv, WritersKnow
      <4>2. change[v].entity \in Entities
        BY <4>1 DEF ChangeRows
      <4> QED BY <2>2, <3>1, <3>2, <4>1, <4>2, <1>3, <1>4
    <3>3. CASE stage[v] = "appending"
      <4>1. /\ change[v] \in ChangeRows /\ change[v].value =< committed[change[v].entity]
        BY <3>3 DEF FeedInv, WritersKnow
      <4>2. change[v].entity \in Entities /\ change[v].value \in Nat
        BY <4>1 DEF ChangeRows
      <4>3. committed[change[v].entity] \in Nat /\ committed'[change[v].entity] \in Nat
        BY <4>2, <1>1, <1>4 DEF TypeOK
      <4>4. committed[change[v].entity] =< committed'[change[v].entity]
        BY <4>2, <1>4
      <4> QED BY <3>1, <3>3, <4>1, <4>2, <4>3, <4>4
    <3> QED BY <3>1, <3>2, <3>3 DEF FeedInv, WritersKnow
  <2> QED BY <2>1, <2>2
<1>7. SeqsAreUnique'
  BY <1>1 DEF FeedInv, SeqsAreUnique
<1>8. LogIsReal' /\ CursorsFit' /\ MirrorIsReal' /\ MirrorIsReplay'
  BY <1>1, <1>4, TerminalsStay
<1> QED BY <1>1, <1>5, <1>6, <1>7, <1>8 DEF FeedInv

LEMMA WriterRests ==
    ASSUME FeedInv, NEW w \in Writers, Rollback(w) \/ AppendFails(w)
    PROVE  FeedInv'
<1>1. TypeOK /\ UNCHANGED <<devices, committed, log, next_xid, next_seq>> /\ Rest(w)
  BY DEF Rollback, AppendFails, FeedInv
<1>2. \/ held' = [e \in Entities |-> IF held[e] = w THEN NoWriter ELSE held[e]]
      \/ held' = held
  BY DEF Rollback, AppendFails, Unlock
<1>3. TypeOK'
  <2>1. failures' \in 0..MaxFailures /\ saves' = saves
    BY <1>1, FeedAssumption DEF Rollback, AppendFails, TypeOK
  <2>2. held' \in [Entities -> Writers \cup {NoWriter}]
    BY <1>1, <1>2 DEF TypeOK
  <2> QED BY <1>1, <2>1, <2>2 DEF Rest, TypeOK, Stages, devices
<1>4. WritersKnow'
  <2>1. \A v \in Writers \ {w} :
           /\ stage'[v] = stage[v] /\ change'[v] = change[v] /\ seq'[v] = seq[v]
           /\ \A e \in Entities : held[e] = v => held'[e] = v
    BY <1>1, <1>2 DEF Rest, TypeOK
  <2>2. stage'[w] = "idle" /\ seq'[w] = 0
    BY <1>1 DEF Rest, TypeOK
  <2>3. committed' = committed
    BY <1>1
  <2> QED BY <2>1, <2>2, <2>3 DEF FeedInv, WritersKnow, ChangeRows
<1>5. SeqsAreUnique'
  BY <1>1, FeedAssumption DEF Rest, TypeOK, FeedInv, SeqsAreUnique
<1>6. LogIsReal' /\ CursorsFit' /\ MirrorIsReal' /\ MirrorIsReplay'
  BY <1>1, TerminalsStay DEF TypeOK
<1> QED BY <1>1, <1>3, <1>4, <1>5, <1>6 DEF FeedInv

LEMMA WriterDraws ==
    ASSUME FeedInv, NEW w \in Writers, DrawSeq(w) \/ DrawXid(w)
    PROVE  FeedInv'
<1>1. TypeOK /\ UNCHANGED <<devices, committed, log, held, stage, change, saves, failures>>
  BY DEF DrawSeq, DrawXid, FeedInv
<1>2. TypeOK'
  BY <1>1 DEF DrawSeq, DrawXid, TypeOK, devices
<1>3. WritersKnow'
  BY <1>1 DEF DrawSeq, DrawXid, TypeOK, FeedInv, WritersKnow
<1>4. SeqsAreUnique'
  <2>1. CASE DrawXid(w)
    BY <2>1, <1>1 DEF DrawXid, FeedInv, SeqsAreUnique
  <2>2. CASE DrawSeq(w)
    <3>1. /\ next_seq \in Nat \ {0} /\ next_seq' = next_seq + 1
          /\ \A v \in Writers : seq[v] \in Nat /\ seq'[v] = IF v = w THEN next_seq ELSE seq[v]
          /\ \A row \in log : row.seq \in Nat
      BY <2>2, <1>1 DEF DrawSeq, TypeOK, LogRows
    <3> QED BY <3>1, <1>1 DEF FeedInv, SeqsAreUnique
  <2> QED BY <2>1, <2>2
<1>5. LogIsReal' /\ CursorsFit' /\ MirrorIsReal' /\ MirrorIsReplay'
  BY <1>1, TerminalsStay DEF TypeOK
<1> QED BY <1>1, <1>2, <1>3, <1>4, <1>5 DEF FeedInv

LEMMA WriterAppends ==
    ASSUME FeedInv, NEW w \in Writers, AppendRow(w)
    PROVE  FeedInv'
<1> DEFINE new == [seq |-> seq[w], txid |-> xid[w],
                   entity |-> change[w].entity, value |-> change[w].value]
<1>1. /\ TypeOK /\ UNCHANGED <<devices, committed, held, next_seq, next_xid, saves, failures>>
      /\ Rest(w) /\ log' = log \cup {new}
      /\ seq[w] # 0 /\ change[w] \in ChangeRows /\ change[w].value =< committed[change[w].entity]
  BY DEF AppendRow, FeedInv, WritersKnow
<1>2. /\ new \in LogRows /\ new.seq = seq[w]
      /\ new.value =< committed[new.entity]
  BY <1>1 DEF TypeOK, LogRows, ChangeRows
<1> HIDE DEF new
<1>3. TypeOK'
  <2>1. log' \subseteq LogRows /\ log \subseteq log'
    BY <1>1, <1>2 DEF TypeOK
  <2> QED BY <1>1, <2>1 DEF Rest, TypeOK, Stages, devices
<1>4. IsFiniteSet(log')
  BY <1>1, FS_AddElement DEF FeedInv
<1>5. /\ \A v \in Writers \ {w} :
           stage'[v] = stage[v] /\ change'[v] = change[v] /\ seq'[v] = seq[v]
      /\ stage'[w] = "idle" /\ seq'[w] = 0
  BY <1>1 DEF Rest, TypeOK
<1>6. WritersKnow'
  BY <1>1, <1>5 DEF FeedInv, WritersKnow, ChangeRows
<1>7. SeqsAreUnique'
  <2>1. \A v \in Writers : seq[v] \in Nat /\ next_seq \in Nat \ {0}
    BY <1>1 DEF TypeOK
  <2> QED BY <1>1, <1>2, <1>5, <2>1 DEF FeedInv, SeqsAreUnique
<1>8. LogIsReal' /\ MirrorIsReal'
  BY <1>1, <1>2 DEF FeedInv, LogIsReal, MirrorIsReal, devices
<1>9. CursorsFit'
  BY <1>1 DEF FeedInv, CursorsFit, devices
<1>10. MirrorIsReplay'
  <2>1. \A d \in Terminals : new.seq \notin handed[d]
    BY <1>2 DEF FeedInv, CursorsFit, SeqsAreUnique
  <2>2. \A d \in Terminals, e \in Entities : LastHanded(d, e)' = LastHanded(d, e)
    BY <1>1, <2>1 DEF LastHanded, devices
  <2> QED BY <1>1, <2>2 DEF FeedInv, MirrorIsReplay, devices
<1> QED BY <1>3, <1>4, <1>6, <1>7, <1>8, <1>9, <1>10 DEF FeedInv

-----------------------------------------------------------------------------
(* Each step of a terminal keeps it.                                       *)

LEMMA LastExists ==
    ASSUME NEW N \in Nat, NEW S \in SUBSET (0..N), S # {}
    PROVE  \E x \in S : \A y \in S : x >= y
<1> DEFINE T == {n \in Nat : \E x \in S : n = N - x}
<1>1. \A x \in S : x \in Nat /\ x =< N /\ N - x \in T
  OBVIOUS
<1>2. T \subseteq Nat /\ T # {}
  BY <1>1
<1>3. PICK m \in T : \A y \in T : ~ (<<y, m>> \in OpToRel(<, Nat))
  BY <1>2, NatLessThanWellFounded, WFMin
<1>4. \A y \in T : ~ (y < m)
  BY <1>2, <1>3 DEF OpToRel
<1>5. PICK x \in S : m = N - x
  OBVIOUS
<1> HIDE DEF T
<1>6. \A y \in S : x >= y
  <2> TAKE y \in S
  <2>1. ~ (N - y < m)
    BY <1>1, <1>4
  <2> QED BY <2>1, <1>1, <1>5
<1> QED BY <1>6

\* Some row of a page, or of one entity's part of it, is the last.
LEMMA LastRow ==
    ASSUME FeedInv, NEW rows \in SUBSET log, rows # {}
    PROVE  \E row \in rows : row.seq \in Nat /\ \A other \in rows : other.seq =< row.seq
<1> DEFINE N == {n \in Nat : \E row \in rows : n = row.seq}
<1>1. /\ next_seq \in Nat
      /\ \A row \in rows : row.seq \in Nat /\ row.seq < next_seq /\ row.seq \in N
  BY DEF FeedInv, TypeOK, LogRows, SeqsAreUnique
<1>2. N \in SUBSET (0..next_seq) /\ N # {}
  BY <1>1
<1>3. PICK n \in N : \A m \in N : n >= m
  BY <1>1, <1>2, LastExists
<1>4. PICK row \in rows : row.seq = n
  BY <1>3
<1> QED BY <1>1, <1>3, <1>4

LEMMA LastOfPage ==
    ASSUME FeedInv, NEW d \in Terminals, NEW rows \in SUBSET log,
           \A row \in rows : cursor[d] < row.seq
    PROVE  /\ LastOf(rows, d) \in Nat /\ LastOf(rows, d) >= cursor[d]
           /\ \A row \in rows : row.seq =< LastOf(rows, d)
           /\ rows # {} => \E row \in rows : LastOf(rows, d) = row.seq
<1>1. cursor[d] \in Nat /\ \A row \in rows : row.seq \in Nat
  BY DEF FeedInv, TypeOK, LogRows
<1>2. CASE rows = {}
  BY <1>1, <1>2 DEF LastOf
<1>3. CASE rows # {}
  <2> DEFINE S == {row.seq : row \in rows}
             P(n) == \A row \in rows : row.seq =< n
  <2>1. \E n \in S : P(n)
    BY <1>3, LastRow
  <2>2. LastOf(rows, d) = CHOOSE n \in S : P(n)
    BY <1>3 DEF LastOf
  <2>3. LastOf(rows, d) \in S /\ P(LastOf(rows, d))
    BY <2>1, <2>2
  <2> QED BY <1>1, <1>3, <2>3
<1> QED BY <1>2, <1>3

LEMMA ServerAnswers ==
    ASSUME FeedInv, NEW d \in Terminals, Answer(d)
    PROVE  FeedInv'
<1>1. /\ TypeOK /\ response[d] = NoWriter
      /\ UNCHANGED <<committed, held, writers, next_xid, next_seq, log,
                     cursor, mirror, handed, saves, failures>>
  BY DEF Answer, FeedInv
<1>2. PICK rows \in SUBSET log :
        /\ IsPage(rows, d)
        /\ response' = [response EXCEPT ![d] = [rows |-> rows, cursor |-> LastOf(rows, d)]]
  BY DEF Answer
<1>3. \A row \in rows : cursor[d] < row.seq
  <2>1. \A row \in rows : row.seq > cursor[d] /\ row.seq \in Nat /\ cursor[d] \in Nat
    BY <1>1, <1>2 DEF IsPage, Visible, TypeOK, LogRows
  <2> QED BY <2>1
<1>4. Cardinality(rows) =< Limit
  <2>1. IsFiniteSet(rows)
    BY FS_Subset DEF FeedInv
  <2>2. Cardinality(rows) \in Nat
    BY <2>1, FS_CardinalityType
  <2> QED BY <1>2, <2>2, FeedAssumption DEF IsPage
<1>5. /\ LastOf(rows, d) \in Nat /\ LastOf(rows, d) >= cursor[d]
      /\ \A row \in rows : row.seq =< LastOf(rows, d)
  BY <1>3, LastOfPage
<1> DEFINE page == [rows |-> rows, cursor |-> LastOf(rows, d)]
<1>6. page.rows = rows /\ page.cursor = LastOf(rows, d)
  OBVIOUS
<1> HIDE DEF page
<1>7. /\ \A x \in Terminals : response'[x] = IF x = d THEN page ELSE response[x]
      /\ response' = [x \in Terminals |-> response'[x]]
  BY <1>2 DEF FeedInv, CursorsFit, page
<1>8. TypeOK'
  <2>1. \A x \in Terminals :
          \/ response'[x] = NoWriter
          \/ /\ response'[x].rows \subseteq log /\ Cardinality(response'[x].rows) <= Limit
             /\ response'[x].cursor \in Nat
    BY <1>1, <1>4, <1>5, <1>6, <1>7 DEF TypeOK
  <2> QED BY <1>1, <2>1 DEF TypeOK, writers
<1>9. CursorsFit'
  BY <1>1, <1>3, <1>5, <1>6, <1>7 DEF FeedInv, CursorsFit
<1>10. WritersKnow' /\ SeqsAreUnique' /\ LogIsReal' /\ MirrorIsReal' /\ MirrorIsReplay'
  BY <1>1 DEF writers, FeedInv, WritersKnow, SeqsAreUnique, LogIsReal, MirrorIsReal,
              MirrorIsReplay, LastHanded
<1> QED BY <1>1, <1>8, <1>9, <1>10 DEF FeedInv

LEMMA ResponseIsLost ==
    ASSUME FeedInv, NEW d \in Terminals, Lose(d)
    PROVE  FeedInv'
<1>1. /\ TypeOK
      /\ UNCHANGED <<committed, held, writers, next_xid, next_seq, log,
                     cursor, mirror, handed, saves>>
  BY DEF Lose, FeedInv
<1>2. /\ \A x \in Terminals : response'[x] = IF x = d THEN NoWriter ELSE response[x]
      /\ response' = [x \in Terminals |-> response'[x]]
  BY DEF Lose, FeedInv, CursorsFit
<1>3. failures' \in 0..MaxFailures
  BY <1>1, FeedAssumption DEF Lose, TypeOK
<1>4. TypeOK'
  BY <1>1, <1>2, <1>3 DEF TypeOK, writers
<1>5. CursorsFit'
  BY <1>1, <1>2 DEF FeedInv, CursorsFit
<1>6. WritersKnow' /\ SeqsAreUnique' /\ LogIsReal' /\ MirrorIsReal' /\ MirrorIsReplay'
  BY <1>1 DEF writers, FeedInv, WritersKnow, SeqsAreUnique, LogIsReal, MirrorIsReal,
              MirrorIsReplay, LastHanded
<1> QED BY <1>1, <1>4, <1>5, <1>6 DEF FeedInv

\* What a page makes of a row: the value of its last change, or what it was.
OfEntity(rows, e) == {row \in rows : row.entity = e}

LEMMA AppliedIsLast ==
    ASSUME FeedInv, NEW rows \in SUBSET log, NEW have, NEW e \in Entities
    PROVE  /\ OfEntity(rows, e) = {} => Applied(rows, have)[e] = have[e]
           /\ OfEntity(rows, e) # {} =>
                 \E row \in OfEntity(rows, e) :
                    /\ Applied(rows, have)[e] = row.value
                    /\ \A other \in OfEntity(rows, e) : other.seq =< row.seq
<1> DEFINE of == OfEntity(rows, e)
           last == CHOOSE row \in of : \A other \in of : other.seq =< row.seq
<1>1. Applied(rows, have)[e] = IF of = {} THEN have[e] ELSE last.value
  BY DEF Applied, OfEntity
<1>2. of # {} => last \in of /\ \A other \in of : other.seq =< last.seq
  <2>1. of \in SUBSET log
    BY DEF OfEntity
  <2> QED BY <2>1, LastRow
<1> QED BY <1>1, <1>2

LEMMA TerminalApplies ==
    ASSUME FeedInv, NEW d \in Terminals, Apply(d)
    PROVE  FeedInv'
<1> DEFINE rows == response[d].rows
           to == response[d].cursor
           page == Applied(rows, mirror[d])
           seqs == {row.seq : row \in rows}
<1>1. /\ TypeOK /\ response[d] # NoWriter
      /\ UNCHANGED <<committed, held, writers, next_xid, next_seq, log, saves, failures>>
      /\ cursor' = [cursor EXCEPT ![d] = to]
      /\ mirror' = [mirror EXCEPT ![d] = page]
      /\ handed' = [handed EXCEPT ![d] = handed[d] \cup seqs]
      /\ response' = [response EXCEPT ![d] = NoWriter]
  BY DEF Apply, FeedInv, TypeOK
<1>2. /\ rows \in SUBSET log /\ to \in Nat /\ to >= cursor[d]
      /\ \A row \in rows : cursor[d] < row.seq /\ row.seq =< to
  BY <1>1 DEF FeedInv, TypeOK, CursorsFit
<1>3. \A row \in rows : row.seq \in Nat /\ row.value \in Nat
  BY <1>1, <1>2 DEF TypeOK, LogRows
<1>4. seqs \subseteq Nat
  BY <1>3
<1>5. \A n \in seqs : n =< to /\ \E row \in log : row.seq = n
  BY <1>2
<1>7. page = [e \in Entities |-> page[e]]
  BY DEF Applied
<1>15. \A e \in Entities :
         /\ OfEntity(rows, e) = {} => page[e] = mirror[d][e]
         /\ OfEntity(rows, e) # {} =>
               \E row \in OfEntity(rows, e) :
                  page[e] = row.value /\ \A other \in OfEntity(rows, e) : other.seq =< row.seq
  <2> TAKE e \in Entities
  <2>1. rows \in SUBSET log
    BY <1>2
  <2> HIDE DEF rows
  <2>2. \A have :
          /\ OfEntity(rows, e) = {} => Applied(rows, have)[e] = have[e]
          /\ OfEntity(rows, e) # {} =>
                \E row \in OfEntity(rows, e) :
                   /\ Applied(rows, have)[e] = row.value
                   /\ \A other \in OfEntity(rows, e) : other.seq =< row.seq
    BY <2>1, AppliedIsLast
  <2> QED BY <2>2
<1> HIDE DEF page, seqs, to, rows
<1>6. \A e \in Entities : page[e] \in Nat /\ page[e] =< committed[e]
  <2> TAKE e \in Entities
  <2>1. CASE OfEntity(rows, e) = {}
    <3>1. page[e] = mirror[d][e]
      BY <2>1, <1>15
    <3> QED BY <3>1, <1>1 DEF FeedInv, MirrorIsReal, TypeOK
  <2>2. CASE OfEntity(rows, e) # {}
    <3>1. PICK row \in OfEntity(rows, e) : page[e] = row.value
      BY <2>2, <1>15
    <3>2. row \in log /\ row \in rows /\ row.entity = e
      BY <3>1, <1>2 DEF OfEntity
    <3> QED BY <3>1, <3>2, <1>3 DEF FeedInv, LogIsReal
  <2> QED BY <2>1, <2>2
<1>8. \A row \in log : row.seq \in seqs <=> row \in rows
  BY <1>2 DEF FeedInv, SeqsAreUnique, seqs
<1>9. /\ \A x \in Terminals :
           /\ cursor'[x] = IF x = d THEN to ELSE cursor[x]
           /\ mirror'[x] = IF x = d THEN page ELSE mirror[x]
           /\ handed'[x] = IF x = d THEN handed[d] \cup seqs ELSE handed[x]
           /\ response'[x] = IF x = d THEN NoWriter ELSE response[x]
      /\ response' = [x \in Terminals |-> response'[x]]
  BY <1>1 DEF TypeOK, FeedInv, CursorsFit
<1>10. TypeOK'
  <2>1. page \in [Entities -> Nat]
    BY <1>6, <1>7
  <2>2. cursor' \in [Terminals -> Nat] /\ mirror' \in [Terminals -> [Entities -> Nat]]
        /\ handed' \in [Terminals -> SUBSET Nat]
    BY <1>1, <1>2, <1>4, <2>1 DEF TypeOK
  <2> QED BY <1>1, <1>9, <2>2 DEF TypeOK, writers
<1>11. CursorsFit'
  <2>1. \A x \in Terminals : cursor[x] \in Nat /\ handed[x] \subseteq Nat
    BY <1>1 DEF TypeOK
  <2>2. \A n \in handed'[d] : n =< to /\ \E row \in log : row.seq = n
    BY <1>2, <1>5, <1>9, <2>1 DEF FeedInv, CursorsFit
  <2> QED BY <1>1, <1>9, <2>2 DEF FeedInv, CursorsFit
<1>12. MirrorIsReal'
  BY <1>1, <1>6, <1>9 DEF FeedInv, MirrorIsReal
<1>13. MirrorIsReplay'
  <2> SUFFICES ASSUME NEW x \in Terminals, NEW e \in Entities
               PROVE  IF LastHanded(x, e)' = {} THEN mirror'[x][e] = 0
                      ELSE \E row \in LastHanded(x, e)' :
                              /\ mirror'[x][e] = row.value
                              /\ \A other \in LastHanded(x, e)' : other.seq <= row.seq
    BY DEF MirrorIsReplay
  <2>1. CASE x # d
    <3>1. LastHanded(x, e)' = LastHanded(x, e)
      BY <2>1, <1>1, <1>9 DEF LastHanded
    <3> QED BY <2>1, <3>1, <1>9 DEF FeedInv, MirrorIsReplay
  <2>2. CASE x = d
    <3>1. LastHanded(d, e)' = LastHanded(d, e) \cup OfEntity(rows, e)
      BY <1>1, <1>2, <1>8, <1>9 DEF LastHanded, OfEntity
    <3>2. CASE OfEntity(rows, e) = {}
      <4>1. mirror'[d][e] = mirror[d][e]
        BY <3>2, <1>9, <1>15
      <4> QED BY <2>2, <3>1, <3>2, <4>1 DEF FeedInv, MirrorIsReplay
    <3>3. CASE OfEntity(rows, e) # {}
      <4>1. PICK row \in OfEntity(rows, e) :
              /\ page[e] = row.value
              /\ \A other \in OfEntity(rows, e) : other.seq =< row.seq
        BY <3>3, <1>15
      <4>2. \A other \in LastHanded(d, e) : other.seq =< row.seq
        <5> TAKE other \in LastHanded(d, e)
        <5>1. other \in log /\ other.seq \in Nat /\ other.seq =< cursor[d] /\ cursor[d] \in Nat
          BY <1>1 DEF LastHanded, FeedInv, CursorsFit, TypeOK, LogRows
        <5>2. cursor[d] < row.seq /\ row.seq \in Nat
          BY <4>1, <1>2, <1>3 DEF OfEntity
        <5> QED BY <5>1, <5>2
      <4> QED BY <2>2, <3>1, <4>1, <4>2, <1>9
    <3> QED BY <3>2, <3>3
  <2> QED BY <2>1, <2>2
<1>14. WritersKnow' /\ SeqsAreUnique' /\ LogIsReal'
  BY <1>1 DEF writers, FeedInv, WritersKnow, SeqsAreUnique, LogIsReal
<1> QED BY <1>1, <1>10, <1>11, <1>12, <1>13, <1>14 DEF FeedInv

LEMMA FeedStep == FeedInv /\ [Next]_vars => FeedInv'
<1> SUFFICES ASSUME FeedInv, [Next]_vars PROVE FeedInv'
  OBVIOUS
<1>1. CASE Next
  BY <1>1, WriterSaves, WriterCommits, WriterRests, WriterDraws, WriterAppends,
     ServerAnswers, ResponseIsLost, TerminalApplies DEF Next
<1>2. CASE UNCHANGED vars
  <2>1. UNCHANGED <<committed, held, writers, next_xid, next_seq, log, devices, saves, failures>>
    BY <1>2 DEF vars
  <2>2. TypeOK' /\ WritersKnow' /\ SeqsAreUnique'
    BY <2>1 DEF writers, devices, FeedInv, TypeOK, WritersKnow, SeqsAreUnique
  <2> QED BY <2>1, <2>2, TerminalsStay DEF FeedInv, TypeOK
<1> QED BY <1>1, <1>2

LEMMA FeedAlways == Spec => []FeedInv
BY FeedStart, FeedStep, PTL DEF Spec

-----------------------------------------------------------------------------
(* What follows.                                                           *)

\* LogRows, log, cursors and pages keep their types, and no page is longer than
\* its limit.
THEOREM FeedTyping == Spec => []TypeOK
BY FeedAlways, PTL DEF FeedInv

\* No terminal ever shows a value that was not committed.
THEOREM NothingUncommittedIsShown == Spec => []MirrorIsReal
BY FeedAlways, PTL DEF FeedInv

\* A terminal shows the last change it was handed of each row, whatever is
\* lost or applied again on the way.
THEOREM MirrorsReplay == Spec => []MirrorIsReplay
BY FeedAlways, PTL DEF FeedInv

\* The cursor of a page is the seq of one of its rows, so what the page leaves
\* out comes after it.
LEMMA PageSkipsNothing ==
    ASSUME FeedInv, NEW d \in Terminals, NEW rows \in SUBSET log, IsPage(rows, d),
           NEW row \in Visible(d), row.seq =< LastOf(rows, d)
    PROVE  row \in rows
<1>1. /\ cursor[d] \in Nat /\ row \in log /\ row.seq \in Nat /\ row.seq > cursor[d]
      /\ \A other \in rows : other.seq \in Nat /\ cursor[d] < other.seq
  BY DEF FeedInv, TypeOK, LogRows, Visible, IsPage
<1>2. CASE rows = {}
  BY <1>1, <1>2 DEF LastOf
<1>3. CASE rows # {}
  <2>1. PICK last \in rows : LastOf(rows, d) = last.seq
    BY <1>1, <1>3, LastOfPage
  <2>2. row \notin rows => last.seq < row.seq
    BY <2>1 DEF IsPage
  <2> QED BY <1>1, <2>1, <2>2
<1> QED BY <1>2, <1>3

LEMMA OnlyAnswersPage ==
    ASSUME FeedInv, [Next]_vars, NEW d \in Terminals,
           response[d] = NoWriter, response'[d] # NoWriter
    PROVE  Answer(d)
<1>0. response = [x \in Terminals |-> response[x]]
  BY DEF FeedInv, CursorsFit
<1>1. \A x \in Terminals : x # d /\ (Answer(x) \/ Apply(x) \/ Lose(x)) => response'[d] = response[d]
  BY <1>0 DEF Answer, Apply, Lose
<1>2. ~Apply(d) /\ ~Lose(d)
  BY DEF Apply, Lose
<1>3. ASSUME response' # response PROVE \E x \in Terminals : Answer(x) \/ Apply(x) \/ Lose(x)
  BY <1>3 DEF Next, vars, devices, Save, CommitSave, Rollback, DrawSeq, DrawXid, AppendRow, AppendFails
<1> QED BY <1>1, <1>2, <1>3

\* sync/services.py, pull: no page passes over a row its transaction could see.
THEOREM PagesSkipNothing == Spec => VisibleIsNotSkipped
<1>1. FeedInv /\ [Next]_vars =>
        \A d \in Terminals : response[d] = NoWriter /\ response'[d] # NoWriter =>
          \A row \in Visible(d) : row.seq <= response'[d].cursor => row \in response'[d].rows
  <2> SUFFICES ASSUME FeedInv, [Next]_vars, NEW d \in Terminals,
                      response[d] = NoWriter, response'[d] # NoWriter,
                      NEW row \in Visible(d), row.seq <= response'[d].cursor
               PROVE  row \in response'[d].rows
    OBVIOUS
  <2>1. PICK rows \in SUBSET log :
          /\ IsPage(rows, d)
          /\ response' = [response EXCEPT ![d] = [rows |-> rows, cursor |-> LastOf(rows, d)]]
    BY OnlyAnswersPage DEF Answer
  <2>2. response'[d].rows = rows /\ response'[d].cursor = LastOf(rows, d)
    BY <2>1 DEF FeedInv, CursorsFit
  <2> QED BY <2>1, <2>2, PageSkipsNothing
<1>2. FeedInv /\ [Next]_vars =>
        [\A d \in Terminals : response[d] = NoWriter /\ response'[d] # NoWriter =>
          \A row \in Visible(d) : row.seq <= response'[d].cursor => row \in response'[d].rows]_vars
  BY <1>1
<1> QED BY <1>2, FeedAlways, PTL DEF Spec, VisibleIsNotSkipped
=============================================================================
