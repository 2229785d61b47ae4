------------------------ MODULE InvoiceSerialsProofs ------------------------
(***************************************************************************)
(* What holds of the numbers of a branch for any number of tills and       *)
(* settlements and any size of a block: no number is reserved twice, and   *)
(* no number that a till passed is without an invoice.                     *)
(***************************************************************************)
EXTENDS InvoiceSerials, WellFoundedInduction, TLAPS

-----------------------------------------------------------------------------
(* The highest of a set of bounded numbers.                                *)

LEMMA MaxOf ==
    ASSUME NEW N \in Nat, NEW S \in SUBSET (0..N), S # {}
    PROVE  Max(S) \in S /\ Max(S) \in 0..N /\ \A x \in S : x =< Max(S)
<1> DEFINE T == {n \in Nat : \E x \in S : n = N - x}
<1>1. \A x \in S : x \in Nat /\ x =< N /\ N - x \in T
  OBVIOUS
<1>2. T \subseteq Nat /\ T # {}
  BY <1>1
<1>3. PICK m \in T : \A y \in T : ~ (<<y, m>> \in OpToRel(<, Nat))
  BY <1>2, NatLessThanWellFounded, WFMin
<1>4. \A y \in T : ~ (y < m)
  BY <1>2, <1>3 DEF OpToRel
<1>5. PICK x \in S : m = N - x
  OBVIOUS
<1> HIDE DEF T
<1>6. \A y \in S : x >= y
  <2> TAKE y \in S
  <2>1. ~ (N - y < m)
    BY <1>1, <1>4
  <2> QED BY <2>1, <1>1, <1>5
<1> QED BY <1>1, <1>6 DEF Max

LEMMA HighestBounds ==
    ASSUME SerialsTypeOK
    PROVE  /\ Highest \in 0..MaxNumber
           /\ \A b \in blocks : b.range_end =< Highest
<1> DEFINE Ends == {b.range_end : b \in blocks}
<1>1. \A b \in blocks : b.range_end \in 0..MaxNumber
  BY SerialsAssumption DEF SerialsTypeOK, Block, Numbers
<1>2. issued \cup {0} \subseteq 0..MaxNumber
  BY SerialsAssumption DEF SerialsTypeOK, Numbers
<1>3. Ends \subseteq 0..MaxNumber
  BY <1>1
<1>4. \A b \in blocks : b.range_end \in Ends
  OBVIOUS
<1>5. Highest = Max(Ends \cup issued \cup {0})
  BY DEF Highest
<1> HIDE DEF Ends
<1>6. Ends \cup issued \cup {0} \in SUBSET (0..MaxNumber)
  BY <1>2, <1>3
<1> QED BY <1>4, <1>5, <1>6, MaxOf, SerialsAssumption

LEMMA HighestIssued ==
    ASSUME SerialsTypeOK
    PROVE  Max(issued \cup {0}) \in 0..MaxNumber
<1>1. issued \cup {0} \in SUBSET (0..MaxNumber)
  BY SerialsAssumption DEF SerialsTypeOK, Numbers
<1> QED BY <1>1, MaxOf, SerialsAssumption

-----------------------------------------------------------------------------
(* The strengthening: what a settlement holds while others cannot see it.  *)

\* Committed rows: the next number is in the range or just behind it.
RowsAreSound ==
    \A b \in blocks : b.range_start =< b.next_unused /\ b.next_unused =< b.range_end + 1
                      /\ b.range_start =< b.range_end

\* A block that was allocated and is not committed lies behind every block
\* that is, and its settlement holds the lock of the branch.
HoldsNewBlock(s) ==
    /\ work[s].block \in Block
    /\ work[s].block.range_start =< work[s].block.range_end
    /\ \A c \in blocks : c.range_end < work[s].block.range_start

\* A block that was taken from before is still there, with the same range.
HoldsOldBlock(s) ==
    \E c \in blocks : /\ SameRow(c, work[s].block)
                      /\ work[s].block.range_end = c.range_end

\* The number a settlement chose is the one below next_unused of its copy, and
\* every earlier number of that block is on an invoice.
NumberIsNext(s) ==
    /\ work[s].block \in Block
    /\ work[s].block.next_unused = work[s].number + 1
    /\ work[s].block.range_start =< work[s].number
    /\ work[s].number =< work[s].block.range_end
    /\ work[s].block.range_start .. (work[s].number - 1) \subseteq issued

WorkIsSound(s) ==
    /\ branchLock = s => work[s].phase \in {"number", "reserved", "insert"} /\ HoldsNewBlock(s)
    /\ work[s].phase \in {"number", "reserved"} =>
          branchLock = s /\ work[s].block.next_unused = work[s].block.range_start
    /\ work[s].phase = "insert" =>
          \/ work[s].block = NoBlock /\ work[s].number \in Numbers
          \/ NumberIsNext(s) /\ (branchLock = s \/ HoldsOldBlock(s))
    /\ work[s].phase = "wait" => HoldsOldBlock(s) /\ work[s].till \in Tills
    /\ work[s].phase \in {"idle", "look", "allocate", "reserve", "collided"} =>
          work[s].block = NoBlock
    /\ work[s].phase = "allocate" => work[s].till \in Tills
    /\ work[s].phase = "reserve" => work[s].till \in Tills

SerialsInv ==
    /\ SerialsTypeOK
    /\ RowsAreSound
    /\ BlocksAreDisjoint
    /\ NoNumberIsLost
    /\ \A s \in Settlements : WorkIsSound(s)

LEMMA SerialsStart == SerialsInit => SerialsInv
BY SerialsAssumption
DEF SerialsInit, SerialsInv, SerialsTypeOK, RowsAreSound, BlocksAreDisjoint, NoNumberIsLost,
    WorkIsSound, Idle, Phases

\* Two rows with one start are one row.
LEMMA RowsByStart ==
    ASSUME SerialsInv, NEW b \in blocks, NEW c \in blocks, SameRow(b, c)
    PROVE  b = c
<1>1. b \in Block /\ c \in Block
  BY DEF SerialsInv, SerialsTypeOK
<1> QED BY <1>1 DEF SerialsInv, RowsAreSound, BlocksAreDisjoint, SameRow, Block, Numbers

\* The block a settlement takes from first is open.
LEMMA FirstIsOpen ==
    ASSUME SerialsInv, NEW d, OpenBlocks(d) # {}
    PROVE  FirstOf(OpenBlocks(d)) \in OpenBlocks(d)
<1> DEFINE Starts == {n \in Nat : \E b \in OpenBlocks(d) : n = b.range_start}
<1>1. \A b \in OpenBlocks(d) : b.range_start \in Starts
  BY SerialsAssumption DEF OpenBlocks, SerialsInv, SerialsTypeOK, Block, Numbers
<1>2. Starts \subseteq Nat /\ Starts # {}
  BY <1>1
<1>3. PICK m \in Starts : \A y \in Starts : ~ (<<y, m>> \in OpToRel(<, Nat))
  BY <1>2, NatLessThanWellFounded, WFMin
<1>4. \A y \in Starts : m =< y
  <2>1. \A y \in Starts : y \in Nat /\ m \in Nat /\ ~ (y < m)
    BY <1>2, <1>3 DEF OpToRel
  <2> HIDE DEF Starts
  <2> QED BY <2>1
<1>5. PICK b \in OpenBlocks(d) : b.range_start = m
  BY <1>3
<1>6. \A c \in OpenBlocks(d) : b.range_start =< c.range_start
  BY <1>1, <1>4, <1>5
<1> QED BY <1>6 DEF FirstOf

LEMMA RowOfIsRow ==
    ASSUME SerialsInv, NEW s \in Settlements, work[s].phase = "wait"
    PROVE  RowOf(work[s].block) \in blocks
BY DEF SerialsInv, WorkIsSound, HoldsOldBlock, RowOf, SameRow

-----------------------------------------------------------------------------
(* Each step keeps it.                                                     *)

\* What a settlement knows of its own work stays true while others go on.
LEMMA OthersGoOn ==
    ASSUME SerialsInv, NEW s \in Settlements,
           work'[s] = work[s], branchLock' = s <=> branchLock = s,
           issued \subseteq issued',
           \A b \in blocks : \E c \in blocks' : SameRow(b, c) /\ b.range_end = c.range_end,
           branchLock = s =>
              \A c \in blocks' : \E b \in blocks : SameRow(b, c) /\ b.range_end = c.range_end
    PROVE  WorkIsSound(s)'
<1>1. WorkIsSound(s)
  BY DEF SerialsInv
<1>2. HoldsOldBlock(s) => HoldsOldBlock(s)'
  BY DEF HoldsOldBlock, SameRow
<1>3. NumberIsNext(s) => NumberIsNext(s)'
  BY DEF NumberIsNext
<1>4. branchLock = s /\ HoldsNewBlock(s) => HoldsNewBlock(s)'
  BY DEF HoldsNewBlock, SameRow
<1> QED BY <1>1, <1>2, <1>3, <1>4 DEF WorkIsSound

\* The work of one settlement changes, and is of the right type.
HoldingSets == [phase : Phases, till : Tills \cup {NoDevice},
            block : Block \cup {NoBlock}, number : Numbers \cup {0}]

LEMMA HoldingIsTyped ==
    ASSUME SerialsTypeOK, NEW s \in Settlements, NEW h \in HoldingSets,
           work' = [work EXCEPT ![s] = h],
           blocks' = blocks, issued' = issued, branchLock' \in Settlements \cup {NoDevice}
    PROVE  SerialsTypeOK'
BY DEF SerialsTypeOK, HoldingSets

\* Steps that only look: nothing is committed.
LEMMA LooksAround ==
    ASSUME SerialsInv, NEW s \in Settlements,
           BeginSettlement(s) \/ AskForBlock(s) \/ FindNoBlock(s) \/ LoseAfterWait(s)
           \/ TryAgain(s) \/ WebNumber(s) \/ Collide(s) \/ WaitForBlock(s)
    PROVE  SerialsInv'
<1>1. UNCHANGED <<blocks, issued>> /\ SerialsTypeOK /\ WorkIsSound(s)
  BY DEF BeginSettlement, AskForBlock, FindNoBlock, LoseAfterWait, TryAgain, WebNumber,
         Collide, WaitForBlock, SerialsInv
<1>2. work' = [work EXCEPT ![s] = work'[s]]
  BY <1>1 DEF BeginSettlement, AskForBlock, FindNoBlock, LoseAfterWait, TryAgain, WebNumber,
         Collide, WaitForBlock, SerialsTypeOK
<1>3. branchLock' = branchLock \/ (branchLock = s /\ branchLock' = NoDevice)
  BY DEF BeginSettlement, AskForBlock, FindNoBlock, LoseAfterWait, TryAgain, WebNumber,
         Collide, WaitForBlock, Unlocked
<1>4. /\ work'[s] \in [phase : Phases, till : Tills \cup {NoDevice},
                       block : Block \cup {NoBlock}, number : Numbers \cup {0}]
      /\ WorkIsSound(s)'
  <2>1. CASE BeginSettlement(s) \/ AskForBlock(s)
    BY <2>1, <1>1, SerialsAssumption
    DEF BeginSettlement, AskForBlock, WorkIsSound, SerialsTypeOK, Phases
  <2>5. CASE FindNoBlock(s) \/ LoseAfterWait(s) \/ TryAgain(s)
    BY <2>5, <1>1, SerialsAssumption
    DEF FindNoBlock, LoseAfterWait, TryAgain, WorkIsSound, SerialsTypeOK, Phases
  <2>2. CASE WebNumber(s)
    <3>1. Max(issued \cup {0}) + 1 \in Numbers
      BY <2>2, <1>1, SerialsAssumption, HighestIssued DEF WebNumber, Numbers
    <3>2. /\ work'[s] = [work[s] EXCEPT !.phase = "insert", !.number = Max(issued \cup {0}) + 1]
          /\ work[s].block = NoBlock /\ branchLock' # s
      BY <2>2, <1>1 DEF WebNumber, WorkIsSound, SerialsTypeOK
    <3> QED BY <3>1, <3>2, <1>1 DEF WorkIsSound, SerialsTypeOK, Phases
  <2>3. CASE Collide(s)
    BY <2>3, <1>1, SerialsAssumption
    DEF Collide, WorkIsSound, SerialsTypeOK, Phases, Idle, Unlocked
  <2>4. CASE WaitForBlock(s)
    <3> DEFINE b == FirstOf(OpenBlocks(work[s].till))
    <3>1. b \in blocks
      BY <2>4, FirstIsOpen DEF WaitForBlock, OpenBlocks
    <3>2. work[s].till \in Tills
      BY <2>4, <1>1, <3>1, FirstIsOpen DEF WaitForBlock, OpenBlocks, SerialsTypeOK, Block
    <3> QED BY <2>4, <1>1, <3>1, <3>2, SerialsAssumption
            DEF WaitForBlock, WorkIsSound, SerialsTypeOK, Phases, HoldsOldBlock, SameRow
  <2> QED BY <2>1, <2>2, <2>3, <2>4, <2>5
<1>5. SerialsTypeOK'
  BY <1>1, <1>2, <1>3, <1>4 DEF SerialsTypeOK
<1>6. \A u \in Settlements : WorkIsSound(u)'
  <2> TAKE u \in Settlements
  <2>1. CASE u = s
    BY <2>1, <1>4
  <2>2. CASE u # s
    <3>1. work'[u] = work[u] /\ (branchLock' = u <=> branchLock = u)
      BY <2>2, <1>1, <1>2, <1>3, SerialsAssumption DEF SerialsTypeOK
    <3> QED BY <3>1, <1>1, OthersGoOn DEF SameRow
  <2> QED BY <2>1, <2>2
<1> QED BY <1>1, <1>5, <1>6
        DEF SerialsInv, RowsAreSound, BlocksAreDisjoint, NoNumberIsLost

\* A number is taken from a block that is there.
LEMMA TakesFrom ==
    ASSUME SerialsInv, NEW s \in Settlements, NEW b \in blocks, ~Exhausted(b), Take(s, b),
           work[s].phase \in {"look", "wait"}
    PROVE  SerialsInv'
<1>1. UNCHANGED <<blocks, issued, branchLock>> /\ SerialsTypeOK /\ WorkIsSound(s) /\ branchLock # s
  BY DEF Take, SerialsInv, WorkIsSound
<1>2. /\ work' = [work EXCEPT ![s] = work'[s]]
      /\ work'[s] = [work[s] EXCEPT !.phase = "insert", !.block = Taken(b),
                                    !.number = b.next_unused]
  BY <1>1 DEF Take, SerialsTypeOK
<1>3. /\ b \in Block /\ b.range_start =< b.next_unused /\ b.next_unused =< b.range_end
      /\ b.range_start .. (b.next_unused - 1) \subseteq issued
  BY <1>1 DEF SerialsInv, RowsAreSound, NoNumberIsLost, SerialsTypeOK, Exhausted, Block, Numbers
<1>4. Taken(b) \in Block /\ b.next_unused \in Numbers
  BY <1>3, SerialsAssumption DEF Taken, Block, Numbers
<1>5. SerialsTypeOK'
  <2>1. work[s] \in HoldingSets
    BY <1>1 DEF SerialsTypeOK, HoldingSets
  <2>2. work'[s] \in HoldingSets
    BY <1>2, <1>4, <2>1 DEF HoldingSets, Phases
  <2>3. branchLock' \in Settlements \cup {NoDevice}
    BY <1>1 DEF SerialsTypeOK
  <2> QED BY <1>1, <1>2, <2>2, <2>3, HoldingIsTyped
<1>6. NumberIsNext(s)' /\ HoldsOldBlock(s)'
  BY <1>1, <1>2, <1>3, <1>4 DEF NumberIsNext, HoldsOldBlock, SameRow, Taken, Block, Numbers
<1>7. \A u \in Settlements : WorkIsSound(u)'
  <2> TAKE u \in Settlements
  <2>1. CASE u = s
    BY <2>1, <1>1, <1>2, <1>6 DEF WorkIsSound
  <2>2. CASE u # s
    <3>1. work'[u] = work[u]
      BY <2>2, <1>1, <1>2 DEF SerialsTypeOK
    <3> QED BY <3>1, <1>1, OthersGoOn DEF SameRow
  <2> QED BY <2>1, <2>2
<1> QED BY <1>1, <1>5, <1>7
        DEF SerialsInv, RowsAreSound, BlocksAreDisjoint, NoNumberIsLost

LEMMA TakesANumber ==
    ASSUME SerialsInv, NEW s \in Settlements, TakeNumber(s) \/ TakeAfterWait(s)
    PROVE  SerialsInv'
<1>1. CASE TakeNumber(s)
  BY <1>1, FirstIsOpen, TakesFrom DEF TakeNumber, OpenBlocks
<1>2. CASE TakeAfterWait(s)
  BY <1>2, RowOfIsRow, TakesFrom DEF TakeAfterWait
<1> QED BY <1>1, <1>2

\* A new block begins behind every block and every invoice there is.
LEMMA AllocatesBehind ==
    ASSUME SerialsInv, NEW s \in Settlements, LockBranch(s)
    PROVE  SerialsInv'
<1> DEFINE new == NewBlock(work[s].till)
<1>1. UNCHANGED <<blocks, issued>> /\ SerialsTypeOK /\ WorkIsSound(s) /\ branchLock = NoDevice
  BY DEF LockBranch, BranchIsFree, SerialsInv
<1>2. /\ work' = [work EXCEPT ![s] = work'[s]]
      /\ work'[s].phase \in {"number", "reserved"}
      /\ work'[s] = [work[s] EXCEPT !.phase = work'[s].phase, !.block = new]
      /\ branchLock' = s
  BY <1>1 DEF LockBranch, SerialsTypeOK
<1>3. work[s].till \in Tills
  BY <1>1 DEF LockBranch, WorkIsSound
<1>4. /\ Highest \in 0..MaxNumber /\ Highest + BlockSize =< MaxNumber
      /\ \A c \in blocks : c.range_end =< Highest
  BY <1>1, HighestBounds DEF LockBranch
<1>5. new \in Block
  BY <1>3, <1>4, SerialsAssumption DEF NewBlock, Block, Numbers
<1>6. /\ new.range_start =< new.range_end /\ new.next_unused = new.range_start
      /\ \A c \in blocks : c.range_end < new.range_start
  BY <1>1, <1>4, SerialsAssumption DEF NewBlock, SerialsTypeOK, Block, Numbers
<1> HIDE DEF new
<1>7. SerialsTypeOK'
  <2>1. work[s] \in HoldingSets
    BY <1>1 DEF SerialsTypeOK, HoldingSets
  <2>2. work'[s] \in HoldingSets
    BY <1>2, <1>5, <2>1 DEF HoldingSets, Phases
  <2> QED BY <1>1, <1>2, <2>2, HoldingIsTyped
<1>8. \A u \in Settlements : WorkIsSound(u)'
  <2> TAKE u \in Settlements
  <2>1. CASE u = s
    <3>1. work'[s].block = new /\ work'[s].till = work[s].till
      <4>1. work[s] \in HoldingSets
        BY <1>1 DEF SerialsTypeOK, HoldingSets
      <4> QED BY <1>2, <4>1 DEF HoldingSets
    <3>2. HoldsNewBlock(s)'
      BY <1>1, <1>5, <1>6, <3>1 DEF HoldsNewBlock
    <3> QED BY <2>1, <1>2, <1>3, <1>6, <3>1, <3>2 DEF WorkIsSound
  <2>2. CASE u # s
    <3>1. work'[u] = work[u] /\ branchLock' # u /\ branchLock # u
      BY <2>2, <1>1, <1>2, SerialsAssumption DEF SerialsTypeOK
    <3> QED BY <3>1, <1>1, OthersGoOn DEF SameRow
  <2> QED BY <2>1, <2>2
<1> QED BY <1>1, <1>7, <1>8
        DEF SerialsInv, RowsAreSound, BlocksAreDisjoint, NoNumberIsLost

LEMMA TakesFromNewBlock ==
    ASSUME SerialsInv, NEW s \in Settlements, NumberFromNewBlock(s)
    PROVE  SerialsInv'
<1> DEFINE b == work[s].block
<1>1. /\ UNCHANGED <<blocks, issued, branchLock>> /\ SerialsTypeOK
      /\ branchLock = s /\ b.next_unused = b.range_start /\ HoldsNewBlock(s)
  BY DEF NumberFromNewBlock, SerialsInv, WorkIsSound
<1>2. /\ work' = [work EXCEPT ![s] = work'[s]]
      /\ work'[s] = [work[s] EXCEPT !.phase = "insert", !.block = Taken(b),
                                    !.number = b.next_unused]
  BY <1>1 DEF NumberFromNewBlock, SerialsTypeOK
<1>3. b \in Block /\ b.next_unused =< b.range_end
  BY <1>1 DEF HoldsNewBlock
<1>4. Taken(b) \in Block /\ b.next_unused \in Numbers
  BY <1>3, SerialsAssumption DEF Taken, Block, Numbers
<1>5. SerialsTypeOK'
  <2>1. work[s] \in HoldingSets
    BY <1>1 DEF SerialsTypeOK, HoldingSets
  <2>2. work'[s] \in HoldingSets
    BY <1>2, <1>4, <2>1 DEF HoldingSets, Phases
  <2>3. branchLock' \in Settlements \cup {NoDevice}
    BY <1>1 DEF SerialsTypeOK
  <2> QED BY <1>1, <1>2, <2>2, <2>3, HoldingIsTyped
<1>6. NumberIsNext(s)' /\ HoldsNewBlock(s)'
  BY <1>1, <1>2, <1>3, <1>4 DEF NumberIsNext, HoldsNewBlock, Taken, Block, Numbers
<1>7. \A u \in Settlements : WorkIsSound(u)'
  <2> TAKE u \in Settlements
  <2>1. CASE u = s
    BY <2>1, <1>1, <1>2, <1>6 DEF WorkIsSound
  <2>2. CASE u # s
    <3>1. work'[u] = work[u]
      BY <2>2, <1>1, <1>2 DEF SerialsTypeOK
    <3> QED BY <3>1, <1>1, OthersGoOn DEF SameRow
  <2> QED BY <2>1, <2>2
<1> QED BY <1>1, <1>5, <1>7
        DEF SerialsInv, RowsAreSound, BlocksAreDisjoint, NoNumberIsLost

LEMMA HandsOut ==
    ASSUME SerialsInv, NEW s \in Settlements, HandOut(s)
    PROVE  SerialsInv'
<1> DEFINE new == work[s].block
<1>1. /\ issued' = issued /\ blocks' = blocks \cup {new} /\ branchLock' = NoDevice
      /\ work' = [work EXCEPT ![s] = Idle]
      /\ SerialsTypeOK /\ branchLock = s
      /\ HoldsNewBlock(s) /\ new.next_unused = new.range_start
  BY DEF HandOut, Unlocked, SerialsInv, WorkIsSound
<1>2. /\ new \in Block /\ new.range_start =< new.range_end
      /\ \A c \in blocks : c.range_end < new.range_start
  BY <1>1 DEF HoldsNewBlock
<1> HIDE DEF new
<1>3. SerialsTypeOK'
  BY <1>1, <1>2 DEF SerialsTypeOK, Idle, Phases
<1>4. RowsAreSound'
  BY <1>1, <1>2 DEF SerialsInv, RowsAreSound, Block, Numbers
<1>5. BlocksAreDisjoint'
  BY <1>1, <1>2 DEF SerialsInv, BlocksAreDisjoint
<1>6. NoNumberIsLost'
  <2>1. new.range_start .. (new.next_unused - 1) = {}
    BY <1>1, <1>2 DEF Block, Numbers
  <2> QED BY <1>1, <2>1 DEF SerialsInv, NoNumberIsLost
<1>7. \A u \in Settlements : WorkIsSound(u)'
  <2> TAKE u \in Settlements
  <2>1. CASE u = s
    BY <2>1, <1>1, SerialsAssumption DEF WorkIsSound, Idle, SerialsTypeOK
  <2>2. CASE u # s
    <3>1. work'[u] = work[u] /\ branchLock' # u /\ branchLock # u
      BY <2>2, <1>1, SerialsAssumption DEF SerialsTypeOK
    <3> QED BY <3>1, <1>1, OthersGoOn DEF SameRow
  <2> QED BY <2>1, <2>2
<1> QED BY <1>3, <1>4, <1>5, <1>6, <1>7 DEF SerialsInv

\* An invoice without a block: only its number is new.
LEMMA IssuesFromBranch ==
    ASSUME SerialsInv, NEW s \in Settlements, Issue(s), work[s].block = NoBlock
    PROVE  SerialsInv'
<1>1. /\ blocks' = blocks /\ issued' = issued \cup {work[s].number}
      /\ work' = [work EXCEPT ![s] = Idle]
      /\ SerialsTypeOK
  BY DEF Issue, WithBlock, SerialsInv
<1>2. branchLock # s /\ branchLock' = branchLock
  <2>1. NoBlock \notin Block
    BY SerialsAssumption DEF NoBlock, Block, Numbers
  <2> QED BY <2>1 DEF Issue, Unlocked, SerialsInv, WorkIsSound, HoldsNewBlock
<1>3. work[s].number \in Numbers
  <2>1. NoBlock \notin Block
    BY SerialsAssumption DEF NoBlock, Block, Numbers
  <2> QED BY <2>1 DEF Issue, SerialsInv, WorkIsSound, NumberIsNext
<1>4. SerialsTypeOK'
  BY <1>1, <1>2, <1>3 DEF SerialsTypeOK, Idle, Phases
<1>5. \A u \in Settlements : WorkIsSound(u)'
  <2> TAKE u \in Settlements
  <2>1. CASE u = s
    BY <2>1, <1>1, <1>2 DEF WorkIsSound, Idle, SerialsTypeOK
  <2>2. CASE u # s
    <3>1. work'[u] = work[u]
      BY <2>2, <1>1 DEF SerialsTypeOK
    <3> QED BY <3>1, <1>1, <1>2, OthersGoOn DEF SameRow
  <2> QED BY <2>1, <2>2
<1> QED BY <1>1, <1>4, <1>5 DEF SerialsInv, RowsAreSound, BlocksAreDisjoint, NoNumberIsLost

\* An invoice from a block: its row replaces the row with its range, or is new.
LEMMA IssuesFromBlock ==
    ASSUME SerialsInv, NEW s \in Settlements, Issue(s), work[s].block # NoBlock
    PROVE  SerialsInv'
<1> DEFINE b == work[s].block
           n == work[s].number
<1>1. /\ blocks' = {c \in blocks : ~SameRow(b, c)} \cup {b}
      /\ issued' = issued \cup {n}
      /\ work' = [work EXCEPT ![s] = Idle]
      /\ branchLock' = Unlocked(s)
      /\ SerialsTypeOK
  BY DEF Issue, WithBlock, SerialsInv
<1>2. NumberIsNext(s) /\ (HoldsOldBlock(s) \/ (branchLock = s /\ HoldsNewBlock(s)))
  BY DEF Issue, SerialsInv, WorkIsSound
<1>3. /\ b \in Block /\ b.next_unused = n + 1 /\ b.range_start =< n /\ n =< b.range_end
      /\ b.range_start .. (n - 1) \subseteq issued
      /\ n \in Numbers /\ b.range_start \in Nat /\ b.range_end \in Nat
  <2>1. n \in Numbers \cup {0}
    BY <1>1 DEF SerialsTypeOK
  <2>2. b \in Block
    BY <1>2 DEF NumberIsNext
  <2>3. b.range_start \in 1..MaxNumber /\ b.range_end \in 1..MaxNumber
    BY <2>2 DEF Block, Numbers
  <2> QED BY <1>2, <2>1, <2>2, <2>3, SerialsAssumption DEF NumberIsNext, Numbers
<1>4. \A c \in blocks : /\ c.range_start \in Nat /\ c.range_end \in Nat
                        /\ c.range_start =< c.range_end
  BY <1>1, SerialsAssumption DEF SerialsInv, RowsAreSound, SerialsTypeOK, Block, Numbers
\* A row with the same start has the same end; another one lies apart.
<1>5. \A c \in blocks :
        IF SameRow(b, c) THEN b.range_end = c.range_end
        ELSE b.range_end < c.range_start \/ c.range_end < b.range_start
  <2> TAKE c \in blocks
  <2>1. CASE HoldsOldBlock(s)
    <3>1. PICK o \in blocks : SameRow(o, b) /\ b.range_end = o.range_end
      BY <2>1 DEF HoldsOldBlock
    <3>2. SameRow(b, c) => o = c
      BY <3>1, RowsByStart DEF SameRow
    <3>3. o # c => o.range_end < c.range_start \/ c.range_end < o.range_start
      BY DEF SerialsInv, BlocksAreDisjoint
    <3> QED BY <3>1, <3>2, <3>3 DEF SameRow
  <2>2. CASE HoldsNewBlock(s)
    BY <2>2, <1>3, <1>4 DEF HoldsNewBlock, SameRow
  <2> QED BY <2>1, <2>2, <1>2
<1> HIDE DEF b, n
<1>6. SerialsTypeOK'
  BY <1>1, <1>3, SerialsAssumption DEF SerialsTypeOK, Idle, Phases, Unlocked
<1>7. RowsAreSound'
  BY <1>1, <1>3, SerialsAssumption DEF SerialsInv, RowsAreSound, Numbers
<1>8. BlocksAreDisjoint'
  BY <1>1, <1>5 DEF SerialsInv, BlocksAreDisjoint
<1>9. NoNumberIsLost'
  <2>1. b.range_start .. (b.next_unused - 1) \subseteq issued'
    BY <1>1, <1>3, SerialsAssumption DEF Numbers
  <2> QED BY <1>1, <2>1 DEF SerialsInv, NoNumberIsLost
<1>10. \A u \in Settlements : WorkIsSound(u)'
  <2> TAKE u \in Settlements
  <2>1. CASE u = s
    BY <2>1, <1>1, SerialsAssumption DEF WorkIsSound, Idle, SerialsTypeOK, Unlocked
  <2>2. CASE u # s
    <3>1. work'[u] = work[u] /\ (branchLock' = u <=> branchLock = u)
      BY <2>2, <1>1, SerialsAssumption DEF SerialsTypeOK, Unlocked
    <3>2. \A c \in blocks : \E r \in blocks' : SameRow(c, r) /\ c.range_end = r.range_end
      BY <1>1, <1>5 DEF SameRow
    <3>3. branchLock = u =>
            \A r \in blocks' : \E c \in blocks : SameRow(c, r) /\ c.range_end = r.range_end
      BY <2>2, <1>1, <1>2 DEF HoldsOldBlock, SameRow, b
    <3> QED BY <3>1, <3>2, <3>3, <1>1, OthersGoOn
  <2> QED BY <2>1, <2>2
<1> QED BY <1>6, <1>7, <1>8, <1>9, <1>10 DEF SerialsInv

LEMMA SerialsStep == SerialsInv /\ [SerialsNext]_serialVars => SerialsInv'
<1> SUFFICES ASSUME SerialsInv, [SerialsNext]_serialVars PROVE SerialsInv'
  OBVIOUS
<1>1. CASE SerialsNext
  BY <1>1, LooksAround, TakesANumber, AllocatesBehind, TakesFromNewBlock, HandsOut,
     IssuesFromBranch, IssuesFromBlock DEF SerialsNext
<1>2. CASE UNCHANGED serialVars
  BY <1>2
  DEF serialVars, SerialsInv, SerialsTypeOK, RowsAreSound, BlocksAreDisjoint, NoNumberIsLost,
      WorkIsSound, HoldsNewBlock, HoldsOldBlock, NumberIsNext
<1> QED BY <1>1, <1>2

LEMMA SerialsAlways == SerialsSpec => []SerialsInv
BY SerialsStart, SerialsStep, PTL DEF SerialsSpec

-----------------------------------------------------------------------------
(* What follows.                                                           *)

\* Rows, invoices and what settlements hold keep their types: no number leaves
\* its block, and none is beyond the bound.
THEOREM SerialsTyping == SerialsSpec => []SerialsTypeOK
BY SerialsAlways, PTL DEF SerialsInv

\* No number is reserved to two tills, however many settlements and tills ask
\* for a block at once, inside transactions that the others cannot see.
THEOREM NoNumberIsReservedTwice == SerialsSpec => []BlocksAreDisjoint
BY SerialsAlways, PTL DEF SerialsInv

\* Each number a till passed is on an invoice: a settlement that failed gave
\* its number back, also when the block was new and is gone with it.
THEOREM NoNumberIsSkipped == SerialsSpec => []NoNumberIsLost
BY SerialsAlways, PTL DEF SerialsInv
=============================================================================
