--------------------------- MODULE InvoiceSerials ---------------------------
(***************************************************************************)
(* The numbers on the invoices of one branch (payments/services.py and     *)
(* licensing/services.py).  A till takes numbers from a block reserved to  *)
(* it; an order without a device takes the highest number of the branch    *)
(* plus one.  Every settlement is one database transaction: what it wrote  *)
(* is seen by others at its commit, and is gone if the number it chose is  *)
(* on another invoice already.                                             *)
(***************************************************************************)
EXTENDS Integers, FiniteSets, FiniteSetsExt

CONSTANTS
    Tills,          \* devices of the branch
    NoDevice,       \* a settlement of an order made in a browser
    Settlements,    \* settlements in progress
    BlockSize,      \* INVOICE_BLOCK_SIZE
    MaxNumber       \* bound: the highest number any block reaches

ASSUME SerialsAssumption ==
    /\ NoDevice \notin Tills \cup Settlements
    /\ BlockSize \in Nat \ {0}
    /\ MaxNumber \in Nat

Numbers == 1..MaxNumber

\* InvoiceBlock.  exhausted_at is set exactly when next_unused passes the end.
Block == [till : Tills, range_start : Numbers, range_end : Numbers,
          next_unused : 1..(MaxNumber + 1)]

NoBlock == [till |-> NoDevice, range_start |-> 0, range_end |-> 0, next_unused |-> 0]

Exhausted(b) == b.next_unused > b.range_end

VARIABLES
    blocks,       \* committed rows of invoice_blocks
    issued,       \* committed numbers of invoices
    work,         \* what each settlement holds: its phase, till, block and number
    branchLock    \* the settlement that locked the row of the branch, or NoDevice

serialVars == <<blocks, issued, work, branchLock>>

Idle == [phase |-> "idle", till |-> NoDevice, block |-> NoBlock, number |-> 0]

Phases == {"idle", "look", "wait", "allocate", "number", "reserve", "reserved",
           "insert", "collided"}

SerialsTypeOK ==
    /\ blocks \in SUBSET Block
    /\ issued \in SUBSET Numbers
    /\ work \in [Settlements ->
                   [phase : Phases, till : Tills \cup {NoDevice},
                    block : Block \cup {NoBlock}, number : Numbers \cup {0}]]
    /\ branchLock \in Settlements \cup {NoDevice}

SerialsInit ==
    /\ blocks = {}
    /\ issued = {}
    /\ work = [s \in Settlements |-> Idle]
    /\ branchLock = NoDevice

-----------------------------------------------------------------------------

\* A full payment reaches _on_settled, or a till asks for a block by itself.
BeginSettlement(s) ==
    /\ work[s].phase = "idle"
    /\ \E d \in Tills \cup {NoDevice} :
         work' = [work EXCEPT ![s].phase = "look", ![s].till = d]
    /\ UNCHANGED <<blocks, issued, branchLock>>

AskForBlock(s) ==
    /\ work[s].phase = "idle"
    /\ \E d \in Tills : work' = [work EXCEPT ![s].phase = "reserve", ![s].till = d]
    /\ UNCHANGED <<blocks, issued, branchLock>>

\* The block a settlement holds the row lock of; it may have changed the copy.
SameRow(b, c) == b.range_start = c.range_start
Locked(b) == \E s \in Settlements :
               work[s].phase = "insert" /\ SameRow(work[s].block, b)

OpenBlocks(till) == {b \in blocks : b.till = till /\ ~Exhausted(b)}
FirstOf(bs) == CHOOSE b \in bs : \A c \in bs : b.range_start =< c.range_start

Taken(b) == [b EXCEPT !.next_unused = @ + 1]

\* The row as it is when the lock is granted.
RowOf(b) == CHOOSE c \in blocks : SameRow(b, c)

Take(s, b) ==
    /\ ~Locked(b)
    /\ work' = [work EXCEPT ![s].phase = "insert", ![s].block = Taken(b),
                            ![s].number = b.next_unused]
    /\ UNCHANGED <<blocks, issued, branchLock>>

\* SELECT ... FOR UPDATE on the first open block; it waits for a lock it meets.
TakeNumber(s) ==
    /\ work[s].phase = "look" /\ OpenBlocks(work[s].till) # {}
    /\ Take(s, FirstOf(OpenBlocks(work[s].till)))

WaitForBlock(s) ==
    /\ work[s].phase = "look" /\ OpenBlocks(work[s].till) # {}
    /\ LET b == FirstOf(OpenBlocks(work[s].till)) IN
         /\ Locked(b)
         /\ work' = [work EXCEPT ![s].phase = "wait", ![s].block = b]
    /\ UNCHANGED <<blocks, issued, branchLock>>

\* The condition is evaluated again on the row it waited for, and on no other.
TakeAfterWait(s) ==
    /\ work[s].phase = "wait" /\ ~Exhausted(RowOf(work[s].block))
    /\ Take(s, RowOf(work[s].block))

LoseAfterWait(s) ==
    /\ work[s].phase = "wait" /\ Exhausted(RowOf(work[s].block))
    /\ work' = [work EXCEPT ![s].phase = "allocate", ![s].block = NoBlock]
    /\ UNCHANGED <<blocks, issued, branchLock>>

FindNoBlock(s) ==
    /\ work[s].phase = "look" /\ work[s].till \in Tills
    /\ OpenBlocks(work[s].till) = {}
    /\ work' = [work EXCEPT ![s].phase = "allocate"]
    /\ UNCHANGED <<blocks, issued, branchLock>>

\* A web-created order: the branch-wide sequence.
WebNumber(s) ==
    /\ work[s].phase = "look" /\ work[s].till = NoDevice
    /\ Max(issued \cup {0}) < MaxNumber
    /\ work' = [work EXCEPT ![s].phase = "insert", ![s].number = Max(issued \cup {0}) + 1]
    /\ UNCHANGED <<blocks, issued, branchLock>>

\* The row of the branch serialises allocations.
BranchIgnored == TRUE
BranchIsFree == branchLock = NoDevice

Highest == Max({b.range_end : b \in blocks} \cup issued \cup {0})

SpentBlock(till) ==
    [till |-> till, range_start |-> Highest + 1, range_end |-> Highest + BlockSize,
     next_unused |-> Highest + 2]
NewBlock(till) ==
    [till |-> till, range_start |-> Highest + 1, range_end |-> Highest + BlockSize,
     next_unused |-> Highest + 1]

\* allocate_invoice_block, for a settlement or for the till itself.
LockBranch(s) ==
    /\ work[s].phase \in {"allocate", "reserve"}
    /\ BranchIsFree
    /\ Highest + BlockSize =< MaxNumber
    /\ branchLock' = s
    /\ work' = [work EXCEPT ![s].phase = IF @ = "allocate" THEN "number" ELSE "reserved",
                            ![s].block = NewBlock(work[s].till)]
    /\ UNCHANGED <<blocks, issued>>

NumberFromNewBlock(s) ==
    /\ work[s].phase = "number"
    /\ work' = [work EXCEPT ![s].phase = "insert", ![s].block = Taken(@),
                            ![s].number = work[s].block.next_unused]
    /\ UNCHANGED <<blocks, issued, branchLock>>

Unlocked(s) == IF branchLock = s THEN NoDevice ELSE branchLock

\* InvoiceBlockView: the block is committed and no number is taken.
HandOut(s) ==
    /\ work[s].phase = "reserved"
    /\ blocks' = blocks \cup {work[s].block}
    /\ work' = [work EXCEPT ![s] = Idle]
    /\ branchLock' = Unlocked(s)
    /\ UNCHANGED issued

WithBlock(b) ==
    IF b = NoBlock THEN blocks ELSE {c \in blocks : ~SameRow(b, c)} \cup {b}

\* uniq_invoice_serial lets the first commit through.
SerialIsFree(number) == number \notin issued

Issue(s) ==
    /\ work[s].phase = "insert"
    /\ SerialIsFree(work[s].number)
    /\ issued' = issued \cup {work[s].number}
    /\ blocks' = WithBlock(work[s].block)
    /\ work' = [work EXCEPT ![s] = Idle]
    /\ branchLock' = Unlocked(s)

\* IntegrityError: everything the settlement wrote is rolled back.
Collide(s) ==
    /\ work[s].phase = "insert"
    /\ ~SerialIsFree(work[s].number)
    /\ work' = [work EXCEPT ![s] = [Idle EXCEPT !.phase = "collided", !.till = work[s].till]]
    /\ branchLock' = Unlocked(s)
    /\ UNCHANGED <<blocks, issued>>

\* The cashier sees an error of the server and tries again.
TryAgain(s) ==
    /\ work[s].phase = "collided"
    /\ work' = [work EXCEPT ![s].phase = "look"]
    /\ UNCHANGED <<blocks, issued, branchLock>>

SerialsNext ==
    \E s \in Settlements :
        \/ BeginSettlement(s) \/ AskForBlock(s)
        \/ TakeNumber(s) \/ WaitForBlock(s) \/ TakeAfterWait(s) \/ LoseAfterWait(s)
        \/ FindNoBlock(s) \/ WebNumber(s)
        \/ LockBranch(s) \/ NumberFromNewBlock(s) \/ HandOut(s)
        \/ Issue(s) \/ Collide(s) \/ TryAgain(s)

SerialsSpec == SerialsInit /\ [][SerialsNext]_serialVars

-----------------------------------------------------------------------------
(* Properties.                                                             *)

\* No number is reserved to two tills, although blocks are allocated inside
\* settlements that other settlements cannot see yet.
BlocksAreDisjoint ==
    \A b, c \in blocks :
        b # c => b.range_end < c.range_start \/ c.range_end < b.range_start

\* A till skips no number: each one below next_unused is on an invoice, so a
\* settlement that failed gave its number back.
NoNumberIsLost ==
    \A b \in blocks : b.range_start .. (b.next_unused - 1) \subseteq issued

\* What the comment on allocate_invoice_block promises: the range of a block is
\* untouched, so no settlement of a till meets its number on another invoice.
BlockIsUntouched ==
    \A s \in Settlements : work[s].phase = "collided" => work[s].till = NoDevice
=============================================================================
