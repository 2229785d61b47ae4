--------------------------- MODULE DeliveryLedger ---------------------------
(***************************************************************************)
(* What offline synchronisation promises a cashier, without saying how: an *)
(* operation handed over is entered in the books of the server at most     *)
(* once, and a terminal is told "done" only of an operation that is in the *)
(* books.  SyncPush implements it for the operations that carry a key.     *)
(***************************************************************************)
EXTENDS Naturals

CONSTANT Ops           \* the operations terminals may hand over (op_uuid)

VARIABLES submitted,   \* the operations handed over
          entries,     \* how often each operation is entered in the books
          confirmed    \* the operations whose terminal was told "done"

vars == <<submitted, entries, confirmed>>

Init ==
    /\ submitted = {}
    /\ entries = [op \in Ops |-> 0]
    /\ confirmed = {}

\* A terminal hands an operation over.
Submit(op) ==
    /\ op \notin submitted
    /\ submitted' = submitted \cup {op}
    /\ UNCHANGED <<entries, confirmed>>

\* The books take an operation that was handed over, once.
Enter(op) ==
    /\ op \in submitted
    /\ entries[op] = 0
    /\ entries' = [entries EXCEPT ![op] = 1]
    /\ UNCHANGED <<submitted, confirmed>>

\* Terminals learn of operations that are in the books; one answer may
\* confirm several.
Confirm(batch) ==
    /\ batch # {}
    /\ batch \cap confirmed = {}
    /\ \A op \in batch : entries[op] = 1
    /\ confirmed' = confirmed \cup batch
    /\ UNCHANGED <<submitted, entries>>

Next ==
    \/ \E op \in Ops : Submit(op) \/ Enter(op)
    \/ \E batch \in SUBSET Ops : Confirm(batch)

Spec == Init /\ [][Next]_vars
=============================================================================
