-------------------------- MODULE OrderDeskProofs ---------------------------
(***************************************************************************)
(* What holds of one order for any number of lines, stations, requests and *)
(* keys, and any bound on totals and firings; of a bill kept twice, for    *)
(* any menus, rules and numbers of lines and events; of the reports, for   *)
(* any number of orders and builders; and of all of them together.         *)
(***************************************************************************)
EXTENDS MCOrderDesk, FiniteSetTheorems, WellFoundedInduction, TLAPS

-----------------------------------------------------------------------------
(* Types.                                                                  *)

LEMMA TypeInit == Init => TypeOK
BY StationAssumption, TotalAssumption
DEF Init, TypeOK, OrderStatus, LineStatus, TicketStatus, Amounts, Tickets

LEMMA TypeNext == TypeOK /\ [Next]_vars => TypeOK'
<1> SUFFICES ASSUME TypeOK, [Next]_vars PROVE TypeOK'
  OBVIOUS
<1>1. ASSUME NEW l \in Lines, NEW state \in LineStatus, EditLine(l, state) PROVE TypeOK'
  BY <1>1 DEF EditLine, Recalculate, TypeOK, kitchen
<1>2. CASE Fire
  <2>1. ticket' \in [Tickets -> TicketStatus \cup {"none"}] /\ status' \in OrderStatus
    BY <1>2 DEF Fire, TypeOK, TicketStatus, OrderStatus
  <2>2. cooks' \in [Tickets -> SUBSET Lines] /\ line' \in [Lines -> LineStatus]
    BY <1>2 DEF Fire, Stamped, Unfired, TypeOK, LineStatus
  <2>3. rounds' \in 0..MaxRounds /\ grand_total' \in Amounts
    BY <1>2, TotalAssumption DEF Fire, Recalculate, TypeOK
  <2> QED BY <1>2, <2>1, <2>2, <2>3 DEF Fire, TypeOK
<1>3. ASSUME NEW t \in Tickets, NEW target \in TicketStatus, MoveTicket(t, target) PROVE TypeOK'
  <2>1. status' \in OrderStatus
    BY <1>3 DEF MoveTicket, SyncOrderStatus, Target, TypeOK, OrderStatus
  <2> QED BY <1>3, <2>1 DEF MoveTicket, TypeOK, books
<1>4. ASSUME NEW w \in Workers, NEW k \in Keys, NEW amount \in Amounts,
             AskPayment(w, k, amount) \/ AskRefund(w, k, amount) \/ AskVoid(w)
      PROVE  TypeOK'
  BY <1>4 DEF AskPayment, AskRefund, AskVoid, Start, TypeOK, Jobs, books, kitchen
<1>5. ASSUME NEW w \in Workers, NEW k \in Keys, NEW amount \in Amounts, Pay(w, k, amount)
      PROVE  TypeOK'
  <2>1. paid_total' \in Amounts
    BY <1>5, TotalAssumption DEF Pay, CanPay, TypeOK, Amounts
  <2>2. /\ status' \in OrderStatus /\ deductions' \in Nat
        /\ invoice' \in [total : Amounts, paid : Amounts] \cup {Nothing}
    BY <1>5, <2>1 DEF Pay, Settled, TypeOK, OrderStatus
  <2> QED BY <1>5, <2>1, <2>2 DEF Pay, End, TypeOK, kitchen
<1>6. ASSUME NEW w \in Workers, NEW k \in Keys, NEW amount \in Amounts, Refund(w, k, amount)
      PROVE  TypeOK'
  BY <1>6 DEF Refund, End, TypeOK, OrderStatus, kitchen
<1>7. ASSUME NEW w \in Workers, AskVoid(w) \/ Void(w) \/ GiveUp(w) PROVE TypeOK'
  BY <1>7 DEF AskVoid, Start, Void, GiveUp, End, TypeOK, Jobs, OrderStatus, books, kitchen
<1>8. CASE UNCHANGED vars
  BY <1>8 DEF vars, books, kitchen, TypeOK
<1> QED BY <1>1, <1>2, <1>3, <1>4, <1>5, <1>6, <1>7, <1>8 DEF Next

\* Every variable of an order keeps its type, in every interleaving of tills,
\* kitchen and manager: totals never leave their bounds.
THEOREM Typing == Spec => []TypeOK
BY TypeInit, TypeNext, PTL DEF Spec

-----------------------------------------------------------------------------
(* The receipt.                                                            *)

\* An order with a receipt is in a terminal state, where nothing may change
\* its totals; a void that comes too late leaves it in one.
ReceiptStands ==
    /\ invoice # Nothing => status \in Terminal
    /\ InvoiceMatchesOrder
    /\ SettledOnce

LEMMA ReceiptNext == TypeOK /\ ReceiptStands /\ [Next]_vars => ReceiptStands'
<1> SUFFICES ASSUME TypeOK, ReceiptStands, [Next]_vars PROVE ReceiptStands'
  OBVIOUS
<1> USE DEF ReceiptStands, InvoiceMatchesOrder, SettledOnce
<1>1. ASSUME NEW l \in Lines, NEW state \in LineStatus, EditLine(l, state) PROVE ReceiptStands'
  BY <1>1 DEF EditLine, IsMutable, Mutable, Terminal
<1>2. CASE Fire
  BY <1>2 DEF Fire, IsMutable, Mutable, Terminal
<1>3. ASSUME NEW t \in Tickets, NEW target \in TicketStatus, MoveTicket(t, target)
      PROVE  ReceiptStands'
  <2>1. /\ status \in Terminal => status' = status
        /\ status' \in {"PAID", "REFUNDED"} => status' = status
    BY <1>3 DEF MoveTicket, SyncOrderStatus, Target, Terminal
  <2> QED BY <1>3, <2>1 DEF MoveTicket, books
<1>4. ASSUME NEW w \in Workers, NEW k \in Keys, NEW amount \in Amounts, Pay(w, k, amount)
      PROVE  ReceiptStands'
  <2>1. invoice = Nothing /\ status \notin {"PAID", "REFUNDED"} /\ deductions = 0
    BY <1>4 DEF Pay, CanPay, Terminal
  <2>2. CASE UNCHANGED <<status, invoice, deductions>>
    BY <2>1, <2>2
  <2>3. CASE Settled(paid_total')
    <3>1. paid_total' \in Amounts /\ grand_total \in Amounts /\ grand_total' = grand_total
      BY <1>4, TypeNext DEF TypeOK, Pay
    <3>2. invoice' # Nothing
      BY <2>3, <3>1, NothingAssumption DEF Settled
    <3> QED BY <2>1, <2>3, <3>1, <3>2 DEF Settled, Terminal
  <2> QED BY <1>4, <2>2, <2>3 DEF Pay
<1>5. ASSUME NEW w \in Workers, NEW k \in Keys, NEW amount \in Amounts, Refund(w, k, amount)
      PROVE  ReceiptStands'
  BY <1>5 DEF Refund, Allowed, Terminal, TypeOK, OrderStatus
<1>6. ASSUME NEW w \in Workers, Void(w) PROVE ReceiptStands'
  BY <1>6 DEF Void, Terminal, books
<1>7. CASE UNCHANGED <<status, books>>
  BY <1>7 DEF books
<1>8. ASSUME NEW w \in Workers, NEW k \in Keys, NEW amount \in Amounts,
             AskPayment(w, k, amount) \/ AskRefund(w, k, amount)
      PROVE  UNCHANGED <<status, books>>
  BY <1>8 DEF AskPayment, AskRefund, Start
<1>9. ASSUME NEW w \in Workers, AskVoid(w) \/ GiveUp(w) PROVE UNCHANGED <<status, books>>
  BY <1>9 DEF AskVoid, Start, GiveUp
<1> QED BY <1>1, <1>2, <1>3, <1>4, <1>5, <1>6, <1>7, <1>8, <1>9 DEF Next, vars

LEMMA Receipt == Spec => []ReceiptStands
<1>1. Init => ReceiptStands
  BY DEF Init, ReceiptStands, InvoiceMatchesOrder, SettledOnce
<1> QED BY <1>1, ReceiptNext, Typing, PTL DEF Spec

\* The totals on the receipt are the totals of the order, for ever.
THEOREM ReceiptIsTrue == Spec => []InvoiceMatchesOrder
<1>1. ReceiptStands => InvoiceMatchesOrder
  BY DEF ReceiptStands
<1> QED BY <1>1, Receipt, PTL

\* Stock is deducted once, with the receipt.
THEOREM StockLeavesOnce == Spec => []SettledOnce
<1>1. ReceiptStands => SettledOnce
  BY DEF ReceiptStands
<1> QED BY <1>1, Receipt, PTL

-----------------------------------------------------------------------------
(* The kitchen.                                                            *)

\* A line on a ticket was fired, no ticket is of a firing to come, and no
\* line is on two.
LinesOnce ==
    /\ \A t \in Tickets : \A l \in cooks[t] : line[l] \in {"fired", "voided"}
    /\ \A t \in Tickets : t[2] > rounds => cooks[t] = {}
    /\ NoLineCookedTwice

LEMMA LinesNext == TypeOK /\ LinesOnce /\ [Next]_vars => LinesOnce'
<1> SUFFICES ASSUME TypeOK, LinesOnce, [Next]_vars PROVE LinesOnce'
  OBVIOUS
<1> USE DEF LinesOnce, NoLineCookedTwice
<1>1. ASSUME NEW l \in Lines, NEW state \in LineStatus, EditLine(l, state) PROVE LinesOnce'
  <2>1. \A k \in Lines : line[k] \in {"fired", "voided"} => line'[k] \in {"fired", "voided"}
    BY <1>1 DEF EditLine, TypeOK
  <2>2. cooks' = cooks /\ rounds' = rounds
    BY <1>1 DEF EditLine, kitchen
  <2> QED BY <2>1, <2>2 DEF TypeOK
<1>2. CASE Fire
  <2>1. /\ rounds' = rounds + 1 /\ rounds \in Nat
        /\ \A t \in Tickets : cooks'[t] = IF t[2] = rounds + 1 THEN Unfired(t[1]) ELSE cooks[t]
        /\ \A l \in Lines : line'[l] = IF line[l] = "new" THEN "fired" ELSE line[l]
    BY <1>2, TotalAssumption DEF Fire, Stamped, TypeOK
  <2>2. \A t \in Tickets : t[2] \in Nat
    BY TotalAssumption DEF Tickets
  <2>3. \A t \in Tickets, l \in Lines : l \in Unfired(t[1]) => line[l] = "new" /\ StationOf[l] = t[1]
    BY DEF Unfired
  <2>4. \A t \in Tickets : Unfired(t[1]) \subseteq Lines /\ cooks[t] \subseteq Lines
    BY DEF Unfired, TypeOK
  <2>5. ASSUME NEW t \in Tickets, NEW l \in cooks'[t] PROVE line'[l] \in {"fired", "voided"}
    BY <2>1, <2>3, <2>4, <2>5
  <2>6. ASSUME NEW t \in Tickets, t[2] > rounds' PROVE cooks'[t] = {}
    BY <2>1, <2>2, <2>6
  <2>7. ASSUME NEW t \in Tickets, NEW u \in Tickets, t # u, NEW l \in cooks'[t], l \in cooks'[u]
        PROVE  FALSE
    <3>1. CASE t[2] = rounds + 1 /\ u[2] = rounds + 1
      <4>1. t[1] = u[1]
        BY <2>1, <2>3, <2>4, <2>7, <3>1
      <4> QED BY <2>7, <3>1, <4>1 DEF Tickets
    <3>2. CASE t[2] # rounds + 1 /\ u[2] # rounds + 1
      BY <2>1, <2>7, <3>2
    <3>3. CASE (t[2] = rounds + 1) # (u[2] = rounds + 1)
      BY <2>1, <2>3, <2>4, <2>7, <3>3
    <3> QED BY <3>1, <3>2, <3>3
  <2> QED BY <2>5, <2>6, <2>7
<1>3. CASE UNCHANGED <<line, cooks, rounds>>
  BY <1>3
<1>4. ASSUME NEW t \in Tickets, NEW target \in TicketStatus, MoveTicket(t, target)
      PROVE  UNCHANGED <<line, cooks, rounds>>
  BY <1>4 DEF MoveTicket
<1>5. ASSUME NEW w \in Workers, NEW k \in Keys, NEW amount \in Amounts,
             \/ AskPayment(w, k, amount) \/ Pay(w, k, amount)
             \/ AskRefund(w, k, amount) \/ Refund(w, k, amount)
      PROVE  UNCHANGED <<line, cooks, rounds>>
  BY <1>5 DEF AskPayment, AskRefund, Start, Pay, Refund, kitchen
<1>6. ASSUME NEW w \in Workers, AskVoid(w) \/ Void(w) \/ GiveUp(w)
      PROVE  UNCHANGED <<line, cooks, rounds>>
  BY <1>6 DEF AskVoid, Start, Void, GiveUp, kitchen
<1> QED BY <1>1, <1>2, <1>3, <1>4, <1>5, <1>6 DEF Next, vars, kitchen

\* However often an order is fired, the kitchen never gets a line twice.
THEOREM CookedOnce == Spec => []NoLineCookedTwice
<1>1. Init => LinesOnce
  BY DEF Init, LinesOnce, NoLineCookedTwice
<1>2. LinesOnce => NoLineCookedTwice
  BY DEF LinesOnce
<1> QED BY <1>1, <1>2, LinesNext, Typing, PTL DEF Spec

\* Only the last of its tickets makes an order READY.
THEOREM ReadyInTime == Spec => ReadyWhenAllReady
<1>1. [Next]_vars => (status # "READY" /\ status' = "READY" =>
                        \A t \in Tickets : ticket'[t] \in Done \cup {"none", "CANCELLED"})
  <2> SUFFICES ASSUME [Next]_vars, status # "READY", status' = "READY"
               PROVE  \A t \in Tickets : ticket'[t] \in Done \cup {"none", "CANCELLED"}
    OBVIOUS
  <2>1. ASSUME NEW t \in Tickets, NEW target \in TicketStatus, MoveTicket(t, target)
        PROVE  \A u \in Tickets : ticket'[u] \in Done \cup {"none", "CANCELLED"}
    <3>1. Target(ticket') = "READY"
      BY <2>1 DEF MoveTicket, SyncOrderStatus
    <3>2. AllDone(ticket')
      BY <3>1 DEF Target
    <3> QED BY <3>2 DEF AllDone
  <2>2. ASSUME NEW w \in Workers, NEW k \in Keys, NEW amount \in Amounts,
               \/ AskPayment(w, k, amount) \/ Pay(w, k, amount)
               \/ AskRefund(w, k, amount) \/ Refund(w, k, amount)
        PROVE  FALSE
    BY <2>2 DEF AskPayment, AskRefund, Start, Pay, Settled, Refund
  <2>3. ASSUME NEW w \in Workers, AskVoid(w) \/ Void(w) \/ GiveUp(w) PROVE FALSE
    BY <2>3 DEF AskVoid, Start, Void, GiveUp
  <2>4. ASSUME NEW l \in Lines, NEW state \in LineStatus, EditLine(l, state) PROVE FALSE
    BY <2>4 DEF EditLine
  <2>5. ~Fire /\ ~(UNCHANGED vars)
    BY DEF Fire, vars
  <2> QED BY <2>1, <2>2, <2>3, <2>4, <2>5 DEF Next
<1> QED BY <1>1, PTL DEF Spec, ReadyWhenAllReady

-----------------------------------------------------------------------------
(* Money: sums.                                                            *)

\* The least of the numbers that are bad.
LEMMA Least ==
    ASSUME NEW bad, bad \subseteq Nat, bad # {}
    PROVE  \E n \in bad : \A m \in bad : n =< m
<1>1. PICK n \in bad : \A m \in bad : ~ (<<m, n>> \in OpToRel(<, Nat))
  BY NatLessThanWellFounded, WFMin
<1>2. \A m \in bad : ~ (m < n)
  BY <1>1 DEF OpToRel
<1> QED BY <1>2

\* How a sum is computed: key by key.
Picked(s) == CHOOSE x \in s : TRUE
Added(amounts, sums, s) ==
    IF s = {} THEN 0 ELSE amounts[Picked(s)] + sums[s \ {Picked(s)}]
Sums(amounts, keys) == CHOOSE sums : sums = [s \in SUBSET keys |-> Added(amounts, sums, s)]

\* The sum is that of the recursive function.
LEMMA SumIsSums ==
    ASSUME NEW amounts, NEW keys
    PROVE  /\ MapThenSumSet(LAMBDA k : amounts[k], keys) = Sums(amounts, keys)[keys]
           /\ SumFunctionOnSet(amounts, keys) = Sums(amounts, keys)[keys]
BY DEF MapThenSumSet, SumFunctionOnSet, FoldFunctionOnSet, MapThenFoldSet, Sums, Added, Picked

\* There are sums: for one key more, the amount of the key picked next is added.
LEMMA SumsExist ==
    ASSUME NEW keys, IsFiniteSet(keys), NEW amounts
    PROVE  \E sums : sums = [s \in SUBSET keys |-> Added(amounts, sums, s)]
<1>1. \A s \in SUBSET keys : IsFiniteSet(s) /\ Cardinality(s) \in Nat
  BY FS_Subset, FS_CardinalityType
<1>2. \A s \in SUBSET keys : s # {} =>
         /\ Picked(s) \in s /\ s \ {Picked(s)} \in SUBSET keys
         /\ Cardinality(s \ {Picked(s)}) = Cardinality(s) - 1
  BY <1>1, FS_RemoveElement DEF Picked
<1>3. \A s \in SUBSET keys : Cardinality(s) = 0 <=> s = {}
  BY <1>1, FS_EmptySet
<1> DEFINE UpTo(n) == {s \in SUBSET keys : Cardinality(s) =< n}
           Lack == {n \in Nat : ~\E sums : sums = [s \in UpTo(n) |-> Added(amounts, sums, s)]}
<1>4. Lack = {}
  <2> SUFFICES ASSUME Lack # {} PROVE FALSE
    OBVIOUS
  <2>1. PICK n \in Lack : \A m \in Lack : n =< m
    <3>1. Lack \subseteq Nat
      OBVIOUS
    <3> HIDE DEF Lack
    <3> QED BY <3>1, Least
  <2>2. n \in Nat /\ ~\E sums : sums = [s \in UpTo(n) |-> Added(amounts, sums, s)]
    OBVIOUS
  <2>3. CASE n = 0
    <3>1. UpTo(n) = {{}}
      BY <1>1, <1>3, <2>3
    <3>2. PICK sums : sums = [s \in UpTo(n) |-> 0]
      OBVIOUS
    <3>3. \A s \in UpTo(n) : Added(amounts, sums, s) = 0
      BY <3>1 DEF Added
    <3>4. sums = [s \in UpTo(n) |-> Added(amounts, sums, s)]
      BY <3>2, <3>3
    <3> QED BY <2>2, <3>4
  <2>4. CASE n # 0
    <3>0. n - 1 \in Nat /\ ~(n =< n - 1)
      BY <2>2, <2>4
    <3>1. n - 1 \in Nat /\ n - 1 \notin Lack
      <4> HIDE DEF Lack
      <4> QED BY <2>1, <3>0
    <3>2. PICK less : less = [s \in UpTo(n - 1) |-> Added(amounts, less, s)]
      BY <3>1
    <3>3. PICK sums : sums = [s \in UpTo(n) |-> Added(amounts, less, s)]
      OBVIOUS
    <3>4. \A s \in UpTo(n - 1) : s \in UpTo(n) /\ sums[s] = less[s]
      <4>1. UpTo(n - 1) \subseteq UpTo(n)
        BY <1>1, <2>2
      <4> HIDE DEF UpTo
      <4> QED BY <3>2, <3>3, <4>1
    <3>5. \A s \in UpTo(n) : s # {} => s \ {Picked(s)} \in UpTo(n - 1)
      BY <1>1, <1>2, <2>2
    <3>6. \A s \in UpTo(n) : Added(amounts, sums, s) = Added(amounts, less, s)
      <4> HIDE DEF UpTo
      <4> QED BY <3>4, <3>5 DEF Added
    <3>7. sums = [s \in UpTo(n) |-> Added(amounts, sums, s)]
      <4> HIDE DEF UpTo
      <4> QED BY <3>3, <3>6
    <3> QED BY <2>2, <3>7
  <2> QED BY <2>3, <2>4
<1>5. PICK n \in Nat : n = Cardinality(keys)
  BY <1>1
<1>6. UpTo(n) = SUBSET keys
  BY <1>5, FS_Subset
<1>7. \E sums : sums = [s \in UpTo(n) |-> Added(amounts, sums, s)]
  BY <1>4
<1> HIDE DEF UpTo
<1> QED BY <1>6, <1>7

\* So a sum is an amount and the sum of the others.
LEMMA SumsAdd ==
    ASSUME NEW keys, IsFiniteSet(keys), NEW amounts
    PROVE  \A s \in SUBSET keys : Sums(amounts, keys)[s] = Added(amounts, Sums(amounts, keys), s)
<1>1. Sums(amounts, keys) = [s \in SUBSET keys |-> Added(amounts, Sums(amounts, keys), s)]
  BY SumsExist DEF Sums
<1> QED BY <1>1

\* What holds of no keys, and of some keys when it holds without the one that is
\* picked next, holds of all sets of keys.
LEMMA KeyByKey ==
    ASSUME NEW keys, IsFiniteSet(keys), NEW good, {} \in good,
           \A s \in SUBSET keys : s # {} /\ s \ {Picked(s)} \in good => s \in good
    PROVE  keys \in good
<1>1. \A s \in SUBSET keys : IsFiniteSet(s) /\ Cardinality(s) \in Nat
  BY FS_Subset, FS_CardinalityType
<1> DEFINE Wrong == {n \in Nat : \E s \in SUBSET keys : Cardinality(s) = n /\ s \notin good}
<1>2. Wrong = {}
  <2> SUFFICES ASSUME Wrong # {} PROVE FALSE
    OBVIOUS
  <2>1. PICK n \in Wrong : \A m \in Wrong : n =< m
    <3>1. Wrong \subseteq Nat
      OBVIOUS
    <3> HIDE DEF Wrong
    <3> QED BY <3>1, Least
  <2>2. PICK s \in SUBSET keys : Cardinality(s) = n /\ s \notin good
    OBVIOUS
  <2>3. PICK x : x = Picked(s)
    OBVIOUS
  <2>4. s # {} /\ x \in s
    <3>1. s # {}
      BY <2>2
    <3> QED BY <2>3, <3>1 DEF Picked
  <2>5. PICK t : t = s \ {x}
    OBVIOUS
  <2>6. t \in SUBSET keys /\ Cardinality(t) = n - 1 /\ n - 1 \in Nat
    <3>1. IsFiniteSet(t) /\ Cardinality(t) \in Nat
      BY <1>1, <2>5
    <3> QED BY <1>1, <2>2, <2>4, <2>5, <3>1, FS_RemoveElement
  <2>7. n - 1 \notin Wrong
    <3>1. ~(n =< n - 1)
      BY <2>6
    <3> HIDE DEF Wrong
    <3> QED BY <2>1, <3>1
  <2>8. t \in good
    BY <2>6, <2>7
  <2> QED BY <2>2, <2>3, <2>4, <2>5, <2>8
<1>3. Cardinality(keys) \notin Wrong /\ Cardinality(keys) \in Nat
  BY <1>1, <1>2
<1> QED BY <1>3

\* Sums of amounts are amounts.
LEMMA SumsNat ==
    ASSUME NEW amounts \in [Keys -> Nat]
    PROVE  Sums(amounts, Keys)[Keys] \in Nat
<1> DEFINE Good == {s \in SUBSET Keys : Sums(amounts, Keys)[s] \in Nat}
<1>1. {} \in Good
  <2>1. Sums(amounts, Keys)[{}] = 0
    BY KeysAssumption, SumsAdd DEF Added
  <2> QED BY <2>1
<1>2. ASSUME NEW s \in SUBSET Keys, s # {}, s \ {Picked(s)} \in Good PROVE s \in Good
  <2>1. Picked(s) \in Keys
    BY <1>2 DEF Picked
  <2>2. Sums(amounts, Keys)[s] = amounts[Picked(s)] + Sums(amounts, Keys)[s \ {Picked(s)}]
    BY <1>2, KeysAssumption, SumsAdd DEF Added
  <2> QED BY <1>2, <2>1, <2>2
<1> HIDE DEF Good
<1>3. Keys \in Good
  BY <1>1, <1>2, KeysAssumption, KeyByKey
<1> QED BY <1>3 DEF Good

\* Nothing adds up to nothing.
LEMMA NothingAddsUp ==
    ASSUME NEW amounts, amounts = [k \in Keys |-> 0]
    PROVE  Sums(amounts, Keys)[Keys] = 0
<1> DEFINE Good == {s \in SUBSET Keys : Sums(amounts, Keys)[s] = 0}
<1>1. {} \in Good
  BY KeysAssumption, SumsAdd DEF Added
<1>2. ASSUME NEW s \in SUBSET Keys, s # {}, s \ {Picked(s)} \in Good PROVE s \in Good
  <2>1. Picked(s) \in Keys
    BY <1>2 DEF Picked
  <2>2. Sums(amounts, Keys)[s] = amounts[Picked(s)] + Sums(amounts, Keys)[s \ {Picked(s)}]
    BY <1>2, KeysAssumption, SumsAdd DEF Added
  <2> QED BY <1>2, <2>1, <2>2
<1> HIDE DEF Good
<1>3. Keys \in Good
  BY <1>1, <1>2, KeysAssumption, KeyByKey
<1> QED BY <1>3 DEF Good

\* A key that gets its amount adds it to the sum.
LEMMA SumsGrow ==
    ASSUME NEW amounts \in [Keys -> Nat], NEW key \in Keys, NEW amount \in Nat, amounts[key] = 0,
           NEW more, more = [amounts EXCEPT ![key] = amount]
    PROVE  Sums(more, Keys)[Keys] = Sums(amounts, Keys)[Keys] + amount
<1> DEFINE Good == {s \in SUBSET Keys :
                      /\ Sums(amounts, Keys)[s] \in Nat
                      /\ Sums(more, Keys)[s] = Sums(amounts, Keys)[s] + (IF key \in s THEN amount ELSE 0)}
<1>1. {} \in Good
  <2>1. Sums(amounts, Keys)[{}] = 0 /\ Sums(more, Keys)[{}] = 0
    BY KeysAssumption, SumsAdd DEF Added
  <2> QED BY <2>1
<1>2. ASSUME NEW s \in SUBSET Keys, s # {}, s \ {Picked(s)} \in Good PROVE s \in Good
  <2>1. PICK x : x = Picked(s)
    OBVIOUS
  <2>2. x \in s /\ x \in Keys
    BY <1>2, <2>1 DEF Picked
  <2>3. PICK t : t = s \ {x}
    OBVIOUS
  <2>4. /\ Sums(amounts, Keys)[s] = amounts[x] + Sums(amounts, Keys)[t]
        /\ Sums(more, Keys)[s] = more[x] + Sums(more, Keys)[t]
    <3>1. \A some \in {amounts, more} : Sums(some, Keys)[s] = Added(some, Sums(some, Keys), s)
      BY KeysAssumption, SumsAdd
    <3> QED BY <1>2, <2>1, <2>3, <3>1 DEF Added
  <2>5. /\ Sums(amounts, Keys)[t] \in Nat
        /\ Sums(more, Keys)[t] = Sums(amounts, Keys)[t] + (IF key \in t THEN amount ELSE 0)
    BY <1>2, <2>1, <2>3
  <2>6. CASE x = key
    BY <2>2, <2>3, <2>4, <2>5, <2>6
  <2>7. CASE x # key
    BY <2>2, <2>3, <2>4, <2>5, <2>7
  <2> QED BY <2>6, <2>7
<1> HIDE DEF Good
<1>3. Keys \in Good
  BY <1>1, <1>2, KeysAssumption, KeyByKey
<1> QED BY <1>3 DEF Good

\* The strengthening.
MoneyInv == TypeOK /\ MoneyAddsUp /\ RefundsWithinPaid

\* What the books say, in sums.
LEMMA BooksAsSums ==
    /\ MoneyAddsUp <=> paid_total = Sums(payment, Keys)[Keys]
    /\ MoneyAddsUp' <=> paid_total' = Sums(payment', Keys)[Keys]
    /\ Refunded = Sums(returned, Keys)[Keys]
    /\ Refunded' = Sums(returned', Keys)[Keys]
<1>1. MapThenSumSet(LAMBDA k : payment[k], Keys) = Sums(payment, Keys)[Keys]
  BY SumIsSums
<1>2. MapThenSumSet(LAMBDA k : returned[k], Keys) = Sums(returned, Keys)[Keys]
  BY SumIsSums
<1>3. MoneyAddsUp <=> paid_total = Sums(payment, Keys)[Keys]
  BY <1>1 DEF MoneyAddsUp
<1>4. MoneyAddsUp' <=> paid_total' = Sums(payment', Keys)[Keys]
  BY DEF MoneyAddsUp, MapThenSumSet, MapThenFoldSet, Sums, Added, Picked
<1>5. Refunded = Sums(returned, Keys)[Keys]
  BY <1>2 DEF Refunded
<1>6. Refunded' = Sums(returned', Keys)[Keys]
  BY DEF Refunded, MapThenSumSet, MapThenFoldSet, Sums, Added, Picked
<1> QED BY <1>3, <1>4, <1>5, <1>6

\* No money has moved at first.
LEMMA MoneyInit == Init => MoneyInv
<1> SUFFICES ASSUME Init PROVE MoneyInv
  OBVIOUS
<1>1. Sums(payment, Keys)[Keys] = 0 /\ Sums(returned, Keys)[Keys] = 0
  BY NothingAddsUp DEF Init
<1> QED BY <1>1, BooksAsSums, TypeInit DEF Init, MoneyInv, RefundsWithinPaid

\* A payment adds its amount to one row and to the total, a refund what is left at most.
LEMMA MoneyNext == MoneyInv /\ [Next]_vars => MoneyInv'
<1> SUFFICES ASSUME MoneyInv, [Next]_vars PROVE MoneyInv'
  OBVIOUS
<1>1. TypeOK /\ TypeOK'
  BY TypeNext DEF MoneyInv
<1>2. /\ payment \in [Keys -> Nat] /\ returned \in [Keys -> Nat]
      /\ paid_total \in Nat /\ Amounts \subseteq Nat
  BY <1>1, TotalAssumption DEF TypeOK, Amounts
<1>3. ASSUME payment' = payment, returned' = returned, paid_total' = paid_total PROVE MoneyInv'
  BY <1>1, <1>3, BooksAsSums DEF MoneyInv, RefundsWithinPaid
<1>4. ASSUME NEW w \in Workers, NEW k \in Keys, NEW amount \in Amounts, Pay(w, k, amount)
      PROVE  MoneyInv'
  <2>1. payment[k] = 0 /\ amount \in Nat
    BY <1>2, <1>4 DEF Pay, CanPay
  <2>2. payment' = [payment EXCEPT ![k] = amount]
    BY <1>4 DEF Pay
  <2>3. Sums(payment', Keys)[Keys] = Sums(payment, Keys)[Keys] + amount
    BY <1>2, <2>1, <2>2, SumsGrow, SumsNat
  <2>4. paid_total' = paid_total + amount /\ returned' = returned
    BY <1>4 DEF Pay
  <2>5. Sums(returned, Keys)[Keys] \in Nat
    BY <1>2, SumsNat
  <2>6. RefundsWithinPaid'
    BY <1>2, <2>1, <2>4, <2>5, BooksAsSums DEF MoneyInv, RefundsWithinPaid
  <2>7. MoneyAddsUp'
    BY <2>3, <2>4, BooksAsSums DEF MoneyInv
  <2> QED BY <1>1, <2>6, <2>7 DEF MoneyInv
<1>5. ASSUME NEW w \in Workers, NEW k \in Keys, NEW amount \in Amounts, Refund(w, k, amount)
      PROVE  MoneyInv'
  <2>1. returned[k] = 0 /\ amount \in Nat /\ amount + Refunded <= paid_total
    BY <1>2, <1>5 DEF Refund, CanRefund
  <2>2. returned' = [returned EXCEPT ![k] = amount]
    BY <1>5 DEF Refund
  <2>3. /\ Sums(returned, Keys)[Keys] \in Nat
        /\ Sums(returned', Keys)[Keys] = Sums(returned, Keys)[Keys] + amount
    BY <1>2, <2>1, <2>2, SumsGrow, SumsNat
  <2>4. paid_total' = paid_total /\ payment' = payment
    BY <1>5 DEF Refund
  <2>5. RefundsWithinPaid'
    BY <1>2, <2>1, <2>3, <2>4, BooksAsSums DEF RefundsWithinPaid
  <2>6. MoneyAddsUp'
    BY <2>4, BooksAsSums DEF MoneyInv
  <2> QED BY <1>1, <2>5, <2>6 DEF MoneyInv
<1>6. ASSUME NEW l \in Lines, NEW state \in LineStatus, EditLine(l, state) PROVE MoneyInv'
  BY <1>3, <1>6 DEF EditLine
<1>7. CASE Fire
  BY <1>3, <1>7 DEF Fire
<1>8. ASSUME NEW t \in Tickets, NEW target \in TicketStatus, MoveTicket(t, target)
      PROVE  MoneyInv'
  BY <1>3, <1>8 DEF MoveTicket, books
<1>9. ASSUME NEW w \in Workers, NEW k \in Keys, NEW amount \in Amounts,
             AskPayment(w, k, amount) \/ AskRefund(w, k, amount) \/ AskVoid(w)
      PROVE  MoneyInv'
  BY <1>3, <1>9 DEF AskPayment, AskRefund, AskVoid, Start, books
<1>10. ASSUME NEW w \in Workers, AskVoid(w) \/ Void(w) \/ GiveUp(w) PROVE MoneyInv'
  BY <1>3, <1>10 DEF AskVoid, Start, Void, GiveUp, books
<1>11. CASE UNCHANGED vars
  BY <1>3, <1>11 DEF vars, books
<1> QED BY <1>4, <1>5, <1>6, <1>7, <1>8, <1>9, <1>10, <1>11 DEF Next

\* payments/services.py, take_payment and refund: whatever requests race for the lock, the paid total is the sum of the payments, and no more is refunded than was paid.
THEOREM MoneyHolds == Spec => [](MoneyAddsUp /\ RefundsWithinPaid)
<1>1. MoneyInv => MoneyAddsUp /\ RefundsWithinPaid
  BY DEF MoneyInv
<1> QED BY <1>1, MoneyInit, MoneyNext, PTL DEF Spec

-----------------------------------------------------------------------------
(* The bill: what the terminal folds is what the server enters.            *)

\* How a fold is computed: the largest index is taken off.
Folded(first, seq, folds, s) ==
    IF s = {} THEN first ELSE apply(folds[s \ {Max(s)}], seq[Max(s)])
FoldsOf(first, seq) ==
    CHOOSE folds : folds = [s \in SUBSET DOMAIN seq |-> Folded(first, seq, folds, s)]

\* The fold is that of the recursive function.
LEMMA FoldIsFolds ==
    ASSUME NEW first, NEW seq
    PROVE  FoldLeft(apply, first, seq) = FoldsOf(first, seq)[DOMAIN seq]
BY DEF FoldLeft, MapThenFoldSet, FoldsOf, Folded

\* Some indices have a largest.
LEMMA LastOf ==
    ASSUME NEW n \in Nat, NEW s \in SUBSET (1 .. n), s # {}
    PROVE  Max(s) \in s /\ \A y \in s : Max(s) >= y
<1> DEFINE Left == {m \in Nat : \E x \in s : m = n - x}
<1>1. Left \subseteq Nat
  OBVIOUS
<1>2. Left # {}
  <2>1. PICK x \in s : TRUE
    OBVIOUS
  <2>2. x \in 1 .. n
    OBVIOUS
  <2>3. n - x \in Left
    BY <2>2
  <2> QED BY <2>3
<1>3. PICK m \in Left : \A l \in Left : m =< l
  <2> HIDE DEF Left
  <2> QED BY <1>1, <1>2, Least
<1>4. PICK x \in s : m = n - x
  OBVIOUS
<1>5. ASSUME NEW y \in s PROVE x >= y
  <2>1. x \in 1 .. n /\ y \in 1 .. n
    BY <1>4
  <2>2. n - y \in Left
    BY <2>1
  <2>3. m =< n - y
    BY <1>3, <2>2
  <2> QED BY <1>4, <2>1, <2>3
<1> QED BY <1>5 DEF Max

\* There is such a function: for one index more, the event there is applied.
LEMMA FoldsExist ==
    ASSUME NEW first, NEW seq, NEW n \in Nat, DOMAIN seq = 1 .. n
    PROVE  \E folds : folds = [s \in SUBSET DOMAIN seq |-> Folded(first, seq, folds, s)]
<1>1. \A s \in SUBSET (1 .. n) : IsFiniteSet(s) /\ Cardinality(s) \in Nat
  <2>1. IsFiniteSet(1 .. n)
    BY FS_Interval
  <2> QED BY <2>1, FS_Subset, FS_CardinalityType
<1>2. \A s \in SUBSET (1 .. n) : s # {} =>
         /\ Max(s) \in s /\ s \ {Max(s)} \in SUBSET (1 .. n)
         /\ Cardinality(s \ {Max(s)}) = Cardinality(s) - 1
  BY <1>1, FS_RemoveElement, LastOf
<1>3. \A s \in SUBSET (1 .. n) : Cardinality(s) = 0 <=> s = {}
  BY <1>1, FS_EmptySet
<1> DEFINE UpTo(m) == {s \in SUBSET (1 .. n) : Cardinality(s) =< m}
           Lack == {m \in Nat : ~\E folds : folds = [s \in UpTo(m) |-> Folded(first, seq, folds, s)]}
<1>4. Lack = {}
  <2> SUFFICES ASSUME Lack # {} PROVE FALSE
    OBVIOUS
  <2>1. PICK m \in Lack : \A k \in Lack : m =< k
    <3>1. Lack \subseteq Nat
      OBVIOUS
    <3> HIDE DEF Lack
    <3> QED BY <3>1, Least
  <2>2. m \in Nat /\ ~\E folds : folds = [s \in UpTo(m) |-> Folded(first, seq, folds, s)]
    OBVIOUS
  <2>3. CASE m = 0
    <3>1. UpTo(m) = {{}}
      BY <1>1, <1>3, <2>3
    <3>2. PICK folds : folds = [s \in UpTo(m) |-> first]
      OBVIOUS
    <3>3. \A s \in UpTo(m) : Folded(first, seq, folds, s) = first
      BY <3>1 DEF Folded
    <3>4. folds = [s \in UpTo(m) |-> Folded(first, seq, folds, s)]
      BY <3>2, <3>3
    <3> QED BY <2>2, <3>4
  <2>4. CASE m # 0
    <3>1. m - 1 \in Nat /\ ~(m =< m - 1)
      BY <2>2, <2>4
    <3>2. m - 1 \notin Lack
      <4> HIDE DEF Lack
      <4> QED BY <2>1, <3>1
    <3>3. PICK less : less = [s \in UpTo(m - 1) |-> Folded(first, seq, less, s)]
      BY <3>1, <3>2
    <3>4. PICK folds : folds = [s \in UpTo(m) |-> Folded(first, seq, less, s)]
      OBVIOUS
    <3>5. \A s \in UpTo(m - 1) : s \in UpTo(m) /\ folds[s] = less[s]
      <4>1. UpTo(m - 1) \subseteq UpTo(m)
        BY <1>1, <2>2
      <4> HIDE DEF UpTo
      <4> QED BY <3>3, <3>4, <4>1
    <3>6. \A s \in UpTo(m) : s # {} => s \ {Max(s)} \in UpTo(m - 1)
      BY <1>1, <1>2, <2>2
    <3>7. \A s \in UpTo(m) : Folded(first, seq, folds, s) = Folded(first, seq, less, s)
      <4> HIDE DEF UpTo
      <4> QED BY <3>5, <3>6 DEF Folded
    <3>8. folds = [s \in UpTo(m) |-> Folded(first, seq, folds, s)]
      <4> HIDE DEF UpTo
      <4> QED BY <3>4, <3>7
    <3> QED BY <2>2, <3>8
  <2> QED BY <2>3, <2>4
<1>5. Cardinality(1 .. n) = n
  BY FS_Interval
<1>6. UpTo(n) = SUBSET (1 .. n)
  <2>1. \A s \in SUBSET (1 .. n) : Cardinality(s) =< n
    <3>1. IsFiniteSet(1 .. n)
      BY FS_Interval
    <3> QED BY <1>5, <3>1, FS_Subset
  <2> QED BY <2>1
<1>7. \E folds : folds = [s \in UpTo(n) |-> Folded(first, seq, folds, s)]
  BY <1>4
<1> HIDE DEF UpTo
<1> QED BY <1>6, <1>7

\* So a fold applies an event to the fold of the others.
LEMMA FoldsFold ==
    ASSUME NEW first, NEW seq, NEW n \in Nat, DOMAIN seq = 1 .. n
    PROVE  \A s \in SUBSET (1 .. n) : FoldsOf(first, seq)[s] = Folded(first, seq, FoldsOf(first, seq), s)
<1>1. FoldsOf(first, seq) = [s \in SUBSET DOMAIN seq |-> Folded(first, seq, FoldsOf(first, seq), s)]
  BY FoldsExist DEF FoldsOf
<1> QED BY <1>1

\* What an order was after each event.
Traces(bills, first, seq, n) ==
    /\ DOMAIN seq = 1 .. n
    /\ bills[0] = first
    /\ \A i \in 1 .. n : bills[i] = apply(bills[i - 1], seq[i])

\* What the fold gives is what applying the events one by one gives.
LEMMA EventByEvent ==
    ASSUME NEW first, NEW seq, NEW n \in Nat, NEW bills, Traces(bills, first, seq, n)
    PROVE  FoldLeft(apply, first, seq) = bills[n]
<1> USE DEF Traces
<1>0. PICK folds : folds = FoldsOf(first, seq)
  OBVIOUS
<1> DEFINE Wrong == {i \in Nat : i =< n /\ folds[1 .. i] # bills[i]}
<1>1. \A s \in SUBSET (1 .. n) : folds[s] = Folded(first, seq, folds, s)
  BY <1>0, FoldsFold
<1>2. Wrong = {}
  <2> SUFFICES ASSUME Wrong # {} PROVE FALSE
    OBVIOUS
  <2>1. PICK i \in Wrong : \A k \in Wrong : i =< k
    <3>1. Wrong \subseteq Nat
      OBVIOUS
    <3> HIDE DEF Wrong
    <3> QED BY <3>1, Least
  <2>2. i \in Nat /\ i =< n /\ folds[1 .. i] # bills[i]
    OBVIOUS
  <2>3. 1 .. i \in SUBSET (1 .. n)
    BY <2>2
  <2>4. folds[1 .. i] = Folded(first, seq, folds, 1 .. i)
    BY <1>1, <2>3
  <2>5. CASE i = 0
    <3>1. 1 .. i = {}
      BY <2>5
    <3> QED BY <2>2, <2>4, <2>5, <3>1 DEF Folded
  <2>6. CASE i # 0
    <3>1. i - 1 \in Nat /\ ~(i =< i - 1) /\ i - 1 =< n /\ i \in 1 .. n /\ i \in 1 .. i
      <4>1. i \in Nat /\ i # 0 /\ i =< n
        BY <2>2, <2>6
      <4> HIDE DEF Wrong
      <4>2. i \in 1 .. i
        BY <4>1
      <4> QED BY <4>1, <4>2
    <3>2. i - 1 \notin Wrong
      <4> HIDE DEF Wrong
      <4> QED BY <2>1, <3>1
    <3>3. folds[1 .. (i - 1)] = bills[i - 1]
      BY <3>1, <3>2
    <3>4. Max(1 .. i) = i
      <4>1. Max(1 .. i) \in 1 .. i /\ \A y \in 1 .. i : Max(1 .. i) >= y
        BY <2>2, <3>1, LastOf
      <4>2. i \in 1 .. i
        BY <3>1
      <4> QED BY <2>2, <4>1, <4>2
    <3>5. (1 .. i) \ {i} = 1 .. (i - 1)
      BY <2>2
    <3>6. folds[1 .. i] = apply(bills[i - 1], seq[i])
      BY <2>4, <3>1, <3>3, <3>4, <3>5 DEF Folded
    <3> QED BY <2>2, <3>1, <3>6
  <2> QED BY <2>5, <2>6
<1>3. folds[1 .. n] = bills[n]
  BY <1>2
<1> QED BY <1>0, <1>3, FoldIsFolds

\* What the terminal records.
Additions == {Entry("ITEM_ADDED", None, [good |-> g, line |-> NewLine(p, x, q)]) :
                 g \in Goods, p \in Amount, x \in BOOLEAN, q \in Quantities}
Edits == [type : {"ITEM_QUANTITY_CHANGED"}, line : Nat, value : Quantities]
    \cup [type : {"ITEM_VOIDED"}, line : Nat, value : {TRUE}]
    \cup [type : {"ITEM_PRICE_OVERRIDDEN"}, line : Nat, value : Amount \cup {None}]
    \cup [type : {"DISCOUNT_APPLIED"}, line : Nat, value : 0 .. Whole]
Discounts == [type : {"DISCOUNT_APPLIED"}, line : {None}, value : 0 .. Whole]
Entries == Additions \cup Edits \cup Discounts

\* An event names a line that is there when it is recorded.
EventFits(e, bill) ==
    \/ e \in Additions /\ Len(bill.lines) < MaxLines
    \/ e \in Edits /\ e.line \in DOMAIN bill.lines
    \/ e \in Discounts

\* Two orders whose lines differ in what was looked up for them at most.
Alike(one, other) ==
    /\ one.discount_percent = other.discount_percent
    /\ Len(one.lines) = Len(other.lines)
    /\ \A i \in 1 .. Len(one.lines) :
          /\ one.lines[i].quantity = other.lines[i].quantity
          /\ one.lines[i].discount_percent = other.lines[i].discount_percent
          /\ one.lines[i].override = other.lines[i].override
          /\ one.lines[i].voided = other.lines[i].voided

\* The order as it was after each event.
Steps(bills) ==
    /\ bills \in [0 .. Len(events) -> ServerOrder]
    /\ bills[0] = NewOrder(quoted)
    /\ \A i \in 1 .. Len(events) :
          /\ Len(bills[i].lines) =< MaxLines
          /\ EventFits(events[i], bills[i - 1])
          /\ bills[i] = apply(bills[i - 1], events[i])
    /\ booked.rules # None => Alike(booked, bills[entered])

\* What the two orders and the events are made of.
BillTypes ==
    /\ shop \in Shop /\ mirror \in Shop
    /\ quoted \in RuleSets \cup {None}
    /\ events \in Seq(Entries) /\ Len(events) =< MaxEvents
    /\ entered \in 0 .. Len(events)
    /\ changes \in 0 .. MaxChanges
    /\ \/ booked = NewOrder(None) /\ entered = 0
       \/ booked \in ServerOrder /\ quoted # None

\* The strengthening.
BillInv ==
    /\ BillTypes
    /\ quoted = None => events = <<>>
    /\ quoted # None => \E bills : Steps(bills)

\* A line may be replaced by another.
LEMMA SetLine ==
    ASSUME NEW bill \in ServerOrder, NEW i \in DOMAIN bill.lines, NEW new \in BillLine
    PROVE  /\ [bill EXCEPT !.lines = [bill.lines EXCEPT ![i] = new]] \in ServerOrder
           /\ Len([bill.lines EXCEPT ![i] = new]) = Len(bill.lines)
BY DEF ServerOrder

\* Both sides change the line an event names, in the same way.
LEMMA Edited ==
    ASSUME NEW bill \in ServerOrder, NEW e \in Edits, e.line \in DOMAIN bill.lines
    PROVE  \E new \in BillLine :
              /\ apply(bill, e) = [bill EXCEPT !.lines = [bill.lines EXCEPT ![e.line] = new]]
              /\ handled(bill, e) = [bill EXCEPT !.lines = [bill.lines EXCEPT ![e.line] = new]]
              /\ \/ e.type = "ITEM_QUANTITY_CHANGED" /\ new = [bill.lines[e.line] EXCEPT !.quantity = e.value]
                 \/ e.type = "ITEM_VOIDED" /\ new = [bill.lines[e.line] EXCEPT !.voided = e.value]
                 \/ e.type = "ITEM_PRICE_OVERRIDDEN" /\ new = [bill.lines[e.line] EXCEPT !.override = e.value]
                 \/ e.type = "DISCOUNT_APPLIED" /\ new = [bill.lines[e.line] EXCEPT !.discount_percent = e.value]
<1>1. bill.lines[e.line] \in BillLine /\ e.line # None
  BY ShopAssumption DEF ServerOrder
<1>2. CASE e.type = "ITEM_QUANTITY_CHANGED"
  <2>1. PICK new : new = [bill.lines[e.line] EXCEPT !.quantity = e.value]
    OBVIOUS
  <2>2. new \in BillLine
    BY <1>1, <1>2, <2>1 DEF Edits, BillLine
  <2>3. apply(bill, e) = [bill EXCEPT !.lines = [bill.lines EXCEPT ![e.line] = new]]
    BY <1>2, <2>1 DEF apply, Edit
  <2>4. handled(bill, e) = [bill EXCEPT !.lines = [bill.lines EXCEPT ![e.line] = new]]
    BY <1>2, <2>1 DEF handled, quantity_changed
  <2> QED BY <1>2, <2>1, <2>2, <2>3, <2>4
<1>3. CASE e.type = "ITEM_VOIDED"
  <2>1. PICK new : new = [bill.lines[e.line] EXCEPT !.voided = e.value]
    OBVIOUS
  <2>2. new \in BillLine /\ e.value = TRUE
    BY <1>1, <1>3, <2>1 DEF Edits, BillLine
  <2>3. apply(bill, e) = [bill EXCEPT !.lines = [bill.lines EXCEPT ![e.line] = new]]
    BY <1>3, <2>1 DEF apply, Edit
  <2>4. handled(bill, e) = [bill EXCEPT !.lines = [bill.lines EXCEPT ![e.line] = new]]
    BY <1>3, <2>1, <2>2 DEF handled, item_voided
  <2> QED BY <1>3, <2>1, <2>2, <2>3, <2>4
<1>4. CASE e.type = "ITEM_PRICE_OVERRIDDEN"
  <2>1. PICK new : new = [bill.lines[e.line] EXCEPT !.override = e.value]
    OBVIOUS
  <2>2. new \in BillLine
    BY <1>1, <1>4, <2>1 DEF Edits, BillLine
  <2>3. apply(bill, e) = [bill EXCEPT !.lines = [bill.lines EXCEPT ![e.line] = new]]
    BY <1>4, <2>1 DEF apply, Edit
  <2>4. handled(bill, e) = [bill EXCEPT !.lines = [bill.lines EXCEPT ![e.line] = new]]
    BY <1>4, <2>1 DEF handled, price_overridden
  <2> QED BY <1>4, <2>1, <2>2, <2>3, <2>4
<1>5. CASE e.type = "DISCOUNT_APPLIED"
  <2>1. PICK new : new = [bill.lines[e.line] EXCEPT !.discount_percent = e.value]
    OBVIOUS
  <2>2. new \in BillLine
    BY <1>1, <1>5, <2>1 DEF Edits, BillLine
  <2>3. apply(bill, e) = [bill EXCEPT !.lines = [bill.lines EXCEPT ![e.line] = new]]
    BY <1>1, <1>5, <2>1 DEF apply, Edit
  <2>4. handled(bill, e) = [bill EXCEPT !.lines = [bill.lines EXCEPT ![e.line] = new]]
    BY <1>1, <1>5, <2>1 DEF handled, discount_applied
  <2> QED BY <1>5, <2>1, <2>2, <2>3, <2>4
<1> QED BY <1>2, <1>3, <1>4, <1>5 DEF Edits

\* Both sides add a line that differs in the price and the tax at most.
LEMMA AddedLines ==
    ASSUME NEW one, NEW other, NEW e \in Additions, shop \in Shop
    PROVE  \E here, there \in BillLine :
              /\ apply(other, e) = [other EXCEPT !.lines = Append(other.lines, here)]
              /\ handled(one, e) = [one EXCEPT !.lines = Append(one.lines, there)]
              /\ here.quantity = there.quantity /\ here.discount_percent = there.discount_percent
              /\ here.override = there.override /\ here.voided = there.voided
<1>1. PICK g \in Goods, p \in Amount, x \in BOOLEAN, q \in Quantities :
         e = Entry("ITEM_ADDED", None, [good |-> g, line |-> NewLine(p, x, q)])
  BY DEF Additions
<1>2. PICK here : here = NewLine(p, x, q)
  OBVIOUS
<1>3. PICK info : info = shop.goods[g]
  OBVIOUS
<1>4. info \in [price : Amount, channel : Amount \cup {None}, exempt : BOOLEAN]
  BY <1>3, ShopAssumption DEF Shop
<1>5. PICK there : there = NewLine(price_for(info), info.exempt, q)
  OBVIOUS
<1>6. here \in BillLine /\ there \in BillLine
  BY <1>2, <1>4, <1>5, WholeAssumption DEF NewLine, BillLine, price_for, Amount
<1>7. e.type = "ITEM_ADDED" /\ e.value.line = here /\ e.value.good = g /\ here.quantity = q
  BY <1>1, <1>2 DEF Entry, NewLine
<1>8. apply(other, e) = [other EXCEPT !.lines = Append(other.lines, here)]
  BY <1>7 DEF apply
<1>9. handled(one, e) = [one EXCEPT !.lines = Append(one.lines, there)]
  BY <1>3, <1>5, <1>7 DEF handled, item_added
<1> QED BY <1>2, <1>5, <1>6, <1>8, <1>9 DEF NewLine

\* Both sides set the same percentage.
LEMMA Discounted ==
    ASSUME NEW bill \in ServerOrder, NEW e \in Discounts
    PROVE  /\ e.value \in 0 .. Whole
           /\ apply(bill, e) = [bill EXCEPT !.discount_percent = e.value]
           /\ handled(bill, e) = [bill EXCEPT !.discount_percent = e.value]
BY DEF Discounts, apply, handled, discount_applied

\* An event leaves an order.
LEMMA Applied ==
    ASSUME NEW bill \in ServerOrder, NEW e, EventFits(e, bill), shop \in Shop,
           Len(bill.lines) =< MaxLines
    PROVE  apply(bill, e) \in ServerOrder /\ Len(apply(bill, e).lines) =< MaxLines
<1>0. bill.lines \in Seq(BillLine)
  BY DEF ServerOrder
<1>1. CASE e \in Additions /\ Len(bill.lines) < MaxLines
  <2>1. PICK here \in BillLine : apply(bill, e) = [bill EXCEPT !.lines = Append(bill.lines, here)]
    BY <1>1, AddedLines
  <2>2. Append(bill.lines, here) \in Seq(BillLine) /\ Len(Append(bill.lines, here)) = Len(bill.lines) + 1
    BY <1>0
  <2>3. MaxLines \in Nat /\ Len(bill.lines) \in Nat
    BY <1>0, ShopAssumption
  <2>4. Len(Append(bill.lines, here)) =< MaxLines
    BY <1>1, <2>2, <2>3
  <2> QED BY <2>1, <2>2, <2>4 DEF ServerOrder
<1>2. CASE e \in Edits /\ e.line \in DOMAIN bill.lines
  <2>1. PICK new \in BillLine :
           apply(bill, e) = [bill EXCEPT !.lines = [bill.lines EXCEPT ![e.line] = new]]
    BY <1>2, Edited
  <2>2. PICK i : i = e.line
    OBVIOUS
  <2>3. /\ [bill EXCEPT !.lines = [bill.lines EXCEPT ![i] = new]] \in ServerOrder
        /\ Len([bill.lines EXCEPT ![i] = new]) = Len(bill.lines)
    BY <1>2, <2>2, SetLine
  <2>4. [bill EXCEPT !.lines = [bill.lines EXCEPT ![i] = new]].lines = [bill.lines EXCEPT ![i] = new]
    BY DEF ServerOrder
  <2> QED BY <2>1, <2>2, <2>3, <2>4
<1>3. CASE e \in Discounts
  BY <1>3, Discounted DEF ServerOrder
<1> QED BY <1>1, <1>2, <1>3 DEF EventFits

\* Orders that are alike stay so when both take the same event.
LEMMA HandledAlike ==
    ASSUME NEW one \in ServerOrder, NEW other \in ServerOrder, Alike(one, other),
           NEW e, EventFits(e, other), shop \in Shop
    PROVE  /\ handled(one, e) \in ServerOrder
           /\ Alike(handled(one, e), apply(other, e))
<1>0. /\ one.lines \in Seq(BillLine) /\ other.lines \in Seq(BillLine)
      /\ Len(one.lines) = Len(other.lines)
  BY DEF ServerOrder, Alike
<1>1. CASE e \in Additions
  <2>1. PICK here, there \in BillLine :
              /\ apply(other, e) = [other EXCEPT !.lines = Append(other.lines, here)]
              /\ handled(one, e) = [one EXCEPT !.lines = Append(one.lines, there)]
              /\ here.quantity = there.quantity /\ here.discount_percent = there.discount_percent
              /\ here.override = there.override /\ here.voided = there.voided
    BY <1>1, AddedLines
  <2>2. PICK left, right : left = Append(one.lines, there) /\ right = Append(other.lines, here)
    OBVIOUS
  <2>3. /\ left \in Seq(BillLine) /\ Len(left) = Len(one.lines) + 1 /\ Len(right) = Len(left)
        /\ \A i \in 1 .. Len(one.lines) : left[i] = one.lines[i] /\ right[i] = other.lines[i]
        /\ left[Len(one.lines) + 1] = there /\ right[Len(one.lines) + 1] = here
    BY <1>0, <2>2
  <2>4. /\ handled(one, e) = [one EXCEPT !.lines = left]
        /\ apply(other, e) = [other EXCEPT !.lines = right]
    BY <2>1, <2>2
  <2>5. /\ handled(one, e).lines = left /\ handled(one, e).discount_percent = one.discount_percent
        /\ apply(other, e).lines = right /\ apply(other, e).discount_percent = other.discount_percent
    BY <2>4 DEF ServerOrder
  <2>6. handled(one, e) \in ServerOrder
    BY <2>3, <2>4 DEF ServerOrder
  <2>7. ASSUME NEW i \in 1 .. Len(left)
        PROVE  /\ left[i].quantity = right[i].quantity
               /\ left[i].discount_percent = right[i].discount_percent
               /\ left[i].override = right[i].override
               /\ left[i].voided = right[i].voided
    <3>1. CASE i = Len(one.lines) + 1
      BY <2>1, <2>3, <3>1
    <3>2. CASE i # Len(one.lines) + 1
      <4>1. i \in 1 .. Len(one.lines)
        BY <1>0, <2>3, <3>2
      <4> QED BY <2>3, <4>1 DEF Alike
    <3> QED BY <3>1, <3>2
  <2> QED BY <2>3, <2>5, <2>6, <2>7 DEF Alike
<1>2. CASE e \in Edits /\ e.line \in DOMAIN other.lines
  <2>0. PICK k : k = e.line
    OBVIOUS
  <2>1. k \in DOMAIN one.lines /\ k \in 1 .. Len(one.lines)
    BY <1>0, <1>2, <2>0
  <2>2. PICK there \in BillLine :
              /\ handled(one, e) = [one EXCEPT !.lines = [one.lines EXCEPT ![k] = there]]
              /\ \/ e.type = "ITEM_QUANTITY_CHANGED" /\ there = [one.lines[k] EXCEPT !.quantity = e.value]
                 \/ e.type = "ITEM_VOIDED" /\ there = [one.lines[k] EXCEPT !.voided = e.value]
                 \/ e.type = "ITEM_PRICE_OVERRIDDEN" /\ there = [one.lines[k] EXCEPT !.override = e.value]
                 \/ e.type = "DISCOUNT_APPLIED" /\ there = [one.lines[k] EXCEPT !.discount_percent = e.value]
    BY <1>2, <2>0, <2>1, Edited
  <2>3. PICK here \in BillLine :
              /\ apply(other, e) = [other EXCEPT !.lines = [other.lines EXCEPT ![k] = here]]
              /\ \/ e.type = "ITEM_QUANTITY_CHANGED" /\ here = [other.lines[k] EXCEPT !.quantity = e.value]
                 \/ e.type = "ITEM_VOIDED" /\ here = [other.lines[k] EXCEPT !.voided = e.value]
                 \/ e.type = "ITEM_PRICE_OVERRIDDEN" /\ here = [other.lines[k] EXCEPT !.override = e.value]
                 \/ e.type = "DISCOUNT_APPLIED" /\ here = [other.lines[k] EXCEPT !.discount_percent = e.value]
    BY <1>2, <2>0, Edited
  <2>4. one.lines[k] \in BillLine /\ other.lines[k] \in BillLine
    BY <1>0, <2>1
  <2>5. /\ one.lines[k].quantity = other.lines[k].quantity
        /\ one.lines[k].discount_percent = other.lines[k].discount_percent
        /\ one.lines[k].override = other.lines[k].override
        /\ one.lines[k].voided = other.lines[k].voided
    BY <2>1 DEF Alike
  <2>6. /\ here.quantity = there.quantity /\ here.discount_percent = there.discount_percent
        /\ here.override = there.override /\ here.voided = there.voided
    BY <2>2, <2>3, <2>4, <2>5 DEF BillLine
  <2>7. PICK left, right : /\ left = [one.lines EXCEPT ![k] = there]
                           /\ right = [other.lines EXCEPT ![k] = here]
    OBVIOUS
  <2>8. /\ left \in Seq(BillLine) /\ Len(left) = Len(one.lines) /\ Len(right) = Len(left)
        /\ \A i \in 1 .. Len(one.lines) :
              IF i = k THEN left[i] = there /\ right[i] = here
                       ELSE left[i] = one.lines[i] /\ right[i] = other.lines[i]
    BY <1>0, <2>1, <2>7
  <2>9. /\ handled(one, e) = [one EXCEPT !.lines = left]
        /\ apply(other, e) = [other EXCEPT !.lines = right]
    BY <2>2, <2>3, <2>7
  <2>10. /\ handled(one, e).lines = left /\ handled(one, e).discount_percent = one.discount_percent
         /\ apply(other, e).lines = right /\ apply(other, e).discount_percent = other.discount_percent
    BY <2>9 DEF ServerOrder
  <2>11. handled(one, e) \in ServerOrder
    BY <2>8, <2>9 DEF ServerOrder
  <2>12. ASSUME NEW i \in 1 .. Len(left)
        PROVE  /\ left[i].quantity = right[i].quantity
               /\ left[i].discount_percent = right[i].discount_percent
               /\ left[i].override = right[i].override
               /\ left[i].voided = right[i].voided
    BY <2>6, <2>8 DEF Alike
  <2> QED BY <2>8, <2>10, <2>11, <2>12 DEF Alike
<1>3. CASE e \in Discounts
  BY <1>3, Discounted DEF ServerOrder, Alike
<1> QED BY <1>1, <1>2, <1>3 DEF EventFits

\* Nothing is ordered at first.
LEMMA BillStarts == BillInit => BillInv
<1> SUFFICES ASSUME BillInit PROVE BillInv
  OBVIOUS
<1>1. /\ shop \in Shop /\ mirror = shop /\ quoted = None /\ events = <<>>
      /\ booked = NewOrder(None) /\ entered = 0 /\ changes = 0
  BY ShopAssumption DEF BillInit
<1>2. MaxEvents \in Nat /\ MaxChanges \in Nat
  BY ShopAssumption
<1>3. Len(<<>>) = 0 /\ <<>> \in Seq(Entries)
  OBVIOUS
<1>4. BillTypes
  BY <1>1, <1>2, <1>3 DEF BillTypes
<1> QED BY <1>1, <1>4 DEF BillInv

\* The fold is the order after the last event.
LEMMA FoldIsLast ==
    ASSUME BillTypes, NEW bills, Steps(bills)
    PROVE  fold = bills[Len(events)]
<1>1. events \in Seq(Entries) /\ Len(events) \in Nat /\ DOMAIN events = 1 .. Len(events)
  BY DEF BillTypes
<1>2. bills[0] = NewOrder(quoted) /\ \A i \in 1 .. Len(events) : bills[i] = apply(bills[i - 1], events[i])
  BY DEF Steps
<1>3. PICK n, seq, first : n = Len(events) /\ seq = events /\ first = NewOrder(quoted)
  OBVIOUS
<1>4. n \in Nat /\ DOMAIN seq = 1 .. n
  BY <1>1, <1>3
<1>5. bills[0] = first /\ \A i \in 1 .. n : bills[i] = apply(bills[i - 1], seq[i])
  BY <1>2, <1>3
<1>6. FoldLeft(apply, first, seq) = bills[n]
  <2>1. Traces(bills, first, seq, n)
    BY <1>4, <1>5 DEF Traces
  <2> QED BY <1>4, <2>1, EventByEvent
<1> QED BY <1>3, <1>6 DEF fold

\* An order that is not open has no lines.
LEMMA NothingStands ==
    ASSUME BillInv, quoted = None
    PROVE  Standing = {}
<1>1. PICK seq, first, bills : seq = <<>> /\ first = NewOrder(None) /\ bills = [i \in {0} |-> first]
  OBVIOUS
<1>2. DOMAIN seq = 1 .. 0
  BY <1>1
<1>3. Traces(bills, first, seq, 0)
  BY <1>1, <1>2 DEF Traces
<1>4. FoldLeft(apply, first, seq) = bills[0]
  BY <1>3, EventByEvent
<1>5. fold = NewOrder(None)
  BY <1>1, <1>4 DEF fold, BillInv
<1> QED BY <1>5 DEF Standing, Unvoided, NewOrder

\* What the fold gives is an order.
LEMMA LastFits ==
    ASSUME BillTypes, NEW bills, Steps(bills)
    PROVE  fold \in ServerOrder /\ Len(fold.lines) =< MaxLines
<1>1. Len(events) \in Nat /\ bills[Len(events)] \in ServerOrder
  BY DEF BillTypes, Steps
<1>2. CASE Len(events) = 0
  <2>1. bills[Len(events)].lines = <<>>
    BY <1>2 DEF Steps, NewOrder
  <2> QED BY <1>1, <2>1, FoldIsLast, ShopAssumption
<1>3. CASE Len(events) # 0
  <2>1. Len(events) \in 1 .. Len(events)
    BY <1>1, <1>3
  <2>2. Len(bills[Len(events)].lines) =< MaxLines
    BY <2>1 DEF Steps
  <2> QED BY <1>1, <2>2, FoldIsLast
<1> QED BY <1>2, <1>3

\* A new event keeps the invariant.
LEMMA Recorded ==
    ASSUME BillInv, quoted # None, NEW e \in Entries, EventFits(e, fold), Record(e)
    PROVE  BillInv'
<1>1. PICK bills : Steps(bills)
  BY DEF BillInv
<1>2. /\ BillTypes /\ fold = bills[Len(events)]
      /\ fold \in ServerOrder /\ Len(fold.lines) =< MaxLines
  BY <1>1, FoldIsLast, LastFits DEF BillInv
<1>3. /\ events \in Seq(Entries) /\ Len(events) \in Nat /\ shop \in Shop
      /\ entered \in 0 .. Len(events)
  BY <1>2 DEF BillTypes
<1>4. PICK n : n = Len(events)
  OBVIOUS
<1>5. /\ events' \in Seq(Entries) /\ Len(events') = n + 1
      /\ events'[n + 1] = e
      /\ \A i \in 1 .. n : events'[i] = events[i]
  BY <1>3, <1>4 DEF Record
<1>6. PICK next : next = apply(bills[n], e)
  OBVIOUS
<1>7. next \in ServerOrder /\ Len(next.lines) =< MaxLines
  BY <1>2, <1>3, <1>4, <1>6, Applied
<1>8. PICK more : more = [i \in 0 .. (n + 1) |-> IF i =< n THEN bills[i] ELSE next]
  OBVIOUS
<1>9. \A i \in 0 .. n : more[i] = bills[i] /\ bills[i] \in ServerOrder
  <2>1. bills \in [0 .. n -> ServerOrder]
    BY <1>1, <1>4 DEF Steps
  <2>2. 0 .. n \subseteq 0 .. (n + 1) /\ \A i \in 0 .. n : i =< n
    BY <1>3, <1>4
  <2> QED BY <1>8, <2>1, <2>2
<1>10. more[n + 1] = next
  BY <1>3, <1>4, <1>8
<1>11. more \in [0 .. Len(events') -> ServerOrder]
  BY <1>3, <1>4, <1>5, <1>7, <1>8, <1>9
<1>12. /\ shop' = shop /\ mirror' = mirror /\ quoted' = quoted /\ booked' = booked
       /\ entered' = entered /\ changes' = changes /\ Len(events) < MaxEvents
  BY DEF Record
<1>13. more[0] = NewOrder(quoted')
  BY <1>1, <1>3, <1>4, <1>9, <1>12 DEF Steps
<1>14. ASSUME NEW i \in 1 .. Len(events')
       PROVE  /\ Len(more[i].lines) =< MaxLines
              /\ EventFits(events'[i], more[i - 1])
              /\ more[i] = apply(more[i - 1], events'[i])
  <2>1. CASE i = n + 1
    <3>1. more[i - 1] = bills[n] /\ fold = bills[n]
      BY <1>2, <1>3, <1>4, <1>9, <2>1
    <3> QED BY <1>5, <1>6, <1>7, <1>10, <2>1, <3>1
  <2>2. CASE i # n + 1
    <3>1. i \in 1 .. n /\ i \in 0 .. n /\ i - 1 \in 0 .. n
      BY <1>3, <1>4, <1>5, <2>2
    <3>2. more[i - 1] = bills[i - 1] /\ more[i] = bills[i] /\ events'[i] = events[i]
      BY <1>5, <1>9, <3>1
    <3> QED BY <1>1, <1>4, <3>1, <3>2 DEF Steps
  <2> QED BY <2>1, <2>2
<1>15. booked'.rules # None => Alike(booked', more[entered'])
  BY <1>1, <1>3, <1>4, <1>9, <1>12 DEF Steps
<1>16. Steps(more)'
  BY <1>11, <1>13, <1>14, <1>15 DEF Steps
<1>17. BillTypes'
  <2>1. Len(events') =< MaxEvents /\ entered' \in 0 .. Len(events')
    BY <1>3, <1>4, <1>5, <1>12, ShopAssumption
  <2> QED BY <1>2, <1>5, <1>12, <2>1 DEF BillTypes
<1> QED BY <1>12, <1>16, <1>17 DEF BillInv

\* So does every other step.
LEMMA BillSteps == BillInv /\ [BillNext]_billVars => BillInv'
<1> SUFFICES ASSUME BillInv, [BillNext]_billVars PROVE BillInv'
  OBVIOUS
<1>1. /\ BillTypes /\ events \in Seq(Entries) /\ Len(events) \in Nat
      /\ shop \in Shop /\ mirror \in Shop /\ entered \in 0 .. Len(events)
  BY DEF BillInv, BillTypes
<1>2. \A bill \in ServerOrder : bill.rules # None /\ DOMAIN bill.lines \subseteq Nat
  BY ShopAssumption DEF ServerOrder
<1>3. NewOrder(None).rules = None
  BY DEF NewOrder
<1>4. quoted # None => fold \in ServerOrder
  BY <1>1, LastFits DEF BillInv
<1>5. CASE OpenBill
  <2>1. /\ quoted' = mirror.rules /\ quoted = None /\ events' = <<>> /\ booked' = NewOrder(None)
        /\ entered' = 0 /\ shop' = shop /\ mirror' = mirror /\ changes' = changes
    BY <1>1, <1>5 DEF OpenBill, BillInv, BillTypes
  <2>2. mirror.rules \in RuleSets /\ Len(<<>>) = 0 /\ <<>> \in Seq(Entries)
    BY <1>1 DEF Shop
  <2>3. BillTypes'
    BY <1>1, <2>1, <2>2, ShopAssumption DEF BillTypes
  <2>4. PICK bills : bills = [i \in 0 .. 0 |-> NewOrder(mirror.rules)]
    OBVIOUS
  <2>5. NewOrder(mirror.rules) \in ServerOrder
    BY <2>2, WholeAssumption DEF NewOrder, ServerOrder
  <2>6. Steps(bills)'
    BY <1>3, <2>1, <2>2, <2>4, <2>5 DEF Steps
  <2>7. quoted' # None
    BY <2>1, <2>2, ShopAssumption
  <2> QED BY <2>3, <2>6, <2>7 DEF BillInv
<1>6. ASSUME NEW good \in Goods, NEW quantity \in Quantities, AddToBill(good, quantity)
      PROVE  BillInv'
  <2>1. PICK e : e = Entry("ITEM_ADDED", None, [good |-> good,
                       line |-> NewLine(mirror.goods[good].price, mirror.goods[good].exempt, quantity)])
    OBVIOUS
  <2>2. mirror.goods[good] \in [price : Amount, channel : Amount \cup {None}, exempt : BOOLEAN]
    BY <1>1, ShopAssumption DEF Shop
  <2>3. mirror.goods[good].price \in Amount /\ mirror.goods[good].exempt \in BOOLEAN
    BY <2>2
  <2>4. e \in Additions
    BY <2>1, <2>3 DEF Additions
  <2>5. Record(e) /\ quoted # None /\ EventFits(e, fold)
    BY <1>6, <2>1, <2>4 DEF AddToBill, EventFits
  <2> QED BY <2>4, <2>5, Recorded DEF Entries
<1>7. ASSUME NEW i \in Standing, NEW e \in Edits, e.line = i, Record(e)
      PROVE  BillInv'
  <2>1. quoted # None
    BY NothingStands
  <2> QED BY <1>7, <2>1, Recorded DEF Standing, Unvoided, EventFits, Entries
<1>8. Standing \subseteq Nat
  BY <1>2, <1>4, NothingStands DEF Standing, Unvoided
<1>9. ASSUME NEW i \in Standing, NEW quantity \in Quantities, ChangeQuantity(i, quantity) PROVE BillInv'
  <2>1. PICK e : e = Entry("ITEM_QUANTITY_CHANGED", i, quantity)
    OBVIOUS
  <2>2. e \in Edits /\ e.line = i
    BY <1>8, <2>1 DEF Edits, Entry
  <2> QED BY <1>7, <1>9, <2>1, <2>2 DEF ChangeQuantity
<1>10. ASSUME NEW i \in Standing, VoidOnBill(i) PROVE BillInv'
  <2>1. PICK e : e = Entry("ITEM_VOIDED", i, TRUE)
    OBVIOUS
  <2>2. e \in Edits /\ e.line = i
    BY <1>8, <2>1 DEF Edits, Entry
  <2> QED BY <1>7, <1>10, <2>1, <2>2 DEF VoidOnBill
<1>11. ASSUME NEW i \in Standing, NEW price \in Overrides \cup {None}, OverridePrice(i, price) PROVE BillInv'
  <2>1. PICK e : e = Entry("ITEM_PRICE_OVERRIDDEN", i, price)
    OBVIOUS
  <2>2. price \in Amount \cup {None}
    BY ShopAssumption
  <2>3. e \in Edits /\ e.line = i
    BY <1>8, <2>1, <2>2 DEF Edits, Entry
  <2> QED BY <1>7, <1>11, <2>1, <2>3 DEF OverridePrice
<1>12. ASSUME NEW i \in Standing, NEW percent \in LinePercents, ApplyDiscount(i, percent) PROVE BillInv'
  <2>1. PICK e : e = Entry("DISCOUNT_APPLIED", i, percent)
    OBVIOUS
  <2>2. percent \in 0 .. Whole
    BY ShopAssumption
  <2>3. e \in Edits /\ e.line = i
    BY <1>8, <2>1, <2>2 DEF Edits, Entry
  <2> QED BY <1>7, <1>12, <2>1, <2>3 DEF ApplyDiscount
<1>13. ASSUME NEW percent \in OrderPercents, quoted # None, ApplyDiscount(None, percent) PROVE BillInv'
  <2>1. PICK e : e = Entry("DISCOUNT_APPLIED", None, percent)
    OBVIOUS
  <2>2. percent \in 0 .. Whole
    BY ShopAssumption
  <2>3. e \in Discounts
    BY <2>1, <2>2 DEF Discounts, Entry
  <2> QED BY <1>13, <2>1, <2>3, Recorded DEF ApplyDiscount, EventFits, Entries
<1>14. CASE Pull
  <2>1. BillTypes'
    BY <1>1, <1>14 DEF Pull, BillTypes
  <2> QED BY <1>14, <2>1 DEF Pull, BillInv, Steps
<1>15. CASE OpenOnServer
  <2>1. /\ quoted # None /\ booked = NewOrder(None) /\ entered = 0 /\ booked' = NewOrder(shop.rules)
        /\ UNCHANGED <<shop, mirror, quoted, events, entered, changes>>
    BY <1>1, <1>2, <1>15 DEF OpenOnServer, BillTypes
  <2>2. shop.rules \in RuleSets
    BY <1>1 DEF Shop
  <2>3. booked' \in ServerOrder
    BY <2>1, <2>2, WholeAssumption DEF NewOrder, ServerOrder
  <2>4. BillTypes'
    BY <1>1, <2>1, <2>3 DEF BillTypes
  <2>5. PICK bills : Steps(bills)
    BY <2>1 DEF BillInv
  <2>6. Alike(booked', bills[0])
    BY <2>1, <2>5 DEF Steps, NewOrder, Alike
  <2>7. Steps(bills)'
    BY <2>1, <2>5, <2>6 DEF Steps
  <2> QED BY <2>1, <2>4, <2>7 DEF BillInv
<1>16. CASE Enter
  <2>1. /\ booked.rules # None /\ entered < Len(events) /\ entered' = entered + 1
        /\ booked' = handled(booked, events[entered + 1])
        /\ UNCHANGED <<shop, mirror, quoted, events, changes>>
    BY <1>16 DEF Enter
  <2>2. booked \in ServerOrder /\ quoted # None
    BY <1>1, <1>3, <2>1 DEF BillTypes
  <2>3. PICK bills : Steps(bills)
    BY <2>2 DEF BillInv
  <2>4. PICK n, e : n = entered + 1 /\ e = events[n]
    OBVIOUS
  <2>5. n \in 1 .. Len(events) /\ entered \in 0 .. Len(events) /\ n - 1 = entered
    BY <1>1, <2>1, <2>4
  <2>6. /\ EventFits(e, bills[entered]) /\ bills[n] = apply(bills[entered], e)
        /\ bills[entered] \in ServerOrder /\ Alike(booked, bills[entered])
    BY <2>1, <2>3, <2>4, <2>5 DEF Steps
  <2>7. handled(booked, e) \in ServerOrder /\ Alike(handled(booked, e), bills[n])
    BY <1>1, <2>2, <2>6, HandledAlike
  <2>8. booked' \in ServerOrder /\ Alike(booked', bills[entered'])
    BY <2>1, <2>4, <2>7
  <2>9. Steps(bills)'
    BY <2>1, <2>3, <2>8 DEF Steps
  <2>10. entered' \in 0 .. Len(events')
    BY <1>1, <2>1
  <2>11. BillTypes'
    BY <1>1, <2>1, <2>2, <2>8, <2>10 DEF BillTypes
  <2> QED BY <2>1, <2>2, <2>9, <2>11 DEF BillInv
<1>17. ASSUME NEW new \in Shop, Change(new) PROVE BillInv'
  <2>1. changes' \in 0 .. MaxChanges
    BY <1>1, <1>17, ShopAssumption DEF Change, BillTypes
  <2>2. BillTypes'
    BY <1>1, <1>17, <2>1 DEF Change, BillTypes
  <2> QED BY <1>17, <2>2 DEF Change, BillInv, Steps
<1>18. ASSUME NEW goods \in Menus, ChangeMenu(goods) PROVE BillInv'
  <2>1. [shop EXCEPT !.goods = goods] \in Shop
    BY <1>1 DEF Shop
  <2> QED BY <1>17, <1>18, <2>1 DEF ChangeMenu
<1>19. ASSUME NEW rules \in RuleSets, ChangeRules(rules) PROVE BillInv'
  <2>1. [shop EXCEPT !.rules = rules] \in Shop
    BY <1>1 DEF Shop
  <2> QED BY <1>17, <1>19, <2>1 DEF ChangeRules
<1>20. CASE UNCHANGED billVars
  <2>1. BillTypes'
    BY <1>1, <1>20 DEF billVars, BillTypes
  <2> QED BY <1>20, <2>1 DEF billVars, BillInv, Steps
<1> QED BY <1>5, <1>6, <1>9, <1>10, <1>11, <1>12, <1>13, <1>14, <1>15, <1>16, <1>18, <1>19, <1>20
        DEF BillNext

\* When all is entered and nothing was looked up differently, the lines are the same.
LEMMA SameLines ==
    ASSUME NEW one \in ServerOrder, NEW other \in ServerOrder, Alike(one, other),
           \A i \in DOMAIN one.lines :
              /\ one.lines[i].unit_price = other.lines[i].unit_price
              /\ one.lines[i].tax_exempt = other.lines[i].tax_exempt
    PROVE  one.lines = other.lines
<1>1. /\ one.lines \in Seq(BillLine) /\ other.lines \in Seq(BillLine)
      /\ Len(one.lines) = Len(other.lines)
  BY DEF ServerOrder, Alike
<1>2. ASSUME NEW i \in 1 .. Len(one.lines) PROVE one.lines[i] = other.lines[i]
  <2>1. one.lines[i] \in BillLine /\ other.lines[i] \in BillLine /\ i \in DOMAIN one.lines
    BY <1>1
  <2>2. /\ one.lines[i].quantity = other.lines[i].quantity
        /\ one.lines[i].discount_percent = other.lines[i].discount_percent
        /\ one.lines[i].override = other.lines[i].override
        /\ one.lines[i].voided = other.lines[i].voided
    BY DEF Alike
  <2>3. /\ one.lines[i].unit_price = other.lines[i].unit_price
        /\ one.lines[i].tax_exempt = other.lines[i].tax_exempt
    BY <2>1
  <2> QED BY <2>1, <2>2, <2>3 DEF BillLine
<1> QED BY <1>1, <1>2

\* What the invariant says.
LEMMA BillTold == BillInv => BillTypeOK /\ BillsAgreeUnlessRepriced
<1> SUFFICES ASSUME BillInv PROVE BillTypeOK /\ BillsAgreeUnlessRepriced
  OBVIOUS
<1>1. BillTypes
  BY DEF BillInv
<1>2. ASSUME booked.rules # None
      PROVE  /\ booked \in ServerOrder /\ Len(booked.lines) =< MaxLines
             /\ AllEntered /\ ~Repriced => till_totals = booked_totals
  <2>1. booked \in ServerOrder /\ quoted # None
    BY <1>1, <1>2 DEF BillTypes, NewOrder
  <2>2. PICK bills : Steps(bills)
    BY <2>1 DEF BillInv
  <2>3. Alike(booked, bills[entered]) /\ bills[entered] \in ServerOrder
    BY <1>1, <1>2, <2>2 DEF Steps, BillTypes
  <2>4. Len(bills[entered].lines) =< MaxLines
    <3>1. CASE entered = 0
      <4>1. bills[entered].lines = <<>>
        BY <2>2, <3>1 DEF Steps, NewOrder
      <4> QED BY <4>1, ShopAssumption
    <3>2. CASE entered # 0
      <4>1. entered \in 1 .. Len(events)
        BY <1>1, <3>2 DEF BillTypes
      <4> QED BY <2>2, <4>1 DEF Steps
    <3> QED BY <3>1, <3>2
  <2>5. Len(booked.lines) =< MaxLines
    BY <2>3, <2>4 DEF Alike
  <2>6. ASSUME AllEntered, ~Repriced PROVE till_totals = booked_totals
    <3>1. fold = bills[entered]
      BY <1>1, <2>2, <2>6, FoldIsLast DEF AllEntered
    <3>2. booked.rules = quoted /\ booked.discount_percent = fold.discount_percent
      BY <2>3, <2>6, <3>1 DEF Repriced, Alike
    <3>3. \A i \in DOMAIN booked.lines :
              /\ booked.lines[i].unit_price = fold.lines[i].unit_price
              /\ booked.lines[i].tax_exempt = fold.lines[i].tax_exempt
      BY <2>6 DEF Repriced
    <3>4. booked.lines = fold.lines
      BY <2>1, <2>3, <3>1, <3>3, SameLines
    <3>5. Charged(fold.lines, folded_unit_price) = Charged(booked.lines, effective_unit_price)
      BY <3>4 DEF Charged, folded_unit_price, effective_unit_price
    <3> QED BY <3>2, <3>5 DEF till_totals, till_lines, booked_totals
  <2> QED BY <2>1, <2>5, <2>6
<1>3. BillTypeOK
  <2>1. booked.rules \in RuleSets \cup {None}
    BY <1>1 DEF BillTypes, ServerOrder, NewOrder
  <2> QED BY <1>1, <1>2, <2>1 DEF BillTypes, BillTypeOK
<1>4. BillsAgreeUnlessRepriced
  BY <1>2 DEF BillsAgreeUnlessRepriced, AllEntered
<1> QED BY <1>3, <1>4

\* fold.py and orders/services.py: once the server has entered what the terminal recorded, the two bills agree in every figure, unless the server looked up another price or rule.
THEOREM BillsAgree == BillSpec => [](BillTypeOK /\ BillsAgreeUnlessRepriced)
BY BillStarts, BillSteps, BillTold, PTL DEF BillSpec

-----------------------------------------------------------------------------
(* Roundings: amounts that are within half of an error of each other.      *)

Within(a, b, error) == 2 * a - 2 * b =< error /\ 2 * b - 2 * a =< error

\* Errors add up along a chain, and in a sum.
LEMMA WithinChain ==
    ASSUME NEW a \in Int, NEW b \in Int, NEW c \in Int, NEW e \in Int, NEW f \in Int,
           Within(a, b, e), Within(b, c, f)
    PROVE  Within(a, c, e + f)
BY DEF Within

LEMMA WithinSum ==
    ASSUME NEW a \in Int, NEW b \in Int, NEW c \in Int, NEW d \in Int, NEW e \in Int, NEW f \in Int,
           Within(a, b, e), Within(c, d, f)
    PROVE  Within(a + c, b + d, e + f)
BY DEF Within

LEMMA WithinWider ==
    ASSUME NEW a \in Int, NEW b \in Int, NEW e \in Int, NEW f \in Int, Within(a, b, e), e =< f
    PROVE  Within(a, b, f)
BY DEF Within

\* A product of natural numbers is one, and grows with its factors.
LEMMA Products ==
    ASSUME NEW m \in Nat, NEW n \in Nat, NEW k \in Nat, m =< n
    PROVE  m * k \in Nat /\ n * k \in Nat /\ m * k =< n * k
<1>1. PICK d \in Nat : n = m + d
  <2>1. n - m \in Nat /\ n = m + (n - m)
    OBVIOUS
  <2> QED BY <2>1
<1>2. n * k = m * k + d * k
  BY <1>1
<1>3. m * k \in Nat /\ d * k \in Nat
  BY <1>1
<1> QED BY <1>2, <1>3

\* An error grows with what is multiplied.
LEMMA WithinTimes ==
    ASSUME NEW a \in Int, NEW b \in Int, NEW e \in Nat, NEW c \in Nat, Within(a, b, e)
    PROVE  Within(c * a, c * b, c * e)
<1>1. PICK x \in Nat, y \in Nat : e = 2 * a - 2 * b + x /\ e = 2 * b - 2 * a + y
  <2>1. /\ e - (2 * a - 2 * b) \in Nat /\ e = 2 * a - 2 * b + (e - (2 * a - 2 * b))
        /\ e - (2 * b - 2 * a) \in Nat /\ e = 2 * b - 2 * a + (e - (2 * b - 2 * a))
    BY DEF Within
  <2> QED BY <2>1
<1>2. /\ c * e = c * (2 * a - 2 * b + x)
      /\ c * e = c * (2 * b - 2 * a + y)
  BY <1>1
<1>3. /\ c * (2 * a - 2 * b + x) = 2 * (c * a) - 2 * (c * b) + c * x
      /\ c * (2 * b - 2 * a + y) = 2 * (c * b) - 2 * (c * a) + c * y
  OBVIOUS
<1>4. c * x \in Nat /\ c * y \in Nat
  BY Products
<1>5. c * a \in Int /\ c * b \in Int
  OBVIOUS
<1> QED BY <1>2, <1>3, <1>4, <1>5 DEF Within

\* What holds of multiples holds of what was multiplied.
LEMMA WithinDivided ==
    ASSUME NEW a \in Int, NEW b \in Int, NEW e \in Int, NEW n \in Nat \ {0},
           Within(n * a, n * b, n * e)
    PROVE  Within(a, b, e)
<1>1. ASSUME NEW d \in Int, n * d >= 0 PROVE d >= 0
  <2>1. CASE d < 0
    <3>1. PICK m \in Nat \ {0} : d = -m
      <4>1. -d \in Nat \ {0} /\ d = -(-d)
        BY <2>1
      <4> QED BY <4>1
    <3>2. n * d = -(n * m) /\ n * m > 0
      BY <3>1
    <3> QED BY <1>1, <3>2
  <2> QED BY <2>1
<1>2. /\ n * (e - 2 * a + 2 * b) = n * e - 2 * (n * a) + 2 * (n * b)
      /\ n * (e - 2 * b + 2 * a) = n * e - 2 * (n * b) + 2 * (n * a)
  OBVIOUS
<1>3. n * (e - 2 * a + 2 * b) >= 0 /\ n * (e - 2 * b + 2 * a) >= 0
  <2>1. n * a \in Int /\ n * b \in Int /\ n * e \in Int
    OBVIOUS
  <2> QED BY <1>2, <2>1 DEF Within
<1>4. e - 2 * a + 2 * b >= 0 /\ e - 2 * b + 2 * a >= 0
  BY <1>1, <1>3
<1> QED BY <1>4 DEF Within

\* A quotient lies below what is divided, by less than the divisor.
LEMMA Quotient ==
    \A x, n \in Int : n > 0 /\ x >= 0 =>
        /\ x \div n \in Nat
        /\ (x \div n) * n =< x /\ x < (x \div n) * n + n
<1>1. \A x, n \in Int : n > 0 => x \div n \in Int
  OBVIOUS
<1>2. \A x, n \in Int : n > 0 => (x \div n) * n =< x /\ x < (x \div n) * n + n
  OBVIOUS
<1>3. \A x, n \in Int : n > 0 /\ x >= 0 => x \div n >= 0
  OBVIOUS
<1> QED BY <1>1, <1>2, <1>3

\* A quotient is rounded to within half, and nothing to nothing.
LEMMA RoundedIsWithin ==
    ASSUME NEW n \in Nat, NEW d \in Nat \ {0}
    PROVE  /\ Rounded(n, d) \in Nat
           /\ Within(d * Rounded(n, d), n, d)
           /\ n = 0 => Rounded(n, d) = 0
<1>1. PICK m \in Nat, k \in Nat \ {0} : m = 2 * n + d /\ k = 2 * d
  OBVIOUS
<1>2. PICK r : r = m \div k
  OBVIOUS
<1>3. r \in Nat /\ k * r =< m /\ m < k * r + k
  <2>1. r \in Nat /\ r * k =< m /\ m < r * k + k
    <3>1. m \in Int /\ m >= 0 /\ k \in Int /\ k > 0
      OBVIOUS
    <3> QED BY <1>2, <3>1, Quotient
  <2>2. r * k = k * r
    BY <2>1
  <2> QED BY <2>1, <2>2
<1>4. Rounded(n, d) = r
  BY <1>1, <1>2 DEF Rounded
<1>5. k * r = 2 * (d * r) /\ d * r \in Nat
  BY <1>1, <1>3
<1>6. Within(d * r, n, d)
  BY <1>1, <1>3, <1>5 DEF Within
<1>7. n = 0 => r = 0
  <2>1. SUFFICES ASSUME n = 0, r # 0 PROVE FALSE
    OBVIOUS
  <2>2. d =< d * r
    <3>1. 1 =< r
      BY <1>3, <2>1
    <3>2. 1 * d =< r * d
      BY <1>3, <3>1, Products
    <3> QED BY <3>2, <1>3
  <2> QED BY <1>1, <1>3, <1>5, <2>1, <2>2
<1> QED BY <1>3, <1>4, <1>6, <1>7

\* A percentage is a part, and what is left of it is within half a piaster, or exact.
LEMMA PercentIsPart ==
    ASSUME NEW n \in Nat, NEW p \in 0 .. Whole
    PROVE  /\ percent_of(n, p) \in 0 .. n
           /\ n - percent_of(n, p) \in Nat
           /\ Within(Whole * (n - percent_of(n, p)), n * Rest(p), IF p > 0 THEN Whole ELSE 0)
<1> USE WholeAssumption
<1>1. PICK r : r = percent_of(n, p)
  OBVIOUS
<1>2. n * p \in Nat /\ n * p =< n * Whole /\ n * Whole \in Nat
  <2>1. p * n \in Nat /\ p * n =< Whole * n /\ Whole * n \in Nat
    BY Products
  <2> QED BY <2>1
<1>3. r \in Nat /\ Within(Whole * r, n * p, Whole) /\ (n * p = 0 => r = 0)
  BY <1>1, <1>2, RoundedIsWithin DEF percent_of
<1>4. r =< n
  <2>1. SUFFICES ASSUME n + 1 =< r PROVE FALSE
    BY <1>3
  <2>2. (n + 1) * Whole =< r * Whole
    BY <1>3, <2>1, Products
  <2>3. n * Whole + Whole =< Whole * r /\ Whole * r \in Nat
    BY <1>3, <2>2
  <2> QED BY <1>2, <1>3, <2>3 DEF Within
<1>5. Whole * (n - r) = n * Whole - Whole * r /\ n * Rest(p) = n * Whole - n * p
  BY <1>3 DEF Rest
<1>6. Whole * r \in Nat
  BY <1>3
<1>7. Within(Whole * (n - r), n * Rest(p), Whole)
  BY <1>2, <1>3, <1>5, <1>6 DEF Within
<1>8. p = 0 => Within(Whole * (n - r), n * Rest(p), 0)
  <2>1. SUFFICES ASSUME p = 0 PROVE Within(Whole * (n - r), n * Rest(p), 0)
    OBVIOUS
  <2>2. n * p = 0 /\ r = 0
    BY <1>3, <2>1
  <2>3. Whole * r = 0
    BY <2>2
  <2> QED BY <1>2, <1>5, <2>2, <2>3 DEF Within
<1>9. r \in 0 .. n /\ n - r \in Nat
  BY <1>3, <1>4
<1> QED BY <1>1, <1>7, <1>8, <1>9

-----------------------------------------------------------------------------
(* The lines.                                                              *)

\* What recalculate hands on of a line.
ChargedLine ==
    [unit_price : Nat, tax_exempt : BOOLEAN, quantity : Nat, discount_percent : 0 .. Whole,
     override : Amount \cup {None}, voided : BOOLEAN]

Slack(p) == IF p > 0 THEN Whole ELSE 0

\* A line is rounded once, and its discount if it has one.
LineSlack(p) == Portion * (Whole + Slack(p))

LEMMA LineIsWithin ==
    ASSUME NEW sold \in ChargedLine, NEW w, w = Portion * Whole
    PROVE  /\ NetOf(sold) \in Nat /\ ExactNetOf(sold) \in Nat
           /\ TaxableNetOf(sold) \in 0 .. NetOf(sold) /\ ExactTaxableOf(sold) \in Nat
           /\ Within(w * NetOf(sold), ExactNetOf(sold), LineSlack(sold.discount_percent))
           /\ Within(w * TaxableNetOf(sold), ExactTaxableOf(sold), LineSlack(sold.discount_percent))
<1> USE WholeAssumption
<1>1. PICK m, n, p, net : /\ m = sold.unit_price * sold.quantity /\ n = Rounded(m, Portion)
                          /\ p = sold.discount_percent /\ net = n - percent_of(n, p)
  OBVIOUS
<1>2. m \in Nat /\ p \in 0 .. Whole
  <2>1. sold.unit_price \in Nat /\ sold.quantity \in Nat /\ sold.discount_percent \in 0 .. Whole
    BY DEF ChargedLine
  <2>2. sold.unit_price * sold.quantity \in Nat
    BY <2>1, Products
  <2> QED BY <1>1, <2>1, <2>2
<1>3. n \in Nat /\ Within(Portion * n, m, Portion)
  BY <1>1, <1>2, RoundedIsWithin
<1>4. NetOf(sold) = net
  BY <1>1 DEF NetOf, compute_line
<1>5. PICK z, d : z = Rest(p) /\ d = Slack(p)
  OBVIOUS
<1>6. z \in Nat /\ z =< Whole /\ d \in Nat
  BY <1>2, <1>5 DEF Rest, Slack
<1>7. net \in Nat /\ Within(Whole * net, n * z, d)
  BY <1>1, <1>2, <1>3, <1>5, PercentIsPart DEF Slack
<1>8. ExactNetOf(sold) = m * z /\ m * z \in Nat
  BY <1>1, <1>2, <1>5, <1>6, Products DEF ExactNetOf
<1>9. Within(w * net, m * z, Portion * (Whole + d))
  <2>1. Whole * net \in Int /\ n * z \in Int /\ Portion * n \in Int
    BY <1>3, <1>6, <1>7
  <2>2. Within(Portion * (Whole * net), Portion * (n * z), Portion * d)
    BY <1>6, <1>7, <2>1, WithinTimes
  <2>3. Within(z * (Portion * n), z * m, z * Portion)
    <3>1. PICK one : one = Portion * n
      OBVIOUS
    <3>2. one \in Int /\ m \in Int /\ Portion \in Nat /\ z \in Nat /\ Within(one, m, Portion)
      BY <1>2, <1>3, <1>6, <2>1, <3>1
    <3>3. Within(z * one, z * m, z * Portion)
      BY <3>2, WithinTimes
    <3> QED BY <3>1, <3>3
  <2>4. z * Portion =< Whole * Portion /\ z * Portion \in Int /\ Whole * Portion \in Int
    BY <1>6, Products
  <2>5. /\ Portion * (Whole * net) = w * net /\ Portion * (n * z) = z * (Portion * n)
        /\ z * m = m * z /\ Portion * d + Whole * Portion = Portion * (Whole + d)
    BY <1>2, <1>3, <1>6, <1>7
  <2>6. /\ Portion * (Whole * net) \in Int /\ z * (Portion * n) \in Int /\ z * m \in Int
        /\ Portion * d \in Int
    BY <1>2, <1>3, <1>6, <1>7
  <2>7. Within(z * (Portion * n), z * m, Whole * Portion)
    BY <2>3, <2>4, <2>6, WithinWider
  <2>8. Within(Portion * (Whole * net), z * m, Portion * d + Whole * Portion)
    BY <2>2, <2>4, <2>5, <2>6, <2>7, WithinChain
  <2> QED BY <2>5, <2>8
<1>10. LineSlack(p) = Portion * (Whole + d) /\ LineSlack(p) \in Nat
  <2>1. Portion * (Whole + d) \in Nat
    BY <1>6, Products
  <2> QED BY <1>5, <2>1 DEF LineSlack
<1>11. CASE sold.tax_exempt
  <2>1. TaxableNetOf(sold) = 0 /\ ExactTaxableOf(sold) = 0 /\ w * 0 = 0
    BY <1>11 DEF TaxableNetOf, ExactTaxableOf
  <2>2. Within(0, 0, LineSlack(p))
    BY <1>10 DEF Within
  <2> QED BY <1>1, <1>4, <1>7, <1>8, <1>9, <1>10, <2>1, <2>2
<1>12. CASE ~sold.tax_exempt
  <2>1. TaxableNetOf(sold) = net /\ ExactTaxableOf(sold) = m * z
    BY <1>4, <1>8, <1>12 DEF TaxableNetOf, ExactTaxableOf
  <2> QED BY <1>1, <1>4, <1>7, <1>8, <1>9, <1>10, <2>1
<1> QED BY <1>11, <1>12

\* The lines of a bill that are discounted.
DiscountedIn(lines, s) == {i \in s : lines[i].discount_percent > 0}
Rounds(lines, s) == Cardinality(s) + Cardinality(DiscountedIn(lines, s))

\* What the lines add up to is within half a piaster for each line and discount.
LEMMA LinesAddUp ==
    ASSUME NEW keys, IsFiniteSet(keys), NEW lines \in [keys -> ChargedLine],
           NEW n, n = SumOver(NetOf, lines), NEW e, e = SumOver(ExactNetOf, lines),
           NEW t, t = SumOver(TaxableNetOf, lines), NEW x, x = SumOver(ExactTaxableOf, lines),
           NEW k, k = Rounds(lines, keys),
           NEW w, w = Portion * Whole
    PROVE  /\ n \in Nat /\ e \in Nat /\ t \in Nat /\ x \in Nat /\ k \in Nat /\ t =< n
           /\ Within(w * n, e, w * k) /\ Within(w * t, x, w * k)
<1> USE WholeAssumption
<1>0. w \in Nat
  BY Products
<1> HIDE WholeAssumption
<1>1. PICK net, exact, taxed, due :
         /\ net = [i \in keys |-> NetOf(lines[i])] /\ exact = [i \in keys |-> ExactNetOf(lines[i])]
         /\ taxed = [i \in keys |-> TaxableNetOf(lines[i])] /\ due = [i \in keys |-> ExactTaxableOf(lines[i])]
  OBVIOUS
<1>2. PICK f, g, h, m : /\ f = Sums(net, keys) /\ g = Sums(exact, keys)
                        /\ h = Sums(taxed, keys) /\ m = Sums(due, keys)
  OBVIOUS
<1>3. n = f[keys] /\ e = g[keys] /\ t = h[keys] /\ x = m[keys]
  <2>1. DOMAIN lines = keys /\ DOMAIN net = keys /\ DOMAIN exact = keys /\ DOMAIN taxed = keys /\ DOMAIN due = keys
    BY <1>1
  <2>2. /\ n = SumFunction(net) /\ e = SumFunction(exact)
        /\ t = SumFunction(taxed) /\ x = SumFunction(due)
    BY <1>1, <2>1 DEF SumOver
  <2>3. \A fun : SumFunction(fun) = SumFunctionOnSet(fun, DOMAIN fun)
    BY DEF SumFunction
  <2> QED BY <1>2, <2>1, <2>2, <2>3, SumIsSums
<1>4. PICK many : many = [s \in SUBSET keys |-> Rounds(lines, s)]
  OBVIOUS
<1> DEFINE Fine(s) ==
             /\ f[s] \in Nat /\ g[s] \in Nat /\ h[s] \in Nat /\ m[s] \in Nat /\ many[s] \in Nat
             /\ h[s] =< f[s]
             /\ Within(w * f[s], g[s], w * many[s])
             /\ Within(w * h[s], m[s], w * many[s])
           Good == {s \in SUBSET keys : Fine(s)}
<1>5. \A s \in SUBSET keys :
         /\ f[s] = Added(net, f, s) /\ g[s] = Added(exact, g, s)
         /\ h[s] = Added(taxed, h, s) /\ m[s] = Added(due, m, s)
  BY <1>2, SumsAdd
<1>6. {} \in Good
  <2>1. f[{}] = 0 /\ g[{}] = 0 /\ h[{}] = 0 /\ m[{}] = 0
    BY <1>5 DEF Added
  <2>2. many[{}] = 0
    <3>1. DiscountedIn(lines, {}) = {}
      BY DEF DiscountedIn
    <3>2. many[{}] = Cardinality({}) + Cardinality({})
      BY <1>4, <3>1 DEF Rounds
    <3>3. Cardinality({}) = 0
      BY FS_EmptySet
    <3> QED BY <3>2, <3>3
  <2>3. w * 0 = 0 /\ 0 \in Nat
    BY <1>0
  <2>4. Within(0, 0, 0)
    BY DEF Within
  <2> QED BY <2>1, <2>2, <2>3, <2>4
<1>7. ASSUME NEW s \in SUBSET keys, s # {}, s \ {Picked(s)} \in Good PROVE s \in Good
  <2>1. PICK i, r : i = Picked(s) /\ r = s \ {i}
    OBVIOUS
  <2>2. i \in s /\ i \in keys /\ r \in SUBSET keys /\ Fine(r)
    BY <1>7, <2>1 DEF Picked
  <2>3. PICK a, b, c, d, p : /\ a = NetOf(lines[i]) /\ b = ExactNetOf(lines[i])
                             /\ c = TaxableNetOf(lines[i]) /\ d = ExactTaxableOf(lines[i])
                             /\ p = IF lines[i].discount_percent > 0 THEN 2 ELSE 1
    OBVIOUS
  <2>4. f[s] = a + f[r] /\ g[s] = b + g[r] /\ h[s] = c + h[r] /\ m[s] = d + m[r]
    <3>1. net[i] = a /\ exact[i] = b /\ taxed[i] = c /\ due[i] = d
      BY <1>1, <2>2, <2>3
    <3> QED BY <1>5, <1>7, <2>1, <3>1 DEF Added
  <2>5. many[s] = p + many[r]
    <3>1. DiscountedIn(lines, s) = IF p = 2 THEN DiscountedIn(lines, r) \cup {i} ELSE DiscountedIn(lines, r)
      BY <2>1, <2>2, <2>3 DEF DiscountedIn
    <3>2. /\ IsFiniteSet(DiscountedIn(lines, r)) /\ i \notin DiscountedIn(lines, r)
          /\ IsFiniteSet(r) /\ i \notin r
      <4>1. DiscountedIn(lines, r) \subseteq keys /\ i \notin r
        BY <2>1, <2>2 DEF DiscountedIn
      <4> QED BY <2>2, <4>1, FS_Subset DEF DiscountedIn
    <3>3. /\ Cardinality(DiscountedIn(lines, r) \cup {i}) = Cardinality(DiscountedIn(lines, r)) + 1
          /\ Cardinality(r \cup {i}) = Cardinality(r) + 1
      BY <3>2, FS_AddElement
    <3>4. s = r \cup {i}
      BY <2>1, <2>2
    <3>5. /\ many[s] = Cardinality(s) + Cardinality(DiscountedIn(lines, s))
          /\ many[r] = Cardinality(r) + Cardinality(DiscountedIn(lines, r))
      BY <1>4, <2>2 DEF Rounds
    <3>6. Cardinality(r) \in Nat /\ Cardinality(DiscountedIn(lines, r)) \in Nat
      BY <3>2, FS_CardinalityType
    <3> QED BY <2>3, <3>1, <3>3, <3>4, <3>5, <3>6
  <2>6. /\ a \in Nat /\ b \in Nat /\ c \in 0 .. a /\ d \in Nat /\ p \in Nat
        /\ Within(w * a, b, w * p) /\ Within(w * c, d, w * p)
    <3>1. lines[i] \in ChargedLine
      BY <2>2
    <3>2. LineSlack(lines[i].discount_percent) = w * p
      BY <2>3, WholeAssumption DEF LineSlack, Slack
    <3> QED BY <2>3, <3>1, <3>2, LineIsWithin
  <2>7. Fine(s)
    <3>1. PICK ff, gg, hh, mm, q : ff = f[r] /\ gg = g[r] /\ hh = h[r] /\ mm = m[r] /\ q = many[r]
      OBVIOUS
    <3>2. /\ ff \in Nat /\ gg \in Nat /\ hh \in Nat /\ mm \in Nat /\ q \in Nat /\ hh =< ff
          /\ Within(w * ff, gg, w * q) /\ Within(w * hh, mm, w * q)
      BY <2>2, <3>1
    <3>3. /\ w * a \in Int /\ w * c \in Int /\ w * ff \in Int /\ w * hh \in Int
          /\ w * p \in Int /\ w * q \in Int
      BY <1>0, <2>6, <3>2
    <3>4. /\ w * (a + ff) = w * a + w * ff /\ w * (c + hh) = w * c + w * hh
          /\ w * (p + q) = w * p + w * q
      BY <1>0, <2>6, <3>2
    <3>5. Within(w * (a + ff), b + gg, w * (p + q))
      BY <2>6, <3>2, <3>3, <3>4, WithinSum
    <3>6. Within(w * (c + hh), d + mm, w * (p + q))
      BY <2>6, <3>2, <3>3, <3>4, WithinSum
    <3>7. /\ a + ff \in Nat /\ b + gg \in Nat /\ c + hh \in Nat /\ d + mm \in Nat /\ p + q \in Nat
          /\ c + hh =< a + ff
      BY <2>6, <3>2
    <3> QED BY <2>4, <2>5, <3>1, <3>5, <3>6, <3>7
  <2> HIDE DEF Fine
  <2> QED BY <2>7
<1>8. keys \in Good
  <2> HIDE DEF Good
  <2> QED BY <1>6, <1>7, KeyByKey
<1>9. k = many[keys]
  BY <1>4
<1> QED BY <1>3, <1>8, <1>9

-----------------------------------------------------------------------------
(* The total.                                                              *)

\* The parts of a bill, one after the other.
Base(net, q, service) ==
    LET rest == net - percent_of(net, q) IN rest + percent_of(rest, service)

LEMMA BaseIsWithin ==
    ASSUME NEW n \in Nat, NEW q \in 0 .. Whole, NEW s \in Nat
    PROVE  /\ Base(n, q, s) \in Nat
           /\ \E a \in Nat : /\ Within(Whole * a, n * Rest(q), Slack(q))
                            /\ Within(Whole * Base(n, q, s), a * (Whole + s), Whole)
<1> USE WholeAssumption
<1>1. PICK a, r : a = n - percent_of(n, q) /\ r = percent_of(a, s)
  OBVIOUS
<1>2. a \in Nat /\ Within(Whole * a, n * Rest(q), Slack(q))
  BY <1>1, PercentIsPart DEF Slack
<1>3. a * s \in Nat
  BY <1>2, Products
<1>4. r \in Nat /\ Within(Whole * r, a * s, Whole)
  BY <1>1, <1>3, RoundedIsWithin DEF percent_of
<1>5. Base(n, q, s) = a + r
  BY <1>1 DEF Base
<1>6. Whole * (a + r) = Whole * a + Whole * r /\ a * (Whole + s) = Whole * a + a * s
  BY <1>2, <1>4
<1>7. Whole * a \in Nat /\ Whole * r \in Nat
  BY <1>2, <1>4
<1>8. Within(Whole * (a + r), a * (Whole + s), Whole)
  BY <1>3, <1>4, <1>6, <1>7 DEF Within
<1> QED BY <1>2, <1>4, <1>5, <1>8

\* The tax, when prices hold none.
IsTax(tax, b, t, n, v) == tax = compute_tax(b, t, n, v, FALSE)

LEMMA TaxIsWithin ==
    ASSUME NEW b \in Nat, NEW t \in Nat, NEW n \in Nat, t =< n, NEW v \in Nat,
           NEW tax, IsTax(tax, b, t, n, v)
    PROVE  /\ tax \in Nat
           /\ \E tb \in Nat : Within(Whole * tax, tb * v, Whole) /\ Within(n * tb, b * t, n)
           /\ n = 0 => tax = 0
<1> USE WholeAssumption
<1>1. CASE v <= 0 \/ b <= 0 \/ n = 0 \/ t <= 0
  <2>1. tax = 0
    BY <1>1 DEF compute_tax, IsTax
  <2>2. \E tb \in Nat : tb * v = 0 /\ Within(n * tb, b * t, n)
    <3>1. CASE v = 0 /\ n # 0
      <4>1. PICK tb : tb = Rounded(b * t, n)
        OBVIOUS
      <4>2. tb \in Nat /\ Within(n * tb, b * t, n)
        BY <3>1, <4>1, Products, RoundedIsWithin
      <4>3. tb * v = 0
        BY <3>1, <4>2
      <4> QED BY <4>2, <4>3
    <3>2. CASE b = 0 \/ n = 0 \/ t = 0
      <4>1. b * t = 0 /\ n * 0 = 0 /\ 0 * v = 0
        BY <3>2
      <4>2. Within(0, 0, n)
        BY DEF Within
      <4> QED BY <4>1, <4>2
    <3> QED BY <1>1, <3>1, <3>2
  <2>3. Within(Whole * tax, 0, Whole)
    <3>1. Whole * tax = 0
      BY <2>1
    <3> QED BY <3>1 DEF Within
  <2>4. tax \in Nat
    BY <2>1
  <2>5. PICK tb \in Nat : tb * v = 0 /\ Within(n * tb, b * t, n)
    BY <2>2
  <2>6. Within(Whole * tax, tb * v, Whole)
    BY <2>3, <2>5
  <2> QED BY <2>1, <2>4, <2>5, <2>6
<1>2. CASE ~ (v <= 0 \/ b <= 0 \/ n = 0 \/ t <= 0)
  <2>1. PICK tb : tb = Rounded(b * t, n)
    OBVIOUS
  <2>2. b * t \in Nat /\ n \in Nat \ {0}
    BY <1>2, Products
  <2>3. tb \in Nat /\ Within(n * tb, b * t, n)
    BY <2>1, <2>2, RoundedIsWithin
  <2>4. tax = percent_of(tb, v)
    BY <1>2, <2>1 DEF compute_tax, IsTax
  <2>5. tb * v \in Nat
    BY <2>3, Products
  <2>6. tax \in Nat /\ Within(Whole * tax, tb * v, Whole)
    BY <2>4, <2>5, RoundedIsWithin DEF percent_of
  <2> QED BY <1>2, <2>3, <2>6
<1> QED BY <1>1, <1>2

\* A total is rounded to the step.
LEMMA StepIsWithin ==
    ASSUME NEW raw \in Nat, NEW step \in Nat
    PROVE  round_to_step(raw, step) \in Nat /\ Within(round_to_step(raw, step), raw, step)
<1>1. CASE step = 0
  <2>1. round_to_step(raw, step) = raw
    BY <1>1 DEF round_to_step
  <2> QED BY <1>1, <2>1 DEF Within
<1>2. CASE step # 0
  <2>1. PICK r : r = Rounded(raw, step)
    OBVIOUS
  <2>2. r \in Nat /\ Within(step * r, raw, step)
    BY <1>2, <2>1, RoundedIsWithin
  <2>3. round_to_step(raw, step) = r * step
    BY <1>2, <2>1 DEF round_to_step
  <2>4. r * step = step * r /\ step * r \in Nat
    BY <2>2, Products
  <2> QED BY <2>2, <2>3, <2>4
<1> QED BY <1>1, <1>2

\* The roundings of a bill: of its lines, of the discount, the service, the tax and
\* its base, when an amount counts p times.
Roundings(W, p, n, e, t, x, k, a, z, d, b, u, c, tb, v) ==
    /\ Within(W * n, e, W * k) /\ Within(W * t, x, W * k)
    /\ Within(W * a, n * z, W * d) /\ Within(W * b, a * u, W * p)
    /\ Within(W * c, tb * v, W * p) /\ Within(n * tb, b * t, n * p)
    /\ t =< n /\ z =< W /\ (n = 0 => c = 0)

\* A total before the step, against the exact amount.
LEMMA BillIsWithin ==
    ASSUME NEW W \in Nat \ {0}, NEW p \in Nat, NEW n \in Nat, NEW e \in Nat, NEW t \in Nat, NEW x \in Nat, NEW k \in Nat,
           NEW a \in Nat, NEW b \in Nat, NEW c \in Nat, NEW tb \in Nat, NEW v \in Nat, NEW u \in Nat,
           NEW z \in Nat, NEW d \in Nat,
           Roundings(W, p, n, e, t, x, k, a, z, d, b, u, c, tb, v)
    PROVE  Within((b + c) * W * W * W * W, z * u * (W * e + v * x),
                  W * W * ((k + d) * u * (W + v) + 2 * p * W * (W + v)))
<1>0. /\ Within(W * n, e, W * k) /\ Within(W * t, x, W * k)
      /\ Within(W * a, n * z, W * d) /\ Within(W * b, a * u, W * p)
      /\ Within(W * c, tb * v, W * p) /\ Within(n * tb, b * t, n * p)
      /\ t =< n /\ z =< W /\ (n = 0 => c = 0)
  BY DEF Roundings
<1> USE <1>0
<1> DEFINE W2 == W * W
           W3 == W * W * W
<1>1. W2 \in Nat /\ W3 \in Nat
  BY Products
<1>2. /\ W2 * u \in Nat /\ W * z * u \in Nat /\ W * v * u \in Nat /\ v * u * z \in Nat
      /\ W3 * v \in Nat /\ W2 * v * t \in Nat /\ W * v * u * t \in Nat /\ n * W3 \in Nat
      /\ W * d \in Nat /\ W * k \in Nat /\ W * p \in Nat /\ n * p \in Nat /\ W3 * v * p \in Nat
      /\ W3 * (W * p) \in Nat
  <2>1. \A i, j \in Nat : i * j \in Nat
    BY Products
  <2>2. W * z \in Nat /\ W * v \in Nat /\ v * u \in Nat /\ W2 * v \in Nat
    BY <1>1, <2>1
  <2>4. W3 * v \in Nat /\ W * p \in Nat
    BY <1>1, <2>1
  <2>3. W * v * u \in Nat
    BY <2>1, <2>2
  <2> HIDE DEF W2, W3
  <2> QED BY <1>1, <2>1, <2>2, <2>3, <2>4
<1>3. /\ n * e \in Nat /\ n * z \in Nat /\ a * u \in Nat /\ tb * v \in Nat /\ b * t \in Nat
      /\ W * n \in Nat /\ W * t \in Nat /\ W * a \in Nat /\ W * b \in Nat /\ W * c \in Nat /\ n * tb \in Nat
  BY Products
<1>4. Within(W3 * (W * b), (W * z * u) * e, W3 * (W * p) + W2 * u * (W * d) + W * z * u * (W * k))
  <2>1. Within(W3 * (W * b), W3 * (a * u), W3 * (W * p))
    <3>1. PICK f, one, other, slack : f = W3 /\ one = (W * b) /\ other = (a * u) /\ slack = (W * p)
      OBVIOUS
    <3>2. f \in Nat /\ one \in Int /\ other \in Int /\ slack \in Nat /\ Within(one, other, slack)
      BY <3>1, <1>1, <1>2, <1>3
    <3>3. Within(f * one, f * other, f * slack)
      BY <3>2, WithinTimes
    <3> QED BY <3>1, <3>3
  <2>2. Within((W2 * u) * (W * a), (W2 * u) * (n * z), (W2 * u) * (W * d))
    <3>1. PICK f, one, other, slack : f = (W2 * u) /\ one = (W * a) /\ other = (n * z) /\ slack = (W * d)
      OBVIOUS
    <3>2. f \in Nat /\ one \in Int /\ other \in Int /\ slack \in Nat /\ Within(one, other, slack)
      BY <3>1, <1>1, <1>2, <1>3
    <3>3. Within(f * one, f * other, f * slack)
      BY <3>2, WithinTimes
    <3> QED BY <3>1, <3>3
  <2>3. Within((W * z * u) * (W * n), (W * z * u) * e, (W * z * u) * (W * k))
    <3>1. PICK f, one, other, slack : f = (W * z * u) /\ one = (W * n) /\ other = e /\ slack = (W * k)
      OBVIOUS
    <3>2. f \in Nat /\ one \in Int /\ other \in Int /\ slack \in Nat /\ Within(one, other, slack)
      BY <3>1, <1>1, <1>2, <1>3
    <3>3. Within(f * one, f * other, f * slack)
      BY <3>2, WithinTimes
    <3> QED BY <3>1, <3>3
  <2>4. W3 * (a * u) = (W2 * u) * (W * a) /\ (W2 * u) * (n * z) = (W * z * u) * (W * n)
    OBVIOUS
  <2>5. /\ W3 * (W * b) \in Int /\ W3 * (a * u) \in Int /\ W3 * (W * p) \in Int
        /\ (W2 * u) * (n * z) \in Int /\ (W2 * u) * (W * d) \in Int
        /\ (W * z * u) * e \in Int /\ (W * z * u) * (W * k) \in Int
    OBVIOUS
  <2> HIDE DEF W2, W3
  <2>6. Within(W3 * (W * b), (W2 * u) * (n * z), W3 * (W * p) + W2 * u * (W * d))
    BY <2>1, <2>2, <2>4, <2>5, WithinChain
  <2>7. W3 * (W * p) + W2 * u * (W * d) \in Int
    BY <2>5
  <2> QED BY <2>3, <2>4, <2>5, <2>6, <2>7, WithinChain
<1>5. Within(W3 * (W * c), (v * u * z) * (W * t), W3 * (W * p) + 2 * (W3 * v * p) + (W * v * u) * (W * d))
  <2>1. CASE n = 0
    <3>1. c = 0 /\ t = 0
      BY <2>1
    <3>2. W3 * (W * c) = 0 /\ (v * u * z) * (W * t) = 0
      BY <3>1
    <3>3. W3 * (W * p) \in Nat /\ W3 * v * p \in Nat /\ (W * v * u) * (W * d) \in Nat
      <4> HIDE DEF W3
      <4> QED BY <1>1, <1>2, Products
    <3> QED BY <3>2, <3>3 DEF Within
  <2>2. CASE n # 0
    <3>1. Within((n * W3) * (W * c), (n * W3) * (tb * v), (n * W3) * (W * p))
      <4>1. PICK f, one, other, slack : f = (n * W3) /\ one = (W * c) /\ other = (tb * v) /\ slack = (W * p)
        OBVIOUS
      <4>2. f \in Nat /\ one \in Int /\ other \in Int /\ slack \in Nat /\ Within(one, other, slack)
        BY <4>1, <1>1, <1>2, <1>3
      <4>3. Within(f * one, f * other, f * slack)
        BY <4>2, WithinTimes
      <4> QED BY <4>1, <4>3
    <3>2. Within((W3 * v) * (n * tb), (W3 * v) * (b * t), (W3 * v) * (n * p))
      <4>1. PICK f, one, other, slack : f = (W3 * v) /\ one = (n * tb) /\ other = (b * t) /\ slack = (n * p)
        OBVIOUS
      <4>2. f \in Nat /\ one \in Int /\ other \in Int /\ slack \in Nat /\ Within(one, other, slack)
        BY <4>1, <1>1, <1>2, <1>3
      <4>3. Within(f * one, f * other, f * slack)
        BY <4>2, WithinTimes
      <4> QED BY <4>1, <4>3
    <3>3. Within((W2 * v * t) * (W * b), (W2 * v * t) * (a * u), (W2 * v * t) * (W * p))
      <4>1. PICK f, one, other, slack : f = (W2 * v * t) /\ one = (W * b) /\ other = (a * u) /\ slack = (W * p)
        OBVIOUS
      <4>2. f \in Nat /\ one \in Int /\ other \in Int /\ slack \in Nat /\ Within(one, other, slack)
        BY <4>1, <1>1, <1>2, <1>3
      <4>3. Within(f * one, f * other, f * slack)
        BY <4>2, WithinTimes
      <4> QED BY <4>1, <4>3
    <3>4. Within((W * v * u * t) * (W * a), (W * v * u * t) * (n * z), (W * v * u * t) * (W * d))
      <4>1. PICK f, one, other, slack : f = (W * v * u * t) /\ one = (W * a) /\ other = (n * z) /\ slack = (W * d)
        OBVIOUS
      <4>2. f \in Nat /\ one \in Int /\ other \in Int /\ slack \in Nat /\ Within(one, other, slack)
        BY <4>1, <1>1, <1>2, <1>3
      <4>3. Within(f * one, f * other, f * slack)
        BY <4>2, WithinTimes
      <4> QED BY <4>1, <4>3
    <3>5. /\ (n * W3) * (tb * v) = (W3 * v) * (n * tb)
          /\ (W3 * v) * (b * t) = (W2 * v * t) * (W * b)
          /\ (W2 * v * t) * (a * u) = (W * v * u * t) * (W * a)
      OBVIOUS
    <3>6. /\ (n * W3) * (W * c) \in Int /\ (n * W3) * (tb * v) \in Int /\ (n * W3) * (W * p) \in Int
          /\ (W3 * v) * (b * t) \in Int /\ (W3 * v) * (n * p) \in Int
          /\ (W2 * v * t) * (a * u) \in Int /\ (W2 * v * t) * (W * p) \in Int
          /\ (W * v * u * t) * (n * z) \in Int /\ (W * v * u * t) * (W * d) \in Int
      OBVIOUS
    <3>7. Within((n * W3) * (W * c), (W3 * v) * (b * t), (n * W3) * (W * p) + (W3 * v) * (n * p))
      <4> HIDE DEF W2, W3
      <4> QED BY <3>1, <3>2, <3>5, <3>6, WithinChain
    <3>8. Within((n * W3) * (W * c), (W2 * v * t) * (a * u), (n * W3) * (W * p) + (W3 * v) * (n * p) + (W2 * v * t) * (W * p))
      <4>1. (n * W3) * (W * p) + (W3 * v) * (n * p) \in Int
        BY <3>6
      <4> HIDE DEF W2, W3
      <4> QED BY <3>3, <3>5, <3>6, <3>7, <4>1, WithinChain
    <3>9. Within((n * W3) * (W * c), (W * v * u * t) * (n * z),
                 (n * W3) * (W * p) + (W3 * v) * (n * p) + (W2 * v * t) * (W * p) + (W * v * u * t) * (W * d))
      <4>1. (n * W3) * (W * p) + (W3 * v) * (n * p) + (W2 * v * t) * (W * p) \in Int
        BY <3>6
      <4> HIDE DEF W2, W3
      <4> QED BY <3>4, <3>5, <3>6, <3>8, <4>1, WithinChain
    <3>10. /\ (n * W3) * (W * c) = n * (W3 * (W * c))
           /\ (W * v * u * t) * (n * z) = n * ((v * u * z) * (W * t))
      OBVIOUS
    <3>11. (n * W3) * (W * p) + (W3 * v) * (n * p) + (W2 * v * t) * (W * p) + (W * v * u * t) * (W * d)
             =< n * (W3 * (W * p) + 2 * (W3 * v * p) + (W * v * u) * (W * d))
      <4>1. /\ (W2 * v * t) * (W * p) = t * (W3 * v * p)
            /\ (W * v * u * t) * (W * d) = t * ((W * v * u) * (W * d))
            /\ n * (W3 * (W * p) + 2 * (W3 * v * p) + (W * v * u) * (W * d))
                 = n * (W3 * (W * p)) + 2 * (n * (W3 * v * p)) + n * ((W * v * u) * (W * d))
            /\ (n * W3) * (W * p) = n * (W3 * (W * p)) /\ (W3 * v) * (n * p) = n * (W3 * v * p)
        OBVIOUS
      <4>2. (W * v * u) * (W * d) \in Nat /\ W3 * (W * p) \in Nat
        <5> HIDE DEF W3
        <5> QED BY <1>1, <1>2, Products
      <4> HIDE DEF W2, W3
      <4>3. /\ t * (W3 * v * p) =< n * (W3 * v * p) /\ t * (W3 * v * p) \in Nat /\ n * (W3 * v * p) \in Nat
            /\ t * ((W * v * u) * (W * d)) =< n * ((W * v * u) * (W * d))
            /\ t * ((W * v * u) * (W * d)) \in Nat /\ n * ((W * v * u) * (W * d)) \in Nat
        BY <1>2, <4>2, Products
      <4>4. n * (W3 * (W * p)) \in Nat
        BY <4>2, Products
      <4> QED BY <4>1, <4>3, <4>4
    <3>12. /\ W3 * (W * c) \in Int /\ (v * u * z) * (W * t) \in Int
           /\ W3 * (W * p) + 2 * (W3 * v * p) + (W * v * u) * (W * d) \in Int
      OBVIOUS
    <3>13. Within(n * (W3 * (W * c)), n * ((v * u * z) * (W * t)),
                  n * (W3 * (W * p) + 2 * (W3 * v * p) + (W * v * u) * (W * d)))
      <4>1. /\ n * (W3 * (W * c)) \in Int /\ n * ((v * u * z) * (W * t)) \in Int
            /\ n * (W3 * (W * p) + 2 * (W3 * v * p) + (W * v * u) * (W * d)) \in Int
            /\ (n * W3) * (W * p) + (W3 * v) * (n * p) + (W2 * v * t) * (W * p) + (W * v * u * t) * (W * d) \in Int
        OBVIOUS
      <4> HIDE DEF W2, W3
      <4> QED BY <3>9, <3>10, <3>11, <4>1, WithinWider
    <3>14. n \in Nat \ {0}
      BY <2>2
    <3> HIDE DEF W2, W3
    <3> QED BY <3>12, <3>13, <3>14, WithinDivided
  <2> QED BY <2>1, <2>2
<1>6. Within((v * u * z) * (W * t), (v * u * z) * x, (v * u * z) * (W * k))
  <2>1. PICK f, one, other, slack : f = (v * u * z) /\ one = (W * t) /\ other = x /\ slack = (W * k)
    OBVIOUS
  <2>2. f \in Nat /\ one \in Int /\ other \in Int /\ slack \in Nat /\ Within(one, other, slack)
    BY <2>1, <1>1, <1>2, <1>3
  <2>3. Within(f * one, f * other, f * slack)
    BY <2>2, WithinTimes
  <2> QED BY <2>1, <2>3
<1>7. /\ W3 * (W * b) \in Int /\ (W * z * u) * e \in Int
      /\ W3 * (W * c) \in Int /\ (v * u * z) * (W * t) \in Int /\ (v * u * z) * x \in Int
      /\ W3 * (W * p) + W2 * u * (W * d) + W * z * u * (W * k) \in Int
      /\ W3 * (W * p) + 2 * (W3 * v * p) + (W * v * u) * (W * d) \in Int
      /\ (v * u * z) * (W * k) \in Int
  OBVIOUS
<1> DEFINE error == (W3 * (W * p) + W2 * u * (W * d) + W * z * u * (W * k))
                    + ((W3 * (W * p) + 2 * (W3 * v * p) + (W * v * u) * (W * d)) + (v * u * z) * (W * k))
<1>8. Within(W3 * (W * b) + W3 * (W * c), (W * z * u) * e + (v * u * z) * x, error)
  <2> HIDE DEF W2, W3
  <2>1. Within(W3 * (W * c), (v * u * z) * x,
               (W3 * (W * p) + 2 * (W3 * v * p) + (W * v * u) * (W * d)) + (v * u * z) * (W * k))
    BY <1>5, <1>6, <1>7, WithinChain
  <2>2. (W3 * (W * p) + 2 * (W3 * v * p) + (W * v * u) * (W * d)) + (v * u * z) * (W * k) \in Int
    BY <1>7
  <2> QED BY <1>4, <1>7, <2>1, <2>2, WithinSum
<1>9. error =< W * W * ((k + d) * u * (W + v) + 2 * p * W * (W + v))
  <2>1. W * W * ((k + d) * u * (W + v) + 2 * p * W * (W + v))
          = 2 * (W3 * (W * p)) + 2 * (W3 * v * p) + W2 * u * (W * d) + (W * v * u) * (W * d)
              + W * (W2 * u * k) + W * (W * v * u * k)
    OBVIOUS
  <2>2. W * z * u * (W * k) = z * (W2 * u * k) /\ (v * u * z) * (W * k) = z * (W * v * u * k)
    OBVIOUS
  <2>3. W2 * u * k \in Nat /\ W * v * u * k \in Nat
    <3> HIDE DEF W2
    <3> QED BY <1>2, Products
  <2>4. z * (W2 * u * k) =< W * (W2 * u * k) /\ z * (W * v * u * k) =< W * (W * v * u * k)
    <3> HIDE DEF W2
    <3> QED BY <2>3, Products
  <2>5. /\ z * (W2 * u * k) \in Int /\ W * (W2 * u * k) \in Int /\ z * (W * v * u * k) \in Int
        /\ W * (W * v * u * k) \in Int /\ W3 * (W * p) \in Int /\ W3 * v * p \in Int
        /\ W2 * u * (W * d) \in Int /\ (W * v * u) * (W * d) \in Int
    OBVIOUS
  <2> HIDE DEF W2, W3
  <2> QED BY <2>1, <2>2, <2>4, <2>5 DEF error
<1>10. /\ W3 * (W * b) + W3 * (W * c) = (b + c) * W * W * W * W
       /\ (W * z * u) * e + (v * u * z) * x = z * u * (W * e + v * x)
  OBVIOUS
<1>11. /\ (b + c) * W * W * W * W \in Int /\ z * u * (W * e + v * x) \in Int /\ error \in Int
       /\ W * W * ((k + d) * u * (W + v) + 2 * p * W * (W + v)) \in Int
  OBVIOUS
<1> HIDE DEF error, W2, W3
<1> QED BY <1>8, <1>9, <1>10, <1>11, WithinWider

\* The roundings of a bill, in parts of p.
LEMMA InParts ==
    ASSUME NEW W \in Nat \ {0}, NEW p \in Nat \ {0}, NEW n \in Nat, NEW e \in Nat, NEW t \in Nat, NEW x \in Nat,
           NEW k \in Nat, NEW a \in Nat, NEW b \in Nat, NEW c \in Nat, NEW tb \in Nat, NEW v \in Nat,
           NEW u \in Nat, NEW z \in Nat, NEW d \in Nat,
           Within(p * W * n, e, p * W * k), Within(p * W * t, x, p * W * k),
           Within(W * a, n * z, W * d), Within(W * b, a * u, W),
           Within(W * c, tb * v, W), Within(n * tb, b * t, n),
           t =< n, z =< W, n = 0 => c = 0
    PROVE  Roundings(W, p, p * n, e, p * t, x, p * k, p * a, z, p * d, p * b, u, p * c, p * tb, v)
<1>1. /\ W * a \in Int /\ n * z \in Int /\ W * d \in Nat /\ W * b \in Int /\ a * u \in Int
      /\ W * c \in Int /\ tb * v \in Int /\ n * tb \in Int /\ b * t \in Int /\ p * p \in Nat
  BY Products
<1>2. Within(W * (p * n), e, W * (p * k)) /\ Within(W * (p * t), x, W * (p * k))
  <2>1. W * (p * n) = p * W * n /\ W * (p * t) = p * W * t /\ W * (p * k) = p * W * k
    OBVIOUS
  <2> QED BY <2>1
<1>3. Within(W * (p * a), (p * n) * z, W * (p * d))
  <2>1. Within(p * (W * a), p * (n * z), p * (W * d))
    BY <1>1, WithinTimes
  <2>2. p * (W * a) = W * (p * a) /\ p * (n * z) = (p * n) * z /\ p * (W * d) = W * (p * d)
    OBVIOUS
  <2> QED BY <2>1, <2>2
<1>4. Within(W * (p * b), (p * a) * u, W * p)
  <2>1. Within(p * (W * b), p * (a * u), p * W)
    BY <1>1, WithinTimes
  <2>2. p * (W * b) = W * (p * b) /\ p * (a * u) = (p * a) * u /\ p * W = W * p
    OBVIOUS
  <2> QED BY <2>1, <2>2
<1>5. Within(W * (p * c), (p * tb) * v, W * p)
  <2>1. Within(p * (W * c), p * (tb * v), p * W)
    BY <1>1, WithinTimes
  <2>2. p * (W * c) = W * (p * c) /\ p * (tb * v) = (p * tb) * v /\ p * W = W * p
    OBVIOUS
  <2> QED BY <2>1, <2>2
<1>6. Within((p * n) * (p * tb), (p * b) * (p * t), (p * n) * p)
  <2>1. Within((p * p) * (n * tb), (p * p) * (b * t), (p * p) * n)
    BY <1>1, WithinTimes
  <2>2. /\ (p * p) * (n * tb) = (p * n) * (p * tb) /\ (p * p) * (b * t) = (p * b) * (p * t)
        /\ (p * p) * n = (p * n) * p
    OBVIOUS
  <2> QED BY <2>1, <2>2
<1>7. p * t =< p * n
  <2>1. t * p =< n * p
    BY Products
  <2> QED BY <2>1
<1>8. p * n = 0 => p * c = 0
  <2>1. SUFFICES ASSUME n # 0 PROVE p * n # 0
    OBVIOUS
  <2>2. 1 * p =< n * p
    BY <2>1, Products
  <2> QED BY <2>2
<1> QED BY <1>2, <1>3, <1>4, <1>5, <1>6, <1>7, <1>8 DEF Roundings

\* The total of lines, within all the roundings on the way.
LEMMA TotalIsWithin ==
    ASSUME NEW keys, IsFiniteSet(keys), NEW lines \in [keys -> ChargedLine],
           NEW rules \in [vat : Nat, inclusive : BOOLEAN, service : Nat, step : Nat],
           NEW q \in 0 .. Whole,
           NEW grand, grand = compute_order(lines, rules, q).grand_total
    PROVE  /\ grand \in Nat
           /\ ExactTotal(lines, rules, q) \in Int
           /\ Within(grand * Portion * Whole * Whole * Whole * Whole, ExactTotal(lines, rules, q),
                     Portion * Whole * Whole * RoundingError(lines, rules, q))
<1> USE WholeAssumption
<1>1. PICK n, e, t, x, k : /\ n = SumOver(NetOf, lines) /\ e = SumOver(ExactNetOf, lines)
                           /\ t = SumOver(TaxableNetOf, lines) /\ x = SumOver(ExactTaxableOf, lines)
                           /\ k = Rounds(lines, keys)
  OBVIOUS
<1>2. /\ n \in Nat /\ e \in Nat /\ t \in Nat /\ x \in Nat /\ k \in Nat /\ t =< n
      /\ Within(Portion * Whole * n, e, Portion * Whole * k)
      /\ Within(Portion * Whole * t, x, Portion * Whole * k)
  BY <1>1, LinesAddUp
<1>3. PICK s, vat, step, b : /\ s = rules.service /\ vat = rules.vat /\ step = rules.step
                             /\ b = Base(n, q, s)
  OBVIOUS
<1>4. s \in Nat /\ vat \in Nat /\ step \in Nat
  BY <1>3
<1>5. b \in Nat
  BY <1>2, <1>3, <1>4, BaseIsWithin
<1>6. PICK a \in Nat : Within(Whole * a, n * Rest(q), Slack(q)) /\ Within(Whole * b, a * (Whole + s), Whole)
  BY <1>2, <1>3, <1>4, BaseIsWithin
<1>7. PICK v, tax, c : /\ v = VatOnTop(rules) /\ IsTax(tax, b, t, n, v)
                       /\ c = IF rules.inclusive THEN 0 ELSE tax
  BY DEF IsTax
<1>8. v \in Nat /\ (rules.inclusive => v = 0)
  BY <1>3, <1>4, <1>7 DEF VatOnTop
<1>9. /\ tax \in Nat /\ (n = 0 => tax = 0)
      /\ \E tb \in Nat : Within(Whole * tax, tb * v, Whole) /\ Within(n * tb, b * t, n)
  <2>1. IsTax(tax, b, t, n, v)
    BY <1>7
  <2>2. b \in Nat /\ t \in Nat /\ n \in Nat /\ t =< n /\ v \in Nat
    BY <1>2, <1>5, <1>8
  <2> HIDE WholeAssumption
  <2>3. tax \in Nat
    BY <2>1, <2>2, TaxIsWithin
  <2>4. n = 0 => tax = 0
    BY <2>1, <2>2, TaxIsWithin
  <2>5. \E tb \in Nat : Within(Whole * tax, tb * v, Whole) /\ Within(n * tb, b * t, n)
    BY <2>1, <2>2, TaxIsWithin
  <2> QED BY <2>3, <2>4, <2>5
<1>10. c = tax
  <2>1. v = 0 => tax = 0
    BY <1>7 DEF compute_tax, IsTax
  <2> QED BY <1>7, <1>8, <2>1
<1>11. PICK tb \in Nat : Within(Whole * c, tb * v, Whole) /\ Within(n * tb, b * t, n)
  BY <1>9, <1>10
<1>12. grand = round_to_step(b + c, step)
  <2>1. ~rules.inclusive => v = vat
    BY <1>3, <1>7 DEF VatOnTop
  <2>2. ~rules.inclusive => rules.inclusive = FALSE
    OBVIOUS
  <2>3. c = IF rules.inclusive THEN 0 ELSE compute_tax(b, t, n, rules.vat, rules.inclusive)
    BY <1>3, <1>7, <2>1, <2>2 DEF IsTax
  <2> QED BY <1>1, <1>3, <2>3 DEF compute_order, Base
<1>13. PICK z, u, d : z = Rest(q) /\ u = Whole + s /\ d = IF q > 0 THEN 1 ELSE 0
  OBVIOUS
<1>14. z \in Nat /\ z =< Whole /\ u \in Nat /\ d \in Nat /\ Slack(q) = Whole * d
  BY <1>4, <1>13 DEF Rest, Slack
<1>15. Within((b + c) * Portion * Whole * Whole * Whole * Whole, z * u * (Whole * e + v * x),
              Whole * Whole * Portion * ((k + d) * u * (Whole + v) + 2 * Whole * (Whole + v)))
  <2>1. PICK w \in Nat \ {0}, p \in Nat \ {0} : w = Whole /\ p = Portion
    OBVIOUS
  <2>2. c \in Nat
    BY <1>9, <1>10
  <2>3. Roundings(w, p, p * n, e, p * t, x, p * k, p * a, z, p * d, p * b, u, p * c, p * tb, v)
    <3>1. n \in Nat /\ e \in Nat /\ t \in Nat /\ x \in Nat /\ k \in Nat /\ u \in Nat /\ v \in Nat
      BY <1>2, <1>8, <1>14
    <3>2. /\ z \in Nat /\ d \in Nat /\ a \in Nat /\ b \in Nat /\ tb \in Nat
          /\ t =< n /\ z =< w /\ (n = 0 => c = 0)
      BY <1>2, <1>5, <1>6, <1>9, <1>10, <1>11, <1>14, <2>1
    <3>3. Within(p * w * n, e, p * w * k) /\ Within(p * w * t, x, p * w * k)
      BY <1>2, <2>1
    <3>4. Within(w * a, n * z, w * d) /\ Within(w * b, a * u, w)
      BY <1>6, <1>13, <1>14, <2>1
    <3>5. Within(w * c, tb * v, w) /\ Within(n * tb, b * t, n)
      BY <1>11, <2>1
    <3> HIDE WholeAssumption
    <3> QED BY <2>2, <3>1, <3>2, <3>3, <3>4, <3>5, InParts
  <2>4. Within((p * b + p * c) * w * w * w * w, z * u * (w * e + v * x),
               w * w * ((p * k + p * d) * u * (w + v) + 2 * p * w * (w + v)))
    <3>1. /\ p * n \in Nat /\ p * t \in Nat /\ p * k \in Nat /\ p * a \in Nat /\ p * d \in Nat
          /\ p * b \in Nat /\ p * c \in Nat /\ p * tb \in Nat /\ p \in Nat
      BY <1>2, <1>5, <1>6, <1>11, <1>14, <2>2, Products
    <3> QED BY <1>2, <1>8, <1>14, <2>3, <3>1, BillIsWithin
  <2>5. /\ (p * b + p * c) * w * w * w * w = (b + c) * p * w * w * w * w
        /\ w * w * ((p * k + p * d) * u * (w + v) + 2 * p * w * (w + v))
             = w * w * p * ((k + d) * u * (w + v) + 2 * w * (w + v))
    BY <1>2, <1>5, <1>8, <1>14, <2>2
  <2> QED BY <2>1, <2>4, <2>5
<1>16. grand \in Nat /\ Within(grand, b + c, step)
  <2>1. b + c \in Nat
    BY <1>5, <1>9, <1>10
  <2> QED BY <1>4, <1>12, <2>1, StepIsWithin
<1>17. ExactTotal(lines, rules, q) = z * u * (Whole * e + v * x)
  BY <1>1, <1>3, <1>7, <1>13 DEF ExactTotal
<1>18. RoundingError(lines, rules, q)
         = ((k + d) * u * (Whole + v) + 2 * Whole * (Whole + v)) + Whole * Whole * step
  <2>1. DiscountedIn(lines, keys) = {i \in DOMAIN lines : lines[i].discount_percent > 0}
    BY DEF DiscountedIn
  <2>2. DOMAIN lines = keys
    OBVIOUS
  <2>3. RoundingError(lines, rules, q)
          = (Cardinality(keys) + (Cardinality(DiscountedIn(lines, keys)) + d)) * u * (Whole + v)
              + 2 * Whole * (Whole + v) + Whole * Whole * step
    BY <1>3, <1>7, <1>13, <2>1, <2>2 DEF RoundingError
  <2>4. Cardinality(keys) \in Nat /\ Cardinality(DiscountedIn(lines, keys)) \in Nat
    <3>1. IsFiniteSet(DiscountedIn(lines, keys))
      BY FS_Subset DEF DiscountedIn
    <3> QED BY <3>1, FS_CardinalityType
  <2>5. k + d = Cardinality(keys) + (Cardinality(DiscountedIn(lines, keys)) + d)
    BY <1>1, <1>14, <2>4 DEF Rounds
  <2> QED BY <2>3, <2>5
<1>19. PICK w, y, r : /\ w = Portion * Whole * Whole * Whole * Whole /\ y = z * u * (Whole * e + v * x)
                      /\ r = (k + d) * u * (Whole + v) + 2 * Whole * (Whole + v)
  OBVIOUS
<1>20. w \in Nat /\ y \in Int /\ r \in Int /\ Portion * Whole * Whole \in Nat
  <2>1. Portion * Whole * Whole \in Nat
    <3>1. Portion * Whole \in Nat
      BY Products
    <3> QED BY <3>1, Products
  <2>2. Portion * Whole * Whole * Whole \in Nat
    BY <2>1, Products
  <2>3. w \in Nat
    BY <1>19, <2>2, Products
  <2> QED BY <1>2, <1>8, <1>14, <1>19, <2>1, <2>3
<1>21. Within(w * grand, w * (b + c), w * step)
  <2>1. b + c \in Int
    BY <1>5, <1>9, <1>10
  <2> QED BY <1>4, <1>16, <1>20, <2>1, WithinTimes
<1>22. /\ w * grand = grand * Portion * Whole * Whole * Whole * Whole
       /\ w * (b + c) = (b + c) * Portion * Whole * Whole * Whole * Whole
       /\ Whole * Whole * Portion * r = Portion * Whole * Whole * r
       /\ w * step + Portion * Whole * Whole * r = Portion * Whole * Whole * (r + Whole * Whole * step)
  BY <1>4, <1>5, <1>9, <1>10, <1>16, <1>19, <1>20
<1>23. Within(w * (b + c), y, Portion * Whole * Whole * r)
  BY <1>15, <1>19, <1>22
<1>24. Within(w * grand, y, w * step + Portion * Whole * Whole * r)
  <2>1. /\ w * grand \in Int /\ w * (b + c) \in Int /\ w * step \in Int
        /\ Portion * Whole * Whole * r \in Int
    BY <1>4, <1>5, <1>9, <1>10, <1>16, <1>20
  <2> QED BY <1>20, <1>21, <1>23, <2>1, WithinChain
<1> QED BY <1>16, <1>17, <1>18, <1>19, <1>20, <1>22, <1>24

\* What the two sides charge a line.
LEMMA ChargedLines ==
    ASSUME NEW bill \in ServerOrder
    PROVE  /\ Charged(bill.lines, folded_unit_price) \in [Unvoided(bill.lines) -> ChargedLine]
           /\ IsFiniteSet(Unvoided(bill.lines))
<1>1. bill.lines \in Seq(BillLine) /\ DOMAIN bill.lines = 1 .. Len(bill.lines) /\ Len(bill.lines) \in Nat
  BY DEF ServerOrder
<1>2. ASSUME NEW i \in Unvoided(bill.lines)
      PROVE  [bill.lines[i] EXCEPT !.unit_price = folded_unit_price(bill.lines[i])] \in ChargedLine
  <2>1. PICK sold : sold = bill.lines[i]
    OBVIOUS
  <2>2. sold \in BillLine
    BY <1>1, <1>2, <2>1 DEF Unvoided
  <2>3. sold \in ChargedLine
    BY <2>2, ShopAssumption DEF BillLine, ChargedLine, Amount
  <2>4. folded_unit_price(sold) \in Nat
    BY <2>3 DEF folded_unit_price, ChargedLine, Amount
  <2>5. [sold EXCEPT !.unit_price = folded_unit_price(sold)] \in ChargedLine
    BY <2>3, <2>4 DEF ChargedLine
  <2> QED BY <2>1, <2>5
<1>3. IsFiniteSet(Unvoided(bill.lines))
  <2>1. Unvoided(bill.lines) \subseteq 1 .. Len(bill.lines)
    BY <1>1 DEF Unvoided
  <2>2. IsFiniteSet(1 .. Len(bill.lines))
    BY <1>1, FS_Interval
  <2> QED BY <2>1, <2>2, FS_Subset
<1> QED BY <1>2, <1>3 DEF Charged

\* The terminal's total is one of its lines and rules.
LEMMA TotalsTold == BillInv => RoundingIsBounded
<1> SUFFICES ASSUME BillInv, quoted # None
             PROVE  2 * Distance(compute_order(till_lines, quoted, fold.discount_percent).grand_total
                                    * Portion * Whole * Whole * Whole * Whole,
                                 ExactTotal(till_lines, quoted, fold.discount_percent))
                      <= Portion * Whole * Whole * RoundingError(till_lines, quoted, fold.discount_percent)
  BY DEF RoundingIsBounded
<1>1. PICK bills : Steps(bills)
  BY DEF BillInv
<1>2. fold \in ServerOrder
  BY <1>1, LastFits DEF BillInv
<1>3. PICK lines, rules, q, keys : /\ lines = till_lines /\ rules = quoted /\ q = fold.discount_percent
                                  /\ keys = Unvoided(fold.lines)
  OBVIOUS
<1>4. IsFiniteSet(keys) /\ lines \in [keys -> ChargedLine]
  BY <1>2, <1>3, ChargedLines DEF till_lines
<1>5. q \in 0 .. Whole
  BY <1>2, <1>3 DEF ServerOrder
<1>6. rules \in [vat : Nat, inclusive : BOOLEAN, service : Nat, step : Nat]
  BY <1>3, ShopAssumption DEF BillInv, BillTypes
<1>7. PICK grand : grand = compute_order(lines, rules, q).grand_total
  OBVIOUS
<1>8. PICK total, exact, error : /\ total = grand * Portion * Whole * Whole * Whole * Whole
                                 /\ exact = ExactTotal(lines, rules, q)
                                 /\ error = Portion * Whole * Whole * RoundingError(lines, rules, q)
  OBVIOUS
<1>9. grand \in Nat /\ exact \in Int /\ Within(total, exact, error)
  BY <1>4, <1>5, <1>6, <1>7, <1>8, TotalIsWithin
<1>10. total \in Int
  BY <1>8, <1>9, WholeAssumption
<1>11. 2 * Distance(total, exact) <= error
  BY <1>9, <1>10 DEF Within, Distance
<1> QED BY <1>3, <1>7, <1>8, <1>11

\* core/money.py, compute_order: whatever lines, discounts and rules, a total is never further from the exact one than its roundings can move it.
THEOREM RoundingHolds == BillSpec => []RoundingIsBounded
BY BillStarts, BillSteps, TotalsTold, PTL DEF BillSpec

-----------------------------------------------------------------------------
(* Reports: rows that several write at once.                               *)

\* What a day sold, and a day that is over and settled.
Sold(d) == SettledIn(day_window(d))
Over(d) == d < today /\ \A o \in OpenedIn(day_window(d)) : order[o].status # "OPEN"

\* What the requests and tasks hold, stage by stage.
JobSet == [stage : {"next"}, todo : SUBSET Days, backwards : BOOLEAN, report : {FALSE}]
RequestSet(stage) ==
    [stage : {stage}, todo : SUBSET Days, backwards : BOOLEAN, report : {TRUE},
     from : Days, to : Days, raw_from : Days, asked : SUBSET Orders]
DoneSet == [Tables -> [doomed : SUBSET Row, new : SUBSET Row]]
BuildSet ==
    [stage : Tables \cup {"commit"}, date : Days, totals : SUBSET Orders, finished : BOOLEAN,
     done : DoneSet, waits : Builders \cup {Nobody}, work : JobSet \cup RequestSet("next")]
LiveSet ==
    [stage : {"live"}, from : Days, to : Days, raw_from : Days, asked : SUBSET Orders,
     early : SUBSET Days, rolled : SUBSET (Days \X Row)]
Doing == {Idle} \cup JobSet \cup RequestSet("next") \cup RequestSet("rolled") \cup BuildSet \cup LiveSet

\* Orders, and everything together, have the types the programs give them.
OrderTypes ==
    /\ now \in 0 .. LastInstant
    /\ order \in [Orders -> [at : 0 .. LastInstant,
                             status : {"none", "OPEN", "CANCELLED"} \cup SETTLED]]
    /\ \A o \in Orders : order[o].at =< now

ReportTypes ==
    /\ OrderTypes
    /\ rows \in [Tables -> [Days -> SUBSET Row]]
    /\ builder \in [Builders -> Doing]
    /\ early \subseteq Days
    /\ jobs \in 0 .. MaxJobs

\* A row counts sales of its day, under its own key.
RowFits(t, d, r) ==
    /\ r.orders \subseteq Sold(d)
    /\ t # "hours" => r.key = 0
    /\ t # "sales" => r.orders # {}
    /\ t = "hours" => \A o \in r.orders : order[o].at = r.key

RowsAre(t, d, some) ==
    /\ \A r \in some : RowFits(t, d, r)
    /\ \A r, s \in some : r.key = s.key => r = s

\* So do the rows of all tables and days.
RowsFit == \A t \in Tables, d \in Days : RowsAre(t, d, rows[t][d])

\* Rows of a day that was built last when it was over.
BuiltIsOver ==
    \A d \in Days : rows["sales"][d] # {} /\ d \notin early =>
        Over(d) /\ \A t \in Tables : Counted(rows[t][d]) = Sold(d)

\* What a transaction inserted takes no key of the rows it left.
Inserted(w, t) == w.stage \in Later[t]
TableFits(w, t) ==
    /\ RowsAre(t, w.date, w.done[t].new)
    /\ Inserted(w, t) =>
         /\ ~Clash(rows[t][w.date] \ w.done[t].doomed, w.done[t].new)
         /\ w.done[t].doomed # {} \/ t = "sales" => w.done[t].new # {}

\* What was asked for is there, is in progress or is still to be built.
Promise(w, dates) ==
    /\ w.from =< w.raw_from
    /\ w.asked \subseteq SettledIn(range_window(w.from, w.to))
    /\ \A d \in w.from .. LastRolled(w) : rows["sales"][d] # {} \/ d \in dates

\* What a build found is of its day, and all of it when the day is over.
BuildFits(w) ==
    /\ w.totals \subseteq Sold(w.date)
    /\ \A t \in Tables : TableFits(w, t)
    /\ w.finished => /\ Over(w.date) /\ w.totals = Sold(w.date)
                     /\ \A t \in Tables : Inserted(w, t) => Counted(w.done[t].new) = Sold(w.date)
    /\ w.work.report => Promise(w.work, w.work.todo \cup {w.date})

\* What a report read of the rows and still reads of the orders.
LiveFits(w) ==
    /\ w.from =< w.raw_from
    /\ w.asked \subseteq SettledIn(range_window(w.from, w.to))
    /\ CountedOnce(w.rolled)
    /\ \A p \in w.rolled : p[1] \in w.from .. LastRolled(w) /\ p[2].orders \subseteq Sold(p[1])
    /\ \A o \in w.asked : business_date_of(order[o].at) < w.raw_from =>
          \/ o \in Counted({p[2] : p \in w.rolled})
          \/ business_date_of(order[o].at) \in w.early

\* What a request or task holds is true of the sales.
Fits(w) ==
    /\ w.stage \in Tables \cup {"commit"} => BuildFits(w)
    /\ w.stage = "next" /\ w.report => Promise(w, w.todo)
    /\ w.stage = "rolled" => Promise(w, {})
    /\ w.stage = "live" => LiveFits(w)

\* Of the open transactions on a table and a day one at most inserted something.
OneInserts ==
    \A a, b \in Builders, t \in Tables :
        a # b /\ HasWritten(a, t) /\ HasWritten(b, t) /\ builder[a].date = builder[b].date
        => builder[a].done[t].new = {} \/ builder[b].done[t].new = {}

\* Who waits will lose.
Loses(w, a, t) ==
    /\ w.stage = t /\ t \in Tables /\ HasWritten(a, t) /\ builder[a].date = w.date
    /\ Clash(builder[a].done[t].new, w.done[t].new)
WaitersLose ==
    \A w \in Builders : Building(w) /\ builder[w].waits # Nobody =>
        builder[w].waits # w /\ Loses(builder[w], builder[w].waits, builder[w].stage)

\* The strengthening.
ReportsInv ==
    /\ ReportTypes /\ RowsFit /\ BuiltIsOver
    /\ \A b \in Builders : Fits(builder[b])
    /\ OneInserts /\ WaitersLose

-----------------------------------------------------------------------------
(* Days.                                                                   *)

\* A moment is in the window of its business day, and later moments are not on earlier days.
LEMMA DayOf ==
    /\ \A t \in Int : business_date_of(t) \in Int
    /\ \A t, d \in Int : t \in day_window(d) <=> business_date_of(t) = d
    /\ \A s, t \in Int : s =< t => business_date_of(s) =< business_date_of(t)
<1> USE DayReportsAssumption
<1>1. \A x \in Int, n \in Nat \ {0} : x \div n \in Int
  OBVIOUS
<1>2. \A x, d \in Int, n \in Nat \ {0} : x \div n = d <=> d * n =< x /\ x < (d + 1) * n
  OBVIOUS
<1>3. \A x, y \in Int, n \in Nat \ {0} : x =< y => x \div n =< y \div n
  OBVIOUS
<1>4. \A t, d \in Int : t \in day_window(d) <=> business_date_of(t) = d
  <2> TAKE t, d \in Int
  <2>1. t - boundary \in Int /\ d * DayLength \in Int /\ (d + 1) * DayLength \in Int
    OBVIOUS
  <2>2. business_date_of(t) = d <=> d * DayLength =< t - boundary /\ t - boundary < (d + 1) * DayLength
    BY <1>2, <2>1 DEF business_date_of
  <2> QED BY <2>1, <2>2 DEF day_window
<1>5. \A t \in Int : business_date_of(t) \in Int
  BY <1>1 DEF business_date_of
<1>6. \A s, t \in Int : s =< t => business_date_of(s) =< business_date_of(t)
  BY <1>3 DEF business_date_of
<1> QED BY <1>4, <1>5, <1>6

\* A range is the days in it.
LEMMA RangeOf ==
    \A t \in Int, from, to \in Int :
        t \in range_window(from, to) <=> business_date_of(t) \in from .. to
BY DayOf DEF range_window

\* The days are consecutive.
LEMMA DaysAreConsecutive ==
    /\ Days \subseteq Int
    /\ \A t \in 0 .. LastInstant : business_date_of(t) \in Days
    /\ \A from, to \in Days, d \in Int : from =< d /\ d =< to => d \in Days
<1> USE DayReportsAssumption
<1>1. Days \subseteq Int
  BY DayOf DEF Days
<1>2. \A t \in 0 .. LastInstant : business_date_of(t) \in Days
  BY DEF Days
<1>0. \A x, y \in Int, n \in Nat : x =< y => x * n =< y * n
  OBVIOUS
<1>3. ASSUME NEW from \in Days, NEW to \in Days, NEW d \in Int, from =< d, d =< to
      PROVE  d \in Days
  <2>1. PICK s \in 0 .. LastInstant : from = business_date_of(s)
    BY DEF Days
  <2>2. PICK e \in 0 .. LastInstant : to = business_date_of(e)
    BY DEF Days
  <2>3. CASE d = from
    BY <2>3
  <2>4. CASE d # from
    <3>1. PICK t : t = d * DayLength + boundary
      OBVIOUS
    <3>2. t \in Int /\ t \in day_window(d)
      BY <3>1 DEF day_window
    <3>3. business_date_of(t) = d
      BY <3>2, DayOf
    <3>4. s < t
      <4>1. from \in Int /\ d \in Int /\ s \in Int /\ from < d
        BY <1>1, <1>3, <2>4
      <4>2. t =< s => d =< from
        BY <2>1, <3>2, <3>3, <4>1, DayOf
      <4> QED BY <3>2, <4>1, <4>2
    <3>5. t =< e
      <4>1. e \in day_window(to)
        BY <2>2, <1>1, DayOf
      <4>2. to * DayLength + boundary =< e
        BY <4>1 DEF day_window
      <4>3. d * DayLength =< to * DayLength
        BY <1>0, <1>1, <1>3
      <4>4. e \in Int /\ to \in Int
        BY <1>1
      <4> QED BY <3>1, <4>2, <4>3, <4>4
    <3> QED BY <3>2, <3>3, <3>4, <3>5, <1>2
  <2> QED BY <2>3, <2>4
<1> QED BY <1>1, <1>2, <1>3

\* What was sold on a day, opened on it, and sold in a range.
LEMMA SoldMeans ==
    ASSUME OrderTypes
    PROVE  /\ \A d \in Int : Sold(d) =
                {o \in Orders : order[o].status \in SETTLED /\ business_date_of(order[o].at) = d}
           /\ \A d \in Int : OpenedIn(day_window(d)) =
                {o \in Orders : order[o].status # "none" /\ business_date_of(order[o].at) = d}
           /\ \A f, l \in Int : SettledIn(range_window(f, l)) =
                {o \in Orders : /\ order[o].status \in SETTLED
                                /\ business_date_of(order[o].at) \in f .. l}
           /\ \A o \in Orders : order[o].at \in Int /\ business_date_of(order[o].at) \in Days
           /\ now \in Int /\ today \in Days /\ today \in Int
<1>1. \A o \in Orders : order[o].at \in 0 .. LastInstant /\ order[o].at \in Int
  <2>1. \A o \in Orders : order[o].at \in 0 .. LastInstant
    BY DEF OrderTypes
  <2>2. 0 .. LastInstant \subseteq Int
    OBVIOUS
  <2> QED BY <2>1, <2>2
<1>2. now \in 0 .. LastInstant /\ now \in Int
  BY DayReportsAssumption DEF OrderTypes
<1>3. \A o \in Orders, d \in Int : order[o].at \in day_window(d) <=> business_date_of(order[o].at) = d
  BY <1>1, DayOf
<1>4. \A o \in Orders, f, l \in Int :
         order[o].at \in range_window(f, l) <=> business_date_of(order[o].at) \in f .. l
  BY <1>1, RangeOf
<1>5. \A o \in Orders : order[o].status \in SETTLED => order[o].status # "none"
  BY DEF SETTLED
<1>6. \A d \in Int : OpenedIn(day_window(d)) =
        {o \in Orders : order[o].status # "none" /\ business_date_of(order[o].at) = d}
  BY <1>3 DEF OpenedIn
<1>7. \A d \in Int : Sold(d) =
        {o \in Orders : order[o].status \in SETTLED /\ business_date_of(order[o].at) = d}
  BY <1>5, <1>6 DEF Sold, SettledIn
<1>8. \A f, l \in Int : SettledIn(range_window(f, l)) =
        {o \in Orders : order[o].status \in SETTLED /\ business_date_of(order[o].at) \in f .. l}
  BY <1>4, <1>5 DEF SettledIn, OpenedIn
<1>9. \A o \in Orders : business_date_of(order[o].at) \in Days
  BY <1>1, DaysAreConsecutive
<1>10. today \in Days /\ today \in Int
  BY <1>2, DaysAreConsecutive DEF today
<1> QED BY <1>1, <1>2, <1>6, <1>7, <1>8, <1>9, <1>10

\* The same after a step.
LEMMA SoldMeansNext ==
    ASSUME OrderTypes'
    PROVE  /\ \A d \in Int : Sold(d)' =
                {o \in Orders : order'[o].status \in SETTLED /\ business_date_of(order'[o].at) = d}
           /\ \A d \in Int : OpenedIn(day_window(d))' =
                {o \in Orders : order'[o].status # "none" /\ business_date_of(order'[o].at) = d}
           /\ \A f, l \in Int : SettledIn(range_window(f, l))' =
                {o \in Orders : /\ order'[o].status \in SETTLED
                                /\ business_date_of(order'[o].at) \in f .. l}
           /\ today' \in Int
<1>1. \A o \in Orders : order'[o].at \in 0 .. LastInstant /\ order'[o].at \in Int
  <2>1. \A o \in Orders : order'[o].at \in 0 .. LastInstant
    BY DEF OrderTypes, SETTLED
  <2>2. 0 .. LastInstant \subseteq Int
    OBVIOUS
  <2> QED BY <2>1, <2>2
<1>2. now' \in 0 .. LastInstant /\ now' \in Int
  BY DayReportsAssumption DEF OrderTypes
<1>3. \A o \in Orders, d \in Int : order'[o].at \in day_window(d) <=> business_date_of(order'[o].at) = d
  BY <1>1, DayOf
<1>4. \A o \in Orders, f, l \in Int :
         order'[o].at \in range_window(f, l) <=> business_date_of(order'[o].at) \in f .. l
  BY <1>1, RangeOf
<1>5. \A o \in Orders : order'[o].status \in SETTLED => order'[o].status # "none"
  BY DEF SETTLED
<1>6. \A d \in Int : OpenedIn(day_window(d))' =
        {o \in Orders : order'[o].status # "none" /\ business_date_of(order'[o].at) = d}
  BY <1>3 DEF OpenedIn, day_window
<1>7. \A d \in Int : Sold(d)' =
        {o \in Orders : order'[o].status \in SETTLED /\ business_date_of(order'[o].at) = d}
  BY <1>5, <1>6 DEF Sold, SettledIn, SETTLED
<1>8. \A f, l \in Int : SettledIn(range_window(f, l))' =
        {o \in Orders : order'[o].status \in SETTLED /\ business_date_of(order'[o].at) \in f .. l}
  BY <1>4, <1>5 DEF SettledIn, OpenedIn, SETTLED, range_window, day_window
<1>9. today' \in Int
  BY <1>2, DayOf DEF today, business_date_of
<1> QED BY <1>6, <1>7, <1>8, <1>9

-----------------------------------------------------------------------------
(* Rows.                                                                   *)

\* What a statement writes: rows of their own keys that count each sale once.
LEMMA NewRowsFit ==
    ASSUME OrderTypes, NEW d \in Days, NEW t \in Tables, NEW some \in SUBSET Sold(d)
    PROVE  /\ NewRows(t, some) \subseteq Row
           /\ RowsAre(t, d, NewRows(t, some))
           /\ Counted(NewRows(t, some)) = some
           /\ some # {} \/ t = "sales" => NewRows(t, some) # {}
<1>0. d \in Int /\ some \in SUBSET Orders
  BY SoldMeans, DaysAreConsecutive
<1>1. \A o \in Orders : order[o].at \in 0 .. LastInstant
  BY DEF OrderTypes
<1>2. 0 \in 0 .. LastInstant
  BY DayReportsAssumption
<1>3. CASE t = "products"
  <2>1. NewRows(t, some) = IF some = {} THEN {} ELSE {[key |-> 0, orders |-> some]}
    BY <1>3 DEF NewRows, RowOf
  <2>2. NewRows(t, some) \subseteq Row
    BY <1>0, <1>2, <2>1 DEF Row
  <2>3. RowsAre(t, d, NewRows(t, some))
    BY <1>3, <2>1 DEF RowsAre, RowFits
  <2>4. Counted(NewRows(t, some)) = some
    <3>1. CASE some = {}
      BY <2>1, <3>1 DEF Counted
    <3>2. CASE some # {}
      <4>1. NewRows(t, some) = {[key |-> 0, orders |-> some]}
        BY <2>1, <3>2
      <4> QED BY <4>1 DEF Counted
    <3> QED BY <3>1, <3>2
  <2> QED BY <1>3, <2>1, <2>2, <2>3, <2>4
<1>4. CASE t = "hours"
  <2>1. NewRows(t, some) = {[key |-> at, orders |-> {o \in some : order[o].at = at}] :
                              at \in {order[o].at : o \in some}}
    BY <1>4 DEF NewRows, RowOf
  <2>2. \A r \in NewRows(t, some) : \E o \in some :
           r = [key |-> order[o].at, orders |-> {u \in some : order[u].at = order[o].at}]
    BY <2>1
  <2>3. \A o \in some :
           [key |-> order[o].at, orders |-> {u \in some : order[u].at = order[o].at}]
              \in NewRows(t, some)
    BY <2>1
  <2> DEFINE these == NewRows(t, some)
  <2> HIDE DEF these
  <2>4. these \subseteq Row
    BY <1>0, <1>1, <2>2 DEF Row, these
  <2>5. \A r \in these : /\ r.orders \subseteq some /\ r.orders # {}
                         /\ r.orders = {u \in some : order[u].at = r.key}
    BY <2>2 DEF these
  <2>6. \A r, s \in these : r.key = s.key => r = s
    <3>1. \A r \in these : r = [key |-> r.key, orders |-> {u \in some : order[u].at = r.key}]
      BY <2>2 DEF these
    <3> QED BY <3>1
  <2>7. \A r \in these : RowFits(t, d, r)
    BY <1>4, <2>5 DEF RowFits
  <2>8. Counted(these) = some
    <3>1. \A o \in some : \E r \in these : o \in r.orders
      <4> TAKE o \in some
      <4>1. PICK r : r = [key |-> order[o].at,
                          orders |-> {u \in some : order[u].at = order[o].at}]
        OBVIOUS
      <4> QED BY <2>3, <4>1 DEF these
    <3> QED BY <2>5, <3>1 DEF Counted
  <2>9. some # {} => these # {}
    BY <2>3 DEF these
  <2> QED BY <1>4, <2>4, <2>6, <2>7, <2>8, <2>9 DEF RowsAre, these
<1>5. CASE t = "sales"
  <2>1. NewRows(t, some) = {[key |-> 0, orders |-> some]}
    BY <1>5 DEF NewRows, RowOf
  <2>2. NewRows(t, some) \subseteq Row
    BY <1>0, <1>2, <2>1 DEF Row
  <2>3. RowsAre(t, d, NewRows(t, some))
    BY <1>5, <2>1 DEF RowsAre, RowFits
  <2>4. Counted(NewRows(t, some)) = some
    BY <2>1 DEF Counted
  <2> QED BY <1>5, <2>1, <2>2, <2>3, <2>4
<1> QED BY <1>3, <1>4, <1>5 DEF Tables

\* Whoever reads the sales of a day after another wrote of it writes one of its keys.
LEMMA LateComersClash ==
    ASSUME OrderTypes, NEW d \in Days, NEW t \in Tables,
           NEW these \in SUBSET Row, these # {}, \A r \in these : RowFits(t, d, r),
           NEW some, t # "sales" => some = Sold(d)
    PROVE  Clash(these, NewRows(t, some))
<1>1. PICK r \in these : RowFits(t, d, r)
  OBVIOUS
<1>2. SUFFICES \E s \in NewRows(t, some) : r.key = s.key
  BY <1>1 DEF Clash
<1>3. CASE t = "sales"
  <2>1. [key |-> 0, orders |-> some] \in NewRows(t, some)
    BY <1>3 DEF NewRows, RowOf
  <2> QED BY <1>1, <1>3, <2>1 DEF RowFits
<1>4. CASE t = "products"
  <2>1. some # {}
    BY <1>1, <1>4 DEF RowFits
  <2>2. [key |-> 0, orders |-> some] \in NewRows(t, some)
    BY <1>4, <2>1 DEF NewRows, RowOf
  <2> QED BY <1>1, <1>4, <2>2 DEF RowFits
<1>5. CASE t = "hours"
  <2>1. PICK o \in r.orders : o \in some /\ order[o].at = r.key
    BY <1>1, <1>5 DEF RowFits
  <2>2. NewRows(t, some) = {[key |-> at, orders |-> {u \in some : order[u].at = at}] :
                              at \in {order[u].at : u \in some}}
    BY <1>5 DEF NewRows, RowOf
  <2>3. [key |-> order[o].at, orders |-> {u \in some : order[u].at = order[o].at}]
           \in NewRows(t, some)
    BY <2>1, <2>2
  <2> QED BY <2>1, <2>3
<1> QED BY <1>3, <1>4, <1>5 DEF Tables

\* What a request or task is doing tells what it holds.
LEMMA StageTells ==
    ASSUME NEW w \in Doing
    PROVE  /\ w.stage \in Tables \cup {"commit"} => w \in BuildSet
           /\ w.stage = "next" => w \in JobSet \cup RequestSet("next")
           /\ w.stage = "rolled" => w \in RequestSet("rolled")
           /\ w.stage = "live" => w \in LiveSet
           /\ w.stage = "idle" => w = Idle
           /\ w.stage \in Tables \cup {"idle", "next", "commit", "rolled", "live"}
<1>1. CASE w = Idle
  BY <1>1 DEF Idle, Tables
<1>2. CASE w \in JobSet
  BY <1>2 DEF JobSet, Tables
<1>3. CASE w \in RequestSet("next") \cup RequestSet("rolled")
  BY <1>3 DEF RequestSet, Tables
<1>4. CASE w \in BuildSet
  BY <1>4 DEF BuildSet, Tables
<1>5. CASE w \in LiveSet
  BY <1>5 DEF LiveSet, Tables
<1> QED BY <1>1, <1>2, <1>3, <1>4, <1>5 DEF Doing

\* Transactions write table by table.
LEMMA WritesInOrder ==
    /\ \A s, t \in Tables : /\ s \notin Later[s]
                            /\ After[s] \in Later[s] /\ After[s] \in Tables \cup {"commit"}
                            /\ s \in Later[t] => After[s] \in Later[t]
                            /\ After[s] \in Later[t] => s \in Later[t] \/ s = t
                            /\ Later[t] \subseteq Tables \cup {"commit"}
                            /\ "commit" \in Later[t]
                            /\ "products" \notin Later[t]
BY DEF Tables, Later, After

-----------------------------------------------------------------------------
(* Time passes and orders change under everybody's feet.                   *)

\* Nothing is sold and nothing built at first.
LEMMA ReportsStart == DayReportsInit => ReportsInv
<1> SUFFICES ASSUME DayReportsInit PROVE ReportsInv
  OBVIOUS
<1> USE DayReportsAssumption
<1>1. OrderTypes
  BY DEF DayReportsInit, OrderTypes
<1>2. rows \in [Tables -> [Days -> SUBSET Row]] /\ early \subseteq Days /\ jobs \in 0 .. MaxJobs
  BY DEF DayReportsInit
<1>3. builder \in [Builders -> Doing] /\ \A b \in Builders : builder[b] = Idle
  BY DEF DayReportsInit, Doing
<1>4. \A t \in Tables, d \in Days : rows[t][d] = {}
  BY DEF DayReportsInit
<1>5. RowsFit /\ BuiltIsOver
  BY <1>4 DEF RowsFit, RowsAre, BuiltIsOver, Tables
<1>6. \A b \in Builders : builder[b].stage = "idle"
  BY <1>3 DEF Idle
<1>7. \A b \in Builders : Fits(builder[b])
  BY <1>6 DEF Fits, Tables
<1>8. OneInserts /\ WaitersLose
  BY <1>6 DEF OneInserts, WaitersLose, HasWritten, Building, Later, Tables
<1> QED BY <1>1, <1>2, <1>3, <1>5, <1>7, <1>8 DEF ReportsInv, ReportTypes

\* What was sold stays sold, and a day that is over sells no more.
SoldStays ==
    /\ \A d \in Int : /\ Sold(d) \subseteq Sold(d)'
                      /\ Over(d) => Over(d)' /\ Sold(d)' = Sold(d)
    /\ \A o \in Orders : order[o].status \in SETTLED =>
          order'[o].at = order[o].at /\ order'[o].status \in SETTLED

\* Orders that open, are paid or are cancelled keep that.
LEMMA OrdersMove ==
    ASSUME OrderTypes, TimePasses \/ \E o \in Orders : OpenOrder(o) \/ CloseOrder(o)
    PROVE  OrderTypes' /\ SoldStays
<1> USE DayReportsAssumption
<1>0. now \in Int /\ now \in 0 .. LastInstant /\ today \in Int
      /\ \A o \in Orders : order[o].at \in Int /\ order[o].at \in 0 .. LastInstant
  BY SoldMeans DEF OrderTypes
<1>1. CASE TimePasses
  <2>1. now' = now + 1 /\ order' = order /\ now < LastInstant
    BY <1>1 DEF TimePasses
  <2>2. OrderTypes'
    <3>1. now' \in 0 .. LastInstant
      BY <1>0, <2>1
    <3>2. \A o \in Orders : order[o].at =< now'
      BY <1>0, <2>1 DEF OrderTypes
    <3> QED BY <2>1, <3>1, <3>2 DEF OrderTypes, SETTLED
  <2>3. today' \in Int /\ today =< today'
    BY <1>0, <2>1, DayOf DEF today, business_date_of
  <2>4. \A d \in Int : Sold(d)' = Sold(d) /\ OpenedIn(day_window(d))' = OpenedIn(day_window(d))
    BY <2>1 DEF Sold, SettledIn, OpenedIn, SETTLED, day_window
  <2>5. \A d \in Int : Over(d) => Over(d)'
    BY <1>0, <2>1, <2>3, <2>4 DEF Over
  <2> QED BY <2>1, <2>2, <2>4, <2>5 DEF SoldStays
<1>2. ASSUME NEW o \in Orders, OpenOrder(o) PROVE OrderTypes' /\ SoldStays
  <2>1. /\ now' = now /\ order[o].status = "none"
        /\ order' = [order EXCEPT ![o] = [at |-> now, status |-> "OPEN"]]
    BY <1>2 DEF OpenOrder
  <2>2. order'[o] = [at |-> now, status |-> "OPEN"] /\ \A u \in Orders : u # o => order'[u] = order[u]
    BY <2>1 DEF OrderTypes
  <2>3. OrderTypes'
    <3>1. order' \in [Orders -> [at : 0 .. LastInstant,
                                 status : {"none", "OPEN", "CANCELLED"} \cup SETTLED]]
      BY <1>0, <2>1 DEF OrderTypes
    <3>2. \A u \in Orders : order'[u].at =< now
      <4>1. order'[o].at =< now
        BY <1>0, <2>2
      <4> QED BY <2>2, <4>1 DEF OrderTypes
    <3> QED BY <1>0, <2>1, <3>1, <3>2 DEF OrderTypes, SETTLED
  <2>4. today' = today
    BY <2>1 DEF today, business_date_of
  <2>5. \A d \in Int : Sold(d)' = Sold(d)
    <3> TAKE d \in Int
    <3>1. order[o].status \notin SETTLED /\ order'[o].status \notin SETTLED
      BY <2>1, <2>2 DEF SETTLED
    <3>2. \A u \in Orders : order'[u].status \in SETTLED <=> order[u].status \in SETTLED
      BY <2>2, <3>1
    <3>3. \A u \in Orders : order[u].status \in SETTLED => order'[u] = order[u]
      BY <2>2, <3>1
    <3>4. Sold(d) = {u \in Orders : order[u].status \in SETTLED /\ business_date_of(order[u].at) = d}
      BY SoldMeans
    <3>5. Sold(d)' = {u \in Orders : order'[u].status \in SETTLED /\ business_date_of(order'[u].at) = d}
      BY <2>3, SoldMeansNext
    <3> QED BY <3>2, <3>3, <3>4, <3>5
  <2>6. \A d \in Int : Over(d) => Over(d)'
    <3> SUFFICES ASSUME NEW d \in Int, Over(d) PROVE Over(d)'
      OBVIOUS
    <3>1. \A u \in OpenedIn(day_window(d))' : order'[u].status # "OPEN"
      <4> SUFFICES ASSUME NEW u \in OpenedIn(day_window(d))' PROVE order'[u].status # "OPEN"
        OBVIOUS
      <4>1. u \in Orders /\ order'[u].status # "none" /\ business_date_of(order'[u].at) = d
        BY <2>3, SoldMeansNext
      <4>2. CASE u = o
        <5>1. business_date_of(now) = d
          BY <2>2, <4>1, <4>2
        <5> QED BY <1>0, <5>1 DEF Over, today
      <4>3. CASE u # o
        <5>1. order'[u] = order[u]
          BY <2>2, <4>1, <4>3
        <5>2. u \in OpenedIn(day_window(d))
          BY <4>1, <5>1, SoldMeans
        <5> QED BY <5>1, <5>2 DEF Over
      <4> QED BY <4>2, <4>3
    <3> QED BY <2>4, <3>1 DEF Over
  <2>7. \A u \in Orders : order[u].status \in SETTLED =>
          order'[u].at = order[u].at /\ order'[u].status \in SETTLED
    BY <2>1, <2>2 DEF SETTLED
  <2> QED BY <2>3, <2>5, <2>6, <2>7 DEF SoldStays
<1>3. ASSUME NEW o \in Orders, CloseOrder(o) PROVE OrderTypes' /\ SoldStays
  <2>1. PICK s \in {"CANCELLED"} \cup SETTLED :
          /\ order' = [order EXCEPT ![o].status = s]
          /\ \/ order[o].status = "OPEN"
             \/ order[o].status = "PAID" /\ s = "REFUNDED"
    BY <1>3 DEF CloseOrder, SETTLED
  <2>0. now' = now /\ order[o] \in [at : 0 .. LastInstant,
                                    status : {"none", "OPEN", "CANCELLED"} \cup SETTLED]
    BY <1>3 DEF CloseOrder, OrderTypes
  <2>2. /\ order'[o] = [at |-> order[o].at, status |-> s]
        /\ \A u \in Orders : u # o => order'[u] = order[u]
        /\ \A u \in Orders : order'[u].at = order[u].at
    BY <2>0, <2>1 DEF OrderTypes
  <2>3. OrderTypes'
    <3>1. order' \in [Orders -> [at : 0 .. LastInstant,
                                 status : {"none", "OPEN", "CANCELLED"} \cup SETTLED]]
      BY <2>0, <2>1 DEF OrderTypes
    <3> QED BY <1>0, <2>0, <2>2, <3>1 DEF OrderTypes, SETTLED
  <2>4. today' = today
    BY <2>0 DEF today, business_date_of
  <2>5. \A u \in Orders : order[u].status \in SETTLED =>
          order'[u].at = order[u].at /\ order'[u].status \in SETTLED
    <3>1. order[o].status \in SETTLED => s \in SETTLED
      BY <2>1 DEF SETTLED
    <3> QED BY <2>2, <3>1
  <2>6. \A d \in Int : Sold(d) \subseteq Sold(d)'
    BY <2>3, <2>5, SoldMeans, SoldMeansNext
  <2>7. \A d \in Int : OpenedIn(day_window(d))' = OpenedIn(day_window(d))
    <3>1. order[o].status # "none" /\ s # "none"
      BY <2>1 DEF SETTLED
    <3>2. \A u \in Orders : order'[u].status # "none" <=> order[u].status # "none"
      BY <2>2, <3>1
    <3> TAKE d \in Int
    <3>3. OpenedIn(day_window(d)) =
            {u \in Orders : order[u].status # "none" /\ business_date_of(order[u].at) = d}
      BY SoldMeans
    <3>4. OpenedIn(day_window(d))' =
            {u \in Orders : order'[u].status # "none" /\ business_date_of(order'[u].at) = d}
      BY <2>3, SoldMeansNext
    <3> QED BY <2>2, <3>2, <3>3, <3>4
  <2>8. ASSUME NEW d \in Int, Over(d) PROVE Over(d)' /\ Sold(d)' = Sold(d)
    <3>1. \A u \in OpenedIn(day_window(d)) : u \in Orders /\ order[u].status # "OPEN"
      BY <2>8, SoldMeans DEF Over
    <3>2. s # "OPEN"
      BY <2>1 DEF SETTLED
    <3>3. \A u \in OpenedIn(day_window(d)) : order'[u].status # "OPEN"
      BY <2>2, <3>1, <3>2
    <3>4. Over(d)'
      BY <2>4, <2>7, <2>8, <3>3 DEF Over
    <3>5. \A u \in OpenedIn(day_window(d)) :
             order'[u].status \in SETTLED <=> order[u].status \in SETTLED
      <4>1. o \in OpenedIn(day_window(d)) => order[o].status = "PAID" /\ s = "REFUNDED"
        BY <2>1, <3>1
      <4> QED BY <2>2, <3>1, <4>1 DEF SETTLED
    <3>6. Sold(d)' = {u \in OpenedIn(day_window(d)) : order'[u].status \in SETTLED}
      BY <2>7 DEF Sold, SettledIn, SETTLED, day_window
    <3>7. Sold(d)' = Sold(d)
      BY <3>5, <3>6 DEF Sold, SettledIn
    <3> QED BY <3>4, <3>7
  <2> QED BY <2>3, <2>5, <2>6, <2>8 DEF SoldStays
<1> QED BY <1>1, <1>2, <1>3

\* Rows and work that fit the sales go on fitting them.
LEMMA RowsStay ==
    ASSUME SoldStays, NEW t \in Tables, NEW d \in Int, NEW some, RowsAre(t, d, some)
    PROVE  RowsAre(t, d, some)'
<1>1. SUFFICES ASSUME NEW r \in some PROVE RowFits(t, d, r)'
  BY DEF RowsAre
<1>2. RowFits(t, d, r)
  BY DEF RowsAre
<1>3. r.orders \subseteq Sold(d)'
  BY <1>2 DEF RowFits, SoldStays
<1>4. ASSUME t = "hours", NEW o \in r.orders PROVE order'[o].at = r.key
  <2>1. o \in Orders /\ order[o].status \in SETTLED
    BY <1>2 DEF RowFits, Sold, SettledIn, OpenedIn
  <2> QED BY <1>2, <1>4, <2>1 DEF RowFits, SoldStays
<1> QED BY <1>2, <1>3, <1>4 DEF RowFits

\* (the work)
LEMMA FitsStay ==
    ASSUME OrderTypes, OrderTypes', SoldStays, rows' = rows, NEW w \in Doing, Fits(w)
    PROVE  Fits(w)'
<1>0. Days \subseteq Int
  BY DaysAreConsecutive
<1>1. \A o \in Orders : order[o].status \in SETTLED =>
        order'[o].at = order[o].at /\ order'[o].status \in SETTLED
  BY DEF SoldStays
<1>2. \A f, l \in Int : SettledIn(range_window(f, l)) \subseteq SettledIn(range_window(f, l))'
  BY <1>1, SoldMeans, SoldMeansNext
<1>3. ASSUME NEW v \in RequestSet("next") \cup RequestSet("rolled"), NEW dates, Promise(v, dates)
      PROVE  Promise(v, dates)'
  <2>1. v.from \in Int /\ v.to \in Int
    BY <1>0 DEF RequestSet
  <2>2. v.asked \subseteq SettledIn(range_window(v.from, v.to))'
    BY <1>2, <1>3, <2>1 DEF Promise
  <2> QED BY <1>3, <2>2 DEF Promise, LastRolled
<1>4. ASSUME w.stage \in Tables \cup {"commit"} PROVE BuildFits(w)'
  <2>1. w \in BuildSet /\ BuildFits(w)
    BY <1>4, StageTells DEF Fits
  <2>2. w.date \in Int /\ w.work \in JobSet \cup RequestSet("next")
    BY <1>0, <2>1 DEF BuildSet
  <2>3. w.totals \subseteq Sold(w.date)'
    BY <2>1, <2>2 DEF BuildFits, SoldStays
  <2>4. \A t \in Tables : TableFits(w, t)'
    <3> TAKE t \in Tables
    <3>1. RowsAre(t, w.date, w.done[t].new)'
      BY <2>1, <2>2, RowsStay DEF BuildFits, TableFits
    <3> QED BY <2>1, <3>1 DEF BuildFits, TableFits, Inserted, Later, Clash
  <2>5. w.finished => /\ Over(w.date)' /\ w.totals = Sold(w.date)'
                      /\ \A t \in Tables : Inserted(w, t) => Counted(w.done[t].new) = Sold(w.date)'
    BY <2>1, <2>2 DEF BuildFits, SoldStays
  <2>6. w.work.report => Promise(w.work, w.work.todo \cup {w.date})'
    <3> SUFFICES ASSUME w.work.report PROVE Promise(w.work, w.work.todo \cup {w.date})'
      OBVIOUS
    <3>1. w.work \in RequestSet("next")
      BY <2>2 DEF JobSet
    <3>2. PICK v, dates : v = w.work /\ dates = w.work.todo \cup {w.date}
      OBVIOUS
    <3>3. v \in RequestSet("next") /\ Promise(v, dates)
      BY <2>1, <3>1, <3>2 DEF BuildFits
    <3>4. Promise(v, dates)'
      BY <1>3, <3>3
    <3> QED BY <3>2, <3>4
  <2> QED BY <2>3, <2>4, <2>5, <2>6 DEF BuildFits, Inserted
<1>5. ASSUME w.stage = "next" PROVE w.report => Promise(w, w.todo)'
  <2> SUFFICES ASSUME w.report PROVE Promise(w, w.todo)'
    OBVIOUS
  <2>1. w \in RequestSet("next")
    BY <1>5, StageTells DEF JobSet
  <2>2. PICK dates : dates = w.todo
    OBVIOUS
  <2>3. Promise(w, dates)
    BY <1>5, <2>2 DEF Fits
  <2>4. Promise(w, dates)'
    BY <1>3, <2>1, <2>3
  <2> QED BY <2>2, <2>4
<1>6. ASSUME w.stage = "rolled" PROVE Promise(w, {})'
  <2>1. w \in RequestSet("rolled") /\ Promise(w, {})
    BY <1>6, StageTells DEF Fits
  <2> QED BY <1>3, <2>1
<1>7. ASSUME w.stage = "live" PROVE LiveFits(w)'
  <2>1. w \in LiveSet /\ LiveFits(w)
    BY <1>7, StageTells DEF Fits
  <2>2. w.from \in Int /\ w.to \in Int /\ \A p \in w.rolled : p[1] \in Int
    BY <1>0, <2>1 DEF LiveSet
  <2>3. w.asked \subseteq SettledIn(range_window(w.from, w.to))'
    BY <1>2, <2>1, <2>2 DEF LiveFits
  <2>4. \A p \in w.rolled : p[2].orders \subseteq Sold(p[1])'
    BY <2>1, <2>2 DEF LiveFits, SoldStays
  <2>5. \A o \in w.asked : order'[o].at = order[o].at
    <3>1. \A o \in w.asked : o \in Orders /\ order[o].status \in SETTLED
      BY <2>1 DEF LiveFits, SettledIn, OpenedIn
    <3> QED BY <1>1, <3>1
  <2>6. \A o \in w.asked : business_date_of(order'[o].at) = business_date_of(order[o].at)
    BY <2>5
  <2> QED BY <2>1, <2>3, <2>4, <2>5, <2>6 DEF LiveFits, LastRolled, CountedOnce, Counted, business_date_of
<1> QED BY <1>4, <1>5, <1>6, <1>7 DEF Fits

\* So every step that only moves orders on keeps the books,
LEMMA BooksStay ==
    ASSUME ReportsInv, OrderTypes', SoldStays, rows' = rows, early' = early
    PROVE  RowsFit' /\ BuiltIsOver'
<1>0. Days \subseteq Int
  BY DaysAreConsecutive
<1>1. RowsFit'
  <2>1. SUFFICES ASSUME NEW t \in Tables, NEW d \in Days PROVE RowsAre(t, d, rows[t][d])'
    BY DEF RowsFit, Tables, Days, business_date_of
  <2>2. PICK some : some = rows[t][d]
    OBVIOUS
  <2>3. RowsAre(t, d, some)'
    BY <1>0, <2>2, RowsStay DEF ReportsInv, RowsFit
  <2>4. some = rows'[t][d]
    BY <2>2
  <2> QED BY <2>3, <2>4
<1>2. BuiltIsOver'
  <2>1. SUFFICES ASSUME NEW d \in Days, rows["sales"][d] # {}, d \notin early
                 PROVE  Over(d)' /\ \A t \in Tables : Counted(rows[t][d]) = Sold(d)'
    BY DEF BuiltIsOver, Tables, Days, business_date_of, Counted
  <2>2. Over(d) /\ \A t \in Tables : Counted(rows[t][d]) = Sold(d)
    BY <2>1 DEF ReportsInv, BuiltIsOver
  <2> QED BY <1>0, <2>1, <2>2 DEF SoldStays
<1> QED BY <1>1, <1>2

\* and with them the invariant.
LEMMA SalesMove ==
    ASSUME ReportsInv, TimePasses \/ \E o \in Orders : OpenOrder(o) \/ CloseOrder(o)
    PROVE  ReportsInv'
<1>1. UNCHANGED <<rows, builder, early, jobs>>
  BY DEF TimePasses, OpenOrder, CloseOrder
<1>2. OrderTypes /\ OrderTypes' /\ SoldStays
  BY OrdersMove DEF ReportsInv, ReportTypes
<1>3. ReportTypes'
  <2>1. builder' \in [Builders -> Doing]
    BY <1>1 DEF ReportsInv, ReportTypes
  <2>2. rows' \in [Tables -> [Days -> SUBSET Row]] /\ early' \subseteq Days /\ jobs' \in 0 .. MaxJobs
    BY <1>1 DEF ReportsInv, ReportTypes
  <2> QED BY <1>2, <2>1, <2>2 DEF ReportTypes
<1>4. RowsFit' /\ BuiltIsOver'
  BY <1>1, <1>2, BooksStay
<1>5. \A b \in Builders : Fits(builder[b])'
  <2> TAKE b \in Builders
  <2>1. PICK w \in Doing : w = builder[b]
    BY DEF ReportsInv, ReportTypes
  <2>2. Fits(w)'
    BY <1>1, <1>2, <2>1, FitsStay DEF ReportsInv
  <2>3. w = builder'[b]
    BY <1>1, <2>1
  <2> QED BY <2>2, <2>3
<1>6. OneInserts' /\ WaitersLose'
  BY <1>1 DEF ReportsInv, OneInserts, WaitersLose, HasWritten, Building, Loses, Clash, Later, Tables
<1> QED BY <1>3, <1>4, <1>5, <1>6 DEF ReportsInv

-----------------------------------------------------------------------------
(* One request or task moves.                                              *)

\* What it goes on to do agrees with what the others do.
Joins(b, w) ==
    /\ \A a \in Builders \ {b}, t \in Tables :
          Inserted(w, t) /\ HasWritten(a, t) /\ builder[a].date = w.date
          => builder[a].done[t].new = {} \/ w.done[t].new = {}
    /\ w.stage \in Tables \cup {"commit"} /\ w.waits # Nobody =>
          w.waits # b /\ Loses(w, w.waits, w.stage)
    /\ \A a \in Builders \ {b} : WaitsFor(a, b) =>
          /\ Inserted(w, builder[a].stage) /\ w.date = builder[b].date
          /\ w.done[builder[a].stage].new = builder[b].done[builder[a].stage].new

\* A task that moves on by itself keeps the invariant when what it goes on to do fits.
LEMMA OneMoves ==
    ASSUME ReportsInv, NEW b \in Builders, NEW w \in Doing, Fits(w), Joins(b, w),
           builder' = [builder EXCEPT ![b] = w],
           now' = now, order' = order, rows' = rows, early' = early, jobs' \in 0 .. MaxJobs
    PROVE  ReportsInv'
<1>1. SoldStays
  <2>1. \A d \in Int : Sold(d)' = Sold(d)
    BY DEF Sold, SettledIn, OpenedIn, SETTLED, day_window
  <2>2. \A d \in Int : Over(d)' = Over(d)
    BY DEF Over, OpenedIn, day_window, today, business_date_of
  <2> QED BY <2>1, <2>2 DEF SoldStays
<1>2. OrderTypes /\ OrderTypes'
  BY DEF ReportsInv, ReportTypes, OrderTypes, SETTLED
<1>3. ReportTypes'
  <2>1. builder' \in [Builders -> Doing]
    BY DEF ReportsInv, ReportTypes
  <2>2. rows' \in [Tables -> [Days -> SUBSET Row]] /\ early' \subseteq Days
    BY DEF ReportsInv, ReportTypes
  <2> QED BY <1>2, <2>1, <2>2 DEF ReportTypes
<1>4. RowsFit' /\ BuiltIsOver'
  BY <1>1, <1>2, BooksStay
<1>5. builder'[b] = w /\ \A a \in Builders : a # b => builder'[a] = builder[a]
  BY DEF ReportsInv, ReportTypes
<1>6. \A a \in Builders : Fits(builder[a])'
  <2> TAKE a \in Builders
  <2>1. PICK v \in Doing : v = builder'[a] /\ Fits(v)
    BY <1>5 DEF ReportsInv, ReportTypes
  <2>2. Fits(v)'
    BY <1>1, <1>2, <2>1, FitsStay
  <2> QED BY <2>1, <2>2
<1>7. OneInserts'
  <2>1. SUFFICES ASSUME NEW a \in Builders, NEW c \in Builders, NEW t \in Tables, a # c,
                        builder'[a].stage \in Later[t], builder'[c].stage \in Later[t],
                        builder'[a].date = builder'[c].date
                 PROVE  builder'[a].done[t].new = {} \/ builder'[c].done[t].new = {}
    BY DEF OneInserts, HasWritten, Later, Tables
  <2>2. CASE a # b /\ c # b
    BY <1>5, <2>1, <2>2 DEF ReportsInv, OneInserts, HasWritten
  <2>3. CASE a = b
    BY <1>5, <2>1, <2>3 DEF Joins, HasWritten, Inserted
  <2>4. CASE c = b
    BY <1>5, <2>1, <2>4 DEF Joins, HasWritten, Inserted
  <2> QED BY <2>2, <2>3, <2>4
<1>8. WaitersLose'
  <2>1. SUFFICES ASSUME NEW a \in Builders, builder'[a].stage \in Tables \cup {"commit"},
                        builder'[a].waits # Nobody
                 PROVE  /\ builder'[a].waits # a
                        /\ Loses(builder[a], builder[a].waits, builder[a].stage)'
    BY DEF WaitersLose, Building, Tables
  <2>2. CASE a = b
    <3>1. w.waits # b /\ Loses(w, w.waits, w.stage)
      BY <1>5, <2>1, <2>2 DEF Joins
    <3>2. w \in BuildSet
      BY <1>5, <2>1, <2>2, StageTells
    <3>3. w.waits \in Builders
      BY <1>5, <2>1, <2>2, <3>2 DEF BuildSet
    <3>4. builder'[w.waits] = builder[w.waits]
      BY <1>5, <3>1, <3>3
    <3> QED BY <1>5, <2>2, <3>1, <3>4 DEF Loses, HasWritten, Clash, Later, Tables
  <2>3. CASE a # b
    <3>1. builder'[a] = builder[a] /\ Building(a) /\ builder[a].waits # Nobody
      BY <1>5, <2>1, <2>3 DEF Building
    <3>2. builder[a].waits # a /\ Loses(builder[a], builder[a].waits, builder[a].stage)
      BY <3>1 DEF ReportsInv, WaitersLose
    <3>3. builder[a].waits \in Builders
      <4>1. builder[a] \in BuildSet
        BY <3>1, StageTells DEF ReportsInv, ReportTypes, Building
      <4> QED BY <3>1, <4>1 DEF BuildSet
    <3>4. CASE builder[a].waits # b
      <4>1. builder'[builder[a].waits] = builder[builder[a].waits]
        BY <1>5, <3>3, <3>4
      <4> QED BY <3>1, <3>2, <4>1 DEF Loses, HasWritten, Clash, Later, Tables
    <3>5. CASE builder[a].waits = b
      <4>1. WaitsFor(a, b)
        BY <3>1, <3>5 DEF WaitsFor
      <4>2. /\ w.stage \in Later[builder[a].stage] /\ w.date = builder[b].date
            /\ w.done[builder[a].stage].new = builder[b].done[builder[a].stage].new
        BY <2>3, <4>1 DEF Joins, Inserted
      <4>3. /\ builder[a].stage \in Tables /\ builder[b].date = builder[a].date
            /\ Clash(builder[b].done[builder[a].stage].new, builder[a].done[builder[a].stage].new)
        BY <3>2, <3>5 DEF Loses
      <4>4. PICK t \in Tables : t = builder[a].stage
        BY <4>3
      <4>5. PICK those : those = builder[b].done[t].new
        OBVIOUS
      <4>6. /\ w.stage \in Later[t] /\ w.date = builder[a].date /\ w.done[t].new = those
            /\ Clash(those, builder[a].done[t].new)
        BY <4>2, <4>3, <4>4, <4>5
      <4>7. builder'[b] = w /\ builder'[a] = builder[a]
        BY <1>5, <3>1
      <4>8. Loses(builder[a], b, t)'
        BY <4>4, <4>6, <4>7 DEF Loses, HasWritten, Clash, Later, Tables
      <4> QED BY <2>3, <3>5, <4>4, <4>7, <4>8
    <3> QED BY <3>4, <3>5
  <2> QED BY <2>2, <2>3
<1> QED BY <1>3, <1>4, <1>6, <1>7, <1>8 DEF ReportsInv

\* Who is waited for has written what the other wants to write.
LEMMA WaitsForWriter ==
    ASSUME ReportsInv, NEW a \in Builders, NEW b \in Builders, WaitsFor(a, b)
    PROVE  /\ a # b /\ builder[a].stage \in Tables /\ HasWritten(b, builder[a].stage)
           /\ builder[b].date = builder[a].date /\ Building(b)
           /\ Clash(builder[b].done[builder[a].stage].new, builder[a].done[builder[a].stage].new)
<1>1. Building(a) /\ builder[a].waits = b /\ b # Nobody
  BY DayReportsAssumption DEF WaitsFor
<1>2. b # a /\ Loses(builder[a], b, builder[a].stage)
  BY <1>1 DEF ReportsInv, WaitersLose
<1>3. Building(b)
  BY <1>2, WritesInOrder DEF Loses, HasWritten, Building
<1> QED BY <1>2, <1>3 DEF Loses

\* Who has written nothing yet disturbs nobody.
LEMMA JoinsApart ==
    ASSUME ReportsInv, NEW b \in Builders, ~Building(b), NEW w,
           w.stage \notin Tables \cup {"commit"}
    PROVE  Joins(b, w)
<1>1. \A t \in Tables : ~Inserted(w, t)
  BY WritesInOrder DEF Inserted
<1>2. \A a \in Builders : ~WaitsFor(a, b)
  BY WaitsForWriter
<1> QED BY <1>1, <1>2 DEF Joins

\* What a request is to read of a day is known when it comes.
LEMMA StartMoves ==
    ASSUME ReportsInv, NEW b \in Builders, Nightly(b) \/ Rebuild(b) \/ Ask(b)
    PROVE  ReportsInv'
<1>0. OrderTypes /\ today \in Int /\ today \in Days /\ Days \subseteq Int
  BY SoldMeans, DaysAreConsecutive DEF ReportsInv, ReportTypes
<1>1. ASSUME NEW w \in JobSet \cup RequestSet("next"), w.report => Promise(w, w.todo),
             StartJob(b, w)
      PROVE  ReportsInv'
  <2>1. w.stage = "next" /\ w \in Doing
    BY DEF JobSet, RequestSet, Doing
  <2>2. Fits(w)
    BY <1>1, <2>1 DEF Fits, Tables
  <2>3. ~Building(b)
    BY <1>1 DEF StartJob, Busy, Building, Tables
  <2>4. Joins(b, w)
    BY <2>1, <2>3, JoinsApart DEF Tables
  <2>5. jobs' \in 0 .. MaxJobs
    BY <1>1, DayReportsAssumption DEF StartJob, ReportsInv, ReportTypes
  <2>6. /\ builder' = [builder EXCEPT ![b] = w]
        /\ now' = now /\ order' = order /\ rows' = rows /\ early' = early
    BY <1>1 DEF StartJob
  <2> QED BY <2>1, <2>2, <2>4, <2>5, <2>6, OneMoves
<1>2. CASE Nightly(b)
  <2>1. PICK w : w = Job({today - 1, today - 2} \cap Days, TRUE)
    OBVIOUS
  <2>2. w \in JobSet /\ w.report = FALSE
    BY <2>1 DEF Job, JobSet
  <2>3. StartJob(b, w)
    BY <1>2, <2>1 DEF Nightly
  <2> QED BY <1>1, <2>2, <2>3
<1>3. CASE Rebuild(b)
  <2>1. PICK from \in Days, to \in Days : StartJob(b, Job(from .. to, FALSE))
    BY <1>3 DEF Rebuild
  <2>2. PICK w : w = Job(from .. to, FALSE)
    OBVIOUS
  <2>3. from .. to \subseteq Days
    BY <1>0, DaysAreConsecutive
  <2>4. w \in JobSet /\ w.report = FALSE
    BY <2>2, <2>3 DEF Job, JobSet
  <2> QED BY <1>1, <2>1, <2>2, <2>4
<1>4. CASE Ask(b)
  <2>1. PICK from \in Days, to \in Days :
          \/ StartJob(b, Request(from, to, first_raw(from), Missing(from, to)))
          \/ StartJob(b, Request(from, to, from, {}))
    BY <1>4 DEF Ask
  <2>2. PICK raw_from, dates :
          /\ StartJob(b, Request(from, to, raw_from, dates))
          /\ \/ raw_from = first_raw(from) /\ dates = Missing(from, to)
             \/ raw_from = from /\ dates = {}
    BY <2>1
  <2>3. from \in Int /\ to \in Int /\ from .. to \subseteq Days
    BY <1>0, DaysAreConsecutive
  <2>4. raw_from \in Days /\ raw_from \in Int /\ from =< raw_from
    BY <1>0, <2>2, <2>3 DEF first_raw
  <2>5. dates \subseteq Days
    BY <2>2, <2>3 DEF Missing
  <2>6. PICK w : w = Request(from, to, raw_from, dates)
    OBVIOUS
  <2>7. SettledIn(range_window(from, to)) \subseteq Orders
    BY DEF SettledIn, OpenedIn
  <2>8. w \in RequestSet("next")
    BY <2>4, <2>5, <2>6, <2>7 DEF Request, RequestSet
  <2>9. \A d \in from .. LastRolled(w) : rows["sales"][d] # {} \/ d \in dates
    <3>1. LastRolled(w) = IF to < raw_from THEN to ELSE raw_from - 1
      BY <2>6 DEF LastRolled, Request
    <3>2. \A d \in from .. LastRolled(w) : d \in from .. to /\ d < raw_from
      BY <2>3, <2>4, <3>1
    <3>3. CASE raw_from = from
      BY <2>3, <3>2, <3>3
    <3>4. CASE raw_from # from
      <4>1. raw_from = today /\ dates = Missing(from, to)
        BY <2>2, <3>4 DEF first_raw
      <4> QED BY <3>2, <4>1 DEF Missing
    <3> QED BY <3>3, <3>4
  <2>10. Promise(w, w.todo)
    <3>1. /\ w.from = from /\ w.to = to /\ w.raw_from = raw_from /\ w.todo = dates
          /\ w.asked = SettledIn(range_window(from, to))
      BY <2>6 DEF Request
    <3> QED BY <2>4, <2>9, <3>1 DEF Promise
  <2> QED BY <1>1, <2>2, <2>6, <2>8, <2>10
<1> QED BY <1>2, <1>3, <1>4

\* A build sums its totals and opens its transaction.
LEMMA BuildMoves ==
    ASSUME ReportsInv, NEW b \in Builders, BuildDay(b)
    PROVE  ReportsInv'
<1>1. PICK w \in Doing : w = builder[b] /\ Fits(w)
  BY DEF ReportsInv, ReportTypes
<1>2. w.stage = "next" /\ w \in JobSet \cup RequestSet("next")
  BY <1>1, StageTells DEF BuildDay
<1>3. PICK d \in w.todo :
        builder' = [builder EXCEPT ![b] =
          [stage |-> "products", date |-> d, totals |-> SettledIn(day_window(d)),
           finished |-> Finished(d), done |-> [t \in Tables |-> Untouched],
           waits |-> Nobody, work |-> [w EXCEPT !.todo = w.todo \ {d}]]]
  <2>1. PICK d \in builder[b].todo :
        builder' = [builder EXCEPT ![b] =
          [stage |-> "products", date |-> d, totals |-> SettledIn(day_window(d)),
           finished |-> Finished(d), done |-> [t \in Tables |-> Untouched],
           waits |-> Nobody, work |-> [builder[b] EXCEPT !.todo = builder[b].todo \ {d}]]]
    BY DEF BuildDay
  <2> QED BY <1>1, <2>1
<1>4. d \in Days /\ d \in Int
  <2>1. w.todo \subseteq Days
    BY <1>2 DEF JobSet, RequestSet
  <2> QED BY <2>1, DaysAreConsecutive
<1>5. PICK next : next = [w EXCEPT !.todo = w.todo \ {d}]
  OBVIOUS
<1>6. /\ next \in JobSet \cup RequestSet("next") /\ next.report = w.report
      /\ next.todo = w.todo \ {d}
      /\ w.report => /\ next.from = w.from /\ next.to = w.to /\ next.raw_from = w.raw_from
                     /\ next.asked = w.asked
  BY <1>2, <1>5 DEF JobSet, RequestSet
<1>7. PICK v : v = [stage |-> "products", date |-> d, totals |-> SettledIn(day_window(d)),
                    finished |-> Finished(d), done |-> [t \in Tables |-> Untouched],
                    waits |-> Nobody, work |-> next]
  OBVIOUS
<1>8. v \in BuildSet /\ v \in Doing
  <2>1. SettledIn(day_window(d)) \subseteq Orders /\ Finished(d) \in BOOLEAN
    BY DEF SettledIn, OpenedIn, Finished
  <2>2. [t \in Tables |-> Untouched] \in DoneSet
    BY DEF DoneSet, Untouched
  <2>3. v \in BuildSet
    BY <1>4, <1>6, <1>7, <2>1, <2>2 DEF BuildSet, Tables
  <2> QED BY <2>3 DEF Doing
<1>9. \A t \in Tables : ~Inserted(v, t)
  BY <1>7, WritesInOrder DEF Inserted
<1>10. Fits(v)
  <2>1. v.totals = Sold(v.date) /\ (v.finished => Over(v.date))
    BY <1>7 DEF Sold, Over, Finished
  <2>2. \A t \in Tables : TableFits(v, t)
    <3>1. \A t \in Tables : v.done[t].new = {}
      BY <1>7 DEF Untouched
    <3> QED BY <1>9, <3>1 DEF TableFits, RowsAre
  <2>3. next.report => Promise(next, next.todo \cup {d})
    <3> SUFFICES ASSUME next.report PROVE Promise(next, next.todo \cup {d})
      OBVIOUS
    <3>1. Promise(w, w.todo)
      BY <1>1, <1>2, <1>6 DEF Fits
    <3> QED BY <1>6, <3>1 DEF Promise, LastRolled
  <2>4. BuildFits(v)
    BY <1>7, <1>9, <2>1, <2>2, <2>3 DEF BuildFits
  <2> QED BY <1>7, <2>4 DEF Fits, Tables
<1>11. Joins(b, v)
  <2>1. ~Building(b)
    BY <1>1, <1>2 DEF Building, Tables
  <2>2. \A a \in Builders : ~WaitsFor(a, b)
    BY <2>1, WaitsForWriter
  <2> QED BY <1>7, <1>9, <2>2 DEF Joins
<1>12. /\ builder' = [builder EXCEPT ![b] = v]
       /\ now' = now /\ order' = order /\ rows' = rows /\ early' = early
       /\ jobs' \in 0 .. MaxJobs
  BY <1>3, <1>5, <1>7 DEF BuildDay, ReportsInv, ReportTypes
<1> QED BY <1>8, <1>10, <1>11, <1>12, OneMoves

\* A statement writes its table, or waits for one it will lose to.
LEMMA WriteMoves ==
    ASSUME ReportsInv, NEW b \in Builders, Write(b)
    PROVE  ReportsInv'
<1>1. PICK w \in Doing : w = builder[b] /\ Fits(w)
  BY DEF ReportsInv, ReportTypes
<1>2. PICK t \in Tables : t = w.stage
  BY <1>1 DEF Write
<1>3. w \in BuildSet /\ BuildFits(w) /\ w.waits = Nobody
  BY <1>1, <1>2, StageTells DEF Write, Fits
<1>4. PICK d \in Days : d = w.date
  BY <1>3 DEF BuildSet
<1>5. PICK some, old, new : /\ some = Found(b, t) /\ old = rows[t][d] /\ new = NewRows(t, some)
  OBVIOUS
<1>6. OrderTypes /\ d \in Int /\ w.totals \subseteq Sold(d)
  BY <1>3, <1>4, DaysAreConsecutive DEF ReportsInv, ReportTypes, BuildFits
<1>7. /\ some \in SUBSET Sold(d) /\ (t # "sales" => some = Sold(d))
      /\ w.finished => some = Sold(d)
  BY <1>1, <1>3, <1>4, <1>5, <1>6 DEF Found, Sold, BuildFits
<1>8. /\ new \subseteq Row /\ RowsAre(t, d, new) /\ Counted(new) = some
      /\ some # {} \/ t = "sales" => new # {}
  BY <1>5, <1>6, <1>7, NewRowsFit
<1>9. old \subseteq Row /\ RowsAre(t, d, old)
  BY <1>5 DEF ReportsInv, ReportTypes, RowsFit
<1>10. t \notin Later[t] /\ \A u \in Tables : Inserted(w, u) => u # t
  BY <1>2, WritesInOrder DEF Inserted
<1>11. \A a \in Builders \ {b}, u \in Tables :
         Inserted(w, u) /\ HasWritten(a, u) /\ builder[a].date = d
         => builder[a].done[u].new = {} \/ w.done[u].new = {}
  BY <1>1, <1>4 DEF ReportsInv, OneInserts, HasWritten, Inserted
<1>12. \A a \in Builders : WaitsFor(a, b) =>
          builder[a].stage \in Tables /\ Inserted(w, builder[a].stage) /\ builder[a].stage # t
  BY <1>1, <1>10, WaitsForWriter DEF HasWritten, Inserted
<1>13. \A a \in Builders \ {b} :
         HasWritten(a, t) /\ builder[a].date = d /\ builder[a].done[t].new # {}
         => Clash(builder[a].done[t].new, new)
  <2> SUFFICES ASSUME NEW a \in Builders \ {b}, HasWritten(a, t), builder[a].date = d,
                      builder[a].done[t].new # {}
               PROVE  Clash(builder[a].done[t].new, new)
    OBVIOUS
  <2>1. builder[a] \in BuildSet /\ BuildFits(builder[a])
    <3>1. builder[a].stage \in Tables \cup {"commit"}
      BY WritesInOrder DEF HasWritten
    <3> QED BY <3>1, StageTells DEF ReportsInv, ReportTypes, Fits
  <2>2. PICK these : these = builder[a].done[t].new
    OBVIOUS
  <2>3. these \in SUBSET Row
    BY <2>1, <2>2 DEF BuildSet, DoneSet
  <2>4. \A r \in these : RowFits(t, d, r)
    BY <2>1, <2>2 DEF BuildFits, TableFits, RowsAre
  <2> QED BY <1>5, <1>6, <1>7, <2>2, <2>3, <2>4, LateComersClash
<1>14. \A a \in Rivals(b, new) :
         /\ a \in Builders \ {b} /\ HasWritten(a, t) /\ builder[a].date = d
         /\ Clash(builder[a].done[t].new, new)
  <2> SUFFICES ASSUME NEW a \in Rivals(b, new)
               PROVE  /\ a \in Builders \ {b} /\ HasWritten(a, t) /\ builder[a].date = d
                      /\ Clash(builder[a].done[t].new, new)
    OBVIOUS
  <2>1. /\ a \in Builders \ {b} /\ HasWritten(a, t) /\ builder[a].date = d
        /\ builder[a].done[t].doomed # {} \/ Clash(builder[a].done[t].new, new)
    BY <1>1, <1>2, <1>4 DEF Rivals
  <2>2. BuildFits(builder[a])
    BY <2>1, WritesInOrder DEF ReportsInv, Fits, HasWritten
  <2>3. builder[a].done[t].doomed # {} => builder[a].done[t].new # {}
    BY <2>1, <2>2 DEF BuildFits, TableFits, Inserted, HasWritten
  <2> QED BY <1>13, <2>1, <2>3
<1>15. \A a \in Builders \ {b} : HasWritten(a, t) /\ builder[a].date = d
         => a \in Rivals(b, new) \/ ~Clash(builder[a].done[t].new, new)
  BY <1>1, <1>2, <1>4 DEF Rivals
<1>16. w.done \in DoneSet /\ w.done[t] \in [doomed : SUBSET Row, new : SUBSET Row]
  BY <1>3 DEF BuildSet, DoneSet
<1>17. UNCHANGED <<now, order, rows, early, jobs>>
  BY DEF Write
<1>18. now' = now /\ order' = order /\ rows' = rows /\ early' = early /\ jobs' \in 0 .. MaxJobs
  BY <1>17 DEF ReportsInv, ReportTypes
<1>19. ASSUME Rivals(b, new) = {} PROVE ReportsInv'
  <2>1. PICK v : v = Wrote(w, old, new)
    OBVIOUS
  <2>2. builder' = [builder EXCEPT ![b] = v]
    BY <1>1, <1>2, <1>4, <1>5, <1>19, <2>1 DEF Write
  <2>3. PICK done : done = [w.done EXCEPT ![t] = [doomed |-> old, new |-> new]]
    OBVIOUS
  <2>4. /\ done \in DoneSet /\ done[t] = [doomed |-> old, new |-> new]
        /\ \A u \in Tables : u # t => done[u] = w.done[u]
    BY <1>8, <1>9, <1>16, <2>3 DEF DoneSet
  <2>5. v = [w EXCEPT !.done = done, !.stage = After[t], !.waits = Nobody]
    BY <1>2, <1>3, <2>1, <2>3 DEF Wrote, BuildSet
  <2>6. /\ v.stage = After[t] /\ v.date = d /\ v.totals = w.totals /\ v.finished = w.finished
        /\ v.done = done /\ v.waits = Nobody /\ v.work = w.work
    BY <1>3, <1>4, <2>5 DEF BuildSet
  <2>7. v \in BuildSet /\ v \in Doing
    <3>1. v \in BuildSet
      BY <1>3, <2>4, <2>5, WritesInOrder DEF BuildSet
    <3> QED BY <3>1 DEF Doing
  <2>8. \A u \in Tables : Inserted(v, u) <=> u = t \/ Inserted(w, u)
    BY <1>2, <2>6, WritesInOrder DEF Inserted
  <2>9. \A u \in Tables : TableFits(v, u)
    <3> TAKE u \in Tables
    <3>1. CASE u = t
      <4>1. RowsAre(t, d, v.done[t].new)
        BY <1>8, <2>4, <2>6
      <4>2. rows[t][v.date] \ v.done[t].doomed = {}
        BY <1>5, <2>4, <2>6
      <4>3. v.done[t].doomed # {} \/ t = "sales" => v.done[t].new # {}
        <5>1. t # "sales" /\ old # {} => some # {}
          BY <1>7, <1>9 DEF RowsAre, RowFits
        <5> QED BY <1>8, <2>4, <2>6, <5>1
      <4> QED BY <2>6, <3>1, <4>1, <4>2, <4>3 DEF TableFits, Clash
    <3>2. CASE u # t
      <4>1. v.done[u] = w.done[u] /\ v.date = w.date /\ (Inserted(v, u) <=> Inserted(w, u))
        BY <1>4, <2>4, <2>6, <2>8, <3>2
      <4>2. TableFits(w, u)
        BY <1>3 DEF BuildFits
      <4> QED BY <4>1, <4>2 DEF TableFits
    <3> QED BY <3>1, <3>2
  <2>10. BuildFits(v)
    <3>1. v.finished => /\ Over(d) /\ v.totals = Sold(d)
                        /\ \A u \in Tables : Inserted(v, u) => Counted(v.done[u].new) = Sold(d)
      <4> SUFFICES ASSUME v.finished
                   PROVE  /\ Over(d) /\ v.totals = Sold(d)
                          /\ \A u \in Tables : Inserted(v, u) => Counted(v.done[u].new) = Sold(d)
        OBVIOUS
      <4>1. /\ Over(d) /\ w.totals = Sold(d)
            /\ \A u \in Tables : Inserted(w, u) => Counted(w.done[u].new) = Sold(d)
        BY <1>3, <1>4, <2>6 DEF BuildFits
      <4>2. Counted(v.done[t].new) = Sold(d)
        BY <1>7, <1>8, <2>4, <2>6
      <4> QED BY <2>4, <2>6, <2>8, <4>1, <4>2
    <3>2. v.work.report => Promise(v.work, v.work.todo \cup {v.date})
      BY <1>3, <1>4, <2>6 DEF BuildFits
    <3> QED BY <1>6, <2>6, <2>9, <3>1, <3>2 DEF BuildFits
  <2>11. Fits(v)
    BY <2>6, <2>10, WritesInOrder, <1>2 DEF Fits, Tables
  <2>12. Joins(b, v)
    <3>1. ASSUME NEW a \in Builders \ {b}, NEW u \in Tables, Inserted(v, u), HasWritten(a, u),
                 builder[a].date = v.date
          PROVE  builder[a].done[u].new = {} \/ v.done[u].new = {}
      <4>1. CASE u = t
        BY <1>13, <1>15, <1>19, <2>6, <3>1, <4>1
      <4>2. CASE u # t
        BY <1>11, <2>4, <2>6, <2>8, <3>1, <4>2
      <4> QED BY <4>1, <4>2
    <3>2. \A a \in Builders \ {b} : WaitsFor(a, b) =>
            /\ Inserted(v, builder[a].stage) /\ v.date = builder[b].date
            /\ v.done[builder[a].stage].new = builder[b].done[builder[a].stage].new
      BY <1>1, <1>4, <1>12, <2>4, <2>6, <2>8
    <3> QED BY <2>6, <3>1, <3>2 DEF Joins
  <2> QED BY <1>18, <2>2, <2>7, <2>11, <2>12, OneMoves
<1>20. ASSUME Rivals(b, new) # {} PROVE ReportsInv'
  <2>1. PICK a \in Rivals(b, new) :
          builder' = [builder EXCEPT ![b] = [w EXCEPT !.waits = a, !.done[t].new = new]]
    BY <1>1, <1>2, <1>4, <1>5, <1>20 DEF Write
  <2>2. PICK done : done = [w.done EXCEPT ![t] = [w.done[t] EXCEPT !.new = new]]
    OBVIOUS
  <2>3. /\ done \in DoneSet /\ done[t].new = new
        /\ \A u \in Tables : u # t => done[u] = w.done[u]
    BY <1>8, <1>16, <2>2 DEF DoneSet
  <2>4. PICK v : v = [w EXCEPT !.waits = a, !.done = done]
    OBVIOUS
  <2>5. builder' = [builder EXCEPT ![b] = v]
    <3>1. [w EXCEPT !.waits = a, !.done[t].new = new] = v
      BY <1>3, <1>16, <2>2, <2>4 DEF BuildSet, DoneSet
    <3> QED BY <2>1, <3>1
  <2>6. /\ v.stage = t /\ v.date = d /\ v.totals = w.totals /\ v.finished = w.finished
        /\ v.done = done /\ v.waits = a /\ v.work = w.work
    BY <1>2, <1>3, <1>4, <2>4 DEF BuildSet
  <2>7. v \in BuildSet /\ v \in Doing
    <3>1. v \in BuildSet
      BY <1>3, <1>14, <2>1, <2>3, <2>4 DEF BuildSet
    <3> QED BY <3>1 DEF Doing
  <2>8. \A u \in Tables : /\ Inserted(v, u) <=> Inserted(w, u)
                          /\ Inserted(v, u) => u # t
    BY <1>2, <1>10, <2>6 DEF Inserted
  <2>9. \A u \in Tables : TableFits(v, u)
    <3> TAKE u \in Tables
    <3>1. CASE u = t
      BY <1>8, <2>3, <2>6, <2>8, <3>1 DEF TableFits
    <3>2. CASE u # t
      <4>1. v.done[u] = w.done[u] /\ v.date = w.date /\ (Inserted(v, u) <=> Inserted(w, u))
        BY <1>4, <2>3, <2>6, <2>8, <3>2
      <4>2. TableFits(w, u)
        BY <1>3 DEF BuildFits
      <4> QED BY <4>1, <4>2 DEF TableFits
    <3> QED BY <3>1, <3>2
  <2>10. BuildFits(v)
    <3>1. \A u \in Tables : Inserted(v, u) => v.done[u] = w.done[u]
      BY <2>3, <2>6, <2>8
    <3> QED BY <1>3, <1>4, <2>6, <2>8, <2>9, <3>1 DEF BuildFits
  <2>11. Fits(v)
    BY <2>6, <2>10 DEF Fits, Tables
  <2>12. Joins(b, v)
    <3>1. ASSUME NEW c \in Builders \ {b}, NEW u \in Tables, Inserted(v, u), HasWritten(c, u),
                 builder[c].date = v.date
          PROVE  builder[c].done[u].new = {} \/ v.done[u].new = {}
      BY <1>11, <2>3, <2>6, <2>8, <3>1
    <3>2. \A c \in Builders \ {b} : WaitsFor(c, b) =>
            /\ Inserted(v, builder[c].stage) /\ v.date = builder[b].date
            /\ v.done[builder[c].stage].new = builder[b].done[builder[c].stage].new
      BY <1>1, <1>4, <1>12, <2>3, <2>6, <2>8
    <3>3. v.waits # b /\ Loses(v, v.waits, v.stage)
      BY <1>14, <2>1, <2>3, <2>6 DEF Loses
    <3> QED BY <3>1, <3>2, <3>3 DEF Joins
  <2> QED BY <1>18, <2>5, <2>7, <2>11, <2>12, OneMoves
<1> QED BY <1>19, <1>20

-----------------------------------------------------------------------------
(* What a report reads.                                                    *)

\* Rows that fit count a sale once.
LEMMA RowsCountOnce ==
    ASSUME OrderTypes, RowsFit, NEW t \in Tables, NEW some, some \subseteq Days \X Row,
           \A p \in some : p[2] \in rows[t][p[1]]
    PROVE  CountedOnce(some)
<1> SUFFICES ASSUME NEW p \in some, NEW q \in some, p # q, NEW o \in p[2].orders, o \in q[2].orders
             PROVE  FALSE
  BY DEF CountedOnce
<1>1. /\ p = <<p[1], p[2]>> /\ p[1] \in Days /\ p[2] \in rows[t][p[1]]
      /\ q = <<q[1], q[2]>> /\ q[1] \in Days /\ q[2] \in rows[t][q[1]]
      /\ p[2] \in Row /\ q[2] \in Row
  OBVIOUS
<1>2. /\ RowFits(t, p[1], p[2]) /\ RowsAre(t, p[1], rows[t][p[1]])
      /\ RowFits(t, q[1], q[2])
  BY <1>1 DEF RowsFit, RowsAre
<1>3. p[1] = q[1]
  <2>1. o \in Sold(p[1]) /\ o \in Sold(q[1])
    BY <1>2 DEF RowFits
  <2>2. p[1] \in Int /\ q[1] \in Int
    BY <1>1, DaysAreConsecutive
  <2> QED BY <2>1, <2>2, SoldMeans
<1>4. p[2].key = q[2].key
  BY <1>2 DEF RowFits
<1>5. p[2] = q[2]
  BY <1>1, <1>2, <1>3, <1>4 DEF RowsAre
<1> QED BY <1>1, <1>3, <1>5

\* A report reads the rows of the past days, and leaves the rest to the orders.
LEMMA ReadMoves ==
    ASSUME ReportsInv, NEW b \in Builders, Built(b) \/ ReadRolled(b) \/ ReadLive(b)
    PROVE  ReportsInv'
<1>1. PICK w \in Doing : w = builder[b] /\ Fits(w)
  BY DEF ReportsInv, ReportTypes
<1>2. now' = now /\ order' = order /\ rows' = rows /\ early' = early /\ jobs' \in 0 .. MaxJobs
  <2>1. UNCHANGED <<now, order, rows, early, jobs>>
    BY DEF Built, ReadRolled, ReadLive
  <2> QED BY <2>1 DEF ReportsInv, ReportTypes
<1>3. ~Building(b)
  BY DEF Built, ReadRolled, ReadLive, Building, Tables
<1>4. ASSUME NEW v \in Doing, v.stage \notin Tables \cup {"commit"}, Fits(v),
             builder' = [builder EXCEPT ![b] = v]
      PROVE  ReportsInv'
  BY <1>2, <1>3, <1>4, JoinsApart, OneMoves
<1>5. Idle \in Doing /\ Fits(Idle) /\ Idle.stage \notin Tables \cup {"commit"}
  BY DEF Doing, Idle, Fits, Tables
<1>6. CASE Built(b)
  <2>1. w.stage = "next" /\ w.todo = {} /\ w \in JobSet \cup RequestSet("next")
    BY <1>1, <1>6, StageTells DEF Built
  <2>2. CASE ~w.report
    BY <1>1, <1>4, <1>5, <1>6, <2>2 DEF Built
  <2>3. CASE w.report
    <3>1. w \in RequestSet("next") /\ Promise(w, {})
      BY <1>1, <2>1, <2>3 DEF JobSet, Fits
    <3>2. PICK v : v = [w EXCEPT !.stage = "rolled"]
      OBVIOUS
    <3>3. /\ v \in RequestSet("rolled") /\ v.stage = "rolled"
          /\ v.from = w.from /\ v.to = w.to /\ v.raw_from = w.raw_from /\ v.asked = w.asked
      BY <3>1, <3>2 DEF RequestSet
    <3>4. Promise(v, {})
      BY <3>1, <3>3 DEF Promise, LastRolled
    <3>5. Fits(v) /\ v \in Doing
      BY <3>3, <3>4 DEF Fits, Tables, Doing
    <3>6. builder' = [builder EXCEPT ![b] = v]
      BY <1>1, <1>6, <2>3, <3>2 DEF Built
    <3> QED BY <1>4, <3>3, <3>5, <3>6 DEF Tables
  <2> QED BY <2>2, <2>3
<1>7. CASE ReadRolled(b)
  <2>1. w \in RequestSet("rolled") /\ Promise(w, {})
    BY <1>1, <1>7, StageTells DEF ReadRolled, Fits, Tables
  <2>2. PICK t \in Tables :
          builder' = [builder EXCEPT ![b] =
             [stage |-> "live", from |-> w.from, to |-> w.to, raw_from |-> w.raw_from,
              asked |-> w.asked, early |-> early,
              rolled |-> UNION {{<<d, r>> : r \in rows[t][d]} : d \in w.from .. LastRolled(w)}]]
    BY <1>1, <1>7 DEF ReadRolled
  <2>3. PICK read : read = UNION {{<<d, r>> : r \in rows[t][d]} : d \in w.from .. LastRolled(w)}
    OBVIOUS
  <2>4. PICK v : v = [stage |-> "live", from |-> w.from, to |-> w.to, raw_from |-> w.raw_from,
                      asked |-> w.asked, early |-> early, rolled |-> read]
    OBVIOUS
  <2>5. w.from \in Int /\ w.to \in Int /\ w.raw_from \in Int /\ w.from \in Days /\ w.to \in Days
        /\ w.raw_from \in Days /\ w.asked \subseteq Orders
    BY <2>1, DaysAreConsecutive DEF RequestSet
  <2>6. /\ LastRolled(w) \in Int /\ LastRolled(w) =< w.to /\ LastRolled(w) < w.raw_from
        /\ \A d \in Int : d =< w.to /\ d < w.raw_from => d =< LastRolled(w)
    BY <2>5 DEF LastRolled
  <2>7. w.from .. LastRolled(w) \subseteq Days
    <3>1. \A d \in w.from .. LastRolled(w) : d \in Int /\ w.from =< d /\ d =< w.to
      BY <2>5, <2>6
    <3> QED BY <2>5, <3>1, DaysAreConsecutive
  <2>8. \A p \in read : /\ p[1] \in w.from .. LastRolled(w) /\ p[1] \in Days
                        /\ p[2] \in rows[t][p[1]] /\ p = <<p[1], p[2]>> /\ p[2] \in Row
    BY <2>3, <2>7 DEF ReportsInv, ReportTypes
  <2>9. read \subseteq Days \X Row
    <3>1. \A p \in read : <<p[1], p[2]>> \in Days \X Row
      BY <2>8
    <3> QED BY <2>8, <3>1
  <2>10. \A d \in w.from .. LastRolled(w) : \A r \in rows[t][d] : <<d, r>> \in read
    BY <2>3
  <2>11. v \in LiveSet /\ v \in Doing
    <3>1. early \subseteq Days
      BY DEF ReportsInv, ReportTypes
    <3>2. v \in LiveSet
      BY <2>4, <2>5, <2>9, <3>1 DEF LiveSet
    <3> QED BY <3>2 DEF Doing
  <2>12. CountedOnce(read)
    BY <2>8, <2>9, RowsCountOnce DEF ReportsInv, ReportTypes
  <2>13. \A p \in read : p[2].orders \subseteq Sold(p[1])
    BY <2>8 DEF ReportsInv, RowsFit, RowsAre, RowFits
  <2>14. ASSUME NEW o \in w.asked, business_date_of(order[o].at) < w.raw_from
         PROVE  o \in Counted({p[2] : p \in read}) \/ business_date_of(order[o].at) \in early
    <3>1. PICK d : d = business_date_of(order[o].at)
      OBVIOUS
    <3>2. /\ o \in Orders /\ order[o].status \in SETTLED /\ d \in w.from .. w.to /\ d \in Int
          /\ o \in Sold(d)
      <4>1. o \in SettledIn(range_window(w.from, w.to))
        BY <2>1 DEF Promise
      <4>2. OrderTypes
        BY DEF ReportsInv, ReportTypes
      <4>3. o \in Orders /\ order[o].status \in SETTLED /\ d \in w.from .. w.to
        BY <2>5, <3>1, <4>1, <4>2, SoldMeans
      <4>4. d \in Int
        BY <2>5, <4>3
      <4> QED BY <3>1, <4>2, <4>3, <4>4, SoldMeans
    <3>3. d \in w.from .. LastRolled(w)
      BY <2>5, <2>6, <2>14, <3>1, <3>2
    <3>4. rows["sales"][d] # {} /\ d \in Days
      BY <2>1, <2>7, <3>3 DEF Promise
    <3>5. CASE d \notin early
      <4>1. o \in Counted(rows[t][d])
        BY <3>2, <3>4, <3>5 DEF ReportsInv, BuiltIsOver
      <4>2. PICK r \in rows[t][d] : o \in r.orders
        BY <4>1 DEF Counted
      <4>3. PICK p : p = <<d, r>>
        OBVIOUS
      <4>4. p \in read /\ p[2] = r
        BY <2>10, <3>3, <4>2, <4>3
      <4> QED BY <4>2, <4>4 DEF Counted
    <3> QED BY <3>1, <3>5
  <2>15. LiveFits(v)
    <3>1. /\ v.from = w.from /\ v.to = w.to /\ v.raw_from = w.raw_from /\ v.asked = w.asked
          /\ v.early = early /\ v.rolled = read
      BY <2>4
    <3>2. LastRolled(v) = LastRolled(w)
      BY <3>1 DEF LastRolled
    <3>3. w.from =< w.raw_from /\ w.asked \subseteq SettledIn(range_window(w.from, w.to))
      BY <2>1 DEF Promise
    <3> QED BY <2>8, <2>12, <2>13, <2>14, <3>1, <3>2, <3>3 DEF LiveFits
  <2>16. Fits(v) /\ v.stage \notin Tables \cup {"commit"}
    BY <2>4, <2>15 DEF Fits, Tables
  <2>17. builder' = [builder EXCEPT ![b] = v]
    BY <2>2, <2>3, <2>4
  <2> QED BY <1>4, <2>11, <2>16, <2>17
<1>8. CASE ReadLive(b)
  BY <1>4, <1>5, <1>8 DEF ReadLive
<1> QED BY <1>6, <1>7, <1>8

-----------------------------------------------------------------------------
(* A transaction ends, and with it what waits for it.                      *)

\* Who was waiting goes on as it was.
Same(v, w) == \/ w = v
              \/ v \in BuildSet /\ w = [v EXCEPT !.waits = Nobody]

\* What it holds is unchanged.
LEMMA FreedIsSame ==
    ASSUME ReportsInv, NEW a \in Builders, NEW gone
    PROVE  /\ Same(builder[a], Freed(a, gone)) /\ Freed(a, gone) \in Doing
           /\ \/ Freed(a, gone) = builder[a] /\ \A g \in gone : ~WaitsFor(a, g)
              \/ Freed(a, gone) \in BuildSet /\ Freed(a, gone).waits = Nobody
<1>1. PICK v \in Doing : v = builder[a]
  BY DEF ReportsInv, ReportTypes
<1>2. CASE \E g \in gone : WaitsFor(a, g)
  <2>1. v \in BuildSet
    BY <1>1, <1>2, StageTells DEF WaitsFor, Building
  <2>2. Freed(a, gone) = [v EXCEPT !.waits = Nobody]
    BY <1>1, <1>2 DEF Freed
  <2>3. PICK u : u = [v EXCEPT !.waits = Nobody]
    OBVIOUS
  <2>4. u \in BuildSet /\ u.waits = Nobody
    BY <2>1, <2>3 DEF BuildSet
  <2> QED BY <1>1, <2>1, <2>2, <2>3, <2>4 DEF Same, Doing
<1>3. CASE ~\E g \in gone : WaitsFor(a, g)
  <2>1. Freed(a, gone) = builder[a]
    BY <1>3 DEF Freed
  <2>2. \A g \in gone : ~WaitsFor(a, g)
    BY <1>3
  <2> QED BY <1>1, <2>1, <2>2 DEF Same
<1> QED BY <1>2, <1>3

\* So it fits as before.
LEMMA SameFits ==
    ASSUME NEW v \in Doing, NEW w, Same(v, w), Fits(v)
    PROVE  Fits(w)
<1>1. CASE w = v
  BY <1>1
<1>2. CASE v \in BuildSet /\ w = [v EXCEPT !.waits = Nobody]
  <2>1. /\ w.stage = v.stage /\ w.date = v.date /\ w.totals = v.totals
        /\ w.finished = v.finished /\ w.done = v.done /\ w.work = v.work
        /\ v.stage \in Tables \cup {"commit"}
    BY <1>2 DEF BuildSet
  <2>2. BuildFits(v)
    BY <2>1 DEF Fits
  <2>3. BuildFits(w)
    BY <2>1, <2>2 DEF BuildFits, TableFits, Inserted
  <2> QED BY <2>1, <2>3 DEF Fits, Tables
<1> QED BY <1>1, <1>2 DEF Same

\* Whoever stops takes along, or frees, those who wait for it.
Stops(b, v, losers, gone) ==
    /\ builder' = [a \in Builders |-> IF a = b THEN v ELSE IF a \in losers THEN Idle
                                      ELSE Freed(a, gone)]
    /\ \A a \in Builders, c \in losers \cup {b} :
          WaitsFor(a, c) => a \in losers \cup {b} \/ \E g \in gone : WaitsFor(a, g)

\* Transactions that end keep the invariant when the rows do.
LEMMA StopsTogether ==
    ASSUME ReportsInv, NEW b \in Builders, NEW v \in Doing, v.stage \notin Tables \cup {"commit"},
           NEW losers, NEW gone, Stops(b, v, losers, gone)
    PROVE  /\ builder' \in [Builders -> Doing]
           /\ builder'[b] = v
           /\ \A a \in Builders : a # b => builder'[a] = Idle \/ Same(builder[a], builder'[a])
           /\ OneInserts' /\ WaitersLose'
<1>1. \A a \in Builders : /\ a = b => builder'[a] = v
                          /\ a # b /\ a \in losers => builder'[a] = Idle
                          /\ a # b /\ a \notin losers => builder'[a] = Freed(a, gone)
  BY DEF Stops
<1>2. \A a \in Builders : builder'[a] \in Doing
  BY <1>1, FreedIsSame DEF Doing
<1>3. builder' \in [Builders -> Doing]
  BY <1>2 DEF Stops
<1>4. \A a \in Builders : a # b => builder'[a] = Idle \/ Same(builder[a], builder'[a])
  BY <1>1, FreedIsSame
<1>5. ASSUME NEW a \in Builders, builder'[a].stage \in Tables \cup {"commit"}
      PROVE  /\ a \notin losers \cup {b} /\ builder'[a] = Freed(a, gone)
             /\ builder'[a].stage = builder[a].stage /\ builder'[a].date = builder[a].date
             /\ builder'[a].done = builder[a].done
  <2>1. Idle.stage \notin Tables \cup {"commit"}
    BY DEF Idle, Tables
  <2>2. a \notin losers \cup {b} /\ builder'[a] = Freed(a, gone)
    BY <1>1, <1>5, <2>1
  <2>3. Same(builder[a], builder'[a])
    BY <2>2, FreedIsSame
  <2> QED BY <2>2, <2>3 DEF Same, BuildSet
<1>6. \A t \in Tables : Later[t] \subseteq Tables \cup {"commit"}
  BY WritesInOrder
<1>7. OneInserts'
  <2>1. SUFFICES ASSUME NEW a \in Builders, NEW c \in Builders, NEW t \in Tables, a # c,
                        builder'[a].stage \in Later[t], builder'[c].stage \in Later[t],
                        builder'[a].date = builder'[c].date
                 PROVE  builder'[a].done[t].new = {} \/ builder'[c].done[t].new = {}
    BY DEF OneInserts, HasWritten, Later, Tables
  <2>2. /\ builder'[a].stage = builder[a].stage /\ builder'[a].date = builder[a].date
        /\ builder'[a].done = builder[a].done
    BY <1>5, <1>6, <2>1
  <2>3. /\ builder'[c].stage = builder[c].stage /\ builder'[c].date = builder[c].date
        /\ builder'[c].done = builder[c].done
    BY <1>5, <1>6, <2>1
  <2> QED BY <2>1, <2>2, <2>3 DEF ReportsInv, OneInserts, HasWritten
<1>8. WaitersLose'
  <2>1. SUFFICES ASSUME NEW a \in Builders, builder'[a].stage \in Tables \cup {"commit"},
                        builder'[a].waits # Nobody
                 PROVE  /\ builder'[a].waits # a
                        /\ Loses(builder[a], builder[a].waits, builder[a].stage)'
    BY DEF WaitersLose, Building, Tables
  <2>2. /\ a \notin losers \cup {b} /\ builder'[a] = builder[a]
        /\ \A g \in gone : ~WaitsFor(a, g)
    BY <1>5, <2>1, FreedIsSame
  <2>3. PICK c \in Builders : c = builder[a].waits
    <3>1. builder[a] \in BuildSet
      BY <2>1, <2>2, StageTells DEF ReportsInv, ReportTypes
    <3> QED BY <2>1, <2>2, <3>1 DEF BuildSet
  <2>4. WaitsFor(a, c)
    BY <2>1, <2>2, <2>3 DEF WaitsFor, Building
  <2>5. c \notin losers \cup {b}
    BY <2>2, <2>4 DEF Stops
  <2>6. PICK t \in Tables : t = builder[a].stage
    BY <2>4, WaitsForWriter
  <2>7. /\ a # c /\ builder[c].stage \in Later[t] /\ builder[c].date = builder[a].date
        /\ Clash(builder[c].done[t].new, builder[a].done[t].new)
    BY <2>4, <2>6, WaitsForWriter DEF HasWritten
  <2>8. builder'[c] = Freed(c, gone) /\ Same(builder[c], builder'[c])
    BY <1>1, <2>5, FreedIsSame
  <2>9. /\ builder'[c].stage = builder[c].stage /\ builder'[c].date = builder[c].date
        /\ builder'[c].done = builder[c].done
    BY <2>8 DEF Same, BuildSet
  <2>10. Loses(builder[a], c, t)'
    BY <2>2, <2>6, <2>7, <2>9 DEF Loses, HasWritten, Clash, Later, Tables
  <2> QED BY <2>2, <2>3, <2>6, <2>7, <2>10
<1> QED BY <1>1, <1>3, <1>4, <1>7, <1>8

\* A task that fails leaves the rows as they were.
LEMMA AbortMoves ==
    ASSUME ReportsInv, NEW b \in Builders, Abort(b)
    PROVE  ReportsInv'
<1>1. Idle \in Doing /\ Idle.stage \notin Tables \cup {"commit"} /\ Fits(Idle)
  BY DEF Doing, Idle, Tables, Fits
<1>2. builder' = [a \in Builders |-> IF a = b THEN Idle ELSE IF a \in {} THEN Idle
                                     ELSE Freed(a, {b})]
  BY DEF Abort
<1>3. /\ builder' \in [Builders -> Doing] /\ builder'[b] = Idle
      /\ \A a \in Builders : a # b => builder'[a] = Idle \/ Same(builder[a], builder'[a])
      /\ OneInserts' /\ WaitersLose'
  <2>1. \A a \in Builders, c \in {} \cup {b} :
           WaitsFor(a, c) => a \in {} \cup {b} \/ \E g \in {b} : WaitsFor(a, g)
    OBVIOUS
  <2>2. PICK v, losers, gone : v = Idle /\ losers = {} /\ gone = {b}
    OBVIOUS
  <2>3. Stops(b, v, losers, gone)
    BY <1>2, <2>1, <2>2 DEF Stops
  <2>5. v \in Doing /\ v.stage \notin Tables \cup {"commit"}
    BY <1>1, <2>2
  <2>6. /\ builder' \in [Builders -> Doing] /\ builder'[b] = v
        /\ \A a \in Builders : a # b => builder'[a] = Idle \/ Same(builder[a], builder'[a])
        /\ OneInserts' /\ WaitersLose'
    BY <2>3, <2>5, StopsTogether
  <2> QED BY <2>2, <2>6
<1>4. now' = now /\ order' = order /\ rows' = rows /\ early' = early /\ jobs' = jobs
  BY DEF Abort
<1>5. SoldStays
  <2>1. \A d \in Int : Sold(d)' = Sold(d)
    BY <1>4 DEF Sold, SettledIn, OpenedIn, SETTLED, day_window
  <2>2. \A d \in Int : Over(d)' = Over(d)
    BY <1>4 DEF Over, OpenedIn, day_window, today, business_date_of
  <2> QED BY <1>4, <2>1, <2>2 DEF SoldStays
<1>6. OrderTypes /\ OrderTypes'
  BY <1>4 DEF ReportsInv, ReportTypes, OrderTypes, SETTLED
<1>7. ReportTypes'
  <2>1. rows' \in [Tables -> [Days -> SUBSET Row]] /\ early' \subseteq Days /\ jobs' \in 0 .. MaxJobs
    BY <1>4 DEF ReportsInv, ReportTypes
  <2> QED BY <1>3, <1>6, <2>1 DEF ReportTypes
<1>8. RowsFit' /\ BuiltIsOver'
  BY <1>4, <1>5, <1>6, BooksStay
<1>9. \A a \in Builders : Fits(builder[a])'
  <2> TAKE a \in Builders
  <2>1. PICK v \in Doing : v = builder'[a]
    BY <1>3
  <2>2. Fits(v)
    BY <1>1, <1>3, <2>1, SameFits DEF ReportsInv, ReportTypes
  <2>3. Fits(v)'
    BY <1>4, <1>5, <1>6, <2>2, FitsStay
  <2> QED BY <2>1, <2>3
<1> QED BY <1>3, <1>7, <1>8, <1>9 DEF ReportsInv

\* The keys a transaction took collide with none it left, so the rows go on fitting.
LEMMA CommitMoves ==
    ASSUME ReportsInv, NEW b \in Builders, CommitDay(b)
    PROVE  ReportsInv'
<1>1. PICK w \in Doing : w = builder[b] /\ Fits(w)
  BY DEF ReportsInv, ReportTypes
<1>2. w.stage = "commit" /\ w \in BuildSet /\ BuildFits(w)
  BY <1>1, StageTells DEF CommitDay, Fits
<1>3. PICK d \in Days : d = w.date
  BY <1>2 DEF BuildSet
<1>4. \A t \in Tables : Inserted(w, t)
  BY <1>2, WritesInOrder DEF Inserted
<1>5. PICK work : work = w.work
  OBVIOUS
<1>6. /\ work \in JobSet \cup RequestSet("next") /\ work.stage = "next" /\ work \in Doing
      /\ work.report => Promise(work, work.todo \cup {d})
  <2>1. work \in JobSet \cup RequestSet("next")
    BY <1>2, <1>5 DEF BuildSet
  <2>2. work.stage = "next" /\ work \in Doing
    BY <2>1 DEF JobSet, RequestSet, Doing
  <2> QED BY <1>2, <1>3, <1>5, <2>1, <2>2 DEF BuildFits
<1>7. now' = now /\ order' = order /\ jobs' = jobs
  BY DEF CommitDay
<1>8. /\ rows' = [t \in Tables |-> [rows[t] EXCEPT ![d] =
                    (rows[t][d] \ w.done[t].doomed) \cup w.done[t].new]]
      /\ early' = IF w.finished THEN early \ {d} ELSE early \cup {d}
  BY <1>1, <1>3 DEF CommitDay
<1>9. \A t \in Tables : w.done[t].new \subseteq Row /\ w.done[t].doomed \subseteq Row
  BY <1>2 DEF BuildSet, DoneSet
<1>10. \A t \in Tables : rows[t] \in [Days -> SUBSET Row]
  BY DEF ReportsInv, ReportTypes
<1>11. \A t \in Tables : /\ rows'[t][d] = (rows[t][d] \ w.done[t].doomed) \cup w.done[t].new
                         /\ \A e \in Days : e # d => rows'[t][e] = rows[t][e]
  BY <1>8, <1>10
<1>12. rows' \in [Tables -> [Days -> SUBSET Row]]
  <2>1. \A t \in Tables : [rows[t] EXCEPT ![d] =
           (rows[t][d] \ w.done[t].doomed) \cup w.done[t].new] \in [Days -> SUBSET Row]
    BY <1>9, <1>10
  <2> QED BY <1>8, <2>1
<1>13. OrderTypes /\ OrderTypes' /\ Days \subseteq Int
  BY <1>7, DaysAreConsecutive DEF ReportsInv, ReportTypes, OrderTypes, SETTLED
<1>14. \A e \in Int : Sold(e)' = Sold(e) /\ (Over(e)' <=> Over(e))
  <2>1. \A e \in Int : Sold(e)' = Sold(e)
    BY <1>7 DEF Sold, SettledIn, OpenedIn, SETTLED, day_window
  <2>2. \A e \in Int : Over(e)' <=> Over(e)
    BY <1>7 DEF Over, OpenedIn, day_window, today, business_date_of
  <2> QED BY <2>1, <2>2
<1>15. ASSUME NEW t \in Tables, NEW e \in Int, NEW some
       PROVE  RowsAre(t, e, some)' <=> RowsAre(t, e, some)
  BY <1>7, <1>14 DEF RowsAre, RowFits
<1>16. \A f, l \in Int : SettledIn(range_window(f, l))' = SettledIn(range_window(f, l))
  BY <1>7 DEF SettledIn, OpenedIn, SETTLED, range_window, day_window
\* The rows of the day.
<1>17. \A t \in Tables : RowsAre(t, d, rows'[t][d])
  <2> TAKE t \in Tables
  <2>1. RowsAre(t, d, rows[t][d])
    BY DEF ReportsInv, RowsFit
  <2>2. /\ RowsAre(t, d, w.done[t].new)
        /\ ~Clash(rows[t][d] \ w.done[t].doomed, w.done[t].new)
    BY <1>2, <1>3, <1>4 DEF BuildFits, TableFits
  <2> QED BY <1>11, <2>1, <2>2 DEF RowsAre, Clash
<1>18. RowsFit'
  <2>1. SUFFICES ASSUME NEW t \in Tables, NEW e \in Days PROVE RowsAre(t, e, rows[t][e])'
    BY DEF RowsFit, Tables, Days, business_date_of
  <2>2. RowsAre(t, e, rows'[t][e])
    <3>1. CASE e = d
      BY <1>17, <3>1
    <3>2. CASE e # d
      BY <1>11, <3>2 DEF ReportsInv, RowsFit
    <3> QED BY <3>1, <3>2
  <2>3. PICK some : some = rows'[t][e]
    OBVIOUS
  <2>4. RowsAre(t, e, some)'
    BY <1>13, <1>15, <2>2, <2>3
  <2> QED BY <2>3, <2>4
<1>19. rows'["sales"][d] # {}
  <2>1. w.done["sales"].new # {}
    BY <1>2, <1>4 DEF BuildFits, TableFits, Tables
  <2> QED BY <1>11, <2>1 DEF Tables
<1>20. w.finished \in BOOLEAN /\ early \subseteq Days /\ early' \subseteq Days
  <2>1. w.finished \in BOOLEAN /\ early \subseteq Days
    BY <1>2 DEF BuildSet, ReportsInv, ReportTypes
  <2> QED BY <1>8, <2>1
<1>21. BuiltIsOver'
  <2>1. SUFFICES ASSUME NEW e \in Days, rows'["sales"][e] # {}, e \notin early'
                 PROVE  Over(e) /\ \A t \in Tables : Counted(rows'[t][e]) = Sold(e)
    BY <1>13, <1>14 DEF BuiltIsOver, Tables, Days, business_date_of, Counted
  <2>2. CASE e = d
    <3>1. w.finished
      BY <1>8, <2>1, <2>2
    <3>2. Over(d) /\ \A t \in Tables : Counted(w.done[t].new) = Sold(d)
      BY <1>2, <1>3, <1>4, <3>1 DEF BuildFits
    <3>3. \A t \in Tables : Counted(rows'[t][d]) = Sold(d)
      <4> TAKE t \in Tables
      <4>1. \A r \in rows'[t][d] : r.orders \subseteq Sold(d)
        BY <1>17 DEF RowsAre, RowFits
      <4>2. w.done[t].new \subseteq rows'[t][d]
        BY <1>11
      <4> QED BY <3>2, <4>1, <4>2 DEF Counted
    <3> QED BY <2>2, <3>2, <3>3
  <2>3. CASE e # d
    <3>1. e \notin early
      BY <1>8, <2>1, <2>3
    <3>2. \A t \in Tables : rows'[t][e] = rows[t][e]
      BY <1>11, <2>3
    <3> QED BY <2>1, <3>1, <3>2 DEF ReportsInv, BuiltIsOver, Tables
  <2> QED BY <2>2, <2>3
\* Who waits fails on the unique constraint; who waits for it waits no more.
<1>22. \A a \in Builders : WaitsFor(a, b) => Woken(builder[a], b) = Idle
  <2> SUFFICES ASSUME NEW a \in Builders, WaitsFor(a, b) PROVE Woken(builder[a], b) = Idle
    OBVIOUS
  <2>1. Clash(builder[b].done[builder[a].stage].new, builder[a].done[builder[a].stage].new)
    BY WaitsForWriter
  <2> QED BY <2>1 DEF Woken
<1>23. PICK losers : losers = Losers(b)
  OBVIOUS
<1>24. \A a \in Builders : a \in losers <=> WaitsFor(a, b)
  BY <1>22, <1>23 DEF Losers
<1>25. builder' = [a \in Builders |-> IF a = b THEN work ELSE IF a \in losers THEN Idle
                                      ELSE Freed(a, losers)]
  <2>1. builder' = [a \in Builders |->
          CASE a = b -> builder[b].work
            [] a # b /\ WaitsFor(a, b) -> Woken(builder[a], b)
            [] OTHER -> Freed(a, Losers(b))]
    BY DEF CommitDay
  <2>2. \A a \in Builders :
          (CASE a = b -> builder[b].work
             [] a # b /\ WaitsFor(a, b) -> Woken(builder[a], b)
             [] OTHER -> Freed(a, Losers(b)))
          = IF a = b THEN work ELSE IF a \in losers THEN Idle ELSE Freed(a, losers)
    BY <1>1, <1>5, <1>22, <1>23, <1>24
  <2> QED BY <2>1, <2>2
<1>26. /\ builder' \in [Builders -> Doing] /\ builder'[b] = work
       /\ \A a \in Builders : a # b => builder'[a] = Idle \/ Same(builder[a], builder'[a])
       /\ OneInserts' /\ WaitersLose'
  <2>1. \A a \in Builders, c \in losers \cup {b} :
           WaitsFor(a, c) => a \in losers \cup {b} \/ \E g \in losers : WaitsFor(a, g)
    BY <1>24
  <2>2. work.stage \notin Tables \cup {"commit"}
    BY <1>6 DEF Tables
  <2>3. Stops(b, work, losers, losers)
    BY <1>25, <2>1 DEF Stops
  <2> QED BY <1>6, <2>2, <2>3, StopsTogether
\* What the others hold fits the new rows.
<1>27. \A e \in Days : rows["sales"][e] # {} => rows'["sales"][e] # {}
  BY <1>11, <1>19 DEF Tables
<1>28. ASSUME NEW v \in RequestSet("next") \cup RequestSet("rolled"), NEW dates, NEW fewer,
              Promise(v, dates), dates \ fewer \subseteq {d}
       PROVE  Promise(v, fewer)'
  <2>1. v.from \in Days /\ v.to \in Days /\ v.raw_from \in Days /\ v.from \in Int /\ v.to \in Int
        /\ v.raw_from \in Int
    BY <1>13 DEF RequestSet
  <2>2. v.from .. LastRolled(v) \subseteq Days
    <3>1. LastRolled(v) \in Int /\ LastRolled(v) =< v.to
      BY <2>1 DEF LastRolled
    <3>2. \A e \in v.from .. LastRolled(v) : e \in Int /\ v.from =< e /\ e =< v.to
      BY <2>1, <3>1
    <3> QED BY <2>1, <3>2, DaysAreConsecutive
  <2>3. \A e \in v.from .. LastRolled(v) : rows'["sales"][e] # {} \/ e \in fewer
    BY <1>19, <1>27, <1>28, <2>2 DEF Promise
  <2> QED BY <1>16, <1>28, <2>1, <2>3 DEF Promise, LastRolled
<1>29. Fits(work)'
  <2>1. ASSUME work.report PROVE Promise(work, work.todo)'
    <3>1. work \in RequestSet("next")
      BY <1>6, <2>1 DEF JobSet
    <3>2. PICK dates, fewer : dates = work.todo \cup {d} /\ fewer = work.todo
      OBVIOUS
    <3>3. Promise(work, dates) /\ dates \ fewer \subseteq {d}
      BY <1>6, <2>1, <3>2
    <3>4. Promise(work, fewer)'
      BY <1>28, <3>1, <3>3
    <3> QED BY <3>2, <3>4
  <2> QED BY <1>6, <2>1 DEF Fits, Tables
<1>30. ASSUME NEW a \in Builders, a # b, NEW v \in Doing, v = builder[a]
       PROVE  Fits(v)'
  <2>0. Fits(v)
    BY <1>30 DEF ReportsInv
  <2>1. ASSUME v.stage \in Tables \cup {"commit"} PROVE BuildFits(v)'
    <3>1. v \in BuildSet /\ BuildFits(v)
      BY <2>0, <2>1, StageTells DEF Fits
    <3>2. v.date \in Days /\ v.date \in Int /\ v.work \in JobSet \cup RequestSet("next")
      BY <1>13, <3>1 DEF BuildSet
    <3>3. \A t \in Tables : TableFits(v, t)'
      <4> TAKE t \in Tables
      <4>1. RowsAre(t, v.date, v.done[t].new) /\ TableFits(v, t)
        BY <3>1 DEF BuildFits, TableFits
      <4>2. RowsAre(t, v.date, v.done[t].new)'
        BY <1>15, <3>2, <4>1
      <4>3. ASSUME v.stage \in Later[t]
            PROVE  ~Clash(rows'[t][v.date] \ v.done[t].doomed, v.done[t].new)
        <5>1. ~Clash(rows[t][v.date] \ v.done[t].doomed, v.done[t].new)
          BY <4>1, <4>3 DEF TableFits, Inserted
        <5>2. CASE v.date # d
          BY <1>11, <3>2, <5>1, <5>2
        <5>3. CASE v.date = d
          <6>1. w.done[t].new = {} \/ v.done[t].new = {}
            BY <1>1, <1>3, <1>4, <1>30, <4>3, <5>3 DEF ReportsInv, OneInserts, HasWritten, Inserted
          <6>2. w.done[t].new = {} => rows'[t][d] \subseteq rows[t][d]
            BY <1>11
          <6> QED BY <5>1, <5>3, <6>1, <6>2 DEF Clash
        <5> QED BY <5>2, <5>3
      <4>4. v.stage \in Later[t] => (v.done[t].doomed # {} \/ t = "sales" => v.done[t].new # {})
        BY <4>1 DEF TableFits, Inserted
      <4> QED BY <4>2, <4>3, <4>4 DEF TableFits, Inserted, Clash, Later, Tables
    <3>4. v.totals \subseteq Sold(v.date)'
      BY <1>14, <3>1, <3>2 DEF BuildFits
    <3>5. v.finished => /\ Over(v.date)' /\ v.totals = Sold(v.date)'
                        /\ \A t \in Tables : Inserted(v, t) => Counted(v.done[t].new) = Sold(v.date)'
      BY <1>14, <3>1, <3>2 DEF BuildFits
    <3>6. ASSUME v.work.report PROVE Promise(v.work, v.work.todo \cup {v.date})'
      <4>1. PICK u, dates : u = v.work /\ dates = v.work.todo \cup {v.date}
        OBVIOUS
      <4>2. u \in RequestSet("next") /\ Promise(u, dates)
        BY <3>1, <3>2, <3>6, <4>1 DEF BuildFits, JobSet
      <4>3. Promise(u, dates)'
        BY <1>28, <4>2
      <4> QED BY <4>1, <4>3
    <3> QED BY <3>3, <3>4, <3>5, <3>6 DEF BuildFits, Inserted
  <2>2. ASSUME v.stage = "next", v.report PROVE Promise(v, v.todo)'
    <3>1. v \in RequestSet("next") /\ Promise(v, v.todo)
      BY <2>0, <2>2, StageTells DEF JobSet, Fits
    <3>2. PICK dates : dates = v.todo
      OBVIOUS
    <3>3. Promise(v, dates)'
      BY <1>28, <3>1, <3>2
    <3> QED BY <3>2, <3>3
  <2>3. ASSUME v.stage = "rolled" PROVE Promise(v, {})'
    <3>1. v \in RequestSet("rolled") /\ Promise(v, {})
      BY <2>0, <2>3, StageTells DEF Fits
    <3> QED BY <1>28, <3>1
  <2>4. ASSUME v.stage = "live" PROVE LiveFits(v)'
    <3>1. v \in LiveSet /\ LiveFits(v)
      BY <2>0, <2>4, StageTells DEF Fits
    <3>2. v.from \in Int /\ v.to \in Int /\ \A p \in v.rolled : p[1] \in Int
      BY <1>13, <3>1 DEF LiveSet
    <3>3. \A p \in v.rolled : p[2].orders \subseteq Sold(p[1])'
      BY <1>14, <3>1, <3>2 DEF LiveFits
    <3>4. v.asked \subseteq SettledIn(range_window(v.from, v.to))'
      BY <1>16, <3>1, <3>2 DEF LiveFits
    <3> QED BY <1>7, <3>1, <3>3, <3>4
        DEF LiveFits, LastRolled, CountedOnce, Counted, business_date_of
  <2> QED BY <2>1, <2>2, <2>3, <2>4 DEF Fits
<1>31. \A a \in Builders : Fits(builder[a])'
  <2> TAKE a \in Builders
  <2>1. CASE a = b
    <3>1. work = builder'[a]
      BY <1>26, <2>1
    <3> QED BY <1>29, <3>1
  <2>2. CASE a # b /\ builder'[a] = Idle
    BY <2>2 DEF Fits, Idle, Tables
  <2>3. CASE a # b /\ Same(builder[a], builder'[a])
    <3>1. PICK v \in Doing : v = builder[a]
      BY DEF ReportsInv, ReportTypes
    <3>2. Fits(v)'
      BY <1>30, <2>3, <3>1
    <3>3. PICK u : u = builder'[a] /\ Same(v, u)
      BY <2>3, <3>1
    <3>4. Fits(u)'
      <4>1. CASE u = v
        BY <3>2, <4>1
      <4>2. CASE v \in BuildSet /\ u = [v EXCEPT !.waits = Nobody]
        <5>1. /\ u.stage = v.stage /\ u.date = v.date /\ u.totals = v.totals
              /\ u.finished = v.finished /\ u.done = v.done /\ u.work = v.work
              /\ v.stage \in Tables \cup {"commit"}
          BY <4>2 DEF BuildSet
        <5>2. BuildFits(v)'
          BY <3>2, <5>1 DEF Fits, Tables
        <5>3. BuildFits(u)'
          BY <5>1, <5>2 DEF BuildFits, TableFits, Inserted, Later, Tables
        <5> QED BY <5>1, <5>3 DEF Fits, Tables
      <4> QED BY <3>3, <4>1, <4>2 DEF Same
    <3> QED BY <3>3, <3>4
  <2> QED BY <1>26, <2>1, <2>2, <2>3
<1>32. ReportTypes'
  <2>1. jobs' \in 0 .. MaxJobs
    BY <1>7 DEF ReportsInv, ReportTypes
  <2> QED BY <1>12, <1>13, <1>20, <1>26, <2>1 DEF ReportTypes
<1> QED BY <1>18, <1>21, <1>26, <1>31, <1>32 DEF ReportsInv

-----------------------------------------------------------------------------
(* What is reported.                                                       *)

\* Together: every step keeps the invariant.
LEMMA ReportsStep == ReportsInv /\ [DayReportsNext]_reportVars => ReportsInv'
<1> SUFFICES ASSUME ReportsInv, [DayReportsNext]_reportVars PROVE ReportsInv'
  OBVIOUS
<1>1. CASE TimePasses \/ \E o \in Orders : OpenOrder(o) \/ CloseOrder(o)
  BY <1>1, SalesMove
<1>2. ASSUME NEW b \in Builders, Nightly(b) \/ Rebuild(b) \/ Ask(b) PROVE ReportsInv'
  BY <1>2, StartMoves
<1>3. ASSUME NEW b \in Builders, BuildDay(b) PROVE ReportsInv'
  BY <1>3, BuildMoves
<1>4. ASSUME NEW b \in Builders, Write(b) PROVE ReportsInv'
  BY <1>4, WriteMoves
<1>5. ASSUME NEW b \in Builders, CommitDay(b) PROVE ReportsInv'
  BY <1>5, CommitMoves
<1>6. ASSUME NEW b \in Builders, Abort(b) PROVE ReportsInv'
  BY <1>6, AbortMoves
<1>7. ASSUME NEW b \in Builders, Built(b) \/ ReadRolled(b) \/ ReadLive(b) PROVE ReportsInv'
  BY <1>7, ReadMoves
<1>8. CASE UNCHANGED reportVars
  <2>1. /\ now' = now /\ order' = order /\ rows' = rows /\ builder' = builder
        /\ early' = early /\ jobs' = jobs
    BY <1>8 DEF reportVars
  <2>2. OrderTypes /\ OrderTypes'
    BY <2>1 DEF ReportsInv, ReportTypes, OrderTypes, SETTLED
  <2>3. SoldStays
    <3>1. \A d \in Int : Sold(d)' = Sold(d)
      BY <2>1 DEF Sold, SettledIn, OpenedIn, SETTLED, day_window
    <3>2. \A d \in Int : Over(d)' = Over(d)
      BY <2>1 DEF Over, OpenedIn, day_window, today, business_date_of
    <3> QED BY <2>1, <3>1, <3>2 DEF SoldStays
  <2>4. ReportTypes'
    <3>1. builder' \in [Builders -> Doing] /\ rows' \in [Tables -> [Days -> SUBSET Row]]
          /\ early' \subseteq Days /\ jobs' \in 0 .. MaxJobs
      BY <2>1 DEF ReportsInv, ReportTypes
    <3> QED BY <2>2, <3>1 DEF ReportTypes
  <2>5. RowsFit' /\ BuiltIsOver'
    BY <2>1, <2>2, <2>3, BooksStay
  <2>6. \A b \in Builders : Fits(builder[b])'
    <3> TAKE b \in Builders
    <3>1. PICK w \in Doing : w = builder[b]
      BY DEF ReportsInv, ReportTypes
    <3>2. Fits(w)'
      BY <2>1, <2>2, <2>3, <3>1, FitsStay DEF ReportsInv
    <3> QED BY <2>1, <3>1, <3>2
  <2>7. OneInserts' /\ WaitersLose'
    BY <2>1 DEF ReportsInv, OneInserts, WaitersLose, HasWritten, Building, Loses, Clash, Later, Tables
  <2> QED BY <2>4, <2>5, <2>6, <2>7 DEF ReportsInv
<1> QED BY <1>1, <1>2, <1>3, <1>4, <1>5, <1>6, <1>7, <1>8 DEF DayReportsNext

\* It has the types,
LEMMA ReportsTyped == ReportsInv => DayReportsTypeOK
<1> SUFFICES ASSUME ReportsInv PROVE DayReportsTypeOK
  OBVIOUS
<1>1. \A t \in Tables, d \in Days : rows[t][d] \subseteq Row
  BY DEF ReportsInv, ReportTypes
<1>2. ASSUME NEW b \in Builders
      PROVE  /\ builder[b].stage \in Tables \cup {"idle", "next", "commit", "rolled", "live"}
             /\ Building(b) => builder[b].date \in Days /\ builder[b].waits \in Builders \cup {Nobody}
  <2>1. builder[b] \in Doing
    BY DEF ReportsInv, ReportTypes
  <2>2. Building(b) => builder[b] \in BuildSet
    BY <2>1, StageTells DEF Building
  <2>3. Building(b) => builder[b].date \in Days /\ builder[b].waits \in Builders \cup {Nobody}
    BY <2>2 DEF BuildSet
  <2> QED BY <2>1, <2>3, StageTells
<1>3. /\ now \in 0 .. LastInstant
      /\ order \in [Orders -> [at : 0 .. LastInstant,
                               status : {"none", "OPEN", "CANCELLED"} \cup SETTLED]]
      /\ early \subseteq Days /\ jobs \in 0 .. MaxJobs
  BY DEF ReportsInv, ReportTypes, OrderTypes
<1> QED BY <1>1, <1>2, <1>3 DEF DayReportsTypeOK

\* and it tells that the reports are true.
LEMMA ReportsTell == ReportsInv => ReportsAreTrue
<1> SUFFICES ASSUME ReportsInv PROVE ReportsAreTrue
  OBVIOUS
<1>1. OrderTypes /\ RowsFit /\ Days \subseteq Int
  BY DaysAreConsecutive DEF ReportsInv, ReportTypes
<1>2. NoRevenueTwice
  <2>1. SUFFICES ASSUME NEW t \in Tables
                 PROVE  CountedOnce(UNION {{<<d, r>> : r \in rows[t][d]} : d \in Days})
    BY DEF NoRevenueTwice
  <2>2. PICK some : some = UNION {{<<d, r>> : r \in rows[t][d]} : d \in Days}
    OBVIOUS
  <2>3. \A p \in some : p[1] \in Days /\ p[2] \in rows[t][p[1]] /\ p = <<p[1], p[2]>> /\ p[2] \in Row
    BY <2>2 DEF ReportsInv, ReportTypes
  <2>4. some \subseteq Days \X Row
    <3>1. \A p \in some : <<p[1], p[2]>> \in Days \X Row
      BY <2>3
    <3> QED BY <2>3, <3>1
  <2> QED BY <1>1, <2>2, <2>3, <2>4, RowsCountOnce
<1>3. TablesAgree
  BY DEF ReportsInv, BuiltIsOver, TablesAgree, Sold
<1>4. ASSUME NEW b \in Builders, builder[b].stage = "live",
             NEW work, work = builder[b],
             NEW rolled, rolled = Counted({p[2] : p \in work.rolled})
      PROVE  /\ CountedOnce(work.rolled) /\ rolled \cap Live(work) = {}
             /\ rolled \cup Live(work) \subseteq SettledIn(range_window(work.from, work.to))
             /\ \A o \in work.asked \ (rolled \cup Live(work)) :
                  business_date_of(order[o].at) \in work.early
  <2>1. work \in LiveSet /\ LiveFits(work)
    <3>1. work \in Doing /\ Fits(work)
      BY <1>4 DEF ReportsInv, ReportTypes
    <3> QED BY <1>4, <3>1, StageTells DEF Fits
  <2>2. work.from \in Int /\ work.to \in Int /\ work.raw_from \in Int /\ work.from =< work.raw_from
    BY <1>1, <2>1 DEF LiveSet, LiveFits
  <2>3. \A o \in rolled : \E p \in work.rolled : o \in p[2].orders
    BY <1>4 DEF Counted
  <2>4. LastRolled(work) \in Int /\ LastRolled(work) =< work.to /\ LastRolled(work) < work.raw_from
    BY <2>2 DEF LastRolled
  <2>5. ASSUME NEW o \in rolled
        PROVE  /\ o \in Orders /\ order[o].status \in SETTLED
               /\ business_date_of(order[o].at) \in work.from .. work.to
               /\ business_date_of(order[o].at) < work.raw_from
    <3>1. PICK p \in work.rolled : o \in p[2].orders
      BY <2>3, <2>5
    <3>2. p[1] \in work.from .. LastRolled(work) /\ o \in Sold(p[1])
      BY <2>1, <3>1 DEF LiveFits
    <3>3. p[1] \in Int /\ p[1] \in work.from .. work.to /\ p[1] < work.raw_from
      BY <2>2, <2>4, <3>2
    <3>4. o \in Orders /\ order[o].status \in SETTLED /\ business_date_of(order[o].at) = p[1]
      BY <1>1, <3>2, <3>3, SoldMeans
    <3> QED BY <3>3, <3>4
  <2>0. Live(work) = {u \in Orders : /\ order[u].status \in SETTLED
                                     /\ business_date_of(order[u].at) \in work.raw_from .. work.to}
    BY <1>1, <2>2, SoldMeans DEF Live
  <2>6. \A o \in Live(work) : /\ o \in Orders /\ order[o].status \in SETTLED
                              /\ business_date_of(order[o].at) \in work.raw_from .. work.to
    BY <2>0
  <2>7. rolled \cap Live(work) = {}
    <3> SUFFICES ASSUME NEW o \in rolled, o \in Live(work) PROVE FALSE
      OBVIOUS
    <3>1. PICK d : d = business_date_of(order[o].at)
      OBVIOUS
    <3>2. d \in work.from .. work.to /\ d < work.raw_from /\ d \in work.raw_from .. work.to
      BY <2>5, <2>6, <3>1
    <3> QED BY <2>2, <3>2
  <2>8. rolled \cup Live(work) \subseteq SettledIn(range_window(work.from, work.to))
    <3>1. SettledIn(range_window(work.from, work.to)) =
            {o \in Orders : /\ order[o].status \in SETTLED
                            /\ business_date_of(order[o].at) \in work.from .. work.to}
      BY <1>1, <2>2, SoldMeans
    <3>2. work.raw_from .. work.to \subseteq work.from .. work.to
      BY <2>2
    <3> QED BY <2>5, <2>6, <3>1, <3>2
  <2>9. ASSUME NEW o \in work.asked \ (rolled \cup Live(work))
        PROVE  business_date_of(order[o].at) \in work.early
    <3>1. PICK d : d = business_date_of(order[o].at)
      OBVIOUS
    <3>2. o \in Orders /\ order[o].status \in SETTLED /\ d \in work.from .. work.to
      <4>1. o \in SettledIn(range_window(work.from, work.to))
        BY <2>1 DEF LiveFits
      <4> QED BY <1>1, <2>2, <3>1, <4>1, SoldMeans
    <3>3. d \notin work.raw_from .. work.to
      BY <2>0, <2>9, <3>1, <3>2
    <3>4. d < work.raw_from
      BY <2>2, <3>2, <3>3
    <3> QED BY <1>4, <2>1, <2>9, <3>1, <3>4 DEF LiveFits
  <2> QED BY <2>1, <2>7, <2>8, <2>9 DEF LiveFits
<1>5. ReportsCountOnce
  BY <1>4 DEF ReportsCountOnce
<1> QED BY <1>2, <1>3, <1>5 DEF ReportsAreTrue

\* Orders, rows and the tasks that build them keep their shape.
THEOREM ReportsTyping == DayReportsSpec => []DayReportsTypeOK
<1>1. DayReportsSpec => []ReportsInv
  BY ReportsStart, ReportsStep, PTL DEF DayReportsSpec
<1> QED BY <1>1, ReportsTyped, PTL

\* reporting/rollups.py and reports.py: however many builders write the rows of a day at once, a report counts every sale of its days once, and the days it takes from rows are complete unless they were built early.
THEOREM ReportsTruth == DayReportsSpec => []ReportsAreTrue
<1>1. DayReportsSpec => []ReportsInv
  BY ReportsStart, ReportsStep, PTL DEF DayReportsSpec
<1> QED BY <1>1, ReportsTell, PTL

-----------------------------------------------------------------------------
(* All of them.                                                            *)

\* The components share no state: what one may do alone it does beside the others.
LEMMA EachBehaves == MCSpec => Spec /\ BillSpec /\ DayReportsSpec
<1>1. MCInit => Init /\ BillInit /\ DayReportsInit
  BY DEF MCInit
<1>2. [MCNext]_mcVars => [Next]_vars
  BY DEF MCNext, mcVars
<1>3. [MCNext]_mcVars => [BillNext]_billVars
  BY DEF MCNext, mcVars
<1>4. [MCNext]_mcVars => [DayReportsNext]_reportVars
  BY DEF MCNext, mcVars
<1> QED BY <1>1, <1>2, <1>3, <1>4, PTL DEF MCSpec, Spec, BillSpec, DayReportsSpec

\* Whatever happens to orders and to the reports on them, rows, events, bills and
\* builders keep the shape the programs give them.
THEOREM OrdersTyping == MCSpec => []TypesOK
<1>1. TypeOK /\ BillTypeOK /\ DayReportsTypeOK => TypesOK
  BY DEF TypesOK
<1> QED BY <1>1, EachBehaves, Typing, BillsAgree, ReportsTyping, PTL

\* payments/services.py, beside everything else that goes on.
THEOREM MoneyBalancesHolds == MCSpec => []MoneyBalances
<1>1. MoneyAddsUp /\ RefundsWithinPaid => MoneyBalances
  BY DEF MoneyBalances
<1> QED BY <1>1, EachBehaves, MoneyHolds, PTL
=============================================================================
