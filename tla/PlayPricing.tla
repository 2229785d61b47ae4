---------------------------- MODULE PlayPricing ----------------------------
(***************************************************************************)
(* What a visit to the play area costs (core/play_pricing.py, and the copy *)
(* of it on the desktop): a function of whole minutes, of the tariff and   *)
(* of the way the branch rounds.  Money is a number of piasters.  A meter  *)
(* shows the figure as the minutes pass.  Quotients are exact here; those  *)
(* of the program have 28 digits, so half a piaster may be rounded down.   *)
(***************************************************************************)
EXTENDS Integers, FiniteSets

CONSTANTS
    Cards,          \* tariffs, as the flat records of the pricing module
    Roundings,      \* ROUNDING_MODES
    MaxMinutes      \* bound: the longest visit

ASSUME PricingAssumption ==
    /\ Roundings \subseteq {"up_to_block", "nearest_block", "exact_minutes"}
    /\ MaxMinutes \in Nat
    /\ Cards \subseteq [mode : {"TIMED", "PACKAGE", "OPEN_DAY"}, entry_fee : Nat,
                        included_minutes : Nat, package_minutes : Nat, block_minutes : Nat,
                        block_rate : Nat, grace_minutes : Nat, daily_cap : Nat]

AtLeast(low, x) == IF x < low THEN low ELSE x

\* Decimal.quantize of a / b to a whole number, for a >= 0.
Ceiling(a, b) == (a + b - 1) \div b
HalfUp(a, b)  == (2 * a + b) \div (2 * b)

Covered(card) ==
    IF card.mode = "PACKAGE" THEN card.package_minutes
    ELSE IF card.mode = "OPEN_DAY" THEN 0 ELSE card.included_minutes

Overrun(card, minutes) == AtLeast(0, minutes - Covered(card))

\* A block has started: the grace is over and the tariff has blocks at a price.
Charges(card, minutes) ==
    /\ card.mode # "OPEN_DAY"
    /\ Overrun(card, minutes) > card.grace_minutes
    /\ card.block_minutes > 0 /\ card.block_rate > 0

NearestBlocks(card, minutes, rounding) ==
    IF rounding = "up_to_block" THEN Ceiling(Overrun(card, minutes), card.block_minutes)
    ELSE HalfUp(Overrun(card, minutes), card.block_minutes)
WholeBlocks(card, minutes, rounding) ==
    IF rounding = "up_to_block" THEN Ceiling(Overrun(card, minutes), card.block_minutes)
    ELSE AtLeast(1, HalfUp(Overrun(card, minutes), card.block_minutes))

Extra(card, minutes, rounding) ==
    IF ~Charges(card, minutes) THEN 0
    ELSE IF rounding = "exact_minutes"
         THEN HalfUp(Overrun(card, minutes) * card.block_rate, card.block_minutes)
         ELSE WholeBlocks(card, minutes, rounding) * card.block_rate

\* An open day knows no cap, and a cap of 0 is none.
Capped(card, sum) ==
    card.mode # "OPEN_DAY" /\ card.daily_cap > 0 /\ sum > card.daily_cap

Charge(card, minutes, rounding) ==
    LET sum == card.entry_fee + Extra(card, minutes, rounding)
    IN  IF Capped(card, sum) THEN card.daily_cap ELSE sum

\* The minutes the receipt explains.
Billable(card, minutes, rounding) ==
    IF Charges(card, minutes) /\ rounding # "exact_minutes"
    THEN Covered(card) + WholeBlocks(card, minutes, rounding) * card.block_minutes
    ELSE minutes

-----------------------------------------------------------------------------
(* The meter: quote() at every minute of a visit.                          *)

VARIABLES card, rounding, minutes

meterVars == <<card, rounding, minutes>>

MeterInit == card \in Cards /\ rounding \in Roundings /\ minutes = 0

MinutePasses ==
    /\ minutes < MaxMinutes
    /\ minutes' = minutes + 1
    /\ UNCHANGED <<card, rounding>>

MeterSpec == MeterInit /\ [][MinutePasses]_meterVars

Quote == Charge(card, minutes, rounding)

\* Reference: the blocks that began before the visit ended, counted one by one.
BlocksBegun == Cardinality({k \in 0 .. MaxMinutes :
                              Covered(card) + k * card.block_minutes < minutes})

-----------------------------------------------------------------------------
(* Properties.                                                             *)

\* Rounded up, a visit past its grace costs the fee and each block begun, counted
\* one by one; rounded to the nearest block it still costs one block at least.
\* However it is rounded, nobody pays less by staying longer, over the end of the
\* grace, of a block and at the cap.
BlocksAreCharged ==
    LET begun == IF Charges(card, minutes) THEN BlocksBegun ELSE 0
        least == IF Charges(card, minutes) /\ rounding = "nearest_block" THEN 1 ELSE 0
        Bill(blocks) == card.entry_fee + blocks * card.block_rate
        Cut(sum)     == IF Capped(card, sum) THEN card.daily_cap ELSE sum
    IN  /\ rounding = "up_to_block" => Quote = Cut(Bill(begun))
        /\ Quote >= Cut(Bill(least))
        /\ minutes > 0 => Quote >= Charge(card, minutes - 1, rounding)
=============================================================================
