---------------------------- MODULE MCOrderDesk ----------------------------
(***************************************************************************)
(* An order on small instances: how it is worked on, paid for and cooked,  *)
(* two lines for two stations; what a bill of two lines costs on the       *)
(* terminal and on the server; and what is reported of the orders of two   *)
(* days.  They share no state, so one behaviour moves one of them; the     *)
(* others stay as they began.                                              *)
(***************************************************************************)
EXTENDS OrderDesk, Bill, DayReports

CONSTANTS
    Foci,                       \* the components a run looks at
    l1, l2, bar, oven           \* two lines, two stations

TwoStations == (l1 :> bar) @@ (l2 :> oven)

\* A tea, which may have a price of its own on the order's channel, and a visit
\* to the play area, which bears no tax.
MCGoods == {"tea", "visit"}
MCMenu(price, channel) ==
    [g \in MCGoods |-> [price   |-> IF g = "tea" THEN price ELSE 13,
                        channel |-> IF g = "tea" THEN channel ELSE None,
                        exempt  |-> g = "visit"]]
MCMenus == {MCMenu(21, None), MCMenu(25, 27)}

\* Out of 50: 14 per cent VAT, 12 per cent service; a quarter is half a pound.
MCRuleSets == {[vat |-> 7, inclusive |-> FALSE, service |-> 6, step |-> 1],
               [vat |-> 7, inclusive |-> TRUE, service |-> 6, step |-> 25]}
MCOpening == [goods |-> MCMenu(21, None),
              rules |-> [vat |-> 7, inclusive |-> FALSE, service |-> 6, step |-> 1]]

VARIABLE focus

mcVars == <<focus, vars, billVars, reportVars>>

MCInit == focus \in Foci /\ Init /\ BillInit /\ DayReportsInit

MCNext ==
    \/ focus = "desk" /\ Next /\ UNCHANGED <<focus, billVars, reportVars>>
    \/ focus = "bill" /\ BillNext /\ UNCHANGED <<focus, vars, reportVars>>
    \/ focus = "reports" /\ DayReportsNext /\ UNCHANGED <<focus, vars, billVars>>

MCSpec == MCInit /\ [][MCNext]_mcVars

Symmetric == Permutations(Workers) \cup Permutations(Keys)

-----------------------------------------------------------------------------

\* The types of all: an order's rows, events, lines and totals keep the shape
\* the services give them.
TypesOK == TypeOK /\ BillTypeOK /\ DayReportsTypeOK

\* Money in and money out (payments/services.py take_payment, refund): the
\* order's paid total is the sum of its Payment rows, a key sent twice being
\* charged once, and no more goes back than came in, however many refunds race.
MoneyBalances == MoneyAddsUp /\ RefundsWithinPaid
=============================================================================
