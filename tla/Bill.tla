-------------------------------- MODULE Bill --------------------------------
(***************************************************************************)
(* One order priced twice.  The terminal appends events and folds them     *)
(* with the prices and rules of its mirror (desktop orders/service.py,     *)
(* fold.py); the server applies the same events later, with its own        *)
(* catalogue (backend orders/services.py).  How the events travel is       *)
(* SyncPush's subject: here they enter one by one in their order.          *)
(***************************************************************************)
EXTENDS Money, TLC, SequencesExt

CONSTANTS
    Goods,
    Menus,              \* of each good: [price, channel, exempt]
    RuleSets,           \* the settings: [vat, inclusive, service, step]
    Opening,            \* the menu and the settings to begin with
    Quantities,         \* in parts of Portion
    Overrides,          \* manual unit prices
    LinePercents, OrderPercents,
    None,
    MaxLines, MaxEvents,    \* bounds: lines and events of the order
    MaxChanges              \* bound: changes of the shop's prices and rules

\* Amounts in piasters; what the owner can set.
Amount == Nat
Shop == [goods : Menus, rules : RuleSets]

ASSUME ShopAssumption ==
    /\ Menus \subseteq [Goods -> [price : Amount, channel : Amount \cup {None}, exempt : BOOLEAN]]
    /\ RuleSets \subseteq [vat : Nat, inclusive : BOOLEAN, service : Nat, step : Nat]
    /\ Opening \in Shop
    /\ Quantities \subseteq Nat
    /\ Overrides \subseteq Amount
    /\ LinePercents \cup OrderPercents \subseteq 0 .. Whole
    /\ None \notin RuleSets \cup Nat
    /\ MaxLines \in Nat /\ MaxEvents \in Nat /\ MaxChanges \in Nat

VARIABLES
    shop,       \* the server's catalogue and settings
    mirror,     \* what the terminal pulled of them
    quoted,     \* the rules the terminal wrote on the order
    events,     \* the order's events
    booked,     \* the server's order
    entered,    \* how many events the server has applied
    changes

billVars == <<shop, mirror, quoted, events, booked, entered, changes>>

BillLine == [unit_price : Amount, tax_exempt : BOOLEAN, quantity : Quantities,
         discount_percent : 0 .. Whole, override : Amount \cup {None}, voided : BOOLEAN]
ServerOrder == [rules : RuleSets, lines : Seq(BillLine), discount_percent : 0 .. Whole]

BillTypeOK ==
    /\ shop \in Shop /\ mirror \in Shop
    /\ quoted \in RuleSets \cup {None}
    /\ booked.rules \in RuleSets \cup {None}
    /\ booked.rules # None => booked \in ServerOrder /\ Len(booked.lines) <= MaxLines
    /\ Len(events) <= MaxEvents /\ entered \in 0 .. Len(events)
    /\ changes \in 0 .. MaxChanges

NewOrder(rules) == [rules |-> rules, lines |-> <<>>, discount_percent |-> 0]
NewLine(price, exempt, quantity) ==
    [unit_price |-> price, tax_exempt |-> exempt, quantity |-> quantity,
     discount_percent |-> 0, override |-> None, voided |-> FALSE]

BillInit ==
    /\ shop = Opening
    /\ mirror = shop
    /\ quoted = None
    /\ events = <<>>
    /\ booked = NewOrder(None)
    /\ entered = 0
    /\ changes = 0

-----------------------------------------------------------------------------
(* The terminal: orders/fold.py.                                           *)

Entry(type, line, value) == [type |-> type, line |-> line, value |-> value]

\* An event about a line the fold does not have changes nothing.
Edit(order, e, field) ==
    IF e.line \in DOMAIN order.lines
    THEN [order EXCEPT !.lines[e.line][field] = e.value]
    ELSE order

apply(order, e) ==
    CASE e.type = "ITEM_ADDED"            -> [order EXCEPT !.lines = Append(@, e.value.line)]
      [] e.type = "ITEM_QUANTITY_CHANGED" -> Edit(order, e, "quantity")
      [] e.type = "ITEM_VOIDED"           -> Edit(order, e, "voided")
      [] e.type = "ITEM_PRICE_OVERRIDDEN" -> Edit(order, e, "override")
      [] e.type = "DISCOUNT_APPLIED" /\ e.line # None -> Edit(order, e, "discount_percent")
      [] e.type = "DISCOUNT_APPLIED" /\ e.line = None -> [order EXCEPT !.discount_percent = e.value]

fold == FoldLeft(apply, NewOrder(quoted), events)

Unvoided(lines) == {i \in DOMAIN lines : ~lines[i].voided}

\* What recalculate hands to compute_order, on either side.
Charged(lines, unit_price(_)) ==
    [i \in Unvoided(lines) |-> [lines[i] EXCEPT !.unit_price = unit_price(lines[i])]]

\* Fault of effective_unit_price: zero is taken for no override.
IfTruthy(line) == IF line.override \in {None, 0} THEN line.unit_price ELSE line.override

\* FoldedItem.effective_unit_price: zero is a price, of a comped item.
folded_unit_price(line) == IF line.override = None THEN line.unit_price ELSE line.override

till_lines == Charged(fold.lines, folded_unit_price)
till_totals == compute_order(till_lines, quoted, fold.discount_percent)

-----------------------------------------------------------------------------
(* The terminal: orders/service.py.                                        *)

Record(e) ==
    /\ Len(events) < MaxEvents
    /\ events' = Append(events, e)
    /\ UNCHANGED <<shop, mirror, quoted, booked, entered, changes>>

Standing == Unvoided(fold.lines)

\* open_order, with the rules of settings_from_mirror.
OpenBill ==
    /\ quoted = None
    /\ quoted' = mirror.rules
    /\ UNCHANGED <<shop, mirror, events, booked, entered, changes>>

\* add_item: the mirror's price, whatever the channel.
AddToBill(good, quantity) ==
    /\ quoted # None /\ Len(fold.lines) < MaxLines
    /\ LET variant == mirror.goods[good]
           line == NewLine(variant.price, variant.exempt, quantity)
       IN  Record(Entry("ITEM_ADDED", None, [good |-> good, line |-> line]))

ChangeQuantity(i, quantity) ==
    /\ fold.lines[i].quantity # quantity
    /\ Record(Entry("ITEM_QUANTITY_CHANGED", i, quantity))

VoidOnBill(i) == Record(Entry("ITEM_VOIDED", i, TRUE))

\* override_price; None clears, and the window offers that for an override only.
OverridePrice(i, price) ==
    /\ price = None => fold.lines[i].override # None
    /\ Record(Entry("ITEM_PRICE_OVERRIDDEN", i, price))

ApplyDiscount(i, percent) == Record(Entry("DISCOUNT_APPLIED", i, percent))

\* The puller, between two calls.
Pull ==
    /\ mirror # shop
    /\ mirror' = shop
    /\ UNCHANGED <<shop, quoted, events, booked, entered, changes>>

-----------------------------------------------------------------------------
(* The server: orders/services.py.                                         *)

\* A channel with no price of its own charges the good's price.
price_for(info) == IF info.channel = None THEN info.price ELSE info.channel

\* open_order: the rules in force when it arrives, tax_rules_for.
OpenOnServer ==
    /\ quoted # None /\ booked.rules = None
    /\ booked' = NewOrder(shop.rules)
    /\ UNCHANGED <<shop, mirror, quoted, events, entered, changes>>

\* The handlers; of an ITEM_ADDED the server takes the variant and the quantity.
item_added(order, added) ==
    LET info == shop.goods[added.good]
    IN  [order EXCEPT !.lines =
            Append(@, NewLine(price_for(info), info.exempt, added.line.quantity))]

quantity_changed(order, i, quantity) == [order EXCEPT !.lines[i].quantity = quantity]
item_voided(order, i) == [order EXCEPT !.lines[i].voided = TRUE]
price_overridden(order, i, price) == [order EXCEPT !.lines[i].override = price]
discount_applied(order, i, percent) ==
    IF i = None THEN [order EXCEPT !.discount_percent = percent]
               ELSE [order EXCEPT !.lines[i].discount_percent = percent]

handled(order, e) ==
    CASE e.type = "ITEM_ADDED"            -> item_added(order, e.value)
      [] e.type = "ITEM_QUANTITY_CHANGED" -> quantity_changed(order, e.line, e.value)
      [] e.type = "ITEM_VOIDED"           -> item_voided(order, e.line)
      [] e.type = "ITEM_PRICE_OVERRIDDEN" -> price_overridden(order, e.line, e.value)
      [] e.type = "DISCOUNT_APPLIED"      -> discount_applied(order, e.line, e.value)

Enter ==
    /\ booked.rules # None /\ entered < Len(events)
    /\ booked' = handled(booked, events[entered + 1])
    /\ entered' = entered + 1
    /\ UNCHANGED <<shop, mirror, quoted, events, changes>>

\* OrderItem.effective_unit_price.
effective_unit_price(line) == IF line.override = None THEN line.unit_price ELSE line.override

booked_totals ==
    compute_order(Charged(booked.lines, effective_unit_price), booked.rules, booked.discount_percent)

-----------------------------------------------------------------------------
(* The owner, on the server.                                               *)

Change(new) ==
    /\ new # shop /\ changes < MaxChanges
    /\ shop' = new
    /\ changes' = changes + 1
    /\ UNCHANGED <<mirror, quoted, events, booked, entered>>

ChangeMenu(goods) == Change([shop EXCEPT !.goods = goods])
ChangeRules(rules) == Change([shop EXCEPT !.rules = rules])

BillNext ==
    \/ OpenBill
    \/ \E good \in Goods, quantity \in Quantities : AddToBill(good, quantity)
    \/ \E i \in Standing :
          \/ \E quantity \in Quantities : ChangeQuantity(i, quantity)
          \/ VoidOnBill(i)
          \/ \E price \in Overrides \cup {None} : OverridePrice(i, price)
          \/ \E percent \in LinePercents : ApplyDiscount(i, percent)
    \/ \E percent \in OrderPercents : quoted # None /\ ApplyDiscount(None, percent)
    \/ Pull \/ OpenOnServer \/ Enter
    \/ \E goods \in Menus : ChangeMenu(goods)
    \/ \E rules \in RuleSets : ChangeRules(rules)

BillSpec == BillInit /\ [][BillNext]_billVars

-----------------------------------------------------------------------------

\* compute_order: what is rounded on the way never moves the total further from
\* the exact amount than its roundings can: one per line and per discount, then
\* service, taxable base, tax and step.
RoundingIsBounded ==
    LET Bounded(lines, rules, percent) ==
            2 * Distance(compute_order(lines, rules, percent).grand_total
                            * Portion * Whole * Whole * Whole * Whole,
                         ExactTotal(lines, rules, percent))
              <= Portion * Whole * Whole * RoundingError(lines, rules, percent)
    IN  quoted # None => Bounded(till_lines, quoted, fold.discount_percent)

\* The snapshots one side took that the other did not.
Repriced ==
    \/ booked.rules # quoted
    \/ \E i \in DOMAIN booked.lines :
          \/ booked.lines[i].unit_price # fold.lines[i].unit_price
          \/ booked.lines[i].tax_exempt # fold.lines[i].tax_exempt

AllEntered == booked.rules # None /\ entered = Len(events)

\* fold.recalculate and services.recalculate: once the server has entered what
\* the terminal recorded, every figure of the two bills is the same, unless a
\* price or a rule was snapshotted differently.
BillsAgreeUnlessRepriced == AllEntered /\ ~Repriced => till_totals = booked_totals

\* fold.py:5 "produce the same numbers the server will produce for the same
\* events": refuted, the server takes its own price when the event arrives.
TillAndServerAgree == AllEntered => till_totals.grand_total = booked_totals.grand_total
=============================================================================
