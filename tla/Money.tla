-------------------------------- MODULE Money --------------------------------
(***************************************************************************)
(* How the total of an order is computed (core/money.py, its vendored copy *)
(* on the terminal, and the port in frontend/src/lib/money.ts).            *)
(*                                                                         *)
(* An amount is a whole number of piasters, a percentage a whole number of *)
(* parts of Whole and a quantity a whole number of parts of Portion.  A    *)
(* quotient is exact here; the programs carry 28 digits, which can turn a  *)
(* rounding only where the exact amount ends in half a piaster.            *)
(***************************************************************************)
EXTENDS Integers, FiniteSets, Functions

CONSTANTS
    Whole,      \* the parts of a percentage: 100 in the programs
    Portion     \* the parts of one of a good: 1000 in the programs

ASSUME WholeAssumption == Whole \in Nat \ {0} /\ Portion \in Nat \ {0}

\* n/d to the nearest whole number, a half away from zero (ROUND_HALF_UP).
Rounded(n, d) ==
    IF n >= 0 THEN (2 * n + d) \div (2 * d) ELSE -((2 * (-n) + d) \div (2 * d))

percent_of(amount, percent) == Rounded(amount * percent, Whole)

\* A step of zero or less rounds to the piaster, which amounts already are.
round_to_step(amount, step) ==
    IF step <= 0 THEN amount ELSE Rounded(amount, step) * step

compute_line(line) ==
    LET gross == Rounded(line.unit_price * line.quantity, Portion)
        discount == percent_of(gross, line.discount_percent)
    IN  [gross |-> gross, discount |-> discount, net |-> gross - discount]

\* The order of the lines does not matter to a sum.
SumOver(f(_), lines) == SumFunction([i \in DOMAIN lines |-> f(lines[i])])
NetOf(line) == compute_line(line).net
DiscountOf(line) == compute_line(line).discount
TaxableNetOf(line) == IF line.tax_exempt THEN 0 ELSE NetOf(line)

\* VAT falls on the taxable share of base; an inclusive price already holds it.
compute_tax(base, taxable, net, vat, inclusive) ==
    IF vat <= 0 \/ base <= 0 \/ net = 0 \/ taxable <= 0 THEN 0
    ELSE LET taxable_base == Rounded(base * taxable, net)
         IN  IF inclusive THEN Rounded(taxable_base * vat, Whole + vat)
                          ELSE percent_of(taxable_base, vat)

\* rules.vat and rules.service are zero when the settings switch them off.
compute_order(lines, rules, discount_percent) ==
    LET net == SumOver(NetOf, lines)
        discount == percent_of(net, discount_percent)
        service == percent_of(net - discount, rules.service)
        base == net - discount + service
        tax == compute_tax(base, SumOver(TaxableNetOf, lines), net, rules.vat, rules.inclusive)
        raw == base + (IF rules.inclusive THEN 0 ELSE tax)
        grand == round_to_step(raw, rules.step)
    IN  [subtotal |-> net, discount_total |-> SumOver(DiscountOf, lines) + discount,
         service_total |-> service, tax_total |-> tax, grand_total |-> grand,
         rounding_adjustment |-> grand - raw]

-----------------------------------------------------------------------------
(* What the same bill comes to when nothing is rounded.                    *)

Rest(percent) == Whole - percent
ExactNetOf(line) == line.unit_price * line.quantity * Rest(line.discount_percent)
ExactTaxableOf(line) == IF line.tax_exempt THEN 0 ELSE ExactNetOf(line)
VatOnTop(rules) == IF rules.inclusive THEN 0 ELSE rules.vat

\* In units of 1/(Portion * Whole^4) piasters: VAT on the taxable lines, a discount on all.
ExactTotal(lines, rules, discount_percent) ==
    Rest(discount_percent) * (Whole + rules.service)
      * (Whole * SumOver(ExactNetOf, lines) + VatOnTop(rules) * SumOver(ExactTaxableOf, lines))

\* Each line is rounded once, each discount, service, taxable base, tax and total.
RoundingError(lines, rules, discount_percent) ==
    LET discounts == Cardinality({i \in DOMAIN lines : lines[i].discount_percent > 0})
                       + (IF discount_percent > 0 THEN 1 ELSE 0)
        vat == VatOnTop(rules)
    IN  (Cardinality(DOMAIN lines) + discounts) * (Whole + rules.service) * (Whole + vat)
          + 2 * Whole * (Whole + vat) + Whole * Whole * rules.step

Distance(a, b) == IF a >= b THEN a - b ELSE b - a
=============================================================================
