---------------------------- MODULE InvoiceRules ----------------------------
(***************************************************************************)
(* The business rules for invoices: validate_invoice and _try_parse_date   *)
(* (app/services/validation.py) over InvoiceFields (app/schemas/invoice.py)*)
(*                                                                         *)
(* Amounts are in hundredths.  The code compares floats: two amounts that  *)
(* differ by exactly the tolerance may come out on either side of it, so   *)
(* an invoice says for which comparisons they come out above it.           *)
(***************************************************************************)
EXTENDS Integers

CONSTANTS
    None,  \* Python's None
    NaN    \* float("nan"), which model_validate_json accepts as an amount

ASSUME NumberAssumption == None \notin Int \cup {NaN, "past", "future"} /\ NaN \notin Int

Amount == Int \cup {NaN}
OptionalAmount == Amount \cup {None}

\* What a date string is under each of _DATE_FORMATS.
Formats == 1 .. 5
Date == [Formats -> {"unreadable", "past", "future"}]

\* items: the sum of the amounts of line_items.
InvoiceFields ==
    [items : Amount, subtotal : OptionalAmount, tax_amount : OptionalAmount,
     discount_amount : OptionalAmount, adjustment_amount : OptionalAmount,
     total : Amount, date : Date, above : SUBSET {"items", "total"}]

-----------------------------------------------------------------------------

AMOUNT_TOLERANCE == 1
TOTAL_TOLERANCE == 100

Distance(x, y) == IF x < y THEN y - x ELSE x - y

\* abs(x - y) > tolerance: false as soon as one of them is NaN.
Differ(x, y, tolerance, above) ==
    /\ {x, y} \subseteq Int
    /\ \/ Distance(x, y) > tolerance
       \/ Distance(x, y) = tolerance /\ above

\* x or 0.0
OrZero(x) == IF x = None THEN 0 ELSE x

\* The discount is added, as the adjustment is.
MutExpectedTotal(i) ==
    LET terms == <<i.subtotal, OrZero(i.tax_amount), OrZero(i.discount_amount),
                   OrZero(i.adjustment_amount)>>
    IN IF \E t \in DOMAIN terms : terms[t] = NaN THEN NaN
       ELSE terms[1] + terms[2] + terms[3] + terms[4]

\* subtotal + tax - discount + adjustment
ExpectedTotal(i) ==
    LET terms == <<i.subtotal, OrZero(i.tax_amount), OrZero(i.discount_amount),
                   OrZero(i.adjustment_amount)>>
    IN IF \E t \in DOMAIN terms : terms[t] = NaN THEN NaN
       ELSE terms[1] + terms[2] - terms[3] + terms[4]

\* The loop over the formats ends at the first of them.
MutTryParseDate(d) == IF d[1] = "unreadable" THEN None ELSE d[1]

\* The first format that matches decides how a string is read.
TryParseDate(d) ==
    IF \A f \in Formats : d[f] = "unreadable" THEN None
    ELSE d[CHOOSE f \in Formats : /\ d[f] # "unreadable"
                                  /\ \A g \in 1 .. f - 1 : d[g] = "unreadable"]

-----------------------------------------------------------------------------

\* An error: its location (a path with one name) and its message, here
\* without the amounts and the date.
Error(name, message) == [loc |-> <<name>>, message |-> message]

ItemsMissSubtotal == Error("subtotal", "line items do not sum to the subtotal")
TotalMissed       == Error("total", "subtotal, tax, discount and adjustments do not make the total")
ItemsMissTotal    == Error("total", "line items do not sum to the total")
NotADate          == Error("date", "not a recognizable date")
FutureDate        == Error("date", "in the future")

SubtotalErrors(i) ==
    IF Differ(i.items, i.subtotal, AMOUNT_TOLERANCE, "items" \in i.above)
      THEN {ItemsMissSubtotal} ELSE {}

TotalErrors(i) ==
    IF Differ(ExpectedTotal(i), i.total, TOTAL_TOLERANCE, "total" \in i.above)
      THEN {TotalMissed} ELSE {}

\* Without a subtotal the line items are the total, whatever tax, discount or
\* adjustment is stated.
ItemErrors(i) ==
    IF Differ(i.items, i.total, AMOUNT_TOLERANCE, "items" \in i.above)
      THEN {ItemsMissTotal} ELSE {}

DateErrors(i) ==
    CASE TryParseDate(i.date) = None     -> {NotADate}
      [] TryParseDate(i.date) = "future" -> {FutureDate}
      [] OTHER                           -> {}

validate_invoice(i) ==
    DateErrors(i) \cup
    IF i.subtotal # None THEN SubtotalErrors(i) \cup TotalErrors(i) ELSE ItemErrors(i)

-----------------------------------------------------------------------------
(* What the rules are for. *)

\* Every amount the rules look at is a number.
Numeric(i) == {i.items, i.total, OrZero(i.subtotal), OrZero(i.tax_amount),
               OrZero(i.discount_amount), OrZero(i.adjustment_amount)} \subseteq Int

\* What the line items, with tax, discount and adjustment, come to.
ItemsToTotal(i) == i.items + OrZero(i.tax_amount) - OrZero(i.discount_amount)
                           + OrZero(i.adjustment_amount)

\* tax, discount and adjustment are stated with a subtotal or not at all.
Itemized(i) == i.subtotal # None \/ ItemsToTotal(i) = i.items

\* The line items account for the total.
Reconciles(i, tolerance) == Distance(ItemsToTotal(i), i.total) <= tolerance

\* Some format reads the date as one that is past.
PastDate(i) == \E f \in Formats : i.date[f] = "past"
=============================================================================
