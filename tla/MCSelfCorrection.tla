-------------------------- MODULE MCSelfCorrection --------------------------
(* An instance of SelfCorrection for TLC: invoices around every comparison   *)
(* of the rules, and replies that do not parse in different places.          *)
EXTENDS SelfCorrection

\* The readings of a date: 2026-05-01; 04/05/2026; a day that only one order
\* of day and month puts in the past, either way round; nonsense.
Iso    == [f \in Formats |-> IF f = 1 THEN "past" ELSE "unreadable"]
Both   == [f \in Formats |-> IF f \in {2, 3} THEN "past" ELSE "unreadable"]
DayMonth == [f \in Formats |-> CASE f = 2 -> "future" [] f = 3 -> "past"
                                 [] OTHER -> "unreadable"]
MonthDay == [f \in Formats |-> CASE f = 2 -> "past" [] f = 3 -> "future"
                                 [] OTHER -> "unreadable"]
Nonsense == [f \in Formats |-> "unreadable"]

Bill(subtotal, tax, discount, adjustment, total, date, above) ==
    [items |-> 10000, subtotal |-> subtotal, tax_amount |-> tax,
     discount_amount |-> discount, adjustment_amount |-> adjustment,
     total |-> total, date |-> date, above |-> above]

Either == {"items", "total"}

Bills ==
    { Bill(None, None, None, None, 10000, Iso, {}),
      Bill(None, None, None, None, 10001, Both, {}),
      Bill(None, None, None, None, 10001, MonthDay, Either),
      Bill(None, None, None, None, 10002, Nonsense, {}),
      Bill(None, 1000, None, None, 11000, Iso, {}),
      Bill(None, 1000, None, None, 10000, Iso, {}),
      Bill(None, None, None, None, 10000, DayMonth, {}),
      Bill(None, None, None, None, NaN, Iso, {}),
      Bill(10000, 1000, None, None, 11000, Both, {}),
      Bill(10000, 1000, 500, -200, 10300, MonthDay, {}),
      Bill(10000, None, 500, None, 10500, Iso, {}),
      Bill(10001, 1000, None, None, 11101, Iso, {}),
      Bill(10001, None, None, None, 10101, Iso, {"total"}),
      Bill(9999, None, None, None, 9899, Iso, {"items"}),
      Bill(9998, None, 0, 0, 9998, Nonsense, {}),
      Bill(10000, NaN, None, None, 20000, DayMonth, {}) }

Missing(name) == Error(name, "Field required")
NotJson   == [loc |-> <<>>, message |-> "Invalid JSON"]
BadAmount == [loc |-> <<"line_items", "0", "amount">>,
              message |-> "Input should be a valid number"]

SomeReplies ==
    {[parsed |-> TRUE, invoice |-> b, problems |-> {}] : b \in Bills}
    \cup {[parsed |-> FALSE, invoice |-> None, problems |-> p] :
            p \in {{NotJson}, {Missing("vendor")}, {Missing("total")},
                   {BadAmount}, {BadAmount, Missing("date")}}}
=============================================================================
