---------------------------- MODULE BillingPeriod ----------------------------
(***************************************************************************)
(* The billing period of an instant (src/serving_limits.rs): the calendar  *)
(* month in UTC, with its end left out.  Allowance, serving and rating     *)
(* count calls by it, on two services.                                     *)
(*                                                                         *)
(* An instant is a year, a month and the seconds since the month began.    *)
(***************************************************************************)
EXTENDS Integers

Instant == [year : Int, month : 1..12, since : Nat]

\* DateTime's order.
Earlier(a, b) ==
    \/ a.year < b.year
    \/ a.year = b.year /\ a.month < b.month
    \/ a.year = b.year /\ a.month = b.month /\ a.since < b.since

\* The first of a month at midnight.
First(year, month) == [year |-> year, month |-> month, since |-> 0]

\* Months::new(1) after the first of a month.
NextMonth(first) ==
    IF first.month = 12 THEN First(first.year + 1, 1) ELSE First(first.year, first.month + 1)

calendar_period(at) ==
    LET start == First(at.year, at.month)
    IN  [label |-> <<at.year, at.month>>, start |-> start, end |-> NextMonth(start)]

Within(b, period) == ~Earlier(b, period.start) /\ Earlier(b, period.end)
=============================================================================
