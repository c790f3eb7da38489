---------------------------- MODULE MCPeriodRoll ----------------------------
(* The weeks around the spring change of 2024 in the north and the autumn   *)
(* change in the south, for authorizations that begin on the leap day and   *)
(* in the middle of a billing month.                                        *)
EXTENDS PeriodRoll

\* 2024-02-29 05:00 UTC and 2024-03-05 14:00 UTC.
Starts == {19782 * Day + 5, 19787 * Day + 14}

Fixed(offset) == [base |-> offset, transitions |-> {}]
Changing(before, at, after) ==
  [base |-> before, transitions |-> {[at |-> at, offset |-> after]}]

UTC      == Fixed(0)
Shanghai == Fixed(8)
NewYork  == Changing(-5, 475015, -4)  \* 2024-03-10, forward at 02:00
Sydney   == Changing(11, 475672, 10)  \* 2024-04-07, back at 03:00
Santiago == Changing(-3, 475683, -4)  \* 2024-04-06, back at 24:00

Rule(kind) == [kind |-> kind]
Every(kind, value) == [kind |-> kind, value |-> value]

\* Intervals anchored at noon, on a day before the authorization begins and on
\* one after it.
Interval(days, anchorDay, zone) ==
  [kind |-> "interval_days", value |-> days,
   anchor |-> anchorDay * Day + 12 - zone.base]

Rules(zone) ==
  {Rule("never"), Rule("daily"), Every("weekly", 3), Every("weekly", 7),
   Every("monthly", 1), Every("monthly", 31),
   Interval(1, 19775, zone), Interval(3, 19800, zone)}

MCPolicies ==
  UNION {[rule : Rules(zone), zone : {zone}, startedAt : Starts] :
           zone \in {UTC, Shanghai, NewYork, Sydney, Santiago}}

\* What the theorems about periods ask of an authorization, these meet: the
\* clocks change in the zones of three fifths of them, at no hour at which a
\* period begins.  (Santiago's go back at midnight, to an hour before it.)
ASSUME RegularAssumption == \A p \in MCPolicies : Regular(p)

-----------------------------------------------------------------------------
\* 2024-09-08 in Santiago: at midnight the clocks go forward, so the day has none.
MCMidnightGap ==
  {[rule |-> Rule("daily"), zone |-> Changing(-4, 479380, -3),
    startedAt |-> 479380 - 4 * Day]}

\* 2024-03-10 in New York: the clocks go forward at the anchor's hour.
MCSkippedHour ==
  {[rule |-> [kind |-> "interval_days", value |-> 1, anchor |-> 475015 - 5 * Day],
    zone |-> NewYork, startedAt |-> 475015 - 3 * Day]}

=============================================================================
