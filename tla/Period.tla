------------------------------- MODULE Period -------------------------------
(***************************************************************************)
(* Authorization periods: CurrentPeriod and its helpers in                 *)
(* policy/v1/period.go.                                                    *)
(*                                                                         *)
(* An instant is a number of hours since 1970-01-01 00:00 UTC, a civil day *)
(* the number of days since then, and a wall-clock time the pair of the    *)
(* two as one number, Day * day + hour.  Years and months matter only to   *)
(* the monthly rule.  A time zone is what the Go time package sees of it:  *)
(* an offset, and the instants at which another offset takes over.         *)
(***************************************************************************)
EXTENDS Integers, FiniteSets

Day == 24

\* The end of a period that has none: later than every instant.
NoEnd == 100000000

\* No zone was ever further from UTC.
WidestOffset == 16
Offsets == -WidestOffset .. WidestOffset

\* A zone is a record [base |-> offset before all transitions,
\*                     transitions |-> a set of [at |-> instant, offset]],
\* the transitions days apart.
IsZone(zone) ==
  /\ zone.base \in Offsets
  /\ \A tr \in zone.transitions : tr.at \in Int /\ tr.offset \in Offsets
  /\ \A first, second \in zone.transitions :
       \/ first = second
       \/ first.at + 2 * WidestOffset < second.at
       \/ second.at + 2 * WidestOffset < first.at
-----------------------------------------------------------------------------
(* The Go time package, as period.go uses it.                              *)

Segment(zone, t) == {tr \in zone.transitions : tr.at <= t}

Offset(zone, t) ==
  IF Segment(zone, t) = {} THEN zone.base
  ELSE (CHOOSE tr \in Segment(zone, t) :
          \A other \in Segment(zone, t) : other.at <= tr.at).offset

\* The wall-clock time of an instant: Time.In.
In(zone, t) == t + Offset(zone, t)

\* The instant of a wall-clock time: time.Date.  It looks the offset up as if
\* the wall-clock time were UTC and corrects it once if that offset does not
\* hold there; a time that does not exist, or exists twice, gets whichever
\* instant comes of it.
Date(zone, wall) ==
  LET offset == Offset(zone, wall)
      utc    == wall - offset
  IN  IF offset = 0 \/ Segment(zone, utc) = Segment(zone, wall)
      THEN utc
      ELSE wall - Offset(zone, utc)

\* The wall-clock times that do not exist, and those that exist twice.
Skewed(zone) ==
  UNION {LET before == Offset(zone, tr.at - 1)
         IN  (tr.at + before .. tr.at + tr.offset - 1)
               \cup (tr.at + tr.offset .. tr.at + before - 1) : tr \in zone.transitions}

CivilDay(wall) == wall \div Day

\* Time.AddDate(0, 0, n): the same wall-clock time n days later.
AddDays(zone, t, n) == Date(zone, In(zone, t) + n * Day)

\* 1970-01-01 was a Thursday.
IsoWeekday(day) == ((day + 3) % 7) + 1

\* The first day of a month, months being numbered from January 1970 as 0:
\* years are counted from March, so that the leap day comes last.
FirstOfMonth(month) ==
  LET y == 1970 + ((month - 2) \div 12)
      m == (month - 2) % 12
  IN  (365 * y) + (y \div 4) - (y \div 100) + (y \div 400)
        + ((153 * m + 2) \div 5) - 719468

MonthOf(day) ==
  CHOOSE month \in day \div 31 .. day \div 28 :
    FirstOfMonth(month) <= day /\ day < FirstOfMonth(month + 1)

-----------------------------------------------------------------------------
(* policy/v1/period.go                                                     *)

\* ValidateResetRule: value and period_anchor are there exactly where the kind
\* uses them.
ValidateResetRule(rule) ==
  CASE rule.kind \in {"never", "daily"} -> DOMAIN rule = {"kind"}
    [] rule.kind = "weekly"  -> /\ DOMAIN rule = {"kind", "value"}
                                /\ rule.value \in 1 .. 7
    [] rule.kind = "monthly" -> /\ DOMAIN rule = {"kind", "value"}
                                /\ rule.value \in 1 .. 31
    [] rule.kind = "interval_days" ->
         /\ DOMAIN rule = {"kind", "value", "anchor"}
         /\ rule.value \in 1 .. 3650
    [] OTHER -> FALSE

Midnight(zone, day) == Date(zone, day * Day)

\* Fault: a day the month does not have spills over into the next.
SpillingBoundary(zone, month, day) ==
  Midnight(zone, FirstOfMonth(month) + day - 1)

\* The number of the month's last day, which the code asks of the instant it
\* takes for the beginning of that day: without a midnight, that of an earlier one.
LastDay(zone, month) ==
  CivilDay(In(zone, Midnight(zone, FirstOfMonth(month + 1) - 1)))
    - FirstOfMonth(month) + 1

\* monthlyBoundary: a day the month does not have is its last one.
MonthlyBoundary(zone, month, day) ==
  LET last == LastDay(zone, month)
  IN  Midnight(zone, FirstOfMonth(month) + (IF day > last THEN last ELSE day) - 1)

DailyPeriod(zone, at) ==
  LET start == Midnight(zone, CivilDay(In(zone, at)))
  IN  [start |-> start, end |-> AddDays(zone, start, 1)]

WeeklyPeriod(zone, value, at) ==
  LET today    == CivilDay(In(zone, at))
      daysBack == (IsoWeekday(today) - value + 7) % 7
      start    == AddDays(zone, Midnight(zone, today), -daysBack)
  IN  [start |-> start, end |-> AddDays(zone, start, 7)]

MonthlyPeriod(zone, value, at) ==
  LET this  == MonthOf(CivilDay(In(zone, at)))
      month == IF MonthlyBoundary(zone, this, value) > at THEN this - 1 ELSE this
  IN  [start |-> MonthlyBoundary(zone, month, value),
       end   |-> MonthlyBoundary(zone, month + 1, value)]

\* Fault: the period of the calendar day, without going back from a time
\* later on that day than the instant asked for.
IntervalOfDay(zone, value, anchor, at) ==
  LET elapsed == CivilDay(In(zone, at)) - CivilDay(In(zone, anchor))
      start   == AddDays(zone, anchor, (elapsed \div value) * value)
  IN  [start |-> start, end |-> AddDays(zone, start, value)]

\* The loop goes back by whole periods, each step from the wall-clock time the
\* step before arrived at.
Back(zone, value, start) ==
  LET back[k \in 0 .. 2] ==
        IF k = 0 THEN start ELSE AddDays(zone, back[k - 1], -value)
  IN  back

\* The division of the code truncates and is corrected below zero, which is
\* division rounding down.
IntervalPeriod(zone, value, anchor, at) ==
  LET elapsed == CivilDay(In(zone, at)) - CivilDay(In(zone, anchor))
      back    == Back(zone, value, AddDays(zone, anchor, (elapsed \div value) * value))
      steps   == CHOOSE k \in 0 .. 2 :
                   back[k] <= at /\ \A j \in 0 .. k - 1 : back[j] > at
  IN  [start |-> back[steps], end |-> AddDays(zone, back[steps], value)]

RulePeriod(rule, zone, startedAt, at) ==
  CASE rule.kind = "never"   -> [start |-> startedAt, end |-> NoEnd]
    [] rule.kind = "daily"   -> DailyPeriod(zone, at)
    [] rule.kind = "weekly"  -> WeeklyPeriod(zone, rule.value, at)
    [] rule.kind = "monthly" -> MonthlyPeriod(zone, rule.value, at)
    [] rule.kind = "interval_days" ->
         IntervalPeriod(zone, rule.value, rule.anchor, at)

\* Fault: a period keeps the start its rule gives it.
UnclampedPeriod(rule, zone, startedAt, at) == RulePeriod(rule, zone, startedAt, at)

\* No period begins before the authorization.  The ID is a hash of both
\* boundaries, so a period is its boundaries.
CurrentPeriod(rule, zone, startedAt, at) ==
  LET period == RulePeriod(rule, zone, startedAt, at)
  IN  IF period.start < startedAt THEN [period EXCEPT !.start = startedAt]
                                  ELSE period

ValidatePeriod(period) == period.end > period.start

\* The part of ValidateAuthorizationPolicy (agent/v1/policies.go) that is about
\* the period: the period of the instant it starts at, which CurrentPeriod
\* refuses to compute before the authorization, is that period again.
ValidateCurrentPeriod(rule, zone, startedAt, period) ==
  /\ ValidateResetRule(rule)
  /\ ValidatePeriod(period)
  /\ period.start >= startedAt
  /\ CurrentPeriod(rule, zone, startedAt, period.start) = period

=============================================================================
