----------------------------- MODULE PeriodRoll -----------------------------
(***************************************************************************)
(* The two users of CurrentPeriod over time.  The center puts the period   *)
(* of the moment into the policy it sends; the Agent takes it when         *)
(* ValidateAuthorizationPolicy accepts it and, from then on, rolls forward *)
(* locally whenever it looks at the clock and finds the period over        *)
(* (docs/authorization-policy-v1.md).  Neither program is in this          *)
(* repository; the calendar they share is, in Period.                      *)
(***************************************************************************)
EXTENDS Period

CONSTANTS
  Policies,  \* Records [rule, zone, startedAt]: the authorizations considered.
  Horizon,   \* The last instant of a run.
  MaxLag     \* How many hours the Agent may look at the clock too late.

ASSUME PolicyAssumption ==
  \A p \in Policies :
    /\ ValidateResetRule(p.rule) /\ IsZone(p.zone)
    /\ p.rule.kind = "interval_days" => p.rule.anchor \in Int
    /\ p.startedAt \in 0 .. Horizon
ASSUME BoundAssumption == Horizon \in 0 .. NoEnd - 1 /\ MaxLag \in Nat

VARIABLES
  policy,  \* The authorization this behaviour is about.
  now,     \* The clock the center and the Agent share.
  period   \* The period the Agent accounts traffic to, or NoPeriod.

vars == <<policy, now, period>>

NoPeriod == [start |-> -1, end |-> -1]

PeriodNow == CurrentPeriod(policy.rule, policy.zone, policy.startedAt, now)

Valid(p) == ValidateCurrentPeriod(policy.rule, policy.zone, policy.startedAt, p)

Init ==
  /\ policy \in Policies
  /\ now = policy.startedAt
  /\ period = NoPeriod

\* Time passes, though never so long that the Agent misses a whole lag.
Tick ==
  /\ now < Horizon
  /\ period = NoPeriod => now < policy.startedAt + MaxLag
  /\ period # NoPeriod => now < period.end + MaxLag
  /\ now' = now + 1
  /\ UNCHANGED <<policy, period>>

\* The first policy.reconcile command: the Agent takes the center's period.
Reconcile ==
  /\ period = NoPeriod
  /\ Valid(PeriodNow)
  /\ period' = PeriodNow
  /\ UNCHANGED <<policy, now>>

\* The Agent finds its period over and computes the one it is now in.
Roll ==
  /\ period # NoPeriod
  /\ now >= period.end
  /\ period' = PeriodNow
  /\ UNCHANGED <<policy, now>>

Next == Tick \/ Reconcile \/ Roll

Spec == Init /\ [][Next]_vars
-----------------------------------------------------------------------------
\* The hour of the day at which a policy's periods begin.
BoundaryHour(p) ==
  IF p.rule.kind = "interval_days" THEN In(p.zone, p.rule.anchor) % Day ELSE 0

\* Each day has that hour once: the clocks are not changed across it.
Regular(p) ==
  p.rule.kind # "never" => \A wall \in Skewed(p.zone) : wall % Day # BoundaryHour(p)

\* Roll does not validate what it computes; a period it takes has a length.
TypeOK ==
  /\ policy \in Policies
  /\ now \in policy.startedAt .. Horizon
  /\ period = NoPeriod \/ (period.start \in Nat /\ period.end > period.start)

\* CurrentPeriod(at) is a period `at` lies in (period.go:79-145).
ContainsNow == PeriodNow.start <= now /\ now < PeriodNow.end

\* "CurrentPeriod returns the same period on the center and Agent": as long as
\* the period the Agent holds lasts, the center computes that same period, at
\* whatever instant within it (period.go:76).
CenterAgrees == now < period.end => PeriodNow = period

\* Whatever the center computes, at whatever instant, the validator at the
\* Agent accepts: it computes the period once more from the period's own start
\* (policies.go:134-140).
AgentAccepts == Valid(PeriodNow)

\* The period after the current one begins where that ends.
NextAbuts ==
  LET end == PeriodNow.end
  IN  end # NoEnd =>
        CurrentPeriod(policy.rule, policy.zone, policy.startedAt, end).start = end

\* The quota is per period: traffic is never counted into a period that is over
\* or has not begun, no hour is counted twice and none is left out.
PeriodsTile == ContainsNow /\ NextAbuts

-----------------------------------------------------------------------------
\* "`daily`: local midnight to the next local midnight"
\* (docs/authorization-policy-v1.md): where the day after the period's last
\* hour has a midnight, a daily period ends at one.
DailyEndsAtMidnight ==
  policy.rule.kind = "daily" =>
    LET day == CivilDay(In(policy.zone, now)) + 1
    IN  (\E t \in now .. now + 2 * Day : In(policy.zone, t) = day * Day)
          => In(policy.zone, PeriodNow.end) = day * Day

\* "`interval_days`: calendar-day intervals from the supplied anchor in its
\* configured timezone, preserving local wall-clock time across daylight-saving
\* changes" (docs/authorization-policy-v1.md): where the day an interval ends on
\* has the anchor's hour, it ends at that hour.
IntervalKeepsHour ==
  policy.rule.kind = "interval_days" =>
    LET end  == In(policy.zone, PeriodNow.end)
        wall == CivilDay(end) * Day + BoundaryHour(policy)
    IN  (\E t \in PeriodNow.end - Day .. PeriodNow.end + Day : In(policy.zone, t) = wall)
          => end = wall

=============================================================================
