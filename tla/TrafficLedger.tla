--------------------------- MODULE TrafficLedger ---------------------------
(***************************************************************************)
(* The traffic of one authorization: a node plugin counts it per service,  *)
(* the Agent turns samples of the counters into a ledger per period, and   *)
(* the center replaces what it knows of a period by later snapshots of     *)
(* that ledger.  Counters start again when the plugin restarts, with a new *)
(* epoch or without, the Agent may crash between writing its ledger and    *)
(* queueing the snapshot, and the center's consumer may read its events    *)
(* again.                                                                  *)
(*                                                                         *)
(* The samples and snapshots, and the checks both must pass, are in        *)
(* nodeplugin/v1/validate.go and agent/v1/telemetry.go; what the Agent and *)
(* the center do with them is told by docs/node-plugin-v1.md,              *)
(* agent-events-v1.md and authorization-policy-v1.md.                      *)
(***************************************************************************)
EXTENDS Naturals, Sequences, FiniteSets, Totals

CONSTANTS
  LastService,  \* the plugin's counters, one per service
  LastPeriod,   \* the authorization's periods
  MaxTraffic,   \* units of traffic of the run
  MaxRestarts,  \* restarts of the plugin
  MaxSnapshots  \* snapshots that reach the center's event database

ASSUME LedgerAssumption ==
  /\ {LastService, LastPeriod} \subseteq Nat \ {0}
  /\ {MaxTraffic, MaxRestarts, MaxSnapshots} \subseteq Nat

Services == 1 .. LastService
Periods  == 1 .. LastPeriod

VARIABLES
  used,      \* traffic there really was
  restarts,
  counters,  \* the plugin's counters: epoch and bytes of each service
  samples,   \* the Agent's last sample of each, on disk
  period,    \* the Agent's period
  revision,  \* of the ledger, on disk
  ledger,    \* revision and bytes of each period, on disk
  unsent,    \* the snapshot that is to be queued, in memory, or <<>>
  events,    \* the snapshots in the center's database
  cursor,    \* of the consumer that reads them
  center     \* revision and bytes of each period, at the center

source     == <<used, restarts, counters>>
accounts   == <<samples, period, revision, ledger, unsent>>
accounting == <<source, accounts, events, cursor, center>>

LedgerInit ==
  /\ used = 0 /\ restarts = 0
  /\ counters = [s \in Services |-> [epoch |-> 1, bytes |-> 0]]
  /\ samples = counters
  /\ period = 1 /\ revision = 0
  /\ ledger = [p \in Periods |-> [revision |-> 0, bytes |-> 0]]
  /\ unsent = <<>>
  /\ events = <<>> /\ cursor = 0
  /\ center = ledger

-----------------------------------------------------------------------------
(* The node plugin and the samples of its counters                         *)

Flow(s) ==
  /\ used < MaxTraffic
  /\ used' = used + 1
  /\ counters' = [counters EXCEPT ![s].bytes = @ + 1]
  /\ UNCHANGED <<restarts, accounts, events, cursor, center>>

\* counter_epoch names the lifetime of the counters, if the plugin sees to it.
CountersRestart ==
  /\ restarts < MaxRestarts
  /\ restarts' = restarts + 1
  /\ \E next \in {0, 1} :
       counters' = [s \in Services |->
                     [epoch |-> counters[s].epoch + next, bytes |-> 0]]
  /\ UNCHANGED <<used, accounts, events, cursor, center>>

\* What may have been read of a counter since the last sample.
Readings(s) ==
  LET last == samples[s] now == counters[s]
      low  == IF last.epoch = now.epoch /\ last.bytes <= now.bytes
              THEN last.bytes ELSE 0
  IN [service : {s}, epoch : {now.epoch}, bytes : low .. now.bytes]

\* Whatever a plugin may answer: a service may lack, or be read twice.
Responses ==
  LET read == UNION {Readings(s) : s \in Services}
  IN UNION {[1 .. n -> read] : n \in 1 .. Cardinality(Services)}

\* Fault: the counters need not be unique.
AnyCounters(response) ==
  \A k \in 2 .. Len(response) : response[k].service >= response[k - 1].service

ValidateCounters(response) ==
  \A k \in 2 .. Len(response) : response[k].service > response[k - 1].service

\* A new epoch, or fewer bytes in the same one, is a counter that has started
\* again.
Traffic(last, sample) ==
  IF sample.epoch # last.epoch \/ sample.bytes < last.bytes
  THEN sample.bytes ELSE sample.bytes - last.bytes

\* One sample after the other, in the order of the response.
Account(account, sample) ==
  [samples |-> [account.samples EXCEPT ![sample.service] =
                 [epoch |-> sample.epoch, bytes |-> sample.bytes]],
   bytes |-> account.bytes + Traffic(account.samples[sample.service], sample)]

Accounting(response) ==
  LET after[k \in 0 .. Len(response)] ==
        IF k = 0 THEN [samples |-> samples, bytes |-> 0]
        ELSE Account(after[k - 1], response[k])
  IN  after[Len(response)]

\* Samples and ledger are written in one transaction; the same samples again
\* are no traffic.
Collect(response) ==
  /\ ValidateCounters(response)
  /\ LET account == Accounting(response)
     IN /\ samples' = account.samples
        /\ IF account.bytes = 0 THEN UNCHANGED <<revision, ledger, unsent>>
           ELSE /\ revision' = revision + 1
                /\ ledger' = [ledger EXCEPT ![period] =
                     [revision |-> revision', bytes |-> @.bytes + account.bytes]]
                /\ unsent' = <<[period |-> period, revision |-> revision',
                                 bytes |-> ledger'[period].bytes]>>
  /\ UNCHANGED <<source, period, events, cursor, center>>

\* The period is over: what is sampled from now on counts for the next one.
Roll ==
  /\ period + 1 \in Periods
  /\ period' = period + 1
  /\ UNCHANGED <<source, samples, revision, ledger, unsent, events, cursor,
                 center>>

-----------------------------------------------------------------------------
(* The snapshots and the center                                            *)

ValidateTrafficSnapshotEvent(value) ==
  value.period \in Periods /\ value.revision > 0

\* The queue brings every snapshot to the center, once and in order
\* (EventDelivery).
Queue ==
  /\ unsent # <<>> /\ Len(events) < MaxSnapshots
  /\ ValidateTrafficSnapshotEvent(Head(unsent))
  /\ events' = events \o unsent
  /\ unsent' = <<>>
  /\ UNCHANGED <<source, samples, period, revision, ledger, cursor, center>>

\* The snapshot is lost, the ledger is not.
AgentCrashes ==
  /\ unsent' = <<>>
  /\ UNCHANGED <<source, samples, period, revision, ledger, events, cursor,
                 center>>

\* Fault: deliveries are summed.
SumOf(known, value) ==
  [revision |-> value.revision, bytes |-> known.bytes + value.bytes]

\* An older revision is replaced.
Newer(known, value) ==
  IF value.revision > known.revision
  THEN [revision |-> value.revision, bytes |-> value.bytes] ELSE known

Consume ==
  /\ cursor < Len(events)
  /\ ValidateTrafficSnapshotEvent(events[cursor + 1])
  /\ LET value == events[cursor + 1]
     IN center' = [center EXCEPT ![value.period] = Newer(@, value)]
  /\ cursor' = cursor + 1
  /\ UNCHANGED <<source, accounts, events>>

\* The consumer starts again from an earlier cursor.
ConsumerRestarts ==
  /\ cursor' \in 0 .. cursor
  /\ UNCHANGED <<source, accounts, events, center>>

LedgerNext ==
  \/ \E s \in Services : Flow(s)
  \/ CountersRestart
  \/ \E response \in Responses : Collect(response)
  \/ Roll \/ Queue \/ AgentCrashes \/ Consume \/ ConsumerRestarts

LedgerSpec == LedgerInit /\ [][LedgerNext]_accounting

-----------------------------------------------------------------------------
(* Properties                                                              *)

LedgerTypeOK ==
  /\ used \in 0 .. MaxTraffic /\ restarts \in 0 .. MaxRestarts
  /\ {counters, samples} \subseteq
       [Services -> [epoch : 1 .. 1 + MaxRestarts, bytes : 0 .. MaxTraffic]]
  /\ period \in Periods /\ revision \in 0 .. MaxTraffic
  /\ {ledger, center} \subseteq
       [Periods -> [revision : 0 .. revision, bytes : 0 .. MaxTraffic]]
  /\ Len(events) <= MaxSnapshots /\ cursor \in 0 .. Len(events)

Accounted == Total([p \in Periods |-> ledger[p].bytes], LastPeriod)

\* What counters have that samples of them do not, counters that have not
\* started again since.
Unsampled == [s \in Services |-> counters[s].bytes - samples[s].bytes]

\* No unit of traffic is accounted twice, whatever a plugin answers and
\* however it restarts: a service is in a response once
\* (nodeplugin/v1/validate.go:192-202).
NothingCountedTwice == Accounted <= used

\* Only a restart of the plugin loses traffic: without one the ledger and what
\* is not sampled yet are all there was, even at a period's end.
OnlyRestartsLose ==
  restarts = 0 => used = Accounted + Total(Unsampled, LastService)

\* The ledger is the traffic, short only of what a restart has taken.
LedgerIsTraffic == NothingCountedTwice /\ OnlyRestartsLose

\* The center never knows more of a period than the Agent's ledger has, and
\* with the last revision it knows that ledger, through lost snapshots and
\* events read again (agent/v1/telemetry.go:27-33).
CenterKnowsLedger ==
  \A p \in Periods :
    /\ center[p].bytes <= ledger[p].bytes
    /\ center[p].revision = ledger[p].revision => center[p] = ledger[p]

=============================================================================
