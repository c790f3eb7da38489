---------------------------- MODULE PolicyPath ----------------------------
(***************************************************************************)
(* A node's authorization policies: sorted and put into a policy.reconcile *)
(* command by the center, decoded and put in force by the Agent, and then  *)
(* the subject of what the node plugins count, of what the Agent reports   *)
(* and of the addresses it has them block.  Each of these has a limit of   *)
(* its own on how many there may be.                                       *)
(***************************************************************************)
EXTENDS Naturals, Sequences, FiniteSets, Totals, Documents

CONSTANTS
  PolicyCounts,   \* numbers of policies in a snapshot, which are all alike
  Bindings,       \* sequences of the services a policy is bound to
  TrafficAmounts, \* what an authorization has used, in units of 2^62 bytes
  AddressCounts   \* numbers of addresses blocked for a policy at each service

\* An ID is its characters, none of which is 0 (pluginIDPattern,
\* componentIDPattern).
IDs == Seq(Nat \ {0})
ServiceBinding == [plugin : IDs, service : IDs]

Snapshots ==
  [path : {"policies"}, policies : PolicyCounts, bindings : Bindings,
   traffic : TrafficAmounts, addresses : AddressCounts]

ASSUME SnapshotAssumption ==
  /\ PolicyCounts \cup AddressCounts \subseteq Nat
  /\ TrafficAmounts \subseteq 0 .. 3  \* a uint64
  /\ Bindings \subseteq Seq(ServiceBinding)

MaximumPoliciesPerSnapshot == 4096
MaximumBindingsPerPolicy   == 256
MaximumTrafficCounters     == 4096
MaximumDynamicBlocks       == 16384

\* s < t, the way Go compares strings.
Before(s, t) ==
  \E i \in 1 .. Len(t) :
    /\ i <= Len(s) + 1
    /\ \A j \in 1 .. i - 1 : s[j] = t[j]
    /\ i <= Len(s) => s[i] < t[i]

BindingBefore(first, second) ==
  \/ Before(first.plugin, second.plugin)
  \/ first.plugin = second.plugin /\ Before(first.service, second.service)

\* The ways to put n things in an order, by their numbers.
Orders(n) == {p \in [1 .. n -> 1 .. n] : \A i, j \in 1 .. n : p[i] = p[j] => i = j}

\* sort.Slice leaves nothing behind what it should come before.
SortPolicies(bindings) ==
  LET n == Len(bindings)
      order == CHOOSE p \in Orders(n) : \A i, j \in 1 .. n :
                 i < j => ~BindingBefore(bindings[p[j]], bindings[p[i]])
  IN  [i \in 1 .. n |-> bindings[order[i]]]

\* Fault: the parts of a key are put together as the parts of an ID are.
Dotted(binding) == binding.plugin \o <<46>> \o binding.service

Key(binding) == binding.plugin \o <<0>> \o binding.service

\* The IDs of a snapshot's policies are sorted and unique: they are the keys of
\* the center's table.
ValidateAuthorizationPolicy(bindings) ==
  /\ Len(bindings) <= MaximumBindingsPerPolicy
  /\ \A i \in 2 .. Len(bindings) : Before(Key(bindings[i - 1]), Key(bindings[i]))

ValidatePolicyReconcileCommand(snapshot) ==
  /\ snapshot.policies <= MaximumPoliciesPerSnapshot
  /\ ValidateAuthorizationPolicy(snapshot.bindings)

\* Bytes of JSON: of a binding, and of a policy with nothing optional in it.
BindingBytes(bindings, i) == 33 + Len(bindings[i].plugin) + Len(bindings[i].service)
PolicyBytes(bindings) ==
  318 + Total([i \in 1 .. Len(bindings) |-> BindingBytes(bindings, i)], Len(bindings))

FitsCommand(snapshot) ==
  36 + snapshot.policies * PolicyBytes(snapshot.bindings) <= MaximumCommandPayloadBytes

\* At most this many of a policy's services are one plugin's.
ServicesOfOne(bindings) ==
  LET of(i) == {j \in DOMAIN bindings : bindings[j].plugin = bindings[i].plugin}
  IN  {Cardinality(of(i)) : i \in DOMAIN bindings}

PoliciesHop(from, to, ok, made) == Hop("policies", from, to, ok, made)

Sort ==
  PoliciesHop("written", "sorted", TRUE,
    [document EXCEPT !.bindings = SortPolicies(document.bindings)])

NewPolicyReconcileCommand ==
  PoliciesHop("sorted", "commanded",
    ValidatePolicyReconcileCommand(document) /\ FitsCommand(document), document)

DecodePolicyReconcileCommand ==
  PoliciesHop("commanded", "decoded",
    FitsCommand(document) /\ ValidatePolicyReconcileCommand(document), document)

\* The Agent's answer says how many policies there are.
PolicyReconcileOutput ==
  PoliciesHop("decoded", "inforce",
    document.policies <= MaximumPoliciesPerSnapshot, document)

\* Each node plugin has a counter for each policy at each of its services.
CollectTelemetry ==
  PoliciesHop("inforce", "counted",
    \A n \in ServicesOfOne(document.bindings) :
      document.policies * n <= MaximumTrafficCounters, document)

FitsInt64(amount) == amount < 2

TrafficSnapshotEvent ==
  PoliciesHop("counted", "accounted", FitsInt64(document.traffic), document)
PolicyStatusEvent ==
  PoliciesHop("counted", "stated", FitsInt64(document.traffic), document)

ReplaceDynamicBlocksRequest ==
  PoliciesHop("counted", "blocked",
    \A n \in ServicesOfOne(document.bindings) :
      document.policies * n * document.addresses <= MaximumDynamicBlocks, document)

PoliciesNext ==
  \/ Sort \/ NewPolicyReconcileCommand \/ DecodePolicyReconcileCommand
  \/ PolicyReconcileOutput \/ CollectTelemetry
  \/ TrafficSnapshotEvent \/ PolicyStatusEvent \/ ReplaceDynamicBlocksRequest

PoliciesSpec == Written(Snapshots) /\ [][PoliciesNext]_paper

-----------------------------------------------------------------------------
Duplicates(bindings) ==
  \E i, j \in DOMAIN bindings : i # j /\ bindings[i] = bindings[j]

\* Sorted by the center, policies are refused there only for a binding that is
\* in them twice or for being too many or too long, and never by the Agent: the
\* order SortPolicies makes is the order the keys are compared in.  Once they
\* are in force, only the number of counters, of blocks and of bytes used is
\* too large for a report.
SortedPoliciesApply ==
  document.path = "policies" /\ refused =>
    \/ /\ stage = "commanded"
       /\ \/ Duplicates(written.bindings)
          \/ Len(written.bindings) > MaximumBindingsPerPolicy
          \/ 36 + written.policies * PolicyBytes(written.bindings)
               > MaximumCommandPayloadBytes
    \/ stage = "counted" /\ written.policies * Len(written.bindings) > MaximumTrafficCounters
    \/ stage \in {"accounted", "stated"} /\ ~FitsInt64(written.traffic)
    \/ /\ stage = "blocked"
       /\ written.policies * Len(written.bindings) * written.addresses > MaximumDynamicBlocks

=============================================================================
