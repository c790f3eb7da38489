---------------------------- MODULE Enforcement ----------------------------
(***************************************************************************)
(* Local enforcement of one authorization and service: the Agent decides   *)
(* from the policy, the clock and the traffic whether the service is on,   *)
(* and from the addresses it sees which are blocked, and puts both into    *)
(* force at a node plugin with SetServiceState and ReplaceDynamicBlocks.   *)
(* Calls are given up on and run late, both processes restart, and the     *)
(* plugin may fail to do what it is told.                                  *)
(*                                                                         *)
(* This repository has the checks of both ends of the two calls and of the *)
(* status the Agent reports (nodeplugin/v1/validate.go, agent/v1/          *)
(* policies.go); when they are made is told by docs/node-plugin-v1.md and  *)
(* docs/authorization-policy-v1.md.  A plugin orders requests by revision  *)
(* and answers with what it has applied; the fixture's plugin, which keeps *)
(* nothing, answers with the request.                                      *)
(***************************************************************************)
EXTENDS Naturals, FiniteSets

CONSTANTS
  BlockSets,      \* sets of source addresses that may come to be blocked
  MaxGeneration,  \* generations of the policy
  MaxRevision     \* revisions of either state

ASSUME BoundsAssumption == {MaxGeneration, MaxRevision} \subseteq Nat \ {0}

VARIABLES
  policy,    \* the snapshot's generation and whether it enables the service
  want,      \* the last request of each kind, on disk; revision 0 is none
  confirmed, \* the kinds whose last request the plugin has confirmed
  calls,     \* requests that the plugin may still run
  answers,   \* answers to the Agent's last requests: kind and echo
  service,   \* the service state in force at the plugin
  blocks     \* the blocks in force at the plugin

agent  == <<policy, want, confirmed>>
plugin == <<service, blocks>>
vars   == <<agent, calls, answers, plugin>>

None == [revision |-> 0]

Init ==
  /\ policy = [generation |-> 1, enabled |-> TRUE]
  /\ want = [service |-> None, blocks |-> None] /\ confirmed = {}
  /\ calls = {} /\ answers = {}
  /\ service = None /\ blocks = None

-----------------------------------------------------------------------------
(* The decisions                                                           *)

\* policy.reconcile: a newer generation.
Reconcile ==
  /\ policy.generation < MaxGeneration
  /\ \E enabled \in BOOLEAN :
       policy' = [generation |-> policy.generation + 1, enabled |-> enabled]
  /\ UNCHANGED <<want, confirmed, calls, answers, plugin>>

\* The policy, its expiry and its traffic limit in this period, in that order.
Reason(expired, exceeded) ==
  IF ~policy.enabled THEN "administrator_disabled"
  ELSE IF expired THEN "expired"
  ELSE IF exceeded THEN "quota_exceeded" ELSE "active"

\* The Agent looks at its clock and its ledger, and at the addresses it sees;
\* a decision that differs from the last request gets the next revision.
Decide(kind, request) ==
  /\ want[kind].revision < MaxRevision
  /\ want[kind] # [request EXCEPT !.revision = want[kind].revision]
  /\ want' = [want EXCEPT ![kind] = request]
  /\ confirmed' = confirmed \ {kind}
  /\ answers' = {answer \in answers : answer.kind # kind}
  /\ UNCHANGED <<policy, calls, plugin>>

DecideService(reason) ==
  Decide("service", [generation |-> policy.generation,
                     revision |-> want.service.revision + 1,
                     enabled |-> reason = "active", reason |-> reason])

DecideBlocks(offenders) ==
  Decide("blocks", [generation |-> policy.generation,
                    revision |-> want.blocks.revision + 1,
                    blocks |-> offenders])

-----------------------------------------------------------------------------
(* The calls                                                               *)

ValidateSetServiceStateRequest(value) ==
  /\ value.revision > 0 /\ value.generation > 0
  /\ value.enabled <=> value.reason = "active"

\* Fault: the answer need only be a valid state.
AnyState(request, value) ==
  value # None /\ ValidateSetServiceStateRequest(value)

\* The answer echoes the whole request.
ValidateSetServiceStateResponse(request, value) ==
  /\ ValidateSetServiceStateRequest(request)
  /\ value = request

\* What a ReplaceDynamicBlocks answer says of the blocks in force.
Echo(value) ==
  IF value = None THEN None
  ELSE [generation |-> value.generation, revision |-> value.revision,
        count |-> Cardinality(value.blocks)]

\* Fault: the count of the blocks is all that is compared.
SameCount(request, value) ==
  value # None /\ value.count = Cardinality(request.blocks)

\* The answer has the request's generation, revision and count of blocks.
ValidateReplaceDynamicBlocksResponse(request, value) ==
  value = Echo(request)

\* A request that is not confirmed is sent, again and again.
Send(kind) ==
  /\ want[kind] # None /\ kind \notin confirmed
  /\ calls' = calls \cup {[kind |-> kind, request |-> want[kind]]}
  /\ UNCHANGED <<agent, answers, plugin>>

\* The plugin runs a call, which may be one that was given up on: it applies
\* what is not older than what is in force, or fails to, and answers with what
\* is in force then; the Agent hears the answer to its last request only.
Answer(kind, request, echo) ==
  answers' = answers \cup
    {answer \in {[kind |-> kind, echo |-> echo]} :
       request = want[kind] /\ kind \notin confirmed}

SetServiceState(request) ==
  /\ ValidateSetServiceStateRequest(request)
  /\ service' \in {service} \cup
       {r \in {request} : r.revision >= service.revision}
  /\ Answer("service", request, service')
  /\ calls' = calls \ {[kind |-> "service", request |-> request]}
  /\ UNCHANGED <<agent, blocks>>

ReplaceDynamicBlocks(request) ==
  /\ blocks' \in {blocks} \cup {r \in {request} : r.revision >= blocks.revision}
  /\ Answer("blocks", request, Echo(blocks'))
  /\ calls' = calls \ {[kind |-> "blocks", request |-> request]}
  /\ UNCHANGED <<agent, service>>

\* The Agent takes an answer to the request it waits for.
Confirm(answer) ==
  /\ IF answer.kind = "service"
     THEN ValidateSetServiceStateResponse(want.service, answer.echo)
     ELSE ValidateReplaceDynamicBlocksResponse(want.blocks, answer.echo)
  /\ confirmed' = confirmed \cup {answer.kind}
  /\ answers' = {other \in answers : other.kind # answer.kind}
  /\ UNCHANGED <<policy, want, calls, plugin>>

\* What the plugin has in force, and every call to it, is gone; the Agent sees
\* the process end and puts everything into force again.
PluginRestarts ==
  /\ service' = None /\ blocks' = None
  /\ calls' = {} /\ answers' = {} /\ confirmed' = {}
  /\ UNCHANGED <<policy, want>>

\* The Agent forgets its calls, which the plugin may still run.
AgentRestarts ==
  /\ answers' = {} /\ confirmed' = {}
  /\ UNCHANGED <<policy, want, calls, plugin>>

Next ==
  \/ Reconcile
  \/ \E expired, exceeded \in BOOLEAN : DecideService(Reason(expired, exceeded))
  \/ \E offenders \in BlockSets : DecideBlocks(offenders)
  \/ \E kind \in {"service", "blocks"} : Send(kind)
  \/ \E call \in calls :
       \/ call.kind = "service" /\ SetServiceState(call.request)
       \/ call.kind = "blocks" /\ ReplaceDynamicBlocks(call.request)
  \/ \E answer \in answers : Confirm(answer)
  \/ PluginRestarts \/ AgentRestarts

\* The processes run and the plugin does at last what it is asked again and
\* again: the Agent retries, and a restart puts everything into force again.
Applies(call) ==
  \/ /\ call.kind = "service" /\ SetServiceState(call.request)
     /\ service' = call.request
  \/ /\ call.kind = "blocks" /\ ReplaceDynamicBlocks(call.request)
     /\ blocks' = call.request

Fairness ==
  \A kind \in {"service", "blocks"} :
    /\ WF_vars(Send(kind))
    /\ SF_vars(\E call \in calls :
                 call = [kind |-> kind, request |-> want[kind]] /\ Applies(call))

Spec     == Init /\ [][Next]_vars
LiveSpec == Spec /\ Fairness

-----------------------------------------------------------------------------
(* Properties                                                              *)

\* What the plugin has confirmed of the service is in force, whatever older
\* calls still run, and until the plugin restarts: ValidateSetServiceState-
\* Response takes only the echo of the whole request
\* (nodeplugin/v1/validate.go:247-259).
ConfirmedServiceInForce ==
  "service" \in confirmed => service = want.service

\* The same of the blocks, though a ReplaceDynamicBlocks answer has no more of
\* them than their count: generation and revision have to tell two sets of one
\* size apart (nodeplugin/v1/validate.go:301-312).
ConfirmedBlocksInForce ==
  "blocks" \in confirmed => blocks = want.blocks

\* What the Agent takes for confirmed is in force.
ConfirmedInForce == ConfirmedServiceInForce /\ ConfirmedBlocksInForce

\* The last decision comes into force again and again, however often calls are
\* given up on, fail and run late, and the processes restart: an answer that
\* does not echo the request leaves the Agent trying
\* (nodeplugin/v1/validate.go:247-259, 301-312).
DecisionsInForce ==
  /\ []<>(service = want.service)
  /\ []<>(blocks = want.blocks)
=============================================================================
