-------------------------- MODULE EnforcementProofs --------------------------
(***************************************************************************)
(* What is confirmed is in force, for any sets of blocks and any number of *)
(* generations and revisions.  The property is not inductive by itself: an *)
(* answer is taken long after it was given, and calls that were given up   *)
(* on run in between.  What makes it so is that a revision stands for one  *)
(* request, in every call and at the plugin, so that nothing newer than    *)
(* the last request can replace it there.                                  *)
(*                                                                         *)
(* Below it, of what is enforced: the ledger of the traffic, and the path  *)
(* of the policies themselves.                                             *)
(***************************************************************************)
EXTENDS Enforcement, TrafficLedger, PolicyPath, WellFoundedInduction, FiniteSetTheorems,
        SequenceTheorems, TLAPS

Kinds == {"service", "blocks"}

Reasons == {"administrator_disabled", "expired", "quota_exceeded", "active"}

ServiceRequests ==
  [generation : Nat \ {0}, revision : Nat \ {0}, enabled : BOOLEAN, reason : Reasons]

BlocksRequests ==
  [generation : Nat \ {0}, revision : Nat \ {0}, blocks : BlockSets]

PolicyOK ==
  /\ policy.generation \in Nat \ {0}
  /\ policy.enabled \in BOOLEAN

WantOK ==
  /\ DOMAIN want = Kinds
  /\ want = [kind \in Kinds |-> want[kind]]
  /\ want["service"] \in ServiceRequests \cup {None}
  /\ want["blocks"] \in BlocksRequests \cup {None}

CallOK(call) ==
  \/ call.kind = "service" /\ call.request \in ServiceRequests
  \/ call.kind = "blocks" /\ call.request \in BlocksRequests

TypeOK ==
  /\ PolicyOK /\ WantOK
  /\ confirmed \subseteq Kinds
  /\ \A call \in calls : CallOK(call)
  /\ \A answer \in answers : answer.kind \in Kinds
  /\ service \in ServiceRequests \cup {None}
  /\ blocks \in BlocksRequests \cup {None}

\* A request that is not newer than `last`, and is `last` if it is as new.
NotAfter(request, last) ==
  /\ request.revision <= last.revision
  /\ request.revision = last.revision => request = last

\* No call is newer than the Agent's last request of its kind.
CallsNotAfter == \A call \in calls : NotAfter(call.request, want[call.kind])

\* Nor is what the plugin has in force.
ForceNotAfter == NotAfter(service, want["service"]) /\ NotAfter(blocks, want["blocks"])

\* An answer that will be taken tells of what is still in force.
AnswersInForce ==
  \A answer \in answers :
    /\ answer.kind = "service" /\ answer.echo = want["service"] => service = want["service"]
    /\ answer.kind = "blocks" /\ answer.echo = Echo(want["blocks"]) => blocks = want["blocks"]

IInv ==
  /\ TypeOK /\ CallsNotAfter /\ ForceNotAfter /\ AnswersInForce
  /\ ConfirmedInForce

-----------------------------------------------------------------------------
\* Two requests of blocks with one echo have one revision.
LEMMA EchoRevision ==
  ASSUME NEW a \in BlocksRequests \cup {None}, NEW b \in BlocksRequests \cup {None},
         Echo(a) = Echo(b)
  PROVE  a.revision = b.revision
<1>1. ASSUME NEW c \in BlocksRequests \cup {None}
      PROVE  Echo(c).revision = c.revision
  <2>1. CASE c = None
    BY <2>1 DEF Echo, None
  <2>2. CASE c # None
    BY <2>2 DEF Echo
  <2>3. QED
    BY <2>1, <2>2
<1>2. QED
  BY <1>1

\* At first nothing is wanted, confirmed or in force.
LEMMA InitIInv == Init => IInv
<1> SUFFICES ASSUME Init PROVE IInv
  OBVIOUS
<1>1. want["service"] = None /\ want["blocks"] = None /\ DOMAIN want = Kinds
  BY DEF Init, Kinds
<1>2. TypeOK
  <2>1. WantOK
    BY <1>1 DEF Init, WantOK, Kinds
  <2>2. QED
    BY <2>1 DEF Init, TypeOK, PolicyOK
<1>3. CallsNotAfter /\ ForceNotAfter /\ AnswersInForce
  BY <1>1 DEF Init, CallsNotAfter, ForceNotAfter, NotAfter, AnswersInForce, None
<1>4. ConfirmedInForce
  BY DEF Init, ConfirmedInForce, ConfirmedServiceInForce, ConfirmedBlocksInForce
<1>5. QED
  BY <1>2, <1>3, <1>4 DEF IInv

\* A newer generation of the policy changes no request that is made.
LEMMA ReconcileStep == IInv /\ Reconcile => IInv'
<1> SUFFICES ASSUME IInv, Reconcile PROVE IInv'
  OBVIOUS
<1>1. PolicyOK'
  BY DEF IInv, TypeOK, PolicyOK, Reconcile
<1>2. UNCHANGED <<want, confirmed, calls, answers, service, blocks>>
  BY DEF Reconcile, plugin
<1>3. QED
  BY <1>1, <1>2 DEF IInv, TypeOK, WantOK, CallsNotAfter, ForceNotAfter, AnswersInForce,
     ConfirmedInForce, ConfirmedServiceInForce, ConfirmedBlocksInForce

\* A decision is newer than every call and than what is in force, and ends what
\* was confirmed or answered of its kind.
LEMMA DecideServiceStep ==
  ASSUME IInv, NEW reason \in Reasons, DecideService(reason)
  PROVE  IInv'
<1> DEFINE r == [generation |-> policy.generation,
                 revision |-> want["service"].revision + 1,
                 enabled |-> reason = "active", reason |-> reason]
<1>1. want["service"].revision \in Nat
  BY DEF IInv, TypeOK, WantOK, ServiceRequests, None
<1>2. /\ r \in ServiceRequests
      /\ r.revision = want["service"].revision + 1
  <2>1. (reason = "active") \in BOOLEAN
    OBVIOUS
  <2>2. QED
    BY <1>1, <2>1 DEF IInv, TypeOK, PolicyOK, ServiceRequests
<1>3. /\ want' = [want EXCEPT !["service"] = r]
      /\ confirmed' = confirmed \ {"service"}
      /\ answers' = {answer \in answers : answer.kind # "service"}
      /\ UNCHANGED <<policy, calls, service, blocks>>
  BY DEF DecideService, Decide, plugin
<1> HIDE DEF r
<1>4. want'["service"] = r /\ want'["blocks"] = want["blocks"] /\ DOMAIN want' = Kinds
  BY <1>3 DEF IInv, TypeOK, WantOK, Kinds
<1>5. TypeOK'
  <2>1. WantOK'
    BY <1>2, <1>3, <1>4 DEF IInv, TypeOK, WantOK, Kinds
  <2>2. QED
    BY <1>3, <2>1 DEF IInv, TypeOK, PolicyOK
<1>6. CallsNotAfter'
  <2> SUFFICES ASSUME NEW call \in calls
               PROVE  NotAfter(call.request, want'[call.kind])
    BY <1>3 DEF CallsNotAfter, NotAfter
  <2>1. CallOK(call) /\ NotAfter(call.request, want[call.kind])
    BY DEF IInv, TypeOK, CallsNotAfter
  <2>2. CASE call.kind = "service"
    BY <1>1, <1>2, <1>4, <2>1, <2>2 DEF CallOK, NotAfter, ServiceRequests
  <2>3. CASE call.kind = "blocks"
    BY <1>4, <2>1, <2>3
  <2>4. QED
    BY <2>1, <2>2, <2>3 DEF CallOK
<1>7. ForceNotAfter'
  <2>1. service.revision \in Nat /\ service.revision <= want["service"].revision
    BY DEF IInv, TypeOK, ForceNotAfter, NotAfter, ServiceRequests, None
  <2>2. QED
    BY <1>1, <1>2, <1>3, <1>4, <2>1 DEF IInv, ForceNotAfter, NotAfter
<1>8. AnswersInForce' /\ ConfirmedInForce'
  BY <1>3, <1>4 DEF IInv, TypeOK, Kinds, AnswersInForce, ConfirmedInForce,
     ConfirmedServiceInForce, ConfirmedBlocksInForce
<1>9. QED
  BY <1>5, <1>6, <1>7, <1>8 DEF IInv

LEMMA DecideBlocksStep ==
  ASSUME IInv, NEW offenders \in BlockSets, DecideBlocks(offenders)
  PROVE  IInv'
<1> DEFINE r == [generation |-> policy.generation,
                 revision |-> want["blocks"].revision + 1,
                 blocks |-> offenders]
<1>1. want["blocks"].revision \in Nat
  BY DEF IInv, TypeOK, WantOK, BlocksRequests, None
<1>2. /\ r \in BlocksRequests
      /\ r.revision = want["blocks"].revision + 1
  BY <1>1 DEF IInv, TypeOK, PolicyOK, BlocksRequests
<1>3. /\ want' = [want EXCEPT !["blocks"] = r]
      /\ confirmed' = confirmed \ {"blocks"}
      /\ answers' = {answer \in answers : answer.kind # "blocks"}
      /\ UNCHANGED <<policy, calls, service, blocks>>
  BY DEF DecideBlocks, Decide, plugin
<1> HIDE DEF r
<1>4. want'["blocks"] = r /\ want'["service"] = want["service"] /\ DOMAIN want' = Kinds
  BY <1>3 DEF IInv, TypeOK, WantOK, Kinds
<1>5. TypeOK'
  <2>1. WantOK'
    BY <1>2, <1>3, <1>4 DEF IInv, TypeOK, WantOK, Kinds
  <2>2. QED
    BY <1>3, <2>1 DEF IInv, TypeOK, PolicyOK
<1>6. CallsNotAfter'
  <2> SUFFICES ASSUME NEW call \in calls
               PROVE  NotAfter(call.request, want'[call.kind])
    BY <1>3 DEF CallsNotAfter, NotAfter
  <2>1. CallOK(call) /\ NotAfter(call.request, want[call.kind])
    BY DEF IInv, TypeOK, CallsNotAfter
  <2>2. CASE call.kind = "blocks"
    BY <1>1, <1>2, <1>4, <2>1, <2>2 DEF CallOK, NotAfter, BlocksRequests
  <2>3. CASE call.kind = "service"
    BY <1>4, <2>1, <2>3
  <2>4. QED
    BY <2>1, <2>2, <2>3 DEF CallOK
<1>7. ForceNotAfter'
  <2>1. blocks.revision \in Nat /\ blocks.revision <= want["blocks"].revision
    BY DEF IInv, TypeOK, ForceNotAfter, NotAfter, BlocksRequests, None
  <2>2. QED
    BY <1>1, <1>2, <1>3, <1>4, <2>1 DEF IInv, ForceNotAfter, NotAfter
<1>8. AnswersInForce' /\ ConfirmedInForce'
  BY <1>3, <1>4 DEF IInv, TypeOK, Kinds, AnswersInForce, ConfirmedInForce,
     ConfirmedServiceInForce, ConfirmedBlocksInForce
<1>9. QED
  BY <1>5, <1>6, <1>7, <1>8 DEF IInv

\* What is sent is the last request.
LEMMA SendStep == ASSUME IInv, NEW kind \in Kinds, Send(kind) PROVE IInv'
<1>1. /\ want[kind] # None
      /\ calls' = calls \cup {[kind |-> kind, request |-> want[kind]]}
      /\ UNCHANGED <<policy, want, confirmed, answers, service, blocks>>
  BY DEF Send, agent, plugin
<1> DEFINE c == [kind |-> kind, request |-> want[kind]]
<1>2. CallOK(c) /\ NotAfter(c.request, want[c.kind])
  <2>1. c.kind = kind /\ c.request = want[kind]
    OBVIOUS
  <2>2. want[kind].revision \in Nat
    BY DEF IInv, TypeOK, WantOK, Kinds, ServiceRequests, BlocksRequests, None
  <2>3. QED
    BY <1>1, <2>1, <2>2 DEF IInv, TypeOK, WantOK, Kinds, CallOK, NotAfter
<1> HIDE DEF c
<1>3. calls' = calls \cup {c}
  BY <1>1 DEF c
<1>4. TypeOK'
  BY <1>1, <1>2, <1>3 DEF IInv, TypeOK, PolicyOK, WantOK, CallOK
<1>5. CallsNotAfter'
  BY <1>1, <1>2, <1>3 DEF IInv, CallsNotAfter, NotAfter
<1>6. ForceNotAfter' /\ AnswersInForce' /\ ConfirmedInForce'
  BY <1>1 DEF IInv, ForceNotAfter, NotAfter, AnswersInForce, ConfirmedInForce,
     ConfirmedServiceInForce, ConfirmedBlocksInForce
<1>7. QED
  BY <1>4, <1>5, <1>6 DEF IInv

\* The plugin runs a call: what replaces the last request can only be that
\* request, and an answer to it that echoes it was given when it was in force.
LEMMA SetServiceStateStep ==
  ASSUME IInv, NEW call \in calls, call.kind = "service", SetServiceState(call.request)
  PROVE  IInv'
<1> DEFINE q == call.request
<1>1. /\ q \in ServiceRequests /\ NotAfter(q, want["service"])
      /\ service' = service \/ (service' = q /\ q.revision >= service.revision)
      /\ calls' \subseteq calls
      /\ UNCHANGED <<policy, want, confirmed, blocks>>
  <2>1. q \in ServiceRequests /\ NotAfter(q, want["service"])
    BY DEF IInv, TypeOK, CallOK, CallsNotAfter
  <2>2. service' = service \/ (service' = q /\ q.revision >= service.revision)
    BY DEF SetServiceState
  <2>3. calls' \subseteq calls /\ UNCHANGED <<policy, want, confirmed, blocks>>
    BY DEF SetServiceState, agent
  <2>4. QED
    BY <2>1, <2>2, <2>3
<1>2. \A answer \in answers' :
        \/ answer \in answers
        \/ answer.kind = "service" /\ answer.echo = service'
  BY DEF SetServiceState, Answer
<1> HIDE DEF q
<1>3. /\ service' \in ServiceRequests \cup {None}
      /\ NotAfter(service', want["service"])
  BY <1>1 DEF IInv, TypeOK, ForceNotAfter
<1>4. TypeOK'
  BY <1>1, <1>2, <1>3 DEF IInv, TypeOK, PolicyOK, WantOK, CallOK, Kinds
<1>5. CallsNotAfter' /\ ForceNotAfter'
  BY <1>1, <1>3 DEF IInv, CallsNotAfter, ForceNotAfter, NotAfter
<1>6. service = want["service"] => service' = want["service"]
  BY <1>1 DEF NotAfter, IInv, TypeOK, WantOK, ServiceRequests, None
<1>7. AnswersInForce'
  BY <1>1, <1>2, <1>6 DEF IInv, AnswersInForce
<1>8. ConfirmedInForce'
  BY <1>1, <1>6 DEF IInv, ConfirmedInForce, ConfirmedServiceInForce,
     ConfirmedBlocksInForce
<1>9. QED
  BY <1>4, <1>5, <1>7, <1>8 DEF IInv

\* The same of the blocks, whose answer has their revision.
LEMMA ReplaceDynamicBlocksStep ==
  ASSUME IInv, NEW call \in calls, call.kind = "blocks", ReplaceDynamicBlocks(call.request)
  PROVE  IInv'
<1> DEFINE q == call.request
<1>1. /\ q \in BlocksRequests /\ NotAfter(q, want["blocks"])
      /\ blocks' = blocks \/ (blocks' = q /\ q.revision >= blocks.revision)
      /\ calls' \subseteq calls
      /\ UNCHANGED <<policy, want, confirmed, service>>
  <2>1. q \in BlocksRequests /\ NotAfter(q, want["blocks"])
    BY DEF IInv, TypeOK, CallOK, CallsNotAfter
  <2>2. blocks' = blocks \/ (blocks' = q /\ q.revision >= blocks.revision)
    BY DEF ReplaceDynamicBlocks
  <2>3. calls' \subseteq calls /\ UNCHANGED <<policy, want, confirmed, service>>
    BY DEF ReplaceDynamicBlocks, agent
  <2>4. QED
    BY <2>1, <2>2, <2>3
<1>2. \A answer \in answers' :
        \/ answer \in answers
        \/ answer.kind = "blocks" /\ answer.echo = Echo(blocks')
  BY DEF ReplaceDynamicBlocks, Answer
<1> HIDE DEF q
<1>3. /\ blocks' \in BlocksRequests \cup {None}
      /\ NotAfter(blocks', want["blocks"])
  BY <1>1 DEF IInv, TypeOK, ForceNotAfter
<1>4. TypeOK'
  BY <1>1, <1>2, <1>3 DEF IInv, TypeOK, PolicyOK, WantOK, CallOK, Kinds
<1>5. CallsNotAfter' /\ ForceNotAfter'
  BY <1>1, <1>3 DEF IInv, CallsNotAfter, ForceNotAfter, NotAfter
<1>6. blocks = want["blocks"] => blocks' = want["blocks"]
  BY <1>1 DEF NotAfter, IInv, TypeOK, WantOK, BlocksRequests, None
<1>7. Echo(blocks') = Echo(want["blocks"]) => blocks' = want["blocks"]
  <2>1. want["blocks"] \in BlocksRequests \cup {None}
    BY DEF IInv, TypeOK, WantOK
  <2>2. QED
    BY <1>3, <2>1, EchoRevision DEF NotAfter
<1>8. AnswersInForce'
  BY <1>1, <1>2, <1>6, <1>7 DEF IInv, AnswersInForce
<1>9. ConfirmedInForce'
  BY <1>1, <1>6 DEF IInv, ConfirmedInForce, ConfirmedServiceInForce,
     ConfirmedBlocksInForce
<1>10. QED
  BY <1>4, <1>5, <1>8, <1>9 DEF IInv

\* What an answer confirms is in force.
LEMMA ConfirmStep == ASSUME IInv, NEW answer \in answers, Confirm(answer) PROVE IInv'
<1>1. /\ answer.kind \in Kinds
      /\ confirmed' = confirmed \cup {answer.kind} /\ answers' \subseteq answers
      /\ UNCHANGED <<policy, want, calls, service, blocks>>
  BY DEF IInv, TypeOK, Confirm, plugin
<1>2. TypeOK' /\ CallsNotAfter' /\ ForceNotAfter' /\ AnswersInForce'
  BY <1>1 DEF IInv, TypeOK, PolicyOK, WantOK, CallOK, CallsNotAfter, ForceNotAfter,
     NotAfter, AnswersInForce
<1>3. answer.kind = "service" => service = want["service"]
  BY DEF IInv, AnswersInForce, Confirm, ValidateSetServiceStateResponse
<1>4. answer.kind = "blocks" => blocks = want["blocks"]
  BY DEF IInv, AnswersInForce, Confirm, ValidateReplaceDynamicBlocksResponse
<1>5. ConfirmedInForce'
  BY <1>1, <1>3, <1>4 DEF IInv, ConfirmedInForce, ConfirmedServiceInForce,
     ConfirmedBlocksInForce
<1>6. QED
  BY <1>2, <1>5 DEF IInv

\* A restart of either process takes back every confirmation and every answer.
LEMMA RestartStep == IInv /\ (PluginRestarts \/ AgentRestarts) => IInv'
<1> SUFFICES ASSUME IInv, PluginRestarts \/ AgentRestarts PROVE IInv'
  OBVIOUS
<1>1. /\ answers' = {} /\ confirmed' = {} /\ calls' \subseteq calls
      /\ UNCHANGED <<policy, want>>
      /\ service' \in {service, None} /\ blocks' \in {blocks, None}
  BY DEF PluginRestarts, AgentRestarts, plugin
<1>2. TypeOK'
  BY <1>1 DEF IInv, TypeOK, PolicyOK, WantOK, CallOK
<1>3. CallsNotAfter' /\ AnswersInForce' /\ ConfirmedInForce'
  BY <1>1 DEF IInv, CallsNotAfter, NotAfter, AnswersInForce, ConfirmedInForce,
     ConfirmedServiceInForce, ConfirmedBlocksInForce
<1>4. NotAfter(None, want["service"]) /\ NotAfter(None, want["blocks"])
  BY DEF IInv, TypeOK, WantOK, NotAfter, None, ServiceRequests, BlocksRequests
<1>5. ForceNotAfter'
  BY <1>1, <1>4 DEF IInv, ForceNotAfter, NotAfter
<1>6. QED
  BY <1>2, <1>3, <1>5 DEF IInv

\* The invariant is inductive.
LEMMA NextIInv == IInv /\ [Next]_vars => IInv'
<1> SUFFICES ASSUME IInv, [Next]_vars PROVE IInv'
  OBVIOUS
<1>1. CASE Reconcile
  BY <1>1, ReconcileStep
<1>2. ASSUME NEW expired \in BOOLEAN, NEW exceeded \in BOOLEAN,
             DecideService(Reason(expired, exceeded))
      PROVE  IInv'
  <2>1. Reason(expired, exceeded) \in Reasons
    BY DEF Reason, Reasons
  <2>2. QED
    BY <1>2, <2>1, DecideServiceStep
<1>3. ASSUME NEW offenders \in BlockSets, DecideBlocks(offenders) PROVE IInv'
  BY <1>3, DecideBlocksStep
<1>4. ASSUME NEW kind \in Kinds, Send(kind) PROVE IInv'
  BY <1>4, SendStep
<1>5. ASSUME NEW call \in calls,
             \/ call.kind = "service" /\ SetServiceState(call.request)
             \/ call.kind = "blocks" /\ ReplaceDynamicBlocks(call.request)
      PROVE  IInv'
  BY <1>5, SetServiceStateStep, ReplaceDynamicBlocksStep
<1>6. ASSUME NEW answer \in answers, Confirm(answer) PROVE IInv'
  BY <1>6, ConfirmStep
<1>7. CASE PluginRestarts \/ AgentRestarts
  BY <1>7, RestartStep
<1>8. CASE UNCHANGED vars
  BY <1>8 DEF vars, agent, plugin, IInv, TypeOK, PolicyOK, WantOK, CallOK, CallsNotAfter,
     ForceNotAfter, NotAfter, AnswersInForce, ConfirmedInForce,
     ConfirmedServiceInForce, ConfirmedBlocksInForce
<1>9. QED
  BY <1>1, <1>2, <1>3, <1>4, <1>5, <1>6, <1>7, <1>8 DEF Next, Kinds

\* The inductive invariant holds throughout.
LEMMA Invariance == Spec => []IInv
BY InitIInv, NextIInv, PTL DEF Spec

\* Every reachable state is well typed.
THEOREM TypeCorrect == Spec => []TypeOK
<1>1. IInv => TypeOK
  BY DEF IInv
<1>2. QED
  BY <1>1, Invariance, PTL

\* What the Agent takes for confirmed is in force at the plugin, whichever calls
\* were given up on, fail or run late, and whichever process restarts.
THEOREM ConfirmationIsTrue == Spec => []ConfirmedInForce
<1>1. IInv => ConfirmedInForce
  BY DEF IInv
<1>2. QED
  BY <1>1, Invariance, PTL

\* Nothing in force is newer than the last decision, and what is as new is that
\* decision: a late call never puts another into force in its place.
THEOREM NothingNewerInForce == Spec => []ForceNotAfter
<1>1. IInv => ForceNotAfter
  BY DEF IInv
<1>2. QED
  BY <1>1, Invariance, PTL

-----------------------------------------------------------------------------
(***************************************************************************)
(* The traffic ledger.  Nothing is counted twice and the center knows no   *)
(* more than the ledger, for any numbers of services and periods.  The     *)
(* strengthening is what can still be counted: what the counters have that *)
(* their samples do not, or all of a counter that has started again.  A    *)
(* sample moves what it counts from there to the ledger and adds nothing.  *)
(*                                                                         *)
(* Sums, and the accounts of a response, are recursive functions; what     *)
(* they come to is shown along the sets of numbers it holds for.           *)
(***************************************************************************)
\* A set of natural numbers has a least one, and with 0 and every successor it
\* has them all.
LEMMA Least ==
  ASSUME NEW S \in SUBSET Nat, S # {}
  PROVE  \E x \in S : \A y \in S : x <= y
<1>1. IsWellFoundedOn(OpToRel(<, Nat), Nat)
  BY NatLessThanWellFounded
<1>2. PICK x \in S : \A y \in S : <<y, x>> \notin OpToRel(<, Nat)
  BY <1>1, WFMin
<1>3. \A y \in S : ~(y < x)
  BY <1>2 DEF OpToRel
<1>4. QED
  BY <1>3

LEMMA AllNumbers ==
  ASSUME NEW S \in SUBSET Nat, 0 \in S, \A n \in S : n + 1 \in S
  PROVE  S = Nat
<1>1. SUFFICES ASSUME Nat \ S # {} PROVE FALSE
  OBVIOUS
<1>2. PICK x \in Nat \ S : \A y \in Nat \ S : x <= y
  BY <1>1, Least
<1>3. x # 0 /\ x \in Nat /\ x \notin S
  BY <1>2
<1>4. x - 1 \in Nat /\ ~(x <= x - 1) /\ (x - 1) + 1 = x
  BY <1>3
<1>5. x - 1 \in S
  BY <1>2, <1>4
<1>6. QED
  BY <1>3, <1>4, <1>5

\* The partial sums of f, up to n.
Sums(f, n, g) == g = [i \in 0 .. n |-> IF i = 0 THEN 0 ELSE g[i - 1] + f[i]]

LEMMA SumsExist == ASSUME NEW f, NEW n \in Nat PROVE \E g : Sums(f, n, g)
<1> DEFINE S == {k \in Nat : \E g : Sums(f, k, g)}
<1>1. 0 \in S
  <2> DEFINE z == [i \in 0 .. 0 |-> 0]
  <2>1. Sums(f, 0, z)
    BY DEF Sums
  <2>2. QED
    BY <2>1
<1>2. ASSUME NEW k \in S PROVE k + 1 \in S
  <2>1. PICK g : Sums(f, k, g)
    OBVIOUS
  <2> DEFINE h == [i \in 0 .. k + 1 |-> IF i = k + 1 THEN g[k] + f[k + 1] ELSE g[i]]
  <2>2. k \in Nat
    OBVIOUS
  <2>3. ASSUME NEW i \in 0 .. k + 1 PROVE h[i] = IF i = 0 THEN 0 ELSE h[i - 1] + f[i]
    <3>1. CASE i = k + 1
      <4>1. h[i] = g[k] + f[k + 1] /\ h[i - 1] = g[k] /\ i # 0
        BY <2>2, <3>1
      <4>2. QED
        BY <3>1, <4>1
    <3>2. CASE i # k + 1
      <4>1. i \in 0 .. k /\ h[i] = g[i]
        BY <2>2, <3>2
      <4>2. i # 0 => h[i - 1] = g[i - 1]
        BY <2>2, <4>1
      <4>3. g[i] = IF i = 0 THEN 0 ELSE g[i - 1] + f[i]
        BY <2>1, <4>1 DEF Sums
      <4>4. QED
        BY <4>1, <4>2, <4>3
    <3>3. QED
      BY <3>1, <3>2
  <2>4. Sums(f, k + 1, h)
    <3>1. h = [i \in 0 .. k + 1 |-> h[i]]
      OBVIOUS
    <3> HIDE DEF h
    <3>2. QED
      BY <2>3, <3>1 DEF Sums
  <2>5. QED
    BY <2>2, <2>4
<1>3. S = Nat
  <2> HIDE DEF S
  <2>1. S \in SUBSET Nat
    BY DEF S
  <2>2. QED
    BY <1>1, <1>2, <2>1, AllNumbers
<1>4. QED
  BY <1>3

LEMMA SumsAgree ==
  ASSUME NEW f, NEW n \in Nat, NEW m \in 0 .. n, NEW g, NEW h, Sums(f, m, g), Sums(f, n, h)
  PROVE  \A i \in 0 .. m : g[i] = h[i]
<1> DEFINE S == {i \in Nat : i <= m => g[i] = h[i]}
<1>1. 0 \in S
  BY DEF Sums
<1>2. ASSUME NEW i \in S PROVE i + 1 \in S
  <2>1. SUFFICES ASSUME i + 1 <= m PROVE g[i + 1] = h[i + 1]
    OBVIOUS
  <2>2. /\ i \in Nat /\ i + 1 \in 0 .. m /\ i + 1 \in 0 .. n /\ i + 1 # 0 /\ (i + 1) - 1 = i
        /\ g[i] = h[i]
    BY <2>1
  <2>3. g[i + 1] = g[i] + f[i + 1] /\ h[i + 1] = h[i] + f[i + 1]
    BY <2>2 DEF Sums
  <2>4. QED
    BY <2>2, <2>3
<1>3. S = Nat
  <2> HIDE DEF S
  <2>1. S \in SUBSET Nat
    BY DEF S
  <2>2. QED
    BY <1>1, <1>2, <2>1, AllNumbers
<1>4. QED
  BY <1>3

LEMMA TotalIs ==
  ASSUME NEW f, NEW n \in Nat
  PROVE  \E g : Sums(f, n, g) /\ Total(f, n) = g[n]
<1>1. Total(f, n) = (CHOOSE g : Sums(f, n, g))[n]
  BY DEF Total, Sums
<1>2. Sums(f, n, CHOOSE g : Sums(f, n, g))
  BY SumsExist
<1>3. QED
  BY <1>1, <1>2

LEMMA TotalStep ==
  ASSUME NEW f, NEW n \in Nat
  PROVE  Total(f, 0) = 0 /\ Total(f, n + 1) = Total(f, n) + f[n + 1]
<1>1. Total(f, 0) = 0
  <2>1. PICK g : Sums(f, 0, g) /\ Total(f, 0) = g[0]
    BY TotalIs
  <2>2. QED
    BY <2>1 DEF Sums
<1>2. Total(f, n + 1) = Total(f, n) + f[n + 1]
  <2>1. PICK g : Sums(f, n, g) /\ Total(f, n) = g[n]
    BY TotalIs
  <2>2. PICK h : Sums(f, n + 1, h) /\ Total(f, n + 1) = h[n + 1]
    BY TotalIs
  <2>3. n \in 0 .. n + 1 /\ n \in 0 .. n /\ n + 1 \in 0 .. n + 1 /\ n + 1 # 0 /\ (n + 1) - 1 = n
    OBVIOUS
  <2>4. g[n] = h[n]
    BY <2>1, <2>2, <2>3, SumsAgree
  <2>5. h[n + 1] = h[n] + f[n + 1]
    BY <2>2, <2>3 DEF Sums
  <2>6. QED
    BY <2>1, <2>2, <2>4, <2>5
<1>3. QED
  BY <1>1, <1>2

\* Sums of numbers are numbers; that of zeros is zero.
LEMMA TotalType ==
  ASSUME NEW n \in Nat, NEW f \in [1 .. n -> Nat]
  PROVE  Total(f, n) \in Nat /\ ((\A i \in 1 .. n : f[i] = 0) => Total(f, n) = 0)
<1> DEFINE P(k) == Total(f, k) \in Nat /\ ((\A i \in 1 .. n : f[i] = 0) => Total(f, k) = 0)
           S == {k \in Nat : k <= n => P(k)}
<1>1. 0 \in S
  BY TotalStep
<1>2. ASSUME NEW k \in S PROVE k + 1 \in S
  <2>1. SUFFICES ASSUME k + 1 <= n PROVE P(k + 1)
    OBVIOUS
  <2>2. k \in Nat /\ k + 1 \in 1 .. n /\ f[k + 1] \in Nat /\ P(k)
    BY <2>1
  <2>3. Total(f, k + 1) = Total(f, k) + f[k + 1]
    BY <2>2, TotalStep
  <2>4. QED
    BY <2>2, <2>3
<1>3. S = Nat
  <2> HIDE DEF S
  <2>1. S \in SUBSET Nat
    BY DEF S
  <2>2. QED
    BY <1>1, <1>2, <2>1, AllNumbers
<1>4. QED
  BY <1>3

LEMMA PointArithmetic ==
  ASSUME NEW a \in Nat, NEW b \in Nat, NEW x \in Nat, NEW y \in Nat, NEW u \in Nat,
         NEW v \in Nat, NEW k \in Nat, NEW s \in Nat,
         k < s => b = a, s <= k => b + u = a + v,
         k + 1 = s => x = u /\ y = v, k + 1 # s => y = x
  PROVE  /\ a + x \in Nat /\ b + y \in Nat
         /\ k + 1 < s => b + y = a + x
         /\ s <= k + 1 => (b + y) + u = (a + x) + v
OBVIOUS

\* Where one number changes the sum changes as much.
LEMMA TotalPoint ==
  ASSUME NEW n \in Nat, NEW f \in [1 .. n -> Nat], NEW g \in [1 .. n -> Nat],
         NEW s \in 1 .. n, \A i \in 1 .. n : i # s => g[i] = f[i]
  PROVE  Total(g, n) + f[s] = Total(f, n) + g[s]
<1> DEFINE P(k) == /\ Total(f, k) \in Nat /\ Total(g, k) \in Nat
                   /\ k < s => Total(g, k) = Total(f, k)
                   /\ s <= k => Total(g, k) + f[s] = Total(f, k) + g[s]
           S == {k \in Nat : k <= n => P(k)}
<1>1. 0 \in S
  BY TotalStep
<1>2. ASSUME NEW k \in S PROVE k + 1 \in S
  <2>1. SUFFICES ASSUME k + 1 <= n PROVE P(k + 1)
    OBVIOUS
  <2>2. /\ k \in Nat /\ k + 1 \in 1 .. n /\ f[k + 1] \in Nat /\ g[k + 1] \in Nat /\ P(k)
        /\ f[s] \in Nat /\ g[s] \in Nat
    BY <2>1
  <2>3. /\ Total(f, k + 1) = Total(f, k) + f[k + 1]
        /\ Total(g, k + 1) = Total(g, k) + g[k + 1]
    BY <2>2, TotalStep
  <2>4. /\ k + 1 = s => f[k + 1] = f[s] /\ g[k + 1] = g[s]
        /\ k + 1 # s => g[k + 1] = f[k + 1]
    BY <2>2
  <2>5. /\ Total(f, k) + f[k + 1] \in Nat /\ Total(g, k) + g[k + 1] \in Nat
        /\ k + 1 < s => Total(g, k) + g[k + 1] = Total(f, k) + f[k + 1]
        /\ s <= k + 1 =>
             (Total(g, k) + g[k + 1]) + f[s] = (Total(f, k) + f[k + 1]) + g[s]
    <3> DEFINE a == Total(f, k)
               b == Total(g, k)
               x == f[k + 1]
               y == g[k + 1]
               u == f[s]
               v == g[s]
    <3>1. /\ a \in Nat /\ b \in Nat /\ x \in Nat /\ y \in Nat /\ u \in Nat /\ v \in Nat
          /\ k \in Nat /\ s \in Nat
      BY <2>2
    <3>2. /\ k < s => b = a
          /\ s <= k => b + u = a + v
          /\ k + 1 = s => x = u /\ y = v
          /\ k + 1 # s => y = x
      BY <2>2, <2>4
    <3> HIDE DEF a, b, x, y, u, v
    <3>3. /\ a + x \in Nat /\ b + y \in Nat
          /\ k + 1 < s => b + y = a + x
          /\ s <= k + 1 => (b + y) + u = (a + x) + v
      BY <3>1, <3>2, PointArithmetic
    <3>4. QED
      BY <3>3 DEF a, b, x, y, u, v
  <2>6. QED
    BY <2>3, <2>5
<1>3. S = Nat
  <2> HIDE DEF S
  <2>1. S \in SUBSET Nat
    BY DEF S
  <2>2. QED
    BY <1>1, <1>2, <2>1, AllNumbers
<1>4. QED
  BY <1>3

\* A sum depends on what is added only.
LEMMA TotalSame ==
  ASSUME NEW n \in Nat, NEW f, NEW g, \A i \in 1 .. n : f[i] = g[i]
  PROVE  Total(f, n) = Total(g, n)
<1> DEFINE S == {k \in Nat : k <= n => Total(f, k) = Total(g, k)}
<1>1. 0 \in S
  BY TotalStep
<1>2. ASSUME NEW k \in S PROVE k + 1 \in S
  <2>1. SUFFICES ASSUME k + 1 <= n PROVE Total(f, k + 1) = Total(g, k + 1)
    OBVIOUS
  <2>2. k \in Nat /\ k + 1 \in 1 .. n /\ Total(f, k) = Total(g, k)
    BY <2>1
  <2>3. f[k + 1] = g[k + 1]
    BY <2>2
  <2>4. QED
    BY <2>2, <2>3, TotalStep
<1>3. S = Nat
  <2> HIDE DEF S
  <2>1. S \in SUBSET Nat
    BY DEF S
  <2>2. QED
    BY <1>1, <1>2, <2>1, AllNumbers
<1>4. QED
  BY <1>3

-----------------------------------------------------------------------------
Readouts == [epoch : Nat, bytes : Nat]
Entries  == [revision : Nat, bytes : Nat]
Values   == [period : Periods, revision : Nat, bytes : Nat]

\* What of a counter can still be counted after a sample of it.
Left(sample, counter) ==
  IF sample.epoch = counter.epoch /\ sample.bytes <= counter.bytes
  THEN counter.bytes - sample.bytes ELSE counter.bytes

Remaining(known, counted) == [s \in Services |-> Left(known[s], counted[s])]

RemainingTotal(known, counted) == Total(Remaining(known, counted), LastService)

LEMMA LeftType ==
  ASSUME NEW sample \in Readouts, NEW counter \in Readouts
  PROVE  Left(sample, counter) \in Nat
BY DEF Left, Readouts

LEMMA RemainingType ==
  ASSUME NEW known \in [Services -> Readouts], NEW counted \in [Services -> Readouts]
  PROVE  /\ Remaining(known, counted) \in [1 .. LastService -> Nat]
         /\ RemainingTotal(known, counted) \in Nat
<1>1. \A s \in Services : Left(known[s], counted[s]) \in Nat
  BY LeftType
<1>2. Remaining(known, counted) \in [1 .. LastService -> Nat]
  BY <1>1 DEF Remaining, Services
<1>3. QED
  BY <1>2, TotalType, LedgerAssumption DEF RemainingTotal

\* A change at one service changes what remains as much.
LEMMA RemainingPoint ==
  ASSUME NEW known \in [Services -> Readouts], NEW counted \in [Services -> Readouts],
         NEW known1 \in [Services -> Readouts], NEW counted1 \in [Services -> Readouts],
         NEW s \in Services,
         \A i \in Services : i # s => known1[i] = known[i] /\ counted1[i] = counted[i]
  PROVE  RemainingTotal(known1, counted1) + Left(known[s], counted[s])
           = RemainingTotal(known, counted) + Left(known1[s], counted1[s])
<1> DEFINE f == Remaining(known, counted)
           g == Remaining(known1, counted1)
<1>1. f \in [1 .. LastService -> Nat] /\ g \in [1 .. LastService -> Nat]
  BY RemainingType
<1>2. /\ f[s] = Left(known[s], counted[s]) /\ g[s] = Left(known1[s], counted1[s])
      /\ \A i \in 1 .. LastService : i # s => g[i] = f[i]
  BY DEF Remaining, Services
<1>3. s \in 1 .. LastService /\ LastService \in Nat
  BY LedgerAssumption DEF Services
<1> HIDE DEF f, g
<1>4. Total(g, LastService) + f[s] = Total(f, LastService) + g[s]
  BY <1>1, <1>2, <1>3, TotalPoint
<1>5. QED
  BY <1>2, <1>4 DEF f, g, RemainingTotal

-----------------------------------------------------------------------------
LedgerTypes ==
  /\ used \in Nat /\ restarts \in Nat
  /\ counters \in [Services -> Readouts] /\ samples \in [Services -> Readouts]
  /\ period \in Periods /\ revision \in Nat
  /\ ledger \in [Periods -> Entries] /\ center \in [Periods -> Entries]
  /\ unsent \in Seq(Values) /\ events \in Seq(Values)
  /\ cursor \in 0 .. Len(events)

\* The counters have not started again since they were sampled.
InStep(known) ==
  \A s \in Services : known[s].epoch = counters[s].epoch /\ known[s].bytes <= counters[s].bytes

\* What is in the ledger and what can still be counted was used; and as long as
\* no restart has taken any of it, it is all that was used.
Conserved ==
  /\ Accounted + RemainingTotal(samples, counters) <= used
  /\ restarts = 0 => /\ InStep(samples)
                     /\ Accounted + RemainingTotal(samples, counters) = used

\* What a period's ledger has been, or is.
WasLedger(p, entry) ==
  /\ entry.revision <= ledger[p].revision /\ entry.bytes <= ledger[p].bytes
  /\ entry.revision = ledger[p].revision => entry.bytes = ledger[p].bytes

SnapshotsWere ==
  /\ \A p \in Periods : ledger[p].revision <= revision /\ WasLedger(p, center[p])
  /\ \A i \in DOMAIN unsent : WasLedger(unsent[i].period, unsent[i])
  /\ \A i \in DOMAIN events : WasLedger(events[i].period, events[i])

LedgerInv == LedgerTypes /\ Conserved /\ SnapshotsWere

-----------------------------------------------------------------------------
(* The accounts of a response                                              *)

Accounts == [samples : [Services -> Readouts], bytes : Nat]

\* The accounts after each of the first n samples.
Steps(response, n, g) ==
  g = [k \in 0 .. n |-> IF k = 0 THEN [samples |-> samples, bytes |-> 0]
                        ELSE Account(g[k - 1], response[k])]

LEMMA StepsExist == ASSUME NEW response, NEW n \in Nat PROVE \E g : Steps(response, n, g)
<1> DEFINE S == {k \in Nat : \E g : Steps(response, k, g)}
           first == [samples |-> samples, bytes |-> 0]
<1> HIDE DEF first
<1>1. 0 \in S
  <2> DEFINE z == [i \in 0 .. 0 |-> first]
  <2>1. Steps(response, 0, z)
    BY DEF Steps, first
  <2>2. QED
    BY <2>1
<1>2. ASSUME NEW k \in S PROVE k + 1 \in S
  <2>1. PICK g : Steps(response, k, g)
    OBVIOUS
  <2> DEFINE h == [i \in 0 .. k + 1 |->
                     IF i = k + 1 THEN Account(g[k], response[k + 1]) ELSE g[i]]
  <2>2. k \in Nat
    OBVIOUS
  <2>3. ASSUME NEW i \in 0 .. k + 1
        PROVE  h[i] = IF i = 0 THEN first ELSE Account(h[i - 1], response[i])
    <3>1. CASE i = k + 1
      <4>1. h[i] = Account(g[k], response[k + 1]) /\ h[i - 1] = g[k] /\ i # 0
        BY <2>2, <3>1
      <4>2. QED
        BY <3>1, <4>1
    <3>2. CASE i # k + 1
      <4>1. i \in 0 .. k /\ h[i] = g[i]
        BY <2>2, <3>2
      <4>2. i # 0 => h[i - 1] = g[i - 1]
        BY <2>2, <4>1
      <4>3. g[i] = IF i = 0 THEN first ELSE Account(g[i - 1], response[i])
        BY <2>1, <4>1 DEF Steps, first
      <4>4. QED
        BY <4>1, <4>2, <4>3
    <3>3. QED
      BY <3>1, <3>2
  <2>4. Steps(response, k + 1, h)
    <3>1. h = [i \in 0 .. k + 1 |-> h[i]]
      OBVIOUS
    <3> HIDE DEF h
    <3>2. QED
      BY <2>3, <3>1 DEF Steps, first
  <2>5. QED
    BY <2>2, <2>4
<1>3. S = Nat
  <2> HIDE DEF S
  <2>1. S \in SUBSET Nat
    BY DEF S
  <2>2. QED
    BY <1>1, <1>2, <2>1, AllNumbers
<1>4. QED
  BY <1>3

LEMMA AccountingIs ==
  ASSUME NEW response, Len(response) \in Nat
  PROVE  \E g : Steps(response, Len(response), g) /\ Accounting(response) = g[Len(response)]
<1>1. Accounting(response) = (CHOOSE g : Steps(response, Len(response), g))[Len(response)]
  BY DEF Accounting, Steps
<1>2. Steps(response, Len(response), CHOOSE g : Steps(response, Len(response), g))
  BY StepsExist
<1>3. QED
  BY <1>1, <1>2

LEMMA ResponseType ==
  ASSUME LedgerTypes, NEW response \in Responses
  PROVE  /\ Len(response) \in Nat
         /\ \A k \in 1 .. Len(response) :
              /\ response[k].service \in Services
              /\ response[k] \in Readings(response[k].service)
<1> DEFINE read == UNION {Readings(s) : s \in Services}
<1>1. Cardinality(Services) \in Nat
  <2>1. 1 \in Int /\ LastService \in Int
    BY LedgerAssumption
  <2>2. IsFiniteSet(1 .. LastService)
    BY <2>1, FS_Interval
  <2>3. QED
    BY <2>2, FS_CardinalityType DEF Services
<1>2. PICK n \in 1 .. Cardinality(Services) : response \in [1 .. n -> read]
  BY DEF Responses
<1>3. n \in Nat
  BY <1>1
<1>4. Len(response) = n
  <2> HIDE DEF read
  <2> QED
    BY <1>2, <1>3
<1>5. ASSUME NEW k \in 1 .. Len(response)
      PROVE  /\ response[k].service \in Services
             /\ response[k] \in Readings(response[k].service)
  <2>1. response[k] \in read
    BY <1>2, <1>4
  <2>2. PICK s \in Services : response[k] \in Readings(s)
    BY <2>1
  <2>3. response[k].service = s
    BY <2>2 DEF Readings
  <2>4. QED
    BY <2>2, <2>3
<1>6. QED
  BY <1>3, <1>4, <1>5

\* One sample: what it counts does not remain, and nothing else changes.
LEMMA AccountStep ==
  ASSUME LedgerTypes, NEW account \in Accounts, NEW sample, sample.service \in Services,
         sample \in Readings(sample.service),
         account.samples[sample.service] = samples[sample.service]
  PROVE  LET next == Account(account, sample)
         IN  /\ next \in Accounts
             /\ \A i \in Services : i # sample.service => next.samples[i] = account.samples[i]
             /\ InStep(account.samples) => InStep(next.samples)
             /\ next.bytes + RemainingTotal(next.samples, counters)
                  = account.bytes + RemainingTotal(account.samples, counters)
<1> DEFINE s == sample.service
           last == samples[s]
           now == counters[s]
           kept == [epoch |-> sample.epoch, bytes |-> sample.bytes]
           known == account.samples
           known1 == [known EXCEPT ![s] = kept]
           counted == Traffic(last, sample)
<1>1. /\ s \in Services /\ last \in Readouts /\ now \in Readouts
      /\ known \in [Services -> Readouts] /\ account.bytes \in Nat
      /\ counters \in [Services -> Readouts]
  BY DEF LedgerTypes, Accounts
<1>2. /\ last.epoch \in Nat /\ last.bytes \in Nat /\ now.epoch \in Nat /\ now.bytes \in Nat
  BY <1>1 DEF Readouts
<1>3. /\ sample.epoch = now.epoch /\ sample.bytes \in Nat /\ sample.bytes <= now.bytes
      /\ (last.epoch = now.epoch /\ last.bytes <= now.bytes) => last.bytes <= sample.bytes
  BY <1>2 DEF Readings
<1>4. kept \in Readouts
  BY <1>2, <1>3 DEF Readouts
<1>5. /\ counted \in Nat
      /\ counted + Left(kept, now) = Left(last, now)
  <2> DEFINE se == sample.epoch
             sb == sample.bytes
             le == last.epoch
             lb == last.bytes
             ne == now.epoch
             nb == now.bytes
  <2>1. /\ counted = IF se # le \/ sb < lb THEN sb ELSE sb - lb
        /\ Left(kept, now) = IF se = ne /\ sb <= nb THEN nb - sb ELSE nb
        /\ Left(last, now) = IF le = ne /\ lb <= nb THEN nb - lb ELSE nb
    BY DEF Traffic, Left
  <2>2. /\ lb \in Nat /\ nb \in Nat /\ sb \in Nat /\ se = ne /\ sb <= nb
        /\ le = ne /\ lb <= nb => lb <= sb
    BY <1>2, <1>3
  <2> HIDE DEF se, sb, le, lb, ne, nb, counted, kept, last, now
  <2>3. CASE le = ne /\ lb <= nb
    <3>1. counted = sb - lb /\ Left(kept, now) = nb - sb /\ Left(last, now) = nb - lb
      BY <2>1, <2>2, <2>3
    <3>2. QED
      BY <2>2, <2>3, <3>1
  <2>4. CASE ~(le = ne /\ lb <= nb)
    <3>1. counted = sb /\ Left(kept, now) = nb - sb /\ Left(last, now) = nb
      BY <2>1, <2>2, <2>4
    <3>2. QED
      BY <2>2, <3>1
  <2>5. QED
    BY <2>3, <2>4
<1> HIDE DEF kept, counted
<1>6. /\ known1 \in [Services -> Readouts] /\ known1[s] = kept
      /\ \A i \in Services : i # s => known1[i] = known[i]
  BY <1>1, <1>4
<1>7. /\ Account(account, sample).samples = known1
      /\ Account(account, sample).bytes = account.bytes + counted
      /\ Account(account, sample) = [samples |-> known1, bytes |-> account.bytes + counted]
  BY DEF Account, kept, counted
<1> HIDE DEF known1
<1>8. RemainingTotal(known1, counters) + Left(last, now)
        = RemainingTotal(known, counters) + Left(kept, now)
  BY <1>1, <1>6, RemainingPoint
<1>9. /\ RemainingTotal(known1, counters) \in Nat /\ RemainingTotal(known, counters) \in Nat
      /\ Left(last, now) \in Nat /\ Left(kept, now) \in Nat
  BY <1>1, <1>4, <1>6, RemainingType, LeftType
<1>10. (account.bytes + counted) + RemainingTotal(known1, counters)
         = account.bytes + RemainingTotal(known, counters)
  <2> DEFINE a == account.bytes
             r1 == RemainingTotal(known1, counters)
             r == RemainingTotal(known, counters)
             l == Left(last, now)
             l1 == Left(kept, now)
  <2>1. /\ a \in Nat /\ r1 \in Nat /\ r \in Nat /\ l \in Nat /\ l1 \in Nat /\ counted \in Nat
        /\ r1 + l = r + l1 /\ counted + l1 = l
    BY <1>1, <1>5, <1>8, <1>9
  <2> HIDE DEF a, r1, r, l, l1
  <2>2. (a + counted) + r1 = a + r
    BY <2>1
  <2>3. QED
    BY <2>2 DEF a, r1, r
<1>11. InStep(known) => InStep(known1)
  BY <1>3, <1>6 DEF InStep, kept
<1>12. Account(account, sample) \in Accounts
  BY <1>1, <1>5, <1>6, <1>7 DEF Accounts
<1>13. QED
  BY <1>6, <1>7, <1>10, <1>11, <1>12

\* A whole response, of which no counter is twice.
LEMMA ResponseAccounts ==
  ASSUME LedgerTypes, NEW response \in Responses, ValidateCounters(response)
  PROVE  LET account == Accounting(response)
         IN  /\ account \in Accounts
             /\ InStep(samples) => InStep(account.samples)
             /\ account.bytes + RemainingTotal(account.samples, counters)
                  = RemainingTotal(samples, counters)
<1> DEFINE n == Len(response)
<1>1. /\ n \in Nat
      /\ \A k \in 1 .. n : /\ response[k].service \in Services
                           /\ response[k] \in Readings(response[k].service)
  BY ResponseType
<1>2. PICK g : Steps(response, n, g) /\ Accounting(response) = g[n]
  BY <1>1, AccountingIs
<1>3. \A k \in 2 .. n : response[k].service > response[k - 1].service
  BY DEF ValidateCounters
<1> HIDE DEF n
<1> DEFINE P(k) ==
             /\ g[k] \in Accounts
             /\ \A i \in Services :
                  (k = 0 \/ i > response[k].service) => g[k].samples[i] = samples[i]
             /\ InStep(samples) => InStep(g[k].samples)
             /\ g[k].bytes + RemainingTotal(g[k].samples, counters)
                  = RemainingTotal(samples, counters)
           S == {k \in Nat : k <= n => P(k)}
<1>4. P(0)
  <2>1. g[0] = [samples |-> samples, bytes |-> 0]
    BY <1>1, <1>2 DEF Steps
  <2>2. g[0].samples = samples /\ g[0].bytes = 0 /\ g[0] \in Accounts
    BY <2>1 DEF Accounts, LedgerTypes
  <2>3. RemainingTotal(samples, counters) \in Nat
    BY RemainingType DEF LedgerTypes
  <2>4. 0 + RemainingTotal(samples, counters) = RemainingTotal(samples, counters)
    BY <2>3
  <2>5. QED
    BY <2>2, <2>4
<1>5. ASSUME NEW k \in Nat, k + 1 <= n, P(k) PROVE P(k + 1)
  <2> DEFINE sample == response[k + 1]
             s == sample.service
  <2>1. k + 1 \in 1 .. n /\ k + 1 \in 0 .. n /\ k + 1 # 0 /\ (k + 1) - 1 = k
    BY <1>1, <1>5
  <2>2. g[k + 1] = Account(g[k], sample)
    BY <1>2, <2>1 DEF Steps
  <2>3. s \in Services /\ sample \in Readings(s)
    BY <1>1, <2>1
  <2>4. k # 0 => k \in 1 .. n /\ s > response[k].service
    <3>1. k # 0 => k \in 1 .. n /\ k + 1 \in 2 .. n
      BY <1>1, <1>5
    <3>2. QED
      BY <1>3, <2>1, <3>1
  <2>5. g[k].samples[s] = samples[s]
    BY <1>5, <2>3, <2>4
  <2>6. /\ g[k + 1] \in Accounts
        /\ \A i \in Services : i # s => g[k + 1].samples[i] = g[k].samples[i]
        /\ InStep(g[k].samples) => InStep(g[k + 1].samples)
        /\ g[k + 1].bytes + RemainingTotal(g[k + 1].samples, counters)
             = g[k].bytes + RemainingTotal(g[k].samples, counters)
    BY <1>5, <2>2, <2>3, <2>5, AccountStep
  <2>7. ASSUME NEW i \in Services, i > s PROVE g[k + 1].samples[i] = samples[i]
    <3>1. i \in Nat /\ s \in Nat /\ (k # 0 => response[k].service \in Nat)
      BY <1>1, <2>3, <2>4, LedgerAssumption DEF Services
    <3>2. i # s
      BY <2>7, <3>1
    <3>3. k = 0 \/ i > response[k].service
      BY <2>4, <2>7, <3>1
    <3>4. QED
      BY <1>5, <2>6, <3>2, <3>3
  <2>8. QED
    BY <1>5, <2>1, <2>6, <2>7
<1>6. S = Nat
  <2>1. 0 \in S
    BY <1>4
  <2>2. \A k \in S : k + 1 \in S
    <3> SUFFICES ASSUME NEW k \in S, k + 1 <= n PROVE P(k + 1)
      OBVIOUS
    <3> HIDE DEF P
    <3>1. k \in Nat /\ k <= n
      BY <1>1
    <3>2. P(k)
      BY <3>1
    <3>3. QED
      BY <1>5, <3>1, <3>2
  <2>3. S \in SUBSET Nat
    OBVIOUS
  <2> HIDE DEF S
  <2>4. QED
    BY <2>1, <2>2, <2>3, AllNumbers
<1>7. P(n)
  <2> HIDE DEF P
  <2>1. n \in S /\ n <= n
    BY <1>1, <1>6
  <2>2. QED
    BY <2>1
<1>8. QED
  BY <1>2, <1>7

-----------------------------------------------------------------------------
(* The steps                                                               *)

\* A step that leaves the ledger, and what is left of the counters, alone.
LEMMA ConservedStutter ==
  ASSUME Conserved, UNCHANGED <<used, restarts, counters, samples, ledger>>
  PROVE  Conserved'
BY DEF Conserved, Accounted, RemainingTotal, Remaining, InStep

LEMMA AccountedType ==
  ASSUME LedgerTypes PROVE Accounted \in Nat
<1>1. [p \in Periods |-> ledger[p].bytes] \in [1 .. LastPeriod -> Nat]
  BY DEF LedgerTypes, Entries, Periods
<1>2. QED
  BY <1>1, TotalType, LedgerAssumption DEF Accounted

LEMMA InitLedgerInv == LedgerInit => LedgerInv
<1> SUFFICES ASSUME LedgerInit PROVE LedgerInv
  OBVIOUS
<1>1. LedgerTypes
  <2>1. 1 \in Periods
    BY LedgerAssumption DEF Periods
  <2>2. QED
    BY <2>1 DEF LedgerInit, LedgerTypes, Readouts, Entries
<1>2. Accounted = 0
  <2> DEFINE f == [p \in Periods |-> ledger[p].bytes]
  <2>1. f \in [1 .. LastPeriod -> Nat] /\ \A p \in 1 .. LastPeriod : f[p] = 0
    BY DEF LedgerInit, Periods
  <2> HIDE DEF f
  <2>2. Total(f, LastPeriod) = 0
    BY <2>1, TotalType, LedgerAssumption
  <2>3. QED
    BY <2>2 DEF f, Accounted
<1>3. RemainingTotal(samples, counters) = 0
  <2> DEFINE f == Remaining(samples, counters)
  <2>1. f \in [1 .. LastService -> Nat]
    BY <1>1, RemainingType DEF LedgerTypes
  <2>2. \A s \in 1 .. LastService : f[s] = 0
    BY DEF LedgerInit, Remaining, Left, Services
  <2> HIDE DEF f
  <2>3. Total(f, LastService) = 0
    BY <2>1, <2>2, TotalType, LedgerAssumption
  <2>4. QED
    BY <2>3 DEF f, RemainingTotal
<1>4. Conserved
  BY <1>2, <1>3 DEF LedgerInit, Conserved, InStep
<1>5. SnapshotsWere
  BY DEF LedgerInit, SnapshotsWere, WasLedger
<1>6. QED
  BY <1>1, <1>4, <1>5 DEF LedgerInv

LEMMA FlowStep ==
  ASSUME LedgerInv, NEW s \in Services, Flow(s) PROVE LedgerInv'
<1> DEFINE c == counters[s]
           c1 == counters'[s]
           last == samples[s]
           r == RemainingTotal(samples, counters)
           r1 == RemainingTotal(samples, counters')
<1>1. /\ counters \in [Services -> Readouts] /\ samples \in [Services -> Readouts]
      /\ c \in Readouts /\ last \in Readouts /\ used \in Nat
  BY DEF LedgerInv, LedgerTypes
<1>2. /\ counters' = [counters EXCEPT ![s].bytes = @ + 1]
      /\ used' = used + 1
      /\ UNCHANGED <<restarts, accounts, events, cursor, center>>
  BY DEF Flow
<1>3. c1 = [epoch |-> c.epoch, bytes |-> c.bytes + 1] /\ c1 \in Readouts
  <2>1. c1 = [c EXCEPT !.bytes = c.bytes + 1]
    BY <1>1, <1>2
  <2>2. QED
    BY <1>1, <2>1 DEF Readouts
<1>4. /\ counters' \in [Services -> Readouts]
      /\ \A i \in Services : i # s => counters'[i] = counters[i]
  <2>1. counters' = [i \in Services |-> IF i = s THEN c1 ELSE counters[i]]
    BY <1>1, <1>2
  <2>2. QED
    BY <1>1, <1>3, <2>1
<1>5. LedgerTypes'
  BY <1>2, <1>4 DEF LedgerInv, LedgerTypes, accounts
<1>6. /\ Left(last, c) \in Nat /\ Left(last, c1) \in Nat
      /\ Left(last, c1) <= Left(last, c) + 1
      /\ (last.epoch = c.epoch /\ last.bytes <= c.bytes) => Left(last, c1) = Left(last, c) + 1
  BY <1>1, <1>3 DEF Left, Readouts
<1>7. r1 + Left(last, c) = r + Left(last, c1)
  BY <1>1, <1>4, RemainingPoint
<1>8. r \in Nat /\ r1 \in Nat /\ Accounted \in Nat /\ Accounted' = Accounted
  <2>1. r \in Nat /\ r1 \in Nat
    BY <1>1, <1>4, RemainingType
  <2>2. Accounted' = Accounted
    BY <1>2 DEF Accounted, accounts
  <2>3. QED
    BY <2>1, <2>2, AccountedType DEF LedgerInv
<1>9. Conserved'
  <2> DEFINE l == Left(last, c)
             l1 == Left(last, c1)
             a == Accounted
  <2>1. /\ a + r <= used
        /\ restarts = 0 => InStep(samples) /\ a + r = used
    BY DEF LedgerInv, Conserved
  <2>2. InStep(samples) => /\ l1 = l + 1 /\ InStep(samples)'
    <3>1. ASSUME InStep(samples) PROVE InStep(samples)'
      <4>1. samples' = samples
        BY <1>2 DEF accounts
      <4>2. ASSUME NEW i \in Services
            PROVE  samples[i].epoch = counters'[i].epoch /\ samples[i].bytes <= counters'[i].bytes
        <5>1. samples[i].epoch = counters[i].epoch /\ samples[i].bytes <= counters[i].bytes
          BY <3>1 DEF InStep
        <5>2. CASE i = s
          BY <1>1, <1>3, <5>1, <5>2 DEF Readouts
        <5>3. CASE i # s
          BY <1>4, <5>1, <5>3
        <5>4. QED
          BY <5>2, <5>3
      <4>3. QED
        BY <4>1, <4>2 DEF InStep
    <3>2. QED
      BY <1>6, <3>1 DEF InStep
  <2>3. l \in Nat /\ l1 \in Nat /\ l1 <= l + 1 /\ r1 + l = r + l1
    BY <1>6, <1>7
  <2> HIDE DEF l, l1, a, r, r1
  <2>4. a \in Nat /\ r \in Nat /\ r1 \in Nat
    BY <1>8 DEF a, r, r1
  <2>5. a + r1 <= used + 1
    BY <1>1, <2>1, <2>3, <2>4
  <2>6. (a + r = used /\ l1 = l + 1) => a + r1 = used + 1
    BY <1>1, <2>3, <2>4
  <2>7. RemainingTotal(samples, counters)' = r1 /\ restarts' = restarts /\ Accounted' = a
    BY <1>2, <1>8 DEF r1, a, accounts, RemainingTotal, Remaining
  <2>8. QED
    BY <1>2, <2>1, <2>2, <2>5, <2>6, <2>7 DEF Conserved
<1>10. SnapshotsWere'
  BY <1>2 DEF LedgerInv, SnapshotsWere, WasLedger, accounts
<1>11. QED
  BY <1>5, <1>9, <1>10 DEF LedgerInv

LEMMA CountersRestartStep == ASSUME LedgerInv, CountersRestart PROVE LedgerInv'
<1>1. PICK next \in {0, 1} :
        counters' = [s \in Services |-> [epoch |-> counters[s].epoch + next, bytes |-> 0]]
  BY DEF CountersRestart
<1>2. restarts' = restarts + 1 /\ UNCHANGED <<used, accounts, events, cursor, center>>
  BY DEF CountersRestart
<1>3. counters' \in [Services -> Readouts]
  BY <1>1 DEF LedgerInv, LedgerTypes, Readouts
<1>4. LedgerTypes'
  BY <1>2, <1>3 DEF LedgerInv, LedgerTypes, accounts
<1>5. RemainingTotal(samples, counters') = 0
  <2> DEFINE f == Remaining(samples, counters')
  <2>1. f \in [1 .. LastService -> Nat]
    BY <1>3, RemainingType DEF LedgerInv, LedgerTypes
  <2>2. \A s \in 1 .. LastService : f[s] = 0
    <3> TAKE s \in 1 .. LastService
    <3>1. s \in Services /\ samples[s] \in Readouts /\ counters'[s].bytes = 0
      BY <1>1 DEF LedgerInv, LedgerTypes, Services
    <3>2. Left(samples[s], counters'[s]) = 0
      BY <3>1 DEF Left, Readouts
    <3>3. QED
      BY <3>1, <3>2 DEF Remaining
  <2> HIDE DEF f
  <2>3. Total(f, LastService) = 0
    BY <2>1, <2>2, TotalType, LedgerAssumption
  <2>4. QED
    BY <2>3 DEF f, RemainingTotal
<1>6. /\ RemainingTotal(samples, counters)' = 0 /\ Accounted' = Accounted
      /\ used' = used /\ restarts' # 0
  BY <1>2, <1>5 DEF accounts, RemainingTotal, Remaining, Accounted, LedgerInv, LedgerTypes
<1>7. Accounted <= used
  <2>1. Accounted \in Nat /\ RemainingTotal(samples, counters) \in Nat /\ used \in Nat
    BY AccountedType, RemainingType DEF LedgerInv, LedgerTypes
  <2>2. Accounted + RemainingTotal(samples, counters) <= used
    BY DEF LedgerInv, Conserved
  <2>3. QED
    BY <2>1, <2>2
<1>8. Conserved'
  <2>1. Accounted + 0 <= used
    BY <1>7, AccountedType DEF LedgerInv, LedgerTypes
  <2>2. QED
    BY <1>6, <2>1 DEF Conserved
<1>9. SnapshotsWere'
  BY <1>2 DEF LedgerInv, SnapshotsWere, WasLedger, accounts
<1>10. QED
  BY <1>4, <1>8, <1>9 DEF LedgerInv

\* A response: the ledger takes what no longer remains.
LEMMA CollectStep ==
  ASSUME LedgerInv, NEW response \in Responses, Collect(response) PROVE LedgerInv'
<1> DEFINE account == Accounting(response)
           r == RemainingTotal(samples, counters)
           r1 == RemainingTotal(account.samples, counters)
<1>1. /\ LedgerTypes /\ Conserved /\ SnapshotsWere
      /\ ledger \in [Periods -> Entries] /\ revision \in Nat /\ period \in Periods /\ used \in Nat
      /\ counters \in [Services -> Readouts] /\ samples \in [Services -> Readouts]
  BY DEF LedgerInv, LedgerTypes
<1>2. /\ account \in Accounts
      /\ InStep(samples) => InStep(account.samples)
      /\ account.bytes + r1 = r
  BY <1>1, ResponseAccounts DEF Collect
<1>3. /\ samples' = account.samples
      /\ UNCHANGED <<source, period, events, cursor, center>>
      /\ account.bytes = 0 => UNCHANGED <<revision, ledger, unsent>>
      /\ account.bytes # 0 =>
           /\ revision' = revision + 1
           /\ ledger' = [ledger EXCEPT ![period] =
                [revision |-> revision + 1, bytes |-> @.bytes + account.bytes]]
           /\ unsent' = <<[period |-> period, revision |-> revision + 1,
                           bytes |-> ledger'[period].bytes]>>
  BY DEF Collect
<1> HIDE DEF account
<1>4. /\ account.samples \in [Services -> Readouts] /\ account.bytes \in Nat
  BY <1>2 DEF Accounts
<1>5. ledger[period].revision \in Nat /\ ledger[period].bytes \in Nat
  BY <1>1 DEF Entries
<1> DEFINE entry == [revision |-> revision + 1, bytes |-> ledger[period].bytes + account.bytes]
<1>6. account.bytes # 0 =>
        /\ entry \in Entries /\ ledger' = [ledger EXCEPT ![period] = entry]
        /\ ledger' \in [Periods -> Entries] /\ ledger'[period] = entry
        /\ \A p \in Periods : p # period => ledger'[p] = ledger[p]
        /\ unsent' = <<[period |-> period, revision |-> revision + 1, bytes |-> entry.bytes]>>
  <2> SUFFICES ASSUME account.bytes # 0
               PROVE  /\ entry \in Entries /\ ledger' = [ledger EXCEPT ![period] = entry]
                      /\ ledger' \in [Periods -> Entries] /\ ledger'[period] = entry
                      /\ \A p \in Periods : p # period => ledger'[p] = ledger[p]
                      /\ unsent' = <<[period |-> period, revision |-> revision + 1,
                                      bytes |-> entry.bytes]>>
    OBVIOUS
  <2>1. entry \in Entries
    BY <1>1, <1>4, <1>5 DEF Entries
  <2>2. ledger' = [ledger EXCEPT ![period] = entry]
    BY <1>3
  <2> HIDE DEF entry
  <2>3. /\ ledger' \in [Periods -> Entries] /\ ledger'[period] = entry
        /\ \A p \in Periods : p # period => ledger'[p] = ledger[p]
    BY <1>1, <2>1, <2>2
  <2>4. QED
    BY <1>3, <2>1, <2>2, <2>3
<1>7. LedgerTypes'
  <2>1. /\ ledger' \in [Periods -> Entries] /\ revision' \in Nat
    BY <1>1, <1>3, <1>6
  <2>2. unsent' \in Seq(Values)
    <3>1. CASE account.bytes = 0
      BY <1>1, <1>3, <3>1 DEF LedgerTypes
    <3>2. CASE account.bytes # 0
      <4>1. [period |-> period, revision |-> revision + 1, bytes |-> entry.bytes] \in Values
        BY <1>1, <1>6, <3>2 DEF Values, Entries
      <4> DEFINE value == [period |-> period, revision |-> revision + 1, bytes |-> entry.bytes]
      <4>2. unsent' = <<value>> /\ value \in Values
        BY <1>6, <3>2, <4>1
      <4> HIDE DEF value
      <4>3. QED
        BY <4>2
    <3>3. QED
      BY <3>1, <3>2
  <2>3. QED
    BY <1>1, <1>3, <1>4, <2>1, <2>2 DEF LedgerTypes, source
<1>8. Accounted' = Accounted + account.bytes
  <2>1. Accounted \in Nat
    BY <1>1, AccountedType
  <2>2. CASE account.bytes = 0
    BY <1>3, <2>1, <2>2 DEF Accounted
  <2>3. CASE account.bytes # 0
    <3> DEFINE f == [p \in Periods |-> ledger[p].bytes]
               g == [p \in Periods |-> ledger'[p].bytes]
    <3>1. f \in [1 .. LastPeriod -> Nat] /\ g \in [1 .. LastPeriod -> Nat]
      BY <1>1, <1>6, <2>3 DEF Entries, Periods
    <3>2. /\ f[period] = ledger[period].bytes
          /\ g[period] = ledger[period].bytes + account.bytes
          /\ \A p \in 1 .. LastPeriod : p # period => g[p] = f[p]
      BY <1>1, <1>6, <2>3 DEF Periods
    <3>3. Accounted = Total(f, LastPeriod) /\ Accounted' = Total(g, LastPeriod)
      BY DEF Accounted
    <3> HIDE DEF f, g
    <3>4. period \in 1 .. LastPeriod /\ LastPeriod \in Nat
      BY <1>1, LedgerAssumption DEF Periods
    <3>5. Total(g, LastPeriod) + f[period] = Total(f, LastPeriod) + g[period]
      BY <3>1, <3>2, <3>4, TotalPoint
    <3>6. Total(g, LastPeriod) \in Nat
      BY <3>1, <3>4, TotalType
    <3> DEFINE t == Total(g, LastPeriod)
               a == Accounted
               b == ledger[period].bytes
    <3>7. /\ t \in Nat /\ a \in Nat /\ b \in Nat /\ account.bytes \in Nat
          /\ t + b = a + (b + account.bytes)
      BY <1>4, <1>5, <2>1, <3>2, <3>3, <3>5, <3>6
    <3> HIDE DEF t, a, b
    <3>8. t = a + account.bytes
      BY <3>7
    <3>9. QED
      BY <3>3, <3>8 DEF t, a
  <2>4. QED
    BY <2>2, <2>3
<1>9. Conserved'
  <2> DEFINE a == Accounted
             more == account.bytes
  <2>1. /\ a \in Nat /\ r \in Nat /\ r1 \in Nat /\ more \in Nat /\ more + r1 = r
    BY <1>1, <1>2, <1>4, AccountedType, RemainingType
  <2>2. /\ a + r <= used
        /\ restarts = 0 => InStep(samples) /\ a + r = used
    BY <1>1 DEF Conserved
  <2>3. /\ Accounted' = a + more /\ RemainingTotal(samples, counters)' = r1
        /\ used' = used /\ restarts' = restarts
        /\ InStep(account.samples) => InStep(samples)'
    <3>1. counters' = counters /\ used' = used /\ restarts' = restarts
      BY <1>3 DEF source
    <3>2. RemainingTotal(samples, counters)' = r1
      BY <1>3, <3>1 DEF RemainingTotal, Remaining
    <3>3. InStep(account.samples) => InStep(samples)'
      BY <1>3, <3>1 DEF InStep
    <3>4. QED
      BY <1>8, <3>1, <3>2, <3>3
  <2> HIDE DEF a, more, r, r1
  <2>4. (a + more) + r1 = a + r
    BY <2>1
  <2>5. QED
    BY <1>2, <2>2, <2>3, <2>4 DEF Conserved
<1>10. SnapshotsWere'
  <2>1. CASE account.bytes = 0
    BY <1>1, <1>3, <2>1 DEF SnapshotsWere, WasLedger
  <2>2. CASE account.bytes # 0
    <3>1. ASSUME NEW p \in Periods, NEW e, e.revision \in Nat, e.bytes \in Nat, WasLedger(p, e)
          PROVE  WasLedger(p, e)'
      <4>1. CASE p # period
        BY <1>6, <2>2, <3>1, <4>1 DEF WasLedger
      <4>2. CASE p = period
        <5>1. /\ ledger'[p].revision = revision + 1
              /\ ledger'[p].bytes = ledger[p].bytes + account.bytes
          BY <1>6, <2>2, <4>2
        <5>2. ledger[p].revision <= revision
          BY <1>1 DEF SnapshotsWere
        <5>3. /\ e.revision <= ledger[p].revision /\ e.bytes <= ledger[p].bytes
          BY <3>1 DEF WasLedger
        <5>4. /\ e.revision <= revision + 1 /\ e.revision # revision + 1
              /\ e.bytes <= ledger[p].bytes + account.bytes
          BY <1>1, <1>4, <1>5, <3>1, <4>2, <5>2, <5>3
        <5>5. QED
          BY <5>1, <5>4 DEF WasLedger
      <4>3. QED
        BY <4>1, <4>2
    <3>2. ASSUME NEW p \in Periods PROVE ledger'[p].revision <= revision'
      <4>1. revision' = revision + 1 /\ ledger[p].revision <= revision /\ ledger[p].revision \in Nat
        BY <1>1, <1>3, <2>2 DEF SnapshotsWere, Entries
      <4>2. ledger'[p].revision = revision + 1 \/ ledger'[p].revision = ledger[p].revision
        BY <1>6, <2>2
      <4>3. QED
        BY <1>1, <4>1, <4>2
    <3>3. ASSUME NEW p \in Periods PROVE WasLedger(p, center[p])'
      <4>1. center[p].revision \in Nat /\ center[p].bytes \in Nat /\ WasLedger(p, center[p])
        BY <1>1 DEF LedgerTypes, Entries, SnapshotsWere
      <4>2. center' = center
        BY <1>3
      <4>3. QED
        BY <3>1, <4>1, <4>2 DEF WasLedger
    <3>4. ASSUME NEW i \in DOMAIN unsent' PROVE WasLedger(unsent[i].period, unsent[i])'
      <4>1. /\ unsent'[i] = [period |-> period, revision |-> revision + 1, bytes |-> entry.bytes]
        BY <1>6, <2>2
      <4>2. /\ unsent'[i].period = period /\ unsent'[i].revision = revision + 1
            /\ unsent'[i].bytes = ledger'[period].bytes
            /\ ledger'[period].revision = revision + 1
        BY <1>6, <2>2, <4>1
      <4>3. ledger'[period].bytes \in Nat /\ revision + 1 \in Nat
        BY <1>1, <1>6, <2>2 DEF Entries
      <4>4. QED
        BY <4>2, <4>3 DEF WasLedger
    <3>5. ASSUME NEW i \in DOMAIN events' PROVE WasLedger(events[i].period, events[i])'
      <4>1. events' = events
        BY <1>3
      <4>2. events[i] \in Values /\ WasLedger(events[i].period, events[i])
        BY <1>1, <4>1 DEF LedgerTypes, SnapshotsWere
      <4>3. /\ events[i].period \in Periods /\ events[i].revision \in Nat
            /\ events[i].bytes \in Nat
        BY <4>2 DEF Values
      <4>4. QED
        BY <3>1, <4>1, <4>2, <4>3 DEF WasLedger
    <3>6. QED
      BY <3>2, <3>3, <3>4, <3>5 DEF SnapshotsWere
  <2>3. QED
    BY <2>1, <2>2
<1>11. QED
  BY <1>7, <1>9, <1>10 DEF LedgerInv

\* The steps that change neither ledger nor counters.
LEMMA OtherSteps ==
  ASSUME LedgerInv, Roll \/ Queue \/ AgentCrashes \/ ConsumerRestarts PROVE LedgerInv'
<1>1. UNCHANGED <<used, restarts, counters, samples, revision, ledger, center>>
  BY DEF Roll, Queue, AgentCrashes, ConsumerRestarts, source, accounts
<1>2. Conserved'
  BY <1>1, ConservedStutter DEF LedgerInv
<1>3. /\ unsent' = unsent \/ unsent' = <<>>
      /\ events' = events \/ events' = events \o unsent
      /\ cursor' = cursor \/ cursor' \in 0 .. cursor
      /\ period' = period \/ (period + 1 \in Periods /\ period' = period + 1)
  BY DEF Roll, Queue, AgentCrashes, ConsumerRestarts, source, accounts
<1>4. events \in Seq(Values) /\ unsent \in Seq(Values) /\ cursor \in 0 .. Len(events)
  BY DEF LedgerInv, LedgerTypes
<1>5. /\ events' \in Seq(Values) /\ unsent' \in Seq(Values) /\ period' \in Periods
  <2>1. period \in Periods
    BY DEF LedgerInv, LedgerTypes
  <2>2. period' \in Periods
    BY <1>3, <2>1
  <2>3. events \o unsent \in Seq(Values) /\ <<>> \in Seq(Values)
    BY <1>4
  <2>4. QED
    BY <1>3, <1>4, <2>2, <2>3
<1>6. cursor' \in 0 .. Len(events')
  <2>1. Len(events') \in Nat /\ Len(events) \in Nat /\ Len(events) <= Len(events')
    BY <1>3, <1>4
  <2>2. QED
    BY <1>3, <1>4, <2>1
<1>7. LedgerTypes'
  BY <1>1, <1>5, <1>6 DEF LedgerInv, LedgerTypes
<1>8. SnapshotsWere'
  <2>1. \A i \in DOMAIN unsent : WasLedger(unsent[i].period, unsent[i])
    BY DEF LedgerInv, SnapshotsWere
  <2>2. \A i \in DOMAIN events : WasLedger(events[i].period, events[i])
    BY DEF LedgerInv, SnapshotsWere
  <2>3. \A i \in DOMAIN unsent' : WasLedger(unsent'[i].period, unsent'[i])
    BY <1>3, <2>1
  <2>4. \A i \in DOMAIN events' : WasLedger(events'[i].period, events'[i])
    <3>1. CASE events' = events
      BY <2>2, <3>1
    <3>2. CASE events' = events \o unsent
      <4> TAKE i \in DOMAIN events'
      <4>1. /\ i \in 1 .. Len(events) + Len(unsent)
            /\ i <= Len(events) => i \in DOMAIN events /\ events'[i] = events[i]
            /\ i > Len(events) => i - Len(events) \in DOMAIN unsent
                                  /\ events'[i] = unsent[i - Len(events)]
        BY <1>4, <3>2
      <4>2. CASE i <= Len(events)
        BY <2>2, <4>1, <4>2
      <4>3. CASE i > Len(events)
        BY <2>1, <4>1, <4>3
      <4>4. QED
        BY <1>4, <4>1, <4>2, <4>3
    <3>3. QED
      BY <1>3, <3>1, <3>2
  <2>5. \A p \in Periods : ledger[p].revision <= revision /\ WasLedger(p, center[p])
    BY DEF LedgerInv, SnapshotsWere
  <2>6. QED
    BY <1>1, <2>3, <2>4, <2>5 DEF SnapshotsWere, WasLedger
<1>9. QED
  BY <1>2, <1>7, <1>8 DEF LedgerInv

LEMMA ConsumeStep == ASSUME LedgerInv, Consume PROVE LedgerInv'
<1> DEFINE value == events[cursor + 1]
<1>1. /\ UNCHANGED <<used, restarts, counters, samples, period, revision, ledger, unsent, events>>
      /\ center' = [center EXCEPT ![value.period] = Newer(@, value)]
      /\ cursor < Len(events) /\ cursor' = cursor + 1
  BY DEF Consume, source, accounts
<1>2. events \in Seq(Values) /\ cursor \in 0 .. Len(events) /\ center \in [Periods -> Entries]
  BY DEF LedgerInv, LedgerTypes
<1>3. cursor + 1 \in DOMAIN events /\ cursor + 1 \in 0 .. Len(events)
  BY <1>1, <1>2
<1>4. value \in Values /\ WasLedger(value.period, value)
  BY <1>2, <1>3 DEF LedgerInv, SnapshotsWere
<1> HIDE DEF value
<1> DEFINE p == value.period
           new == Newer(center[p], value)
<1>5. p \in Periods
  BY <1>4 DEF Values
<1>6. new = center[p] \/ new = [revision |-> value.revision, bytes |-> value.bytes]
  BY DEF Newer
<1>7. new \in Entries /\ WasLedger(p, new)
  <2>1. center[p] \in Entries /\ WasLedger(p, center[p])
    BY <1>2, <1>5 DEF LedgerInv, SnapshotsWere
  <2>2. /\ [revision |-> value.revision, bytes |-> value.bytes] \in Entries
        /\ WasLedger(p, [revision |-> value.revision, bytes |-> value.bytes])
    BY <1>4 DEF Values, Entries, WasLedger
  <2> HIDE DEF new, p
  <2>3. QED
    BY <1>6, <2>1, <2>2
<1> HIDE DEF new
<1>8. /\ center' \in [Periods -> Entries] /\ center'[p] = new
      /\ \A q \in Periods : q # p => center'[q] = center[q]
  <2>1. center' = [center EXCEPT ![p] = new]
    BY <1>1 DEF new
  <2>2. QED
    BY <1>2, <1>5, <1>7, <2>1
<1>9. LedgerTypes'
  BY <1>1, <1>3, <1>8 DEF LedgerInv, LedgerTypes
<1>10. Conserved'
  BY <1>1, ConservedStutter DEF LedgerInv
<1>11. SnapshotsWere'
  <2>1. ASSUME NEW q \in Periods PROVE WasLedger(q, center'[q])
    <3>1. WasLedger(q, center[q])
      BY DEF LedgerInv, SnapshotsWere
    <3>2. QED
      BY <1>7, <1>8, <3>1
  <2>2. /\ \A q \in Periods : ledger[q].revision <= revision
        /\ \A i \in DOMAIN unsent : WasLedger(unsent[i].period, unsent[i])
        /\ \A i \in DOMAIN events : WasLedger(events[i].period, events[i])
    BY DEF LedgerInv, SnapshotsWere
  <2>3. QED
    BY <1>1, <2>1, <2>2 DEF SnapshotsWere, WasLedger
<1>12. QED
  BY <1>9, <1>10, <1>11 DEF LedgerInv

LEMMA NextLedgerInv == ASSUME LedgerInv, [LedgerNext]_accounting PROVE LedgerInv'
<1>1. CASE \E s \in Services : Flow(s)
  BY <1>1, FlowStep
<1>2. CASE CountersRestart
  BY <1>2, CountersRestartStep
<1>3. CASE \E response \in Responses : Collect(response)
  BY <1>3, CollectStep
<1>4. CASE Roll \/ Queue \/ AgentCrashes \/ ConsumerRestarts
  BY <1>4, OtherSteps
<1>5. CASE Consume
  BY <1>5, ConsumeStep
<1>6. CASE UNCHANGED accounting
  <2>1. /\ UNCHANGED <<used, restarts, counters, samples, period, revision, ledger, unsent,
                       events, cursor, center>>
    BY <1>6 DEF accounting, source, accounts
  <2>2. Conserved'
    BY <2>1, ConservedStutter DEF LedgerInv
  <2>3. LedgerTypes' /\ SnapshotsWere'
    BY <2>1 DEF LedgerInv, LedgerTypes, SnapshotsWere, WasLedger
  <2>4. QED
    BY <2>2, <2>3 DEF LedgerInv
<1>7. QED
  BY <1>1, <1>2, <1>3, <1>4, <1>5, <1>6 DEF LedgerNext

LEMMA LedgerInvariance == LedgerSpec => []LedgerInv
<1>1. LedgerInv /\ [LedgerNext]_accounting => LedgerInv'
  BY NextLedgerInv
<1>2. QED
  BY <1>1, InitLedgerInv, PTL DEF LedgerSpec

\* The ledger is the traffic: whatever a plugin answers, of however many
\* services, and however often it restarts, nothing is counted twice; and only
\* a restart takes anything.
THEOREM LedgerIsExact == LedgerSpec => []LedgerIsTraffic
<1>1. LedgerInv => LedgerIsTraffic
  <2> SUFFICES ASSUME LedgerInv PROVE LedgerIsTraffic
    OBVIOUS
  <2> DEFINE a == Accounted
             r == RemainingTotal(samples, counters)
  <2>1. a \in Nat /\ r \in Nat /\ used \in Nat
    BY AccountedType, RemainingType DEF LedgerInv, LedgerTypes
  <2>2. a + r <= used
    BY DEF LedgerInv, Conserved
  <2> HIDE DEF a, r
  <2>3. a <= used
    BY <2>1, <2>2
  <2>4. ASSUME restarts = 0 PROVE used = Accounted + Total(Unsampled, LastService)
    <3>1. InStep(samples) /\ Accounted + RemainingTotal(samples, counters) = used
      BY <2>4 DEF LedgerInv, Conserved
    <3>2. Remaining(samples, counters) = Unsampled
      BY <3>1 DEF Remaining, Unsampled, InStep, Left
    <3>3. QED
      BY <3>1, <3>2 DEF RemainingTotal
  <2>5. QED
    BY <2>3, <2>4 DEF LedgerIsTraffic, NothingCountedTwice, OnlyRestartsLose, a
<1>2. QED
  BY <1>1, LedgerInvariance, PTL

\* Through lost snapshots and events read again, of however many periods, the
\* center never knows more than the ledger has.
THEOREM CenterFollowsLedger == LedgerSpec => []CenterKnowsLedger
<1>1. LedgerInv => CenterKnowsLedger
  <2> SUFFICES ASSUME LedgerInv, NEW p \in Periods
               PROVE  /\ center[p].bytes <= ledger[p].bytes
                      /\ center[p].revision = ledger[p].revision => center[p] = ledger[p]
    BY DEF CenterKnowsLedger
  <2>1. WasLedger(p, center[p]) /\ center[p] \in Entries /\ ledger[p] \in Entries
    BY DEF LedgerInv, LedgerTypes, SnapshotsWere
  <2>2. QED
    BY <2>1 DEF WasLedger, Entries
<1>2. QED
  BY <1>1, LedgerInvariance, PTL

-----------------------------------------------------------------------------
(***************************************************************************)
(* PolicyPath.  The order a center sorts bindings in is the order their    *)
(* keys are compared in, for IDs of any characters and any number of       *)
(* bindings: Before is an order, so there is an order to sort them in, and *)
(* a key's separator comes before all characters of an ID.  Sorting adds   *)
(* no byte (a sum does not depend on the order it is taken in), so what is *)
(* in a snapshot is checked alike before and after its command.            *)
(***************************************************************************)
Strings == Seq(Nat)

LEMMA StringIs ==
  ASSUME NEW s \in Strings
  PROVE  Len(s) \in Nat /\ \A i \in 1 .. Len(s) : s[i] \in Nat
BY LenProperties, ElementOfSeq DEF Strings

LEMMA BeforeIrreflexive == ASSUME NEW s \in Strings PROVE ~Before(s, s)
<1>1. SUFFICES ASSUME Before(s, s) PROVE FALSE
  OBVIOUS
<1>2. PICK i \in 1 .. Len(s) : i <= Len(s) => s[i] < s[i]
  BY <1>1 DEF Before
<1>3. i <= Len(s) /\ s[i] \in Nat
  BY StringIs
<1>4. QED
  BY <1>2, <1>3

LEMMA BeforeTransitive ==
  ASSUME NEW r \in Strings, NEW s \in Strings, NEW t \in Strings, Before(r, s), Before(s, t)
  PROVE  Before(r, t)
<1>1. /\ Len(r) \in Nat /\ Len(s) \in Nat /\ Len(t) \in Nat
      /\ \A k \in 1 .. Len(r) : r[k] \in Nat
      /\ \A k \in 1 .. Len(s) : s[k] \in Nat
      /\ \A k \in 1 .. Len(t) : t[k] \in Nat
  BY StringIs
<1>2. PICK i \in 1 .. Len(s) : /\ i <= Len(r) + 1
                               /\ \A k \in 1 .. i - 1 : r[k] = s[k]
                               /\ i <= Len(r) => r[i] < s[i]
  BY DEF Before
<1>3. PICK j \in 1 .. Len(t) : /\ j <= Len(s) + 1
                               /\ \A k \in 1 .. j - 1 : s[k] = t[k]
                               /\ j <= Len(s) => s[j] < t[j]
  BY DEF Before
<1>4. CASE i < j
  <2>1. i \in 1 .. Len(t) /\ i \in 1 .. j - 1
    BY <1>1, <1>2, <1>3, <1>4
  <2>2. ASSUME NEW k \in 1 .. i - 1 PROVE r[k] = t[k]
    <3>1. k \in 1 .. j - 1
      BY <1>1, <1>2, <1>3, <1>4
    <3>2. r[k] = s[k] /\ s[k] = t[k]
      BY <1>2, <1>3, <3>1
    <3>3. QED
      BY <3>2
  <2>3. i <= Len(r) => r[i] < t[i]
    <3>1. s[i] = t[i]
      BY <1>3, <2>1
    <3>2. QED
      BY <1>2, <3>1
  <2>4. QED
    BY <1>2, <2>1, <2>2, <2>3 DEF Before
<1>5. CASE ~(i < j)
  <2>1. j <= Len(r) + 1 /\ j \in 1 .. Len(s) /\ j <= i
    BY <1>1, <1>2, <1>3, <1>5
  <2>2. ASSUME NEW k \in 1 .. j - 1 PROVE r[k] = t[k]
    <3>1. k \in 1 .. i - 1
      BY <1>1, <1>2, <1>3, <2>1
    <3>2. r[k] = s[k] /\ s[k] = t[k]
      BY <1>2, <1>3, <3>1
    <3>3. QED
      BY <3>2
  <2>3. j <= Len(r) => r[j] < t[j]
    <3>1. CASE j = i
      <4>1. SUFFICES ASSUME j <= Len(r) PROVE r[j] < t[j]
        OBVIOUS
      <4>2. r[j] < s[j]
        BY <1>2, <3>1, <4>1
      <4>3. j <= Len(s)
        BY <1>1, <2>1
      <4>4. s[j] < t[j]
        BY <1>3, <4>3
      <4>5. r[j] \in Nat /\ s[j] \in Nat /\ t[j] \in Nat
        BY <1>1, <2>1, <4>1
      <4>6. QED
        BY <4>2, <4>4, <4>5
    <3>2. CASE j # i
      <4>1. j \in 1 .. i - 1
        BY <1>1, <2>1, <3>2
      <4>2. r[j] = s[j]
        BY <1>2, <4>1
      <4>3. j <= Len(s)
        BY <1>1, <2>1
      <4>4. s[j] < t[j]
        BY <1>3, <4>3
      <4>5. QED
        BY <4>2, <4>4
    <3>3. QED
      BY <3>1, <3>2
  <2>4. QED
    BY <2>1, <2>2, <2>3 DEF Before
<1>6. QED
  BY <1>4, <1>5

\* The first place where two strings differ, or one of them ends, decides.
LEMMA BeforeTotal ==
  ASSUME NEW s \in Strings, NEW t \in Strings
  PROVE  s = t \/ Before(s, t) \/ Before(t, s)
<1>1. /\ Len(s) \in Nat /\ Len(t) \in Nat
      /\ \A k \in 1 .. Len(s) : s[k] \in Nat
      /\ \A k \in 1 .. Len(t) : t[k] \in Nat
  BY StringIs
<1> DEFINE ends(k) == k > Len(s) \/ k > Len(t)
           D == {k \in Nat \ {0} : ends(k) \/ s[k] # t[k]}
<1>2. D # {} /\ D \in SUBSET Nat
  <2>1. Len(s) + 1 \in D
    BY <1>1
  <2>2. QED
    BY <2>1
<1>3. PICK i \in D : \A k \in D : i <= k
  BY <1>2, Least
<1>4. i \in Nat \ {0} /\ \A k \in 1 .. i - 1 : k \in Nat \ {0} /\ ~(i <= k)
  BY <1>3
<1>5. \A k \in 1 .. i - 1 : s[k] = t[k] /\ k <= Len(s) /\ k <= Len(t)
  BY <1>1, <1>3, <1>4
<1>6. i <= Len(s) + 1 /\ i <= Len(t) + 1
  <2>1. i - 1 \in Nat /\ (i - 1 = 0 \/ i - 1 \in 1 .. i - 1)
    BY <1>4
  <2>2. i - 1 <= Len(s) /\ i - 1 <= Len(t)
    BY <1>1, <1>5, <2>1
  <2>3. QED
    BY <1>1, <1>4, <2>2
<1>7. CASE i <= Len(s) /\ i <= Len(t)
  <2>1. s[i] # t[i] /\ s[i] \in Nat /\ t[i] \in Nat /\ i \in 1 .. Len(s) /\ i \in 1 .. Len(t)
    BY <1>1, <1>3, <1>4, <1>7
  <2>2. s[i] < t[i] \/ t[i] < s[i]
    BY <2>1
  <2>3. QED
    BY <1>5, <1>6, <2>1, <2>2 DEF Before
<1>8. CASE i <= Len(s) /\ ~(i <= Len(t))
  <2>1. i \in 1 .. Len(s)
    BY <1>1, <1>4, <1>8
  <2>2. QED
    BY <1>5, <1>6, <1>8, <2>1 DEF Before
<1>9. CASE ~(i <= Len(s)) /\ i <= Len(t)
  <2>1. i \in 1 .. Len(t)
    BY <1>1, <1>4, <1>9
  <2>2. QED
    BY <1>5, <1>6, <1>9, <2>1 DEF Before
<1>10. CASE ~(i <= Len(s)) /\ ~(i <= Len(t))
  <2>1. Len(s) = i - 1 /\ Len(t) = i - 1
    BY <1>1, <1>4, <1>6, <1>10
  <2>2. Len(s) = Len(t) /\ \A k \in 1 .. Len(s) : s[k] = t[k]
    BY <1>5, <2>1
  <2>3. s = t
    BY <2>2, SeqEqual DEF Strings
  <2>4. QED
    BY <2>3
<1>11. QED
  BY <1>7, <1>8, <1>9, <1>10

LEMMA BindingIs ==
  ASSUME NEW b \in ServiceBinding
  PROVE  b.plugin \in Strings /\ b.service \in Strings
<1>1. Seq(Nat \ {0}) \subseteq Seq(Nat)
  <2> SUFFICES ASSUME NEW s \in Seq(Nat \ {0}) PROVE s \in Seq(Nat)
    OBVIOUS
  <2>1. Len(s) \in Nat /\ s \in [1 .. Len(s) -> Nat \ {0}]
    BY LenProperties
  <2>2. s \in [1 .. Len(s) -> Nat]
    BY <2>1
  <2>3. QED
    BY <2>1, <2>2, SeqDef
<1>2. QED
  BY <1>1 DEF ServiceBinding, IDs, Strings

LEMMA BindingOrder ==
  ASSUME NEW a \in ServiceBinding, NEW b \in ServiceBinding
  PROVE  /\ ~BindingBefore(a, a)
         /\ a = b \/ BindingBefore(a, b) \/ BindingBefore(b, a)
         /\ \A c \in ServiceBinding :
              BindingBefore(a, b) /\ BindingBefore(b, c) => BindingBefore(a, c)
<1>1. /\ a.plugin \in Strings /\ a.service \in Strings
      /\ b.plugin \in Strings /\ b.service \in Strings
  BY BindingIs
<1>2. ~BindingBefore(a, a)
  BY <1>1, BeforeIrreflexive DEF BindingBefore
<1>3. a = b \/ BindingBefore(a, b) \/ BindingBefore(b, a)
  <2>1. a.plugin = b.plugin /\ a.service = b.service => a = b
    BY DEF ServiceBinding
  <2>2. a.plugin = b.plugin \/ Before(a.plugin, b.plugin) \/ Before(b.plugin, a.plugin)
    BY <1>1, BeforeTotal
  <2>3. a.service = b.service \/ Before(a.service, b.service) \/ Before(b.service, a.service)
    BY <1>1, BeforeTotal
  <2>4. QED
    BY <2>1, <2>2, <2>3 DEF BindingBefore
<1>4. ASSUME NEW c \in ServiceBinding, BindingBefore(a, b), BindingBefore(b, c)
      PROVE  BindingBefore(a, c)
  <2>1. c.plugin \in Strings /\ c.service \in Strings
    BY BindingIs
  <2>2. CASE Before(a.plugin, b.plugin)
    <3>1. CASE Before(b.plugin, c.plugin)
      <4>1. Before(a.plugin, c.plugin)
        BY <1>1, <2>1, <2>2, <3>1, BeforeTransitive
      <4>2. QED
        BY <4>1 DEF BindingBefore
    <3>2. CASE b.plugin = c.plugin
      BY <2>2, <3>2 DEF BindingBefore
    <3>3. QED
      BY <1>4, <3>1, <3>2 DEF BindingBefore
  <2>3. CASE a.plugin = b.plugin /\ Before(a.service, b.service)
    <3>1. CASE Before(b.plugin, c.plugin)
      BY <2>3, <3>1 DEF BindingBefore
    <3>2. CASE b.plugin = c.plugin /\ Before(b.service, c.service)
      <4>1. Before(a.service, c.service)
        BY <1>1, <2>1, <2>3, <3>2, BeforeTransitive
      <4>2. QED
        BY <2>3, <3>2, <4>1 DEF BindingBefore
    <3>3. QED
      BY <1>4, <3>1, <3>2 DEF BindingBefore
  <2>4. QED
    BY <1>4, <2>2, <2>3 DEF BindingBefore
<1>5. QED
  BY <1>2, <1>3, <1>4

\* A key is the plugin ID, the separator and the service ID.
LEMMA KeyIs ==
  ASSUME NEW b \in ServiceBinding
  PROVE  /\ Len(b.plugin) \in Nat /\ Len(b.service) \in Nat
         /\ Len(Key(b)) = Len(b.plugin) + 1 + Len(b.service)
         /\ \A i \in 1 .. Len(b.plugin) : Key(b)[i] = b.plugin[i] /\ b.plugin[i] \in Nat \ {0}
         /\ Key(b)[Len(b.plugin) + 1] = 0
         /\ \A i \in 1 .. Len(b.service) : Key(b)[Len(b.plugin) + 1 + i] = b.service[i]
<1> DEFINE p == b.plugin
           s == b.service
           q == p \o <<0>>
<1>1. p \in Seq(Nat) /\ s \in Seq(Nat) /\ <<0>> \in Seq(Nat) /\ Len(<<0>>) = 1 /\ <<0>>[1] = 0
  BY BindingIs DEF Strings
<1>2. Len(p) \in Nat /\ Len(s) \in Nat
  BY <1>1, LenProperties
<1>3. \A i \in 1 .. Len(p) : p[i] \in Nat \ {0}
  BY ElementOfSeq DEF ServiceBinding, IDs
<1> DEFINE zero == <<0>>
<1> HIDE DEF p, s, zero
<1>4. /\ q \in Seq(Nat) /\ Len(q) = Len(p) + 1
      /\ \A i \in 1 .. Len(p) : q[i] = p[i]
      /\ q[Len(p) + 1] = 0
  <2>1. zero \in Seq(Nat) /\ Len(zero) = 1 /\ zero[1] = 0 /\ q = p \o zero
    BY <1>1 DEF zero
  <2>2. /\ q \in Seq(Nat) /\ Len(q) = Len(p) + 1
        /\ \A i \in 1 .. Len(p) + 1 : q[i] = IF i <= Len(p) THEN p[i] ELSE zero[i - Len(p)]
    <3>1. /\ p \o zero \in Seq(Nat) /\ Len(p \o zero) = Len(p) + Len(zero)
          /\ \A i \in 1 .. Len(p) + Len(zero) :
               (p \o zero)[i] = IF i <= Len(p) THEN p[i] ELSE zero[i - Len(p)]
      BY <1>1, <2>1, ConcatProperties
    <3> HIDE DEF q
    <3>2. QED
      BY <2>1, <3>1
  <2> HIDE DEF q
  <2>3. \A i \in 1 .. Len(p) : i \in 1 .. Len(p) + 1 /\ i <= Len(p)
    BY <1>2
  <2>4. Len(p) + 1 \in 1 .. Len(p) + 1 /\ ~(Len(p) + 1 <= Len(p)) /\ Len(p) + 1 - Len(p) = 1
    BY <1>2
  <2>5. QED
    BY <2>1, <2>2, <2>3, <2>4
<1> HIDE DEF q
<1>5. /\ Len(q \o s) = Len(p) + 1 + Len(s)
      /\ \A i \in 1 .. Len(p) + 1 + Len(s) : (q \o s)[i] =
           IF i <= Len(p) + 1 THEN q[i] ELSE s[i - (Len(p) + 1)]
  <2>1. /\ Len(q \o s) = Len(q) + Len(s)
        /\ \A i \in 1 .. Len(q) + Len(s) :
             (q \o s)[i] = IF i <= Len(q) THEN q[i] ELSE s[i - Len(q)]
    BY <1>1, <1>4, ConcatProperties
  <2>2. QED
    BY <1>4, <2>1
<1>6. Key(b) = q \o s
  BY DEF Key, p, s, q
<1>7. \A i \in 1 .. Len(p) : i \in 1 .. Len(p) + 1 + Len(s) /\ i <= Len(p) + 1
  BY <1>2
<1>8. Len(p) + 1 \in 1 .. Len(p) + 1 + Len(s) /\ Len(p) + 1 <= Len(p) + 1
  BY <1>2
<1>9. \A i \in 1 .. Len(s) : /\ Len(p) + 1 + i \in 1 .. Len(p) + 1 + Len(s)
                              /\ ~(Len(p) + 1 + i <= Len(p) + 1)
                              /\ Len(p) + 1 + i - (Len(p) + 1) = i
  BY <1>2
<1>10. /\ \A i \in 1 .. Len(p) : (q \o s)[i] = p[i]
       /\ (q \o s)[Len(p) + 1] = 0
  BY <1>4, <1>5, <1>7, <1>8
<1>11. \A i \in 1 .. Len(s) : (q \o s)[Len(p) + 1 + i] = s[i]
  BY <1>5, <1>9
<1>12. QED
  BY <1>2, <1>3, <1>5, <1>6, <1>10, <1>11 DEF p, s

\* What the center puts first the Agent finds first: the separator comes before
\* every character.
LEMMA KeyOrder ==
  ASSUME NEW a \in ServiceBinding, NEW b \in ServiceBinding, BindingBefore(a, b)
  PROVE  Before(Key(a), Key(b))
<1>1. CASE Before(a.plugin, b.plugin)
  <2>1. PICK i \in 1 .. Len(b.plugin) :
          /\ i <= Len(a.plugin) + 1
          /\ \A j \in 1 .. i - 1 : a.plugin[j] = b.plugin[j]
          /\ i <= Len(a.plugin) => a.plugin[i] < b.plugin[i]
    BY <1>1 DEF Before
  <2>2. i \in 1 .. Len(Key(b)) /\ i <= Len(Key(a)) + 1
    <3>1. /\ Len(a.plugin) \in Nat /\ Len(a.service) \in Nat
          /\ Len(b.plugin) \in Nat /\ Len(b.service) \in Nat
          /\ Len(Key(a)) = Len(a.plugin) + 1 + Len(a.service)
          /\ Len(Key(b)) = Len(b.plugin) + 1 + Len(b.service)
      BY KeyIs
    <3>2. i \in 1 .. Len(b.plugin) /\ i <= Len(a.plugin) + 1
      BY <2>1
    <3> DEFINE la == Len(a.plugin)
               lb == Len(b.plugin)
               sa == Len(a.service)
               sb == Len(b.service)
    <3>3. /\ la \in Nat /\ lb \in Nat /\ sa \in Nat /\ sb \in Nat
          /\ i \in 1 .. lb /\ i <= la + 1
          /\ Len(Key(a)) = la + 1 + sa /\ Len(Key(b)) = lb + 1 + sb
      BY <3>1, <3>2
    <3> HIDE DEF la, lb, sa, sb
    <3>4. QED
      BY <3>3
  <2>3. ASSUME NEW j \in 1 .. i - 1 PROVE Key(a)[j] = Key(b)[j]
    <3>1. j \in 1 .. Len(a.plugin) /\ j \in 1 .. Len(b.plugin)
      BY <2>1, KeyIs
    <3>2. Key(a)[j] = a.plugin[j] /\ Key(b)[j] = b.plugin[j]
      BY <3>1, KeyIs
    <3>3. QED
      BY <2>1, <3>2
  <2>4. Key(b)[i] = b.plugin[i] /\ b.plugin[i] \in Nat \ {0}
    BY KeyIs
  <2>5. Key(a)[i] < Key(b)[i]
    <3>1. CASE i <= Len(a.plugin)
      <4>1. i \in 1 .. Len(a.plugin)
        BY <3>1, KeyIs
      <4>2. Key(a)[i] = a.plugin[i]
        BY <4>1, KeyIs
      <4>3. QED
        BY <2>1, <2>4, <3>1, <4>2
    <3>2. CASE ~(i <= Len(a.plugin))
      <4>1. i = Len(a.plugin) + 1
        BY <2>1, <3>2, KeyIs
      <4>2. Key(a)[i] = 0
        BY <4>1, KeyIs
      <4>3. QED
        BY <2>4, <4>2
    <3>3. QED
      BY <3>1, <3>2
  <2>6. QED
    BY <2>2, <2>3, <2>5 DEF Before
<1>2. CASE a.plugin = b.plugin /\ Before(a.service, b.service)
  <2> DEFINE n == Len(b.plugin) + 1
  <2>1. PICK i \in 1 .. Len(b.service) :
          /\ i <= Len(a.service) + 1
          /\ \A j \in 1 .. i - 1 : a.service[j] = b.service[j]
          /\ i <= Len(a.service) => a.service[i] < b.service[i]
    BY <1>2 DEF Before
  <2>2. /\ n \in Nat /\ n >= 1 /\ Len(a.service) \in Nat /\ Len(b.service) \in Nat
        /\ Len(Key(a)) = n + Len(a.service) /\ Len(Key(b)) = n + Len(b.service)
    <3>1. /\ Len(b.plugin) \in Nat /\ Len(a.service) \in Nat /\ Len(b.service) \in Nat
          /\ Len(Key(a)) = Len(a.plugin) + 1 + Len(a.service)
          /\ Len(Key(b)) = Len(b.plugin) + 1 + Len(b.service)
      BY KeyIs
    <3>2. QED
      BY <1>2, <3>1
  <2>3. /\ \A j \in 1 .. n : Key(a)[j] = Key(b)[j]
        /\ \A j \in 1 .. Len(a.service) : Key(a)[n + j] = a.service[j]
        /\ \A j \in 1 .. Len(b.service) : Key(b)[n + j] = b.service[j]
    <3>1. \A j \in 1 .. n : j \in 1 .. Len(b.plugin) \/ j = n
      <4>1. Len(b.plugin) \in Nat
        BY KeyIs
      <4>2. QED
        BY <4>1
    <3>2. ASSUME NEW j \in 1 .. Len(b.plugin) PROVE Key(a)[j] = Key(b)[j]
      <4>1. Key(b)[j] = b.plugin[j]
        BY KeyIs
      <4>2. j \in 1 .. Len(a.plugin)
        BY <1>2
      <4>3. Key(a)[j] = a.plugin[j]
        BY <4>2, KeyIs
      <4>4. QED
        BY <1>2, <4>1, <4>3
    <3>3. Key(a)[n] = Key(b)[n]
      BY <1>2, KeyIs
    <3>4. \A j \in 1 .. Len(a.service) : Key(a)[n + j] = a.service[j]
      BY <1>2, KeyIs
    <3>5. \A j \in 1 .. Len(b.service) : Key(b)[n + j] = b.service[j]
      BY KeyIs
    <3>6. QED
      BY <3>1, <3>2, <3>3, <3>4, <3>5
  <2> HIDE DEF n
  <2>4. n + i \in 1 .. Len(Key(b)) /\ n + i <= Len(Key(a)) + 1
    BY <2>1, <2>2
  <2>5. ASSUME NEW j \in 1 .. (n + i) - 1 PROVE Key(a)[j] = Key(b)[j]
    <3>1. CASE j \in 1 .. n
      BY <2>3, <3>1
    <3>2. CASE j \notin 1 .. n
      <4>1. /\ j - n \in 1 .. i - 1 /\ j - n \in 1 .. Len(a.service)
            /\ j - n \in 1 .. Len(b.service) /\ n + (j - n) = j
        BY <2>1, <2>2, <3>2
      <4>2. Key(a)[j] = a.service[j - n] /\ Key(b)[j] = b.service[j - n]
        BY <2>3, <4>1
      <4>3. QED
        BY <2>1, <4>1, <4>2
    <3>3. QED
      BY <3>1, <3>2
  <2>6. ASSUME n + i <= Len(Key(a)) PROVE Key(a)[n + i] < Key(b)[n + i]
    <3>1. i \in 1 .. Len(a.service)
      BY <2>1, <2>2, <2>6
    <3>2. Key(a)[n + i] = a.service[i] /\ Key(b)[n + i] = b.service[i]
      BY <2>3, <3>1
    <3>3. QED
      BY <2>1, <3>1, <3>2
  <2>7. QED
    BY <2>4, <2>5, <2>6 DEF Before
<1>3. QED
  BY <1>1, <1>2 DEF BindingBefore

\* Some binding may come last.
LEMMA LastBinding ==
  ASSUME NEW n \in Nat, NEW b \in [1 .. n + 1 -> ServiceBinding]
  PROVE  \E m \in 1 .. n + 1 : \A i \in 1 .. n + 1 : ~BindingBefore(b[m], b[i])
<1> DEFINE P(k) == \E m \in 1 .. k + 1 : \A i \in 1 .. k + 1 : ~BindingBefore(b[m], b[i])
           S == {k \in Nat : k <= n => P(k)}
<1>1. 0 \in S
  <2>1. 1 \in 1 .. n + 1 /\ \A i \in 1 .. 0 + 1 : i = 1
    OBVIOUS
  <2>2. ~BindingBefore(b[1], b[1])
    BY <2>1, BindingOrder
  <2>3. P(0)
    BY <2>1, <2>2
  <2>4. QED
    BY <2>3
<1>2. ASSUME NEW k \in S PROVE k + 1 \in S
  <2>1. SUFFICES ASSUME k + 1 <= n PROVE P(k + 1)
    OBVIOUS
  <2>2. k \in Nat /\ k <= n /\ P(k)
    BY <2>1
  <2>3. PICK m \in 1 .. k + 1 : \A i \in 1 .. k + 1 : ~BindingBefore(b[m], b[i])
    BY <2>2
  <2> DEFINE next == (k + 1) + 1
  <2>4. /\ next \in 1 .. n + 1 /\ next \in 1 .. next
        /\ \A i \in 1 .. next : i \in 1 .. k + 1 \/ i = next
        /\ \A i \in 1 .. k + 1 : i \in 1 .. n + 1 /\ i \in 1 .. next
    BY <2>1, <2>2
  <2> HIDE DEF next
  <2>5. b[next] \in ServiceBinding /\ \A i \in 1 .. k + 1 : b[i] \in ServiceBinding
    BY <2>4
  <2>6. CASE BindingBefore(b[m], b[next])
    <3>1. ASSUME NEW i \in 1 .. k + 1, BindingBefore(b[next], b[i]) PROVE FALSE
      <4>1. BindingBefore(b[m], b[i])
        BY <2>3, <2>5, <2>6, <3>1, BindingOrder
      <4>2. QED
        BY <2>3, <4>1
    <3>2. ~BindingBefore(b[next], b[next])
      BY <2>5, BindingOrder
    <3>3. \A i \in 1 .. next : ~BindingBefore(b[next], b[i])
      BY <2>4, <3>1, <3>2
    <3>4. QED
      BY <2>4, <3>3 DEF next
  <2>7. CASE ~BindingBefore(b[m], b[next])
    <3>1. \A i \in 1 .. next : ~BindingBefore(b[m], b[i])
      BY <2>3, <2>4, <2>7
    <3>2. QED
      BY <2>3, <2>4, <3>1 DEF next
  <2>8. QED
    BY <2>6, <2>7
<1>3. S = Nat
  <2> HIDE DEF S
  <2>1. S \in SUBSET Nat
    BY DEF S
  <2>2. QED
    BY <1>1, <1>2, <2>1, AllNumbers
<1>4. P(n)
  <2>1. n \in S
    BY <1>3
  <2> HIDE DEF P
  <2>2. QED
    BY <2>1
<1>5. QED
  BY <1>4

Sorts(p, b, n) ==
  \A i, j \in 1 .. n : i < j => ~BindingBefore(b[p[j]], b[p[i]])

\* So there is an order to sort bindings in: that one last, and before it the
\* others, sorted.
LEMMA OrderExists ==
  ASSUME NEW n \in Nat, NEW b \in [1 .. n -> ServiceBinding]
  PROVE  \E p \in Orders(n) : Sorts(p, b, n)
<1> DEFINE P(k) == \A c \in [1 .. k -> ServiceBinding] : \E p \in Orders(k) : Sorts(p, c, k)
           S == {k \in Nat : P(k)}
<1>1. 0 \in S
  <2>1. \A c : [i \in 1 .. 0 |-> i] \in Orders(0) /\ Sorts([i \in 1 .. 0 |-> i], c, 0)
    BY DEF Orders, Sorts
  <2>2. QED
    BY <2>1
<1>2. ASSUME NEW k \in S PROVE k + 1 \in S
  <2>1. k \in Nat /\ P(k)
    OBVIOUS
  <2>2. SUFFICES ASSUME NEW c \in [1 .. k + 1 -> ServiceBinding]
                 PROVE  \E p \in Orders(k + 1) : Sorts(p, c, k + 1)
    OBVIOUS
  <2>3. PICK m \in 1 .. k + 1 : \A i \in 1 .. k + 1 : ~BindingBefore(c[m], c[i])
    BY <2>1, LastBinding
  <2> DEFINE rest == [i \in 1 .. k |-> IF i = m THEN c[k + 1] ELSE c[i]]
  <2>4. \A i \in 1 .. k : i \in 1 .. k + 1 /\ i # k + 1 /\ i < k + 1
    BY <2>1
  <2>5. k + 1 \in 1 .. k + 1 /\ \A i \in 1 .. k + 1 : i = k + 1 \/ i \in 1 .. k
    BY <2>1
  <2>6. rest \in [1 .. k -> ServiceBinding]
    BY <2>4, <2>5
  <2>7. PICK q \in Orders(k) : Sorts(q, rest, k)
    BY <2>1, <2>6
  <2>8. /\ \A i \in 1 .. k : q[i] \in 1 .. k
        /\ \A i, j \in 1 .. k : q[i] = q[j] => i = j
    BY <2>7 DEF Orders
  <2> DEFINE p == [j \in 1 .. k + 1 |->
                     IF j = k + 1 THEN m ELSE IF q[j] = m THEN k + 1 ELSE q[j]]
  <2>9. /\ p[k + 1] = m
        /\ \A j \in 1 .. k : /\ p[j] = IF q[j] = m THEN k + 1 ELSE q[j]
                             /\ p[j] \in 1 .. k + 1 /\ p[j] # m
                             /\ c[p[j]] = rest[q[j]]
    <3>1. p[k + 1] = m
      BY <2>5
    <3>2. ASSUME NEW j \in 1 .. k
          PROVE  /\ p[j] = IF q[j] = m THEN k + 1 ELSE q[j]
                 /\ p[j] \in 1 .. k + 1 /\ p[j] # m
                 /\ c[p[j]] = rest[q[j]]
      <4>1. p[j] = IF q[j] = m THEN k + 1 ELSE q[j]
        BY <2>4
      <4>2. q[j] \in 1 .. k /\ q[j] \in 1 .. k + 1 /\ q[j] # k + 1
        BY <2>4, <2>8
      <4>3. rest[q[j]] = IF q[j] = m THEN c[k + 1] ELSE c[q[j]]
        BY <4>2
      <4> HIDE DEF p, rest
      <4>4. QED
        BY <2>5, <4>1, <4>2, <4>3
    <3>3. QED
      BY <3>1, <3>2
  <2>10. p \in [1 .. k + 1 -> 1 .. k + 1]
    <3>1. \A j \in 1 .. k + 1 : p[j] \in 1 .. k + 1
      BY <2>5, <2>9
    <3>2. p = [j \in 1 .. k + 1 |-> p[j]]
      OBVIOUS
    <3> HIDE DEF p
    <3>3. QED
      BY <3>1, <3>2
  <2> HIDE DEF p, rest
  <2>11. ASSUME NEW i \in 1 .. k + 1, NEW j \in 1 .. k + 1, p[i] = p[j] PROVE i = j
    <3>1. CASE i \in 1 .. k /\ j \in 1 .. k
      <4>1. q[i] = q[j]
        BY <2>4, <2>8, <2>9, <2>11, <3>1
      <4>2. QED
        BY <2>8, <3>1, <4>1
    <3>2. CASE i = k + 1 \/ j = k + 1
      BY <2>5, <2>9, <2>11, <3>2
    <3>3. QED
      BY <2>5, <3>1, <3>2
  <2>12. ASSUME NEW i \in 1 .. k + 1, NEW j \in 1 .. k + 1, i < j
         PROVE  ~BindingBefore(c[p[j]], c[p[i]])
    <3>1. CASE j = k + 1
      BY <2>3, <2>9, <2>10, <3>1
    <3>2. CASE j # k + 1
      <4>1. i \in 1 .. k /\ j \in 1 .. k
        BY <2>1, <2>12, <3>2
      <4>2. QED
        BY <2>7, <2>9, <2>12, <4>1 DEF Sorts
    <3>3. QED
      BY <3>1, <3>2
  <2>13. QED
    BY <2>10, <2>11, <2>12 DEF Orders, Sorts
<1>3. S = Nat
  <2> HIDE DEF S
  <2>1. S \in SUBSET Nat
    BY DEF S
  <2>2. QED
    BY <1>1, <1>2, <2>1, AllNumbers
<1>4. P(n)
  BY <1>3
<1>5. QED
  BY <1>4

\* A sum does not depend on the order it is taken in.
LEMMA TotalOfOrder ==
  ASSUME NEW n \in Nat, NEW f \in [1 .. n -> Nat], NEW p \in Orders(n)
  PROVE  Total([i \in 1 .. n |-> f[p[i]]], n) = Total(f, n)
<1> DEFINE P(k) == \A g \in [1 .. k -> Nat] : \A q \in Orders(k) :
                     Total([i \in 1 .. k |-> g[q[i]]], k) = Total(g, k)
           S == {k \in Nat : P(k)}
<1>1. 0 \in S
  BY TotalStep
<1>2. ASSUME NEW k \in S PROVE k + 1 \in S
  <2>1. k \in Nat /\ P(k) /\ (P(k + 1) => k + 1 \in S)
    <3> HIDE DEF P
    <3> QED
      OBVIOUS
  <2> HIDE DEF S
  <2>2. SUFFICES ASSUME NEW g \in [1 .. k + 1 -> Nat], NEW q \in Orders(k + 1)
                 PROVE  Total([i \in 1 .. k + 1 |-> g[q[i]]], k + 1) = Total(g, k + 1)
    BY <2>1
  <2>3. /\ k + 1 \in 1 .. k + 1
        /\ \A i \in 1 .. k : i \in 1 .. k + 1 /\ i # k + 1
        /\ \A i \in 1 .. k + 1 : i = k + 1 \/ i \in 1 .. k
    BY <2>1
  <2>4. /\ \A i \in 1 .. k + 1 : q[i] \in 1 .. k + 1
        /\ \A i, j \in 1 .. k + 1 : q[i] = q[j] => i = j
    BY DEF Orders
  <2> DEFINE m    == q[k + 1]
             h    == [i \in 1 .. k |-> IF i = m THEN g[k + 1] ELSE g[i]]
             r    == [i \in 1 .. k |-> IF q[i] = k + 1 THEN m ELSE q[i]]
             gq   == [i \in 1 .. k + 1 |-> g[q[i]]]
             hr   == [i \in 1 .. k |-> h[r[i]]]
             gk   == [i \in 1 .. k |-> g[i]]
  <2>5. m \in 1 .. k + 1 /\ \A i \in 1 .. k : q[i] # m /\ q[i] \in 1 .. k + 1
    BY <2>3, <2>4
  <2>6. \A i \in 1 .. k + 1 : g[i] \in Nat
    OBVIOUS
  <2>7. h \in [1 .. k -> Nat] /\ gk \in [1 .. k -> Nat]
    BY <2>3, <2>6
  <2>8. /\ \A i \in 1 .. k : r[i] = IF q[i] = k + 1 THEN m ELSE q[i]
        /\ \A i \in 1 .. k : h[i] = IF i = m THEN g[k + 1] ELSE g[i]
        /\ \A i \in 1 .. k : gk[i] = g[i] /\ hr[i] = h[r[i]] /\ gq[i] = g[q[i]]
        /\ gq[k + 1] = g[m]
        /\ r = [i \in 1 .. k |-> r[i]]
    BY <2>3
  <2> HIDE DEF m, r, h, gq, gk
  <2>9. ASSUME NEW i \in 1 .. k PROVE r[i] \in 1 .. k /\ h[r[i]] = gq[i]
    <3>1. CASE q[i] = k + 1
      <4>1. r[i] = m /\ m \in 1 .. k
        BY <2>3, <2>5, <2>8, <3>1
      <4>2. h[m] = g[k + 1]
        BY <2>8, <4>1
      <4>3. QED
        BY <2>8, <3>1, <4>1, <4>2
    <3>2. CASE q[i] # k + 1
      <4>1. r[i] = q[i] /\ q[i] \in 1 .. k /\ q[i] # m
        BY <2>3, <2>5, <2>8, <3>2
      <4>2. h[q[i]] = g[q[i]]
        BY <2>8, <4>1
      <4>3. QED
        BY <2>8, <4>1, <4>2
    <3>3. QED
      BY <3>1, <3>2
  <2>10. ASSUME NEW i \in 1 .. k, NEW j \in 1 .. k, r[i] = r[j] PROVE i = j
    <3>1. q[i] = q[j]
      <4>1. /\ q[i] # m /\ q[j] # m
            /\ r[i] = IF q[i] = k + 1 THEN m ELSE q[i]
            /\ r[j] = IF q[j] = k + 1 THEN m ELSE q[j]
        BY <2>5, <2>8
      <4>2. QED
        BY <2>10, <4>1
    <3>2. QED
      BY <2>3, <2>4, <3>1
  <2>11. r \in Orders(k)
    BY <2>8, <2>9, <2>10 DEF Orders
  <2>12. Total(hr, k) = Total(h, k)
    BY <2>1, <2>7, <2>11
  <2>13. hr \in [1 .. k -> Nat] /\ gq \in [1 .. k + 1 -> Nat]
    <3>1. hr \in [1 .. k -> Nat]
      BY <2>7, <2>9
    <3>2. gq \in [1 .. k + 1 -> Nat]
      BY <2>4, <2>6 DEF gq
    <3>3. QED
      BY <3>1, <3>2
  <2> HIDE DEF hr
  <2>14. Total(gq, k) = Total(hr, k)
    BY <2>1, <2>8, <2>9, TotalSame
  <2>15. Total(g, k) = Total(gk, k)
    BY <2>1, <2>8, TotalSame
  <2>16. Total(gq, k + 1) = Total(gq, k) + gq[k + 1] /\ Total(g, k + 1) = Total(g, k) + g[k + 1]
    BY <2>1, TotalStep
  <2>17. Total(h, k) + g[m] = Total(gk, k) + g[k + 1]
    <3>1. CASE m = k + 1
      <4>1. \A i \in 1 .. k : h[i] = gk[i]
        BY <2>3, <2>8, <3>1
      <4>2. Total(h, k) = Total(gk, k)
        BY <2>1, <4>1, TotalSame
      <4>3. QED
        BY <3>1, <4>2
    <3>2. CASE m # k + 1
      <4>1. m \in 1 .. k /\ \A i \in 1 .. k : i # m => h[i] = gk[i]
        BY <2>3, <2>5, <2>8, <3>2
      <4>2. Total(h, k) + gk[m] = Total(gk, k) + h[m]
        BY <2>1, <2>7, <4>1, TotalPoint
      <4>3. h[m] = g[k + 1] /\ gk[m] = g[m]
        BY <2>8, <4>1
      <4>4. QED
        BY <4>2, <4>3
    <3>3. QED
      BY <3>1, <3>2
  <2>18. Total(gq, k + 1) = Total(g, k + 1)
    BY <2>8, <2>12, <2>14, <2>15, <2>16, <2>17
  <2>19. QED
    BY <2>18 DEF gq
<1>3. S = Nat
  <2> HIDE DEF S
  <2>1. S \in SUBSET Nat
    BY DEF S
  <2>2. QED
    BY <1>1, <1>2, <2>1, AllNumbers
<1>4. P(n)
  BY <1>3
<1>5. QED
  BY <1>4

LEMMA Sorted ==
  ASSUME NEW b \in Seq(ServiceBinding)
  PROVE  LET s == SortPolicies(b)
         IN  /\ s \in Seq(ServiceBinding) /\ Len(s) = Len(b) /\ Len(b) \in Nat
             /\ PolicyBytes(s) = PolicyBytes(b) /\ PolicyBytes(b) \in Nat
             /\ PolicyBytes(b) >= 318
             /\ Duplicates(b) \/ \A i \in 2 .. Len(s) : Before(Key(s[i - 1]), Key(s[i]))
<1> DEFINE n == Len(b)
           s == SortPolicies(b)
           order == CHOOSE p \in Orders(n) : \A i, j \in 1 .. n :
                      i < j => ~BindingBefore(b[p[j]], b[p[i]])
<1>1. n \in Nat /\ b \in [1 .. n -> ServiceBinding] /\ DOMAIN b = 1 .. n
  BY LenProperties
<1>2. order \in Orders(n) /\ \A i, j \in 1 .. n :
        i < j => ~BindingBefore(b[order[j]], b[order[i]])
  <2>1. \E p \in Orders(n) : \A i, j \in 1 .. n : i < j => ~BindingBefore(b[p[j]], b[p[i]])
    <3> HIDE DEF n
    <3> QED
      BY <1>1, OrderExists DEF Sorts
  <2>2. QED
    BY <2>1
<1>3. s = [i \in 1 .. n |-> b[order[i]]]
  BY DEF SortPolicies
<1> HIDE DEF n, s, order
<1>4. /\ \A i \in 1 .. n : order[i] \in 1 .. n
      /\ \A i, j \in 1 .. n : order[i] = order[j] => i = j
  BY <1>2 DEF Orders
<1>5. /\ \A i \in 1 .. n : s[i] = b[order[i]] /\ s[i] \in ServiceBinding
      /\ s \in [1 .. n -> ServiceBinding]
  BY <1>1, <1>3, <1>4
<1>6. s \in Seq(ServiceBinding) /\ Len(s) = n
  <2>1. s \in Seq(ServiceBinding) /\ DOMAIN s = 1 .. n
    BY <1>1, <1>5
  <2>2. QED
    BY <1>1, <2>1, LenProperties
<1>7. PolicyBytes(s) = PolicyBytes(b) /\ PolicyBytes(b) \in Nat /\ PolicyBytes(b) >= 318
  <2> DEFINE f == [i \in 1 .. n |-> BindingBytes(b, i)]
             g == [i \in 1 .. n |-> f[order[i]]]
             h == [i \in 1 .. n |-> BindingBytes(s, i)]
  <2>1. f \in [1 .. n -> Nat]
    <3>1. ASSUME NEW i \in 1 .. n PROVE BindingBytes(b, i) \in Nat
      <4>1. b[i] \in ServiceBinding
        BY <1>1
      <4>2. Len(b[i].plugin) \in Nat /\ Len(b[i].service) \in Nat
        BY <4>1, BindingIs, StringIs
      <4> DEFINE x == Len(b[i].plugin)
                 y == Len(b[i].service)
      <4>3. BindingBytes(b, i) = 33 + x + y
        BY DEF BindingBytes
      <4>4. x \in Nat /\ y \in Nat
        BY <4>2
      <4> HIDE DEF x, y
      <4>5. QED
        BY <4>3, <4>4
    <3>2. QED
      BY <3>1
  <2>2. \A i \in 1 .. n : h[i] = g[i]
    <3>1. \A i \in 1 .. n : BindingBytes(s, i) = BindingBytes(b, order[i])
      BY <1>5 DEF BindingBytes
    <3>2. \A i \in 1 .. n : f[order[i]] = BindingBytes(b, order[i])
      BY <1>4
    <3>3. QED
      BY <3>1, <3>2
  <2>3. Total(g, n) = Total(f, n)
    <3> HIDE DEF f
    <3> QED
      BY <1>1, <1>2, <2>1, TotalOfOrder
  <2>4. Total(h, n) = Total(g, n)
    <3> HIDE DEF g, h
    <3> QED
      BY <1>1, <2>2, TotalSame
  <2>5. Total(f, n) \in Nat
    <3> HIDE DEF f
    <3> QED
      BY <1>1, <2>1, TotalType
  <2>6. PolicyBytes(b) = 318 + Total(f, n)
    BY DEF PolicyBytes, n
  <2>7. PolicyBytes(s) = 318 + Total(h, n)
    BY <1>6 DEF PolicyBytes
  <2> HIDE DEF f, g, h
  <2>8. QED
    BY <2>3, <2>4, <2>5, <2>6, <2>7
<1>8. ASSUME ~Duplicates(b), NEW i \in 2 .. n PROVE Before(Key(s[i - 1]), Key(s[i]))
  <2>1. i \in 1 .. n /\ i - 1 \in 1 .. n /\ i - 1 < i /\ i - 1 # i
    BY <1>1
  <2>2. ~BindingBefore(s[i], s[i - 1])
    BY <1>2, <1>5, <2>1
  <2>3. s[i - 1] # s[i]
    BY <1>1, <1>4, <1>5, <1>8, <2>1 DEF Duplicates
  <2>4. BindingBefore(s[i - 1], s[i])
    BY <1>5, <2>1, <2>2, <2>3, BindingOrder
  <2>5. QED
    BY <1>5, <2>1, <2>4, KeyOrder
<1>9. QED
  BY <1>1, <1>6, <1>7, <1>8 DEF n, s

\* A plugin has no more of the services than there are.
LEMMA ServicesBound ==
  ASSUME NEW b, NEW n \in Nat, DOMAIN b = 1 .. n
  PROVE  \A k \in ServicesOfOne(b) : k \in Nat /\ k <= n
<1> SUFFICES ASSUME NEW i \in 1 .. n
             PROVE  LET of == {j \in 1 .. n : b[j].plugin = b[i].plugin}
                    IN  Cardinality(of) \in Nat /\ Cardinality(of) <= n
  BY DEF ServicesOfOne
<1>1. IsFiniteSet(1 .. n) /\ Cardinality(1 .. n) = n
  BY FS_Interval
<1>2. QED
  BY <1>1, FS_Subset, FS_CardinalityType

LEMMA ProductGrows ==
  ASSUME NEW a \in Nat, NEW k \in Nat, NEW n \in Nat, k <= n
  PROVE  a * k \in Nat /\ a * n \in Nat /\ a * k <= a * n
<1>1. PICK d \in Nat : n = k + d
  <2>1. n - k \in Nat /\ n = k + (n - k)
    OBVIOUS
  <2>2. QED
    BY <2>1
<1>2. a * k \in Nat /\ a * d \in Nat /\ a * n = a * k + a * d
  BY <1>1
<1>3. QED
  BY <1>2

PoliciesInv ==
  /\ written \in Snapshots /\ refused \in BOOLEAN
  /\ document = IF stage = "written" THEN written
                ELSE [written EXCEPT !.bindings = SortPolicies(written.bindings)]
  /\ ~refused /\ stage \notin {"written", "sorted"} =>
       ValidatePolicyReconcileCommand(document) /\ FitsCommand(document)
  /\ SortedPoliciesApply

LEMMA PoliciesInvariance == PoliciesSpec => []PoliciesInv
<1>1. Written(Snapshots) => PoliciesInv
  BY DEF Written, PoliciesInv, SortedPoliciesApply
<1>2. PoliciesInv /\ [PoliciesNext]_paper => PoliciesInv'
  <2> SUFFICES ASSUME PoliciesInv, [PoliciesNext]_paper PROVE PoliciesInv'
    OBVIOUS
  <2> DEFINE b == written.bindings
             s == SortPolicies(b)
             sorted == [written EXCEPT !.bindings = s]
  <2>1. /\ written.policies \in Nat /\ written.addresses \in Nat /\ written.path = "policies"
        /\ b \in Seq(ServiceBinding)
    BY SnapshotAssumption DEF PoliciesInv, Snapshots
  <2>2. /\ sorted.bindings = s /\ sorted.policies = written.policies /\ sorted.path = "policies"
        /\ sorted.traffic = written.traffic /\ sorted.addresses = written.addresses
    BY <2>1 DEF PoliciesInv, Snapshots
  <2>3. /\ s \in Seq(ServiceBinding) /\ Len(s) = Len(b) /\ Len(b) \in Nat
        /\ PolicyBytes(s) = PolicyBytes(b) /\ PolicyBytes(b) \in Nat /\ PolicyBytes(b) >= 318
        /\ Duplicates(b) \/ \A i \in 2 .. Len(s) : Before(Key(s[i - 1]), Key(s[i]))
    BY <2>1, Sorted
  <2>4. document = IF stage = "written" THEN written ELSE sorted
    BY DEF PoliciesInv
  <2> HIDE DEF s, sorted, b
  <2>5. CASE Sort
    <3>1. /\ stage' = "sorted" /\ refused' = FALSE /\ written' = written /\ document' = sorted
      BY <2>5, <2>4 DEF Sort, PoliciesHop, Hop, sorted, s, b
    <3>2. SortedPoliciesApply'
      BY <3>1 DEF SortedPoliciesApply
    <3>3. QED
      BY <3>1, <3>2 DEF PoliciesInv, sorted, s, b
  <2>6. CASE NewPolicyReconcileCommand
    <3>1. /\ stage = "sorted" /\ document = sorted
          /\ stage' = "commanded" /\ written' = written /\ document' = sorted
          /\ refused' = ~(ValidatePolicyReconcileCommand(sorted) /\ FitsCommand(sorted))
      BY <2>4, <2>6 DEF NewPolicyReconcileCommand, PoliciesHop, Hop
    <3>2. ASSUME refused'
          PROVE  \/ Duplicates(b) \/ Len(b) > MaximumBindingsPerPolicy
                 \/ 36 + written.policies * PolicyBytes(b) > MaximumCommandPayloadBytes
      <4>1. CASE ~FitsCommand(sorted)
        <5>1. ~(36 + written.policies * PolicyBytes(b) <= MaximumCommandPayloadBytes)
          BY <2>2, <2>3, <4>1 DEF FitsCommand
        <5>2. written.policies * PolicyBytes(b) \in Nat
          BY <2>1, <2>3
        <5>3. QED
          BY <5>1, <5>2 DEF MaximumCommandPayloadBytes
      <4>2. CASE ~(written.policies <= MaximumPoliciesPerSnapshot)
        <5>1. written.policies * 318 <= written.policies * PolicyBytes(b)
          BY <2>1, <2>3, ProductGrows
        <5>2. written.policies > 4096
          BY <2>1, <4>2 DEF MaximumPoliciesPerSnapshot
        <5>3. written.policies * PolicyBytes(b) \in Nat
          BY <2>1, <2>3
        <5>4. QED
          BY <2>1, <5>1, <5>2, <5>3 DEF MaximumCommandPayloadBytes
      <4>3. CASE ~ValidateAuthorizationPolicy(s)
        BY <2>3, <4>3 DEF ValidateAuthorizationPolicy, MaximumBindingsPerPolicy
      <4>4. QED
        BY <2>2, <3>1, <3>2, <4>1, <4>2, <4>3 DEF ValidatePolicyReconcileCommand
    <3>3. SortedPoliciesApply'
      BY <3>1, <3>2 DEF SortedPoliciesApply, b
    <3>4. QED
      BY <3>1, <3>3 DEF PoliciesInv, sorted, s, b
  <2>7. CASE DecodePolicyReconcileCommand \/ PolicyReconcileOutput
    <3>1. /\ ~refused /\ stage \in {"commanded", "decoded"} /\ document = sorted
          /\ ValidatePolicyReconcileCommand(sorted) /\ FitsCommand(sorted)
          /\ stage' \in {"decoded", "inforce"} /\ written' = written /\ document' = sorted
      BY <2>4, <2>7 DEF DecodePolicyReconcileCommand, PolicyReconcileOutput, PoliciesHop, Hop,
         PoliciesInv
    <3>2. refused' = FALSE
      BY <2>7, <3>1 DEF DecodePolicyReconcileCommand, PolicyReconcileOutput, PoliciesHop, Hop,
         ValidatePolicyReconcileCommand
    <3>3. SortedPoliciesApply'
      BY <3>2 DEF SortedPoliciesApply
    <3>4. QED
      BY <3>1, <3>2, <3>3 DEF PoliciesInv, sorted, s, b
  <2>8. \A k \in ServicesOfOne(s) : k \in Nat /\ k <= Len(b)
    BY <2>3, LenProperties, ServicesBound
  <2>9. CASE CollectTelemetry
    <3>1. /\ ~refused /\ stage = "inforce" /\ document = sorted
          /\ ValidatePolicyReconcileCommand(sorted) /\ FitsCommand(sorted)
          /\ stage' = "counted" /\ written' = written /\ document' = sorted
          /\ refused' = ~(\A k \in ServicesOfOne(sorted.bindings) :
                            sorted.policies * k <= MaximumTrafficCounters)
      BY <2>4, <2>9 DEF CollectTelemetry, PoliciesHop, Hop, PoliciesInv
    <3>2. ASSUME refused' PROVE written.policies * Len(b) > MaximumTrafficCounters
      <4>1. PICK k \in ServicesOfOne(s) : ~(written.policies * k <= MaximumTrafficCounters)
        BY <2>2, <3>1, <3>2
      <4>2. /\ written.policies * k \in Nat /\ written.policies * Len(b) \in Nat
            /\ written.policies * k <= written.policies * Len(b)
        BY <2>1, <2>3, <2>8, ProductGrows
      <4>3. QED
        BY <4>1, <4>2 DEF MaximumTrafficCounters
    <3>3. SortedPoliciesApply'
      BY <3>1, <3>2 DEF SortedPoliciesApply, b
    <3>4. QED
      BY <3>1, <3>3 DEF PoliciesInv, sorted, s, b
  <2>10. CASE TrafficSnapshotEvent \/ PolicyStatusEvent
    <3>1. /\ ~refused /\ stage = "counted" /\ document = sorted
          /\ ValidatePolicyReconcileCommand(sorted) /\ FitsCommand(sorted)
          /\ stage' \in {"accounted", "stated"} /\ written' = written /\ document' = sorted
          /\ refused' = ~FitsInt64(written.traffic)
      BY <2>2, <2>4, <2>10 DEF TrafficSnapshotEvent, PolicyStatusEvent, PoliciesHop, Hop, PoliciesInv
    <3>2. SortedPoliciesApply'
      BY <3>1 DEF SortedPoliciesApply
    <3>3. QED
      BY <3>1, <3>2 DEF PoliciesInv, sorted, s, b
  <2>11. CASE ReplaceDynamicBlocksRequest
    <3>1. /\ ~refused /\ stage = "counted" /\ document = sorted
          /\ ValidatePolicyReconcileCommand(sorted) /\ FitsCommand(sorted)
          /\ stage' = "blocked" /\ written' = written /\ document' = sorted
          /\ refused' = ~(\A k \in ServicesOfOne(sorted.bindings) :
                            sorted.policies * k * sorted.addresses <= MaximumDynamicBlocks)
      BY <2>4, <2>11 DEF ReplaceDynamicBlocksRequest, PoliciesHop, Hop, PoliciesInv
    <3>2. ASSUME refused'
          PROVE  written.policies * Len(b) * written.addresses > MaximumDynamicBlocks
      <4>1. PICK k \in ServicesOfOne(s) :
              ~(written.policies * k * written.addresses <= MaximumDynamicBlocks)
        BY <2>2, <3>1, <3>2
      <4> DEFINE one == written.policies * k
                 all == written.policies * Len(b)
      <4>2. one \in Nat /\ all \in Nat /\ one <= all
        BY <2>1, <2>3, <2>8, ProductGrows
      <4> HIDE DEF one, all
      <4>3. /\ written.addresses * one \in Nat /\ written.addresses * all \in Nat
            /\ written.addresses * one <= written.addresses * all
        BY <2>1, <4>2, ProductGrows
      <4>4. one * written.addresses = written.addresses * one
            /\ all * written.addresses = written.addresses * all
        BY <2>1, <4>2
      <4>5. ~(one * written.addresses <= MaximumDynamicBlocks)
        BY <4>1 DEF one
      <4>6. all * written.addresses > MaximumDynamicBlocks
        BY <4>3, <4>4, <4>5 DEF MaximumDynamicBlocks
      <4>7. QED
        BY <4>6 DEF all
    <3>3. SortedPoliciesApply'
      BY <3>1, <3>2 DEF SortedPoliciesApply, b
    <3>4. QED
      BY <3>1, <3>3 DEF PoliciesInv, sorted, s, b
  <2>12. CASE UNCHANGED paper
    BY <2>12 DEF paper, PoliciesInv, SortedPoliciesApply
  <2>13. QED
    BY <2>5, <2>6, <2>7, <2>9, <2>10, <2>11, <2>12 DEF PoliciesNext
<1>3. QED
  BY <1>1, <1>2, PTL DEF PoliciesSpec

\* Whatever policies a center sorts, it and the Agent refuse them only for a
\* binding that is in them twice or for their number or length, and later only
\* a report of them is refused that would be too large (SortPolicies,
\* ValidatePolicyReconcileCommand and the validators of what follows from it).
THEOREM PoliciesApply == PoliciesSpec => []SortedPoliciesApply
<1>1. PoliciesInv => SortedPoliciesApply
  BY DEF PoliciesInv
<1>2. QED
  BY <1>1, PoliciesInvariance, PTL

=============================================================================
