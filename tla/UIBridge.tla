------------------------------ MODULE UIBridge ------------------------------
(***************************************************************************)
(* The client side of the plugin UI bridge: createRelaywardUIClient in     *)
(* ui/src/index.ts.                                                        *)
(*                                                                         *)
(* One client lives on one JavaScript thread.  A call runs synchronously   *)
(* up to the end of transport.send, but it hands control to code it does   *)
(* not know twice: JSON.stringify runs the toJSON methods and getters of   *)
(* the payload, and transport.send is supplied by the user.  That code may *)
(* call the client again, so the calls in progress form a stack (running   *)
(* and caller).  Responses and timers come from the event loop, in any     *)
(* order, late, twice, or never; a transport that answers synchronously    *)
(* delivers inside a call.                                                 *)
(***************************************************************************)
EXTENDS Naturals, FiniteSets

CONSTANTS Calls,     \* invocations of context(), rpc(), navigate(), confirm()
          NoCall,    \* no invocation
          MethodOf,  \* the method each invocation calls
          SizeOf,    \* the lengths each payload's JSON text may have: its
                     \* own code can decide about it
          MaximumUIJSONBytes,
          Throws     \* the transport functions that may throw

BridgeMethods == {"context", "rpc", "navigate", "confirm"}

\* Results of a call.  "none" is the state of a promise that is not settled.
Refusals == {"invalid_argument", "client_disposed"}
Answers  == {"resolved", "problem", "invalid_result"}
Failures == {"not_serializable", "too_large", "send_failed", "timed_out",
             "disposed"}
Outcomes == {"none"} \cup Refusals \cup Answers \cup Failures

ASSUME CallsAssumption   == NoCall \notin Calls
ASSUME MethodAssumption  == MethodOf \in [Calls -> BridgeMethods]
ASSUME SizeAssumption    ==
  /\ MaximumUIJSONBytes \in Nat
  /\ SizeOf \in [Calls -> SUBSET Nat]
ASSUME ThrowsAssumption  == Throws \subseteq {"send", "unsubscribe"}

VARIABLES
  disposed,    \* the client's flag
  subscribed,  \* the listener is attached to the transport
  sequence,    \* the counter the request ids are made from
  pending,     \* the Map: pairs <<id, call>>
  timer,       \* calls whose setTimeout is armed
  phase,       \* how far the synchronous part of each call has come
  running,     \* the call at the top of the JavaScript stack
  caller,      \* the call below it, for each call on the stack
  requestId,   \* the id of each registered call, 0 before it has one
  outcome,     \* what each call's promise settled with
  sent,        \* calls whose request was handed to the transport
  answeredBy   \* history: the request whose answer settled the call

client == <<disposed, subscribed, sequence, pending, timer>>
stack  == <<phase, running, caller>>
vars   == <<client, stack, requestId, outcome, sent, answeredBy>>

Phases == {"idle", "normalizing", "sending", "returned"}

TypeOK ==
  /\ disposed \in BOOLEAN
  /\ subscribed \in BOOLEAN
  /\ sequence \in Nat
  /\ pending \subseteq Nat \X Calls
  /\ timer \subseteq Calls
  /\ phase \in [Calls -> Phases]
  /\ running \in Calls \cup {NoCall}
  /\ caller \in [Calls -> Calls \cup {NoCall}]
  /\ requestId \in [Calls -> Nat]
  /\ outcome \in [Calls -> Outcomes]
  /\ sent \subseteq Calls
  /\ answeredBy \in [Calls -> Calls \cup {NoCall}]

Init ==
  /\ disposed = FALSE
  /\ subscribed = TRUE
  /\ sequence = 0
  /\ pending = {}
  /\ timer = {}
  /\ phase = [c \in Calls |-> "idle"]
  /\ running = NoCall
  /\ caller = [c \in Calls |-> NoCall]
  /\ requestId = [c \in Calls |-> 0]
  /\ outcome = [c \in Calls |-> "none"]
  /\ sent = {}
  /\ answeredBy = [c \in Calls |-> NoCall]

-----------------------------------------------------------------------------
(* The pending map and the promises.                                       *)

IdOf(entry)   == entry[1]
CallOf(entry) == entry[2]

WithoutId(map, id) == {entry \in map : IdOf(entry) # id}

SetEntry(map, id, c) == WithoutId(map, id) \cup {<<id, c>>}

InMap(c) == \E entry \in pending : CallOf(entry) = c

\* Fault: the entry stays in the map.
KeepEntry(id) == UNCHANGED pending

RemoveEntry(id) == pending' = WithoutId(pending, id)

ClearTimer(c) == timer' = timer \ {c}

\* Fault: a later result overwrites the first.
SettleAgain(c, result) == outcome' = [outcome EXCEPT ![c] = result]

\* A promise keeps the first result it is given.
Settle(c, result) ==
  outcome' = [outcome EXCEPT ![c] = IF @ = "none" THEN result ELSE @]

\* The synchronous part of c ends: control goes back to its caller.
Return(c) ==
  /\ running' = caller[c]
  /\ phase' = [phase EXCEPT ![c] = "returned"]
  /\ UNCHANGED caller

-----------------------------------------------------------------------------
(* A call, made by the event loop or by the code that runs inside the      *)
(* running call.                                                           *)

\* rpc and navigate check their argument before anything else.
RejectArgument(c) ==
  /\ phase[c] = "idle"
  /\ MethodOf[c] \in {"rpc", "navigate"}
  /\ phase' = [phase EXCEPT ![c] = "returned"]
  /\ Settle(c, "invalid_argument")
  /\ UNCHANGED <<client, running, caller, requestId, sent, answeredBy>>

RejectDisposed(c) ==
  /\ phase[c] = "idle"
  /\ disposed
  /\ phase' = [phase EXCEPT ![c] = "returned"]
  /\ Settle(c, "client_disposed")
  /\ UNCHANGED <<client, running, caller, requestId, sent, answeredBy>>

Open == ~disposed

Begin(c) ==
  /\ phase[c] = "idle"
  /\ Open
  /\ phase' = [phase EXCEPT ![c] = "normalizing"]
  /\ caller' = [caller EXCEPT ![c] = running]
  /\ running' = c
  /\ UNCHANGED <<client, requestId, outcome, sent, answeredBy>>

\* JSON.stringify throws: a cycle, a BigInt, or the payload's own code.
NotSerializable(c) ==
  /\ running = c
  /\ phase[c] = "normalizing"
  /\ Return(c)
  /\ Settle(c, "not_serializable")
  /\ UNCHANGED <<client, requestId, sent, answeredBy>>

\* normalizeJSON measures the text in UTF-16 code units, not in bytes.
FitsUI(size) == size <= MaximumUIJSONBytes

TooLarge(c) ==
  /\ running = c
  /\ phase[c] = "normalizing"
  /\ \E size \in SizeOf[c] : ~FitsUI(size)
  /\ Return(c)
  /\ Settle(c, "too_large")
  /\ UNCHANGED <<client, requestId, sent, answeredBy>>

\* Fault: ids are made from the number of pending calls.
PendingCountId == Cardinality(pending) + 1

\* The id also holds the clock, but the counter alone tells the requests of
\* one client apart.
NextId == sequence + 1

\* The disposed flag is not read again.
Register(c) ==
  /\ running = c
  /\ phase[c] = "normalizing"
  /\ \E size \in SizeOf[c] : FitsUI(size)
  /\ sequence' = NextId
  /\ requestId' = [requestId EXCEPT ![c] = NextId]
  /\ timer' = timer \cup {c}
  /\ pending' = SetEntry(pending, NextId, c)
  /\ sent' = sent \cup {c}
  /\ phase' = [phase EXCEPT ![c] = "sending"]
  /\ UNCHANGED <<disposed, subscribed, running, caller, outcome, answeredBy>>

SendReturns(c) ==
  /\ running = c
  /\ phase[c] = "sending"
  /\ Return(c)
  /\ UNCHANGED <<client, requestId, outcome, sent, answeredBy>>

SendThrows(c) ==
  /\ "send" \in Throws
  /\ running = c
  /\ phase[c] = "sending"
  /\ ClearTimer(c)
  /\ RemoveEntry(requestId[c])
  /\ Settle(c, "send_failed")
  /\ Return(c)
  /\ UNCHANGED <<disposed, subscribed, sequence, requestId, sent, answeredBy>>

-----------------------------------------------------------------------------
(* Messages.  The host may answer a request it was sent any number of      *)
(* times, at any time.  A message that fails isPluginUIResponse, or whose  *)
(* id is not in the map, changes nothing.                                  *)

\* "bad_value" is a well-formed ok response whose result is not what the
\* method must return; "malformed" fails isPluginUIResponse.
Responses == {"ok", "bad_value", "problem", "malformed"}

IsPluginUIResponse(response) == response # "malformed"

\* context() and confirm() check the value they were resolved with.
ResultOf(c, response) ==
  CASE response = "problem" -> "problem"
    [] response = "bad_value" /\ MethodOf[c] \in {"context", "confirm"} ->
         "invalid_result"
    [] OTHER -> "resolved"

\* The host answers the request of d, from the event loop or through a transport
\* that the code inside a call has deliver at once; the client looks for a call
\* under that request's id.
Deliver(d, response) ==
  /\ subscribed
  /\ d \in sent
  /\ IsPluginUIResponse(response)
  /\ \E entry \in pending :
       /\ IdOf(entry) = requestId[d]
       /\ RemoveEntry(IdOf(entry))
       /\ ClearTimer(CallOf(entry))
       /\ Settle(CallOf(entry), ResultOf(CallOf(entry), response))
       /\ answeredBy' = [answeredBy EXCEPT ![CallOf(entry)] = d]
  /\ UNCHANGED <<disposed, subscribed, sequence, stack, requestId, sent>>

\* Timers run from the event loop only, when the stack is empty.
TimerFires(c) ==
  /\ running = NoCall
  /\ c \in timer
  /\ ClearTimer(c)
  /\ RemoveEntry(requestId[c])
  /\ Settle(c, "timed_out")
  /\ UNCHANGED <<disposed, subscribed, sequence, stack, requestId, sent,
                 answeredBy>>

-----------------------------------------------------------------------------
(* dispose(), from the event loop or from the code inside a call.          *)

Unsubscribe == subscribed' = FALSE

\* Fault: the pending calls are dropped and not rejected.
ForgetPending == UNCHANGED outcome

RejectPending ==
  outcome' = [c \in Calls |->
                IF InMap(c) /\ outcome[c] = "none" THEN "disposed"
                                                   ELSE outcome[c]]

Dispose ==
  /\ ~disposed
  /\ disposed' = TRUE
  /\ Unsubscribe
  /\ timer' = {c \in timer : ~InMap(c)}
  /\ RejectPending
  /\ pending' = {}
  /\ UNCHANGED <<sequence, stack, requestId, sent, answeredBy>>

\* unsubscribe() throws, before or after it has detached the listener: the flag
\* is set, the rest of dispose is skipped, and a second dispose() returns at once.
DisposeThrows ==
  /\ "unsubscribe" \in Throws
  /\ ~disposed
  /\ disposed' = TRUE
  /\ subscribed' \in BOOLEAN
  /\ UNCHANGED <<sequence, pending, timer, stack, requestId, outcome, sent,
                 answeredBy>>

-----------------------------------------------------------------------------
CallStep(c) ==
  \/ RejectArgument(c) \/ RejectDisposed(c) \/ Begin(c)
  \/ NotSerializable(c) \/ TooLarge(c) \/ Register(c)
  \/ SendReturns(c) \/ SendThrows(c)

Next ==
  \/ \E c \in Calls : CallStep(c) \/ TimerFires(c)
  \/ \E d \in Calls, response \in Responses : Deliver(d, response)
  \/ Dispose \/ DisposeThrows

Spec == Init /\ [][Next]_vars

\* The code inside a call returns or throws, and an armed timer fires once
\* the stack is empty.  Nothing is assumed of the host.
Fairness ==
  \A c \in Calls :
    /\ WF_vars(NotSerializable(c) \/ TooLarge(c) \/ Register(c))
    /\ WF_vars(SendReturns(c) \/ SendThrows(c))
    /\ WF_vars(TimerFires(c))

FairSpec == Spec /\ Fairness

-----------------------------------------------------------------------------
(* Properties                                                              *)

\* The map holds exactly the registered calls whose promise is still open:
\* no entry outlives its call, and no open call is forgotten.  Every path
\* that settles a call - answer, timeout, failed send, dispose - must also
\* clear its entry, whichever of them comes first.
PendingIffUnsettled ==
  \A c \in Calls : InMap(c) <=> requestId[c] # 0 /\ outcome[c] = "none"

\* A timer is armed for exactly the calls in the map: none is left behind to
\* fire later, and no open call is without the timer that ends its wait.
TimerIffPending == \A c \in Calls : c \in timer <=> InMap(c)

\* The map, the timers and the promises stay together, whichever of an answer,
\* a timeout, a failed send and dispose comes first.
MapMatchesPromises == PendingIffUnsettled /\ TimerIffPending

\* No two registered calls share a request id, however the calls nest.
UniqueIds ==
  \A c, d \in Calls : requestId[c] # 0 /\ requestId[c] = requestId[d] => c = d

\* A call is settled only by an answer to its own request, whatever the host
\* sends late, twice or out of order.
RightAnswer == \A c \in Calls : answeredBy[c] \in {NoCall, c}

\* Every call that is made is settled, even if the host never answers.
EveryCallSettles ==
  \A c \in Calls : phase[c] # "idle" ~> outcome[c] # "none"

\* The client implements the contract of its calls.
ContractResult ==
  [c \in Calls |-> IF outcome[c] # "none" THEN outcome[c]
                   ELSE IF phase[c] = "idle" THEN "unissued" ELSE "open"]

Contract == INSTANCE CallContract WITH
  result <- ContractResult, accepting <- ~disposed, listening <- subscribed

ImplementsContract == Contract!Spec

=============================================================================
