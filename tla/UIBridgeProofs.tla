--------------------------- MODULE UIBridgeProofs ---------------------------
(***************************************************************************)
(* Proofs about UIBridge, for any set of calls, any payload sizes and any  *)
(* transport: the type invariant, the four safety invariants and the       *)
(* refinement of CallContract.                                             *)
(*                                                                         *)
(* The safety invariants are not inductive one by one.  A timer, a failed  *)
(* send and a response find the call by its id, so all of them rest on the *)
(* map holding <<requestId[c], c>> and nothing else for a call c           *)
(* (EntriesOwned), on ids being handed out in increasing order             *)
(* (IdsIssued), and on when in its life a call gets its id (Progress).     *)
(***************************************************************************)
EXTENDS UIBridge, TLAPS

EntriesOwned ==
  \A entry \in pending :
    /\ IdOf(entry) # 0
    /\ IdOf(entry) = requestId[CallOf(entry)]

IdsIssued == \A c \in Calls : requestId[c] <= sequence

Progress ==
  \A c \in Calls :
    /\ phase[c] \in {"idle", "normalizing"} =>
         requestId[c] = 0 /\ outcome[c] = "none"
    /\ phase[c] = "sending" => requestId[c] # 0
    /\ c \in sent <=> requestId[c] # 0

IInv ==
  /\ TypeOK
  /\ EntriesOwned
  /\ IdsIssued
  /\ Progress
  /\ UniqueIds
  /\ PendingIffUnsettled
  /\ TimerIffPending
  /\ RightAnswer

\* One-line abbreviations of the client's effects, always expanded.
USE DEF RemoveEntry, ClearTimer, Open, Unsubscribe, RejectPending

-----------------------------------------------------------------------------
(* The map.                                                                *)

\* Removing the entry of a call by its id removes that call and no other.
LEMMA RemoveOwnEntry ==
  ASSUME IInv, NEW c \in Calls, requestId[c] # 0,
         pending' = WithoutId(pending, requestId[c])
  PROVE  /\ ~InMap(c)'
         /\ \A d \in Calls \ {c} : InMap(d)' <=> InMap(d)
<1>1. ASSUME InMap(c)' PROVE FALSE
  BY <1>1 DEF InMap, WithoutId, IInv, EntriesOwned, IdOf, CallOf
<1>2. ASSUME NEW d \in Calls \ {c} PROVE InMap(d)' <=> InMap(d)
  BY DEF InMap, WithoutId, IInv, EntriesOwned, UniqueIds, TypeOK, IdOf, CallOf
<1>3. QED
  BY <1>1, <1>2

\* Every entry of the map is that of a call, under that call's id.
LEMMA EntryShape ==
  ASSUME IInv, NEW entry \in pending
  PROVE  /\ CallOf(entry) \in Calls
         /\ IdOf(entry) = requestId[CallOf(entry)]
         /\ requestId[CallOf(entry)] # 0
         /\ InMap(CallOf(entry))
BY DEF IInv, EntriesOwned, TypeOK, InMap, IdOf, CallOf

-----------------------------------------------------------------------------
LEMMA InitIInv == Init => IInv
<1> SUFFICES ASSUME Init PROVE IInv
  OBVIOUS
<1>1. TypeOK
  BY DEF Init, TypeOK, Phases, Outcomes
<1>2. EntriesOwned /\ IdsIssued /\ Progress /\ UniqueIds /\ RightAnswer
  BY DEF Init, EntriesOwned, IdsIssued, Progress, UniqueIds, RightAnswer
<1>3. PendingIffUnsettled /\ TimerIffPending
  BY DEF Init, PendingIffUnsettled, TimerIffPending, InMap
<1>4. QED
  BY <1>1, <1>2, <1>3 DEF IInv

\* The steps that leave the map, the ids and the timers alone.
LEMMA RefuseStep ==
  ASSUME IInv, NEW c \in Calls, RejectArgument(c) \/ RejectDisposed(c)
  PROVE  IInv'
BY DEF IInv, RejectArgument, RejectDisposed, client, Settle, TypeOK, Phases,
       Outcomes, Refusals, EntriesOwned, IdsIssued, Progress, UniqueIds,
       PendingIffUnsettled, TimerIffPending, RightAnswer, InMap

LEMMA BeginStep ==
  ASSUME IInv, NEW c \in Calls, Begin(c)
  PROVE  IInv'
BY DEF IInv, Begin, client, TypeOK, Phases, EntriesOwned, IdsIssued, Progress,
       UniqueIds, PendingIffUnsettled, TimerIffPending, RightAnswer, InMap

LEMMA NormalizeFailsStep ==
  ASSUME IInv, NEW c \in Calls, NotSerializable(c) \/ TooLarge(c)
  PROVE  IInv'
BY DEF IInv, NotSerializable, TooLarge, Return, client, Settle, TypeOK, Phases,
       Outcomes, Failures, EntriesOwned, IdsIssued, Progress, UniqueIds,
       PendingIffUnsettled, TimerIffPending, RightAnswer, InMap

LEMMA SendReturnsStep ==
  ASSUME IInv, NEW c \in Calls, SendReturns(c)
  PROVE  IInv'
BY DEF IInv, SendReturns, Return, client, TypeOK, Phases, EntriesOwned,
       IdsIssued, Progress, UniqueIds, PendingIffUnsettled, TimerIffPending,
       RightAnswer, InMap

-----------------------------------------------------------------------------
(* A registered call gets a fresh id, so no entry is overwritten.          *)

LEMMA RegisterStep ==
  ASSUME IInv, NEW c \in Calls, Register(c)
  PROVE  IInv'
<1> DEFINE id == sequence + 1
<1>1. /\ id \in Nat /\ id # 0
      /\ requestId' = [requestId EXCEPT ![c] = id]
      /\ sequence' = id
      /\ phase' = [phase EXCEPT ![c] = "sending"]
      /\ timer' = timer \cup {c}
      /\ sent' = sent \cup {c}
      /\ UNCHANGED <<disposed, subscribed, running, caller, outcome, answeredBy>>
  BY DEF Register, NextId, IInv, TypeOK
<1>2. requestId[c] = 0 /\ outcome[c] = "none"
  BY DEF Register, IInv, Progress
<1>3. \A d \in Calls : requestId[d] \in Nat /\ requestId[d] < id
  BY DEF IInv, IdsIssued, TypeOK
<1>4. pending' = pending \cup {<<id, c>>}
  <2>1. pending' = SetEntry(pending, id, c)
    BY <1>1 DEF Register, NextId
  <2>2. \A entry \in pending : IdOf(entry) # id
    BY <1>3, EntryShape DEF IInv, TypeOK
  <2>3. QED
    BY <2>1, <2>2 DEF SetEntry, WithoutId
<1>5. \A d \in Calls : InMap(d)' <=> InMap(d) \/ d = c
  <2>1. CallOf(<<id, c>>) = c
    BY DEF CallOf
  <2>2. QED
    BY <1>4, <2>1 DEF InMap
<1>6. TypeOK'
  BY <1>1, <1>4 DEF IInv, TypeOK, Phases
<1>7. EntriesOwned'
  <2>1. ~InMap(c)
    BY <1>2 DEF IInv, PendingIffUnsettled
  <2>2. \A entry \in pending : CallOf(entry) # c
    BY <2>1 DEF InMap
  <2>3. \A entry \in pending : CallOf(entry) \in Calls
    BY EntryShape
  <2>4. QED
    BY <1>1, <1>4, <2>2, <2>3
       DEF IInv, EntriesOwned, TypeOK, IdOf, CallOf
<1>8. IdsIssued' /\ UniqueIds'
  BY <1>1, <1>3 DEF IInv, IdsIssued, UniqueIds, TypeOK
<1>9. Progress'
  BY <1>1, <1>2 DEF IInv, Progress, TypeOK, Register
<1>10. PendingIffUnsettled' /\ TimerIffPending'
  BY <1>1, <1>2, <1>5 DEF IInv, PendingIffUnsettled, TimerIffPending, TypeOK
<1>11. RightAnswer'
  BY <1>1 DEF IInv, RightAnswer
<1>12. QED
  BY <1>6, <1>7, <1>8, <1>9, <1>10, <1>11 DEF IInv

-----------------------------------------------------------------------------
(* The steps that settle a registered call remove its entry and its timer. *)

\* What such a step leaves of the map, and what it does to the call it settles.
LEMMA SettleStep ==
  ASSUME IInv, NEW c \in Calls, requestId[c] # 0,
         NEW result \in Outcomes \ {"none"}, Settle(c, result),
         pending' = WithoutId(pending, requestId[c]), timer' = timer \ {c},
         UNCHANGED <<sequence, requestId, sent>>
  PROVE  /\ EntriesOwned' /\ IdsIssued' /\ UniqueIds'
         /\ PendingIffUnsettled' /\ TimerIffPending'
         /\ pending' \subseteq pending
         /\ outcome' \in [Calls -> Outcomes]
         /\ \A d \in Calls \ {c} : outcome'[d] = outcome[d]
<1>1. /\ ~InMap(c)'
      /\ \A d \in Calls \ {c} : InMap(d)' <=> InMap(d)
  BY RemoveOwnEntry
<1>2. /\ outcome' \in [Calls -> Outcomes]
      /\ outcome'[c] # "none"
      /\ \A d \in Calls \ {c} : outcome'[d] = outcome[d]
  BY DEF Settle, IInv, TypeOK
<1>3. EntriesOwned' /\ IdsIssued' /\ UniqueIds' /\ pending' \subseteq pending
  BY DEF IInv, EntriesOwned, IdsIssued, UniqueIds, WithoutId
<1>4. PendingIffUnsettled' /\ TimerIffPending'
  BY <1>1, <1>2 DEF IInv, PendingIffUnsettled, TimerIffPending
<1>5. QED
  BY <1>2, <1>3, <1>4

LEMMA SendThrowsStep ==
  ASSUME IInv, NEW c \in Calls, SendThrows(c)
  PROVE  IInv'
<1>1. requestId[c] # 0
  BY DEF SendThrows, IInv, Progress
<1>2. "send_failed" \in Outcomes \ {"none"}
  BY DEF Outcomes, Failures
<1>3. /\ EntriesOwned' /\ IdsIssued' /\ UniqueIds'
      /\ PendingIffUnsettled' /\ TimerIffPending'
      /\ pending' \subseteq pending
      /\ outcome' \in [Calls -> Outcomes]
      /\ \A d \in Calls \ {c} : outcome'[d] = outcome[d]
  BY <1>1, <1>2, SettleStep DEF SendThrows
<1>4. TypeOK'
  BY <1>3 DEF IInv, TypeOK, SendThrows, Return, Phases
<1>5. Progress'
  BY <1>3, <1>1 DEF IInv, TypeOK, Progress, SendThrows, Return
<1>6. RightAnswer'
  BY DEF IInv, RightAnswer, SendThrows
<1>7. QED
  BY <1>3, <1>4, <1>5, <1>6 DEF IInv

LEMMA TimerStep ==
  ASSUME IInv, NEW c \in Calls, TimerFires(c)
  PROVE  IInv'
<1>1. requestId[c] # 0
  BY DEF TimerFires, IInv, TimerIffPending, PendingIffUnsettled
<1>2. "timed_out" \in Outcomes \ {"none"}
  BY DEF Outcomes, Failures
<1>3. /\ EntriesOwned' /\ IdsIssued' /\ UniqueIds'
      /\ PendingIffUnsettled' /\ TimerIffPending'
      /\ pending' \subseteq pending
      /\ outcome' \in [Calls -> Outcomes]
      /\ \A d \in Calls \ {c} : outcome'[d] = outcome[d]
  BY <1>1, <1>2, SettleStep DEF TimerFires
<1>4. TypeOK'
  BY <1>3 DEF IInv, TypeOK, TimerFires, stack
<1>5. Progress'
  BY <1>3, <1>1 DEF IInv, TypeOK, Progress, TimerFires, stack
<1>6. RightAnswer'
  BY DEF IInv, RightAnswer, TimerFires
<1>7. QED
  BY <1>3, <1>4, <1>5, <1>6 DEF IInv

\* The response finds the entry of the very call it answers, because the two
\* have the same id.
LEMMA DeliverFindsItsCall ==
  ASSUME IInv, NEW d \in Calls, NEW entry \in pending,
         IdOf(entry) = requestId[d]
  PROVE  CallOf(entry) = d
BY EntryShape DEF IInv, UniqueIds

LEMMA DeliverStep ==
  ASSUME IInv, NEW d \in Calls, NEW response \in Responses, Deliver(d, response)
  PROVE  IInv'
<1>1. PICK entry \in pending :
        /\ IdOf(entry) = requestId[d]
        /\ pending' = WithoutId(pending, IdOf(entry))
        /\ timer' = timer \ {CallOf(entry)}
        /\ Settle(CallOf(entry), ResultOf(CallOf(entry), response))
        /\ answeredBy' = [answeredBy EXCEPT ![CallOf(entry)] = d]
  BY DEF Deliver
<1>2. CallOf(entry) = d
  BY <1>1, DeliverFindsItsCall
<1>3. requestId[d] # 0
  BY <1>2, EntryShape
<1>4. ResultOf(d, response) \in Outcomes \ {"none"}
  BY DEF ResultOf, Outcomes, Answers
<1>5. /\ EntriesOwned' /\ IdsIssued' /\ UniqueIds'
      /\ PendingIffUnsettled' /\ TimerIffPending'
      /\ pending' \subseteq pending
      /\ outcome' \in [Calls -> Outcomes]
      /\ \A c \in Calls \ {d} : outcome'[c] = outcome[c]
  BY <1>1, <1>2, <1>3, <1>4, SettleStep DEF Deliver
<1>6. TypeOK'
  BY <1>1, <1>2, <1>5 DEF IInv, TypeOK, Deliver, stack
<1>7. Progress'
  BY <1>3, <1>5 DEF IInv, TypeOK, Progress, Deliver, stack
<1>8. RightAnswer'
  BY <1>1, <1>2 DEF IInv, TypeOK, RightAnswer
<1>9. QED
  BY <1>5, <1>6, <1>7, <1>8 DEF IInv

LEMMA DisposeStep ==
  ASSUME IInv, Dispose
  PROVE  IInv'
<1>1. \A c \in Calls : ~InMap(c)'
  BY DEF Dispose, InMap
<1>2. /\ outcome' \in [Calls -> Outcomes]
      /\ \A c \in Calls : ~InMap(c) => outcome'[c] = outcome[c]
      /\ \A c \in Calls : InMap(c) => outcome'[c] # "none"
  BY DEF Dispose, IInv, TypeOK, Outcomes, Failures
<1>3. TypeOK'
  BY <1>2 DEF IInv, TypeOK, Dispose, stack
<1>4. EntriesOwned' /\ IdsIssued' /\ UniqueIds' /\ RightAnswer'
  BY DEF IInv, EntriesOwned, IdsIssued, UniqueIds, RightAnswer, Dispose
<1>5. Progress'
  BY <1>2 DEF IInv, Progress, PendingIffUnsettled, Dispose, stack
<1>6. PendingIffUnsettled'
  BY <1>1, <1>2 DEF IInv, PendingIffUnsettled, Dispose
<1>7. TimerIffPending'
  BY <1>1 DEF IInv, TimerIffPending, Dispose
<1>8. QED
  BY <1>3, <1>4, <1>5, <1>6, <1>7 DEF IInv

LEMMA UnchangedStep ==
  ASSUME IInv, DisposeThrows \/ UNCHANGED vars
  PROVE  IInv'
<1>1. /\ UNCHANGED <<sequence, pending, timer, stack, requestId, outcome, sent,
                     answeredBy>>
      /\ disposed' \in BOOLEAN /\ subscribed' \in BOOLEAN
  BY DEF DisposeThrows, vars, client, IInv, TypeOK
<1>2. TypeOK'
  BY <1>1 DEF IInv, TypeOK, stack
<1>3. EntriesOwned' /\ IdsIssued' /\ Progress' /\ UniqueIds' /\ RightAnswer'
  BY <1>1 DEF IInv, stack, EntriesOwned, IdsIssued, Progress, UniqueIds,
              RightAnswer
<1>4. PendingIffUnsettled' /\ TimerIffPending'
  BY <1>1 DEF IInv, PendingIffUnsettled, TimerIffPending, InMap
<1>5. QED
  BY <1>2, <1>3, <1>4 DEF IInv

-----------------------------------------------------------------------------
LEMMA NextIInv == IInv /\ [Next]_vars => IInv'
<1> SUFFICES ASSUME IInv, [Next]_vars PROVE IInv'
  OBVIOUS
<1>1. ASSUME NEW c \in Calls, CallStep(c) PROVE IInv'
  BY <1>1, RefuseStep, BeginStep, NormalizeFailsStep, RegisterStep,
     SendReturnsStep, SendThrowsStep
     DEF CallStep
<1>2. ASSUME NEW c \in Calls, TimerFires(c) PROVE IInv'
  BY <1>2, TimerStep
<1>3. ASSUME NEW d \in Calls, NEW response \in Responses, Deliver(d, response)
      PROVE  IInv'
  BY <1>3, DeliverStep
<1>4. CASE Dispose
  BY <1>4, DisposeStep
<1>5. CASE DisposeThrows \/ UNCHANGED vars
  BY <1>5, UnchangedStep
<1>6. QED
  BY <1>1, <1>2, <1>3, <1>4, <1>5 DEF Next

\* The inductive invariant holds in every reachable state of the client.
THEOREM Invariance == Spec => []IInv
BY InitIInv, NextIInv, PTL DEF Spec

\* The variables keep their types.
THEOREM TypeCorrect == Spec => []TypeOK
<1>1. IInv => TypeOK
  BY DEF IInv
<1>2. QED
  BY <1>1, Invariance, PTL

\* The map holds exactly the registered calls that are still open, each with an
\* armed timer: answers, timeouts, failed sends and dispose() neither leak nor
\* lose a call.
THEOREM PendingMatchesPromises == Spec => []MapMatchesPromises
<1>1. IInv => MapMatchesPromises
  BY DEF IInv, MapMatchesPromises
<1>2. QED
  BY <1>1, Invariance, PTL

\* Request ids are never reused.
THEOREM IdsAreUnique == Spec => []UniqueIds
<1>1. IInv => UniqueIds
  BY DEF IInv
<1>2. QED
  BY <1>1, Invariance, PTL

\* Each call is settled by an answer to its own request or by none, for any
\* number of calls and any behaviour of the host.
THEOREM AnswersMatchCalls == Spec => []RightAnswer
<1>1. IInv => RightAnswer
  BY DEF IInv
<1>2. QED
  BY <1>1, Invariance, PTL

-----------------------------------------------------------------------------
(* The client implements CallContract.                                     *)

\* A registered call that has no result is open in the contract.
LEMMA OpenInContract ==
  ASSUME IInv, NEW c \in Calls, InMap(c)
  PROVE  ContractResult[c] = "open" /\ outcome[c] = "none"
BY DEF IInv, PendingIffUnsettled, Progress, ContractResult

\* Settling a call with one result changes the contract's result of that call
\* only.
LEMMA SettleInContract ==
  ASSUME IInv, NEW c \in Calls, outcome[c] = "none",
         NEW r \in Outcomes \ {"none"},
         Settle(c, r), \A d \in Calls \ {c} : phase'[d] = phase[d]
  PROVE  ContractResult' = [ContractResult EXCEPT ![c] = r]
BY DEF IInv, TypeOK, Settle, ContractResult

LEMMA StepImplements ==
  ASSUME IInv, [Next]_vars
  PROVE  [Contract!Next]_(Contract!vars)
<1> USE DEF Contract!vars
<1>1. ASSUME NEW c \in Calls, RejectArgument(c) \/ RejectDisposed(c)
      PROVE  Contract!Refuse(c)
  <2>1. PICK r \in Refusals : Settle(c, r)
    BY <1>1 DEF RejectArgument, RejectDisposed, Refusals
  <2>2. outcome[c] = "none" /\ ContractResult[c] = "unissued"
    BY <1>1 DEF RejectArgument, RejectDisposed, IInv, Progress, ContractResult
  <2>3. \A d \in Calls \ {c} : phase'[d] = phase[d]
    BY <1>1 DEF RejectArgument, RejectDisposed, IInv, TypeOK
  <2>4. ContractResult' = [ContractResult EXCEPT ![c] = r]
    BY <2>1, <2>2, <2>3, SettleInContract DEF Outcomes, Refusals
  <2>5. UNCHANGED <<disposed, subscribed>>
    BY <1>1 DEF RejectArgument, RejectDisposed, client
  <2>6. QED
    BY <2>2, <2>4, <2>5 DEF Contract!Refuse
<1>2. ASSUME NEW c \in Calls, Begin(c)
      PROVE  Contract!Issue(c)
  BY <1>2 DEF Begin, Contract!Issue, ContractResult, IInv, TypeOK, Progress,
              client
<1>3. ASSUME NEW c \in Calls, NotSerializable(c) \/ TooLarge(c)
      PROVE  Contract!Fail(c)
  <2>1. PICK f \in Failures : Settle(c, f)
    BY <1>3 DEF NotSerializable, TooLarge, Failures
  <2>2. outcome[c] = "none" /\ ContractResult[c] = "open"
    BY <1>3 DEF NotSerializable, TooLarge, IInv, Progress, ContractResult
  <2>3. \A d \in Calls \ {c} : phase'[d] = phase[d]
    BY <1>3 DEF NotSerializable, TooLarge, Return, IInv, TypeOK
  <2>4. ContractResult' = [ContractResult EXCEPT ![c] = f]
    BY <2>1, <2>2, <2>3, SettleInContract DEF Outcomes, Failures
  <2>5. UNCHANGED <<disposed, subscribed>>
    BY <1>3 DEF NotSerializable, TooLarge, client
  <2>6. QED
    BY <2>2, <2>4, <2>5 DEF Contract!Fail
<1>4. ASSUME NEW c \in Calls, Register(c) \/ SendReturns(c)
      PROVE  UNCHANGED Contract!vars
  BY <1>4 DEF Register, SendReturns, Return, client, ContractResult, IInv,
              TypeOK
<1>5. ASSUME NEW c \in Calls, SendThrows(c)
      PROVE  Contract!Fail(c) \/ UNCHANGED Contract!vars
  <2>1. /\ Settle(c, "send_failed")
        /\ phase[c] = "sending"
        /\ phase' = [phase EXCEPT ![c] = "returned"]
        /\ UNCHANGED <<disposed, subscribed>>
    BY <1>5 DEF SendThrows, Return
  <2>2. CASE outcome[c] = "none"
    <3>1. ContractResult' = [ContractResult EXCEPT ![c] = "send_failed"]
      BY <2>1, <2>2, SettleInContract DEF Outcomes, Failures, IInv, TypeOK
    <3>2. QED
      BY <2>1, <2>2, <3>1 DEF Contract!Fail, Failures, ContractResult
  <2>3. CASE outcome[c] # "none"
    BY <2>1, <2>3 DEF Settle, ContractResult, IInv, TypeOK
  <2>4. QED
    BY <2>2, <2>3
<1>6. ASSUME NEW c \in Calls, TimerFires(c)
      PROVE  Contract!Fail(c)
  <2>1. ContractResult[c] = "open" /\ outcome[c] = "none"
    BY <1>6, OpenInContract DEF TimerFires, IInv, TimerIffPending
  <2>2. ContractResult' = [ContractResult EXCEPT ![c] = "timed_out"]
    BY <1>6, <2>1, SettleInContract DEF TimerFires, Outcomes, Failures, stack
  <2>3. QED
    BY <1>6, <2>1, <2>2 DEF Contract!Fail, TimerFires, Failures
<1>7. ASSUME NEW d \in Calls, NEW response \in Responses, Deliver(d, response)
      PROVE  Contract!Answer(d)
  <2>1. PICK entry \in pending :
          /\ IdOf(entry) = requestId[d]
          /\ Settle(CallOf(entry), ResultOf(CallOf(entry), response))
    BY <1>7 DEF Deliver
  <2>2. CallOf(entry) = d
    BY <2>1, DeliverFindsItsCall
  <2>3. ContractResult[d] = "open" /\ outcome[d] = "none"
    BY <2>2, EntryShape, OpenInContract
  <2>4. PICK a \in Answers : Settle(d, a)
    BY <2>1, <2>2 DEF ResultOf, Answers
  <2>5. ContractResult' = [ContractResult EXCEPT ![d] = a]
    BY <1>7, <2>3, <2>4, SettleInContract DEF Deliver, Outcomes, Answers, stack
  <2>6. QED
    BY <1>7, <2>3, <2>5 DEF Contract!Answer, Deliver
<1>8. ASSUME Dispose
      PROVE  Contract!Close
  <2>1. \A c \in Calls : \/ ContractResult'[c] = ContractResult[c]
                         \/ /\ ContractResult[c] = "open"
                            /\ ContractResult'[c] \in Failures
    BY <1>8, OpenInContract DEF Dispose, ContractResult, Failures, stack
  <2>2. ContractResult' \in
          [Calls -> Contract!Results \cup {"unissued", "open"}]
    BY <1>8 DEF Dispose, ContractResult, Contract!Results, Outcomes, Failures,
                IInv, TypeOK
  <2>3. QED
    BY <1>8, <2>1, <2>2 DEF Contract!Close, Dispose
<1>9. ASSUME DisposeThrows
      PROVE  Contract!Close
  BY <1>9 DEF DisposeThrows, Contract!Close, ContractResult, Contract!Results,
              Outcomes, stack, IInv, TypeOK
<1>10. CASE UNCHANGED vars
  BY <1>10 DEF vars, client, stack, ContractResult
<1>11. QED
  BY <1>1, <1>2, <1>3, <1>4, <1>5, <1>6, <1>7, <1>8, <1>9, <1>10
     DEF Next, CallStep, Contract!Next

\* The client implements the contract of its calls: one final result each, no
\* answer once it has stopped listening, no call accepted once disposed.
THEOREM Refinement == Spec => ImplementsContract
<1>1. Init => Contract!Init
  BY DEF Init, Contract!Init, ContractResult
<1>2. IInv /\ [Next]_vars => [Contract!Next]_(Contract!vars)
  BY StepImplements
<1>3. QED
  BY <1>1, <1>2, Invariance, PTL DEF Spec, ImplementsContract, Contract!Spec
=============================================================================
