------------------------- MODULE CenterPluginProofs -------------------------
(***************************************************************************)
(* Proofs about the center contract plugin: its connection to the Host     *)
(* (CenterPlugin) and the events it publishes (EventPublication).          *)
(*                                                                         *)
(* CenterPlugin, for any number of overlapping activations    *)
(* and invocations.                                                        *)
(*                                                                         *)
(* ConnectionsOwned speaks of connections only.  It is inductive together  *)
(* with what the fields say of the calls: the installed connection is that *)
(* of a call that has succeeded (HostActivated), so the next one to be     *)
(* installed is another, and an invocation holds only a connection that    *)
(* was installed (HeldActivated).                                          *)
(***************************************************************************)
EXTENDS CenterPlugin, EventPublication, FiniteSetTheorems, SequenceTheorems, TLAPS

HostActivated ==
  /\ active <=> host # NoConn
  /\ host # NoConn => activate[host] = "activated"
  /\ \A a \in Activations : activate[a] = "activated" => host # NoConn

HeldActivated ==
  \A i \in Invocations :
    invoke[i] \in {"picked", "canceled"} =>
      held[i] # NoConn /\ activate[held[i]] = "activated"

IInv ==
  /\ TypeOK
  /\ ConnectionsOwned
  /\ HostActivated
  /\ HeldActivated
  /\ CanceledOnlyWhenReplaced

USE ConnAssumption

-----------------------------------------------------------------------------
LEMMA InitIInv == Init => IInv
<1> SUFFICES ASSUME Init PROVE IInv
  OBVIOUS
<1>1. TypeOK
  BY DEF Init, TypeOK, ActivateStates, InvokeStates
<1>2. ConnectionsOwned
  BY DEF Init, ConnectionsOwned, InFlight
<1>3. HostActivated /\ HeldActivated /\ CanceledOnlyWhenReplaced
  BY DEF Init, HostActivated, HeldActivated, CanceledOnlyWhenReplaced
<1>4. QED
  BY <1>1, <1>2, <1>3 DEF IInv

\* The steps of Activate that leave the fields of the plugin alone.
LEMMA ActivateWaits ==
  ASSUME IInv, NEW a \in Activations,
         \/ ActivateRefused(a) \/ ActivateOpens(a)
         \/ HostListsNodes(a) \/ HostFailsListing(a)
  PROVE  IInv'
<1>1. TypeOK'
  BY DEF IInv, TypeOK, ActivateRefused, ActivateOpens, HostListsNodes,
         HostFailsListing, CloseOwn, ActivateStates
<1>2. /\ activate[a] \in {"idle", "listing"}
      /\ activate'[a] \in {"listing", "installing", "failed"}
      /\ \A b \in Activations \ {a} : activate'[b] = activate[b]
      /\ UNCHANGED <<active, host, invoke, held>>
  BY DEF IInv, TypeOK, ActivateRefused, ActivateOpens, HostListsNodes,
         HostFailsListing
<1>3. a # host
  BY <1>2 DEF IInv, HostActivated
<1>4. /\ \A b \in Activations \ {a} : conn'[b] = conn[b]
      /\ conn'[a] = "open" <=> InFlight(a)'
  BY <1>3 DEF IInv, TypeOK, ConnectionsOwned, InFlight, ActivateRefused,
              ActivateOpens, HostListsNodes, HostFailsListing, CloseOwn
<1>5. ConnectionsOwned'
  BY <1>2, <1>3, <1>4 DEF IInv, ConnectionsOwned, InFlight
<1>6. HostActivated'
  BY <1>2, <1>3 DEF IInv, HostActivated, TypeOK
<1>7. HeldActivated' /\ CanceledOnlyWhenReplaced'
  BY <1>2 DEF IInv, HeldActivated, CanceledOnlyWhenReplaced, TypeOK
<1>8. QED
  BY <1>1, <1>5, <1>6, <1>7 DEF IInv

LEMMA InstallStep ==
  ASSUME IInv, NEW a \in Activations, Install(a)
  PROVE  IInv'
<1>1. a # host
  BY DEF IInv, HostActivated, Install
<1>2. TypeOK'
  BY DEF IInv, TypeOK, Install, ActivateStates
<1>3. ConnectionsOwned'
  <2>1. conn[a] = "open" /\ conn'[a] = "open" /\ host' = a
    BY <1>1 DEF IInv, TypeOK, ConnectionsOwned, InFlight, Install
  <2>2. ASSUME NEW b \in Activations \ {a}
        PROVE  conn'[b] = "open" <=> InFlight(b)'
    <3>1. activate'[b] = activate[b]
      BY DEF IInv, TypeOK, Install
    <3>2. conn'[b] = IF b = host THEN "closed" ELSE conn[b]
      BY DEF Install
    <3>3. b = host => ~InFlight(b)
      BY DEF IInv, HostActivated, InFlight
    <3>4. QED
      BY <3>1, <3>2, <3>3 DEF IInv, ConnectionsOwned, InFlight
  <2>3. QED
    BY <2>1, <2>2 DEF ConnectionsOwned
<1>4. HostActivated'
  BY DEF IInv, TypeOK, HostActivated, Install
<1>5. HeldActivated'
  BY DEF IInv, TypeOK, HeldActivated, Install
<1>6. CanceledOnlyWhenReplaced'
  BY DEF IInv, TypeOK, CanceledOnlyWhenReplaced, Install
<1>7. QED
  BY <1>2, <1>3, <1>4, <1>5, <1>6 DEF IInv

LEMMA InvokeKeepsIInv ==
  ASSUME IInv, NEW i \in Invocations, InvokeStep(i)
  PROVE  IInv'
<1>1. UNCHANGED <<active, host, conn, activate>>
  BY DEF InvokeStep, InvokeInvalid, ReadHost, AnswerLocally, InvokeBadInput,
         HostAnswers, ConnectionLost
<1>2. TypeOK'
  BY DEF IInv, TypeOK, InvokeStates, InvokeStep, InvokeInvalid, ReadHost,
         HostUnderLock, AnswerLocally, InvokeBadInput, HostAnswers,
         ConnectionLost
<1>3. ConnectionsOwned' /\ HostActivated'
  BY <1>1 DEF IInv, ConnectionsOwned, HostActivated, InFlight
<1>4. HeldActivated'
  <2>1. CASE ReadHost(i)
    BY <1>1, <2>1 DEF IInv, TypeOK, HeldActivated, HostActivated, ReadHost, HostUnderLock
  <2>2. CASE ~ReadHost(i)
    <3>1. /\ held' = held /\ \A j \in Invocations : j # i => invoke'[j] = invoke[j]
          /\ invoke'[i] \in {"picked", "canceled"} => invoke[i] = "picked"
      BY <2>2 DEF IInv, TypeOK, InvokeStep, InvokeInvalid, AnswerLocally,
                  InvokeBadInput, HostAnswers, ConnectionLost
    <3>2. QED
      BY <1>1, <3>1 DEF IInv, HeldActivated
  <2>3. QED
    BY <2>1, <2>2
<1>5. CanceledOnlyWhenReplaced'
  BY <1>1 DEF IInv, TypeOK, HeldActivated, CanceledOnlyWhenReplaced,
              ConnectionsOwned, Severed, InvokeStep, InvokeInvalid, ReadHost,
              HostUnderLock, AnswerLocally, InvokeBadInput, HostAnswers,
              ConnectionLost
<1>6. QED
  BY <1>2, <1>3, <1>4, <1>5 DEF IInv

LEMMA StutterStep == IInv /\ UNCHANGED vars => IInv'
BY DEF IInv, vars, TypeOK, ConnectionsOwned, HostActivated, HeldActivated,
       CanceledOnlyWhenReplaced, InFlight

LEMMA NextIInv == IInv /\ [Next]_vars => IInv'
BY ActivateWaits, InstallStep, InvokeKeepsIInv, StutterStep
   DEF Next, ActivateStep

-----------------------------------------------------------------------------
LEMMA Invariance == Spec => []IInv
BY InitIInv, NextIInv, PTL DEF Spec

\* The variables keep their types.
THEOREM TypeCorrect == Spec => []TypeOK
<1>1. IInv => TypeOK
  BY DEF IInv
<1>2. QED
  BY <1>1, Invariance, PTL

\* However many activations overlap, fail and replace each other, no Host
\* connection leaks and the installed one stays open.
THEOREM NoConnectionLeaks == Spec => []ConnectionsOwned
<1>1. IInv => ConnectionsOwned
  BY DEF IInv
<1>2. QED
  BY <1>1, Invariance, PTL

\* Healthy means that some activation has succeeded and that the plugin holds
\* an open Host connection.
THEOREM HealthIsBacked == Spec => []HealthyIffActivated
<1>1. IInv => HealthyIffActivated
  BY DEF IInv, TypeOK, HealthyIffActivated, Health, HostActivated,
         ConnectionsOwned
<1>2. QED
  BY <1>1, Invariance, PTL

\* An invocation loses its connection only to a newer activation.
THEOREM CancellationIsReplacement == Spec => []CanceledOnlyWhenReplaced
<1>1. IInv => CanceledOnlyWhenReplaced
  BY DEF IInv
<1>2. QED
  BY <1>1, Invariance, PTL

\* A failed activation leaves the working connection alone.
THEOREM FailureIsHarmless == Spec => FailureKeepsHost
<1>1. ASSUME IInv, [Next]_vars, NEW a \in Activations,
             activate'[a] = "failed", activate[a] # "failed"
      PROVE  UNCHANGED <<active, host>> /\ (host # NoConn => conn'[host] = "open")
  <2>1. ActivateRefused(a) \/ HostFailsListing(a)
    BY <1>1 DEF Next, vars, ActivateStep, InvokeStep, ActivateRefused,
                ActivateOpens, HostListsNodes, HostFailsListing, Install,
                InvokeInvalid, ReadHost, AnswerLocally, InvokeBadInput,
                HostAnswers, ConnectionLost, IInv, TypeOK
  <2>2. a # host
    BY <1>1, <2>1 DEF IInv, HostActivated, ActivateRefused, HostFailsListing
  <2>3. QED
    BY <1>1, <2>1, <2>2 DEF IInv, TypeOK, ConnectionsOwned, ActivateRefused,
                      HostFailsListing, CloseOwn
<1>2. IInv /\ [Next]_vars => [FailedStepKeepsHost]_vars
  BY <1>1 DEF FailedStepKeepsHost
<1>3. QED
  BY <1>2, Invariance, PTL DEF Spec, FailureKeepsHost

-----------------------------------------------------------------------------
(***************************************************************************)
(* EventPublication, for any wishes and any number of tries.  The events   *)
(* of the stream are wished ones, with the IDs that pages gave, and no two *)
(* of them share an ID, whatever requests are still on their way; and a    *)
(* yes, however late, is an answer about an event that is in the stream.   *)
(***************************************************************************)

\* The event a wish asks for.
Wished(w) ==
  [source |-> SourceOf[w], content |-> ContentOf[w], given |-> SourceOf[w]]

Call == [wish : Wishes, try : Nat]

PublicationTypeOK ==
  /\ page \in [Wishes -> {"idle", "waiting", "published"}]
  /\ tries \in [Wishes -> Nat]
  /\ asked \subseteq Call /\ pending \subseteq Call
  /\ \A a \in answers : a.call \in Call
  /\ stream \in Seq({Wished(w) : w \in Wishes})

\* Each ID is in the stream once.
IdsPublishedOnce ==
  \A j, k \in 1 .. Len(stream) : stream[j].source = stream[k].source => j = k

\* A page that is told so finds its own event.
PublishedIsWished ==
  \A w \in Wishes : page[w] = "published" => Contains(stream, Wished(w))

YesIsPublished ==
  \A a \in answers : a.yes => Contains(stream, Wished(a.call.wish))

PublicationInv ==
  PublicationTypeOK /\ IdsPublishedOnce /\ YesIsPublished /\ PublishedIsWished

LEMMA InitPublicationInv == PublicationInit => PublicationInv
BY DEF PublicationInit, PublicationInv, PublicationTypeOK, IdsPublishedOnce,
   YesIsPublished, PublishedIsWished

\* Steps that publish nothing and say yes to nothing.
LEMMA CallStep ==
  ASSUME PublicationInv, stream' = stream,
         page' \in [Wishes -> {"idle", "waiting", "published"}],
         tries' \in [Wishes -> Nat],
         asked' \subseteq Call, pending' \subseteq Call,
         \A a \in answers' :
           a \in answers \/ \E call \in Call : a = Answer(call, FALSE),
         \A w \in Wishes : page'[w] = "published" =>
           page[w] = "published" \/ Contains(stream, Wished(w))
  PROVE  PublicationInv'
<1>1. \A a \in answers' :
        a.call \in Call /\ (a.yes => Contains(stream, Wished(a.call.wish)))
  <2> SUFFICES ASSUME NEW a \in answers'
               PROVE  a.call \in Call /\ (a.yes => Contains(stream, Wished(a.call.wish)))
    OBVIOUS
  <2>1. CASE a \in answers
    BY <2>1 DEF PublicationInv, PublicationTypeOK, YesIsPublished
  <2>2. ASSUME NEW call \in Call, a = Answer(call, FALSE)
        PROVE  a.call \in Call /\ a.yes = FALSE
    BY <2>2 DEF Answer
  <2>3. QED
    BY <2>1, <2>2
<1>2. PublicationTypeOK'
  BY <1>1 DEF PublicationInv, PublicationTypeOK
<1>3. \A w \in Wishes : Contains(stream, Wished(w))' = Contains(stream, Wished(w))
  BY DEF Contains, Wished
<1>4. YesIsPublished'
  BY <1>1 DEF YesIsPublished, Contains, Wished
<1>5. IdsPublishedOnce'
  BY DEF PublicationInv, IdsPublishedOnce
<1>6. PublishedIsWished'
  BY DEF PublicationInv, PublishedIsWished, Contains, Wished
<1>7. QED
  BY <1>2, <1>4, <1>5, <1>6 DEF PublicationInv

\* The Host adds an event that no other has the ID of, and says yes to what is
\* there then.
LEMMA PublishStep ==
  ASSUME PublicationInv, NEW call \in pending, PublishEvents(call)
  PROVE  PublicationInv'
<1> DEFINE event == Event(call)
           new == ValidatePublishEventsRequest(event) /\ ~Conflict(event)
                    /\ ~Contains(stream, event)
<1>1. /\ stream' = IF new THEN Append(stream, event) ELSE stream
      /\ answers' = answers \cup (IF \E a \in answers : a.call = call THEN {}
                                  ELSE {Answer(call, Accepted(event))})
      /\ pending' = pending \ {call} /\ UNCHANGED <<page, tries, asked>>
  BY DEF PublishEvents
<1>2. call \in Call /\ call.wish \in Wishes /\ event = Wished(call.wish)
  BY DEF PublicationInv, PublicationTypeOK, Call, Event, SourceEventID, Wished
<1>3. event \in {Wished(w) : w \in Wishes}
  BY <1>2
<1>4. stream \in Seq({Wished(w) : w \in Wishes}) /\ Len(stream) \in Nat
  BY LenProperties DEF PublicationInv, PublicationTypeOK
<1>5. new => \A k \in 1 .. Len(stream) : stream[k].source # event.source
  BY <1>4 DEF Conflict, Contains
<1>6. Accepted(event) /\ ~new => Contains(stream, event)
  BY DEF Accepted
<1> HIDE DEF event, new
<1>7. /\ stream' \in Seq({Wished(w) : w \in Wishes})
      /\ Len(stream') = IF new THEN Len(stream) + 1 ELSE Len(stream)
      /\ \A k \in 1 .. Len(stream) : stream'[k] = stream[k]
      /\ new => stream'[Len(stream) + 1] = event
  BY <1>1, <1>3, <1>4, AppendProperties
<1>8. IdsPublishedOnce'
  <2>1. CASE new
    <3>1. \A k \in 1 .. Len(stream) + 1 : k \in 1 .. Len(stream) \/ k = Len(stream) + 1
      BY <1>4
    <3>2. QED
      BY <1>4, <1>5, <1>7, <2>1, <3>1 DEF PublicationInv, IdsPublishedOnce
  <2>2. CASE ~new
    BY <1>1, <2>2 DEF PublicationInv, IdsPublishedOnce
  <2>3. QED
    BY <2>1, <2>2
<1>9. \A e : Contains(stream, e) => Contains(stream', e)
  <2>1. \A k \in 1 .. Len(stream) : k \in 1 .. Len(stream')
    BY <1>4, <1>7
  <2>2. QED
    BY <1>7, <2>1 DEF Contains
<1>10. Accepted(event) => Contains(stream', event)
  <2>1. CASE new
    BY <1>4, <1>7, <2>1 DEF Contains
  <2>2. CASE ~new
    BY <1>6, <1>9, <2>2
  <2>3. QED
    BY <2>1, <2>2
<1>11. \A a \in answers' :
         a.call \in Call /\ (a.yes => Contains(stream', Wished(a.call.wish)))
  <2> SUFFICES ASSUME NEW a \in answers'
               PROVE  a.call \in Call /\ (a.yes => Contains(stream', Wished(a.call.wish)))
    OBVIOUS
  <2>1. CASE a \in answers
    BY <1>9, <2>1 DEF PublicationInv, PublicationTypeOK, YesIsPublished
  <2>2. CASE a = Answer(call, Accepted(event))
    <3>1. a.call = call /\ a.yes = Accepted(event)
      BY <2>2 DEF Answer
    <3>2. QED
      BY <1>2, <1>10, <3>1
  <2>3. QED
    BY <1>1, <2>1, <2>2
<1>12. YesIsPublished'
  BY <1>11 DEF YesIsPublished, Contains, Wished
<1>13. PublicationTypeOK'
  BY <1>1, <1>7, <1>11 DEF PublicationInv, PublicationTypeOK, Wished
<1>14. PublishedIsWished'
  <2>1. \A w \in Wishes : page'[w] = "published" => Contains(stream', Wished(w))
    BY <1>1, <1>9 DEF PublicationInv, PublishedIsWished, Wished
  <2>2. QED
    BY <2>1 DEF PublishedIsWished, Contains, Wished
<1>15. QED
  BY <1>8, <1>12, <1>13, <1>14 DEF PublicationInv

LEMMA NextPublicationInv ==
  PublicationInv /\ [PublicationNext]_publication => PublicationInv'
<1> SUFFICES ASSUME PublicationInv, [PublicationNext]_publication PROVE PublicationInv'
  OBVIOUS
<1>1. /\ page \in [Wishes -> {"idle", "waiting", "published"}] /\ tries \in [Wishes -> Nat]
      /\ asked \subseteq Call /\ pending \subseteq Call
      /\ \A a \in answers : a.call \in Call
  BY DEF PublicationInv, PublicationTypeOK
<1>2. ASSUME NEW w \in Wishes, Ask(w) PROVE PublicationInv'
  <2>1. [wish |-> w, try |-> tries[w] + 1] \in Call
    BY <1>1 DEF Call
  <2>2. /\ page' = [page EXCEPT ![w] = "waiting"]
        /\ tries' = [tries EXCEPT ![w] = tries[w] + 1]
        /\ asked' = asked \cup {[wish |-> w, try |-> tries[w] + 1]}
        /\ UNCHANGED <<pending, answers, stream>>
    BY <1>2 DEF Ask
  <2>3. tries' \in [Wishes -> Nat]
    BY <1>1, <2>2
  <2>4. /\ page' \in [Wishes -> {"idle", "waiting", "published"}]
        /\ \A v \in Wishes : page'[v] = "published" => page[v] = "published"
    BY <1>1, <2>2
  <2>5. QED
    BY <1>1, <2>1, <2>2, <2>3, <2>4, CallStep
<1>3. ASSUME NEW w \in Wishes, TimeOut(w) PROVE PublicationInv'
  BY <1>1, <1>3, CallStep DEF TimeOut
<1>4. ASSUME NEW call \in asked, InvokeUI(call) \/ HostUnavailable(call) PROVE PublicationInv'
  BY <1>1, <1>4, CallStep DEF InvokeUI, HostUnavailable
<1>5. ASSUME NEW call \in pending, CallSevered(call) PROVE PublicationInv'
  BY <1>1, <1>5, CallStep DEF CallSevered
<1>6. ASSUME NEW call \in pending, PublishEvents(call) PROVE PublicationInv'
  BY <1>6, PublishStep
<1>7. ASSUME NEW a \in answers, Take(a) PROVE PublicationInv'
  <2>1. a.call.wish \in Wishes
    BY <1>1 DEF Call
  <2>2. /\ page' = [page EXCEPT ![a.call.wish] = IF a.yes THEN "published" ELSE "idle"]
        /\ UNCHANGED <<tries, asked, pending, answers, stream>>
    BY <1>7 DEF Take
  <2>3. a.yes => Contains(stream, Wished(a.call.wish))
    BY DEF PublicationInv, YesIsPublished
  <2>4. \A w \in Wishes : page'[w] = "published" =>
          page[w] = "published" \/ Contains(stream, Wished(w))
    BY <1>1, <2>1, <2>2, <2>3
  <2>5. page' \in [Wishes -> {"idle", "waiting", "published"}]
    BY <1>1, <2>1, <2>2
  <2>6. QED
    BY <1>1, <2>2, <2>4, <2>5, CallStep
<1>8. CASE UNCHANGED publication
  BY <1>1, <1>8, CallStep DEF publication
<1>9. QED
  BY <1>2, <1>3, <1>4, <1>5, <1>6, <1>7, <1>8 DEF PublicationNext

LEMMA PublicationInvariance == PublicationSpec => []PublicationInv
BY InitPublicationInv, NextPublicationInv, PTL DEF PublicationSpec

\* However often pages ask with an ID, and however late a request that was
\* given up on is committed, no two events of the stream are for that ID.
THEOREM NothingPublishedTwice == PublicationSpec => []PublishedOnce
<1>1. PublicationInv => PublishedOnce
  <2> SUFFICES ASSUME PublicationInv PROVE PublishedOnce
    OBVIOUS
  <2>1. DOMAIN stream = 1 .. Len(stream)
    BY LenProperties DEF PublicationInv, PublicationTypeOK
  <2>2. \A k \in 1 .. Len(stream) : \E w \in Wishes : stream[k] = Wished(w)
    BY ElementOfSeq DEF PublicationInv, PublicationTypeOK
  <2>3. ASSUME NEW k \in 1 .. Len(stream) PROVE stream[k].source = stream[k].given
    <3>1. PICK w \in Wishes : stream[k] = Wished(w)
      BY <2>2
    <3>2. QED
      BY <3>1 DEF Wished
  <2>4. QED
    BY <2>1, <2>3 DEF PublishedOnce, PublicationInv, IdsPublishedOnce
<1>2. QED
  BY <1>1, PublicationInvariance, PTL

\* A page that is told its event is published finds its own in the stream.
THEOREM PublicationIsTrue == PublicationSpec => []PublishedIsMine
<1>1. PublicationInv => PublishedIsMine
  <2> SUFFICES ASSUME PublicationInv, NEW w \in Wishes, page[w] = "published"
               PROVE  \E k \in DOMAIN stream :
                        stream[k].source = SourceOf[w] /\ stream[k].content = ContentOf[w]
    BY DEF PublishedIsMine
  <2>1. Contains(stream, Wished(w))
    BY DEF PublicationInv, PublishedIsWished
  <2>2. PICK k \in 1 .. Len(stream) : stream[k] = Wished(w)
    BY <2>1 DEF Contains
  <2>3. DOMAIN stream = 1 .. Len(stream)
    BY LenProperties DEF PublicationInv, PublicationTypeOK
  <2>4. QED
    BY <2>2, <2>3 DEF Wished
<1>2. QED
  BY <1>1, PublicationInvariance, PTL

=============================================================================
