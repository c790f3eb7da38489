------------------------- MODULE EventPublication -------------------------
(***************************************************************************)
(* events.publish: a page of the plugin asks for an event to be published, *)
(* its request goes through the UI bridge and the center to InvokeUI of    *)
(* the center plugin, and from there with PublishEvents to the Host, which *)
(* commits it.  The page gives up on an answer that does not come in time  *)
(* and asks again; the connection to the Host may be replaced under a call *)
(* (CenterPlugin.tla); and what the page or the plugin has given up on may *)
(* still be committed later.  The bridge itself is the contract that       *)
(* UIBridge.tla implements: an answer reaches its own call, or none.       *)
(***************************************************************************)
EXTENDS Naturals, Sequences, SequencesExt

CONSTANTS
  Wishes,    \* the events pages want published, one event each
  SourceOf,  \* the source_event_id each gives to its event
  ContentOf, \* node, time and payload of each, or Bad
  Bad,       \* a content the validator refuses, such as no time
  MaxTries   \* how often a page asks for an event

ASSUME WishesAssumption ==
  /\ DOMAIN SourceOf = Wishes /\ DOMAIN ContentOf = Wishes
  /\ MaxTries \in Nat \ {0}

VARIABLES
  page,     \* what the page knows of each wish: idle, waiting or published
  tries,    \* how often it has asked
  asked,    \* requests on the way to the plugin: wish and try
  pending,  \* requests with the Host
  answers,  \* answers on the way to the page: wish, try and whether it is yes
  stream    \* the published events, in the order of their commits

publication == <<page, tries, asked, pending, answers, stream>>

PublicationInit ==
  /\ page = [w \in Wishes |-> "idle"]
  /\ tries = [w \in Wishes |-> 0]
  /\ asked = {} /\ pending = {} /\ answers = {}
  /\ stream = <<>>

Answer(call, yes) == [call |-> call, yes |-> yes]

\* Fault: the plugin makes up an ID for each request.
FreshSourceID(call) == call

\* The plugin passes the page's own ID on.
SourceEventID(call) == SourceOf[call.wish]

\* For the properties an event also has the ID that the page gave.
Event(call) ==
  [source |-> SourceEventID(call), content |-> ContentOf[call.wish],
   given |-> SourceOf[call.wish]]

-----------------------------------------------------------------------------
Ask(w) ==
  /\ page[w] = "idle" /\ tries[w] < MaxTries
  /\ page' = [page EXCEPT ![w] = "waiting"]
  /\ tries' = [tries EXCEPT ![w] = @ + 1]
  /\ asked' = asked \cup {[wish |-> w, try |-> tries[w] + 1]}
  /\ UNCHANGED <<pending, answers, stream>>

\* A request reaches the plugin, which sends it on to the Host, ...
InvokeUI(call) ==
  /\ asked' = asked \ {call}
  /\ pending' = pending \cup {call}
  /\ UNCHANGED <<page, tries, answers, stream>>

\* ... or has no connection to the Host.
HostUnavailable(call) ==
  /\ asked' = asked \ {call}
  /\ answers' = answers \cup {Answer(call, FALSE)}
  /\ UNCHANGED <<page, tries, pending, stream>>

\* The connection is closed under the call, or its context ends: the plugin
\* answers with the error, and the request may be with the Host all the same.
CallSevered(call) ==
  /\ \A a \in answers : a.call # call
  /\ answers' = answers \cup {Answer(call, FALSE)}
  /\ UNCHANGED <<page, tries, asked, pending, stream>>

ValidatePublishEventsRequest(event) == event.content # Bad

Conflict(event) ==
  \E k \in DOMAIN stream :
    stream[k].source = event.source /\ stream[k] # event

\* Fault: the plugin drops the Host's error.
YesAnyway(event) == TRUE

\* The Host's error is the plugin's answer.
Accepted(event) == ValidatePublishEventsRequest(event) /\ ~Conflict(event)

\* The Host commits an event it has not seen, confirms one it has, and refuses
\* one that is invalid or differs from the one of its ID.  Its answer gets to
\* the page unless the plugin has given the call up.
PublishEvents(call) ==
  LET event == Event(call)
  IN  /\ stream' =
           IF /\ ValidatePublishEventsRequest(event) /\ ~Conflict(event)
              /\ ~Contains(stream, event)
           THEN Append(stream, event) ELSE stream
      /\ pending' = pending \ {call}
      /\ answers' = answers \cup
           (IF \E a \in answers : a.call = call THEN {}
            ELSE {Answer(call, Accepted(event))})
      /\ UNCHANGED <<page, tries, asked>>

\* Only the answer to the call that is waiting is taken.
Take(a) ==
  /\ page[a.call.wish] = "waiting" /\ a.call.try = tries[a.call.wish]
  /\ page' = [page EXCEPT ![a.call.wish] = IF a.yes THEN "published" ELSE "idle"]
  /\ UNCHANGED <<tries, asked, pending, answers, stream>>

\* The client's timer: the page knows nothing and may ask again.
TimeOut(w) ==
  /\ page[w] = "waiting"
  /\ page' = [page EXCEPT ![w] = "idle"]
  /\ UNCHANGED <<tries, asked, pending, answers, stream>>

PublicationNext ==
  \/ \E w \in Wishes : Ask(w) \/ TimeOut(w)
  \/ \E call \in asked : InvokeUI(call) \/ HostUnavailable(call)
  \/ \E call \in pending : CallSevered(call) \/ PublishEvents(call)
  \/ \E a \in answers : Take(a)

PublicationSpec == PublicationInit /\ [][PublicationNext]_publication

-----------------------------------------------------------------------------
\* However often pages ask with an ID, and however late a request they have
\* given up on is committed, the stream has at most one event for that ID.
PublishedOnce ==
  \A j, k \in DOMAIN stream : stream[j].given = stream[k].given => j = k

\* A page that is told so finds its own event in the stream, not another that
\* took its ID.
PublishedIsMine ==
  \A w \in Wishes :
    page[w] = "published" =>
      \E k \in DOMAIN stream :
        stream[k].source = SourceOf[w] /\ stream[k].content = ContentOf[w]

=============================================================================
