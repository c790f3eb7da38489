--------------------------- MODULE EventDelivery ---------------------------
(***************************************************************************)
(* The way of an access event: from the node plugin to the Agent with      *)
(* CollectTelemetry, from the Agent to the center in event batches, and    *)
(* from the center to a feature plugin with ConsumeEvents.                 *)
(*                                                                         *)
(* This repository holds the messages of the three hops, the validators    *)
(* with which each side checks what the other sends, and the feature       *)
(* plugin of pluginfixture.  The Agent and the center are elsewhere; they  *)
(* take no step here but the one their documents give them                 *)
(* (docs/agent-events-v1.md, node-plugin-v1.md, center-plugin-v1.md).  Of  *)
(* what a plugin answers and of the batches an Agent makes only this is    *)
(* known, that they get past the validator: they may hold too much, too    *)
(* little, or the wrong thing in the wrong order.                          *)
(***************************************************************************)
EXTENDS Naturals, Sequences, FiniteSets

CONSTANTS
  MaxEvents,   \* access events of the run
  PageSize,    \* maximum_events of a CollectTelemetry request
  BatchSize,   \* MaximumEventBatchEvents of agent/v1
  FeedSize,    \* MaximumEventBatchEvents of centerplugin/v1
  MaxQueue,    \* capacity of the Agent's queue
  MaxCrashes,  \* crashes of the Agent
  MaxRemoved   \* events that retention takes away

ASSUME SizeAssumption ==
  /\ {MaxEvents, PageSize, BatchSize, FeedSize, MaxQueue} \subseteq Nat \ {0}
  /\ {MaxCrashes, MaxRemoved} \subseteq Nat

VARIABLES
  emitted,    \* events the node plugin has recorded; they keep their numbers
  cursor,     \* the Agent's after_sequence, on disk
  advancing,  \* the cursor to be written once its events are queued, or 0
  sequence,   \* the sequence of the last event queued, on disk
  queue,      \* the Agent's queue, on disk: event records, oldest first
  crashes,
  batches,    \* event batches on the way; they may arrive again, or never
  acks,       \* acknowledgements on the way, likewise
  ledger,     \* event records the center has stored in its event database
  removed,    \* retention has taken the first so many out of the hot stream
  feed,       \* the cursor of the feature plugin, in the center's database
  request,    \* the ConsumeEvents request the plugin is working on, or <<>>
  consumed    \* the ledger sequences whose effects the plugin has persisted

agent  == <<cursor, advancing, sequence, queue, crashes>>
wire   == <<batches, acks>>
plugin == <<feed, request, consumed>>
center == <<ledger, removed>>
vars   == <<emitted, agent, wire, center, plugin>>

Event == [sequence : Nat \ {0}, source : 1 .. MaxEvents]

Init ==
  /\ emitted = 0
  /\ cursor = 0 /\ advancing = 0 /\ sequence = 0 /\ queue = <<>> /\ crashes = 0
  /\ batches = {} /\ acks = {}
  /\ ledger = {} /\ removed = 0
  /\ feed = 0 /\ request = <<>> /\ consumed = {}

-----------------------------------------------------------------------------
(* CollectTelemetry, from the node plugin to the Agent.                    *)

Emit ==
  /\ emitted < MaxEvents
  /\ emitted' = emitted + 1
  /\ UNCHANGED <<agent, wire, center, plugin>>

\* Fault: the cursor of the response is taken as it is.
NextUnchecked(after, value) ==
  /\ Len(value.events) <= PageSize
  /\ \A k \in DOMAIN value.events : value.events[k] = after + k
  /\ value.more => Len(value.events) = PageSize

ValidateCollectTelemetryResponse(after, value) ==
  /\ Len(value.events) <= PageSize
  /\ \A k \in DOMAIN value.events : value.events[k] = after + k
  /\ value.next = after + Len(value.events)
  /\ value.more => Len(value.events) = PageSize

\* Whatever a node plugin may answer with the events it has, in any order.
Responses ==
  [events : UNION {[1 .. n -> 1 .. emitted] : n \in 0 .. PageSize + 1},
   next : 0 .. emitted, more : BOOLEAN]

\* The Agent queues the events of a page it accepts, if they fit, ...
Collect(value) ==
  /\ advancing = 0
  /\ ValidateCollectTelemetryResponse(cursor, value)
  /\ value.events # <<>> \/ value.next # cursor
  /\ Len(queue) + Len(value.events) <= MaxQueue
  /\ queue' = queue \o [k \in DOMAIN value.events |->
                          [sequence |-> sequence + k, source |-> value.events[k]]]
  /\ sequence' = sequence + Len(value.events)
  /\ advancing' = value.next
  /\ UNCHANGED <<emitted, cursor, crashes, wire, center, plugin>>

\* ... and then moves its cursor past them.
Advance ==
  /\ advancing # 0
  /\ cursor' = advancing
  /\ advancing' = 0
  /\ UNCHANGED <<emitted, sequence, queue, crashes, wire, center, plugin>>

\* A crash between the two makes the Agent collect the page again.
Crash ==
  /\ crashes < MaxCrashes
  /\ crashes' = crashes + 1
  /\ advancing' = 0
  /\ UNCHANGED <<emitted, cursor, sequence, queue, wire, center, plugin>>

-----------------------------------------------------------------------------
(* Event batches, from the Agent to the center.                            *)

\* Fault: the sequences need only be in order.
SortedBatch(batch) ==
  /\ Len(batch) \in 1 .. BatchSize
  /\ \A k \in 2 .. Len(batch) : batch[k].sequence > batch[k - 1].sequence

ValidateEventBatch(batch) ==
  /\ Len(batch) \in 1 .. BatchSize
  /\ \A k \in 2 .. Len(batch) : batch[k].sequence = batch[k - 1].sequence + 1

\* Some of the pending events, any that make a valid batch.
Send ==
  /\ \E n \in 1 .. BatchSize : \E picked \in [1 .. n -> DOMAIN queue] :
       LET batch == [k \in 1 .. n |-> queue[picked[k]]]
       IN  /\ ValidateEventBatch(batch)
           /\ batches' = batches \cup {batch}
  /\ UNCHANGED <<emitted, agent, acks, center, plugin>>

Stored == Cardinality(ledger)

\* The center refuses a gap.
Contiguous(batch) == batch[1].sequence <= Stored + 1

\* Storing the events and their range is one transaction; the answer is sent
\* after it.
Store(batch) ==
  /\ ValidateEventBatch(batch)
  /\ Contiguous(batch)
  /\ ledger' = ledger \cup {batch[k] : k \in DOMAIN batch}
  /\ acks' = acks \cup {Cardinality(ledger')}
  /\ UNCHANGED <<emitted, agent, batches, removed, plugin>>

\* How many of the queued events an acknowledgement covers.
Covered(highest) ==
  Cardinality({k \in DOMAIN queue : queue[k].sequence <= highest})

\* ValidateEventBatchAck wants a positive number; one out of the range of the
\* queue changes nothing.
Remove(highest) ==
  /\ highest >= 1 /\ highest <= sequence
  /\ Covered(highest) > 0
  /\ queue' = SubSeq(queue, Covered(highest) + 1, Len(queue))
  /\ UNCHANGED <<emitted, cursor, advancing, sequence, crashes, wire, center,
                 plugin>>

-----------------------------------------------------------------------------
(* ConsumeEvents, from the center to the feature plugin.                   *)

\* Fault: a single event is no batch.
SeveralEvents(events) ==
  /\ Len(events) \in 2 .. FeedSize
  /\ \A k \in 2 .. Len(events) : events[k] > events[k - 1]

ValidateConsumeEventsRequest(events) ==
  /\ Len(events) \in 1 .. FeedSize
  /\ \A k \in 2 .. Len(events) : events[k] > events[k - 1]

ValidateEventsConsumed(events, through) ==
  /\ ValidateConsumeEventsRequest(events)
  /\ through = events[Len(events)]

\* The event before the next one that is retained after the plugin's cursor.
Resume == IF feed < removed THEN removed ELSE feed

\* Hot-event retention takes the oldest events away, whether or not the plugin
\* has had them: one that is away for long does not hold it up.  What is left
\* out is that it takes away no more than the plugin has had already.
Clean ==
  /\ removed' \in Resume + 1 .. Stored /\ removed' <= MaxRemoved
  /\ UNCHANGED <<emitted, agent, wire, ledger, plugin>>

\* The center sends retained events after the plugin's cursor in ingest order.
Feed ==
  /\ request = <<>>
  /\ \E n \in 1 .. Stored - Resume :
       /\ request' = [k \in 1 .. n |-> Resume + k]
       /\ ValidateConsumeEventsRequest(request')
  /\ UNCHANGED <<emitted, agent, wire, center, feed, consumed>>

\* The plugin persists what it derives from the whole batch and answers; the
\* answer gets through, ...
Consume(through) ==
  /\ request # <<>>
  /\ ValidateConsumeEventsRequest(request)
  /\ ValidateEventsConsumed(request, through)
  /\ consumed' = consumed \cup {request[k] : k \in DOMAIN request}
  /\ feed' = through
  /\ request' = <<>>
  /\ UNCHANGED <<emitted, agent, wire, center>>

\* ... or it is lost, late or invalid, and the center keeps its cursor; the
\* plugin may have persisted the batch by then.
FeedFails ==
  /\ request # <<>>
  /\ consumed' \in {consumed, consumed \cup {request[k] : k \in DOMAIN request}}
  /\ request' = <<>>
  /\ UNCHANGED <<emitted, agent, wire, center, feed>>

-----------------------------------------------------------------------------
Next ==
  \/ Emit
  \/ \E value \in Responses : Collect(value)
  \/ Advance \/ Crash \/ Send
  \/ \E batch \in batches : Store(batch)
  \/ \E highest \in acks : Remove(highest)
  \/ Clean \/ Feed
  \/ \E through \in 1 .. Stored + 1 : Consume(through)
  \/ FeedFails

Spec == Init /\ [][Next]_vars

\* The Agent polls, sends and takes acknowledgements for ever, the center
\* stores what reaches it and calls the plugin again and again, and a hop
\* that is tried for ever succeeds at some time: a batch that is sent is
\* stored and a call that is made gets through.  Retention is not fair: it may
\* remove everything before a call gets through, or nothing at all.
Fairness ==
  /\ WF_vars(\E value \in Responses : Collect(value))
  /\ WF_vars(Advance)
  /\ WF_vars(Send)
  /\ SF_vars(\E batch \in batches : Store(batch) /\ ledger' # ledger)
  /\ SF_vars(\E highest \in acks : Remove(highest))
  /\ WF_vars(Feed)
  /\ SF_vars(\E through \in 1 .. Stored + 1 : Consume(through))

FairSpec == Spec /\ Fairness

-----------------------------------------------------------------------------
(* Properties                                                              *)

TypeOK ==
  /\ emitted \in 0 .. MaxEvents
  /\ cursor \in 0 .. emitted
  /\ advancing \in 0 .. emitted
  /\ queue \in Seq(Event) /\ Len(queue) <= MaxQueue
  /\ ledger \subseteq Event
  /\ acks \subseteq 1 .. Stored
  /\ feed \in 0 .. Stored /\ removed \in 0 .. Stored
  /\ consumed \subseteq 1 .. Stored

\* The database is one log without gaps, in which no sequence has two events,
\* though batches overlap and arrive late, again and out of order.
LedgerIsLog ==
  /\ {event.sequence : event \in ledger} = 1 .. Stored
  /\ \A k \in DOMAIN queue :
       queue[k].sequence <= Stored => queue[k] \in ledger

Kept == ledger \cup {queue[k] : k \in DOMAIN queue}

\* What the Agent's cursor has passed, which the node plugin may forget, is in
\* the queue or has been stored by the center.
NothingForgotten ==
  \A source \in 1 .. cursor : \E event \in Kept : event.source = source

\* An event is queued only after every event before it: no page that skips one
\* is ever taken, whatever a plugin answers.
NothingSkipped ==
  \A event \in Kept : \A source \in 1 .. event.source :
    \E earlier \in Kept :
      earlier.source = source /\ earlier.sequence <= event.sequence

\* The center's cursor for the feature plugin passes an event only when the
\* plugin has persisted its effects, or when retention had taken it away.
OnlyRetentionSkips == 1 .. feed \subseteq consumed \cup 1 .. removed

\* No event is lost between the node plugin, the Agent and the center, and none
\* but to retention between the center and the feature plugin, in whatever
\* order their answers come.
LogIsWhole ==
  LedgerIsLog /\ NothingForgotten /\ NothingSkipped /\ OnlyRetentionSkips

\* How many of the events, from the first on without a gap, are among records.
Reach(events) ==
  CHOOSE top \in 0 .. MaxEvents :
    /\ 1 .. top \subseteq {event.source : event \in events}
    /\ top + 1 \notin {event.source : event \in events}

Log == INSTANCE EventLog WITH
  held <- Reach(Kept), stored <- Reach(ledger),
  seen <- Reach({event \in ledger : event.sequence <= feed})

\* End to end the three hops are one log; the position of the feature plugin in
\* it may jump, over what retention has removed, but never goes back.
ImplementsEventLog == Log!Spec

\* Every event that happens reaches the center, through crashes and lost
\* messages, and the feature plugin persists its effects unless retention takes
\* it away first.
StoredAndConsumed ==
  \A source \in 1 .. MaxEvents :
    emitted >= source ~>
      \E event \in ledger :
        /\ event.source = source
        /\ event.sequence \in consumed \cup 1 .. removed

=============================================================================
