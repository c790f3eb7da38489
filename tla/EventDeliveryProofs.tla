------------------------- MODULE EventDeliveryProofs -------------------------
(***************************************************************************)
(* The three hops of an access event lose nothing but what retention       *)
(* removes before the feature plugin has had it, and are one log end to    *)
(* end (EventLog), for any number of events, any sizes of pages, batches,  *)
(* feeds and of the queue, any number of crashes and any retention.  The   *)
(* argument rests on what is kept, in the Agent's queue or stored by the   *)
(* center: nothing ever leaves it, and it is one numbered log, of which    *)
(* every batch that was ever sent is a part.                               *)
(***************************************************************************)
EXTENDS EventDelivery, FiniteSetTheorems, SequenceTheorems, TLAPS

\* The numbers of the log, and the events in it.
Numbers(events) == {event.sequence : event \in events}
Sources(events) == {event.source : event \in events}

\* Records 1 .. n, each number once.
IsLog(events, n) ==
  /\ Numbers(events) = 1 .. n
  /\ \A e, f \in events : e.sequence = f.sequence => e = f

\* The queue is the end of the log; what has left it is in the database.
QueueIsEnd ==
  /\ Len(queue) <= sequence /\ sequence - Len(queue) <= Stored
  /\ \A k \in 1 .. Len(queue) : queue[k].sequence = sequence - Len(queue) + k

KeptIsLog == IsLog(Kept, sequence)

LedgerIsStart == Stored \in Nat /\ Stored <= sequence /\ IsLog(ledger, Stored)

\* No page is queued ahead of its events.
SourcesEmitted == \A event \in Kept : event.source \in 1 .. emitted

\* A batch on its way, however old, is a part of the log.
BatchesAreKept ==
  \A batch \in batches :
    /\ batch \in Seq(Event) /\ ValidateEventBatch(batch)
    /\ \A k \in 1 .. Len(batch) : batch[k] \in Kept

AdvancingIsKept ==
  \A source \in 1 .. advancing : \E event \in Kept : event.source = source

\* The request is the events after a position from which the cursor has only
\* events to skip that retention has removed.
Following(base, n) == [k \in 1 .. n |-> base + k]

RequestIsNext ==
  request # <<>> =>
    \E base \in feed .. Stored : \E n \in 1 .. Stored - base :
      request = Following(base, n) /\ (base = feed \/ base <= removed)

IInv ==
  /\ TypeOK /\ sequence \in Nat
  /\ KeptIsLog /\ LedgerIsStart /\ QueueIsEnd /\ SourcesEmitted
  /\ BatchesAreKept /\ AdvancingIsKept
  /\ NothingForgotten /\ NothingSkipped
  /\ RequestIsNext /\ OnlyRetentionSkips

-----------------------------------------------------------------------------
(* Sets of numbers and of records.                                         *)

LEMMA Least ==
  ASSUME NEW S \in SUBSET Nat, S # {}
  PROVE  \E x \in S : \A y \in S : x <= y
<1>1. IsWellFoundedOn(OpToRel(<, Nat), Nat)
  BY NatLessThanWellFounded
<1>2. PICK x \in S : \A y \in S : <<y, x>> \notin OpToRel(<, Nat)
  BY <1>1, WFMin
<1>3. \A y \in S : ~(y < x)
  BY <1>2 DEF OpToRel
<1>4. QED
  BY <1>3

\* A log has as many records as numbers.
LEMMA LogCardinality ==
  ASSUME NEW S, NEW n \in Nat, IsLog(S, n)
  PROVE  Cardinality(S) = n
<1> DEFINE f == [i \in 1 .. n |-> CHOOSE e \in S : e.sequence = i]
<1>1. \A i \in 1 .. n : f[i] \in S /\ f[i].sequence = i
  <2> SUFFICES ASSUME NEW i \in 1 .. n PROVE f[i] \in S /\ f[i].sequence = i
    OBVIOUS
  <2>1. \E e \in S : e.sequence = i
    BY DEF IsLog, Numbers
  <2>2. QED
    BY <2>1
<1>2. \A e \in S : e.sequence \in 1 .. n /\ f[e.sequence] = e
  BY <1>1 DEF IsLog, Numbers
<1>3. f \in [1 .. n -> S]
  BY <1>1
<1> HIDE DEF f
<1>4. f \in Injection(1 .. n, S) /\ f \in Surjection(1 .. n, S)
  BY <1>1, <1>2, <1>3 DEF Injection, IsInjective, Surjection
<1>5. ExistsBijection(1 .. n, S)
  BY <1>4 DEF ExistsBijection, Bijection
<1>6. QED
  BY <1>5, FS_CountingElements

\* The events of a valid batch have the numbers from its first one on.
LEMMA BatchNumbers ==
  ASSUME NEW batch \in Seq(Event), ValidateEventBatch(batch), NEW k \in 1 .. Len(batch)
  PROVE  batch[k].sequence = batch[1].sequence + k - 1
<1> DEFINE wrong == {i \in 1 .. Len(batch) : batch[i].sequence # batch[1].sequence + i - 1}
<1>1. \A i \in 1 .. Len(batch) : batch[i].sequence \in Nat
  <2>1. \A i \in 1 .. Len(batch) : batch[i] \in Event
    BY ElementOfSeq
  <2>2. QED
    BY <2>1 DEF Event
<1>2. Len(batch) \in Nat /\ \A i \in 2 .. Len(batch) : batch[i].sequence = batch[i - 1].sequence + 1
  BY LenProperties DEF ValidateEventBatch
<1>3. ASSUME wrong # {} PROVE FALSE
  <2>1. wrong \in SUBSET Nat
    BY <1>2
  <2>2. PICK i \in wrong : \A j \in wrong : i <= j
    BY <1>3, <2>1, Least
  <2>3. i \in 2 .. Len(batch)
    BY <1>1, <1>2
  <2>4. i - 1 \in 1 .. Len(batch) /\ i - 1 \notin wrong
    BY <1>2, <2>2, <2>3
  <2>5. batch[i - 1].sequence = batch[1].sequence + (i - 1) - 1
    BY <2>4
  <2> HIDE DEF wrong
  <2>6. batch[i].sequence = batch[i - 1].sequence + 1
    BY <1>2, <2>3
  <2>7. i \in Int /\ batch[1].sequence \in Nat
    BY <1>1, <1>2, <2>3
  <2>8. batch[i].sequence = batch[1].sequence + i - 1
    <3>1. \A a \in Nat, n \in Int : (a + (n - 1) - 1) + 1 = a + n - 1
      OBVIOUS
    <3>2. QED
      BY <2>5, <2>6, <2>7, <3>1
  <2>9. QED
    BY <2>2, <2>8 DEF wrong
<1>4. QED
  BY <1>3

-----------------------------------------------------------------------------
(* What the invariant says of the log.                                     *)

LEMMA Counters ==
  ASSUME IInv
  PROVE  /\ Len(queue) \in Nat /\ DOMAIN queue = 1 .. Len(queue) /\ Len(queue) <= sequence
         /\ \A k \in 1 .. Len(queue) : queue[k] \in Event /\ queue[k] \in Kept
         /\ Stored \in Nat /\ Stored <= sequence /\ sequence \in Nat
         /\ emitted \in Nat /\ cursor \in Nat /\ MaxEvents \in Nat
<1>1. queue \in Seq(Event)
  BY DEF IInv, TypeOK
<1>2. Len(queue) \in Nat /\ DOMAIN queue = 1 .. Len(queue)
  BY <1>1, LenProperties
<1>3. \A k \in 1 .. Len(queue) : queue[k] \in Event /\ queue[k] \in Kept
  BY <1>1, <1>2, ElementOfSeq DEF Kept
<1>4. MaxEvents \in Nat
  BY SizeAssumption
<1>5. QED
  BY <1>2, <1>3, <1>4 DEF IInv, TypeOK, LedgerIsStart, QueueIsEnd

LEMMA KeptRecords ==
  ASSUME IInv, NEW e \in Kept
  PROVE  /\ e \in Event /\ e.sequence \in 1 .. sequence /\ e.source \in 1 .. emitted
         /\ \A f \in Kept : e.sequence = f.sequence => e = f
<1>1. e \in Event
  BY Counters DEF IInv, TypeOK, Kept
<1>2. e.sequence \in Numbers(Kept)
  BY DEF Numbers
<1>3. QED
  BY <1>1, <1>2 DEF IInv, KeptIsLog, IsLog, SourcesEmitted

\* A kept event with a number that is stored is the stored one.
LEMMA StoredIsLedger ==
  ASSUME IInv, NEW e \in Kept, e.sequence <= Stored
  PROVE  e \in ledger
<1>1. e.sequence \in 1 .. Stored
  BY KeptRecords, Counters
<1>2. PICK f \in ledger : f.sequence = e.sequence
  BY <1>1 DEF IInv, LedgerIsStart, IsLog, Numbers
<1>3. f \in Kept
  BY DEF Kept
<1>4. QED
  BY <1>2, <1>3, KeptRecords

\* What is in order of a log stays so while the log stays.
LEMMA LogStays ==
  ASSUME IInv, UNCHANGED <<queue, sequence, batches, ledger>>,
         emitted' \in Nat, emitted <= emitted'
  PROVE  /\ KeptIsLog' /\ LedgerIsStart' /\ QueueIsEnd' /\ SourcesEmitted'
         /\ BatchesAreKept' /\ NothingSkipped'
<1>1. Kept' = Kept /\ Stored' = Stored
  BY DEF Kept, Stored
<1>2. KeptIsLog' /\ LedgerIsStart' /\ QueueIsEnd'
  BY <1>1 DEF IInv, KeptIsLog, LedgerIsStart, IsLog, Numbers, QueueIsEnd
<1>3. SourcesEmitted'
  BY <1>1, Counters DEF IInv, SourcesEmitted
<1>4. BatchesAreKept'
  BY <1>1 DEF IInv, BatchesAreKept, ValidateEventBatch
<1>5. NothingSkipped'
  BY <1>1 DEF IInv, NothingSkipped
<1>6. QED
  BY <1>2, <1>3, <1>4, <1>5

-----------------------------------------------------------------------------
(* The steps                                                               *)

LEMMA InitIInv == Init => IInv
<1> SUFFICES ASSUME Init PROVE IInv
  OBVIOUS
<1>1. queue \in Seq(Event) /\ Len(queue) = 0 /\ DOMAIN queue = {} /\ Kept = {}
  BY DEF Init, Kept
<1>2. Stored = 0
  BY FS_EmptySet DEF Init, Stored
<1>3. TypeOK /\ sequence \in Nat
  BY <1>1, <1>2, SizeAssumption DEF Init, TypeOK
<1>4. IsLog({}, 0)
  BY DEF IsLog, Numbers
<1>5. KeptIsLog /\ LedgerIsStart /\ QueueIsEnd
  BY <1>1, <1>2, <1>4 DEF Init, KeptIsLog, LedgerIsStart, QueueIsEnd
<1>6. SourcesEmitted /\ BatchesAreKept /\ AdvancingIsKept /\ NothingForgotten /\ NothingSkipped
  BY <1>1 DEF Init, SourcesEmitted, BatchesAreKept, AdvancingIsKept, NothingForgotten,
     NothingSkipped
<1>7. RequestIsNext /\ OnlyRetentionSkips
  BY <1>2 DEF Init, RequestIsNext, OnlyRetentionSkips
<1>8. QED
  BY <1>3, <1>5, <1>6, <1>7 DEF IInv

\* The plugin records an event; the Agent moves its cursor, or crashes before.
LEMMA CursorStep == IInv /\ (Emit \/ Advance \/ Crash) => IInv'
<1> SUFFICES ASSUME IInv, Emit \/ Advance \/ Crash PROVE IInv'
  OBVIOUS
<1>1. /\ UNCHANGED <<queue, sequence, batches, acks, ledger, removed, feed, request,
                     consumed>>
      /\ emitted' \in 0 .. MaxEvents /\ emitted <= emitted'
      /\ cursor' \in {cursor, advancing} /\ advancing' \in {0, advancing}
  <2>1. CASE Emit
    BY <2>1, Counters, SizeAssumption DEF Emit, agent, wire, center, plugin
  <2>2. CASE Advance
    BY <2>2 DEF Advance, wire, center, plugin, IInv, TypeOK
  <2>3. CASE Crash
    BY <2>3 DEF Crash, wire, center, plugin, IInv, TypeOK
  <2>4. QED
    BY <2>1, <2>2, <2>3
<1>2. Kept' = Kept /\ Stored' = Stored
  BY <1>1 DEF Kept, Stored
<1>3. TypeOK' /\ (sequence \in Nat)'
  BY <1>1, <1>2, Counters DEF IInv, TypeOK
<1>4. /\ KeptIsLog' /\ LedgerIsStart' /\ QueueIsEnd' /\ SourcesEmitted'
      /\ BatchesAreKept' /\ NothingSkipped'
  BY <1>1, LogStays
<1>5. AdvancingIsKept' /\ NothingForgotten'
  BY <1>1, <1>2 DEF IInv, AdvancingIsKept, NothingForgotten
<1>6. RequestIsNext' /\ OnlyRetentionSkips'
  BY <1>1, <1>2 DEF IInv, RequestIsNext, OnlyRetentionSkips
<1>7. QED
  BY <1>3, <1>4, <1>5, <1>6 DEF IInv

\* A function on 1 .. n is a sequence of n elements.
LEMMA FunctionIsSeq ==
  ASSUME NEW S, NEW n \in Nat, NEW f \in [1 .. n -> S]
  PROVE  f \in Seq(S) /\ Len(f) = n /\ DOMAIN f = 1 .. n
<1>1. f \in Seq(S) /\ DOMAIN f = 1 .. n
  OBVIOUS
<1>2. Len(f) = n
  BY <1>1, LenProperties
<1>3. QED
  BY <1>1, <1>2

\* The numbers of consecutive events.
LEMMA FollowingNumbers ==
  ASSUME NEW base \in Nat, NEW n \in Nat \ {0}
  PROVE  /\ Len(Following(base, n)) = n /\ Following(base, n)[n] = base + n
         /\ {Following(base, n)[k] : k \in DOMAIN Following(base, n)} = base + 1 .. base + n
<1> DEFINE f == Following(base, n)
<1>1. f \in [1 .. n -> Nat] /\ \A k \in 1 .. n : f[k] = base + k
  BY DEF Following
<1> HIDE DEF f
<1>2. Len(f) = n /\ DOMAIN f = 1 .. n
  BY <1>1, FunctionIsSeq
<1>3. \A i \in base + 1 .. base + n : \E k \in 1 .. n : f[k] = i
  <2>1. ASSUME NEW i \in base + 1 .. base + n PROVE \E k \in 1 .. n : f[k] = i
    <3>1. i - base \in 1 .. n /\ base + (i - base) = i
      OBVIOUS
    <3>2. QED
      BY <1>1, <3>1
  <2>2. QED
    BY <2>1
<1>4. {f[k] : k \in DOMAIN f} = base + 1 .. base + n
  <2>1. \A k \in 1 .. n : f[k] \in base + 1 .. base + n
    BY <1>1
  <2>2. QED
    BY <1>2, <1>3, <2>1, Zenon
<1>5. Len(f) = n /\ f[n] = base + n /\ {f[k] : k \in DOMAIN f} = base + 1 .. base + n
  BY <1>1, <1>2, <1>4
<1>6. QED
  BY <1>5 DEF f

\* What a request holds, and what lies between the cursor and it.
LEMMA RequestNumbers ==
  ASSUME IInv, request # <<>>
  PROVE  \E base \in feed .. Stored : \E n \in 1 .. Stored - base :
           /\ Len(request) = n /\ request[n] = base + n /\ base + n \in feed .. Stored
           /\ {request[k] : k \in DOMAIN request} = base + 1 .. base + n
           /\ base = feed \/ base <= removed
<1>1. feed \in Nat /\ Stored \in Nat
  BY Counters DEF IInv, TypeOK
<1>2. PICK base \in feed .. Stored : \E n \in 1 .. Stored - base :
        request = Following(base, n) /\ (base = feed \/ base <= removed)
  BY DEF IInv, RequestIsNext
<1>3. PICK n \in 1 .. Stored - base :
        request = Following(base, n) /\ (base = feed \/ base <= removed)
  BY <1>2
<1>4. base \in Nat /\ n \in Nat \ {0} /\ base + n \in feed .. Stored
  BY <1>1
<1>5. /\ Len(request) = n /\ request[n] = base + n
      /\ {request[k] : k \in DOMAIN request} = base + 1 .. base + n
  <2>1. /\ Len(Following(base, n)) = n /\ Following(base, n)[n] = base + n
        /\ {Following(base, n)[k] : k \in DOMAIN Following(base, n)} = base + 1 .. base + n
    BY <1>4, FollowingNumbers
  <2>2. request = Following(base, n)
    BY <1>3
  <2>3. QED
    BY <2>1, <2>2
<1>6. QED
  BY <1>3, <1>4, <1>5

\* The center moves its cursor for the plugin only over what the plugin has
\* persisted and what retention has removed.
LEMMA FeedStep ==
  ASSUME IInv, Clean \/ Feed \/ FeedFails \/ \E through \in 1 .. Stored + 1 : Consume(through)
  PROVE  IInv' /\ feed <= feed' /\ UNCHANGED <<emitted, queue, ledger>>
<1>1. /\ feed \in Nat /\ feed <= Stored /\ Stored \in Nat
      /\ removed \in Nat /\ removed <= Stored
  BY Counters DEF IInv, TypeOK
<1> DEFINE Rest == UNCHANGED <<emitted, cursor, advancing, sequence, queue, crashes, batches,
                               acks, ledger>>
<1> DEFINE Next2 == request' # <<>> =>
                      \E base \in feed' .. Stored : \E n \in 1 .. Stored - base :
                        /\ request' = Following(base, n)
                        /\ base = feed' \/ base <= removed'
<1>2. /\ Rest /\ feed' \in 0 .. Stored /\ removed' \in 0 .. Stored
      /\ consumed' \subseteq 1 .. Stored
      /\ OnlyRetentionSkips' /\ feed <= feed' /\ Next2
  <2>1. CASE Clean
    <3>1. Rest /\ UNCHANGED <<feed, request, consumed>>
      BY <2>1 DEF Clean, agent, wire, plugin
    <3>2. removed' \in 0 .. Stored /\ removed <= removed'
      BY <1>1, <2>1 DEF Clean, Resume
    <3>3. Next2
      BY <1>1, <3>1, <3>2 DEF IInv, RequestIsNext
    <3>4. OnlyRetentionSkips'
      BY <1>1, <3>1, <3>2 DEF IInv, OnlyRetentionSkips
    <3>5. QED
      BY <1>1, <3>1, <3>2, <3>3, <3>4 DEF IInv, TypeOK
  <2>2. CASE Feed
    <3>1. Rest /\ UNCHANGED <<removed, feed, consumed>>
      BY <2>2 DEF Feed, agent, wire, center
    <3>2. PICK n \in 1 .. Stored - Resume : request' = Following(Resume, n)
      BY <2>2 DEF Feed, Following
    <3>3. Resume \in feed .. Stored /\ (Resume = feed \/ Resume <= removed)
      BY <1>1 DEF Resume
    <3>4. Next2
      BY <3>1, <3>2, <3>3
    <3>5. QED
      BY <1>1, <3>1, <3>4 DEF IInv, TypeOK, OnlyRetentionSkips
  <2>3. CASE FeedFails
    <3>1. PICK base \in feed .. Stored : \E n \in 1 .. Stored - base :
            /\ base + n \in feed .. Stored
            /\ {request[k] : k \in DOMAIN request} = base + 1 .. base + n
      BY <2>3, RequestNumbers DEF FeedFails
    <3>2. Rest /\ UNCHANGED <<removed, feed>> /\ request' = <<>>
      BY <2>3 DEF FeedFails, agent, wire, center
    <3>3. {request[k] : k \in DOMAIN request} \subseteq 1 .. Stored
      BY <1>1, <3>1
    <3>4. consumed \subseteq consumed' /\ consumed' \subseteq 1 .. Stored
      BY <2>3, <3>3 DEF FeedFails, IInv, TypeOK
    <3>5. OnlyRetentionSkips'
      BY <3>2, <3>4 DEF IInv, OnlyRetentionSkips
    <3>6. QED
      BY <1>1, <3>2, <3>4, <3>5
  <2>4. ASSUME NEW through, Consume(through)
        PROVE  /\ Rest /\ feed' \in 0 .. Stored /\ removed' \in 0 .. Stored
               /\ consumed' \subseteq 1 .. Stored
               /\ OnlyRetentionSkips' /\ feed <= feed' /\ Next2
    <3>1. PICK base \in feed .. Stored : \E n \in 1 .. Stored - base :
            /\ Len(request) = n /\ request[n] = base + n /\ base + n \in feed .. Stored
            /\ {request[k] : k \in DOMAIN request} = base + 1 .. base + n
            /\ base = feed \/ base <= removed
      BY <2>4, RequestNumbers DEF Consume
    <3>2. PICK n \in 1 .. Stored - base :
            /\ Len(request) = n /\ request[n] = base + n /\ base + n \in feed .. Stored
            /\ {request[k] : k \in DOMAIN request} = base + 1 .. base + n
            /\ base = feed \/ base <= removed
      BY <3>1
    <3>3. Rest /\ removed' = removed /\ request' = <<>>
      BY <2>4 DEF Consume, agent, wire, center
    <3>4. feed' = base + n /\ consumed' = consumed \cup (base + 1 .. base + n)
      <4>1. feed' = through /\ through = request[Len(request)]
        BY <2>4 DEF Consume, ValidateEventsConsumed
      <4>2. consumed' = consumed \cup {request[k] : k \in DOMAIN request}
        BY <2>4 DEF Consume
      <4>3. QED
        BY <3>2, <4>1, <4>2
    <3>5. consumed' \subseteq 1 .. Stored
      <4>1. consumed \subseteq 1 .. Stored /\ base + 1 .. base + n \subseteq 1 .. Stored
        BY <1>1, <3>2 DEF IInv, TypeOK
      <4>2. QED
        BY <3>4, <4>1
    <3>6. OnlyRetentionSkips'
      <4>1. \A i \in 1 .. base + n : i \in 1 .. feed \/ i \in 1 .. removed \/ i \in base + 1 .. base + n
        BY <1>1, <3>2
      <4>2. QED
        BY <3>3, <3>4, <4>1 DEF IInv, OnlyRetentionSkips
    <3>7. QED
      BY <1>1, <3>2, <3>3, <3>4, <3>5, <3>6
  <2>5. QED
    BY <2>1, <2>2, <2>3, <2>4
<1>3. Kept' = Kept /\ Stored' = Stored
  BY <1>2 DEF Kept, Stored
<1>4. TypeOK' /\ (sequence \in Nat)'
  BY <1>2, <1>3 DEF IInv, TypeOK
<1>5. /\ KeptIsLog' /\ LedgerIsStart' /\ QueueIsEnd' /\ SourcesEmitted'
      /\ BatchesAreKept' /\ NothingSkipped'
  BY <1>2, Counters, LogStays
<1>6. AdvancingIsKept' /\ NothingForgotten'
  BY <1>2, <1>3 DEF IInv, AdvancingIsKept, NothingForgotten
<1>7. RequestIsNext'
  BY <1>2, <1>3 DEF RequestIsNext, Following
<1>8. QED
  BY <1>2, <1>4, <1>5, <1>6, <1>7 DEF IInv

\* A batch is made of queued events.
LEMMA SendStep == IInv /\ Send => IInv'
<1> SUFFICES ASSUME IInv, Send PROVE IInv'
  OBVIOUS
<1>1. PICK n \in 1 .. BatchSize : \E picked \in [1 .. n -> DOMAIN queue] :
        /\ ValidateEventBatch([k \in 1 .. n |-> queue[picked[k]]])
        /\ batches' = batches \cup {[k \in 1 .. n |-> queue[picked[k]]]}
  BY Zenon DEF Send
<1>2. PICK picked \in [1 .. n -> DOMAIN queue] :
        /\ ValidateEventBatch([k \in 1 .. n |-> queue[picked[k]]])
        /\ batches' = batches \cup {[k \in 1 .. n |-> queue[picked[k]]]}
  BY <1>1
<1> DEFINE batch == [k \in 1 .. n |-> queue[picked[k]]]
<1>3. /\ ValidateEventBatch(batch) /\ batches' = batches \cup {batch}
      /\ UNCHANGED <<emitted, cursor, advancing, sequence, queue, crashes, acks, ledger,
                     removed, feed,
                     request, consumed>>
  BY <1>2 DEF Send, agent, center, plugin
<1>4. \A k \in 1 .. n : batch[k] \in Event /\ batch[k] \in Kept
  BY Counters
<1>5. batch \in [1 .. n -> Event] /\ n \in Nat
  BY <1>4, SizeAssumption
<1> HIDE DEF batch
<1>6. batch \in Seq(Event) /\ Len(batch) = n
  BY <1>5, FunctionIsSeq
<1>7. Kept' = Kept /\ Stored' = Stored
  BY <1>3 DEF Kept, Stored
<1>8. BatchesAreKept'
  BY <1>3, <1>4, <1>6, <1>7 DEF IInv, BatchesAreKept, ValidateEventBatch
<1>9. TypeOK' /\ (sequence \in Nat)'
  BY <1>3, <1>7 DEF IInv, TypeOK
<1>10. KeptIsLog' /\ LedgerIsStart' /\ QueueIsEnd' /\ SourcesEmitted' /\ NothingSkipped'
  BY <1>3, <1>7 DEF IInv, KeptIsLog, LedgerIsStart, IsLog, Numbers, QueueIsEnd, SourcesEmitted,
     NothingSkipped
<1>11. AdvancingIsKept' /\ NothingForgotten'
  BY <1>3, <1>7 DEF IInv, AdvancingIsKept, NothingForgotten
<1>12. RequestIsNext' /\ OnlyRetentionSkips'
  BY <1>3, <1>7 DEF IInv, RequestIsNext, OnlyRetentionSkips
<1>13. QED
  BY <1>8, <1>9, <1>10, <1>11, <1>12 DEF IInv

\* However old a batch is, what it adds to the database continues the log.
LEMMA StoreStep ==
  ASSUME IInv, NEW batch \in batches, Store(batch)
  PROVE  /\ IInv' /\ Kept' = Kept /\ ledger \subseteq ledger'
<1> DEFINE n == Len(batch)
           b == batch[1].sequence
           events == {batch[k] : k \in DOMAIN batch}
           top == IF b + n - 1 > Stored THEN b + n - 1 ELSE Stored
<1>1. /\ b <= Stored + 1 /\ ledger' = ledger \cup events
      /\ acks' = acks \cup {Cardinality(ledger')}
      /\ UNCHANGED <<emitted, cursor, advancing, sequence, queue, crashes, batches, removed, feed,
                     request, consumed>>
  BY DEF Store, Contiguous, agent, plugin
<1>2. batch \in Seq(Event) /\ ValidateEventBatch(batch) /\ \A k \in 1 .. n : batch[k] \in Kept
  BY DEF IInv, BatchesAreKept
<1>3. n \in Nat \ {0} /\ DOMAIN batch = 1 .. n
  BY <1>2, LenProperties DEF ValidateEventBatch
<1>4. \A k \in 1 .. n : batch[k].sequence = b + k - 1
  BY <1>2, BatchNumbers
<1>5. b \in Nat \ {0} /\ b + n - 1 <= sequence
  <2>1. 1 \in 1 .. n /\ n \in 1 .. n
    BY <1>3
  <2>2. b \in 1 .. sequence /\ batch[n].sequence \in 1 .. sequence
    BY <1>2, <2>1, KeptRecords
  <2>3. QED
    BY <1>4, <2>1, <2>2
<1>6. events \subseteq Kept /\ \A k \in 1 .. n : batch[k] \in events
  BY <1>2, <1>3
<1> HIDE DEF b, n
<1>7. Kept' = Kept
  BY <1>1, <1>6 DEF Kept
<1>8. top \in Nat /\ Stored <= top /\ top <= sequence /\ top >= 1
  BY <1>3, <1>5, Counters
<1>9. IsLog(ledger', top)
  <2>1. ASSUME NEW i \in 1 .. top PROVE \E e \in ledger' : e.sequence = i
    <3>1. CASE i <= Stored
      BY <1>1, <1>8, <3>1 DEF IInv, LedgerIsStart, IsLog, Numbers
    <3>2. CASE i > Stored
      <4>1. i <= b + n - 1 /\ b <= i
        BY <1>1, <1>3, <1>5, <3>2, Counters
      <4>2. i - b + 1 \in 1 .. n /\ b + (i - b + 1) - 1 = i
        BY <1>3, <1>5, <4>1
      <4>3. batch[i - b + 1].sequence = i
        BY <1>4, <4>2
      <4>4. QED
        BY <1>1, <1>6, <4>2, <4>3
    <3>3. QED
      BY <1>8, <3>1, <3>2, Counters
  <2>2. ASSUME NEW e \in ledger' PROVE e.sequence \in 1 .. top
    <3>1. CASE e \in ledger
      <4>1. e.sequence \in 1 .. Stored
        BY <3>1 DEF IInv, LedgerIsStart, IsLog, Numbers
      <4>2. QED
        BY <1>8, <4>1, Counters
    <3>2. ASSUME NEW k \in 1 .. n, e = batch[k] PROVE e.sequence \in 1 .. top
      BY <1>3, <1>4, <1>5, <3>2, Counters
    <3>3. QED
      BY <1>1, <1>3, <3>1, <3>2
  <2>3. \A e, f \in ledger' : e.sequence = f.sequence => e = f
    BY <1>7, KeptRecords DEF Kept
  <2>4. QED
    BY <2>1, <2>2, <2>3 DEF IsLog, Numbers
<1> HIDE DEF events, top
<1>10. Stored' = top /\ Cardinality(ledger') = top
  BY <1>8, <1>9, LogCardinality DEF Stored
<1>11. LedgerIsStart'
  BY <1>1, <1>8, <1>9, <1>10 DEF LedgerIsStart
<1>12. ledger' \subseteq Event
  <2>1. ledger' \subseteq Kept
    BY <1>7 DEF Kept
  <2>2. QED
    BY <2>1, KeptRecords
<1>13. TypeOK' /\ (sequence \in Nat)'
  <2>1. 1 .. Stored \subseteq 1 .. top /\ 0 .. Stored \subseteq 0 .. top /\ top \in 1 .. top
    BY <1>8, Counters
  <2>2. /\ acks' \subseteq 1 .. Stored' /\ consumed' \subseteq 1 .. Stored'
        /\ feed' \in 0 .. Stored' /\ removed' \in 0 .. Stored'
    BY <1>1, <1>10, <2>1 DEF IInv, TypeOK
  <2>3. QED
    BY <1>1, <1>12, <2>2 DEF IInv, TypeOK
<1>14. KeptIsLog' /\ SourcesEmitted' /\ NothingSkipped' /\ AdvancingIsKept' /\ NothingForgotten'
  BY <1>1, <1>7 DEF IInv, KeptIsLog, IsLog, Numbers, SourcesEmitted, NothingSkipped,
     AdvancingIsKept, NothingForgotten
<1>15. QueueIsEnd'
  BY <1>1, <1>8, <1>10, Counters DEF IInv, QueueIsEnd
<1>16. BatchesAreKept'
  BY <1>1, <1>7 DEF IInv, BatchesAreKept, ValidateEventBatch
<1>17. RequestIsNext'
  <2>1. /\ feed .. Stored \subseteq feed .. top
        /\ \A base \in feed .. Stored : 1 .. Stored - base \subseteq 1 .. top - base
    BY <1>8, Counters DEF IInv, TypeOK
  <2>2. QED
    BY <1>1, <1>10, <2>1 DEF IInv, RequestIsNext
<1>18. OnlyRetentionSkips'
  BY <1>1 DEF IInv, OnlyRetentionSkips
<1>19. QED
  BY <1>1, <1>7, <1>11, <1>13, <1>14, <1>15, <1>16, <1>17, <1>18 DEF IInv

\* What is left of a sequence behind its first c elements.
LEMMA Suffix ==
  ASSUME NEW S, NEW s \in Seq(S), NEW c \in Nat, c <= Len(s)
  PROVE  /\ SubSeq(s, c + 1, Len(s)) \in Seq(S)
         /\ Len(SubSeq(s, c + 1, Len(s))) = Len(s) - c
         /\ \A i \in 1 .. Len(s) - c : SubSeq(s, c + 1, Len(s))[i] = s[c + i]
<1> DEFINE n == Len(s)
           t == SubSeq(s, c + 1, n)
<1>1. n \in Nat /\ \A i \in 1 .. n : s[i] \in S
  BY ElementOfSeq, LenProperties
<1>2. c + 1 \in Int /\ n \in Int /\ \A i \in c + 1 .. n : s[i] \in S
  BY <1>1
<1>3. /\ t \in Seq(S)
      /\ Len(t) = IF c + 1 <= n THEN n - (c + 1) + 1 ELSE 0
      /\ \A i \in 1 .. n - (c + 1) + 1 : t[i] = s[(c + 1) + i - 1]
  BY <1>2, SubSeqProperties
<1>4. c <= n
  OBVIOUS
<1> HIDE DEF n, t
<1>5. n - (c + 1) + 1 = n - c /\ \A i \in Int : (c + 1) + i - 1 = c + i
  BY <1>1
<1>6. Len(t) = n - c
  <2>1. CASE c + 1 <= n
    BY <1>3, <1>5, <2>1
  <2>2. CASE ~(c + 1 <= n)
    BY <1>1, <1>3, <1>4, <2>2
  <2>3. QED
    BY <2>1, <2>2
<1>7. ASSUME NEW i \in 1 .. n - c PROVE t[i] = s[c + i]
  <2>1. i \in 1 .. n - (c + 1) + 1 /\ (c + 1) + i - 1 = c + i
    BY <1>5
  <2>2. t[i] = s[(c + 1) + i - 1]
    BY <1>3, <2>1
  <2>3. QED
    BY <2>1, <2>2
<1>8. QED
  BY <1>3, <1>6, <1>7 DEF n, t

\* What the Agent removes from its queue is in the database.
LEMMA RemoveStep ==
  ASSUME IInv, NEW highest \in acks, Remove(highest)
  PROVE  IInv' /\ Kept' = Kept /\ ledger' = ledger
<1> DEFINE base == sequence - Len(queue)
           c == Covered(highest)
<1>1. /\ Covered(highest) > 0 /\ queue' = SubSeq(queue, c + 1, Len(queue))
      /\ UNCHANGED <<emitted, cursor, advancing, sequence, crashes, batches, acks, ledger,
                     removed, feed,
                     request, consumed>>
  BY DEF Remove, wire, center, plugin
<1>2. highest \in 1 .. Stored /\ highest \in Int /\ highest <= sequence
  BY Counters DEF IInv, TypeOK
<1>3. /\ base \in Nat /\ base <= Stored /\ base + Len(queue) = sequence
      /\ \A k \in 1 .. Len(queue) : queue[k].sequence = base + k
  BY Counters DEF IInv, QueueIsEnd
<1> HIDE DEF base
<1>4. c = highest - base /\ c \in 1 .. Len(queue)
  <2>1. {k \in DOMAIN queue : queue[k].sequence <= highest} = 1 .. highest - base
    <3>1. {k \in DOMAIN queue : queue[k].sequence <= highest} =
             {k \in 1 .. Len(queue) : base + k <= highest}
      BY <1>3, Counters
    <3>2. {k \in 1 .. Len(queue) : base + k <= highest} = 1 .. highest - base
      BY <1>2, <1>3, Counters
    <3>3. QED
      BY <3>1, <3>2
  <2>2. highest - base \in Int /\ 1 \in Int
    BY <1>2, <1>3
  <2>3. Cardinality(1 .. highest - base) =
          IF 1 > highest - base THEN 0 ELSE (highest - base) - 1 + 1
    BY <2>2, FS_Interval
  <2>4. c = Cardinality(1 .. highest - base)
    BY <2>1 DEF Covered
  <2>5. c > 0
    BY <1>1
  <2> HIDE DEF c
  <2>6. c = highest - base /\ c >= 1
    BY <2>2, <2>3, <2>4, <2>5
  <2>7. QED
    BY <1>2, <1>3, <2>6, Counters
<1>5. queue' = SubSeq(queue, c + 1, Len(queue)) /\ c \in Nat /\ c >= 1 /\ c <= Len(queue)
  BY <1>1, <1>4, Counters
<1> HIDE DEF c
<1>6. /\ queue' \in Seq(Event) /\ Len(queue') = Len(queue) - c
      /\ \A i \in 1 .. Len(queue) - c : queue'[i] = queue[c + i]
  BY <1>5, Suffix DEF IInv, TypeOK
<1>7. Kept' = Kept
  <2>1. DOMAIN queue' = 1 .. Len(queue) - c
    BY <1>6, LenProperties
  <2>2. Kept' \subseteq Kept
    <3>1. \A i \in 1 .. Len(queue) - c : c + i \in 1 .. Len(queue)
      BY <1>4, Counters
    <3>2. \A i \in 1 .. Len(queue) - c : queue'[i] \in Kept
      BY <1>6, <3>1, Counters
    <3>3. QED
      BY <1>1, <2>1, <3>2 DEF Kept
  <2>3. ASSUME NEW k \in 1 .. Len(queue) PROVE queue[k] \in Kept'
    <3>1. CASE k <= c
      <4>1. queue[k].sequence <= Stored /\ queue[k] \in Kept
        BY <1>2, <1>3, <1>4, <3>1, Counters
      <4>2. queue[k] \in ledger
        BY <4>1, StoredIsLedger
      <4>3. QED
        BY <1>1, <4>2 DEF Kept
    <3>2. CASE k > c
      <4>1. k - c \in 1 .. Len(queue) - c /\ c + (k - c) = k
        BY <1>4, <3>2, Counters
      <4>2. queue'[k - c] = queue[k]
        BY <1>6, <4>1
      <4>3. QED
        BY <2>1, <4>1, <4>2 DEF Kept
    <3>3. QED
      BY <1>4, <3>1, <3>2, Counters
  <2>4. Kept \subseteq Kept'
    BY <1>1, <2>3, Counters DEF Kept
  <2>5. QED
    BY <2>2, <2>4
<1>8. Stored' = Stored
  BY <1>1 DEF Stored
<1>9. TypeOK' /\ (sequence \in Nat)'
  <2>1. Len(queue) <= MaxQueue /\ MaxQueue \in Nat
    BY SizeAssumption DEF IInv, TypeOK
  <2>2. Len(queue') = Len(queue) - c /\ Len(queue) \in Nat /\ c \in Nat
    BY <1>5, <1>6, Counters
  <2>3. Len(queue') <= MaxQueue
    BY <2>1, <2>2
  <2>4. QED
    BY <1>1, <1>6, <1>8, <2>3 DEF IInv, TypeOK
<1>10. KeptIsLog' /\ LedgerIsStart' /\ SourcesEmitted' /\ NothingSkipped'
  BY <1>1, <1>7, <1>8 DEF IInv, KeptIsLog, LedgerIsStart, IsLog, Numbers, SourcesEmitted,
     NothingSkipped
<1>11. QueueIsEnd'
  <2>1. Len(queue') <= sequence /\ sequence - Len(queue') = highest
    <3>1. Len(queue') = Len(queue) - c /\ Len(queue) \in Nat /\ c \in Nat
      BY <1>5, <1>6, Counters
    <3>2. /\ c = highest - base /\ base + Len(queue) = sequence
          /\ base \in Nat /\ highest \in Int /\ highest <= sequence
      BY <1>2, <1>3, <1>4
    <3>3. QED
      BY <3>1, <3>2
  <2>2. \A i \in 1 .. Len(queue) - c : queue'[i].sequence = highest + i
    <3>1. \A i \in 1 .. Len(queue) - c : c + i \in 1 .. Len(queue) /\ base + (c + i) = highest + i
      BY <1>2, <1>3, <1>4, Counters
    <3>2. QED
      BY <1>3, <1>6, <3>1
  <2>3. QED
    BY <1>1, <1>2, <1>6, <1>8, <2>1, <2>2, Counters DEF QueueIsEnd
<1>12. BatchesAreKept'
  BY <1>1, <1>7 DEF IInv, BatchesAreKept, ValidateEventBatch
<1>13. AdvancingIsKept' /\ NothingForgotten'
  BY <1>1, <1>7 DEF IInv, AdvancingIsKept, NothingForgotten
<1>14. RequestIsNext' /\ OnlyRetentionSkips'
  BY <1>1, <1>8 DEF IInv, RequestIsNext, OnlyRetentionSkips
<1>15. QED
  BY <1>1, <1>7, <1>9, <1>10, <1>11, <1>12, <1>13, <1>14 DEF IInv

\* A page is queued whole, right behind the events the cursor has passed.
LEMMA CollectStep ==
  ASSUME IInv, NEW value \in Responses, Collect(value)
  PROVE  IInv' /\ Kept \subseteq Kept' /\ UNCHANGED <<emitted, ledger, feed>>
<1> DEFINE n == Len(value.events)
           page == [k \in DOMAIN value.events |->
                      [sequence |-> sequence + k, source |-> value.events[k]]]
<1>1. /\ advancing = 0 /\ ValidateCollectTelemetryResponse(cursor, value)
      /\ Len(queue) + n <= MaxQueue
      /\ queue' = queue \o page /\ sequence' = sequence + n /\ advancing' = value.next
      /\ UNCHANGED <<emitted, cursor, crashes, batches, acks, ledger, removed, feed, request,
                     consumed>>
  BY DEF Collect, wire, center, plugin
<1>2. PICK m \in 0 .. PageSize + 1 : value.events \in [1 .. m -> 1 .. emitted]
  BY DEF Responses
<1>3. n = m /\ n \in Nat /\ DOMAIN value.events = 1 .. n
  BY <1>2, FunctionIsSeq, SizeAssumption
<1>4. \A k \in 1 .. n : value.events[k] = cursor + k /\ cursor + k \in 1 .. emitted
  <2>1. \A k \in 1 .. n : value.events[k] = cursor + k
    BY <1>1, <1>3 DEF ValidateCollectTelemetryResponse
  <2>2. \A k \in 1 .. n : value.events[k] \in 1 .. emitted
    BY <1>2, <1>3
  <2>3. QED
    BY <2>1, <2>2
<1>5. value.next = cursor + n /\ value.next \in 0 .. emitted
  BY <1>1 DEF ValidateCollectTelemetryResponse, Responses
<1>6. /\ \A k \in 1 .. n : page[k] = [sequence |-> sequence + k, source |-> cursor + k]
      /\ page = [k \in 1 .. n |-> page[k]]
  BY <1>3, <1>4
<1> HIDE DEF page, n
<1>7. page \in [1 .. n -> Event]
  <2>1. emitted \in 0 .. MaxEvents /\ MaxEvents \in Nat
    BY SizeAssumption DEF IInv, TypeOK
  <2>2. ASSUME NEW k \in 1 .. n PROVE page[k] \in Event
    <3>1. sequence + k \in Nat \ {0} /\ cursor + k \in 1 .. MaxEvents
      BY <1>3, <1>4, <2>1, Counters
    <3>2. QED
      BY <1>6, <3>1 DEF Event
  <2>3. QED
    BY <1>6, <2>2
<1>8. page \in Seq(Event) /\ Len(page) = n
  BY <1>3, <1>7, FunctionIsSeq
<1>9. /\ queue' \in Seq(Event) /\ Len(queue') = Len(queue) + n
      /\ \A k \in 1 .. Len(queue) : queue'[k] = queue[k]
      /\ \A k \in 1 .. n : queue'[Len(queue) + k] = page[k]
  <2>1. queue \in Seq(Event)
    BY DEF IInv, TypeOK
  <2>2. /\ queue' \in Seq(Event) /\ Len(queue') = Len(queue) + n
        /\ \A k \in 1 .. Len(queue) + n : queue'[k] =
              IF k <= Len(queue) THEN queue[k] ELSE page[k - Len(queue)]
    BY <1>1, <1>8, <2>1, ConcatProperties
  <2>3. \A k \in 1 .. n : /\ Len(queue) + k \in 1 .. Len(queue) + n
                           /\ ~(Len(queue) + k <= Len(queue)) /\ Len(queue) + k - Len(queue) = k
    BY <1>3, Counters
  <2>4. \A k \in 1 .. Len(queue) : queue'[k] = queue[k]
    <3>1. \A k \in 1 .. Len(queue) : k \in 1 .. Len(queue) + n /\ k <= Len(queue)
      BY <1>3, Counters
    <3>2. QED
      BY <2>2, <3>1
  <2>5. \A k \in 1 .. n : queue'[Len(queue) + k] = page[k]
    BY <2>2, <2>3
  <2>6. QED
    BY <2>2, <2>4, <2>5
<1>10. Kept' = Kept \cup {page[k] : k \in 1 .. n}
  <2>1. DOMAIN queue' = 1 .. Len(queue) + n
    BY <1>9, LenProperties
  <2>2. \A k \in 1 .. Len(queue) + n :
          k \in 1 .. Len(queue) \/ (k - Len(queue) \in 1 .. n /\ Len(queue) + (k - Len(queue)) = k)
    BY <1>3, Counters
  <2>3. \A k \in 1 .. Len(queue) + n : queue'[k] \in Kept \cup {page[i] : i \in 1 .. n}
    BY <1>9, <2>2, Counters
  <2>4. \A k \in 1 .. n : Len(queue) + k \in 1 .. Len(queue) + n
    BY <1>3, Counters
  <2>5. \A k \in 1 .. Len(queue) : k \in 1 .. Len(queue) + n
    BY <1>3, Counters
  <2>6. Kept' \subseteq Kept \cup {page[k] : k \in 1 .. n}
    BY <1>1, <2>1, <2>3 DEF Kept
  <2>7. Kept \subseteq Kept'
    BY <1>1, <1>9, <2>1, <2>5, Counters DEF Kept
  <2>8. \A k \in 1 .. n : page[k] \in Kept'
    BY <1>9, <2>1, <2>4 DEF Kept
  <2>9. QED
    BY <2>6, <2>7, <2>8
<1>11. Stored' = Stored
  BY <1>1 DEF Stored
<1>12. TypeOK' /\ (sequence \in Nat)'
  BY <1>1, <1>3, <1>5, <1>9, <1>11, Counters DEF IInv, TypeOK
<1>13. /\ \A k \in 1 .. n : page[k].sequence = sequence + k /\ page[k].source = cursor + k
       /\ \A k \in 1 .. n : k \in Nat
  <2> SUFFICES ASSUME NEW k \in 1 .. n
      PROVE  page[k].sequence = sequence + k /\ page[k].source = cursor + k /\ k \in Nat
    OBVIOUS
  <2>1. page[k] = [sequence |-> sequence + k, source |-> cursor + k]
    BY <1>6
  <2>2. QED
    BY <1>3, <2>1
<1>14. KeptIsLog'
  <2>1. ASSUME NEW e \in Kept' PROVE e.sequence \in 1 .. sequence + n
    BY <1>3, <1>13, <1>10, KeptRecords, Counters
  <2>2. ASSUME NEW i \in 1 .. sequence + n PROVE \E e \in Kept' : e.sequence = i
    <3>1. CASE i <= sequence
      <4>1. i \in 1 .. sequence
        BY <1>3, <3>1, Counters
      <4>2. i \in Numbers(Kept)
        BY <4>1 DEF IInv, KeptIsLog, IsLog
      <4>3. QED
        BY <1>10, <4>2 DEF Numbers
    <3>2. CASE i > sequence
      <4>1. i - sequence \in 1 .. n /\ sequence + (i - sequence) = i
        BY <1>3, <3>2, Counters
      <4>2. page[i - sequence].sequence = i
        BY <1>13, <4>1
      <4>3. QED
        BY <1>10, <4>1, <4>2
    <3>3. QED
      BY <1>3, <3>1, <3>2, Counters
  <2>3. \A e \in Kept, k \in 1 .. n : e.sequence # page[k].sequence
    BY <1>3, <1>13, KeptRecords, Counters
  <2>4. \A j, k \in 1 .. n : page[j].sequence = page[k].sequence => j = k
    BY <1>3, <1>13, Counters
  <2>5. \A e, f \in Kept' : e.sequence = f.sequence => e = f
    BY <1>10, <2>3, <2>4, KeptRecords
  <2>6. QED
    BY <1>1, <2>1, <2>2, <2>5 DEF KeptIsLog, IsLog, Numbers
<1>15. LedgerIsStart'
  BY <1>1, <1>3, <1>11, Counters DEF IInv, LedgerIsStart, IsLog, Numbers
<1>16. QueueIsEnd'
  <2>1. ASSUME NEW k \in 1 .. Len(queue')
        PROVE  queue'[k].sequence = sequence - Len(queue) + k
    <3>1. CASE k <= Len(queue)
      <4>1. k \in 1 .. Len(queue)
        BY <1>3, <1>9, <3>1, Counters
      <4>2. queue'[k] = queue[k] /\ queue[k].sequence = sequence - Len(queue) + k
        BY <1>9, <4>1 DEF IInv, QueueIsEnd
      <4>3. QED
        BY <4>2
    <3>2. CASE k > Len(queue)
      <4>1. k - Len(queue) \in 1 .. n /\ Len(queue) + (k - Len(queue)) = k
        BY <1>3, <1>9, <3>2, Counters
      <4>2. queue'[k].sequence = sequence + (k - Len(queue))
        BY <1>13, <1>9, <4>1
      <4>3. QED
        BY <1>3, <1>9, <4>2, Counters
    <3>3. QED
      BY <1>3, <1>9, <3>1, <3>2, Counters
  <2>2. /\ sequence' - Len(queue') = sequence - Len(queue)
        /\ Len(queue') <= sequence'
    BY <1>1, <1>3, <1>9, Counters
  <2>3. QED
    BY <1>11, <2>1, <2>2 DEF IInv, QueueIsEnd
<1>17. SourcesEmitted'
  BY <1>1, <1>4, <1>13, <1>10 DEF IInv, SourcesEmitted
<1>18. BatchesAreKept'
  BY <1>1, <1>10 DEF IInv, BatchesAreKept, ValidateEventBatch
<1>19. NothingForgotten' /\ AdvancingIsKept'
  <2>1. NothingForgotten'
    BY <1>1, <1>10 DEF IInv, NothingForgotten
  <2>2. ASSUME NEW source \in 1 .. cursor + n PROVE \E e \in Kept' : e.source = source
    <3>1. CASE source <= cursor
      BY <1>10, <3>1, Counters DEF IInv, NothingForgotten
    <3>2. CASE source > cursor
      <4>1. source - cursor \in 1 .. n /\ cursor + (source - cursor) = source
        BY <1>3, <3>2, Counters
      <4>2. page[source - cursor].source = source
        BY <1>13, <4>1
      <4>3. QED
        BY <1>10, <4>1, <4>2
    <3>3. QED
      BY <1>3, <3>1, <3>2, Counters
  <2>3. QED
    BY <1>1, <1>5, <2>1, <2>2 DEF AdvancingIsKept
<1>20. NothingSkipped'
  <2> SUFFICES ASSUME NEW e \in Kept', NEW source \in 1 .. e.source
               PROVE  \E earlier \in Kept' :
                        earlier.source = source /\ earlier.sequence <= e.sequence
    BY DEF NothingSkipped
  <2>1. CASE e \in Kept
    BY <1>10, <2>1 DEF IInv, NothingSkipped
  <2>2. ASSUME NEW k \in 1 .. n, e = page[k]
        PROVE  \E earlier \in Kept' :
                 earlier.source = source /\ earlier.sequence <= e.sequence
    <3>1. e.sequence = sequence + k /\ e.source = cursor + k /\ k \in Nat /\ source \in Nat
      BY <1>3, <1>13, <2>2, Counters
    <3>2. CASE source <= cursor
      <4>1. PICK earlier \in Kept : earlier.source = source
        BY <3>1, <3>2, Counters DEF IInv, NothingForgotten
      <4>2. earlier.sequence <= e.sequence
        BY <3>1, KeptRecords, Counters
      <4>3. QED
        BY <1>10, <4>1, <4>2
    <3>3. CASE source > cursor
      <4>1. /\ source - cursor \in 1 .. n /\ cursor + (source - cursor) = source
            /\ source - cursor <= k
        BY <1>3, <3>1, <3>3, Counters
      <4>2. /\ page[source - cursor].source = source
            /\ page[source - cursor].sequence <= e.sequence
        BY <1>13, <3>1, <4>1, Counters
      <4>3. QED
        BY <1>10, <4>1, <4>2
    <3>4. QED
      BY <3>1, <3>2, <3>3, Counters
  <2>3. QED
    BY <1>10, <2>1, <2>2
<1>21. RequestIsNext' /\ OnlyRetentionSkips'
  BY <1>1, <1>11 DEF IInv, RequestIsNext, OnlyRetentionSkips
<1>22. QED
  BY <1>1, <1>10, <1>12, <1>14, <1>15, <1>16, <1>17, <1>18, <1>19, <1>20, <1>21 DEF IInv

LEMMA NextIInv == IInv /\ [Next]_vars => IInv'
<1> SUFFICES ASSUME IInv, [Next]_vars PROVE IInv'
  OBVIOUS
<1>1. CASE Emit \/ Advance \/ Crash
  BY <1>1, CursorStep
<1>2. ASSUME NEW value \in Responses, Collect(value) PROVE IInv'
  BY <1>2, CollectStep
<1>3. CASE Send
  BY <1>3, SendStep
<1>4. ASSUME NEW batch \in batches, Store(batch) PROVE IInv'
  BY <1>4, StoreStep
<1>5. ASSUME NEW highest \in acks, Remove(highest) PROVE IInv'
  BY <1>5, RemoveStep
<1>6. CASE Clean \/ Feed \/ FeedFails \/ \E through \in 1 .. Stored + 1 : Consume(through)
  BY <1>6, FeedStep
<1>7. CASE UNCHANGED vars
  <2>1. /\ UNCHANGED <<queue, sequence, batches, acks, ledger, removed, feed, request, consumed>>
        /\ UNCHANGED <<emitted, cursor, advancing>>
    BY <1>7 DEF vars, agent, wire, center, plugin
  <2>2. Kept' = Kept /\ Stored' = Stored
    BY <2>1 DEF Kept, Stored
  <2>3. /\ KeptIsLog' /\ LedgerIsStart' /\ QueueIsEnd' /\ SourcesEmitted'
        /\ BatchesAreKept' /\ NothingSkipped'
    BY <2>1, LogStays, Counters
  <2>4. AdvancingIsKept' /\ NothingForgotten' /\ RequestIsNext' /\ OnlyRetentionSkips'
    BY <2>1, <2>2 DEF IInv, AdvancingIsKept, NothingForgotten, RequestIsNext, OnlyRetentionSkips
  <2>5. QED
    BY <2>1, <2>2, <2>3, <2>4 DEF IInv, TypeOK
<1>8. QED
  BY <1>1, <1>2, <1>3, <1>4, <1>5, <1>6, <1>7 DEF Next

LEMMA Invariance == Spec => []IInv
<1>1. Init => IInv
  BY InitIInv
<1>2. IInv /\ [Next]_vars => IInv'
  BY NextIInv
<1>3. QED
  BY <1>1, <1>2, PTL DEF Spec

-----------------------------------------------------------------------------
(* The invariants                                                          *)

\* The cursors stay behind what they count, and no acknowledgement and no
\* answer of the plugin is of an event that the database does not have.
THEOREM TypeCorrect == Spec => []TypeOK
<1>1. IInv => TypeOK
  BY DEF IInv
<1>2. QED
  BY <1>1, Invariance, PTL

\* The database is one log in which every number is one event, and nothing is
\* lost or left out between the node plugin, the Agent and the center, though
\* batches and acknowledgements are lost, repeated and late and the Agent
\* crashes at any time; the cursor of the feature plugin passes only what the
\* plugin has persisted or retention has removed.
THEOREM OnlyRetentionLoses == Spec => []LogIsWhole
<1>1. ASSUME IInv PROVE LedgerIsLog
  <2>1. {event.sequence : event \in ledger} = 1 .. Stored
    BY <1>1 DEF IInv, LedgerIsStart, IsLog, Numbers
  <2>2. \A k \in DOMAIN queue : queue[k].sequence <= Stored => queue[k] \in ledger
    BY <1>1, StoredIsLedger DEF Kept
  <2>3. QED
    BY <2>1, <2>2 DEF LedgerIsLog
<1>2. IInv => LogIsWhole
  BY <1>1 DEF LogIsWhole, IInv
<1>3. QED
  BY <1>2, Invariance, PTL

-----------------------------------------------------------------------------
(* The refinement of EventLog                                              *)

\* There is a first event that is not among the records.
LEMMA ReachOfRecords ==
  ASSUME NEW events, Sources(events) \subseteq 1 .. MaxEvents
  PROVE  /\ Reach(events) \in 0 .. MaxEvents
         /\ 1 .. Reach(events) \subseteq Sources(events)
         /\ Reach(events) + 1 \notin Sources(events)
<1> DEFINE missing == {i \in Nat \ {0} : i \notin Sources(events)}
<1>1. MaxEvents \in Nat
  BY SizeAssumption
<1>2. MaxEvents + 1 \in missing
  BY <1>1
<1>3. PICK m \in missing : \A i \in missing : m <= i
  BY <1>2, Least
<1>4. m \in Nat \ {0} /\ m \notin Sources(events) /\ m <= MaxEvents + 1
  BY <1>2, <1>3
<1>5. m - 1 \in 0 .. MaxEvents /\ (m - 1) + 1 = m
  BY <1>1, <1>4
<1>6. 1 .. m - 1 \subseteq Sources(events)
  BY <1>3, <1>4
<1> HIDE DEF missing
<1>7. /\ 1 .. m - 1 \subseteq {event.source : event \in events}
      /\ (m - 1) + 1 \notin {event.source : event \in events}
  BY <1>4, <1>5, <1>6 DEF Sources
<1>8. \E top \in 0 .. MaxEvents :
        /\ 1 .. top \subseteq {event.source : event \in events}
        /\ top + 1 \notin {event.source : event \in events}
  BY <1>5, <1>7
<1>9. QED
  BY <1>8 DEF Reach, Sources

\* More records reach at least as far.
LEMMA ReachGrows ==
  ASSUME NEW events, NEW more, events \subseteq more, Sources(more) \subseteq 1 .. MaxEvents
  PROVE  Reach(events) <= Reach(more)
<1>1. Sources(events) \subseteq Sources(more)
  BY DEF Sources
<1>2. /\ Reach(events) \in Nat /\ 1 .. Reach(events) \subseteq Sources(events)
      /\ Reach(more) \in Nat /\ Reach(more) + 1 \notin Sources(more)
  BY <1>1, ReachOfRecords, SizeAssumption
<1>3. Reach(more) + 1 \notin 1 .. Reach(events)
  BY <1>1, <1>2
<1>4. QED
  BY <1>2, <1>3

\* Kept records reach no further than the events that have happened.
LEMMA ReachOfKept ==
  ASSUME IInv, NEW events \in SUBSET Kept
  PROVE  /\ Sources(events) \subseteq 1 .. MaxEvents
         /\ Reach(events) \in Nat /\ Reach(events) <= emitted
<1>1. \A e \in events : e.source \in 1 .. emitted
  BY DEF IInv, SourcesEmitted
<1>2. Sources(events) \subseteq 1 .. emitted
  BY <1>1 DEF Sources
<1>3. emitted \in 0 .. MaxEvents /\ MaxEvents \in Nat
  BY SizeAssumption DEF IInv, TypeOK
<1>4. Sources(events) \subseteq 1 .. MaxEvents
  BY <1>2, <1>3
<1>5. Reach(events) \in 0 .. MaxEvents /\ 1 .. Reach(events) \subseteq 1 .. emitted
  BY <1>2, <1>4, ReachOfRecords
<1>6. QED
  BY <1>3, <1>4, <1>5

\* What the cursor of the feature plugin has passed.
Seen == {event \in ledger : event.sequence <= feed}

LEMMA InitLog == Init => Log!Init
<1> SUFFICES ASSUME Init PROVE Log!Init
  OBVIOUS
<1>1. Kept = {} /\ ledger = {} /\ {event \in ledger : event.sequence <= feed} = {}
  BY DEF Init, Kept
<1>2. Sources({}) = {}
  BY DEF Sources
<1>3. Reach({}) \in 0 .. MaxEvents /\ 1 .. Reach({}) \subseteq {}
  BY <1>2, ReachOfRecords
<1>4. Reach({}) = 0
  BY <1>3, SizeAssumption
<1>5. QED
  BY <1>1, <1>4 DEF Init, Log!Init

LEMMA StepLog ==
  ASSUME IInv, IInv', [Next]_vars
  PROVE  [Log!Next]_<<emitted, Reach(Kept), Reach(ledger),
                      Reach({event \in ledger : event.sequence <= feed})>>
<1>1. Seen \subseteq ledger /\ ledger \subseteq Kept
  BY DEF Seen, Kept
<1>2. /\ Reach(Kept)' = Reach(Kept') /\ Reach(ledger)' = Reach(ledger')
      /\ Reach({event \in ledger : event.sequence <= feed}) = Reach(Seen)
      /\ Reach({event \in ledger : event.sequence <= feed})' = Reach(Seen')
  BY DEF Reach, Seen
<1>3. /\ Reach(Kept) \in Nat /\ Reach(Kept) <= emitted
      /\ Reach(ledger) \in Nat /\ Reach(Seen) \in Nat
      /\ emitted \in Nat
      /\ Sources(Kept) \subseteq 1 .. MaxEvents /\ Sources(ledger) \subseteq 1 .. MaxEvents
      /\ Sources(Seen) \subseteq 1 .. MaxEvents
  BY <1>1, ReachOfKept, Counters
<1>4. /\ Sources(Kept') \subseteq 1 .. MaxEvents /\ Sources(ledger') \subseteq 1 .. MaxEvents
      /\ Sources(Seen') \subseteq 1 .. MaxEvents
      /\ Reach(Kept') \in Nat /\ Reach(Kept') <= emitted'
      /\ Reach(ledger') \in Nat /\ Reach(Seen') \in Nat
  <2>1. \A e \in Kept' : e.source \in 1 .. emitted'
    BY DEF IInv, SourcesEmitted
  <2>2. emitted' \in 0 .. MaxEvents /\ MaxEvents \in Nat
    BY SizeAssumption DEF IInv, TypeOK
  <2>3. ledger' \subseteq Kept' /\ Seen' \subseteq Kept'
    BY DEF Kept, Seen
  <2>4. Sources(Kept') \subseteq 1 .. emitted'
    BY <2>1 DEF Sources
  <2>5. Sources(ledger') \subseteq Sources(Kept') /\ Sources(Seen') \subseteq Sources(Kept')
    BY <2>3 DEF Sources
  <2>6. /\ Sources(Kept') \subseteq 1 .. MaxEvents /\ Sources(ledger') \subseteq 1 .. MaxEvents
        /\ Sources(Seen') \subseteq 1 .. MaxEvents
    BY <2>2, <2>4, <2>5
  <2>7. /\ Reach(Kept') \in 0 .. MaxEvents /\ 1 .. Reach(Kept') \subseteq 1 .. emitted'
        /\ Reach(ledger') \in 0 .. MaxEvents /\ Reach(Seen') \in 0 .. MaxEvents
    BY <2>4, <2>6, ReachOfRecords
  <2>8. QED
    BY <2>2, <2>6, <2>7
<1> DEFINE Stutter == UNCHANGED <<emitted, Reach(Kept), Reach(ledger),
                                  Reach({event \in ledger : event.sequence <= feed})>>
<1>5. CASE Emit
  <2>1. emitted' = emitted + 1 /\ Kept' = Kept /\ ledger' = ledger /\ Seen' = Seen
    BY <1>5 DEF Emit, agent, center, plugin, Kept, Seen
  <2>2. Log!Emit
    BY <1>2, <2>1 DEF Log!Emit
  <2>3. QED
    BY <2>2 DEF Log!Next
<1>6. CASE Advance \/ Crash \/ Send \/ UNCHANGED vars
  <2>1. UNCHANGED <<emitted, queue, ledger, feed>>
    BY <1>6 DEF Advance, Crash, Send, vars, agent, wire, center, plugin
  <2>2. Kept' = Kept /\ ledger' = ledger /\ Seen' = Seen
    BY <2>1 DEF Kept, Seen
  <2>3. Stutter
    BY <1>2, <2>1, <2>2
  <2>4. QED
    BY <2>3
<1>7. ASSUME NEW value \in Responses, Collect(value) PROVE Log!Hold \/ Stutter
  <2>1. Kept \subseteq Kept' /\ emitted' = emitted /\ ledger' = ledger /\ feed' = feed
    BY <1>7, CollectStep
  <2>2. Seen' = Seen
    BY <2>1 DEF Seen
  <2>3. Reach(Kept) <= Reach(Kept')
    BY <1>4, <2>1, ReachGrows
  <2>4. Reach(Kept') = Reach(Kept) \/ Reach(Kept') \in Reach(Kept) + 1 .. emitted
    BY <1>3, <1>4, <2>1, <2>3
  <2>5. QED
    BY <1>2, <2>1, <2>2, <2>4 DEF Log!Hold
<1>8. ASSUME NEW batch \in batches, Store(batch) PROVE Log!Store \/ Stutter
  <2>1. Kept' = Kept /\ ledger \subseteq ledger'
    BY <1>8, StoreStep
  <2>2. emitted' = emitted /\ feed' = feed
    BY <1>8 DEF Store, plugin
  <2>3. Seen' = Seen
    <3>1. ASSUME NEW e \in Seen' PROVE e \in Seen
      <4>1. e \in ledger' /\ e.sequence <= feed
        BY <2>2 DEF Seen
      <4>2. e \in Kept /\ feed <= Stored /\ feed \in Nat
        BY <2>1, <4>1, Counters DEF Kept, IInv, TypeOK
      <4>3. e.sequence <= Stored
        BY <4>1, <4>2, KeptRecords, Counters
      <4>4. QED
        BY <4>1, <4>2, <4>3, StoredIsLedger DEF Seen
    <3>2. Seen \subseteq Seen'
      BY <2>1, <2>2 DEF Seen
    <3>3. QED
      BY <3>1, <3>2
  <2>4. Reach(ledger) <= Reach(ledger')
    BY <1>4, <2>1, ReachGrows
  <2>5. ledger' \subseteq Kept'
    BY DEF Kept
  <2>6. Reach(ledger') <= Reach(Kept)
    BY <1>4, <2>1, <2>5, ReachGrows
  <2>7. Reach(ledger') = Reach(ledger) \/ Reach(ledger') \in Reach(ledger) + 1 .. Reach(Kept)
    BY <1>3, <1>4, <2>4, <2>6
  <2>8. QED
    BY <1>2, <2>1, <2>2, <2>3, <2>7 DEF Log!Store
<1>9. ASSUME NEW highest \in acks, Remove(highest) PROVE Stutter
  <2>1. Kept' = Kept /\ ledger' = ledger
    BY <1>9, RemoveStep
  <2>2. emitted' = emitted /\ feed' = feed
    BY <1>9 DEF Remove, center, plugin
  <2>3. Seen' = Seen
    BY <2>1, <2>2 DEF Seen
  <2>4. QED
    BY <1>2, <2>1, <2>2, <2>3
<1>10. CASE Clean \/ Feed \/ FeedFails \/ \E through \in 1 .. Stored + 1 : Consume(through)
  <2>1. feed <= feed' /\ emitted' = emitted /\ queue' = queue /\ ledger' = ledger
    BY <1>10, FeedStep
  <2>2. Kept' = Kept
    BY <2>1 DEF Kept
  <2>3. \A e \in ledger : e.sequence \in Nat
    BY KeptRecords, Counters DEF Kept
  <2>4. feed \in Nat /\ feed' \in Nat
    BY DEF IInv, TypeOK
  <2>5. Seen \subseteq Seen' /\ Seen' \subseteq ledger
    BY <2>1, <2>3, <2>4 DEF Seen
  <2>6. Reach(Seen) <= Reach(Seen') /\ Reach(Seen') <= Reach(ledger)
    BY <1>3, <1>4, <2>5, ReachGrows
  <2>7. Reach(Seen') = Reach(Seen) \/ Reach(Seen') \in Reach(Seen) + 1 .. Reach(ledger)
    BY <1>3, <1>4, <2>6
  <2>8. Log!See \/ Stutter
    BY <1>2, <2>1, <2>2, <2>7 DEF Log!See
  <2>9. QED
    BY <2>8 DEF Log!Next
<1>11. QED
  BY <1>5, <1>6, <1>7, <1>8, <1>9, <1>10 DEF Next, Log!Next

\* End to end the three hops implement the one log: the Agent, the center and
\* the feature plugin reach further into the events of the node plugin, each
\* behind the one before it, and never back.
THEOREM HopsAreOneLog == Spec => ImplementsEventLog
<1>1. Init => Log!Init
  BY InitLog
<1>2. IInv /\ IInv' /\ [Next]_vars =>
        [Log!Next]_<<emitted, Reach(Kept), Reach(ledger),
                     Reach({event \in ledger : event.sequence <= feed})>>
  BY StepLog
<1>3. QED
  BY <1>1, <1>2, Invariance, PTL DEF Spec, ImplementsEventLog, Log!Spec

=============================================================================
