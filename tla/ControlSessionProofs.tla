------------------------ MODULE ControlSessionProofs ------------------------
(***************************************************************************)
(* What the Agent takes for acknowledged or settled is so at the center,   *)
(* for any set of envelope IDs and any number of connections, losses, late *)
(* heartbeats and exits.  The argument is fencing: a connection holds      *)
(* nothing but its hello until the center has taken that, so the session a *)
(* newer hello has replaced is empty or an older one, and what is left of  *)
(* older connections no longer counts when it comes.                       *)
(***************************************************************************)
EXTENDS ControlSession, SequenceTheorems, TLAPS

Versions == {"old", "new"}

UpMessages ==
  [type : {"agent.hello"}, version : Versions]
    \cup [type : {"agent.heartbeat"}, session : Nat, version : Versions, id : Ids]
    \cup [type : {"agent.command_result"}, status : {"activated", "failed"}]

DownMessages ==
  [type : {"center.hello"}, session : Nat]
    \cup [type : {"center.heartbeat_ack"}, message : Ids, command : BOOLEAN]
    \cup [type : {"center.command_result_ack"}]

MessagesOK ==
  /\ up \in Seq(Seq(UpMessages)) /\ down \in Seq(DownMessages)
  /\ live.version \in Versions

\* What the Agent has of a connection whose hello the center has not answered.
Unanswering == ~greeted /\ sent = None /\ ~acked /\ down = <<>>

IsHello(m)  == m.type = "agent.hello"
IsBeat(m)   == m.type = "agent.heartbeat"
IsResult(m) == m.type = "agent.command_result"
IsAck(m)    == m.type = "center.heartbeat_ack"

\* A hello is alone on its connection.
HelloFirst ==
  /\ conn = None => Unanswering
  /\ \A k \in 1 .. Len(up) : \A i \in 1 .. Len(up[k]) :
       IsHello(up[k][i]) => Len(up[k]) = 1 /\ (k = conn => Unanswering)

\* The center has taken the hello of the Agent's connection.
HelloTaken ==
  conn # None /\ \A i \in 1 .. Len(up[conn]) : ~IsHello(up[conn][i])

\* If it then serves another, that one was opened later by a hello that was
\* late, and has nothing else.
Fenced ==
  HelloTaken /\ active # conn => active \in 1 .. Len(up) /\ Len(up[active]) = 0

\* A heartbeat tells of its own session, and of the version that runs.
BeatsAreOwn ==
  \A k \in 1 .. Len(up) : \A i \in 1 .. Len(up[k]) :
    IsBeat(up[k][i]) =>
      /\ up[k][i].session = k
      /\ k = conn => up[k][i].version = version

\* No heartbeat follows the latest one.
LatestIsLast ==
  conn # None =>
    \A i, j \in 1 .. Len(up[conn]) :
      i < j /\ IsBeat(up[conn][i]) /\ IsBeat(up[conn][j]) => up[conn][i].id # sent

\* The latest heartbeat is acknowledged, or its acknowledgement is on its way.
Answered ==
  acked \/ \E i \in 1 .. Len(down) : IsAck(down[i]) /\ down[i].message = sent

AnsweredIsLive ==
  Answered =>
    /\ live = [session |-> conn, id |-> sent, version |-> version]
    /\ \A i \in 1 .. Len(up[conn]) : ~IsBeat(up[conn][i])

\* Once a candidate is confirmed no heartbeat of the old version counts.
OldIsFenced ==
  update = "confirmed" =>
    \A k \in 1 .. Len(up) : \A i \in 1 .. Len(up[k]) :
      IsBeat(up[k][i]) /\ up[k][i].version = "old" => active # k

VersionFollowsUpdate ==
  version = IF update \in {"pending", "confirmed"} THEN "new" ELSE "old"

\* A result on its way tells how the update has ended.
ResultsHold ==
  \A k \in 1 .. Len(up) : \A i \in 1 .. Len(up[k]) :
    IsResult(up[k][i]) =>
      update = IF up[k][i].status = "activated" THEN "confirmed" ELSE "failed"

Queued == HelloFirst /\ BeatsAreOwn /\ LatestIsLast /\ ResultsHold

IInv ==
  /\ TypeOK /\ MessagesOK
  /\ Queued /\ Fenced /\ AnsweredIsLive /\ OldIsFenced /\ VersionFollowsUpdate
  /\ ConfirmedIsLive /\ OutcomeHolds

-----------------------------------------------------------------------------
\* Taking the first message of a connection leaves the rest of it, and the
\* other connections, as they were.
LEMMA ComesStep ==
  ASSUME MessagesOK, NEW k \in 1 .. Len(up), NEW type, Comes(k, type)
  PROVE  /\ up' \in Seq(Seq(UpMessages)) /\ Len(up') = Len(up)
         /\ up[k] \in Seq(UpMessages) /\ Len(up[k]) \in Nat /\ Len(up[k]) > 0
         /\ Head(up[k]) = up[k][1] /\ up[k][1] \in UpMessages /\ up[k][1].type = type
         /\ Len(up'[k]) = Len(up[k]) - 1
         /\ \A i \in 1 .. Len(up'[k]) : up'[k][i] = up[k][i + 1]
         /\ \A j \in 1 .. Len(up) : j # k => up'[j] = up[j]
<1>1. up \in Seq(Seq(UpMessages)) /\ up[k] # <<>> /\ Head(up[k]).type = type
  BY DEF MessagesOK, Comes
<1>2. up[k] \in Seq(UpMessages)
  BY <1>1, ElementOfSeq
<1>3. /\ Tail(up[k]) \in Seq(UpMessages)
      /\ Len(Tail(up[k])) = Len(up[k]) - 1
      /\ \A i \in 1 .. Len(Tail(up[k])) : Tail(up[k])[i] = up[k][i + 1]
  BY <1>1, <1>2, HeadTailProperties
<1>4. Len(up[k]) \in Nat /\ Len(up[k]) > 0
  BY <1>1, <1>2, EmptySeq
<1>5. Head(up[k]) = up[k][1] /\ up[k][1] \in UpMessages
  BY <1>1, <1>2, <1>4, ElementOfSeq
<1>6. up' = [up EXCEPT ![k] = Tail(up[k])]
  BY DEF Comes
<1>7. /\ up' \in Seq(Seq(UpMessages)) /\ Len(up') = Len(up)
      /\ \A j \in 1 .. Len(up) : up'[j] = IF j = k THEN Tail(up[k]) ELSE up[j]
  BY <1>1, <1>3, <1>6, ExceptSeq
<1>8. QED
  BY <1>1, <1>2, <1>3, <1>4, <1>5, <1>7

\* Each message that is left was there, and not the first of the connection
\* that was read.
LEMMA ComesLeaves ==
  ASSUME MessagesOK, NEW k \in 1 .. Len(up), NEW type, Comes(k, type)
  PROVE  \A j \in 1 .. Len(up) : \A i \in 1 .. Len(up'[j]) :
           \E n \in 1 .. Len(up[j]) : up'[j][i] = up[j][n] /\ (j = k => 1 < n)
<1> SUFFICES ASSUME NEW j \in 1 .. Len(up), NEW i \in 1 .. Len(up'[j])
             PROVE  \E n \in 1 .. Len(up[j]) : up'[j][i] = up[j][n] /\ (j = k => 1 < n)
  OBVIOUS
<1>1. CASE j = k
  <2>1. Len(up[k]) \in Nat /\ Len(up'[k]) = Len(up[k]) - 1 /\ up'[k][i] = up[k][i + 1]
    BY <1>1, ComesStep
  <2>2. i + 1 \in 1 .. Len(up[k]) /\ 1 < i + 1
    BY <1>1, <2>1
  <2>3. QED
    BY <1>1, <2>1, <2>2
<1>2. CASE j # k
  BY <1>2, ComesStep
<1>3. QED
  BY <1>1, <1>2

\* Sending adds one message at the end of the Agent's connection.
LEMMA SendStep ==
  ASSUME MessagesOK, conn \in 1 .. Len(up), NEW m \in UpMessages,
         up' = [up EXCEPT ![conn] = Append(@, m)]
  PROVE  /\ up' \in Seq(Seq(UpMessages)) /\ Len(up') = Len(up)
         /\ up[conn] \in Seq(UpMessages) /\ Len(up[conn]) \in Nat
         /\ Len(up'[conn]) = Len(up[conn]) + 1
         /\ \A i \in 1 .. Len(up[conn]) : up'[conn][i] = up[conn][i]
         /\ up'[conn][Len(up[conn]) + 1] = m
         /\ \A j \in 1 .. Len(up) : j # conn => up'[j] = up[j]
<1>1. up \in Seq(Seq(UpMessages))
  BY DEF MessagesOK
<1>2. up[conn] \in Seq(UpMessages)
  BY <1>1, ElementOfSeq
<1>3. /\ Append(up[conn], m) \in Seq(UpMessages)
      /\ Len(Append(up[conn], m)) = Len(up[conn]) + 1
      /\ \A i \in 1 .. Len(up[conn]) : Append(up[conn], m)[i] = up[conn][i]
      /\ Append(up[conn], m)[Len(up[conn]) + 1] = m
  BY <1>2, AppendProperties
<1>4. Len(up[conn]) \in Nat
  BY <1>2, LenProperties
<1>5. /\ up' \in Seq(Seq(UpMessages)) /\ Len(up') = Len(up)
      /\ \A j \in 1 .. Len(up) : up'[j] = IF j = conn THEN Append(up[conn], m) ELSE up[j]
  BY <1>1, <1>3, ExceptSeq
<1>6. QED
  BY <1>2, <1>3, <1>4, <1>5

\* Taking the first message that has come to the Agent leaves the rest.
LEMMA ArrivesStep ==
  ASSUME MessagesOK, NEW type, Arrives(type), down' = Tail(down)
  PROVE  /\ down' \in Seq(DownMessages) /\ Len(down) \in Nat /\ Len(down) > 0
         /\ Head(down) = down[1] /\ down[1] \in DownMessages /\ down[1].type = type
         /\ Len(down') = Len(down) - 1
         /\ \A i \in 1 .. Len(down') : down'[i] = down[i + 1]
<1>1. down \in Seq(DownMessages) /\ down # <<>> /\ Head(down).type = type
  BY DEF MessagesOK, Arrives
<1>2. Len(down) \in Nat /\ Len(down) > 0
  BY <1>1, EmptySeq
<1>3. Head(down) = down[1] /\ down[1] \in DownMessages
  BY <1>1, <1>2, ElementOfSeq
<1>4. /\ down' \in Seq(DownMessages) /\ Len(down') = Len(down) - 1
      /\ \A i \in 1 .. Len(down') : down'[i] = down[i + 1]
  BY <1>1, HeadTailProperties
<1>5. QED
  BY <1>1, <1>2, <1>3, <1>4

\* An answer is the last of what is on its way to the Agent, if it still has
\* the connection.
LEMMA AnswerStep ==
  ASSUME MessagesOK, NEW k, NEW m \in DownMessages, Answer(k, m)
  PROVE  /\ down' \in Seq(DownMessages)
         /\ k # conn => down' = down
         /\ k = conn => /\ Len(down) \in Nat /\ Len(down') = Len(down) + 1
                        /\ \A i \in 1 .. Len(down) : down'[i] = down[i]
                        /\ down'[Len(down) + 1] = m
BY AppendProperties, LenProperties DEF MessagesOK, Answer

LEMMA Lengths ==
  ASSUME MessagesOK
  PROVE  /\ Len(up) \in Nat
         /\ \A k \in 1 .. Len(up) :
              /\ Len(up[k]) \in Nat
              /\ \A i \in 1 .. Len(up[k]) : up[k][i] \in UpMessages
<1>1. up \in Seq(Seq(UpMessages))
  BY DEF MessagesOK
<1>2. \A k \in 1 .. Len(up) : up[k] \in Seq(UpMessages)
  BY <1>1, ElementOfSeq
<1>3. QED
  BY <1>1, <1>2, LenProperties, ElementOfSeq

-----------------------------------------------------------------------------
\* An Agent that has been answered has a connection without a hello.
LEMMA HelloIsTaken ==
  ASSUME IInv, ~Unanswering
  PROVE  conn \in 1 .. Len(up) /\ HelloTaken
<1>1. conn \in 1 .. Len(up)
  BY Lengths DEF IInv, Queued, HelloFirst, TypeOK, None
<1>2. QED
  BY <1>1, Lengths DEF IInv, Queued, HelloFirst, HelloTaken, None

LEMMA AnsweredIsGreeted ==
  ASSUME IInv, Answered
  PROVE  ~Unanswering
<1>1. down = <<>> => Len(down) = 0
  OBVIOUS
<1>2. QED
  BY <1>1 DEF Answered, Unanswering

\* Whatever the center takes, what is left is as it should be.
LEMMA TakeKeepsQueued ==
  ASSUME IInv, NEW k \in 1 .. Len(up), NEW type, Comes(k, type),
         k # conn => down' = down,
         UNCHANGED <<conn, greeted, sent, acked, version, update>>
  PROVE  Queued'
<1>1. Len(up') = Len(up)
      /\ \A j \in 1 .. Len(up) : j # k => up'[j] = up[j]
  BY ComesStep DEF IInv
<1>2. /\ Len(up[k]) \in Nat /\ Len(up'[k]) = Len(up[k]) - 1
      /\ \A i \in 1 .. Len(up'[k]) : up'[k][i] = up[k][i + 1]
  BY ComesStep DEF IInv
<1>3. \A j \in 1 .. Len(up) : \A i \in 1 .. Len(up'[j]) :
        /\ j # k => i \in 1 .. Len(up[j]) /\ up'[j][i] = up[j][i]
        /\ j = k => i + 1 \in 1 .. Len(up[j]) /\ up'[j][i] = up[j][i + 1]
  BY <1>1, <1>2
<1>4. HelloFirst'
  <2>1. conn' = None => Unanswering'
    BY DEF IInv, Queued, HelloFirst, Unanswering, TypeOK, None
  <2>2. ASSUME NEW j \in 1 .. Len(up), NEW i \in 1 .. Len(up'[j]), IsHello(up'[j][i])
        PROVE  Len(up'[j]) = 1 /\ (j = conn => Unanswering')
    <3>1. j # k
      <4> SUFFICES ASSUME j = k PROVE FALSE
        OBVIOUS
      <4>1. i + 1 \in 1 .. Len(up[k]) /\ IsHello(up[k][i + 1])
        BY <1>3, <2>2 DEF IsHello
      <4>2. Len(up[k]) = 1
        BY <4>1 DEF IInv, Queued, HelloFirst
      <4>3. QED
        BY <1>2, <4>1, <4>2
    <3>2. QED
      BY <1>1, <1>3, <2>2, <3>1 DEF IInv, Queued, HelloFirst, IsHello, Unanswering
  <2>3. QED
    BY <1>1, <2>1, <2>2 DEF HelloFirst
<1>5. BeatsAreOwn'
  <2> SUFFICES ASSUME NEW j \in 1 .. Len(up), NEW i \in 1 .. Len(up'[j]),
                      IsBeat(up'[j][i])
               PROVE  /\ up'[j][i].session = j
                      /\ j = conn => up'[j][i].version = version
    BY <1>1 DEF BeatsAreOwn, IsBeat
  <2>1. PICK n \in 1 .. Len(up[j]) : up'[j][i] = up[j][n]
    BY <1>3
  <2>2. QED
    BY <2>1 DEF IInv, Queued, BeatsAreOwn, IsBeat
<1>6. LatestIsLast'
  <2> SUFFICES ASSUME conn # None, NEW i \in 1 .. Len(up'[conn]),
                      NEW j \in 1 .. Len(up'[conn]), i < j,
                      IsBeat(up'[conn][i]), IsBeat(up'[conn][j])
               PROVE  up'[conn][i].id # sent
    BY DEF LatestIsLast, IsBeat
  <2>1. conn \in 1 .. Len(up)
    BY Lengths DEF IInv, TypeOK, None
  <2>2. PICK m \in 1 .. Len(up[conn]), n \in 1 .. Len(up[conn]) :
          m < n /\ up'[conn][i] = up[conn][m] /\ up'[conn][j] = up[conn][n]
    <3>1. CASE conn = k
      <4>1. /\ i + 1 \in 1 .. Len(up[conn]) /\ up'[conn][i] = up[conn][i + 1]
            /\ j + 1 \in 1 .. Len(up[conn]) /\ up'[conn][j] = up[conn][j + 1]
        BY <1>3, <2>1, <3>1
      <4>2. i + 1 < j + 1
        OBVIOUS
      <4>3. QED
        BY <4>1, <4>2
    <3>2. CASE conn # k
      BY <1>3, <2>1, <3>2
    <3>3. QED
      BY <3>1, <3>2
  <2>3. QED
    BY <2>2 DEF IInv, Queued, LatestIsLast, IsBeat
<1>7. ResultsHold'
  <2> SUFFICES ASSUME NEW j \in 1 .. Len(up), NEW i \in 1 .. Len(up'[j]),
                      IsResult(up'[j][i])
               PROVE  update = IF up'[j][i].status = "activated"
                               THEN "confirmed" ELSE "failed"
    BY <1>1 DEF ResultsHold, IsResult
  <2>1. PICK n \in 1 .. Len(up[j]) : up'[j][i] = up[j][n]
    BY <1>3
  <2>2. QED
    BY <2>1 DEF IInv, Queued, ResultsHold, IsResult
<1>8. QED
  BY <1>4, <1>5, <1>6, <1>7 DEF Queued

-----------------------------------------------------------------------------
\* The center takes a hello.  Its connection has nothing else, so the session
\* that is served from now on is empty.
LEMMA TakeHelloStep ==
  ASSUME IInv, NEW k \in 1 .. Len(up), TakeHello(k)
  PROVE  IInv'
<1>1. /\ Comes(k, "agent.hello") /\ active' = k /\ Answer(k, CenterHello(k))
      /\ UNCHANGED <<live, issued, outcome, conn, greeted, sent, acked, reported,
                     version, update, settled, losses, late, exits>>
  BY DEF TakeHello, process, disk, faults
<1>2. /\ up' \in Seq(Seq(UpMessages)) /\ Len(up') = Len(up) /\ IsHello(up[k][1])
      /\ Len(up[k]) \in Nat /\ Len(up[k]) > 0 /\ Len(up'[k]) = Len(up[k]) - 1
      /\ \A j \in 1 .. Len(up) : j # k => up'[j] = up[j]
  BY <1>1, ComesStep DEF IInv, IsHello
<1>3. Len(up[k]) = 1 /\ Len(up'[k]) = 0
  BY <1>2 DEF IInv, Queued, HelloFirst
<1>4. CenterHello(k) \in DownMessages
  BY <1>2, Lengths DEF IInv, CenterHello, DownMessages
<1>5. /\ down' \in Seq(DownMessages) /\ (k # conn => down' = down)
      /\ k = conn => /\ Len(down) \in Nat /\ Len(down') = Len(down) + 1
                     /\ \A i \in 1 .. Len(down) : down'[i] = down[i]
                     /\ down'[Len(down) + 1] = CenterHello(k)
  BY <1>1, <1>4, AnswerStep DEF IInv
<1>6. TypeOK' /\ MessagesOK'
  BY <1>1, <1>2, <1>5, Lengths DEF IInv, TypeOK, MessagesOK
<1>7. Queued'
  BY <1>1, <1>5, TakeKeepsQueued
<1>8. Fenced'
  BY <1>1, <1>2, <1>3 DEF Fenced
<1>9. AnsweredIsLive'
  <2> SUFFICES ASSUME Answered' PROVE AnsweredIsLive'
    BY DEF AnsweredIsLive
  <2>1. ~IsAck(CenterHello(k))
    BY DEF IsAck, CenterHello
  <2>2. Answered
    BY <1>1, <1>5, <2>1 DEF Answered, IsAck
  <2>3. conn \in 1 .. Len(up)
    BY <2>2, AnsweredIsGreeted, HelloIsTaken
  <2>4. \A i \in 1 .. Len(up'[conn]) : up'[conn][i] = up[conn][i] /\ i \in 1 .. Len(up[conn])
    <3>1. CASE conn = k
      BY <1>3, <3>1
    <3>2. CASE conn # k
      BY <1>2, <2>3, <3>2
    <3>3. QED
      BY <3>1, <3>2
  <2>5. QED
    BY <1>1, <2>2, <2>4 DEF IInv, AnsweredIsLive, IsBeat
<1>10. OldIsFenced'
  BY <1>1, <1>2, <1>3 DEF OldIsFenced
<1>11. QED
  BY <1>1, <1>6, <1>7, <1>8, <1>9, <1>10
     DEF IInv, VersionFollowsUpdate, ConfirmedIsLive, OutcomeHolds

\* A message that is not a hello leaves the session that is served empty, if
\* it is not the Agent's.
LEMMA TakeKeepsFenced ==
  ASSUME IInv, NEW k \in 1 .. Len(up), NEW type, Comes(k, type),
         type # "agent.hello", UNCHANGED <<conn, active>>
  PROVE  Fenced'
<1>1. /\ Len(up') = Len(up) /\ ~IsHello(up[k][1])
      /\ Len(up[k]) \in Nat /\ Len(up[k]) > 0 /\ Len(up'[k]) = Len(up[k]) - 1
      /\ \A i \in 1 .. Len(up'[k]) : up'[k][i] = up[k][i + 1]
      /\ \A j \in 1 .. Len(up) : j # k => up'[j] = up[j]
  BY ComesStep DEF IInv, IsHello
<1> SUFFICES ASSUME HelloTaken', active # conn
             PROVE  active \in 1 .. Len(up) /\ Len(up'[active]) = 0
  BY <1>1 DEF Fenced
<1>2. conn \in 1 .. Len(up)
  BY Lengths DEF IInv, TypeOK, HelloTaken, None
<1>3. HelloTaken
  <2> SUFFICES ASSUME NEW i \in 1 .. Len(up[conn]), IsHello(up[conn][i]) PROVE FALSE
    BY DEF HelloTaken
  <2>1. CASE conn = k
    <3>1. i # 1
      BY <1>1, <2>1
    <3>2. i - 1 \in 1 .. Len(up'[k]) /\ up'[k][i - 1] = up[k][i]
      BY <1>1, <2>1, <3>1
    <3>3. QED
      BY <2>1, <3>2 DEF HelloTaken, IsHello
  <2>2. CASE conn # k
    BY <1>1, <1>2, <2>2 DEF HelloTaken, IsHello
  <2>3. QED
    BY <2>1, <2>2
<1>4. active \in 1 .. Len(up) /\ Len(up[active]) = 0
  BY <1>3 DEF IInv, Fenced
<1>5. QED
  BY <1>1, <1>4

\* The session that is served is the Agent's, once it has been answered and
\* something comes over the one that is served.
LEMMA ServedIsOwn ==
  ASSUME IInv, Answered, active \in 1 .. Len(up), Len(up[active]) > 0
  PROVE  active = conn
BY AnsweredIsGreeted, HelloIsTaken DEF IInv, Fenced

\* A heartbeat of the session that is served becomes the liveness snapshot.
LEMMA TakeHeartbeatStep ==
  ASSUME IInv, NEW k \in 1 .. Len(up), TakeHeartbeat(k)
  PROVE  IInv'
<1> DEFINE beat == up[k][1]
           ack == HeartbeatAck(beat.id, issued /\ outcome = "open")
<1>1. /\ Comes(k, "agent.heartbeat")
      /\ UNCHANGED <<active, issued, outcome, conn, greeted, sent, acked, reported,
                     version, update, settled, losses, late, exits>>
  BY DEF TakeHeartbeat, process, disk, faults
<1>2. /\ up' \in Seq(Seq(UpMessages)) /\ Len(up') = Len(up)
      /\ beat \in UpMessages /\ IsBeat(beat) /\ Head(up[k]) = beat
      /\ Len(up[k]) \in Nat /\ Len(up[k]) > 0 /\ Len(up'[k]) = Len(up[k]) - 1
      /\ \A i \in 1 .. Len(up'[k]) : up'[k][i] = up[k][i + 1]
      /\ \A j \in 1 .. Len(up) : j # k => up'[j] = up[j]
  BY <1>1, ComesStep DEF IInv, IsBeat
<1>3. /\ beat.session = k /\ (k = conn => beat.version = version)
      /\ beat.version \in Versions /\ beat.id \in Ids
  BY <1>2 DEF IInv, Queued, BeatsAreOwn, UpMessages, IsBeat
<1>4. IF active = k
      THEN /\ live' = [session |-> k, id |-> beat.id, version |-> beat.version]
           /\ Answer(k, ack)
      ELSE UNCHANGED <<live, down>>
  BY <1>2, <1>3 DEF TakeHeartbeat, Serves
<1>5. ack \in DownMessages /\ ack.message = beat.id
  <2>1. (issued /\ outcome = "open") \in BOOLEAN
    OBVIOUS
  <2>2. QED
    BY <1>3, <2>1 DEF HeartbeatAck, DownMessages
<1> HIDE DEF beat, ack
<1>6. /\ down' \in Seq(DownMessages)
      /\ ~(k = conn /\ active = k) => down' = down
      /\ k = conn /\ active = k =>
            /\ Len(down) \in Nat /\ Len(down') = Len(down) + 1
            /\ \A i \in 1 .. Len(down) : down'[i] = down[i]
            /\ down'[Len(down) + 1] = ack
  BY <1>4, <1>5, AnswerStep DEF IInv, MessagesOK
<1>7. live'.version \in Versions
  BY <1>3, <1>4 DEF IInv, MessagesOK
<1>8. TypeOK' /\ MessagesOK'
  BY <1>1, <1>2, <1>6, <1>7 DEF IInv, TypeOK, MessagesOK
<1>9. Queued'
  BY <1>1, <1>6, TakeKeepsQueued
<1>10. Fenced'
  BY <1>1, TakeKeepsFenced
<1>11. AnsweredIsLive'
  <2> SUFFICES ASSUME Answered'
               PROVE  /\ live' = [session |-> conn, id |-> sent, version |-> version]
                      /\ \A i \in 1 .. Len(up'[conn]) : ~IsBeat(up'[conn][i])
    BY <1>1 DEF AnsweredIsLive, IsBeat
  <2>1. CASE Answered
    <3>1. conn \in 1 .. Len(up) /\ \A i \in 1 .. Len(up[conn]) : ~IsBeat(up[conn][i])
      BY <2>1, AnsweredIsGreeted, HelloIsTaken DEF IInv, AnsweredIsLive
    <3>2. k # conn
      <4>1. 1 \in 1 .. Len(up[k]) /\ IsBeat(up[k][1])
        BY <1>2 DEF beat
      <4>2. QED
        BY <3>1, <4>1
    <3>3. active # k
      BY <1>2, <2>1, <3>2, ServedIsOwn
    <3>4. QED
      BY <1>2, <1>4, <2>1, <3>1, <3>2, <3>3 DEF IInv, AnsweredIsLive
  <2>2. CASE ~Answered
    <3>1. k = conn /\ active = k /\ beat.id = sent
      BY <1>1, <1>5, <1>6, <2>2 DEF Answered, IsAck
    <3>2. ASSUME NEW i \in 1 .. Len(up'[conn]), IsBeat(up'[conn][i]) PROVE FALSE
      <4>1. PICK n \in 1 .. Len(up[k]) : up'[k][i] = up[k][n] /\ 1 < n
        BY <1>1, <3>1, ComesLeaves DEF IInv
      <4>2. IsBeat(up[k][n])
        BY <3>1, <3>2, <4>1 DEF IsBeat
      <4>3. 1 \in 1 .. Len(up[k]) /\ conn # None
        BY <1>2, <3>1, Lengths DEF IInv, None
      <4>4. QED
        BY <1>2, <3>1, <4>1, <4>2, <4>3 DEF IInv, Queued, LatestIsLast, beat
    <3>3. QED
      BY <1>3, <1>4, <3>1, <3>2
  <2>3. QED
    BY <2>1, <2>2
<1>12. OldIsFenced'
  <2> SUFFICES ASSUME update = "confirmed", NEW j \in 1 .. Len(up),
                      NEW i \in 1 .. Len(up'[j]),
                      IsBeat(up'[j][i]), up'[j][i].version = "old"
               PROVE  active # j
    BY <1>1, <1>2 DEF OldIsFenced, IsBeat
  <2>1. PICK n \in 1 .. Len(up[j]) : up'[j][i] = up[j][n]
    BY <1>1, ComesLeaves DEF IInv
  <2>2. QED
    BY <2>1 DEF IInv, OldIsFenced, IsBeat
<1>13. ConfirmedIsLive'
  <2>1. update = "confirmed" /\ active = k => beat.version = "new"
    BY <1>2, <1>3 DEF IInv, OldIsFenced, Versions, beat
  <2>2. QED
    BY <1>1, <1>4, <2>1 DEF IInv, ConfirmedIsLive
<1>14. QED
  BY <1>1, <1>8, <1>9, <1>10, <1>11, <1>12, <1>13
     DEF IInv, VersionFollowsUpdate, OutcomeHolds

\* A result is stored as it was sent.
LEMMA TakeResultStep ==
  ASSUME IInv, NEW k \in 1 .. Len(up), TakeResult(k)
  PROVE  IInv'
<1>1. /\ Comes(k, "agent.command_result")
      /\ IF active = k
         THEN /\ outcome' = IF outcome = "open" THEN Head(up[k]).status ELSE outcome
              /\ Answer(k, CommandResultAck)
         ELSE UNCHANGED <<outcome, down>>
      /\ UNCHANGED <<active, live, issued, conn, greeted, sent, acked, reported,
                     version, update, settled, losses, late, exits>>
  BY DEF TakeResult, Serves, process, disk, faults
<1>2. /\ up' \in Seq(Seq(UpMessages)) /\ Len(up') = Len(up)
      /\ up[k][1] \in UpMessages /\ IsResult(up[k][1]) /\ Head(up[k]) = up[k][1]
      /\ Len(up[k]) \in Nat /\ Len(up[k]) > 0 /\ Len(up'[k]) = Len(up[k]) - 1
      /\ \A i \in 1 .. Len(up'[k]) : up'[k][i] = up[k][i + 1]
      /\ \A j \in 1 .. Len(up) : j # k => up'[j] = up[j]
  BY <1>1, ComesStep DEF IInv, IsResult
<1>3. /\ up[k][1].status \in {"activated", "failed"}
      /\ update = IF up[k][1].status = "activated" THEN "confirmed" ELSE "failed"
  BY <1>2 DEF IInv, Queued, ResultsHold, UpMessages, IsResult
<1>4. CommandResultAck \in DownMessages /\ ~IsAck(CommandResultAck)
  BY DEF CommandResultAck, DownMessages, IsAck
<1>5. /\ down' \in Seq(DownMessages)
      /\ ~(k = conn /\ active = k) => down' = down
      /\ k = conn /\ active = k =>
            /\ Len(down) \in Nat /\ Len(down') = Len(down) + 1
            /\ \A i \in 1 .. Len(down) : down'[i] = down[i]
            /\ down'[Len(down) + 1] = CommandResultAck
  BY <1>1, <1>4, AnswerStep DEF IInv, MessagesOK
<1>6. TypeOK' /\ MessagesOK'
  BY <1>1, <1>2, <1>3, <1>5 DEF IInv, TypeOK, MessagesOK
<1>7. Queued'
  BY <1>1, <1>5, TakeKeepsQueued
<1>8. Fenced'
  BY <1>1, TakeKeepsFenced
<1>9. \A j \in 1 .. Len(up) : \A i \in 1 .. Len(up'[j]) :
        \E n \in 1 .. Len(up[j]) : up'[j][i] = up[j][n]
  BY <1>1, ComesLeaves DEF IInv
<1>10. AnsweredIsLive'
  <2> SUFFICES ASSUME Answered' PROVE AnsweredIsLive'
    BY DEF AnsweredIsLive
  <2>1. Answered
    <3>1. CASE down' = down
      BY <1>1, <3>1 DEF Answered, IsAck
    <3>2. CASE down' # down
      BY <1>1, <1>4, <1>5, <3>2 DEF Answered, IsAck
    <3>3. QED
      BY <3>1, <3>2
  <2>2. conn \in 1 .. Len(up)
    BY <2>1, AnsweredIsGreeted, HelloIsTaken
  <2>3. QED
    BY <1>1, <1>9, <2>1, <2>2 DEF IInv, AnsweredIsLive, IsBeat
<1>11. OldIsFenced'
  <2> SUFFICES ASSUME update = "confirmed", NEW j \in 1 .. Len(up), NEW i \in 1 .. Len(up'[j]),
                      IsBeat(up'[j][i]), up'[j][i].version = "old"
               PROVE  active # j
    BY <1>1, <1>2 DEF OldIsFenced, IsBeat
  <2>1. PICK n \in 1 .. Len(up[j]) : up'[j][i] = up[j][n]
    BY <1>9
  <2>2. QED
    BY <2>1 DEF IInv, OldIsFenced, IsBeat
<1>12. OutcomeHolds'
  BY <1>1, <1>2, <1>3 DEF IInv, OutcomeHolds, VersionFollowsUpdate
<1>13. QED
  BY <1>1, <1>6, <1>7, <1>8, <1>10, <1>11, <1>12
     DEF IInv, VersionFollowsUpdate, ConfirmedIsLive

\* What the center issues, and how often something has failed, the invariant
\* does not depend on.
LEMMA QuietStep ==
  ASSUME IInv, issued' \in BOOLEAN,
         UNCHANGED <<active, live, outcome, process, disk, up, down>>
  PROVE  IInv'
<1>1. UNCHANGED <<active, live, outcome, conn, greeted, sent, acked, reported,
                  version, update, settled, up, down>>
  BY DEF process, disk
<1>2. TypeOK' /\ MessagesOK'
  BY <1>1 DEF IInv, TypeOK, MessagesOK
<1>3. HelloFirst'
  BY <1>1 DEF IInv, Queued, HelloFirst, Unanswering, IsHello
<1>4. BeatsAreOwn' /\ LatestIsLast'
  BY <1>1 DEF IInv, Queued, BeatsAreOwn, LatestIsLast, IsBeat
<1>5. ResultsHold'
  BY <1>1 DEF IInv, Queued, ResultsHold, IsResult
<1>6. Fenced'
  BY <1>1 DEF IInv, Fenced, HelloTaken, IsHello
<1>7. AnsweredIsLive'
  BY <1>1 DEF IInv, AnsweredIsLive, Answered, IsAck, IsBeat
<1>8. OldIsFenced'
  BY <1>1 DEF IInv, OldIsFenced, IsBeat
<1>9. VersionFollowsUpdate' /\ ConfirmedIsLive' /\ OutcomeHolds'
  BY <1>1 DEF IInv, VersionFollowsUpdate, ConfirmedIsLive, OutcomeHolds
<1>10. QED
  BY <1>2, <1>3, <1>4, <1>5, <1>6, <1>7, <1>8, <1>9 DEF IInv, Queued

\* The update is issued: only what is answered from now on is affected.
LEMMA IssueStep == IInv /\ Issue => IInv'
<1> SUFFICES ASSUME IInv, Issue PROVE IInv'
  OBVIOUS
<1>1. issued' \in BOOLEAN
  BY DEF Issue
<1>2. UNCHANGED <<active, live, outcome, process, disk, up, down>>
  BY DEF Issue
<1>3. QED
  BY <1>1, <1>2, QuietStep

-----------------------------------------------------------------------------
\* A new connection has its hello, and the Agent has nothing of it yet.
LEMMA ConnectStep == IInv /\ Connect => IInv'
<1> SUFFICES ASSUME IInv, Connect PROVE IInv'
  OBVIOUS
<1>1. /\ conn = None /\ conn' = Len(up) + 1 /\ up' = Append(up, <<AgentHello>>)
      /\ UNCHANGED <<active, live, issued, outcome, greeted, sent, acked, reported,
                     version, update, settled, down, losses, late, exits>>
  BY DEF Connect, center, disk, faults
<1>2. /\ AgentHello \in UpMessages /\ IsHello(AgentHello)
      /\ ~IsBeat(AgentHello) /\ ~IsResult(AgentHello)
  BY DEF IInv, TypeOK, AgentHello, UpMessages, Versions, IsHello, IsBeat, IsResult
<1>3. /\ <<AgentHello>> \in Seq(UpMessages) /\ Len(<<AgentHello>>) = 1
      /\ <<AgentHello>>[1] = AgentHello
  BY <1>2
<1>4. /\ up' \in Seq(Seq(UpMessages)) /\ Len(up) \in Nat /\ Len(up') = Len(up) + 1
      /\ up'[Len(up) + 1] = <<AgentHello>>
      /\ \A k \in 1 .. Len(up) : up'[k] = up[k]
  BY <1>1, <1>3, AppendProperties, Lengths DEF IInv, MessagesOK
<1>5. \A k \in 1 .. Len(up') : k \in 1 .. Len(up) \/ k = conn'
  BY <1>1, <1>4
<1>6. TypeOK' /\ MessagesOK'
  BY <1>1, <1>4 DEF IInv, TypeOK, MessagesOK, None
<1>7. Unanswering /\ Unanswering' /\ ~Answered'
  <2>1. Unanswering
    BY <1>1 DEF IInv, Queued, HelloFirst
  <2>2. Unanswering'
    BY <1>1, <2>1 DEF Unanswering
  <2>3. Len(down') = 0
    BY <2>2 DEF Unanswering
  <2>4. QED
    BY <2>1, <2>2, <2>3 DEF Answered, Unanswering
<1>8. /\ \A i \in 1 .. Len(up'[conn']) : up'[conn'][i] = AgentHello
      /\ Len(up'[conn']) = 1
  BY <1>1, <1>3, <1>4
<1>9. Queued'
  <2>1. HelloFirst'
    BY <1>2, <1>4, <1>5, <1>7, <1>8 DEF IInv, Queued, HelloFirst, IsHello
  <2>2. BeatsAreOwn'
    BY <1>1, <1>2, <1>4, <1>5, <1>8 DEF IInv, Queued, BeatsAreOwn, IsBeat
  <2>3. LatestIsLast'
    BY <1>2, <1>8 DEF LatestIsLast, IsBeat
  <2>4. ResultsHold'
    BY <1>1, <1>2, <1>4, <1>5, <1>8 DEF IInv, Queued, ResultsHold, IsResult
  <2>5. QED
    BY <2>1, <2>2, <2>3, <2>4 DEF Queued
<1>10. Fenced'
  BY <1>2, <1>8 DEF Fenced, HelloTaken, IsHello
<1>11. AnsweredIsLive'
  BY <1>7 DEF AnsweredIsLive
<1>12. OldIsFenced'
  BY <1>1, <1>2, <1>4, <1>5, <1>8 DEF IInv, OldIsFenced, IsBeat
<1>13. QED
  BY <1>1, <1>6, <1>9, <1>10, <1>11, <1>12
     DEF IInv, VersionFollowsUpdate, ConfirmedIsLive, OutcomeHolds

\* The Agent takes something that has come: what it has sent is as it was.
LEMMA ReceiveKeepsQueued ==
  ASSUME IInv, NEW type, Arrives(type), conn' = conn, sent' = sent,
         version' = version, update' = update, up' = up
  PROVE  Queued' /\ HelloTaken /\ conn \in 1 .. Len(up)
<1>1. down # <<>>
  BY DEF Arrives
<1>2. HelloTaken /\ conn \in 1 .. Len(up)
  BY <1>1, HelloIsTaken DEF Unanswering
<1>3. HelloFirst'
  BY <1>2 DEF IInv, Queued, HelloFirst, HelloTaken, IsHello
<1>4. BeatsAreOwn' /\ LatestIsLast' /\ ResultsHold'
  BY DEF IInv, Queued, BeatsAreOwn, LatestIsLast, ResultsHold, IsBeat, IsResult
<1>5. QED
  BY <1>2, <1>3, <1>4 DEF Queued

\* What is left of the answers was there before.
LEMMA TailKeepsAnswered ==
  ASSUME MessagesOK, NEW type, Arrives(type), down' = Tail(down), sent' = sent,
         acked' = acked, Answered'
  PROVE  Answered
<1>1. /\ Len(down) \in Nat /\ Len(down') = Len(down) - 1
      /\ \A i \in 1 .. Len(down') : down'[i] = down[i + 1]
  BY ArrivesStep
<1>2. \A i \in 1 .. Len(down') : i + 1 \in 1 .. Len(down)
  BY <1>1
<1>3. CASE acked
  BY <1>3 DEF Answered
<1>4. CASE ~acked
  BY <1>1, <1>2, <1>4 DEF Answered, IsAck
<1>5. QED
  BY <1>3, <1>4

\* The hello of the center, an answer to an older heartbeat and the
\* acknowledgement of the result change nothing the invariant speaks of.
LEMMA TailStep ==
  ASSUME IInv, NEW type, Arrives(type), down' = Tail(down),
         greeted' \in BOOLEAN, settled' \in BOOLEAN,
         UNCHANGED <<center, conn, sent, acked, reported, version, update, up>>
  PROVE  IInv'
<1>1. down' \in Seq(DownMessages)
  BY ArrivesStep DEF IInv
<1>2. UNCHANGED <<active, live, issued, outcome, conn, sent, acked, reported, version,
                  update, up>>
  BY DEF center
<1>3. TypeOK' /\ MessagesOK'
  BY <1>1, <1>2 DEF IInv, TypeOK, MessagesOK
<1>4. Queued'
  BY <1>2, ReceiveKeepsQueued
<1>5. Fenced'
  BY <1>2 DEF IInv, Fenced, HelloTaken, IsHello
<1>6. AnsweredIsLive'
  BY <1>2, TailKeepsAnswered DEF IInv, AnsweredIsLive, IsBeat
<1>7. QED
  BY <1>2, <1>3, <1>4, <1>5, <1>6
     DEF IInv, OldIsFenced, VersionFollowsUpdate, ConfirmedIsLive, OutcomeHolds, IsBeat

LEMMA ReceiveStep == IInv /\ (TakeCenterHello \/ RejectAck \/ TakeResultAck) => IInv'
<1> SUFFICES ASSUME IInv, TakeCenterHello \/ RejectAck \/ TakeResultAck PROVE IInv'
  OBVIOUS
<1>1. CASE TakeCenterHello
  <2>1. /\ Arrives("center.hello") /\ down' = Tail(down)
        /\ UNCHANGED <<center, conn, sent, acked, reported, version, update, up>>
        /\ settled' = settled
    BY <1>1 DEF TakeCenterHello, disk
  <2>2. greeted' \in BOOLEAN
    BY <1>1 DEF TakeCenterHello
  <2>3. settled' \in BOOLEAN
    BY <2>1 DEF IInv, TypeOK
  <2>4. QED
    BY <2>1, <2>2, <2>3, TailStep
<1>2. CASE RejectAck
  <2>1. /\ Arrives("center.heartbeat_ack") /\ down' = Tail(down)
        /\ UNCHANGED <<center, conn, sent, acked, reported, version, update, up>>
        /\ UNCHANGED <<greeted, settled>>
    BY <1>2 DEF RejectAck, process, disk
  <2>2. greeted' \in BOOLEAN /\ settled' \in BOOLEAN
    BY <2>1 DEF IInv, TypeOK
  <2>3. QED
    BY <2>1, <2>2, TailStep
<1>3. CASE TakeResultAck
  <2>1. /\ Arrives("center.command_result_ack") /\ down' = Tail(down)
        /\ UNCHANGED <<center, conn, sent, acked, reported, version, update, up>>
        /\ greeted' = greeted
    BY <1>3 DEF TakeResultAck, process
  <2>2. settled' \in BOOLEAN
    BY <1>3 DEF TakeResultAck
  <2>3. greeted' \in BOOLEAN
    BY <2>1 DEF IInv, TypeOK
  <2>4. QED
    BY <2>1, <2>2, <2>3, TailStep
<1>4. QED
  BY <1>1, <1>2, <1>3

\* The acknowledgement that comes is for the latest heartbeat, which then is
\* the liveness snapshot.
LEMMA MatchedIsLive ==
  ASSUME IInv, Arrives("center.heartbeat_ack"), Matches(Head(down))
  PROVE  /\ Answered
         /\ live = [session |-> conn, id |-> sent, version |-> version]
<1>1. Len(down) \in Nat /\ Len(down) > 0 /\ IsAck(Head(down)) /\ Head(down) = down[1]
  BY EmptySeq DEF IInv, MessagesOK, Arrives, IsAck
<1>2. Answered
  BY <1>1 DEF Answered, Matches
<1>3. QED
  BY <1>2 DEF IInv, AnsweredIsLive

\* The acknowledgement that confirms a candidate tells that the center has
\* seen it, and that what comes of an older version is fenced.
LEMMA TakeAckStep == IInv /\ TakeAck => IInv'
<1> SUFFICES ASSUME IInv, TakeAck PROVE IInv'
  OBVIOUS
<1>1. /\ Arrives("center.heartbeat_ack") /\ Matches(Head(down)) /\ down' = Tail(down)
      /\ update' = IF update = "pending" THEN "confirmed" ELSE update
      /\ UNCHANGED <<active, live, issued, outcome, conn, greeted, sent, reported,
                     version, settled, up>>
  BY DEF TakeAck, center
<1>2. acked' \in BOOLEAN
  BY DEF TakeAck
<1>3. down' \in Seq(DownMessages)
  BY <1>1, ArrivesStep DEF IInv
<1>4. TypeOK' /\ MessagesOK'
  BY <1>1, <1>2, <1>3 DEF IInv, TypeOK, MessagesOK
<1>5. Answered /\ live = [session |-> conn, id |-> sent, version |-> version]
  BY <1>1, MatchedIsLive
<1>6. conn \in 1 .. Len(up) /\ HelloTaken /\ \A i \in 1 .. Len(up[conn]) : ~IsBeat(up[conn][i])
  BY <1>5, AnsweredIsGreeted, HelloIsTaken DEF IInv, AnsweredIsLive
<1>7. Queued'
  <2>1. HelloFirst'
    BY <1>1, <1>6 DEF IInv, Queued, HelloFirst, HelloTaken, IsHello, None
  <2>2. BeatsAreOwn' /\ LatestIsLast'
    BY <1>1 DEF IInv, Queued, BeatsAreOwn, LatestIsLast, IsBeat
  <2>3. ResultsHold'
    BY <1>1 DEF IInv, Queued, ResultsHold, IsResult
  <2>4. QED
    BY <2>1, <2>2, <2>3 DEF Queued
<1>8. Fenced'
  BY <1>1 DEF IInv, Fenced, HelloTaken, IsHello
<1>9. AnsweredIsLive'
  BY <1>1, <1>5, <1>6 DEF AnsweredIsLive, IsBeat
<1>10. OldIsFenced'
  <2> SUFFICES ASSUME update' = "confirmed", NEW k \in 1 .. Len(up), NEW i \in 1 .. Len(up[k]),
                      IsBeat(up[k][i]), up[k][i].version = "old"
               PROVE  active # k
    BY <1>1 DEF OldIsFenced, IsBeat
  <2>1. k # conn
    BY <1>6
  <2>2. active # conn => Len(up[active]) = 0
    BY <1>6 DEF IInv, Fenced
  <2>3. QED
    BY <2>1, <2>2
<1>11. VersionFollowsUpdate' /\ ConfirmedIsLive' /\ OutcomeHolds'
  BY <1>1, <1>5 DEF IInv, VersionFollowsUpdate, ConfirmedIsLive, OutcomeHolds
<1>12. QED
  BY <1>4, <1>7, <1>8, <1>9, <1>10, <1>11 DEF IInv

-----------------------------------------------------------------------------
\* The Agent sends over a connection whose hello the center has taken.
LEMMA SendKeepsHelloFirst ==
  ASSUME IInv, greeted, NEW m \in UpMessages, ~IsHello(m), conn' = conn, down' = down,
         up' = [up EXCEPT ![conn] = Append(@, m)]
  PROVE  /\ conn \in 1 .. Len(up)
         /\ HelloFirst'
         /\ active' = active => Fenced'
         /\ \A k \in 1 .. Len(up) : \A i \in 1 .. Len(up'[k]) :
              \/ k = conn /\ i = Len(up[conn]) + 1 /\ up'[k][i] = m
              \/ i \in 1 .. Len(up[k]) /\ up'[k][i] = up[k][i]
<1>1. conn \in 1 .. Len(up) /\ HelloTaken
  BY HelloIsTaken DEF Unanswering
<1>2. /\ Len(up') = Len(up) /\ Len(up[conn]) \in Nat /\ Len(up'[conn]) = Len(up[conn]) + 1
      /\ \A i \in 1 .. Len(up[conn]) : up'[conn][i] = up[conn][i]
      /\ up'[conn][Len(up[conn]) + 1] = m
      /\ \A j \in 1 .. Len(up) : j # conn => up'[j] = up[j]
  BY <1>1, SendStep DEF IInv
<1>3. \A k \in 1 .. Len(up) : \A i \in 1 .. Len(up'[k]) :
        \/ k = conn /\ i = Len(up[conn]) + 1 /\ up'[k][i] = m
        \/ i \in 1 .. Len(up[k]) /\ up'[k][i] = up[k][i]
  BY <1>2
<1>4. HelloFirst'
  <2> SUFFICES ASSUME NEW k \in 1 .. Len(up), NEW i \in 1 .. Len(up'[k]), IsHello(up'[k][i])
               PROVE  Len(up'[k]) = 1 /\ k # conn
    BY <1>1, <1>2 DEF HelloFirst, IsHello, None
  <2>1. i \in 1 .. Len(up[k]) /\ up'[k][i] = up[k][i]
    BY <1>3 DEF IsHello
  <2>2. k # conn
    BY <1>1, <2>1 DEF HelloTaken, IsHello
  <2>3. QED
    BY <1>2, <2>1, <2>2 DEF IInv, Queued, HelloFirst, IsHello
<1>5. active' = active => Fenced'
  BY <1>1, <1>2 DEF IInv, Fenced
<1>6. QED
  BY <1>1, <1>3, <1>4, <1>5

\* A heartbeat is the last one, and nothing tells that it is answered.
LEMMA SendHeartbeatStep == IInv /\ SendHeartbeat => IInv'
<1> SUFFICES ASSUME IInv, SendHeartbeat PROVE IInv'
  OBVIOUS
<1> DEFINE beat == Heartbeat(NewID)
<1>1. /\ greeted /\ sent' = NewID /\ acked' = FALSE
      /\ up' = [up EXCEPT ![conn] = Append(@, beat)]
      /\ UNCHANGED <<active, live, issued, outcome, conn, greeted, reported,
                     version, update, settled, down>>
  BY DEF SendHeartbeat, center, disk
<1>2. NewID \in FreshIds
  BY DEF SendHeartbeat, NewID
<1>3. /\ NewID \in Ids
      /\ ~\E m \in OfType(up[conn], "agent.heartbeat") : m.id = NewID
      /\ ~\E m \in OfType(down, "center.heartbeat_ack") : m.message = NewID
  BY <1>2 DEF FreshIds, Unanswered
<1>4. /\ beat \in UpMessages /\ ~IsHello(beat) /\ ~IsResult(beat) /\ IsBeat(beat)
      /\ beat.session = conn /\ beat.version = version /\ beat.id = NewID
  BY <1>3, Lengths DEF IInv, TypeOK, Heartbeat, UpMessages, Versions, None,
     IsHello, IsResult, IsBeat
<1> HIDE DEF beat
<1>5. /\ conn \in 1 .. Len(up)
      /\ HelloFirst' /\ Fenced'
      /\ \A k \in 1 .. Len(up) : \A i \in 1 .. Len(up'[k]) :
            \/ k = conn /\ i = Len(up[conn]) + 1 /\ up'[k][i] = beat
            \/ i \in 1 .. Len(up[k]) /\ up'[k][i] = up[k][i]
  BY <1>1, <1>4, SendKeepsHelloFirst
<1>6. /\ up' \in Seq(Seq(UpMessages)) /\ Len(up') = Len(up)
      /\ up[conn] \in Seq(UpMessages)
  BY <1>1, <1>4, <1>5, SendStep DEF IInv
<1>7. TypeOK' /\ MessagesOK'
  BY <1>1, <1>3, <1>6 DEF IInv, TypeOK, MessagesOK
<1>8. BeatsAreOwn'
  BY <1>1, <1>4, <1>5, <1>6 DEF IInv, Queued, BeatsAreOwn, IsBeat
<1>9. LatestIsLast'
  <2> SUFFICES ASSUME NEW i \in 1 .. Len(up'[conn]), NEW j \in 1 .. Len(up'[conn]), i < j,
                      IsBeat(up'[conn][i])
               PROVE  up'[conn][i].id # NewID
    BY <1>1 DEF LatestIsLast, IsBeat
  <2>1. i \in 1 .. Len(up[conn]) /\ up'[conn][i] = up[conn][i]
    BY <1>5, Lengths DEF IInv
  <2>2. up[conn][i] \in OfType(up[conn], "agent.heartbeat")
    BY <1>6, <2>1, RangeEquality DEF OfType, IsBeat
  <2>3. QED
    BY <1>3, <2>1, <2>2
<1>10. ResultsHold'
  BY <1>1, <1>4, <1>5, <1>6 DEF IInv, Queued, ResultsHold, IsResult
<1>11. ~Answered'
  <2> SUFFICES ASSUME NEW i \in 1 .. Len(down), IsAck(down[i]) PROVE down[i].message # NewID
    BY <1>1 DEF Answered, IsAck
  <2>1. down[i] \in OfType(down, "center.heartbeat_ack")
    BY RangeEquality DEF IInv, MessagesOK, OfType, IsAck
  <2>2. QED
    BY <1>3, <2>1
<1>12. OldIsFenced'
  <2> SUFFICES ASSUME update = "confirmed", NEW k \in 1 .. Len(up), NEW i \in 1 .. Len(up'[k]),
                      IsBeat(up'[k][i]), up'[k][i].version = "old"
               PROVE  active # k
    BY <1>1, <1>6 DEF OldIsFenced, IsBeat
  <2>1. up'[k][i] # beat
    BY <1>4 DEF IInv, VersionFollowsUpdate
  <2>2. QED
    BY <1>5, <2>1 DEF IInv, OldIsFenced, IsBeat
<1>13. QED
  BY <1>1, <1>5, <1>7, <1>8, <1>9, <1>10, <1>11, <1>12
     DEF IInv, Queued, AnsweredIsLive, VersionFollowsUpdate, ConfirmedIsLive, OutcomeHolds

\* A result tells how the update has ended.
LEMMA SendResultStep == IInv /\ SendResult => IInv'
<1> SUFFICES ASSUME IInv, SendResult PROVE IInv'
  OBVIOUS
<1> DEFINE result == CommandResult(IF update = "confirmed" THEN "activated" ELSE "failed")
<1>1. /\ greeted /\ update \in {"confirmed", "failed"}
      /\ up' = [up EXCEPT ![conn] = Append(@, result)]
      /\ UNCHANGED <<active, live, issued, outcome, conn, greeted, sent, acked,
                     version, update, settled, down>>
  BY DEF SendResult, center, disk
<1>2. reported' \in BOOLEAN
  BY DEF SendResult
<1>3. /\ result \in UpMessages /\ ~IsHello(result) /\ ~IsBeat(result)
      /\ result.status = "activated" => update = "confirmed"
      /\ result.status # "activated" => update = "failed"
  BY <1>1 DEF CommandResult, UpMessages, IsHello, IsBeat
<1> HIDE DEF result
<1>4. /\ conn \in 1 .. Len(up)
      /\ HelloFirst' /\ Fenced'
      /\ \A k \in 1 .. Len(up) : \A i \in 1 .. Len(up'[k]) :
            \/ k = conn /\ i = Len(up[conn]) + 1 /\ up'[k][i] = result
            \/ i \in 1 .. Len(up[k]) /\ up'[k][i] = up[k][i]
  BY <1>1, <1>3, SendKeepsHelloFirst
<1>5. up' \in Seq(Seq(UpMessages)) /\ Len(up') = Len(up)
  BY <1>1, <1>3, <1>4, SendStep DEF IInv
<1>6. TypeOK' /\ MessagesOK'
  BY <1>1, <1>2, <1>5 DEF IInv, TypeOK, MessagesOK
<1>7. BeatsAreOwn'
  BY <1>1, <1>3, <1>4, <1>5 DEF IInv, Queued, BeatsAreOwn, IsBeat
<1>8. \A i \in 1 .. Len(up'[conn]) : IsBeat(up'[conn][i]) =>
        i \in 1 .. Len(up[conn]) /\ up'[conn][i] = up[conn][i]
  BY <1>3, <1>4 DEF IsBeat
<1>9. LatestIsLast'
  BY <1>1, <1>8 DEF IInv, Queued, LatestIsLast, IsBeat
<1>10. ResultsHold'
  BY <1>1, <1>3, <1>4, <1>5 DEF IInv, Queued, ResultsHold, IsResult
<1>11. AnsweredIsLive'
  BY <1>1, <1>8 DEF IInv, AnsweredIsLive, Answered, IsBeat, IsAck
<1>12. OldIsFenced'
  BY <1>1, <1>3, <1>4, <1>5 DEF IInv, OldIsFenced, IsBeat
<1>13. QED
  BY <1>1, <1>4, <1>6, <1>7, <1>9, <1>10, <1>11, <1>12
     DEF IInv, Queued, VersionFollowsUpdate, ConfirmedIsLive, OutcomeHolds

-----------------------------------------------------------------------------
\* An Agent that has given up its connection owns none of what is in them.
LEMMA DisconnectedStep ==
  ASSUME IInv, Disconnected, UNCHANGED <<active, live, up>>
  PROVE  /\ conn' \in {None, Len(up')} /\ greeted' \in BOOLEAN /\ acked' \in BOOLEAN
         /\ reported' \in BOOLEAN /\ sent' \in Ids \cup {None}
         /\ MessagesOK'
         /\ HelloFirst' /\ BeatsAreOwn' /\ LatestIsLast' /\ Fenced' /\ AnsweredIsLive'
<1>1. conn' = None /\ sent' = None /\ down' = <<>>
  BY DEF Disconnected
<1>2. greeted' = FALSE /\ acked' = FALSE /\ reported' = FALSE
  BY DEF Disconnected
<1>3. greeted' \in BOOLEAN /\ acked' \in BOOLEAN /\ reported' \in BOOLEAN
  BY <1>2
<1>4. down' \in Seq(DownMessages) /\ Len(down') = 0
  BY <1>1
<1>5. MessagesOK'
  BY <1>4 DEF IInv, MessagesOK
<1>6. Unanswering' /\ ~Answered'
  <2>1. Unanswering'
    BY <1>1, <1>2 DEF Unanswering
  <2>2. ~Answered'
    BY <1>2, <1>4 DEF Answered
  <2>3. QED
    BY <2>1, <2>2
<1>7. HelloFirst'
  BY <1>6 DEF IInv, Queued, HelloFirst, IsHello
<1>8. \A k \in 1 .. Len(up) : k # conn'
  BY <1>1, Lengths DEF IInv, None
<1>9. BeatsAreOwn'
  BY <1>8 DEF IInv, Queued, BeatsAreOwn, IsBeat
<1>10. LatestIsLast' /\ Fenced' /\ AnsweredIsLive'
  BY <1>1, <1>6 DEF LatestIsLast, Fenced, HelloTaken, AnsweredIsLive
<1>11. QED
  BY <1>1, <1>3, <1>5, <1>7, <1>9, <1>10

\* The switch to the candidate: no result has been sent of an update that had
\* not begun.
LEMMA SwitchStep == IInv /\ Switch => IInv'
<1> SUFFICES ASSUME IInv, Switch PROVE IInv'
  OBVIOUS
<1>1. /\ update = "none" /\ update' = "pending" /\ version' = "new"
      /\ Disconnected /\ UNCHANGED <<active, live, issued, outcome, settled, up>>
  BY DEF Switch, Fresh, center
<1>2. /\ conn' \in {None, Len(up')} /\ greeted' \in BOOLEAN /\ acked' \in BOOLEAN
      /\ reported' \in BOOLEAN /\ sent' \in Ids \cup {None} /\ MessagesOK'
      /\ HelloFirst' /\ BeatsAreOwn' /\ LatestIsLast' /\ Fenced' /\ AnsweredIsLive'
  BY <1>1, DisconnectedStep
<1>3. TypeOK'
  BY <1>1, <1>2 DEF IInv, TypeOK
<1>4. ResultsHold'
  BY <1>1 DEF IInv, Queued, ResultsHold, IsResult
<1>5. OldIsFenced' /\ VersionFollowsUpdate' /\ ConfirmedIsLive' /\ OutcomeHolds'
  BY <1>1 DEF IInv, OldIsFenced, VersionFollowsUpdate, ConfirmedIsLive, OutcomeHolds
<1>6. QED
  BY <1>2, <1>3, <1>4, <1>5 DEF IInv, Queued

\* A connection that is given up or lost leaves the update as it was.
LEMMA GiveUpStep == IInv /\ (TimeOut \/ Lose) => IInv'
<1> SUFFICES ASSUME IInv, TimeOut \/ Lose PROVE IInv'
  OBVIOUS
<1>1. /\ Disconnected
      /\ UNCHANGED <<active, live, issued, outcome, version, update, settled, up>>
  BY DEF TimeOut, Lose, center, disk
<1>2. /\ conn' \in {None, Len(up')} /\ greeted' \in BOOLEAN /\ acked' \in BOOLEAN
      /\ reported' \in BOOLEAN /\ sent' \in Ids \cup {None} /\ MessagesOK'
      /\ HelloFirst' /\ BeatsAreOwn' /\ LatestIsLast' /\ Fenced' /\ AnsweredIsLive'
  BY <1>1, DisconnectedStep
<1>3. TypeOK'
  BY <1>1, <1>2 DEF IInv, TypeOK
<1>4. ResultsHold'
  BY <1>1 DEF IInv, Queued, ResultsHold, IsResult
<1>5. OldIsFenced'
  BY <1>1 DEF IInv, OldIsFenced, IsBeat
<1>6. QED
  BY <1>1, <1>2, <1>3, <1>4, <1>5
     DEF IInv, Queued, VersionFollowsUpdate, ConfirmedIsLive, OutcomeHolds

\* A process that exits takes a candidate that is not confirmed with it.
LEMMA ExitStep == IInv /\ Exit => IInv'
<1> SUFFICES ASSUME IInv, Exit PROVE IInv'
  OBVIOUS
<1>1. /\ Disconnected /\ UNCHANGED <<active, live, issued, outcome, settled, up>>
      /\ IF update = "pending"
         THEN update' = "failed" /\ version' = "old"
         ELSE update' = update /\ version' = version
  BY DEF Exit, center
<1>2. /\ conn' \in {None, Len(up')} /\ greeted' \in BOOLEAN /\ acked' \in BOOLEAN
      /\ reported' \in BOOLEAN /\ sent' \in Ids \cup {None} /\ MessagesOK'
      /\ HelloFirst' /\ BeatsAreOwn' /\ LatestIsLast' /\ Fenced' /\ AnsweredIsLive'
  BY <1>1, DisconnectedStep
<1>3. TypeOK'
  BY <1>1, <1>2 DEF IInv, TypeOK
<1>4. ResultsHold'
  BY <1>1 DEF IInv, Queued, ResultsHold, IsResult
<1>5. OldIsFenced'
  BY <1>1 DEF IInv, OldIsFenced, IsBeat
<1>6. VersionFollowsUpdate' /\ ConfirmedIsLive' /\ OutcomeHolds'
  BY <1>1 DEF IInv, VersionFollowsUpdate, ConfirmedIsLive, OutcomeHolds
<1>7. QED
  BY <1>2, <1>3, <1>4, <1>5, <1>6 DEF IInv, Queued

-----------------------------------------------------------------------------
LEMMA InitIInv == Init => IInv
<1> SUFFICES ASSUME Init PROVE IInv
  OBVIOUS
<1>1. /\ up \in Seq(Seq(UpMessages)) /\ Len(up) = 0
      /\ down \in Seq(DownMessages) /\ Len(down) = 0
  BY EmptySeq DEF Init
<1>2. TypeOK
  <2>1. greeted = FALSE /\ acked = FALSE /\ reported = FALSE /\ settled = FALSE /\ issued = FALSE
    BY DEF Init
  <2>2. {greeted, acked, reported, settled} \subseteq BOOLEAN /\ issued \in BOOLEAN
    BY <2>1
  <2>3. /\ active \in 0 .. Len(up) /\ conn \in {None, Len(up)} /\ sent \in Ids \cup {None}
        /\ outcome \in {"open", "activated", "failed"} /\ version \in {"old", "new"}
        /\ update \in {"none", "pending", "confirmed", "failed"}
    BY <1>1 DEF Init, None
  <2>4. QED
    BY <2>2, <2>3 DEF TypeOK
<1>3. MessagesOK
  BY <1>1 DEF Init, MessagesOK, Unheard, Versions
<1>4. Queued /\ OldIsFenced
  BY <1>1 DEF Init, Queued, HelloFirst, Unanswering, BeatsAreOwn, LatestIsLast,
     ResultsHold, OldIsFenced
<1>5. Fenced /\ AnsweredIsLive
  BY <1>1 DEF Init, Fenced, HelloTaken, AnsweredIsLive, Answered
<1>6. VersionFollowsUpdate /\ ConfirmedIsLive /\ OutcomeHolds
  BY DEF Init, VersionFollowsUpdate, ConfirmedIsLive, OutcomeHolds
<1>7. QED
  BY <1>2, <1>3, <1>4, <1>5, <1>6 DEF IInv

LEMMA NextIInv == IInv /\ [Next]_vars => IInv'
<1> SUFFICES ASSUME IInv, [Next]_vars PROVE IInv'
  OBVIOUS
<1>1. ASSUME NEW k \in DOMAIN up, Take(k) PROVE IInv'
  <2>1. k \in 1 .. Len(up)
    BY LenProperties DEF IInv, MessagesOK
  <2>2. QED
    BY <1>1, <2>1, TakeHelloStep, TakeHeartbeatStep, TakeResultStep DEF Take
<1>2. CASE Issue
  BY <1>2, IssueStep
<1>3. CASE Connect
  BY <1>3, ConnectStep
<1>4. CASE Receive
  BY <1>4, ReceiveStep, TakeAckStep, SwitchStep DEF Receive
<1>5. CASE SendHeartbeat \/ SendResult
  BY <1>5, SendHeartbeatStep, SendResultStep
<1>6. CASE TimeOut \/ Lose \/ Exit
  BY <1>6, GiveUpStep, ExitStep
<1>7. CASE UNCHANGED vars
  <2>1. issued' \in BOOLEAN
    BY <1>7 DEF vars, center, IInv, TypeOK
  <2>2. UNCHANGED <<active, live, outcome, process, disk, up, down>>
    BY <1>7 DEF vars, center
  <2>3. QED
    BY <2>1, <2>2, QuietStep
<1>8. QED
  BY <1>1, <1>2, <1>3, <1>4, <1>5, <1>6, <1>7 DEF Next

LEMMA Invariance == Spec => []IInv
BY InitIInv, NextIInv, PTL DEF Spec

\* The state of the center, of the Agent and of the update has its type
\* throughout.
THEOREM TypeCorrect == Spec => []TypeOK
<1>1. IInv => TypeOK
  BY DEF IInv
<1>2. QED
  BY <1>1, Invariance, PTL

\* An acknowledged heartbeat is the center's liveness snapshot: the answer is
\* the one to the Agent's latest heartbeat (ValidateHeartbeatAck and the message
\* ID it takes), whatever older connections still hold.
THEOREM AcknowledgementIsTrue == Spec => []AcknowledgedIsLive
<1>1. IInv => AcknowledgedIsLive
  BY DEF IInv, AcknowledgedIsLive, AnsweredIsLive, Answered
<1>2. QED
  BY <1>1, Invariance, PTL

\* A candidate that has confirmed itself is what the center sees, for good:
\* what its predecessor has left in a connection is fenced.
THEOREM ConfirmationIsSeen == Spec => []ConfirmedIsLive
<1>1. IInv => ConfirmedIsLive
  BY DEF IInv
<1>2. QED
  BY <1>1, Invariance, PTL

\* The result the center has stored for agent.update is what runs at the node,
\* however often the command and the result have been delivered.
THEOREM StoredOutcomeHolds == Spec => []OutcomeHolds
<1>1. IInv => OutcomeHolds
  BY DEF IInv
<1>2. QED
  BY <1>1, Invariance, PTL

=============================================================================
