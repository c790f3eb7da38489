--------------------------- MODULE ControlSession ---------------------------
(***************************************************************************)
(* The control session between the center and one Agent, and the update of *)
(* the Agent that is carried by it.  The Agent connects, says hello, is    *)
(* given a session and sends heartbeats; the center keeps the newest       *)
(* session only and answers a heartbeat once it is persisted.  An answer   *)
(* may carry the agent.update command, whose candidate has to be heard by  *)
(* the center before it is confirmed.                                      *)
(*                                                                         *)
(* This repository has the messages and their validators                   *)
(* (agent/v1/messages.go, update.go); when they are sent, and what is kept *)
(* on disk, is told by docs/agent-control-v1.md.                           *)
(*                                                                         *)
(* A connection delivers in order.  What the Agent has sent over one it    *)
(* has given up may still reach the center, later than the hello of the    *)
(* next.  Each connection has one hello, so its number stands for the      *)
(* session ID the center draws for it.                                     *)
(***************************************************************************)
EXTENDS Naturals, Sequences, Functions

CONSTANTS
  Ids,         \* envelope IDs of heartbeats, as many as there may be at a
               \* time; one is drawn again when nothing refers to it any more
  MaxLosses,   \* connections that are lost though the center serves them
  MaxLate,     \* heartbeats sent before the one before them is answered
  MaxExits     \* exits of the Agent's process that it did not ask for

ASSUME SessionAssumption ==
  /\ 0 \notin Ids
  /\ MaxLosses \in Nat /\ MaxLate \in Nat /\ MaxExits \in Nat

None == 0

VARIABLES
  \* the center
  active,    \* the session it serves, or None
  live,      \* the latest accepted heartbeat
  issued,    \* it has persisted the update command
  outcome,   \* the terminal result it has stored, or "open"
  \* the Agent's process
  conn,      \* its connection, or None
  greeted,   \* the center's hello has come
  sent,      \* the ID of its latest heartbeat, or None
  acked,     \* that heartbeat has been acknowledged
  reported,  \* it has sent the result over this connection
  \* the Agent's disk
  version,   \* the build the launcher's link leads to, and which runs
  update,    \* how far the update has come
  settled,   \* the acknowledgement of its result is recorded
  \* the connections
  up,        \* of each connection, what has not reached the center
  down,      \* what has not reached the Agent over its connection
  losses, late, exits

center  == <<active, live, issued, outcome>>
process == <<conn, greeted, sent, acked, reported>>
disk    == <<version, update, settled>>
faults  == <<losses, late, exits>>
vars    == <<center, process, disk, up, down, faults>>

Unheard == [session |-> None, id |-> None, version |-> "old"]

Init ==
  /\ active = None /\ live = Unheard /\ issued = FALSE /\ outcome = "open"
  /\ conn = None /\ greeted = FALSE /\ sent = None /\ acked = FALSE
  /\ reported = FALSE
  /\ version = "old" /\ update = "none" /\ settled = FALSE
  /\ up = <<>> /\ down = <<>>
  /\ losses = 0 /\ late = 0 /\ exits = 0

-----------------------------------------------------------------------------
(* Messages                                                                *)

AgentHello == [type |-> "agent.hello", version |-> version]

CenterHello(k) == [type |-> "center.hello", session |-> k]

Heartbeat(id) ==
  [type |-> "agent.heartbeat", session |-> conn, version |-> version, id |-> id]

HeartbeatAck(id, command) ==
  [type |-> "center.heartbeat_ack", message |-> id, command |-> command]

CommandResult(status) == [type |-> "agent.command_result", status |-> status]

CommandResultAck == [type |-> "center.command_result_ack"]

OfType(queue, type) == {m \in Range(queue) : m.type = type}

\* IDs of heartbeats, and of acknowledgements, on the Agent's connection.
Unanswered ==
  {beat.id : beat \in OfType(up[conn], "agent.heartbeat")}
    \cup {ack.message : ack \in OfType(down, "center.heartbeat_ack")}

\* NewID draws 128 random bits: an ID that nothing refers to.
FreshIds == Ids \ (Unanswered \cup {sent, live.id})
NewID == CHOOSE id \in FreshIds : TRUE

-----------------------------------------------------------------------------
(* The center                                                              *)

Comes(k, type) == /\ up[k] # <<>> /\ Head(up[k]).type = type
                  /\ up' = [up EXCEPT ![k] = Tail(@)]

\* An answer goes back over the connection, if the Agent still has it.
Answer(k, message) ==
  down' = IF k = conn THEN Append(down, message) ELSE down

\* A hello opens a session, which fences the one before.
TakeHello(k) ==
  /\ Comes(k, "agent.hello")
  /\ active' = k
  /\ Answer(k, CenterHello(k))
  /\ UNCHANGED <<live, issued, outcome, process, disk, faults>>

\* Fault: a heartbeat counts whichever session it belongs to.
AnySession(session) == session # None

\* Messages of a superseded session cannot update node state.
Serves(session) == session = active

TakeHeartbeat(k) ==
  /\ Comes(k, "agent.heartbeat")
  /\ LET beat == Head(up[k]) IN
     IF Serves(beat.session)
     THEN /\ live' = [session |-> k, id |-> beat.id, version |-> beat.version]
          /\ Answer(k, HeartbeatAck(beat.id, issued /\ outcome = "open"))
     ELSE UNCHANGED <<live, down>>
  /\ UNCHANGED <<active, issued, outcome, process, disk, faults>>

TakeResult(k) ==
  /\ Comes(k, "agent.command_result")
  /\ IF Serves(k)
     THEN /\ outcome' = IF outcome = "open" THEN Head(up[k]).status ELSE outcome
          /\ Answer(k, CommandResultAck)
     ELSE UNCHANGED <<outcome, down>>
  /\ UNCHANGED <<active, live, issued, process, disk, faults>>

Issue ==
  /\ ~issued /\ issued' = TRUE
  /\ UNCHANGED <<active, live, outcome, process, disk, up, down, faults>>

-----------------------------------------------------------------------------
(* The Agent                                                               *)

Disconnected ==
  /\ conn' = None /\ greeted' = FALSE /\ sent' = None /\ acked' = FALSE
  /\ reported' = FALSE /\ down' = <<>>

Connect ==
  /\ conn = None
  /\ conn' = Len(up) + 1
  /\ up' = Append(up, <<AgentHello>>)
  /\ UNCHANGED <<center, greeted, sent, acked, reported, disk, down, faults>>

Arrives(type) == down # <<>> /\ Head(down).type = type

TakeCenterHello ==
  /\ Arrives("center.hello")
  /\ greeted' = TRUE /\ down' = Tail(down)
  /\ UNCHANGED <<center, conn, sent, acked, reported, disk, up, faults>>

SendHeartbeat ==
  /\ greeted /\ FreshIds # {}
  /\ IF sent = None \/ acked
     THEN UNCHANGED late
     ELSE late < MaxLate /\ late' = late + 1
  /\ sent' = NewID /\ acked' = FALSE
  /\ up' = [up EXCEPT ![conn] = Append(@, Heartbeat(NewID))]
  /\ UNCHANGED <<center, conn, greeted, reported, disk, down, losses, exits>>

\* Fault: any acknowledgement is for the latest heartbeat.
AnyAnswer(ack) == sent # None

\* The acknowledgement carries the ID of the heartbeat it answers.
Matches(ack) == ack.message = sent

\* Fault: a failed update is tried once more when its command comes again.
NotConfirmed == update \in {"none", "failed"}

\* A command that comes again finds the update's state on disk.
Fresh == update = "none"

RejectAck ==
  /\ Arrives("center.heartbeat_ack") /\ ~Matches(Head(down))
  /\ down' = Tail(down)
  /\ UNCHANGED <<center, process, disk, up, faults>>

\* The first acknowledgement a candidate gets confirms it.
TakeAck ==
  /\ Arrives("center.heartbeat_ack") /\ Matches(Head(down))
  /\ ~(Head(down).command /\ Fresh)
  /\ acked' = TRUE /\ down' = Tail(down)
  /\ update' = IF update = "pending" THEN "confirmed" ELSE update
  /\ UNCHANGED <<center, conn, greeted, sent, reported, version, settled, up,
                 faults>>

\* It carries the command: download, verify, switch the link and restart.
Switch ==
  /\ Arrives("center.heartbeat_ack") /\ Matches(Head(down))
  /\ Head(down).command /\ Fresh
  /\ update' = "pending" /\ version' = "new"
  /\ Disconnected
  /\ UNCHANGED <<center, settled, up, faults>>

\* The result of the update, sent again over each connection until the center
\* has acknowledged it.
SendResult ==
  /\ greeted /\ update \in {"confirmed", "failed"} /\ ~settled /\ ~reported
  /\ reported' = TRUE
  /\ up' = [up EXCEPT ![conn] = Append(@, CommandResult(
              IF update = "confirmed" THEN "activated" ELSE "failed"))]
  /\ UNCHANGED <<center, conn, greeted, sent, acked, disk, down, faults>>

TakeResultAck ==
  /\ Arrives("center.command_result_ack")
  /\ settled' = TRUE /\ down' = Tail(down)
  /\ UNCHANGED <<center, process, version, update, up, faults>>

\* Fault: an Agent that has its session waits on.
NeverGreeted ==
  /\ conn # None /\ active # conn /\ ~greeted
  /\ OfType(up[conn], "agent.hello") = {}

\* The center serves another session, and nothing that could change that is on
\* its way over this connection.
Superseded ==
  /\ conn # None /\ active # conn
  /\ OfType(up[conn], "agent.hello") = {}

\* Three intervals without an answer end the session.
TimeOut ==
  /\ Superseded
  /\ Disconnected
  /\ UNCHANGED <<center, disk, up, faults>>

Lose ==
  /\ conn # None /\ losses < MaxLosses
  /\ losses' = losses + 1
  /\ Disconnected
  /\ UNCHANGED <<center, disk, up, late, exits>>

\* The process exits and the launcher starts what its link leads to.  A
\* candidate that exits before it is confirmed is rolled back.
Exit ==
  /\ exits < MaxExits
  /\ exits' = exits + 1
  /\ IF update = "pending"
     THEN update' = "failed" /\ version' = "old"
     ELSE UNCHANGED <<update, version>>
  /\ Disconnected
  /\ UNCHANGED <<center, settled, up, losses, late>>

-----------------------------------------------------------------------------
Take(k) == TakeHello(k) \/ TakeHeartbeat(k) \/ TakeResult(k)

Receive == TakeCenterHello \/ RejectAck \/ TakeAck \/ Switch \/ TakeResultAck

Next ==
  \/ \E k \in DOMAIN up : Take(k)
  \/ Issue
  \/ Connect \/ Receive \/ SendHeartbeat \/ SendResult
  \/ TimeOut \/ Lose \/ Exit

\* Connections are read, the Agent reconnects, sends its heartbeats and its
\* result, and gives up a session that is never answered.  Nothing makes the
\* center issue an update, or a connection or a process fail.
Spec ==
  /\ Init /\ [][Next]_vars
  /\ WF_vars(\E k \in DOMAIN up : Take(k)) /\ WF_vars(Receive)
  /\ WF_vars(Connect) /\ WF_vars(SendHeartbeat) /\ WF_vars(SendResult)
  /\ WF_vars(TimeOut)

-----------------------------------------------------------------------------
TypeOK ==
  /\ active \in 0 .. Len(up) /\ conn \in {None, Len(up)}
  /\ issued \in BOOLEAN /\ outcome \in {"open", "activated", "failed"}
  /\ {greeted, acked, reported, settled} \subseteq BOOLEAN
  /\ sent \in Ids \cup {None}
  /\ version \in {"old", "new"}
  /\ update \in {"none", "pending", "confirmed", "failed"}

\* When the Agent takes an acknowledgement for its latest heartbeat, the
\* center's liveness snapshot is that heartbeat and stays so until the Agent
\* sends another: neither a delayed answer nor the rest of an older
\* connection comes between them.
AcknowledgedIsLive ==
  acked => live = [session |-> conn, id |-> sent, version |-> version]

\* A confirmed candidate is what the center sees running, for good: nothing an
\* older process has left in a connection brings the old version back.
ConfirmedIsLive == update = "confirmed" => live.version = "new"

\* What the center has been told of the update is what runs at the node, for
\* good, however often its command and its result are delivered.
OutcomeHolds ==
  /\ outcome = "activated" => version = "new" /\ update = "confirmed"
  /\ outcome = "failed" => version = "old" /\ update = "failed"

\* An issued update comes to an end at the center.
UpdateEnds == issued ~> outcome # "open"

=============================================================================
