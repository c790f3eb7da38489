-------------------------- MODULE CommandDelivery --------------------------
(***************************************************************************)
(* The durable commands between the center and one Agent: command, result  *)
(* and acknowledgement, each in an envelope that may be lost, repeated or  *)
(* late, with crashes of the Agent in between, and the JSON texts on which *)
(* both sides compute their digests.                                       *)
(*                                                                         *)
(* This repository builds and checks the envelopes and the digests         *)
(* (agent/v1/commands.go, messages.go, plugins.go); when the center and    *)
(* the Agent use them is told by docs/agent-control-v1.md.                 *)
(*                                                                         *)
(* A JSON text is a value, whether it has space around its tokens, and how *)
(* the characters that json.Marshal escapes, which are <, >, & and the     *)
(* separators U+2028 and U+2029, stand in its strings: there are none,     *)
(* some are written plainly, or all are escaped.  A digest is the text it  *)
(* is of: SHA-256 has no collisions.                                       *)
(***************************************************************************)
EXTENDS Naturals, FiniteSets

CONSTANTS
  Count,       \* how many commands are created
  Content,     \* the configuration of each command, as its author wrote it
  Built,       \* the commands made with NewPluginReconcileCommand; the
               \* others carry their payload as it is written
  MaxCrashes   \* crashes of the Agent

Commands == 1 .. Count

Texts(values) ==
  [value : values, spaced : BOOLEAN, special : {"none", "plain", "escaped"}]

Values == {Content[c].value : c \in Commands}

ASSUME CommandsAssumption ==
  /\ Count \in Nat /\ MaxCrashes \in Nat
  /\ Content \in [Commands -> Texts(Values)]
  /\ Built \subseteq Commands

Undecided == "undecided"
Verdicts  == {"succeeded", "failed"}
Idle      == 0

VARIABLES
  issued,    \* the center has persisted commands 1 .. issued
  outcome,   \* the terminal result the center has stored for each
  expired,   \* the commands whose time is over
  recorded,  \* the Agent's records of commands, on disk: ID and digest
  result,    \* the terminal result the Agent has stored for each, on disk
  reported,  \* the configuration digest of a successful result, on disk
  settled,   \* the results whose acknowledgement the Agent has on disk
  running,   \* the command whose handler runs, or Idle
  awaited,   \* the result envelopes the process has sent: ID and command
  ids,       \* envelope IDs drawn so far
  crashes,
  commands, results, acks  \* envelopes on the way; they are never taken away

center == <<issued, outcome, expired>>
disk   == <<recorded, result, reported, settled>>
agent  == <<disk, running, awaited, ids, crashes>>
wire   == <<commands, results, acks>>
vars   == <<center, agent, wire>>

Init ==
  /\ issued = 0
  /\ outcome = [c \in Commands |-> Undecided]
  /\ expired = {}
  /\ recorded = {}
  /\ result = [c \in Commands |-> Undecided]
  /\ reported = {}
  /\ settled = {} /\ running = Idle /\ awaited = {} /\ ids = 0 /\ crashes = 0
  /\ commands = {} /\ results = {} /\ acks = {}

-----------------------------------------------------------------------------
(* JSON texts and their digests                                            *)

\* json.Compact takes the space out and leaves the strings alone.
Compact(text) == [text EXCEPT !.spaced = FALSE]

\* json.Marshal of a RawMessage does so too, and escapes the characters above.
Marshal(text) ==
  [text EXCEPT !.spaced = FALSE,
               !.special = IF @ = "plain" THEN "escaped" ELSE @]

\* NewPluginReconcileCommand encodes the configuration into the payload.
Payload(c) == IF c \in Built THEN Marshal(Content[c]) ELSE Content[c]

\* Fault: the digest is of the payload's bytes.
DigestOfBytes(payload) == payload

\* Fault: the digest is of the compact payload, like a configuration's.
DigestOfCompact(payload) == Compact(payload)

\* The whole command is encoded again for its digest.
CommandDigest(payload) == Marshal(payload)

\* Fault: the digest is of the configuration's bytes.
ConfigurationBytes(text) == text

PluginConfigurationDigest(text) == Compact(text)

\* Fault: an envelope ID that counts the envelopes of the process.
CountedID == Cardinality(awaited) + 1

\* NewID draws 128 random bits: an ID is never drawn twice.
NewID == ids + 1

-----------------------------------------------------------------------------
(* The center                                                              *)

Issue ==
  /\ issued < Count
  /\ issued' = issued + 1
  /\ UNCHANGED <<outcome, expired, agent, wire>>

Expire(c) ==
  /\ c <= issued /\ outcome[c] = Undecided
  /\ expired' = expired \cup {c}
  /\ UNCHANGED <<issued, outcome, agent, wire>>

\* Fault: the next command goes out while the one before is at work.
Unfinished(c) == c <= issued /\ outcome[c] = Undecided /\ c \notin expired

\* The oldest command that has no result and is not over.
Active(c) ==
  /\ Unfinished(c)
  /\ \A d \in 1 .. c - 1 : ~Unfinished(d)

\* NewCommandEnvelope, in a heartbeat acknowledgement: the command is encoded
\* into the envelope, its ID is the idempotency key.
Dispatch(c) ==
  /\ Active(c)
  /\ commands' = commands \cup {[key |-> c, payload |-> Marshal(Payload(c))]}
  /\ UNCHANGED <<center, agent, results, acks>>

NewCommandResultAckEnvelope(m) ==
  [correlation |-> m.id, digest |-> m.digest]

\* The result is checked against the command, stored if it is the first, and
\* acknowledged if it is the stored one.
StoreResult(m) ==
  /\ m.digest = CommandDigest(Payload(m.key))
  /\ outcome[m.key] \in {Undecided, m.status}
  /\ outcome' = [outcome EXCEPT ![m.key] = m.status]
  /\ acks' = acks \cup {NewCommandResultAckEnvelope(m)}
  /\ UNCHANGED <<issued, expired, agent, commands, results>>

-----------------------------------------------------------------------------
(* The Agent                                                               *)

Known(c) == \E r \in recorded : r.command = c

\* A command seen before is not recorded again, nor is one that is over.
Record(m) ==
  /\ ~Known(m.key) /\ m.key \notin expired
  /\ recorded' = recorded \cup
                   {[command |-> m.key, digest |-> CommandDigest(m.payload)]}
  /\ UNCHANGED <<center, result, reported, settled, running, awaited, ids,
                 crashes, wire>>

\* After a crash the handler of a command without a result is called again.
Start(c) ==
  /\ Known(c) /\ result[c] = Undecided /\ c \notin expired
  /\ running = Idle
  /\ running' = c
  /\ UNCHANGED <<center, disk, awaited, ids, crashes, wire>>

\* The plugin has the configuration of the command and reports its digest.
Succeed(m) ==
  /\ m.key = running
  /\ result' = [result EXCEPT ![running] = "succeeded"]
  /\ reported' = reported \cup
       {[command |-> running, digest |-> PluginConfigurationDigest(m.payload)]}
  /\ running' = Idle
  /\ UNCHANGED <<center, recorded, settled, awaited, ids, crashes, wire>>

Fail ==
  /\ running # Idle
  /\ result' = [result EXCEPT ![running] = "failed"]
  /\ running' = Idle
  /\ UNCHANGED <<center, recorded, reported, settled, awaited, ids, crashes,
                 wire>>

\* NewCommandResultEnvelope, with the command ID for its key.  The process
\* sends a stored result once; sending it again is another copy on the wire.
SendResult(r) ==
  /\ result[r.command] # Undecided /\ r.command \notin settled
  /\ \A sent \in awaited : sent.command # r.command
  /\ ids' = ids + 1
  /\ awaited' = awaited \cup {[id |-> NewID, command |-> r.command]}
  /\ results' = results \cup
       {[id |-> NewID, key |-> r.command, digest |-> r.digest,
         status |-> result[r.command]]}
  /\ UNCHANGED <<center, disk, running, crashes, commands, acks>>

\* An acknowledgement matches the result envelope's ID and the digest.
TakeAck(sent, ack) ==
  /\ ack.correlation = sent.id
  /\ [command |-> sent.command, digest |-> ack.digest] \in recorded
  /\ settled' = settled \cup {sent.command}
  /\ UNCHANGED <<center, recorded, result, reported, running, awaited, ids,
                 crashes, wire>>

Crash ==
  /\ crashes < MaxCrashes
  /\ crashes' = crashes + 1
  /\ running' = Idle /\ awaited' = {}
  /\ UNCHANGED <<center, disk, ids, wire>>

-----------------------------------------------------------------------------
Next ==
  \/ Issue
  \/ \E c \in Commands : Expire(c) \/ Dispatch(c) \/ Start(c)
  \/ \E m \in commands : Record(m) \/ Succeed(m)
  \/ Fail
  \/ \E r \in recorded : SendResult(r)
  \/ \E m \in results : StoreResult(m)
  \/ \E sent \in awaited, ack \in acks : TakeAck(sent, ack)
  \/ Crash

Spec == Init /\ [][Next]_vars

\* The session is set up again and again, and what is sent for ever arrives;
\* a handler ends within its ten minutes.
Fairness ==
  /\ \A c \in Commands :
       /\ WF_vars(Dispatch(c))
       /\ SF_vars(Start(c))
       /\ SF_vars(\E m \in results : m.key = c /\ StoreResult(m))
       /\ SF_vars(\E sent \in awaited, ack \in acks :
                    sent.command = c /\ TakeAck(sent, ack))
  /\ WF_vars(\E m \in commands : Record(m))
  /\ WF_vars(Fail \/ \E m \in commands : Succeed(m))
  /\ WF_vars(\E r \in recorded : SendResult(r))

FairSpec == Spec /\ Fairness

-----------------------------------------------------------------------------
(* Properties                                                              *)

TypeOK ==
  /\ issued \in 0 .. Count
  /\ outcome \in [Commands -> Verdicts \cup {Undecided}]
  /\ expired \subseteq 1 .. issued
  /\ recorded \subseteq [command : Commands, digest : Texts(Values)]
  /\ reported \subseteq [command : Commands, digest : Texts(Values)]
  /\ result \in [Commands -> Verdicts \cup {Undecided}]
  /\ settled \subseteq Commands
  /\ running \in Commands \cup {Idle}
  /\ ids \in Nat /\ awaited \subseteq [id : 1 .. ids, command : Commands]
  /\ crashes \in 0 .. MaxCrashes

\* The digest the Agent records of a command, after the command has been
\* through every encoding on the way, is the one the center has for it: a
\* redelivery is never taken for another command, nor its result refused.
DigestsAgree ==
  \A r \in recorded : r.digest = CommandDigest(Payload(r.command))

\* Handlers run in the order of the commands: whatever is late or delivered
\* again, no earlier command that may still run is left behind.
RunsInOrder ==
  running # Idle =>
    \A d \in 1 .. running - 1 : result[d] # Undecided \/ d \in expired

\* The digest of the configuration a plugin runs is the one its author was
\* given for it (NodePluginConfigured.sha256), however often the text has been
\* encoded; only the escapes of <, >, &, U+2028 and U+2029, the characters that
\* json.Marshal escapes and json.Compact does not, make another one of it.
OnlyEscapesChangeDigest ==
  \A r \in reported :
    LET written == Content[r.command] IN
    /\ r.digest = PluginConfigurationDigest(
                    [written EXCEPT !.special = r.digest.special])
    /\ r.digest.special # written.special => written.special = "plain"

Contract == INSTANCE CommandContract WITH
  verdict <- result, known <- outcome, closed <- settled

\* Command, result and acknowledgement are one decision, learned once.
ImplementsContract == Contract!Spec

\* Every command is over in the end: its time is, or its result is known and
\* closed, through crashes and lost messages.
EveryCommandEnds ==
  \A c \in Commands :
    issued >= c ~> c \in expired \/ c \in settled

=============================================================================
