------------------------ MODULE CommandDeliveryProofs ------------------------
(***************************************************************************)
(* The durable commands keep the contract of CommandContract for any       *)
(* number of commands, any configurations and any number of crashes: the   *)
(* refinement, the agreement on digests, and the order in which handlers   *)
(* run.  Envelopes are never taken away from the wire, so the invariant    *)
(* says of each that what it tells stays true.                             *)
(***************************************************************************)
EXTENDS CommandDelivery, TLAPS

CommandEnvelopes == [key : Commands, payload : Texts(Values)]

ResultEnvelopes ==
  [id : Nat, key : Commands, digest : Texts(Values), status : Verdicts]

AckEnvelopes == [correlation : Nat, digest : Texts(Values)]

WireOK ==
  /\ commands \subseteq CommandEnvelopes
  /\ results \subseteq ResultEnvelopes
  /\ acks \subseteq AckEnvelopes

\* A payload on its way is the command, encoded; every command before it has
\* its outcome, or its time is over.
CommandsHold ==
  \A m \in commands :
    /\ m.payload = Marshal(Payload(m.key))
    /\ \A d \in 1 .. m.key - 1 : outcome[d] # Undecided \/ d \in expired

RecordedInOrder ==
  \A r \in recorded : \A d \in 1 .. r.command - 1 : outcome[d] # Undecided \/ d \in expired

\* The digest that is reported is that of the command's configuration, encoded.
ReportedHold ==
  \A r \in reported : r.digest = PluginConfigurationDigest(Marshal(Payload(r.command)))

\* A result on its way is the Agent's, and its envelope is the only one with
\* its ID.
ResultsHold ==
  \A m \in results :
    /\ m.status = result[m.key] /\ m.id <= ids
    /\ \A sent \in awaited : sent.id = m.id => sent.command = m.key

\* An acknowledgement on its way answers a result that the center has stored.
AcksHold ==
  \A ack \in acks : \E m \in results :
    m.id = ack.correlation /\ outcome[m.key] # Undecided

\* The center knows nothing but the Agent's verdict, and what the Agent has
\* closed the center knows.
OutcomesHold ==
  /\ \A c \in Commands : outcome[c] # Undecided => outcome[c] = result[c]
  /\ \A c \in settled : outcome[c] # Undecided

RunningIsOpen == running # Idle => result[running] = Undecided

IInv ==
  /\ TypeOK /\ WireOK
  /\ CommandsHold /\ RecordedInOrder /\ ReportedHold
  /\ ResultsHold /\ AcksHold /\ OutcomesHold /\ RunningIsOpen
  /\ DigestsAgree /\ RunsInOrder

-----------------------------------------------------------------------------
\* A text is determined by its value, its space and its escapes.
LEMMA TextsAreEqual ==
  ASSUME NEW a \in Texts(Values), NEW b \in Texts(Values),
         a.value = b.value, a.spaced = b.spaced, a.special = b.special
  PROVE  a = b
BY DEF Texts

\* What the encodings of a text do to it.
LEMMA Encoded ==
  ASSUME NEW text \in Texts(Values)
  PROVE  /\ Compact(text) \in Texts(Values) /\ Marshal(text) \in Texts(Values)
         /\ Compact(text).value = text.value /\ Marshal(text).value = text.value
         /\ Compact(text).spaced = FALSE /\ Marshal(text).spaced = FALSE
         /\ Compact(text).special = text.special
         /\ Marshal(text).special = IF text.special = "plain" THEN "escaped" ELSE text.special
<1>1. text.value \in Values /\ text.special \in {"none", "plain", "escaped"}
  BY DEF Texts
<1>2. /\ Compact(text) \in Texts(Values) /\ Compact(text).value = text.value
      /\ Compact(text).spaced = FALSE /\ Compact(text).special = text.special
  BY DEF Compact, Texts
<1> DEFINE compact == Compact(text)
           escaped == IF text.special = "plain" THEN "escaped" ELSE text.special
<1>3. Marshal(text) = [compact EXCEPT !.special = escaped]
  BY DEF Marshal, Compact, Texts
<1>4. escaped \in {"none", "plain", "escaped"}
  BY <1>1
<1> HIDE DEF compact, escaped
<1>5. compact \in Texts(Values) /\ compact.value = text.value /\ compact.spaced = FALSE
  BY <1>2 DEF compact
<1>6. /\ Marshal(text) \in Texts(Values) /\ Marshal(text).value = text.value
      /\ Marshal(text).spaced = FALSE /\ Marshal(text).special = escaped
  BY <1>3, <1>4, <1>5 DEF Texts
<1>7. QED
  BY <1>2, <1>6 DEF escaped

\* To encode a text again changes nothing.
LEMMA MarshalTwice ==
  ASSUME NEW text \in Texts(Values)
  PROVE  Marshal(Marshal(text)) = Marshal(text)
<1> DEFINE once == Marshal(text)
<1>1. once \in Texts(Values) /\ once.spaced = FALSE /\ once.special # "plain"
  BY Encoded
<1> HIDE DEF once
<1>2. /\ Marshal(once) \in Texts(Values) /\ Marshal(once).value = once.value
      /\ Marshal(once).spaced = once.spaced /\ Marshal(once).special = once.special
  BY <1>1, Encoded
<1>3. QED
  BY <1>1, <1>2, TextsAreEqual DEF once

LEMMA PayloadOK ==
  ASSUME NEW c \in Commands
  PROVE  /\ Content[c] \in Texts(Values) /\ Payload(c) \in Texts(Values)
         /\ Marshal(Payload(c)) = Marshal(Content[c])
<1>1. Content[c] \in Texts(Values)
  BY CommandsAssumption
<1>2. QED
  BY <1>1, Encoded, MarshalTwice DEF Payload

-----------------------------------------------------------------------------
LEMMA InitIInv == Init => IInv
<1> SUFFICES ASSUME Init PROVE IInv
  OBVIOUS
<1>1. TypeOK
  BY CommandsAssumption DEF Init, TypeOK
<1>2. WireOK /\ CommandsHold /\ ResultsHold /\ AcksHold
  BY DEF Init, WireOK, CommandsHold, ResultsHold, AcksHold
<1>3. RecordedInOrder /\ ReportedHold /\ OutcomesHold /\ RunningIsOpen
  BY DEF Init, RecordedInOrder, ReportedHold, OutcomesHold, RunningIsOpen
<1>4. DigestsAgree /\ RunsInOrder
  BY DEF Init, DigestsAgree, RunsInOrder
<1>5. QED
  BY <1>1, <1>2, <1>3, <1>4 DEF IInv

\* The center creates a command, or the time of one is over.
LEMMA CenterStep ==
  ASSUME IInv, Issue \/ \E c \in Commands : Expire(c)
  PROVE  IInv'
<1>1. /\ issued' \in issued .. Count /\ expired \subseteq expired' /\ expired' \subseteq 1 .. issued'
      /\ UNCHANGED <<outcome, recorded, result, reported, settled, running, awaited, ids,
                     crashes, commands, results, acks>>
  <2>1. CASE Issue
    <3>1. issued' = issued + 1 /\ issued < Count /\ expired' = expired
      BY <2>1 DEF Issue
    <3>2. UNCHANGED <<outcome, recorded, result, reported, settled, running, awaited, ids,
                      crashes, commands, results, acks>>
      BY <2>1 DEF Issue, agent, disk, wire
    <3>3. QED
      BY <3>1, <3>2, CommandsAssumption DEF IInv, TypeOK
  <2>2. ASSUME NEW c \in Commands, Expire(c)
        PROVE  /\ issued' = issued /\ expired' = expired \cup {c} /\ c \in 1 .. issued
               /\ UNCHANGED <<outcome, recorded, result, reported, settled, running, awaited,
                              ids, crashes, commands, results, acks>>
    BY <2>2 DEF Expire, agent, disk, wire, IInv, TypeOK, Commands
  <2>3. CASE \E c \in Commands : Expire(c)
    <3>1. PICK c \in Commands : Expire(c)
      BY <2>3
    <3>2. /\ issued' = issued /\ expired' = expired \cup {c} /\ c \in 1 .. issued
          /\ UNCHANGED <<outcome, recorded, result, reported, settled, running, awaited,
                         ids, crashes, commands, results, acks>>
      BY <2>2, <3>1
    <3>3. QED
      BY <3>2, CommandsAssumption DEF IInv, TypeOK
  <2>4. QED
    BY <2>1, <2>3
<1>2. TypeOK' /\ WireOK'
  BY <1>1, CommandsAssumption DEF IInv, TypeOK, WireOK
<1>3. CommandsHold' /\ RecordedInOrder' /\ RunsInOrder'
  BY <1>1 DEF IInv, CommandsHold, RecordedInOrder, RunsInOrder
<1>4. ReportedHold' /\ ResultsHold' /\ AcksHold' /\ OutcomesHold' /\ RunningIsOpen'
  BY <1>1 DEF IInv, ReportedHold, ResultsHold, AcksHold, OutcomesHold, RunningIsOpen
<1>5. DigestsAgree'
  BY <1>1 DEF IInv, DigestsAgree
<1>6. QED
  BY <1>2, <1>3, <1>4, <1>5 DEF IInv

\* A command goes out when every command before it is decided or over.
LEMMA DispatchStep ==
  ASSUME IInv, NEW c \in Commands, Dispatch(c)
  PROVE  IInv'
<1> DEFINE m == [key |-> c, payload |-> Marshal(Payload(c))]
<1>1. /\ Active(c) /\ commands' = commands \cup {m}
      /\ UNCHANGED <<issued, outcome, expired, recorded, result, reported, settled,
                     running, awaited, ids, crashes, results, acks>>
  BY DEF Dispatch, center, agent, disk
<1>2. m \in CommandEnvelopes /\ m.key = c /\ m.payload = Marshal(Payload(c))
  BY PayloadOK, Encoded DEF CommandEnvelopes
<1> HIDE DEF m
<1>3. TypeOK' /\ WireOK'
  BY <1>1, <1>2 DEF IInv, TypeOK, WireOK
<1>4. \A d \in 1 .. c - 1 : outcome[d] # Undecided \/ d \in expired
  BY <1>1, CommandsAssumption DEF IInv, TypeOK, Active, Unfinished, Commands
<1>5. CommandsHold'
  BY <1>1, <1>2, <1>4 DEF IInv, CommandsHold
<1>6. RecordedInOrder' /\ RunsInOrder' /\ ReportedHold' /\ ResultsHold'
  BY <1>1 DEF IInv, RecordedInOrder, RunsInOrder, ReportedHold, ResultsHold
<1>7. AcksHold' /\ OutcomesHold' /\ RunningIsOpen' /\ DigestsAgree'
  BY <1>1 DEF IInv, AcksHold, OutcomesHold, RunningIsOpen, DigestsAgree
<1>8. QED
  BY <1>3, <1>5, <1>6, <1>7 DEF IInv

\* The center stores the Agent's verdict, or has it already.
LEMMA StoreResultStep ==
  ASSUME IInv, NEW m \in results, StoreResult(m)
  PROVE  IInv'
<1> DEFINE ack == [correlation |-> m.id, digest |-> m.digest]
<1>1. /\ outcome[m.key] \in {Undecided, m.status}
      /\ outcome' = [outcome EXCEPT ![m.key] = m.status]
      /\ acks' = acks \cup {ack}
      /\ UNCHANGED <<issued, expired, recorded, result, reported, settled,
                     running, awaited, ids, crashes, commands, results>>
  BY DEF StoreResult, NewCommandResultAckEnvelope, agent, disk
<1>2. /\ m.key \in Commands /\ m.status \in Verdicts /\ m.status # Undecided
      /\ m.id \in Nat /\ m.digest \in Texts(Values) /\ m.status = result[m.key]
  BY DEF IInv, WireOK, ResultEnvelopes, ResultsHold, Verdicts, Undecided
<1>3. ack \in AckEnvelopes /\ ack.correlation = m.id
  BY <1>2 DEF AckEnvelopes
<1> HIDE DEF ack
<1>4. \A c \in Commands : outcome'[c] = IF c = m.key THEN m.status ELSE outcome[c]
  BY <1>1, <1>2 DEF IInv, TypeOK
<1>5. \A c \in Commands : outcome[c] # Undecided => outcome'[c] # Undecided
  BY <1>2, <1>4
<1>6. TypeOK'
  BY <1>1, <1>2 DEF IInv, TypeOK
<1>7. WireOK'
  BY <1>1, <1>3 DEF IInv, WireOK
<1>8. \A c \in Commands : \A d \in 1 .. c - 1 : d \in Commands
  BY CommandsAssumption DEF Commands
<1>9. CommandsHold'
  BY <1>1, <1>5, <1>8 DEF IInv, CommandsHold, WireOK, CommandEnvelopes
<1>10. RecordedInOrder'
  BY <1>1, <1>5, <1>8 DEF IInv, RecordedInOrder, TypeOK
<1>11. ReportedHold' /\ ResultsHold' /\ RunningIsOpen' /\ DigestsAgree' /\ RunsInOrder'
  BY <1>1 DEF IInv, ReportedHold, ResultsHold, RunningIsOpen, DigestsAgree, RunsInOrder
<1>12. AcksHold'
  <2>1. \A n \in results : outcome[n.key] # Undecided => outcome'[n.key] # Undecided
    BY <1>5 DEF IInv, WireOK, ResultEnvelopes
  <2>2. outcome'[m.key] # Undecided
    BY <1>2, <1>4
  <2>3. QED
    BY <1>1, <1>3, <2>1, <2>2 DEF IInv, AcksHold
<1>13. OutcomesHold'
  BY <1>1, <1>2, <1>4 DEF IInv, OutcomesHold, TypeOK
<1>14. QED
  BY <1>6, <1>7, <1>9, <1>10, <1>11, <1>12, <1>13 DEF IInv

-----------------------------------------------------------------------------
\* A new command is recorded with the digest the center has for it.
LEMMA RecordStep ==
  ASSUME IInv, NEW m \in commands, Record(m)
  PROVE  IInv'
<1> DEFINE r == [command |-> m.key, digest |-> CommandDigest(m.payload)]
<1>1. /\ recorded' = recorded \cup {r}
      /\ UNCHANGED <<issued, outcome, expired, result, reported, settled,
                     running, awaited, ids, crashes, commands, results, acks>>
  BY DEF Record, center, wire
<1>2. /\ m.key \in Commands /\ m.payload = Marshal(Payload(m.key))
      /\ \A d \in 1 .. m.key - 1 : outcome[d] # Undecided \/ d \in expired
  BY DEF IInv, WireOK, CommandEnvelopes, CommandsHold
<1>3. r.command = m.key /\ r.digest = CommandDigest(Payload(m.key))
  BY <1>2, PayloadOK, MarshalTwice DEF CommandDigest
<1>4. r \in [command : Commands, digest : Texts(Values)]
  BY <1>2, PayloadOK, Encoded DEF CommandDigest
<1> HIDE DEF r
<1>5. TypeOK' /\ WireOK'
  BY <1>1, <1>4 DEF IInv, TypeOK, WireOK
<1>6. RecordedInOrder'
  BY <1>1, <1>2, <1>3 DEF IInv, RecordedInOrder
<1>7. DigestsAgree'
  BY <1>1, <1>3 DEF IInv, DigestsAgree
<1>8. CommandsHold' /\ ReportedHold' /\ ResultsHold' /\ AcksHold'
  BY <1>1 DEF IInv, CommandsHold, ReportedHold, ResultsHold, AcksHold
<1>9. OutcomesHold' /\ RunningIsOpen' /\ RunsInOrder'
  BY <1>1 DEF IInv, OutcomesHold, RunningIsOpen, RunsInOrder
<1>10. QED
  BY <1>5, <1>6, <1>7, <1>8, <1>9 DEF IInv

\* What has an outcome has a result, so every earlier command has one.
LEMMA StartStep ==
  ASSUME IInv, NEW c \in Commands, Start(c)
  PROVE  IInv'
<1>1. /\ Known(c) /\ result[c] = Undecided /\ running' = c
      /\ UNCHANGED <<issued, outcome, expired, recorded, result, reported, settled,
                     awaited, ids, crashes, commands, results, acks>>
  BY DEF Start, center, disk, wire
<1>2. \A d \in 1 .. c - 1 : result[d] # Undecided \/ d \in expired
  <2> SUFFICES ASSUME NEW d \in 1 .. c - 1, d \notin expired PROVE result[d] # Undecided
    OBVIOUS
  <2>1. outcome[d] # Undecided
    BY <1>1 DEF IInv, RecordedInOrder, Known
  <2>2. d \in Commands
    BY CommandsAssumption DEF Commands
  <2>3. QED
    BY <2>1, <2>2 DEF IInv, OutcomesHold
<1>3. TypeOK' /\ WireOK'
  BY <1>1 DEF IInv, TypeOK, WireOK
<1>4. RunsInOrder' /\ RunningIsOpen'
  BY <1>1, <1>2 DEF RunsInOrder, RunningIsOpen
<1>5. CommandsHold' /\ RecordedInOrder' /\ ReportedHold' /\ ResultsHold'
  BY <1>1 DEF IInv, CommandsHold, RecordedInOrder, ReportedHold, ResultsHold
<1>6. AcksHold' /\ OutcomesHold' /\ DigestsAgree'
  BY <1>1 DEF IInv, AcksHold, OutcomesHold, DigestsAgree
<1>7. QED
  BY <1>3, <1>4, <1>5, <1>6 DEF IInv

\* The handler that ends decides a command nothing has been sent of.
LEMMA DecideStep ==
  ASSUME IInv, running \in Commands, NEW v \in Verdicts,
         result' = [result EXCEPT ![running] = v], running' = Idle,
         UNCHANGED <<issued, outcome, expired, recorded, settled, awaited, ids, crashes,
                     commands, results, acks>>,
         reported' \subseteq [command : Commands, digest : Texts(Values)], ReportedHold'
  PROVE  IInv'
<1>1. result[running] = Undecided /\ running # Idle /\ v # Undecided
  BY CommandsAssumption DEF IInv, RunningIsOpen, Commands, Idle, Verdicts, Undecided
<1>2. \A c \in Commands : result'[c] = IF c = running THEN v ELSE result[c]
  BY DEF IInv, TypeOK
<1>3. TypeOK' /\ WireOK'
  BY DEF IInv, TypeOK, WireOK
<1>4. ResultsHold'
  <2> SUFFICES ASSUME NEW m \in results PROVE m.status = result'[m.key]
    BY DEF IInv, ResultsHold
  <2>1. m.key \in Commands /\ m.status \in Verdicts /\ m.status = result[m.key]
    BY DEF IInv, WireOK, ResultEnvelopes, ResultsHold
  <2>2. m.key # running
    BY <1>1, <2>1 DEF Verdicts, Undecided
  <2>3. QED
    BY <1>2, <2>1, <2>2
<1>5. OutcomesHold'
  BY <1>1, <1>2 DEF IInv, OutcomesHold
<1>6. RunsInOrder' /\ RunningIsOpen'
  BY DEF RunsInOrder, RunningIsOpen
<1>7. CommandsHold' /\ RecordedInOrder' /\ AcksHold' /\ DigestsAgree'
  BY DEF IInv, CommandsHold, RecordedInOrder, AcksHold, DigestsAgree
<1>8. QED
  BY <1>3, <1>4, <1>5, <1>6, <1>7 DEF IInv

LEMMA SucceedStep ==
  ASSUME IInv, NEW m \in commands, Succeed(m)
  PROVE  IInv' /\ running \in Commands /\ result' = [result EXCEPT ![running] = "succeeded"]
<1> DEFINE r == [command |-> running, digest |-> PluginConfigurationDigest(m.payload)]
<1>1. /\ m.key = running /\ result' = [result EXCEPT ![running] = "succeeded"]
      /\ reported' = reported \cup {r} /\ running' = Idle
      /\ UNCHANGED <<issued, outcome, expired, recorded, settled, awaited, ids, crashes,
                     commands, results, acks>>
  BY DEF Succeed, center, wire
<1>2. m.key \in Commands /\ m.payload = Marshal(Payload(m.key))
  BY DEF IInv, WireOK, CommandEnvelopes, CommandsHold
<1>3. r.command = running /\ r.digest = PluginConfigurationDigest(Marshal(Payload(running)))
  BY <1>1, <1>2
<1>4. r \in [command : Commands, digest : Texts(Values)]
  BY <1>1, <1>2, PayloadOK, Encoded DEF PluginConfigurationDigest
<1> HIDE DEF r
<1>5. /\ reported' \subseteq [command : Commands, digest : Texts(Values)]
      /\ ReportedHold'
  BY <1>1, <1>3, <1>4 DEF IInv, TypeOK, ReportedHold
<1>6. "succeeded" \in Verdicts
  BY DEF Verdicts
<1>7. QED
  BY <1>1, <1>2, <1>5, <1>6, DecideStep

LEMMA FailStep ==
  ASSUME IInv, Fail
  PROVE  IInv' /\ running \in Commands /\ result' = [result EXCEPT ![running] = "failed"]
<1>1. /\ running # Idle /\ result' = [result EXCEPT ![running] = "failed"] /\ running' = Idle
      /\ UNCHANGED <<issued, outcome, expired, recorded, reported, settled, awaited, ids,
                     crashes, commands, results, acks>>
  BY DEF Fail, center, wire
<1>2. running \in Commands
  BY <1>1 DEF IInv, TypeOK
<1>3. reported' \subseteq [command : Commands, digest : Texts(Values)] /\ ReportedHold'
  BY <1>1 DEF IInv, TypeOK, ReportedHold
<1>4. "failed" \in Verdicts
  BY DEF Verdicts
<1>5. QED
  BY <1>1, <1>2, <1>3, <1>4, DecideStep

\* A result goes out in an envelope of its own.
LEMMA SendResultStep ==
  ASSUME IInv, NEW r \in recorded, SendResult(r)
  PROVE  IInv'
<1> DEFINE envelope == [id |-> NewID, command |-> r.command]
           m == [id |-> NewID, key |-> r.command, digest |-> r.digest,
                 status |-> result[r.command]]
<1>1. /\ result[r.command] # Undecided /\ ids' = ids + 1
      /\ awaited' = awaited \cup {envelope} /\ results' = results \cup {m}
      /\ UNCHANGED <<issued, outcome, expired, recorded, result, reported, settled,
                     running, crashes, commands, acks>>
  BY DEF SendResult, center, disk
<1>2. r.command \in Commands /\ r.digest \in Texts(Values) /\ ids \in Nat
  BY DEF IInv, TypeOK
<1>3. result[r.command] \in Verdicts
  BY <1>1, <1>2 DEF IInv, TypeOK
<1>4. /\ envelope \in [id : 1 .. ids', command : Commands]
      /\ envelope.id = ids + 1 /\ envelope.command = r.command
  BY <1>1, <1>2 DEF NewID
<1>5. /\ m \in ResultEnvelopes /\ m.id = ids + 1 /\ m.key = r.command
      /\ m.status = result[m.key]
  BY <1>1, <1>2, <1>3 DEF ResultEnvelopes, NewID
<1> HIDE DEF envelope, m
<1>6. \A sent \in awaited : sent.id \in 1 .. ids /\ sent.command \in Commands
  BY DEF IInv, TypeOK
<1>7. TypeOK'
  <2>1. awaited' \subseteq [id : 1 .. ids', command : Commands]
    <3>1. ASSUME NEW sent \in awaited PROVE sent \in [id : 1 .. ids', command : Commands]
      <4>1. sent \in [id : 1 .. ids, command : Commands]
        BY DEF IInv, TypeOK
      <4>2. 1 .. ids \subseteq 1 .. ids'
        BY <1>1, <1>2
      <4>3. QED
        BY <4>1, <4>2
    <3>2. QED
      BY <1>1, <1>4, <3>1
  <2>2. QED
    BY <1>1, <1>2, <2>1 DEF IInv, TypeOK
<1>8. WireOK'
  BY <1>1, <1>5 DEF IInv, WireOK
<1>9. ResultsHold'
  <2>1. ASSUME NEW n \in results
        PROVE  /\ n.status = result[n.key] /\ n.id <= ids + 1
               /\ \A sent \in awaited' : sent.id = n.id => sent.command = n.key
    <3>1. /\ n.status = result[n.key] /\ n.id \in Nat /\ n.id <= ids
          /\ \A sent \in awaited : sent.id = n.id => sent.command = n.key
      BY DEF IInv, WireOK, ResultEnvelopes, ResultsHold
    <3>2. n.id # ids + 1
      BY <1>2, <3>1
    <3>3. QED
      BY <1>1, <1>2, <1>4, <3>1, <3>2
  <2>2. \A sent \in awaited' : sent.id = m.id => sent.command = m.key
    <3>1. \A sent \in awaited : sent.id # ids + 1
      BY <1>2, <1>6
    <3>2. QED
      BY <1>1, <1>4, <1>5, <3>1
  <2>3. QED
    BY <1>1, <1>2, <1>5, <2>1, <2>2 DEF ResultsHold
<1>10. AcksHold'
  BY <1>1 DEF IInv, AcksHold
<1>11. CommandsHold' /\ RecordedInOrder' /\ ReportedHold' /\ OutcomesHold'
  BY <1>1 DEF IInv, CommandsHold, RecordedInOrder, ReportedHold, OutcomesHold
<1>12. RunningIsOpen' /\ RunsInOrder' /\ DigestsAgree'
  BY <1>1 DEF IInv, RunningIsOpen, RunsInOrder, DigestsAgree
<1>13. QED
  BY <1>7, <1>8, <1>9, <1>10, <1>11, <1>12 DEF IInv

\* An acknowledgement that is taken is for the result of its command: the
\* center has that.
LEMMA TakeAckStep ==
  ASSUME IInv, NEW sent \in awaited, NEW ack \in acks, TakeAck(sent, ack)
  PROVE  IInv' /\ sent.command \in Commands /\ outcome[sent.command] # Undecided
<1>1. /\ ack.correlation = sent.id /\ settled' = settled \cup {sent.command}
      /\ UNCHANGED <<issued, outcome, expired, recorded, result, reported, running,
                     awaited, ids, crashes, commands, results, acks>>
  BY DEF TakeAck, center, wire
<1>2. PICK m \in results : m.id = ack.correlation /\ outcome[m.key] # Undecided
  BY DEF IInv, AcksHold
<1>3. sent.command = m.key
  BY <1>1, <1>2 DEF IInv, ResultsHold
<1>4. sent.command \in Commands
  BY DEF IInv, TypeOK
<1>5. TypeOK' /\ WireOK'
  BY <1>1, <1>4 DEF IInv, TypeOK, WireOK
<1>6. OutcomesHold'
  BY <1>1, <1>2, <1>3 DEF IInv, OutcomesHold
<1>7. CommandsHold' /\ RecordedInOrder' /\ ReportedHold' /\ ResultsHold' /\ AcksHold'
  BY <1>1 DEF IInv, CommandsHold, RecordedInOrder, ReportedHold, ResultsHold, AcksHold
<1>8. RunningIsOpen' /\ RunsInOrder' /\ DigestsAgree'
  BY <1>1 DEF IInv, RunningIsOpen, RunsInOrder, DigestsAgree
<1>9. QED
  BY <1>2, <1>3, <1>4, <1>5, <1>6, <1>7, <1>8 DEF IInv

\* A crash loses the envelopes the process awaits an answer to, not their IDs.
LEMMA CrashStep == IInv /\ Crash => IInv'
<1> SUFFICES ASSUME IInv, Crash PROVE IInv'
  OBVIOUS
<1>1. /\ crashes' \in 0 .. MaxCrashes /\ running' = Idle /\ awaited' = {}
      /\ UNCHANGED <<issued, outcome, expired, recorded, result, reported, settled, ids,
                     commands, results, acks>>
  BY CommandsAssumption DEF Crash, center, disk, wire, IInv, TypeOK
<1>2. TypeOK' /\ WireOK'
  BY <1>1 DEF IInv, TypeOK, WireOK
<1>3. CommandsHold' /\ RecordedInOrder' /\ ReportedHold' /\ ResultsHold' /\ AcksHold'
  BY <1>1 DEF IInv, CommandsHold, RecordedInOrder, ReportedHold, ResultsHold, AcksHold
<1>4. OutcomesHold' /\ RunningIsOpen' /\ RunsInOrder' /\ DigestsAgree'
  BY <1>1 DEF IInv, OutcomesHold, RunningIsOpen, RunsInOrder, DigestsAgree
<1>5. QED
  BY <1>2, <1>3, <1>4 DEF IInv

LEMMA NextIInv == IInv /\ [Next]_vars => IInv'
<1> SUFFICES ASSUME IInv, [Next]_vars PROVE IInv'
  OBVIOUS
<1>1. CASE Issue \/ \E c \in Commands : Expire(c) \/ Dispatch(c) \/ Start(c)
  BY <1>1, CenterStep, DispatchStep, StartStep
<1>2. CASE \E m \in commands : Record(m) \/ Succeed(m)
  BY <1>2, RecordStep, SucceedStep
<1>3. CASE Fail \/ Crash
  BY <1>3, FailStep, CrashStep
<1>4. CASE \E r \in recorded : SendResult(r)
  BY <1>4, SendResultStep
<1>5. CASE \E m \in results : StoreResult(m)
  BY <1>5, StoreResultStep
<1>6. CASE \E sent \in awaited, ack \in acks : TakeAck(sent, ack)
  BY <1>6, TakeAckStep
<1>7. CASE UNCHANGED vars
  <2>1. UNCHANGED <<issued, outcome, expired, recorded, result, reported, settled, running,
                    awaited, ids, crashes, commands, results, acks>>
    BY <1>7 DEF vars, center, agent, disk, wire
  <2>2. TypeOK' /\ WireOK' /\ CommandsHold' /\ RecordedInOrder' /\ ReportedHold'
    BY <2>1 DEF IInv, TypeOK, WireOK, CommandsHold, RecordedInOrder, ReportedHold
  <2>3. ResultsHold' /\ AcksHold' /\ OutcomesHold' /\ RunningIsOpen'
    BY <2>1 DEF IInv, ResultsHold, AcksHold, OutcomesHold, RunningIsOpen
  <2>4. DigestsAgree' /\ RunsInOrder'
    BY <2>1 DEF IInv, DigestsAgree, RunsInOrder
  <2>5. QED
    BY <2>2, <2>3, <2>4 DEF IInv
<1>8. QED
  BY <1>1, <1>2, <1>3, <1>4, <1>5, <1>6, <1>7 DEF Next

LEMMA Invariance == Spec => []IInv
BY InitIInv, NextIInv, PTL DEF Spec

-----------------------------------------------------------------------------
THEOREM TypeCorrect == Spec => []TypeOK
<1>1. IInv => TypeOK
  BY DEF IInv
<1>2. QED
  BY <1>1, Invariance, PTL

\* The digest the Agent records is the one the center has for the command
\* (commandSHA256), through every encoding on the way.
THEOREM DigestsAlwaysAgree == Spec => []DigestsAgree
<1>1. IInv => DigestsAgree
  BY DEF IInv
<1>2. QED
  BY <1>1, Invariance, PTL

\* No handler runs while a command before it may still run.
THEOREM HandlersRunInOrder == Spec => []RunsInOrder
<1>1. IInv => RunsInOrder
  BY DEF IInv
<1>2. QED
  BY <1>1, Invariance, PTL

\* The digest of a configuration survives the encodings of its command, but
\* for the escapes of <, >, &, U+2028 and U+2029 (PluginConfigurationDigest,
\* json.Marshal).
THEOREM OnlyEscapesMatter == Spec => []OnlyEscapesChangeDigest
<1>1. ASSUME IInv PROVE OnlyEscapesChangeDigest
  <2> SUFFICES ASSUME NEW r \in reported
               PROVE  /\ r.digest = PluginConfigurationDigest(
                            [Content[r.command] EXCEPT !.special = r.digest.special])
                      /\ r.digest.special # Content[r.command].special =>
                            Content[r.command].special = "plain"
    BY DEF OnlyEscapesChangeDigest
  <2> DEFINE written == Content[r.command]
             told == [written EXCEPT !.special = r.digest.special]
  <2>1. r.command \in Commands /\ written \in Texts(Values)
    BY <1>1, PayloadOK DEF IInv, TypeOK
  <2>2. r.digest = Compact(Marshal(written))
    BY <1>1, <2>1, PayloadOK DEF IInv, ReportedHold, PluginConfigurationDigest
  <2> HIDE DEF written
  <2>3. /\ r.digest \in Texts(Values) /\ r.digest.value = written.value
        /\ r.digest.spaced = FALSE
        /\ r.digest.special = IF written.special = "plain" THEN "escaped" ELSE written.special
    <3>1. /\ Marshal(written) \in Texts(Values) /\ Marshal(written).value = written.value
          /\ Marshal(written).special =
               IF written.special = "plain" THEN "escaped" ELSE written.special
      BY <2>1, Encoded
    <3> DEFINE sent == Marshal(written)
    <3>2. r.digest = Compact(sent)
      BY <2>2
    <3> HIDE DEF sent
    <3>3. /\ Compact(sent) \in Texts(Values) /\ Compact(sent).value = sent.value
          /\ Compact(sent).spaced = FALSE /\ Compact(sent).special = sent.special
      BY <3>1, Encoded DEF sent
    <3>4. QED
      BY <3>1, <3>2, <3>3 DEF sent
  <2>4. /\ told \in Texts(Values) /\ told.value = written.value
        /\ told.special = r.digest.special
    BY <2>1, <2>3 DEF Texts
  <2> HIDE DEF told
  <2>5. r.digest = Compact(told)
    <3>1. /\ Compact(told) \in Texts(Values) /\ Compact(told).value = r.digest.value
          /\ Compact(told).spaced = r.digest.spaced /\ Compact(told).special = r.digest.special
      BY <2>3, <2>4, Encoded
    <3>2. QED
      BY <2>3, <3>1, TextsAreEqual
  <2>6. QED
    BY <2>3, <2>5 DEF PluginConfigurationDigest, written, told
<1>2. QED
  BY <1>1, Invariance, PTL

-----------------------------------------------------------------------------
\* Each step decides, learns or closes one command, or is none of the
\* contract's.
LEMMA ContractStep ==
  IInv /\ [Next]_vars => [Contract!Next]_<<result, outcome, settled>>
<1> SUFFICES ASSUME IInv, [Next]_vars
             PROVE  Contract!Next \/ UNCHANGED <<result, outcome, settled>>
  OBVIOUS
<1>1. ASSUME running \in Commands, NEW v \in Verdicts, UNCHANGED <<outcome, settled>>,
             result' = [result EXCEPT ![running] = v]
      PROVE  Contract!Next
  <2>1. result[running] = Undecided
    BY <1>1, CommandsAssumption DEF IInv, RunningIsOpen, Commands, Idle
  <2>2. Contract!Decide(running)
    BY <1>1, <2>1 DEF Contract!Decide
  <2>3. QED
    BY <1>1, <2>2 DEF Contract!Next
<1>2. ASSUME NEW m \in commands, Succeed(m) PROVE Contract!Next
  <2>1. UNCHANGED <<outcome, settled>>
    BY <1>2 DEF Succeed, center
  <2>2. "succeeded" \in Verdicts
    BY DEF Verdicts
  <2>3. QED
    BY <1>1, <1>2, <2>1, <2>2, SucceedStep
<1>3. CASE Fail
  <2>1. UNCHANGED <<outcome, settled>>
    BY <1>3 DEF Fail, center
  <2>2. "failed" \in Verdicts
    BY DEF Verdicts
  <2>3. QED
    BY <1>1, <1>3, <2>1, <2>2, FailStep
<1>4. ASSUME NEW m \in results, StoreResult(m)
      PROVE  Contract!Next \/ UNCHANGED <<result, outcome, settled>>
  <2>1. /\ outcome[m.key] \in {Undecided, m.status}
        /\ outcome' = [outcome EXCEPT ![m.key] = m.status]
        /\ UNCHANGED <<result, settled>>
    BY <1>4 DEF StoreResult, agent, disk
  <2>2. /\ m.key \in Commands /\ m.status = result[m.key] /\ m.status # Undecided
    BY DEF IInv, WireOK, ResultEnvelopes, ResultsHold, Verdicts, Undecided
  <2>3. CASE outcome[m.key] = Undecided
    BY <2>1, <2>2, <2>3 DEF Contract!Learn, Contract!Next
  <2>4. CASE outcome[m.key] = m.status
    BY <2>1, <2>2, <2>4 DEF IInv, TypeOK
  <2>5. QED
    BY <2>1, <2>3, <2>4
<1>5. ASSUME NEW sent \in awaited, NEW ack \in acks, TakeAck(sent, ack) PROVE Contract!Next
  <2>1. /\ settled' = settled \cup {sent.command} /\ UNCHANGED <<outcome, result>>
    BY <1>5 DEF TakeAck, center
  <2>2. sent.command \in Commands /\ outcome[sent.command] # Undecided
    BY <1>5, TakeAckStep
  <2>3. QED
    BY <2>1, <2>2 DEF Contract!Close, Contract!Next
<1>6. CASE Issue \/ \E c \in Commands : Expire(c) \/ Dispatch(c) \/ Start(c)
  BY <1>6 DEF Issue, Expire, Dispatch, Start, center, agent, disk
<1>7. CASE \E m \in commands : Record(m)
  BY <1>7 DEF Record, center
<1>8. CASE (\E r \in recorded : SendResult(r)) \/ Crash
  BY <1>8 DEF SendResult, Crash, center, disk
<1>9. CASE UNCHANGED vars
  BY <1>9 DEF vars, center, agent, disk
<1>10. QED
  BY <1>2, <1>3, <1>4, <1>5, <1>6, <1>7, <1>8, <1>9 DEF Next

\* Command, result and acknowledgement are one decision, learned once, however
\* the envelopes are lost, repeated or late and the Agent crashes.
THEOREM ContractIsKept == Spec => ImplementsContract
<1>1. Init => Contract!Init
  BY DEF Init, Contract!Init
<1>2. QED
  BY <1>1, ContractStep, Invariance, PTL DEF Spec, ImplementsContract, Contract!Spec

=============================================================================
