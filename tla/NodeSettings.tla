---------------------------- MODULE NodeSettings ----------------------------
(***************************************************************************)
(* The configuration a center plugin keeps at the host for one of its      *)
(* nodes.  Handlers of InvokeUI run concurrently: each reads the           *)
(* configuration with its generation, makes an edit, and has it configured *)
(* with the generation it expects to find; the host refuses it if it is    *)
(* another (docs/center-plugin-v1.md).  A handler that gets no answer      *)
(* reads again, though its request may still come.                         *)
(***************************************************************************)
EXTENDS Naturals, Sequences

CONSTANTS
  Edits,     \* what is edited, each by a handler of its own
  MaxTries   \* how often a handler reads

ASSUME TriesAssumption == MaxTries \in Nat \ {0}

VARIABLES
  configured,  \* of each generation, the edits that are in its configuration
  tries,       \* of each handler: how often it has read
  call         \* of each handler's requests: [state, expected, content]

settings == <<configured, tries, call>>

Calls == Edits \X (1 .. MaxTries)

NoCall == [state |-> "none", expected |-> 0, content |-> {}]

Generation == Len(configured)
Content(generation) == IF generation = 0 THEN {} ELSE configured[generation]

SettingsInit ==
  /\ configured = <<>>
  /\ tries = [edit \in Edits |-> 0]
  /\ call = [c \in Calls |-> NoCall]

Busy(edit) ==
  \E t \in 1 .. MaxTries : call[<<edit, t>>].state \in {"sent", "configured", "conflict"}
Acknowledged(edit) == \E t \in 1 .. MaxTries : call[<<edit, t>>].state = "acknowledged"

\* GetNodePluginConfiguration, which fails for a node that has none, and then
\* ConfigureNodePlugin; zero creates the first.
Edit(edit) ==
  /\ tries[edit] < MaxTries /\ ~Busy(edit) /\ ~Acknowledged(edit)
  /\ tries' = [tries EXCEPT ![edit] = @ + 1]
  /\ call' = [call EXCEPT ![<<edit, tries'[edit]>>] =
                [state |-> "sent", expected |-> Generation,
                 content |-> Content(Generation) \cup {edit}]]
  /\ UNCHANGED configured

\* Fault: the generation is only a number the answer repeats.
Whatever(expected) == expected <= Generation

Expected(expected) == expected = Generation

\* Whether the handler still waits for what the host answers.
Answer(state, answer) == IF state = "late" THEN "lost" ELSE answer

Configure(c) ==
  /\ call[c].state \in {"sent", "late"}
  /\ Expected(call[c].expected)
  /\ configured' = Append(configured, call[c].content)
  /\ call' = [call EXCEPT ![c].state = Answer(@, "configured")]
  /\ UNCHANGED tries

Conflict(c) ==
  /\ call[c].state \in {"sent", "late"}
  /\ ~Expected(call[c].expected)
  /\ call' = [call EXCEPT ![c].state = Answer(@, "conflict")]
  /\ UNCHANGED <<configured, tries>>

NodePluginConfigured(c) ==
  /\ call[c].state \in {"configured", "conflict"}
  /\ call' = [call EXCEPT ![c].state =
                IF @ = "configured" THEN "acknowledged" ELSE "refused"]
  /\ UNCHANGED <<configured, tries>>

AbandonCall(c) ==
  /\ call[c].state \in {"sent", "configured", "conflict"}
  /\ call' = [call EXCEPT ![c].state = IF @ = "sent" THEN "late" ELSE "lost"]
  /\ UNCHANGED <<configured, tries>>

SettingsNext ==
  \/ \E edit \in Edits : Edit(edit)
  \/ \E c \in Calls :
       Configure(c) \/ Conflict(c) \/ NodePluginConfigured(c) \/ AbandonCall(c)

SettingsSpec == SettingsInit /\ [][SettingsNext]_settings

-----------------------------------------------------------------------------
\* An edit the host has acknowledged stays in the configuration, whichever
\* other handler read before and configures after it, and whatever request
\* comes that its handler has given up: none is written over unread.
NoLostUpdate == \A edit \in Edits : Acknowledged(edit) => edit \in Content(Generation)

=============================================================================
