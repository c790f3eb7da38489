----------------------------- MODULE NodePlugin -----------------------------
(***************************************************************************)
(* The node contract plugin (type nodePlugin in pluginfixture/plugin.go)   *)
(* together with the Agent that drives it.                                 *)
(*                                                                         *)
(* plugin.mu guards the configuration state; ApplyConfiguration and        *)
(* GetStatus each hold it for one region that does not block, so each is   *)
(* one step.  Their gRPC handlers run in goroutines: a call whose deadline *)
(* passed at the Agent may still reach its region later.                   *)
(*                                                                         *)
(* The Agent is outside the repository.  What is modelled of it is the     *)
(* order docs and validators of the SDK ask for: it sends configurations   *)
(* in order of generation, each to ValidateConfiguration and then to       *)
(* ApplyConfiguration, polls GetStatus at any time, restarts a plugin that *)
(* crashed and sends it the last configuration again.                      *)
(***************************************************************************)
EXTENDS Integers, Sequences

CONSTANTS MaxGeneration,  \* the configurations are those of 1..MaxGeneration
          ConfigOf,       \* the configuration of each generation
          MaxRestarts,    \* bound on crashes
          MaxPolls        \* bound on GetStatus calls between two changes

Generations == 1 .. MaxGeneration

\* The empty string, which is the digest of no configuration.
NoDigest == "absent"

\* sound: an object within the size limit whose SHA-256 is the one sent;
\* reject, degrade: the text holds "reject":true or "degrade":true, written
\* without a space, which is what bytes.Contains looks for.
Configurations == [digest : STRING, sound : BOOLEAN, reject : BOOLEAN,
                   degrade : BOOLEAN]

ASSUME GenerationAssumption == MaxGeneration \in Nat \ {0}
ASSUME ConfigAssumption ==
  /\ ConfigOf \in [Generations -> Configurations]
  /\ \A g \in Generations : ConfigOf[g].digest # NoDigest
ASSUME BoundAssumption ==
  MaxRestarts \in Nat /\ MaxPolls \in Nat

VARIABLES
  generation, digest, degrade, statusCalls,  \* the plugin's fields
  stage,      \* how far the Agent has come with each generation
  abandoned,  \* generations whose call the Agent gave up on
  restarts,   \* crashes so far
  patient,    \* TRUE if the Agent never gives up on a call in flight
  status,     \* the last status the plugin answered
  reports     \* history: the healths reported since the last application

plugin == <<generation, digest, degrade, statusCalls>>
vars   == <<plugin, stage, abandoned, restarts, patient, status, reports>>

Healths == {"starting", "healthy", "unhealthy"}
Stages  == {"unsent", "refused", "validated", "applying", "applied",
            "acknowledged", "failed"}
Digests == {ConfigOf[g].digest : g \in Generations} \cup {NoDigest}

TypeOK ==
  /\ generation \in 0 .. MaxGeneration
  /\ digest \in Digests
  /\ degrade \in BOOLEAN
  /\ statusCalls \in 0 .. MaxPolls
  /\ stage \in [Generations -> Stages]
  /\ abandoned \subseteq Generations
  /\ restarts \in 0 .. MaxRestarts
  /\ patient \in BOOLEAN
  /\ status \in [generation : 0 .. MaxGeneration, digest : Digests,
                 health : Healths]
  /\ reports \in Seq(Healths)

Init ==
  /\ generation = 0 /\ digest = NoDigest /\ degrade = FALSE /\ statusCalls = 0
  /\ stage = [g \in Generations |-> "unsent"]
  /\ abandoned = {}
  /\ restarts = 0
  /\ patient \in BOOLEAN
  /\ status = [generation |-> 0, digest |-> NoDigest, health |-> "starting"]
  /\ reports = <<>>

-----------------------------------------------------------------------------
(* The validators of nodeplugin/v1.                                        *)

ValidateConfigurationRequest(g) == g >= 1 /\ ConfigOf[g].sound

ValidateStatusResponse(value) ==
  /\ value.generation = 0 <=> value.digest = NoDigest
  /\ value.health = "healthy" => value.generation # 0

-----------------------------------------------------------------------------
(* The plugin's handlers.                                                  *)

Accepts(g) == ValidateConfigurationRequest(g) /\ ~ConfigOf[g].reject

\* Fault: polls of the configuration before are still counted.
ConfigureCountsOn(g) ==
  /\ generation' = g
  /\ digest' = ConfigOf[g].digest
  /\ degrade' = ConfigOf[g].degrade
  /\ UNCHANGED statusCalls

\* Fault: degrade stays set.
ConfigureSticky(g) ==
  /\ generation' = g
  /\ digest' = ConfigOf[g].digest
  /\ degrade' = (degrade \/ ConfigOf[g].degrade)
  /\ statusCalls' = 0

\* Fault: an unchanged digest is taken for an unchanged configuration.
ConfigureIfChanged(g) ==
  IF digest = ConfigOf[g].digest
  THEN UNCHANGED plugin
  ELSE /\ generation' = g
       /\ digest' = ConfigOf[g].digest
       /\ degrade' = ConfigOf[g].degrade
       /\ statusCalls' = 0

\* ApplyConfiguration does not look for "reject":true, nor does it compare the
\* generation with the one in place.
Configure(g) ==
  /\ generation' = g
  /\ digest' = ConfigOf[g].digest
  /\ degrade' = ConfigOf[g].degrade
  /\ statusCalls' = 0

HealthNow ==
  IF generation = 0 THEN "starting"
  ELSE IF degrade /\ statusCalls > 0 THEN "unhealthy" ELSE "healthy"

GetStatus ==
  /\ Len(reports) < MaxPolls
  /\ status' = [generation |-> generation, digest |-> digest,
                health |-> HealthNow]
  /\ statusCalls' = IF generation # 0 THEN statusCalls + 1 ELSE statusCalls
  /\ reports' = Append(reports, HealthNow)
  /\ UNCHANGED <<generation, digest, degrade, stage, abandoned, restarts,
                 patient>>

-----------------------------------------------------------------------------
(* The Agent's calls.                                                      *)

Over(g) == stage[g] \in {"refused", "acknowledged", "failed"} \/ g \in abandoned

\* ValidateConfiguration changes no state of the plugin.
Validate(g) ==
  /\ stage[g] = "unsent"
  /\ \A h \in 1 .. g - 1 : Over(h)
  /\ stage' = [stage EXCEPT ![g] = IF Accepts(g) THEN "validated"
                                                 ELSE "refused"]
  /\ UNCHANGED <<plugin, abandoned, restarts, patient, status, reports>>

SendApply(g) ==
  /\ stage[g] = "validated"
  /\ stage' = [stage EXCEPT ![g] = "applying"]
  /\ UNCHANGED <<plugin, abandoned, restarts, patient, status, reports>>

ApplyConfiguration(g) ==
  /\ stage[g] = "applying"
  /\ ValidateConfigurationRequest(g)
  /\ Configure(g)
  /\ stage' = [stage EXCEPT ![g] = "applied"]
  /\ reports' = <<>>
  /\ UNCHANGED <<abandoned, restarts, patient, status>>

Acknowledge(g) ==
  /\ stage[g] = "applied"
  /\ g \notin abandoned
  /\ stage' = [stage EXCEPT ![g] = "acknowledged"]
  /\ UNCHANGED <<plugin, abandoned, restarts, patient, status, reports>>

\* The deadline of the call passes at the Agent.
Abandon(g) ==
  /\ ~patient
  /\ stage[g] \in {"applying", "applied"}
  /\ g \notin abandoned
  /\ abandoned' = abandoned \cup {g}
  /\ UNCHANGED <<plugin, stage, restarts, patient, status, reports>>

ForgetConfiguration ==
  generation' = 0 /\ digest' = NoDigest /\ degrade' = FALSE /\ statusCalls' = 0

\* The process dies and is started again with nothing applied; its handlers
\* are gone.
Crash ==
  /\ restarts < MaxRestarts
  /\ restarts' = restarts + 1
  /\ ForgetConfiguration
  /\ stage' = [g \in Generations |->
                 IF stage[g] \in {"applying", "applied"} THEN "failed"
                                                         ELSE stage[g]]
  /\ reports' = <<>>
  /\ UNCHANGED <<abandoned, patient, status>>

Replayable(g) == stage[g] \in {"acknowledged", "failed"}

\* After a crash the Agent sends the last configuration it had sent again.
Resend(g) ==
  /\ generation = 0
  /\ Replayable(g)
  /\ \A h \in g + 1 .. MaxGeneration : stage[h] \in {"unsent", "refused"}
  /\ stage' = [stage EXCEPT ![g] = "applying"]
  /\ abandoned' = abandoned \ {g}
  /\ UNCHANGED <<plugin, restarts, patient, status, reports>>

Next ==
  \/ \E g \in Generations :
       \/ Validate(g) \/ SendApply(g) \/ ApplyConfiguration(g)
       \/ Acknowledge(g) \/ Abandon(g) \/ Resend(g)
  \/ GetStatus
  \/ Crash

Spec == Init /\ [][Next]_vars

\* Handlers that were reached finish, and the Agent goes through its
\* configurations and sends the last one again to a restarted plugin.
FairSpec ==
  /\ Spec
  /\ \A g \in Generations :
       WF_vars(\/ Validate(g) \/ SendApply(g) \/ ApplyConfiguration(g)
               \/ Acknowledge(g) \/ Resend(g))

-----------------------------------------------------------------------------
(* Properties                                                              *)

\* The SDK's own validator accepts every status the plugin answers, across
\* applications, failures and restarts.
StatusAlwaysValid == ValidateStatusResponse(status)

\* The plugin runs one configuration as a whole: generation, digest and
\* behaviour are those of one accepted request, never of two.
ConfigurationAtomic ==
  \/ generation = 0 /\ digest = NoDigest /\ ~degrade /\ statusCalls = 0
  \/ \E g \in Generations :
       /\ Accepts(g)
       /\ generation = g
       /\ digest = ConfigOf[g].digest
       /\ degrade = ConfigOf[g].degrade

\* Each application starts healthy and, if its configuration degrades, is
\* unhealthy from the second poll on: polls before it leave no trace, and
\* concurrent pollers cannot both see it healthy.
HealthyOncePerApplication ==
  generation # 0 =>
    \A k \in DOMAIN reports :
      reports[k] = IF k > 1 /\ ConfigOf[generation].degrade
                   THEN "unhealthy" ELSE "healthy"

\* While the Agent waits for its calls, the configuration acknowledged last is
\* the active one, unless the process has been restarted since.
AcknowledgedIsActive ==
  patient =>
    \A g \in Generations :
      /\ stage[g] = "acknowledged"
      /\ \A h \in g + 1 .. MaxGeneration :
           stage[h] \in {"unsent", "refused", "validated", "applying"}
      => generation \in {0, g}

\* The last configuration ends up active unless it is refused: crashes delay
\* it and never lose it.
LastAccepted(g) ==
  Accepts(g) /\ \A h \in g + 1 .. MaxGeneration : ~Accepts(h)

LastConfigurationActive ==
  \A g \in Generations :
    patient /\ LastAccepted(g) => <>[](generation = g)

=============================================================================
