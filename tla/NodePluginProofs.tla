-------------------------- MODULE NodePluginProofs --------------------------
(***************************************************************************)
(* Proofs about NodePlugin, for any number of generations, any             *)
(* configurations, any number of restarts and an Agent that may abandon    *)
(* its calls.                                                              *)
(*                                                                         *)
(* That a status is valid follows from the configuration being one of the  *)
(* accepted ones as a whole; that it is, from the Agent sending only what  *)
(* ValidateConfiguration accepted (SentAccepted).  What a poll answers     *)
(* depends on how many came before it: statusCalls counts the reports      *)
(* since the last application (CallsCounted).  That what is acknowledged   *)
(* is active follows, for an Agent that waits, from its generations being  *)
(* sent one after the other (OneAtATime) and from the active one being the *)
(* last of those that were applied (ActiveIsLast).                         *)
(***************************************************************************)
EXTENDS NodePlugin, TLAPS

SentAccepted ==
  \A g \in Generations : stage[g] \notin {"unsent", "refused"} => Accepts(g)

CallsCounted ==
  /\ generation # 0 => statusCalls = Len(reports)
  /\ Len(reports) <= MaxPolls

IInv ==
  /\ TypeOK
  /\ SentAccepted
  /\ CallsCounted
  /\ StatusAlwaysValid
  /\ ConfigurationAtomic
  /\ HealthyOncePerApplication

USE GenerationAssumption, ConfigAssumption, BoundAssumption DEF NoDigest

-----------------------------------------------------------------------------
\* The status of an accepted configuration, or of none, passes the validator.
LEMMA AnswerIsValid ==
  ASSUME IInv
  PROVE  ValidateStatusResponse([generation |-> generation, digest |-> digest,
                                 health |-> HealthNow])
BY DEF IInv, TypeOK, ConfigurationAtomic, ValidateStatusResponse, HealthNow,
       Generations

LEMMA InitIInv == Init => IInv
<1> SUFFICES ASSUME Init PROVE IInv
  OBVIOUS
<1>1. TypeOK
  <2>1. /\ 0 \in 0 .. MaxGeneration /\ 0 \in 0 .. MaxPolls
        /\ 0 \in 0 .. MaxRestarts
    OBVIOUS
  <2>2. NoDigest \in Digests /\ "starting" \in Healths
    BY DEF Digests, Healths
  <2>3. status \in [generation : 0 .. MaxGeneration, digest : Digests,
                    health : Healths]
    BY <2>1, <2>2 DEF Init
  <2>4. reports \in Seq(Healths)
    BY DEF Init
  <2>5. stage \in [Generations -> Stages] /\ abandoned \subseteq Generations
    BY DEF Init, Stages
  <2>6. QED
    BY <2>1, <2>2, <2>3, <2>4, <2>5 DEF Init, TypeOK
<1>2. SentAccepted /\ StatusAlwaysValid /\ ConfigurationAtomic
  BY DEF Init, SentAccepted, StatusAlwaysValid, ValidateStatusResponse,
         ConfigurationAtomic
<1>3. CallsCounted /\ HealthyOncePerApplication
  BY DEF Init, CallsCounted, HealthyOncePerApplication
<1>4. QED
  BY <1>1, <1>2, <1>3 DEF IInv

-----------------------------------------------------------------------------
(* The Agent's own steps do not touch the plugin.                          *)

LEMMA AgentStep ==
  ASSUME IInv, NEW g \in Generations,
         \/ Validate(g) \/ SendApply(g) \/ Acknowledge(g) \/ Abandon(g)
         \/ Resend(g)
  PROVE  IInv'
<1>1. UNCHANGED <<plugin, restarts, patient, status, reports>>
  BY DEF Validate, SendApply, Acknowledge, Abandon, Resend
<1>2. TypeOK'
  BY <1>1 DEF IInv, TypeOK, plugin, Stages, Validate, SendApply, Acknowledge,
              Abandon, Resend
<1>3. SentAccepted'
  BY DEF IInv, TypeOK, SentAccepted, Accepts, ValidateConfigurationRequest,
         Validate, SendApply, Acknowledge, Abandon, Resend, Replayable
<1>4. /\ CallsCounted' /\ StatusAlwaysValid' /\ ConfigurationAtomic'
      /\ HealthyOncePerApplication'
  BY <1>1 DEF IInv, plugin, CallsCounted, StatusAlwaysValid, Accepts,
              ValidateStatusResponse, ConfigurationAtomic,
              ValidateConfigurationRequest, HealthyOncePerApplication
<1>5. QED
  BY <1>2, <1>3, <1>4 DEF IInv

LEMMA ApplyStep ==
  ASSUME IInv, NEW g \in Generations, ApplyConfiguration(g)
  PROVE  IInv'
<1>1. Accepts(g)
  BY DEF IInv, SentAccepted, ApplyConfiguration
<1>2. /\ generation' = g /\ digest' = ConfigOf[g].digest
      /\ degrade' = ConfigOf[g].degrade /\ statusCalls' = 0
      /\ reports' = <<>>
  BY DEF ApplyConfiguration, Configure
<1>3. TypeOK'
  BY <1>2 DEF IInv, TypeOK, ApplyConfiguration, Stages, Generations, Digests,
              Configurations
<1>4. SentAccepted'
  BY <1>1 DEF IInv, TypeOK, SentAccepted, Accepts, ApplyConfiguration,
              ValidateConfigurationRequest
<1>5. StatusAlwaysValid'
  BY DEF IInv, StatusAlwaysValid, ValidateStatusResponse, ApplyConfiguration
<1>6. ConfigurationAtomic'
  BY <1>1, <1>2 DEF ConfigurationAtomic, Accepts, ValidateConfigurationRequest
<1>7. CallsCounted' /\ HealthyOncePerApplication'
  BY <1>2 DEF CallsCounted, HealthyOncePerApplication
<1>8. QED
  BY <1>3, <1>4, <1>5, <1>6, <1>7 DEF IInv

LEMMA GetStatusStep ==
  ASSUME IInv, GetStatus
  PROVE  IInv'
<1>1. /\ reports \in Seq(Healths) /\ HealthNow \in Healths
      /\ reports' = Append(reports, HealthNow)
      /\ Len(reports) < MaxPolls
      /\ UNCHANGED <<generation, digest, degrade, stage, abandoned, restarts,
                     patient>>
  BY DEF IInv, TypeOK, GetStatus, HealthNow, Healths
<1>2. statusCalls' \in 0 .. MaxPolls
  BY <1>1 DEF IInv, TypeOK, CallsCounted, GetStatus
<1>3. TypeOK'
  BY <1>1, <1>2 DEF IInv, TypeOK, GetStatus, Healths
<1>4. SentAccepted' /\ CallsCounted'
  BY <1>1 DEF IInv, TypeOK, SentAccepted, CallsCounted, GetStatus, Accepts,
              ValidateConfigurationRequest
<1>5. StatusAlwaysValid'
  BY AnswerIsValid DEF GetStatus, StatusAlwaysValid, ValidateStatusResponse
<1>6. ConfigurationAtomic'
  <2>1. CASE generation # 0
    BY <1>1, <2>1 DEF IInv, ConfigurationAtomic, Accepts,
                      ValidateConfigurationRequest
  <2>2. CASE generation = 0
    BY <1>1, <2>2 DEF IInv, ConfigurationAtomic, GetStatus, Generations
  <2>3. QED
    BY <2>1, <2>2
<1>7. HealthyOncePerApplication'
  <2> SUFFICES ASSUME generation # 0, NEW k \in DOMAIN reports'
               PROVE  reports'[k] = IF k > 1 /\ ConfigOf[generation].degrade
                                    THEN "unhealthy" ELSE "healthy"
    BY <1>1 DEF HealthyOncePerApplication
  <2>1. degrade = ConfigOf[generation].degrade /\ statusCalls = Len(reports)
    BY DEF IInv, ConfigurationAtomic, CallsCounted
  <2>2. CASE k \in DOMAIN reports
    BY <1>1, <2>2 DEF IInv, HealthyOncePerApplication
  <2>3. CASE k = Len(reports) + 1
    <3>1. reports'[k] = HealthNow
      BY <1>1, <2>3
    <3>2. k > 1 <=> statusCalls > 0
      BY <1>1, <2>1, <2>3
    <3>3. QED
      BY <2>1, <3>1, <3>2 DEF HealthNow
  <2>4. QED
    BY <1>1, <2>2, <2>3
<1>8. QED
  BY <1>3, <1>4, <1>5, <1>6, <1>7 DEF IInv

LEMMA CrashStep ==
  ASSUME IInv, Crash
  PROVE  IInv'
<1>1. /\ generation' = 0 /\ digest' = NoDigest /\ degrade' = FALSE
      /\ statusCalls' = 0 /\ reports' = <<>>
  BY DEF Crash, ForgetConfiguration
<1>2. TypeOK'
  <2>1. reports' \in Seq(Healths)
    BY <1>1
  <2>2. /\ stage' \in [Generations -> Stages] /\ abandoned' \subseteq Generations
        /\ restarts' \in 0 .. MaxRestarts /\ UNCHANGED <<patient, status>>
    BY DEF IInv, TypeOK, Crash, Stages
  <2>3. /\ generation' \in 0 .. MaxGeneration /\ statusCalls' \in 0 .. MaxPolls
        /\ digest' \in Digests
    BY <1>1 DEF Digests
  <2>4. QED
    BY <1>1, <2>1, <2>2, <2>3 DEF IInv, TypeOK
<1>3. SentAccepted'
  BY DEF IInv, TypeOK, SentAccepted, Accepts, ValidateConfigurationRequest,
         Crash
<1>4. StatusAlwaysValid' /\ ConfigurationAtomic'
  BY <1>1 DEF IInv, StatusAlwaysValid, ValidateStatusResponse, Crash,
              ConfigurationAtomic
<1>5. CallsCounted' /\ HealthyOncePerApplication'
  BY <1>1 DEF CallsCounted, HealthyOncePerApplication
<1>6. QED
  BY <1>2, <1>3, <1>4, <1>5 DEF IInv

LEMMA StutterStep == IInv /\ UNCHANGED vars => IInv'
BY DEF IInv, vars, plugin, TypeOK, SentAccepted, CallsCounted, Accepts,
       ValidateConfigurationRequest, StatusAlwaysValid, ValidateStatusResponse,
       ConfigurationAtomic, HealthyOncePerApplication

LEMMA Invariance == Spec => []IInv
<1>1. IInv /\ [Next]_vars => IInv'
  BY AgentStep, ApplyStep, GetStatusStep, CrashStep, StutterStep DEF Next
<1>2. QED
  BY <1>1, InitIInv, PTL DEF Spec

-----------------------------------------------------------------------------
\* The variables keep their types.
THEOREM TypeCorrect == Spec => []TypeOK
<1>1. IInv => TypeOK
  BY DEF IInv
<1>2. QED
  BY <1>1, Invariance, PTL

\* The SDK's validator accepts every status the plugin ever answers.
THEOREM StatusesAreValid == Spec => []StatusAlwaysValid
<1>1. IInv => StatusAlwaysValid
  BY DEF IInv
<1>2. QED
  BY <1>1, Invariance, PTL

\* The plugin always runs one accepted configuration as a whole, or none.
THEOREM ApplyIsAtomic == Spec => []ConfigurationAtomic
<1>1. IInv => ConfigurationAtomic
  BY DEF IInv
<1>2. QED
  BY <1>1, Invariance, PTL

\* Every application is reported healthy exactly once before it degrades.
THEOREM DegradesAfterOnePoll == Spec => []HealthyOncePerApplication
<1>1. IInv => HealthyOncePerApplication
  BY DEF IInv
<1>2. QED
  BY <1>1, Invariance, PTL

-----------------------------------------------------------------------------
(* The Agent that waits for its calls                                      *)

Unsent == {"unsent", "refused"}

\* A generation is sent when all before it are done with.
OneAtATime ==
  \A g \in Generations : stage[g] \notin Unsent =>
    \A h \in Generations : h < g => stage[h] \in {"refused", "acknowledged", "failed"}

\* None after the active one has been applied.
ActiveIsLast ==
  generation # 0 =>
    /\ generation \in Generations /\ stage[generation] \in {"applied", "acknowledged"}
    /\ \A h \in Generations : h > generation => stage[h] \in Unsent \cup {"validated", "applying"}

Patience == patient => abandoned = {} /\ OneAtATime /\ ActiveIsLast

LEMMA PatienceStep == TypeOK /\ Patience /\ [Next]_vars => Patience'
<1> SUFFICES ASSUME TypeOK, Patience, [Next]_vars, patient'
             PROVE  (abandoned = {} /\ OneAtATime /\ ActiveIsLast)'
  BY DEF Patience
<1> USE DEF Unsent
<1>1. patient
  BY DEF Next, vars, Validate, SendApply, ApplyConfiguration, Acknowledge, Abandon, Resend,
     GetStatus, Crash
<1>2. /\ abandoned = {} /\ OneAtATime /\ ActiveIsLast /\ stage \in [Generations -> Stages]
      /\ \A g \in Generations : g \in Int /\ g # 0
  BY <1>1 DEF Patience, TypeOK, Generations
<1>3. ASSUME NEW g \in Generations, Validate(g)
      PROVE  (abandoned = {} /\ OneAtATime /\ ActiveIsLast)'
  <2>1. /\ stage[g] = "unsent" /\ UNCHANGED <<generation, abandoned>>
        /\ \A h \in Generations : h < g => Over(h)
        /\ stage' = [stage EXCEPT ![g] = IF Accepts(g) THEN "validated" ELSE "refused"]
    BY <1>3 DEF Validate, plugin, Generations
  <2>2. \A h \in Generations :
          stage'[h] = IF h = g THEN IF Accepts(g) THEN "validated" ELSE "refused" ELSE stage[h]
    BY <1>2, <2>1
  <2>3. OneAtATime'
    BY <1>2, <2>1, <2>2 DEF OneAtATime, Over
  <2>4. ActiveIsLast'
    BY <1>2, <2>1, <2>2 DEF ActiveIsLast
  <2>5. QED
    BY <1>2, <2>1, <2>3, <2>4
<1>4. ASSUME NEW g \in Generations, SendApply(g) \/ Acknowledge(g)
      PROVE  (abandoned = {} /\ OneAtATime /\ ActiveIsLast)'
  <2>1. PICK s \in {"applying", "acknowledged"} :
          /\ s = "applying" => stage[g] = "validated"
          /\ s = "acknowledged" => stage[g] = "applied"
          /\ stage' = [stage EXCEPT ![g] = s] /\ UNCHANGED <<generation, abandoned>>
    BY <1>4 DEF SendApply, Acknowledge, plugin
  <2>2. \A h \in Generations : stage'[h] = IF h = g THEN s ELSE stage[h]
    BY <1>2, <2>1
  <2>3. OneAtATime'
    BY <1>2, <2>1, <2>2 DEF OneAtATime
  <2>4. ActiveIsLast'
    <3> SUFFICES ASSUME generation # 0 PROVE ActiveIsLast'
      BY <2>1 DEF ActiveIsLast
    <3>1. generation \in Generations /\ stage[generation] \in {"applied", "acknowledged"}
      BY <1>2 DEF ActiveIsLast
    <3>2. s = "acknowledged" => g = generation
      BY <1>2, <2>1, <3>1 DEF OneAtATime, ActiveIsLast
    <3>3. QED
      BY <1>2, <2>1, <2>2, <3>1, <3>2 DEF ActiveIsLast
  <2>5. QED
    BY <1>2, <2>1, <2>3, <2>4
<1>5. ASSUME NEW g \in Generations, ApplyConfiguration(g)
      PROVE  (abandoned = {} /\ OneAtATime /\ ActiveIsLast)'
  <2>1. /\ stage[g] = "applying" /\ stage' = [stage EXCEPT ![g] = "applied"]
        /\ generation' = g /\ abandoned' = abandoned
    BY <1>5 DEF ApplyConfiguration, Configure
  <2>2. \A h \in Generations : stage'[h] = IF h = g THEN "applied" ELSE stage[h]
    BY <1>2, <2>1
  <2>3. OneAtATime'
    BY <1>2, <2>1, <2>2 DEF OneAtATime
  <2>4. \A h \in Generations : h > g => stage[h] \in Unsent
    BY <1>2, <2>1 DEF OneAtATime
  <2>5. ActiveIsLast'
    BY <1>2, <2>1, <2>2, <2>4 DEF ActiveIsLast
  <2>6. QED
    BY <1>2, <2>1, <2>3, <2>5
<1>6. ASSUME NEW g \in Generations, Resend(g)
      PROVE  (abandoned = {} /\ OneAtATime /\ ActiveIsLast)'
  <2>1. /\ generation = 0 /\ stage[g] \in {"acknowledged", "failed"}
        /\ \A h \in Generations : h > g => stage[h] \in Unsent
        /\ stage' = [stage EXCEPT ![g] = "applying"]
        /\ generation' = generation /\ abandoned' = abandoned \ {g}
    BY <1>6 DEF Resend, Replayable, plugin, Generations
  <2>2. \A h \in Generations : stage'[h] = IF h = g THEN "applying" ELSE stage[h]
    BY <1>2, <2>1
  <2>3. OneAtATime'
    BY <1>2, <2>1, <2>2 DEF OneAtATime
  <2>4. QED
    BY <1>2, <2>1, <2>3 DEF ActiveIsLast
<1>7. CASE Crash
  <2>1. /\ generation' = 0 /\ abandoned' = abandoned
        /\ \A g \in Generations :
             stage'[g] = IF stage[g] \in {"applying", "applied"} THEN "failed" ELSE stage[g]
    BY <1>7 DEF Crash, ForgetConfiguration
  <2>2. QED
    BY <1>2, <2>1 DEF OneAtATime, ActiveIsLast
<1>8. CASE GetStatus \/ UNCHANGED vars
  BY <1>2, <1>8 DEF GetStatus, vars, plugin, OneAtATime, ActiveIsLast
<1>9. ASSUME NEW g \in Generations, Abandon(g) PROVE FALSE
  BY <1>1, <1>9 DEF Abandon
<1>10. QED
  BY <1>3, <1>4, <1>5, <1>6, <1>7, <1>8, <1>9 DEF Next

\* An Agent that waits for its calls finds the configuration acknowledged last
\* active, or nothing after a crash, for any number of generations and crashes.
THEOREM AcknowledgedStaysActive == Spec => []AcknowledgedIsActive
<1>1. Init => Patience
  BY DEF Init, Patience, OneAtATime, ActiveIsLast, Unsent
<1>2. TypeOK /\ Patience /\ [Next]_vars => Patience'
  BY PatienceStep
<1>3. TypeOK /\ Patience => AcknowledgedIsActive
  <2> SUFFICES ASSUME TypeOK, Patience, patient, NEW g \in Generations,
                      stage[g] = "acknowledged", generation # 0,
                      \A h \in g + 1 .. MaxGeneration :
                        stage[h] \in {"unsent", "refused", "validated", "applying"}
               PROVE  generation = g
    BY DEF AcknowledgedIsActive
  <2>1. /\ generation \in Generations /\ stage[generation] \in {"applied", "acknowledged"}
        /\ generation < g =>
             stage[g] \in {"unsent", "refused", "validated", "applying"}
    BY DEF Patience, ActiveIsLast, Unsent
  <2>2. ~(generation < g)
    BY <2>1
  <2>3. ~(generation > g)
    <3>1. generation > g => generation \in g + 1 .. MaxGeneration
      BY <2>1 DEF Generations
    <3>2. QED
      BY <2>1, <3>1
  <2>4. QED
    BY <2>1, <2>2, <2>3 DEF Generations
<1>4. QED
  BY <1>1, <1>2, <1>3, TypeCorrect, PTL DEF Spec

=============================================================================
