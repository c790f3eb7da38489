---------------------------- MODULE CenterPlugin ----------------------------
(***************************************************************************)
(* The center contract plugin: type centerPlugin in pluginfixture/plugin.go *)
(* behind its gRPC server, which runs every handler in a goroutine of its  *)
(* own.                                                                    *)
(*                                                                         *)
(* plugin.mu guards active and host, and each handler holds it for one     *)
(* short region that does not block, so a region is one step here.         *)
(* What happens between the regions of two handlers is the point: Activate *)
(* waits for the Host's ListNodes before it installs its connection and    *)
(* closes the one it replaces, and InvokeUI uses outside the lock the      *)
(* connection it read under it.                                            *)
(*                                                                         *)
(* The center, which makes the calls and serves the Host socket, is        *)
(* outside the repository: it may make any calls at any time, answer       *)
(* a Host call with success or an error, or abandon one (its context       *)
(* ends).                                                                  *)
(***************************************************************************)
EXTENDS Naturals

CONSTANTS Activations,  \* calls of Activate; each opens at most one connection
          Invocations,  \* calls of InvokeUI
          NoConn,       \* the nil *grpc.ClientConn
          MayListNodes, \* activations that grant core.nodes.read
          MethodOf      \* the UI method of each invocation

\* "unsupported" stands for any other method name.
UIMethods == {"nodes.summary", "services.replace", "events.publish",
              "status.read", "unsupported"}

HostMethods == {"nodes.summary", "services.replace", "events.publish"}

ASSUME ConnAssumption   == NoConn \notin Activations
ASSUME GrantAssumption  == MayListNodes \subseteq Activations
ASSUME MethodAssumption == MethodOf \in [Invocations -> UIMethods]

VARIABLES
  active,    \* plugin.active
  host,      \* plugin.host, named by the activation that opened it
  conn,      \* the state of the connection of each activation
  activate,  \* how far each Activate has come, and its result
  invoke,    \* how far each InvokeUI has come, and its result
  held       \* the connection each InvokeUI read under the lock

vars == <<active, host, conn, activate, invoke, held>>

ActivateStates == {"idle", "listing", "installing", "activated", "failed"}
InvokeStates   == {"idle", "picked", "answered", "invalid", "unavailable",
                   "host_error", "canceled"}

TypeOK ==
  /\ active \in BOOLEAN
  /\ host \in Activations \cup {NoConn}
  /\ conn \in [Activations -> {"none", "open", "closed"}]
  /\ activate \in [Activations -> ActivateStates]
  /\ invoke \in [Invocations -> InvokeStates]
  /\ held \in [Invocations -> Activations \cup {NoConn}]

Init ==
  /\ active = FALSE
  /\ host = NoConn
  /\ conn = [a \in Activations |-> "none"]
  /\ activate = [a \in Activations |-> "idle"]
  /\ invoke = [i \in Invocations |-> "idle"]
  /\ held = [i \in Invocations |-> NoConn]

-----------------------------------------------------------------------------
(* Activate                                                                *)

\* A malformed permission list, or a client that cannot be made.
ActivateRefused(a) ==
  /\ activate[a] = "idle"
  /\ activate' = [activate EXCEPT ![a] = "failed"]
  /\ UNCHANGED <<active, host, conn, invoke, held>>

ActivateOpens(a) ==
  /\ activate[a] = "idle"
  /\ conn' = [conn EXCEPT ![a] = "open"]
  /\ activate' = [activate EXCEPT
                    ![a] = IF a \in MayListNodes THEN "listing"
                                                 ELSE "installing"]
  /\ UNCHANGED <<active, host, invoke, held>>

HostListsNodes(a) ==
  /\ activate[a] = "listing"
  /\ activate' = [activate EXCEPT ![a] = "installing"]
  /\ UNCHANGED <<active, host, conn, invoke, held>>

\* Fault: the connection of the failed call is not closed.
LeaveOpen(a) == UNCHANGED conn

\* Fault: the installed connection is closed in its place.
CloseInstalled(a) ==
  conn' = [c \in Activations |-> IF c = host THEN "closed" ELSE conn[c]]

CloseOwn(a) == conn' = [conn EXCEPT ![a] = "closed"]

HostFailsListing(a) ==
  /\ activate[a] = "listing"
  /\ CloseOwn(a)
  /\ activate' = [activate EXCEPT ![a] = "failed"]
  /\ UNCHANGED <<active, host, invoke, held>>

\* The locked region: the connection in place is closed and replaced.
Install(a) ==
  /\ activate[a] = "installing"
  /\ conn' = [c \in Activations |-> IF c = host THEN "closed" ELSE conn[c]]
  /\ host' = a
  /\ active' = TRUE
  /\ activate' = [activate EXCEPT ![a] = "activated"]
  /\ UNCHANGED <<invoke, held>>

-----------------------------------------------------------------------------
(* InvokeUI                                                                *)

InvokeInvalid(i) ==
  /\ invoke[i] = "idle"
  /\ invoke' = [invoke EXCEPT ![i] = "invalid"]
  /\ UNCHANGED <<active, host, conn, activate, held>>

HostUnderLock == host

\* The locked region, and the test for nil that follows it.
ReadHost(i) ==
  /\ invoke[i] = "idle"
  /\ held' = [held EXCEPT ![i] = HostUnderLock]
  /\ invoke' = [invoke EXCEPT
                  ![i] = IF host = NoConn THEN "unavailable" ELSE "picked"]
  /\ UNCHANGED <<active, host, conn, activate>>

AnswerLocally(i) ==
  /\ invoke[i] = "picked"
  /\ \/ /\ MethodOf[i] = "status.read"
        /\ invoke' = [invoke EXCEPT ![i] = "answered"]
     \/ /\ MethodOf[i] = "unsupported"
        /\ invoke' = [invoke EXCEPT ![i] = "invalid"]
  /\ UNCHANGED <<active, host, conn, activate, held>>

\* services.replace and events.publish decode their input first.
InvokeBadInput(i) ==
  /\ invoke[i] = "picked"
  /\ MethodOf[i] \in {"services.replace", "events.publish"}
  /\ invoke' = [invoke EXCEPT ![i] = "invalid"]
  /\ UNCHANGED <<active, host, conn, activate, held>>

\* The call on the held connection: a closed connection fails at once, and one
\* that is closed while the call is in flight cancels it.
HostAnswers(i) ==
  /\ invoke[i] = "picked"
  /\ MethodOf[i] \in HostMethods
  /\ conn[held[i]] = "open"
  /\ \E result \in {"answered", "host_error"} :
       invoke' = [invoke EXCEPT ![i] = result]
  /\ UNCHANGED <<active, host, conn, activate, held>>

Severed(i) == conn[held[i]] = "closed"

ConnectionLost(i) ==
  /\ invoke[i] = "picked"
  /\ MethodOf[i] \in HostMethods
  /\ Severed(i)
  /\ invoke' = [invoke EXCEPT ![i] = "canceled"]
  /\ UNCHANGED <<active, host, conn, activate, held>>

\* GetStatus reads active under the lock.
Health == IF active THEN "healthy" ELSE "starting"

-----------------------------------------------------------------------------
ActivateStep(a) ==
  \/ ActivateRefused(a) \/ ActivateOpens(a) \/ HostListsNodes(a)
  \/ HostFailsListing(a) \/ Install(a)

InvokeStep(i) ==
  \/ InvokeInvalid(i) \/ ReadHost(i) \/ AnswerLocally(i)
  \/ InvokeBadInput(i) \/ HostAnswers(i) \/ ConnectionLost(i)

Next ==
  \/ \E a \in Activations : ActivateStep(a)
  \/ \E i \in Invocations : InvokeStep(i)

Spec == Init /\ [][Next]_vars

-----------------------------------------------------------------------------
(* Properties                                                              *)

InFlight(a) == activate[a] \in {"listing", "installing"}

\* No connection leaks: an open one is the installed one or belongs to an
\* Activate that is still running, whatever overlaps and fails.
ConnectionsOwned ==
  \A a \in Activations : conn[a] = "open" <=> a = host \/ InFlight(a)

\* The plugin reports healthy exactly when some activation has succeeded, and
\* it then holds an open connection: a release is never committed on the
\* strength of a health that no Host connection stands behind.
HealthyIffActivated ==
  /\ Health = "healthy" <=> \E a \in Activations : activate[a] = "activated"
  /\ Health = "healthy" => host # NoConn /\ conn[host] = "open"

\* An invocation loses its connection only to a newer activation.
CanceledOnlyWhenReplaced ==
  \A i \in Invocations :
    invoke[i] = "canceled" =>
      /\ held[i] # NoConn
      /\ activate[held[i]] = "activated"
      /\ held[i] # host

\* A failed activation leaves the working connection of the plugin alone.
FailedStepKeepsHost ==
  \A a \in Activations :
    activate'[a] = "failed" /\ activate[a] # "failed" =>
      /\ UNCHANGED <<active, host>>
      /\ host # NoConn => conn'[host] = "open"

FailureKeepsHost == [][FailedStepKeepsHost]_vars

=============================================================================
