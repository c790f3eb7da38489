---------------------------- MODULE CallContract ----------------------------
(***************************************************************************)
(* What createRelaywardUIClient promises to the plugin that uses it,       *)
(* without ids, timers, the pending map or the call stack: every call      *)
(* gets one result and keeps it, only a client that still listens can      *)
(* hand out an answer of the host, and a disposed client accepts no call.  *)
(*                                                                         *)
(* UIBridge implements this specification (UIBridge!Contract).             *)
(***************************************************************************)
CONSTANTS Calls,      \* the invocations of context, rpc, navigate, confirm
          Refusals,   \* results of a call that never reached the transport
          Answers,    \* results that come from a response of the host
          Failures    \* results the client makes up itself

VARIABLES result,     \* result[c]: "unissued", "open" or the final result
          accepting,  \* FALSE once the client is disposed
          listening   \* TRUE while responses reach the client

vars == <<result, accepting, listening>>

Results == Refusals \cup Answers \cup Failures

Init ==
  /\ result = [c \in Calls |-> "unissued"]
  /\ accepting = TRUE
  /\ listening = TRUE

Issue(c) ==
  /\ result[c] = "unissued"
  /\ accepting
  /\ result' = [result EXCEPT ![c] = "open"]
  /\ UNCHANGED <<accepting, listening>>

Refuse(c) ==
  /\ result[c] = "unissued"
  /\ \E r \in Refusals : result' = [result EXCEPT ![c] = r]
  /\ UNCHANGED <<accepting, listening>>

Answer(c) ==
  /\ result[c] = "open"
  /\ listening
  /\ \E a \in Answers : result' = [result EXCEPT ![c] = a]
  /\ UNCHANGED <<accepting, listening>>

Fail(c) ==
  /\ result[c] = "open"
  /\ \E f \in Failures : result' = [result EXCEPT ![c] = f]
  /\ UNCHANGED <<accepting, listening>>

\* Disposing settles some of the open calls at once.  A client whose
\* unsubscribe failed stops accepting and may go on listening.
Close ==
  /\ accepting
  /\ accepting' = FALSE
  /\ listening' \in BOOLEAN
  /\ result' \in [Calls -> Results \cup {"unissued", "open"}]
  /\ \A c \in Calls : \/ result'[c] = result[c]
                      \/ result[c] = "open" /\ result'[c] \in Failures

Next ==
  \/ \E c \in Calls : Issue(c) \/ Refuse(c) \/ Answer(c) \/ Fail(c)
  \/ Close

Spec == Init /\ [][Next]_vars

=============================================================================
