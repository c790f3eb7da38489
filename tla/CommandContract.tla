-------------------------- MODULE CommandContract --------------------------
(***************************************************************************)
(* What the durable commands of an Agent promise: each command gets one    *)
(* verdict, decided by the Agent; the center learns that verdict and no    *)
(* other; and the Agent closes a command only when the center knows.       *)
(***************************************************************************)
CONSTANTS Commands, Verdicts, Undecided

VARIABLES
  verdict,  \* what the Agent has decided
  known,    \* what the center knows of it
  closed    \* the commands the Agent will not report again

Init ==
  /\ verdict = [c \in Commands |-> Undecided]
  /\ known = [c \in Commands |-> Undecided]
  /\ closed = {}

Decide(c) ==
  /\ verdict[c] = Undecided
  /\ \E v \in Verdicts : verdict' = [verdict EXCEPT ![c] = v]
  /\ UNCHANGED <<known, closed>>

Learn(c) ==
  /\ known[c] = Undecided /\ verdict[c] # Undecided
  /\ known' = [known EXCEPT ![c] = verdict[c]]
  /\ UNCHANGED <<verdict, closed>>

Close(c) ==
  /\ known[c] # Undecided
  /\ closed' = closed \cup {c}
  /\ UNCHANGED <<verdict, known>>

Next == \E c \in Commands : Decide(c) \/ Learn(c) \/ Close(c)

Spec == Init /\ [][Next]_<<verdict, known, closed>>

=============================================================================
