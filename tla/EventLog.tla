------------------------------ MODULE EventLog ------------------------------
(***************************************************************************)
(* What the event path promises end to end: the access events of a node    *)
(* plugin, numbered in the order they happen, are held by the Agent and    *)
(* stored by the center in that order, none left out, and the position of  *)
(* a feature plugin moves through them; no stage ever gets ahead of the    *)
(* one before it or falls back.  How many a step moves on by is left open. *)
(***************************************************************************)
EXTENDS Naturals

VARIABLES
  emitted,  \* events the node plugin has recorded
  held,     \* the first so many are the Agent's to deliver
  stored,   \* the first so many are in the center's database
  seen      \* the feature plugin is past the first so many

Init == emitted = 0 /\ held = 0 /\ stored = 0 /\ seen = 0

Emit == emitted' = emitted + 1 /\ UNCHANGED <<held, stored, seen>>

Hold == held' \in held + 1 .. emitted /\ UNCHANGED <<emitted, stored, seen>>

Store == stored' \in stored + 1 .. held /\ UNCHANGED <<emitted, held, seen>>

See == seen' \in seen + 1 .. stored /\ UNCHANGED <<emitted, held, stored>>

Next == Emit \/ Hold \/ Store \/ See

Spec == Init /\ [][Next]_<<emitted, held, stored, seen>>

=============================================================================
