---------------------------- MODULE MCNodePlugin ----------------------------
(* Four generations: a configuration that degrades, a good one, one that is *)
(* rejected and the good one again, whose digest is then the one in place.  *)
EXTENDS NodePlugin

Good     == [digest |-> "a", sound |-> TRUE, reject |-> FALSE, degrade |-> FALSE]
Degrades == [digest |-> "b", sound |-> TRUE, reject |-> FALSE, degrade |-> TRUE]
Rejected == [digest |-> "c", sound |-> TRUE, reject |-> TRUE, degrade |-> FALSE]

MCConfigOf == <<Degrades, Good, Rejected, Good>>

=============================================================================
