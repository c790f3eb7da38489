------------------------- MODULE MCCommandDelivery -------------------------
(* Two commands that are alike but for their IDs.                          *)
EXTENDS CommandDelivery

MCContent ==
  [c \in {1, 2} |-> [value |-> "a", spaced |-> TRUE, special |-> "plain"]]

=============================================================================
