--------------------------- MODULE MCCenterPlugin ---------------------------
(* Three activations, two of which ask the Host for its nodes first, and    *)
(* four invocations: two that call the Host, one that is answered without   *)
(* it and one whose method the plugin does not have.  And what one of these *)
(* methods does at the Host: two pages that give one ID to different        *)
(* events, and one whose event is refused.  One of the two machines moves,  *)
(* while the other has not begun.                                           *)
EXTENDS CenterPlugin, EventPublication

CONSTANTS a1, a2, a3, i1, i2, i3, i4

MCActivations  == {a1, a2, a3}
MCInvocations  == {i1, i2, i3, i4}
MCMayListNodes == {a1, a2}
MCMethodOf ==
  [i \in MCInvocations |-> IF i = i1 THEN "nodes.summary"
                          ELSE IF i = i2 THEN "services.replace"
                          ELSE IF i = i3 THEN "status.read"
                          ELSE "unsupported"]

MCWishes    == {"first", "second", "timeless"}
MCSourceOf  == [w \in MCWishes |-> IF w = "timeless" THEN "two" ELSE "one"]
MCContentOf == [w \in MCWishes |-> w]
MCBad       == "timeless"

MCInit == Init /\ PublicationInit

MCNext ==
  \/ PublicationInit /\ Next /\ UNCHANGED publication
  \/ Init /\ PublicationNext /\ UNCHANGED vars

MCSpec == MCInit /\ [][MCNext]_<<vars, publication>>

=============================================================================
