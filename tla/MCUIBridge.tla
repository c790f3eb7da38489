----------------------------- MODULE MCUIBridge -----------------------------
(* Three overlapping calls of a plugin page: confirm(), whose result is     *)
(* checked, rpc() and navigate(), whose argument is.  The payloads are at   *)
(* the limit; that of c1 may also come out above it.                        *)
EXTENDS UIBridge

CONSTANTS c1, c2, c3

MCCalls == {c1, c2, c3}

MCMethodOf ==
  [c \in MCCalls |-> IF c = c1 THEN "rpc" ELSE IF c = c2 THEN "confirm"
                     ELSE "navigate"]

MCSizeOf == [c \in MCCalls |-> IF c = c1 THEN {3, 4} ELSE {3}]

MCThrows == {"send", "unsubscribe"}

=============================================================================
