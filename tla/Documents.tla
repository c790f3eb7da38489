----------------------------- MODULE Documents -----------------------------
(***************************************************************************)
(* A document on its way through the programs that handle it: each hop     *)
(* checks it with a validator of its own and hands it on as what it makes  *)
(* of it, or refuses it.  The modules that extend this one have a path     *)
(* each, for one kind of document; what stops a document between two       *)
(* validators that should agree is what they are about.                    *)
(***************************************************************************)
EXTENDS Naturals

VARIABLES
  stage,    \* the hop the document has come to
  refused,  \* that hop has refused it
  document, \* the document as it is there
  written   \* the document as its author wrote it

paper == <<stage, refused, document, written>>

Written(documents) ==
  /\ written \in documents /\ document = written
  /\ stage = "written" /\ refused = FALSE

\* From one hop to the next: `ok` if the document passes, `made` what it then is.
Hop(path, from, to, ok, made) ==
  /\ document.path = path /\ stage = from /\ ~refused
  /\ stage' = to
  /\ refused' = ~ok
  /\ document' = IF ok THEN made ELSE document
  /\ UNCHANGED written

\* contract.ValidateSemanticVersion and ValidatePluginID, of the length of one.
ValidateSemanticVersion(length) == length \in 5 .. 128
ValidatePluginID(length) == length \in 1 .. 128

\* A command's payload is checked when it is made and when it is decoded.
MaximumCommandPayloadBytes == 524288

=============================================================================
