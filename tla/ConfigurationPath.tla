------------------------- MODULE ConfigurationPath -------------------------
(***************************************************************************)
(* The way of a node plugin's configuration: written by its center plugin  *)
(* with ConfigureNodePlugin, put into a plugin.reconcile command, encoded  *)
(* into envelopes, decoded by the Agent and applied to the node plugin.    *)
(* Each hop checks the configuration once more, against limits of its own  *)
(* and after other encodings.  What they tell apart is the configuration's *)
(* length, how much of it are characters that json.Marshal escapes in six  *)
(* bytes each, which are < > & of one byte and the separators U+2028 and   *)
(* U+2029 of three, and space between its tokens, which it leaves out.     *)
(***************************************************************************)
EXTENDS Naturals, Documents

CONSTANTS
  PlainBytes,   \* numbers of bytes that no encoding changes
  MarkupBytes,  \* numbers of characters < > &
  Separators,   \* numbers of characters U+2028 and U+2029
  SpaceBytes,   \* numbers of bytes of space between tokens
  OtherBytes    \* what the rest of its command takes, the download URL above all

\* A download URL has up to 4096 bytes, which may each be escaped in six.
MaximumOtherBytes == 30000

ASSUME BytesAssumption ==
  /\ PlainBytes \cup MarkupBytes \cup Separators \cup SpaceBytes \subseteq Nat
  /\ OtherBytes \subseteq 0 .. MaximumOtherBytes

MaximumUIJSONBytes              == 524288
MaximumPluginConfigurationBytes == 393216

Configurations ==
  [path : {"configuration"}, plain : PlainBytes, markup : MarkupBytes,
   separators : Separators, space : SpaceBytes, other : OtherBytes]

Length(text) == text.plain + text.markup + 3 * text.separators + text.space

Escaped(text) == text.markup + text.separators

Marshal(text) ==
  [text EXCEPT !.plain = @ + 6 * Escaped(text),
               !.markup = 0, !.separators = 0, !.space = 0]

ValidatePluginConfiguration(text) ==
  Length(text) <= MaximumPluginConfigurationBytes

ConfigurationHop(from, to, ok, made) == Hop("configuration", from, to, ok, made)

\* ConfigureNodePlugin at the center.
ConfigureNodePlugin ==
  ConfigurationHop("written", "accepted",
    ValidatePluginConfiguration(document) /\ Length(document) <= MaximumUIJSONBytes,
    document)

\* Fault: the command's limit is that of a configuration.
CommandAsSmall(text) ==
  Length(text) + text.other <= MaximumPluginConfigurationBytes

ValidateCommand(text) ==
  Length(text) + text.other <= MaximumCommandPayloadBytes

NewPluginReconcileCommand ==
  ConfigurationHop("accepted", "commanded",
    ValidatePluginConfiguration(document) /\ ValidateCommand(Marshal(document)),
    Marshal(document))

\* The Agent, after two more encodings of the command in its envelopes.
DecodePluginReconcileCommand ==
  ConfigurationHop("commanded", "delivered",
    /\ ValidateCommand(Marshal(Marshal(document)))
    /\ ValidatePluginConfiguration(Marshal(Marshal(document))),
    Marshal(Marshal(document)))

\* The node plugin, over gRPC, which leaves the bytes alone.
ApplyConfiguration ==
  ConfigurationHop("delivered", "applied",
    ValidatePluginConfiguration(document), document)

ConfigurationNext ==
  \/ ConfigureNodePlugin
  \/ NewPluginReconcileCommand
  \/ DecodePluginReconcileCommand
  \/ ApplyConfiguration

ConfigurationSpec ==
  Written(Configurations) /\ [][ConfigurationNext]_paper

-----------------------------------------------------------------------------
IsConfiguration == document.path = "configuration"

\* A configuration the center has accepted is refused on its way only for the
\* escapes it needs: no other limit and no other encoding stands in its way.
OnlyEscapesStop ==
  IsConfiguration /\ refused /\ stage # "accepted" =>
    written.plain + 6 * Escaped(written) > MaximumPluginConfigurationBytes

\* A command that could be made can be decoded, and what is decoded can be
\* applied: once it is within the limit of a command, a configuration arrives.
CommandsArrive ==
  IsConfiguration /\ refused => stage \in {"accepted", "commanded"}

=============================================================================
