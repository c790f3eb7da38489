----------------------------- MODULE NodePath -----------------------------
(***************************************************************************)
(* What identifies a node, from its registration to its update: the        *)
(* Agent's version, hostname and capabilities, the name the center gives   *)
(* it, and the version the center later has it run.  The center, the Agent *)
(* and a center plugin that lists the nodes each check a part of it, and   *)
(* not against the same limits: a version is an agent_version of up to 64  *)
(* characters or a semantic version of up to 128, and a name is 100        *)
(* characters or 80 bytes.                                                 *)
(***************************************************************************)
EXTENDS Naturals, Documents

CONSTANTS
  VersionLengths,    \* lengths of Agent versions, all of them semantic versions
  HostnameLengths,   \* lengths of hostnames
  CapabilityCounts,  \* numbers of capabilities
  NodeNameLengths,   \* lengths of node names, in characters
  WideBytes          \* numbers of bytes of such a character

ASSUME IdentityAssumption ==
  /\ VersionLengths \cup HostnameLengths \cup CapabilityCounts
       \cup NodeNameLengths \subseteq Nat
  /\ WideBytes \subseteq 1 .. 4

\* `update` is the version the node is to run next.
Identities ==
  [path : {"node"}, version : VersionLengths, hostname : HostnameLengths,
   capabilities : CapabilityCounts, name : NodeNameLengths, wide : WideBytes,
   update : VersionLengths]

ValidateAgentVersion(length) == length \in 1 .. 64
ValidateCapabilities(count) == count <= 64

ValidateRegisterRequest(node) ==
  /\ ValidateAgentVersion(node.version)
  /\ node.hostname \in 1 .. 253
  /\ ValidateCapabilities(node.capabilities)

ValidateListedNode(node) == node.name * node.wide \in 1 .. 80

\* Fault: one capability fewer than at registration.
HelloOfFewer(node) ==
  ValidateAgentVersion(node.version) /\ node.capabilities < 64

ValidateAgentHello(node) ==
  ValidateAgentVersion(node.version) /\ ValidateCapabilities(node.capabilities)

NodeHop(from, to, ok, made) == Hop("node", from, to, ok, made)

Register == NodeHop("written", "registered", ValidateRegisterRequest(document), document)

\* The Agent reads the answer: from here on it is a node.
RegisterResponse == NodeHop("registered", "named", document.name \in 1 .. 100, document)

\* A center plugin asks for the nodes and gets this one among them.
ListNodes == NodeHop("named", "listed", ValidateListedNode(document), document)

\* The Agent's first session, and the heartbeats of every one.
Hello == NodeHop("named", "greeted", ValidateAgentHello(document), document)
Beat  == NodeHop("greeted", "beating", ValidateAgentVersion(document.version), document)

\* agent.update: made by the center, decoded by the Agent, which becomes the version.
NewAgentUpdateCommand ==
  NodeHop("beating", "commanded", ValidateSemanticVersion(document.update), document)
DecodeAgentUpdateCommand ==
  NodeHop("commanded", "switched", ValidateSemanticVersion(document.update),
          [document EXCEPT !.version = document.update])

\* Once the candidate's hello is answered it reports what it now runs.
ConfirmUpdate == NodeHop("switched", "confirmed", ValidateAgentHello(document), document)
ReportUpdate ==
  NodeHop("confirmed", "reported", ValidateSemanticVersion(document.version), document)

NodeNext ==
  \/ Register \/ RegisterResponse \/ ListNodes \/ Hello \/ Beat
  \/ NewAgentUpdateCommand \/ DecodeAgentUpdateCommand \/ ConfirmUpdate \/ ReportUpdate

NodeSpec == Written(Identities) /\ [][NodeNext]_paper

-----------------------------------------------------------------------------
\* A node the center has registered and named is refused later for one of three
\* reasons and no other: its name has more bytes than a list of nodes takes, or
\* it is told to run what is no version, or a version longer than a hello takes.
RegisteredNodeServes ==
  document.path = "node" /\ refused /\ stage \notin {"registered", "named"} =>
    \/ stage = "listed" /\ written.name * written.wide > 80
    \/ stage = "commanded" /\ written.update \notin 5 .. 128
    \/ stage = "confirmed" /\ written.update \in 65 .. 128

=============================================================================
