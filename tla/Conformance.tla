---------------------------- MODULE Conformance ----------------------------
(***************************************************************************)
(* relayward-conformance: a file, and what it is said to be, are opened,   *)
(* decoded and validated the way the host that takes such a document does  *)
(* it, "using the same strict limits as Relayward hosts" (load.go).  A     *)
(* host takes it from a connection, within the limits of its validators; a *)
(* file has a limit of its own and, where the document is a protocol       *)
(* buffer, holds its bytes in base64.                                      *)
(***************************************************************************)
EXTENDS Naturals, TLC, Documents

CONSTANTS
  ItemCounts,  \* numbers of items in a document: events, services, capabilities...
  ItemBytes    \* numbers of bytes of payload in each

ASSUME FixtureAssumption == ItemCounts \cup ItemBytes \subseteq Nat

KiB == 1024
\* Fault: a file may be as long as a command's payload.
SmallFile == 512 * KiB

maxContractFileSize == 1024 * KiB

\* What is decoded from JSON, what is unmarshalled as a protocol buffer, and
\* what is a request and its response in one file.
JSONKinds ==
  {"manifest", "envelope", "agent-envelope", "agent-register", "agent-event-batch",
   "agent-event-ack", "agent-plugin-reconcile", "agent-plugin-status",
   "agent-policy-reconcile", "agent-traffic-snapshot", "agent-access-event"}
ProtoKinds ==
  {"node-plugin-info", "center-plugin-info", "center-plugin-activation",
   "center-plugin-status", "center-plugin-ui", "center-plugin-nodes",
   "center-plugin-services"}
PairKinds ==
  {"center-plugin-subscription", "center-plugin-events", "center-plugin-published-events"}

FixtureKinds == JSONKinds \cup ProtoKinds \cup PairKinds

\* What may be wrong with one: it is no regular file; it has a field nobody
\* knows or something after it; a field of it; the response to its request; or
\* what only a host can tell, such as the plugin or the node it expected.
Defects == {"none", "irregular", "shape", "content", "pair", "context"}

\* Bound: a document has at most 16 MiB.
LongestDocument == 16384 * KiB
Shaped ==
  {shape \in ItemCounts \X ItemBytes :
     shape[2] = 0 \/ shape[1] <= LongestDocument \div shape[2]}

Fixtures ==
  {[path |-> "fixture", kind |-> kind, items |-> shape[1], bytes |-> shape[2],
    defect |-> defect] :
     kind \in FixtureKinds, shape \in Shaped, defect \in Defects}

\* What a host reads of a manifest, or of a control envelope, whatever the
\* command's own limit is (docs/plugin-manifest.md, docs/agent-control-v1.md).
LongestBody == 1024 * KiB

\* The validators' limits: of items, of bytes in each and of bytes in all.
\* Without a limit, a message's: 4 MiB of gRPC, or of an expanded batch.
\* A node has an ID and a name; a service has these, 64 capabilities of 64
\* bytes and a digest.
Cap(items, each, all) == [items |-> items, each |-> each, all |-> all]
Unlimited == 4096 * KiB
NodeBytes == 128 + 80
ServiceBytes == 64 + 4 * 100 + 64 * 64 + 64
Caps ==
  [kind \in FixtureKinds |->
     CASE kind \in {"manifest", "envelope", "agent-envelope"} -> Cap(Unlimited, Unlimited, LongestBody)
       [] kind = "agent-event-batch"      -> Cap(500, 256 * KiB, Unlimited)
       [] kind = "agent-plugin-reconcile" -> Cap(1, 512 * KiB, 512 * KiB)
       [] kind = "agent-policy-reconcile" -> Cap(4096, Unlimited, 512 * KiB)
       [] kind \in {"agent-register", "agent-plugin-status"} -> Cap(64, 64, Unlimited)
       [] kind = "node-plugin-info"       -> Cap(Unlimited, 64, Unlimited)
       [] kind = "center-plugin-nodes"    -> Cap(Unlimited, NodeBytes, Unlimited)
       [] kind = "center-plugin-activation" -> Cap(5, 27, Unlimited)
       [] kind = "center-plugin-status"   -> Cap(1, 512, 512)
       [] kind = "center-plugin-ui"       -> Cap(1, 512 * KiB, 512 * KiB)
       [] kind = "center-plugin-services" -> Cap(256, ServiceBytes, Unlimited)
       [] kind = "center-plugin-subscription" -> Cap(256, 512 * KiB, 512 * KiB)
       [] kind \in {"center-plugin-events", "center-plugin-published-events"}
            -> Cap(128, 256 * KiB, 768 * KiB)
       [] OTHER -> Cap(0, 0, 0)]

WithinLimits(d) ==
  /\ d.items <= Caps[d.kind].items
  /\ d.bytes <= Caps[d.kind].each
  /\ d.items * d.bytes <= Caps[d.kind].all

\* The bytes fields of a protocol buffer are in base64; the rest of a document
\* is a few bytes more.
InBase64(kind) == kind \in PairKinds \cup {"center-plugin-ui"}
FileBytes(d) ==
  d.items * (IF InBase64(d.kind) THEN 4 * ((d.bytes + 2) \div 3) ELSE d.bytes)

FixtureHop(from, to, ok) == Hop("fixture", from, to, ok, document)

OpenContractFile ==
  FixtureHop("written", "opened",
    document.defect # "irregular" /\ FileBytes(document) <= maxContractFileSize)

DecodeContractJSON ==
  /\ FixtureHop("opened", "decoded", document.defect # "shape")
  /\ document.kind \in JSONKinds \cup PairKinds

LoadProtoJSON ==
  /\ FixtureHop("opened", "decoded", document.defect # "shape")
  /\ document.kind \in ProtoKinds

ValidContent(d) == d.defect # "content" /\ WithinLimits(d)

LoadJSON ==
  /\ FixtureHop("decoded", "valid", ValidContent(document))
  /\ document.kind \in JSONKinds

LoadProto ==
  /\ FixtureHop("decoded", "valid", ValidContent(document))
  /\ document.kind \in ProtoKinds

\* Both parts are unmarshalled, and the response is validated with its request.
LoadPair ==
  /\ FixtureHop("decoded", "valid", ValidContent(document) /\ document.defect # "pair")
  /\ document.kind \in PairKinds

FixtureNext ==
  OpenContractFile \/ DecodeContractJSON \/ LoadProtoJSON \/ LoadJSON \/ LoadProto \/ LoadPair

FixtureSpec == Written(Fixtures) /\ [][FixtureNext]_paper

\* What relayward-conformance exits with, once it is done with a document.
Exits(code) ==
  \/ code = 1 /\ refused
  \/ code = 0 /\ ~refused /\ stage = "valid"

\* The host: it has no file, but knows what it asked for.
HostAccepts(d) ==
  /\ WithinLimits(d)
  /\ \/ d.defect \in {"none", "irregular"}
     \/ d.defect = "pair" /\ d.kind \notin PairKinds

-----------------------------------------------------------------------------
\* The command says of a document what its host would, except that it cannot
\* know the context, wants a regular file, and that a file of many items may
\* be too large that the host takes from a connection: the lists that no
\* validator limits, or limits in items alone, and batches of events.
ToolAgreesWithHost ==
  document.path = "fixture" =>
    /\ Exits(0) => HostAccepts(written) \/ written.defect = "context"
    /\ Exits(1) /\ HostAccepts(written) =>
         \/ written.defect = "irregular"
         \/ /\ FileBytes(written) > maxContractFileSize
            /\ written.kind \in
                 {"agent-event-batch", "node-plugin-info", "center-plugin-nodes",
                  "center-plugin-services", "center-plugin-events",
                  "center-plugin-published-events"}

=============================================================================
