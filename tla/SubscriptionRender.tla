------------------------ MODULE SubscriptionRender ------------------------
(***************************************************************************)
(* RenderSubscription of the center contract plugin: a contribution for    *)
(* each requested service, checked as the center checks it.  All that a    *)
(* request decides is how long its names and fragments become, so a        *)
(* request is a number of services whose names have one length and one     *)
(* kind of character.                                                      *)
(***************************************************************************)
EXTENDS Naturals, Documents

CONSTANTS
  ServiceCounts,  \* numbers of services in a request
  IdLengths,      \* lengths of their service IDs
  NameLengths,    \* lengths of their display names, in characters
  ServiceCapabilities  \* numbers of their capabilities

ASSUME RequestsAssumption ==
  ServiceCounts \cup IdLengths \cup NameLengths \subseteq Nat \ {0}

MaximumServices          == 256
MaximumFragmentBytes     == 65536
MaximumSubscriptionBytes == 524288
MaximumNameLength        == 100

\* Bytes of a character as it is, in a URI's fragment and in a JSON string: a
\* letter, one of the characters < > &, U+2028 or U+2029, which are no control
\* characters, or one outside the basic plane.
Characters == {"letter", "markup", "separator", "wide"}
Plain    == [letter |-> 1, markup |-> 1, separator |-> 3, wide |-> 4]
InURI    == [letter |-> 1, markup |-> 3, separator |-> 9, wide |-> 12]
InJSON   == [letter |-> 1, markup |-> 6, separator |-> 6, wide |-> 4]

Requests ==
  [path : {"subscription"}, services : ServiceCounts, id : IdLengths,
   name : NameLengths, kind : Characters, capabilities : ServiceCapabilities]

\* Fault: the length of a name is counted in bytes.
NameOfBytes(length, kind) == length * Plain[kind] <= MaximumNameLength

ValidName(length, kind) == length <= MaximumNameLength

ValidateRenderSubscriptionRequest(r) ==
  r.services <= MaximumServices /\ r.id <= 64 /\ ValidName(r.name, r.kind)

\* " / Contract" is put after each name.
Suffix == 11

\* A URI, a Mihomo proxy and a sing-box outbound, which have the ID and the
\* name in them; the suffix has two spaces that a URI escapes.
URI(r)     == 75 + r.id + r.name * InURI[r.kind] + Suffix + 4
Mihomo(r)  == 140 + r.id + r.name * InJSON[r.kind] + Suffix
SingBox(r) == 139 + r.id + r.name * InJSON[r.kind] + Suffix

ValidateRenderSubscriptionResponse(r) ==
  /\ ValidName(r.name + Suffix, r.kind)
  /\ URI(r) <= 8192
  /\ Mihomo(r) <= MaximumFragmentBytes /\ SingBox(r) <= MaximumFragmentBytes
  /\ r.services * (URI(r) + Mihomo(r) + SingBox(r)) <= MaximumSubscriptionBytes

\* ReplaceServices checks a catalog much the way it is later asked for.
ValidateReplaceServicesRequest(r) ==
  /\ r.services <= MaximumServices /\ r.id <= 64 /\ r.capabilities <= 64
  /\ ValidName(r.name, r.kind)

\* The center plugin has its services put into the catalog.
ReplaceServices ==
  Hop("subscription", "written", "catalogued",
      ValidateReplaceServicesRequest(document), document)

\* The request is checked before it is rendered, what is made of it after.
TakeRequest ==
  Hop("subscription", "catalogued", "requested",
      ValidateRenderSubscriptionRequest(document), document)

RenderSubscription ==
  Hop("subscription", "requested", "rendered",
      ValidateRenderSubscriptionResponse(document), document)

SubscriptionNext == ReplaceServices \/ TakeRequest \/ RenderSubscription

SubscriptionSpec == Written(Requests) /\ [][SubscriptionNext]_paper

-----------------------------------------------------------------------------
\* Services that are in the catalog can be asked for; and with room for the
\* suffix in their names and a quarter as many of them, they are rendered,
\* whatever characters the names are made of: every encoding of every fragment
\* stays within the limits of the response.
CataloguedServicesRender ==
  document.path = "subscription" /\ refused =>
    \/ stage = "catalogued"
    \/ /\ stage = "rendered"
       /\ \/ written.name > MaximumNameLength - Suffix
          \/ written.services > MaximumServices \div 4

=============================================================================
