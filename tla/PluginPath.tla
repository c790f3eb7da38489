---------------------------- MODULE PluginPath ----------------------------
(***************************************************************************)
(* What a plugin's manifest promises, and what becomes of it: a host reads *)
(* the manifest, activates the center plugin with the permissions it asks  *)
(* for, takes the events it publishes, has the Agent run its node          *)
(* artifact, and stores the status the Agent reports of it.  Each of these *)
(* validates identifiers, sizes and lists the manifest has already been    *)
(* validated for, each in a package of its own.                            *)
(***************************************************************************)
EXTENDS Naturals, FiniteSets, Documents

CONSTANTS
  Shapes,  \* manifests that differ in kind, roles, requirements, permissions
  Sizes    \* manifests that differ in lengths, sizes and numbers

\* A manifest: `id` and `version` are lengths, the version that of a semantic
\* version; `kind` is a Kind; `roles` maps the roles it has artifacts for to their
\* size in MiB; `requires` maps each API it names to the major it requires.
\* `permissions` are names.  What the plugin then does: it publishes events
\* whose kind is "plugin." and its ID, a dot and `suffix` more characters, or
\* it asks for a notification of `subject` characters; and its node plugin
\* reports `capabilities` of them.
Manifests == Shapes \cup Sizes

ASSUME ManifestAssumption ==
  \A manifest \in Manifests :
    /\ manifest.path = "plugin"
    /\ {manifest.id, manifest.version, manifest.suffix, manifest.subject,
        manifest.capabilities} \subseteq Nat

\* What a host of this version supports.
SupportedAPIs == [control |-> {1}, agent |-> {1}, ui |-> {1}]

CenterPermissions ==
  {"events.read", "events.write", "node.configure", "nodes.read", "services.write"}

Has(manifest, role) == role \in DOMAIN manifest.roles
Requires(manifest, api) == api \in DOMAIN manifest.requires

MaximumArtifact == [center |-> 256, node |-> 256, ui |-> 64]

\* The Agent's own limit, in agent/v1.
\* Fault: it is that of a UI.
ArtifactOfUI == 64

MaximumPluginArtifact == 256

ValidateArtifacts(manifest) ==
  /\ \A role \in DOMAIN manifest.roles :
       manifest.roles[role] \in 1 .. MaximumArtifact[role]
  /\ Has(manifest, "center")
  /\ ~(manifest.kind = "feature" /\ Has(manifest, "node"))
  /\ Has(manifest, "node") <=> Requires(manifest, "agent")
  /\ Has(manifest, "ui") <=> Requires(manifest, "ui")

ValidateManifest(manifest) ==
  /\ ValidatePluginID(manifest.id) /\ ValidateSemanticVersion(manifest.version)
  /\ manifest.kind \in {"runtime", "feature"}
  /\ \A api \in DOMAIN manifest.requires : manifest.requires[api] > 0
  /\ Requires(manifest, "control")
  /\ ValidateArtifacts(manifest)

CheckCompatibility(manifest) ==
  \A api \in DOMAIN manifest.requires : manifest.requires[api] \in SupportedAPIs[api]

ValidatePermissions(permissions) == permissions \subseteq CenterPermissions

KindLength(manifest) == 7 + manifest.id + 1 + manifest.suffix
ValidKind(length) == length <= 128

ValidatePluginIdentity(manifest) == ValidatePluginID(manifest.id)

ValidatePluginReconcileCommand(manifest) ==
  /\ ValidatePluginIdentity(manifest) /\ ValidateSemanticVersion(manifest.version)
  /\ manifest.roles["node"] \in 1 .. MaximumPluginArtifact

PluginHop(from, to, ok, made) == Hop("plugin", from, to, ok, made)

LoadManifest == PluginHop("written", "loaded", ValidateManifest(document), document)
Install == PluginHop("loaded", "installed", CheckCompatibility(document), document)

\* The center plugin has started: it says who it is and is given its permissions.
Identify ==
  PluginHop("installed", "identified",
    ValidatePluginID(document.id) /\ ValidateSemanticVersion(document.version), document)
Activate ==
  PluginHop("identified", "active", ValidatePermissions(document.permissions), document)

\* It publishes an event, which center plugins that read events consume.
Publish ==
  /\ PluginHop("active", "published", ValidKind(KindLength(document)), document)
  /\ "events.write" \in document.permissions
Consume == PluginHop("published", "consumed", ValidKind(KindLength(document)), document)

\* It asks for a notification instead.
Notify ==
  /\ PluginHop("active", "notified", document.subject \in 1 .. 120, document)
  /\ "events.write" \in document.permissions

\* It configures a node, and the center has the Agent run the node artifact.
Deploy ==
  /\ document.path = "plugin"
  /\ Has(document, "node") /\ "node.configure" \in document.permissions
  /\ PluginHop("active", "deployed", ValidatePluginReconcileCommand(document), document)
Deliver ==
  PluginHop("deployed", "delivered", ValidatePluginReconcileCommand(document), document)

\* The node plugin says who it is and what it can do, and the Agent passes it on.
Start ==
  PluginHop("delivered", "running",
    ValidatePluginID(document.id) /\ ValidateSemanticVersion(document.version), document)
Report ==
  PluginHop("running", "reported",
    /\ ValidatePluginIdentity(document) /\ ValidateSemanticVersion(document.version)
    /\ document.capabilities <= 64, document)

PluginNext ==
  \/ LoadManifest \/ Install \/ Identify \/ Activate \/ Publish \/ Consume
  \/ Notify \/ Deploy \/ Deliver \/ Start \/ Report

PluginSpec == Written(Manifests) /\ [][PluginNext]_paper

-----------------------------------------------------------------------------
\* A plugin whose manifest loads and is compatible is refused later only for a
\* permission no center knows, for an event kind or a notification that is too
\* long, or for the number of its capabilities: its identity, its version and
\* its artifacts pass wherever they are looked at again.
InstalledPluginRuns ==
  document.path = "plugin" /\ refused /\ stage \notin {"loaded", "installed"} =>
    \/ stage = "active" /\ ~(written.permissions \subseteq CenterPermissions)
    \/ stage = "published" /\ written.id + written.suffix > 120
    \/ stage = "notified" /\ written.subject \notin 1 .. 120
    \/ stage = "reported" /\ written.capabilities > 64

=============================================================================
