---------------------------- MODULE MCContracts ----------------------------
(* One document, or one of the small machines beside it, at a time: what is *)
(* sent to and fro by itself, without a session or a process around it.     *)
(* `document.path` says which; the others stay as they are.                 *)
EXTENDS MCPeriodRoll, ConfigurationPath, SubscriptionRender, NodePath, PluginPath,
        PolicyPath, Conformance, PluginRelease, NodeSettings

Documents ==
  UNION {Configurations, Requests, Identities, Manifests, Snapshots, Fixtures}

Machine(name) == Written({[path |-> name]})
Is(name) == document.path = name

ContractsInit ==
  /\ \/ Written(Documents)
     \/ \E name \in {"calendar", "release", "settings"} : Machine(name)
  /\ IF Is("calendar")
       THEN Init
       ELSE /\ policy = CHOOSE p \in Policies : TRUE
            /\ now = policy.startedAt /\ period = NoPeriod
  /\ ReleaseInit /\ SettingsInit

DocumentNext ==
  \/ ConfigurationNext \/ SubscriptionNext \/ NodeNext \/ PluginNext
  \/ PoliciesNext \/ FixtureNext

ContractsNext ==
  \/ DocumentNext /\ UNCHANGED <<vars, release, settings>>
  \/ Is("calendar") /\ Next /\ UNCHANGED <<paper, release, settings>>
  \/ Is("release") /\ ReleaseNext /\ UNCHANGED <<paper, vars, settings>>
  \/ Is("settings") /\ SettingsNext /\ UNCHANGED <<paper, vars, release>>

ContractsSpec ==
  ContractsInit /\ [][ContractsNext]_<<paper, vars, release, settings>>

-----------------------------------------------------------------------------
\* Three builds of two programs, which differ, the second in size too, and of
\* an archive that all of them have in common.
MCBytesOf == <<<<1, 2, 3>>, <<1, 2, 3>>, <<4, 4, 4>>>>
MCSizeOf  == [bytes \in 1 .. 4 |-> bytes % 2]

\* Manifests: all shapes of one size, and all sizes of one shape.
Roles == {"center", "node", "ui"}
Apis  == {"control", "agent", "ui"}

Manifest(kind, roles, requires, permissions) ==
  [path |-> "plugin", kind |-> kind, roles |-> [role \in roles |-> 64],
   requires |-> [api \in DOMAIN requires |-> requires[api]],
   permissions |-> permissions, id |-> 26, version |-> 5, suffix |-> 10,
   subject |-> 40, capabilities |-> 4]

MCShapes ==
  {Manifest(kind, roles, requires, permissions) :
     kind \in {"runtime", "feature"}, roles \in SUBSET Roles,
     requires \in UNION {[apis -> 0 .. 2] : apis \in {{"control"} \cup a : a \in SUBSET Apis}},
     permissions \in {{}, {"events.write"}, {"events.write", "node.configure"},
                      {"events.write", "nodes.write"}}}

Full == Manifest("runtime", Roles, [api \in Apis |-> 1], {"events.write", "node.configure"})

MCSizes ==
  {[Full EXCEPT !.roles = [center |-> center, node |-> node, ui |-> ui], !.id = id,
                !.version = version, !.suffix = suffix, !.subject = 120,
                !.capabilities = capabilities] :
     center \in {0, 256, 257}, node \in {256, 257}, ui \in {64, 65},
     id \in {0, 1, 110, 119, 128, 129}, version \in {5, 128, 129},
     suffix \in {1, 11}, capabilities \in {0, 64, 65}}
  \cup {[Full EXCEPT !.subject = subject] : subject \in {0, 1, 120, 121}}

\* Plugins "a", "a-b" and "a.b", services "s" and "t": characters in which the
\* order of IDs and that of keys could differ.
A == 97
MCBindings ==
  LET plugins  == {<<A>>, <<A, 45, A>>, <<A, 46, A>>}
      services == {<<115>>, <<116>>}
      one      == [plugin : plugins, service : services]
  IN  UNION {[1 .. n -> one] : n \in 0 .. 3}

=============================================================================
