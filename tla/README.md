# Relayward SDK in TLA+

The Relayward SDK is the contract between four programs: the *center* (a web
service with a database), an *Agent* on each node, *plugins* that run beside
either of them as child processes, and *plugin pages* in a browser frame. The
repository holds the messages, the validators every side applies to what the
other sends, a TypeScript client for the pages, the shared period algorithm, and
one working plugin of each kind (`pluginfixture`) against which implementations
are tested. The center and the Agent themselves live elsewhere; where a module
needs one of them it takes only the steps that the documents under `docs/` and
the validators leave it, and `PROJECT.json` marks these definitions external.

Line references are to the repository at the modelled commit.

## The system

### Components, their state and their operations

**UI bridge client** (`ui/src/index.ts`). State: the `disposed` flag, the
subscription, the id counter, the map of pending requests and a timer for each.
Operations: `context`, `rpc`, `navigate`, `confirm`, `dispose`, and the handlers
of an incoming message and of a timer. Hard: one thread, but user code runs
inside `JSON.stringify` and `transport.send` and may call the client again or
dispose it; answers come late, twice, out of order or synchronously. Correct
means: every promise settles once, with an answer to its own request, and no
entry or timer outlives its call.

**Center contract plugin** (`pluginfixture/plugin.go:44-222`). State: `active`
and the one `host` connection, under a mutex. Operations: `Activate`,
`GetStatus`, `InvokeUI`, `RenderSubscription`, `ConsumeEvents`. gRPC runs them
concurrently, and both `Activate` and `InvokeUI` leave the mutex while they
call the Host. Correct means: connections are neither leaked nor closed while
in place, a failed activation is harmless, a healthy status is backed by a
connection, and rendering answers every request whose names leave room for the suffix.

**Node contract plugin** (`pluginfixture/plugin.go:224-320`). State: generation,
digest, the degrade flag and a poll counter. Operations: `ValidateConfiguration`,
`ApplyConfiguration`, `GetStatus` and the stateless `CollectTelemetry`,
`SetServiceState` and `ReplaceDynamicBlocks`. Hard: a call the Agent has given
up on may still run, after later ones; the process may be killed at any point.

**Authorization periods** (`policy/v1/period.go`). Pure: `CurrentPeriod`,
`ValidatePeriod`, `SamePeriod`. Center and Agent evaluate it at different
instants and must agree. Hard: days without a midnight, hours that happen
twice, months without the 31st, anchors in the future.

**Event delivery** (`agent/v1/events.go`, telemetry in `nodeplugin/v1`,
`ConsumeEvents` in `centerplugin/v1`). State: the Agent's queue, cursor and
stream sequence on disk; the center's event database and a cursor per consumer.
Hops: `CollectTelemetry` pages, event batches with acknowledgements,
`ConsumeEvents`. Hard: crashes between queueing and moving the cursor, batches
that overlap, repeat and overtake one another, and a retention of hot events that
does not wait for a consumer (`docs/center-plugin-v1.md:31`).

**Durable commands** (`agent/v1/commands.go`, `plugins.go`, `protocol/envelope.go`).
State: the command and its terminal result at either side, and which results
are acknowledged. Correct means: one verdict per command, known to both, and
digests that survive every encoding.

**Configuration path** (`agent/v1/plugins.go`, both validators). A node
plugin's configuration passes four checks, each after another encoding.

**Node configuration calls** (`centerplugin/v1/validate.go:160-227`). The host's
configuration of a node, with a generation; `ConfigureNodePlugin` names the one
it expects. Hard: handlers overlap, and a request whose handler has given up may
still come. Correct means: no edit that was acknowledged is written over unread.

**Authorization policies** (`agent/v1/policies.go`). Sorted by the center,
checked by both sides, then the subject of counters, status events and blocks,
each with a limit of its own.

**Control session** (`agent/v1/messages.go`, `update.go`). State: the session the
center serves, its newest heartbeat, the Agent's connection, and the update's
state on disk. Hard: what was sent over a connection that is given up arrives
after the hello of the next; the Agent replaces itself between two messages.
Correct means: an acknowledgement is for the heartbeat the center has, and what
the center is told of an update is what runs.

**Registration** (`agent/v1/register.go`). Two messages and their validators: a
one-time token and a description of the node, answered with a credential. Which
tokens are spent and which credential counts is state of the center alone.

**Service catalog, notifications, manifest, node identity, conformance** (`centerplugin/v1`,
`manifest`, `agent/v1/validate.go`, `conformance/load.go`). Pure checks of one
document, by several validators in packages of their own. Correct means: what
the first lets in the later ones do not refuse, or a known reason does.

**Release check** (`conformance/release.go`). Reads a directory file by file,
which a build script may be filling, with artifacts some of which are the same in
every build.

**Event publication** (`InvokeUI` `events.publish`, `PublishEvents`). A page, its
plugin and the Host; a retry after a timeout must not publish twice.

**Local enforcement** (`agent/v1/policies.go`, `nodeplugin/v1/validate.go:225-312`)
and **traffic ledger** (`agent/v1/telemetry.go`). The Agent meters, decides and
has the plugin enforce, also while it is disconnected.

**Without a module**: the generated gRPC code and the contract plugin's `main`.
The reasons are in the section on what is not modelled.

### How they interact

```
 page --postMessage--> host page --HTTP--> center --gRPC InvokeUI--> center plugin
                                             ^ ^  <--gRPC PluginHost-- (Activate gives
          commands, in heartbeat acks        | |                        the socket)
          +----------------------------------+ |  ConsumeEvents, RenderSubscription
          v   heartbeats, results, event batches
        Agent ---------------------------------+   (registration: HTTPS, before)
          |  gRPC: configuration, telemetry, service state, blocks
          v
     node plugin
```

Every arrow is a call that may fail, be answered late or be abandoned, and
every box except the page can restart on its own. Nothing is shared but the
messages; each side's disk or database is its own.

## Modules

| Module | Models | Composed with |
| --- | --- | --- |
| `CallContract` | abstract: a call settles once, with an answer to its own request, and never with one after dispose | implemented by `UIBridge` |
| `UIBridge` | the client, statement by statement around each hand-over to foreign code | `MCUIBridge` |
| `CenterPlugin` | `Activate`, `GetStatus`, `InvokeUI`, one action per stretch under the lock or between two waits | `MCCenterPlugin` |
| `NodePlugin` | configuration and status of the node fixture, with the Agent's side of the calls | `MCNodePlugin` |
| `Period`, `PeriodRoll` | time zones, the reset rules as operators; center and Agent following them hour by hour | `MCPeriodRoll`, `MCContracts` |
| `EventLog` | abstract: one log whose prefix is held, stored and seen | implemented by `EventDelivery` |
| `EventDelivery` | the three hops of an access event | - |
| `CommandContract` | abstract: decided once, learned as decided, closed when known | implemented by `CommandDelivery` |
| `CommandDelivery` | commands, results and acknowledgements, with JSON texts and digests | `MCCommandDelivery` |
| `ControlSession` | connections that supersede one another, heartbeats, the update they carry | - |
| `NodeSettings` | edits of one node's configuration under `expected_generation` | `MCContracts` |
| `PluginRelease` | a release that is built and verified at the same time | `MCContracts` |
| `Documents` | one document from hop to hop, passed on or refused | extended by the six below |
| `ConfigurationPath` | the checks of one configuration, hop by hop | `MCContracts` |
| `NodePath` | a node's version, capabilities and name from registration to update | `MCContracts` |
| `PluginPath` | a manifest, and what becomes of the plugin | `MCContracts` |
| `PolicyPath` | a snapshot of policies, and what follows from it | `MCContracts` |
| `Totals` | no state: sums over what is numbered | extended by `PolicyPath` and `TrafficLedger` |
| `Conformance` | every kind of document at the command and at its host | `MCContracts` |
| `EventPublication` | page, plugin and Host around one stream of events | `MCCenterPlugin`; rests on the contract of `UIBridge` and the severed connections of `CenterPlugin` |
| `SubscriptionRender` | a catalog, a request and the lengths of what `RenderSubscription` makes | `MCContracts` |
| `Enforcement` | decision, call, confirmation of service state and blocks | - |
| `TrafficLedger` | samples, ledger, snapshots and the center's copy | takes the delivery of events from `EventDelivery` |

How state and actions correspond to code:

* **UIBridge.** `pending` is the `Map`, as pairs of id and call; `timer` the armed
  timeouts; `phase`, `running` and `caller` the JavaScript stack. `Begin`
  is the call up to `normalizeJSON`, `Register` from there to `transport.send`,
  `SendReturns`/`SendThrows` what follows, `Deliver` the listener,
  `TimerFires` the timeout, `Dispose`/`DisposeThrows` the method with and
  without a failing `unsubscribe`, which may have detached the listener before it
  throws. A payload's own `toJSON` may decide how long it becomes, and like `send` may
  have a message delivered before it returns.
* **CenterPlugin.** A connection is named by the activation that opened it.
  `ActivateOpens` runs to the `ListNodes` wait, `HostListsNodes` and
  `HostFailsListing` are its two ends, `Install` is the locked section that
  replaces and closes. `ReadHost` is the locked read of `InvokeUI`; the answer
  follows later, and by then the connection may be closed (`ConnectionLost`).
* **NodePlugin.** `ApplyConfiguration(g)` and `GetStatus` are whole handlers;
  `Validate`, `SendApply`, `Acknowledge` and `Resend` are the Agent's. An
  Agent that is not `patient` gives up on calls and goes on while they may still
  run.
* **Period.** Instants are hours. `Date` is `time.Date` with its one correction,
  so times that do not exist come out as Go's do. Each rule is one operator, and
  `LastDay` asks `Date` for the day before the next month, as the code does.
* **EventDelivery.** A page or batch is a sequence of numbers; `Collect` queues,
  `Advance` writes the cursor, `Crash` may come between. Messages stay on the
  wire for ever, which gives loss, repetition and reordering in one. `removed` is how
  many of the first events hot-event retention has taken away: `Clean` takes more at
  any time, and `Feed` begins at the next event that is left (`Resume`).
* **CommandDelivery.** A JSON text is its value, whether it is spaced, and how
  the characters stand in it that `json.Marshal` escapes: `<`, `>`, `&`, U+2028 and
  U+2029. `Marshal` and `Compact` are what Go's functions do to these. A digest is the
  text it is of. `ConfigurationPath` counts the same five characters, three of them
  of one byte and two of three, each six when escaped.
* **ControlSession.** A connection is a queue in either direction; `up` keeps those
  the Agent has given up, `down` is the present one's. `Take...` actions with a
  `k` are the center's, at the head of a queue of its own choosing, which lets
  an old connection be read after a new one. `version`, `update` and `settled`
  are on the Agent's disk and survive `Exit`; everything else is lost with the
  process. `Switch` is the command up to the restart it ends in.
* **Documents.** `document` is what has come to `stage`, `written` what its author
  wrote; a hop is one validator with the encoding before it. Lengths, counts and
  kinds stand for text. `document.path` selects the module, so that one run
  holds them all; the two machines and the calendar of `MCContracts` are
  selected in the same way, and while one moves the others stand still.
  `MCCenterPlugin` holds its two modules likewise.
* **PluginPath, NodePath, PolicyPath, ConfigurationPath, SubscriptionRender.** One
  action per validator, in the order in which a host or an Agent calls them.
* **Conformance.** `OpenContractFile`, `DecodeContractJSON`/`LoadProtoJSON` and the
  three `Load...` are the stretches of `load.go`; `Exits` is `main`'s code;
  `HostAccepts` is the validator with the limits of a message, or, of a manifest and an
  envelope, with the 1 MiB that the documents give a host.
* **PluginRelease.** `Build` to `WriteManifest` are the lines of the script that
  write the directory, `ReadManifest` to `Accept` the reads of
  `VerifyPluginRelease`. An artifact is the build it is of, and `BytesOf` the bytes that
  each build makes of it: any artifacts may be common to any builds, since the script
  builds reproducibly, and the user interface's archive has no version in it.
* **NodeSettings.** A request is its attempt's record: one that
  its sender no longer waits for is "late" until it is read, and "lost" after.
* **Enforcement** and **TrafficLedger** each keep what is on the Agent's disk, what is
  at the plugin and what is under way apart, since each is lost in another crash.
  The plugin of `Enforcement` is one that runs something, as `docs/node-plugin-v1.md`
  has it; the fixture's two handlers keep nothing and answer with the request.

## Runs

Every `.cfg` names its bounds; the counts are distinct states.

| Run | States | Checks |
| --- | --- | --- |
| `uibridge` | 103118 | three calls that overlap and nest, one of a payload that may be too large, messages that come inside them, `send` and `unsubscribe` may throw: map and timers, answers, that every call settles, and `CallContract` |
| `center` | 484663 | three activations and four invocations in every order: connections, and failures that harm nothing; three wishes for an event, two tries, one ID in conflict: each ID published once, and as the page was told |
| `node` | 5001 | four generations, two restarts, three polls, with an Agent that abandons calls and one that waits; for the latter also that acknowledged is active and the last one wins |
| `contracts` | 323620 | everything that stands by itself: configurations, catalogs, node identities, manifests, policies and contract files at the limits; eight reset rules in five zones over seven weeks of hours; three artifacts and three builds of a release, one artifact the same in all; two editors of a configuration |
| `events` | 245834 | two events in pages and batches of two, a queue of three, one crash, a retention that removes one event at any time: a log that loses nothing else, `EventLog`, and that every event is stored, and consumed unless it was removed |
| `commands` | 45957 | two commands that are alike, two crashes: digests, order, one verdict, `CommandContract`, and that every command ends |
| `session` | 596317 | a lost connection, a late answer, an exit of the process, an update: acknowledged is live, confirmed is live, the outcome holds, and every update ends |
| `enforcement` | 403295 | two sets of blocks, two generations, two revisions, both restarts: what is confirmed is in force, and the last decision comes into force |
| `traffic` | 250666 | two counters, two periods, four units, one plugin restart |

`CHECK_DEADLOCK FALSE` stands where the modelled system may come to rest: all
calls made, all events seen, the horizon reached.

Three more runs find what a document of the repository says violated by the code;
each is a finding of `PROJECT.json` with both places quoted.

| Run | What it shows |
| --- | --- |
| `period_midnight` | a daily period that ends at 23:00, on the eve of a day whose clocks go forward at midnight |
| `interval_hour` | an interval that ends an hour early, as the day it began on lacked the anchor's hour |
| `configuration_escapes` | a command made within all limits that cannot be decoded |

Smaller disagreements were met while modelling. Where a property is named, it
states the disagreement as the only exception, and so shows that there is no
other.

* Where the clocks repeat the hour at which periods begin, as a zone does that goes
  back from 01:00 to 00:00, `time.Date` takes the second one east of Greenwich, and in the
  hour before `CurrentPeriod` returns a period that has not begun. West of it it takes
  the first, which is harmless. `Regular` excludes both from the theorems on
  `PeriodRoll`.
* A UI request's limit "in bytes" is compared in UTF-16 code units
  (`ui/src/index.ts:201`).
* The digest a node plugin reports is not the author's
  `PluginConfigurationDigest` if the configuration holds `<`, `>`, `&`, U+2028 or
  U+2029 (`OnlyEscapesChangeDigest`).
* A valid subscription request with a name of ninety characters or more is
  answered with an internal error (`pluginfixture/plugin.go:189`), and so are
  more services than the response has room for (`CataloguedServicesRender`).
* A node's name may have 100 characters when it is registered
  (`agent/v1/register.go:71`) and 80 bytes when it is listed
  (`centerplugin/v1/validate.go:153`); and it may be updated to a version of up to
  128 characters which no hello takes beyond 64 (`RegisteredNodeServes`).
* A manifest may ask for any permission of the right form, a center knows five; a
  plugin ID of more than 119 characters leaves no room for an event kind of the
  plugin's own; and a node plugin may report any number of capabilities, its
  status event 64 (`InstalledPluginRuns`).
* 4096 policies are allowed in a snapshot, and 1648 of the shortest fit a
  command; 4096 counters and 16384 blocks are fewer than these policies may
  need; and amounts are unsigned in the policy and signed in the report
  (`SortedPoliciesApply`).
* The conformance command refuses a file of more than 1 MiB, where a host takes
  lists and batches of events that are longer (`ToolAgreesWithHost`).
* A status message may have 512 bytes and a problem's 500.
* `ReplaceServices` names no expected generation, as `ConfigureNodePlugin` does.
* A release may be accepted that was never whole: a directory that is being cleared
  for a build which makes the missing artifacts with the very same bytes.
  `AcceptedIsOneBuild` says that only such a one is, so what was accepted has the
  bytes of one build all the same.

### Why the bounds are enough

Three calls are the fewest in which one nests in another while a third is
answered. Three activations allow two to wait for the Host while the third is
installed. Four node generations hold a degrading, a good and a rejected
configuration and the good one again, the one case in which the digest is
already in place. Two events with pages and batches of
two, and a crash that queues a page twice, give four sequences, overlapping
batches and a queue of three that fills up; one of them taken away by retention
leaves the other to resume from. Of the two commands both have one
digest and differ in nothing but their ID, and one is built by
`NewPluginReconcileCommand` while the other keeps its payload as it is written.
Two revisions are an
older and a newer request of a kind; two blocked addresses make two sets of one
size. Four units of traffic and one restart let a counter pass its old value,
fall short of it, or meet it in the old epoch. The seven weeks of `contracts` contain the
changes of the clocks in New York, Sydney and Santiago, a leap day and the ends
of two months of different length.

In `contracts` sizes are the limits themselves and values below and above them.
`MCShapes` has every combination of kind, roles, requirements and permissions of
a manifest at one size, `MCSizes` every combination of sizes at one shape: no
check depends on both. `Shaped` leaves out contract files of more than 16 MiB,
four times what a message holds. The plugin IDs of `MCBindings` are `a`, `a-b` and
`a.b`, whose separators come before and after one another in the two orders that
could be compared. Three artifacts are the fewest with one that is read before,
one while and one after a build has changed it; two are programs, of which the third
build makes files of the first one's sizes, and the third is an archive that all
builds have in common. Two editors with three tries each overlap, conflict
and leave a late request behind.

In `session` one lost connection and one exit, besides the restart of the update,
make four connections, and a session that is superseded one more; all but the
last may still hold messages. An ID is drawn among those that nothing on its way
names (`FreshIds`), and a heartbeat waits for one; five are enough that none ever
waits, since the run has as many states without that guard.

### Fairness

* `UIBridge`: the code inside a call returns or throws, and an armed timer
  fires. Nothing is assumed of the host, which may be silent for ever.
* `CenterPlugin`, `MCContracts`: none; only safety is claimed of them.
* `ControlSession`: what has come is read, and the Agent reconnects, sends its
  heartbeats and its result, and gives up a session that is never answered, as
  `docs/agent-control-v1.md` has it do. Nothing makes the center issue an update,
  or a connection or a process fail, and both fail a bounded number of times.
* `NodePlugin`: handlers that were reached finish and the Agent goes on, which
  is the supervision `docs/node-plugin-v1.md` describes.
* `EventDelivery`, `CommandDelivery`: each side keeps trying (weak fairness) and what
  is sent for ever arrives at some time (strong fairness); crashes are bounded.
  Retention is not fair: it removes what it likes, when it likes, or nothing.
* `Enforcement`: the Agent sends what is not confirmed, and a plugin asked again
  and again applies it at last (strong fairness); restarts may go on for ever.

## Proofs

TLAPS proves the following for every value of the constants. A theorem in
brackets has no run of its own: its proof holds for every instance, and the runs
are kept for what needs them.

| Module | About | Theorems |
| --- | --- | --- |
| `UIBridgeProofs` | `UIBridge` | (`TypeCorrect`), `PendingMatchesPromises`, (`IdsAreUnique`), `AnswersMatchCalls`, `Refinement` of `CallContract` |
| `CenterPluginProofs` | `CenterPlugin` | (`TypeCorrect`), `NoConnectionLeaks`, (`HealthIsBacked`), (`CancellationIsReplacement`), `FailureIsHarmless` |
| | `EventPublication` | `NothingPublishedTwice`, `PublicationIsTrue` |
| `NodePluginProofs` | `NodePlugin` | (`TypeCorrect`), (`StatusesAreValid`), `ApplyIsAtomic`, `DegradesAfterOnePoll`, `AcknowledgedStaysActive` |
| `EnforcementProofs` | `Enforcement` | (`TypeCorrect`), `ConfirmationIsTrue`, (`NothingNewerInForce`) |
| | `TrafficLedger` | `LedgerIsExact`, `CenterFollowsLedger` |
| | `PolicyPath` | `PoliciesApply` |
| `ControlSessionProofs` | `ControlSession` | (`TypeCorrect`), `AcknowledgementIsTrue`, `ConfirmationIsSeen`, `StoredOutcomeHolds` |
| `CommandDeliveryProofs` | `CommandDelivery` | (`TypeCorrect`), `DigestsAlwaysAgree`, `OnlyEscapesMatter`, `HandlersRunInOrder`, `ContractIsKept`, the refinement of `CommandContract` |
| `EventDeliveryProofs` | `EventDelivery` | (`TypeCorrect`), `OnlyRetentionLoses`, `HopsAreOneLog`, the refinement of `EventLog` |
| `ContractsProofs` | `PluginRelease` | `VerifiedIsOneBuild` |
| | `NodeSettings` | `EditsAreKept` |
| | `ConfigurationPath`, `SubscriptionRender`, `NodePath`, `PluginPath`, `Conformance` | `AcceptedArrivesUnlessEscaped`, `CatalogRenders`, `RegisteredServes`, `InstalledRuns`, `ToolSpeaksForHost` |
| | `PeriodRoll` | (`CalendarTypeCorrect`), `PeriodsFollow`, `OneCalendar`, `PeriodsAreAccepted` |

For each module there is an inductive invariant, lemmas that it holds initially and
under each action, and the theorems as its consequences. Where two modules share
a proof module, each has a specification and an invariant of its own.

*UIBridge.* None of the invariants is inductive alone: removing an entry keeps
the map and the promises in step only if ids are unique and an entry has the id
of its call. `IInv` adds `EntriesOwned` (an entry belongs to a registered call
under its own id), `IdsIssued` (ids never exceed the counter, so the next one is
new) and `Progress` (what each phase says of id and outcome). The refinement
then maps every step to one of `CallContract` or to a stutter.

*CenterPlugin.* That every open connection has an owner holds only together
with where each activation stands and that the installed one has succeeded;
cancellation is tied to the connection the invocation has read.

*EventPublication.* Each event in the stream is that of a wish, under the ID that
its page gave, so two under one ID are the same event or in conflict, and of either
the Host appends no second; a "yes" that is on its way, or has been taken, is about an
event that is in the stream, and nothing ever leaves the stream. What
`PublishedOnce` says of the pages' IDs follows from the plugin passing them on.

*NodePlugin.* The four fields are those of one accepted request, or the initial
ones; the validity of every status follows, and the poll counter is at least
one whenever a status has been answered. A patient Agent's generations go one after
the other (`OneAtATime`), and the active one is the last of those that were applied
(`ActiveIsLast`), so no call that could replace it is still open.

*Enforcement.* An answer is taken long after it was given, and calls that were
given up on run in between. What keeps a confirmed request in force is that a
revision stands for one request, in every call and at the plugin, and that none
of these is newer than the last request: so nothing can replace it there.

*TrafficLedger.* What holds through samples, restarts and crashes is a balance:
the ledger's total and all that the counters still hold beyond their samples
never exceed the traffic there was, and equal it if nothing has restarted. A
sample moves what it counts from one side to the other. Each snapshot, wherever it
is, was the ledger's at its revision, so the center's copy is no more than what the
ledger has become. The sums are recursive functions; that each is defined, and what
it does when one term changes, is proved along the numbers up to which it
adds.

*PolicyPath.* The center sorts bindings by plugin and service, and the validator
compares keys, the two with a character 0 between them. `Before` is a strict
total order of strings, so there is an order to sort any bindings in (a last one is
found, and put after the others in their order), and sorted bindings that do not
repeat come one strictly before the next. Character 0 comes before each character of an ID, so
keys are then in the same order. Sorting repeats and drops nothing, hence adds no byte, so
the center and the Agent measure the same. The theorem covers the limit of 256
bindings too, which the run's three do not reach.

*ControlSession.* The argument is fencing. A hello is alone on its connection
until the center has taken it, so a session that replaces the Agent's own was
opened by an older hello that was late, and has nothing else (`Fenced`); whatever
older connections hold no longer counts when it comes. An acknowledgement on its
way is then about the last heartbeat and the one the center shows
(`AnsweredIsLive`), and once a candidate is confirmed no heartbeat of the old version
belongs to the session being served (`OldIsFenced`). A result on its way tells how the
update has ended, which never changes (`ResultsHold`).

*CommandDelivery.* Envelopes are never taken off the wire, so what each tells must
stay true: a payload is the command's, encoded, and every command before it has
its outcome or its time is over (`CommandsHold`); a result is the Agent's verdict, under
an ID that was drawn once (`ResultsHold`); an acknowledgement answers a result the
center has stored (`AcksHold`). With these each step of the two databases is a step
of `CommandContract`.

*EventDelivery.* What is kept, in the Agent's queue or in the center's database, is
one numbered log that nothing leaves (`KeptIsLog`); every batch ever sent is a part
of it (`BatchesAreKept`), the database is its beginning (`LedgerIsStart`) and the queue
its end (`QueueIsEnd`). A crash before the cursor is written queues a page twice and
keeps all of this. Behind the database only retention moves the center's cursor for
the plugin past an event that was not consumed (`RequestIsNext`). `Reach`, how many
of the node plugin's events are held without a gap, then only grows, as the log of
`EventLog` does.

*PluginRelease.* What the property lacks alone is that a directory which
was not whole when its manifest was read is being cleared for a later build
(`Ages`, `ManifestDescribes`), and until then has nothing of another build beside
the manifest (`OfManifest`). Hence an artifact that was missing then is of a later
build whenever it is there again, and the verifier, which goes through them one by
one (`Progress`), passes it only if that build has made the same bytes
(`MissingIsLater`). The theorem is about any bytes in common.

*NodeSettings.* A request keeps what it was made from however late it comes: the
configuration of the generation it expects, with its handler's edit. It is
configured only on that generation, so all that was there stays.

*The paths of documents.* The invariant says of a document what it is at the hop it
has come to, if it was not refused: how long it has become and which validators it
is past. That no later one refuses it is then arithmetic on the limits, and holds
for documents of any size, not the sizes the run has.

*PeriodRoll.* The run follows eight rules in five zones; the theorems are about any
rules and any zones. The argument is about wall-clock times. `time.Date` corrects its
guess only once, and still finds the instant of every wall-clock time that exists
once (`DateIs`), since transitions lie further apart than offsets do; and that instant
separates the instants whose clocks show less from those whose clocks do not
(`DateDivides`), though clocks go back in between. Each rule has a sequence of
boundaries, one for each integer and each later than the one before. Of days and
weeks that is plain; for months it rests on each having 28 to 31 days, from which
`MonthOf` has something to find; for intervals on the loop of `CurrentPeriod` going back
once at most. What a rule computes for an instant is then the one period of the sequence
that its wall-clock time lies in (`RuleIs`, `WithinIsIn`, `WithinOne`), so it is the same
for all instants of that period, and the next begins where it ends (`PeriodTiles`).
The invariant, `CalendarInv`, says that the Agent's period is that of some instant up to now.

All of it is under the hypothesis `Regular(policy)`: no change of the clocks skips or repeats
the hour at which the policy's periods begin. It is not there for the proof's sake. The
runs `period_midnight` and `interval_hour` are about policies that do not meet it, and
`PeriodsTile` fails of both. All policies of `contracts` meet it (TLC evaluates
`RegularAssumption`), three fifths of them in zones whose clocks change during the run.

### What the proofs assume

What the modules assume of their constants, all of it checked by TLC for the
instances. `NoCall` and `NoConn` are no calls and no connections; each invocation
has a method of the modelled kinds; sizes and bounds are natural numbers; no
configuration has the empty digest; an
envelope's ID is not `None`; no ID has the character 0 in it (`IDs`, as the patterns of
the code have it); a character has one to four bytes (`WideBytes`);
the offsets of a time zone are at most 16 hours and its transitions more than 32
hours apart (`IsZone`: real offsets stay below 16 hours, and no two transitions in two
days are known to us) and are whole hours, as all instants of the model are; an
authorization begins within the horizon of the run, which comes before the end that
stands for "never"; and what a command holds besides a configuration is at most 30000 bytes
(`MaximumOtherBytes`), since a download URL has at most 4096 bytes, each escaped in
at most six, and the other fields are shorter by far.

Each `TypeOK` says what the variables hold. Those of `UIBridge`, `CenterPlugin`,
`NodePlugin`, `Enforcement`, `ControlSession`, `CommandDelivery`, `EventDelivery`
and, for regular policies, `PeriodRoll` are theorems; those of the
others are parts of their invariants, or state the types for the reader.

### What is only model-checked

* Periods of particular policies that are not `Regular`. Nothing holds of all of
  these, as the two violations on periods show.
* All liveness (`EveryCallSettles`, `LastConfigurationActive`, `StoredAndConsumed`,
  `EveryCommandEnds`, `UpdateEnds`, `DecisionsInForce`): liveness under fairness and
  `ENABLED` are out of the prover's reach.
* The three violations, which are counterexamples of one instance each.

## Not modelled

* **Process start-up of the plugins, their sockets, exit codes and private listener.** They happen
  once, before the first call.
* **Field formats.** Patterns of identifiers, control characters, canonical
  addresses: checks of one field without state. Identifiers are model values.
* **Hash collisions and random ids that repeat.** A digest is its input, an id
  is fresh.
* **Download and signature check of an update**, intervals of heartbeats, and what
  the clocks of two sides say. They are the Agent's and the center's; here are
  the fields.
* **How one catalog of services replaces another.** The repository has the
  request's checks; nothing in it orders two of them.
* **Two clients on one transport.** The model has one, as the page template does.
* **The generated gRPC code**, and the contract plugin's `main`, which starts one of
  the fixtures.

* **What the center keeps of a registration**: spent tokens and the credential that is
  in force. `register.go` validates the two messages, and nothing in the repository
  decides what a late or repeated request does to an identity. The fields' limits are
  in `NodePath`.
* **How long events are retained.** `docs/center-plugin-v1.md:31` says that retention is
  limited, not by what; here it may end at any time. That a feature plugin is told of a
  gap is no message of the repository either.

## Plan

The order is by how much state and how many actors a part has.

1. *Done*: UI bridge, center plugin and node plugin with their proofs; periods;
   event delivery and durable commands with their abstract specifications;
   publication, rendering, configuration, enforcement, traffic.
2. *Done*: the control session with the update it carries; editing
   of a node's configuration; the release that is verified while it is built;
   manifests, node identities, policies, catalogs and contract files on their
   paths.
3. *Two UI clients* on one transport, as an instance of `UIBridge` twice.
4. *Session and commands*: `CommandDelivery` over the connections of
   `ControlSession` instead of a wire that loses and repeats.
5. *Done*: the proofs of `Enforcement`, `TrafficLedger`, `ControlSession`,
   `CommandDelivery`, `EventDelivery`, `EventPublication`, the patient Agent of
   `NodePlugin` and all the paths of documents.
6. *Done*: the proofs of `PeriodRoll`, for any rules and zones.
7. *Proofs that are left*: none of a safety property that a run checks. Liveness
   waits for a prover that handles it.
