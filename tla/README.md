# A verification project for OverlayKit

OverlayKit is a self-hosted overlay studio. Its server keeps two production
targets per Show, Preview and Program, publishes them to browser channels, and
lets hardware devices change them over an authenticated WebSocket protocol. This
directory holds TLA+ models of the server, of the device protocol and of the
clients that follow it, the TLC instances that check them, and TLAPS proofs about
the server's components from the production store to the catalog generations, and
about the overlay's socket. Paths below are relative to `src/server/src/` unless they
begin with `src/`.

## 1. Inventory

| Component | State | Operations | What is hard | What makes it correct |
|---|---|---|---|---|
| Production authority (`services/ProductionService.ts`) | per Show the Preview and Program snapshots, receipts of the last 100 operations of each kind, quarantine map, failed flag | loadPreview, take, applyPreviewControls, executeVisibilityIntent, executeCue, executeDeviceVisibilityCommand, recoverTarget, mountPersistence | a commit of unknown outcome, replays after receipts are lost, a cue cut short | memory, publication, answers and receipts never depart from what is durable |
| Production store (`services/SqliteProductionStateStore.ts`) | history, current rows, quarantines, command journal, command quarantines; in memory the heads and sequences | load, commit, quarantine, executeVisibilityCommand | damaged rows, death inside load(), journal capacity | every start accepts the file, quarantine leaves only by recovery, journal and history agree |
| Connection authority coordinator (`services/DeviceConnectionAuthorityCoordinator.ts`) | one slot per credential, a queue of transitions per credential, barriers (retired generations, revoked credentials, archived Shows, shutdown), expiry timers | connect, execute, retire, rotateCredential, revokeCredential, archiveShow, shutdown, expiry | awaits inside transitions, operations that outlast their transport, closes that fail | leases never overlap; a resolved barrier holds; every barrier ends |
| Transition ledger (`services/SqliteDeviceTransitionLedger.ts`) and session (`services/DeviceConnectionTransitionSession.ts`) | append-only hash-chained table and head; in memory the head, phases, checkpoints; per connection a phase | mount, startHostEpoch, append, stopHostEpoch; startNotReady, commitReady, checkpoint, quiesce, close | death between two records of one call, uncertain commits | every start accepts the table, closes what was left open, and the audit agrees with live sessions |
| Bootstrap readiness (`services/DeviceBootstrapReadinessCoordinator.ts`) | per target the attempt in flight, deadline, phase | start, acknowledge, notify, deadline | deadline outside the queue, snapshot stale between ack and grant | readiness only for snapshots that are current and acknowledged |
| Post-ready sync (`services/DevicePostReadySyncCoordinator.ts`) | per target base, attempt, epoch, requested changes, timers | notifyStateChanged, acknowledge, confirmation, resend, close | early and late acknowledgements, changes while a send is in flight | a target that answers ready holds the current state; a change is eventually delivered or the connection closed |
| Session runtime and snapshot issuer (`services/DeviceBootstrapSessionRuntime.ts`, `DeviceBootstrapSnapshotIssuer.ts`) | the two coordinators of a connection | hand-over from bootstrap to post-ready | production changes during the hand-over | no change is missed |
| Authority monitor and credential lifecycle (`services/DeviceConnectionAuthorityMonitor.ts`, `auth/ObservableDeviceCredentialLifecycle.ts`) | per lease the last confirmation, poll and staleness timers | monitor, confirm, poll, invalidate | a revalidation that answers late | an authority not confirmed for 10 s is not current |
| Command session (`services/DeviceWebSocketCommandSession.ts`) | one lane per target | execute a frame, refuse, sign the result | concurrent frames, evidence read before an await | one outcome per operation, admitted only on current evidence |
| Feedback sequences and catalog generations (`services/FileFeedbackSequenceStore.ts`, `FileCatalogGenerationStore.ts`) | a JSON file, a lock file, a counter | reserve, observe, close | death around rename, stale lock, integer exhaustion | a number is never given twice |
| Device gateway (`handlers/DeviceWebSocketGateway.ts`) | sockets, pending disposals | admit, frames, dispose, shutdown | disposals that end after shutdown | every admitted connection is retired and closed in the audit |
| Credential store, signing identity, event log, legacy migration (`auth/Sqlite*.ts`, `auth/LegacyDeviceCredentialFile.ts`) | credentials with generations, the key, the events | start, import, issue, rotate, revoke | death between any two steps of a start, a legacy file that comes back, a clock set back | the next start is accepted, a retired secret stays retired, the key never changes |
| Readiness registry and control routes (`services/DeviceTargetReadinessRegistry.ts`, `routes/deviceControl.ts`) | one entry per credential | lease, setReady, close; list, visibility, take | sessions that overlap; a Show archived or a credential revoked between awaits | readiness is the newest session's; a refusal means no effect |
| Frames and feedback (`src/protocol/src/`) | the device's replica of a target; the consumer's state of a control | admit, reduce, project | lost, repeated, reordered messages, concurrent verification, clock skew | the replica is a state production had; the newest admitted observation is shown, and not for long |
| Companion module (`src/companion/src/`) | the catalog it fetched | press, transport, projection | answers lost or garbled, retries | one outcome per press, each failure a typed result |
| Studio authentication and file storage (`auth/AuthService.ts`, `storage/FileStorage.ts`) | owner, sessions, output credential, JSON files | setup, login, rotateOutputToken, saves | concurrent saves, failed writes | memory and file agree |
| Browser channels (`handlers/websocket.ts`, `services/ChannelManager.ts`, `services/actionDispatcher.ts`, `services/sceneActivation.ts`) | subscribers, elements, variables per channel | subscribe, broadcast, scene changes | a subscriber between snapshot and broadcast; authority that ends under an open socket | a subscriber shows what the channel holds; outputs see only their Program |
| Overlay client (`src/client/src/modules/ws/WebSocketAdapter.ts`, `components/ProductionView.vue`, `store/`) | the socket, timers, tracked subscriptions, the view | connect, reconnect, disconnect, receive | events of a socket that was given up, a first attempt that fails | connected means subscribed; a page that left stays away |

How they interact. A device connects through the gateway, which authenticates
its token with the credential store, takes a lease of the authority monitor and
then of the coordinator. The transition session records the connection in the
ledger; bootstrap sends each target's snapshot and, when all are acknowledged,
commits readiness to the ledger; post-ready sync keeps the targets current from
then on. A command frame runs inside `coordinator.execute`, re-checks readiness
inside the store's transaction and changes production; ProductionService then
publishes to the browser channels and notifies the devices. Everything runs on
one JavaScript thread: a synchronous method is atomic, and interleaving happens
at awaits, timers and callbacks. Durable state changes in single SQLite
transactions of one file opened with an exclusive lock, so there is one host at
a time.

## 2. Modules

| Module | Models | Uses | Instances |
|---|---|---|---|
| `OperationJournal` | abstract: what a device is promised about its commands | | |
| `ProductionAuthority` | ProductionService over SqliteProductionStateStore, and the credential generation a command is checked against | | `MCProduction` |
| `ProductionJournal` | the refinement of `OperationJournal` by the store | `ProductionAuthority`, `OperationJournal` | `MCProduction` |
| `ProductionJournal_proofs` | the file the next start accepts, the memory that is its truth, history and command journal, that the store implements `OperationJournal`, and what is published, answered and answered again | `ProductionJournal` | |
| `DeviceConnectionAuthority` | the coordinator, with transports as the gateway's closeTransport settles them | | `MCConnections` |
| `DeviceConnectionAuthority_proofs` | leases that never overlap, barriers that hold | `DeviceConnectionAuthority` | |
| `DeviceTransitionLedger` | the ledger and the transition sessions that write it | | `MCAuthority` |
| `BootstrapReadiness` | the bootstrap coordinator, the session runtime's hand-over, the ledger's session and the registry around it | | `MCDeviceSession` |
| `PostReadySync` | the post-ready coordinator, the observer that feeds it, and a device that follows the protocol | | `MCDeviceSession` |
| `DeviceFrames` | the snapshot issuer's frames, their admission, reduction and projection by the device | | `MCProtocol` |
| `CommandSession` | the command session, its lanes, the lease, the HTTP route to the same journal | `OperationJournal` | `MCControl` |
| `DeviceControl` | the Companion's requests, the control routes, the readiness registry | | `MCControl` |
| `Routes` | the routes of a device's commands, side by side: the session, the HTTP routes with the Companion | `CommandSession`, `DeviceControl` | `MCControl` |
| `Routes_proofs` | answers and admissions, that both routes implement `OperationJournal`, what callers are told, whose readiness counts | `Routes` | |
| `DeviceGateway` | admission, composition, disposal and stop of the host | | `MCDeviceSession` |
| `DeviceSession` | the stations of a connection, side by side: gateway, bootstrap, synchronisation | `DeviceGateway`, `BootstrapReadiness`, `PostReadySync` | `MCDeviceSession` |
| `DeviceSession_proofs` | every connection is taken down, starts are authorized; the registry is current; readiness is current evidence | `DeviceSession` | |
| `AuthorityMonitor` | the observable lifecycle and one monitor session | | `MCAuthority` |
| `CredentialStore` | credential table, signing identity, event log, legacy import | | `MCAuthority` |
| `FeedbackSequences` | the sequence file, its lock and the feedback issuer | | `MCFiles` |
| `CatalogGenerations` | the generation file of an audience and the sessions that share it | | `MCFiles` |
| `ControlFeedback` | signed feedback of a control, its admission, reducer and two projections | | `MCProtocol` |
| `Protocol` | what crosses the wire to a device, side by side: feedback and frames | `ControlFeedback`, `DeviceFrames` | `MCProtocol` |
| `Protocol_proofs` | what a device shows as current and what a button shows | `Protocol` | |
| `StudioAuth` | owner, sessions and output credential over the file store | | `MCAuthority` |
| `Channels` | channels, the browser socket, routes and actions, and the overlay page's view | | `MCViews` |
| `OverlaySocket` | the overlay's WebSocket adapter and the page that uses it | | `MCViews` |
| `FileStorage` | the three JSON documents of the storage | | `MCFiles` |
| `Authorities` | who may act, side by side: ledger, credential file, monitor and owner, each with constants of its own | `DeviceTransitionLedger`, `CredentialStore`, `AuthorityMonitor`, `StudioAuth` | `MCAuthority` |
| `Authorities_proofs` | every table verifies, sessions are audited, earlier hosts are sealed; stale authority ends; the owner is final; the credential file stays usable and takes nobody back | `Authorities` | |
| `ServerFiles` | the files, side by side: catalog generations, feedback sequences, storage | `CatalogGenerations`, `FeedbackSequences`, `FileStorage` | `MCFiles` |
| `ServerFiles_proofs` | generations only grow and name one catalog; issued numbers are fresh; a quiet server loses nothing | `ServerFiles` | |
| `Views` | what an audience sees, side by side: the overlay's socket, the channels and pages | `OverlaySocket`, `Channels` | `MCViews` |
| `Views_proofs` | an open socket of a tracked page is subscribed; outputs are confined to their Program | `Views` | |

The modules fit together at the interfaces the code has. `CommandSession` and
`DeviceControl` treat the store's command as one step because
`ProductionAuthority` shows what that step is; the store and the command session
implement the same abstract journal. `DeviceGateway` treats the coordinator by what
`DeviceConnectionAuthority` establishes (a lease after the predecessor closed).
`DeviceFrames` and `PostReadySync` name a frame by its sequence because
`FeedbackSequences` shows that a sequence is never given twice.

**Side by side.** An MC module may hold several components, or one component at
several bounds; `Authorities`, `DeviceSession`, `ServerFiles`, `Views`, `Routes` and `Protocol` put
components together before their constants have values, so that the proofs speak of the same
properties as the runs. They share no variable. `part` is chosen at the start and says which
of them moves; the others stay in one initial state. The state space is therefore the
sum of the components' and not their product, and a property of one of them is
checked exactly as it would be alone.

**Run to completion.** Everything runs on one JavaScript thread. An action is the
code between two awaits. In the modules of the coordinators and sessions a timer, a
message or an I/O completion is only taken when no continuation is ready to run
(`Settled`, `Free`), as the event loop does; the order among ready continuations is
left open, which allows more than the microtask queue does. A production change is no
event of the loop: it continues the store's own promise. In `PostReadySync` it therefore
comes between any two steps of the coordinator, also while an acknowledgement, a timer's
task or the pump's own task waits in the queue, and the messages of one packet arrive
together, before any of their tasks (`Delivering`). The other side of it is that a
continuation the coordinator has already scheduled runs before the next task of the queue
does (`Runs`). `BootstrapReadiness` takes a change where the lane waits, or as the
grant commits, and any number of them at once (`Bursting`): there the change marks nothing
before its own task runs, so it matters only which task it is queued behind.

Operators whose comment begins with "Fault" are deliberate faults, placed
before the definition they distort. They are not part of any specification;
replacing the definition by its fault must make the property it is named for
fail.

### ProductionAuthority

`history`, `current`, `quarantine`, `commands`, `commandQuarantine` and
`credential` are the tables of the file; `shows`, `quarantines`, `heads`,
`globalSequence`, `commandSequence` and the receipts are the maps of the
process; `published` is what the channels received last. Every method of the
service and the store is synchronous, so each operation is one action, except
where the process can die in the middle with part of it durable: a cue commits
one transaction per step (`ExecuteCue`, `CueStep`, `CueFinish`), and a mount may
die after it persisted some quarantines (`MountInterrupted`). A commit has three
outcomes (`Outcomes`): committed, rolled back, or durable although the call
threw; `PublishCommittedSnapshot` and `AdoptCommit` are what service and store do
after each. `DamageRow` and `DamageCommand` change rows while the process is
down, as the code's own verification expects. A hash is the identity of what it
hashes, a snapshot is its scene, its hidden components and its variables, and an
operation that is refused changes nothing and is no action.

### DeviceConnectionAuthority

`queue[c]` is the promise chain and the count of transitions of credential `c`;
its first element may have begun, and its `stage` says which await it is at. The
stretch of code between two awaits is one action: `BeginConnect`,
`ResumeConnect` and `EndConnect` are the parts of connect's task; `StartClose`
and `EndClose` are closeSlot around its await; `BeginBarrier` and `EndBarrier` the
tasks of the other transitions. The synchronous part of a public method
(`Connect`, `Retire`, `RotateCredential`, ...) is an action of its own, because a
caller sees its effect before the task runs. `LoseWitness` is the currency
witness the gateway passes turning false. The clock never goes back.
`failures` remembers a barrier that threw while the connection it could not
close keeps its slot; it exists to state the properties. The gateway calls
connect, execute, retire and shutdown; rotation, revocation and archival are
public operations of the class and are modelled as such.

### DeviceTransitionLedger

`records` is the table; the head in `authority_metadata` is written in the same
transaction, so it is the table's length. Each append commits, rolls back, or is
durable although the call threw, after which the ledger is failed. A call that
appends several records (startHostEpoch, close of a ready connection) is one
action per record, and `job` says which call is under way, because the process can
die between two. `session` is the phase of the transition session, `fatal` that
the host was told to shut down.

### OperationJournal and its implementations

An operation identifier is decided once, applied exactly when the revision it
names is its target's at that moment, and a target's revision moves by one and
never back. In `ProductionJournal` the decisions are the rows of
`production_commands` and the revision is that of the last history record, so the
refinement says that no crash, refused or uncertain commit, quarantine or restart
drops, changes or repeats a decision. In `CommandSession` the journal is a variable
and the refinement says that lanes, sessions, retries and the HTTP route beside them
never get around it.

### BootstrapReadiness, PostReadySync, DeviceFrames

A coordinator is one record, its promise queue a sequence of tasks, and its
emission lane or pump a program counter; a task is one action. What production
holds for a target is a version number. `Budget` counts what the environment does
(changes, key rotations, failures, lost or wrong answers); nothing the
coordinator does is bounded. Two observations, neither a violation of what the
documents say: a change that races an acknowledgement makes the device refuse the reissued delta with
base_mismatch until its retries are spent and the connection is closed, which is
the fail-closed outcome ADR-0031 asks for; and a session disposed while onReady
awaits the ready message leaves its post-ready coordinator undisposed, with its
lease closed. `DeviceFrames` has the content: element trees, labels, authorized
controls. Its delivery is weaker than a WebSocket's (any order, repetition, loss).
Issuer, audience and sequence stand for a payload's SHA-256; the replay floor is
kept per issuer.

### DeviceGateway, AuthorityMonitor, CredentialStore

`DeviceGateway` has a place per handler (`adm`, `comp`, `disp`) for each connection
of one credential and `stop` for performShutdown; `Faults` names the composition
steps an instance lets throw. In `AuthorityMonitor` the source is an asynchronous
port that may answer late or never; the SQLite source is one of its behaviours. In
`CredentialStore` every transaction and file operation of a start is a step after
which the process may die or the call may fail, the legacy file may be put back by
hand, and the wall clock may be set back.

### FeedbackSequences, CatalogGenerations, FileStorage, StudioAuth

Four ways of writing a file, each modelled at the level of its system calls.
`stable` is the set of contents the disk may show after a power loss: a rename is
sure to survive one only after its directory was synchronised. `syncs` says whether
the host can synchronise directories (the code tolerates one that cannot), and `exposed`
that such a host lost power: freshness is promised of every other history. In
`CatalogGenerations` a confirmation whose await ended is a microtask: it goes on before
the next I/O call of any store ends (`Resumed`). `FileStorage`
writes in place: opening truncates, and the two steps run in the thread pool, so
two requests interleave; the copy of a legacy file is one step. `StudioAuth` has
one temporary path for all saves of a process, so two saves share an inode; a
restart is assumed to get the same process id, hence the same path. A password
derivation is one step, and so is the save of the first migration.

### Channels, OverlaySocket, ControlFeedback, DeviceControl

`Channels` has the overlay page's state as the fold of the messages it received.
Left out are the order of elements, the eviction of idle channels, the content of
sounds, and tenants, which only prefix keys. `OverlaySocket` has the browser's socket and
its events, including those of a socket the adapter gave up. In `ControlFeedback`
any envelope ever sent may be handed over at any time, `flaw` is the one admission
check an envelope fails, and a verification keeps the replay floor it was called
with; the server's clock is monotone. `DeviceControl` has one Show and one
component; that a session reports readiness is the session's own decision
(`PostReadySync`).

## 3. Runs

| Run | Instance | Properties | Shows |
|---|---|---|---|
| `production` | one Show, two scenes, two components, two operations, three history records; part `operators`: loads, takes, controls, intents, and cues of one and two steps that fail at either step; part `damage`: loads, takes and recoveries over damaged rows and starts that die half-way; part `devices`: two devices of two generations against one operator, a journal of two commands | StartupNeverAborts, MemoryIsDurableTruth, UsableCanCommit, PublishedIsCommitted, ReceiptsAreExact, JournalMatchesHistory, CommandGenerationsNeverGoBack, QuarantineLeavesByRecovery, ImplementsJournal | memory, publication, answers, receipts and journal never depart from what is durable, through every commit outcome, deaths and damaged rows |
| `take_once`, `fail_closed` | as production, one operation identifier | TakeAppliesOnce, CombinedAnswersFailClosed (violated) | findings 1, 2 |
| `connections` | two connections of one credential, one of each of two generations, of which the first expires, FairSpec | PredecessorsAreGone, BarriersHold, RevocationEnds | leases never overlap, resolved barriers hold, and a revocation ends whatever was queued before it |
| `shutdown_race` | as connections | ShutdownHolds (violated) | finding 3 |
| `device_session` | parts `gateway` (a connection and its replacement, two failing steps of six), `boot` (both targets, no retry, two events), `solo` (one target, one retry, two events), `both` (both targets after bootstrap, two events), `narrow` (one target, three events) | NothingOutlivesTheTransport, ClosedConnectionsEnd; RegistryIsCurrent, BootstrapEnds; EvidenceIsCurrent, Settles | what a device is granted is current, what it leaves is taken down, every stretch of its life ends |
| `unaffected_targets` | part `narrow` | UnaffectedTargetsKeepEvidence (violated) | finding 4 |
| `authority` | parts `ledger` (three hosts, two connections, eleven records), `store` (five events, one legacy credential), `monitor` (two owner requests, a clock of 4), `studio` (two people, one session, two requests, one crash, one failure) | HistoryVerifies, AuditMatchesSessions, EarlierConnectionsAreClosed; FileStaysUsable, NoResurrection; StalenessIsBounded; OwnerIsFinal | audits and credentials survive deaths between any two steps, no retired authority acts or comes back |
| `files` | parts `catalog` (two stores, two catalogs, three generations), `sequences` (two processes, two calls, two keys, one fault), `storage` (three kinds of document, two requests at once, four saves) | GenerationsNameOneCatalog; SequencesAreFresh; QuietFileIsTheCache | no generation or number means two things; when the file is what the server serves |
| `control` | parts `session` (two targets of which one is granted, two frames at once, HTTP beside them, three events) and `routes` (two calls at once, two leases, four events) | AnswersAreJournalled, AdmissionIsCurrent, ImplementsJournal; OutcomesAreTrue, DeadAuthorityDoesNothing, ReadinessBelongsToTheNewest | one outcome per operation, admitted on current evidence, what a repeated press is told, and what ends in time to stop a call |
| `views` | parts `socket` (five attempts as in the code, three drops), `changed` (a page on a channel, two requests of seven kinds), `shared` (two Shows, a page on Program, a socket that sends any frame, a rotation) | SubscriptionSurvives; PagesFollow, OutputsSeeOnlyTheirProgram | subscriptions come back, pages show what the server holds, and only what they may |
| `protocol` | parts `feedback` (three envelopes, two verifications at once, a clock behind or ahead), `lossy` (three revisions and sequences, a tree of three components), `timed` (skew 1), `rotated` (a new key and trust bundle) | FeedbackIsFaithful; ReplicaIsProduction, CurrentMeansRecent | a replica is a state production had, and what is shown as current was so recently |

Several properties are conjunctions; the modules state and name their parts:

- ReceiptsAreExact: receipts of visibility, takes and cues, the contiguity of a cue's
  steps, and the truth of answers; JournalMatchesHistory also holds that the journal
  stays within its capacity and that only damage quarantines a command.
- HistoryVerifies also holds that stops are clean, AuditMatchesSessions that the
  ledger's memory is its table; EvidenceIsCurrent, RegistryIsCurrent and
  NothingOutlivesTheTransport are described at their definitions.
- FileStaysUsable is that the next start is accepted and the event log tells only what
  happened; NoResurrection also that the signing key is stable; StalenessIsBounded
  also that a mutation answered to the owner has been seen; OwnerIsFinal also that
  sessions are the owner's and outputs hold the credential.
- SequencesAreFresh is freshness, durability before use, and that a later number is
  never an older snapshot; GenerationsNameOneCatalog also that the current
  generation is durable.
- OutcomesAreTrue is one outcome per operation and no effect of a refusal;
  DeadAuthorityDoesNothing keeps, with each call, whether the credential or the Show
  ended before the route's last look at it; AnswersAreJournalled also holds that a lane
  has one new command in flight.
- PagesFollow has a part for channels and a part for production targets;
  OutputsSeeOnlyTheirProgram also that both sides agree on subscriptions;
  SubscriptionSurvives also that one heartbeat runs at most.
- FeedbackIsFaithful: a consumer takes only its own feedback, the newest admitted
  observation wins, failures are shown, and what is shown was true recently;
  ReplicaIsProduction also that the base the server keeps is what the device holds.

Bounds. `MaxHistory` 3 is enough for a commit, damage or a recovery, and a
commit after it; for a cue of two steps after a load; and for two takes.
`MaxOperations` 1 makes a receipt's eviction happen at the second operation (100
in the code). The command limits of 2 are reached and refused. `MaxQueue` 2 lets
a transition wait behind one that awaits; expiry tasks are queued beyond the
bound, so a third waits too. Two connections are what a replacement needs, and a
credential's queue, slot and barriers are not shared with another credential's,
so one credential and one Show are enough except for archival and shutdown, which
loop over them independently. `MaxTime` 1 separates before and after an expiry.
`MaxEpochs` 3 lets a host die while it closes what an earlier dead host left.
`MaxRecords` bounds what callers add; the records of a start are always allowed to
finish. A `Budget` of events is shared by all kinds of events of the environment, so
each pair, and where it is larger each triple, happens in every order. `MaxRetries` 1
reaches the last retry and the close after it; 0 in part `boot` makes the first
failure the last, and part `solo` has the retry. Two processes, stores or sessions
are a predecessor and a successor. `MaxSequence` 3 and `MaxGeneration` 3 stand for
MAX_SAFE_INTEGER and are reached. Two requests at once are what an interleaving of
writes needs; a third repeats the same steps. Symmetry is used in `production`,
`authority` and `files`, which check no liveness.

Deadlock is checked in `production` and `connections`, where the system cannot stop.
Elsewhere a budget runs out, or a host, page or session may end for good, and the
configuration says CHECK_DEADLOCK FALSE.

Fairness is weak fairness of what the event loop runs once it is ready: promise
continuations, armed timers at their deadline, closes and I/O calls that settle.
closeTransport terminates a socket after a timeout, and a send has its own timer. In
`DeviceConnectionAuthority` it is part of `FairSpec`, which `connections` checks. In
`DeviceGateway`, `BootstrapReadiness` and `PostReadySync` it is the hypothesis of
the liveness property (`Fairness => ...`), because only one part of the instance moves. In
`PostReadySync` the device answers and the connection carries what was sent, except for
the events the budget pays for, and the acknowledgement timer covers those. In
`BootstrapReadiness` nothing is assumed of the device or of a send: the deadline
alone ends it. Calls, changes, faults and the clock elsewhere are not fair.

## 4. Proofs

Every theorem is about the specification the runs check, with every action at once
(the parts of a run separate them), for every value of the constants that satisfies
the named assumptions. Each rests on an inductive invariant, with one lemma per action
or group of actions that preserves it.

| Module | Theorem | States |
|---|---|---|
| `ProductionJournal_proofs` | `AuthorityInvariant`, `TypeCorrect` | the invariant, the shapes of tables and maps |
| | `StartSucceeds`, `MemoryIsTruth`, `NextCommitIsAdmitted` | StartupNeverAborts, MemoryIsDurableTruth, UsableCanCommit |
| | `StoreImplementsJournal` | ImplementsJournal, the refinement of `OperationJournal` |
| | `QuarantineEndsByRecovery` | QuarantineLeavesByRecovery, an action property |
| | `JournalInvariant`, `JournalAndHistoryAgree`, `GenerationsNeverGoBack` | JournalMatchesHistory, CommandGenerationsNeverGoBack |
| | `ServiceInvariant`, `PublicationFollowsCommit`, `ReplaysAreExact` | PublishedIsCommitted, ReceiptsAreExact |
| `DeviceConnectionAuthority_proofs` | `ConnectionInvariant`, `LeasesNeverOverlap`, `ResolvedBarriersHold` | PredecessorsAreGone, BarriersHold |
| `Authorities_proofs` | `LedgerInvariant`, `EveryTableVerifies`, `SessionsAreAudited`, `EarlierHostsAreSealed` | HistoryVerifies, AuditMatchesSessions, EarlierConnectionsAreClosed |
| | `StaleAuthorityEnds`, `TheOwnerIsFinal` | StalenessIsBounded, OwnerIsFinal |
| | `TheNextStartIsAdmitted`, `NothingIsResurrected` | FileStaysUsable, NoResurrection (an action property) |
| `Routes_proofs` | `CommandInvariant`, `AnswersAreTheJournals` | AnswersAreJournalled |
| | `RoutesImplementJournal`, `AdmissionsAreCurrent` | ImplementsJournal, AdmissionIsCurrent (action properties) |
| | `CallersAreToldTheTruth`, `DeadAuthoritiesArePowerless` | OutcomesAreTrue, DeadAuthorityDoesNothing |
| | `TheNewestSessionIsHeard` | ReadinessBelongsToTheNewest |
| `DeviceSession_proofs` | `GatewayInvariant`, `EveryConnectionIsTakenDown` | NothingOutlivesTheTransport |
| | `BootInvariant`, `RegistryStaysCurrent` | RegistryIsCurrent |
| | `SyncInvariant`, `EvidenceStaysCurrent` | EvidenceIsCurrent |
| `ServerFiles_proofs` | `OlderCatalogsStayOld` | GenerationsNameOneCatalog |
| | `IssuedNumbersAreFresh`, `QuietServersLoseNothing` | SequencesAreFresh, QuietFileIsTheCache |
| `Views_proofs` | `ReconnectsResubscribe`, `OutputsAreConfined` | SubscriptionSurvives, OutputsSeeOnlyTheirProgram |
| | `PagesFollowTheServer` | PagesFollow |
| `Protocol_proofs` | `CurrentWasProduction`, `ButtonsAreFaithful` | CurrentMeansRecent, FeedbackIsFaithful |
| | `DeviceHoldsProduction` | ReplicaIsProduction |

**Production authority.** `AuthorityInv` is `TypeOK /\ HeadsExist /\
StartupNeverAborts /\ MemoryIsDurableTruth /\ UsableCanCommit`. None of the last three
is inductive alone: that the memory after a commit is the truth needs the head the
store kept to be the table's (`UsableCanCommit`), that head is well chosen only if the
history is contiguous (`StartupNeverAborts`), and the history stays contiguous only if
the revision a commit writes, taken from memory, is the head's plus one
(`MemoryIsDurableTruth`). `HeadsExist` says that every target has a last record or
none, which makes the CHOOSE of the head determined; for sequences of any length it has
to be carried as an invariant.

**Journal.** Every step of the file is one of few (`OperatorCommit`, the decision of a
device's command, a quarantine, nothing), and the lemmas per action say which. The
refinement follows: a row of the journal is a decision, and the revision of a target
moves only where the abstract journal lets it. For the agreement of journal and history,
`JournalInv` adds `RevisionsIncrease`, that the records of one target have growing
revisions: only then does a row find the one record it wrote, and can no other record
name the revision a later row is decided on.

**Receipts.** `ServiceInv` restates what receipts, answers and publications say as
predicates of an arbitrary history (`VisibilityReceiptsHold` and the like), proves that
a longer history preserves them (`Extends`), and that what a commit adds meets them. A
cue in progress carries its own invariant, because its steps are committed one by one
while receipts speak of the whole.

**Connections.** A barrier resolves when its transition ended. `BarrierInv` says of a
slot that a barrier blocks that the transition that will close it is still in the queue,
or was reported as failed; `TasksFit` that only the first transition of a queue has begun
and that no connection waits twice; `ConnInv` that only the holder of the slot runs
anything.

**Ledger.** `FileInv` speaks of the table alone, whoever reads it: it verifies, a stopped
host left nothing open, and a connection is open only under a host that was not sealed.
`HostInv` and `SessionInv` say what the host and its sessions add between two records of
one call, and `EarlierInv` is the last property.

**Commands.** The refinement needs that a command is decided on a revision the target
really had, hence `Paid`: each advance was an event of the environment that the budget
counts, with the commands under way. `FrameInv` ties an answer to its row, and a new
command to its target's lane.

**HTTP routes.** `OutcomeInv` says of every call under way that an outcome it carries is
the journal's and that its caller still waits or was told "unknown" (`CallsInv`), and of
every effect that its caller knows of it, is about to be told, or was told nothing
(`Knows`): a refusal is told only of what had no effect. That no dead authority has one
rests on `CallAuthority`: a call that is past its credential check began under a living
credential and was not outlived by it, because a token that was replaced and a
credential that was revoked do not come back; and one that is past the look at the
Show found it live, and an archived Show does not come back either. What ends after
the last look at it is no longer seen: the code does not look again.

**Readiness.** The property is inductive with the shapes (`RegistryInv`): a lease that was
replaced owns no entry, and its late reports and its release find another owner.

**Gateway.** `GatewayInv` says of each connection what its admission, socket, composition,
generation marker and disposal allow each other (`Admission`, `Sockets`, `Order`,
`Marker`, `Disposed`); the property is `Disposed` at the end of a life.

**Bootstrap.** `BootInv` has four parts. `LaneShape` is the single thread: what comes from
outside is alone in the queue, the lane's own task is its last, and while the lane runs the
queue is empty; without it a task could find the lane where the code never leaves it.
`WireOrder` orders snapshots by number on every way they take, so that an answer says what
the device has handled. `StandsAt` is about one target: the snapshot awaited is the last one
made for it (`Latest`), or one is being made that is refused if the target changes meanwhile
(`Unspoiled`). `GrantInv` and `RegistryInv` take over at the grant: when every target is
confirmed and acknowledged, `Latest` leaves nothing on the wire, so what the device shows
stays what production had at the check, while the ready message is awaited and any number
of changes come; the targets they made stale are the ones the mount leaves out. A
disposal that finds nothing mounted has an abort queued until the registry is empty
(`Aborting`). None of it is needed once the connection is closed, except `RegistryInv`.

**Synchronisation.** `SyncInv` has the same thread, with changes that are queued at any
moment: `QueueShape` says that what else comes from outside finds the pump waiting, that
timers and disposals are alone, and that only changes follow the pump's own task. The order
is the same (`NumbersInv`), with deltas: a frame's base is below it, and the base the server believes in
is a frame the device applied (`BasesInv`). Per target and while the connection is ready,
`Stage` says which of five places the pending frame is in (confirmed, to be resent, about to
be, at the gate, in flight) and that exactly one of pump, work list and timer will see
to it; `Pending` that nothing newer of the target was ever made; `Fresh` that a
snapshot under way is refused by its epoch if the target changed. `Versions` is for the
acknowledgement that runs before the change queued behind it: what is pending or being
made is at most what production holds, and is less once a change of its target waits in
the queue, so that `IsCurrent` refuses it. `Current` is the
property with what it needs to survive: while nobody requests a target, nothing of it is on
the wire beyond its base, no notice of it is queued, and neither pump nor work list has it.
`Timers` is needed because a confirmation timer withdraws evidence and starts a new
snapshot: it must be the last one set, and never fire into work under way. The proof
attempt showed that the model named a foreign answer (a number and hash of no
frame) by a number outside the naturals, which left out a foreign hash under a number that
was issued, is in flight or is the next; `ProcessAck` and `StrayAnswer` now have all of these.

**Monitor.** `MonitorInv` bounds the confirmation a live session has by what the last read
that answered can have seen (`ReadInv`), and a mutation that is being answered by what
the session was told (`OperationInv`).

**Overlay socket.** `SocketInv` relates the adapter's state to the browser's socket, the
timer and the heartbeat, which are three objects the code keeps in step by hand.

**Catalog generations.** Where directories are synchronised, everything a power loss may
show is at least the last confirmed token (`ShownInv`). `Ordered` says that what is
durable, what the file has, what waits to be written and what is current only grow, with
equal generations being equal tokens; `Control` that jobs are queued in the order of a
store's life, so that a store writes only while it holds the marker. The proof attempt
found the model too weak: with one confirmation at a time, a confirmation could be left
over from a store that had closed. In the code the continuation of a confirmation is a
microtask and runs before any other I/O ends. The model now has any number of
confirmations and that order.

**Feedback sequences.** The numbers given to a call are an interval (`first`, `count`), so
freshness is about intervals: `FreshInv` keeps them disjoint, and below what the file
holds and, where directories are synchronised, below everything a power loss may show.
That rests on `ProcInv`: a store is ready only while it holds the marker, hence there is
one, and its memory is the file, up to the numbers of the call between rename and sync.
`QueueInv` is what makes later numbers of a process carry no older state: calls enter
`exclusive` in the order of the production revisions they project, behind every call
the process has answered.

**File storage.** The code does not serialize writes, and the property is about histories
in which none overlapped (`raced`). `AloneInv` says that then at most one request writes,
and one text; `SettledInv` that once no change waits for its directory, this text is the
cache, or the cache is what the file reads back as.

**Owner.** `StudioInv` follows one owner through the save's system calls. `JobsInv` says
that every request under way saves for the owner in memory and that the setup is the only
one while `busy`; `OwnedInv` that what is being written, or was renamed, makes that owner
if it can be loaded at all: a blank or torn file loads for nobody and therefore makes
nobody else. That the writer opens an inode no path names is counted: there
are more inodes than paths and open descriptors.

**Credential file.** `StoreInv` says of the file that an import found an empty table and
that a legacy file nobody touched is absent or the one that was imported
(`CredentialFileInv`); of the operation under way that the record it read is still the
table's (`OperationUnderWay`), which is what excludes a resurrection across awaits; and of the
log that its events are behind the table and of growing generations (`LogInv`).

**Outputs.** `SubscriptionInv` adds to the property only the shapes: the property names
both books, the manager's subscribers and the connection's own set, and is inductive
because each handler changes both in one step (`Books`) and gives a connection the access
of a Show only with that Program or with nothing (`Turns`). An access that is still
pending owns no subscription to take over.

**Pages.** What a page settles on is a fold over its inbox. No induction over inboxes is
needed: `Arrives` says with a witness, the sequence of views on the way, at which view a
page arrives, and three lemmas say what it becomes when a message is sent
(`ArrivesAppend`), received (`ArrivesTail`) or none is left. `PageInv` states the property
of that view, and that a page on a channel shows and awaits nothing before it
subscribes: the confirmation is merged into what is shown, so it must be the first message.
`Carries` is the obligation of one request: whoever showed the channel before its messages
shows its new state after them. It is proved for every kind of request and deploy but one,
the activation of a stored scene (section 5), and `PagesFollowTheServer` has the hypothesis
`NoStored` that nobody asks for it where a page is on a channel. `SocketsInv` says
why such a page keeps its subscription while its connection lasts: its session lives,
so no frame of it is unauthenticated, and it is never an output, so no rotation
closes it. Elements have to be kept by their ids (`HasMaps`) for a confirmation to yield
them exactly.

**Frames.** `Dated` says that the time in a captured state, in a frame made from it and in
what the device reduced from it is one at which production held the revision they carry:
no earlier than that revision's commit, no later than the next one's. `FramesInv`
carries it from the capture to every copy on the wire and to the device, across changes
of production, rotations of the key and the passing of time. What a device shows as
current is therefore dated, and the projection adds that the date is less than the
timeout old by the device's clock.

**Replica.** `ReplicaInv` names one state per frame identity (`Names`). Whatever carries an
identity, the device, what the server sent or was acknowledged, or the next frame's base,
has the state it names, and every message leads to the state of its own identity from that
of its base. Each such state `HoldsProduction`: it is the authorized controls of the
revision it carries, each with a revision at which it already had its value, of `past`,
to which production only adds. So a delta whose base identity is the one the device
holds is applied to what the server made it against (`DeltaHolds`); a bootstrap needs no
base (`BootstrapHolds`). What the device makes of the parts comes from `IndexComponents`,
which walks the element tree: `ActiveIsDisplayed` shows that an element is active when it
and everything above it is displayed, by the witness of the recursion and a minimal
counterexample, which exists because the trees are nested.

**Feedback.** `Genuine` says of an observation sent without a flaw that the control had its
value at its time, and every earlier revision before; hence revisions and times of
admitted observations agree (`RevisionsAreInTime`), although admission reorders them.
With that the reducer keeps the newest observation (`HoldsNewest`) and the failures no
observation outlives (`HoldsFailures`), by one lemma about the fold of one event
(`ReducingKeeps`). The Companion's projection looks for the newest observation in a list;
`OneIsLatest` says there is one, and is carried as an invariant because lists grow.

**Assumptions.** Limits and bounds are naturals (positive where the code has them
positive); scenes, cues and device intents have their declared shapes; null, "not a
connection" and the like are no values of other kinds (`NoneDistinct`, `NoneIsNothing`,
`NoneIsNoConn`); an operator's operation identifier is not a device's, whose journal keys
are prefixed by the principal (`DeviceOpsDistinct`); a granted target is a target
(`TargetsAssumption`), and targets are Preview and Program (`DeviceSessionAssumption`);
jobs of a store are no calls (`SequenceAssumption`); "pending" and "studio" are no
Shows, and a scene's elements are kept by their ids (`ChannelAssumption`); the elements
of a tree are nested, and there is a first signing key (`FramesAssumption`); foreign
envelopes have a flaw the admission knows (`FlawsAssumption`); finitely many requests
are under way (`AuthAssumption`); the poll interval is less than the staleness bound
(`MonitorAssumption`). TLC evaluates each of them on the instances.

**Only model-checked.** Liveness (RevocationEnds, ClosedConnectionsEnd, Settles,
BootstrapEnds): the prover handles neither fairness nor ENABLED. Every safety property
and action property that the runs find to hold is also proved, PagesFollow under the
hypothesis `NoStored`.

## 5. Findings

1. `take_once`: a take's receipt lives in memory, for 100 operations. The same
   operation id with the same Preview revision promotes again after a restart or an
   eviction, where ADR-0005 says a replay does not apply twice. Device commands, whose
   journal is durable, do not have this (`ImplementsJournal`).
2. `fail_closed`: operations on one target answer with both, and show a quarantined
   sibling as empty at revision 0, where ADR-0029 says such a projection fails
   closed. getState does.
3. `shutdown_race`: a connect that awaits the close of the connection it replaces
   while shutdown() is called installs an effective connection after the shutdown
   resolved: the re-check after the await covers the barriers and the witness but
   not `accepting`. The gateway's shutdown closes every transport too, which
   bounds the effect.
4. `unaffected_targets`: with an unchanged catalog, a change of a target outside the
   credential's own is handed to the session's coordinator, which rejects it, and
   the connection is closed although its own target did not change (ADR-0031:
   unaffected targets retain their state).

Also observed while modelling. No run checks these: the documents are silent about
them, or say something weaker.

- observeCurrentProductionState throwing during the composition of a session leaves
  the audience's catalog marker behind in a running process, and later connections of the
  credential are refused; a graceful stop during a composition leaves it too. The
  documents accept orphaned markers after abrupt termination.
- Two overlapping output-token rotations may leave memory and file with different
  tokens; after a restart the one that was replaced authenticates.
- A scene swap replaces the variables on the server, and the overlay merges what it
  receives and keeps the old ones; the confirmation after a reconnect adds elements
  and removes none. `PagesFollow` states what does hold.
- The activation of a stored scene (POST /scenes/:sceneId/activate) adds its elements
  to the channel's unless asked to clear, and keeps the channel's orientation; the message
  carries the scene, and the overlay shows only its elements, in its orientation.
- The close event of a deliberate disconnect schedules a reconnect; and when the
  first connect fails, the reconnect that succeeds has nothing tracked to subscribe to.
- Of two observations of one revision the Companion keeps the one listed last, the
  protocol the newer one; and an answer that is the JSON text null makes the
  Companion's transport throw.
- A collection's write that fails is logged and answered as a success; after a
  restart the same revision is given again.

## 6. Plan

Models that could still be joined: `DeviceGateway` with `DeviceConnectionAuthority` in
one instance, instead of the coordinator's guarantee; `BootstrapReadiness` with the whole of
`PostReadySync`, whose product is beyond TLC at useful bounds.

## 7. Not modelled

Cryptography (digests, signatures, key formats) is outside what these tools can say;
models treat a hash as what it hashes and a signature as a verdict. Schema
validation, canonical encoding, HTTP parsing and the thin routes over
ProductionService are abstracted to their verdict or left out. The Studio, editor,
panel and landing interfaces, the visual protocol, compiler and target, and the
governance and installation scripts hold no concurrent or durable state of the
running server. `PROJECT.json` lists every component with its status, and every
hazard with the properties that cover it.
