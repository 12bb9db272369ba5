# VaultKern in TLA+

VaultKern is a KeePass-compatible password manager: a Rust runtime that opens,
edits, saves and synchronizes KDBX vaults, and front ends that drive it (a
Windows desktop application, a browser extension through a native host, mobile
bindings).  This directory models the parts of it whose correctness depends on
the order of steps (crashes, power losses, lost answers, other processes and
other devices), and the document a vault is kept in: how it is read, edited,
merged and written.  `PROJECT.json` maps every definition to the lines it models.

Paths below are relative to the repository (`src/`); "runtime" is
`tools/vaultkern-runtime/src`.

## The system

| Component | State | Operations | Hard because of |
|---|---|---|---|
| Remote vault cache (runtime `providers/remote_cache.rs`) | per cache key: a manifest, immutable generation files, a retirement marker, a lock file | write, pending save, completion, pending autofill save and its completion, retire, delete, activate | process death and power loss between file operations, several processes, replayed calls, older layouts |
| OneDrive vaults (runtime `runtime.rs`, `providers/onedrive.rs`) | `LoadedVault` per session, the cache, the conflict-copy receipt, the file on OneDrive | load, save, retry, refresh, adopt, publish a conflict copy, lock, unlock | ETag races with other devices, lost and late answers, two runtimes sharing a cache, other programs |
| Local vaults (runtime `providers/local_file.rs`, `sync.rs`) | the vault file, backup, recovery candidate, bases | save, conflict copy, rollback | another program writing the file, crashes around a rename |
| Durable files (runtime `providers/durable_file.rs`) | temp, target, lock | verified temp, publish, synchronize | which failures leave what behind |
| Vault references (runtime `vault_reference_store.rs`) | the list of vaults, the journal of cleanups | add, select, delete, reconcile | a crash between a deletion and the retirement of its caches |
| Three-way patch (`crates/vaultkern-model/src/three_way_patch.rs`) | none | `three_way_field_patch` | field, tree and history conflicts |
| Autofill persistence (runtime `autofill_persist.rs`) | operation receipts, pending chain | plan, persist, replay | retried mutations, lost answers |
| Passkeys (runtime `passkey.rs`, `runtime.rs`) | ceremony ledger, platform operations, registration rollback | register, verify, advance, abort, commit | cancellation and locking in the middle, expiry |
| Unlocking (runtime `unlock.rs`, `providers/secure_storage.rs`, `biometric.rs`) | stored credentials, policy gate | enrol, quick unlock, disable, reconcile | a policy change during a prompt |
| Command loop and IPC (runtime `command_loop.rs`, `resident_ipc*`, `protocol_session.rs`) | connection slots, in-flight command | dispatch, cancel, hand off, shut down | threads, disconnections |
| Desktop bridge (`apps/windows/src-tauri/src`, `packages/runtime-web-client`) | operation and save receipts, unsaved vaults, plugin operations | mutations and their repetition, preflight, idle lock, plugin operations | lost answers, late requests, two front ends and the plugin on one runtime |
| KDBX files (`crates/vaultkern-kdbx`) | the bytes; for a loaded vault a record of the nodes it came from | read, inspect, derive the key, save | files of other programs, three versions, order of the key stream, data this program does not know |
| Core (`crates/vaultkern-core`, `crates/vaultkern-model`) | a vault: groups, entries, histories, tombstones, meta data | edits of entries, groups, settings | each edit has to keep the record of nodes in step with the contents |
| OneDrive account (runtime `providers/onedrive_token_store.rs`, `onedrive.rs`) | the token file, its backup, a token in each process | login, rotation, load, publish | several processes and one rotating token, half done replacements |
| Extension (`apps/browser-extension/src`) | pending submissions, WebAuthn requests, native port | store, claim, execute, proxy | a service worker that is stopped at any time, several tabs |
| Crypto, bindings, UI, installer | - | pure conversions and rendering | - |

The runtime calls the providers; OneDrive saves go to the source first and to
the cache's pending slot when the source cannot be reached; everything that
must survive a crash goes through the durable files.  The properties that make
each part correct are the ones the runs below check for the modelled parts;
for the others the plan names them.  A command of the extension goes through the
native messaging host to the runtime itself or, on Windows, over a pipe to the
resident application, whose one worker thread executes the commands of both front
ends and of the passkey plugin.

## Modules

### RemoteCache, PendingSlot, RemoteCacheProofs

`RemoteCache` is one cache key.  All calls take the key's exclusive file lock,
so one variable `txn` holds the transaction in flight; its `stage` is how far it
got.  `manifest` is the file a reader sees and `exposed` the set of manifests
a power loss may leave instead (everything written since the last directory
synchronization), `gens` are the generation files, `unsynced` those whose
directory entry may be lost.  A byte string is identified with its SHA-256.
`IsAuthorized` is the authorization block of `write_with_source_context_locked`,
`IsReplay` its recognition of calls that already took effect, `NextManifest`
the manifest it builds; `EnsureGeneration`, `ReplaceManifest`, `SyncManifest`,
`RestoreManifest` and `OutcomeUnknown` are the steps of `ensure_generation` and
`publish_manifest` with their failures, and `BeginRetirement` ... `PurgeFiles`
the deletion of a cache.  `ProcessDies`, `PowerLoss` and `DamageFile` are the
environment.  `owed` is a history variable: the contents one of which must
still be found because a pending save was acknowledged and is not resolved.

The cache is found empty, committed, or as an earlier release left it
(`InitialManifests`): the version-1 pair, pending or not, and the version-2 manifest
with or without a previous generation, whose generations have no kind ("Unset").
Two things the code does with them are stated in the properties and listed under
Divergence: a damaged pair is removed without a look at its pending flag
(`PairIsDamaged`), and a manifest that keeps an old previous generation is refused by
its own schema (`CarriesOldGeneration`).

`PendingSlot` is what the cache promises to the runtime: a slot changed by
compare-and-swap that a pending save leaves only through a call that names it, or, if
it is a pair whose bytes are `lost`, by removal.
`RemoteCache` implements it (`ImplementsPendingSlot`) under the mapping `SlotOf`.

### OneDriveSync, OneDriveSyncProofs

Several runtimes (`Proc`) on several devices.  A vault is the set of edits it
reflects; bytes are a vault, who wrote them (this program, another one, or one
that changed the key) and a serial number, because serializing draws fresh
randomness and equal vaults have different bytes.  The bytes of the file also
stand for its ETag.  `cache[d]` is the slot of `PendingSlot` (plus the observed
source generation and the ETag), `receipt[d]` the conflict-copy receipt,
`sess[p]` the `LoadedVault` and `job[p]` the call in progress.  A call is a
sequence of steps that end at each request to the source and at each lock, so
that everything another runtime, another device or another program can do in
between is explored: `BeginSave`, `BeginRetry` and `BeginLoad` run up to the
first request, `StateKnown`/`StateFails` answer `remote_state`,
`ReadHead`/`ReadFails` the download, `Push`/`PushUnknown` the conditional PUT,
`Readback` resolves an unknown outcome, `Commit` and `Install` install the
result, `PublishReceipt`, `UploadCopy` and `Fallback` publish conflict copies,
`PushPending` uploads a pending save with the cache lock held.  `LateArrives` is
a PUT that was given up on and reaches OneDrive later; `ForeignWrite` another
program.

An edit is settled (`Settled`) once another program took it out of the file or a
conflict copy holds it.  `PushKeepsHead` and `BaseIsAncestor` leave settled edits
out, because the code does: with three runtimes and three faults, an edit
that another program removed comes back with the retry of a device that
was away, and a session that has it in its base but not in its vault then takes it out
again, as the patch must take any edit of the base that the local side lacks for one it
undid.  The runs are too small for this; the proof found it.

### LocalSave, LocalSaveProofs

A local vault saved by several runtimes (`Proc`) while other programs write the
same file.  `dir` maps names to files: the vault, the sibling each save keeps
(the backup; `ReplaceFileW`'s copy on windows) and the one its rollback keeps.
A file is an inode, the edits its bytes hold and a stamp that tells
serializations apart.  As in `RemoteCache`, `expo` holds the directories a power
loss may leave.  `job[p]` is a save: `BeginSave` is `save_vault` up to
`write_local_source` (the fingerprint compared without the lock), `BeginWrite`
takes the lock and opens the generation, then `PublishBackup`, `FlushBackup`,
`Verify` (the last check before the rename), `Rename`, `Settle` (flush),
`FinalReadback`, which verifies the backup, and `DropOriginal`, which removes it by
name; `Reconcile`, `Recheck`, `Rollback`, `Restore`, `Restored` and
`Recover` are the ways out after a failure behind the rename, `Unknown` is what
`write_local_source` makes of an unknown outcome, and `ConflictCopy` the copy.
`acked` has the edits of saves that were answered after their flush, `assumed`
those of saves that `Unknown` answered "saved", and `cut` the assumed edits that a
power loss took.  `raced` has the foreign edits that were written in a window where
no check of the code can see them, the one between the verification and the removal
of the backup among them.
`Crash`, `PowerLoss`, `ForeignReplace`, `ForeignInPlace` (through a handle opened
before a save replaced the file) and `ForeignDelete` are the environment.
Other programs are taken to read the latest content and to flush what they
write.  `raced` are the foreign edits written where no check of the code can see
them: between the last check and a rename, or into files a rollback removes
without looking.  The modification time of a fingerprint is in whole seconds, so
equal bytes in another file may or may not compare equal (`MayDiffer`); both are
explored.  `platform` is chosen in `Init` and never changes: hard links and `rename`,
or `ReplaceFileW`.

### ResidentIpc, RequestOutcome, ResidentIpcProofs

One connection between the native messaging shim and the resident application.
A member of `Req` is one use of its ID `IdOf[r]`.  `owner` is the shim's set of
pending IDs (with the request behind each), `up` and `down` the two directions
of the pipe, `registry` the server's `PendingRequests`, `phase` the atomic phase
of a request.  `Forward`, `Deliver` and `Disconnect` are the shim,
`ReceiveRequest`, `ReceiveCancel` and `StopServing` the loop of
`serve_connection`, which is busy with one request (`busy`) until both its threads
are started: `SpawnWorker`, `SpawnMonitor`.  The worker thread does
`BeginExecution` and `EndExecution`; the monitor claims the answer by exchanging
the phase (`TakeResult`, `Deadline`), then removes the entry (`Unregister`), then
sends (`Send`), or finds the phase exchanged (`Leave`).  `lost` are the requests
whose response was too large for a frame.  A cancel frame is part of the
protocol the server handles; the shim does not send any.

`RequestOutcome` is what the extension relies on when it decides whether to
repeat a mutation: one answer for each request; an answer of `NotRunKind` means
the handler was not called and will not be; a response or a panic that it was;
`request_outcome_unknown` and a lost port mean nothing.  `ResidentIpc` implements
it (`ImplementsOutcome`) with `ran` and `answer` as they are.

### ResidentBridge, ResidentBridgeProofs

The desktop application's worker thread (`runtime_bridge.rs`), the client library
that repeats mutations (`runtime-web-client`) and the passkey plugin's operations,
on one vault.  `client[o]` is where `sendMutationCommand` is with mutation `o` and
`wire` the requests on their way to the worker, among them those the client has
given up on (`late`) and that may still be executed.  `live` is the open vault and
`stored` what the last save wrote; `unsaved`, `receipts` and `saves` are
`unsaved_vault_ids`, `operation_receipts` and `pending_save_receipts`.  `Replay`,
`Execute`, `ExecuteFails`, `ReplaySave` and `ExecuteSave` are the worker's handling
of a request, with the save behind a mutation (`InlineSave`) inside; `SaveVault`,
`LockSession`, `Unlock`, `Reload` and `RetrySync` the other commands with their preflight
(`MayDiscard`), `IdleLock` the idle deadline.  `PersistAutofill` is a submission of the
autofill, which counts as a save of the vault; after an unknown outcome it stays pending in
the cache (`chain`), and until `RetrySync` published it every save is refused.
`ReplayAutofill` is its repetition: answered as durable from the cache, it counts as a save
and stores nothing; the edits it takes for saved are `forgotten`.  `PluginBegin` and `PluginEnd` are the
plugin's callbacks, `Prepare`, `UseVerification`, `Register`, `Commit` and
`EndOperation` the worker's side of them; `lease` and `relock` are
`platform_passkey_operations` and `pending_platform_relock`, `copy` the entry kept
for the rollback of a registration.  How a save merges or becomes a conflict copy
is left to `OneDriveSync` and `LocalSave`: here it stores the open vault or fails.

### XmlScope, Vault, VaultEdits, ThreeWayPatch, VaultReplicas

The document of a vault.  An element (`Meta`, a group, an entry) is a scope: its
fields, and what the reader recorded of the nodes it came from (`raw.order`, the
slots of repeated nodes in `raw.tracked`), with the unknown nodes and the blocks
of custom data anchored among them (`XmlScope`).  `Vault` has the mutations of
`vaultkern-core` on these elements, what the writer makes of an element and its
validation (`prepare_save`), and what the reader makes of it; `VaultEdits` the
operations of the runtime, each built from several mutations; `ThreeWayPatch`
`three_way_field_patch` with all it calls.  `VaultReplicas` loads a document on two
replicas, edits each (`EntryEdit`, `GroupEdit`, `VaultEdit` have one disjunct for
each operation) and patches (`Patch`).  Texts, identifiers and times are members
of small sets.

### KdbxSchema, KdbxContents, KdbxDocument, KdbxImport, KdbxSamples

The XML of KDBX files of other programs: an element is [name, attr, text, kids],
a text its lexical class and value.  `KdbxSchema` has the lexers and the shapes the
reader insists on, `KdbxContents` what is kept of each element and how it is
written, `KdbxDocument` whole files (binaries, the key stream of protected values,
KDBX 3, 4.0 and 4.1), `KdbxImport` one change somewhere in a file of `KdbxSamples`.
Integer types keep their order and their relation to the offset of dates, scaled
down to a few values.  They run with `VaultReplicas` in `MCVaultReplicas`.

### AutofillEngine, AutofillPersist

The saves of the browser's pending submissions.  `AutofillEngine` is the engine of
`autofill_persist.rs` (plan, receipts, reconstruction of a plan on the source, what
is refused); `AutofillPersist` runs it for two runtimes that share a cache, on a
local file or a OneDrive item: `job[r]` is the call under way, with a step for each
request to the source and each use of the cache; `late` a write given up on,
`acked` the operations the extension was told are durable.

### PasskeyOrigins, PasskeyAuthenticator, Passkeys, PasskeysProofs

`PasskeyOrigins` has the rules on origins, relying parties and client data,
`PasskeyAuthenticator` the authenticator of `passkey.rs`: it answers byte strings
(authenticator data, the COSE key and the attestation object byte by byte, digests
and coordinates being constants) and signatures named by their key and what they
are over, and `RegistrationRead` is what a relying party reads of them.  `Passkeys`
is the vault under ceremonies of the extension and operations of the platform:
`ledger` and `leases` are the runtime's, `client[t]` is where the extension is with
a ceremony.  Rollbacks and saves are operators on `Store`, so that `Abort` and
`reconcile_passkey_ceremony_ledger` share them.  `site`, `stored`, `fate`, `makers`,
`proofs`, `uvAnswers`, `network` and `answers` are history: `makers[e]` has the
ceremonies and operations that have set the passkey of entry `e`, `fate` the credentials that were
deleted, discarded under an extension at work, cut off by the limit of a history,
published by another save, abandoned and committed.

### KdbxFile, VaultReferences, QuickUnlock, QuickUnlockProofs

`KdbxFile` is the container: header, key derivation and its policy for files of
others, MACs, block streams and the stages of a load, with cryptography as free
terms.  `VaultReferences` is the list of vaults with its clean-up journal.
`QuickUnlock` is the resident application around them: `work` is the operation of
the worker, cut at each prompt and each file operation; `saver`, `recon` and
`client[c]` are the threads beside it, `gate` the policy gate, `record` and `side`
the records on disk with their temporary files; `written` are the versions any
program saved.

### TokenStore, OneDriveAuth, OneDriveAuthProofs

`TokenStore` is the token file under its lock, with one step for each file operation
and the ways out of each failure; `OneDriveAuth` the processes over it: the login
with its callback listener, `access_token`, requests to Graph and the service, which
rotates and revokes tokens (`live`, `minted`).  `gone` is set when a live token
was lost where no code could keep it (the answer of the service was lost, the process that
alone knew it died, a rollback of the file failed or somebody changed the file); nothing is said of the connection
then.  A token that the store has written and whose answer is still on its way
to the caller counts as stored (`IsStored`): another process may read it and rotate it
before the caller goes on.

### RuntimeCommands, PeerIdentity, NativeChannel

`RuntimeCommands` has the commands with their classes and `ProtocolSession`,
`PeerIdentity` the checks each side makes of the process at the other end, what
Windows reports about a process being a record.  `NativeChannel` is the channel from
the extension's transport through the bridge and the host: `ext.calls` are the
callers, `ext.nego` the handshake and the generation it was made on, `ext.bridge`
the port with its queue, `link` the host (the command loop, or the shim and the
worker behind it).  JavaScript runs to completion, so each of its callbacks is one
action.  `MCResidentIpc` runs it beside `ResidentIpc`; the two share no variable.

## Runs

| Run | Shows |
|---|---|
| `remote_cache` | three contents, two operations, one damage/death/unknown outcome, one cut publish, any number of power losses: no manifest dangles and what is undamaged is readable, unless it carries a generation of a version-2 manifest (`ManifestReadable`), an acknowledged pending save is never lost (`PendingRecoverable`) nor replaced by a call that did not see it or removed (`PendingReplacedByProof`), but for a damaged version-1 pair, and the cache implements the slot |
| `sync_one_runtime` | one runtime, two edits, two faults, two attempts, files created by this or another program: no acknowledged edit is lost (`AckedEditsSurvive`), every call ends (`CallsEnd`) |
| `sync_together` | two devices, and two runtimes sharing a device's cache: a replacement of the file keeps the edits of the head it replaces (`PushKeepsHead`), edits are patched from an ancestor (`PatchSound`) and no acknowledged edit is lost |
| `local_save` | either platform, two runtimes, two edits, up to three saves or foreign writes, up to four faults, five of all these together: what a save acknowledged after its flush is readable after a power loss at any moment, and what it acknowledged after an unknown outcome is lost by a power loss only (`AckedSurvives`), no edit of another program is overwritten outside the unavoidable windows (`ForeignPreserved`), and a save reported as not published does not come back (`CommitSound`) |
| `resident_ipc` | two requests with the same ID, two cancel frames: the shim gets only answers it waits for (`FramesAwaited`), an ID that was answered is free (`NoFalseDuplicate`), the connection implements `RequestOutcome`, and every request is answered, or its response did not fit in a frame (`RequestsSettle`); beside it, the native channel with up to three calls: a command is executed once, for whom it should be, its caller gets its response, an error that denies the execution is true, and every call ends (`ChannelKept`) |
| `resident_bridge` | two mutations, two calls each, one receipt, one failing save, or two plugin operations and a mutation of the entry they register on (`Workloads`): a mutation is executed once unless its receipt made room and what the client reports stays true (`OutcomesTrue`), a save answered as done is stored and every unsaved edit known (`EditsAccounted`), none is dropped (`EditsKept`), both but for the edits that a repeated pending submission takes for saved, and the session lasts as long as the plugin's operations and is locked after the last (`SessionSound`) |
| `resident_relock` (violation) | see "Divergence" |
| `document` | four documents edited once or twice on one or two replicas and patched, and about 2200 files of other programs: the tree stays a tree and can be saved but for the two cases of `Saveable` (`DocumentSound`), what is written is read back, and unknown nodes stay (`RoundTrip`), the patch loses no edit of an entry (`PatchKeepsEdits`), and a file that is accepted is saved and read again with all it said (`AcceptedIsKept`) |
| `autofill` | two runtimes, two calls, two faults, one edit, local or OneDrive: an operation answered as durable stays so (`DurableSound`), a publication keeps the source's credentials and applies a plan once (`PublishesSafely`), and unsaved edits of the session stay (`LiveEditsKept`) |
| `passkeys` | two ceremonies, one platform operation, two troubles (time, failures, restarts, edits, deletions, locks): a site's credential is saved (`SiteCredentialSaved`), what is not committed can be undone (`UncommittedIsAccounted`), no rollback takes what a site has (`RollbackKeepsOthers`), and answers verify, for the right page and with no more user verification than there was (`CeremonySound`) |
| `access` | a local and a OneDrive vault, two credentials, one client, three commands, two failures, four events: a record opens the vault it was made for (`RecordsSound`), nothing is left of what was disabled or deleted (`NothingLeft`), and a record that opens the newest version is kept unless quick unlock is off, its vault gone, its replacement half done or another version was taken for the vault (`UsefulRecordKept`) |
| `tokens` | two processes, three tokens one of which is too large, two failures, on Windows or not: the file is what was answered (`FileSound`), no token is used before it is stored (`SentIsPersisted`), and a process whose token was rotated away stays connected unless a rollback of the file failed (`StillConnected`) |

Where a property is a conjunction its parts are named definitions: `ManifestReadable`
(`NoDanglingManifest`, `UndamagedIsReadable`), `PatchSound` (`TypeOK`, `BaseIsAncestor`),
`CommitSound` (`TypeOK`, `NotPublishedIsTrue`), `EditsAccounted` (`EditsTracked`,
`SavedIsStored`), `OutcomesTrue` (`ExecutedOnce`, `AnswersTrue`), `SessionSound`
(`TypeOK`, `SessionForOperations`), `DocumentSound` (`TreeSound`, `Saveable`), `RoundTrip`
(entries, groups and meta data, each with the `OpaqueKept` nodes of other programs), `PatchKeepsEdits` (`NoEditLost`, `PatchIdentity`),
`DurableSound` (`TypeOK`, `DurableIsKept`), `PublishesSafely` (`SourceValuesKept`,
`NeverAppliedTwice`, `ReceiptMeansApplied`), `CeremonySound` (`TypeOK`, `VerifiedOnce`,
`AnsweredForOrigin`, `AnswersVerify`), `RecordsSound` (`TypeOK`, `EnrolledOpens`,
`OpensAsSaved`), `NothingLeft` (`DisabledLeavesNothing`, `DeletedLeavesNothing`),
`FileSound` (`TypeOK`, `FileAsAnswered`, `RefusedIsForgotten`, `PlaintextGone`),
`ChannelKept` (`AnswersKept`, `ExecutedFor`, `ConnectionSound`, `CallsSettle`).

Every property has a mutant, an operator next to the definition it replaces
that changes it the way a plausible bug would (named "Mutant" in its comment);
the property is violated when the mutant is in place.

Bounds.  In `access` there is one client thread, so no symmetry: requests of another
thread only queue behind its own and those of the reconciliation thread.  Three contents are what the authorization tells apart (current,
previous, observed); with content symmetry the run is exhaustive.  `MaxFaults`
counts crashes, failed requests and writes of other programs together; the
interesting behaviours need a push whose answer is lost and one more (its late
arrival, a foreign write, a crash), so one runtime is run with two.  `MaxSerial` bounds how many serializations of one
vault exist at once: bytes are only compared, `Fresh` takes the first unused one,
and with 5 or 6 the one-runtime state counts no longer change.  Deadlock is
checked in these runs, so a bound that cut a call short would show.  With two
runtimes or devices the bounds are smaller, and cut off behaviours that need
more serials: those runs are bug hunts up to their bounds, and the one-runtime
ones are complete for their faults.  In `LocalSave`, `MaxSaves` counts saves and foreign writes
together (three: one to be acknowledged, one that fails, one foreign),
`MaxFaults` failing calls, deaths and power losses (an unknown outcome that a power
loss undoes takes four), and `MaxEvents` all of them together (five); removals whose failure the
code ignores may fail for free.  Deadlock is not checked there, because a user
may close every session of a vault that was moved away and never come back.
In `ResidentIpc` two requests with one ID make every reuse of an ID
happen; the proofs cover any number of requests and IDs.  Deadlock is
not checked there: a connection on which everything was answered is at rest.
In `ResidentBridge` one receipt makes eviction happen with two mutations, and
at most one late request of each kind per mutation is on its way.  `MaxFaults` counts
saves that fail, or that leave a submission pending.  A user may stop
acting there, so deadlock is not checked.  Its mutations are interchangeable, and
so are its plugin operations, which makes the symmetry sound.

The sample documents of `VaultReplicas` are an entry with a history, unknown nodes,
blocks of custom data and an attachment, and a group in another; an entry with the
credentials of other programs, under a limit that keeps no history; such an entry in a
recycle bin, with a tombstone; and groups side by side.  Two edits on one replica, or one on each, reach every pair of operations, and the
patch sees every pair of concurrent edits.  The files of `KdbxImport` are every
single change (another text, a node left out, doubled, moved to the end, an unknown
node added) of seven samples: each check of the reader is about one node.  In
`AutofillPersist` two calls are an operation and its repetition, or two operations
of which one evicts the other's receipt.  Two ceremonies and one platform operation
of `Passkeys` are any two registrations on one entry and an assertion of either's
credential; `Ttl` is one tick, and a history keeps one snapshot, so that the second change of an
entry cuts off the first.  In `QuickUnlock` four events are two replacements of
each vault, one with another key, or three commands and a fault; in `OneDriveAuth` two commands are
a login and a request, or two requests between which the other process rotates.
`MaxCalls` of `NativeChannel` is the least number in which two callers share a
handshake and a third comes after it; a response is one frame or up to five chunks.
Deadlock is not checked in the runs where users may stop acting (`document`,
`autofill`, `passkeys`, `tokens`); in `access` rest is a step of its own.

Fairness.  `FairSpec` assumes weak fairness of the steps of a call that has
begun, for each runtime: the code runs straight on between its requests, and a
request that is answered or fails takes the call on.  That requests are answered is
not assumed: `ureq` is used without a read or write timeout (onedrive.rs 1073, 1117,
1178), so a request whose connection stays open without an answer hangs the call for
good (`Stall`, stage `hung`), and only the end of the process ends it.  `CallsEnd`
says that every other call ends.  Nothing is
assumed of users, other programs or late requests.  `FairSpec` of `ResidentIpc`
assumes that threads that can run do, that deadlines pass and that the shim and the
server read what they are sent (both block on the pipe and do nothing else);
handlers may hang and the browser need not do anything.  In `NativeChannel` timers
fire (weak fairness of `Timeout`), and a callback of JavaScript whose promise was
settled is run: it is not for ever ready, which for these actions, that stay enabled
until they happen, is the same as weak fairness and cheap to check.

## Divergence

`resident_relock`.  The bridge refuses to lock or change a session with unsaved
edits ("save the active vault before locking or changing the resident
session", runtime_bridge.rs 225) and its idle lock saves them first.
`end_platform_passkey_operation` (runtime.rs 3136) locks the session it had
unlocked for the operation without looking: an edit made meanwhile whose save
failed is gone.  The bridge still counts the vault as unsaved and refuses to
unlock it until it is restarted, or a plugin operation unlocks it and it is
saved.

Met while modelling and left out of the properties by name:

- "save the active vault before locking or changing the resident session"
  (runtime_bridge.rs 225).  `command_persists_vault_id` counts the answer of
  `PersistAutofillMutation` as a save (1536, 1603), and the worker then takes the vault
  out of `unsaved_vault_ids` (736).  While a submission is pending in the remote cache,
  its repetition is answered `Durable` from the cache (runtime.rs 5704-5855) and publishes
  none of the edits of the open session, whose own saves were refused all that time
  (`ensure_generic_save_allowed`, 6625): a lock then drops them.  In `ResidentBridge`
  these are the edits of `forgotten`; `EditsTracked`, `SavedIsStored` and `EditsKept` name
  them and promise nothing for them.  Without the repetition such edits can neither be
  saved (6625) nor published with the submission, because the preflight refuses
  `RetryVaultSourceSync` to a session with unsaved edits.
- "pending remote cache became corrupt after cleanup was requested" (remote_cache.rs
  1542) refuses the deletion of a corrupt cache that is pending, but the metadata is
  parsed as a version-2 manifest only (1537): a version-1 pair with `pending_sync` true
  and damaged bytes is deleted. `PendingReplacedByProof`, `PendingRecoverable` and
  `PendingSlot` allow exactly this removal, which the run reaches with its one fault.
- A version-2 manifest may name a previous generation without `pending_kind`. A write
  or an update that leaves the bytes as they are keeps that generation in a version-3
  manifest as it is (remote_cache.rs 1282; only the current one is given a kind, 1233),
  and `generation_pending_schema_is_valid` then refuses the manifest at every read
  (1606): the cache is corrupt although every file of it authenticates, no write is let
  through, and a pending save in it can neither be published nor removed.
  `UndamagedIsReadable` names the case (`CarriesOldGeneration`) and says that the current
  bytes are still on disk; the run reaches it in three steps.
- `docs/design/007-storage-and-sync.md` 56 says the kept base is always an ancestor
  of the remote head.  `load_source_snapshot` reads the cache, finds nothing, asks
  the source, and when that fails reads the cache again (runtime.rs 1167); another
  runtime of the device may have made a save pending in between, and the code takes
  that generation for a committed copy and for the base of later patches.
- A retry of a pending *conflict copy* publishes the pending bytes and then replaces
  the open session by the remote head (runtime.rs 8678, 8974): edits made since the
  pending save are lost, where a test (runtime.rs 19288) states they are preserved for
  the other kind of pending save.  The desktop bridge refuses a retry with unsaved
  changes; other callers do not.
- When the flush after the rename of a local save, its repair and the rollback all
  fail, `write_local_source` (runtime.rs 9093) answers "saved", with a warning, because
  the new bytes are visible; a power loss may then bring the old vault back, against
  "Saves are atomic and durable" (007-storage-and-sync.md 31).  In `LocalSave` these are
  the edits of `assumed` that end in `cut`: `AckedSurvives` promises them against
  everything but a power loss, and the runs reach states in which `cut` is not empty.
- "Edit versus delete: the edit wins" (007-storage-and-sync.md 71): when one side deletes
  a group's child and the other edits it, the patch keeps the edit, but the group's
  record of nodes is taken whole from one side, and the writer refuses the patched vault
  (kdbx `lib.rs` 5496), so the save fails.  The same happens when the nodes of an entry are
  recorded by one side and its fields or custom data come from the other, and when a text
  comes from one side and the removal of its protection from the other.  `Saveable` is
  checked of patched vaults too and leaves out exactly such scopes (`Mixed`): of the 18312
  patches of two edited replicas that are accepted, 52 give a vault that is refused.
- `update_database_settings` that takes the history limit away leaves its slot behind, and
  every later save is refused until the vault is loaded again (`LimitCleared`).
- Soft deletion leaves a tombstone for an entry that lives on in the recycle bin; moves
  within one group are not carried over by a patch; a cleared history comes back by a
  patch; removals of different entries of one group on both sides end in a conflict copy.
- A custom datum with an empty key is dropped by the reader; a KDBX 3 file with its root
  before its meta data is read, but its protected binaries then take the key stream in
  another order than they were written in; an entry that expires without a date, an empty
  `Tags` of a group and dates out of range make a file refused.
- Saving and committing a passkey registration do not look whether its credential is still
  in the vault (runtime.rs 4565), and both answer as done for a ceremony that the
  reconciliation closed meanwhile (4460, 4583); the platform's commit looks.  A rollback puts
  back the whole entry, with it edits made since are lost; of two overlapping registrations
  on one entry that are both undone, the second undoing brings the first one's credential
  back; a deleted entry makes the rollback fail for good.  When the abort fails too, the
  extension closes the ceremony without a rollback.
- A registration that replaces a passkey keeps the old one in the history of the entry only, where
  the limit can cut it off before the vault is ever saved (runtime.rs 3367, 10447): a site
  keeps a credential that no saved vault has held.  `SiteCredentialSaved` therefore leaves out what
  was cut (`fate.cut`); with a limit of zero TLC finds a behaviour without this.
- An autofill plan that was built on an unsaved edit of the open session can never be
  reconstructed on the source (runtime.rs 8330): the synchronization of the chain fails until the
  vault is loaded again.  No liveness is claimed there.
- Quick unlock of an older cached version deletes a record that was made with the newer
  credential (runtime.rs 9033).  `UsefulRecordKept` leaves out this step and no other: the
  version in hand is not the newest, and the record's credential, freshly derived for it,
  does not open it.
- A replacement of a quick unlock record that `ReplaceFileW` leaves half done
  (secure_storage.rs 194, 320) takes the record away: the old one stays in the backup, which
  nothing reads or restores.
- Unlocking by ID a vault that is not the current one leaves
  the two apart, and enrolling then stores its credential under the current one's record; a
  vault whose key derivation asks for confirmation cannot be unlocked through the protocol.
  Unknown header fields are not written back.
- A OneDrive token of the environment always wins and is never read again; a rotation by one
  process may overwrite another one's login; a load does not look for the backup that a
  crash half way through a replacement leaves; the callback listener of a login that timed out
  keeps its port.
- When `connectNative` or `postMessage` throws right after a handshake, the transport may take
  the generation of no connection for a negotiated one; the next command is then refused
  with `protocol_handshake_required`.  A request that is too large for the host is answered
  without its ID, and the bridge gives up the connection.

Less far from what is documented: a generation file left visible
by a publish that failed before the directory was synchronized is later reused
as if it were durable (`cuts` in `RemoteCache` counts them and
`NoDanglingManifest` excludes them); a save committed while this device's slot
holds an older pending generation leaves that generation in place, and a later
retry reports it as another runtime's until the vault is loaded again; a
conflict-copy receipt that could not be published is not retried by the same
session until a save or a load; a refresh of an open session whose head was
written by another program publishes a conflict copy even without local edits;
a deletion of a vault reference that fails on its second cache key leaves the
first one's retirement marker until the next load.  A rollback restores the bytes of a local vault
but not its modification time, so the next save of that session may end in a
conflict copy; it also removes the backup without looking whether another
program wrote into it.
A response larger than a frame is dropped after its answer was claimed, so the
request ends only by the extension's own timer; a write of `serve_connection`
that fails returns without `cancel_all`, and the requests then run to their end
or deadline.  The pipe is unbounded in `ResidentIpc`: the shim and the server
each write without reading meanwhile, so both directions full (64 KB) would stop
both; the extension posts one request at a time, which keeps one direction
empty.
The rollback of a plugin registration
that was not committed puts back the entry as it was before, over edits of that
entry made and saved since (`undone` in `ResidentBridge`, excepted by its
properties); a save for another command stores an uncommitted registration, and
the rollback that follows is not saved.  The user interface forgets the operation
ID of a mutation with unknown outcome when the user's repetition of it ends in a
plain error, which says nothing about the earlier one; `AnswersTrue` is therefore
stated for the first call.

## Proofs

`RemoteCacheProofs` proves, for every set of contents, operations and conditions
and every number of faults, from the three named assumptions of `RemoteCache`
(the values that stand for "none" are none of the values, and the bounds are
naturals):

- `TypeCorrect`: `Spec => []TypeOK`;
- `PendingSurvives`: `Spec => []PendingRecoverable`;
- `PendingReplaced`: `Spec => PendingReplacedByProof`;
- `FilesComplete`: `Spec => []ManifestReadable`;
- `Refinement`: `Spec => ImplementsPendingSlot`.

The inductive invariant `IInv` adds to the two invariants what the lock keeps
between authorization and publication: a request in flight names the pending
save it will replace (`WriterInv`), a cache under a retirement guard holds no
pending save or a damaged pair (`RetirementInv`), something is owed only while the visible
manifest is pending (`OwedInv`), and manifests of older layouts have no kind
(`LegacyInv`).  None of the invariants is inductive alone: `PendingRecoverable`
holds across `ReplaceManifest` only because the request in flight named the save
it demotes to previous generation.  The refinement needs `FitInv` besides: the
kind of the request in flight fits the kind of the pending save.

`ManifestReadable` has an invariant of its own, `DiskInv`, on top of `IInv`: the
manifests a power loss may leave are well-formed, but for a previous generation kept
from a version-2 manifest, and those of earlier releases observe no source (`FormInv`); the generation files a transaction has passed are
there before its manifest is published, and while files are removed no other
manifest than the visible one can come back (`FilesInv`); the request in flight
is one the code accepts (`CallInv`).  Without `FilesInv` the step that publishes
a manifest could name a file nobody has written; without its second part the step
that removes a file could take one that an older manifest names.

`LocalSaveProofs` proves, for every set of runtimes and edits,
either platform and every number of saves and faults, from `LocalAssumption` (the
platforms are the two, `NoProc` is no runtime, the bounds are naturals):

- `CommitsSound`: `Spec => []CommitSound`;
- `AckedEditsSurvive`: `Spec => []AckedSurvives`;
- `ForeignEditsSurvive`: `Spec => []ForeignPreserved`.

`CommitSound` says that a save reported as not published is not in any directory a
power loss may leave.  `CommitInv` adds what makes this last (`StampInv`): a save
that may still be denied has not renamed its candidate, and what a
rollback restores is no denied save either.  `AckedSurvives` needs much more
(`SaveInv`): a stamp tells the edits of a file and an inode the file (`StampsInv`,
`InodesInv`), a save finds the names of its siblings unused (`NamesInv`), it publishes
at least what it opened (`CandInv`), and then `SurvivalInv`, which says for each stage of a
transaction where an acknowledged edit still is: in the visible vault, in the generation that was
opened, or under a name the transaction does not touch.  `Elsewhere(d, S, x)` is
the common form: edit `x` is readable in directory `d` without the names in `S`.
What is due differs by directory (`Due`): the acknowledged edits in every directory
that a power loss can leave, and in the visible one the assumed edits that were not cut
too.  `DropInv` says that the candidate is in the vault while the verified backup goes,
and `AnsweredInv` that a candidate which is about to be answered "saved" after an unknown
outcome is what any running transaction has opened.
`ForeignPreserved` has `ForeignInv` on top.  Before the rename the directory is flushed,
so that what another program writes is not only in the backup (`SettledInv`,
`AsideInv`).  From the last check on, `KeptInv` says where each of its edits is: where
the transaction changes nothing, in a backup that no longer is the generation it opened, or in a vault that no
longer is what it published; the last two are what the checks before each removal find, and the code then
leaves the file.

`ResidentBridgeProofs` proves, for every set of mutations and plugin operations,
every workload and every number of receipts, calls and faults, from
`BridgeAssumption` (a workload is a choice of these; there is room for one receipt):

- `SessionStays`: `Spec => []SessionSound`;
- `OutcomesHold`: `Spec => []OutcomesTrue`;
- `AccountHolds`: `Spec => []EditsAccounted`;
- `NoEditLost`: `Spec => EditsKept`.

`BridgeInv` adds to the invariants: a request that was not given up is the one its
front end waits for, and a mutation called once was not given up before (`RequestsInv`);
a mutation has or had a receipt exactly if it was executed (`ReceiptsInv`); what was
executed is in the open vault unless a rollback undid it or it was forgotten (`EditsInv`); a session that
no operation needs holds what was stored (`LeaseInv`); and what a rollback puts back
is part of the open vault (`CopiesInv`).  The last is the one that takes thought:
registrations of several plugin operations on one entry may overlap and be undone in any order, so
it asks for an order of the copies (`Ordered`) in which each has the
edits of those before it and no passkey comes back that a copy does not know.

`OneDriveAuthProofs` proves, for every set of processes and tokens, every kind of
command and every number of commands, attempts and troubles:

- `RequestsPersisted`: `Spec => []SentIsPersisted`;
- `TokenFileSound`: `Spec => []FileSound`;
- `ConnectionKept`: `Spec => []StillConnected`.

The assumptions are `TokenBounds` (tokens are numbers, the token an installation starts
with is of fit size), `AuthBounds` (the token of the environment is not issued by a run, a command
has a request) and `NoneAssumption` and `NoStateAssumption` (`None` is none of the
values it stands beside).  `AuthInv` says of each process that its step of the
store fits its command and the lock (`LockInv`, `CallInv`), and where its token came from
(`OriginInv`): a token marked as the file's has been in the file.  For the file,
`FileInv` adds `AnsweredInv`: `Held`, which is the file once the call that is
changing it has gone back, is what the last answer said.  It is `Held` and not the file that
an invariant can speak of, since between the rename and its flush the file has a
token that a failure takes out again.  `IssuedInv` and `LoginInv` (tokens are issued in
order, so the token of an open login is in no other place) make a refused login
leave no trace.  `ConnectionInv` adds that what a process alone has is accepted by the service
(`OwnInv`), and that an accepted token is in the file or with a process that will not
let it go (`ConnectedInv`).  A first form of `StillConnected` was refuted with a third
command: the token was stored, another process rotated it before the first
was told, and the first went on with a token of the past.  The code repairs this by
reading the file again, so the property counts the token as stored from the write on.

`OneDriveSyncProofs` proves, for every set of edits, runtimes and devices, every
deployment and every number of serializations, attempts and faults, from
`SyncAssumption` (a deployment assigns a device to each runtime; there is room for one
serialization and one attempt) and `NoneAssumption` (`NoBytes` and `NoEntry` are none of
the values they stand beside):

- `TypesHold`: `Spec => []TypeOK`;

and, when every device has one runtime (`Apart`, a condition on the deployment that
`Init` chooses), for any number of devices and whatever other programs write:

- `EditsSurvive`: `Spec /\ Apart => []AckedEditsSurvive`;
- `PatchesAreSound`: `Spec /\ Apart => []PatchSound`;
- `HeadIsKept`: `Spec /\ Apart => PushKeepsHead`.

The type invariant rests on `Shape`, which says for each stage of a call which of its fields,
and which of its session's, have a value.  The invariant `IInv` is about what is
kept, the edits of the head and the settled ones (`Kept`): it only grows.  A write of this
program replaces the head under its ETag, the patch was made under this ETag, and no
ETag comes back (`OnceInv`: each request under way carries bytes nobody has seen), so
nothing happened between the two; bytes remembered under the ETag of the head are
the head (`TagInv`).  What a write leaves out of the head it replaces, the session undid, and that is
settled (`PushInv`, `LateInv` for a request its call gave up on).  An acknowledged edit
that is not in the head or settled is in the pending generation of its device.
`SessInv`, `WorkInv` and `CopyInv` say that the session, the call under way and the
conflict copy it may make have the edits of that generation, and of what it was made
from (`CacheInv`), so that the next generation, or the source, takes them over.
Several runtimes on one device may each put their generation into the one slot; for these the run
`sync_together` remains.

`QuickUnlockProofs` proves, for every set of references, credentials and clients and
every number of commands, faults and events, from `ClientsAssumption` (no client has the
name of a thread of the application):

- `NothingIsLeft`: `Spec => []NothingLeft`;
- `UsefulRecordsKept`: `Spec => UsefulRecordKept`.

For a deleted reference `Forgotten` is inductive beside `Shape`: the open vault and the worker's
operation belong to references the store knows, so nothing brings a file back after the
clean-up.  While quick unlock is off, `Off` says that as long as something of a record is on disk, or may
get there, a reconciliation is due or the last one failed: the threads that carry a
changed setting to the worker are in one of few states (`Threads`,
`OneReconciliation`), a setting that is late is on its way (`LateSettings`), a purge follows
(`PurgeWillFollow`), and it names everything there is (`PurgeIsWhole`).  A
record that opens the newest version is given up only by a reader that derived its key from other
bytes (`UsefulIsNotDeleted`, with `DerivedIsOfFile`).

`PasskeysProofs` proves, for every finite set of ceremonies, every set of platform operations and
requests, every initial vault, time to live and history limit, and every number of
failures, from `PasskeyNames` (credentials are new where they are made and no entry of
the initial vault has one of them; ceremonies are finitely many and not operations; `None` and
`Locked` are none of the values they stand beside) and `PasskeyBounds`:

- `HandedOverIsSaved`: `Spec => []SiteCredentialSaved`;
- `NothingLeftBehind`: `Spec => []UncommittedIsAccounted`;
- `OthersStay`: `Spec => RollbackKeepsOthers`.

`IInv` is stated over a store (`LiveSound`, `FileSound`), as the code's rollbacks and saves are, so that
one lemma on `abort_passkey_registration` serves the extension's abort and each abort of a
reconciliation.  `Line(r)` is what an entry has held, its history and then its current
credential; each maker on it is known (`Placed`) and has set one entry only (`Sole`).  What makes
a rollback harmless is `Undoable`, that its copy is of the entry it changed, and `Stacked`: if a credential
that waits for its save lies below one that can still be undone, then it is below the credential this
undoing brings back too, so that no undoing, in whatever order the registrations of one entry are undone, takes it
from the history.  `Attended` and `Answered` relate the ledger to where the extension is: what it
takes for mutated is mutated, and what it was told is saved has been saved.  `FileKnown` says that a
registration that can be undone is in the file only if a save for another one published it.
A reconciliation aborts the ceremonies that are due one after another, by `FoldLeft`; the library's
induction does not apply, but the fold is a function of the set of positions already done, and
`Midway` holds for each of these by the well-foundedness of the finite sets (`MidwayAll`).  The proof
found that the earlier form of `SiteCredentialSaved` was false under a short history.

`ResidentIpcProofs` proves, for every set of requests, every assignment of IDs and
every number of cancel frames, from `IpcAssumption` (`IdOf` gives each request an
ID, `NoReq` is no request, `MaxCancels` is a natural number):

- `TypeCorrect`: `Spec => []TypeOK`;
- `AnswersAwaited`: `Spec => []FramesAwaited`;
- `IdsAreFree`: `Spec => []NoFalseDuplicate`;
- `OutcomeRefinement`: `Spec => ImplementsOutcome`.

Neither property is inductive: that a frame is awaited depends on what every
thread may still do for its request.  `IInv` says it for each place a request can
be in: on its way to the server, and there once (`UpInv`); in the registry, where
the entry belongs to the request the shim waits for (`RegistryInv`); pending or
executing, when nobody has answered (`PhaseInv`); claimed by one who has not sent
yet, with a kind that is true of the execution (`MonitorInv`); and on its way back,
when nothing remains that could answer it again (`DownInv`, `OnceInv`).
`ClientInv` relates the shim's pending IDs to the requests.  One lemma per action
shows that it is kept.

Proved for every value of the constants are therefore the safety properties of the two
protocols everything else relies on (the slot of the cache, the answers of the
connection) and of six of their users: local saves, the desktop bridge, the
account of OneDrive with its token file, the removal of quick unlock records, the registration of
passkeys, and, with one runtime on each device, the synchronization of OneDrive vaults.  Each `TypeOK` of
these, but for those of `QuickUnlock` and `Passkeys`, is proved with them (the types of the
variables of `Passkeys` are part of its `IInv`).

Only model-checked: liveness (`CallsEnd`, `RequestsSettle` and the liveness part of
`ChannelKept`), which is out of the prover's reach; `OneDriveSync` with several runtimes on a
device; `RecordsSound` of `QuickUnlock`, which needs what folding the attachments of a vault into its
file and back gives, an induction; `CeremonySound` of `Passkeys`, which is also about what a relying
party parses out of the bytes; all of `AutofillPersist`, for which nothing stands in the way but
the work; and the document, the
files of other programs and the native channel (`VaultReplicas`, `KdbxImport`,
`NativeChannel`), whose recursive operators the prover does not take and whose properties are about
what a recursion computes.

## Plan

Done: the cache with its slot and proofs, OneDrive saves and local saves with theirs,
the connection and the desktop bridge with theirs, the document with its patch and its files, autofill
persistence, passkeys with their proofs, quick unlock with references and its proofs, the token store with its
proofs, the native channel.

1. Theorems: `DurableSound` of `AutofillPersist`, `VerifiedOnce` and
   `AnsweredForOrigin` of `Passkeys`, `OneDriveSync` with shared devices.
2. The extension's store of pending submissions with its claims, over `AutofillPersist`.
3. The binding of ceremonies to one of several vaults; the prompts of the WebAuthn proxy.
4. The base stores and their failures in `OneDriveSync` and `LocalSave`.

## Not modelled

Cryptographic primitives, the lexical syntax of XML, dates and numbers, the projections of
the core (views, search, one-time codes, password generation), bindings, user interface,
installer and the demonstration tool: conversions or I/O without state or concurrency.
Page analysis in the extension: heuristics over a document.  Operating-system key
stores and process queries: their answers are inputs.  In the modelled parts, the fields of
messages, display names, account labels and logging are left out, as is a
manifest whose JSON does not parse.  The calibration of key derivation parameters and the
legacy formats of settings are left out, as is the desktop's own path of the protocol
session, which skips the handshake.
