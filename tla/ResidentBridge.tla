-------------------------- MODULE ResidentBridge --------------------------
(***************************************************************************)
(* The desktop bridge: one worker thread that serves the commands of the   *)
(* front ends and the operations of the Windows passkey plugin on one      *)
(* vault.  It keeps receipts so that a mutation whose answer was lost can  *)
(* be repeated under its operation ID, keeps track of unsaved edits, locks *)
(* when idle, and locks again after a plugin operation that had to unlock. *)
(*                                                                         *)
(* Op are mutations, each with its operation ID; a vault is the set of     *)
(* mutations it reflects and the passkey of the one entry that plugin      *)
(* registrations replace, which the mutations in shared edit too.  stored  *)
(* is what the last save that can be recovered wrote; how a save merges or *)
(* becomes a conflict copy is the subject of OneDriveSync and LocalSave.   *)
(* An operation ID is not used for a second, different mutation.           *)
(***************************************************************************)
EXTENDS Naturals, Sequences

CONSTANTS
    Op,           \* mutations of the front ends
    Plat,         \* operations of the passkey plugin
    Workloads,    \* who uses the worker: op and plat, of which shared edit the
                  \* entry with the passkey, and calls, a bound on how often
                  \* the user tries one mutation
    NoPlat,       \* no operation
    NoCopy,       \* no snapshot of the entry
    MaxReceipts,  \* MAX_OPERATION_RECEIPTS and MAX_PENDING_SAVE_RECEIPTS
    MaxCalls,     \* bound: the largest of these
    MaxFaults     \* bound: saves that fail or whose outcome is unknown

ASSUME BridgeAssumption ==
    /\ Workloads \subseteq [op : SUBSET Op, shared : SUBSET Op, plat : SUBSET Plat,
                             calls : 0 .. MaxCalls]
    /\ NoPlat \notin Plat
    /\ MaxReceipts \in Nat \ {0} /\ MaxCalls \in Nat /\ MaxFaults \in Nat

VARIABLES
    load,      \* the workload; it never changes
    client,    \* per mutation, where sendMutationCommand is
    calls,     \* per mutation, the calls made for it
    wire,      \* requests on their way to the worker, given up or not
    unlocked,  \* the session is unlocked
    live,      \* the open vault; what opening would give, when locked
    stored,    \* what was saved
    unsaved,   \* unsaved_vault_ids names the vault
    receipts,  \* operation_receipts in operation_receipt_order
    saves,     \* pending_save_receipts in their order
    active,    \* PluginOperationState
    plugin,    \* per plugin operation, how far it is
    copy,      \* per plugin operation, pending_registration
    lease,     \* platform_passkey_operations
    relock,    \* pending_platform_relock
    runs,      \* per mutation, how often it was executed
    evicted,   \* mutations whose receipt made room for a later one
    undone,    \* mutations undone by a rollback of a registration, or dropped
               \* when a plugin operation ended
    chain,     \* a submission of the autofill is pending in the remote cache
    forgotten, \* edits that the repetition of a pending submission took for saved
    faults     \* saves that failed or whose outcome was unknown

pending == <<chain, forgotten>>
front == <<load, pending, client, calls, wire>>
vault == <<unlocked, live, stored, unsaved, faults>>
books == <<receipts, saves, runs, evicted>>
platform == <<load, pending, active, plugin, copy, lease, relock, undone>>
vars == <<front, vault, books, platform>>

Vault == [edits : SUBSET Op, passkey : Plat \cup {NoPlat}]
Waiting == {"first", "again", "save", "saveAgain"}
Request == [op : Op, cmd : {"mutate", "save"}, late : BOOLEAN]

----------------------------------------------------------------------------
(* The front end: sendMutationCommand and sendMutationSave. *)

Mutating == {"first", "again"}

\* The attempt after one whose answer was lost.
Repeat == [first |-> "again", save |-> "saveAgain"]

\* Mutant: an error of the second attempt is taken for the whole outcome.
IsConclusiveAlways(state) == TRUE

\* Only the error of a first attempt tells the outcome: after a lost answer it
\* cannot prove that the first attempt was not executed.
IsConclusive(state) == state = "first"

\* Where an answer, or its loss, leads to.
After(state, answer) ==
    IF answer = "ok" THEN IF state \in Mutating THEN "save" ELSE "done"
    ELSE IF answer = "lost" /\ state \in DOMAIN Repeat THEN Repeat[state]
    ELSE IF state \notin Mutating THEN "saveFailed"
    ELSE IF answer = "lost" \/ ~IsConclusive(state) THEN "unknown"
    ELSE IF answer = "expired" THEN "expired" ELSE "failed"

\* The request that a state of the front end waits for.
Awaited(o, state) ==
    IF state \in Waiting
    THEN {[op |-> o, cmd |-> IF state \in Mutating THEN "mutate" ELSE "save",
           late |-> FALSE]}
    ELSE {}

\* The front end goes to state; rest are the requests that are on their way.
Continue(o, state, rest) ==
    /\ client' = [client EXCEPT ![o] = state]
    /\ wire' = rest \cup Awaited(o, state)

\* A mutation of the user; one whose outcome is unknown is repeated under its ID.
Call(o) ==
    /\ client[o] \in {"idle", "unknown"} /\ calls[o] < load.calls
    /\ calls' = [calls EXCEPT ![o] = @ + 1]
    /\ Continue(o, "first", wire)
    /\ UNCHANGED <<vault, books, platform>>

\* retryMutationSave.
RetrySave(o) ==
    /\ client[o] = "saveFailed" /\ calls[o] < load.calls
    /\ calls' = [calls EXCEPT ![o] = @ + 1]
    /\ Continue(o, "save", wire)
    /\ UNCHANGED <<vault, books, platform>>

\* The transport gives up (isAmbiguousMutationFailure): the request is lost, or
\* is late and may still be executed.  Bound: one late request of each kind.
Ambiguous(o) ==
    /\ client[o] \in Waiting
    /\ \E lost \in SUBSET Awaited(o, client[o]) :
         Continue(o, After(client[o], "lost"),
                  (wire \ Awaited(o, client[o]))
                     \cup {[q EXCEPT !.late = TRUE] : q \in Awaited(o, client[o]) \ lost})
    /\ UNCHANGED <<calls, vault, books, platform>>

\* The answer to q, which may be lost on its way back.
Reply(q, answer) ==
    /\ UNCHANGED calls
    /\ IF q.late
       THEN wire' = wire \ {q} /\ UNCHANGED client
       ELSE \E a \in {answer, "lost"} :
               Continue(q.op, After(client[q.op], a), wire \ {q})

\* The worker finds q cancelled, or it is refused before it reaches the worker.
Refuse(q) ==
    /\ Reply(q, "error")
    /\ UNCHANGED <<vault, books, platform>>

----------------------------------------------------------------------------
(* What the worker remembers (ResidentMutationState). *)

Keys(seq) == {seq[k].op : k \in 1 .. Len(seq)}

\* Mutant: a receipt makes no room.
RecordReceiptUnbounded(o) ==
    receipts' = Append(receipts, [op |-> o, full |-> TRUE]) /\ UNCHANGED evicted

\* record_operation_receipt, after a lookup that found none.
RecordReceipt(o) ==
    LET all == Append(receipts, [op |-> o, full |-> TRUE])
    IN  IF Len(all) > MaxReceipts
        THEN receipts' = Tail(all) /\ evicted' = evicted \cup {Head(all).op}
        ELSE receipts' = all /\ UNCHANGED evicted

\* The retain of record_save_receipt: an operation ID is in the order once.
Without(seq, o) ==
    IF o \in {seq[k] : k \in 1 .. Len(seq)}
    THEN LET k == CHOOSE j \in 1 .. Len(seq) : seq[j] = o
         IN  SubSeq(seq, 1, k - 1) \o SubSeq(seq, k + 1, Len(seq))
    ELSE seq

\* record_save_receipt.
WithSave(seq, o) ==
    LET all == Append(Without(seq, o), o)
    IN  IF Len(all) > MaxReceipts THEN Tail(all) ELSE all

\* Mutant: the receipts go with the session.
ScrubForgets == receipts' = <<>>

\* scrub_session_secrets: the responses go, the operation IDs stay.
Scrub == receipts' = [k \in 1 .. Len(receipts) |-> [receipts[k] EXCEPT !.full = FALSE]]

Fault == faults < MaxFaults /\ faults' = faults + 1

\* ensure_generic_save_allowed: no save while a submission is pending.
SaveAllowed == ~chain

\* save_vault stores v ...
Stores(v) == SaveAllowed /\ stored' = v /\ UNCHANGED faults

\* ... or is refused, or fails.
SaveFails == UNCHANGED stored /\ (Fault \/ (~SaveAllowed /\ UNCHANGED faults))

\* Mutant: a receipt for whatever the inline save answered.
InlineSaveReceipted(o, v) ==
    /\ \/ Stores(v) /\ unsaved' = FALSE
       \/ SaveFails /\ unsaved' = TRUE
    /\ saves' = WithSave(saves, o)

\* Mutant: the edit counts as saved whatever the save answered.
InlineSaveOptimistic(o, v) ==
    /\ unsaved' = FALSE
    /\ \/ Stores(v) /\ saves' = WithSave(saves, o)
       \/ SaveFails /\ UNCHANGED saves

\* The save behind a mutation, of vault v, and record_inline_save.
InlineSave(o, v) ==
    \/ /\ Stores(v) /\ unsaved' = FALSE
       /\ saves' = WithSave(saves, o)
    \/ /\ SaveFails /\ unsaved' = TRUE
       /\ UNCHANGED saves

----------------------------------------------------------------------------
(* The worker: one request after the other. *)

\* lookup_operation_receipt: the mutation is answered from its receipt.
Replay(q) ==
    /\ q.cmd = "mutate"
    /\ \E k \in 1 .. Len(receipts) :
          /\ receipts[k].op = q.op
          /\ Reply(q, IF receipts[k].full THEN "ok" ELSE "expired")
    /\ UNCHANGED <<vault, books, platform>>

\* A mutation is executed and saved.
Execute(q) ==
    /\ q.cmd = "mutate" /\ q.op \notin Keys(receipts) /\ unlocked
    /\ live' = [live EXCEPT !.edits = @ \cup {q.op}]
    /\ runs' = [runs EXCEPT ![q.op] = @ + 1]
    /\ InlineSave(q.op, live')
    /\ RecordReceipt(q.op)
    /\ Reply(q, "ok")
    /\ UNCHANGED <<unlocked, platform>>

\* The mutation fails: the session is locked, or the runtime refuses it.
ExecuteFails(q) ==
    /\ q.cmd = "mutate" /\ q.op \notin Keys(receipts)
    /\ Reply(q, "error")
    /\ UNCHANGED <<vault, books, platform>>

\* save_receipt: the save behind the mutation did it.
ReplaySave(q) ==
    /\ q.cmd = "save" /\ \E k \in 1 .. Len(saves) : saves[k] = q.op
    /\ Reply(q, "ok")
    /\ UNCHANGED <<vault, books, platform>>

ExecuteSave(q) ==
    /\ q.cmd = "save" /\ ~ \E k \in 1 .. Len(saves) : saves[k] = q.op
    /\ \/ /\ unlocked /\ Stores(live) /\ unsaved' = FALSE
          /\ saves' = <<q.op>>
          /\ Reply(q, "ok")
       \/ /\ unlocked /\ SaveFails /\ UNCHANGED <<unsaved, saves>>
          /\ Reply(q, "error")
       \/ /\ ~unlocked /\ UNCHANGED <<stored, unsaved, saves, faults>>
          /\ Reply(q, "error")
    /\ UNCHANGED <<unlocked, live, receipts, runs, evicted, platform>>

\* The vault counts as saved, and the receipts of its saves go.
CountsAsSaved == unsaved' = FALSE /\ saves' = <<>>

\* A save without an operation ID, or a change of the database settings.
SaveVault ==
    /\ unlocked /\ Stores(live) /\ CountsAsSaved
    /\ UNCHANGED <<front, unlocked, live, receipts, runs, evicted, platform>>

\* PersistAutofillMutation: the submission and the edits of the open vault are
\* stored in the source, or after an unknown outcome in the remote cache, where
\* they are pending.  (What it submits is the subject of AutofillPersist.)
PersistAutofill ==
    /\ unlocked /\ ~chain /\ stored' = live /\ CountsAsSaved
    /\ (UNCHANGED faults /\ chain' = FALSE) \/ (Fault /\ chain' = TRUE)
    /\ UNCHANGED <<load, client, calls, wire, forgotten, unlocked, live, receipts, runs,
                   evicted, active, plugin, copy, lease, relock, undone>>

\* The pending submission is repeated: it is found in the cache and answered as
\* durable, and no edit of the open vault is stored.
ReplayAutofill ==
    /\ unlocked /\ chain /\ CountsAsSaved
    /\ forgotten' = forgotten \cup (live.edits \ stored.edits)
    /\ UNCHANGED <<load, chain, client, calls, wire, unlocked, live, stored, faults,
                   receipts, runs, evicted, active, plugin, copy, lease, relock, undone>>

\* Mutant: unsaved edits are not looked at.
MayDiscardAnyway == lease = {}

\* platform_passkey_operation_preflight_error, preflight_error: commands that
\* change the session are refused.
MayDiscard == lease = {} /\ ~unsaved

\* lock_session: the open vault is dropped.
Drop == unlocked' = FALSE /\ live' = stored

LockSession ==
    /\ unlocked /\ MayDiscard /\ Drop /\ Scrub
    /\ UNCHANGED <<front, stored, unsaved, faults, saves, runs, evicted, platform>>

\* RetryVaultSourceSync: the vault is read again, ...
Reload ==
    /\ unlocked /\ MayDiscard /\ ~chain /\ live' = stored
    /\ UNCHANGED <<front, unlocked, stored, unsaved, faults, books, platform>>

\* ... or the pending submission goes to the source with the open vault's edits.
RetrySync ==
    /\ unlocked /\ MayDiscard /\ chain
    /\ chain' = FALSE /\ stored' = live /\ forgotten' = forgotten \ live.edits
    /\ UNCHANGED <<load, client, calls, wire, unlocked, live, unsaved, faults, books,
                   active, plugin, copy, lease, relock, undone>>

\* A command that unlocks or selects the vault.
Unlock ==
    /\ MayDiscard /\ unlocked' = TRUE /\ live' = stored /\ Scrub
    /\ UNCHANGED <<front, stored, unsaved, faults, saves, runs, evicted, platform>>

\* persist_unsaved_before_idle_lock, when it succeeds.
PersistUnsaved ==
    IF unsaved THEN Stores(live) /\ CountsAsSaved
               ELSE UNCHANGED <<stored, unsaved, saves, faults>>

\* The idle deadline: unsaved edits are saved first, or the session stays open.
IdleLock ==
    /\ unlocked /\ lease = {}
    /\ \/ /\ PersistUnsaved
          /\ unlocked' = FALSE /\ live' = stored' /\ Scrub
       \/ /\ unsaved /\ SaveFails
          /\ UNCHANGED <<unlocked, live, unsaved, saves, receipts>>
    /\ UNCHANGED <<front, runs, evicted, platform>>

----------------------------------------------------------------------------
(* The passkey plugin and its operations. *)

\* PluginOperationState::begin: one operation at a time.
PluginBegin(p) ==
    /\ plugin[p] = "idle" /\ active = NoPlat
    /\ active' = p
    /\ plugin' = [plugin EXCEPT ![p] = "begun"]
    /\ UNCHANGED <<front, vault, books, copy, lease, relock, undone>>

\* prepare_platform_passkey_operation: the vault is unlocked for the operation
\* when it is locked, whatever is unsaved.
Prepare(p) ==
    /\ plugin[p] = "begun"
    /\ \/ /\ plugin' = [plugin EXCEPT ![p] = "prepared"]
          /\ lease' = lease \cup {p}
          /\ IF unlocked THEN UNCHANGED <<unlocked, live, relock, receipts>>
             ELSE unlocked' = TRUE /\ live' = stored /\ relock' = TRUE /\ Scrub
       \/ /\ plugin' = [plugin EXCEPT ![p] = "used"]
          /\ UNCHANGED <<lease, unlocked, live, relock, receipts>>
    /\ UNCHANGED <<front, stored, unsaved, faults, saves, runs, evicted, active, copy, undone>>

\* An assertion, or a registration that fails: the verification is consumed.
UseVerification(p) ==
    /\ plugin[p] = "prepared"
    /\ plugin' = [plugin EXCEPT ![p] = "used"]
    /\ UNCHANGED <<front, vault, books, active, copy, lease, relock, undone>>

\* register_platform_passkey_for_operation: the entry gets the new passkey, in
\* memory; a copy of the entry is kept.
Register(p) ==
    /\ plugin[p] = "prepared"
    /\ plugin' = [plugin EXCEPT ![p] = "registered"]
    /\ copy' = [copy EXCEPT ![p] = [live EXCEPT !.edits = @ \cap load.shared]]
    /\ live' = [live EXCEPT !.passkey = p]
    /\ UNCHANGED <<front, unlocked, stored, unsaved, faults, books, active, lease,
                   relock, undone>>

\* restore_passkey_registration_rollback: the entry is the copy again, if it
\* still has the passkey of the operation.
RolledBack(p) ==
    IF copy[p] # NoCopy /\ live.passkey = p
    THEN [edits |-> (live.edits \ load.shared) \cup copy[p].edits, passkey |-> copy[p].passkey]
    ELSE live

\* commit_platform_passkey_registration: saved, saved to a conflict copy only,
\* or not saved.
Commit(p) ==
    /\ plugin[p] = "registered"
    /\ \/ Stores(live) /\ UNCHANGED <<live, undone>>
       \/ /\ Stores([live EXCEPT !.passkey = stored.passkey])
          /\ live' = RolledBack(p) /\ undone' = undone \cup (live.edits \ live'.edits)
       \/ /\ SaveFails
          /\ live' = RolledBack(p) /\ undone' = undone \cup (live.edits \ live'.edits)
    /\ plugin' = [plugin EXCEPT ![p] = "used"]
    /\ copy' = [copy EXCEPT ![p] = NoCopy]
    /\ UNCHANGED <<front, unlocked, unsaved, books, active, lease, relock>>

\* end_operation_callback: the next operation may begin before the worker has
\* got the message that this one ended.
PluginEnd(p) ==
    /\ active = p
    /\ active' = NoPlat
    /\ plugin' = [plugin EXCEPT ![p] = "ending"]
    /\ UNCHANGED <<front, vault, books, copy, lease, relock, undone>>

\* Mutant: the session is locked again after the first operation that ends.
RelocksAfterFirst(rest) == relock

\* same_lease_remains.
RelocksAfter(rest) == relock /\ rest = {}

\* end_platform_passkey_operation: a registration that was not committed is
\* rolled back and a session that was unlocked for operations is locked again.
EndOperation(p) ==
    /\ plugin[p] = "ending"
    /\ plugin' = [plugin EXCEPT ![p] = "ended"]
    /\ copy' = [copy EXCEPT ![p] = NoCopy]
    /\ lease' = lease \ {p}
    /\ IF RelocksAfter(lease')
       THEN Drop /\ Scrub /\ relock' = FALSE
       ELSE live' = RolledBack(p) /\ UNCHANGED <<unlocked, receipts, relock>>
    /\ undone' = undone \cup (live.edits \ live'.edits)
    /\ UNCHANGED <<front, stored, unsaved, faults, saves, runs, evicted, active>>

Init ==
    /\ load \in Workloads
    /\ client = [o \in Op |-> "idle"] /\ calls = [o \in Op |-> 0]
    /\ wire = {}
    /\ unlocked = FALSE /\ unsaved = FALSE /\ faults = 0
    /\ live = [edits |-> {}, passkey |-> NoPlat] /\ stored = live
    /\ receipts = <<>> /\ saves = <<>>
    /\ active = NoPlat /\ plugin = [p \in Plat |-> "idle"]
    /\ copy = [p \in Plat |-> NoCopy] /\ lease = {} /\ relock = FALSE
    /\ runs = [o \in Op |-> 0] /\ evicted = {} /\ undone = {}
    /\ chain = FALSE /\ forgotten = {}

Serve(q) ==
    \/ Refuse(q) \/ Replay(q) \/ Execute(q) \/ ExecuteFails(q)
    \/ ReplaySave(q) \/ ExecuteSave(q)

Plugin(p) ==
    \/ PluginBegin(p) \/ Prepare(p) \/ UseVerification(p) \/ Register(p) \/ Commit(p)
    \/ PluginEnd(p) \/ EndOperation(p)

Next ==
    \/ \E o \in load.op : Call(o) \/ RetrySave(o) \/ Ambiguous(o)
    \/ \E q \in wire : Serve(q)
    \/ SaveVault \/ PersistAutofill \/ ReplayAutofill
    \/ LockSession \/ Unlock \/ Reload \/ RetrySync \/ IdleLock
    \/ \E p \in load.plat : Plugin(p)

Spec == Init /\ [][Next]_vars

----------------------------------------------------------------------------
(* Properties. *)

TypeOK ==
    /\ load \in Workloads
    /\ client \in [Op -> Waiting \cup {"idle", "unknown", "failed", "expired",
                                       "saveFailed", "done"}]
    /\ calls \in [Op -> 0 .. MaxCalls] /\ wire \subseteq Request
    /\ unlocked \in BOOLEAN /\ unsaved \in BOOLEAN /\ faults \in 0 .. MaxFaults
    /\ live \in Vault /\ stored \in Vault
    /\ receipts \in Seq([op : Op, full : BOOLEAN]) /\ Len(receipts) <= MaxReceipts
    /\ saves \in Seq(Op) /\ Len(saves) <= MaxReceipts
    /\ active \in Plat \cup {NoPlat}
    /\ plugin \in [Plat -> {"idle", "begun", "prepared", "registered", "used",
                            "ending", "ended"}]
    /\ copy \in [Plat -> Vault \cup {NoCopy}]
    /\ lease \subseteq Plat /\ relock \in BOOLEAN
    /\ runs \in [Op -> Nat] /\ evicted \subseteq Op /\ undone \subseteq Op
    /\ chain \in BOOLEAN /\ forgotten \subseteq Op

\* A mutation is executed once however often it is repeated, also across a lock
\* and an unlock and by requests that were given up and arrive late; unless its
\* receipt had to make room for MaxReceipts later ones.
ExecutedOnce == \A o \in Op : runs[o] > 1 => o \in evicted

\* A mutation whose save was answered is stored, whether the answer is that of
\* this save or the receipt of an earlier one.  (The rollback of a plugin
\* registration undoes later edits of the same entry, and the end of a plugin
\* operation drops unsaved ones: undone.  An edit that was dropped as saved
\* without being stored can be answered for by a later save: forgotten.)
SavedIsStored ==
    \A o \in Op : client[o] = "done" => o \in stored.edits \cup undone \cup forgotten

\* The bridge knows of every edit that is not stored, so that its preflight and
\* its idle lock can keep it; except the edits made while a submission of the
\* autofill is pending, when that submission is repeated: its answer counts as a
\* save (runtime_bridge.rs 1532, 1603, 736) and stores none of them.
EditsTracked == live.edits \subseteq stored.edits \cup forgotten \/ unsaved

\* The session is never locked, unlocked or loaded again with edits that are
\* not saved, whoever asks for it and whenever the idle deadline passes.  (The
\* end of a plugin operation does drop some: RelockKeepsEdits; and so does any
\* lock after the repetition of a pending submission: forgotten.)
EditsKept == [][live.edits \subseteq live'.edits \cup undone' \cup forgotten]_vars

\* Whatever locks the session, the edits made in it are stored (those apart that
\* EditsKept leaves out as forgotten).
RelockKeepsEdits ==
    [][(unlocked /\ ~unlocked') => live.edits \subseteq stored'.edits \cup forgotten]_vars

\* What the front end concludes is true for good: a mutation reported as failed
\* is not executed, not even later, and one that is reported as done was.
AnswersTrue ==
    \A o \in Op :
        /\ client[o] = "failed" /\ calls[o] = 1 => runs[o] = 0
        /\ client[o] \in {"save", "saveAgain", "saveFailed", "done", "expired"}
              => runs[o] >= 1

\* A plugin operation keeps its session as long as it runs, and a session that
\* was unlocked for operations is locked when the last of them has ended, in
\* whatever order their messages arrive.
SessionForOperations ==
    /\ lease # {} => unlocked
    /\ relock => lease # {}

\* The bridge's account of the edits is right: an edit it does not know as
\* unsaved is stored, and so is one whose save was answered.
EditsAccounted == EditsTracked /\ SavedIsStored

\* What a front end concludes from its answers, repeated, given up and late
\* requests included, is what happened to its mutations.
OutcomesTrue == ExecutedOnce /\ AnswersTrue

\* The session stays with the plugin operations that need it and receipts stay
\* within their limit, in whatever order requests and operations come.
SessionSound == TypeOK /\ SessionForOperations
============================================================================
