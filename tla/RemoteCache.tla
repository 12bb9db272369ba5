---------------------------- MODULE RemoteCache ----------------------------
(***************************************************************************)
(* The durable cache of one remote vault (providers/remote_cache.rs).      *)
(*                                                                         *)
(* A cache key owns one manifest file, the commit point, and a set of      *)
(* immutable generation files named after the hash of their bytes.  The    *)
(* manifest names the current generation, the previous one (a fallback)    *)
(* and, for a pending save, the source generation the save was made from.  *)
(* Every operation runs under the key's exclusive file lock, so at most    *)
(* one transaction is in flight, whatever the number of processes; a       *)
(* process may die inside it and the machine may lose power at any step.   *)
(*                                                                         *)
(* A byte string is identified with its SHA-256 (an element of Content).   *)
(***************************************************************************)
EXTENDS Naturals, Sequences, FiniteSets

CONSTANTS
    Content,      \* byte strings a vault file can hold
    OpId,         \* operation ids of autofill saves
    Cond,         \* source conditions (an ETag or a revision)
    NoContent, NoOp, NoCond, NoGen, NoManifest, NoReq,
    MaxFaults,    \* how many faults may happen: a file damaged, a process
                  \* dying in a transaction, an outcome left unknown
    MaxCuts       \* how many generation files may be left visible but not
                  \* synchronized by a publish that failed between the two

ASSUME ConstantsAssumption ==
    /\ NoContent \notin Content /\ NoOp \notin OpId /\ NoCond \notin Cond
    /\ MaxFaults \in Nat /\ MaxCuts \in Nat

VARIABLES
    manifest,     \* the manifest file as a reader sees it, or NoManifest
    exposed,      \* the manifests a power loss may leave behind
    gens,         \* [Content -> {"absent", "ok", "bad"}], generation files
    unsynced,     \* generation files whose directory entry may be lost
    bytesFile,    \* the bytes file of the version-1 layout
    retired,      \* the retirement marker is present
    txn,          \* the transaction holding the lock
    owed,         \* history: the contents, one of which every manifest a
                  \* power loss can expose must still hold, because a pending
                  \* save of it was acknowledged and is not resolved
    faults,       \* number of faults injected so far
    cuts          \* number of generation publishes cut short so far

files == <<manifest, exposed, gens, unsynced, bytesFile>>
vars  == <<files, retired, txn, owed, faults, cuts>>

ResidentKind == {"Generic", "ConflictCopy"}
PendingKind  == ResidentKind \cup {"None", "Autofill", "Unset"}

\* RemoteVaultGeneration: kind "Unset" is pending_kind = None of old layouts.
Generation == [c : Content, pending : BOOLEAN, kind : PendingKind,
               op : OpId \cup {NoOp}, cond : Cond \cup {NoCond}]

Manifest == [version : 1 .. 3, current : Generation,
             previous : Generation \cup {NoGen},
             observed : Generation \cup {NoGen}]

Committed(c, cond) ==
    [c |-> c, pending |-> FALSE, kind |-> "None", op |-> NoOp, cond |-> cond]

-----------------------------------------------------------------------------
(* Reading the committed state under the lock. *)

GenerationPendingSchemaIsValid(g) ==
    CASE g.kind = "None"         -> ~g.pending /\ g.op = NoOp
      [] g.kind \in ResidentKind -> g.pending /\ g.op = NoOp
      [] g.kind = "Autofill"     -> g.pending /\ g.op # NoOp
      [] OTHER                   -> FALSE

Fallbacks(m) == {m.previous, m.observed} \ {NoGen}

Referenced(m) == {g.c : g \in {m.current} \cup Fallbacks(m)}

\* read_generation: the file exists and hashes to the name it carries.
ReadGeneration(g) == gens[g.c] = "ok"

CurrentIsReadable(m) ==
    IF m.version = 1 THEN bytesFile = "ok" ELSE ReadGeneration(m.current)

SchemaIsValid(m) ==
    m.version = 3 =>
        \A g \in {m.current} \cup Fallbacks(m) : GenerationPendingSchemaIsValid(g)

\* read_authenticated_locked
ReadStatus ==
    IF manifest = NoManifest THEN "Missing"
    ELSE IF ~SchemaIsValid(manifest) THEN "Corrupt"
    ELSE IF CurrentIsReadable(manifest) THEN "Current"
    ELSE IF manifest.version # 1 /\ manifest.previous # NoGen
              /\ ReadGeneration(manifest.previous) THEN "Degraded"
    ELSE "Corrupt"

IsLegacy == manifest.version # 3

-----------------------------------------------------------------------------
(* What each kind of write must prove about the committed state. *)

Cur == manifest.current

IsCommitted(g) == ~g.pending /\ g.op = NoOp /\ g.kind = "None"

\* pending_chain_from_current: the current generation is a pending autofill
\* save whose plan baseline and observed source are both authenticated.
PendingChainIsSound ==
    /\ Cur.pending /\ ~IsLegacy
    /\ Cur.kind = "Autofill" /\ Cur.op # NoOp
    /\ manifest.previous # NoGen /\ manifest.observed # NoGen
    /\ IsCommitted(manifest.previous) /\ IsCommitted(manifest.observed)
    /\ Cur.cond # NoCond /\ Cur.cond = manifest.observed.cond
    /\ Cur.c \notin {manifest.previous.c, manifest.observed.c}
    /\ ReadGeneration(manifest.previous) /\ ReadGeneration(manifest.observed)

\* resident_pending_kind_matches, and the reading of a legacy pending entry
\* as a source write; kinds is the set of kinds the proof accepts.
PendingIsGeneric(kinds) ==
    /\ Cur.pending /\ Cur.op = NoOp
    /\ \/ Cur.kind \in kinds
       \/ /\ IsLegacy /\ manifest.observed = NoGen
          /\ kinds # {"ConflictCopy"}

\* A request carries the arguments of the call that makes it.
Request ==
    [op : {"write", "pendAutofill", "completeAutofill", "update", "complete"},
     c : Content, cond : Cond \cup {NoCond}, id : OpId \cup {NoOp},
     expected : Content \cup {NoContent}, obs : Content \cup {NoContent},
     kind : ResidentKind \cup {"None"}]

\* The values that stand for "none" are none of the values they stand for.
ASSUME NullsAssumption ==
    NoGen \notin Generation /\ NoManifest \notin Manifest /\ NoReq \notin Request

Req(op, c, cond, id, expected, obs, kind) ==
    [op |-> op, c |-> c, cond |-> cond, id |-> id, expected |-> expected,
     obs |-> obs, kind |-> kind]

\* The condition other writes record is never compared: it is left out.
WriteRequests ==
    {Req("write", c, NoCond, NoOp, NoContent, NoContent, "None") : c \in Content}

PendAutofillRequests ==
    {r \in {Req("pendAutofill", c, cond, id, base, obs, "None") :
                c \in Content, cond \in Cond, id \in OpId,
                base \in Content, obs \in Content} :
        r.c \notin {r.expected, r.obs}}

CompleteAutofillRequests ==
    {Req("completeAutofill", c, NoCond, id, pend, NoContent, "None") :
        c \in Content, id \in OpId, pend \in Content}

UpdateRequests ==
    {Req("update", c, NoCond, NoOp, expected, obs, "Generic") :
        c \in Content, expected \in Content, obs \in Content \cup {NoContent}}
    \cup
    {Req("update", c, NoCond, NoOp, expected, NoContent, "ConflictCopy") :
        c \in Content, expected \in Content}

CompleteRequests ==
    {Req("complete", c, NoCond, NoOp, expected, NoContent, "None") :
        c \in Content, expected \in Content}

\* The kinds a resident proof accepts: a completion takes either.
ProofKinds(r) == IF r.op = "complete" THEN ResidentKind ELSE {r.kind}

\* A completion whose result is already committed, on top of the pending
\* generation it was to complete, is answered without a write.
CompletionIsReplay(r) ==
    LET g == manifest.previous
    IN  /\ ~Cur.pending /\ g # NoGen /\ g.pending
        /\ IF r.op = "complete" THEN g.kind \in ResidentKind /\ g.op = NoOp
                                ELSE g.kind = "Autofill" /\ g.op = r.id
        /\ g.c = r.expected /\ ReadGeneration(g)
        /\ Cur.c = r.c

PublishIsReplay(r) ==
    /\ PendingChainIsSound
    /\ Cur.op = r.id /\ Cur.c = r.c /\ Cur.cond = r.cond
    /\ manifest.observed.c = r.obs /\ manifest.previous.c = r.expected

IsReplay(r) ==
    /\ ReadStatus = "Current"
    /\ \/ r.op \in {"complete", "completeAutofill"} /\ CompletionIsReplay(r)
       \/ r.op = "pendAutofill" /\ PublishIsReplay(r)

\* Mutant: the plan baseline is not compared with the committed generation,
\* and a completion is not bound to its operation.
IsAuthorizedUnbound(r) ==
    \/ ReadStatus = "Missing" /\ r.op \in {"write", "update"}
    \/ /\ ReadStatus = "Current"
       /\ CASE r.op = "write"            -> ~Cur.pending
            [] r.op = "pendAutofill"     -> ~Cur.pending
            [] r.op = "completeAutofill" -> PendingChainIsSound /\ Cur.c = r.expected
            [] r.op = "update" ->
                  /\ Cur.c = r.expected
                  /\ ~Cur.pending \/ PendingIsGeneric(ProofKinds(r))
            [] r.op = "complete" ->
                  Cur.c = r.expected /\ PendingIsGeneric(ProofKinds(r))

\* The authorization block of write_with_source_context_locked.
IsAuthorized(r) ==
    \/ ReadStatus = "Missing" /\ r.op \in {"write", "update"}
    \/ /\ ReadStatus = "Current"
       /\ CASE r.op = "write"        -> ~Cur.pending
            [] r.op = "pendAutofill" -> ~Cur.pending /\ Cur.c = r.expected
            [] r.op = "completeAutofill" ->
                  /\ PendingChainIsSound
                  /\ Cur.op = r.id /\ Cur.c = r.expected
            [] r.op = "update" ->
                  /\ Cur.c = r.expected
                  /\ ~Cur.pending \/ PendingIsGeneric(ProofKinds(r))
            [] r.op = "complete" ->
                  Cur.c = r.expected /\ PendingIsGeneric(ProofKinds(r))

-----------------------------------------------------------------------------
(* The manifest a write publishes. *)

\* A legacy current generation is rewritten in the new layout before it is
\* referenced as a previous one.
NormalizedCurrent ==
    IF IsLegacy
      THEN [Cur EXCEPT !.kind = IF Cur.pending THEN "Generic" ELSE "None"]
      ELSE Cur

PreviousGeneration(r) ==
    IF manifest = NoManifest THEN NoGen
    ELSE IF r.op \in {"write", "update"} /\ Cur.c = r.c THEN manifest.previous
    ELSE NormalizedCurrent

InheritedObserved(r) ==
    IF r.op # "update" \/ manifest = NoManifest THEN NoGen
    ELSE IF ~Cur.pending THEN NormalizedCurrent
    ELSE IF manifest.observed # NoGen THEN manifest.observed
    ELSE IF manifest.previous # NoGen /\ IsCommitted(manifest.previous)
      THEN manifest.previous
    ELSE NoGen

PublishedKind(r) ==
    CASE r.op = "pendAutofill" -> "Autofill"
      [] r.op = "update"       -> r.kind
      [] OTHER                 -> "None"

NextManifest(r) ==
    [version  |-> 3,
     current  |-> [c |-> r.c, pending |-> r.op \in {"pendAutofill", "update"},
                   kind |-> PublishedKind(r),
                   op |-> IF r.op = "pendAutofill" THEN r.id ELSE NoOp,
                   cond |-> r.cond],
     previous |-> PreviousGeneration(r),
     observed |-> IF r.obs # NoContent THEN Committed(r.obs, r.cond)
                                       ELSE InheritedObserved(r)]

\* Generation files to make durable before the manifest may name them, in
\* the order legacy current, observed source, candidate.
Todo(r) ==
    {r.c} \cup ({r.obs} \ {NoContent})
          \cup (IF manifest # NoManifest /\ IsLegacy THEN {Cur.c} ELSE {})

-----------------------------------------------------------------------------
(* Transactions. *)

Stage == {"idle", "source", "generations", "replaced", "durable",
          "guard", "removed", "purge"}

Transaction ==
    [stage : Stage, req : Request \cup {NoReq}, todo : SUBSET Content,
     saved : Manifest \cup {NoManifest}]

Idle == [stage |-> "idle", req |-> NoReq, todo |-> {}, saved |-> NoManifest]

At(stage) == txn.stage = stage

Fault == faults < MaxFaults /\ faults' = faults + 1

\* Generations as the earlier releases wrote them.
OldGenerations == [c : Content, pending : BOOLEAN, kind : {"Unset"},
                   op : {NoOp}, cond : {NoCond}]

\* A committed manifest of an earlier run, or of an earlier release: the
\* version-1 pair, and the version-2 manifest, whose previous generation is
\* another one than its current.
InitialManifests ==
    {NoManifest}
    \cup [version : {3}, current : {Committed(c, NoCond) : c \in Content},
          previous : {NoGen}, observed : {NoGen}]
    \cup [version : {1}, current : OldGenerations,
          previous : {NoGen}, observed : {NoGen}]
    \cup {m \in [version : {2}, current : OldGenerations,
                 previous : OldGenerations \cup {NoGen}, observed : {NoGen}] :
             m.previous # NoGen => m.previous.c # m.current.c}

PendingContent(m) ==
    IF m # NoManifest /\ m.current.pending THEN {m.current.c} ELSE {}

Init ==
    /\ manifest \in InitialManifests
    /\ exposed = {manifest}
    /\ gens = [c \in Content |->
                 IF manifest # NoManifest /\ manifest.version # 1
                      /\ c \in Referenced(manifest)
                   THEN "ok" ELSE "absent"]
    /\ unsynced = {}
    /\ bytesFile = IF manifest # NoManifest /\ manifest.version = 1
                     THEN "ok" ELSE "absent"
    /\ retired = FALSE
    /\ txn = Idle
    /\ owed = PendingContent(manifest)
    /\ faults = 0
    /\ cuts = 0

Start(r) ==
    txn' = [stage |-> "generations", req |-> r, todo |-> Todo(r),
            saved |-> NoManifest]

\* write_with_source_context: lock, refuse a retired cache, check the proof.
\* A refused call changes nothing.
BeginWrite(r) ==
    /\ At("idle") /\ ~retired
    /\ ~IsReplay(r) /\ IsAuthorized(r)
    /\ Start(r)
    /\ UNCHANGED <<files, retired, owed, faults, cuts>>

\* complete_generic_pending_while: the lock is held over the source write.
BeginSourceWrite(expected) ==
    /\ At("idle")
    /\ ReadStatus = "Current" /\ PendingIsGeneric(ResidentKind)
    /\ Cur.c = expected
    /\ txn' = [Idle EXCEPT !.stage = "source",
                 !.req = Req("complete", expected, NoCond, NoOp, expected,
                             NoContent, "None")]
    /\ UNCHANGED <<files, retired, owed, faults, cuts>>

SourceWriteSucceeds(c) ==
    /\ At("source")
    /\ LET r == [txn.req EXCEPT !.c = c]
       IN  IF ~retired /\ IsAuthorized(r) THEN Start(r) ELSE txn' = Idle
    /\ UNCHANGED <<files, retired, owed, faults, cuts>>

SourceWriteFails ==
    /\ At("source")
    /\ txn' = Idle
    /\ UNCHANGED <<files, retired, owed, faults, cuts>>

\* The pending save was resolved at the source: nothing is owed any longer
\* once the completed manifest is the visible one.
IsCompletion == txn.req.op \in {"complete", "completeAutofill"}

\* The files are ensured in a fixed order, the candidate last.
IsNextTodo(c) ==
    /\ c \in txn.todo
    /\ c = txn.req.c => txn.todo = {c}
    /\ c = txn.req.obs => txn.todo \subseteq {c, txn.req.c}

\* ensure_generation: reuse an authenticated file or publish a new one.
EnsureGeneration(c) ==
    /\ At("generations") /\ IsNextTodo(c)
    /\ gens[c] # "bad"
    /\ gens' = [gens EXCEPT ![c] = "ok"]
    /\ txn' = [txn EXCEPT !.todo = @ \ {c}]
    /\ UNCHANGED <<manifest, exposed, unsynced, bytesFile, retired, owed, faults, cuts>>

\* ensure_generation failing: a damaged file, an error before the file was
\* published, or one after it, which leaves it visible but not synchronized.
EnsureGenerationFails(c) ==
    /\ At("generations") /\ IsNextTodo(c)
    /\ txn' = Idle
    /\ \/ gens[c] # "ok" /\ UNCHANGED <<gens, unsynced, cuts>>
       \/ /\ gens[c] = "absent" /\ cuts < MaxCuts
          /\ cuts' = cuts + 1
          /\ gens' = [gens EXCEPT ![c] = "ok"]
          /\ unsynced' = unsynced \cup {c}
    /\ UNCHANGED <<manifest, exposed, bytesFile, retired, owed, faults>>

\* publish_manifest: an error before the replacement leaves the old manifest.
PublishFails ==
    /\ At("generations") /\ txn.todo = {}
    /\ txn' = Idle
    /\ UNCHANGED <<files, retired, owed, faults, cuts>>

ReplaceManifest ==
    /\ At("generations") /\ txn.todo = {}
    /\ manifest' = NextManifest(txn.req)
    /\ exposed' = exposed \cup {manifest'}
    /\ owed' = IF owed = {} THEN {} ELSE owed \cup {txn.req.c}
    /\ txn' = [txn EXCEPT !.stage = "replaced", !.saved = manifest]
    /\ UNCHANGED <<gens, unsynced, bytesFile, retired, faults, cuts>>

\* Mutant: the publish is taken for durable without the directory flush.
SyncManifestSkipped ==
    /\ At("replaced")
    /\ owed' = PendingContent(manifest)
    /\ txn' = [Idle EXCEPT !.stage = "durable"]
    /\ UNCHANGED <<manifest, exposed, gens, unsynced, bytesFile, retired,
                   faults, cuts>>

\* The directory is synchronized, at once or by the repair of a first error.
SyncManifest ==
    /\ At("replaced")
    /\ exposed' = {manifest}
    /\ unsynced' = {}
    /\ owed' = PendingContent(manifest)
    /\ txn' = [Idle EXCEPT !.stage = "durable"]
    /\ UNCHANGED <<manifest, gens, bytesFile, retired, faults, cuts>>

\* Mutant: the restoration puts the old manifest back without flushing it.
RestoreManifestUnsynced ==
    /\ At("replaced")
    /\ manifest' = txn.saved
    /\ exposed' = {manifest}
    /\ owed' = IF owed = {} THEN {} ELSE PendingContent(txn.saved)
    /\ unsynced' = {}
    /\ txn' = Idle
    /\ UNCHANGED <<gens, bytesFile, retired, faults, cuts>>

\* Neither the synchronization nor its repair succeeded: the previous
\* manifest is put back and the call fails as not published.
RestoreManifest ==
    /\ At("replaced")
    /\ manifest' = txn.saved
    /\ exposed' = {txn.saved}
    /\ owed' = IF owed = {} THEN {} ELSE PendingContent(txn.saved)
    /\ unsynced' = {}
    /\ txn' = Idle
    /\ UNCHANGED <<gens, bytesFile, retired, faults, cuts>>

\* The restoration fails too, before or after it replaced the file; the call
\* is answered "DurabilityUnknown", which only a completion accepts.
OutcomeUnknown ==
    /\ At("replaced") /\ Fault
    /\ manifest' \in {manifest, txn.saved}
    /\ owed' = IF IsCompletion /\ manifest' = manifest THEN {} ELSE owed
    /\ txn' = Idle
    /\ UNCHANGED <<exposed, gens, unsynced, bytesFile, retired, cuts>>

\* Mutant: the cleanup forgets the observed source generation.
FinishDurableForgetsObserved(removed) ==
    /\ At("durable")
    /\ removed \subseteq Content \ {g.c : g \in {Cur, manifest.previous} \ {NoGen}}
    /\ gens' = [c \in Content |-> IF c \in removed THEN "absent" ELSE gens[c]]
    /\ txn' = Idle
    /\ UNCHANGED <<manifest, exposed, unsynced, bytesFile, retired, owed, faults,
                   cuts>>

\* cleanup_generations after a durable publish; removals may fail.
FinishDurable(removed) ==
    /\ At("durable")
    /\ removed \subseteq Content \ Referenced(manifest)
    /\ gens' = [c \in Content |-> IF c \in removed THEN "absent" ELSE gens[c]]
    /\ txn' = Idle
    /\ UNCHANGED <<manifest, exposed, unsynced, bytesFile, retired, owed, faults,
                   cuts>>

-----------------------------------------------------------------------------
(* Retirement and deletion. *)

\* Mutant: a pending cache may be retired.
IsDeletableWhilePending == ReadStatus \in {"Missing", "Current"}

\* ensure_deletable_locked
IsDeletable ==
    \/ ReadStatus = "Missing"
    \/ ReadStatus = "Current" /\ ~Cur.pending

\* A version-1 pair whose bytes file does not authenticate.
PairIsDamaged == manifest # NoManifest /\ manifest.version = 1 /\ bytesFile # "ok"

\* ensure_cleanup_intent_deletable_locked: a degraded read counts as pending.
\* The metadata of a corrupt cache is parsed as a version-2 manifest, which a
\* version-1 pair never is: its pending save is not seen.
IsDeletableAfterIntent ==
    \/ IsDeletable
    \/ ReadStatus = "Corrupt" /\ (PairIsDamaged \/ ~Cur.pending)

BeginGuard ==
    /\ retired' = TRUE
    /\ txn' = [Idle EXCEPT !.stage = "guard"]
    /\ UNCHANGED <<files, owed, faults, cuts>>

BeginRetirement == At("idle") /\ IsDeletable /\ BeginGuard

BeginCleanupAfterIntent ==
    At("idle") /\ IsDeletableAfterIntent /\ BeginGuard

\* delete_files_locked: the manifest first, and durably, then the rest.  Of a
\* damaged pair nothing is owed any more: its only copy is the damaged file.
RemoveManifest ==
    /\ At("guard")
    /\ manifest' = NoManifest
    /\ exposed' = exposed \cup {NoManifest}
    /\ txn' = [txn EXCEPT !.stage = "removed"]
    /\ owed' = IF PairIsDamaged THEN {} ELSE owed
    /\ UNCHANGED <<gens, unsynced, bytesFile, retired, faults, cuts>>

SyncAbsence ==
    /\ At("removed")
    /\ exposed' = {manifest}
    /\ unsynced' = {}
    /\ txn' = [txn EXCEPT !.stage = "purge"]
    /\ UNCHANGED <<manifest, gens, bytesFile, retired, owed, faults, cuts>>

PurgeFiles(removed) ==
    /\ At("purge")
    /\ removed \subseteq Content
    /\ bytesFile' = "absent"
    /\ gens' = [c \in Content |-> IF c \in removed THEN "absent" ELSE gens[c]]
    /\ txn' = Idle
    /\ UNCHANGED <<manifest, exposed, unsynced, retired, owed, faults, cuts>>

CancelRetirement ==
    /\ At("guard")
    /\ retired' = FALSE
    /\ txn' = Idle
    /\ UNCHANGED <<files, owed, faults, cuts>>

\* activate_while and recover_activation_while, the reference being current.
Activate ==
    /\ At("idle") /\ retired
    /\ retired' = FALSE
    /\ UNCHANGED <<files, txn, owed, faults, cuts>>

-----------------------------------------------------------------------------
(* The environment. *)

\* The holder of the lock dies, or gives up on an error: the lock is freed.
ProcessDies ==
    /\ ~At("idle") /\ Fault
    /\ txn' = Idle
    /\ owed' = IF At("replaced") /\ IsCompletion THEN {} ELSE owed
    /\ UNCHANGED <<files, retired, cuts>>

PowerLoss(lost) ==
    /\ lost \subseteq unsynced
    /\ manifest' \in exposed
    /\ exposed' = {manifest'}
    /\ gens' = [c \in Content |-> IF c \in lost THEN "absent" ELSE gens[c]]
    /\ unsynced' = {}
    /\ txn' = Idle
    /\ owed' = PendingContent(manifest')
    /\ UNCHANGED <<bytesFile, retired, faults, cuts>>

DamageFile ==
    /\ Fault
    /\ \/ \E c \in Content : /\ gens[c] = "ok"
                            /\ gens' = [gens EXCEPT ![c] = "bad"]
                            /\ UNCHANGED bytesFile
       \/ bytesFile = "ok" /\ bytesFile' = "bad" /\ UNCHANGED gens
    /\ UNCHANGED <<manifest, exposed, unsynced, retired, txn, owed, cuts>>

-----------------------------------------------------------------------------

Requests == WriteRequests \cup PendAutofillRequests
                \cup CompleteAutofillRequests \cup UpdateRequests
                \cup CompleteRequests

Next ==
    \/ \E r \in Requests : BeginWrite(r)
    \/ \E c \in Content :
          \/ BeginSourceWrite(c) \/ SourceWriteSucceeds(c)
          \/ EnsureGeneration(c) \/ EnsureGenerationFails(c)
    \/ SourceWriteFails \/ PublishFails \/ ReplaceManifest \/ SyncManifest
    \/ RestoreManifest \/ OutcomeUnknown
    \/ \E removed \in SUBSET Content : FinishDurable(removed) \/ PurgeFiles(removed)
    \/ BeginRetirement \/ BeginCleanupAfterIntent \/ RemoveManifest
    \/ SyncAbsence \/ CancelRetirement \/ Activate
    \/ ProcessDies \/ DamageFile
    \/ \E lost \in SUBSET unsynced : PowerLoss(lost)

Spec == Init /\ [][Next]_vars

-----------------------------------------------------------------------------
(* Properties. *)

\* Every variable keeps its type, and the manifest a reader sees is one of
\* those a power loss may leave: no publish, restoration or removal forgets
\* that the file it replaced can come back.
TypeOK ==
    /\ manifest \in Manifest \cup {NoManifest}
    /\ exposed \subseteq Manifest \cup {NoManifest} /\ manifest \in exposed
    /\ gens \in [Content -> {"absent", "ok", "bad"}]
    /\ unsynced \subseteq Content
    /\ bytesFile \in {"absent", "ok", "bad"}
    /\ retired \in BOOLEAN
    /\ txn \in Transaction
    /\ owed \subseteq Content
    /\ faults \in 0 .. MaxFaults /\ cuts \in 0 .. MaxCuts

FileExists(m, c) ==
    IF m.version = 1 /\ c = m.current.c THEN bytesFile # "absent"
                                        ELSE gens[c] # "absent"

\* Whatever manifest a power loss exposes, every generation it names is on
\* disk: generations are published before the manifest that names them and
\* removed only when no manifest that could come back names them.  (The one
\* gap: ensure_generation takes a file that exists for a durable one, so a
\* file left behind by a cut publish can be named before it is synchronized.)
NoDanglingManifest ==
    cuts = 0 =>
    \A m \in exposed \ {NoManifest} :
        \A c \in Referenced(m) : FileExists(m, c)

\* An acknowledged pending save survives: every manifest a power loss can
\* expose still holds it, or a save that replaced it with proof of having
\* seen it, as its current or its previous generation.  (A version-1 pair is
\* owed as long as its bytes authenticate: a clean-up removes a damaged one.)
PendingRecoverable ==
    owed # {} =>
        \A m \in exposed :
            /\ m # NoManifest
            /\ \/ m.current.c \in owed
               \/ m.previous # NoGen /\ m.previous.c \in owed

NothingDamaged ==
    cuts = 0 /\ bytesFile # "bad" /\ \A c \in Content : gens[c] # "bad"

\* A new manifest that kept the previous generation of a version-2 one, as a
\* write or an update that does not change the bytes does.
CarriesOldGeneration(m) ==
    m.version = 3 /\ m.previous # NoGen /\ m.previous.kind = "Unset"

\* As long as the environment damages no file, a reader finds no manifest or
\* an authenticated one, and a pending autofill save always carries the two
\* authenticated generations that its completion has to prove: no sequence
\* of calls, failures and crashes strands it.  The one exception the code
\* makes: a manifest that carries a generation of a version-2 manifest as its
\* previous one is refused by its schema, whatever the files are; the bytes it
\* names as current are then still on disk.
UndamagedIsReadable ==
    NothingDamaged =>
        \/ /\ ReadStatus \in {"Missing", "Current"}
           /\ ReadStatus = "Current" /\ Cur.kind = "Autofill" => PendingChainIsSound
        \/ /\ ReadStatus = "Corrupt" /\ CarriesOldGeneration(manifest)
           /\ CurrentIsReadable(manifest)

\* A manifest that was not on disk before never takes the place of a pending
\* save unless the transaction that wrote it named that save: an autofill
\* save by its operation and bytes, another one by its bytes.  Nothing removes
\* it, but for a version-1 pair whose bytes are damaged, which the clean-up
\* does not recognize as pending.
PendingReplacedByProof ==
    [][(manifest # NoManifest /\ Cur.pending /\ manifest' \notin exposed) =>
          IF manifest' = NoManifest THEN PairIsDamaged
          ELSE /\ txn.req # NoReq /\ txn.req.expected = Cur.c
               /\ Cur.kind = "Autofill" =>
                     txn.req.op = "completeAutofill" /\ txn.req.id = Cur.op]_vars

\* The slot a manifest stands for; an old pending entry is a source write.
SlotOf(m) ==
    IF m = NoManifest THEN NoManifest
    ELSE [c |-> m.current.c, op |-> m.current.op,
          kind |-> IF ~m.current.pending THEN "Clean"
                   ELSE IF m.version = 1 THEN "Pair"
                   ELSE IF m.current.kind = "Unset" THEN "Generic"
                   ELSE m.current.kind]

Slot == INSTANCE PendingSlot WITH
    slot <- SlotOf(manifest), may <- {SlotOf(m) : m \in exposed},
    lost <- bytesFile # "ok", Empty <- NoManifest

ASSUME EmptySlotAssumption == NoManifest \notin Slot!Slot

\* Seen through the manifest, the cache is the compare-and-swap slot.
ImplementsPendingSlot == Slot!Spec

\* Whatever publish, clean-up, retirement, failure or power loss came before, the
\* cache a reader finds is complete: the files its manifest names are there and
\* authenticate, unless the environment damaged one.
ManifestReadable == NoDanglingManifest /\ UndamagedIsReadable
=============================================================================
