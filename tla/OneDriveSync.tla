---------------------------- MODULE OneDriveSync ----------------------------
(***************************************************************************)
(* Saving, refreshing and retrying a vault that lives on OneDrive          *)
(* (runtime.rs), for any number of runtimes on any number of devices.      *)
(*                                                                         *)
(* The runtimes of a device share its remote cache (one slot per vault,    *)
(* the compare-and-swap slot of PendingSlot) and its conflict-copy         *)
(* receipt (a second slot).  The file on OneDrive is replaced under an     *)
(* ETag condition, by this program on any device, and by other programs    *)
(* without one.                                                            *)
(*                                                                         *)
(* A vault is the set of edits it reflects: merging keeps both sides'      *)
(* changes, the losing version of a field in the entry's history, and what *)
(* the base has and a side lacks was undone by that side.  Serializing a   *)
(* vault draws fresh randomness, so equal vaults have different bytes.     *)
(***************************************************************************)
EXTENDS Naturals, FiniteSets

CONSTANTS
    Edit,          \* edits a user can make
    Proc,          \* runtimes
    Device,
    Deployments,   \* which runtimes run on which devices, with the edits made
    MaxSerial,     \* how many serializations of one vault are told apart,
                   \* at most; a deployment may tell fewer apart
    Origin,        \* who may have created the file, "kern" or "foreign"
    NoBytes, NoEntry,
    MaxAttempts,   \* MAX_SOURCE_ATTEMPTS
    MaxFaults      \* how many faults may happen: a request or a cache write
                   \* that fails, a process that dies, a file replaced or
                   \* deleted by another program, a change that cannot be merged

ASSUME SyncAssumption ==
    /\ Deployments \subseteq [on : [Proc -> Device], edits : SUBSET Edit,
                        serials : 0 .. MaxSerial]
    /\ Origin \subseteq {"kern", "foreign"}
    /\ {MaxSerial, MaxAttempts} \subseteq Nat \ {0} /\ MaxFaults \in Nat

VARIABLES
    site,      \* the deployment; it never changes
    head,      \* the bytes of the OneDrive file; they also stand for its ETag
    late,      \* a conditional PUT still in flight after its call gave up
    copied,    \* edits readable in the sibling conflict copies
    cache,     \* [Device -> cache entry]
    receipt,   \* [Device -> receipt of the last conflict copy]
    sess,      \* [Proc -> LoadedVault]
    job,       \* [Proc -> the call being executed]
    made,      \* edits made so far
    acked,     \* edits of vaults whose save was acknowledged
    gone,      \* edits other programs took out of the file
    faults     \* number of faults so far

remote == <<site, head, late, gone>>
vars == <<remote, copied, cache, receipt, sess, job, made, acked, faults>>

Serial == 1 .. MaxSerial

\* w is who wrote the bytes: this program ("kern"), another one, or one that
\* changed the key so that the session cannot open them ("opaque").
Bytes == [v : SUBSET Edit, w : {"kern", "foreign", "opaque"}, s : Serial]
MaybeBytes == Bytes \cup {NoBytes}

\* tag is the ETag the fingerprint carries, NoBytes when it carries none.
Entry == [b : Bytes, kind : {"Clean", "Generic", "ConflictCopy"},
          obs : MaybeBytes, tag : MaybeBytes]
Receipt == [b : Bytes, pend : BOOLEAN]
Request == [cand : Bytes, seen : Bytes]

ASSUME NoneAssumption ==
    NoBytes \notin Bytes /\ NoEntry \notin Entry \cup Receipt \cup Request

\* b and tag are the baseline fingerprint, pend is remote_state being
\* "pending_sync", hasBase says that the session base is the baseline.
Session == [st : {"closed", "locked", "open"}, v : SUBSET Edit,
            b : MaybeBytes, tag : MaybeBytes, pend : BOOLEAN,
            hasBase : BOOLEAN]
Closed == [st |-> "closed", v |-> {}, b |-> NoBytes, tag |-> NoBytes,
           pend |-> FALSE, hasBase |-> FALSE]

\* seen is the ETag the call works under, rem the bytes it read.
Job == [at : {"idle", "state", "read", "push", "readback", "commit",
              "copy", "upload", "fallback", "install", "hung"},
        for : {"none", "save", "retry", "refresh", "adopt", "load", "receipt"},
        base : MaybeBytes, local : SUBSET Edit, seen : MaybeBytes,
        rem : MaybeBytes, cand : MaybeBytes, n : 0 .. MaxAttempts]
NoJob == [at |-> "idle", for |-> "none", base |-> NoBytes, local |-> {},
          seen |-> NoBytes, rem |-> NoBytes, cand |-> NoBytes, n |-> 0]

D(p) == site.on[p]

HeldBy(p) ==
    {sess[p].b, sess[p].tag, job[p].base, job[p].seen, job[p].rem, job[p].cand}

InSlot(d) ==
    IF cache[d] = NoEntry THEN {} ELSE {cache[d].b, cache[d].obs, cache[d].tag}

InUse ==
    {head} \cup (IF late = NoEntry THEN {} ELSE {late.cand, late.seen})
      \cup {receipt[d].b : d \in {x \in Device : receipt[x] # NoEntry}}
      \cup (UNION {InSlot(d) : d \in Device}) \cup (UNION {HeldBy(p) : p \in Proc})

\* New bytes for the vault v.  Bytes are only ever compared, so the first
\* ones that nothing holds stand for all of them.
Fresh(v, w) ==
    LET used == {b.s : b \in {x \in InUse \ {NoBytes} : x.v = v /\ x.w = w}}
        free == (1 .. site.serials) \ used
    IN  {[v |-> v, w |-> w, s |-> s] : s \in {x \in free : \A y \in free : x \leq y}}

\* Mutant: what only the remote side added is taken for removed here.
PatchDropsRemote(base, local, rem) == (rem \cap base) \cup local

\* three_way_field_patch
Patch(base, local, rem) == (rem \ (base \ local)) \cup (local \ base)

HasSyncLineage(base, rem) == base.w = "kern" /\ rem.w = "kern"

-----------------------------------------------------------------------------
(* The cache slot, as the calls of remote_cache.rs leave it. *)

IsPending(d) == cache[d] # NoEntry /\ cache[d].kind # "Clean"

OwnsPending(p) == IsPending(D(p)) /\ cache[D(p)].b = sess[p].b

\* A pending save replaces the generation it names, if that is a committed
\* one or a pending one of its own kind.
AcceptsPending(d, expected, kind) ==
    \/ cache[d] = NoEntry
    \/ cache[d].b = expected /\ cache[d].kind \in {"Clean", kind}

Slot(b, kind, obs, tag) == [b |-> b, kind |-> kind, obs |-> obs, tag |-> tag]

\* The source generation a pending save keeps when it is given none.
InheritedObserved(d) ==
    IF cache[d] = NoEntry THEN NoBytes
    ELSE IF cache[d].kind = "Clean" THEN cache[d].b ELSE cache[d].obs

Fault == faults < MaxFaults /\ faults' = faults + 1

Finish(p) == job' = [job EXCEPT ![p] = NoJob]

GoTo(p, j) == job' = [job EXCEPT ![p] = j]

\* The write is known to have replaced the file.
GoToCommit(p) ==
    GoTo(p, [NoJob EXCEPT !.at = "commit", !.for = job[p].for, !.cand = job[p].cand])

\* The vault v is to be published as a conflict copy; a refresh goes on with
\* the source generation it read.
GoToCopy(p, v, rem) ==
    GoTo(p, IF job[p].for = "refresh"
              THEN [NoJob EXCEPT !.at = "copy", !.for = "refresh", !.local = v,
                                 !.rem = rem, !.seen = job[p].seen]
              ELSE [NoJob EXCEPT !.at = "copy", !.for = job[p].for, !.local = v])

\* save_remote_vault_to_pending_cache_with_kind.  When the slot refuses the
\* save, or cannot be written, the call fails and the session keeps its edits.
PersistPending(p, b, kind, obs) ==
    /\ \/ /\ AcceptsPending(D(p), sess[p].b, kind)
          /\ cache' = [cache EXCEPT ![D(p)] = Slot(b, kind, obs, NoBytes)]
          /\ sess' = [sess EXCEPT ![p].v = b.v, ![p].b = b, ![p].tag = NoBytes,
                                  ![p].pend = TRUE, ![p].hasBase = FALSE]
          /\ acked' = acked \cup b.v
       \/ UNCHANGED <<cache, sess, acked>>
    /\ Finish(p)

PersistGeneric(p, v) ==
    \E b \in Fresh(v, "kern") :
        PersistPending(p, b, "Generic", InheritedObserved(D(p)))

PersistConflictCopy(p, b) == PersistPending(p, b, "ConflictCopy", NoBytes)

-----------------------------------------------------------------------------
(* Sessions. *)

Edits(p, e) ==
    /\ sess[p].st = "open" /\ job[p].at = "idle" /\ e \notin made
    /\ sess' = [sess EXCEPT ![p].v = @ \cup {e}]
    /\ made' = made \cup {e}
    /\ UNCHANGED <<remote, copied, cache, receipt, job, acked, faults>>

Unlock(p) ==
    /\ sess[p].st = "locked" /\ job[p].at = "idle" /\ sess[p].b.w # "opaque"
    /\ sess' = [sess EXCEPT ![p].st = "open", ![p].v = sess[p].b.v]
    /\ UNCHANGED <<remote, copied, cache, receipt, job, made, acked, faults>>

\* lock_session: a session that waits for synchronization comes back with
\* whatever pending generation the device has then.  Without bytes to unlock
\* the vault has to be loaded again.
Lock(p) ==
    /\ sess[p].st = "open" /\ job[p].at = "idle"
    /\ sess' = [sess EXCEPT ![p] =
         CASE sess[p].pend /\ IsPending(D(p)) ->
                [sess[p] EXCEPT !.st = "locked", !.v = {}, !.b = cache[D(p)].b,
                          !.tag = NoBytes,
                          !.hasBase = sess[p].hasBase /\ OwnsPending(p)]
           [] ~sess[p].pend /\ sess[p].hasBase ->
                [sess[p] EXCEPT !.st = "locked", !.v = {}]
           [] OTHER -> Closed]
    /\ UNCHANGED <<remote, copied, cache, receipt, job, made, acked, faults>>

\* The process dies, in a call or between two, or is killed because it hangs.
Crash(p) ==
    /\ sess[p].st # "closed" \/ job[p].at # "idle"
    /\ sess' = [sess EXCEPT ![p] = Closed]
    /\ Finish(p)
    /\ IF job[p].at = "hung" THEN UNCHANGED faults ELSE Fault
    /\ UNCHANGED <<remote, copied, cache, receipt, made, acked>>

\* load_source_snapshot: a pending cache is used as it is.
BeginLoad(p) ==
    /\ sess[p].st # "open" /\ job[p].at = "idle"
    /\ IF IsPending(D(p))
         THEN /\ sess' = [sess EXCEPT ![p] =
                            [Closed EXCEPT !.st = "locked", !.b = cache[D(p)].b,
                               !.pend = TRUE,
                               !.hasBase = cache[D(p)].kind = "ConflictCopy"]]
              /\ UNCHANGED job
         ELSE /\ GoTo(p, IF cache[D(p)] = NoEntry
                           THEN [NoJob EXCEPT !.at = "state", !.for = "load"]
                           ELSE [NoJob EXCEPT !.at = "state", !.for = "load",
                                   !.base = cache[D(p)].b,
                                   !.seen = cache[D(p)].tag])
              /\ UNCHANGED sess
    /\ UNCHANGED <<remote, copied, cache, receipt, made, acked, faults>>

-----------------------------------------------------------------------------
(* The calls that synchronize. *)

\* Mutant: the pending generation itself is taken for the base.
BaseOfPending(p) ==
    IF OwnsPending(p) \/ sess[p].hasBase THEN sess[p].b ELSE NoBytes

\* The generation the local edits are relative to; NoBytes when none is left.
BaseOf(p) ==
    IF OwnsPending(p) THEN cache[D(p)].obs
    ELSE IF sess[p].hasBase THEN sess[p].b ELSE NoBytes

\* save_onedrive_vault up to the first request to the source.
BeginSave(p) ==
    /\ sess[p].st = "open" /\ job[p].at = "idle"
    /\ IF OwnsPending(p) /\ cache[D(p)].kind = "ConflictCopy"
         THEN \E b \in Fresh(sess[p].v, "kern") : PersistConflictCopy(p, b)
         ELSE /\ BaseOf(p) # NoBytes
              /\ GoTo(p, [NoJob EXCEPT !.at = "state", !.base = BaseOf(p),
                            !.local = sess[p].v, !.n = 1,
                            !.for = IF sess[p].v = BaseOf(p).v
                                      THEN "adopt" ELSE "save"])
              /\ UNCHANGED <<cache, sess, acked>>
    /\ UNCHANGED <<remote, copied, receipt, made, faults>>

\* retry_vault_source_sync: a pending generation of this session is uploaded,
\* one of another runtime is only reported, an interrupted conflict copy is
\* published, and otherwise the session is refreshed.
BeginRetry(p) ==
    /\ sess[p].st # "closed" /\ job[p].at = "idle"
    /\ IF sess[p].pend
         THEN /\ sess[p].st = "open" /\ OwnsPending(p)
              /\ GoTo(p, IF cache[D(p)].kind = "ConflictCopy"
                           THEN [NoJob EXCEPT !.at = "copy", !.for = "retry",
                                   !.local = cache[D(p)].b.v]
                           ELSE [NoJob EXCEPT !.at = "state", !.for = "retry",
                                   !.base = cache[D(p)].obs,
                                   !.local = sess[p].v, !.n = 1])
              /\ UNCHANGED sess
         ELSE IF IsPending(D(p))
           THEN sess' = [sess EXCEPT ![p].pend = TRUE] /\ UNCHANGED job
           ELSE /\ IF receipt[D(p)] # NoEntry /\ receipt[D(p)].pend
                     THEN GoTo(p, [NoJob EXCEPT !.at = "copy", !.for = "receipt",
                                     !.local = receipt[D(p)].b.v])
                     ELSE GoTo(p, [NoJob EXCEPT !.at = "state", !.for = "refresh",
                                     !.base = BaseOf(p), !.local = sess[p].v])
                /\ UNCHANGED sess
    /\ UNCHANGED <<remote, copied, cache, receipt, made, acked, faults>>

KnownTag(p) ==
    CASE job[p].for = "load"  -> job[p].seen
      [] job[p].for = "retry" -> NoBytes
      [] OTHER                -> sess[p].tag

LoadFrom(p, b, tag) ==
    sess' = [sess EXCEPT ![p] = [Closed EXCEPT !.st = "locked", !.b = b,
                                               !.tag = tag, !.hasBase = TRUE]]

\* The source is out of reach: use the cached copy read before, or, if there
\* was none, whatever the cache has by now, taken for a committed copy.
LoadCached(p) ==
    IF job[p].base # NoBytes THEN LoadFrom(p, job[p].base, job[p].seen)
    ELSE IF cache[D(p)] # NoEntry THEN LoadFrom(p, cache[D(p)].b, cache[D(p)].tag)
    ELSE UNCHANGED sess

\* Patch the local edits onto rem, serialize, and get ready to push; a
\* refresh only replaces the session's vault.
Rebase(p, rem, seen) ==
    LET v == Patch(job[p].base.v, job[p].local, rem.v)
    IN  IF job[p].for = "refresh"
          THEN GoTo(p, [job[p] EXCEPT !.at = "install", !.local = v,
                          !.rem = rem, !.seen = seen, !.base = NoBytes])
          ELSE \E b \in Fresh(v, "kern") :
                 GoTo(p, [job[p] EXCEPT !.at = "push", !.rem = rem,
                            !.seen = seen, !.cand = b])

\* remote_state answers.
StateKnown(p) ==
    /\ job[p].at = "state" /\ head # NoBytes
    /\ IF KnownTag(p) = head
         THEN CASE job[p].for = "save" ->
                     Rebase(p, job[p].base, head) /\ UNCHANGED sess
                [] job[p].for = "load" -> LoadCached(p) /\ Finish(p)
                [] OTHER               -> Finish(p) /\ UNCHANGED sess
         ELSE /\ GoTo(p, [job[p] EXCEPT !.at = "read", !.seen = head])
              /\ UNCHANGED sess
    /\ UNCHANGED <<remote, copied, cache, receipt, made, acked, faults>>

\* remote_state fails; for a save, a file that is not found ends in a
\* conflict copy and any other error in a pending save.
StateFails(p) ==
    /\ job[p].at = "state"
    /\ IF head = NoBytes THEN UNCHANGED faults ELSE Fault
    /\ CASE job[p].for = "save" ->
              \/ PersistGeneric(p, job[p].local)
              \/ /\ head = NoBytes
                 /\ \E b \in Fresh(job[p].local, "kern") : PersistConflictCopy(p, b)
         [] job[p].for = "load" ->
              /\ LoadCached(p) /\ Finish(p) /\ UNCHANGED <<cache, acked>>
         [] OTHER -> Finish(p) /\ UNCHANGED <<cache, sess, acked>>
    /\ UNCHANGED <<remote, copied, receipt, made>>

\* The head replaces what the session holds, which has no edits of its own.
IsCopied(p) ==
    \/ job[p].for = "load"
    \/ job[p].for = "adopt" /\ head.w # "opaque"
    \/ job[p].for = "refresh" /\ sess[p].st = "locked"

\* The call fails: the head, or the base of the edits, cannot be opened.
CannotAdopt(p) ==
    /\ ~IsCopied(p)
    /\ \/ job[p].for \in {"adopt", "refresh"} /\ head.w = "opaque"
       \/ job[p].for = "refresh" /\ job[p].base = NoBytes

\* read_snapshot_from_state: the bytes are downloaded after the ETag was
\* read and may be newer.  A generation that cannot be patched (lineage, key,
\* encryption profile, history retention) sends the local vault to a copy.
ReadHead(p) ==
    /\ job[p].at = "read" /\ head # NoBytes
    /\ CASE IsCopied(p) ->
              /\ GoTo(p, [job[p] EXCEPT !.at = "install", !.rem = head,
                                        !.local = head.v, !.base = NoBytes])
              /\ UNCHANGED faults
         [] CannotAdopt(p) -> Finish(p) /\ UNCHANGED faults
         [] ~IsCopied(p) /\ ~CannotAdopt(p) /\ HasSyncLineage(job[p].base, head) ->
              \/ Rebase(p, head, job[p].seen) /\ UNCHANGED faults
              \/ GoToCopy(p, job[p].local, head) /\ Fault
         [] OTHER ->
              /\ GoToCopy(p, job[p].local, head)
              /\ UNCHANGED faults
    /\ UNCHANGED <<remote, copied, cache, receipt, sess, made, acked>>

\* The download fails: a load that had no cached copy looks for one again.
ReadFails(p) ==
    /\ job[p].at = "read"
    /\ IF head = NoBytes THEN UNCHANGED faults ELSE Fault
    /\ CASE job[p].for = "save" -> PersistGeneric(p, job[p].local)
         [] job[p].for = "load" /\ job[p].base = NoBytes ->
              LoadCached(p) /\ Finish(p) /\ UNCHANGED <<cache, acked>>
         [] OTHER -> Finish(p) /\ UNCHANGED <<cache, sess, acked>>
    /\ UNCHANGED <<remote, copied, receipt, made>>

\* Mutant: the attempts are not limited.
RefusedUnbounded(p) ==
    GoTo(p, [NoJob EXCEPT !.at = "state", !.for = job[p].for,
               !.n = job[p].n + 1, !.base = job[p].base, !.local = job[p].local])

\* Mutant: the same condition is sent again.
RefusedSendsAgain(p) == GoTo(p, job[p])

\* A refused condition: try again, or publish the rebased vault as a copy.
Refused(p) ==
    IF job[p].n < MaxAttempts
      THEN GoTo(p, [NoJob EXCEPT !.at = "state", !.for = job[p].for,
                      !.n = job[p].n + 1, !.base = job[p].base,
                      !.local = job[p].local])
      ELSE GoToCopy(p, job[p].cand.v, NoBytes)

\* Mutant: the file is replaced whatever its ETag is.
PushUnconditional(p) ==
    /\ job[p].at = "push" /\ job[p].for = "save"
    /\ head # NoBytes /\ head' = job[p].cand
    /\ GoToCommit(p)
    /\ UNCHANGED <<site, cache, sess, acked, faults, late, copied, receipt, made,
                   gone>>

\* conditional_write of a save.
Push(p) ==
    /\ job[p].at = "push" /\ job[p].for = "save"
    /\ \/ /\ head = job[p].seen /\ head' = job[p].cand
          /\ GoToCommit(p)
          /\ UNCHANGED <<cache, sess, acked, faults>>
       \/ /\ head # job[p].seen /\ Refused(p)
          /\ UNCHANGED <<head, cache, sess, acked, faults>>
       \/ /\ PersistPending(p, job[p].cand, "Generic", job[p].rem) /\ Fault
          /\ UNCHANGED head
    /\ UNCHANGED <<site, late, copied, receipt, made, gone>>

\* A write without an answer: the file was replaced, or the request is lost, or
\* it is still on its way.
Unanswered(p) ==
    /\ job[p].for = "retry" => OwnsPending(p)
    /\ \/ head = job[p].seen /\ head' = job[p].cand /\ UNCHANGED late
       \/ UNCHANGED <<head, late>>
       \/ /\ late = NoEntry
          /\ late' = [cand |-> job[p].cand, seen |-> job[p].seen]
          /\ UNCHANGED head

\* The transport fails.
PushUnknown(p) ==
    /\ job[p].at = "push" /\ Fault
    /\ Unanswered(p)
    /\ IF job[p].for = "save" THEN GoTo(p, [job[p] EXCEPT !.at = "readback"])
                              ELSE Finish(p)
    /\ UNCHANGED <<site, copied, cache, receipt, sess, made, acked, gone>>

LateArrives ==
    /\ late # NoEntry
    /\ head' = IF head = late.seen THEN late.cand ELSE head
    /\ late' = NoEntry
    /\ UNCHANGED <<site, copied, cache, receipt, sess, job, made, acked, gone,
                   faults>>

\* Mutant: a file that changed is taken for the outcome of the write.
ReadbackTrusting(p) ==
    /\ job[p].at = "readback"
    /\ \/ /\ head \in {job[p].rem, NoBytes}
          /\ PersistPending(p, job[p].cand, "Generic", job[p].rem)
       \/ /\ head \notin {job[p].rem, NoBytes}
          /\ GoToCommit(p) /\ UNCHANGED <<cache, sess, acked>>
    /\ UNCHANGED <<remote, copied, receipt, made, faults>>

\* The file is read back to find out what became of the write.
Readback(p) ==
    /\ job[p].at = "readback"
    /\ \/ /\ PersistPending(p, job[p].cand, "Generic", job[p].rem)
          /\ IF head \in {job[p].rem, NoBytes} THEN UNCHANGED faults ELSE Fault
       \/ /\ head = job[p].cand
          /\ GoToCommit(p)
          /\ UNCHANGED <<cache, sess, acked, faults>>
       \/ /\ head \notin {job[p].cand, job[p].rem, NoBytes} /\ Refused(p)
          /\ UNCHANGED <<cache, sess, acked, faults>>
    /\ UNCHANGED <<remote, copied, receipt, made>>

\* Mutant: an ordinary write replaces a pending save.
WritesCleanAlways(p, b, tag) ==
    cache' = [cache EXCEPT ![D(p)] = Slot(b, "Clean", NoBytes, tag)]

\* An ordinary write of a committed copy; the slot refuses it while a save is
\* pending, and the write itself may fail.
WritesClean(p, b, tag) ==
    /\ ~IsPending(D(p))
    /\ cache' = [cache EXCEPT ![D(p)] = Slot(b, "Clean", NoBytes, tag)]

MissesClean(p) ==
    /\ IF IsPending(D(p)) THEN UNCHANGED faults ELSE Fault
    /\ UNCHANGED cache

OpenAt(b, tag) ==
    [st |-> "open", v |-> b.v, b |-> b, tag |-> tag, pend |-> FALSE,
     hasBase |-> TRUE]

\* A committed save: the cache copy is written if the slot takes it, and the
\* session moves to the committed generation.  The answer may lack the ETag.
Commit(p) ==
    /\ job[p].at = "commit"
    /\ \E tag \in {job[p].cand, NoBytes} :
          /\ sess' = [sess EXCEPT ![p] = OpenAt(job[p].cand, tag)]
          /\ \/ /\ WritesClean(p, job[p].cand, tag)
                /\ IF tag = NoBytes THEN Fault ELSE UNCHANGED faults
             \/ tag # NoBytes /\ MissesClean(p)
    /\ acked' = acked \cup job[p].cand.v
    /\ Finish(p)
    /\ UNCHANGED <<remote, copied, receipt, made>>

\* The upload of a pending save: the slot is held from the check that it
\* still has the pending generation to its completion.
PushPending(p) ==
    /\ job[p].at = "push" /\ job[p].for = "retry"
    /\ IF ~OwnsPending(p)
         THEN Finish(p) /\ UNCHANGED <<head, cache, sess, faults>>
         ELSE IF head # job[p].seen
           THEN Refused(p) /\ UNCHANGED <<head, cache, sess, faults>>
           ELSE /\ head' = job[p].cand
                /\ \/ /\ cache' = [cache EXCEPT ![D(p)] =
                                     Slot(head', "Clean", NoBytes, head')]
                      /\ sess' = [sess EXCEPT ![p] = OpenAt(head', head')]
                      /\ UNCHANGED faults
                   \/ Fault /\ UNCHANGED <<cache, sess>>
                /\ Finish(p)
    /\ UNCHANGED <<site, late, gone, copied, receipt, made, acked>>

\* Load, refresh and adoption end with the copy of the source in the cache;
\* only an adoption goes on when the slot refuses it.
Install(p) ==
    LET s == OpenAt(job[p].rem, job[p].seen)
        new == IF sess[p].st = "open" THEN [s EXCEPT !.v = job[p].local]
                                      ELSE [s EXCEPT !.st = "locked", !.v = {}]
    IN  /\ job[p].at = "install"
        /\ \/ /\ WritesClean(p, job[p].rem, job[p].seen)
              /\ sess' = [sess EXCEPT ![p] = new] /\ UNCHANGED faults
           \/ /\ MissesClean(p)
              /\ sess' = IF job[p].for = "adopt" THEN [sess EXCEPT ![p] = new]
                                                 ELSE sess
        /\ Finish(p)
        /\ UNCHANGED <<remote, copied, receipt, made, acked>>

-----------------------------------------------------------------------------
(* Conflict copies. *)

\* The caller goes on after the copy is published ...
CopyDone(p) ==
    CASE job[p].for = "save" ->
           /\ acked' = acked \cup job[p].local
           /\ sess' = [sess EXCEPT ![p].v = job[p].local]
           /\ Finish(p)
      [] job[p].for = "refresh" ->
           /\ GoTo(p, [job[p] EXCEPT !.at = "install", !.local = job[p].rem.v,
                                     !.cand = NoBytes])
           /\ UNCHANGED <<sess, acked>>
      [] job[p].for = "retry" ->
           /\ GoTo(p, [NoJob EXCEPT !.at = "fallback", !.for = "retry"])
           /\ UNCHANGED <<sess, acked>>
      [] OTHER ->
           /\ sess' = [sess EXCEPT ![p].pend = FALSE]
           /\ Finish(p) /\ UNCHANGED acked

\* ... or keeps it as a pending generation of the cache.
CopyFailed(p) ==
    CASE job[p].for \in {"save", "refresh"} -> PersistConflictCopy(p, job[p].cand)
      [] OTHER -> /\ sess' = [sess EXCEPT ![p].pend = TRUE]
                  /\ Finish(p) /\ UNCHANGED <<cache, acked>>

\* publish_onedrive_conflict_copy_receipt: a copy of the same vault that was
\* published is not published again; otherwise the receipt is made pending.
PublishReceipt(p) ==
    LET d == D(p)
        same == receipt[d] # NoEntry /\ receipt[d].b.v = job[p].local
        bytes == IF same THEN {receipt[d].b} ELSE Fresh(job[p].local, "kern")
    IN  /\ job[p].at = "copy"
        /\ \/ /\ same /\ ~receipt[d].pend
              /\ CopyDone(p) /\ UNCHANGED <<receipt, cache, faults>>
           \/ \E b \in bytes :
                /\ GoTo(p, [job[p] EXCEPT !.at = "upload", !.cand = b])
                /\ receipt' = [receipt EXCEPT ![d] = [b |-> b, pend |-> TRUE]]
                /\ IF same /\ ~receipt[d].pend THEN Fault ELSE UNCHANGED faults
                /\ UNCHANGED <<cache, sess, acked>>
        /\ UNCHANGED <<remote, copied, made>>

IsReserved(p) == receipt[D(p)] = [b |-> job[p].cand, pend |-> TRUE]

\* upload_sibling_conflict_copy under the receipt's lock.
UploadCopy(p) ==
    LET reserved == IsReserved(p)
    IN  /\ job[p].at = "upload"
        /\ \/ /\ reserved /\ head # NoBytes
              /\ copied' = copied \cup job[p].cand.v
              /\ receipt' = [receipt EXCEPT ![D(p)].pend = FALSE]
              /\ CopyDone(p) /\ UNCHANGED <<cache, faults>>
           \/ /\ reserved /\ head # NoBytes /\ Fault
              /\ copied' \in {copied, copied \cup job[p].cand.v}
              /\ CopyFailed(p) /\ UNCHANGED receipt
           \/ /\ ~reserved \/ head = NoBytes
              /\ CopyFailed(p) /\ UNCHANGED <<copied, receipt, faults>>
        /\ UNCHANGED <<remote, made>>

\* After the copy of a pending save is published the slot is completed with
\* the current head, and the session moves to it if it can open it.
Fallback(p) ==
    /\ job[p].at = "fallback"
    /\ IF head # NoBytes /\ OwnsPending(p)
         THEN \/ /\ cache' = [cache EXCEPT ![D(p)] =
                                Slot(head, "Clean", NoBytes, head)]
                 /\ sess' = IF head.w = "opaque"
                              THEN [sess EXCEPT ![p].pend = FALSE]
                              ELSE [sess EXCEPT ![p] = OpenAt(head, head)]
                 /\ UNCHANGED faults
              \/ Fault /\ UNCHANGED <<cache, sess>>
         ELSE UNCHANGED <<cache, sess, faults>>
    /\ Finish(p)
    /\ UNCHANGED <<remote, copied, receipt, made, acked>>

-----------------------------------------------------------------------------
(* Requests that are never answered. *)

Hung == [NoJob EXCEPT !.at = "hung"]

\* The connection stays open and the answer does not come.  Requests have no
\* read or write timeout, so the call hangs, and its runtime with it, until the
\* process ends.  A retry or an upload hangs with the lock of the slot or of the
\* receipt, and the calls of other runtimes that need it fail; here these may
\* also go on, as they may after an unknown outcome.
Stall(p) ==
    /\ job[p].at \in {"state", "read", "push", "readback", "upload", "fallback"} /\ Fault
    /\ IF job[p].at = "push" THEN Unanswered(p) ELSE UNCHANGED <<head, late>>
    /\ IF job[p].at = "upload"
         THEN IsReserved(p) /\ copied' \in {copied, copied \cup job[p].cand.v}
         ELSE UNCHANGED copied
    /\ GoTo(p, Hung)
    /\ UNCHANGED <<site, gone, cache, receipt, sess, made, acked>>

-----------------------------------------------------------------------------
(* Other programs. *)

\* Another program replaces the file without a condition, perhaps from an
\* old copy and perhaps under a new key, or deletes it.
ForeignWrite ==
    /\ head # NoBytes /\ Fault
    /\ \/ head' = NoBytes /\ gone' = gone \cup head.v
       \/ \E w \in {"foreign", "opaque"}, lost \in SUBSET head.v :
            /\ Cardinality(lost) \leq 1
            /\ head' \in Fresh(head.v \ lost, w)
            /\ gone' = gone \cup lost
    /\ UNCHANGED <<site, late, copied, cache, receipt, sess, job, made, acked>>

-----------------------------------------------------------------------------

Init ==
    /\ site \in Deployments
    /\ \E w \in Origin : head = [v |-> {}, w |-> w, s |-> 1]
    /\ late = NoEntry /\ copied = {}
    /\ cache = [d \in Device |-> NoEntry]
    /\ receipt = [d \in Device |-> NoEntry]
    /\ sess = [p \in Proc |-> Closed]
    /\ job = [p \in Proc |-> NoJob]
    /\ made = {} /\ acked = {} /\ gone = {} /\ faults = 0

\* The steps of a call that has begun.
Proceed(p) ==
    \/ StateKnown(p) \/ StateFails(p) \/ ReadHead(p) \/ ReadFails(p)
    \/ Push(p) \/ PushUnknown(p) \/ Readback(p) \/ Commit(p) \/ PushPending(p)
    \/ Install(p) \/ PublishReceipt(p) \/ UploadCopy(p) \/ Fallback(p)

Step(p) ==
    \/ \E e \in site.edits : Edits(p, e)
    \/ Unlock(p) \/ Lock(p) \/ Crash(p) \/ BeginLoad(p)
    \/ BeginSave(p) \/ BeginRetry(p) \/ Stall(p) \/ Proceed(p)

Next == (\E p \in Proc : Step(p)) \/ LateArrives \/ ForeignWrite

Spec == Init /\ [][Next]_vars

\* A call that does not hang takes its steps: they are local, or requests that are
\* answered or fail.  That a request is answered is not assumed (Stall).
FairSpec == Spec /\ \A p \in Proc : WF_vars(Proceed(p))

-----------------------------------------------------------------------------
(* Properties. *)

\* Every variable keeps its type; in particular a call makes no more than
\* MAX_SOURCE_ATTEMPTS attempts.
TypeOK ==
    /\ site \in Deployments
    /\ head \in MaybeBytes
    /\ late \in Request \cup {NoEntry}
    /\ cache \in [Device -> Entry \cup {NoEntry}]
    /\ receipt \in [Device -> Receipt \cup {NoEntry}]
    /\ sess \in [Proc -> Session]
    /\ job \in [Proc -> Job]
    /\ copied \subseteq Edit /\ made \subseteq Edit
    /\ acked \subseteq Edit /\ gone \subseteq Edit
    /\ faults \in 0 .. MaxFaults

Edited(b) == IF b = NoBytes THEN {} ELSE b.v

\* Edits readable in what the next session of some device can load or
\* publish without any session being alive.
Durable ==
    Edited(head) \cup copied
      \cup UNION {cache[d].b.v : d \in {x \in Device : IsPending(x)}}

\* No acknowledged edit is lost: it is in the file, in a conflict copy, or in
\* a pending generation, unless another program took it out of the file.
AckedEditsSurvive == acked \subseteq Durable \cup gone

\* Edits that the file need not hold: another program took them out of it,
\* or they are in a conflict copy and the session went on without them.
Settled == gone \cup copied

\* Every replacement of the file by this program, retried, late or from a
\* stale session, keeps every edit of the head it replaces.  What is settled
\* may be undone: a session whose base has such an edit and whose vault lacks
\* it takes it out again when another runtime has put it back.
PushKeepsHead ==
    [][(head' # head /\ head' # NoBytes /\ head'.w = "kern") =>
          Edited(head) \subseteq head'.v \cup Settled]_vars

\* What the patch rests on, for the only runtime of a device: the base is an
\* ancestor of the head the edits are patched onto, and the local vault is the
\* base plus edits, but for what is settled.
BaseIsAncestor ==
    \A p \in Proc :
        (job[p].at = "push" /\ \A q \in Proc \ {p} : D(q) # D(p)) =>
            job[p].base.v \subseteq (job[p].rem.v \cap job[p].local) \cup Settled

\* Every call ends, or hangs in a request that is never answered: a save or a
\* retry whose condition is refused again and again, or whose answers are lost,
\* comes to an end.
CallsEnd ==
    \A p \in Proc : job[p].at # "idle" ~> job[p].at \in {"idle", "hung"}

\* Every call works within its bounds (MAX_SOURCE_ATTEMPTS among them) and
\* patches from an ancestor of the head, whatever the other runtimes and
\* programs wrote since the base was read.
PatchSound == TypeOK /\ BaseIsAncestor
=============================================================================
