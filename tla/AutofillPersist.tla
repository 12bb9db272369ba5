--------------------------- MODULE AutofillPersist ---------------------------
(***************************************************************************)
(* Atomic autofill persistence: runtimes of one device that carry the      *)
(* plans of the browser extension into a vault at a local file or a        *)
(* OneDrive item, with a pending operation in the remote cache when the    *)
(* answer to a write is lost (persist_autofill_mutation and the retry      *)
(* try_sync_pending_autofill_chain of runtime.rs).                         *)
(*                                                                         *)
(* A runtime works on one command at a time, so its session stands still   *)
(* while its call waits for the source; other runtimes, other programs     *)
(* and late writes do not.                                                 *)
(***************************************************************************)
EXTENDS AutofillEngine

CONSTANTS
    Runtimes,     \* runtimes of the device; they share the cache and the bases
    Requests,     \* what the extension may ask: [op, txn, plan]
    InitialVault, \* the vault at the source at first
    NewCred,      \* the credential an edit by hand gives entry Edited
    Edited,       \* the entry that edits change
    Twin,         \* [id, entry]: an entry another program may add
    MaxAttempts,  \* MAX_SOURCE_ATTEMPTS
    MaxCalls,     \* bound on persist and retry calls
    MaxFaults,    \* bound on failures, lost answers and crashes
    MaxEdits      \* bound on edits of sessions and of other programs

ASSUME PersistBounds ==
    {MaxAttempts, MaxCalls, MaxFaults, MaxEdits} \subseteq Nat /\ MaxAttempts > 0

VARIABLES
    kind,     \* "local" or "onedrive"
    blob,     \* a quick unlock blob can open generations of another key
    head,     \* the generation at the source: [n, vault, key, prof]
    late,     \* a write the service may still carry out: [gen, over]
    cache,    \* the remote cache: [gen, op, prev, prevOp, seen]
    bases,    \* the stored bases: [session, synced]
    session,  \* per runtime: [vault, base, prof, key], or None
    job,      \* per runtime: the call under way, or None
    acked,    \* op -> time of the receipt answered as durable
    now, calls, faults, edits, top

vars == <<kind, blob, head, late, cache, bases, session, job, acked, now, calls, faults, edits, top>>

(***************************************************************************)
(* The remote cache (RemoteCache has its files).                           *)
(***************************************************************************)

\* write_with_source_etag leaves a pending generation alone.
CacheWritten(c, g) ==
    IF c.op # None \/ c.gen.n = g.n THEN c
    ELSE [gen |-> g, op |-> None, prev |-> c.gen, prevOp |-> None, seen |-> None]

\* write_pending_autofill: the plan's baseline must be what the cache holds.
CacheTakesPending(c, base) == c.op = None /\ c.gen.n = base.n
CachePending(c, g, op, seen) ==
    [gen |-> g, op |-> op, prev |-> c.gen, prevOp |-> None, seen |-> seen]

\* complete_pending_autofill
CacheCompletes(c, op, pending, g) ==
    IF c.op = None THEN c.prevOp = op /\ c.prev.n = pending.n /\ c.gen.n = g.n
    ELSE c.op = op /\ c.gen.n = pending.n
CacheCompleted(c, op, g) ==
    IF c.op = None THEN c
    ELSE [gen |-> g, op |-> None, prev |-> c.gen, prevOp |-> op, seen |-> None]

IsPending == kind = "onedrive" /\ cache.op # None

(***************************************************************************)
(* Sessions                                                                *)
(***************************************************************************)

\* merge_save_profile; None: changed on both sides.
merge_save_profile(b, l, r) ==
    IF l = b THEN r ELSE IF r = b \/ r = l THEN l ELSE None

has_vaultkern_sync_lineage(b, r) == b.gen = "VaultKern" /\ r.gen = "VaultKern"

\* refresh_transformed_key_from_unlock_blob, when the session's key is not
\* the generation's
Opens(key, g) == key = g.key \/ blob

OpenedSession(g) == [vault |-> g.vault, base |-> g, prof |-> g.prof, key |-> g.key]

\* install_committed_autofill_generation and replace_session_transformed_key
Install(r, g) ==
    /\ session' = [session EXCEPT ![r] = OpenedSession(g)]
    /\ bases' = [session |-> g, synced |-> g]

Fresh(v, key, prof) == [n |-> top + 1, vault |-> v, key |-> key, prof |-> prof]

\* session_base_for_fingerprint finds the bytes a session was opened from.
HasBase(g) ==
    \/ g.n \in {bases.session.n, bases.synced.n}
    \/ kind = "onedrive" /\ cache.gen.n = g.n

\* begin_write keeps the lock of a local file until the commit.
Unlocked(r) ==
    kind = "local" => \A o \in Runtimes \ {r} : job[o] # None => job[o].phase # "push"

Ack(op, g) == acked' = With(acked, op, g.vault.receipts[op].at)
EndJob(r) == job' = [job EXCEPT ![r] = None]
Fault == faults < MaxFaults /\ faults' = faults + 1
Idle(r) == session[r] # None /\ job[r] = None

(***************************************************************************)
(* Opening a vault, edits, and the saves that are not autofill's           *)
(***************************************************************************)
Load(r) ==
    /\ session[r] = None
    /\ LET g == IF IsPending THEN cache.gen ELSE head IN
       /\ session' = [session EXCEPT ![r] = OpenedSession(g)]
       /\ bases' = IF IsPending THEN [bases EXCEPT !.session = cache.prev]
                   ELSE [session |-> head, synced |-> head]
       /\ cache' = IF kind = "local" THEN cache ELSE CacheWritten(cache, g)
    /\ UNCHANGED <<kind, blob, head, late, job, acked, now, calls, faults, edits, top>>

\* update_entry_fields: a snapshot, then the new value.
Edit(v, id, cred) ==
    [v EXCEPT !.entries[id] = [@ EXCEPT !.hist = Append(@, Snapshot(v.entries[id])),
                                        !.cred = cred, !.at = now + 1]]
Recycle(v, id) == [v EXCEPT !.entries[id].home = "bin", !.entries[id].at = now + 1]
Drop(v, id) == [v EXCEPT !.entries = Without(@, {id}), !.deleted = @ \cup {id}]

LiveEdit(r) ==
    /\ Idle(r) /\ edits < MaxEdits
    /\ edits' = edits + 1 /\ now' = now + 1
    /\ LET s == session[r] IN
       \/ /\ IsLive(s.vault, Edited)
          /\ \E v \in {Edit(s.vault, Edited, NewCred), Recycle(s.vault, Edited)} :
                session' = [session EXCEPT ![r].vault = v]
       \/ session' = [session EXCEPT ![r].prof = "live"]
    /\ UNCHANGED <<kind, blob, head, late, cache, bases, job, acked, calls, faults, top>>

\* Another device or another program replaces the source.
OtherEdit ==
    /\ edits < MaxEdits
    /\ edits' = edits + 1 /\ now' = now + 1 /\ top' = top + 1
    /\ LET v == head.vault
           e == v.entries[Edited]
           vs == (IF Edited \in DOMAIN v.entries
                  THEN {Edit(v, Edited, NewCred), Recycle(v, Edited), Drop(v, Edited)}
                       \cup {Edit(v, Edited, h.cred) : h \in ToSet(e.hist)} ELSE {})
                 \cup {[v EXCEPT !.entries = With(@, Twin.id, Twin.entry)]}
       IN  \/ \E w \in vs, g \in {"VaultKern", "Other"} :
                 head' = Fresh([w EXCEPT !.gen = g], head.key, head.prof)
           \/ head' = Fresh(v, head.key + 1, head.prof)
           \/ head' = Fresh(v, head.key, "other")
    /\ UNCHANGED <<kind, blob, late, cache, bases, session, job, acked, calls, faults>>

\* A save by hand of a session whose source is unchanged;
\* ensure_generic_save_allowed refuses it while an operation is pending.
GenericSave(r) ==
    /\ Idle(r) /\ Unlocked(r) /\ ~IsPending
    /\ session[r].base.n = head.n /\ session[r].key = head.key
    /\ session[r].vault # head.vault /\ Saves(session[r].vault)
    /\ LET g == Fresh(Written(session[r].vault), session[r].key, session[r].prof) IN
       /\ head' = g
       /\ Install(r, g)
       /\ cache' = IF kind = "local" THEN cache ELSE CacheWritten(cache, g)
    /\ top' = top + 1
    /\ UNCHANGED <<kind, blob, late, job, acked, now, calls, faults, edits>>

(***************************************************************************)
(* persist_autofill_mutation                                               *)
(***************************************************************************)

\* The refusals before the source is read change nothing: an invalid plan, a
\* base that is gone or of an older key, a session that cannot be saved.
CanPersist(r, q) ==
    LET s == session[r] IN
    /\ IsValid(q.plan)
    /\ HasBase(s.base) /\ Opens(s.key, s.base)
    /\ Saves(s.vault)

PersistBegin(r, q) ==
    /\ Idle(r) /\ ~IsPending /\ calls < MaxCalls
    /\ CanPersist(r, q)
    /\ calls' = calls + 1
    /\ job' = [job EXCEPT ![r] =
          [call |-> "persist", q |-> q, phase |-> "fetch", attempt |-> 1, key |-> session[r].key,
           live |-> Written(session[r].vault), prof |-> session[r].prof,
           seen |-> None, cand |-> None, outcome |-> None, pending |-> None]]
    /\ UNCHANGED <<kind, blob, head, late, cache, bases, session, acked, now, faults, edits, top>>

\* persist_or_replay_pending_onedrive_autofill_mutation with a chain: the
\* operation is durable in the cache, and a session from before it adopts it.
PersistPending(r, q) ==
    LET s == session[r]
        isLoaded == s.base.n = cache.gen.n
        live == Written(s.vault)
        prepared == prepare_autofill_persist(IF isLoaded THEN cache.gen.vault ELSE s.base.vault,
                                             IF isLoaded THEN cache.gen.vault ELSE live,
                                             cache.gen.vault, q, now)
        prof == merge_save_profile(s.base.prof, s.prof, cache.gen.prof)
    IN  /\ Idle(r) /\ IsPending /\ calls < MaxCalls
        /\ IsValid(q.plan) /\ Saves(s.vault)
        /\ isLoaded \/ (HasBase(s.base) /\ Opens(s.key, s.base))
        /\ q.op = cache.op
        /\ Opens(s.key, cache.gen)
        /\ isLoaded \/ s.base.n = cache.prev.n
        /\ prepared.ok /\ prepared.outcome # "NeedsPublish"
        /\ isLoaded \/ prof # None
        /\ calls' = calls + 1
        /\ session' = [session EXCEPT ![r] =
              IF isLoaded THEN [s EXCEPT !.key = cache.gen.key]
              ELSE [vault |-> prepared.vault, base |-> cache.gen, prof |-> prof, key |-> cache.gen.key]]
        /\ bases' = IF isLoaded THEN [bases EXCEPT !.session = cache.prev] ELSE bases
        /\ Ack(q.op, cache.gen)
        /\ UNCHANGED <<kind, blob, head, late, cache, job, now, faults, edits, top>>

\* What a persist call makes of the source it read.
PersistView(r) ==
    LET s == session[r]
        j == job[r]
    IN  [opens |-> Opens(j.key, head),
         lineage |-> s.base.n = head.n \/ has_vaultkern_sync_lineage(s.base.vault, head.vault),
         prof |-> merge_save_profile(s.base.prof, j.prof, head.prof),
         prepared |-> prepare_autofill_persist(s.base.vault, j.live, head.vault, j.q, now)]

ToPush(r, prepared, prof) ==
    job' = [job EXCEPT ![r] = [@ EXCEPT !.phase = "push", !.seen = head, !.key = head.key,
                                        !.cand = [vault |-> Written(prepared.vault), prof |-> prof],
                                        !.outcome = prepared.outcome]]

\* persist_local_autofill_mutation and persist_onedrive_autofill_mutation up
\* to the write.
PersistFetch(r) ==
    /\ job[r] # None /\ job[r].call = "persist" /\ job[r].phase = "fetch"
    /\ Unlocked(r)
    /\ \E d \in {PersistView(r)} :
       LET isReadable == d.opens /\ d.lineage /\ d.prof # None /\ d.prepared.ok
           isReplayed == d.prepared.outcome = "Replayed" /\ d.prof = head.prof
       IN  IF isReadable /\ isReplayed
           THEN /\ Install(r, head)
                /\ cache' = IF kind = "local" THEN cache ELSE CacheWritten(cache, head)
                /\ Ack(job[r].q.op, head) /\ EndJob(r)
           ELSE /\ IF isReadable /\ Verified(d.prepared, job[r].q, now)
                   THEN ToPush(r, d.prepared, d.prof)
                   ELSE EndJob(r)
                /\ UNCHANGED <<cache, bases, session, acked>>
    /\ UNCHANGED <<kind, blob, head, late, now, calls, faults, edits, top>>

(***************************************************************************)
(* The conditional write of either call                                    *)
(***************************************************************************)
Candidate(r) == Fresh(job[r].cand.vault, job[r].key, job[r].cand.prof)

\* Mutant: the attempts are not counted.
RefusalUncounted(r) ==
    /\ job' = [job EXCEPT ![r].attempt = @ + 1, ![r].phase = "fetch"]
    /\ UNCHANGED <<head, late, faults, top>>

Refusal(r) ==
    /\ job' = [job EXCEPT ![r] =
          IF @.attempt < MaxAttempts
          THEN [@ EXCEPT !.attempt = @ + 1, !.phase = "fetch"]
          ELSE None]
    /\ UNCHANGED <<head, late, faults, top>>

\* Mutant: the write is not conditional.
PushUnconditional(r) ==
    /\ job[r] # None /\ job[r].phase = "push"
    /\ head' = Candidate(r) /\ top' = top + 1
    /\ job' = [job EXCEPT ![r].phase = "record", ![r].cand = Candidate(r)]
    /\ UNCHANGED <<kind, blob, late, cache, bases, session, acked, now, calls, faults, edits>>

\* The source is replaced if it is still the one that was read; an answer
\* that is lost leaves the write done, undone or on its way.
Push(r) ==
    /\ job[r] # None /\ job[r].phase = "push"
    /\ \/ head.n # job[r].seen.n /\ Refusal(r)
       \/ /\ head.n = job[r].seen.n
          /\ head' = Candidate(r) /\ top' = top + 1
          /\ job' = [job EXCEPT ![r].phase = "record", ![r].cand = Candidate(r)]
          /\ UNCHANGED <<late, faults>>
       \/ /\ head.n = job[r].seen.n /\ Fault
          /\ top' = top + 1
          /\ \/ head' = Candidate(r) /\ UNCHANGED late
             \/ UNCHANGED <<head, late>>
             \/ /\ kind = "onedrive"
                /\ late' = [gen |-> Candidate(r), over |-> head.n] /\ UNCHANGED head
          /\ job' = [job EXCEPT ![r] =
                IF kind = "onedrive" /\ @.call = "persist"
                THEN [@ EXCEPT !.phase = "unknown", !.cand = Candidate(r)] ELSE None]
    /\ UNCHANGED <<kind, blob, cache, bases, session, acked, now, calls, edits>>

\* A write that was on its way reaches the service, which checks it.
LateWrite ==
    /\ late # None
    /\ head' = IF head.n = late.over THEN late.gen ELSE head
    /\ late' = None
    /\ UNCHANGED <<kind, blob, cache, bases, session, job, acked, now, calls, faults, edits, top>>

\* The write is known to be done: the cache, the bases and the session
\* follow; a cache that cannot be written is only reported.
PersistRecord(r) ==
    /\ job[r] # None /\ job[r].call = "persist" /\ job[r].phase = "record"
    /\ Install(r, job[r].cand)
    /\ \/ cache' = (IF kind = "local" THEN cache ELSE CacheWritten(cache, job[r].cand)) /\ UNCHANGED faults
       \/ kind = "onedrive" /\ Fault /\ UNCHANGED cache
    /\ Ack(job[r].q.op, job[r].cand) /\ EndJob(r)
    /\ UNCHANGED <<kind, blob, head, late, now, calls, edits, top>>

\* Mutant: the answer does not wait for the cache.
PersistUnknownTrusting(r) ==
    /\ job[r] # None /\ job[r].phase = "unknown"
    /\ session' = [session EXCEPT ![r] = OpenedSession(job[r].cand)]
    /\ Ack(job[r].q.op, job[r].cand) /\ EndJob(r)
    /\ UNCHANGED <<kind, blob, head, late, cache, bases, now, calls, faults, edits, top>>

\* The outcome is unknown: the operation is durable once the cache holds it.
PersistUnknown(r) ==
    /\ job[r] # None /\ job[r].phase = "unknown"
    /\ \/ /\ CacheTakesPending(cache, session[r].base)
          /\ cache' = CachePending(cache, job[r].cand, job[r].q.op, job[r].seen)
          /\ session' = [session EXCEPT ![r] = OpenedSession(job[r].cand)]
          /\ Ack(job[r].q.op, job[r].cand)
          /\ UNCHANGED faults
       \/ /\ CacheTakesPending(cache, session[r].base) => Fault
          /\ ~CacheTakesPending(cache, session[r].base) => UNCHANGED faults
          /\ UNCHANGED <<cache, session, acked>>
    /\ EndJob(r)
    /\ UNCHANGED <<kind, blob, head, late, bases, now, calls, edits, top>>

(***************************************************************************)
(* try_sync_pending_autofill_chain                                         *)
(***************************************************************************)

\* The operation as its receipt tells of it, if the generations prove it.
PendingReceipt == cache.gen.vault.receipts[cache.op]
PendingRequest ==
    LET x == PendingReceipt IN
    [op |-> cache.op, txn |-> x.txn,
     plan |-> reconstruct_pending_autofill_plan(cache.prev.vault, cache.gen.vault, x)]

\* What the session holds, taken over to the pending generation.
AdoptedLive(r) ==
    LET s == session[r] IN
    IF s.base.n = cache.gen.n THEN [ok |-> TRUE, outcome |-> "Replayed", vault |-> Written(s.vault), prof |-> s.prof]
    ELSE prepare_autofill_persist(cache.prev.vault, Written(s.vault), cache.gen.vault, PendingRequest, now)
         @@ [prof |-> merge_save_profile(cache.prev.prof, s.prof, cache.gen.prof)]

CanSync(r) ==
    LET s == session[r] IN
    /\ Opens(s.key, cache.gen)
    /\ cache.prev.key \in {s.key, cache.gen.key} \/ blob
    /\ cache.seen.key = cache.gen.key
    /\ cache.op \in DOMAIN cache.gen.vault.receipts
    /\ PendingRequest.plan # None
    /\ IsValid(PendingRequest.plan)
    /\ plan_sha256(PendingRequest) = PendingReceipt.plan
    /\ Saves(s.vault)
    /\ s.base.n \in {cache.gen.n, cache.prev.n}

SyncBegin(r) ==
    /\ Idle(r) /\ IsPending /\ calls < MaxCalls
    /\ CanSync(r)
    /\ calls' = calls + 1
    /\ \E adopted \in {AdoptedLive(r)} :
       /\ adopted.ok /\ adopted.outcome # "NeedsPublish" /\ adopted.prof # None
       /\ job' = [job EXCEPT ![r] =
          [call |-> "sync", q |-> PendingRequest, phase |-> "fetch", attempt |-> 1, key |-> cache.gen.key,
           live |-> adopted.vault, prof |-> adopted.prof,
           seen |-> None, cand |-> None, outcome |-> None, pending |-> cache]]
    /\ UNCHANGED <<kind, blob, head, late, cache, bases, session, acked, now, faults, edits, top>>

SyncView(r) ==
    LET j == job[r]
        p == j.pending
        x == p.gen.vault.receipts[p.op]
        known == p.op \in DOMAIN head.vault.receipts
    IN  [prof |-> merge_save_profile(p.seen.prof, j.prof, head.prof),
         isBound |-> IF known THEN same_receipt_binding(head.vault.receipts[p.op], x)
                     ELSE validate_unreceipted_pending_target_unchanged(
                             p.prev.vault, p.seen.vault, head.vault, x),
         isPublished |-> head.n = p.gen.n /\ j.live = p.gen.vault,
         prepared |-> prepare_autofill_persist(
                          IF known THEN p.gen.vault ELSE p.seen.vault,
                          IF known THEN j.live ELSE remove_pending_autofill_operation_receipt(j.live, p.op),
                          head.vault, j.q, now)]

SyncFetch(r) ==
    /\ job[r] # None /\ job[r].call = "sync" /\ job[r].phase = "fetch"
    /\ \E d \in {SyncView(r)} :
       LET isReadable == Opens(job[r].key, head) /\ d.prof # None /\ d.isBound
           isDone == /\ d.prof = head.prof
                     /\ d.isPublished \/ (d.prepared.ok /\ d.prepared.outcome = "Replayed")
       IN  IF isReadable /\ isDone
           THEN job' = [job EXCEPT ![r].phase = "record", ![r].cand = head]
           ELSE IF isReadable /\ d.prepared.ok /\ Verified(d.prepared, job[r].q, now)
           THEN ToPush(r, d.prepared, d.prof)
           ELSE EndJob(r)
    /\ UNCHANGED <<kind, blob, head, late, cache, bases, session, acked, now, calls, faults, edits, top>>

\* finish_pending_autofill_sync: the session follows only a cache that does.
SyncRecord(r) ==
    /\ job[r] # None /\ job[r].call = "sync" /\ job[r].phase = "record"
    /\ LET j == job[r] IN
       \/ /\ CacheCompletes(cache, j.q.op, j.pending.gen, j.cand)
          /\ cache' = CacheCompleted(cache, j.q.op, j.cand)
          /\ Install(r, j.cand)
          /\ UNCHANGED faults
       \/ /\ CacheCompletes(cache, j.q.op, j.pending.gen, j.cand) => Fault
          /\ ~CacheCompletes(cache, j.q.op, j.pending.gen, j.cand) => UNCHANGED faults
          /\ UNCHANGED <<cache, bases, session>>
    /\ EndJob(r)
    /\ UNCHANGED <<kind, blob, head, late, acked, now, calls, edits, top>>

(***************************************************************************)
(* Faults and time                                                         *)
(***************************************************************************)

\* The source cannot be read, or the write is refused for good.
CallFails(r) ==
    /\ job[r] # None /\ job[r].phase \in {"fetch", "push"} /\ Fault
    /\ EndJob(r)
    /\ UNCHANGED <<kind, blob, head, late, cache, bases, session, acked, now, calls, edits, top>>

\* The runtime dies, or the vault is locked; edits that are not saved go.
Crash(r) ==
    /\ session[r] # None /\ Fault
    /\ session' = [session EXCEPT ![r] = None]
    /\ EndJob(r)
    /\ UNCHANGED <<kind, blob, head, late, cache, bases, acked, now, calls, edits, top>>

\* Receipts grow old.
Elapse ==
    /\ edits < MaxEdits /\ edits' = edits + 1
    /\ now' = now + Retention + 1
    /\ UNCHANGED <<kind, blob, head, late, cache, bases, session, job, acked, calls, faults, top>>

Init ==
    LET g == [n |-> 0, vault |-> InitialVault, key |-> 1, prof |-> "aes"] IN
    /\ kind \in {"local", "onedrive"}
    /\ blob \in BOOLEAN
    /\ head = g
    /\ late = None
    /\ cache = [gen |-> g, op |-> None, prev |-> None, prevOp |-> None, seen |-> None]
    /\ bases = [session |-> g, synced |-> g]
    /\ session = [r \in Runtimes |-> OpenedSession(g)]
    /\ job = [r \in Runtimes |-> None]
    /\ acked = NoReceipts
    /\ now = 1 /\ calls = 0 /\ faults = 0 /\ edits = 0 /\ top = 0

Step(r) ==
    \/ Load(r) \/ LiveEdit(r) \/ GenericSave(r)
    \/ \E q \in Requests : PersistBegin(r, q) \/ PersistPending(r, q)
    \/ PersistFetch(r) \/ Push(r) \/ PersistRecord(r) \/ PersistUnknown(r)
    \/ SyncBegin(r) \/ SyncFetch(r) \/ SyncRecord(r)
    \/ CallFails(r) \/ Crash(r)

Next == (\E r \in Runtimes : Step(r)) \/ OtherEdit \/ LateWrite \/ Elapse

Spec == Init /\ [][Next]_vars

(***************************************************************************)
(* Properties                                                              *)
(***************************************************************************)
LOCAL Ops == {q.op : q \in Requests}
LOCAL Phases == {"fetch", "push", "record", "unknown"}

\* The calls, the cache and the sessions have the shapes the code gives them,
\* and every generation is older than the next write.
TypeOK ==
    /\ head.n <= top /\ cache.gen.n <= top
    /\ late # None => late.over < late.gen.n
    /\ cache.op \in Ops \cup {None} /\ (cache.op = None) = (cache.seen = None)
    /\ \A r \in Runtimes :
          /\ session[r] # None => session[r].base.n <= top
          /\ job[r] # None => /\ session[r] # None
                             /\ job[r].phase \in Phases /\ job[r].attempt \in 1 .. MaxAttempts
    /\ DOMAIN acked \subseteq Ops

\* An operation answered as durable is in the source or in the cache's pending
\* generation until its receipt is old or newer ones fill the ledger: the
\* extension may forget the submission.
DurableIsKept ==
    \A op \in DOMAIN acked :
        \/ op \in DOMAIN head.vault.receipts
        \/ IsPending /\ op \in DOMAIN cache.gen.vault.receipts
        \/ Cardinality(DOMAIN head.vault.receipts) = MaxReceipts
        \/ acked[op] < now - Retention

\* A runtime's write changes the source only with the job that did it.
LOCAL Publishes(r) == head' # head /\ job[r] # None /\ job[r] # job'[r] /\ job[r].phase = "push"

LOCAL Holds(v, id, cred) ==
    /\ id \in DOMAIN v.entries
    /\ LET e == v.entries[id] IN
       e.cred = cred \/ (\E h \in ToSet(e.hist) : h.cred = cred) \/ Len(e.hist) = MaxHistory

\* A published generation keeps every credential of the generation it
\* replaces, in its entry or in its history, whatever was read before.
SourceValuesKept ==
    [][\A r \in Runtimes : Publishes(r) =>
          \A id \in DOMAIN head.vault.entries : Holds(head'.vault, id, head.vault.entries[id].cred)]_vars

\* A retry of an operation whose receipt the source has never applies the
\* plan again over what happened to the entry since: the entry is as in the
\* source or as in the session the call began with.
NeverAppliedTwice ==
    [][\A r \in Runtimes : Publishes(r) =>
          LET q == job[r].q
              id == q.plan.entry
              creds(v) == IF id \in DOMAIN v.entries THEN {v.entries[id].cred} ELSE {}
          IN  q.op \in DOMAIN head.vault.receipts =>
                 creds(head'.vault) \subseteq creds(head.vault) \cup creds(job[r].live)]_vars

\* A new receipt comes to the source together with what it vouches for.
ReceiptMeansApplied ==
    [][\A r \in Runtimes : Publishes(r) =>
          LET q == job[r].q IN
          q.op \notin DOMAIN head.vault.receipts =>
             /\ q.op \in DOMAIN head'.vault.receipts
             /\ q.plan.entry \in DOMAIN head'.vault.entries
             /\ head'.vault.entries[q.plan.entry].cred = DesiredCred(q.plan)]_vars

\* A call that installs a generation in the open session keeps the edits the
\* session has not saved.
LiveEditsKept ==
    [][\A r \in Runtimes :
          LET s == session[r] IN
          (s # None /\ session'[r] # None) =>
             \A id \in DOMAIN s.vault.entries :
                (id \in DOMAIN s.base.vault.entries /\ s.vault.entries[id].cred # s.base.vault.entries[id].cred) =>
                   Holds(session'[r].vault, id, s.vault.entries[id].cred)]_vars

\* Every call stays within its attempts and phases, and what was answered as
\* durable stays so.
DurableSound == TypeOK /\ DurableIsKept

\* A publication keeps the credentials of the source, applies a plan once and
\* leaves the receipt with what it vouches for, whatever the attempt before it
\* had read or done.
PublishesSafely == SourceValuesKept /\ NeverAppliedTwice /\ ReceiptMeansApplied
=============================================================================
