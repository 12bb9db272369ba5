---------------------------- MODULE AutofillEngine ----------------------------
(***************************************************************************)
(* The engine of autofill_persist.rs: what one autofill mutation makes of   *)
(* the vault a runtime has open and of the vault at the source.            *)
(*                                                                         *)
(* A vault is cut down to what the engine tells apart:                     *)
(*   entries  id -> [cred, note, prot, home, at, hist]: cred stands for    *)
(*            user name, password and URL, note for the other fields of a  *)
(*            plan, prot for the protection of fields, home for the group, *)
(*            at for the modification time, hist for the snapshots         *)
(*   groups, deleted (tombstones), receipts (op -> receipt), gen (the      *)
(*            program that wrote it)                                       *)
(***************************************************************************)
EXTENDS Integers, Sequences, FiniteSets, SequencesExt, TLC

CONSTANTS
    MaxReceipts,  \* MAX_RECEIPTS
    Retention,    \* RECEIPT_RETENTION_MS
    MaxHistory,   \* the history_max_items of the vault
    Forbidden,    \* the texts XML can hold only when protected
    None          \* an absent value

ASSUME EngineBounds == MaxReceipts \in Nat \ {0} /\ Retention \in Nat /\ MaxHistory \in Nat

Without(f, S) == [x \in DOMAIN f \ S |-> f[x]]
With(f, k, v) == [x \in DOMAIN f \cup {k} |-> IF x = k THEN v ELSE f[x]]

Snapshot(e) == [cred |-> e.cred, note |-> e.note, prot |-> e.prot, at |-> e.at]

\* The groups of the model are the root, the recycle bin and groups below the
\* root, so an entry is recycled when the bin holds it.
IsLive(v, id) == id \in DOMAIN v.entries /\ v.entries[id].home # "bin"
group_is_live(v, g) == g \in v.groups /\ g # "bin"

\* What saving and reloading leaves of a vault.
Written(v) ==
    [v EXCEPT !.gen = "VaultKern",
              !.entries = [id \in DOMAIN @ |->
                  [@[id] EXCEPT !.hist = IF Len(@) <= MaxHistory THEN @
                                           ELSE SubSeq(@, Len(@) - MaxHistory + 1, Len(@))]]]
\* An unprotected forbidden text is no XML.
Saves(v) ==
    \A id \in DOMAIN v.entries :
        \A x \in {Snapshot(v.entries[id])} \cup ToSet(v.entries[id].hist) :
            x.cred \in Forbidden => x.prot

(***************************************************************************)
(* The patch (three_way_patch.rs; ThreeWayPatch has all of it).            *)
(***************************************************************************)
merge_value(b, l, r, preferLocal) ==
    IF l = b THEN r ELSE IF r = b \/ l = r \/ preferLocal THEN l ELSE r

LOCAL Clash(b, l, r) == l # b /\ r # b /\ l # r

MergedEntry(b, l, r) ==
    LET p == l.at > r.at
        clash == Clash(b.cred, l.cred, r.cred) \/ Clash(b.note, l.note, r.note)
        loser == Snapshot(IF p THEN r ELSE l)
        union == FoldLeft(LAMBDA acc, h : IF Contains(acc, h) THEN acc ELSE Append(acc, h),
                          r.hist, b.hist \o l.hist)
    IN  [cred |-> merge_value(b.cred, l.cred, r.cred, p),
         note |-> merge_value(b.note, l.note, r.note, p),
         prot |-> merge_value(b.prot, l.prot, r.prot, p),
         home |-> merge_value(b.home, l.home, r.home, p),
         at |-> IF p THEN l.at ELSE r.at,
         hist |-> IF clash /\ ~Contains(union, loser) THEN Append(union, loser) ELSE union,
         required |-> IF clash THEN {loser} ELSE {}]

Refused == [ok |-> FALSE]

\* What a patch makes of the rest once it has the entries.
MergedVault(b, l, r, es) ==
    [entries |-> es,
     groups |-> (l.groups \cap r.groups) \cup {g \in l.groups \cup r.groups : g \notin b.groups
                                              \/ \E id \in DOMAIN es : es[id].home = g},
     deleted |-> (l.deleted \cup r.deleted) \ DOMAIN es,
     receipts |-> merge_value(b.receipts, l.receipts, r.receipts, FALSE),
     gen |-> merge_value(b.gen, l.gen, r.gen, FALSE)]

MergedEntries(b, l, r, merged) ==
    LET E(v) == DOMAIN v.entries
        kept(s, o) == {id \in E(s) \ E(o) : id \in E(b) => s.entries[id] # b.entries[id]}
    IN  [id \in DOMAIN merged |-> [f \in DOMAIN b.entries[id] |-> merged[id][f]]]
          @@ [id \in kept(l, r) |-> l.entries[id]]
          @@ [id \in kept(r, l) \cup (E(l) \cap E(r)) |-> r.entries[id]]

\* ensure_patch_conflict_history_is_recoverable; one id with two contents
\* cannot be merged.
Recoverable(b, l, r, merged, v) ==
    /\ \A id \in (DOMAIN l.entries \cap DOMAIN r.entries) \ DOMAIN b.entries : l.entries[id] = r.entries[id]
    /\ \A id \in DOMAIN merged : merged[id].required \subseteq ToSet(Written(v).entries[id].hist)

PatchResult(b, l, r, merged, v) ==
    IF Recoverable(b, l, r, merged, v) THEN [ok |-> TRUE, vault |-> v] ELSE Refused

\* three_way_field_patch: an edit beats a deletion.
three_way_field_patch(b, l, r) ==
    LET both == DOMAIN b.entries \cap DOMAIN l.entries \cap DOMAIN r.entries
        merged == [id \in both |-> MergedEntry(b.entries[id], l.entries[id], r.entries[id])]
    IN  PatchResult(b, l, r, merged, MergedVault(b, l, r, MergedEntries(b, l, r, merged)))

NoReceipts == [op \in {} |-> None]
without_autofill_receipts(v) == [v EXCEPT !.receipts = NoReceipts]

\* Mutant: a source that moved on is taken as it is.
merge_taking_source(b, l, r) == [ok |-> TRUE, vault |-> IF r = b THEN l ELSE r]

merge_autofill_candidate(b, l, r) ==
    IF l = r \/ r = b THEN [ok |-> TRUE, vault |-> l]
    ELSE IF l = b THEN [ok |-> TRUE, vault |-> r]
    ELSE three_way_field_patch(without_autofill_receipts(b), without_autofill_receipts(l),
                               without_autofill_receipts(r))

(***************************************************************************)
(* The receipts.                                                           *)
(***************************************************************************)

\* A request is [op, txn, plan]; an update plan is [mode, entry, expected,
\* desired] with creds, a create plan is [mode, entry, parent, matching,
\* desired] with a record of cred and note.
DesiredCred(p) == IF p.mode = "update" THEN p.desired ELSE p.desired.cred

\* ValidatedPlan::from_dto: a planned credential is not empty.
IsValid(p) == DesiredCred(p) # ""

\* hash_validated_plan; a digest stands for what it is computed from.
plan_sha256(q) == <<q.txn, q.plan>>

Receipt(q, now) ==
    [txn |-> q.txn, plan |-> plan_sha256(q), mode |-> q.plan.mode, entry |-> q.plan.entry, at |-> now]

same_receipt_binding(x, y) == [x EXCEPT !.at = 0] = [y EXCEPT !.at = 0]

insert_receipt(receipts, op, x) ==
    IF op \in DOMAIN receipts /\ receipts[op].at >= x.at THEN receipts ELSE With(receipts, op, x)

\* merge_receipt_maps; bindings differ: a conflict.
BindingsAgree(a, b) == \A op \in DOMAIN a \cap DOMAIN b : same_receipt_binding(a[op], b[op])
merge_receipt_maps(a, b) ==
    [op \in DOMAIN a \cup DOMAIN b |->
        IF op \notin DOMAIN b \/ (op \in DOMAIN a /\ a[op].at >= b[op].at) THEN a[op] ELSE b[op]]

\* Mutant: the receipt of the operation is cut off like any other.
write_pruned_ledger_all(receipts, op, now) ==
    LET young == {o \in DOMAIN receipts : receipts[o].at >= now - Retention}
        newer(o) == {x \in young : receipts[x].at > receipts[o].at}
        keep == {o \in young : Cardinality(newer(o)) < MaxReceipts - 1}
    IN  [o \in keep |-> receipts[o]]

\* write_pruned_ledger: the operation's receipt and the youngest others.
write_pruned_ledger(receipts, op, now) ==
    LET young == {o \in DOMAIN receipts \ {op} : receipts[o].at >= now - Retention}
        order == CHOOSE s \in SetToSeqs(young) :
                    \A i, k \in DOMAIN s : i < k => receipts[s[i]].at >= receipts[s[k]].at
        keep == {order[i] : i \in DOMAIN order \cap 1 .. (MaxReceipts - 1)} \cup {op}
    IN  [o \in keep |-> receipts[o]]

(***************************************************************************)
(* Applying a plan.                                                        *)
(***************************************************************************)
protect_xml_forbidden_fields(x) == [x EXCEPT !.prot = @ \/ x.cred \in Forbidden]

protect_target_xml_forbidden_fields(v, id) ==
    IF id \notin DOMAIN v.entries THEN v
    ELSE [v EXCEPT !.entries[id] =
             [protect_xml_forbidden_fields(@) EXCEPT
                 !.hist = [i \in DOMAIN @ |-> protect_xml_forbidden_fields(@[i])]]]

entry_matches_validated(e, d) == e.cred = d.cred /\ e.note = d.note

exact_matching_entry_ids(v, d) ==
    {id \in DOMAIN v.entries : IsLive(v, id) /\ entry_matches_validated(v.entries[id], d)}

Conflict(code) == [ok |-> FALSE, code |-> code]

\* Mutant: the entry is overwritten without a snapshot.
apply_update_unsaved(e, cred, now) ==
    protect_xml_forbidden_fields(
        [e EXCEPT !.cred = cred, !.at = IF now > @ + 1 THEN now ELSE @ + 1])

\* snapshot_entry_to_history and apply_update_fields
apply_update_fields(e, cred, now) ==
    protect_xml_forbidden_fields(
        [e EXCEPT !.hist = Append(@, Snapshot(e)), !.cred = cred,
                  !.at = IF now > @ + 1 THEN now ELSE @ + 1])

\* add_entry_with_id, apply_fields and initialize_created_entry_times
created_entry(p, now) ==
    protect_xml_forbidden_fields(
        [cred |-> p.desired.cred, note |-> p.desired.note, prot |-> FALSE, home |-> p.parent,
         at |-> now, hist |-> <<>>])

ApplyUpdate(local, p, now) ==
    LET is(cred) == IsLive(local, p.entry) /\ local.entries[p.entry].cred = cred IN
    IF is(p.desired) THEN [ok |-> TRUE, vault |-> local]
    ELSE IF ~is(p.expected) THEN Conflict("UpdatePreconditionFailed")
    ELSE [ok |-> TRUE,
          vault |-> [local EXCEPT !.entries[p.entry] = apply_update_fields(@, p.desired, now)]]

ApplyCreate(local, current, p, now) ==
    LET n == p.entry
        changed == Conflict("CreateMatchingSetChanged")
        collides == Conflict("PlannedEntryIdCollision")
        there(v) == IsLive(v, n) /\ entry_matches_validated(v.entries[n], p.desired)
        matching(v) == exact_matching_entry_ids(v, p.desired)
    IN  IF n \in DOMAIN current.entries
        THEN IF there(current) /\ n \notin p.matching THEN [ok |-> TRUE, vault |-> local] ELSE collides
        ELSE IF n \in p.matching THEN collides
        ELSE IF ~group_is_live(current, p.parent) \/ ~group_is_live(local, p.parent) THEN changed
        ELSE IF matching(current) # p.matching THEN changed
        ELSE IF n \in DOMAIN local.entries
        THEN IF ~there(local) THEN collides
             ELSE IF matching(local) \ {n} = p.matching THEN [ok |-> TRUE, vault |-> local] ELSE changed
        ELSE IF matching(local) # p.matching THEN changed
        ELSE IF n \in local.deleted \cup local.groups THEN collides
        ELSE [ok |-> TRUE, vault |-> [local EXCEPT !.entries = With(@, n, created_entry(p, now))]]

apply_plan_to_local_candidate(local, current, p, now) ==
    IF p.mode = "update" THEN ApplyUpdate(local, p, now) ELSE ApplyCreate(local, current, p, now)

(***************************************************************************)
(* prepare_autofill_persist: [ok, outcome, vault], or [ok, code].          *)
(***************************************************************************)

\* Mutant: the receipts are not asked.
IsKnownNever(base, current, op) == FALSE

\* An operation one of the vaults has a receipt of is not applied again.
IsKnown(base, current, op) == op \in DOMAIN base.receipts \cup DOMAIN current.receipts

Prepared(candidate, current, replay) ==
    [ok |-> TRUE, vault |-> candidate,
     outcome |-> IF ~replay THEN "NeedsPublish"
                 ELSE IF candidate = current THEN "Replayed" ELSE "ReplayedNeedsPublish"]

prepare_autofill_persist(baseline, base, current, q, now) ==
    LET mine == Receipt(q, now)
        bound(v) == q.op \in DOMAIN v.receipts => same_receipt_binding(v.receipts[q.op], mine)
        planned == IF IsKnown(base, current, q.op) THEN [ok |-> TRUE, vault |-> base]
                   ELSE apply_plan_to_local_candidate(base, current, q.plan, now)
        merged == IF planned.ok THEN merge_autofill_candidate(baseline, planned.vault, current)
                  ELSE planned
        receipts == merge_receipt_maps(base.receipts, current.receipts)
        replay == q.op \in DOMAIN current.receipts
        ledger == IF replay THEN receipts ELSE insert_receipt(receipts, q.op, mine)
        candidate == [protect_target_xml_forbidden_fields(merged.vault, q.plan.entry) EXCEPT
                         !.receipts = write_pruned_ledger(ledger, q.op, now)]
    IN  IF ~IsValid(q.plan) THEN Conflict("InvalidPlan")
        ELSE IF ~(bound(base) /\ bound(current)) THEN Conflict("OperationBindingMismatch")
        ELSE IF ~planned.ok THEN planned
        ELSE IF ~(merged.ok /\ BindingsAgree(base.receipts, current.receipts))
        THEN Conflict("ConcurrentVaultChanges")
        ELSE Prepared(candidate, current, replay)

(***************************************************************************)
(* serialize_and_verify_autofill_candidate                                 *)
(***************************************************************************)

\* serialized_autofill_target_state
TargetState(v, id) ==
    [entry |-> IF id \in DOMAIN v.entries THEN v.entries[id] ELSE None, deleted |-> id \in v.deleted]

\* Mutant: the plan's effect is not looked for in what will be written.
VerifiedUnchecked(prepared, q, now) == Saves(prepared.vault)

\* What will be written answers the request again as an exact replay, and
\* holds what the plan asked for if the operation is new.
Verified(prepared, q, now) ==
    LET w == Written(prepared.vault)
        again == prepare_autofill_persist(w, w, w, q, now)
        id == q.plan.entry
    IN  /\ Saves(prepared.vault)
        /\ again.ok /\ again.outcome = "Replayed" /\ again.vault = w
        /\ prepared.outcome = "NeedsPublish" =>
              /\ id \in DOMAIN w.entries
              /\ IF q.plan.mode = "update" THEN w.entries[id].cred = q.plan.desired
                 ELSE entry_matches_validated(w.entries[id], q.plan.desired)

(***************************************************************************)
(* A pending operation, as its cache entry and its receipt tell of it.     *)
(***************************************************************************)

\* reconstruct_pending_autofill_plan; None: no plan can be made of it.
reconstruct_pending_autofill_plan(previous, pending, x) ==
    LET n == x.entry IN
    IF n \notin DOMAIN pending.entries THEN None
    ELSE IF x.mode = "update"
    THEN IF n \notin DOMAIN previous.entries THEN None
         ELSE [mode |-> "update", entry |-> n, expected |-> previous.entries[n].cred,
               desired |-> pending.entries[n].cred]
    ELSE IF ~IsLive(pending, n) THEN None
    ELSE LET d == [cred |-> pending.entries[n].cred, note |-> pending.entries[n].note]
             same(id) == /\ IsLive(previous, id)
                         /\ entry_matches_validated(previous.entries[id], d)
                         /\ previous.entries[id].prot = pending.entries[n].prot
         IN  [mode |-> "create", entry |-> n, parent |-> pending.entries[n].home,
              matching |-> {id \in DOMAIN previous.entries : same(id)}, desired |-> d]

validate_unreceipted_pending_target_unchanged(baseline, observed, remote, x) ==
    /\ TargetState(observed, x.entry) = TargetState(remote, x.entry)
    /\ x.mode = "create" =>
          TargetState(baseline, x.entry) = [entry |-> None, deleted |-> FALSE]

remove_pending_autofill_operation_receipt(v, op) == [v EXCEPT !.receipts = Without(@, {op})]
===============================================================================
