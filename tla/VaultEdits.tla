------------------------------ MODULE VaultEdits ------------------------------
(***************************************************************************)
(* The edits of a loaded vault that vaultkern-runtime offers to its        *)
(* clients, each built from several mutations of vaultkern-core, and what  *)
(* it does to histories before a save and after a patch.                   *)
(***************************************************************************)
EXTENDS ThreeWayPatch

(***************************************************************************)
(* History limits.                                                         *)
(***************************************************************************)

\* A number as its document text.
Number(t) == CHOOSE n \in 0 .. 9 : ToString(n) = t

\* The entries, in the order the recursive walks of a group tree meet them.
Walk(v) ==
    LET depth == Cardinality(Groups(v))
        walk[n \in 0 .. depth, g \in Groups(v)] ==
            IF n = 0 THEN v.groups[g].entries
            ELSE v.groups[g].entries \o
                 FlattenSeq([i \in DOMAIN v.groups[g].children |->
                                walk[n - 1, v.groups[g].children[i]]])
    IN  walk[depth, v.root]

enforce_history_item_limit(v, max) ==
    [v EXCEPT !.entries = [e \in DOMAIN @ |->
        [@[e] EXCEPT !.history = IF Len(@) > max
                                 THEN SubSeq(@, Len(@) - max + 1, Len(@)) ELSE @]]]

estimated_entry_size(e) ==
    Cardinality(StdKeys) + Cardinality(DOMAIN e.attr) + Cardinality(DOMAIN e.files)

total_history_size(v) ==
    FoldSet(LAMBDA e, sum : sum + FoldLeft(LAMBDA n, h : n + estimated_entry_size(h), 0,
                                           v.entries[e].history),
            0, Entries(v))

\* remove_oldest_history_item: of the first snapshots of all entries, the
\* first in the walk that no other is older than.
remove_oldest_history_item(v) ==
    LET held == SelectSeq(Walk(v), LAMBDA e : v.entries[e].history # <<>>)
        age(e) == v.entries[e].history[1].times.modified
        at == SelectInSeq(held, LAMBDA e : \A f \in ToSet(held) : age(e) <= age(f))
    IN  IF held = <<>> THEN v ELSE [v EXCEPT !.entries[held[at]].history = Tail(@)]

enforce_history_size_limit(v, max) ==
    FoldLeft(LAMBDA w, i : IF total_history_size(w) > max THEN remove_oldest_history_item(w) ELSE w,
             v, [i \in 1 .. FoldSet(LAMBDA e, n : n + Len(v.entries[e].history), 0, Entries(v)) |-> i])

Limit(v, f) == IF f \in MetaOpt THEN v.meta.opt[f] ELSE None

enforce_history_limits(v) ==
    LET items == Limit(v, "HistoryMaxItems")
        size == Limit(v, "HistoryMaxSize")
        w == IF items = None THEN v ELSE enforce_history_item_limit(v, Number(items))
    IN  IF size = None THEN w ELSE enforce_history_size_limit(w, Number(size))

\* save_kdbx_with_history_limits_transformed: what is written; the histories
\* of the loaded vault are put back, the generator is not.
stamp_generator(v) == [v EXCEPT !.meta.opt["Generator"] = "VaultKern"]
written_vault(v) == enforce_history_limits(stamp_generator(v))

\* The snapshots a patch relies on: <<entry, losing side>>.
required_history_snapshots(b, l, r) ==
    LET both == InAllThree(Entries, b, l, r)
        loser(e, local) == prepare_entry_history_snapshot(IF local THEN r.entries[e] ELSE l.entries[e])
        at(e) == EntryLocation(b, l, r, e)
    IN  {<<e, loser(e, PrefersLocal(l.entries[e], r.entries[e]))>> : e \in
            {e \in both : EntryClash(b.entries[e], l.entries[e], r.entries[e])}}
        \cup {<<e, loser(e, at(e).local)>> : e \in {e \in both : at(e).clash}}

\* Mutant: the limits are not looked at.
conflict_history_is_in_patch(patched, required) ==
    \A q \in required : Contains(patched.entries[q[1]].history, q[2])

\* A patch whose recovery snapshots the limits would discard is refused.
ensure_patch_conflict_history_is_recoverable(patched, required) ==
    LET retained == enforce_history_limits(patched) IN
    \A q \in required : q[1] \in Entries(retained) /\ Contains(retained.entries[q[1]].history, q[2])

\* has_vaultkern_sync_lineage: the patch is for heads this program wrote.
has_vaultkern_sync_lineage(b, r) ==
    /\ b.root = r.root
    /\ b.meta.opt["Generator"] = "VaultKern" /\ r.meta.opt["Generator"] = "VaultKern"

\* The retained patch of a save, a retry or a refresh.
RecoverablePatch(p, b, l, r) ==
    IF p.ok /\ ensure_patch_conflict_history_is_recoverable(p.vault, required_history_snapshots(b, l, r))
    THEN p ELSE Refused

rebase(b, l, r) ==
    IF has_vaultkern_sync_lineage(b, r) THEN RecoverablePatch(three_way_field_patch(b, l, r), b, l, r)
    ELSE Refused

(***************************************************************************)
(* Edits of the runtime.                                                   *)
(***************************************************************************)
touch_entry_modified_at(v, e, now) == update_entry_times(v, e, "modified", now)

\* create_entry; the requested id, when it is there already with the same
\* content, is answered without a change.
initialize_entry_creation_times(v, e, now) ==
    LET x == update_entry_expiry(v, e, FALSE, now) IN
    [x EXCEPT !.entries[e].times = [@ EXCEPT !.created = now, !.modified = now,
                                             !.accessed = now, !.located = now]]

create_entry(v, g, id, text, totp, now) ==
    LET a == initialize_entry_creation_times(add_entry_with_id(v, g, id, text, now), id, now) IN
    IF totp = None THEN a ELSE set_entry_totp(a, id, totp)

\* list_entry_custom_fields hides what belongs to a credential.
CustomFields(e) == Without(e.attr, TotpKeys \cup PasskeyKeys)

\* update_entry_fields: the old entry goes to the history, then strings, TOTP
\* and custom fields are replaced by what the client sent.
replace_custom_fields(v, e, fields) ==
    LET drop == InOrder(DOMAIN CustomFields(v.entries[e]) \ DOMAIN fields)
        d == FoldLeft(LAMBDA w, k : delete_entry_custom_field(w, e, k), v, drop)
    IN  FoldLeft(LAMBDA w, k : upsert_entry_custom_field(w, e, k, fields[k].value, fields[k].protected),
                 d, InOrder(DOMAIN fields))

replace_entry_fields(v, e, text, totp, fields, now) ==
    LET s == snapshot_entry_to_history(v, e)
        t == [s EXCEPT !.entries[e].text = text]
        had == v.entries[e].totp # None \/ totp_from_persistent_attributes(v.entries[e].attr) # None
        u == IF totp # None THEN set_entry_totp(t, e, totp)
             ELSE IF had THEN clear_entry_totp(t, e) ELSE t
    IN  enforce_history_limits(touch_entry_modified_at(replace_custom_fields(u, e, fields), e, now))

runtime_clear_entry_totp(v, e, now) == touch_entry_modified_at(clear_entry_totp(v, e), e, now)

runtime_set_entry_passkey(v, e, t, now) ==
    LET s == snapshot_entry_to_history(v, e)
        c == [s EXCEPT !.entries[e] = delete_custom_data(@, "Display")]
    IN  enforce_history_limits(touch_entry_modified_at(
            set_entry_passkey(IF "Display" \in DOMAIN v.entries[e].data THEN c ELSE s, e, t), e, now))

runtime_clear_entry_passkey(v, e, now) ==
    enforce_history_limits(touch_entry_modified_at(
        clear_entry_passkey(snapshot_entry_to_history(v, e), e), e, now))

\* add_, update_metadata, replace and delete of attachments: no snapshot.
runtime_put_attachment(v, e, n, content, p, now) ==
    touch_entry_modified_at(put_entry_attachment(v, e, n, content, p), e, now)
runtime_rename_attachment(v, e, n, to, now) ==
    touch_entry_modified_at(rename_entry_attachment(v, e, n, to), e, now)
runtime_delete_attachment(v, e, n, now) ==
    touch_entry_modified_at(delete_entry_attachment(v, e, n), e, now)

\* update_database_settings: u names the parts of the update; the history
\* limits are assigned without the bookkeeping other fields get.
UpdateDescription(v, u, now) ==
    LET f == "DatabaseDescription" IN
    IF f \notin DOMAIN u THEN v
    ELSE LET w == update_vault_optional(v, f, IF u[f] = "" THEN None ELSE u[f]) IN
         IF w.meta.opt[f] = v.meta.opt[f] THEN w
         ELSE update_vault_optional(w, "DatabaseDescriptionChanged", now)

UpdateDisplayName(v, u) ==
    LET f == "display-name" IN
    IF f \notin DOMAIN u THEN v
    ELSE [v EXCEPT !.public = IF u[f] = "" THEN Without(@, {f}) ELSE With(@, f, u[f])]

UpdateHistoryLimit(v, u) ==
    LET f == "HistoryMaxItems" IN
    IF f \notin DOMAIN u THEN v ELSE enforce_history_limits([v EXCEPT !.meta.opt[f] = u[f]])

UpdateBin(v, u, now) ==
    LET f == "RecycleBinEnabled" IN
    IF f \notin DOMAIN u \/ v.meta.opt[f] = u[f] THEN v
    ELSE update_vault_optional(update_vault_optional(v, f, u[f]), "RecycleBinChanged", now)

StampSettings(v, w, now) ==
    IF w.meta.opt # v.meta.opt \/ w.public # v.public
    THEN update_vault_optional(w, "SettingsChanged", now) ELSE w

update_database_settings(v, u, now) ==
    StampSettings(v, UpdateBin(UpdateHistoryLimit(UpdateDisplayName(UpdateDescription(v, u, now), u), u),
                               u, now), now)
==============================================================================
