----------------------------- MODULE VaultReplicas -----------------------------
(***************************************************************************)
(* Two replicas of one vault.  Both load the same document, each is edited *)
(* through vaultkern-core and the runtime, and then the local changes are  *)
(* patched onto the remote head.                                           *)
(*                                                                         *)
(* base    the vault both replicas loaded                                  *)
(* vault   the vault of each replica                                       *)
(* left    the edits each replica still makes (a bound)                    *)
(* merged  what the patch gave, None before it ran                         *)
(***************************************************************************)
EXTENDS VaultEdits

CONSTANTS
    Starts,       \* [doc, edits]: a document and how many edits each replica makes
    NewIds,       \* the fresh identities each replica draws from
    Now,          \* clock readings
    Texts,        \* texts an edit writes
    Fields,       \* names of custom fields
    Files,        \* names of attachments
    DataKeys,     \* keys of custom data
    Icons         \* identities of custom icons

VARIABLES base, vault, left, merged

vars == <<base, vault, left, merged>>

Replicas == {"local", "remote"}

Init ==
    /\ \E s \in Starts : base = project_xml(s.doc) /\ left = s.edits
    /\ vault = [r \in Replicas |-> base]
    /\ merged = None

\* Replica r's vault becomes v.  A call that changes nothing is no step.
Becomes(r, v) ==
    /\ v # vault[r]
    /\ left' = [left EXCEPT ![r] = @ - 1]
    /\ vault' = [vault EXCEPT ![r] = v]
    /\ UNCHANGED <<base, merged>>

Ids(r) == {id \in NewIds[r] : Fresh(vault[r], id)}

\* Text that may stand in a string of this protection.
Fits(t, protected) == t # BadText \/ protected

(***************************************************************************)
(* Entries.                                                                *)
(***************************************************************************)
NewText(t) == [k \in StdKeys |-> IF k = "Title" THEN "new" ELSE t]

CreateEntry(r, g, t, totp, now) ==
    \E id \in Ids(r) : Becomes(r, create_entry(vault[r], g, id, NewText(t), totp, now))

DeleteEntry(r, e) == Becomes(r, delete_entry(vault[r], e))

MoveEntry(r, e, g, now) == Becomes(r, move_entry(vault[r], e, g, now))

\* Runtime::update_entry_fields; a value that an unprotected string cannot
\* hold is refused after the snapshot was taken.
UpdateEntryFields(r, e, k, t, fields, now) ==
    LET v == vault[r]
        text == [v.entries[e].text EXCEPT ![k] = t]
    IN  Becomes(r,
          IF \A x \in StdKeys : Fits(text[x], v.entries[e].prot[x])
          THEN replace_entry_fields(v, e, text, v.entries[e].totp, fields, now)
          ELSE snapshot_entry_to_history(v, e))

UpdateEntryFieldProtection(r, e, k, p) ==
    /\ Fits(vault[r].entries[e].text[k], p)
    /\ Becomes(r, update_entry_field_protection(vault[r], e, k, p))

\* update_entry_presentation_metadata (the colours and URL), and in the same
\* way the next three.
UpdateEntryPresentation(r, e, t) ==
    \E f \in EntryOpt \cap {"ForegroundColor", "BackgroundColor", "OverrideURL"} :
        Becomes(r, update_entry_optional(vault[r], e, f, IF t = "" THEN None ELSE t))

\* update_entry_lineage_report_metadata
UpdateEntryLineage(r, e, f, t) ==
    /\ f = "PreviousParentGroup" => t = None \/ t \in Groups(vault[r])
    /\ f = "QualityCheck" => t \in {None, "False"}
    /\ Becomes(r, update_entry_optional(vault[r], e, f, t))

\* update_entry_custom_icon
UpdateEntryCustomIcon(r, e, i) ==
    /\ i = None \/ i \in DOMAIN vault[r].icons
    /\ Becomes(r, update_entry_optional(vault[r], e, "CustomIconUUID", i))

\* replace_entry_tags
ReplaceEntryTags(r, e, t) ==
    Becomes(r, update_entry_optional(vault[r], e, "Tags", IF t = "" THEN None ELSE t))

UpdateEntryAutoType(r, e, t) == Becomes(r, update_entry_auto_type(vault[r], e, t))

UpdateEntryExpiry(r, e, on, t) == Becomes(r, update_entry_expiry(vault[r], e, on, t))

\* update_entry_times on its own
UpdateEntryTimes(r, e, f, t) == Becomes(r, update_entry_times(vault[r], e, f, t))

UpsertEntryCustomField(r, e, k, t, p) ==
    /\ Fits(t, p)
    /\ Becomes(r, upsert_entry_custom_field(vault[r], e, k, t, p))

DeleteEntryCustomField(r, e, k) ==
    /\ k \in DOMAIN vault[r].entries[e].attr
    /\ Becomes(r, delete_entry_custom_field(vault[r], e, k))

SetEntryTotp(r, e, t) == Becomes(r, set_entry_totp(vault[r], e, t))
ClearEntryTotp(r, e, now) == Becomes(r, runtime_clear_entry_totp(vault[r], e, now))

\* Runtime::set_entry_passkey only changes a passkey that is there.
SetEntryPasskey(r, e, t, now) ==
    /\ vault[r].entries[e].passkey # None
    /\ Becomes(r, runtime_set_entry_passkey(vault[r], e, t, now))
ClearEntryPasskey(r, e, now) == Becomes(r, runtime_clear_entry_passkey(vault[r], e, now))

\* The core call a registration makes.
RegisterPasskey(r, e, t) == Becomes(r, set_entry_passkey(vault[r], e, t))

AddEntryAttachment(r, e, n, t, now) ==
    Becomes(r, runtime_put_attachment(vault[r], e, n, t, FALSE, now))

ReplaceEntryAttachment(r, e, n, t, now) ==
    /\ n \in DOMAIN vault[r].entries[e].files
    /\ Becomes(r, runtime_put_attachment(vault[r], e, n, t,
                      vault[r].entries[e].files[n].protected, now))

RenameEntryAttachment(r, e, n, to, now) ==
    /\ n \in DOMAIN vault[r].entries[e].files
    /\ to \notin DOMAIN vault[r].entries[e].files
    /\ Becomes(r, runtime_rename_attachment(vault[r], e, n, to, now))

DeleteEntryAttachment(r, e, n, now) ==
    /\ n \in DOMAIN vault[r].entries[e].files
    /\ Becomes(r, runtime_delete_attachment(vault[r], e, n, now))

SnapshotEntry(r, e) == Becomes(r, snapshot_entry_to_history(vault[r], e))
ClearEntryHistory(r, e) == Becomes(r, clear_entry_history(vault[r], e))

SoftDeleteEntry(r, e, now) ==
    \E id \in Ids(r) : Becomes(r, soft_delete_entry_to_recycle_bin(vault[r], e, id, now))

\* With a target, or to where the entry came from.
RestoreEntry(r, e, target, now) ==
    LET v == vault[r]
        to == IF target = None THEN v.entries[e].opt["PreviousParentGroup"] ELSE target
    IN  /\ HasBin(v) /\ Contains(v.groups[v.meta.opt["RecycleBinUUID"]].entries, e)
        /\ to \in Groups(v)
        /\ Becomes(r, restore_entry_from_recycle_bin(v, e, to, now))

(***************************************************************************)
(* Groups.                                                                 *)
(***************************************************************************)
AddGroup(r, p, t) == \E id \in Ids(r) : Becomes(r, add_group(vault[r], p, id, t))

DeleteGroup(r, g) == g # vault[r].root /\ Becomes(r, delete_group(vault[r], g))

MoveGroup(r, g, p) ==
    /\ g # vault[r].root
    /\ p \notin Subtree(vault[r], g)
    /\ Becomes(r, move_group(vault[r], g, p))

UpdateGroupMetadata(r, g, f, t) == Becomes(r, update_group_metadata(vault[r], g, f, t))

\* update_group_behavior_metadata
UpdateGroupBehavior(r, g, t) ==
    \E f \in GroupOpt \cap (NullableBool \cup {"DefaultAutoTypeSequence"}) :
        Becomes(r, update_group_optional(vault[r], g, f, t))

\* update_group_lineage_tag_metadata
UpdateGroupLineage(r, g, f, t) ==
    /\ f = "PreviousParentGroup" => t = None \/ t \in Groups(vault[r])
    /\ Becomes(r, update_group_optional(vault[r], g, f, IF t = "" THEN None ELSE t))

UpdateGroupCustomIcon(r, g, i) ==
    /\ i = None \/ i \in DOMAIN vault[r].icons
    /\ Becomes(r, update_group_optional(vault[r], g, "CustomIconUUID", i))

UpdateGroupTimes(r, g, f, t) == Becomes(r, update_group_times(vault[r], g, f, t))
UpdateGroupExpiry(r, g, on, t) == Becomes(r, update_group_expiry(vault[r], g, on, t))

(***************************************************************************)
(* The vault.                                                              *)
(***************************************************************************)
UpsertCustomIcon(r, i, t, now) == Becomes(r, upsert_custom_icon(vault[r], i, t, now))

DeleteCustomIcon(r, i) ==
    /\ i \in DOMAIN vault[r].icons
    /\ Becomes(r, delete_custom_icon(vault[r], i))

\* The custom data of the vault, of a group and of an entry.
UpsertVaultCustomData(r, k, t, now) ==
    Becomes(r, [vault[r] EXCEPT !.meta = upsert_custom_data(@, k, t, now)])
DeleteVaultCustomData(r, k) ==
    /\ k \in DOMAIN vault[r].meta.data
    /\ Becomes(r, [vault[r] EXCEPT !.meta = delete_custom_data(@, k)])
UpsertGroupCustomData(r, g, k, t, now) ==
    Becomes(r, [vault[r] EXCEPT !.groups[g] = upsert_custom_data(@, k, t, now)])
DeleteGroupCustomData(r, g, k) ==
    /\ k \in DOMAIN vault[r].groups[g].data
    /\ Becomes(r, [vault[r] EXCEPT !.groups[g] = delete_custom_data(@, k)])
UpsertEntryCustomData(r, e, k, t, now) ==
    Becomes(r, [vault[r] EXCEPT !.entries[e] = upsert_custom_data(@, k, t, now)])
DeleteEntryCustomData(r, e, k) ==
    /\ k \in DOMAIN vault[r].entries[e].data
    /\ Becomes(r, [vault[r] EXCEPT !.entries[e] = delete_custom_data(@, k)])

\* update_vault_metadata, _selection_, _lifecycle_ and _bin_template_metadata
UpdateVaultMetadata(r, f, t) ==
    Becomes(r, update_vault_optional(vault[r], f, IF t = "" THEN None ELSE t))

UpdateVaultSelection(r, g) ==
    \E f \in MetaOpt \cap {"LastSelectedGroup", "LastTopVisibleGroup"} :
        Becomes(r, update_vault_optional(vault[r], f, g))

UpdateVaultBin(r, f, t) == Becomes(r, update_vault_optional(vault[r], f, t))

UpdateDatabaseSettings(r, u) == Becomes(r, update_database_settings(vault[r], u, "now"))

(***************************************************************************)
(* The patch.                                                              *)
(***************************************************************************)
Patch ==
    /\ merged = None
    /\ merged' = rebase(base, vault["local"], vault["remote"])
    /\ UNCHANGED <<base, vault, left>>

EntryEdit(r, e) ==
    \/ DeleteEntry(r, e)
    \/ SnapshotEntry(r, e) \/ ClearEntryHistory(r, e)
    \/ \E g \in Groups(vault[r]), now \in Now : MoveEntry(r, e, g, now)
    \/ \E k \in StdKeys, t \in Texts, now \in Now :
          UpdateEntryFields(r, e, k, t, CustomFields(vault[r].entries[e]), now)
    \/ \E now \in Now : UpdateEntryFields(r, e, "Title", "t", Empty, now)
    \/ \E k \in StdKeys, p \in BOOLEAN : UpdateEntryFieldProtection(r, e, k, p)
    \/ \E t \in {"x", ""} : UpdateEntryPresentation(r, e, t) \/ ReplaceEntryTags(r, e, t)
    \/ \E t \in {None, vault[r].root} : UpdateEntryLineage(r, e, "PreviousParentGroup", t)
    \/ \E t \in {None, "False"} : UpdateEntryLineage(r, e, "QualityCheck", t)
    \/ \E i \in Icons \cup {None} : UpdateEntryCustomIcon(r, e, i)
    \/ UpdateEntryAutoType(r, e, "off")
    \/ \E on \in BOOLEAN, t \in Now : UpdateEntryExpiry(r, e, on, t)
    \/ \E t \in Now : UpdateEntryTimes(r, e, "modified", t)
    \/ \E k \in Fields, p \in BOOLEAN : UpsertEntryCustomField(r, e, k, "x", p)
    \/ \E k \in Fields : DeleteEntryCustomField(r, e, k)
    \/ SetEntryTotp(r, e, "u") \/ RegisterPasskey(r, e, "p")
    \/ \E now \in Now : ClearEntryTotp(r, e, now) \/ SetEntryPasskey(r, e, "q", now)
                        \/ ClearEntryPasskey(r, e, now)
    \/ \E n \in Files, now \in Now : \/ AddEntryAttachment(r, e, n, "c", now)
                                     \/ ReplaceEntryAttachment(r, e, n, "d", now)
                                     \/ DeleteEntryAttachment(r, e, n, now)
                                     \/ \E to \in Files \ {n} : RenameEntryAttachment(r, e, n, to, now)
    \/ \E now \in Now : SoftDeleteEntry(r, e, now)
    \/ \E g \in Groups(vault[r]) \cup {None}, now \in Now : RestoreEntry(r, e, g, now)
    \/ \E k \in DataKeys, now \in Now : UpsertEntryCustomData(r, e, k, "d", now)
    \/ \E k \in DataKeys : DeleteEntryCustomData(r, e, k)

GroupEdit(r, g) ==
    \/ \E now \in Now, totp \in {None, "u"} : CreateEntry(r, g, "p", totp, now)
    \/ AddGroup(r, g, "t") \/ DeleteGroup(r, g)
    \/ \E p \in Groups(vault[r]) : MoveGroup(r, g, p)
    \/ \E f \in {"Name", "Notes"} : UpdateGroupMetadata(r, g, f, "t")
    \/ \E t \in {None, "True"} : UpdateGroupBehavior(r, g, t)
    \/ \E t \in {"x", ""} : UpdateGroupLineage(r, g, "Tags", t)
    \/ \E t \in {None, vault[r].root} : UpdateGroupLineage(r, g, "PreviousParentGroup", t)
    \/ \E i \in Icons \cup {None} : UpdateGroupCustomIcon(r, g, i)
    \/ \E t \in Now : UpdateGroupTimes(r, g, "modified", t) \/ UpdateGroupExpiry(r, g, TRUE, t)
    \/ \E k \in DataKeys, now \in Now : UpsertGroupCustomData(r, g, k, "d", now)
    \/ \E k \in DataKeys : DeleteGroupCustomData(r, g, k)

VaultEdit(r) ==
    \/ \E i \in Icons, now \in Now : UpsertCustomIcon(r, i, "png", now)
    \/ \E i \in Icons : DeleteCustomIcon(r, i)
    \/ \E k \in DataKeys, now \in Now : UpsertVaultCustomData(r, k, "d", now)
    \/ \E k \in DataKeys : DeleteVaultCustomData(r, k)
    \/ \E f \in MetaOpt \cap {"Color", "DatabaseDescription"}, t \in {"x", ""} :
          UpdateVaultMetadata(r, f, t)
    \/ \E g \in Groups(vault[r]) \cup {None} : UpdateVaultSelection(r, g)
    \/ \E t \in {None, "False"} : UpdateVaultBin(r, "RecycleBinEnabled", t)
    \/ \E t \in {None, "0", "1"} : UpdateDatabaseSettings(r, [HistoryMaxItems |-> t])
    \/ UpdateDatabaseSettings(r, [RecycleBinEnabled |-> "True"])
    \/ UpdateDatabaseSettings(r, [f \in {"DatabaseDescription", "display-name"} |-> "x"])

Next ==
    \/ \E r \in Replicas :
          /\ merged = None /\ left[r] > 0
          /\ \/ \E e \in Entries(vault[r]) : EntryEdit(r, e)
             \/ \E g \in Groups(vault[r]) : GroupEdit(r, g)
             \/ VaultEdit(r)
    \/ Patch

Spec == Init /\ [][Next]_vars

(***************************************************************************)
(* Properties.                                                             *)
(***************************************************************************)

\* The vaults the last step may have given: the patched one, or a replica's.
\* Replicas are edited independently, so each is looked at while the other is
\* still as it was loaded; what a patch of one replica's edits gives is that
\* replica's vault (PatchIdentity).
Vaults ==
    LET edited == {r \in Replicas : vault[r] # base} IN
    CASE edited = {} -> {base}
      [] Cardinality(edited) = 1 -> IF merged = None THEN {vault[r] : r \in edited} ELSE {}
      [] OTHER -> IF merged # None /\ merged.ok THEN {merged.vault} ELSE {}

\* Every vault is a tree: every group but the root is the child of exactly one
\* group, every entry is in exactly one group, and all hang from the root.
TreeSound ==
    \A v \in Vaults :
        /\ Subtree(v, v.root) = Groups(v)
        /\ \A g \in Groups(v) \ {v.root} :
              Cardinality({p \in Groups(v) : Contains(v.groups[p].children, g)}) = 1
        /\ \A e \in Entries(v) : Cardinality({g \in Groups(v) : Contains(v.groups[g].entries, e)}) = 1
        /\ \A g \in Groups(v) : /\ ToSet(v.groups[g].entries) \subseteq Entries(v)
                                /\ IsInjective(v.groups[g].entries)
                                /\ IsInjective(v.groups[g].children)
        /\ Groups(v) \cap Entries(v) = {}

\* The save that follows update_database_settings when it takes the history
\* limit away is refused: the limit is gone and its slot is still recorded.
LimitCleared(v) == Contains(v.meta.raw.order, "HistoryMaxItems") /\ v.meta.opt["HistoryMaxItems"] = None

\* A patched scope that is neither replica's, with the record of its nodes taken
\* whole from one of two that differ, or with a text under the other's protection.
Mixed(m, l, r) ==
    \/ m \notin {l, r} /\ l.raw # r.raw
    \/ \E k \in StdKeys \cap DOMAIN m.text :
          "prot" \in DOMAIN m /\ \A s \in {l, r} : <<m.text[k], m.prot[k]>> # <<s.text[k], s.prot[k]>>
MixedObject(v, part, id) ==
    /\ merged # None
    /\ \A r \in Replicas : id \in DOMAIN vault[r][part]
    /\ Mixed(v[part][id], vault["local"][part][id], vault["remote"][part][id])
MixedMeta(v) == merged # None /\ Mixed(v.meta, vault["local"].meta, vault["remote"].meta)

\* Whatever is done to a loaded vault through vaultkern-core and the runtime, and
\* whatever a patch makes of two replicas, prepare_save accepts it: the fidelity
\* record (slots, anchors, raw texts) and the contents of every scope are in step.
\* It refuses two things, and these are excepted: what LimitCleared says, and a
\* scope in which the patch has mixed the record of one replica with contents of
\* the other, or a text with the protection of the other.
Saveable ==
    \A v \in Vaults : \A w \in {written_vault(v)} :
        \/ Saves(w)
        \/ /\ \/ MetaValid(w) /\ write_scope(meta_nodes(w), w.meta).ok
              \/ LimitCleared(v) \/ MixedMeta(v)
           /\ \A g \in Groups(w) :
                 \/ validate_group_model(g, w.groups[g]) /\ group_to_xml(g, w.groups[g]).ok
                 \/ MixedObject(v, "groups", g)
           /\ \A e \in Entries(w) :
                 \/ EntryValid(e, w.entries[e]) /\ entry_to_xml(e, w.entries[e], TRUE).ok
                 \/ MixedObject(v, "entries", e)

\* The written element has the unknown nodes that the scopes before it had, in
\* their order; a patch may put them elsewhere among the known ones.
OpaqueKept(doc, before) ==
    \A s \in before : \A now \in {IdsOf(doc, Opaque)} :
        LET was == [i \in DOMAIN s.opaque |-> s.opaque[i].frag] IN
        IF merged = None THEN now = was ELSE ToSet(now) = ToSet(was) /\ Len(now) = Len(was)

\* What is written reads back as the same entry, with its history, passes the
\* validation of the next save and is then written as the same nodes.
SameEntry(id, e, d, x) ==
    /\ canonical_entry(x) = canonical_entry(e)
    /\ x.totp = e.totp /\ x.passkey = e.passkey
    /\ Len(x.history) = Len(e.history)
    /\ \A i \in DOMAIN e.history : canonical_entry(x.history[i]) = canonical_entry(e.history[i])
    /\ validate_entry_model(id, x, FALSE)
    /\ entry_to_xml(id, x, TRUE) = d
EntryReloads(id, e, before) ==
    \A d \in {entry_to_xml(id, e, TRUE)} :
        d.ok => /\ OpaqueKept(d.nodes, before)
                /\ validate_entry_model(id, e, FALSE) => SameEntry(id, e, d, parse_entry(d))

SameGroup(id, g, d, x) ==
    /\ \A f \in {"text", "opt", "data", "entries", "children"} : x[f] = g[f]
    /\ x.times = GroupTimes(g)
    /\ validate_group_model(id, x)
    /\ group_to_xml(id, x) = d
GroupReloads(id, g, before) ==
    \A d \in {group_to_xml(id, g)} :
        d.ok => /\ OpaqueKept(d.nodes, before)
                /\ validate_group_model(id, g) => SameGroup(id, g, d, parse_group(d))

SameMeta(v, d, x) ==
    /\ x.opt = v.meta.opt /\ x.data = v.meta.data
    /\ write_scope(meta_nodes(v), x) = d
MetaReloads(v, before) ==
    \A d \in {write_scope(meta_nodes(v), v.meta)} :
        d.ok => /\ OpaqueKept(d.doc, before)
                /\ SameMeta(v, d, read_scope(d.doc, {}, MetaOpt, MetaRaw, "CustomIcons"))

\* What differs from the base; the rest was looked at with the base.
ChangedEntries(v) == {e \in Entries(v) : e \in Entries(base) => v.entries[e] # base.entries[e]}
ChangedGroups(v) == {g \in Groups(v) : g \in Groups(base) => v.groups[g] # base.groups[g]}

\* Nothing is lost on the way through the file.  Every entry, group and the meta
\* data survive a save and a load: the reader and the writer agree on every value,
\* history item and custom datum, a cleared credential does not come back from
\* the attributes it was kept in, and the next save writes the same nodes in the
\* same order.  Nodes of other programs are not lost by an edit or a patch either.
RoundTrip ==
    \A v \in Vaults : \A w \in {stamp_generator(v)} :
        /\ \A e \in ChangedEntries(w) :
              EntryReloads(e, w.entries[e], {base.entries[x] : x \in {e} \cap Entries(base)})
        /\ \A g \in ChangedGroups(w) :
              GroupReloads(g, w.groups[g], {base.groups[x] : x \in {g} \cap Groups(base)})
        /\ MetaReloads(w, {base.meta})

\* A value that side s gave a field of an entry is in the entry or in its history.
Holds(e, field, k, val) == k \in DOMAIN e[field] /\ e[field][k] = val
KeptIn(m, b, s) ==
    \A field \in {"text", "opt", "attr", "files", "data"} : \A k \in DOMAIN s[field] :
        (k \in DOMAIN b[field] => b[field][k] # s[field][k]) =>
            \/ Holds(m, field, k, s[field][k])
            \/ \E i \in DOMAIN m.history : Holds(m.history[i], field, k, s[field][k])

\* The patch loses no edit: an entry that a replica changed or added is in the
\* patched vault, and every value it gave one is there or in a history item that
\* the history limits leave when the vault is written.  It is about entries; what
\* a patch does to groups and meta data is bound by PatchIdentity alone, and
\* whether the result can be saved by Saveable.
NoEditLost ==
    merged # None /\ merged.ok =>
        \A r \in Replicas : \A e \in Entries(vault[r]) :
            \/ e \in Entries(base) /\ vault[r].entries[e] = base.entries[e]
            \/ /\ e \in Entries(merged.vault)
               /\ e \in Entries(base) =>
                     KeptIn(written_vault(merged.vault).entries[e], base.entries[e], vault[r].entries[e])

\* A scope without the layout it is written in.
Content(s) ==
    [s EXCEPT !.raw = None,
              !.opaque = [i \in DOMAIN @ |-> @[i].frag],
              !.blocks = custom_data_units(s)]

EntryContent(e) == Content([e EXCEPT !.history = <<>>, !.times.located = 0])

\* The same content.  A history may have grown, a move inside one group is not
\* carried over, and a live object has no tombstone.
SameContent(m, v) ==
    /\ Content(m.meta) = Content(v.meta) /\ m.icons = v.icons /\ m.public = v.public
    /\ Groups(m) = Groups(v) /\ \A g \in Groups(v) : Content(m.groups[g]) = Content(v.groups[g])
    /\ Entries(m) = Entries(v)
    /\ \A e \in Entries(v) :
          /\ EntryContent(m.entries[e]) = EntryContent(v.entries[e])
          /\ ToSet(v.entries[e].history) \subseteq ToSet(m.entries[e].history)
    /\ m.deleted = Without(v.deleted, Groups(v) \cup Entries(v))

\* The local edits put siblings that were there in another order.
Reordered(b, l) ==
    \E p \in Groups(b) \cap Groups(l), kind \in {"Entry", "Group"} :
        LET both == ToSet(SiblingsIn(b, p, kind)) \cap ToSet(SiblingsIn(l, p, kind)) IN
        Among(SiblingsIn(b, p, kind), both) # Among(SiblingsIn(l, p, kind), both)

\* A patch with changes on one side only gives that side's vault; it is refused
\* only when the local side has put siblings in another order.
PatchIdentity ==
    merged # None =>
        /\ vault["local"] = base => merged.ok /\ SameContent(merged.vault, vault["remote"])
        /\ vault["remote"] = base =>
              IF merged.ok THEN SameContent(merged.vault, vault["local"]) ELSE Reordered(base, vault["local"])

\* No sequence of edits and no patch breaks the tree, and none leaves a vault that
\* prepare_save refuses, but in the two cases of Saveable.
DocumentSound == TreeSound /\ Saveable

\* three_way_patch keeps what both sides did, and one side's vault where only
\* that side changed.
PatchKeepsEdits == NoEditLost /\ PatchIdentity
================================================================================
