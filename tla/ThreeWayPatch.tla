---------------------------- MODULE ThreeWayPatch ----------------------------
(***************************************************************************)
(* three_way_field_patch of vaultkern-model: this device's changes since   *)
(* the base, replayed on the current remote head.  Fields are merged one   *)
(* by one; where both sides changed an entry's field the later entry wins  *)
(* and the loser goes to the history, and what cannot be represented is    *)
(* refused.                                                                *)
(***************************************************************************)
EXTENDS Vault

(***************************************************************************)
(* One value.                                                              *)
(***************************************************************************)
Clash(b, l, r) == l # b /\ r # b /\ l # r

merge_value(b, l, r, preferLocal) ==
    IF l = b \/ l = r THEN r
    ELSE IF r = b \/ preferLocal THEN l ELSE r

Get(f, k) == IF k \in DOMAIN f THEN f[k] ELSE None
UnionKeys(b, l, r) == DOMAIN b \cup DOMAIN l \cup DOMAIN r

MapClash(b, l, r, S) ==
    \E k \in UnionKeys(b, l, r) \cap S : Clash(Get(b, k), Get(l, k), Get(r, k))

merge_keyed_map(b, l, r, preferLocal, S) ==
    LET m == [k \in UnionKeys(b, l, r) \cap S |->
                 merge_value(Get(b, k), Get(l, k), Get(r, k), preferLocal)]
    IN  Restricted(m, {k \in DOMAIN m : m[k] # None})

\* Times are numbers, 0 or None when absent; the later of two.
Later(a, b) == IF a = None THEN b ELSE IF b = None \/ a > b THEN a ELSE b

(***************************************************************************)
(* Custom data.                                                            *)
(***************************************************************************)
custom_data_units(s) ==
    [k \in DOMAIN s.data |->
        [value |-> s.data[k],
         time |-> IF k \in Keys(s.blocks) THEN LastItem(s.blocks, k).time ELSE 0]]

apply_custom_data_last_modified(blocks, units) ==
    LET stamp(it) == [it EXCEPT !.time = units[it.key].time] IN
    [i \in DOMAIN blocks |-> [blocks[i] EXCEPT !.items = [j \in DOMAIN @ |->
        IF @[j].key \in DOMAIN units /\ IsLastOfKey(blocks, i, j) THEN stamp(@[j]) ELSE @[j]]]]

\* The local blocks are what replaying the local item changes on the base's
\* blocks gives.
custom_data_blocks_are_replayable(b, l) ==
    LET units == custom_data_units(l)
        start == [raw |-> [order |-> <<>>], opaque |-> <<>>, blocks |-> b.blocks, data |-> b.data]
        kept == reconcile_custom_data_blocks(start, Restricted(l.data, DOMAIN b.data), <<>>, NameOrder)
        stamped == [kept EXCEPT !.blocks = apply_custom_data_last_modified(@, units)]
        added == SelectSeq(Items(l.blocks),
                     LAMBDA it : it.key \in DOMAIN l.data \ DOMAIN b.data)
        with[n \in 0 .. Len(added)] ==
            IF n = 0 THEN stamped
            ELSE upsert_custom_data(with[n - 1], added[n].key, added[n].value, added[n].time)
    IN  /\ \A i, j \in DOMAIN added : added[i].key = added[j].key => i = j
        /\ apply_custom_data_last_modified(with[Len(added)].blocks, units) = l.blocks

ensure_custom_data_rebase_representable(b, l, r) ==
    \/ l.blocks = b.blocks \/ r.blocks = b.blocks \/ l.blocks = r.blocks
    \/ custom_data_blocks_are_replayable(b, l)

CustomDataClash(b, l, r) == MapClash(b.data, l.data, r.data, UnionKeys(b.data, l.data, r.data))

\* merge_custom_data_fields: m is the merged scope, its raw and opaque parts
\* already merged.
ApplyUnits(s, units) ==
    [s EXCEPT !.blocks = apply_custom_data_last_modified(@, units)]

\* The merged values, each with the later of the times it was written at.
MergedUnits(ub, ul, ur, data) ==
    LET stamp(u, k) == IF k \in DOMAIN u /\ u[k].value = data[k] THEN u[k].time ELSE None
        time(k) == LET t == Later(stamp(ul, k), stamp(ur, k)) IN
                   IF t # None THEN t ELSE IF stamp(ub, k) # None THEN stamp(ub, k) ELSE 0
    IN  [k \in DOMAIN data |-> [value |-> data[k], time |-> time(k)]]

merge_custom_data_fields(b, l, r, m, preferLocal) ==
    LET data == merge_keyed_map(b.data, l.data, r.data, preferLocal,
                                UnionKeys(b.data, l.data, r.data))
        fidelityOnly == /\ l.blocks # b.blocks /\ r.blocks = b.blocks
                        /\ ~custom_data_blocks_are_replayable(b, l)
        s == reconcile_custom_data_blocks(
                 [m EXCEPT !.blocks = IF fidelityOnly THEN l.blocks ELSE r.blocks,
                           !.data = r.data],
                 data, <<>>, NameOrder)
    IN  ApplyUnits(s, MergedUnits(custom_data_units(b), custom_data_units(l), custom_data_units(r), data))

(***************************************************************************)
(* One entry.                                                              *)
(***************************************************************************)
IconFields == {"IconID", "CustomIconUUID"}

totp_unit(e) == <<e.totp, Restricted(e.attr, TotpKeys)>>
passkey_unit(e) == <<e.passkey, Restricted(e.attr, PasskeyKeys)>>
IconUnit(e) == Restricted(e.opt, IconFields)
OwnAttributes(b, l, r) == UnionKeys(b.attr, l.attr, r.attr) \ (TotpKeys \cup PasskeyKeys)

EntryClash(b, l, r) ==
    \/ \E k \in StdKeys : Clash(b.text[k], l.text[k], r.text[k])
    \/ \E f \in EntryOpt \ IconFields : Clash(b.opt[f], l.opt[f], r.opt[f])
    \/ Clash(IconUnit(b), IconUnit(l), IconUnit(r))
    \/ \E t \in {"created", "expires", "expiry", "accessed"} :
          Clash(b.times[t], l.times[t], r.times[t])
    \/ Clash(b.raw, l.raw, r.raw) \/ Clash(b.opaque, l.opaque, r.opaque)
    \/ \* a flag cannot clash: of two different values one is the base's
       MapClash(b.attr, l.attr, r.attr, OwnAttributes(b, l, r))
    \/ Clash(totp_unit(b), totp_unit(l), totp_unit(r))
    \/ Clash(passkey_unit(b), passkey_unit(l), passkey_unit(r))
    \/ MapClash(b.files, l.files, r.files, UnionKeys(b.files, l.files, r.files))
    \/ CustomDataClash(b, l, r)

history_union(b, l, r) ==
    FoldLeft(LAMBDA acc, h : IF Contains(acc, h) THEN acc ELSE Append(acc, h), r, b \o l)

add_losing_history_snapshot(m, losing) ==
    LET s == prepare_entry_history_snapshot(losing) IN
    IF Contains(m.history, s) THEN m ELSE [m EXCEPT !.history = Append(@, s)]

KeepLoser(m, isClash, losing) == IF isClash THEN add_losing_history_snapshot(m, losing) ELSE m

normalize_entry_slots(e) ==
    retain_tracked_slots(
        retain_tracked_slots(e, "String", ToSet(entry_string_identities(e))),
        "Binary", DOMAIN e.files)

PrefersLocal(l, r) == l.times.modified > r.times.modified

merge_entry(b, l, r) ==
    LET p == PrefersLocal(l, r)
        each(f, S) == [k \in S |-> merge_value(b[f][k], l[f][k], r[f][k], p)]
        icons == merge_value(IconUnit(b), IconUnit(l), IconUnit(r), p)
        totp == merge_value(totp_unit(b), totp_unit(l), totp_unit(r), p)
        passkey == merge_value(passkey_unit(b), passkey_unit(l), passkey_unit(r), p)
        m == [r EXCEPT
                !.text = each("text", StdKeys),
                !.prot = each("prot", StdKeys),
                !.opt = icons @@ each("opt", EntryOpt \ IconFields),
                !.raw = merge_value(b.raw, l.raw, r.raw, p),
                !.opaque = merge_value(b.opaque, l.opaque, r.opaque, p),
                !.times = [each("times", DOMAIN r.times) EXCEPT
                              !.modified = Later(l.times.modified, r.times.modified),
                              !.located = r.times.located],
                !.attr = merge_keyed_map(b.attr, l.attr, r.attr, p, OwnAttributes(b, l, r))
                         @@ totp[2] @@ passkey[2],
                !.totp = totp[1],
                !.passkey = passkey[1],
                !.files = merge_keyed_map(b.files, l.files, r.files, p,
                                          UnionKeys(b.files, l.files, r.files)),
                !.history = history_union(b.history, l.history, r.history)]
    IN  normalize_entry_slots(
            KeepLoser(merge_custom_data_fields(b, l, r, m, p), EntryClash(b, l, r), IF p THEN r ELSE l))

\* Mutant: an object only the local side moved stays where it was.
merge_location_remote(b, l, r, lAt, rAt) ==
    IF l = b \/ r = b THEN [parent |-> r, at |-> rAt, clash |-> FALSE, local |-> FALSE]
    ELSE [parent |-> l, at |-> lAt, clash |-> l # r, local |-> TRUE]

\* merge_location: [parent, at, clash, local].
merge_location(b, l, r, lAt, rAt) ==
    LET lt == IF lAt = None THEN 0 ELSE lAt
        rt == IF rAt = None THEN 0 ELSE rAt
    IN  IF l = b THEN [parent |-> r, at |-> rAt, clash |-> FALSE, local |-> FALSE]
        ELSE IF r = b THEN [parent |-> l, at |-> lAt, clash |-> FALSE, local |-> TRUE]
        ELSE IF l = r THEN [parent |-> r, at |-> Later(lt, rt), clash |-> FALSE, local |-> lt > rt]
        ELSE IF lt > rt THEN [parent |-> l, at |-> lAt, clash |-> TRUE, local |-> TRUE]
        ELSE [parent |-> r, at |-> rAt, clash |-> TRUE, local |-> FALSE]

EntryLocation(b, l, r, e) ==
    merge_location(HomeOf(b, e), HomeOf(l, e), HomeOf(r, e),
                   l.entries[e].times.located, r.entries[e].times.located)

(***************************************************************************)
(* One group, and the meta data: a clash is refused.                       *)
(***************************************************************************)
Shell(v, g) == [v.groups[g] EXCEPT !.entries = <<>>, !.children = <<>>]
GroupParent(v, g) == IF g = v.root THEN None ELSE ParentOf(v, g)
FlagUnit(g) == Restricted(g.opt, NullableBool)
GroupFields == GroupOpt \ ({"IconID"} \cup NullableBool)

TimesContent(t) == [f \in {"created", "expires", "expiry", "accessed"} |-> t[f]]

GroupTimesClash(b, l, r) ==
    IF b # None /\ l # None /\ r # None
    THEN \E f \in DOMAIN TimesContent(b) : Clash(b[f], l[f], r[f])
    ELSE /\ Clash(b, l, r)
         /\ ~(b = None /\ l # None /\ r # None /\ TimesContent(l) = TimesContent(r))

merge_group_times(b, l, r) ==
    LET latest(t) == [t EXCEPT !.modified = Later(l.modified, r.modified),
                               !.located = Later(l.located, r.located)]
    IN  IF b # None /\ l # None /\ r # None
        THEN latest([f \in DOMAIN r |-> merge_value(b[f], l[f], r[f], FALSE)])
        ELSE IF b = None /\ l # None /\ r # None THEN latest(r)
        ELSE merge_value(b, l, r, FALSE)

GroupClash(b, l, r) ==
    \/ \E f \in DOMAIN r.text : Clash(b.text[f], l.text[f], r.text[f])
    \/ \E f \in GroupFields : Clash(b.opt[f], l.opt[f], r.opt[f])
    \/ Clash(FlagUnit(b), FlagUnit(l), FlagUnit(r))
    \/ GroupTimesClash(b.times, l.times, r.times)
    \/ Clash(b.raw, l.raw, r.raw) \/ Clash(b.opaque, l.opaque, r.opaque)
    \/ CustomDataClash(b, l, r)

merge_group_fields(b, l, r) ==
    LET m == [r EXCEPT
                !.text = [f \in DOMAIN r.text |-> merge_value(b.text[f], l.text[f], r.text[f], FALSE)],
                !.opt = merge_value(FlagUnit(b), FlagUnit(l), FlagUnit(r), FALSE)
                        @@ [f \in GroupFields |-> merge_value(b.opt[f], l.opt[f], r.opt[f], FALSE)],
                !.times = merge_group_times(b.times, l.times, r.times),
                !.raw = merge_value(b.raw, l.raw, r.raw, FALSE),
                !.opaque = merge_value(b.opaque, l.opaque, r.opaque, FALSE)]
    IN  merge_custom_data_fields(b, l, r, m, FALSE)

LocatedAt(g) == IF g.times = None THEN None ELSE g.times.located

GroupLocation(b, l, r, g) ==
    IF g = b.root
    THEN [parent |-> None,
          at |-> LocatedAt([times |-> merge_group_times(b.groups[g].times, l.groups[g].times, r.groups[g].times)]),
          clash |-> FALSE, local |-> FALSE]
    ELSE merge_location(ParentOf(b, g), ParentOf(l, g), ParentOf(r, g),
                        LocatedAt(l.groups[g]), LocatedAt(r.groups[g]))

ChangedAt == MetaOpt \cap {"RecycleBinChanged", "MasterKeyChanged", "SettingsChanged",
                           "EntryTemplatesGroupChanged", "DatabaseNameChanged",
                           "DatabaseDescriptionChanged", "DefaultUserNameChanged"}

\* merge_changed_at and merge_timestamped_value: of two changed stamps the
\* later stands, so they never clash.  Stamps are names, in NameOrder.
merge_changed_at(b, l, r) ==
    LET rank(t) == IF t = None THEN 0 ELSE PlaceOf(NameOrder, t) IN
    IF l = b THEN r ELSE IF r = b THEN l ELSE IF rank(l) > rank(r) THEN l ELSE r

custom_icons_have_equal_content(x, y) == x # None /\ y # None /\ x.data = y.data

IconClash(b, l, r) ==
    /\ l # None /\ r # None /\ ~custom_icons_have_equal_content(l, r)
    /\ b # None => /\ ~custom_icons_have_equal_content(l, b)
                   /\ ~custom_icons_have_equal_content(r, b)

\* An edit of an icon beats its deletion.
merge_custom_icon(b, l, r) ==
    LET same(x, y) == custom_icons_have_equal_content(x, y)
        chosen == IF b = None THEN (IF r # None THEN r ELSE l)
                  ELSE IF l = None THEN (IF r = None \/ same(b, r) THEN None ELSE r)
                  ELSE IF r = None THEN (IF same(b, l) THEN None ELSE l)
                  ELSE IF same(l, b) THEN r ELSE IF same(r, b) THEN l ELSE r
        times == {x.time : x \in {y \in {b, l, r} : same(chosen, y)}}
    IN  IF chosen = None THEN None
        ELSE [chosen EXCEPT !.time = CHOOSE t \in times : \A u \in times : t >= u]

merge_custom_icons(b, l, r) ==
    LET m == [i \in UnionKeys(b, l, r) |-> merge_custom_icon(Get(b, i), Get(l, i), Get(r, i))]
    IN  Restricted(m, {i \in DOMAIN m : m[i] # None})

merge_deleted_objects(b, l, r) ==
    LET m == [i \in UnionKeys(b, l, r) |->
                LET x == Get(l, i)
                    y == Get(r, i)
                IN  merge_value(Get(b, i), x, y, x # None /\ (y = None \/ x > y))]
    IN  Restricted(m, {i \in DOMAIN m : m[i] # None})

MetaClash(b, l, r) ==
    \/ \E f \in MetaOpt \ ChangedAt : Clash(b.meta.opt[f], l.meta.opt[f], r.meta.opt[f])
    \/ Clash(b.meta.raw, l.meta.raw, r.meta.raw)
    \/ Clash(b.meta.opaque, l.meta.opaque, r.meta.opaque)
    \/ Clash(b.public, l.public, r.public)
    \/ CustomDataClash(b.meta, l.meta, r.meta)
    \/ \E i \in UnionKeys(b.icons, l.icons, r.icons) :
          IconClash(Get(b.icons, i), Get(l.icons, i), Get(r.icons, i))

merge_meta(b, l, r) ==
    LET m == [r.meta EXCEPT
                !.opt = [f \in MetaOpt |->
                    IF f \in ChangedAt THEN merge_changed_at(b.meta.opt[f], l.meta.opt[f], r.meta.opt[f])
                    ELSE merge_value(b.meta.opt[f], l.meta.opt[f], r.meta.opt[f], FALSE)],
                !.raw = merge_value(b.meta.raw, l.meta.raw, r.meta.raw, FALSE),
                !.opaque = merge_value(b.meta.opaque, l.meta.opaque, r.meta.opaque, FALSE)]
    IN  merge_custom_data_fields(b.meta, l.meta, r.meta, m, FALSE)

(***************************************************************************)
(* The tree.                                                               *)
(***************************************************************************)
same_entry_record(v, w, e) ==
    /\ e \in Entries(v) \cap Entries(w)
    /\ HomeOf(v, e) = HomeOf(w, e) /\ v.entries[e] = w.entries[e]

same_group_record(v, w, g) ==
    /\ g \in Groups(v) \cap Groups(w)
    /\ GroupParent(v, g) = GroupParent(w, g) /\ Shell(v, g) = Shell(w, g)

EntriesUnder(v, g) == UNION {ToSet(v.groups[h].entries) : h \in Subtree(v, g)}

subtree_changed(b, side, g) ==
    \/ \E h \in Subtree(b, g) \cup Subtree(side, g) : ~same_group_record(b, side, h)
    \/ \E e \in EntriesUnder(b, g) \cup EntriesUnder(side, g) : ~same_entry_record(b, side, e)

\* changed_subtrees_deleted_from_other, with all that is below them.
PreservedGroups(b, survivor, other) ==
    UNION {Subtree(survivor, g) : g \in
        {g \in Groups(b) : /\ g \in Groups(survivor) \ Groups(other)
                           /\ subtree_changed(b, survivor, g)}}

subtrees_equal(l, r, g) ==
    /\ Subtree(l, g) = Subtree(r, g) /\ EntriesUnder(l, g) = EntriesUnder(r, g)
    /\ \A h \in Subtree(l, g) : same_group_record(l, r, h)
    /\ \A e \in EntriesUnder(l, g) : same_entry_record(l, r, e)

\* The groups (entries) of the result that come as they are from one side.
GroupsFrom(side, b, l, r) ==
    IF side = "remote"
    THEN {g \in Groups(r) \ Groups(l) : g \in Groups(b) => g \in PreservedGroups(b, r, l)}
         \cup ((Groups(l) \cap Groups(r)) \ Groups(b))
    ELSE {g \in Groups(l) \ Groups(r) : g \in Groups(b) => g \in PreservedGroups(b, l, r)}

EntriesFrom(side, b, l, r) ==
    IF side = "remote"
    THEN {e \in Entries(r) \ Entries(l) : e \in Entries(b) =>
              ~same_entry_record(b, r, e) \/ HomeOf(r, e) \in PreservedGroups(b, r, l)}
         \cup ((Entries(l) \cap Entries(r)) \ Entries(b))
    ELSE {e \in Entries(l) \ Entries(r) : e \in Entries(b) =>
              ~same_entry_record(b, l, e) \/ HomeOf(l, e) \in PreservedGroups(b, l, r)}

InAllThree(X(_), b, l, r) == X(b) \cap X(l) \cap X(r)

\* merge_groups: the parent of every group of the result.
MergedGroupParents(b, l, r) ==
    [g \in GroupsFrom("remote", b, l, r) |-> GroupParent(r, g)]
    @@ [g \in GroupsFrom("local", b, l, r) |-> GroupParent(l, g)]
    @@ [g \in InAllThree(Groups, b, l, r) |-> GroupLocation(b, l, r, g).parent]

MergedEntryParents(b, l, r) ==
    [e \in EntriesFrom("remote", b, l, r) |-> HomeOf(r, e)]
    @@ [e \in EntriesFrom("local", b, l, r) |-> HomeOf(l, e)]
    @@ [e \in InAllThree(Entries, b, l, r) |-> EntryLocation(b, l, r, e).parent]

\* Mutant: parents are only looked for, not followed up to the root.
validate_group_parents(root, parents) ==
    \A g \in DOMAIN parents \ {root} : parents[g] \in DOMAIN parents

\* validate_group_hierarchy and the MissingParent checks.
validate_group_hierarchy(root, parents) ==
    LET up[n \in 0 .. Cardinality(DOMAIN parents), g \in DOMAIN parents] ==
            IF n = 0 \/ g = root THEN g
            ELSE IF parents[g] \in DOMAIN parents THEN up[n - 1, parents[g]] ELSE g
    IN  /\ root \in DOMAIN parents /\ parents[root] = None
        /\ \A g \in DOMAIN parents :
              /\ g # root => parents[g] \in DOMAIN parents
              /\ up[Cardinality(DOMAIN parents), g] = root

(***************************************************************************)
(* The order of siblings.                                                  *)
(***************************************************************************)
Among(s, S) == SelectSeq(s, LAMBDA x : x \in S)
SiblingsIn(v, p, kind) ==
    IF p \notin Groups(v) THEN <<>>
    ELSE IF kind = "Entry" THEN v.groups[p].entries ELSE v.groups[p].children

ensure_local_sibling_order(p, kind, b, l, r) ==
    LET bs == SiblingsIn(b, p, kind)
        ls == SiblingsIn(l, p, kind)
        rs == SiblingsIn(r, p, kind)
        shared == ToSet(bs) \cap ToSet(ls) \cap ToSet(rs)
    IN  Among(ls, shared) \in {Among(bs, shared), Among(rs, shared)}

\* entry_order_prefers_local, group_order_prefers_local: x ends up where the
\* local side put it.
entry_order_prefers_local(b, l, r, p, x) ==
    /\ x \in Entries(l) /\ HomeOf(l, x) = p
    /\ x \in Entries(r) => x \in Entries(b) /\ EntryLocation(b, l, r, x).local

group_order_prefers_local(b, l, r, p, x) ==
    /\ x \in Groups(l) /\ GroupParent(l, x) = p
    /\ x \in Groups(r) => x \in Groups(b) /\ GroupLocation(b, l, r, x).local

\* rebase_sibling_order: <<>> when the two orders cannot be reconciled (final
\* is not empty).
rebase_sibling_order(final, localOrder, remoteOrder, prefer) ==
    LET start == [order |-> SelectSeq(remoteOrder, LAMBDA x : x \notin prefer), pending |-> <<>>]
        place(acc, x, at) ==
            IF x \in prefer THEN [acc EXCEPT !.pending = Append(@, x)]
            ELSE IF at # 0
                 THEN [order |-> SubSeq(acc.order, 1, at - 1) \o acc.pending
                                 \o SubSeq(acc.order, at, Len(acc.order)),
                       pending |-> <<>>]
                 ELSE acc
        among(acc, x) == place(acc, x, PlaceOf(acc.order, x))
        done[n \in 0 .. Len(localOrder)] == IF n = 0 THEN start ELSE among(done[n - 1], localOrder[n])
        order == done[Len(localOrder)].order \o done[Len(localOrder)].pending
    IN  IF /\ Len(order) = Cardinality(final) /\ ToSet(order) = final
           /\ \A i \in 1 .. Len(localOrder) - 1 :
                 {localOrder[i], localOrder[i + 1]} \cap prefer # {} =>
                     PlaceOf(order, localOrder[i]) < PlaceOf(order, localOrder[i + 1])
        THEN order ELSE <<>>

\* reconcile_entry_sibling_orders, reconcile_group_sibling_orders
MergedSiblings(b, l, r, p, kind, final) ==
    rebase_sibling_order(final, Among(SiblingsIn(l, p, kind), final),
        Among(SiblingsIn(r, p, kind), final),
        {x \in final : IF kind = "Entry" THEN entry_order_prefers_local(b, l, r, p, x)
                       ELSE group_order_prefers_local(b, l, r, p, x)})

(***************************************************************************)
(* The patch.                                                              *)
(***************************************************************************)
ensure_fidelity_conflicts_representable(b, l, r) ==
    LET fits(x, y, z) == /\ ~Clash(x.opaque, y.opaque, z.opaque)
                         /\ ensure_custom_data_rebase_representable(x, y, z)
    IN  /\ fits(b.meta, l.meta, r.meta)
        /\ \A e \in InAllThree(Entries, b, l, r) : fits(b.entries[e], l.entries[e], r.entries[e])
        /\ \A g \in InAllThree(Groups, b, l, r) : fits(b.groups[g], l.groups[g], r.groups[g])

normalize_group_slots(g) ==
    retain_tracked_slots(retain_tracked_slots(g, "Entry", ToSet(g.entries)),
                         "Group", ToSet(g.children))

LocatedEntry(m, l, r, at) ==
    IF at.clash THEN add_losing_history_snapshot([m EXCEPT !.times.located = at.at], IF at.local THEN r ELSE l)
    ELSE [m EXCEPT !.times.located = at.at]

MergedEntry(b, l, r, e) ==
    LocatedEntry(merge_entry(b.entries[e], l.entries[e], r.entries[e]), l.entries[e], r.entries[e],
                 EntryLocation(b, l, r, e))

LocatedGroup(m, at) == IF m.times = None THEN m ELSE [m EXCEPT !.times.located = at]

MergedGroup(b, l, r, g) ==
    LocatedGroup(merge_group_fields(Shell(b, g), Shell(l, g), Shell(r, g)), GroupLocation(b, l, r, g).at)

\* Refused: nothing is merged.
Refused == [ok |-> FALSE]

\* The children of every group, in their order.  <<>> for some is no order.
Siblings(b, l, r, kind, parents, groups) ==
    LET final(p) == {x \in DOMAIN parents : parents[x] = p}
        order(p, S) == IF S = {} THEN <<>> ELSE MergedSiblings(b, l, r, p, kind, S)
    IN  [p \in groups |-> order(p, final(p))]

\* What a patch refuses: two roots, a fidelity conflict, local siblings in
\* another order, an id added on both sides with two contents, a conflict in a
\* group or in the meta data, a tree or an order that cannot be.
IsRepresentable(b, l, r, gp, ep, entries, children) ==
    LET added(X(_)) == (X(l) \cap X(r)) \ X(b) IN
    /\ b.root = l.root /\ b.root = r.root
    /\ ensure_fidelity_conflicts_representable(b, l, r)
    /\ \A p \in Groups(b), kind \in {"Entry", "Group"} :
          ensure_local_sibling_order(p, kind, b, l, r)
    /\ \A e \in added(Entries) : same_entry_record(l, r, e)
    /\ \A g \in added(Groups) : subtrees_equal(l, r, g)
    /\ \A g \in InAllThree(Groups, b, l, r) : ~GroupClash(Shell(b, g), Shell(l, g), Shell(r, g))
    /\ ~MetaClash(b, l, r)
    /\ validate_group_hierarchy(b.root, gp)
    /\ \A e \in DOMAIN ep : ep[e] \in DOMAIN gp
    /\ \A p \in DOMAIN gp :
          /\ Len(entries[p]) = Cardinality({e \in DOMAIN ep : ep[e] = p})
          /\ Len(children[p]) = Cardinality({g \in DOMAIN gp : gp[g] = p})

MergedVault(b, l, r, gp, ep, entries, children) ==
    LET shell(g) == IF g \in GroupsFrom("remote", b, l, r) THEN r.groups[g]
                    ELSE IF g \in GroupsFrom("local", b, l, r) THEN l.groups[g]
                    ELSE MergedGroup(b, l, r, g)
        entry(e) == IF e \in EntriesFrom("remote", b, l, r) THEN r.entries[e]
                    ELSE IF e \in EntriesFrom("local", b, l, r) THEN l.entries[e]
                    ELSE MergedEntry(b, l, r, e)
    IN  [root |-> b.root, meta |-> merge_meta(b, l, r),
         groups |-> [g \in DOMAIN gp |-> normalize_group_slots(
             [shell(g) EXCEPT !.entries = entries[g], !.children = children[g]])],
         entries |-> [e \in DOMAIN ep |-> entry(e)],
         icons |-> merge_custom_icons(b.icons, l.icons, r.icons),
         deleted |-> Without(merge_deleted_objects(b.deleted, l.deleted, r.deleted),
                             DOMAIN gp \cup DOMAIN ep),
         public |-> merge_value(b.public, l.public, r.public, FALSE)]

PatchInto(b, l, r, gp, ep, entries, children) ==
    IF ~IsRepresentable(b, l, r, gp, ep, entries, children) THEN Refused
    ELSE [ok |-> TRUE, vault |-> MergedVault(b, l, r, gp, ep, entries, children)]

PatchUnder(b, l, r, gp, ep) ==
    PatchInto(b, l, r, gp, ep, Siblings(b, l, r, "Entry", ep, DOMAIN gp),
              Siblings(b, l, r, "Group", gp, DOMAIN gp))

three_way_field_patch(b, l, r) ==
    PatchUnder(b, l, r, MergedGroupParents(b, l, r), MergedEntryParents(b, l, r))
==============================================================================
