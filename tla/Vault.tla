-------------------------------- MODULE Vault --------------------------------
(***************************************************************************)
(* The vault of vaultkern-model, the mutations of vaultkern-core           *)
(* (KeepassCore) on it, and what the KDBX reader and writer make of it.    *)
(*                                                                         *)
(* Every element is a scope (see XmlScope) with the fields:                *)
(*   opt     its optional one-node fields, None when absent                *)
(*   raw     order, tracked, text (the text as read, for the fields that   *)
(*           keep it) and container (a History or CustomIcons node was     *)
(*           read)                                                         *)
(*   blocks, data, opaque                                                  *)
(* An entry adds text and prot (the standard strings), attr, totp,         *)
(* passkey, files, times and history; a group adds text, times and the     *)
(* sequences entries and children; the vault is the root id, meta, groups, *)
(* entries, icons, deleted (tombstones) and public.                        *)
(***************************************************************************)
EXTENDS XmlScope, Integers

CONSTANTS
    NameOrder,    \* the names used for keys and files, as they sort
    StdKeys,      \* the standard strings modelled (of Title, UserName, ...)
    EntryOpt,     \* the optional fields of an entry that are modelled
    GroupOpt,
    MetaOpt,
    BadText,      \* a text with a character XML 1.0 forbids
    None          \* an absent value

Empty == [x \in {} |-> x]
InOrder(S) == SelectSeq(NameOrder, LAMBDA n : n \in S)

TotpKeys == {"otp", "TimeOtp-Secret-Base32"}
PasskeyKeys == {"KPEX_PASSKEY_USERNAME", "KPEX_PASSKEY_PRIVATE_KEY_PEM"}
SecretKeys == {"TimeOtp-Secret-Base32", "otp", "KPEX_PASSKEY_PRIVATE_KEY_PEM"}

Restricted(f, S) == [x \in DOMAIN f \cap S |-> f[x]]
Without(f, S) == [x \in DOMAIN f \ S |-> f[x]]
With(f, k, v) == [x \in DOMAIN f \cup {k} |-> IF x = k THEN v ELSE f[x]]
WithAll(f, S, v) == [x \in DOMAIN f \cup S |-> IF x \in S THEN v ELSE f[x]]

(***************************************************************************)
(* The texts of optional fields.                                           *)
(***************************************************************************)
Collapsed == {"Tags", "DatabaseDescription", "DefaultUserName", "Color",
              "DefaultAutoTypeSequence"}
NullableBool == {"EnableAutoType", "EnableSearching"}
EntryRaw == EntryOpt \cap {"ForegroundColor", "BackgroundColor", "OverrideURL",
                           "Tags", "QualityCheck"}
GroupRaw == GroupOpt \cap ({"DefaultAutoTypeSequence"} \cup NullableBool)
MetaRaw == MetaOpt \cap {"DatabaseDescription", "DefaultUserName", "Color"}
AlwaysWritten == {"DefaultAutoTypeSequence"} \cup NullableBool

\* What a text that was read means; None: the field is absent.
Meaning(f, raw) ==
    IF \/ f \in Collapsed /\ raw = ""
       \/ f \in NullableBool /\ raw = "null"
       \/ f = "QualityCheck" /\ raw = "True"
    THEN None ELSE raw

RawText(s, f) == IF f \in DOMAIN s.raw.text THEN s.raw.text[f] ELSE None

\* raw_present_text_matches, raw_collapsed_optional_text_matches,
\* raw_nullable_bool_matches and the QualityCheck rule of validate_entry_model.
RawMatches(s) ==
    \A f \in DOMAIN s.raw.text :
        s.raw.text[f] # None => s.opt[f] = Meaning(f, s.raw.text[f])

Emitted(s, f) == f \in AlwaysWritten \/ s.opt[f] # None \/ RawText(s, f) # None

Written(s, f) ==
    LET default == IF f \in NullableBool THEN "null" ELSE "" IN
    IF f \in {"Tags", "QualityCheck"} \cup NullableBool /\ RawText(s, f) # None
    THEN RawText(s, f)
    ELSE IF s.opt[f] # None THEN s.opt[f]
    ELSE IF RawText(s, f) # None THEN RawText(s, f) ELSE default

\* An update of one optional field, with what every mutation of
\* vaultkern-core does around it: the node of a cleared field is retargeted,
\* the text as read is forgotten.
SetOptional(s, f, v) ==
    LET gone == v = None /\ f \notin AlwaysWritten /\ Emitted(s, f)
        t == IF gone THEN retarget_removed_known_node(s, f) ELSE s
    IN  [t EXCEPT !.opt[f] = v,
                  !.raw.text = IF f \in DOMAIN @ THEN [@ EXCEPT ![f] = None] ELSE @]

(***************************************************************************)
(* Credentials held in attributes.                                         *)
(***************************************************************************)

\* totp_from_persistent_attributes: the otp URI, unless it does not parse or
\* the discrete keys contradict it.
totp_from_persistent_attributes(fields) ==
    IF /\ "otp" \in DOMAIN fields
       /\ fields["otp"].value # BadText
       /\ "TimeOtp-Secret-Base32" \in DOMAIN fields =>
             fields["TimeOtp-Secret-Base32"].value = fields["otp"].value
    THEN fields["otp"].value ELSE None

passkey_from_attributes(fields) ==
    IF PasskeyKeys \subseteq DOMAIN fields
    THEN fields["KPEX_PASSKEY_PRIVATE_KEY_PEM"].value ELSE None

Overlay(fields, keys, value) ==
    [k \in DOMAIN fields \cup keys |->
        IF k \in keys THEN [value |-> value, protected |-> k \in SecretKeys] ELSE fields[k]]

ProtectSecrets(fields, keys) ==
    [k \in DOMAIN fields |->
        IF k \in keys \cap SecretKeys THEN [fields[k] EXCEPT !.protected = TRUE] ELSE fields[k]]

\* Mutant: a passkey is not written when the entry has a TOTP secret too.
materialize_one_credential(e) ==
    LET totp == IF e.totp # None THEN e.totp ELSE totp_from_persistent_attributes(e.attr)
        passkey == IF e.passkey # None THEN e.passkey ELSE passkey_from_attributes(e.attr)
    IN  IF totp # None THEN Overlay(e.attr, TotpKeys, totp)
        ELSE IF passkey # None THEN Overlay(e.attr, PasskeyKeys, passkey)
        ELSE ProtectSecrets(e.attr, TotpKeys \cup PasskeyKeys)

materialize_entry_persistent_attributes(e) ==
    LET totp == IF e.totp # None THEN e.totp ELSE totp_from_persistent_attributes(e.attr)
        passkey == IF e.passkey # None THEN e.passkey ELSE passkey_from_attributes(e.attr)
        a == IF totp # None THEN Overlay(e.attr, TotpKeys, totp) ELSE ProtectSecrets(e.attr, TotpKeys)
    IN  IF passkey # None THEN Overlay(a, PasskeyKeys, passkey) ELSE ProtectSecrets(a, PasskeyKeys)

\* The names that own the String and the Binary nodes, in the order written.
Ordered(tracked, names) ==
    LET kept == SelectSeq(tracked, LAMBDA k : k \in names)
    IN  kept \o InOrder(names \ ToSet(kept))

entry_string_identities(e) ==
    Ordered(e.raw.tracked["String"],
            StdKeys \cup DOMAIN materialize_entry_persistent_attributes(e))

entry_binary_identities(e) == Ordered(e.raw.tracked["Binary"], DOMAIN e.files)

\* What every mutation of the strings (files) of an entry does behind it: e is
\* the entry before, n the entry with its new attributes.
RetargetStrings(e, n) ==
    retarget_keyed_known_nodes(n, "String", n.raw.tracked["String"],
        entry_string_identities(e), entry_string_identities(n), Empty)

RetargetFiles(e, n, renamed) ==
    retarget_keyed_known_nodes(n, "Binary", n.raw.tracked["Binary"],
        entry_binary_identities(e), entry_binary_identities(n), renamed)

(***************************************************************************)
(* The tree.                                                               *)
(***************************************************************************)
Groups(v) == DOMAIN v.groups
Entries(v) == DOMAIN v.entries

HomeOf(v, e) == CHOOSE g \in Groups(v) : Contains(v.groups[g].entries, e)
ParentOf(v, g) == CHOOSE p \in Groups(v) : Contains(v.groups[p].children, g)

\* The groups of the subtree under g, g included (group_contains_id and the
\* recursive walks).
Subtree(v, g) ==
    LET below[n \in 0 .. Cardinality(Groups(v))] ==
            IF n = 0 THEN {g}
            ELSE below[n - 1] \cup UNION {ToSet(v.groups[h].children) : h \in below[n - 1]}
    IN  below[Cardinality(Groups(v))]

uses_uuid(v, id) == id \in Groups(v) \cup Entries(v)

\* Identities fresh_live_uuid and add_entry_with_id accept.
Fresh(v, id) == ~uses_uuid(v, id) /\ id \notin DOMAIN v.deleted

LOCAL RetargetChildren(g, n, kind, old, new) ==
    retarget_keyed_known_nodes(n, kind, n.raw.tracked[kind], old, new, Empty)

\* take_entry_from_group, delete_entry_from_group
DetachEntry(v, e) ==
    LET h == HomeOf(v, e)
        g == v.groups[h]
        rest == SelectSeq(g.entries, LAMBDA x : x # e)
    IN  [v EXCEPT !.groups[h] =
            RetargetChildren(g, [g EXCEPT !.entries = rest], "Entry", g.entries, rest)]

\* take_group_from_group, delete_group_from_group
DetachGroup(v, g) ==
    LET p == ParentOf(v, g)
        q == v.groups[p]
        rest == SelectSeq(q.children, LAMBDA x : x # g)
    IN  [v EXCEPT !.groups[p] =
            RetargetChildren(q, [q EXCEPT !.children = rest], "Group", q.children, rest)]

NewScope(opts, rawFields, kinds) ==
    [opt |-> [f \in opts |-> None],
     raw |-> [order |-> <<>>, tracked |-> [k \in kinds |-> <<>>],
              text |-> [f \in rawFields |-> None], container |-> FALSE],
     blocks |-> <<>>, data |-> Empty, opaque |-> <<>>]

\* Group::new
NewGroup(title) ==
    NewScope(GroupOpt, GroupRaw, {"Entry", "Group"})
    @@ [text |-> [Name |-> title, Notes |-> ""], times |-> None,
        entries |-> <<>>, children |-> <<>>]

\* Entry::new (an entry carries an AutoType of its own from the start) and the
\* times add_entry_with_id gives it.
NewEntry(text, now) ==
    LET s == NewScope(EntryOpt, EntryRaw, {"String", "Binary"}) IN
    [s EXCEPT !.opt = [f \in EntryOpt |-> IF f = "AutoType" THEN "default" ELSE None]]
    @@ [text |-> text, prot |-> [k \in StdKeys |-> k = "Password"],
        attr |-> Empty, totp |-> None, passkey |-> None, files |-> Empty,
        times |-> [created |-> now, modified |-> now, accessed |-> now, located |-> now,
                   expires |-> FALSE, expiry |-> now],
        history |-> <<>>]

\* next_entry_location_timestamp
NextLocation(e, now) ==
    IF now > e.times.located THEN now ELSE e.times.located + 1

AttachEntry(v, e, g) == [v EXCEPT !.groups[g].entries = Append(@, e)]

(***************************************************************************)
(* The mutations (KeepassCore).  Each is what the call does once its checks *)
(* passed; the checks are the guards of the actions that use them.         *)
(***************************************************************************)
add_entry_with_id(v, g, id, text, now) ==
    AttachEntry([v EXCEPT !.entries = With(@, id, NewEntry(text, now))], id, g)

\* No tombstone is left.
delete_entry(v, e) ==
    LET d == DetachEntry(v, e) IN [d EXCEPT !.entries = Without(@, {e})]

add_group(v, p, id, title) ==
    [v EXCEPT !.groups = With([@ EXCEPT ![p].children = Append(@, id)], id, NewGroup(title))]

delete_group(v, g) ==
    LET gone == Subtree(v, g)
        lost == UNION {ToSet(v.groups[h].entries) : h \in gone}
        d == DetachGroup(v, g)
    IN  [d EXCEPT !.groups = Without(@, gone), !.entries = Without(@, lost)]

move_entry(v, e, g, now) ==
    [AttachEntry(DetachEntry(v, e), e, g) EXCEPT
        !.entries[e].times.located = NextLocation(v.entries[e], now)]

move_group(v, g, p) ==
    LET d == DetachGroup(v, g) IN [d EXCEPT !.groups[p].children = Append(@, g)]

update_entry_fields(v, e, k, t) == [v EXCEPT !.entries[e].text[k] = t]

update_entry_field_protection(v, e, k, p) == [v EXCEPT !.entries[e].prot[k] = p]

\* update_entry_presentation_metadata, update_entry_lineage_report_metadata,
\* update_entry_custom_icon and replace_entry_tags, field by field.
update_entry_optional(v, e, f, t) == [v EXCEPT !.entries[e] = SetOptional(@, f, t)]

\* update_entry_auto_type never removes the node.
update_entry_auto_type(v, e, t) == [v EXCEPT !.entries[e].opt["AutoType"] = t]

update_entry_times(v, e, f, t) == [v EXCEPT !.entries[e].times[f] = t]

update_entry_expiry(v, e, on, t) ==
    [v EXCEPT !.entries[e].times = [@ EXCEPT !.expires = on, !.expiry = t]]

\* update_group_metadata (an icon or flags in the group's text record)
update_group_metadata(v, g, f, t) == [v EXCEPT !.groups[g].text[f] = t]

\* update_group_behavior_metadata, update_group_lineage_tag_metadata and
\* update_group_custom_icon, field by field.
update_group_optional(v, g, f, t) == [v EXCEPT !.groups[g] = SetOptional(@, f, t)]

DefaultGroupTimes == [created |-> 0, modified |-> 0, accessed |-> None, located |-> None,
                      expires |-> FALSE, expiry |-> None]

GroupTimes(g) == IF g.times = None THEN DefaultGroupTimes ELSE g.times

update_group_times(v, g, f, t) ==
    [v EXCEPT !.groups[g].times = [GroupTimes(v.groups[g]) EXCEPT ![f] = t]]

update_group_expiry(v, g, on, t) ==
    [v EXCEPT !.groups[g].times = [GroupTimes(v.groups[g]) EXCEPT !.expires = on, !.expiry = t]]

upsert_custom_icon(v, i, d, t) == [v EXCEPT !.icons = With(@, i, [data |-> d, time |-> t])]

\* delete_custom_icon with clear_custom_icon_references_from_group/_entry
delete_custom_icon(v, i) ==
    LET clear(s) == IF s.opt["CustomIconUUID"] = i THEN SetOptional(s, "CustomIconUUID", None) ELSE s
        entry(e) == LET c == clear(e) IN
                    [c EXCEPT !.history = [n \in DOMAIN @ |-> clear(@[n])]]
    IN  [v EXCEPT !.icons = Without(@, {i}),
                  !.groups = [g \in DOMAIN @ |-> clear(@[g])],
                  !.entries = [e \in DOMAIN @ |-> entry(@[e])]]

\* upsert_*_custom_data, upsert_*_custom_data_detail and delete_*_custom_data
\* on the scope they change; time 0 stands for no timestamp.
upsert_custom_data(s, k, d, t) ==
    reconcile_custom_data_blocks(s, With(s.data, k, d), <<k, t>>, NameOrder)

delete_custom_data(s, k) ==
    reconcile_custom_data_blocks(s, Without(s.data, {k}), <<>>, NameOrder)

\* update_vault_metadata, _selection_, _lifecycle_, _bin_template_ and
\* _identity_metadata, field by field.
update_vault_optional(v, f, t) == [v EXCEPT !.meta = SetOptional(@, f, t)]

upsert_entry_custom_field(v, e, k, t, p) ==
    [v EXCEPT !.entries[e].attr = With(@, k, [value |-> t, protected |-> p])]

delete_entry_custom_field(v, e, k) ==
    [v EXCEPT !.entries[e] = RetargetStrings(@, [@ EXCEPT !.attr = Without(@, {k})])]

set_entry_totp(v, e, t) ==
    [v EXCEPT !.entries[e] = RetargetStrings(@, [@ EXCEPT !.totp = t])]

clear_entry_totp(v, e) ==
    [v EXCEPT !.entries[e] =
        RetargetStrings(@, [@ EXCEPT !.totp = None, !.attr = Without(@, TotpKeys)])]

set_entry_passkey(v, e, t) ==
    [v EXCEPT !.entries[e] = RetargetStrings(@, [@ EXCEPT !.passkey = t])]

clear_entry_passkey(v, e) ==
    [v EXCEPT !.entries[e] =
        RetargetStrings(@, [@ EXCEPT !.passkey = None, !.attr = Without(@, PasskeyKeys)])]

\* add_entry_attachment and replace_entry_attachment_content
put_entry_attachment(v, e, n, content, p) ==
    [v EXCEPT !.entries[e].files = With(@, n, [content |-> content, protected |-> p])]

delete_entry_attachment(v, e, n) ==
    [v EXCEPT !.entries[e] = RetargetFiles(@, [@ EXCEPT !.files = Without(@, {n})], Empty)]

rename_entry_attachment(v, e, n, to) ==
    [v EXCEPT !.entries[e] =
        RetargetFiles(@, [@ EXCEPT !.files = With(Without(@, {n}), to, @[n])],
                      [x \in {n} |-> to])]

\* prepare_entry_history_snapshot
prepare_entry_history_snapshot(e) ==
    LET s == [e EXCEPT !.history = <<>>]
        t == IF s.raw.container \/ Contains(s.raw.order, "History")
             THEN RemoveNodes(s, {"History"}) ELSE s
    IN  [t EXCEPT !.raw.container = FALSE]

snapshot_entry_to_history(v, e) ==
    [v EXCEPT !.entries[e].history = Append(@, prepare_entry_history_snapshot(v.entries[e]))]

clear_entry_history(v, e) == [v EXCEPT !.entries[e].history = <<>>]

HasBin(v) == v.meta.opt["RecycleBinUUID"] \in Groups(v)

\* ensure_recycle_bin
ensure_recycle_bin(v, id) ==
    LET on == [v EXCEPT !.meta.opt["RecycleBinEnabled"] = "True"] IN
    IF HasBin(v) THEN on
    ELSE [add_group(on, v.root, id, "Recycle Bin") EXCEPT
             !.meta.opt = [@ EXCEPT !["RecycleBinUUID"] = id,
                                    !["RecycleBinChanged"] = IF @ = None THEN "now" ELSE @]]

soft_delete_entry_to_recycle_bin(v, e, id, now) ==
    LET home == HomeOf(v, e)
        b == ensure_recycle_bin(v, id)
        bin == b.meta.opt["RecycleBinUUID"]
    IN  [AttachEntry(DetachEntry(b, e), e, bin) EXCEPT
            !.entries[e] = [@ EXCEPT !.opt["PreviousParentGroup"] = home,
                                     !.times.located = NextLocation(v.entries[e], now)],
            !.deleted = With(@, e, now)]

restore_entry_from_recycle_bin(v, e, target, now) ==
    [AttachEntry(DetachEntry(v, e), e, target) EXCEPT
        !.entries[e] = [SetOptional(@, "PreviousParentGroup", None) EXCEPT
                            !.times.located = NextLocation(v.entries[e], now)],
        !.deleted = Without(@, {e})]

(***************************************************************************)
(* Writing a vault.                                                        *)
(***************************************************************************)
Node(kind, id) == [kind |-> kind, id |-> id, items |-> <<>>]

Optionals(s, order) ==
    LET fs == SelectSeq(order, LAMBDA f : f \in DOMAIN s.opt /\ Emitted(s, f))
    IN  [i \in DOMAIN fs |-> Node(fs[i], Written(s, fs[i]))]

NodesOf(kind, ids) == [i \in DOMAIN ids |-> Node(kind, ids[i])]

should_emit_history(e, include) ==
    include /\ (e.history # <<>> \/ e.raw.container \/ e.raw.order = <<>>)

entry_nodes(id, e, include) ==
    <<Node("UUID", id)>>
    \o Optionals(e, <<"IconID", "CustomIconUUID", "ForegroundColor", "BackgroundColor",
                      "OverrideURL", "Tags", "PreviousParentGroup", "QualityCheck">>)
    \o <<Node("Times", "Times")>>
    \o NodesOf("String", entry_string_identities(e))
    \o NodesOf("Binary", entry_binary_identities(e))
    \o Optionals(e, <<"AutoType">>)
    \o (IF should_emit_history(e, include) THEN <<Node("History", "History")>> ELSE <<>>)

EntryStrings(e) ==
    [k \in StdKeys |-> [value |-> e.text[k], protected |-> e.prot[k]]]
    @@ materialize_entry_persistent_attributes(e)

\* A written entry: its nodes, and what its String, Binary, Times and History
\* nodes hold.
\* [ok, doc] of one element.
WrittenOne(id, e, include) ==
    write_scope(entry_nodes(id, e, include), e) @@ [strings |-> EntryStrings(e), of |-> e]

Doc(w, history) ==
    [nodes |-> w.doc, strings |-> w.strings, files |-> w.of.files, times |-> w.of.times, history |-> history]

IsWritable(w) == w.ok /\ \A k \in DOMAIN w.strings : w.strings[k].value = BadText => w.strings[k].protected

WrittenEntry(w, h) ==
    [ok |-> IsWritable(w) /\ \A i \in DOMAIN h : IsWritable(h[i])]
    @@ Doc(w, [i \in DOMAIN h |-> Doc(h[i], <<>>)])

entry_to_xml(id, e, include) ==
    WrittenEntry(WrittenOne(id, e, include),
                 [i \in DOMAIN e.history |-> WrittenOne(id, e.history[i], FALSE)])

group_nodes(id, g) ==
    <<Node("UUID", id), Node("Name", g.text["Name"]), Node("Notes", g.text["Notes"])>>
    \o Optionals(g, <<"CustomIconUUID", "Tags">>)
    \o <<Node("Times", "Times")>>
    \o Optionals(g, <<"DefaultAutoTypeSequence", "EnableAutoType", "EnableSearching",
                      "LastTopVisibleEntry", "PreviousParentGroup">>)
    \o NodesOf("Entry", g.entries) \o NodesOf("Group", g.children)

group_to_xml(id, g) ==
    LET w == write_scope(group_nodes(id, g), g) IN
    [ok |-> w.ok, nodes |-> w.doc, times |-> GroupTimes(g)]

meta_nodes(v) ==
    Optionals(v.meta, <<"Generator", "SettingsChanged">>)
    \o <<Node("DatabaseName", "name")>>
    \o Optionals(v.meta,
         <<"DatabaseNameChanged", "DatabaseDescription", "DatabaseDescriptionChanged",
           "DefaultUserName", "DefaultUserNameChanged", "MaintenanceHistoryDays", "Color",
           "MemoryProtection">>)
    \o (IF v.icons # Empty \/ v.meta.raw.container
        THEN <<Node("CustomIcons", "CustomIcons")>> ELSE <<>>)
    \o Optionals(v.meta,
         <<"RecycleBinEnabled", "RecycleBinUUID", "RecycleBinChanged", "EntryTemplatesGroup",
           "EntryTemplatesGroupChanged", "MasterKeyChanged", "MasterKeyChangeRec",
           "MasterKeyChangeForce", "MasterKeyChangeForceOnce", "LastSelectedGroup",
           "LastTopVisibleGroup", "HistoryMaxItems", "HistoryMaxSize">>)

build_xml(v) ==
    LET m == write_scope(meta_nodes(v), v.meta)
        gs == [g \in Groups(v) |-> group_to_xml(g, v.groups[g])]
        es == [e \in Entries(v) |-> entry_to_xml(e, v.entries[e], TRUE)]
    IN  [ok |-> m.ok /\ (\A g \in Groups(v) : gs[g].ok) /\ (\A e \in Entries(v) : es[e].ok),
         root |-> v.root, meta |-> m.doc, icons |-> v.icons, deleted |-> v.deleted,
         public |-> v.public, groups |-> gs, entries |-> es]

(***************************************************************************)
(* Reading one.                                                            *)
(***************************************************************************)
TextIn(nodes, f) ==
    LET i == PlaceOf(Names(nodes), f) IN IF i = 0 THEN None ELSE nodes[i].id

\* The scope of an element: fields whose text is kept are taken as they mean,
\* the others are absent when their text is empty, and then their node is
\* collapsed (retarget_removed_scope_nodes).
ScopeOf(nodes, p, opts, rawFields, container) ==
    LET value(f) == IF f \in rawFields /\ TextIn(nodes, f) # None
                    THEN Meaning(f, TextIn(nodes, f))
                    ELSE IF TextIn(nodes, f) = "" THEN None ELSE TextIn(nodes, f)
        s == [opt |-> [f \in opts |-> value(f)],
              raw |-> [order |-> p.raw.order, tracked |-> p.raw.tracked,
                       text |-> [f \in rawFields |-> TextIn(nodes, f)],
                       container |-> TextIn(nodes, container) # None],
              blocks |-> p.blocks, data |-> p.data, opaque |-> p.opaque]
    IN  RemoveNodes(s, {f \in opts \ rawFields : TextIn(nodes, f) = ""})

read_scope(nodes, kinds, opts, rawFields, container) ==
    ScopeOf(nodes, parse_scope(nodes, kinds), opts, rawFields, container)

\* A KnownBad item of old versions overrides QualityCheck and goes.
TakeKnownBad(s) ==
    IF "KnownBad" \in DOMAIN s.data /\ s.data["KnownBad"] \in {"True", "False"}
    THEN delete_custom_data([s EXCEPT !.opt["QualityCheck"] =
                                IF s.data["KnownBad"] = "True" THEN "False" ELSE None], "KnownBad")
    ELSE s

EntryOf(doc, s) ==
    LET rest == Without(doc.strings, StdKeys)
        totp == totp_from_persistent_attributes(rest)
        passkey == passkey_from_attributes(rest)
        held == (IF totp # None THEN TotpKeys ELSE {}) \cup (IF passkey # None THEN PasskeyKeys ELSE {})
        str(k) == IF k \in DOMAIN doc.strings THEN doc.strings[k]
                  ELSE [value |-> "", protected |-> k = "Password"]
    IN  s @@ [text |-> [k \in StdKeys |-> str(k).value],
              prot |-> [k \in StdKeys |-> str(k).protected],
              attr |-> ProtectSecrets(Without(rest, held), DOMAIN rest),
              totp |-> totp, passkey |-> passkey, files |-> doc.files, times |-> doc.times,
              history |-> <<>>]

parse_one_entry(doc) ==
    EntryOf(doc, TakeKnownBad(read_scope(doc.nodes, {"String", "Binary"}, EntryOpt, EntryRaw, "History")))

parse_entry(doc) ==
    [parse_one_entry(doc) EXCEPT
        !.history = [i \in DOMAIN doc.history |-> parse_one_entry(doc.history[i])]]

parse_group(doc) ==
    LET s == read_scope(doc.nodes, {"Entry", "Group"}, GroupOpt, GroupRaw, "none") IN
    s @@ [text |-> [Name |-> TextIn(doc.nodes, "Name"), Notes |-> TextIn(doc.nodes, "Notes")],
          times |-> doc.times,
          entries |-> IdsOf(doc.nodes, "Entry"), children |-> IdsOf(doc.nodes, "Group")]

project_xml(doc) ==
    [root |-> doc.root,
     meta |-> read_scope(doc.meta, {}, MetaOpt, MetaRaw, "CustomIcons"),
     groups |-> [g \in DOMAIN doc.groups |-> parse_group(doc.groups[g])],
     entries |-> [e \in DOMAIN doc.entries |-> parse_entry(doc.entries[e])],
     icons |-> doc.icons, deleted |-> doc.deleted, public |-> doc.public]

(***************************************************************************)
(* validate_vault_model: what the reader insists on and the writer checks  *)
(* before it writes.                                                       *)
(***************************************************************************)
validate_custom_data_model(s) == merge_custom_data_blocks(s.blocks) = s.data

validate_entry_model(id, e, snapshot) ==
    LET nodes == entry_nodes(id, e, ~snapshot)
                 \o [i \in DOMAIN e.blocks |-> CustomDataNode(e.blocks[i].items)]
    IN  /\ snapshot => e.history = <<>> /\ ~e.raw.container
        /\ RawMatches(e)
        /\ e.times.located # None
        /\ e.times.expires => e.times.expiry # None
        /\ DOMAIN e.attr \cap StdKeys = {}
        /\ validate_raw_node_slots(e.raw.order, nodes)
        /\ validate_tracked_identity_slots(e, "String", ToSet(entry_string_identities(e)))
        /\ validate_tracked_identity_slots(e, "Binary", DOMAIN e.files)
        /\ validate_custom_data_model(e)

\* validate_tracked_identity_prefix
TrackedIsPrefix(g, kind, current) ==
    LET t == g.raw.tracked[kind] IN
    Len(t) <= Len(current) /\ \A i \in DOMAIN t : current[i] = t[i]

validate_group_model(id, g) ==
    LET nodes == group_nodes(id, g)
                 \o [i \in DOMAIN g.blocks |-> CustomDataNode(g.blocks[i].items)]
    IN  /\ RawMatches(g)
        /\ validate_raw_node_slots(g.raw.order, nodes)
        /\ validate_tracked_identity_slots(g, "Entry", ToSet(g.entries))
        /\ TrackedIsPrefix(g, "Entry", g.entries)
        /\ validate_tracked_identity_slots(g, "Group", ToSet(g.children))
        /\ TrackedIsPrefix(g, "Group", g.children)
        /\ validate_custom_data_model(g)

MetaValid(v) ==
    LET nodes == meta_nodes(v)
                 \o [i \in DOMAIN v.meta.blocks |-> CustomDataNode(v.meta.blocks[i].items)]
    IN  /\ RawMatches(v.meta)
        /\ validate_raw_node_slots(v.meta.raw.order, nodes)
        /\ validate_custom_data_model(v.meta)

EntryValid(id, e) ==
    /\ validate_entry_model(id, e, FALSE)
    /\ \A i \in DOMAIN e.history : validate_entry_model(id, e.history[i], TRUE)

validate_vault_model(v) ==
    /\ MetaValid(v)
    /\ \A g \in Groups(v) : validate_group_model(g, v.groups[g])
    /\ \A e \in Entries(v) : EntryValid(e, v.entries[e])

\* save_kdbx succeeds.
Saves(v) == validate_vault_model(v) /\ build_xml(v).ok

\* CanonicalEntryReference: what an entry holds, apart from how its document
\* is laid out.
canonical_entry(e) ==
    [text |-> e.text, prot |-> e.prot, opt |-> e.opt,
     attributes |-> materialize_entry_persistent_attributes(e),
     files |-> e.files, times |-> e.times, data |-> e.data,
     items |-> [k \in Keys(e.blocks) |-> [value |-> LastItem(e.blocks, k).value,
                                          time |-> LastItem(e.blocks, k).time]]]
==============================================================================
