----------------------------- MODULE KdbxDocument -----------------------------
(***************************************************************************)
(* Whole files: the reader of KDBX 3 and KDBX 4 documents, the checks on   *)
(* what it read, and the writer.                                           *)
(***************************************************************************)
EXTENDS KdbxContents

Places(el, name) == SelectSeq([i \in DOMAIN el.kids |-> i], LAMBDA i : el.kids[i].name = name)

Garbled == Word("garbled")

\* ProtectedStream::apply on the reading side: nothing is taken for no bytes.
Decrypt(t, p) ==
    IF t = NoText THEN NoText ELSE IF IsKind(t, "enc") /\ t[3] = p THEN t[2] ELSE Garbled

\* gzip_decompress, when the attribute asks for it.
Inflate(el, t) == IF parse_bool_attribute(el, "Compressed") /\ IsKind(t, "gzip") THEN <<"data", t[2]>> ELSE t

ValueOf(el) == FirstNamed(el, "Value")
ByRef(value) == "Ref" \in DOMAIN value.attr

\* How many protected values the reader decrypts in an element, on its way
\* through the children in their order.
RECURSIVE Taken(_)
Taken(el) ==
    LET One(value) == IF parse_bool_attribute(value, "Protected") /\ value.text # NoText THEN 1 ELSE 0 IN
    CASE el.name = "String" -> One(ValueOf(el))
      [] el.name = "Binary" -> IF ByRef(ValueOf(el)) THEN 0 ELSE One(ValueOf(el))
      [] el.name \in {"History", "Entry", "Group"} -> FoldSeq(+, 0, [i \in DOMAIN el.kids |-> Taken(el.kids[i])])
      [] OTHER -> 0

TakenBefore(el, i) == FoldSeq(+, 0, [j \in 1 .. i - 1 |-> Taken(el.kids[j])])

parse_string_field(el, p) ==
    LET value == ValueOf(el)
        protected == parse_bool_attribute(value, "Protected")
    IN [key |-> child_text(el, "Key"), protected |-> protected,
        value |-> {IF protected THEN Decrypt(value.text, p) ELSE value.text}]

\* "Binary" in parse_entry: from the pool or in place.
parse_binary(el, pool, p) ==
    LET value == ValueOf(el)
        protected == parse_bool_attribute(value, "Protected")
        here == [protected |-> protected,
                 content |-> Inflate(value, IF protected THEN Decrypt(value.text, p) ELSE value.text)]
    IN [name |-> child_text(el, "Key"), file |-> IF ByRef(value) THEN pool[value.attr["Ref"][2]] ELSE here]

Blocks(el) ==
    LET found == KidsNamed(el, "CustomData") IN [i \in DOMAIN found |-> parse_custom_data_items(found[i])]

RECURSIVE parse_entry(_, _, _)
parse_entry(el, pool, p) ==
    LET scalars == ReadScalars(EntryKind, el)
        At(i) == p + TakenBefore(el, i)
        strings == Places(el, "String")
        files == Places(el, "Binary")
        History(i) == LET h == el.kids[i] IN
                      [j \in DOMAIN h.kids |-> parse_entry(h.kids[j], pool, At(i) + TakenBefore(h, j))]
    IN [id |-> ReadAs("uuid", el, "UUID"), scalars |-> scalars,
        times |-> parse_entry_times(IF Has(el, "Times") THEN FirstNamed(el, "Times") ELSE Leaf("Times", NoText)),
        strings |-> [i \in DOMAIN strings |-> parse_string_field(el.kids[strings[i]], At(strings[i]))],
        files |-> [i \in DOMAIN files |-> parse_binary(el.kids[files[i]], pool, At(files[i]))],
        auto_type |-> {parse_auto_type(a) : a \in child_optional(el, "AutoType")},
        has_history |-> Has(el, "History"),
        history |-> IF Has(el, "History") THEN History(Places(el, "History")[1]) ELSE <<>>,
        blocks |-> Blocks(el),
        slots |-> retarget_removed(Slots(el, entry_known_child_name),
                                   Collapsed(el, scalars, {"IconID"} \cup EntryUuids))]

RECURSIVE parse_group(_, _, _)
parse_group(el, pool, p) ==
    LET scalars == ReadScalars(GroupKind, el)
        At(i) == p + TakenBefore(el, i)
        entries == Places(el, "Entry")
        groups == Places(el, "Group")
    IN [id |-> ReadAs("uuid", el, "UUID"),
        scalars |-> [scalars EXCEPT !["Name"] = OrElse(@, Word("Group")), !["Notes"] = OrElse(@, NoText)],
        times |-> {parse_group_times(t) : t \in child_optional(el, "Times")},
        entries |-> [i \in DOMAIN entries |-> parse_entry(el.kids[entries[i]], pool, At(entries[i]))],
        groups |-> [i \in DOMAIN groups |-> parse_group(el.kids[groups[i]], pool, At(groups[i]))],
        blocks |-> Blocks(el),
        slots |-> retarget_removed(Slots(el, group_known_child_name), Collapsed(el, scalars, GroupUuids))]

\* The last of the times other programs wrote more than once.
latest_child_datetime(el, name) ==
    LET times == UNION {parse_datetime_i64(k.text) : k \in {el.kids[i] : i \in NamedAt(el, name)}} IN
    IF times = {} THEN {} ELSE {Max(times)}

parse_meta(meta, legacy) ==
    LET scalars == ReadScalars(MetaKind, meta)
        slots == collapse_duplicates(Slots(meta, meta_known_child_name), "SettingsChanged")
        gone == Collapsed(meta, scalars, MetaUuids \cup {"Generator"})
    IN [scalars |-> [scalars EXCEPT !["DatabaseName"] = OrElse(@, NoText)],
        settings_changed |-> latest_child_datetime(meta, "SettingsChanged"),
        memory_protection |-> {parse_memory_protection(k) : k \in child_optional(meta, "MemoryProtection")},
        has_custom_icons |-> Has(meta, "CustomIcons"),
        custom_icons |-> IF Has(meta, "CustomIcons")
                         THEN parse_custom_icons(FirstNamed(meta, "CustomIcons")) ELSE <<>>,
        blocks |-> Blocks(meta),
        slots |-> retarget_removed(slots, gone \cup IF legacy THEN MetaLegacy ELSE {})]

\* The pool of a KDBX 3 document: its protected binaries are the first to be
\* decrypted.
parse_kdbx3_binaries(meta) ==
    LET kids == IF Has(meta, "Binaries") THEN FirstNamed(meta, "Binaries").kids ELSE <<>>
        Protected(i) == parse_bool_attribute(kids[i], "Protected")
        At(i) == Cardinality({j \in 1 .. i - 1 : Protected(j) /\ kids[j].text # NoText})
        File(i) == [protected |-> Protected(i),
                    content |-> Inflate(kids[i], IF Protected(i) THEN Decrypt(kids[i].text, At(i)) ELSE kids[i].text)]
    IN [taken |-> At(Len(kids) + 1),
        pool |-> [n \in {kids[i].attr["ID"][2] : i \in DOMAIN kids} |->
                     File(CHOOSE i \in DOMAIN kids : kids[i].attr["ID"][2] = n)]]

MetaOf(doc) == FirstNamed(doc, "Meta")
RootOf(doc) == FirstNamed(doc, "Root")

PoolOf(file) == IF file.version = 3 THEN parse_kdbx3_binaries(MetaOf(file.xml)).pool ELSE file.pool

\* The vault that both readers make.
Projection(doc, legacy, pool, taken) ==
    LET root == RootOf(doc) IN
    [meta |-> parse_meta(MetaOf(doc), legacy),
     root |-> parse_group(FirstNamed(root, "Group"), pool, taken),
     has_deleted_objects |-> Has(root, "DeletedObjects"),
     deleted_objects |-> IF Has(root, "DeletedObjects")
                         THEN parse_deleted_objects(FirstNamed(root, "DeletedObjects")) ELSE <<>>,
     slots |-> Slots(root, {"Group", "DeletedObjects"})]

project_xml(file) == Projection(file.xml, FALSE, file.pool, 0)

parse_kdbx3_xml(file) ==
    Projection(file.xml, TRUE, PoolOf(file), parse_kdbx3_binaries(MetaOf(file.xml)).taken)

Projected(file) == IF file.version = 3 THEN parse_kdbx3_xml(file) ELSE project_xml(file)

(***************************************************************************)
(* What the reader refuses beside the shape.                               *)
(***************************************************************************)
RECURSIVE AllNamed(_, _)
AllNamed(el, name) ==
    (IF el.name = name THEN {el} ELSE {}) \cup UNION {AllNamed(el.kids[i], name) : i \in DOMAIN el.kids}

\* Base64, and gzip where the attribute says so.
ValidContent(el) ==
    LET inner == IF IsKind(el.text, "enc") THEN el.text[2] ELSE el.text IN
    IsBase64(el.text) /\ (parse_bool_attribute(el, "Compressed") => IsKind(inner, "gzip"))

ValidBinary(el, pool) ==
    LET value == ValueOf(el) IN
    IF ByRef(value)
    THEN /\ value.attr["Ref"][2] \in DOMAIN pool
         /\ ~parse_bool_attribute(value, "Protected") /\ ~parse_bool_attribute(value, "Compressed")
    ELSE ValidContent(value)

ValidString(el) == parse_bool_attribute(ValueOf(el), "Protected") => IsBase64(ValueOf(el).text)

ValidLegacy(file) ==
    LET meta == MetaOf(file.xml) IN
    /\ \A t \in child_text(meta, "HeaderHash") : t = file.hash
    /\ \A b \in ToSet(IF Has(meta, "Binaries") THEN FirstNamed(meta, "Binaries").kids ELSE <<>>) :
          ParseInt(b.attr["ID"], U64) # {} /\ ValidContent(b)

\* The errors of the parse functions.
Parsable(file) ==
    /\ file.version = 3 => ValidLegacy(file)
    /\ \A icon \in AllNamed(MetaOf(file.xml), "Icon") : child_text(icon, "Data") # {}
    /\ \A e \in AllNamed(RootOf(file.xml), "Entry") :
          /\ \A s \in {e.kids[i] : i \in NamedAt(e, "String")} : ValidString(s)
          /\ \A b \in {e.kids[i] : i \in NamedAt(e, "Binary")} : ValidBinary(b, PoolOf(file))

validate_kdbx4_timestamp(n) == n + Offset \in I64 /\ n + Offset >= 0
ValidTimes(values) == \A n \in values : validate_kdbx4_timestamp(n)
TimesValid(times) == \A n \in TimesFields \ {"Expires", "UsageCount"} : ValidTimes(times[n])
BlocksValid(blocks) == \A b \in ToSet(blocks) : \A i \in ToSet(b) : ValidTimes(i.last_modified)

(***************************************************************************)
(* The writer, and the model it insists on.                                *)
(***************************************************************************)
MetaEmitted(meta, version, n, nth) ==
    CASE n \in DOMAIN MetaKind -> WriteAs(MetaKind[n], n, meta.scalars[n])
      [] n = "SettingsChanged" -> WriteAs("time", n, meta.settings_changed)
      [] n = "MemoryProtection" -> SetToSeq({memory_protection_to_xml(m) : m \in meta.memory_protection})
      [] n = "CustomIcons" -> IF meta.custom_icons # <<>> \/ meta.has_custom_icons
                              THEN <<custom_icons_to_xml(meta.custom_icons, version)>> ELSE <<>>
      [] n = "CustomData" /\ nth \in DOMAIN meta.blocks -> <<custom_data_block_to_xml(meta.blocks[nth], version)>>
      [] OTHER -> <<>>

string_field_to_xml(f) ==
    Element("String", NoText,
            <<Leaf("Key", CHOOSE k \in f.key : TRUE),
              [Leaf("Value", CHOOSE v \in f.value : TRUE) EXCEPT
                  !.attr = IF f.protected THEN [a \in {"Protected"} |-> Word("true")] ELSE <<>>]>>)

binary_to_xml(f, refs) ==
    Element("Binary", NoText,
            <<Leaf("Key", CHOOSE k \in f.name : TRUE),
              [Leaf("Value", NoText) EXCEPT
                  !.attr = [a \in {"Ref"} |-> Num((CHOOSE i \in DOMAIN refs : refs[i] = f.file) - 1)]]>>)

\* Entry::new protects the password only.
DefaultField(key) == [key |-> {Word(key)}, value |-> {NoText}, protected |-> key = "Password"]

\* refs is the sequence of the binaries that will be in the inner header.
RECURSIVE EntryEmitted(_, _, _, _, _)
EntryEmitted(entry, refs, version, n, nth) ==
    LET Scalar == WriteAs(EntryKind[n], n, entry.scalars[n])
        Absent(e) == SelectSeq(<<"Title", "Password">>,
                               LAMBDA key : \A f \in ToSet(e.strings) : f.key # {Word(key)})
        Build(e) == LET Of(m, k) == EntryEmitted(e, refs, version, m, k) IN
                    Element("Entry", NoText,
                            Rebuild(e.slots, AtSlots(e.slots, Of))
                              \o [i \in DOMAIN Absent(e) |-> string_field_to_xml(DefaultField(Absent(e)[i]))]
                              \o AtNames(Unslotted(e.slots, <<"Times">>), Of))
    IN CASE n = "Entry" -> <<Build(entry)>>
         [] n = "UUID" -> WriteAs("uuid", n, entry.id)
         [] n \in {"PreviousParentGroup", "QualityCheck"} -> IF version = "V4_1" THEN Scalar ELSE <<>>
         [] n \in DOMAIN EntryKind -> Scalar
         [] n = "Times" -> <<times_to_xml(entry.times)>>
         [] n = "String" -> <<string_field_to_xml(entry.strings[nth])>>
         [] n = "Binary" -> <<binary_to_xml(entry.files[nth], refs)>>
         [] n = "AutoType" -> SetToSeq({auto_type_to_xml(a) : a \in entry.auto_type})
         [] n = "History" /\ entry.has_history ->
               <<Element("History", NoText,
                         [i \in DOMAIN entry.history |-> Build(entry.history[i])])>>
         [] n = "CustomData" /\ nth \in DOMAIN entry.blocks ->
               <<custom_data_block_to_xml(entry.blocks[nth], version)>>
         [] OTHER -> <<>>

entry_to_xml(entry, refs, version) == EntryEmitted(entry, refs, version, "Entry", 1)[1]

\* The children every group gets.
GroupAlways == <<"Name", "Notes", "IconID", "Times", "IsExpanded", "DefaultAutoTypeSequence",
                 "EnableAutoType", "EnableSearching">>

RECURSIVE GroupEmitted(_, _, _, _, _)
GroupEmitted(group, refs, version, n, nth) ==
    LET Scalar(value) == WriteAs(GroupKind[n], n, value)
        Nodes(g) == LET Of(m, k) == GroupEmitted(g, refs, version, m, k) IN
                    Rebuild(g.slots, AtSlots(g.slots, Of))
                      \o AtNames(Unslotted(g.slots, GroupAlways), Of)
    IN CASE n = "Group" -> <<Element("Group", NoText, Nodes(IF nth = 0 THEN group ELSE group.groups[nth]))>>
         [] n = "UUID" -> WriteAs("uuid", n, group.id)
         [] n = "IconID" -> Scalar(OrElse(group.scalars[n], 0))
         [] n = "IsExpanded" -> Scalar(OrElse(group.scalars[n], TRUE))
         [] n \in GroupNullable -> Scalar(OrElse(group.scalars[n], Word("null")))
         [] n = "DefaultAutoTypeSequence" -> Scalar(OrElse(group.scalars[n], NoText))
         [] n = "PreviousParentGroup" -> IF version = "V4_1" THEN Scalar(group.scalars[n]) ELSE <<>>
         [] n \in DOMAIN GroupKind -> Scalar(group.scalars[n])
         [] n = "Times" -> <<times_to_xml(CHOOSE t \in OrElse(group.times, default_group_times) : TRUE)>>
         [] n = "Entry" -> <<entry_to_xml(group.entries[nth], refs, version)>>
         [] n = "CustomData" /\ nth \in DOMAIN group.blocks ->
               <<custom_data_block_to_xml(group.blocks[nth], version)>>
         [] OTHER -> <<>>

group_to_xml(group, refs, version) == GroupEmitted(group, refs, version, "Group", 0)[1]

RECURSIVE EntriesOf(_), GroupsOf(_)
GroupsOf(group) == {group} \cup UNION {GroupsOf(g) : g \in ToSet(group.groups)}
EntriesOf(group) == UNION {ToSet(g.entries) : g \in GroupsOf(group)}
WithHistory(entries) == entries \cup UNION {ToSet(e.history) : e \in entries}

\* collect_attachment_refs: one binary for a content and a protection.
collect_attachment_refs(vault) ==
    SetToSeq({f.file : f \in UNION {ToSet(e.files) : e \in WithHistory(EntriesOf(vault.root))}})

\* How many values the writer encrypts in an element: it never writes a
\* binary in place.
RECURSIVE Encrypted(_)
Encrypted(el) ==
    IF el.name = "String"
    THEN IF parse_bool_attribute(ValueOf(el), "Protected") /\ ValueOf(el).text # NoText THEN 1 ELSE 0
    ELSE IF el.name \in {"History", "Entry", "Group"}
    THEN FoldSeq(+, 0, [i \in DOMAIN el.kids |-> Encrypted(el.kids[i])]) ELSE 0

protect_xml_string(el, p) ==
    IF Encrypted(el) = 0 THEN el
    ELSE [el EXCEPT !.kids = [i \in DOMAIN @ |->
             IF @[i].name = "Value" THEN [@[i] EXCEPT !.text = <<"enc", @, p>>] ELSE @[i]]]

\* protect_xml_group and protect_xml_entry.
RECURSIVE protect_xml(_, _)
protect_xml(el, p) ==
    IF el.name = "String" THEN protect_xml_string(el, p)
    ELSE IF el.name \in {"History", "Entry", "Group"}
    THEN [el EXCEPT !.kids = [i \in DOMAIN @ |->
             protect_xml(@[i], p + FoldSeq(+, 0, [j \in 1 .. i - 1 |-> Encrypted(el.kids[j])]))]]
    ELSE el

RootEmitted(vault, refs, version, n) ==
    IF n = "Group" THEN <<protect_xml(group_to_xml(vault.root, refs, version), 0)>>
    ELSE IF vault.has_deleted_objects \/ vault.deleted_objects # <<>>
    THEN <<deleted_objects_to_xml(vault.deleted_objects)>> ELSE <<>>

build_xml(vault, version) ==
    LET refs == collect_attachment_refs(vault)
        meta == vault.meta
        Meta(n, k) == MetaEmitted(meta, version, n, k)
        Root(n, k) == RootEmitted(vault, refs, version, n)
    IN [version |-> 4, hash |-> NoText, pool |-> [i \in 0 .. Len(refs) - 1 |-> refs[i + 1]],
        xml |-> Element("KeePassFile", NoText,
                    <<Element("Meta", NoText,
                              Rebuild(meta.slots, AtSlots(meta.slots, Meta))
                                \o AtNames(Unslotted(meta.slots, <<"DatabaseName">>), Meta)),
                      Element("Root", NoText, Rebuild(vault.slots, AtSlots(vault.slots, Root)))>>)]

validate_entry_model(entry, owner, snapshot) ==
    /\ snapshot => entry.id = owner /\ ~entry.has_history
    /\ entry.times["Expires"] = {TRUE} => entry.times["ExpiryTime"] # {}
    /\ TimesValid(entry.times) /\ BlocksValid(entry.blocks)
    /\ SlotsHold(entry.slots, AtSlots(entry.slots, LAMBDA n, k :
          IF n \in {"String", "Binary"} THEN 1 ELSE Len(EntryEmitted(entry, <<>>, "V4_1", n, k))))

validate_group_model(group) ==
    /\ BlocksValid(group.blocks)
    /\ \A t \in group.times : TimesValid(t)
    /\ SlotsHold(group.slots, AtSlots(group.slots, LAMBDA n, k :
          IF n \in {"Entry", "Group"} THEN 1 ELSE Len(GroupEmitted(group, <<>>, "V4_1", n, k))))
    /\ \A e \in ToSet(group.entries) :
          /\ validate_entry_model(e, e.id, FALSE)
          /\ \A h \in ToSet(e.history) : validate_entry_model(h, e.id, TRUE)

\* live_ids: groups and entries have one space of ids.
RECURSIVE LiveIds(_)
LiveIds(group) ==
    <<group.id>> \o [i \in DOMAIN group.entries |-> group.entries[i].id]
      \o FlattenSeq([i \in DOMAIN group.groups |-> LiveIds(group.groups[i])])

\* What a slot must find: the version plays no part here.
meta_emitted_node_counts(meta) ==
    AtSlots(meta.slots, LAMBDA n, k : Len(MetaEmitted(meta, "V4_1", n, k)))

validate_vault_model(vault) ==
    LET meta == vault.meta
        icons == meta.custom_icons
    IN /\ SlotsHold(meta.slots, meta_emitted_node_counts(meta))
       /\ BlocksValid(meta.blocks) /\ ValidTimes(meta.settings_changed)
       /\ \A n \in MetaTimes \ {"SettingsChanged"} : ValidTimes(meta.scalars[n])
       /\ \A i \in DOMAIN icons : /\ \A j \in 1 .. i - 1 : icons[j].id # icons[i].id
                                  /\ ValidTimes(icons[i].last_modified)
       /\ IsInjective(LiveIds(vault.root))
       /\ \A g \in GroupsOf(vault.root) : validate_group_model(g)
       /\ ValidTimes({vault.deleted_objects[id] : id \in DOMAIN vault.deleted_objects})

Readable(file) ==
    validate_xml_model_shape(file.xml) /\ Parsable(file) /\ validate_vault_model(Projected(file))

ItemTimes(blocks) == \E b \in ToSet(blocks) : \E i \in ToSet(b) : i.last_modified # {}

entry_requires_41(entry) ==
    entry.scalars["QualityCheck"] # {} \/ entry.scalars["PreviousParentGroup"] # {} \/ ItemTimes(entry.blocks)

group_requires_41(root) ==
    \/ \E g \in GroupsOf(root) : g.scalars["Tags"] # {} \/ g.scalars["PreviousParentGroup"] # {} \/ ItemTimes(g.blocks)
    \/ \E e \in WithHistory(EntriesOf(root)) : entry_requires_41(e)

\* Mutant: the times of icons are forgotten.
required_version_icon_names(vault) ==
    IF \/ ItemTimes(vault.meta.blocks) \/ group_requires_41(vault.root)
       \/ \E i \in ToSet(vault.meta.custom_icons) : i.name # {}
    THEN "V4_1" ELSE "V4_0"

required_version(vault) ==
    IF \/ ItemTimes(vault.meta.blocks) \/ group_requires_41(vault.root)
       \/ \E i \in ToSet(vault.meta.custom_icons) : i.name # {} \/ i.last_modified # {}
    THEN "V4_1" ELSE "V4_0"

\* prepare_save.
Savable(vault, version) ==
    validate_vault_model(vault) /\ (required_version(vault) = "V4_1" => version = "V4_1")
===============================================================================
