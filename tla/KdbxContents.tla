----------------------------- MODULE KdbxContents -----------------------------
(***************************************************************************)
(* What the KDBX reader keeps of the texts of a document it takes, and     *)
(* what the writer makes of it: project_xml, parse_kdbx3_xml and build_xml *)
(* field by field, for every known element.  XmlScope and Vault model the  *)
(* places of the nodes and what edits do to them; here a scope remembers   *)
(* the slots of its children, and nodes the writer adds come last.  The    *)
(* materialized attributes of one-time passwords and passkeys and the      *)
(* KnownBad item are in Vault.                                             *)
(*                                                                         *)
(* An optional value is a set of at most one element.  A file is [version, *)
(* hash, xml, pool]: pool holds the binaries of the inner header of a      *)
(* KDBX 4 file, hash is the hash of the outer header.  The key stream of   *)
(* protected values is the number of values taken from it: a ciphertext    *)
(* <<"enc", text, n>> is the n-th one's.                                   *)
(***************************************************************************)
EXTENDS KdbxSchema

StdFields == {"Title", "Password"}

\* parse_optional_uuid and parse_nullable_bool, flattened.
UuidOf(t) == UNION parse_optional_uuid(t)
parse_nullable_bool(t) == UNION parse_nullable_bool_strict(t)
parse_bool_attribute(el, name) == name \in DOMAIN el.attr /\ parse_bool_text_strict(el.attr[name]) = {TRUE}

(***************************************************************************)
(* Scalars by kind: read from the child of that name, written as a child.  *)
(***************************************************************************)
ReadAs(kind, el, name) ==
    LET texts == child_text(el, name) IN
    CASE kind = "time" -> UNION {parse_datetime_i64(t) : t \in texts}
      [] kind = "utime" -> UNION {parse_datetime_value(t) : t \in texts}
      [] kind = "bool" -> UNION {parse_bool_text(t) : t \in texts}
      [] kind = "nullable" -> UNION {parse_nullable_bool(t) : t \in texts}
      [] kind = "uuid" -> UNION {UuidOf(t) : t \in texts}
      [] kind = "i32" -> UNION {ParseInt(t, I32) : t \in texts}
      [] kind = "u32" -> UNION {ParseInt(t, U32) : t \in texts}
      [] kind = "i64" -> UNION {ParseInt(t, I64) : t \in texts}
      [] kind = "u64" -> UNION {ParseInt(t, U64) : t \in texts}
      [] kind = "text" -> texts
      [] kind = "raw" -> child_text_preserve_empty(el, name)

TextAs(kind, v) ==
    CASE kind \in {"time", "utime"} -> datetime_text(v)
      [] kind \in {"bool", "nullable"} -> bool_text(v)
      [] kind = "uuid" -> Uuid(v)
      [] kind \in {"i32", "u32", "i64", "u64"} -> Num(v)
      [] OTHER -> v

\* text_element for an optional value: one element or none.
WriteAs(kind, name, value) ==
    IF value = {} THEN <<>> ELSE <<Leaf(name, TextAs(kind, CHOOSE v \in value : TRUE))>>

OrElse(value, default) == IF value = {} THEN {default} ELSE value

Kinds(names, kind) == [n \in names |-> kind]

MetaKind ==
    Kinds(MetaTimes \ {"SettingsChanged"}, "time") @@ Kinds(MetaBools, "bool") @@ Kinds(MetaI32, "i32")
      @@ Kinds(MetaI64, "i64") @@ Kinds(MetaUuids, "uuid") @@ Kinds({"Generator", "DatabaseName"}, "text")
      @@ Kinds({"DatabaseDescription", "DefaultUserName", "Color"}, "raw")

GroupKind ==
    Kinds({"Name", "Notes", "Tags"}, "text") @@ Kinds({"IconID"}, "u32") @@ Kinds(GroupUuids, "uuid")
      @@ Kinds({"IsExpanded"}, "nullable") @@ Kinds(GroupNullable \cup {"DefaultAutoTypeSequence"}, "raw")

EntryKind ==
    Kinds({"IconID"}, "u32") @@ Kinds(EntryUuids, "uuid")
      @@ Kinds(EntryTexts \cup {"Tags", "QualityCheck"}, "raw")

TimesKind ==
    Kinds({"CreationTime", "LastModificationTime", "LastAccessTime", "LocationChanged"}, "utime")
      @@ Kinds({"ExpiryTime"}, "time") @@ Kinds({"Expires"}, "bool") @@ Kinds({"UsageCount"}, "u64")

AutoTypeKind ==
    Kinds({"Enabled"}, "nullable") @@ Kinds({"DataTransferObfuscation"}, "i32")
      @@ Kinds({"DefaultSequence"}, "raw")

ReadScalars(kinds, el) == [n \in DOMAIN kinds |-> ReadAs(kinds[n], el, n)]

(***************************************************************************)
(* Times, auto-type, custom data, memory protection, icons, tombstones.    *)
(***************************************************************************)
TimesOrder == <<"LastModificationTime", "CreationTime", "LastAccessTime", "ExpiryTime", "Expires",
                "UsageCount", "LocationChanged">>

parse_group_times(el) ==
    LET read == ReadScalars(TimesKind, el) IN
    [n \in TimesFields |->
        CASE n \in {"CreationTime", "LastModificationTime"} -> OrElse(read[n], 0)
          [] n = "Expires" -> OrElse(read[n], FALSE)
          [] OTHER -> read[n]]

default_group_times == parse_group_times(Leaf("Times", NoText))

\* Times in parse_entry: an entry always has a LocationChanged.
parse_entry_times(el) == [parse_group_times(el) EXCEPT !["LocationChanged"] = OrElse(@, 0)]

\* group_times_to_xml and entry_times_to_xml write the same children.
times_to_xml(times) ==
    Element("Times", NoText,
            FlattenSeq([i \in DOMAIN TimesOrder |->
                           WriteAs(TimesKind[TimesOrder[i]], TimesOrder[i], times[TimesOrder[i]])]))

parse_auto_type(el) ==
    LET windows == KidsNamed(el, "Association")
        Part(i, n) == OrElse(child_text(windows[i], n), NoText)
    IN [scalars |-> ReadScalars(AutoTypeKind, el),
        associations |-> [i \in DOMAIN windows |->
            [n \in {"Window", "KeystrokeSequence"} |-> Part(i, n)]]]

auto_type_to_xml(auto) ==
    LET Scalar(n) == WriteAs(AutoTypeKind[n], n, auto.scalars[n])
        Association(a) == Element("Association", NoText,
                                  WriteAs("raw", "Window", a["Window"])
                                    \o WriteAs("raw", "KeystrokeSequence", a["KeystrokeSequence"]))
    IN Element("AutoType", NoText,
               Scalar("Enabled") \o Scalar("DataTransferObfuscation") \o Scalar("DefaultSequence")
                 \o [i \in DOMAIN auto.associations |-> Association(auto.associations[i])])

\* An item without a key is passed over.
parse_custom_data_items(el) ==
    LET items == SelectSeq(KidsNamed(el, "Item"), LAMBDA k : child_text(k, "Key") # {}) IN
    [i \in DOMAIN items |-> [key |-> child_text(items[i], "Key"),
                             value |-> OrElse(child_text(items[i], "Value"), NoText),
                             last_modified |-> ReadAs("time", items[i], "LastModificationTime")]]

custom_data_block_to_xml(items, version) ==
    LET Item(item) == Element("Item", NoText,
                              WriteAs("text", "Key", item.key) \o WriteAs("raw", "Value", item.value)
                                \o IF version = "V4_1"
                                   THEN WriteAs("time", "LastModificationTime", item.last_modified)
                                   ELSE <<>>)
    IN Element("CustomData", NoText, [i \in DOMAIN items |-> Item(items[i])])

parse_memory_protection(el) ==
    [protect |-> [n \in Protections |-> OrElse(ReadAs("bool", el, n), FALSE)],
     auto_enable_visual_hiding_raw |-> ReadAs("raw", el, "AutoEnableVisualHiding")]

memory_protection_to_xml(memory) ==
    Element("MemoryProtection", NoText,
            FlattenSeq([i \in 1 .. 5 |->
                LET n == <<"ProtectTitle", "ProtectUserName", "ProtectPassword", "ProtectURL",
                           "ProtectNotes">>[i]
                IN WriteAs("bool", n, memory.protect[n])])
              \o WriteAs("raw", "AutoEnableVisualHiding", memory.auto_enable_visual_hiding_raw))

parse_custom_icons(el) ==
    [i \in DOMAIN el.kids |-> [id |-> ReadAs("uuid", el.kids[i], "UUID"),
                               data |-> child_text(el.kids[i], "Data"),
                               name |-> child_text(el.kids[i], "Name"),
                               last_modified |-> ReadAs("time", el.kids[i], "LastModificationTime")]]

custom_icons_to_xml(icons, version) ==
    LET Only41(nodes) == IF version = "V4_1" THEN nodes ELSE <<>>
        Icon(icon) == Element("Icon", NoText,
                              WriteAs("uuid", "UUID", icon.id)
                                \o Only41(WriteAs("text", "Name", icon.name)
                                            \o WriteAs("time", "LastModificationTime", icon.last_modified))
                                \o WriteAs("text", "Data", icon.data))
    IN Element("CustomIcons", NoText, [i \in DOMAIN icons |-> Icon(icons[i])])

\* The latest time for an id.
parse_deleted_objects(el) ==
    LET Ids(k) == ReadAs("uuid", k, "UUID") IN
    [id \in UNION {Ids(k) : k \in ToSet(el.kids)} |->
        Max(UNION {ReadAs("time", k, "DeletionTime") : k \in {d \in ToSet(el.kids) : id \in Ids(d)}})]

\* The code sorts by id; any fixed order will do.
deleted_objects_to_xml(deleted) ==
    LET ids == SetToSeq(DOMAIN deleted) IN
    Element("DeletedObjects", NoText,
            [i \in DOMAIN ids |-> Element("DeletedObject", NoText,
                                          <<Leaf("UUID", Uuid(ids[i])),
                                            Leaf("DeletionTime", datetime_text(deleted[ids[i]]))>>)])

(***************************************************************************)
(* Slots: the known children of a scope and the unknown ones between them. *)
(***************************************************************************)
Slots(el, known) ==
    [i \in DOMAIN el.kids |->
        IF el.kids[i].name \in known
        THEN [name |-> el.kids[i].name, xml |-> {},
              nth |-> Cardinality({j \in 1 .. i : el.kids[j].name = el.kids[i].name})]
        ELSE [name |-> "", nth |-> 0, xml |-> {el.kids[i]}]]

\* collapse_duplicate_node_occurrences.
collapse_duplicates(slots, name) == SelectSeq(slots, LAMBDA s : ~(s.name = name /\ s.nth > 1))

\* retarget_removed_scope_nodes: the slot goes, what was anchored to it stays.
retarget_removed(slots, names) == SelectSeq(slots, LAMBDA s : s.name \notin names)

\* The optional children that are there and stand for nothing.
Collapsed(el, scalars, names) == {n \in names : Has(el, n) /\ scalars[n] = {}}

\* What an emission, of a name and an occurrence, gives for every slot, and
\* for every one of these names.
AtSlots(slots, Of(_, _)) == [i \in DOMAIN slots |-> Of(slots[i].name, slots[i].nth)]
AtNames(names, Of(_, _)) == FlattenSeq([i \in DOMAIN names |-> Of(names[i], 1)])

\* validate_raw_node_slots: each slot of a known node finds the one node it
\* is for.  counts[i] is the number of nodes emitted for the i-th slot.
SlotsHold(slots, counts) == \A i \in DOMAIN slots : slots[i].xml = {} => counts[i] = 1

\* reorder_known_xml_nodes and append_opaque_xml.  nodes[i] are the nodes
\* emitted for the i-th slot.
Rebuild(slots, nodes) ==
    FlattenSeq([i \in DOMAIN slots |->
        IF slots[i].xml # {} THEN <<CHOOSE x \in slots[i].xml : TRUE>> ELSE nodes[i]])

\* The names, of those given, that have no slot.  Where among the others the
\* writer puts their nodes is layout: here they follow them.
Unslotted(slots, names) == SelectSeq(names, LAMBDA n : \A s \in ToSet(slots) : s.name # n)
================================================================================
