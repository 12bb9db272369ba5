------------------------------ MODULE KdbxSchema ------------------------------
(***************************************************************************)
(* What the KDBX reader takes for a well-formed document: the lexers of    *)
(* its texts and the validate_*_shape functions of vaultkern-kdbx.         *)
(*                                                                         *)
(* An element is [name, attr, text, kids].  A text is <<>> (none) or       *)
(* <<kind, value>>: "num" an integer in decimal, "iso" an RFC 3339 date,   *)
(* "raw" the base64 of eight bytes, "uuid" that of sixteen, "data" that of *)
(* others, "enc" that of a protected value, "word" anything else.  Integer *)
(* types have their order and their relation to KDBX4_TIME_OFFSET, scaled  *)
(* down.  A lexer gives the set of values a text stands for, empty when it *)
(* refuses it.                                                             *)
(***************************************************************************)
EXTENDS Integers, FiniteSets, TLC, SequencesExt

I32 == -4 .. 3
U32 == 0 .. 7
I64 == -16 .. 15
U64 == 0 .. 31
Offset == 6

NoText == <<>>
Num(n) == <<"num", n>>
Word(w) == <<"word", w>>
Uuid(u) == <<"uuid", u>>

IsKind(t, k) == t # NoText /\ t[1] = k

Element(name, text, kids) == [name |-> name, attr |-> <<>>, text |-> text, kids |-> kids]
Leaf(name, text) == Element(name, text, <<>>)

(***************************************************************************)
(* Lexers.                                                                 *)
(***************************************************************************)
ParseInt(t, ints) == IF IsKind(t, "num") /\ t[2] \in ints THEN {t[2]} ELSE {}

parse_bool_text_strict(t) ==
    IF t \in {Word("true"), Num(1)} THEN {TRUE}
    ELSE IF t \in {Word("false"), Num(0)} THEN {FALSE} ELSE {}

parse_bool_text(t) == {parse_bool_text_strict(t) = {TRUE}}

\* The set of the options it may stand for; an option is a set.
parse_nullable_bool_strict(t) ==
    IF t \in {NoText, Word("null")} THEN {{}} ELSE {{b} : b \in parse_bool_text_strict(t)}

parse_datetime_i64(t) ==
    IF IsKind(t, "raw") THEN {t[2] - Offset} \cap I64
    ELSE IF IsKind(t, "iso") THEN {t[2]} ELSE ParseInt(t, I64)

\* Unsigned times (created_at and the like are u64).
parse_datetime_value(t) ==
    IF ParseInt(t, U64) # {} THEN ParseInt(t, U64) ELSE parse_datetime_i64(t) \cap U64

\* datetime_text for KDBX 4: decimal where eight bytes cannot hold it.
datetime_text(n) ==
    IF n \in I64 /\ n + Offset \in I64 THEN <<"raw", n + Offset>> ELSE Num(n)

bool_text(b) == Word(IF b THEN "true" ELSE "false")

decode_uuid(t) == IF IsKind(t, "uuid") THEN {t[2]} ELSE {}

LiveUuid(t) == decode_uuid(t) # {} /\ t # Uuid("nil")

\* The set of options, like parse_nullable_bool_strict.
parse_optional_uuid(t) ==
    IF t \in {NoText, Uuid("nil")} THEN {{}} ELSE {{u} : u \in decode_uuid(t)}

IsBase64(t) == t = NoText \/ t[1] \in {"raw", "uuid", "data", "gzip", "enc"}

(***************************************************************************)
(* Children.                                                               *)
(***************************************************************************)
NamedAt(el, name) == {i \in DOMAIN el.kids : el.kids[i].name = name}
KidsNamed(el, name) == SelectSeq(el.kids, LAMBDA k : k.name = name)
Has(el, name) == NamedAt(el, name) # {}

\* child_optional, child_text and child_text_preserve_empty: the first child
\* of that name; sets again.
child_optional(el, name) ==
    {el.kids[i] : i \in {j \in NamedAt(el, name) : \A l \in NamedAt(el, name) : j <= l}}
FirstNamed(el, name) == CHOOSE k \in child_optional(el, name) : TRUE
child_text_preserve_empty(el, name) == {k.text : k \in child_optional(el, name)}
child_text(el, name) == child_text_preserve_empty(el, name) \ {NoText}

validate_only_element_children(el, allowed) == \A k \in ToSet(el.kids) : k.name \in allowed

validate_child_multiplicity(el, singletons, required) ==
    /\ \A n \in singletons : Cardinality(NamedAt(el, n)) <= 1
    /\ \A n \in required : Cardinality(NamedAt(el, n)) = 1

validate_only_singletons(el, allowed, required) ==
    /\ validate_only_element_children(el, allowed)
    /\ validate_child_multiplicity(el, allowed, required)

validate_scalar_element(el) == el.kids = <<>>

validate_known_scalar_children(el, known, containers) ==
    \A k \in ToSet(el.kids) : k.name \in known \ containers => validate_scalar_element(k)

validate_bool_attribute_if_present(el, name) ==
    name \in DOMAIN el.attr => parse_bool_text_strict(el.attr[name]) # {}

\* What most of the shapes ask of a record: these children, each at most once
\* and without children of their own, and the required ones.
Record(el, fields, required) ==
    /\ validate_only_singletons(el, fields, required)
    /\ validate_known_scalar_children(el, fields, {})

\* The value predicates.
IsTime(t) == parse_datetime_i64(t) # {}
IsUnsignedTime(t) == parse_datetime_value(t) # {}
IsBool(t) == parse_bool_text_strict(t) # {}
IsNullableBool(t) == parse_nullable_bool_strict(t) # {}
IsOptionalUuid(t) == parse_optional_uuid(t) # {}
IsValue(kind, t) ==
    CASE kind = "blank" -> t = NoText
      [] kind = "time" -> IsTime(t)
      [] kind = "unsigned time" -> IsUnsignedTime(t)
      [] kind = "bool" -> IsBool(t)
      [] kind = "nullable bool" -> IsNullableBool(t)
      [] kind = "uuid" -> LiveUuid(t)
      [] kind = "optional uuid" -> IsOptionalUuid(t)
      [] kind = "base64" -> IsBase64(t)
      [] kind = "i32" -> ParseInt(t, I32) # {}
      [] kind = "i64" -> ParseInt(t, I64) # {}
      [] kind = "u32" -> ParseInt(t, U32) # {}
      [] kind = "u64" -> ParseInt(t, U64) # {}

\* The children of these names have a value of one of these kinds.
validate_typed_children(el, names, kinds) ==
    \A k \in ToSet(el.kids) : k.name \in names =>
        validate_scalar_element(k) /\ \E kind \in kinds : IsValue(kind, k.text)

(***************************************************************************)
(* Known names.                                                            *)
(***************************************************************************)
MetaTimes == {"SettingsChanged", "DatabaseNameChanged", "DatabaseDescriptionChanged",
              "DefaultUserNameChanged", "RecycleBinChanged", "EntryTemplatesGroupChanged",
              "MasterKeyChanged"}
MetaBools == {"RecycleBinEnabled", "MasterKeyChangeForceOnce"}
MetaI32 == {"MaintenanceHistoryDays", "HistoryMaxItems"}
MetaI64 == {"MasterKeyChangeRec", "MasterKeyChangeForce", "HistoryMaxSize"}
MetaUuids == {"RecycleBinUUID", "EntryTemplatesGroup", "LastSelectedGroup", "LastTopVisibleGroup"}
MetaTexts == {"Generator", "DatabaseName", "DatabaseDescription", "DefaultUserName", "Color"}
MetaLegacy == {"HeaderHash", "Binaries"}
MetaContainers == {"MemoryProtection", "CustomIcons", "Binaries"}

\* Every known scalar and container of Meta but SettingsChanged, which other
\* programs write twice, and CustomData.
MetaSingletons ==
    (MetaTimes \ {"SettingsChanged"}) \cup MetaBools \cup MetaI32 \cup MetaI64 \cup MetaUuids
      \cup MetaTexts \cup MetaLegacy \cup MetaContainers

meta_known_child_name == MetaSingletons \cup {"SettingsChanged", "CustomData"}

Protections == {"ProtectTitle", "ProtectUserName", "ProtectPassword", "ProtectURL",
                "ProtectNotes"}
ProtectionFields == Protections \cup {"AutoEnableVisualHiding"}

GroupUuids == {"CustomIconUUID", "LastTopVisibleEntry", "PreviousParentGroup"}
GroupNullable == {"EnableAutoType", "EnableSearching"}
GroupSingletons == {"UUID", "Name", "Notes", "IconID", "Tags", "Times", "IsExpanded",
                    "DefaultAutoTypeSequence"} \cup GroupUuids \cup GroupNullable
group_known_child_name == GroupSingletons \cup {"CustomData", "Entry", "Group"}

EntryUuids == {"CustomIconUUID", "PreviousParentGroup"}
EntryTexts == {"ForegroundColor", "BackgroundColor", "OverrideURL"}
EntrySingletons == {"UUID", "IconID", "Tags", "QualityCheck", "Times", "AutoType", "History"}
                     \cup EntryUuids \cup EntryTexts
entry_known_child_name == EntrySingletons \cup {"String", "Binary", "CustomData"}

TimesFields == {"CreationTime", "LastModificationTime", "LastAccessTime", "ExpiryTime", "Expires",
                "UsageCount", "LocationChanged"}
AutoTypeFields == {"Enabled", "DataTransferObfuscation", "DefaultSequence"}

(***************************************************************************)
(* Shapes.                                                                 *)
(***************************************************************************)
validate_custom_data_shape(el) ==
    /\ validate_only_element_children(el, {"Item"})
    /\ \A item \in ToSet(el.kids) :
          /\ Record(item, {"Key", "Value", "LastModificationTime"}, {"Key"})
          /\ validate_typed_children(item, {"LastModificationTime"}, {"time"})

validate_custom_icons_shape(el) ==
    /\ validate_only_element_children(el, {"Icon"})
    /\ \A icon \in ToSet(el.kids) :
          /\ Record(icon, {"UUID", "Data", "Name", "LastModificationTime"}, {"UUID", "Data"})
          /\ validate_typed_children(icon, {"UUID"}, {"uuid"})
          /\ validate_typed_children(icon, {"Data"}, {"base64"})
          /\ validate_typed_children(icon, {"LastModificationTime"}, {"time"})

validate_legacy_binaries_shape(el) ==
    /\ validate_only_element_children(el, {"Binary"})
    /\ \A i \in DOMAIN el.kids :
          /\ validate_scalar_element(el.kids[i])
          /\ "ID" \in DOMAIN el.kids[i].attr
          /\ \A j \in 1 .. i - 1 : el.kids[j].attr["ID"] # el.kids[i].attr["ID"]

validate_deleted_objects_shape(el) ==
    /\ validate_only_element_children(el, {"DeletedObject"})
    /\ \A object \in ToSet(el.kids) :
          /\ Record(object, {"UUID", "DeletionTime"}, {"UUID", "DeletionTime"})
          /\ validate_typed_children(object, {"UUID"}, {"uuid"})
          /\ validate_typed_children(object, {"DeletionTime"}, {"time"})

validate_times_shape(el) ==
    /\ Record(el, TimesFields, {})
    /\ validate_typed_children(el, {"CreationTime", "LastModificationTime"}, {"unsigned time"})
    /\ validate_typed_children(el, {"LastAccessTime", "LocationChanged"},
                               {"blank", "unsigned time"})
    /\ validate_typed_children(el, {"ExpiryTime"}, {"blank", "time"})
    /\ validate_typed_children(el, {"Expires"}, {"bool"})
    /\ validate_typed_children(el, {"UsageCount"}, {"blank", "u64"})

validate_auto_type_shape(el) ==
    /\ validate_child_multiplicity(el, AutoTypeFields, {})
    /\ validate_known_scalar_children(el, AutoTypeFields, {})
    /\ \A k \in ToSet(el.kids) :
          /\ k.name \in AutoTypeFields \cup {"Association"}
          /\ k.name = "Association" => Record(k, {"Window", "KeystrokeSequence"}, {})
    /\ validate_typed_children(el, {"Enabled"}, {"nullable bool"})
    /\ validate_typed_children(el, {"DataTransferObfuscation"},
                               {"blank", "i32"})

\* first_duplicate_child only words the error of the multiplicity.
validate_meta_shape(meta) ==
    /\ validate_child_multiplicity(meta, MetaSingletons, {})
    /\ validate_known_scalar_children(meta, MetaSingletons, MetaContainers)
    /\ \A k \in ToSet(meta.kids) :
          CASE k.name = "MemoryProtection" ->
                  Record(k, ProtectionFields, {}) /\ validate_typed_children(k, ProtectionFields, {"bool"})
            [] k.name = "CustomIcons" -> validate_custom_icons_shape(k)
            [] k.name = "Binaries" -> validate_legacy_binaries_shape(k)
            [] k.name = "CustomData" -> validate_custom_data_shape(k)
            [] OTHER -> TRUE
    /\ validate_typed_children(meta, MetaTimes, {"time"})
    /\ validate_typed_children(meta, MetaBools, {"bool"})
    /\ validate_typed_children(meta, MetaI32, {"i32"})
    /\ validate_typed_children(meta, MetaI64, {"i64"})
    /\ validate_typed_children(meta, MetaUuids, {"optional uuid"})

\* The String and Binary children: a key each, no key twice.
ValidKeyed(entry, name) ==
    LET kids == KidsNamed(entry, name) IN
    \A i \in DOMAIN kids :
        /\ Record(kids[i], {"Key", "Value"}, {"Key", "Value"})
        /\ child_text(kids[i], "Key") # {}
        /\ \A j \in 1 .. i - 1 : child_text(kids[j], "Key") # child_text(kids[i], "Key")
        /\ \A v \in child_optional(kids[i], "Value") :
              /\ validate_bool_attribute_if_present(v, "Protected")
              /\ name = "Binary" => /\ validate_bool_attribute_if_present(v, "Compressed")
                                    /\ "Ref" \in DOMAIN v.attr => ParseInt(v.attr["Ref"], U64) # {}

RECURSIVE validate_entry_shape(_)
validate_entry_shape(entry) ==
    /\ validate_child_multiplicity(entry, EntrySingletons, {"UUID"})
    /\ validate_known_scalar_children(entry, EntrySingletons, {"Times", "AutoType", "History"})
    /\ ValidKeyed(entry, "String") /\ ValidKeyed(entry, "Binary")
    /\ \A k \in ToSet(entry.kids) :
          CASE k.name = "Times" -> validate_times_shape(k)
            [] k.name = "AutoType" -> validate_auto_type_shape(k)
            [] k.name = "CustomData" -> validate_custom_data_shape(k)
            [] k.name = "History" -> /\ validate_only_element_children(k, {"Entry"})
                                     /\ \A h \in ToSet(k.kids) : validate_entry_shape(h)
            [] OTHER -> TRUE
    /\ validate_typed_children(entry, {"UUID"}, {"uuid"})
    /\ validate_typed_children(entry, {"IconID"}, {"blank", "u32"})
    /\ validate_typed_children(entry, EntryUuids, {"optional uuid"})
    /\ validate_typed_children(entry, {"QualityCheck"}, {"bool"})

RECURSIVE validate_group_shape(_)
validate_group_shape(group) ==
    /\ validate_child_multiplicity(group, GroupSingletons, {"UUID"})
    /\ validate_known_scalar_children(group, GroupSingletons, {"Times"})
    /\ \A k \in ToSet(group.kids) :
          CASE k.name = "Times" -> validate_times_shape(k)
            [] k.name = "CustomData" -> validate_custom_data_shape(k)
            [] k.name = "Entry" -> validate_entry_shape(k)
            [] k.name = "Group" -> validate_group_shape(k)
            [] OTHER -> TRUE
    /\ validate_typed_children(group, {"UUID"}, {"uuid"})
    /\ validate_typed_children(group, {"IconID"}, {"u32"})
    /\ validate_typed_children(group, GroupUuids, {"optional uuid"})
    /\ validate_typed_children(group, {"IsExpanded"}, {"bool"})
    /\ validate_typed_children(group, GroupNullable, {"nullable bool"})

validate_root_shape(root) ==
    /\ validate_child_multiplicity(root, {"Group", "DeletedObjects"}, {"Group"})
    /\ \A g \in child_optional(root, "Group") : validate_group_shape(g)
    /\ \A d \in child_optional(root, "DeletedObjects") : validate_deleted_objects_shape(d)

validate_xml_model_shape(doc) ==
    /\ doc.name = "KeePassFile"
    /\ validate_only_element_children(doc, {"Meta", "Root"})
    /\ validate_child_multiplicity(doc, {"Meta", "Root"}, {"Meta", "Root"})
    /\ \A m \in child_optional(doc, "Meta") : validate_meta_shape(m)
    /\ \A r \in child_optional(doc, "Root") : validate_root_shape(r)
================================================================================
