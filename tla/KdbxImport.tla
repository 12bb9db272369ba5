------------------------------ MODULE KdbxImport ------------------------------
(***************************************************************************)
(* Files of other programs: a document with one change somewhere is read,  *)
(* saved for KDBX 4.0 or 4.1 and read again.                               *)
(***************************************************************************)
EXTENDS KdbxDocument

CONSTANTS Samples,       \* files with protected values still in the clear
          NewTexts       \* the texts a change puts in

VARIABLES file,          \* what the other program wrote
          stage,         \* "idle", "file", "open", "refused", "saved", "reread"
          opened,        \* what was read, an optional vault
          saved          \* what was written, an optional [version, file]

(***************************************************************************)
(* The other program.                                                      *)
(***************************************************************************)
IsProtected(el) == parse_bool_attribute(el, "Protected") /\ el.text # NoText

RECURSIVE ProtectedIn(_)
ProtectedIn(el) ==
    (IF IsProtected(el) THEN 1 ELSE 0) + FoldSeq(+, 0, [i \in DOMAIN el.kids |-> ProtectedIn(el.kids[i])])

\* It encrypts the protected values in the order of the document.
RECURSIVE Ciphered(_, _)
Ciphered(el, p) ==
    [el EXCEPT !.text = IF IsProtected(el) THEN <<"enc", @, p>> ELSE @,
               !.kids = [i \in DOMAIN @ |->
                   Ciphered(@[i], p + FoldSeq(+, IF IsProtected(el) THEN 1 ELSE 0,
                                              [j \in 1 .. i - 1 |-> ProtectedIn(el.kids[j])]))]]

\* And decrypts them so.
RECURSIVE Deciphered(_, _)
Deciphered(el, p) ==
    [el EXCEPT !.text = IF IsProtected(el) THEN Decrypt(@, p) ELSE @,
               !.kids = [i \in DOMAIN @ |->
                   Deciphered(@[i], p + FoldSeq(+, IF IsProtected(el) THEN 1 ELSE 0,
                                                [j \in 1 .. i - 1 |-> ProtectedIn(el.kids[j])]))]]

Without(s, i) == SubSeq(s, 1, i - 1) \o SubSeq(s, i + 1, Len(s))

\* An element after one change in it or below it; Meta is always before Root.
RECURSIVE Changed(_)
Changed(el) ==
    {[el EXCEPT !.text = t] : t \in IF el.kids = <<>> /\ el.text # NoText THEN NewTexts ELSE {}}
      \cup {[el EXCEPT !.kids = Without(@, i)] : i \in DOMAIN el.kids}
      \cup {[el EXCEPT !.kids = SubSeq(@, 1, i) \o SubSeq(@, i, Len(@))] : i \in DOMAIN el.kids}
      \cup {[el EXCEPT !.kids = Append(Without(@, i), @[i])] :
               i \in IF el.name = "KeePassFile" THEN {} ELSE DOMAIN el.kids}
      \cup {[el EXCEPT !.kids = Append(@, Leaf("Other", Word("x")))]}
      \cup UNION {{[el EXCEPT !.kids[i] = k] : k \in Changed(el.kids[i])} : i \in DOMAIN el.kids}

(***************************************************************************)
(* What a document says, by the places of the elements in it.              *)
(***************************************************************************)
AllKnown ==
    meta_known_child_name \cup group_known_child_name \cup entry_known_child_name \cup TimesFields
      \cup AutoTypeFields \cup ProtectionFields
      \cup {"KeePassFile", "Meta", "Root", "DeletedObjects", "DeletedObject", "DeletionTime", "Icon",
            "Data", "Item", "Key", "Value", "Association", "Window", "KeystrokeSequence"}

TimeNames == MetaTimes \cup TimesFields \cup {"DeletionTime"}
BoolNames == MetaBools \cup Protections \cup {"Expires", "IsExpanded", "Enabled"} \cup GroupNullable
UuidNames == MetaUuids \cup GroupUuids \cup EntryUuids \cup {"UUID"}

\* What a text means in an element of this name; nothing for none.
Meaning(name, t) ==
    CASE t = NoText \/ name \in MetaLegacy -> {}
      [] name \in UuidNames -> {<<"uuid", u>> : u \in UuidOf(t)}
      [] name \in BoolNames -> {<<"bool", b>> : b \in parse_nullable_bool(t)}
      [] name = "UsageCount" -> {t}
      [] name \in TimeNames -> {<<"time", n>> : n \in parse_datetime_value(t) \cup parse_datetime_i64(t)}
      [] OTHER -> {t}

\* Which of its siblings an element is.
Identity(el, i) ==
    LET kid == el.kids[i]
        own == CASE kid.name \in {"Group", "Entry", "Icon", "DeletedObject"} /\ el.name # "History" -> child_text(kid, "UUID")
                 [] kid.name \in {"String", "Binary", "Item"} -> child_text(kid, "Key")
                 [] kid.name \in {"Association", "Entry"} ->
                       {Num(Cardinality({j \in 1 .. i : el.kids[j].name = kid.name}))}
                 [] OTHER -> {NoText}
    IN {<<kid.name, id>> : id \in own}

\* The file behind the Value of a Binary.
FileMeaning(value, pool) ==
    LET f == IF ByRef(value) THEN pool[value.attr["Ref"][2]]
             ELSE [protected |-> parse_bool_attribute(value, "Protected"), content |-> Inflate(value, value.text)]
    IN {<<"file", f>>}

RECURSIVE Facts(_, _, _)
Facts(el, path, pool) ==
    IF el.name \notin AllKnown THEN {<<path, <<"opaque", el>>>>}
    ELSE IF el.name = "Binary" THEN {<<path, m>> : m \in FileMeaning(ValueOf(el), pool)}
    ELSE {<<path, m>> : m \in Meaning(el.name, el.text)}
           \cup (IF IsProtected(el) THEN {<<path, <<"protected">>>>} ELSE {})
           \cup UNION {UNION {Facts(el.kids[i], Append(path, id), pool) : id \in Identity(el, i)} :
                          i \in {j \in DOMAIN el.kids : el.kids[j].name # "Binaries"}}

\* Of the times of a tombstone and of SettingsChanged only the last counts.
Superseded(facts) ==
    {f \in facts : /\ f[2][1] = "time"
                   /\ Last(f[1])[1] \in {"DeletionTime", "SettingsChanged"}
                   /\ \E g \in facts : g[1] = f[1] /\ g[2][1] = "time" /\ g[2][2] > f[2][2]}

Says(f) ==
    LET facts == Facts(Deciphered(f.xml, 0), <<>>, IF f.version = 3 THEN PoolOf(f) ELSE f.pool) IN
    facts \ Superseded(facts)

(***************************************************************************)
(* Read, save, read again.                                                 *)
(***************************************************************************)
Init ==
    /\ file \in {[s EXCEPT !.xml = Ciphered(x, 0)] : <<s, x>> \in UNION {{<<s, x>> : x \in Changed(s.xml)} : s \in Samples}}
    /\ stage = "file" /\ opened = {} /\ saved = {}

Idle == file = (CHOOSE s \in Samples : TRUE) /\ stage = "idle" /\ opened = {} /\ saved = {}

\* load_kdbx, after decryption.
Load ==
    /\ stage = "file"
    /\ IF Readable(file) THEN stage' = "open" /\ opened' = {Projected(file)}
       ELSE stage' = "refused" /\ UNCHANGED opened
    /\ UNCHANGED <<file, saved>>

\* save_kdbx, before encryption; a refusal leaves everything as it was.
Save(version) ==
    /\ stage = "open"
    /\ \E vault \in opened :
          /\ Savable(vault, version)
          /\ saved' = {[version |-> version, file |-> build_xml(vault, version)]}
    /\ stage' = "saved"
    /\ UNCHANGED <<file, opened>>

Reload ==
    /\ stage = "saved"
    /\ stage' = "reread"
    /\ opened' = {Projected(s.file) : s \in {x \in saved : Readable(x.file)}}
    /\ UNCHANGED <<file, saved>>

Next == Load \/ (\E version \in {"V4_0", "V4_1"} : Save(version)) \/ Reload

(***************************************************************************)
(* Properties.                                                             *)
(***************************************************************************)
\* A file that is taken is taken whole: everything it says that this program
\* or another could read is in the file that is saved, whichever of the two
\* versions it is saved for; that file is readable, and what was read from it
\* is saved as the very same document.
AcceptedIsKept ==
    \A s \in saved :
        /\ stage = "saved" => Says(file) \subseteq Says(s.file)
        /\ stage = "reread" => /\ opened # {}
                               /\ \A vault \in opened : build_xml(vault, s.version) = s.file
================================================================================
