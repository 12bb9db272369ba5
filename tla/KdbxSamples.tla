------------------------------ MODULE KdbxSamples ------------------------------
(***************************************************************************)
(* The files that KdbxImport starts from: a KDBX 4.0 one with every kind   *)
(* of element, small ones with what only KDBX 4.1 has, and a KDBX 3 one.   *)
(***************************************************************************)
EXTENDS KdbxDocument

E(name, kids) == Element(name, NoText, kids)
Attr(el, name, t) == [el EXCEPT !.attr = (name :> t) @@ @]
Field(key, text, protected) ==
    E("String", <<Leaf("Key", Word(key)),
                  IF protected THEN Attr(Leaf("Value", text), "Protected", Word("true")) ELSE Leaf("Value", text)>>)
Data(items) == E("CustomData", items)
It(key, time) == E("Item", <<Leaf("Key", Word(key)), Leaf("Value", Word("v"))>> \o time)
TimesNode(times) == E("Times", times)
Time(name, n) == Leaf(name, <<"raw", n + Offset>>)

SampleHistory == E("History", <<E("Entry", <<Leaf("UUID", Uuid("e")), Field("Password", Word("p0"), TRUE)>>)>>)

SampleEntry(binaries) ==
    E("Entry", <<Leaf("UUID", Uuid("e")), Leaf("IconID", Num(1)), Leaf("OverrideURL", Word("u")), Leaf("Tags", Word("t")),
                 Leaf("CustomIconUUID", Uuid("nil")),
                 TimesNode(<<Time("CreationTime", 1), Time("ExpiryTime", 2), Leaf("Expires", Word("true")),
                             Leaf("UsageCount", Num(3))>>),
                 Field("Title", Word("t"), FALSE), Field("Password", Word("p"), TRUE)>>
               \o binaries
               \o <<SampleHistory, Field("c", Word("c"), TRUE),
                    E("AutoType", <<Leaf("Enabled", Word("null")), Leaf("DataTransferObfuscation", Num(1)),
                                    E("Association", <<Leaf("Window", Word("w")), Leaf("KeystrokeSequence", Word("k"))>>)>>),
                    Data(<<It("k", <<>>)>>)>>)

Inline == E("Binary", <<Leaf("Key", Word("f")), Attr(Attr(Leaf("Value", <<"gzip", "d">>), "Protected", Word("true")),
                                                     "Compressed", Word("true"))>>)
Ref(n) == E("Binary", <<Leaf("Key", Word("g")), Attr(Leaf("Value", NoText), "Ref", Num(n))>>)

SampleGroup(kids) ==
    E("Group", <<Leaf("UUID", Uuid("r")), Leaf("Name", Word("n")), Leaf("IconID", Num(1)),
                 TimesNode(<<Leaf("CreationTime", <<"iso", 1>>), Leaf("LocationChanged", Num(2))>>),
                 Leaf("EnableSearching", Word("null")), Leaf("LastTopVisibleEntry", Uuid("e"))>>
               \o kids
               \o <<E("Group", <<Leaf("UUID", Uuid("g")), Leaf("Other", Word("x")),
                                 E("Entry", <<Leaf("UUID", Uuid("d")), Field("Password", Word("q"), TRUE)>>)>>)>>)

Tombstones == E("DeletedObjects", <<E("DeletedObject", <<Leaf("UUID", Uuid("x")), Time("DeletionTime", 1)>>)>>)
IconNodes(more) == E("CustomIcons", <<E("Icon", <<Leaf("UUID", Uuid("i")), Leaf("Data", <<"data", "d">>)>> \o more)>>)

MetaNodes ==
    <<Leaf("Generator", Word("o")), Leaf("SettingsChanged", Num(1)), Leaf("DatabaseName", Word("n")),
      Leaf("Color", NoText), Leaf("HistoryMaxItems", Num(-1)), Leaf("HistoryMaxSize", Num(6)),
      Leaf("RecycleBinEnabled", Word("true")), Leaf("RecycleBinUUID", Uuid("g")),
      E("MemoryProtection", <<Leaf("ProtectPassword", Word("true")), Leaf("AutoEnableVisualHiding", Word("false"))>>)>>

\* A KDBX 4.0 file, and one with what only KDBX 4.1 has.
Sample40 ==
    [version |-> 4, hash |-> NoText, pool |-> [n \in {0} |-> [content |-> <<"data", "b">>, protected |-> TRUE]],
     xml |-> E("KeePassFile", <<E("Meta", MetaNodes \o <<IconNodes(<<>>), Data(<<It("k", <<>>)>>)>>),
                                E("Root", <<SampleGroup(<<SampleEntry(<<Inline, Ref(0)>>)>>), Tombstones>>)>>)]

SmallRoot(entry, group) ==
    E("Root", <<E("Group", <<Leaf("UUID", Uuid("r"))>> \o group \o <<E("Entry", <<Leaf("UUID", Uuid("e"))>> \o entry)>>)>>)

Sample41 ==
    {[version |-> 4, hash |-> NoText, pool |-> <<>>,
      xml |-> E("KeePassFile", <<E("Meta", n[1]), SmallRoot(n[2], n[3])>>)] :
        n \in {<< <<IconNodes(<<Leaf("Name", Word("i")), Time("LastModificationTime", 1)>>)>>, <<>>, <<>> >>,
               << <<Data(<<It("k", <<Time("LastModificationTime", 1)>>)>>)>>, <<>>, <<>> >>,
               << <<>>, <<Leaf("QualityCheck", Word("true"))>>, <<>> >>,
               << <<>>, <<>>, <<Leaf("PreviousParentGroup", Uuid("g"))>> >>,
               << <<>>, <<E("History", <<E("Entry", <<Leaf("UUID", Uuid("e")),
                                                     Leaf("PreviousParentGroup", Uuid("g"))>>)>>)>>, <<>> >>}}

\* A KDBX 3 file: the hash of the header and the binaries in Meta.
Sample3 ==
    [version |-> 3, hash |-> <<"data", "h">>, pool |-> <<>>,
     xml |-> E("KeePassFile",
               <<E("Meta", <<Leaf("HeaderHash", <<"data", "h">>), Leaf("Other", Word("x")),
                             E("Binaries", <<Attr(Attr(Leaf("Binary", <<"data", "b">>), "ID", Num(0)), "Protected", Word("true")),
                                             Attr(Attr(Leaf("Binary", <<"gzip", "d">>), "ID", Num(1)), "Compressed", Word("true"))>>),
                             Leaf("SettingsChanged", <<"iso", 1>>), Leaf("SettingsChanged", <<"iso", 2>>)>>),
                 SmallRoot(<<Field("Title", Word("t"), TRUE), Ref(1), Data(<<It("k", <<>>)>>)>>, <<>>)>>)]

Samples == {Sample40, Sample3} \cup Sample41
\* None; integers at the ends of their types and of the times; words; ids.
NewTexts == {NoText, Num(1), Num(4), Num(9), Num(10), Num(16), Num(-7), Word("true"), Word("null"),
               Uuid("nil"), Uuid("e"), <<"raw", 15>>, <<"raw", -1>>}
================================================================================
