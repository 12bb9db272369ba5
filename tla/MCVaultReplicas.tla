---------------------------- MODULE MCVaultReplicas ----------------------------
EXTENDS VaultReplicas

N(kind, id) == [kind |-> kind, id |-> id, items |-> <<>>]
Item(k, v) == [key |-> k, value |-> v, time |-> 1]
CD(items) == [kind |-> CustomData, id |-> CustomData, items |-> items]

Str(v, p) == [value |-> v, protected |-> p]
Plain == [created |-> 1, modified |-> 1, accessed |-> 1, located |-> 1,
          expires |-> FALSE, expiry |-> 1]

MCNameOrder == <<"Display", "KPEX_PASSKEY_PRIVATE_KEY_PEM", "KPEX_PASSKEY_USERNAME", "Password",
                 "TimeOtp-Secret-Base32", "Title", "c1", "c2", "changed", "f1", "f2", "k1", "k2",
                 "now", "otp">>

\* An entry with an unknown node between its known ones, a custom field, an
\* attachment, two CustomData blocks and a history.
RichEntry ==
    [nodes |-> <<N("UUID", "e1"), N(Opaque, "o1"), N("Tags", ""), CD(<<Item("k1", "a")>>), N("Times", "Times"),
                 N("String", "Title"), N("String", "c1"), N(Opaque, "o2"), N("String", "Password"),
                 N("Binary", "f1"), N(Opaque, "o3"), N("AutoType", "default"), CD(<<Item("k1", "b"), Item("Display", "d")>>),
                 N("History", "History"), N(Opaque, "o4")>>,
     strings |-> [k \in {"Title", "Password", "c1"} |-> Str("old", k # "Title")],
     files |-> [n \in {"f1"} |-> [content |-> "c0", protected |-> TRUE]],
     times |-> Plain,
     history |-> << [nodes |-> <<N("UUID", "e1"), N("Times", "Times"), N("String", "Title"),
                                 N("String", "Password"), N("AutoType", "default")>>,
                     strings |-> [k \in {"Title", "Password"} |-> Str("older", k # "Title")],
                     files |-> Empty, times |-> [Plain EXCEPT !.modified = 0], history |-> <<>>] >>]

\* An entry with credentials, as other programs write it.
CredentialEntry ==
    [nodes |-> <<N("UUID", "e2"), N("QualityCheck", "True"), N("Times", "Times"), N("String", "KPEX_PASSKEY_USERNAME"),
                 N("String", "Title"), N("String", "otp"), N(Opaque, "o5"), N("String", "KPEX_PASSKEY_PRIVATE_KEY_PEM"),
                 N("String", "Password"), N("CustomIconUUID", "i1"), N("AutoType", "default")>>,
     strings |-> [k \in {"Title", "Password", "otp", "KPEX_PASSKEY_USERNAME", "KPEX_PASSKEY_PRIVATE_KEY_PEM"} |->
                     Str("old", k # "Title")],
     files |-> Empty, times |-> Plain, history |-> <<>>]

GroupDoc(nodes) == [nodes |-> nodes, times |-> Plain]

\* Two entries in the root, one group in another.
PairDocument ==
    [root |-> "R",
     meta |-> <<N("Generator", "VaultKern"), N("DatabaseName", "name"), N("Color", ""),
                CD(<<Item("k1", "a")>>), N(Opaque, "o6"), N("RecycleBinEnabled", "True"), N("HistoryMaxItems", "2"), N(Opaque, "o7")>>,
     icons |-> [i \in {"i1"} |-> [data |-> "d0", time |-> 1]],
     deleted |-> Empty, public |-> Empty,
     groups |-> [R |-> GroupDoc(<<N("UUID", "R"), N("Name", "root"), N("Notes", ""), N("Times", "Times"),
                                  N(Opaque, "o8"), N("EnableSearching", "null"), N("Entry", "e1"), N(Opaque, "o9"),
                                  N("Entry", "e2"), N("Group", "G")>>),
                 G |-> GroupDoc(<<N("UUID", "G"), N("Name", "g"), N("Notes", ""), CD(<<Item("k1", "a")>>),
                                  N("Times", "Times"), N("EnableSearching", "False"), N("Group", "H"), N(Opaque, "o10")>>),
                 H |-> GroupDoc(<<N("UUID", "H"), N("Name", "h"), N("Notes", ""), N("Times", "Times"),
                                  N("EnableSearching", "null")>>)],
     entries |-> [e1 |-> RichEntry, e2 |-> CredentialEntry]]

\* The rich entry, and a group in another.
RichDocument ==
    [PairDocument EXCEPT
        !.groups["R"].nodes = SelectSeq(@, LAMBDA n : n.id # "e2"),
        !.entries = [e1 |-> RichEntry]]

\* The entry with credentials in a recycle bin.
BinDocument ==
    [PairDocument EXCEPT
        !.meta = @ \o <<N("RecycleBinUUID", "H"), N("RecycleBinChanged", "changed")>>,
        !.groups["R"].nodes = SelectSeq(@, LAMBDA n : n.kind # "Entry"),
        !.groups["H"].nodes = Append(@, N("Entry", "e2")),
        !.entries = [e2 |-> [CredentialEntry EXCEPT !.nodes = Append(@, N("PreviousParentGroup", "G"))]],
        !.deleted = [e \in {"e2"} |-> 1]]

\* An entry with credentials, and a history limit that discards every snapshot.
NoHistoryDocument ==
    [PairDocument EXCEPT
        !.meta = <<N("Generator", "VaultKern"), N("HistoryMaxItems", "0")>>,
        !.groups = [R |-> GroupDoc(<<N("UUID", "R"), N("Name", "root"), N("Notes", ""), N("Times", "Times"),
                                     N("EnableSearching", "null"), N("Entry", "e2")>>)],
        !.entries = [e2 |-> CredentialEntry]]

\* Groups only, two side by side.
HierarchyDocument ==
    [NoHistoryDocument EXCEPT
        !.groups = [g \in {"R", "A", "G"} |->
            GroupDoc(<<N("UUID", g), N("Name", "g"), N("Notes", ""), N("Times", "Times"), N("EnableSearching", "null")>>
                     \o IF g = "R" THEN <<N("Group", "G"), N("Group", "A")>> ELSE <<>>)],
        !.entries = Empty]

Start(doc, l, r) == [doc |-> doc, edits |-> [x \in {"local", "remote"} |-> IF x = "local" THEN l ELSE r]]
MCStarts == {Start(RichDocument, 1, 1), Start(BinDocument, 2, 0), Start(NoHistoryDocument, 1, 1),
             Start(HierarchyDocument, 1, 1), Start(HierarchyDocument, 0, 0)}
MCNewIds == [r \in {"local", "remote"} |-> IF r = "local" THEN {"nl"} ELSE {"nr"}]

(***************************************************************************)
(* Beside the replicas, files of other programs are imported.  One of the  *)
(* two happens in a behaviour: they share nothing.                         *)
(***************************************************************************)
VARIABLES file, stage, opened, saved

importVars == <<file, stage, opened, saved>>

Example == INSTANCE KdbxSamples
Import == INSTANCE KdbxImport WITH Samples <- Example!Samples, NewTexts <- Example!NewTexts

MCInit == Init /\ IF \A r \in Replicas : left[r] = 0 THEN Import!Init ELSE Import!Idle

MCNext ==
    \/ stage = "idle" /\ Next /\ UNCHANGED importVars
    \/ Import!Next /\ UNCHANGED vars

MCSpec == MCInit /\ [][MCNext]_<<vars, importVars>>

\* A file of another program that is taken is taken whole: everything it says is
\* in the file saved for either version, that file is readable, and what is read
\* from it is saved as the very same document.
AcceptedIsKept == Import!AcceptedIsKept
==============================================================================
