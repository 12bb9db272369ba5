------------------------------ MODULE XmlScope ------------------------------
(***************************************************************************)
(* One element of a KDBX document (Meta, a Group, an Entry) as the reader  *)
(* and the writer of vaultkern-kdbx and the mutations of vaultkern-core    *)
(* see it: its known child nodes, the unknown ones that must survive a     *)
(* save, and its CustomData blocks.                                        *)
(*                                                                         *)
(* A document is a sequence of nodes [kind, id, items].  A parsed scope s  *)
(* has s.raw.order (the names of the known nodes, in the order they were   *)
(* read), s.raw.tracked (for each repeated kind, the identities that own   *)
(* its slots in that order), s.opaque and s.blocks (each anchored after    *)
(* the known node it was read behind) and s.data, the map the blocks       *)
(* stand for.  An anchor is <<name, occurrence>>.                          *)
(***************************************************************************)
EXTENDS Naturals, FiniteSets, SequencesExt

NoAnchor == <<>>
Opaque == "opaque"
CustomData == "CustomData"

\* Occurrences of name among the first i names of order.
Occurrences(order, name, i) == Cardinality({j \in 1 .. i : order[j] = name})

\* Where the n-th node called name is; 0 when there is none.
xml_anchor_index(order, a) ==
    LET at == {i \in DOMAIN order : order[i] = a[1] /\ Occurrences(order, a[1], i) = a[2]}
    IN  IF at = {} THEN 0 ELSE CHOOSE i \in at : TRUE

AnchorAt(order, i) ==
    IF i = 0 THEN NoAnchor ELSE <<order[i], Occurrences(order, order[i], i)>>

\* The anchor of the node before the one a names.
predecessor_anchor(order, a) ==
    LET i == xml_anchor_index(order, a) IN AnchorAt(order, IF i = 0 THEN 0 ELSE i - 1)

\* s with every anchor a of a block or an opaque fragment replaced by Map(a).
Reanchored(s, Map(_)) ==
    [s EXCEPT
        !.blocks = [i \in DOMAIN @ |-> [@[i] EXCEPT !.after = Map(@)]],
        !.opaque = [i \in DOMAIN @ |-> [@[i] EXCEPT !.after = Map(@)]]]

\* A set of positions up to n in order, and the elements of s at them.
Ascending(n, at) == SelectSeq([i \in 1 .. n |-> i], LAMBDA i : i \in at)

Retained(s, at) ==
    LET kept == Ascending(Len(s), at) IN [i \in DOMAIN kept |-> s[kept[i]]]

\* Where x is in s, 0 when it is not there.
PlaceOf(s, x) == IF Contains(s, x) THEN CHOOSE i \in DOMAIN s : s[i] = x ELSE 0

(***************************************************************************)
(* Custom data: blocks of items, and the map in which the last item of a   *)
(* key wins.                                                               *)
(***************************************************************************)
Items(blocks) == FlattenSeq([i \in DOMAIN blocks |-> blocks[i].items])

Keys(blocks) == {it.key : it \in ToSet(Items(blocks))}

LastItem(blocks, k) == Last(SelectSeq(Items(blocks), LAMBDA it : it.key = k))

merge_custom_data_blocks(blocks) ==
    [k \in Keys(blocks) |-> LastItem(blocks, k).value]

\* No item of the same key comes after the j-th one of block i.
IsLastOfKey(blocks, i, j) ==
    \A b \in i .. Len(blocks) : \A n \in DOMAIN blocks[b].items :
        b > i \/ n > j => blocks[b].items[n].key # blocks[i].items[j].key

\* The n-th CustomData node stands, after its block went, for what that block
\* was anchored at.
retarget_custom_data_anchor(a, replacement) ==
    IF a # NoAnchor /\ a[1] = CustomData /\ a[2] \in DOMAIN replacement
    THEN replacement[a[2]] ELSE a

\* Mutant: the unknown nodes behind a block that goes are lost with it.
retarget_fragments_lost(opaque, replacement) ==
    SelectSeq(opaque, LAMBDA f : \/ f.after = NoAnchor \/ f.after[1] # CustomData
                                 \/ retarget_custom_data_anchor(f.after, replacement)[1] = CustomData)

retarget_fragments(opaque, replacement) ==
    [i \in DOMAIN opaque |->
        [opaque[i] EXCEPT !.after = retarget_custom_data_anchor(@, replacement)]]

\* Items of keys that left the map go; a block that this empties goes too, and
\* what was anchored at it moves to its own anchor.
StandIns(s, stay) ==
    LET at[i \in DOMAIN s.blocks] ==
            LET a == s.blocks[i].after IN
            IF stay[i] THEN <<CustomData, Cardinality({j \in 1 .. i : stay[j]})>>
            ELSE IF a # NoAnchor /\ a[1] = CustomData /\ a[2] < i THEN at[a[2]] ELSE a
    IN  at

KeepBlocks(s, items, stay, standIn) ==
    [s EXCEPT
        !.blocks = Retained([i \in DOMAIN @ |->
            [items |-> items[i],
             after |-> retarget_custom_data_anchor(@[i].after, SubSeq(standIn, 1, i - 1))]],
            {i \in DOMAIN @ : stay[i]}),
        !.opaque = retarget_fragments(@, standIn),
        !.raw.order = Retained(@, {i \in DOMAIN @ :
            \/ @[i] # CustomData
            \/ Occurrences(@, CustomData, i) \notin DOMAIN stay
            \/ stay[Occurrences(@, CustomData, i)]})]

DropUnder(s, items, stay) == KeepBlocks(s, items, stay, StandIns(s, stay))

DropInto(s, items) ==
    DropUnder(s, items, [i \in DOMAIN items |-> s.blocks[i].items = <<>> \/ items[i] # <<>>])

DropItems(s, merged) ==
    DropInto(s, [i \in DOMAIN s.blocks |->
                    SelectSeq(s.blocks[i].items, LAMBDA it : it.key \in DOMAIN merged)])

\* New items go to the last block, or to one of their own.
AppendItems(blocks, new) ==
    IF new = <<>> THEN blocks
    ELSE IF blocks = <<>> THEN <<[items |-> new, after |-> NoAnchor]>>
    ELSE [blocks EXCEPT ![Len(blocks)].items = @ \o new]

\* Every key has its value in its last item.
PutItems(s, merged, touched, sorted) ==
    LET time(k, old) == IF touched # <<>> /\ touched[1] = k THEN touched[2] ELSE old
        put(it) == [it EXCEPT !.value = merged[it.key], !.time = time(it.key, @)]
        new == SelectSeq(sorted, LAMBDA k : k \in DOMAIN merged \ Keys(s.blocks))
    IN  [s EXCEPT
            !.data = merged,
            !.blocks = AppendItems(
                [i \in DOMAIN @ |-> [@[i] EXCEPT !.items = [j \in DOMAIN @ |->
                    IF IsLastOfKey(s.blocks, i, j) THEN put(@[j]) ELSE @[j]]]],
                [i \in DOMAIN new |-> [key |-> new[i], value |-> merged[new[i]], time |-> time(new[i], 0)]])]

\* reconcile_custom_data_blocks: the blocks follow the map merged.  touched is
\* the key being written with its new timestamp, <<>> when none is.
reconcile_custom_data_blocks(s, merged, touched, sorted) ==
    PutItems(DropItems(s, merged), merged, touched, sorted)

(***************************************************************************)
(* Removing known nodes.                                                   *)
(***************************************************************************)

\* retarget_keyed_known_nodes: the nodes of the repeated kind `name` were the
\* identities old and are now new; renamed maps an identity to its new name.
\* A kept node's anchors follow it to its new occurrence, those of a removed
\* node go to its predecessor, and its slot leaves the recorded order.
retarget_keyed_known_nodes(s, name, tracked, old, new, renamed) ==
    LET order == s.raw.order
        now(id) == IF id \in DOMAIN renamed THEN renamed[id] ELSE id
        kept == SelectSeq(tracked, LAMBDA id : Contains(new, now(id)))
        slots == [i \in DOMAIN kept |-> now(kept[i])]
        effective == slots \o SelectSeq(new, LAMBDA id : ~Contains(slots, id))
        repl[i \in DOMAIN old] ==
            LET at == xml_anchor_index(order, <<name, i>>)
                prev == AnchorAt(order, at - 1)
            IN  IF Contains(effective, now(old[i])) THEN <<name, PlaceOf(effective, now(old[i]))>>
                ELSE IF at = 0 THEN (IF i > 1 THEN repl[i - 1] ELSE NoAnchor)
                ELSE IF at = 1 THEN NoAnchor
                ELSE IF prev[1] = name THEN repl[prev[2]] ELSE prev
        map(a) == IF a # NoAnchor /\ a[1] = name /\ a[2] \in DOMAIN old THEN repl[a[2]] ELSE a
        nth(i) == Occurrences(order, name, i)
        keep == {i \in DOMAIN order : \/ order[i] # name
                                       \/ nth(i) \notin DOMAIN tracked
                                       \/ Contains(new, now(tracked[nth(i)]))}
    IN  [Reanchored(s, map) EXCEPT
            !.raw.order = Retained(@, keep),
            !.raw.tracked = [k \in DOMAIN @ |-> IF k = name THEN slots ELSE @[k]]]

\* Mutant: the slot of a node that is no longer written stays.
keep_removed_known_node(s, name) == s

\* retarget_removed_known_node: an optional node is no longer written.
retarget_removed_known_node(s, name) ==
    retarget_keyed_known_nodes(s, name,
        [i \in 1 .. Occurrences(s.raw.order, name, Len(s.raw.order)) |-> name],
        <<name>>, <<>>, [x \in {} |-> x])

\* Only these positions of the recorded order are left: anchors at nodes of
\* these names move to the last node kept up to there.
KeepNodes(s, names, keep) ==
    LET upTo(i) == AnchorAt(Retained(s.raw.order, keep), Cardinality({j \in keep : j <= i}))
        map(a) == IF a = NoAnchor \/ a[1] \notin names THEN a
                  ELSE upTo(xml_anchor_index(s.raw.order, a))
    IN  [Reanchored(s, map) EXCEPT !.raw.order = Retained(@, keep)]

\* retain_tracked_slots: after a patch, slots whose identity is no longer
\* there (or is there twice) go.
retain_tracked_slots(s, name, current) ==
    LET order == s.raw.order
        tracked == s.raw.tracked[name]
        stay == {n \in DOMAIN tracked : /\ tracked[n] \in current
                                        /\ \A m \in 1 .. n - 1 : tracked[m] # tracked[n]}
        keep == {i \in DOMAIN order : order[i] # name \/ Occurrences(order, name, i) \in stay}
    IN  [KeepNodes(s, {name}, keep) EXCEPT !.raw.tracked[name] = Retained(tracked, stay)]

\* retarget_removed_entry_known_nodes (the History node of a snapshot) and
\* retarget_removed_scope_nodes (nodes whose value reads as absent).
RemoveNodes(s, names) ==
    KeepNodes(s, names, {i \in DOMAIN s.raw.order : s.raw.order[i] \notin names})

(***************************************************************************)
(* Reading.                                                                *)
(***************************************************************************)
KnownBefore(doc, i) == Cardinality({j \in 1 .. i - 1 : doc[j].kind # Opaque})

IdsOf(doc, name) ==
    LET nodes == SelectSeq(doc, LAMBDA n : n.kind = name)
    IN  [i \in DOMAIN nodes |-> nodes[i].id]

\* collect_*_known_node_order
collect_known_node_order(doc) ==
    LET known == SelectSeq(doc, LAMBDA n : n.kind # Opaque)
    IN  [i \in DOMAIN known |-> known[i].kind]

\* parse_custom_data_blocks_with_known_children, and the walk of parse_group,
\* parse_entry and collect_meta_opaque_xml over the children.
parse_scope(doc, repeated) ==
    LET order == collect_known_node_order(doc)
        at(name) == Ascending(Len(doc), {i \in DOMAIN doc : doc[i].kind = name})
        after(i) == AnchorAt(order, KnownBefore(doc, i))
        cd == at(CustomData)
        op == at(Opaque)
        blocks == [i \in DOMAIN cd |-> [items |-> doc[cd[i]].items, after |-> after(cd[i])]]
    IN  [raw |-> [order |-> order, tracked |-> [k \in repeated |-> IdsOf(doc, k)]],
         blocks |-> blocks,
         data |-> merge_custom_data_blocks(blocks),
         opaque |-> [i \in DOMAIN op |-> [frag |-> doc[op[i]].id, after |-> after(op[i])]]]

(***************************************************************************)
(* Writing.  A result is [ok, doc].                                        *)
(***************************************************************************)
Names(doc) == [i \in DOMAIN doc |-> doc[i].kind]

CustomDataNode(items) == [kind |-> CustomData, id |-> CustomData, items |-> items]

\* append_custom_data_blocks: every block right behind its anchor, in order.
append_custom_data_blocks(doc, s) ==
    LET put(acc, b, at) ==
            IF acc.ok /\ (b.after = NoAnchor \/ at # 0) /\ at >= acc.min
            THEN [ok |-> TRUE, doc |-> InsertAt(acc.doc, at + 1, CustomDataNode(b.items)), min |-> at + 1]
            ELSE [acc EXCEPT !.ok = FALSE]
        behind(acc, b) ==
            put(acc, b, IF b.after = NoAnchor THEN 0 ELSE xml_anchor_index(Names(acc.doc), b.after))
        with[n \in 0 .. Len(s.blocks)] ==
            IF n = 0 THEN [ok |-> TRUE, doc |-> doc, min |-> 0] ELSE behind(with[n - 1], s.blocks[n])
    IN  IF s.blocks = <<>>
        THEN [ok |-> s.data = [k \in {} |-> k], doc |-> doc, min |-> 0]
        ELSE IF merge_custom_data_blocks(s.blocks) # s.data
             THEN [ok |-> FALSE, doc |-> doc, min |-> 0]
             ELSE with[Len(s.blocks)]

\* The nodes that the recorded order has, in that order.
SlotNodes(names, order) ==
    SelectSeq([i \in DOMAIN order |-> xml_anchor_index(names, AnchorAt(order, i))], LAMBDA c : c # 0)

\* Where a node c goes that the order does not have, by how many of the placed
\* ones are before it: behind the last one of its name, else behind what
\* precedes it in the writer's own order, else before what follows.
Gap(names, placed, c) ==
    LET same == {i \in DOMAIN placed : names[placed[i]] = names[c]}
        before == {d \in ToSet(placed) : d < c}
        behind == {d \in ToSet(placed) : d > c}
    IN  IF same # {} THEN Max(same)
        ELSE IF before # {} THEN PlaceOf(placed, Max(before))
        ELSE IF behind # {} THEN PlaceOf(placed, Min(behind)) - 1 ELSE 0

\* The nodes left over of one name move together, led by the first of them.
Leads(names, left) == [c \in left |-> Min({d \in left : names[d] = names[c]})]

InGaps(doc, placed, lead, gap) ==
    LET fill(g) == SortSeq(Ascending(Len(doc), {c \in DOMAIN lead : gap[lead[c]] = g}),
                           LAMBDA c, d : lead[c] < lead[d] \/ (lead[c] = lead[d] /\ c < d))
        indices == fill(0) \o FlattenSeq([g \in DOMAIN placed |-> <<placed[g]>> \o fill(g)])
    IN  [i \in DOMAIN indices |-> doc[indices[i]]]

PlaceRest(doc, names, placed, left) ==
    InGaps(doc, placed, Leads(names, left), [c \in left |-> Gap(names, placed, c)])

FillOrder(doc, placed) == PlaceRest(doc, Names(doc), placed, DOMAIN doc \ ToSet(placed))

\* reorder_known_xml_nodes: the nodes take the recorded order, those it does
\* not mention go to their gaps.
reorder_known_xml_nodes(doc, order) ==
    IF order = <<>> THEN doc ELSE FillOrder(doc, SlotNodes(Names(doc), order))

\* validate_custom_data_block_positions: each block is behind what it says.
validate_custom_data_block_positions(doc, blocks) ==
    LET names == Names(doc)
        at == Ascending(Len(doc), {i \in DOMAIN doc : names[i] = CustomData})
    IN  \/ blocks = <<>>
        \/ /\ Len(at) = Len(blocks)
           /\ \A i \in DOMAIN at : blocks[i].after = AnchorAt(names, at[i] - 1)

\* append_opaque_xml: every fragment right behind its anchor.
append_opaque_xml(doc, opaque) ==
    LET names == Names(doc)
        behind(a) == LET fs == SelectSeq(opaque, LAMBDA f : f.after = a) IN
                     [i \in DOMAIN fs |-> [kind |-> Opaque, id |-> fs[i].frag, items |-> <<>>]]
    IN  [ok |-> \A f \in ToSet(opaque) : f.after = NoAnchor \/ xml_anchor_index(names, f.after) # 0,
         doc |-> behind(NoAnchor) \o
                 FlattenSeq([i \in DOMAIN doc |-> <<doc[i]>> \o behind(AnchorAt(names, i))])]

\* The tail of build_xml, group_to_xml and entry_to_xml: canonical is what the
\* writer emits by itself.
WithOpaque(s, ok, ordered) ==
    LET all == append_opaque_xml(ordered, s.opaque)
    IN  [ok |-> ok /\ validate_custom_data_block_positions(ordered, s.blocks) /\ all.ok, doc |-> all.doc]

WithBlocks(s, cd) == WithOpaque(s, cd.ok, reorder_known_xml_nodes(cd.doc, s.raw.order))

write_scope(canonical, s) == WithBlocks(s, append_custom_data_blocks(canonical, s))

\* validate_raw_node_slots: no recorded slot without a node to fill it.
validate_raw_node_slots(order, canonical) ==
    \A i \in DOMAIN order :
        Occurrences(order, order[i], i) <= Cardinality({j \in DOMAIN canonical :
                                                          canonical[j].kind = order[i]})

\* validate_tracked_identity_slots
validate_tracked_identity_slots(s, name, current) ==
    LET tracked == s.raw.tracked[name] IN
    /\ Occurrences(s.raw.order, name, Len(s.raw.order)) = Len(tracked)
    /\ \A i, j \in DOMAIN tracked : tracked[i] = tracked[j] => i = j
    /\ ToSet(tracked) \subseteq current
=============================================================================
