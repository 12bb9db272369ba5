---------------------------- MODULE PendingSlot ----------------------------
(***************************************************************************)
(* What the remote cache promises to the runtime: one slot that holds a    *)
(* committed copy of the vault or one pending save, changed by             *)
(* compare-and-swap.  A pending save leaves the slot only through a call   *)
(* that names it, unless it is a pair of the oldest layout and its bytes   *)
(* are lost.  A change may be lost to a power failure until it is settled: *)
(* "may" is the set of values a power failure can bring back.              *)
(***************************************************************************)
EXTENDS Naturals

CONSTANTS Content, OpId, NoOp, Empty

VARIABLES
    slot, may,
    lost          \* the bytes of a pair cannot be read (any longer)

\* kind "Clean" is a committed copy, the others are pending saves; a "Pair" is
\* the pending save of the oldest layout, whose bytes are in a file of their own.
Slot == [c : Content,
         kind : {"Clean", "Generic", "Pair", "ConflictCopy", "Autofill"},
         op : OpId \cup {NoOp}]

Clean(c) == [c |-> c, kind |-> "Clean", op |-> NoOp]

IsPending(s) == s # Empty /\ s.kind # "Clean"

Init ==
    /\ slot \in {Empty} \cup {Clean(c) : c \in Content}
                 \cup [c : Content, kind : {"Generic", "Pair"}, op : {NoOp}]
    /\ may = {slot}
    /\ lost \in BOOLEAN
    /\ lost => slot \notin [c : Content, kind : {"Pair"}, op : {NoOp}]

Become(s) == slot' = s /\ may' = may \cup {s} /\ UNCHANGED lost

\* An ordinary copy never replaces a pending save.
Write(c) == ~IsPending(slot) /\ Become(Clean(c))

\* A resident save replaces the committed copy it was made from, or a
\* pending save of its own kind that it names; a pair is a source write.
Update(c, expected, kind) ==
    /\ slot = Empty \/ slot.c = expected
    /\ IsPending(slot) =>
          slot.kind = kind \/ (slot.kind = "Pair" /\ kind = "Generic")
    /\ Become([c |-> c, kind |-> kind, op |-> NoOp])

PendAutofill(c, base, id) ==
    /\ slot # Empty /\ ~IsPending(slot) /\ slot.c = base
    /\ Become([c |-> c, kind |-> "Autofill", op |-> id])

Complete(c, expected) ==
    /\ slot # Empty /\ slot.kind \in {"Generic", "Pair", "ConflictCopy"}
    /\ slot.c = expected
    /\ Become(Clean(c))

CompleteAutofill(c, pend, id) ==
    /\ slot # Empty /\ slot.kind = "Autofill"
    /\ slot.c = pend /\ slot.op = id
    /\ Become(Clean(c))

Remove ==
    /\ IsPending(slot) => slot.kind = "Pair" /\ lost
    /\ Become(Empty)

Settle == may' = {slot} /\ UNCHANGED <<slot, lost>>

\* A power failure, or the restoration of an earlier value.
Revert == slot' \in may /\ may' \in {may, {slot'}} /\ UNCHANGED lost

LoseBytes == lost' = TRUE /\ UNCHANGED <<slot, may>>

Next ==
    \/ \E c \in Content :
          \/ Write(c)
          \/ \E e \in Content :
                \/ \E k \in {"Generic", "ConflictCopy"} : Update(c, e, k)
                \/ Complete(c, e)
                \/ \E id \in OpId : PendAutofill(c, e, id) \/ CompleteAutofill(c, e, id)
    \/ Remove \/ Settle \/ Revert \/ LoseBytes

Spec == Init /\ [][Next]_<<slot, may, lost>>
=============================================================================
