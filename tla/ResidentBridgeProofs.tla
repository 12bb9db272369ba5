------------------------ MODULE ResidentBridgeProofs ------------------------
(***************************************************************************)
(* Proofs about ResidentBridge for every set of mutations and plugin       *)
(* operations and every limit of receipts, calls and failing saves.        *)
(*                                                                         *)
(* The inductive invariant is BridgeInv.  Its parts say of the session,    *)
(* the requests on their way, the receipts, the copies of registrations    *)
(* and the edits what the next step of each actor relies on.  The copies   *)
(* need an order that the state does not keep: Ordered states that there   *)
(* is one, and a registration extends it.                                  *)
(***************************************************************************)
EXTENDS ResidentBridge, SequenceTheorems, TLAPS

-----------------------------------------------------------------------------
(* The inductive invariant. *)

\* The requests on their way: one that was not given up is the one its front
\* end waits for, and a mutation that was called once and is not done was not
\* given up yet.
RequestsInv ==
    /\ \A q \in wire : ~q.late => q \in Awaited(q.op, client[q.op])
    /\ \A q \in wire : q.cmd = "save" => runs[q.op] # 0
    /\ \A o \in Op : client[o] = "idle" =>
          calls[o] = 0 /\ runs[o] = 0 /\ \A q \in wire : q.op # o
    /\ \A o \in Op : client[o] # "idle" => calls[o] # 0
    /\ \A o \in Op : client[o] \in {"first", "failed"} /\ calls[o] = 1 =>
          runs[o] = 0 /\ \A q \in wire : q.op = o => ~q.late

\* A mutation has a receipt, or had one, exactly if it was executed.
ReceiptsInv ==
    /\ \A o \in Op : o \in Keys(receipts) => runs[o] # 0
    /\ \A o \in Op : runs[o] # 0 => o \in Keys(receipts) \cup evicted

\* Nothing that was executed or saved is lost from the open vault unnoticed, but
\* for what the repetition of a pending submission forgot.
EditsInv ==
    /\ stored.edits \subseteq live.edits \cup undone
    /\ \A o \in Op : runs[o] # 0 => o \in live.edits \cup undone \cup forgotten
    /\ \A k \in 1 .. Len(saves) : saves[k] \in stored.edits \cup undone \cup forgotten

\* The plugin operations that can roll back a registration.
Held == {p \in Plat : copy[p] # NoCopy}

\* The open vault of a session that is not needed by an operation.
LeaseInv ==
    /\ ~unlocked => live = stored
    /\ \A p \in Plat : plugin[p] \in {"prepared", "registered"} => p \in lease
    /\ Held \subseteq lease

\* An operation registers at most once: a passkey is that of an operation that
\* has registered.
PasskeyInv ==
    \A p \in Plat : plugin[p] \in {"idle", "begun", "prepared"} =>
        /\ live.passkey # p /\ stored.passkey # p
        /\ \A r \in Held : copy[r].passkey # p

\* older orders the registrations that can be rolled back as they were made:
\* each copy has the edits of the copies before it, the open vault has the
\* passkey of the last of them, or of none, and each copy has the passkey of the
\* one just before it, or of none.
Ordered(older) ==
    /\ \A p \in Held, r \in Held : p # r =>
          (<<p, r>> \in older /\ copy[p].edits \subseteq copy[r].edits) \/ <<r, p>> \in older
    /\ \A q \in Held, p \in Held : live.passkey = q => <<q, p>> \notin older
    /\ \A r \in Held, q \in Held, p \in Held :
          copy[r].passkey = q /\ <<q, p>> \in older => p = r \/ <<r, p>> \in older

\* What a rollback puts back is part of the open vault.
CopiesInv ==
    /\ \A p \in Held : copy[p].edits \subseteq live.edits \cap load.shared
    /\ \E older \in SUBSET (Plat \X Plat) : Ordered(older)

\* The commands and the deadline that work on the session.
Worker ==
    \/ SaveVault \/ PersistAutofill \/ ReplayAutofill
    \/ LockSession \/ Unlock \/ Reload \/ RetrySync \/ IdleLock

BridgeInv ==
    /\ TypeOK /\ SessionForOperations /\ LeaseInv
    /\ RequestsInv /\ ReceiptsInv /\ OutcomesTrue
    /\ PasskeyInv /\ CopiesInv /\ EditsInv /\ EditsAccounted

-----------------------------------------------------------------------------
(* The queues of receipts. *)

\* What is in a queue.
Elems(seq) == {seq[k] : k \in 1 .. Len(seq)}

\* The two parts of a queue around its k-th element.
LEMMA CutSeq ==
    ASSUME NEW S, NEW seq \in Seq(S), NEW k \in 1 .. Len(seq),
           NEW left, left = SubSeq(seq, 1, k - 1),
           NEW right, right = SubSeq(seq, k + 1, Len(seq))
    PROVE  /\ left \in Seq(S) /\ Len(left) = k - 1
           /\ \A i \in 1 .. k - 1 : left[i] = seq[i]
           /\ right \in Seq(S) /\ Len(right) = Len(seq) - k
           /\ \A i \in 1 .. Len(seq) - k : right[i] = seq[k + i]
  <1>1. Len(seq) \in Nat /\ \A i \in 1 .. Len(seq) : seq[i] \in S
    BY LenProperties, ElementOfSeq
  <1>2. /\ left \in Seq(S) /\ Len(left) = k - 1
        /\ \A i \in 1 .. k - 1 : left[i] = seq[i]
    <2>1. /\ k - 1 \in Int /\ 1 \in Int /\ \A i \in 1 .. k - 1 : seq[i] \in S
      BY <1>1
    <2>2. /\ left \in Seq(S)
          /\ Len(left) = IF 1 <= k - 1 THEN (k - 1) - 1 + 1 ELSE 0
          /\ \A i \in 1 .. (k - 1) - 1 + 1 : left[i] = seq[1 + i - 1]
      BY <2>1, SubSeqProperties
    <2>. QED
      BY <1>1, <2>2
  <1>3. /\ right \in Seq(S) /\ Len(right) = Len(seq) - k
        /\ \A i \in 1 .. Len(seq) - k : right[i] = seq[k + i]
    <2>1. /\ k + 1 \in Int /\ Len(seq) \in Int
          /\ \A i \in k + 1 .. Len(seq) : seq[i] \in S
      BY <1>1
    <2>2. /\ right \in Seq(S)
          /\ Len(right) = IF k + 1 <= Len(seq) THEN Len(seq) - (k + 1) + 1 ELSE 0
          /\ \A i \in 1 .. Len(seq) - (k + 1) + 1 : right[i] = seq[(k + 1) + i - 1]
      BY <2>1, SubSeqProperties
    <2>. QED
      BY <1>1, <2>2
  <1>. QED
    BY <1>2, <1>3

\* A queue without o is a queue of what is left of it.
LEMMA WithoutSeq ==
    ASSUME NEW S, NEW seq \in Seq(S), NEW o \in S
    PROVE  /\ Without(seq, o) \in Seq(S)
           /\ Len(Without(seq, o)) <= Len(seq)
           /\ Elems(Without(seq, o)) \subseteq Elems(seq)
  <1>0. Len(seq) \in Nat
    BY LenProperties
  <1>1. CASE o \in {seq[k] : k \in 1 .. Len(seq)}
    <2>1. PICK k \in 1 .. Len(seq) : 
               Without(seq, o) = SubSeq(seq, 1, k - 1) \o SubSeq(seq, k + 1, Len(seq))
      BY <1>1 DEF Without
    <2>2. PICK left : left = SubSeq(seq, 1, k - 1)
      OBVIOUS
    <2>3. PICK right : right = SubSeq(seq, k + 1, Len(seq))
      OBVIOUS
    <2>4. /\ left \in Seq(S) /\ Len(left) = k - 1
          /\ \A i \in 1 .. k - 1 : left[i] = seq[i]
          /\ right \in Seq(S) /\ Len(right) = Len(seq) - k
          /\ \A i \in 1 .. Len(seq) - k : right[i] = seq[k + i]
      BY <2>2, <2>3, CutSeq
    <2>5. PICK both : both = left \o right
      OBVIOUS
    <2>6. Len(seq) \in Nat /\ k \in Nat
      BY LenProperties
    <2>7. /\ both \in Seq(S) /\ Len(both) = Len(left) + Len(right)
          /\ \A i \in 1 .. Len(left) + Len(right) :
               both[i] = IF i <= Len(left) THEN left[i] ELSE right[i - Len(left)]
      BY <2>4, <2>5, ConcatProperties
    <2>8. Len(both) = Len(seq) - 1
      BY <2>4, <2>6, <2>7
    <2>9. ASSUME NEW i \in 1 .. Len(seq) - 1
          PROVE  \E j \in 1 .. Len(seq) : both[i] = seq[j]
      <3>1. CASE i <= k - 1
        <4>1. i \in 1 .. k - 1 /\ i \in 1 .. Len(seq) /\ i <= Len(left)
          BY <2>4, <2>6, <3>1
        <4>2. i \in 1 .. Len(left) + Len(right)
          BY <2>4, <2>6, <4>1
        <4>3. both[i] = left[i]
          BY <2>7, <4>1, <4>2
        <4>. QED
          BY <2>4, <4>1, <4>3
      <3>2. CASE ~(i <= k - 1)
        <4>1. /\ i - (k - 1) \in 1 .. Len(seq) - k
              /\ k + (i - (k - 1)) = i + 1 /\ i + 1 \in 1 .. Len(seq)
          BY <2>4, <2>6, <3>2
        <4>2. right[i - (k - 1)] = seq[i + 1]
          BY <2>4, <2>6, <4>1
        <4>3. i \in 1 .. Len(left) + Len(right) /\ ~(i <= Len(left))
          BY <2>4, <2>6, <3>2
        <4>4. both[i] = right[i - Len(left)]
          BY <2>4, <2>7, <4>3
        <4>. QED
          BY <2>4, <2>6, <4>1, <4>2, <4>4
      <3>. QED
        BY <3>1, <3>2
    <2>10. both \in Seq(S) /\ Len(both) <= Len(seq)
      BY <2>6, <2>7, <2>8
    <2>11. Without(seq, o) = both
      BY <2>1, <2>2, <2>3, <2>5
    <2>. QED
      BY <2>8, <2>9, <2>10, <2>11 DEF Elems
  <1>2. CASE o \notin {seq[k] : k \in 1 .. Len(seq)}
    BY <1>0, <1>2 DEF Without, Elems
  <1>. QED
    BY <1>1, <1>2

\* The queue with e at its end, which the oldest leaves when it is too long.
Pushed(seq, e) ==
    LET all == Append(seq, e)
    IN  IF Len(all) > MaxReceipts THEN Tail(all) ELSE all

\* Only the oldest element may leave for it.
LEMMA PushSeq ==
    ASSUME NEW S, NEW seq \in Seq(S), NEW e \in S, Len(seq) <= MaxReceipts
    PROVE  /\ Pushed(seq, e) \in Seq(S) /\ Len(Pushed(seq, e)) <= MaxReceipts
           /\ Elems(Pushed(seq, e)) \subseteq Elems(seq) \cup {e}
           /\ e \in Elems(Pushed(seq, e))
           /\ \/ Elems(seq) \subseteq Elems(Pushed(seq, e))
              \/ /\ Len(Append(seq, e)) > MaxReceipts
                 /\ Elems(seq) \subseteq Elems(Pushed(seq, e)) \cup {Head(Append(seq, e))}
  <1>. DEFINE all == Append(seq, e)
              new == Pushed(seq, e)
  <1>0. /\ new = IF Len(all) > MaxReceipts THEN Tail(all) ELSE all
        /\ MaxReceipts \in Nat \ {0}
    BY BridgeAssumption DEF Pushed
  <1>1. /\ all \in Seq(S) /\ Len(seq) \in Nat /\ Len(all) = Len(seq) + 1 /\ all # <<>>
        /\ \A i \in 1 .. Len(seq) : all[i] = seq[i]
        /\ all[Len(seq) + 1] = e
    BY LenProperties, AppendProperties
  <1>a. Head(all) = all[1]
    BY <1>1, HeadTailAppend
  <1>. HIDE DEF all, new
  <1>2. CASE Len(all) > MaxReceipts
    <2>1. new = Tail(all)
      BY <1>0, <1>2
    <2>2. /\ new \in Seq(S) /\ Len(new) = Len(all) - 1
          /\ \A i \in 1 .. Len(new) : new[i] = all[i + 1]
      BY <1>1, <2>1, HeadTailProperties
    <2>3. Len(new) = Len(seq) /\ Len(seq) \in Nat \ {0}
      BY <1>0, <1>1, <1>2, <2>2
    <2>4. Len(new) <= MaxReceipts
      BY <2>3
    <2>5. e \in Elems(new)
      BY <1>1, <2>2, <2>3 DEF Elems
    <2>6. Elems(new) \subseteq Elems(seq) \cup {e}
      <3>1. ASSUME NEW k \in 1 .. Len(new)
            PROVE  new[k] \in Elems(seq) \cup {e}
        <4>1. CASE k = Len(seq)
          BY <1>1, <2>2, <2>3, <4>1
        <4>2. CASE k # Len(seq)
          <5>1. k + 1 \in 1 .. Len(seq)
            BY <2>3, <4>2
          <5>2. new[k] = seq[k + 1]
            BY <1>1, <2>2, <5>1
          <5>. QED
            BY <5>1, <5>2 DEF Elems
        <4>. QED
          BY <4>1, <4>2
      <3>. QED
        BY <3>1 DEF Elems
    <2>7. Elems(seq) \subseteq Elems(new) \cup {Head(all)}
      <3>1. ASSUME NEW j \in 1 .. Len(seq)
            PROVE  seq[j] \in Elems(new) \cup {Head(all)}
        <4>1. CASE j = 1
          BY <1>1, <1>a, <4>1
        <4>2. CASE j # 1
          <5>1. j - 1 \in 1 .. Len(new)
            BY <2>3, <4>2
          <5>2. new[j - 1] = seq[j]
            BY <1>1, <2>2, <5>1
          <5>. QED
            BY <5>1, <5>2 DEF Elems
        <4>. QED
          BY <4>1, <4>2
      <3>. QED
        BY <3>1 DEF Elems
    <2>. QED
      BY <1>2, <2>2, <2>4, <2>5, <2>6, <2>7 DEF all, new
  <1>3. CASE ~(Len(all) > MaxReceipts)
    <2>1. new = all /\ Len(all) <= MaxReceipts
      BY <1>0, <1>1, <1>3
    <2>2. e \in Elems(new)
      BY <1>1, <2>1 DEF Elems
    <2>3. Elems(new) \subseteq Elems(seq) \cup {e}
      <3>1. ASSUME NEW k \in 1 .. Len(seq) + 1
            PROVE  all[k] \in Elems(seq) \cup {e}
        BY <1>1 DEF Elems
      <3>. QED
        BY <1>1, <2>1, <3>1 DEF Elems
    <2>4. Elems(seq) \subseteq Elems(new)
      BY <1>1, <2>1 DEF Elems
    <2>. QED
      BY <1>1, <2>1, <2>2, <2>3, <2>4 DEF new
  <1>. QED
    BY <1>2, <1>3

-----------------------------------------------------------------------------
(* Types. *)

\* The states of a front end.
Stage == Waiting \cup {"idle", "unknown", "failed", "expired", "saveFailed", "done"}

\* The workload names mutations and operations of the model.
LEMMA LoadTyped ==
    ASSUME load \in Workloads
    PROVE  load.op \subseteq Op /\ load.shared \subseteq Op /\ load.plat \subseteq Plat
           /\ load.calls \in 0 .. MaxCalls
  <1>1. load \in [op : SUBSET Op, shared : SUBSET Op, plat : SUBSET Plat,
                 calls : 0 .. MaxCalls]
    BY BridgeAssumption
  <1>. QED
    BY <1>1

\* Where an answer leads the front end that waits.
LEMMA AfterCases ==
    /\ \A s \in Waiting : After(s, "ok") = IF s \in Mutating THEN "save" ELSE "done"
    /\ After("first", "lost") = "again" /\ After("again", "lost") = "unknown"
    /\ After("save", "lost") = "saveAgain" /\ After("saveAgain", "lost") = "saveFailed"
    /\ After("first", "error") = "failed" /\ After("again", "error") = "unknown"
    /\ After("save", "error") = "saveFailed" /\ After("saveAgain", "error") = "saveFailed"
    /\ After("first", "expired") = "expired" /\ After("again", "expired") = "unknown"
    /\ After("save", "expired") = "saveFailed" /\ After("saveAgain", "expired") = "saveFailed"
  <1>1. /\ DOMAIN Repeat = {"first", "save"}
        /\ Repeat["first"] = "again" /\ Repeat["save"] = "saveAgain"
    BY DEF Repeat
  <1>. QED
    BY <1>1 DEF After, IsConclusive, Mutating, Waiting

\* An answer leads from a stage to a stage.
LEMMA AfterTyped ==
    ASSUME NEW s \in Stage, NEW answer \in {"ok", "lost", "error", "expired"}
    PROVE  After(s, answer) \in Stage
  <1>1. /\ DOMAIN Repeat = {"first", "save"}
        /\ Repeat["first"] = "again" /\ Repeat["save"] = "saveAgain"
    BY DEF Repeat
  <1>. QED
    BY <1>1 DEF After, IsConclusive, Mutating, Waiting, Stage

\* A front end waits for requests of its own that were not given up.
LEMMA AwaitedTyped ==
    ASSUME NEW o \in Op, NEW s
    PROVE  /\ Awaited(o, s) \subseteq Request
           /\ \A q \in Awaited(o, s) : q.op = o /\ ~q.late
  <1>. DEFINE cmd == IF s \in Mutating THEN "mutate" ELSE "save"
              q == [op |-> o, cmd |-> cmd, late |-> FALSE]
  <1>1. cmd \in {"mutate", "save"}
    OBVIOUS
  <1>. HIDE DEF cmd
  <1>2. q \in Request /\ q.op = o /\ ~q.late
    BY <1>1 DEF Request
  <1>3. Awaited(o, s) \subseteq {q}
    BY DEF Awaited, cmd
  <1>. QED
    BY <1>2, <1>3

\* Going on keeps the types of the front ends.
LEMMA ContinueTyped ==
    ASSUME NEW o \in Op, NEW s \in Stage, NEW rest, rest \subseteq Request,
           client \in [Op -> Stage], Continue(o, s, rest)
    PROVE  client' \in [Op -> Stage] /\ wire' \subseteq Request
  BY AwaitedTyped DEF Continue

\* So does an answer.
LEMMA ReplyTyped ==
    ASSUME TypeOK, NEW q \in wire, NEW answer \in {"ok", "error", "expired"},
           Reply(q, answer)
    PROVE  client' \in [Op -> Stage] /\ wire' \subseteq Request /\ calls' = calls
  <1>1. client \in [Op -> Stage] /\ wire \subseteq Request /\ q.op \in Op
    BY DEF TypeOK, Stage, Request
  <1>2. CASE q.late
    BY <1>1, <1>2 DEF Reply
  <1>3. CASE ~q.late
    <2>1. PICK a \in {answer, "lost"} :
                Continue(q.op, After(client[q.op], a), wire \ {q})
      BY <1>3 DEF Reply
    <2>2. client[q.op] \in Stage /\ a \in {"ok", "lost", "error", "expired"}
      BY <1>1
    <2>3. After(client[q.op], a) \in Stage
      BY <2>2, AfterTyped
    <2>4. wire \ {q} \subseteq Request
      BY <1>1
    <2>. QED
      BY <1>1, <1>3, <2>1, <2>3, <2>4, ContinueTyped DEF Reply
  <1>. QED
    BY <1>2, <1>3

\* A new receipt costs at most the oldest one, whose mutation is then evicted.
LEMMA PushReceipt ==
    ASSUME TypeOK, NEW o \in Op, RecordReceipt(o)
    PROVE  /\ receipts' \in Seq([op : Op, full : BOOLEAN]) /\ Len(receipts') <= MaxReceipts
           /\ evicted' \subseteq Op /\ evicted \subseteq evicted'
           /\ o \in Keys(receipts') /\ Keys(receipts') \subseteq Keys(receipts) \cup {o}
           /\ Keys(receipts) \subseteq Keys(receipts') \cup evicted'
  <1>. DEFINE new == [op |-> o, full |-> TRUE]
              R == [op : Op, full : BOOLEAN]
  <1>1. new \in R /\ receipts \in Seq(R) /\ Len(receipts) <= MaxReceipts
        /\ MaxReceipts \in Nat \ {0} /\ evicted \subseteq Op
    BY BridgeAssumption DEF TypeOK
  <1>3. /\ receipts' = Pushed(receipts, new)
        /\ evicted' = IF Len(Append(receipts, new)) > MaxReceipts
                      THEN evicted \cup {Head(Append(receipts, new)).op} ELSE evicted
    BY DEF RecordReceipt, Pushed
  <1>4. new.op = o
    OBVIOUS
  <1>. HIDE DEF new, R
  <1>6. /\ Pushed(receipts, new) \in Seq(R) /\ Len(Pushed(receipts, new)) <= MaxReceipts
        /\ Elems(Pushed(receipts, new)) \subseteq Elems(receipts) \cup {new}
        /\ new \in Elems(Pushed(receipts, new))
        /\ \/ Elems(receipts) \subseteq Elems(Pushed(receipts, new))
           \/ /\ Len(Append(receipts, new)) > MaxReceipts
              /\ Elems(receipts)
                   \subseteq Elems(Pushed(receipts, new)) \cup {Head(Append(receipts, new))}
    BY <1>1, PushSeq
  <1>7. \A seq : Keys(seq) = {e.op : e \in Elems(seq)}
    BY DEF Keys, Elems
  <1>8. o \in Keys(receipts') /\ Keys(receipts') \subseteq Keys(receipts) \cup {o}
    BY <1>3, <1>4, <1>6, <1>7
  <1>9. Keys(receipts) \subseteq Keys(receipts') \cup evicted'
    BY <1>3, <1>6, <1>7
  <1>10. evicted' \subseteq Op /\ evicted \subseteq evicted'
    <2>1. Append(receipts, new) \in Seq(R) /\ Append(receipts, new) # <<>>
      BY <1>1, AppendProperties
    <2>2. Head(Append(receipts, new)) \in R
      BY <2>1, HeadTailProperties
    <2>3. Head(Append(receipts, new)).op \in Op
      BY <2>2 DEF R
    <2>. QED
      BY <1>1, <1>3, <2>3
  <1>. QED
    BY <1>3, <1>6, <1>8, <1>9, <1>10 DEF R

\* The order of the save receipts with one more save.
LEMMA PushSave ==
    ASSUME TypeOK, NEW o \in Op
    PROVE  /\ WithSave(saves, o) \in Seq(Op) /\ Len(WithSave(saves, o)) <= MaxReceipts
           /\ Elems(WithSave(saves, o)) \subseteq Elems(saves) \cup {o}
  <1>1. saves \in Seq(Op) /\ Len(saves) <= MaxReceipts /\ MaxReceipts \in Nat \ {0}
        /\ Len(saves) \in Nat
    BY BridgeAssumption, LenProperties DEF TypeOK
  <1>2. PICK rest : rest = Without(saves, o)
    OBVIOUS
  <1>3. /\ rest \in Seq(Op) /\ Len(rest) <= Len(saves)
        /\ Elems(rest) \subseteq Elems(saves)
    BY <1>1, <1>2, WithoutSeq
  <1>4. Len(rest) <= MaxReceipts
    BY <1>1, <1>3, LenProperties
  <1>5. /\ Pushed(rest, o) \in Seq(Op) /\ Len(Pushed(rest, o)) <= MaxReceipts
        /\ Elems(Pushed(rest, o)) \subseteq Elems(rest) \cup {o}
    BY <1>1, <1>3, <1>4, PushSeq
  <1>6. WithSave(saves, o) = Pushed(rest, o)
    BY <1>2 DEF WithSave, Pushed
  <1>. QED
    BY <1>3, <1>5, <1>6

\* A lock takes the responses and leaves the receipts.
LEMMA ScrubKeeps ==
    ASSUME TypeOK, Scrub
    PROVE  /\ receipts' \in Seq([op : Op, full : BOOLEAN]) /\ Len(receipts') <= MaxReceipts
           /\ Keys(receipts') = Keys(receipts)
  <1>. DEFINE R == [op : Op, full : BOOLEAN]
  <1>1. /\ receipts \in Seq(R) /\ Len(receipts) \in Nat /\ Len(receipts) <= MaxReceipts
        /\ \A k \in 1 .. Len(receipts) : receipts[k] \in R
    BY LenProperties, ElementOfSeq DEF TypeOK
  <1>2. receipts' = [k \in 1 .. Len(receipts) |-> [receipts[k] EXCEPT !.full = FALSE]]
    BY DEF Scrub
  <1>3. \A k \in 1 .. Len(receipts) : [receipts[k] EXCEPT !.full = FALSE] \in R
                                      /\ [receipts[k] EXCEPT !.full = FALSE].op = receipts[k].op
    BY <1>1
  <1>4. receipts' \in [1 .. Len(receipts) -> R]
    BY <1>2, <1>3
  <1>. HIDE DEF R
  <1>5. receipts' \in Seq(R) /\ Len(receipts') = Len(receipts)
    BY <1>1, <1>4
  <1>6. \A k \in 1 .. Len(receipts) : receipts'[k].op = receipts[k].op
    BY <1>2, <1>3
  <1>. QED
    BY <1>1, <1>5, <1>6 DEF Keys, R

\* A front end that goes on changes nothing behind the worker.
LEMMA QuietTyped ==
    ASSUME TypeOK, client' \in [Op -> Stage], wire' \subseteq Request,
           calls' \in [Op -> 0 .. MaxCalls], UNCHANGED <<load, vault, books, platform>>
    PROVE  TypeOK'
  BY DEF TypeOK, Stage, vault, books, platform, pending

\* The failing saves stay within their bound.
LEMMA FaultTyped ==
    ASSUME TypeOK, SaveFails \/ Fault \/ faults' = faults
    PROVE  faults' \in 0 .. MaxFaults
  BY BridgeAssumption DEF TypeOK, SaveFails, Fault

\* A submission of the autofill and its synchronization change what is stored,
\* and leave the open vault of an unlocked session as it is.
LEMMA SubmissionKeeps ==
    ASSUME PersistAutofill \/ ReplayAutofill \/ RetrySync
    PROVE  /\ unlocked /\ unlocked' = unlocked /\ live' = live
           /\ stored' \in {live, stored}
           /\ UNCHANGED <<client, calls, wire, receipts, runs, evicted>>
           /\ UNCHANGED <<load, active, plugin, copy, lease, relock, undone>>
  BY DEF PersistAutofill, ReplayAutofill, RetrySync, books

\* A rollback makes a vault.
LEMMA RolledBackTyped ==
    ASSUME TypeOK, NEW p \in Plat
    PROVE  RolledBack(p) \in Vault
  <1>1. CASE copy[p] # NoCopy /\ live.passkey = p
    <2>1. copy[p] \in Vault /\ live \in Vault
      BY <1>1 DEF TypeOK
    <2>2. /\ copy[p].edits \subseteq Op /\ copy[p].passkey \in Plat \cup {NoPlat}
          /\ live.edits \subseteq Op
      BY <2>1 DEF Vault
    <2>3. RolledBack(p) = [edits |-> (live.edits \ load.shared) \cup copy[p].edits,
                           passkey |-> copy[p].passkey]
      BY <1>1 DEF RolledBack
    <2>4. (live.edits \ load.shared) \cup copy[p].edits \in SUBSET Op
      BY <2>2
    <2>. QED
      BY <2>2, <2>3, <2>4 DEF Vault
  <1>2. CASE ~(copy[p] # NoCopy /\ live.passkey = p)
    BY <1>2 DEF RolledBack, TypeOK
  <1>. QED
    BY <1>1, <1>2

\* The worker's books after a mutation was executed.
LEMMA ExecuteTyped ==
    ASSUME TypeOK, NEW q \in wire, Execute(q)
    PROVE  TypeOK'
  <1>1. q \in Request /\ q.op \in Op
    BY DEF TypeOK, Request
  <1>2. client' \in [Op -> Stage] /\ wire' \subseteq Request /\ calls' = calls
    BY ReplyTyped DEF Execute
  <1>3. /\ receipts' \in Seq([op : Op, full : BOOLEAN]) /\ Len(receipts') <= MaxReceipts
        /\ evicted' \subseteq Op
    BY <1>1, PushReceipt DEF Execute
  <1>4. live' \in Vault
    BY <1>1 DEF Execute, TypeOK, Vault
  <1>5. stored' \in Vault /\ unsaved' \in BOOLEAN /\ faults' \in 0 .. MaxFaults
    <2>1. faults' \in 0 .. MaxFaults
      <3>1. SaveFails \/ faults' = faults
        BY DEF Execute, InlineSave, Stores
      <3>. QED
        BY <3>1, FaultTyped
    <2>2. /\ stored' = live' \/ stored' = stored
          /\ unsaved' \in BOOLEAN
      BY DEF Execute, InlineSave, Stores, SaveFails
    <2>. QED
      BY <1>4, <2>1, <2>2 DEF TypeOK
  <1>6. saves' \in Seq(Op) /\ Len(saves') <= MaxReceipts
    <2>1. saves' = WithSave(saves, q.op) \/ saves' = saves
      BY DEF Execute, InlineSave
    <2>. QED
      BY <1>1, <2>1, PushSave DEF TypeOK
  <1>7. runs' \in [Op -> Nat]
    <2>1. runs[q.op] + 1 \in Nat
      BY <1>1 DEF TypeOK
    <2>2. runs' = [runs EXCEPT ![q.op] = runs[q.op] + 1]
      BY DEF Execute
    <2>. QED
      BY <2>1, <2>2 DEF TypeOK
  <1>8. unlocked' = unlocked /\ UNCHANGED platform
    BY DEF Execute
  <1>. QED
    BY <1>2, <1>3, <1>4, <1>5, <1>6, <1>7, <1>8 DEF TypeOK, Stage, platform, pending

\* The worker's books after a save.
LEMMA ExecuteSaveTyped ==
    ASSUME TypeOK, NEW q \in wire, ExecuteSave(q)
    PROVE  TypeOK'
  <1>1. q \in Request /\ q.op \in Op
    BY DEF TypeOK, Request
  <1>2. client' \in [Op -> Stage] /\ wire' \subseteq Request /\ calls' = calls
    <2>1. Reply(q, "ok") \/ Reply(q, "error")
      BY DEF ExecuteSave
    <2>. QED
      BY <2>1, ReplyTyped
  <1>3. stored' \in Vault /\ unsaved' \in BOOLEAN /\ faults' \in 0 .. MaxFaults
    <2>1. faults' \in 0 .. MaxFaults
      <3>1. SaveFails \/ faults' = faults
        BY DEF ExecuteSave, Stores
      <3>. QED
        BY <3>1, FaultTyped
    <2>2. /\ stored' = live \/ stored' = stored
          /\ unsaved' = FALSE \/ unsaved' = unsaved
      BY DEF ExecuteSave, Stores, SaveFails
    <2>. QED
      BY <2>1, <2>2 DEF TypeOK
  <1>4. saves' \in Seq(Op) /\ Len(saves') <= MaxReceipts
    <2>1. <<q.op>> \in Seq(Op) /\ Len(<<q.op>>) <= MaxReceipts
      BY <1>1, BridgeAssumption
    <2>2. saves' = <<q.op>> \/ saves' = saves
      BY DEF ExecuteSave
    <2>. QED
      BY <2>1, <2>2 DEF TypeOK
  <1>. QED
    BY <1>2, <1>3, <1>4 DEF ExecuteSave, TypeOK, Stage, platform, pending

\* A front end that calls, tries again or gives up.
LEMMA FrontTyped ==
    ASSUME TypeOK, NEW o \in load.op, Call(o) \/ RetrySave(o) \/ Ambiguous(o)
    PROVE  TypeOK'
  <1>1. o \in Op /\ client \in [Op -> Stage] /\ wire \subseteq Request
        /\ load.calls \in 0 .. MaxCalls /\ MaxCalls \in Nat /\ calls \in [Op -> 0 .. MaxCalls]
    BY LoadTyped, BridgeAssumption DEF TypeOK, Stage
  <1>2. CASE Call(o)
    <2>1. client' \in [Op -> Stage] /\ wire' \subseteq Request
      BY <1>1, <1>2, ContinueTyped DEF Call, Stage, Waiting
    <2>2. calls' \in [Op -> 0 .. MaxCalls]
      <3>1. calls[o] + 1 \in 0 .. MaxCalls
        BY <1>1, <1>2 DEF Call
      <3>. QED
        BY <1>1, <1>2, <3>1 DEF Call
    <2>. QED
      BY <1>2, <2>1, <2>2, QuietTyped DEF Call, platform, pending
  <1>3. CASE RetrySave(o)
    <2>1. client' \in [Op -> Stage] /\ wire' \subseteq Request
      BY <1>1, <1>3, ContinueTyped DEF RetrySave, Stage, Waiting
    <2>2. calls' \in [Op -> 0 .. MaxCalls]
      <3>1. calls[o] + 1 \in 0 .. MaxCalls
        BY <1>1, <1>3 DEF RetrySave
      <3>. QED
        BY <1>1, <1>3, <3>1 DEF RetrySave
    <2>. QED
      BY <1>3, <2>1, <2>2, QuietTyped DEF RetrySave, platform, pending
  <1>4. CASE Ambiguous(o)
    <2>1. PICK lost \in SUBSET Awaited(o, client[o]) :
            Continue(o, After(client[o], "lost"),
                     (wire \ Awaited(o, client[o]))
                        \cup {[q EXCEPT !.late = TRUE] : q \in Awaited(o, client[o]) \ lost})
      BY <1>4 DEF Ambiguous
    <2>2. After(client[o], "lost") \in Stage
      BY <1>1, AfterTyped
    <2>3. \A q \in Awaited(o, client[o]) : [q EXCEPT !.late = TRUE] \in Request
      <3>1. Awaited(o, client[o]) \subseteq Request
        BY <1>1, AwaitedTyped
      <3>. QED
        BY <3>1 DEF Request
    <2>4. client' \in [Op -> Stage] /\ wire' \subseteq Request
      <3>. DEFINE rest == (wire \ Awaited(o, client[o]))
                            \cup {[q EXCEPT !.late = TRUE] : q \in Awaited(o, client[o]) \ lost}
      <3>1. rest \subseteq Request
        BY <1>1, <2>3
      <3>2. Continue(o, After(client[o], "lost"), rest)
        BY <2>1
      <3>. HIDE DEF rest
      <3>. QED
        BY <1>1, <2>2, <3>1, <3>2, ContinueTyped
    <2>. QED
      BY <1>1, <1>4, <2>4, QuietTyped DEF Ambiguous, platform, pending
  <1>. QED
    BY <1>2, <1>3, <1>4

\* Types after a request was served.
LEMMA ServeTyped ==
    ASSUME TypeOK, NEW q \in wire, Serve(q)
    PROVE  TypeOK'
  <1>1. CASE Execute(q)
    BY <1>1, ExecuteTyped
  <1>2. CASE ExecuteSave(q)
    BY <1>2, ExecuteSaveTyped
  <1>3. CASE Refuse(q) \/ Replay(q) \/ ExecuteFails(q) \/ ReplaySave(q)
    <2>1. /\ \E answer \in {"ok", "error", "expired"} : Reply(q, answer)
          /\ UNCHANGED <<vault, books, platform>>
      BY <1>3 DEF Refuse, Replay, ExecuteFails, ReplaySave
    <2>2. client' \in [Op -> Stage] /\ wire' \subseteq Request /\ calls' = calls
      BY <2>1, ReplyTyped
    <2>. QED
      BY <2>1, <2>2, QuietTyped DEF TypeOK, platform, pending
  <1>. QED
    BY <1>1, <1>2, <1>3 DEF Serve

\* Types after a command on the session or the idle deadline.
LEMMA SessionTyped ==
    ASSUME TypeOK, Worker
    PROVE  TypeOK'
  <1>0. <<>> \in Seq(Op) /\ Len(<<>>) <= MaxReceipts
    BY BridgeAssumption
  <1>1. CASE SaveVault
    BY <1>0, <1>1 DEF SaveVault, Stores, CountsAsSaved, TypeOK, front, platform, pending
  <1>2. CASE LockSession
    BY <1>2, ScrubKeeps DEF LockSession, Drop, TypeOK, front, platform, pending
  <1>3. CASE Unlock
    BY <1>3, ScrubKeeps DEF Unlock, TypeOK, front, platform, pending
  <1>4. CASE Reload
    BY <1>4 DEF Reload, TypeOK, front, books, platform, pending
  <1>5. CASE IdleLock
    <2>1. CASE PersistUnsaved /\ unlocked' = FALSE /\ live' = stored' /\ Scrub
      <3>1. /\ stored' \in Vault /\ unsaved' \in BOOLEAN /\ faults' = faults
            /\ saves' \in Seq(Op) /\ Len(saves') <= MaxReceipts
        BY <1>0, <2>1 DEF PersistUnsaved, Stores, CountsAsSaved, TypeOK
      <3>. QED
        BY <1>5, <2>1, <3>1, ScrubKeeps DEF IdleLock, TypeOK, front, platform, pending
    <2>2. CASE /\ unsaved /\ SaveFails
               /\ UNCHANGED <<unlocked, live, unsaved, saves, receipts>>
      BY <1>5, <2>2, FaultTyped DEF IdleLock, SaveFails, TypeOK, front, platform, pending
    <2>. QED
      BY <1>5, <2>1, <2>2 DEF IdleLock
  <1>6. CASE PersistAutofill \/ ReplayAutofill \/ RetrySync
    <2>1. /\ stored' \in Vault /\ unsaved' \in BOOLEAN
          /\ chain' \in BOOLEAN /\ forgotten' \subseteq Op
      BY <1>6, SubmissionKeeps
         DEF PersistAutofill, ReplayAutofill, RetrySync, CountsAsSaved, TypeOK, Vault
    <2>2. saves' \in Seq(Op) /\ Len(saves') <= MaxReceipts
      BY <1>0, <1>6 DEF PersistAutofill, ReplayAutofill, RetrySync, CountsAsSaved, books, TypeOK
    <2>3. faults' \in 0 .. MaxFaults
      BY <1>6, FaultTyped DEF PersistAutofill, ReplayAutofill, RetrySync
    <2>. QED
      BY <1>6, <2>1, <2>2, <2>3, SubmissionKeeps DEF TypeOK
  <1>. QED
    BY <1>1, <1>2, <1>3, <1>4, <1>5, <1>6 DEF Worker

\* Types after a step of the passkey plugin.
LEMMA PluginTyped ==
    ASSUME TypeOK, NEW p \in Plat, Plugin(p)
    PROVE  TypeOK'
  <1>1. CASE PluginBegin(p)
    BY <1>1 DEF PluginBegin, TypeOK, front, vault, books, pending
  <1>2. CASE Prepare(p)
    <2>1. plugin' \in [Plat -> {"idle", "begun", "prepared", "registered", "used",
                                "ending", "ended"}]
      BY <1>2 DEF Prepare, TypeOK
    <2>2. lease' \subseteq Plat /\ unlocked' \in BOOLEAN /\ live' \in Vault /\ relock' \in BOOLEAN
      BY <1>2 DEF Prepare, TypeOK
    <2>3. receipts' \in Seq([op : Op, full : BOOLEAN]) /\ Len(receipts') <= MaxReceipts
      <3>1. Scrub \/ receipts' = receipts
        BY <1>2 DEF Prepare
      <3>. QED
        BY <3>1, ScrubKeeps DEF TypeOK
    <2>. QED
      BY <1>2, <2>1, <2>2, <2>3 DEF Prepare, TypeOK, front, pending
  <1>3. CASE UseVerification(p)
    BY <1>3 DEF UseVerification, TypeOK, front, vault, books, pending
  <1>4. CASE Register(p)
    <2>1. live' \in Vault /\ [live EXCEPT !.edits = @ \cap load.shared] \in Vault
      BY <1>4 DEF Register, TypeOK, Vault
    <2>2. copy' \in [Plat -> Vault \cup {NoCopy}]
      BY <1>4, <2>1 DEF Register, TypeOK
    <2>. QED
      BY <1>4, <2>1, <2>2 DEF Register, TypeOK, front, books, pending
  <1>5. CASE Commit(p)
    <2>1. stored' \in Vault
      BY <1>5 DEF Commit, Stores, SaveFails, TypeOK, Vault
    <2>2. live' \in Vault
      BY <1>5, RolledBackTyped DEF Commit, TypeOK
    <2>3. undone' \subseteq Op
      <3>1. live.edits \subseteq Op /\ undone \subseteq Op
        BY DEF TypeOK, Vault
      <3>. QED
        BY <1>5, <3>1 DEF Commit
    <2>4. faults' \in 0 .. MaxFaults
      BY <1>5, FaultTyped DEF Commit, Stores
    <2>. QED
      BY <1>5, <2>1, <2>2, <2>3, <2>4 DEF Commit, TypeOK, front, books, pending
  <1>6. CASE PluginEnd(p)
    BY <1>6 DEF PluginEnd, TypeOK, front, vault, books, pending
  <1>7. CASE EndOperation(p)
    <2>1. live' \in Vault /\ unlocked' \in BOOLEAN /\ relock' \in BOOLEAN
      BY <1>7, RolledBackTyped DEF EndOperation, Drop, TypeOK
    <2>2. undone' \subseteq Op
      <3>1. live.edits \subseteq Op /\ undone \subseteq Op
        BY DEF TypeOK, Vault
      <3>. QED
        BY <1>7, <3>1 DEF EndOperation
    <2>3. receipts' \in Seq([op : Op, full : BOOLEAN]) /\ Len(receipts') <= MaxReceipts
      <3>1. Scrub \/ receipts' = receipts
        BY <1>7 DEF EndOperation
      <3>. QED
        BY <3>1, ScrubKeeps DEF TypeOK
    <2>. QED
      BY <1>7, <2>1, <2>2, <2>3 DEF EndOperation, TypeOK, front, pending
  <1>. QED
    BY <1>1, <1>2, <1>3, <1>4, <1>5, <1>6, <1>7 DEF Plugin

\* Every step keeps the types.
LEMMA TypeStep == TypeOK /\ [Next]_vars => TypeOK'
  <1>. SUFFICES ASSUME TypeOK, [Next]_vars PROVE TypeOK'
    OBVIOUS
  <1>0. load.op \subseteq Op /\ load.plat \subseteq Plat
    BY LoadTyped DEF TypeOK
  <1>1. ASSUME NEW o \in load.op, Call(o) \/ RetrySave(o) \/ Ambiguous(o) PROVE TypeOK'
    BY <1>1, FrontTyped
  <1>2. ASSUME NEW q \in wire, Serve(q) PROVE TypeOK'
    BY <1>2, ServeTyped
  <1>3. CASE Worker
    BY <1>3, SessionTyped
  <1>4. ASSUME NEW p \in load.plat, Plugin(p) PROVE TypeOK'
    BY <1>0, <1>4, PluginTyped
  <1>5. CASE UNCHANGED vars
    BY <1>5 DEF vars, front, vault, books, platform, TypeOK, pending
  <1>. QED
    BY <1>1, <1>2, <1>3, <1>4, <1>5 DEF Next, Worker

-----------------------------------------------------------------------------
(* The session stays with the operations that need it. *)

\* Whatever leaves the plugin alone, or only touches an unlocked session.
LEMMA LeaseKept ==
    ASSUME SessionForOperations, LeaseInv,
           UNCHANGED <<plugin, copy, lease, relock>>,
           \/ unlocked' /\ unlocked
           \/ UNCHANGED <<unlocked, live, stored>>
           \/ lease = {} /\ (unlocked' \/ live' = stored')
    PROVE  SessionForOperations' /\ LeaseInv'
  <1>1. Held' = Held
    BY DEF Held
  <1>. QED
    BY <1>1 DEF SessionForOperations, LeaseInv

\* Serving a request changes the vaults of an unlocked session only.
LEMMA ServeLease ==
    ASSUME SessionForOperations, LeaseInv, NEW q \in wire, Serve(q)
    PROVE  SessionForOperations' /\ LeaseInv'
  <1>1. UNCHANGED <<plugin, copy, lease, relock>>
    BY DEF Serve, Refuse, Replay, Execute, ExecuteFails, ReplaySave, ExecuteSave, platform, pending
  <1>2. (unlocked' /\ unlocked) \/ UNCHANGED <<unlocked, live, stored>>
    BY DEF Serve, Refuse, Replay, Execute, ExecuteFails, ReplaySave, ExecuteSave, vault
  <1>. QED
    BY <1>1, <1>2, LeaseKept

\* The front ends do not touch the session.
LEMMA FrontLease ==
    ASSUME SessionForOperations, LeaseInv, NEW o \in load.op,
           Call(o) \/ RetrySave(o) \/ Ambiguous(o)
    PROVE  SessionForOperations' /\ LeaseInv'
  <1>1. UNCHANGED <<vault, platform>>
    BY DEF Call, RetrySave, Ambiguous
  <1>. QED
    BY <1>1, LeaseKept DEF vault, platform, pending

\* The session is locked or loaded again without plugin operations only.
LEMMA WorkerLease ==
    ASSUME TypeOK, SessionForOperations, LeaseInv,
           Worker
    PROVE  SessionForOperations' /\ LeaseInv'
  <1>1. UNCHANGED <<plugin, copy, lease, relock>>
    BY SubmissionKeeps DEF Worker, SaveVault, LockSession, Unlock, Reload, IdleLock, platform
  <1>5. CASE PersistAutofill \/ ReplayAutofill \/ RetrySync
    BY <1>1, <1>5, SubmissionKeeps, LeaseKept
  <1>2. CASE SaveVault \/ Reload
    <2>1. unlocked' /\ unlocked
      BY <1>2 DEF SaveVault, Reload
    <2>. QED
      BY <1>1, <2>1, LeaseKept
  <1>3. CASE LockSession \/ Unlock
    <2>1. lease = {} /\ (unlocked' \/ live' = stored')
      BY <1>3 DEF LockSession, Unlock, MayDiscard, Drop
    <2>. QED
      BY <1>1, <2>1, LeaseKept
  <1>4. CASE IdleLock
    <2>1. \/ unlocked' /\ unlocked
          \/ lease = {} /\ live' = stored'
      BY <1>4 DEF IdleLock
    <2>. QED
      BY <1>1, <2>1, LeaseKept
  <1>. QED
    BY <1>2, <1>3, <1>4, <1>5 DEF Worker

\* A plugin operation unlocks the session when it takes it, and the last one that
\* ends locks it again.
LEMMA PluginLease ==
    ASSUME TypeOK, SessionForOperations, LeaseInv, NEW p \in Plat, Plugin(p)
    PROVE  SessionForOperations' /\ LeaseInv'
  <1>0. /\ plugin \in [Plat -> {"idle", "begun", "prepared", "registered", "used",
                                "ending", "ended"}]
        /\ lease \subseteq Plat /\ copy \in [Plat -> Vault \cup {NoCopy}]
    BY DEF TypeOK
  <1>1. CASE PluginBegin(p) \/ UseVerification(p) \/ PluginEnd(p)
    <2>1. UNCHANGED <<unlocked, live, stored, copy, lease, relock>>
      BY <1>1 DEF PluginBegin, UseVerification, PluginEnd, vault
    <2>2. \A r \in Plat : plugin'[r] \in {"prepared", "registered"} => plugin'[r] = plugin[r]
      BY <1>0, <1>1 DEF PluginBegin, UseVerification, PluginEnd
    <2>3. Held' = Held
      BY <2>1 DEF Held
    <2>. QED
      BY <2>1, <2>2, <2>3 DEF SessionForOperations, LeaseInv
  <1>2. CASE Prepare(p)
    <2>1. /\ Held' = Held /\ stored' = stored /\ lease \subseteq lease'
          /\ \A r \in Plat : plugin'[r] \in {"prepared", "registered"} =>
                plugin'[r] = plugin[r] \/ (r = p /\ p \in lease')
      BY <1>0, <1>2 DEF Prepare, Held
    <2>2. \/ p \in lease' /\ unlocked'
          \/ UNCHANGED <<lease, unlocked, live, relock>>
      BY <1>2 DEF Prepare
    <2>3. relock' => lease' # {}
      BY <1>2, <2>2 DEF Prepare, SessionForOperations
    <2>. QED
      BY <2>1, <2>2, <2>3 DEF SessionForOperations, LeaseInv
  <1>3. CASE Register(p)
    <2>1. p \in lease /\ unlocked
      BY <1>3 DEF Register, LeaseInv, SessionForOperations
    <2>2. Held' \subseteq Held \cup {p}
      BY <1>0, <1>3 DEF Register, Held
    <2>3. \A r \in Plat : plugin'[r] \in {"prepared", "registered"} =>
             plugin'[r] = plugin[r] \/ r = p
      BY <1>0, <1>3 DEF Register
    <2>. QED
      BY <1>3, <2>1, <2>2, <2>3 DEF Register, SessionForOperations, LeaseInv
  <1>4. CASE Commit(p)
    <2>1. p \in lease /\ unlocked
      BY <1>4 DEF Commit, LeaseInv, SessionForOperations
    <2>2. Held' \subseteq Held
      BY <1>0, <1>4 DEF Commit, Held
    <2>3. \A r \in Plat : plugin'[r] \in {"prepared", "registered"} => plugin'[r] = plugin[r]
      BY <1>0, <1>4 DEF Commit
    <2>. QED
      BY <1>4, <2>1, <2>2, <2>3 DEF Commit, SessionForOperations, LeaseInv
  <1>5. CASE EndOperation(p)
    <2>1. Held' \subseteq Held \ {p}
      BY <1>0, <1>5 DEF EndOperation, Held
    <2>2. \A r \in Plat : plugin'[r] \in {"prepared", "registered"} =>
             plugin'[r] = plugin[r] /\ r # p
      BY <1>0, <1>5 DEF EndOperation
    <2>3. lease' = lease \ {p} /\ stored' = stored
      BY <1>5 DEF EndOperation
    <2>4. (\A r \in Plat : plugin'[r] \in {"prepared", "registered"} => r \in lease')
          /\ Held' \subseteq lease'
      BY <2>1, <2>2, <2>3 DEF LeaseInv
    <2>5. CASE RelocksAfter(lease')
      <3>1. lease' = {} /\ ~unlocked' /\ live' = stored /\ ~relock'
        BY <1>5, <2>5 DEF EndOperation, RelocksAfter, Drop
      <3>. QED
        BY <2>3, <2>4, <3>1 DEF SessionForOperations, LeaseInv
    <2>6. CASE ~RelocksAfter(lease')
      <3>1. live' = RolledBack(p) /\ unlocked' = unlocked /\ relock' = relock
        BY <1>5, <2>6 DEF EndOperation
      <3>2. relock => lease' # {}
        BY <2>6 DEF RelocksAfter
      <3>3. ~unlocked => live' = live
        BY <3>1 DEF RolledBack, LeaseInv, SessionForOperations, Held
      <3>. QED
        BY <2>3, <2>4, <3>1, <3>2, <3>3 DEF SessionForOperations, LeaseInv
    <2>. QED
      BY <2>5, <2>6
  <1>. QED
    BY <1>1, <1>2, <1>3, <1>4, <1>5 DEF Plugin

\* Every step leaves the session with the operations that need it.
LEMMA LeaseStep ==
    TypeOK /\ SessionForOperations /\ LeaseInv /\ [Next]_vars => SessionForOperations' /\ LeaseInv'
  <1>. SUFFICES ASSUME TypeOK, SessionForOperations, LeaseInv, [Next]_vars
                PROVE  SessionForOperations' /\ LeaseInv'
    OBVIOUS
  <1>0. load.plat \subseteq Plat
    BY LoadTyped DEF TypeOK
  <1>. DEFINE Goal == SessionForOperations' /\ LeaseInv'
  <1>1. ASSUME NEW o \in load.op, Call(o) \/ RetrySave(o) \/ Ambiguous(o) PROVE Goal
    BY <1>1, FrontLease
  <1>2. ASSUME NEW q \in wire, Serve(q) PROVE Goal
    BY <1>2, ServeLease
  <1>3. CASE Worker
    BY <1>3, WorkerLease
  <1>4. ASSUME NEW p \in load.plat, Plugin(p) PROVE Goal
    BY <1>0, <1>4, PluginLease
  <1>5. CASE UNCHANGED vars
    BY <1>5, LeaseKept DEF vars, front, vault, books, platform, pending
  <1>. QED
    BY <1>1, <1>2, <1>3, <1>4, <1>5 DEF Next, Worker

-----------------------------------------------------------------------------
(* What a front end concludes from its answers. *)

\* The one request of a front end that waits.
LEMMA AwaitedCases ==
    ASSUME NEW o \in Op
    PROVE  /\ \A s : s \notin Waiting => Awaited(o, s) = {}
           /\ \A s : \A q \in Awaited(o, s) :
                 /\ q.op = o /\ ~q.late /\ s \in Waiting
                 /\ Awaited(o, s) = {q}
                 /\ q.cmd = "mutate" <=> s \in Mutating
                 /\ q.cmd = "save" <=> s \notin Mutating
  <1>1. \A s : s \notin Waiting => Awaited(o, s) = {}
    BY DEF Awaited
  <1>2. ASSUME NEW s, NEW q \in Awaited(o, s)
        PROVE  /\ q.op = o /\ ~q.late /\ s \in Waiting
               /\ Awaited(o, s) = {q}
               /\ q.cmd = "mutate" <=> s \in Mutating
               /\ q.cmd = "save" <=> s \notin Mutating
    <2>1. s \in Waiting
      BY DEF Awaited
    <2>2. q = [op |-> o, cmd |-> IF s \in Mutating THEN "mutate" ELSE "save", late |-> FALSE]
          /\ Awaited(o, s) = {q}
      BY DEF Awaited
    <2>. QED
      BY <2>1, <2>2
  <1>. QED
    BY <1>1, <1>2

\* The states that say that the mutation was executed.
Executed == {"save", "saveAgain", "saveFailed", "done", "expired"}

\* A front end goes from one state to another: the requests that are new are its
\* own, and the one it waited for is gone or given up.
LEMMA Continued ==
    ASSUME TypeOK, RequestsInv, AnswersTrue,
           NEW o \in Op, NEW s \in Stage \ {"idle"}, NEW rest,
           Continue(o, s, rest), UNCHANGED runs,
           \A q \in rest : q \in wire \/ (q.op = o /\ q.late),
           \A q \in rest : q.op = o => q.late,
           \A q \in rest : q.op = o /\ q.cmd = "save" => runs[o] # 0,
           calls' \in [Op -> 0 .. MaxCalls], calls'[o] # 0,
           \A x \in Op \ {o} : calls'[x] = calls[x],
           s \in Executed => runs[o] # 0,
           s \in {"first", "failed"} /\ calls'[o] = 1 =>
              runs[o] = 0 /\ \A q \in rest : q.op # o
    PROVE  RequestsInv' /\ AnswersTrue'
  <1>1. /\ client' = [client EXCEPT ![o] = s] /\ wire' = rest \cup Awaited(o, s)
        /\ client \in [Op -> Stage] /\ wire \subseteq Request /\ runs \in [Op -> Nat]
    BY DEF Continue, TypeOK, Stage
  <1>2. client'[o] = s /\ \A x \in Op \ {o} : client'[x] = client[x]
    BY <1>1
  <1>3. \A q \in Awaited(o, s) : q.op = o /\ ~q.late /\ (q.cmd = "save" => runs[o] # 0)
    BY AwaitedCases DEF Mutating, Waiting, Executed
  <1>4. \A q \in wire' : q.op \in Op
    BY <1>1, <1>3 DEF Request
  <1>5. \A q \in wire' : ~q.late => q \in Awaited(q.op, client'[q.op])
    BY <1>1, <1>2, <1>3, <1>4 DEF RequestsInv
  <1>6. \A q \in wire' : q.cmd = "save" => runs'[q.op] # 0
    BY <1>1, <1>3 DEF RequestsInv
  <1>7. \A x \in Op : client'[x] = "idle" =>
           calls'[x] = 0 /\ runs'[x] = 0 /\ \A q \in wire' : q.op # x
    BY <1>1, <1>2, <1>3 DEF RequestsInv
  <1>8. \A x \in Op : client'[x] # "idle" => calls'[x] # 0
    BY <1>2 DEF RequestsInv
  <1>9. ASSUME NEW x \in Op, client'[x] \in {"first", "failed"}, calls'[x] = 1
        PROVE  runs'[x] = 0 /\ \A q \in wire' : q.op = x => ~q.late
    <2>1. CASE x = o
      BY <1>1, <1>2, <1>3, <1>9, <2>1
    <2>2. CASE x # o
      <3>1. client[x] \in {"first", "failed"} /\ calls[x] = 1
        BY <1>2, <1>9, <2>2
      <3>2. \A q \in wire' : q.op = x => q \in wire
        BY <1>1, <1>3, <2>2
      <3>. QED
        BY <3>1, <3>2 DEF RequestsInv
    <2>. QED
      BY <2>1, <2>2
  <1>10. ASSUME NEW x \in Op
         PROVE  /\ client'[x] = "failed" /\ calls'[x] = 1 => runs'[x] = 0
                /\ client'[x] \in Executed => runs'[x] >= 1
    <2>1. CASE x = o
      BY <1>1, <1>2, <1>9, <2>1
    <2>2. CASE x # o
      BY <1>1, <1>2, <1>9, <2>2 DEF AnswersTrue, Executed
    <2>. QED
      BY <2>1, <2>2
  <1>11. AnswersTrue'
    BY <1>10 DEF AnswersTrue, Executed
  <1>. QED
    BY <1>5, <1>6, <1>7, <1>8, <1>9, <1>11 DEF RequestsInv

\* A call, a retry or a transport that gives up: nothing is concluded too early.
LEMMA FrontOutcomes ==
    ASSUME TypeOK, RequestsInv, AnswersTrue, NEW o \in Op,
           load.calls \in 0 .. MaxCalls,
           Call(o) \/ RetrySave(o) \/ Ambiguous(o)
    PROVE  RequestsInv' /\ AnswersTrue'
  <1>0. /\ client \in [Op -> Stage] /\ wire \subseteq Request /\ runs \in [Op -> Nat]
        /\ calls \in [Op -> 0 .. MaxCalls] /\ MaxCalls \in Nat
    BY BridgeAssumption DEF TypeOK, Stage
  <1>a. runs' = runs
    BY DEF Call, RetrySave, Ambiguous, books
  <1>1. CASE Call(o) \/ RetrySave(o)
    <2>. DEFINE s == IF client[o] = "saveFailed" THEN "save" ELSE "first"
    <2>1. /\ client[o] \in {"idle", "unknown", "saveFailed"}
          /\ Continue(o, s, wire)
          /\ calls' = [calls EXCEPT ![o] = @ + 1] /\ calls[o] < load.calls
      BY <1>1 DEF Call, RetrySave
    <2>2. /\ calls' \in [Op -> 0 .. MaxCalls] /\ calls'[o] = calls[o] + 1
          /\ \A x \in Op \ {o} : calls'[x] = calls[x]
      BY <1>0, <2>1
    <2>3. \A q \in wire : q.op = o => q.late
      BY <2>1, AwaitedCases DEF RequestsInv, Waiting
    <2>4. s \in Stage \ {"idle"}
      BY DEF Stage, Waiting
    <2>5. s \in Executed => runs[o] # 0
      BY <1>0 DEF AnswersTrue, Executed
    <2>6. s \in {"first", "failed"} /\ calls'[o] = 1 =>
             runs[o] = 0 /\ \A q \in wire : q.op # o
      BY <1>0, <2>1, <2>2 DEF RequestsInv
    <2>7. calls'[o] # 0 /\ \A q \in wire : q.op = o /\ q.cmd = "save" => runs[o] # 0
      BY <1>0, <2>2 DEF RequestsInv
    <2>. HIDE DEF s
    <2>. QED
      BY <1>a, <2>1, <2>2, <2>3, <2>4, <2>5, <2>6, <2>7, Continued
  <1>2. CASE Ambiguous(o)
    <2>. DEFINE aw == Awaited(o, client[o])
                s == After(client[o], "lost")
    <2>1. PICK lost \in SUBSET aw :
            Continue(o, s, (wire \ aw) \cup {[q EXCEPT !.late = TRUE] : q \in aw \ lost})
      BY <1>2 DEF Ambiguous
    <2>. DEFINE rest == (wire \ aw) \cup {[q EXCEPT !.late = TRUE] : q \in aw \ lost}
    <2>2. calls' = calls /\ client[o] \in Waiting
      BY <1>2 DEF Ambiguous
    <2>3. /\ s \in Stage \ {"idle", "first", "failed"}
          /\ s \in Executed => client[o] \in Executed
      BY <2>2, AfterCases DEF Stage, Waiting, Executed
    <2>4. \A q \in aw : /\ q.op = o /\ ~q.late
                        /\ q.cmd = "save" => client[o] \in Executed
      BY <2>2, AwaitedCases DEF Executed, Waiting, Mutating
    <2>5. \A q \in aw : /\ [q EXCEPT !.late = TRUE].op = o
                        /\ [q EXCEPT !.late = TRUE].late
                        /\ [q EXCEPT !.late = TRUE].cmd = q.cmd
      <3>1. aw \subseteq Request
        BY AwaitedTyped
      <3>. QED
        BY <2>4, <3>1 DEF Request
    <2>6. client[o] \in Executed => runs[o] # 0
      BY <1>0 DEF AnswersTrue, Executed
    <2>7. /\ \A q \in rest : q \in wire \/ (q.op = o /\ q.late)
          /\ \A q \in rest : q.op = o => q.late
          /\ \A q \in rest : q.op = o /\ q.cmd = "save" => runs[o] # 0
      <3>1. ASSUME NEW q \in wire \ aw
            PROVE  /\ q.op = o => q.late
                   /\ q.op = o /\ q.cmd = "save" => runs[o] # 0
        BY DEF RequestsInv
      <3>2. ASSUME NEW q \in aw
            PROVE  /\ [q EXCEPT !.late = TRUE].op = o /\ [q EXCEPT !.late = TRUE].late
                   /\ [q EXCEPT !.late = TRUE].cmd = "save" => runs[o] # 0
        BY <2>4, <2>5, <2>6
      <3>3. \A q \in rest : q \in wire \ aw \/ \E r \in aw : q = [r EXCEPT !.late = TRUE]
        OBVIOUS
      <3>. HIDE DEF rest, aw
      <3>. QED
        BY <3>1, <3>2, <3>3
    <2>8. calls'[o] # 0
      BY <1>0, <2>2 DEF RequestsInv, Waiting
    <2>9. Continue(o, s, rest)
      BY <2>1
    <2>10. /\ s \in Stage \ {"idle"}
           /\ s \in Executed => runs[o] # 0
           /\ s \notin {"first", "failed"}
      BY <2>3, <2>6
    <2>11. calls' \in [Op -> 0 .. MaxCalls] /\ \A x \in Op \ {o} : calls'[x] = calls[x]
      BY <1>0, <2>2
    <2>. HIDE DEF rest, s, aw
    <2>. QED
      BY <1>a, <2>7, <2>8, <2>9, <2>10, <2>11, Continued
  <1>. QED
    BY <1>1, <1>2

\* An answer, or its loss: the worker executed nothing, or the mutation that is
\* answered.
LEMMA Answered ==
    ASSUME TypeOK, RequestsInv, AnswersTrue, NEW q \in wire,
           NEW answer \in {"ok", "error", "expired"}, Reply(q, answer),
           UNCHANGED runs,
           q.cmd = "mutate" /\ answer # "error" => runs[q.op] # 0
    PROVE  RequestsInv' /\ AnswersTrue'
  <1>0. /\ client \in [Op -> Stage] /\ wire \subseteq Request /\ runs \in [Op -> Nat]
        /\ calls \in [Op -> 0 .. MaxCalls] /\ q.op \in Op /\ q \in Request
        /\ calls' = calls
    BY DEF TypeOK, Stage, Request, Reply
  <1>1. CASE q.late
    BY <1>0, <1>1 DEF Reply, RequestsInv, AnswersTrue
  <1>2. CASE ~q.late
    <2>. DEFINE o == q.op
                rest == wire \ {q}
    <2>1. PICK a \in {answer, "lost"} : Continue(o, After(client[o], a), rest)
      BY <1>2 DEF Reply
    <2>. DEFINE s == After(client[o], a)
    <2>2. q \in Awaited(o, client[o])
      BY <1>2 DEF RequestsInv
    <2>3. /\ client[o] \in Waiting
          /\ q.cmd = "mutate" <=> client[o] \in Mutating
          /\ Awaited(o, client[o]) = {q}
      BY <1>0, <2>2, AwaitedCases
    <2>4. \A r \in rest : r.op = o => r.late
      BY <2>3 DEF RequestsInv
    <2>5. calls[o] # 0
      BY <1>0, <2>3 DEF RequestsInv, Waiting
    <2>6. client[o] \in {"save", "saveAgain"} => runs[o] # 0
      BY <1>0 DEF AnswersTrue
    <2>7. client[o] = "first" /\ calls[o] = 1 =>
             runs[o] = 0 /\ \A r \in rest : r.op # o
      BY <1>0, <2>4 DEF RequestsInv
    <2>8. /\ s \in Stage \ {"idle", "first"}
          /\ s = "failed" => client[o] = "first"
          /\ s \in Executed => client[o] \in {"save", "saveAgain"}
                                 \/ (client[o] \in Mutating /\ answer # "error")
      BY <2>3, AfterCases DEF Stage, Waiting, Executed, Mutating
    <2>9. s \in Executed => runs[o] # 0
      BY <2>3, <2>6, <2>8
    <2>10. \A r \in rest : r.cmd = "save" => runs[r.op] # 0
      BY DEF RequestsInv
    <2>11. /\ s \in Stage \ {"idle"}
           /\ s \in {"first", "failed"} /\ calls'[o] = 1 =>
                runs[o] = 0 /\ \A r \in rest : r.op # o
      BY <1>0, <2>7, <2>8
    <2>12. /\ calls' \in [Op -> 0 .. MaxCalls] /\ calls'[o] # 0
           /\ \A x \in Op \ {o} : calls'[x] = calls[x]
      BY <1>0, <2>5
    <2>13. /\ \A r \in rest : r \in wire \/ (r.op = o /\ r.late)
           /\ \A r \in rest : r.op = o /\ r.cmd = "save" => runs[o] # 0
      BY <2>10
    <2>14. Continue(o, s, rest) /\ o \in Op
      BY <1>0, <2>1
    <2>. HIDE DEF rest, s, o
    <2>. QED
      BY <2>4, <2>9, <2>11, <2>12, <2>13, <2>14, Continued
  <1>. QED
    BY <1>1, <1>2

\* What the worker remembers is kept by whatever leaves it and the front ends
\* alone; a lock drops responses only.
LEMMA BooksKept ==
    ASSUME RequestsInv, ReceiptsInv, OutcomesTrue,
           UNCHANGED <<client, calls, wire, runs, evicted>>, Keys(receipts') = Keys(receipts)
    PROVE  RequestsInv' /\ ReceiptsInv' /\ OutcomesTrue'
  BY DEF RequestsInv, ReceiptsInv, OutcomesTrue, ExecutedOnce, AnswersTrue

\* A mutation is executed for a request that is on its way.
LEMMA ExecuteOutcomes ==
    ASSUME TypeOK, RequestsInv, ReceiptsInv, OutcomesTrue, NEW q \in wire, Execute(q)
    PROVE  RequestsInv' /\ ReceiptsInv' /\ OutcomesTrue'
  <1>. DEFINE o == q.op
  <1>0. /\ client \in [Op -> Stage] /\ wire \subseteq Request /\ runs \in [Op -> Nat]
        /\ calls \in [Op -> 0 .. MaxCalls] /\ o \in Op
    BY DEF TypeOK, Stage, Request
  <1>1. /\ q.cmd = "mutate" /\ o \notin Keys(receipts)
        /\ runs' = [runs EXCEPT ![o] = @ + 1] /\ Reply(q, "ok")
    BY DEF Execute
  <1>2. /\ runs'[o] = runs[o] + 1 /\ runs'[o] # 0
        /\ \A x \in Op \ {o} : runs'[x] = runs[x]
    BY <1>0, <1>1
  <1>3. /\ evicted \subseteq evicted'
        /\ o \in Keys(receipts') /\ Keys(receipts') \subseteq Keys(receipts) \cup {o}
        /\ Keys(receipts) \subseteq Keys(receipts') \cup evicted'
    BY <1>0, PushReceipt DEF Execute
  <1>4. ReceiptsInv'
    BY <1>2, <1>3 DEF ReceiptsInv
  <1>5. ExecutedOnce'
    BY <1>0, <1>1, <1>2, <1>3 DEF ExecutedOnce, OutcomesTrue, ReceiptsInv
  <1>6. AnswersTrue /\ calls' = calls
    BY <1>1 DEF OutcomesTrue, Reply
  <1>7. CASE q.late
    <2>1. client' = client /\ wire' = wire \ {q}
      BY <1>1, <1>7 DEF Reply
    <2>2. ~(client[o] \in {"first", "failed"} /\ calls[o] = 1) /\ client[o] # "idle"
      BY <1>0, <1>7 DEF RequestsInv
    <2>3. RequestsInv'
      <3>1. \A r \in wire' : ~r.late => r \in Awaited(r.op, client'[r.op])
        BY <2>1 DEF RequestsInv
      <3>2. \A r \in wire' : r.cmd = "save" => runs'[r.op] # 0
        BY <1>0, <1>2, <2>1 DEF RequestsInv, Request
      <3>3. \A x \in Op : client'[x] = "idle" =>
               calls'[x] = 0 /\ runs'[x] = 0 /\ \A r \in wire' : r.op # x
        BY <1>2, <1>6, <2>1, <2>2 DEF RequestsInv
      <3>4. \A x \in Op : client'[x] # "idle" => calls'[x] # 0
        BY <1>6, <2>1 DEF RequestsInv
      <3>5. \A x \in Op : client'[x] \in {"first", "failed"} /\ calls'[x] = 1 =>
               runs'[x] = 0 /\ \A r \in wire' : r.op = x => ~r.late
        BY <1>2, <1>6, <2>1, <2>2 DEF RequestsInv
      <3>. QED
        BY <3>1, <3>2, <3>3, <3>4, <3>5 DEF RequestsInv
    <2>4. AnswersTrue'
      BY <1>0, <1>2, <1>6, <2>1, <2>2 DEF AnswersTrue
    <2>. QED
      BY <1>4, <1>5, <2>3, <2>4 DEF OutcomesTrue
  <1>8. CASE ~q.late
    <2>1. PICK a \in {"ok", "lost"} : Continue(o, After(client[o], a), wire \ {q})
      BY <1>1, <1>8 DEF Reply
    <2>2. q \in Awaited(o, client[o])
      BY <1>8 DEF RequestsInv
    <2>3. client[o] \in Mutating /\ Awaited(o, client[o]) = {q}
      BY <1>0, <1>1, <2>2, AwaitedCases
    <2>. DEFINE s == After(client[o], a)
    <2>4. s \in {"save", "again", "unknown"}
      BY <2>3, AfterCases DEF Mutating, Waiting
    <2>5. /\ client'[o] = s /\ \A x \in Op \ {o} : client'[x] = client[x]
          /\ wire' = (wire \ {q}) \cup Awaited(o, s)
      BY <1>0, <2>1 DEF Continue
    <2>. HIDE DEF s, o
    <2>6. \A r \in Awaited(o, s) : r.op = o /\ ~r.late
      BY <1>0, AwaitedCases
    <2>7. \A r \in wire' : r.op \in Op /\ (r.op # o => r \in wire)
      BY <1>0, <2>5, <2>6 DEF Request
    <2>8. \A r \in wire' : ~r.late => r \in Awaited(r.op, client'[r.op])
      <3>1. ASSUME NEW r \in wire', ~r.late, r.op = o
            PROVE  r \in Awaited(o, s)
        <4>1. r \notin wire \ {q}
          BY <2>3, <3>1 DEF RequestsInv
        <4>. QED
          BY <2>5, <4>1
      <3>. QED
        BY <2>5, <2>7, <3>1 DEF RequestsInv
    <2>9. \A r \in wire' : r.cmd = "save" => runs'[r.op] # 0
      BY <1>2, <2>7 DEF RequestsInv
    <2>10. \A x \in Op : client'[x] = "idle" =>
              calls'[x] = 0 /\ runs'[x] = 0 /\ \A r \in wire' : r.op # x
      BY <1>2, <1>6, <2>4, <2>5, <2>7 DEF RequestsInv
    <2>11. \A x \in Op : client'[x] # "idle" => calls'[x] # 0
      BY <1>6, <2>3, <2>5 DEF RequestsInv, Mutating
    <2>12. \A x \in Op : client'[x] \in {"first", "failed"} /\ calls'[x] = 1 =>
              runs'[x] = 0 /\ \A r \in wire' : r.op = x => ~r.late
      BY <1>2, <1>6, <2>4, <2>5, <2>7 DEF RequestsInv
    <2>13. RequestsInv'
      BY <2>8, <2>9, <2>10, <2>11, <2>12 DEF RequestsInv
    <2>14. AnswersTrue'
      <3>1. ASSUME NEW x \in Op
            PROVE  /\ client'[x] = "failed" /\ calls'[x] = 1 => runs'[x] = 0
                   /\ client'[x] \in Executed => runs'[x] >= 1
        <4>1. CASE x = o
          BY <1>0, <1>2, <2>4, <2>5, <4>1
        <4>2. CASE x # o
          BY <1>2, <1>6, <2>5, <4>2 DEF AnswersTrue, Executed
        <4>. QED
          BY <4>1, <4>2
      <3>. QED
        BY <3>1 DEF AnswersTrue, Executed
    <2>. QED
      BY <1>4, <1>5, <2>13, <2>14 DEF OutcomesTrue
  <1>. QED
    BY <1>7, <1>8

\* Every step keeps the conclusions of the front ends true.
LEMMA OutcomesStep ==
    TypeOK /\ RequestsInv /\ ReceiptsInv /\ OutcomesTrue /\ [Next]_vars
      => RequestsInv' /\ ReceiptsInv' /\ OutcomesTrue'
  <1>. SUFFICES ASSUME TypeOK, RequestsInv, ReceiptsInv, OutcomesTrue, [Next]_vars
                PROVE  RequestsInv' /\ ReceiptsInv' /\ OutcomesTrue'
    OBVIOUS
  <1>. DEFINE Goal == RequestsInv' /\ ReceiptsInv' /\ OutcomesTrue'
  <1>0. load.op \subseteq Op /\ load.calls \in 0 .. MaxCalls /\ AnswersTrue /\ ExecutedOnce
    BY LoadTyped DEF TypeOK, OutcomesTrue
  <1>a. UNCHANGED books => ExecutedOnce' /\ ReceiptsInv'
    BY <1>0 DEF ExecutedOnce, ReceiptsInv, books
  <1>1. ASSUME NEW o \in load.op, Call(o) \/ RetrySave(o) \/ Ambiguous(o) PROVE Goal
    <2>1. RequestsInv' /\ AnswersTrue'
      BY <1>0, <1>1, FrontOutcomes
    <2>2. UNCHANGED books
      BY <1>1 DEF Call, RetrySave, Ambiguous
    <2>. QED
      BY <1>a, <2>1, <2>2 DEF OutcomesTrue
  <1>2. ASSUME NEW q \in wire, Serve(q) PROVE Goal
    <2>0. q.cmd \in {"mutate", "save"} /\ q.op \in Op
      BY DEF TypeOK, Request
    <2>1. CASE Execute(q)
      BY <2>1, ExecuteOutcomes
    <2>2. ASSUME Refuse(q) \/ ExecuteFails(q) \/ ReplaySave(q) \/ ExecuteSave(q) \/ Replay(q)
          PROVE  Goal
      <3>1. UNCHANGED <<receipts, runs, evicted>>
        BY <2>2 DEF Refuse, ExecuteFails, ReplaySave, ExecuteSave, Replay, books
      <3>2. ReceiptsInv' /\ ExecutedOnce'
        BY <1>0, <3>1 DEF ReceiptsInv, ExecutedOnce
      <3>3. PICK answer \in {"ok", "error", "expired"} :
               /\ Reply(q, answer)
               /\ q.cmd = "mutate" /\ answer # "error" => q.op \in Keys(receipts)
        BY <2>0, <2>2 DEF Refuse, ExecuteFails, ReplaySave, ExecuteSave, Replay, Keys
      <3>4. q.cmd = "mutate" /\ answer # "error" => runs[q.op] # 0
        BY <2>0, <3>3 DEF ReceiptsInv
      <3>5. RequestsInv' /\ AnswersTrue'
        BY <1>0, <3>1, <3>3, <3>4, Answered
      <3>. QED
        BY <3>2, <3>5 DEF OutcomesTrue
    <2>. QED
      BY <1>2, <2>1, <2>2 DEF Serve
  <1>3. CASE Worker
    <2>1. UNCHANGED <<client, calls, wire, runs, evicted>>
      BY <1>3, SubmissionKeeps
         DEF Worker, SaveVault, LockSession, Unlock, Reload, IdleLock, front, books
    <2>2. Scrub \/ receipts' = receipts
      BY <1>3, SubmissionKeeps
         DEF Worker, SaveVault, LockSession, Unlock, Reload, IdleLock, books
    <2>3. Keys(receipts') = Keys(receipts)
      BY <2>2, ScrubKeeps
    <2>. QED
      BY <2>1, <2>3, BooksKept
  <1>4. ASSUME NEW p \in load.plat, Plugin(p) PROVE Goal
    <2>1. UNCHANGED <<client, calls, wire, runs, evicted>>
      BY <1>4 DEF Plugin, PluginBegin, Prepare, UseVerification, Register, Commit, PluginEnd,
                  EndOperation, front, books, pending
    <2>2. Scrub \/ receipts' = receipts
      BY <1>4 DEF Plugin, PluginBegin, Prepare, UseVerification, Register, Commit, PluginEnd,
                  EndOperation, books
    <2>3. Keys(receipts') = Keys(receipts)
      BY <2>2, ScrubKeeps
    <2>. QED
      BY <2>1, <2>3, BooksKept
  <1>5. CASE UNCHANGED vars
    BY <1>5, BooksKept DEF vars, front, books, pending
  <1>. QED
    BY <1>1, <1>2, <1>3, <1>4, <1>5 DEF Next, Worker

-----------------------------------------------------------------------------
(* The edits of the open vault, of the stored one and of the copies. *)

\* The passkeys in the vaults: a copy keeps its passkey, and a new one is that
\* of an operation that registers.
LEMMA PasskeyKept ==
    ASSUME PasskeyInv, Held' \subseteq Held,
           \A r \in Held' : copy'[r] = copy[r],
           \A r \in Plat : plugin'[r] \in {"idle", "begun", "prepared"} =>
               plugin[r] \in {"idle", "begun", "prepared"},
           \/ live'.passkey \in {live.passkey, stored.passkey}
           \/ \E r \in Held : live'.passkey = copy[r].passkey,
           stored'.passkey \in {live.passkey, stored.passkey}
    PROVE  PasskeyInv'
  BY DEF PasskeyInv

\* Whatever leaves the copies and the passkey of the open vault alone and takes
\* no edit out of it, or happens when there is no copy.
LEMMA CopiesKept ==
    ASSUME CopiesInv, UNCHANGED load, Held' \subseteq Held,
           \A r \in Held' : copy'[r] = copy[r],
           \/ Held' = {}
           \/ live'.passkey = live.passkey /\ live.edits \subseteq live'.edits
    PROVE  CopiesInv'
  <1>1. CASE Held' = {}
    <2>1. Ordered({})' /\ {} \in SUBSET (Plat \X Plat)
      BY <1>1 DEF Ordered
    <2>. QED
      BY <1>1, <2>1 DEF CopiesInv
  <1>2. CASE live'.passkey = live.passkey /\ live.edits \subseteq live'.edits
    <2>1. PICK older \in SUBSET (Plat \X Plat) : Ordered(older)
      BY DEF CopiesInv
    <2>2. Ordered(older)'
      BY <1>2, <2>1 DEF Ordered
    <2>3. \A p \in Held' : copy'[p].edits \subseteq live'.edits \cap load'.shared
      BY <1>2 DEF CopiesInv
    <2>. QED
      BY <2>1, <2>2, <2>3 DEF CopiesInv
  <1>. QED
    BY <1>1, <1>2

\* A registration is the last one.
LEMMA RegisterCopies ==
    ASSUME TypeOK, PasskeyInv, CopiesInv, NEW p \in Plat, Register(p)
    PROVE  CopiesInv'
  <1>0. /\ copy \in [Plat -> Vault \cup {NoCopy}] /\ live \in Vault
        /\ p \notin Held => copy[p] = NoCopy
    BY DEF TypeOK, Held
  <1>. DEFINE c == [live EXCEPT !.edits = @ \cap load.shared]
  <1>1. /\ c.edits = live.edits \cap load.shared /\ c.passkey = live.passkey
        /\ live'.edits = live.edits /\ live'.passkey = p
        /\ copy' = [copy EXCEPT ![p] = c] /\ load' = load
    BY <1>0 DEF Register, Vault, front, pending
  <1>2. /\ copy'[p] = c
        /\ \A r \in Plat \ {p} : copy'[r] = copy[r]
        /\ Held' \subseteq Held \cup {p}
        /\ \A r \in Plat \ {p} : r \in Held' <=> r \in Held
    BY <1>0, <1>1 DEF Held
  <1>3. \A r \in Held' : copy'[r].edits \subseteq live'.edits \cap load'.shared
    BY <1>1, <1>2 DEF CopiesInv, Held
  <1>4. PICK older \in SUBSET (Plat \X Plat) : Ordered(older)
    BY DEF CopiesInv
  <1>. DEFINE next == {e \in older : e[1] # p /\ e[2] # p} \cup {<<r, p>> : r \in Plat \ {p}}
  <1>5. /\ \A r \in Plat, s \in Plat : r # p /\ s # p => (<<r, s>> \in next <=> <<r, s>> \in older)
        /\ \A r \in Plat \ {p} : <<r, p>> \in next
        /\ \A r \in Plat : <<p, r>> \notin next
        /\ next \in SUBSET (Plat \X Plat)
    OBVIOUS
  <1>6. /\ live.passkey # p
        /\ \A r \in Held : copy[r].passkey # p
    BY DEF PasskeyInv, Register
  <1>. HIDE DEF next, c
  <1>7. \A r \in Held', s \in Held' : r # s =>
           (<<r, s>> \in next /\ copy'[r].edits \subseteq copy'[s].edits) \/ <<s, r>> \in next
    <2>1. ASSUME NEW r \in Held', NEW s \in Held', r # s, r # p, s # p
          PROVE  (<<r, s>> \in next /\ copy'[r].edits \subseteq copy'[s].edits) \/ <<s, r>> \in next
      BY <1>2, <1>4, <1>5, <2>1 DEF Ordered, Held
    <2>2. ASSUME NEW r \in Held', r # p
          PROVE  <<r, p>> \in next /\ copy'[r].edits \subseteq copy'[p].edits
      BY <1>1, <1>2, <1>3, <1>5, <2>2 DEF Held
    <2>. QED
      BY <2>1, <2>2
  <1>8. \A q \in Held', r \in Held' : live'.passkey = q => <<q, r>> \notin next
    BY <1>1, <1>5 DEF Held
  <1>9. \A r \in Held', q \in Held', s \in Held' :
           copy'[r].passkey = q /\ <<q, s>> \in next => s = r \/ <<r, s>> \in next
    <2>. SUFFICES ASSUME NEW r \in Held', NEW q \in Held', NEW s \in Held',
                         copy'[r].passkey = q, <<q, s>> \in next
                  PROVE  s = r \/ <<r, s>> \in next
      OBVIOUS
    <2>0. r \in Plat /\ q \in Plat /\ s \in Plat
      BY DEF Held
    <2>1. q # p
      BY <1>5, <2>0
    <2>2. CASE s = p
      BY <1>5, <2>0, <2>2
    <2>3. CASE s # p
      <3>1. <<q, s>> \in older /\ q \in Held /\ s \in Held
        BY <1>2, <1>5, <2>0, <2>1, <2>3
      <3>2. CASE r = p
        <4>1. live.passkey = q
          BY <1>1, <1>2, <3>2
        <4>. QED
          BY <1>4, <3>1, <4>1 DEF Ordered
      <3>3. CASE r # p
        <4>1. r \in Held /\ copy[r].passkey = q
          BY <1>2, <2>0, <3>3
        <4>. QED
          BY <1>4, <1>5, <2>0, <2>3, <3>1, <3>3, <4>1 DEF Ordered
      <3>. QED
        BY <3>2, <3>3
    <2>. QED
      BY <2>2, <2>3
  <1>10. Ordered(next)'
    BY <1>7, <1>8, <1>9 DEF Ordered
  <1>. QED
    BY <1>3, <1>5, <1>10 DEF CopiesInv

\* The rollback of p takes out the edits since its registration: what is left is
\* what it was then, and the registration before it is the last one again.
LEMMA RollbackCopies ==
    ASSUME TypeOK, CopiesInv, NEW p \in Plat,
           copy' = [copy EXCEPT ![p] = NoCopy], live' = RolledBack(p), UNCHANGED load
    PROVE  CopiesInv' /\ live'.edits \subseteq live.edits
  <1>0. copy \in [Plat -> Vault \cup {NoCopy}] /\ live \in Vault
    BY DEF TypeOK
  <1>1. Held' = Held \ {p} /\ \A r \in Held' : copy'[r] = copy[r]
    BY <1>0 DEF Held
  <1>2. CASE p \in Held /\ live.passkey = p
    <2>1. /\ live'.edits = (live.edits \ load.shared) \cup copy[p].edits
          /\ live'.passkey = copy[p].passkey
      BY <1>2 DEF RolledBack, Held
    <2>2. PICK older \in SUBSET (Plat \X Plat) : Ordered(older)
      BY DEF CopiesInv
    <2>3. \A r \in Held : <<p, r>> \notin older
      BY <1>2, <2>2 DEF Ordered
    <2>4. \A r \in Held' : copy'[r].edits \subseteq live'.edits \cap load'.shared
      <3>1. ASSUME NEW r \in Held'
            PROVE  copy[r].edits \subseteq copy[p].edits
        <4>1. r \in Held /\ r # p
          BY <1>1
        <4>. QED
          BY <1>2, <2>2, <2>3, <4>1 DEF Ordered
      <3>2. copy[p].edits \subseteq load.shared
        BY <1>2 DEF CopiesInv
      <3>. QED
        BY <1>1, <2>1, <3>1, <3>2
    <2>5. \A r \in Held', s \in Held' : r # s =>
             (<<r, s>> \in older /\ copy'[r].edits \subseteq copy'[s].edits)
               \/ <<s, r>> \in older
      BY <1>1, <2>2 DEF Ordered
    <2>6. \A q \in Held', r \in Held' : live'.passkey = q => <<q, r>> \notin older
      <3>1. ASSUME NEW q \in Held', NEW r \in Held', live'.passkey = q, <<q, r>> \in older
            PROVE  FALSE
        <4>1. r = p \/ <<p, r>> \in older
          BY <1>1, <1>2, <2>1, <2>2, <3>1 DEF Ordered
        <4>. QED
          BY <1>1, <2>3, <4>1
      <3>. QED
        BY <3>1
    <2>7. \A r \in Held', q \in Held', s \in Held' :
             copy'[r].passkey = q /\ <<q, s>> \in older => s = r \/ <<r, s>> \in older
      BY <1>1, <2>2 DEF Ordered
    <2>8. Ordered(older)'
      BY <2>5, <2>6, <2>7 DEF Ordered
    <2>9. copy[p].edits \subseteq live.edits
      BY <1>2 DEF CopiesInv
    <2>. QED
      BY <2>1, <2>2, <2>4, <2>8, <2>9 DEF CopiesInv
  <1>3. CASE ~(p \in Held /\ live.passkey = p)
    <2>1. live' = live
      BY <1>3 DEF RolledBack, Held
    <2>. QED
      BY <1>1, <2>1, CopiesKept
  <1>. QED
    BY <1>2, <1>3

\* Every step leaves an operation that has not registered without a passkey.
LEMMA PasskeyStep ==
    TypeOK /\ PasskeyInv /\ [Next]_vars => PasskeyInv'
  <1>. SUFFICES ASSUME TypeOK, PasskeyInv, [Next]_vars PROVE PasskeyInv'
    OBVIOUS
  <1>0. load.plat \subseteq Plat /\ live \in Vault /\ stored \in Vault
        /\ copy \in [Plat -> Vault \cup {NoCopy}]
        /\ plugin \in [Plat -> {"idle", "begun", "prepared", "registered", "used",
                                "ending", "ended"}]
    BY LoadTyped DEF TypeOK
  <1>1. CASE UNCHANGED <<copy, plugin, live, stored>>
    BY <1>1, PasskeyKept DEF Held
  <1>2. ASSUME NEW o \in load.op, Call(o) \/ RetrySave(o) \/ Ambiguous(o) PROVE PasskeyInv'
    BY <1>1, <1>2 DEF Call, RetrySave, Ambiguous, vault, platform, pending
  <1>3. ASSUME NEW q \in wire, Serve(q) PROVE PasskeyInv'
    <2>1. CASE Execute(q)
      <3>1. live'.passkey = live.passkey /\ (stored' = live' \/ stored' = stored)
        BY <1>0, <2>1 DEF Execute, InlineSave, Stores, SaveFails, Vault
      <3>2. UNCHANGED <<copy, plugin>>
        BY <2>1 DEF Execute, platform, pending
      <3>. QED
        BY <3>1, <3>2, PasskeyKept DEF Held
    <2>2. CASE ExecuteSave(q)
      <3>1. live' = live /\ (stored' = live \/ stored' = stored) /\ UNCHANGED <<copy, plugin>>
        BY <2>2 DEF ExecuteSave, Stores, SaveFails, platform, pending
      <3>. QED
        BY <3>1, PasskeyKept DEF Held
    <2>. QED
      BY <1>1, <1>3, <2>1, <2>2
         DEF Serve, Refuse, Replay, ExecuteFails, ReplaySave, vault, platform, pending
  <1>4. CASE Worker
    <2>1. /\ live' \in {live, stored, stored'} /\ stored' \in {live, stored}
          /\ UNCHANGED <<copy, plugin>>
      BY <1>4, SubmissionKeeps
         DEF Worker, SaveVault, LockSession, Unlock, Reload, IdleLock, PersistUnsaved, Drop,
             Stores, SaveFails, platform
    <2>. QED
      BY <2>1, PasskeyKept DEF Held
  <1>5. ASSUME NEW p \in load.plat, Plugin(p) PROVE PasskeyInv'
    <2>0. p \in Plat
      BY <1>0
    <2>1. CASE PluginBegin(p) \/ Prepare(p) \/ UseVerification(p) \/ PluginEnd(p)
      <3>1. /\ copy' = copy /\ stored' = stored /\ live' \in {live, stored}
        BY <2>1 DEF PluginBegin, Prepare, UseVerification, PluginEnd, vault
      <3>2. \A r \in Plat : plugin'[r] \in {"idle", "begun", "prepared"} =>
               plugin[r] \in {"idle", "begun", "prepared"}
        BY <1>0, <2>0, <2>1 DEF PluginBegin, Prepare, UseVerification, PluginEnd
      <3>. QED
        BY <3>1, <3>2, PasskeyKept DEF Held
    <2>2. CASE Register(p)
      <3>1. /\ live'.passkey = p /\ stored' = stored
            /\ copy'[p].passkey = live.passkey
            /\ \A r \in Plat \ {p} : copy'[r] = copy[r]
        BY <1>0, <2>0, <2>2 DEF Register, Vault
      <3>2. \A r \in Plat : plugin'[r] \in {"idle", "begun", "prepared"} =>
               r # p /\ plugin[r] \in {"idle", "begun", "prepared"}
        BY <1>0, <2>0, <2>2 DEF Register
      <3>. QED
        BY <3>1, <3>2 DEF PasskeyInv, Held
    <2>3. CASE Commit(p) \/ EndOperation(p)
      <3>1. /\ Held' \subseteq Held /\ \A r \in Held' : copy'[r] = copy[r]
        BY <1>0, <2>0, <2>3 DEF Commit, EndOperation, Held
      <3>2. \A r \in Plat : plugin'[r] \in {"idle", "begun", "prepared"} =>
               plugin[r] \in {"idle", "begun", "prepared"}
        BY <1>0, <2>0, <2>3 DEF Commit, EndOperation
      <3>3. stored'.passkey \in {live.passkey, stored.passkey}
        BY <1>0, <2>3 DEF Commit, EndOperation, Stores, SaveFails, Vault
      <3>4. live' \in {live, stored, RolledBack(p)}
        BY <2>3 DEF Commit, EndOperation, Drop
      <3>5. \/ live'.passkey \in {live.passkey, stored.passkey}
            \/ \E r \in Held : live'.passkey = copy[r].passkey
        BY <2>0, <3>4 DEF RolledBack, Held
      <3>. QED
        BY <3>1, <3>2, <3>3, <3>5, PasskeyKept
    <2>. QED
      BY <1>5, <2>1, <2>2, <2>3 DEF Plugin
  <1>6. CASE UNCHANGED vars
    BY <1>1, <1>6 DEF vars, vault, platform, pending
  <1>. QED
    BY <1>2, <1>3, <1>4, <1>5, <1>6 DEF Next, Worker

\* Every step keeps the copies in the order of their registrations.
LEMMA CopiesStep ==
    ASSUME TypeOK, SessionForOperations, LeaseInv, PasskeyInv, CopiesInv, [Next]_vars
    PROVE  CopiesInv'
  <1>0. load.plat \subseteq Plat /\ live \in Vault /\ copy \in [Plat -> Vault \cup {NoCopy}]
    BY LoadTyped DEF TypeOK
  <1>1. CASE UNCHANGED <<load, copy, live>>
    BY <1>1, CopiesKept DEF Held
  <1>2. ASSUME UNCHANGED <<load, copy>>, Held = {} PROVE CopiesInv'
    BY <1>2, CopiesKept DEF Held
  <1>3. ASSUME NEW o \in load.op, Call(o) \/ RetrySave(o) \/ Ambiguous(o) PROVE CopiesInv'
    BY <1>1, <1>3 DEF Call, RetrySave, Ambiguous, vault, platform, pending
  <1>4. ASSUME NEW q \in wire, Serve(q) PROVE CopiesInv'
    <2>1. CASE Execute(q)
      <3>1. /\ live'.passkey = live.passkey /\ live.edits \subseteq live'.edits
            /\ UNCHANGED <<load, copy>>
        BY <1>0, <2>1 DEF Execute, Vault, platform, pending
      <3>. QED
        BY <3>1, CopiesKept DEF Held
    <2>. QED
      BY <1>1, <1>4, <2>1
         DEF Serve, Refuse, Replay, ExecuteFails, ReplaySave, ExecuteSave, vault, platform, pending
  <1>5. CASE Worker
    <2>1. UNCHANGED <<load, copy>> /\ (live' = live \/ lease = {})
      BY <1>5, SubmissionKeeps
         DEF Worker, SaveVault, LockSession, Unlock, Reload, IdleLock, MayDiscard, platform
    <2>. QED
      BY <1>1, <1>2, <2>1 DEF LeaseInv
  <1>6. ASSUME NEW p \in load.plat, Plugin(p) PROVE CopiesInv'
    <2>0. p \in Plat
      BY <1>0
    <2>1. CASE PluginBegin(p) \/ UseVerification(p) \/ PluginEnd(p)
      BY <1>1, <2>1 DEF PluginBegin, UseVerification, PluginEnd, vault, front, pending
    <2>2. CASE Prepare(p)
      <3>1. UNCHANGED <<load, copy>> /\ (live' = live \/ ~unlocked)
        BY <2>2 DEF Prepare, front, pending
      <3>. QED
        BY <1>1, <1>2, <3>1 DEF SessionForOperations, LeaseInv
    <2>3. CASE Register(p)
      BY <2>0, <2>3, RegisterCopies
    <2>4. CASE Commit(p)
      <3>1. copy' = [copy EXCEPT ![p] = NoCopy] /\ load' = load
            /\ (live' = live \/ live' = RolledBack(p))
        BY <2>4 DEF Commit, front, pending
      <3>2. Held' \subseteq Held /\ \A r \in Held' : copy'[r] = copy[r]
        BY <1>0, <3>1 DEF Held
      <3>. QED
        BY <2>0, <3>1, <3>2, CopiesKept, RollbackCopies
    <2>5. CASE EndOperation(p)
      <3>1. copy' = [copy EXCEPT ![p] = NoCopy] /\ load' = load
            /\ (lease' = {} \/ live' = RolledBack(p))
        BY <2>5 DEF EndOperation, RelocksAfter, front, pending
      <3>2. Held' \subseteq Held /\ \A r \in Held' : copy'[r] = copy[r]
        BY <1>0, <3>1 DEF Held
      <3>3. Held' \subseteq lease'
        BY <2>0, <1>6, PluginLease DEF LeaseInv
      <3>. QED
        BY <2>0, <3>1, <3>2, <3>3, CopiesKept, RollbackCopies
    <2>. QED
      BY <1>6, <2>1, <2>2, <2>3, <2>4, <2>5 DEF Plugin
  <1>7. CASE UNCHANGED vars
    BY <1>1, <1>7 DEF vars, vault, platform, pending
  <1>. QED
    BY <1>3, <1>4, <1>5, <1>6, <1>7 DEF Next, Worker

\* What a step does with the edits: none leaves the open or the stored vault but
\* for a rollback or when it was forgotten, the bridge knows of the others that
\* are not stored, and saves are answered for what was stored.
EditsMoved ==
    /\ undone \subseteq undone'
    /\ forgotten \subseteq forgotten' \cup (live'.edits \cap stored'.edits)
    /\ live.edits \subseteq live'.edits \cup undone' \cup forgotten
    /\ stored.edits \subseteq stored'.edits \cup undone'
    /\ stored'.edits \subseteq live'.edits \cup undone'
    /\ live'.edits \subseteq stored'.edits \cup forgotten' \/ unsaved'
    /\ Elems(saves') \subseteq Elems(saves) \cup stored'.edits \cup undone' \cup forgotten'
    /\ \A o \in Op : runs'[o] # 0 => runs[o] # 0 \/ o \in live'.edits
    /\ \A o \in Op : client'[o] = "done" =>
          client[o] = "done" \/ o \in stored'.edits \cup undone' \cup forgotten'

\* Such a step keeps the account of the edits.
LEMMA MovedKeeps ==
    ASSUME EditsInv, EditsAccounted, EditsMoved
    PROVE  EditsInv' /\ EditsAccounted'
  <1>1. Elems(saves) \subseteq stored.edits \cup undone \cup forgotten
    BY DEF EditsInv, Elems
  <1>2. Elems(saves') \subseteq stored'.edits \cup undone' \cup forgotten'
    BY <1>1 DEF EditsMoved
  <1>3. EditsInv'
    BY <1>2 DEF EditsInv, EditsMoved, Elems
  <1>4. EditsAccounted'
    BY DEF EditsAccounted, EditsTracked, SavedIsStored, EditsMoved
  <1>. QED
    BY <1>3, <1>4

\* A front end is done when its save is answered.
LEMMA DoneAnswered ==
    ASSUME TypeOK, RequestsInv, NEW q \in wire, NEW answer \in {"ok", "error", "expired"},
           Reply(q, answer)
    PROVE  \A o \in Op : client'[o] = "done" =>
              client[o] = "done" \/ (o = q.op /\ q.cmd = "save" /\ answer = "ok")
  <1>0. client \in [Op -> Stage] /\ q.op \in Op /\ q \in Request
    BY DEF TypeOK, Stage, Request
  <1>1. CASE q.late
    BY <1>1 DEF Reply
  <1>2. CASE ~q.late
    <2>1. PICK a \in {answer, "lost"} :
               client' = [client EXCEPT ![q.op] = After(client[q.op], a)]
      BY <1>2 DEF Reply, Continue
    <2>2. q \in Awaited(q.op, client[q.op])
      BY <1>2 DEF RequestsInv
    <2>3. client[q.op] \in Waiting /\ (q.cmd = "save" <=> client[q.op] \notin Mutating)
      BY <1>0, <2>2, AwaitedCases
    <2>4. After(client[q.op], a) = "done" => q.cmd = "save" /\ a = "ok"
      BY <2>3, AfterCases DEF Waiting, Mutating
    <2>. QED
      BY <1>0, <2>1, <2>4
  <1>. QED
    BY <1>1, <1>2

\* Whatever does not touch the vaults.
LEMMA VaultsKept ==
    ASSUME EditsInv, EditsAccounted, UNCHANGED <<live, unsaved, stored, saves, undone, runs>>,
           forgotten' = forgotten,
           \A o \in Op : client'[o] = "done" =>
              client[o] = "done" \/ o \in stored.edits \cup undone \cup forgotten
    PROVE  EditsMoved
  BY DEF EditsMoved, EditsInv, EditsAccounted, EditsTracked

\* The front ends move no edit.
LEMMA FrontMoves ==
    ASSUME TypeOK, EditsInv, EditsAccounted, NEW o \in Op,
           Call(o) \/ RetrySave(o) \/ Ambiguous(o)
    PROVE  EditsMoved
  <1>1. UNCHANGED <<live, unsaved, stored, saves, undone, forgotten, runs>>
    BY DEF Call, RetrySave, Ambiguous, vault, books, platform, pending
  <1>2. client \in [Op -> Stage]
    BY DEF TypeOK, Stage
  <1>3. PICK s : client' = [client EXCEPT ![o] = s] /\ s # "done"
    BY AfterCases DEF Call, RetrySave, Ambiguous, Continue, Waiting
  <1>4. \A x \in Op : client'[x] = "done" => client[x] = "done"
    BY <1>2, <1>3
  <1>. QED
    BY <1>1, <1>4, VaultsKept

\* A request that is served: an edit is stored or known to be unsaved.
LEMMA ServeMoves ==
    ASSUME TypeOK, RequestsInv, EditsInv, EditsAccounted, NEW q \in wire, Serve(q)
    PROVE  EditsMoved
  <1>0. q.op \in Op /\ q.cmd \in {"mutate", "save"} /\ live \in Vault /\ stored \in Vault
        /\ runs \in [Op -> Nat]
    BY DEF TypeOK, Request
  <1>1. CASE Refuse(q) \/ Replay(q) \/ ExecuteFails(q) \/ ReplaySave(q)
    <2>1. UNCHANGED <<live, unsaved, stored, saves, undone, forgotten, runs>>
      BY <1>1 DEF Refuse, Replay, ExecuteFails, ReplaySave, vault, books, platform, pending
    <2>2. PICK answer \in {"ok", "error", "expired"} :
             /\ Reply(q, answer)
             /\ q.cmd = "save" /\ answer = "ok" => q.op \in Elems(saves)
      BY <1>1 DEF Refuse, Replay, ExecuteFails, ReplaySave, Elems
    <2>3. Elems(saves) \subseteq stored.edits \cup undone \cup forgotten
      BY DEF EditsInv, Elems
    <2>. QED
      BY <2>1, <2>2, <2>3, DoneAnswered, VaultsKept
  <1>2. CASE Execute(q)
    <2>1. /\ live'.edits = live.edits \cup {q.op} /\ undone' = undone /\ forgotten' = forgotten
          /\ Reply(q, "ok") /\ q.cmd = "mutate"
      BY <1>0, <1>2 DEF Execute, Vault, platform, pending
    <2>2. \A o \in Op : client'[o] = "done" => client[o] = "done"
      BY <2>1, DoneAnswered
    <2>3. \A o \in Op : runs'[o] # 0 => runs[o] # 0 \/ o \in live'.edits
      BY <1>0, <1>2, <2>1 DEF Execute
    <2>4. CASE stored' = live' /\ saves' = WithSave(saves, q.op)
      <3>1. Elems(saves') \subseteq Elems(saves) \cup {q.op}
        BY <1>0, <2>4, PushSave
      <3>. QED
        BY <2>1, <2>2, <2>3, <2>4, <3>1 DEF EditsMoved, EditsInv
    <2>5. CASE stored' = stored /\ unsaved' = TRUE /\ saves' = saves
      BY <2>1, <2>2, <2>3, <2>5 DEF EditsMoved, EditsInv
    <2>. QED
      BY <1>2, <2>4, <2>5 DEF Execute, InlineSave, Stores, SaveFails
  <1>3. CASE ExecuteSave(q)
    <2>1. /\ live' = live /\ undone' = undone /\ forgotten' = forgotten
          /\ runs' = runs /\ q.cmd = "save"
      BY <1>3 DEF ExecuteSave, platform, pending
    <2>2. CASE stored' = live /\ saves' = <<q.op>>
      <3>1. q.op \in live.edits \cup undone \cup forgotten
        BY <1>0, <2>1 DEF RequestsInv, EditsInv
      <3>2. Elems(saves') = {q.op}
        BY <2>2 DEF Elems
      <3>3. \A o \in Op : client'[o] = "done" => client[o] = "done" \/ o = q.op
        BY <1>3, DoneAnswered DEF ExecuteSave
      <3>. QED
        BY <2>1, <2>2, <3>1, <3>2, <3>3 DEF EditsMoved, EditsInv
    <2>3. CASE Reply(q, "error") /\ UNCHANGED <<stored, unsaved, saves>>
      <3>1. \A o \in Op : client'[o] = "done" => client[o] = "done"
        BY <2>3, DoneAnswered
      <3>. QED
        BY <2>1, <2>3, <3>1, VaultsKept
    <2>. QED
      BY <1>3, <2>2, <2>3 DEF ExecuteSave, Stores, SaveFails
  <1>. QED
    BY <1>1, <1>2, <1>3 DEF Serve

\* A session that is locked or loaded again has nothing unsaved.
LEMMA WorkerMoves ==
    ASSUME EditsInv, EditsAccounted, Worker
    PROVE  EditsMoved
  <1>1. UNCHANGED <<client, runs, undone>>
    BY SubmissionKeeps
       DEF Worker, SaveVault, LockSession, Unlock, Reload, IdleLock, front, books, platform
  <1>0. /\ stored.edits \subseteq live.edits \cup undone
        /\ live.edits \subseteq stored.edits \cup forgotten \/ unsaved
    BY DEF EditsInv, EditsAccounted, EditsTracked
  <1>2. Elems(<<>>) = {}
    BY DEF Elems
  <1>3. CASE SaveVault
    <2>1. live' = live /\ stored' = live /\ saves' = <<>> /\ forgotten' = forgotten
      BY <1>3 DEF SaveVault, Stores, CountsAsSaved, platform, pending
    <2>. QED
      BY <1>0, <1>1, <1>2, <2>1 DEF EditsMoved
  <1>4. CASE LockSession \/ Unlock \/ Reload
    <2>1. ~unsaved /\ live' = stored /\ UNCHANGED <<stored, saves, forgotten>>
      BY <1>4 DEF LockSession, Unlock, Reload, MayDiscard, Drop, books, platform, pending
    <2>. QED
      BY <1>0, <1>1, <2>1 DEF EditsMoved
  <1>5. CASE IdleLock
    <2>0. forgotten' = forgotten
      BY <1>5 DEF IdleLock, platform, pending
    <2>1. CASE PersistUnsaved /\ live' = stored'
      <3>1. CASE unsaved
        <4>1. stored' = live /\ saves' = <<>>
          BY <2>1, <3>1 DEF PersistUnsaved, Stores, CountsAsSaved
        <4>. QED
          BY <1>0, <1>1, <1>2, <2>0, <2>1, <4>1 DEF EditsMoved
      <3>2. CASE ~unsaved
        <4>1. UNCHANGED <<stored, saves>>
          BY <2>1, <3>2 DEF PersistUnsaved
        <4>. QED
          BY <1>0, <1>1, <2>0, <2>1, <3>2, <4>1 DEF EditsMoved
      <3>. QED
        BY <3>1, <3>2
    <2>2. CASE UNCHANGED <<stored, live, unsaved, saves>>
      BY <1>1, <2>0, <2>2, VaultsKept
    <2>. QED
      BY <1>5, <2>1, <2>2 DEF IdleLock, SaveFails
  <1>6. CASE PersistAutofill
    <2>1. live' = live /\ stored' = live /\ saves' = <<>> /\ forgotten' = forgotten
      BY <1>6 DEF PersistAutofill, CountsAsSaved
    <2>. QED
      BY <1>0, <1>1, <1>2, <2>1 DEF EditsMoved
  <1>7. CASE ReplayAutofill
    <2>1. /\ live' = live /\ stored' = stored /\ saves' = <<>>
          /\ forgotten' = forgotten \cup (live.edits \ stored.edits)
      BY <1>7 DEF ReplayAutofill, CountsAsSaved
    <2>. QED
      BY <1>0, <1>1, <1>2, <2>1 DEF EditsMoved
  <1>8. CASE RetrySync
    <2>1. /\ live' = live /\ stored' = live /\ saves' = saves
          /\ forgotten' = forgotten \ live.edits
      BY <1>8 DEF RetrySync, books
    <2>. QED
      BY <1>0, <1>1, <2>1 DEF EditsMoved
  <1>. QED
    BY <1>3, <1>4, <1>5, <1>6, <1>7, <1>8 DEF Worker

\* A rollback undoes edits, and only those made since its registration.
LEMMA PluginMoves ==
    ASSUME TypeOK, LeaseInv, CopiesInv, EditsInv, EditsAccounted, NEW p \in Plat, Plugin(p)
    PROVE  EditsMoved
  <1>1. UNCHANGED <<client, runs, unsaved, saves, forgotten>>
    BY DEF Plugin, PluginBegin, Prepare, UseVerification, Register, Commit, PluginEnd,
           EndOperation, front, books, vault, pending
  <1>0. /\ stored.edits \subseteq live.edits \cup undone
        /\ live.edits \subseteq stored.edits \cup forgotten \/ unsaved
        /\ live \in Vault
    BY DEF EditsInv, EditsAccounted, EditsTracked, TypeOK
  <1>2. CASE PluginBegin(p) \/ UseVerification(p) \/ PluginEnd(p) \/ Prepare(p)
    <2>1. UNCHANGED <<live, stored, undone>>
      BY <1>2 DEF PluginBegin, UseVerification, PluginEnd, Prepare, LeaseInv, vault
    <2>. QED
      BY <1>1, <2>1, VaultsKept
  <1>3. CASE Register(p)
    <2>1. live'.edits = live.edits /\ UNCHANGED <<stored, undone>>
      BY <1>0, <1>3 DEF Register, Vault
    <2>. QED
      BY <1>0, <1>1, <2>1 DEF EditsMoved
  <1>4. CASE Commit(p)
    <2>1. copy' = [copy EXCEPT ![p] = NoCopy] /\ load' = load
      BY <1>4 DEF Commit, front, pending
    <2>2. CASE stored' = live /\ UNCHANGED <<live, undone>>
      BY <1>0, <1>1, <2>2 DEF EditsMoved
    <2>3. CASE /\ stored' = [live EXCEPT !.passkey = stored.passkey] \/ stored' = stored
               /\ live' = RolledBack(p) /\ undone' = undone \cup (live.edits \ live'.edits)
      <3>1. live'.edits \subseteq live.edits
        BY <2>1, <2>3, RollbackCopies
      <3>2. stored'.edits = live.edits \/ stored' = stored
        BY <1>0, <2>3 DEF Vault
      <3>. QED
        BY <1>0, <1>1, <2>3, <3>1, <3>2 DEF EditsMoved
    <2>. QED
      BY <1>4, <2>2, <2>3 DEF Commit, Stores, SaveFails
  <1>5. CASE EndOperation(p)
    <2>1. /\ copy' = [copy EXCEPT ![p] = NoCopy] /\ load' = load /\ stored' = stored
          /\ undone' = undone \cup (live.edits \ live'.edits)
          /\ live' = stored \/ live' = RolledBack(p)
      BY <1>5 DEF EndOperation, Drop, front, pending
    <2>2. CASE live' = stored
      BY <1>0, <1>1, <2>1, <2>2 DEF EditsMoved
    <2>3. CASE live' = RolledBack(p)
      <3>1. live'.edits \subseteq live.edits
        BY <2>1, <2>3, RollbackCopies
      <3>. QED
        BY <1>0, <1>1, <2>1, <3>1 DEF EditsMoved
    <2>. QED
      BY <2>1, <2>2, <2>3
  <1>. QED
    BY <1>2, <1>3, <1>4, <1>5 DEF Plugin

\* Every step is such a step.
LEMMA StepMoves ==
    ASSUME TypeOK, LeaseInv, RequestsInv, CopiesInv, EditsInv, EditsAccounted, [Next]_vars
    PROVE  EditsMoved
  <1>0. load.op \subseteq Op /\ load.plat \subseteq Plat
    BY LoadTyped DEF TypeOK
  <1>1. ASSUME NEW o \in load.op, Call(o) \/ RetrySave(o) \/ Ambiguous(o) PROVE EditsMoved
    BY <1>0, <1>1, FrontMoves
  <1>2. ASSUME NEW q \in wire, Serve(q) PROVE EditsMoved
    BY <1>2, ServeMoves
  <1>3. CASE Worker
    BY <1>3, WorkerMoves
  <1>4. ASSUME NEW p \in load.plat, Plugin(p) PROVE EditsMoved
    BY <1>0, <1>4, PluginMoves
  <1>5. CASE UNCHANGED vars
    BY <1>5, VaultsKept DEF vars, front, vault, books, platform, pending
  <1>. QED
    BY <1>1, <1>2, <1>3, <1>4, <1>5 DEF Next, Worker

-----------------------------------------------------------------------------
(* The theorems. *)

\* The invariant holds at the start, ...
LEMMA BridgeInit == Init => BridgeInv
  <1>. SUFFICES ASSUME Init PROVE BridgeInv
    OBVIOUS
  <1>1. /\ live = [edits |-> {}, passkey |-> NoPlat] /\ stored = live
        /\ live \in Vault /\ \A p \in Plat : live.passkey # p
    BY BridgeAssumption DEF Init, Vault
  <1>2. Held = {} /\ Keys(receipts) = {}
    BY DEF Init, Held, Keys
  <1>3. TypeOK
    <2>1. /\ <<>> \in Seq([op : Op, full : BOOLEAN]) /\ <<>> \in Seq(Op)
          /\ Len(<<>>) <= MaxReceipts
      BY BridgeAssumption
    <2>2. /\ [o \in Op |-> "idle"] \in [Op -> Stage]
          /\ [o \in Op |-> 0] \in [Op -> 0 .. MaxCalls] /\ [o \in Op |-> 0] \in [Op -> Nat]
          /\ [p \in Plat |-> NoCopy] \in [Plat -> Vault \cup {NoCopy}]
          /\ [p \in Plat |-> "idle"]
               \in [Plat -> {"idle", "begun", "prepared", "registered", "used", "ending", "ended"}]
          /\ 0 \in 0 .. MaxFaults
      BY BridgeAssumption DEF Stage
    <2>. QED
      BY <1>1, <2>1, <2>2 DEF Init, TypeOK, Stage
  <1>4. SessionForOperations /\ LeaseInv
    BY <1>2 DEF Init, SessionForOperations, LeaseInv
  <1>5. RequestsInv /\ ReceiptsInv /\ OutcomesTrue
    BY <1>2 DEF Init, RequestsInv, ReceiptsInv, OutcomesTrue, ExecutedOnce, AnswersTrue
  <1>6. PasskeyInv
    BY <1>1, <1>2 DEF PasskeyInv
  <1>7. CopiesInv
    <2>1. Ordered({}) /\ {} \in SUBSET (Plat \X Plat)
      BY <1>2 DEF Ordered
    <2>. QED
      BY <1>2, <2>1 DEF CopiesInv
  <1>8. EditsInv /\ EditsAccounted
    BY <1>1 DEF Init, EditsInv, EditsAccounted, EditsTracked, SavedIsStored
  <1>. QED
    BY <1>3, <1>4, <1>5, <1>6, <1>7, <1>8 DEF BridgeInv

\* ... every step keeps it, ...
LEMMA BridgeStep == BridgeInv /\ [Next]_vars => BridgeInv'
  <1>. SUFFICES ASSUME BridgeInv, [Next]_vars PROVE BridgeInv'
    OBVIOUS
  <1>. USE DEF BridgeInv
  <1>1. TypeOK'
    BY TypeStep
  <1>2. SessionForOperations' /\ LeaseInv'
    BY LeaseStep
  <1>3. RequestsInv' /\ ReceiptsInv' /\ OutcomesTrue'
    BY OutcomesStep
  <1>4. PasskeyInv'
    BY PasskeyStep
  <1>5. CopiesInv'
    BY CopiesStep
  <1>6. EditsMoved
    BY StepMoves
  <1>7. EditsInv' /\ EditsAccounted'
    BY <1>6, MovedKeeps
  <1>. QED
    BY <1>1, <1>2, <1>3, <1>4, <1>5, <1>7

\* ... and so it always holds.
LEMMA BridgeAlways == Spec => []BridgeInv
  BY BridgeInit, BridgeStep, PTL DEF Spec

\* The session stays with the plugin operations that need it, and the worker's
\* receipts stay within their limit (prepare_platform_passkey_operation,
\* end_platform_passkey_operation, record_operation_receipt).
THEOREM SessionStays == Spec => []SessionSound
  <1>1. BridgeInv => SessionSound
    BY DEF BridgeInv, SessionSound
  <1>. QED
    BY <1>1, BridgeAlways, PTL

\* What a front end concludes from answers that may be lost, repeated or late is
\* what happened to its mutation (sendMutationCommand, lookup_operation_receipt).
THEOREM OutcomesHold == Spec => []OutcomesTrue
  <1>1. BridgeInv => OutcomesTrue
    BY DEF BridgeInv
  <1>. QED
    BY <1>1, BridgeAlways, PTL

\* The bridge knows of every edit that is not stored, and an answered save is
\* stored, but for edits that the repetition of a pending submission took for saved
\* (record_inline_save, record_save_receipt, unsaved_vault_ids).
THEOREM AccountHolds == Spec => []EditsAccounted
  <1>1. BridgeInv => EditsAccounted
    BY DEF BridgeInv
  <1>. QED
    BY <1>1, BridgeAlways, PTL

\* No step takes an edit out of the open vault that was not saved, but for the
\* rollback of a registration, the end of a plugin operation and the edits that the
\* repetition of a pending submission took for saved (preflight_error,
\* persist_unsaved_before_idle_lock, restore_passkey_registration_rollback,
\* command_persists_vault_id).
THEOREM NoEditLost == Spec => EditsKept
  <1>1. BridgeInv /\ [Next]_vars => [live.edits \subseteq live'.edits \cup undone' \cup forgotten]_vars
    <2>. SUFFICES ASSUME BridgeInv, [Next]_vars
                  PROVE  live.edits \subseteq live'.edits \cup undone' \cup forgotten
      OBVIOUS
    <2>1. EditsMoved
      BY StepMoves DEF BridgeInv
    <2>. QED
      BY <2>1 DEF EditsMoved
  <1>. QED
    BY <1>1, BridgeAlways, PTL DEF Spec, EditsKept
=============================================================================
