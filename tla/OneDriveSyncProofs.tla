------------------------- MODULE OneDriveSyncProofs -------------------------
(***************************************************************************)
(* Proofs about OneDriveSync: the type invariant for any deployment, and   *)
(* that no edit is lost when every device has one runtime.                 *)
(*                                                                         *)
(* First come the shapes that calls, sessions and cache entries have, kept *)
(* by one lemma for each step.  The second part builds on them: one        *)
(* runtime's step is looked at with what it leaves intact of the others.   *)
(***************************************************************************)
EXTENDS OneDriveSync, FiniteSetTheorems, TLAPS

-----------------------------------------------------------------------------
(* Shape: which fields of a call, a session and a cache entry have a value. *)

JobShape(p) ==
    /\ job[p].at = "idle" => job[p] = NoJob
    /\ job[p].at \in {"state", "read"} =>
          /\ job[p].for \in {"save", "retry", "refresh", "adopt", "load"}
          /\ job[p].for \in {"save", "retry"} => job[p].base \in Bytes
    /\ job[p].at = "read" => job[p].seen \in Bytes
    /\ job[p].at \in {"push", "readback"} =>
          /\ job[p].for \in {"save", "retry"}
          /\ {job[p].base, job[p].rem, job[p].seen, job[p].cand} \subseteq Bytes
    /\ job[p].at = "readback" => job[p].for = "save"
    /\ job[p].at = "commit" => job[p].for = "save" /\ job[p].cand \in Bytes
    /\ job[p].at \in {"copy", "upload"} =>
          /\ job[p].for \in {"save", "refresh", "retry", "receipt"}
          /\ job[p].for = "refresh" => job[p].rem \in Bytes
    /\ job[p].at = "upload" => job[p].cand \in Bytes /\ job[p].cand.v = job[p].local
    /\ job[p].at = "install" =>
          job[p].for \in {"load", "refresh", "adopt"} /\ job[p].rem \in Bytes
    /\ job[p].at = "fallback" => job[p].for = "retry"
    /\ job[p].for \in {"save", "retry", "adopt"} => sess[p].st = "open"
    /\ job[p].for \in {"refresh", "receipt"} => sess[p].st # "closed"
    /\ job[p].for = "load" => sess[p].st # "open"
    /\ job[p].for = "load" /\ job[p].base # NoBytes => cache[D(p)] # NoEntry

SessShape(p) ==
    /\ sess[p].st # "closed" => sess[p].b \in Bytes /\ cache[D(p)] # NoEntry
    /\ sess[p].hasBase => sess[p].st # "closed"
    /\ sess[p].tag # NoBytes => sess[p].hasBase

CacheShape(d) ==
    cache[d] # NoEntry =>
        /\ cache[d].kind = "Generic" => cache[d].obs \in Bytes
        /\ cache[d].kind # "Clean" => cache[d].tag = NoBytes

Shape ==
    /\ TypeOK
    /\ \A p \in Proc : JobShape(p) /\ SessShape(p)
    /\ \A d \in Device : CacheShape(d)

\* A step of p changes nothing of the other runtimes and devices.
Local(p) ==
    /\ site' = site
    /\ job' \in [Proc -> Job] /\ sess' \in [Proc -> Session]
    /\ cache' \in [Device -> Entry \cup {NoEntry}]
    /\ receipt' \in [Device -> Receipt \cup {NoEntry}]
    /\ \A q \in Proc \ {p} : job'[q] = job[q] /\ sess'[q] = sess[q]
    /\ \A d \in Device \ {D(p)} : cache'[d] = cache[d] /\ receipt'[d] = receipt[d]
    /\ cache[D(p)] # NoEntry => cache'[D(p)] # NoEntry

Rest ==
    /\ head \in MaybeBytes /\ late \in Request \cup {NoEntry}
    /\ copied \subseteq Edit /\ made \subseteq Edit
    /\ acked \subseteq Edit /\ gone \subseteq Edit
    /\ faults \in 0 .. MaxFaults

ShapeAt(p) == JobShape(p) /\ SessShape(p) /\ CacheShape(D(p))

LEMMA SiteFacts ==
    ASSUME TypeOK
    PROVE  /\ site.on \in [Proc -> Device] /\ site.edits \subseteq Edit
           /\ site.serials \in 0 .. MaxSerial
           /\ \A p \in Proc : D(p) \in Device
  BY SyncAssumption DEF TypeOK, D

LEMMA FreshFacts ==
    ASSUME TypeOK, NEW v \in SUBSET Edit, NEW w \in {"kern", "foreign", "opaque"},
           NEW b \in Fresh(v, w)
    PROVE  b \in Bytes /\ b.v = v /\ b.w = w /\ b \notin InUse
  <1>1. b.v = v /\ b.w = w /\ b.s \in 1 .. site.serials /\ b = [v |-> v, w |-> w, s |-> b.s]
    BY DEF Fresh
  <1>2. b \in Bytes
    BY <1>1, SiteFacts, SyncAssumption DEF Bytes, Serial
  <1>3. b \notin InUse
    <2> SUFFICES ASSUME b \in InUse PROVE FALSE
      OBVIOUS
    <2> DEFINE used == {x.s : x \in {y \in InUse \ {NoBytes} : y.v = v /\ y.w = w}}
    <2>1. b \in InUse \ {NoBytes}
      BY <1>2, NoneAssumption
    <2>2. b.s \in used
      BY <2>1, <1>1
    <2>3. b.s \notin used
      BY DEF Fresh
    <2> QED BY <2>2, <2>3
  <1> QED BY <1>1, <1>2, <1>3

LEMMA ShapeFrame ==
    ASSUME Shape, NEW p \in Proc, Local(p), Rest', ShapeAt(p)'
    PROVE  Shape'
  <1>0. D(p) \in Device /\ \A q \in Proc : D(q)' = D(q)
    BY SiteFacts DEF Shape, Local, D
  <1>1. TypeOK'
    BY DEF Shape, TypeOK, Local, Rest
  <1>2. ASSUME NEW q \in Proc PROVE JobShape(q)' /\ SessShape(q)'
    <2>1. CASE q = p
      BY <2>1 DEF ShapeAt
    <2>2. CASE q # p
      <3>1. job'[q] = job[q] /\ sess'[q] = sess[q] /\ JobShape(q) /\ SessShape(q)
        BY <2>2 DEF Local, Shape
      <3>2. cache[D(q)] # NoEntry => cache'[D(q)'] # NoEntry
        BY <1>0, SiteFacts DEF Local, Shape
      <3>3. JobShape(q)'
        BY <3>1, <3>2, <1>0 DEF JobShape
      <3>4. SessShape(q)'
        BY <3>1, <3>2, <1>0 DEF SessShape
      <3> QED BY <3>3, <3>4
    <2> QED BY <2>1, <2>2
  <1>3. ASSUME NEW d \in Device PROVE CacheShape(d)'
    <2>1. CASE d = D(p)
      BY <2>1, <1>0 DEF ShapeAt, CacheShape
    <2>2. CASE d # D(p)
      BY <2>2 DEF Local, Shape, CacheShape
    <2> QED BY <2>1, <2>2
  <1> QED BY <1>1, <1>2, <1>3 DEF Shape

-----------------------------------------------------------------------------
(* The steps of a runtime keep the shape. *)

LEMMA NoJobFacts == NoJob \in Job
  BY SyncAssumption DEF NoJob, Job, MaybeBytes

LEMMA GoToFacts ==
    ASSUME TypeOK, NEW p \in Proc, NEW j \in Job, GoTo(p, j)
    PROVE  /\ job' \in [Proc -> Job] /\ job'[p] = j
           /\ \A q \in Proc \ {p} : job'[q] = job[q]
  BY DEF TypeOK, GoTo

LEMMA FinishFacts ==
    ASSUME TypeOK, NEW p \in Proc, Finish(p)
    PROVE  /\ job' \in [Proc -> Job] /\ job'[p] = NoJob
           /\ \A q \in Proc \ {p} : job'[q] = job[q]
           /\ JobShape(p)'
  <1>1. /\ job' \in [Proc -> Job] /\ job'[p] = NoJob
        /\ \A q \in Proc \ {p} : job'[q] = job[q]
    BY NoJobFacts DEF TypeOK, Finish
  <1>2. JobShape(p)'
    BY <1>1 DEF JobShape, NoJob
  <1> QED BY <1>1, <1>2

\* A session, a cache slot and a receipt that a step of p replaces.
LEMMA SessFacts ==
    ASSUME TypeOK, NEW p \in Proc, NEW s \in Session, sess' = [sess EXCEPT ![p] = s]
    PROVE  /\ sess' \in [Proc -> Session] /\ sess'[p] = s
           /\ \A q \in Proc \ {p} : sess'[q] = sess[q]
  BY DEF TypeOK

LEMMA CacheFacts ==
    ASSUME TypeOK, NEW p \in Proc, NEW c \in Entry, cache' = [cache EXCEPT ![D(p)] = c]
    PROVE  /\ cache' \in [Device -> Entry \cup {NoEntry}] /\ cache'[D(p)] = c
           /\ \A d \in Device \ {D(p)} : cache'[d] = cache[d]
  BY SiteFacts DEF TypeOK

LEMMA SlotFacts ==
    ASSUME NEW b \in Bytes, NEW kind \in {"Clean", "Generic", "ConflictCopy"},
           NEW obs \in MaybeBytes, NEW tag \in MaybeBytes
    PROVE  /\ Slot(b, kind, obs, tag) \in Entry
           /\ Slot(b, kind, obs, tag).b = b /\ Slot(b, kind, obs, tag).kind = kind
           /\ Slot(b, kind, obs, tag).obs = obs /\ Slot(b, kind, obs, tag).tag = tag
           /\ Slot(b, kind, obs, tag) # NoEntry
  BY NoneAssumption DEF Slot, Entry

LEMMA OpenAtFacts ==
    ASSUME NEW b \in Bytes, NEW tag \in MaybeBytes
    PROVE  /\ OpenAt(b, tag) \in Session
           /\ OpenAt(b, tag).st = "open" /\ OpenAt(b, tag).v = b.v
           /\ OpenAt(b, tag).b = b /\ OpenAt(b, tag).tag = tag
           /\ OpenAt(b, tag).hasBase = TRUE
  BY DEF OpenAt, Session, Bytes, MaybeBytes

\* What PersistPending does.
Persisted(p, b, kind, obs) ==
    /\ job' \in [Proc -> Job] /\ job'[p] = NoJob
    /\ \A q \in Proc \ {p} : job'[q] = job[q] /\ sess'[q] = sess[q]
    /\ sess' \in [Proc -> Session]
    /\ cache' \in [Device -> Entry \cup {NoEntry}]
    /\ \A d \in Device \ {D(p)} : cache'[d] = cache[d]
    /\ \/ /\ AcceptsPending(D(p), sess[p].b, kind)
          /\ cache'[D(p)].b = b /\ cache'[D(p)].kind = kind
          /\ cache'[D(p)].obs = obs /\ cache'[D(p)].tag = NoBytes
          /\ cache'[D(p)] # NoEntry
          /\ sess'[p].st = sess[p].st /\ sess'[p].v = b.v /\ sess'[p].b = b
          /\ sess'[p].tag = NoBytes /\ sess'[p].hasBase = FALSE
          /\ acked' = acked \cup b.v
       \/ UNCHANGED <<cache, sess, acked>>

LEMMA PersistFacts ==
    ASSUME TypeOK, NEW p \in Proc, NEW b \in Bytes,
           NEW kind \in {"Generic", "ConflictCopy"}, NEW obs \in MaybeBytes,
           PersistPending(p, b, kind, obs)
    PROVE  Persisted(p, b, kind, obs)
  <1>1. Finish(p)
    BY DEF PersistPending
  <1>2. /\ job' \in [Proc -> Job] /\ job'[p] = NoJob
        /\ \A q \in Proc \ {p} : job'[q] = job[q]
    BY <1>1, FinishFacts
  <1>3. CASE /\ AcceptsPending(D(p), sess[p].b, kind)
             /\ cache' = [cache EXCEPT ![D(p)] = Slot(b, kind, obs, NoBytes)]
             /\ sess' = [sess EXCEPT ![p].v = b.v, ![p].b = b, ![p].tag = NoBytes,
                                     ![p].pend = TRUE, ![p].hasBase = FALSE]
             /\ acked' = acked \cup b.v
    <2>1. Slot(b, kind, obs, NoBytes) \in Entry
      BY SlotFacts DEF MaybeBytes
    <2>2. /\ cache' \in [Device -> Entry \cup {NoEntry}]
          /\ \A d \in Device \ {D(p)} : cache'[d] = cache[d]
          /\ cache'[D(p)] = Slot(b, kind, obs, NoBytes)
      BY <1>3, <2>1, CacheFacts
    <2>3. sess \in [Proc -> Session] /\ sess[p] \in Session
      BY DEF TypeOK
    <2> DEFINE s == [sess[p] EXCEPT !.v = b.v, !.b = b, !.tag = NoBytes,
                                    !.pend = TRUE, !.hasBase = FALSE]
    <2>4. /\ s \in Session
          /\ s.st = sess[p].st /\ s.v = b.v /\ s.b = b /\ s.tag = NoBytes
          /\ s.hasBase = FALSE
      BY <2>3 DEF Session, Bytes, MaybeBytes
    <2>5. sess' = [sess EXCEPT ![p] = s]
      BY <1>3, <2>3
    <2> HIDE DEF s
    <2>6. /\ sess' \in [Proc -> Session] /\ sess'[p] = s
          /\ \A q \in Proc \ {p} : sess'[q] = sess[q]
      BY <2>4, <2>5, SessFacts
    <2>7. /\ Slot(b, kind, obs, NoBytes).b = b /\ Slot(b, kind, obs, NoBytes).kind = kind
          /\ Slot(b, kind, obs, NoBytes).obs = obs /\ Slot(b, kind, obs, NoBytes).tag = NoBytes
          /\ Slot(b, kind, obs, NoBytes) # NoEntry
      BY SlotFacts DEF MaybeBytes
    <2> QED BY <1>2, <1>3, <2>2, <2>4, <2>6, <2>7 DEF Persisted
  <1>4. CASE UNCHANGED <<cache, sess, acked>>
    BY <1>2, <1>4 DEF TypeOK, Persisted
  <1> QED BY <1>3, <1>4 DEF PersistPending

LEMMA PersistShape ==
    ASSUME Shape, NEW p \in Proc, NEW b \in Bytes,
           NEW kind \in {"Generic", "ConflictCopy"}, NEW obs \in MaybeBytes,
           kind = "Generic" /\ AcceptsPending(D(p), sess[p].b, kind) => obs \in Bytes,
           sess[p].st # "closed",
           PersistPending(p, b, kind, obs), UNCHANGED <<site, receipt>>
    PROVE  Local(p) /\ ShapeAt(p)' /\ (acked \subseteq Edit)'
  <1>1. TypeOK /\ SessShape(p) /\ CacheShape(D(p)) /\ D(p) \in Device
    BY SiteFacts DEF Shape
  <1>2. Persisted(p, b, kind, obs)
    BY PersistFacts, <1>1
  <1>3. D(p)' = D(p)
    BY DEF D
  <1>4. Local(p)
    BY <1>1, <1>2 DEF Local, TypeOK, Persisted
  <1>5. JobShape(p)'
    BY <1>2 DEF JobShape, NoJob, Persisted
  <1>6. SessShape(p)'
    BY <1>1, <1>2, <1>3 DEF SessShape, Persisted
  <1>7. CacheShape(D(p))'
    BY <1>1, <1>2, <1>3 DEF CacheShape, Persisted
  <1>8. (acked \subseteq Edit)'
    BY <1>1, <1>2 DEF TypeOK, Bytes, Persisted
  <1> QED BY <1>4, <1>5, <1>6, <1>7, <1>8 DEF ShapeAt

\* The session of a runtime that executes no call.
LEMMA IdleShape ==
    ASSUME Shape, NEW p \in Proc, job[p].at = "idle",
           NEW s \in Session, sess' = [sess EXCEPT ![p] = s],
           s.st # "closed" => s.b \in Bytes /\ cache[D(p)] # NoEntry,
           s.hasBase => s.st # "closed",
           s.tag # NoBytes => s.hasBase,
           UNCHANGED <<site, job, cache, receipt>>
    PROVE  Local(p) /\ ShapeAt(p)'
  <1>1. TypeOK /\ JobShape(p) /\ CacheShape(D(p)) /\ D(p) \in Device
    BY SiteFacts DEF Shape
  <1>2. /\ sess' \in [Proc -> Session] /\ sess'[p] = s
        /\ \A q \in Proc \ {p} : sess'[q] = sess[q]
    BY <1>1, SessFacts
  <1>3. D(p)' = D(p)
    BY DEF D
  <1>4. job[p] = NoJob
    BY <1>1 DEF JobShape
  <1>5. Local(p)
    BY <1>1, <1>2 DEF Local, TypeOK
  <1>6. JobShape(p)'
    BY <1>4 DEF JobShape, NoJob
  <1>7. SessShape(p)' /\ CacheShape(D(p))'
    BY <1>1, <1>2, <1>3 DEF SessShape, CacheShape
  <1> QED BY <1>5, <1>6, <1>7 DEF ShapeAt

LEMMA ClosedFacts == Closed \in Session
  BY DEF Closed, Session, MaybeBytes

LEMMA EditsShape ==
    ASSUME Shape, NEW p \in Proc, NEW e \in site.edits, Edits(p, e)
    PROVE  Local(p) /\ Rest' /\ ShapeAt(p)'
  <1>1. TypeOK /\ SessShape(p) /\ e \in Edit /\ sess[p] \in Session
    BY SiteFacts DEF Shape, TypeOK
  <1> DEFINE s == [sess[p] EXCEPT !.v = sess[p].v \cup {e}]
  <1>2. /\ s \in Session /\ s.st = sess[p].st /\ s.b = sess[p].b
        /\ s.tag = sess[p].tag /\ s.hasBase = sess[p].hasBase
    BY <1>1 DEF Session
  <1>3. sess' = [sess EXCEPT ![p] = s]
    BY <1>1 DEF Edits, TypeOK
  <1>4. Rest'
    BY <1>1 DEF Edits, Rest, TypeOK, remote
  <1> HIDE DEF s
  <1>5. Local(p) /\ ShapeAt(p)'
    BY <1>1, <1>2, <1>3, IdleShape DEF Edits, SessShape, remote
  <1> QED BY <1>4, <1>5

LEMMA UnlockShape ==
    ASSUME Shape, NEW p \in Proc, Unlock(p)
    PROVE  Local(p) /\ Rest' /\ ShapeAt(p)'
  <1>1. TypeOK /\ SessShape(p) /\ sess[p] \in Session
    BY DEF Shape, TypeOK
  <1> DEFINE s == [sess[p] EXCEPT !.st = "open", !.v = sess[p].b.v]
  <1>2. sess[p].b \in Bytes
    BY <1>1 DEF Unlock, SessShape
  <1>3. /\ s \in Session /\ s.st = "open" /\ s.b = sess[p].b
        /\ s.tag = sess[p].tag /\ s.hasBase = sess[p].hasBase
    BY <1>1, <1>2 DEF Session, Bytes
  <1>4. sess' = [sess EXCEPT ![p] = s]
    BY <1>1 DEF Unlock, TypeOK
  <1>5. Rest'
    BY <1>1 DEF Unlock, Rest, TypeOK, remote
  <1> HIDE DEF s
  <1>6. Local(p) /\ ShapeAt(p)'
    BY <1>1, <1>2, <1>3, <1>4, IdleShape DEF Unlock, SessShape, remote
  <1> QED BY <1>5, <1>6

LEMMA LockShape ==
    ASSUME Shape, NEW p \in Proc, Lock(p)
    PROVE  Local(p) /\ Rest' /\ ShapeAt(p)'
  <1>1. /\ TypeOK /\ SessShape(p) /\ sess[p] \in Session
        /\ cache[D(p)] # NoEntry => cache[D(p)] \in Entry
    BY SiteFacts DEF Shape, TypeOK
  <1>2. Rest'
    BY <1>1 DEF Lock, Rest, TypeOK, remote
  <1>3. job[p].at = "idle" /\ UNCHANGED <<site, job, cache, receipt>> /\ sess[p].st = "open"
    BY DEF Lock, remote
  <1>4. CASE sess[p].pend /\ IsPending(D(p))
    <2> DEFINE s == [sess[p] EXCEPT !.st = "locked", !.v = {}, !.b = cache[D(p)].b,
                          !.tag = NoBytes, !.hasBase = sess[p].hasBase /\ OwnsPending(p)]
    <2>0. OwnsPending(p) \in BOOLEAN /\ cache[D(p)].b \in Bytes
      BY <1>1, <1>4 DEF OwnsPending, IsPending, Entry
    <2>1. sess' = [sess EXCEPT ![p] = s]
      BY <1>1, <1>4 DEF Lock, TypeOK
    <2>2. s \in Session /\ s.b = cache[D(p)].b /\ s.tag = NoBytes /\ s.st = "locked"
      BY <1>1, <2>0 DEF Session, MaybeBytes
    <2>3. cache[D(p)] # NoEntry
      BY <1>4 DEF IsPending
    <2> HIDE DEF s
    <2> QED BY <1>2, <1>3, <2>0, <2>1, <2>2, <2>3, IdleShape
  <1>5. CASE ~(sess[p].pend /\ IsPending(D(p))) /\ ~sess[p].pend /\ sess[p].hasBase
    <2> DEFINE s == [sess[p] EXCEPT !.st = "locked", !.v = {}]
    <2>1. sess' = [sess EXCEPT ![p] = s]
      BY <1>1, <1>5 DEF Lock, TypeOK
    <2>2. /\ s \in Session /\ s.b = sess[p].b /\ s.tag = sess[p].tag
          /\ s.hasBase = sess[p].hasBase /\ s.st = "locked"
      BY <1>1 DEF Session
    <2> HIDE DEF s
    <2> QED BY <1>1, <1>2, <1>3, <2>1, <2>2, IdleShape DEF SessShape
  <1>6. CASE ~(sess[p].pend /\ IsPending(D(p))) /\ ~(~sess[p].pend /\ sess[p].hasBase)
    <2>1. sess' = [sess EXCEPT ![p] = Closed]
      BY <1>1, <1>6 DEF Lock, TypeOK
    <2>2. Closed.st = "closed" /\ Closed.hasBase = FALSE /\ Closed.tag = NoBytes
      BY DEF Closed
    <2> QED BY <1>2, <1>3, <2>1, <2>2, ClosedFacts, IdleShape
  <1> QED BY <1>4, <1>5, <1>6

LEMMA CrashShape ==
    ASSUME Shape, NEW p \in Proc, Crash(p)
    PROVE  Local(p) /\ Rest' /\ ShapeAt(p)'
  <1>1. TypeOK /\ SessShape(p) /\ CacheShape(D(p)) /\ D(p)' = D(p)
    BY SiteFacts DEF Shape, Crash, D, remote
  <1>2. /\ sess' \in [Proc -> Session] /\ sess'[p] = Closed
        /\ \A q \in Proc \ {p} : sess'[q] = sess[q]
    BY <1>1, ClosedFacts, SessFacts DEF Crash
  <1>3. /\ job' \in [Proc -> Job] /\ job'[p] = NoJob
        /\ \A q \in Proc \ {p} : job'[q] = job[q]
        /\ JobShape(p)'
    BY <1>1, FinishFacts DEF Crash
  <1>4. Local(p)
    BY <1>1, <1>2, <1>3 DEF Local, TypeOK, Crash, remote
  <1>5. SessShape(p)' /\ CacheShape(D(p))'
    BY <1>1, <1>2 DEF SessShape, CacheShape, Closed, Crash
  <1>6. Rest'
    <2>1. faults' \in 0 .. MaxFaults
      BY <1>1, SyncAssumption DEF Crash, TypeOK, Fault
    <2> QED BY <1>1, <2>1 DEF Crash, Rest, TypeOK, remote
  <1> QED BY <1>3, <1>4, <1>5, <1>6 DEF ShapeAt

-----------------------------------------------------------------------------
(* Calls that begin, and what they do to the source. *)

LEMMA CacheRange ==
    ASSUME TypeOK, NEW p \in Proc
    PROVE  /\ cache[D(p)] # NoEntry =>
                 /\ cache[D(p)] \in Entry /\ cache[D(p)].b \in Bytes
                 /\ cache[D(p)].kind \in {"Clean", "Generic", "ConflictCopy"}
                 /\ cache[D(p)].obs \in MaybeBytes /\ cache[D(p)].tag \in MaybeBytes
           /\ receipt[D(p)] # NoEntry =>
                 /\ receipt[D(p)] \in Receipt /\ receipt[D(p)].b \in Bytes
                 /\ receipt[D(p)].pend \in BOOLEAN
  BY SiteFacts DEF TypeOK, Entry, Receipt

LEMMA RangeFacts ==
    ASSUME TypeOK, NEW p \in Proc
    PROVE  /\ job[p] \in Job /\ sess[p] \in Session
           /\ job[p].local \in SUBSET Edit /\ sess[p].v \in SUBSET Edit
           /\ job[p].base \in MaybeBytes /\ job[p].seen \in MaybeBytes
           /\ job[p].rem \in MaybeBytes /\ job[p].cand \in MaybeBytes
           /\ sess[p].b \in MaybeBytes /\ sess[p].tag \in MaybeBytes
           /\ head \in MaybeBytes
           /\ \A b \in Bytes : b.v \in SUBSET Edit
  BY DEF TypeOK, Job, Session, Bytes

LEMMA BaseOfFacts ==
    ASSUME TypeOK, NEW p \in Proc
    PROVE  BaseOf(p) \in MaybeBytes
  BY CacheRange, RangeFacts DEF BaseOf, OwnsPending, IsPending, MaybeBytes

LEMMA GoToShape ==
    ASSUME Shape, NEW p \in Proc, NEW j \in Job, GoTo(p, j),
           UNCHANGED <<site, sess, cache, receipt>>
    PROVE  Local(p) /\ SessShape(p)' /\ CacheShape(D(p))' /\ job'[p] = j
  <1>1. TypeOK /\ SessShape(p) /\ CacheShape(D(p)) /\ D(p)' = D(p)
    BY SiteFacts DEF Shape, D
  <1>2. /\ job' \in [Proc -> Job] /\ job'[p] = j
        /\ \A q \in Proc \ {p} : job'[q] = job[q]
    BY <1>1, GoToFacts
  <1> QED BY <1>1, <1>2 DEF Local, TypeOK, SessShape, CacheShape

LEMMA FinishShape ==
    ASSUME Shape, NEW p \in Proc, Finish(p), UNCHANGED <<site, sess, cache, receipt>>
    PROVE  Local(p) /\ ShapeAt(p)'
  <1>1. TypeOK /\ GoTo(p, NoJob)
    BY DEF Shape, Finish, GoTo
  <1> QED BY <1>1, GoToShape, FinishFacts, NoJobFacts DEF ShapeAt

LEMMA BeginLoadShape ==
    ASSUME Shape, NEW p \in Proc, BeginLoad(p)
    PROVE  Local(p) /\ Rest' /\ ShapeAt(p)'
  <1>1. TypeOK /\ SessShape(p) /\ D(p)' = D(p)
    BY DEF Shape, BeginLoad, D, remote
  <1>2. Rest'
    BY <1>1 DEF BeginLoad, Rest, TypeOK, remote
  <1>3. CASE IsPending(D(p))
    <2> DEFINE s == [Closed EXCEPT !.st = "locked", !.b = cache[D(p)].b, !.pend = TRUE,
                                   !.hasBase = cache[D(p)].kind = "ConflictCopy"]
    <2>0. cache[D(p)].b \in Bytes /\ cache[D(p)] # NoEntry
      BY <1>1, <1>3, CacheRange DEF IsPending
    <2>1. s \in Session /\ s.b = cache[D(p)].b /\ s.tag = NoBytes /\ s.st = "locked"
      BY <2>0 DEF Session, MaybeBytes, Closed
    <2>2. sess' = [sess EXCEPT ![p] = s]
      BY <1>3 DEF BeginLoad
    <2> HIDE DEF s
    <2> QED BY <1>1, <1>2, <1>3, <2>0, <2>1, <2>2, IdleShape DEF BeginLoad, remote
  <1>4. CASE ~IsPending(D(p))
    <2> DEFINE j == IF cache[D(p)] = NoEntry
                      THEN [NoJob EXCEPT !.at = "state", !.for = "load"]
                      ELSE [NoJob EXCEPT !.at = "state", !.for = "load",
                              !.base = cache[D(p)].b, !.seen = cache[D(p)].tag]
    <2>1. /\ j \in Job /\ j.at = "state" /\ j.for = "load"
          /\ j.base # NoBytes => cache[D(p)] # NoEntry
      BY <1>1, CacheRange, NoJobFacts DEF Job, NoJob, MaybeBytes
    <2>2. GoTo(p, j) /\ UNCHANGED <<site, sess, cache, receipt>> /\ sess[p].st # "open"
      BY <1>4 DEF BeginLoad, remote
    <2> HIDE DEF j
    <2>3. Local(p) /\ SessShape(p)' /\ CacheShape(D(p))' /\ job'[p] = j
      BY <2>1, <2>2, GoToShape
    <2>4. JobShape(p)'
      BY <1>1, <2>1, <2>2, <2>3 DEF JobShape
    <2> QED BY <1>2, <2>3, <2>4 DEF ShapeAt
  <1> QED BY <1>3, <1>4

LEMMA BeginSaveShape ==
    ASSUME Shape, NEW p \in Proc, BeginSave(p)
    PROVE  Local(p) /\ Rest' /\ ShapeAt(p)'
  <1>0. 1 \in 0 .. MaxAttempts
    BY SyncAssumption
  <1>1. TypeOK /\ SessShape(p) /\ D(p)' = D(p)
    BY DEF Shape, BeginSave, D, remote
  <1>2. sess[p].st = "open" /\ UNCHANGED <<site, receipt>>
    BY DEF BeginSave, remote
  <1>3. CASE OwnsPending(p) /\ cache[D(p)].kind = "ConflictCopy"
    <2>1. PICK b \in Fresh(sess[p].v, "kern") : PersistConflictCopy(p, b)
      BY <1>3 DEF BeginSave
    <2>2. b \in Bytes
      BY <1>1, RangeFacts, FreshFacts
    <2>3. Local(p) /\ ShapeAt(p)' /\ (acked \subseteq Edit)'
      BY <1>2, <2>1, <2>2, PersistShape DEF PersistConflictCopy, MaybeBytes
    <2>4. Rest'
      BY <1>1, <2>3 DEF BeginSave, Rest, TypeOK, remote
    <2> QED BY <2>3, <2>4
  <1>4. CASE ~(OwnsPending(p) /\ cache[D(p)].kind = "ConflictCopy")
    <2> DEFINE j == [NoJob EXCEPT !.at = "state", !.base = BaseOf(p),
                            !.local = sess[p].v, !.n = 1,
                            !.for = IF sess[p].v = BaseOf(p).v
                                      THEN "adopt" ELSE "save"]
    <2>1. GoTo(p, j) /\ UNCHANGED <<cache, sess, acked>> /\ BaseOf(p) # NoBytes
      BY <1>4 DEF BeginSave
    <2>2. BaseOf(p) \in Bytes
      BY <1>1, <2>1, BaseOfFacts DEF MaybeBytes
    <2>3. /\ j \in Job /\ j.at = "state" /\ j.for \in {"save", "adopt"}
          /\ j.base = BaseOf(p)
      BY <1>0, <1>1, <2>2, RangeFacts, NoJobFacts DEF Job, NoJob, MaybeBytes
    <2> HIDE DEF j
    <2>4. Local(p) /\ SessShape(p)' /\ CacheShape(D(p))' /\ job'[p] = j
      BY <1>2, <2>1, <2>3, GoToShape
    <2>5. JobShape(p)'
      BY <1>1, <1>2, <2>1, <2>2, <2>3, <2>4 DEF JobShape
    <2>6. Rest'
      BY <1>1, <2>1 DEF BeginSave, Rest, TypeOK, remote
    <2> QED BY <2>4, <2>5, <2>6 DEF ShapeAt
  <1> QED BY <1>3, <1>4

LEMMA BeginRetryShape ==
    ASSUME Shape, NEW p \in Proc, BeginRetry(p)
    PROVE  Local(p) /\ Rest' /\ ShapeAt(p)'
  <1>0. 1 \in 0 .. MaxAttempts
    BY SyncAssumption
  <1>1. TypeOK /\ SessShape(p) /\ CacheShape(D(p)) /\ D(p)' = D(p)
    BY SiteFacts DEF Shape, BeginRetry, D, remote
  <1>2. /\ UNCHANGED <<site, receipt, cache>> /\ sess[p].st # "closed"
        /\ job[p].at = "idle"
    BY DEF BeginRetry, remote
  <1>3. Rest'
    BY <1>1 DEF BeginRetry, Rest, TypeOK, remote
  <1>4. ASSUME NEW j \in Job, GoTo(p, j), UNCHANGED sess,
               j.at # "idle" /\ j.for # "load",
               j.at \in {"state", "copy"},
               j.at = "state" => /\ j.for \in {"retry", "refresh"}
                                 /\ j.for = "retry" => j.base \in Bytes,
               j.at = "copy" => j.for \in {"retry", "receipt"},
               j.for = "retry" => sess[p].st = "open"
        PROVE  Local(p) /\ ShapeAt(p)'
    <2>1. Local(p) /\ SessShape(p)' /\ CacheShape(D(p))' /\ job'[p] = j
      BY <1>2, <1>4, GoToShape
    <2>2. JobShape(p)'
      BY <1>2, <1>4, <2>1 DEF JobShape
    <2> QED BY <2>1, <2>2 DEF ShapeAt
  <1>5. CASE sess[p].pend /\ cache[D(p)].kind = "ConflictCopy"
    <2> DEFINE j == [NoJob EXCEPT !.at = "copy", !.for = "retry", !.local = cache[D(p)].b.v]
    <2>1. GoTo(p, j) /\ UNCHANGED sess /\ sess[p].st = "open" /\ OwnsPending(p)
      BY <1>5 DEF BeginRetry
    <2>2. j \in Job /\ j.at = "copy" /\ j.for = "retry"
      BY <1>1, <2>1, CacheRange, RangeFacts, NoJobFacts DEF Job, NoJob, OwnsPending, IsPending
    <2> HIDE DEF j
    <2> QED BY <1>3, <1>4, <2>1, <2>2
  <1>6. CASE sess[p].pend /\ cache[D(p)].kind # "ConflictCopy"
    <2> DEFINE j == [NoJob EXCEPT !.at = "state", !.for = "retry",
                       !.base = cache[D(p)].obs, !.local = sess[p].v, !.n = 1]
    <2>1. GoTo(p, j) /\ UNCHANGED sess /\ sess[p].st = "open" /\ OwnsPending(p)
      BY <1>6 DEF BeginRetry
    <2>2. cache[D(p)].obs \in Bytes
      BY <1>1, <1>6, <2>1, CacheRange DEF OwnsPending, IsPending, CacheShape
    <2>3. j \in Job /\ j.at = "state" /\ j.for = "retry" /\ j.base = cache[D(p)].obs
      BY <1>0, <1>1, <2>2, RangeFacts, NoJobFacts DEF Job, NoJob, MaybeBytes
    <2> HIDE DEF j
    <2> QED BY <1>3, <1>4, <2>1, <2>2, <2>3
  <1>7. CASE ~sess[p].pend /\ IsPending(D(p))
    <2> DEFINE s == [sess[p] EXCEPT !.pend = TRUE]
    <2>1. sess' = [sess EXCEPT ![p] = s] /\ UNCHANGED job
      BY <1>1, <1>7 DEF BeginRetry, TypeOK
    <2>2. /\ s \in Session /\ s.st = sess[p].st /\ s.b = sess[p].b
          /\ s.tag = sess[p].tag /\ s.hasBase = sess[p].hasBase
      BY <1>1, RangeFacts DEF Session
    <2> HIDE DEF s
    <2> QED BY <1>1, <1>2, <1>3, <2>1, <2>2, IdleShape DEF SessShape
  <1>8. CASE ~sess[p].pend /\ ~IsPending(D(p)) /\ receipt[D(p)] # NoEntry /\ receipt[D(p)].pend
    <2> DEFINE j == [NoJob EXCEPT !.at = "copy", !.for = "receipt", !.local = receipt[D(p)].b.v]
    <2>1. GoTo(p, j) /\ UNCHANGED sess
      BY <1>8 DEF BeginRetry
    <2>2. j \in Job /\ j.at = "copy" /\ j.for = "receipt"
      BY <1>1, <1>8, CacheRange, RangeFacts, NoJobFacts DEF Job, NoJob
    <2> HIDE DEF j
    <2> QED BY <1>3, <1>4, <2>1, <2>2
  <1>9. CASE ~sess[p].pend /\ ~IsPending(D(p)) /\ ~(receipt[D(p)] # NoEntry /\ receipt[D(p)].pend)
    <2> DEFINE j == [NoJob EXCEPT !.at = "state", !.for = "refresh",
                       !.base = BaseOf(p), !.local = sess[p].v]
    <2>1. GoTo(p, j) /\ UNCHANGED sess
      BY <1>9 DEF BeginRetry
    <2>2. j \in Job /\ j.at = "state" /\ j.for = "refresh"
      BY <1>1, BaseOfFacts, RangeFacts, NoJobFacts DEF Job, NoJob
    <2> HIDE DEF j
    <2> QED BY <1>3, <1>4, <2>1, <2>2
  <1> QED BY <1>5, <1>6, <1>7, <1>8, <1>9

\* What Rebase does: a push of fresh bytes for the patched vault, or the
\* patched vault itself for a refresh.
Rebased(p, rem, seen) ==
    LET v == Patch(job[p].base.v, job[p].local, rem.v)
    IN  /\ job' \in [Proc -> Job]
        /\ \A q \in Proc \ {p} : job'[q] = job[q]
        /\ job'[p].for = job[p].for /\ job'[p].rem = rem /\ job'[p].seen = seen
        /\ \/ /\ job[p].for = "refresh" /\ job'[p].at = "install"
              /\ job'[p].local = v
           \/ /\ job[p].for # "refresh" /\ job'[p].at = "push"
              /\ job'[p].base = job[p].base /\ job'[p].local = job[p].local
              /\ job'[p].cand \in Bytes \ InUse /\ job'[p].cand.v = v

LEMMA RebaseFacts ==
    ASSUME TypeOK, NEW p \in Proc, NEW rem \in Bytes, NEW seen \in MaybeBytes,
           Rebase(p, rem, seen)
    PROVE  Rebased(p, rem, seen)
  <1> DEFINE v == Patch(job[p].base.v, job[p].local, rem.v)
  <1>1. v \in SUBSET Edit
    BY RangeFacts DEF Patch
  <1>2. job[p] \in Job
    BY RangeFacts
  <1>3. CASE job[p].for = "refresh"
    <2> DEFINE j == [job[p] EXCEPT !.at = "install", !.local = v, !.rem = rem,
                                   !.seen = seen, !.base = NoBytes]
    <2>1. GoTo(p, j)
      BY <1>3 DEF Rebase
    <2> HIDE DEF v
    <2>2. /\ j \in Job /\ j.at = "install" /\ j.local = v /\ j.for = job[p].for
          /\ j.rem = rem /\ j.seen = seen
      BY <1>1, <1>2 DEF Job, MaybeBytes
    <2> HIDE DEF j
    <2>3. /\ job' \in [Proc -> Job] /\ job'[p] = j
          /\ \A q \in Proc \ {p} : job'[q] = job[q]
      BY <2>1, <2>2, GoToFacts
    <2> USE DEF v
    <2> QED BY <1>3, <2>2, <2>3 DEF Rebased
  <1>4. CASE job[p].for # "refresh"
    <2>1. PICK b \in Fresh(v, "kern") :
              GoTo(p, [job[p] EXCEPT !.at = "push", !.rem = rem, !.seen = seen, !.cand = b])
      BY <1>4 DEF Rebase
    <2> DEFINE j == [job[p] EXCEPT !.at = "push", !.rem = rem, !.seen = seen, !.cand = b]
    <2> HIDE DEF v
    <2>2. b \in Bytes \ InUse /\ b.v = v
      BY <1>1, FreshFacts
    <2>3. /\ j \in Job /\ j.at = "push" /\ j.local = job[p].local /\ j.for = job[p].for
          /\ j.base = job[p].base /\ j.rem = rem /\ j.seen = seen /\ j.cand = b
      BY <1>2, <2>2 DEF Job, MaybeBytes
    <2> HIDE DEF j
    <2>4. GoTo(p, j)
      BY <2>1 DEF j
    <2>5. /\ job' \in [Proc -> Job] /\ job'[p] = j
          /\ \A q \in Proc \ {p} : job'[q] = job[q]
      BY <2>4, <2>3, GoToFacts
    <2> USE DEF v
    <2> QED BY <1>4, <2>2, <2>3, <2>5 DEF Rebased
  <1> QED BY <1>3, <1>4

LEMMA RebaseShape ==
    ASSUME Shape, NEW p \in Proc, NEW rem \in Bytes, NEW seen \in Bytes,
           Rebase(p, rem, seen), job[p].base \in Bytes,
           job[p].for \in {"save", "retry", "refresh"},
           UNCHANGED <<site, sess, cache, receipt>>
    PROVE  Local(p) /\ ShapeAt(p)'
  <1>1. /\ TypeOK /\ JobShape(p) /\ SessShape(p) /\ CacheShape(D(p)) /\ D(p)' = D(p)
    BY SiteFacts DEF Shape, D
  <1>2. Rebased(p, rem, seen)
    BY <1>1, RebaseFacts DEF MaybeBytes
  <1>3. Local(p)
    BY <1>1, <1>2 DEF Local, Rebased, TypeOK
  <1>4. SessShape(p)' /\ CacheShape(D(p))'
    BY <1>1 DEF SessShape, CacheShape
  <1>5. JobShape(p)'
    BY <1>1, <1>2 DEF JobShape, Rebased
  <1> QED BY <1>3, <1>4, <1>5 DEF ShapeAt

\* What a load leaves: a locked session at a copy of the source, or nothing new.
LEMMA LoadFromFacts ==
    ASSUME TypeOK, NEW p \in Proc, NEW b \in Bytes, NEW tag \in MaybeBytes,
           LoadFrom(p, b, tag)
    PROVE  /\ sess' \in [Proc -> Session]
           /\ \A q \in Proc \ {p} : sess'[q] = sess[q]
           /\ sess'[p].st = "locked" /\ sess'[p].b = b /\ sess'[p].tag = tag
           /\ sess'[p].hasBase = TRUE
  <1> DEFINE s == [Closed EXCEPT !.st = "locked", !.b = b, !.tag = tag, !.hasBase = TRUE]
  <1>1. s \in Session /\ s.st = "locked" /\ s.b = b /\ s.tag = tag /\ s.hasBase = TRUE
    BY ClosedFacts DEF Closed, Session, MaybeBytes
  <1>2. sess' = [sess EXCEPT ![p] = s]
    BY DEF LoadFrom
  <1> HIDE DEF s
  <1> QED BY <1>1, <1>2, SessFacts

LEMMA LoadCachedFacts ==
    ASSUME TypeOK, NEW p \in Proc, LoadCached(p)
    PROVE  /\ sess' \in [Proc -> Session]
           /\ \A q \in Proc \ {p} : sess'[q] = sess[q]
           /\ \/ sess' = sess
              \/ /\ sess'[p].st = "locked" /\ sess'[p].hasBase = TRUE
                 /\ \/ /\ job[p].base # NoBytes
                       /\ sess'[p].b = job[p].base /\ sess'[p].tag = job[p].seen
                    \/ /\ job[p].base = NoBytes /\ cache[D(p)] # NoEntry
                       /\ sess'[p].b = cache[D(p)].b /\ sess'[p].tag = cache[D(p)].tag
  <1>1. CASE job[p].base # NoBytes
    <2>1. job[p].base \in Bytes /\ job[p].seen \in MaybeBytes
      BY <1>1, RangeFacts DEF MaybeBytes
    <2>2. LoadFrom(p, job[p].base, job[p].seen)
      BY <1>1 DEF LoadCached
    <2> QED BY <1>1, <2>1, <2>2, LoadFromFacts
  <1>2. CASE job[p].base = NoBytes /\ cache[D(p)] # NoEntry
    <2>1. LoadFrom(p, cache[D(p)].b, cache[D(p)].tag)
      BY <1>2 DEF LoadCached
    <2> QED BY <1>2, <2>1, CacheRange, LoadFromFacts
  <1>3. CASE job[p].base = NoBytes /\ cache[D(p)] = NoEntry
    BY <1>3 DEF LoadCached, TypeOK
  <1> QED BY <1>1, <1>2, <1>3

LEMMA LoadShape ==
    ASSUME Shape, NEW p \in Proc, job[p].for = "load", LoadCached(p), Finish(p),
           UNCHANGED <<site, cache, receipt>>
    PROVE  Local(p) /\ ShapeAt(p)'
  <1>1. /\ TypeOK /\ JobShape(p) /\ SessShape(p) /\ CacheShape(D(p)) /\ D(p)' = D(p)
    BY SiteFacts DEF Shape, D
  <1>2. /\ sess' \in [Proc -> Session]
        /\ \A q \in Proc \ {p} : sess'[q] = sess[q]
    BY <1>1, LoadCachedFacts
  <1>3. /\ job' \in [Proc -> Job] /\ JobShape(p)'
        /\ \A q \in Proc \ {p} : job'[q] = job[q]
    BY <1>1, FinishFacts
  <1>4. Local(p)
    BY <1>1, <1>2, <1>3 DEF Local, TypeOK
  <1>5. CacheShape(D(p))'
    BY <1>1 DEF CacheShape
  <1>6. SessShape(p)'
    <2>1. CASE sess' = sess
      BY <1>1, <2>1 DEF SessShape
    <2>2. CASE /\ sess'[p].st = "locked" /\ sess'[p].hasBase = TRUE
               /\ \/ /\ job[p].base # NoBytes
                     /\ sess'[p].b = job[p].base /\ sess'[p].tag = job[p].seen
                  \/ /\ job[p].base = NoBytes /\ cache[D(p)] # NoEntry
                     /\ sess'[p].b = cache[D(p)].b /\ sess'[p].tag = cache[D(p)].tag
      <3>1. sess'[p].b \in Bytes /\ cache[D(p)] # NoEntry
        BY <1>1, <2>2, RangeFacts, CacheRange DEF JobShape, MaybeBytes
      <3> QED BY <1>1, <2>2, <3>1 DEF SessShape
    <2> QED BY <1>1, <2>1, <2>2, LoadCachedFacts
  <1> QED BY <1>3, <1>4, <1>5, <1>6 DEF ShapeAt

\* The vault goes to a pending generation of its own.
LEMMA InheritedFacts ==
    ASSUME TypeOK, NEW p \in Proc
    PROVE  InheritedObserved(D(p)) \in MaybeBytes
  BY CacheRange DEF InheritedObserved, MaybeBytes

LEMMA GenericShape ==
    ASSUME Shape, NEW p \in Proc, NEW v \in SUBSET Edit, sess[p].st # "closed",
           PersistGeneric(p, v), UNCHANGED <<site, receipt>>
    PROVE  Local(p) /\ ShapeAt(p)' /\ (acked \subseteq Edit)'
  <1>1. TypeOK /\ SessShape(p) /\ CacheShape(D(p)) /\ D(p) \in Device
    BY SiteFacts DEF Shape
  <1> DEFINE obs == InheritedObserved(D(p))
  <1>2. PICK b \in Fresh(v, "kern") : PersistPending(p, b, "Generic", obs)
    BY DEF PersistGeneric
  <1>3. b \in Bytes
    BY <1>1, FreshFacts
  <1>4. obs \in MaybeBytes
    BY <1>1, InheritedFacts
  <1>5. cache[D(p)] # NoEntry
    BY <1>1 DEF SessShape
  <1>6. AcceptsPending(D(p), sess[p].b, "Generic") => obs \in Bytes
    BY <1>1, <1>5, CacheRange DEF AcceptsPending, InheritedObserved, CacheShape
  <1> HIDE DEF obs
  <1> QED BY <1>2, <1>3, <1>4, <1>6, PersistShape

LEMMA CopyPendingShape ==
    ASSUME Shape, NEW p \in Proc, NEW b \in Bytes, sess[p].st # "closed",
           PersistConflictCopy(p, b), UNCHANGED <<site, receipt>>
    PROVE  Local(p) /\ ShapeAt(p)' /\ (acked \subseteq Edit)'
  BY PersistShape DEF PersistConflictCopy, MaybeBytes

\* A call goes on to publish a conflict copy.
LEMMA GoToCopyFacts ==
    ASSUME TypeOK, NEW p \in Proc, NEW v \in SUBSET Edit, NEW rem \in MaybeBytes,
           GoToCopy(p, v, rem)
    PROVE  /\ job' \in [Proc -> Job]
           /\ \A q \in Proc \ {p} : job'[q] = job[q]
           /\ job'[p].at = "copy" /\ job'[p].for = job[p].for /\ job'[p].local = v
           /\ job[p].for = "refresh" => job'[p].rem = rem /\ job'[p].seen = job[p].seen
           /\ job[p].for # "refresh" => job'[p].seen = NoBytes
  <1> DEFINE j == IF job[p].for = "refresh"
                    THEN [NoJob EXCEPT !.at = "copy", !.for = "refresh", !.local = v,
                                       !.rem = rem, !.seen = job[p].seen]
                    ELSE [NoJob EXCEPT !.at = "copy", !.for = job[p].for, !.local = v]
  <1>1. job[p].for \in {"none", "save", "retry", "refresh", "adopt", "load", "receipt"}
    BY RangeFacts DEF Job
  <1>2. /\ j \in Job /\ j.at = "copy" /\ j.for = job[p].for /\ j.local = v
        /\ job[p].for = "refresh" => j.rem = rem /\ j.seen = job[p].seen
        /\ job[p].for # "refresh" => j.seen = NoBytes
    BY <1>1, NoJobFacts, RangeFacts DEF NoJob, Job
  <1>3. GoTo(p, j)
    BY DEF GoToCopy
  <1> HIDE DEF j
  <1> QED BY <1>2, <1>3, GoToFacts

LEMMA GoToCopyShape ==
    ASSUME Shape, NEW p \in Proc, NEW v \in SUBSET Edit, NEW rem \in MaybeBytes,
           job[p].for \in {"save", "retry", "refresh"},
           job[p].for = "refresh" => rem \in Bytes,
           GoToCopy(p, v, rem), UNCHANGED <<site, sess, cache, receipt>>
    PROVE  Local(p) /\ ShapeAt(p)'
  <1>1. /\ TypeOK /\ JobShape(p) /\ SessShape(p) /\ CacheShape(D(p)) /\ D(p)' = D(p)
    BY SiteFacts DEF Shape, D
  <1>2. /\ job' \in [Proc -> Job]
        /\ \A q \in Proc \ {p} : job'[q] = job[q]
        /\ job'[p].at = "copy" /\ job'[p].for = job[p].for /\ job'[p].local = v
        /\ job[p].for = "refresh" => job'[p].rem = rem
    BY <1>1, GoToCopyFacts
  <1>3. Local(p) /\ SessShape(p)' /\ CacheShape(D(p))'
    BY <1>1, <1>2 DEF Local, TypeOK, SessShape, CacheShape
  <1>4. JobShape(p)'
    BY <1>1, <1>2 DEF JobShape
  <1> QED BY <1>3, <1>4 DEF ShapeAt

\* A refused condition: another attempt, or a conflict copy.
LEMMA RefusedFacts ==
    ASSUME TypeOK, NEW p \in Proc, Refused(p), job[p].cand \in Bytes,
           job[p].for \in {"save", "retry"}
    PROVE  /\ job' \in [Proc -> Job]
           /\ \A q \in Proc \ {p} : job'[q] = job[q]
           /\ job'[p].for = job[p].for /\ job'[p].seen = NoBytes
           /\ \/ /\ job'[p].at = "state"
                 /\ job'[p].base = job[p].base /\ job'[p].local = job[p].local
              \/ job'[p].at = "copy" /\ job'[p].local = job[p].cand.v
  <1>1. CASE job[p].n < MaxAttempts
    <2> DEFINE j == [NoJob EXCEPT !.at = "state", !.for = job[p].for,
                      !.n = job[p].n + 1, !.base = job[p].base,
                      !.local = job[p].local]
    <2>1. GoTo(p, j)
      BY <1>1 DEF Refused
    <2>2. job[p].n + 1 \in 0 .. MaxAttempts
      <3>1. job[p].n \in 0 .. MaxAttempts
        BY RangeFacts DEF Job
      <3> QED BY <1>1, <3>1, SyncAssumption
    <2>3. /\ j \in Job /\ j.at = "state" /\ j.for = job[p].for /\ j.seen = NoBytes
          /\ j.base = job[p].base /\ j.local = job[p].local
      BY <2>2, NoJobFacts, RangeFacts DEF NoJob, Job
    <2> HIDE DEF j
    <2> QED BY <2>1, <2>3, GoToFacts
  <1>2. CASE ~(job[p].n < MaxAttempts)
    <2>1. GoToCopy(p, job[p].cand.v, NoBytes)
      BY <1>2 DEF Refused
    <2>2. job[p].cand.v \in SUBSET Edit /\ NoBytes \in MaybeBytes
      BY RangeFacts DEF MaybeBytes
    <2> QED BY <2>1, <2>2, GoToCopyFacts
  <1> QED BY <1>1, <1>2

LEMMA RefusedShape ==
    ASSUME Shape, NEW p \in Proc, Refused(p), job[p].at \in {"push", "readback"},
           UNCHANGED <<site, sess, cache, receipt>>
    PROVE  Local(p) /\ ShapeAt(p)'
  <1>1. /\ TypeOK /\ JobShape(p) /\ SessShape(p) /\ CacheShape(D(p)) /\ D(p)' = D(p)
    BY SiteFacts DEF Shape, D
  <1>2. job[p].cand \in Bytes /\ job[p].for \in {"save", "retry"} /\ job[p].base \in Bytes
    BY <1>1 DEF JobShape
  <1>3. /\ job' \in [Proc -> Job]
        /\ \A q \in Proc \ {p} : job'[q] = job[q]
        /\ job'[p].for = job[p].for
        /\ \/ job'[p].at = "state" /\ job'[p].base = job[p].base
           \/ job'[p].at = "copy"
    BY <1>1, <1>2, RefusedFacts
  <1>4. Local(p) /\ SessShape(p)' /\ CacheShape(D(p))'
    BY <1>1, <1>3 DEF Local, TypeOK, SessShape, CacheShape
  <1>5. JobShape(p)'
    BY <1>1, <1>2, <1>3 DEF JobShape
  <1> QED BY <1>4, <1>5 DEF ShapeAt

LEMMA FaultFacts ==
    ASSUME TypeOK, Fault \/ UNCHANGED faults
    PROVE  faults' \in 0 .. MaxFaults
  BY SyncAssumption DEF TypeOK, Fault

LEMMA StateKnownShape ==
    ASSUME Shape, NEW p \in Proc, StateKnown(p)
    PROVE  Local(p) /\ Rest' /\ ShapeAt(p)'
  <1>1. /\ TypeOK /\ JobShape(p) /\ SessShape(p) /\ job[p] \in Job
        /\ head \in Bytes /\ job[p].at = "state"
    BY RangeFacts DEF Shape, StateKnown, MaybeBytes
  <1>2. UNCHANGED <<site, cache, receipt>>
    BY DEF StateKnown, remote
  <1>3. Rest'
    BY <1>1 DEF StateKnown, Rest, TypeOK, remote
  <1>4. CASE KnownTag(p) = head /\ job[p].for = "save"
    <2>1. Rebase(p, job[p].base, head) /\ UNCHANGED sess /\ job[p].base \in Bytes
      BY <1>1, <1>4 DEF StateKnown, JobShape
    <2> QED BY <1>1, <1>2, <1>3, <1>4, <2>1, RebaseShape
  <1>5. CASE KnownTag(p) = head /\ job[p].for = "load"
    BY <1>2, <1>3, <1>5, LoadShape DEF StateKnown
  <1>6. CASE KnownTag(p) = head /\ job[p].for \notin {"save", "load"}
    BY <1>2, <1>3, <1>6, FinishShape DEF StateKnown
  <1>7. CASE KnownTag(p) # head
    <2> DEFINE j == [job[p] EXCEPT !.at = "read", !.seen = head]
    <2>1. GoTo(p, j) /\ UNCHANGED sess
      BY <1>7 DEF StateKnown
    <2>2. /\ j \in Job /\ j.at = "read" /\ j.for = job[p].for
          /\ j.seen = head /\ j.base = job[p].base
      BY <1>1 DEF Job, MaybeBytes
    <2> HIDE DEF j
    <2>3. Local(p) /\ SessShape(p)' /\ CacheShape(D(p))' /\ job'[p] = j
      BY <1>2, <2>1, <2>2, GoToShape
    <2>4. JobShape(p)'
      BY <1>1, <1>2, <2>1, <2>2, <2>3 DEF JobShape, D
    <2> QED BY <1>3, <2>3, <2>4 DEF ShapeAt
  <1> QED BY <1>4, <1>5, <1>6, <1>7

LEMMA StateFailsShape ==
    ASSUME Shape, NEW p \in Proc, StateFails(p)
    PROVE  Local(p) /\ Rest' /\ ShapeAt(p)'
  <1>1. /\ TypeOK /\ JobShape(p) /\ job[p].local \in SUBSET Edit
        /\ job[p].at = "state" /\ UNCHANGED <<site, receipt>>
    BY RangeFacts DEF Shape, StateFails, remote
  <1>2. (acked \subseteq Edit)' => Rest'
    BY <1>1, FaultFacts DEF StateFails, Rest, TypeOK, remote
  <1>3. CASE job[p].for = "save"
    <2>1. sess[p].st = "open"
      BY <1>1, <1>3 DEF JobShape
    <2>2. CASE PersistGeneric(p, job[p].local)
      BY <1>1, <1>2, <2>1, <2>2, GenericShape
    <2>3. CASE \E b \in Fresh(job[p].local, "kern") : PersistConflictCopy(p, b)
      <3>1. PICK b \in Fresh(job[p].local, "kern") : PersistConflictCopy(p, b)
        BY <2>3
      <3>2. b \in Bytes
        BY <1>1, FreshFacts
      <3> QED BY <1>1, <1>2, <2>1, <3>1, <3>2, CopyPendingShape
    <2> QED BY <1>3, <2>2, <2>3 DEF StateFails
  <1>4. CASE job[p].for = "load"
    <2>1. LoadCached(p) /\ Finish(p) /\ UNCHANGED <<cache, acked>>
      BY <1>4 DEF StateFails
    <2> QED BY <1>1, <1>2, <1>4, <2>1, LoadShape DEF TypeOK
  <1>5. CASE job[p].for \notin {"save", "load"}
    <2>1. Finish(p) /\ UNCHANGED <<cache, sess, acked>>
      BY <1>5 DEF StateFails
    <2> QED BY <1>1, <1>2, <2>1, FinishShape DEF TypeOK
  <1> QED BY <1>3, <1>4, <1>5

LEMMA ReadHeadShape ==
    ASSUME Shape, NEW p \in Proc, ReadHead(p)
    PROVE  Local(p) /\ Rest' /\ ShapeAt(p)'
  <1>1. /\ TypeOK /\ JobShape(p) /\ SessShape(p) /\ job[p] \in Job
        /\ job[p].local \in SUBSET Edit
        /\ head \in Bytes /\ job[p].at = "read" /\ job[p].seen \in Bytes
        /\ job[p].for \in {"save", "retry", "refresh", "adopt", "load"}
        /\ job[p].for \in {"save", "retry"} => job[p].base \in Bytes
        /\ UNCHANGED <<site, cache, receipt, sess>>
    BY RangeFacts DEF Shape, ReadHead, MaybeBytes, remote, JobShape
  <1>2. Rest'
    BY <1>1, FaultFacts DEF ReadHead, Rest, TypeOK, remote
  <1>3. CASE IsCopied(p)
    <2> DEFINE j == [job[p] EXCEPT !.at = "install", !.rem = head,
                                   !.local = head.v, !.base = NoBytes]
    <2>1. GoTo(p, j)
      BY <1>3 DEF ReadHead, CannotAdopt
    <2>2. j \in Job /\ j.at = "install" /\ j.for = job[p].for /\ j.rem = head /\ j.base = NoBytes
      BY <1>1, RangeFacts DEF Job, MaybeBytes
    <2> HIDE DEF j
    <2>3. Local(p) /\ SessShape(p)' /\ CacheShape(D(p))' /\ job'[p] = j
      BY <1>1, <2>1, <2>2, GoToShape
    <2>4. JobShape(p)'
      BY <1>1, <1>3, <2>2, <2>3 DEF JobShape, IsCopied
    <2> QED BY <1>2, <2>3, <2>4 DEF ShapeAt
  <1>4. CASE ~IsCopied(p) /\ CannotAdopt(p)
    BY <1>1, <1>2, <1>4, FinishShape DEF ReadHead
  <1>5. CASE ~IsCopied(p) /\ ~CannotAdopt(p)
    <2>1. /\ job[p].for \in {"save", "retry", "refresh"}
          /\ job[p].base \in Bytes
      BY <1>1, <1>5, RangeFacts DEF IsCopied, CannotAdopt, MaybeBytes
    <2>2. Rebase(p, head, job[p].seen) \/ GoToCopy(p, job[p].local, head)
      BY <1>5 DEF ReadHead
    <2>3. CASE Rebase(p, head, job[p].seen)
      BY <1>1, <1>2, <2>1, <2>3, RebaseShape
    <2>4. CASE GoToCopy(p, job[p].local, head)
      BY <1>1, <1>2, <2>1, <2>4, GoToCopyShape DEF MaybeBytes
    <2> QED BY <2>2, <2>3, <2>4
  <1> QED BY <1>3, <1>4, <1>5

LEMMA ReadFailsShape ==
    ASSUME Shape, NEW p \in Proc, ReadFails(p)
    PROVE  Local(p) /\ Rest' /\ ShapeAt(p)'
  <1>1. /\ TypeOK /\ JobShape(p) /\ job[p].local \in SUBSET Edit
        /\ job[p].at = "read" /\ UNCHANGED <<site, receipt>>
    BY RangeFacts DEF Shape, ReadFails, remote
  <1>2. (acked \subseteq Edit)' => Rest'
    BY <1>1, FaultFacts DEF ReadFails, Rest, TypeOK, remote
  <1>3. CASE job[p].for = "save"
    <2>1. sess[p].st = "open"
      BY <1>1, <1>3 DEF JobShape
    <2>2. PersistGeneric(p, job[p].local)
      BY <1>3 DEF ReadFails
    <2> QED BY <1>1, <1>2, <2>1, <2>2, GenericShape
  <1>4. CASE job[p].for = "load" /\ job[p].base = NoBytes
    <2>1. LoadCached(p) /\ Finish(p) /\ UNCHANGED <<cache, acked>>
      BY <1>4 DEF ReadFails
    <2> QED BY <1>1, <1>2, <1>4, <2>1, LoadShape DEF TypeOK
  <1>5. CASE job[p].for # "save" /\ ~(job[p].for = "load" /\ job[p].base = NoBytes)
    <2>1. Finish(p) /\ UNCHANGED <<cache, sess, acked>>
      BY <1>5 DEF ReadFails
    <2> QED BY <1>1, <1>2, <2>1, FinishShape DEF TypeOK
  <1> QED BY <1>3, <1>4, <1>5

-----------------------------------------------------------------------------
(* Writes to the source. *)

LEMMA GoToCommitFacts ==
    ASSUME TypeOK, NEW p \in Proc, GoToCommit(p)
    PROVE  /\ job' \in [Proc -> Job]
           /\ \A q \in Proc \ {p} : job'[q] = job[q]
           /\ job'[p].at = "commit" /\ job'[p].for = job[p].for
           /\ job'[p].cand = job[p].cand /\ job'[p].seen = NoBytes
  <1> DEFINE j == [NoJob EXCEPT !.at = "commit", !.for = job[p].for, !.cand = job[p].cand]
  <1>1. GoTo(p, j)
    BY DEF GoToCommit
  <1>2. /\ j \in Job /\ j.at = "commit" /\ j.for = job[p].for
        /\ j.cand = job[p].cand /\ j.seen = NoBytes
    BY NoJobFacts, RangeFacts DEF NoJob, Job
  <1> HIDE DEF j
  <1> QED BY <1>1, <1>2, GoToFacts

LEMMA GoToCommitShape ==
    ASSUME Shape, NEW p \in Proc, GoToCommit(p), job[p].at \in {"push", "readback"},
           job[p].for = "save", UNCHANGED <<site, sess, cache, receipt>>
    PROVE  Local(p) /\ ShapeAt(p)'
  <1>1. /\ TypeOK /\ JobShape(p) /\ SessShape(p) /\ CacheShape(D(p)) /\ D(p)' = D(p)
    BY SiteFacts DEF Shape, D
  <1>2. /\ job' \in [Proc -> Job]
        /\ \A q \in Proc \ {p} : job'[q] = job[q]
        /\ job'[p].at = "commit" /\ job'[p].for = job[p].for
        /\ job'[p].cand = job[p].cand
    BY <1>1, GoToCommitFacts
  <1>3. Local(p) /\ SessShape(p)' /\ CacheShape(D(p))'
    BY <1>1, <1>2 DEF Local, TypeOK, SessShape, CacheShape
  <1>4. JobShape(p)'
    BY <1>1, <1>2 DEF JobShape
  <1> QED BY <1>3, <1>4 DEF ShapeAt

LEMMA PushShape ==
    ASSUME Shape, NEW p \in Proc, Push(p)
    PROVE  Local(p) /\ Rest' /\ ShapeAt(p)'
  <1>1. /\ TypeOK /\ JobShape(p) /\ job[p].at = "push" /\ job[p].for = "save"
        /\ job[p].cand \in Bytes /\ job[p].rem \in Bytes
        /\ sess[p].st = "open" /\ UNCHANGED <<site, receipt>>
    BY DEF Shape, Push, JobShape
  <1>2. CASE head = job[p].seen /\ head' = job[p].cand /\ GoToCommit(p)
             /\ UNCHANGED <<cache, sess, acked, faults>>
    <2>1. Rest'
      BY <1>1, <1>2 DEF Push, Rest, TypeOK, MaybeBytes
    <2> QED BY <1>1, <1>2, <2>1, GoToCommitShape
  <1>3. CASE Refused(p) /\ UNCHANGED <<head, cache, sess, acked, faults>>
    <2>1. Rest'
      BY <1>1, <1>3 DEF Push, Rest, TypeOK
    <2> QED BY <1>1, <1>3, <2>1, RefusedShape
  <1>4. CASE /\ PersistPending(p, job[p].cand, "Generic", job[p].rem) /\ Fault
             /\ UNCHANGED head
    <2>1. Local(p) /\ ShapeAt(p)' /\ (acked \subseteq Edit)'
      BY <1>1, <1>4, PersistShape DEF MaybeBytes
    <2>2. Rest'
      BY <1>1, <1>4, <2>1, FaultFacts DEF Push, Rest, TypeOK
    <2> QED BY <2>1, <2>2
  <1> QED BY <1>2, <1>3, <1>4 DEF Push

LEMMA PushUnknownShape ==
    ASSUME Shape, NEW p \in Proc, PushUnknown(p)
    PROVE  Local(p) /\ Rest' /\ ShapeAt(p)'
  <1>1. /\ TypeOK /\ JobShape(p) /\ job[p].at = "push" /\ job[p].for \in {"save", "retry"}
        /\ job[p].cand \in Bytes /\ job[p].rem \in Bytes /\ job[p].seen \in Bytes
        /\ job[p].base \in Bytes /\ job[p] \in Job
        /\ UNCHANGED <<site, cache, receipt, sess>>
    BY RangeFacts DEF Shape, PushUnknown, JobShape
  <1>2. head' \in MaybeBytes /\ late' \in Request \cup {NoEntry}
    BY <1>1 DEF PushUnknown, Unanswered, TypeOK, MaybeBytes, Request
  <1>3. Rest'
    BY <1>1, <1>2, FaultFacts DEF PushUnknown, Rest, TypeOK
  <1>4. CASE job[p].for = "save"
    <2> DEFINE j == [job[p] EXCEPT !.at = "readback"]
    <2>1. GoTo(p, j)
      BY <1>4 DEF PushUnknown
    <2>2. /\ j \in Job /\ j.at = "readback" /\ j.for = job[p].for /\ j.rem = job[p].rem
          /\ j.cand = job[p].cand /\ j.base = job[p].base /\ j.seen = job[p].seen
      BY <1>1 DEF Job
    <2> HIDE DEF j
    <2>3. Local(p) /\ SessShape(p)' /\ CacheShape(D(p))' /\ job'[p] = j
      BY <1>1, <2>1, <2>2, GoToShape
    <2>4. JobShape(p)'
      BY <1>1, <1>4, <2>2, <2>3 DEF JobShape
    <2> QED BY <1>3, <2>3, <2>4 DEF ShapeAt
  <1>5. CASE job[p].for # "save"
    BY <1>1, <1>3, <1>5, FinishShape DEF PushUnknown
  <1> QED BY <1>4, <1>5

LEMMA ReadbackShape ==
    ASSUME Shape, NEW p \in Proc, Readback(p)
    PROVE  Local(p) /\ Rest' /\ ShapeAt(p)'
  <1>1. /\ TypeOK /\ JobShape(p) /\ job[p].at = "readback" /\ job[p].for = "save"
        /\ job[p].cand \in Bytes /\ job[p].rem \in Bytes
        /\ sess[p].st = "open" /\ UNCHANGED <<site, receipt>>
    BY DEF Shape, Readback, JobShape, remote
  <1>2. (acked \subseteq Edit)' => Rest'
    <2>1. faults' \in 0 .. MaxFaults
      <3>1. Fault \/ UNCHANGED faults
        BY DEF Readback
      <3> QED BY <1>1, <3>1, FaultFacts
    <2> QED BY <1>1, <2>1 DEF Readback, Rest, TypeOK, remote
  <1>3. CASE PersistPending(p, job[p].cand, "Generic", job[p].rem)
    BY <1>1, <1>2, <1>3, PersistShape DEF MaybeBytes
  <1>4. CASE GoToCommit(p) /\ UNCHANGED <<cache, sess, acked, faults>>
    BY <1>1, <1>2, <1>4, GoToCommitShape DEF TypeOK
  <1>5. CASE Refused(p) /\ UNCHANGED <<cache, sess, acked, faults>>
    BY <1>1, <1>2, <1>5, RefusedShape DEF TypeOK
  <1> QED BY <1>3, <1>4, <1>5 DEF Readback

\* A call that ends with a new session and perhaps a committed cache copy.
LEMMA MoveShape ==
    ASSUME Shape, NEW p \in Proc, NEW s \in Session, sess' = [sess EXCEPT ![p] = s],
           s.st # "closed" => s.b \in Bytes,
           s.hasBase => s.st # "closed",
           s.tag # NoBytes => s.hasBase,
           NEW b \in Bytes, NEW tag \in MaybeBytes,
           \/ cache' = [cache EXCEPT ![D(p)] = Slot(b, "Clean", NoBytes, tag)]
           \/ UNCHANGED cache /\ (s.st # "closed" => cache[D(p)] # NoEntry),
           Finish(p), UNCHANGED <<site, receipt>>
    PROVE  Local(p) /\ ShapeAt(p)'
  <1>1. /\ TypeOK /\ CacheShape(D(p)) /\ D(p) \in Device /\ D(p)' = D(p)
    BY SiteFacts DEF Shape, D
  <1>2. /\ sess' \in [Proc -> Session] /\ sess'[p] = s
        /\ \A q \in Proc \ {p} : sess'[q] = sess[q]
    BY <1>1, SessFacts
  <1>3. /\ job' \in [Proc -> Job] /\ JobShape(p)'
        /\ \A q \in Proc \ {p} : job'[q] = job[q]
    BY <1>1, FinishFacts
  <1> DEFINE c == Slot(b, "Clean", NoBytes, tag)
  <1>4. c \in Entry /\ c.kind = "Clean" /\ c # NoEntry
    <2>1. NoBytes \in MaybeBytes
      BY DEF MaybeBytes
    <2> QED BY <2>1, NoneAssumption DEF Slot, Entry
  <1>5. CASE cache' = [cache EXCEPT ![D(p)] = c]
    <2> HIDE DEF c
    <2>1. /\ cache' \in [Device -> Entry \cup {NoEntry}] /\ cache'[D(p)] = c
          /\ \A d \in Device \ {D(p)} : cache'[d] = cache[d]
      BY <1>1, <1>4, <1>5, CacheFacts
    <2>2. Local(p)
      BY <1>1, <1>2, <1>3, <1>4, <2>1 DEF Local, TypeOK
    <2>3. SessShape(p)' /\ CacheShape(D(p))'
      BY <1>1, <1>2, <1>4, <2>1 DEF SessShape, CacheShape
    <2> QED BY <1>3, <2>2, <2>3 DEF ShapeAt
  <1>6. CASE UNCHANGED cache /\ (s.st # "closed" => cache[D(p)] # NoEntry)
    <2>1. Local(p)
      BY <1>1, <1>2, <1>3, <1>6 DEF Local, TypeOK
    <2>2. SessShape(p)' /\ CacheShape(D(p))'
      BY <1>1, <1>2, <1>6 DEF SessShape, CacheShape
    <2> QED BY <1>3, <2>1, <2>2 DEF ShapeAt
  <1> QED BY <1>5, <1>6

LEMMA CommitShape ==
    ASSUME Shape, NEW p \in Proc, Commit(p)
    PROVE  Local(p) /\ Rest' /\ ShapeAt(p)'
  <1>1. /\ TypeOK /\ job[p].cand \in Bytes /\ cache[D(p)] # NoEntry
        /\ UNCHANGED <<site, receipt>> /\ Finish(p)
    BY DEF Shape, Commit, JobShape, SessShape, remote
  <1>2. Rest'
    <2>1. faults' \in 0 .. MaxFaults
      <3>1. Fault \/ UNCHANGED faults
        BY DEF Commit, MissesClean
      <3> QED BY <1>1, <3>1, FaultFacts
    <2> QED BY <1>1, <2>1, RangeFacts DEF Commit, Rest, TypeOK, remote
  <1>3. PICK tag \in {job[p].cand, NoBytes} :
            /\ sess' = [sess EXCEPT ![p] = OpenAt(job[p].cand, tag)]
            /\ WritesClean(p, job[p].cand, tag) \/ MissesClean(p)
    BY DEF Commit
  <1>4. tag \in MaybeBytes
    BY <1>1 DEF MaybeBytes
  <1>5. /\ OpenAt(job[p].cand, tag) \in Session
        /\ OpenAt(job[p].cand, tag).st = "open" /\ OpenAt(job[p].cand, tag).b = job[p].cand
        /\ OpenAt(job[p].cand, tag).hasBase = TRUE
    BY <1>1, <1>4, OpenAtFacts
  <1> QED BY <1>1, <1>2, <1>3, <1>4, <1>5, MoveShape DEF WritesClean, MissesClean

LEMMA PushPendingShape ==
    ASSUME Shape, NEW p \in Proc, PushPending(p)
    PROVE  Local(p) /\ Rest' /\ ShapeAt(p)'
  <1>1. /\ TypeOK /\ job[p].cand \in Bytes /\ job[p].at = "push"
        /\ UNCHANGED <<site, receipt>>
    BY DEF Shape, PushPending, JobShape
  <1>2. Rest'
    <2>1. faults' \in 0 .. MaxFaults
      <3>1. Fault \/ UNCHANGED faults
        BY DEF PushPending
      <3> QED BY <1>1, <3>1, FaultFacts
    <2>2. head' = head \/ head' = job[p].cand
      BY DEF PushPending
    <2> QED BY <1>1, <2>1, <2>2 DEF PushPending, Rest, TypeOK, MaybeBytes
  <1>3. CASE Finish(p) /\ UNCHANGED <<cache, sess>>
    BY <1>1, <1>2, <1>3, FinishShape
  <1>4. CASE Refused(p) /\ UNCHANGED <<cache, sess>>
    BY <1>1, <1>2, <1>4, RefusedShape
  <1>5. CASE /\ head' = job[p].cand /\ Finish(p)
             /\ cache' = [cache EXCEPT ![D(p)] = Slot(head', "Clean", NoBytes, head')]
             /\ sess' = [sess EXCEPT ![p] = OpenAt(head', head')]
    <2>1. job[p].cand \in MaybeBytes
      BY <1>1 DEF MaybeBytes
    <2>2. /\ OpenAt(job[p].cand, job[p].cand) \in Session
          /\ OpenAt(job[p].cand, job[p].cand).st = "open"
          /\ OpenAt(job[p].cand, job[p].cand).b = job[p].cand
          /\ OpenAt(job[p].cand, job[p].cand).hasBase = TRUE
      BY <1>1, <2>1, OpenAtFacts
    <2> QED BY <1>1, <1>2, <1>5, <2>1, <2>2, MoveShape
  <1> QED BY <1>3, <1>4, <1>5 DEF PushPending

LEMMA InstallShape ==
    ASSUME Shape, NEW p \in Proc, Install(p)
    PROVE  Local(p) /\ Rest' /\ ShapeAt(p)'
  <1>1. /\ TypeOK /\ JobShape(p) /\ SessShape(p) /\ job[p].rem \in Bytes /\ Finish(p)
        /\ job[p].seen \in MaybeBytes /\ job[p].local \in SUBSET Edit
        /\ job[p].at = "install" /\ UNCHANGED <<site, receipt>>
    BY RangeFacts DEF Shape, Install, JobShape, remote
  <1>2. Rest'
    <2>1. faults' \in 0 .. MaxFaults
      <3>1. Fault \/ UNCHANGED faults
        BY DEF Install, MissesClean
      <3> QED BY <1>1, <3>1, FaultFacts
    <2> QED BY <1>1, <2>1 DEF Install, Rest, TypeOK, remote
  <1> DEFINE s == OpenAt(job[p].rem, job[p].seen)
             new == IF sess[p].st = "open" THEN [s EXCEPT !.v = job[p].local]
                                           ELSE [s EXCEPT !.st = "locked", !.v = {}]
  <1>3. /\ new \in Session /\ new.st \in {"open", "locked"} /\ new.b = job[p].rem
        /\ new.hasBase = TRUE
    BY <1>1 DEF OpenAt, Session, MaybeBytes
  <1>4. CASE WritesClean(p, job[p].rem, job[p].seen) /\ sess' = [sess EXCEPT ![p] = new]
    <2> HIDE DEF new
    <2> QED BY <1>1, <1>2, <1>3, <1>4, MoveShape DEF WritesClean
  <1>5. CASE MissesClean(p) /\ job[p].for = "adopt" /\ sess' = [sess EXCEPT ![p] = new]
    <2>1. cache[D(p)] # NoEntry
      BY <1>1, <1>5 DEF JobShape, SessShape
    <2> HIDE DEF new
    <2> QED BY <1>1, <1>2, <1>3, <1>5, <2>1, MoveShape DEF MissesClean
  <1>6. CASE MissesClean(p) /\ job[p].for # "adopt" /\ sess' = sess
    BY <1>1, <1>2, <1>6, FinishShape DEF MissesClean
  <1> QED BY <1>4, <1>5, <1>6 DEF Install

-----------------------------------------------------------------------------
(* Conflict copies. *)

\* What CopyDone does.
CopyIsDone(p) ==
    /\ job' \in [Proc -> Job] /\ sess' \in [Proc -> Session]
    /\ \A q \in Proc \ {p} : job'[q] = job[q] /\ sess'[q] = sess[q]
    /\ sess'[p].st = sess[p].st /\ sess'[p].b = sess[p].b
    /\ sess'[p].tag = sess[p].tag /\ sess'[p].hasBase = sess[p].hasBase
    /\ \/ /\ job[p].for = "save" /\ job'[p] = NoJob
          /\ sess'[p].v = job[p].local /\ acked' = acked \cup job[p].local
       \/ /\ job[p].for = "refresh" /\ sess' = sess /\ acked' = acked
          /\ job'[p].at = "install" /\ job'[p].for = "refresh"
          /\ job'[p].local = job[p].rem.v /\ job'[p].rem = job[p].rem
          /\ job'[p].seen = job[p].seen
       \/ /\ job[p].for = "retry" /\ sess' = sess /\ acked' = acked
          /\ job'[p].at = "fallback" /\ job'[p].for = "retry" /\ job'[p].seen = NoBytes
       \/ /\ job[p].for = "receipt" /\ job'[p] = NoJob
          /\ sess'[p].v = sess[p].v /\ acked' = acked

LEMMA CopyDoneFacts ==
    ASSUME TypeOK, NEW p \in Proc, JobShape(p), job[p].at \in {"copy", "upload"},
           CopyDone(p)
    PROVE  CopyIsDone(p)
  <1>1. /\ job[p] \in Job /\ sess[p] \in Session /\ job[p].local \in SUBSET Edit
        /\ job[p].for \in {"save", "refresh", "retry", "receipt"}
        /\ job[p].for = "refresh" => job[p].rem \in Bytes
    BY RangeFacts DEF JobShape
  <1>2. CASE job[p].for = "save"
    <2> DEFINE s == [sess[p] EXCEPT !.v = job[p].local]
    <2>1. sess' = [sess EXCEPT ![p] = s] /\ Finish(p) /\ acked' = acked \cup job[p].local
      BY <1>1, <1>2 DEF CopyDone, TypeOK
    <2>2. /\ s \in Session /\ s.v = job[p].local /\ s.st = sess[p].st /\ s.b = sess[p].b
          /\ s.tag = sess[p].tag /\ s.hasBase = sess[p].hasBase
      BY <1>1 DEF Session
    <2> HIDE DEF s
    <2>3. /\ sess' \in [Proc -> Session] /\ sess'[p] = s
          /\ \A q \in Proc \ {p} : sess'[q] = sess[q]
      BY <2>1, <2>2, SessFacts
    <2>4. /\ job' \in [Proc -> Job] /\ job'[p] = NoJob
          /\ \A q \in Proc \ {p} : job'[q] = job[q]
      BY <2>1, FinishFacts
    <2> QED BY <1>2, <2>1, <2>2, <2>3, <2>4 DEF CopyIsDone
  <1>3. CASE job[p].for = "refresh"
    <2> DEFINE j == [job[p] EXCEPT !.at = "install", !.local = job[p].rem.v, !.cand = NoBytes]
    <2>1. GoTo(p, j) /\ UNCHANGED <<sess, acked>>
      BY <1>3 DEF CopyDone
    <2>2. /\ j \in Job /\ j.at = "install" /\ j.for = "refresh" /\ j.local = job[p].rem.v
          /\ j.rem = job[p].rem /\ j.seen = job[p].seen
      <3>1. job[p].rem.v \in SUBSET Edit
        BY <1>1, <1>3, RangeFacts
      <3> QED BY <1>1, <1>3, <3>1 DEF Job, MaybeBytes
    <2> HIDE DEF j
    <2>3. /\ job' \in [Proc -> Job] /\ job'[p] = j
          /\ \A q \in Proc \ {p} : job'[q] = job[q]
      BY <2>1, <2>2, GoToFacts
    <2> QED BY <1>3, <2>1, <2>2, <2>3 DEF CopyIsDone, TypeOK
  <1>4. CASE job[p].for = "retry"
    <2> DEFINE j == [NoJob EXCEPT !.at = "fallback", !.for = "retry"]
    <2>1. GoTo(p, j) /\ UNCHANGED <<sess, acked>>
      BY <1>4 DEF CopyDone
    <2>2. j \in Job /\ j.at = "fallback" /\ j.for = "retry" /\ j.seen = NoBytes
      BY NoJobFacts DEF Job, NoJob
    <2> HIDE DEF j
    <2>3. /\ job' \in [Proc -> Job] /\ job'[p] = j
          /\ \A q \in Proc \ {p} : job'[q] = job[q]
      BY <2>1, <2>2, GoToFacts
    <2> QED BY <1>4, <2>1, <2>2, <2>3 DEF CopyIsDone, TypeOK
  <1>5. CASE job[p].for = "receipt"
    <2> DEFINE s == [sess[p] EXCEPT !.pend = FALSE]
    <2>1. sess' = [sess EXCEPT ![p] = s] /\ Finish(p) /\ acked' = acked
      BY <1>1, <1>5 DEF CopyDone, TypeOK
    <2>2. /\ s \in Session /\ s.v = sess[p].v /\ s.st = sess[p].st /\ s.b = sess[p].b
          /\ s.tag = sess[p].tag /\ s.hasBase = sess[p].hasBase
      BY <1>1 DEF Session
    <2> HIDE DEF s
    <2>3. /\ sess' \in [Proc -> Session] /\ sess'[p] = s
          /\ \A q \in Proc \ {p} : sess'[q] = sess[q]
      BY <2>1, <2>2, SessFacts
    <2>4. /\ job' \in [Proc -> Job] /\ job'[p] = NoJob
          /\ \A q \in Proc \ {p} : job'[q] = job[q]
      BY <2>1, FinishFacts
    <2> QED BY <1>5, <2>1, <2>2, <2>3, <2>4 DEF CopyIsDone
  <1> QED BY <1>1, <1>2, <1>3, <1>4, <1>5

\* The receipt of the runtime's device.
ReceiptMoves(p) ==
    /\ receipt' \in [Device -> Receipt \cup {NoEntry}]
    /\ \A d \in Device \ {D(p)} : receipt'[d] = receipt[d]

LEMMA CopyDoneShape ==
    ASSUME Shape, NEW p \in Proc, job[p].at \in {"copy", "upload"}, CopyDone(p),
           ReceiptMoves(p), UNCHANGED <<site, cache>>
    PROVE  Local(p) /\ ShapeAt(p)' /\ (acked \subseteq Edit)'
  <1>1. /\ TypeOK /\ JobShape(p) /\ SessShape(p) /\ CacheShape(D(p)) /\ D(p)' = D(p)
        /\ job[p].local \in SUBSET Edit
    BY SiteFacts, RangeFacts DEF Shape, D
  <1>2. CopyIsDone(p)
    BY <1>1, CopyDoneFacts
  <1>3. Local(p) /\ SessShape(p)' /\ CacheShape(D(p))'
    BY <1>1, <1>2 DEF Local, TypeOK, SessShape, CacheShape, CopyIsDone, ReceiptMoves
  <1>4. JobShape(p)'
    BY <1>1, <1>2 DEF JobShape, CopyIsDone, NoJob
  <1>5. (acked \subseteq Edit)'
    BY <1>1, <1>2 DEF CopyIsDone, TypeOK
  <1> QED BY <1>3, <1>4, <1>5 DEF ShapeAt

\* The caller is told that the copy is still to be made.
LEMMA StillPendingFacts ==
    ASSUME TypeOK, NEW p \in Proc, sess' = [sess EXCEPT ![p].pend = TRUE]
    PROVE  /\ sess' \in [Proc -> Session]
           /\ \A q \in Proc \ {p} : sess'[q] = sess[q]
           /\ sess'[p].st = sess[p].st /\ sess'[p].b = sess[p].b /\ sess'[p].v = sess[p].v
           /\ sess'[p].tag = sess[p].tag /\ sess'[p].hasBase = sess[p].hasBase
  <1> DEFINE s == [sess[p] EXCEPT !.pend = TRUE]
  <1>1. sess' = [sess EXCEPT ![p] = s]
    BY DEF TypeOK
  <1>2. /\ s \in Session /\ s.v = sess[p].v /\ s.st = sess[p].st /\ s.b = sess[p].b
        /\ s.tag = sess[p].tag /\ s.hasBase = sess[p].hasBase
    BY RangeFacts DEF Session
  <1> HIDE DEF s
  <1> QED BY <1>1, <1>2, SessFacts

LEMMA CopyFailedShape ==
    ASSUME Shape, NEW p \in Proc, job[p].at = "upload", CopyFailed(p),
           UNCHANGED <<site, receipt>>
    PROVE  Local(p) /\ ShapeAt(p)' /\ (acked \subseteq Edit)'
  <1>1. /\ TypeOK /\ JobShape(p) /\ SessShape(p) /\ CacheShape(D(p)) /\ D(p)' = D(p)
        /\ job[p].cand \in Bytes
    BY SiteFacts DEF Shape, D, JobShape
  <1>2. CASE job[p].for \in {"save", "refresh"}
    <2>1. PersistConflictCopy(p, job[p].cand) /\ sess[p].st # "closed"
      BY <1>1, <1>2 DEF CopyFailed, JobShape
    <2> QED BY <1>1, <2>1, CopyPendingShape
  <1>3. CASE job[p].for \notin {"save", "refresh"}
    <2>1. /\ sess' = [sess EXCEPT ![p].pend = TRUE] /\ Finish(p)
          /\ UNCHANGED <<cache, acked>>
      BY <1>3 DEF CopyFailed
    <2>2. /\ sess' \in [Proc -> Session]
          /\ \A q \in Proc \ {p} : sess'[q] = sess[q]
          /\ sess'[p].st = sess[p].st /\ sess'[p].b = sess[p].b
          /\ sess'[p].tag = sess[p].tag /\ sess'[p].hasBase = sess[p].hasBase
      BY <1>1, <2>1, StillPendingFacts
    <2>3. /\ job' \in [Proc -> Job] /\ JobShape(p)'
          /\ \A q \in Proc \ {p} : job'[q] = job[q]
      BY <1>1, <2>1, FinishFacts
    <2>4. Local(p) /\ SessShape(p)' /\ CacheShape(D(p))'
      BY <1>1, <2>1, <2>2, <2>3 DEF Local, TypeOK, SessShape, CacheShape
    <2> QED BY <1>1, <2>1, <2>3, <2>4 DEF ShapeAt, TypeOK
  <1> QED BY <1>2, <1>3

\* The two outcomes of PublishReceipt: the copy is known to be there, or its
\* bytes are reserved for an upload.
LEMMA PublishFacts ==
    ASSUME TypeOK, NEW p \in Proc, JobShape(p), PublishReceipt(p)
    PROVE  /\ UNCHANGED <<remote, copied, made, cache>> /\ ReceiptMoves(p)
           /\ job[p].at = "copy" /\ (Fault \/ UNCHANGED faults)
           /\ \/ /\ CopyDone(p) /\ receipt' = receipt
                 /\ receipt[D(p)] # NoEntry /\ ~receipt[D(p)].pend
                 /\ receipt[D(p)].b.v = job[p].local
              \/ /\ receipt'[D(p)] # NoEntry /\ receipt'[D(p)].pend
                 /\ UNCHANGED <<sess, acked>>
                 /\ job' \in [Proc -> Job]
                 /\ \A q \in Proc \ {p} : job'[q] = job[q]
                 /\ job'[p].at = "upload" /\ job'[p].for = job[p].for
                 /\ job'[p].local = job[p].local /\ job'[p].cand.v = job[p].local
                 /\ job'[p].cand \in Bytes /\ job'[p].rem = job[p].rem
                 /\ job'[p].seen = job[p].seen
  <1> DEFINE d == D(p)
             same == receipt[d] # NoEntry /\ receipt[d].b.v = job[p].local
             bytes == IF same THEN {receipt[d].b} ELSE Fresh(job[p].local, "kern")
  <1>1. /\ job[p].at = "copy" /\ UNCHANGED <<remote, copied, made>>
        /\ job[p] \in Job /\ job[p].local \in SUBSET Edit /\ D(p) \in Device
    BY RangeFacts, SiteFacts DEF PublishReceipt
  <1>2. CASE same /\ ~receipt[d].pend /\ CopyDone(p) /\ UNCHANGED <<receipt, cache, faults>>
    BY <1>1, <1>2 DEF ReceiptMoves, TypeOK
  <1>3. ASSUME NEW b \in bytes,
               GoTo(p, [job[p] EXCEPT !.at = "upload", !.cand = b]),
               receipt' = [receipt EXCEPT ![d] = [b |-> b, pend |-> TRUE]],
               Fault \/ UNCHANGED faults, UNCHANGED <<cache, sess, acked>>
        PROVE  /\ ReceiptMoves(p) /\ receipt'[D(p)] # NoEntry /\ receipt'[D(p)].pend
               /\ job' \in [Proc -> Job]
               /\ \A q \in Proc \ {p} : job'[q] = job[q]
               /\ job'[p].at = "upload" /\ job'[p].for = job[p].for
               /\ job'[p].local = job[p].local /\ job'[p].cand.v = job[p].local
               /\ job'[p].cand \in Bytes /\ job'[p].rem = job[p].rem
               /\ job'[p].seen = job[p].seen
    <2>1. b \in Bytes /\ b.v = job[p].local
      <3>1. CASE same
        BY <1>3, <3>1, CacheRange
      <3>2. CASE ~same
        BY <1>1, <1>3, <3>2, FreshFacts
      <3> QED BY <3>1, <3>2
    <2> DEFINE j == [job[p] EXCEPT !.at = "upload", !.cand = b]
               r == [b |-> b, pend |-> TRUE]
    <2>2. /\ j \in Job /\ j.at = "upload" /\ j.for = job[p].for /\ j.local = job[p].local
          /\ j.cand = b /\ j.rem = job[p].rem /\ j.seen = job[p].seen
      BY <1>1, <2>1 DEF Job, MaybeBytes
    <2>3. r \in Receipt /\ r.pend /\ r # NoEntry
      <3>1. r \in Receipt /\ r.pend
        BY <2>1 DEF Receipt
      <3> QED BY <3>1, NoneAssumption
    <2>4. GoTo(p, j) /\ receipt' = [receipt EXCEPT ![d] = r]
      BY <1>3
    <2> HIDE DEF j, r
    <2>5. /\ job' \in [Proc -> Job] /\ job'[p] = j
          /\ \A q \in Proc \ {p} : job'[q] = job[q]
      BY <2>2, <2>4, GoToFacts
    <2>6. ReceiptMoves(p) /\ receipt'[D(p)] = r
      BY <1>1, <2>3, <2>4 DEF ReceiptMoves, TypeOK
    <2> QED BY <2>1, <2>2, <2>3, <2>5, <2>6
  <1>4. \/ same /\ ~receipt[d].pend /\ CopyDone(p) /\ UNCHANGED <<receipt, cache, faults>>
        \/ \E b \in bytes :
              /\ GoTo(p, [job[p] EXCEPT !.at = "upload", !.cand = b])
              /\ receipt' = [receipt EXCEPT ![d] = [b |-> b, pend |-> TRUE]]
              /\ Fault \/ UNCHANGED faults
              /\ UNCHANGED <<cache, sess, acked>>
    BY DEF PublishReceipt
  <1> HIDE DEF same, bytes
  <1> QED BY <1>1, <1>2, <1>3, <1>4

LEMMA PublishReceiptShape ==
    ASSUME Shape, NEW p \in Proc, PublishReceipt(p)
    PROVE  Local(p) /\ Rest' /\ ShapeAt(p)'
  <1>1. /\ TypeOK /\ JobShape(p) /\ SessShape(p) /\ CacheShape(D(p)) /\ D(p)' = D(p)
        /\ job[p].at = "copy"
    BY SiteFacts DEF Shape, D, PublishReceipt, remote
  <1>2. /\ UNCHANGED <<site, head, late, gone, copied, made, cache>> /\ ReceiptMoves(p)
        /\ (Fault \/ UNCHANGED faults)
    BY <1>1, PublishFacts DEF remote
  <1>3. (acked \subseteq Edit)' => Rest'
    <2>1. faults' \in 0 .. MaxFaults
      BY <1>1, <1>2, FaultFacts
    <2> QED BY <1>1, <1>2, <2>1 DEF Rest, TypeOK
  <1>4. CASE CopyDone(p)
    BY <1>1, <1>2, <1>3, <1>4, CopyDoneShape
  <1>5. CASE /\ UNCHANGED <<sess, acked>>
             /\ job' \in [Proc -> Job]
             /\ \A q \in Proc \ {p} : job'[q] = job[q]
             /\ job'[p].at = "upload" /\ job'[p].for = job[p].for
             /\ job'[p].local = job[p].local /\ job'[p].cand.v = job[p].local
             /\ job'[p].cand \in Bytes /\ job'[p].rem = job[p].rem
    <2>1. Local(p) /\ SessShape(p)' /\ CacheShape(D(p))'
      BY <1>1, <1>2, <1>5 DEF Local, TypeOK, SessShape, CacheShape, ReceiptMoves
    <2>2. JobShape(p)'
      BY <1>1, <1>2, <1>5 DEF JobShape
    <2> QED BY <1>1, <1>3, <1>5, <2>1, <2>2 DEF ShapeAt, TypeOK
  <1> QED BY <1>1, <1>4, <1>5, PublishFacts

LEMMA UploadFacts ==
    ASSUME TypeOK, NEW p \in Proc, JobShape(p), UploadCopy(p)
    PROVE  /\ UNCHANGED <<remote, made>> /\ ReceiptMoves(p)
           /\ job[p].at = "upload" /\ (Fault \/ UNCHANGED faults)
           /\ \/ /\ CopyDone(p) /\ copied' = copied \cup job[p].cand.v
                 /\ receipt'[D(p)] # NoEntry /\ ~receipt'[D(p)].pend
                 /\ receipt'[D(p)].b = job[p].cand /\ UNCHANGED cache
              \/ /\ CopyFailed(p) /\ receipt' = receipt
                 /\ copied' \in {copied, copied \cup job[p].cand.v}
  <1> DEFINE reserved == receipt[D(p)] = [b |-> job[p].cand, pend |-> TRUE]
  <1>1. /\ job[p].at = "upload" /\ UNCHANGED <<remote, made>> /\ D(p) \in Device
        /\ job[p].cand \in Bytes
    BY SiteFacts DEF UploadCopy, JobShape
  <1>2. CASE /\ reserved /\ CopyDone(p) /\ copied' = copied \cup job[p].cand.v
             /\ receipt' = [receipt EXCEPT ![D(p)].pend = FALSE]
             /\ UNCHANGED <<cache, faults>>
    <2> DEFINE r == [receipt[D(p)] EXCEPT !.pend = FALSE]
    <2>1. receipt[D(p)].b = job[p].cand /\ receipt[D(p)] \in Receipt
      BY <1>1, <1>2 DEF Receipt
    <2>2. r \in Receipt /\ ~r.pend /\ r.b = job[p].cand /\ r # NoEntry
      <3>1. r \in Receipt /\ ~r.pend /\ r.b = job[p].cand
        BY <2>1 DEF Receipt
      <3> QED BY <3>1, NoneAssumption
    <2>3. receipt' = [receipt EXCEPT ![D(p)] = r]
      BY <1>1, <1>2 DEF TypeOK
    <2> HIDE DEF r
    <2>4. ReceiptMoves(p) /\ receipt'[D(p)] = r
      BY <1>1, <2>2, <2>3 DEF ReceiptMoves, TypeOK
    <2> QED BY <1>1, <1>2, <2>2, <2>4
  <1>3. CASE /\ CopyFailed(p) /\ receipt' = receipt /\ (Fault \/ UNCHANGED faults)
             /\ copied' \in {copied, copied \cup job[p].cand.v}
    BY <1>1, <1>3 DEF ReceiptMoves, TypeOK
  <1> QED BY <1>2, <1>3 DEF UploadCopy, IsReserved

LEMMA UploadCopyShape ==
    ASSUME Shape, NEW p \in Proc, UploadCopy(p)
    PROVE  Local(p) /\ Rest' /\ ShapeAt(p)'
  <1>1. /\ TypeOK /\ JobShape(p) /\ job[p].at = "upload" /\ job[p].cand \in Bytes
        /\ job[p].cand.v \in SUBSET Edit
    BY RangeFacts DEF Shape, UploadCopy, JobShape
  <1>2. /\ UNCHANGED <<site, head, late, gone, made>> /\ ReceiptMoves(p)
        /\ (Fault \/ UNCHANGED faults)
        /\ copied' \in {copied, copied \cup job[p].cand.v}
    BY <1>1, UploadFacts DEF remote
  <1>3. (acked \subseteq Edit)' => Rest'
    <2>1. faults' \in 0 .. MaxFaults
      BY <1>1, <1>2, FaultFacts
    <2> QED BY <1>1, <1>2, <2>1 DEF Rest, TypeOK
  <1>4. CASE CopyDone(p) /\ UNCHANGED cache
    BY <1>1, <1>2, <1>3, <1>4, CopyDoneShape
  <1>5. CASE CopyFailed(p) /\ receipt' = receipt
    BY <1>1, <1>2, <1>3, <1>5, CopyFailedShape
  <1> QED BY <1>1, <1>4, <1>5, UploadFacts

LEMMA FallbackShape ==
    ASSUME Shape, NEW p \in Proc, Fallback(p)
    PROVE  Local(p) /\ Rest' /\ ShapeAt(p)'
  <1>1. /\ TypeOK /\ JobShape(p) /\ SessShape(p) /\ sess[p] \in Session
        /\ job[p].at = "fallback" /\ UNCHANGED <<site, receipt>> /\ Finish(p)
    BY RangeFacts DEF Shape, Fallback, remote
  <1>2. Rest'
    <2>1. faults' \in 0 .. MaxFaults
      <3>1. Fault \/ UNCHANGED faults
        BY DEF Fallback
      <3> QED BY <1>1, <3>1, FaultFacts
    <2> QED BY <1>1, <2>1 DEF Fallback, Rest, TypeOK, remote
  <1>3. CASE UNCHANGED <<cache, sess>>
    BY <1>1, <1>2, <1>3, FinishShape
  <1>4. CASE /\ head # NoBytes
             /\ cache' = [cache EXCEPT ![D(p)] = Slot(head, "Clean", NoBytes, head)]
             /\ sess' = IF head.w = "opaque"
                          THEN [sess EXCEPT ![p].pend = FALSE]
                          ELSE [sess EXCEPT ![p] = OpenAt(head, head)]
    <2> DEFINE s == IF head.w = "opaque" THEN [sess[p] EXCEPT !.pend = FALSE]
                                         ELSE OpenAt(head, head)
    <2>1. head \in Bytes /\ head \in MaybeBytes
      BY <1>1, <1>4 DEF TypeOK, MaybeBytes
    <2>2. sess' = [sess EXCEPT ![p] = s]
      BY <1>1, <1>4 DEF TypeOK
    <2>3. /\ s \in Session
          /\ s.st # "closed" => s.b \in Bytes
          /\ s.hasBase => s.st # "closed"
          /\ s.tag # NoBytes => s.hasBase
      <3>1. CASE head.w = "opaque"
        BY <1>1, <3>1 DEF Session, SessShape
      <3>2. CASE head.w # "opaque"
        BY <2>1, <3>2, OpenAtFacts
      <3> QED BY <3>1, <3>2
    <2> HIDE DEF s
    <2> QED BY <1>1, <1>2, <1>4, <2>1, <2>2, <2>3, MoveShape
  <1> QED BY <1>3, <1>4 DEF Fallback

LEMMA HungFacts ==
    /\ Hung \in Job /\ Hung.at = "hung" /\ Hung.for = "none"
    /\ Hung.seen = NoBytes /\ Hung.cand = NoBytes
  BY NoJobFacts DEF Hung, NoJob, Job

LEMMA StallShape ==
    ASSUME Shape, NEW p \in Proc, Stall(p)
    PROVE  Local(p) /\ Rest' /\ ShapeAt(p)'
  <1>1. /\ TypeOK /\ JobShape(p) /\ job[p] \in Job
        /\ UNCHANGED <<site, cache, receipt, sess>>
    BY RangeFacts DEF Shape, Stall
  <1>2. head' \in MaybeBytes /\ late' \in Request \cup {NoEntry}
    <2>1. CASE job[p].at = "push"
      <3>1. job[p].cand \in Bytes /\ job[p].seen \in Bytes /\ Unanswered(p)
        BY <1>1, <2>1 DEF Stall, JobShape
      <3> QED BY <1>1, <3>1 DEF Unanswered, TypeOK, MaybeBytes, Request
    <2>2. CASE job[p].at # "push"
      BY <1>1, <2>2 DEF Stall, TypeOK
    <2> QED BY <2>1, <2>2
  <1>3. copied' \subseteq Edit
    <2>1. job[p].at = "upload" => job[p].cand.v \subseteq Edit
      BY <1>1, RangeFacts DEF JobShape
    <2> QED BY <1>1, <2>1 DEF Stall, TypeOK
  <1>4. Rest'
    BY <1>1, <1>2, <1>3, FaultFacts DEF Stall, Rest, TypeOK
  <1>5. Local(p) /\ SessShape(p)' /\ CacheShape(D(p))' /\ job'[p] = Hung
    BY <1>1, HungFacts, GoToShape DEF Stall
  <1>6. JobShape(p)'
    BY <1>5, HungFacts DEF JobShape
  <1> QED BY <1>4, <1>5, <1>6 DEF ShapeAt

-----------------------------------------------------------------------------
(* The type invariant. *)

LEMMA StepIsLocal ==
    ASSUME Shape, NEW p \in Proc, Step(p)
    PROVE  Local(p) /\ Rest' /\ ShapeAt(p)'
  <1>1. CASE \E e \in site.edits : Edits(p, e)
    BY <1>1, EditsShape
  <1>2. CASE Unlock(p)
    BY <1>2, UnlockShape
  <1>3. CASE Lock(p)
    BY <1>3, LockShape
  <1>4. CASE Crash(p)
    BY <1>4, CrashShape
  <1>5. CASE BeginLoad(p)
    BY <1>5, BeginLoadShape
  <1>6. CASE BeginSave(p)
    BY <1>6, BeginSaveShape
  <1>7. CASE BeginRetry(p)
    BY <1>7, BeginRetryShape
  <1>8. CASE Proceed(p)
    BY <1>8, StateKnownShape, StateFailsShape, ReadHeadShape, ReadFailsShape,
       PushShape, PushUnknownShape, ReadbackShape, CommitShape, PushPendingShape,
       InstallShape, PublishReceiptShape, UploadCopyShape, FallbackShape
       DEF Proceed
  <1>9. CASE Stall(p)
    BY <1>9, StallShape
  <1> QED BY <1>1, <1>2, <1>3, <1>4, <1>5, <1>6, <1>7, <1>8, <1>9 DEF Step

\* A request that arrives late, and another program, touch only the source.
LEMMA SourceShape ==
    ASSUME Shape, LateArrives \/ ForeignWrite
    PROVE  Shape'
  <1>1. TypeOK /\ UNCHANGED <<site, copied, cache, receipt, sess, job, made, acked>>
    BY DEF Shape, LateArrives, ForeignWrite
  <1>2. /\ head' \in MaybeBytes /\ late' \in Request \cup {NoEntry}
        /\ gone' \subseteq Edit /\ faults' \in 0 .. MaxFaults
    <2>1. CASE LateArrives
      BY <1>1, <2>1 DEF LateArrives, TypeOK, Request, MaybeBytes
    <2>2. CASE ForeignWrite
      <3>1. head \in Bytes /\ head.v \in SUBSET Edit
        BY <1>1, <2>2 DEF ForeignWrite, MaybeBytes, TypeOK, Bytes
      <3>2. faults' \in 0 .. MaxFaults /\ late' = late
        BY <1>1, <2>2, FaultFacts DEF ForeignWrite
      <3>3. CASE head' = NoBytes /\ gone' = gone \cup head.v
        BY <1>1, <3>1, <3>2, <3>3 DEF TypeOK, MaybeBytes
      <3>4. ASSUME NEW w \in {"foreign", "opaque"}, NEW lost \in SUBSET head.v,
                   head' \in Fresh(head.v \ lost, w), gone' = gone \cup lost
            PROVE  head' \in Bytes /\ gone' \subseteq Edit
        <4> DEFINE v == head.v \ lost
        <4>1. v \in SUBSET Edit /\ w \in {"kern", "foreign", "opaque"}
          BY <3>1
        <4>2. PICK b \in Fresh(v, w) : head' = b
          BY <3>4
        <4> HIDE DEF v
        <4>3. b \in Bytes
          BY <1>1, <4>1, FreshFacts
        <4>4. head' \in Bytes
          BY <4>2, <4>3
        <4> QED BY <1>1, <3>1, <3>4, <4>4 DEF TypeOK
      <3> QED BY <1>1, <2>2, <3>2, <3>3, <3>4 DEF ForeignWrite, TypeOK, MaybeBytes
    <2> QED BY <2>1, <2>2
  <1>3. TypeOK'
    BY <1>1, <1>2 DEF TypeOK
  <1>4. \A p \in Proc : JobShape(p)' /\ SessShape(p)'
    BY <1>1 DEF Shape, JobShape, SessShape, D
  <1>5. \A d \in Device : CacheShape(d)'
    BY <1>1 DEF Shape, CacheShape
  <1> QED BY <1>3, <1>4, <1>5 DEF Shape

LEMMA InitShape == Init => Shape
  <1> SUFFICES ASSUME Init PROVE Shape
    OBVIOUS
  <1>1. TypeOK
    <2>1. head \in MaybeBytes
      <3>1. PICK w \in Origin : head = [v |-> {}, w |-> w, s |-> 1]
        BY DEF Init
      <3>2. w \in {"kern", "foreign"}
        BY SyncAssumption
      <3>3. 1 \in Serial
        BY SyncAssumption DEF Serial
      <3> QED BY <3>1, <3>2, <3>3 DEF MaybeBytes, Bytes
    <2>2. job \in [Proc -> Job] /\ sess \in [Proc -> Session]
      BY NoJobFacts, ClosedFacts DEF Init
    <2> QED BY <2>1, <2>2, SyncAssumption DEF Init, TypeOK
  <1>2. ASSUME NEW p \in Proc PROVE JobShape(p) /\ SessShape(p)
    BY DEF Init, JobShape, SessShape, NoJob, Closed
  <1>3. ASSUME NEW d \in Device PROVE CacheShape(d)
    BY DEF Init, CacheShape
  <1> QED BY <1>1, <1>2, <1>3 DEF Shape

LEMMA NextShape == Shape /\ [Next]_vars => Shape'
  <1> SUFFICES ASSUME Shape, [Next]_vars PROVE Shape'
    OBVIOUS
  <1>1. ASSUME NEW p \in Proc, Step(p) PROVE Shape'
    BY <1>1, StepIsLocal, ShapeFrame
  <1>2. CASE LateArrives \/ ForeignWrite
    BY <1>2, SourceShape
  <1>3. CASE UNCHANGED vars
    <2>1. UNCHANGED <<site, head, late, gone, copied, cache, receipt, sess, job,
                   made, acked, faults>>
      BY <1>3 DEF vars, remote
    <2> QED BY <2>1 DEF Shape, TypeOK, JobShape, SessShape, CacheShape, D
  <1> QED BY <1>1, <1>2, <1>3 DEF Next

\* The type invariant of the saves and refreshes of OneDrive vaults, for any
\* deployment of runtimes on devices: in particular no call makes more than
\* MAX_SOURCE_ATTEMPTS attempts.
THEOREM ShapeHolds == Spec => []Shape
  BY InitShape, NextShape, PTL DEF Spec

-----------------------------------------------------------------------------
(***************************************************************************)
(* No edit is lost, for deployments with one runtime on a device.          *)
(*                                                                         *)
(* What is kept, the edits of the head and the settled ones, only grows:   *)
(* a write of this program replaces the head under its ETag, the ETag is   *)
(* the one the patch was made under, and no ETag comes back, so nothing    *)
(* happened between; and the patch takes out only edits of the base that   *)
(* the session undid, all of them settled.                                 *)
(***************************************************************************)

\* Every device has one runtime.
Apart == \A p, q \in Proc : D(p) = D(q) => p = q

\* What is never lost again, and bytes that hold nothing else.
Kept == Edited(head) \cup Settled

Known(b) == Edited(b) \subseteq Kept

\* The pending generation of the device is the session's own, of this kind.
Owned(p, kind) == OwnsPending(p) /\ cache[D(p)].kind = kind

\* Bytes that may yet become the head.
Coming ==
    {job[q].cand : q \in {x \in Proc : job[x].at = "push"}}
      \cup (IF late = NoEntry THEN {} ELSE {late.cand})

\* No ETag that anyone remembers is one that is still to come.
MarkInv(p) ==
    /\ job[p].seen \notin Coming /\ sess[p].tag \notin Coming
    /\ job[p].at = "commit" => job[p].cand \notin Coming

\* Every request under way carries bytes of its own, not seen before.
OnceInv ==
    /\ head \notin Coming
    /\ late # NoEntry => late.seen \notin Coming
    /\ \A p \in Proc : MarkInv(p)
    /\ \A d \in Device : cache[d] # NoEntry => cache[d].tag \notin Coming
    /\ \A p, q \in Proc :
          job[p].at = "push" /\ job[q].at = "push" /\ job[p].cand = job[q].cand => p = q
    /\ \A p \in Proc : job[p].at = "push" /\ late # NoEntry => job[p].cand # late.cand

\* Bytes kept under the ETag of the head are the head.
Current(tag, b) == tag # NoBytes /\ tag = head => b = head

TagInv(p) ==
    /\ Current(sess[p].tag, sess[p].b)
    /\ job[p].at = "state" /\ job[p].for = "load" => Current(job[p].seen, job[p].base)
    /\ job[p].at = "install" => Current(job[p].seen, job[p].rem)
    /\ job[p].at \in {"copy", "upload"} /\ job[p].for = "refresh" =>
          Current(job[p].seen, job[p].rem)

\* A write that can still succeed keeps the head.
LateInv ==
    late # NoEntry /\ head = late.seen => Edited(head) \subseteq late.cand.v \cup Settled

PushInv(p) ==
    job[p].at \in {"push", "readback"} =>
        /\ job[p].base.v \subseteq (job[p].rem.v \cap job[p].local) \cup Settled
        /\ job[p].rem.v \subseteq job[p].cand.v \cup Settled
        /\ job[p].local \subseteq job[p].cand.v \cup Settled
        /\ Known(job[p].rem)
        /\ job[p].at = "push" /\ head = job[p].seen =>
              Edited(head) \subseteq job[p].cand.v \cup Settled

\* A call works on what its session has.
WorkInv(p) ==
    /\ job[p].for \in {"save", "retry"} /\ job[p].at \in {"state", "read", "push", "readback"} =>
          /\ job[p].local = sess[p].v /\ job[p].base = BaseOf(p)
          /\ ~Owned(p, "ConflictCopy")
    /\ job[p].for \in {"refresh", "load"} => ~IsPending(D(p))
    /\ job[p].for = "refresh" /\ job[p].at \in {"state", "read"} =>
          job[p].local = sess[p].v /\ job[p].base = BaseOf(p)
    /\ job[p].for = "load" => Known(job[p].base)
    /\ job[p].at = "commit" => Known(job[p].cand)
    /\ job[p].at = "install" =>
          /\ Known(job[p].rem)
          /\ sess[p].st = "open" => job[p].rem.v \subseteq job[p].local \cup Settled

\* A conflict copy holds what it is to replace.
CopyInv(p) ==
    /\ job[p].at \in {"copy", "upload"} =>
        /\ job[p].for = "save" =>
              /\ sess[p].hasBase => sess[p].b.v \subseteq job[p].local \cup Settled
              /\ OwnsPending(p) =>
                    /\ cache[D(p)].kind = "Generic"
                    /\ cache[D(p)].b.v \subseteq job[p].local \cup Kept
                    /\ cache[D(p)].obs.v \subseteq job[p].local \cup Settled
        /\ job[p].for = "retry" /\ OwnsPending(p) =>
                cache[D(p)].b.v \subseteq job[p].local \cup Kept
        /\ job[p].for = "refresh" => Known(job[p].rem)
    /\ job[p].at = "fallback" /\ OwnsPending(p) => cache[D(p)].b.v \subseteq Kept

\* A session has every edit of its base and of its pending generation that
\* is not settled.
SessInv(p) ==
    /\ sess[p].hasBase => Known(sess[p].b) \/ Owned(p, "ConflictCopy")
    /\ sess[p].st = "open" =>
          /\ sess[p].hasBase => sess[p].b.v \subseteq sess[p].v \cup Settled
          /\ OwnsPending(p) => cache[D(p)].b.v \subseteq sess[p].v \cup Kept
          /\ Owned(p, "Generic") => cache[D(p)].obs.v \subseteq sess[p].v \cup Settled

\* A clean copy holds what is kept; a pending save extends what it was made from.
CacheInv(d) ==
    cache[d] # NoEntry =>
        /\ Current(cache[d].tag, cache[d].b)
        /\ cache[d].kind = "Clean" => Known(cache[d].b)
        /\ cache[d].kind = "Generic" =>
              Known(cache[d].obs) /\ cache[d].obs.v \subseteq cache[d].b.v \cup Settled

\* A receipt that is not pending is of a copy that exists.
ReceiptInv(d) == receipt[d] # NoEntry /\ ~receipt[d].pend => receipt[d].b.v \subseteq copied

ProcInv(p) == TagInv(p) /\ PushInv(p) /\ WorkInv(p) /\ CopyInv(p) /\ SessInv(p)

DevInv(d) == CacheInv(d) /\ ReceiptInv(d)

\* The inductive invariant.
IInv ==
    /\ Shape /\ Apart /\ OnceInv /\ LateInv
    /\ \A p \in Proc : ProcInv(p)
    /\ \A d \in Device : DevInv(d)
    /\ AckedEditsSurvive

-----------------------------------------------------------------------------
(* What a step of another runtime, or of the source, leaves intact. *)

\* Nothing is lost from what is kept, and a new head is bytes whose ETag
\* nobody remembers.
Grows ==
    /\ copied \subseteq copied' /\ gone \subseteq gone'
    /\ Kept \subseteq Kept'

Turns ==
    \/ head' = head
    \/ head' = NoBytes
    \/ /\ \A q \in Proc : head' # job[q].seen /\ head' # sess[q].tag
       /\ \A d \in Device : cache[d] # NoEntry => head' # cache[d].tag

LEMMA SettledGrows ==
    ASSUME Grows
    PROVE  /\ Settled \subseteq Settled' /\ Kept \subseteq Kept'
           /\ \A b : Known(b) => Edited(b) \subseteq Kept'
  BY DEF Grows, Settled, Known

LEMMA ProcFrame ==
    ASSUME Shape, NEW q \in Proc, ProcInv(q), Grows, Turns,
           job'[q] = job[q], sess'[q] = sess[q], cache'[D(q)] = cache[D(q)],
           site' = site
    PROVE  ProcInv(q)'
  <1>1. /\ Settled \subseteq Settled' /\ Kept \subseteq Kept'
        /\ D(q)' = D(q) /\ D(q) \in Device
    BY SettledGrows, SiteFacts DEF Shape, D
  <1>2. /\ IsPending(D(q))' <=> IsPending(D(q))
        /\ OwnsPending(q)' <=> OwnsPending(q)
    BY <1>1 DEF IsPending, OwnsPending
  <1>3. BaseOf(q)' = BaseOf(q)
    BY <1>1, <1>2 DEF BaseOf
  <1>4. TagInv(q)'
    <2>1. CASE head' = head
      BY <2>1 DEF ProcInv, TagInv, Current
    <2>2. CASE head' # head
      BY <2>2 DEF ProcInv, TagInv, Current, Turns
    <2> QED BY <2>1, <2>2
  <1>5. PushInv(q)'
    <2> SUFFICES ASSUME job[q].at \in {"push", "readback"} PROVE PushInv(q)'
      BY DEF PushInv
    <2>1. PushInv(q) /\ job[q].seen \in Bytes
      BY DEF ProcInv, Shape, JobShape
    <2>2. CASE head' = head
      BY <1>1, <2>1, <2>2 DEF PushInv, Known
    <2>3. CASE head' # head
      <3>1. head' # job[q].seen
        BY <2>1, <2>3, NoneAssumption DEF Turns
      <3> QED BY <1>1, <2>1, <3>1 DEF PushInv, Known
    <2> QED BY <2>2, <2>3
  <1>6. WorkInv(q)'
    BY <1>1, <1>2, <1>3 DEF ProcInv, WorkInv, Known, Owned
  <1>7. CopyInv(q)'
    BY <1>1, <1>2 DEF ProcInv, CopyInv, Known
  <1>8. SessInv(q)'
    BY <1>1, <1>2 DEF ProcInv, SessInv, Known, Owned
  <1> QED BY <1>4, <1>5, <1>6, <1>7, <1>8 DEF ProcInv

LEMMA DevFrame ==
    ASSUME NEW d \in Device, DevInv(d), Grows, Turns,
           cache'[d] = cache[d], receipt'[d] = receipt[d]
    PROVE  DevInv(d)'
  <1>1. Settled \subseteq Settled' /\ Kept \subseteq Kept' /\ copied \subseteq copied'
    BY SettledGrows DEF Grows
  <1>2. ReceiptInv(d)'
    BY <1>1 DEF DevInv, ReceiptInv
  <1>3. CacheInv(d)'
    <2>1. CASE head' = head
      BY <1>1, <2>1 DEF DevInv, CacheInv, Known, Current
    <2>2. CASE head' # head
      BY <1>1, <2>2 DEF DevInv, CacheInv, Known, Current, Turns
    <2> QED BY <2>1, <2>2
  <1> QED BY <1>2, <1>3 DEF DevInv

\* The edits of the pending generation of a device.
Pending(d) == IF IsPending(d) THEN cache[d].b.v ELSE {}

LEMMA AckedMeaning ==
    AckedEditsSurvive <=>
        \A e \in acked : e \in Kept \/ \E d \in Device : e \in Pending(d)
  BY DEF AckedEditsSurvive, Durable, Kept, Settled, Pending, IsPending

LEMMA AckedMeaningNext ==
    AckedEditsSurvive' <=>
        \A e \in acked' : e \in Kept' \/ \E d \in Device : e \in Pending(d)'
  BY DEF AckedEditsSurvive, Durable, Kept, Settled, Pending, IsPending

\* An acknowledged edit stays where it is, or goes from the pending
\* generation of a device to the next one or to the source.
LEMMA AckedFrame ==
    ASSUME Shape, AckedEditsSurvive, NEW p \in Proc, Local(p), Grows,
           acked' \subseteq acked \cup Kept' \cup Pending(D(p))',
           Pending(D(p)) \subseteq Kept' \cup Pending(D(p))'
    PROVE  AckedEditsSurvive'
  <1>1. Kept \subseteq Kept' /\ D(p) \in Device /\ D(p)' = D(p)
    BY SettledGrows, SiteFacts DEF Shape, Local, D
  <1>2. SUFFICES ASSUME NEW e \in acked'
                 PROVE  e \in Kept' \/ \E d \in Device : e \in Pending(d)'
    BY AckedMeaningNext
  <1>3. e \in acked \/ e \in Kept' \/ e \in Pending(D(p))'
    BY <1>2
  <1>4. CASE e \in acked
    <2>1. e \in Kept \/ \E d \in Device : e \in Pending(d)
      BY <1>4, AckedMeaning
    <2>2. ASSUME NEW d \in Device, e \in Pending(d)
          PROVE  e \in Kept' \/ \E x \in Device : e \in Pending(x)'
      <3>1. CASE d = D(p)
        BY <1>1, <2>2, <3>1
      <3>2. CASE d # D(p)
        <4>1. cache'[d] = cache[d]
          BY <3>2 DEF Local
        <4>2. Pending(d)' = Pending(d)
          BY <4>1 DEF Pending, IsPending
        <4> QED BY <2>2, <4>2
      <3> QED BY <3>1, <3>2
    <2> QED BY <1>1, <2>1, <2>2
  <1> QED BY <1>1, <1>3, <1>4

\* A step of p keeps the invariant if it keeps the parts about p.
LEMMA StepFrame ==
    ASSUME IInv, NEW p \in Proc, Local(p), Shape', Grows, Turns,
           ProcInv(p)', DevInv(D(p))', OnceInv', LateInv', AckedEditsSurvive'
    PROVE  IInv'
  <1>1. \A q \in Proc : D(q)' = D(q) /\ D(q) \in Device
    BY SiteFacts DEF IInv, Shape, Local, D
  <1>2. Apart'
    BY <1>1 DEF IInv, Apart
  <1>3. ASSUME NEW q \in Proc PROVE ProcInv(q)'
    <2>1. CASE q = p
      BY <2>1
    <2>2. CASE q # p
      <3>1. D(q) # D(p)
        BY <2>2 DEF IInv, Apart
      <3>2. job'[q] = job[q] /\ sess'[q] = sess[q] /\ cache'[D(q)] = cache[D(q)]
            /\ site' = site /\ ProcInv(q) /\ Shape
        BY <1>1, <2>2, <3>1 DEF Local, IInv
      <3> QED BY <3>2, ProcFrame
    <2> QED BY <2>1, <2>2
  <1>4. ASSUME NEW d \in Device PROVE DevInv(d)'
    <2>1. CASE d = D(p)
      BY <1>1, <2>1 DEF DevInv, CacheInv, ReceiptInv
    <2>2. CASE d # D(p)
      <3>1. cache'[d] = cache[d] /\ receipt'[d] = receipt[d] /\ DevInv(d)
        BY <2>2 DEF Local, IInv
      <3> QED BY <3>1, DevFrame
    <2> QED BY <2>1, <2>2
  <1> QED BY <1>2, <1>3, <1>4 DEF IInv

\* The ETags that p remembers, and that of the head.
Marks(p) ==
    {NoBytes, head, job[p].seen, sess[p].tag}
      \cup (IF job[p].at = "commit" THEN {job[p].cand} ELSE {})
      \cup (IF cache[D(p)] # NoEntry THEN {cache[D(p)].tag} ELSE {})

LEMMA ComingFacts ==
    ASSUME Shape
    PROVE  /\ NoBytes \notin Coming
           /\ Coming \subseteq Bytes
  <1>1. \A q \in Proc : job[q].at = "push" => job[q].cand \in Bytes
    BY DEF Shape, JobShape
  <1>2. late # NoEntry => late.cand \in Bytes
    BY DEF Shape, TypeOK, Request
  <1> QED BY <1>1, <1>2, NoneAssumption DEF Coming

LEMMA MarksFacts ==
    ASSUME Shape, OnceInv, NEW p \in Proc
    PROVE  \A b \in Marks(p) : b \notin Coming
  BY ComingFacts, SiteFacts DEF Marks, OnceInv, MarkInv, Shape

\* A step that sends nothing new and learns no ETag but that of the head.
Remembers(p) ==
    /\ job'[p].seen \in Marks(p) /\ sess'[p].tag \in Marks(p)
    /\ job'[p].at = "commit" => job'[p].cand \in Marks(p)
    /\ cache'[D(p)] # NoEntry => cache'[D(p)].tag \in Marks(p)

LEMMA InUseFacts ==
    ASSUME TypeOK
    PROVE  /\ head \in InUse
           /\ late # NoEntry => late.cand \in InUse /\ late.seen \in InUse
           /\ \A q \in Proc : /\ job[q].seen \in InUse /\ job[q].cand \in InUse
                              /\ sess[q].tag \in InUse
           /\ \A d \in Device : cache[d] # NoEntry => cache[d].tag \in InUse
  <1>1. head \in InUse
    BY DEF InUse
  <1>2. late # NoEntry => late.cand \in InUse /\ late.seen \in InUse
    BY DEF InUse
  <1>3. ASSUME NEW q \in Proc
        PROVE job[q].seen \in InUse /\ job[q].cand \in InUse /\ sess[q].tag \in InUse
    <2>1. HeldBy(q) \subseteq InUse
      BY DEF InUse
    <2> QED BY <2>1 DEF HeldBy
  <1>4. ASSUME NEW d \in Device, cache[d] # NoEntry PROVE cache[d].tag \in InUse
    <2>1. InSlot(d) \subseteq InUse
      BY DEF InUse
    <2> QED BY <1>4, <2>1 DEF InSlot
  <1> QED BY <1>1, <1>2, <1>3, <1>4

\* What is still to come grows by fresh bytes only.
LEMMA MarksFrame ==
    ASSUME Shape, OnceInv, NEW p \in Proc, Local(p), NEW S,
           Coming' \subseteq Coming \cup S, S \cap InUse = {},
           MarkInv(p)', (cache[D(p)] # NoEntry => cache[D(p)].tag \notin Coming)'
    PROVE  /\ (\A q \in Proc : MarkInv(q))'
           /\ (\A d \in Device : cache[d] # NoEntry => cache[d].tag \notin Coming)'
  <1>1. D(p)' = D(p) /\ TypeOK
    BY DEF Local, D, Shape
  <1>2. ASSUME NEW q \in Proc PROVE MarkInv(q)'
    <2>1. CASE q = p
      BY <2>1
    <2>2. CASE q # p
      <3>1. job'[q] = job[q] /\ sess'[q] = sess[q] /\ MarkInv(q)
        BY <2>2 DEF Local, OnceInv
      <3> QED BY <1>1, <3>1, InUseFacts DEF MarkInv
    <2> QED BY <2>1, <2>2
  <1>3. ASSUME NEW d \in Device
        PROVE  cache'[d] # NoEntry => cache'[d].tag \notin Coming'
    <2>1. CASE d = D(p)
      BY <1>1, <2>1
    <2>2. CASE d # D(p)
      <3>1. cache'[d] = cache[d] /\ (cache[d] # NoEntry => cache[d].tag \notin Coming)
        BY <2>2 DEF Local, OnceInv
      <3> QED BY <1>1, <3>1, InUseFacts
    <2> QED BY <2>1, <2>2
  <1> QED BY <1>2, <1>3

LEMMA OnceQuiet ==
    ASSUME Shape, OnceInv, NEW p \in Proc, Local(p), UNCHANGED <<head, late>>,
           job'[p].at # "push", Remembers(p)
    PROVE  OnceInv'
  <1>1. /\ D(p)' = D(p)
        /\ \A q \in Proc : job'[q].at = "push" => q # p /\ job'[q] = job[q]
    BY DEF Local, D
  <1>2. Coming' \subseteq Coming
    BY <1>1 DEF Coming
  <1>3. MarkInv(p)' /\ (cache[D(p)] # NoEntry => cache[D(p)].tag \notin Coming)'
    BY <1>1, <1>2, MarksFacts DEF Remembers, MarkInv
  <1>4. /\ (\A q \in Proc : MarkInv(q))'
        /\ (\A d \in Device : cache[d] # NoEntry => cache[d].tag \notin Coming)'
    <2> DEFINE S == {}
    <2>1. Coming' \subseteq Coming \cup S /\ S \cap InUse = {}
      BY <1>2
    <2> HIDE DEF S
    <2> QED BY <1>3, <2>1, MarksFrame
  <1>5. /\ head' \notin Coming' /\ (late' # NoEntry => late'.seen \notin Coming')
    BY <1>2 DEF OnceInv
  <1>6. /\ \A q, r \in Proc : job'[q].at = "push" /\ job'[r].at = "push"
              /\ job'[q].cand = job'[r].cand => q = r
        /\ \A q \in Proc : job'[q].at = "push" /\ late' # NoEntry => job'[q].cand # late'.cand
    BY <1>1 DEF OnceInv
  <1> QED BY <1>4, <1>5, <1>6 DEF OnceInv

-----------------------------------------------------------------------------
(* Steps that do not touch the head. *)

\* Where acknowledged edits go.
Accounts(p) ==
    /\ acked' \subseteq acked \cup Kept' \cup Pending(D(p))'
    /\ Pending(D(p)) \subseteq Kept' \cup Pending(D(p))'

LEMMA QuietFacts ==
    ASSUME UNCHANGED <<head, late, gone>>, copied \subseteq copied'
    PROVE  Grows /\ Turns /\ Settled \subseteq Settled' /\ Kept \subseteq Kept'
           /\ (LateInv => LateInv')
  BY DEF Grows, Turns, Kept, Settled, Edited, LateInv

LEMMA QuietStep ==
    ASSUME IInv, NEW p \in Proc, Local(p), Shape',
           UNCHANGED <<head, late, gone>>, copied \subseteq copied',
           job'[p].at # "push", Remembers(p),
           ProcInv(p)', DevInv(D(p))', Accounts(p)
    PROVE  IInv'
  <1>1. Grows /\ Turns /\ LateInv'
    BY QuietFacts DEF IInv
  <1>2. OnceInv'
    BY OnceQuiet DEF IInv
  <1>3. AckedEditsSurvive'
    BY <1>1, AckedFrame DEF IInv, Accounts
  <1> QED BY <1>1, <1>2, <1>3, StepFrame

\* A call that has ended leaves only its session to look at.
LEMMA EndedFacts ==
    ASSUME NEW p \in Proc, job'[p] = NoJob, SessInv(p)',
           Current(sess[p].tag, sess[p].b)'
    PROVE  ProcInv(p)'
  BY DEF ProcInv, TagInv, PushInv, WorkInv, CopyInv, NoJob

\* The parts of the invariant about p and its device.
LEMMA IInvFacts ==
    ASSUME IInv, NEW p \in Proc
    PROVE  /\ Shape /\ TypeOK /\ OnceInv /\ JobShape(p) /\ SessShape(p) /\ CacheShape(D(p))
           /\ TagInv(p) /\ PushInv(p) /\ WorkInv(p) /\ CopyInv(p) /\ SessInv(p)
           /\ CacheInv(D(p)) /\ ReceiptInv(D(p)) /\ D(p) \in Device
  BY SiteFacts DEF IInv, Shape, ProcInv, DevInv

\* A step that leaves the device and the source as they are.
LEMMA SameDevice ==
    ASSUME IInv, NEW p \in Proc, UNCHANGED <<site, head, late, gone, cache, receipt, acked>>,
           copied \subseteq copied'
    PROVE  DevInv(D(p))' /\ Accounts(p)
  <1>1. /\ D(p)' = D(p) /\ D(p) \in Device /\ DevInv(D(p)) /\ Grows /\ Turns
        /\ Kept \subseteq Kept'
    BY QuietFacts, IInvFacts DEF D, DevInv
  <1>2. DevInv(D(p))'
    <2>1. ASSUME NEW d \in Device, d = D(p) PROVE DevInv(d)'
      BY <1>1, <2>1, DevFrame
    <2> QED BY <1>1, <2>1 DEF DevInv, CacheInv, ReceiptInv
  <1>3. Pending(D(p))' = Pending(D(p))
    BY <1>1 DEF Pending, IsPending
  <1> QED BY <1>2, <1>3 DEF Accounts

LEMMA SessionStep ==
    ASSUME IInv, NEW p \in Proc, Local(p), Shape', job'[p] = NoJob,
           sess'[p].tag \in {NoBytes, sess[p].tag},
           UNCHANGED <<site, head, late, gone, copied, cache, receipt, acked>>,
           SessInv(p)', Current(sess[p].tag, sess[p].b)'
    PROVE  IInv'
  <1>1. ProcInv(p)'
    BY EndedFacts
  <1>2. DevInv(D(p))' /\ Accounts(p)
    BY SameDevice
  <1>3. Remembers(p) /\ job'[p].at # "push"
    BY DEF Remembers, Marks, NoJob
  <1> QED BY <1>1, <1>2, <1>3, QuietStep

LEMMA EditsKeeps ==
    ASSUME IInv, NEW p \in Proc, NEW e \in site.edits, Edits(p, e), Local(p), Shape'
    PROVE  IInv'
  <1>1. /\ UNCHANGED <<site, head, late, gone, copied, cache, receipt, acked, job>>
        /\ job[p] = NoJob /\ sess[p].st = "open" /\ D(p)' = D(p)
    BY IInvFacts DEF Edits, remote, JobShape, D
  <1>2. /\ sess'[p].v = sess[p].v \cup {e} /\ sess'[p].st = sess[p].st
        /\ sess'[p].b = sess[p].b /\ sess'[p].tag = sess[p].tag
        /\ sess'[p].hasBase = sess[p].hasBase
    BY IInvFacts DEF Edits, TypeOK, Session
  <1>3. Settled' = Settled /\ Kept' = Kept /\ OwnsPending(p)' = OwnsPending(p)
    BY <1>1, <1>2 DEF Settled, Kept, Edited, OwnsPending, IsPending
  <1>4. SessInv(p)'
    BY <1>1, <1>2, <1>3, IInvFacts DEF SessInv, Known, Owned
  <1>5. Current(sess[p].tag, sess[p].b)'
    BY <1>1, <1>2, IInvFacts DEF Current, TagInv
  <1> QED BY <1>1, <1>2, <1>4, <1>5, SessionStep

LEMMA UnlockKeeps ==
    ASSUME IInv, NEW p \in Proc, Unlock(p), Local(p), Shape'
    PROVE  IInv'
  <1>1. /\ UNCHANGED <<site, head, late, gone, copied, cache, receipt, acked, job>>
        /\ job[p] = NoJob /\ D(p)' = D(p)
    BY IInvFacts DEF Unlock, remote, JobShape, D
  <1>2. /\ sess'[p].v = sess[p].b.v
        /\ sess'[p].b = sess[p].b /\ sess'[p].tag = sess[p].tag
        /\ sess'[p].hasBase = sess[p].hasBase
    BY IInvFacts DEF Unlock, TypeOK, Session
  <1>3. Settled' = Settled /\ Kept' = Kept /\ OwnsPending(p)' = OwnsPending(p)
    BY <1>1, <1>2 DEF Settled, Kept, Edited, OwnsPending, IsPending
  <1>4. SessInv(p)'
    <2>1. OwnsPending(p) => cache[D(p)].b = sess[p].b /\ cache[D(p)] # NoEntry
      BY DEF OwnsPending, IsPending
    <2> QED BY <1>1, <1>2, <1>3, <2>1, IInvFacts DEF SessInv, Known, Owned, CacheInv
  <1>5. Current(sess[p].tag, sess[p].b)'
    BY <1>1, <1>2, IInvFacts DEF Current, TagInv
  <1> QED BY <1>1, <1>2, <1>4, <1>5, SessionStep

LEMMA LockKeeps ==
    ASSUME IInv, NEW p \in Proc, Lock(p), Local(p), Shape'
    PROVE  IInv'
  <1>1. /\ UNCHANGED <<site, head, late, gone, copied, cache, receipt, acked, job>>
        /\ job[p] = NoJob /\ D(p)' = D(p)
    BY IInvFacts DEF Lock, remote, JobShape, D
  <1>2. sess[p] \in Session /\ sess \in [Proc -> Session]
    BY IInvFacts DEF TypeOK
  <1>3. Settled' = Settled /\ Kept' = Kept
    BY <1>1 DEF Settled, Kept, Edited
  <1>4. CASE sess[p].pend /\ IsPending(D(p))
    <2>1. /\ sess'[p].st = "locked" /\ sess'[p].b = cache[D(p)].b /\ sess'[p].tag = NoBytes
          /\ sess'[p].hasBase = (sess[p].hasBase /\ OwnsPending(p))
      BY <1>2, <1>4 DEF Lock, Session
    <2>2. sess'[p].hasBase => /\ OwnsPending(p) /\ sess[p].hasBase
                              /\ sess'[p].b = sess[p].b /\ OwnsPending(p)'
      BY <1>1, <1>2, <2>1 DEF OwnsPending, IsPending, Session
    <2>3. SessInv(p)' /\ Current(sess[p].tag, sess[p].b)'
      BY <1>1, <1>3, <2>1, <2>2, IInvFacts DEF SessInv, Known, Owned, Current
    <2> QED BY <1>1, <2>1, <2>3, SessionStep
  <1>5. CASE ~(sess[p].pend /\ IsPending(D(p))) /\ ~sess[p].pend /\ sess[p].hasBase
    <2>1. /\ sess'[p].st = "locked" /\ sess'[p].b = sess[p].b /\ sess'[p].tag = sess[p].tag
          /\ sess'[p].hasBase = sess[p].hasBase
      BY <1>2, <1>5 DEF Lock, Session
    <2>2. OwnsPending(p)' = OwnsPending(p)
      BY <1>1, <2>1 DEF OwnsPending, IsPending
    <2>3. SessInv(p)' /\ Current(sess[p].tag, sess[p].b)'
      BY <1>1, <1>3, <2>1, <2>2, IInvFacts DEF SessInv, Known, Owned, Current, TagInv
    <2> QED BY <1>1, <2>1, <2>3, SessionStep
  <1>6. CASE ~(sess[p].pend /\ IsPending(D(p))) /\ ~(~sess[p].pend /\ sess[p].hasBase)
    <2>1. sess'[p] = Closed
      BY <1>2, <1>6 DEF Lock
    <2>2. SessInv(p)' /\ Current(sess[p].tag, sess[p].b)' /\ sess'[p].tag = NoBytes
      BY <2>1 DEF SessInv, Current, Closed
    <2> QED BY <1>1, <2>2, SessionStep
  <1> QED BY <1>4, <1>5, <1>6

LEMMA CrashKeeps ==
    ASSUME IInv, NEW p \in Proc, Crash(p), Local(p), Shape'
    PROVE  IInv'
  <1>1. UNCHANGED <<site, head, late, gone, copied, cache, receipt, acked>>
    BY DEF Crash, remote
  <1>2. job'[p] = NoJob /\ sess'[p] = Closed
    BY IInvFacts, FinishFacts DEF Crash, TypeOK
  <1>3. SessInv(p)' /\ Current(sess[p].tag, sess[p].b)' /\ sess'[p].tag = NoBytes
    BY <1>2 DEF SessInv, Current, Closed
  <1> QED BY <1>1, <1>2, <1>3, SessionStep

\* A step that leaves the session and its cache slot as they are.
LEMMA SessStays ==
    ASSUME IInv, NEW p \in Proc, site' = site, UNCHANGED <<head, late, gone>>,
           copied \subseteq copied',
           sess'[p] = sess[p], cache'[D(p)] = cache[D(p)]
    PROVE  /\ SessInv(p)' /\ Current(sess[p].tag, sess[p].b)'
           /\ D(p)' = D(p) /\ BaseOf(p)' = BaseOf(p)
           /\ IsPending(D(p))' = IsPending(D(p))
           /\ OwnsPending(p)' = OwnsPending(p)
           /\ \A kind : Owned(p, kind)' = Owned(p, kind)
  <1>1. Settled \subseteq Settled' /\ Kept \subseteq Kept' /\ D(p)' = D(p)
    BY QuietFacts DEF D
  <1>2. IsPending(D(p))' = IsPending(D(p)) /\ OwnsPending(p)' = OwnsPending(p)
    BY <1>1 DEF IsPending, OwnsPending
  <1>3. BaseOf(p)' = BaseOf(p) /\ \A kind : Owned(p, kind)' = Owned(p, kind)
    BY <1>1, <1>2 DEF BaseOf, Owned
  <1>4. SessInv(p)'
    BY <1>1, <1>2, IInvFacts DEF SessInv, Known, Owned
  <1>5. Current(sess[p].tag, sess[p].b)'
    BY IInvFacts DEF TagInv, Current
  <1> QED BY <1>1, <1>2, <1>3, <1>4, <1>5

\* A call that goes on.
LEMMA CallStep ==
    ASSUME IInv, NEW p \in Proc, Local(p), Shape',
           UNCHANGED <<site, head, late, gone, copied, cache, receipt, acked, sess>>,
           job'[p].at \notin {"push", "commit"}, job'[p].seen \in Marks(p),
           TagInv(p)', PushInv(p)', WorkInv(p)', CopyInv(p)'
    PROVE  IInv'
  <1>1. SessInv(p)'
    BY SessStays
  <1>2. ProcInv(p)'
    BY <1>1 DEF ProcInv
  <1>3. DevInv(D(p))' /\ Accounts(p)
    BY SameDevice
  <1>4. Remembers(p) /\ job'[p].at # "push"
    BY DEF Remembers, Marks
  <1> QED BY <1>2, <1>3, <1>4, QuietStep

\* A call that ends without a trace.
LEMMA FinishStep ==
    ASSUME IInv, NEW p \in Proc, Local(p), Shape', Finish(p),
           UNCHANGED <<site, head, late, gone, copied, cache, receipt, acked, sess>>
    PROVE  IInv'
  <1>1. job'[p] = NoJob
    BY IInvFacts, FinishFacts
  <1>2. SessInv(p)' /\ Current(sess[p].tag, sess[p].b)'
    BY SessStays
  <1> QED BY <1>1, <1>2, SessionStep

LEMMA LoadStep ==
    ASSUME IInv, NEW p \in Proc, Local(p), Shape',
           LoadCached(p), Finish(p), job[p].for = "load",
           job[p].base # NoBytes => Current(job[p].seen, job[p].base),
           UNCHANGED <<site, head, late, gone, copied, cache, receipt, acked>>
    PROVE  IInv'
  <1>1. job'[p] = NoJob
    BY IInvFacts, FinishFacts
  <1>2. Settled' = Settled /\ Kept' = Kept /\ D(p)' = D(p)
    BY DEF Settled, Kept, Edited, D
  <1>3. CASE sess' = sess
    <2>1. SessInv(p)' /\ Current(sess[p].tag, sess[p].b)'
      BY <1>3, SessStays
    <2> QED BY <1>1, <1>3, <2>1, SessionStep
  <1>4. CASE /\ sess'[p].st = "locked"
             /\ job[p].base # NoBytes
             /\ sess'[p].b = job[p].base /\ sess'[p].tag = job[p].seen
    <2>1. SessInv(p)' /\ Current(sess[p].tag, sess[p].b)'
      BY <1>2, <1>4, IInvFacts DEF SessInv, Known, Current, WorkInv
    <2>2. ProcInv(p)'
      BY <1>1, <2>1, EndedFacts
    <2>3. DevInv(D(p))' /\ Accounts(p)
      BY SameDevice
    <2>4. Remembers(p) /\ job'[p].at # "push"
      BY <1>1, <1>4 DEF Remembers, Marks, NoJob
    <2> QED BY <2>2, <2>3, <2>4, QuietStep
  <1>5. CASE /\ sess'[p].st = "locked" /\ cache[D(p)] # NoEntry
             /\ sess'[p].b = cache[D(p)].b /\ sess'[p].tag = cache[D(p)].tag
    <2>1. SessInv(p)' /\ Current(sess[p].tag, sess[p].b)'
      <3>1. Known(cache[D(p)].b) /\ Current(cache[D(p)].tag, cache[D(p)].b)
        BY <1>5, IInvFacts DEF WorkInv, IsPending, CacheInv
      <3> QED BY <1>2, <1>5, <3>1 DEF SessInv, Known, Current
    <2>2. ProcInv(p)'
      BY <1>1, <2>1, EndedFacts
    <2>3. DevInv(D(p))' /\ Accounts(p)
      BY SameDevice
    <2>4. Remembers(p) /\ job'[p].at # "push"
      BY <1>1, <1>5 DEF Remembers, Marks, NoJob
    <2> QED BY <2>2, <2>3, <2>4, QuietStep
  <1> QED BY <1>3, <1>4, <1>5, IInvFacts, LoadCachedFacts

\* A vault that becomes the pending generation has the edits of the one it
\* replaces, and those of its base, but for what is kept.
LEMMA PersistStep ==
    ASSUME IInv, NEW p \in Proc, Local(p), Shape',
           NEW b \in Bytes, NEW kind \in {"Generic", "ConflictCopy"}, NEW obs \in MaybeBytes,
           PersistPending(p, b, kind, obs),
           UNCHANGED <<site, head, late, gone, receipt>>, copied \subseteq copied',
           AcceptsPending(D(p), sess[p].b, kind) =>
               /\ Pending(D(p)) \subseteq b.v \cup Kept
               /\ kind = "Generic" => Known(obs) /\ obs.v \subseteq b.v \cup Settled
    PROVE  IInv'
  <1>1. Persisted(p, b, kind, obs) /\ D(p) \in Device /\ D(p)' = D(p)
    BY PersistFacts, IInvFacts DEF D
  <1>2. /\ Settled \subseteq Settled' /\ Kept \subseteq Kept' /\ Grows /\ Turns
    BY QuietFacts
  <1>3. job'[p] = NoJob
    BY <1>1 DEF Persisted
  <1>4. CASE UNCHANGED <<cache, sess, acked>>
    <2>1. SessInv(p)' /\ Current(sess[p].tag, sess[p].b)'
      BY <1>4, SessStays
    <2>2. ProcInv(p)'
      BY <1>3, <2>1, EndedFacts
    <2>3. DevInv(D(p))' /\ Accounts(p)
      BY <1>4, SameDevice
    <2>4. Remembers(p) /\ job'[p].at # "push"
      BY <1>3, <1>4 DEF Remembers, Marks, NoJob
    <2> QED BY <2>2, <2>3, <2>4, QuietStep
  <1>5. CASE /\ AcceptsPending(D(p), sess[p].b, kind)
             /\ cache'[D(p)].b = b /\ cache'[D(p)].kind = kind
             /\ cache'[D(p)].obs = obs /\ cache'[D(p)].tag = NoBytes
             /\ cache'[D(p)] # NoEntry
             /\ sess'[p].v = b.v /\ sess'[p].b = b
             /\ sess'[p].tag = NoBytes /\ sess'[p].hasBase = FALSE
             /\ acked' = acked \cup b.v
    <2>1. Pending(D(p))' = b.v
      BY <1>1, <1>5 DEF Pending, IsPending
    <2>2. Accounts(p)
      BY <1>2, <1>5, <2>1 DEF Accounts
    <2>3. obs # NoBytes \/ kind # "Generic"
      BY <1>1, <1>5, NoneAssumption DEF Shape, CacheShape
    <2>4. DevInv(D(p))'
      <3>1. CacheInv(D(p))'
        BY <1>1, <1>2, <1>5, <2>3 DEF CacheInv, Known, Current
      <3>2. ReceiptInv(D(p))'
        BY <1>1, IInvFacts DEF ReceiptInv
      <3> QED BY <3>1, <3>2 DEF DevInv
    <2>5. SessInv(p)' /\ Current(sess[p].tag, sess[p].b)'
      BY <1>1, <1>2, <1>5, <2>3 DEF SessInv, Known, Owned, Current, OwnsPending
    <2>6. ProcInv(p)'
      BY <1>3, <2>5, EndedFacts
    <2>7. Remembers(p) /\ job'[p].at # "push"
      BY <1>3, <1>5 DEF Remembers, Marks, NoJob
    <2> QED BY <2>2, <2>4, <2>6, <2>7, QuietStep
  <1> QED BY <1>1, <1>4, <1>5 DEF Persisted

LEMMA BeginLoadKeeps ==
    ASSUME IInv, NEW p \in Proc, BeginLoad(p), Local(p), Shape'
    PROVE  IInv'
  <1>1. /\ UNCHANGED <<site, head, late, gone, copied, cache, receipt, acked>>
        /\ job[p] = NoJob /\ D(p)' = D(p) /\ sess[p].st # "open"
    BY IInvFacts DEF BeginLoad, remote, JobShape, D
  <1>2. Settled' = Settled /\ Kept' = Kept
    BY <1>1 DEF Settled, Kept, Edited
  <1>3. CASE IsPending(D(p))
    <2>1. /\ sess'[p].st = "locked" /\ sess'[p].b = cache[D(p)].b /\ sess'[p].tag = NoBytes
          /\ sess'[p].hasBase = (cache[D(p)].kind = "ConflictCopy") /\ job'[p] = NoJob
      BY <1>1, <1>3, IInvFacts DEF BeginLoad, TypeOK, Closed
    <2>2. OwnsPending(p)'
      BY <1>1, <1>3, <2>1 DEF OwnsPending, IsPending
    <2>3. SessInv(p)' /\ Current(sess[p].tag, sess[p].b)'
      BY <1>1, <2>1, <2>2 DEF SessInv, Owned, Current
    <2> QED BY <1>1, <2>1, <2>3, SessionStep
  <1>4. CASE ~IsPending(D(p))
    <2>1. /\ UNCHANGED sess
          /\ job' = [job EXCEPT ![p] = IF cache[D(p)] = NoEntry
                           THEN [NoJob EXCEPT !.at = "state", !.for = "load"]
                           ELSE [NoJob EXCEPT !.at = "state", !.for = "load",
                                   !.base = cache[D(p)].b,
                                   !.seen = cache[D(p)].tag]]
      BY <1>4 DEF BeginLoad, GoTo
    <2>2. /\ job'[p].at = "state" /\ job'[p].for = "load"
          /\ \/ job'[p].base = NoBytes /\ job'[p].seen = NoBytes
             \/ /\ cache[D(p)] # NoEntry
                /\ job'[p].base = cache[D(p)].b /\ job'[p].seen = cache[D(p)].tag
      BY <2>1, IInvFacts DEF NoJob, TypeOK
    <2>3. job'[p].seen \in Marks(p)
      BY <2>2 DEF Marks
    <2>4. /\ Current(sess[p].tag, sess[p].b)' /\ IsPending(D(p))' = IsPending(D(p))
      BY <1>1, <2>1, SessStays
    <2>5. TagInv(p)'
      BY <1>1, <2>2, <2>4, IInvFacts DEF TagInv, Current, CacheInv
    <2>6. PushInv(p)' /\ CopyInv(p)'
      BY <2>2 DEF PushInv, CopyInv
    <2>7. WorkInv(p)'
      BY <1>2, <1>4, <2>2, <2>4, IInvFacts DEF WorkInv, CacheInv, IsPending, Known, Edited
    <2> QED BY <1>1, <2>1, <2>2, <2>3, <2>5, <2>6, <2>7, CallStep
  <1> QED BY <1>3, <1>4

LEMMA BeginSaveKeeps ==
    ASSUME IInv, NEW p \in Proc, BeginSave(p), Local(p), Shape'
    PROVE  IInv'
  <1>1. /\ UNCHANGED <<site, head, late, gone, copied, receipt>>
        /\ sess[p].st = "open" /\ D(p)' = D(p)
    BY DEF BeginSave, remote, D
  <1>2. CASE OwnsPending(p) /\ cache[D(p)].kind = "ConflictCopy"
    <2>1. PICK b \in Fresh(sess[p].v, "kern") : PersistConflictCopy(p, b)
      BY <1>2 DEF BeginSave
    <2>2. b \in Bytes /\ b.v = sess[p].v
      BY IInvFacts, RangeFacts, FreshFacts
    <2>3. Pending(D(p)) \subseteq b.v \cup Kept
      BY <1>1, <1>2, <2>2, IInvFacts DEF SessInv, Pending
    <2>4. NoBytes \in MaybeBytes
      BY DEF MaybeBytes
    <2> QED BY <1>1, <2>1, <2>2, <2>3, <2>4, PersistStep DEF PersistConflictCopy
  <1>3. CASE ~(OwnsPending(p) /\ cache[D(p)].kind = "ConflictCopy")
    <2> DEFINE j == [NoJob EXCEPT !.at = "state", !.base = BaseOf(p),
                            !.local = sess[p].v, !.n = 1,
                            !.for = IF sess[p].v = BaseOf(p).v
                                      THEN "adopt" ELSE "save"]
    <2>1. job' = [job EXCEPT ![p] = j] /\ UNCHANGED <<cache, sess, acked>>
      BY <1>3 DEF BeginSave, GoTo
    <2>2. /\ j.at = "state" /\ j.for \in {"save", "adopt"} /\ j.seen = NoBytes
          /\ j.base = BaseOf(p) /\ j.local = sess[p].v
      BY DEF NoJob
    <2> HIDE DEF j
    <2>3. job'[p] = j
      BY <2>1, IInvFacts DEF TypeOK
    <2>4. /\ Current(sess[p].tag, sess[p].b)' /\ BaseOf(p)' = BaseOf(p)
          /\ Owned(p, "ConflictCopy")' = Owned(p, "ConflictCopy")
      BY <1>1, <2>1, SessStays
    <2>5. TagInv(p)' /\ PushInv(p)' /\ CopyInv(p)'
      BY <2>2, <2>3, <2>4 DEF TagInv, PushInv, CopyInv
    <2>6. WorkInv(p)'
      BY <1>3, <2>1, <2>2, <2>3, <2>4 DEF WorkInv, Owned
    <2>7. job'[p].seen \in Marks(p) /\ job'[p].at \notin {"push", "commit"}
      BY <2>2, <2>3 DEF Marks
    <2> QED BY <1>1, <2>1, <2>5, <2>6, <2>7, CallStep
  <1> QED BY <1>2, <1>3

LEMMA BeginRetryKeeps ==
    ASSUME IInv, NEW p \in Proc, BeginRetry(p), Local(p), Shape'
    PROVE  IInv'
  <1>1. /\ UNCHANGED <<site, head, late, gone, copied, receipt, cache, acked>>
        /\ job[p] = NoJob /\ D(p)' = D(p) /\ IsPending(D(p))' = IsPending(D(p))
    BY IInvFacts DEF BeginRetry, remote, D, JobShape, IsPending
  <1>2. Settled' = Settled /\ Kept' = Kept
    BY <1>1 DEF Settled, Kept, Edited
  <1>3. ASSUME NEW j, GoTo(p, j), UNCHANGED sess,
               j.seen = NoBytes, j.at \in {"state", "copy"},
                j.for \in {"retry", "refresh", "receipt"},
               j.at = "state" =>
                 /\ j.for \in {"retry", "refresh"}
                 /\ j.local = sess[p].v /\ j.base = BaseOf(p),
               j.at = "state" /\ j.for = "retry" => ~Owned(p, "ConflictCopy"),
               j.for = "refresh" => j.at = "state" /\ ~IsPending(D(p)),
               j.at = "copy" /\ j.for = "retry" /\ OwnsPending(p) => j.local = cache[D(p)].b.v
        PROVE  IInv'
    <2>1. job'[p] = j
      BY <1>3, IInvFacts DEF TypeOK, GoTo
    <2>2. /\ Current(sess[p].tag, sess[p].b)' /\ BaseOf(p)' = BaseOf(p)
          /\ Owned(p, "ConflictCopy")' = Owned(p, "ConflictCopy")
          /\ OwnsPending(p)' = OwnsPending(p)
      BY <1>1, <1>3, SessStays
    <2>3. TagInv(p)' /\ PushInv(p)'
      BY <1>3, <2>1, <2>2 DEF TagInv, PushInv
    <2>4. WorkInv(p)'
      BY <1>1, <1>3, <2>1, <2>2 DEF WorkInv
    <2>5. CopyInv(p)'
      BY <1>1, <1>3, <2>1, <2>2 DEF CopyInv
    <2>6. job'[p].seen \in Marks(p) /\ job'[p].at \notin {"push", "commit"}
      BY <1>3, <2>1 DEF Marks
    <2> QED BY <1>1, <1>3, <2>3, <2>4, <2>5, <2>6, CallStep
  <1>4. CASE sess[p].pend /\ cache[D(p)].kind = "ConflictCopy"
    <2> DEFINE j == [NoJob EXCEPT !.at = "copy", !.for = "retry", !.local = cache[D(p)].b.v]
    <2>1. GoTo(p, j) /\ UNCHANGED sess
      BY <1>4 DEF BeginRetry
    <2>2. j.at = "copy" /\ j.for = "retry" /\ j.seen = NoBytes /\ j.local = cache[D(p)].b.v
      BY DEF NoJob
    <2> HIDE DEF j
    <2> QED BY <1>3, <2>1, <2>2
  <1>5. CASE sess[p].pend /\ cache[D(p)].kind # "ConflictCopy"
    <2> DEFINE j == [NoJob EXCEPT !.at = "state", !.for = "retry",
                       !.base = cache[D(p)].obs, !.local = sess[p].v, !.n = 1]
    <2>1. GoTo(p, j) /\ UNCHANGED sess /\ OwnsPending(p)
      BY <1>5 DEF BeginRetry
    <2>2. /\ j.at = "state" /\ j.for = "retry" /\ j.seen = NoBytes
          /\ j.base = cache[D(p)].obs /\ j.local = sess[p].v
      BY DEF NoJob
    <2> HIDE DEF j
    <2>3. j.base = BaseOf(p) /\ ~Owned(p, "ConflictCopy")
      BY <1>5, <2>1, <2>2 DEF BaseOf, Owned
    <2> QED BY <1>3, <2>1, <2>2, <2>3
  <1>6. CASE ~sess[p].pend /\ IsPending(D(p))
    <2>1. sess' = [sess EXCEPT ![p].pend = TRUE] /\ UNCHANGED job
      BY <1>6 DEF BeginRetry
    <2>2. /\ sess'[p].st = sess[p].st /\ sess'[p].b = sess[p].b /\ sess'[p].v = sess[p].v
          /\ sess'[p].tag = sess[p].tag /\ sess'[p].hasBase = sess[p].hasBase
      BY <2>1, IInvFacts, StillPendingFacts
    <2>3. OwnsPending(p)' = OwnsPending(p) /\ \A k : Owned(p, k)' = Owned(p, k)
      BY <1>1, <2>2 DEF OwnsPending, IsPending, Owned
    <2>4. SessInv(p)' /\ Current(sess[p].tag, sess[p].b)'
      BY <1>1, <1>2, <2>2, <2>3, IInvFacts DEF SessInv, Known, TagInv, Current
    <2> QED BY <1>1, <2>1, <2>2, <2>4, SessionStep
  <1>7. CASE ~sess[p].pend /\ ~IsPending(D(p)) /\ receipt[D(p)] # NoEntry /\ receipt[D(p)].pend
    <2> DEFINE j == [NoJob EXCEPT !.at = "copy", !.for = "receipt", !.local = receipt[D(p)].b.v]
    <2>1. GoTo(p, j) /\ UNCHANGED sess
      BY <1>7 DEF BeginRetry
    <2>2. j.at = "copy" /\ j.for = "receipt" /\ j.seen = NoBytes
      BY DEF NoJob
    <2> HIDE DEF j
    <2> QED BY <1>3, <2>1, <2>2
  <1>8. CASE ~sess[p].pend /\ ~IsPending(D(p)) /\ ~(receipt[D(p)] # NoEntry /\ receipt[D(p)].pend)
    <2> DEFINE j == [NoJob EXCEPT !.at = "state", !.for = "refresh",
                       !.base = BaseOf(p), !.local = sess[p].v]
    <2>1. GoTo(p, j) /\ UNCHANGED sess
      BY <1>8 DEF BeginRetry
    <2>2. /\ j.at = "state" /\ j.for = "refresh" /\ j.seen = NoBytes
          /\ j.base = BaseOf(p) /\ j.local = sess[p].v
      BY DEF NoJob
    <2> HIDE DEF j
    <2> QED BY <1>3, <1>8, <2>1, <2>2
  <1> QED BY <1>4, <1>5, <1>6, <1>7, <1>8

-----------------------------------------------------------------------------
(* Patching. *)

\* The edits of the base that the session lacks are settled.
LEMMA BaseFacts ==
    ASSUME IInv, NEW p \in Proc, job[p].at \in {"state", "read", "push", "readback"},
           \/ job[p].for \in {"save", "retry"}
           \/ job[p].for = "refresh" /\ job[p].at \in {"state", "read"},
           job[p].base # NoBytes, sess[p].st = "open"
    PROVE  /\ job[p].base = BaseOf(p) /\ job[p].local = sess[p].v
           /\ job[p].base.v \subseteq job[p].local \cup Settled
           /\ Known(job[p].base)
           /\ OwnsPending(p) => /\ Owned(p, "Generic") /\ job[p].base = cache[D(p)].obs
                                /\ job[p].for # "refresh"
           /\ ~OwnsPending(p) => sess[p].hasBase /\ job[p].base = sess[p].b
  <1>1. job[p].base = BaseOf(p) /\ job[p].local = sess[p].v
    BY IInvFacts DEF WorkInv
  <1>2. CASE OwnsPending(p)
    <2>1. IsPending(D(p)) /\ cache[D(p)] # NoEntry /\ cache[D(p)].kind # "Clean"
      BY <1>2 DEF OwnsPending, IsPending
    <2>2. job[p].for # "refresh" /\ ~Owned(p, "ConflictCopy")
      BY <2>1, IInvFacts DEF WorkInv
    <2>3. Owned(p, "Generic")
      BY <1>2, <2>1, <2>2, IInvFacts, CacheRange DEF Owned
    <2>4. job[p].base = cache[D(p)].obs
      BY <1>1, <1>2 DEF BaseOf
    <2>5. Known(job[p].base) /\ job[p].base.v \subseteq job[p].local \cup Settled
      BY <1>1, <2>1, <2>3, <2>4, IInvFacts DEF SessInv, CacheInv, Owned
    <2> QED BY <1>1, <1>2, <2>2, <2>3, <2>4, <2>5
  <1>3. CASE ~OwnsPending(p)
    <2>1. sess[p].hasBase /\ job[p].base = sess[p].b
      BY <1>1, <1>3 DEF BaseOf
    <2>2. Known(job[p].base) /\ job[p].base.v \subseteq job[p].local \cup Settled
      BY <1>1, <1>3, <2>1, IInvFacts DEF SessInv, Owned
    <2> QED BY <1>1, <1>3, <2>1, <2>2
  <1> QED BY <1>2, <1>3

\* Sending fresh bytes.
LEMMA OnceNew ==
    ASSUME IInv, NEW p \in Proc, Local(p), UNCHANGED <<head, late, sess, cache>>,
           job'[p].at = "push", job'[p].cand \in Bytes \ InUse, job'[p].seen \in Marks(p)
    PROVE  OnceInv'
  <1> DEFINE S == {job'[p].cand}
  <1>1. /\ D(p)' = D(p) /\ Shape /\ TypeOK /\ OnceInv
        /\ \A q \in Proc \ {p} : job'[q] = job[q]
    BY IInvFacts DEF Local, D
  <1>2. Coming' \subseteq Coming \cup S /\ S \cap InUse = {}
    BY <1>1 DEF Coming
  <1>3. \A b \in Marks(p) : b \notin Coming'
    <2>1. NoBytes \notin S /\ \A b \in Marks(p) : b \in InUse \/ b = NoBytes
      BY <1>1, InUseFacts, IInvFacts, NoneAssumption DEF Marks
    <2> QED BY <1>1, <1>2, <2>1, MarksFacts
  <1>4. MarkInv(p)' /\ (cache[D(p)] # NoEntry => cache[D(p)].tag \notin Coming)'
    BY <1>1, <1>3 DEF MarkInv, Marks
  <1> HIDE DEF S
  <1>5. /\ (\A q \in Proc : MarkInv(q))'
        /\ (\A d \in Device : cache[d] # NoEntry => cache[d].tag \notin Coming)'
    BY <1>1, <1>2, <1>4, MarksFrame
  <1> USE DEF S
  <1>6. /\ head' \notin Coming' /\ (late' # NoEntry => late'.seen \notin Coming')
    BY <1>1, <1>2, InUseFacts DEF OnceInv
  <1>7. \A q \in Proc \ {p} : job'[p].cand # job'[q].cand
    BY <1>1, InUseFacts
  <1>8. late' # NoEntry => job'[p].cand # late'.cand
    BY <1>1, InUseFacts
  <1>9. ASSUME NEW q \in Proc, NEW r \in Proc, job'[q].at = "push", job'[r].at = "push",
               job'[q].cand = job'[r].cand
        PROVE  q = r
    BY <1>1, <1>7, <1>9 DEF OnceInv
  <1>10. \A q \in Proc : job'[q].at = "push" /\ late' # NoEntry => job'[q].cand # late'.cand
    BY <1>1, <1>8 DEF OnceInv
  <1> QED BY <1>5, <1>6, <1>9, <1>10 DEF OnceInv

LEMMA RebaseStep ==
    ASSUME IInv, NEW p \in Proc, Local(p), Shape', NEW rem \in Bytes, NEW seen \in Bytes,
           Rebase(p, rem, seen),
           UNCHANGED <<site, head, late, gone, copied, cache, receipt, acked, sess>>,
           job[p].at \in {"state", "read"}, job[p].for \in {"save", "retry", "refresh"},
           job[p].base # NoBytes, sess[p].st = "open",
           seen \in Marks(p), Known(rem), job[p].for = "refresh" => Current(seen, rem),
           job[p].base.v \subseteq rem.v \cup Settled,
           head = seen => Edited(head) \subseteq rem.v \cup job[p].local \cup Settled
    PROVE  IInv'
  <1> DEFINE v == Patch(job[p].base.v, job[p].local, rem.v)
  <1>1. Rebased(p, rem, seen)
    BY IInvFacts, RebaseFacts DEF MaybeBytes
  <1>2. /\ job[p].base = BaseOf(p) /\ job[p].local = sess[p].v
        /\ job[p].base.v \subseteq job[p].local \cup Settled
        /\ job[p].for # "refresh" => ~Owned(p, "ConflictCopy")
        /\ job[p].for = "refresh" => ~IsPending(D(p))
    BY BaseFacts, IInvFacts DEF WorkInv
  <1>3. rem.v \subseteq v \cup Settled /\ job[p].local \subseteq v \cup Settled
    BY <1>2 DEF Patch
  <1> HIDE DEF v
  <1>4. Settled' = Settled /\ Kept' = Kept
    BY DEF Settled, Kept, Edited
  <1>5. /\ Current(sess[p].tag, sess[p].b)' /\ SessInv(p)' /\ BaseOf(p)' = BaseOf(p)
        /\ Owned(p, "ConflictCopy")' = Owned(p, "ConflictCopy")
        /\ IsPending(D(p))' = IsPending(D(p))
    BY SessStays
  <1>6. CASE /\ job[p].for = "refresh" /\ job'[p].at = "install"
             /\ job'[p].local = v /\ job'[p].for = "refresh"
             /\ job'[p].rem = rem /\ job'[p].seen = seen
    <2>1. TagInv(p)' /\ PushInv(p)' /\ CopyInv(p)'
      BY <1>5, <1>6 DEF TagInv, PushInv, CopyInv, Current
    <2>2. WorkInv(p)'
      BY <1>2, <1>3, <1>4, <1>5, <1>6 DEF WorkInv, Known
    <2> QED BY <1>6, <2>1, <2>2, CallStep
  <1>7. CASE /\ job[p].for # "refresh" /\ job'[p].at = "push"
             /\ job'[p].for = job[p].for /\ job'[p].rem = rem /\ job'[p].seen = seen
             /\ job'[p].base = job[p].base /\ job'[p].local = job[p].local
             /\ job'[p].cand \in Bytes \ InUse /\ job'[p].cand.v = v
    <2>1. TagInv(p)' /\ CopyInv(p)'
      BY <1>5, <1>7 DEF TagInv, CopyInv
    <2>2. PushInv(p)'
      BY <1>2, <1>3, <1>4, <1>7 DEF PushInv, Known
    <2>3. WorkInv(p)'
      BY <1>2, <1>5, <1>7 DEF WorkInv
    <2>4. ProcInv(p)'
      BY <1>5, <2>1, <2>2, <2>3 DEF ProcInv
    <2>5. DevInv(D(p))' /\ Accounts(p)
      BY SameDevice
    <2>6. OnceInv'
      BY <1>7, OnceNew
    <2>7. Grows /\ Turns /\ LateInv'
      BY QuietFacts DEF IInv
    <2>8. AckedEditsSurvive'
      BY <2>5, <2>7, AckedFrame DEF IInv, Accounts
    <2> QED BY <2>4, <2>5, <2>6, <2>7, <2>8, StepFrame
  <1> QED BY <1>1, <1>6, <1>7 DEF Rebased, v

LEMMA StateKnownKeeps ==
    ASSUME IInv, NEW p \in Proc, StateKnown(p), Local(p), Shape'
    PROVE  IInv'
  <1>1. /\ UNCHANGED <<site, head, late, gone, copied, receipt, cache, acked>>
        /\ job[p].at = "state" /\ head # NoBytes /\ head \in Bytes
    BY IInvFacts, RangeFacts DEF StateKnown, remote, MaybeBytes
  <1>2. CASE KnownTag(p) = head /\ job[p].for = "save"
    <2>1. Rebase(p, job[p].base, head) /\ UNCHANGED sess
      BY <1>2 DEF StateKnown
    <2>2. sess[p].tag = head /\ job[p].base \in Bytes /\ sess[p].st = "open"
      BY <1>1, <1>2, IInvFacts DEF KnownTag, JobShape
    <2>3. job[p].base # NoBytes
      BY <2>2, NoneAssumption
    <2>4. job[p].local = sess[p].v /\ Known(job[p].base)
      BY <1>1, <1>2, <2>2, <2>3, BaseFacts
    <2>5. head = sess[p].b /\ sess[p].hasBase
      BY <1>1, <2>2, IInvFacts DEF TagInv, Current, SessShape
    <2>6. Edited(head) \subseteq job[p].local \cup Settled
      BY <1>1, <2>2, <2>4, <2>5, IInvFacts DEF Edited, SessInv
    <2>7. head \in Marks(p)
      BY DEF Marks
    <2> DEFINE rem == job[p].base
               seen == head
    <2>8. /\ rem \in Bytes /\ seen \in Bytes /\ Rebase(p, rem, seen) /\ seen \in Marks(p)
          /\ Known(rem) /\ job[p].base.v \subseteq rem.v \cup Settled
          /\ Edited(head) \subseteq rem.v \cup job[p].local \cup Settled
      BY <1>1, <2>1, <2>2, <2>4, <2>6, <2>7
    <2> HIDE DEF rem, seen
    <2> QED BY <1>1, <1>2, <2>1, <2>2, <2>3, <2>8, RebaseStep
  <1>3. CASE KnownTag(p) = head /\ job[p].for = "load"
    <2>1. LoadCached(p) /\ Finish(p)
      BY <1>3 DEF StateKnown
    <2> QED BY <1>1, <1>3, <2>1, IInvFacts, LoadStep DEF TagInv
  <1>4. CASE KnownTag(p) = head /\ job[p].for \notin {"save", "load"}
    <2>1. Finish(p) /\ UNCHANGED sess
      BY <1>4 DEF StateKnown
    <2> QED BY <1>1, <2>1, FinishStep
  <1>5. CASE KnownTag(p) # head
    <2>1. job' = [job EXCEPT ![p] = [job[p] EXCEPT !.at = "read", !.seen = head]]
          /\ UNCHANGED sess
      BY <1>5 DEF StateKnown, GoTo
    <2>2. /\ job'[p].at = "read" /\ job'[p].seen = head /\ job'[p].for = job[p].for
          /\ job'[p].base = job[p].base /\ job'[p].local = job[p].local
      BY <2>1, IInvFacts, RangeFacts DEF TypeOK, Job
    <2>3. /\ Current(sess[p].tag, sess[p].b)' /\ BaseOf(p)' = BaseOf(p)
          /\ Owned(p, "ConflictCopy")' = Owned(p, "ConflictCopy")
          /\ IsPending(D(p))' = IsPending(D(p))
      BY <1>1, <2>1, SessStays
    <2>4. TagInv(p)' /\ PushInv(p)' /\ CopyInv(p)'
      BY <2>2, <2>3 DEF TagInv, PushInv, CopyInv
    <2>5. WorkInv(p)'
      BY <1>1, <2>1, <2>2, <2>3, IInvFacts DEF WorkInv, Known, Kept, Settled, Edited
    <2>6. job'[p].seen \in Marks(p) /\ job'[p].at \notin {"push", "commit"}
      BY <2>2 DEF Marks
    <2> QED BY <1>1, <2>1, <2>4, <2>5, <2>6, CallStep
  <1> QED BY <1>2, <1>3, <1>4, <1>5

\* A save that cannot reach the source.
LEMMA GenericStep ==
    ASSUME IInv, NEW p \in Proc, Local(p), Shape', PersistGeneric(p, job[p].local),
           job[p].at \in {"state", "read"}, job[p].for = "save",
           UNCHANGED <<site, head, late, gone, receipt, copied>>
    PROVE  IInv'
  <1>1. PICK b \in Fresh(job[p].local, "kern") :
            PersistPending(p, b, "Generic", InheritedObserved(D(p)))
    BY DEF PersistGeneric
  <1>2. /\ b \in Bytes /\ b.v = job[p].local /\ InheritedObserved(D(p)) \in MaybeBytes
    BY IInvFacts, RangeFacts, FreshFacts, InheritedFacts
  <1>3. sess[p].st = "open" /\ job[p].base # NoBytes
    BY IInvFacts, NoneAssumption DEF JobShape
  <1>4. /\ job[p].local = sess[p].v
        /\ job[p].base = BaseOf(p) /\ Known(job[p].base)
        /\ job[p].base.v \subseteq job[p].local \cup Settled
        /\ ~OwnsPending(p) => sess[p].hasBase /\ job[p].base = sess[p].b
    BY <1>3, BaseFacts
  <1>5. cache[D(p)] # NoEntry
    BY <1>3, IInvFacts DEF SessShape
  <1>6. ASSUME AcceptsPending(D(p), sess[p].b, "Generic")
        PROVE  /\ Pending(D(p)) \subseteq b.v \cup Kept
               /\ Known(InheritedObserved(D(p)))
               /\ InheritedObserved(D(p)).v \subseteq b.v \cup Settled
    <2>1. cache[D(p)].b = sess[p].b /\ cache[D(p)].kind \in {"Clean", "Generic"}
      BY <1>5, <1>6 DEF AcceptsPending
    <2>2. CASE cache[D(p)].kind = "Clean"
      <3>1. InheritedObserved(D(p)) = job[p].base
        BY <1>4, <1>5, <2>1, <2>2 DEF InheritedObserved, OwnsPending, IsPending
      <3>2. Pending(D(p)) = {}
        BY <2>2 DEF Pending, IsPending
      <3> QED BY <1>2, <1>4, <3>1, <3>2
    <2>3. CASE cache[D(p)].kind = "Generic"
      <3>1. OwnsPending(p) /\ IsPending(D(p))
        BY <1>5, <2>1, <2>3 DEF OwnsPending, IsPending
      <3>2. InheritedObserved(D(p)) = job[p].base
        BY <1>4, <1>5, <2>3, <3>1 DEF InheritedObserved, BaseOf
      <3>3. Pending(D(p)) \subseteq sess[p].v \cup Kept
        BY <1>3, <3>1, IInvFacts DEF SessInv, Pending
      <3> QED BY <1>2, <1>4, <3>2, <3>3
    <2> QED BY <2>1, <2>2, <2>3
  <1> DEFINE obs == InheritedObserved(D(p))
  <1>7. /\ obs \in MaybeBytes /\ PersistPending(p, b, "Generic", obs)
        /\ AcceptsPending(D(p), sess[p].b, "Generic") =>
             /\ Pending(D(p)) \subseteq b.v \cup Kept
             /\ Known(obs) /\ obs.v \subseteq b.v \cup Settled
    BY <1>1, <1>2, <1>6
  <1> HIDE DEF obs
  <1> QED BY <1>2, <1>7, PersistStep

LEMMA StateFailsKeeps ==
    ASSUME IInv, NEW p \in Proc, StateFails(p), Local(p), Shape'
    PROVE  IInv'
  <1>1. /\ UNCHANGED <<site, head, late, gone, copied, receipt>> /\ job[p].at = "state"
    BY DEF StateFails, remote
  <1>2. CASE job[p].for = "save" /\ PersistGeneric(p, job[p].local)
    BY <1>1, <1>2, GenericStep
  <1>3. CASE job[p].for = "save" /\ \E b \in Fresh(job[p].local, "kern") : PersistConflictCopy(p, b)
    <2>1. PICK b \in Fresh(job[p].local, "kern") : PersistConflictCopy(p, b)
      BY <1>3
    <2>2. b \in Bytes /\ b.v = job[p].local /\ NoBytes \in MaybeBytes
      BY IInvFacts, RangeFacts, FreshFacts DEF MaybeBytes
    <2>3. sess[p].st = "open" /\ cache[D(p)] # NoEntry /\ ~Owned(p, "ConflictCopy")
      BY <1>1, <1>3, IInvFacts DEF JobShape, SessShape, WorkInv
    <2>4. ASSUME AcceptsPending(D(p), sess[p].b, "ConflictCopy")
          PROVE  Pending(D(p)) \subseteq b.v \cup Kept
      BY <2>3, <2>4 DEF AcceptsPending, Pending, Owned, OwnsPending, IsPending
    <2> QED BY <1>1, <2>1, <2>2, <2>4, PersistStep DEF PersistConflictCopy
  <1>4. CASE job[p].for = "load"
    <2>1. LoadCached(p) /\ Finish(p) /\ UNCHANGED <<cache, acked>>
      BY <1>4 DEF StateFails
    <2> QED BY <1>1, <1>4, <2>1, IInvFacts, LoadStep DEF TagInv
  <1>5. CASE job[p].for \notin {"save", "load"}
    <2>1. Finish(p) /\ UNCHANGED <<cache, sess, acked>>
      BY <1>5 DEF StateFails
    <2> QED BY <1>1, <2>1, FinishStep
  <1> QED BY <1>2, <1>3, <1>4, <1>5 DEF StateFails

\* A call that goes on to publish a conflict copy, of the session's vault or
\* of one that has its edits.
LEMMA CopyStep ==
    ASSUME IInv, NEW p \in Proc, Local(p), Shape', NEW v \in SUBSET Edit, NEW rem \in MaybeBytes,
           GoToCopy(p, v, rem),
           UNCHANGED <<site, head, late, gone, copied, cache, receipt, acked, sess>>,
           job[p].for \in {"save", "retry", "refresh"},
           job[p].for = "refresh" => Known(rem) /\ Current(job[p].seen, rem),
           job[p].for # "refresh" => /\ sess[p].st = "open" /\ ~Owned(p, "ConflictCopy")
                                     /\ sess[p].v \subseteq v \cup Settled
    PROVE  IInv'
  <1>1. /\ job'[p].at = "copy" /\ job'[p].for = job[p].for /\ job'[p].local = v
        /\ job[p].for = "refresh" => job'[p].rem = rem /\ job'[p].seen = job[p].seen
        /\ job[p].for # "refresh" => job'[p].seen = NoBytes
    BY IInvFacts, GoToCopyFacts
  <1>2. /\ Current(sess[p].tag, sess[p].b)' /\ D(p)' = D(p)
        /\ IsPending(D(p))' = IsPending(D(p)) /\ OwnsPending(p)' = OwnsPending(p)
    BY SessStays
  <1>3. Settled' = Settled /\ Kept' = Kept
    BY DEF Settled, Kept, Edited
  <1>4. TagInv(p)' /\ PushInv(p)'
    BY <1>1, <1>2 DEF TagInv, PushInv, Current
  <1>5. WorkInv(p)'
    BY <1>1, <1>2, IInvFacts DEF WorkInv
  <1>6. ASSUME OwnsPending(p), job[p].for # "refresh"
        PROVE  /\ cache[D(p)].kind = "Generic"
               /\ cache[D(p)].b.v \subseteq v \cup Kept
               /\ cache[D(p)].obs.v \subseteq v \cup Settled
    <2>1. cache[D(p)].kind = "Generic" /\ Owned(p, "Generic")
      BY <1>6, IInvFacts, CacheRange DEF OwnsPending, IsPending, Owned
    <2>2. Settled \subseteq Kept
      BY DEF Kept
    <2> QED BY <1>6, <2>1, <2>2, IInvFacts DEF SessInv
  <1>7. job[p].for # "refresh" /\ sess[p].hasBase => sess[p].b.v \subseteq v \cup Settled
    BY IInvFacts DEF SessInv
  <1>8. CopyInv(p)'
    BY <1>1, <1>2, <1>3, <1>6, <1>7 DEF CopyInv, Known
  <1>9. job'[p].seen \in Marks(p)
    BY <1>1 DEF Marks
  <1> QED BY <1>1, <1>4, <1>5, <1>8, <1>9, CallStep

LEMMA ReadHeadKeeps ==
    ASSUME IInv, NEW p \in Proc, ReadHead(p), Local(p), Shape'
    PROVE  IInv'
  <1>1. /\ UNCHANGED <<site, head, late, gone, copied, receipt, cache, acked, sess>>
        /\ job[p].at = "read" /\ head # NoBytes /\ head \in Bytes
    BY IInvFacts, RangeFacts DEF ReadHead, remote, MaybeBytes
  <1>2. /\ Known(head) /\ Current(job[p].seen, head)
        /\ job[p].seen \in Bytes /\ job[p].seen \in Marks(p)
    BY <1>1, IInvFacts DEF Known, Kept, Current, JobShape, Marks
  <1>3. ASSUME ~IsCopied(p), ~CannotAdopt(p)
        PROVE  /\ job[p].for \in {"save", "retry", "refresh"} /\ sess[p].st = "open"
               /\ job[p].base # NoBytes
    BY <1>1, <1>3, IInvFacts, RangeFacts, NoneAssumption
       DEF IsCopied, CannotAdopt, JobShape, Session
  <1>4. ASSUME ~IsCopied(p), ~CannotAdopt(p), GoToCopy(p, job[p].local, head) PROVE IInv'
    <2>1. job[p].for # "refresh" => ~Owned(p, "ConflictCopy") /\ sess[p].v = job[p].local
      BY <1>1, <1>3, <1>4, IInvFacts DEF WorkInv
    <2> DEFINE v == job[p].local
               rem == head
    <2>2. /\ v \in SUBSET Edit /\ rem \in MaybeBytes /\ GoToCopy(p, v, rem)
          /\ Known(rem) /\ Current(job[p].seen, rem)
          /\ job[p].for # "refresh" => sess[p].v \subseteq v \cup Settled
      BY <1>2, <1>4, <2>1, IInvFacts, RangeFacts
    <2> HIDE DEF v, rem
    <2> QED BY <1>1, <1>3, <1>4, <2>1, <2>2, CopyStep
  <1>5. CASE IsCopied(p)
    <2> DEFINE j == [job[p] EXCEPT !.at = "install", !.rem = head,
                                   !.local = head.v, !.base = NoBytes]
    <2>1. job' = [job EXCEPT ![p] = j]
      BY <1>5 DEF ReadHead, CannotAdopt, GoTo
    <2>2. /\ j.at = "install" /\ j.rem = head /\ j.local = head.v /\ j.base = NoBytes
          /\ j.for = job[p].for /\ j.seen = job[p].seen
      BY IInvFacts, RangeFacts DEF Job
    <2> HIDE DEF j
    <2>3. job'[p] = j
      BY <2>1, IInvFacts DEF TypeOK
    <2>4. /\ Current(sess[p].tag, sess[p].b)'
          /\ IsPending(D(p))' = IsPending(D(p)) /\ Kept' = Kept
      BY <1>1, SessStays DEF Kept, Settled, Edited
    <2>5. TagInv(p)' /\ PushInv(p)' /\ CopyInv(p)'
      BY <1>1, <2>2, <2>3, <2>4 DEF TagInv, PushInv, CopyInv, Current
    <2>6. WorkInv(p)'
      BY <1>1, <1>2, <2>2, <2>3, <2>4, IInvFacts DEF WorkInv, Known, Edited
    <2>7. job'[p].seen \in Marks(p) /\ job'[p].at \notin {"push", "commit"}
      BY <2>2, <2>3 DEF Marks
    <2> QED BY <1>1, <2>5, <2>6, <2>7, CallStep
  <1>6. CASE ~IsCopied(p) /\ CannotAdopt(p)
    <2>1. Finish(p)
      BY <1>6 DEF ReadHead
    <2> QED BY <1>1, <2>1, FinishStep
  <1>7. CASE ~IsCopied(p) /\ ~CannotAdopt(p) /\ HasSyncLineage(job[p].base, head)
    <2>1. Rebase(p, head, job[p].seen) \/ GoToCopy(p, job[p].local, head)
      BY <1>7 DEF ReadHead
    <2>2. ASSUME Rebase(p, head, job[p].seen) PROVE IInv'
      <3>1. Known(job[p].base)
        BY <1>1, <1>3, <1>7, BaseFacts
      <3>2. job[p].base.v \subseteq head.v \cup Settled
        BY <1>1, <1>3, <1>7, <3>1 DEF Known, Kept, Edited
      <3> DEFINE rem == head
                 seen == job[p].seen
      <3>3. /\ rem \in Bytes /\ seen \in Bytes /\ Rebase(p, rem, seen) /\ seen \in Marks(p)
            /\ Known(rem) /\ job[p].base.v \subseteq rem.v \cup Settled /\ Current(seen, rem)
            /\ Edited(head) \subseteq rem.v \cup job[p].local \cup Settled
        BY <1>1, <1>2, <2>2, <3>2 DEF Edited
      <3> HIDE DEF rem, seen
      <3> QED BY <1>1, <1>3, <1>7, <3>3, RebaseStep
    <2> QED BY <1>4, <1>7, <2>1, <2>2
  <1>8. CASE ~IsCopied(p) /\ ~CannotAdopt(p) /\ ~HasSyncLineage(job[p].base, head)
    <2>1. GoToCopy(p, job[p].local, head)
      BY <1>8 DEF ReadHead
    <2> QED BY <1>4, <1>8, <2>1
  <1> QED BY <1>5, <1>6, <1>7, <1>8

LEMMA ReadFailsKeeps ==
    ASSUME IInv, NEW p \in Proc, ReadFails(p), Local(p), Shape'
    PROVE  IInv'
  <1>1. /\ UNCHANGED <<site, head, late, gone, copied, receipt>> /\ job[p].at = "read"
    BY DEF ReadFails, remote
  <1>2. CASE job[p].for = "save"
    <2>1. PersistGeneric(p, job[p].local)
      BY <1>2 DEF ReadFails
    <2> QED BY <1>1, <1>2, <2>1, GenericStep
  <1>3. CASE job[p].for = "load" /\ job[p].base = NoBytes
    <2>1. LoadCached(p) /\ Finish(p) /\ UNCHANGED <<cache, acked>>
      BY <1>3 DEF ReadFails
    <2> QED BY <1>1, <1>3, <2>1, LoadStep
  <1>4. CASE job[p].for # "save" /\ ~(job[p].for = "load" /\ job[p].base = NoBytes)
    <2>1. Finish(p) /\ UNCHANGED <<cache, sess, acked>>
      BY <1>4 DEF ReadFails
    <2> QED BY <1>1, <2>1, FinishStep
  <1> QED BY <1>2, <1>3, <1>4

-----------------------------------------------------------------------------
(* Writing the file. *)

\* A session whose runtime only follows the source.
LEMMA SessFrame ==
    ASSUME IInv, NEW p \in Proc, Grows, Turns, site' = site,
           sess'[p] = sess[p], cache'[D(p)] = cache[D(p)]
    PROVE  /\ SessInv(p)' /\ Current(sess[p].tag, sess[p].b)'
           /\ D(p)' = D(p) /\ BaseOf(p)' = BaseOf(p)
           /\ IsPending(D(p))' = IsPending(D(p))
           /\ OwnsPending(p)' = OwnsPending(p)
           /\ \A kind : Owned(p, kind)' = Owned(p, kind)
  <1>1. Settled \subseteq Settled' /\ Kept \subseteq Kept' /\ D(p)' = D(p)
    BY SettledGrows DEF D
  <1>2. IsPending(D(p))' = IsPending(D(p)) /\ OwnsPending(p)' = OwnsPending(p)
    BY <1>1 DEF IsPending, OwnsPending
  <1>3. BaseOf(p)' = BaseOf(p) /\ \A kind : Owned(p, kind)' = Owned(p, kind)
    BY <1>1, <1>2 DEF BaseOf, Owned
  <1>4. SessInv(p)'
    BY <1>1, <1>2, IInvFacts DEF SessInv, Known, Owned
  <1>5. Current(sess[p].tag, sess[p].b)'
    <2>1. CASE head' = head
      BY <2>1, IInvFacts DEF TagInv, Current
    <2>2. CASE head' # head
      BY <2>2, IInvFacts DEF TagInv, Current, Turns
    <2> QED BY <2>1, <2>2
  <1> QED BY <1>1, <1>2, <1>3, <1>4, <1>5

\* A step that leaves the session and its device as they are.
LEMMA SourceStep ==
    ASSUME IInv, NEW p \in Proc, Local(p), Shape', Grows, Turns,
           UNCHANGED <<site, sess, cache, receipt, acked>>,
           TagInv(p)', PushInv(p)', WorkInv(p)', CopyInv(p)', OnceInv', LateInv'
    PROVE  IInv'
  <1>1. SessInv(p)' /\ D(p)' = D(p) /\ IsPending(D(p))' = IsPending(D(p))
    BY SessFrame
  <1>2. ProcInv(p)'
    BY <1>1 DEF ProcInv
  <1>3. DevInv(D(p))'
    <2>1. ASSUME NEW d \in Device, d = D(p) PROVE DevInv(d)'
      <3>1. DevInv(d) /\ cache'[d] = cache[d] /\ receipt'[d] = receipt[d]
        BY DEF IInv
      <3> QED BY <3>1, DevFrame
    <2> QED BY <1>1, <2>1, IInvFacts DEF DevInv, CacheInv, ReceiptInv
  <1>4. Pending(D(p))' = Pending(D(p))
    BY <1>1 DEF Pending
  <1>5. AckedEditsSurvive'
    BY <1>1, <1>4, AckedFrame DEF IInv
  <1> QED BY <1>2, <1>3, <1>5, StepFrame

\* The condition of the request holds: nothing that is kept gets lost, and
\* the new ETag is known to nobody.
LEMMA HeadMoves ==
    ASSUME IInv, NEW p \in Proc, job[p].at = "push", head = job[p].seen,
           head' = job[p].cand, UNCHANGED <<late, copied, gone>>
    PROVE  /\ Grows /\ Turns /\ LateInv' /\ Settled' = Settled
           /\ Kept' = job[p].cand.v \cup Settled /\ head' \in Bytes
  <1>1. job[p].cand \in Bytes /\ job[p].cand \in Coming
    BY IInvFacts DEF JobShape, Coming
  <1>2. Settled' = Settled
    BY DEF Settled
  <1>3. Kept' = job[p].cand.v \cup Settled
    BY <1>1, <1>2, NoneAssumption DEF Kept, Edited
  <1>4. Grows
    BY <1>2, <1>3, IInvFacts DEF Grows, Kept, PushInv
  <1>5. Turns
    BY <1>1, IInvFacts DEF Turns, OnceInv, MarkInv
  <1>6. LateInv'
    BY <1>1, IInvFacts DEF LateInv, OnceInv
  <1> QED BY <1>1, <1>2, <1>3, <1>4, <1>5, <1>6

LEMMA OnceMove ==
    ASSUME IInv, NEW p \in Proc, Local(p), job[p].at = "push", head' = job[p].cand,
           UNCHANGED late, job'[p].at # "push",
           {job'[p].seen, sess'[p].tag} \subseteq Marks(p) \cup {head'},
           job'[p].at = "commit" => job'[p].cand = head',
           cache'[D(p)] # NoEntry => cache'[D(p)].tag \in Marks(p) \cup {head'}
    PROVE  OnceInv'
  <1>1. /\ D(p)' = D(p) /\ Shape /\ OnceInv
        /\ \A q \in Proc : job'[q].at = "push" => q # p /\ job'[q] = job[q]
    BY IInvFacts DEF Local, D
  <1>2. Coming' \subseteq Coming /\ head' \notin Coming'
    BY <1>1 DEF Coming, OnceInv
  <1>3. MarkInv(p)' /\ (cache[D(p)] # NoEntry => cache[D(p)].tag \notin Coming)'
    BY <1>1, <1>2, MarksFacts DEF MarkInv
  <1>4. /\ (\A q \in Proc : MarkInv(q))'
        /\ (\A d \in Device : cache[d] # NoEntry => cache[d].tag \notin Coming)'
    <2> DEFINE S == {}
    <2>1. Coming' \subseteq Coming \cup S /\ S \cap InUse = {}
      BY <1>2
    <2> HIDE DEF S
    <2> QED BY <1>1, <1>3, <2>1, MarksFrame
  <1>5. late' # NoEntry => late'.seen \notin Coming'
    BY <1>1, <1>2 DEF OnceInv
  <1>6. /\ \A q, r \in Proc : job'[q].at = "push" /\ job'[r].at = "push"
              /\ job'[q].cand = job'[r].cand => q = r
        /\ \A q \in Proc : job'[q].at = "push" /\ late' # NoEntry => job'[q].cand # late'.cand
    BY <1>1 DEF OnceInv
  <1> QED BY <1>2, <1>4, <1>5, <1>6 DEF OnceInv

\* A request whose answer is lost and that may still arrive.
LEMMA OnceLate ==
    ASSUME IInv, NEW p \in Proc, Local(p), job[p].at = "push", UNCHANGED <<head, sess, cache>>,
           late = NoEntry, late' = [cand |-> job[p].cand, seen |-> job[p].seen],
           job'[p].at \notin {"push", "commit"}, job'[p].seen \in Marks(p)
    PROVE  OnceInv' /\ late' # NoEntry
  <1>1. /\ D(p)' = D(p) /\ Shape /\ OnceInv
        /\ \A q \in Proc : job'[q].at = "push" => q # p /\ job'[q] = job[q]
    BY IInvFacts DEF Local, D
  <1>2. late'.cand = job[p].cand /\ late'.seen = job[p].seen
    OBVIOUS
  <1>3. Coming' \subseteq Coming
    BY <1>1, <1>2 DEF Coming
  <1>4. MarkInv(p)' /\ (cache[D(p)] # NoEntry => cache[D(p)].tag \notin Coming)'
    BY <1>1, <1>3, MarksFacts DEF MarkInv, Marks
  <1>5. /\ (\A q \in Proc : MarkInv(q))'
        /\ (\A d \in Device : cache[d] # NoEntry => cache[d].tag \notin Coming)'
    <2> DEFINE S == {}
    <2>1. Coming' \subseteq Coming \cup S /\ S \cap InUse = {}
      BY <1>3
    <2> HIDE DEF S
    <2> QED BY <1>1, <1>4, <2>1, MarksFrame
  <1>6. head' \notin Coming' /\ late'.seen \notin Coming'
    BY <1>1, <1>2, <1>3 DEF OnceInv, MarkInv
  <1>7. /\ \A q, r \in Proc : job'[q].at = "push" /\ job'[r].at = "push"
              /\ job'[q].cand = job'[r].cand => q = r
        /\ \A q \in Proc : job'[q].at = "push" => job'[q].cand # late'.cand
    BY <1>1, <1>2 DEF OnceInv
  <1>8. late' # NoEntry
    <2>1. late' \in Request
      BY IInvFacts DEF Request, JobShape
    <2> QED BY <2>1, NoneAssumption
  <1> QED BY <1>5, <1>6, <1>7, <1>8 DEF OnceInv

\* The condition of the request is refused.
LEMMA RefusedStep ==
    ASSUME IInv, NEW p \in Proc, Local(p), Shape', Refused(p),
           job[p].at \in {"push", "readback"},
           UNCHANGED <<site, head, late, gone, copied, cache, receipt, acked, sess>>
    PROVE  IInv'
  <1>1. /\ job[p].cand \in Bytes /\ job[p].for \in {"save", "retry"} /\ sess[p].st = "open"
        /\ job[p].local = sess[p].v /\ job[p].base = BaseOf(p) /\ ~Owned(p, "ConflictCopy")
        /\ job[p].local \subseteq job[p].cand.v \cup Settled
    BY IInvFacts DEF JobShape, WorkInv, PushInv
  <1>2. CASE job[p].n < MaxAttempts
    <2> DEFINE j == [NoJob EXCEPT !.at = "state", !.for = job[p].for,
                       !.n = job[p].n + 1, !.base = job[p].base, !.local = job[p].local]
    <2>1. job' = [job EXCEPT ![p] = j]
      BY <1>2 DEF Refused, GoTo
    <2>2. /\ j.at = "state" /\ j.for = job[p].for /\ j.base = job[p].base
          /\ j.local = job[p].local /\ j.seen = NoBytes
      BY DEF NoJob
    <2> HIDE DEF j
    <2>3. job'[p] = j
      BY <2>1, IInvFacts DEF TypeOK
    <2>4. /\ Current(sess[p].tag, sess[p].b)' /\ BaseOf(p)' = BaseOf(p)
          /\ Owned(p, "ConflictCopy")' = Owned(p, "ConflictCopy")
      BY SessStays
    <2>5. TagInv(p)' /\ PushInv(p)' /\ CopyInv(p)' /\ WorkInv(p)'
      BY <1>1, <2>2, <2>3, <2>4 DEF TagInv, PushInv, CopyInv, WorkInv
    <2>6. job'[p].seen \in Marks(p) /\ job'[p].at \notin {"push", "commit"}
      BY <2>2, <2>3 DEF Marks
    <2> QED BY <2>5, <2>6, CallStep
  <1>3. CASE ~(job[p].n < MaxAttempts)
    <2> DEFINE v == job[p].cand.v
    <2>1. /\ v \in SUBSET Edit /\ NoBytes \in MaybeBytes /\ GoToCopy(p, v, NoBytes)
          /\ sess[p].v \subseteq v \cup Settled
      BY <1>1, <1>3, IInvFacts, RangeFacts DEF Refused, MaybeBytes
    <2> HIDE DEF v
    <2> QED BY <1>1, <2>1, CopyStep
  <1> QED BY <1>2, <1>3

\* The rebased vault is kept as a pending save.
LEMMA PersistCandStep ==
    ASSUME IInv, NEW p \in Proc, Local(p), Shape',
           PersistPending(p, job[p].cand, "Generic", job[p].rem),
           job[p].at \in {"push", "readback"},
           UNCHANGED <<site, head, late, gone, receipt, copied>>
    PROVE  IInv'
  <1>1. /\ job[p].cand \in Bytes /\ job[p].rem \in Bytes /\ sess[p].st = "open"
        /\ job[p].local = sess[p].v
        /\ job[p].local \subseteq job[p].cand.v \cup Settled
        /\ job[p].rem.v \subseteq job[p].cand.v \cup Settled /\ Known(job[p].rem)
    BY IInvFacts DEF JobShape, WorkInv, PushInv
  <1>2. cache[D(p)] # NoEntry
    BY <1>1, IInvFacts DEF SessShape
  <1>3. ASSUME AcceptsPending(D(p), sess[p].b, "Generic")
        PROVE  Pending(D(p)) \subseteq job[p].cand.v \cup Kept
    <2>1. IsPending(D(p)) => OwnsPending(p)
      BY <1>2, <1>3 DEF AcceptsPending, OwnsPending
    <2>2. Settled \subseteq Kept
      BY DEF Kept
    <2> QED BY <1>1, <2>1, <2>2, IInvFacts DEF SessInv, Pending
  <1> DEFINE b == job[p].cand
             obs == job[p].rem
  <1>4. /\ b \in Bytes /\ obs \in MaybeBytes /\ PersistPending(p, b, "Generic", obs)
        /\ AcceptsPending(D(p), sess[p].b, "Generic") =>
             /\ Pending(D(p)) \subseteq b.v \cup Kept
             /\ Known(obs) /\ obs.v \subseteq b.v \cup Settled
    BY <1>1, <1>3 DEF MaybeBytes
  <1> HIDE DEF b, obs
  <1> QED BY <1>4, PersistStep

\* The bytes are known to have become the head, then or before.
LEMMA CommitStarts ==
    ASSUME NEW p \in Proc, job'[p].at = "commit", job'[p].for = "save",
           job'[p].cand = job[p].cand, Edited(job[p].cand) \subseteq Kept',
           Current(sess[p].tag, sess[p].b)'
    PROVE  TagInv(p)' /\ PushInv(p)' /\ WorkInv(p)' /\ CopyInv(p)'
  BY DEF TagInv, PushInv, WorkInv, CopyInv, Known

LEMMA PushKeeps ==
    ASSUME IInv, NEW p \in Proc, Push(p), Local(p), Shape'
    PROVE  IInv'
  <1>1. /\ UNCHANGED <<site, late, copied, receipt, gone>>
        /\ job[p].at = "push" /\ job[p].for = "save" /\ job[p].cand \in Bytes
    BY IInvFacts DEF Push, JobShape
  <1>2. CASE /\ head = job[p].seen /\ head' = job[p].cand
             /\ GoToCommit(p) /\ UNCHANGED <<cache, sess, acked>>
    <2>1. /\ Grows /\ Turns /\ LateInv' /\ Kept' = job[p].cand.v \cup Settled
      BY <1>1, <1>2, HeadMoves
    <2>2. /\ job'[p].at = "commit" /\ job'[p].for = "save"
          /\ job'[p].cand = job[p].cand /\ job'[p].seen = NoBytes
      BY <1>1, <1>2, IInvFacts, GoToCommitFacts
    <2>3. Current(sess[p].tag, sess[p].b)' /\ D(p)' = D(p)
      BY <1>1, <1>2, <2>1, SessFrame
    <2>4. TagInv(p)' /\ PushInv(p)' /\ WorkInv(p)' /\ CopyInv(p)'
      BY <1>1, <2>1, <2>2, <2>3, CommitStarts, NoneAssumption DEF Edited
    <2>5. OnceInv'
      BY <1>1, <1>2, <2>2, <2>3, OnceMove DEF Marks
    <2> QED BY <1>1, <1>2, <2>1, <2>4, <2>5, SourceStep
  <1>3. CASE head # job[p].seen /\ Refused(p) /\ UNCHANGED <<head, cache, sess, acked>>
    BY <1>1, <1>3, RefusedStep
  <1>4. CASE PersistPending(p, job[p].cand, "Generic", job[p].rem) /\ UNCHANGED head
    BY <1>1, <1>4, PersistCandStep
  <1> QED BY <1>2, <1>3, <1>4 DEF Push

\* A call that hangs has no part in the invariant but its session.
LEMMA HungStays ==
    ASSUME NEW p \in Proc, job'[p] = Hung
    PROVE  TagInv(p)' <=> Current(sess[p].tag, sess[p].b)'
  BY HungFacts DEF TagInv

LEMMA HungParts ==
    ASSUME NEW p \in Proc, job'[p] = Hung
    PROVE  PushInv(p)' /\ WorkInv(p)' /\ CopyInv(p)'
  BY HungFacts DEF PushInv, WorkInv, CopyInv

\* Nobody knows what became of the request.
LEMMA UnansweredStep ==
    ASSUME IInv, NEW p \in Proc, job[p].at = "push", Unanswered(p), Local(p), Shape',
           UNCHANGED <<site, copied, receipt, gone, sess, cache, acked>>,
           job'[p].at \notin {"push", "commit"}, job'[p].seen \in Marks(p),
           (Grows /\ Turns) => (TagInv(p)' /\ CopyInv(p)' /\ WorkInv(p)' /\ PushInv(p)')
    PROVE  IInv'
  <1>1. job[p].cand \in Bytes
    BY IInvFacts DEF JobShape
  <1>2. ASSUME Grows, Turns, OnceInv', LateInv' PROVE IInv'
    BY <1>2, SourceStep
  <1>3. CASE head = job[p].seen /\ head' = job[p].cand /\ UNCHANGED late
    <2>1. Grows /\ Turns /\ LateInv'
      BY <1>1, <1>3, HeadMoves
    <2>2. D(p)' = D(p)
      BY DEF D
    <2>3. OnceInv'
      BY <1>1, <1>3, <2>2, OnceMove DEF Marks
    <2> QED BY <1>2, <2>1, <2>3
  <1>4. CASE UNCHANGED <<head, late>>
    <2>1. Grows /\ Turns /\ LateInv'
      BY <1>4, QuietFacts DEF IInv
    <2>2. D(p)' = D(p)
      BY DEF D
    <2>3. Remembers(p)
      BY <2>2 DEF Remembers, Marks
    <2>4. OnceInv'
      BY <1>4, <2>3, IInvFacts, OnceQuiet
    <2> QED BY <1>2, <2>1, <2>4
  <1>5. CASE /\ late = NoEntry /\ UNCHANGED head
             /\ late' = [cand |-> job[p].cand, seen |-> job[p].seen]
    <2>1. Grows /\ Turns
      BY <1>5 DEF Grows, Turns, Kept, Settled, Edited
    <2>2. OnceInv'
      BY <1>5, OnceLate
    <2>3. LateInv'
      BY <1>1, <1>5, IInvFacts DEF LateInv, PushInv, Edited, Settled
    <2> QED BY <1>2, <2>1, <2>2, <2>3
  <1> QED BY <1>3, <1>4, <1>5 DEF Unanswered

LEMMA PushUnknownKeeps ==
    ASSUME IInv, NEW p \in Proc, PushUnknown(p), Local(p), Shape'
    PROVE  IInv'
  <1>1. /\ UNCHANGED <<site, copied, receipt, gone, sess, cache, acked>>
        /\ job[p].at = "push" /\ job[p].cand \in Bytes /\ Unanswered(p)
    BY IInvFacts DEF PushUnknown, JobShape
  <1>2. \/ job'[p] = NoJob
        \/ /\ job'[p].at = "readback" /\ job'[p].for = job[p].for
           /\ job'[p].seen = job[p].seen /\ job'[p].base = job[p].base
           /\ job'[p].local = job[p].local /\ job'[p].rem = job[p].rem
           /\ job'[p].cand = job[p].cand
    <2>1. CASE job[p].for = "save"
      <3>1. job' = [job EXCEPT ![p] = [job[p] EXCEPT !.at = "readback"]]
        BY <2>1 DEF PushUnknown, GoTo
      <3> QED BY <3>1, IInvFacts, RangeFacts DEF TypeOK, Job
    <2>2. CASE job[p].for # "save"
      BY <2>2, IInvFacts, FinishFacts DEF PushUnknown
    <2> QED BY <2>1, <2>2
  <1>3. job'[p].at \notin {"push", "commit"} /\ job'[p].seen \in Marks(p)
    BY <1>2 DEF NoJob, Marks
  <1>4. ASSUME Grows, Turns PROVE TagInv(p)' /\ CopyInv(p)' /\ WorkInv(p)' /\ PushInv(p)'
    <2>1. /\ Current(sess[p].tag, sess[p].b)' /\ BaseOf(p)' = BaseOf(p)
          /\ Owned(p, "ConflictCopy")' = Owned(p, "ConflictCopy")
      BY <1>1, <1>4, SessFrame
    <2>2. Settled \subseteq Settled' /\ Kept \subseteq Kept'
      BY <1>4, SettledGrows
    <2>3. TagInv(p)' /\ CopyInv(p)' /\ WorkInv(p)'
      <3>1. job[p].for \in {"save", "retry"}
        BY <1>1, IInvFacts DEF JobShape
      <3>2. CASE job'[p] = NoJob
        BY <2>1, <3>2 DEF TagInv, CopyInv, WorkInv, NoJob
      <3>3. CASE /\ job'[p].at = "readback" /\ job'[p].for = job[p].for
                 /\ job'[p].base = job[p].base /\ job'[p].local = job[p].local
        BY <1>1, <2>1, <3>1, <3>3, IInvFacts DEF TagInv, CopyInv, WorkInv
      <3> QED BY <1>2, <3>2, <3>3
    <2>4. PushInv(p)'
      BY <1>1, <1>2, <2>2, IInvFacts DEF PushInv, Known, NoJob
    <2> QED BY <2>3, <2>4
  <1> QED BY <1>1, <1>3, <1>4, UnansweredStep

LEMMA StallKeeps ==
    ASSUME IInv, NEW p \in Proc, Stall(p), Local(p), Shape'
    PROVE  IInv'
  <1>1. /\ UNCHANGED <<site, receipt, gone, sess, cache, acked>> /\ copied \subseteq copied'
        /\ (job[p].at = "push" => Unanswered(p) /\ copied' = copied)
        /\ (job[p].at # "push" => UNCHANGED <<head, late>>)
    BY DEF Stall
  <1>2. job'[p] = Hung
    BY IInvFacts, HungFacts, GoToFacts DEF Stall
  <1>3. job'[p].at \notin {"push", "commit"} /\ job'[p].seen \in Marks(p)
    BY <1>2, HungFacts DEF Marks
  <1>4. CASE job[p].at = "push"
    <2>1. ASSUME Grows, Turns PROVE TagInv(p)'
      <3>1. Current(sess[p].tag, sess[p].b)'
        BY <1>1, <2>1, SessFrame
      <3> QED BY <1>2, <3>1, HungStays
    <2> QED BY <1>1, <1>2, <1>3, <1>4, <2>1, HungParts, UnansweredStep
  <1>5. CASE job[p].at # "push"
    <2>1. SessInv(p)' /\ Current(sess[p].tag, sess[p].b)'
      BY <1>1, <1>5, SessStays
    <2>2. ProcInv(p)'
      BY <1>2, <2>1, HungStays, HungParts DEF ProcInv
    <2>3. DevInv(D(p))' /\ Accounts(p)
      BY <1>1, <1>5, SameDevice
    <2>4. Remembers(p)
      BY <1>1, <1>3 DEF Remembers, Marks, D
    <2> QED BY <1>1, <1>3, <1>5, <2>2, <2>3, <2>4, QuietStep
  <1> QED BY <1>4, <1>5

LEMMA ReadbackKeeps ==
    ASSUME IInv, NEW p \in Proc, Readback(p), Local(p), Shape'
    PROVE  IInv'
  <1>1. /\ UNCHANGED <<site, head, late, copied, receipt, gone>>
        /\ job[p].at = "readback" /\ job[p].for = "save"
    BY IInvFacts DEF Readback, remote, JobShape
  <1>2. CASE PersistPending(p, job[p].cand, "Generic", job[p].rem)
    BY <1>1, <1>2, PersistCandStep
  <1>3. CASE head = job[p].cand /\ GoToCommit(p) /\ UNCHANGED <<cache, sess, acked>>
    <2>1. /\ job'[p].at = "commit" /\ job'[p].for = "save"
          /\ job'[p].cand = job[p].cand /\ job'[p].seen = NoBytes
      BY <1>1, <1>3, IInvFacts, GoToCommitFacts
    <2>2. Current(sess[p].tag, sess[p].b)' /\ D(p)' = D(p)
      BY <1>1, <1>3, SessStays
    <2>3. Edited(job[p].cand) \subseteq Kept'
      BY <1>1, <1>3 DEF Kept, Edited
    <2>4. TagInv(p)' /\ PushInv(p)' /\ WorkInv(p)' /\ CopyInv(p)'
      BY <2>1, <2>2, <2>3, CommitStarts
    <2>5. Remembers(p)
      BY <1>3, <2>1, <2>2 DEF Remembers, Marks
    <2>6. OnceInv'
      BY <1>1, <2>1, <2>5, IInvFacts, OnceQuiet
    <2>7. Grows /\ Turns /\ LateInv'
      BY <1>1, QuietFacts DEF IInv
    <2> QED BY <1>1, <1>3, <2>4, <2>6, <2>7, SourceStep
  <1>4. CASE Refused(p) /\ UNCHANGED <<cache, sess, acked>>
    BY <1>1, <1>4, RefusedStep
  <1> QED BY <1>2, <1>3, <1>4 DEF Readback

-----------------------------------------------------------------------------
(* Calls that end with a committed copy of the source. *)

LEMMA DeviceStays ==
    ASSUME IInv, NEW p \in Proc, Grows, Turns, UNCHANGED <<site, cache, receipt>>
    PROVE  DevInv(D(p))' /\ Pending(D(p))' = Pending(D(p)) /\ IsPending(D(p))' = IsPending(D(p))
  <1>1. D(p)' = D(p) /\ D(p) \in Device
    BY IInvFacts DEF D
  <1>2. ASSUME NEW d \in Device, d = D(p) PROVE DevInv(d)'
    <2>1. DevInv(d) /\ cache'[d] = cache[d] /\ receipt'[d] = receipt[d]
      BY DEF IInv
    <2> QED BY <2>1, DevFrame
  <1>3. IsPending(D(p))' = IsPending(D(p)) /\ Pending(D(p))' = Pending(D(p))
    BY <1>1 DEF Pending, IsPending
  <1> QED BY <1>1, <1>2, <1>3 DEF DevInv, CacheInv, ReceiptInv

\* The cache gets the copy if the slot takes it, and the session moves to it.
LEMMA CleanStep ==
    ASSUME IInv, NEW p \in Proc, Local(p), Shape', Grows, Turns, OnceInv', LateInv',
           site' = site, receipt' = receipt, job'[p] = NoJob,
           NEW b \in Bytes, NEW tag \in MaybeBytes,
           b.v \subseteq Kept', tag # NoBytes /\ tag = head' => b = head',
           acked' \subseteq acked \cup Kept',
           \/ /\ cache' = [cache EXCEPT ![D(p)] = Slot(b, "Clean", NoBytes, tag)]
              /\ Pending(D(p)) \subseteq Kept'
           \/ cache' = cache,
           sess'[p].b = b, sess'[p].tag = tag,
           sess'[p].st = "open" => b.v \subseteq sess'[p].v \cup Settled'
    PROVE  IInv'
  <1>1. /\ D(p)' = D(p) /\ D(p) \in Device /\ TypeOK
        /\ Settled \subseteq Settled' /\ Kept \subseteq Kept'
    BY IInvFacts, SettledGrows DEF D
  <1>2. b # NoBytes /\ Edited(b) = b.v /\ Settled' \subseteq Kept'
    BY NoneAssumption DEF Edited, Kept
  <1>3. CASE /\ cache' = [cache EXCEPT ![D(p)] = Slot(b, "Clean", NoBytes, tag)]
             /\ Pending(D(p)) \subseteq Kept'
    <2>1. cache'[D(p)] # NoEntry /\ cache'[D(p)].b = b /\ cache'[D(p)].kind = "Clean"
          /\ cache'[D(p)].tag = tag
      <3> DEFINE c == Slot(b, "Clean", NoBytes, tag)
      <3>1. /\ c \in Entry /\ c # NoEntry /\ c.b = b /\ c.kind = "Clean" /\ c.tag = tag
        <4>1. NoBytes \in MaybeBytes
          BY DEF MaybeBytes
        <4> QED BY ONLY <4>1, b \in Bytes, tag \in MaybeBytes, SlotFacts
      <3> HIDE DEF c
      <3>2. cache' = [cache EXCEPT ![D(p)] = c]
        BY <1>3 DEF c
      <3> QED BY <1>1, <3>1, <3>2, CacheFacts
    <2>2. ~IsPending(D(p))' /\ ~OwnsPending(p)' /\ Pending(D(p))' = {}
      BY <1>1, <2>1 DEF IsPending, OwnsPending, Pending
    <2>3. DevInv(D(p))'
      <3>1. CacheInv(D(p))'
        BY <1>1, <1>2, <2>1 DEF CacheInv, Known, Current
      <3>2. ReceiptInv(D(p))'
        BY <1>1, IInvFacts DEF ReceiptInv, Grows
      <3> QED BY <3>1, <3>2 DEF DevInv
    <2>4. SessInv(p)' /\ Current(sess[p].tag, sess[p].b)'
      BY <1>2, <2>2 DEF SessInv, Known, Owned, Current
    <2>5. ProcInv(p)'
      BY <2>4, EndedFacts
    <2>6. AckedEditsSurvive'
      BY <1>3, <2>2, AckedFrame, IInvFacts DEF IInv
    <2> QED BY <2>3, <2>5, <2>6, StepFrame
  <1>4. CASE cache' = cache
    <2>1. DevInv(D(p))' /\ Pending(D(p))' = Pending(D(p)) /\ IsPending(D(p))' = IsPending(D(p))
      BY <1>4, DeviceStays
    <2>2. ASSUME OwnsPending(p)'
          PROVE  cache[D(p)].b = b /\ cache[D(p)] # NoEntry
      BY <1>1, <1>4, <2>2 DEF OwnsPending, IsPending
    <2>3. OwnsPending(p)' /\ cache[D(p)].kind = "Generic" =>
              cache[D(p)].obs.v \subseteq b.v \cup Settled
      BY <2>2, IInvFacts DEF CacheInv
    <2>4. SessInv(p)' /\ Current(sess[p].tag, sess[p].b)'
      BY <1>1, <1>2, <1>4, <2>2, <2>3 DEF SessInv, Known, Owned, Current
    <2>5. ProcInv(p)'
      BY <2>4, EndedFacts
    <2>6. AckedEditsSurvive'
      BY <2>1, AckedFrame, IInvFacts DEF IInv
    <2> QED BY <2>1, <2>5, <2>6, StepFrame
  <1> QED BY <1>3, <1>4

LEMMA CommitKeeps ==
    ASSUME IInv, NEW p \in Proc, Commit(p), Local(p), Shape'
    PROVE  IInv'
  <1>1. /\ UNCHANGED <<site, head, late, copied, receipt, gone>> /\ D(p)' = D(p)
        /\ job[p].at = "commit" /\ job[p].cand \in Bytes /\ Known(job[p].cand)
        /\ acked' = acked \cup job[p].cand.v
    BY IInvFacts DEF Commit, remote, JobShape, WorkInv, D
  <1>2. PICK tag \in {job[p].cand, NoBytes} :
          /\ sess' = [sess EXCEPT ![p] = OpenAt(job[p].cand, tag)]
          /\ WritesClean(p, job[p].cand, tag) \/ UNCHANGED cache
    BY DEF Commit, MissesClean
  <1>3. tag \in MaybeBytes /\ job'[p] = NoJob
    BY <1>1, IInvFacts, FinishFacts DEF Commit, MaybeBytes
  <1>4. Grows /\ Turns /\ LateInv' /\ Kept \subseteq Kept'
    BY <1>1, QuietFacts DEF IInv
  <1>5. job[p].cand.v \subseteq Kept'
    BY <1>1, <1>4, NoneAssumption DEF Known, Edited
  <1> DEFINE b == job[p].cand
             s == OpenAt(b, tag)
  <1>6. b \in Bytes /\ s \in Session /\ s.st = "open" /\ s.v = b.v /\ s.b = b /\ s.tag = tag
    <2>1. b \in Bytes
      BY <1>1
    <2> HIDE DEF b
    <2> QED BY <1>3, <2>1, OpenAtFacts
  <1>7. /\ b.v \subseteq Kept' /\ (tag # NoBytes /\ tag = head' => b = head')
        /\ acked' \subseteq acked \cup Kept'
    BY <1>1, <1>2, <1>5
  <1>8. /\ sess' = [sess EXCEPT ![p] = s]
        /\ \/ cache' = [cache EXCEPT ![D(p)] = Slot(b, "Clean", NoBytes, tag)] /\ ~IsPending(D(p))
           \/ cache' = cache
    BY <1>2 DEF WritesClean
  <1>9. b \in Marks(p) /\ tag \in Marks(p)
    BY <1>1, <1>2 DEF Marks
  <1> HIDE DEF b, s
  <1>10. sess'[p].st = "open" /\ sess'[p].v = b.v /\ sess'[p].b = b /\ sess'[p].tag = tag
    BY <1>6, <1>8, IInvFacts DEF TypeOK
  <1>11. cache'[D(p)] # NoEntry => cache'[D(p)].tag \in Marks(p)
    <2>1. CASE cache' = cache
      BY <2>1 DEF Marks
    <2>2. CASE cache' = [cache EXCEPT ![D(p)] = Slot(b, "Clean", NoBytes, tag)]
      BY <1>9, <2>2, IInvFacts DEF TypeOK, Slot
    <2> QED BY <1>8, <2>1, <2>2
  <1>12. OnceInv'
    <2>1. Remembers(p) /\ job'[p].at # "push"
      BY <1>1, <1>3, <1>9, <1>10, <1>11 DEF Remembers, NoJob, Marks
    <2> QED BY <1>1, <2>1, OnceQuiet, IInvFacts
  <1>13. ~IsPending(D(p)) => Pending(D(p)) \subseteq Kept'
    BY DEF Pending
  <1> QED BY <1>1, <1>3, <1>4, <1>6, <1>7, <1>8, <1>10, <1>12, <1>13, CleanStep

LEMMA InstallKeeps ==
    ASSUME IInv, NEW p \in Proc, Install(p), Local(p), Shape'
    PROVE  IInv'
  <1>1. /\ UNCHANGED <<site, head, late, copied, receipt, gone, acked>> /\ D(p)' = D(p)
        /\ job[p].at = "install" /\ job[p].rem \in Bytes /\ Known(job[p].rem)
        /\ sess[p].st = "open" => job[p].rem.v \subseteq job[p].local \cup Settled
        /\ Current(job[p].seen, job[p].rem)
    BY IInvFacts DEF Install, remote, JobShape, WorkInv, TagInv, D
  <1>2. job'[p] = NoJob /\ job[p].seen \in MaybeBytes /\ sess[p] \in Session
    BY IInvFacts, FinishFacts, RangeFacts DEF Install
  <1>3. Grows /\ Turns /\ LateInv' /\ Kept \subseteq Kept' /\ Settled \subseteq Settled'
    BY <1>1, QuietFacts DEF IInv
  <1> DEFINE b == job[p].rem
             tag == job[p].seen
             s == OpenAt(b, tag)
             new == IF sess[p].st = "open" THEN [s EXCEPT !.v = job[p].local]
                                           ELSE [s EXCEPT !.st = "locked", !.v = {}]
  <1>4. /\ new.b = b /\ new.tag = tag
        /\ new.st = "open" => sess[p].st = "open" /\ new.v = job[p].local
    BY DEF OpenAt
  <1>5. \/ /\ cache' = [cache EXCEPT ![D(p)] = Slot(b, "Clean", NoBytes, tag)] /\ ~IsPending(D(p))
           /\ sess' = [sess EXCEPT ![p] = new]
        \/ cache' = cache /\ sess' = [sess EXCEPT ![p] = new]
        \/ cache' = cache /\ sess' = sess
    BY DEF Install, WritesClean, MissesClean
  <1>6. /\ b \in Bytes /\ tag \in MaybeBytes /\ tag \in Marks(p) /\ b.v \subseteq Kept'
        /\ tag # NoBytes /\ tag = head' => b = head'
        /\ sess[p].st = "open" => b.v \subseteq job[p].local \cup Settled'
    BY <1>1, <1>2, <1>3, NoneAssumption DEF Known, Edited, Current, Marks
  <1> HIDE DEF b, tag, s, new
  <1>7. CASE cache' = cache /\ sess' = sess
    BY <1>1, <1>7, FinishStep DEF Install
  <1>8. CASE /\ sess' = [sess EXCEPT ![p] = new]
             /\ \/ /\ cache' = [cache EXCEPT ![D(p)] = Slot(b, "Clean", NoBytes, tag)]
                   /\ ~IsPending(D(p))
                \/ cache' = cache
    <2>1. sess'[p] = new
      BY <1>8, IInvFacts DEF TypeOK
    <2>2. cache'[D(p)] # NoEntry => cache'[D(p)].tag \in Marks(p)
      <3>1. CASE cache' = cache
        BY <3>1 DEF Marks
      <3>2. CASE cache' = [cache EXCEPT ![D(p)] = Slot(b, "Clean", NoBytes, tag)]
        BY <1>6, <3>2, IInvFacts DEF TypeOK, Slot
      <3> QED BY <1>8, <3>1, <3>2
    <2>3. OnceInv'
      <3>1. Remembers(p) /\ job'[p].at # "push"
        BY <1>1, <1>2, <1>4, <1>6, <2>1, <2>2 DEF Remembers, NoJob, Marks
      <3> QED BY <1>1, <3>1, OnceQuiet, IInvFacts
    <2>4. ~IsPending(D(p)) => Pending(D(p)) \subseteq Kept'
      BY DEF Pending
    <2>5. sess'[p].st = "open" => b.v \subseteq sess'[p].v \cup Settled'
      BY <1>4, <1>6, <2>1
    <2> QED BY <1>1, <1>2, <1>3, <1>4, <1>6, <1>8, <2>1, <2>3, <2>4, <2>5, CleanStep
  <1> QED BY <1>5, <1>7, <1>8

LEMMA PushPendingKeeps ==
    ASSUME IInv, NEW p \in Proc, PushPending(p), Local(p), Shape'
    PROVE  IInv'
  <1>1. /\ UNCHANGED <<site, late, gone, copied, receipt, acked>> /\ D(p)' = D(p)
        /\ job[p].at = "push" /\ job[p].for = "retry" /\ job[p].cand \in Bytes
    BY IInvFacts DEF PushPending, JobShape, D
  <1>2. CASE Finish(p) /\ UNCHANGED <<head, cache, sess>>
    BY <1>1, <1>2, FinishStep
  <1>3. CASE Refused(p) /\ UNCHANGED <<head, cache, sess>>
    BY <1>1, <1>3, RefusedStep
  <1>4. ASSUME OwnsPending(p), head = job[p].seen, head' = job[p].cand, Finish(p),
               \/ /\ cache' = [cache EXCEPT ![D(p)] = Slot(head', "Clean", NoBytes, head')]
                  /\ sess' = [sess EXCEPT ![p] = OpenAt(head', head')]
               \/ UNCHANGED <<cache, sess>>
        PROVE  IInv'
    <2>1. job'[p] = NoJob
      BY <1>4, IInvFacts, FinishFacts
    <2>2. /\ Grows /\ Turns /\ LateInv' /\ Settled' = Settled
          /\ Kept' = job[p].cand.v \cup Settled /\ head' \in Bytes
      BY <1>1, <1>4, HeadMoves
    <2>3. CASE UNCHANGED <<cache, sess>>
      <3>1. Current(sess[p].tag, sess[p].b)' /\ SessInv(p)'
        BY <1>1, <2>2, <2>3, SessFrame
      <3>2. TagInv(p)' /\ PushInv(p)' /\ WorkInv(p)' /\ CopyInv(p)'
        BY <2>1, <3>1, EndedFacts DEF ProcInv
      <3>3. OnceInv'
        BY <1>1, <1>4, <2>1, <2>3, OnceMove DEF NoJob, Marks
      <3> QED BY <1>1, <2>2, <2>3, <3>2, <3>3, SourceStep
    <2>4. CASE /\ cache' = [cache EXCEPT ![D(p)] = Slot(head', "Clean", NoBytes, head')]
               /\ sess' = [sess EXCEPT ![p] = OpenAt(head', head')]
      <3> DEFINE b == job[p].cand
                 s == OpenAt(b, b)
      <3>1. b \in Bytes /\ b \in MaybeBytes /\ head' = b
        BY <1>1, <1>4 DEF MaybeBytes
      <3>2. s.st = "open" /\ s.v = b.v /\ s.b = b /\ s.tag = b
        BY DEF OpenAt
      <3>3. /\ cache' = [cache EXCEPT ![D(p)] = Slot(b, "Clean", NoBytes, b)]
            /\ sess' = [sess EXCEPT ![p] = s]
        BY <2>4, <3>1
      <3>4. b.v \subseteq Kept'
        BY <2>2
      <3>5. Pending(D(p)) \subseteq Kept'
        <4>1. cache[D(p)].b.v \subseteq sess[p].v \cup Kept
          BY <1>1, <1>4, IInvFacts DEF SessInv, JobShape
        <4>2. sess[p].v \subseteq job[p].cand.v \cup Settled
          BY <1>1, IInvFacts DEF WorkInv, PushInv
        <4> QED BY <2>2, <4>1, <4>2 DEF Pending, Grows
      <3> HIDE DEF b, s
      <3>6. sess'[p] = s
        BY <3>3, IInvFacts DEF TypeOK
      <3>7. cache'[D(p)] # NoEntry => cache'[D(p)].tag = b
        BY <3>3, IInvFacts DEF TypeOK, Slot
      <3>8. OnceInv'
        <4>1. /\ job'[p].at \notin {"push", "commit"} /\ job'[p].seen \in Marks(p)
              /\ {job'[p].seen, sess'[p].tag} \subseteq Marks(p) \cup {head'}
          BY <2>1, <3>1, <3>2, <3>6 DEF NoJob, Marks
        <4>2. cache'[D(p)] # NoEntry => cache'[D(p)].tag \in Marks(p) \cup {head'}
          BY <3>1, <3>7
        <4>3. UNCHANGED late
          BY <1>1
        <4> QED BY <1>1, <1>4, <4>1, <4>2, <4>3, OnceMove
      <3> QED BY <1>1, <2>1, <2>2, <3>1, <3>2, <3>3, <3>4, <3>5, <3>6, <3>8, CleanStep
    <2> QED BY <1>4, <2>3, <2>4
  <1> QED BY <1>2, <1>3, <1>4 DEF PushPending

LEMMA FallbackKeeps ==
    ASSUME IInv, NEW p \in Proc, Fallback(p), Local(p), Shape'
    PROVE  IInv'
  <1>1. /\ UNCHANGED <<site, head, late, copied, receipt, gone, acked>> /\ D(p)' = D(p)
        /\ job[p].at = "fallback" /\ job'[p] = NoJob /\ Finish(p)
    BY IInvFacts, FinishFacts DEF Fallback, remote, D
  <1>2. Grows /\ Turns /\ LateInv' /\ Kept \subseteq Kept' /\ Settled \subseteq Settled'
    BY <1>1, QuietFacts DEF IInv
  <1>3. CASE UNCHANGED <<cache, sess>>
    BY <1>1, <1>3, FinishStep
  <1>4. ASSUME head # NoBytes, OwnsPending(p),
               cache' = [cache EXCEPT ![D(p)] = Slot(head, "Clean", NoBytes, head)],
               sess' = IF head.w = "opaque"
                         THEN [sess EXCEPT ![p].pend = FALSE]
                         ELSE [sess EXCEPT ![p] = OpenAt(head, head)]
        PROVE  IInv'
    <2>1. /\ head \in Bytes /\ head \in MaybeBytes /\ head \in Marks(p)
          /\ head.v \subseteq Kept /\ cache[D(p)].b.v \subseteq Kept
          /\ cache[D(p)].b = sess[p].b /\ cache[D(p)] # NoEntry
      BY <1>1, <1>4, IInvFacts, RangeFacts
         DEF MaybeBytes, Marks, Kept, Edited, CopyInv, OwnsPending, IsPending
    <2>2. Pending(D(p)) \subseteq Kept'
      BY <1>2, <2>1 DEF Pending
    <2>3. /\ cache'[D(p)] # NoEntry /\ cache'[D(p)].b = head
          /\ cache'[D(p)].kind = "Clean" /\ cache'[D(p)].tag = head
      <3> DEFINE c == Slot(head, "Clean", NoBytes, head)
      <3>1. /\ c \in Entry /\ c # NoEntry /\ c.b = head /\ c.kind = "Clean" /\ c.tag = head
        BY <2>1, SlotFacts DEF MaybeBytes
      <3> HIDE DEF c
      <3>2. cache' = [cache EXCEPT ![D(p)] = c]
        BY <1>4 DEF c
      <3> QED BY <3>1, <3>2, IInvFacts, CacheFacts
    <2>4. ASSUME sess'[p].tag \in Marks(p) PROVE OnceInv'
      <3>1. Remembers(p) /\ job'[p].at # "push"
        BY <1>1, <2>1, <2>3, <2>4 DEF Remembers, NoJob, Marks
      <3> QED BY <1>1, <3>1, OnceQuiet, IInvFacts
    <2>5. CASE head.w # "opaque"
      <3> DEFINE s == OpenAt(head, head)
      <3>1. s.st = "open" /\ s.v = head.v /\ s.b = head /\ s.tag = head
        BY DEF OpenAt
      <3>2. sess' = [sess EXCEPT ![p] = s]
        BY <1>4, <2>5
      <3> HIDE DEF s
      <3>3. sess'[p] = s
        BY <3>2, IInvFacts DEF TypeOK
      <3> QED BY <1>1, <1>2, <1>4, <2>1, <2>2, <2>4, <3>1, <3>3, CleanStep
    <2>6. CASE head.w = "opaque"
      <3>1. /\ sess'[p].st = sess[p].st /\ sess'[p].b = sess[p].b /\ sess'[p].v = sess[p].v
            /\ sess'[p].tag = sess[p].tag /\ sess'[p].hasBase = sess[p].hasBase
        BY <1>4, <2>6, IInvFacts, RangeFacts DEF TypeOK, Session
      <3>2. ~IsPending(D(p))' /\ ~OwnsPending(p)' /\ Pending(D(p))' = {}
        BY <1>1, <2>3 DEF IsPending, OwnsPending, Pending
      <3>3. SessInv(p)' /\ Current(sess[p].tag, sess[p].b)'
        <4>1. Edited(sess[p].b) \subseteq Kept'
          BY <1>2, <2>1 DEF Edited
        <4>2. Current(sess[p].tag, sess[p].b)'
          BY <1>1, <3>1, IInvFacts DEF Current, TagInv
        <4>3. Known(sess[p].b)'
          BY <3>1, <4>1 DEF Known, Edited
        <4>4. sess'[p].st = "open" /\ sess'[p].hasBase 
                    => sess'[p].b.v \subseteq sess'[p].v \cup Settled'
          BY <1>2, <3>1, IInvFacts DEF SessInv
        <4> QED BY <3>2, <4>2, <4>3, <4>4 DEF SessInv, Owned
      <3>4. ProcInv(p)'
        BY <1>1, <3>3, EndedFacts
      <3>5. DevInv(D(p))'
        <4>1. CacheInv(D(p))'
          BY <1>1, <1>2, <2>1, <2>3 DEF CacheInv, Known, Current, Edited
        <4>2. ReceiptInv(D(p))'
          BY <1>1, IInvFacts DEF ReceiptInv
        <4> QED BY <4>1, <4>2 DEF DevInv
      <3>6. AckedEditsSurvive'
        BY <1>1, <1>2, <2>2, AckedFrame, IInvFacts DEF IInv
      <3>7. OnceInv'
        BY <2>4, <3>1 DEF Marks
      <3> QED BY <1>2, <3>4, <3>5, <3>6, <3>7, StepFrame
    <2> QED BY <2>5, <2>6
  <1> QED BY <1>3, <1>4 DEF Fallback

-----------------------------------------------------------------------------
(* Conflict copies. *)

LEMMA CopyDoneStep ==
    ASSUME IInv, NEW p \in Proc, Local(p), Shape', CopyDone(p), job[p].at \in {"copy", "upload"},
           UNCHANGED <<site, head, late, gone, cache>>, copied \subseteq copied',
           job[p].local \subseteq copied', ReceiptInv(D(p))'
    PROVE  IInv'
  <1>1. CopyIsDone(p)
    BY IInvFacts, CopyDoneFacts
  <1>2. /\ Grows /\ Turns /\ LateInv' /\ Kept \subseteq Kept' /\ Settled \subseteq Settled'
        /\ D(p)' = D(p) /\ D(p) \in Device
    BY QuietFacts, IInvFacts DEF IInv, D
  <1>3. job[p].local \subseteq Settled' /\ Settled' \subseteq Kept'
    BY DEF Settled, Kept
  <1>4. /\ IsPending(D(p))' = IsPending(D(p)) /\ OwnsPending(p)' = OwnsPending(p)
        /\ Pending(D(p))' = Pending(D(p)) /\ \A k : Owned(p, k)' = Owned(p, k)
    BY <1>1, <1>2 DEF CopyIsDone, OwnsPending, IsPending, Owned, Pending
  <1>5. Current(sess[p].tag, sess[p].b)'
    BY <1>1, IInvFacts DEF CopyIsDone, TagInv, Current
  <1>6. DevInv(D(p))'
    <2>1. CacheInv(D(p))'
      BY <1>2, IInvFacts DEF CacheInv, Known, Current
    <2> QED BY <2>1 DEF DevInv
  <1>7. SessInv(p)'
    <2>1. /\ sess'[p].st = sess[p].st /\ sess'[p].b = sess[p].b
          /\ sess'[p].hasBase = sess[p].hasBase
      BY <1>1 DEF CopyIsDone
    <2>2. CASE job[p].for = "save" /\ sess'[p].v = job[p].local
      <3>1. /\ sess[p].hasBase => sess[p].b.v \subseteq job[p].local \cup Settled
            /\ OwnsPending(p) => /\ cache[D(p)].b.v \subseteq job[p].local \cup Kept
                                 /\ cache[D(p)].obs.v \subseteq job[p].local \cup Settled
        BY <2>2, IInvFacts DEF CopyInv
      <3>2. /\ sess'[p].hasBase => Known(sess[p].b)' \/ Owned(p, "ConflictCopy")'
        BY <1>2, <1>4, <2>1, IInvFacts DEF SessInv, Known
      <3>3. /\ sess'[p].hasBase => sess'[p].b.v \subseteq sess'[p].v \cup Settled'
            /\ OwnsPending(p)' => cache'[D(p)'].b.v \subseteq sess'[p].v \cup Kept'
            /\ Owned(p, "Generic")' => cache'[D(p)'].obs.v \subseteq sess'[p].v \cup Settled'
        BY <1>2, <1>4, <2>1, <2>2, <3>1 DEF Owned
      <3> QED BY <3>2, <3>3 DEF SessInv
    <2>3. CASE sess'[p].v = sess[p].v
      BY <1>2, <1>4, <2>1, <2>3, IInvFacts DEF SessInv, Known
    <2> QED BY <1>1, <2>2, <2>3 DEF CopyIsDone
  <1>8. ProcInv(p)' /\ job'[p].at \notin {"push", "commit"} /\ job'[p].seen \in Marks(p)
    <2>1. CASE job'[p] = NoJob
      <3>1. ProcInv(p)'
        BY <1>5, <1>7, <2>1, EndedFacts
      <3> QED BY <2>1, <3>1 DEF NoJob, Marks
    <2>2. CASE /\ job[p].for = "refresh" /\ sess' = sess
               /\ job'[p].at = "install" /\ job'[p].for = "refresh"
               /\ job'[p].local = job[p].rem.v /\ job'[p].rem = job[p].rem
               /\ job'[p].seen = job[p].seen
      <3>1. Known(job[p].rem) /\ Current(job[p].seen, job[p].rem) /\ ~IsPending(D(p))
        BY <2>2, IInvFacts DEF CopyInv, TagInv, WorkInv
      <3>2. TagInv(p)' /\ PushInv(p)' /\ CopyInv(p)'
        BY <1>5, <2>2, <3>1 DEF TagInv, PushInv, CopyInv, Current
      <3>3. WorkInv(p)'
        BY <1>2, <1>4, <2>2, <3>1 DEF WorkInv, Known
      <3> QED BY <1>7, <2>2, <3>2, <3>3 DEF ProcInv, Marks
    <2>3. CASE /\ job[p].for = "retry" /\ job'[p].at = "fallback" /\ job'[p].for = "retry"
               /\ job'[p].seen = NoBytes
      <3>1. OwnsPending(p) => cache[D(p)].b.v \subseteq job[p].local \cup Kept
        BY <2>3, IInvFacts DEF CopyInv
      <3>2. CopyInv(p)'
        BY <1>2, <1>3, <1>4, <2>3, <3>1 DEF CopyInv
      <3>3. TagInv(p)' /\ PushInv(p)' /\ WorkInv(p)'
        BY <1>5, <2>3 DEF TagInv, PushInv, WorkInv
      <3> QED BY <1>7, <2>3, <3>2, <3>3 DEF ProcInv, Marks
    <2> QED BY <1>1, <2>1, <2>2, <2>3 DEF CopyIsDone
  <1>9. Accounts(p)
    BY <1>1, <1>3, <1>4 DEF CopyIsDone, Accounts
  <1>10. Remembers(p)
    BY <1>1, <1>2, <1>8 DEF Remembers, CopyIsDone, Marks
  <1> QED BY <1>6, <1>8, <1>9, <1>10, QuietStep

LEMMA CopyFailedStep ==
    ASSUME IInv, NEW p \in Proc, Local(p), Shape', CopyFailed(p), job[p].at = "upload",
           UNCHANGED <<site, head, late, gone, receipt>>, copied \subseteq copied'
    PROVE  IInv'
  <1>1. CASE job[p].for \in {"save", "refresh"}
    <2>1. PersistPending(p, job[p].cand, "ConflictCopy", NoBytes)
      BY <1>1 DEF CopyFailed, PersistConflictCopy
    <2>2. job[p].cand \in Bytes /\ NoBytes \in MaybeBytes
      BY IInvFacts DEF JobShape, MaybeBytes
    <2>3. sess[p].st # "closed" /\ cache[D(p)] # NoEntry
      BY <1>1, IInvFacts DEF JobShape, SessShape
    <2>4. ASSUME AcceptsPending(D(p), sess[p].b, "ConflictCopy")
          PROVE  Pending(D(p)) \subseteq job[p].cand.v \cup Kept
      <3>1. cache[D(p)].b = sess[p].b /\ cache[D(p)].kind \in {"Clean", "ConflictCopy"}
        BY <2>3, <2>4 DEF AcceptsPending
      <3>2. IsPending(D(p)) => OwnsPending(p) /\ cache[D(p)].kind = "ConflictCopy"
        BY <3>1 DEF IsPending, OwnsPending
      <3>3. ~IsPending(D(p))
        BY <1>1, <3>2, IInvFacts DEF CopyInv, WorkInv
      <3> QED BY <3>3 DEF Pending
    <2> QED BY <2>1, <2>2, <2>4, PersistStep
  <1>2. CASE job[p].for \notin {"save", "refresh"}
    <2>1. /\ sess' = [sess EXCEPT ![p].pend = TRUE] /\ Finish(p) /\ UNCHANGED <<cache, acked>>
      BY <1>2 DEF CopyFailed
    <2>2. job'[p] = NoJob
      BY <2>1, IInvFacts, FinishFacts
    <2>3. /\ sess'[p].st = sess[p].st /\ sess'[p].b = sess[p].b /\ sess'[p].v = sess[p].v
          /\ sess'[p].tag = sess[p].tag /\ sess'[p].hasBase = sess[p].hasBase
      BY <2>1, IInvFacts, StillPendingFacts
    <2>4. /\ D(p)' = D(p) /\ Settled \subseteq Settled' /\ Kept \subseteq Kept'
      BY QuietFacts DEF D
    <2>5. OwnsPending(p)' = OwnsPending(p) /\ \A k : Owned(p, k)' = Owned(p, k)
      BY <2>1, <2>3, <2>4 DEF OwnsPending, IsPending, Owned
    <2>6. SessInv(p)' /\ Current(sess[p].tag, sess[p].b)'
      BY <2>1, <2>3, <2>4, <2>5, IInvFacts DEF SessInv, Known, TagInv, Current
    <2>7. ProcInv(p)'
      BY <2>2, <2>6, EndedFacts
    <2>8. DevInv(D(p))' /\ Accounts(p)
      BY <2>1, SameDevice
    <2>9. Remembers(p) /\ job'[p].at # "push"
      BY <2>1, <2>2, <2>3, <2>4 DEF Remembers, Marks, NoJob
    <2> QED BY <2>7, <2>8, <2>9, QuietStep
  <1> QED BY <1>1, <1>2

LEMMA PublishReceiptKeeps ==
    ASSUME IInv, NEW p \in Proc, PublishReceipt(p), Local(p), Shape'
    PROVE  IInv'
  <1>1. /\ UNCHANGED <<site, head, late, gone, copied, cache>> /\ job[p].at = "copy"
        /\ D(p)' = D(p)
    BY IInvFacts, PublishFacts DEF remote, D
  <1>2. CASE /\ CopyDone(p) /\ receipt' = receipt
             /\ receipt[D(p)] # NoEntry /\ ~receipt[D(p)].pend
             /\ receipt[D(p)].b.v = job[p].local
    <2>1. job[p].local \subseteq copied' /\ ReceiptInv(D(p))'
      BY <1>1, <1>2, IInvFacts DEF ReceiptInv
    <2> QED BY <1>1, <1>2, <2>1, CopyDoneStep
  <1>3. CASE /\ receipt'[D(p)] # NoEntry /\ receipt'[D(p)].pend
             /\ UNCHANGED <<sess, acked>>
             /\ job'[p].at = "upload" /\ job'[p].for = job[p].for
             /\ job'[p].local = job[p].local /\ job'[p].rem = job[p].rem
             /\ job'[p].seen = job[p].seen
    <2>1. /\ SessInv(p)' /\ Current(sess[p].tag, sess[p].b)'
          /\ IsPending(D(p))' = IsPending(D(p)) /\ OwnsPending(p)' = OwnsPending(p)
      BY <1>1, <1>3, SessStays
    <2>2. Settled' = Settled /\ Kept' = Kept /\ Pending(D(p))' = Pending(D(p))
      BY <1>1, <2>1 DEF Settled, Kept, Edited, Pending
    <2>3. TagInv(p)' /\ PushInv(p)' /\ WorkInv(p)'
      <3>1. job[p].for # "load"
        BY <1>1, IInvFacts DEF JobShape
      <3>2. TagInv(p)' /\ PushInv(p)'
        BY <1>1, <1>3, <2>1, IInvFacts DEF TagInv, PushInv, Current
      <3>3. WorkInv(p)'
        BY <1>1, <1>3, <2>1, <3>1, IInvFacts DEF WorkInv
      <3> QED BY <3>2, <3>3
    <2>4. CopyInv(p)'
      BY <1>1, <1>3, <2>1, <2>2, IInvFacts DEF CopyInv, Known
    <2>5. ProcInv(p)'
      BY <2>1, <2>3, <2>4 DEF ProcInv
    <2>6. DevInv(D(p))'
      <3>1. CacheInv(D(p))'
        BY <1>1, <2>2, IInvFacts DEF CacheInv, Known, Current
      <3>2. ReceiptInv(D(p))'
        BY <1>1, <1>3 DEF ReceiptInv
      <3> QED BY <3>1, <3>2 DEF DevInv
    <2>7. Accounts(p) /\ Remembers(p)
      BY <1>1, <1>3, <2>2 DEF Accounts, Remembers, Marks
    <2> QED BY <1>1, <1>3, <2>5, <2>6, <2>7, QuietStep
  <1> QED BY <1>2, <1>3, IInvFacts, PublishFacts

LEMMA UploadCopyKeeps ==
    ASSUME IInv, NEW p \in Proc, UploadCopy(p), Local(p), Shape'
    PROVE  IInv'
  <1>1. /\ UNCHANGED <<site, head, late, gone>> /\ job[p].at = "upload"
        /\ job[p].cand.v = job[p].local /\ D(p)' = D(p)
    BY IInvFacts, UploadFacts DEF remote, JobShape, D
  <1>2. CASE /\ CopyDone(p) /\ copied' = copied \cup job[p].cand.v
             /\ receipt'[D(p)].b = job[p].cand /\ UNCHANGED cache
    <2>1. job[p].local \subseteq copied' /\ copied \subseteq copied' /\ ReceiptInv(D(p))'
      BY <1>1, <1>2 DEF ReceiptInv
    <2> QED BY <1>1, <1>2, <2>1, CopyDoneStep
  <1>3. CASE /\ CopyFailed(p) /\ receipt' = receipt
             /\ copied' \in {copied, copied \cup job[p].cand.v}
    BY <1>1, <1>3, CopyFailedStep
  <1> QED BY <1>2, <1>3, IInvFacts, UploadFacts

-----------------------------------------------------------------------------
(* The source. *)

\* A step that no runtime takes.
LEMMA SourceFrame ==
    ASSUME IInv, Shape', Grows, Turns, OnceInv', LateInv',
           UNCHANGED <<site, cache, receipt, sess, job, acked>>
    PROVE  IInv'
  <1>1. Kept \subseteq Kept' /\ \A p \in Proc : D(p)' = D(p) /\ D(p) \in Device
    BY SettledGrows, SiteFacts DEF IInv, Shape, D
  <1>2. Apart'
    BY <1>1 DEF IInv, Apart
  <1>3. ASSUME NEW p \in Proc PROVE ProcInv(p)'
    <2>1. ProcInv(p) /\ Shape
      BY DEF IInv
    <2> QED BY <2>1, ProcFrame
  <1>4. ASSUME NEW d \in Device PROVE DevInv(d)'
    <2>1. DevInv(d)
      BY DEF IInv
    <2> QED BY <2>1, DevFrame
  <1>5. AckedEditsSurvive'
    <2>1. \A d \in Device : Pending(d)' = Pending(d)
      BY DEF Pending, IsPending
    <2> QED BY <1>1, <2>1, AckedMeaning, AckedMeaningNext DEF IInv
  <1> QED BY <1>2, <1>3, <1>4, <1>5 DEF IInv

LEMMA LateArrivesKeeps ==
    ASSUME IInv, LateArrives, Shape'
    PROVE  IInv'
  <1>1. /\ late # NoEntry /\ late.cand \in Bytes /\ late.cand \in Coming /\ late' = NoEntry
        /\ UNCHANGED <<site, copied, cache, receipt, sess, job, acked, gone>>
        /\ OnceInv /\ LateInv /\ Shape
    BY DEF IInv, LateArrives, Shape, TypeOK, Request, Coming
  <1>2. Settled' = Settled
    BY <1>1 DEF Settled
  <1>3. Coming' \subseteq Coming
    BY <1>1 DEF Coming
  <1>4. LateInv'
    BY <1>1 DEF LateInv
  <1>5. CASE head = late.seen
    <2>1. head' = late.cand /\ head' # NoBytes
      BY <1>1, <1>5, NoneAssumption DEF LateArrives
    <2>2. Grows
      BY <1>1, <1>2, <1>5, <2>1 DEF Grows, Kept, Edited, LateInv
    <2>3. Turns
      BY <1>1, <2>1 DEF Turns, OnceInv, MarkInv
    <2>4. head' \notin Coming'
      BY <1>1, <2>1 DEF Coming, OnceInv
    <2>5. OnceInv'
      BY <1>1, <1>3, <2>4 DEF OnceInv, MarkInv
    <2> QED BY <1>1, <1>4, <2>2, <2>3, <2>5, SourceFrame
  <1>6. CASE head # late.seen
    <2>1. head' = head
      BY <1>6 DEF LateArrives
    <2>2. Grows /\ Turns
      BY <1>1, <1>2, <2>1 DEF Grows, Turns, Kept, Edited
    <2>3. OnceInv'
      BY <1>1, <1>3, <2>1 DEF OnceInv, MarkInv
    <2> QED BY <1>1, <1>4, <2>2, <2>3, SourceFrame
  <1> QED BY <1>5, <1>6

LEMMA ForeignWriteKeeps ==
    ASSUME IInv, ForeignWrite, Shape'
    PROVE  IInv'
  <1>1. /\ UNCHANGED <<site, late, copied, cache, receipt, sess, job, acked>>
        /\ OnceInv /\ LateInv /\ Shape /\ TypeOK /\ head # NoBytes /\ head \in Bytes
    BY DEF IInv, ForeignWrite, Shape, TypeOK, MaybeBytes
  <1>2. \/ head' = NoBytes /\ gone' = gone \cup head.v
        \/ /\ head' \in Bytes \ InUse
           /\ \E lost \in SUBSET head.v : head'.v = head.v \ lost /\ gone' = gone \cup lost
    <2>1. ASSUME NEW w \in {"foreign", "opaque"}, NEW lost \in SUBSET head.v,
                 head' \in Fresh(head.v \ lost, w), gone' = gone \cup lost
          PROVE  head' \in Bytes \ InUse /\ head'.v = head.v \ lost
      <3> DEFINE v == head.v \ lost
      <3>1. v \in SUBSET Edit
        BY <1>1 DEF Bytes
      <3>2. head' \in Fresh(v, w)
        BY <2>1
      <3> HIDE DEF v
      <3>3. head' \in Bytes \ InUse /\ head'.v = v
        BY <1>1, <3>1, <3>2, FreshFacts
      <3> QED BY <3>3 DEF v
    <2> QED BY <2>1 DEF ForeignWrite
  <1>3. head' = NoBytes \/ head' \notin InUse
    BY <1>2
  <1>4. Grows
    BY <1>1, <1>2, NoneAssumption DEF Grows, Kept, Settled, Edited
  <1>5. Turns
    BY <1>1, <1>3, InUseFacts DEF Turns
  <1>6. Coming' = Coming
    BY <1>1 DEF Coming
  <1>7. head' \notin Coming
    BY <1>1, <1>3, ComingFacts, InUseFacts DEF Coming
  <1>8. OnceInv'
    BY <1>1, <1>6, <1>7 DEF OnceInv, MarkInv
  <1>9. LateInv'
    <2>1. late # NoEntry => late.seen \in Bytes /\ late.seen \in InUse
      BY <1>1, InUseFacts DEF TypeOK, Request
    <2> QED BY <1>1, <1>3, <2>1, NoneAssumption DEF LateInv
  <1> QED BY <1>1, <1>4, <1>5, <1>8, <1>9, SourceFrame

-----------------------------------------------------------------------------
(* The results. *)

LEMMA InitIInv ==
    ASSUME Init, Apart
    PROVE  IInv
  <1>1. Shape
    BY InitShape
  <1>2. /\ late = NoEntry /\ acked = {} /\ head # NoBytes
        /\ \A d \in Device : cache[d] = NoEntry /\ receipt[d] = NoEntry
        /\ \A p \in Proc : sess[p] = Closed /\ job[p] = NoJob
    <2>1. head \in Bytes
      BY SyncAssumption DEF Init, Bytes, Serial
    <2> QED BY <2>1, NoneAssumption DEF Init
  <1>3. Coming = {}
    BY <1>2 DEF Coming, NoJob
  <1>4. OnceInv /\ LateInv
    BY <1>2, <1>3 DEF OnceInv, MarkInv, LateInv, NoJob
  <1>5. ASSUME NEW p \in Proc PROVE ProcInv(p)
    BY <1>2 DEF ProcInv, TagInv, PushInv, WorkInv, CopyInv, SessInv, Current, NoJob, Closed
  <1>6. ASSUME NEW d \in Device PROVE DevInv(d)
    BY <1>2 DEF DevInv, CacheInv, ReceiptInv
  <1>7. AckedEditsSurvive
    BY <1>2 DEF AckedEditsSurvive
  <1> QED BY <1>1, <1>4, <1>5, <1>6, <1>7 DEF IInv

LEMMA StepKeeps ==
    ASSUME IInv, NEW p \in Proc, Step(p), Shape'
    PROVE  IInv'
  <1>1. Local(p)
    BY StepIsLocal, IInvFacts
  <1>2. ASSUME NEW e \in site.edits, Edits(p, e) PROVE IInv'
    BY <1>1, <1>2, EditsKeeps
  <1>3. CASE Unlock(p) \/ Lock(p) \/ Crash(p) \/ Stall(p)
    BY <1>1, <1>3, UnlockKeeps, LockKeeps, CrashKeeps, StallKeeps
  <1>4. CASE BeginLoad(p) \/ BeginSave(p) \/ BeginRetry(p)
    BY <1>1, <1>4, BeginLoadKeeps, BeginSaveKeeps, BeginRetryKeeps
  <1>5. CASE StateKnown(p) \/ StateFails(p) \/ ReadHead(p) \/ ReadFails(p)
    BY <1>1, <1>5, StateKnownKeeps, StateFailsKeeps, ReadHeadKeeps, ReadFailsKeeps
  <1>6. CASE Push(p) \/ PushUnknown(p) \/ Readback(p) \/ Commit(p) \/ PushPending(p)
    BY <1>1, <1>6, PushKeeps, PushUnknownKeeps, ReadbackKeeps, CommitKeeps, PushPendingKeeps
  <1>7. CASE Install(p) \/ PublishReceipt(p) \/ UploadCopy(p) \/ Fallback(p)
    BY <1>1, <1>7, InstallKeeps, PublishReceiptKeeps, UploadCopyKeeps, FallbackKeeps
  <1> QED BY <1>2, <1>3, <1>4, <1>5, <1>6, <1>7 DEF Step, Proceed

LEMMA NextIInv == IInv /\ [Next]_vars => IInv'
  <1> SUFFICES ASSUME IInv, [Next]_vars PROVE IInv'
    OBVIOUS
  <1>1. Shape'
    BY NextShape DEF IInv
  <1>2. ASSUME NEW p \in Proc, Step(p) PROVE IInv'
    BY <1>1, <1>2, StepKeeps
  <1>3. CASE LateArrives \/ ForeignWrite
    BY <1>1, <1>3, LateArrivesKeeps, ForeignWriteKeeps
  <1>4. CASE UNCHANGED vars
    <2>1. /\ UNCHANGED <<site, head, late, copied, cache, receipt, sess, job, acked, gone>>
      BY <1>4 DEF vars, remote
    <2>2. Grows /\ Turns /\ LateInv'
      BY <2>1, QuietFacts DEF IInv
    <2>3. OnceInv'
      BY <2>1 DEF IInv, OnceInv, MarkInv, Coming
    <2> QED BY <1>1, <2>1, <2>2, <2>3, SourceFrame
  <1> QED BY <1>2, <1>3, <1>4 DEF Next

\* Only a request under the ETag of the head replaces it.
LEMMA HeadStep ==
    ASSUME NEW p \in Proc, Step(p), head' # head
    PROVE  job[p].at = "push" /\ head = job[p].seen /\ head' = job[p].cand
  <1>1. CASE (\E e \in site.edits : Edits(p, e)) \/ Unlock(p) \/ Lock(p) \/ Crash(p) \/ BeginLoad(p)
               \/ BeginSave(p) \/ BeginRetry(p)
    BY <1>1 DEF Edits, Unlock, Lock, Crash, BeginLoad, BeginSave, BeginRetry, remote
  <1>2. CASE StateKnown(p) \/ StateFails(p) \/ ReadHead(p) \/ ReadFails(p)
    BY <1>2 DEF StateKnown, StateFails, ReadHead, ReadFails, remote
  <1>3. CASE Readback(p) \/ Commit(p) \/ Install(p) \/ PublishReceipt(p)
             \/ UploadCopy(p) \/ Fallback(p)
    BY <1>3, Zenon DEF Readback, Commit, Install, PublishReceipt, UploadCopy, Fallback, remote
  <1>4. CASE Push(p) \/ PushUnknown(p) \/ PushPending(p) \/ Stall(p)
    BY <1>4 DEF Push, PushUnknown, PushPending, Stall, Unanswered
  <1> QED BY <1>1, <1>2, <1>3, <1>4 DEF Step, Proceed

LEMMA KeepsHead ==
    ASSUME IInv, [Next]_vars, head' # head, head' # NoBytes, head'.w = "kern"
    PROVE  Edited(head) \subseteq head'.v \cup Settled
  <1>1. ASSUME NEW p \in Proc, Step(p) PROVE Edited(head) \subseteq head'.v \cup Settled
    BY <1>1, HeadStep, IInvFacts DEF PushInv
  <1>2. CASE LateArrives
    BY <1>2 DEF LateArrives, IInv, LateInv
  <1>3. CASE ForeignWrite
    <2>1. TypeOK /\ head \in Bytes
      BY <1>3 DEF IInv, Shape, TypeOK, MaybeBytes, ForeignWrite
    <2>2. PICK w \in {"foreign", "opaque"}, lost \in SUBSET head.v :
              head' \in Fresh(head.v \ lost, w)
      BY <1>3 DEF ForeignWrite
    <2> DEFINE v == head.v \ lost
    <2>3. v \in SUBSET Edit /\ head' \in Fresh(v, w)
      BY <2>1, <2>2 DEF Bytes
    <2> HIDE DEF v
    <2>4. head'.w = w
      BY <2>1, <2>3, FreshFacts
    <2> QED BY <2>4
  <1>4. CASE UNCHANGED vars
    BY <1>4 DEF vars, remote
  <1> QED BY <1>1, <1>2, <1>3, <1>4 DEF Next

LEMMA IInvHolds == Spec /\ Apart => []IInv
  <1>1. Init /\ Apart => IInv
    BY InitIInv
  <1> QED BY <1>1, NextIInv, PTL DEF Spec

\* Every variable keeps its type, and a call makes no more attempts than
\* MAX_SOURCE_ATTEMPTS, however runtimes share devices.
THEOREM TypesHold == Spec => []TypeOK
  <1>1. Shape => TypeOK
    BY DEF Shape
  <1> QED BY <1>1, ShapeHolds, PTL

\* The edits of a save that the runtime acknowledged are never lost, with any
\* number of devices of one runtime each: they are in the file, in a conflict
\* copy or in a pending generation, unless another program took them out.
THEOREM EditsSurvive == Spec /\ Apart => []AckedEditsSurvive
  <1>1. IInv => AckedEditsSurvive
    BY DEF IInv
  <1> QED BY <1>1, IInvHolds, PTL

\* three_way_field_patch is given an ancestor of the head and of the local
\* vault, but for settled edits, whatever happened since the base was read.
THEOREM PatchesAreSound == Spec /\ Apart => []PatchSound
  <1>1. IInv => PatchSound
    <2> SUFFICES ASSUME IInv PROVE PatchSound
      OBVIOUS
    <2>1. TypeOK
      BY DEF IInv, Shape
    <2>2. ASSUME NEW p \in Proc, job[p].at = "push"
          PROVE  job[p].base.v \subseteq (job[p].rem.v \cap job[p].local) \cup Settled
      BY <2>2, IInvFacts DEF PushInv
    <2> QED BY <2>1, <2>2 DEF PatchSound, BaseIsAncestor
  <1> QED BY <1>1, IInvHolds, PTL

\* A replacement of the file by this program keeps every edit of the head it
\* replaces that is not settled: a save, a retried upload, and a request that
\* arrives after its call gave up.
THEOREM HeadIsKept == Spec /\ Apart => PushKeepsHead
  <1>1. IInv /\ [Next]_vars =>
          [(head' # head /\ head' # NoBytes /\ head'.w = "kern") =>
              Edited(head) \subseteq head'.v \cup Settled]_vars
    BY KeepsHead
  <1> QED BY <1>1, IInvHolds, PTL DEF Spec, PushKeepsHead

=============================================================================
