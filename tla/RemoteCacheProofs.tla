------------------------- MODULE RemoteCacheProofs -------------------------
(***************************************************************************)
(* Proofs about RemoteCache for every set of contents, operations and      *)
(* conditions, and every number of faults.                                 *)
(***************************************************************************)
EXTENDS RemoteCache, TLAPS

-----------------------------------------------------------------------------
(* The inductive invariant. *)

IsPendingManifest(m) == m # NoManifest /\ m.current.pending

\* What the authorization of r establishes, and the lock keeps: r names the
\* pending save that its publication will replace.
Bound(r) ==
    IsPendingManifest(manifest) =>
        /\ r.expected = Cur.c
        /\ r.op \in {"update", "complete", "completeAutofill"}
        /\ Cur.kind = "Autofill" => r.op = "completeAutofill" /\ r.id = Cur.op

WriterInv ==
    /\ txn.stage \in {"source", "generations"} => txn.req \in Request /\ Bound(txn.req)
    /\ At("replaced") =>
          /\ txn.req \in Request
          /\ txn.saved \in exposed
          /\ owed # {} =>
                /\ IsPendingManifest(txn.saved)
                /\ IsCompletion \/ IsPendingManifest(manifest)

RetirementInv ==
    /\ At("guard") => ~IsPendingManifest(manifest) \/ PairIsDamaged
    /\ txn.stage \in {"removed", "purge"} => manifest = NoManifest

OwedInv == ~At("replaced") /\ owed # {} => IsPendingManifest(manifest)

\* A manifest of an earlier release does not know kinds of pending saves.
LegacyInv ==
    \A m \in exposed : m # NoManifest /\ m.version # 3 => m.current.kind = "Unset"

IInv == TypeOK /\ WriterInv /\ RetirementInv /\ OwedInv /\ LegacyInv
            /\ PendingRecoverable

-----------------------------------------------------------------------------
(* Lemmas about the operators. *)

\* The arguments of every call are of the declared types.
LEMMA RequestsTyped == Requests \subseteq Request
  BY DEF Requests, WriteRequests, PendAutofillRequests, CompleteAutofillRequests,
         UpdateRequests, CompleteRequests, Req, Request, ResidentKind

\* write_with_source_context_locked builds a well-formed manifest.
LEMMA NextManifestTyped ==
    ASSUME NEW r \in Request, manifest \in Manifest \cup {NoManifest}
    PROVE  NextManifest(r) \in Manifest
  <1> DEFINE cur == [c |-> r.c, pending |-> r.op \in {"pendAutofill", "update"},
                     kind |-> PublishedKind(r),
                     op |-> IF r.op = "pendAutofill" THEN r.id ELSE NoOp,
                     cond |-> r.cond]
             obs == IF r.obs # NoContent THEN Committed(r.obs, r.cond)
                                         ELSE InheritedObserved(r)
  <1>1. cur \in Generation
    BY DEF Request, Generation, PublishedKind, PendingKind, ResidentKind
  <1>2. manifest # NoManifest => NormalizedCurrent \in Generation
    BY DEF NormalizedCurrent, IsLegacy, Cur, Manifest, Generation, PendingKind,
           ResidentKind
  <1>a. manifest # NoManifest =>
           /\ manifest.previous \in Generation \cup {NoGen}
           /\ manifest.observed \in Generation \cup {NoGen}
    BY DEF Manifest
  <1>3. PreviousGeneration(r) \in Generation \cup {NoGen}
    BY <1>2, <1>a DEF PreviousGeneration
  <1>4. InheritedObserved(r) \in Generation \cup {NoGen}
    BY <1>2, <1>a DEF InheritedObserved
  <1>5. r.obs # NoContent => Committed(r.obs, r.cond) \in Generation
    BY DEF Request, Committed, Generation, PendingKind
  <1>6. obs \in Generation \cup {NoGen}
    BY <1>4, <1>5
  <1>. HIDE DEF cur, obs
  <1>7. NextManifest(r) = [version |-> 3, current |-> cur,
                           previous |-> PreviousGeneration(r), observed |-> obs]
    BY DEF NextManifest, cur, obs
  <1>. QED
    BY <1>1, <1>3, <1>6, <1>7 DEF Manifest

\* A call that the authorization lets through names the pending save.
LEMMA AuthorizedIsBound ==
    ASSUME NEW r \in Request, IsAuthorized(r), LegacyInv,
           manifest \in exposed, manifest \in Manifest \cup {NoManifest}
    PROVE  Bound(r)
  <1> SUFFICES ASSUME IsPendingManifest(manifest)
               PROVE  /\ r.expected = Cur.c
                      /\ r.op \in {"update", "complete", "completeAutofill"}
                      /\ Cur.kind = "Autofill" =>
                            r.op = "completeAutofill" /\ r.id = Cur.op
    BY DEF Bound
  <1>1. manifest # NoManifest /\ Cur.pending
    BY DEF IsPendingManifest, Cur
  <1>2. ReadStatus # "Missing"
    BY <1>1 DEF ReadStatus
  <1>3. r.op \in {"write", "pendAutofill", "completeAutofill", "update", "complete"}
    BY DEF Request
  <1>4. r.op \notin {"write", "pendAutofill"} /\ r.expected = Cur.c
    BY <1>1, <1>2, <1>3 DEF IsAuthorized
  <1>5. CASE r.op = "completeAutofill"
    BY <1>2, <1>4, <1>5 DEF IsAuthorized
  <1>6. CASE r.op \in {"update", "complete"}
    <2>1. PendingIsGeneric(ProofKinds(r))
      BY <1>1, <1>2, <1>6 DEF IsAuthorized
    <2>2. "Autofill" \notin ProofKinds(r)
      BY DEF ProofKinds, ResidentKind, Request
    <2>3. IsLegacy => Cur.kind = "Unset"
      BY <1>1 DEF IsLegacy, LegacyInv, Cur
    <2>. QED
      BY <1>4, <1>6, <2>1, <2>2, <2>3 DEF PendingIsGeneric
  <1>. QED
    BY <1>3, <1>4, <1>5, <1>6

-----------------------------------------------------------------------------
(* The invariant is inductive. *)

\* The manifests found at the start are well formed.
LEMMA InitialManifestsTyped ==
    ASSUME NEW m \in InitialManifests, m # NoManifest
    PROVE  m \in Manifest /\ (m.version # 3 => m.current.kind = "Unset")
  <1>1. \A c \in Content : Committed(c, NoCond) \in Generation
    BY DEF Committed, Generation, PendingKind
  <1>2. OldGenerations \subseteq Generation
    BY DEF OldGenerations, Generation, PendingKind
  <1>3. \A g \in OldGenerations : g.kind = "Unset"
    BY DEF OldGenerations
  <1>. QED
    BY <1>1, <1>2, <1>3 DEF InitialManifests, Manifest

\* No transaction is a transaction.
LEMMA IdleTyped == Idle \in Transaction
  BY DEF Idle, Transaction, Stage

\* The invariant holds of the files found at the start.
LEMMA InitIInv == Init => IInv
  <1> SUFFICES ASSUME Init PROVE IInv
    OBVIOUS
  <1>1. manifest \in Manifest \cup {NoManifest}
    BY InitialManifestsTyped DEF Init
  <1>2. owed \subseteq Content
    BY <1>1 DEF Init, PendingContent, Manifest, Generation
  <1>3. TypeOK
    <2>1. gens \in [Content -> {"absent", "ok", "bad"}]
      BY DEF Init
    <2>2. faults \in 0 .. MaxFaults /\ cuts \in 0 .. MaxCuts
      BY ConstantsAssumption DEF Init
    <2>3. bytesFile \in {"absent", "ok", "bad"}
      BY DEF Init
    <2>4. exposed = {manifest} /\ unsynced = {} /\ retired = FALSE /\ txn = Idle
      BY DEF Init
    <2>. QED
      BY <1>1, <1>2, <2>1, <2>2, <2>3, <2>4, IdleTyped DEF TypeOK
  <1>4. WriterInv /\ RetirementInv
    BY DEF WriterInv, RetirementInv, Init, Idle, At
  <1>5. OwedInv /\ PendingRecoverable
    BY DEF OwedInv, PendingRecoverable, PendingContent, IsPendingManifest, Init
  <1>6. LegacyInv
    BY InitialManifestsTyped DEF LegacyInv, Init
  <1>. QED
    BY <1>3, <1>4, <1>5, <1>6 DEF IInv

\* Beginning to write, source write included.
LEMMA BeginStep ==
    ASSUME IInv,
           \/ \E r \in Requests : BeginWrite(r)
           \/ \E c \in Content : BeginSourceWrite(c) \/ SourceWriteSucceeds(c)
           \/ SourceWriteFails
    PROVE  IInv'
  <1>. USE DEF IInv, files
  <1>1. ASSUME NEW r \in Request, IsAuthorized(r), Start(r),
               UNCHANGED <<files, retired, owed, faults, cuts>>, ~At("replaced")
        PROVE  IInv'
    <2>1. Bound(r) /\ Bound(r)'
      BY <1>1, AuthorizedIsBound DEF Bound, IsPendingManifest, Cur, TypeOK
    <2>2. Todo(r) \subseteq Content
      BY <1>1 DEF Todo, Request, TypeOK, Cur, Manifest, Generation
    <2>3. TypeOK'
      BY <1>1, <2>2 DEF TypeOK, Start, Transaction, Stage
    <2>4. WriterInv' /\ RetirementInv' /\ OwedInv'
      BY <1>1, <2>1 DEF WriterInv, RetirementInv, OwedInv, At, Start, IsPendingManifest
    <2>5. LegacyInv' /\ PendingRecoverable'
      BY <1>1 DEF LegacyInv, PendingRecoverable
    <2>. QED BY <2>3, <2>4, <2>5
  <1>2. ASSUME txn' = Idle, ~At("replaced"),
               UNCHANGED <<files, retired, owed, faults, cuts>>
        PROVE  IInv'
    <2>1. TypeOK'
      BY <1>2, IdleTyped DEF TypeOK
    <2>2. WriterInv' /\ RetirementInv' /\ OwedInv'
      BY <1>2 DEF WriterInv, RetirementInv, OwedInv, At, Idle, IsPendingManifest
    <2>3. LegacyInv' /\ PendingRecoverable'
      BY <1>2 DEF LegacyInv, PendingRecoverable
    <2>. QED BY <2>1, <2>2, <2>3
  <1>3. ASSUME NEW r \in Requests, BeginWrite(r)
        PROVE  IInv'
    BY <1>1, <1>3, RequestsTyped DEF BeginWrite, At
  <1>4. ASSUME NEW c \in Content, BeginSourceWrite(c)
        PROVE  IInv'
    <2> DEFINE r == Req("complete", c, NoCond, NoOp, c, NoContent, "None")
    <2>1. r \in Request
      BY DEF Req, Request
    <2>2. IsAuthorized(r)
      BY <1>4 DEF BeginSourceWrite, IsAuthorized, ProofKinds, Req
    <2>3. Bound(r) /\ Bound(r)'
      BY <1>4, <2>1, <2>2, AuthorizedIsBound
      DEF BeginSourceWrite, Bound, IsPendingManifest, Cur, TypeOK
    <2>4. txn' = [stage |-> "source", req |-> r, todo |-> {}, saved |-> NoManifest]
      BY <1>4 DEF BeginSourceWrite, Idle
    <2>a. At("idle") /\ UNCHANGED <<files, retired, owed, faults, cuts>>
      BY <1>4 DEF BeginSourceWrite
    <2>. HIDE DEF r
    <2>5. TypeOK'
      BY <2>1, <2>4, <2>a DEF TypeOK, Transaction, Stage
    <2>6. WriterInv' /\ RetirementInv' /\ OwedInv'
      BY <2>1, <2>3, <2>4, <2>a
      DEF WriterInv, RetirementInv, OwedInv, At, IsPendingManifest
    <2>7. LegacyInv' /\ PendingRecoverable'
      BY <2>a DEF LegacyInv, PendingRecoverable
    <2>. QED BY <2>5, <2>6, <2>7
  <1>5. ASSUME NEW c \in Content, SourceWriteSucceeds(c)
        PROVE  IInv'
    <2> DEFINE r == [txn.req EXCEPT !.c = c]
    <2>1. r \in Request
      BY <1>5 DEF SourceWriteSucceeds, WriterInv, At, Request
    <2>2. CASE ~retired /\ IsAuthorized(r)
      BY <1>1, <1>5, <2>1, <2>2 DEF SourceWriteSucceeds, At
    <2>3. CASE ~(~retired /\ IsAuthorized(r))
      BY <1>2, <1>5, <2>3 DEF SourceWriteSucceeds, At
    <2>. QED BY <2>2, <2>3
  <1>6. ASSUME SourceWriteFails
        PROVE  IInv'
    BY <1>2, <1>6 DEF SourceWriteFails, At
  <1>. QED
    BY <1>3, <1>4, <1>5, <1>6

\* Making the generations durable leaves the manifests alone.
LEMMA GenerationStep ==
    ASSUME IInv,
           \/ \E c \in Content : EnsureGeneration(c) \/ EnsureGenerationFails(c)
           \/ PublishFails
    PROVE  IInv'
  <1>. USE DEF IInv, files
  <1>1. ASSUME NEW c \in Content, EnsureGeneration(c)
        PROVE  IInv'
    <2>1. txn' = [txn EXCEPT !.todo = @ \ {c}]
          /\ gens' = [gens EXCEPT ![c] = "ok"] /\ At("generations")
          /\ UNCHANGED <<manifest, exposed, unsynced, bytesFile, retired, owed,
                         faults, cuts>>
      BY <1>1 DEF EnsureGeneration
    <2>2. txn'.stage = txn.stage /\ txn'.req = txn.req /\ txn'.saved = txn.saved
      BY <2>1 DEF TypeOK, Transaction
    <2>3. TypeOK'
      BY <2>1 DEF TypeOK, Transaction
    <2>4. WriterInv' /\ RetirementInv' /\ OwedInv'
      BY <2>1, <2>2 DEF WriterInv, RetirementInv, OwedInv, Bound, At,
                        IsPendingManifest, Cur, IsCompletion
    <2>5. LegacyInv' /\ PendingRecoverable'
      BY <2>1 DEF LegacyInv, PendingRecoverable
    <2>. QED BY <2>3, <2>4, <2>5
  <1>2. ASSUME NEW c \in Content, EnsureGenerationFails(c)
        PROVE  IInv'
    <2>1. txn' = Idle /\ At("generations")
          /\ UNCHANGED <<manifest, exposed, bytesFile, retired, owed, faults>>
      BY <1>2 DEF EnsureGenerationFails
    <2>2. TypeOK'
      BY <1>2, <2>1, IdleTyped, ConstantsAssumption DEF EnsureGenerationFails, TypeOK
    <2>3. WriterInv' /\ RetirementInv' /\ OwedInv'
      BY <2>1 DEF WriterInv, RetirementInv, OwedInv, At, Idle, IsPendingManifest
    <2>4. LegacyInv' /\ PendingRecoverable'
      BY <2>1 DEF LegacyInv, PendingRecoverable
    <2>. QED BY <2>2, <2>3, <2>4
  <1>3. ASSUME PublishFails
        PROVE  IInv'
    <2>1. TypeOK'
      BY <1>3, IdleTyped DEF PublishFails, TypeOK
    <2>2. WriterInv' /\ RetirementInv' /\ OwedInv'
      BY <1>3 DEF PublishFails, WriterInv, RetirementInv, OwedInv, At, Idle,
                  IsPendingManifest
    <2>3. LegacyInv' /\ PendingRecoverable'
      BY <1>3 DEF PublishFails, LegacyInv, PendingRecoverable
    <2>. QED BY <2>1, <2>2, <2>3
  <1>. QED
    BY <1>1, <1>2, <1>3

\* The manifest is replaced: it holds the candidate, and it is pending when
\* it replaces a pending save and does not complete it.
LEMMA ReplaceStep ==
    ASSUME IInv, ReplaceManifest
    PROVE  IInv'
  <1>. USE DEF IInv
  <1> DEFINE r == txn.req
             next == NextManifest(r)
  <1>1. r \in Request /\ Bound(r) /\ r.c \in Content
    BY DEF ReplaceManifest, WriterInv, At, Request
  <1>2. next \in Manifest /\ next # NoManifest
    BY <1>1, NextManifestTyped, NullsAssumption DEF TypeOK
  <1>3. next.version = 3 /\ next.current.c = r.c
        /\ next.current.pending = (r.op \in {"pendAutofill", "update"})
    BY DEF NextManifest
  <1>. HIDE DEF next, r
  <1>4. manifest' = next /\ exposed' = exposed \cup {next}
        /\ owed' = (IF owed = {} THEN {} ELSE owed \cup {r.c})
        /\ txn' = [txn EXCEPT !.stage = "replaced", !.saved = manifest]
        /\ At("generations")
        /\ UNCHANGED <<gens, unsynced, bytesFile, retired, faults, cuts>>
    BY DEF ReplaceManifest, next, r
  <1>5. txn'.stage = "replaced" /\ txn'.req = r /\ txn'.saved = manifest
    BY <1>4 DEF TypeOK, Transaction, r
  <1>6. TypeOK'
    BY <1>1, <1>2, <1>4 DEF TypeOK, Transaction, Stage
  <1>7. owed # {} => IsPendingManifest(manifest)
    BY <1>4 DEF OwedInv, At
  <1>8. owed # {} => r.op \in {"complete", "completeAutofill"} \/ next.current.pending
    BY <1>1, <1>3, <1>7 DEF Bound
  <1>9. WriterInv'
    <2>1. txn'.req \in Request /\ txn'.saved \in exposed'
      BY <1>1, <1>4, <1>5 DEF TypeOK
    <2>2. owed' # {} => IsPendingManifest(manifest)
      BY <1>4, <1>7
    <2>3. owed' # {} => IsCompletion' \/ IsPendingManifest(manifest')
      BY <1>2, <1>4, <1>5, <1>8 DEF IsCompletion, IsPendingManifest
    <2>. QED
      BY <1>5, <2>1, <2>2, <2>3 DEF WriterInv, At, IsPendingManifest
  <1>10. RetirementInv' /\ OwedInv'
    BY <1>5 DEF RetirementInv, OwedInv, At
  <1>11. LegacyInv'
    BY <1>3, <1>4 DEF LegacyInv
  <1>12. PendingRecoverable'
    BY <1>2, <1>3, <1>4 DEF PendingRecoverable
  <1>. QED
    BY <1>6, <1>9, <1>10, <1>11, <1>12

\* The outcome of the replacement, known or not, and the cleanup after it.
LEMMA SettleStep ==
    ASSUME IInv,
           \/ SyncManifest \/ RestoreManifest \/ OutcomeUnknown
           \/ \E removed \in SUBSET Content : FinishDurable(removed)
    PROVE  IInv'
  <1>. USE DEF IInv
  <1>a. \A m \in Manifest \cup {NoManifest} : PendingContent(m) \subseteq Content
    BY DEF PendingContent, Manifest, Generation
  <1>b. \A m \in Manifest \cup {NoManifest} :
           PendingContent(m) # {} => IsPendingManifest(m) /\ m.current.c \in PendingContent(m)
    BY DEF PendingContent, IsPendingManifest
  <1>c. [Idle EXCEPT !.stage = "durable"] \in Transaction
        /\ [Idle EXCEPT !.stage = "durable"].stage = "durable"
    BY DEF Idle, Transaction, Stage
  <1>1. ASSUME SyncManifest
        PROVE  IInv'
    <2>1. exposed' = {manifest} /\ unsynced' = {} /\ owed' = PendingContent(manifest)
          /\ txn' = [Idle EXCEPT !.stage = "durable"]
          /\ UNCHANGED <<manifest, gens, bytesFile, retired, faults, cuts>>
      BY <1>1 DEF SyncManifest
    <2>2. TypeOK'
      BY <2>1, <1>a, <1>c DEF TypeOK
    <2>3. WriterInv' /\ RetirementInv'
      BY <2>1, <1>c DEF WriterInv, RetirementInv, At
    <2>4. OwedInv' /\ PendingRecoverable'
      BY <2>1, <1>b DEF OwedInv, PendingRecoverable, IsPendingManifest, TypeOK
    <2>5. LegacyInv'
      BY <2>1 DEF LegacyInv, TypeOK
    <2>. QED BY <2>2, <2>3, <2>4, <2>5
  <1>2. ASSUME RestoreManifest
        PROVE  IInv'
    <2>1. manifest' = txn.saved /\ exposed' = {txn.saved} /\ unsynced' = {}
          /\ owed' \in {{}, PendingContent(txn.saved)} /\ txn' = Idle
          /\ UNCHANGED <<gens, bytesFile, retired, faults, cuts>>
      BY <1>2 DEF RestoreManifest
    <2>2. txn.saved \in exposed /\ txn.saved \in Manifest \cup {NoManifest}
      BY <1>2 DEF RestoreManifest, WriterInv, TypeOK
    <2>3. TypeOK'
      BY <2>1, <2>2, <1>a, IdleTyped DEF TypeOK
    <2>4. WriterInv' /\ RetirementInv'
      BY <2>1 DEF WriterInv, RetirementInv, At, Idle
    <2>5. OwedInv' /\ PendingRecoverable'
      BY <2>1, <2>2, <1>b DEF OwedInv, PendingRecoverable, IsPendingManifest
    <2>6. LegacyInv'
      BY <2>1, <2>2 DEF LegacyInv
    <2>. QED BY <2>3, <2>4, <2>5, <2>6
  <1>3. ASSUME OutcomeUnknown
        PROVE  IInv'
    <2>1. manifest' \in {manifest, txn.saved} /\ txn' = Idle /\ At("replaced")
          /\ owed' = (IF IsCompletion /\ manifest' = manifest THEN {} ELSE owed)
          /\ faults < MaxFaults /\ faults' = faults + 1
          /\ UNCHANGED <<exposed, gens, unsynced, bytesFile, retired, cuts>>
      BY <1>3 DEF OutcomeUnknown, Fault
    <2>2. txn.saved \in exposed
      BY <2>1 DEF WriterInv
    <2>3. TypeOK'
      BY <2>1, <2>2, IdleTyped, ConstantsAssumption DEF TypeOK
    <2>4. WriterInv' /\ RetirementInv'
      BY <2>1 DEF WriterInv, RetirementInv, At, Idle
    <2>5. OwedInv'
      BY <2>1 DEF OwedInv, WriterInv, IsPendingManifest
    <2>6. LegacyInv' /\ PendingRecoverable'
      BY <2>1 DEF LegacyInv, PendingRecoverable
    <2>. QED BY <2>3, <2>4, <2>5, <2>6
  <1>4. ASSUME NEW removed \in SUBSET Content, FinishDurable(removed)
        PROVE  IInv'
    <2>1. txn' = Idle /\ ~At("replaced")
          /\ gens' = [c \in Content |-> IF c \in removed THEN "absent" ELSE gens[c]]
          /\ UNCHANGED <<manifest, exposed, unsynced, bytesFile, retired, owed,
                         faults, cuts>>
      BY <1>4 DEF FinishDurable, At
    <2>2. TypeOK'
      BY <2>1, IdleTyped DEF TypeOK
    <2>3. WriterInv' /\ RetirementInv' /\ OwedInv'
      BY <2>1 DEF WriterInv, RetirementInv, OwedInv, At, Idle, IsPendingManifest
    <2>4. LegacyInv' /\ PendingRecoverable'
      BY <2>1 DEF LegacyInv, PendingRecoverable
    <2>. QED BY <2>2, <2>3, <2>4
  <1>. QED
    BY <1>1, <1>2, <1>3, <1>4

\* Retirement begins on a cache that holds no pending save or a damaged pair,
\* and the lock is kept until the manifest is gone.
LEMMA RetirementStep ==
    ASSUME IInv,
           \/ BeginRetirement \/ BeginCleanupAfterIntent \/ RemoveManifest
           \/ SyncAbsence \/ CancelRetirement \/ Activate
           \/ \E removed \in SUBSET Content : PurgeFiles(removed)
    PROVE  IInv'
  <1>. USE DEF IInv, files
  <1>a. \A st \in Stage : [Idle EXCEPT !.stage = st] \in Transaction
                          /\ [Idle EXCEPT !.stage = st].stage = st
    BY DEF Idle, Transaction
  <1>1. ASSUME At("idle"), IsDeletableAfterIntent, BeginGuard
        PROVE  IInv'
    <2>1. retired' = TRUE /\ txn' = [Idle EXCEPT !.stage = "guard"]
          /\ UNCHANGED <<manifest, exposed, gens, unsynced, bytesFile, owed, faults, cuts>>
      BY <1>1 DEF BeginGuard
    <2>2. txn'.stage = "guard" /\ txn' \in Transaction
      BY <2>1, <1>a DEF Stage
    <2>3. ~IsPendingManifest(manifest) \/ PairIsDamaged
      BY <1>1 DEF IsDeletableAfterIntent, IsDeletable, IsPendingManifest, Cur, ReadStatus
    <2>4. TypeOK'
      BY <2>1, <2>2 DEF TypeOK
    <2>5. WriterInv' /\ RetirementInv' /\ OwedInv'
      BY <1>1, <2>1, <2>2, <2>3
      DEF WriterInv, RetirementInv, OwedInv, At, IsPendingManifest, PairIsDamaged
    <2>6. LegacyInv' /\ PendingRecoverable'
      BY <2>1 DEF LegacyInv, PendingRecoverable
    <2>. QED BY <2>4, <2>5, <2>6
  <1>2. ASSUME BeginRetirement \/ BeginCleanupAfterIntent
        PROVE  IInv'
    BY <1>1, <1>2 DEF BeginRetirement, BeginCleanupAfterIntent, IsDeletableAfterIntent
  <1>3. ASSUME RemoveManifest
        PROVE  IInv'
    <2>1. manifest' = NoManifest /\ exposed' = exposed \cup {NoManifest}
          /\ txn' = [txn EXCEPT !.stage = "removed"] /\ At("guard")
          /\ owed' = (IF PairIsDamaged THEN {} ELSE owed)
          /\ UNCHANGED <<gens, unsynced, bytesFile, retired, faults, cuts>>
      BY <1>3 DEF RemoveManifest
    <2>2. txn'.stage = "removed" /\ txn' \in Transaction
      BY <2>1 DEF TypeOK, Transaction, Stage
    <2>3. owed' = {}
      BY <2>1 DEF OwedInv, RetirementInv, At
    <2>4. TypeOK'
      BY <2>1, <2>2 DEF TypeOK
    <2>5. WriterInv' /\ RetirementInv' /\ OwedInv'
      BY <2>1, <2>2, <2>3 DEF WriterInv, RetirementInv, OwedInv, At
    <2>6. LegacyInv' /\ PendingRecoverable'
      BY <2>1, <2>3 DEF LegacyInv, PendingRecoverable
    <2>. QED BY <2>4, <2>5, <2>6
  <1>4. ASSUME SyncAbsence
        PROVE  IInv'
    <2>1. exposed' = {manifest} /\ unsynced' = {} /\ At("removed")
          /\ txn' = [txn EXCEPT !.stage = "purge"]
          /\ UNCHANGED <<manifest, gens, bytesFile, retired, owed, faults, cuts>>
      BY <1>4 DEF SyncAbsence
    <2>2. txn'.stage = "purge" /\ txn' \in Transaction
      BY <2>1 DEF TypeOK, Transaction, Stage
    <2>3. manifest = NoManifest /\ owed = {}
      BY <2>1 DEF OwedInv, RetirementInv, At, IsPendingManifest
    <2>4. TypeOK'
      BY <2>1, <2>2 DEF TypeOK
    <2>5. WriterInv' /\ RetirementInv' /\ OwedInv'
      BY <2>1, <2>2, <2>3 DEF WriterInv, RetirementInv, OwedInv, At
    <2>6. LegacyInv' /\ PendingRecoverable'
      BY <2>1, <2>3 DEF LegacyInv, PendingRecoverable
    <2>. QED BY <2>4, <2>5, <2>6
  <1>5. ASSUME NEW removed \in SUBSET Content, PurgeFiles(removed)
        PROVE  IInv'
    <2>1. txn' = Idle /\ ~At("replaced") /\ bytesFile' = "absent"
          /\ gens' = [c \in Content |-> IF c \in removed THEN "absent" ELSE gens[c]]
          /\ UNCHANGED <<manifest, exposed, unsynced, retired, owed, faults, cuts>>
      BY <1>5 DEF PurgeFiles, At
    <2>2. TypeOK'
      BY <2>1, IdleTyped DEF TypeOK
    <2>3. WriterInv' /\ RetirementInv' /\ OwedInv'
      BY <2>1 DEF WriterInv, RetirementInv, OwedInv, At, Idle, IsPendingManifest
    <2>4. LegacyInv' /\ PendingRecoverable'
      BY <2>1 DEF LegacyInv, PendingRecoverable
    <2>. QED BY <2>2, <2>3, <2>4
  <1>6. ASSUME CancelRetirement \/ Activate
        PROVE  IInv'
    <2>1. txn' = Idle \/ UNCHANGED txn
      BY <1>6 DEF CancelRetirement, Activate
    <2>2. ~At("replaced") /\ retired' = FALSE
          /\ UNCHANGED <<manifest, exposed, gens, unsynced, bytesFile, owed, faults, cuts>>
      BY <1>6 DEF CancelRetirement, Activate, At
    <2>3. TypeOK'
      BY <2>1, <2>2, IdleTyped DEF TypeOK
    <2>4. WriterInv' /\ RetirementInv' /\ OwedInv'
      BY <2>1, <2>2 DEF WriterInv, RetirementInv, OwedInv, Bound, At, Idle,
                        IsPendingManifest, Cur, IsCompletion, PairIsDamaged
    <2>5. LegacyInv' /\ PendingRecoverable'
      BY <2>2 DEF LegacyInv, PendingRecoverable
    <2>. QED BY <2>3, <2>4, <2>5
  <1>. QED
    BY <1>2, <1>3, <1>4, <1>5, <1>6

\* Crashes, power losses and damaged files.
LEMMA EnvironmentStep ==
    ASSUME IInv,
           \/ ProcessDies \/ DamageFile
           \/ \E lost \in SUBSET unsynced : PowerLoss(lost)
    PROVE  IInv'
  <1>. USE DEF IInv, files
  <1>1. ASSUME ProcessDies
        PROVE  IInv'
    <2>1. txn' = Idle /\ faults < MaxFaults /\ faults' = faults + 1
          /\ owed' = (IF At("replaced") /\ IsCompletion THEN {} ELSE owed)
          /\ UNCHANGED <<manifest, exposed, gens, unsynced, bytesFile, retired, cuts>>
      BY <1>1 DEF ProcessDies, Fault
    <2>2. TypeOK'
      BY <2>1, IdleTyped, ConstantsAssumption DEF TypeOK
    <2>3. WriterInv' /\ RetirementInv'
      BY <2>1 DEF WriterInv, RetirementInv, At, Idle
    <2>4. OwedInv'
      BY <2>1 DEF OwedInv, WriterInv, IsPendingManifest
    <2>5. LegacyInv' /\ PendingRecoverable'
      BY <2>1 DEF LegacyInv, PendingRecoverable
    <2>. QED BY <2>2, <2>3, <2>4, <2>5
  <1>2. ASSUME DamageFile
        PROVE  IInv'
    <2>1. faults < MaxFaults /\ faults' = faults + 1
          /\ UNCHANGED <<manifest, exposed, unsynced, retired, txn, owed, cuts>>
      BY <1>2 DEF DamageFile, Fault
    <2>2. gens' \in [Content -> {"absent", "ok", "bad"}]
          /\ bytesFile' \in {"absent", "ok", "bad"}
      BY <1>2 DEF DamageFile, TypeOK
    <2>3. TypeOK'
      BY <2>1, <2>2, ConstantsAssumption DEF TypeOK
    <2>4. WriterInv' /\ OwedInv'
      BY <2>1 DEF WriterInv, OwedInv, Bound, At, IsPendingManifest, Cur, IsCompletion
    <2>6. bytesFile # "ok" => bytesFile' # "ok"
      BY <1>2 DEF DamageFile
    <2>7. RetirementInv'
      BY <2>1, <2>6 DEF RetirementInv, At, IsPendingManifest, PairIsDamaged
    <2>5. LegacyInv' /\ PendingRecoverable'
      BY <2>1 DEF LegacyInv, PendingRecoverable
    <2>. QED BY <2>3, <2>4, <2>5, <2>7
  <1>3. ASSUME NEW lost \in SUBSET unsynced, PowerLoss(lost)
        PROVE  IInv'
    <2>1. manifest' \in exposed /\ exposed' = {manifest'} /\ unsynced' = {}
          /\ gens' = [c \in Content |-> IF c \in lost THEN "absent" ELSE gens[c]]
          /\ txn' = Idle /\ owed' = PendingContent(manifest')
          /\ UNCHANGED <<bytesFile, retired, faults, cuts>>
      BY <1>3 DEF PowerLoss
    <2>2. owed' \subseteq Content
      BY <2>1 DEF PendingContent, TypeOK, Manifest, Generation
    <2>3. TypeOK'
      BY <2>1, <2>2, IdleTyped DEF TypeOK
    <2>4. WriterInv' /\ RetirementInv'
      BY <2>1 DEF WriterInv, RetirementInv, At, Idle
    <2>5. OwedInv' /\ PendingRecoverable'
      BY <2>1 DEF OwedInv, PendingRecoverable, IsPendingManifest, PendingContent
    <2>6. LegacyInv'
      BY <2>1 DEF LegacyInv
    <2>. QED BY <2>3, <2>4, <2>5, <2>6
  <1>. QED
    BY <1>1, <1>2, <1>3

\* Every step keeps the invariant.
LEMMA NextIInv == IInv /\ [Next]_vars => IInv'
  <1> SUFFICES ASSUME IInv, [Next]_vars
               PROVE  IInv'
    OBVIOUS
  <1>1. CASE Next
    BY <1>1, BeginStep, GenerationStep, ReplaceStep, SettleStep, RetirementStep,
       EnvironmentStep
    DEF Next
  <1>2. CASE UNCHANGED vars
    BY <1>2 DEF vars, files, IInv, TypeOK, WriterInv, RetirementInv, OwedInv,
       LegacyInv, PendingRecoverable, Bound, IsPendingManifest, Cur, At, IsCompletion,
       PairIsDamaged
  <1>. QED
    BY <1>1, <1>2

\* The invariant holds in every state the cache can reach.
LEMMA AlwaysIInv == Spec => []IInv
  BY InitIInv, NextIInv, PTL DEF Spec

-----------------------------------------------------------------------------
(* Theorems. *)

\* The cache is well typed in every reachable state.
THEOREM TypeCorrect == Spec => []TypeOK
  <1>1. IInv => TypeOK
    BY DEF IInv
  <1>. QED
    BY <1>1, AlwaysIInv, PTL

\* An acknowledged pending save survives every sequence of writes, failures,
\* crashes and power losses until it is resolved, or removed as a version-1 pair
\* whose bytes no longer authenticate.
THEOREM PendingSurvives == Spec => []PendingRecoverable
  <1>1. IInv => PendingRecoverable
    BY DEF IInv
  <1>. QED
    BY <1>1, AlwaysIInv, PTL

\* Only a call that names the pending save, and its operation if it is an
\* autofill save, puts another manifest in its place, and nothing but the
\* clean-up of a damaged version-1 pair removes it.
THEOREM PendingReplaced == Spec => PendingReplacedByProof
  <1> DEFINE P == (manifest # NoManifest /\ Cur.pending /\ manifest' \notin exposed) =>
                     IF manifest' = NoManifest THEN PairIsDamaged
                     ELSE /\ txn.req # NoReq /\ txn.req.expected = Cur.c
                          /\ Cur.kind = "Autofill" =>
                                txn.req.op = "completeAutofill" /\ txn.req.id = Cur.op
  <1>1. IInv /\ [Next]_vars => [P]_vars
    <2> SUFFICES ASSUME IInv, Next, manifest # NoManifest, Cur.pending,
                        manifest' \notin exposed
                 PROVE  \/ manifest' = NoManifest /\ PairIsDamaged
                        \/ /\ manifest' # NoManifest
                           /\ txn.req # NoReq /\ txn.req.expected = Cur.c
                           /\ Cur.kind = "Autofill" =>
                                 txn.req.op = "completeAutofill" /\ txn.req.id = Cur.op
      OBVIOUS
    <2>1. manifest \in exposed /\ IsPendingManifest(manifest)
      BY DEF IInv, TypeOK, IsPendingManifest, Cur
    <2>2. ASSUME RestoreManifest \/ OutcomeUnknown
          PROVE  manifest' \in exposed
      BY <2>1, <2>2 DEF RestoreManifest, OutcomeUnknown, IInv, WriterInv
    <2>3. ASSUME RemoveManifest
          PROVE  manifest' = NoManifest /\ PairIsDamaged
      BY <2>1, <2>3 DEF RemoveManifest, IInv, RetirementInv
    <2>4. ASSUME NEW lost \in SUBSET unsynced, PowerLoss(lost)
          PROVE  manifest' \in exposed
      BY <2>4 DEF PowerLoss
    <2>5. manifest' # manifest
      BY <2>1
    <2>6. RemoveManifest \/ ReplaceManifest
      BY <2>2, <2>4, <2>5
      DEF Next, BeginWrite, BeginSourceWrite, SourceWriteSucceeds, SourceWriteFails,
          EnsureGeneration, EnsureGenerationFails, PublishFails, SyncManifest,
          FinishDurable, PurgeFiles, BeginRetirement, BeginCleanupAfterIntent,
          BeginGuard, SyncAbsence, CancelRetirement, Activate, ProcessDies,
          DamageFile, files
    <2>7. CASE ReplaceManifest
      <3>1. txn.req \in Request /\ Bound(txn.req)
        BY <2>7 DEF ReplaceManifest, IInv, WriterInv, At
      <3>2. manifest' # NoManifest
        BY <2>7, <3>1, NextManifestTyped, NullsAssumption
        DEF ReplaceManifest, IInv, TypeOK
      <3>. QED
        BY <2>1, <3>1, <3>2, NullsAssumption DEF Bound
    <2>. QED
      BY <2>3, <2>6, <2>7
  <1>. QED
    BY <1>1, AlwaysIInv, PTL DEF Spec, PendingReplacedByProof

-----------------------------------------------------------------------------
(* The cache implements the compare-and-swap slot. *)

\* An update carries the kind of pending save it makes, an autofill save and
\* its completion an operation.
HasArguments(r) ==
    /\ r.op = "update" => r.kind \in ResidentKind
    /\ r.op \in {"pendAutofill", "completeAutofill"} => r.id \in OpId

\* The pending save in the slot is of one of the kinds; a pair is a source write.
PendingAs(kinds) ==
    \/ SlotOf(manifest).kind \in kinds
    \/ SlotOf(manifest).kind = "Pair" /\ "Generic" \in kinds

\* What the authorization of r says of the slot that r is to change.
Fits(r) ==
    /\ r.op = "write" => ~IsPendingManifest(manifest)
    /\ r.op = "pendAutofill" =>
          manifest # NoManifest /\ ~IsPendingManifest(manifest) /\ Cur.c = r.expected
    /\ r.op = "update" =>
          /\ manifest # NoManifest => Cur.c = r.expected
          /\ IsPendingManifest(manifest) => PendingAs({r.kind})
    /\ r.op = "complete" =>
          /\ IsPendingManifest(manifest) /\ Cur.c = r.expected
          /\ PendingAs(ResidentKind)
    /\ r.op = "completeAutofill" =>
          /\ IsPendingManifest(manifest) /\ Cur.c = r.expected
          /\ SlotOf(manifest).kind = "Autofill" /\ Cur.op = r.id

FitInv ==
    /\ txn.stage \in {"source", "generations"} => HasArguments(txn.req)
    /\ At("generations") => Fits(txn.req)

\* The authorization establishes it.
LEMMA AuthorizedFits ==
    ASSUME NEW r \in Request, HasArguments(r), IsAuthorized(r), LegacyInv,
           manifest \in exposed
    PROVE  Fits(r)
  <1>1. CASE manifest = NoManifest
    <2>1. ReadStatus = "Missing"
      BY <1>1 DEF ReadStatus
    <2>2. r.op \in {"write", "update"}
      BY <2>1 DEF IsAuthorized
    <2>. QED
      BY <1>1, <2>2 DEF Fits, IsPendingManifest
  <1>2. CASE manifest # NoManifest
    <2>1. ReadStatus # "Missing"
      BY <1>2 DEF ReadStatus
    <2>2. IsPendingManifest(manifest) <=> Cur.pending
      BY <1>2 DEF IsPendingManifest, Cur
    <2>3. IsLegacy => Cur.kind = "Unset"
      BY <1>2 DEF IsLegacy, LegacyInv, Cur
    <2>4. Cur.pending => SlotOf(manifest).kind =
                            (IF manifest.version = 1 THEN "Pair"
                             ELSE IF Cur.kind = "Unset" THEN "Generic" ELSE Cur.kind)
      BY <1>2 DEF SlotOf, Cur
    <2>5. CASE r.op \in {"write", "pendAutofill"}
      BY <1>2, <2>1, <2>2, <2>5 DEF IsAuthorized, Fits
    <2>6. CASE r.op = "completeAutofill"
      BY <1>2, <2>1, <2>2, <2>4, <2>6
      DEF IsAuthorized, PendingChainIsSound, Fits, IsLegacy
    <2>7. CASE r.op = "update"
      <3>1. r.kind \in ResidentKind /\ ProofKinds(r) = {r.kind}
        BY <2>7 DEF HasArguments, ProofKinds
      <3>2. Cur.c = r.expected /\ (~Cur.pending \/ PendingIsGeneric({r.kind}))
        BY <2>1, <2>7, <3>1 DEF IsAuthorized
      <3>3. Cur.pending => PendingAs({r.kind})
        BY <2>3, <2>4, <3>1, <3>2 DEF PendingIsGeneric, ResidentKind, PendingAs, IsLegacy
      <3>. QED
        BY <2>2, <2>7, <3>2, <3>3 DEF Fits
    <2>8. CASE r.op = "complete"
      <3>1. Cur.c = r.expected /\ PendingIsGeneric(ResidentKind)
        BY <2>1, <2>8 DEF IsAuthorized, ProofKinds
      <3>2. Cur.pending /\ PendingAs(ResidentKind)
        BY <2>3, <2>4, <3>1 DEF PendingIsGeneric, ResidentKind, PendingAs, IsLegacy
      <3>. QED
        BY <2>2, <2>8, <3>1, <3>2 DEF Fits
    <2>. QED
      BY <2>5, <2>6, <2>7, <2>8 DEF Request
  <1>. QED
    BY <1>1, <1>2

\* ... and the lock keeps it until the manifest is replaced.
LEMMA NextFitInv == IInv /\ FitInv /\ [Next]_vars => FitInv'
  <1> SUFFICES ASSUME IInv, FitInv, [Next]_vars
               PROVE  FitInv'
    OBVIOUS
  <1>. USE DEF files
  <1>a. ASSUME UNCHANGED <<manifest>>, UNCHANGED txn.stage, UNCHANGED txn.req
        PROVE  FitInv'
    BY <1>a DEF FitInv, Fits, PendingAs, At, IsPendingManifest, Cur, SlotOf, HasArguments
  <1>b. ASSUME txn'.stage \notin {"source", "generations"}
        PROVE  FitInv'
    BY <1>b DEF FitInv, At
  <1>c. ASSUME NEW r \in Request, HasArguments(r), IsAuthorized(r), Start(r),
               UNCHANGED manifest
        PROVE  FitInv'
    <2>1. Fits(r)'
      BY <1>c, AuthorizedFits
      DEF IInv, TypeOK, Fits, PendingAs, IsPendingManifest, Cur, SlotOf
    <2>. QED
      BY <1>c, <2>1 DEF FitInv, Start, At
  <1>d. Idle.stage = "idle"
    BY DEF Idle
  <1>1. ASSUME NEW r \in Requests, BeginWrite(r)
        PROVE  FitInv'
    <2>1. HasArguments(r)
      BY DEF Requests, WriteRequests, PendAutofillRequests, CompleteAutofillRequests,
             UpdateRequests, CompleteRequests, Req, HasArguments, ResidentKind
    <2>. QED
      BY <1>1, <1>c, <2>1, RequestsTyped DEF BeginWrite
  <1>2. ASSUME NEW c \in Content, BeginSourceWrite(c)
        PROVE  FitInv'
    BY <1>2 DEF BeginSourceWrite, FitInv, HasArguments, Req, At, Idle
  <1>3. ASSUME NEW c \in Content, SourceWriteSucceeds(c)
        PROVE  FitInv'
    <2> DEFINE r == [txn.req EXCEPT !.c = c]
    <2>1. r \in Request /\ HasArguments(r)
      BY <1>3 DEF SourceWriteSucceeds, IInv, WriterInv, FitInv, At, Request, HasArguments
    <2>2. CASE ~retired /\ IsAuthorized(r)
      BY <1>3, <1>c, <2>1, <2>2 DEF SourceWriteSucceeds
    <2>3. CASE ~(~retired /\ IsAuthorized(r))
      BY <1>3, <1>b, <1>d, <2>3 DEF SourceWriteSucceeds
    <2>. QED BY <2>2, <2>3
  <1>4. ASSUME NEW c \in Content, EnsureGeneration(c)
        PROVE  FitInv'
    BY <1>4, <1>a DEF EnsureGeneration, IInv, TypeOK, Transaction
  <1>5. ASSUME ReplaceManifest \/ RemoveManifest \/ SyncAbsence
        PROVE  FitInv'
    BY <1>5, <1>b DEF ReplaceManifest, RemoveManifest, SyncAbsence, IInv, TypeOK,
                      Transaction
  <1>6. ASSUME SyncManifest \/ BeginRetirement \/ BeginCleanupAfterIntent
        PROVE  FitInv'
    BY <1>6, <1>b DEF SyncManifest, BeginRetirement, BeginCleanupAfterIntent,
                      BeginGuard, Idle
  <1>7. ASSUME txn' = Idle
        PROVE  FitInv'
    BY <1>7, <1>b, <1>d
  <1>8. ASSUME Activate \/ DamageFile \/ UNCHANGED vars
        PROVE  FitInv'
    BY <1>8, <1>a DEF Activate, DamageFile, vars
  <1>. QED
    BY <1>1, <1>2, <1>3, <1>4, <1>5, <1>6, <1>7, <1>8
    DEF Next, SourceWriteFails, EnsureGenerationFails, PublishFails, RestoreManifest,
        OutcomeUnknown, FinishDurable, PurgeFiles, CancelRetirement, ProcessDies,
        PowerLoss

\* The publication of a manifest is a step of the slot.
LEMMA ReplaceRefines ==
    ASSUME IInv, FitInv, ReplaceManifest
    PROVE  Slot!Next
  <1> DEFINE r == txn.req
             next == NextManifest(r)
             new == SlotOf(next)
  <1>1. r \in Request /\ Fits(r) /\ HasArguments(r)
    BY DEF ReplaceManifest, IInv, WriterInv, FitInv, At
  <1>2. next # NoManifest
    BY <1>1, NextManifestTyped, NullsAssumption DEF IInv, TypeOK
  <1>3. /\ next.version = 3 /\ next.current.c = r.c
        /\ next.current.pending <=> r.op \in {"pendAutofill", "update"}
        /\ next.current.kind = PublishedKind(r)
        /\ next.current.op = IF r.op = "pendAutofill" THEN r.id ELSE NoOp
    BY DEF NextManifest
  <1>. HIDE DEF next, r
  <1>4. manifest' = next /\ exposed' = exposed \cup {next} /\ UNCHANGED bytesFile
    BY DEF ReplaceManifest, next, r
  <1>5. SlotOf(manifest') = new /\ (bytesFile # "ok")' = (bytesFile # "ok")
        /\ {SlotOf(m) : m \in exposed'} = {SlotOf(m) : m \in exposed} \cup {new}
    BY <1>4
  <1>6. new = [c |-> r.c,
               op |-> IF r.op = "pendAutofill" THEN r.id ELSE NoOp,
               kind |-> CASE r.op = "pendAutofill" -> "Autofill"
                          [] r.op = "update" -> r.kind
                          [] OTHER -> "Clean"]
    <2>1. new = [c |-> r.c, op |-> next.current.op,
                 kind |-> IF ~next.current.pending THEN "Clean"
                          ELSE IF next.current.kind = "Unset" THEN "Generic"
                          ELSE next.current.kind]
      BY <1>2, <1>3 DEF SlotOf
    <2>2. CASE r.op = "pendAutofill"
      BY <1>3, <2>1, <2>2 DEF PublishedKind
    <2>3. CASE r.op = "update"
      BY <1>1, <1>3, <2>1, <2>3 DEF PublishedKind, HasArguments, ResidentKind
    <2>4. CASE r.op \notin {"pendAutofill", "update"}
      BY <1>3, <2>1, <2>4
    <2>. QED BY <2>2, <2>3, <2>4
  <1>7. manifest # NoManifest =>
           /\ SlotOf(manifest).c = Cur.c /\ SlotOf(manifest).op = Cur.op
           /\ ~IsPendingManifest(manifest) => SlotOf(manifest).kind = "Clean"
    BY DEF SlotOf, Cur, IsPendingManifest
  <1>8. manifest = NoManifest => SlotOf(manifest) = NoManifest
    BY DEF SlotOf
  <1>9. ~IsPendingManifest(manifest) => ~Slot!IsPending(SlotOf(manifest))
    BY <1>7, <1>8 DEF Slot!IsPending
  <1>10. manifest # NoManifest /\ SlotOf(manifest).kind # "None" =>
            SlotOf(manifest) # NoManifest
    <2>1. manifest # NoManifest =>
             /\ Cur.c \in Content /\ Cur.op \in OpId \cup {NoOp}
             /\ Cur.kind \in PendingKind
      BY DEF IInv, TypeOK, Manifest, Generation, Cur
    <2>2. manifest # NoManifest => SlotOf(manifest).kind \in
             {"Clean", "Generic", "Pair", "ConflictCopy", "Autofill", "None"}
      BY <2>1 DEF SlotOf, PendingKind, ResidentKind, Cur
    <2>3. manifest # NoManifest /\ SlotOf(manifest).kind # "None" =>
             SlotOf(manifest) \in Slot!Slot
      BY <2>1, <2>2 DEF SlotOf, Slot!Slot, Cur
    <2>. QED
      BY <2>3, EmptySlotAssumption
  <1>11. r.c \in Content /\ (manifest # NoManifest => Cur.c \in Content)
    BY <1>1 DEF Request, IInv, TypeOK, Manifest, Generation, Cur
  <1>. HIDE DEF new
  <1>12. CASE r.op = "write"
    <2>1. Slot!Write(r.c)
      BY <1>1, <1>5, <1>6, <1>9, <1>12 DEF Fits, Slot!Write, Slot!Become, Slot!Clean
    <2>. QED BY <1>11, <2>1 DEF Slot!Next
  <1>13. CASE r.op = "update"
    <2>1. PICK e \in Content :
             manifest # NoManifest => SlotOf(manifest).c = e
      BY <1>7, <1>11
    <2>2. IsPendingManifest(manifest) =>
             \/ SlotOf(manifest).kind = r.kind
             \/ SlotOf(manifest).kind = "Pair" /\ r.kind = "Generic"
      BY <1>1, <1>13 DEF Fits, PendingAs
    <2>3. Slot!Update(r.c, e, r.kind)
      BY <1>5, <1>6, <1>8, <1>9, <1>13, <2>1, <2>2 DEF Slot!Update, Slot!Become
    <2>. QED
      BY <1>1, <1>11, <1>13, <2>3 DEF Slot!Next, HasArguments, ResidentKind
  <1>14. CASE r.op = "pendAutofill"
    <2>1. Slot!PendAutofill(r.c, Cur.c, r.id)
      BY <1>1, <1>5, <1>6, <1>7, <1>9, <1>10, <1>14
      DEF Fits, Slot!PendAutofill, Slot!Become
    <2>. QED
      BY <1>1, <1>11, <1>14, <2>1 DEF Slot!Next, HasArguments, Fits
  <1>15. CASE r.op = "complete"
    <2>1. Slot!Complete(r.c, Cur.c)
      BY <1>1, <1>5, <1>6, <1>7, <1>10, <1>15
      DEF Fits, PendingAs, Slot!Complete, Slot!Become, Slot!Clean, ResidentKind,
          IsPendingManifest
    <2>. QED
      BY <1>1, <1>11, <1>15, <2>1 DEF Slot!Next, Fits, IsPendingManifest
  <1>16. CASE r.op = "completeAutofill"
    <2>1. Slot!CompleteAutofill(r.c, Cur.c, r.id)
      BY <1>1, <1>5, <1>6, <1>7, <1>10, <1>16
      DEF Fits, Slot!CompleteAutofill, Slot!Become, Slot!Clean, IsPendingManifest
    <2>. QED
      BY <1>1, <1>11, <1>16, <2>1 DEF Slot!Next, HasArguments, Fits, IsPendingManifest
  <1>. QED
    BY <1>1, <1>12, <1>13, <1>14, <1>15, <1>16 DEF Request

\* Every step of the cache is a step of the slot or changes nothing there.
LEMMA StepRefines ==
    ASSUME IInv, FitInv, [Next]_vars
    PROVE  [Slot!Next]_<<SlotOf(manifest), {SlotOf(m) : m \in exposed}, bytesFile # "ok">>
  <1>. USE DEF files
  <1>1. ASSUME UNCHANGED <<manifest, exposed, bytesFile>>
        PROVE  UNCHANGED <<SlotOf(manifest), {SlotOf(m) : m \in exposed}, bytesFile # "ok">>
    BY <1>1 DEF SlotOf
  <1>2. ASSUME UNCHANGED <<manifest, bytesFile>>, exposed' = {manifest}
        PROVE  Slot!Next
    BY <1>2 DEF Slot!Next, Slot!Settle, SlotOf
  <1>3. ASSUME manifest' \in exposed, exposed' \in {exposed, {manifest'}},
               UNCHANGED bytesFile
        PROVE  Slot!Next
    BY <1>3 DEF Slot!Next, Slot!Revert, SlotOf
  <1>8. ASSUME UNCHANGED <<manifest, exposed>>, bytesFile' # "ok"
        PROVE  Slot!Next
    BY <1>8 DEF Slot!Next, Slot!LoseBytes, SlotOf
  <1>9. ASSUME \E removed \in SUBSET Content : PurgeFiles(removed)
        PROVE  Slot!Next
    BY <1>8, <1>9 DEF PurgeFiles
  <1>10. ASSUME DamageFile
         PROVE  Slot!Next \/ UNCHANGED <<manifest, exposed, bytesFile>>
    BY <1>8, <1>10 DEF DamageFile
  <1>4. ASSUME RemoveManifest
        PROVE  Slot!Next
    <2>1. Slot!IsPending(SlotOf(manifest)) =>
             SlotOf(manifest).kind = "Pair" /\ bytesFile # "ok"
      BY <1>4 DEF RemoveManifest, IInv, RetirementInv, IsPendingManifest,
                  Slot!IsPending, SlotOf, PairIsDamaged
    <2>2. SlotOf(manifest') = NoManifest /\ UNCHANGED bytesFile
          /\ {SlotOf(m) : m \in exposed'} = {SlotOf(m) : m \in exposed} \cup {NoManifest}
      BY <1>4 DEF RemoveManifest, SlotOf
    <2>. QED
      BY <2>1, <2>2 DEF Slot!Next, Slot!Remove, Slot!Become
  <1>5. ASSUME RestoreManifest \/ OutcomeUnknown
        PROVE  Slot!Next
    BY <1>3, <1>5 DEF RestoreManifest, OutcomeUnknown, IInv, WriterInv, TypeOK
  <1>6. ASSUME NEW lost \in SUBSET unsynced, PowerLoss(lost)
        PROVE  Slot!Next
    BY <1>3, <1>6 DEF PowerLoss
  <1>7. ASSUME SyncManifest \/ SyncAbsence
        PROVE  Slot!Next
    BY <1>2, <1>7 DEF SyncManifest, SyncAbsence
  <1>. QED
    BY <1>1, <1>4, <1>5, <1>6, <1>7, <1>9, <1>10, ReplaceRefines
    DEF Next, BeginWrite, BeginSourceWrite, SourceWriteSucceeds, SourceWriteFails,
        EnsureGeneration, EnsureGenerationFails, PublishFails, FinishDurable,
        BeginRetirement, BeginCleanupAfterIntent, BeginGuard,
        CancelRetirement, Activate, ProcessDies, vars

\* The files found at the start are a slot at rest.
LEMMA InitRefines == Init => Slot!Init
  <1> SUFFICES ASSUME Init PROVE Slot!Init
    OBVIOUS
  <1>1. {SlotOf(m) : m \in exposed} = {SlotOf(manifest)}
    BY DEF Init
  <1>2. CASE manifest = NoManifest
    <2>1. NoManifest \notin [c : Content, kind : {"Pair"}, op : {NoOp}]
      BY EmptySlotAssumption DEF Slot!Slot
    <2>. QED
      BY <1>1, <1>2, <2>1 DEF SlotOf, Slot!Init
  <1>3. CASE manifest # NoManifest
    <2>1. manifest.current.c \in Content /\ manifest.current.op = NoOp
          /\ (manifest.current.pending => manifest.current.kind = "Unset")
      BY <1>3 DEF Init, InitialManifests, OldGenerations, Committed
    <2>2. SlotOf(manifest) \in {Slot!Clean(c) : c \in Content}
                                 \cup [c : Content, kind : {"Generic", "Pair"}, op : {NoOp}]
      BY <1>3, <2>1 DEF SlotOf, Slot!Clean
    <2>3. SlotOf(manifest) \in [c : Content, kind : {"Pair"}, op : {NoOp}]
             => bytesFile = "ok"
      BY <1>3, <2>1 DEF SlotOf, Init
    <2>. QED
      BY <1>1, <2>2, <2>3 DEF Slot!Init
  <1>. QED
    BY <1>2, <1>3

\* The manifest, the generations and the lock implement the compare-and-swap
\* slot that the runtime relies on, through failures and power losses.
THEOREM Refinement == Spec => ImplementsPendingSlot
  <1>1. Init => FitInv
    BY DEF Init, FitInv, Idle, At
  <1>2. Spec => []FitInv
    BY <1>1, AlwaysIInv, NextFitInv, PTL DEF Spec
  <1>3. IInv /\ FitInv /\ [Next]_vars
          => [Slot!Next]_<<SlotOf(manifest), {SlotOf(m) : m \in exposed}, bytesFile # "ok">>
    BY StepRefines
  <1>. QED
    BY <1>2, <1>3, InitRefines, AlwaysIInv, PTL
    DEF Spec, ImplementsPendingSlot, Slot!Spec

-----------------------------------------------------------------------------
(* What a reader finds. *)

\* The transaction in flight carries the arguments of its call, and an autofill
\* save was authorized against a committed vault, which the lock keeps.
CallInv ==
    /\ At("source") => txn.req \in CompleteRequests
    /\ At("generations") =>
          /\ txn.req \in Requests
          /\ txn.req.op = "pendAutofill" =>
                manifest # NoManifest /\ ~Cur.pending /\ Cur.c = txn.req.expected

\* The generations of a new manifest have a schema, its previous one if it is
\* not one of a version-2 manifest.
IsWellFormed(m) ==
    m.version = 3 =>
        /\ GenerationPendingSchemaIsValid(m.current)
        /\ m.observed # NoGen => GenerationPendingSchemaIsValid(m.observed)
        /\ m.previous # NoGen =>
              m.previous.kind = "Unset" \/ GenerationPendingSchemaIsValid(m.previous)

\* A manifest of an earlier release observes no source and has generations
\* without a kind; a pending autofill save carries its chain.
FormInv ==
    \A m \in exposed \ {NoManifest} :
        /\ m.version # 3 =>
              /\ m.observed = NoGen /\ m.current.op = NoOp
              /\ m.previous # NoGen => m.previous.kind = "Unset"
        /\ IsWellFormed(m)
        /\ m.current.kind = "Autofill" =>
              /\ m.previous # NoGen /\ m.observed # NoGen
              /\ IsCommitted(m.previous) /\ IsCommitted(m.observed)
              /\ m.current.cond # NoCond /\ m.current.cond = m.observed.cond
              /\ m.current.c \notin {m.previous.c, m.observed.c}

\* The generation files that the next manifest will name are there before it is,
\* and nothing else than the manifest that is kept can come back while files are
\* removed.
FilesInv ==
    /\ At("generations") => \A c \in Todo(txn.req) \ txn.todo : gens[c] # "absent"
    /\ txn.stage \in {"durable", "purge"} => exposed = {manifest}
    /\ cuts = 0 => unsynced = {}

DiskInv == CallInv /\ FormInv /\ FilesInv /\ NoDanglingManifest

\* A manifest's generations.
LEMMA ManifestParts ==
    ASSUME NEW m \in Manifest
    PROVE  /\ m.version \in 1 .. 3 /\ m.current \in Generation
           /\ m.previous \in Generation \cup {NoGen}
           /\ m.observed \in Generation \cup {NoGen}
           /\ m # NoManifest
           /\ Referenced(m) \subseteq Content
           /\ Referenced(m) = {m.current.c}
                 \cup (IF m.previous = NoGen THEN {} ELSE {m.previous.c})
                 \cup (IF m.observed = NoGen THEN {} ELSE {m.observed.c})
  <1>1. /\ m.version \in 1 .. 3 /\ m.current \in Generation
        /\ m.previous \in Generation \cup {NoGen}
        /\ m.observed \in Generation \cup {NoGen}
        /\ m # NoManifest
    BY NullsAssumption DEF Manifest
  <1>2. \A g \in Generation : g.c \in Content /\ g # NoGen
    BY NullsAssumption DEF Generation
  <1>3. Referenced(m) = {m.current.c}
                 \cup (IF m.previous = NoGen THEN {} ELSE {m.previous.c})
                 \cup (IF m.observed = NoGen THEN {} ELSE {m.observed.c})
    BY <1>1, <1>2 DEF Referenced, Fallbacks
  <1>. QED
    BY <1>1, <1>2, <1>3

\* The calls carry what their operation needs.
LEMMA RequestParts ==
    /\ CompleteRequests \subseteq Requests
    /\ \A r \in Requests :
          /\ r.c \in Content /\ r.obs \in Content \cup {NoContent}
          /\ r.op \in {"write", "pendAutofill", "completeAutofill", "update", "complete"}
          /\ r.op = "pendAutofill" =>
                /\ r.id \in OpId /\ r.cond \in Cond /\ r.obs \in Content
                /\ r.c \notin {r.expected, r.obs}
          /\ r.op = "update" => r.kind \in ResidentKind
    /\ \A r \in CompleteRequests, c \in Content :
          r.op = "complete" /\ [r EXCEPT !.c = c] \in CompleteRequests
  <1>1. CompleteRequests \subseteq Requests
    BY DEF Requests
  <1>2. \A r \in CompleteRequests, c \in Content :
          r.op = "complete" /\ [r EXCEPT !.c = c] \in CompleteRequests
    BY DEF CompleteRequests, Req
  <1>3. \A r \in Requests :
          /\ r.c \in Content /\ r.obs \in Content \cup {NoContent}
          /\ r.op \in {"write", "pendAutofill", "completeAutofill", "update", "complete"}
    BY RequestsTyped DEF Request
  <1>4. \A r \in Requests :
          /\ r.op = "pendAutofill" =>
                /\ r.id \in OpId /\ r.cond \in Cond /\ r.obs \in Content
                /\ r.c \notin {r.expected, r.obs}
          /\ r.op = "update" => r.kind \in ResidentKind
    <2>1. \A r \in WriteRequests : r.op = "write"
      BY DEF WriteRequests, Req
    <2>2. \A r \in CompleteAutofillRequests : r.op = "completeAutofill"
      BY DEF CompleteAutofillRequests, Req
    <2>3. \A r \in UpdateRequests : r.op = "update" /\ r.kind \in ResidentKind
      BY DEF UpdateRequests, Req, ResidentKind
    <2>4. \A r \in PendAutofillRequests :
             /\ r.op = "pendAutofill" /\ r.id \in OpId /\ r.cond \in Cond /\ r.obs \in Content
             /\ r.c \notin {r.expected, r.obs}
      BY DEF PendAutofillRequests, Req
    <2>5. \A r \in CompleteRequests : r.op = "complete"
      BY DEF CompleteRequests, Req
    <2>6. TAKE r \in Requests
    <2>7. CASE r \in WriteRequests
      BY <2>1, <2>7
    <2>8. CASE r \in CompleteAutofillRequests
      BY <2>2, <2>8
    <2>9. CASE r \in UpdateRequests
      BY <2>3, <2>9
    <2>10. CASE r \in PendAutofillRequests
      BY <2>4, <2>10
    <2>11. CASE r \in CompleteRequests
      BY <2>5, <2>11
    <2>. QED
      BY <2>7, <2>8, <2>9, <2>10, <2>11 DEF Requests
  <1>. QED
    BY <1>1, <1>2, <1>3, <1>4

\* A committed generation has a schema, and so has each kind of pending save.
LEMMA CommittedSchema ==
    ASSUME NEW g, g.kind = "None", ~g.pending, g.op = NoOp
    PROVE  GenerationPendingSchemaIsValid(g)
  BY DEF GenerationPendingSchemaIsValid, ResidentKind
LEMMA PendingSchema ==
    ASSUME NEW g, g.pending,
           \/ g.kind \in ResidentKind /\ g.op = NoOp
           \/ g.kind = "Autofill" /\ g.op # NoOp
    PROVE  GenerationPendingSchemaIsValid(g)
  BY DEF GenerationPendingSchemaIsValid, ResidentKind

\* The one ill-formed manifest is one that carries an old generation.
LEMMA SchemaOrOld ==
    ASSUME NEW m \in Manifest, IsWellFormed(m)
    PROVE  SchemaIsValid(m) \/ CarriesOldGeneration(m)
  BY DEF IsWellFormed, SchemaIsValid, CarriesOldGeneration, Fallbacks

\* The files to make durable are generation files.
LEMMA TodoTyped ==
    ASSUME TypeOK, NEW r \in Requests
    PROVE  Todo(r) \subseteq Content
  <1>1. manifest # NoManifest => Cur \in Generation
    BY DEF TypeOK, Manifest, Cur
  <1>2. manifest # NoManifest => Cur.c \in Content
    BY <1>1 DEF Generation
  <1>3. r.c \in Content /\ r.obs \in Content \cup {NoContent}
    BY RequestParts
  <1>. QED
    BY <1>2, <1>3 DEF Todo

\* The files found at the start satisfy it.
LEMMA DiskInit == Init => DiskInv
  <1>. SUFFICES ASSUME Init PROVE DiskInv
    OBVIOUS
  <1>1. manifest \in InitialManifests /\ exposed = {manifest} /\ txn = Idle /\ unsynced = {}
    BY DEF Init
  <1>2. CASE manifest = NoManifest
    BY <1>1, <1>2 DEF DiskInv, CallInv, FormInv, FilesInv, NoDanglingManifest, At, Idle
  <1>3. CASE manifest # NoManifest
    <2>1. manifest \in Manifest
      BY <1>1, <1>3, InitialManifestsTyped
    <2>2. /\ manifest.observed = NoGen
          /\ manifest.current.op = NoOp /\ manifest.current.kind \in {"None", "Unset"}
          /\ manifest.version = 3 =>
                /\ ~manifest.current.pending /\ manifest.current.kind = "None"
                /\ manifest.previous = NoGen
          /\ manifest.version = 1 => manifest.previous = NoGen
          /\ manifest.previous # NoGen => manifest.previous.kind = "Unset"
      BY <1>1, <1>3 DEF InitialManifests, OldGenerations, Committed
    <2>3. IsWellFormed(manifest)
      <3>1. ASSUME manifest.version = 3
            PROVE  GenerationPendingSchemaIsValid(manifest.current)
        <4>1. /\ manifest.current.kind = "None" /\ ~manifest.current.pending
              /\ manifest.current.op = NoOp
          BY <2>2, <3>1
        <4>. QED
          BY <4>1, CommittedSchema
      <3>. QED
        BY <2>2, <3>1 DEF IsWellFormed
    <2>4. FormInv
      <3>1. manifest.current.kind # "Autofill"
        BY <2>2
      <3>. QED
        BY <1>1, <2>2, <2>3, <3>1 DEF FormInv
    <2>5. Referenced(manifest) \subseteq Content
          /\ (manifest.version = 1 => Referenced(manifest) = {manifest.current.c})
      BY <2>1, <2>2, ManifestParts
    <2>6. \A c \in Referenced(manifest) : FileExists(manifest, c)
      <3>1. CASE manifest.version = 1
        <4>1. bytesFile = "ok"
          BY <1>3, <3>1 DEF Init
        <4>. QED
          BY <2>5, <3>1, <4>1 DEF FileExists
      <3>2. CASE manifest.version # 1
        <4>1. gens = [c \in Content |-> IF c \in Referenced(manifest) THEN "ok" ELSE "absent"]
          BY <1>3, <3>2 DEF Init
        <4>2. \A c \in Referenced(manifest) : gens[c] = "ok"
          BY <2>5, <4>1
        <4>. QED
          BY <3>2, <4>2 DEF FileExists
      <3>. QED
        BY <3>1, <3>2
    <2>7. NoDanglingManifest
      BY <1>1, <2>6 DEF NoDanglingManifest
    <2>8. CallInv /\ FilesInv
      BY <1>1 DEF CallInv, FilesInv, At, Idle
    <2>. QED
      BY <2>4, <2>7, <2>8 DEF DiskInv
  <1>. QED
    BY <1>2, <1>3

\* Files that stay and manifests that go leave the disk as sound as it was.
LEMMA DiskKept ==
    ASSUME TypeOK, FormInv, NoDanglingManifest,
           exposed' \subseteq exposed \cup {NoManifest},
           cuts' = 0 => cuts = 0,
           cuts' = 0 => \A c \in Content : gens[c] # "absent" => gens'[c] # "absent",
           bytesFile # "absent" => bytesFile' # "absent"
    PROVE  FormInv' /\ NoDanglingManifest'
  <1>1. FormInv'
    BY DEF FormInv
  <1>2. ASSUME cuts' = 0, NEW m \in exposed' \ {NoManifest}, NEW c \in Referenced(m)
        PROVE  FileExists(m, c)'
    <2>1. m \in exposed \ {NoManifest} /\ m \in Manifest
      BY <1>2 DEF TypeOK
    <2>2. c \in Content
      BY <1>2, <2>1, ManifestParts
    <2>3. FileExists(m, c)
      BY <1>2, <2>1 DEF NoDanglingManifest
    <2>4. CASE m.version = 1 /\ c = m.current.c
      BY <2>3, <2>4 DEF FileExists
    <2>5. CASE ~(m.version = 1 /\ c = m.current.c)
      BY <1>2, <2>2, <2>3, <2>5 DEF FileExists
    <2>. QED
      BY <2>4, <2>5
  <1>3. NoDanglingManifest'
    BY <1>2 DEF NoDanglingManifest
  <1>. QED
    BY <1>1, <1>3

\* A generation of a new manifest, whatever the layout it was read in, has a
\* schema, and a generation that is not pending is committed.
LEMMA NormalizedParts ==
    ASSUME TypeOK, FormInv, LegacyInv, manifest # NoManifest
    PROVE  /\ manifest \in Manifest /\ Cur = manifest.current
           /\ NormalizedCurrent \in Generation /\ NormalizedCurrent # NoGen
           /\ NormalizedCurrent.c = Cur.c /\ NormalizedCurrent.pending = Cur.pending
           /\ GenerationPendingSchemaIsValid(NormalizedCurrent)
           /\ ~Cur.pending => IsCommitted(NormalizedCurrent)
           /\ manifest.previous # NoGen =>
                 manifest.previous.kind = "Unset"
                 \/ GenerationPendingSchemaIsValid(manifest.previous)
           /\ manifest.observed # NoGen => GenerationPendingSchemaIsValid(manifest.observed)
  <1>1. manifest \in Manifest /\ Cur = manifest.current /\ Cur \in Generation
    BY ManifestParts DEF TypeOK, Cur
  <1>2. manifest \in exposed \ {NoManifest}
    BY DEF TypeOK
  <1>3. CASE IsLegacy
    <2>1. /\ manifest.observed = NoGen /\ Cur.op = NoOp
          /\ manifest.previous # NoGen => manifest.previous.kind = "Unset"
      BY <1>1, <1>2, <1>3 DEF FormInv, IsLegacy
    <2>2. NormalizedCurrent = [Cur EXCEPT !.kind = IF Cur.pending THEN "Generic" ELSE "None"]
      BY <1>3 DEF NormalizedCurrent
    <2>3. /\ NormalizedCurrent \in Generation
          /\ NormalizedCurrent.c = Cur.c /\ NormalizedCurrent.pending = Cur.pending
          /\ NormalizedCurrent.op = NoOp
          /\ NormalizedCurrent.kind = IF Cur.pending THEN "Generic" ELSE "None"
      BY <1>1, <2>1, <2>2 DEF Generation, PendingKind, ResidentKind
    <2>4. GenerationPendingSchemaIsValid(NormalizedCurrent)
      BY <1>1, <2>3 DEF GenerationPendingSchemaIsValid, ResidentKind, Generation
    <2>5. ~Cur.pending => IsCommitted(NormalizedCurrent)
      BY <2>3 DEF IsCommitted
    <2>. QED
      BY <1>1, <2>1, <2>3, <2>4, <2>5, NullsAssumption
  <1>4. CASE ~IsLegacy
    <2>1. NormalizedCurrent = Cur
      BY <1>4 DEF NormalizedCurrent
    <2>2. /\ GenerationPendingSchemaIsValid(Cur)
          /\ manifest.observed # NoGen => GenerationPendingSchemaIsValid(manifest.observed)
          /\ manifest.previous # NoGen =>
                manifest.previous.kind = "Unset"
                \/ GenerationPendingSchemaIsValid(manifest.previous)
      BY <1>1, <1>2, <1>4 DEF FormInv, IsWellFormed, IsLegacy
    <2>3. ~Cur.pending => IsCommitted(Cur)
      <3>1. GenerationPendingSchemaIsValid(Cur)
        BY <2>2
      <3>. QED
        BY <1>1, <3>1 DEF GenerationPendingSchemaIsValid, IsCommitted, Generation,
                          PendingKind, ResidentKind
    <2>. QED
      BY <1>1, <2>1, <2>2, <2>3, NullsAssumption
  <1>. QED
    BY <1>3, <1>4

\* What write_with_source_context_locked keeps of the previous manifest has a
\* schema, but for the previous generation of a version-2 manifest, and names
\* files that the previous manifest named.
LEMMA InheritedParts ==
    ASSUME TypeOK, FormInv, LegacyInv, NEW r \in Request, NEW g,
           g \in {PreviousGeneration(r), InheritedObserved(r)} \ {NoGen}
    PROVE  /\ manifest # NoManifest
           /\ \/ GenerationPendingSchemaIsValid(g)
              \/ g # InheritedObserved(r) /\ g.kind = "Unset"
           /\ g.c \in Referenced(manifest)
  <1>1. manifest # NoManifest
    BY DEF PreviousGeneration, InheritedObserved
  <1>2. g \in {NormalizedCurrent, manifest.previous, manifest.observed} \ {NoGen}
    BY <1>1 DEF PreviousGeneration, InheritedObserved
  <1>3. Referenced(manifest) = {manifest.current.c}
                 \cup (IF manifest.previous = NoGen THEN {} ELSE {manifest.previous.c})
                 \cup (IF manifest.observed = NoGen THEN {} ELSE {manifest.observed.c})
    BY <1>1, ManifestParts DEF TypeOK
  <1>4. g.c \in Referenced(manifest)
    BY <1>1, <1>2, <1>3, NormalizedParts
  <1>5. \/ GenerationPendingSchemaIsValid(g)
        \/ g = manifest.previous /\ g.kind = "Unset"
    BY <1>1, <1>2, NormalizedParts
  <1>6. CASE g = InheritedObserved(r) /\ ~GenerationPendingSchemaIsValid(g)
    <2>1. g = manifest.previous /\ g.kind = "Unset"
      BY <1>5, <1>6
    <2>2. IsCommitted(g)
      BY <1>1, <1>6, <2>1, NormalizedParts DEF InheritedObserved
    <2>. QED
      BY <2>1, <2>2 DEF IsCommitted
  <1>. QED
    BY <1>1, <1>4, <1>5, <1>6

\* The next manifest is well-formed.
LEMMA NextForm ==
    ASSUME IInv, DiskInv, At("generations")
    PROVE  LET m == NextManifest(txn.req)
           IN  /\ m.version = 3
               /\ IsWellFormed(m)
               /\ m.current.kind = "Autofill" =>
                     /\ m.previous # NoGen /\ m.observed # NoGen
                     /\ IsCommitted(m.previous) /\ IsCommitted(m.observed)
                     /\ m.current.cond # NoCond /\ m.current.cond = m.observed.cond
                     /\ m.current.c \notin {m.previous.c, m.observed.c}
  <1> DEFINE r == txn.req
             m == NextManifest(r)
             obs == IF r.obs # NoContent THEN Committed(r.obs, r.cond)
                                         ELSE InheritedObserved(r)
  <1>1. r \in Requests /\ r \in Request
    BY RequestsTyped DEF DiskInv, CallInv
  <1>2. /\ m.version = 3 /\ m.previous = PreviousGeneration(r) /\ m.observed = obs
        /\ m.current = [c |-> r.c, pending |-> r.op \in {"pendAutofill", "update"},
                        kind |-> PublishedKind(r),
                        op |-> IF r.op = "pendAutofill" THEN r.id ELSE NoOp,
                        cond |-> r.cond]
    BY DEF NextManifest
  <1>3. TypeOK /\ FormInv /\ LegacyInv
    BY DEF IInv, DiskInv
  <1>4. r.op = "pendAutofill" =>
           /\ manifest # NoManifest /\ ~Cur.pending /\ Cur.c = r.expected
           /\ r.id \in OpId /\ r.cond \in Cond /\ r.obs \in Content
           /\ r.c \notin {r.expected, r.obs}
    BY <1>1, RequestParts DEF DiskInv, CallInv
  <1>5. r.op \in {"write", "pendAutofill", "completeAutofill", "update", "complete"}
        /\ (r.op = "update" => r.kind \in ResidentKind)
    BY <1>1, RequestParts
  <1>. HIDE DEF r, m
  <1>6. GenerationPendingSchemaIsValid(m.current)
    <2>1. /\ m.current.pending = (r.op \in {"pendAutofill", "update"})
          /\ m.current.kind = PublishedKind(r)
          /\ m.current.op = IF r.op = "pendAutofill" THEN r.id ELSE NoOp
      BY <1>2
    <2>2. CASE r.op = "pendAutofill"
      <3>1. m.current.pending /\ m.current.kind = "Autofill" /\ m.current.op = r.id
        BY <2>1, <2>2 DEF PublishedKind
      <3>2. r.id # NoOp
        BY <1>4, <2>2, ConstantsAssumption
      <3>. QED
        BY <3>1, <3>2, PendingSchema
    <2>3. CASE r.op = "update"
      <3>1. m.current.pending /\ m.current.kind \in ResidentKind /\ m.current.op = NoOp
        BY <1>5, <2>1, <2>3 DEF PublishedKind
      <3>. QED
        BY <3>1, PendingSchema
    <2>4. CASE r.op \notin {"pendAutofill", "update"}
      <3>1. ~m.current.pending /\ m.current.kind = "None" /\ m.current.op = NoOp
        BY <2>1, <2>4 DEF PublishedKind
      <3>. QED
        BY <3>1, CommittedSchema
    <2>. QED
      BY <2>2, <2>3, <2>4
  <1>7. m.previous # NoGen =>
           m.previous.kind = "Unset" \/ GenerationPendingSchemaIsValid(m.previous)
    BY <1>1, <1>2, <1>3, InheritedParts
  <1>8. obs # NoGen => GenerationPendingSchemaIsValid(obs)
    <2>1. CASE r.obs # NoContent
      <3>1. obs = Committed(r.obs, r.cond)
        BY <2>1
      <3>2. obs.kind = "None" /\ ~obs.pending /\ obs.op = NoOp
        BY <3>1 DEF Committed
      <3>. QED
        BY <3>2, CommittedSchema
    <2>2. CASE r.obs = NoContent
      BY <1>1, <1>3, <2>2, InheritedParts
    <2>. QED
      BY <2>1, <2>2
  <1>9. IsWellFormed(m)
    BY <1>2, <1>6, <1>7, <1>8 DEF IsWellFormed
  <1>10. m.current.kind = "Autofill" => r.op = "pendAutofill"
    BY <1>2, <1>5 DEF PublishedKind, ResidentKind
  <1>11. ASSUME r.op = "pendAutofill"
         PROVE  /\ m.previous # NoGen /\ m.observed # NoGen
                /\ IsCommitted(m.previous) /\ IsCommitted(m.observed)
                /\ m.current.cond # NoCond /\ m.current.cond = m.observed.cond
                /\ m.current.c \notin {m.previous.c, m.observed.c}
    <2>1. m.previous = NormalizedCurrent
      BY <1>2, <1>4, <1>11 DEF PreviousGeneration
    <2>2. m.previous # NoGen /\ IsCommitted(m.previous) /\ m.previous.c = Cur.c
      BY <1>3, <1>4, <1>11, <2>1, NormalizedParts
    <2>3. m.observed = Committed(r.obs, r.cond)
      BY <1>2, <1>4, <1>11, ConstantsAssumption
    <2>4. /\ m.observed.c = r.obs /\ m.observed.cond = r.cond
          /\ IsCommitted(m.observed)
      BY <2>3 DEF Committed, IsCommitted
    <2>5. m.observed \in Generation
      BY <1>4, <1>11, <2>3 DEF Committed, Generation, PendingKind
    <2>6. m.current.c = r.c /\ m.current.cond = r.cond
      BY <1>2
    <2>. QED
      BY <1>4, <1>11, <2>2, <2>4, <2>5, <2>6, NullsAssumption, ConstantsAssumption
  <1>12. m.current.kind = "Autofill" =>
                     /\ m.previous # NoGen /\ m.observed # NoGen
                     /\ IsCommitted(m.previous) /\ IsCommitted(m.observed)
                     /\ m.current.cond # NoCond /\ m.current.cond = m.observed.cond
                     /\ m.current.c \notin {m.previous.c, m.observed.c}
    BY <1>10, <1>11
  <1>. QED
    BY <1>2, <1>9, <1>12 DEF m, r

\* Every file that the next manifest names is on disk when it is published.
LEMMA NextFiles ==
    ASSUME IInv, DiskInv, At("generations"), txn.todo = {}, cuts = 0
    PROVE  \A c \in Referenced(NextManifest(txn.req)) : gens[c] # "absent"
  <1> DEFINE r == txn.req
             m == NextManifest(r)
  <1>1. r \in Requests /\ r \in Request /\ r.c \in Content
    BY RequestsTyped, RequestParts DEF DiskInv, CallInv
  <1>2. \A c \in Todo(r) : gens[c] # "absent"
    BY DEF DiskInv, FilesInv
  <1>3. TypeOK /\ FormInv /\ LegacyInv
    BY DEF IInv, DiskInv
  <1>4. ASSUME manifest # NoManifest, NEW c \in Referenced(manifest)
        PROVE  gens[c] # "absent"
    <2>1. manifest \in exposed \ {NoManifest}
      BY <1>3, <1>4 DEF TypeOK
    <2>2. FileExists(manifest, c)
      BY <1>4, <2>1 DEF DiskInv, NoDanglingManifest
    <2>3. CASE manifest.version = 1 /\ c = manifest.current.c
      BY <1>2, <1>4, <2>3 DEF Todo, IsLegacy, Cur
    <2>4. CASE ~(manifest.version = 1 /\ c = manifest.current.c)
      BY <2>2, <2>4 DEF FileExists
    <2>. QED
      BY <2>3, <2>4
  <1>5. m \in Manifest
    BY <1>1, <1>3, NextManifestTyped DEF TypeOK
  <1>6. m.current.c = r.c /\ m.previous = PreviousGeneration(r)
        /\ m.observed = IF r.obs # NoContent THEN Committed(r.obs, r.cond)
                                              ELSE InheritedObserved(r)
    BY DEF NextManifest
  <1>7. gens[m.current.c] # "absent"
    BY <1>2, <1>6 DEF Todo
  <1>8. m.previous # NoGen => gens[m.previous.c] # "absent"
    BY <1>1, <1>3, <1>4, <1>6, InheritedParts
  <1>9. m.observed # NoGen => gens[m.observed.c] # "absent"
    <2>1. CASE r.obs # NoContent
      <3>1. m.observed.c = r.obs
        BY <1>6, <2>1 DEF Committed
      <3>2. r.obs \in Todo(r)
        BY <2>1 DEF Todo
      <3>. QED
        BY <1>2, <3>1, <3>2
    <2>2. CASE r.obs = NoContent
      BY <1>1, <1>3, <1>4, <1>6, <2>2, InheritedParts
    <2>. QED
      BY <2>1, <2>2
  <1>. QED
    BY <1>5, <1>7, <1>8, <1>9, ManifestParts

\* The invariant survives a publication: every file is there before the manifest
\* names it, and the chain of an autofill save is in place when it is published.
LEMMA DiskReplace ==
    ASSUME IInv, DiskInv, ReplaceManifest
    PROVE  DiskInv'
  <1> DEFINE next == NextManifest(txn.req)
  <1>1. /\ At("generations") /\ txn.todo = {} /\ manifest' = next
        /\ exposed' = exposed \cup {next} /\ txn'.stage = "replaced"
        /\ UNCHANGED <<gens, unsynced, bytesFile, cuts>>
    BY DEF ReplaceManifest, IInv, TypeOK, Transaction
  <1>2. txn.req \in Request
    BY <1>1, RequestsTyped DEF DiskInv, CallInv
  <1>3. next \in Manifest
    BY <1>2, NextManifestTyped DEF IInv, TypeOK
  <1>4. /\ next.version = 3 /\ IsWellFormed(next)
        /\ next.current.kind = "Autofill" =>
                     /\ next.previous # NoGen /\ next.observed # NoGen
                     /\ IsCommitted(next.previous) /\ IsCommitted(next.observed)
                     /\ next.current.cond # NoCond
                     /\ next.current.cond = next.observed.cond
                     /\ next.current.c \notin {next.previous.c, next.observed.c}
    BY <1>1, NextForm
  <1>5. cuts = 0 => \A c \in Referenced(next) : gens[c] # "absent"
    BY <1>1, NextFiles
  <1>. HIDE DEF next
  <1>6. CallInv' /\ FilesInv'
    BY <1>1 DEF CallInv, FilesInv, DiskInv, At
  <1>7. FormInv'
    BY <1>1, <1>4 DEF FormInv, DiskInv
  <1>8. ASSUME cuts' = 0, NEW m \in exposed' \ {NoManifest}, NEW c \in Referenced(m)
        PROVE  FileExists(m, c)'
    <2>1. CASE m \in exposed
      <3>1. FileExists(m, c)
        BY <1>1, <1>8, <2>1 DEF DiskInv, NoDanglingManifest
      <3>. QED
        BY <1>1, <3>1 DEF FileExists
    <2>2. CASE m = next
      BY <1>1, <1>4, <1>5, <1>8, <2>2 DEF FileExists
    <2>. QED
      BY <1>1, <1>8, <2>1, <2>2
  <1>9. NoDanglingManifest'
    BY <1>8 DEF NoDanglingManifest
  <1>. QED
    BY <1>6, <1>7, <1>9 DEF DiskInv

\* A call that is let through works on a list of all the files it will name.
LEMMA DiskStart ==
    ASSUME IInv, DiskInv, NEW r \in Requests, IsAuthorized(r), Start(r),
           UNCHANGED files, UNCHANGED cuts
    PROVE  DiskInv'
  <1>1. txn'.stage = "generations" /\ txn'.req = r /\ txn'.todo = Todo(r)
    BY DEF Start
  <1>2. r.op = "pendAutofill" => manifest # NoManifest /\ ~Cur.pending /\ Cur.c = r.expected
    BY DEF IsAuthorized, ReadStatus
  <1>3. CallInv'
    BY <1>1, <1>2 DEF CallInv, At, files, Cur
  <1>4. Todo(r)' = Todo(r)
    BY DEF Todo, files, IsLegacy, Cur
  <1>5. FilesInv'
    BY <1>1, <1>4 DEF FilesInv, At, files, DiskInv
  <1>6. FormInv' /\ NoDanglingManifest'
    BY DiskKept DEF IInv, DiskInv, files
  <1>. QED
    BY <1>3, <1>5, <1>6 DEF DiskInv

\* Every step keeps what a reader finds.
LEMMA DiskStep ==
    ASSUME IInv, DiskInv, [Next]_vars
    PROVE  DiskInv'
  <1>0. TypeOK /\ FormInv /\ NoDanglingManifest /\ CallInv /\ FilesInv
    BY DEF IInv, DiskInv
  <1>a. ASSUME txn' = Idle,
               exposed' \subseteq exposed \cup {NoManifest},
               cuts' = 0 => cuts = 0 /\ unsynced' = {},
               cuts' = 0 => \A c \in Content : gens[c] # "absent" => gens'[c] # "absent",
               bytesFile # "absent" => bytesFile' # "absent"
        PROVE  DiskInv'
    <2>1. FormInv' /\ NoDanglingManifest'
      BY <1>0, <1>a, DiskKept
    <2>2. CallInv' /\ FilesInv'
      BY <1>a DEF CallInv, FilesInv, At, Idle
    <2>. QED
      BY <2>1, <2>2 DEF DiskInv
  <1>b. cuts = 0 => unsynced = {}
    BY <1>0 DEF FilesInv
  <1>1. ASSUME NEW r \in Requests, BeginWrite(r)
        PROVE  DiskInv'
    BY <1>1, DiskStart DEF BeginWrite
  <1>2. ASSUME NEW c \in Content, BeginSourceWrite(c)
        PROVE  DiskInv'
    <2>1. Req("complete", c, NoCond, NoOp, c, NoContent, "None") \in CompleteRequests
      BY DEF CompleteRequests
    <2>2. /\ txn'.stage = "source" /\ txn'.req \in CompleteRequests
          /\ UNCHANGED files /\ UNCHANGED cuts
      BY <1>2, <2>1 DEF BeginSourceWrite, Idle
    <2>3. FormInv' /\ NoDanglingManifest'
      BY <1>0, <2>2, DiskKept DEF files
    <2>4. CallInv' /\ FilesInv'
      BY <1>b, <2>2 DEF CallInv, FilesInv, At, files
    <2>. QED
      BY <2>3, <2>4 DEF DiskInv
  <1>3. ASSUME NEW c \in Content, SourceWriteSucceeds(c)
        PROVE  DiskInv'
    <2> DEFINE r == [txn.req EXCEPT !.c = c]
    <2>1. txn.req \in CompleteRequests
      BY <1>0, <1>3 DEF SourceWriteSucceeds, CallInv
    <2>2. r \in Requests
      BY <2>1, RequestParts
    <2>3. UNCHANGED files /\ UNCHANGED cuts
      BY <1>3 DEF SourceWriteSucceeds
    <2>4. CASE ~retired /\ IsAuthorized(r)
      BY <1>3, <2>2, <2>3, <2>4, DiskStart DEF SourceWriteSucceeds
    <2>5. CASE ~(~retired /\ IsAuthorized(r))
      BY <1>3, <1>a, <1>b, <2>3, <2>5 DEF SourceWriteSucceeds, files
    <2>. QED
      BY <2>4, <2>5
  <1>4. ASSUME NEW c \in Content, EnsureGeneration(c)
        PROVE  DiskInv'
    <2>1. /\ At("generations") /\ c \in txn.todo /\ gens' = [gens EXCEPT ![c] = "ok"]
          /\ txn' = [txn EXCEPT !.todo = @ \ {c}]
          /\ UNCHANGED <<manifest, exposed, unsynced, bytesFile, cuts>>
      BY <1>4 DEF EnsureGeneration, IsNextTodo
    <2>2. txn'.stage = txn.stage /\ txn'.req = txn.req /\ txn'.todo = txn.todo \ {c}
      BY <1>0, <2>1 DEF TypeOK, Transaction
    <2>3. \A d \in Content : gens'[d] = IF d = c THEN "ok" ELSE gens[d]
      BY <1>0, <2>1 DEF TypeOK
    <2>4. FormInv' /\ NoDanglingManifest'
      BY <1>0, <2>1, <2>3, DiskKept
    <2>5. CallInv'
      BY <1>0, <2>1, <2>2 DEF CallInv, At, Cur
    <2>6. Todo(txn.req)' = Todo(txn.req) /\ Todo(txn.req) \subseteq Content
      <3>1. Todo(txn.req)' = Todo(txn.req)
        BY <2>1, <2>2 DEF Todo, IsLegacy, Cur
      <3>. QED
        BY <1>0, <2>1, <3>1, TodoTyped DEF CallInv
    <2>7. \A d \in Todo(txn.req) \ txn.todo : gens[d] # "absent"
      BY <1>0, <2>1 DEF FilesInv
    <2>8. \A d \in Todo(txn.req)' \ txn'.todo : gens'[d] # "absent"
      BY <2>2, <2>3, <2>6, <2>7
    <2>9. FilesInv'
      BY <1>b, <2>1, <2>2, <2>8 DEF FilesInv, At
    <2>. QED
      BY <2>4, <2>5, <2>9 DEF DiskInv
  <1>5. ASSUME NEW c \in Content, EnsureGenerationFails(c)
        PROVE  DiskInv'
    <2>1. txn' = Idle /\ exposed' = exposed /\ bytesFile' = bytesFile
      BY <1>5 DEF EnsureGenerationFails
    <2>2. CASE UNCHANGED <<gens, unsynced, cuts>>
      BY <1>a, <1>b, <2>1, <2>2
    <2>3. CASE cuts' = cuts + 1
      <3>1. cuts' # 0
        BY <1>0, <2>3, ConstantsAssumption DEF TypeOK
      <3>. QED
        BY <1>a, <2>1, <3>1
    <2>. QED
      BY <1>5, <2>2, <2>3 DEF EnsureGenerationFails
  <1>6. ASSUME SourceWriteFails \/ PublishFails \/ CancelRetirement
        PROVE  DiskInv'
    BY <1>6, <1>a, <1>b DEF SourceWriteFails, PublishFails, CancelRetirement, files
  <1>7. ASSUME ReplaceManifest
        PROVE  DiskInv'
    BY <1>7, DiskReplace
  <1>8. ASSUME SyncManifest \/ SyncAbsence
        PROVE  DiskInv'
    <2>1. /\ exposed' = {manifest} /\ manifest' = manifest /\ unsynced' = {}
          /\ txn'.stage \in {"durable", "purge"}
          /\ UNCHANGED <<gens, bytesFile, cuts>>
      BY <1>0, <1>8 DEF SyncManifest, SyncAbsence, Idle, TypeOK, Transaction
    <2>2. manifest \in exposed
      BY <1>0 DEF TypeOK
    <2>3. FormInv' /\ NoDanglingManifest'
      BY <1>0, <2>1, <2>2, DiskKept
    <2>4. CallInv' /\ FilesInv'
      BY <2>1 DEF CallInv, FilesInv, At
    <2>. QED
      BY <2>3, <2>4 DEF DiskInv
  <1>9. ASSUME RestoreManifest
        PROVE  DiskInv'
    <2>1. txn.saved \in exposed
      BY <1>9 DEF RestoreManifest, IInv, WriterInv
    <2>. QED
      BY <1>9, <1>a, <2>1 DEF RestoreManifest
  <1>10. ASSUME OutcomeUnknown \/ ProcessDies
         PROVE  DiskInv'
    BY <1>10, <1>a, <1>b DEF OutcomeUnknown, ProcessDies, files
  <1>11. ASSUME NEW removed \in SUBSET Content, FinishDurable(removed)
         PROVE  DiskInv'
    <2>1. /\ exposed = {manifest} /\ exposed' = exposed /\ txn' = Idle
          /\ removed \subseteq Content \ Referenced(manifest)
          /\ gens' = [c \in Content |-> IF c \in removed THEN "absent" ELSE gens[c]]
          /\ UNCHANGED <<manifest, unsynced, bytesFile, cuts>>
      BY <1>0, <1>11 DEF FinishDurable, FilesInv, At
    <2>2. ASSUME cuts' = 0, NEW m \in exposed' \ {NoManifest}, NEW c \in Referenced(m)
          PROVE  FileExists(m, c)'
      <3>1. FileExists(m, c) /\ m = manifest
        BY <1>0, <2>1, <2>2 DEF NoDanglingManifest
      <3>2. c \in Content
        BY <1>0, <2>2, <3>1, ManifestParts DEF TypeOK
      <3>3. gens'[c] = gens[c]
        BY <2>1, <2>2, <3>1, <3>2
      <3>. QED
        BY <2>1, <3>1, <3>3 DEF FileExists
    <2>3. NoDanglingManifest'
      BY <2>2 DEF NoDanglingManifest
    <2>4. FormInv' /\ CallInv' /\ FilesInv'
      BY <1>0, <1>b, <2>1 DEF FormInv, CallInv, FilesInv, At, Idle
    <2>. QED
      BY <2>3, <2>4 DEF DiskInv
  <1>12. ASSUME NEW removed \in SUBSET Content, PurgeFiles(removed)
         PROVE  DiskInv'
    <2>1. exposed = {NoManifest} /\ exposed' = exposed /\ txn' = Idle
          /\ UNCHANGED <<unsynced, cuts>>
      BY <1>0, <1>12 DEF PurgeFiles, FilesInv, At, IInv, RetirementInv
    <2>2. FormInv' /\ NoDanglingManifest'
      BY <2>1 DEF FormInv, NoDanglingManifest
    <2>3. CallInv' /\ FilesInv'
      BY <1>b, <2>1 DEF CallInv, FilesInv, At, Idle
    <2>. QED
      BY <2>2, <2>3 DEF DiskInv
  <1>13. ASSUME BeginRetirement \/ BeginCleanupAfterIntent \/ RemoveManifest
         PROVE  DiskInv'
    <2>1. /\ exposed' \subseteq exposed \cup {NoManifest}
          /\ txn'.stage \in {"guard", "removed"}
          /\ UNCHANGED <<gens, unsynced, bytesFile, cuts>>
      BY <1>0, <1>13 DEF BeginRetirement, BeginCleanupAfterIntent, BeginGuard,
                         RemoveManifest, Idle, files, TypeOK, Transaction
    <2>2. FormInv' /\ NoDanglingManifest'
      BY <1>0, <2>1, DiskKept
    <2>3. CallInv' /\ FilesInv'
      BY <1>b, <2>1 DEF CallInv, FilesInv, At
    <2>. QED
      BY <2>2, <2>3 DEF DiskInv
  <1>14. ASSUME UNCHANGED <<manifest, exposed, unsynced, txn, cuts>>,
                \A c \in Content : gens[c] # "absent" => gens'[c] # "absent",
                bytesFile # "absent" => bytesFile' # "absent"
         PROVE  DiskInv'
    <2>1. FormInv' /\ NoDanglingManifest'
      BY <1>0, <1>14, DiskKept
    <2>2. CallInv'
      BY <1>0, <1>14 DEF CallInv, At, Cur
    <2>3. At("generations") => Todo(txn.req) \subseteq Content
      BY <1>0, TodoTyped DEF CallInv
    <2>4. Todo(txn.req)' = Todo(txn.req)
      BY <1>14 DEF Todo, IsLegacy, Cur
    <2>5. FilesInv'
      BY <1>0, <1>14, <2>3, <2>4 DEF FilesInv, At
    <2>. QED
      BY <2>1, <2>2, <2>5 DEF DiskInv
  <1>15. ASSUME Activate \/ UNCHANGED vars
         PROVE  DiskInv'
    BY <1>14, <1>15 DEF Activate, vars, files
  <1>16. ASSUME DamageFile
         PROVE  DiskInv'
    <2>1. UNCHANGED <<manifest, exposed, unsynced, txn, cuts>>
      BY <1>16 DEF DamageFile
    <2>2. \A c \in Content : gens[c] # "absent" => gens'[c] # "absent"
      <3>1. CASE UNCHANGED gens
        BY <3>1
      <3>2. ASSUME NEW c \in Content, gens' = [gens EXCEPT ![c] = "bad"]
            PROVE  \A d \in Content : gens[d] # "absent" => gens'[d] # "absent"
        BY <1>0, <3>2 DEF TypeOK
      <3>. QED
        BY <1>16, <3>1, <3>2 DEF DamageFile
    <2>3. bytesFile # "absent" => bytesFile' # "absent"
      BY <1>16 DEF DamageFile
    <2>. QED
      BY <1>14, <2>1, <2>2, <2>3
  <1>17. ASSUME NEW lost \in SUBSET unsynced, PowerLoss(lost)
         PROVE  DiskInv'
    <2>1. /\ manifest' \in exposed /\ exposed' = {manifest'} /\ unsynced' = {}
          /\ txn' = Idle /\ UNCHANGED <<bytesFile, cuts>>
          /\ gens' = [c \in Content |-> IF c \in lost THEN "absent" ELSE gens[c]]
      BY <1>17 DEF PowerLoss
    <2>2. cuts = 0 => lost = {}
      BY <1>b, <1>17
    <2>3. cuts' = 0 => \A c \in Content : gens[c] # "absent" => gens'[c] # "absent"
      BY <2>1, <2>2
    <2>. QED
      BY <1>a, <2>1, <2>3
  <1>. QED
    BY <1>1, <1>2, <1>3, <1>4, <1>5, <1>6, <1>7, <1>8, <1>9, <1>10, <1>11, <1>12,
       <1>13, <1>15, <1>16, <1>17 DEF Next

\* Files that are there and that nothing damaged authenticate.
LEMMA DiskReadable == IInv /\ DiskInv => ManifestReadable
  <1>. SUFFICES ASSUME IInv, DiskInv, NothingDamaged
                PROVE  \/ /\ ReadStatus \in {"Missing", "Current"}
                          /\ ReadStatus = "Current" /\ Cur.kind = "Autofill"
                                => PendingChainIsSound
                       \/ /\ ReadStatus = "Corrupt" /\ CarriesOldGeneration(manifest)
                          /\ CurrentIsReadable(manifest)
    BY DEF ManifestReadable, UndamagedIsReadable, DiskInv
  <1>1. TypeOK /\ FormInv /\ NoDanglingManifest
    BY DEF IInv, DiskInv
  <1>2. CASE manifest = NoManifest
    BY <1>2 DEF ReadStatus
  <1>3. CASE manifest # NoManifest
    <2>1. manifest \in Manifest /\ manifest \in exposed \ {NoManifest}
          /\ Cur = manifest.current
      BY <1>1, <1>3 DEF TypeOK, Cur
    <2>2. \A c \in Referenced(manifest) : FileExists(manifest, c) /\ c \in Content
      BY <1>1, <2>1, ManifestParts DEF NothingDamaged, NoDanglingManifest
    <2>3. \A c \in Content : gens[c] # "absent" => gens[c] = "ok"
      BY <1>1 DEF NothingDamaged, TypeOK
    <2>4. bytesFile # "absent" => bytesFile = "ok"
      BY <1>1 DEF NothingDamaged, TypeOK
    <2>5. CurrentIsReadable(manifest)
      <3>1. FileExists(manifest, Cur.c) /\ Cur.c \in Content
        BY <2>1, <2>2, ManifestParts
      <3>. QED
        BY <2>1, <2>3, <2>4, <3>1 DEF FileExists, CurrentIsReadable, ReadGeneration
    <2>6. SchemaIsValid(manifest) \/ CarriesOldGeneration(manifest)
      BY <1>1, <2>1, SchemaOrOld DEF FormInv
    <2>7. ReadStatus = IF SchemaIsValid(manifest) THEN "Current" ELSE "Corrupt"
      BY <1>3, <2>5 DEF ReadStatus
    <2>8. ASSUME Cur.kind = "Autofill"
          PROVE  PendingChainIsSound
      <3>1. /\ manifest.previous # NoGen /\ manifest.observed # NoGen
            /\ IsCommitted(manifest.previous) /\ IsCommitted(manifest.observed)
            /\ Cur.cond # NoCond /\ Cur.cond = manifest.observed.cond
            /\ Cur.c \notin {manifest.previous.c, manifest.observed.c}
        BY <1>1, <2>1, <2>8 DEF FormInv
      <3>2. manifest.version = 3
        BY <2>1, <2>8 DEF IInv, LegacyInv
      <3>3. Cur.pending /\ Cur.op # NoOp
        <4>1. GenerationPendingSchemaIsValid(Cur)
          BY <1>1, <2>1, <3>2 DEF FormInv, IsWellFormed
        <4>. QED
          BY <2>8, <4>1 DEF GenerationPendingSchemaIsValid, ResidentKind
      <3>4. {manifest.previous.c, manifest.observed.c} \subseteq Referenced(manifest)
        BY <2>1, <3>1, ManifestParts
      <3>5. ReadGeneration(manifest.previous) /\ ReadGeneration(manifest.observed)
        BY <2>2, <2>3, <3>2, <3>4 DEF FileExists, ReadGeneration
      <3>. QED
        BY <2>8, <3>1, <3>2, <3>3, <3>5 DEF PendingChainIsSound, IsLegacy
    <2>. QED
      BY <2>5, <2>6, <2>7, <2>8
  <1>. QED
    BY <1>2, <1>3

\* Whatever publish, clean-up, retirement, failure or power loss came before, the
\* files that the manifest names are there and authenticate, unless the environment
\* damaged one, and a reader accepts the manifest unless it carries a generation of
\* a version-2 manifest (remote_cache.rs, read_authenticated_locked, write_with_source_context_locked,
\* cleanup_generations, delete_files_locked).
THEOREM FilesComplete == Spec => []ManifestReadable
  <1>1. Spec => []IInv
    BY AlwaysIInv
  <1>2. Init => DiskInv
    BY DiskInit
  <1>3. IInv /\ DiskInv /\ [Next]_vars => DiskInv'
    BY DiskStep
  <1>4. IInv /\ DiskInv => ManifestReadable
    BY DiskReadable
  <1>. QED
    BY <1>1, <1>2, <1>3, <1>4, PTL DEF Spec
=============================================================================
