------------------------- MODULE QuickUnlockProofs -------------------------
(***************************************************************************)
(* What QuickUnlock promises when quick unlock is turned off, when a       *)
(* reference is deleted and of a record that is still of use: proofs for   *)
(* every set of references, credentials and clients and every number of    *)
(* commands, faults and restarts.                                          *)
(***************************************************************************)
EXTENDS QuickUnlock, SequenceTheorems, TLAPS

\* Operations that can put a record on disk.
Handling == {"store", "enroll", "quick", "adopt"}
\* What an operation goes on to after its record was stored, or was not.
Continues(w, r) ==
    /\ w.op \in {"quick", "adopt", "enroll"} /\ w.ref = r
    /\ w.op = "enroll" => DOMAIN w = {"op", "step", "ref", "cred"}
\* What TypeOK leaves open: the fields of the records that actions change.
WorkShape ==
    /\ work.op \in Handling \cup {"idle", "idle_lock", "purge", "cleanup"}
    /\ work.op = "enroll" => DOMAIN work = {"op", "step", "ref", "cred"}
    /\ work.op = "purge" => DOMAIN work = {"op", "names"}
    /\ work.op = "cleanup" => DOMAIN work = {"op", "names", "from"}
    /\ work.op = "store" =>
        /\ DOMAIN work = {"op", "step", "ref", "stored", "then", "error"}
        /\ work.stored # NoRecord /\ work.error.op = work.then.op
        /\ Continues(work.then, work.ref) /\ Continues(work.error, work.ref)
Shape ==
    /\ DOMAIN record = Refs /\ DOMAIN kept = Refs
    /\ DOMAIN session = {"current", "active", "vault", "preloaded"}
    /\ DOMAIN refs = {"vaults", "current", "cleanups"}
    /\ WorkShape

LEMMA ShapeInit == Init => Shape
  BY DEF Init, Shape, WorkShape, Idle, Handling

LEMMA IdleShape ==
    ASSUME work' = Idle PROVE WorkShape'
  BY DEF WorkShape, Idle, Handling

LEMMA SessionShape ==
    ASSUME Shape
    PROVE  /\ DOMAIN Locked(session) = {"current", "active", "vault", "preloaded"}
           /\ \A r : DOMAIN set_current_vault(session, r) = {"current", "active", "vault", "preloaded"}
           /\ \A r : DOMAIN Loading(r) = {"current", "active", "vault", "preloaded"}
           /\ \A r, v : DOMAIN finish_unlock(session, r, v) = {"current", "active", "vault", "preloaded"}
  BY DEF Shape, Locked, set_current_vault, Loading, finish_unlock

LEMMA RefsShape ==
    ASSUME Shape
    PROVE  /\ \A r : DOMAIN upsert(refs, r) = {"vaults", "current", "cleanups"}
           /\ \A r : DOMAIN mark_current(refs, r) = {"vaults", "current", "cleanups"}
           /\ \A r : DOMAIN delete_with_current_policy(refs, r) = {"vaults", "current", "cleanups"}
           /\ \A r : DOMAIN CleanupDone(refs, r) = {"vaults", "current", "cleanups"}
  BY DEF Shape, upsert, mark_current, delete_with_current_policy, CleanupDone

\* Reading a record ends the operation, goes on to the open vault, or stores the
\* record again and goes on then.
LEMMA BlobReadOutcome ==
    ASSUME BlobRead
    PROVE  /\ work.op \in {"quick", "adopt"} /\ UNCHANGED <<refs, kept, session>>
           /\ \/ /\ work' = Idle
                 /\ \/ delete_quick_unlock_record(work.ref)
                    \/ DeleteFails(work.ref)
                    \/ UNCHANGED <<record, side>>
              \/ /\ UNCHANGED <<record, side>>
                 /\ work'.op \in {"quick", "adopt"} /\ work'.ref = work.ref
              \/ /\ UNCHANGED <<record, side>>
                 /\ work'.op = "store" /\ work'.ref = work.ref
                 /\ DOMAIN work' = {"op", "step", "ref", "stored", "then", "error"}
                 /\ work'.stored # NoRecord /\ work'.error.op = work'.then.op
                 /\ work'.then.op \in {"quick", "adopt"} /\ work'.error.op # "enroll"
                 /\ Continues(work'.then, work'.ref) /\ Continues(work'.error, work'.ref)
  <1> DEFINE attempt == unlock_from_blob_with_cache_policy(work.ref, work.bytes, TRUE)
             ended == [op |-> work.op, step |-> "finish", ref |-> work.ref, bytes |-> work.bytes,
                       from |-> work.from, key |-> attempt.key, vault |-> attempt.vault]
             stored == RecordFor(record[work.ref].cred, attempt.key)
  <1>1. work.op \in {"quick", "adopt"}
    BY DEF BlobRead, AtOpening
  <1>2. /\ ended.op = work.op /\ ended.ref = work.ref
    OBVIOUS
  <1>3. stored # NoRecord
    BY DEF RecordFor, NoRecord
  <1>4. Continues(ended, work.ref)
    BY <1>1, <1>2 DEF Continues
  <1> HIDE DEF stored
  <1>5. \/ /\ work' = Idle
           /\ \/ delete_quick_unlock_record(work.ref)
              \/ DeleteFails(work.ref)
              \/ UNCHANGED <<record, side>>
        \/ work' = ended /\ UNCHANGED <<record, side>>
        \/ work' = Storing(work.ref, stored, ended, ended) /\ UNCHANGED <<record, side>>
    BY DEF BlobRead, stored
  <1> HIDE DEF ended
  <1>6. CASE work' = Storing(work.ref, stored, ended, ended) /\ UNCHANGED <<record, side>>
    BY <1>1, <1>2, <1>3, <1>4, <1>6 DEF Storing, BlobRead
  <1> QED
    BY <1>1, <1>2, <1>5, <1>6 DEF BlobRead

LEMMA ShapeStep == ASSUME Shape, [Next]_vars PROVE Shape'
  <1>0. CASE UNCHANGED vars
    BY <1>0 DEF vars, Shape, WorkShape, Continues
  <1>1. CASE lock_session
    BY <1>1, IdleShape, SessionShape DEF lock_session, Simple, Aside, Shape
  <1>2. CASE set_current
    BY <1>2, IdleShape, SessionShape, RefsShape DEF set_current, Simple, Aside, Shape
  <1>3. CASE add_vault_reference
    BY <1>3, IdleShape, SessionShape, RefsShape DEF add_vault_reference, Simple, Aside, Shape
  <1>4. CASE preload_current_vault_snapshot
    BY <1>4, IdleShape, SessionShape, RefsShape
    DEF preload_current_vault_snapshot, Simple, Aside, Shape, load_source_snapshot
  <1>5. CASE unlock_current_vault
    BY <1>5, IdleShape, SessionShape, RefsShape
    DEF unlock_current_vault, Shape, load_source_snapshot, FinishPassword
  <1>6. CASE unlock_vault
    BY <1>6, IdleShape, SessionShape, RefsShape DEF unlock_vault, Shape, FinishPassword
  <1>7. CASE save_vault
    BY <1>7, IdleShape DEF save_vault, SaveVault, Shape
  <1>8. CASE notify_reconciliation_slot
    BY <1>8, IdleShape, SessionShape DEF notify_reconciliation_slot, disk, Shape
  <1>9. CASE StoreTemp
    BY <1>9 DEF StoreTemp, AtStore, Rest, Fails, Shape, WorkShape, Continues, Handling
  <1>10. CASE publish_temp
    BY <1>10 DEF publish_temp, AtStore, Rest, Fails, Shape, WorkShape, Continues, Handling
  <1>11. CASE cleanup_quick_unlock_sidecars
    BY <1>11 DEF cleanup_quick_unlock_sidecars, AtStore, Rest, Fails, Shape, WorkShape, Continues, Handling
  <1>12. CASE unlock_current_vault_with_quick_unlock
    BY <1>12, IdleShape, SessionShape, RefsShape
    DEF unlock_current_vault_with_quick_unlock, Aside, Opening, load_source_snapshot, Shape,
        WorkShape, Handling
  <1>13. CASE adopt_untouched_onedrive_head
    BY <1>13, IdleShape DEF adopt_untouched_onedrive_head, Aside, Opening, Shape, WorkShape, Handling
  <1>14. CASE BlobCancelled
    BY <1>14, IdleShape DEF BlobCancelled, disk, Shape
  <1>15. CASE BlobRead
    BY <1>15, IdleShape, BlobReadOutcome
    DEF BlobRead, delete_quick_unlock_record, DeleteFails, Shape, WorkShape, Handling
  <1>16. CASE finish_unlock_from_blob
    BY <1>16, IdleShape DEF finish_unlock_from_blob, finish_unlock, Shape
  <1>17. CASE unlock_historical_snapshot
    BY <1>17, IdleShape DEF unlock_historical_snapshot, delete_quick_unlock_record, Shape
  <1>18. CASE bind_quick_unlock_reconciliation_credentials
    BY <1>18, IdleShape DEF bind_quick_unlock_reconciliation_credentials, Aside, Shape
  <1>19. CASE reconcile_quick_unlock
    BY <1>19, IdleShape
    DEF reconcile_quick_unlock, EndReconciliation, Enrolling, disk, Shape, WorkShape, Handling
  <1>20. CASE purge_quick_unlock_record_directory
    BY <1>20, IdleShape
    DEF purge_quick_unlock_record_directory, EndReconciliation, delete_quick_unlock_record,
        DeleteFails, Shape, WorkShape, Handling
  <1>21. CASE authorize_store_user_presence
    BY <1>21, IdleShape
    DEF authorize_store_user_presence, verify_hello_key_for_enrollment, AtEnroll, disk,
        EndReconciliation, Shape, WorkShape, Handling
  <1>22. CASE enroll_quick_unlock_for_current_vault
    BY <1>22, IdleShape
    DEF enroll_quick_unlock_for_current_vault, AtEnroll, EndReconciliation, Storing, RecordFor,
        NoRecord, disk, Shape, WorkShape, Continues, Handling
  <1>23. CASE EnrollEnds
    BY <1>23, IdleShape
    DEF EnrollEnds, EndReconciliation, delete_quick_unlock_record, DeleteFails, Shape
  <1>24. CASE delete_vault_reference
    BY <1>24, IdleShape, SessionShape, RefsShape
    DEF delete_vault_reference, Aside, CleaningUp, Shape, WorkShape, Handling
  <1>25. CASE reconcile_deleted_vault_cleanup
    BY <1>25, IdleShape, RefsShape
    DEF reconcile_deleted_vault_cleanup, complete_cleanup_while, delete_quick_unlock_record,
        DeleteFails, Shape, WorkShape, Handling
  <1>26. CASE Saver \/ Reconciler \/ \E c \in Clients : Client(c)
    BY <1>26
    DEF Saver, set_quick_unlock_enabled, schedule_reconciliation, Reconciler,
        reconcile_desktop_settings, ReconLoadFails, Client,
        reconcile_with_quick_unlock_credentials, ClientNotifies, disk, Shape, WorkShape, Continues
  <1>27. CASE \E c \in Clients : \E command \in Commands(c) : Send(c, command)
    BY <1>27 DEF Send, disk, Shape, WorkShape, Continues
  <1>28. CASE \E enabled \in BOOLEAN : save_and_publish(enabled)
    BY <1>28 DEF save_and_publish, Shape, WorkShape, Continues
  <1>29. CASE persist_unsaved_before_idle_lock
    BY <1>29 DEF persist_unsaved_before_idle_lock, SaveVault, Shape, WorkShape, Handling
  <1>30. CASE \E r \in Refs : ForeignSave(r) \/ Damage(r)
    BY <1>30 DEF ForeignSave, Damage, Shape, WorkShape, Continues
  <1>31. CASE HelloReset
    BY <1>31 DEF HelloReset, disk, Shape, WorkShape, Continues
  <1>32. CASE Restart
    BY <1>32 DEF Restart, disk, CleaningUp, Shape, WorkShape, Handling
  <1>33. CASE AtRest
    BY <1>33, <1>0 DEF AtRest
  <1> QED
    BY <1>0, <1>1, <1>2, <1>3, <1>4, <1>5, <1>6, <1>7, <1>8, <1>9, <1>10, <1>11, <1>12, <1>13,
       <1>14, <1>15, <1>16, <1>17, <1>18, <1>19, <1>20, <1>21, <1>22, <1>23, <1>24, <1>25, <1>26,
       <1>27, <1>28, <1>29, <1>30, <1>31, <1>32, <1>33
    DEF Next, Worker, Environment

(* Every variable keeps the fields the actions read, and an operation that *)
(* stores a record knows what it goes on to, for the same reference.       *)
THEOREM ShapeHolds == Spec => []Shape
  <1>1. Init => Shape
    BY ShapeInit
  <1>2. Shape /\ [Next]_vars => Shape'
    BY ShapeStep
  <1> QED
    BY <1>1, <1>2, PTL DEF Spec

-----------------------------------------------------------------------------
(* A deleted reference: the open vault and the operation of the worker     *)
(* always belong to references that the store knows, so that none of them  *)
(* can bring back a file after the cleanup.                                *)
Forgotten ==
    /\ session.vault # NoVault =>
            session.active \in refs.vaults /\ session.active = session.current
    /\ work.op \in Handling => work.ref \in refs.vaults
    /\ DeletedLeavesNothing

LEMMA ForgottenInit == Init => Forgotten
  <1> SUFFICES ASSUME Init PROVE Forgotten
    OBVIOUS
  <1>1. session.vault = NoVault /\ work.op = "idle" /\ refs.vaults = Refs
    BY DEF Init, Idle
  <1> QED
    BY <1>1 DEF Forgotten, Handling, DeletedLeavesNothing

\* What an action does to the session and to the reference store.
LEMMA SessionLocked ==
    ASSUME Shape
    PROVE  /\ Locked(session).vault = NoVault
           /\ \A r : set_current_vault(session, r).vault = NoVault
           /\ \A r : Loading(r).vault = NoVault
           /\ \A r, v : /\ finish_unlock(session, r, v).active = r
                        /\ finish_unlock(session, r, v).current = r
  BY DEF Shape, Locked, set_current_vault, Loading, finish_unlock

LEMMA StoreOperations ==
    ASSUME Shape, NEW r
    PROVE  /\ upsert(refs, r).vaults = refs.vaults \cup {r}
           /\ upsert(refs, r).cleanups = refs.cleanups \ {r}
           /\ mark_current(refs, r).vaults = refs.vaults
           /\ mark_current(refs, r).cleanups = refs.cleanups
           /\ delete_with_current_policy(refs, r).vaults = refs.vaults \ {r}
           /\ delete_with_current_policy(refs, r).cleanups = refs.cleanups \cup {r}
           /\ CleanupDone(refs, r).vaults = refs.vaults
           /\ CleanupDone(refs, r).cleanups = refs.cleanups \ {r}
  BY DEF Shape, upsert, mark_current, delete_with_current_policy, CleanupDone

\* Loading the bytes of a known vault keeps the store's references.
LEMMA LoadKeepsForgotten ==
    ASSUME Shape, DeletedLeavesNothing, NEW r, NEW bytes, load_source_snapshot(r, bytes),
           UNCHANGED <<record, side>>
    PROVE  r \in refs'.vaults /\ refs.vaults \subseteq refs'.vaults /\ DeletedLeavesNothing'
  <1>1. r \in refs.vaults
    BY DEF load_source_snapshot, source_for
  <1>2. refs'.vaults = refs.vaults /\ refs'.cleanups \cup {r} = refs.cleanups \cup {r}
    <2>1. CASE refs' = refs
      BY <2>1
    <2>2. CASE refs' = upsert(refs, r)
      <3>1. refs'.vaults = refs.vaults \cup {r} /\ refs'.cleanups = refs.cleanups \ {r}
        BY <2>2, StoreOperations
      <3>2. refs.vaults \cup {r} = refs.vaults
        BY <1>1
      <3> QED
        BY <3>1, <3>2
    <2> QED
      BY <2>1, <2>2 DEF load_source_snapshot
  <1> QED
    BY <1>1, <1>2 DEF load_source_snapshot, DeletedLeavesNothing, Shape

\* Removing a record, or a part of it, leaves nothing new behind.
LEMMA RemovalKeepsForgotten ==
    ASSUME Shape, DeletedLeavesNothing, UNCHANGED <<refs, kept>>, NEW r,
           \/ delete_quick_unlock_record(r) \/ DeleteFails(r) \/ UNCHANGED <<record, side>>
    PROVE  DeletedLeavesNothing'
  BY DEF delete_quick_unlock_record, DeleteFails, DeletedLeavesNothing, Shape

LEMMA ForgottenStep == ASSUME Shape, Forgotten, [Next]_vars PROVE Forgotten'
  <1> USE DEF Forgotten
  <1>a. Idle.op \notin Handling
    BY DEF Idle, Handling
  <1>0. CASE UNCHANGED vars
    BY <1>0 DEF vars, DeletedLeavesNothing
  <1>1. CASE lock_session
    BY <1>1, <1>a, SessionLocked DEF lock_session, Simple, Aside, DeletedLeavesNothing
  <1>2. CASE set_current
    BY <1>2, <1>a, SessionLocked, StoreOperations
    DEF set_current, Simple, Aside, DeletedLeavesNothing
  <1>3. CASE add_vault_reference
    <2>1. refs'.vaults = refs.vaults \cup {Request.ref} /\ refs'.cleanups = refs.cleanups \ {Request.ref}
      BY <1>3, StoreOperations DEF add_vault_reference
    <2> QED
      BY <1>3, <2>1, <1>a, SessionLocked DEF add_vault_reference, Simple, Aside, DeletedLeavesNothing
  <1>4. CASE preload_current_vault_snapshot
    <2>1. CASE UNCHANGED <<kept, refs, session>>
      BY <1>4, <2>1, <1>a DEF preload_current_vault_snapshot, Simple, Aside, DeletedLeavesNothing
    <2>2. CASE ~UNCHANGED <<kept, refs, session>>
      <3>1. PICK bytes \in Readable(session.current) :
                /\ load_source_snapshot(session.current, bytes)
                /\ session' = [Loading(session.current) EXCEPT !.preloaded = TRUE]
        BY <1>4, <2>2 DEF preload_current_vault_snapshot
      <3>2. session'.vault = NoVault
        BY <3>1, SessionLocked, SessionShape
      <3> QED
        BY <1>4, <3>1, <3>2, <1>a, LoadKeepsForgotten DEF preload_current_vault_snapshot, Simple, Aside
    <2> QED
      BY <2>1, <2>2
  <1>5. CASE unlock_current_vault
    <2> DEFINE r == session.current
    <2>1. CASE r = NoRef \/ ~source_for(refs, r)
      BY <1>5, <2>1, <1>a DEF unlock_current_vault, DeletedLeavesNothing
    <2>2. CASE ~(r = NoRef \/ ~source_for(refs, r)) /\ session.preloaded
      <3>1. FinishPassword(r, kept[r], session) /\ UNCHANGED <<kept, refs, record, side>> /\ work' = Idle
        BY <1>5, <2>2 DEF unlock_current_vault
      <3>2. session' = session \/ \E v : session' = finish_unlock(session, r, v)
        BY <3>1 DEF FinishPassword
      <3>3. r \in refs.vaults
        BY <2>2 DEF source_for
      <3> QED
        BY <3>1, <3>2, <3>3, <1>a, SessionLocked DEF DeletedLeavesNothing
    <2>3. CASE ~(r = NoRef \/ ~source_for(refs, r)) /\ ~session.preloaded
      <3>1. PICK bytes \in Readable(r) :
                load_source_snapshot(r, bytes) /\ FinishPassword(r, bytes, Loading(r))
        BY <1>5, <2>3 DEF unlock_current_vault
      <3>2. session' = Loading(r) \/ \E v : session' = finish_unlock(session, r, v)
        BY <3>1 DEF FinishPassword
      <3>3. UNCHANGED <<record, side>> /\ work' = Idle
        BY <1>5 DEF unlock_current_vault
      <3> QED
        BY <3>1, <3>2, <3>3, <1>a, SessionLocked, LoadKeepsForgotten
    <2> QED
      BY <2>1, <2>2, <2>3
  <1>6. CASE unlock_vault
    <2>1. PICK r \in Refs \ Remote :
              /\ kept' = [kept EXCEPT ![r] = file[r]]
              /\ refs' = upsert(refs, r)
              /\ FinishPassword(r, file[r], set_current_vault(session, r))
      BY <1>6 DEF unlock_vault
    <2>2. session' = set_current_vault(session, r) \/ \E v : session' = finish_unlock(session, r, v)
      BY <2>1 DEF FinishPassword
    <2>3. UNCHANGED <<record, side>> /\ work' = Idle
      BY <1>6 DEF unlock_vault
    <2>4. refs'.vaults = refs.vaults \cup {r} /\ refs'.cleanups = refs.cleanups \ {r}
      BY <2>1, StoreOperations
    <2> QED
      BY <2>1, <2>2, <2>3, <2>4, <1>a, SessionLocked DEF DeletedLeavesNothing, Shape
  <1>7. CASE save_vault
    BY <1>7, <1>a DEF save_vault, MaySave, SaveVault, DeletedLeavesNothing, Shape
  <1>8. CASE notify_reconciliation_slot
    BY <1>8, <1>a, SessionLocked DEF notify_reconciliation_slot, disk, DeletedLeavesNothing
  <1>9. CASE StoreTemp
    BY <1>9 DEF StoreTemp, AtStore, Rest, Fails, Shape, WorkShape, Continues, Handling,
                DeletedLeavesNothing
  <1>10. CASE publish_temp
    BY <1>10 DEF publish_temp, AtStore, Rest, Fails, Shape, WorkShape, Continues, Handling,
                 DeletedLeavesNothing
  <1>11. CASE cleanup_quick_unlock_sidecars
    BY <1>11 DEF cleanup_quick_unlock_sidecars, AtStore, Rest, Fails, Shape, WorkShape, Continues,
                 Handling, DeletedLeavesNothing
  <1>12. CASE unlock_current_vault_with_quick_unlock
    <2>1. CASE UNCHANGED <<kept, refs, session>> /\ work' = Idle
      BY <1>12, <2>1, <1>a DEF unlock_current_vault_with_quick_unlock, Aside, DeletedLeavesNothing
    <2>2. CASE ~(UNCHANGED <<kept, refs, session>> /\ work' = Idle)
      <3>1. PICK bytes \in Readable(session.current) :
                /\ load_source_snapshot(session.current, bytes)
                /\ session' = Loading(session.current)
                /\ work' = Opening("quick", session.current, bytes)
        BY <1>12, <2>2 DEF unlock_current_vault_with_quick_unlock
      <3>2. work'.ref = session.current
        BY <3>1 DEF Opening
      <3> QED
        BY <1>12, <3>1, <3>2, SessionLocked, LoadKeepsForgotten
        DEF unlock_current_vault_with_quick_unlock, Aside
    <2> QED
      BY <2>1, <2>2
  <1>13. CASE adopt_untouched_onedrive_head
    BY <1>13, <1>a
    DEF adopt_untouched_onedrive_head, Aside, Opening, Shape, DeletedLeavesNothing
  <1>14. CASE BlobCancelled
    BY <1>14, <1>a DEF BlobCancelled, disk, DeletedLeavesNothing
  <1>15. CASE BlobRead
    BY <1>15, <1>a, BlobReadOutcome, RemovalKeepsForgotten DEF Handling
  <1>16. CASE finish_unlock_from_blob
    <2> DEFINE vault == Vault(work.key, work.vault, DictOf(work.bytes), FALSE)
    <2>1. /\ work.ref \in refs.vaults /\ work' = Idle /\ UNCHANGED <<refs, record, side>>
      BY <1>16 DEF finish_unlock_from_blob, AtOpening, Handling
    <2>2. \/ /\ session' = finish_unlock(session, work.ref, vault)
             /\ kept' = [kept EXCEPT ![work.ref] = work.bytes]
          \/ UNCHANGED <<session, kept>>
      BY <1>16 DEF finish_unlock_from_blob
    <2> HIDE DEF vault
    <2>3. DeletedLeavesNothing'
      BY <2>1, <2>2 DEF DeletedLeavesNothing, Shape
    <2> QED
      BY <2>1, <2>2, <2>3, <1>a, SessionLocked
  <1>17. CASE unlock_historical_snapshot
    BY <1>17, <1>a, RemovalKeepsForgotten DEF unlock_historical_snapshot
  <1>18. CASE bind_quick_unlock_reconciliation_credentials
    BY <1>18, <1>a DEF bind_quick_unlock_reconciliation_credentials, Aside, DeletedLeavesNothing
  <1>19. CASE reconcile_quick_unlock
    BY <1>19, <1>a
    DEF reconcile_quick_unlock, EndReconciliation, Enrolling, disk, Handling, DeletedLeavesNothing
  <1>20. CASE purge_quick_unlock_record_directory
    <2>1. UNCHANGED <<refs, kept, session>> /\ work'.op \notin Handling
      BY <1>20, <1>a
      DEF purge_quick_unlock_record_directory, EndReconciliation, Shape, WorkShape, Handling
    <2>2. \E r : \/ delete_quick_unlock_record(r) \/ DeleteFails(r) \/ UNCHANGED <<record, side>>
      BY <1>20 DEF purge_quick_unlock_record_directory
    <2> QED
      BY <2>1, <2>2, RemovalKeepsForgotten
  <1>21. CASE authorize_store_user_presence
    BY <1>21, <1>a
    DEF authorize_store_user_presence, verify_hello_key_for_enrollment, AtEnroll, disk,
        EndReconciliation, Shape, WorkShape, Handling, DeletedLeavesNothing
  <1>22. CASE enroll_quick_unlock_for_current_vault
    BY <1>22, <1>a
    DEF enroll_quick_unlock_for_current_vault, AtEnroll, EndReconciliation, Storing, disk,
        Shape, WorkShape, Handling, DeletedLeavesNothing
  <1>23. CASE EnrollEnds
    <2>1. UNCHANGED <<refs, kept, session>> /\ work' = Idle
      BY <1>23 DEF EnrollEnds, EndReconciliation
    <2>2. delete_quick_unlock_record(work.ref) \/ DeleteFails(work.ref) \/ UNCHANGED <<record, side>>
      BY <1>23 DEF EnrollEnds
    <2> QED
      BY <2>1, <2>2, <1>a, RemovalKeepsForgotten
  <1>24. CASE delete_vault_reference
    <2>1. work'.op \notin Handling
      BY <1>24, <1>a DEF delete_vault_reference, CleaningUp, Handling
    <2> QED
      BY <1>24, <2>1, SessionLocked, StoreOperations
      DEF delete_vault_reference, Aside, DeletedLeavesNothing
  <1>25. CASE reconcile_deleted_vault_cleanup
    <2>1. session' = session /\ work'.op \notin Handling
      BY <1>25, <1>a DEF reconcile_deleted_vault_cleanup, Shape, WorkShape, Handling
    <2>2. CASE UNCHANGED <<kept, record, side, refs>>
      BY <2>1, <2>2 DEF DeletedLeavesNothing
    <2>3. CASE \E r \in work.names : complete_cleanup_while(r)
      <3>1. PICK r \in work.names : complete_cleanup_while(r)
        BY <2>3
      <3>2. refs'.vaults = refs.vaults
        BY <3>1, StoreOperations DEF complete_cleanup_while
      <3> QED
        BY <2>1, <3>1, <3>2, StoreOperations
        DEF complete_cleanup_while, delete_quick_unlock_record, DeleteFails, DeletedLeavesNothing, Shape
    <2> QED
      BY <1>25, <2>2, <2>3 DEF reconcile_deleted_vault_cleanup
  <1>26. CASE Saver \/ Reconciler \/ \E c \in Clients : Client(c)
    BY <1>26
    DEF Saver, set_quick_unlock_enabled, schedule_reconciliation, Reconciler,
        reconcile_desktop_settings, ReconLoadFails, Client,
        reconcile_with_quick_unlock_credentials, ClientNotifies, disk, DeletedLeavesNothing
  <1>27. CASE \E c \in Clients : \E command \in Commands(c) : Send(c, command)
    BY <1>27 DEF Send, disk, DeletedLeavesNothing
  <1>28. CASE \E enabled \in BOOLEAN : save_and_publish(enabled)
    BY <1>28 DEF save_and_publish, DeletedLeavesNothing
  <1>29. CASE persist_unsaved_before_idle_lock
    BY <1>29 DEF persist_unsaved_before_idle_lock, MaySave, SaveVault, Handling,
                 DeletedLeavesNothing, Shape
  <1>30. CASE \E r \in Refs : ForeignSave(r) \/ Damage(r)
    BY <1>30 DEF ForeignSave, Damage, DeletedLeavesNothing
  <1>31. CASE HelloReset
    BY <1>31 DEF HelloReset, disk, DeletedLeavesNothing
  <1>32. CASE Restart
    BY <1>32 DEF Restart, disk, CleaningUp, Handling, DeletedLeavesNothing
  <1>33. CASE AtRest
    BY <1>33, <1>0 DEF AtRest
  <1> QED
    BY <1>0, <1>1, <1>2, <1>3, <1>4, <1>5, <1>6, <1>7, <1>8, <1>9, <1>10, <1>11, <1>12, <1>13,
       <1>14, <1>15, <1>16, <1>17, <1>18, <1>19, <1>20, <1>21, <1>22, <1>23, <1>24, <1>25, <1>26,
       <1>27, <1>28, <1>29, <1>30, <1>31, <1>32, <1>33
    DEF Next, Worker, Environment

(* Deleting a reference removes its record, what was left of one and its   *)
(* copies of the vault before the intent to do so is forgotten, whatever   *)
(* fails, dies or runs meanwhile.                                          *)
THEOREM DeletedReferencesLeaveNothing == Spec => []DeletedLeavesNothing
  <1>1. Init => Forgotten
    BY ForgottenInit
  <1>2. Shape /\ Forgotten /\ [Next]_vars => Forgotten'
    BY ForgottenStep
  <1>3. Forgotten => DeletedLeavesNothing
    BY DEF Forgotten
  <1> QED
    BY <1>1, <1>2, <1>3, ShapeHolds, PTL DEF Spec

-----------------------------------------------------------------------------
(* The requests to the worker: how many of them are reconciliations, and   *)
(* with which setting.                                                     *)
NotAsked(q) == \A i \in 1..Len(q) : q[i].cmd # "reconcile"
AskedOnce(q) ==
    \A i, j \in 1..Len(q) : q[i].cmd = "reconcile" /\ q[j].cmd = "reconcile" => i = j
Asks(q, enabled) == \E i \in 1..Len(q) : q[i].cmd = "reconcile" /\ q[i].enabled = enabled
IsSeq(q) == q \in Seq({q[i] : i \in 1..Len(q)})

LEMMA RequestTaken ==
    ASSUME NEW q, IsSeq(q), q # <<>>
    PROVE  /\ IsSeq(Tail(q)) /\ Len(q) \in Nat \ {0} /\ Len(Tail(q)) = Len(q) - 1
           /\ Head(q) = q[1] /\ \A i \in 1..Len(Tail(q)) : Tail(q)[i] = q[i + 1]
  <1> DEFINE S == {q[i] : i \in 1..Len(q)}
  <1>1. q \in Seq(S)
    BY DEF IsSeq
  <1> HIDE DEF S
  <1>2. /\ Len(q) \in Nat \ {0} /\ Tail(q) \in Seq(S) /\ Len(Tail(q)) = Len(q) - 1
        /\ Head(q) = q[1] /\ \A i \in 1..Len(Tail(q)) : Tail(q)[i] = q[i + 1]
    BY <1>1
  <1> DEFINE t == Tail(q)
             T == {t[i] : i \in 1..Len(t)}
  <1>3. t \in Seq(S)
    BY <1>2
  <1> HIDE DEF t
  <1>4. DOMAIN t = 1..Len(t) /\ Len(t) \in Nat /\ t = [i \in 1..Len(t) |-> t[i]]
    BY <1>3
  <1>5. t \in [1..Len(t) -> T]
    BY <1>4
  <1>6. t \in Seq(T)
    BY <1>4, <1>5
  <1> QED
    BY <1>2, <1>6 DEF t, IsSeq

LEMMA RequestSent ==
    ASSUME NEW q, NEW x, IsSeq(q)
    PROVE  /\ IsSeq(Append(q, x)) /\ Len(q) \in Nat /\ Len(Append(q, x)) = Len(q) + 1
           /\ \A i \in 1..Len(q) : Append(q, x)[i] = q[i]
           /\ Append(q, x)[Len(q) + 1] = x
  <1> DEFINE S == {q[i] : i \in 1..Len(q)} \cup {x}
             n == Len(q) + 1
  <1>1. Len(q) \in Nat /\ DOMAIN q = 1..Len(q) /\ q = [i \in 1..Len(q) |-> q[i]]
    BY DEF IsSeq
  <1>2. q \in [1..Len(q) -> S]
    BY <1>1
  <1>3. q \in Seq(S) /\ x \in S
    BY <1>1, <1>2
  <1> HIDE DEF S
  <1> DEFINE t == Append(q, x)
             T == {t[i] : i \in 1..Len(t)}
  <1>4. /\ t \in Seq(S) /\ Len(t) = n /\ t[n] = x
        /\ \A i \in 1..Len(q) : t[i] = q[i]
    BY <1>1, <1>3
  <1> HIDE DEF t
  <1>5. DOMAIN t = 1..Len(t) /\ Len(t) \in Nat /\ t = [i \in 1..Len(t) |-> t[i]]
    BY <1>4
  <1>6. t \in [1..Len(t) -> T]
    BY <1>5
  <1>7. t \in Seq(T)
    BY <1>5, <1>6
  <1> QED
    BY <1>1, <1>4, <1>7 DEF t, IsSeq

LEMMA OtherTaken ==
    ASSUME NEW q, IsSeq(q), q # <<>>, Head(q).cmd # "reconcile"
    PROVE  /\ IsSeq(Tail(q)) /\ (AskedOnce(q) => AskedOnce(Tail(q)))
           /\ (NotAsked(q) => NotAsked(Tail(q)))
           /\ \A b : Asks(Tail(q), b) <=> Asks(q, b)
  <1>1. /\ IsSeq(Tail(q)) /\ Len(q) \in Nat \ {0} /\ Len(Tail(q)) = Len(q) - 1
        /\ q[1].cmd # "reconcile" /\ \A i \in 1..Len(Tail(q)) : Tail(q)[i] = q[i + 1]
    BY RequestTaken
  <1>2. AskedOnce(q) => AskedOnce(Tail(q))
    <2> SUFFICES ASSUME AskedOnce(q), NEW i \in 1..Len(Tail(q)), NEW j \in 1..Len(Tail(q)),
                        Tail(q)[i].cmd = "reconcile", Tail(q)[j].cmd = "reconcile"
                 PROVE  i = j
      BY DEF AskedOnce
    <2>1. i + 1 \in 1..Len(q) /\ j + 1 \in 1..Len(q)
      BY <1>1
    <2>2. i + 1 = j + 1
      BY <1>1, <2>1 DEF AskedOnce
    <2> QED
      BY <2>2
  <1>3. NotAsked(q) => NotAsked(Tail(q))
    BY <1>1 DEF NotAsked
  <1>4. ASSUME NEW b PROVE Asks(Tail(q), b) <=> Asks(q, b)
    <2>1. ASSUME Asks(Tail(q), b) PROVE Asks(q, b)
      <3>1. PICK i \in 1..Len(Tail(q)) : Tail(q)[i].cmd = "reconcile" /\ Tail(q)[i].enabled = b
        BY <2>1 DEF Asks
      <3>2. i + 1 \in 1..Len(q) /\ q[i + 1].cmd = "reconcile" /\ q[i + 1].enabled = b
        BY <1>1, <3>1
      <3> QED
        BY <3>2 DEF Asks
    <2>2. ASSUME Asks(q, b) PROVE Asks(Tail(q), b)
      <3>1. PICK i \in 1..Len(q) : q[i].cmd = "reconcile" /\ q[i].enabled = b
        BY <2>2 DEF Asks
      <3>2. i # 1
        BY <1>1, <3>1
      <3>3. i - 1 \in 1..Len(Tail(q)) /\ (i - 1) + 1 = i
        BY <1>1, <3>2
      <3>4. Tail(q)[i - 1] = q[i]
        BY <1>1, <3>3
      <3> QED
        BY <3>1, <3>3, <3>4 DEF Asks
    <2> QED
      BY <2>1, <2>2 DEF Asks
  <1> QED
    BY <1>1, <1>2, <1>3, <1>4

LEMMA ReconcileTaken ==
    ASSUME NEW q, IsSeq(q), q # <<>>, AskedOnce(q), Head(q).cmd = "reconcile"
    PROVE  IsSeq(Tail(q)) /\ NotAsked(Tail(q)) /\ Asks(q, Head(q).enabled)
  <1>1. /\ IsSeq(Tail(q)) /\ Len(q) \in Nat \ {0} /\ Len(Tail(q)) = Len(q) - 1
        /\ Head(q) = q[1] /\ \A i \in 1..Len(Tail(q)) : Tail(q)[i] = q[i + 1]
    BY RequestTaken
  <1>2. 1 \in 1..Len(q) /\ q[1].cmd = "reconcile" /\ q[1].enabled = Head(q).enabled
    BY <1>1
  <1>3. ASSUME NEW i \in 1..Len(Tail(q)) PROVE Tail(q)[i].cmd # "reconcile"
    <2>1. i + 1 \in 1..Len(q) /\ i + 1 # 1 /\ Tail(q)[i] = q[i + 1]
      BY <1>1
    <2> QED
      BY <1>2, <2>1 DEF AskedOnce
  <1> QED
    BY <1>1, <1>2, <1>3 DEF Asks, NotAsked

LEMMA OtherSent ==
    ASSUME NEW q, NEW x, IsSeq(q), x.cmd # "reconcile"
    PROVE  /\ IsSeq(Append(q, x)) /\ (AskedOnce(q) => AskedOnce(Append(q, x)))
           /\ (NotAsked(q) => NotAsked(Append(q, x)))
           /\ \A b : Asks(Append(q, x), b) <=> Asks(q, b)
  BY RequestSent DEF AskedOnce, NotAsked, Asks

LEMMA ReconcileSent ==
    ASSUME NEW q, NEW x, IsSeq(q), NotAsked(q), x.cmd = "reconcile"
    PROVE  /\ IsSeq(Append(q, x)) /\ AskedOnce(Append(q, x))
           /\ \A b : Asks(Append(q, x), b) <=> x.enabled = b
  BY RequestSent DEF AskedOnce, NotAsked, Asks

LEMMA NotAskedAsks ==
    ASSUME NEW q, NotAsked(q)
    PROVE  AskedOnce(q) /\ \A b : ~Asks(q, b)
  BY DEF AskedOnce, NotAsked, Asks

LEMMA NoRequests == IsSeq(<<>>) /\ NotAsked(<<>>)
  BY DEF IsSeq, NotAsked

-----------------------------------------------------------------------------
(* Turning quick unlock off.  While the setting is off and something of a  *)
(* record is on disk, or may get there, a reconciliation is still due, or  *)
(* the last one failed.  It cannot be lost: the channel drops a request    *)
(* only for one that will read the settings later, there is one request at *)
(* a time, and one with an older setting has a later one behind it.        *)
Clean == side = {} /\ \A r \in Refs : record[r] = NoRecord
Reconciling ==
    \/ work.op \in {"purge", "enroll"}
    \/ (work.op = "store" /\ work.then.op = "enroll")
ThreadsDue == saver # "idle" \/ chan # <<>>
PurgeDue == ThreadsDue \/ Asks(queue, FALSE) \/ work.op = "purge"

Threads ==
    /\ IsSeq(queue) /\ AskedOnce(queue)
    /\ chan # <<>> => chan = <<chan[1]>> /\ chan[1].from \in Clients \cup {"none"}
    /\ saver \in {"idle", "written", "published"}
    /\ settings \in BOOLEAN /\ gate \in BOOLEAN
    /\ saver # "written" => gate = settings
OneReconciliation ==
    /\ recon = "idle" => NotAsked(queue) /\ ~Reconciling
    /\ Reconciling => NotAsked(queue)
LateSettings == \A b : Asks(queue, b) /\ b # settings => ThreadsDue
PurgeWillFollow ==
    ~settings /\ (work.op \in Handling \/ ~Clean) => PurgeDue \/ status # "ok"
\* A purge knows of all that is left: nothing is stored beside it.
PurgeIsWhole ==
    work.op = "purge" =>
        side \subseteq work.names /\ \A r \in Refs \ work.names : record[r] = NoRecord
Off == Threads /\ OneReconciliation /\ LateSettings /\ PurgeWillFollow /\ PurgeIsWhole

LEMMA OffInit == Init => Off
  <1> SUFFICES ASSUME Init PROVE Off
    OBVIOUS
  <1>1. queue = <<>> /\ chan = <<>> /\ work.op = "idle" /\ saver = "idle" /\ settings = TRUE
        /\ gate = TRUE
    BY DEF Init, Idle
  <1>2. IsSeq(queue) /\ NotAsked(queue) /\ AskedOnce(queue)
    BY <1>1, NoRequests, NotAskedAsks
  <1>3. \A b : ~Asks(queue, b)
    BY <1>2, NotAskedAsks
  <1> QED
    BY <1>1, <1>2, <1>3
    DEF Off, Threads, OneReconciliation, LateSettings, PurgeWillFollow, PurgeIsWhole, Reconciling

\* A step of the worker that leaves the other threads alone.
LEMMA OffQuiet ==
    ASSUME Off, UNCHANGED <<gate, settings, saver, chan, recon, status>>,
           queue' = queue \/ (queue # <<>> /\ Head(queue).cmd # "reconcile" /\ queue' = Tail(queue)),
           work.op # "purge", work'.op # "purge", Reconciling' => Reconciling,
           work'.op \in Handling => work.op \in Handling \/ gate,
           \/ work.op \in Handling
           \/ side' \subseteq side /\ \A r \in Refs : record'[r] \in {record[r], NoRecord}
    PROVE  Off'
  <1>1. /\ IsSeq(queue') /\ AskedOnce(queue') /\ (NotAsked(queue) => NotAsked(queue'))
        /\ \A b : Asks(queue', b) <=> Asks(queue, b)
    BY OtherTaken DEF Off, Threads
  <1>2. Threads'
    BY <1>1 DEF Off, Threads
  <1>3. OneReconciliation'
    BY <1>1 DEF Off, OneReconciliation
  <1>4. LateSettings'
    BY <1>1 DEF Off, LateSettings, ThreadsDue
  <1>5. ASSUME ~settings', work'.op \in Handling \/ ~Clean' PROVE PurgeDue' \/ status' # "ok"
    <2>1. CASE gate
      BY <2>1, <1>5 DEF Off, Threads, PurgeDue, ThreadsDue
    <2>2. CASE work.op \in Handling \/ ~Clean
      BY <1>1, <1>5, <2>2 DEF Off, PurgeWillFollow, PurgeDue, ThreadsDue
    <2> QED
      BY <1>5, <2>1, <2>2 DEF Clean
  <1> QED
    BY <1>2, <1>3, <1>4, <1>5 DEF Off, PurgeWillFollow, PurgeIsWhole

\* The end of a reconciliation.
LEMMA OffEnds ==
    ASSUME Off, NEW result, EndReconciliation(result), UNCHANGED <<gate, settings, saver, chan>>,
           IsSeq(queue'), NotAsked(queue'),
           result # "ok" \/ settings \/ ThreadsDue \/ Clean'
    PROVE  Off'
  <1>1. AskedOnce(queue') /\ \A b : ~Asks(queue', b)
    BY NotAskedAsks
  <1>2. work'.op = "idle" /\ work'.op \notin Handling /\ ~Reconciling' /\ status' = result
    BY DEF EndReconciliation, Reconciled, Idle, Handling, Reconciling
  <1>3. LateSettings'
    BY <1>1 DEF LateSettings
  <1> QED
    BY <1>1, <1>2, <1>3
    DEF Off, Threads, OneReconciliation, PurgeWillFollow, PurgeIsWhole, PurgeDue, ThreadsDue

\* A request for a reconciliation fills the channel.
LEMMA ChannelFilled ==
    ASSUME Threads, notify_reconciliation
    PROVE  chan' # <<>> /\ chan' = <<chan'[1]>> /\ chan'[1].from \in Clients \cup {"none"}
  <1>1. CASE chan = <<>>
    BY <1>1 DEF notify_reconciliation, WithNotice, Plain
  <1>2. CASE chan # <<>>
    <2>1. chan = <<chan[1]>>
      BY <1>2 DEF Threads
    <2>2. Len(chan) = 1
      BY <2>1
    <2> QED
      BY <1>2, <2>1, <2>2 DEF notify_reconciliation, WithNotice, Threads
  <1> QED
    BY <1>1, <1>2

LEMMA CommandCmd ==
    ASSUME NEW c, NEW command \in Commands(c)
    PROVE  command.cmd # "reconcile"
  BY DEF Commands

LEMMA OffStep == ASSUME Shape, Off, [Next]_vars PROVE Off'
  <1>a. work' = Idle => work'.op = "idle" /\ ~Reconciling' /\ work'.op \notin Handling
    BY DEF Idle, Handling, Reconciling
  <1>b. IsIdle => work.op # "purge" /\ ~Reconciling
    BY DEF IsIdle, Reconciling
  <1>c. Reconciling => IsSeq(queue) /\ NotAsked(queue)
    BY DEF Off, Threads, OneReconciliation
  <1>d. gate => settings \/ ThreadsDue
    BY DEF Off, Threads, ThreadsDue
  <1>0. CASE UNCHANGED vars
    <2>1. UNCHANGED <<Threads, OneReconciliation, LateSettings, PurgeWillFollow, PurgeIsWhole>>
      BY <1>0
      DEF vars, PurgeIsWhole, Threads, OneReconciliation, LateSettings, PurgeWillFollow, Reconciling, ThreadsDue,
          PurgeDue, Clean
    <2> QED
      BY <2>1 DEF Off
  <1>1. CASE lock_session
    BY <1>1, <1>a, <1>b, OffQuiet DEF lock_session, Simple, Takes, Aside
  <1>2. CASE set_current
    BY <1>2, <1>a, <1>b, OffQuiet DEF set_current, Simple, Takes, Aside
  <1>3. CASE add_vault_reference
    BY <1>3, <1>a, <1>b, OffQuiet DEF add_vault_reference, Simple, Takes, Aside
  <1>4. CASE preload_current_vault_snapshot
    BY <1>4, <1>a, <1>b, OffQuiet DEF preload_current_vault_snapshot, Simple, Takes, Aside
  <1>5. CASE unlock_current_vault
    BY <1>5, <1>a, <1>b, OffQuiet DEF unlock_current_vault, Takes
  <1>6. CASE unlock_vault
    BY <1>6, <1>a, <1>b, OffQuiet DEF unlock_vault, Takes
  <1>7. CASE save_vault
    BY <1>7, <1>a, <1>b, OffQuiet DEF save_vault, Takes
  <1>8. CASE notify_reconciliation_slot
    <2>1. /\ chan' # <<>> /\ chan' = <<chan'[1]>> /\ chan'[1].from \in Clients \cup {"none"}
      BY <1>8, ChannelFilled DEF notify_reconciliation_slot, Off
    <2>2. UNCHANGED <<queue, recon, saver, gate, settings>> /\ work' = Idle
      BY <1>8 DEF notify_reconciliation_slot, disk
    <2> QED
      BY <2>1, <2>2, <1>a
      DEF Off, Threads, OneReconciliation, LateSettings, PurgeWillFollow, PurgeIsWhole, ThreadsDue, PurgeDue
  <1>9. CASE StoreTemp
    BY <1>9, OffQuiet
    DEF StoreTemp, AtStore, Rest, threads, Shape, WorkShape, Continues, Reconciling, Handling
  <1>10. CASE publish_temp
    BY <1>10, OffQuiet
    DEF publish_temp, AtStore, Rest, threads, Shape, WorkShape, Continues, Reconciling, Handling
  <1>11. CASE cleanup_quick_unlock_sidecars
    BY <1>11, OffQuiet
    DEF cleanup_quick_unlock_sidecars, AtStore, Rest, threads, Shape, WorkShape, Continues,
        Reconciling, Handling
  <1>12. CASE unlock_current_vault_with_quick_unlock
    <2>1. work' = Idle \/ (gate /\ work'.op = "quick")
      BY <1>12 DEF unlock_current_vault_with_quick_unlock, Opening
    <2>2. ~Reconciling'
      BY <2>1, <1>a DEF Reconciling
    <2> QED
      BY <1>12, <2>1, <2>2, <1>a, <1>b, OffQuiet
      DEF unlock_current_vault_with_quick_unlock, Takes, Aside
  <1>13. CASE adopt_untouched_onedrive_head
    <2>1. work' = Idle \/ (gate /\ work'.op = "adopt")
      BY <1>13 DEF adopt_untouched_onedrive_head, Opening
    <2>2. ~Reconciling'
      BY <2>1, <1>a DEF Reconciling
    <2> QED
      BY <1>13, <2>1, <2>2, <1>a, <1>b, OffQuiet DEF adopt_untouched_onedrive_head, Takes, Aside
  <1>14. CASE BlobCancelled
    BY <1>14, <1>a, OffQuiet DEF BlobCancelled, AtOpening, disk, Handling
  <1>15. CASE BlobRead
    <2>1. work.op \in {"quick", "adopt"}
      BY <1>15, BlobReadOutcome
    <2>2. ~Reconciling'
      BY <1>15, <1>a, BlobReadOutcome DEF Reconciling
    <2>3. work'.op # "purge"
      BY <1>15, <1>a, BlobReadOutcome
    <2> QED
      BY <1>15, <2>1, <2>2, <2>3, OffQuiet DEF BlobRead, Handling
  <1>16. CASE finish_unlock_from_blob
    BY <1>16, <1>a, OffQuiet DEF finish_unlock_from_blob, AtOpening, Handling
  <1>17. CASE unlock_historical_snapshot
    <2>1. side' \subseteq side /\ \A r \in Refs : record'[r] \in {record[r], NoRecord}
      BY <1>17 DEF unlock_historical_snapshot, delete_quick_unlock_record, Shape
    <2> QED
      BY <1>17, <2>1, <1>a, <1>b, OffQuiet DEF unlock_historical_snapshot, Takes
  <1>18. CASE bind_quick_unlock_reconciliation_credentials
    BY <1>18, <1>a, <1>b, OffQuiet DEF bind_quick_unlock_reconciliation_credentials, Takes, Aside
  <1>19. CASE reconcile_quick_unlock
    <2>1. /\ IsSeq(queue') /\ NotAsked(queue') /\ Asks(queue, Request.enabled)
          /\ AskedOnce(queue')
      BY <1>19, ReconcileTaken, NotAskedAsks
      DEF reconcile_quick_unlock, Takes, Request, Off, Threads
    <2>2. recon # "idle"
      BY <2>1, NotAskedAsks DEF Off, OneReconciliation
    <2>3. UNCHANGED <<gate, settings, saver, chan, record, side>>
      BY <1>19 DEF reconcile_quick_unlock, disk
    <2>4. CASE gate # Request.enabled
      <3>1. EndReconciliation("ok")
        BY <1>19, <2>4 DEF reconcile_quick_unlock
      <3>2. settings \/ ThreadsDue
        <4>1. CASE gate
          BY <4>1, <1>d
        <4>2. CASE ~gate /\ ~settings
          <5>1. Request.enabled # settings
            BY <2>4, <4>2 DEF Off, Threads
          <5> QED
            BY <2>1, <5>1 DEF Off, LateSettings
        <4> QED
          BY <4>1, <4>2 DEF Off, Threads
      <3> QED
        BY <2>1, <2>3, <3>1, <3>2, OffEnds
    <2>5. CASE gate = Request.enabled /\ ~gate
      <3>1. work' = [op |-> "purge", names |-> purge_names(record, side)]
            /\ UNCHANGED <<recon, status>>
        BY <1>19, <2>5 DEF reconcile_quick_unlock
      <3>2. /\ work'.op = "purge" /\ side' \subseteq work'.names
            /\ \A r \in Refs \ work'.names : record'[r] = NoRecord
        BY <3>1, <2>3 DEF purge_names
      <3>3. LateSettings'
        BY <2>1, NotAskedAsks DEF LateSettings
      <3> QED
        BY <2>1, <2>2, <2>3, <3>1, <3>2, <3>3
        DEF Off, Threads, OneReconciliation, PurgeWillFollow, PurgeIsWhole, PurgeDue
    <2>6. CASE gate = Request.enabled /\ gate
      <3>1. CASE EndReconciliation("ok") \/ EndReconciliation("failed")
        BY <2>1, <2>3, <2>6, <3>1, <1>d, OffEnds
      <3>2. CASE work' = Enrolling("presence") /\ UNCHANGED <<recon, status>>
        <4>1. LateSettings'
          BY <2>1, NotAskedAsks DEF LateSettings
        <4>2. work'.op = "enroll"
          BY <3>2 DEF Enrolling
        <4> QED
          BY <2>1, <2>2, <2>3, <2>6, <3>2, <4>1, <4>2, <1>d
          DEF Off, Threads, OneReconciliation, PurgeWillFollow, PurgeIsWhole, PurgeDue, ThreadsDue
      <3> QED
        BY <1>19, <2>6, <3>1, <3>2 DEF reconcile_quick_unlock
    <2> QED
      BY <2>4, <2>5, <2>6
  <1>20. CASE purge_quick_unlock_record_directory
    <2>1. /\ work.op = "purge" /\ Reconciling
          /\ UNCHANGED <<gate, settings, saver, chan, queue>>
      BY <1>20 DEF purge_quick_unlock_record_directory, Reconciling
    <2>2. CASE EndReconciliation("failed")
      BY <2>1, <2>2, <1>c, OffEnds
    <2>3. CASE work.names = {} /\ EndReconciliation("ok") /\ UNCHANGED <<record, side>>
      <3>1. Clean'
        BY <2>1, <2>3 DEF Off, PurgeIsWhole, Clean
      <3> QED
        BY <2>1, <2>3, <3>1, <1>c, OffEnds
    <2>4. CASE \E r \in work.names :
                  /\ delete_quick_unlock_record(r)
                  /\ work' = [work EXCEPT !.names = @ \ {r}]
                  /\ UNCHANGED <<recon, status>>
      <3>1. PICK r \in work.names :
                  /\ delete_quick_unlock_record(r)
                  /\ work' = [work EXCEPT !.names = @ \ {r}]
                  /\ UNCHANGED <<recon, status>>
        BY <2>4
      <3>2. work'.op = "purge" /\ work'.names = work.names \ {r}
        BY <2>1, <3>1 DEF Shape, WorkShape
      <3>3. side' = side \ {r} /\ \A q \in Refs : record'[q] = IF q = r THEN NoRecord ELSE record[q]
        BY <3>1 DEF delete_quick_unlock_record, Shape
      <3>4. Reconciling' /\ work'.op \notin Handling
        BY <3>2 DEF Reconciling, Handling
      <3>5. PurgeWillFollow' /\ PurgeIsWhole'
        BY <2>1, <3>1, <3>2, <3>3 DEF Off, PurgeWillFollow, PurgeIsWhole, PurgeDue
      <3> QED
        BY <2>1, <3>1, <3>4, <3>5 DEF Off, Threads, OneReconciliation, LateSettings, ThreadsDue
    <2> QED
      BY <1>20, <2>2, <2>3, <2>4 DEF purge_quick_unlock_record_directory
  <1>21. CASE authorize_store_user_presence
    <2>1. /\ work.op = "enroll" /\ Reconciling
          /\ UNCHANGED <<gate, settings, saver, chan, queue, record, side>>
      BY <1>21 DEF authorize_store_user_presence, AtEnroll, disk, Reconciling
    <2>2. CASE EndReconciliation("failed")
      BY <2>1, <2>2, <1>c, OffEnds
    <2>3. CASE work' = [work EXCEPT !.step = "verify"] /\ UNCHANGED <<recon, status>>
      <3>1. work'.op = "enroll"
        BY <2>1, <2>3 DEF Shape, WorkShape
      <3> QED
        BY <2>1, <2>3, <3>1, OffQuiet DEF Handling, Reconciling
    <2> QED
      BY <1>21, <2>2, <2>3
      DEF authorize_store_user_presence, verify_hello_key_for_enrollment
  <1>22. CASE enroll_quick_unlock_for_current_vault
    <2>1. /\ work.op = "enroll" /\ Reconciling
          /\ UNCHANGED <<gate, settings, saver, chan, queue, record, side>>
      BY <1>22 DEF enroll_quick_unlock_for_current_vault, AtEnroll, disk, Reconciling
    <2>2. CASE EndReconciliation("failed")
      BY <2>1, <2>2, <1>c, OffEnds
    <2>3. CASE ~EndReconciliation("failed")
      <3>1. work'.op = "store" /\ UNCHANGED <<recon, status>>
        BY <1>22, <2>3 DEF enroll_quick_unlock_for_current_vault, Storing
      <3> QED
        BY <2>1, <3>1, OffQuiet DEF Handling
    <2> QED
      BY <2>2, <2>3
  <1>23. CASE EnrollEnds
    <2>1. /\ work.op = "enroll" /\ Reconciling
          /\ UNCHANGED <<gate, settings, saver, chan, queue>>
      BY <1>23 DEF EnrollEnds, AtEnroll, Reconciling
    <2>2. EndReconciliation("failed") \/ (gate /\ EndReconciliation("ok"))
      BY <1>23 DEF EnrollEnds
    <2> QED
      BY <2>1, <2>2, <1>c, <1>d, OffEnds
  <1>24. CASE delete_vault_reference
    <2>1. work' = Idle \/ work'.op = "cleanup"
      BY <1>24 DEF delete_vault_reference, CleaningUp
    <2>2. ~Reconciling' /\ work'.op \notin Handling /\ work'.op # "purge"
      BY <2>1, <1>a DEF Reconciling, Handling
    <2> QED
      BY <1>24, <2>2, <1>b, OffQuiet DEF delete_vault_reference, Takes, Aside
  <1>25. CASE reconcile_deleted_vault_cleanup
    <2>1. work.op = "cleanup" /\ (work' = Idle \/ work'.op = "cleanup")
      BY <1>25 DEF reconcile_deleted_vault_cleanup, Shape, WorkShape
    <2>2. ~Reconciling' /\ work'.op \notin Handling /\ work'.op # "purge" /\ work.op # "purge"
      BY <2>1, <1>a DEF Reconciling, Handling
    <2>3. side' \subseteq side /\ \A r \in Refs : record'[r] \in {record[r], NoRecord}
      BY <1>25
      DEF reconcile_deleted_vault_cleanup, complete_cleanup_while, delete_quick_unlock_record,
          DeleteFails, Shape
    <2> QED
      BY <1>25, <2>2, <2>3, OffQuiet DEF reconcile_deleted_vault_cleanup
  <1>26. CASE set_quick_unlock_enabled
    BY <1>26
    DEF set_quick_unlock_enabled, disk, Off, Threads, OneReconciliation, LateSettings,
        PurgeWillFollow, PurgeIsWhole, PurgeDue, ThreadsDue, Reconciling
  <1>27. CASE schedule_reconciliation
    <2>1. /\ chan' # <<>> /\ chan' = <<chan'[1]>> /\ chan'[1].from \in Clients \cup {"none"}
      BY <1>27, ChannelFilled DEF schedule_reconciliation, Off
    <2>2. UNCHANGED <<queue, recon, gate, settings, work, record, side>>
          /\ saver = "published" /\ saver' = "idle"
      BY <1>27 DEF schedule_reconciliation, disk
    <2>3. Threads'
      BY <2>1, <2>2 DEF Off, Threads
    <2> QED
      BY <2>1, <2>2, <2>3
      DEF Off, OneReconciliation, LateSettings, PurgeWillFollow, PurgeIsWhole, PurgeDue,
          ThreadsDue, Reconciling
  <1>28. CASE reconcile_desktop_settings
    <2> DEFINE request == [cmd |-> "reconcile", from |-> "recon", enabled |-> settings,
                           cred |-> Head(chan).cred, ref |-> Head(chan).ref]
    <2>1. /\ recon = "idle" /\ chan # <<>> /\ recon' = Head(chan).from /\ chan' = Tail(chan)
          /\ queue' = Append(queue, request)
          /\ UNCHANGED <<gate, settings, saver, status, work, record, side>>
      BY <1>28 DEF reconcile_desktop_settings, disk
    <2>2. request.cmd = "reconcile" /\ request.enabled = settings
      OBVIOUS
    <2> HIDE DEF request
    <2>3. IsSeq(queue) /\ NotAsked(queue) /\ ~Reconciling
      BY <2>1 DEF Off, Threads, OneReconciliation
    <2>4. IsSeq(queue') /\ AskedOnce(queue') /\ \A b : Asks(queue', b) <=> settings = b
      BY <2>1, <2>2, <2>3, ReconcileSent
    <2>5. chan = <<chan[1]>> /\ chan[1].from \in Clients \cup {"none"}
      BY <2>1 DEF Off, Threads
    <2>6. chan' = <<>> /\ recon' = chan[1].from
      <3> DEFINE notice == chan[1]
      <3>1. chan = <<notice>>
        BY <2>5
      <3> HIDE DEF notice
      <3>2. Tail(chan) = <<>> /\ Head(chan) = notice
        BY <3>1
      <3> QED
        BY <2>1, <3>2 DEF notice
    <2>7. recon' # "idle"
      BY <2>5, <2>6, ClientsAssumption
    <2>8. ~Reconciling'
      BY <2>1, <2>3 DEF Reconciling
    <2>9. LateSettings'
      BY <2>1, <2>4 DEF LateSettings, Off, Threads
    <2>10. PurgeWillFollow' /\ PurgeIsWhole'
      BY <2>1, <2>4 DEF Off, Threads, PurgeWillFollow, PurgeIsWhole, PurgeDue
    <2> QED
      BY <2>1, <2>4, <2>6, <2>7, <2>8, <2>9, <2>10 DEF Off, Threads, OneReconciliation
  <1>29. CASE ReconLoadFails
    <2>1. /\ recon = "idle" /\ chan # <<>> /\ chan' = Tail(chan) /\ status' = "failed"
          /\ UNCHANGED <<queue, recon, gate, settings, saver, work, record, side>>
      BY <1>29 DEF ReconLoadFails, disk
    <2>2. NotAsked(queue) /\ ~Reconciling
      BY <2>1 DEF Off, OneReconciliation
    <2>3. chan' = <<>>
      BY <2>1 DEF Off, Threads
    <2>4. \A b : ~Asks(queue', b)
      BY <2>1, <2>2, NotAskedAsks
    <2>5. ~Reconciling'
      BY <2>1, <2>2 DEF Reconciling
    <2> QED
      BY <2>1, <2>2, <2>3, <2>4, <2>5
      DEF Off, Threads, OneReconciliation, LateSettings, PurgeWillFollow, PurgeIsWhole
  <1>30. CASE \E c \in Clients : reconcile_with_quick_unlock_credentials(c)
    <2>1. PICK c \in Clients : reconcile_with_quick_unlock_credentials(c)
      BY <1>30
    <2> DEFINE notice == [cred |-> client[c].cred, ref |-> client[c].ref, from |-> c]
    <2>2. chan' = Append(chan, notice) /\ Len(chan) < 1
          /\ UNCHANGED <<queue, recon, saver, gate, settings, status, work, record, side>>
      BY <2>1 DEF reconcile_with_quick_unlock_credentials, disk
    <2>3. notice.from \in Clients
      OBVIOUS
    <2> HIDE DEF notice
    <2>4. chan = <<>>
      BY <2>2 DEF Off, Threads
    <2>5. chan' = <<notice>>
      BY <2>2, <2>4
    <2>6. /\ chan' # <<>> /\ chan' = <<chan'[1]>> /\ chan'[1].from \in Clients \cup {"none"}
      BY <2>3, <2>5
    <2>7. Threads'
      BY <2>2, <2>6 DEF Off, Threads
    <2> QED
      BY <2>2, <2>6, <2>7
      DEF Off, OneReconciliation, LateSettings, PurgeWillFollow, PurgeIsWhole, PurgeDue,
          ThreadsDue, Reconciling
  <1>31. CASE \E c \in Clients : ClientNotifies(c)
    <2>1. /\ chan' # <<>> /\ chan' = <<chan'[1]>> /\ chan'[1].from \in Clients \cup {"none"}
      BY <1>31, ChannelFilled DEF ClientNotifies, Off
    <2>2. UNCHANGED <<queue, recon, gate, settings, saver, work, record, side>>
      BY <1>31 DEF ClientNotifies, disk
    <2>3. Threads'
      BY <2>1, <2>2 DEF Off, Threads
    <2> QED
      BY <2>1, <2>2, <2>3
      DEF Off, OneReconciliation, LateSettings, PurgeWillFollow, PurgeIsWhole, PurgeDue,
          ThreadsDue, Reconciling
  <1>32. CASE \E c \in Clients : \E command \in Commands(c) : Send(c, command)
    <2>0. PICK c \in Clients : \E command \in Commands(c) : Send(c, command)
      BY <1>32
    <2>1. PICK command \in Commands(c) : Send(c, command)
      BY <2>0
    <2>2. queue' = Append(queue, command)
          /\ UNCHANGED <<chan, recon, saver, gate, settings, status, work, record, side>>
      BY <2>1 DEF Send, disk
    <2>3. /\ IsSeq(queue') /\ AskedOnce(queue') /\ (NotAsked(queue) => NotAsked(queue'))
          /\ \A b : Asks(queue', b) <=> Asks(queue, b)
      BY <2>2, CommandCmd, OtherSent DEF Off, Threads
    <2> QED
      BY <2>2, <2>3
      DEF Off, Threads, OneReconciliation, LateSettings, PurgeWillFollow, PurgeIsWhole, PurgeDue,
          ThreadsDue, Reconciling, Clean
  <1>33. CASE \E enabled \in BOOLEAN : save_and_publish(enabled)
    <2>1. /\ settings' \in BOOLEAN /\ saver' = "written"
          /\ UNCHANGED <<queue, recon, gate, chan, work, record, side>>
      BY <1>33 DEF save_and_publish
    <2> QED
      BY <2>1
      DEF Off, Threads, OneReconciliation, LateSettings, PurgeWillFollow, PurgeIsWhole, PurgeDue,
          ThreadsDue, Reconciling
  <1>34. CASE persist_unsaved_before_idle_lock
    <2>1. work'.op = "idle_lock"
      BY <1>34 DEF persist_unsaved_before_idle_lock
    <2>2. ~Reconciling' /\ work'.op \notin Handling /\ work'.op # "purge"
      BY <2>1 DEF Reconciling, Handling
    <2> QED
      BY <1>34, <2>2, <1>b, OffQuiet DEF persist_unsaved_before_idle_lock
  <1>35. CASE (\E r \in Refs : ForeignSave(r) \/ Damage(r)) \/ HelloReset
    <2>1. UNCHANGED <<queue, chan, recon, status, gate, settings, saver, work, record, side>>
      BY <1>35 DEF ForeignSave, Damage, HelloReset, threads, disk
    <2> QED
      BY <2>1
      DEF Off, Threads, OneReconciliation, LateSettings, PurgeWillFollow, PurgeIsWhole, PurgeDue,
          ThreadsDue, Reconciling, Clean
  <1>36. CASE Restart
    <2>1. /\ queue' = <<>> /\ chan' = <<Plain>> /\ saver' = "idle" /\ recon' = "idle"
          /\ gate' = settings /\ work'.op = "cleanup" /\ UNCHANGED <<settings, record, side>>
      BY <1>36 DEF Restart, disk, CleaningUp
    <2>2. IsSeq(queue') /\ NotAsked(queue') /\ AskedOnce(queue')
      BY <2>1, NoRequests, NotAskedAsks
    <2>3. /\ chan' # <<>> /\ chan' = <<chan'[1]>> /\ chan'[1].from = "none"
      BY <2>1 DEF Plain
    <2>4. ~Reconciling'
      BY <2>1 DEF Reconciling
    <2> QED
      BY <2>1, <2>2, <2>3, <2>4
      DEF Off, Threads, OneReconciliation, LateSettings, PurgeWillFollow, PurgeIsWhole, PurgeDue,
          ThreadsDue
  <1>37. CASE AtRest
    BY <1>37, <1>0 DEF AtRest
  <1> QED
    BY <1>0, <1>1, <1>2, <1>3, <1>4, <1>5, <1>6, <1>7, <1>8, <1>9, <1>10, <1>11, <1>12, <1>13,
       <1>14, <1>15, <1>16, <1>17, <1>18, <1>19, <1>20, <1>21, <1>22, <1>23, <1>24, <1>25, <1>26,
       <1>27, <1>28, <1>29, <1>30, <1>31, <1>32, <1>33, <1>34, <1>35, <1>36, <1>37
    DEF Next, Worker, Saver, Reconciler, Client, Environment

LEMMA OffLeavesNothing == Off => DisabledLeavesNothing
  <1> SUFFICES ASSUME Off, Quiet, ~settings, status = "ok" PROVE Clean
    BY DEF DisabledLeavesNothing, Clean
  <1>1. saver = "idle" /\ chan = <<>> /\ recon = "idle" /\ work.op = "idle"
    BY DEF Quiet, IsIdle
  <1>2. ~Asks(queue, FALSE)
    BY <1>1, NotAskedAsks DEF Off, OneReconciliation
  <1> QED
    BY <1>1, <1>2 DEF Off, PurgeWillFollow, PurgeDue, ThreadsDue

(* When quick unlock was turned off, or a vault reference was deleted, and *)
(* the threads came to rest without an error, nothing of a credential is   *)
(* on disk, whatever enrolled meanwhile, failed or died.                   *)
THEOREM NothingIsLeft == Spec => []NothingLeft
  <1>1. Init => Off
    BY OffInit
  <1>2. Shape /\ Off /\ [Next]_vars => Off'
    BY OffStep
  <1>3. Off /\ DeletedLeavesNothing => NothingLeft
    BY OffLeavesNothing DEF NothingLeft
  <1> QED
    BY <1>1, <1>2, <1>3, ShapeHolds, DeletedReferencesLeaveNothing, PTL DEF Spec

-----------------------------------------------------------------------------
\* A derivation that succeeds gives the key of the file's own parameters.
LEMMA DerivedIsOfFile ==
    ASSUME NEW bytes, NEW cred,
           derive_transformed_key_with_policy(bytes, cred, Desktop, FALSE).error = "none"
    PROVE  derive_transformed_key_with_policy(bytes, cred, Desktop, FALSE).key
                = derive_key(decode_kdbx4(DictOf(bytes)), cred)
  <1> DEFINE result == derive_transformed_key_with_policy(bytes, cred, Desktop, FALSE)
             header == decode_with_consumed(bytes.header)
             kdf == decode_kdbx4(header.vault.kdf)
             allowed == enforce_external_kdf_policy(kdf, Desktop, FALSE)
             whole == bytes.hash = sha256_bytes(bytes.header)
  <1>1. result = IF ~IsOpened(header) THEN NotDerived(header.error)
                 ELSE IF ~whole THEN NotDerived("HeaderHashMismatch")
                 ELSE IF kdf = NoKdf THEN NotDerived("UnsupportedKdf")
                 ELSE IF ~allowed THEN NotDerived("KdfPolicy")
                 ELSE DerivedKey(derive_key(kdf, cred))
    BY Zenon DEF derive_transformed_key_with_policy
  <1>2. \A error : NotDerived(error).error = error
    BY DEF NotDerived
  <1>3. result.error = "none" /\ (IsOpened(header) <=> header.error = "none")
    BY DEF IsOpened
  <1>4. DerivedKey(derive_key(kdf, cred)).key = derive_key(kdf, cred)
    BY DEF DerivedKey
  <1>5. kdf = decode_kdbx4(DictOf(bytes))
    BY DEF DictOf
  <1> HIDE DEF result, header, kdf, allowed, whole
  <1>6. result = DerivedKey(derive_key(kdf, cred))
    BY <1>1, <1>2, <1>3
  <1>7. result.key = derive_key(decode_kdbx4(DictOf(bytes)), cred)
    BY <1>4, <1>5, <1>6
  <1> QED
    BY <1>7 DEF result

\* A record that opens these bytes is not the one a reader of them gives up.
LEMMA UsefulIsNotDeleted ==
    ASSUME NEW r, NEW bytes, NEW refresh, contains(r),
           unlock_from_blob_with_cache_policy(r, bytes, refresh).act = "delete"
    PROVE  /\ refresh /\ Refused(r, bytes)
           /\ ~Opens(bytes, derive_key(decode_kdbx4(DictOf(bytes)), record[r].cred))
  <1> DEFINE derived == derive_transformed_key_with_policy(bytes, record[r].cred, Desktop, FALSE)
             again == load_kdbx_with_transformed_key(bytes, derived.key)
  <1>1. /\ derived.error = "none" /\ ~IsOpened(again) /\ refresh
        /\ again.error = "HeaderHmacMismatch"
    BY DEF unlock_from_blob_with_cache_policy, contains, NoAttempt, Attempt
  <1>2. derived.key = derive_key(decode_kdbx4(DictOf(bytes)), record[r].cred)
    BY <1>1, DerivedIsOfFile
  <1> QED
    BY <1>1, <1>2 DEF Opens, Refused

LEMMA UsefulStep ==
    ASSUME Shape, Next, NEW r \in Refs, Useful(r), record'[r] = NoRecord
    PROVE  \/ ~gate \/ work.op = "purge"
           \/ r \notin refs.vaults
           \/ AtStore("replace") /\ work.ref = r /\ r \in side'
           \/ /\ work.op \in {"quick", "adopt"} /\ work.ref = r
              /\ work.bytes # file[r] /\ Refused(r, work.bytes)
  <1>a. record[r] # NoRecord /\ record' # record /\ contains(r)
    BY DEF Useful, contains
  <1>1. CASE publish_temp
    BY <1>1, <1>a DEF publish_temp, AtStore, Shape, WorkShape
  <1>2. CASE BlobRead
    <2> DEFINE attempt == unlock_from_blob_with_cache_policy(work.ref, work.bytes, TRUE)
    <2>1. /\ work.op \in {"quick", "adopt"}
          /\ delete_quick_unlock_record(work.ref) \/ DeleteFails(work.ref)
      BY <1>2, <1>a, BlobReadOutcome
    <2>2. work.ref = r
      BY <2>1, <1>a DEF delete_quick_unlock_record, DeleteFails, Shape
    <2>3. attempt.act = "delete"
      BY <1>2, <1>a DEF BlobRead
    <2>4. /\ ~Opens(work.bytes, derive_key(decode_kdbx4(DictOf(work.bytes)), record[r].cred))
          /\ Refused(r, work.bytes)
      BY <1>a, <2>2, <2>3, UsefulIsNotDeleted
    <2> QED
      BY <2>1, <2>2, <2>4 DEF Useful
  <1>3. CASE unlock_historical_snapshot
    <2>1. PICK base : /\ contains(session.active)
                      /\ unlock_historical_snapshot_from_blob(session.active, base.file).act
                            = "delete"
      BY <1>3, <1>a DEF unlock_historical_snapshot
    <2> QED
      BY <2>1, UsefulIsNotDeleted DEF unlock_historical_snapshot_from_blob
  <1>4. CASE purge_quick_unlock_record_directory
    BY <1>4 DEF purge_quick_unlock_record_directory
  <1>5. CASE EnrollEnds
    BY <1>5, <1>a DEF EnrollEnds
  <1>6. CASE reconcile_deleted_vault_cleanup
    <2>1. PICK q \in work.names : IntentIsCurrent(refs, q) /\ complete_cleanup_while(q)
      BY <1>6, <1>a DEF reconcile_deleted_vault_cleanup
    <2>2. q = r
      BY <2>1, <1>a DEF complete_cleanup_while, delete_quick_unlock_record, DeleteFails, Shape
    <2> QED
      BY <2>1, <2>2 DEF IntentIsCurrent
  <1>7. CASE \/ lock_session \/ set_current \/ add_vault_reference
             \/ preload_current_vault_snapshot \/ unlock_current_vault_with_quick_unlock
             \/ adopt_untouched_onedrive_head \/ bind_quick_unlock_reconciliation_credentials
             \/ delete_vault_reference
    BY <1>7, <1>a
    DEF lock_session, set_current, add_vault_reference, preload_current_vault_snapshot,
        unlock_current_vault_with_quick_unlock, adopt_untouched_onedrive_head,
        bind_quick_unlock_reconciliation_credentials, delete_vault_reference, Aside
  <1>8. CASE \/ unlock_current_vault \/ unlock_vault \/ save_vault \/ notify_reconciliation_slot
             \/ StoreTemp \/ cleanup_quick_unlock_sidecars \/ BlobCancelled
             \/ finish_unlock_from_blob \/ reconcile_quick_unlock
             \/ authorize_store_user_presence \/ enroll_quick_unlock_for_current_vault
    BY <1>8, <1>a
    DEF unlock_current_vault, unlock_vault, save_vault, notify_reconciliation_slot, StoreTemp,
        cleanup_quick_unlock_sidecars, BlobCancelled, finish_unlock_from_blob,
        reconcile_quick_unlock, authorize_store_user_presence,
        enroll_quick_unlock_for_current_vault, disk
  <1>9. CASE Saver \/ Reconciler \/ (\E c \in Clients : Client(c)) \/ Environment \/ AtRest
    BY <1>9, <1>a
    DEF Saver, set_quick_unlock_enabled, schedule_reconciliation, Reconciler,
        reconcile_desktop_settings, ReconLoadFails, Client,
        reconcile_with_quick_unlock_credentials, ClientNotifies, Environment, Send,
        save_and_publish, persist_unsaved_before_idle_lock, ForeignSave, Damage, HelloReset,
        Restart, AtRest, disk, vars
  <1> QED
    BY <1>1, <1>2, <1>3, <1>4, <1>5, <1>6, <1>7, <1>8, <1>9 DEF Next, Worker

(* A record that opens the newest version is given up only while quick     *)
(* unlock is off, for a deleted vault, by a replacement that failed half   *)
(* way and left it in its backup, or because the runtime took another      *)
(* version for the vault, which the record's credential does not open.     *)
THEOREM UsefulRecordsKept == Spec => UsefulRecordKept
  <1>1. ASSUME Shape, [Next]_vars
        PROVE  [\A r \in Refs : Useful(r) /\ record'[r] = NoRecord =>
                    \/ ~gate \/ work.op = "purge"
                    \/ r \notin refs.vaults
                    \/ AtStore("replace") /\ work.ref = r /\ r \in side'
                    \/ /\ work.op \in {"quick", "adopt"} /\ work.ref = r
                       /\ work.bytes # file[r] /\ Refused(r, work.bytes)]_vars
    BY <1>1, UsefulStep
  <1> QED
    BY <1>1, ShapeHolds, PTL DEF Spec, UsefulRecordKept

=============================================================================
