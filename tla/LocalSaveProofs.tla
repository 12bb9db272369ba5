-------------------------- MODULE LocalSaveProofs --------------------------
(***************************************************************************)
(* Proofs about LocalSave for every set of runtimes and edits and every    *)
(* number of saves and faults: what a save denies is not published, what   *)
(* was acknowledged stays readable, and what other programs wrote is not   *)
(* overwritten.                                                            *)
(***************************************************************************)
EXTENDS LocalSave, TLAPS

DiskType == dir \in Directory /\ expo \subseteq Directory /\ dir \in expo

RunType ==
    /\ lock \in Proc \cup {NoProc}
    /\ sess \in [Proc -> Session]
    /\ job \in [Proc -> Job]
    /\ \A p \in Proc : lock = p <=> job[p].at \in Locked

HistoryType ==
    /\ platform \in Platform
    /\ copies \subseteq Edit
    /\ count \in 0 .. MaxSaves
    /\ made \subseteq Edit /\ acked \subseteq Edit
    /\ assumed \subseteq Edit /\ cut \subseteq Edit
    /\ denied \subseteq Save
    /\ foreign \subseteq Edit /\ gone \subseteq Edit /\ raced \subseteq Edit
    /\ faults \in 0 .. MaxFaults

\* How a step of p leaves the jobs.
Moves(p, stage) ==
    /\ job' \in [Proc -> Job]
    /\ job'[p].at = stage
    /\ job'[p].k = job[p].k /\ job'[p].init = job[p].init /\ job'[p].cand = job[p].cand
    /\ \A q \in Proc \ {p} : job'[q] = job[q]

Ends(p) ==
    /\ job' \in [Proc -> Job]
    /\ job'[p] = NoJob
    /\ \A q \in Proc \ {p} : job'[q] = job[q]

-----------------------------------------------------------------------------
LEMMA TypeParts == TypeOK <=> DiskType /\ RunType /\ HistoryType
  BY DEF TypeOK, DiskType, RunType, HistoryType

LEMMA ConstantTypes ==
    /\ Target \in Name
    /\ NoFile \in File /\ FirstFile \in File
    /\ NoJob \in Job /\ Closed \in Session
    /\ \A k \in 0 .. MaxSaves : /\ k \in Name /\ RollbackName(k) \in Name
                                /\ RestoreInode(k) \in Inode /\ CopyInode(k) \in Inode
                                /\ k \in Inode
  <1>1. MaxSaves \in Nat
    BY LocalAssumption
  <1>2. NoFile \in File /\ FirstFile \in File
    BY <1>1 DEF NoFile, FirstFile, File, Inode, FirstInode
  <1>3. NoJob \in Job /\ Closed \in Session
    BY <1>1, <1>2 DEF NoJob, Closed, Job, Session, Stage
  <1>. QED
    BY <1>1, <1>2, <1>3 DEF Target, Name, RollbackName, RestoreInode, CopyInode, Inode

LEMMA PutType ==
    ASSUME NEW d \in Directory, NEW n \in Name, NEW f \in File
    PROVE  /\ Put(d, n, f) \in Directory
           /\ Put(d, n, f)[n] = f
           /\ \A m \in Name \ {n} : Put(d, n, f)[m] = d[m]
  BY DEF Put, Directory

LEMMA SetEntryType ==
    ASSUME DiskType, NEW n \in Name, NEW f \in File, SetEntry(n, f)
    PROVE  DiskType'
  BY PutType DEF DiskType, SetEntry

LEMMA SetEntryAndFlushType ==
    ASSUME DiskType, NEW n \in Name, NEW f \in File, SetEntryAndFlush(n, f)
    PROVE  DiskType'
  BY PutType DEF DiskType, SetEntryAndFlush

LEMMA FlushType == ASSUME DiskType, Flush PROVE DiskType'
  BY DEF DiskType, Flush

LEMMA SameDiskType == ASSUME DiskType, UNCHANGED disk PROVE DiskType'
  BY DEF DiskType, disk

LEMMA DiscardType ==
    ASSUME DiskType, NEW n \in Name, Discard(n)
    PROVE  DiskType'
  BY SetEntryType, SetEntryAndFlushType, SameDiskType, ConstantTypes DEF Discard

LEMMA ReplaceType ==
    ASSUME DiskType, NEW n \in Name, NEW f \in File, Replace(f, n)
    PROVE  DiskType'
  <1>1. ASSUME NEW d \in Directory PROVE Replaced(d, f, n) \in Directory
    <2>1. d[Target] \in File
      BY ConstantTypes DEF Directory
    <2>2. Put(d, Target, f) \in Directory /\ Put(d, n, d[Target]) \in Directory
      BY <2>1, ConstantTypes, PutType
    <2>3. Put(Put(d, n, d[Target]), Target, f) \in Directory
      BY <2>2, ConstantTypes, PutType
    <2>. QED
      BY <2>2, <2>3 DEF Replaced
  <1>. QED
    BY <1>1 DEF DiskType, Replace

LEMMA RewriteType ==
    ASSUME NEW d \in Directory, NEW i, NEW f \in File
    PROVE  Rewrite(d, i, f) \in Directory
  BY DEF Rewrite, Directory

LEMMA ClearedType ==
    ASSUME NEW d \in Directory, NEW k \in 0 .. MaxSaves
    PROVE  /\ Cleared(d, k) \in Directory
           /\ Cleared(d, k)[k] = NoFile /\ Cleared(d, k)[RollbackName(k)] = NoFile
           /\ \A n \in Name \ {k, RollbackName(k)} : Cleared(d, k)[n] = d[n]
  BY ConstantTypes DEF Cleared, Directory

LEMMA SiblingNames ==
    ASSUME NEW k \in Save
    PROVE  /\ k \in 0 .. MaxSaves
           /\ k \in Name \ {Target} /\ RollbackName(k) \in Name \ {Target, k}
           /\ \A j \in Save : RollbackName(k) # j /\ (RollbackName(k) = RollbackName(j) => k = j)
  BY LocalAssumption DEF Save, Name, Target, RollbackName

LEMMA GotoMoves ==
    ASSUME RunType, NEW p \in Proc, NEW stage \in Stage, Goto(p, stage)
    PROVE  Moves(p, stage)
  BY DEF RunType, Goto, Moves, Job

LEMMA FailEnds ==
    ASSUME RunType, NEW p \in Proc, Fail(p)
    PROVE  Ends(p)
  BY ConstantTypes DEF RunType, Fail, Ends

-----------------------------------------------------------------------------
(* The lock and the jobs. *)

LEMMA Stays ==
    ASSUME RunType, NEW p \in Proc, NEW stage \in Stage, Moves(p, stage),
           lock' = lock, sess' \in [Proc -> Session],
           stage \in Locked <=> job[p].at \in Locked
    PROVE  RunType'
  BY DEF RunType, Moves

LEMMA Stops ==
    ASSUME RunType, NEW p \in Proc, NEW stage \in Stage, Moves(p, stage),
           lock' = NoProc, sess' \in [Proc -> Session],
           stage \notin Locked, job[p].at \in Locked
    PROVE  RunType'
  <1>1. \A q \in Proc \ {p} : job'[q].at \notin Locked
    BY DEF RunType, Moves
  <1>. QED
    BY <1>1, LocalAssumption DEF RunType, Moves

LEMMA Finishes ==
    ASSUME RunType, NEW p \in Proc, Ends(p), sess' \in [Proc -> Session],
           IF job[p].at \in Locked THEN lock' = NoProc ELSE lock' = lock
    PROVE  RunType'
  <1>1. NoJob.at \notin Locked
    BY DEF NoJob, Locked
  <1>2. CASE job[p].at \in Locked
    <2>1. \A q \in Proc \ {p} : job'[q].at \notin Locked
      BY <1>2 DEF RunType, Ends
    <2>. QED
      BY <1>1, <1>2, <2>1, LocalAssumption DEF RunType, Ends
  <1>3. CASE job[p].at \notin Locked
    BY <1>1, <1>3 DEF RunType, Ends
  <1>. QED
    BY <1>2, <1>3

-----------------------------------------------------------------------------
(* The types, step by step. *)

LEMMA FileType ==
    ASSUME TypeOK
    PROVE  /\ \A d \in expo, n \in Name : d[n] \in File
           /\ \A n \in Name : dir[n] \in File
           /\ \A p \in Proc : /\ job[p] \in Job /\ sess[p] \in Session
                             /\ job[p].k \in 0 .. MaxSaves
                             /\ job[p].init \in File /\ job[p].cand \in File
                             /\ sess[p].base \in File
                             /\ sess[p].v \subseteq Edit
  BY DEF TypeOK, Directory, Job, Session

LEMMA DiskStep ==
    ASSUME TypeOK, Next
    PROVE  DiskType'
  <1>. DiskType
    BY TypeParts
  <1>1. ASSUME UNCHANGED disk PROVE DiskType'
    BY <1>1, SameDiskType
  <1>2. ASSUME Flush PROVE DiskType'
    BY <1>2, FlushType
  <1>3. ASSUME NEW p \in Proc, Discard(job[p].k) PROVE DiskType'
    BY <1>3, FileType, ConstantTypes, DiscardType
  <1>4. ASSUME NEW p \in Proc, BeginWrite(p) PROVE DiskType'
    <2>. DEFINE clean == [n \in Name |->
                           IF n \in HardLinks(dir) THEN NoFile ELSE dir[n]]
    <2>1. clean \in Directory
      BY FileType, ConstantTypes DEF Directory
    <2>2. dir' = clean /\ expo' = IF HardLinks(dir) = {} THEN expo ELSE {clean}
      BY <1>4 DEF BeginWrite
    <2>3. HardLinks(dir) = {} => clean = dir
      BY DEF DiskType, Directory
    <2>. QED
      BY <2>1, <2>2, <2>3 DEF DiskType
  <1>5. ASSUME NEW p \in Proc, PublishBackup(p) PROVE DiskType'
    <2>. DEFINE copied == [dir[Target] EXCEPT !.ino = CopyInode(job[p].k)]
    <2>1. dir[Target] \in File /\ copied \in File /\ job[p].k \in Name
      BY FileType, ConstantTypes DEF File
    <2>. QED
      BY <2>1, <1>5, <1>1, SetEntryType DEF PublishBackup
  <1>6. ASSUME NEW n \in Name, NEW f \in File, Replace(f, n) PROVE DiskType'
    BY <1>6, ReplaceType
  <1>7. ASSUME NEW p \in Proc, Rename(p) PROVE DiskType'
    BY <1>7, <1>6, <1>3, FileType, ConstantTypes DEF Rename, HalfReplace
  <1>9. ASSUME NEW p \in Proc, Restore(p) PROVE DiskType'
    <2>1. [job[p].init EXCEPT !.ino = RestoreInode(job[p].k)] \in File
      BY FileType, ConstantTypes DEF File
    <2>. QED
      BY <2>1, <1>9, <1>6, <1>1, FileType, ConstantTypes DEF Restore, HalfReplace
  <1>10. ASSUME NEW p \in Proc, Restored(p) PROVE DiskType'
    <2>1. Cleared(dir, job[p].k) \in Directory /\ Put(dir, job[p].k, NoFile) \in Directory
      BY FileType, ConstantTypes, PutType, ClearedType DEF DiskType
    <2>2. ASSUME ClearSiblings(job[p].k) PROVE DiskType'
      BY <2>1, <2>2 DEF ClearSiblings, DiskType
    <2>3. ASSUME dir' = Cleared(dir, job[p].k),
                 expo' = {dir, Put(dir, job[p].k, NoFile), dir'}
          PROVE  DiskType'
      BY <2>1, <2>3 DEF DiskType
    <2>. QED
      BY <1>10, <1>1, <1>2, <2>2, <2>3 DEF Restored
  <1>11. ASSUME NEW e \in Edit, ForeignReplace(e) PROVE DiskType'
    <2>. DEFINE f == [ino |-> count + 1, e |-> dir[Target].e \cup {e}, s |-> count + 1]
    <2>1. count + 1 \in Inode /\ count + 1 \in 0 .. MaxSaves
      BY <1>11, LocalAssumption DEF ForeignReplace, TypeOK, Inode
    <2>2. f \in File
      BY <2>1, FileType, ConstantTypes DEF File
    <2>. QED
      BY <2>2, <1>11, SetEntryAndFlushType, ConstantTypes DEF ForeignReplace
  <1>12. ASSUME NEW e \in Edit, NEW n \in Name, ForeignInPlace(e, n) PROVE DiskType'
    <2>. DEFINE f == [ino |-> dir[n].ino, e |-> dir[n].e \cup {e}, s |-> count + 1]
    <2>1. count + 1 \in 0 .. MaxSaves
      BY <1>12, LocalAssumption DEF ForeignInPlace, TypeOK
    <2>2. f \in File
      BY <2>1, FileType DEF File
    <2>3. /\ dir' = Rewrite(dir, dir[n].ino, f)
          /\ expo' = {Rewrite(d, dir[n].ino, f) : d \in expo}
      BY <1>12 DEF ForeignInPlace
    <2>. QED
      BY <2>2, <2>3, RewriteType DEF DiskType
  <1>13. ASSUME ForeignDelete PROVE DiskType'
    BY <1>13, SetEntryAndFlushType, ConstantTypes DEF ForeignDelete
  <1>14. ASSUME PowerLoss PROVE DiskType'
    BY <1>14 DEF PowerLoss, DiskType
  <1>15. ASSUME NEW p \in Proc,
                \/ FlushBackup(p) \/ Verify(p) \/ Settle(p) \/ FinalReadback(p)
                \/ Reconcile(p) \/ DropOriginal(p) \/ Recover(p) \/ ConflictCopy(p)
         PROVE  DiskType'
    BY <1>15, <1>1, <1>2, <1>3 DEF FlushBackup, Verify, Settle, FinalReadback,
       Reconcile, DropOriginal, Recover, ConflictCopy
  <1>16. ASSUME NEW p \in Proc,
                \/ Open(p) \/ Unlock(p) \/ Lock(p) \/ BeginSave(p)
                \/ BeginWriteRefused(p) \/ Recheck(p) \/ Rollback(p)
                \/ Unknown(p) \/ Crash(p) \/ \E e \in Edit : EditVault(p, e)
         PROVE  DiskType'
    BY <1>16, <1>1 DEF Open, Unlock, Lock, BeginSave, BeginWriteRefused, Recheck,
       Rollback, Unknown, Crash, EditVault
  <1>. QED
    BY <1>4, <1>5, <1>7, <1>9, <1>10, <1>11, <1>12, <1>13, <1>14, <1>15, <1>16
    DEF Next

\* A save that is under way has a number of its own, which it got from count.
Numbered == \A p \in Proc : job[p].at # "idle" => job[p].k \in 1 .. count

LEMMA HistoryStep ==
    ASSUME TypeOK, Numbered, Next
    PROVE  HistoryType'
  <1>. HistoryType
    BY TypeParts
  <1>1. ASSUME NEW p \in Proc, job[p].at # "idle", BeforePublish(p)
        PROVE  denied' \subseteq Save /\ acked' = acked
    <2>1. job[p].k \in Save
      BY <1>1, LocalAssumption DEF Numbered, HistoryType, Save
    <2>. QED
      BY <1>1, <2>1 DEF BeforePublish, HistoryType
  <1>2. ASSUME NEW p \in Proc, NEW stage \in Stage, Continue(p, stage)
        PROVE  denied' = denied /\ acked' = acked
    BY <1>2 DEF Continue
  <1>3. ASSUME NEW p \in Proc, Conflict(p)
        PROVE  denied' = denied /\ acked' = acked
    BY <1>3 DEF Conflict
  <1>4. ASSUME Fault PROVE faults' \in 0 .. MaxFaults
    BY <1>4, LocalAssumption DEF Fault, HistoryType
  <1>5. ASSUME NoFault PROVE faults' \in 0 .. MaxFaults
    BY <1>5 DEF NoFault, HistoryType
  <1>6. ASSUME Quiet, denied' \subseteq Save, acked' \subseteq Edit,
               faults' \in 0 .. MaxFaults
        PROVE  HistoryType'
    BY <1>6 DEF Quiet, HistoryType, others, unsure
  <1>7. \A p \in Proc : job[p].cand.e \subseteq Edit
    BY FileType DEF File
  <1>8. ASSUME count < MaxSaves PROVE count + 1 \in 0 .. MaxSaves
    BY <1>8, LocalAssumption DEF HistoryType
  <1>9. dir[Target].e \subseteq Edit
    BY FileType, ConstantTypes DEF File
  <1>10. denied \subseteq Save /\ acked \subseteq Edit /\ faults \in 0 .. MaxFaults
    BY DEF HistoryType
  <1>11. ASSUME NEW p \in Proc, Open(p) \/ Unlock(p) \/ Lock(p) PROVE HistoryType'
    BY <1>11, <1>6, <1>10 DEF Open, Unlock, Lock
  <1>12. ASSUME NEW p \in Proc, NEW e \in Edit, EditVault(p, e) PROVE HistoryType'
    BY <1>12 DEF EditVault, HistoryType, others, unsure
  <1>13. ASSUME NEW p \in Proc, BeginSave(p) PROVE HistoryType'
    BY <1>13, <1>8 DEF BeginSave, HistoryType, others, unsure
  <1>14. ASSUME NEW p \in Proc, BeginWrite(p) PROVE HistoryType'
    BY <1>14, <1>1, <1>3, <1>4, <1>5, <1>6, <1>10 DEF BeginWrite
  <1>15. ASSUME NEW p \in Proc, BeginWriteRefused(p) PROVE HistoryType'
    BY <1>15, <1>3, <1>6, <1>10 DEF BeginWriteRefused
  <1>16. ASSUME NEW p \in Proc, PublishBackup(p) PROVE HistoryType'
    BY <1>16, <1>1, <1>2, <1>5, <1>6, <1>10 DEF PublishBackup, Stage
  <1>17. ASSUME NEW p \in Proc, FlushBackup(p) PROVE HistoryType'
    BY <1>17, <1>1, <1>2, <1>4, <1>5, <1>6, <1>10 DEF FlushBackup, Stage
  <1>18. ASSUME NEW p \in Proc, Verify(p) PROVE HistoryType'
    BY <1>18, <1>1, <1>2, <1>3, <1>4, <1>5, <1>6, <1>10 DEF Verify, Stage
  <1>19. ASSUME NEW p \in Proc, Rename(p) PROVE HistoryType'
    BY <1>19, <1>1, <1>2, <1>4, <1>5, <1>6, <1>10 DEF Rename, Stage
  <1>20. ASSUME NEW p \in Proc, Settle(p) PROVE HistoryType'
    BY <1>20, <1>2, <1>4, <1>5, <1>6, <1>10 DEF Settle, Stage
  <1>21. ASSUME NEW p \in Proc, FinalReadback(p) PROVE HistoryType'
    BY <1>21, <1>4, <1>5, <1>6, <1>7, <1>10 DEF FinalReadback, Saved
  <1>22. ASSUME NEW p \in Proc, Reconcile(p) PROVE HistoryType'
    BY <1>22, <1>4, <1>5, <1>6, <1>10 DEF Reconcile, Continue
  <1>35. ASSUME NEW p \in Proc, DropOriginal(p) PROVE HistoryType'
    BY <1>35, <1>5, <1>6, <1>7, <1>10 DEF DropOriginal
  <1>23. ASSUME NEW p \in Proc, Recheck(p) PROVE HistoryType'
    BY <1>23, <1>4, <1>5, <1>6, <1>7, <1>10 DEF Recheck, Saved, Continue
  <1>24. ASSUME NEW p \in Proc, Rollback(p) PROVE HistoryType'
    BY <1>24, <1>4, <1>5, <1>6, <1>10 DEF Rollback, Continue
  <1>25. ASSUME NEW p \in Proc, Restore(p) PROVE HistoryType'
    BY <1>25, <1>4, <1>5, <1>6, <1>10 DEF Restore, Continue
  <1>26. ASSUME NEW p \in Proc, Restored(p) PROVE HistoryType'
    BY <1>26, <1>1, <1>4, <1>5, <1>6, <1>10 DEF Restored, Continue
  <1>27. ASSUME NEW p \in Proc, Recover(p) PROVE HistoryType'
    BY <1>27, <1>4, <1>5, <1>7 DEF Recover, Continue, HistoryType, others, unsure
  <1>28. ASSUME NEW p \in Proc, Unknown(p) PROVE HistoryType'
    BY <1>28, <1>7 DEF Unknown, Saved, HistoryType, others
  <1>29. ASSUME NEW p \in Proc, ConflictCopy(p) PROVE HistoryType'
    BY <1>29, <1>4, <1>5, <1>7 DEF ConflictCopy, HistoryType, others, unsure
  <1>30. ASSUME NEW p \in Proc, Crash(p) PROVE HistoryType'
    BY <1>30, <1>4 DEF Crash, Die, HistoryType, others, unsure
  <1>31. ASSUME PowerLoss PROVE HistoryType'
    BY <1>31, <1>4 DEF PowerLoss, Die, HistoryType, others
  <1>32. ASSUME NEW e \in Edit, ForeignReplace(e) PROVE HistoryType'
    BY <1>32, <1>8 DEF ForeignReplace, HistoryType, unsure
  <1>33. ASSUME NEW e \in Edit, NEW n \in Name, ForeignInPlace(e, n) PROVE HistoryType'
    BY <1>33, <1>8 DEF ForeignInPlace, HistoryType, unsure
  <1>34. ASSUME ForeignDelete PROVE HistoryType'
    BY <1>34, <1>4, <1>9 DEF ForeignDelete, HistoryType, unsure
  <1>. QED
    BY <1>11, <1>12, <1>13, <1>14, <1>15, <1>16, <1>17, <1>18, <1>19, <1>20, <1>21,
       <1>22, <1>23, <1>24, <1>25, <1>26, <1>27, <1>28, <1>29, <1>30, <1>31, <1>32,
       <1>33, <1>34, <1>35
    DEF Next

LEMMA RunStep ==
    ASSUME TypeOK, Next
    PROVE  RunType'
  <1>. RunType /\ sess \in [Proc -> Session]
    BY TypeParts DEF RunType
  <1>1. ASSUME NEW p \in Proc, NEW stage \in Stage, Goto(p, stage),
               sess' \in [Proc -> Session], lock' = lock,
               stage \in Locked <=> job[p].at \in Locked
        PROVE  RunType'
    BY <1>1, GotoMoves, Stays
  <1>2. ASSUME NEW p \in Proc, NEW stage \in Stage \ Locked, Goto(p, stage), sess' = sess, Release,
               job[p].at \in Locked
        PROVE  RunType'
    BY <1>2, GotoMoves, Stops DEF Release
  <1>3. ASSUME NEW p \in Proc, Fail(p), sess' \in [Proc -> Session],
               IF job[p].at \in Locked THEN Release ELSE lock' = lock
        PROVE  RunType'
    BY <1>3, FailEnds, Finishes DEF Release
  <1>0. ASSUME NEW p \in Proc, Rebase(p) PROVE sess' \in [Proc -> Session]
    <2>1. dir[Target] \in File
      BY FileType, ConstantTypes
    <2>. QED
      BY <1>0, <2>1 DEF Rebase, Session
  <1>4. ASSUME NEW p \in Proc, Saved(p) PROVE Fail(p) /\ sess' \in [Proc -> Session]
    BY <1>0, <1>4 DEF Saved
  <1>5. ASSUME job' = job, lock' = lock, sess' \in [Proc -> Session] PROVE RunType'
    BY <1>5 DEF RunType
  <1>6. ASSUME NEW p \in Proc, Open(p) \/ Unlock(p) \/ Lock(p) PROVE RunType'
    <2>1. dir[Target] \in File /\ sess[p].base.e \subseteq Edit
      BY FileType, ConstantTypes DEF File
    <2>2. sess' \in [Proc -> Session]
      BY <1>6, <2>1 DEF Open, Unlock, Lock, Session
    <2>. QED
      BY <1>5, <1>6, <2>2 DEF Open, Unlock, Lock
  <1>7. ASSUME NEW p \in Proc, NEW e \in Edit, EditVault(p, e) PROVE RunType'
    <2>1. sess' \in [Proc -> Session]
      BY <1>7, FileType DEF EditVault, Session
    <2>. QED
      BY <1>5, <1>7, <2>1 DEF EditVault
  <1>8. ASSUME NEW p \in Proc, BeginSave(p) PROVE RunType'
    <2>. DEFINE cand == [ino |-> count + 1, e |-> sess[p].v, s |-> count + 1]
                new(stage) == [NoJob EXCEPT !.at = stage, !.k = count + 1, !.cand = cand]
    <2>1. count + 1 \in 0 .. MaxSaves /\ count + 1 \in Inode
      BY <1>8, LocalAssumption DEF BeginSave, TypeOK, Inode
    <2>2. cand \in File
      BY <2>1, FileType DEF File
    <2>3. PICK stage \in {"copy", "commit"} : job' = [job EXCEPT ![p] = new(stage)]
      BY <1>8 DEF BeginSave
    <2>4. new(stage) \in Job /\ new(stage).at = stage
      BY <2>1, <2>2, ConstantTypes DEF Job, NoJob, Stage
    <2>5. job[p].at \notin Locked /\ stage \notin Locked
      BY <1>8 DEF BeginSave, Locked
    <2>. QED
      BY <1>8, <2>3, <2>4, <2>5 DEF BeginSave, RunType
  <1>9. ASSUME NEW p \in Proc, BeginWrite(p) PROVE RunType'
    <2>1. job[p].at = "commit" /\ "commit" \notin Locked /\ "copy" \notin Locked /\ "copy" \in Stage
      BY <1>9 DEF BeginWrite, Locked, Stage
    <2>2. CASE /\ job' = [job EXCEPT ![p].at = "backup", ![p].init = dir[Target]]
               /\ lock' = p /\ LockFree /\ sess' = sess
      <3>1. dir[Target] \in File
        BY FileType, ConstantTypes
      <3>2. /\ job' \in [Proc -> Job] /\ job'[p].at = "backup"
            /\ \A q \in Proc \ {p} : job'[q] = job[q]
        <4>1. "backup" \in Stage /\ job[p] \in Job
          BY DEF Stage, RunType
        <4>. QED
          BY <2>2, <3>1, <4>1 DEF RunType, Job
      <3>3. \A q \in Proc : job[q].at \notin Locked
        BY <2>2, LocalAssumption DEF LockFree, RunType
      <3>. QED
        BY <2>2, <3>2, <3>3 DEF RunType, Locked, Stage
    <2>. QED
      BY <1>9, <1>1, <1>3, <2>1, <2>2 DEF BeginWrite, Conflict, BeforePublish
  <1>10. ASSUME NEW p \in Proc, BeginWriteRefused(p) PROVE RunType'
    <2>1. job[p].at = "commit" /\ "commit" \notin Locked /\ "copy" \notin Locked /\ "copy" \in Stage
      BY <1>10 DEF BeginWriteRefused, Locked, Stage
    <2>. QED
      BY <1>10, <1>1, <2>1 DEF BeginWriteRefused, Conflict
  <1>11. ASSUME NEW p \in Proc, job[p].at \in Locked,
                \/ /\ \E stage \in Locked : Goto(p, stage)
                   /\ sess' \in [Proc -> Session] /\ lock' = lock
                \/ /\ \E stage \in Stage \ Locked : Goto(p, stage)
                   /\ sess' = sess /\ Release
                \/ Fail(p) /\ sess' \in [Proc -> Session] /\ Release
         PROVE  RunType'
    BY <1>11, <1>1, <1>2, <1>3 DEF Locked
  <1>12. ASSUME NEW p \in Proc, job[p].at \in Locked, NEW why \in {"publish", "readback"},
                job' = [job EXCEPT ![p].at = "reconcile", ![p].why = why],
                sess' = sess, lock' = lock
         PROVE  RunType'
    <2>1. "reconcile" \in Locked /\ "reconcile" \in Stage
      BY DEF Locked, Stage
    <2>2. Moves(p, "reconcile")
      BY <1>12, <2>1 DEF RunType, Moves, Job
    <2>. QED
      BY <1>12, <2>1, <2>2, Stays
  <1>. /\ {"backup", "flush", "verify", "rename", "settle", "readback", "reconcile",
            "drop", "recheck", "rollback", "restore", "restored", "recover"} = Locked
       /\ {"copy", "unknown", "idle", "commit"} = Stage \ Locked
    BY DEF Locked, Stage
  <1>. ASSUME NEW p \in Proc, BeforePublish(p) PROVE Fail(p) /\ sess' \in [Proc -> Session]
    BY DEF BeforePublish
  <1>13. ASSUME NEW p \in Proc, PublishBackup(p) PROVE RunType'
    BY <1>13, <1>11 DEF PublishBackup, Continue, BeforePublish
  <1>14. ASSUME NEW p \in Proc, FlushBackup(p) PROVE RunType'
    BY <1>14, <1>11 DEF FlushBackup, Continue, BeforePublish
  <1>15. ASSUME NEW p \in Proc, Verify(p) PROVE RunType'
    BY <1>15, <1>11 DEF Verify, Continue, Conflict, BeforePublish
  <1>16. ASSUME NEW p \in Proc, Rename(p) PROVE RunType'
    BY <1>16, <1>11, <1>12 DEF Rename, Continue, BeforePublish
  <1>17. ASSUME NEW p \in Proc, Settle(p) PROVE RunType'
    BY <1>17, <1>11, <1>12 DEF Settle, Continue
  <1>18. ASSUME NEW p \in Proc, FinalReadback(p) PROVE RunType'
    BY <1>18, <1>0, <1>4, <1>11, <1>12 DEF FinalReadback
  <1>31. ASSUME NEW p \in Proc, DropOriginal(p) PROVE RunType'
    BY <1>31, <1>11 DEF DropOriginal
  <1>19. ASSUME NEW p \in Proc, Reconcile(p) PROVE RunType'
    BY <1>19, <1>11 DEF Reconcile, Continue, AfterReconcile
  <1>20. ASSUME NEW p \in Proc, Recheck(p) PROVE RunType'
    BY <1>20, <1>4, <1>11 DEF Recheck, Continue, AfterReconcile
  <1>21. ASSUME NEW p \in Proc, Rollback(p) PROVE RunType'
    BY <1>21, <1>11 DEF Rollback, Continue
  <1>22. ASSUME NEW p \in Proc, Restore(p) PROVE RunType'
    BY <1>22, <1>11 DEF Restore, Continue
  <1>23. ASSUME NEW p \in Proc, Restored(p) PROVE RunType'
    BY <1>23, <1>11 DEF Restored, Continue, BeforePublish
  <1>24. ASSUME NEW p \in Proc, Recover(p) PROVE RunType'
    BY <1>24, <1>11 DEF Recover, Continue
  <1>25. ASSUME NEW p \in Proc, Unknown(p) PROVE RunType'
    <2>1. job[p].at \notin Locked
      BY <1>25 DEF Unknown, Locked
    <2>. QED
      BY <1>25, <1>3, <1>4, <2>1 DEF Unknown
  <1>26. ASSUME NEW p \in Proc, ConflictCopy(p) PROVE RunType'
    <2>1. job[p].at \notin Locked
      BY <1>26 DEF ConflictCopy, Locked
    <2>. QED
      BY <1>26, <1>3, <2>1 DEF ConflictCopy
  <1>27. ASSUME NEW P \in SUBSET Proc, Die(P) PROVE RunType'
    <2>1. job' \in [Proc -> Job] /\ sess' \in [Proc -> Session]
      BY <1>27, ConstantTypes DEF Die, RunType
    <2>2. NoJob.at \notin Locked /\ NoProc \notin P
      BY LocalAssumption DEF NoJob, Locked
    <2>3. \A p \in Proc : job'[p] = IF p \in P THEN NoJob ELSE job[p]
      BY <1>27 DEF Die
    <2>. QED
      BY <1>27, <2>1, <2>2, <2>3, LocalAssumption DEF Die, RunType
  <1>28. ASSUME NEW p \in Proc, Crash(p) PROVE RunType'
    BY <1>27, <1>28 DEF Crash
  <1>29. ASSUME PowerLoss PROVE RunType'
    BY <1>27, <1>29 DEF PowerLoss
  <1>30. ASSUME \/ \E e \in Edit : ForeignReplace(e) \/ \E n \in Name : ForeignInPlace(e, n)
                \/ ForeignDelete
         PROVE  RunType'
    BY <1>5, <1>30 DEF ForeignReplace, ForeignInPlace, ForeignDelete
  <1>. QED
    BY <1>6, <1>7, <1>8, <1>9, <1>10, <1>13, <1>14, <1>15, <1>16, <1>17, <1>18, <1>19,
       <1>20, <1>21, <1>22, <1>23, <1>24, <1>25, <1>26, <1>28, <1>29, <1>30, <1>31
    DEF Next

-----------------------------------------------------------------------------
(* What a step does to the jobs. *)

\* The stages of a save that has not renamed its candidate.
Pre == {"commit", "backup", "flush", "verify", "rename"}

\* A save of p that goes on, the one that opens its generation included.
Moved(p) ==
    /\ job[p].at # "idle" /\ job'[p].at \notin {"idle", "commit"} /\ count' = count
    /\ job'[p].k = job[p].k /\ job'[p].cand = job[p].cand
    /\ \/ /\ job'[p].init = job[p].init /\ job'[p].at # "backup"
          /\ job'[p].at \in Pre => job[p].at \in Pre
          /\ job'[p].at \in Locked => job[p].at \in Locked \ {"restored"}
       \/ /\ job[p].at = "commit" /\ job'[p].at = "backup"
          /\ job'[p].init = dir[Target] /\ SameBytes(dir[Target], sess[p].base)

\* A save that begins.
Begun(p) ==
    /\ sess[p].st = "open" /\ job[p].at = "idle" /\ count' = count + 1
    /\ job'[p].at \in {"copy", "commit"}
    /\ job'[p].k = count + 1 /\ job'[p].init = NoFile
    /\ job'[p].cand = [ino |-> count + 1, e |-> sess[p].v, s |-> count + 1]
    /\ UNCHANGED <<disk, denied>>

JobsStep ==
    \/ /\ \A q \in Proc : job'[q] = job[q] \/ job'[q] = NoJob
       /\ count' \in {count, count + 1}
    \/ \E p \in Proc : /\ Moved(p) \/ Begun(p)
                      /\ \A q \in Proc \ {p} : job'[q] = job[q]

LEMMA StepOfJobs ==
    ASSUME TypeOK, Next
    PROVE  JobsStep
  <1>. RunType
    BY TypeParts
  <1>1. ASSUME NEW p \in Proc, NEW stage \in Stage, Goto(p, stage), job[p].at # "idle",
               count' = count, stage \notin {"idle", "commit", "backup"},
               stage \in Pre => job[p].at \in Pre,
               stage \in Locked => job[p].at \in Locked \ {"restored"}
        PROVE  JobsStep
    BY <1>1, GotoMoves DEF Moves, Moved, JobsStep
  <1>2. ASSUME NEW p \in Proc, Fail(p), count' = count PROVE JobsStep
    BY <1>2, FailEnds DEF Ends, JobsStep
  <1>3. ASSUME job' = job, count' \in {count, count + 1} PROVE JobsStep
    BY <1>3 DEF JobsStep
  <1>4. ASSUME NEW p \in Proc, NEW why, job[p].at \in Locked \ {"restored"}, count' = count,
               job' = [job EXCEPT ![p].at = "reconcile", ![p].why = why]
        PROVE  JobsStep
    <2>1. job[p].at # "idle" /\ "reconcile" \notin Pre
      BY <1>4 DEF Locked, Pre
    <2>2. /\ job'[p].at = "reconcile" /\ job'[p].k = job[p].k
          /\ job'[p].init = job[p].init /\ job'[p].cand = job[p].cand
          /\ \A q \in Proc \ {p} : job'[q] = job[q]
      BY <1>4 DEF RunType, Job
    <2>. QED
      BY <1>4, <2>1, <2>2 DEF Moved, JobsStep
  <1>5. ASSUME NEW P \in SUBSET Proc, Die(P) PROVE JobsStep
    BY <1>5 DEF Die, JobsStep
  <1>6. ASSUME NEW p \in Proc, BeginSave(p) PROVE JobsStep
    <2>. DEFINE cand == [ino |-> count + 1, e |-> sess[p].v, s |-> count + 1]
                new(stage) == [NoJob EXCEPT !.at = stage, !.k = count + 1, !.cand = cand]
    <2>1. PICK stage \in {"copy", "commit"} : job' = [job EXCEPT ![p] = new(stage)]
      BY <1>6 DEF BeginSave
    <2>2. /\ new(stage).at = stage /\ new(stage).k = count + 1 /\ new(stage).cand = cand
          /\ new(stage).init = NoFile
      BY DEF NoJob
    <2>3. job'[p] = new(stage) /\ \A q \in Proc \ {p} : job'[q] = job[q]
      BY <2>1 DEF RunType
    <2>. QED
      BY <1>6, <2>2, <2>3 DEF BeginSave, Begun, JobsStep
  <1>7. ASSUME NEW p \in Proc, BeginWrite(p) PROVE JobsStep
    <2>1. CASE /\ job' = [job EXCEPT ![p].at = "backup", ![p].init = dir[Target]]
               /\ SameBytes(dir[Target], sess[p].base)
      <3>1. /\ job'[p].at = "backup" /\ job'[p].k = job[p].k
            /\ job'[p].init = dir[Target] /\ job'[p].cand = job[p].cand
            /\ \A q \in Proc \ {p} : job'[q] = job[q]
        BY <2>1 DEF RunType, Job
      <3>. QED
        BY <1>7, <2>1, <3>1 DEF BeginWrite, Quiet, Moved, JobsStep
    <2>. QED
      BY <1>7, <1>1, <1>2, <2>1
      DEF BeginWrite, Quiet, Conflict, BeforePublish, Stage, Pre, Locked
  <1>. /\ {"backup", "flush", "verify", "rename", "settle", "readback", "reconcile",
            "drop", "recheck", "rollback", "restore", "restored", "recover"} = Locked
       /\ {"copy", "unknown", "idle", "commit"} = Stage \ Locked
    BY DEF Locked, Stage
  <1>8. ASSUME NEW p \in Proc, count' = count,
               \/ /\ job[p].at \in Pre
                  /\ \/ Goto(p, "copy")
                     \/ /\ Goto(p, "flush") \/ Goto(p, "verify") \/ Goto(p, "rename")
                        /\ job[p].at # "commit"
               \/ /\ job[p].at \in Locked \ {"restored"}
                  /\ \/ Goto(p, "settle") \/ Goto(p, "readback") \/ Goto(p, "drop")
                     \/ Goto(p, "recheck") \/ Goto(p, "rollback") \/ Goto(p, "recover")
                     \/ Goto(p, "restore") \/ Goto(p, "restored")
               \/ job[p].at \in Locked /\ Goto(p, "unknown")
               \/ Fail(p)
               \/ \E why \in {"publish", "readback"} :
                    /\ job[p].at \in Locked \ {"restored"}
                    /\ job' = [job EXCEPT ![p].at = "reconcile", ![p].why = why]
        PROVE  JobsStep
    <2>1. ASSUME job[p].at \in Pre, NEW stage \in {"copy", "flush", "verify", "rename"},
                 Goto(p, stage), stage = "copy" \/ job[p].at # "commit"
          PROVE  JobsStep
      BY <1>8, <2>1, <1>1 DEF Pre, Stage, Locked
    <2>2. ASSUME job[p].at \in Locked,
                 NEW stage \in {"settle", "readback", "drop", "recheck", "rollback",
                                "recover", "restore", "restored", "unknown"},
                 Goto(p, stage), stage = "unknown" \/ job[p].at # "restored"
          PROVE  JobsStep
      BY <1>8, <2>2, <1>1 DEF Pre, Stage, Locked
    <2>3. CASE /\ job[p].at \in Pre
               /\ \/ Goto(p, "copy")
                  \/ /\ Goto(p, "flush") \/ Goto(p, "verify") \/ Goto(p, "rename")
                     /\ job[p].at # "commit"
      BY <2>1, <2>3
    <2>4. CASE \/ /\ job[p].at \in Locked \ {"restored"}
                  /\ \/ Goto(p, "settle") \/ Goto(p, "readback") \/ Goto(p, "drop")
                     \/ Goto(p, "recheck") \/ Goto(p, "rollback") \/ Goto(p, "recover")
                     \/ Goto(p, "restore") \/ Goto(p, "restored")
               \/ job[p].at \in Locked /\ Goto(p, "unknown")
      BY <2>2, <2>4
    <2>5. CASE Fail(p)
      BY <1>8, <2>5, <1>2
    <2>6. ASSUME job[p].at \in Locked \ {"restored"}, NEW why \in {"publish", "readback"},
                 job' = [job EXCEPT ![p].at = "reconcile", ![p].why = why]
          PROVE  JobsStep
      BY <1>8, <2>6, <1>4
    <2>. QED
      BY <1>8, <2>3, <2>4, <2>5, <2>6
  <1>9. ASSUME NEW p \in Proc, BeginWriteRefused(p) PROVE JobsStep
    <2>1. job[p].at \in Pre /\ Goto(p, "copy") /\ count' = count
      BY <1>9 DEF BeginWriteRefused, Quiet, Pre, Conflict
    <2>. QED
      BY <2>1, <1>1 DEF Stage, Locked, Pre
  <1>10. ASSUME NEW p \in Proc, PublishBackup(p) PROVE JobsStep
    BY <1>10, <1>8 DEF PublishBackup, Quiet, Pre, Continue, BeforePublish
  <1>11. ASSUME NEW p \in Proc, FlushBackup(p) PROVE JobsStep
    BY <1>11, <1>8 DEF FlushBackup, Quiet, Pre, Continue, BeforePublish
  <1>12. ASSUME NEW p \in Proc, Verify(p) PROVE JobsStep
    BY <1>12, <1>8 DEF Verify, Quiet, Pre, Continue, Conflict, BeforePublish
  <1>13. ASSUME NEW p \in Proc, Rename(p) PROVE JobsStep
    BY <1>13, <1>8 DEF Rename, Quiet, Pre, Continue, BeforePublish
  <1>14. ASSUME NEW p \in Proc, Settle(p) PROVE JobsStep
    BY <1>14, <1>8 DEF Settle, Quiet, Continue
  <1>15. ASSUME NEW p \in Proc, FinalReadback(p) PROVE JobsStep
    BY <1>15, <1>8 DEF FinalReadback, Quiet, Saved
  <1>27. ASSUME NEW p \in Proc, DropOriginal(p) PROVE JobsStep
    BY <1>27, <1>8 DEF DropOriginal, Quiet
  <1>16. ASSUME NEW p \in Proc, Reconcile(p) PROVE JobsStep
    BY <1>16, <1>8 DEF Reconcile, Quiet, Continue, AfterReconcile
  <1>17. ASSUME NEW p \in Proc, Recheck(p) PROVE JobsStep
    BY <1>17, <1>8 DEF Recheck, Quiet, Continue, AfterReconcile, Saved
  <1>18. ASSUME NEW p \in Proc, Rollback(p) PROVE JobsStep
    BY <1>18, <1>8 DEF Rollback, Quiet, Continue
  <1>19. ASSUME NEW p \in Proc, Restore(p) PROVE JobsStep
    BY <1>19, <1>8 DEF Restore, Quiet, Continue
  <1>20. ASSUME NEW p \in Proc, Restored(p) PROVE JobsStep
    BY <1>20, <1>8 DEF Restored, Quiet, Continue, BeforePublish
  <1>21. ASSUME NEW p \in Proc, Recover(p) PROVE JobsStep
    BY <1>21, <1>8 DEF Recover, Continue
  <1>22. ASSUME NEW p \in Proc, Unknown(p) PROVE JobsStep
    BY <1>22, <1>8 DEF Unknown, Quiet, Saved
  <1>23. ASSUME NEW p \in Proc, ConflictCopy(p) PROVE JobsStep
    BY <1>23, <1>8 DEF ConflictCopy
  <1>24. ASSUME NEW p \in Proc,
                Open(p) \/ Unlock(p) \/ Lock(p) \/ \E e \in Edit : EditVault(p, e)
         PROVE  JobsStep
    BY <1>24, <1>3 DEF Open, Unlock, Lock, EditVault, Quiet
  <1>25. ASSUME \/ \E p \in Proc : Crash(p)
                \/ PowerLoss
         PROVE  JobsStep
    BY <1>25, <1>5 DEF Crash, PowerLoss
  <1>26. ASSUME \/ \E e \in Edit : ForeignReplace(e) \/ \E n \in Name : ForeignInPlace(e, n)
                \/ ForeignDelete
         PROVE  JobsStep
    BY <1>3, <1>26 DEF ForeignReplace, ForeignInPlace, ForeignDelete
  <1>. QED
    BY <1>6, <1>7, <1>9, <1>10, <1>11, <1>12, <1>13, <1>14, <1>15,
       <1>16, <1>17, <1>18, <1>19, <1>20, <1>21, <1>22, <1>23, <1>24, <1>25, <1>26, <1>27
    DEF Next

-----------------------------------------------------------------------------
(* What a step does to the vault in the directories that may be left. *)

\* The vault in c has a stamp it had before the step, or the step put it there.
StampComes(c) ==
    \/ \E d \in expo : c[Target].s = d[Target].s
    \/ c[Target].s = 0
    \/ c[Target].s = count + 1 /\ count' = count + 1
    \/ \E p \in Proc : /\ job[p].at = "rename" /\ job'[p].at = "settle"
                      /\ c[Target].s = job[p].cand.s
    \/ \E p \in Proc : job[p].at \in Locked /\ c[Target].s = job[p].init.s

LEMMA StampOfTarget ==
    ASSUME TypeOK, Numbered, Next, NEW c \in expo'
    PROVE  StampComes(c)
  <1>. /\ DiskType /\ RunType /\ Target \in Name
       /\ \A p \in Proc : job[p].k \in Name
    BY TypeParts, ConstantTypes, FileType
  <1>1. ASSUME NEW d \in expo, c[Target] = d[Target] PROVE StampComes(c)
    BY <1>1 DEF StampComes
  <1>2. ASSUME NEW d \in expo, NEW n \in Name \ {Target}, NEW f \in File, c = Put(d, n, f)
        PROVE  StampComes(c)
    BY <1>1, <1>2, PutType DEF DiskType
  <1>3. ASSUME UNCHANGED disk \/ Flush PROVE StampComes(c)
    BY <1>3, <1>1 DEF disk, Flush, DiskType
  <1>4. ASSUME NEW n \in Name \ {Target}, NEW f \in File, SetEntry(n, f) \/ SetEntryAndFlush(n, f)
        PROVE  StampComes(c)
    BY <1>4, <1>1, <1>2 DEF SetEntry, SetEntryAndFlush, DiskType
  <1>5. \A p \in Proc : job[p].at # "idle" => job[p].k \in Name \ {Target}
    BY LocalAssumption DEF Numbered, Target
  <1>6. ASSUME NEW p \in Proc, job[p].at # "idle", Discard(job[p].k) PROVE StampComes(c)
    BY <1>6, <1>3, <1>4, <1>5, ConstantTypes DEF Discard
  <1>7. ASSUME NEW p \in Proc, NEW f \in File, NEW n \in Name, Replace(f, n)
        PROVE  c[Target] = f \/ StampComes(c)
    <2>1. ASSUME NEW d \in expo PROVE Replaced(d, f, n)[Target] = f
      <3>1. d \in Directory /\ d[Target] \in File
        BY DEF DiskType, Directory
      <3>2. Put(d, n, d[Target]) \in Directory
        BY <3>1, PutType
      <3>. QED
        BY <3>1, <3>2, PutType DEF Replaced
    <2>. QED
      BY <1>1, <1>7, <2>1 DEF Replace
  <1>8. ASSUME NEW p \in Proc, BeginWrite(p) PROVE StampComes(c)
    <2>. DEFINE clean == [n \in Name |->
                           IF n \in HardLinks(dir) THEN NoFile ELSE dir[n]]
    <2>1. clean[Target] = dir[Target]
      BY DEF HardLinks
    <2>2. dir' = clean /\ expo' = IF HardLinks(dir) = {} THEN expo ELSE {clean}
      BY <1>8 DEF BeginWrite
    <2>. QED
      BY <2>1, <2>2, <1>1 DEF DiskType
  <1>9. ASSUME NEW p \in Proc, PublishBackup(p) PROVE StampComes(c)
    <2>. DEFINE copied == [dir[Target] EXCEPT !.ino = CopyInode(job[p].k)]
    <2>1. dir[Target] \in File /\ copied \in File /\ job[p].k \in Name \ {Target}
      BY <1>9, <1>5, FileType, ConstantTypes DEF File, PublishBackup
    <2>. QED
      BY <2>1, <1>9, <1>3, <1>4 DEF PublishBackup
  <1>10. ASSUME NEW p \in Proc, Rename(p) PROVE StampComes(c)
    <2>1. job[p].at = "rename" /\ job[p].cand \in File
      BY <1>10, FileType DEF Rename
    <2>2. CASE Replace(job[p].cand, job[p].k) /\ Continue(p, "settle")
      <3>1. Goto(p, "settle") /\ "settle" \in Stage
        BY <2>2 DEF Continue, Stage
      <3>2. job'[p].at = "settle"
        BY <3>1, GotoMoves DEF Moves
      <3>. QED
        BY <2>1, <2>2, <3>2, <1>7 DEF StampComes
    <2>3. CASE HalfReplace(job[p].k)
      BY <2>3, <1>7, ConstantTypes DEF HalfReplace, NoFile, StampComes
    <2>4. CASE Discard(job[p].k)
      BY <2>1, <2>4, <1>6
    <2>. QED
      BY <1>10, <2>2, <2>3, <2>4 DEF Rename
  <1>11. ASSUME NEW p \in Proc, Restore(p) PROVE StampComes(c)
    <2>. DEFINE previous == [job[p].init EXCEPT !.ino = RestoreInode(job[p].k)]
    <2>1. /\ job[p].at \in Locked /\ previous \in File /\ previous.s = job[p].init.s
          /\ RollbackName(job[p].k) \in Name
      BY <1>11, FileType, ConstantTypes DEF File, Restore, Locked, Stage
    <2>2. CASE Replace(previous, RollbackName(job[p].k))
      BY <2>1, <2>2, <1>7 DEF StampComes
    <2>3. CASE HalfReplace(RollbackName(job[p].k))
      BY <2>1, <2>3, <1>7, ConstantTypes DEF HalfReplace, NoFile, StampComes
    <2>. QED
      BY <1>11, <1>3, <2>2, <2>3 DEF Restore
  <1>13. ASSUME NEW p \in Proc, Restored(p) PROVE StampComes(c)
    <2>1. job[p].k \in Name \ {Target} /\ job[p].k \in 1 .. MaxSaves
      BY <1>13, <1>5, FileType DEF Restored, Target
    <2>2. Cleared(dir, job[p].k)[Target] = dir[Target]
      BY <2>1, LocalAssumption DEF Cleared, DiskType, Directory, Target, RollbackName
    <2>3. ASSUME expo' \in {{Cleared(dir, job[p].k)},
                           {dir, Put(dir, job[p].k, NoFile), Cleared(dir, job[p].k)}}
          PROVE  StampComes(c)
      BY <2>1, <2>2, <2>3, <1>1, <1>2, ConstantTypes DEF DiskType
    <2>. QED
      BY <1>13, <1>3, <2>3 DEF Restored, ClearSiblings
  <1>14. ASSUME NEW e \in Edit, ForeignReplace(e) PROVE StampComes(c)
    <2>. DEFINE f == [ino |-> count + 1, e |-> dir[Target].e \cup {e}, s |-> count + 1]
    <2>1. c = Put(dir, Target, f) /\ count' = count + 1
      BY <1>14 DEF ForeignReplace, SetEntryAndFlush
    <2>2. c[Target] = f
      BY <2>1 DEF Put, DiskType, Directory
    <2>. QED
      BY <2>1, <2>2 DEF StampComes
  <1>15. ASSUME NEW e \in Edit, NEW n \in Name, ForeignInPlace(e, n) PROVE StampComes(c)
    <2>. DEFINE f == [ino |-> dir[n].ino, e |-> dir[n].e \cup {e}, s |-> count + 1]
    <2>1. expo' = {Rewrite(d, dir[n].ino, f) : d \in expo} /\ count' = count + 1
      BY <1>15 DEF ForeignInPlace
    <2>2. PICK d \in expo : c = Rewrite(d, dir[n].ino, f)
      BY <2>1
    <2>3. c[Target] = f \/ c[Target] = d[Target]
      BY <2>2 DEF Rewrite
    <2>. QED
      BY <2>1, <2>3 DEF StampComes
  <1>16. ASSUME ForeignDelete PROVE StampComes(c)
    <2>1. c[Target] = NoFile
      BY <1>16 DEF ForeignDelete, SetEntryAndFlush, Put, DiskType, Directory
    <2>. QED
      BY <2>1 DEF NoFile, StampComes
  <1>17. ASSUME PowerLoss PROVE StampComes(c)
    BY <1>17, <1>1 DEF PowerLoss
  <1>18. ASSUME NEW p \in Proc, FlushBackup(p) \/ Verify(p) PROVE StampComes(c)
    BY <1>18, <1>3, <1>6 DEF FlushBackup, Verify
  <1>19. ASSUME NEW p \in Proc,
                \/ Settle(p) \/ FinalReadback(p) \/ Reconcile(p)
                \/ Recover(p) \/ ConflictCopy(p)
         PROVE  StampComes(c)
    BY <1>19, <1>3 DEF Settle, FinalReadback, Reconcile, Recover, ConflictCopy
  <1>12. ASSUME NEW p \in Proc, DropOriginal(p) PROVE StampComes(c)
    BY <1>12, <1>6 DEF DropOriginal
  <1>20. ASSUME NEW p \in Proc,
                \/ Open(p) \/ Unlock(p) \/ Lock(p) \/ BeginSave(p)
                \/ BeginWriteRefused(p) \/ Recheck(p) \/ Rollback(p)
                \/ Unknown(p) \/ Crash(p) \/ \E e \in Edit : EditVault(p, e)
         PROVE  StampComes(c)
    BY <1>20, <1>3 DEF Open, Unlock, Lock, BeginSave, BeginWriteRefused, Recheck,
       Rollback, Unknown, Crash, EditVault
  <1>. QED
    BY <1>8, <1>9, <1>10, <1>11, <1>12, <1>13, <1>14, <1>15, <1>16, <1>17, <1>18, <1>19,
       <1>20
    DEF Next

-----------------------------------------------------------------------------
(* Nothing that a commit denied is published. *)

\* The vault never has the stamp of a denied save, nor of one that may still be
\* denied: one that has not renamed its candidate.  What a transaction opened,
\* and a rollback restores, has no such stamp either.
StampInv ==
    /\ Numbered
    /\ denied \subseteq 1 .. count
    /\ \A d \in expo : d[Target].s <= count /\ d[Target].s \notin denied
    /\ \A p \in Proc : job[p].at # "idle" =>
         /\ job[p].k \notin denied /\ job[p].cand.s = job[p].k
         /\ \A q \in Proc \ {p} : job[q].at # "idle" => job[p].k # job[q].k
    /\ \A p \in Proc : job[p].at \in Pre =>
         \A d \in expo : d[Target].s # job[p].k
    /\ \A p \in Proc : job[p].at \in Locked =>
         /\ job[p].init.s <= count /\ job[p].init.s \notin denied
         /\ job[p].init.s # job[p].k
         /\ \A q \in Proc : job[q].at \in Pre => job[p].init.s # job[q].k

\* A save that ends with nothing published.
DeniedBy(p) ==
    /\ denied' = denied \cup {job[p].k}
    /\ Ends(p) /\ count' = count
    /\ job[p].at \in Pre \/ job[p].at \in Locked
    /\ \A c \in expo' : c[Target].s # job[p].k

LEMMA StepOfDenied ==
    ASSUME TypeOK, StampInv, Next
    PROVE  denied' = denied \/ \E p \in Proc : DeniedBy(p)
  <1>. DiskType /\ RunType
    BY TypeParts
  <1>. Numbered
    BY DEF StampInv
  <1>1. ASSUME NEW p \in Proc, BeforePublish(p), Quiet, job[p].at \in Pre
        PROVE  DeniedBy(p)
    <2>1. Ends(p) /\ denied' = denied \cup {job[p].k} /\ count' = count
      BY <1>1, FailEnds DEF BeforePublish, Quiet
    <2>2. \A q \in Proc : job'[q].at = "settle" => job[q].at # "rename"
      BY <2>1 DEF Ends, NoJob
    <2>3. job[p].at # "idle" /\ job[p].k \in 1 .. count
      BY <1>1 DEF StampInv, Numbered, Pre
    <2>4. /\ \A d \in expo : d[Target].s # job[p].k
          /\ \A q \in Proc : job[q].at \in Locked => job[q].init.s # job[p].k
      BY <1>1 DEF StampInv
    <2>5. ASSUME NEW c \in expo' PROVE c[Target].s # job[p].k
      <3>1. StampComes(c)
        BY StampOfTarget
      <3>. QED
        BY <2>1, <2>2, <2>3, <2>4, <3>1 DEF StampComes, HistoryType, TypeOK
    <2>. QED
      BY <1>1, <2>1, <2>5 DEF DeniedBy
  <1>2. ASSUME NEW p \in Proc, NEW stage, Continue(p, stage) PROVE denied' = denied
    BY <1>2 DEF Continue
  <1>3. ASSUME NEW p \in Proc, Conflict(p) PROVE denied' = denied
    BY <1>3 DEF Conflict
  <1>4. ASSUME NEW p \in Proc, BeginWrite(p) PROVE denied' = denied \/ DeniedBy(p)
    BY <1>4, <1>1, <1>3 DEF BeginWrite, Pre
  <1>5. ASSUME NEW p \in Proc, PublishBackup(p) PROVE denied' = denied \/ DeniedBy(p)
    BY <1>5, <1>1, <1>2 DEF PublishBackup, Pre
  <1>6. ASSUME NEW p \in Proc, FlushBackup(p) PROVE denied' = denied \/ DeniedBy(p)
    BY <1>6, <1>1, <1>2 DEF FlushBackup, Pre
  <1>7. ASSUME NEW p \in Proc, Verify(p) PROVE denied' = denied \/ DeniedBy(p)
    BY <1>7, <1>1, <1>2, <1>3 DEF Verify, Pre
  <1>8. ASSUME NEW p \in Proc, Rename(p) PROVE denied' = denied \/ DeniedBy(p)
    BY <1>8, <1>1, <1>2 DEF Rename, Pre
  <1>9. ASSUME NEW p \in Proc, Restored(p) PROVE denied' = denied \/ DeniedBy(p)
    <2>1. CASE /\ SameBytes(dir[Target], job[p].init)
               /\ ClearSiblings(job[p].k) /\ BeforePublish(p)
      <3>1. job[p].at \in Locked /\ count' = count
        BY <1>9 DEF Restored, Locked, Stage, Quiet
      <3>2. Ends(p) /\ denied' = denied \cup {job[p].k}
        BY <2>1, FailEnds DEF BeforePublish
      <3>3. job[p].k \in Save
        <4>1. job[p].k \in 1 .. count /\ count \in 0 .. MaxSaves
          BY <3>1 DEF Numbered, TypeOK, Locked
        <4>. QED
          BY <4>1, LocalAssumption DEF Save
      <3>4. Cleared(dir, job[p].k)[Target] = dir[Target]
        BY <3>3, SiblingNames, ClearedType, ConstantTypes DEF DiskType
      <3>5. \A c \in expo' : c[Target].s = job[p].init.s
        BY <2>1, <3>4 DEF ClearSiblings, SameBytes
      <3>6. job[p].init.s # job[p].k
        BY <3>1 DEF StampInv
      <3>. QED
        BY <3>1, <3>2, <3>5, <3>6 DEF DeniedBy
    <2>. QED
      BY <1>9, <1>2, <2>1 DEF Restored
  <1>10. ASSUME NEW p \in Proc,
                \/ Open(p) \/ Unlock(p) \/ Lock(p) \/ \E e \in Edit : EditVault(p, e)
                \/ BeginSave(p) \/ BeginWriteRefused(p) \/ Unknown(p) \/ ConflictCopy(p)
                \/ Crash(p)
         PROVE  denied' = denied
    BY <1>10 DEF Open, Unlock, Lock, EditVault, BeginSave, BeginWriteRefused, Conflict,
       Unknown, Saved, ConflictCopy, Crash, Die
  <1>11. ASSUME NEW p \in Proc,
                \/ Settle(p) \/ FinalReadback(p) \/ Reconcile(p) \/ DropOriginal(p)
                \/ Recheck(p) \/ Rollback(p) \/ Restore(p) \/ Recover(p)
         PROVE  denied' = denied
    BY <1>11, <1>2 DEF Settle, FinalReadback, Reconcile, DropOriginal, Recheck, Saved,
       Rollback, Restore, Recover
  <1>12. ASSUME \/ \E e \in Edit : ForeignReplace(e) \/ \E n \in Name : ForeignInPlace(e, n)
                \/ ForeignDelete \/ PowerLoss
         PROVE  denied' = denied
    BY <1>12 DEF ForeignReplace, ForeignInPlace, ForeignDelete, PowerLoss, Die
  <1>. QED
    BY <1>4, <1>5, <1>6, <1>7, <1>8, <1>9, <1>10, <1>11, <1>12 DEF Next

LEMMA StampStep ==
    ASSUME TypeOK, StampInv, Next
    PROVE  StampInv'
  <1>. /\ DiskType /\ RunType /\ Numbered /\ JobsStep
       /\ denied' = denied \/ \E p \in Proc : DeniedBy(p)
       /\ \A c \in expo' : StampComes(c)
    BY TypeParts, StepOfJobs, StepOfDenied, StampOfTarget DEF StampInv
  <1>1. count \in Nat /\ count' \in {count, count + 1} /\ count' \in Nat
    <2>1. count \in Nat
      BY LocalAssumption DEF TypeOK
    <2>2. count' \in {count, count + 1}
      BY DEF JobsStep, Moved, Begun
    <2>. QED
      BY <2>1, <2>2
  <1>2. ASSUME NEW p \in Proc, job'[p].at # "idle"
        PROVE  \/ job[p].at # "idle" /\ job'[p] = job[p]
               \/ Moved(p)
               \/ Begun(p)
    BY <1>2 DEF JobsStep, NoJob
  <1>3. ASSUME NEW p \in Proc, Begun(p), NEW q \in Proc \ {p}
        PROVE  job'[q] = job[q]
    <2>1. job'[p] # job[p] /\ job'[p].at # "idle"
      BY <1>3 DEF Begun
    <2>2. PICK r \in Proc : \A o \in Proc \ {r} : job'[o] = job[o]
      BY <2>1 DEF JobsStep, NoJob
    <2>. QED
      BY <2>1, <2>2
  <1>4. /\ \A p \in Proc : job[p].k \in Nat /\ job[p].init.s \in Nat
        /\ \A d \in expo : d[Target].s \in Nat
        /\ dir \in expo /\ dir[Target].s \in Nat
    BY FileType, ConstantTypes, LocalAssumption DEF File, DiskType
  <1>5. Numbered'
    <2>. SUFFICES ASSUME NEW p \in Proc, job'[p].at # "idle"
                  PROVE  job'[p].k \in 1 .. count'
      BY DEF Numbered
    <2>1. job[p].at # "idle" => job[p].k \in 1 .. count
      BY DEF Numbered
    <2>2. CASE Begun(p)
      BY <1>1, <2>2 DEF Begun
    <2>3. CASE job[p].at # "idle" /\ job'[p].k = job[p].k
      BY <1>1, <2>1, <2>3
    <2>. QED
      BY <1>2, <2>2, <2>3 DEF Moved
  <1>6. denied' \subseteq 1 .. count'
    <2>1. \A p \in Proc : DeniedBy(p) => job[p].k \in 1 .. count
      BY DEF DeniedBy, Numbered, Pre, Locked
    <2>2. 1 .. count \subseteq 1 .. count' /\ denied \subseteq 1 .. count
      BY <1>1 DEF StampInv
    <2>3. ASSUME NEW p \in Proc, DeniedBy(p) PROVE denied' \subseteq 1 .. count'
      BY <2>1, <2>2, <2>3 DEF DeniedBy
    <2>4. ASSUME denied' = denied PROVE denied' \subseteq 1 .. count'
      BY <2>2, <2>4
    <2>. QED
      BY <2>3, <2>4
  <1>7. ASSUME NEW c \in expo' PROVE c[Target].s <= count' /\ c[Target].s \notin denied'
    <2>1. \A d \in expo : d[Target].s <= count /\ d[Target].s \notin denied
      BY DEF StampInv
    <2>2. \A p \in Proc : job[p].at = "rename" =>
             job[p].cand.s \in 1 .. count /\ job[p].cand.s \notin denied
      BY DEF StampInv, Numbered
    <2>3. \A p \in Proc : job[p].at \in Locked =>
             job[p].init.s <= count /\ job[p].init.s \notin denied
      BY DEF StampInv
    <2>4. 0 \notin denied /\ count + 1 \notin denied
      BY <1>1 DEF StampInv
    <2>5. StampComes(c)
      OBVIOUS
    <2>6. c[Target].s \notin denied
      BY <2>1, <2>2, <2>3, <2>4, <2>5 DEF StampComes
    <2>7. c[Target].s <= count'
      BY <1>1, <1>4, <2>1, <2>2, <2>3, <2>5 DEF StampComes
    <2>. QED
      BY <2>6, <2>7 DEF DeniedBy
  <1>8. ASSUME NEW p \in Proc, job'[p].at # "idle"
        PROVE  /\ job'[p].k \notin denied' /\ job'[p].cand.s = job'[p].k
               /\ \A q \in Proc \ {p} : job'[q].at # "idle" => job'[p].k # job'[q].k
    <2>1. CASE Begun(p)
      <3>1. \A q \in Proc \ {p} : job'[q] = job[q]
        BY <2>1, <1>3
      <3>2. job'[p].k = count + 1 /\ job'[p].cand.s = count + 1 /\ denied' = denied
        BY <2>1 DEF Begun
      <3>3. \A q \in Proc : job[q].at # "idle" => job[q].k \in 1 .. count
        BY DEF Numbered
      <3>. QED
        BY <1>1, <3>1, <3>2, <3>3 DEF StampInv
    <2>2. CASE job[p].at # "idle" /\ job'[p].k = job[p].k /\ job'[p].cand = job[p].cand
      <3>1. job'[p].k \notin denied'
        BY <2>2, <1>8 DEF StampInv, DeniedBy, Ends, NoJob, Pre, Locked
      <3>2. ASSUME NEW q \in Proc \ {p}, job'[q].at # "idle" PROVE job'[p].k # job'[q].k
        <4>1. CASE Begun(q)
          BY <1>1, <2>2, <4>1 DEF Begun, Numbered
        <4>2. CASE job[q].at # "idle" /\ job'[q].k = job[q].k
          BY <2>2, <4>2 DEF StampInv
        <4>. QED
          BY <1>2, <3>2, <4>1, <4>2 DEF Moved
      <3>. QED
        BY <2>2, <3>1, <3>2 DEF StampInv
    <2>. QED
      BY <1>2, <1>8, <2>1, <2>2 DEF Moved
  <1>9. ASSUME NEW p \in Proc, job'[p].at \in Pre, NEW c \in expo'
        PROVE  c[Target].s # job'[p].k
    <2>1. CASE Begun(p)
      BY <1>1, <1>4, <2>1 DEF Begun, disk, StampInv
    <2>2. CASE job[p].at \in Pre /\ job'[p].k = job[p].k
      <3>1. job[p].k \in 1 .. count
        BY <2>2 DEF Numbered, Pre
      <3>2. \A d \in expo : d[Target].s # job[p].k
        BY <2>2 DEF StampInv
      <3>3. \A q \in Proc : job[q].at \in Locked => job[q].init.s # job[p].k
        BY <2>2 DEF StampInv
      <3>4. ASSUME NEW q \in Proc, job[q].at = "rename", job'[q].at = "settle"
            PROVE  job[q].cand.s # job[p].k
        <4>1. q # p
          BY <1>9, <3>4 DEF Pre
        <4>. QED
          BY <2>2, <3>4, <4>1 DEF StampInv, Pre
      <3>5. StampComes(c)
        BY <1>9
      <3>. QED
        BY <1>1, <2>2, <3>1, <3>2, <3>3, <3>4, <3>5 DEF StampComes
    <2>3. job'[p].at # "idle"
      BY <1>9 DEF Pre
    <2>. QED
      BY <1>2, <1>9, <2>1, <2>2, <2>3 DEF Moved, Pre
  <1>10. ASSUME NEW p \in Proc, job'[p].at \in Locked
         PROVE  /\ job'[p].init.s <= count' /\ job'[p].init.s \notin denied'
                /\ job'[p].init.s # job'[p].k
                /\ \A q \in Proc : job'[q].at \in Pre => job'[p].init.s # job'[q].k
    <2>1. job'[p].at # "idle" /\ ~Begun(p)
      BY <1>10 DEF Locked, Begun
    <2>2. /\ job'[p].k = job[p].k
          /\ job'[p].init.s <= count /\ job'[p].init.s \notin denied
          /\ job'[p].init.s # job[p].k
          /\ \A q \in Proc : job[q].at \in Pre => job'[p].init.s # job[q].k
      <3>1. CASE job[p].at \in Locked /\ job'[p].k = job[p].k /\ job'[p].init = job[p].init
        <4>1. /\ job[p].init.s <= count /\ job[p].init.s \notin denied
              /\ job[p].init.s # job[p].k
              /\ \A q \in Proc : job[q].at \in Pre => job[p].init.s # job[q].k
          BY <3>1 DEF StampInv
        <4>. QED
          BY <3>1, <4>1
      <3>2. CASE job[p].at = "commit" /\ job'[p].k = job[p].k /\ job'[p].init = dir[Target]
        <4>1. /\ dir[Target].s <= count /\ dir[Target].s \notin denied
              /\ \A q \in Proc : job[q].at \in Pre => dir[Target].s # job[q].k
          BY <1>4 DEF StampInv
        <4>2. job[p].at \in Pre
          BY <3>2 DEF Pre
        <4>. QED
          BY <3>2, <4>1, <4>2
      <3>. QED
        BY <1>2, <1>10, <2>1, <3>1, <3>2 DEF Moved
    <2>3. job'[p].init.s \notin denied'
      <3>1. ASSUME NEW r \in Proc, DeniedBy(r) PROVE job'[p].init.s # job[r].k
        <4>1. p # r /\ job'[p] = job[p]
          BY <2>1, <3>1 DEF DeniedBy, Ends, NoJob
        <4>2. job[r].at \in Pre
          BY <1>10, <3>1, <4>1 DEF DeniedBy, RunType
        <4>. QED
          BY <2>2, <4>2
      <3>. QED
        BY <2>2, <3>1 DEF DeniedBy
    <2>4. ASSUME NEW q \in Proc, job'[q].at \in Pre PROVE job'[p].init.s # job'[q].k
      <3>1. CASE Begun(q)
        <4>1. job'[p].init.s \in Nat
          BY <1>3, <1>4, <2>1, <3>1, <1>10
        <4>. QED
          BY <1>1, <2>2, <3>1, <4>1 DEF Begun
      <3>2. CASE job[q].at \in Pre /\ job'[q].k = job[q].k
        BY <2>2, <3>2
      <3>3. job'[q].at # "idle"
        BY <2>4 DEF Pre
      <3>. QED
        BY <1>2, <2>4, <3>1, <3>2, <3>3 DEF Moved, Pre
    <2>5. job'[p].init.s <= count'
      <3>1. job'[p].init.s \in Nat
        <4>1. job'[p].init \in {job[p].init, dir[Target]}
          BY <1>2, <2>1 DEF Moved
        <4>. QED
          BY <1>4, <4>1
      <3>. QED
        BY <1>1, <2>2, <3>1
    <2>. QED
      BY <2>2, <2>3, <2>4, <2>5
  <1>. QED
    BY <1>5, <1>6, <1>7, <1>8, <1>9, <1>10 DEF StampInv

CommitInv == TypeOK /\ StampInv

LEMMA CommitInit == Init => CommitInv
  <1>. SUFFICES ASSUME Init PROVE CommitInv
    OBVIOUS
  <1>1. dir \in Directory /\ dir[Target] = FirstFile
    BY ConstantTypes DEF Init, Directory
  <1>2. \A p \in Proc : job[p].at = "idle" /\ job[p].at \notin Locked /\ job[p].at \notin Pre
    BY DEF Init, NoJob, Locked, Pre
  <1>3. TypeOK
    BY <1>1, <1>2, ConstantTypes, LocalAssumption DEF Init, TypeOK
  <1>4. StampInv
    BY <1>1, <1>2 DEF Init, StampInv, Numbered, FirstFile
  <1>. QED
    BY <1>3, <1>4 DEF CommitInv

LEMMA CommitStep == CommitInv /\ [Next]_vars => CommitInv'
  <1>. SUFFICES ASSUME CommitInv, [Next]_vars PROVE CommitInv'
    OBVIOUS
  <1>1. CASE Next
    <2>1. DiskType' /\ RunType' /\ HistoryType'
      BY <1>1, DiskStep, RunStep, HistoryStep DEF CommitInv, StampInv
    <2>2. TypeOK'
      BY <2>1 DEF TypeOK, DiskType, RunType, HistoryType
    <2>3. StampInv'
      BY <1>1, StampStep DEF CommitInv
    <2>. QED
      BY <2>2, <2>3 DEF CommitInv
  <1>2. CASE UNCHANGED vars
    BY <1>2 DEF CommitInv, TypeOK, StampInv, Numbered, vars, disk, others, unsure
  <1>. QED
    BY <1>1, <1>2

\* A commit that reports "not published" is right, now and after every power
\* loss that follows, whatever the order of the writers, the other programs, the
\* crashes and the failing calls; and the writer lock is held exactly while a
\* transaction lives.
THEOREM CommitsSound == Spec => []CommitSound
  <1>1. CommitInv => CommitSound
    BY DEF CommitInv, StampInv, CommitSound, NotPublishedIsTrue
  <1>. QED
    BY <1>1, CommitInit, CommitStep, PTL DEF Spec

-----------------------------------------------------------------------------
(* What is on the disk. *)

\* The files that some directory has, and those the runtimes know.
OnDisk == {d[n] : d \in expo, n \in Name}
Files == OnDisk \cup {job[p].init : p \in Proc} \cup {job[p].cand : p \in Proc}
                \cup {sess[p].base : p \in Proc} \cup {NoFile}

\* A stamp tells the edits of a file.
StampsInv ==
    /\ \A f \in Files : f.s <= count
    /\ \A f, g \in Files : f.s = g.s => f.e = g.e

\* An inode tells the file, and a save finds its own inodes unused.
InodesInv ==
    /\ \A f \in OnDisk : f.ino = 0 => f = NoFile
    /\ \A f, g \in OnDisk : f.ino = g.ino => f = g
    /\ \A f \in OnDisk, j \in Save :
         f.ino \in {j, RestoreInode(j), CopyInode(j)} => j <= count
    /\ \A f \in OnDisk, p \in Proc :
         /\ job[p].at \in Pre => f.ino # job[p].k
         /\ job[p].at \in {"commit", "backup"} => f.ino # CopyInode(job[p].k)
         /\ job[p].at \in (Locked \cup {"commit"}) \ {"restored"} =>
              f.ino # RestoreInode(job[p].k)

\* A save finds the names of its siblings unused.
NamesInv == \A d \in expo :
    /\ \A j \in Save : j > count => d[j] = NoFile /\ d[RollbackName(j)] = NoFile
    /\ \A p \in Proc :
         /\ job[p].at \in {"commit", "backup"} => d[job[p].k] = NoFile
         /\ job[p].at \in (Locked \cup {"commit"}) \ {"restored"} =>
              d[RollbackName(job[p].k)] = NoFile

\* A save publishes what its session holds, which is what the baseline held and
\* more; so it holds what the opened generation held.
CandInv == \A p \in Proc :
    /\ sess[p].st = "open" => sess[p].base.e \subseteq sess[p].v
    /\ job[p].at # "idle" => /\ sess[p].st = "open" /\ job[p].cand.e = sess[p].v
                             /\ job[p].cand.ino = job[p].k
    /\ job[p].at \in Locked => job[p].init.e \subseteq job[p].cand.e

-----------------------------------------------------------------------------
(* The files a step brings. *)

\* The one file a step may bring to the disk, other than by writing into one.
NewFile(f) ==
    \/ f = NoFile
    \/ \E p \in Proc : /\ job[p].at = "backup" /\ job'[p].at = "flush"
                       /\ f = [dir[Target] EXCEPT !.ino = CopyInode(job[p].k)]
    \/ \E p \in Proc : /\ job[p].at = "rename" /\ job'[p].at = "settle"
                       /\ f = job[p].cand
    \/ \E p \in Proc : /\ job[p].at = "restore" /\ job'[p].at = "restored"
                       /\ f = [job[p].init EXCEPT !.ino = RestoreInode(job[p].k)]
    \/ /\ f.ino = count + 1 /\ f.s = count + 1 /\ count' = count + 1
       /\ job' = job /\ sess' = sess

Brings(f) == NewFile(f) /\ OnDisk' \subseteq OnDisk \cup {f, NoFile}

Entries(d) == {d[n] : n \in Name}

LEMMA OnDiskEntries == \A d \in expo : Entries(d) \subseteq OnDisk
  BY DEF Entries, OnDisk

LEMMA PutEntries ==
    ASSUME NEW d \in Directory, NEW n \in Name, NEW f \in File
    PROVE  Entries(Put(d, n, f)) \subseteq Entries(d) \cup {f}
  BY PutType DEF Entries

LEMMA ReplacedEntries ==
    ASSUME NEW d \in Directory, NEW n \in Name, NEW f \in File
    PROVE  Entries(Replaced(d, f, n)) \subseteq Entries(d) \cup {f}
  <1>1. d[Target] \in File /\ d[Target] \in Entries(d)
    BY ConstantTypes DEF Directory, Entries
  <1>2. /\ Put(d, n, d[Target]) \in Directory
        /\ Entries(Put(d, n, d[Target])) \subseteq Entries(d)
    BY <1>1, PutType, PutEntries
  <1>3. Entries(Put(Put(d, n, d[Target]), Target, f)) \subseteq Entries(d) \cup {f}
    BY <1>2, PutEntries, ConstantTypes
  <1>. QED
    BY <1>3, PutEntries, ConstantTypes DEF Replaced

LEMMA ClearedEntries ==
    ASSUME NEW d \in Directory, NEW k \in 0 .. MaxSaves
    PROVE  Entries(Cleared(d, k)) \subseteq Entries(d) \cup {NoFile}
  BY ClearedType DEF Entries

LEMMA BringsBy ==
    ASSUME NEW f, NewFile(f),
           \A c \in expo' : Entries(c) \subseteq OnDisk \cup {f, NoFile}
    PROVE  Brings(f)
  BY DEF Brings, OnDisk, Entries

LEMMA BringsNothing ==
    ASSUME \A c \in expo' : Entries(c) \subseteq OnDisk \cup {NoFile}
    PROVE  Brings(NoFile)
  <1>1. NewFile(NoFile)
    BY DEF NewFile
  <1>. QED
    BY <1>1, BringsBy

LEMMA StepOfFiles ==
    ASSUME TypeOK, Numbered, Next
    PROVE  \/ \E f \in File : Brings(f)
           \/ \E e \in Edit, n \in Name : ForeignInPlace(e, n)
  <1>. /\ DiskType /\ RunType /\ Target \in Name /\ NoFile \in File
       /\ \A p \in Proc : job[p].k \in Name /\ RollbackName(job[p].k) \in Name
       /\ dir \in Directory /\ dir \in expo /\ \A d \in expo : d \in Directory
    BY TypeParts, ConstantTypes, FileType DEF DiskType
  <1>0. \A d \in expo : Entries(d) \subseteq OnDisk
    BY OnDiskEntries
  <1>1. ASSUME expo' \subseteq expo PROVE Brings(NoFile)
    BY <1>0, <1>1, BringsNothing
  <1>2. ASSUME UNCHANGED disk \/ Flush PROVE Brings(NoFile)
    BY <1>1, <1>2 DEF disk, Flush, DiskType
  <1>3. ASSUME NEW n \in Name, NEW f \in File, NewFile(f),
               \A c \in expo' : c \in expo \/ \E d \in expo : c = Put(d, n, f)
        PROVE  Brings(f)
    <2>1. ASSUME NEW c \in expo' PROVE Entries(c) \subseteq OnDisk \cup {f, NoFile}
      BY <1>0, <1>3, PutEntries
    <2>. QED
      BY <1>3, <2>1, BringsBy
  <1>4. ASSUME NEW n \in Name, NEW f \in File, NewFile(f), Replace(f, n)
        PROVE  Brings(f)
    <2>1. ASSUME NEW c \in expo' PROVE Entries(c) \subseteq OnDisk \cup {f, NoFile}
      BY <1>0, <1>4, ReplacedEntries DEF Replace
    <2>. QED
      BY <1>4, <2>1, BringsBy
  <1>5. NewFile(NoFile)
    BY DEF NewFile
  <1>6. ASSUME NEW p \in Proc, Discard(job[p].k) PROVE Brings(NoFile)
    BY <1>2, <1>3, <1>5, <1>6 DEF Discard, SetEntry, SetEntryAndFlush
  <1>7. ASSUME NEW n \in Name, HalfReplace(n) PROVE Brings(NoFile)
    BY <1>4, <1>5, <1>7 DEF HalfReplace
  <1>8. ASSUME NEW p \in Proc, BeginWrite(p) PROVE Brings(NoFile)
    <2>. DEFINE clean == [n \in Name |->
                           IF n \in HardLinks(dir) THEN NoFile ELSE dir[n]]
    <2>1. Entries(clean) \subseteq OnDisk \cup {NoFile}
      BY DEF Entries, OnDisk
    <2>2. expo' = IF HardLinks(dir) = {} THEN expo ELSE {clean}
      BY <1>8 DEF BeginWrite
    <2>. QED
      BY <1>0, <2>1, <2>2, BringsNothing
  <1>9. ASSUME NEW p \in Proc, PublishBackup(p) PROVE \E f \in File : Brings(f)
    <2>. DEFINE copied == [dir[Target] EXCEPT !.ino = CopyInode(job[p].k)]
    <2>1. dir[Target] \in File /\ copied \in File
      BY FileType, ConstantTypes DEF File
    <2>2. CASE Continue(p, "flush") /\ SetEntry(job[p].k, copied)
      <3>1. Goto(p, "flush") /\ "flush" \in Stage
        BY <2>2 DEF Continue, Stage
      <3>2. NewFile(copied)
        BY <1>9, <3>1, GotoMoves DEF NewFile, Moves, PublishBackup
      <3>. QED
        BY <2>1, <2>2, <3>2, <1>3 DEF SetEntry
    <2>3. CASE SetEntry(job[p].k, dir[Target])
      <3>1. ASSUME NEW d \in expo
            PROVE  Entries(Put(d, job[p].k, dir[Target])) \subseteq OnDisk
        BY <1>0, <2>1, PutEntries DEF OnDisk
      <3>. QED
        BY <1>0, <2>3, <3>1, BringsNothing DEF SetEntry
    <2>. QED
      BY <1>2, <1>9, <2>2, <2>3 DEF PublishBackup
  <1>10. ASSUME NEW p \in Proc, Rename(p) PROVE \E f \in File : Brings(f)
    <2>1. CASE Replace(job[p].cand, job[p].k) /\ Continue(p, "settle")
      <3>1. Goto(p, "settle") /\ "settle" \in Stage /\ job[p].cand \in File
        BY <2>1, FileType DEF Continue, Stage
      <3>2. NewFile(job[p].cand)
        BY <1>10, <3>1, GotoMoves DEF NewFile, Moves, Rename
      <3>. QED
        BY <2>1, <3>1, <3>2, <1>4
    <2>. QED
      BY <1>6, <1>7, <1>10, <2>1 DEF Rename
  <1>11. ASSUME NEW p \in Proc, Restore(p) PROVE \E f \in File : Brings(f)
    <2>. DEFINE previous == [job[p].init EXCEPT !.ino = RestoreInode(job[p].k)]
    <2>1. CASE Replace(previous, RollbackName(job[p].k)) /\ Continue(p, "restored")
      <3>1. Goto(p, "restored") /\ "restored" \in Stage
        BY <2>1 DEF Continue, Stage
      <3>2. previous \in File
        BY FileType, ConstantTypes DEF File
      <3>3. NewFile(previous)
        BY <1>11, <3>1, GotoMoves DEF NewFile, Moves, Restore
      <3>. QED
        BY <2>1, <3>2, <3>3, <1>4
    <2>. QED
      BY <1>2, <1>7, <1>11, <2>1 DEF Restore
  <1>13. ASSUME NEW p \in Proc, Restored(p) PROVE Brings(NoFile)
    <2>. DEFINE k == job[p].k
    <2>1. /\ Entries(Cleared(dir, k)) \subseteq OnDisk \cup {NoFile}
          /\ Entries(Put(dir, k, NoFile)) \subseteq OnDisk \cup {NoFile}
      BY <1>0, PutEntries, ClearedEntries, FileType
    <2>2. CASE expo' \in {{Cleared(dir, k)}, {dir, Put(dir, k, NoFile), Cleared(dir, k)}}
      BY <1>0, <2>1, <2>2, BringsNothing
    <2>. QED
      BY <1>2, <1>13, <2>2 DEF Restored, ClearSiblings
  <1>14. ASSUME NEW e \in Edit, ForeignReplace(e) PROVE \E f \in File : Brings(f)
    <2>. DEFINE f == [ino |-> count + 1, e |-> dir[Target].e \cup {e}, s |-> count + 1]
    <2>1. count + 1 \in Inode /\ count + 1 \in 0 .. MaxSaves
      BY <1>14, LocalAssumption DEF ForeignReplace, TypeOK, Inode
    <2>2. f \in File
      BY <2>1, FileType DEF File
    <2>3. NewFile(f)
      BY <1>14 DEF ForeignReplace, NewFile
    <2>. QED
      BY <1>14, <2>2, <2>3, <1>3 DEF ForeignReplace, SetEntryAndFlush
  <1>15. ASSUME ForeignDelete PROVE Brings(NoFile)
    BY <1>15, <1>3, <1>5 DEF ForeignDelete, SetEntryAndFlush
  <1>16. ASSUME PowerLoss PROVE Brings(NoFile)
    BY <1>1, <1>16 DEF PowerLoss
  <1>17. ASSUME NEW p \in Proc, FlushBackup(p) \/ Verify(p) PROVE Brings(NoFile)
    BY <1>17, <1>2, <1>6 DEF FlushBackup, Verify
  <1>18. ASSUME NEW p \in Proc,
                \/ Settle(p) \/ FinalReadback(p) \/ Reconcile(p)
                \/ Recover(p) \/ ConflictCopy(p)
         PROVE  Brings(NoFile)
    BY <1>18, <1>2 DEF Settle, FinalReadback, Reconcile, Recover, ConflictCopy
  <1>12. ASSUME NEW p \in Proc, DropOriginal(p) PROVE Brings(NoFile)
    BY <1>12, <1>6 DEF DropOriginal
  <1>19. ASSUME NEW p \in Proc,
                \/ Open(p) \/ Unlock(p) \/ Lock(p) \/ BeginSave(p)
                \/ BeginWriteRefused(p) \/ Recheck(p) \/ Rollback(p)
                \/ Unknown(p) \/ Crash(p) \/ \E e \in Edit : EditVault(p, e)
         PROVE  Brings(NoFile)
    BY <1>19, <1>2 DEF Open, Unlock, Lock, BeginSave, BeginWriteRefused, Recheck,
       Rollback, Unknown, Crash, EditVault
  <1>. QED
    BY <1>8, <1>9, <1>10, <1>11, <1>12, <1>13, <1>14, <1>15, <1>16, <1>17, <1>18, <1>19
    DEF Next

-----------------------------------------------------------------------------
(* What a step does to the sessions. *)

\* The session stays; it is closed or locked; it is unlocked or edited; or a save
\* went well, and its baseline is what was read back.
SessionStep(p) ==
    \/ sess'[p] = sess[p]
    \/ sess'[p].st # "open" /\ job'[p].at = "idle"
    \/ /\ job'[p].at = "idle" /\ sess'[p].base = sess[p].base
       /\ sess'[p].v = sess[p].base.e \/ (sess[p].st = "open" /\ sess[p].v \subseteq sess'[p].v)
    \/ /\ job[p].at # "idle"
       /\ sess'[p].st = sess[p].st /\ sess'[p].v = sess[p].v
       /\ sess'[p].base = dir[Target] /\ dir[Target].s = job[p].cand.s

LEMMA StepOfSessions ==
    ASSUME TypeOK, CandInv, Next, NEW p \in Proc
    PROVE  /\ SessionStep(p)
           /\ sess'[p].base \in OnDisk \cup {sess[p].base, NoFile}
  <1>. RunType /\ DiskType /\ sess \in [Proc -> Session]
    BY TypeParts DEF RunType
  <1>1. dir[Target] \in OnDisk
    BY ConstantTypes DEF OnDisk, DiskType
  <1>. DEFINE Goal == /\ SessionStep(p)
                      /\ sess'[p].base \in OnDisk \cup {sess[p].base, NoFile}
  <1>2. ASSUME sess' = sess PROVE Goal
    BY <1>2 DEF SessionStep
  <1>3. ASSUME NEW q \in Proc, job[q].at # "idle", SameBytes(dir[Target], job[q].cand), Rebase(q)
        PROVE  Goal
    <2>1. /\ sess'[q].st = sess[q].st /\ sess'[q].v = sess[q].v /\ sess'[q].base = dir[Target]
          /\ \A r \in Proc \ {q} : sess'[r] = sess[r]
      BY <1>3 DEF Rebase, Session
    <2>. QED
      BY <1>1, <1>3, <2>1 DEF SessionStep, SameBytes
  <1>4. ASSUME NEW q \in Proc, Open(q) PROVE Goal
    <2>1. job[q].at = "idle" /\ job' = job
      BY <1>4 DEF Open, CandInv
    <2>2. /\ sess'[q].st = "locked" /\ sess'[q].base = dir[Target]
          /\ \A r \in Proc \ {q} : sess'[r] = sess[r]
      BY <1>4 DEF Open
    <2>. QED
      BY <1>1, <2>1, <2>2 DEF SessionStep
  <1>5. ASSUME NEW q \in Proc, Unlock(q) PROVE Goal
    <2>1. job[q].at = "idle" /\ job' = job
      BY <1>5 DEF Unlock, CandInv
    <2>2. /\ sess'[q].base = sess[q].base /\ sess'[q].v = sess[q].base.e
          /\ \A r \in Proc \ {q} : sess'[r] = sess[r]
      BY <1>5 DEF Unlock, Session
    <2>. QED
      BY <2>1, <2>2 DEF SessionStep
  <1>6. ASSUME NEW q \in Proc, Lock(q) PROVE Goal
    <2>1. job[q].at = "idle" /\ job' = job
      BY <1>6 DEF Lock
    <2>2. /\ sess'[q].st = "locked" /\ sess'[q].base = sess[q].base
          /\ \A r \in Proc \ {q} : sess'[r] = sess[r]
      BY <1>6 DEF Lock, Session
    <2>. QED
      BY <2>1, <2>2 DEF SessionStep
  <1>7. ASSUME NEW q \in Proc, NEW e \in Edit, EditVault(q, e) PROVE Goal
    <2>1. job[q].at = "idle" /\ job' = job /\ sess[q].st = "open"
      BY <1>7 DEF EditVault
    <2>2. /\ sess'[q].base = sess[q].base /\ sess'[q].v = sess[q].v \cup {e}
          /\ \A r \in Proc \ {q} : sess'[r] = sess[r]
      BY <1>7 DEF EditVault, Session
    <2>. QED
      BY <2>1, <2>2 DEF SessionStep
  <1>8. ASSUME NEW P \in SUBSET Proc, Die(P) PROVE Goal
    <2>1. /\ sess'[p] = IF p \in P THEN Closed ELSE sess[p]
          /\ job'[p] = IF p \in P THEN NoJob ELSE job[p]
      BY <1>8 DEF Die
    <2>. QED
      BY <2>1 DEF SessionStep, Closed, NoJob
  <1>9. ASSUME NEW q \in Proc, FinalReadback(q) PROVE Goal
    BY <1>9, <1>2, <1>3 DEF FinalReadback, Saved
  <1>10. ASSUME NEW q \in Proc, Recheck(q) PROVE Goal
    BY <1>10, <1>2, <1>3 DEF Recheck, Saved, Continue
  <1>11. ASSUME NEW q \in Proc, Unknown(q) PROVE Goal
    BY <1>11, <1>2, <1>3 DEF Unknown, Saved
  <1>12. ASSUME NEW q \in Proc,
                \/ BeginSave(q) \/ BeginWrite(q) \/ BeginWriteRefused(q) \/ PublishBackup(q)
                \/ FlushBackup(q) \/ Verify(q) \/ Rename(q) \/ Settle(q) \/ Reconcile(q)
                \/ DropOriginal(q) \/ Rollback(q) \/ Restore(q) \/ Restored(q) \/ Recover(q) \/ ConflictCopy(q)
         PROVE  Goal
    <2>1. sess' = sess
      BY <1>12 DEF BeginSave, BeginWrite, BeginWriteRefused, PublishBackup, FlushBackup,
         Verify, Rename, Settle, Reconcile, DropOriginal, Rollback, Restore, Restored,
         Recover, ConflictCopy, Conflict, Continue, BeforePublish
    <2>. QED
      BY <1>2, <2>1
  <1>13. ASSUME \/ \E e \in Edit : ForeignReplace(e) \/ \E n \in Name : ForeignInPlace(e, n)
                \/ ForeignDelete
         PROVE  Goal
    BY <1>2, <1>13 DEF ForeignReplace, ForeignInPlace, ForeignDelete
  <1>14. ASSUME PowerLoss \/ \E q \in Proc : Crash(q) PROVE Goal
    BY <1>8, <1>14 DEF PowerLoss, Crash
  <1>. QED
    BY <1>4, <1>5, <1>6, <1>7, <1>9, <1>10, <1>11, <1>12, <1>13, <1>14 DEF Next

-----------------------------------------------------------------------------
(* Stamps, inodes and names. *)

\* A file that holds what a known file held, or what the step writes.
Known(f) == \E g \in Files : f.e = g.e /\ f.s = g.s
Written(f, X) == f.s = count + 1 /\ f.e = X /\ count' = count + 1

LEMMA KnownFiles ==
    ASSUME TypeOK
    PROVE  /\ OnDisk \subseteq Files /\ dir[Target] \in OnDisk /\ NoFile \in Files
           /\ \A f \in Files : f \in File /\ f.s \in Nat /\ Known(f)
           /\ \A p \in Proc : /\ job[p].init \in Files /\ job[p].cand \in Files
                             /\ sess[p].base \in Files
  <1>1. OnDisk \subseteq File /\ dir[Target] \in OnDisk
    BY FileType, ConstantTypes DEF OnDisk, TypeOK
  <1>2. Files \subseteq File
    BY <1>1, FileType, ConstantTypes DEF Files
  <1>3. \A f \in File : f.s \in Nat
    BY LocalAssumption DEF File
  <1>. QED
    BY <1>1, <1>2, <1>3 DEF Files, Known

LEMMA StepOfContents ==
    ASSUME TypeOK, Numbered, CandInv, Next
    PROVE  \E X : \A f \in Files' : Known(f) \/ Written(f, X)
  <1>. JobsStep
    BY StepOfJobs
  <1>1. ASSUME NEW X, \A f \in OnDisk' : Known(f) \/ Written(f, X),
               \A p \in Proc : ~Begun(p)
        PROVE  \A f \in Files' : Known(f) \/ Written(f, X)
    <2>1. ASSUME NEW p \in Proc
          PROVE  /\ job'[p].init \in {job[p].init, dir[Target], NoFile}
                 /\ job'[p].cand \in {job[p].cand, NoFile}
                 /\ sess'[p].base \in OnDisk \cup {sess[p].base, NoFile}
      BY <1>1, StepOfSessions DEF JobsStep, Moved, NoJob
    <2>2. ASSUME NEW p \in Proc
          PROVE  Known(job'[p].init) /\ Known(job'[p].cand) /\ Known(sess'[p].base)
      BY <2>1, KnownFiles
    <2>3. Known(NoFile)
      BY KnownFiles
    <2>. QED
      BY <1>1, <2>2, <2>3 DEF Files
  <1>2. ASSUME NEW p \in Proc, Begun(p)
        PROVE  \A f \in Files' : Known(f) \/ Written(f, sess[p].v)
    <2>1. \A q \in Proc \ {p} : job'[q] = job[q]
      <3>1. job'[p] # job[p] /\ job'[p].at # "idle"
        BY <1>2 DEF Begun
      <3>2. PICK r \in Proc : \A o \in Proc \ {r} : job'[o] = job[o]
        BY <3>1 DEF JobsStep, NoJob
      <3>. QED
        BY <3>1, <3>2
    <2>2. OnDisk' = OnDisk
      BY <1>2 DEF Begun, disk, OnDisk
    <2>3. job'[p].init = NoFile /\ Written(job'[p].cand, sess[p].v)
      BY <1>2 DEF Begun, Written
    <2>4. \A q \in Proc : Known(sess'[q].base)
      BY KnownFiles, StepOfSessions
    <2>5. /\ \A f \in OnDisk' : Known(f)
          /\ \A q \in Proc : Known(job'[q].init)
          /\ \A q \in Proc : Known(job'[q].cand) \/ Written(job'[q].cand, sess[p].v)
          /\ Known(NoFile)
      BY KnownFiles, <2>1, <2>2, <2>3
    <2>. QED
      BY <2>4, <2>5 DEF Files
  <1>3. ASSUME NEW f \in File, Brings(f), \A p \in Proc : ~Begun(p)
        PROVE  \A g \in Files' : Known(g) \/ Written(g, f.e)
    <2>1. Known(f) \/ Written(f, f.e)
      <3>1. ASSUME NEW g \in Files, NEW i PROVE Known([g EXCEPT !.ino = i])
        <4>1. [g EXCEPT !.ino = i].e = g.e /\ [g EXCEPT !.ino = i].s = g.s
          BY KnownFiles DEF File
        <4>. QED
          BY <4>1 DEF Known
      <3>2. Known(dir[Target]) /\ dir[Target] \in Files /\ Known(NoFile)
        BY KnownFiles
      <3>3. \A p \in Proc : job[p].init \in Files /\ Known(job[p].cand)
        BY KnownFiles
      <3>4. NewFile(f)
        BY <1>3 DEF Brings
      <3>. QED
        BY <3>1, <3>2, <3>3, <3>4 DEF NewFile, Written
    <2>2. \A g \in OnDisk' : Known(g) \/ Written(g, f.e)
      BY <1>3, <2>1, KnownFiles DEF Brings
    <2>. QED
      BY <1>1, <1>3, <2>2
  <1>4. ASSUME NEW e \in Edit, NEW n \in Name, ForeignInPlace(e, n)
        PROVE  \A f \in Files' : Known(f) \/ Written(f, dir[n].e \cup {e})
    <2>. DEFINE f == [ino |-> dir[n].ino, e |-> dir[n].e \cup {e}, s |-> count + 1]
    <2>1. /\ expo' = {Rewrite(d, dir[n].ino, f) : d \in expo}
          /\ count' = count + 1 /\ job' = job
      BY <1>4 DEF ForeignInPlace
    <2>2. \A d \in expo, m \in Name : Rewrite(d, dir[n].ino, f)[m] \in {f, d[m]}
      BY DEF Rewrite
    <2>3. ASSUME NEW g \in OnDisk' PROVE g \in OnDisk \cup {f}
      <3>1. PICK c \in expo', m \in Name : g = c[m]
        BY DEF OnDisk
      <3>2. PICK d \in expo : c = Rewrite(d, dir[n].ino, f)
        BY <2>1
      <3>3. d[m] \in OnDisk
        BY DEF OnDisk
      <3>. QED
        BY <2>2, <3>1, <3>2, <3>3
    <2>4. \A g \in OnDisk' : Known(g) \/ Written(g, dir[n].e \cup {e})
      BY <2>1, <2>3, KnownFiles DEF Written
    <2>5. \A p \in Proc : ~Begun(p)
      BY <2>1 DEF Begun
    <2>. QED
      BY <1>1, <2>4, <2>5
  <1>. QED
    BY <1>2, <1>3, <1>4, StepOfFiles

LEMMA StampsStep ==
    ASSUME TypeOK, Numbered, CandInv, StampsInv, Next
    PROVE  StampsInv'
  <1>1. PICK X : \A f \in Files' : Known(f) \/ Written(f, X)
    BY StepOfContents
  <1>2. count \in Nat /\ count' \in {count, count + 1}
    <2>1. JobsStep
      BY StepOfJobs
    <2>2. count \in Nat
      BY LocalAssumption DEF TypeOK
    <2>. QED
      BY <2>1, <2>2 DEF JobsStep, Moved, Begun
  <1>3. \A g \in Files : g.s \in Nat /\ g.s <= count
    BY KnownFiles DEF StampsInv
  <1>4. ASSUME NEW f \in Files' PROVE f.s <= count'
    BY <1>1, <1>2, <1>3 DEF Known, Written
  <1>5. ASSUME NEW f \in Files', NEW g \in Files', f.s = g.s PROVE f.e = g.e
    <2>1. CASE Known(f) /\ Known(g)
      BY <2>1, <1>5 DEF Known, StampsInv
    <2>2. CASE Written(f, X) /\ Written(g, X)
      BY <2>2 DEF Written
    <2>3. ASSUME NEW h, Known(h) PROVE h.s # count + 1
      BY <2>3, <1>2, <1>3 DEF Known
    <2>. QED
      BY <1>1, <1>5, <2>1, <2>2, <2>3 DEF Written
  <1>. QED
    BY <1>4, <1>5 DEF StampsInv

\* How the job of p goes on, with what its stages may need.
Goes(p) ==
    \/ Begun(p) /\ job'[p].at \in {"copy", "commit"}
    \/ /\ job[p].at # "idle"
       /\ job'[p].k = job[p].k /\ job'[p].cand = job[p].cand
       /\ job'[p].at \in Pre => job[p].at \in Pre
       /\ job'[p].at \in {"commit", "backup"} => job[p].at \in {"commit", "backup"}
       /\ job'[p].at \in (Locked \cup {"commit"}) \ {"restored"} =>
            job[p].at \in (Locked \cup {"commit"}) \ {"restored"}

LEMMA JobsGoOn ==
    ASSUME TypeOK, Next, NEW p \in Proc, job'[p].at # "idle"
    PROVE  Goes(p)
  <1>1. \/ job[p].at # "idle" /\ job'[p] = job[p]
        \/ Moved(p)
        \/ Begun(p)
    BY StepOfJobs DEF JobsStep, NoJob
  <1>2. CASE Moved(p)
    BY <1>2 DEF Moved, Goes, Pre, Locked
  <1>. QED
    BY <1>1, <1>2 DEF Goes, Begun

LEMMA CountGrows ==
    ASSUME TypeOK, Next
    PROVE  count \in Nat /\ count' \in {count, count + 1}
  <1>1. JobsStep
    BY StepOfJobs
  <1>2. count \in Nat
    BY LocalAssumption DEF TypeOK
  <1>. QED
    BY <1>1, <1>2 DEF JobsStep, Moved, Begun

LEMMA InodeNumbers ==
    ASSUME NEW j \in Save, NEW k \in Save
    PROVE  /\ j # 0 /\ RestoreInode(j) # 0 /\ CopyInode(j) # 0
           /\ RestoreInode(j) # k /\ CopyInode(j) # k /\ RestoreInode(j) # CopyInode(k)
           /\ RestoreInode(j) = RestoreInode(k) => j = k
           /\ CopyInode(j) = CopyInode(k) => j = k
  BY LocalAssumption DEF Save, RestoreInode, CopyInode

\* The number of a save that goes on is its own.
LEMMA OwnNumber ==
    ASSUME CommitInv, CommitInv', Next, NEW p \in Proc, job[p].at # "idle", job'[p].at # "idle"
    PROVE  /\ job[p].k \in Save /\ job[p].k <= count
           /\ job'[p].k = job[p].k
           /\ \A q \in Proc \ {p} : job'[q].at # "idle" => job'[q].k \in Save \ {job[p].k}
  <1>1. count \in 0 .. MaxSaves /\ (count \in 0 .. MaxSaves)'
    BY DEF CommitInv, TypeOK
  <1>2. job[p].k \in 1 .. count /\ \A q \in Proc : job'[q].at # "idle" => job'[q].k \in 1 .. count'
    BY DEF CommitInv, StampInv, Numbered
  <1>3. job'[p].k = job[p].k
    BY JobsGoOn DEF CommitInv, Goes, Begun
  <1>4. \A q \in Proc \ {p} : job'[q].at # "idle" => job'[q].k # job'[p].k
    BY DEF CommitInv, StampInv
  <1>. QED
    BY <1>1, <1>2, <1>3, <1>4, LocalAssumption DEF Save

\* The file a step brings has an inode nobody has, and no other save's.
LEMMA NewFileIsFresh ==
    ASSUME CommitInv, CommitInv', CandInv, InodesInv, Next,
           NEW f \in File, Brings(f), f \notin OnDisk, f # NoFile
    PROVE  /\ f.ino # 0
           /\ \A g \in OnDisk : g.ino # f.ino
           /\ \A j \in Save :
                f.ino \in {j, RestoreInode(j), CopyInode(j)} => j <= count'
           /\ \A p \in Proc :
                /\ job'[p].at \in Pre => f.ino # job'[p].k
                /\ job'[p].at \in {"commit", "backup"} => f.ino # CopyInode(job'[p].k)
                /\ job'[p].at \in (Locked \cup {"commit"}) \ {"restored"} =>
                     f.ino # RestoreInode(job'[p].k)
  <1>. DEFINE Fresh ==
           /\ f.ino # 0
           /\ \A g \in OnDisk : g.ino # f.ino
           /\ \A j \in Save :
                f.ino \in {j, RestoreInode(j), CopyInode(j)} => j <= count'
           /\ \A p \in Proc :
                /\ job'[p].at \in Pre => f.ino # job'[p].k
                /\ job'[p].at \in {"commit", "backup"} => f.ino # CopyInode(job'[p].k)
                /\ job'[p].at \in (Locked \cup {"commit"}) \ {"restored"} =>
                     f.ino # RestoreInode(job'[p].k)
  <1>. TypeOK /\ StampInv /\ "idle" \notin Pre /\ "idle" \notin Locked
    BY DEF CommitInv, Pre, Locked
  <1>1. count \in Nat /\ count' \in {count, count + 1} /\ dir[Target] \in File
    BY CountGrows, FileType, ConstantTypes
  <1>2. ASSUME NEW p \in Proc, job[p].at = "backup", job'[p].at = "flush",
               f = [dir[Target] EXCEPT !.ino = CopyInode(job[p].k)]
        PROVE  Fresh
    <2>1. f.ino = CopyInode(job[p].k)
      BY <1>1, <1>2 DEF File
    <2>2. /\ job[p].k \in Save /\ job[p].k <= count
          /\ \A q \in Proc \ {p} : job'[q].at # "idle" => job'[q].k \in Save \ {job[p].k}
          /\ job'[p].k = job[p].k
      BY <1>2, OwnNumber
    <2>3. \A g \in OnDisk : g.ino # f.ino
      BY <1>2, <2>1 DEF InodesInv
    <2>4. \A j \in Save : f.ino \in {j, RestoreInode(j), CopyInode(j)} => j <= count'
      <3>1. \A j \in Save : f.ino \in {j, RestoreInode(j), CopyInode(j)} => j = job[p].k
        BY <2>1, <2>2, InodeNumbers
      <3>2. job[p].k <= count'
        BY <1>1, <2>2, LocalAssumption DEF Save
      <3>. QED
        BY <3>1, <3>2
    <2>5. ASSUME NEW q \in Proc, job'[q].at # "idle"
          PROVE  /\ f.ino # job'[q].k /\ f.ino # RestoreInode(job'[q].k)
                 /\ q # p => f.ino # CopyInode(job'[q].k)
      BY <2>1, <2>2, <2>5, InodeNumbers
    <2>6. /\ f.ino # 0
          /\ f.ino # job[p].k /\ f.ino # RestoreInode(job[p].k)
      BY <2>1, <2>2, InodeNumbers
    <2>7. ASSUME NEW q \in Proc
          PROVE  /\ job'[q].at \in Pre => f.ino # job'[q].k
                 /\ job'[q].at \in {"commit", "backup"} => f.ino # CopyInode(job'[q].k)
                 /\ job'[q].at \in (Locked \cup {"commit"}) \ {"restored"} =>
                      f.ino # RestoreInode(job'[q].k)
      <3>1. CASE q = p
        BY <1>2, <2>2, <2>6, <3>1 DEF Pre
      <3>2. CASE q # p
        BY <2>5, <3>2
      <3>. QED
        BY <3>1, <3>2
    <2>. QED
      BY <2>3, <2>4, <2>6, <2>7
  <1>3. ASSUME NEW p \in Proc, job[p].at = "rename", job'[p].at = "settle", f = job[p].cand
        PROVE  Fresh
    <2>1. f.ino = job[p].k
      BY <1>3 DEF CandInv
    <2>2. /\ job[p].k \in Save /\ job[p].k <= count
          /\ \A q \in Proc \ {p} : job'[q].at # "idle" => job'[q].k \in Save \ {job[p].k}
          /\ job'[p].k = job[p].k
      BY <1>3, OwnNumber
    <2>3. \A g \in OnDisk : g.ino # f.ino
      BY <1>3, <2>1 DEF InodesInv, Pre
    <2>4. \A j \in Save : f.ino \in {j, RestoreInode(j), CopyInode(j)} => j <= count'
      <3>1. \A j \in Save : f.ino \in {j, RestoreInode(j), CopyInode(j)} => j = job[p].k
        BY <2>1, <2>2, InodeNumbers
      <3>2. job[p].k <= count'
        BY <1>1, <2>2, LocalAssumption DEF Save
      <3>. QED
        BY <3>1, <3>2
    <2>5. ASSUME NEW q \in Proc, job'[q].at # "idle"
          PROVE  /\ f.ino # CopyInode(job'[q].k) /\ f.ino # RestoreInode(job'[q].k)
                 /\ q # p => f.ino # job'[q].k
      BY <2>1, <2>2, <2>5, InodeNumbers
    <2>6. /\ f.ino # 0
          /\ f.ino # CopyInode(job[p].k) /\ f.ino # RestoreInode(job[p].k)
      BY <2>1, <2>2, InodeNumbers
    <2>7. ASSUME NEW q \in Proc
          PROVE  /\ job'[q].at \in Pre => f.ino # job'[q].k
                 /\ job'[q].at \in {"commit", "backup"} => f.ino # CopyInode(job'[q].k)
                 /\ job'[q].at \in (Locked \cup {"commit"}) \ {"restored"} =>
                      f.ino # RestoreInode(job'[q].k)
      <3>1. CASE q = p
        BY <1>3, <2>2, <2>6, <3>1 DEF Pre
      <3>2. CASE q # p
        BY <2>5, <3>2
      <3>. QED
        BY <3>1, <3>2
    <2>. QED
      BY <2>3, <2>4, <2>6, <2>7
  <1>4. ASSUME NEW p \in Proc, job[p].at = "restore", job'[p].at = "restored",
               f = [job[p].init EXCEPT !.ino = RestoreInode(job[p].k)]
        PROVE  Fresh
    <2>1. f.ino = RestoreInode(job[p].k)
      BY <1>4, FileType DEF File
    <2>2. /\ job[p].k \in Save /\ job[p].k <= count
          /\ \A q \in Proc \ {p} : job'[q].at # "idle" => job'[q].k \in Save \ {job[p].k}
          /\ job'[p].k = job[p].k
      BY <1>4, OwnNumber
    <2>3. \A g \in OnDisk : g.ino # f.ino
      BY <1>4, <2>1 DEF InodesInv, Locked, Stage
    <2>4. \A j \in Save : f.ino \in {j, RestoreInode(j), CopyInode(j)} => j <= count'
      <3>1. \A j \in Save : f.ino \in {j, RestoreInode(j), CopyInode(j)} => j = job[p].k
        BY <2>1, <2>2, InodeNumbers
      <3>2. job[p].k <= count'
        BY <1>1, <2>2, LocalAssumption DEF Save
      <3>. QED
        BY <3>1, <3>2
    <2>5. ASSUME NEW q \in Proc, job'[q].at # "idle"
          PROVE  /\ f.ino # CopyInode(job'[q].k) /\ f.ino # job'[q].k
                 /\ q # p => f.ino # RestoreInode(job'[q].k)
      BY <2>1, <2>2, <2>5, InodeNumbers
    <2>6. /\ f.ino # 0
          /\ f.ino # CopyInode(job[p].k) /\ f.ino # job[p].k
      BY <2>1, <2>2, InodeNumbers
    <2>7. ASSUME NEW q \in Proc
          PROVE  /\ job'[q].at \in Pre => f.ino # job'[q].k
                 /\ job'[q].at \in {"commit", "backup"} => f.ino # CopyInode(job'[q].k)
                 /\ job'[q].at \in (Locked \cup {"commit"}) \ {"restored"} =>
                      f.ino # RestoreInode(job'[q].k)
      <3>1. CASE q = p
        BY <1>4, <2>2, <2>6, <3>1 DEF Pre
      <3>2. CASE q # p
        BY <2>5, <3>2
      <3>. QED
        BY <3>1, <3>2
    <2>. QED
      BY <2>3, <2>4, <2>6, <2>7
  <1>5. ASSUME f.ino = count + 1, f.s = count + 1, count' = count + 1, job' = job
        PROVE  Fresh
    <2>1. count + 1 \in Save
      BY <1>1, <1>5, LocalAssumption DEF File, Save
    <2>2. \A g \in OnDisk : g.ino # f.ino
      BY <1>1, <1>5, <2>1 DEF InodesInv
    <2>3. \A j \in Save : f.ino \in {j, RestoreInode(j), CopyInode(j)} => j <= count'
      BY <1>1, <1>5, <2>1, InodeNumbers
    <2>4. ASSUME NEW q \in Proc, job[q].at # "idle" PROVE job[q].k \in Save /\ job[q].k <= count
      BY <1>1, <2>4, LocalAssumption DEF StampInv, Numbered, Save, TypeOK
    <2>5. ASSUME NEW q \in Proc, job[q].at # "idle"
          PROVE  /\ f.ino # job[q].k /\ f.ino # CopyInode(job[q].k)
                 /\ f.ino # RestoreInode(job[q].k)
      BY <1>1, <1>5, <2>1, <2>4, <2>5, InodeNumbers
    <2>. QED
      BY <1>1, <1>5, <2>2, <2>3, <2>5
  <1>6. NewFile(f)
    BY DEF Brings
  <1>. QED
    BY <1>2, <1>3, <1>4, <1>5, <1>6 DEF NewFile

LEMMA InodesStep ==
    ASSUME CommitInv, CommitInv', CandInv, InodesInv, Next
    PROVE  InodesInv'
  <1>. TypeOK /\ StampInv /\ Numbered /\ count \in Nat /\ count' \in {count, count + 1}
    BY CountGrows DEF CommitInv, StampInv
  <1>. DEFINE Apart(f) ==
           /\ f.ino = 0 => f = NoFile
           /\ \A j \in Save :
                f.ino \in {j, RestoreInode(j), CopyInode(j)} => j <= count'
           /\ \A p \in Proc :
                /\ job'[p].at \in Pre => f.ino # job'[p].k
                /\ job'[p].at \in {"commit", "backup"} => f.ino # CopyInode(job'[p].k)
                /\ job'[p].at \in (Locked \cup {"commit"}) \ {"restored"} =>
                     f.ino # RestoreInode(job'[p].k)
  <1>1. ASSUME \A f \in OnDisk' : Apart(f),
               \A f, g \in OnDisk' : f.ino = g.ino => f = g
        PROVE  InodesInv'
    BY <1>1 DEF InodesInv
  <1>2. ASSUME NEW f \in OnDisk PROVE Apart(f)
    <2>1. /\ f.ino = 0 => f = NoFile
          /\ \A j \in Save :
                f.ino \in {j, RestoreInode(j), CopyInode(j)} => j <= count
      BY DEF InodesInv
    <2>2. \A j \in Save : f.ino \in {j, RestoreInode(j), CopyInode(j)} => j <= count'
      BY <2>1, LocalAssumption DEF Save
    <2>3. ASSUME NEW p \in Proc, Begun(p)
          PROVE  f.ino \notin {job'[p].k, CopyInode(job'[p].k), RestoreInode(job'[p].k)}
      <3>1. job'[p].k = count + 1 /\ job'[p].at # "idle"
        BY <2>3 DEF Begun
      <3>2. job'[p].k \in Save
        <4>1. job'[p].k \in 1 .. count' /\ (count \in 0 .. MaxSaves)'
          BY <3>1 DEF CommitInv, StampInv, Numbered, TypeOK
        <4>. QED
          BY <4>1, LocalAssumption DEF Save
      <3>. QED
        BY <2>1, <3>1, <3>2
    <2>4. ASSUME NEW p \in Proc, job'[p].at # "idle"
          PROVE  /\ job'[p].at \in Pre => f.ino # job'[p].k
                 /\ job'[p].at \in {"commit", "backup"} => f.ino # CopyInode(job'[p].k)
                 /\ job'[p].at \in (Locked \cup {"commit"}) \ {"restored"} =>
                     f.ino # RestoreInode(job'[p].k)
      BY <2>3, <2>4, JobsGoOn DEF Goes, InodesInv
    <2>. QED
      BY <2>1, <2>2, <2>4 DEF Pre, Locked
  <1>3. ASSUME NEW f \in File, Brings(f) PROVE InodesInv'
    <2>1. Apart(NoFile)
      <3>1. ASSUME NEW p \in Proc, job'[p].at # "idle" PROVE job'[p].k \in Save
        <4>1. job'[p].k \in 1 .. count' /\ (count \in 0 .. MaxSaves)'
          BY <3>1 DEF CommitInv, StampInv, Numbered, TypeOK
        <4>. QED
          BY <4>1, LocalAssumption DEF Save
      <3>2. NoFile.ino = 0
        BY DEF NoFile
      <3>. QED
        BY <3>1, <3>2, InodeNumbers DEF Pre, Locked
    <2>2. \A g \in OnDisk : g.ino = NoFile.ino => g = NoFile
      BY DEF InodesInv, NoFile
    <2>3. \A g, h \in OnDisk : g.ino = h.ino => g = h
      BY DEF InodesInv
    <2>4. CASE f \in OnDisk \cup {NoFile}
      <3>1. OnDisk' \subseteq OnDisk \cup {NoFile}
        BY <1>3, <2>4 DEF Brings
      <3>2. \A g \in OnDisk' : Apart(g)
        BY <1>2, <2>1, <3>1
      <3>3. \A g, h \in OnDisk' : g.ino = h.ino => g = h
        BY <2>2, <2>3, <3>1
      <3>. QED
        BY <1>1, <3>2, <3>3
    <2>5. CASE f \notin OnDisk \cup {NoFile}
      <3>1. OnDisk' \subseteq OnDisk \cup {f, NoFile}
        BY <1>3 DEF Brings
      <3>2. Apart(f) /\ f.ino # 0 /\ \A g \in OnDisk : g.ino # f.ino
        BY <1>3, <2>5, NewFileIsFresh
      <3>3. \A g \in OnDisk' : Apart(g)
        BY <1>2, <2>1, <3>1, <3>2
      <3>4. NoFile.ino = 0
        BY DEF NoFile
      <3>5. \A g, h \in OnDisk' : g.ino = h.ino => g = h
        BY <2>2, <2>3, <3>1, <3>2, <3>4
      <3>. QED
        BY <1>1, <3>3, <3>5
    <2>. QED
      BY <2>4, <2>5
  <1>4. ASSUME NEW e \in Edit, NEW n \in Name, ForeignInPlace(e, n) PROVE InodesInv'
    <2>. DEFINE f == [ino |-> dir[n].ino, e |-> dir[n].e \cup {e}, s |-> count + 1]
    <2>1. /\ expo' = {Rewrite(d, dir[n].ino, f) : d \in expo}
          /\ dir[n].ino # 0
      BY <1>4 DEF ForeignInPlace
    <2>2. ASSUME NEW g \in OnDisk' PROVE g = f \/ (g \in OnDisk /\ g.ino # f.ino)
      <3>1. PICK c \in expo', m \in Name : g = c[m]
        BY DEF OnDisk
      <3>2. PICK d \in expo : c = Rewrite(d, dir[n].ino, f)
        BY <2>1
      <3>3. d[m] \in OnDisk
        BY DEF OnDisk
      <3>. QED
        BY <3>1, <3>2, <3>3 DEF Rewrite
    <2>3. dir[n] \in OnDisk /\ f.ino = dir[n].ino
      BY DEF OnDisk, TypeOK
    <2>4. Apart(f)
      <3>1. Apart(dir[n])
        BY <1>2, <2>3
      <3>. QED
        BY <2>1, <2>3, <3>1
    <2>5. \A g \in OnDisk' : Apart(g)
      BY <1>2, <2>2, <2>4
    <2>6. \A g, h \in OnDisk' : g.ino = h.ino => g = h
      BY <2>2 DEF InodesInv
    <2>. QED
      BY <1>1, <2>5, <2>6
  <1>. QED
    BY <1>3, <1>4, StepOfFiles

LEMMA CandStep ==
    ASSUME TypeOK, CandInv, StampsInv, Next
    PROVE  CandInv'
  <1>1. ASSUME NEW p \in Proc, sess'[p].st = "open"
        PROVE  sess'[p].base.e \subseteq sess'[p].v
    <2>1. CASE /\ job[p].at # "idle" /\ sess'[p].v = sess[p].v
               /\ sess'[p].base = dir[Target] /\ dir[Target].s = job[p].cand.s
      <3>1. dir[Target].e = job[p].cand.e
        BY <2>1, KnownFiles DEF StampsInv
      <3>. QED
        BY <2>1, <3>1 DEF CandInv
    <2>2. SessionStep(p)
      BY StepOfSessions
    <2>. QED
      BY <1>1, <2>1, <2>2 DEF SessionStep, CandInv
  <1>2. ASSUME NEW p \in Proc, job'[p].at # "idle"
        PROVE  sess'[p].st = sess[p].st /\ sess'[p].v = sess[p].v
    <2>1. SessionStep(p)
      BY StepOfSessions
    <2>. QED
      BY <1>2, <2>1 DEF SessionStep
  <1>3. ASSUME NEW p \in Proc, job'[p].at # "idle"
        PROVE  /\ sess'[p].st = "open" /\ job'[p].cand.e = sess'[p].v
               /\ job'[p].cand.ino = job'[p].k
    <2>1. CASE Begun(p)
      BY <1>2, <1>3, <2>1 DEF Begun
    <2>2. CASE job[p].at # "idle" /\ job'[p].k = job[p].k /\ job'[p].cand = job[p].cand
      BY <1>2, <1>3, <2>2 DEF CandInv
    <2>. QED
      BY <1>3, <2>1, <2>2, JobsGoOn DEF Goes
  <1>4. ASSUME NEW p \in Proc, job'[p].at \in Locked
        PROVE  job'[p].init.e \subseteq job'[p].cand.e
    <2>1. job'[p].at # "idle"
      BY <1>4 DEF Locked
    <2>2. \/ job'[p] = job[p]
          \/ Moved(p)
          \/ Begun(p)
      BY <2>1, StepOfJobs DEF JobsStep, NoJob
    <2>3. CASE /\ job[p].at = "commit" /\ job'[p].init = dir[Target]
               /\ job'[p].cand = job[p].cand /\ SameBytes(dir[Target], sess[p].base)
      <3>1. dir[Target].e = sess[p].base.e
        BY <2>3, KnownFiles DEF SameBytes, StampsInv
      <3>. QED
        BY <2>3, <3>1 DEF CandInv
    <2>. QED
      BY <1>4, <2>2, <2>3 DEF Moved, Begun, Locked, CandInv
  <1>. QED
    BY <1>1, <1>3, <1>4 DEF CandInv

LEMMA ReplacedNames ==
    ASSUME NEW d \in Directory, NEW n \in Name \ {Target}, NEW f \in File
    PROVE  /\ Replaced(d, f, n)[Target] = f
           /\ Replaced(d, f, n)[n] = IF platform = "unix" THEN d[n] ELSE d[Target]
           /\ \A m \in Name \ {Target, n} : Replaced(d, f, n)[m] = d[m]
  <1>1. d[Target] \in File /\ Target \in Name
    BY ConstantTypes DEF Directory
  <1>2. Put(d, n, d[Target]) \in Directory
    BY <1>1, PutType
  <1>. QED
    BY <1>1, <1>2, PutType DEF Replaced

\* The names a step gives a file.
UsedName(n) == \E p \in Proc :
    /\ job[p].at # "idle"
    /\ \/ n = job[p].k /\ job'[p].at \in {"flush", "settle", "reconcile"}
       \/ n = RollbackName(job[p].k) /\ job'[p].at \in {"restored", "unknown"}

NamesFrom(d, c) == \A n \in Name \ {Target} :
    c[n] \in {d[n], NoFile} \/ d[n].ino # 0 \/ UsedName(n)

LEMMA StepOfNames ==
    ASSUME TypeOK, Numbered, Next, NEW c \in expo'
    PROVE  \E d \in expo : NamesFrom(d, c)
  <1>. /\ DiskType /\ RunType /\ Target \in Name /\ NoFile \in File
       /\ dir \in Directory /\ dir \in expo /\ \A d \in expo : d \in Directory
    BY TypeParts, ConstantTypes DEF DiskType
  <1>. DEFINE Goal == \E d \in expo : NamesFrom(d, c)
  <1>1. ASSUME c \in expo PROVE Goal
    BY <1>1 DEF NamesFrom
  <1>2. ASSUME UNCHANGED disk \/ Flush PROVE Goal
    BY <1>1, <1>2 DEF disk, Flush
  <1>3. ASSUME NEW p \in Proc, job[p].at # "idle" PROVE job[p].k \in Save
    <2>1. job[p].k \in 1 .. count /\ count \in 0 .. MaxSaves
      BY <1>3 DEF Numbered, TypeOK
    <2>. QED
      BY <2>1, LocalAssumption DEF Save
  <1>4. ASSUME NEW d \in expo, NEW n \in Name, NEW f \in File, c = Put(d, n, f),
               n = Target \/ f = NoFile \/ UsedName(n)
        PROVE  Goal
    <2>1. c[n] = f /\ \A m \in Name \ {n} : c[m] = d[m]
      BY <1>4, PutType
    <2>2. NamesFrom(d, c)
      BY <1>4, <2>1 DEF NamesFrom
    <2>. QED
      BY <2>2
  <1>5. ASSUME NEW p \in Proc, job[p].at # "idle", Discard(job[p].k) PROVE Goal
    BY <1>2, <1>3, <1>4, <1>1, <1>5, SiblingNames DEF Discard, SetEntry, SetEntryAndFlush
  <1>6. ASSUME NEW n \in Name \ {Target}, NEW f \in File, Replace(f, n), UsedName(n)
        PROVE  Goal
    BY <1>1, <1>6, ReplacedNames DEF Replace, NamesFrom
  <1>7. ASSUME NEW p \in Proc, BeginWrite(p) PROVE Goal
    <2>. DEFINE clean == [n \in Name |->
                           IF n \in HardLinks(dir) THEN NoFile ELSE dir[n]]
    <2>1. c = clean => NamesFrom(dir, c)
      BY DEF NamesFrom
    <2>2. expo' = IF HardLinks(dir) = {} THEN expo ELSE {clean}
      BY <1>7 DEF BeginWrite
    <2>. QED
      BY <1>1, <2>1, <2>2
  <1>8. ASSUME NEW p \in Proc, PublishBackup(p) PROVE Goal
    <2>. DEFINE copied == [dir[Target] EXCEPT !.ino = CopyInode(job[p].k)]
    <2>1. dir[Target] \in File /\ copied \in File /\ job[p].at = "backup"
      BY <1>8, FileType, ConstantTypes DEF File, PublishBackup
    <2>2. CASE Continue(p, "flush") /\ (SetEntry(job[p].k, copied) \/ SetEntry(job[p].k, dir[Target]))
      <3>1. Goto(p, "flush") /\ "flush" \in Stage
        BY <2>2 DEF Continue, Stage
      <3>2. UsedName(job[p].k)
        BY <2>1, <3>1, GotoMoves DEF UsedName, Moves
      <3>. QED
        BY <1>1, <1>3, <1>4, <2>1, <2>2, <3>2, SiblingNames DEF SetEntry
    <2>. QED
      BY <1>2, <1>8, <2>2 DEF PublishBackup
  <1>9. ASSUME NEW p \in Proc, Rename(p) PROVE Goal
    <2>1. job[p].at # "idle" /\ job[p].cand \in File /\ job[p].k \in Name \ {Target}
      <3>1. job[p].at # "idle"
        BY <1>9 DEF Rename
      <3>. QED
        BY <3>1, <1>3, FileType, SiblingNames
    <2>2. CASE Replace(job[p].cand, job[p].k) /\ Continue(p, "settle")
      <3>1. Goto(p, "settle") /\ "settle" \in Stage
        BY <2>2 DEF Continue, Stage
      <3>2. UsedName(job[p].k)
        BY <2>1, <3>1, GotoMoves DEF UsedName, Moves
      <3>. QED
        BY <1>6, <2>1, <2>2, <3>2
    <2>3. CASE /\ HalfReplace(job[p].k)
               /\ job' = [job EXCEPT ![p].at = "reconcile", ![p].why = "publish"]
      <3>1. job'[p].at = "reconcile"
        BY <2>3 DEF RunType, Job
      <3>2. UsedName(job[p].k)
        BY <2>1, <3>1 DEF UsedName
      <3>. QED
        BY <1>6, <2>1, <2>3, <3>2 DEF HalfReplace
    <2>. QED
      BY <1>5, <1>9, <2>1, <2>2, <2>3 DEF Rename
  <1>10. ASSUME NEW p \in Proc, Restore(p) PROVE Goal
    <2>. DEFINE previous == [job[p].init EXCEPT !.ino = RestoreInode(job[p].k)]
    <2>1. /\ job[p].at # "idle" /\ previous \in File
          /\ RollbackName(job[p].k) \in Name \ {Target}
      <3>1. job[p].at # "idle"
        BY <1>10 DEF Restore
      <3>2. previous \in File
        BY FileType, ConstantTypes DEF File
      <3>. QED
        BY <3>1, <3>2, <1>3, SiblingNames
    <2>2. ASSUME NEW f \in File, NEW stage \in {"restored", "unknown"},
                 Replace(f, RollbackName(job[p].k)), Continue(p, stage)
          PROVE  Goal
      <3>1. Goto(p, stage) /\ stage \in Stage
        BY <2>2 DEF Continue, Stage
      <3>2. UsedName(RollbackName(job[p].k))
        BY <2>1, <3>1, GotoMoves DEF UsedName, Moves
      <3>. QED
        BY <1>6, <2>1, <2>2, <3>2
    <2>. QED
      BY <1>2, <1>10, <2>1, <2>2 DEF Restore, HalfReplace
  <1>12. ASSUME NEW p \in Proc, Restored(p) PROVE Goal
    <2>. DEFINE k == job[p].k
    <2>1. k \in 0 .. MaxSaves /\ k \in Name
      BY FileType, ConstantTypes
    <2>2. c = Cleared(dir, k) => NamesFrom(dir, c)
      BY <2>1, ClearedType DEF NamesFrom
    <2>3. CASE expo' \in {{Cleared(dir, k)}, {dir, Put(dir, k, NoFile), Cleared(dir, k)}}
      BY <1>1, <1>4, <2>1, <2>2, <2>3
    <2>. QED
      BY <1>2, <1>12, <2>3 DEF Restored, ClearSiblings
  <1>13. ASSUME NEW e \in Edit, ForeignReplace(e) PROVE Goal
    <2>. DEFINE f == [ino |-> count + 1, e |-> dir[Target].e \cup {e}, s |-> count + 1]
    <2>1. count + 1 \in Inode /\ count + 1 \in 0 .. MaxSaves
      BY <1>13, LocalAssumption DEF ForeignReplace, TypeOK, Inode
    <2>2. f \in File
      BY <2>1, FileType DEF File
    <2>. QED
      BY <1>13, <1>4, <2>2 DEF ForeignReplace, SetEntryAndFlush
  <1>14. ASSUME NEW e \in Edit, NEW n \in Name, ForeignInPlace(e, n) PROVE Goal
    <2>. DEFINE f == [ino |-> dir[n].ino, e |-> dir[n].e \cup {e}, s |-> count + 1]
    <2>1. expo' = {Rewrite(d, dir[n].ino, f) : d \in expo} /\ dir[n].ino # 0
      BY <1>14 DEF ForeignInPlace
    <2>2. PICK d \in expo : c = Rewrite(d, dir[n].ino, f)
      BY <2>1
    <2>. QED
      BY <2>1, <2>2 DEF Rewrite, NamesFrom
  <1>15. ASSUME ForeignDelete PROVE Goal
    BY <1>15, <1>4 DEF ForeignDelete, SetEntryAndFlush
  <1>16. ASSUME PowerLoss PROVE Goal
    BY <1>1, <1>16 DEF PowerLoss
  <1>17. ASSUME NEW p \in Proc, FlushBackup(p) \/ Verify(p) PROVE Goal
    BY <1>17, <1>2, <1>5 DEF FlushBackup, Verify
  <1>18. ASSUME NEW p \in Proc,
                \/ Settle(p) \/ FinalReadback(p) \/ Reconcile(p)
                \/ Recover(p) \/ ConflictCopy(p)
         PROVE  Goal
    BY <1>18, <1>2 DEF Settle, FinalReadback, Reconcile, Recover, ConflictCopy
  <1>11. ASSUME NEW p \in Proc, DropOriginal(p) PROVE Goal
    BY <1>11, <1>5 DEF DropOriginal
  <1>19. ASSUME NEW p \in Proc,
                \/ Open(p) \/ Unlock(p) \/ Lock(p) \/ BeginSave(p)
                \/ BeginWriteRefused(p) \/ Recheck(p) \/ Rollback(p)
                \/ Unknown(p) \/ Crash(p) \/ \E e \in Edit : EditVault(p, e)
         PROVE  Goal
    BY <1>19, <1>2 DEF Open, Unlock, Lock, BeginSave, BeginWriteRefused, Recheck,
       Rollback, Unknown, Crash, EditVault
  <1>. QED
    BY <1>7, <1>8, <1>9, <1>10, <1>11, <1>12, <1>13, <1>14, <1>15, <1>16, <1>17, <1>18,
       <1>19
    DEF Next

LEMMA NamesStep ==
    ASSUME CommitInv, CommitInv', NamesInv, InodesInv, Next
    PROVE  NamesInv'
  <1>. TypeOK /\ StampInv /\ Numbered /\ count \in Nat /\ count' \in {count, count + 1}
    BY CountGrows DEF CommitInv, StampInv
  <1>. SUFFICES ASSUME NEW c \in expo'
                PROVE  /\ \A j \in Save : j > count' => c[j] = NoFile /\ c[RollbackName(j)] = NoFile
                       /\ \A p \in Proc :
                            /\ job'[p].at \in {"commit", "backup"} => c[job'[p].k] = NoFile
                            /\ job'[p].at \in (Locked \cup {"commit"}) \ {"restored"} =>
                                 c[RollbackName(job'[p].k)] = NoFile
    BY DEF NamesInv
  <1>1. PICK d \in expo : NamesFrom(d, c)
    BY StepOfNames
  <1>2. ASSUME NEW n \in Name \ {Target}, d[n] = NoFile, ~UsedName(n) PROVE c[n] = NoFile
    <2>1. NoFile.ino = 0
      BY DEF NoFile
    <2>2. c[n] \in {d[n], NoFile} \/ d[n].ino # 0
      BY <1>1, <1>2 DEF NamesFrom
    <2>. QED
      BY <1>2, <2>1, <2>2
  <1>3. ASSUME NEW j \in Save, j > count' PROVE c[j] = NoFile /\ c[RollbackName(j)] = NoFile
    <2>1. j > count /\ \A p \in Proc : job[p].at # "idle" => job[p].k \in Save /\ job[p].k # j
      BY <1>3, LocalAssumption DEF Numbered, Save, CommitInv, TypeOK
    <2>2. ~UsedName(j) /\ ~UsedName(RollbackName(j))
      BY <2>1, SiblingNames DEF UsedName
    <2>3. d[j] = NoFile /\ d[RollbackName(j)] = NoFile
      BY <2>1 DEF NamesInv
    <2>. QED
      BY <1>2, <2>2, <2>3, SiblingNames
  <1>4. ASSUME NEW p \in Proc, job'[p].at # "idle"
        PROVE  /\ job'[p].k \in Save
               /\ UsedName(job'[p].k) => job'[p].at \in {"flush", "settle", "reconcile"}
               /\ UsedName(RollbackName(job'[p].k)) => job'[p].at \in {"restored", "unknown"}
    <2>1. job'[p].k \in Save
      <3>1. job'[p].k \in 1 .. count' /\ (count \in 0 .. MaxSaves)'
        BY <1>4 DEF CommitInv, StampInv, Numbered, TypeOK
      <3>. QED
        BY <3>1, LocalAssumption DEF Save
    <2>2. ASSUME NEW q \in Proc \ {p}, job[q].at # "idle", job'[q].at # "idle"
          PROVE  job[q].k \in Save /\ job[q].k # job'[p].k
      BY <1>4, <2>2, OwnNumber
    <2>3. job[p].at # "idle" => job[p].k = job'[p].k
      BY <1>4, OwnNumber
    <2>. QED
      BY <2>1, <2>2, <2>3, SiblingNames DEF UsedName
  <1>5. ASSUME NEW p \in Proc, Begun(p)
        PROVE  d[job'[p].k] = NoFile /\ d[RollbackName(job'[p].k)] = NoFile
    <2>1. job'[p].k = count + 1 /\ job'[p].k \in Save
      BY <1>4, <1>5 DEF Begun
    <2>. QED
      BY <2>1 DEF NamesInv
  <1>6. ASSUME NEW p \in Proc, job'[p].at \in {"commit", "backup"} PROVE c[job'[p].k] = NoFile
    <2>1. job'[p].k \in Name \ {Target} /\ ~UsedName(job'[p].k)
      BY <1>4, <1>6, SiblingNames
    <2>2. d[job'[p].k] = NoFile
      <3>1. CASE job[p].at \in {"commit", "backup"} /\ job'[p].k = job[p].k
        BY <3>1 DEF NamesInv
      <3>. QED
        BY <1>5, <1>6, <3>1, JobsGoOn DEF Goes
    <2>. QED
      BY <1>2, <2>1, <2>2
  <1>7. ASSUME NEW p \in Proc, job'[p].at \in (Locked \cup {"commit"}) \ {"restored"}
        PROVE  c[RollbackName(job'[p].k)] = NoFile
    <2>1. job'[p].at \notin {"idle", "restored", "unknown"}
      BY <1>7 DEF Locked
    <2>2. RollbackName(job'[p].k) \in Name \ {Target} /\ ~UsedName(RollbackName(job'[p].k))
      BY <1>4, <2>1, SiblingNames
    <2>3. d[RollbackName(job'[p].k)] = NoFile
      <3>1. CASE job[p].at \in (Locked \cup {"commit"}) \ {"restored"} /\ job'[p].k = job[p].k
        BY <3>1 DEF NamesInv
      <3>. QED
        BY <1>5, <1>7, <2>1, <3>1, JobsGoOn DEF Goes
    <2>. QED
      BY <1>2, <2>2, <2>3
  <1>. QED
    BY <1>3, <1>6, <1>7

-----------------------------------------------------------------------------
(* Where the acknowledged edits are. *)

\* The stages of a transaction that has not renamed its candidate.
Unrenamed == {"backup", "flush", "verify", "rename"}

\* The names a transaction changes.
Own(p) == {Target, job[p].k, RollbackName(job[p].k)}

\* x is readable after d without the names in S.
Elsewhere(d, S, x) == x \in copies \cup gone \/ \E n \in Name \ S : x \in d[n].e

\* The edits that d has to hold: those of a durable answer, and in the directory
\* the processes see also those of a save that was answered "saved" after an
\* unknown outcome, unless a power loss took them.
Due(d) == acked \cup IF d = dir THEN assumed \ cut ELSE {}

\* Each is readable ...
ReadableInv == \A d \in expo : \A x \in Due(d) : Elsewhere(d, {}, x)

\* ... in the visible vault, or after every power loss beside the vault ...
VisibleInv == dir[Target].ino # 0 =>
    \A d \in expo : \A x \in Due(d) : x \in dir[Target].e \/ Elsewhere(d, {Target}, x)

\* ... in the generation a transaction opened, or where it changes nothing ...
OpenedInv == \A p \in Proc : job[p].at \in Locked =>
    /\ dir[Target].ino # 0 => job[p].init.e \subseteq dir[Target].e \cup gone
    /\ \A d \in expo : \A x \in Due(d) : x \in job[p].init.e \/ Elsewhere(d, Own(p), x)

\* ... without the backup, as long as the candidate is not renamed.
SpareInv == \A p \in Proc : job[p].at \in Unrenamed =>
    \A d \in expo : \A x \in Due(d) : Elsewhere(d, {job[p].k}, x)

\* The vault that a readback sees is durable.
FlushedInv == \A p \in Proc : job[p].at \in {"readback", "drop", "recheck"} =>
    \A d \in expo : d[Target] = dir[Target]

\* A transaction that drops its backup has its candidate in the vault.
DropInv == \A p \in Proc : job[p].at = "drop" =>
    job[p].cand.e \subseteq dir[Target].e \cup gone

\* While the candidate of a save with an unknown outcome is the vault, a
\* transaction has opened that candidate.
AnsweredInv == \A p, q \in Proc :
    job[p].at = "unknown" /\ job[q].at \in Locked /\ SameBytes(dir[Target], job[p].cand) =>
      job[q].init.s = job[p].cand.s

SurvivalInv ==
    /\ ReadableInv /\ VisibleInv /\ OpenedInv /\ SpareInv
    /\ FlushedInv /\ DropInv /\ AnsweredInv

LEMMA OwnNames ==
    ASSUME CommitInv, NEW p \in Proc, job[p].at \in Locked
    PROVE  /\ job[p].k \in Save /\ job[p].k \in 0 .. MaxSaves
           /\ job[p].k \in Name \ {Target}
           /\ RollbackName(job[p].k) \in Name \ {Target, job[p].k}
           /\ Own(p) \subseteq Name
  <1>1. job[p].k \in Save
    BY LocalAssumption DEF CommitInv, StampInv, Numbered, TypeOK, Save, Locked
  <1>. QED
    BY <1>1, SiblingNames, ConstantTypes DEF Own

-----------------------------------------------------------------------------
(* A step that belongs to no transaction. *)

\* c has every file of d, but for what another program deletes.
Follows(c, d) == \A n \in Name : d[n].e \subseteq c[n].e \cup gone'

\* No file loses an edit, but for what another program deletes.  What is answered
\* after an unknown outcome is in the vault, and every transaction opened it.
OtherStep ==
    /\ \A q \in Proc : job'[q].at \in Locked \cup {"unknown"} => job'[q] = job[q]
    /\ copies \subseteq copies' /\ gone \subseteq gone'
    /\ acked' \subseteq acked \cup copies'
    /\ \A x \in assumed' \ cut' :
         \/ x \in assumed \ cut
         \/ /\ x \in dir'[Target].e
            /\ \A q \in Proc : job'[q].at \in Locked => x \in job[q].init.e
    /\ \A c \in expo' : \E d \in expo : Follows(c, d)
    /\ Follows(dir', dir)
    /\ dir'[Target].ino # 0 => dir[Target].ino # 0 /\ dir[Target].e \subseteq dir'[Target].e
    /\ dir'[Target] = dir[Target] \/ dir'[Target].ino = 0 \/ dir'[Target].s = count + 1
    /\ (\A d \in expo : d[Target] = dir[Target]) => \A c \in expo' : c[Target] = dir'[Target]

LEMMA OtherKeeps ==
    ASSUME CommitInv, StampsInv, SurvivalInv, OtherStep
    PROVE  SurvivalInv'
  <1>. DEFINE Safe(c, S, x) == x \in copies' \cup gone' \/ \E n \in Name \ S : x \in c[n].e
              Fresh(c, x) == /\ c = dir' /\ x \in dir'[Target].e
                             /\ \A q \in Proc : job'[q].at \in Locked => x \in job[q].init.e
  <1>. TypeOK /\ dir \in expo /\ Target \in Name
    BY ConstantTypes DEF CommitInv, TypeOK
  <1>0. \A c, S, x : Elsewhere(c, S, x)' <=> Safe(c, S, x)
    BY DEF Elsewhere
  <1>1. ASSUME NEW c \in expo', NEW x \in Due(c)'
        PROVE  \/ x \in copies' \cup gone'
               \/ Fresh(c, x)
               \/ \E d \in expo : x \in Due(d) /\ \A S : Elsewhere(d, S, x) => Safe(c, S, x)
    <2>1. ASSUME NEW d \in expo, Follows(c, d), NEW S, Elsewhere(d, S, x) PROVE Safe(c, S, x)
      BY <2>1 DEF Elsewhere, Follows, OtherStep
    <2>2. CASE x \in acked'
      <3>1. x \in acked \/ x \in copies'
        BY <2>2 DEF OtherStep
      <3>2. PICK d \in expo : Follows(c, d)
        BY DEF OtherStep
      <3>. QED
        BY <2>1, <3>1, <3>2 DEF Due
    <2>3. CASE c = dir' /\ x \in assumed' \ cut'
      <3>1. x \in assumed \ cut \/ Fresh(c, x)
        BY <2>3 DEF OtherStep
      <3>2. Follows(c, dir)
        BY <2>3 DEF OtherStep
      <3>. QED
        BY <2>1, <3>1, <3>2 DEF Due
    <2>. QED
      BY <2>2, <2>3 DEF Due
  <1>3. ReadableInv'
    <2>. SUFFICES ASSUME NEW c \in expo', NEW x \in Due(c)' PROVE Safe(c, {}, x)
      BY <1>0 DEF ReadableInv
    <2>1. \A d \in expo : x \in Due(d) => Elsewhere(d, {}, x)
      BY DEF SurvivalInv, ReadableInv
    <2>. QED
      BY <1>1, <2>1
  <1>4. VisibleInv'
    <2>. SUFFICES ASSUME dir'[Target].ino # 0, NEW c \in expo', NEW x \in Due(c)'
                  PROVE  x \in dir'[Target].e \/ Safe(c, {Target}, x)
      BY <1>0 DEF VisibleInv
    <2>1. dir[Target].ino # 0 /\ dir[Target].e \subseteq dir'[Target].e
      BY DEF OtherStep
    <2>2. \A d \in expo : x \in Due(d) => x \in dir[Target].e \/ Elsewhere(d, {Target}, x)
      BY <2>1 DEF SurvivalInv, VisibleInv
    <2>. QED
      BY <1>1, <2>1, <2>2
  <1>5. OpenedInv'
    <2>. SUFFICES ASSUME NEW p \in Proc, job'[p].at \in Locked
                  PROVE  /\ dir'[Target].ino # 0 =>
                              job'[p].init.e \subseteq dir'[Target].e \cup gone'
                         /\ \A c \in expo' : \A x \in Due(c)' :
                              x \in job'[p].init.e \/ Elsewhere(c, Own(p), x)'
      BY DEF OpenedInv
    <2>1. job'[p] = job[p] /\ Own(p)' = Own(p)
      BY DEF OtherStep, Own
    <2>2. /\ dir[Target].ino # 0 => job[p].init.e \subseteq dir[Target].e \cup gone
          /\ \A d \in expo : \A x \in Due(d) : x \in job[p].init.e \/ Elsewhere(d, Own(p), x)
      BY <2>1 DEF SurvivalInv, OpenedInv
    <2>3. dir'[Target].ino # 0 => job'[p].init.e \subseteq dir'[Target].e \cup gone'
      BY <2>1, <2>2 DEF OtherStep
    <2>4. ASSUME NEW c \in expo', NEW x \in Due(c)'
          PROVE  x \in job[p].init.e \/ Safe(c, Own(p), x)
      BY <1>1, <2>1, <2>2
    <2>. QED
      BY <1>0, <2>1, <2>3, <2>4
  <1>6. SpareInv'
    <2>. SUFFICES ASSUME NEW p \in Proc, job'[p].at \in Unrenamed,
                         NEW c \in expo', NEW x \in Due(c)'
                  PROVE  Safe(c, {job'[p].k}, x)
      BY <1>0 DEF SpareInv
    <2>1. job'[p] = job[p] /\ job[p].at \in Locked
      BY DEF OtherStep, Unrenamed, Locked, Stage
    <2>2. \A d \in expo : x \in Due(d) => Elsewhere(d, {job[p].k}, x)
      BY <2>1 DEF SurvivalInv, SpareInv
    <2>3. job[p].k # Target
      BY <2>1, OwnNames
    <2>. QED
      BY <1>1, <2>1, <2>2, <2>3
  <1>7. FlushedInv'
    BY DEF SurvivalInv, FlushedInv, OtherStep, Locked, Stage
  <1>8. DropInv'
    <2>. SUFFICES ASSUME NEW p \in Proc, job'[p].at = "drop"
                  PROVE  job'[p].cand.e \subseteq dir'[Target].e \cup gone'
      BY DEF DropInv
    <2>1. job'[p] = job[p]
      BY DEF OtherStep, Locked, Stage
    <2>2. job[p].cand.e \subseteq dir[Target].e \cup gone
      BY <2>1 DEF SurvivalInv, DropInv
    <2>. QED
      BY <2>1, <2>2 DEF OtherStep, Follows
  <1>9. AnsweredInv'
    <2>. SUFFICES ASSUME NEW p \in Proc, NEW q \in Proc, job'[p].at = "unknown",
                         job'[q].at \in Locked, SameBytes(dir'[Target], job'[p].cand)
                  PROVE  job'[q].init.s = job'[p].cand.s
      BY DEF AnsweredInv, SameBytes
    <2>1. job'[p] = job[p] /\ job'[q] = job[q]
      BY DEF OtherStep
    <2>2. job[p].cand.s <= count /\ job[p].cand.s \in Nat /\ count \in Nat
      BY FileType, LocalAssumption DEF StampsInv, Files, TypeOK, File
    <2>3. dir'[Target] = dir[Target]
      BY <2>1, <2>2 DEF OtherStep, SameBytes
    <2>. QED
      BY <2>1, <2>3 DEF SurvivalInv, AnsweredInv
  <1>. QED
    BY <1>3, <1>4, <1>5, <1>6, <1>7, <1>8, <1>9 DEF SurvivalInv

-----------------------------------------------------------------------------
(* A step of a transaction. *)

\* Some file of c has all edits of E.
Holds(c, E) == \E m \in Name : E \subseteq c[m].e

\* How a step of the transaction of p may change a directory: every file is in
\* it still, or the vault has what the transaction opened, or all is in it that
\* is not in the backup.
OwnChange(p, d, c) ==
    /\ \A n \in Name \ Own(p) : c[n] = d[n]
    /\ job'[p].at \in Unrenamed =>
         job[p].at \in Unrenamed /\ \A n \in Name \ {job[p].k} : c[n] = d[n]
    /\ \/ \A n \in Name : Holds(c, d[n].e)
       \/ job[p].init.e \subseteq c[Target].e \cup gone
       \/ job[p].at \in Unrenamed /\ \A n \in Name \ {job[p].k} : Holds(c, d[n].e)

\* Every directory that a power loss may leave comes from one, and the one the
\* processes see from the one they saw.
OwnChangesAll(p) ==
    /\ \A c \in expo' : \E d \in expo : OwnChange(p, d, c)
    /\ OwnChange(p, dir, dir')

\* A save is acknowledged for a candidate that is the durable vault.
Acknowledges(p) ==
    /\ acked' = acked \cup job[p].cand.e /\ job'[p].at = "idle"
    /\ \A c \in expo' : job[p].cand.e \subseteq c[Target].e \cup gone

\* Only the job of p changes, and its transaction stays the one it is.
OwnJob(p) ==
    /\ \A q \in Proc \ {p} : job'[q] = job[q]
    /\ job'[p].at \in Locked => /\ job'[p].k = job[p].k /\ job'[p].init = job[p].init
                                /\ job'[p].cand = job[p].cand

OwnStep(p) ==
    /\ job[p].at \in Locked /\ OwnJob(p)
    /\ copies \subseteq copies' /\ gone' = gone
    /\ acked' = acked \/ Acknowledges(p)
    /\ assumed' = assumed /\ cut' = cut
    /\ \/ dir'[Target] = dir[Target]
       \/ dir'[Target].ino = 0
       \/ /\ job[p].init.e \subseteq dir'[Target].e
          /\ dir'[Target].s \in {job[p].init.s, job[p].cand.s}
    /\ job'[p].at \in {"readback", "drop", "recheck"} => \A c \in expo' : c[Target] = dir'[Target]
    /\ job'[p].at = "drop" => job[p].cand.e \subseteq dir'[Target].e \cup gone
    /\ OwnChangesAll(p)

LEMMA OwnKeeps ==
    ASSUME CommitInv, CandInv, SurvivalInv, NEW p \in Proc, OwnStep(p), (dir \in expo)'
    PROVE  SurvivalInv'
  <1>. DEFINE k == job[p].k
              init == job[p].init
              Safe(c, S, x) == x \in copies' \cup gone' \/ \E n \in Name \ S : x \in c[n].e
  <1>. TypeOK /\ dir \in expo
    BY DEF CommitInv, TypeOK
  <1>0. \A c, S, x : Elsewhere(c, S, x)' <=> Safe(c, S, x)
    BY DEF Elsewhere
  <1>1. \A q \in Proc \ {p} : job'[q].at \notin Locked
    BY DEF OwnStep, OwnJob, TypeOK
  <1>2. init.e \subseteq job[p].cand.e
    BY DEF OwnStep, CandInv
  <1>3. /\ dir[Target].ino # 0 => init.e \subseteq dir[Target].e \cup gone
        /\ \A d \in expo : \A x \in Due(d) : x \in init.e \/ Elsewhere(d, Own(p), x)
    BY DEF OwnStep, SurvivalInv, OpenedInv
  <1>4. dir'[Target].ino # 0 => init.e \subseteq dir'[Target].e \cup gone'
    BY <1>3 DEF OwnStep
  <1>5. \A x : x \in copies \cup gone => x \in copies' \cup gone'
    BY DEF OwnStep
  <1>6. ASSUME NEW c \in expo', NEW x \in Due(c)'
        PROVE  \/ Acknowledges(p) /\ x \in c[Target].e \cup gone'
               \/ \E d \in expo : x \in Due(d) /\ OwnChange(p, d, c)
    <2>1. CASE x \in acked
      <3>1. \E d \in expo : OwnChange(p, d, c)
        BY DEF OwnStep, OwnChangesAll
      <3>. QED
        BY <2>1, <3>1 DEF Due
    <2>2. CASE x \in acked' \ acked
      BY <2>2 DEF OwnStep, Acknowledges
    <2>3. CASE c = dir' /\ x \in assumed' \ cut'
      <3>1. OwnChange(p, dir, c) /\ x \in Due(dir)
        BY <2>3 DEF OwnStep, OwnChangesAll, Due
      <3>. QED
        BY <3>1
    <2>. QED
      BY <2>1, <2>2, <2>3 DEF Due
  <1>7. ASSUME NEW c, NEW d \in expo, NEW x \in Due(d), OwnChange(p, d, c)
        PROVE  x \in init.e \/ Safe(c, Own(p), x)
    <2>1. x \in init.e \/ Elsewhere(d, Own(p), x)
      BY <1>3
    <2>. QED
      BY <1>5, <1>7, <2>1 DEF Elsewhere, OwnChange
  <1>8. Target \in Name /\ Target \in Own(p)
    BY ConstantTypes DEF Own
  <1>9. ReadableInv'
    <2>. SUFFICES ASSUME NEW c \in expo', NEW x \in Due(c)' PROVE Safe(c, {}, x)
      BY <1>0 DEF ReadableInv
    <2>1. CASE Acknowledges(p) /\ x \in c[Target].e \cup gone'
      BY <1>8, <2>1
    <2>2. ASSUME NEW d \in expo, x \in Due(d), OwnChange(p, d, c) PROVE Safe(c, {}, x)
      <3>2. CASE \A n \in Name : Holds(c, d[n].e)
        <4>1. x \in copies \cup gone \/ \E n \in Name : x \in d[n].e
          BY <2>2 DEF SurvivalInv, ReadableInv, Elsewhere
        <4>. QED
          BY <1>5, <3>2, <4>1 DEF Holds
      <3>3. CASE init.e \subseteq c[Target].e \cup gone
        BY <1>5, <1>7, <1>8, <2>2, <3>3
      <3>4. CASE job[p].at \in Unrenamed /\ \A n \in Name \ {k} : Holds(c, d[n].e)
        <4>1. x \in copies \cup gone \/ \E n \in Name \ {k} : x \in d[n].e
          BY <2>2, <3>4 DEF SurvivalInv, SpareInv, Elsewhere
        <4>. QED
          BY <1>5, <3>4, <4>1 DEF Holds
      <3>. QED
        BY <2>2, <3>2, <3>3, <3>4 DEF OwnChange
    <2>. QED
      BY <1>6, <2>1, <2>2
  <1>10. VisibleInv'
    <2>. SUFFICES ASSUME dir'[Target].ino # 0, NEW c \in expo', NEW x \in Due(c)'
                  PROVE  x \in dir'[Target].e \/ Safe(c, {Target}, x)
      BY <1>0 DEF VisibleInv
    <2>1. CASE Acknowledges(p) /\ x \in job[p].cand.e
      <3>1. x \in dir'[Target].e \cup gone'
        BY <2>1 DEF Acknowledges, OwnStep
      <3>. QED
        BY <3>1
    <2>2. ASSUME NEW d \in expo, x \in Due(d), OwnChange(p, d, c)
          PROVE  x \in dir'[Target].e \/ Safe(c, {Target}, x)
      BY <1>4, <1>7, <1>8, <2>2
    <2>3. (Acknowledges(p) /\ x \in job[p].cand.e)
            \/ \E d \in expo : x \in Due(d) /\ OwnChange(p, d, c)
      <3>1. CASE x \in acked' \ acked
        BY <3>1 DEF OwnStep, Acknowledges
      <3>2. CASE x \in acked
        <4>1. \E d \in expo : OwnChange(p, d, c)
          BY DEF OwnStep, OwnChangesAll
        <4>. QED
          BY <3>2, <4>1 DEF Due
      <3>3. CASE c = dir' /\ x \in assumed' \ cut'
        <4>1. OwnChange(p, dir, c) /\ x \in Due(dir)
          BY <3>3 DEF OwnStep, OwnChangesAll, Due
        <4>. QED
          BY <4>1
      <3>. QED
        BY <3>1, <3>2, <3>3 DEF Due
    <2>. QED
      BY <2>1, <2>2, <2>3
  <1>11. job'[p].at \in Locked =>
           /\ job'[p].init = init /\ job'[p].k = k /\ job'[p].cand = job[p].cand
           /\ ~Acknowledges(p)
    BY DEF OwnStep, OwnJob, Acknowledges, Locked
  <1>12. OpenedInv'
    <2>. SUFFICES ASSUME job'[p].at \in Locked
                  PROVE  /\ dir'[Target].ino # 0 =>
                              job'[p].init.e \subseteq dir'[Target].e \cup gone'
                         /\ \A c \in expo' : \A x \in Due(c)' :
                              x \in job'[p].init.e \/ Elsewhere(c, Own(p), x)'
      BY <1>1 DEF OpenedInv
    <2>1. Own(p)' = Own(p)
      BY <1>11 DEF Own
    <2>2. \A c \in expo' : \A x \in Due(c)' : x \in init.e \/ Safe(c, Own(p), x)
      BY <1>6, <1>7, <1>11
    <2>. QED
      BY <1>0, <1>4, <1>11, <2>1, <2>2
  <1>13. SpareInv'
    <2>. SUFFICES ASSUME job'[p].at \in Unrenamed, NEW c \in expo', NEW x \in Due(c)'
                  PROVE  Safe(c, {job'[p].k}, x)
      BY <1>0, <1>1 DEF SpareInv, Unrenamed, Locked, Stage
    <2>1. job'[p].k = k /\ ~Acknowledges(p)
      BY <1>11 DEF Unrenamed, Locked, Stage
    <2>2. PICK d \in expo : x \in Due(d) /\ OwnChange(p, d, c)
      BY <1>6, <2>1
    <2>3. job[p].at \in Unrenamed /\ \A n \in Name \ {k} : c[n] = d[n]
      BY <2>2 DEF OwnChange
    <2>4. x \in copies \cup gone \/ \E n \in Name \ {k} : x \in d[n].e
      BY <2>2, <2>3 DEF SurvivalInv, SpareInv, Elsewhere
    <2>. QED
      BY <1>5, <2>1, <2>3, <2>4
  <1>14. FlushedInv'
    BY <1>1 DEF FlushedInv, OwnStep, Locked, Stage
  <1>15. DropInv'
    <2>. SUFFICES ASSUME job'[p].at = "drop"
                  PROVE  job'[p].cand.e \subseteq dir'[Target].e \cup gone'
      BY <1>1 DEF DropInv, Locked, Stage
    <2>. QED
      BY <1>11 DEF OwnStep, Locked, Stage
  <1>16. AnsweredInv'
    <2>. SUFFICES ASSUME NEW q \in Proc, job'[q].at = "unknown", job'[p].at \in Locked,
                         SameBytes(dir'[Target], job'[q].cand)
                  PROVE  job'[p].init.s = job'[q].cand.s
      BY <1>1 DEF AnsweredInv, SameBytes
    <2>1. q # p
      BY DEF Locked
    <2>2. job'[q] = job[q] /\ job'[p].init = init /\ job[p].at \in Locked
      BY <1>11, <2>1 DEF OwnStep, OwnJob
    <2>3. dir'[Target].s = job[q].cand.s /\ dir'[Target].ino # 0
      BY <2>2 DEF SameBytes
    <2>4. CASE dir'[Target] = dir[Target]
      BY <2>2, <2>4 DEF SurvivalInv, AnsweredInv
    <2>5. job[p].cand.s # job[q].cand.s
      <3>1. job[p].at # "idle" /\ job[q].at # "idle"
        BY <2>2 DEF Locked
      <3>. QED
        BY <2>1, <3>1 DEF CommitInv, StampInv
    <2>. QED
      BY <2>2, <2>3, <2>4, <2>5 DEF OwnStep
  <1>. QED
    BY <1>9, <1>10, <1>12, <1>13, <1>14, <1>15, <1>16 DEF SurvivalInv

-----------------------------------------------------------------------------
(* The step that opens a transaction, and a power loss. *)

LEMMA BeginKeeps ==
    ASSUME CommitInv, CommitInv', StampsInv, InodesInv, NamesInv, NamesInv', SurvivalInv,
           NEW p \in Proc, BeginWrite(p)
    PROVE  SurvivalInv'
  <1>. DEFINE clean == [n \in Name |->
                          IF n \in HardLinks(dir) THEN NoFile ELSE dir[n]]
  <1>. TypeOK /\ TypeOK' /\ RunType /\ Target \in Name /\ dir \in expo /\ dir' \in expo'
    BY TypeParts, ConstantTypes DEF CommitInv, TypeOK
  <1>1. /\ job[p].at = "commit" /\ dir[Target].ino # 0 /\ LockFree
        /\ dir' = clean /\ expo' = IF HardLinks(dir) = {} THEN expo ELSE {clean}
        /\ copies' = copies /\ gone' = gone /\ acked' = acked
        /\ assumed' = assumed /\ cut' = cut
    BY DEF BeginWrite, Conflict, BeforePublish, Quiet, others, unsure
  <1>2. \A q \in Proc : job[q].at \notin Locked
    BY <1>1, LocalAssumption DEF LockFree, RunType
  <1>3. \A n \in HardLinks(dir) : dir[n] = dir[Target]
    BY DEF HardLinks, InodesInv, OnDisk
  <1>4. dir'[Target] = dir[Target]
    BY <1>1 DEF HardLinks
  <1>5. ASSUME NEW c \in expo', NEW x \in Due(c)'
        PROVE  \E d \in expo : /\ x \in Due(d) /\ c[Target] = d[Target]
                              /\ \A n \in Name : c[n] # d[n] =>
                                   d[n] = dir[Target] /\ d[Target] = dir[Target]
    <2>1. CASE c = clean
      <3>1. clean[Target] = dir[Target]
        BY DEF HardLinks
      <3>2. \A n \in Name : clean[n] # dir[n] => dir[n] = dir[Target]
        BY <1>3
      <3>3. x \in Due(dir)
        BY <1>1, <2>1 DEF Due
      <3>. QED
        BY <2>1, <3>1, <3>2, <3>3
    <2>2. CASE c # clean
      <3>1. c \in expo /\ x \in acked
        BY <1>1, <2>2 DEF Due
      <3>. QED
        BY <3>1 DEF Due
    <2>. QED
      BY <2>1, <2>2
  <1>6. ASSUME NEW c \in expo', NEW x \in Due(c)'
        PROVE  x \in copies \cup gone \/ \E n \in Name : x \in c[n].e
    <2>1. PICK d \in expo : /\ x \in Due(d) /\ c[Target] = d[Target]
                            /\ \A n \in Name : c[n] # d[n] =>
                                 d[n] = dir[Target] /\ d[Target] = dir[Target]
      BY <1>5
    <2>2. x \in copies \cup gone \/ \E n \in Name : x \in d[n].e
      BY <2>1 DEF SurvivalInv, ReadableInv, Elsewhere
    <2>. QED
      BY <2>1, <2>2
  <1>7. ASSUME NEW c \in expo', NEW x \in Due(c)'
        PROVE  x \in dir[Target].e \/ x \in copies \cup gone
                \/ \E n \in Name \ {Target} : x \in c[n].e
    <2>1. PICK d \in expo : /\ x \in Due(d)
                            /\ \A n \in Name : c[n] # d[n] =>
                                 d[n] = dir[Target] /\ d[Target] = dir[Target]
      BY <1>5
    <2>2. x \in dir[Target].e \/ x \in copies \cup gone
            \/ \E n \in Name \ {Target} : x \in d[n].e
      BY <1>1, <2>1 DEF SurvivalInv, VisibleInv, Elsewhere
    <2>. QED
      BY <2>1, <2>2
  <1>8. ReadableInv'
    BY <1>1, <1>6 DEF ReadableInv, Elsewhere
  <1>9. VisibleInv'
    BY <1>1, <1>4, <1>7 DEF VisibleInv, Elsewhere
  <1>10. ASSUME NEW q \in Proc, job'[q].at \in Locked
         PROVE  /\ q = p /\ job'[p].at = "backup" /\ job'[p].init = dir[Target]
                /\ job'[p].k = job[p].k /\ job[p].k \in Save
    <2>1. JobsStep
      BY StepOfJobs DEF Next
    <2>2. Moved(q)
      <3>1. job'[q] # job[q] /\ job'[q] # NoJob /\ ~Begun(q)
        BY <1>2, <1>10 DEF Begun, NoJob, Locked
      <3>. QED
        BY <2>1, <3>1 DEF JobsStep
    <2>3. /\ job[q].at = "commit" /\ job'[q].at = "backup" /\ job'[q].init = dir[Target]
          /\ job'[q].k = job[q].k
      BY <1>2, <1>10, <2>2 DEF Moved
    <2>4. q = p
      <3>1. \E i : job' = [job EXCEPT ![p] = i]
        BY DEF BeginWrite, Conflict, Goto, BeforePublish, Fail
      <3>. QED
        BY <2>3, <3>1 DEF RunType
    <2>5. job[p].k \in Save
      BY <1>1, LocalAssumption DEF CommitInv, StampInv, Numbered, TypeOK, Save
    <2>. QED
      BY <2>3, <2>4, <2>5
  <1>11. ASSUME job'[p].at \in Locked, NEW c \in expo'
         PROVE  c[job[p].k].e = {} /\ c[RollbackName(job[p].k)].e = {}
    <2>1. job'[p].at = "backup" /\ job'[p].k = job[p].k
      BY <1>10, <1>11
    <2>2. c[job'[p].k] = NoFile /\ c[RollbackName(job'[p].k)] = NoFile
      BY <2>1 DEF NamesInv, Locked, Stage
    <2>. QED
      BY <2>1, <2>2 DEF NoFile
  <1>12. OpenedInv'
    <2>. SUFFICES ASSUME job'[p].at \in Locked
                  PROVE  /\ dir'[Target].ino # 0 =>
                              job'[p].init.e \subseteq dir'[Target].e \cup gone'
                         /\ \A c \in expo' : \A x \in Due(c)' :
                              x \in job'[p].init.e \/ Elsewhere(c, Own(p), x)'
      BY <1>10 DEF OpenedInv
    <2>1. Own(p)' = {Target, job[p].k, RollbackName(job[p].k)} /\ job'[p].init = dir[Target]
      BY <1>10 DEF Own
    <2>2. ASSUME NEW c \in expo', NEW x \in Due(c)'
          PROVE  x \in dir[Target].e \/ x \in copies \cup gone
                   \/ \E n \in Name \ {Target, job[p].k, RollbackName(job[p].k)} : x \in c[n].e
      BY <1>7, <1>11
    <2>. QED
      BY <1>1, <1>4, <2>1, <2>2 DEF Elsewhere
  <1>13. SpareInv'
    <2>. SUFFICES ASSUME job'[p].at \in Locked, NEW c \in expo', NEW x \in Due(c)'
                  PROVE  x \in copies \cup gone \/ \E n \in Name \ {job'[p].k} : x \in c[n].e
      BY <1>1, <1>10 DEF SpareInv, Elsewhere, Unrenamed, Locked, Stage
    <2>. QED
      BY <1>6, <1>10, <1>11
  <1>14. FlushedInv'
    BY <1>10 DEF FlushedInv, Locked, Stage
  <1>15. DropInv'
    BY <1>10 DEF DropInv, Locked, Stage
  <1>16. AnsweredInv'
    <2>. SUFFICES ASSUME NEW q \in Proc, NEW r \in Proc, job'[q].at = "unknown",
                         job'[r].at \in Locked, SameBytes(dir'[Target], job'[q].cand)
                  PROVE  job'[r].init.s = job'[q].cand.s
      BY DEF AnsweredInv, SameBytes
    <2>1. dir'[Target].s = job'[q].cand.s
      BY DEF SameBytes
    <2>. QED
      BY <1>4, <1>10, <2>1
  <1>. QED
    BY <1>8, <1>9, <1>12, <1>13, <1>14, <1>15, <1>16 DEF SurvivalInv

LEMMA PowerLossKeeps ==
    ASSUME SurvivalInv, PowerLoss, job' \in [Proc -> Job]
    PROVE  SurvivalInv'
  <1>1. /\ dir' \in expo /\ expo' = {dir'} /\ copies' = copies /\ gone' = gone /\ acked' = acked
        /\ assumed' = assumed /\ cut' = cut \cup (assumed \ Readable(dir'))
    BY DEF PowerLoss, Die, others
  <1>2. \A p \in Proc : /\ job'[p].at \notin Locked \cup Unrenamed
                        /\ job'[p].at \notin {"readback", "drop", "recheck", "unknown"}
    BY DEF PowerLoss, Die, NoJob, Locked, Unrenamed
  <1>3. ReadableInv'
    <2>. SUFFICES ASSUME NEW x \in acked' \cup (assumed' \ cut')
                  PROVE  x \in copies \cup gone \/ \E n \in Name \ {} : x \in dir'[n].e
      BY <1>1 DEF ReadableInv, Elsewhere, Due
    <2>1. CASE x \in acked
      BY <1>1, <2>1 DEF SurvivalInv, ReadableInv, Elsewhere, Due
    <2>2. CASE x \in assumed' \ cut'
      BY <1>1, <2>2 DEF Readable
    <2>. QED
      BY <1>1, <2>1, <2>2
  <1>4. VisibleInv'
    BY <1>1, <1>3 DEF ReadableInv, VisibleInv, Elsewhere
  <1>5. OpenedInv' /\ SpareInv'
    BY <1>2 DEF OpenedInv, SpareInv
  <1>6. FlushedInv' /\ DropInv' /\ AnsweredInv'
    BY <1>2 DEF FlushedInv, DropInv, AnsweredInv
  <1>. QED
    BY <1>3, <1>4, <1>5, <1>6 DEF SurvivalInv

-----------------------------------------------------------------------------
(* Which steps are which. *)

LEMMA OwnJobs ==
    ASSUME TypeOK, NEW p \in Proc, job[p].at \in Locked
    PROVE  /\ \A stage \in Stage : Goto(p, stage) => OwnJob(p) /\ job'[p].at = stage
           /\ Fail(p) => OwnJob(p) /\ job'[p].at = "idle"
           /\ \A why : job' = [job EXCEPT ![p].at = "reconcile", ![p].why = why] =>
                         OwnJob(p) /\ job'[p].at = "reconcile"
  <1>. RunType
    BY TypeParts
  <1>1. ASSUME NEW stage \in Stage, Goto(p, stage) PROVE OwnJob(p) /\ job'[p].at = stage
    BY <1>1, GotoMoves DEF Moves, OwnJob
  <1>2. ASSUME Fail(p) PROVE OwnJob(p) /\ job'[p].at = "idle"
    BY <1>2, FailEnds DEF Ends, OwnJob, NoJob, Locked
  <1>3. ASSUME NEW why, job' = [job EXCEPT ![p].at = "reconcile", ![p].why = why]
        PROVE  OwnJob(p) /\ job'[p].at = "reconcile"
    BY <1>3 DEF RunType, Job, OwnJob
  <1>. QED
    BY <1>1, <1>2, <1>3

\* How a directory may change.
LEMMA OwnChanges ==
    ASSUME CommitInv, NEW p \in Proc, job[p].at \in Locked, NEW d \in expo, NEW c,
           job'[p].at \in Unrenamed => job[p].at \in Unrenamed
    PROVE  /\ c = d => OwnChange(p, d, c)
           /\ \A f \in File :
                c = Put(d, job[p].k, f) /\ (d[job[p].k] = NoFile \/ job[p].at \in Unrenamed) =>
                  OwnChange(p, d, c)
           /\ job'[p].at \notin Unrenamed /\ job[p].init.e \subseteq d[Target].e \cup gone
                /\ (\A n \in Name \ {job[p].k, RollbackName(job[p].k)} : c[n] = d[n]) =>
                  OwnChange(p, d, c)
           /\ \A f \in File, n \in {job[p].k, RollbackName(job[p].k)} :
                (job'[p].at \notin Unrenamed /\ c = Replaced(d, f, n)
                   /\ job[p].init.e \subseteq f.e) => OwnChange(p, d, c)
           /\ \A n \in {job[p].k, RollbackName(job[p].k)} :
                (job'[p].at \notin Unrenamed /\ c = Replaced(d, NoFile, n)
                   /\ platform # "unix"
                   /\ (d[n] = NoFile \/ (n = job[p].k /\ job[p].at \in Unrenamed)))
                  => OwnChange(p, d, c)
  <1>. DEFINE k == job[p].k
              R == RollbackName(k)
              init == job[p].init
  <1>1. /\ k \in Name \ {Target} /\ R \in Name \ {Target, k}
        /\ Target \in Name /\ d \in Directory /\ NoFile \in File
        /\ Own(p) = {Target, k, R}
    BY OwnNames, ConstantTypes DEF CommitInv, TypeOK, Own
  <1>2. \A n \in Name : c[n] = d[n] => Holds(c, d[n].e)
    BY DEF Holds
  <1>3. \A n \in Name, m \in Name : c[m] = d[n] => Holds(c, d[n].e)
    BY DEF Holds
  <1>4. NoFile.e = {} /\ Holds(c, {})
    BY <1>1 DEF NoFile, Holds
  <1>5. ASSUME c = d PROVE OwnChange(p, d, c)
    BY <1>2, <1>5 DEF OwnChange
  <1>6. ASSUME NEW f \in File, c = Put(d, k, f), d[k] = NoFile \/ job[p].at \in Unrenamed
        PROVE  OwnChange(p, d, c)
    <2>1. \A n \in Name \ {k} : c[n] = d[n]
      <3>1. d \in Directory /\ k \in Name
        BY <1>1
      <3>2. \A n \in Name \ {k} : Put(d, k, f)[n] = d[n]
        BY <3>1, PutType
      <3>. QED
        BY <1>6, <3>2
    <2>2. d[k] = NoFile => \A n \in Name : Holds(c, d[n].e)
      <3>1. d[k] = NoFile => Holds(c, d[k].e)
        BY <1>4
      <3>2. \A n \in Name \ {k} : Holds(c, d[n].e)
        BY <1>2, <2>1
      <3>. QED
        BY <3>1, <3>2
    <2>3. \A n \in Name \ {k} : Holds(c, d[n].e)
      BY <1>2, <2>1
    <2>. QED
      BY <1>1, <1>6, <2>1, <2>2, <2>3 DEF OwnChange
  <1>7. ASSUME job'[p].at \notin Unrenamed, init.e \subseteq d[Target].e \cup gone,
               \A n \in Name \ {k, R} : c[n] = d[n]
        PROVE  OwnChange(p, d, c)
    BY <1>1, <1>7 DEF OwnChange
  <1>8. ASSUME NEW f \in File, NEW n \in {k, R}, c = Replaced(d, f, n)
        PROVE  /\ c[Target] = f /\ \A m \in Name \ Own(p) : c[m] = d[m]
               /\ platform # "unix" =>
                    \A m \in Name : m = n \/ Holds(c, d[m].e)
    <2>1. /\ c[Target] = f
          /\ c[n] = IF platform = "unix" THEN d[n] ELSE d[Target]
          /\ \A m \in Name \ {Target, n} : c[m] = d[m]
      BY <1>1, <1>8, ReplacedNames
    <2>. QED
      BY <1>1, <1>3, <2>1
  <1>9. ASSUME NEW f \in File, NEW n \in {k, R}, job'[p].at \notin Unrenamed,
               c = Replaced(d, f, n), init.e \subseteq f.e
        PROVE  OwnChange(p, d, c)
    BY <1>8, <1>9 DEF OwnChange
  <1>10. ASSUME NEW n \in {k, R}, job'[p].at \notin Unrenamed, c = Replaced(d, NoFile, n),
                platform # "unix", d[n] = NoFile \/ (n = k /\ job[p].at \in Unrenamed)
         PROVE  OwnChange(p, d, c)
    <2>1. /\ \A m \in Name \ Own(p) : c[m] = d[m]
          /\ \A m \in Name : m = n \/ Holds(c, d[m].e)
      BY <1>1, <1>8, <1>10
    <2>2. CASE d[n] = NoFile
      BY <1>4, <1>10, <2>1, <2>2 DEF OwnChange
    <2>3. CASE n = k /\ job[p].at \in Unrenamed
      BY <1>10, <2>1, <2>3 DEF OwnChange
    <2>. QED
      BY <1>10, <2>2, <2>3
  <1>. QED
    BY <1>5, <1>6, <1>7, <1>9, <1>10

LEMMA StepOfOwn ==
    ASSUME CommitInv, CandInv, StampsInv, NamesInv, FlushedInv, DropInv,
           NEW p \in Proc, job[p].at \in Locked,
           \/ PublishBackup(p) \/ FlushBackup(p) \/ Verify(p) \/ Rename(p) \/ Settle(p)
           \/ FinalReadback(p) \/ Reconcile(p) \/ DropOriginal(p) \/ Recheck(p)
           \/ Rollback(p) \/ Restore(p) \/ Restored(p) \/ Recover(p)
    PROVE  OwnStep(p)
  <1>. DEFINE k == job[p].k
              R == RollbackName(k)
              init == job[p].init
              cand == job[p].cand
  <1>. /\ TypeOK /\ Target \in Name /\ NoFile \in File /\ init \in File /\ cand \in File
       /\ dir \in expo /\ dir \in Directory /\ dir[Target] \in File
       /\ \A d \in expo : d \in Directory /\ d[Target] \in File
    BY FileType, ConstantTypes DEF CommitInv, TypeOK
  <1>. k \in Name \ {Target} /\ R \in Name \ {Target, k} /\ k \in 0 .. MaxSaves
    BY OwnNames
  <1>0. ASSUME NEW d \in expo, NEW f \in File, NEW n \in Name \ {k}
        PROVE  Put(d, k, f)[n] = d[n]
    <2>1. d \in Directory /\ k \in Name
      OBVIOUS
    <2>2. DOMAIN d = Name
      BY <2>1 DEF Directory
    <2>. QED
      BY <2>1, <2>2 DEF Put
  <1>. init.e \subseteq cand.e
    BY DEF CandInv
  <1>. \A stage \in Stage : Goto(p, stage) => OwnJob(p) /\ job'[p].at = stage
    BY OwnJobs
  <1>. Fail(p) => OwnJob(p) /\ job'[p].at = "idle"
    BY OwnJobs
  <1>. \A why : job' = [job EXCEPT ![p].at = "reconcile", ![p].why = why] =>
                  OwnJob(p) /\ job'[p].at = "reconcile"
    BY OwnJobs
  <1>. /\ {"backup", "flush", "verify", "rename", "settle", "readback", "reconcile",
            "drop", "recheck", "rollback", "restore", "restored", "recover"} = Locked
       /\ {"copy", "unknown", "idle", "commit"} = Stage \ Locked
       /\ Locked \subseteq Stage
    BY DEF Locked, Stage
  <1>. DEFINE Vault == \/ dir'[Target] = dir[Target]
                       \/ dir'[Target].ino = 0
                       \/ /\ init.e \subseteq dir'[Target].e
                          /\ dir'[Target].s \in {init.s, cand.s}
  <1>1. ASSUME Quiet, acked' = acked, OwnJob(p), Vault,
               job'[p].at \notin {"readback", "drop", "recheck"}
                 \/ \A c \in expo' : c[Target] = dir'[Target],
               job'[p].at # "drop" \/ cand.e \subseteq dir'[Target].e,
               OwnChangesAll(p)
        PROVE  OwnStep(p)
    BY <1>1 DEF OwnStep, Quiet, others, unsure
  <1>2. ASSUME UNCHANGED disk \/ Flush, Quiet, acked' = acked, OwnJob(p),
               job'[p].at \in Unrenamed => job[p].at \in Unrenamed,
               job'[p].at \notin {"readback", "drop", "recheck"} \/ Flush
                 \/ \A c \in expo : c[Target] = dir[Target],
               job'[p].at # "drop" \/ cand.e \subseteq dir[Target].e
        PROVE  OwnStep(p)
    <2>1. dir' = dir /\ expo' \subseteq expo /\ (Flush => expo' = {dir})
      BY <1>2 DEF Flush, disk
    <2>2. \A d \in expo : OwnChange(p, d, d)
      BY <1>2, OwnChanges
    <2>3. OwnChangesAll(p)
      BY <2>1, <2>2 DEF OwnChangesAll
    <2>. QED
      BY <1>1, <1>2, <2>1, <2>3
  <1>3. ASSUME Discard(k) PROVE dir'[Target] = dir[Target]
    BY <1>0, <1>3 DEF Discard, SetEntry, SetEntryAndFlush, disk
  <1>4. ASSUME Discard(k)
        PROVE  /\ \A c \in expo' : \E d \in expo : c = d \/ c = Put(d, k, NoFile)
               /\ dir' = dir \/ dir' = Put(dir, k, NoFile)
    BY <1>4 DEF Discard, SetEntry, SetEntryAndFlush, disk
  <1>5. ASSUME Discard(k), job[p].at \in Unrenamed, Quiet, acked' = acked, OwnJob(p),
               job'[p].at \notin {"readback", "drop", "recheck"}
        PROVE  OwnStep(p)
    <2>1. \A d \in expo : OwnChange(p, d, d) /\ OwnChange(p, d, Put(d, k, NoFile))
      BY <1>5, OwnChanges
    <2>2. OwnChangesAll(p)
      BY <1>4, <1>5, <2>1 DEF OwnChangesAll
    <2>. QED
      BY <1>1, <1>3, <1>5, <2>2
  <1>6. CASE PublishBackup(p)
    <2>. DEFINE copied == [dir[Target] EXCEPT !.ino = CopyInode(k)]
    <2>1. job[p].at = "backup" /\ job[p].at \in Unrenamed /\ Quiet
      BY <1>6 DEF PublishBackup, Unrenamed
    <2>2. copied \in File
      BY ConstantTypes DEF File
    <2>3. ASSUME NEW f \in File, SetEntry(k, f), Continue(p, "flush") PROVE OwnStep(p)
      <3>1. OwnJob(p) /\ job'[p].at = "flush" /\ acked' = acked
        BY <2>3 DEF Continue
      <3>2. OwnChangesAll(p)
        <4>1. \A d \in expo : OwnChange(p, d, d) /\ OwnChange(p, d, Put(d, k, f))
          BY <2>1, OwnChanges
        <4>. QED
          BY <2>3, <4>1 DEF OwnChangesAll, SetEntry
      <3>3. dir'[Target] = dir[Target]
        BY <1>0, <2>3 DEF SetEntry
      <3>. QED
        BY <1>1, <2>1, <3>1, <3>2, <3>3
    <2>4. CASE BeforePublish(p) /\ UNCHANGED disk
      BY <1>2, <2>1, <2>4 DEF BeforePublish, Unrenamed
    <2>. QED
      BY <1>6, <2>2, <2>3, <2>4 DEF PublishBackup
  <1>7. CASE FlushBackup(p)
    <2>1. job[p].at \in Unrenamed /\ Quiet
      BY <1>7 DEF FlushBackup, Unrenamed
    <2>2. CASE Flush /\ Continue(p, "verify")
      BY <1>2, <2>1, <2>2 DEF Continue
    <2>3. CASE Discard(k) /\ BeforePublish(p)
      BY <1>5, <2>1, <2>3 DEF BeforePublish
    <2>. QED
      BY <1>7, <2>2, <2>3 DEF FlushBackup
  <1>8. CASE Verify(p)
    <2>1. job[p].at \in Unrenamed /\ Quiet
      BY <1>8 DEF Verify, Unrenamed
    <2>2. CASE UNCHANGED disk /\ Continue(p, "rename")
      BY <1>2, <2>1, <2>2 DEF Continue
    <2>3. CASE Discard(k) /\ (BeforePublish(p) \/ Conflict(p))
      BY <1>5, <2>1, <2>3 DEF BeforePublish, Conflict
    <2>. QED
      BY <1>8, <2>2, <2>3 DEF Verify, disk
  <1>9. CASE Rename(p)
    <2>1. job[p].at \in Unrenamed /\ Quiet
      BY <1>9 DEF Rename, Unrenamed
    <2>2. ASSUME NEW f \in File, NEW n \in {k, R}, Replace(f, n) PROVE dir'[Target] = f
      BY <2>2, ReplacedNames DEF Replace
    <2>3. CASE Replace(cand, k) /\ Continue(p, "settle")
      <3>1. OwnJob(p) /\ job'[p].at = "settle" /\ acked' = acked
        BY <2>3 DEF Continue
      <3>2. OwnChangesAll(p)
        <4>1. job'[p].at \notin Unrenamed
          BY <3>1 DEF Unrenamed
        <4>2. \A d \in expo : OwnChange(p, d, d) /\ OwnChange(p, d, Replaced(d, cand, k))
          BY <4>1, OwnChanges
        <4>. QED
          BY <2>3, <4>2 DEF OwnChangesAll, Replace
      <3>. QED
        BY <1>1, <2>1, <2>2, <2>3, <3>1, <3>2
    <2>4. CASE /\ HalfReplace(k) /\ acked' = acked
               /\ job' = [job EXCEPT ![p].at = "reconcile", ![p].why = "publish"]
      <3>1. OwnJob(p) /\ job'[p].at = "reconcile" /\ platform # "unix"
        BY <2>4 DEF HalfReplace
      <3>2. OwnChangesAll(p)
        <4>1. job'[p].at \notin Unrenamed
          BY <3>1 DEF Unrenamed
        <4>2. \A d \in expo : OwnChange(p, d, d) /\ OwnChange(p, d, Replaced(d, NoFile, k))
          BY <2>1, <3>1, <4>1, OwnChanges
        <4>. QED
          BY <2>4, <4>2 DEF OwnChangesAll, HalfReplace, Replace
      <3>3. dir'[Target].ino = 0
        BY <2>2, <2>4 DEF HalfReplace, NoFile
      <3>. QED
        BY <1>1, <2>1, <2>4, <3>1, <3>2, <3>3
    <2>5. CASE Discard(k) /\ BeforePublish(p)
      BY <1>5, <2>1, <2>5 DEF BeforePublish
    <2>. QED
      BY <1>9, <2>3, <2>4, <2>5 DEF Rename
  <1>10. CASE Settle(p)
    <2>1. Quiet /\ job[p].at = "settle"
      BY <1>10 DEF Settle
    <2>2. CASE Flush /\ Continue(p, "readback")
      BY <1>2, <2>1, <2>2 DEF Continue, Unrenamed
    <2>3. CASE /\ job' = [job EXCEPT ![p].at = "reconcile", ![p].why = "publish"]
               /\ UNCHANGED disk /\ acked' = acked
      BY <1>2, <2>1, <2>3 DEF Unrenamed
    <2>. QED
      BY <1>10, <2>2, <2>3 DEF Settle, disk
  <1>11. ASSUME SameBytes(dir[Target], cand) PROVE dir[Target].e = cand.e
    BY <1>11, KnownFiles DEF SameBytes, StampsInv
  <1>12. ASSUME job[p].at \in {"readback", "drop", "recheck"},
                cand.e \subseteq dir[Target].e \cup gone,
                Discard(k) \/ UNCHANGED disk, Quiet, OwnJob(p),
                \/ job'[p].at = "recheck" /\ acked' = acked
                \/ job'[p].at = "idle" /\ acked' = acked \cup cand.e
         PROVE  OwnStep(p)
    <2>1. \A d \in expo : d[Target] = dir[Target]
      BY <1>12 DEF FlushedInv
    <2>2. dir'[Target] = dir[Target]
      BY <1>3, <1>12 DEF disk
    <2>3. /\ \A c \in expo' : \E d \in expo : c = d \/ c = Put(d, k, NoFile)
          /\ dir' = dir \/ dir' = Put(dir, k, NoFile)
      BY <1>4, <1>12 DEF disk
    <2>4. ASSUME NEW d \in expo, NEW c, c = d \/ c = Put(d, k, NoFile)
          PROVE  c[Target] = dir[Target] /\ OwnChange(p, d, c)
      <3>1. \A n \in Name \ {k} : c[n] = d[n]
        BY <1>0, <2>4
      <3>2. c[Target] = d[Target] /\ d[Target] = dir[Target]
        BY <2>1, <3>1
      <3>3. job'[p].at \notin Unrenamed /\ init.e \subseteq d[Target].e \cup gone
        BY <1>12, <3>2 DEF Unrenamed
      <3>4. OwnChange(p, d, c)
        BY <3>1, <3>3, OwnChanges
      <3>. QED
        BY <3>2, <3>4
    <2>5. (\A c \in expo' : c[Target] = dir[Target]) /\ OwnChangesAll(p)
      BY <2>3, <2>4 DEF OwnChangesAll
    <2>6. acked' = acked \/ Acknowledges(p)
      BY <1>12, <2>5 DEF Acknowledges
    <2>. QED
      BY <1>12, <2>2, <2>5, <2>6 DEF OwnStep, Quiet, others, unsure
  <1>13. CASE FinalReadback(p)
    <2>1. Quiet /\ job[p].at = "readback" /\ UNCHANGED disk
      BY <1>13 DEF FinalReadback
    <2>2. CASE SameBytes(dir[Target], cand) /\ Fail(p) /\ acked' = acked \cup cand.e
      BY <1>11, <1>12, <2>1, <2>2
    <2>3. CASE /\ job' = [job EXCEPT ![p].at = "reconcile", ![p].why = "readback"]
               /\ acked' = acked
      BY <1>2, <2>1, <2>3 DEF Unrenamed
    <2>4. CASE SameBytes(dir[Target], cand) /\ Goto(p, "drop") /\ acked' = acked
      <3>1. OwnJob(p) /\ job'[p].at = "drop" /\ cand.e \subseteq dir[Target].e
        BY <1>11, <2>4
      <3>2. \A d \in expo : d[Target] = dir[Target]
        BY <2>1 DEF FlushedInv
      <3>. QED
        BY <1>2, <2>1, <2>4, <3>1, <3>2 DEF Unrenamed
    <2>. QED
      BY <1>13, <2>2, <2>3, <2>4 DEF FinalReadback, Saved
  <1>14. CASE Reconcile(p)
    <2>1. Quiet /\ job[p].at = "reconcile"
      BY <1>14 DEF Reconcile
    <2>2. CASE /\ SameBytes(dir[Target], cand) /\ Flush /\ acked' = acked
               /\ Goto(p, "drop") \/ Goto(p, "recheck")
      <3>1. OwnJob(p) /\ job'[p].at \in {"drop", "recheck"} /\ cand.e \subseteq dir[Target].e
        BY <1>11, <2>2
      <3>. QED
        BY <1>2, <2>1, <2>2, <3>1 DEF Unrenamed
    <2>3. CASE Continue(p, AfterReconcile(p)) /\ UNCHANGED disk
      BY <1>2, <2>1, <2>3 DEF Continue, AfterReconcile, Unrenamed
    <2>. QED
      BY <1>14, <2>2, <2>3 DEF Reconcile, Continue
  <1>20. CASE DropOriginal(p)
    <2>1. /\ Quiet /\ job[p].at = "drop" /\ Discard(k)
          /\ cand.e \subseteq dir[Target].e \cup gone
      BY <1>20 DEF DropOriginal, DropInv
    <2>2. \/ Fail(p) /\ acked' = acked \cup cand.e
          \/ Goto(p, "recheck") /\ acked' = acked
      BY <1>20 DEF DropOriginal
    <2>3. OwnJob(p) /\ \/ job'[p].at = "recheck" /\ acked' = acked
                       \/ job'[p].at = "idle" /\ acked' = acked \cup cand.e
      BY <2>2
    <2>. QED
      BY <1>12, <2>1, <2>3
  <1>15. CASE Recheck(p)
    <2>1. Quiet /\ job[p].at = "recheck" /\ UNCHANGED disk
      BY <1>15 DEF Recheck
    <2>2. CASE SameBytes(dir[Target], cand) /\ Fail(p) /\ acked' = acked \cup cand.e
      BY <1>11, <1>12, <2>1, <2>2
    <2>3. CASE Continue(p, AfterReconcile(p))
      BY <1>2, <2>1, <2>3 DEF Continue, AfterReconcile, Unrenamed
    <2>. QED
      BY <1>15, <2>2, <2>3 DEF Recheck, Saved
  <1>16. CASE Rollback(p)
    <2>1. Quiet /\ UNCHANGED disk /\ (Continue(p, "restore") \/ Continue(p, "unknown"))
      BY <1>16 DEF Rollback
    <2>. QED
      BY <1>2, <2>1 DEF Continue, Unrenamed
  <1>17. CASE Restore(p)
    <2>. DEFINE previous == [init EXCEPT !.ino = RestoreInode(k)]
    <2>1. Quiet /\ job[p].at = "restore"
      BY <1>17 DEF Restore
    <2>2. previous \in File /\ previous.e = init.e /\ previous.s = init.s
      BY ConstantTypes DEF File
    <2>3. ASSUME NEW f \in File, Replace(f, R) PROVE dir'[Target] = f
      BY <2>3, ReplacedNames DEF Replace
    <2>4. CASE Replace(previous, R) /\ Continue(p, "restored")
      <3>1. OwnJob(p) /\ job'[p].at = "restored" /\ acked' = acked
        BY <2>4 DEF Continue
      <3>2. job'[p].at \notin Unrenamed
        BY <3>1 DEF Unrenamed
      <3>3. \A d \in expo : OwnChange(p, d, d) /\ OwnChange(p, d, Replaced(d, previous, R))
        BY <2>2, <3>2, OwnChanges
      <3>4. OwnChangesAll(p)
        BY <2>4, <3>3 DEF OwnChangesAll, Replace
      <3>. QED
        BY <1>1, <2>1, <2>2, <2>3, <2>4, <3>1, <3>4
    <2>5. CASE HalfReplace(R) /\ Continue(p, "unknown")
      <3>1. OwnJob(p) /\ job'[p].at = "unknown" /\ acked' = acked /\ platform # "unix"
        BY <2>5 DEF Continue, HalfReplace
      <3>2. \A d \in expo : d[R] = NoFile
        BY <2>1 DEF NamesInv
      <3>3. \A d \in expo : OwnChange(p, d, d) /\ OwnChange(p, d, Replaced(d, NoFile, R))
        BY <3>1, <3>2, OwnChanges DEF Unrenamed
      <3>4. OwnChangesAll(p)
        BY <2>5, <3>3 DEF OwnChangesAll, HalfReplace, Replace
      <3>5. dir'[Target].ino = 0
        BY <2>3, <2>5 DEF HalfReplace, NoFile
      <3>. QED
        BY <1>1, <2>1, <3>1, <3>4, <3>5
    <2>6. CASE UNCHANGED disk /\ Continue(p, "unknown")
      BY <1>2, <2>1, <2>6 DEF Continue, Unrenamed
    <2>. QED
      BY <1>17, <2>4, <2>5, <2>6 DEF Restore
  <1>18. CASE Restored(p)
    <2>1. Quiet /\ job[p].at = "restored"
      BY <1>18 DEF Restored
    <2>2. ASSUME NEW c, c \in {dir, Put(dir, k, NoFile), Cleared(dir, k)}
          PROVE  /\ c[Target] = dir[Target]
                 /\ \A n \in Name \ {k, R} : c[n] = dir[n]
      <3>1. /\ Cleared(dir, k)[Target] = dir[Target]
            /\ \A n \in Name \ {k, R} : Cleared(dir, k)[n] = dir[n]
        <4>1. dir \in Directory /\ k \in 0 .. MaxSaves /\ Target \in Name \ {k, R}
          OBVIOUS
        <4>. QED
          BY <4>1, ClearedType
      <3>. QED
        BY <1>0, <2>2, <3>1
    <2>3. ASSUME SameBytes(dir[Target], init) PROVE dir[Target].e = init.e
      BY <2>3, KnownFiles DEF SameBytes, StampsInv
    <2>4. ASSUME SameBytes(dir[Target], init), OwnJob(p), acked' = acked,
                 job'[p].at \in {"idle", "unknown"}, dir' = Cleared(dir, k),
                 expo' \subseteq {dir, Put(dir, k, NoFile), Cleared(dir, k)}
          PROVE  OwnStep(p)
      <3>1. init.e \subseteq dir[Target].e \cup gone /\ job'[p].at \notin Unrenamed
        BY <2>3, <2>4 DEF Unrenamed
      <3>4. \A c \in {dir, Put(dir, k, NoFile), Cleared(dir, k)} : OwnChange(p, dir, c)
        BY <2>2, <3>1, OwnChanges
      <3>2. OwnChangesAll(p)
        BY <2>4, <3>4 DEF OwnChangesAll
      <3>3. dir'[Target] = dir[Target]
        BY <2>2, <2>4
      <3>. QED
        BY <1>1, <2>1, <2>4, <3>2, <3>3
    <2>5. CASE SameBytes(dir[Target], init) /\ ClearSiblings(k) /\ BeforePublish(p)
      BY <2>4, <2>5 DEF ClearSiblings, BeforePublish
    <2>6. CASE (Flush \/ UNCHANGED disk) /\ Continue(p, "unknown")
      BY <1>2, <2>1, <2>6 DEF Continue, Unrenamed
    <2>7. CASE /\ SameBytes(dir[Target], init) /\ Continue(p, "unknown")
               /\ dir' = Cleared(dir, k)
               /\ expo' = {dir, Put(dir, k, NoFile), dir'}
      BY <2>4, <2>7 DEF Continue
    <2>. QED
      BY <1>18, <2>5, <2>6, <2>7 DEF Restored
  <1>19. CASE Recover(p)
    <2>1. Goto(p, "unknown") /\ acked' = acked
      BY <1>19 DEF Recover, Continue
    <2>2. OwnJob(p) /\ job'[p].at = "unknown" /\ job'[p].at \notin Unrenamed
      BY <2>1 DEF Unrenamed
    <2>3. dir' = dir /\ expo' \subseteq expo
      BY <1>19 DEF Recover, disk, Flush
    <2>4. copies \subseteq copies' /\ gone' = gone /\ assumed' = assumed /\ cut' = cut
      BY <1>19 DEF Recover, others, unsure
    <2>5. OwnChangesAll(p)
      <3>1. \A d \in expo : OwnChange(p, d, d)
        BY <2>2, OwnChanges
      <3>. QED
        BY <2>3, <3>1 DEF OwnChangesAll
    <2>. QED
      BY <2>1, <2>2, <2>3, <2>4, <2>5 DEF OwnStep
  <1>. QED
    BY <1>6, <1>7, <1>8, <1>9, <1>10, <1>13, <1>14, <1>15, <1>16, <1>17, <1>18, <1>19, <1>20

LEMMA StepOfOthers ==
    ASSUME CommitInv, InodesInv, StampsInv, AnsweredInv,
           \/ \E p \in Proc :
                \/ Open(p) \/ Unlock(p) \/ Lock(p) \/ BeginSave(p) \/ BeginWriteRefused(p)
                \/ Unknown(p) \/ ConflictCopy(p) \/ Crash(p) \/ \E e \in Edit : EditVault(p, e)
           \/ \E e \in Edit : ForeignReplace(e) \/ \E n \in Name : ForeignInPlace(e, n)
           \/ ForeignDelete
    PROVE  OtherStep
  <1>. TypeOK /\ RunType
    BY TypeParts DEF CommitInv
  <1>. /\ Target \in Name /\ NoFile \in File /\ dir \in expo /\ dir \in Directory
       /\ dir[Target] \in File /\ \A d \in expo : d \in Directory
    BY FileType, ConstantTypes DEF CommitInv, TypeOK
  <1>. DEFINE JobsStay == \A q \in Proc : job'[q].at \in Locked \cup {"unknown"} => job'[q] = job[q]
  <1>1. ASSUME UNCHANGED disk \/ Flush, copies \subseteq copies', gone' = gone,
               acked' \subseteq acked \cup copies', assumed' = assumed, cut' = cut, JobsStay
        PROVE  OtherStep
    <2>1. dir' = dir /\ expo' \subseteq expo
      BY <1>1 DEF disk, Flush
    <2>. QED
      BY <1>1, <2>1 DEF OtherStep, Follows
  <1>2. ASSUME NEW p \in Proc, Fail(p) PROVE JobsStay
    BY <1>2, FailEnds DEF Ends, NoJob, Locked
  <1>3. ASSUME NEW p \in Proc, Open(p) \/ Unlock(p) \/ Lock(p) \/ \E e \in Edit : EditVault(p, e)
        PROVE  OtherStep
    BY <1>1, <1>3 DEF Open, Unlock, Lock, EditVault, Quiet, others, unsure
  <1>4. ASSUME NEW p \in Proc, BeginSave(p) PROVE OtherStep
    <2>. DEFINE cand == [ino |-> count + 1, e |-> sess[p].v, s |-> count + 1]
                new(stage) == [NoJob EXCEPT !.at = stage, !.k = count + 1, !.cand = cand]
    <2>1. PICK stage \in {"copy", "commit"} : job' = [job EXCEPT ![p] = new(stage)]
      BY <1>4, Zenon DEF BeginSave
    <2>2. job'[p].at = stage /\ \A q \in Proc \ {p} : job'[q] = job[q]
      BY <2>1 DEF RunType, NoJob
    <2>3. JobsStay
      BY <2>2 DEF Locked
    <2>4. /\ UNCHANGED disk /\ copies' = copies /\ gone' = gone /\ acked' = acked
          /\ assumed' = assumed /\ cut' = cut
      BY <1>4, Zenon DEF BeginSave, others, unsure
    <2>. QED
      BY <1>1, <2>3, <2>4
  <1>5. ASSUME NEW p \in Proc, BeginWriteRefused(p) PROVE OtherStep
    <2>1. Goto(p, "copy") /\ "copy" \in Stage
      BY <1>5 DEF BeginWriteRefused, Conflict, Stage
    <2>2. JobsStay
      BY <2>1, GotoMoves DEF Moves, Locked
    <2>. QED
      BY <1>1, <1>5, <2>2 DEF BeginWriteRefused, Conflict, Quiet, others, unsure
  <1>6. ASSUME NEW p \in Proc, Unknown(p) PROVE OtherStep
    <2>1. /\ job[p].at = "unknown" /\ Fail(p) /\ dir' = dir /\ expo' = expo /\ copies' = copies
          /\ gone' = gone /\ acked' = acked /\ cut' = cut
      BY <1>6 DEF Unknown, Saved, disk, others
    <2>2. JobsStay
      BY <1>2, <2>1
    <2>3. CASE assumed' = assumed
      BY <1>1, <2>1, <2>2, <2>3 DEF disk
    <2>4. CASE SameBytes(dir[Target], job[p].cand) /\ assumed' = assumed \cup job[p].cand.e
      <3>1. dir[Target].e = job[p].cand.e
        BY <2>4, KnownFiles DEF SameBytes, StampsInv
      <3>2. ASSUME NEW q \in Proc, job'[q].at \in Locked PROVE job[p].cand.e = job[q].init.e
        <4>1. job[q].init.s = job[p].cand.s
          BY <2>1, <2>2, <2>4, <3>2 DEF AnsweredInv
        <4>. QED
          BY <4>1, KnownFiles DEF StampsInv
      <3>. QED
        BY <2>1, <2>2, <2>4, <3>1, <3>2 DEF OtherStep, Follows
    <2>. QED
      BY <1>6, <2>3, <2>4 DEF Unknown
  <1>7. ASSUME NEW p \in Proc, ConflictCopy(p) PROVE OtherStep
    <2>1. JobsStay
      BY <1>2, <1>7 DEF ConflictCopy
    <2>. QED
      BY <1>1, <1>7, <2>1 DEF ConflictCopy, others, unsure, disk
  <1>8. ASSUME NEW p \in Proc, Crash(p) PROVE OtherStep
    <2>1. JobsStay
      BY <1>8 DEF Crash, Die, NoJob, Locked
    <2>. QED
      BY <1>1, <1>8, <2>1 DEF Crash, Die, others
  <1>9. ASSUME NEW e \in Edit, ForeignReplace(e) PROVE OtherStep
    <2>. DEFINE f == [ino |-> count + 1, e |-> dir[Target].e \cup {e}, s |-> count + 1]
    <2>1. /\ dir' = Put(dir, Target, f) /\ expo' = {Put(dir, Target, f)}
          /\ copies' = copies /\ gone' = gone /\ acked' = acked /\ job' = job
          /\ assumed' = assumed /\ cut' = cut /\ dir[Target].ino # 0
      BY <1>9 DEF ForeignReplace, SetEntryAndFlush, unsure
    <2>2. dir'[Target] = f /\ \A n \in Name \ {Target} : dir'[n] = dir[n]
      BY <2>1 DEF Put, Directory
    <2>3. \A n \in Name : dir[n].e \subseteq dir'[n].e
      BY <2>2
    <2>4. dir'[Target].s = count + 1
      BY <2>2
    <2>. QED
      BY <2>1, <2>2, <2>3, <2>4 DEF OtherStep, Follows
  <1>10. ASSUME NEW e \in Edit, NEW n \in Name, ForeignInPlace(e, n) PROVE OtherStep
    <2>. DEFINE i == dir[n].ino
                f == [ino |-> i, e |-> dir[n].e \cup {e}, s |-> count + 1]
    <2>1. /\ dir' = Rewrite(dir, i, f) /\ expo' = {Rewrite(d, i, f) : d \in expo}
          /\ copies' = copies /\ gone' = gone /\ acked' = acked /\ job' = job
          /\ assumed' = assumed /\ cut' = cut /\ i # 0
      BY <1>10 DEF ForeignInPlace, unsure
    <2>2. ASSUME NEW d \in expo, NEW m \in Name
          PROVE  /\ d[m].e \subseteq Rewrite(d, i, f)[m].e
                 /\ Rewrite(d, i, f)[m].ino = d[m].ino
      <3>1. d[m].ino = i => d[m] = dir[n]
        BY DEF InodesInv, OnDisk
      <3>. QED
        BY <3>1 DEF Rewrite
    <2>3. (\A c \in expo' : \E d \in expo : Follows(c, d)) /\ Follows(dir', dir)
      <3>1. \A d \in expo : Follows(Rewrite(d, i, f), d)
        BY <2>2 DEF Follows
      <3>. HIDE DEF f, i
      <3>. QED
        BY <2>1, <3>1
    <2>4. dir'[Target].ino # 0 => dir[Target].ino # 0 /\ dir[Target].e \subseteq dir'[Target].e
      BY <2>1, <2>2
    <2>5. \A d \in expo : d[Target] = dir[Target] => Rewrite(d, i, f)[Target] = dir'[Target]
      BY <2>1 DEF Rewrite
    <2>6. dir'[Target] = dir[Target] \/ dir'[Target].s = count + 1
      <3>1. dir'[Target] = IF dir[Target].ino = i THEN f ELSE dir[Target]
        BY <2>1 DEF Rewrite
      <3>. QED
        BY <3>1
    <2>. QED
      BY <2>1, <2>3, <2>4, <2>5, <2>6 DEF OtherStep
  <1>11. ASSUME ForeignDelete PROVE OtherStep
    <2>1. /\ dir' = Put(dir, Target, NoFile) /\ expo' = {Put(dir, Target, NoFile)}
          /\ copies' = copies /\ gone' = gone \cup dir[Target].e /\ acked' = acked
          /\ job' = job /\ assumed' = assumed /\ cut' = cut
      BY <1>11 DEF ForeignDelete, SetEntryAndFlush, unsure
    <2>2. dir'[Target] = NoFile /\ \A n \in Name \ {Target} : dir'[n] = dir[n]
      BY <2>1 DEF Put, Directory
    <2>3. \A n \in Name : dir[n].e \subseteq dir'[n].e \cup gone'
      BY <2>1, <2>2
    <2>. QED
      BY <2>1, <2>2, <2>3 DEF OtherStep, Follows, NoFile
  <1>. QED
    BY <1>3, <1>4, <1>5, <1>6, <1>7, <1>8, <1>9, <1>10, <1>11

-----------------------------------------------------------------------------
(* What was acknowledged survives. *)

SaveInv ==
    /\ CommitInv /\ StampsInv /\ InodesInv /\ NamesInv /\ CandInv
    /\ SurvivalInv

LEMMA SaveInit == Init => SaveInv
  <1>. SUFFICES ASSUME Init PROVE SaveInv
    OBVIOUS
  <1>1. CommitInv
    BY CommitInit
  <1>2. OnDisk \subseteq {FirstFile, NoFile} /\ Files \subseteq {FirstFile, NoFile}
    BY DEF Init, OnDisk, Files, NoJob, Closed
  <1>3. FirstInode \in Nat /\ FirstInode > 3 * MaxSaves
    BY LocalAssumption DEF FirstInode
  <1>4. \A p \in Proc : /\ job[p].at = "idle" /\ sess[p].st = "closed"
                        /\ job[p].at \notin Locked /\ job[p].at \notin Pre
                        /\ job[p].at \notin Unrenamed
    BY DEF Init, NoJob, Closed, Locked, Pre, Unrenamed
  <1>5. \A f \in {FirstFile, NoFile}, j \in Save :
           f.ino \notin {j, RestoreInode(j), CopyInode(j)}
    <2>1. ASSUME NEW j \in Save
          PROVE  0 \notin {j, RestoreInode(j), CopyInode(j)}
      BY LocalAssumption DEF Save, RestoreInode, CopyInode
    <2>2. ASSUME NEW j \in Save
          PROVE  FirstInode \notin {j, RestoreInode(j), CopyInode(j)}
      BY LocalAssumption DEF Save, RestoreInode, CopyInode, FirstInode
    <2>. QED
      BY <2>1, <2>2 DEF FirstFile, NoFile
  <1>6. InodesInv
    <2>1. FirstFile.ino # 0 /\ NoFile.ino = 0
      BY <1>3, LocalAssumption DEF FirstFile, NoFile
    <2>. QED
      BY <1>2, <1>4, <1>5, <2>1 DEF InodesInv
  <1>7. StampsInv
    <2>1. \A f \in Files : f.s = 0 /\ f.e = {}
      BY <1>2 DEF FirstFile, NoFile
    <2>2. count = 0
      BY DEF Init
    <2>3. \A f \in Files : f.s <= count
      BY <2>1, <2>2
    <2>4. \A f, g \in Files : f.s = g.s => f.e = g.e
      BY <2>1
    <2>. QED
      BY <2>3, <2>4 DEF StampsInv
  <1>8. NamesInv
    <2>1. \A j \in Save : /\ j \in Name \ {Target}
                          /\ RollbackName(j) \in Name \ {Target}
      BY SiblingNames
    <2>. QED
      BY <1>4, <2>1 DEF NamesInv, Init
  <1>9. CandInv
    BY <1>4 DEF CandInv
  <1>10. SurvivalInv
    <2>1. \A p \in Proc : job[p].at \notin {"readback", "drop", "recheck", "unknown"}
      BY <1>4
    <2>2. \A d : Due(d) = {}
      BY DEF Due, Init
    <2>. QED
      BY <1>4, <2>1, <2>2 DEF SurvivalInv, ReadableInv, VisibleInv, OpenedInv, SpareInv,
         FlushedInv, DropInv, AnsweredInv
  <1>. QED
    BY <1>1, <1>6, <1>7, <1>8, <1>9, <1>10 DEF SaveInv

LEMMA SurvivalStep ==
    ASSUME SaveInv, CommitInv', NamesInv', Next
    PROVE  SurvivalInv'
  <1>. /\ CommitInv /\ StampsInv /\ InodesInv /\ NamesInv /\ CandInv /\ SurvivalInv
       /\ TypeOK /\ FlushedInv /\ DropInv /\ AnsweredInv
    BY DEF SaveInv, CommitInv, SurvivalInv
  <1>1. (dir \in expo)' /\ job' \in [Proc -> Job]
    BY DEF CommitInv, TypeOK
  <1>2. ASSUME NEW p \in Proc,
               \/ PublishBackup(p) \/ FlushBackup(p) \/ Verify(p) \/ Rename(p) \/ Settle(p)
               \/ FinalReadback(p) \/ Reconcile(p) \/ DropOriginal(p) \/ Recheck(p)
               \/ Rollback(p) \/ Restore(p) \/ Restored(p) \/ Recover(p)
        PROVE  SurvivalInv'
    <2>1. job[p].at \in Locked
      BY <1>2 DEF PublishBackup, FlushBackup, Verify, Rename, Settle, FinalReadback, Reconcile,
         DropOriginal, Recheck, Rollback, Restore, Restored, Recover, Locked, Stage
    <2>2. OwnStep(p)
      BY <1>2, <2>1, StepOfOwn
    <2>. QED
      BY <1>1, <2>2, OwnKeeps
  <1>3. ASSUME NEW p \in Proc, BeginWrite(p) PROVE SurvivalInv'
    BY <1>3, BeginKeeps
  <1>4. CASE PowerLoss
    BY <1>1, <1>4, PowerLossKeeps
  <1>5. CASE \/ \E p \in Proc :
                  \/ Open(p) \/ Unlock(p) \/ Lock(p) \/ BeginSave(p) \/ BeginWriteRefused(p)
                  \/ Unknown(p) \/ ConflictCopy(p) \/ Crash(p)
                  \/ \E e \in Edit : EditVault(p, e)
             \/ \E e \in Edit : ForeignReplace(e) \/ \E n \in Name : ForeignInPlace(e, n)
             \/ ForeignDelete
    BY <1>5, StepOfOthers, OtherKeeps
  <1>. QED
    BY <1>2, <1>3, <1>4, <1>5 DEF Next

LEMMA SaveStep == SaveInv /\ [Next]_vars => SaveInv'
  <1>. SUFFICES ASSUME SaveInv, [Next]_vars PROVE SaveInv'
    OBVIOUS
  <1>1. CommitInv'
    BY CommitStep DEF SaveInv
  <1>2. CASE Next
    <2>. CommitInv /\ StampsInv /\ InodesInv /\ NamesInv /\ CandInv /\ TypeOK /\ Numbered
      BY DEF SaveInv, CommitInv, StampInv
    <2>1. StampsInv' /\ CandInv'
      BY <1>2, StampsStep, CandStep
    <2>2. InodesInv' /\ NamesInv'
      BY <1>1, <1>2, InodesStep, NamesStep
    <2>3. SurvivalInv'
      BY <1>1, <1>2, <2>2, SurvivalStep
    <2>. QED
      BY <1>1, <2>1, <2>2, <2>3 DEF SaveInv
  <1>3. CASE UNCHANGED vars
    <2>1. /\ dir' = dir /\ expo' = expo /\ copies' = copies /\ gone' = gone /\ acked' = acked
          /\ job' = job /\ sess' = sess /\ count' = count /\ assumed' = assumed /\ cut' = cut
      BY <1>3 DEF vars, disk, others, unsure
    <2>2. OnDisk' = OnDisk /\ Files' = Files
      BY <2>1 DEF OnDisk, Files
    <2>3. StampsInv' /\ InodesInv' /\ NamesInv' /\ CandInv'
      BY <2>1, <2>2 DEF SaveInv, StampsInv, InodesInv, NamesInv, CandInv
    <2>4. SurvivalInv'
      BY <2>1 DEF SaveInv, SurvivalInv, ReadableInv, VisibleInv, OpenedInv, SpareInv,
         FlushedInv, DropInv, AnsweredInv, SameBytes, Due, Elsewhere, Own
    <2>. QED
      BY <1>1, <2>3, <2>4 DEF SaveInv
  <1>. QED
    BY <1>2, <1>3

\* Every edit of a save that was answered "saved" or "conflict copy" once its flush
\* had succeeded is in the vault, in a conflict copy or in a file beside them, now
\* and after a power loss at any moment, until another program deletes the vault
\* that holds it: the backup, the flushes and the removal of the backup come in an
\* order that leaves no moment without a durable copy.  The edits of a save answered
\* "saved" after an unknown outcome are in one of them until a power loss takes them;
\* no later save does.
THEOREM AckedEditsSurvive == Spec => []AckedSurvives
  <1>1. SaveInv => AckedSurvives
    <2>. SUFFICES ASSUME SaveInv PROVE AckedSurvives
      OBVIOUS
    <2>1. \A d \in expo : \A x \in Due(d) : x \in copies \cup gone \/ \E n \in Name : x \in d[n].e
      BY DEF SaveInv, SurvivalInv, ReadableInv, Elsewhere
    <2>2. \A d \in expo : acked \subseteq Readable(d) \cup gone
      BY <2>1 DEF Due, Readable
    <2>3. dir \in expo
      BY DEF SaveInv, CommitInv, TypeOK
    <2>4. \A x \in assumed \ cut : x \in Readable(dir) \cup gone
      BY <2>1, <2>3 DEF Due, Readable
    <2>. QED
      BY <2>2, <2>4 DEF AckedSurvives
  <1>. QED
    BY <1>1, SaveInit, SaveStep, PTL DEF Spec

-----------------------------------------------------------------------------
(* What other programs wrote. *)

\* The edits a save may not lose.
Watched == foreign \ (gone \cup raced)

\* Each is readable ...
SeenInv == \A d \in expo, x \in Watched : Elsewhere(d, {}, x)

\* ... without the backup, as long as the candidate is not renamed ...
AsideInv == \A p \in Proc : job[p].at \in Unrenamed =>
    \A d \in expo, x \in Watched : Elsewhere(d, {job[p].k}, x)

\* ... because the vault is the same after a power loss, and the directory is
\* flushed before the last check.
SettledInv == \A p \in Proc :
    /\ job[p].at = "flush" =>
         \A d \in expo : d[Target] = dir[Target] \/ Put(d, job[p].k, NoFile) \in expo
    /\ job[p].at \in {"verify", "rename"} => expo = {dir}

\* x is in what p opened, or where p changes nothing ...
Untouched(p, x) == x \in job[p].init.e \/ \A d \in expo : Elsewhere(d, Own(p), x)

\* ... or it was written into the replaced file, which is no longer taken for
\* the one p opened ...
InBackup(p, x) == x \in dir[job[p].k].e /\ dir[job[p].k].s # job[p].init.s

\* ... or into the vault, which is no longer taken for what p published.
InVault(p, x) ==
    x \in dir[Target].e /\ dir[Target].s \notin {job[p].init.s, job[p].cand.s}

\* Where an edit is that a transaction must not lose once the last check is past.
KeptAt(p, x) ==
    /\ job[p].at = "rename" =>
         \/ Untouched(p, x)
         \/ platform = "unix" /\ InBackup(p, x)
         \/ platform # "unix" /\ x \in dir[Target].e
    /\ job[p].at = "restore" => Untouched(p, x)
    /\ job[p].at \in {"drop", "restored"} => Untouched(p, x) \/ InVault(p, x)
    /\ job[p].at \in Renamed \ {"restore", "drop", "restored"} =>
         Untouched(p, x) \/ InBackup(p, x) \/ InVault(p, x)

KeptInv == \A p \in Proc, x \in Watched : KeptAt(p, x)

ForeignInv == SeenInv /\ AsideInv /\ SettledInv /\ KeptInv

\* The stages a transaction has to say something about.
LEMMA ForeignStages ==
    /\ Unrenamed \subseteq Locked /\ Renamed \subseteq Locked
    /\ "flush" \in Locked /\ {"verify", "rename"} \subseteq Locked
    /\ Unrenamed \cap Renamed = {} /\ "rename" \in Unrenamed
  BY DEF Unrenamed, Renamed, Locked, Stage

\* The writer lock: there is one transaction.
LEMMA OneTransaction ==
    ASSUME TypeOK, NEW p \in Proc, NEW q \in Proc,
           job[p].at \in Locked, job[q].at \in Locked
    PROVE  p = q
  BY DEF TypeOK

\* A step that neither belongs to a transaction nor changes a file keeps the
\* edits of other programs.
LEMMA QuietKeepsForeign ==
    ASSUME TypeOK, ForeignInv, platform' = platform, dir' = dir, expo' = expo \/ expo' = {dir},
           UNCHANGED others, copies \subseteq copies',
           \A q \in Proc : job'[q].at \in Locked => job'[q] = job[q]
    PROVE  ForeignInv'
  <1>1. /\ expo' \subseteq expo /\ dir \in expo /\ Watched' = Watched
        /\ \A x : x \in copies \cup gone => x \in copies' \cup gone'
    BY DEF TypeOK, others, Watched
  <1>2. \A d, S, x : Elsewhere(d, S, x) => x \in copies' \cup gone' \/ \E n \in Name \ S : x \in d[n].e
    BY <1>1 DEF Elsewhere
  <1>3. SeenInv'
    <2>. SUFFICES ASSUME NEW d \in expo', NEW x \in Watched
                  PROVE  x \in copies' \cup gone' \/ \E n \in Name \ {} : x \in d[n].e
      BY <1>1 DEF SeenInv, Elsewhere
    <2>. QED
      BY <1>1, <1>2 DEF ForeignInv, SeenInv
  <1>4. AsideInv'
    <2>. SUFFICES ASSUME NEW p \in Proc, job'[p].at \in Unrenamed, NEW d \in expo', NEW x \in Watched
                  PROVE  x \in copies' \cup gone' \/ \E n \in Name \ {job'[p].k} : x \in d[n].e
      BY <1>1 DEF AsideInv, Elsewhere
    <2>1. job'[p] = job[p]
      BY ForeignStages
    <2>. QED
      BY <1>1, <1>2, <2>1 DEF ForeignInv, AsideInv
  <1>5. SettledInv'
    <2>. SUFFICES ASSUME NEW p \in Proc
                  PROVE  /\ job'[p].at = "flush" =>
                              \A d \in expo' : \/ d[Target] = dir[Target]
                                               \/ Put(d, job'[p].k, NoFile) \in expo'
                         /\ job'[p].at \in {"verify", "rename"} => expo' = {dir}
      BY DEF SettledInv
    <2>1. CASE job'[p].at \notin Locked
      BY <2>1, ForeignStages
    <2>2. CASE job'[p] = job[p]
      BY <1>1, <2>2 DEF ForeignInv, SettledInv
    <2>. QED
      BY <2>1, <2>2
  <1>6. KeptInv'
    <2>. SUFFICES ASSUME NEW p \in Proc, NEW x \in Watched PROVE KeptAt(p, x)'
      BY <1>1 DEF KeptInv
    <2>1. CASE job'[p].at \notin Locked
      BY <2>1, ForeignStages DEF KeptAt, Renamed
    <2>2. CASE job'[p] = job[p]
      <3>1. KeptAt(p, x)
        BY DEF ForeignInv, KeptInv
      <3>2. Untouched(p, x) => Untouched(p, x)'
        <4>1. Own(p)' = Own(p)
          BY <2>2 DEF Own
        <4>. QED
          BY <1>1, <1>2, <2>2, <4>1 DEF Untouched, Elsewhere
      <3>3. (InBackup(p, x) => InBackup(p, x)') /\ (InVault(p, x) => InVault(p, x)')
        BY <2>2 DEF InBackup, InVault
      <3>. QED
        BY <2>2, <3>1, <3>2, <3>3 DEF KeptAt
    <2>. QED
      BY <2>1, <2>2
  <1>. QED
    BY <1>3, <1>4, <1>5, <1>6 DEF ForeignInv

\* A step of the transaction of p keeps the edits it leaves untouched; the others
\* have to be in a file, and in their place.
LEMMA OwnKeepsForeign ==
    ASSUME TypeOK, CandInv, ForeignInv, NEW p \in Proc, OwnStep(p), UNCHANGED others,
           \A x \in Watched :
             \/ Untouched(p, x)
             \/ /\ \A c \in expo' : x \in copies' \cup gone' \/ \E n \in Name : x \in c[n].e
                /\ KeptAt(p, x)',
           /\ job'[p].at = "flush" =>
                \A c \in expo' : c[Target] = dir'[Target] \/ Put(c, job'[p].k, NoFile) \in expo'
           /\ job'[p].at \in {"verify", "rename"} => expo' = {dir'}
    PROVE  ForeignInv'
  <1>1. \A q \in Proc \ {p} : job'[q].at \notin Locked
    BY DEF OwnStep, OwnJob, TypeOK
  <1>2. Watched' = Watched /\ \A x : x \in copies \cup gone => x \in copies' \cup gone'
    BY DEF Watched, others, OwnStep
  <1>3. Target \in Name
    BY ConstantTypes
  <1>4. ASSUME NEW c \in expo', NEW x \in Watched, Untouched(p, x)
        PROVE  \/ x \in job[p].init.e \/ x \in copies' \cup gone'
               \/ \E n \in Name \ Own(p) : x \in c[n].e
    <2>1. PICK d \in expo : \A n \in Name \ Own(p) : c[n] = d[n]
      BY DEF OwnStep, OwnChangesAll, OwnChange
    <2>2. x \in job[p].init.e \/ Elsewhere(d, Own(p), x)
      BY <1>4 DEF Untouched
    <2>. QED
      BY <1>2, <2>1, <2>2 DEF Elsewhere
  <1>5. SeenInv'
    <2>. SUFFICES ASSUME NEW c \in expo', NEW x \in Watched
                  PROVE  x \in copies' \cup gone' \/ \E n \in Name : x \in c[n].e
      BY <1>2 DEF SeenInv, Elsewhere
    <2>1. CASE ~Untouched(p, x)
      BY <2>1
    <2>2. CASE Untouched(p, x)
      <3>1. PICK d \in expo :
              \/ \A n \in Name : Holds(c, d[n].e)
              \/ job[p].init.e \subseteq c[Target].e \cup gone
              \/ job[p].at \in Unrenamed /\ \A n \in Name \ {job[p].k} : Holds(c, d[n].e)
        BY DEF OwnStep, OwnChangesAll, OwnChange
      <3>2. CASE \A n \in Name : Holds(c, d[n].e)
        <4>1. x \in copies \cup gone \/ \E n \in Name : x \in d[n].e
          BY DEF ForeignInv, SeenInv, Elsewhere
        <4>. QED
          BY <1>2, <3>2, <4>1 DEF Holds
      <3>3. CASE job[p].init.e \subseteq c[Target].e \cup gone
        BY <1>2, <1>3, <1>4, <2>2, <3>3
      <3>4. CASE job[p].at \in Unrenamed /\ \A n \in Name \ {job[p].k} : Holds(c, d[n].e)
        <4>1. x \in copies \cup gone \/ \E n \in Name \ {job[p].k} : x \in d[n].e
          BY <3>4 DEF ForeignInv, AsideInv, Elsewhere
        <4>. QED
          BY <1>2, <3>4, <4>1 DEF Holds
      <3>. QED
        BY <3>1, <3>2, <3>3, <3>4
    <2>. QED
      BY <2>1, <2>2
  <1>6. job'[p].at \in Locked =>
          job'[p].init = job[p].init /\ job'[p].k = job[p].k /\ Own(p)' = Own(p)
    BY DEF OwnStep, OwnJob, Own
  <1>7. AsideInv'
    <2>. SUFFICES ASSUME job'[p].at \in Unrenamed, NEW c \in expo', NEW x \in Watched
                  PROVE  x \in copies' \cup gone' \/ \E n \in Name \ {job'[p].k} : x \in c[n].e
      BY <1>1, <1>2, ForeignStages DEF AsideInv, Elsewhere
    <2>1. PICK d \in expo : /\ job[p].at \in Unrenamed
                            /\ \A n \in Name \ {job[p].k} : c[n] = d[n]
      BY DEF OwnStep, OwnChangesAll, OwnChange
    <2>2. x \in copies \cup gone \/ \E n \in Name \ {job[p].k} : x \in d[n].e
      BY <2>1 DEF ForeignInv, AsideInv, Elsewhere
    <2>. QED
      BY <1>2, <1>6, <2>1, <2>2, ForeignStages
  <1>8. SettledInv'
    <2>. SUFFICES ASSUME NEW q \in Proc
                  PROVE  /\ job'[q].at = "flush" =>
                              \A c \in expo' : \/ c[Target] = dir'[Target]
                                               \/ Put(c, job'[q].k, NoFile) \in expo'
                         /\ job'[q].at \in {"verify", "rename"} => expo' = {dir'}
      BY DEF SettledInv
    <2>1. CASE q = p
      BY <2>1
    <2>2. CASE job'[q].at \notin Locked
      BY <2>2, ForeignStages
    <2>. QED
      BY <1>1, <2>1, <2>2
  <1>9. KeptInv'
    <2>. SUFFICES ASSUME NEW q \in Proc, NEW x \in Watched PROVE KeptAt(q, x)'
      BY <1>2 DEF KeptInv
    <2>1. CASE job'[q].at \notin Locked
      BY <2>1, ForeignStages DEF KeptAt, Renamed
    <2>2. CASE q = p /\ job'[p].at \in Locked /\ Untouched(p, x)
      <3>1. Untouched(p, x)'
        <4>1. ASSUME NEW c \in expo'
              PROVE  \/ x \in job'[p].init.e \/ x \in copies' \cup gone'
                     \/ \E n \in Name \ Own(p)' : x \in c[n].e
          BY <1>4, <1>6, <2>2
        <4>. QED
          BY <4>1 DEF Untouched, Elsewhere
      <3>. QED
        BY <2>2, <3>1 DEF KeptAt
    <2>3. CASE q = p /\ ~Untouched(p, x)
      BY <2>3
    <2>. QED
      BY <1>1, <2>1, <2>2, <2>3
  <1>. QED
    BY <1>5, <1>7, <1>8, <1>9 DEF ForeignInv

\* Another program replaces the vault.
LEMMA ReplaceKeepsForeign ==
    ASSUME CommitInv, StampsInv, ForeignInv, NEW e \in Edit, ForeignReplace(e)
    PROVE  ForeignInv'
  <1>. DEFINE f == [ino |-> count + 1, e |-> dir[Target].e \cup {e}, s |-> count + 1]
  <1>1. /\ dir' = Put(dir, Target, f) /\ expo' = {dir'}
        /\ copies' = copies /\ gone' = gone /\ job' = job /\ platform' = platform
        /\ foreign' = foreign \cup {e} /\ raced \subseteq raced'
        /\ (\E p \in Proc : (job[p].at = "rename" /\ platform = "unix") \/ job[p].at = "restore") =>
              e \in raced'
    BY DEF ForeignReplace, SetEntryAndFlush
  <1>. TypeOK /\ Target \in Name /\ dir \in expo /\ dir \in Directory
    BY ConstantTypes DEF CommitInv, TypeOK
  <1>2. dir'[Target] = f /\ \A n \in Name \ {Target} : dir'[n] = dir[n]
    BY <1>1 DEF Put, Directory
  <1>3. Watched' \subseteq Watched \cup {e} /\ (e \in Watched' => e \notin raced')
    BY <1>1 DEF Watched
  <1>4. \A n \in Name : dir[n].e \subseteq dir'[n].e
    BY <1>2
  <1>5. ASSUME NEW p \in Proc, job[p].at \in Locked
        PROVE  /\ job[p].k # Target /\ Target \in Own(p) /\ Own(p)' = Own(p)
               /\ f.s \notin {job[p].init.s, job[p].cand.s}
    <2>1. job[p].k # Target
      BY <1>5, OwnNames
    <2>2. job[p].init.s <= count /\ job[p].cand.s <= count
      BY DEF StampsInv, Files
    <2>3. job[p].init.s \in Nat /\ job[p].cand.s \in Nat /\ count \in Nat
      BY FileType, LocalAssumption DEF TypeOK, File
    <2>. QED
      BY <1>1, <2>1, <2>2, <2>3 DEF Own
  <1>6. SeenInv'
    <2>. SUFFICES ASSUME NEW x \in Watched'
                  PROVE  x \in copies \cup gone \/ \E n \in Name : x \in dir'[n].e
      BY <1>1 DEF SeenInv, Elsewhere
    <2>1. CASE x = e
      BY <1>2, <2>1
    <2>2. CASE x \in Watched
      BY <1>4, <2>2 DEF ForeignInv, SeenInv, Elsewhere
    <2>. QED
      BY <1>3, <2>1, <2>2
  <1>7. AsideInv'
    <2>. SUFFICES ASSUME NEW p \in Proc, job[p].at \in Unrenamed, NEW x \in Watched'
                  PROVE  x \in copies \cup gone \/ \E n \in Name \ {job[p].k} : x \in dir'[n].e
      BY <1>1 DEF AsideInv, Elsewhere
    <2>1. CASE x = e
      BY <1>2, <1>5, <2>1, ForeignStages
    <2>2. CASE x \in Watched
      BY <1>4, <2>2 DEF ForeignInv, AsideInv, Elsewhere
    <2>. QED
      BY <1>3, <2>1, <2>2
  <1>8. SettledInv'
    BY <1>1 DEF SettledInv
  <1>9. ASSUME NEW p \in Proc, NEW x \in Watched', job[p].at \in Locked
        PROVE  KeptAt(p, x)'
    <2>1. CASE x = e
      <3>1. InVault(p, x)' /\ x \in dir'[Target].e
        BY <1>1, <1>2, <1>5, <1>9, <2>1 DEF InVault
      <3>2. ~(job[p].at = "rename" /\ platform = "unix") /\ job[p].at # "restore"
        BY <1>1, <1>3, <2>1
      <3>. QED
        BY <1>1, <3>1, <3>2 DEF KeptAt
    <2>2. CASE x \in Watched
      <3>1. KeptAt(p, x)
        BY <2>2 DEF ForeignInv, KeptInv
      <3>2. Untouched(p, x) => Untouched(p, x)'
        <4>1. Untouched(p, x) =>
                \/ x \in job[p].init.e \/ x \in copies \cup gone
                \/ \E n \in Name \ Own(p) : x \in dir'[n].e
          BY <1>2, <1>5, <1>9 DEF Untouched, Elsewhere
        <4>. QED
          BY <1>1, <1>5, <1>9, <4>1 DEF Untouched, Elsewhere
      <3>3. InBackup(p, x) => InBackup(p, x)'
        <4>1. job[p].k \in Name \ {Target}
          BY <1>9, OwnNames
        <4>. QED
          BY <1>1, <1>2, <4>1 DEF InBackup
      <3>4. InVault(p, x) => InVault(p, x)'
        BY <1>1, <1>2, <1>5, <1>9 DEF InVault
      <3>. QED
        BY <1>1, <1>4, <3>1, <3>2, <3>3, <3>4 DEF KeptAt
    <2>. QED
      BY <1>3, <2>1, <2>2
  <1>10. KeptInv'
    BY <1>1, <1>9, ForeignStages DEF KeptInv, KeptAt, Renamed
  <1>. QED
    BY <1>6, <1>7, <1>8, <1>10 DEF ForeignInv

\* Another program writes into the vault, or into the file a save has replaced.
LEMMA InPlaceKeepsForeign ==
    ASSUME CommitInv, StampsInv, InodesInv, NamesInv, ForeignInv,
           NEW e \in Edit, NEW n \in Name, ForeignInPlace(e, n)
    PROVE  ForeignInv'
  <1>. DEFINE i == dir[n].ino
              f == [ino |-> i, e |-> dir[n].e \cup {e}, s |-> count + 1]
  <1>1. /\ dir' = Rewrite(dir, i, f) /\ expo' = {Rewrite(d, i, f) : d \in expo}
        /\ copies' = copies /\ gone' = gone /\ job' = job /\ platform' = platform
        /\ foreign' = foreign \cup {e} /\ raced \subseteq raced' /\ i # 0
        /\ n = Target \/ \E p \in Proc : job[p].k = n /\ job[p].at \in Renamed
    BY DEF ForeignInPlace
  <1>2. \/ e \in raced'
        \/ /\ \A p \in Proc : /\ job[p].at # "restore"
                              /\ job[p].at = "restored" => n = Target
                              /\ job[p].at = "drop" => n # job[p].k
                              /\ job[p].at = "rename" /\ platform = "unix" =>
                                   dir[job[p].k].ino = i
           /\ \A d \in expo : \E m \in Name : d[m].ino = i
    BY DEF ForeignInPlace
  <1>. TypeOK /\ Target \in Name /\ dir \in expo /\ dir \in Directory
       /\ \A d \in expo : d \in Directory
    BY ConstantTypes DEF CommitInv, TypeOK
  <1>3. Watched' \subseteq Watched \cup {e} /\ (e \in Watched' => e \notin raced')
    BY <1>1 DEF Watched
  <1>4. ASSUME NEW d \in expo, NEW m \in Name
        PROVE  /\ d[m].e \subseteq Rewrite(d, i, f)[m].e
               /\ d[m].ino = i => Rewrite(d, i, f)[m] = f
               /\ d[m].ino # i => Rewrite(d, i, f)[m] = d[m]
    <2>1. d[m].ino = i => d[m] = dir[n]
      BY DEF InodesInv, OnDisk
    <2>. QED
      BY <2>1 DEF Rewrite
  <1>5. ASSUME NEW p \in Proc, job[p].at \in Locked
        PROVE  /\ job[p].k \in Name /\ job[p].k # Target /\ Own(p)' = Own(p)
               /\ f.s \notin {job[p].init.s, job[p].cand.s}
    <2>1. job[p].k \in Name /\ job[p].k # Target
      BY <1>5, OwnNames
    <2>2. job[p].init.s <= count /\ job[p].cand.s <= count
      BY DEF StampsInv, Files
    <2>3. job[p].init.s \in Nat /\ job[p].cand.s \in Nat /\ count \in Nat
      BY FileType, LocalAssumption DEF TypeOK, File
    <2>. QED
      BY <1>1, <2>1, <2>2, <2>3 DEF Own
  <1>6. ASSUME NEW d \in expo, NEW S, NEW x, Elsewhere(d, S, x)
        PROVE  x \in copies \cup gone \/ \E m \in Name \ S : x \in Rewrite(d, i, f)[m].e
    BY <1>4, <1>6 DEF Elsewhere
  <1>7. SeenInv'
    <2>. SUFFICES ASSUME NEW d \in expo, NEW x \in Watched'
                  PROVE  x \in copies \cup gone \/ \E m \in Name : x \in Rewrite(d, i, f)[m].e
      BY <1>1 DEF SeenInv, Elsewhere
    <2>1. CASE x = e
      <3>1. PICK m \in Name : d[m].ino = i
        BY <1>2, <1>3, <2>1
      <3>2. Rewrite(d, i, f)[m] = f
        BY <1>4, <3>1
      <3>. QED
        BY <2>1, <3>2
    <2>2. CASE x \in Watched
      BY <1>6, <2>2 DEF ForeignInv, SeenInv
    <2>. QED
      BY <1>3, <2>1, <2>2
  <1>8. ASSUME NEW p \in Proc, job[p].at \in Unrenamed
        PROVE  n = Target
    <2>1. ASSUME NEW q \in Proc, job[q].at \in Renamed PROVE FALSE
      BY <1>8, <2>1, OneTransaction, ForeignStages
    <2>. QED
      BY <1>1, <2>1
  <1>9. AsideInv'
    <2>. SUFFICES ASSUME NEW p \in Proc, job[p].at \in Unrenamed, NEW d \in expo, NEW x \in Watched'
                  PROVE  x \in copies \cup gone
                           \/ \E m \in Name \ {job[p].k} : x \in Rewrite(d, i, f)[m].e
      BY <1>1 DEF AsideInv, Elsewhere
    <2>. DEFINE k == job[p].k
    <2>1. n = Target /\ k \in Name \ {Target} /\ d \in Directory
      BY <1>5, <1>8, ForeignStages
    <2>2. CASE x = e
      <3>1. PICK m \in Name : d[m].ino = i
        BY <1>2, <1>3, <2>2
      <3>2. PICK o \in Name \ {k} : d[o].ino = i
        <4>1. CASE job[p].at = "backup"
          <5>1. d[k] = NoFile
            BY <4>1 DEF NamesInv
          <5>. QED
            BY <1>1, <3>1, <5>1 DEF NoFile
        <4>2. CASE job[p].at = "flush" /\ Put(d, k, NoFile) \in expo
          <5>1. PICK o \in Name : Put(d, k, NoFile)[o].ino = i
            BY <1>2, <1>3, <2>2, <4>2
          <5>2. Put(d, k, NoFile)[o] = IF o = k THEN NoFile ELSE d[o]
            BY <2>1 DEF Put, Directory
          <5>. QED
            BY <1>1, <5>1, <5>2 DEF NoFile
        <4>3. CASE d[Target] = dir[Target]
          BY <2>1, <4>3
        <4>. QED
          BY <4>1, <4>2, <4>3 DEF ForeignInv, SettledInv, Unrenamed
      <3>3. Rewrite(d, i, f)[o] = f
        BY <1>4, <3>2
      <3>. QED
        BY <2>2, <3>2, <3>3
    <2>3. CASE x \in Watched
      BY <1>6, <2>3 DEF ForeignInv, AsideInv
    <2>. QED
      BY <1>3, <2>2, <2>3
  <1>10. SettledInv'
    <2>. SUFFICES ASSUME NEW p \in Proc
                  PROVE  /\ job[p].at = "flush" =>
                              \A d \in expo : \/ Rewrite(d, i, f)[Target] = dir'[Target]
                                              \/ Put(Rewrite(d, i, f), job[p].k, NoFile) \in expo'
                         /\ job[p].at \in {"verify", "rename"} => expo' = {dir'}
      BY <1>1 DEF SettledInv
    <2>1. ASSUME job[p].at = "flush", NEW d \in expo
          PROVE  \/ Rewrite(d, i, f)[Target] = dir'[Target]
                 \/ Put(Rewrite(d, i, f), job[p].k, NoFile) \in expo'
      <3>1. CASE d[Target] = dir[Target]
        BY <1>1, <3>1 DEF Rewrite
      <3>2. CASE Put(d, job[p].k, NoFile) \in expo
        <4>. DEFINE e0 == Put(d, job[p].k, NoFile)
                    lhs == Put(Rewrite(d, i, f), job[p].k, NoFile)
        <4>1. job[p].k \in Name
          BY <1>5, <2>1, ForeignStages
        <4>2. e0 = [m \in Name |-> IF m = job[p].k THEN NoFile ELSE d[m]]
          BY <4>1 DEF Put, Directory
        <4>3. lhs = [m \in Name |-> IF m = job[p].k THEN NoFile
                                    ELSE IF d[m].ino = i THEN f ELSE d[m]]
          BY <4>1 DEF Put, Rewrite
        <4>4. \A m \in Name : (IF e0[m].ino = i THEN f ELSE e0[m]) =
                IF m = job[p].k THEN NoFile ELSE IF d[m].ino = i THEN f ELSE d[m]
          <5>1. NoFile.ino # i
            BY <1>1 DEF NoFile
          <5>. HIDE DEF i, f
          <5>. QED
            BY <4>2, <5>1
        <4>5. Rewrite(e0, i, f) = lhs
          BY <4>3, <4>4 DEF Rewrite
        <4>. QED
          BY <1>1, <3>2, <4>5
      <3>. QED
        BY <2>1, <3>1, <3>2 DEF ForeignInv, SettledInv
    <2>2. ASSUME job[p].at \in {"verify", "rename"} PROVE expo' = {dir'}
      BY <1>1, <2>2 DEF ForeignInv, SettledInv
    <2>. QED
      BY <2>1, <2>2
  <1>11. ASSUME NEW p \in Proc, NEW x \in Watched', job[p].at \in Locked
         PROVE  KeptAt(p, x)'
    <2>. DEFINE k == job[p].k
    <2>1. /\ dir[k].e \subseteq dir'[k].e /\ dir[Target].e \subseteq dir'[Target].e
          /\ dir'[k] = dir[k] \/ dir'[k] = f
          /\ dir'[Target] = dir[Target] \/ dir'[Target] = f
      BY <1>1, <1>4, <1>5, <1>11
    <2>2. CASE x = e
      <3>1. job[p].at # "restore" /\ (job[p].at = "restored" => n = Target)
        BY <1>2, <1>3, <2>2
      <3>2. n = Target => InVault(p, x)' /\ x \in dir'[Target].e
        <4>1. n = Target => dir'[Target] = f
          BY <1>1, <1>4
        <4>. QED
          BY <1>1, <1>5, <1>11, <2>2, <4>1 DEF InVault
      <3>3. dir[k].ino = i => InBackup(p, x)'
        <4>1. dir[k].ino = i => dir'[k] = f
          BY <1>1, <1>4, <1>5, <1>11
        <4>. QED
          BY <1>1, <1>5, <1>11, <2>2, <4>1 DEF InBackup
      <3>4. CASE job[p].at = "rename"
        <4>1. n = Target
          BY <1>8, <3>4, ForeignStages
        <4>. QED
          BY <1>1, <1>2, <1>3, <2>2, <3>2, <3>3, <3>4, <4>1 DEF KeptAt, Renamed
      <3>5. CASE job[p].at \in Renamed
        <4>1. n = Target \/ n = k
          BY <1>1, <1>11, OneTransaction, ForeignStages
        <4>2. job[p].at = "drop" => n # k
          BY <1>2, <1>3, <2>2
        <4>. QED
          BY <1>1, <3>1, <3>2, <3>3, <3>5, <4>1, <4>2 DEF KeptAt, Renamed
      <3>. QED
        BY <1>1, <3>4, <3>5 DEF KeptAt, Renamed
    <2>3. CASE x \in Watched
      <3>1. KeptAt(p, x)
        BY <2>3 DEF ForeignInv, KeptInv
      <3>2. Untouched(p, x) => Untouched(p, x)'
        <4>1. ASSUME Untouched(p, x), NEW d \in expo
              PROVE  \/ x \in job[p].init.e \/ x \in copies \cup gone
                     \/ \E m \in Name \ Own(p) : x \in Rewrite(d, i, f)[m].e
          BY <1>6, <4>1 DEF Untouched
        <4>. QED
          BY <1>1, <1>5, <1>11, <4>1 DEF Untouched, Elsewhere
      <3>3. InBackup(p, x) => InBackup(p, x)'
        BY <1>1, <1>5, <1>11, <2>1 DEF InBackup
      <3>4. InVault(p, x) => InVault(p, x)'
        BY <1>1, <1>5, <1>11, <2>1 DEF InVault
      <3>. QED
        BY <1>1, <2>1, <3>1, <3>2, <3>3, <3>4 DEF KeptAt
    <2>. QED
      BY <1>3, <2>2, <2>3
  <1>12. KeptInv'
    BY <1>1, <1>11, ForeignStages DEF KeptInv, KeptAt, Renamed
  <1>. QED
    BY <1>7, <1>9, <1>10, <1>12 DEF ForeignInv

\* Another program moves the vault away.
LEMMA DeleteKeepsForeign ==
    ASSUME CommitInv, ForeignInv, ForeignDelete
    PROVE  ForeignInv'
  <1>1. /\ dir' = Put(dir, Target, NoFile) /\ expo' = {dir'}
        /\ copies' = copies /\ gone' = gone \cup dir[Target].e
        /\ job' = job /\ platform' = platform /\ foreign' = foreign /\ raced' = raced
    BY DEF ForeignDelete, SetEntryAndFlush
  <1>. TypeOK /\ Target \in Name /\ dir \in expo /\ dir \in Directory
    BY ConstantTypes DEF CommitInv, TypeOK
  <1>2. \A n \in Name \ {Target} : dir'[n] = dir[n]
    BY <1>1 DEF Put, Directory
  <1>3. \A x \in Watched' : x \in Watched /\ x \notin dir[Target].e
    BY <1>1 DEF Watched
  <1>4. ASSUME NEW S, NEW x \in Watched', Elsewhere(dir, S, x)
        PROVE  x \in copies' \cup gone' \/ \E n \in Name \ S : x \in dir'[n].e
    BY <1>1, <1>2, <1>3, <1>4 DEF Elsewhere
  <1>5. SeenInv'
    BY <1>1, <1>3, <1>4 DEF ForeignInv, SeenInv, Elsewhere
  <1>6. AsideInv'
    <2>. SUFFICES ASSUME NEW p \in Proc, job[p].at \in Unrenamed, NEW x \in Watched'
                  PROVE  x \in copies' \cup gone' \/ \E n \in Name \ {job[p].k} : x \in dir'[n].e
      BY <1>1 DEF AsideInv, Elsewhere
    <2>1. Elsewhere(dir, {job[p].k}, x)
      BY <1>3 DEF ForeignInv, AsideInv
    <2>. QED
      BY <1>4, <2>1
  <1>7. SettledInv'
    BY <1>1 DEF SettledInv
  <1>8. ASSUME NEW p \in Proc, NEW x \in Watched', job[p].at \in Locked
        PROVE  KeptAt(p, x)'
    <2>1. KeptAt(p, x)
      BY <1>3 DEF ForeignInv, KeptInv
    <2>2. Untouched(p, x) => Untouched(p, x)'
      <3>1. Own(p)' = Own(p)
        BY <1>1 DEF Own
      <3>2. Untouched(p, x) =>
              \/ x \in job[p].init.e \/ x \in copies' \cup gone'
              \/ \E n \in Name \ Own(p) : x \in dir'[n].e
        BY <1>4 DEF Untouched
      <3>. QED
        BY <1>1, <3>1, <3>2 DEF Untouched, Elsewhere
    <2>3. InBackup(p, x) => InBackup(p, x)'
      <3>1. job[p].k \in Name \ {Target}
        BY <1>8, OwnNames
      <3>. QED
        BY <1>1, <1>2, <3>1 DEF InBackup
    <2>4. ~InVault(p, x)
      BY <1>3 DEF InVault
    <2>. QED
      BY <1>1, <1>3, <2>1, <2>2, <2>3, <2>4 DEF KeptAt
  <1>9. KeptInv'
    BY <1>1, <1>8, ForeignStages DEF KeptInv, KeptAt, Renamed
  <1>. QED
    BY <1>5, <1>6, <1>7, <1>9 DEF ForeignInv

\* The step that opens a transaction removes copies of the vault only.
LEMMA BeginKeepsForeign ==
    ASSUME CommitInv, CommitInv', InodesInv, NamesInv', ForeignInv, Next,
           NEW p \in Proc, BeginWrite(p)
    PROVE  ForeignInv'
  <1>. DEFINE clean == [n \in Name |->
                          IF n \in HardLinks(dir) THEN NoFile ELSE dir[n]]
  <1>. TypeOK /\ TypeOK' /\ RunType /\ Target \in Name /\ dir \in expo /\ StampInv /\ Numbered
    BY TypeParts, ConstantTypes DEF CommitInv, TypeOK, StampInv
  <1>1. /\ job[p].at = "commit" /\ LockFree
        /\ dir' = clean /\ expo' = IF HardLinks(dir) = {} THEN expo ELSE {clean}
        /\ copies' = copies /\ gone' = gone /\ foreign' = foreign /\ raced' = raced
    BY DEF BeginWrite, Conflict, BeforePublish, Quiet, others
  <1>2. Watched' = Watched /\ \A q \in Proc : job[q].at \notin Locked
    BY <1>1, LocalAssumption DEF LockFree, RunType, Watched
  <1>3. \A n \in HardLinks(dir) : dir[n] = dir[Target]
    BY DEF HardLinks, InodesInv, OnDisk
  <1>4. ASSUME NEW c \in expo', NEW x \in Watched
        PROVE  x \in copies \cup gone \/ \E n \in Name : x \in c[n].e
    <2>1. CASE c = clean
      <3>1. x \in copies \cup gone \/ \E n \in Name : x \in dir[n].e
        BY DEF ForeignInv, SeenInv, Elsewhere
      <3>2. \A n \in Name : clean[n] = dir[n] \/ dir[n] = clean[Target]
        <4>1. clean[Target] = dir[Target]
          BY DEF HardLinks
        <4>. QED
          BY <1>3, <4>1
      <3>. QED
        BY <2>1, <3>1, <3>2
    <2>2. CASE c \in expo
      BY <2>2 DEF ForeignInv, SeenInv, Elsewhere
    <2>. QED
      BY <1>1, <2>1, <2>2
  <1>5. ASSUME NEW q \in Proc, job'[q].at \in Locked
        PROVE  job'[q].at = "backup"
    <2>1. JobsStep
      BY StepOfJobs
    <2>2. Moved(q)
      <3>1. job'[q] # job[q] /\ job'[q] # NoJob /\ ~Begun(q)
        BY <1>2, <1>5 DEF Begun, NoJob, Locked
      <3>. QED
        BY <2>1, <3>1 DEF JobsStep
    <2>. QED
      BY <1>2, <1>5, <2>2 DEF Moved
  <1>6. SeenInv'
    BY <1>1, <1>2, <1>4 DEF SeenInv, Elsewhere
  <1>7. AsideInv'
    <2>. SUFFICES ASSUME NEW q \in Proc, job'[q].at \in Unrenamed, NEW c \in expo', NEW x \in Watched
                  PROVE  x \in copies \cup gone \/ \E n \in Name \ {job'[q].k} : x \in c[n].e
      BY <1>1, <1>2 DEF AsideInv, Elsewhere
    <2>1. c[job'[q].k] = NoFile
      BY <1>5, ForeignStages DEF NamesInv
    <2>. QED
      BY <1>4, <2>1 DEF NoFile
  <1>8. SettledInv' /\ KeptInv'
    BY <1>5, ForeignStages DEF SettledInv, KeptInv, KeptAt, Renamed
  <1>. QED
    BY <1>6, <1>7, <1>8 DEF ForeignInv

\* A power loss ends every transaction and leaves one of the directories.
LEMMA PowerLossKeepsForeign ==
    ASSUME ForeignInv, PowerLoss
    PROVE  ForeignInv'
  <1>1. /\ dir' \in expo /\ expo' = {dir'} /\ copies' = copies /\ gone' = gone
        /\ Watched' = Watched
    BY DEF PowerLoss, Die, others, Watched
  <1>2. \A p \in Proc : job'[p].at \notin Locked
    BY DEF PowerLoss, Die, NoJob, Locked
  <1>3. SeenInv'
    BY <1>1 DEF ForeignInv, SeenInv, Elsewhere
  <1>4. AsideInv' /\ SettledInv' /\ KeptInv'
    BY <1>2, ForeignStages DEF AsideInv, SettledInv, KeptInv, KeptAt, Renamed
  <1>. QED
    BY <1>3, <1>4 DEF ForeignInv

\* Once the vault is what a transaction published, and the backup what it
\* replaced, nothing else was written into either; nor once the vault is what a
\* rollback put back.
LEMMA NothingElseWritten ==
    ASSUME ForeignInv, NEW p \in Proc, NEW x \in Watched,
           \/ /\ job[p].at \in {"rollback", "readback", "reconcile"}
              /\ SameBytes(dir[Target], job[p].cand)
              /\ IsOriginal(dir[job[p].k], job[p].init)
           \/ job[p].at = "restored" /\ SameBytes(dir[Target], job[p].init)
           \/ job[p].at = "restore"
    PROVE  Untouched(p, x)
  <1>1. KeptAt(p, x)
    BY DEF ForeignInv, KeptInv
  <1>. QED
    BY <1>1 DEF KeptAt, Renamed, SameBytes, IsOriginal, InBackup, InVault

\* When the last check has found the vault to be what the transaction opened,
\* every edit is in it or out of reach.
LEMMA VerifiedUntouched ==
    ASSUME CommitInv, NamesInv, ForeignInv, NEW p \in Proc, job[p].at = "verify",
           dir[Target] = job[p].init, NEW x \in Watched
    PROVE  Untouched(p, x)
  <1>1. expo = {dir} /\ dir[RollbackName(job[p].k)] = NoFile
    BY ForeignStages DEF ForeignInv, SettledInv, NamesInv
  <1>2. Elsewhere(dir, {job[p].k}, x)
    BY <1>1 DEF ForeignInv, AsideInv, Unrenamed
  <1>3. x \in job[p].init.e \/ x \in copies \cup gone \/ \E n \in Name \ Own(p) : x \in dir[n].e
    BY <1>1, <1>2 DEF Elsewhere, Own, NoFile
  <1>. QED
    BY <1>1, <1>3 DEF Untouched, Elsewhere

\* The steps of a transaction keep the edits of other programs.
LEMMA TransactionKeepsForeign ==
    ASSUME SaveInv, ForeignInv, NEW p \in Proc, job[p].at \in Locked, Next,
           \/ PublishBackup(p) \/ FlushBackup(p) \/ Verify(p) \/ Rename(p) \/ Settle(p)
           \/ FinalReadback(p) \/ Reconcile(p) \/ DropOriginal(p) \/ Recheck(p)
           \/ Rollback(p) \/ Restore(p) \/ Restored(p) \/ Recover(p)
    PROVE  ForeignInv'
  <1>. DEFINE k == job[p].k
              init == job[p].init
              cand == job[p].cand
              Past == Renamed \ {"restore", "drop", "restored"}
              SeenNext(x) == \A c \in expo' :
                               x \in copies' \cup gone' \/ \E n \in Name : x \in c[n].e
  <1>. /\ CommitInv /\ CandInv /\ StampsInv /\ InodesInv /\ NamesInv /\ FlushedInv
       /\ DropInv /\ TypeOK /\ RunType
    BY TypeParts DEF SaveInv, CommitInv, SurvivalInv
  <1>. /\ Target \in Name /\ NoFile \in File /\ init \in File /\ cand \in File
       /\ dir \in expo /\ dir \in Directory
       /\ \A d \in expo : d \in Directory /\ d[Target] \in File
    BY FileType, ConstantTypes DEF TypeOK
  <1>. k \in Name \ {Target}
    BY OwnNames
  <1>1. OwnStep(p)
    BY StepOfOwn
  <1>2. /\ UNCHANGED others /\ copies \subseteq copies' /\ gone' = gone /\ platform' = platform
    BY DEF PublishBackup, FlushBackup, Verify, Rename, Settle, FinalReadback, Reconcile,
       DropOriginal, Recheck, Rollback, Restore, Restored, Recover, Quiet, others
  <1>3. ASSUME \A x \in Watched : Untouched(p, x),
               job'[p].at # "flush", job'[p].at \in {"verify", "rename"} => expo' = {dir'}
        PROVE  ForeignInv'
    BY <1>1, <1>2, <1>3, OwnKeepsForeign
  <1>4. ASSUME dir' = dir, expo' \subseteq expo, job[p].at \in Past,
               job'[p].at \in Past =>
                 job'[p].k = k /\ job'[p].init = init /\ job'[p].cand = cand,
               job'[p].at \in Past \/ job'[p].at \notin Locked
        PROVE  ForeignInv'
    <2>1. ASSUME NEW x \in Watched, ~Untouched(p, x)
          PROVE  SeenNext(x) /\ KeptAt(p, x)'
      <3>1. SeenNext(x)
        BY <1>2, <1>4 DEF ForeignInv, SeenInv, Elsewhere
      <3>2. InBackup(p, x) \/ InVault(p, x)
        BY <1>4, <2>1 DEF ForeignInv, KeptInv, KeptAt
      <3>3. job'[p].at \in Past => InBackup(p, x)' \/ InVault(p, x)'
        BY <1>4, <3>2 DEF InBackup, InVault
      <3>4. KeptAt(p, x)'
        BY <1>4, <3>3, ForeignStages DEF KeptAt, Renamed
      <3>. QED
        BY <3>1, <3>4
    <2>2. job'[p].at \notin {"flush", "verify", "rename"}
      BY <1>4, ForeignStages DEF Renamed
    <2>. QED
      BY <1>1, <1>2, <2>1, <2>2, OwnKeepsForeign
  <1>5. ASSUME job[p].at \in Unrenamed, NEW c,
               \E d \in expo : \A n \in Name \ {k} : c[n] = d[n],
               NEW x \in Watched
        PROVE  x \in copies' \cup gone' \/ \E n \in Name : x \in c[n].e
    <2>1. PICK d \in expo : \A n \in Name \ {k} : c[n] = d[n]
      BY <1>5
    <2>2. x \in copies \cup gone \/ \E n \in Name \ {k} : x \in d[n].e
      BY <1>5 DEF ForeignInv, AsideInv, Elsewhere
    <2>. QED
      BY <1>2, <2>1, <2>2
  <1>6. ASSUME job[p].at \in Unrenamed, Discard(k), job'[p].at \notin Locked
        PROVE  ForeignInv'
    <2>1. \A c \in expo' : \E d \in expo : \A n \in Name \ {k} : c[n] = d[n]
      <3>1. \A d \in expo : \A n \in Name \ {k} : Put(d, k, NoFile)[n] = d[n]
        BY DEF Put, Directory
      <3>2. \A c \in expo' : \E d \in expo : c = d \/ c = Put(d, k, NoFile)
        BY <1>6 DEF Discard, SetEntry, SetEntryAndFlush, disk
      <3>. QED
        BY <3>1, <3>2
    <2>2. ASSUME NEW x \in Watched PROVE SeenNext(x) /\ KeptAt(p, x)'
      BY <1>5, <1>6, <2>1, ForeignStages DEF KeptAt, Renamed
    <2>3. job'[p].at \notin {"flush", "verify", "rename"}
      BY <1>6, ForeignStages
    <2>. QED
      BY <1>1, <1>2, <2>2, <2>3, OwnKeepsForeign
  <1>7. ASSUME job[p].at \in Unrenamed, dir' = dir, expo' \subseteq expo,
               job'[p].at \in {"verify", "rename"} => expo' = {dir},
               job'[p].at \in {"verify"} \/ job'[p].at \notin Locked
        PROVE  ForeignInv'
    <2>1. ASSUME NEW x \in Watched PROVE SeenNext(x) /\ KeptAt(p, x)'
      BY <1>2, <1>7, ForeignStages DEF KeptAt, Renamed, ForeignInv, SeenInv, Elsewhere
    <2>. QED
      BY <1>1, <1>2, <1>7, <2>1, ForeignStages, OwnKeepsForeign
  <1>8. ASSUME NEW stage \in Stage, Goto(p, stage)
        PROVE  /\ job'[p].at = stage
               /\ job'[p].k = k /\ job'[p].init = init /\ job'[p].cand = cand
    BY <1>8, GotoMoves DEF Moves
  <1>9. ASSUME NEW why, job' = [job EXCEPT ![p].at = "reconcile", ![p].why = why]
        PROVE  /\ job'[p].at = "reconcile"
               /\ job'[p].k = k /\ job'[p].init = init /\ job'[p].cand = cand
    BY <1>9 DEF RunType, Job
  <1>10. Fail(p) => job'[p].at \notin Locked
    BY FailEnds DEF Ends, NoJob, Locked
  <1>11. /\ Past = {"settle", "readback", "reconcile", "recheck", "rollback", "recover"}
         /\ Past \subseteq Stage /\ {"restore", "drop", "restored"} \subseteq Stage
         /\ {"flush", "verify", "rename"} \subseteq Stage
         /\ {"copy", "unknown"} \subseteq Stage /\ {"copy", "unknown"} \cap Locked = {}
    BY DEF Renamed, Stage, Locked
  <1>12. CASE PublishBackup(p)
    <2>. DEFINE copied == [dir[Target] EXCEPT !.ino = CopyInode(k)]
    <2>1. job[p].at = "backup" /\ job[p].at \in Unrenamed
      BY <1>12 DEF PublishBackup, Unrenamed
    <2>2. ASSUME NEW f \in File, SetEntry(k, f), Goto(p, "flush") PROVE ForeignInv'
      <3>1. job'[p].at = "flush" /\ job'[p].k = k
        BY <1>8, <1>11, <2>2
      <3>2. \A d \in expo : d[k] = NoFile /\ Put(d, k, NoFile) = d
        BY <2>1 DEF NamesInv, Put, Directory
      <3>3. \A d \in expo : /\ Put(Put(d, k, f), k, NoFile) = d
                            /\ \A n \in Name \ {k} : Put(d, k, f)[n] = d[n]
        BY <3>2 DEF Put, Directory
      <3>4. \A c \in expo' : Put(c, k, NoFile) \in expo'
        BY <2>2, <3>2, <3>3 DEF SetEntry
      <3>5. \A c \in expo' : \E d \in expo : \A n \in Name \ {k} : c[n] = d[n]
        BY <2>2, <3>3 DEF SetEntry
      <3>6. ASSUME NEW x \in Watched PROVE SeenNext(x) /\ KeptAt(p, x)'
        BY <1>5, <2>1, <3>1, <3>5 DEF KeptAt, Renamed
      <3>. QED
        BY <1>1, <1>2, <3>1, <3>4, <3>6, OwnKeepsForeign
    <2>3. copied \in File /\ dir[Target] \in File
      BY ConstantTypes, OwnNames DEF File
    <2>4. CASE BeforePublish(p) /\ UNCHANGED disk
      BY <1>7, <1>10, <2>1, <2>4, ForeignStages DEF BeforePublish, disk
    <2>. QED
      BY <1>12, <2>2, <2>3, <2>4 DEF PublishBackup, Continue
  <1>13. CASE FlushBackup(p)
    <2>1. job[p].at \in Unrenamed
      BY <1>13 DEF FlushBackup, Unrenamed
    <2>2. CASE Flush /\ Continue(p, "verify")
      BY <1>7, <1>8, <1>11, <2>1, <2>2 DEF Flush, Continue
    <2>3. CASE Discard(k) /\ BeforePublish(p)
      BY <1>6, <1>10, <2>1, <2>3 DEF BeforePublish
    <2>. QED
      BY <1>13, <2>2, <2>3 DEF FlushBackup
  <1>14. CASE Verify(p)
    <2>1. job[p].at = "verify" /\ job[p].at \in Unrenamed
      BY <1>14 DEF Verify, Unrenamed
    <2>2. CASE UNCHANGED disk /\ Continue(p, "rename") /\ dir[Target] = init
      <3>1. job'[p].at = "rename" /\ expo' = {dir'}
        BY <1>8, <1>11, <2>1, <2>2 DEF Continue, ForeignInv, SettledInv, disk
      <3>. QED
        BY <1>3, <2>1, <2>2, <3>1, VerifiedUntouched
    <2>3. CASE Discard(k) /\ (BeforePublish(p) \/ Conflict(p))
      BY <1>6, <1>8, <1>10, <1>11, <2>1, <2>3 DEF BeforePublish, Conflict
    <2>. QED
      BY <1>14, <2>2, <2>3 DEF Verify, disk

  <1>15. CASE Rename(p)
    <2>1. job[p].at = "rename" /\ job[p].at \in Unrenamed /\ expo = {dir}
      BY <1>15 DEF Rename, Unrenamed, ForeignInv, SettledInv
    <2>2. ASSUME NEW f \in File, Replace(f, k), job'[p].at \in {"settle", "reconcile"},
                 job'[p].k = k, job'[p].init = init, job'[p].cand = cand
          PROVE  ForeignInv'
      <3>1. /\ dir' = Replaced(dir, f, k) /\ expo' = {dir, dir'}
            /\ dir'[k] = IF platform = "unix" THEN dir[k] ELSE dir[Target]
        BY <2>1, <2>2, ReplacedNames DEF Replace
      <3>2. ASSUME NEW x \in Watched, ~Untouched(p, x)
            PROVE  SeenNext(x) /\ KeptAt(p, x)'
        <4>1. \/ platform = "unix" /\ InBackup(p, x)
              \/ platform # "unix" /\ x \in dir[Target].e
          BY <2>1, <3>2 DEF ForeignInv, KeptInv, KeptAt
        <4>2. x \in dir'[k].e /\ SeenNext(x)
          BY <3>1, <4>1 DEF InBackup
        <4>3. dir'[k].s # init.s
          <5>1. x \notin init.e
            BY <3>2 DEF Untouched
          <5>2. platform # "unix" => dir[Target].s # init.s
            BY <4>1, <5>1, KnownFiles DEF StampsInv, Files
          <5>. QED
            BY <3>1, <4>1, <5>2 DEF InBackup
        <4>4. InBackup(p, x)'
          BY <2>2, <4>2, <4>3 DEF InBackup
        <4>. QED
          BY <2>2, <4>2, <4>4 DEF KeptAt, Renamed
      <3>. QED
        BY <1>1, <1>2, <2>2, <3>2, OwnKeepsForeign
    <2>3. CASE Replace(cand, k) /\ Continue(p, "settle")
      BY <1>8, <1>11, <2>2, <2>3 DEF Continue
    <2>4. CASE /\ HalfReplace(k)
               /\ job' = [job EXCEPT ![p].at = "reconcile", ![p].why = "publish"]
      BY <1>9, <2>2, <2>4 DEF HalfReplace
    <2>5. CASE Discard(k) /\ BeforePublish(p)
      BY <1>6, <1>10, <2>1, <2>5 DEF BeforePublish
    <2>. QED
      BY <1>15, <2>3, <2>4, <2>5 DEF Rename
  <1>16. CASE Settle(p)
    <2>1. job[p].at \in Past
      BY <1>11, <1>16 DEF Settle
    <2>2. CASE Flush /\ Goto(p, "readback")
      BY <1>4, <1>8, <1>11, <2>1, <2>2 DEF Flush
    <2>3. CASE /\ job' = [job EXCEPT ![p].at = "reconcile", ![p].why = "publish"]
               /\ UNCHANGED disk
      BY <1>4, <1>9, <1>11, <2>1, <2>3 DEF disk
    <2>. QED
      BY <1>16, <2>2, <2>3 DEF Settle, Continue, disk
  <1>17. ASSUME IsOriginal(dir[k], init), SameBytes(dir[Target], cand),
                job[p].at \in {"rollback", "readback", "reconcile"},
                job'[p].at \notin {"flush", "verify", "rename"}
         PROVE  ForeignInv'
    BY <1>3, <1>17, NothingElseWritten
  <1>18. CASE FinalReadback(p)
    <2>1. job[p].at = "readback" /\ job[p].at \in Past /\ UNCHANGED disk
      BY <1>11, <1>18 DEF FinalReadback
    <2>2. CASE Fail(p)
      BY <1>4, <1>10, <1>11, <2>1, <2>2, ForeignStages DEF disk
    <2>3. CASE job' = [job EXCEPT ![p].at = "reconcile", ![p].why = "readback"]
      BY <1>4, <1>9, <1>11, <2>1, <2>3 DEF disk
    <2>4. CASE SameBytes(dir[Target], cand) /\ IsOriginal(dir[k], init) /\ Goto(p, "drop")
      BY <1>8, <1>11, <1>17, <2>1, <2>4
    <2>. QED
      BY <1>18, <2>2, <2>3, <2>4 DEF FinalReadback, Saved
  <1>19. CASE Reconcile(p)
    <2>1. job[p].at = "reconcile" /\ job[p].at \in Past
      BY <1>11, <1>19 DEF Reconcile
    <2>2. CASE Flush /\ Goto(p, "recheck")
      BY <1>4, <1>8, <1>11, <2>1, <2>2 DEF Flush
    <2>3. CASE SameBytes(dir[Target], cand) /\ IsOriginal(dir[k], init) /\ Goto(p, "drop")
      BY <1>8, <1>11, <1>17, <2>1, <2>3
    <2>4. CASE Goto(p, AfterReconcile(p)) /\ UNCHANGED disk
      BY <1>4, <1>8, <1>11, <2>1, <2>4 DEF AfterReconcile, disk
    <2>. QED
      BY <1>19, <2>2, <2>3, <2>4 DEF Reconcile, Continue
  <1>25. CASE DropOriginal(p)
    <2>1. job[p].at = "drop" /\ Discard(k) /\ (Fail(p) \/ Goto(p, "recheck"))
      BY <1>25 DEF DropOriginal
    <2>2. /\ job'[p].at = "recheck" \/ job'[p].at \notin Locked
          /\ job'[p].at \in Locked => job'[p].init = init /\ job'[p].cand = cand
      BY <1>8, <1>10, <1>11, <2>1
    <2>3. /\ \A c \in expo' : \E d \in expo : c = d \/ c = Put(d, k, NoFile)
          /\ dir' = dir \/ dir' = Put(dir, k, NoFile)
      BY <2>1 DEF Discard, SetEntry, SetEntryAndFlush, disk
    <2>4. \A d \in expo : d[Target] = dir[Target] /\ Put(d, k, NoFile)[Target] = d[Target]
      BY <2>1 DEF FlushedInv, Put, Directory
    <2>5. dir'[Target] = dir[Target] /\ \A c \in expo' : c[Target] = dir[Target]
      BY <2>3, <2>4
    <2>6. ASSUME NEW x \in Watched, ~Untouched(p, x)
          PROVE  SeenNext(x) /\ KeptAt(p, x)'
      <3>1. InVault(p, x)
        BY <2>1, <2>6 DEF ForeignInv, KeptInv, KeptAt
      <3>2. SeenNext(x)
        BY <2>5, <3>1 DEF InVault
      <3>3. job'[p].at \in Locked => InVault(p, x)'
        BY <2>2, <2>5, <3>1 DEF InVault
      <3>. QED
        BY <2>2, <3>2, <3>3, ForeignStages DEF KeptAt, Renamed
    <2>7. job'[p].at \notin {"flush", "verify", "rename"}
      BY <2>2, ForeignStages
    <2>. QED
      BY <1>1, <1>2, <2>6, <2>7, OwnKeepsForeign
  <1>20. CASE Recheck(p)
    <2>1. job[p].at \in Past /\ UNCHANGED disk
      BY <1>11, <1>20 DEF Recheck
    <2>2. CASE Fail(p)
      BY <1>4, <1>10, <1>11, <2>1, <2>2, ForeignStages DEF disk
    <2>3. CASE Goto(p, AfterReconcile(p))
      BY <1>4, <1>8, <1>11, <2>1, <2>3 DEF AfterReconcile, disk
    <2>. QED
      BY <1>20, <2>2, <2>3 DEF Recheck, Continue, Saved
  <1>21. CASE Rollback(p)
    <2>1. job[p].at = "rollback" /\ job[p].at \in Past /\ UNCHANGED disk
      BY <1>11, <1>21 DEF Rollback
    <2>2. CASE IsOriginal(dir[k], init) /\ SameBytes(dir[Target], cand) /\ Goto(p, "restore")
      BY <1>8, <1>11, <1>17, <2>1, <2>2
    <2>3. CASE Goto(p, "unknown")
      BY <1>4, <1>8, <1>11, <2>1, <2>3, ForeignStages DEF disk
    <2>. QED
      BY <1>21, <2>2, <2>3 DEF Rollback, Continue
  <1>22. CASE Restore(p)
    <2>1. job[p].at = "restore" /\ (Goto(p, "restored") \/ Goto(p, "unknown"))
      BY <1>22 DEF Restore, Continue
    <2>2. job'[p].at \notin {"flush", "verify", "rename"}
      BY <1>8, <1>11, <2>1
    <2>. QED
      BY <1>3, <2>1, <2>2, NothingElseWritten
  <1>23. CASE Restored(p)
    <2>1. job[p].at = "restored"
      BY <1>23 DEF Restored
    <2>2. job'[p].at \notin Locked
      BY <1>8, <1>10, <1>11, <1>23 DEF Restored, BeforePublish, Continue
    <2>3. CASE SameBytes(dir[Target], init)
      BY <1>3, <2>1, <2>2, <2>3, NothingElseWritten, ForeignStages
    <2>4. CASE Flush \/ UNCHANGED disk
      <3>1. ASSUME NEW x \in Watched PROVE SeenNext(x) /\ KeptAt(p, x)'
        BY <1>2, <2>2, <2>4, ForeignStages
        DEF KeptAt, Renamed, ForeignInv, SeenInv, Elsewhere, Flush, disk
      <3>. QED
        BY <1>1, <1>2, <2>2, <3>1, ForeignStages, OwnKeepsForeign
    <2>. QED
      BY <1>23, <2>3, <2>4 DEF Restored
  <1>24. CASE Recover(p)
    <2>1. job[p].at \in Past /\ Goto(p, "unknown")
      BY <1>11, <1>24 DEF Recover, Continue
    <2>2. dir' = dir /\ expo' \subseteq expo
      BY <1>24 DEF Recover, Flush, disk
    <2>. QED
      BY <1>4, <1>8, <1>11, <2>1, <2>2
  <1>. QED
    BY <1>12, <1>13, <1>14, <1>15, <1>16, <1>18, <1>19, <1>20, <1>21, <1>22, <1>23, <1>24,
       <1>25

\* A step of the session, the end of a save and a crash leave the files as they are.
LEMMA SessionsKeepForeign ==
    ASSUME TypeOK, ForeignInv, NEW p \in Proc,
           \/ Open(p) \/ Unlock(p) \/ Lock(p) \/ BeginSave(p) \/ BeginWriteRefused(p)
           \/ Unknown(p) \/ ConflictCopy(p) \/ Crash(p) \/ \E e \in Edit : EditVault(p, e)
    PROVE  ForeignInv'
  <1>. RunType
    BY TypeParts
  <1>1. \A q \in Proc : job'[q].at \in Locked => job'[q] = job[q]
    <2>1. CASE Open(p) \/ Unlock(p) \/ Lock(p) \/ \E e \in Edit : EditVault(p, e)
      BY <2>1 DEF Open, Unlock, Lock, EditVault
    <2>2. CASE BeginSave(p)
      <3>. DEFINE cand == [ino |-> count + 1, e |-> sess[p].v, s |-> count + 1]
                  new(stage) == [NoJob EXCEPT !.at = stage, !.k = count + 1, !.cand = cand]
      <3>1. PICK stage \in {"copy", "commit"} : job' = [job EXCEPT ![p] = new(stage)]
        BY <2>2 DEF BeginSave
      <3>. QED
        BY <3>1 DEF RunType, NoJob, Locked
    <2>3. CASE BeginWriteRefused(p)
      <3>1. Goto(p, "copy") /\ "copy" \in Stage
        BY <2>3 DEF BeginWriteRefused, Conflict, Stage
      <3>. QED
        BY <3>1, GotoMoves DEF Moves, Locked
    <2>4. CASE Unknown(p) \/ ConflictCopy(p)
      <3>1. Fail(p)
        BY <2>4 DEF Unknown, Saved, ConflictCopy
      <3>. QED
        BY <3>1, FailEnds DEF Ends, NoJob, Locked
    <2>5. CASE Crash(p)
      BY <2>5 DEF Crash, Die, NoJob, Locked
    <2>. QED
      BY <2>1, <2>2, <2>3, <2>4, <2>5
  <1>2. /\ platform' = platform /\ dir' = dir /\ (expo' = expo \/ expo' = {dir})
        /\ UNCHANGED others /\ copies \subseteq copies'
    BY DEF Open, Unlock, Lock, BeginSave, BeginWriteRefused, Unknown, ConflictCopy, Crash,
       EditVault, Die, Quiet, Flush, disk, others
  <1>. QED
    BY <1>1, <1>2, QuietKeepsForeign

LEMMA ForeignInit == Init => ForeignInv
  BY ForeignStages
  DEF Init, NoJob, ForeignInv, SeenInv, AsideInv, SettledInv, KeptInv, Watched, Locked, Unrenamed

LEMMA ForeignStep == SaveInv /\ SaveInv' /\ ForeignInv /\ [Next]_vars => ForeignInv'
  <1>. SUFFICES ASSUME SaveInv, SaveInv', ForeignInv, [Next]_vars PROVE ForeignInv'
    OBVIOUS
  <1>. /\ CommitInv /\ StampsInv /\ InodesInv /\ NamesInv /\ TypeOK
       /\ CommitInv' /\ NamesInv'
    BY DEF SaveInv, CommitInv
  <1>1. ASSUME Next, NEW p \in Proc,
               \/ PublishBackup(p) \/ FlushBackup(p) \/ Verify(p) \/ Rename(p) \/ Settle(p)
               \/ FinalReadback(p) \/ Reconcile(p) \/ DropOriginal(p) \/ Recheck(p)
               \/ Rollback(p) \/ Restore(p) \/ Restored(p) \/ Recover(p)
        PROVE  ForeignInv'
    <2>1. job[p].at \in Locked
      BY <1>1 DEF PublishBackup, FlushBackup, Verify, Rename, Settle, FinalReadback, Reconcile,
         DropOriginal, Recheck, Rollback, Restore, Restored, Recover, Locked, Stage
    <2>. QED
      BY <1>1, <2>1, TransactionKeepsForeign
  <1>2. ASSUME Next, NEW p \in Proc, BeginWrite(p) PROVE ForeignInv'
    BY <1>2, BeginKeepsForeign
  <1>3. ASSUME NEW p \in Proc,
               \/ Open(p) \/ Unlock(p) \/ Lock(p) \/ BeginSave(p) \/ BeginWriteRefused(p)
               \/ Unknown(p) \/ ConflictCopy(p) \/ Crash(p) \/ \E e \in Edit : EditVault(p, e)
        PROVE  ForeignInv'
    BY <1>3, SessionsKeepForeign
  <1>4. ASSUME NEW e \in Edit, ForeignReplace(e) \/ \E n \in Name : ForeignInPlace(e, n)
        PROVE  ForeignInv'
    BY <1>4, ReplaceKeepsForeign, InPlaceKeepsForeign
  <1>5. CASE ForeignDelete \/ PowerLoss
    BY <1>5, DeleteKeepsForeign, PowerLossKeepsForeign
  <1>6. CASE UNCHANGED vars
    <2>1. /\ platform' = platform /\ dir' = dir /\ expo' = expo /\ UNCHANGED others
          /\ copies' = copies /\ job' = job
      BY <1>6 DEF vars, disk
    <2>. QED
      BY <2>1, QuietKeepsForeign
  <1>. QED
    BY <1>1, <1>2, <1>3, <1>4, <1>5, <1>6 DEF Next

\* An edit that another program wrote into the vault is in some file, however
\* often the vault is saved: a save does not overwrite what it has not read, and
\* takes neither a backup nor a rollback away once somebody has written into it.
\* Excepted are edits written where the code cannot see them (raced) and those of
\* a vault that another program moved away (gone).
THEOREM ForeignEditsSurvive == Spec => []ForeignPreserved
  <1>1. TypeOK /\ ForeignInv => ForeignPreserved
    BY DEF ForeignInv, SeenInv, Elsewhere, Watched, ForeignPreserved, Readable, TypeOK
  <1>2. SaveInv => TypeOK
    BY DEF SaveInv, CommitInv
  <1>. QED
    BY <1>1, <1>2, SaveInit, SaveStep, ForeignInit, ForeignStep, PTL DEF Spec

=============================================================================
