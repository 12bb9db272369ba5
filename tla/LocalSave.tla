----------------------------- MODULE LocalSave -----------------------------
(***************************************************************************)
(* Saving a vault that is a local file: save_vault (runtime.rs) over the   *)
(* durable publish of providers/local_file.rs and durable_file.rs, by      *)
(* several runtimes that share the file, with other programs writing it,   *)
(* failing system calls, dying processes and power loss.                   *)
(*                                                                         *)
(* A directory maps a name to a file: name 0 is the vault, name k > 0 the  *)
(* sibling that save number k keeps (its backup), name k + MaxSaves the    *)
(* one its rollback keeps.  A file has an inode, the edits its bytes hold  *)
(* and a stamp that tells any two serializations apart.                    *)
(*                                                                         *)
(* A directory change is visible at once and durable after the directory   *)
(* was flushed; expo is the set of directories a power loss may leave.     *)
(***************************************************************************)
EXTENDS Naturals, FiniteSets, TLC

CONSTANTS
    Edit,        \* edits a user, here or in another program, can make
    Proc,        \* runtimes
    NoProc,
    Platform,    \* the platforms the program is built for
    MaxSaves,    \* saves and writes of other programs, together
    MaxFaults,   \* failing system calls, dying processes and power losses
    MaxEvents    \* all of these together

ASSUME LocalAssumption ==
    /\ Platform \subseteq {"unix", "windows"}
    /\ NoProc \notin Proc
    /\ MaxSaves \in Nat /\ MaxFaults \in Nat /\ MaxEvents \in Nat

VARIABLES
    platform, \* the platform of this build
    dir,      \* the directory as the processes see it
    expo,     \* the directories a power loss may leave
    copies,   \* edits in conflict copies and recovery files
    lock,     \* holder of the writer lock of the vault
    sess,     \* [Proc -> loaded vault]
    job,      \* [Proc -> the save being executed]
    count,    \* saves and foreign writes so far
    made,     \* edits made so far
    acked,    \* edits of vaults whose save was answered once it was durable
    assumed,  \* edits of vaults whose save was answered "saved" after an
              \* unknown outcome
    cut,      \* assumed edits that a power loss took
    denied,   \* saves whose commit reported that nothing was published
    foreign,  \* edits other programs wrote
    gone,     \* edits of a file another program deleted
    raced,    \* foreign edits written where no save could keep them
    faults

disk == <<dir, expo>>
others == <<foreign, gone, raced>>
unsure == <<assumed, cut>>
vars == <<platform, disk, copies, lock, sess, job, count, made, acked, denied,
          others, unsure, faults>>

Target == 0
Save == 1 .. MaxSaves
Name == 0 .. 2 * MaxSaves

\* Inodes: k for what save k publishes, k + MaxSaves for what its rollback
\* publishes, k + 2 * MaxSaves for its copied backup, one for the first file.
Inode == 0 .. 3 * MaxSaves + 1
FirstInode == 3 * MaxSaves + 1
RestoreInode(k) == k + MaxSaves
CopyInode(k) == k + 2 * MaxSaves
RollbackName(k) == k + MaxSaves

File == [ino : Inode, e : SUBSET Edit, s : 0 .. MaxSaves]
NoFile == [ino |-> 0, e |-> {}, s |-> 0]
FirstFile == [ino |-> FirstInode, e |-> {}, s |-> 0]
Directory == [Name -> File]

\* base is what the baseline fingerprint was taken of.
Session == [st : {"closed", "locked", "open"}, v : SUBSET Edit, base : File]
Closed == [st |-> "closed", v |-> {}, base |-> NoFile]

\* init is the generation the transaction opened, cand what it publishes; k
\* numbers the save.
Stage == {"idle", "commit", "backup", "flush", "verify", "rename", "settle",
          "readback", "reconcile", "drop", "recheck", "rollback", "restore",
          "restored", "recover", "unknown", "copy"}
Job == [at : Stage, k : 0 .. MaxSaves, init : File, cand : File,
        why : {"none", "publish", "readback"}]
NoJob == [at |-> "idle", k |-> 0, init |-> NoFile, cand |-> NoFile,
          why |-> "none"]

----------------------------------------------------------------------------
(* The directory. *)

Put(d, n, f) == [d EXCEPT ![n] = f]

\* A change of the directory that is not flushed yet.
SetEntry(n, f) ==
    /\ dir' = Put(dir, n, f)
    /\ expo' = expo \cup {Put(d, n, f) : d \in expo}

\* Mutant: the directory is not flushed.
FlushSkipped == UNCHANGED disk

\* sync_parent: flushes the directory.
Flush == dir' = dir /\ expo' = {dir}

SetEntryAndFlush(n, f) ==
    /\ dir' = Put(dir, n, f)
    /\ expo' = {Put(dir, n, f)}

\* Removal of a sibling whose failure the caller ignores.
Discard(n) ==
    \/ SetEntryAndFlush(n, NoFile)
    \/ SetEntry(n, NoFile)
    \/ UNCHANGED disk

\* A write into a file that is already open, under whatever names it has.
Rewrite(d, i, f) == [n \in Name |-> IF d[n].ino = i THEN f ELSE d[n]]

\* Fingerprints of two files: content and modification time in seconds.  The
\* same bytes in another file may or may not be of the same second.
SameBytes(f, g) == f.ino # 0 /\ f.s = g.s
MayDiffer(f, g) == f # g

\* Mutant: whatever has the backup's name is the replaced generation.
IsOriginalUnverified(f, init) == f.ino # 0

\* verify_backup_generation
IsOriginal(f, init) ==
    /\ SameBytes(f, init)
    /\ platform = "unix" => f.ino = init.ino

Room == count + faults < MaxEvents
Fault == faults < MaxFaults /\ Room /\ faults' = faults + 1
NoFault == UNCHANGED faults

----------------------------------------------------------------------------
(* The states of a save. *)

Goto(p, stage) == job' = [job EXCEPT ![p].at = stage]

\* The call ends with an error: nothing of the session changes.
Fail(p) == job' = [job EXCEPT ![p] = NoJob]

\* LocalFileCommitError::BeforePublish reaches the caller.
BeforePublish(p) ==
    /\ Fail(p)
    /\ denied' = denied \cup {job[p].k}
    /\ UNCHANGED <<sess, acked>>

\* LocalFileCommitError::Conflict becomes a conflict copy.
Conflict(p) == Goto(p, "copy") /\ UNCHANGED <<sess, acked, denied>>

Continue(p, stage) ==
    Goto(p, stage) /\ UNCHANGED <<sess, acked, denied>>

\* Mutant: the lock file is not locked.
LockFreeAlways == TRUE

\* ExclusiveFileLock: try_lock succeeds.
LockFree == lock = NoProc

Release == lock' = NoProc
Quiet == UNCHANGED <<platform, copies, count, made, others, unsure>>

\* The new baseline is what was read back.
Rebase(p) == sess' = [sess EXCEPT ![p].base = dir[Target]]

\* The end of a committed save.
Saved(p) == Rebase(p) /\ Fail(p) /\ UNCHANGED denied

----------------------------------------------------------------------------
(* Steps of a runtime. *)

\* open_local_vault
Open(p) ==
    /\ sess[p].st # "open" /\ dir[Target] \notin {NoFile, sess[p].base}
    /\ sess' = [sess EXCEPT ![p] = [st |-> "locked", v |-> {},
                                    base |-> dir[Target]]]
    /\ UNCHANGED <<disk, lock, job, acked, denied, faults>> /\ Quiet

\* unlock_vault decrypts the bytes the baseline was taken of, not the file.
Unlock(p) ==
    /\ sess[p].st = "locked"
    /\ sess' = [sess EXCEPT ![p].st = "open", ![p].v = sess[p].base.e]
    /\ UNCHANGED <<disk, lock, job, acked, denied, faults>> /\ Quiet

\* lock_session
Lock(p) ==
    /\ sess[p].st = "open" /\ job[p].at = "idle"
    /\ sess' = [sess EXCEPT ![p].st = "locked", ![p].v = {}]
    /\ UNCHANGED <<disk, lock, job, acked, denied, faults>> /\ Quiet

EditVault(p, e) ==
    /\ sess[p].st = "open" /\ job[p].at = "idle" /\ e \notin made
    /\ sess' = [sess EXCEPT ![p].v = @ \cup {e}]
    /\ made' = made \cup {e}
    /\ UNCHANGED <<platform, disk, copies, lock, job, count, acked, denied,
                   others, unsure, faults>>

\* save_vault up to write_local_source: the file is read without the lock.
BeginSave(p) ==
    /\ sess[p].st = "open" /\ job[p].at = "idle" /\ count < MaxSaves /\ Room
    /\ count' = count + 1
    /\ LET k == count + 1
           cand == [ino |-> k, e |-> sess[p].v, s |-> k]
       IN  \E stage \in {"copy", "commit"} :
             /\ stage = "copy" => MayDiffer(dir[Target], sess[p].base)
             /\ stage = "commit" => SameBytes(dir[Target], sess[p].base)
             /\ job' = [job EXCEPT ![p] = [NoJob EXCEPT !.at = stage, !.k = k,
                                                        !.cand = cand]]
    /\ UNCHANGED <<platform, disk, copies, lock, sess, made, acked, denied,
                   others, unsure, faults>>

\* The backups of saves that died between linking and renaming.
HardLinks(d) ==
    {n \in Name \ {Target} : platform = "unix" /\ d[n].ino = d[Target].ino}

\* begin_write under the lock, and the verified temp of commit_inner.
BeginWrite(p) ==
    /\ job[p].at = "commit" /\ LockFree /\ dir[Target].ino # 0
    /\ LET clean == [n \in Name |->
                       IF n \in HardLinks(dir) THEN NoFile ELSE dir[n]]
       IN  /\ dir' = clean
           /\ expo' = IF HardLinks(dir) = {} THEN expo ELSE {clean}
    /\ \/ /\ SameBytes(dir[Target], sess[p].base)
          /\ job' = [job EXCEPT ![p].at = "backup", ![p].init = dir[Target]]
          /\ lock' = p
          /\ NoFault /\ UNCHANGED <<sess, acked, denied>>
       \/ MayDiffer(dir[Target], sess[p].base)
            /\ Conflict(p) /\ NoFault /\ UNCHANGED lock
       \/ Fault /\ BeforePublish(p) /\ UNCHANGED lock
    /\ Quiet

\* The lock timed out, or the file is missing.
BeginWriteRefused(p) ==
    /\ job[p].at = "commit"
    /\ ~LockFree \/ dir[Target].ino = 0
    /\ Conflict(p)
    /\ UNCHANGED <<disk, lock, faults>> /\ Quiet

\* publish_backup: a hard link on unix, a copy on windows.
PublishBackup(p) ==
    /\ job[p].at = "backup"
    /\ IF dir[Target].ino = 0
         THEN BeforePublish(p) /\ Release /\ UNCHANGED disk
         ELSE /\ SetEntry(job[p].k,
                          IF platform = "unix" THEN dir[Target]
                          ELSE [dir[Target] EXCEPT !.ino = CopyInode(job[p].k)])
              /\ Continue(p, "flush") /\ UNCHANGED lock
    /\ NoFault /\ Quiet

\* publish_backup flushes the directory, or takes the backup back.
FlushBackup(p) ==
    /\ job[p].at = "flush"
    /\ \/ Flush /\ Continue(p, "verify") /\ UNCHANGED lock /\ NoFault
       \/ Fault /\ Discard(job[p].k) /\ BeforePublish(p) /\ Release
    /\ Quiet

\* ensure_current_generation, and publish_temp up to its last check.
Verify(p) ==
    /\ job[p].at = "verify"
    /\ \/ /\ dir[Target] = job[p].init
          /\ Continue(p, "rename") /\ NoFault /\ UNCHANGED <<disk, lock>>
       \/ /\ dir[Target] # job[p].init
          /\ Discard(job[p].k) /\ Conflict(p) /\ Release /\ NoFault
       \/ Fault /\ Discard(job[p].k) /\ BeforePublish(p) /\ Release
    /\ Quiet

\* replace_file: rename, or ReplaceFileW, which keeps the file it replaces
\* under the name n.
Replaced(d, f, n) ==
    IF platform = "unix" THEN Put(d, Target, f)
                         ELSE Put(Put(d, n, d[Target]), Target, f)

Replace(f, n) ==
    /\ platform = "windows" => dir[Target].ino # 0
    /\ dir' = Replaced(dir, f, n)
    /\ expo' = expo \cup {Replaced(d, f, n) : d \in expo}

\* ERROR_UNABLE_TO_MOVE_REPLACEMENT_2: the old file has its backup name and
\* the new one was not moved in.
HalfReplace(n) == platform = "windows" /\ dir[Target].ino # 0 /\ Replace(NoFile, n)

Rename(p) ==
    /\ job[p].at = "rename"
    /\ \/ Replace(job[p].cand, job[p].k)
            /\ Continue(p, "settle") /\ UNCHANGED lock /\ NoFault
       \/ Fault /\ HalfReplace(job[p].k) /\ UNCHANGED <<lock, sess, acked, denied>>
            /\ job' = [job EXCEPT ![p].at = "reconcile", ![p].why = "publish"]
       \/ /\ Fault \/ (NoFault /\ platform = "windows" /\ dir[Target].ino = 0)
          /\ Discard(job[p].k) /\ BeforePublish(p) /\ Release
    /\ Quiet

\* publish_temp after the rename: is the published file still there, then
\* flush.
Settle(p) ==
    /\ job[p].at = "settle"
    /\ \/ /\ dir[Target] = job[p].cand
          /\ Flush /\ Continue(p, "readback") /\ NoFault
       \/ /\ (dir[Target] # job[p].cand /\ NoFault) \/ Fault
          /\ job' = [job EXCEPT ![p].at = "reconcile", ![p].why = "publish"]
          /\ UNCHANGED <<disk, sess, acked, denied>>
    /\ UNCHANGED lock /\ Quiet

\* The final readback of commit_inner: the save is committed, and the backup
\* goes when it is verified to be the generation that was replaced.
FinalReadback(p) ==
    /\ job[p].at = "readback"
    /\ \/ /\ SameBytes(dir[Target], job[p].cand)
          /\ IsOriginal(dir[job[p].k], job[p].init)
          /\ Rebase(p) /\ Goto(p, "drop") /\ UNCHANGED <<lock, acked, denied>> /\ NoFault
       \/ /\ SameBytes(dir[Target], job[p].cand)
          /\ ~IsOriginal(dir[job[p].k], job[p].init)
          /\ Saved(p) /\ Release /\ NoFault
          /\ acked' = acked \cup job[p].cand.e
       \/ /\ (~SameBytes(dir[Target], job[p].cand) /\ NoFault) \/ Fault
          /\ job' = [job EXCEPT ![p].at = "reconcile", ![p].why = "readback"]
          /\ UNCHANGED <<lock, sess, acked, denied>>
    /\ UNCHANGED disk /\ Quiet

AfterReconcile(p) == IF job[p].why = "publish" THEN "rollback" ELSE "recover"

\* reconcile_published_commit: the visible file is the candidate, flush it
\* again and verify the backup, ...
Reconcile(p) ==
    /\ job[p].at = "reconcile"
    /\ \/ /\ SameBytes(dir[Target], job[p].cand)
          /\ Flush /\ NoFault
          /\ Continue(p, IF IsOriginal(dir[job[p].k], job[p].init)
                           THEN "drop" ELSE "recheck")
       \/ /\ (~SameBytes(dir[Target], job[p].cand) /\ NoFault) \/ Fault
          /\ Continue(p, AfterReconcile(p)) /\ UNCHANGED disk
    /\ UNCHANGED lock /\ Quiet

\* The backup that was verified is removed by name.  After the final readback
\* this ends save_vault, ...
DropOriginal(p) ==
    /\ job[p].at = "drop" /\ Discard(job[p].k) /\ NoFault
    /\ \/ /\ job[p].why = "none"
          /\ Fail(p) /\ Release /\ acked' = acked \cup job[p].cand.e
       \/ /\ job[p].why # "none"
          /\ Goto(p, "recheck") /\ UNCHANGED <<lock, acked>>
    /\ UNCHANGED <<sess, denied>> /\ Quiet

\* ... and a reconciliation looks at the vault once more.
Recheck(p) ==
    /\ job[p].at = "recheck"
    /\ \/ /\ SameBytes(dir[Target], job[p].cand)
          /\ Saved(p) /\ Release /\ NoFault
          /\ acked' = acked \cup job[p].cand.e
       \/ /\ (~SameBytes(dir[Target], job[p].cand) /\ NoFault) \/ Fault
          /\ Continue(p, AfterReconcile(p)) /\ UNCHANGED lock
    /\ UNCHANGED disk /\ Quiet

\* rollback_published_commit up to the last check of its publish_temp.
Rollback(p) ==
    /\ job[p].at = "rollback"
    /\ \/ /\ IsOriginal(dir[job[p].k], job[p].init)
          /\ SameBytes(dir[Target], job[p].cand)
          /\ Continue(p, "restore") /\ UNCHANGED lock /\ NoFault
       \/ /\ \/ NoFault /\ ~IsOriginal(dir[job[p].k], job[p].init)
             \/ NoFault /\ ~SameBytes(dir[Target], job[p].cand)
             \/ Fault
          /\ Continue(p, "unknown") /\ Release
    /\ UNCHANGED disk /\ Quiet

\* The rename of the previous bytes over the candidate.
Restore(p) ==
    /\ job[p].at = "restore"
    /\ LET previous == [job[p].init EXCEPT !.ino = RestoreInode(job[p].k)]
       IN  \/ Replace(previous, RollbackName(job[p].k))
                /\ Continue(p, "restored") /\ UNCHANGED lock /\ NoFault
           \/ Fault /\ HalfReplace(RollbackName(job[p].k))
                /\ Continue(p, "unknown") /\ Release
           \/ /\ Fault \/ (NoFault /\ platform = "windows" /\ dir[Target].ino = 0)
              /\ UNCHANGED disk /\ Continue(p, "unknown") /\ Release
    /\ Quiet

Cleared(d, k) == [d EXCEPT ![k] = NoFile, ![RollbackName(k)] = NoFile]

\* Mutant: the directory is flushed neither after the rename nor at the end.
ClearSiblingsUnflushed(k) ==
    dir' = Cleared(dir, k) /\ expo' = expo \cup {Cleared(d, k) : d \in expo}

\* Both siblings of a rollback are removed and the directory is flushed.
ClearSiblings(k) == dir' = Cleared(dir, k) /\ expo' = {Cleared(dir, k)}

\* After the rename of a rollback: the flush (a second one when the first
\* fails), the check of what was restored and the removal of the siblings.
Restored(p) ==
    /\ job[p].at = "restored"
    /\ \/ /\ SameBytes(dir[Target], job[p].init)
          /\ ClearSiblings(job[p].k) /\ BeforePublish(p) /\ NoFault
       \/ /\ ~SameBytes(dir[Target], job[p].init)
          /\ Flush \/ UNCHANGED disk
          /\ Continue(p, "unknown") /\ NoFault
       \/ \* a failed flush, or a failed last flush
          /\ Fault
          /\ \/ UNCHANGED disk
             \/ /\ SameBytes(dir[Target], job[p].init)
                /\ dir' = Cleared(dir, job[p].k)
                /\ expo' = {dir, Put(dir, job[p].k, NoFile), dir'}
          /\ Continue(p, "unknown")
    /\ Release /\ Quiet

\* persist_local_recovery_candidate: the candidate in a file of its own,
\* which starts as a copy of the backup.
Recover(p) ==
    /\ job[p].at = "recover"
    /\ \/ /\ dir[job[p].k].ino # 0 /\ NoFault
          /\ copies' = copies \cup job[p].cand.e
          /\ Flush
       \/ /\ (dir[job[p].k].ino = 0 /\ NoFault) \/ Fault
          /\ UNCHANGED <<disk, copies>>
    /\ Continue(p, "unknown") /\ Release
    /\ UNCHANGED <<platform, count, made, others, unsure>>

\* write_local_source after OutcomeUnknown, without the lock: the candidate is
\* visible, and the save is answered as saved with no flush known to have
\* succeeded, or it fails.  The error then says BeforePublish when the previous
\* bytes are visible; that is a readback and not the word of the commit, so it
\* does not count as denied.
Unknown(p) ==
    /\ job[p].at = "unknown"
    /\ IF SameBytes(dir[Target], job[p].cand)
         THEN Saved(p) /\ assumed' = assumed \cup job[p].cand.e
         ELSE Fail(p) /\ UNCHANGED <<sess, denied, assumed>>
    /\ UNCHANGED <<platform, disk, copies, lock, count, made, acked, others, cut,
                   faults>>

\* local_conflict_copy_result: the candidate in a conflict copy, the baseline
\* stays.
ConflictCopy(p) ==
    /\ job[p].at = "copy"
    /\ \/ /\ copies' = copies \cup job[p].cand.e
          /\ acked' = acked \cup job[p].cand.e
          /\ Flush /\ NoFault
       \/ Fault /\ UNCHANGED <<disk, copies, acked>>
    /\ Fail(p)
    /\ UNCHANGED <<platform, lock, sess, count, made, denied, others, unsure>>

----------------------------------------------------------------------------
(* The environment. *)

\* The edits somebody can read after d.
Readable(d) == copies \cup UNION {d[n].e : n \in Name}

Die(P) ==
    /\ sess' = [p \in Proc |-> IF p \in P THEN Closed ELSE sess[p]]
    /\ job' = [p \in Proc |-> IF p \in P THEN NoJob ELSE job[p]]
    /\ lock' = IF lock \in P THEN NoProc ELSE lock
    /\ UNCHANGED <<platform, copies, count, made, acked, denied, others, assumed>>

Crash(p) ==
    Fault /\ sess[p].st # "closed" /\ Die({p}) /\ UNCHANGED <<disk, cut>>

PowerLoss ==
    /\ Fault
    /\ \E d \in expo : /\ dir' = d /\ expo' = {d}
                       /\ cut' = cut \cup (assumed \ Readable(d))
    /\ Die(Proc)

\* Another program opens the vault, makes an edit and saves it in a new file.
ForeignReplace(e) ==
    /\ dir[Target].ino # 0 /\ e \notin made /\ count < MaxSaves /\ Room
    /\ count' = count + 1 /\ made' = made \cup {e}
    /\ LET f == [ino |-> count + 1, e |-> dir[Target].e \cup {e}, s |-> count + 1]
       IN  SetEntryAndFlush(Target, f)
    /\ foreign' = foreign \cup {e}
    /\ raced' = IF \E p \in Proc : \/ job[p].at = "rename" /\ platform = "unix"
                                   \/ job[p].at = "restore"
                  THEN raced \cup {e} ELSE raced
    /\ UNCHANGED <<platform, copies, lock, sess, job, acked, denied, gone, unsure,
                   faults>>

\* The stages of a save whose rename has taken the old file from its name.
Renamed == {"settle", "readback", "reconcile", "drop", "recheck", "rollback",
            "restore", "restored", "recover"}

\* Another program that opened the vault, perhaps before a save replaced it,
\* writes into the file it has open.
ForeignInPlace(e, n) ==
    /\ e \notin made /\ count < MaxSaves /\ Room /\ dir[n].ino # 0
    /\ n = Target \/ \E p \in Proc : /\ job[p].k = n /\ job[p].at \in Renamed
                                    /\ dir[n].ino = job[p].init.ino
    /\ count' = count + 1 /\ made' = made \cup {e}
    /\ LET i == dir[n].ino
           f == [ino |-> i, e |-> dir[n].e \cup {e}, s |-> count + 1]
       IN  dir' = Rewrite(dir, i, f) /\ expo' = {Rewrite(d, i, f) : d \in expo}
    /\ foreign' = foreign \cup {e}
    /\ raced' = IF \/ \E p \in Proc : \/ job[p].at = "restore"
                                      \/ job[p].at = "restored" /\ n # Target
                                      \/ job[p].at = "drop" /\ n = job[p].k
                                      \/ /\ job[p].at = "rename" /\ platform = "unix"
                                         /\ dir[job[p].k].ino # dir[n].ino
                   \/ \E d \in expo : \A m \in Name : d[m].ino # dir[n].ino
                  THEN raced \cup {e} ELSE raced
    /\ UNCHANGED <<platform, copies, lock, sess, job, acked, denied, gone, unsure,
                   faults>>

\* Another program moves the vault away.
ForeignDelete ==
    /\ Fault /\ dir[Target].ino # 0
    /\ SetEntryAndFlush(Target, NoFile)
    /\ gone' = gone \cup dir[Target].e
    /\ UNCHANGED <<platform, copies, lock, sess, job, count, made, acked, denied,
                   foreign, raced, unsure>>

Init ==
    /\ platform \in Platform
    /\ dir = [n \in Name |-> IF n = Target THEN FirstFile ELSE NoFile]
    /\ expo = {dir}
    /\ copies = {} /\ lock = NoProc
    /\ sess = [p \in Proc |-> Closed]
    /\ job = [p \in Proc |-> NoJob]
    /\ count = 0 /\ made = {} /\ acked = {} /\ denied = {}
    /\ assumed = {} /\ cut = {}
    /\ foreign = {} /\ gone = {} /\ raced = {} /\ faults = 0

Next ==
    \/ \E p \in Proc :
         \/ Open(p) \/ Unlock(p) \/ Lock(p)
         \/ BeginSave(p) \/ BeginWrite(p) \/ BeginWriteRefused(p)
         \/ PublishBackup(p) \/ FlushBackup(p) \/ Verify(p) \/ Rename(p)
         \/ Settle(p) \/ FinalReadback(p) \/ Reconcile(p) \/ DropOriginal(p)
         \/ Recheck(p) \/ Rollback(p) \/ Restore(p) \/ Restored(p) \/ Recover(p)
         \/ Unknown(p) \/ ConflictCopy(p) \/ Crash(p)
         \/ \E e \in Edit : EditVault(p, e)
    \/ \E e \in Edit : ForeignReplace(e) \/ \E n \in Name : ForeignInPlace(e, n)
    \/ ForeignDelete \/ PowerLoss

Spec == Init /\ [][Next]_vars

----------------------------------------------------------------------------
(* Properties. *)

\* The stages between begin_write and the end of commit_inner.
Locked == Stage \ {"idle", "commit", "unknown", "copy"}

\* Every variable has its type, what is visible could survive a power loss,
\* and a runtime holds the writer lock exactly while its LocalFileWriteTxn
\* lives.
TypeOK ==
    /\ platform \in Platform
    /\ dir \in Directory
    /\ expo \subseteq Directory /\ dir \in expo
    /\ copies \subseteq Edit /\ lock \in Proc \cup {NoProc}
    /\ sess \in [Proc -> Session]
    /\ job \in [Proc -> Job]
    /\ \A p \in Proc : lock = p <=> job[p].at \in Locked
    /\ count \in 0 .. MaxSaves
    /\ made \subseteq Edit /\ acked \subseteq Edit
    /\ assumed \subseteq Edit /\ cut \subseteq Edit
    /\ denied \subseteq Save
    /\ foreign \subseteq Edit /\ gone \subseteq Edit /\ raced \subseteq Edit
    /\ faults \in 0 .. MaxFaults

\* What a save answered "saved" or "conflict copy" for once its flush had
\* succeeded is readable after a power loss at any later moment, in the vault, in
\* a conflict copy or in a backup beside them.  What save_vault answered "saved"
\* for after an unknown outcome (runtime.rs:9095) may be taken by a power loss,
\* and by nothing else.  Rests on the order of link, flush, rename, flush and
\* removal of the backup in commit_inner and publish_temp.
AckedSurvives ==
    /\ \A d \in expo : acked \subseteq Readable(d) \cup gone
    /\ assumed \subseteq Readable(dir) \cup gone \cup cut

\* An edit another program wrote is still in some file, unless it was written
\* between the last check before a rename and that rename (on windows only
\* before the rename of a rollback), into the backup between its verification and
\* its removal, into the old file while a rollback is under way, or into a file
\* whose name was not flushed yet: a save never silently replaces it.
ForeignPreserved == foreign \subseteq Readable(dir) \cup gone \cup raced

\* A save whose commit reported BeforePublish did not publish, and no power loss later
\* brings its candidate back as the vault: the rollback of commit_inner undid
\* it durably.
NotPublishedIsTrue ==
    \A d \in expo : d[Target].ino # 0 => d[Target].s \notin denied

\* A commit holds the writer lock as long as its transaction lives, and what it
\* reports as not published is not, now or after a power loss.
CommitSound == TypeOK /\ NotPublishedIsTrue

\* For TLC: the edits and the runtimes are alike.
Symmetry == Permutations(Edit) \cup Permutations(Proc)
=============================================================================
