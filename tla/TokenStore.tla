----------------------------- MODULE TokenStore -----------------------------
(***************************************************************************)
(* The file of the OneDrive refresh token, shared by the runtimes of one   *)
(* user (onedrive_token_store.rs): the plaintext file of earlier releases  *)
(* is removed before the store is used, the protected file is replaced     *)
(* under a lock, with a backup to go back to, and is read only when nobody *)
(* else can have planted it.                                               *)
(***************************************************************************)
EXTENDS Naturals, FiniteSets, TLC

CONSTANTS
    Procs,       \* processes of the user that share the state directory
    None,
    Tokens,      \* refresh tokens the service may issue
    Garbage,     \* content that does not decrypt
    Oversized,   \* tokens whose protected form is beyond 64 KiB
    Platforms,   \* "windows": the protected file; "other": no store
    MaxTroubles  \* bound on failures, crashes and changes by other programs

\* Tokens are numbered as the service issues them, from 1; 0 is one that it
\* does not accept any more. The first may be in the file: it was stored.
ASSUME TokenBounds ==
    /\ MaxTroubles \in Nat /\ Oversized \subseteq Tokens \ {1}
    /\ Tokens \subseteq Nat /\ 1 \in Tokens /\ Garbage \notin Tokens

VARIABLES
    platform,
    dir,       \* the state directory: [id, what, owner, acl], or None
    legacy,    \* the plaintext file: None, "plain", or "odd" (not a file)
    target,    \* the protected file, or None
    sidecars,  \* temporary files and backups left beside it
    lock,      \* the process that holds the lock file, or None
    store,     \* per process: "none", "windows", "unavailable", "failed"
    step,      \* per process: its call of the store, or None
    asStored,  \* what the last answers say the file holds; None: nothing
    troubles

storeVars == <<platform, dir, legacy, target, sidecars, lock, store, step, asStored, troubles>>

Trouble == troubles < MaxTroubles /\ troubles' = troubles + 1
Calm == UNCHANGED troubles

(***************************************************************************)
(* Access control lists                                                    *)
(***************************************************************************)
Ace(sid, directory) == [sid |-> sid, inherit |-> directory]

\* private_sddl: the user, the system and the administrators, protected
\* from inheritance
private_sddl(directory) ==
    [protected |-> TRUE, aces |-> {Ace(s, directory) : s \in {"user", "system", "admins"}}]

\* A file created in a private directory; one that somebody opened up.
InheritedAcl == [protected |-> FALSE, aces |-> private_sddl(FALSE).aces]
LoosenedAcl == [protected |-> TRUE, aces |-> private_sddl(FALSE).aces \cup {Ace("everyone", FALSE)}]

\* private_acl_entries_match
private_acl_entries_match(expected, actual) ==
    actual.protected /\ expected.protected /\ expected.aces = actual.aces

CurrentOwner == "me"
file_owner_sid_string(o) == o.owner
validate_owner(o) == file_owner_sid_string(o) = CurrentOwner
validate_single_link_count(o) == o.links = 1

verify_private_acl(o, directory) ==
    /\ validate_owner(o)
    /\ directory \/ validate_single_link_count(o)
    /\ private_acl_entries_match(private_sddl(directory), o.acl)

\* What enforce_private_acl refuses to touch, and what it leaves.
Enforceable(o, directory) ==
    /\ o.what = IF directory THEN "dir" ELSE "file"
    /\ directory \/ validate_single_link_count(o)
    /\ validate_owner(o)
Enforced(o, directory) == [o EXCEPT !.acl = private_sddl(directory)]

File(data, acl) == [what |-> "file", links |-> 1, owner |-> CurrentOwner, acl |-> acl, data |-> data]
PrivateFile(data) == File(data, private_sddl(FALSE))

\* read_regular_file: one link, a regular file, and a bounded payload
Readable(o) == o # None => o.what = "file" /\ validate_single_link_count(o)

\* validate_protected_payload_size, of a token and of a file
validate_protected_payload_size(data) == data \notin Oversized

(***************************************************************************)
(* The directory                                                           *)
(***************************************************************************)
\* validate_existing_directory_ancestry: no component is a link.
AncestryOk == dir # None => dir.what = "dir"

\* create_dir_all_durable, then enforce_private_acl
DirectoryUsable == AncestryOk /\ (dir # None => Enforceable(dir, TRUE))
PreparedDirectory ==
    IF dir = None THEN [id |-> 1, what |-> "dir", owner |-> CurrentOwner, acl |-> private_sddl(TRUE)]
    ELSE Enforced(dir, TRUE)

\* What can be on disk.
FileType == [what : {"file", "link"}, links : {1, 2}, owner : {"me", "other"},
             acl : {private_sddl(FALSE), InheritedAcl, LoosenedAcl},
             data : Tokens \cup {Garbage}]
DirectoryType == [id : Nat, what : {"dir", "link"}, owner : {"me"}, acl : {private_sddl(TRUE)}]

(***************************************************************************)
(* production_store: the plaintext file goes first.                        *)
(***************************************************************************)
Begin(p, s) == step' = [step EXCEPT ![p] = s]

Backend == IF platform = "windows" THEN "windows" ELSE "unavailable"
Chosen(p, k) == store' = [store EXCEPT ![p] = k] /\ Begin(p, None)

\* remove_legacy_plaintext_token as far as the lock
remove_legacy_plaintext_token(p) ==
    /\ store[p] = "none" /\ step[p] = None
    /\ IF ~AncestryOk THEN Chosen(p, "failed")
       ELSE IF dir = None \/ legacy = None THEN Chosen(p, Backend)
       ELSE IF legacy = "odd" THEN Chosen(p, "failed")
       ELSE /\ Begin(p, [at |-> "legacy", id |-> dir.id])
            /\ UNCHANGED store
    /\ Calm
    /\ UNCHANGED <<platform, dir, legacy, target, sidecars, lock, asStored>>

At(p, where) == step[p] # None /\ step[p].at = where

DeletesLegacy(p) ==
    /\ At(p, "legacy")
    /\ UNCHANGED <<platform, dir, target, sidecars, lock, asStored>>

\* The lock is taken, and the directory is still the one looked at.
DeleteLegacy(p) ==
    /\ DeletesLegacy(p)
    /\ lock = None /\ dir # None /\ dir.id = step[p].id
    /\ legacy' = None
    /\ Chosen(p, Backend) /\ Calm

\* Mutant: the store is used although the file is still there.
KeepLegacyAnyway(p) ==
    /\ DeletesLegacy(p)
    /\ \/ /\ ~(lock = None /\ dir # None /\ dir.id = step[p].id)
          /\ Calm
       \/ Trouble
    /\ Chosen(p, Backend)
    /\ UNCHANGED legacy

\* It is not: the lock stays busy for two seconds, the directory was
\* replaced, or the deletion fails.
KeepLegacy(p) ==
    /\ DeletesLegacy(p)
    /\ \/ /\ lock # None \/ dir = None \/ dir.id # step[p].id
          /\ Calm
       \/ Trouble
    /\ Chosen(p, "failed")
    /\ UNCHANGED legacy

(***************************************************************************)
(* load: Answer(None) for no token, Answer("error")                        *)
(***************************************************************************)
LoadFails(p) ==
    \/ store[p] \in {"failed", "unavailable"}
    \/ ~AncestryOk
    \/ dir # None /\ ~Enforceable(dir, TRUE)
    \/ lock # None
    \/ target # None /\ ~(Enforceable(target, FALSE) /\ Readable(target))
    \/ target # None /\ ~validate_protected_payload_size(target.data)
    \/ target # None /\ target.data = Garbage

Loaded == IF dir = None \/ target = None THEN None ELSE target.data

\* Its access control lists are put right on the way.
LoadRepairs ==
    /\ dir' = IF dir = None THEN None ELSE Enforced(dir, TRUE)
    /\ target' = IF target = None THEN None ELSE Enforced(target, FALSE)

(***************************************************************************)
(* store                                                                   *)
(***************************************************************************)
Tmp(t) == [mark |-> "tmp", data |-> t]
Bak(t) == [mark |-> "bak", data |-> t]

\* The call of store by a process, and its answer.
Call(tok) == [at |-> "lock", tok |-> tok, had |-> FALSE, prev |-> None]
Answered(r) == [at |-> "done", result |-> r]

\* The steps of a call: a look at the legacy file, a write, its answer.
LookType == [at : {"legacy"}, id : Nat]
CallType == [at : {"lock", "publish", "settle", "unsure", "restore"}, tok : Tokens,
             had : BOOLEAN, prev : FileType \cup {None}]
AnswerType == [at : {"done"}, result : {"ok", "error", "stuck", "unavailable"}]

\* The value that stands for "none" is none of the values it stands for.
ASSUME NoneAssumption ==
    /\ None \notin Procs /\ None \notin Tokens /\ None # Garbage
    /\ None \notin FileType /\ None \notin DirectoryType
    /\ None \notin LookType /\ None \notin CallType /\ None \notin AnswerType

FirstStep(p, tok) ==
    IF store[p] = "windows" THEN Call(tok)
    ELSE Answered(IF store[p] = "unavailable" THEN "unavailable" ELSE "error")

\* Whatever precedes the temporary file: directory, lock, target, protection.
PrepareFails(p) ==
    \/ ~DirectoryUsable
    \/ lock # None
    \/ target # None /\ ~Enforceable(target, FALSE)
    \/ ~validate_protected_payload_size(step[p].tok)

PrepareStore(p) ==
    /\ At(p, "lock")
    /\ \/ /\ PrepareFails(p) /\ Calm
          /\ Begin(p, Answered("error"))
          /\ UNCHANGED <<dir, target, sidecars, lock>>
       \/ /\ ~PrepareFails(p) /\ Trouble
          /\ Begin(p, Answered("error"))
          /\ dir' = PreparedDirectory
          /\ UNCHANGED <<target, sidecars, lock>>
       \/ /\ ~PrepareFails(p) /\ Calm
          /\ dir' = PreparedDirectory
          /\ lock' = p
          /\ target' = IF target = None THEN None ELSE Enforced(target, FALSE)
          /\ sidecars' = sidecars \cup {Tmp(step[p].tok)}
          /\ Begin(p, [step[p] EXCEPT !.at = "publish", !.had = target # None])
    /\ UNCHANGED <<platform, legacy, store, asStored>>

\* Mutant: an answer leaves the lock behind.
FinishLocked(p, r) == Begin(p, Answered(r)) /\ UNCHANGED lock
Finish(p, r) == Begin(p, Answered(r)) /\ lock' = None
Goes(p, where) == Begin(p, [step[p] EXCEPT !.at = where])

\* publish_temp: the target is what it was, and takes the temporary file's
\* place; the old one becomes the backup. ReplaceFileW may stop half way
\* (ERROR_UNABLE_TO_MOVE_REPLACEMENT_2), with the target gone.
PublishToken(p) ==
    /\ At(p, "publish")
    /\ LET s == step[p]
           new == Tmp(s.tok)
           old == IF s.had THEN {Bak(target.data)} ELSE {}
       IN
       IF s.had # (target # None)
       THEN /\ Finish(p, "error") /\ Calm
            /\ sidecars' = sidecars \ {new}
            /\ UNCHANGED target
       ELSE \/ /\ target' = File(s.tok, InheritedAcl)
               /\ sidecars' = (sidecars \ {new}) \cup old
               /\ Begin(p, [s EXCEPT !.at = "settle", !.prev = target])
               /\ Calm /\ UNCHANGED lock
            \/ /\ Trouble /\ Finish(p, "error")
               /\ sidecars' = sidecars \ {new}
               /\ UNCHANGED target
            \/ /\ s.had /\ Trouble
               /\ target' = None
               /\ sidecars' = sidecars \cup old
               /\ Begin(p, [s EXCEPT !.at = "unsure", !.prev = target])
               /\ UNCHANGED lock
    /\ UNCHANGED <<platform, dir, legacy, store, asStored>>

Backups(p) == IF step[p].had THEN {Bak(step[p].prev.data)} ELSE {}

\* Nothing went wrong: the list is verified and the backup removed.
SettleStore(p) ==
    /\ At(p, "settle")
    /\ LET s == step[p] IN
       \/ /\ target # None /\ target.data = s.tok /\ Enforceable(target, FALSE)
          /\ target' = Enforced(target, FALSE)
          /\ \/ Calm /\ sidecars' = sidecars \ Backups(p)
             \/ Trouble /\ UNCHANGED sidecars
          /\ Finish(p, "ok") /\ asStored' = s.tok
       \/ /\ target # None /\ target.data = s.tok /\ ~Enforceable(target, FALSE)
          /\ Goes(p, "restore") /\ Calm
          /\ UNCHANGED <<target, sidecars, lock, asStored>>
       \/ /\ ~(target # None /\ target.data = s.tok)
          /\ Goes(p, "unsure") /\ Calm
          /\ UNCHANGED <<target, sidecars, lock, asStored>>
       \/ /\ Trouble /\ Goes(p, "unsure")
          /\ UNCHANGED <<target, sidecars, lock, asStored>>
    /\ UNCHANGED <<platform, dir, legacy, store>>

\* The publication failed after the target may have changed: keep the new
\* token if it is there and can be made durable, else go back.
ReadBack(p) ==
    /\ At(p, "unsure")
    /\ LET visible == target # None /\ Readable(target) /\ target.data = step[p].tok IN
       \/ /\ visible /\ Enforceable(target, FALSE) /\ Calm
          /\ target' = Enforced(target, FALSE)
          /\ sidecars' \in {{}, sidecars}    \* the clean-up may fail
          /\ Finish(p, "ok") /\ asStored' = step[p].tok
       \/ /\ visible /\ (Enforceable(target, FALSE) => troubles < MaxTroubles)
          /\ troubles' = IF Enforceable(target, FALSE) THEN troubles + 1 ELSE troubles
          /\ Goes(p, "restore")
          /\ UNCHANGED <<target, sidecars, lock, asStored>>
       \/ /\ ~visible /\ Calm
          /\ Goes(p, "restore")
          /\ UNCHANGED <<target, sidecars, lock, asStored>>
    /\ UNCHANGED <<platform, dir, legacy, store>>

\* restore_previous_token_state: from the backup, or by removal.
\* Mutant: always by removal.
PreviousRemoved(p) == None
Previous(p) == IF step[p].had THEN PrivateFile(step[p].prev.data) ELSE None
CanRestore(p) == step[p].had /\ target # None => target.what = "file"

restore_previous_token_state(p) ==
    /\ At(p, "restore")
    /\ \/ /\ CanRestore(p) /\ Calm
          /\ target' = Previous(p)
          /\ sidecars' = sidecars \ Backups(p)
          /\ Finish(p, "error")
          /\ UNCHANGED asStored
       \/ /\ IF CanRestore(p) THEN Trouble ELSE Calm
          /\ target' \in {target} \cup (IF CanRestore(p) /\ step[p].had THEN {Previous(p)} ELSE {})
          /\ Finish(p, "stuck")
          /\ asStored' = None
          /\ UNCHANGED sidecars
    /\ UNCHANGED <<platform, dir, legacy, store>>

StoreStep(p) ==
    \/ PrepareStore(p)
    \/ PublishToken(p)
    \/ SettleStore(p)
    \/ ReadBack(p)
    \/ restore_previous_token_state(p)

(***************************************************************************)
(* What else can happen to the files                                       *)
(***************************************************************************)

\* Another program of the user changes the protected file.
Tamper ==
    /\ target # None /\ Trouble
    /\ target' \in {None, [target EXCEPT !.data = Garbage], [target EXCEPT !.links = 2],
                    [target EXCEPT !.owner = "other"], [target EXCEPT !.what = "link"],
                    [target EXCEPT !.acl = LoosenedAcl]}
    /\ asStored' = IF target' = [target EXCEPT !.acl = LoosenedAcl] THEN asStored ELSE None
    /\ UNCHANGED <<platform, dir, legacy, sidecars, lock, store, step>>

\* The state directory is replaced while nobody works in it.
ReplaceDirectory ==
    /\ dir # None /\ lock = None /\ Trouble
    /\ \A p \in Procs : step[p] # None => step[p].at = "legacy"
    /\ dir' \in {[dir EXCEPT !.id = @ + 1, !.what = w] : w \in {"dir", "link"}}
    /\ target' = None /\ sidecars' = {} /\ asStored' = None
    /\ UNCHANGED <<platform, legacy, lock, store, step>>

\* A process ends; its lock ends with it, its files stay.
StoreCrash(p) ==
    /\ store' = [store EXCEPT ![p] = "none"]
    /\ Begin(p, None)
    /\ lock' = IF lock = p THEN None ELSE lock
    /\ asStored' = IF step[p] # None /\ step[p].at \in {"settle", "unsure", "restore"} THEN None ELSE asStored
    /\ UNCHANGED <<platform, dir, legacy, target, sidecars>>

StoreInit ==
    /\ platform \in Platforms
    /\ legacy \in {None, "plain", "odd"}
    /\ \/ dir = None /\ target = None /\ legacy = None /\ asStored = None
       \/ /\ dir = [id |-> 1, what |-> "dir", owner |-> CurrentOwner, acl |-> private_sddl(TRUE)]
          /\ \/ target = None /\ asStored = None
             \/ /\ platform = "windows" /\ legacy # "odd"
                /\ target = PrivateFile(1) /\ asStored = 1
    /\ sidecars = {} /\ lock = None
    /\ store = [p \in Procs |-> "none"]
    /\ step = [p \in Procs |-> None]
    /\ troubles = 0
=============================================================================
