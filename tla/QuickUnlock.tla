----------------------------- MODULE QuickUnlock -----------------------------
(***************************************************************************)
(* Unlocking in the resident application: by password, and by the record   *)
(* of quick unlock, which holds the master credential of a vault and a     *)
(* cached transformed key under a Windows Hello key.  The runtime is one   *)
(* worker thread that takes requests from a queue; the record's file, the  *)
(* settings, the policy gate (an atomic), the reconciliation channel of    *)
(* capacity one and its thread, the threads of the clients and the thread  *)
(* that saves settings run beside it, and other devices replace the vault  *)
(* files.  The client is the shipped user interface: a vault is unlocked   *)
(* after it was made current.                                              *)
(***************************************************************************)
EXTENDS KdbxFile, VaultReferences, FiniteSets

CONSTANTS
    Refs,           \* vault references
    Remote,         \* those of them that live on OneDrive and have a cache
    Legacy,         \* those of them that are KDBX 3 files at first
    Creds,          \* master credentials
    Clients,        \* threads that send commands to the worker
    NoFile, NoVault,
    MaxCommands,    \* bound: commands of the clients
    MaxTroubles,    \* bound: setting changes, foreign versions, faults, restarts, key resets
    MaxEvents       \* bound: commands and troubles together

\* Beside the threads of the clients there is the one that idles and the one that answers nobody.
ASSUME ClientsAssumption == Clients \cap {"idle", "none", "recon"} = {}

VARIABLES
    file,       \* the vault file of every reference, as its storage has it
    kept,       \* the version the runtime loaded last: its base and the remote cache
    refs,       \* the reference store
    session,    \* current reference, active reference, its open vault, preloaded?
    record,     \* the quick unlock records on disk
    side,       \* references with a temporary or backup file of a record
    hello,      \* the Windows Hello key: its state and its generation
    settings,   \* the saved setting: quick unlock enabled
    gate,       \* the policy gate the worker reads
    saver,      \* the thread that saves settings
    chan,       \* the reconciliation channel
    recon,      \* the reconciliation thread
    status,     \* the result of the last reconciliation
    queue,      \* requests to the worker
    work,       \* the operation of the worker
    client,     \* the threads of the clients
    written,    \* history: every version that some program saved, with its content
    spent       \* the last serial number and how much of each bound is used up

vars == <<file, kept, refs, session, record, side, hello, settings, gate, saver,
          chan, recon, status, queue, work, client, written, spent>>
disk == <<file, kept, refs, record, side, settings, written>>
threads == <<saver, chan, recon, status, queue, client>>

-----------------------------------------------------------------------------
Desktop == "Desktop"
Light == [algorithm |-> "Argon2id", cost |-> 64]      \* also what a migration asks for
Heavy == [algorithm |-> "Argon2id", cost |-> 300]     \* above the desktop's confirmation cap

Twice(n) == << [protect |-> FALSE, data |-> n], [protect |-> TRUE, data |-> n] >>
Content(n) == [id |-> n, attachments |-> Twice(n)]
FirstCred == CHOOSE c \in Creds : TRUE

Version(n, f) == [file |-> f, content |-> Content(n)]
Serial == spent.serial + 1

NoRecord == [absent |-> TRUE]     \* no file of a record

Idle == [op |-> "idle"]
IsIdle == work.op = "idle"
Locked(s) == [s EXCEPT !.active = NoRef, !.vault = NoVault, !.preloaded = FALSE]
set_current_vault(s, r) == [Locked(s) EXCEPT !.current = r]
Vault(key, content, dict, migrate) ==
    [key |-> key, content |-> content, dict |-> dict, migrate |-> migrate]
finish_unlock(s, r, vault) ==
    [current |-> r, active |-> r, vault |-> vault, preloaded |-> FALSE]
DictOf(f) == decode_with_consumed(f.header).vault.kdf

\* Every vault has a first version of its own; the user used one of them last.
First == CHOOSE number \in [Refs -> 1..Cardinality(Refs)] :
            \A r, q \in Refs : r # q => number[r] # number[q]
Init ==
    /\ file = [r \in Refs |->
                IF r \in Legacy THEN legacy_file(Content(First[r]), FirstCred, 6, First[r])
                ELSE save_kdbx(Content(First[r]), FirstCred, Light, "V4_1", First[r], First[r])]
    /\ kept = [r \in Refs |-> NoFile]
    /\ \E r \in Refs : refs = [vaults |-> Refs, current |-> r, cleanups |-> {}]
    /\ session = [current |-> refs.current, active |-> NoRef, vault |-> NoVault,
                  preloaded |-> FALSE]
    /\ record = [r \in Refs |-> NoRecord]
    /\ side = {}
    /\ hello = [state |-> "missing", generation |-> 0]
    /\ settings = TRUE /\ gate = TRUE
    /\ saver = "idle" /\ chan = <<>> /\ recon = "idle" /\ status = "none"
    /\ queue = <<>> /\ work = Idle
    /\ client = [c \in Clients |-> [at |-> "idle"]]
    /\ written = [r \in Refs |-> {Version(First[r], file[r])}]
    /\ spent = [serial |-> Cardinality(Refs), commands |-> 0, troubles |-> 0]

Spend(what) == [spent EXCEPT ![what] = @ + 1]
Room == spent.commands + spent.troubles < MaxEvents
Trouble == spent.troubles < MaxTroubles /\ Room
Fails == Trouble /\ spent' = Spend("troubles")

-----------------------------------------------------------------------------
(* The reconciliation channel.  A plain request is dropped when the channel*)
(* is full: the request that fills it has not been looked at yet.          *)

Plain == [cred |-> "none", ref |-> NoRef, from |-> "none"]
WithNotice(c) == IF Len(c) < 1 THEN Append(c, Plain) ELSE c
notify_reconciliation == chan' = WithNotice(chan)

-----------------------------------------------------------------------------
(* Settings: the file is replaced, then the gate follows, then a           *)
(* reconciliation is asked for.                                            *)

save_and_publish(enabled) ==
    /\ saver = "idle" /\ Trouble
    /\ settings' = enabled /\ saver' = "written" /\ spent' = Spend("troubles")
    /\ UNCHANGED <<file, kept, refs, session, record, side, hello, gate, chan, recon,
                   status, queue, work, client, written>>
set_quick_unlock_enabled ==
    /\ saver = "written" /\ saver' = "published" /\ gate' = settings
    /\ UNCHANGED <<disk, session, hello, chan, recon, status, queue, work, client, spent>>
schedule_reconciliation ==
    /\ saver = "published" /\ saver' = "idle" /\ notify_reconciliation
    /\ UNCHANGED <<disk, session, hello, gate, recon, status, queue, work, client, spent>>

(* The reconciliation thread reads the settings and asks the worker. *)
reconcile_desktop_settings ==
    /\ recon = "idle" /\ chan # <<>>
    /\ recon' = Head(chan).from /\ chan' = Tail(chan)
    /\ queue' = Append(queue, [cmd |-> "reconcile", from |-> "recon", enabled |-> settings,
                               cred |-> Head(chan).cred, ref |-> Head(chan).ref])
    /\ UNCHANGED <<disk, session, hello, gate, saver, status, work, client, spent>>

AnsweredOnReply(from) == client
Answered(from) ==
    IF from \in Clients THEN [client EXCEPT ![from] = [at |-> "idle"]] ELSE client

\* Its settings cannot be read: the waiting client is told so.
ReconLoadFails ==
    /\ recon = "idle" /\ chan # <<>> /\ Fails
    /\ chan' = Tail(chan) /\ status' = "failed"
    /\ client' = Answered(Head(chan).from)
    /\ UNCHANGED <<disk, session, hello, gate, saver, recon, queue, work>>

-----------------------------------------------------------------------------
(* Clients *)

Commands(c) ==
    [from : {c}, cmd : {"unlock", "unlock_loaded"}, cred : Creds]
    \cup [from : {c}, cmd : {"set_current", "add", "delete"}, ref : Refs]
    \cup [from : {c}, cmd : {"queue"}, ref : Refs, cred : Creds]
    \cup [from : {c}, cmd : {"quick", "preload", "lock", "save", "adopt", "historical"}]

\* A choice without a difference is left out: the current vault made current is
\* locked, a known one that is added becomes current.
Differs(command) ==
    /\ command.cmd = "set_current" => command.ref # session.current
    /\ command.cmd = "add" => command.ref \notin refs.vaults
Send(c, command) ==
    /\ Differs(command)
    /\ client[c].at = "idle" /\ spent.commands < MaxCommands /\ Room
    /\ queue' = Append(queue, command)
    /\ client' = [client EXCEPT ![c] = [at |-> "waiting"]]
    /\ spent' = Spend("commands")
    /\ UNCHANGED <<disk, session, hello, gate, saver, chan, recon, status, work>>

(* Credentials wait for room in the channel, then for the answer. *)
reconcile_with_quick_unlock_credentials(c) ==
    /\ client[c].at = "handoff" /\ Len(chan) < 1
    /\ chan' = Append(chan, [cred |-> client[c].cred, ref |-> client[c].ref, from |-> c])
    /\ client' = [client EXCEPT ![c] = [at |-> "completing"]]
    /\ UNCHANGED <<disk, session, hello, gate, saver, recon, status, queue, work, spent>>
ClientNotifies(c) ==
    /\ client[c].at = "notify" /\ notify_reconciliation
    /\ client' = [client EXCEPT ![c] = [at |-> "idle"]]
    /\ UNCHANGED <<disk, session, hello, gate, saver, recon, status, queue, work, spent>>

-----------------------------------------------------------------------------
(* The worker: the reply ends an operation. *)

Reply(from, state) == client' = [client EXCEPT ![from] = state]
Done(from) == Reply(from, [at |-> "idle"])
\* The end of a reconciliation: its status, and the client that waits for it.
Reconciled(result) ==
    /\ recon' = "idle" /\ status' = result /\ client' = Answered(recon)

Takes(cmd) == IsIdle /\ queue # <<>> /\ Head(queue).cmd = cmd
Request == Head(queue)

\* A command that only changes the reference store and the session.
Simple(cmd) == Takes(cmd) /\ queue' = Tail(queue) /\ work' = Idle /\ Done(Request.from)
Aside == UNCHANGED <<file, record, side, hello, settings, gate, saver, chan, recon,
                     status, written, spent>>

lock_session == Simple("lock") /\ session' = Locked(session) /\ Aside /\ UNCHANGED <<kept, refs>>
set_current == Simple("set_current") /\ Aside /\ UNCHANGED kept
    /\ IF Request.ref \in refs.vaults
       THEN /\ refs' = mark_current(refs, Request.ref)
            /\ session' = set_current_vault(session, Request.ref)
       ELSE UNCHANGED <<refs, session>>
add_vault_reference == Simple("add") /\ Aside /\ UNCHANGED kept
    /\ refs' = upsert(refs, Request.ref)
    /\ session' = set_current_vault(session, Request.ref)

(* The bytes of the current source: the file, or for a remote vault that   *)
(* cannot be reached, the cache.  Loading a local file makes its reference *)
(* current again; an open copy of the vault is dropped.                    *)
Readable(r) == {file[r]} \cup (IF r \in Remote /\ kept[r] # NoFile THEN {kept[r]} ELSE {})
Loading(r) == IF r \in Remote THEN [session EXCEPT !.vault = NoVault]
              ELSE set_current_vault(session, r)
load_source_snapshot(r, bytes) ==
    /\ source_for(refs, r) /\ bytes \in Readable(r)
    /\ kept' = [kept EXCEPT ![r] = bytes]
    /\ refs' = IF r \in Remote THEN refs ELSE upsert(refs, r)

preload_current_vault_snapshot == Simple("preload") /\ Aside
    /\ LET r == session.current
       IN IF r # NoRef /\ source_for(refs, r)
             /\ ~session.preloaded /\ session.vault = NoVault
          THEN \E bytes \in Readable(r) :
                  /\ load_source_snapshot(r, bytes)
                  /\ session' = [Loading(r) EXCEPT !.preloaded = TRUE]
          ELSE UNCHANGED <<kept, refs, session>>

-----------------------------------------------------------------------------
(* Unlocking by password.  A KDBX 3 file is migrated in memory: the        *)
(* session works on the migrated copy, whose salt is fresh.                *)

\* The open vault a credential makes of some bytes, or an error.
UnlockedWith(bytes, cred) ==
    IF inspect_kdbx_header(bytes) = "V3"
    THEN LET legacy == load_kdbx3(bytes, cred, Desktop, FALSE)
             migrated == save_kdbx(legacy.vault, cred, Light, "V4_1", Serial, Serial)
             key == derive_transformed_key_with_policy(migrated, cred, Desktop, FALSE).key
         IN IF IsOpened(legacy)
            THEN Opened(Vault(key, load_kdbx_with_transformed_key(migrated, key).vault,
                              DictOf(migrated), TRUE))
            ELSE legacy
    ELSE LET key == derive_transformed_key_with_policy(bytes, cred, Desktop, FALSE)
             loaded == load_kdbx_with_transformed_key(bytes, key.key)
         IN IF key.error # "none" THEN Failed(key.error)
            ELSE IF IsOpened(loaded)
            THEN Opened(Vault(key.key, loaded.vault, DictOf(bytes), FALSE)) ELSE loaded

remember_quick_unlock_enrollment(from, r, cred) ==
    IF gate THEN Reply(from, [at |-> "handoff", cred |-> cred, ref |-> r])
    ELSE Reply(from, [at |-> "notify"])

FinishPassword(r, bytes, dropped) ==
    LET result == UnlockedWith(bytes, Request.cred)
    IN IF IsOpened(result)
       THEN /\ session' = finish_unlock(session, r, result.vault)
            /\ remember_quick_unlock_enrollment(Request.from, r, Request.cred)
            /\ spent' = IF result.vault.migrate THEN Spend("serial") ELSE spent
       ELSE session' = dropped /\ Done(Request.from) /\ UNCHANGED spent

unlock_current_vault ==
    /\ Takes("unlock") /\ queue' = Tail(queue) /\ work' = Idle
    /\ UNCHANGED <<file, record, side, hello, settings, gate, saver, chan, recon, status, written>>
    /\ LET r == session.current
       IN IF r = NoRef \/ ~source_for(refs, r)
          THEN Done(Request.from) /\ UNCHANGED <<kept, refs, session, spent>>
          ELSE IF session.preloaded
          THEN FinishPassword(r, kept[r], session) /\ UNCHANGED <<kept, refs>>
          ELSE \E bytes \in Readable(r) :
                  /\ load_source_snapshot(r, bytes)
                  /\ FinishPassword(r, bytes, Loading(r))

\* Opening a local file and unlocking what was loaded.
unlock_vault ==
    /\ Takes("unlock_loaded") /\ queue' = Tail(queue) /\ work' = Idle
    /\ UNCHANGED <<file, record, side, hello, settings, gate, saver, chan, recon, status, written>>
    /\ \E r \in Refs \ Remote :
          /\ kept' = [kept EXCEPT ![r] = file[r]]
          /\ refs' = upsert(refs, r)
          /\ FinishPassword(r, file[r], set_current_vault(session, r))

-----------------------------------------------------------------------------
(* Saving an edited vault whose source is the one it was loaded from (a    *)
(* source that changed is merged, which is not part of this module).  The  *)
(* key of the session and the KDF of the file stay; a migrated vault is a  *)
(* KDBX 4 file from here on.                                               *)

MaySave == session.vault # NoVault /\ file[session.active] = kept[session.active]
SaveVault ==
    LET r == session.active
        bytes == encode_kdbx_with_transformed_key(
                    Content(Serial), session.vault.key, "V4_1", Serial, session.vault.dict)
    IN /\ file' = [file EXCEPT ![r] = bytes]
       /\ kept' = [kept EXCEPT ![r] = bytes]
       /\ written' = [written EXCEPT ![r] = @ \cup {Version(Serial, bytes)}]
       /\ session' = [session EXCEPT !.vault.content = Content(Serial),
                                     !.vault.migrate = FALSE]

save_vault ==
    /\ Takes("save") /\ queue' = Tail(queue) /\ work' = Idle
    /\ UNCHANGED <<refs, record, side, hello, settings, gate, saver, chan, recon, status>>
    /\ IF MaySave
       THEN SaveVault /\ Reply(Request.from, [at |-> "notify"]) /\ spent' = Spend("serial")
       ELSE Done(Request.from) /\ UNCHANGED <<file, kept, written, session, spent>>

(* The idle timer: unsaved edits are saved, the worker asks for a          *)
(* reconciliation, and the session is locked.                              *)
persist_unsaved_before_idle_lock ==
    /\ IsIdle /\ MaySave /\ spent.commands < MaxCommands /\ Room
    /\ SaveVault /\ work' = [op |-> "idle_lock"]
    /\ spent' = [Spend("commands") EXCEPT !.serial = @ + 1]
    /\ UNCHANGED <<refs, record, side, hello, settings, gate, saver, chan, recon, status,
                   queue, client>>
notify_reconciliation_slot ==
    /\ work.op = "idle_lock" /\ notify_reconciliation
    /\ work' = Idle /\ session' = Locked(session)
    /\ UNCHANGED <<disk, hello, gate, saver, recon, status, queue, client, spent>>

-----------------------------------------------------------------------------
(* The file of a record.                                                   *)

RecordFor(cred, key) == [cred |-> cred, key |-> key, hello |-> hello.generation]
with_hello_key == hello.state = "ok"
HelloHolds(r) == with_hello_key /\ record[r].hello = hello.generation
contains(r) == record[r] # NoRecord /\ HelloHolds(r)

delete_quick_unlock_record(r) ==
    /\ record' = [record EXCEPT ![r] = NoRecord]
    /\ side' = side \ {r}
DeleteFails(r) ==
    /\ Fails
    /\ \/ UNCHANGED <<record, side>>
       \/ record' = [record EXCEPT ![r] = NoRecord] /\ side' \in {side, side \ {r}}

(* Storing: a verified temporary file, the replacement of the record (with *)
(* a backup of the old one), and the removal of what earlier attempts left.*)
(* `then' is what the operation does after a stored record, `error' after  *)
(* an error.  The replacement can fail before the record was replaced,     *)
(* after, or half way: the old record is then in the backup, the new one   *)
(* in the temporary file, and none at its place; nothing puts it back.     *)
Storing(r, stored, then, error) ==
    [op |-> "store", step |-> "temp", ref |-> r, stored |-> stored,
     then |-> then, error |-> error]
AtStore(step) == work.op = "store" /\ work.step = step
Rest == UNCHANGED <<file, kept, refs, session, hello, settings, gate, threads, written>>

StoreTemp ==
    /\ AtStore("temp") /\ Rest
    /\ \/ /\ side' = side \cup {work.ref} /\ work' = [work EXCEPT !.step = "replace"]
          /\ UNCHANGED <<record, spent>>
       \/ Fails /\ side' \in {side, side \cup {work.ref}} /\ work' = work.error
          /\ UNCHANGED record
publish_temp ==
    /\ AtStore("replace") /\ Rest
    /\ \/ /\ record' = [record EXCEPT ![work.ref] = work.stored]
          /\ work' = [work EXCEPT !.step = "cleanup"] /\ UNCHANGED <<side, spent>>
       \/ /\ Fails /\ work' = work.error
          /\ \/ /\ record' \in {record, [record EXCEPT ![work.ref] = work.stored]}
                /\ UNCHANGED side
             \/ /\ record[work.ref] # NoRecord
                /\ record' = [record EXCEPT ![work.ref] = NoRecord]
                /\ side' = side \cup {work.ref}
cleanup_quick_unlock_sidecars ==
    /\ AtStore("cleanup") /\ Rest /\ UNCHANGED record
    /\ \/ side' = side \ {work.ref} /\ work' = work.then /\ UNCHANGED spent
       \/ Fails /\ work' = work.error /\ UNCHANGED side

-----------------------------------------------------------------------------
(* Opening a file with a record.  The cached key is tried first; only when *)
(* the header's HMAC does not fit is the key derived again, and only the   *)
(* same mismatch once more means that the credential is out of date.       *)

Attempt(outcome, act, key, vault) ==
    [outcome |-> outcome, act |-> act, key |-> key, vault |-> vault]
NoAttempt(outcome, act) == Attempt(outcome, act, <<>>, <<>>)

unlock_from_blob_with_cache_policy(r, bytes, refresh) ==
    LET cached == load_kdbx_with_transformed_key(bytes, record[r].key)
        derived == derive_transformed_key_with_policy(bytes, record[r].cred, Desktop, FALSE)
        again == load_kdbx_with_transformed_key(bytes, derived.key)
    IN IF record[r] = NoRecord THEN NoAttempt("NotEnrolled", "keep")
       ELSE IF ~HelloHolds(r) THEN NoAttempt("NotEnrolled", "delete")
       ELSE IF IsOpened(cached)
       THEN Attempt("Unlocked", "keep", record[r].key, cached.vault)
       ELSE IF cached.error # "HeaderHmacMismatch" THEN NoAttempt("Error", "keep")
       ELSE IF derived.error # "none" THEN NoAttempt("Error", "keep")
       ELSE IF IsOpened(again)
       THEN Attempt("Unlocked", IF refresh THEN "store" ELSE "keep", derived.key, again.vault)
       ELSE IF again.error = "HeaderHmacMismatch"
       THEN NoAttempt("CredentialRequired", IF refresh THEN "delete" ELSE "keep")
       ELSE NoAttempt("Error", "keep")

\* The record meets an older version of the vault: it is read and left alone.
historical_as_current(r, bytes) == unlock_from_blob_with_cache_policy(r, bytes, TRUE)
unlock_historical_snapshot_from_blob(r, bytes) ==
    unlock_from_blob_with_cache_policy(r, bytes, FALSE)

-----------------------------------------------------------------------------
(* Quick unlock, and the adoption of a newer remote version by an open     *)
(* vault without edits, which falls back to the record when the key of     *)
(* the session does not open that version.                                 *)

Opening(mode, r, bytes) ==
    [op |-> mode, step |-> "blob", ref |-> r, bytes |-> bytes, from |-> Request.from]
AtOpening(step) == work.op \in {"quick", "adopt"} /\ work.step = step

unlock_current_vault_with_quick_unlock ==
    /\ Takes("quick") /\ queue' = Tail(queue) /\ Aside
    /\ LET r == session.current
       IN IF gate /\ r # NoRef /\ source_for(refs, r)
          THEN \E bytes \in Readable(r) :
                  /\ load_source_snapshot(r, bytes)
                  /\ session' = Loading(r)
                  /\ work' = Opening("quick", r, bytes) /\ UNCHANGED client
          ELSE Done(Request.from) /\ work' = Idle /\ UNCHANGED <<kept, refs, session>>

adopt_untouched_onedrive_head ==
    /\ Takes("adopt") /\ queue' = Tail(queue) /\ Aside /\ UNCHANGED refs
    /\ LET r == session.active
           loaded == load_kdbx_with_transformed_key(file[r], session.vault.key)
       IN IF session.vault = NoVault \/ r \notin Remote
          THEN Done(Request.from) /\ work' = Idle /\ UNCHANGED <<kept, session>>
          ELSE IF file[r] = kept[r]
          THEN Done(Request.from) /\ work' = Idle /\ UNCHANGED <<kept, session>>
          ELSE IF IsOpened(loaded)
          THEN /\ kept' = [kept EXCEPT ![r] = file[r]]
               /\ session' = [session EXCEPT !.vault.content = loaded.vault]
               /\ Reply(Request.from, [at |-> "notify"]) /\ work' = Idle
          ELSE IF loaded.error = "HeaderHmacMismatch" /\ gate /\ contains(r)
          THEN work' = Opening("adopt", r, file[r]) /\ UNCHANGED <<kept, session, client>>
          ELSE Done(Request.from) /\ work' = Idle /\ UNCHANGED <<kept, session>>

(* The record is read: Windows Hello asks for a gesture first. *)
BlobCancelled ==
    /\ AtOpening("blob") /\ contains(work.ref)
    /\ Done(work.from) /\ work' = Idle
    /\ UNCHANGED <<disk, session, hello, gate, saver, chan, recon, status, queue, spent>>
BlobRead ==
    /\ AtOpening("blob")
    /\ UNCHANGED <<file, kept, refs, session, hello, settings, gate, saver, chan, recon,
                   status, queue, written>>
    /\ LET r == work.ref
           attempt == unlock_from_blob_with_cache_policy(r, work.bytes, TRUE)
           ended == [op |-> work.op, step |-> "finish", ref |-> r, bytes |-> work.bytes,
                     from |-> work.from, key |-> attempt.key, vault |-> attempt.vault]
       IN CASE attempt.act = "delete" ->
                 /\ Done(work.from) /\ work' = Idle
                 /\ \/ delete_quick_unlock_record(r) /\ UNCHANGED spent
                    \/ DeleteFails(r)
            [] attempt.act = "store" ->
                 /\ work' = Storing(r, RecordFor(record[r].cred, attempt.key), ended, ended)
                 /\ UNCHANGED <<client, record, side, spent>>
            [] attempt.act = "keep" /\ attempt.outcome = "Unlocked" ->
                 work' = ended /\ UNCHANGED <<client, record, side, spent>>
            [] OTHER ->
                 Done(work.from) /\ work' = Idle /\ UNCHANGED <<record, side, spent>>

finish_unlock_from_blob ==
    /\ AtOpening("finish") /\ work' = Idle
    /\ UNCHANGED <<file, refs, record, side, hello, settings, gate, saver, chan, recon,
                   status, queue, written, spent>>
    /\ IF gate
       THEN /\ session' = finish_unlock(session, work.ref,
                              Vault(work.key, work.vault, DictOf(work.bytes), FALSE))
            /\ kept' = [kept EXCEPT ![work.ref] = work.bytes]
            /\ Reply(work.from, [at |-> "notify"])
       ELSE Done(work.from) /\ UNCHANGED <<session, kept>>

(* Merging a pending version needs the base it was made from, which an     *)
(* older key may close: any earlier version of the vault.                  *)
unlock_historical_snapshot ==
    /\ Takes("historical") /\ queue' = Tail(queue) /\ work' = Idle /\ Done(Request.from)
    /\ UNCHANGED <<file, kept, refs, session, hello, settings, gate, saver, chan, recon,
                   status, written, spent>>
    /\ LET r == session.active
       IN IF session.vault # NoVault /\ r \in Remote /\ gate /\ r = session.current /\ contains(r)
          THEN \E base \in written[r] :
                  IF unlock_historical_snapshot_from_blob(r, base.file).act = "delete"
                  THEN delete_quick_unlock_record(r)
                  ELSE UNCHANGED <<record, side>>
          ELSE UNCHANGED <<record, side>>

-----------------------------------------------------------------------------
(* Reconciliation *)

bind_quick_unlock_reconciliation_credentials ==
    /\ Takes("queue") /\ queue' = Tail(queue) /\ work' = Idle
    /\ Aside /\ UNCHANGED <<kept, refs, session>>
    /\ IF gate /\ session.current = Request.ref
       THEN Reply(Request.from, [at |-> "handoff", cred |-> Request.cred, ref |-> Request.ref])
       ELSE Done(Request.from)

EndReconciliation(result) == work' = Idle /\ Reconciled(result)
Enrolling(step) == [op |-> "enroll", step |-> step, ref |-> session.current, cred |-> Request.cred]
AtEnroll(step) == work.op = "enroll" /\ work.step = step
purge_names_of_records(recs, left) == {r \in Refs : recs[r] # NoRecord}
purge_names(recs, left) == {r \in Refs : recs[r] # NoRecord} \cup left


reconcile_quick_unlock ==
    /\ Takes("reconcile") /\ queue' = Tail(queue)
    /\ UNCHANGED <<disk, session, hello, gate, saver, chan, spent>>
    /\ IF gate # Request.enabled THEN EndReconciliation("ok")
       ELSE IF ~Request.enabled
       THEN /\ work' = [op |-> "purge", names |-> purge_names(record, side)]
            /\ UNCHANGED <<recon, status, client>>
       ELSE IF /\ session.current # NoRef /\ ~contains(session.current)
               /\ session.vault # NoVault
               /\ Request.cred # "none" /\ Request.ref = session.current
       THEN IF session.vault.migrate THEN EndReconciliation("failed")
            ELSE work' = Enrolling("presence") /\ UNCHANGED <<recon, status, client>>
       ELSE EndReconciliation("ok")

purge_quick_unlock_record_directory ==
    /\ work.op = "purge"
    /\ UNCHANGED <<file, kept, refs, session, hello, settings, gate, saver, chan, queue, written>>
    /\ \/ /\ work.names = {} /\ EndReconciliation("ok") /\ UNCHANGED <<record, side, spent>>
       \/ \E r \in work.names :
             \/ /\ delete_quick_unlock_record(r)
                /\ work' = [work EXCEPT !.names = @ \ {r}]
                /\ UNCHANGED <<recon, status, client, spent>>
             \/ DeleteFails(r) /\ EndReconciliation("failed")

(* Enrolling.  The key of Windows Hello is created when it is missing or   *)
(* was replaced; an existing one asks for a gesture.                       *)
recreate_hello_key == [state |-> "ok", generation |-> hello.generation + 1]
verify_hello_key_for_enrollment ==
    /\ with_hello_key /\ UNCHANGED hello
    /\ \/ work' = [work EXCEPT !.step = "verify"] /\ UNCHANGED <<recon, status, client>>
       \/ EndReconciliation("failed")
authorize_store_user_presence ==
    /\ AtEnroll("presence")
    /\ UNCHANGED <<disk, session, gate, saver, chan, queue, spent>>
    /\ \/ verify_hello_key_for_enrollment
       \/ /\ ~with_hello_key /\ hello' = recreate_hello_key
          /\ work' = [work EXCEPT !.step = "verify"] /\ UNCHANGED <<recon, status, client>>

(* The credential has to open the newest version, or the base when the     *)
(* source cannot be read.                                                  *)
OpensUnchecked(bytes, key) == TRUE
Opens(bytes, key) == IsOpened(load_kdbx_with_transformed_key(bytes, key))
EnrollmentKey(bytes, cred) ==
    LET derived == derive_transformed_key_with_policy(bytes, cred, Desktop, FALSE)
    IN IF derived.error # "none" THEN derived
       ELSE IF Opens(bytes, derived.key) THEN derived ELSE NotDerived("InvalidCredential")

read_current_snapshot(r) == {file[r], kept[r]}

enroll_quick_unlock_for_current_vault ==
    /\ AtEnroll("verify")
    /\ UNCHANGED <<disk, session, hello, gate, saver, chan, queue, spent>>
    /\ IF ~gate \/ ~with_hello_key THEN EndReconciliation("failed")
       ELSE \E bytes \in read_current_snapshot(work.ref) :
               LET derived == EnrollmentKey(bytes, work.cred)
               IN IF derived.error # "none" THEN EndReconciliation("failed")
                  ELSE /\ work' = Storing(work.ref, RecordFor(work.cred, derived.key),
                                          [work EXCEPT !.step = "check"],
                                          [work EXCEPT !.step = "failed"])
                       /\ UNCHANGED <<recon, status, client>>

\* Quick unlock was turned off meanwhile: the new record goes again.
EnrollEnds ==
    /\ UNCHANGED <<file, kept, refs, session, hello, settings, gate, saver, chan, queue, written>>
    /\ \/ /\ AtEnroll("failed") /\ EndReconciliation("failed")
          /\ UNCHANGED <<record, side, spent>>
       \/ /\ AtEnroll("check") /\ gate /\ EndReconciliation("ok")
          /\ UNCHANGED <<record, side, spent>>
       \/ /\ AtEnroll("check") /\ ~gate /\ EndReconciliation("failed")
          /\ \/ delete_quick_unlock_record(work.ref) /\ UNCHANGED spent
             \/ DeleteFails(work.ref)

-----------------------------------------------------------------------------
(* Deleting a reference: the store forgets it and remembers the cleanup in *)
(* one write; then the copies and the record go, and at last the intent.   *)
(* A new process first takes up the cleanups that were left.               *)

CleaningUp(names, from) == [op |-> "cleanup", names |-> names, from |-> from]
delete_vault_reference ==
    /\ Takes("delete") /\ queue' = Tail(queue)
    /\ Aside /\ UNCHANGED kept
    /\ IF source_for(refs, Request.ref)
       THEN /\ refs' = delete_with_current_policy(refs, Request.ref)
            /\ session' = IF session.current = Request.ref
                          THEN set_current_vault(session, NoRef) ELSE session
            /\ work' = CleaningUp({Request.ref}, Request.from) /\ UNCHANGED client
       ELSE Done(Request.from) /\ work' = Idle /\ UNCHANGED <<refs, session>>

complete_cleanup_despite_errors(r) ==
    /\ kept' = [kept EXCEPT ![r] = NoFile] /\ refs' = CleanupDone(refs, r)
    /\ \/ delete_quick_unlock_record(r) /\ UNCHANGED spent
       \/ DeleteFails(r)
complete_cleanup_while(r) ==
    \/ /\ kept' = [kept EXCEPT ![r] = NoFile] /\ delete_quick_unlock_record(r)
       /\ refs' = CleanupDone(refs, r) /\ UNCHANGED spent
    \/ /\ kept' = [kept EXCEPT ![r] = NoFile] /\ DeleteFails(r) /\ UNCHANGED refs
    \/ Fails /\ UNCHANGED <<kept, record, side, refs>>

reconcile_deleted_vault_cleanup ==
    /\ work.op = "cleanup"
    /\ UNCHANGED <<file, session, hello, settings, gate, saver, chan, recon, status, queue, written>>
    /\ \/ /\ work.names = {} /\ work' = Idle /\ client' = Answered(work.from)
          /\ UNCHANGED <<kept, record, side, refs, spent>>
       \/ \E r \in work.names :
             /\ work' = [work EXCEPT !.names = @ \ {r}] /\ UNCHANGED client
             /\ IF IntentIsCurrent(refs, r) THEN complete_cleanup_while(r)
                ELSE UNCHANGED <<kept, record, side, refs, spent>>

-----------------------------------------------------------------------------
(* The environment.  What it does to a vault file and to the key of        *)
(* Windows Hello commutes with every step but the worker's reads: it       *)
(* happens right before one.                                               *)

ReadsFile ==
    \/ AtEnroll("verify")
    \/ IsIdle /\ queue # <<>>
       /\ Request.cmd \in {"unlock", "unlock_loaded", "quick", "preload", "save", "adopt"}
ReadsHello ==
    \/ AtEnroll("verify") \/ AtOpening("blob")
    \/ IsIdle /\ queue # <<>> /\ Request.cmd \in {"reconcile", "adopt", "historical"}

\* Another device or program saves: any credential, a cheap or a costly KDF, or the KDF it found.
ForeignSave(r) ==
    /\ Trouble /\ ReadsFile
    /\ \E cred \in Creds : \E bytes \in
            {save_kdbx(Content(Serial), cred, kdf, "V4_1", Serial, Serial) : kdf \in {Light, Heavy}}
            \cup (IF inspect_kdbx_header(file[r]) = "V4"
                  THEN {encode_kdbx_with_transformed_key(Content(Serial),
                            derive_key(decode_kdbx4(DictOf(file[r])), cred), "V4_1", Serial,
                            DictOf(file[r]))}
                  ELSE {}) :
          /\ file' = [file EXCEPT ![r] = bytes]
          /\ written' = [written EXCEPT ![r] = @ \cup {Version(Serial, bytes)}]
    /\ spent' = [Spend("troubles") EXCEPT !.serial = @ + 1]
    /\ UNCHANGED <<kept, refs, session, record, side, hello, settings, gate, threads, work>>

\* Storage hands back something that nobody saved.
Damaged(r) ==
    {Truncated(file[r]),
     HeaderChanged(file[r], kdf_to_variant_dict(Light.algorithm, Light.cost, Serial + 1))}
    \cup {Spliced(file[r], v.file) :
            v \in {w \in written[r] : inspect_kdbx_header(w.file) = "V4" /\ w.file # file[r]}}
Damage(r) ==
    /\ Trouble /\ ReadsFile
    /\ inspect_kdbx_header(file[r]) = "V4" /\ \E v \in written[r] : v.file = file[r]
    /\ \E bytes \in Damaged(r) : file' = [file EXCEPT ![r] = bytes]
    /\ spent' = Spend("troubles")
    /\ UNCHANGED <<kept, refs, session, record, side, hello, settings, gate, threads, work, written>>

\* The user resets Windows Hello, or another enrolment replaces the key.
HelloReset ==
    /\ Trouble /\ ReadsHello /\ hello.state = "ok"
    /\ \E state \in {"missing", "bad"} : hello' = [hello EXCEPT !.state = state]
    /\ spent' = Spend("troubles")
    /\ UNCHANGED <<disk, session, gate, threads, work>>

\* The process ends, and starts again.
Restart ==
    /\ Fails
    /\ session' = [current |-> refs.current, active |-> NoRef, vault |-> NoVault,
                   preloaded |-> FALSE]
    /\ gate' = settings /\ saver' = "idle" /\ recon' = "idle" /\ status' = "none"
    /\ chan' = <<Plain>> /\ queue' = <<>> /\ work' = CleaningUp(refs.cleanups, "none")
    /\ client' = [c \in Clients |-> [at |-> "idle"]]
    /\ UNCHANGED <<disk, hello>>

-----------------------------------------------------------------------------
Worker ==
    \/ lock_session \/ set_current \/ add_vault_reference \/ preload_current_vault_snapshot
    \/ unlock_current_vault \/ unlock_vault \/ save_vault \/ notify_reconciliation_slot
    \/ StoreTemp \/ publish_temp \/ cleanup_quick_unlock_sidecars
    \/ unlock_current_vault_with_quick_unlock \/ adopt_untouched_onedrive_head
    \/ BlobCancelled \/ BlobRead \/ finish_unlock_from_blob \/ unlock_historical_snapshot
    \/ bind_quick_unlock_reconciliation_credentials \/ reconcile_quick_unlock
    \/ purge_quick_unlock_record_directory \/ authorize_store_user_presence
    \/ enroll_quick_unlock_for_current_vault \/ EnrollEnds
    \/ delete_vault_reference \/ reconcile_deleted_vault_cleanup
Saver == set_quick_unlock_enabled \/ schedule_reconciliation
Reconciler == reconcile_desktop_settings \/ ReconLoadFails
Client(c) == reconcile_with_quick_unlock_credentials(c) \/ ClientNotifies(c)
Environment ==
    \/ \E c \in Clients : \E command \in Commands(c) : Send(c, command)
    \/ \E enabled \in BOOLEAN : save_and_publish(enabled)
    \/ persist_unsaved_before_idle_lock
    \/ \E r \in Refs : ForeignSave(r) \/ Damage(r)
    \/ HelloReset \/ Restart

\* All threads are at rest: nobody has to move.
AtRest ==
    /\ saver = "idle" /\ chan = <<>> /\ recon = "idle" /\ IsIdle /\ queue = <<>>
    /\ \A c \in Clients : client[c].at = "idle"
    /\ UNCHANGED vars

Next ==
    \/ Worker \/ Saver \/ Reconciler \/ \E c \in Clients : Client(c)
    \/ Environment \/ AtRest

Spec == Init /\ [][Next]_vars

-----------------------------------------------------------------------------
(* Every request in flight belongs to one thread that waits for it, and    *)
(* the reconciliation thread has at most one request at the worker.        *)
Waits(c) == client[c].at \in {"waiting", "completing"}
Pending(c) ==
    {<<"queue", i>> : i \in {j \in 1..Len(queue) : queue[j].from = c}}
    \cup {<<"chan", i>> : i \in {j \in 1..Len(chan) : chan[j].from = c}}
    \cup (IF recon = c THEN {<<"recon">>} ELSE {})
    \cup (IF "from" \in DOMAIN work THEN IF work.from = c THEN {<<"work">>} ELSE {} ELSE {})
    \cup (IF work.op = "store" THEN IF "from" \in DOMAIN work.then
                                    THEN IF work.then.from = c THEN {<<"work">>} ELSE {} ELSE {}
          ELSE {})
TypeOK ==
    /\ session.current \in Refs \cup {NoRef} /\ session.active \in Refs \cup {NoRef}
    /\ (session.vault # NoVault => session.active # NoRef /\ session.current = session.active)
    /\ side \subseteq Refs /\ refs.vaults \subseteq Refs /\ Len(chan) <= 1
    /\ \A c \in Clients : Cardinality(Pending(c)) = (IF Waits(c) THEN 1 ELSE 0)
    /\ Cardinality({i \in 1..Len(queue) : queue[i].from = "recon"}) <= (IF recon = "idle" THEN 0 ELSE 1)

(* Quiet: no thread is on its way to a reconciliation. *)
Quiet == saver = "idle" /\ chan = <<>> /\ recon = "idle" /\ IsIdle

(* Turning quick unlock off removes every record and everything that was   *)
(* left of one: once the threads came to rest without an error, nothing    *)
(* of a credential is on disk, whatever enrolled meanwhile or died.        *)
DisabledLeavesNothing ==
    Quiet /\ ~settings /\ status = "ok" => side = {} /\ \A r \in Refs : record[r] = NoRecord

(* A record never holds a credential that was not seen to open the vault:  *)
(* its key opens a version of this vault that somebody saved.              *)
EnrolledOpens ==
    \A r \in Refs : record[r] # NoRecord =>
        \E v \in written[r] :
            /\ inspect_kdbx_header(v.file) = "V4"
            /\ IsOpened(load_kdbx_with_transformed_key(v.file, record[r].key))
            /\ derive_key(decode_kdbx4(DictOf(v.file)), record[r].cred) = record[r].key

(* An open vault shows one saved version, whole: never the parts of two,   *)
(* a shortened one or an attachment of another protection.                 *)
OpensAsSaved ==
    session.vault # NoVault =>
        session.vault.content \in {v.content : v \in written[session.active]}

(* A reference that is gone, with no cleanup due, left nothing behind.     *)
DeletedLeavesNothing ==
    \A r \in Refs : r \notin refs.vaults \cup refs.cleanups =>
        record[r] = NoRecord /\ r \notin side /\ kept[r] = NoFile

(* A record that would open the newest version disappears only while quick*)
(* unlock is off, with its vault, when a failed replacement left it in its *)
(* backup, or because the runtime took another version for the vault (one  *)
(* that was replaced since it was read, or the cached one of a source out  *)
(* of reach), which the record's credential does not open: reading the     *)
(* base of a merge, a cancelled gesture, damaged bytes or an expensive KDF *)
(* never cost a record.                                                    *)
Useful(r) ==
    /\ contains(r) /\ inspect_kdbx_header(file[r]) = "V4"
    /\ Opens(file[r], derive_key(decode_kdbx4(DictOf(file[r])), record[r].cred))
Refused(r, bytes) ==
    LET derived == derive_transformed_key_with_policy(bytes, record[r].cred, Desktop, FALSE)
    IN /\ derived.error = "none"
       /\ load_kdbx_with_transformed_key(bytes, derived.key).error = "HeaderHmacMismatch"
UsefulRecordKept ==
    [][\A r \in Refs : Useful(r) /\ record'[r] = NoRecord =>
            \/ ~gate \/ work.op = "purge"
            \/ r \notin refs.vaults
            \/ AtStore("replace") /\ work.ref = r /\ r \in side'
            \/ /\ work.op \in {"quick", "adopt"} /\ work.ref = r
               /\ work.bytes # file[r] /\ Refused(r, work.bytes)]_vars

(* A stored record opens the vault it was made for, and an open vault is   *)
(* one that was saved, whoever replaced the file meanwhile.                *)
RecordsSound == TypeOK /\ EnrolledOpens /\ OpensAsSaved

(* Turning quick unlock off and deleting a reference leave nothing of a    *)
(* credential, whatever crashed, failed or ran at the same time.           *)
NothingLeft == DisabledLeavesNothing /\ DeletedLeavesNothing
=============================================================================
