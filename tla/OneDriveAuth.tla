---------------------------- MODULE OneDriveAuth ----------------------------
(***************************************************************************)
(* The OneDrive account of the processes of one user: login over a         *)
(* loopback listener, access tokens, refresh tokens that the service may   *)
(* rotate and revoke, and requests to Graph (onedrive.rs), over the token  *)
(* file of TokenStore.                                                     *)
(***************************************************************************)
EXTENDS TokenStore, Sequences

CONSTANTS
    EnvToken,     \* VAULTKERN_ONEDRIVE_REFRESH_TOKEN, where it is set
    Requests,     \* what commands send: sequences of "get" and "put"
    MaxAttempts,  \* MAX_AUTHORIZED_GET_ATTEMPTS
    MaxCommands   \* bound on commands

\* The token of the environment was issued before the service is looked at.
ASSUME AuthBounds ==
    /\ {MaxAttempts, MaxCommands} \subseteq Nat
    /\ EnvToken \in Tokens /\ EnvToken <= 1
    /\ Requests \subseteq Seq({"get", "put"}) \ {<<>>}

VARIABLES
    env,      \* per process: EnvToken, or None
    mem,      \* per process: its token state [access, tok, origin], or None
    job,      \* per process: the command under way, or None
    pending,  \* per process: the login begun: None, "waiting", "code", "error"
    port,     \* the process that listens at the callback address, or None
    live,     \* the refresh tokens the service accepts
    minted,   \* the last token issued
    stored,   \* tokens that have been in the file
    refused,  \* tokens of logins that were answered with an error
    gone,     \* a live token was lost where no code could keep it
    commands

authVars == <<env, mem, job, pending, port, live, minted, stored, refused, gone, commands>>
vars == <<storeVars, authVars>>

Origins == {"Environment", "Store", "Unpersisted"}
TokenState == [access : BOOLEAN, tok : Tokens, origin : Origins]
ASSUME NoStateAssumption == None \notin TokenState

(***************************************************************************)
(* Start: new_from_env_with_refresh_token_store                            *)
(***************************************************************************)
Idle(p) == store[p] # "none" /\ step[p] = None /\ job[p].pc = "idle"
State(tok, origin, access) == [access |-> access, tok |-> tok, origin |-> origin]

Start(p) ==
    /\ job[p].pc = "down"
    /\ remove_legacy_plaintext_token(p) \/ DeleteLegacy(p) \/ KeepLegacy(p)
    /\ job' = IF store'[p] = "none" THEN job ELSE [job EXCEPT ![p].pc = "loading"]
    /\ UNCHANGED <<env, mem, pending, port, live, minted, stored, refused, gone, commands>>

\* The environment's token wins over the file; load_refresh_token_state.
load_refresh_token_state(p) ==
    /\ job[p].pc = "loading"
    /\ IF env[p] # None
       THEN /\ mem' = [mem EXCEPT ![p] = State(env[p], "Environment", FALSE)]
            /\ UNCHANGED <<dir, target, stored>>
       ELSE IF LoadFails(p) \/ Loaded = None
       THEN UNCHANGED <<mem, dir, target, stored>>
       ELSE /\ mem' = [mem EXCEPT ![p] = State(Loaded, "Store", FALSE)]
            /\ LoadRepairs
            /\ stored' = stored \cup {Loaded}
    /\ job' = [job EXCEPT ![p].pc = "idle"]
    /\ UNCHANGED <<platform, legacy, sidecars, lock, store, step, asStored, troubles>>
    /\ UNCHANGED <<env, pending, port, live, minted, refused, gone, commands>>

(***************************************************************************)
(* Commands. A command is the sequence of requests it makes: one for       *)
(* metadata or for a conditional write, one for each page of a listing,    *)
(* one or two for a snapshot, two for a conflict copy beside the item.     *)
(***************************************************************************)
NoJob == [pc |-> "idle", cmd |-> "none", rest |-> <<>>, attempt |-> 0, cur |-> None,
          origin |-> "Store", again |-> FALSE, then |-> "none"]

Command == commands < MaxCommands /\ commands' = commands + 1
Go(p, pc) == job' = [job EXCEPT ![p].pc = pc]

Request(p) ==
    /\ Idle(p) /\ Command
    /\ \E r \in Requests :
          job' = [job EXCEPT ![p] = [NoJob EXCEPT !.pc = "access", !.cmd = "graph", !.rest = r, !.attempt = 1]]
    /\ UNCHANGED <<storeVars, env, mem, pending, port, live, minted, stored, refused, gone>>

\* A command ends; the account label of a login is only looked up.
End(p) == job' = [job EXCEPT ![p] = NoJob]
EndsStep(p) == step' = [step EXCEPT ![p] = None]

(***************************************************************************)
(* access_token and refresh_access_token                                   *)
(***************************************************************************)
Exchanging(p, tok, origin) ==
    job' = [job EXCEPT ![p].pc = "exchange", ![p].cur = tok, ![p].origin = origin, ![p].again = FALSE]

StartStore(p, tok, then) ==
    /\ Begin(p, FirstStep(p, tok))
    /\ job' = [job EXCEPT ![p].pc = "storing", ![p].cur = tok, ![p].then = then]

\* Mutant: a fresh access token is handed out at once.
access_token_at_once(p) ==
    /\ job[p].pc = "access"
    /\ IF mem[p] = None
       THEN IF env[p] = None THEN End(p) ELSE Exchanging(p, env[p], "Environment")
       ELSE (mem[p].access /\ Go(p, "send")) \/ Exchanging(p, mem[p].tok, mem[p].origin)
    /\ UNCHANGED <<storeVars, env, mem, pending, port, live, minted, stored, refused, gone, commands>>

\* The access token may have expired since it was issued; a fresh one is
\* handed out once the refresh token is in the file.
access_token(p) ==
    /\ job[p].pc = "access"
    /\ IF mem[p] = None
       THEN /\ IF env[p] = None THEN End(p) ELSE Exchanging(p, env[p], "Environment")
            /\ UNCHANGED step
       ELSE \/ /\ mem[p].access /\ mem[p].origin # "Unpersisted"
               /\ Go(p, "send") /\ UNCHANGED step
            \/ /\ mem[p].access /\ mem[p].origin = "Unpersisted"
               /\ StartStore(p, mem[p].tok, "retry")
            \/ Exchanging(p, mem[p].tok, mem[p].origin) /\ UNCHANGED step
    /\ UNCHANGED <<platform, dir, legacy, target, sidecars, lock, store, asStored, troubles>>
    /\ UNCHANGED <<env, mem, pending, port, live, minted, stored, refused, gone, commands>>

\* The service answers with an access token and, or not, with another
\* refresh token; the old one may be revoked then.
Issue == minted + 1 \in Tokens
Rotates(tok) ==
    /\ Issue
    /\ minted' = minted + 1
    /\ live' \in {live \cup {minted + 1}, (live \ {tok}) \cup {minted + 1}}

\* A refused or failed exchange: the file may hold a token that another
\* process has rotated to.
ExchangeFailed(p) ==
    IF job[p].origin = "Store" /\ ~job[p].again THEN Go(p, "reload") ELSE End(p)

\* Without another refresh token, one that came from the file stays.
Adopted(p) == [mem EXCEPT ![p] = State(job[p].cur, "Store", TRUE)]

Exchange(p) ==
    /\ job[p].pc = "exchange"
    /\ \/ /\ job[p].cur \in live /\ Rotates(job[p].cur)
          /\ StartStore(p, minted', "rotated")
          /\ UNCHANGED <<mem, gone>> /\ Calm
       \/ /\ job[p].cur \in live
          /\ IF job[p].origin = "Store"
             THEN /\ mem' = Adopted(p)
                  /\ Go(p, "send") /\ UNCHANGED step
             ELSE StartStore(p, job[p].cur, "adopted") /\ UNCHANGED mem
          /\ UNCHANGED <<live, minted, gone>> /\ Calm
       \/ /\ job[p].cur \notin live
          /\ ExchangeFailed(p)
          /\ UNCHANGED <<step, mem, live, minted, gone>> /\ Calm
       \/ /\ Trouble                      \* the service is not reached
          /\ ExchangeFailed(p)
          /\ UNCHANGED <<step, mem, live, minted, gone>>
       \/ /\ Trouble                      \* its answer is lost
          /\ job[p].cur \in live /\ Rotates(job[p].cur)
          /\ gone' = (gone \/ job[p].cur \notin live')
          /\ ExchangeFailed(p)
          /\ UNCHANGED <<step, mem>>
    /\ UNCHANGED <<platform, dir, legacy, target, sidecars, lock, store, asStored>>
    /\ UNCHANGED <<env, pending, port, stored, refused, commands>>

\* refresh_access_token loads the file once more, and tries what it holds.
Reload(p) ==
    /\ job[p].pc = "reload"
    /\ IF LoadFails(p) \/ Loaded \in {None, job[p].cur}
       THEN End(p) /\ UNCHANGED <<dir, target, stored>>
       ELSE /\ job' = [job EXCEPT ![p].pc = "exchange", ![p].cur = Loaded, ![p].again = TRUE]
            /\ LoadRepairs
            /\ stored' = stored \cup {Loaded}
    /\ UNCHANGED <<platform, legacy, sidecars, lock, store, step, asStored, troubles>>
    /\ UNCHANGED <<env, mem, pending, port, live, minted, refused, gone, commands>>

(***************************************************************************)
(* What becomes of a call of the store                                     *)
(***************************************************************************)
Result(p) == step[p].result
IsUnavailable(p) == Result(p) = "unavailable"

\* The origin of the refresh token after a refresh
NextOrigin(p) ==
    IF Result(p) = "ok" THEN "Store"
    ELSE IF IsUnavailable(p) /\ (job[p].then = "adopted" \/ job[p].origin = "Environment")
         THEN job[p].origin
    ELSE "Unpersisted"

Returned(p) ==
    /\ job[p].pc = "storing" /\ At(p, "done")
    /\ EndsStep(p)
    /\ stored' = IF Result(p) = "ok" THEN stored \cup {job[p].cur} ELSE stored
    /\ gone' = (gone \/ Result(p) = "stuck")
    /\ UNCHANGED <<platform, dir, legacy, target, sidecars, lock, store, asStored, troubles>>
    /\ UNCHANGED <<env, pending, port, live, minted, commands>>

\* Mutant: a token that was not stored is dropped.
RefreshedIfStored(p) ==
    /\ job[p].then \in {"rotated", "adopted"} /\ Returned(p)
    /\ IF NextOrigin(p) = "Unpersisted"
       THEN End(p) /\ UNCHANGED mem
       ELSE Go(p, "send") /\ mem' = [mem EXCEPT ![p] = State(job[p].cur, NextOrigin(p), TRUE)]
    /\ UNCHANGED refused

\* refresh_access_token keeps the new token, stored or not, and answers
\* with the error of the store.
Refreshed(p) ==
    /\ job[p].then \in {"rotated", "adopted"} /\ Returned(p)
    /\ mem' = [mem EXCEPT ![p] = State(job[p].cur, NextOrigin(p), TRUE)]
    /\ IF NextOrigin(p) = "Unpersisted" THEN End(p) ELSE Go(p, "send")
    /\ UNCHANGED refused

\* access_token has stored the token that was left over.
Persisted(p) ==
    /\ job[p].then = "retry" /\ Returned(p)
    /\ IF Result(p) = "ok"
       THEN mem' = [mem EXCEPT ![p].origin = "Store"] /\ Go(p, "send")
       ELSE UNCHANGED mem /\ End(p)
    /\ UNCHANGED refused

\* Mutant: the state is replaced before the token is stored.
complete_login_first(p) ==
    /\ job[p].then = "login" /\ Returned(p)
    /\ mem' = [mem EXCEPT ![p] = State(job[p].cur, "Store", TRUE)]
    /\ End(p)
    /\ refused' = IF Result(p) \in {"ok", "stuck"} THEN refused ELSE refused \cup {job[p].cur}

\* complete_login: the state is replaced once the token is stored; then the
\* account's label is asked for.
complete_login(p) ==
    /\ job[p].then = "login" /\ Returned(p)
    /\ IF Result(p) = "ok"
       THEN /\ mem' = [mem EXCEPT ![p] = State(job[p].cur, "Store", TRUE)]
            /\ job' = [job EXCEPT ![p] = [NoJob EXCEPT !.pc = "access", !.cmd = "label", !.rest = <<"get">>, !.attempt = 1]]
            /\ UNCHANGED refused
       ELSE /\ End(p) /\ UNCHANGED mem
            /\ refused' = IF Result(p) = "stuck" THEN refused ELSE refused \cup {job[p].cur}

(***************************************************************************)
(* authorized_get and authorized_request                                   *)
(***************************************************************************)
NextRequest(p) ==
    IF Len(job[p].rest) = 1 THEN End(p)
    ELSE job' = [job EXCEPT ![p].pc = "access", ![p].rest = Tail(@), ![p].attempt = 1]
Again(p) == job' = [job EXCEPT ![p].pc = "access", ![p].attempt = @ + 1]

clear_access_token(p) == mem' = [mem EXCEPT ![p].access = FALSE]

Send(p) ==
    /\ job[p].pc = "send"
    /\ LET get == Head(job[p].rest) = "get" IN
       \/ NextRequest(p) /\ UNCHANGED mem /\ Calm
       \/ /\ Trouble                                     \* 401
          /\ IF get /\ job[p].attempt = 1
             THEN Again(p) /\ clear_access_token(p)
             ELSE End(p) /\ UNCHANGED mem
       \/ /\ Trouble                                     \* 429 and 503
          /\ IF get /\ job[p].attempt < MaxAttempts THEN Again(p) ELSE End(p)
          /\ UNCHANGED mem
       \/ Trouble /\ End(p) /\ UNCHANGED mem             \* any other answer, or none
    /\ UNCHANGED <<platform, dir, legacy, target, sidecars, lock, store, step, asStored>>
    /\ UNCHANGED <<env, pending, port, live, minted, stored, refused, gone, commands>>

(***************************************************************************)
(* Login                                                                   *)
(***************************************************************************)

\* start_loopback_callback_listener binds one address for all processes.
begin_login(p) ==
    /\ Idle(p) /\ Command
    /\ IF port = None
       THEN port' = p /\ pending' = [pending EXCEPT ![p] = "waiting"]
       ELSE UNCHANGED <<port, pending>>
    /\ UNCHANGED <<storeVars, env, mem, job, live, minted, stored, refused, gone>>

\* The listener takes one connection: the service's answer, by way of the
\* browser, or anything else (parse_callback_code).
Callback(p) ==
    /\ port = p
    /\ port' = None
    /\ pending' = IF pending[p] = "waiting"
                  THEN [pending EXCEPT ![p] = "code"] ELSE pending
    /\ UNCHANGED <<storeVars, env, mem, job, live, minted, stored, refused, gone, commands>>

StrayCallback(p) ==
    /\ port = p /\ Trouble
    /\ port' = None
    /\ pending' = IF pending[p] = "waiting" THEN [pending EXCEPT ![p] = "error"] ELSE pending
    /\ UNCHANGED <<platform, dir, legacy, target, sidecars, lock, store, step, asStored>>
    /\ UNCHANGED <<env, mem, job, live, minted, stored, refused, gone, commands>>

complete_pending_login(p) ==
    /\ Idle(p) /\ pending[p] # None /\ Command
    /\ job' = [job EXCEPT ![p] = [NoJob EXCEPT !.pc = "await", !.cmd = "login"]]
    /\ UNCHANGED <<storeVars, env, mem, pending, port, live, minted, stored, refused, gone>>

\* It waits up to ten minutes; the login is over either way.
AwaitCode(p) ==
    /\ job[p].pc = "await"
    /\ \/ pending[p] = "code" /\ Go(p, "code") /\ Calm
       \/ pending[p] = "error" /\ End(p) /\ Calm
       \/ pending[p] = "waiting" /\ Trouble /\ End(p)
    /\ pending' = [pending EXCEPT ![p] = None]
    /\ UNCHANGED <<platform, dir, legacy, target, sidecars, lock, store, step, asStored>>
    /\ UNCHANGED <<env, mem, port, live, minted, stored, refused, gone, commands>>

ExchangeCode(p) ==
    /\ job[p].pc = "code"
    /\ \/ /\ Issue /\ Calm
          /\ minted' = minted + 1 /\ live' = live \cup {minted + 1}
          /\ StartStore(p, minted + 1, "login")
       \/ Trouble /\ End(p) /\ UNCHANGED <<step, live, minted>>   \* or no refresh token
    /\ UNCHANGED <<platform, dir, legacy, target, sidecars, lock, store, asStored>>
    /\ UNCHANGED <<env, mem, pending, port, stored, refused, gone, commands>>

(***************************************************************************)
(* A process ends. What only it knew is gone with it.                      *)
(***************************************************************************)
Knows(p) ==
    (IF mem[p] = None THEN {} ELSE {mem[p].tok})
        \cup (IF job[p].pc = "storing" THEN {job[p].cur} ELSE {})

Crash(p) ==
    /\ job[p].pc # "down" /\ Trouble
    /\ StoreCrash(p)
    /\ job' = [job EXCEPT ![p] = [NoJob EXCEPT !.pc = "down"]]
    /\ mem' = [mem EXCEPT ![p] = None]
    /\ pending' = [pending EXCEPT ![p] = None]
    /\ port' = IF port = p THEN None ELSE port
    /\ gone' = (gone \/ asStored' # asStored \/ (Knows(p) \cap live) \ {asStored} # {})
    /\ UNCHANGED <<env, live, minted, stored, refused, commands>>

\* The files are changed by somebody else.
Disturb ==
    /\ Tamper \/ ReplaceDirectory
    /\ gone' = TRUE
    /\ UNCHANGED <<env, mem, job, pending, port, live, minted, stored, refused, commands>>

Init ==
    /\ StoreInit
    /\ \E e \in Procs \cup {None} : env = [p \in Procs |-> IF p = e THEN EnvToken ELSE None]
    /\ mem = [p \in Procs |-> None]
    /\ job = [p \in Procs |-> [NoJob EXCEPT !.pc = "down"]]
    /\ pending = [p \in Procs |-> None]
    /\ port = None
    /\ live = {1} /\ minted = 1
    /\ stored = IF asStored = None THEN {} ELSE {asStored}
    /\ refused = {} /\ gone = FALSE /\ commands = 0

AuthStep(p) ==
    \/ Start(p)
    \/ load_refresh_token_state(p)
    \/ Request(p)
    \/ access_token(p)
    \/ Exchange(p)
    \/ Reload(p)
    \/ Refreshed(p)
    \/ Persisted(p)
    \/ complete_login(p)
    \/ Send(p)
    \/ begin_login(p)
    \/ Callback(p)
    \/ StrayCallback(p)
    \/ complete_pending_login(p)
    \/ AwaitCode(p)
    \/ ExchangeCode(p)
    \/ Crash(p)

Next ==
    \/ \E p \in Procs : AuthStep(p)
    \/ \E p \in Procs : StoreStep(p) /\ UNCHANGED authVars
    \/ Disturb

Spec == Init /\ [][Next]_vars

(***************************************************************************)
(* Properties                                                              *)
(***************************************************************************)

\* Every variable has its type; the lock is held exactly during the steps
\* that change the file, and a call of the store has a command behind it.
TypeOK ==
    /\ lock \in Procs \cup {None} /\ port \in Procs \cup {None}
    /\ live \subseteq Tokens /\ minted \in Tokens
    /\ stored \subseteq Tokens /\ refused \subseteq Tokens
    /\ sidecars \subseteq [mark : {"tmp", "bak"}, data : Tokens \cup {Garbage}]
    /\ \A p \in Procs :
          /\ mem[p] # None => mem[p] \in TokenState
          /\ store[p] \in {"none", "windows", "unavailable", "failed"}
          /\ (lock = p) = (step[p] # None /\ step[p].at \in {"publish", "settle", "unsure", "restore"})
          /\ (job[p].pc = "storing") = (step[p] # None /\ step[p].at # "legacy")

\* The token file is what the answers of the store say: after success it
\* holds the token given, private and readable; a store that answers with
\* an error has left, or put back, what was there (store, and
\* restore_previous_token_state). Unless a rollback failed, or somebody
\* else changed the file.
FileAsAnswered ==
    lock = None /\ asStored # None =>
        /\ target # None /\ target.data = asStored
        /\ Enforceable(target, FALSE)
        /\ validate_protected_payload_size(target.data)
        /\ target.acl \in {private_sddl(FALSE), LoosenedAcl}

\* A request goes out only while the refresh token behind it has been in
\* the file: a rotated token that could not be stored is stored before the
\* access token is used, so that a crash never loses the account (the
\* Unpersisted origin of access_token). Without a store, only a token of
\* the environment is used.
SentIsPersisted ==
    \A p \in Procs : job[p].pc = "send" =>
        \/ mem[p].tok \in stored
        \/ store[p] = "unavailable" /\ mem[p].origin = "Environment"

\* The token of p is in the file: p knows, or is about to be told.
IsStored(p) == mem[p].origin = "Store" \/ (job[p].pc = "storing" /\ At(p, "done") /\ Result(p) = "ok")

\* A process whose refresh token another process has rotated away gets on
\* without a login: a live token is in the file, in a process's memory or
\* on its way to the file (refresh_access_token reloads). Unless the
\* service's answer was lost, a process ended that alone knew the token, a
\* rollback failed or the file was changed; and where no process takes its
\* token from the environment, which is never reloaded.
StillConnected ==
    /\ ~gone /\ \A p \in Procs : At(p, "done") => Result(p) # "stuck"
    /\ \A p \in Procs : env[p] = None
    => \A p \in Procs : mem[p] # None =>
          \/ Knows(p) \cap live # {}
          \/ /\ IsStored(p)
             /\ \/ target # None /\ target.data \in live
                \/ \E q \in Procs : Knows(q) \cap live # {}

\* A login answered with an error is never used: neither its process nor
\* one that starts later finds its token (complete_login stores before it
\* replaces the state; store goes back under the lock).
RefusedIsForgotten ==
    /\ \A p \in Procs : mem[p] # None => mem[p].tok \notin refused
    /\ lock = None /\ target # None => target.data \notin refused

\* A process that uses a store, or knows that it has none, has seen to it
\* that the plaintext token of earlier releases is gone (production_store).
PlaintextGone ==
    \A p \in Procs : store[p] \in {"windows", "unavailable"} => legacy = None

\* The token file is what the answers said, a refused login is nowhere and the
\* plaintext token of earlier releases is gone, whatever failed on the way.
FileSound == TypeOK /\ FileAsAnswered /\ RefusedIsForgotten /\ PlaintextGone
=============================================================================
