------------------------- MODULE OneDriveAuthProofs -------------------------
(***************************************************************************)
(* What OneDriveAuth promises of the token file and of the account: proofs *)
(* for every set of processes, every set of tokens and every number of     *)
(* commands and troubles.                                                  *)
(***************************************************************************)
EXTENDS OneDriveAuth, SequenceTheorems, TLAPS

Undone == {"settle", "unsure", "restore"}
Busy == {"publish"} \cup Undone
Doing(p, stages) == step[p] # None /\ step[p].at \in stages
Answer(p, results) == At(p, "done") /\ step[p].result \in results
Storing(p) == job[p].pc = "storing"
HasCur(p) == job[p].pc \in {"exchange", "reload", "storing"}
Login(p) == Storing(p) /\ job[p].then = "login"
NoEnv == \A p \in Procs : env[p] = None

JobType == [pc : {"down", "loading", "idle", "access", "exchange", "reload", "storing", "send",
                  "await", "code"},
            cmd : {"none", "graph", "label", "login"}, rest : Seq({"get", "put"}),
            attempt : Nat, cur : Tokens \cup {None}, origin : Origins, again : BOOLEAN,
            then : {"none", "rotated", "adopted", "retry", "login"}]

\* The shapes that TypeOK leaves open.
ShapeInv ==
    /\ target \in FileType \cup {None} /\ dir \in DirectoryType \cup {None}
    /\ step \in [Procs -> {None} \cup LookType \cup CallType \cup AnswerType]
    /\ mem \in [Procs -> {None} \cup TokenState]
    /\ job \in [Procs -> JobType]
    /\ store \in [Procs -> {"none", "windows", "unavailable", "failed"}]
    /\ env \in [Procs -> {None, EnvToken}]
    /\ asStored \in Tokens \cup {None}
    /\ gone \in BOOLEAN /\ minted >= 1

\* A call of the store has the token of its job, a token of fit size; a request
\* is left for what the command goes on to.
CallInv(p) ==
    /\ Doing(p, {"lock"} \cup Busy) => step[p].tok = job[p].cur
    /\ Doing(p, Busy) => validate_protected_payload_size(step[p].tok)
    /\ Doing(p, Undone) => step[p].had = (step[p].prev # None)
    /\ HasCur(p) => job[p].cur # None
    /\ Storing(p) => job[p].then # "none"
    /\ job[p].pc \in {"access", "exchange", "reload", "send"} => job[p].rest # <<>>
    /\ Storing(p) /\ ~Login(p) => job[p].rest # <<>>

\* Where a token came from.
OriginInv(p) ==
    /\ job[p].pc \in {"down", "loading"} => mem[p] = None
    /\ mem[p] # None =>
          /\ mem[p].origin = "Store" => mem[p].tok \in stored
          /\ mem[p].origin = "Environment" => env[p] # None
          /\ mem[p].origin = "Environment" /\ mem[p].access => store[p] = "unavailable"
    /\ job[p].origin = "Environment" => env[p] # None
    /\ job[p].pc = "reload" => job[p].origin = "Store"
    /\ job[p].pc = "send" => mem[p] # None /\ mem[p].access /\ mem[p].origin # "Unpersisted"
    /\ job[p].pc = "exchange" /\ job[p].origin = "Store" => job[p].cur \in stored
    /\ job[p].pc \in {"exchange", "reload"} /\ job[p].origin = "Store" =>
          mem[p] # None /\ mem[p].origin = "Store"
    /\ job[p].pc = "exchange" /\ job[p].origin = "Unpersisted" =>
          mem[p] # None /\ mem[p].tok = job[p].cur /\ mem[p].origin = "Unpersisted"
    /\ Storing(p) /\ job[p].then = "adopted" => job[p].origin # "Store"
    /\ Storing(p) /\ job[p].then = "adopted" /\ job[p].origin = "Unpersisted" =>
          mem[p] # None /\ mem[p].tok = job[p].cur /\ mem[p].origin = "Unpersisted"
    /\ Storing(p) /\ job[p].then = "retry" =>
          mem[p] # None /\ mem[p].tok = job[p].cur /\ mem[p].origin = "Unpersisted" /\ mem[p].access
    /\ Answer(p, {"unavailable"}) => store[p] = "unavailable"
    /\ HasCur(p) /\ ~Login(p) /\ mem[p] = None => env[p] # None

ProcInv == \A p \in Procs : CallInv(p) /\ OriginInv(p)

(***************************************************************************)
(* The file, and what an answer says of it.                                *)
(***************************************************************************)
Data(f) == IF f = None THEN None ELSE f.data

\* What the file is once the call that is changing it has gone back.
Held == IF lock # None /\ Doing(lock, Undone) THEN step[lock].prev ELSE target

\* A file that is what an answer said.
Holds(f, tok) ==
    /\ f # None /\ f.data = tok
    /\ Enforceable(f, FALSE) /\ validate_protected_payload_size(f.data)
    /\ f.acl \in {private_sddl(FALSE), LoosenedAcl}

AnsweredInv == asStored # None => Holds(Held, asStored)

LegacyInv == PlaintextGone /\ (dir = None => legacy = None)

(***************************************************************************)
(* Who has a token                                                         *)
(***************************************************************************)
Has(p) ==
    (IF mem[p] = None THEN {} ELSE {mem[p].tok}) \cup (IF HasCur(p) THEN {job[p].cur} ELSE {})

\* Tokens are issued in order: the next one is new to everybody.
UpTo(n, t) == t \in Tokens => t <= n
IssuedInv ==
    /\ \A t \in live \cup stored \cup refused : UpTo(minted, t)
    /\ \A p \in Procs : \A t \in Has(p) : UpTo(minted, t)
    /\ UpTo(minted, Data(Held)) /\ UpTo(minted, Data(target))

\* Nobody but p has token t, and the file does not.
Alone(p, t) ==
    /\ Data(Held) # t
    /\ ~Doing(p, Undone) => Data(target) # t
    /\ \A q \in Procs \ {p} : t \notin Has(q)

\* The token of a login that is not stored is nobody else's, and what was
\* refused is nowhere.
Open(p) == Login(p) /\ ~Answer(p, {"ok", "stuck"})
LoginInv ==
    /\ \A p \in Procs : Open(p) =>
          /\ Alone(p, job[p].cur) /\ job[p].cur \notin refused /\ job[p].cur > 1
          /\ mem[p] # None => mem[p].tok # job[p].cur
    /\ \A p \in Procs : Has(p) \cap refused = {}
    /\ EnvToken \notin refused /\ Data(Held) \notin refused /\ Data(target) \notin refused

(***************************************************************************)
(* What keeps the account connected                                        *)
(***************************************************************************)

\* The tokens that p alone has and that it will not let go.
Spare(p) == IF mem[p] # None /\ mem[p].origin = "Unpersisted" THEN {mem[p].tok} ELSE {}
Own(p) ==
    IF ~Storing(p) THEN Spare(p)
    ELSE IF Answer(p, {"ok", "stuck"}) THEN {}
    ELSE {job[p].cur} \cup (IF job[p].then = "login" THEN Spare(p) ELSE {})

\* What p will not forget, and the file does not hold.
Kept(p) ==
    IF ~Storing(p) THEN Spare(p)
    ELSE IF Answer(p, {"ok"}) THEN {}
    ELSE IF job[p].then # "login" \/ Answer(p, {"stuck"}) THEN {job[p].cur}
    ELSE Spare(p)

OwnInv == ~gone /\ NoEnv => \A p \in Procs : \A t \in Own(p) : Alone(p, t) /\ t \in live

ConnectedInv ==
    ~gone /\ NoEnv =>
        \/ Data(Held) = None /\ \A p \in Procs : mem[p] = None /\ ~Answer(p, {"ok"})
        \/ Data(Held) \in live
        \/ \E p \in Procs : Kept(p) \cap live # {}

-----------------------------------------------------------------------------
(* Types, and what a step of a process leaves alone. *)

LockInv(p) ==
    /\ (lock = p) = Doing(p, Busy)
    /\ Storing(p) = (step[p] # None /\ step[p].at # "legacy")
Local(p) == LockInv(p) /\ CallInv(p) /\ OriginInv(p)

GlobalType ==
    /\ lock \in Procs \cup {None} /\ port \in Procs \cup {None}
    /\ live \subseteq Tokens /\ minted \in Tokens
    /\ stored \subseteq Tokens /\ refused \subseteq Tokens
    /\ sidecars \subseteq [mark : {"tmp", "bak"}, data : Tokens \cup {Garbage}]
    /\ target \in FileType \cup {None} /\ dir \in DirectoryType \cup {None}
    /\ env \in [Procs -> {None, EnvToken}]
    /\ asStored \in Tokens \cup {None}
    /\ gone \in BOOLEAN /\ minted >= 1

LocalType ==
    /\ step \in [Procs -> {None} \cup LookType \cup CallType \cup AnswerType]
    /\ mem \in [Procs -> {None} \cup TokenState]
    /\ job \in [Procs -> JobType]
    /\ store \in [Procs -> {"none", "windows", "unavailable", "failed"}]

Types == GlobalType /\ LocalType
AuthInv == Types /\ \A p \in Procs : Local(p)

\* The parts of the invariant are TypeOK and what TypeOK leaves open.
LEMMA AuthParts == AuthInv <=> TypeOK /\ ShapeInv /\ ProcInv
  <1>1. ASSUME AuthInv PROVE TypeOK /\ ShapeInv /\ ProcInv
    BY <1>1 DEF AuthInv, Types, GlobalType, LocalType, Local, LockInv, TypeOK, ShapeInv, ProcInv,
                Doing, Busy, Undone, Storing
  <1>2. ASSUME TypeOK, ShapeInv, ProcInv PROVE AuthInv
    BY <1>2 DEF AuthInv, Types, GlobalType, LocalType, Local, LockInv, TypeOK, ShapeInv, ProcInv,
                Doing, Busy, Undone, Storing
  <1>. QED
    BY <1>1, <1>2

\* A step of p leaves every other process as it is.
Frame(p) == \A q \in Procs \ {p} :
    /\ job'[q] = job[q] /\ mem'[q] = mem[q] /\ step'[q] = step[q] /\ store'[q] = store[q]
    /\ (lock' = q) = (lock = q)

\* What holds of the others holds after a step of p.
LEMMA FrameKeeps ==
    ASSUME AuthInv, NEW p \in Procs, Frame(p), env' = env, stored \subseteq stored', Local(p)'
    PROVE  \A q \in Procs : Local(q)'
  <1>. SUFFICES ASSUME NEW q \in Procs, q # p PROVE Local(q)'
    OBVIOUS
  <1>0. Local(q)
    BY DEF AuthInv
  <1>1. /\ job'[q] = job[q] /\ mem'[q] = mem[q] /\ step'[q] = step[q] /\ store'[q] = store[q]
        /\ (lock' = q) = (lock = q)
    BY DEF Frame
  <1>2. LockInv(q)'
    BY <1>0, <1>1 DEF Local, LockInv, Doing, Storing
  <1>3. CallInv(q)'
    BY <1>0, <1>1 DEF Local, CallInv, Doing, Storing, HasCur, Login
  <1>4. OriginInv(q)'
    BY <1>0, <1>1 DEF Local, OriginInv, Answer, At, Storing, HasCur, Login
  <1>. QED
    BY <1>2, <1>3, <1>4 DEF Local

\* A value is one of the steps of a call, or none of them.
LEMMA StepType ==
    ASSUME LocalType, NEW p \in Procs
    PROVE  /\ step[p] \in {None} \cup LookType \cup CallType \cup AnswerType
           /\ step[p] \in LookType <=> At(p, "legacy")
           /\ step[p] \in CallType <=> Doing(p, {"lock"} \cup Busy)
           /\ step[p] \in AnswerType <=> At(p, "done")
           /\ mem[p] \in {None} \cup TokenState
           /\ job[p] \in JobType
  BY NoneAssumption DEF LocalType, LookType, CallType, AnswerType, At, Doing, Busy, Undone

-----------------------------------------------------------------------------
(* Steps that move no token *)

\* The tokens of p and of the file are as they were, and no call is under way.
Quiet(p) ==
    /\ Frame(p)
    /\ UNCHANGED <<target, lock, asStored, live, minted, stored, refused, gone, env>>
    /\ ~HasCur(p) /\ job'[p].pc \notin {"exchange", "reload", "storing"}
    /\ \/ mem[p] = None /\ mem'[p] = None
       \/ /\ mem[p] # None /\ mem'[p] # None
          /\ mem'[p].tok = mem[p].tok /\ mem'[p].origin = mem[p].origin

Sound(p) == Types' /\ Local(p)'

\* Start: the plaintext file goes, and the store is chosen.
LEMMA StartQuiet ==
    ASSUME AuthInv, NEW p \in Procs, Start(p)
    PROVE  Quiet(p) /\ Sound(p)
  <1>. USE DEF AuthInv
  <1>0. Types /\ Local(p) /\ LocalType /\ GlobalType
    BY DEF Types
  <1>1. /\ job[p] \in JobType /\ job[p].pc = "down" /\ mem[p] = None
        /\ step[p] \in {None} \cup LookType
    BY <1>0, StepType DEF Start, Local, LockInv, OriginInv, Storing, At
  <1>2. /\ UNCHANGED <<platform, dir, target, sidecars, lock, asStored>>
        /\ UNCHANGED <<env, mem, pending, port, live, minted, stored, refused, gone, commands>>
    BY DEF Start, remove_legacy_plaintext_token, DeleteLegacy, KeepLegacy, DeletesLegacy
  <1>3. PICK s \in {None} \cup LookType : step' = [step EXCEPT ![p] = s]
    BY <1>0, <1>1 DEF Start, remove_legacy_plaintext_token, DeleteLegacy, KeepLegacy, DeletesLegacy, Chosen,
       Begin, LookType, GlobalType, DirectoryType
  <1>4. /\ store' \in [Procs -> {"none", "windows", "unavailable", "failed"}]
        /\ \A q \in Procs \ {p} : store'[q] = store[q]
    BY <1>0, <1>1 DEF Start, remove_legacy_plaintext_token, DeleteLegacy, KeepLegacy, DeletesLegacy, Chosen,
       Backend, LocalType
  <1>5. job' \in [Procs -> JobType] /\ \A q \in Procs \ {p} : job'[q] = job[q]
    BY <1>0, <1>1 DEF Start, LocalType, JobType
  <1>6. job'[p] = job[p] \/ job'[p] = [job[p] EXCEPT !.pc = "loading"]
    BY <1>0, <1>1 DEF Start, LocalType
  <1>7. /\ job'[p].pc \in {"down", "loading"} /\ job'[p].cur = job[p].cur
        /\ job'[p].origin = job[p].origin /\ job'[p].then = job[p].then
    BY <1>1, <1>6 DEF JobType
  <1>8. LocalType'
    BY <1>0, <1>2, <1>3, <1>4, <1>5 DEF LocalType
  <1>9. GlobalType'
    BY <1>0, <1>2 DEF GlobalType
  <1>10. step'[p] = s /\ lock' = lock /\ mem'[p] = None
    BY <1>0, <1>1, <1>2, <1>3, <1>4 DEF LocalType
  <1>11. Frame(p)
    BY <1>0, <1>2, <1>3, <1>4, <1>5 DEF Frame, LocalType
  <1>12. LockInv(p)'
    BY <1>0, <1>1, <1>7, <1>10, NoneAssumption DEF Local, LockInv, Doing, Storing, LookType, Busy, Undone
  <1>13. CallInv(p)'
    BY <1>7, <1>10, NoneAssumption DEF CallInv, Doing, HasCur, Storing, Login, LookType, Busy, Undone
  <1>14. OriginInv(p)'
    BY <1>0, <1>2, <1>7, <1>10, NoneAssumption DEF Local, OriginInv, Answer, At, HasCur, Storing, Login, LookType
  <1>. QED
    BY <1>1, <1>2, <1>7, <1>8, <1>9, <1>10, <1>11, <1>12, <1>13, <1>14
       DEF Quiet, Sound, Types, Local, HasCur

\* What the other quiet steps have in common: a command goes on, or ends.
GoesOn(p) ==
    /\ UNCHANGED <<dir, target, sidecars, lock, store, step, asStored>>
    /\ UNCHANGED <<env, live, minted, stored, refused, gone>>
    /\ port' \in {port, p, None}
    /\ job' \in [Procs -> JobType] /\ \A q \in Procs \ {p} : job'[q] = job[q]
    /\ job[p].pc \notin {"down", "exchange", "reload", "storing"}
    /\ \/ job'[p] = job[p] /\ job[p].pc # "send"
       \/ job'[p].pc \in {"idle", "access", "await", "code"}
    /\ job'[p].pc = "access" => job'[p].rest # <<>>
    /\ job'[p].origin \in {"Store", job[p].origin}
    /\ \/ mem' = mem
       \/ mem[p] # None /\ mem' = [mem EXCEPT ![p].access = FALSE]

\* A command that begins, waits or ends neither looks at the file nor has a
\* token on its way.
LEMMA GoesOnQuiet ==
    ASSUME AuthInv, NEW p \in Procs, GoesOn(p)
    PROVE  Quiet(p) /\ Sound(p)
  <1>. USE DEF AuthInv, GoesOn
  <1>0. Types /\ Local(p) /\ LocalType /\ GlobalType
    BY DEF Types
  <1>1. mem[p] \in {None} \cup TokenState /\ job'[p] \in JobType
    BY <1>0 DEF LocalType
  <1>2. \/ mem'[p] = mem[p]
        \/ mem[p] \in TokenState /\ mem'[p] = [mem[p] EXCEPT !.access = FALSE]
    BY <1>0, <1>1 DEF LocalType
  <1>3. \/ mem'[p] = None /\ mem[p] = None
        \/ /\ mem'[p] # None /\ mem[p] # None
           /\ mem'[p].tok = mem[p].tok /\ mem'[p].origin = mem[p].origin
           /\ mem'[p].access => mem[p].access
    BY <1>1, <1>2, NoStateAssumption DEF TokenState
  <1>4. mem'[p] \in {None} \cup TokenState
    BY <1>1, <1>2 DEF TokenState
  <1>4a. mem' \in [Procs -> {None} \cup TokenState] /\ \A q \in Procs \ {p} : mem'[q] = mem[q]
    <2>1. CASE mem' = mem
      BY <1>0, <2>1 DEF LocalType
    <2>2. CASE mem[p] # None /\ mem' = [mem EXCEPT ![p].access = FALSE]
      BY <1>0, <1>4, <2>2 DEF LocalType
    <2>. QED
      BY <2>1, <2>2
  <1>5. LocalType'
    BY <1>0, <1>4a DEF LocalType
  <1>6. GlobalType'
    BY <1>0 DEF GlobalType
  <1>7. Frame(p)
    BY <1>4a DEF Frame
  <1>8. LockInv(p)'
    BY <1>0 DEF Local, LockInv, Storing, Doing
  <1>9. CallInv(p)'
    BY <1>0, <1>8 DEF Local, CallInv, LockInv, Doing, Storing, HasCur, Login, Busy, Undone
  <1>10. OriginInv(p)'
    BY <1>0, <1>1, <1>3, <1>8 DEF Local, OriginInv, LockInv, Answer, At, Storing, HasCur, Login
  <1>. QED
    BY <1>3, <1>5, <1>6, <1>7, <1>8, <1>9, <1>10 DEF Quiet, Sound, Types, Local, HasCur

\* A command begins with no job left of the one before.
LEMMA JobTypes ==
    /\ NoJob \in JobType
    /\ NoJob.pc = "idle" /\ NoJob.cur = None /\ NoJob.origin = "Store" /\ NoJob.then = "none"
  BY DEF NoJob, JobType, Origins

\* Request: a command of the web client, with what it asks for.
LEMMA RequestQuiet ==
    ASSUME AuthInv, NEW p \in Procs, Request(p)
    PROVE  Quiet(p) /\ Sound(p)
  <1>1. job \in [Procs -> JobType] /\ job[p].pc = "idle"
    BY DEF AuthInv, Types, LocalType, Request, Idle
  <1>2. PICK r \in Requests :
          job' = [job EXCEPT ![p] = [NoJob EXCEPT !.pc = "access", !.cmd = "graph", !.rest = r, !.attempt = 1]]
    BY DEF Request
  <1>. DEFINE j == [NoJob EXCEPT !.pc = "access", !.cmd = "graph", !.rest = r, !.attempt = 1]
  <1>3. r \in Seq({"get", "put"}) /\ r # <<>>
    BY AuthBounds
  <1>4. j \in JobType /\ j.pc = "access" /\ j.rest = r /\ j.origin = "Store"
    BY <1>3, JobTypes DEF JobType
  <1>5. job' = [job EXCEPT ![p] = j]
    BY <1>2
  <1>. HIDE DEF j
  <1>6. job' \in [Procs -> JobType] /\ job'[p] = j /\ \A q \in Procs \ {p} : job'[q] = job[q]
    BY <1>1, <1>4, <1>5
  <1>7. GoesOn(p)
    BY <1>1, <1>3, <1>4, <1>5, <1>6 DEF GoesOn, Request, storeVars
  <1>. QED
    BY <1>7, GoesOnQuiet

\* complete_pending_login, as far as the code that the listener has.
LEMMA AwaitQuiet ==
    ASSUME AuthInv, NEW p \in Procs, complete_pending_login(p) \/ AwaitCode(p)
    PROVE  Quiet(p) /\ Sound(p)
  <1>1. job \in [Procs -> JobType] /\ job[p].pc \in {"idle", "await"} /\ job[p] \in JobType
    BY DEF AuthInv, Types, LocalType, complete_pending_login, AwaitCode, Idle
  <1>2. PICK j \in {[NoJob EXCEPT !.pc = "await", !.cmd = "login"], [job[p] EXCEPT !.pc = "code"], NoJob} :
          job' = [job EXCEPT ![p] = j]
    BY <1>1 DEF complete_pending_login, AwaitCode, Go, End
  <1>3. j \in JobType /\ j.pc \in {"await", "code", "idle"} /\ j.origin \in {"Store", job[p].origin}
    BY <1>1, <1>2, JobTypes DEF JobType
  <1>4. /\ job' \in [Procs -> JobType] /\ job'[p] = j
        /\ \A q \in Procs \ {p} : job'[q] = job[q]
    BY <1>1, <1>2, <1>3
  <1>5. GoesOn(p)
    BY <1>1, <1>3, <1>4 DEF GoesOn, complete_pending_login, AwaitCode, storeVars
  <1>. QED
    BY <1>5, GoesOnQuiet

\* Send: what a request is answered with decides on the next one.
LEMMA SendQuiet ==
    ASSUME AuthInv, NEW p \in Procs, Send(p)
    PROVE  Quiet(p) /\ Sound(p)
  <1>1. /\ job \in [Procs -> JobType] /\ job[p].pc = "send" /\ job[p] \in JobType
        /\ job[p].rest # <<>> /\ mem[p] # None
    BY DEF AuthInv, Types, LocalType, Send, Local, CallInv, OriginInv
  <1>2. job[p].rest \in Seq({"get", "put"}) /\ job[p].attempt \in Nat
    BY <1>1 DEF JobType
  <1>3. Len(job[p].rest) # 1 => Tail(job[p].rest) \in Seq({"get", "put"}) \ {<<>>}
    <2>1. Tail(job[p].rest) \in Seq({"get", "put"}) /\ Len(Tail(job[p].rest)) = Len(job[p].rest) - 1
      BY <1>1, <1>2
    <2>2. Len(job[p].rest) \in Nat \ {0}
      BY <1>1, <1>2
    <2>3. ASSUME Len(job[p].rest) # 1 PROVE Tail(job[p].rest) # <<>>
      <3>1. Len(Tail(job[p].rest)) # 0
        BY <2>1, <2>2, <2>3
      <3>2. Len(<<>>) = 0
        BY EmptySeq
      <3>3. ASSUME Tail(job[p].rest) = <<>> PROVE FALSE
        <4>1. Len(Tail(job[p].rest)) = Len(<<>>)
          BY <3>3
        <4>. QED
          BY <3>1, <3>2, <4>1
      <3>. QED
        BY <3>3
    <2>. QED
      BY <2>1, <2>3
  <1>4. \E j \in JobType :
          /\ job' = [job EXCEPT ![p] = j]
          /\ (j.pc \in {"idle", "access"} /\ j.rest # <<>>) \/ j.pc = "idle"
          /\ j.origin \in {"Store", job[p].origin}
    <2>1. CASE End(p)
      BY <2>1, JobTypes DEF End
    <2>2. CASE Again(p)
      <3>. DEFINE n == job[p].attempt + 1
      <3>. DEFINE j == [job[p] EXCEPT !.pc = "access", !.attempt = n]
      <3>0. n \in Nat
        BY <1>2
      <3>2. job' = [job EXCEPT ![p] = j]
        BY <1>1, <2>2 DEF Again, JobType
      <3>. HIDE DEF n
      <3>1. j \in JobType /\ j.pc = "access" /\ j.rest # <<>> /\ j.origin = job[p].origin
        BY <1>1, <3>0 DEF JobType
      <3>. QED
        BY <3>1, <3>2
    <2>3. CASE NextRequest(p) /\ Len(job[p].rest) # 1
      <3>. DEFINE r == Tail(job[p].rest)
      <3>. DEFINE j == [job[p] EXCEPT !.pc = "access", !.rest = r, !.attempt = 1]
      <3>0. r \in Seq({"get", "put"}) \ {<<>>}
        BY <1>3, <2>3
      <3>2. job' = [job EXCEPT ![p] = j]
        BY <1>1, <2>3 DEF NextRequest, JobType
      <3>. HIDE DEF r
      <3>1. j \in JobType /\ j.pc = "access" /\ j.rest # <<>> /\ j.origin = job[p].origin
        BY <1>1, <3>0 DEF JobType
      <3>. QED
        BY <3>1, <3>2
    <2>. QED
      BY <2>1, <2>2, <2>3 DEF Send, NextRequest
  <1>5. mem' = mem \/ mem' = [mem EXCEPT ![p].access = FALSE]
    BY DEF Send, clear_access_token
  <1>6. PICK j \in JobType :
          /\ job' = [job EXCEPT ![p] = j]
          /\ (j.pc \in {"idle", "access"} /\ j.rest # <<>>) \/ j.pc = "idle"
          /\ j.origin \in {"Store", job[p].origin}
    BY <1>4
  <1>7. /\ job' \in [Procs -> JobType] /\ job'[p] = j
        /\ \A q \in Procs \ {p} : job'[q] = job[q]
    BY <1>1, <1>6
  <1>8. GoesOn(p)
    BY <1>1, <1>5, <1>6, <1>7 DEF GoesOn, Send
  <1>. QED
    BY <1>8, GoesOnQuiet

-----------------------------------------------------------------------------
(* What becomes of a job *)

JobOnly(p) == job' \in [Procs -> JobType] /\ \A q \in Procs \ {p} : job'[q] = job[q]
StepOnly(p) == /\ step' \in [Procs -> {None} \cup LookType \cup CallType \cup AnswerType]
               /\ \A q \in Procs \ {p} : step'[q] = step[q]
MemOnly(p) == /\ mem' \in [Procs -> {None} \cup TokenState]
              /\ \A q \in Procs \ {p} : mem'[q] = mem[q]

Pcs == {"down", "loading", "idle", "access", "exchange", "reload", "storing", "send", "await", "code"}

\* A command that goes on keeps what it is about.
LEMMA GoJob ==
    ASSUME LocalType, NEW p \in Procs, NEW pc \in Pcs, Go(p, pc)
    PROVE  /\ JobOnly(p) /\ job'[p].pc = pc /\ job'[p].cur = job[p].cur
           /\ job'[p].origin = job[p].origin /\ job'[p].then = job[p].then
           /\ job'[p].rest = job[p].rest
  <1>. DEFINE j == [job[p] EXCEPT !.pc = pc]
  <1>1. job' = [job EXCEPT ![p] = j]
    BY DEF Go
  <1>2. job[p] \in JobType
    BY DEF LocalType
  <1>3. /\ j \in JobType /\ j.pc = pc /\ j.cur = job[p].cur
        /\ j.origin = job[p].origin /\ j.then = job[p].then /\ j.rest = job[p].rest
    BY <1>2 DEF JobType, Pcs
  <1>. HIDE DEF j
  <1>. QED
    BY <1>1, <1>3 DEF LocalType, JobOnly

\* A command that ends forgets what it was about.
LEMMA EndJob ==
    ASSUME LocalType, NEW p \in Procs, End(p)
    PROVE  /\ JobOnly(p) /\ job'[p].pc = "idle" /\ job'[p].origin = "Store"
  BY JobTypes DEF LocalType, End, JobOnly

\* A refresh begins with a token and what is known of its origin.
LEMMA ExchangingJob ==
    ASSUME LocalType, NEW p \in Procs, NEW tok \in Tokens, NEW origin \in Origins,
           Exchanging(p, tok, origin)
    PROVE  /\ JobOnly(p) /\ job'[p].pc = "exchange" /\ job'[p].cur = tok
           /\ job'[p].origin = origin /\ job'[p].rest = job[p].rest
  <1>. DEFINE j == [job[p] EXCEPT !.pc = "exchange", !.cur = tok, !.origin = origin, !.again = FALSE]
  <1>1. job[p] \in JobType
    BY DEF LocalType
  <1>2. job' = [job EXCEPT ![p] = j]
    BY <1>1 DEF Exchanging, LocalType, JobType
  <1>3. /\ j \in JobType /\ j.pc = "exchange" /\ j.cur = tok
        /\ j.origin = origin /\ j.rest = job[p].rest
    BY <1>1 DEF JobType
  <1>. HIDE DEF j
  <1>. QED
    BY <1>2, <1>3 DEF LocalType, JobOnly

\* A call of the store has begun, or has been refused at once.
Started(p) ==
    /\ job'[p].pc = "storing" /\ step'[p] # None
    /\ \/ step'[p].at = "lock"
       \/ step'[p].at = "done" /\ step'[p].result \in {"error", "unavailable"}

\* A call of the store that begins has changed nothing and promised nothing.
LEMMA StartStoreJob ==
    ASSUME LocalType, NEW p \in Procs, NEW tok \in Tokens,
           NEW then \in {"rotated", "adopted", "retry", "login"}, StartStore(p, tok, then)
    PROVE  /\ JobOnly(p) /\ job'[p].pc = "storing" /\ job'[p].cur = tok
           /\ job'[p].origin = job[p].origin /\ job'[p].then = then /\ job'[p].rest = job[p].rest
           /\ StepOnly(p) /\ step'[p] # None
           /\ \/ step'[p] \in CallType /\ step'[p].at = "lock" /\ step'[p].tok = tok
              \/ /\ step'[p].at = "done" /\ step'[p].result \in {"error", "unavailable"}
                 /\ step'[p].result = "unavailable" => store[p] = "unavailable"
  <1>. DEFINE f == FirstStep(p, tok)
  <1>1. /\ step' = [step EXCEPT ![p] = f]
        /\ job' = [job EXCEPT ![p].pc = "storing", ![p].cur = tok, ![p].then = then]
    BY DEF StartStore, Begin
  <1>2. JobOnly(p) /\ job'[p].pc = "storing" /\ job'[p].cur = tok
           /\ job'[p].origin = job[p].origin /\ job'[p].then = then /\ job'[p].rest = job[p].rest
    <2>. DEFINE j == [job[p] EXCEPT !.pc = "storing", !.cur = tok, !.then = then]
    <2>1. job[p] \in JobType
      BY DEF LocalType
    <2>2. job' = [job EXCEPT ![p] = j]
      BY <1>1, <2>1 DEF LocalType, JobType
    <2>3. /\ j \in JobType /\ j.pc = "storing" /\ j.cur = tok /\ j.then = then
          /\ j.origin = job[p].origin /\ j.rest = job[p].rest
      BY <2>1 DEF JobType
    <2>. HIDE DEF j
    <2>. QED
      BY <2>2, <2>3 DEF LocalType, JobOnly
  <1>3. \/ f \in CallType /\ f.at = "lock" /\ f.tok = tok
        \/ /\ f \in AnswerType
           /\ f.at = "done" /\ f.result \in {"error", "unavailable"}
           /\ f.result = "unavailable" => store[p] = "unavailable"
    BY DEF FirstStep, Call, Answered, CallType, AnswerType
  <1>4. f # None
    BY <1>3, NoneAssumption
  <1>. HIDE DEF f
  <1>5. StepOnly(p) /\ step'[p] = f
    BY <1>1, <1>3 DEF StepOnly, LocalType
  <1>. QED
    BY <1>2, <1>3, <1>4, <1>5

-----------------------------------------------------------------------------
(* What each step of a process does: the steps that look at the file. *)

\* The access control list is put right, and nothing else.
Repaired ==
    /\ (dir' = None) = (dir = None)
    /\ \/ target' = target
       \/ /\ lock = None /\ target # None /\ Enforceable(target, FALSE)
          /\ target' = Enforced(target, FALSE)

\* The file can be read, and a token is in it.
Found == lock = None /\ target # None /\ target.data \in Tokens

\* An access control list that is put right leaves the content.
LEMMA EnforcedType ==
    ASSUME NEW f \in FileType
    PROVE  Enforced(f, FALSE) \in FileType /\ Enforced(f, FALSE).data = f.data
  BY DEF FileType, Enforced

\* What the store publishes and what it restores are files.
LEMMA FileTypes ==
    ASSUME NEW t \in Tokens \cup {Garbage}
    PROVE  /\ File(t, InheritedAcl) \in FileType /\ File(t, InheritedAcl).data = t
           /\ PrivateFile(t) \in FileType /\ PrivateFile(t).data = t
  BY DEF FileType, File, PrivateFile, CurrentOwner

\* A load that finds a token: load, as both its callers use it.
LEMMA LoadFinds ==
    ASSUME AuthInv, NEW p \in Procs, ~LoadFails(p), Loaded # None, LoadRepairs
    PROVE  /\ Found /\ Loaded = target.data /\ Repaired
           /\ target' \in FileType \cup {None} /\ dir' \in DirectoryType \cup {None}
  <1>1. GlobalType
    BY DEF AuthInv, Types
  <1>2. dir # None /\ target # None /\ Loaded = target.data
    BY DEF Loaded
  <1>3. /\ target \in FileType /\ dir \in DirectoryType
        /\ lock = None /\ Enforceable(target, FALSE) /\ target.data # Garbage
    BY <1>1, <1>2 DEF GlobalType, LoadFails
  <1>4. target.data \in Tokens
    BY <1>3 DEF FileType
  <1>5. target' = Enforced(target, FALSE) /\ dir' = Enforced(dir, TRUE)
    BY <1>2 DEF LoadRepairs
  <1>6. dir' \in DirectoryType
    BY <1>3, <1>5 DEF DirectoryType, Enforced
  <1>7. target' \in FileType
    BY <1>3, <1>5, EnforcedType
  <1>. QED
    BY <1>2, <1>3, <1>4, <1>5, <1>6, <1>7, NoneAssumption DEF Found, Repaired

\* The process starts with the token of its environment or of the file.
LEMMA LoadEffect ==
    ASSUME AuthInv, NEW p \in Procs, load_refresh_token_state(p)
    PROVE  /\ Frame(p) /\ Sound(p) /\ Repaired
           /\ UNCHANGED <<legacy, store, lock, asStored, live, minted, refused, gone, env, step>>
           /\ ~HasCur(p) /\ job'[p].pc = "idle"
           /\ \/ mem'[p] = mem[p] /\ stored' = stored
              \/ /\ env[p] # None /\ mem'[p] = State(env[p], "Environment", FALSE)
                 /\ stored' = stored
              \/ /\ Found /\ mem'[p] = State(target.data, "Store", FALSE)
                 /\ stored' = stored \cup {target.data}
  <1>. USE DEF AuthInv
  <1>0. LocalType /\ GlobalType /\ Local(p)
    BY DEF Types
  <1>1. Go(p, "idle") /\ job[p].pc = "loading"
    BY DEF load_refresh_token_state, Go
  <1>2. /\ JobOnly(p) /\ job'[p].pc = "idle" /\ job'[p].cur = job[p].cur
        /\ job'[p].origin = job[p].origin
    BY <1>0, <1>1, GoJob DEF Pcs
  <1>3. UNCHANGED <<platform, legacy, sidecars, lock, store, step, asStored, troubles,
                    env, pending, port, live, minted, refused, gone, commands>>
    BY DEF load_refresh_token_state
  <1>4. \/ UNCHANGED <<mem, dir, target, stored>>
        \/ /\ env[p] # None /\ mem' = [mem EXCEPT ![p] = State(env[p], "Environment", FALSE)]
           /\ UNCHANGED <<dir, target, stored>>
        \/ /\ ~LoadFails(p) /\ Loaded # None /\ LoadRepairs
           /\ mem' = [mem EXCEPT ![p] = State(Loaded, "Store", FALSE)]
           /\ stored' = stored \cup {Loaded}
    BY DEF load_refresh_token_state
  <1>5. /\ Repaired
        /\ target' \in FileType \cup {None} /\ dir' \in DirectoryType \cup {None}
        /\ \/ mem' = mem /\ stored' = stored
           \/ /\ env[p] \in Tokens /\ env[p] # None /\ stored' = stored
              /\ mem' = [mem EXCEPT ![p] = State(env[p], "Environment", FALSE)]
           \/ /\ Found /\ mem' = [mem EXCEPT ![p] = State(target.data, "Store", FALSE)]
              /\ stored' = stored \cup {target.data}
    BY <1>0, <1>4, LoadFinds, AuthBounds DEF Repaired, GlobalType
  <1>6. /\ MemOnly(p)
        /\ \/ mem'[p] = mem[p] /\ stored' = stored
           \/ /\ env[p] # None /\ mem'[p] = State(env[p], "Environment", FALSE)
              /\ stored' = stored
           \/ /\ Found /\ mem'[p] = State(target.data, "Store", FALSE)
              /\ stored' = stored \cup {target.data}
    <2>1. \A t \in Tokens : /\ State(t, "Store", FALSE) \in TokenState
                            /\ State(t, "Environment", FALSE) \in TokenState
      BY DEF State, TokenState, Origins
    <2>. QED
      BY <1>0, <1>5, <2>1 DEF MemOnly, LocalType, Found
  <1>7. LocalType'
    BY <1>0, <1>2, <1>3, <1>6 DEF LocalType, JobOnly, MemOnly
  <1>8. GlobalType'
    BY <1>0, <1>3, <1>5 DEF GlobalType, Found
  <1>9. Frame(p)
    BY <1>2, <1>3, <1>6 DEF Frame, JobOnly, MemOnly
  <1>10. LockInv(p)'
    BY <1>0, <1>1, <1>2, <1>3 DEF Local, LockInv, Doing, Storing
  <1>11. CallInv(p)'
    BY <1>0, <1>1, <1>2, <1>3, <1>10
       DEF Local, CallInv, LockInv, Doing, Storing, HasCur, Login, Busy, Undone
  <1>12. OriginInv(p)'
    <2>1. \A t : /\ State(t, "Store", FALSE).tok = t /\ State(t, "Store", FALSE).origin = "Store"
                 /\ State(t, "Environment", FALSE).origin = "Environment"
                 /\ State(t, "Environment", FALSE).access = FALSE
      BY DEF State
    <2>2. \/ /\ (mem'[p] = None) = (mem[p] = None) /\ mem'[p] = mem[p] /\ stored' = stored
          \/ /\ mem'[p].origin = "Store" /\ mem'[p].tok \in stored'
          \/ /\ mem'[p].origin = "Environment" /\ mem'[p].access = FALSE /\ env'[p] # None
      BY <1>3, <1>6, <2>1
    <2>3. ~Answer(p, {"unavailable"})'
      BY <1>2, <1>10 DEF LockInv, Answer, At, Storing
    <2>. QED
      BY <1>0, <1>1, <1>2, <1>3, <2>2, <2>3 DEF Local, OriginInv, Storing, HasCur, Login
  <1>. QED
    BY <1>1, <1>2, <1>3, <1>5, <1>6, <1>7, <1>8, <1>9, <1>10, <1>11, <1>12
       DEF Sound, Types, Local, HasCur

\* What a step of p that leaves file, lock and store alone owes.
LEMMA StepSound ==
    ASSUME AuthInv, NEW p \in Procs, JobOnly(p), StepOnly(p), MemOnly(p),
           UNCHANGED <<store, lock, env>>, stored \subseteq stored', GlobalType',
           LockInv(p)', CallInv(p)', OriginInv(p)'
    PROVE  Frame(p) /\ Sound(p)
  BY DEF AuthInv, Types, LocalType, JobOnly, StepOnly, MemOnly, Frame, Sound, Local

\* refresh_access_token tries the token that the file holds by now, or gives up.
LEMMA ReloadEffect ==
    ASSUME AuthInv, NEW p \in Procs, Reload(p)
    PROVE  /\ Frame(p) /\ Sound(p) /\ Repaired
           /\ UNCHANGED <<legacy, store, lock, asStored, live, minted, refused, gone, env, step, mem>>
           /\ HasCur(p) /\ ~Storing(p)
           /\ \/ job'[p].pc = "idle" /\ stored' = stored
              \/ /\ Found /\ job'[p].pc = "exchange" /\ job'[p].cur = target.data
                 /\ job'[p].origin = "Store"
                 /\ stored' = stored \cup {target.data}
  <1>. USE DEF AuthInv
  <1>0. LocalType /\ GlobalType /\ Local(p) /\ job[p] \in JobType
    BY DEF Types, LocalType
  <1>1. job[p].pc = "reload" /\ job[p].origin = "Store" /\ job[p].rest # <<>>
    BY <1>0 DEF Reload, Local, OriginInv, CallInv
  <1>2. UNCHANGED <<platform, legacy, sidecars, lock, store, step, asStored, troubles,
                    env, mem, pending, port, live, minted, refused, gone, commands>>
    BY DEF Reload
  <1>3. \/ End(p) /\ UNCHANGED <<dir, target, stored>>
        \/ /\ job' = [job EXCEPT ![p].pc = "exchange", ![p].cur = Loaded, ![p].again = TRUE]
           /\ ~LoadFails(p) /\ Loaded # None /\ LoadRepairs
           /\ stored' = stored \cup {Loaded}
    BY DEF Reload
  <1>4. /\ Repaired
        /\ target' \in FileType \cup {None} /\ dir' \in DirectoryType \cup {None}
        /\ \/ End(p) /\ stored' = stored
           \/ /\ Found /\ stored' = stored \cup {target.data}
              /\ job' = [job EXCEPT ![p].pc = "exchange", ![p].cur = target.data, ![p].again = TRUE]
    BY <1>0, <1>3, LoadFinds DEF Repaired, GlobalType
  <1>5. ASSUME Found, stored' = stored \cup {target.data},
               job' = [job EXCEPT ![p].pc = "exchange", ![p].cur = target.data, ![p].again = TRUE]
        PROVE  /\ JobOnly(p) /\ job'[p].pc = "exchange" /\ job'[p].cur = target.data
               /\ job'[p].origin = "Store" /\ job'[p].rest = job[p].rest
    <2>. DEFINE t == target.data
    <2>. DEFINE j == [job[p] EXCEPT !.pc = "exchange", !.cur = t, !.again = TRUE]
    <2>1. job' = [job EXCEPT ![p] = j]
      BY <1>0, <1>5 DEF LocalType, JobType
    <2>2. t \in Tokens
      BY <1>5 DEF Found
    <2>. HIDE DEF t
    <2>3. j \in JobType /\ j.pc = "exchange" /\ j.cur = t /\ j.origin = "Store" /\ j.rest = job[p].rest
      BY <1>0, <1>1, <2>2 DEF JobType
    <2>. HIDE DEF j
    <2>4. JobOnly(p) /\ job'[p] = j
      BY <1>0, <2>1, <2>3 DEF LocalType, JobOnly
    <2>. QED
      BY <2>3, <2>4 DEF t
  <1>6. JobOnly(p) /\ \/ job'[p].pc = "idle" /\ job'[p].origin = "Store" /\ stored' = stored
                      \/ /\ Found /\ job'[p].pc = "exchange" /\ job'[p].cur = target.data
                         /\ job'[p].origin = "Store" /\ job'[p].rest = job[p].rest
                         /\ stored' = stored \cup {target.data}
    BY <1>0, <1>4, <1>5, EndJob
  <1>7. GlobalType'
    BY <1>0, <1>2, <1>4 DEF GlobalType, Found
  <1>8. LockInv(p)'
    BY <1>0, <1>1, <1>2, <1>6 DEF Local, LockInv, Doing, Storing
  <1>9. CallInv(p)'
    BY <1>0, <1>1, <1>2, <1>6, <1>8, NoneAssumption
       DEF Local, CallInv, LockInv, Doing, Storing, HasCur, Login, Busy, Undone, Found
  <1>10. OriginInv(p)'
    BY <1>0, <1>1, <1>2, <1>6, <1>8
         DEF Local, OriginInv, LockInv, Answer, At, Storing, HasCur, Login
  <1>11. MemOnly(p) /\ StepOnly(p)
    BY <1>0, <1>2 DEF MemOnly, StepOnly, LocalType
  <1>12. Frame(p) /\ Sound(p)
    BY <1>2, <1>6, <1>7, <1>8, <1>9, <1>10, <1>11, StepSound
  <1>. QED
    BY <1>1, <1>2, <1>4, <1>6, <1>12 DEF HasCur, Storing

\* access_token hands out the token it has, exchanges the refresh token, or
\* stores the one that is left over.
LEMMA AccessEffect ==
    ASSUME AuthInv, NEW p \in Procs, access_token(p)
    PROVE  /\ Frame(p) /\ Sound(p)
           /\ UNCHANGED <<dir, legacy, target, store, lock, asStored, live, minted, stored, refused, gone,
                          env, mem>>
           /\ job[p].pc = "access"
           /\ \/ job'[p].pc \in {"idle", "send"}
              \/ /\ job'[p].pc = "exchange"
                 /\ \/ mem[p] # None /\ job'[p].cur = mem[p].tok
                    \/ env[p] # None /\ job'[p].cur = env[p]
              \/ /\ Started(p) /\ job'[p].then = "retry"
                 /\ mem[p] # None /\ mem[p].origin = "Unpersisted" /\ job'[p].cur = mem[p].tok
  <1>. USE DEF AuthInv
  <1>0. LocalType /\ GlobalType /\ Local(p) /\ job[p] \in JobType /\ mem[p] \in {None} \cup TokenState
    BY DEF Types, LocalType
  <1>1. job[p].pc = "access" /\ job[p].rest # <<>>
    BY <1>0 DEF access_token, Local, CallInv
  <1>2. UNCHANGED <<platform, dir, legacy, target, sidecars, lock, store, asStored, troubles,
                    env, mem, pending, port, live, minted, stored, refused, gone, commands>>
    BY DEF access_token
  <1>3. /\ mem[p] # None => mem[p].tok \in Tokens /\ mem[p].origin \in Origins
        /\ env[p] # None => env[p] \in Tokens
    BY <1>0, AuthBounds DEF TokenState, GlobalType
  <1>4. \/ End(p) /\ step' = step
        \/ mem[p] # None /\ mem[p].access /\ mem[p].origin # "Unpersisted" /\ Go(p, "send") /\ step' = step
        \/ mem[p] # None /\ mem[p].access /\ mem[p].origin = "Unpersisted" /\ StartStore(p, mem[p].tok, "retry")
        \/ mem[p] = None /\ env[p] # None /\ Exchanging(p, env[p], "Environment") /\ step' = step
        \/ mem[p] # None /\ Exchanging(p, mem[p].tok, mem[p].origin) /\ step' = step
    BY DEF access_token
  <1>5. MemOnly(p) /\ GlobalType'
    BY <1>0, <1>2 DEF MemOnly, LocalType, GlobalType
  <1>6. CASE End(p) /\ step' = step
    <2>1. JobOnly(p) /\ job'[p].pc = "idle" /\ job'[p].origin = "Store" /\ StepOnly(p)
      BY <1>0, <1>6, EndJob DEF StepOnly, LocalType
    <2>2. LockInv(p)' /\ CallInv(p)' /\ OriginInv(p)'
      BY <1>0, <1>1, <1>2, <1>6, <2>1
         DEF Local, LockInv, CallInv, OriginInv, Doing, Storing, Answer, At, HasCur, Login, Busy, Undone
    <2>. QED
      BY <1>1, <1>2, <1>5, <2>1, <2>2, StepSound
  <1>7. CASE mem[p] # None /\ mem[p].access /\ mem[p].origin # "Unpersisted" /\ Go(p, "send") /\ step' = step
    <2>1. /\ JobOnly(p) /\ job'[p].pc = "send" /\ job'[p].origin = job[p].origin
          /\ job'[p].rest = job[p].rest /\ StepOnly(p)
      BY <1>0, <1>7, GoJob DEF Pcs, StepOnly, LocalType
    <2>2. LockInv(p)' /\ CallInv(p)' /\ OriginInv(p)'
      BY <1>0, <1>1, <1>2, <1>7, <2>1
         DEF Local, LockInv, CallInv, OriginInv, Doing, Storing, Answer, At, HasCur, Login, Busy, Undone
    <2>. QED
      BY <1>1, <1>2, <1>5, <2>1, <2>2, StepSound
  <1>8. CASE mem[p] # None /\ mem[p].access /\ mem[p].origin = "Unpersisted" /\ StartStore(p, mem[p].tok, "retry")
    <2>1. /\ JobOnly(p) /\ job'[p].pc = "storing" /\ job'[p].cur = mem[p].tok /\ StepOnly(p)
          /\ job'[p].origin = job[p].origin /\ job'[p].then = "retry" /\ job'[p].rest = job[p].rest
          /\ step'[p] # None
          /\ \/ step'[p] \in CallType /\ step'[p].at = "lock" /\ step'[p].tok = mem[p].tok
             \/ /\ step'[p].at = "done" /\ step'[p].result \in {"error", "unavailable"}
                /\ step'[p].result = "unavailable" => store[p] = "unavailable"
      BY <1>0, <1>3, <1>8, StartStoreJob
    <2>2. LockInv(p)'
      BY <1>0, <1>1, <1>2, <2>1 DEF Local, LockInv, Doing, Storing, Busy, Undone
    <2>3. CallInv(p)'
      BY <1>0, <1>1, <1>3, <1>8, <2>1, NoneAssumption DEF CallInv, Doing, Storing, HasCur, Login, Busy, Undone
    <2>4. Answer(p, {"unavailable"})' => store'[p] = "unavailable"
      BY <1>2, <2>1 DEF Answer, At
    <2>5. OriginInv(p)'
      BY <1>0, <1>2, <1>8, <2>1, <2>4 DEF Local, OriginInv, Storing, HasCur, Login
    <2>. QED
      BY <1>1, <1>2, <1>5, <1>8, <2>1, <2>2, <2>3, <2>5, StepSound DEF Started
  <1>9. CASE mem[p] = None /\ env[p] # None /\ Exchanging(p, env[p], "Environment") /\ step' = step
    <2>1. /\ JobOnly(p) /\ job'[p].pc = "exchange" /\ job'[p].cur = env[p]
          /\ job'[p].origin = "Environment" /\ job'[p].rest = job[p].rest /\ StepOnly(p)
      BY <1>0, <1>3, <1>9, ExchangingJob DEF Origins, StepOnly, LocalType
    <2>2. LockInv(p)' /\ CallInv(p)' /\ OriginInv(p)'
      BY <1>0, <1>1, <1>2, <1>9, <2>1
         DEF Local, LockInv, CallInv, OriginInv, Doing, Storing, Answer, At, HasCur, Login, Busy, Undone
    <2>. QED
      BY <1>1, <1>2, <1>5, <1>9, <2>1, <2>2, StepSound
  <1>10. CASE mem[p] # None /\ Exchanging(p, mem[p].tok, mem[p].origin) /\ step' = step
    <2>1. /\ JobOnly(p) /\ job'[p].pc = "exchange" /\ job'[p].cur = mem[p].tok
          /\ job'[p].origin = mem[p].origin /\ job'[p].rest = job[p].rest /\ StepOnly(p)
      BY <1>0, <1>3, <1>10, ExchangingJob DEF StepOnly, LocalType
    <2>2. LockInv(p)' /\ CallInv(p)' /\ OriginInv(p)'
      BY <1>0, <1>1, <1>2, <1>3, <1>10, <2>1, NoneAssumption
         DEF Local, LockInv, CallInv, OriginInv, Doing, Storing, Answer, At, HasCur, Login, Busy, Undone
    <2>. QED
      BY <1>1, <1>2, <1>5, <1>10, <2>1, <2>2, StepSound
  <1>. QED
    BY <1>4, <1>6, <1>7, <1>8, <1>9, <1>10

-----------------------------------------------------------------------------
(* What each step of a process does: the steps that ask the service. *)

\* The service issues the next token, and takes away tok or nothing.
Turns(tok) ==
    /\ minted + 1 \in Tokens /\ minted' = minted + 1
    /\ live' \in {live \cup {minted + 1}, (live \ {tok}) \cup {minted + 1}}

\* An answer that was an error, or none: another token is looked for, or the
\* command ends.
LEMMA FailedJob ==
    ASSUME AuthInv, NEW p \in Procs, job[p].pc = "exchange", ExchangeFailed(p),
           UNCHANGED <<step, mem, store, lock, env, stored>>
    PROVE  /\ JobOnly(p) /\ StepOnly(p) /\ MemOnly(p)
           /\ LockInv(p)' /\ CallInv(p)' /\ OriginInv(p)'
           /\ \/ job'[p].pc = "idle"
              \/ job'[p].pc = "reload" /\ job'[p].cur = job[p].cur
  <1>. USE DEF AuthInv
  <1>0. LocalType /\ Local(p)
    BY DEF Types
  <1>1. StepOnly(p) /\ MemOnly(p)
    BY <1>0 DEF StepOnly, MemOnly, LocalType
  <1>2. CASE End(p)
    <2>1. JobOnly(p) /\ job'[p].pc = "idle" /\ job'[p].origin = "Store"
      BY <1>0, <1>2, EndJob
    <2>2. LockInv(p)' /\ CallInv(p)' /\ OriginInv(p)'
      BY <1>0, <2>1
         DEF Local, LockInv, CallInv, OriginInv, Doing, Storing, Answer, At, HasCur, Login, Busy, Undone
    <2>. QED
      BY <1>1, <2>1, <2>2
  <1>3. CASE job[p].origin = "Store" /\ Go(p, "reload")
    <2>1. /\ JobOnly(p) /\ job'[p].pc = "reload" /\ job'[p].origin = job[p].origin
          /\ job'[p].cur = job[p].cur /\ job'[p].rest = job[p].rest
      BY <1>0, <1>3, GoJob DEF Pcs
    <2>2. LockInv(p)' /\ CallInv(p)' /\ OriginInv(p)'
      BY <1>0, <1>3, <2>1
         DEF Local, LockInv, CallInv, OriginInv, Doing, Storing, Answer, At, HasCur, Login, Busy, Undone
    <2>. QED
      BY <1>1, <2>1, <2>2
  <1>. QED
    BY <1>2, <1>3 DEF ExchangeFailed

\* An exchange of the refresh token.
LEMMA ExchangeEffect ==
    ASSUME AuthInv, NEW p \in Procs, Exchange(p)
    PROVE  /\ Frame(p) /\ Sound(p)
           /\ UNCHANGED <<dir, legacy, target, store, lock, asStored, stored, refused, env>>
           /\ job[p].pc = "exchange" /\ job[p].cur \in Tokens
           /\ \/ /\ job[p].cur \in live /\ Turns(job[p].cur) /\ UNCHANGED gone
                 /\ Started(p) /\ job'[p].cur = minted + 1 /\ job'[p].then = "rotated"
                 /\ mem'[p] = mem[p]
              \/ /\ UNCHANGED <<live, minted, gone>>
                 /\ job[p].cur \in live
                 /\ \/ /\ job[p].origin = "Store" /\ job'[p].pc = "send"
                       /\ mem'[p] = State(job[p].cur, "Store", TRUE)
                    \/ /\ job[p].origin # "Store" /\ mem'[p] = mem[p]
                       /\ Started(p) /\ job'[p].cur = job[p].cur /\ job'[p].then = "adopted"
              \/ /\ \/ UNCHANGED <<live, minted, gone>>
                    \/ Turns(job[p].cur) /\ gone' = (gone \/ job[p].cur \notin live')
                 /\ mem'[p] = mem[p]
                 /\ \/ job'[p].pc = "idle"
                    \/ job'[p].pc = "reload" /\ job'[p].cur = job[p].cur
  <1>. USE DEF AuthInv
  <1>0. LocalType /\ GlobalType /\ Local(p) /\ job[p] \in JobType /\ mem[p] \in {None} \cup TokenState
    BY DEF Types, LocalType
  <1>1. /\ job[p].pc = "exchange" /\ job[p].rest # <<>> /\ job[p].cur \in Tokens
        /\ job[p].origin \in Origins
    BY <1>0 DEF Exchange, Local, CallInv, JobType, HasCur
  <1>2. UNCHANGED <<platform, dir, legacy, target, sidecars, lock, store, asStored,
                    env, pending, port, stored, refused, commands>>
    BY DEF Exchange
  <1>3. CASE /\ job[p].cur \in live /\ Rotates(job[p].cur)
             /\ StartStore(p, minted', "rotated") /\ UNCHANGED <<mem, gone>>
    <2>0. Turns(job[p].cur) /\ minted' \in Tokens /\ minted' = minted + 1
      BY <1>3 DEF Rotates, Issue, Turns
    <2>1. /\ JobOnly(p) /\ job'[p].pc = "storing" /\ job'[p].cur = minted' /\ StepOnly(p)
          /\ job'[p].origin = job[p].origin /\ job'[p].then = "rotated" /\ job'[p].rest = job[p].rest
          /\ step'[p] # None
          /\ \/ step'[p] \in CallType /\ step'[p].at = "lock" /\ step'[p].tok = minted'
             \/ /\ step'[p].at = "done" /\ step'[p].result \in {"error", "unavailable"}
                /\ step'[p].result = "unavailable" => store[p] = "unavailable"
      <3>. DEFINE t == minted'
      <3>1. t \in Tokens /\ StartStore(p, t, "rotated")
        BY <1>3, <2>0
      <3>. HIDE DEF t
      <3>2. /\ JobOnly(p) /\ job'[p].pc = "storing" /\ job'[p].cur = t /\ StepOnly(p)
            /\ job'[p].origin = job[p].origin /\ job'[p].then = "rotated" /\ job'[p].rest = job[p].rest
            /\ step'[p] # None
            /\ \/ step'[p] \in CallType /\ step'[p].at = "lock" /\ step'[p].tok = t
               \/ /\ step'[p].at = "done" /\ step'[p].result \in {"error", "unavailable"}
                  /\ step'[p].result = "unavailable" => store[p] = "unavailable"
        BY <1>0, <3>1, StartStoreJob
      <3>. QED
        BY <3>2 DEF t
    <2>2. MemOnly(p) /\ GlobalType' /\ mem'[p] = mem[p]
      BY <1>0, <1>2, <1>3, <2>0, TokenBounds DEF MemOnly, LocalType, GlobalType, Turns
    <2>3. LockInv(p)'
      BY <1>0, <1>1, <1>2, <2>1 DEF Local, LockInv, Doing, Storing, Busy, Undone
    <2>4. CallInv(p)'
      BY <1>1, <2>0, <2>1, NoneAssumption DEF CallInv, Doing, Storing, HasCur, Login, Busy, Undone
    <2>5. Answer(p, {"unavailable"})' => store'[p] = "unavailable"
      BY <1>2, <2>1 DEF Answer, At
    <2>6. OriginInv(p)'
      BY <1>0, <1>1, <1>2, <1>3, <2>1, <2>5 DEF Local, OriginInv, Storing, HasCur, Login
    <2>7. Frame(p) /\ Sound(p)
      BY <1>2, <2>1, <2>2, <2>3, <2>4, <2>6, StepSound
    <2>8. Started(p)
      BY <2>1 DEF Started
    <2>. QED
      BY <1>1, <1>2, <1>3, <2>0, <2>1, <2>2, <2>7, <2>8
  <1>4. CASE /\ job[p].cur \in live /\ job[p].origin = "Store" /\ mem' = Adopted(p)
             /\ Go(p, "send") /\ UNCHANGED <<step, live, minted, gone>>
    <2>1. /\ JobOnly(p) /\ job'[p].pc = "send" /\ job'[p].origin = job[p].origin
          /\ job'[p].rest = job[p].rest /\ StepOnly(p)
      BY <1>0, <1>4, GoJob DEF Pcs, StepOnly, LocalType
    <2>2. State(job[p].cur, "Store", TRUE) \in TokenState
      BY <1>1 DEF State, TokenState, Origins
    <2>3. MemOnly(p) /\ mem'[p] = State(job[p].cur, "Store", TRUE)
      BY <1>0, <1>4, <2>2 DEF Adopted, MemOnly, LocalType
    <2>4. /\ mem'[p] # None /\ mem'[p].tok = job[p].cur /\ mem'[p].origin = "Store" /\ mem'[p].access = TRUE
      <3>1. mem'[p] \in TokenState
        BY <2>2, <2>3
      <3>2. mem'[p].tok = job[p].cur /\ mem'[p].origin = "Store" /\ mem'[p].access = TRUE
        BY <2>3 DEF State
      <3>. QED
        BY <3>1, <3>2, NoStateAssumption
    <2>5. LockInv(p)' /\ CallInv(p)'
      BY <1>0, <1>1, <1>2, <1>4, <2>1
         DEF Local, LockInv, CallInv, Doing, Storing, HasCur, Login, Busy, Undone
    <2>6. OriginInv(p)'
      BY <1>0, <1>1, <1>2, <1>4, <2>1, <2>4
         DEF Local, OriginInv, Storing, Answer, At, HasCur, Login
    <2>7. GlobalType'
      BY <1>0, <1>2, <1>4 DEF GlobalType
    <2>8. Frame(p) /\ Sound(p)
      BY <1>2, <2>1, <2>3, <2>5, <2>6, <2>7, StepSound
    <2>. QED
      BY <1>1, <1>2, <1>4, <2>1, <2>3, <2>8
  <1>5. CASE /\ job[p].cur \in live /\ job[p].origin # "Store"
             /\ StartStore(p, job[p].cur, "adopted") /\ UNCHANGED <<mem, live, minted, gone>>
    <2>1. /\ JobOnly(p) /\ job'[p].pc = "storing" /\ job'[p].cur = job[p].cur /\ StepOnly(p)
          /\ job'[p].origin = job[p].origin /\ job'[p].then = "adopted" /\ job'[p].rest = job[p].rest
          /\ step'[p] # None
          /\ \/ step'[p] \in CallType /\ step'[p].at = "lock" /\ step'[p].tok = job[p].cur
             \/ /\ step'[p].at = "done" /\ step'[p].result \in {"error", "unavailable"}
                /\ step'[p].result = "unavailable" => store[p] = "unavailable"
      BY <1>0, <1>1, <1>5, StartStoreJob
    <2>2. MemOnly(p) /\ GlobalType' /\ mem'[p] = mem[p]
      BY <1>0, <1>2, <1>5 DEF MemOnly, LocalType, GlobalType
    <2>3. LockInv(p)'
      BY <1>0, <1>1, <1>2, <2>1 DEF Local, LockInv, Doing, Storing, Busy, Undone
    <2>4. CallInv(p)'
      BY <1>1, <2>1, NoneAssumption DEF CallInv, Doing, Storing, HasCur, Login, Busy, Undone
    <2>5. Answer(p, {"unavailable"})' => store'[p] = "unavailable"
      BY <1>2, <2>1 DEF Answer, At
    <2>6. OriginInv(p)'
      BY <1>0, <1>1, <1>2, <1>5, <2>1, <2>5 DEF Local, OriginInv, Storing, HasCur, Login
    <2>7. Frame(p) /\ Sound(p)
      BY <1>2, <2>1, <2>2, <2>3, <2>4, <2>6, StepSound
    <2>8. Started(p)
      BY <2>1 DEF Started
    <2>. QED
      BY <1>1, <1>2, <1>5, <2>1, <2>2, <2>7, <2>8
  <1>6. CASE /\ ExchangeFailed(p) /\ UNCHANGED <<step, mem>>
             /\ \/ UNCHANGED <<live, minted, gone>>
                \/ Rotates(job[p].cur) /\ gone' = (gone \/ job[p].cur \notin live')
    <2>1. /\ JobOnly(p) /\ StepOnly(p) /\ MemOnly(p)
          /\ LockInv(p)' /\ CallInv(p)' /\ OriginInv(p)'
          /\ \/ job'[p].pc = "idle"
             \/ job'[p].pc = "reload" /\ job'[p].cur = job[p].cur
      BY <1>1, <1>2, <1>6, FailedJob
    <2>2. \/ UNCHANGED <<live, minted, gone>>
          \/ Turns(job[p].cur) /\ gone' = (gone \/ job[p].cur \notin live')
      BY <1>6 DEF Rotates, Issue, Turns
    <2>3. GlobalType'
      <3>1. gone' \in BOOLEAN
        <4>1. CASE gone' = gone
          BY <1>0, <4>1 DEF GlobalType
        <4>2. CASE gone' = (gone \/ job[p].cur \notin live')
          BY <4>2
        <4>. QED
          BY <2>2, <4>1, <4>2
      <3>2. minted' \in Tokens /\ minted' >= 1 /\ live' \subseteq Tokens
        <4>1. CASE live' = live /\ minted' = minted
          BY <1>0, <4>1 DEF GlobalType
        <4>2. CASE Turns(job[p].cur)
          BY <1>0, <4>2, TokenBounds DEF GlobalType, Turns
        <4>. QED
          BY <2>2, <4>1, <4>2
      <3>. QED
        BY <1>0, <1>2, <3>1, <3>2 DEF GlobalType
    <2>4. Frame(p) /\ Sound(p)
      BY <1>2, <2>1, <2>3, StepSound
    <2>. QED
      BY <1>1, <1>2, <1>6, <2>1, <2>2, <2>4
  <1>. QED
    BY <1>3, <1>4, <1>5, <1>6 DEF Exchange

\* A login's code is exchanged for a token of its own.
LEMMA ExchangeCodeEffect ==
    ASSUME AuthInv, NEW p \in Procs, ExchangeCode(p)
    PROVE  /\ Frame(p) /\ Sound(p)
           /\ UNCHANGED <<dir, legacy, target, store, lock, asStored, stored, refused, env, mem, gone>>
           /\ job[p].pc = "code"
           /\ \/ /\ minted + 1 \in Tokens /\ minted' = minted + 1 /\ live' = live \cup {minted + 1}
                 /\ Started(p) /\ job'[p].cur = minted + 1 /\ job'[p].then = "login"
              \/ UNCHANGED <<live, minted>> /\ job'[p].pc = "idle"
  <1>. USE DEF AuthInv
  <1>0. LocalType /\ GlobalType /\ Local(p)
    BY DEF Types
  <1>1. /\ job[p].pc = "code"
        /\ UNCHANGED <<platform, dir, legacy, target, sidecars, lock, store, asStored,
                       env, mem, pending, port, stored, refused, gone, commands>>
    BY DEF ExchangeCode
  <1>2. CASE /\ Issue /\ minted' = minted + 1 /\ live' = live \cup {minted + 1}
             /\ StartStore(p, minted + 1, "login")
    <2>. DEFINE t == minted + 1
    <2>0. t \in Tokens /\ StartStore(p, t, "login")
      BY <1>2 DEF Issue
    <2>. HIDE DEF t
    <2>1. /\ JobOnly(p) /\ job'[p].pc = "storing" /\ job'[p].cur = t /\ StepOnly(p)
          /\ job'[p].origin = job[p].origin /\ job'[p].then = "login" /\ job'[p].rest = job[p].rest
          /\ step'[p] # None
          /\ \/ step'[p] \in CallType /\ step'[p].at = "lock" /\ step'[p].tok = t
             \/ /\ step'[p].at = "done" /\ step'[p].result \in {"error", "unavailable"}
                /\ step'[p].result = "unavailable" => store[p] = "unavailable"
      BY <1>0, <2>0, StartStoreJob
    <2>2. MemOnly(p) /\ GlobalType'
      <3>1. minted' = t /\ live' = live \cup {t} /\ t >= 1
        BY <1>0, <1>2, TokenBounds DEF t, GlobalType
      <3>. QED
        BY <1>0, <1>1, <2>0, <3>1 DEF MemOnly, LocalType, GlobalType
    <2>3. LockInv(p)'
      BY <1>0, <1>1, <2>1 DEF Local, LockInv, Doing, Storing, Busy, Undone
    <2>4. CallInv(p)'
      BY <2>0, <2>1, NoneAssumption DEF CallInv, Doing, Storing, HasCur, Login, Busy, Undone
    <2>5. Answer(p, {"unavailable"})' => store'[p] = "unavailable"
      BY <1>1, <2>1 DEF Answer, At
    <2>6. OriginInv(p)'
      BY <1>0, <1>1, <2>1, <2>5 DEF Local, OriginInv, Storing, HasCur, Login
    <2>7. Frame(p) /\ Sound(p)
      BY <1>1, <2>1, <2>2, <2>3, <2>4, <2>6, StepSound
    <2>8. Started(p)
      BY <2>1 DEF Started
    <2>. QED
      BY <1>1, <1>2, <2>0, <2>1, <2>7, <2>8 DEF t
  <1>3. CASE End(p) /\ UNCHANGED <<step, live, minted>>
    <2>1. JobOnly(p) /\ job'[p].pc = "idle" /\ job'[p].origin = "Store"
      BY <1>0, <1>3, EndJob
    <2>2. StepOnly(p) /\ MemOnly(p) /\ GlobalType'
      BY <1>0, <1>1, <1>3 DEF StepOnly, MemOnly, LocalType, GlobalType
    <2>3. LockInv(p)' /\ CallInv(p)' /\ OriginInv(p)'
      BY <1>0, <1>1, <1>3, <2>1
         DEF Local, LockInv, CallInv, OriginInv, Doing, Storing, Answer, At, HasCur, Login, Busy, Undone
    <2>4. Frame(p) /\ Sound(p)
      BY <1>1, <2>1, <2>2, <2>3, StepSound
    <2>. QED
      BY <1>1, <1>3, <2>1, <2>4
  <1>. QED
    BY <1>2, <1>3 DEF ExchangeCode

-----------------------------------------------------------------------------
(* What each step of a process does: the answers of the store. *)

\* What every answer has in common.
AnswerTaken(p) ==
    /\ UNCHANGED <<dir, legacy, target, sidecars, store, lock, asStored, env, live, minted, port>>
    /\ Storing(p) /\ At(p, "done") /\ step[p].result \in {"ok", "error", "stuck", "unavailable"}
    /\ job[p].cur \in Tokens
    /\ StepOnly(p) /\ step'[p] = None
    /\ stored' = IF Result(p) = "ok" THEN stored \cup {job[p].cur} ELSE stored
    /\ gone' = (gone \/ Result(p) = "stuck")

\* An answer of the store is taken once, and moves no file.
LEMMA AnswerEffect ==
    ASSUME AuthInv, NEW p \in Procs, Returned(p), UNCHANGED refused \/ refused' = refused \cup {job[p].cur}
    PROVE  AnswerTaken(p) /\ GlobalType'
  <1>. USE DEF AuthInv
  <1>0. LocalType /\ GlobalType /\ Local(p) /\ job[p] \in JobType
    BY DEF Types, LocalType
  <1>1. /\ UNCHANGED <<dir, legacy, target, sidecars, store, lock, asStored, env, live, minted, port>>
        /\ job[p].pc = "storing" /\ At(p, "done") /\ step' = [step EXCEPT ![p] = None]
        /\ stored' = IF Result(p) = "ok" THEN stored \cup {job[p].cur} ELSE stored
        /\ gone' = (gone \/ Result(p) = "stuck")
    BY DEF Returned, EndsStep
  <1>2. step[p] \in AnswerType
    BY <1>0, <1>1, StepType
  <1>3. job[p].cur \in Tokens
    BY <1>0, <1>1 DEF Local, CallInv, HasCur, JobType
  <1>4. StepOnly(p) /\ step'[p] = None
    BY <1>0, <1>1 DEF StepOnly, LocalType
  <1>5. gone' \in BOOLEAN
    BY <1>1
  <1>6. stored' \subseteq Tokens /\ refused' \subseteq Tokens
    BY <1>0, <1>1, <1>3 DEF GlobalType
  <1>7. GlobalType'
    BY <1>0, <1>1, <1>5, <1>6 DEF GlobalType
  <1>. QED
    BY <1>1, <1>2, <1>3, <1>4, <1>7 DEF AnswerTaken, Storing, AnswerType

\* The token state is what it is made of.
LEMMA StateType ==
    ASSUME NEW t \in Tokens, NEW origin \in Origins, NEW access \in BOOLEAN
    PROVE  /\ State(t, origin, access) \in TokenState /\ State(t, origin, access) # None
           /\ State(t, origin, access).tok = t /\ State(t, origin, access).origin = origin
           /\ State(t, origin, access).access = access
  <1>1. State(t, origin, access) \in TokenState
    BY DEF State, TokenState
  <1>. QED
    BY <1>1, NoStateAssumption DEF State

\* refresh_access_token has its answer, and keeps the token in any case.
LEMMA RefreshedEffect ==
    ASSUME AuthInv, NEW p \in Procs, Refreshed(p)
    PROVE  /\ Frame(p) /\ Sound(p) /\ AnswerTaken(p) /\ UNCHANGED refused
           /\ job[p].then \in {"rotated", "adopted"} /\ job'[p].pc \in {"idle", "send"}
           /\ NextOrigin(p) \in Origins
           /\ mem'[p] = State(job[p].cur, NextOrigin(p), TRUE)
  <1>. USE DEF AuthInv
  <1>0. LocalType /\ GlobalType /\ Local(p) /\ job[p] \in JobType
    BY DEF Types, LocalType
  <1>. DEFINE o == NextOrigin(p)
  <1>1. /\ job[p].then \in {"rotated", "adopted"} /\ Returned(p) /\ UNCHANGED refused
        /\ mem' = [mem EXCEPT ![p] = State(job[p].cur, o, TRUE)]
        /\ IF o = "Unpersisted" THEN End(p) ELSE Go(p, "send")
    BY DEF Refreshed
  <1>2. AnswerTaken(p) /\ GlobalType'
    BY <1>1, AnswerEffect
  <1>3. /\ o \in Origins
        /\ o = "Store" => Result(p) = "ok"
        /\ o = "Environment" => Result(p) = "unavailable" /\ env[p] # None
    <2>1. job[p].origin \in Origins
      BY <1>0 DEF JobType
    <2>2. job[p].then = "adopted" => job[p].origin # "Store"
      BY <1>0, <1>2 DEF Local, OriginInv, AnswerTaken
    <2>3. job[p].origin = "Environment" => env[p] # None
      BY <1>0 DEF Local, OriginInv
    <2>. QED
      BY <2>1, <2>2, <2>3 DEF NextOrigin, IsUnavailable, Origins
  <1>. HIDE DEF o
  <1>4. job[p].cur \in Tokens /\ job[p].pc = "storing"
    BY <1>2 DEF AnswerTaken, Storing
  <1>5. /\ MemOnly(p) /\ mem'[p] = State(job[p].cur, o, TRUE)
        /\ mem'[p] # None /\ mem'[p].tok = job[p].cur /\ mem'[p].origin = o /\ mem'[p].access = TRUE
    BY <1>0, <1>1, <1>3, <1>4, StateType DEF MemOnly, LocalType
  <1>6. /\ JobOnly(p) /\ job'[p].origin \in {"Store", job[p].origin}
        /\ \/ job'[p].pc = "idle"
           \/ job'[p].pc = "send" /\ o # "Unpersisted" /\ job'[p].rest = job[p].rest
    BY <1>0, <1>1, EndJob, GoJob DEF Pcs
  <1>7. job[p].rest # <<>>
    BY <1>0, <1>1, <1>4 DEF Local, CallInv, Storing, Login
  <1>8. /\ StepOnly(p) /\ step'[p] = None /\ lock' = lock /\ store' = store /\ env' = env
        /\ stored \subseteq stored' /\ step[p].at = "done" /\ step[p] # None
        /\ Result(p) = "ok" => job[p].cur \in stored'
    BY <1>2 DEF AnswerTaken, At
  <1>9. LockInv(p)' /\ CallInv(p)'
    BY <1>0, <1>6, <1>7, <1>8
       DEF Local, LockInv, CallInv, Doing, Storing, HasCur, Login, Busy, Undone
  <1>10. Result(p) = "unavailable" => store[p] = "unavailable"
    BY <1>0, <1>8 DEF Local, OriginInv, Answer, At, Result
  <1>11. OriginInv(p)'
    <2>1. ~Answer(p, {"unavailable"})'
      BY <1>8 DEF Answer, At
    <2>2. /\ o = "Store" => mem'[p].tok \in stored'
          /\ o = "Environment" => env'[p] # None /\ store'[p] = "unavailable"
      BY <1>3, <1>5, <1>8, <1>10
    <2>3. job'[p].origin = "Environment" => env'[p] # None
      BY <1>0, <1>6, <1>8 DEF Local, OriginInv
    <2>. QED
      BY <1>5, <1>6, <2>1, <2>2, <2>3 DEF OriginInv, Storing, HasCur, Login
  <1>12. Frame(p) /\ Sound(p)
    BY <1>2, <1>5, <1>6, <1>8, <1>9, <1>11, StepSound
  <1>. QED
    BY <1>1, <1>2, <1>3, <1>5, <1>6, <1>12 DEF o

\* access_token has the answer to its second attempt.
LEMMA PersistedEffect ==
    ASSUME AuthInv, NEW p \in Procs, Persisted(p)
    PROVE  /\ Frame(p) /\ Sound(p) /\ AnswerTaken(p) /\ UNCHANGED refused
           /\ job[p].then = "retry" /\ job'[p].pc \in {"idle", "send"}
           /\ mem[p] # None /\ mem[p].origin = "Unpersisted" /\ mem[p].tok = job[p].cur
           /\ mem'[p] # None /\ mem'[p].tok = mem[p].tok
           /\ mem'[p].origin = IF Result(p) = "ok" THEN "Store" ELSE "Unpersisted"
  <1>. USE DEF AuthInv
  <1>0. LocalType /\ GlobalType /\ Local(p) /\ job[p] \in JobType
    BY DEF Types, LocalType
  <1>1. job[p].then = "retry" /\ Returned(p) /\ UNCHANGED refused
    BY DEF Persisted
  <1>2. AnswerTaken(p) /\ GlobalType'
    BY <1>1, AnswerEffect
  <1>3. /\ StepOnly(p) /\ step'[p] = None /\ lock' = lock /\ store' = store /\ env' = env
        /\ stored \subseteq stored' /\ step[p].at = "done" /\ step[p] # None
        /\ Result(p) = "ok" => job[p].cur \in stored'
        /\ job[p].pc = "storing"
    BY <1>2 DEF AnswerTaken, At, Storing
  <1>4. /\ mem[p] \in TokenState /\ mem[p] # None /\ mem[p].origin = "Unpersisted" /\ mem[p].tok = job[p].cur
        /\ job[p].rest # <<>>
    BY <1>0, <1>1, <1>3 DEF Local, OriginInv, CallInv, Storing, Login, LocalType
  <1>5. CASE Result(p) = "ok" /\ mem' = [mem EXCEPT ![p].origin = "Store"] /\ Go(p, "send")
    <2>. DEFINE m == [mem[p] EXCEPT !.origin = "Store"]
    <2>1. mem' = [mem EXCEPT ![p] = m]
      BY <1>5
    <2>2. m \in TokenState /\ m.origin = "Store" /\ m.tok = mem[p].tok
      BY <1>4 DEF TokenState, Origins
    <2>. HIDE DEF m
    <2>3. MemOnly(p) /\ mem'[p] = m /\ m # None
      BY <1>0, <2>1, <2>2, NoStateAssumption DEF MemOnly, LocalType
    <2>4. /\ JobOnly(p) /\ job'[p].pc = "send" /\ job'[p].origin = job[p].origin
          /\ job'[p].rest = job[p].rest
      BY <1>0, <1>5, GoJob DEF Pcs
    <2>5. mem'[p] # None /\ mem'[p].tok = mem[p].tok /\ mem'[p].origin = "Store" /\ mem'[p].access
      <3>1. m.access = mem[p].access
        BY <1>4 DEF m, TokenState
      <3>2. mem[p].access
        BY <1>0, <1>1, <1>3 DEF Local, OriginInv, Storing
      <3>. QED
        BY <2>2, <2>3, <3>1, <3>2
    <2>6. LockInv(p)' /\ CallInv(p)'
      BY <1>0, <1>3, <1>4, <2>4
         DEF Local, LockInv, CallInv, Doing, Storing, HasCur, Login, Busy, Undone
    <2>7. job'[p].origin = "Environment" => env'[p] # None
      BY <1>0, <1>3, <2>4 DEF Local, OriginInv
    <2>8. OriginInv(p)'
      BY <1>3, <1>4, <1>5, <2>4, <2>5, <2>7 DEF OriginInv, Storing, HasCur, Login, Answer, At
    <2>9. Frame(p) /\ Sound(p)
      BY <1>2, <1>3, <2>3, <2>4, <2>6, <2>8, StepSound
    <2>. QED
      BY <1>1, <1>2, <1>4, <1>5, <2>4, <2>5, <2>9
  <1>6. CASE Result(p) # "ok" /\ UNCHANGED mem /\ End(p)
    <2>1. MemOnly(p) /\ mem'[p] = mem[p]
      BY <1>0, <1>6 DEF MemOnly, LocalType
    <2>2. JobOnly(p) /\ job'[p].pc = "idle" /\ job'[p].origin = "Store"
      BY <1>0, <1>6, EndJob
    <2>3. LockInv(p)' /\ CallInv(p)'
      BY <1>0, <1>3, <2>2
         DEF Local, LockInv, CallInv, Doing, Storing, HasCur, Login, Busy, Undone
    <2>4. OriginInv(p)'
      BY <1>3, <1>4, <2>1, <2>2 DEF OriginInv, Storing, HasCur, Login, Answer, At
    <2>5. Frame(p) /\ Sound(p)
      BY <1>2, <1>3, <2>1, <2>2, <2>3, <2>4, StepSound
    <2>. QED
      BY <1>1, <1>2, <1>4, <1>6, <2>1, <2>2, <2>5
  <1>. QED
    BY <1>5, <1>6 DEF Persisted

\* complete_login has its answer.
LEMMA LoginEffect ==
    ASSUME AuthInv, NEW p \in Procs, complete_login(p)
    PROVE  /\ Frame(p) /\ Sound(p) /\ AnswerTaken(p)
           /\ job[p].then = "login" /\ job'[p].pc \in {"idle", "access"}
           /\ \/ Result(p) = "ok" /\ mem'[p] = State(job[p].cur, "Store", TRUE) /\ UNCHANGED refused
              \/ /\ Result(p) # "ok" /\ mem'[p] = mem[p]
                 /\ refused' = IF Result(p) = "stuck" THEN refused ELSE refused \cup {job[p].cur}
  <1>. USE DEF AuthInv
  <1>0. LocalType /\ GlobalType /\ Local(p) /\ job[p] \in JobType
    BY DEF Types, LocalType
  <1>1. job[p].then = "login" /\ Returned(p) /\ (UNCHANGED refused \/ refused' = refused \cup {job[p].cur})
    BY DEF complete_login
  <1>2. AnswerTaken(p) /\ GlobalType'
    BY <1>1, AnswerEffect
  <1>3. /\ StepOnly(p) /\ step'[p] = None /\ lock' = lock /\ store' = store /\ env' = env
        /\ stored \subseteq stored' /\ step[p].at = "done" /\ step[p] # None
        /\ Result(p) = "ok" => job[p].cur \in stored'
        /\ job[p].pc = "storing" /\ job[p].cur \in Tokens
    BY <1>2 DEF AnswerTaken, At, Storing
  <1>4. CASE /\ Result(p) = "ok" /\ UNCHANGED refused
             /\ mem' = [mem EXCEPT ![p] = State(job[p].cur, "Store", TRUE)]
             /\ job' = [job EXCEPT ![p] = [NoJob EXCEPT !.pc = "access", !.cmd = "label",
                                                        !.rest = <<"get">>, !.attempt = 1]]
    <2>1. /\ State(job[p].cur, "Store", TRUE) \in TokenState /\ State(job[p].cur, "Store", TRUE) # None
          /\ State(job[p].cur, "Store", TRUE).tok = job[p].cur
          /\ State(job[p].cur, "Store", TRUE).origin = "Store"
      BY <1>3, StateType DEF Origins
    <2>2. MemOnly(p) /\ mem'[p] = State(job[p].cur, "Store", TRUE)
      BY <1>0, <1>4, <2>1 DEF MemOnly, LocalType
    <2>. DEFINE s == <<"get">>
    <2>. DEFINE j == [NoJob EXCEPT !.pc = "access", !.cmd = "label", !.rest = s, !.attempt = 1]
    <2>3. s \in Seq({"get", "put"}) /\ s # <<>>
      OBVIOUS
    <2>4. job' = [job EXCEPT ![p] = j]
      BY <1>4
    <2>. HIDE DEF s
    <2>5. j \in JobType /\ j.pc = "access" /\ j.rest = s /\ j.origin = "Store"
      BY <2>3, JobTypes DEF JobType
    <2>. HIDE DEF j
    <2>6. JobOnly(p) /\ job'[p] = j
      BY <1>0, <2>4, <2>5 DEF JobOnly, LocalType
    <2>7. LockInv(p)' /\ CallInv(p)'
      BY <1>0, <1>3, <2>3, <2>5, <2>6
         DEF Local, LockInv, CallInv, Doing, Storing, HasCur, Login, Busy, Undone
    <2>8. OriginInv(p)'
      BY <1>3, <1>4, <2>1, <2>2, <2>5, <2>6 DEF OriginInv, Storing, HasCur, Login, Answer, At
    <2>9. Frame(p) /\ Sound(p)
      BY <1>2, <1>3, <2>2, <2>6, <2>7, <2>8, StepSound
    <2>. QED
      BY <1>1, <1>2, <1>4, <2>2, <2>5, <2>6, <2>9
  <1>5. CASE /\ Result(p) # "ok" /\ UNCHANGED mem /\ End(p)
             /\ refused' = IF Result(p) = "stuck" THEN refused ELSE refused \cup {job[p].cur}
    <2>1. MemOnly(p) /\ mem'[p] = mem[p]
      BY <1>0, <1>5 DEF MemOnly, LocalType
    <2>2. JobOnly(p) /\ job'[p].pc = "idle" /\ job'[p].origin = "Store"
      BY <1>0, <1>5, EndJob
    <2>3. LockInv(p)' /\ CallInv(p)'
      BY <1>0, <1>3, <2>2
         DEF Local, LockInv, CallInv, Doing, Storing, HasCur, Login, Busy, Undone
    <2>4. OriginInv(p)'
      BY <1>0, <1>3, <2>1, <2>2 DEF Local, OriginInv, Storing, HasCur, Login, Answer, At
    <2>5. Frame(p) /\ Sound(p)
      BY <1>2, <1>3, <2>1, <2>2, <2>3, <2>4, StepSound
    <2>. QED
      BY <1>1, <1>2, <1>5, <2>1, <2>2, <2>5
  <1>. QED
    BY <1>4, <1>5 DEF complete_login

-----------------------------------------------------------------------------
(* What each step of a process does: the end of a process. *)

\* A process that ends leaves the files, its lock and what only it knew.
LEMMA CrashEffect ==
    ASSUME AuthInv, NEW p \in Procs, Crash(p)
    PROVE  /\ Frame(p) /\ Sound(p)
           /\ UNCHANGED <<dir, legacy, target, env, live, minted, stored, refused>>
           /\ lock' = IF lock = p THEN None ELSE lock
           /\ asStored' = IF Doing(p, Undone) THEN None ELSE asStored
           /\ gone' = (gone \/ asStored' # asStored \/ (Knows(p) \cap live) \ {asStored} # {})
           /\ mem'[p] = None /\ job'[p].pc = "down" /\ step'[p] = None /\ store'[p] = "none"
  <1>. USE DEF AuthInv
  <1>0. LocalType /\ GlobalType /\ Local(p)
    BY DEF Types
  <1>1. /\ UNCHANGED <<dir, legacy, target, sidecars, env, live, minted, stored, refused>>
        /\ lock' = IF lock = p THEN None ELSE lock
        /\ asStored' = IF step[p] # None /\ step[p].at \in {"settle", "unsure", "restore"} THEN None ELSE asStored
        /\ gone' = (gone \/ asStored' # asStored \/ (Knows(p) \cap live) \ {asStored} # {})
        /\ mem' = [mem EXCEPT ![p] = None]
        /\ job' = [job EXCEPT ![p] = [NoJob EXCEPT !.pc = "down"]]
        /\ step' = [step EXCEPT ![p] = None] /\ store' = [store EXCEPT ![p] = "none"]
        /\ port' = IF port = p THEN None ELSE port
    BY DEF Crash, StoreCrash, Begin
  <1>. DEFINE j == [NoJob EXCEPT !.pc = "down"]
  <1>2. j \in JobType /\ j.pc = "down" /\ j.origin = "Store"
    BY JobTypes DEF JobType
  <1>. HIDE DEF j
  <1>3. JobOnly(p) /\ job'[p] = j
    BY <1>0, <1>1, <1>2 DEF JobOnly, LocalType, j
  <1>4. MemOnly(p) /\ mem'[p] = None /\ StepOnly(p) /\ step'[p] = None
    BY <1>0, <1>1 DEF MemOnly, StepOnly, LocalType
  <1>5. /\ store' \in [Procs -> {"none", "windows", "unavailable", "failed"}] /\ store'[p] = "none"
        /\ \A q \in Procs \ {p} : store'[q] = store[q]
    BY <1>0, <1>1 DEF LocalType
  <1>6. LocalType'
    BY <1>3, <1>4, <1>5 DEF LocalType, JobOnly, MemOnly, StepOnly
  <1>7. gone' \in BOOLEAN
    BY <1>1
  <1>8. GlobalType'
    BY <1>0, <1>1, <1>7 DEF GlobalType
  <1>9. lock' # p
    BY <1>1, NoneAssumption
  <1>10. Frame(p)
    BY <1>1, <1>3, <1>4, <1>5, NoneAssumption DEF Frame, JobOnly, MemOnly, StepOnly
  <1>11. LockInv(p)' /\ CallInv(p)' /\ OriginInv(p)'
    BY <1>2, <1>3, <1>4, <1>9
       DEF LockInv, CallInv, OriginInv, Doing, Storing, HasCur, Login, Answer, At
  <1>. QED
    BY <1>1, <1>2, <1>3, <1>4, <1>5, <1>6, <1>8, <1>10, <1>11 DEF Sound, Types, Local, Doing, Undone

-----------------------------------------------------------------------------
(* What each step of a process does: the steps of a call of the store. *)

\* The job waits for the answer meanwhile.
Waits(p) ==
    /\ UNCHANGED <<legacy, store, env, mem, job, live, minted, stored, refused, gone>>
    /\ Storing(p) /\ job[p].cur \in Tokens /\ StepOnly(p)

\* A step of a call of the store keeps the types and the call's invariant, if it
\* keeps the token and the lock for as long as the file may be changed.
LEMMA StoreSound ==
    ASSUME AuthInv, NEW p \in Procs, Waits(p), lock' \in {lock, p, None}, lock \in {p, None} \/ lock' = lock,
           port' = port, sidecars' \subseteq [mark : {"tmp", "bak"}, data : Tokens \cup {Garbage}],
           target' \in FileType \cup {None}, dir' \in DirectoryType \cup {None},
           asStored' \in Tokens \cup {None},
           step'[p] # None /\ step'[p].at # "legacy", (lock' = p) = (step'[p].at \in Busy),
           step'[p].at \in {"lock"} \cup Busy => step'[p].tok = job[p].cur,
           step'[p].at \in Busy => validate_protected_payload_size(step'[p].tok),
           step'[p].at \in Undone => step'[p].had = (step'[p].prev # None),
           step'[p].at = "done" => step'[p].result # "unavailable"
    PROVE  Frame(p) /\ Sound(p)
  <1>. USE DEF AuthInv
  <1>0. LocalType /\ GlobalType /\ Local(p)
    BY DEF Types
  <1>1. /\ UNCHANGED <<store, env, mem, job, stored, live, minted, refused, gone>>
        /\ job[p].pc = "storing" /\ StepOnly(p)
    BY DEF Waits, Storing
  <1>2. GlobalType' /\ LocalType'
    BY <1>0, <1>1 DEF GlobalType, LocalType, StepOnly
  <1>3. Frame(p)
    BY <1>1, NoneAssumption DEF Frame, StepOnly
  <1>4. LockInv(p)'
    BY <1>1 DEF LockInv, Doing, Storing
  <1>5. CallInv(p)'
    BY <1>0, <1>1 DEF Local, CallInv, Doing, Storing, HasCur, Login
  <1>6. OriginInv(p)'
    <2>1. ~Answer(p, {"unavailable"})'
      BY DEF Answer, At
    <2>. QED
      BY <1>0, <1>1, <2>1 DEF Local, OriginInv, Storing, HasCur, Login
  <1>. QED
    BY <1>2, <1>3, <1>4, <1>5, <1>6 DEF Sound, Types, Local

\* The file is what it was, but for its access control list.
TargetRepaired == target' = IF target = None THEN None ELSE Enforced(target, FALSE)

\* A step of the store: the process waits for it, and holds what it knows.
LEMMA WaitsFacts ==
    ASSUME AuthInv, NEW p \in Procs, UNCHANGED authVars, UNCHANGED <<legacy, store>>,
           NEW s \in CallType \cup AnswerType, Begin(p, s), Doing(p, {"lock"} \cup Busy)
    PROVE  /\ Waits(p) /\ step'[p] = s /\ s # None
           /\ step[p] \in CallType /\ step[p].tok = job[p].cur
           /\ (lock = p) = (step[p].at \in Busy)
  <1>. USE DEF AuthInv
  <1>0. LocalType /\ GlobalType /\ Local(p) /\ job[p] \in JobType
    BY DEF Types, LocalType
  <1>1. job[p].pc = "storing" /\ job[p].cur \in Tokens
    BY <1>0 DEF Local, LockInv, CallInv, HasCur, Storing, Doing, Busy, Undone, JobType
  <1>2. s # None
    BY NoneAssumption
  <1>3. StepOnly(p) /\ step'[p] = s
    BY <1>0 DEF Begin, StepOnly, LocalType
  <1>4. step[p] \in CallType
    BY <1>0, StepType
  <1>. QED
    BY <1>0, <1>1, <1>2, <1>3, <1>4 DEF Waits, Storing, authVars, Local, LockInv, CallInv, Doing

\* PrepareStore: the lock is taken, or the call fails with nothing changed but
\* a list put right.
LEMMA PrepareEffect ==
    ASSUME AuthInv, NEW p \in Procs, PrepareStore(p), UNCHANGED authVars
    PROVE  /\ Frame(p) /\ Sound(p) /\ Waits(p) /\ UNCHANGED asStored
           /\ dir' = None => dir = None
           /\ Doing(p, {"lock"}) /\ lock # p
           /\ \/ UNCHANGED <<target, lock>> /\ step'[p] = Answered("error")
              \/ /\ lock = None /\ lock' = p /\ TargetRepaired
                 /\ target # None => Enforceable(target, FALSE)
                 /\ step'[p] = [step[p] EXCEPT !.at = "publish", !.had = target # None]
  <1>. USE DEF AuthInv
  <1>0. LocalType /\ GlobalType /\ Local(p)
    BY DEF Types
  <1>1. Doing(p, {"lock"}) /\ UNCHANGED <<platform, legacy, store, asStored>>
    BY DEF PrepareStore, At, Doing
  <1>2. step[p] \in CallType /\ step[p].tok = job[p].cur /\ lock # p /\ step[p].at = "lock"
    BY <1>0, <1>1, StepType DEF Local, LockInv, CallInv, Doing, Busy, Undone
  <1>3. PreparedDirectory \in DirectoryType
    BY <1>0 DEF GlobalType, PreparedDirectory, DirectoryType, Enforced, CurrentOwner
  <1>4. port' = port
    BY DEF authVars
  <1>5. CASE /\ Begin(p, Answered("error")) /\ UNCHANGED <<target, sidecars, lock>>
             /\ dir' \in {dir, PreparedDirectory}
    <2>1. Answered("error") \in AnswerType /\ Answered("error").at = "done" /\ Answered("error").result = "error"
      BY DEF Answered, AnswerType
    <2>2. Waits(p) /\ step'[p] = Answered("error") /\ step'[p] # None
      BY <1>1, <1>5, <2>1, WaitsFacts DEF Doing
    <2>3. Frame(p) /\ Sound(p)
      BY <1>0, <1>1, <1>2, <1>3, <1>4, <1>5, <2>1, <2>2, StoreSound DEF GlobalType, Busy, Undone
    <2>. QED
      BY <1>1, <1>2, <1>3, <1>5, <2>2, <2>3, NoneAssumption
  <1>6. CASE /\ ~PrepareFails(p) /\ dir' = PreparedDirectory /\ lock' = p /\ TargetRepaired
             /\ sidecars' = sidecars \cup {Tmp(step[p].tok)}
             /\ Begin(p, [step[p] EXCEPT !.at = "publish", !.had = target # None])
    <2>. DEFINE b == (target # None)
    <2>. DEFINE s == [step[p] EXCEPT !.at = "publish", !.had = b]
    <2>0. b \in BOOLEAN
      OBVIOUS
    <2>. HIDE DEF b
    <2>1. s \in CallType /\ s.at = "publish" /\ s.tok = step[p].tok
      BY <1>2, <2>0 DEF CallType
    <2>. HIDE DEF s
    <2>2. Waits(p) /\ step'[p] = s /\ step'[p] # None
      BY <1>1, <1>6, <2>1, WaitsFacts DEF Doing, s, b
    <2>3. /\ lock = None /\ validate_protected_payload_size(step[p].tok)
          /\ target # None => Enforceable(target, FALSE)
      BY <1>6 DEF PrepareFails
    <2>4. target' \in FileType \cup {None}
      BY <1>0, <1>6, EnforcedType DEF GlobalType, TargetRepaired
    <2>5. sidecars' \subseteq [mark : {"tmp", "bak"}, data : Tokens \cup {Garbage}]
      BY <1>0, <1>2, <1>6 DEF GlobalType, Tmp, CallType
    <2>6. Frame(p) /\ Sound(p)
      BY <1>0, <1>1, <1>2, <1>3, <1>4, <1>6, <2>1, <2>2, <2>3, <2>4, <2>5, StoreSound
         DEF GlobalType, Busy, Undone
    <2>. QED
      BY <1>1, <1>2, <1>3, <1>6, <2>2, <2>3, <2>6, NoneAssumption DEF s, b
  <1>. QED
    BY <1>5, <1>6 DEF PrepareStore, TargetRepaired

\* PublishToken: the new file is in place, or the old one is gone, or the call
\* fails and nothing has changed.
LEMMA PublishEffect ==
    ASSUME AuthInv, NEW p \in Procs, PublishToken(p), UNCHANGED authVars
    PROVE  /\ Frame(p) /\ Sound(p) /\ Waits(p) /\ UNCHANGED <<dir, asStored>>
           /\ Doing(p, {"publish"}) /\ lock = p
           /\ \/ UNCHANGED target /\ lock' = None /\ step'[p] = Answered("error")
              \/ /\ lock' = p /\ step'[p].at \in Undone /\ step'[p].prev = target
                 /\ \/ target' = File(job[p].cur, InheritedAcl)
                    \/ target' = None
  <1>. USE DEF AuthInv
  <1>0. LocalType /\ GlobalType /\ Local(p)
    BY DEF Types
  <1>1. /\ Doing(p, {"publish"}) /\ UNCHANGED <<platform, dir, legacy, store, asStored>> /\ port' = port
    BY DEF PublishToken, At, Doing, authVars
  <1>2. /\ step[p] \in CallType /\ step[p].tok = job[p].cur /\ lock = p /\ step[p].at = "publish"
        /\ validate_protected_payload_size(step[p].tok)
    BY <1>0, <1>1, StepType DEF Local, LockInv, CallInv, Doing, Busy, Undone
  <1>3. /\ step[p].tok \in Tokens
        /\ target # None => target \in FileType /\ target.data \in Tokens \cup {Garbage}
    BY <1>0, <1>2 DEF CallType, GlobalType, FileType
  <1>. DEFINE old == IF step[p].had THEN {Bak(target.data)} ELSE {}
  <1>4. step[p].had = (target # None) => old \subseteq [mark : {"tmp", "bak"}, data : Tokens \cup {Garbage}]
    <2>1. target # None => Bak(target.data) \in [mark : {"tmp", "bak"}, data : Tokens \cup {Garbage}]
      BY <1>3 DEF Bak
    <2>. QED
      BY <2>1
  <1>. HIDE DEF old
  <1>5. CASE Finish(p, "error") /\ sidecars' = sidecars \ {Tmp(step[p].tok)} /\ UNCHANGED target
    <2>1. Answered("error") \in AnswerType /\ Answered("error").at = "done" /\ Answered("error").result = "error"
      BY DEF Answered, AnswerType
    <2>2. Waits(p) /\ step'[p] = Answered("error") /\ step'[p] # None
      BY <1>1, <1>5, <2>1, WaitsFacts DEF Doing, Busy, Finish
    <2>3. lock' = None
      BY <1>5 DEF Finish
    <2>4. sidecars' \subseteq [mark : {"tmp", "bak"}, data : Tokens \cup {Garbage}]
      BY <1>0, <1>5 DEF GlobalType
    <2>5. Frame(p) /\ Sound(p)
      BY <1>0, <1>1, <1>2, <1>5, <2>1, <2>2, <2>3, <2>4, StoreSound, NoneAssumption DEF GlobalType, Busy, Undone
    <2>. QED
      BY <1>1, <1>2, <1>5, <2>2, <2>3, <2>5
  <1>6. ASSUME NEW w \in {"settle", "unsure"}, step[p].had = (target # None),
               Begin(p, [step[p] EXCEPT !.at = w, !.prev = target]), UNCHANGED lock,
               \/ sidecars' = (sidecars \ {Tmp(step[p].tok)}) \cup old
               \/ sidecars' = sidecars \cup old,
               target' \in {File(step[p].tok, InheritedAcl), None}
        PROVE  /\ Frame(p) /\ Sound(p) /\ Waits(p)
               /\ lock' = p /\ step'[p].at \in Undone /\ step'[p].prev = target
    <2>. DEFINE s == [step[p] EXCEPT !.at = w, !.prev = target]
    <2>1. /\ s \in CallType /\ s.at = w /\ s.tok = step[p].tok /\ s.prev = target /\ s.had = step[p].had
      BY <1>0, <1>2 DEF CallType, GlobalType
    <2>2. Begin(p, s)
      BY <1>6
    <2>. HIDE DEF s
    <2>3. Waits(p) /\ step'[p] = s /\ step'[p] # None
      BY <1>1, <2>1, <2>2, WaitsFacts DEF Doing, Busy
    <2>4. sidecars' \subseteq [mark : {"tmp", "bak"}, data : Tokens \cup {Garbage}]
      BY <1>0, <1>4, <1>6 DEF GlobalType
    <2>5. target' \in FileType \cup {None}
      BY <1>3, <1>6, FileTypes
    <2>6. Frame(p) /\ Sound(p)
      BY <1>0, <1>1, <1>2, <1>6, <2>1, <2>3, <2>4, <2>5, StoreSound DEF GlobalType, Busy, Undone
    <2>. QED
      BY <1>2, <1>6, <2>1, <2>3, <2>6 DEF Undone
  <1>7. CASE /\ step[p].had = (target # None) /\ target' = File(step[p].tok, InheritedAcl)
             /\ sidecars' = (sidecars \ {Tmp(step[p].tok)}) \cup old
             /\ Begin(p, [step[p] EXCEPT !.at = "settle", !.prev = target]) /\ UNCHANGED lock
    BY <1>1, <1>2, <1>6, <1>7
  <1>8. CASE /\ step[p].had = (target # None) /\ target' = None
             /\ sidecars' = sidecars \cup old
             /\ Begin(p, [step[p] EXCEPT !.at = "unsure", !.prev = target]) /\ UNCHANGED lock
    BY <1>1, <1>2, <1>6, <1>8
  <1>. QED
    BY <1>5, <1>7, <1>8 DEF PublishToken, old

\* The end of a call, with success or not yet.
LEMMA SettleEffect ==
    ASSUME AuthInv, NEW p \in Procs, SettleStore(p) \/ ReadBack(p), UNCHANGED authVars
    PROVE  /\ Frame(p) /\ Sound(p) /\ Waits(p) /\ UNCHANGED dir
           /\ Doing(p, Undone) /\ lock = p
           /\ \/ /\ target # None /\ target.data = job[p].cur /\ Enforceable(target, FALSE)
                 /\ target' = Enforced(target, FALSE) /\ lock' = None /\ asStored' = job[p].cur
                 /\ validate_protected_payload_size(job[p].cur)
                 /\ step'[p] = Answered("ok")
              \/ /\ UNCHANGED <<target, asStored>> /\ lock' = p
                 /\ step'[p].at \in Undone /\ step'[p].prev = step[p].prev
  <1>. USE DEF AuthInv
  <1>0. LocalType /\ GlobalType /\ Local(p)
    BY DEF Types
  <1>1. /\ Doing(p, {"settle", "unsure"}) /\ UNCHANGED <<platform, dir, legacy, store>> /\ port' = port
    BY DEF SettleStore, ReadBack, At, Doing, authVars
  <1>2. /\ step[p] \in CallType /\ step[p].tok = job[p].cur /\ lock = p /\ step[p].at \in Undone
        /\ validate_protected_payload_size(step[p].tok) /\ step[p].tok \in Tokens
        /\ step[p].had = (step[p].prev # None)
    <2>1. step[p] \in CallType
      BY <1>0, <1>1, StepType DEF Doing, Busy, Undone
    <2>. QED
      BY <1>0, <1>1, <2>1 DEF Local, LockInv, CallInv, Doing, Busy, Undone, CallType
  <1>3. CASE /\ target # None /\ target.data = step[p].tok /\ Enforceable(target, FALSE)
             /\ target' = Enforced(target, FALSE)
             /\ sidecars' \subseteq sidecars
             /\ Finish(p, "ok") /\ asStored' = step[p].tok
    <2>1. Answered("ok") \in AnswerType /\ Answered("ok").at = "done" /\ Answered("ok").result = "ok"
      BY DEF Answered, AnswerType
    <2>2. Waits(p) /\ step'[p] = Answered("ok") /\ step'[p] # None
      BY <1>1, <1>3, <2>1, WaitsFacts DEF Doing, Busy, Undone, Finish
    <2>3. lock' = None
      BY <1>3 DEF Finish
    <2>4. target' \in FileType
      BY <1>0, <1>3, EnforcedType DEF GlobalType
    <2>5. sidecars' \subseteq [mark : {"tmp", "bak"}, data : Tokens \cup {Garbage}]
      BY <1>0, <1>3 DEF GlobalType
    <2>6. Frame(p) /\ Sound(p)
      <3>1. /\ step'[p].at = "done" /\ step'[p].result = "ok" /\ asStored' \in Tokens
            /\ dir' \in DirectoryType \cup {None}
        BY <1>0, <1>1, <1>2, <1>3, <2>1, <2>2 DEF GlobalType
      <3>2. lock' # p
        BY <2>3, NoneAssumption
      <3>. QED
        BY <1>1, <1>2, <2>2, <2>3, <2>4, <2>5, <3>1, <3>2, StoreSound DEF Busy, Undone
    <2>. QED
      BY <1>1, <1>2, <1>3, <2>2, <2>3, <2>6 DEF Doing
  <1>4. ASSUME NEW w \in {"unsure", "restore"}, Goes(p, w), UNCHANGED <<target, sidecars, lock, asStored>>
        PROVE  /\ Frame(p) /\ Sound(p) /\ Waits(p)
               /\ lock' = p /\ step'[p].at \in Undone /\ step'[p].prev = step[p].prev
    <2>. DEFINE s == [step[p] EXCEPT !.at = w]
    <2>1. s \in CallType /\ s.at = w /\ s.tok = step[p].tok /\ s.prev = step[p].prev /\ s.had = step[p].had
      BY <1>2 DEF CallType
    <2>2. Begin(p, s)
      BY <1>4 DEF Goes
    <2>. HIDE DEF s
    <2>3. Waits(p) /\ step'[p] = s /\ step'[p] # None
      BY <1>1, <2>1, <2>2, WaitsFacts DEF Doing, Busy, Undone
    <2>4. Frame(p) /\ Sound(p)
      BY <1>0, <1>1, <1>2, <1>4, <2>1, <2>3, StoreSound DEF GlobalType, Busy, Undone
    <2>. QED
      BY <1>2, <1>4, <2>1, <2>3, <2>4 DEF Undone
  <1>5. CASE \E w \in {"unsure", "restore"} : Goes(p, w) /\ UNCHANGED <<target, sidecars, lock, asStored>>
    BY <1>1, <1>2, <1>4, <1>5 DEF Doing
  <1>6. CASE SettleStore(p)
    <2>1. sidecars \ Backups(p) \subseteq sidecars
      OBVIOUS
    <2>. QED
      BY <1>3, <1>5, <1>6, <2>1 DEF SettleStore
  <1>7. CASE ReadBack(p)
    <2>1. {} \subseteq sidecars
      OBVIOUS
    <2>. QED
      BY <1>3, <1>5, <1>7, <2>1 DEF ReadBack
  <1>. QED
    BY <1>6, <1>7

\* restore_previous_token_state: the file is what it was, or nobody knows.
LEMMA RestoreEffect ==
    ASSUME AuthInv, NEW p \in Procs, restore_previous_token_state(p), UNCHANGED authVars
    PROVE  /\ Frame(p) /\ Sound(p) /\ Waits(p) /\ UNCHANGED dir
           /\ Doing(p, Undone) /\ lock = p /\ lock' = None
           /\ \/ /\ target' = Previous(p) /\ UNCHANGED asStored /\ step'[p] = Answered("error")
              \/ /\ target' \in {target, Previous(p)} /\ asStored' = None /\ step'[p] = Answered("stuck")
           /\ Previous(p) = IF step[p].prev = None THEN None ELSE PrivateFile(step[p].prev.data)
  <1>. USE DEF AuthInv
  <1>0. LocalType /\ GlobalType /\ Local(p)
    BY DEF Types
  <1>1. /\ Doing(p, {"restore"}) /\ UNCHANGED <<platform, dir, legacy, store>> /\ port' = port
    BY DEF restore_previous_token_state, At, Doing, authVars
  <1>2. /\ step[p] \in CallType /\ step[p].tok = job[p].cur /\ lock = p /\ step[p].at \in Undone
        /\ step[p].had = (step[p].prev # None) /\ step[p].prev \in FileType \cup {None}
    <2>1. step[p] \in CallType
      BY <1>0, <1>1, StepType DEF Doing, Busy, Undone
    <2>. QED
      BY <1>0, <1>1, <2>1 DEF Local, LockInv, CallInv, Doing, Busy, Undone, CallType
  <1>3. Previous(p) = IF step[p].prev = None THEN None ELSE PrivateFile(step[p].prev.data)
    BY <1>2 DEF Previous
  <1>4. Previous(p) \in FileType \cup {None}
    <2>1. step[p].prev # None => step[p].prev.data \in Tokens \cup {Garbage}
      BY <1>2 DEF FileType
    <2>. QED
      BY <1>2, <1>3, <2>1, FileTypes
  <1>5. PICK r \in {"error", "stuck"} :
          /\ Finish(p, r) /\ sidecars' \subseteq sidecars
          /\ \/ r = "error" /\ target' = Previous(p) /\ UNCHANGED asStored
             \/ r = "stuck" /\ target' \in {target, Previous(p)} /\ asStored' = None
    <2>1. sidecars \ Backups(p) \subseteq sidecars
      OBVIOUS
    <2>. QED
      BY <2>1 DEF restore_previous_token_state
  <1>6. Answered(r) \in AnswerType /\ Answered(r).at = "done" /\ Answered(r).result = r
    BY DEF Answered, AnswerType
  <1>7. Waits(p) /\ step'[p] = Answered(r) /\ step'[p] # None /\ lock' = None
    BY <1>1, <1>5, <1>6, WaitsFacts DEF Doing, Busy, Undone, Finish
  <1>8. target' \in FileType \cup {None} /\ asStored' \in Tokens \cup {None}
    BY <1>0, <1>4, <1>5 DEF GlobalType
  <1>9. Frame(p) /\ Sound(p)
    BY <1>0, <1>1, <1>2, <1>5, <1>6, <1>7, <1>8, StoreSound, NoneAssumption DEF GlobalType, Busy, Undone
  <1>. QED
    BY <1>1, <1>2, <1>3, <1>5, <1>7, <1>9 DEF Doing

-----------------------------------------------------------------------------
(* What the other steps do. *)

\* The listener of a login touches nothing that a token is in.
Idles == UNCHANGED <<dir, legacy, target, lock, store, step, asStored, env, mem, job, live, minted,
                     stored, refused, gone>>

\* The listener of a login changes neither tokens nor files.
LEMMA ListenerEffect ==
    ASSUME AuthInv, NEW p \in Procs, begin_login(p) \/ Callback(p) \/ StrayCallback(p)
    PROVE  Idles /\ AuthInv'
  <1>1. Idles /\ UNCHANGED sidecars /\ port' \in {port, p, None}
    BY DEF begin_login, Callback, StrayCallback, Idles, storeVars
  <1>2. Types'
    BY <1>1 DEF AuthInv, Types, GlobalType, LocalType, Idles
  <1>3. ASSUME NEW q \in Procs PROVE Local(q)'
    BY <1>1 DEF AuthInv, Local, LockInv, CallInv, OriginInv, Idles, Doing, Storing, HasCur, Login, Answer, At
  <1>. QED
    BY <1>1, <1>2, <1>3 DEF AuthInv

\* What no token, file, call or job changes keeps the invariant.
LEMMA IdleKeeps ==
    ASSUME AuthInv, Idles, UNCHANGED <<sidecars, port>>
    PROVE  AuthInv'
  <1>1. Types'
    BY DEF AuthInv, Types, GlobalType, LocalType, Idles
  <1>2. ASSUME NEW q \in Procs PROVE Local(q)'
    BY DEF AuthInv, Local, LockInv, CallInv, OriginInv, Idles, Doing, Storing, HasCur, Login, Answer, At
  <1>. QED
    BY <1>1, <1>2 DEF AuthInv

\* Somebody else changes the files.
LEMMA DisturbEffect ==
    ASSUME AuthInv, Disturb
    PROVE  /\ AuthInv' /\ gone' = TRUE
           /\ UNCHANGED <<legacy, lock, store, step, env, mem, job, live, minted, stored, refused>>
           /\ (dir' = None) = (dir = None)
           /\ Data(target') \in {Data(target), None, Garbage}
           /\ \/ asStored' = None
              \/ asStored' = asStored /\ target # None /\ target' = [target EXCEPT !.acl = LoosenedAcl]
           /\ target' = None \/ target # None
  <1>. USE DEF AuthInv
  <1>0. LocalType /\ GlobalType
    BY DEF Types
  <1>1. /\ UNCHANGED <<platform, legacy, lock, store, step>> /\ gone' = TRUE
        /\ UNCHANGED <<env, mem, job, pending, port, live, minted, stored, refused, commands>>
    BY DEF Disturb, Tamper, ReplaceDirectory
  <1>2. /\ sidecars' \subseteq sidecars
        /\ target' \in FileType \cup {None} /\ dir' \in DirectoryType \cup {None}
        /\ (dir' = None) = (dir = None)
        /\ Data(target') \in {Data(target), None, Garbage}
        /\ \/ asStored' = None
           \/ asStored' = asStored /\ target # None /\ target' = [target EXCEPT !.acl = LoosenedAcl]
        /\ target' = None \/ target # None
    <2>1. CASE Tamper
      <3>1. /\ target \in FileType /\ target # None /\ UNCHANGED <<dir, sidecars>>
            /\ asStored' = IF target' = [target EXCEPT !.acl = LoosenedAcl] THEN asStored ELSE None
            /\ target' \in {None, [target EXCEPT !.data = Garbage], [target EXCEPT !.links = 2],
                    [target EXCEPT !.owner = "other"], [target EXCEPT !.what = "link"],
                    [target EXCEPT !.acl = LoosenedAcl]}
        BY <1>0, <2>1 DEF Tamper, GlobalType
      <3>2. target' \in FileType \cup {None} /\ (target' # None => target'.data \in {target.data, Garbage})
        <4>1. CASE target' = None
          BY <4>1
        <4>2. CASE target' \in {[target EXCEPT !.data = Garbage], [target EXCEPT !.links = 2]}
          BY <3>1, <4>2 DEF FileType
        <4>3. CASE target' \in {[target EXCEPT !.owner = "other"], [target EXCEPT !.what = "link"]}
          BY <3>1, <4>3 DEF FileType
        <4>4. CASE target' = [target EXCEPT !.acl = LoosenedAcl]
          BY <3>1, <4>4 DEF FileType
        <4>. QED
          BY <3>1, <4>1, <4>2, <4>3, <4>4
      <3>. QED
        BY <1>0, <3>1, <3>2 DEF GlobalType, Data
    <2>2. CASE ReplaceDirectory
      <3>1. /\ dir \in DirectoryType /\ target' = None /\ sidecars' = {} /\ asStored' = None
            /\ dir' \in {[dir EXCEPT !.id = @ + 1, !.what = w] : w \in {"dir", "link"}}
        BY <1>0, <2>2 DEF ReplaceDirectory, GlobalType
      <3>2. dir' \in DirectoryType
        <4>1. dir.id \in Nat
          BY <3>1 DEF DirectoryType
        <4>. DEFINE n == dir.id + 1
        <4>2. n \in Nat
          BY <4>1
        <4>3. PICK w \in {"dir", "link"} : dir' = [dir EXCEPT !.id = n, !.what = w]
          BY <3>1
        <4>. HIDE DEF n
        <4>. QED
          BY <3>1, <4>2, <4>3 DEF DirectoryType
      <3>. QED
        BY <3>1, <3>2, NoneAssumption DEF Data
    <2>. QED
      BY <2>1, <2>2 DEF Disturb
  <1>3. Types'
    BY <1>0, <1>1, <1>2 DEF Types, GlobalType, LocalType
  <1>4. ASSUME NEW q \in Procs PROVE Local(q)'
    BY <1>1 DEF Local, LockInv, CallInv, OriginInv, Doing, Storing, HasCur, Login, Answer, At
  <1>. QED
    BY <1>1, <1>2, <1>3, <1>4

(***************************************************************************)
(* The first part of the invariant                                         *)
(***************************************************************************)

\* The steps of a process that move no token.
Quiets(p) == Start(p) \/ Request(p) \/ Send(p) \/ complete_pending_login(p) \/ AwaitCode(p)

\* The steps that look at no token and no file, together.
LEMMA QuietEffect ==
    ASSUME AuthInv, NEW p \in Procs, Quiets(p)
    PROVE  Quiet(p) /\ Sound(p)
  BY StartQuiet, RequestQuiet, SendQuiet, AwaitQuiet DEF Quiets

\* Every step of a process.
Acts(p) ==
    \/ Quiets(p)
    \/ begin_login(p) \/ Callback(p) \/ StrayCallback(p)
    \/ load_refresh_token_state(p)
    \/ access_token(p)
    \/ Exchange(p)
    \/ Reload(p)
    \/ ExchangeCode(p)
    \/ Refreshed(p)
    \/ Persisted(p)
    \/ complete_login(p)
    \/ Crash(p)
    \/ PrepareStore(p) /\ UNCHANGED authVars
    \/ PublishToken(p) /\ UNCHANGED authVars
    \/ (SettleStore(p) \/ ReadBack(p)) /\ UNCHANGED authVars
    \/ restore_previous_token_state(p) /\ UNCHANGED authVars

\* A step is one of a process, or a change by another program.
LEMMA NextActs == Next <=> (Disturb \/ \E p \in Procs : Acts(p))
  BY DEF Next, AuthStep, StoreStep, Acts, Quiets

\* The invariant holds at the start.
LEMMA AuthInit == ASSUME Init PROVE AuthInv
  <1>1. /\ store = [p \in Procs |-> "none"] /\ step = [p \in Procs |-> None]
        /\ mem = [p \in Procs |-> None] /\ lock = None /\ port = None
        /\ job = [p \in Procs |-> [NoJob EXCEPT !.pc = "down"]]
        /\ live = {1} /\ minted = 1 /\ sidecars = {} /\ refused = {} /\ gone = FALSE
        /\ stored = IF asStored = None THEN {} ELSE {asStored}
    BY DEF Init, StoreInit
  <1>2. asStored \in {None, 1}
    BY DEF Init, StoreInit
  <1>3. /\ target \in {None, PrivateFile(1)}
        /\ dir \in {None, [id |-> 1, what |-> "dir", owner |-> CurrentOwner, acl |-> private_sddl(TRUE)]}
    BY DEF Init, StoreInit
  <1>4. target \in FileType \cup {None} /\ dir \in DirectoryType \cup {None}
    <2>1. 1 \in Tokens \cup {Garbage}
      BY TokenBounds
    <2>2. PrivateFile(1) \in FileType
      BY <2>1, FileTypes
    <2>3. [id |-> 1, what |-> "dir", owner |-> CurrentOwner, acl |-> private_sddl(TRUE)] \in DirectoryType
      BY DEF DirectoryType, CurrentOwner
    <2>. QED
      BY <1>3, <2>2, <2>3
  <1>5. env \in [Procs -> {None, EnvToken}]
    <2>1. PICK e \in Procs \cup {None} : env = [p \in Procs |-> IF p = e THEN EnvToken ELSE None]
      BY DEF Init
    <2>. QED
      BY <2>1
  <1>6. stored \subseteq Tokens
    BY <1>1, <1>2, TokenBounds
  <1>7. GlobalType
    <2>1. /\ lock \in Procs \cup {None} /\ port \in Procs \cup {None} /\ gone \in BOOLEAN
          /\ refused \subseteq Tokens /\ sidecars \subseteq [mark : {"tmp", "bak"}, data : Tokens \cup {Garbage}]
      BY <1>1
    <2>2. live \subseteq Tokens /\ minted \in Tokens /\ minted >= 1 /\ asStored \in Tokens \cup {None}
      BY <1>1, <1>2, TokenBounds
    <2>. QED
      BY <1>4, <1>5, <1>6, <2>1, <2>2 DEF GlobalType
  <1>. DEFINE j == [NoJob EXCEPT !.pc = "down"]
  <1>8. j \in JobType /\ j.pc = "down" /\ j.origin = "Store"
    BY JobTypes DEF JobType
  <1>9. job = [p \in Procs |-> j]
    BY <1>1
  <1>. HIDE DEF j
  <1>10. LocalType
    BY <1>1, <1>8, <1>9 DEF LocalType
  <1>11. ASSUME NEW p \in Procs PROVE Local(p)
    <2>1. step[p] = None /\ mem[p] = None /\ job[p] = j /\ lock # p
      BY <1>1, <1>9, NoneAssumption
    <2>. QED
      BY <1>8, <2>1 DEF Local, LockInv, CallInv, OriginInv, Doing, Storing, HasCur, Login, Answer, At
  <1>. QED
    BY <1>7, <1>10, <1>11 DEF AuthInv, Types

\* Every step of a process leaves the others alone, and is sound.
LEMMA ActsSound ==
    ASSUME AuthInv, NEW p \in Procs, Acts(p)
    PROVE  AuthInv' /\ Frame(p) /\ env' = env
  <1>1. CASE begin_login(p) \/ Callback(p) \/ StrayCallback(p)
    BY <1>1, ListenerEffect DEF Frame, Idles
  <1>2. CASE ~(begin_login(p) \/ Callback(p) \/ StrayCallback(p))
    <2>1. Frame(p) /\ Sound(p) /\ env' = env /\ stored \subseteq stored'
      <3>1. CASE Quiets(p)
        BY <3>1, QuietEffect DEF Quiet
      <3>2. CASE load_refresh_token_state(p)
        BY <3>2, LoadEffect
      <3>3. CASE access_token(p)
        BY <3>3, AccessEffect
      <3>4. CASE Exchange(p)
        BY <3>4, ExchangeEffect
      <3>5. CASE Reload(p)
        BY <3>5, ReloadEffect
      <3>6. CASE ExchangeCode(p)
        BY <3>6, ExchangeCodeEffect
      <3>7. CASE Refreshed(p)
        BY <3>7, RefreshedEffect DEF AnswerTaken
      <3>8. CASE Persisted(p)
        BY <3>8, PersistedEffect DEF AnswerTaken
      <3>9. CASE complete_login(p)
        BY <3>9, LoginEffect DEF AnswerTaken
      <3>10. CASE Crash(p)
        BY <3>10, CrashEffect
      <3>11. CASE PrepareStore(p) /\ UNCHANGED authVars
        BY <3>11, PrepareEffect DEF Waits
      <3>12. CASE PublishToken(p) /\ UNCHANGED authVars
        BY <3>12, PublishEffect DEF Waits
      <3>13. CASE (SettleStore(p) \/ ReadBack(p)) /\ UNCHANGED authVars
        BY <3>13, SettleEffect DEF Waits
      <3>14. CASE restore_previous_token_state(p) /\ UNCHANGED authVars
        BY <3>14, RestoreEffect DEF Waits
      <3>. QED
        BY <1>2, <3>1, <3>2, <3>3, <3>4, <3>5, <3>6, <3>7, <3>8, <3>9, <3>10, <3>11, <3>12, <3>13, <3>14
           DEF Acts
    <2>2. Types' /\ Local(p)'
      BY <2>1 DEF Sound
    <2>3. \A q \in Procs : Local(q)'
      BY <2>1, <2>2, FrameKeeps
    <2>. QED
      BY <2>1, <2>2, <2>3 DEF AuthInv
  <1>. QED
    BY <1>1, <1>2

\* Nothing happens.
LEMMA AuthStutter == ASSUME AuthInv, UNCHANGED vars PROVE AuthInv' /\ Idles
  <1>1. Idles /\ UNCHANGED <<sidecars, port>>
    BY DEF vars, storeVars, authVars, Idles
  <1>. QED
    BY <1>1, IdleKeeps

\* The invariant is kept by every step.
LEMMA AuthNext == ASSUME AuthInv, [Next]_vars PROVE AuthInv'
  <1>1. CASE Disturb
    BY <1>1, DisturbEffect
  <1>2. ASSUME NEW p \in Procs, Acts(p) PROVE AuthInv'
    BY <1>2, ActsSound
  <1>3. CASE UNCHANGED vars
    BY <1>3, AuthStutter
  <1>. QED
    BY <1>1, <1>2, <1>3, NextActs

\* A request goes out only while the refresh token behind it has been in the
\* file, so that the end of a process never costs the account
\* (access_token, refresh_access_token).
THEOREM RequestsPersisted == Spec => []SentIsPersisted
  <1>1. AuthInv => SentIsPersisted
    <2>. SUFFICES ASSUME AuthInv, NEW p \in Procs, job[p].pc = "send"
                  PROVE  \/ mem[p].tok \in stored
                         \/ store[p] = "unavailable" /\ mem[p].origin = "Environment"
      BY DEF SentIsPersisted
    <2>1. OriginInv(p) /\ mem[p] # None /\ mem[p] \in {None} \cup TokenState
      BY DEF AuthInv, Types, LocalType, Local, OriginInv
    <2>2. mem[p].origin \in Origins /\ mem[p].origin # "Unpersisted" /\ mem[p].access
      BY <2>1 DEF OriginInv, TokenState
    <2>. QED
      BY <2>1, <2>2 DEF OriginInv, Origins
  <1>. QED
    BY <1>1, AuthInit, AuthNext, PTL DEF Spec

-----------------------------------------------------------------------------
(* What a step does to the file *)

\* As good as f: the same token, and as private and readable as f.
Kin(f, g) ==
    \/ g = f
    \/ f # None /\ Enforceable(f, FALSE) /\ g = Enforced(f, FALSE)
    \/ f # None /\ g = PrivateFile(f.data)

\* A file as good as another has its token and answers for it as well.
LEMMA KinHolds ==
    ASSUME NEW f \in FileType \cup {None}, NEW g, Kin(f, g)
    PROVE  /\ Data(g) = Data(f)
           /\ \A t : Holds(f, t) => Holds(g, t)
  <1>1. CASE g = f
    BY <1>1
  <1>2. CASE f # None /\ Enforceable(f, FALSE) /\ g = Enforced(f, FALSE)
    <2>1. f \in FileType /\ g \in FileType /\ g.data = f.data /\ g # None
      BY <1>2, EnforcedType, NoneAssumption
    <2>2. g.what = f.what /\ g.links = f.links /\ g.owner = f.owner /\ g.acl = private_sddl(FALSE)
      BY <1>2, <2>1 DEF Enforced, FileType
    <2>. QED
      BY <1>2, <2>1, <2>2 DEF Data, Holds, Enforceable, validate_single_link_count, validate_owner,
         file_owner_sid_string
  <1>3. CASE f # None /\ g = PrivateFile(f.data)
    <2>1. f.data \in Tokens \cup {Garbage}
      BY <1>3 DEF FileType
    <2>2. g \in FileType /\ g.data = f.data /\ g # None
      BY <1>3, <2>1, FileTypes, NoneAssumption
    <2>3. g.what = "file" /\ g.links = 1 /\ g.owner = "me" /\ g.acl = private_sddl(FALSE)
      BY <1>3 DEF PrivateFile, File, CurrentOwner
    <2>. QED
      BY <1>3, <2>2, <2>3 DEF Data, Holds, Enforceable, validate_single_link_count, validate_owner,
         file_owner_sid_string, CurrentOwner
  <1>. QED
    BY <1>1, <1>2, <1>3 DEF Kin

\* The cases of a step of p.
FileSame(p) ==
    /\ Kin(Held, Held') /\ Data(target)' = Data(target) /\ asStored' = asStored
    /\ Doing(p, Undone)' <=> Doing(p, Undone)
FilePublished(p) ==
    /\ Held' = Held /\ Data(target)' \in {job[p].cur, None} /\ asStored' = asStored
    /\ Storing(p) /\ ~Doing(p, Undone) /\ Doing(p, Undone)'
FileStored(p) ==
    /\ Doing(p, Undone) /\ ~Doing(p, Undone)' /\ Answer(p, {"ok"})'
    /\ Held' = target' /\ Data(target)' = job[p].cur /\ asStored' = job[p].cur
    /\ Holds(target', job[p].cur)
FileRestored(p) ==
    /\ Doing(p, Undone) /\ ~Doing(p, Undone)' /\ Answer(p, {"error"})'
    /\ Kin(Held, Held') /\ Held' = target' /\ asStored' = asStored
FileLost(p) ==
    /\ Doing(p, Undone) /\ ~Doing(p, Undone)' /\ asStored' = None
    /\ Held' = target' /\ Data(target)' \in {Data(target), Data(Held)}
    /\ Answer(p, {"stuck"})' \/ job'[p].pc = "down"

\* Seen from p, the file is its own while it changes it, and another's or the
\* target otherwise.
LEMMA HeldCases ==
    ASSUME AuthInv, NEW p \in Procs
    PROVE  /\ Doing(p, Undone) => lock = p /\ Held = step[p].prev
           /\ lock \in {p, None} /\ ~Doing(p, Undone) => Held = target
           /\ Held \in FileType \cup {None}
  <1>0. LocalType /\ GlobalType /\ \A q \in Procs : Local(q)
    BY DEF AuthInv, Types
  <1>1. Doing(p, Undone) => lock = p
    BY <1>0 DEF Local, LockInv, Doing, Busy
  <1>2. ASSUME lock # None, Doing(lock, Undone) PROVE step[lock].prev \in FileType \cup {None}
    <2>1. lock \in Procs
      BY <1>0, <1>2 DEF GlobalType
    <2>2. step[lock] \in CallType
      BY <1>0, <1>2, <2>1, StepType DEF Doing, Busy, Undone
    <2>. QED
      BY <2>2 DEF CallType
  <1>. QED
    BY <1>0, <1>1, <1>2, NoneAssumption DEF Held, GlobalType

\* A step that leaves the file and the lock leaves what the file will be.
LEMMA HeldSame ==
    ASSUME AuthInv, NEW p \in Procs, Frame(p), lock' = lock, target' = target,
           ~Doing(p, Undone), ~Doing(p, Undone)'
    PROVE  Held' = Held
  <1>1. CASE lock \in {p, None}
    BY <1>1 DEF Held, Doing
  <1>2. CASE lock \notin {p, None}
    <2>1. lock \in Procs \ {p} /\ step'[lock] = step[lock]
      BY <1>2 DEF AuthInv, Types, GlobalType, Frame
    <2>. QED
      BY <2>1 DEF Held, Doing
  <1>. QED
    BY <1>1, <1>2

\* A list that is put right changes no token.
LEMMA HeldRepaired ==
    ASSUME AuthInv, NEW p \in Procs, Frame(p), lock' = lock, Repaired,
           ~Doing(p, Undone), ~Doing(p, Undone)'
    PROVE  Kin(Held, Held') /\ Data(target)' = Data(target)
  <1>1. CASE target' = target
    BY <1>1, HeldSame DEF Kin
  <1>2. CASE lock = None /\ target # None /\ Enforceable(target, FALSE) /\ target' = Enforced(target, FALSE)
    <2>1. Held = target /\ Held' = target'
      BY <1>2 DEF Held
    <2>2. Kin(target, target')
      BY <1>2 DEF Kin
    <2>3. Data(target') = Data(target)
      BY <2>2, KinHolds DEF AuthInv, Types, GlobalType
    <2>. QED
      BY <2>1, <2>2, <2>3
  <1>. QED
    BY <1>1, <1>2 DEF Repaired

\* A step of a process leaves the file as it is, publishes a token, makes it
\* durable, goes back, or loses it.
LEMMA FileCases ==
    ASSUME AuthInv, NEW p \in Procs, Acts(p)
    PROVE  FileSame(p) \/ FilePublished(p) \/ FileStored(p) \/ FileRestored(p) \/ FileLost(p)
  <1>0. /\ LocalType /\ GlobalType /\ Local(p)
        /\ Frame(p) /\ AuthInv' /\ LockInv(p)'
    BY ActsSound DEF AuthInv, Types, Local
  <1>1. ASSUME ~Storing(p) PROVE ~Doing(p, Undone)
    BY <1>0, <1>1 DEF Local, LockInv, Doing, Undone
  <1>2. ASSUME job'[p].pc # "storing" PROVE ~Doing(p, Undone)'
    BY <1>0, <1>2 DEF LockInv, Doing, Undone, Storing
  <1>3. ASSUME step'[p] = step[p], job'[p].pc # "storing" \/ ~Storing(p), lock' = lock, Repaired,
               asStored' = asStored
        PROVE  FileSame(p)
    <2>1. ~Doing(p, Undone) /\ ~Doing(p, Undone)'
      BY <1>1, <1>2, <1>3 DEF Doing
    <2>2. Kin(Held, Held') /\ Data(target)' = Data(target)
      BY <1>0, <1>3, <2>1, HeldRepaired
    <2>. QED
      BY <1>3, <2>1, <2>2 DEF FileSame
  <1>4. ASSUME ~Storing(p) \/ At(p, "done"), job'[p].pc # "storing" \/ Started(p), lock' = lock,
               UNCHANGED <<target, asStored>>
        PROVE  FileSame(p)
    <2>1. ~Doing(p, Undone)
      BY <1>1, <1>4 DEF At, Doing, Undone
    <2>2. ~Doing(p, Undone)'
      BY <1>2, <1>4 DEF Started, Doing, Undone
    <2>3. Held' = Held
      BY <1>0, <1>4, <2>1, <2>2, HeldSame
    <2>. QED
      BY <1>4, <2>1, <2>2, <2>3 DEF FileSame, Kin
  <1>5. CASE Quiets(p)
    <2>1. Quiet(p)
      BY <1>5, QuietEffect
    <2>. QED
      BY <1>4, <2>1 DEF Quiet, HasCur, Storing
  <1>6. CASE begin_login(p) \/ Callback(p) \/ StrayCallback(p)
    <2>1. Idles
      BY <1>6, ListenerEffect
    <2>. QED
      BY <2>1 DEF Idles, FileSame, Kin, Held, Doing
  <1>7. CASE load_refresh_token_state(p)
    BY <1>3, <1>7, LoadEffect DEF HasCur, Storing
  <1>8. CASE access_token(p)
    BY <1>4, <1>8, AccessEffect DEF Storing, Started, AuthInv
  <1>9. CASE Exchange(p)
    BY <1>4, <1>9, ExchangeEffect DEF Storing, Started
  <1>10. CASE Reload(p)
    BY <1>3, <1>10, ReloadEffect
  <1>11. CASE ExchangeCode(p)
    BY <1>4, <1>11, ExchangeCodeEffect DEF Storing, Started
  <1>12. CASE Refreshed(p)
    BY <1>4, <1>12, RefreshedEffect DEF AnswerTaken
  <1>13. CASE Persisted(p)
    BY <1>4, <1>13, PersistedEffect DEF AnswerTaken
  <1>14. CASE complete_login(p)
    BY <1>4, <1>14, LoginEffect DEF AnswerTaken
  <1>15. CASE Crash(p)
    <2>1. /\ lock' = IF lock = p THEN None ELSE lock
          /\ asStored' = IF Doing(p, Undone) THEN None ELSE asStored
          /\ target' = target /\ job'[p].pc = "down"
      BY <1>15, CrashEffect
    <2>2. ~Doing(p, Undone)'
      BY <1>2, <2>1
    <2>3. CASE Doing(p, Undone)
      <3>1. lock = p
        BY <2>3, HeldCases
      <3>2. Held' = target'
        BY <2>1, <3>1 DEF Held
      <3>. QED
        BY <2>1, <2>2, <2>3, <3>2 DEF FileLost
    <2>4. CASE ~Doing(p, Undone)
      <3>1. CASE lock = p
        <4>1. Held = target /\ Held' = target'
          BY <2>1, <2>4, <3>1 DEF Held
        <4>. QED
          BY <2>1, <2>2, <2>4, <4>1 DEF FileSame, Kin
      <3>2. CASE lock # p
        <4>1. Held' = Held
          BY <1>0, <2>1, <2>2, <2>4, <3>2, HeldSame
        <4>. QED
          BY <2>1, <2>2, <2>4, <4>1 DEF FileSame, Kin
      <3>. QED
        BY <3>1, <3>2
    <2>. QED
      BY <2>3, <2>4
  <1>16. CASE PrepareStore(p) /\ UNCHANGED authVars
    <2>1. /\ Doing(p, {"lock"}) /\ lock # p /\ asStored' = asStored
          /\ \/ UNCHANGED <<target, lock>> /\ step'[p] = Answered("error")
             \/ /\ lock = None /\ lock' = p /\ TargetRepaired
                /\ target # None => Enforceable(target, FALSE)
                /\ step'[p] = [step[p] EXCEPT !.at = "publish", !.had = target # None]
      BY <1>16, PrepareEffect
    <2>2. ~Doing(p, Undone) /\ step[p] \in CallType
      BY <1>0, <2>1, StepType DEF Doing, Undone, Busy
    <2>3. CASE UNCHANGED <<target, lock>> /\ step'[p] = Answered("error")
      <3>1. ~Doing(p, Undone)'
        BY <2>3 DEF Doing, Undone, Answered
      <3>2. Held' = Held
        BY <1>0, <2>2, <2>3, <3>1, HeldSame
      <3>. QED
        BY <2>1, <2>2, <2>3, <3>1, <3>2 DEF FileSame, Kin
    <2>4. CASE /\ lock = None /\ lock' = p /\ TargetRepaired
               /\ target # None => Enforceable(target, FALSE)
               /\ step'[p] = [step[p] EXCEPT !.at = "publish", !.had = target # None]
      <3>1. step'[p].at = "publish"
        BY <2>2, <2>4 DEF CallType
      <3>2. ~Doing(p, Undone)'
        BY <3>1 DEF Doing, Undone
      <3>3. Held = target /\ Held' = target'
        BY <2>4, <3>2 DEF Held
      <3>4. Kin(target, target')
        BY <2>4 DEF Kin, TargetRepaired
      <3>5. Data(target') = Data(target)
        BY <1>0, <3>4, KinHolds DEF GlobalType
      <3>. QED
        BY <2>1, <2>2, <3>2, <3>3, <3>4, <3>5 DEF FileSame
    <2>. QED
      BY <2>1, <2>3, <2>4
  <1>17. CASE PublishToken(p) /\ UNCHANGED authVars
    <2>1. /\ Doing(p, {"publish"}) /\ lock = p /\ asStored' = asStored /\ job[p].cur \in Tokens
          /\ \/ UNCHANGED target /\ lock' = None /\ step'[p] = Answered("error")
             \/ /\ lock' = p /\ step'[p].at \in Undone /\ step'[p].prev = target
                /\ \/ target' = File(job[p].cur, InheritedAcl)
                   \/ target' = None
      BY <1>17, PublishEffect DEF Waits
    <2>2. ~Doing(p, Undone) /\ Held = target
      BY <2>1 DEF Doing, Undone, Held
    <2>3. CASE UNCHANGED target /\ lock' = None /\ step'[p] = Answered("error")
      <3>1. ~Doing(p, Undone)'
        BY <2>3 DEF Doing, Undone, Answered
      <3>2. Held' = target'
        BY <2>3 DEF Held
      <3>. QED
        BY <2>1, <2>2, <2>3, <3>1, <3>2 DEF FileSame, Kin
    <2>4. CASE /\ lock' = p /\ step'[p].at \in Undone /\ step'[p].prev = target
               /\ \/ target' = File(job[p].cur, InheritedAcl)
                  \/ target' = None
      <3>1. step'[p] # None
        <4>1. StepOnly(p) /\ (Storing(p) = (step[p] # None /\ step[p].at # "legacy"))'
          BY <1>0, <1>17, PublishEffect DEF Waits, LockInv
        <4>2. job' = job /\ Storing(p)
          BY <1>17, PublishEffect DEF Waits
        <4>. QED
          BY <4>1, <4>2 DEF Storing
      <3>2. Doing(p, Undone)'
        BY <2>4, <3>1 DEF Doing
      <3>3. Held' = target
        BY <2>4, <3>2, NoneAssumption DEF Held
      <3>4. Data(target)' \in {job[p].cur, None}
        BY <2>1, <2>4, FileTypes, NoneAssumption DEF Data
      <3>5. Storing(p)
        BY <1>17, PublishEffect DEF Waits
      <3>. QED
        BY <2>1, <2>2, <3>2, <3>3, <3>4, <3>5 DEF FilePublished
    <2>. QED
      BY <2>1, <2>3, <2>4
  <1>18. CASE (SettleStore(p) \/ ReadBack(p)) /\ UNCHANGED authVars
    <2>1. /\ Doing(p, Undone) /\ lock = p /\ job[p].cur \in Tokens
          /\ \/ /\ target # None /\ target.data = job[p].cur /\ Enforceable(target, FALSE)
                /\ target' = Enforced(target, FALSE) /\ lock' = None /\ asStored' = job[p].cur
                /\ validate_protected_payload_size(job[p].cur)
                /\ step'[p] = Answered("ok")
             \/ /\ UNCHANGED <<target, asStored>> /\ lock' = p
                /\ step'[p].at \in Undone /\ step'[p].prev = step[p].prev
      BY <1>18, SettleEffect DEF Waits
    <2>2. step'[p] # None
      <3>1. Storing(p) /\ job' = job
        BY <1>18, SettleEffect DEF Waits
      <3>. QED
        BY <1>0, <3>1 DEF LockInv, Storing
    <2>3. CASE /\ target # None /\ target.data = job[p].cur /\ Enforceable(target, FALSE)
               /\ target' = Enforced(target, FALSE) /\ lock' = None /\ asStored' = job[p].cur
               /\ validate_protected_payload_size(job[p].cur)
               /\ step'[p] = Answered("ok")
      <3>1. target \in FileType
        BY <1>0, <2>3 DEF GlobalType
      <3>2. target' \in FileType /\ target'.data = job[p].cur
        BY <2>3, <3>1, EnforcedType
      <3>3. Holds(target', job[p].cur)
        BY <2>3, <3>1, <3>2, NoneAssumption
           DEF Holds, Enforced, Enforceable, validate_single_link_count, validate_owner,
               file_owner_sid_string, FileType
      <3>4. Held' = target' /\ Answer(p, {"ok"})' /\ ~Doing(p, Undone)'
        BY <2>2, <2>3 DEF Held, Answer, At, Doing, Undone, Answered
      <3>. QED
        BY <2>1, <2>3, <3>2, <3>3, <3>4, NoneAssumption DEF FileStored, Data
    <2>4. CASE /\ UNCHANGED <<target, asStored>> /\ lock' = p
               /\ step'[p].at \in Undone /\ step'[p].prev = step[p].prev
      <3>1. Doing(p, Undone)'
        BY <2>2, <2>4 DEF Doing
      <3>2. Held' = Held
        BY <2>1, <2>4, <3>1 DEF Held
      <3>. QED
        BY <2>1, <2>4, <3>1, <3>2 DEF FileSame, Kin
    <2>. QED
      BY <2>1, <2>3, <2>4
  <1>19. CASE restore_previous_token_state(p) /\ UNCHANGED authVars
    <2>1. /\ Doing(p, Undone) /\ lock = p /\ lock' = None
          /\ \/ /\ target' = Previous(p) /\ UNCHANGED asStored /\ step'[p] = Answered("error")
             \/ /\ target' \in {target, Previous(p)} /\ asStored' = None /\ step'[p] = Answered("stuck")
          /\ Previous(p) = IF step[p].prev = None THEN None ELSE PrivateFile(step[p].prev.data)
      BY <1>19, RestoreEffect
    <2>2. step'[p] # None
      <3>1. Storing(p) /\ job' = job
        BY <1>19, RestoreEffect DEF Waits
      <3>. QED
        BY <1>0, <3>1 DEF LockInv, Storing
    <2>3. Held = step[p].prev /\ Held' = target' /\ ~Doing(p, Undone)'
      BY <2>1, HeldCases DEF Held, Doing, Undone, Answered
    <2>4. Kin(Held, Previous(p))
      BY <2>1, <2>3 DEF Kin
    <2>5. Data(Previous(p)) = Data(Held)
      BY <2>4, HeldCases, KinHolds
    <2>6. CASE target' = Previous(p) /\ UNCHANGED asStored /\ step'[p] = Answered("error")
      BY <2>1, <2>2, <2>3, <2>4, <2>6 DEF FileRestored, Answer, At, Answered
    <2>7. CASE target' \in {target, Previous(p)} /\ asStored' = None /\ step'[p] = Answered("stuck")
      BY <2>1, <2>2, <2>3, <2>5, <2>7 DEF FileLost, Answer, At, Answered, Data
    <2>. QED
      BY <2>1, <2>6, <2>7
  <1>. QED
    BY <1>5, <1>6, <1>7, <1>8, <1>9, <1>10, <1>11, <1>12, <1>13, <1>14, <1>15, <1>16, <1>17, <1>18, <1>19
       DEF Acts

-----------------------------------------------------------------------------
(* The file is what the last answer said. *)

\* At the start, the file holds the token that was stored, or none is promised.
LEMMA FileInit == ASSUME Init PROVE AnsweredInv /\ LegacyInv
  <1>1. lock = None /\ (asStored # None => target = PrivateFile(1) /\ asStored = 1)
    BY DEF Init, StoreInit
  <1>2. Held = target
    BY <1>1 DEF Held
  <1>3. validate_protected_payload_size(1) /\ 1 \in Tokens
    BY TokenBounds DEF validate_protected_payload_size
  <1>4. PrivateFile(1) \in FileType /\ PrivateFile(1).data = 1
    BY <1>3, FileTypes
  <1>5. PrivateFile(1) # None
    BY <1>4, NoneAssumption
  <1>6. Holds(PrivateFile(1), 1)
    BY <1>3, <1>5 DEF Holds, Enforceable, validate_single_link_count, validate_owner,
       file_owner_sid_string, PrivateFile, File, CurrentOwner
  <1>7. AnsweredInv
    BY <1>1, <1>2, <1>6 DEF AnsweredInv
  <1>8. PlaintextGone
    BY DEF PlaintextGone, Init, StoreInit
  <1>9. dir = None => legacy = None
    <2>1. CASE legacy = None
      BY <2>1
    <2>2. CASE dir = [id |-> 1, what |-> "dir", owner |-> CurrentOwner, acl |-> private_sddl(TRUE)]
      <3>1. dir \in DirectoryType
        BY <2>2 DEF DirectoryType, CurrentOwner
      <3>. QED
        BY <3>1, NoneAssumption
    <2>. QED
      BY <2>1, <2>2 DEF Init, StoreInit
  <1>. QED
    BY <1>7, <1>8, <1>9 DEF LegacyInv

\* A step of a process keeps the file as answered: what it publishes it answers
\* for, and what it could not make durable it puts back.
LEMMA AnsweredActs ==
    ASSUME AuthInv, AnsweredInv, NEW p \in Procs, Acts(p)
    PROVE  AnsweredInv'
  <1>0. Held \in FileType \cup {None}
    BY HeldCases
  <1>1. ASSUME Kin(Held, Held'), asStored' = asStored PROVE AnsweredInv'
    BY <1>0, <1>1, KinHolds DEF AnsweredInv
  <1>2. CASE FileSame(p) \/ FileRestored(p)
    BY <1>1, <1>2 DEF FileSame, FileRestored
  <1>3. CASE FilePublished(p)
    BY <1>1, <1>3 DEF FilePublished, Kin
  <1>4. CASE FileStored(p)
    BY <1>4 DEF FileStored, AnsweredInv
  <1>5. CASE FileLost(p)
    BY <1>5 DEF FileLost, AnsweredInv
  <1>. QED
    BY <1>2, <1>3, <1>4, <1>5, FileCases

\* Who else changes the file is not answered for, but for an opened list.
LEMMA AnsweredDisturb ==
    ASSUME AuthInv, AnsweredInv, Disturb
    PROVE  AnsweredInv'
  <1>1. UNCHANGED <<lock, step>>
    BY DisturbEffect
  <1>2. CASE asStored' = None
    BY <1>2 DEF AnsweredInv
  <1>3. CASE asStored' = asStored /\ target # None /\ target' = [target EXCEPT !.acl = LoosenedAcl]
    <2>1. CASE lock # None /\ Doing(lock, Undone)
      <3>1. Held' = Held
        BY <1>1, <2>1 DEF Held, Doing
      <3>. QED
        BY <1>3, <3>1 DEF AnsweredInv
    <2>2. CASE ~(lock # None /\ Doing(lock, Undone))
      <3>1. Held = target /\ Held' = target'
        BY <1>1, <2>2 DEF Held, Doing
      <3>2. target \in FileType
        BY <1>3 DEF AuthInv, Types, GlobalType
      <3>3. target' \in FileType
        <4>1. LoosenedAcl \in {private_sddl(FALSE), InheritedAcl, LoosenedAcl}
          OBVIOUS
        <4>. QED
          BY <1>3, <3>2, <4>1 DEF FileType
      <3>4. /\ target'.what = target.what /\ target'.links = target.links /\ target'.owner = target.owner
            /\ target'.data = target.data /\ target'.acl = LoosenedAcl
        BY <1>3, <3>2 DEF FileType
      <3>5. \A t : Holds(target, t) => Holds(target', t)
        BY <3>3, <3>4, NoneAssumption DEF Holds, Enforceable, validate_single_link_count, validate_owner,
           file_owner_sid_string
      <3>. QED
        BY <1>3, <3>1, <3>5 DEF AnsweredInv
    <2>. QED
      BY <2>1, <2>2
  <1>. QED
    BY <1>2, <1>3, DisturbEffect

\* The plaintext file is gone before a store is chosen, and does not come back.
LEMMA LegacyActs ==
    ASSUME AuthInv, LegacyInv, NEW p \in Procs, Acts(p)
    PROVE  LegacyInv'
  <1>1. ASSUME UNCHANGED <<legacy, store>>, dir' = None => dir = None PROVE LegacyInv'
    BY <1>1 DEF LegacyInv, PlaintextGone
  <1>2. CASE Start(p)
    <2>0. store \in [Procs -> {"none", "windows", "unavailable", "failed"}]
      BY DEF AuthInv, Types, LocalType
    <2>1. dir' = dir
      BY <1>2 DEF Start, remove_legacy_plaintext_token, DeleteLegacy, KeepLegacy, DeletesLegacy
    <2>2. CASE legacy' = legacy /\ store' = store
      BY <1>1, <2>1, <2>2
    <2>3. CASE legacy' = legacy /\ store' = [store EXCEPT ![p] = "failed"]
      BY <2>0, <2>1, <2>3 DEF LegacyInv, PlaintextGone
    <2>4. CASE legacy' = None
      BY <2>4 DEF LegacyInv, PlaintextGone
    <2>. QED
      BY <1>2, <2>2, <2>3, <2>4
         DEF Start, remove_legacy_plaintext_token, DeleteLegacy, KeepLegacy, DeletesLegacy, Chosen, LegacyInv
  <1>3. CASE Crash(p)
    <2>1. store' = [store EXCEPT ![p] = "none"] /\ UNCHANGED <<dir, legacy>>
      BY <1>3 DEF Crash, StoreCrash
    <2>. QED
      BY <2>1 DEF LegacyInv, PlaintextGone, AuthInv, Types, LocalType
  <1>4. CASE Request(p) \/ Send(p) \/ complete_pending_login(p) \/ AwaitCode(p)
    BY <1>1, <1>4 DEF Request, Send, complete_pending_login, AwaitCode, storeVars
  <1>5. CASE begin_login(p) \/ Callback(p) \/ StrayCallback(p)
    BY <1>1, <1>5, ListenerEffect DEF Idles
  <1>6. CASE load_refresh_token_state(p) \/ Reload(p)
    BY <1>1, <1>6, LoadEffect, ReloadEffect DEF Repaired
  <1>7. CASE access_token(p) \/ Exchange(p) \/ ExchangeCode(p)
    BY <1>1, <1>7, AccessEffect, ExchangeEffect, ExchangeCodeEffect
  <1>8. CASE Refreshed(p) \/ Persisted(p) \/ complete_login(p)
    BY <1>1, <1>8, RefreshedEffect, PersistedEffect, LoginEffect DEF AnswerTaken
  <1>9. CASE PrepareStore(p) /\ UNCHANGED authVars
    BY <1>1, <1>9, PrepareEffect DEF Waits
  <1>10. CASE \/ PublishToken(p) /\ UNCHANGED authVars
              \/ (SettleStore(p) \/ ReadBack(p)) /\ UNCHANGED authVars
              \/ restore_previous_token_state(p) /\ UNCHANGED authVars
    BY <1>1, <1>10, PublishEffect, SettleEffect, RestoreEffect DEF Waits
  <1>. QED
    BY <1>2, <1>3, <1>4, <1>5, <1>6, <1>7, <1>8, <1>9, <1>10 DEF Acts, Quiets

\* What was said of the file follows when nobody is at work on it.
LEMMA AnswersKept == ASSUME AnsweredInv PROVE FileAsAnswered
  <1>1. ASSUME lock = None PROVE Held = target
    BY <1>1 DEF Held
  <1>. QED
    BY <1>1 DEF AnsweredInv, FileAsAnswered, Holds

-----------------------------------------------------------------------------
(* Where a token can come from *)

\* The service issues at most one token, the next one, and may revoke one that
\* the process has.
Served(p) ==
    \/ minted' = minted /\ live' = live
    \/ /\ minted' = minted + 1
       /\ live' \subseteq live \cup {minted + 1}
       /\ live \subseteq live' \cup Has(p)

\* A process has a token from itself, from the file, from the service or from
\* its environment.
Learnt(p) ==
    \A t \in Has(p)' :
        \/ t \in Has(p)
        \/ Found /\ t = target.data
        \/ minted' = minted + 1 /\ t = minted + 1
        \/ env[p] # None /\ t = env[p]

Flow(p) ==
    /\ Served(p) /\ Learnt(p)
    /\ gone => gone'
    /\ stored' \subseteq stored \cup Has(p) \cup Has(p)'
    /\ \/ refused' = refused
       \/ /\ refused' = refused \cup {job[p].cur} /\ Open(p) /\ At(p, "done")
          /\ UNCHANGED <<target, lock, mem>> /\ ~HasCur(p)'

\* No step of a process takes a token from anywhere else.
LEMMA FlowActs ==
    ASSUME AuthInv, NEW p \in Procs, Acts(p)
    PROVE  Flow(p)
  <1>0. LocalType /\ GlobalType /\ Local(p)
    BY DEF AuthInv, Types
  <1>1. CASE Quiets(p)
    <2>1. Quiet(p)
      BY <1>1, QuietEffect
    <2>2. Has(p)' \subseteq Has(p)
      BY <2>1 DEF Quiet, Has, HasCur
    <2>. QED
      BY <2>1, <2>2 DEF Quiet, Flow, Served, Learnt
  <1>2. CASE begin_login(p) \/ Callback(p) \/ StrayCallback(p)
    <2>1. Idles
      BY <1>2, ListenerEffect
    <2>2. Has(p)' = Has(p)
      BY <2>1 DEF Idles, Has, HasCur
    <2>. QED
      BY <2>1, <2>2 DEF Idles, Flow, Served, Learnt
  <1>3. CASE load_refresh_token_state(p)
    <2>1. /\ UNCHANGED <<live, minted, refused, gone>> /\ job'[p].pc = "idle"
          /\ \/ mem'[p] = mem[p] /\ stored' = stored
             \/ /\ env[p] # None /\ mem'[p] = State(env[p], "Environment", FALSE)
                /\ stored' = stored
             \/ /\ Found /\ mem'[p] = State(target.data, "Store", FALSE)
                /\ stored' = stored \cup {target.data}
      BY <1>3, LoadEffect
    <2>2. Has(p)' = IF mem'[p] = None THEN {} ELSE {mem'[p].tok}
      BY <2>1 DEF Has, HasCur
    <2>3. CASE mem'[p] = mem[p] /\ stored' = stored
      BY <2>1, <2>2, <2>3 DEF Flow, Served, Learnt, Has
    <2>4. CASE env[p] # None /\ mem'[p] = State(env[p], "Environment", FALSE) /\ stored' = stored
      <3>1. Has(p)' \subseteq {env[p]}
        BY <2>2, <2>4 DEF State
      <3>2. Learnt(p)
        BY <2>4, <3>1 DEF Learnt
      <3>. QED
        BY <2>1, <2>4, <3>2 DEF Flow, Served
    <2>5. CASE Found /\ mem'[p] = State(target.data, "Store", FALSE) /\ stored' = stored \cup {target.data}
      <3>1. mem'[p] # None
        <4>1. target.data \in Tokens /\ "Store" \in Origins
          BY <2>5 DEF Found, Origins
        <4>2. State(target.data, "Store", FALSE) # None
          BY <4>1, StateType
        <4>. QED
          BY <2>5, <4>2
      <3>2. Has(p)' = {target.data}
        BY <2>2, <2>5, <3>1 DEF State
      <3>. QED
        BY <2>1, <2>5, <3>2 DEF Flow, Served, Learnt
    <2>. QED
      BY <2>1, <2>3, <2>4, <2>5
  <1>4. CASE access_token(p)
    <2>1. /\ UNCHANGED <<live, minted, refused, stored, gone, mem>>
          /\ \/ job'[p].pc \in {"idle", "send"}
             \/ /\ job'[p].pc = "exchange"
                /\ \/ mem[p] # None /\ job'[p].cur = mem[p].tok
                   \/ env[p] # None /\ job'[p].cur = env[p]
             \/ mem[p] # None /\ job'[p].cur = mem[p].tok
      BY <1>4, AccessEffect
    <2>2. \A t \in Has(p)' : t \in Has(p) \/ (env[p] # None /\ t = env[p])
      BY <2>1 DEF Has, HasCur
    <2>3. Learnt(p)
      BY <2>2 DEF Learnt
    <2>. QED
      BY <2>1, <2>3 DEF Flow, Served
  <1>5. CASE Exchange(p)
    <2>1. /\ UNCHANGED <<stored, refused>> /\ job[p].pc = "exchange"
          /\ job[p].cur \in Tokens
      BY <1>5, ExchangeEffect
    <2>2. job[p].cur \in Has(p)
      BY <2>1 DEF Has, HasCur
    <2>3. ASSUME Turns(job[p].cur) PROVE Served(p) /\ minted' = minted + 1
      BY <2>2, <2>3 DEF Turns, Served
    <2>4. CASE /\ Turns(job[p].cur) /\ UNCHANGED gone
               /\ Started(p) /\ job'[p].cur = minted + 1 /\ mem'[p] = mem[p]
      <3>1. \A t \in Has(p)' : t \in Has(p) \/ t = minted + 1
        BY <2>4 DEF Has
      <3>. QED
        BY <2>1, <2>3, <2>4, <3>1 DEF Flow, Learnt
    <2>5. CASE UNCHANGED <<live, minted, gone>> /\ job'[p].pc = "send" /\ mem'[p] = State(job[p].cur, "Store", TRUE)
      <3>1. Has(p)' \subseteq {job[p].cur}
        BY <2>5 DEF Has, HasCur, State
      <3>. QED
        BY <2>1, <2>2, <2>5, <3>1 DEF Flow, Learnt, Served
    <2>6. CASE UNCHANGED <<live, minted, gone>> /\ mem'[p] = mem[p] /\ job'[p].cur = job[p].cur
      <3>1. Has(p)' \subseteq Has(p)
        BY <2>2, <2>6 DEF Has
      <3>. QED
        BY <2>1, <2>6, <3>1 DEF Flow, Learnt, Served
    <2>7. CASE /\ \/ UNCHANGED <<live, minted, gone>>
                  \/ Turns(job[p].cur) /\ gone' = (gone \/ job[p].cur \notin live')
               /\ mem'[p] = mem[p]
               /\ \/ job'[p].pc = "idle"
                  \/ job'[p].pc = "reload" /\ job'[p].cur = job[p].cur
      <3>1. Has(p)' \subseteq Has(p)
        BY <2>2, <2>7 DEF Has, HasCur
      <3>2. Served(p) /\ Learnt(p)
        BY <2>3, <2>7, <3>1 DEF Served, Learnt
      <3>3. gone => gone'
        BY <2>7
      <3>. QED
        BY <2>1, <3>2, <3>3 DEF Flow
    <2>. QED
      BY <1>5, <2>4, <2>5, <2>6, <2>7, ExchangeEffect
  <1>6. CASE Reload(p)
    <2>1. /\ UNCHANGED <<live, minted, refused, gone, mem>>
          /\ \/ job'[p].pc = "idle" /\ stored' = stored
             \/ /\ Found /\ job'[p].pc = "exchange" /\ job'[p].cur = target.data
                /\ stored' = stored \cup {target.data}
      BY <1>6, ReloadEffect
    <2>2. CASE job'[p].pc = "idle" /\ stored' = stored
      <3>1. Has(p)' \subseteq Has(p)
        BY <2>1, <2>2 DEF Has, HasCur
      <3>. QED
        BY <2>1, <2>2, <3>1 DEF Flow, Learnt, Served
    <2>3. CASE /\ Found /\ job'[p].pc = "exchange" /\ job'[p].cur = target.data
               /\ stored' = stored \cup {target.data}
      <3>1. target.data \in Has(p)' /\ \A t \in Has(p)' : t \in Has(p) \/ t = target.data
        BY <2>1, <2>3 DEF Has, HasCur
      <3>. QED
        BY <2>1, <2>3, <3>1 DEF Flow, Learnt, Served
    <2>. QED
      BY <2>1, <2>2, <2>3
  <1>7. CASE ExchangeCode(p)
    <2>1. /\ UNCHANGED <<stored, refused, gone, mem>>
          /\ \/ /\ minted' = minted + 1 /\ live' = live \cup {minted + 1}
                /\ job'[p].cur = minted + 1
             \/ UNCHANGED <<live, minted>> /\ job'[p].pc = "idle"
      BY <1>7, ExchangeCodeEffect
    <2>2. \A t \in Has(p)' : t \in Has(p) \/ (minted' = minted + 1 /\ t = minted + 1)
      BY <2>1 DEF Has, HasCur
    <2>3. Learnt(p)
      BY <2>2 DEF Learnt
    <2>4. Served(p)
      BY <2>1 DEF Served
    <2>. QED
      BY <2>1, <2>3, <2>4 DEF Flow
  <1>8. ASSUME AnswerTaken(p)
        PROVE  /\ UNCHANGED <<live, minted>> /\ (gone => gone') /\ job[p].cur \in Has(p)
               /\ stored' \subseteq stored \cup Has(p)
    BY <1>8 DEF AnswerTaken, Storing, Has, HasCur
  <1>9. CASE Refreshed(p)
    <2>1. /\ AnswerTaken(p) /\ UNCHANGED refused /\ job'[p].pc \in {"idle", "send"}
          /\ mem'[p] = State(job[p].cur, NextOrigin(p), TRUE)
      BY <1>9, RefreshedEffect
    <2>2. Has(p)' \subseteq {job[p].cur}
      BY <2>1 DEF Has, HasCur, State
    <2>. QED
      BY <1>8, <2>1, <2>2 DEF Flow, Learnt, Served
  <1>10. CASE Persisted(p)
    <2>1. /\ AnswerTaken(p) /\ UNCHANGED refused /\ job'[p].pc \in {"idle", "send"}
          /\ mem[p] # None /\ mem'[p] # None /\ mem'[p].tok = mem[p].tok
      BY <1>10, PersistedEffect
    <2>2. Has(p)' \subseteq Has(p)
      BY <2>1 DEF Has, HasCur
    <2>. QED
      BY <1>8, <2>1, <2>2 DEF Flow, Learnt, Served
  <1>11. CASE complete_login(p)
    <2>1. /\ AnswerTaken(p) /\ job'[p].pc \in {"idle", "access"} /\ job[p].then = "login"
          /\ \/ Result(p) = "ok" /\ mem'[p] = State(job[p].cur, "Store", TRUE) /\ UNCHANGED refused
             \/ /\ Result(p) # "ok" /\ mem'[p] = mem[p]
                /\ refused' = IF Result(p) = "stuck" THEN refused ELSE refused \cup {job[p].cur}
      BY <1>11, LoginEffect
    <2>2. Has(p)' \subseteq Has(p) /\ ~HasCur(p)'
      BY <2>1, <1>8 DEF Has, HasCur, State
    <2>3. Result(p) \notin {"ok", "stuck"} => Open(p)
      BY <2>1 DEF AnswerTaken, Open, Login, Answer, Result
    <2>4. Result(p) # "ok" => mem' = mem
      BY <1>11 DEF complete_login
    <2>. QED
      BY <1>8, <2>1, <2>2, <2>3, <2>4 DEF Flow, Learnt, Served, AnswerTaken
  <1>12. CASE Crash(p)
    <2>1. /\ UNCHANGED <<live, minted, stored, refused>> /\ mem'[p] = None /\ job'[p].pc = "down"
          /\ gone => gone'
      BY <1>12, CrashEffect
    <2>2. Has(p)' = {}
      BY <2>1 DEF Has, HasCur
    <2>. QED
      BY <2>1, <2>2 DEF Flow, Learnt, Served
  <1>13. CASE StoreStep(p) /\ UNCHANGED authVars
    <2>1. UNCHANGED <<mem, job, live, minted, stored, refused, gone>>
      BY <1>13 DEF authVars
    <2>2. Has(p)' = Has(p)
      BY <2>1 DEF Has, HasCur
    <2>. QED
      BY <2>1, <2>2 DEF Flow, Learnt, Served
  <1>. QED
    BY <1>1, <1>2, <1>3, <1>4, <1>5, <1>6, <1>7, <1>9, <1>10, <1>11, <1>12, <1>13 DEF Acts, StoreStep

\* What a step of p leaves in the file, or will leave, was there or is p's.
LEMMA DataFlow ==
    ASSUME AuthInv, NEW p \in Procs, Acts(p)
    PROVE  /\ \/ Data(Held)' \in {Data(Held), Data(target), None}
              \/ Storing(p) /\ Data(Held)' = job[p].cur
           /\ \/ Data(target)' \in {Data(Held), Data(target), None}
              \/ Storing(p) /\ Data(target)' = job[p].cur
  <1>0. Held \in FileType \cup {None}
    BY HeldCases
  <1>1. ASSUME Kin(Held, Held') PROVE Data(Held)' = Data(Held)
    <2>1. Data(Held') = Data(Held)
      BY <1>0, <1>1, KinHolds
    <2>. QED
      BY <2>1 DEF Data
  <1>2. ASSUME Held' = target' PROVE Data(Held)' = Data(target)'
    BY <1>2 DEF Data
  <1>3. Doing(p, Undone) \/ Doing(p, Undone)' => Storing(p) \/ Storing(p)'
    <2>1. LockInv(p) /\ LockInv(p)'
      BY ActsSound DEF AuthInv, Local
    <2>. QED
      BY <2>1 DEF LockInv, Doing, Undone
  <1>4. CASE FileSame(p)
    BY <1>1, <1>4 DEF FileSame
  <1>5. CASE FilePublished(p)
    <2>1. Data(Held)' = Data(Held)
      BY <1>5 DEF FilePublished, Data
    <2>2. Storing(p)
      BY <1>5 DEF FilePublished
    <2>. QED
      BY <1>5, <2>1, <2>2 DEF FilePublished
  <1>6. CASE FileStored(p)
    <2>1. Storing(p)
      <3>1. LockInv(p)
        BY DEF AuthInv, Local
      <3>. QED
        BY <1>6, <3>1 DEF FileStored, LockInv, Doing, Undone
    <2>. QED
      BY <1>2, <1>6, <2>1 DEF FileStored
  <1>7. CASE FileRestored(p)
    BY <1>1, <1>2, <1>7 DEF FileRestored
  <1>8. CASE FileLost(p)
    BY <1>2, <1>8 DEF FileLost
  <1>. QED
    BY <1>4, <1>5, <1>6, <1>7, <1>8, FileCases

\* At the start, one token is issued.
LEMMA IssuedInit == ASSUME Init PROVE IssuedInv
  <1>1. live = {1} /\ minted = 1 /\ refused = {} /\ stored \subseteq {1}
    BY DEF Init, StoreInit
  <1>2. \A p \in Procs : mem[p] = None /\ job[p].pc = "down"
    BY DEF Init, NoJob
  <1>3. \A p \in Procs : Has(p) = {}
    BY <1>2 DEF Has, HasCur
  <1>4. lock = None /\ (target = None \/ target = PrivateFile(1))
    BY DEF Init, StoreInit
  <1>5. Held = target
    BY <1>4 DEF Held
  <1>6. Data(target) \in {1, None}
    <2>1. PrivateFile(1).data = 1
      BY DEF PrivateFile, File
    <2>. QED
      BY <1>4, <2>1 DEF Data
  <1>7. UpTo(minted, 1) /\ UpTo(minted, None)
    BY <1>1, NoneAssumption DEF UpTo
  <1>. QED
    BY <1>1, <1>3, <1>5, <1>6, <1>7 DEF IssuedInv

\* What p did not have before its step, and is not the environment's, is new.
LEMMA IssuedActs ==
    ASSUME AuthInv, IssuedInv, NEW p \in Procs, Acts(p)
    PROVE  IssuedInv'
  <1>0. LocalType /\ GlobalType
    BY DEF AuthInv, Types
  <1>1. minted \in Nat /\ minted >= 1 /\ minted' \in {minted, minted + 1}
    BY <1>0, FlowActs, TokenBounds DEF Flow, Served, GlobalType
  <1>2. \A t : UpTo(minted, t) => UpTo(minted', t)
    BY <1>1, TokenBounds DEF UpTo
  <1>3. UpTo(minted', minted') /\ UpTo(minted', EnvToken) /\ UpTo(minted', None)
    BY <1>1, AuthBounds, TokenBounds, NoneAssumption DEF UpTo
  <1>4. env[p] # None => env[p] = EnvToken
    BY <1>0 DEF GlobalType
  <1>5. \A t \in Has(p) : UpTo(minted', t)
    BY <1>2 DEF IssuedInv
  <1>6. \A t \in Has(p)' : UpTo(minted', t)
    <2>. SUFFICES ASSUME NEW t \in Has(p)' PROVE UpTo(minted', t)
      OBVIOUS
    <2>1. CASE t \in Has(p)
      BY <1>5, <2>1
    <2>2. CASE Found /\ t = target.data
      BY <1>2, <2>2 DEF Found, Data, IssuedInv
    <2>3. CASE minted' = minted + 1 /\ t = minted + 1
      BY <1>3, <2>3
    <2>4. CASE env[p] # None /\ t = env[p]
      BY <1>3, <1>4, <2>4
    <2>. QED
      BY <2>1, <2>2, <2>3, <2>4, FlowActs DEF Flow, Learnt
  <1>7. \A q \in Procs : \A t \in Has(q)' : UpTo(minted', t)
    <2>. SUFFICES ASSUME NEW q \in Procs, q # p PROVE \A t \in Has(q)' : UpTo(minted', t)
      BY <1>6
    <2>1. Has(q)' = Has(q)
      BY ActsSound DEF Frame, Has, HasCur
    <2>. QED
      BY <1>2, <2>1 DEF IssuedInv
  <1>8. UpTo(minted', Data(Held)') /\ UpTo(minted', Data(target)')
    <2>1. Storing(p) => job[p].cur \in Has(p)
      BY DEF Storing, Has, HasCur
    <2>2. \A t \in {Data(Held), Data(target), None} : UpTo(minted', t)
      BY <1>2, <1>3 DEF IssuedInv
    <2>3. Storing(p) => UpTo(minted', job[p].cur)
      BY <1>5, <2>1
    <2>4. /\ \A t : t = Data(Held)' => UpTo(minted', t)
          /\ \A t : t = Data(target)' => UpTo(minted', t)
      BY <2>2, <2>3, DataFlow DEF UpTo
    <2>. QED
      BY <2>4 DEF UpTo
  <1>9. \A t \in live' \cup stored' \cup refused' : UpTo(minted', t)
    <2>1. \A t \in live \cup stored \cup refused \cup Has(p) \cup Has(p)' \cup {minted'} : UpTo(minted', t)
      BY <1>2, <1>3, <1>5, <1>6 DEF IssuedInv
    <2>2. live' \subseteq live \cup {minted'} /\ stored' \subseteq stored \cup Has(p) \cup Has(p)'
      BY FlowActs DEF Flow, Served
    <2>3. refused' \subseteq refused \cup Has(p)
      BY FlowActs DEF Flow, Open, Login, Has, HasCur, Storing
    <2>. QED
      BY <2>1, <2>2, <2>3
  <1>. QED
    BY <1>7, <1>8, <1>9 DEF IssuedInv

\* Nobody has a token that is not issued, and neither does the file.
LEMMA NextIsNew ==
    ASSUME AuthInv, IssuedInv, minted + 1 \in Tokens
    PROVE  /\ minted + 1 \notin live \cup stored \cup refused
           /\ \A p \in Procs : minted + 1 \notin Has(p)
           /\ Data(Held) # minted + 1 /\ Data(target) # minted + 1
           /\ minted + 1 > 1 /\ minted + 1 # EnvToken
  <1>1. minted \in Nat /\ minted >= 1 /\ EnvToken \in Nat
    BY TokenBounds, AuthBounds DEF AuthInv, Types, GlobalType
  <1>. DEFINE n == minted + 1
  <1>2. n \in Tokens /\ ~UpTo(minted, n) /\ n > 1 /\ n # EnvToken
    BY <1>1, AuthBounds DEF UpTo
  <1>. HIDE DEF n
  <1>3. /\ n \notin live \cup stored \cup refused
        /\ \A p \in Procs : n \notin Has(p)
        /\ Data(Held) # n /\ Data(target) # n
    BY <1>2 DEF IssuedInv
  <1>. QED
    BY <1>2, <1>3 DEF n

-----------------------------------------------------------------------------
(* A token that one process alone has *)

\* The data of what is held after a step that only puts things back.
LEMMA HeldData ==
    ASSUME AuthInv, NEW p \in Procs, Acts(p)
    PROVE  \/ Data(Held)' = Data(Held) /\ (FileSame(p) \/ FilePublished(p) \/ FileRestored(p))
           \/ FileStored(p)
           \/ FileLost(p)
  <1>0. Held \in FileType \cup {None}
    BY HeldCases
  <1>1. ASSUME Kin(Held, Held') PROVE Data(Held)' = Data(Held)
    <2>1. Data(Held') = Data(Held)
      BY <1>0, <1>1, KinHolds
    <2>. QED
      BY <2>1 DEF Data
  <1>2. ASSUME Held' = Held PROVE Data(Held)' = Data(Held)
    BY <1>2 DEF Data
  <1>. QED
    BY <1>1, <1>2, FileCases DEF FileSame, FilePublished, FileRestored

\* What q alone has stays its own while another process does its steps: they
\* do not find it, and do not write it.
LEMMA AloneKept ==
    ASSUME AuthInv, NEW p \in Procs, NEW q \in Procs, p # q, Acts(p),
           NEW t \in Tokens, UpTo(minted, t), t # EnvToken \/ NoEnv, Alone(q, t)
    PROVE  Alone(q, t)' /\ t \notin Has(p)
  <1>0. LocalType /\ GlobalType /\ Frame(p)
    BY ActsSound DEF AuthInv, Types
  <1>1. t \notin Has(p) /\ (Storing(p) => job[p].cur # t)
    BY DEF Alone, Has, HasCur, Storing
  <1>2. Doing(q, Undone)' <=> Doing(q, Undone)
    BY <1>0 DEF Frame, Doing
  <1>3. lock = None \/ Doing(p, Undone) => ~Doing(q, Undone)
    <2>1. LockInv(q) /\ LockInv(p)
      BY DEF AuthInv, Local
    <2>2. Doing(q, Undone) => lock = q
      BY <2>1 DEF LockInv, Doing, Busy
    <2>3. Doing(p, Undone) => lock = p
      BY <2>1 DEF LockInv, Doing, Busy
    <2>. QED
      BY <2>2, <2>3, NoneAssumption
  <1>4. t \notin Has(p)'
    <2>1. ~(Found /\ t = target.data)
      BY <1>3 DEF Found, Alone, Data
    <2>2. t # minted + 1
      BY TokenBounds, <1>0 DEF UpTo, GlobalType
    <2>3. ~(env[p] # None /\ t = env[p])
      BY <1>0 DEF GlobalType, NoEnv
    <2>. QED
      BY <1>1, <2>1, <2>2, <2>3, FlowActs DEF Flow, Learnt
  <1>5. \A r \in Procs \ {q} : t \notin Has(r)'
    <2>. SUFFICES ASSUME NEW r \in Procs \ {q}, r # p PROVE t \notin Has(r)'
      BY <1>4
    <2>1. Has(r)' = Has(r)
      BY <1>0 DEF Frame, Has, HasCur
    <2>. QED
      BY <2>1 DEF Alone
  <1>6. Data(Held)' # t /\ (~Doing(q, Undone) => Data(target)' # t)
    <2>1. Data(Held) # t /\ (~Doing(q, Undone) => Data(target) # t) /\ t # None
      BY NoneAssumption DEF Alone
    <2>2. CASE Data(Held)' = Data(Held) /\ FileSame(p)
      BY <2>1, <2>2 DEF FileSame
    <2>3. CASE Data(Held)' = Data(Held) /\ FilePublished(p)
      BY <1>1, <2>1, <2>3 DEF FilePublished
    <2>4. CASE Data(Held)' = Data(Held) /\ FileRestored(p)
      BY <2>1, <2>4 DEF FileRestored, Data
    <2>5. CASE FileStored(p)
      <3>1. Data(Held)' = Data(target)' /\ Data(target)' = job[p].cur
        BY <2>5 DEF FileStored, Data
      <3>2. Storing(p)
        <4>1. LockInv(p)
          BY DEF AuthInv, Local
        <4>. QED
          BY <2>5, <4>1 DEF FileStored, LockInv, Doing, Undone
      <3>. QED
        BY <1>1, <3>1, <3>2
    <2>6. CASE FileLost(p)
      <3>1. Data(Held)' = Data(target)' /\ Data(target)' \in {Data(target), Data(Held)}
        BY <2>6 DEF FileLost, Data
      <3>2. ~Doing(q, Undone)
        BY <1>3, <2>6 DEF FileLost
      <3>. QED
        BY <2>1, <3>1, <3>2
    <2>. QED
      BY <2>2, <2>3, <2>4, <2>5, <2>6, HeldData
  <1>. QED
    BY <1>1, <1>2, <1>5, <1>6 DEF Alone

\* What p alone has, and does not put into the file, stays its own.
LEMMA OwnAloneKept ==
    ASSUME AuthInv, NEW p \in Procs, Acts(p), NEW t \in Tokens, Alone(p, t),
           ~FileLost(p), FileStored(p) => t # job[p].cur
    PROVE  Alone(p, t)'
  <1>0. Frame(p)
    BY ActsSound
  <1>1. \A r \in Procs \ {p} : t \notin Has(r)'
    <2>. SUFFICES ASSUME NEW r \in Procs \ {p} PROVE t \notin Has(r)'
      OBVIOUS
    <2>1. Has(r)' = Has(r)
      BY <1>0 DEF Frame, Has, HasCur
    <2>. QED
      BY <2>1 DEF Alone
  <1>2. Data(Held)' # t /\ (~Doing(p, Undone)' => Data(target)' # t)
    <2>1. Data(Held) # t /\ (~Doing(p, Undone) => Data(target) # t) /\ t # None
      BY NoneAssumption DEF Alone
    <2>2. CASE Data(Held)' = Data(Held) /\ FileSame(p)
      BY <2>1, <2>2 DEF FileSame
    <2>3. CASE Data(Held)' = Data(Held) /\ FilePublished(p)
      BY <2>1, <2>3 DEF FilePublished
    <2>4. CASE Data(Held)' = Data(Held) /\ FileRestored(p)
      BY <2>1, <2>4 DEF FileRestored, Data
    <2>5. CASE FileStored(p)
      BY <2>5 DEF FileStored, Data
    <2>. QED
      BY <2>2, <2>3, <2>4, <2>5, HeldData
  <1>. QED
    BY <1>1, <1>2 DEF Alone

\* A new token is its process's alone, the file as it is.
LEMMA NewIsAlone ==
    ASSUME AuthInv, IssuedInv, NEW p \in Procs, Frame(p), minted + 1 \in Tokens,
           UNCHANGED <<target, lock>>, ~Storing(p), step'[p] # None => step'[p].at \notin Undone
    PROVE  \A t : t = minted + 1 => Alone(p, t)'
  <1>1. ~Doing(p, Undone) /\ ~Doing(p, Undone)'
    BY DEF AuthInv, Local, LockInv, Doing, Undone
  <1>2. Held' = Held
    BY <1>1, HeldSame
  <1>. SUFFICES ASSUME NEW t, t = minted + 1 PROVE Alone(p, t)'
    OBVIOUS
  <1>3. Data(Held)' # t /\ Data(target)' # t
    BY <1>2, NextIsNew DEF Data
  <1>4. \A r \in Procs \ {p} : t \notin Has(r)'
    <2>. SUFFICES ASSUME NEW r \in Procs \ {p} PROVE t \notin Has(r)'
      OBVIOUS
    <2>1. Has(r)' = Has(r)
      BY DEF Frame, Has, HasCur
    <2>. QED
      BY <2>1, NextIsNew
  <1>. QED
    BY <1>3, <1>4 DEF Alone

-----------------------------------------------------------------------------
(* A refused login is nowhere. *)

\* The login of p that is not answered with success has begun just now, with a
\* new token, or was under way.
LEMMA OpenCases ==
    ASSUME AuthInv, NEW p \in Procs, Acts(p), Open(p)'
    PROVE  \/ /\ UNCHANGED <<target, lock, refused>> /\ mem'[p] = mem[p] /\ ~Storing(p)
              /\ minted + 1 \in Tokens /\ job'[p].cur = minted + 1
              /\ step'[p].at \notin Undone
           \/ /\ Open(p) /\ job'[p].cur = job[p].cur /\ mem'[p] = mem[p] /\ refused' = refused
              /\ ~FileLost(p) /\ ~FileStored(p)
  <1>0. /\ LockInv(p) /\ LockInv(p)'
        /\ job'[p].pc = "storing" /\ job'[p].then = "login" /\ ~Answer(p, {"ok", "stuck"})'
    BY ActsSound DEF AuthInv, Local, Open, Login, Storing
  <1>1. ~FileLost(p) /\ ~FileStored(p)
    BY <1>0 DEF FileLost, FileStored, Answer
  <1>2. CASE begin_login(p) \/ Callback(p) \/ StrayCallback(p)
    <2>1. UNCHANGED <<job, mem, step, refused>>
      BY <1>2, ListenerEffect DEF Idles
    <2>2. Open(p)
      BY <2>1 DEF Open, Login, Storing, Answer, At
    <2>. QED
      BY <1>1, <2>1, <2>2
  <1>3. CASE ExchangeCode(p)
    <2>1. /\ UNCHANGED <<target, lock, refused, mem>> /\ job[p].pc = "code"
          /\ minted + 1 \in Tokens /\ Started(p) /\ job'[p].cur = minted + 1
      BY <1>0, <1>3, ExchangeCodeEffect
    <2>. QED
      BY <2>1 DEF Started, Storing, Undone
  <1>4. CASE StoreStep(p) /\ UNCHANGED authVars
    <2>1. UNCHANGED <<job, mem, refused>> /\ ~At(p, "done")
      BY <1>4 DEF authVars, StoreStep, PrepareStore, PublishToken, SettleStore, ReadBack,
                  restore_previous_token_state, At
    <2>2. Open(p)
      BY <1>0, <2>1 DEF Open, Login, Storing, Answer
    <2>. QED
      BY <1>1, <2>1, <2>2
  <1>5. ~(Quiets(p) \/ load_refresh_token_state(p) \/ Reload(p) \/ Crash(p))
    BY <1>0, QuietEffect, LoadEffect, ReloadEffect, CrashEffect DEF Quiet
  <1>6. ~(access_token(p) \/ Exchange(p))
    BY <1>0, AccessEffect, ExchangeEffect
  <1>7. ~(Refreshed(p) \/ Persisted(p) \/ complete_login(p))
    BY <1>0, RefreshedEffect, PersistedEffect, LoginEffect
  <1>. QED
    BY <1>2, <1>3, <1>4, <1>5, <1>6, <1>7 DEF Acts, StoreStep

\* At the start, no login is under way.
LEMMA LoginInit == ASSUME Init PROVE LoginInv
  <1>1. \A p \in Procs : mem[p] = None /\ job[p].pc = "down"
    BY DEF Init, NoJob
  <1>2. \A p \in Procs : ~Open(p)
    BY <1>1 DEF Open, Login, Storing
  <1>. QED
    BY <1>2 DEF LoginInv, Init

\* A login that fails leaves its token to nobody: its process has not adopted
\* it, and no other process and no file has it.
LEMMA LoginActs ==
    ASSUME AuthInv, IssuedInv, LoginInv, NEW p \in Procs, Acts(p)
    PROVE  LoginInv'
  <1>0. LocalType /\ GlobalType /\ Frame(p)
    BY ActsSound DEF AuthInv, Types
  <1>1. ASSUME NEW q \in Procs, Open(q)
        PROVE  /\ job[q].cur \in Tokens /\ UpTo(minted, job[q].cur) /\ job[q].cur # EnvToken
               /\ Alone(q, job[q].cur)
    <2>1. job[q].cur \in Has(q)
      BY <1>1 DEF Open, Login, Storing, Has, HasCur
    <2>2. job[q].cur \in Tokens
      BY <1>0, <1>1 DEF AuthInv, Local, CallInv, Open, Login, Storing, HasCur, LocalType, JobType
    <2>3. job[q].cur > 1 /\ Alone(q, job[q].cur)
      BY <1>1 DEF LoginInv
    <2>4. job[q].cur # EnvToken
      BY <2>2, <2>3, TokenBounds, AuthBounds
    <2>. QED
      BY <2>1, <2>2, <2>3, <2>4 DEF IssuedInv
  <1>2. ASSUME NEW q \in Procs, Open(q)'
        PROVE  /\ Alone(q, job[q].cur)' /\ job'[q].cur \notin refused' /\ job'[q].cur > 1
               /\ mem'[q] # None => mem'[q].tok # job'[q].cur
    <2>. DEFINE t == job'[q].cur
    <2>1. CASE q # p
      <3>1. Open(q) /\ t = job[q].cur /\ mem'[q] = mem[q]
        BY <1>0, <1>2, <2>1 DEF Frame, Open, Login, Storing, Answer, At
      <3>2. t \in Tokens /\ UpTo(minted, t) /\ t # EnvToken /\ Alone(q, t)
        BY <1>1, <3>1
      <3>3. t \notin refused /\ t > 1 /\ (mem[q] # None => mem[q].tok # t)
        BY <3>1 DEF LoginInv
      <3>4. \A u \in Tokens : UpTo(minted, u) /\ u # EnvToken /\ Alone(q, u) => Alone(q, u)' /\ u \notin Has(p)
        BY <2>1, AloneKept
      <3>5. \A u : u = job[q].cur => Alone(q, u)' /\ u \notin Has(p)
        BY <3>1, <3>2, <3>4
      <3>6. refused' \subseteq refused \cup Has(p)
        BY FlowActs DEF Flow, Open, Login, Has, HasCur, Storing
      <3>. QED
        BY <3>1, <3>3, <3>5, <3>6 DEF Alone
    <2>2. CASE q = p
      <3>1. CASE /\ UNCHANGED <<target, lock, refused>> /\ mem'[p] = mem[p] /\ ~Storing(p)
                 /\ minted + 1 \in Tokens /\ job'[p].cur = minted + 1
                 /\ step'[p].at \notin Undone
        <4>1. \A u : u = minted + 1 => Alone(p, u)'
          BY <1>0, <3>1, NewIsAlone
        <4>2. minted + 1 \notin refused /\ minted + 1 > 1 /\ minted + 1 \notin Has(p)
          BY <3>1, NextIsNew
        <4>3. mem[p] # None => mem[p].tok \in Has(p)
          BY DEF Has
        <4>. QED
          BY <2>2, <3>1, <4>1, <4>2, <4>3 DEF Alone
      <3>2. CASE /\ Open(p) /\ job'[p].cur = job[p].cur /\ mem'[p] = mem[p] /\ refused' = refused
                 /\ ~FileLost(p) /\ ~FileStored(p)
        <4>1. t \notin refused /\ t > 1 /\ (mem[p] # None => mem[p].tok # t)
          BY <2>2, <3>2 DEF LoginInv
        <4>2. \A u \in Tokens : Alone(p, u) => Alone(p, u)'
          BY <3>2, OwnAloneKept
        <4>3. \A u : u = job[p].cur => Alone(p, u)'
          BY <1>1, <3>2, <4>2
        <4>. QED
          BY <2>2, <3>2, <4>1, <4>3 DEF Alone
      <3>. QED
        BY <1>2, <2>2, <3>1, <3>2, OpenCases
    <2>. QED
      BY <2>1, <2>2
  <1>3. CASE refused' = refused
    <2>1. Data(Held)' \notin refused /\ Data(target)' \notin refused
      <3>1. Storing(p) => job[p].cur \notin refused
        BY DEF LoginInv, Has, HasCur, Storing
      <3>2. Data(Held) \notin refused /\ Data(target) \notin refused /\ None \notin refused
        BY <1>0, NoneAssumption DEF LoginInv, GlobalType
      <3>. QED
        BY <3>1, <3>2, DataFlow
    <2>2. Has(p)' \cap refused = {}
      <3>1. Found => target.data \notin refused
        BY DEF LoginInv, Found, Data
      <3>2. minted + 1 \notin refused
        BY <1>0, NextIsNew DEF GlobalType
      <3>3. env[p] # None => env[p] \notin refused
        BY <1>0 DEF GlobalType, LoginInv
      <3>4. \A t \in Has(p) : t \notin refused
        BY DEF LoginInv
      <3>5. \A t \in Has(p)' : t \notin refused
        BY <3>1, <3>2, <3>3, <3>4, FlowActs DEF Flow, Learnt
      <3>. QED
        BY <3>5
    <2>3. \A q \in Procs : Has(q)' \cap refused = {}
      <3>. SUFFICES ASSUME NEW q \in Procs, q # p PROVE Has(q)' \cap refused = {}
        BY <2>2
      <3>1. Has(q)' = Has(q)
        BY <1>0 DEF Frame, Has, HasCur
      <3>. QED
        BY <3>1 DEF LoginInv
    <2>. QED
      BY <1>2, <1>3, <2>1, <2>3 DEF LoginInv
  <1>4. CASE /\ refused' = refused \cup {job[p].cur} /\ Open(p) /\ At(p, "done")
             /\ UNCHANGED <<target, lock, mem>> /\ ~HasCur(p)'
    <2>. DEFINE t == job[p].cur
    <2>1. Alone(p, t) /\ t > 1 /\ t # EnvToken /\ (mem[p] # None => mem[p].tok # t)
      BY <1>1, <1>4 DEF LoginInv
    <2>2. ~Doing(p, Undone) /\ ~Doing(p, Undone)'
      <3>1. LockInv(p)'
        BY ActsSound DEF AuthInv, Local
      <3>. QED
        BY <1>4, <3>1 DEF LockInv, Doing, Undone, At, HasCur, Storing
    <2>3. Held' = Held
      BY <1>0, <1>4, <2>2, HeldSame
    <2>4. Data(Held)' = Data(Held) /\ Data(target)' = Data(target)
      BY <1>4, <2>3 DEF Data
    <2>5. Data(Held) # t /\ Data(target) # t
      BY <2>1, <2>2 DEF Alone
    <2>6. Data(Held)' \notin refused' /\ Data(target)' \notin refused' /\ EnvToken \notin refused'
      BY <1>4, <2>1, <2>4, <2>5 DEF LoginInv
    <2>7. Has(p)' \cap refused' = {}
      <3>1. Has(p)' = IF mem[p] = None THEN {} ELSE {mem[p].tok}
        BY <1>4 DEF Has
      <3>2. mem[p] # None => mem[p].tok \notin refused
        BY DEF LoginInv, Has
      <3>. QED
        BY <1>4, <2>1, <3>1, <3>2
    <2>8. \A q \in Procs : Has(q)' \cap refused' = {}
      <3>. SUFFICES ASSUME NEW q \in Procs, q # p PROVE Has(q)' \cap refused' = {}
        BY <2>7
      <3>1. Has(q)' = Has(q)
        BY <1>0 DEF Frame, Has, HasCur
      <3>2. t \notin Has(q)
        BY <2>1 DEF Alone
      <3>. QED
        BY <1>4, <3>1, <3>2 DEF LoginInv
    <2>. QED
      BY <1>2, <2>6, <2>8 DEF LoginInv
  <1>. QED
    BY <1>3, <1>4, FlowActs DEF Flow

\* Whoever else changes the file puts no token into it.
LEMMA DisturbData ==
    ASSUME AuthInv, Disturb
    PROVE  /\ Data(Held)' \in {Data(Held), None, Garbage}
           /\ Data(target)' \in {Data(target), None, Garbage}
           /\ UNCHANGED <<step, env, mem, job, live, minted, stored, refused>> /\ gone' = TRUE
  <1>1. /\ UNCHANGED <<lock, step, env, mem, job, live, minted, stored, refused>> /\ gone' = TRUE
        /\ Data(target') \in {Data(target), None, Garbage}
    BY DisturbEffect
  <1>2. Data(target)' \in {Data(target), None, Garbage}
    BY <1>1 DEF Data
  <1>3. CASE lock # None /\ Doing(lock, Undone)
    <2>1. Held' = Held
      BY <1>1, <1>3 DEF Held, Doing
    <2>. QED
      BY <1>1, <1>2, <2>1 DEF Data
  <1>4. CASE ~(lock # None /\ Doing(lock, Undone))
    <2>1. Held = target /\ Held' = target'
      BY <1>1, <1>4 DEF Held, Doing
    <2>2. Data(Held) = Data(target) /\ Data(Held)' = Data(target)'
      BY <2>1 DEF Data
    <2>. QED
      BY <1>1, <1>2, <2>2
  <1>. QED
    BY <1>3, <1>4

\* Nothing that was refused, and nothing new, comes from there.
LEMMA TokensDisturb ==
    ASSUME AuthInv, IssuedInv, LoginInv, Disturb
    PROVE  IssuedInv' /\ LoginInv'
  <1>1. /\ UNCHANGED <<step, env, mem, job, live, minted, stored, refused>>
        /\ Data(Held)' \in {Data(Held), None, Garbage}
        /\ Data(target)' \in {Data(target), None, Garbage}
    BY DisturbData
  <1>2. \A p \in Procs : Has(p)' = Has(p)
    BY <1>1 DEF Has, HasCur
  <1>3. None \notin Tokens /\ Garbage \notin Tokens
    BY NoneAssumption, TokenBounds
  <1>4. IssuedInv'
    <2>1. UpTo(minted, None) /\ UpTo(minted, Garbage)
      BY <1>3 DEF UpTo
    <2>2. UpTo(minted, Data(Held)') /\ UpTo(minted, Data(target)')
      BY <1>1, <2>1 DEF IssuedInv
    <2>. QED
      BY <1>1, <1>2, <2>2 DEF IssuedInv
  <1>5. ASSUME NEW p \in Procs, Open(p)'
        PROVE  /\ Alone(p, job[p].cur)' /\ job'[p].cur \notin refused' /\ job'[p].cur > 1
               /\ mem'[p] # None => mem'[p].tok # job'[p].cur
    <2>. DEFINE t == job[p].cur
    <2>1. Open(p)
      BY <1>1, <1>5 DEF Open, Login, Storing, Answer, At
    <2>2. Alone(p, t) /\ t \notin refused /\ t > 1 /\ (mem[p] # None => mem[p].tok # t)
      BY <2>1 DEF LoginInv
    <2>3. t \in Tokens
      BY <2>1 DEF AuthInv, Types, Local, CallInv, Open, Login, Storing, HasCur, LocalType, JobType
    <2>4. Data(Held)' # t /\ (~Doing(p, Undone)' => Data(target)' # t)
      BY <1>1, <1>3, <2>2, <2>3 DEF Alone, Doing
    <2>5. \A q \in Procs \ {p} : t \notin Has(q)'
      BY <1>2, <2>2 DEF Alone
    <2>. QED
      BY <1>1, <2>2, <2>4, <2>5 DEF Alone
  <1>6. Data(Held)' \notin refused' /\ Data(target)' \notin refused'
    BY <1>1, <1>3 DEF LoginInv, AuthInv, Types, GlobalType
  <1>7. EnvToken \notin refused' /\ \A p \in Procs : Has(p)' \cap refused' = {}
    BY <1>1, <1>2 DEF LoginInv
  <1>8. LoginInv'
    BY <1>5, <1>6, <1>7 DEF LoginInv
  <1>. QED
    BY <1>4, <1>8

\* What was refused is then nowhere.
LEMMA RefusedForgotten == ASSUME AuthInv, LoginInv PROVE RefusedIsForgotten
  <1>1. \A p \in Procs : mem[p] # None => mem[p].tok \notin refused
    BY DEF LoginInv, Has
  <1>2. target # None => target.data \notin refused
    BY DEF LoginInv, Data
  <1>. QED
    BY <1>1, <1>2 DEF RefusedIsForgotten

\* What FileSound needs to be kept by every step.
FileInv == AuthInv /\ AnsweredInv /\ LegacyInv /\ IssuedInv /\ LoginInv

\* Every step keeps it.
LEMMA FileNext == ASSUME FileInv, [Next]_vars PROVE FileInv'
  <1>1. AuthInv /\ AnsweredInv /\ LegacyInv /\ IssuedInv /\ LoginInv
    BY DEF FileInv
  <1>2. ASSUME NEW p \in Procs, Acts(p) PROVE FileInv'
    BY <1>1, <1>2, ActsSound, AnsweredActs, LegacyActs, IssuedActs, LoginActs DEF FileInv
  <1>3. CASE Disturb
    <2>1. AuthInv' /\ UNCHANGED <<legacy, store>> /\ (dir' = None) = (dir = None)
      BY <1>1, <1>3, DisturbEffect
    <2>2. LegacyInv'
      BY <1>1, <2>1 DEF LegacyInv, PlaintextGone
    <2>. QED
      BY <1>1, <1>3, <2>1, <2>2, AnsweredDisturb, TokensDisturb DEF FileInv
  <1>4. CASE UNCHANGED vars
    <2>1. /\ UNCHANGED <<target, lock, step, mem, job, legacy, store, dir, asStored>>
          /\ UNCHANGED <<env, live, minted, stored, refused>>
      BY <1>4 DEF vars, storeVars, authVars
    <2>2. AuthInv'
      BY <1>1, <1>4, AuthStutter
    <2>3. Held' = Held
      BY <2>1 DEF Held, Doing
    <2>4. AnsweredInv'
      BY <1>1, <2>1, <2>3 DEF AnsweredInv
    <2>5. LegacyInv'
      BY <1>1, <2>1 DEF LegacyInv, PlaintextGone
    <2>6. Data(Held)' = Data(Held) /\ Data(target)' = Data(target)
      BY <2>1, <2>3 DEF Data
    <2>7. \A p \in Procs : Has(p)' = Has(p)
      BY <2>1 DEF Has, HasCur
    <2>8. IssuedInv'
      BY <1>1, <2>1, <2>6, <2>7 DEF IssuedInv
    <2>9. \A p \in Procs : /\ Open(p)' <=> Open(p)
                           /\ \A t : Alone(p, t) => Alone(p, t)'
      BY <2>1, <2>6, <2>7 DEF Open, Login, Storing, Answer, At, Alone, Doing
    <2>10. LoginInv'
      <3>1. \A p \in Procs : Open(p)' => Alone(p, job[p].cur)'
        BY <1>1, <2>1, <2>6, <2>7, <2>9 DEF LoginInv, Alone, Doing
      <3>. QED
        BY <1>1, <2>1, <2>6, <2>7, <2>9, <3>1 DEF LoginInv
    <2>. QED
      BY <2>2, <2>4, <2>5, <2>8, <2>10 DEF FileInv
  <1>. QED
    BY <1>2, <1>3, <1>4, NextActs

\* Whatever fails on the way, and for any number of processes, the token file
\* is what the answers of the store said, the token of a refused login is not
\* used by any process and is not in the file, and the plaintext token of
\* earlier releases is gone before the store is used.
THEOREM TokenFileSound == Spec => []FileSound
  <1>1. Init => FileInv
    BY AuthInit, FileInit, IssuedInit, LoginInit DEF FileInv
  <1>2. FileInv => FileSound
    BY AuthParts, AnswersKept, RefusedForgotten DEF FileInv, FileSound, LegacyInv
  <1>. QED
    BY <1>1, <1>2, FileNext, PTL DEF Spec

-----------------------------------------------------------------------------
(* What keeps the account connected *)

\* A token that p alone has and will not let go is one it has, of the service's
\* and not of the environment.
LEMMA OwnHas ==
    ASSUME AuthInv, NEW p \in Procs
    PROVE  /\ Own(p) \subseteq Has(p) /\ Has(p) \subseteq Tokens
           /\ Kept(p) \subseteq Has(p)
           /\ Spare(p) \subseteq Has(p)
           /\ ~Storing(p) => Own(p) = Spare(p) /\ Kept(p) = Spare(p)
  <1>0. LocalType /\ Local(p)
    BY DEF AuthInv, Types
  <1>1. HasCur(p) => job[p].cur \in Tokens
    BY <1>0 DEF Local, CallInv, LocalType, JobType
  <1>2. mem[p] # None => mem[p].tok \in Tokens
    BY <1>0 DEF LocalType, TokenState
  <1>3. Storing(p) => HasCur(p)
    BY DEF Storing, HasCur
  <1>4. Spare(p) \subseteq Has(p)
    BY DEF Spare, Has
  <1>. QED
    BY <1>1, <1>2, <1>3, <1>4 DEF Own, Kept, Has

\* How what p alone has changes: without the store, it is what it was, or what
\* the service has just issued.
OwnFrom(p) ==
    \/ Own(p)' \subseteq Own(p)
    \/ /\ UNCHANGED <<target, lock>> /\ ~Storing(p) /\ step'[p].at \notin Undone
       /\ minted + 1 \in Tokens /\ minted + 1 \in live'
       /\ \A t \in Own(p)' : t \in Own(p) \/ t = minted + 1

\* No token that is kept is revoked, unless its successor is kept.
OwnLive(p) == \A t \in Own(p)' : t \in live => t \in live'

\* What a process alone has is what it had or what was just issued to it.
LEMMA OwnCases ==
    ASSUME AuthInv, NEW p \in Procs, Acts(p), ~gone', NoEnv
    PROVE  OwnFrom(p) /\ OwnLive(p)
  <1>0. /\ LocalType /\ GlobalType /\ Local(p) /\ LockInv(p) /\ OriginInv(p)
        /\ LockInv(p)'
    BY ActsSound DEF AuthInv, Types, Local
  <1>1. ASSUME job'[p].pc # "storing"
        PROVE  Own(p)' = IF mem'[p] # None /\ mem'[p].origin = "Unpersisted" THEN {mem'[p].tok} ELSE {}
    BY <1>1 DEF Own, Storing, Spare
  <1>2. ASSUME ~Storing(p), job'[p].pc # "storing", live' = live,
               \/ mem'[p] = mem[p]
               \/ mem[p] = None /\ mem'[p] = None
               \/ mem[p] # None /\ mem'[p] # None /\ mem'[p].tok = mem[p].tok /\ mem'[p].origin = mem[p].origin
               \/ mem'[p] # None /\ mem'[p].origin # "Unpersisted"
        PROVE  OwnFrom(p) /\ OwnLive(p)
    <2>1. Own(p) = IF mem[p] # None /\ mem[p].origin = "Unpersisted" THEN {mem[p].tok} ELSE {}
      BY <1>2 DEF Own, Spare
    <2>2. Own(p)' \subseteq Own(p)
      BY <1>1, <1>2, <2>1
    <2>. QED
      BY <1>2, <2>2 DEF OwnFrom, OwnLive
  <1>3. CASE Quiets(p)
    <2>1. Quiet(p)
      BY <1>3, QuietEffect
    <2>. QED
      BY <1>2, <2>1 DEF Quiet, HasCur, Storing
  <1>4. CASE begin_login(p) \/ Callback(p) \/ StrayCallback(p)
    <2>1. UNCHANGED <<job, mem, step, live>>
      BY <1>4, ListenerEffect DEF Idles
    <2>2. Own(p)' = Own(p)
      BY <2>1 DEF Own, Storing, Answer, At, Spare
    <2>. QED
      BY <2>1, <2>2 DEF OwnFrom, OwnLive
  <1>5. CASE load_refresh_token_state(p)
    <2>1. \A t : State(t, "Store", FALSE).origin = "Store"
      BY DEF State
    <2>2. /\ UNCHANGED live /\ ~HasCur(p) /\ job'[p].pc = "idle"
          /\ \/ mem'[p] = mem[p]
             \/ env[p] # None
             \/ Found /\ mem'[p] = State(target.data, "Store", FALSE)
      BY <1>5, LoadEffect
    <2>3. mem'[p] = mem[p] \/ (mem'[p] # None /\ mem'[p].origin # "Unpersisted")
      <3>1. CASE Found /\ mem'[p] = State(target.data, "Store", FALSE)
        <4>1. target.data \in Tokens /\ "Store" \in Origins
          BY <3>1 DEF Found, Origins
        <4>2. State(target.data, "Store", FALSE) # None
          BY <4>1, StateType
        <4>. QED
          BY <2>1, <3>1, <4>2
      <3>. QED
        BY <2>2, <3>1 DEF NoEnv
    <2>. QED
      BY <1>2, <2>2, <2>3 DEF HasCur, Storing
  <1>6. CASE access_token(p)
    <2>1. /\ UNCHANGED <<live, mem>> /\ job[p].pc = "access"
          /\ \/ job'[p].pc \in {"idle", "send", "exchange"}
             \/ /\ Started(p) /\ job'[p].then = "retry"
                /\ mem[p] # None /\ mem[p].origin = "Unpersisted" /\ job'[p].cur = mem[p].tok
      BY <1>6, AccessEffect
    <2>2. CASE job'[p].pc \in {"idle", "send", "exchange"}
      BY <1>2, <2>1, <2>2 DEF Storing
    <2>3. CASE /\ Started(p) /\ job'[p].then = "retry"
               /\ mem[p] # None /\ mem[p].origin = "Unpersisted" /\ job'[p].cur = mem[p].tok
      <3>1. Own(p)' \subseteq {mem[p].tok}
        BY <2>1, <2>3 DEF Own, Storing, Started
      <3>2. Own(p) = {mem[p].tok}
        BY <2>1, <2>3 DEF Own, Storing, Spare
      <3>. QED
        BY <2>1, <3>1, <3>2 DEF OwnFrom, OwnLive
    <2>. QED
      BY <2>1, <2>2, <2>3
  <1>7. CASE Exchange(p)
    <2>0. /\ UNCHANGED <<target, lock>> /\ job[p].pc = "exchange" /\ ~Storing(p)
          /\ job[p].cur \in Tokens
      BY <1>7, ExchangeEffect DEF Storing
    <2>1. CASE /\ Turns(job[p].cur)
               /\ Started(p) /\ job'[p].cur = minted + 1 /\ job'[p].then = "rotated"
      <3>1. Own(p)' \subseteq {minted + 1}
        BY <2>1 DEF Own, Storing, Started
      <3>2. minted + 1 \in Tokens /\ minted + 1 \in live' /\ step'[p].at \notin Undone
        BY <2>1 DEF Turns, Started, Undone
      <3>. QED
        BY <2>0, <3>1, <3>2 DEF OwnFrom, OwnLive
    <2>2. CASE /\ UNCHANGED live /\ job'[p].pc = "send"
               /\ mem'[p] = State(job[p].cur, "Store", TRUE)
      <3>1. "Store" \in Origins
        BY DEF Origins
      <3>2. mem'[p] # None /\ mem'[p].origin = "Store"
        <4>. DEFINE c == job[p].cur
        <4>1. c \in Tokens
          BY <2>0
        <4>. HIDE DEF c
        <4>2. State(c, "Store", TRUE) # None /\ State(c, "Store", TRUE).origin = "Store"
          BY <3>1, <4>1, StateType
        <4>. QED
          BY <2>2, <4>2 DEF c
      <3>. QED
        BY <1>2, <2>0, <2>2, <3>2
    <2>3. CASE /\ UNCHANGED live /\ job[p].origin # "Store" /\ mem'[p] = mem[p]
               /\ Started(p) /\ job'[p].cur = job[p].cur /\ job'[p].then = "adopted"
      <3>1. job[p].origin = "Unpersisted"
        BY <1>0, <2>3 DEF OriginInv, NoEnv, LocalType, JobType, Origins
      <3>2. mem[p] # None /\ mem[p].tok = job[p].cur /\ mem[p].origin = "Unpersisted"
        BY <1>0, <2>0, <3>1 DEF OriginInv
      <3>3. Own(p) = {job[p].cur}
        BY <2>0, <3>2 DEF Own, Spare
      <3>4. Own(p)' \subseteq {job[p].cur}
        BY <2>3 DEF Own, Storing, Started
      <3>. QED
        BY <2>3, <3>3, <3>4 DEF OwnFrom, OwnLive
    <2>4. CASE /\ mem'[p] = mem[p]
               /\ \/ job'[p].pc = "idle"
                  \/ job'[p].pc = "reload" /\ job'[p].cur = job[p].cur
               /\ \/ UNCHANGED live
                  \/ Turns(job[p].cur) /\ gone' = (gone \/ job[p].cur \notin live')
      <3>1. Own(p) = IF mem[p] # None /\ mem[p].origin = "Unpersisted" THEN {mem[p].tok} ELSE {}
        BY <2>0 DEF Own, Spare
      <3>2. Own(p)' = Own(p)
        BY <1>1, <2>4, <3>1
      <3>3. live \subseteq live'
        BY <2>4 DEF Turns
      <3>. QED
        BY <3>2, <3>3 DEF OwnFrom, OwnLive
    <2>. QED
      BY <1>7, <2>1, <2>2, <2>3, <2>4, ExchangeEffect
  <1>8. CASE Reload(p)
    <2>1. UNCHANGED <<live, mem>> /\ ~Storing(p) /\ job'[p].pc \in {"idle", "exchange"}
      BY <1>8, ReloadEffect
    <2>. QED
      BY <1>2, <2>1
  <1>9. CASE ExchangeCode(p)
    <2>1. /\ UNCHANGED <<target, lock, mem>> /\ job[p].pc = "code"
          /\ \/ /\ minted + 1 \in Tokens /\ live' = live \cup {minted + 1}
                /\ Started(p) /\ job'[p].cur = minted + 1 /\ job'[p].then = "login"
             \/ UNCHANGED live /\ job'[p].pc = "idle"
      BY <1>9, ExchangeCodeEffect
    <2>2. CASE UNCHANGED live /\ job'[p].pc = "idle"
      BY <1>2, <2>1, <2>2 DEF Storing
    <2>3. CASE /\ minted + 1 \in Tokens /\ live' = live \cup {minted + 1}
               /\ Started(p) /\ job'[p].cur = minted + 1 /\ job'[p].then = "login"
      <3>1. Own(p) = Spare(p) /\ ~Storing(p)
        BY <2>1 DEF Own, Storing
      <3>2. \A t \in Own(p)' : t \in Spare(p) \/ t = minted + 1
        BY <2>1, <2>3 DEF Own, Storing, Started, Spare
      <3>3. step'[p].at \notin Undone
        BY <2>3 DEF Started, Undone
      <3>. QED
        BY <2>1, <2>3, <3>1, <3>2, <3>3 DEF OwnFrom, OwnLive
    <2>. QED
      BY <2>1, <2>2, <2>3
  <1>10. ASSUME AnswerTaken(p), Result(p) # "ok" PROVE job[p].cur \in Own(p) /\ ~Answer(p, {"ok", "stuck"})
    <2>1. Result(p) # "stuck"
      BY <1>10 DEF AnswerTaken
    <2>2. ~Answer(p, {"ok", "stuck"})
      BY <1>10, <2>1 DEF Answer, Result
    <2>. QED
      BY <1>10, <2>2 DEF AnswerTaken, Own
  <1>11. CASE Refreshed(p)
    <2>1. /\ AnswerTaken(p) /\ job'[p].pc \in {"idle", "send"} /\ NextOrigin(p) \in Origins
          /\ mem'[p] = State(job[p].cur, NextOrigin(p), TRUE)
      BY <1>11, RefreshedEffect
    <2>2. Own(p)' \subseteq IF NextOrigin(p) = "Unpersisted" THEN {job[p].cur} ELSE {}
      BY <1>1, <2>1 DEF State
    <2>3. NextOrigin(p) = "Unpersisted" => Result(p) # "ok"
      BY DEF NextOrigin
    <2>4. Own(p)' \subseteq Own(p) /\ live' = live
      BY <1>10, <2>1, <2>2, <2>3 DEF AnswerTaken
    <2>. QED
      BY <2>4 DEF OwnFrom, OwnLive
  <1>12. CASE Persisted(p)
    <2>1. /\ AnswerTaken(p) /\ job'[p].pc \in {"idle", "send"} /\ mem[p].tok = job[p].cur
          /\ mem'[p].tok = mem[p].tok
          /\ mem'[p].origin = IF Result(p) = "ok" THEN "Store" ELSE "Unpersisted"
      BY <1>12, PersistedEffect
    <2>2. Own(p)' \subseteq IF Result(p) = "ok" THEN {} ELSE {job[p].cur}
      BY <1>1, <2>1
    <2>3. Own(p)' \subseteq Own(p) /\ live' = live
      BY <1>10, <2>1, <2>2 DEF AnswerTaken
    <2>. QED
      BY <2>3 DEF OwnFrom, OwnLive
  <1>13. CASE complete_login(p)
    <2>1. /\ AnswerTaken(p) /\ job'[p].pc \in {"idle", "access"} /\ job[p].then = "login"
          /\ \/ Result(p) = "ok" /\ mem'[p] = State(job[p].cur, "Store", TRUE)
             \/ Result(p) # "ok" /\ mem'[p] = mem[p]
      BY <1>13, LoginEffect
    <2>2. CASE Result(p) = "ok" /\ mem'[p] = State(job[p].cur, "Store", TRUE)
      <3>1. Own(p)' = {}
        BY <1>1, <2>1, <2>2 DEF State
      <3>. QED
        BY <3>1 DEF OwnFrom, OwnLive
    <2>3. CASE Result(p) # "ok" /\ mem'[p] = mem[p]
      <3>1. Own(p)' \subseteq Spare(p)
        BY <1>1, <2>1, <2>3 DEF Spare
      <3>2. Spare(p) \subseteq Own(p)
        BY <1>10, <2>1, <2>3 DEF Own, AnswerTaken
      <3>. QED
        BY <2>1, <3>1, <3>2 DEF OwnFrom, OwnLive, AnswerTaken
    <2>. QED
      BY <2>1, <2>2, <2>3
  <1>14. CASE Crash(p)
    <2>1. mem'[p] = None /\ job'[p].pc = "down"
      BY <1>14, CrashEffect
    <2>2. Own(p)' = {}
      BY <1>1, <2>1
    <2>. QED
      BY <2>2 DEF OwnFrom, OwnLive
  <1>15. CASE StoreStep(p) /\ UNCHANGED authVars
    <2>1. UNCHANGED <<job, mem, live>> /\ ~At(p, "done")
      BY <1>15 DEF authVars, StoreStep, PrepareStore, PublishToken, SettleStore, ReadBack,
                   restore_previous_token_state, At
    <2>2. Own(p)' \subseteq Own(p)
      BY <2>1 DEF Own, Storing, Spare, Answer
    <2>. QED
      BY <2>1, <2>2 DEF OwnFrom, OwnLive
  <1>. QED
    BY <1>3, <1>4, <1>5, <1>6, <1>7, <1>8, <1>9, <1>11, <1>12, <1>13, <1>14, <1>15 DEF Acts, StoreStep

\* A call that has put the token into the file, or cannot put things back, has
\* nothing left that is p's alone.
LEMMA OwnEnds ==
    ASSUME AuthInv, NEW p \in Procs, Acts(p), FileStored(p) \/ FileLost(p)
    PROVE  Own(p)' = {} /\ Storing(p) /\ ~At(p, "done") /\ job[p].cur \in Own(p)
  <1>1. LockInv(p) /\ LockInv(p)' /\ OriginInv(p)'
    BY ActsSound DEF AuthInv, Local
  <1>2. Storing(p) /\ ~At(p, "done")
    BY <1>1 DEF FileStored, FileLost, LockInv, Doing, Undone, At
  <1>3. job[p].cur \in Own(p)
    BY <1>2 DEF Own, Answer
  <1>4. CASE Answer(p, {"ok", "stuck"})'
    <2>1. Storing(p)'
      BY <1>1, <1>4 DEF LockInv, Answer, At
    <2>. QED
      BY <1>2, <1>3, <1>4, <2>1 DEF Own
  <1>5. CASE job'[p].pc = "down"
    <2>1. mem'[p] = None
      BY <1>1, <1>5 DEF OriginInv
    <2>. QED
      BY <1>2, <1>3, <1>5, <2>1 DEF Own, Storing, Spare
  <1>. QED
    BY <1>4, <1>5 DEF FileStored, FileLost, Answer

\* What a process alone has stays its own and live.
LEMMA OwnActs ==
    ASSUME AuthInv, IssuedInv, OwnInv, NEW p \in Procs, Acts(p)
    PROVE  OwnInv'
  <1>. SUFFICES ASSUME ~gone', NoEnv', NEW q \in Procs, NEW t \in Own(q)'
                PROVE  Alone(q, t)' /\ t \in live'
    BY DEF OwnInv
  <1>0. LocalType /\ GlobalType /\ Frame(p) /\ NoEnv /\ ~gone /\ AuthInv'
    BY ActsSound, FlowActs DEF AuthInv, Types, Flow, NoEnv
  <1>1. \A r \in Procs : \A u \in Own(r) : u \in Tokens
    BY OwnHas
  <1>2. \A r \in Procs : \A u \in Own(r) : Alone(r, u) /\ u \in live /\ u \in Has(r)
    BY <1>0, OwnHas DEF OwnInv
  <1>3. CASE q # p
    <2>1. Own(q)' = Own(q)
      BY <1>0, <1>3 DEF Frame, Own, Storing, Spare, Answer, At
    <2>2. t \in Tokens /\ UpTo(minted, t) /\ Alone(q, t) /\ t \in live
      BY <1>1, <1>2, <2>1 DEF IssuedInv
    <2>3. Alone(q, t)' /\ t \notin Has(p)
      BY <1>0, <1>3, <2>2, AloneKept
    <2>. QED
      BY <2>2, <2>3, FlowActs DEF Flow, Served
  <1>4. CASE q = p
    <2>0. OwnFrom(p) /\ OwnLive(p)
      BY <1>0, OwnCases
    <2>1. ~FileStored(p) /\ ~FileLost(p)
      BY <1>4, OwnEnds
    <2>2. ASSUME t \in Own(p) PROVE Alone(p, t)' /\ t \in live'
      BY <1>1, <1>2, <1>4, <2>0, <2>1, <2>2, OwnAloneKept DEF OwnLive
    <2>3. CASE t \notin Own(p)
      <3>1. /\ UNCHANGED <<target, lock>> /\ ~Storing(p) /\ step'[p].at \notin Undone
            /\ minted + 1 \in Tokens /\ minted + 1 \in live' /\ t = minted + 1
        BY <1>4, <2>0, <2>3 DEF OwnFrom
      <3>2. \A u : u = minted + 1 => Alone(p, u)'
        BY <1>0, <3>1, NewIsAlone
      <3>. QED
        BY <3>1, <3>2, <1>4
    <2>. QED
      BY <1>4, <2>2, <2>3
  <1>. QED
    BY <1>3, <1>4

\* How what p will not forget changes: a live token of it stays, comes into
\* the file, or is the file's already.
LEMMA KeptActs ==
    ASSUME AuthInv, AnsweredInv, NEW p \in Procs, Acts(p), ~gone', NoEnv,
           ~FileStored(p), ~FileLost(p), live \subseteq live',
           NEW t \in Kept(p), t \in live
    PROVE  t \in Kept(p)' \/ t = Data(Held) \/ Kept(p)' \cap live' # {}
  <1>0. /\ LocalType /\ GlobalType /\ Local(p) /\ LockInv(p) /\ OriginInv(p)
        /\ LockInv(p)'
    BY ActsSound DEF AuthInv, Types, Local
  <1>1. ASSUME job'[p].pc # "storing"
        PROVE  Kept(p)' = IF mem'[p] # None /\ mem'[p].origin = "Unpersisted" THEN {mem'[p].tok} ELSE {}
    BY <1>1 DEF Kept, Storing, Spare
  <1>2. ASSUME ~Storing(p)
        PROVE  mem[p] # None /\ mem[p].origin = "Unpersisted" /\ t = mem[p].tok
    BY <1>2 DEF Kept, Spare
  <1>3. ASSUME ~Storing(p), job'[p].pc # "storing",
               \/ mem'[p] = mem[p]
               \/ mem[p] = None
               \/ mem[p] # None /\ mem'[p] # None /\ mem'[p].tok = mem[p].tok /\ mem'[p].origin = mem[p].origin
        PROVE  t \in Kept(p)'
    BY <1>1, <1>2, <1>3
  <1>4. CASE Quiets(p)
    <2>1. Quiet(p)
      BY <1>4, QuietEffect
    <2>. QED
      BY <1>3, <2>1 DEF Quiet, HasCur, Storing
  <1>5. CASE begin_login(p) \/ Callback(p) \/ StrayCallback(p)
    <2>1. UNCHANGED <<job, mem, step>>
      BY <1>5, ListenerEffect DEF Idles
    <2>2. Kept(p)' = Kept(p)
      BY <2>1 DEF Kept, Storing, Answer, At, Spare
    <2>. QED
      BY <2>2
  <1>6. CASE load_refresh_token_state(p)
    <2>1. job[p].pc = "loading"
      BY <1>6 DEF load_refresh_token_state
    <2>2. mem[p] = None /\ ~Storing(p)
      BY <1>0, <2>1 DEF OriginInv, Storing
    <2>. QED
      BY <1>2, <2>2
  <1>7. CASE access_token(p)
    <2>1. /\ UNCHANGED mem /\ job[p].pc = "access"
          /\ \/ job'[p].pc \in {"idle", "send", "exchange"}
             \/ /\ Started(p) /\ job'[p].then = "retry" /\ job'[p].cur = mem[p].tok
      BY <1>7, AccessEffect
    <2>2. CASE job'[p].pc \in {"idle", "send", "exchange"}
      BY <1>3, <2>1, <2>2 DEF Storing
    <2>3. CASE Started(p) /\ job'[p].then = "retry" /\ job'[p].cur = mem[p].tok
      <3>1. t = mem[p].tok
        BY <1>2, <2>1 DEF Storing
      <3>2. job'[p].cur \in Kept(p)'
        BY <2>3 DEF Kept, Storing, Started, Answer, At
      <3>. QED
        BY <2>3, <3>1, <3>2
    <2>. QED
      BY <2>1, <2>2, <2>3
  <1>8. CASE Exchange(p)
    <2>0. job[p].pc = "exchange" /\ ~Storing(p)
      BY <1>8, ExchangeEffect DEF Storing
    <2>1. ASSUME Started(p), job'[p].then # "login", job'[p].cur \in live' PROVE Kept(p)' \cap live' # {}
      <3>1. job'[p].cur \in Kept(p)'
        BY <2>1 DEF Kept, Storing, Started, Answer, At
      <3>. QED
        BY <2>1, <3>1
    <2>2. CASE /\ Turns(job[p].cur)
               /\ Started(p) /\ job'[p].cur = minted + 1 /\ job'[p].then = "rotated"
      BY <2>1, <2>2 DEF Turns
    <2>3. CASE job[p].origin = "Store" /\ job'[p].pc = "send"
      BY <1>0, <1>2, <2>0, <2>3 DEF OriginInv
    <2>4. CASE /\ job[p].cur \in live
               /\ Started(p) /\ job'[p].cur = job[p].cur /\ job'[p].then = "adopted"
      BY <2>1, <2>4
    <2>5. CASE mem'[p] = mem[p] /\ job'[p].pc \in {"idle", "reload"}
      BY <1>3, <2>0, <2>5
    <2>. QED
      BY <1>8, <2>2, <2>3, <2>4, <2>5, ExchangeEffect
  <1>9. CASE Reload(p)
    <2>1. UNCHANGED mem /\ ~Storing(p) /\ job'[p].pc \in {"idle", "exchange"}
      BY <1>9, ReloadEffect
    <2>. QED
      BY <1>3, <2>1
  <1>10. CASE ExchangeCode(p)
    <2>1. /\ UNCHANGED mem /\ job[p].pc = "code"
          /\ \/ Started(p) /\ job'[p].then = "login"
             \/ job'[p].pc = "idle"
      BY <1>10, ExchangeCodeEffect
    <2>2. CASE job'[p].pc = "idle"
      BY <1>3, <2>1, <2>2 DEF Storing
    <2>3. CASE Started(p) /\ job'[p].then = "login"
      <3>1. t \in Spare(p)
        BY <2>1 DEF Kept, Storing
      <3>2. Kept(p)' = Spare(p)'
        BY <2>3 DEF Kept, Storing, Started, Answer, At
      <3>. QED
        BY <2>1, <3>1, <3>2 DEF Spare
    <2>. QED
      BY <2>1, <2>2, <2>3
  <1>11. ASSUME AnswerTaken(p)
         PROVE  /\ Result(p) \in {"error", "unavailable"}
                /\ IF job[p].then # "login" THEN t = job[p].cur ELSE t \in Spare(p)
    <2>1. Storing(p) /\ At(p, "done") /\ Result(p) \in {"ok", "error", "unavailable"}
      BY <1>11 DEF AnswerTaken, Result
    <2>2. Result(p) # "ok"
      BY <2>1 DEF Kept, Answer, Result
    <2>. QED
      BY <2>1, <2>2 DEF Kept, Answer, Result
  <1>12. CASE Refreshed(p)
    <2>1. /\ AnswerTaken(p) /\ job'[p].pc \in {"idle", "send"} /\ job[p].then \in {"rotated", "adopted"}
          /\ mem'[p] = State(job[p].cur, NextOrigin(p), TRUE) /\ job[p].cur \in Tokens
      BY <1>12, RefreshedEffect DEF AnswerTaken
    <2>2. NextOrigin(p) = "Unpersisted"
      <3>1. job[p].origin # "Environment"
        BY <1>0 DEF OriginInv, NoEnv
      <3>2. job[p].then = "adopted" => job[p].origin = "Unpersisted"
        BY <1>0, <2>1, <3>1 DEF OriginInv, LocalType, JobType, Origins, AnswerTaken
      <3>. QED
        BY <1>11, <2>1, <3>1, <3>2 DEF NextOrigin
    <2>3. t = job[p].cur
      BY <1>11, <2>1
    <2>4. mem'[p] # None /\ mem'[p].tok = t /\ mem'[p].origin = "Unpersisted"
      <3>1. "Unpersisted" \in Origins /\ t \in Tokens
        BY <2>1, <2>3 DEF Origins
      <3>2. /\ State(t, "Unpersisted", TRUE) # None /\ State(t, "Unpersisted", TRUE).tok = t
            /\ State(t, "Unpersisted", TRUE).origin = "Unpersisted"
        BY <3>1, StateType
      <3>3. mem'[p] = State(t, "Unpersisted", TRUE)
        BY <2>1, <2>2, <2>3
      <3>. QED
        BY <3>2, <3>3
    <2>. QED
      BY <1>1, <2>1, <2>4
  <1>13. CASE Persisted(p)
    <2>1. /\ AnswerTaken(p) /\ job'[p].pc \in {"idle", "send"} /\ mem[p].tok = job[p].cur
          /\ mem'[p].tok = mem[p].tok /\ mem'[p] # None /\ job[p].then = "retry"
          /\ mem'[p].origin = IF Result(p) = "ok" THEN "Store" ELSE "Unpersisted"
      BY <1>13, PersistedEffect
    <2>. QED
      BY <1>1, <1>11, <2>1
  <1>14. CASE complete_login(p)
    <2>1. /\ AnswerTaken(p) /\ job'[p].pc \in {"idle", "access"} /\ job[p].then = "login"
          /\ Result(p) # "ok" => mem'[p] = mem[p]
      BY <1>14, LoginEffect
    <2>. QED
      BY <1>1, <1>11, <2>1 DEF Spare
  <1>15. CASE Crash(p)
    <2>1. (Knows(p) \cap live) \ {asStored} = {}
      BY <1>15, CrashEffect
    <2>2. t \in Knows(p)
      BY DEF Kept, Knows, Spare, Storing
    <2>3. asStored = t /\ t # None
      BY <1>0, <2>1, <2>2, NoneAssumption DEF GlobalType
    <2>. QED
      BY <2>3 DEF AnsweredInv, Holds, Data
  <1>16. CASE StoreStep(p) /\ UNCHANGED authVars
    <2>1. UNCHANGED <<job, mem, live>> /\ ~At(p, "done")
      BY <1>16 DEF authVars, StoreStep, PrepareStore, PublishToken, SettleStore, ReadBack,
                   restore_previous_token_state, At
    <2>2. ~Answer(p, {"ok"})' /\ ~Answer(p, {"stuck"})'
      <3>1. CASE PrepareStore(p)
        <4>1. /\ Doing(p, {"lock"})
              /\ \/ step'[p] = Answered("error")
                 \/ step'[p] = [step[p] EXCEPT !.at = "publish", !.had = target # None]
          BY <1>16, <3>1, PrepareEffect
        <4>2. step[p] \in CallType
          BY <1>0, <4>1, StepType DEF Doing, Undone, Busy
        <4>3. step'[p] = Answered("error") \/ step'[p].at # "done"
          BY <4>1, <4>2 DEF CallType
        <4>. QED
          BY <4>3 DEF Answer, At, Answered
      <3>2. CASE PublishToken(p)
        BY <1>16, <3>2, PublishEffect DEF Answer, At, Answered, Undone
      <3>3. CASE SettleStore(p) \/ ReadBack(p) \/ restore_previous_token_state(p)
        <4>1. Doing(p, Undone)
          BY <1>16, <3>3, SettleEffect, RestoreEffect
        <4>2. CASE Doing(p, Undone)'
          BY <4>2 DEF Doing, Undone, Answer, At
        <4>3. CASE ~Doing(p, Undone)'
          <5>1. FileRestored(p)
            BY <4>1, <4>3, FileCases DEF FileSame, FilePublished
          <5>. QED
            BY <5>1 DEF FileRestored, Answer
        <4>. QED
          BY <4>2, <4>3
      <3>. QED
        BY <1>16, <3>1, <3>2, <3>3 DEF StoreStep
    <2>3. Kept(p)' = Kept(p)
      BY <2>1, <2>2 DEF Kept, Storing, Spare, Answer
    <2>. QED
      BY <2>3
  <1>. QED
    BY <1>4, <1>5, <1>6, <1>7, <1>8, <1>9, <1>10, <1>12, <1>13, <1>14, <1>15, <1>16 DEF Acts, StoreStep

\* At the start, nobody has a token, and the one in the file is live.
LEMMA ConnectedInit == ASSUME Init PROVE OwnInv /\ ConnectedInv
  <1>1. \A p \in Procs : mem[p] = None /\ job[p].pc = "down" /\ step[p] = None
    BY DEF Init, StoreInit, NoJob
  <1>2. \A p \in Procs : Own(p) = {} /\ ~Answer(p, {"ok"})
    BY <1>1 DEF Own, Storing, Spare, Answer, At
  <1>3. lock = None /\ (target = None \/ target = PrivateFile(1)) /\ live = {1}
    BY DEF Init, StoreInit
  <1>4. Held = target
    BY <1>3 DEF Held
  <1>5. PrivateFile(1).data = 1
    BY DEF PrivateFile, File
  <1>6. Data(Held) = None \/ Data(Held) \in live
    BY <1>3, <1>4, <1>5 DEF Data
  <1>. QED
    BY <1>1, <1>2, <1>6 DEF OwnInv, ConnectedInv

\* A process that has no token and no environment gets one by a login.
LEMMA NothingActs ==
    ASSUME AuthInv, NEW p \in Procs, Acts(p), NoEnv, Data(Held) = None, mem[p] = None,
           ~Answer(p, {"ok"}), ~FileStored(p), ~FileLost(p)
    PROVE  mem'[p] = None /\ ~Answer(p, {"ok"})'
  <1>0. /\ LocalType /\ GlobalType /\ Local(p) /\ LockInv(p) /\ OriginInv(p)
        /\ LockInv(p)'
    BY ActsSound DEF AuthInv, Types, Local
  <1>1. HasCur(p) => Storing(p) /\ job[p].then = "login"
    BY <1>0 DEF OriginInv, Login, NoEnv
  <1>2. ASSUME job'[p].pc # "storing" PROVE ~Answer(p, {"ok"})'
    BY <1>0, <1>2 DEF LockInv, Storing, Answer, At
  <1>3. CASE Quiets(p)
    <2>1. Quiet(p)
      BY <1>3, QuietEffect
    <2>. QED
      BY <1>2, <2>1 DEF Quiet
  <1>4. CASE begin_login(p) \/ Callback(p) \/ StrayCallback(p)
    <2>1. UNCHANGED <<mem, step>>
      BY <1>4, ListenerEffect DEF Idles
    <2>. QED
      BY <2>1 DEF Answer, At
  <1>5. CASE load_refresh_token_state(p)
    <2>1. ~Found
      <3>1. lock = None => Held = target
        BY DEF Held
      <3>. QED
        BY <3>1, NoneAssumption DEF Found, Data
    <2>2. job'[p].pc = "idle" /\ mem'[p] = mem[p]
      BY <1>5, <2>1, LoadEffect DEF NoEnv
    <2>. QED
      BY <1>2, <2>2
  <1>6. CASE access_token(p)
    <2>1. mem' = mem /\ (job'[p].pc \in {"idle", "send", "exchange"} \/ Started(p))
      BY <1>6, AccessEffect
    <2>. QED
      BY <1>2, <2>1 DEF Started, Answer, At
  <1>7. CASE ExchangeCode(p)
    <2>1. mem' = mem /\ (job'[p].pc = "idle" \/ Started(p))
      BY <1>7, ExchangeCodeEffect
    <2>. QED
      BY <1>2, <2>1 DEF Started, Answer, At
  <1>8. ~Exchange(p) /\ ~Reload(p)
    <2>1. Exchange(p) => job[p].pc = "exchange"
      BY DEF Exchange
    <2>2. Reload(p) => job[p].pc = "reload"
      BY DEF Reload
    <2>. QED
      BY <1>1, <2>1, <2>2 DEF HasCur, Storing
  <1>9. ~Refreshed(p) /\ ~Persisted(p)
    <2>1. Refreshed(p) => job[p].then # "login" /\ Storing(p)
      BY RefreshedEffect DEF AnswerTaken
    <2>2. Persisted(p) => job[p].then # "login" /\ Storing(p)
      BY PersistedEffect DEF AnswerTaken
    <2>. QED
      BY <1>1, <2>1, <2>2 DEF HasCur, Storing
  <1>10. CASE complete_login(p)
    <2>1. /\ AnswerTaken(p) /\ job'[p].pc \in {"idle", "access"}
          /\ Result(p) # "ok" => mem'[p] = mem[p]
      BY <1>10, LoginEffect
    <2>2. Result(p) # "ok"
      BY <2>1 DEF AnswerTaken, Answer, Result
    <2>. QED
      BY <1>2, <2>1, <2>2
  <1>11. CASE Crash(p)
    BY <1>2, <1>11, CrashEffect
  <1>12. CASE StoreStep(p) /\ UNCHANGED authVars
    <2>1. UNCHANGED mem
      BY <1>12 DEF authVars
    <2>2. CASE PrepareStore(p) \/ PublishToken(p)
      <3>1. ~Doing(p, Undone) /\ ~At(p, "done")
        BY <2>2 DEF PrepareStore, PublishToken, At, Doing, Undone
      <3>2. step'[p] = Answered("error") \/ step'[p].at # "done"
        <4>1. CASE PrepareStore(p)
          <5>1. /\ Doing(p, {"lock"})
                /\ \/ step'[p] = Answered("error")
                   \/ step'[p] = [step[p] EXCEPT !.at = "publish", !.had = target # None]
            BY <1>12, <4>1, PrepareEffect
          <5>2. step[p] \in CallType
            BY <1>0, <5>1, StepType DEF Doing, Undone, Busy
          <5>. QED
            BY <5>1, <5>2 DEF CallType
        <4>2. CASE PublishToken(p)
          BY <1>12, <4>2, PublishEffect DEF Undone
        <4>. QED
          BY <2>2, <4>1, <4>2
      <3>. QED
        BY <2>1, <3>2 DEF Answer, At, Answered
    <2>3. CASE SettleStore(p) \/ ReadBack(p) \/ restore_previous_token_state(p)
      <3>1. Doing(p, Undone)
        BY <1>12, <2>3, SettleEffect, RestoreEffect
      <3>2. CASE Doing(p, Undone)'
        BY <2>1, <3>2 DEF Doing, Undone, Answer, At
      <3>3. CASE ~Doing(p, Undone)'
        <4>1. FileRestored(p)
          BY <3>1, <3>3, FileCases DEF FileSame, FilePublished
        <4>. QED
          BY <2>1, <4>1 DEF FileRestored, Answer
      <3>. QED
        BY <3>2, <3>3
    <2>. QED
      BY <1>12, <2>2, <2>3 DEF StoreStep
  <1>. QED
    BY <1>3, <1>4, <1>5, <1>6, <1>7, <1>8, <1>9, <1>10, <1>11, <1>12 DEF Acts, StoreStep

\* A token that is revoked has a successor that its process keeps, or the
\* answer with it was lost.
LEMMA RevokedActs ==
    ASSUME AuthInv, NEW p \in Procs, Acts(p), ~gone'
    PROVE  live \subseteq live' \/ Kept(p)' \cap live' # {}
  <1>1. CASE Exchange(p)
    <2>1. CASE UNCHANGED live
      BY <2>1
    <2>2. CASE Turns(job[p].cur) /\ gone' = (gone \/ job[p].cur \notin live')
      BY <2>2 DEF Turns
    <2>3. CASE Turns(job[p].cur) /\ Started(p) /\ job'[p].cur = minted + 1 /\ job'[p].then = "rotated"
      <3>1. job'[p].cur \in Kept(p)'
        BY <2>3 DEF Kept, Storing, Started, Answer, At
      <3>2. job'[p].cur \in live'
        BY <2>3 DEF Turns
      <3>. QED
        BY <3>1, <3>2
    <2>. QED
      BY <1>1, <2>1, <2>2, <2>3, ExchangeEffect
  <1>2. CASE ExchangeCode(p)
    BY <1>2, ExchangeCodeEffect
  <1>3. CASE Quiets(p)
    BY <1>3, QuietEffect DEF Quiet
  <1>4. CASE begin_login(p) \/ Callback(p) \/ StrayCallback(p)
    BY <1>4, ListenerEffect DEF Idles
  <1>5. CASE load_refresh_token_state(p) \/ access_token(p) \/ Reload(p) \/ Crash(p)
    BY <1>5, LoadEffect, AccessEffect, ReloadEffect, CrashEffect
  <1>6. CASE Refreshed(p) \/ Persisted(p) \/ complete_login(p)
    BY <1>6, RefreshedEffect, PersistedEffect, LoginEffect DEF AnswerTaken
  <1>7. CASE StoreStep(p) /\ UNCHANGED authVars
    BY <1>7 DEF authVars
  <1>. QED
    BY <1>1, <1>2, <1>3, <1>4, <1>5, <1>6, <1>7 DEF Acts, StoreStep

\* A process ends while its token is on its way to the file: the token is
\* gone.
LEMMA LostActs ==
    ASSUME AuthInv, NEW p \in Procs, Acts(p), FileLost(p), ~gone', job[p].cur \in live
    PROVE  Kept(p)' \cap live' # {}
  <1>1. Storing(p) /\ LockInv(p)' /\ GlobalType /\ Doing(p, Undone)
    BY ActsSound, OwnEnds DEF AuthInv, Local, Types, FileLost
  <1>2. CASE Crash(p)
    <2>1. /\ asStored' = None
          /\ asStored' = asStored
          /\ (Knows(p) \cap live) \ {asStored} = {}
      BY <1>1, <1>2, CrashEffect
    <2>2. job[p].cur \in Knows(p) /\ job[p].cur # None
      BY <1>1, NoneAssumption DEF Knows, Storing, GlobalType
    <2>. QED
      BY <2>1, <2>2
  <1>3. CASE restore_previous_token_state(p) /\ UNCHANGED authVars
    <2>1. job' = job /\ live' = live
      BY <1>3 DEF authVars
    <2>2. Answer(p, {"stuck"})'
      BY <1>1, <2>1 DEF FileLost, Storing
    <2>3. job'[p].cur \in Kept(p)'
      BY <1>1, <2>1, <2>2 DEF Kept, Storing, Answer
    <2>. QED
      BY <2>1, <2>3
  <1>4. CASE Answer(p, {"stuck"})' /\ UNCHANGED <<job, live>>
    <2>1. job'[p].cur \in Kept(p)'
      BY <1>1, <1>4 DEF Kept, Storing, Answer
    <2>. QED
      BY <1>4, <2>1
  <1>5. CASE StoreStep(p) /\ UNCHANGED authVars
    <2>1. UNCHANGED <<job, live>>
      BY <1>5 DEF authVars
    <2>2. Answer(p, {"stuck"})'
      BY <1>1, <2>1 DEF FileLost, Storing
    <2>. QED
      BY <1>4, <2>1, <2>2
  <1>6. ~Quiets(p) /\ ~load_refresh_token_state(p) /\ ~access_token(p) /\ ~Exchange(p) /\ ~ExchangeCode(p)
    <2>1. Quiets(p) => ~Storing(p)
      BY QuietEffect DEF Quiet, HasCur, Storing
    <2>. QED
      BY <1>1, <2>1, LoadEffect, AccessEffect, ExchangeEffect, ExchangeCodeEffect DEF Storing, HasCur
  <1>7. ~Reload(p) /\ ~Refreshed(p) /\ ~Persisted(p) /\ ~complete_login(p)
    BY <1>1, ReloadEffect, RefreshedEffect, PersistedEffect, LoginEffect
       DEF AnswerTaken, Doing, Undone, At
  <1>8. ~(begin_login(p) \/ Callback(p) \/ StrayCallback(p))
    BY <1>1, ListenerEffect DEF Idles, FileLost, Doing
  <1>. QED
    BY <1>2, <1>5, <1>6, <1>7, <1>8 DEF Acts, StoreStep

\* A live token stays in the file, or with a process that will not forget it.
LEMMA ConnectedActs ==
    ASSUME AuthInv, AnsweredInv, OwnInv, ConnectedInv, NEW p \in Procs, Acts(p)
    PROVE  ConnectedInv'
  <1>. SUFFICES ASSUME ~gone', NoEnv'
                PROVE  \/ /\ Data(Held)' = None
                          /\ \A q \in Procs : mem'[q] = None /\ ~Answer(q, {"ok"})'
                       \/ Data(Held)' \in live'
                       \/ \E q \in Procs : Kept(q)' \cap live' # {}
    BY DEF ConnectedInv
  <1>0. Frame(p) /\ NoEnv /\ ~gone
    BY ActsSound, FlowActs DEF Flow, NoEnv
  <1>1. \A q \in Procs \ {p} : /\ Kept(q)' = Kept(q) /\ mem'[q] = mem[q]
                               /\ Answer(q, {"ok"})' <=> Answer(q, {"ok"})
    BY <1>0 DEF Frame, Kept, Storing, Spare, Answer, At
  <1>2. CASE ~(live \subseteq live')
    BY <1>2, RevokedActs
  <1>3. CASE live \subseteq live'
    <2>1. CASE FileStored(p) \/ FileLost(p)
      <3>1. job[p].cur \in live
        BY <1>0, <2>1, OwnEnds DEF OwnInv
      <3>2. CASE FileStored(p)
        BY <1>3, <3>1, <3>2 DEF FileStored, Data
      <3>3. CASE FileLost(p)
        BY <3>1, <3>3, LostActs
      <3>. QED
        BY <2>1, <3>2, <3>3
    <2>2. CASE ~FileStored(p) /\ ~FileLost(p)
      <3>1. Data(Held)' = Data(Held)
        BY <2>2, HeldData
      <3>2. CASE Data(Held) = None /\ \A q \in Procs : mem[q] = None /\ ~Answer(q, {"ok"})
        BY <1>0, <1>1, <2>2, <3>1, <3>2, NothingActs
      <3>3. CASE Data(Held) \in live
        BY <1>3, <3>1, <3>3
      <3>4. ASSUME NEW q \in Procs, NEW t \in Kept(q), t \in live
            PROVE  Data(Held)' \in live' \/ \E r \in Procs : Kept(r)' \cap live' # {}
        <4>1. CASE q # p
          <5>1. t \in Kept(q)' /\ t \in live'
            BY <1>1, <1>3, <3>4, <4>1
          <5>. QED
            BY <5>1
        <4>2. CASE q = p
          <5>1. t \in Kept(p)' \/ t = Data(Held) \/ Kept(p)' \cap live' # {}
            BY <1>0, <1>3, <2>2, <3>4, <4>2, KeptActs
          <5>. QED
            BY <1>3, <3>1, <3>4, <5>1
        <4>. QED
          BY <4>1, <4>2
      <3>. QED
        BY <1>0, <3>2, <3>3, <3>4 DEF ConnectedInv
    <2>. QED
      BY <2>1, <2>2
  <1>. QED
    BY <1>2, <1>3

\* A process that has a token has a live one, knows where there is one, or
\* has it in the file.
LEMMA Connected == ASSUME AuthInv, OwnInv, ConnectedInv PROVE StillConnected
  <1>. SUFFICES ASSUME ~gone, \A p \in Procs : At(p, "done") => Result(p) # "stuck", NoEnv,
                       NEW p \in Procs, mem[p] # None
                PROVE  \/ Knows(p) \cap live # {}
                       \/ /\ IsStored(p)
                          /\ \/ target # None /\ target.data \in live
                             \/ \E q \in Procs : Knows(q) \cap live # {}
    BY DEF StillConnected, NoEnv
  <1>0. LocalType /\ GlobalType /\ \A q \in Procs : Local(q)
    BY DEF AuthInv, Types
  <1>1. \A q \in Procs : \A t \in Own(q) : t \in live
    BY DEF OwnInv
  <1>2. \A q \in Procs : Kept(q) \subseteq Knows(q) /\ Own(q) \subseteq Knows(q)
    BY DEF Kept, Own, Knows, Spare, Storing
  <1>3. ASSUME IsStored(p)
        PROVE  \/ target # None /\ target.data \in live
               \/ \E q \in Procs : Knows(q) \cap live # {}
    <2>1. \/ Data(Held) \in live
          \/ \E q \in Procs : Kept(q) \cap live # {}
      BY DEF ConnectedInv
    <2>2. CASE \E q \in Procs : Kept(q) \cap live # {}
      BY <1>2, <2>2
    <2>3. CASE Data(Held) \in live
      <3>1. CASE lock # None /\ Doing(lock, Undone)
        <4>1. lock \in Procs
          BY <1>0, <3>1 DEF GlobalType
        <4>2. Storing(lock) /\ ~Answer(lock, {"ok", "stuck"})
          BY <1>0, <3>1, <4>1 DEF Local, LockInv, Doing, Undone, Answer, At
        <4>3. job[lock].cur \in Own(lock)
          BY <4>2 DEF Own
        <4>. QED
          BY <1>1, <1>2, <4>1, <4>3
      <3>2. CASE ~(lock # None /\ Doing(lock, Undone))
        <4>1. Held = target
          BY <3>2 DEF Held
        <4>2. None \notin live
          BY <1>0, NoneAssumption DEF GlobalType
        <4>. QED
          BY <2>3, <4>1, <4>2 DEF Data
      <3>. QED
        BY <3>1, <3>2
    <2>. QED
      BY <2>1, <2>2, <2>3
  <1>4. CASE Own(p) # {}
    BY <1>1, <1>2, <1>4
  <1>5. CASE Own(p) = {}
    <2>1. IsStored(p)
      <3>1. CASE Storing(p)
        <4>1. Answer(p, {"ok", "stuck"})
          BY <1>5, <3>1 DEF Own
        <4>. QED
          BY <3>1, <4>1 DEF IsStored, Answer, Result, Storing
      <3>2. CASE ~Storing(p)
        <4>1. mem[p].origin # "Unpersisted"
          BY <1>5, <3>2 DEF Own, Spare
        <4>2. mem[p].origin # "Environment"
          BY <1>0 DEF Local, OriginInv, NoEnv
        <4>3. mem[p].origin \in Origins
          BY <1>0 DEF LocalType, TokenState
        <4>. QED
          BY <4>1, <4>2, <4>3 DEF IsStored, Origins
      <3>. QED
        BY <3>1, <3>2
    <2>. QED
      BY <1>3, <2>1
  <1>. QED
    BY <1>4, <1>5

\* What StillConnected needs to be kept by every step.
ConnectionInv == FileInv /\ OwnInv /\ ConnectedInv

\* Every step keeps it.
LEMMA ConnectionNext == ASSUME ConnectionInv, [Next]_vars PROVE ConnectionInv'
  <1>1. /\ AuthInv /\ AnsweredInv /\ IssuedInv /\ LoginInv /\ OwnInv /\ ConnectedInv
        /\ FileInv /\ FileInv'
    BY FileNext DEF ConnectionInv, FileInv
  <1>2. ASSUME NEW p \in Procs, Acts(p) PROVE ConnectionInv'
    BY <1>1, <1>2, OwnActs, ConnectedActs DEF ConnectionInv
  <1>3. CASE Disturb
    <2>1. gone' = TRUE
      BY <1>1, <1>3, DisturbEffect
    <2>. QED
      BY <1>1, <2>1 DEF ConnectionInv, OwnInv, ConnectedInv
  <1>4. CASE UNCHANGED vars
    <2>1. UNCHANGED <<target, lock, step, mem, job, env, live, gone>>
      BY <1>4 DEF vars, storeVars, authVars
    <2>2. Held' = Held
      BY <2>1 DEF Held, Doing
    <2>3. Data(Held)' = Data(Held) /\ Data(target)' = Data(target)
      BY <2>1, <2>2 DEF Data
    <2>4. \A p \in Procs : /\ Has(p)' = Has(p) /\ Own(p)' = Own(p) /\ Kept(p)' = Kept(p)
                           /\ Answer(p, {"ok"})' <=> Answer(p, {"ok"})
                           /\ Doing(p, Undone)' <=> Doing(p, Undone)
      BY <2>1 DEF Has, HasCur, Own, Kept, Storing, Spare, Answer, At, Doing
    <2>5. NoEnv' <=> NoEnv
      BY <2>1 DEF NoEnv
    <2>6. \A p \in Procs : \A t : Alone(p, t) => Alone(p, t)'
      BY <2>3, <2>4 DEF Alone
    <2>7. OwnInv'
      BY <1>1, <2>1, <2>4, <2>5, <2>6 DEF OwnInv
    <2>8. ConnectedInv'
      BY <1>1, <2>1, <2>3, <2>4, <2>5 DEF ConnectedInv
    <2>. QED
      BY <1>1, <2>7, <2>8 DEF ConnectionInv
  <1>. QED
    BY <1>2, <1>3, <1>4, NextActs

\* For any number of processes, commands and failures: where no process takes
\* its token from the environment, and as long as no answer of the service was
\* lost, no process ended that alone knew the token, no rollback failed and
\* nobody else changed the file, a process that has lost its refresh token to
\* a rotation by another one gets on without a login.
THEOREM ConnectionKept == Spec => []StillConnected
  <1>1. Init => ConnectionInv
    BY AuthInit, FileInit, IssuedInit, LoginInit, ConnectedInit DEF ConnectionInv, FileInv
  <1>2. ConnectionInv => StillConnected
    BY Connected DEF ConnectionInv, FileInv
  <1>. QED
    BY <1>1, <1>2, ConnectionNext, PTL DEF Spec
=============================================================================
