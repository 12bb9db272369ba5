----------------------------- MODULE ResidentIpc -----------------------------
(***************************************************************************)
(* One connection between the native messaging shim and the resident app   *)
(* (resident_ipc.rs, resident_ipc/windows.rs): the shim's set of pending   *)
(* request IDs, the pipe, the server's registry PendingRequests, and for   *)
(* each request a worker thread that executes it and a monitor thread that *)
(* answers it, with its deadline.  The threads meet in the compare-and-    *)
(* exchange on a request's phase.                                          *)
(*                                                                         *)
(* A request of Req is one use of its ID: IDs may be used again.  Frames   *)
(* carry IDs only; the request in a frame is the one that caused it.       *)
(***************************************************************************)
EXTENDS Naturals, Sequences, FiniteSets

CONSTANTS
    Req,     \* requests the browser sends over this connection
    Id,      \* request IDs
    IdOf,    \* [Req -> Id]
    NoReq,
    MaxCancels  \* bound on the cancel frames

ASSUME IpcAssumption ==
    IdOf \in [Req -> Id] /\ NoReq \notin Req /\ MaxCancels \in Nat

\* Error codes that reach the browser.  "refused" is an answer of the protocol
\* session itself (handshake, version, forbidden command).
NotRunKind == {"invalid_request", "duplicate_request", "refused",
               "request_cancelled", "request_timeout", "runtime_unavailable"}
ResultKind == {"response", "runtime_panic"}
UnsureKind == {"request_outcome_unknown", "native_port_disconnected"}
Kind == NotRunKind \cup ResultKind \cup UnsureKind

VARIABLES
    sent,       \* requests the browser handed to the shim
    answer,     \* [Req -> what the browser was told, or "none"]
    owner,      \* [Id -> request the shim has pending under it]
    asked,      \* cancel frames sent
    conn,       \* the pipe is open
    up,         \* frames from the shim to the server
    down,       \* frames from the server to the shim
    serving,    \* serve_connection runs
    busy,       \* the request serve_connection is dispatching
    registry,   \* [Id -> request registered under it]
    phase,      \* [Req -> REQUEST_PENDING, ...]
    cancelled,  \* requests whose cancellation token is set
    worker,     \* [Req -> state of the thread that executes it]
    monitor,    \* [Req -> state of the thread that answers it]
    claim,      \* [Req -> the answer the monitor has claimed the right to give]
    ran,        \* requests whose handler was called
    lost        \* requests whose answer did not fit in a frame

client == <<sent, answer, owner, asked>>
pipe == <<conn, up, down>>
server == <<serving, busy, registry>>
threads == <<phase, cancelled, worker, monitor, claim, ran, lost>>
vars == <<client, pipe, server, threads>>

UpFrame == [type : {"request"}, r : Req] \cup [type : {"cancel"}, id : Id]
DownFrame == [type : Kind, r : Req]

----------------------------------------------------------------------------
(* The shim. *)

Told(r, kind) == answer' = [answer EXCEPT ![r] = kind]

\* handle_browser_event for a message.
Forward(r) ==
    /\ conn /\ r \notin sent
    /\ sent' = sent \cup {r}
    /\ \/ \* native_request_metadata fails
          Told(r, "invalid_request") /\ UNCHANGED <<owner, up>>
       \/ /\ owner[IdOf[r]] # NoReq
          /\ Told(r, "duplicate_request") /\ UNCHANGED <<owner, up>>
       \/ /\ owner[IdOf[r]] = NoReq
          /\ owner' = [owner EXCEPT ![IdOf[r]] = r]
          /\ up' = Append(up, [type |-> "request", r |-> r])
          /\ UNCHANGED answer
    /\ UNCHANGED <<asked, conn, down, server, threads>>

\* The protocol's cancel frame, for which the shim has no caller.
SendCancel(i) ==
    /\ conn /\ asked < MaxCancels
    /\ asked' = asked + 1
    /\ up' = Append(up, [type |-> "cancel", id |-> i])
    /\ UNCHANGED <<sent, answer, owner, conn, down, server, threads>>

\* The pipe closes: what the shim has pending ends with native_port_disconnected.
Close ==
    /\ conn' = FALSE
    /\ answer' = [r \in Req |-> IF r \in sent /\ answer[r] = "none"
                                  THEN "native_port_disconnected" ELSE answer[r]]
    /\ owner' = [i \in Id |-> NoReq]
    /\ down' = <<>>
    /\ UNCHANGED <<sent, asked, up, server, threads>>

\* handle_server_frame: an ID that is not pending ends the connection.
Deliver ==
    /\ conn /\ down # <<>>
    /\ LET i == IdOf[Head(down).r]
       IN  IF owner[i] = NoReq THEN Close
           ELSE /\ Told(owner[i], Head(down).type)
                /\ owner' = [owner EXCEPT ![i] = NoReq]
                /\ down' = Tail(down)
                /\ UNCHANGED <<sent, asked, conn, up, server, threads>>

\* The browser closes the port or the shim ends.
Disconnect == conn /\ Close

----------------------------------------------------------------------------
(* serve_connection. *)

\* send_frame: nothing arrives when the other end is gone.
SendTo(r, kind) ==
    down' = IF conn THEN Append(down, [type |-> kind, r |-> r]) ELSE down

\* An answer of serve_connection itself: when the write fails it returns, and
\* cancels nothing.
Reply(r, kind) == SendTo(r, kind) /\ serving' = conn

\* Mutant: the entry stays when the response is claimed.
UnregisteredLate(r) == registry

\* remove_from_registry
Unregistered(r) ==
    IF registry[IdOf[r]] = r THEN [registry EXCEPT ![IdOf[r]] = NoReq] ELSE registry

CanReceive == serving /\ busy = NoReq /\ up # <<>>

\* A request frame up to register, or an answer at once.
ReceiveRequest ==
    /\ CanReceive /\ Head(up).type = "request"
    /\ up' = Tail(up)
    /\ LET r == Head(up).r
           i == IdOf[r]
       IN  \/ /\ \E kind \in {"invalid_request", "refused"} : Reply(r, kind)
              /\ UNCHANGED <<busy, registry, phase>>
           \/ IF registry[i] # NoReq
                THEN /\ Reply(r, "duplicate_request")
                     /\ UNCHANGED <<busy, registry, phase>>
                ELSE /\ registry' = [registry EXCEPT ![i] = r]
                     /\ phase' = [phase EXCEPT ![r] = "pending"]
                     /\ busy' = r
                     /\ UNCHANGED <<down, serving>>
    /\ UNCHANGED <<client, conn, cancelled, worker, monitor, claim, ran, lost>>

\* Mutant: cancel answers whatever the phase is.
CanCancelAlways(r) == TRUE

\* The compare_exchange of cancel succeeds.
CanCancel(r) == phase[r] = "pending"

\* PendingRequests::cancel
ReceiveCancel ==
    /\ CanReceive /\ Head(up).type = "cancel"
    /\ up' = Tail(up)
    /\ LET i == Head(up).id
           r == registry[i]
       IN  /\ cancelled' = IF r = NoReq THEN cancelled ELSE cancelled \cup {r}
           /\ IF r # NoReq /\ CanCancel(r)
                THEN /\ phase' = [phase EXCEPT ![r] = "responded"]
                     /\ registry' = [registry EXCEPT ![i] = NoReq]
                     /\ Reply(r, "request_cancelled")
                ELSE UNCHANGED <<phase, registry, down, serving>>
    /\ UNCHANGED <<client, conn, busy, worker, monitor, claim, ran, lost>>

\* A read error ends serve_connection and cancels every request (cancel_all).
StopServing ==
    /\ serving /\ busy = NoReq /\ ~conn
    /\ serving' = FALSE
    /\ LET open == {r \in Req : registry[IdOf[r]] = r}
       IN  /\ cancelled' = cancelled \cup open
           /\ phase' = [r \in Req |-> IF r \in open THEN "responded" ELSE phase[r]]
    /\ registry' = [i \in Id |-> NoReq]
    /\ UNCHANGED <<client, pipe, busy, worker, monitor, claim, ran, lost>>

----------------------------------------------------------------------------
(* dispatch_request and the two threads. *)

\* The worker thread starts, or the request is answered.
SpawnWorker(r) ==
    /\ busy = r /\ worker[r] = "none"
    /\ \/ /\ worker' = [worker EXCEPT ![r] = "spawned"]
          /\ UNCHANGED <<busy, registry, phase, down>>
       \/ /\ phase' = [phase EXCEPT ![r] = "responded"]
          /\ registry' = Unregistered(r)
          /\ SendTo(r, "runtime_unavailable")
          /\ busy' = NoReq
          /\ UNCHANGED worker
    /\ UNCHANGED <<client, conn, up, serving, cancelled, monitor, claim, ran, lost>>

\* begin_execution, then the handler.
BeginExecution(r) ==
    /\ worker[r] = "spawned"
    /\ IF phase[r] = "pending"
         THEN /\ phase' = [phase EXCEPT ![r] = "executing"]
              /\ worker' = [worker EXCEPT ![r] = "running"]
              /\ ran' = ran \cup {r}
         ELSE /\ worker' = [worker EXCEPT ![r] = "gone"]
              /\ UNCHANGED <<phase, ran>>
    /\ UNCHANGED <<client, pipe, server, cancelled, monitor, claim, lost>>

\* The handler returns, with a response that fits in a frame or not, or panics.
EndExecution(r) ==
    /\ worker[r] = "running"
    /\ \E w \in {"response", "large", "runtime_panic"} :
         worker' = [worker EXCEPT ![r] = w]
    /\ UNCHANGED <<client, pipe, server, phase, cancelled, monitor, claim, ran, lost>>

\* Mutant: the code of the phase is answered.
DeadlineKindRaw(r) == phase[r]

\* Mutant: whether the execution has started is not looked at.
DeadlineKindBlind(r) == "request_timeout"

\* request_deadline_error, of the phase that was exchanged.
DeadlineKind(r) ==
    IF phase[r] = "executing" THEN "request_outcome_unknown" ELSE "request_timeout"

\* claim_response, claim_deadline_response: the exchange of the phase.
Claim(r, kind) ==
    /\ phase[r] # "responded"
    /\ phase' = [phase EXCEPT ![r] = "responded"]
    /\ monitor' = [monitor EXCEPT ![r] = "claimed"]
    /\ claim' = [claim EXCEPT ![r] = kind]

\* The monitor thread starts, or serve_connection answers as at the deadline.
SpawnMonitor(r) ==
    /\ busy = r /\ worker[r] # "none" /\ monitor[r] = "none"
    /\ \/ /\ monitor' = [monitor EXCEPT ![r] = "watching"]
          /\ busy' = NoReq
          /\ UNCHANGED <<phase, cancelled, claim>>
       \/ /\ Claim(r, DeadlineKind(r))
          /\ cancelled' = cancelled \cup {r}
          /\ UNCHANGED busy
    /\ UNCHANGED <<client, pipe, serving, registry, worker, ran, lost>>

\* Mutant: only a request that was not started is given up at its deadline.
DeadlineUnstarted(r) ==
    /\ monitor[r] = "watching" /\ phase[r] = "pending" /\ Claim(r, DeadlineKind(r))
    /\ cancelled' = cancelled \cup {r}
    /\ UNCHANGED <<client, pipe, server, worker, ran, lost>>

\* The deadline passes while nobody has answered.
Deadline(r) ==
    /\ monitor[r] = "watching" /\ Claim(r, DeadlineKind(r))
    /\ cancelled' = cancelled \cup {r}
    /\ UNCHANGED <<client, pipe, server, worker, ran, lost>>

\* What the result channel of the worker brings.
ResultOf(r) == IF worker[r] = "gone" THEN "runtime_unavailable" ELSE worker[r]

TakeResult(r) ==
    /\ monitor[r] = "watching"
    /\ worker[r] \in {"response", "large", "runtime_panic", "gone"}
    /\ Claim(r, ResultOf(r))
    /\ UNCHANGED <<client, pipe, server, cancelled, worker, ran, lost>>

\* response_claimed: someone else answered.
Leave(r) ==
    /\ monitor[r] = "watching" /\ phase[r] = "responded"
    /\ monitor' = [monitor EXCEPT ![r] = "ended"]
    /\ UNCHANGED <<client, pipe, server, phase, cancelled, worker, claim, ran, lost>>

\* remove_from_registry, after the exchange and before the answer.
Unregister(r) ==
    /\ monitor[r] = "claimed"
    /\ registry' = Unregistered(r)
    /\ monitor' = [monitor EXCEPT ![r] = "sending"]
    /\ UNCHANGED <<client, pipe, serving, busy, phase, cancelled, worker, claim, ran, lost>>

\* The answer; one that does not fit in a frame is dropped (encode_frame).
Send(r) ==
    /\ monitor[r] = "sending"
    /\ IF claim[r] = "large" THEN lost' = lost \cup {r} /\ UNCHANGED down
                             ELSE SendTo(r, claim[r]) /\ UNCHANGED lost
    /\ monitor' = [monitor EXCEPT ![r] = "ended"]
    /\ busy' = IF busy = r THEN NoReq ELSE busy
    /\ UNCHANGED <<client, conn, up, serving, registry, phase, cancelled, worker, claim, ran>>

Init ==
    /\ sent = {} /\ answer = [r \in Req |-> "none"]
    /\ owner = [i \in Id |-> NoReq] /\ asked = 0
    /\ conn = TRUE /\ up = <<>> /\ down = <<>>
    /\ serving = TRUE /\ busy = NoReq /\ registry = [i \in Id |-> NoReq]
    /\ phase = [r \in Req |-> "none"] /\ cancelled = {}
    /\ worker = [r \in Req |-> "none"] /\ monitor = [r \in Req |-> "none"]
    /\ claim = [r \in Req |-> "none"]
    /\ ran = {} /\ lost = {}

Thread(r) ==
    \/ SpawnWorker(r) \/ SpawnMonitor(r) \/ Deadline(r) \/ TakeResult(r)
    \/ Leave(r) \/ Unregister(r) \/ Send(r)

Next ==
    \/ \E r \in Req : Forward(r) \/ BeginExecution(r) \/ EndExecution(r) \/ Thread(r)
    \/ \E i \in Id : SendCancel(i)
    \/ Deliver \/ Disconnect
    \/ ReceiveRequest \/ ReceiveCancel \/ StopServing

Spec == Init /\ [][Next]_vars

\* Threads that can run do, deadlines pass, and the shim and the server read
\* what they are sent; a handler need not return and the browser need not do
\* anything.
Fairness ==
    /\ WF_vars(Deliver) /\ WF_vars(ReceiveRequest) /\ WF_vars(ReceiveCancel)
    /\ \A r \in Req : /\ WF_vars(SpawnWorker(r)) /\ WF_vars(SpawnMonitor(r))
                      /\ WF_vars(Deadline(r)) /\ WF_vars(Unregister(r))
                      /\ WF_vars(Send(r))

FairSpec == Spec /\ Fairness

----------------------------------------------------------------------------
(* Properties. *)

TypeOK ==
    /\ sent \subseteq Req /\ answer \in [Req -> Kind \cup {"none"}]
    /\ owner \in [Id -> Req \cup {NoReq}] /\ asked \in 0 .. MaxCancels
    /\ conn \in BOOLEAN /\ up \in Seq(UpFrame) /\ down \in Seq(DownFrame)
    /\ serving \in BOOLEAN /\ busy \in Req \cup {NoReq}
    /\ registry \in [Id -> Req \cup {NoReq}]
    /\ phase \in [Req -> {"none", "pending", "executing", "responded"}]
    /\ cancelled \subseteq Req
    /\ worker \in [Req -> {"none", "spawned", "running", "gone", "response",
                           "large", "runtime_panic"}]
    /\ monitor \in [Req -> {"none", "watching", "claimed", "sending", "ended"}]
    /\ claim \in [Req -> Kind \cup {"none", "large"}]
    /\ ran \subseteq Req /\ lost \subseteq Req

\* Every frame the shim gets answers the request it has pending under that ID:
\* a request is never answered twice, no answer reaches a later request with
\* the same ID, and the shim never fails with "used an unknown request ID".
FramesAwaited ==
    \A k \in 1 .. Len(down) :
        /\ owner[IdOf[down[k].r]] = down[k].r
        /\ \A j \in 1 .. Len(down) : down[j].r = down[k].r => j = k

\* The server never takes a request of this shim for a duplicate: the registry
\* is cleared before the answer is sent, so an ID the shim may use again is
\* free.
NoFalseDuplicate ==
    \A k \in 1 .. Len(down) : down[k].type # "duplicate_request"

\* The browser learns the outcome: an answer that denies the execution means
\* that the handler was not called and never will be, a response that it was,
\* and a request is answered once.
Outcome == INSTANCE RequestOutcome WITH
    NotRun <- NotRunKind, Result <- ResultKind, Unsure <- UnsureKind

ImplementsOutcome == Outcome!Spec

\* Every request is answered although its handler may hang: the deadline of
\* the monitor, or the end of the connection.  The exception is a response
\* larger than a frame, which send_runtime_response drops.
RequestsSettle ==
    \A r \in Req : (r \in sent) ~> (answer[r] # "none" \/ r \in lost)
=============================================================================
