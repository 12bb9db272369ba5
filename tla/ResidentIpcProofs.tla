------------------------- MODULE ResidentIpcProofs -------------------------
(***************************************************************************)
(* Proofs about ResidentIpc for every set of requests and IDs and every    *)
(* number of cancel frames.                                                *)
(***************************************************************************)
EXTENDS ResidentIpc, TLAPS

-----------------------------------------------------------------------------
(* The inductive invariant. *)

Open(r) == answer[r] \in {"none", "native_port_disconnected"}

\* The shim waits for r, unless the connection is gone.
Awaited(r) == conn => owner[IdOf[r]] = r

Answering(r) == monitor[r] \in {"claimed", "sending"}

\* An answer that tells the truth about the execution.
Honest(r, kind) ==
    /\ kind \in NotRunKind => r \notin ran
    /\ kind \in ResultKind => r \in ran

Queued(r) == \E k \in 1 .. Len(up) : up[k] = [type |-> "request", r |-> r]

ClientInv ==
    /\ \A i \in Id : owner[i] # NoReq =>
          IdOf[owner[i]] = i /\ owner[i] \in sent /\ answer[owner[i]] = "none"
    /\ \A r \in Req : r \notin sent => answer[r] = "none" /\ phase[r] = "none"
    /\ ~conn => down = <<>> /\ \A i \in Id : owner[i] = NoReq

\* A request on its way is not known to the server and is there once.
UpInv ==
    /\ \A r \in Req : Queued(r) =>
          r \in sent /\ Open(r) /\ Awaited(r) /\ phase[r] = "none"
    /\ \A j, k \in 1 .. Len(up) :
          up[j].type = "request" /\ up[j] = up[k] => j = k

RegistryInv ==
    \A i \in Id : registry[i] # NoReq =>
        /\ IdOf[registry[i]] = i
        /\ phase[registry[i]] # "none"
        /\ conn => owner[i] = registry[i]

PhaseInv ==
    \A r \in Req :
        /\ phase[r] \in {"pending", "executing"} => Open(r) /\ Awaited(r)
        /\ phase[r] = "none" => worker[r] = "none" /\ monitor[r] = "none"
        /\ phase[r] = "executing" => r \in ran
        /\ r \in ran => phase[r] \in {"executing", "responded"}
        /\ worker[r] \in {"running", "response", "large", "runtime_panic"} => r \in ran
        /\ worker[r] = "spawned" => phase[r] \in {"pending", "responded"}
        /\ worker[r] = "gone" => phase[r] = "responded"
        /\ busy = r /\ monitor[r] = "none" => phase[r] \in {"pending", "executing"}
        /\ busy = r /\ worker[r] = "none" => phase[r] = "pending" /\ monitor[r] = "none"

\* The one who claimed the answer is the only one to give it.
MonitorInv ==
    \A r \in Req : Answering(r) =>
        /\ phase[r] = "responded" /\ Awaited(r) /\ Open(r)
        /\ claim[r] \notin {"none", "duplicate_request"} /\ Honest(r, claim[r])
        /\ monitor[r] = "sending" => registry[IdOf[r]] # r

\* A frame on its way to the shim is the last that anyone does for r.
Final(r, kind) ==
    /\ owner[IdOf[r]] = r
    /\ phase[r] \in {"none", "responded"}
    /\ ~Queued(r) /\ ~Answering(r)
    /\ registry[IdOf[r]] # r
    /\ Honest(r, kind)
    /\ kind # "duplicate_request"

DownInv == \A k \in 1 .. Len(down) : Final(down[k].r, down[k].type)

OnceInv ==
    \A j, k \in 1 .. Len(down) : down[j].r = down[k].r => j = k

IInv == TypeOK /\ ClientInv /\ UpInv /\ RegistryInv /\ PhaseInv /\ MonitorInv
            /\ DownInv /\ OnceInv

-----------------------------------------------------------------------------
(* Lemmas about the queues. *)

\* send_frame adds one frame behind the others, or none.
LEMMA SendToEffect ==
    ASSUME TypeOK, NEW r \in Req, NEW kind \in Kind, SendTo(r, kind)
    PROVE  /\ down' \in Seq(DownFrame)
           /\ ~conn => down' = down
           /\ conn => /\ Len(down') = Len(down) + 1
                      /\ \A k \in 1 .. Len(down) : down'[k] = down[k]
                      /\ down'[Len(down) + 1] = [type |-> kind, r |-> r]
  <1>1. [type |-> kind, r |-> r] \in DownFrame
    BY DEF DownFrame
  <1>2. down \in Seq(DownFrame)
    BY DEF TypeOK
  <1>. QED
    BY <1>1, <1>2 DEF SendTo

\* What the frames to the shim are made of.
LEMMA DownTyped ==
    ASSUME TypeOK
    PROVE  /\ Len(down) \in Nat
           /\ \A k \in 1 .. Len(down) : down[k].r \in Req /\ down[k].type \in Kind
  <1>1. down \in Seq(DownFrame)
    BY DEF TypeOK
  <1>2. Len(down) \in Nat /\ \A k \in 1 .. Len(down) : down[k] \in DownFrame
    BY <1>1
  <1>. QED
    BY <1>2 DEF DownFrame

\* try_read_frame takes the first frame and leaves the others.
LEMMA ReceiveEffect ==
    ASSUME TypeOK, UpInv, CanReceive, up' = Tail(up)
    PROVE  /\ up' \in Seq(UpFrame)
           /\ Head(up) \in UpFrame
           /\ \A q \in Req : Queued(q)' => Queued(q)
           /\ \A q \in Req : Head(up) = [type |-> "request", r |-> q]
                                => Queued(q) /\ ~Queued(q)'
           /\ \A j, k \in 1 .. Len(up') :
                 up'[j].type = "request" /\ up'[j] = up'[k] => j = k
  <1>1. up \in Seq(UpFrame) /\ up # <<>>
    BY DEF TypeOK, CanReceive
  <1>2. /\ Len(up) \in Nat /\ Len(up) >= 1
        /\ Len(up') = Len(up) - 1
        /\ \A k \in 1 .. Len(up') : up'[k] = up[k + 1]
        /\ Head(up) = up[1]
    BY <1>1
  <1>3. up' \in Seq(UpFrame) /\ Head(up) \in UpFrame
    BY <1>1
  <1>4. \A j, k \in 1 .. Len(up') :
            up'[j].type = "request" /\ up'[j] = up'[k] => j = k
    BY <1>2 DEF UpInv
  <1>5. ASSUME NEW q \in Req, Queued(q)'
        PROVE  Queued(q) /\ Head(up) # [type |-> "request", r |-> q]
    <2>1. PICK k \in 1 .. Len(up') : up'[k] = [type |-> "request", r |-> q]
      BY <1>5 DEF Queued
    <2>2. k + 1 \in 1 .. Len(up) /\ up[k + 1] = [type |-> "request", r |-> q]
      BY <1>2, <2>1
    <2>. QED
      BY <1>2, <2>2 DEF UpInv, Queued
  <1>6. ASSUME NEW q \in Req, Head(up) = [type |-> "request", r |-> q]
        PROVE  Queued(q)
    BY <1>2, <1>6 DEF Queued
  <1>. QED
    BY <1>3, <1>4, <1>5, <1>6

\* A cancel frame on its way changes nothing of the requests.
LEMMA SendCancelInv ==
    ASSUME IInv, NEW i \in Id, SendCancel(i)
    PROVE  IInv'
  <1>1. TypeOK'
    BY IpcAssumption DEF IInv, TypeOK, SendCancel, server, threads, UpFrame
  <1>2. ClientInv'
    BY DEF IInv, ClientInv, SendCancel, threads
  <1>3. UpInv'
    BY DEF IInv, UpInv, Queued, Open, Awaited, SendCancel, threads
  <1>4. RegistryInv'
    BY DEF IInv, RegistryInv, SendCancel, server, threads
  <1>5. PhaseInv'
    BY DEF IInv, PhaseInv, Open, Awaited, SendCancel, server, threads
  <1>6. MonitorInv'
    BY DEF IInv, MonitorInv, Open, Awaited, Answering, Honest, SendCancel, server,
           threads
  <1>7. DownInv'
    BY DEF IInv, DownInv, Final, Queued, Answering, Honest, SendCancel, server, threads
  <1>8. OnceInv'
    BY DEF IInv, OnceInv, SendCancel
  <1>. QED
    BY <1>1, <1>2, <1>3, <1>4, <1>5, <1>6, <1>7, <1>8 DEF IInv

\* The server loop ends: cancel_all claims every answer that nobody has claimed
\* and empties the registry.
LEMMA StopServingInv ==
    ASSUME IInv, StopServing
    PROVE  IInv'
  <1>1. TypeOK'
    BY DEF IInv, TypeOK, StopServing, client, pipe
  <1>2. ClientInv'
    BY IpcAssumption DEF IInv, ClientInv, RegistryInv, StopServing, client, pipe
  <1>3. UpInv'
    BY IpcAssumption
    DEF IInv, UpInv, Queued, Open, Awaited, RegistryInv, StopServing, client, pipe
  <1>4. RegistryInv'
    BY DEF IInv, RegistryInv, StopServing
  <1>5. PhaseInv'
    BY IpcAssumption DEF IInv, PhaseInv, Open, Awaited, StopServing, client, pipe
  <1>6. MonitorInv'
    BY IpcAssumption
    DEF IInv, MonitorInv, Open, Awaited, Answering, Honest, StopServing, client, pipe
  <1>7. DownInv'
    BY DEF IInv, ClientInv, DownInv, StopServing, pipe
  <1>8. OnceInv'
    BY DEF IInv, OnceInv, StopServing, pipe
  <1>. QED
    BY <1>1, <1>2, <1>3, <1>4, <1>5, <1>6, <1>7, <1>8 DEF IInv

\* The monitor starts, or the loop claims the answer in its place.
LEMMA SpawnMonitorInv ==
    ASSUME IInv, NEW r \in Req, SpawnMonitor(r)
    PROVE  IInv'
  <1>1. TypeOK'
    BY DEF IInv, TypeOK, SpawnMonitor, Claim, DeadlineKind, client, pipe, Kind,
           NotRunKind, UnsureKind
  <1>2. ClientInv'
    BY DEF IInv, TypeOK, ClientInv, PhaseInv, SpawnMonitor, Claim, client, pipe
  <1>3. UpInv'
    BY DEF IInv, TypeOK, UpInv, PhaseInv, DownInv, Queued, Open, Awaited, SpawnMonitor,
           Claim, client, pipe
  <1>4. RegistryInv'
    BY DEF IInv, TypeOK, RegistryInv, SpawnMonitor, Claim, client, pipe
  <1>5. PhaseInv'
    BY IpcAssumption
    DEF IInv, TypeOK, PhaseInv, Open, Awaited, SpawnMonitor, Claim, client, pipe
  <1>6. MonitorInv'
    BY DEF IInv, TypeOK, PhaseInv, MonitorInv, Open, Awaited, Answering, Honest,
           SpawnMonitor, Claim, DeadlineKind, client, pipe, NotRunKind, ResultKind
  <1>7. DownInv'
    <2>1. \A k \in 1 .. Len(down) : down[k].r # r
      BY DEF IInv, PhaseInv, DownInv, Final, SpawnMonitor
    <2>. QED
      BY <2>1, DownTyped
      DEF IInv, TypeOK, DownInv, Final, Queued, Answering, Honest, SpawnMonitor, Claim,
          client, pipe
  <1>8. OnceInv'
    BY DEF IInv, OnceInv, SpawnMonitor, pipe
  <1>. QED
    BY <1>1, <1>2, <1>3, <1>4, <1>5, <1>6, <1>7, <1>8 DEF IInv

\* The deadline exchanges the phase and answers according to it.
LEMMA DeadlineInv ==
    ASSUME IInv, NEW r \in Req, Deadline(r)
    PROVE  IInv'
  <1>1. TypeOK'
    BY DEF IInv, TypeOK, Deadline, Claim, DeadlineKind, client, pipe, server, Kind,
           NotRunKind, UnsureKind
  <1>2. ClientInv'
    BY DEF IInv, ClientInv, PhaseInv, Deadline, Claim, client, pipe
  <1>3. UpInv'
    BY DEF IInv, UpInv, PhaseInv, Queued, Open, Awaited, Deadline, Claim, client, pipe
  <1>4. RegistryInv'
    BY DEF IInv, RegistryInv, Deadline, Claim, client, pipe, server
  <1>5. PhaseInv'
    BY DEF IInv, PhaseInv, Open, Awaited, Deadline, Claim, client, pipe, server
  <1>6. MonitorInv'
    BY DEF IInv, TypeOK, PhaseInv, MonitorInv, Open, Awaited, Answering, Honest,
           Deadline, Claim, DeadlineKind, client, pipe, server, NotRunKind, ResultKind
  <1>7. DownInv'
    BY DEF IInv, PhaseInv, DownInv, Final, Queued, Answering, Honest, Deadline, Claim,
           client, pipe, server
  <1>8. OnceInv'
    BY DEF IInv, OnceInv, Deadline, pipe
  <1>. QED
    BY <1>1, <1>2, <1>3, <1>4, <1>5, <1>6, <1>7, <1>8 DEF IInv

\* The result of the worker exchanges the phase.
LEMMA TakeResultInv ==
    ASSUME IInv, NEW r \in Req, TakeResult(r)
    PROVE  IInv'
  <1>1. TypeOK'
    BY DEF IInv, TypeOK, TakeResult, Claim, ResultOf, client, pipe, server, Kind,
           NotRunKind, ResultKind
  <1>2. ClientInv'
    BY DEF IInv, ClientInv, PhaseInv, TakeResult, Claim, client, pipe
  <1>3. UpInv'
    BY DEF IInv, UpInv, PhaseInv, Queued, Open, Awaited, TakeResult, Claim, client, pipe
  <1>4. RegistryInv'
    BY DEF IInv, RegistryInv, TakeResult, Claim, client, pipe, server
  <1>5. PhaseInv'
    BY DEF IInv, PhaseInv, Open, Awaited, TakeResult, Claim, client, pipe, server
  <1>6. MonitorInv'
    BY DEF IInv, TypeOK, PhaseInv, MonitorInv, Open, Awaited, Answering, Honest,
           TakeResult, Claim, ResultOf, client, pipe, server, NotRunKind
  <1>7. DownInv'
    BY DEF IInv, PhaseInv, DownInv, Final, Queued, Answering, Honest, TakeResult, Claim,
           client, pipe, server, NotRunKind
  <1>8. OnceInv'
    BY DEF IInv, OnceInv, TakeResult, pipe
  <1>. QED
    BY <1>1, <1>2, <1>3, <1>4, <1>5, <1>6, <1>7, <1>8 DEF IInv

\* A monitor that finds the phase exchanged does nothing.
LEMMA LeaveInv ==
    ASSUME IInv, NEW r \in Req, Leave(r)
    PROVE  IInv'
  <1>1. TypeOK'
    BY DEF IInv, TypeOK, Leave, client, pipe, server
  <1>2. ClientInv'
    BY DEF IInv, ClientInv, Leave, client, pipe
  <1>3. UpInv'
    BY DEF IInv, UpInv, Queued, Open, Awaited, Leave, client, pipe
  <1>4. RegistryInv'
    BY DEF IInv, RegistryInv, Leave, client, pipe, server
  <1>5. PhaseInv'
    BY DEF IInv, PhaseInv, Open, Awaited, Leave, client, pipe, server
  <1>6. MonitorInv'
    BY DEF IInv, MonitorInv, Open, Awaited, Answering, Honest, Leave, client, pipe,
           server
  <1>7. DownInv'
    BY DEF IInv, DownInv, Final, Queued, Answering, Honest, Leave, client, pipe, server
  <1>8. OnceInv'
    BY DEF IInv, OnceInv, Leave, pipe
  <1>. QED
    BY <1>1, <1>2, <1>3, <1>4, <1>5, <1>6, <1>7, <1>8 DEF IInv

\* remove_from_registry removes the entry of this request only.
LEMMA UnregisterInv ==
    ASSUME IInv, NEW r \in Req, Unregister(r)
    PROVE  IInv'
  <1>1. TypeOK'
    BY DEF IInv, TypeOK, Unregister, Unregistered, client, pipe
  <1>2. ClientInv'
    BY DEF IInv, ClientInv, Unregister, client, pipe
  <1>3. UpInv'
    BY DEF IInv, UpInv, Queued, Open, Awaited, Unregister, client, pipe
  <1>4. RegistryInv'
    BY DEF IInv, RegistryInv, Unregister, Unregistered, client, pipe
  <1>5. PhaseInv'
    BY DEF IInv, PhaseInv, Open, Awaited, Unregister, client, pipe
  <1>6. MonitorInv'
    <2>1. registry'[IdOf[r]] # r
      BY IpcAssumption DEF IInv, TypeOK, Unregister, Unregistered
    <2>2. ASSUME NEW p \in Req, p # r, registry'[IdOf[p]] = p
          PROVE  registry[IdOf[p]] = p
      BY <2>2, IpcAssumption DEF IInv, Unregister, Unregistered
    <2>. QED
      BY <2>1, <2>2
      DEF IInv, MonitorInv, Answering, Awaited, Open, Honest, Unregister, client, pipe
  <1>7. DownInv'
    BY DEF IInv, ClientInv, MonitorInv, DownInv, Final, Queued, Awaited, Answering,
           Honest, Unregister, Unregistered, client, pipe
  <1>8. OnceInv'
    BY DEF IInv, OnceInv, Unregister, pipe
  <1>. QED
    BY <1>1, <1>2, <1>3, <1>4, <1>5, <1>6, <1>7, <1>8 DEF IInv

\* The handler returns or panics.
LEMMA EndExecutionInv ==
    ASSUME IInv, NEW r \in Req, EndExecution(r)
    PROVE  IInv'
  <1>1. TypeOK'
    BY DEF IInv, TypeOK, EndExecution, client, pipe, server
  <1>2. ClientInv'
    BY DEF IInv, ClientInv, EndExecution, client, pipe
  <1>3. UpInv'
    BY DEF IInv, UpInv, Queued, Open, Awaited, EndExecution, client, pipe
  <1>4. RegistryInv'
    BY DEF IInv, RegistryInv, EndExecution, client, pipe, server
  <1>5. PhaseInv'
    BY DEF IInv, PhaseInv, Open, Awaited, EndExecution, client, pipe, server
  <1>6. MonitorInv'
    BY DEF IInv, MonitorInv, Open, Awaited, Answering, Honest, EndExecution, client,
           pipe, server
  <1>7. DownInv'
    BY DEF IInv, DownInv, Final, Queued, Answering, Honest, EndExecution, client, pipe,
           server
  <1>8. OnceInv'
    BY DEF IInv, OnceInv, EndExecution, pipe
  <1>. QED
    BY <1>1, <1>2, <1>3, <1>4, <1>5, <1>6, <1>7, <1>8 DEF IInv

\* begin_execution starts the handler only of a request that nobody answered.
LEMMA BeginExecutionInv ==
    ASSUME IInv, NEW r \in Req, BeginExecution(r)
    PROVE  IInv'
  <1>1. TypeOK'
    BY IpcAssumption
    DEF IInv, TypeOK, BeginExecution, client, pipe, server, Kind, NotRunKind, UnsureKind
  <1>2. ClientInv'
    BY DEF IInv, TypeOK, ClientInv, BeginExecution, client, pipe
  <1>3. UpInv'
    BY DEF IInv, TypeOK, UpInv, Queued, Open, Awaited, BeginExecution, client, pipe,
           DownFrame
  <1>4. RegistryInv'
    BY DEF IInv, TypeOK, RegistryInv, BeginExecution, client, pipe, server
  <1>5. PhaseInv'
    BY DEF IInv, TypeOK, PhaseInv, Open, Awaited, BeginExecution, client, pipe, server
  <1>6. MonitorInv'
    BY DEF IInv, TypeOK, MonitorInv, Open, Awaited, Answering, Honest, BeginExecution,
           client, pipe, server
  <1>7. DownInv'
    <2>1. CASE phase[r] = "pending"
      <3>1. \A k \in 1 .. Len(down) : down[k].r # r
        BY <2>1 DEF IInv, DownInv, Final
      <3>. QED
        BY <2>1, <3>1, DownTyped
        DEF IInv, TypeOK, DownInv, Final, Queued, Answering, Honest, BeginExecution,
            client, pipe, server
    <2>2. CASE phase[r] # "pending"
      BY <2>2
      DEF IInv, DownInv, Final, Queued, Answering, Honest, BeginExecution, client, pipe,
          server
    <2>. QED
      BY <2>1, <2>2
  <1>8. OnceInv'
    BY DEF IInv, OnceInv, BeginExecution, pipe
  <1>. QED
    BY <1>1, <1>2, <1>3, <1>4, <1>5, <1>6, <1>7, <1>8 DEF IInv

\* A request that reaches the server is registered, or is refused at once.
LEMMA ReceiveRequestInv ==
    ASSUME IInv, ReceiveRequest
    PROVE  IInv'
  <1>1. PICK q \in Req : Head(up) = [type |-> "request", r |-> q]
    BY ReceiveEffect DEF IInv, ReceiveRequest, UpFrame
  <1>2. Queued(q) /\ ~Queued(q)' /\ \A p \in Req : Queued(p)' => Queued(p)
    BY <1>1, ReceiveEffect DEF IInv, ReceiveRequest
  <1>3. q \in sent /\ Open(q) /\ Awaited(q) /\ phase[q] = "none"
        /\ worker[q] = "none" /\ monitor[q] = "none" /\ q \notin ran
    BY <1>1, <1>2 DEF IInv, UpInv, PhaseInv
  <1>4. conn => registry[IdOf[q]] = NoReq
    BY <1>1, <1>3, IpcAssumption DEF IInv, TypeOK, RegistryInv, Awaited
  <1>5. \A k \in 1 .. Len(down) : down[k].r # q
    BY <1>2 DEF IInv, DownInv, Final
  <1>6. \A j, k \in 1 .. Len(up') :
            up'[j].type = "request" /\ up'[j] = up'[k] => j = k
    BY ReceiveEffect DEF IInv, ReceiveRequest
  <1>7. UNCHANGED <<client, conn, cancelled, worker, monitor, claim, ran, lost>>
    BY DEF ReceiveRequest
  <1>8. CASE /\ \E kind \in {"invalid_request", "refused", "duplicate_request"} :
                   Reply(q, kind) /\ (kind = "duplicate_request" => ~conn)
             /\ UNCHANGED <<busy, registry, phase>>
    <2>1. PICK kind \in {"invalid_request", "refused", "duplicate_request"} :
             Reply(q, kind) /\ (kind = "duplicate_request" => ~conn)
      BY <1>8
    <2>2. kind \in Kind /\ Honest(q, kind)
      BY <1>3, <2>1 DEF Honest, Kind, NotRunKind, ResultKind
    <2>3. /\ down' \in Seq(DownFrame)
          /\ ~conn => down' = down
          /\ conn => /\ Len(down') = Len(down) + 1
                     /\ \A k \in 1 .. Len(down) : down'[k] = down[k]
                     /\ down'[Len(down) + 1] = [type |-> kind, r |-> q]
      BY <2>1, <2>2, SendToEffect DEF IInv, Reply
    <2>4. TypeOK'
      BY <1>7, <1>8, <2>1, <2>3, ReceiveEffect
      DEF IInv, TypeOK, ReceiveRequest, Reply, client
    <2>5. ClientInv' /\ RegistryInv' /\ MonitorInv' /\ PhaseInv'
      BY <1>7, <1>8, <2>3
      DEF IInv, ClientInv, RegistryInv, MonitorInv, PhaseInv, Answering, Awaited, Open,
          Honest, client
    <2>6. UpInv'
      BY <1>2, <1>6, <1>7, <1>8 DEF IInv, UpInv, Open, Awaited, client
    <2>7. DownInv'
      <3>1. CASE conn
        <4>1. /\ owner[IdOf[q]] = q /\ registry[IdOf[q]] # q
              /\ kind # "duplicate_request"
          BY <1>3, <1>4, <2>1, <3>1, IpcAssumption DEF Awaited
        <4>. QED
          BY <1>2, <1>3, <1>7, <1>8, <2>2, <2>3, <3>1, <4>1, DownTyped
          DEF IInv, DownInv, Final, Answering, Honest, client
      <3>2. CASE ~conn
        BY <1>2, <1>7, <1>8, <2>3, <3>2
        DEF IInv, DownInv, Final, ClientInv, Answering, Honest, client
      <3>. QED
        BY <3>1, <3>2
    <2>8. OnceInv'
      <3>1. CASE conn
        BY <1>5, <2>3, <3>1, DownTyped DEF IInv, OnceInv
      <3>2. CASE ~conn
        BY <2>3, <3>2 DEF IInv, OnceInv
      <3>. QED
        BY <3>1, <3>2
    <2>. QED
      BY <2>4, <2>5, <2>6, <2>7, <2>8 DEF IInv
  <1>9. CASE /\ registry[IdOf[q]] = NoReq
             /\ registry' = [registry EXCEPT ![IdOf[q]] = q]
             /\ phase' = [phase EXCEPT ![q] = "pending"]
             /\ busy' = q
             /\ UNCHANGED <<down, serving>>
    <2>1. TypeOK'
      BY <1>7, <1>9, ReceiveEffect DEF IInv, TypeOK, ReceiveRequest, client
    <2>2. ClientInv' /\ RegistryInv' /\ PhaseInv'
      BY <1>3, <1>7, <1>9, IpcAssumption
      DEF IInv, TypeOK, ClientInv, RegistryInv, PhaseInv, Awaited, Open, client
    <2>3. MonitorInv'
      BY <1>3, <1>7, <1>9, IpcAssumption
      DEF IInv, TypeOK, MonitorInv, Answering, Awaited, Open, Honest, client
    <2>4. UpInv'
      BY <1>2, <1>6, <1>7, <1>9 DEF IInv, TypeOK, UpInv, Open, Awaited, client
    <2>5. DownInv' /\ OnceInv'
      BY <1>2, <1>5, <1>7, <1>9, IpcAssumption, DownTyped
      DEF IInv, TypeOK, DownInv, Final, OnceInv, Answering, Honest, client
    <2>. QED
      BY <2>1, <2>2, <2>3, <2>4, <2>5 DEF IInv
  <1>. QED
    BY <1>1, <1>4, <1>8, <1>9 DEF ReceiveRequest

\* A cancel frame claims the answer of a request that has not begun.
LEMMA ReceiveCancelInv ==
    ASSUME IInv, ReceiveCancel
    PROVE  IInv'
  <1>1. PICK i \in Id : Head(up) = [type |-> "cancel", id |-> i]
    BY ReceiveEffect DEF IInv, ReceiveCancel, UpFrame
  <1>2. \A p \in Req : Queued(p)' => Queued(p)
    BY ReceiveEffect DEF IInv, ReceiveCancel
  <1>3. \A j, k \in 1 .. Len(up') :
            up'[j].type = "request" /\ up'[j] = up'[k] => j = k
    BY ReceiveEffect DEF IInv, ReceiveCancel
  <1>4. up' \in Seq(UpFrame)
    BY ReceiveEffect DEF IInv, ReceiveCancel
  <1>5. UNCHANGED <<client, conn, busy, worker, monitor, claim, ran, lost>>
    BY DEF ReceiveCancel
  <1>6. cancelled' \subseteq Req
    BY <1>1, IpcAssumption DEF IInv, TypeOK, ReceiveCancel
  <1>7. CASE UNCHANGED <<phase, registry, down, serving>>
    <2>1. TypeOK'
      BY <1>4, <1>5, <1>6, <1>7 DEF IInv, TypeOK, client
    <2>2. ClientInv' /\ RegistryInv' /\ PhaseInv' /\ MonitorInv' /\ DownInv' /\ OnceInv'
      BY <1>2, <1>5, <1>7, DownTyped
      DEF IInv, ClientInv, RegistryInv, PhaseInv, MonitorInv, DownInv, Final, OnceInv,
          Answering, Awaited, Open, Honest, client
    <2>3. UpInv'
      BY <1>2, <1>3, <1>5, <1>7 DEF IInv, UpInv, Awaited, Open, client
    <2>. QED
      BY <2>1, <2>2, <2>3 DEF IInv
  <1>8. ASSUME NEW q \in Req, registry[i] = q, phase[q] = "pending",
               phase' = [phase EXCEPT ![q] = "responded"],
               registry' = [registry EXCEPT ![i] = NoReq],
               Reply(q, "request_cancelled")
        PROVE  IInv'
    <2>1. /\ IdOf[q] = i /\ q \notin ran /\ Awaited(q) /\ ~Queued(q) /\ ~Answering(q)
          /\ busy # q \/ monitor[q] # "none"
      BY <1>8, <1>5, IpcAssumption
      DEF IInv, RegistryInv, PhaseInv, UpInv, MonitorInv, ReceiveCancel, CanReceive
    <2>2. /\ down' \in Seq(DownFrame)
          /\ ~conn => down' = down
          /\ conn => /\ Len(down') = Len(down) + 1
                     /\ \A k \in 1 .. Len(down) : down'[k] = down[k]
                     /\ down'[Len(down) + 1] = [type |-> "request_cancelled", r |-> q]
      BY <1>8, SendToEffect DEF IInv, Reply, Kind, NotRunKind
    <2>3. \A k \in 1 .. Len(down) : down[k].r # q
      BY <1>8 DEF IInv, DownInv, Final
    <2>4. TypeOK'
      BY <1>4, <1>5, <1>6, <1>8, <2>2 DEF IInv, TypeOK, Reply, client
    <2>5. ClientInv' /\ RegistryInv'
      BY <1>5, <1>8, <2>1, <2>2, IpcAssumption
      DEF IInv, TypeOK, ClientInv, RegistryInv, PhaseInv, client
    <2>6. PhaseInv' /\ MonitorInv'
      BY <1>5, <1>8, <2>1, IpcAssumption
      DEF IInv, TypeOK, PhaseInv, MonitorInv, Answering, Awaited, Open, Honest, client,
          ReceiveCancel, CanReceive
    <2>7. UpInv'
      <3>1. \A p \in Req : Queued(p)' => phase'[p] = phase[p]
        BY <1>2, <1>8, <2>1 DEF IInv, TypeOK
      <3>. QED
        BY <1>2, <1>3, <1>5, <3>1 DEF IInv, UpInv, Awaited, Open, client
    <2>8. DownInv'
      <3>1. CASE conn
        <4>1. Final(q, "request_cancelled")'
          BY <1>2, <1>5, <1>8, <2>1, <3>1, IpcAssumption
          DEF IInv, TypeOK, Final, Awaited, Answering, Honest, ResultKind, client
        <4>2. ASSUME NEW p \in Req, NEW kind, p # q, Final(p, kind)
              PROVE  Final(p, kind)'
          BY <1>2, <1>5, <1>8, <4>2, IpcAssumption
          DEF IInv, TypeOK, Final, Answering, Honest, client
        <4>. QED
          BY <2>2, <2>3, <3>1, <4>1, <4>2, DownTyped DEF IInv, DownInv
      <3>2. CASE ~conn
        BY <1>5, <2>2, <3>2 DEF IInv, ClientInv, DownInv, Final
      <3>. QED
        BY <3>1, <3>2
    <2>9. OnceInv'
      <3>1. CASE conn
        BY <2>2, <2>3, <3>1, DownTyped DEF IInv, OnceInv
      <3>2. CASE ~conn
        BY <2>2, <3>2 DEF IInv, OnceInv
      <3>. QED
        BY <3>1, <3>2
    <2>. QED
      BY <2>4, <2>5, <2>6, <2>7, <2>8, <2>9 DEF IInv
  <1>. QED
    BY <1>1, <1>7, <1>8 DEF ReceiveCancel, CanCancel, IInv, TypeOK

\* The worker starts, or the request is answered at once.
LEMMA SpawnWorkerInv ==
    ASSUME IInv, NEW r \in Req, SpawnWorker(r)
    PROVE  IInv'
  <1>1. /\ busy = r /\ worker[r] = "none" /\ monitor[r] = "none" /\ phase[r] = "pending"
        /\ r \notin ran /\ Awaited(r) /\ ~Queued(r)
        /\ \A k \in 1 .. Len(down) : down[k].r # r
    BY DEF IInv, SpawnWorker, PhaseInv, UpInv, DownInv, Final
  <1>2. UNCHANGED <<client, conn, up, serving, cancelled, monitor, claim, ran, lost>>
    BY DEF SpawnWorker
  <1>3. CASE /\ worker' = [worker EXCEPT ![r] = "spawned"]
             /\ UNCHANGED <<busy, registry, phase, down>>
    <2>1. TypeOK' /\ ClientInv' /\ UpInv' /\ RegistryInv'
      BY <1>2, <1>3
      DEF IInv, TypeOK, ClientInv, UpInv, RegistryInv, Queued, Open, Awaited, client
    <2>2. PhaseInv' /\ MonitorInv'
      BY <1>1, <1>2, <1>3
      DEF IInv, TypeOK, PhaseInv, MonitorInv, Open, Awaited, Answering, Honest, client
    <2>3. DownInv' /\ OnceInv'
      BY <1>2, <1>3 DEF IInv, DownInv, Final, OnceInv, Queued, Answering, Honest, client
    <2>. QED
      BY <2>1, <2>2, <2>3 DEF IInv
  <1>4. CASE /\ phase' = [phase EXCEPT ![r] = "responded"]
             /\ registry' = Unregistered(r)
             /\ SendTo(r, "runtime_unavailable")
             /\ busy' = NoReq
             /\ UNCHANGED worker
    <2>1. /\ down' \in Seq(DownFrame)
          /\ ~conn => down' = down
          /\ conn => /\ Len(down') = Len(down) + 1
                     /\ \A k \in 1 .. Len(down) : down'[k] = down[k]
                     /\ down'[Len(down) + 1] = [type |-> "runtime_unavailable", r |-> r]
      BY <1>4, SendToEffect DEF IInv, Kind, NotRunKind
    <2>2. /\ registry' \in [Id -> Req \cup {NoReq}]
          /\ registry'[IdOf[r]] # r
          /\ \A i \in Id : registry'[i] # NoReq => registry'[i] = registry[i]
          /\ \A p \in Req : registry'[IdOf[p]] = p => registry[IdOf[p]] = p
      BY <1>4, IpcAssumption DEF IInv, TypeOK, Unregistered
    <2>3. TypeOK'
      BY <1>2, <1>4, <2>1, <2>2 DEF IInv, TypeOK, client
    <2>4. ClientInv' /\ RegistryInv'
      BY <1>1, <1>2, <1>4, <2>1, <2>2, IpcAssumption
      DEF IInv, TypeOK, ClientInv, RegistryInv, client
    <2>5. PhaseInv' /\ MonitorInv'
      <3>1. PhaseInv'
        BY <1>1, <1>2, <1>4, IpcAssumption
        DEF IInv, TypeOK, PhaseInv, Awaited, Open, client
      <3>2. MonitorInv'
        BY <1>1, <1>2, <1>4, <2>2
        DEF IInv, TypeOK, MonitorInv, Answering, Awaited, Open, Honest, client
      <3>. QED
        BY <3>1, <3>2
    <2>6. UpInv'
      <3>1. \A p \in Req : Queued(p)' => Queued(p) /\ phase'[p] = phase[p]
        BY <1>1, <1>2, <1>4 DEF IInv, TypeOK, Queued
      <3>. QED
        BY <1>2, <3>1 DEF IInv, UpInv, Awaited, Open, client
    <2>7. DownInv'
      <3>1. CASE conn
        <4>1. owner[IdOf[r]] = r /\ IdOf[r] \in Id /\ Honest(r, "runtime_unavailable")
          BY <1>1, <3>1, IpcAssumption DEF Awaited, Honest, ResultKind
        <4>2. Final(r, "runtime_unavailable")'
          BY <1>1, <1>2, <1>4, <2>2, <4>1
          DEF IInv, TypeOK, Final, Queued, Answering, Honest, client
        <4>3. ASSUME NEW p \in Req, NEW kind, p # r, Final(p, kind)
              PROVE  Final(p, kind)'
          BY <1>2, <1>4, <2>2, <4>3
          DEF IInv, TypeOK, Final, Queued, Answering, Honest, client
        <4>. QED
          BY <1>1, <2>1, <3>1, <4>2, <4>3, DownTyped DEF IInv, DownInv
      <3>2. CASE ~conn
        BY <1>2, <2>1, <3>2 DEF IInv, ClientInv, DownInv, Final
      <3>. QED
        BY <3>1, <3>2
    <2>8. OnceInv'
      <3>1. CASE conn
        BY <1>1, <2>1, <3>1, DownTyped DEF IInv, OnceInv
      <3>2. CASE ~conn
        BY <2>1, <3>2 DEF IInv, OnceInv
      <3>. QED
        BY <3>1, <3>2
    <2>. QED
      BY <2>3, <2>4, <2>5, <2>6, <2>7, <2>8 DEF IInv
  <1>. QED
    BY <1>3, <1>4 DEF SpawnWorker

\* The answer is sent, and nothing remains that could answer again.
LEMMA SendInv ==
    ASSUME IInv, NEW r \in Req, Send(r)
    PROVE  IInv'
  <1>1. /\ monitor[r] = "sending" /\ phase[r] = "responded" /\ Awaited(r) /\ ~Queued(r)
        /\ claim[r] \in (Kind \ {"duplicate_request"}) \cup {"large"} /\ Honest(r, claim[r])
        /\ registry[IdOf[r]] # r
        /\ \A k \in 1 .. Len(down) : down[k].r # r
    <2>1. monitor[r] = "sending" /\ Answering(r)
      BY DEF Send, Answering
    <2>2. \A k \in 1 .. Len(down) : down[k].r # r
      BY <2>1 DEF IInv, DownInv, Final
    <2>3. phase[r] = "responded" /\ ~Queued(r)
      BY <2>1 DEF IInv, MonitorInv, UpInv
    <2>. QED
      BY <2>1, <2>2, <2>3 DEF IInv, TypeOK, MonitorInv
  <1>2. /\ UNCHANGED <<client, conn, up, serving, registry, phase, cancelled, worker,
                       claim, ran>>
        /\ monitor' = [monitor EXCEPT ![r] = "ended"]
        /\ busy' = IF busy = r THEN NoReq ELSE busy
    BY DEF Send
  <1>3. ClientInv' /\ UpInv' /\ RegistryInv' /\ PhaseInv' /\ MonitorInv'
    <2>1. ~conn => down' = down
      BY DEF Send, SendTo
    <2>. QED
      BY <1>1, <1>2, <2>1, IpcAssumption
      DEF IInv, TypeOK, ClientInv, UpInv, RegistryInv, PhaseInv, MonitorInv,
          Queued, Open, Awaited, Answering, Honest, client
  <1>4. CASE claim[r] = "large"
    <2>1. lost' = lost \cup {r} /\ down' = down
      BY <1>4 DEF Send
    <2>2. TypeOK'
      BY <1>2, <2>1 DEF IInv, TypeOK, client
    <2>3. DownInv' /\ OnceInv'
      BY <1>1, <1>2, <2>1, DownTyped
      DEF IInv, TypeOK, DownInv, Final, OnceInv, Queued, Answering, Honest, client
    <2>. QED
      BY <1>3, <2>2, <2>3 DEF IInv
  <1>5. CASE claim[r] # "large"
    <2>1. SendTo(r, claim[r]) /\ lost' = lost /\ claim[r] \in Kind
          /\ claim[r] # "duplicate_request"
      BY <1>1, <1>5 DEF Send
    <2>2. /\ down' \in Seq(DownFrame)
          /\ ~conn => down' = down
          /\ conn => /\ Len(down') = Len(down) + 1
                     /\ \A k \in 1 .. Len(down) : down'[k] = down[k]
                     /\ down'[Len(down) + 1] = [type |-> claim[r], r |-> r]
      BY <2>1, SendToEffect DEF IInv
    <2>3. TypeOK'
      BY <1>2, <2>1, <2>2 DEF IInv, TypeOK, client
    <2>4. DownInv'
      <3>1. CASE conn
        BY <1>1, <1>2, <2>1, <2>2, <3>1, DownTyped
        DEF IInv, TypeOK, DownInv, Final, Queued, Awaited, Answering, Honest, client
      <3>2. CASE ~conn
        BY <1>2, <2>2, <3>2 DEF IInv, ClientInv, DownInv, Final
      <3>. QED
        BY <3>1, <3>2
    <2>5. OnceInv'
      <3>1. CASE conn
        BY <1>1, <2>2, <3>1, DownTyped DEF IInv, OnceInv
      <3>2. CASE ~conn
        BY <2>2, <3>2 DEF IInv, OnceInv
      <3>. QED
        BY <3>1, <3>2
    <2>. QED
      BY <1>3, <2>3, <2>4, <2>5 DEF IInv
  <1>. QED
    BY <1>4, <1>5

\* The connection is lost: nobody waits for anything any more.
LEMMA CloseInv ==
    ASSUME IInv, Close
    PROVE  IInv'
  <1>1. TypeOK'
    <2>1. answer' \in [Req -> Kind \cup {"none"}]
      BY DEF Close, IInv, TypeOK, Kind, UnsureKind
    <2>2. down' \in Seq(DownFrame)
      BY DEF Close
    <2>. QED
      BY <2>1, <2>2 DEF Close, IInv, TypeOK, server, threads
  <1>2. ClientInv' /\ UpInv' /\ RegistryInv'
    BY DEF Close, IInv, ClientInv, UpInv, RegistryInv, PhaseInv, Queued, Open, Awaited,
           server, threads
  <1>3. PhaseInv' /\ MonitorInv' /\ DownInv' /\ OnceInv'
    BY DEF Close, IInv, PhaseInv, MonitorInv, DownInv, Final, OnceInv, Queued, Open,
           Awaited,
           Answering, Honest, server, threads
  <1>. QED
    BY <1>1, <1>2, <1>3 DEF IInv

\* The shim takes the answer and forgets the ID.
LEMMA DeliverInv ==
    ASSUME IInv, Deliver
    PROVE  IInv'
  <1>1. PICK q \in Req : q = Head(down).r
    BY DownTyped DEF IInv, Deliver
  <1>2. /\ Len(down) \in Nat /\ Len(down) >= 1 /\ Head(down) = down[1]
        /\ Tail(down) \in Seq(DownFrame)
        /\ Len(Tail(down)) = Len(down) - 1
        /\ \A k \in 1 .. Len(Tail(down)) : Tail(down)[k] = down[k + 1]
    <2>1. down \in Seq(DownFrame) /\ down # <<>>
      BY DEF IInv, TypeOK, Deliver
    <2>. QED
      BY <2>1
  <1>3. /\ owner[IdOf[q]] = q /\ IdOf[q] \in Id /\ Head(down).type \in Kind
        /\ phase[q] \in {"none", "responded"} /\ ~Queued(q) /\ ~Answering(q)
        /\ registry[IdOf[q]] # q
    BY <1>1, <1>2, DownTyped, IpcAssumption DEF IInv, DownInv, Final
  <1>4. \A k \in 1 .. Len(Tail(down)) : k + 1 \in 1 .. Len(down) /\ Tail(down)[k].r # q
    BY <1>1, <1>2 DEF IInv, OnceInv
  <1>5. /\ answer' = [answer EXCEPT ![q] = Head(down).type]
        /\ owner' = [owner EXCEPT ![IdOf[q]] = NoReq]
        /\ down' = Tail(down)
        /\ UNCHANGED <<sent, asked, conn, up, server, threads>>
    BY <1>1, <1>3, IpcAssumption DEF Deliver, Told
  <1>6. TypeOK'
    BY <1>2, <1>3, <1>5, IpcAssumption DEF IInv, TypeOK, server, threads
  <1>7. ClientInv' /\ RegistryInv'
    BY <1>1, <1>3, <1>5, IpcAssumption
    DEF IInv, TypeOK, ClientInv, RegistryInv, Deliver, server, threads
  <1>8. \A p \in Req : p # q /\ Awaited(p) => Awaited(p)'
    BY <1>3, <1>5, IpcAssumption DEF IInv, TypeOK, Awaited, Deliver
  <1>9. \A p \in Req : p # q => answer'[p] = answer[p]
    BY <1>5 DEF IInv, TypeOK
  <1>10. UpInv'
    BY <1>3, <1>5, <1>8, <1>9 DEF IInv, UpInv, Queued, Open, threads
  <1>11. PhaseInv' /\ MonitorInv'
    BY <1>3, <1>5, <1>8, <1>9
    DEF IInv, PhaseInv, MonitorInv, Open, Answering, Honest, server, threads
  <1>12. DownInv'
    <2>1. \A k \in 1 .. Len(Tail(down)) : Tail(down)[k].r \in Req
      BY <1>2, <1>4, DownTyped DEF IInv
    <2>2. \A p \in Req : p # q /\ owner[IdOf[p]] = p => owner'[IdOf[p]] = p
      BY <1>3, <1>5, IpcAssumption DEF IInv, TypeOK
    <2>. QED
      BY <1>2, <1>4, <1>5, <2>1, <2>2
      DEF IInv, DownInv, Final, Queued, Answering, Honest, server, threads
  <1>13. OnceInv'
    BY <1>2, <1>4, <1>5 DEF IInv, OnceInv
  <1>. QED
    BY <1>6, <1>7, <1>10, <1>11, <1>12, <1>13 DEF IInv

\* The shim forwards a request, or answers it itself.
LEMMA ForwardInv ==
    ASSUME IInv, NEW r \in Req, Forward(r)
    PROVE  IInv'
  <1>1. /\ conn /\ r \notin sent /\ sent' = sent \cup {r}
        /\ answer[r] = "none" /\ phase[r] = "none" /\ monitor[r] = "none"
        /\ ~Queued(r) /\ r \notin ran
        /\ \A i \in Id : owner[i] # r
        /\ \A k \in 1 .. Len(down) : down[k].r # r
        /\ UNCHANGED <<asked, conn, down, server, threads>>
    BY DownTyped, IpcAssumption
    DEF IInv, Forward, ClientInv, PhaseInv, UpInv, DownInv, Final
  <1>2. CASE /\ answer' \in {[answer EXCEPT ![r] = kind] :
                               kind \in {"invalid_request", "duplicate_request"}}
             /\ UNCHANGED <<owner, up>>
    <2>1. TypeOK'
      BY <1>1, <1>2 DEF IInv, TypeOK, Kind, NotRunKind, server, threads
    <2>2. \A p \in Req : p # r => answer'[p] = answer[p]
      BY <1>2 DEF IInv, TypeOK
    <2>3. ClientInv' /\ UpInv' /\ RegistryInv'
      BY <1>1, <1>2, <2>2
      DEF IInv, TypeOK, ClientInv, UpInv, RegistryInv, Queued, Open, Awaited, server, threads
    <2>4. PhaseInv' /\ MonitorInv'
      BY <1>1, <1>2, <2>2
      DEF IInv, PhaseInv, MonitorInv, Open, Awaited, Answering, Honest, server, threads
    <2>5. DownInv' /\ OnceInv'
      BY <1>1, <1>2
      DEF IInv, DownInv, Final, OnceInv, Queued, Answering, Honest, server, threads
    <2>. QED
      BY <2>1, <2>3, <2>4, <2>5 DEF IInv
  <1>3. CASE /\ owner[IdOf[r]] = NoReq
             /\ owner' = [owner EXCEPT ![IdOf[r]] = r]
             /\ up' = Append(up, [type |-> "request", r |-> r])
             /\ UNCHANGED answer
    <2>1. [type |-> "request", r |-> r] \in UpFrame /\ up \in Seq(UpFrame)
      BY DEF IInv, TypeOK, UpFrame
    <2>2. /\ up' \in Seq(UpFrame) /\ Len(up) \in Nat /\ Len(up') = Len(up) + 1
          /\ \A k \in 1 .. Len(up) : up'[k] = up[k]
          /\ up'[Len(up) + 1] = [type |-> "request", r |-> r]
      BY <1>3, <2>1
    <2>3. \A p \in Req : Queued(p)' => p = r \/ Queued(p)
      BY <2>2 DEF Queued
    <2>4. /\ TypeOK'
          /\ \A p \in Req : owner[IdOf[p]] = p => owner'[IdOf[p]] = p
          /\ owner'[IdOf[r]] = r
      BY <1>1, <1>3, <2>2, IpcAssumption DEF IInv, TypeOK, server, threads
    <2>5. ClientInv' /\ RegistryInv'
      BY <1>1, <1>3, IpcAssumption
      DEF IInv, TypeOK, ClientInv, RegistryInv, server, threads
    <2>6. UpInv'
      <3>1. \A p \in Req : Queued(p)' => p \in sent' /\ Open(p)' /\ Awaited(p)' /\ phase'[p] = "none"
        BY <1>1, <1>3, <2>3, <2>4 DEF IInv, UpInv, Open, Awaited, threads
      <3>2. \A j, k \in 1 .. Len(up') :
                up'[j].type = "request" /\ up'[j] = up'[k] => j = k
        BY <1>1, <2>2 DEF IInv, UpInv, Queued
      <3>. QED
        BY <3>1, <3>2 DEF UpInv
    <2>7. PhaseInv' /\ MonitorInv'
      BY <1>1, <1>3, <2>4
      DEF IInv, PhaseInv, MonitorInv, Open, Awaited, Answering, Honest, server, threads
    <2>8. DownInv' /\ OnceInv'
      BY <1>1, <1>3, <2>3, <2>4, DownTyped
      DEF IInv, DownInv, Final, OnceInv, Answering, Honest, server, threads
    <2>. QED
      BY <2>4, <2>5, <2>6, <2>7, <2>8 DEF IInv
  <1>. QED
    BY <1>2, <1>3 DEF Forward, Told

-----------------------------------------------------------------------------
(* Theorems. *)

\* Nothing is under way on a new connection.
LEMMA InitInv == Init => IInv
  BY IpcAssumption
  DEF Init, IInv, TypeOK, ClientInv, UpInv, RegistryInv, PhaseInv, MonitorInv, DownInv, Final,
      OnceInv, Queued, Open, Awaited, Answering, Honest

\* Every step of the shim, the server loop and the threads keeps the invariant.
LEMMA NextInv == IInv /\ [Next]_vars => IInv'
  <1> SUFFICES ASSUME IInv, [Next]_vars PROVE IInv'
    OBVIOUS
  <1>1. CASE UNCHANGED vars
    BY <1>1
    DEF vars, client, pipe, server, threads, IInv, TypeOK, ClientInv, UpInv, RegistryInv,
        PhaseInv, MonitorInv, DownInv, Final, OnceInv, Queued, Open, Awaited, Answering, Honest
  <1>2. ASSUME NEW r \in Req, Forward(r) \/ BeginExecution(r) \/ EndExecution(r)
        PROVE  IInv'
    BY <1>2, ForwardInv, BeginExecutionInv, EndExecutionInv
  <1>3. ASSUME NEW r \in Req, Thread(r)
        PROVE  IInv'
    BY <1>3, SpawnWorkerInv, SpawnMonitorInv, DeadlineInv, TakeResultInv, LeaveInv,
       UnregisterInv, SendInv DEF Thread
  <1>4. CASE Disconnect
    BY <1>4, CloseInv DEF Disconnect
  <1>. QED
    BY <1>1, <1>2, <1>3, <1>4, SendCancelInv, DeliverInv, ReceiveRequestInv,
       ReceiveCancelInv, StopServingInv DEF Next

\* The invariant holds in every state of a connection.
THEOREM AlwaysIInv == Spec => []IInv
  BY InitInv, NextInv, PTL DEF Spec

\* The variables of the connection keep their types.
THEOREM TypeCorrect == Spec => []TypeOK
  BY AlwaysIInv, PTL DEF IInv

\* The shim gets no answer that it does not wait for, however requests, cancel
\* frames, deadlines and handlers interleave and IDs are used again.
THEOREM AnswersAwaited == Spec => []FramesAwaited
  <1>1. IInv => FramesAwaited
    BY DEF IInv, DownInv, Final, OnceInv, FramesAwaited
  <1>. QED
    BY <1>1, AlwaysIInv, PTL

\* The server never takes a request for a duplicate of one it has answered.
THEOREM IdsAreFree == Spec => []NoFalseDuplicate
  <1>1. IInv => NoFalseDuplicate
    BY DEF IInv, DownInv, Final, NoFalseDuplicate
  <1>. QED
    BY <1>1, AlwaysIInv, PTL

\* What the browser is told is what may be concluded: request_timeout,
\* request_cancelled and the other denials mean that the handler is not called,
\* not even later.
THEOREM OutcomeRefinement == Spec => ImplementsOutcome
  <1>1. Init => Outcome!Init
    BY DEF Init, Outcome!Init
  <1>2. ASSUME IInv, [Next]_vars
        PROVE  [Outcome!Next]_<<ran, answer>>
    <2>1. ASSUME NEW r \in Req, Forward(r)
          PROVE  Outcome!Next \/ UNCHANGED <<ran, answer>>
      <3>1. answer[r] = "none" /\ r \notin ran
        BY <1>2, <2>1 DEF Forward, IInv, ClientInv, PhaseInv
      <3>2. UNCHANGED answer \/ \E a \in {"invalid_request", "duplicate_request"} : Told(r, a)
        BY <2>1 DEF Forward
      <3>3. UNCHANGED ran
        BY <2>1 DEF Forward, threads
      <3>4. {"invalid_request", "duplicate_request"} \subseteq NotRunKind \ ResultKind
        BY DEF NotRunKind, ResultKind
      <3>. QED
        BY <3>1, <3>2, <3>3, <3>4 DEF Told, Outcome!Next, Outcome!Settle
    <2>2. ASSUME NEW r \in Req, BeginExecution(r)
          PROVE  Outcome!Next \/ UNCHANGED <<ran, answer>>
      <3>1. CASE phase[r] = "pending"
        <4>1. Open(r) /\ r \notin ran
          BY <1>2, <3>1 DEF IInv, PhaseInv
        <4>2. ran' = ran \cup {r} /\ UNCHANGED answer
          BY <2>2, <3>1 DEF BeginExecution, client
        <4>. QED
          BY <4>1, <4>2 DEF Open, NotRunKind, Outcome!Next, Outcome!Run
      <3>2. CASE phase[r] # "pending"
        BY <2>2, <3>2 DEF BeginExecution, client
      <3>. QED
        BY <3>1, <3>2
    <2>3. ASSUME Close
          PROVE  Outcome!Next
      <3> DEFINE R == {r \in Req : r \in sent /\ answer[r] = "none"}
      <3>1. /\ answer' = [r \in Req |-> IF r \in R THEN "native_port_disconnected"
                                                  ELSE answer[r]]
            /\ UNCHANGED ran
        BY <2>3 DEF Close, threads
      <3>2. "native_port_disconnected" \in UnsureKind
        BY DEF UnsureKind
      <3>. QED
        BY <3>1, <3>2 DEF Outcome!Next, Outcome!Drop
    <2>4. ASSUME Deliver
          PROVE  Outcome!Next
      <3>1. /\ 1 \in 1 .. Len(down) /\ Head(down) = down[1]
        BY <1>2, <2>4 DEF IInv, TypeOK, Deliver
      <3>2. PICK q \in Req, a \in Kind : q = Head(down).r /\ a = Head(down).type
        BY <1>2, <3>1, DownTyped DEF IInv
      <3>3. owner[IdOf[q]] = q /\ Honest(q, a) /\ IdOf[q] \in Id
        BY <1>2, <3>1, <3>2, IpcAssumption DEF IInv, DownInv, Final
      <3>4. answer[q] = "none"
        BY <1>2, <3>3, IpcAssumption DEF IInv, ClientInv
      <3>5. answer' = [answer EXCEPT ![q] = a] /\ UNCHANGED ran
        BY <2>4, <3>2, <3>3, IpcAssumption DEF Deliver, Told, threads
      <3>. QED
        BY <3>2, <3>3, <3>4, <3>5 DEF Honest, Kind, Outcome!Next, Outcome!Settle
    <2>5. ASSUME NEW r \in Req, EndExecution(r) \/ Thread(r)
          PROVE  UNCHANGED <<ran, answer>>
      BY <2>5
      DEF EndExecution, Thread, SpawnWorker, SpawnMonitor, Deadline, TakeResult, Leave,
          Unregister, Send, client
    <2>6. ASSUME (\E i \in Id : SendCancel(i)) \/ ReceiveRequest \/ ReceiveCancel
                    \/ StopServing
          PROVE  UNCHANGED <<ran, answer>>
      BY <2>6
      DEF SendCancel, ReceiveRequest, ReceiveCancel, StopServing, client, threads
    <2>. QED
      BY <1>2, <2>1, <2>2, <2>3, <2>4, <2>5, <2>6
      DEF Next, Disconnect, vars, client, threads
  <1>. QED
    BY <1>1, <1>2, AlwaysIInv, PTL
    DEF Spec, ImplementsOutcome, Outcome!Spec, Outcome!slot
=============================================================================
