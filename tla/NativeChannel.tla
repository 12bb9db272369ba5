---------------------------- MODULE NativeChannel ----------------------------
(***************************************************************************)
(* The native messaging channel: the extension's negotiated transport      *)
(* (transport.ts) over its bridge (nativeBridge.ts), and the host process  *)
(* the browser starts for it, which is either the runtime's command loop   *)
(* (command_loop.rs) or the shim in front of the resident app              *)
(* (resident_ipc/windows.rs, runtime_bridge.rs).                           *)
(*                                                                         *)
(* The bridge has one request in flight and queues the others, so a host   *)
(* has at most one request.  A host whose port is detached is not heard of *)
(* again; what it does with a request it has is ResidentIpc's subject.     *)
(*                                                                         *)
(* JavaScript runs to completion: Begin, Deliver, Timeout and PortClosed   *)
(* are tasks, and what an `await` resumes (Resume, Settled) runs before    *)
(* the next task.  An operator on the extension's state takes and gives    *)
(* the record ext, or the set of its possible values where the browser's   *)
(* connectNative or postMessage may throw.                                 *)
(*                                                                         *)
(* A text is the sequence of its characters' widths in UTF-8.              *)
(***************************************************************************)
EXTENDS Naturals, Sequences, FiniteSets, SequencesExt, RuntimeCommands, PeerIdentity

CONSTANTS
    MaxCalls,     \* bound on the calls the extension makes
    Sites,        \* installations, by name: host, peers, version, windows, and
                  \* what is asked for there: how many calls, which commands,
                  \* whether the message is too long, and what encoded responses
                  \* may look like
    MaxResponse,  \* MAX_NATIVE_RESPONSE_BYTES
    ChunkBytes,   \* NATIVE_RESPONSE_CHUNK_BYTES
    MaxChunked,   \* MAX_CHUNKED_NATIVE_RESPONSE_BYTES, MAX_CHUNKED_RESPONSE_CHARACTERS
    MaxChunks,    \* MAX_NATIVE_RESPONSE_CHUNKS
    MaxTroubles   \* bound on failures of the browser, a host or the runtime

VARIABLES
    ext,      \* [bridge, nego, calls]: the extension
    link,     \* the host at the other end of the port
    site,     \* [on: its installation, proxy: browser_passkey_proxy_enabled,
              \*  worker: the resident app's runtime thread lives]
    troubles  \* failures so far

channelVars == <<ext, link, site, troubles>>

Calls == 1..MaxCalls
On == Sites[site.on]
ShortText == <<1>>
Response(kind, text) == [kind |-> kind, code |-> "none", text |-> text, caps |-> {}]
ErrorResponse(code) == [Response("error", ShortText) EXCEPT !.code = code]
Rejection(code) == [Response("rejected", <<>>) EXCEPT !.code = code]
NoAnswer == Rejection("none")
NoChunks == [count |-> 0, next |-> 0, units |-> 0, parts |-> <<>>]

----------------------------------------------------------------------------
(* Hosts: messages and how they are written. *)

Bytes(text) ==
    LET sum[n \in 0..Len(text)] == IF n = 0 THEN 0 ELSE sum[n - 1] + text[n]
    IN  sum[Len(text)]

\* A JavaScript string counts UTF-16 units.
Units(text) == Len(text) + Cardinality({n \in DOMAIN text : text[n] = 4})

Whole(id, response) == [type |-> "whole", id |-> id, response |-> response]

\* write_native_message; id 0 is no request ID
WriteMessage(id, response) ==
    <<Whole(id, IF Bytes(response.text) > MaxResponse
                THEN ErrorResponse("response_too_large") ELSE response)>>

\* The ranges of write_chunked_native_message: from each start, as many whole
\* characters as fit.
RECURSIVE Ranges(_)
Ranges(text) ==
    IF text = <<>> THEN <<>>
    ELSE LET fits == {n \in 1..Len(text) : Bytes(SubSeq(text, 1, n)) <= ChunkBytes}
             end == CHOOSE n \in fits : \A o \in fits : o <= n
         IN  <<SubSeq(text, 1, end)>> \o Ranges(SubSeq(text, end + 1, Len(text)))

\* write_chunked_native_message
WriteChunked(id, response) ==
    IF Bytes(response.text) <= MaxResponse THEN <<Whole(id, response)>>
    ELSE IF Bytes(response.text) > MaxChunked
      THEN WriteMessage(id, ErrorResponse("response_too_large"))
    ELSE LET parts == Ranges(response.text)
         IN  [i \in DOMAIN parts |->
                [type |-> "chunk", id |-> id, index |-> i - 1, count |-> Len(parts),
                 data |-> parts[i], kind |-> response.kind]]

NoLink == [stage |-> "none", code |-> "none", session |-> NewSession("browser-extension"),
           inbox |-> 0, job |-> 0, asked |-> FALSE, out |-> <<>>]

\* run_browser_stdio_loop, run_windows_native_messaging_shim: a new process.
NewLink == [NoLink EXCEPT !.stage = "starting"]

----------------------------------------------------------------------------
(* nativeBridge.ts *)

StartupCommand(cmd) == cmd \in {"get_session_state", "list_recent_vaults"}

Overtakeable ==
    {"preload_current_vault", "list_groups", "list_entries", "get_entry_detail",
     "list_entry_history", "get_entry_history_detail", "get_entry_attachment_content",
     "get_database_settings", "find_fill_candidates", "find_exact_matching_entry_ids"}

CmdOf(e, id) == e.bridge.reqs[id].cmd

\* resolve or reject of the promises of the requests ids
Settle(e, ids, answer) ==
    LET owners == {e.bridge.reqs[id].call : id \in ids}
    IN  [e EXCEPT
           !.nego.answer = IF 0 \in owners THEN answer ELSE @,
           !.calls = [c \in Calls |->
               IF c \in owners THEN [@[c] EXCEPT !.at = "done", !.out = answer] ELSE @[c]]]

RejectAll(e, code) ==
    [Settle(e, ({e.bridge.active} \ {0}) \cup ToSet(e.bridge.queue), Rejection(code))
       EXCEPT !.bridge.active = 0, !.bridge.queue = <<>>, !.bridge.chunks = NoChunks]

DetachPort(e) ==
    IF e.bridge.port
    THEN [e EXCEPT !.bridge.port = FALSE, !.bridge.gen = @ + 1]
    ELSE e

\* cancelQueuedPreloads
CancelQueuedPreloads(e, cmd) ==
    IF ~StartupCommand(cmd) THEN e
    ELSE LET Preload(id) == CmdOf(e, id) = "preload_current_vault"
             Other(id) == ~Preload(id)
         IN  [Settle(e, {id \in ToSet(e.bridge.queue) : Preload(id)},
                     Rejection("native_port_disconnected"))
                EXCEPT !.bridge.queue = SelectSeq(@, Other)]

\* interruptActivePreload: what is queued stays queued.
InterruptActivePreload(e) ==
    LET detached == DetachPort([e EXCEPT !.bridge.active = 0, !.bridge.chunks = NoChunks])
    IN  Settle(detached, {e.bridge.active}, Rejection("native_port_disconnected"))

\* prepareForSend, shouldCancelActivePreload
PrepareForSend(e, cmd) ==
    LET cleared == CancelQueuedPreloads(e, cmd)
    IN  IF /\ StartupCommand(cmd) /\ cleared.bridge.active # 0
           /\ CmdOf(cleared, cleared.bridge.active) = "preload_current_vault"
        THEN InterruptActivePreload(cleared)
        ELSE cleared

\* enqueueRequest
EnqueueRequest(e, id) ==
    LET queue == e.bridge.queue
        Blocks(i) == CmdOf(e, queue[i]) \notin Overtakeable
        behind == {i \in DOMAIN queue : Blocks(i)}
        place == IF behind = {} THEN 1
                 ELSE 1 + (CHOOSE i \in behind : \A j \in behind : j <= i)
    IN  [e EXCEPT !.bridge.queue =
            IF CmdOf(e, id) = "handshake" /\ ~e.bridge.port THEN <<id>> \o @
            ELSE IF ~StartupCommand(CmdOf(e, id)) THEN Append(@, id)
            ELSE InsertAt(@, place, id)]

\* flushQueue, ensurePort.  A failure of connectNative or of postMessage is a
\* trouble; the last component says what happened to the port.
FlushQueue(e) ==
    IF e.bridge.active # 0 \/ e.bridge.queue = <<>> THEN {[e |-> e, did |-> "nothing"]}
    ELSE LET head == [e EXCEPT !.bridge.active = Head(e.bridge.queue),
                               !.bridge.queue = Tail(e.bridge.queue)]
             connected == IF e.bridge.port THEN head
                          ELSE [head EXCEPT !.bridge.port = TRUE, !.bridge.gen = @ + 1]
         IN  {[e |-> connected, did |-> IF e.bridge.port THEN "posted" ELSE "connected"],
              [e |-> RejectAll(DetachPort([connected EXCEPT !.bridge.thrown = TRUE]),
                               "native_unknown"), did |-> "failed"]}
               \cup (IF e.bridge.port THEN {}
                     ELSE {[e |-> RejectAll([head EXCEPT !.bridge.thrown = TRUE],
                                            "native_unknown"), did |-> "failed"]})

\* What a flush leaves at the other end of the port.
LinkAfter(before, flush) ==
    CASE flush.did = "posted" -> [before EXCEPT !.inbox = flush.e.bridge.active]
      [] flush.did = "connected" -> [NewLink EXCEPT !.inbox = flush.e.bridge.active]
      [] OTHER -> IF flush.e.bridge.port THEN before ELSE NoLink

\* send of the bridge
SendRaw(e, call, cmd, big) ==
    LET prepared == PrepareForSend(e, cmd)
        numbered == [prepared EXCEPT
                       !.bridge.reqs = Append(@, [call |-> call, cmd |-> cmd, big |-> big])]
    IN  FlushQueue(EnqueueRequest(numbered, Len(numbered.bridge.reqs)))

\* rejectProtocolConnection
RejectProtocol(e) == {[e |-> RejectAll(DetachPort(e), "native_unknown"), did |-> "dropped"]}

\* The end of onNativeMessage, for a response that is not a chunk.
OnWhole(e, frame) ==
    IF e.bridge.chunks # NoChunks \/ frame.id # e.bridge.active THEN RejectProtocol(e)
    ELSE FlushQueue(Settle([e EXCEPT !.bridge.active = 0], {frame.id}, frame.response))

\* onNativeMessage for a chunk
OnChunk(e, frame) ==
    LET chunks == IF frame.index = 0 THEN [NoChunks EXCEPT !.count = frame.count]
                  ELSE e.bridge.chunks
        grown == [chunks EXCEPT !.parts = @ \o frame.data, !.next = @ + 1,
                                !.units = @ + Units(frame.data)]
    IN  IF \/ frame.id # e.bridge.active \/ frame.count < 2 \/ frame.count > MaxChunks
           \/ frame.index >= frame.count
           \/ frame.index = 0 /\ e.bridge.chunks # NoChunks
           \/ chunks = NoChunks \/ chunks.count # frame.count
           \/ chunks.next # frame.index \/ grown.units > MaxChunked
        THEN RejectProtocol(e)
        ELSE IF grown.next # grown.count
          THEN {[e |-> [e EXCEPT !.bridge.chunks = grown], did |-> "nothing"]}
        ELSE OnWhole([e EXCEPT !.bridge.chunks = NoChunks],
                     Whole(frame.id, Response(frame.kind, grown.parts)))

----------------------------------------------------------------------------
(* transport.ts *)

Wanted == Supported("browser-extension")

\* ensureNegotiated up to its await, for call c
EnsureNegotiated(e, c) ==
    IF e.nego.id # 0 /\ (e.nego.pending \/ e.nego.gen = e.bridge.gen)
    THEN {[e |-> [e EXCEPT !.calls[c].at = IF e.nego.pending THEN "waiting" ELSE "ready"],
           did |-> "nothing"]}
    ELSE SendRaw([e EXCEPT !.calls[c].at = "waiting",
                           !.nego = [id |-> Len(e.bridge.reqs) + 1, pending |-> TRUE,
                                     gen |-> e.bridge.gen, answer |-> NoAnswer]],
                 0, "handshake", FALSE)

\* Mutant: a call is not prepared again after its await.
AfterAwaitUnprepared(e, c) ==
    SendRaw([e EXCEPT !.calls[c].at = "sent"], c, e.calls[c].cmd, e.calls[c].big)

\* The body of send after its await: prepare again, and negotiate with the
\* replacement if that reset the connection.
AfterAwait(e, c) ==
    LET prepared == PrepareForSend(e, e.calls[c].cmd)
    IN  IF prepared.nego.gen # prepared.bridge.gen
        THEN EnsureNegotiated(PrepareForSend(prepared, prepared.calls[c].cmd), c)
        ELSE SendRaw([prepared EXCEPT !.calls[c].at = "sent"], c, prepared.calls[c].cmd,
                     prepared.calls[c].big)

Settling == ext.nego.pending /\ ext.nego.answer # NoAnswer
Quiet == ~Settling /\ \A c \in Calls : ext.calls[c].at # "ready"

\* A step of the extension that may have touched the port.
Extension(outcomes) ==
    /\ \E flush \in outcomes :
        /\ flush.did = "failed" => troubles < MaxTroubles
        /\ ext' = flush.e /\ link' = LinkAfter(link, flush)
        /\ troubles' = IF flush.did = "failed" THEN troubles + 1 ELSE troubles
    /\ UNCHANGED site

----------------------------------------------------------------------------
(* Steps of the extension. *)

\* send of the negotiated transport; big is a message over the limit of a request
Begin(c, cmd, big) ==
    /\ Quiet /\ ext.calls[c].at = "idle" /\ c <= On.calls
    /\ \A d \in Calls : d < c => ext.calls[d].at # "idle"
    /\ Extension(EnsureNegotiated(
           PrepareForSend([ext EXCEPT !.calls[c].cmd = cmd, !.calls[c].big = big], cmd), c))

Resume(c) ==
    /\ ext.calls[c].at = "ready"
    /\ Extension(AfterAwait(ext, c))

\* negotiateRuntimeTransport and ensureNegotiated after their awaits, and what
\* those that share the negotiation see of it.
Settled ==
    /\ Settling
    /\ LET answer == ext.nego.answer
           good == answer.kind = "handshake" /\ Wanted \subseteq answer.caps
       IN  ext' = [ext EXCEPT
                     !.nego = IF good THEN [@ EXCEPT !.pending = FALSE, !.gen = ext.bridge.gen]
                              ELSE [id |-> 0, pending |-> FALSE, gen |-> 0, answer |-> NoAnswer],
                     !.calls = [c \in Calls |->
                        IF @[c].at # "waiting" THEN @[c]
                        ELSE IF good THEN [@[c] EXCEPT !.at = "ready"]
                        ELSE [@[c] EXCEPT !.at = "done", !.out = answer]]]
    /\ UNCHANGED <<link, site, troubles>>

\* onNativeMessage: the next message of the host
Deliver ==
    /\ Quiet /\ link.out # <<>>
    /\ LET frame == Head(link.out)
       IN  \E flush \in IF ext.bridge.active = 0 THEN {[e |-> ext, did |-> "nothing"]}
                        ELSE IF frame.type = "chunk" THEN OnChunk(ext, frame)
                        ELSE OnWhole(ext, frame) :
             /\ flush.did = "failed" => troubles < MaxTroubles
             /\ ext' = flush.e
             /\ link' = LinkAfter([link EXCEPT !.out = Tail(@)], flush)
             /\ troubles' = IF flush.did = "failed" THEN troubles + 1 ELSE troubles
    /\ UNCHANGED site

\* The timer of the request in flight: it and all behind it are rejected.
Timeout ==
    /\ Quiet /\ ext.bridge.active # 0 /\ ext.bridge.port
    /\ ext' = RejectAll(DetachPort(ext), "native_timeout")
    /\ link' = NoLink
    /\ UNCHANGED <<site, troubles>>

\* onNativeDisconnect, once what the host wrote has been delivered
PortClosed ==
    /\ Quiet /\ ext.bridge.port /\ link.stage = "ended" /\ link.out = <<>>
    /\ ext' = RejectAll(DetachPort(ext), "native_port_disconnected")
    /\ link' = NoLink
    /\ UNCHANGED <<site, troubles>>

----------------------------------------------------------------------------
(* Steps of a host. *)

Write(frames) == [link EXCEPT !.out = @ \o frames, !.inbox = 0, !.job = 0, !.asked = FALSE]

Ran(id, response) ==
    ext' = [ext EXCEPT !.calls[ext.bridge.reqs[id].call].ran =
                Append(@, [response |-> response, proxy |-> site.proxy,
                           window |-> ParentWindow(On.window, On.foreground)])]

\* run_windows_native_messaging_shim, run_browser_stdio_loop up to the first message
HostStart ==
    /\ link.stage = "starting"
    /\ \/ /\ LET code == IF On.host = "loop" THEN "none" ELSE Startup(On.peers)
             IN  link' = [link EXCEPT !.stage = IF code = "none" THEN "serving" ELSE "failing",
                                      !.code = code]
          /\ UNCHANGED troubles
       \/ \* start_packaged_resident_and_connect fails
          /\ On.host = "shim" /\ troubles < MaxTroubles
          /\ Startup(On.peers) \notin {"browser_origin_rejected",
                                            "browser_authentication_failed"}
          /\ link' = [link EXCEPT !.stage = "failing", !.code = "resident_unavailable"]
          /\ troubles' = troubles + 1
    /\ UNCHANGED <<ext, site>>

\* write_startup_failure
HostFails ==
    /\ link.stage = "failing" /\ link.inbox # 0
    /\ link' = [Write(WriteMessage(IF ext.bridge.reqs[link.inbox].big THEN 0 ELSE link.inbox,
                                   ErrorResponse(link.code)))
                  EXCEPT !.stage = "ended"]
    /\ UNCHANGED <<ext, site, troubles>>

\* A message that is not given to the runtime: run_loop_with_io_with_limit,
\* handle_browser_event and prepare_runtime_protocol_request.
HostAnswers ==
    /\ link.stage = "serving" /\ link.inbox # 0
    /\ LET id == link.inbox
           req == ext.bridge.reqs[id]
           session == Negotiated(link.session, Wanted)
       IN  link' = CASE req.big ->
                     [Write(WriteMessage(0, ErrorResponse("invalid_request")))
                        EXCEPT !.stage = "ended"]
                [] ~req.big /\ On.skew ->
                     Write(WriteMessage(id, ErrorResponse("unsupported_version")))
                [] ~req.big /\ ~On.skew /\ req.cmd = "handshake" ->
                     [Write(WriteMessage(id, [Response("handshake", ShortText)
                                                EXCEPT !.caps = session.caps]))
                        EXCEPT !.session = session]
                [] OTHER -> IF Refusal(link.session, req.cmd) = "none" THEN link
                            ELSE Write(WriteMessage(id, ErrorResponse(
                                                       Refusal(link.session, req.cmd))))
    /\ link' # link
    /\ UNCHANGED <<ext, site, troubles>>

\* The message in the inbox is one that is given to the runtime.
Dispatched ==
    /\ link.stage = "serving" /\ link.inbox # 0
    /\ LET req == ext.bridge.reqs[link.inbox]
       IN  ~req.big /\ ~On.skew /\ req.cmd # "handshake"
             /\ Refusal(link.session, req.cmd) = "none"

\* What handle_inner may answer.
Outcomes(cmd) ==
    {ErrorResponse("runtime_error")}
      \cup (IF Answers[cmd] = "error" THEN {}
            ELSE {Response(Answers[cmd], text) : text \in On.texts})

\* handle_command_response of the command loop: it ends after a panic.
LoopRuns ==
    /\ Dispatched /\ On.host = "loop"
    /\ LET id == link.inbox
       IN  \/ \E response \in Outcomes(ext.bridge.reqs[id].cmd) :
                /\ link' = Write(WriteMessage(id, response))
                /\ Ran(id, response)
                /\ UNCHANGED troubles
           \/ /\ troubles < MaxTroubles /\ troubles' = troubles + 1
              /\ link' = [Write(WriteMessage(id, ErrorResponse("panic"))) EXCEPT !.stage = "ended"]
              /\ Ran(id, ErrorResponse("panic"))
    /\ UNCHANGED site

\* dispatch_request: the handler's thread is about to start.
ResidentAccepts ==
    /\ Dispatched /\ On.host = "shim"
    /\ link' = [link EXCEPT !.job = link.inbox, !.inbox = 0]
    /\ UNCHANGED <<ext, site, troubles>>

ProxyMissing(cmd) == cmd \in ProxyCommand /\ ~site.proxy

\* request_browser_cancellable
ResidentAsks ==
    /\ link.job # 0 /\ ~link.asked
    /\ LET cmd == CmdOf(ext, link.job)
           Give(response) == link' = Write(WriteChunked(link.job, response))
       IN  \/ /\ ProxyMissing(cmd) /\ Give(ErrorResponse("browser_passkey_proxy_disabled"))
              /\ UNCHANGED ext
           \/ /\ cmd \in {"activate_resident_app", "get_browser_integration_settings"}
              /\ LET response == Response(IF cmd = "activate_resident_app"
                                          THEN "resident_app_activated"
                                          ELSE "browser_integration_settings", ShortText)
                 IN  Give(response) /\ Ran(link.job, response)
           \/ /\ ~ProxyMissing(cmd)
              /\ cmd \notin {"activate_resident_app", "get_browser_integration_settings"}
              /\ IF site.worker THEN link' = [link EXCEPT !.asked = TRUE]
                 ELSE Give(ErrorResponse("runtime_unavailable"))
              /\ UNCHANGED ext
    /\ UNCHANGED <<site, troubles>>

\* The worker's own look at the setting, before it executes.
WorkerRefuses(cmd) == ProxyMissing(cmd)

\* The worker of the resident app executes the request; its deadline may pass
\* meanwhile, and a panic ends it.
ResidentRuns ==
    /\ link.asked /\ site.worker
    /\ LET id == link.job
           cmd == CmdOf(ext, id)
       IN  \/ /\ WorkerRefuses(cmd)
              /\ link' = Write(WriteChunked(id, ErrorResponse("browser_passkey_proxy_disabled")))
              /\ UNCHANGED <<ext, site, troubles>>
           \/ /\ ~WorkerRefuses(cmd)
              /\ \E response \in Outcomes(cmd) :
                   /\ \/ link' = Write(WriteChunked(id, response))
                      \/ link' = Write(WriteMessage(id, ErrorResponse("request_outcome_unknown")))
                   /\ Ran(id, response)
              /\ UNCHANGED <<site, troubles>>
           \/ /\ ~WorkerRefuses(cmd) /\ troubles < MaxTroubles /\ troubles' = troubles + 1
              /\ site' = [site EXCEPT !.worker = FALSE]
              /\ link' = Write(WriteChunked(id, ErrorResponse("runtime_unavailable")))
              /\ Ran(id, ErrorResponse("panic"))

\* The deadline of a request that has not been executed.
ResidentExpires ==
    /\ link.job # 0
    /\ link' = Write(WriteMessage(link.job, ErrorResponse(
                 IF link.asked THEN "request_outcome_unknown" ELSE "request_timeout")))
    /\ UNCHANGED <<ext, site, troubles>>

\* The host dies, or its pipe breaks.
HostDies ==
    /\ link.stage \notin {"none", "ended"} /\ troubles < MaxTroubles
    /\ link' = [link EXCEPT !.stage = "ended", !.inbox = 0, !.job = 0, !.asked = FALSE,
                            !.out = <<>>]
    /\ troubles' = troubles + 1
    /\ UNCHANGED <<ext, site>>

\* set_browser_integration_settings
ProxyToggled ==
    /\ On.host = "shim" /\ troubles < MaxTroubles
    /\ site' = [site EXCEPT !.proxy = ~@]
    /\ troubles' = troubles + 1
    /\ UNCHANGED <<ext, link>>

----------------------------------------------------------------------------

ChannelInit ==
    /\ ext = [bridge |-> [port |-> FALSE, gen |-> 1, active |-> 0, queue |-> <<>>,
                          chunks |-> NoChunks, reqs |-> <<>>, thrown |-> FALSE],
              nego |-> [id |-> 0, pending |-> FALSE, gen |-> 0, answer |-> NoAnswer],
              calls |-> [c \in Calls |-> [at |-> "idle", cmd |-> "none", big |-> FALSE,
                                          out |-> NoAnswer, ran |-> <<>>]]]
    /\ link = NoLink
    /\ \E on \in DOMAIN Sites, proxy \in BOOLEAN :
          /\ Sites[on].host = "loop" => ~proxy
          /\ site = [on |-> on, proxy |-> proxy, worker |-> TRUE]
    /\ troubles = 0

Micro == Settled \/ \E c \in Calls : Resume(c)

ChannelNext ==
    \/ \E c \in Calls : \E ask \in On.used : Begin(c, ask.cmd, ask.big)
    \/ Micro \/ Deliver \/ Timeout \/ PortClosed
    \/ HostStart \/ HostFails \/ HostAnswers \/ LoopRuns \/ ResidentAccepts \/ ResidentAsks
    \/ ResidentRuns \/ ResidentExpires \/ HostDies \/ ProxyToggled

\* What an await resumes runs, and timers fire.  Settled and Resume(c) are
\* enabled until they are taken and a step of each makes it disabled, so weak
\* fairness of either says that it is disabled again and again.
ChannelFairness ==
    /\ []<>~Settling
    /\ \A c \in Calls : []<>(ext.calls[c].at # "ready")
    /\ WF_channelVars(Timeout)

----------------------------------------------------------------------------
(* Properties. *)

\* Errors that say that the command was not executed.
NotExecuted ==
    {"protocol_handshake_required", "browser_command_forbidden", "capability_not_negotiated",
     "unsupported_version", "browser_passkey_proxy_disabled", "browser_origin_rejected",
     "browser_authentication_failed", "resident_unavailable",
     "resident_authentication_failed", "resident_connection_failed", "request_timeout"}

\* A command is executed at most once; a caller that gets its response gets it
\* unchanged, whole or put together from chunks; and an error that says the
\* command was not executed is true.
AnswersKept ==
    \A c \in Calls :
        LET call == ext.calls[c]
        IN  /\ Len(call.ran) <= 1
            /\ call.at = "done" /\ call.out.kind \notin {"error", "rejected"}
                 => Len(call.ran) = 1 /\ call.ran[1].response = call.out
            /\ call.out.code \in NotExecuted => call.ran = <<>>

\* What is executed for the browser was asked for by a browser and a shim that
\* the resident app knows, is a passkey command only while the proxy is enabled,
\* and prompts over no window but the browser's.
ExecutedFor ==
    \A c \in Calls : ext.calls[c].ran # <<>> /\ On.host = "shim" =>
        LET ran == ext.calls[c].ran[1]
            peers == On.peers
        IN  /\ peers.sid = peers.resident.sid /\ peers.browser.signer.chain
            /\ SignersMatch(peers.shim.signer, peers.resident.package.signer)
            /\ ext.calls[c].cmd \in ProxyCommand => ran.proxy
            /\ ran.window \in {"browser", "none"}

\* The connection is given up only for a message over the limit, and no command
\* reaches a host that has not negotiated, unless connectNative or postMessage
\* threw: then the transport may take the generation of no connection for a
\* negotiated one.  A startup request is never behind a preload.
ConnectionSound ==
    /\ \A c \in Calls :
         LET code == ext.calls[c].out.code
         IN  /\ code = "native_unknown" => troubles > 0 \/ \E d \in Calls : ext.calls[d].big
             /\ code = "protocol_handshake_required" => ext.bridge.thrown
    /\ LET line == (IF ext.bridge.active = 0 THEN <<>> ELSE <<ext.bridge.active>>)
                     \o ext.bridge.queue
       IN  \A i, j \in DOMAIN line :
             i < j /\ CmdOf(ext, line[i]) = "preload_current_vault"
                => ~StartupCommand(CmdOf(ext, line[j]))

\* Every call the extension makes is answered or rejected.
CallsSettle ==
    \A c \in Calls : ext.calls[c].at # "idle" ~> ext.calls[c].at = "done"
=============================================================================
