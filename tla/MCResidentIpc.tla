--------------------------- MODULE MCResidentIpc ---------------------------
(***************************************************************************)
(* An instance of ResidentIpc for TLC, two requests that use one ID, and   *)
(* beside it an instance of the native messaging channel.  A behaviour is  *)
(* in one of the two scenes.                                               *)
(***************************************************************************)
EXTENDS ResidentIpc

CONSTANTS r1, r2, i1, MaxCalls, MaxResponse, ChunkBytes, MaxChunked, MaxChunks, MaxTroubles

OneId == [r \in {r1, r2} |-> i1]

VARIABLES scene, ext, link, site, troubles

Peers == INSTANCE PeerIdentity

Ask(cmd, big) == [cmd |-> cmd, big |-> big]
Startup == Ask("get_session_state", FALSE)
Preload == Ask("preload_current_vault", FALSE)

Site(host, skew, peers, calls, used) ==
    [host |-> host, skew |-> skew, peers |-> peers, window |-> "other",
     foreground |-> "browser", calls |-> calls, used |-> used, texts |-> {<<1>>}]

\* Two calls with long answers in both hosts, three to the command loop, an
\* extension of another version, commands the resident app answers itself, and
\* every installation with one thing different.
ChannelSites ==
    LET all == {Startup, Preload, Ask("create_passkey_registration", FALSE),
                Ask("persist_autofill_mutation", TRUE)}
        long == {<<1>>, <<1, 4, 1, 2>>, <<4, 4, 4>>}
    IN  <<[Site("shim", FALSE, Peers!Installed, 2, all) EXCEPT !.texts = long],
          [Site("loop", FALSE, Peers!Installed, 2, all) EXCEPT !.texts = long],
          Site("loop", FALSE, Peers!Installed, 3,
               {Startup, Preload, Ask("find_fill_candidates", FALSE)}),
          Site("shim", TRUE, Peers!Installed, 1, all),
          [Site("shim", FALSE, Peers!Installed, 1,
                {Ask("get_browser_integration_settings", FALSE),
                 Ask("activate_resident_app", FALSE)}) EXCEPT !.foreground = "none"]>>
        \o [i \in DOMAIN Peers!DifferentPeers |->
              Site("shim", FALSE, Peers!DifferentPeers[i], 1,
                   {Startup, Ask("create_passkey_registration", TRUE)})]

Channel == INSTANCE NativeChannel WITH Sites <- ChannelSites

MCInit ==
    /\ scene \in {"ipc", "channel"}
    /\ Init
    /\ Channel!ChannelInit
    /\ scene = "ipc" => site.on = 1 /\ ~site.proxy

MCNext ==
    \/ scene = "ipc" /\ Next /\ UNCHANGED <<scene, ext, link, site, troubles>>
    \/ scene = "channel" /\ Channel!ChannelNext /\ UNCHANGED <<scene, vars>>

MCSpec ==
    /\ MCInit /\ [][MCNext]_<<scene, vars, ext, link, site, troubles>>
    /\ Fairness /\ Channel!ChannelFairness

\* The native channel gives each caller the answer of its own command, which was
\* executed at most once and for peers that know each other; it gives a connection
\* up only when it must; and every call ends.
ChannelKept ==
    /\ [](Channel!AnswersKept /\ Channel!ExecutedFor /\ Channel!ConnectionSound)
    /\ Channel!CallsSettle
=============================================================================
