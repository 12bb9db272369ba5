---------------------------- MODULE PeerIdentity ----------------------------
(***************************************************************************)
(* How the native messaging shim, the browser that started it and the      *)
(* resident app recognise each other (resident_ipc.rs, windows.rs,         *)
(* windows/peer_auth.rs).  What Windows reports about a process is a       *)
(* record; names, paths and certificates are compared only for equality    *)
(* with what is expected, so a field says whether it is the expected one.  *)
(*                                                                         *)
(* A signature is what WinVerifyTrust and the certificate give: subject,   *)
(* organization, thumbprint, and whether the machine's chain is trusted.   *)
(* "" is a thumbprint that is not 64 hexadecimal digits.                   *)
(***************************************************************************)
EXTENDS Naturals, FiniteSets

Publisher == "publisher"
NoSigner == [subject |-> "", org |-> "", thumb |-> "", chain |-> FALSE]

\* expected_resident_package_identity, from the manifest
Expected == [exe |-> "vaultkern-windows.exe", name |-> "VaultKern", publisher |-> Publisher]

\* valid_sha256_thumbprint
ValidThumb(signer) == signer.thumb # ""

\* package_registration_is_signed
Signed(package) == package.kind # 0 /\ ~package.dev

\* resident_server_identity_for_process: the signature is read only for a
\* registration that is signed.
PackageSigner(package) == IF Signed(package) THEN package.signer ELSE NoSigner

\* authenticate_resident_server_identity
ResidentTrusted(r) ==
    /\ r.exe = Expected.exe
    /\ r.package.name = Expected.name /\ r.package.publisher = Expected.publisher
    /\ r.package.family = <<r.package.name, r.package.id>> /\ r.package.id # ""
    /\ PackageSigner(r.package) # NoSigner
    /\ PackageSigner(r.package).subject = Expected.publisher
    /\ ValidThumb(PackageSigner(r.package))
    /\ Signed(r.package)
    /\ r.path = <<r.package.root, Expected.exe>>

\* authenticate_native_shim_identity
ShimTrusted(s, publisher) ==
    /\ s.path = "Browser Integration"
    /\ s.signer # NoSigner /\ s.signer.subject = publisher /\ ValidThumb(s.signer)

\* authenticate_matching_signers
SignersMatch(a, b) ==
    /\ ValidThumb(a) /\ ValidThumb(b)
    /\ a.subject = b.subject /\ a.thumb = b.thumb

\* The organization that signs a browser.
BrowserOrg(exe) ==
    CASE exe = "chrome.exe" -> "Google LLC"
      [] exe = "msedge.exe" -> "Microsoft Corporation"
      [] OTHER -> "none"

\* trusted_browser_executable_paths: the known places where a browser is
\* installed.
TrustedPaths == {"Program Files", "Local AppData"}

\* authenticate_browser_identity
BrowserTrusted(b) ==
    /\ b.exe \in {"chrome.exe", "msedge.exe"}
    /\ b.path \in TrustedPaths
    /\ b.signer.org = BrowserOrg(b.exe) /\ b.signer.subject # "" /\ ValidThumb(b.signer)
    /\ b.signer.chain

\* authenticate_native_messaging_channel: one process holds both ends.
ChannelTrusted(peers) ==
    /\ peers.stdin # 0 /\ peers.stdin = peers.stdout
    /\ BrowserTrusted(peers.browser)

\* verify_pipe_server, by the shim.
ServerTrusted(peers) ==
    /\ peers.resident.sid = peers.sid
    /\ ResidentTrusted(peers.resident)
    /\ SignersMatch(PackageSigner(peers.resident.package), peers.shim.signer)

\* verify_pipe_client, by the resident app.
ClientTrusted(peers) ==
    /\ peers.sid = peers.resident.sid
    /\ ResidentTrusted(peers.resident)
    /\ ShimTrusted(peers.shim, PackageSigner(peers.resident.package).subject)
    /\ SignersMatch(PackageSigner(peers.resident.package), peers.shim.signer)

\* negotiate_client_hello, validate_server_hello
HelloAccepted(peers) ==
    /\ peers.ipcVersion = 1
    /\ {"request_ids", "cancellation"} \subseteq peers.ipcCaps
    /\ peers.stdin # 0

\* run_windows_native_messaging_shim up to the first message: the failure it
\* reports, or "none".  A shim that the resident app does not trust sees the
\* pipe close before the hello.
Startup(peers) ==
    IF peers.origin # "configured" THEN "browser_origin_rejected"
    ELSE IF ~ChannelTrusted(peers) THEN "browser_authentication_failed"
    ELSE IF ~ServerTrusted(peers) THEN "resident_authentication_failed"
    ELSE IF ~(ClientTrusted(peers) /\ HelloAccepted(peers)) THEN "resident_connection_failed"
    ELSE "none"

----------------------------------------------------------------------------
(* The window a verification prompt belongs to. *)

\* window_identity_for_sid: a window counts when it is one of the browser.
WindowOf(w) == IF w = "browser" THEN "browser" ELSE "none"

\* resolve_request_parent_window, select_request_parent_window: the foreground
\* window when it is the browser's, else the one the shim named.
ParentWindow(requested, foreground) ==
    IF WindowOf(foreground) # "none" THEN WindowOf(foreground) ELSE WindowOf(requested)

----------------------------------------------------------------------------
(* Processes as an installation has them, and with one thing different. *)

AppSigner == [subject |-> Publisher, org |-> "VaultKern", thumb |-> "app", chain |-> TRUE]
ChromeSigner == [subject |-> "Google", org |-> "Google LLC", thumb |-> "chrome", chain |-> TRUE]

Installed ==
    [origin |-> "configured", sid |-> "user", stdin |-> 1, stdout |-> 1,
     browser |-> [exe |-> "chrome.exe", path |-> "Program Files", signer |-> ChromeSigner],
     shim |-> [path |-> "Browser Integration", signer |-> AppSigner],
     resident |->
        [sid |-> "user", exe |-> Expected.exe, path |-> <<"WindowsApps", Expected.exe>>,
         package |-> [name |-> "VaultKern", publisher |-> Publisher, id |-> "id",
                      family |-> <<"VaultKern", "id">>, kind |-> 3, dev |-> FALSE,
                      root |-> "WindowsApps", signer |-> AppSigner]],
     ipcVersion |-> 1, ipcCaps |-> {"request_ids", "cancellation"}]

DifferentPeers ==
    <<[Installed EXCEPT !.origin = "other"], [Installed EXCEPT !.stdout = 2],
     [Installed EXCEPT !.stdin = 0, !.stdout = 0],
     [Installed EXCEPT !.browser.exe = "other.exe"],
     [Installed EXCEPT !.browser.exe = "msedge.exe"],
     [Installed EXCEPT !.browser.path = "Downloads"],
     [Installed EXCEPT !.browser.signer.chain = FALSE],
     [Installed EXCEPT !.resident.sid = "other"],
     [Installed EXCEPT !.resident.exe = "other.exe"],
     [Installed EXCEPT !.resident.path = <<"Downloads", Expected.exe>>],
     [Installed EXCEPT !.resident.package.dev = TRUE],
     [Installed EXCEPT !.resident.package.kind = 0],
     [Installed EXCEPT !.resident.package.family = <<"Other", "id">>],
     [Installed EXCEPT !.resident.package.signer.thumb = ""],
     [Installed EXCEPT !.resident.package.signer.subject = "other"],
     [Installed EXCEPT !.shim.path = "Downloads"],
     [Installed EXCEPT !.shim.signer.thumb = "older"],
     [Installed EXCEPT !.shim.signer.subject = "other"],
     [Installed EXCEPT !.ipcVersion = 2], [Installed EXCEPT !.ipcCaps = {"request_ids"}]>>
=============================================================================
