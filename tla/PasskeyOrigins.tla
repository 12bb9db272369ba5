--------------------------- MODULE PasskeyOrigins ---------------------------
(***************************************************************************)
(* Which web origins may use a relying party id: the checks of the         *)
(* ceremony ledger (runtime.rs) and of the authenticator (passkey.rs).     *)
(*                                                                         *)
(* A host is a sequence of labels in canonical form, an address or a       *)
(* loopback name a sequence of one label. An origin is                     *)
(* [scheme, host, port, bare]; bare is FALSE when the URL carries more     *)
(* than an origin (user, path, query, fragment).                           *)
(***************************************************************************)
EXTENDS Naturals, Sequences, SequencesExt

CONSTANTS
    LoopbackHosts,  \* localhost, 127.0.0.1, ::1
    IpHosts,        \* hosts that parse as IP addresses
    PublicSuffixes, \* the public suffix list
    NoOrigin        \* a top-level frame has no top origin

is_passkey_loopback_host(h) == h \in LoopbackHosts
is_ip_address(h) == h \in IpHosts

\* psl::domain_str(h).is_some(): h has a label before a public suffix.
HasDomain(h) == \E s \in PublicSuffixes : Len(s) < Len(h) /\ IsSuffix(s, h)

SubdomainOf(h, rp) == Len(rp) <= Len(h) /\ IsSuffix(rp, h)

\* The labels, their length and characters are part of the canonical form.
validate_passkey_relying_party_id(rp) ==
    is_passkey_loopback_host(rp) \/ is_ip_address(rp) \/ HasDomain(rp)

\* passkey.rs: the host rule, whatever the scheme.
origin_host_matches_relying_party(h, rp) ==
    IF {h, rp} \cap (LoopbackHosts \cup IpHosts) # {} THEN h = rp
    ELSE HasDomain(rp) /\ SubdomainOf(h, rp)

SecureScheme(o) == o.scheme = "https" \/ (o.scheme = "http" /\ is_passkey_loopback_host(o.host))

passkey_ceremony_origin_matches_relying_party(o, rp) ==
    IF o.scheme # "https"
    THEN o.scheme = "http" /\ is_passkey_loopback_host(o.host) /\ o.host = rp
    ELSE origin_host_matches_relying_party(o.host, rp)

\* An origin of an enclosing frame.
validate_passkey_ceremony_origin_value(o) == o.bare /\ SecureScheme(o)

\* Registration takes an unrelated origin too: its evidence comes in s2.
validate_passkey_ceremony_origin_and_relying_party_for_s0(o, rp) ==
    /\ validate_passkey_relying_party_id(rp)
    /\ o.bare
    /\ IF o.scheme # "https"
       THEN o.scheme = "http" /\ is_passkey_loopback_host(o.host) /\ o.host = rp
       ELSE \/ passkey_ceremony_origin_matches_relying_party(o, rp)
            \/ /\ {o.host, rp} \cap (LoopbackHosts \cup IpHosts) = {}
               /\ HasDomain(o.host)

can_accept_verified_related_origin(h, rp) ==
    {h, rp} \cap (LoopbackHosts \cup IpHosts) = {} /\ HasDomain(h) /\ HasDomain(rp)

\* passkey.rs, before a signature or a key is made.
validate_origin_for_relying_party(o, rp, relatedVerified) ==
    /\ o.bare /\ SecureScheme(o)
    /\ \/ origin_host_matches_relying_party(o.host, rp)
       \/ relatedVerified /\ can_accept_verified_related_origin(o.host, rp)

validate_platform_relying_party(rp) == validate_passkey_relying_party_id(rp)

origins_are_same_origin(a, b) ==
    a.bare /\ b.bare /\ [a EXCEPT !.bare = TRUE] = [b EXCEPT !.bare = TRUE]

\* A page [origin, top, ancestors, frame]: the position of its frame and the
\* origins around it agree.
FramesAgree(page) ==
    /\ page.frame = 0 => page.top = NoOrigin /\ page.ancestors = <<>>
    /\ page.frame # 0 => page.top # NoOrigin /\ page.ancestors # <<>>
    /\ page.top # NoOrigin => validate_passkey_ceremony_origin_value(page.top)
    /\ \A i \in DOMAIN page.ancestors : validate_passkey_ceremony_origin_value(page.ancestors[i])
    /\ page.ancestors # <<>> => origins_are_same_origin(page.top, Last(page.ancestors))

CrossOrigin(page) ==
    \/ page.top # NoOrigin /\ ~origins_are_same_origin(page.top, page.origin)
    \/ \E i \in DOMAIN page.ancestors : ~origins_are_same_origin(page.ancestors[i], page.origin)

\* clientDataJSON [type, origin, challenge, cross, top], compared with the
\* ceremony by the ledger and once more by the authenticator.
validate_passkey_ceremony_client_data(data, kind, page, challenge) ==
    /\ data.type = kind
    /\ origins_are_same_origin(data.origin, page.origin)
    /\ data.challenge = challenge
    /\ data.cross = CrossOrigin(page)
    /\ IF data.cross THEN data.top # NoOrigin /\ origins_are_same_origin(data.top, page.top)
       ELSE data.top = NoOrigin

validate_client_data_type(data, kind, page, challenge) ==
    data.origin = page.origin /\ validate_passkey_ceremony_client_data(data, kind, page, challenge)
=============================================================================
