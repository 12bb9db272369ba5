----------------------------- MODULE MCPasskeys -----------------------------
EXTENDS Passkeys, TLC

Org(scheme, host) == [scheme |-> scheme, host |-> host, port |-> 443, bare |-> TRUE]
Site == <<"example", "com">>
Login == <<"login", "example", "com">>
Other == <<"example", "org">>
Top(origin) == [origin |-> origin, top |-> NoOrigin, ancestors |-> <<>>, frame |-> 0]
Framed(origin, top) == [origin |-> origin, top |-> top, ancestors |-> <<top>>, frame |-> 1]

Ask(kind, page, uv, tab, exclude) ==
    [kind |-> kind, page |-> page, rp |-> Site, user |-> "u", alg |-> -7, uv |-> uv, tab |-> tab,
     discoverable |-> kind = "get", exclude |-> exclude]

\* Registrations from the site and from a related site (which excludes what
\* the platform registered), an assertion, and
\* a page in a frame that is refused.
MCIdentities ==
    {Ask("create", Top(Org("https", Login)), "preferred", 1, {}),
     Ask("create", Top(Org("https", Other)), "required", 2, Ops),
     Ask("get", Top(Org("https", Site)), "required", 2, {}),
     Ask("create", Framed(Org("https", Site), Org("http", Other)), "preferred", 1, {})}

MCLoopbackHosts == {<<"localhost">>}
MCIpHosts == {<<"127.0.0.1">>}
MCPublicSuffixes == {<<"com">>, <<"org">>}
MCRp == Site

\* Entry e has credential c0 for the site's user, made by another program.
MCVault == "e" :> [cred |-> "c0", key |-> "c0", rp |-> Site, user |-> "u", backup |-> {}, edit |-> 0, hist |-> <<>>,
                   recycled |-> FALSE]

MCCredentials == Tokens \cup Ops \cup {"c0"}
Serial == CHOOSE f \in [MCCredentials -> 1..Cardinality(MCCredentials)] : \A c, d \in MCCredentials : f[c] = f[d] => c = d
MCCredentialBytes == [c \in MCCredentials |-> [i \in 1..16 |-> Serial[c]]]
MCPublicKey == [c \in MCCredentials |-> [x |-> [i \in 1..32 |-> 10 + Serial[c]], y |-> [i \in 1..32 |-> 20 + Serial[c]]]]
MCDigest == (Site :> [i \in 1..32 |-> 255]) @@ (Other :> [i \in 1..32 |-> 254])
MCHandleBytes == "u" :> 64
MCDevice == [resident |-> TRUE, password |-> TRUE, keyFile |-> FALSE, quickUnlock |-> FALSE]
MCSymmetry == Permutations(Tokens)
=============================================================================
