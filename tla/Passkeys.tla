------------------------------ MODULE Passkeys ------------------------------
(***************************************************************************)
(* Passkeys of one vault of the resident runtime: the ceremonies the       *)
(* browser extension carries through the ledger (phases s0 to s4), and     *)
(* the operations of the platform's passkey provider, which share the      *)
(* vault, its session and its file.                                        *)
(*                                                                         *)
(* The runtime handles one command at a time. The extension               *)
(* (webauthnProxy.ts) sends the commands of a ceremony in order, may be    *)
(* cancelled, and may be stopped and started again at any time.            *)
(***************************************************************************)
EXTENDS PasskeyAuthenticator, FiniteSets, FiniteSetsExt

CONSTANTS
    Tokens,       \* ceremonies
    Ops,          \* platform operations
    Identities,   \* what a page may ask: [kind, page, rp, user, alg, uv, tab, discoverable, exclude]
    Rp, User,     \* the relying party and user of platform registrations
    Device,       \* [resident, password, keyFile, quickUnlock]: how a user can be verified
    Locked,
    InitialVault, \* entry -> [cred, key, rp, user, backup, edit, hist, recycled]
    ClosePhases,  \* how the extension closes a ceremony: "aborted", "failed"
    Ttl,          \* time a ceremony may take
    MaxHistory,   \* history_max_items
    MaxTroubles,  \* bound on ticks, failures, restarts and what the user does
    MaxStarted    \* bound on ceremonies and operations

ASSUME PasskeyBounds ==
    {Ttl, MaxHistory, MaxTroubles, MaxStarted} \subseteq Nat /\ ClosePhases \subseteq {"aborted", "failed"}

VARIABLES
    ledger,  \* token -> ceremony, or None
    live,    \* the unlocked vault, or Locked
    file,    \* the vault as last saved
    gen,     \* session_generation
    leases,  \* operation -> lease, or None
    relock,  \* pending_platform_relock: a generation, or None
    now,
    conn,    \* the extension's connection
    client,  \* token -> how far the extension is
    site,    \* credentials handed to a web page or to the platform
    stored,  \* credentials that a saved vault has held
    fate,    \* credentials deleted, discarded, cut, published, abandoned, committed
    makers,  \* entry -> who has set its passkey
    proofs,  \* verifications of the user, per ceremony and operation
    uvAnswers, \* answers with the user-verified flag, likewise
    network, \* ceremonies whose related origin the extension has fetched
    answers, \* what relying parties were answered
    troubles

vars == <<ledger, live, file, gen, leases, relock, now, conn, client, site, stored, fate, makers,
          proofs, uvAnswers, network, answers, troubles>>

ghosts == <<site, stored, fate, makers, proofs, uvAnswers, network, answers>>

(***************************************************************************)
(* The vault. The entry a registration makes is named after its maker, as  *)
(* is the credential.                                                      *)
(***************************************************************************)

Active == {"s0", "s1", "s2", "s3", "s3b", "s4"}
Closed == {"aborted", "delivered", "failed"}
Makers == Tokens \cup Ops
Entries == Makers \cup DOMAIN InitialVault

\* Types. A vault is a function from its entries.
Snapshots == [cred : Credentials \cup {None}, edit : Nat]
Entry ==
    [cred : Credentials \cup {None}, key : Credentials \cup {None},
     rp : {id.rp : id \in Identities} \cup {Rp} \cup {InitialVault[e].rp : e \in DOMAIN InitialVault},
     user : {id.user : id \in Identities} \cup {User} \cup {InitialVault[e].user : e \in DOMAIN InitialVault},
     backup : SUBSET {"eligible", "state"}, edit : Nat, hist : Seq(Snapshots), recycled : BOOLEAN]
IsVault(v) == \E E \in SUBSET Entries : v \in [E -> Entry]
Rollback == [entry : Entries, cred : Makers, created : BOOLEAN, copy : Entry \cup {None}]
PasskeyCeremony ==
    [id : Identities, at : Nat, exp : Nat, conn : Nat, phase : Active \cup Closed,
     durable : {"none", "mutated", "saved", "committed"}, delivery : {"none", "delivered", "unknown"},
     proof : Nat \cup {None}, rollback : Rollback \cup {None}]
PlatformLease == [gen : Nat, consumed : BOOLEAN, rollback : Rollback \cup {None}]

CredsOf(v) == {v[e].cred : e \in DOMAIN v} \cup UNION {{h.cred : h \in Range(v[e].hist)} : e \in DOMAIN v}

\* Ids are new where they are made, and the absent values are values of their own.
ASSUME PasskeyNames ==
    /\ IsFiniteSet(Tokens) /\ Tokens \cap Ops = {} /\ Makers \subseteq Credentials
    /\ IsVault(InitialVault) /\ (DOMAIN InitialVault \cup CredsOf(InitialVault)) \cap Makers = {}
    /\ ~IsVault(None) /\ ~IsVault(Locked)
    /\ None \notin Credentials \cup Entries /\ None \notin Entry
    /\ None \notin Rollback /\ None \notin PasskeyCeremony /\ None \notin PlatformLease

Unlocked == live # Locked
MayStart == Cardinality({t \in Tokens : client[t] # "idle"}) + Cardinality({p \in Ops : proofs[p] > 0}) < MaxStarted

Without(v, e) == [x \in DOMAIN v \ {e} |-> v[x]]
With(v, e, r) == [x \in DOMAIN v \cup {e} |-> IF x = e THEN r ELSE v[x]]

\* visit_passkeys: entries in the recycle bin have none.
Visible(v) == {e \in DOMAIN v : v[e].cred # None /\ ~v[e].recycled}
WithCredential(v, c, rp) == {e \in Visible(v) : v[e].cred = c /\ v[e].rp = rp}
Collides(v, c) == \E e \in Visible(v) : v[e].cred = c

\* list_passkey_credentials, list_platform_passkey_credentials: an
\* ambiguous credential is not offered.
Offered(v, rp) ==
    {v[e].cred : e \in {e \in Visible(v) : v[e].rp = rp /\ Cardinality(WithCredential(v, v[e].cred, rp)) = 1}}

\* find_passkey_entry_id_by_relying_party_and_user_handle
RegisteredEntry(v, rp, user) ==
    LET S == {e \in Visible(v) : v[e].rp = rp /\ v[e].user = user}
    IN IF S = {} THEN None ELSE CHOOSE e \in S : TRUE

enforce_history_limits(h) == IF Len(h) > MaxHistory THEN SubSeq(h, Len(h) - MaxHistory + 1, Len(h)) ELSE h

Snapshot(r) == [cred |-> r.cred, edit |-> r.edit]

\* An entry that holds passkey pk.
EntryOf(pk, edit, hist, recycled) ==
    [cred |-> pk.cred, key |-> pk.key, rp |-> pk.rp, user |-> pk.user, backup |-> pk.backup,
     edit |-> edit, hist |-> hist, recycled |-> recycled]

\* The entry a registration makes when the user has none with the relying
\* party: without history.
CreatedEntry(pk) == EntryOf(pk, 0, <<>>, FALSE)

\* The vault once maker m has registered passkey pk.
WithRegistration(v, m, pk) ==
    LET e == RegisteredEntry(v, pk.rp, pk.user)
    IN IF e = None
       THEN With(v, m, CreatedEntry(pk))
       ELSE With(v, e, EntryOf(pk, v[e].edit, enforce_history_limits(Append(v[e].hist, Snapshot(v[e]))), v[e].recycled))

\* PasskeyRegistrationRollbackState: the entry as it was, without history.
RollbackState(v, m, rp, user) ==
    LET e == RegisteredEntry(v, rp, user)
    IN IF e = None THEN [entry |-> m, cred |-> m, created |-> TRUE, copy |-> None]
       ELSE [entry |-> e, cred |-> m, created |-> FALSE, copy |-> [v[e] EXCEPT !.hist = <<>>]]

\* history_matches_passkey_registration_rollback
HistoryMatches(r) == r.hist # <<>> /\ Last(r.hist).cred # None /\ Last(r.hist).cred # r.cred

entry_has_passkey_credential(v, e, c) == e \in DOMAIN v /\ v[e].cred = c

\* A rollback that does not look at whose credential the entry has.
RestoresAnyCredential(v, rb) ==
    IF rb.created THEN Without(v, rb.entry)
    ELSE IF rb.entry \notin DOMAIN v THEN None
    ELSE With(v, rb.entry, [rb.copy EXCEPT !.hist = v[rb.entry].hist, !.recycled = v[rb.entry].recycled])

\* restore_passkey_registration_rollback; None: the entry is not found. The
\* copy takes the place of the entry, in the recycle bin or outside.
restore_passkey_registration_rollback(v, rb) ==
    LET e == rb.entry
        kept == IF HistoryMatches(v[e]) THEN Front(v[e].hist) ELSE v[e].hist
    IN CASE rb.created -> IF entry_has_passkey_credential(v, e, rb.cred) THEN Without(v, e) ELSE v
         [] ~rb.created /\ e \notin DOMAIN v -> None
         [] OTHER -> IF entry_has_passkey_credential(v, e, rb.cred)
                     THEN With(v, e, [rb.copy EXCEPT !.hist = kept, !.recycled = v[e].recycled]) ELSE v

(***************************************************************************)
(* The ledger                                                              *)
(***************************************************************************)

Expired(c) == c.exp <= now

PrunesAll(L) == [t \in Tokens |-> IF L[t] # None /\ Expired(L[t]) THEN None ELSE L[t]]

\* prune_expired_passkey_ceremonies
prune_expired_passkey_ceremonies(L) ==
    [t \in Tokens |->
       IF L[t] # None /\ Expired(L[t]) /\ ~(L[t].phase = "s4" /\ L[t].id.kind = "create" /\ L[t].durable # "none")
       THEN None ELSE L[t]]

Admissible(id) ==
    /\ validate_passkey_ceremony_origin_and_relying_party_for_s0(id.page.origin, id.rp)
    /\ FramesAgree(id.page)

\* One ceremony at a time for an origin, relying party, tab and frame.
Collision(L, id) ==
    \E t \in Tokens : /\ L[t] # None /\ L[t].phase \notin Closed /\ L[t].exp > now
                      /\ L[t].id.page.origin = id.page.origin /\ L[t].id.rp = id.rp
                      /\ L[t].id.tab = id.tab /\ L[t].id.page.frame = id.page.frame

NewCeremony(id) ==
    [id |-> id, at |-> now, exp |-> now + Ttl, conn |-> conn, phase |-> "s0",
     durable |-> "none", delivery |-> "none", proof |-> None, rollback |-> None]

register_passkey_ceremony(t, id) ==
    LET L == prune_expired_passkey_ceremonies(ledger)
        ok == L[t] = None /\ Admissible(id) /\ ~Collision(L, id)
    IN /\ client[t] = "idle" /\ MayStart
       /\ ledger' = IF ok THEN [L EXCEPT ![t] = NewCeremony(id)] ELSE L
       /\ client' = [client EXCEPT ![t] = IF ok THEN "working" ELSE "done"]
       /\ UNCHANGED <<live, file, gen, leases, relock, now, conn, ghosts, troubles>>

ActiveEdges ==
    {<<"s0", "s1">>, <<"s1", "s2">>, <<"s1", "s3">>, <<"s2", "s3">>, <<"s3", "s3b">>, <<"s3", "s4">>, <<"s3b", "s4">>}

LegalWithoutOrigin(c, next, related) ==
    \/ <<c.phase, next>> \in ActiveEdges
    \/ c.phase \in Active /\ next \in {"aborted", "failed"}
    \/ c.phase = "s4" /\ next = "delivered"

\* is_legal_passkey_ceremony_transition
is_legal_passkey_ceremony_transition(c, next, related) ==
    LET matches == passkey_ceremony_origin_matches_relying_party(c.id.page.origin, c.id.rp)
    IN /\ related => <<c.phase, next>> = <<"s2", "s3">>
       /\ \/ /\ <<c.phase, next>> \in ActiveEdges
             /\ <<c.phase, next>> = <<"s1", "s2">> => ~matches
             /\ <<c.phase, next>> = <<"s1", "s3">> => matches
             /\ <<c.phase, next>> = <<"s2", "s3">> => related
          \/ c.phase \in Active /\ next \in {"aborted", "failed"}
          \/ c.phase = "s4" /\ next = "delivered"

AdvanceAllowed(c, next, related) ==
    /\ is_legal_passkey_ceremony_transition(c, next, related)
    /\ next = "delivered" /\ c.id.kind = "create" => c.durable = "committed"
    /\ next \notin Closed => ~Expired(c)

AdvancedSilently(c, next) == [c EXCEPT !.phase = next]

Advanced(c, next) ==
    [c EXCEPT !.phase = next, !.delivery = IF next = "delivered" THEN "delivered" ELSE @]

AtWork(t) == client[t] \in {"working", "resolved"}

\* The extension reads the vault in s3: whether it has a credential the site
\* excludes, or which credentials there are to choose from.
Resolves(id) == IF id.kind = "create" THEN id.exclude # {} ELSE id.discoverable

\* validate_passkey_ceremony_for_s3_read
validate_passkey_ceremony_for_s3_read(t) ==
    ledger[t] # None /\ ledger[t].phase = "s3" /\ validate_passkey_relying_party_id(ledger[t].id.rp) /\ ~Expired(ledger[t])

passkey_credential_status(v, c, rp) == WithCredential(v, c, rp) # {}

\* The extension goes on when nothing is excluded, and something to choose.
ResolveCredentials(t) ==
    LET id == ledger[t].id
    IN /\ client[t] = "working" /\ validate_passkey_ceremony_for_s3_read(t) /\ Resolves(id) /\ Unlocked
       /\ IF id.kind = "create" THEN \A c \in id.exclude : ~passkey_credential_status(live, c, id.rp)
          ELSE Offered(live, id.rp) # {}
       /\ client' = [client EXCEPT ![t] = "resolved"]
       /\ UNCHANGED <<ledger, live, file, gen, leases, relock, now, conn, ghosts, troubles>>

\* advance_passkey_ceremony_phase up to s4, as the extension goes on.
advance_passkey_ceremony_phase(t, next, related) ==
    LET c == ledger[t]
    IN /\ AtWork(t) /\ c # None /\ c.phase \in Active \ {"s4"}
       /\ next \in Active /\ (next = "s3b" => c.id.kind = "get")
       /\ c.phase = "s3" /\ Resolves(c.id) => client[t] = "resolved"
       /\ AdvanceAllowed(c, next, related)
       /\ ledger' = [ledger EXCEPT ![t] = Advanced(c, next)]
       /\ network' = IF related THEN network \cup {t} ELSE network
       /\ UNCHANGED <<live, file, gen, leases, relock, now, conn, client, site, stored, fate, makers,
                      proofs, uvAnswers, answers, troubles>>

\* A page or the user cancels before s4, or the ceremony's time is over.
CloseEarly(t, next) ==
    LET c == ledger[t]
    IN /\ AtWork(t) /\ c # None /\ c.phase \in Active \ {"s4"}
       /\ next \in ClosePhases /\ AdvanceAllowed(c, next, FALSE)
       /\ ledger' = [ledger EXCEPT ![t] = Advanced(c, next)]
       /\ client' = [client EXCEPT ![t] = "done"]
       /\ UNCHANGED <<live, file, gen, leases, relock, now, conn, ghosts, troubles>>

\* The key derived from the password is compared with the session's; the
\* resident app alone may derive it, and a key file is not asked for.
verify_passkey_user_with_master_password == Unlocked /\ Device.resident /\ Device.password /\ ~Device.keyFile

\* The platform asks the user, whose vault has a quick unlock record.
verify_passkey_user_with_quick_unlock == Unlocked /\ Device.quickUnlock

passkey_user_verification_capability ==
    {m \in {"master_password", "quick_unlock"} :
       IF m = "quick_unlock" THEN verify_passkey_user_with_quick_unlock ELSE verify_passkey_user_with_master_password}

\* verify_passkey_user: the extension asks for a method that is possible, or
\* names the one by which the user has just unlocked the vault. An attempt
\* that fails changes nothing.
verify_passkey_user(t) ==
    LET c == ledger[t]
    IN /\ AtWork(t) /\ c # None /\ c.phase \in {"s1", "s3b"} /\ c.id.uv # "discouraged"
       /\ ~Expired(c) /\ passkey_user_verification_capability # {} /\ c.proof = None
       /\ ledger' = [ledger EXCEPT ![t] = [c EXCEPT !.proof = now]]
       /\ proofs' = [proofs EXCEPT ![t] = @ + 1]
       /\ UNCHANGED <<live, file, gen, leases, relock, now, conn, client, site, stored, fate, makers,
                      uvAnswers, network, answers, troubles>>

passkey_user_verification_is_valid(c) ==
    c.proof # None /\ c.at <= c.proof /\ c.proof <= now /\ c.proof <= c.exp

\* consume_passkey_ceremony_user_verification
Consumed(c) == [c EXCEPT !.proof = None]

ClientData(id, challenge) ==
    [type |-> id.kind, origin |-> id.page.origin, challenge |-> challenge,
     cross |-> CrossOrigin(id.page), top |-> IF CrossOrigin(id.page) THEN id.page.top ELSE NoOrigin]

\* validate_passkey_ceremony_for_s4
validate_passkey_ceremony_for_s4(t, kind) ==
    LET c == ledger[t]
    IN /\ c # None /\ c.phase = "s4" /\ c.id.kind = kind /\ ~Expired(c)
       /\ validate_passkey_ceremony_client_data(ClientData(c.id, t), kind, c.id.page, t)

RequirementMet(c) == c.id.uv = "required" => passkey_user_verification_is_valid(c)

\* What a relying party reads of an answer: a registration is
\* [maker, kind, cred, rp, flags, keys, handle], an assertion [maker, kind, cred, rp,
\* flags, key, handle].
ReadOfRegistration(m, pk, data) == [maker |-> m, kind |-> "create", handle |-> pk.user] @@ RegistrationRead(data)
ReadOfAssertion(m, r) ==
    [maker |-> m, kind |-> "get", cred |-> r.credential_id, rp |-> RpOf(r.data), flags |-> FlagsOf(r.data),
     key |-> IF r.signature.over = r.data THEN r.signature.key ELSE None, handle |-> r.user_handle]

Answers(m, read) ==
    /\ uvAnswers' = [uvAnswers EXCEPT ![m] = IF Flag(read.flags, AUTH_DATA_FLAG_USER_VERIFIED) THEN @ + 1 ELSE @]
    /\ answers' = answers \cup {read}

Request(c, t, related) ==
    [rp |-> c.id.rp, user |-> c.id.user, alg |-> c.id.alg, page |-> c.id.page, discoverable |-> c.id.discoverable,
     uv |-> passkey_user_verification_is_valid(c), related |-> related, data |-> ClientData(c.id, t), challenge |-> t]

\* create_passkey_assertion: present is the extension's own prompt, related
\* its claim about the origin.
create_passkey_assertion(t, present, related) ==
    LET c == ledger[t]
        relevant == {e \in Visible(live) : live[e].rp = c.id.rp}
        asks == validate_passkey_ceremony_for_s4(t, "get") /\ RequirementMet(c)
                /\ (present \/ passkey_user_verification_is_valid(c)) /\ Unlocked
        signed(e) == IF live[e].cred \notin Offered(live, c.id.rp) THEN Refused
                     ELSE create_assertion(live[e], [cred |-> live[e].cred, present |-> present] @@ Request(c, t, related))
    IN /\ AtWork(t) /\ c # None /\ c.phase = "s4" /\ c.id.kind = "get"
       /\ \/ \E e \in IF asks THEN relevant ELSE {} :
               /\ signed(e) # Refused
               /\ ledger' = [ledger EXCEPT ![t] = Consumed(c)]
               /\ client' = [client EXCEPT ![t] = "committed"]
               /\ Answers(t, ReadOfAssertion(t, signed(e)))
          \/ /\ asks => \A e \in relevant : signed(e) = Refused
             /\ client' = [client EXCEPT ![t] = "failing"]
             /\ UNCHANGED <<ledger, uvAnswers, answers>>
       /\ UNCHANGED <<live, file, gen, leases, relock, now, conn, site, stored, fate, makers, proofs,
                      network, troubles>>

(***************************************************************************)
(* Registration in s4                                                      *)
(***************************************************************************)

\* What the limit cuts off the history of an entry is in the vault no more.
HistoryCuts == fate' = [fate EXCEPT !.cut = @ \cup (CredsOf(live) \ CredsOf(live'))]

Step(t, to) == client' = [client EXCEPT ![t] = to]
Makes(e, m) == makers' = [x \in DOMAIN makers \cup {e} |->
                            IF x = e THEN (IF x \in DOMAIN makers THEN makers[x] ELSE {}) \cup {m} ELSE makers[x]]

\* create_passkey_registration: the rollback state is in the ledger before
\* the vault changes (Snapshot), and the ceremony is Mutated afterwards. The
\* page is answered the credential id read out of the authenticator data.
create_passkey_registration(t, related) ==
    LET c == ledger[t]
        asks == /\ validate_passkey_ceremony_for_s4(t, "create") /\ Unlocked
                /\ validate_passkey_registration_parameters(c.id.user, c.id.alg)
        made == IF asks /\ RequirementMet(c) THEN create_registration_with_credential_id(Request(c, t, related), t)
                ELSE Refused
        makes == made # Refused /\ ~Collides(live, t)
        rb == RollbackState(live, t, c.id.rp, c.id.user)
    IN /\ AtWork(t) /\ c # None /\ c.phase = "s4" /\ c.id.kind = "create"
       /\ \/ /\ makes
             /\ live' = WithRegistration(live, t, made.passkey) /\ HistoryCuts
             /\ ledger' = [ledger EXCEPT ![t] = [Consumed(c) EXCEPT !.durable = "mutated", !.rollback = rb]]
             /\ Step(t, "created") /\ Makes(rb.entry, t)
             /\ Answers(t, ReadOfRegistration(t, made.passkey, auth_data_from_attestation_object(made.attestation_object)))
          \/ /\ ~makes
             /\ ledger' = IF asks THEN [ledger EXCEPT ![t] = Consumed(c)] ELSE ledger
             /\ Step(t, "failing")
             /\ UNCHANGED <<live, fate, uvAnswers, answers, makers>>
       /\ UNCHANGED <<file, gen, leases, relock, now, conn, site, stored, proofs, network, troubles>>

(***************************************************************************)
(* Saves and rollbacks, on what they change: [ledger, live, file, stored,  *)
(* fate].                                                               *)
(***************************************************************************)

Store == [ledger |-> ledger, live |-> live, file |-> file, stored |-> stored, fate |-> fate]
Becomes(st) ==
    ledger' = st.ledger /\ live' = st.live /\ file' = st.file /\ stored' = st.stored /\ fate' = st.fate

\* A save for one registration publishes the others under way, too.
Uncommitted(st, m) == IF m \in Tokens THEN st.ledger[m] # None /\ st.ledger[m].durable = "mutated"
                      ELSE leases[m] # None /\ leases[m].rollback # None
Saved(st, by) ==
    [st EXCEPT !.file = st.live, !.stored = @ \cup CredsOf(st.live),
               !.fate.published = @ \cup ({m \in Makers : Uncommitted(st, m)} \ {by})]

\* Locking drops what only the unlocked vault holds.
Discards(ex) == [ex EXCEPT !.discarded = @ \cup {t \in Tokens : ledger[t] # None /\ ledger[t].durable = "mutated"}]

\* save_vault fails, or reaches only a conflict copy.
MayFail(fails) == troubles' = troubles + Cardinality(fails) /\ troubles' <= MaxTroubles
Trouble == troubles < MaxTroubles /\ troubles' = troubles + 1

\* The ceremony closed without a rollback state, the vault as given.
Closing(st, t, next, v) ==
    [st EXCEPT !.ledger[t] = [@ EXCEPT !.phase = next, !.durable = "none", !.rollback = None], !.live = v]

\* abort_passkey_registration; ok is the answer.
abort_passkey_registration(st, t, next, saveFails) ==
    LET c == st.ledger[t]
        v == IF c.rollback = None THEN st.live ELSE restore_passkey_registration_rollback(st.live, c.rollback)
        saves == c.rollback # None /\ c.durable = "saved"
        closed == Closing(st, t, next, v)
    IN IF c.durable = "committed" \/ (c.rollback # None /\ (st.live = Locked \/ v = None)) THEN [st |-> st, ok |-> FALSE]
       ELSE IF saves /\ saveFails THEN [st |-> [st EXCEPT !.live = v], ok |-> FALSE]
       ELSE [st |-> IF saves THEN Saved(closed, t) ELSE closed, ok |-> TRUE]

\* A conflict copy taken for a save.
SavesAnyway(t, fails) ==
    LET c == ledger[t]
        asks == c # None /\ c.phase = "s4" /\ ~Expired(c) /\ c.rollback # None /\ Unlocked
    IN /\ client[t] = "created" /\ asks
       /\ Becomes([(IF fails THEN Store ELSE Saved(Store, t)) EXCEPT !.ledger[t].durable = "saved"])
       /\ Step(t, "saved")
       /\ MayFail(IF fails THEN {t} ELSE {})
       /\ UNCHANGED <<gen, leases, relock, now, conn, site, makers, proofs, uvAnswers, network, answers>>

\* save_passkey_registration: a ceremony closed meanwhile is answered as
\* saved.
save_passkey_registration(t, fails) ==
    LET c == ledger[t]
        late == c # None /\ c.phase \in Closed
        asks == c # None /\ c.phase = "s4" /\ ~Expired(c) /\ c.rollback # None /\ Unlocked
        ok == asks /\ ~fails
    IN /\ client[t] = "created" /\ (fails => asks)
       /\ Becomes(IF ok THEN [Saved(Store, t) EXCEPT !.ledger[t].durable = "saved"] ELSE Store)
       /\ Step(t, IF ok \/ late THEN "saved" ELSE "failing")
       /\ MayFail(IF fails THEN {t} ELSE {})
       /\ UNCHANGED <<gen, leases, relock, now, conn, site, makers, proofs, uvAnswers, network, answers>>

\* commit_passkey_registration
commit_passkey_registration(t) ==
    LET c == ledger[t]
        late == c # None /\ c.phase \in Closed
        ok == c # None /\ c.phase = "s4" /\ ~Expired(c) /\ c.durable = "saved" /\ c.rollback # None
    IN /\ client[t] = "saved"
       /\ ledger' = IF ok THEN [ledger EXCEPT ![t].durable = "committed", ![t].rollback = None] ELSE ledger
       /\ Step(t, IF ok \/ late THEN "committed" ELSE "failing")
       /\ fate' = IF ok THEN [fate EXCEPT !.committed = @ \cup {t}] ELSE fate
       /\ UNCHANGED <<live, file, gen, leases, relock, now, conn, site, stored, makers, proofs, uvAnswers, network,
                      answers, troubles>>

\* The page gets its credential or assertion (completeCreateRequest).
Complete(t) ==
    /\ client[t] = "committed" /\ Step(t, "completed")
    /\ site' = IF ledger[t] # None /\ ledger[t].id.kind = "create" THEN site \cup {t} ELSE site
    /\ UNCHANGED <<ledger, live, file, gen, leases, relock, now, conn, stored, fate, makers, proofs, uvAnswers,
                   network, answers, troubles>>

\* mark_passkey_ceremony_unknown_delivery
mark_passkey_ceremony_unknown_delivery(c) ==
    IF c.phase = "s4" /\ c.durable = (IF c.id.kind = "create" THEN "committed" ELSE "none")
    THEN [c EXCEPT !.phase = "delivered", !.delivery = "unknown"] ELSE c

\* Delivery is confirmed, or known to be doubtful when the page is gone.
Confirm(t) ==
    /\ client[t] \in {"committed", "completed"}
    /\ ledger' = IF ledger[t] = None THEN ledger
                 ELSE [ledger EXCEPT ![t] =
                         IF client[t] = "completed" /\ AdvanceAllowed(@, "delivered", FALSE)
                         THEN Advanced(@, "delivered") ELSE mark_passkey_ceremony_unknown_delivery(@)]
    /\ Step(t, "done")
    /\ UNCHANGED <<live, file, gen, leases, relock, now, conn, ghosts, troubles>>

\* The extension aborts a failed or cancelled registration; when the abort
\* fails too it closes the ceremony without one.
Abort(t, next, fails) ==
    LET c == ledger[t]
        r == abort_passkey_registration(Store, t, next, fails)
    IN /\ client[t] \in {"failing", "created", "saved"} /\ next \in ClosePhases
       /\ c # None /\ c.phase = "s4" /\ c.id.kind = "create" /\ (fails => c.durable = "saved" /\ Unlocked)
       /\ Becomes(r.st) /\ Step(t, IF r.ok THEN "done" ELSE "stuck")
       /\ MayFail(IF fails THEN {t} ELSE {})
       /\ UNCHANGED <<gen, leases, relock, now, conn, site, makers, proofs, uvAnswers, network, answers>>

CloseWithoutRollback(t) ==
    LET c == ledger[t]
        open == c # None /\ c.phase \in Active
    IN /\ client[t] = "stuck" \/ (client[t] = "failing" /\ ~(c # None /\ c.phase = "s4" /\ c.id.kind = "create"))
       /\ Step(t, "done")
       /\ ledger' = IF open THEN [ledger EXCEPT ![t] = Advanced(c, "failed")] ELSE ledger
       /\ fate' = IF open THEN [fate EXCEPT !.abandoned = @ \cup {t}] ELSE fate
       /\ UNCHANGED <<live, file, gen, leases, relock, now, conn, site, stored, makers, proofs, uvAnswers, network,
                      answers, troubles>>

(***************************************************************************)
(* The extension stops, and the next one connects anew. The runtime is     *)
(* asked to settle what was left open when an extension starts and before  *)
(* each registration.                                                      *)
(***************************************************************************)

Restart ==
    /\ Trouble
    /\ conn' = conn + 1
    /\ client' = [t \in Tokens |-> IF client[t] \in {"idle", "done"} THEN client[t] ELSE "gone"]
    /\ UNCHANGED <<ledger, live, file, gen, leases, relock, now, ghosts>>

LeftOpen(c) == c # None /\ c.phase = "s4" /\ c.delivery = "none" /\ (c.conn # conn \/ Expired(c))

\* Answers may still be on their way to an extension that goes on.
Overtaken(t) == client[t] \in {"created", "saved"}

reconcile_passkey_ceremony_ledger(fails) ==
    LET due == {t \in Tokens : LeftOpen(ledger[t])}
        toAbort == {t \in due : ledger[t].id.kind = "create" /\ ledger[t].durable \in {"mutated", "saved"}}
        marked == [t \in Tokens |-> IF t \in due /\ ledger[t].durable = "committed"
                                    THEN [ledger[t] EXCEPT !.phase = "delivered", !.delivery = "unknown"] ELSE ledger[t]]
        rolled == FoldLeft(LAMBDA st, t : abort_passkey_registration(st, t, "failed", t \in fails).st,
                           [Store EXCEPT !.ledger = marked], SetToSeq(toAbort))
    IN /\ due # {} /\ fails \subseteq {t \in toAbort : ledger[t].durable = "saved"}
       /\ Becomes([rolled EXCEPT !.fate.discarded =
                     @ \cup {t \in toAbort : Overtaken(t) /\ rolled.ledger[t].phase = "failed"}])
       /\ MayFail(fails)
       /\ UNCHANGED <<gen, leases, relock, now, conn, client, site, makers, proofs, uvAnswers, network, answers>>

(***************************************************************************)
(* Platform operations                                                     *)
(***************************************************************************)

\* prepare_platform_passkey_operation: a locked vault is unlocked for it.
prepare_platform_passkey_operation(p) ==
    /\ leases[p] = None /\ proofs[p] = 0 /\ MayStart
    /\ live' = IF Unlocked THEN live ELSE file
    /\ gen' = IF Unlocked THEN gen ELSE gen + 1
    /\ relock' = IF Unlocked THEN relock ELSE gen + 1
    /\ leases' = [leases EXCEPT ![p] = [gen |-> gen', consumed |-> FALSE, rollback |-> None]]
    /\ proofs' = [proofs EXCEPT ![p] = 1]
    /\ UNCHANGED <<ledger, file, now, conn, client, site, stored, fate, makers, uvAnswers, network, answers, troubles>>

ConsumesAgain(p) == leases[p] # None /\ Unlocked /\ leases[p].gen = gen
\* consume_platform_passkey_operation_verification
MayConsume(p) == leases[p] # None /\ Unlocked /\ leases[p].gen = gen /\ ~leases[p].consumed

PlatformRequest(cred) == [rp |-> Rp, user |-> User, alg |-> ES256_COSE_ALGORITHM, uv |-> TRUE, cred |-> cred]

\* The verification is consumed before anything else is looked at.
register_platform_passkey_for_operation(p) ==
    LET rb == RollbackState(live, p, Rp, User)
        made == create_platform_registration_with_credential_id(PlatformRequest(p), p)
    IN /\ MayConsume(p)
       /\ IF made # Refused /\ ~Collides(live, p)
          THEN /\ leases' = [leases EXCEPT ![p].consumed = TRUE, ![p].rollback = rb]
               /\ live' = WithRegistration(live, p, made.passkey) /\ HistoryCuts
               /\ Makes(rb.entry, p) /\ Answers(p, ReadOfRegistration(p, made.passkey, made.data))
          ELSE leases' = [leases EXCEPT ![p].consumed = TRUE] /\ UNCHANGED <<live, fate, makers, uvAnswers, answers>>
       /\ UNCHANGED <<ledger, file, gen, relock, now, conn, client, site, stored, proofs, network, troubles>>

\* The first credential of the relying party, which must be the only one of
\* its id; one that has no user handle is not listed.
create_platform_passkey_assertion_for_operation(p) ==
    /\ MayConsume(p)
    /\ leases' = [leases EXCEPT ![p].consumed = TRUE]
    /\ \/ \E e \in {e \in Visible(live) : live[e].cred \in Offered(live, Rp) /\ live[e].rp = Rp} :
            LET signed == create_platform_assertion(live[e], PlatformRequest(live[e].cred))
            IN signed # Refused /\ Answers(p, ReadOfAssertion(p, signed))
       \/ Offered(live, Rp) = {} /\ UNCHANGED <<uvAnswers, answers>>
    /\ UNCHANGED <<ledger, live, file, gen, relock, now, conn, client, site, stored, fate, makers, proofs, network, troubles>>

\* commit_platform_passkey_registration: the vault is saved, and the answer
\* depends on the credential being in it; otherwise it is rolled back.
commit_platform_passkey_registration(p, rb, fails) ==
    LET st == IF fails THEN Store ELSE Saved(Store, p)
        ok == ~fails /\ entry_has_passkey_credential(st.live, rb.entry, rb.cred)
        v == restore_passkey_registration_rollback(st.live, rb)
    IN [ok |-> ok, st |-> IF ok \/ v = None THEN st ELSE [st EXCEPT !.live = v]]

commit_platform_passkey_registration_operation(p, fails) ==
    /\ leases[p] # None /\ Unlocked /\ leases[p].gen = gen /\ leases[p].rollback # None
    /\ LET r == commit_platform_passkey_registration(p, leases[p].rollback, fails)
           settled == CASE r.ok -> [r.st EXCEPT !.fate.committed = @ \cup {p}]
                        [] ~r.ok /\ fails -> r.st
                        [] OTHER -> [r.st EXCEPT !.fate.published = @ \cup {p}]
       IN Becomes(settled) /\ site' = IF r.ok THEN site \cup {p} ELSE site
    /\ leases' = [leases EXCEPT ![p].rollback = None]
    /\ MayFail(IF fails THEN {p} ELSE {})
    /\ UNCHANGED <<gen, relock, now, conn, client, makers, proofs, uvAnswers, network, answers>>

\* end_platform_passkey_operation: what was not committed is rolled back,
\* and the vault locked again after the last operation it was unlocked for.
end_platform_passkey_operation(p) ==
    LET rb == leases[p].rollback
        v == IF rb = None \/ ~Unlocked THEN live ELSE restore_passkey_registration_rollback(live, rb)
        others == {q \in Ops \ {p} : leases[q] # None /\ leases[q].gen = relock}
        locking == relock # None /\ others = {} /\ gen = relock
    IN /\ leases[p] # None
       /\ leases' = [leases EXCEPT ![p] = None]
       /\ live' = IF locking THEN Locked ELSE IF v = None THEN live ELSE v
       /\ gen' = IF locking THEN gen + 1 ELSE gen
       /\ relock' = IF locking THEN None ELSE relock
       /\ fate' = IF locking THEN Discards(fate) ELSE fate
       /\ UNCHANGED <<ledger, file, now, conn, client, site, stored, makers, proofs, uvAnswers, network, answers, troubles>>

(***************************************************************************)
(* The user and the desktop application                                    *)
(***************************************************************************)

EditEntry(e) ==
    /\ Unlocked /\ Trouble /\ e \in DOMAIN live
    /\ live' = [live EXCEPT ![e].edit = @ + 1, ![e].hist = enforce_history_limits(Append(@, Snapshot(live[e])))]
    /\ HistoryCuts
    /\ UNCHANGED <<ledger, file, gen, leases, relock, now, conn, client, site, stored, makers, proofs, uvAnswers,
                   network, answers>>

\* recycle_entry, delete_entry
RemoveEntry(e, forGood) ==
    /\ Unlocked /\ Trouble /\ e \in DOMAIN live
    /\ live' = IF forGood THEN Without(live, e) ELSE [live EXCEPT ![e].recycled = TRUE]
    /\ fate' = [fate EXCEPT !.deleted = @ \cup {live[e].cred} \cup {h.cred : h \in Range(live[e].hist)}]
    /\ UNCHANGED <<ledger, file, gen, leases, relock, now, conn, client, site, stored, makers, proofs, uvAnswers,
                   network, answers>>

SaveVault ==
    /\ Unlocked /\ file # live /\ Trouble
    /\ Becomes(Saved(Store, None))
    /\ UNCHANGED <<gen, leases, relock, now, conn, client, site, makers, proofs, uvAnswers, network, answers>>

\* try_lock_session
Lock ==
    /\ Unlocked /\ Trouble /\ \A p \in Ops : leases[p] = None
    /\ live' = Locked /\ gen' = gen + 1 /\ relock' = None
    /\ fate' = Discards(fate)
    /\ UNCHANGED <<ledger, file, leases, now, conn, client, site, stored, makers, proofs, uvAnswers, network, answers>>

Unlock ==
    /\ ~Unlocked
    /\ live' = file /\ gen' = gen + 1 /\ relock' = None
    /\ UNCHANGED <<ledger, file, leases, now, conn, client, ghosts, troubles>>

Tick ==
    /\ Trouble /\ now' = now + 1
    /\ UNCHANGED <<ledger, live, file, gen, leases, relock, conn, client, ghosts>>

Init ==
    /\ ledger = [t \in Tokens |-> None]
    /\ live = InitialVault /\ file = InitialVault
    /\ gen = 0 /\ leases = [p \in Ops |-> None] /\ relock = None
    /\ now = 0 /\ conn = 1
    /\ client = [t \in Tokens |-> "idle"]
    /\ site = CredsOf(InitialVault) /\ stored = CredsOf(InitialVault)
    /\ fate = [deleted |-> {}, discarded |-> {}, cut |-> {}, published |-> {}, abandoned |-> {}, committed |-> {}]
    /\ makers = [e \in {} |-> {}]
    /\ proofs = [m \in Makers |-> 0] /\ uvAnswers = [m \in Makers |-> 0]
    /\ network = {} /\ answers = {}
    /\ troubles = 0

Ceremony(t) ==
    \/ \E id \in Identities : register_passkey_ceremony(t, id)
    \/ \E next \in Active, related \in BOOLEAN : advance_passkey_ceremony_phase(t, next, related)
    \/ \E next \in ClosePhases : CloseEarly(t, next)
    \/ verify_passkey_user(t)
    \/ ResolveCredentials(t)
    \/ \E present, related \in BOOLEAN : create_passkey_assertion(t, present, related)
    \/ \E related \in BOOLEAN : create_passkey_registration(t, related)
    \/ \E fails \in BOOLEAN : save_passkey_registration(t, fails)
    \/ commit_passkey_registration(t)
    \/ Complete(t)
    \/ Confirm(t)
    \/ \E next \in ClosePhases, fails \in BOOLEAN : Abort(t, next, fails)
    \/ CloseWithoutRollback(t)

Platform(p) ==
    \/ prepare_platform_passkey_operation(p)
    \/ register_platform_passkey_for_operation(p)
    \/ create_platform_passkey_assertion_for_operation(p)
    \/ \E fails \in BOOLEAN : commit_platform_passkey_registration_operation(p, fails)
    \/ end_platform_passkey_operation(p)

Next ==
    \/ \E t \in Tokens : Ceremony(t)
    \/ \E p \in Ops : Platform(p)
    \/ \E fails \in SUBSET Tokens : reconcile_passkey_ceremony_ledger(fails)
    \/ Restart
    \/ Unlocked /\ \E e \in DOMAIN live : EditEntry(e) \/ \E forGood \in BOOLEAN : RemoveEntry(e, forGood)
    \/ SaveVault \/ Lock \/ Unlock \/ Tick

Spec == Init /\ [][Next]_vars

(***************************************************************************)
(* Properties                                                              *)
(***************************************************************************)

\* Types of the ledger, the leases and the session; a rollback state is kept
\* exactly while a registration is mutated or saved and not yet settled, and
\* only a ceremony in s4 is settled that way.
TypeOK ==
    /\ \A t \in Tokens : ledger[t] # None =>
         /\ ledger[t].phase \in Active \cup Closed
         /\ ledger[t].durable \in {"none", "mutated", "saved", "committed"}
         /\ ledger[t].rollback # None <=> ledger[t].durable \in {"mutated", "saved"}
         /\ ledger[t].durable # "none" => ledger[t].phase \in {"s4"} \cup Closed
         /\ ledger[t].delivery # "none" <=> ledger[t].phase = "delivered"
    /\ \A p \in Ops : leases[p] # None => Unlocked /\ leases[p].gen = gen
    /\ relock # None => relock = gen /\ Unlocked /\ \E p \in Ops : leases[p] # None

\* A credential handed to a web page or to the platform has been saved with
\* the vault, at least in the history of its entry, whatever registrations,
\* rollbacks and saves came in between. Left out: entries the user removed,
\* credentials that another registration replaced and that the limit of the
\* history then cut off, and registrations that the runtime dropped (lock) or
\* rolled back (reconciliation) under an extension that was still at work.
SiteCredentialSaved == site \subseteq stored \cup fate.deleted \cup fate.cut \cup fate.discarded

\* A credential that a vault (unlocked or saved) holds for an entry belongs
\* to the ceremony or operation that can still undo it, unless it is
\* committed: an aborted or forgotten registration leaves no entry with its
\* credential. (The history of an entry may keep it: an edit between the
\* registration and its abort has put it there.) Left out: entries that
\* several registrations changed at a time, a registration that another save
\* published, and one that the extension closed after its abort had failed.
UncommittedIsAccounted ==
    \A v \in {live, file} \ {Locked} : \A e \in DOMAIN v :
      LET m == v[e].cred
      IN m \in Makers /\ makers[e] = {m} /\ m \notin fate.committed \cup fate.published \cup fate.abandoned =>
           IF m \in Ops THEN leases[m] # None /\ leases[m].rollback # None
           ELSE ledger[m] # None /\ ledger[m].phase = "s4" /\ ledger[m].rollback # None

\* One proof of user verification lets at most one answer carry the
\* user-verified flag, for ceremonies and for platform operations.
VerifiedOnce == \A m \in Makers : uvAnswers[m] <= proofs[m]

\* A ceremony is answered only for a page whose origin fits the relying
\* party, or whose related origin was declared verified in s2; what the
\* command itself claims about the origin does not matter.
AnsweredForOrigin ==
    \A a \in answers : a.maker \in Tokens /\ ledger[a.maker] # None =>
      a.maker \in network \/ SubdomainOf(ledger[a.maker].id.page.origin.host, ledger[a.maker].id.rp)

\* A relying party can use what it is answered. Out of a registration it reads
\* one credential and its key; every assertion with that credential, through
\* the browser or the platform and whatever was registered, rolled back and
\* saved in between, verifies under this key, names the same relying party,
\* the same backup flags and no other user.
AnswersVerify ==
    /\ \A a \in answers :
         Flag(a.flags, AUTH_DATA_FLAG_USER_PRESENT) /\ (a.kind = "create" => a.cred = {a.maker} /\ a.keys = {a.maker})
    /\ \A a \in answers, b \in answers : a.kind = "create" /\ b.kind = "get" /\ a.maker = b.cred =>
         /\ a.keys = {b.key} /\ a.rp = b.rp
         /\ \A f \in {AUTH_DATA_FLAG_BACKUP_ELIGIBLE, AUTH_DATA_FLAG_BACKUP_STATE} : Flag(a.flags, f) = Flag(b.flags, f)
         /\ b.handle \in {None, a.handle}

\* No rollback, of a ceremony or an operation, takes away a credential that a
\* page or the platform has: only its user and a later registration do.
RollbackKeepsOthers ==
    [][Unlocked /\ live' # Locked =>
         \A e \in DOMAIN live : live[e].cred \in site \ fate'.deleted =>
           \/ e \in DOMAIN live' /\ live'[e].cred = live[e].cred
           \/ e \in DOMAIN live' /\ live'[e].cred \in Makers /\ makers' # makers]_vars

\* Ceremonies and operations are answered for the right page and with no more
\* user verification than there was, and keep a rollback as long as one is owed.
CeremonySound == TypeOK /\ VerifiedOnce /\ AnsweredForOrigin /\ AnswersVerify
=============================================================================
