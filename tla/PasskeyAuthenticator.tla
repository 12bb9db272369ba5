------------------------ MODULE PasskeyAuthenticator ------------------------
(***************************************************************************)
(* The authenticator (passkey.rs): it makes the key of a registration and  *)
(* signs assertions. What it answers is a string of bytes that the relying *)
(* party takes apart; the bytes are modelled one by one, digests and       *)
(* coordinates of keys being constant strings.                             *)
(*                                                                         *)
(* A passkey is [cred, key, rp, user, backup]: backup is the set of its    *)
(* flags backup_eligible and backup_state that are set.                    *)
(***************************************************************************)
EXTENDS PasskeyOrigins, Integers

CONSTANTS
    Credentials,     \* credential ids and the private keys made with them
    CredentialBytes, \* [Credentials -> Seq(0..255)], base64url decoded
    PublicKey,       \* [Credentials -> [x, y : Seq(0..255)]], 32 bytes each
    Digest,          \* relying party -> its 32 bytes of SHA-256
    HandleBytes,     \* user -> number of bytes of the user handle
    None,
    Refused          \* the answer of a failed operation

ES256_COSE_ALGORITHM == -7
AUTH_DATA_FLAG_USER_PRESENT == 1
AUTH_DATA_FLAG_USER_VERIFIED == 4
AUTH_DATA_FLAG_BACKUP_ELIGIBLE == 8
AUTH_DATA_FLAG_BACKUP_STATE == 16
AUTH_DATA_FLAG_ATTESTED_CREDENTIAL_DATA == 64
WINDOWS_PLUGIN_AUTHENTICATOR_AAGUID ==
    <<200, 178, 244, 161, 125, 49, 78, 89, 154, 98, 15, 211, 182, 228, 199, 33>>
Zeros(n) == [i \in 1..n |-> 0]
If(b, flag) == IF b THEN flag ELSE 0
Flag(flags, flag) == (flags \div flag) % 2 = 1
BytesAt(bytes, from, n) == IF from + n <= Len(bytes) THEN SubSeq(bytes, from + 1, from + n) ELSE <<>>
Number(bytes) == FoldLeft(LAMBDA n, b : 256 * n + b, 0, bytes)

(***************************************************************************)
(* CBOR, as far as the authenticator writes it                             *)
(***************************************************************************)

cbor_major(major, value) ==
    LET prefix == 32 * major
    IN CASE value <= 23 -> <<prefix + value>>
         [] value \in 24..255 -> <<prefix + 24, value>>
         [] value \in 256..65535 -> <<prefix + 25, value \div 256, value % 256>>

cbor_i64(value) == IF value >= 0 THEN cbor_major(0, value) ELSE cbor_major(1, -1 - value)
cbor_bytes(bytes) == cbor_major(2, Len(bytes)) \o bytes

\* "fmt", "none", "attStmt" and "authData" as text.
Fmt == <<102, 109, 116>>
NoneText == <<110, 111, 110, 101>>
AttStmt == <<97, 116, 116, 83, 116, 109, 116>>
AuthData == <<97, 117, 116, 104, 68, 97, 116, 97>>
cbor_text(text) == cbor_major(3, Len(text)) \o text

cose_es256_public_key(key) ==
    cbor_major(5, 5) \o cbor_i64(1) \o cbor_i64(2) \o cbor_i64(3) \o cbor_i64(ES256_COSE_ALGORITHM)
      \o cbor_i64(-1) \o cbor_i64(1) \o cbor_i64(-2) \o cbor_bytes(key.x) \o cbor_i64(-3) \o cbor_bytes(key.y)

attestation_object(authData) ==
    cbor_major(5, 3) \o cbor_text(Fmt) \o cbor_text(NoneText) \o cbor_text(AttStmt) \o cbor_major(5, 0)
      \o cbor_text(AuthData) \o cbor_bytes(authData)

(***************************************************************************)
(* Authenticator data                                                      *)
(***************************************************************************)

assertion_flags(pk, uv) ==
    AUTH_DATA_FLAG_USER_PRESENT + If(uv, AUTH_DATA_FLAG_USER_VERIFIED)
      + If(pk.backup # {}, AUTH_DATA_FLAG_BACKUP_ELIGIBLE) + If("state" \in pk.backup, AUTH_DATA_FLAG_BACKUP_STATE)

authenticator_data(rp, pk, uv) == Digest[rp] \o <<assertion_flags(pk, uv)>> \o Zeros(4)

attested_authenticator_data(rp, id, cose, uv, aaguid) ==
    LET flags == AUTH_DATA_FLAG_USER_PRESENT + If(uv, AUTH_DATA_FLAG_USER_VERIFIED)
                   + AUTH_DATA_FLAG_BACKUP_ELIGIBLE + AUTH_DATA_FLAG_BACKUP_STATE
                   + AUTH_DATA_FLAG_ATTESTED_CREDENTIAL_DATA
    IN Digest[rp] \o <<flags>> \o Zeros(4) \o aaguid \o <<Len(id) \div 256, Len(id) % 256>> \o id \o cose

credential_id_bytes_from_authenticator_data(data) == BytesAt(data, 55, Number(BytesAt(data, 53, 2)))

(***************************************************************************)
(* Operations. A request r is [rp, uv, ...]; a page's is checked against   *)
(* its client data once more.                                              *)
(***************************************************************************)

validate_user_handle(user) == HandleBytes[user] \in 1..64

validate_passkey_registration_parameters(user, alg) == alg = ES256_COSE_ALGORITHM /\ validate_user_handle(user)

HasValidLength(id) == Len(id) \in 1..65535

\* The key is made with the credential id, which is new.
create_registration_material(r, cred, aaguid) ==
    IF validate_passkey_registration_parameters(r.user, r.alg) /\ HasValidLength(CredentialBytes[cred])
    THEN [passkey |-> [cred |-> cred, key |-> cred, rp |-> r.rp, user |-> r.user, backup |-> {"eligible", "state"}],
          data |-> attested_authenticator_data(r.rp, CredentialBytes[cred],
                                               cose_es256_public_key(PublicKey[cred]), r.uv, aaguid)]
    ELSE Refused

PageAgrees(r, kind) ==
    /\ validate_origin_for_relying_party(r.page.origin, r.rp, r.related)
    /\ validate_client_data_type(r.data, kind, r.page, r.challenge)

create_registration_with_credential_id(r, cred) ==
    LET material == IF PageAgrees(r, "create") THEN create_registration_material(r, cred, Zeros(16)) ELSE Refused
    IN IF material = Refused THEN Refused
       ELSE [passkey |-> material.passkey,
             credential_id |-> credential_id_bytes_from_authenticator_data(material.data),
             attestation_object |-> attestation_object(material.data)]

create_platform_registration_with_credential_id(r, cred) ==
    IF validate_platform_relying_party(r.rp) /\ r.uv
    THEN create_registration_material(r, cred, WINDOWS_PLUGIN_AUTHENTICATOR_AAGUID)
    ELSE Refused

\* The signature is named by its key and what it is over.
sign_assertion(pk, rp, uv) ==
    LET data == authenticator_data(rp, pk, uv) IN [data |-> data, signature |-> [key |-> pk.key, over |-> data]]

create_assertion(pk, r) ==
    IF pk.cred = r.cred /\ pk.rp = r.rp /\ (r.present \/ r.uv) /\ PageAgrees(r, "get")
    THEN [credential_id |-> pk.cred, user_handle |-> IF r.discoverable THEN pk.user ELSE None]
           @@ sign_assertion(pk, r.rp, r.uv)
    ELSE Refused

\* The hash of the client data has 32 bytes.
create_platform_assertion(pk, r) ==
    IF validate_platform_relying_party(r.rp) /\ r.uv /\ pk.rp = r.rp /\ pk.cred = r.cred
    THEN [credential_id |-> pk.cred, user_handle |-> pk.user] @@ sign_assertion(pk, r.rp, r.uv)
    ELSE Refused

(***************************************************************************)
(* What a relying party reads: the attestation object as the tests of      *)
(* passkey.rs read it, authenticator data by the WebAuthn layout.          *)
(***************************************************************************)

\* read_len: [len, next] of a CBOR header at a position.
read_len(bytes, at) ==
    LET v == BytesAt(bytes, at, 1)[1] % 32
        n == CASE v <= 23 -> 0 [] v = 24 -> 1 [] v = 25 -> 2
    IN [len |-> IF n = 0 THEN v ELSE Number(BytesAt(bytes, at + 1, n)), next |-> at + 1 + n]

auth_data_from_attestation_object(object) ==
    LET head == cbor_major(5, 3) \o cbor_text(Fmt) \o cbor_text(NoneText) \o cbor_text(AttStmt)
                  \o cbor_major(5, 0) \o cbor_text(AuthData)
        h == read_len(object, Len(head))
    IN IF IsPrefix(head, object) /\ object[Len(head) + 1] \div 32 = 2 /\ h.next + h.len = Len(object)
       THEN BytesAt(object, h.next, h.len) ELSE <<>>

RpOf(data) == LET S == {rp \in DOMAIN Digest : Digest[rp] = BytesAt(data, 0, 32)} IN IF S = {} THEN None ELSE CHOOSE rp \in S : TRUE
FlagsOf(data) == BytesAt(data, 32, 1)[1]

\* What is left of attested data after the credential id is its key.
RegistrationRead(data) ==
    LET id == credential_id_bytes_from_authenticator_data(data)
        cose == BytesAt(data, 55 + Len(id), Len(data) - 55 - Len(id))
    IN [cred |-> {c \in Credentials : CredentialBytes[c] = id}, rp |-> RpOf(data), flags |-> FlagsOf(data),
        keys |-> {k \in Credentials : cose_es256_public_key(PublicKey[k]) = cose}]
=============================================================================
