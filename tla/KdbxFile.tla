------------------------------ MODULE KdbxFile ------------------------------
(***************************************************************************)
(* The KDBX container: the outer header, the key derivation an external    *)
(* file may ask for, the block stream and the stages a reader goes         *)
(* through.  Hashes, MACs and ciphers are free terms: equal terms are the  *)
(* same bytes, a term can only be rebuilt from its parts, and a cipher     *)
(* text opened with another key is a term that is nobody's plain text.     *)
(* The XML of a vault is one value, `content.id'; its attachments are a    *)
(* sequence of [protect, data], as the inner header carries them.          *)
(***************************************************************************)
EXTENDS Naturals, SequencesExt

-----------------------------------------------------------------------------
(* Terms *)

sha256_bytes(x) == [sha256 |-> x]
hmac_sha256(key, message) == [hmac |-> key, of |-> message]
sha256_seeded(masterSeed, transformed) == [sha256 |-> <<masterSeed, transformed>>]
mac_seed(masterSeed, transformed) == [sha512 |-> <<masterSeed, transformed, 1>>]
block_hmac_key(macSeed, index) == [sha512 |-> <<index, macSeed>>]
HeaderIndex == "2^64-1"
header_hmac(macSeed, header) == hmac_sha256(block_hmac_key(macSeed, HeaderIndex), header)

encrypt_payload(key, part) == [key |-> key, plain |-> part]
Garbled(part) == [garbled |-> part]
decrypt_payload(key, chunk) ==
    IF chunk.key = key THEN chunk.plain ELSE Garbled(chunk)

-----------------------------------------------------------------------------
(* Variant dictionaries: the entries in the order they are encoded.  A     *)
(* dictionary that was loaded and not changed is written back as it came.  *)

Entries(dict) == {dict[i] : i \in 1..Len(dict)}
DictGet(dict, name, default) ==
    LET named == {i \in 1..Len(dict) : dict[i][1] = name}
    IN IF named = {} THEN default
       ELSE dict[CHOOSE i \in named : \A j \in named : j <= i][2]

Algorithms == {"AesKdbx3", "AesKdbx4", "Argon2d", "Argon2id"}
IsAes(algorithm) == algorithm \in {"AesKdbx3", "AesKdbx4"}

\* The cost of a derivation: millions of AES rounds, or MiB of Argon2 memory.
kdf_to_variant_dict(algorithm, cost, salt) ==
    << <<"$UUID", algorithm>>,
       <<IF IsAes(algorithm) THEN "R" ELSE "M", cost>>,
       <<"S", salt>> >>

NoKdf == [algorithm |-> "none", cost |-> 0, salt |-> 0]
decode_kdbx4(dict) ==
    LET algorithm == DictGet(dict, "$UUID", "none")
        cost == DictGet(dict, IF IsAes(algorithm) THEN "R" ELSE "M", 0)
    IN IF algorithm \notin Algorithms \/ cost = 0 THEN NoKdf
       ELSE [algorithm |-> algorithm, cost |-> cost, salt |-> DictGet(dict, "S", 0)]
decode_kdbx3(rounds, seed) ==
    IF rounds = 0 THEN NoKdf ELSE [algorithm |-> "AesKdbx3", cost |-> rounds, salt |-> seed]

DESKTOP_ARGON2_CONFIRM == 256
DESKTOP_ARGON2_REFUSE  == 1024
MOBILE_ARGON2_REFUSE   == 128
DESKTOP_AES_CONFIRM    == 600
DESKTOP_AES_REFUSE     == 6000
MOBILE_AES_REFUSE      == 600

(* What the policy of the host says of a derivation of this cost. *)
evaluate(policy, kdf) ==
    LET refuse == IF policy = "Mobile"
                  THEN IF IsAes(kdf.algorithm) THEN MOBILE_AES_REFUSE ELSE MOBILE_ARGON2_REFUSE
                  ELSE IF IsAes(kdf.algorithm) THEN DESKTOP_AES_REFUSE ELSE DESKTOP_ARGON2_REFUSE
        confirm == IF IsAes(kdf.algorithm) THEN DESKTOP_AES_CONFIRM ELSE DESKTOP_ARGON2_CONFIRM
    IN IF policy = "Extension" THEN "Forbid"
       ELSE IF kdf.cost > refuse THEN "Refuse"
       ELSE IF policy = "Desktop" /\ kdf.cost > confirm THEN "Confirm"
       ELSE "Allow"

(* Only an allowed derivation, or one the user confirmed, is run. *)
enforce_external_kdf_policy(kdf, policy, confirmed) ==
    \/ evaluate(policy, kdf) = "Allow"
    \/ evaluate(policy, kdf) = "Confirm" /\ confirmed

derive_key(kdf, credential) == <<credential, kdf.algorithm, kdf.cost, kdf.salt>>

-----------------------------------------------------------------------------
(* Results: a vault or an error. *)

Opened(vault) == [error |-> "none", vault |-> vault]
Failed(error) == [error |-> error, vault |-> <<>>]
IsOpened(result) == result.error = "none"
DerivedKey(key) == [error |-> "none", key |-> key]
NotDerived(error) == [error |-> error, key |-> <<>>]

-----------------------------------------------------------------------------
(* Attachments: one binary per content and protection, referred to by its  *)
(* place in the inner header.                                              *)

binary_index_ignoring_protection(attachment, pool) ==
    IF \E i \in 1..Len(pool) : pool[i].data = attachment.data
    THEN CHOOSE i \in 1..Len(pool) : pool[i].data = attachment.data
    ELSE Len(pool) + 1

binary_index_for_content_id(attachment, pool) ==
    IF \E i \in 1..Len(pool) : pool[i] = attachment
    THEN CHOOSE i \in 1..Len(pool) : pool[i] = attachment
    ELSE Len(pool) + 1

collect_attachment_refs(attachments) ==
    FoldLeft(LAMBDA state, attachment :
                LET index == binary_index_for_content_id(attachment, state.pool)
                IN [refs |-> Append(state.refs, index),
                    pool |-> IF index > Len(state.pool)
                             THEN Append(state.pool, attachment) ELSE state.pool],
             [refs |-> <<>>, pool |-> <<>>], attachments)

(* Each protection flag is a byte of which only the lowest bit is known. *)
build_inner_header(pool) ==
    [i \in 1..Len(pool) |-> [flag |-> IF pool[i].protect THEN 1 ELSE 0,
                             data |-> pool[i].data]]
parse_inner_header(fields) ==
    IF \E i \in 1..Len(fields) : fields[i].flag \notin {0, 1} THEN Failed("InvalidValue")
    ELSE Opened([i \in 1..Len(fields) |-> [protect |-> fields[i].flag = 1,
                                           data |-> fields[i].data]])

Payload(content) ==
    LET collected == collect_attachment_refs(content.attachments)
    IN << [inner |-> build_inner_header(collected.pool)],
          [xml |-> content.id, refs |-> collected.refs] >>

(* The payload of a reader: the inner header, then the document, whose     *)
(* references are resolved in the binaries of the inner header.            *)
ReadPayload(parts) ==
    IF Len(parts) # 2 \/ DOMAIN parts[1] # {"inner"} \/ DOMAIN parts[2] # {"xml", "refs"}
    THEN Failed("InvalidValue")
    ELSE LET binaries == parse_inner_header(parts[1].inner)
             refs == parts[2].refs
         IN IF ~IsOpened(binaries) THEN binaries
            ELSE IF \E i \in 1..Len(refs) : refs[i] > Len(binaries.vault)
            THEN Failed("InvalidValue")
            ELSE Opened([id |-> parts[2].xml,
                         attachments |-> [i \in 1..Len(refs) |-> binaries.vault[refs[i]]]])

-----------------------------------------------------------------------------
(* The block stream: every chunk under a key of its own place, then the    *)
(* terminator, an empty chunk at the place after the last.                 *)

Terminator == <<>>
BlockMac(macSeed, index, chunk) ==
    hmac_sha256(block_hmac_key(macSeed, index), <<index, chunk>>)

encode_block_stream(macSeed, chunks) ==
    [i \in 1..(Len(chunks) + 1) |->
        LET chunk == IF i <= Len(chunks) THEN chunks[i] ELSE Terminator
        IN [mac |-> BlockMac(macSeed, i - 1, chunk), chunk |-> chunk]]

decode_block_stream(macSeed, blocks) ==
    LET bad == {i \in 1..Len(blocks) :
                    blocks[i].mac # BlockMac(macSeed, i - 1, blocks[i].chunk)}
        ends == {i \in 1..Len(blocks) : blocks[i].chunk = Terminator}
        end == CHOOSE i \in ends : \A j \in ends : i <= j
    IN IF ends = {} THEN Failed(IF bad = {} THEN "UnexpectedEof" ELSE "PayloadHmacMismatch")
       ELSE IF \E i \in bad : i <= end THEN Failed("PayloadHmacMismatch")
       ELSE Opened([i \in 1..(end - 1) |-> blocks[i].chunk])

(* KDBX 3: the blocks carry their number and a plain hash. *)
decode_legacy_block_stream(blocks) ==
    IF \E i \in 1..Len(blocks) : blocks[i].index # i - 1 THEN Failed("InvalidValue")
    ELSE IF \E i \in 1..Len(blocks) : blocks[i].hash # sha256_bytes(blocks[i].chunk)
    THEN Failed("PayloadHashMismatch")
    ELSE Opened([i \in 1..Len(blocks) |-> blocks[i].chunk])

-----------------------------------------------------------------------------
(* Headers.  A KDBX 4 header is a sequence of numbered fields closed by    *)
(* field 0; what follows is the hash of the header, its HMAC and the       *)
(* block stream.                                                           *)

V3 == {"V2_0", "V3_0", "V3_1"}
V4 == {"V4_0", "V4_1"}

encode_header(version, masterSeed, dict) ==
    [version |-> version, fields |-> << <<4, masterSeed>>, <<11, dict>>, <<0, "end">> >>]

decode_with_consumed(header) ==
    IF header.version \notin V4 THEN Failed("UnsupportedVersion")
    ELSE IF ~\E i \in 1..Len(header.fields) : header.fields[i][1] = 0
    THEN Failed("UnexpectedEof")
    ELSE Opened([version |-> header.version,
                 masterSeed |-> DictGet(header.fields, 4, 0),
                 kdf |-> DictGet(header.fields, 11, <<>>)])

inspect_kdbx_header(file) ==
    IF file.header.version \in V3 THEN "V3" ELSE "V4"

(* Every save has a master seed of its own; a KDF that is asked for also   *)
(* brings a fresh salt, and without one the loaded parameters stay.        *)
save_kdf_state(dict, requested, salt) ==
    IF requested # <<>> THEN kdf_to_variant_dict(requested.algorithm, requested.cost, salt)
    ELSE dict

encode_kdbx_with_transformed_key(content, transformed, version, masterSeed, dict) ==
    LET header == encode_header(version, masterSeed, dict)
        macSeed == mac_seed(masterSeed, transformed)
        key == sha256_seeded(masterSeed, transformed)
        payload == Payload(content)
    IN [header |-> header,
        hash |-> sha256_bytes(header),
        hmac |-> header_hmac(macSeed, header),
        blocks |-> encode_block_stream(
            macSeed, [i \in 1..Len(payload) |-> encrypt_payload(key, payload[i])])]

save_kdbx(content, credential, requested, version, masterSeed, salt) ==
    LET dict == save_kdf_state(<<>>, requested, salt)
    IN encode_kdbx_with_transformed_key(
            content, derive_key(decode_kdbx4(dict), credential), version, masterSeed, dict)

(* The key of a file, once its header is known to be the one that was      *)
(* hashed and the host's policy allows its KDF.                            *)
derive_transformed_key_with_policy(file, credential, policy, confirmed) ==
    LET header == decode_with_consumed(file.header)
    IN IF ~IsOpened(header) THEN NotDerived(header.error)
       ELSE IF file.hash # sha256_bytes(file.header) THEN NotDerived("HeaderHashMismatch")
       ELSE LET kdf == decode_kdbx4(header.vault.kdf)
            IN IF kdf = NoKdf THEN NotDerived("UnsupportedKdf")
               ELSE IF ~enforce_external_kdf_policy(kdf, policy, confirmed)
               THEN NotDerived("KdfPolicy")
               ELSE DerivedKey(derive_key(kdf, credential))

(* Header, header authentication, payload blocks, decryption, inner header *)
(* and document, in that order: the first stage that fails is the answer.  *)
load_kdbx_with_transformed_key(file, transformed) ==
    LET decoded == decode_with_consumed(file.header)
        header == decoded.vault
        macSeed == mac_seed(header.masterSeed, transformed)
        key == sha256_seeded(header.masterSeed, transformed)
        blocks == decode_block_stream(macSeed, file.blocks)
        parts == [i \in 1..Len(blocks.vault) |-> decrypt_payload(key, blocks.vault[i])]
    IN IF ~IsOpened(decoded) THEN decoded
       ELSE IF file.hash # sha256_bytes(file.header) THEN Failed("HeaderHashMismatch")
       ELSE IF file.hmac # header_hmac(macSeed, file.header) THEN Failed("HeaderHmacMismatch")
       ELSE IF ~IsOpened(blocks) THEN blocks
       ELSE ReadPayload(parts)

-----------------------------------------------------------------------------
(* KDBX 3 *)

StreamStart(masterSeed) == [start |-> masterSeed]

\* A file an older program wrote: the start bytes and the hashed blocks, encrypted.
legacy_file(content, credential, rounds, masterSeed) ==
    LET kdf == decode_kdbx3(rounds, masterSeed)
        chunks == Payload(content)
    IN [header |-> [version |-> "V3_1",
                    fields |-> << <<4, masterSeed>>, <<5, masterSeed>>, <<6, rounds>>,
                                  <<9, StreamStart(masterSeed)>>, <<0, "end">> >>],
        hash |-> <<>>, hmac |-> <<>>,
        blocks |-> encrypt_payload(
            sha256_seeded(masterSeed, derive_key(kdf, credential)),
            [start |-> StreamStart(masterSeed),
             blocks |-> [i \in 1..Len(chunks) |->
                            [index |-> i - 1, hash |-> sha256_bytes(chunks[i]),
                             chunk |-> chunks[i]]]])]

decode_kdbx3_header(header) ==
    IF header.version \notin V3 THEN Failed("UnsupportedVersion")
    ELSE Opened([masterSeed |-> DictGet(header.fields, 4, 0),
                 seed |-> DictGet(header.fields, 5, 0),
                 rounds |-> DictGet(header.fields, 6, 0),
                 start |-> DictGet(header.fields, 9, <<>>)])

load_kdbx3(file, credential, policy, confirmed) ==
    LET decoded == decode_kdbx3_header(file.header)
        header == decoded.vault
        kdf == decode_kdbx3(header.rounds, header.seed)
        payload == decrypt_payload(
            sha256_seeded(header.masterSeed, derive_key(kdf, credential)), file.blocks)
        blocks == decode_legacy_block_stream(payload.blocks)
    IN IF ~IsOpened(decoded) THEN decoded
       ELSE IF kdf = NoKdf THEN Failed("UnsupportedKdf")
       ELSE IF ~enforce_external_kdf_policy(kdf, policy, confirmed) THEN Failed("KdfPolicy")
       ELSE IF "start" \notin DOMAIN payload THEN Failed("HeaderHashMismatch")
       ELSE IF payload.start # header.start THEN Failed("HeaderHashMismatch")
       ELSE IF ~IsOpened(blocks) THEN blocks
       ELSE ReadPayload(blocks.vault)

-----------------------------------------------------------------------------
(* What storage can hand back instead of a version it was given: the       *)
(* header of one version over the blocks of another, a stream cut short,   *)
(* a header field changed.                                                 *)
Spliced(a, b) == [a EXCEPT !.blocks = b.blocks]
Truncated(a) == [a EXCEPT !.blocks = SubSeq(a.blocks, 1, Len(a.blocks) - 1)]
HeaderChanged(a, dict) == [a EXCEPT !.header.fields[2] = <<11, dict>>]
=============================================================================
