------------------------------- MODULE Base58 -------------------------------
(***************************************************************************)
(* Base58 texts with a checksum (chain/tezos_base58.c), and the pairing    *)
(* code of beacon, which is one of them (chain/tezos_beacon_qr.c).  A text *)
(* is the sequence of its places in the alphabet, NotBase58 for a          *)
(* character that is not in it.                                            *)
(***************************************************************************)
EXTENDS Integers, Sequences, SequencesExt, FiniteSetsExt

NotBase58 == -1
REFUSED == <<-1>>       \* what a function that returns false gives

\* prefix_bytes: the bytes before the payload, and its length.
PrefixOf ==
    [tz1  |-> <<6, 161, 159>>, tz2 |-> <<6, 161, 161>>, tz3 |-> <<6, 161, 164>>,
     KT1  |-> <<2, 90, 121>>, edpk |-> <<13, 15, 37, 217>>, edsk |-> <<13, 15, 58, 7>>,
     edsig |-> <<9, 245, 205, 134, 18>>, sig |-> <<4, 130, 43>>, block |-> <<1, 52>>]
Kinds == DOMAIN PrefixOf
PayloadLength ==
    [kind \in Kinds |-> CASE kind \in {"tz1", "tz2", "tz3", "KT1"} -> 20
                          [] kind \in {"edsig", "sig"} -> 64
                          [] OTHER -> 32]

\* The first four bytes of the double SHA-256, by any function of the bytes.
ShaBytes(bytes) ==
    LET h == FoldLeft(LAMBDA n, b : (31 * n + b + 7) % 65521, 1, bytes)
    IN  <<h \div 256, h % 256, (h \div 3) % 256, (h + 101) % 256>>

-----------------------------------------------------------------------------
Zeros(s) == SelectInSeq(s \o <<1>>, LAMBDA x : x # 0) - 1
NoZeros(s) == SubSeq(s, Zeros(s) + 1, Len(s))
Repeat(x, n) == [i \in 1 .. n |-> x]

\* One turn of the loops: the number in buf, in digits of base to, times
\* from, plus digit, each place after the lower ones; what is carried out of
\* the buffer is lost.
TimesPlus(from, to) ==
    [buf \in Seq(Nat), digit \in Nat |->
        LET turned[i \in 1 .. Len(buf) + 1] ==
                IF i > Len(buf) THEN <<digit>>
                ELSE LET low == turned[i + 1]
                         c   == Head(low) + from * buf[i]
                     IN  <<c \div to, c % to>> \o Tail(low)
        IN  Tail(turned[1])]

Convert(s, from, to, size) ==
    LET buf[k \in 0 .. Len(s)] ==
            IF k = 0 THEN Repeat(0, size) ELSE TimesPlus(from, to)[buf[k - 1], s[k]]
    IN  buf[Len(s)]

\* b58_encode_raw; room is the output without its NUL.
EncodeRaw(data, room) ==
    LET size == (Len(data) * 138) \div 100 + 1
        text == Repeat(0, Zeros(data)) \o NoZeros(Convert(NoZeros(data), 256, 58, size))
    IN  IF Len(text) > room THEN REFUSED ELSE text

\* b58_decode_raw.
DecodeRaw(text, room) ==
    LET size == (Len(text) * 733) \div 1000 + 1
        data == Repeat(0, Zeros(text)) \o NoZeros(Convert(NoZeros(text), 58, 256, size))
    IN  IF NotBase58 \in Range(text) \/ Len(data) > room THEN REFUSED ELSE data

-----------------------------------------------------------------------------
Summed(bytes) == bytes \o ShaBytes(bytes)
SumMatches(data) ==
    Len(data) >= 4 /\ data = Summed(SubSeq(data, 1, Len(data) - 4))

\* tezos_b58_encode and tezos_b58_decode.
Encode(payload, kind, room) ==
    IF Len(payload) # PayloadLength[kind] THEN REFUSED
    ELSE EncodeRaw(Summed(PrefixOf[kind] \o payload), room)

Decode58(text, kind) ==
    LET data == DecodeRaw(text, 256)
    IN  IF data = REFUSED \/ ~SumMatches(data) THEN REFUSED
        ELSE IF \/ Len(data) # Len(PrefixOf[kind]) + PayloadLength[kind] + 4
                \/ ~IsPrefix(PrefixOf[kind], data) THEN REFUSED
        ELSE SubSeq(data, Len(PrefixOf[kind]) + 1, Len(data) - 4)

\* tezos_b58check_encode_generic and tezos_b58check_decode_generic.
EncodeAny(payload, room) == EncodeRaw(Summed(payload), room)
DecodeAny(text, room) ==
    LET data == DecodeRaw(text, room + 4)
    IN  IF data = REFUSED \/ ~SumMatches(data) THEN REFUSED
        ELSE SubSeq(data, 1, Len(data) - 4)

-----------------------------------------------------------------------------
(* tezos_beacon_qr.c.  A member of the JSON object is abstracted to one     *)
(* byte, 16 times its number plus its text; an empty text is 0.            *)

Members == <<"id", "name", "publicKey", "version", "relayServer", "icon", "appUrl">>
Required == {"id", "name", "publicKey", "version", "relayServer"}

\* tezos_beacon_build_pairing_uri: the optional members only when not empty.
BuildUri(info) ==
    LET present(i) == Members[i] \in Required \/ info[Members[i]] # 0
        json == FlattenSeq([i \in DOMAIN Members |->
                    IF present(i) THEN <<16 * i + info[Members[i]]>> ELSE <<>>])
    IN  EncodeAny(json, 1023)

\* tezos_beacon_parse_pairing_uri: a required member that is missing refuses
\* the code, what is missing of the others is empty.
ParseUri(text) ==
    LET json == DecodeAny(text, 2047)
        has(i) == \E b \in Range(json) : b \div 16 = i
        value(i) == IF has(i) THEN json[SelectInSeq(json, LAMBDA b : b \div 16 = i)] % 16 ELSE 0
    IN  IF json = REFUSED \/ \E i \in DOMAIN Members : Members[i] \in Required /\ ~has(i)
        THEN REFUSED
        ELSE [i \in DOMAIN Members |-> value(i)]
=============================================================================
