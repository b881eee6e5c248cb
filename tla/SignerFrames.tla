---------------------------- MODULE SignerFrames ----------------------------
(***************************************************************************)
(* The wire protocol between the wallet and a signer on a serial line      *)
(* (chain/tezos_signer_protocol.c): a request is framed, answered by the   *)
(* simulated signer and the answer is decoded.  The line may change a byte *)
(* of the request or of the answer, or cut its end off.                    *)
(*                                                                         *)
(* A byte is a number below 2 * Half; Half is its high bit, which texts do *)
(* not have and the types of answers do.                                   *)
(***************************************************************************)
EXTENDS Integers, Sequences, SequencesExt

CONSTANTS
    Half,           \* 128
    BitXor(_, _),   \* ^, of two bytes
    AccountBytes,   \* 4
    SignatureBytes, \* 64
    Accounts,       \* the accounts asked for
    NoAccounts,     \* those no key can be derived for
    Payloads,       \* the operations to sign
    Address(_),     \* the address of an account
    Signature(_, _) \* the signature of an account on an operation

Byte == 0 .. 2 * Half - 1
Text == 0 .. Half - 1
START == 1
PING == 1
GET_ADDRESS == 2
SIGN_REQUEST == 3
ERROR == 2 * Half - 1
AnswerTo(type) == type + Half
MALFORMED_ERR == 1
UNKNOWN_ERR == 2
INTERNAL_ERR == 4

\* n shifted right by size bytes.
Shifted(n, size) ==
    LET high[k \in 0 .. size] == IF k = 0 THEN n ELSE high[k - 1] \div (2 * Half)
    IN  high[size]

\* What BitXor does to two bytes is undone by doing it again, which is all that a
\* checksum needs, and the high bit of what it makes is set when that of one of
\* them is.  Accounts and frames are small enough for the bytes that hold them.
ASSUME FrameAssumption ==
    /\ Half \in Nat \ 0 .. 7 /\ {AccountBytes, SignatureBytes} \subseteq Nat \ {0}
    /\ \A a, b \in Byte : BitXor(a, b) \in Byte /\ BitXor(BitXor(a, b), b) = a /\ BitXor(a, BitXor(a, b)) = b
    /\ \A a \in Byte : BitXor(0, a) = a
    /\ \A a \in Byte \ Text, b \in Text : BitXor(a, b) \notin Text
    /\ Accounts \subseteq Nat /\ NoAccounts \subseteq Accounts
    /\ Payloads \subseteq Seq(Byte)
    /\ \A account \in Accounts :
          /\ Shifted(account, AccountBytes) = 0
          /\ Address(account) \in Seq(Text) /\ Shifted(Len(Address(account)) + 1, 2) = 0
          /\ \A bytes \in Payloads : Signature(account, bytes) \in [1 .. SignatureBytes -> Byte]
    /\ Shifted(AccountBytes + 1, 2) = 0 /\ Shifted(SignatureBytes + 1, 2) = 0
    /\ \A bytes \in Payloads : Shifted(AccountBytes + Len(bytes) + 3, 2) = 0

\* n as size bytes, the high one first, and back.
BigEndian(n, size) == [i \in 1 .. size |-> Shifted(n, size - i) % (2 * Half)]
Number(bytes) ==
    LET read[i \in 0 .. Len(bytes)] == IF i = 0 THEN 0 ELSE 2 * Half * read[i - 1] + bytes[i]
    IN  read[Len(bytes)]

-----------------------------------------------------------------------------
(* Frames; <<>> is no frame.                                               *)

Checksum(bytes) ==
    LET sum[i \in 0 .. Len(bytes)] == IF i = 0 THEN 0 ELSE BitXor(sum[i - 1], bytes[i])
    IN  sum[Len(bytes)]

\* tezos_signer_frame_encode.
Frame(type, payload) ==
    <<START>> \o BigEndian(Len(payload) + 1, 2) \o <<type>> \o payload
              \o <<Checksum(<<type>> \o payload)>>

\* tezos_signer_frame_decode: <<type, payload>>.
\* Mutant: the checksum is not compared.
Decode_Unchecked(data) ==
    LET len == Number(SubSeq(data, 2, 3))
    IN  IF \/ Len(data) < 5 \/ data[1] # START
           \/ len < 1 \/ Len(data) < len + 4
        THEN <<>> ELSE <<data[4], SubSeq(data, 5, 3 + len)>>
Decode(data) ==
    LET len == Number(SubSeq(data, 2, 3))
    IN  IF \/ Len(data) < 5 \/ data[1] # START
           \/ len < 1 \/ Len(data) < len + 4
           \/ Checksum(SubSeq(data, 4, 3 + len)) # data[4 + len]
        THEN <<>> ELSE <<data[4], SubSeq(data, 5, 3 + len)>>

\* tezos_signer_encode_ping, _get_address and _sign_request.
Body(request) ==
    CASE request.kind = PING -> <<>>
      [] request.kind = GET_ADDRESS -> BigEndian(request.account, AccountBytes)
      [] request.kind = SIGN_REQUEST ->
            BigEndian(request.account, AccountBytes) \o BigEndian(Len(request.bytes), 2)
                                                     \o request.bytes
Encoded(request) == Frame(request.kind, Body(request))

-----------------------------------------------------------------------------
(* tezos_signer_sim_process: the answer to a decoded request.              *)

Version == <<3, 2, 1>>
Failure(code) == Frame(ERROR, <<code, 2, 5, 6>>)

AnswerAddress(payload) ==
    IF Len(payload) # AccountBytes THEN Failure(MALFORMED_ERR)
    ELSE IF Number(payload) \in NoAccounts THEN Failure(INTERNAL_ERR)
    ELSE Frame(AnswerTo(GET_ADDRESS), Address(Number(payload)))

AnswerSign(payload) ==
    LET account == Number(SubSeq(payload, 1, AccountBytes))
        size    == Number(SubSeq(payload, AccountBytes + 1, AccountBytes + 2))
        forged  == SubSeq(payload, AccountBytes + 3, Len(payload))
    IN  IF Len(payload) < AccountBytes + 2 \/ Len(payload) # AccountBytes + 2 + size
        THEN Failure(MALFORMED_ERR)
        ELSE IF account \in NoAccounts THEN Failure(INTERNAL_ERR)
        ELSE Frame(AnswerTo(SIGN_REQUEST), Signature(account, forged))

Answer(type, payload) ==
    CASE type = PING         -> Frame(AnswerTo(PING), <<Len(Version)>> \o Version)
      [] type = GET_ADDRESS  -> AnswerAddress(payload)
      [] type = SIGN_REQUEST -> AnswerSign(payload)
      [] OTHER               -> Failure(UNKNOWN_ERR)

\* tezos_signer_decode_pong, _address_response, _sign_response and _error:
\* what is taken of an answer, <<>> when it is refused.
Understood(type, payload) ==
    CASE type = AnswerTo(PING) ->
            IF payload = <<>> \/ Len(payload) < payload[1] + 1 THEN <<>>
            ELSE <<"version", SubSeq(payload, 2, payload[1] + 1)>>
      [] type = AnswerTo(GET_ADDRESS) -> <<"address", payload>>
      [] type = AnswerTo(SIGN_REQUEST) ->
            IF Len(payload) # SignatureBytes THEN <<>> ELSE <<"signature", payload>>
      [] type = ERROR ->
            IF Len(payload) < 2 \/ Len(payload) < payload[2] + 2 THEN <<>>
            ELSE <<"error", payload[1]>>
      [] OTHER -> <<>>

-----------------------------------------------------------------------------
VARIABLES
    sent,       \* the request of the wallet
    wire,       \* the bytes on the line
    carries,    \* "nothing", "request" or "answer"
    hurt,       \* has the line failed?
    taken       \* what the wallet takes of the answer, <<>> before
frameVars == <<sent, wire, carries, hurt, taken>>

Inquiries ==
    [kind : {PING}] \cup [kind : {GET_ADDRESS}, account : Accounts]
    \cup [kind : {SIGN_REQUEST}, account : Accounts, bytes : Payloads]

Inquire(request) ==
    /\ carries = "nothing"
    /\ sent' = request /\ wire' = Encoded(request) /\ carries' = "request"
    /\ hurt' = FALSE /\ taken' = <<>>

\* Bound: one failure on the way there and back.
ChangeByte(place, byte) ==
    /\ carries # "nothing" /\ ~hurt /\ hurt' = TRUE
    /\ wire' = [wire EXCEPT ![place] = byte]
    /\ UNCHANGED <<sent, carries, taken>>
CutWire(length) ==
    /\ carries # "nothing" /\ ~hurt /\ hurt' = TRUE
    /\ wire' = SubSeq(wire, 1, length)
    /\ UNCHANGED <<sent, carries, taken>>

\* The signer, which says nothing to what is no frame.
Process ==
    /\ carries = "request"
    /\ LET frame == Decode(wire)
       IN  IF frame = <<>> THEN carries' = "nothing" /\ wire' = <<>>
           ELSE carries' = "answer" /\ wire' = Answer(frame[1], frame[2])
    /\ UNCHANGED <<sent, hurt, taken>>

Receive ==
    /\ carries = "answer" /\ carries' = "nothing" /\ wire' = <<>>
    /\ LET frame == Decode(wire)
       IN  taken' = IF frame = <<>> THEN <<>> ELSE Understood(frame[1], frame[2])
    /\ UNCHANGED <<sent, hurt>>

FrameInit ==
    /\ sent = [kind |-> PING] /\ wire = <<>> /\ carries = "nothing"
    /\ hurt = FALSE /\ taken = <<>>

FrameNext ==
    \/ Process \/ Receive
    \/ \E request \in Inquiries : Inquire(request)
    \/ \E place \in DOMAIN wire, byte \in Byte : ChangeByte(place, byte)
    \/ \E length \in 0 .. Len(wire) - 1 : CutWire(length)

FrameSpec == FrameInit /\ [][FrameNext]_frameVars

-----------------------------------------------------------------------------
\* What a request asks for.
Due(request) ==
    IF request.kind = PING THEN <<"version", Version>>
    ELSE IF request.account \in NoAccounts THEN <<"error", INTERNAL_ERR>>
    ELSE IF request.kind = GET_ADDRESS THEN <<"address", Address(request.account)>>
    ELSE <<"signature", Signature(request.account, request.bytes)>>

\* The wallet takes the answer to its request, an error or nothing, whichever
\* byte of a frame the line changes and wherever it cuts it: a checksum of one
\* byte detects it, or the lengths inside the requests do, or the type of an
\* answer, whose high bit no text has.
AnswerIsToRequest ==
    taken # <<>> => taken = Due(sent) \/ taken[1] = "error"
=============================================================================
