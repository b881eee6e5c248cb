------------------------------ MODULE Forging -------------------------------
(***************************************************************************)
(* The bytes of an operation that are signed and injected, the Micheline   *)
(* values and parameters in it, and the types of entrypoints read from     *)
(* JSON (chain/tezos_forge.c, chain/tezos_micheline.c).  Bytes are numbers *)
(* below 256.  Addresses, keys and branches are base58 texts; the decimal  *)
(* texts of an operation's fields are numbers, NotNumeral for a text that  *)
(* is none or too long for an unsigned long long.  A function that returns *)
(* false gives REFUSED, or what it says.                                   *)
(***************************************************************************)
EXTENDS Base58

CONSTANTS
    MaxInt,     \* LLONG_MAX
    MaxNodes,   \* TEZOS_MTYPE_MAX_NODES
    TextOf      \* the bytes of the entrypoint names that have no code

NOTHING == [kind |-> "null"]

\* The codes of entrypoint_short_code, and of prim_code.
ShortCode ==
    [default |-> 0, root |-> 1, do |-> 2, set_delegate |-> 3, remove_delegate |-> 4,
     deposit |-> 5, stake |-> 6, unstake |-> 7, finalize_unstake |-> 8,
     set_delegate_parameters |-> 9]
PrimCode ==
    [False |-> 3, Elt |-> 4, Left |-> 5, None |-> 6, Pair |-> 7, Right |-> 8,
     Some |-> 9, True |-> 10, Unit |-> 11]

ASSUME MichelineAssumption ==
    /\ MaxInt \in Nat \ {0} /\ MaxNodes \in Nat \ {0}
    /\ DOMAIN TextOf \cap DOMAIN ShortCode = {}

-----------------------------------------------------------------------------
(* Values.  An integer is its decimal text: <<n>>, or <<>> when the text is *)
(* not a number.                                                            *)

\* The loop of tezos_forge_zarith: seven bits a byte, the low ones first.
Zarith[n \in Nat] ==
    IF n < 128 THEN <<n>> ELSE <<128 + (n % 128)>> \o Zarith[n \div 128]

\* encode_signed_zarith, of a number strtoll cuts at its limits.
\* Mutant: the first byte has seven bits of the number.
SignedZarith_SevenBits(n) ==
    IF n < 0 THEN <<64 + ((-n) % 64)>> ELSE Zarith[n]
SignedZarith(n) ==
    LET value     == IF n > MaxInt THEN MaxInt ELSE IF n < -MaxInt - 1 THEN -MaxInt - 1 ELSE n
        magnitude == IF value < 0 THEN -value ELSE value
        sign      == IF value < 0 THEN 64 ELSE 0
    IN  IF magnitude < 64 THEN <<sign + magnitude>>
        ELSE <<128 + sign + (magnitude % 64)>> \o Zarith[magnitude \div 64]

\* append_be32 and the bytes it is the length of.
Sized(bytes) ==
    [i \in 1 .. 4 |-> IF i = 4 THEN Len(bytes) % 256
                      ELSE IF i = 3 THEN Len(bytes) \div 256 ELSE 0] \o bytes

\* tezos_micheline_encode.
RECURSIVE Encoding(_)
Encoding(value) ==
    CASE value.kind = "int" ->
            IF value.int = <<>> THEN REFUSED ELSE <<0>> \o SignedZarith(value.int[1])
      [] value.kind = "string" -> <<1>> \o Sized(value.text)
      [] value.kind = "bytes" -> <<10>> \o Sized(value.bytes)
      [] value.kind = "sequence" ->
            LET items == [i \in DOMAIN value.items |-> Encoding(value.items[i])]
            IN  IF REFUSED \in Range(items) THEN REFUSED ELSE <<2>> \o Sized(FlattenSeq(items))
      [] value.kind = "prim" ->
            LET args  == [i \in DOMAIN value.args |-> Encoding(value.args[i])]
                annot == IF value.annot = <<>> THEN 0 ELSE 1
            IN  IF \/ Len(args) > 2 \/ value.prim \notin DOMAIN PrimCode
                   \/ REFUSED \in Range(args)
                THEN REFUSED
                ELSE <<2 * Len(args) + annot + 3, PrimCode[value.prim]>> \o FlattenSeq(args)
                     \o (IF annot = 1 THEN Sized(value.annot) ELSE <<>>)

\* tezos_forge_parameters; entrypoint "" is NULL.
IsDefaultUnit(entrypoint, value) ==
    /\ entrypoint \in {"", "default"}
    /\ value = NOTHING \/ (value.kind = "prim" /\ value.prim = "Unit")
Parameters(entrypoint, value) ==
    IF IsDefaultUnit(entrypoint, value) THEN <<0>>
    ELSE IF entrypoint = "" \/ value = NOTHING THEN REFUSED
    ELSE IF entrypoint \in DOMAIN ShortCode
    THEN IF Encoding(value) = REFUSED THEN REFUSED
         ELSE <<255, ShortCode[entrypoint]>> \o Sized(Encoding(value))
    ELSE IF Len(TextOf[entrypoint]) > 31 \/ Encoding(value) = REFUSED THEN REFUSED
    ELSE <<255, Len(TextOf[entrypoint])>> \o TextOf[entrypoint] \o Sized(Encoding(value))

-----------------------------------------------------------------------------
(* Types.  JSON is a record of a prim, the text of the first annotation     *)
(* without its mark, and the arguments.                                     *)

Leaves == {"int", "nat", "mutez", "timestamp", "key_hash", "string", "bytes", "address",
           "bool"}
Arity(prim) == CASE prim \in {"pair", "or"} -> 2
                 [] prim \in {"option", "list"} -> 1
                 [] OTHER -> 0

\* parse_type_node: the pool and the place in it, 0 for a type refused.  A
\* node is put in the pool before its arguments.
RECURSIVE ParseNode(_, _)
ParseNode(json, pool) ==
    LET refused == [pool |-> pool, at |-> 0]
        at      == Len(pool) + 1
        node(args) == [prim |-> json.prim, annot |-> json.annot, args |-> args]
        begun   == Append(pool, node(<<>>))
        first   == ParseNode(json.args[1], begun)
        second  == ParseNode(json.args[2], first.pool)
    IN  IF \/ Len(pool) >= MaxNodes
           \/ json.prim \notin Leaves \cup {"unit", "pair", "or", "option", "list"}
           \/ Arity(json.prim) # 0 /\ Len(json.args) # Arity(json.prim)
        THEN refused
        ELSE CASE Arity(json.prim) = 0 -> [pool |-> begun, at |-> at]
               [] Arity(json.prim) = 1 ->
                     IF first.at = 0 THEN refused
                     ELSE [pool |-> [first.pool EXCEPT ![at] = node(<<first.at>>)], at |-> at]
               [] OTHER ->
                     IF first.at = 0 THEN refused ELSE IF second.at = 0 THEN refused
                     ELSE [pool |-> [second.pool EXCEPT ![at] = node(<<first.at, second.at>>)],
                           at |-> at]

\* tezos_micheline_parse_type.
ParseType(json) == ParseNode(json, <<>>)

\* tezos_micheline_type_leaf_count.
RECURSIVE LeafCount(_, _)
LeafCount(pool, at) ==
    CASE pool[at].prim = "unit" -> 0
      [] pool[at].prim \in Leaves -> 1
      [] OTHER -> FoldLeft(LAMBDA n, arg : n + LeafCount(pool, arg), 0, pool[at].args)

\* decode_hex, of digits below 16; another character is 16.
DecodeHex(digits, room) ==
    IF \/ Len(digits) % 2 # 0 \/ Len(digits) \div 2 > room
       \/ \E i \in DOMAIN digits : digits[i] = 16
    THEN REFUSED
    ELSE [i \in 1 .. Len(digits) \div 2 |-> 16 * digits[2 * i - 1] + digits[2 * i]]

-----------------------------------------------------------------------------
(* How a node of the network reads a value, defined without the encoder:    *)
(* what is read of some bytes and what is left of them.                     *)

Dropped(bytes, n) == SubSeq(bytes, n + 1, Len(bytes))
Size(bytes) == 256 * bytes[3] + bytes[4]

\* A number of seven bits a byte, after the bytes before from.
NumberEnd(bytes, from) == SelectInSubSeq(bytes, from, Len(bytes), LAMBDA b : b < 128)
NumberRead(bytes, from) ==
    FoldRight(LAMBDA b, n : 128 * n + (b % 128), SubSeq(bytes, from, NumberEnd(bytes, from)), 0)

RECURSIVE ReadValue(_), ReadValues(_, _), ReadAll(_)
ReadValues(bytes, n) ==
    IF n = 0 THEN [values |-> <<>>, rest |-> bytes]
    ELSE LET first == ReadValue(bytes)
             more  == ReadValues(first.rest, n - 1)
         IN  [values |-> <<first.value>> \o more.values, rest |-> more.rest]
ReadAll(bytes) ==
    IF bytes = <<>> THEN <<>>
    ELSE <<ReadValue(bytes).value>> \o ReadAll(ReadValue(bytes).rest)
ReadValue(bytes) ==
    LET sized == SubSeq(bytes, 6, 5 + Size(Tail(bytes)))
        after == Dropped(bytes, 5 + Size(Tail(bytes)))
        args  == ReadValues(Dropped(bytes, 2), (bytes[1] - 3) \div 2)
        annot == IF bytes[1] % 2 = 1 THEN <<>> ELSE SubSeq(args.rest, 5, 4 + Size(args.rest))
    IN  CASE bytes[1] = 0 ->
                LET more == IF bytes[2] < 128 THEN 0 ELSE NumberRead(bytes, 3)
                    n    == (bytes[2] % 64) + 64 * more
                IN  [value |-> [kind |-> "int",
                                int |-> <<IF (bytes[2] \div 64) % 2 = 1 THEN -n ELSE n>>],
                     rest |-> Dropped(bytes, NumberEnd(bytes, 2))]
          [] bytes[1] = 1  -> [value |-> [kind |-> "string", text |-> sized], rest |-> after]
          [] bytes[1] = 10 -> [value |-> [kind |-> "bytes", bytes |-> sized], rest |-> after]
          [] bytes[1] = 2  -> [value |-> [kind |-> "sequence", items |-> ReadAll(sized)],
                               rest |-> after]
          [] OTHER ->
                [value |-> [kind |-> "prim", annot |-> annot, args |-> args.values,
                            prim |-> CHOOSE p \in DOMAIN PrimCode : PrimCode[p] = bytes[2]],
                 rest |-> IF annot = <<>> THEN args.rest
                          ELSE Dropped(args.rest, 4 + Size(args.rest))]

\* What a type in the pool says, as JSON.
RECURSIVE TypeAt(_, _)
TypeAt(pool, at) ==
    [prim |-> pool[at].prim, annot |-> pool[at].annot,
     args |-> [i \in DOMAIN pool[at].args |-> TypeAt(pool, pool[at].args[i])]]
RECURSIVE Nodes(_)
Nodes(json) == FoldLeft(LAMBDA n, arg : n + Nodes(arg), 1, json.args)

-----------------------------------------------------------------------------
(* Operations.                                                             *)

NotNumeral == -1
REVEAL == 107
TRANSACTION == 108
DELEGATION == 110

\* One after the other, if none is refused.
Joined(parts) == IF REFUSED \in Range(parts) THEN REFUSED ELSE FlattenSeq(parts)

\* tezos_forge_zarith.
ForgeZarith(n) == IF n = NotNumeral THEN REFUSED ELSE Zarith[n]

\* decode_implicit_or_originated: the first three characters say the kind.
Letters == [tz1 |-> <<51, 57, 0>>, tz2 |-> <<51, 57, 1>>, tz3 |-> <<51, 57, 2>>,
            KT1 |-> <<18, 26, 0>>]
CurveTag == [tz1 |-> 0, tz2 |-> 1, tz3 |-> 2]
KindsOf(text) == {kind \in DOMAIN Letters : IsPrefix(Letters[kind], text)}

\* tezos_forge_pkh and tezos_forge_address.
ForgePkh(text) ==
    IF KindsOf(text) \cap DOMAIN CurveTag = {} THEN REFUSED
    ELSE LET kind == CHOOSE k \in KindsOf(text) : TRUE
         IN  Joined(<<<<CurveTag[kind]>>, Decode58(text, kind)>>)

ForgeAddress(text) ==
    IF KindsOf(text) = {"KT1"} THEN Joined(<<<<1>>, Decode58(text, "KT1"), <<0>>>>)
    ELSE Joined(<<<<0>>, ForgePkh(text)>>)

\* forge_manager_fields.
ManagerFields(op) ==
    Joined(<<ForgePkh(op.source), ForgeZarith(op.fee), ForgeZarith(op.counter),
             ForgeZarith(op.gas), ForgeZarith(op.storage)>>)

\* tezos_forge_reveal, tezos_forge_transaction and tezos_forge_delegation,
\* where an empty delegate takes the delegation back.
ForgeReveal(op) ==
    Joined(<<<<REVEAL>>, ManagerFields(op), <<0>>, Decode58(op.key, "edpk")>>)
ForgeTransaction(op) ==
    Joined(<<<<TRANSACTION>>, ManagerFields(op), ForgeZarith(op.amount),
             ForgeAddress(op.destination), Parameters(op.entrypoint, op.value)>>)
ForgeDelegation(op) ==
    Joined(<<<<DELEGATION>>, ManagerFields(op)>>
           \o (IF op.delegate = <<>> THEN <<<<0>>>> ELSE <<<<255>>, ForgePkh(op.delegate)>>))
ContentBytes(op) ==
    CASE op.kind = REVEAL      -> ForgeReveal(op)
      [] op.kind = TRANSACTION -> ForgeTransaction(op)
      [] op.kind = DELEGATION  -> ForgeDelegation(op)

\* tezos_forge_operation_group.
OperationGroup(branch, op) == Joined(<<Decode58(branch, "block"), ContentBytes(op)>>)

-----------------------------------------------------------------------------
(* How a node of the network reads the bytes of a group, defined without    *)
(* the functions above.                                                     *)

\* The place after the number at from, and the places of the five fields.
After(bytes, from) == NumberEnd(bytes, from) + 1
FieldsRead(bytes, op) ==
    LET fee == 55  counter == After(bytes, fee)
        gas == After(bytes, counter)  storage == After(bytes, gas)
        key(at) == [kind |-> CHOOSE k \in DOMAIN CurveTag : CurveTag[k] = bytes[at],
                    hash |-> SubSeq(bytes, at + 1, at + 20)]
        rest == After(bytes, storage)
    IN  /\ SubSeq(bytes, 1, 32) = Decode58(op.branch, "block")
        /\ bytes[33] = op.kind
        /\ Encode(key(34).hash, key(34).kind, 255) = op.source
        /\ <<NumberRead(bytes, fee), NumberRead(bytes, counter),
             NumberRead(bytes, gas), NumberRead(bytes, storage)>>
               = <<op.fee, op.counter, op.gas, op.storage>>
        /\ CASE op.kind = REVEAL ->
                   /\ bytes[rest] = 0 /\ Len(bytes) = rest + 32
                   /\ Encode(SubSeq(bytes, rest + 1, rest + 32), "edpk", 255) = op.key
             [] op.kind = DELEGATION ->
                   IF bytes[rest] = 0 THEN op.delegate = <<>> /\ Len(bytes) = rest
                   ELSE /\ bytes[rest] = 255 /\ Len(bytes) = rest + 21
                        /\ Encode(key(rest + 1).hash, key(rest + 1).kind, 255) = op.delegate
             [] op.kind = TRANSACTION ->
                   LET to    == After(bytes, rest)
                       at    == to + 22
                       hash  == SubSeq(bytes, to + 1, to + 20)
                   IN  /\ NumberRead(bytes, rest) = op.amount
                       /\ op.destination =
                             (IF bytes[to] = 1 THEN Encode(hash, "KT1", 255)
                              ELSE Encode(key(to + 1).hash, key(to + 1).kind, 255))
                       /\ bytes[to] = 1 => bytes[to + 21] = 0
                       /\ IF bytes[at] = 0
                          THEN IsDefaultUnit(op.entrypoint, op.value) /\ Len(bytes) = at
                          ELSE /\ bytes[at] = 255
                               /\ ShortCode[op.entrypoint] = bytes[at + 1]
                               /\ Len(bytes) = at + 5 + Size(Dropped(bytes, at + 1))
                               /\ ReadValue(Dropped(bytes, at + 5))
                                     = [value |-> op.value, rest |-> <<>>]

\* The entrypoint a node reads after the flag of the parameters: its code, or
\* 0xff and the length of its name.
EntrypointRead(parameters) ==
    LET tag == parameters[2]
    IN  CASE tag < 10  -> {e \in DOMAIN ShortCode : ShortCode[e] = tag}
          [] tag = 255 -> {e \in DOMAIN TextOf :
                              TextOf[e] = SubSeq(parameters, 4, 3 + parameters[3])}
          [] OTHER     -> {}
=============================================================================
