----------------------------- MODULE Encodings -----------------------------
(***************************************************************************)
(* What is encoded on the way out or decoded on the way in, for samples:   *)
(* operations, pairing codes, types of entrypoints, commands to the        *)
(* signer and pictures.  The functions keep no state, so the only variable *)
(* is the sample.                                                          *)
(***************************************************************************)
EXTENDS Forging, CameraPipeline, Apdu, TLC

CONSTANTS
    Hashes,         \* payloads of 20 bytes
    Strange,        \* texts that are no address
    Numbers,        \* numbers in the fields, NotNumeral among them
    Values,         \* values of parameters, NOTHING among them
    Unforgeable,    \* those of them that have no encoding
    Types,          \* types of entrypoints, as JSON
    InfoTexts,      \* texts of the members of a pairing code
    Tones,          \* levels of a channel
    Entrypoints     \* entrypoint names, "" among them

Implicit == {Encode(hash, kind, 63) : hash \in Hashes, kind \in DOMAIN CurveTag}
Originated == {Encode(hash, "KT1", 63) : hash \in Hashes}
Wide(hash) == hash \o SubSeq(hash, 1, 12)   \* 32 bytes
PublicKeys == {Encode(Wide(hash), "edpk", 63) : hash \in Hashes}
Branch == Encode(Wide(CHOOSE hash \in Hashes : TRUE), "block", 63)

\* A simple value for every field but the ones that vary.
Manager(kind, source, n) ==
    [kind |-> kind, source |-> source, fee |-> n, counter |-> 128, gas |-> 1, storage |-> 300,
     branch |-> Branch]

Reveals == {Manager(REVEAL, s, n) @@ [key |-> k] :
               s \in Implicit \cup Strange \cup Originated, n \in Numbers, k \in PublicKeys}
Delegations == {Manager(DELEGATION, s, 127) @@ [delegate |-> d] :
                   s \in Implicit, d \in Implicit \cup Originated \cup Strange \cup {<<>>}}
Transactions ==
    LET from(n) == Manager(TRANSACTION, CHOOSE s \in Implicit : TRUE, n)
    IN  {from(128) @@ [amount |-> 0, destination |-> d, entrypoint |-> "", value |-> NOTHING] :
            d \in Implicit \cup Originated \cup Strange}
        \cup {from(n) @@ [amount |-> n, entrypoint |-> e, value |-> v,
                          destination |-> CHOOSE d \in Originated : TRUE] :
                 n \in Numbers, e \in Entrypoints, v \in Values}

Commands ==
    [header : {[cla |-> 128, ins |-> 4, p1 |-> 1, p2 |-> 0]},
     data : {<<>>, <<1>>, <<2, 0>>, [i \in 1 .. 255 |-> 2]}, le : {0, 1, 2, 255, 256}]

Samples ==
    [codec : {"operation"}, op : Reveals \cup Delegations \cup Transactions]
    \cup [codec : {"type"}, json : Types]
    \cup [codec : {"command"}, command : Commands]
    \cup [codec : {"pairing"}, info : [Range(Members) -> InfoTexts]]
    \cup [codec : {"tone"}, tone : Tones, size : {2, 4, 8}]
    \cup [codec : {"frame"}, size : Dimensions]

VARIABLE sample

\* One sample in a behaviour.
NoSample == [codec |-> "none"]
SampleInit == sample = NoSample
SampleNext == sample = NoSample /\ \E s \in Samples : sample' = s

-----------------------------------------------------------------------------
\* Can every field of the operation be forged?
Forgeable(op) ==
    /\ op.source \in Implicit /\ op.fee # NotNumeral
    /\ CASE op.kind = REVEAL     -> TRUE
         [] op.kind = DELEGATION -> op.delegate \in Implicit \cup {<<>>}
         [] op.kind = TRANSACTION ->
               /\ op.destination \in Implicit \cup Originated /\ op.amount # NotNumeral
               /\ \/ IsDefaultUnit(op.entrypoint, op.value)
                  \/ op.entrypoint # "" /\ op.value \notin {NOTHING} \cup Unforgeable

\* The value whose integers are cut to what a long long holds.
RECURSIVE Cut(_)
Cut(value) ==
    CASE value.kind = "int" /\ value.int # <<>> ->
            LET n == value.int[1]
            IN  [value EXCEPT !.int = <<Max({Min({n, MaxInt}), -MaxInt - 1})>>]
      [] value.kind = "sequence" ->
            [value EXCEPT !.items = [i \in DOMAIN value.items |-> Cut(value.items[i])]]
      [] value.kind = "prim" ->
            [value EXCEPT !.args = [i \in DOMAIN value.args |-> Cut(value.args[i])]]
      [] OTHER -> value

\* What an operation says when it has been forged: encode_signed_zarith does not
\* ask strtoll for an error, so an integer that is too long is forged as the
\* longest there is.
Said(op) == IF op.kind = TRANSACTION THEN [op EXCEPT !.value = Cut(op.value)] ELSE op

Custom(op) == op.kind = TRANSACTION /\ op.entrypoint \in DOMAIN TextOf

\* Every operation whose fields are right is forged into bytes that say
\* nothing else to the reader at the other end, except that an integer of a
\* parameter beyond a long long is cut to one; and no operation with a wrong
\* field is: an address of another kind or with a wrong character, a number
\* or a value that is none.  (Calls of entrypoints that have no code apart:
\* EntrypointIsRead.)  A pairing code gives the members it was made of, and
\* the type of an entrypoint is read as it was written or not at all.  A
\* command to the signer is parsed in each of its four forms, and one whose
\* data is cut is refused.
EncodedIsRead ==
    CASE sample.codec = "operation" ->
            LET bytes == OperationGroup(sample.op.branch, sample.op)
            IN  Custom(sample.op) \/ (IF Forgeable(sample.op) THEN FieldsRead(bytes, Said(sample.op))
                                      ELSE bytes = REFUSED)
      [] sample.codec = "pairing" ->
            ParseUri(BuildUri(sample.info)) = [i \in DOMAIN Members |-> sample.info[Members[i]]]
      [] sample.codec = "type" ->
            LET parsed == ParseType(sample.json)
            IN  IF Nodes(sample.json) > MaxNodes THEN parsed.at = 0
                ELSE /\ parsed.at # 0 /\ TypeAt(parsed.pool, parsed.at) = sample.json
                     /\ LeafCount(parsed.pool, parsed.at)
                           = Cardinality({i \in DOMAIN parsed.pool : parsed.pool[i].prim \in Leaves})
      [] sample.codec = "command" ->
            LET raw == EncodeCommand(sample.command)
            IN  /\ ParseCommand(raw) = sample.command
                /\ Len(sample.command.data) > 1 =>
                      ParseCommand(SubSeq(raw, 1, 4 + Len(sample.command.data))) = MALFORMED
      [] OTHER -> TRUE

\* The reader finds the entrypoint of every call: "Known short entrypoint names
\* get a single-byte tag; anything else gets 0xff + 1-byte length + UTF8 name"
\* (tezos_micheline.c, above entrypoint_short_code).
EntrypointIsRead ==
    sample.codec = "operation" /\ sample.op.kind = TRANSACTION =>
        LET parameters == Parameters(sample.op.entrypoint, sample.op.value)
        IN  parameters \notin {REFUSED, <<0>>} => EntrypointRead(parameters) = {sample.op.entrypoint}

\* The n x n pixels of a tile that all have the tone v of the frame have that
\* tone together after dithering, to less than one level of one pixel, black
\* and white stay themselves in every depth, and every row and column of the
\* frame counts in exactly one row and column of the picture, whatever the
\* resolution (the comment in tezos_cam_downsample_box).
PictureKeepsTone ==
    CASE sample.codec = "tone" ->
            LET v == sample.tone  n == sample.size
                places == (0 .. n - 1) \X (0 .. n - 1)
                grey == <<v, v, v>>
                whites == Cardinality({at \in places : White(grey, Bayer[n][at], n)})
                levels(bits) == MapThenSumSet(LAMBDA at : Level(v, bits, Bayer[n][at], n), places)
                off(sum, most) == 255 * sum - v * most * n * n
            IN  /\ off(whites, 1) \in -255 .. 255
                /\ \A bits \in {2, 3} : off(levels(bits), 2 ^ bits - 1) \in -255 .. 255
                /\ \A depth \in DepthNames, at \in places :
                       v \in {0, 255} => Preview(grey, depth, Bayer[n][at], n) = grey
      [] sample.codec = "frame" ->
            \A side \in {1, 2} :
                LET from == FrameSize[side]  to == sample.size[side]
                IN  /\ Min(BlockOf(0, from, to)) = 0 /\ Max(BlockOf(to - 1, from, to)) = from - 1
                    /\ \A d \in 1 .. to - 1 :
                           Min(BlockOf(d, from, to)) = Max(BlockOf(d - 1, from, to)) + 1
      [] OTHER -> TRUE
=============================================================================
