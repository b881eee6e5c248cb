---------------------------- MODULE MCDeviceData ----------------------------
(***************************************************************************)
(* What the device keeps in plain files, takes from its keypad and encodes *)
(* for others: the address book, the settings, an amount, a recovery       *)
(* phrase, requests to a signer on a serial line, and operations, codes    *)
(* and pictures.  They share the plain store, the text field and the       *)
(* encodings but no state, so a behaviour is about one of them.            *)
(***************************************************************************)
EXTENDS AddressBook, SettingsEditors, SendAmount, ImportRecovery, SignerFrames, Mnemonic,
        Encodings, Bitwise

CONSTANT MaxRisks     \* bounds what befalls the address book in a behaviour

Parts == {"book", "settings", "amount", "import", "frames", "phrase", "encodings"}

VARIABLE part
partVars == <<part, steady>>
vars == <<partVars, bookVars, settingsVars, amountVars, importVars, frameVars, mnemonic, sample>>

Init ==
    /\ part \in Parts /\ steady \in (IF part \in {"book", "settings"} THEN BOOLEAN ELSE {TRUE})
    /\ BookInit /\ SettingsInit /\ AmountInit /\ ImportInit /\ FrameInit
    /\ MnemonicInit /\ SampleInit

Contacting == part = "book" /\ BookNext /\ Cardinality(risks') <= MaxRisks
    /\ UNCHANGED <<partVars, settingsVars, amountVars, importVars, frameVars, mnemonic, sample>>
Configuring == part = "settings" /\ SettingsNext
    /\ UNCHANGED <<partVars, bookVars, amountVars, importVars, frameVars, mnemonic, sample>>
Sending == part = "amount" /\ AmountNext
    /\ UNCHANGED <<partVars, bookVars, settingsVars, importVars, frameVars, mnemonic, sample>>
Importing == part = "import" /\ ImportNext
    /\ UNCHANGED <<partVars, bookVars, settingsVars, amountVars, frameVars, mnemonic, sample>>
Requesting == part = "frames" /\ FrameNext
    /\ UNCHANGED <<partVars, bookVars, settingsVars, amountVars, importVars, mnemonic, sample>>
Recovering == part = "phrase" /\ MnemonicNext
    /\ UNCHANGED <<partVars, bookVars, settingsVars, amountVars, importVars, frameVars, sample>>
Sampling == part = "encodings" /\ SampleNext
    /\ UNCHANGED <<partVars, bookVars, settingsVars, amountVars, importVars, frameVars, mnemonic>>

Next ==
    Contacting \/ Configuring \/ Sending \/ Importing \/ Requesting \/ Recovering
    \/ Sampling

\* Only the main loop's tick is fair.
Spec == Init /\ [][Next]_vars /\ WF_vars(Importing /\ ImportTick)

-----------------------------------------------------------------------------
(* The instance: two names and addresses; two settings of text and the     *)
(* network; two digits, with a word too short for the largest amount, as   *)
(* 2^64 is for 15 digits of tez; three words over three letters, one of    *)
(* them the beginning of the others, and phrases of two; bytes of four     *)
(* bits on the serial line; and samples at the edges of every encoding.    *)
CONSTANTS SIGN, t1, t2
MCCharacters == {0, 1, DOT, SIGN}

MCTextKeys == {"rpc_node", "name_registry_contract"}
MCTypedTexts == {t1, t2}
MCDefaultText == [k \in MCTextKeys |-> IF k = "rpc_node" THEN t1 ELSE BLANK]

MCKeyChars == (2 :> <<"a", "b">>) @@ (3 :> <<"d">>)
MCUpper    == ("a" :> "A")
MCWordList == <<<<"a">>, <<"a", "b">>, <<"a", "d">>>>
MCValid    == {<<<<"a", "b">>, <<"a">>>>}

MCPayloads == {<<>>, <<2>>, <<3, 1>>, <<0, 13, 0>>}
MCXor(a, b) == a ^^ b
MCAddress(account) == <<account, account + 1>>
MCSignature(account, bytes) ==
    [i \in 1 .. SignatureBytes |->
        (account + i + FoldLeft(LAMBDA n, b : 3 * n + b, 0, bytes)) % (2 * Half)]

Filled(byte) == [i \in 1 .. 20 |-> byte]
MCHashes == {Filled(0), Filled(1), Filled(255)}
Typed == Encode(Filled(1), "tz1", 63)
MCStrange ==
    {[Typed EXCEPT ![9] = 57 - @], [Typed EXCEPT ![5] = NotBase58], [Typed EXCEPT ![3] = 1],
     SubSeq(Typed, 1, 20), Encode([i \in 1 .. 32 |-> 7], "block", 63)}
MCNumbers == {NotNumeral, 0, 127, 128, 70000}

Whole(n) == [kind |-> "int", int |-> <<n>>]
NoNumber == [kind |-> "int", int |-> <<>>]
Quoted(text) == [kind |-> "string", text |-> text]
Octets(bytes) == [kind |-> "bytes", bytes |-> bytes]
Items(items) == [kind |-> "sequence", items |-> items]
Prim(name, args) == [kind |-> "prim", prim |-> name, args |-> args, annot |-> <<>>]
MCUnforgeable ==
    {NoNumber, Prim("Pair", <<Whole(1), NoNumber>>), Items(<<NoNumber>>), Prim("Lambda", <<>>),
     Prim("Pair", <<Whole(1), Whole(2), Whole(3)>>)}
MCValues ==
    MCUnforgeable \cup {NOTHING, Prim("Unit", <<>>), Prim("False", <<>>)}
    \cup {Whole(n) : n \in {0, 63, 64, -1, -63, -64, -65, 100, 8191, 8192, 100000,
                             MaxInt, MaxInt + 1, 2 * MaxInt, -MaxInt - 1, -MaxInt - 2}}
    \cup {Quoted(<<>>), Quoted(<<104, 105>>), Octets(<<0, 255>>), Octets([i \in 1 .. 300 |-> 9])}
    \cup {Prim("Pair", <<Whole(-5), Prim("Some", <<Quoted(<<5>>)>>)>>),
          [Prim("Left", <<Whole(1)>>) EXCEPT !.annot = <<37, 97>>],
          Items(<<>>), Items(<<Whole(1), Prim("Elt", <<Quoted(<<1>>), Whole(64)>>)>>),
          Items(<<Items(<<Whole(200)>>), Octets(<<>>), Whole(MaxInt + 1)>>)}

Type1(prim, args) == [prim |-> prim, annot |-> "", args |-> args]
Flat == {Type1(prim, <<>>) : prim \in {"int", "unit", "bool"}}
Nested == Flat \cup {Type1("pair", <<a, b>>) : a, b \in Flat} \cup {Type1("option", <<a>>) : a \in Flat}
MCTypes ==
    Nested \cup {Type1("or", <<a, b>>) : a, b \in Nested} \cup {Type1("list", <<a>>) : a \in Nested}

\* Entrypoints without a code: two, and one whose name is too long.
MCTextOf == [mint |-> <<109, 105, 110, 116>>, buy |-> <<98, 117, 121>>,
             long |-> [i \in 1 .. 32 |-> 97]]

\* Every level of a channel.
MCTones == 0 .. 255

MCChecksumBits == (4 :> 2) @@ (8 :> 1)
MCHashByte(entropy) ==
    LET byte(b) == SubSeq(entropy, (b - 1) * ByteBits + 1, b * ByteBits)
    IN  [i \in 1 .. ByteBits |->
            FoldLeft(LAMBDA n, b : n + byte(b)[i] + byte(b)[1] * i, i,
                     [b \in 1 .. Len(entropy) \div ByteBits |-> b]) % 2]
=============================================================================
