------------------------------ MODULE Mnemonic ------------------------------
(***************************************************************************)
(* Recovery phrases (chain/tezos_bip39.c): entropy and the first bits of   *)
(* its hash, cut into the indices of words.  A buffer is the sequence of   *)
(* its bits, the high bit of its first byte first; the program has         *)
(* ByteBits 8, WordBits 11, 2048 words and 128 or 256 bits of entropy.     *)
(* The derivation of a seed from a phrase is libsodium's.                  *)
(***************************************************************************)
EXTENDS Integers, Sequences

CONSTANTS
    ByteBits, WordBits,
    ListSize,           \* how many words the list has
    EntropyBits,        \* the lengths of entropy
    ChecksumBits,       \* for each of them, how many bits of the hash are kept
    HashByte(_),        \* the first byte of crypto_hash_sha256
    MaxWords            \* bound on the words entered

PhraseLength(bits) == (bits + ChecksumBits[bits]) \div WordBits
Entropies(bits) == [1 .. bits -> {0, 1}]

\* n >> k
Halved(n, k) ==
    LET half[i \in 0 .. k] == IF i = 0 THEN n ELSE half[i - 1] \div 2 IN half[k]

ASSUME MnemonicAssumption ==
    /\ {ByteBits, WordBits, ListSize} \subseteq Nat \ {0} /\ EntropyBits \subseteq Nat \ {0}
    /\ \A index \in 0 .. ListSize - 1 : Halved(index, WordBits) = 0
    /\ \A bits \in EntropyBits :
          /\ ChecksumBits[bits] \in 1 .. ByteBits
          /\ (bits + ChecksumBits[bits]) % WordBits = 0
          /\ \A entropy \in Entropies(bits) : HashByte(entropy) \in [1 .. ByteBits -> {0, 1}]

\* get_bits and set_bits, which sets ones and clears none.
GetBits(buf, offset, n) ==
    LET v[i \in 0 .. n] == IF i = 0 THEN 0 ELSE 2 * v[i - 1] + buf[offset + i] IN v[n]
SetBits(buf, offset, value, n) ==
    [at \in DOMAIN buf |->
        IF at - offset \in 1 .. n /\ Halved(value, n - (at - offset)) % 2 = 1 THEN 1 ELSE buf[at]]

\* tezos_bip39_entropy_to_mnemonic: the indices of the words.
Phrase(entropy) ==
    LET combined == entropy \o HashByte(entropy)
    IN  [w \in 1 .. PhraseLength(Len(entropy)) |-> GetBits(combined, (w - 1) * WordBits, WordBits)]

\* The bits of the words in a buffer of zeros.
Combined(phrase, bits) ==
    LET buf[w \in 0 .. Len(phrase)] ==
            IF w = 0 THEN [at \in 1 .. bits + ByteBits |-> 0]
            ELSE SetBits(buf[w - 1], (w - 1) * WordBits, phrase[w], WordBits)
    IN  buf[Len(phrase)]

\* tezos_bip39_validate, for as many words as the caller says; an index is -1
\* for a word that is not in the list.
\* Mutant: the checksum is taken from the end of the hash.
Validates_LowBits(phrase, bits) ==
    /\ Len(phrase) = PhraseLength(bits) /\ \A w \in DOMAIN phrase : phrase[w] >= 0
    /\ LET combined == Combined(phrase, bits)
           entropy  == SubSeq(combined, 1, bits)
       IN  GetBits(combined, bits, ChecksumBits[bits])
              = GetBits(HashByte(entropy), ByteBits - ChecksumBits[bits], ChecksumBits[bits])
Validates(phrase, bits) ==
    /\ Len(phrase) = PhraseLength(bits) /\ \A w \in DOMAIN phrase : phrase[w] >= 0
    /\ LET combined == Combined(phrase, bits)
           entropy  == SubSeq(combined, 1, bits)
       IN  GetBits(combined, bits, ChecksumBits[bits])
              = GetBits(HashByte(entropy), 0, ChecksumBits[bits])

-----------------------------------------------------------------------------
VARIABLE mnemonic   \* the phrase that is validated, as it is entered

MnemonicInit == mnemonic = <<>>

\* wordlist_index_of of the next word.
Enter(index) == Len(mnemonic) < MaxWords /\ mnemonic' = Append(mnemonic, index)
MnemonicNext == \E index \in -1 .. ListSize - 1 : Enter(index)

MnemonicSpec == MnemonicInit /\ [][MnemonicNext]_mnemonic

\* The phrases of all entropy of each length.
Phrases == [bits \in EntropyBits |-> {Phrase(entropy) : entropy \in Entropies(bits)}]

\* A phrase is accepted exactly when it is the phrase of some entropy of that
\* length: no word can be changed, missing or strange without the checksum
\* being asked.
PhraseIsChecked ==
    \A bits \in EntropyBits : Validates(mnemonic, bits) <=> mnemonic \in Phrases[bits]
=============================================================================
