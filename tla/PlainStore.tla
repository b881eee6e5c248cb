----------------------------- MODULE PlainStore -----------------------------
(***************************************************************************)
(* A plain file of lines "key=value" (chain/tezos_store.c), as a sequence  *)
(* of <<key, value>>.  A save rewrites the file as a whole and in place;   *)
(* the power may go at any time: the file being written then ends          *)
(* anywhere, also within a line.                                           *)
(***************************************************************************)
EXTENDS Integers, Sequences, SequencesExt

CONSTANT ABSENT     \* there is no such line

VARIABLE steady     \* do the power and the file system never fail in this behaviour?

LineOf(lines, key) == SelectInSeq(lines, LAMBDA line : line[1] = key)

\* tezos_store_load_plain.
Load(lines, key) ==
    IF LineOf(lines, key) = 0 THEN ABSENT ELSE lines[LineOf(lines, key)][2]

\* tezos_store_save_plain: replace the line, or add one at the end.
Save(lines, key, value) ==
    IF LineOf(lines, key) = 0 THEN Append(lines, <<key, value>>)
    ELSE [lines EXCEPT ![LineOf(lines, key)] = <<key, value>>]

\* What the power may leave of a file that is being written; cut[n] is
\* what may be read from line n when its end is missing.
Torn(lines, cut) ==
    {SubSeq(lines, 1, n) : n \in 0 .. Len(lines)} \cup
    UNION {{Append(SubSeq(lines, 1, n - 1), <<lines[n][1], value>>) :
                value \in cut[n]} : n \in DOMAIN lines}
=============================================================================
