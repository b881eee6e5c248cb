-------------------------------- MODULE Apdu --------------------------------
(***************************************************************************)
(* The command format of the hardware signer's serial line                 *)
(* (firmware/signer/protocol/tezos_signer_apdu.c): the short form of       *)
(* ISO 7816-4.  Bytes are numbers, a message is a sequence of them.        *)
(***************************************************************************)
EXTENDS Naturals, Sequences

\* No command at all.
MALFORMED == [malformed |-> TRUE]

Header(raw) == [cla |-> raw[1], ins |-> raw[2], p1 |-> raw[3], p2 |-> raw[4]]

\* A Le byte of zero asks for 256 bytes.
Le(byte) == IF byte = 0 THEN 256 ELSE byte

\* A command that has a body: Lc, the data, and Le or not.  A zero Lc would
\* announce the extended form, which is not supported.
CommandOf(raw) ==
    LET lc   == raw[5]
        data == SubSeq(raw, 6, 5 + lc)
    IN  CASE lc # 0 /\ Len(raw) = 5 + lc ->
                [header |-> Header(raw), data |-> data, le |-> 0]
          [] lc # 0 /\ Len(raw) = 6 + lc ->
                [header |-> Header(raw), data |-> data, le |-> Le(raw[6 + lc])]
          [] OTHER -> MALFORMED

\* tezos_apdu_parse_command; le is 0 when there is none.
ParseCommand(raw) ==
    CASE Len(raw) < 4 -> MALFORMED
      [] Len(raw) = 4 -> [header |-> Header(raw), data |-> <<>>, le |-> 0]
      [] Len(raw) = 5 -> [header |-> Header(raw), data |-> <<>>, le |-> Le(raw[5])]
      [] OTHER        -> CommandOf(raw)

\* What a command looks like on the line (the four cases of the format,
\* tezos_signer_apdu.h).
EncodeCommand(c) ==
    <<c.header.cla, c.header.ins, c.header.p1, c.header.p2>>
      \o (IF c.data = <<>> THEN <<>> ELSE <<Len(c.data)>> \o c.data)
      \o (IF c.le = 0 THEN <<>> ELSE <<c.le % 256>>)
=============================================================================
