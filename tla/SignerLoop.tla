----------------------------- MODULE SignerLoop -----------------------------
(***************************************************************************)
(* The main loop of the signer's firmware (firmware/signer/stm32f412/      *)
(* main.c and the same loop in stm32f401_bootstrap/main.c): it waits for   *)
(* four bytes, takes them for a command and answers with a status word.    *)
(* It never reads a body, so the bytes of a body, if the host sends one,   *)
(* are the headers of the next commands; and nothing brings the two ends   *)
(* back in step after a lost byte.                                         *)
(*                                                                         *)
(* Chunks are appended by the operation-assembly session of SignerSession. *)
(* The host and the line are external.                                     *)
(***************************************************************************)
EXTENDS SignerSession, Apdu

CONSTANTS
    Headers,        \* the headers the host sends
    Bodies,         \* what it sends after them: Lc and data, or nothing
    MaxCommands     \* bound: commands sent

ASSUME LineAssumption ==
    /\ \A h \in Headers : h \in Seq(0 .. 255) /\ Len(h) = 4
    /\ \A body \in Bodies : body \in Seq(0 .. 255)

VARIABLES
    line,       \* the bytes on the serial line
    raw,        \* raw[0 .. len - 1]
    sent,       \* history: the commands sent, header and body
    headers,    \* history: the headers the loop dispatched
    answers,    \* history: its status words
    lost        \* history: has a byte been lost?

loopVars == <<line, raw, sent, headers, answers, lost>>

CLA  == 128      \* TEZOS_APDU_CLA
SIGN == 4        \* TEZOS_APDU_INS_SIGN

\* TEZOS_APDU_P1_SIGN_*.
ChunkOf(p1) ==
    CASE p1 = 0 -> "INIT" [] p1 = 1 -> "CONTINUE" [] p1 = 128 -> "LAST" [] OTHER -> "OTHER"

-----------------------------------------------------------------------------
HostSends ==
    /\ Len(sent) < MaxCommands
    /\ \E h \in Headers, body \in Bodies :
          /\ line' = line \o h \o body
          /\ sent' = Append(sent, [header |-> h, body |-> body])
    /\ UNCHANGED <<raw, headers, answers, lost, state, operation, reply>>

\* Noise, or a byte that arrives while the loop writes its answer.  Bound:
\* one byte, as one is enough to put the two ends out of step.
LoseByte ==
    /\ line # <<>> /\ ~lost
    /\ line' = Tail(line) /\ lost' = TRUE
    /\ UNCHANGED <<raw, sent, headers, answers, state, operation, reply>>

\* uart_read_byte, as long as the header is not complete.
ReadByte ==
    /\ line # <<>> /\ Len(raw) < 4
    /\ raw' = Append(raw, Head(line)) /\ line' = Tail(line)
    /\ UNCHANGED <<sent, headers, answers, lost, state, operation, reply>>

\* Mutant: the declined operation stays in the session.
SignChunk_NoReset(c) == RejectChunk(c) \/ OverflowChunk(c) \/ AcceptChunk(c)

\* The chunk goes to the session.  An operation it completes is declined, as
\* there is no signing yet, and the session is reset.
SignChunk(c) ==
    \/ RejectChunk(c)
    \/ OverflowChunk(c)
    \/ c.p1 # "LAST" /\ AcceptChunk(c)
    \/ /\ c.p1 = "LAST" /\ ~OutOfSequence(c) /\ Fits(c)
       /\ reply' = "INS_NOT_SUPPORTED"
       /\ state' = "IDLE" /\ operation' = <<>>

Dispatch(command) ==
    IF command.header.cla # CLA
    THEN reply' = "CLA_NOT_SUPPORTED" /\ UNCHANGED sessionVars
    ELSE IF command.header.ins # SIGN
    THEN reply' = "INS_NOT_SUPPORTED" /\ UNCHANGED sessionVars
    ELSE SignChunk([p1 |-> ChunkOf(command.header.p1), data |-> command.data])

\* One pass of the loop, once four bytes are there.
Serve ==
    /\ Len(raw) = 4
    /\ LET command == ParseCommand(raw)
       IN  IF command = MALFORMED
           THEN reply' = "MALFORMED" /\ UNCHANGED sessionVars
           ELSE Dispatch(command)
    /\ headers' = Append(headers, raw) /\ answers' = Append(answers, reply')
    /\ raw' = <<>>
    /\ UNCHANGED <<line, sent, lost>>

LoopInit ==
    /\ line = <<>> /\ raw = <<>> /\ lost = FALSE
    /\ sent = <<>> /\ headers = <<>> /\ answers = <<>>

LoopNext ==
    /\ HostSends \/ LoseByte \/ ReadByte \/ Serve
    /\ UNCHANGED <<cmd, hostVars>>

LoopSpec == SessionInit /\ LoopInit /\ [][LoopNext]_<<assemblyVars, loopVars>>

-----------------------------------------------------------------------------
\* No command of the host has a body and none of its bytes was lost.
Undisturbed == ~lost /\ \A i \in DOMAIN sent : sent[i].body = <<>>

\* What the loop answers is a command of the host's, in the order they were
\* sent, as long as nothing puts the two out of step; in step or not, no
\* byte ever gets into an operation, and none is left for the next pass to
\* resolve: the loop cannot show or sign what the host did not send whole.
LoopInStep ==
    /\ Undisturbed =>
          /\ Len(headers) <= Len(sent)
          /\ \A i \in DOMAIN headers : headers[i] = sent[i].header
    /\ headers # <<>> => operation = <<>> /\ state \in {"IDLE", "RECEIVING"}
=============================================================================
