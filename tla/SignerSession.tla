--------------------------- MODULE SignerSession ---------------------------
(***************************************************************************)
(* The operation-assembly session of the hardware signer                   *)
(* (firmware/signer/protocol/tezos_signer_session.c): INS_SIGN chunks      *)
(* arrive over a serial line and are reassembled into one forged           *)
(* operation, which the dispatch logic then resolves (signs or declines).  *)
(*                                                                         *)
(* The host is external.  It follows the protocol of the session's header: *)
(* a large operation is INIT, CONTINUE*, LAST and, when SingleLast is      *)
(* TRUE, an operation that fits one chunk is a lone LAST.  It sends one    *)
(* command at a time and waits for the status word; it may give up between *)
(* two chunks, and it gives up when a command or a reply is lost.          *)
(***************************************************************************)
EXTENDS Naturals, Sequences

CONSTANTS
    Byte,               \* the bytes an operation is made of
    Operations,         \* the operations the host wants signed
    Content,            \* Content[o]: the forged bytes of operation o
    MaxOperationSize,   \* TEZOS_SIGNER_MAX_OPERATION_SIZE
    MaxData,            \* TEZOS_APDU_MAX_DATA
    SingleLast,         \* does the host send a small operation as a lone LAST?
    NONE

States      == {"IDLE", "RECEIVING", "READY"}
ChunkType   == {"INIT", "CONTINUE", "LAST"}
StatusWord  == {"SUCCESS", "WRONG_LENGTH", "INCORRECT_P1_P2"}
Command     == [p1 : ChunkType \cup {"OTHER"}, data : Seq(Byte)]

ASSUME SessionAssumption ==
    /\ MaxOperationSize \in Nat
    /\ MaxData \in Nat \ {0}
    /\ Content \in [Operations -> Seq(Byte)]
    /\ \A o \in Operations : Content[o] # <<>>
    /\ SingleLast \in BOOLEAN
    /\ NONE \notin Operations \cup Command \cup StatusWord \cup ChunkType

VARIABLES
    state,      \* session->state
    operation,  \* session->operation[0 .. operation_len - 1]
    cmd,        \* the command on the wire, NONE when there is none
    reply,      \* the status word on the wire, NONE when there is none
    hostOp,     \* the operation the host is sending, NONE between operations
    hostPos,    \* how many of its bytes the host has sent
    hostSent    \* the P1 of the host's last command

sessionVars == <<state, operation>>
hostVars    == <<hostOp, hostPos, hostSent>>
assemblyVars        == <<state, operation, cmd, reply, hostOp, hostPos, hostSent>>

Min2(a, b)      == IF a <= b THEN a ELSE b
Chunk(o, i, j)  == SubSeq(Content[o], i, j)
Quiet           == cmd = NONE /\ reply = NONE

-----------------------------------------------------------------------------
(* The session: tezos_signer_session_append_chunk and the reset that the   *)
(* dispatch logic owes a READY operation.                                  *)

\* A stray CONTINUE, or a P1 that is none of the three chunk types.
OutOfSequence(c) ==
    \/ c.p1 \notin ChunkType
    \/ c.p1 = "CONTINUE" /\ state # "RECEIVING"

\* Mutants of Base: LAST discards what it should complete; INIT appends to
\* what an abandoned operation left.
Base_LastDiscards(c) == IF c.p1 = "CONTINUE" THEN operation ELSE <<>>
Base_InitAppends(c)  == IF state = "RECEIVING" THEN operation ELSE <<>>

\* What the chunk is appended to: INIT always starts afresh, and so does a
\* LAST that does not end an operation in progress.
Base(c) ==
    IF c.p1 = "INIT" \/ (c.p1 = "LAST" /\ state # "RECEIVING")
    THEN <<>> ELSE operation

Fits(c) == Len(Base(c)) + Len(c.data) <= MaxOperationSize

RejectChunk(c) ==
    /\ OutOfSequence(c)
    /\ reply' = "INCORRECT_P1_P2"
    /\ UNCHANGED sessionVars

OverflowChunk(c) ==
    /\ ~OutOfSequence(c) /\ ~Fits(c)
    /\ state' = "IDLE" /\ operation' = <<>>
    /\ reply' = "WRONG_LENGTH"

AcceptChunk(c) ==
    /\ ~OutOfSequence(c) /\ Fits(c)
    /\ operation' = Base(c) \o c.data
    /\ state' = IF c.p1 = "LAST" THEN "READY" ELSE "RECEIVING"
    /\ reply' = "SUCCESS"

AppendChunk ==
    /\ cmd # NONE
    /\ cmd' = NONE
    /\ RejectChunk(cmd) \/ OverflowChunk(cmd) \/ AcceptChunk(cmd)
    /\ UNCHANGED hostVars

\* The dispatch logic has signed or declined the assembled operation.
Resolve ==
    /\ state = "READY"
    /\ state' = "IDLE" /\ operation' = <<>>
    /\ UNCHANGED <<cmd, reply, hostVars>>

-----------------------------------------------------------------------------
(* The host and the wire (external).                                       *)

Send(o, p1, n) ==
    /\ cmd' = [p1 |-> p1, data |-> Chunk(o, hostPos + 1, hostPos + n)]
    /\ hostOp' = o /\ hostPos' = hostPos + n /\ hostSent' = p1
    /\ UNCHANGED <<state, operation, reply>>

SendFirst(o) ==
    /\ Quiet /\ hostOp = NONE
    /\ \E n \in 1 .. Min2(MaxData, Len(Content[o])) :
          IF SingleLast /\ Len(Content[o]) <= MaxData
          THEN n = Len(Content[o]) /\ Send(o, "LAST", n)
          ELSE Send(o, "INIT", n)

SendNext ==
    /\ Quiet /\ hostOp # NONE
    /\ LET left == Len(Content[hostOp]) - hostPos IN
       \E n \in 0 .. Min2(MaxData, left) :
          \/ n = left /\ Send(hostOp, "LAST", n)
          \/ n > 0 /\ n < left /\ Send(hostOp, "CONTINUE", n)

\* A command that belongs to no operation: an unknown P1, or a CONTINUE.
SendStray(o) ==
    /\ Quiet /\ hostOp = NONE
    /\ \E p1 \in {"OTHER", "CONTINUE"} :
          cmd' = [p1 |-> p1, data |-> Chunk(o, 1, 1)]
    /\ UNCHANGED <<state, operation, reply, hostVars>>

HostIdle == hostOp' = NONE /\ hostPos' = 0 /\ hostSent' = NONE

\* A status word other than SUCCESS ends the attempt, and so does the reply
\* to the last chunk.
HostReceive ==
    /\ reply # NONE
    /\ reply' = NONE
    /\ IF reply = "SUCCESS" /\ hostOp # NONE /\ hostSent # "LAST"
       THEN UNCHANGED hostVars
       ELSE HostIdle
    /\ UNCHANGED <<state, operation, cmd>>

LoseCommand ==
    /\ cmd # NONE /\ cmd' = NONE
    /\ HostIdle
    /\ UNCHANGED <<state, operation, reply>>

LoseReply ==
    /\ reply # NONE /\ reply' = NONE
    /\ HostIdle
    /\ UNCHANGED <<state, operation, cmd>>

HostGivesUp ==
    /\ Quiet /\ hostOp # NONE
    /\ HostIdle
    /\ UNCHANGED <<state, operation, cmd, reply>>

-----------------------------------------------------------------------------
SessionInit ==
    /\ state = "IDLE" /\ operation = <<>>
    /\ cmd = NONE /\ reply = NONE
    /\ hostOp = NONE /\ hostPos = 0 /\ hostSent = NONE

SessionNext ==
    \/ AppendChunk
    \/ Resolve
    \/ \E o \in Operations : SendFirst(o) \/ SendStray(o)
    \/ SendNext
    \/ HostReceive
    \/ LoseCommand
    \/ LoseReply
    \/ HostGivesUp

SessionSpec == SessionInit /\ [][SessionNext]_assemblyVars

-----------------------------------------------------------------------------
(* Properties.                                                             *)

\* Types, and the buffer's bound: operation_len never exceeds the 2048 bytes
\* of session->operation (append_bytes refuses the chunk first).
SessionTypeOK ==
    /\ state \in States
    /\ operation \in Seq(Byte)
    /\ Len(operation) <= MaxOperationSize
    /\ cmd \in Command \cup {NONE}
    /\ reply \in StatusWord \cup {NONE}
    /\ hostOp \in Operations \cup {NONE}
    /\ hostPos \in Nat
    /\ hostSent \in ChunkType \cup {NONE}

\* What the dispatch logic is given to display and sign is one whole
\* operation of the host's, never a blend or a fragment (the "real safety
\* property" of the session's header).
ReadyIsOneOperation ==
    state = "READY" => \E o \in Operations : operation = Content[o]

\* The header's own wording, weaker: the bytes presented all come from one
\* operation, whichever attempt or part of it they are.
NeverMixesOperations ==
    state = "READY" =>
        \E o \in Operations :
           \A i \in DOMAIN operation :
              \E j \in DOMAIN Content[o] : operation[i] = Content[o][j]

\* Whatever was abandoned or lost before, a host between two chunks of an
\* operation finds exactly the bytes it was acknowledged in the session.
AcknowledgedIsAssembled ==
    (hostOp # NONE /\ Quiet) =>
        state = "RECEIVING" /\ operation = Chunk(hostOp, 1, hostPos)

\* A host in the middle of an operation is refused for one reason only: the
\* operation does not fit the buffer.  No earlier sequence can get it refused.
RefusedOnlyForSize ==
    (hostOp # NONE /\ reply \in StatusWord \ {"SUCCESS"}) =>
        reply = "WRONG_LENGTH" /\ Len(Content[hostOp]) > MaxOperationSize
-----------------------------------------------------------------------------
(* The inductive invariant of a host that opens every operation with INIT. *)

\* The host's own bookkeeping: how far it is, and that one command at most
\* is on the wire.
HostOK ==
    /\ cmd = NONE \/ reply = NONE
    /\ hostOp = NONE => hostSent = NONE
    /\ hostOp # NONE => hostSent # NONE /\ hostPos \in 1 .. Len(Content[hostOp])
    /\ hostSent = "LAST" => hostPos = Len(Content[hostOp]) /\ ~Quiet

\* A chunk in flight, appended to what the session would append it to, makes
\* the operation's first hostPos bytes; a stray command completes nothing.
InFlightOK ==
    cmd # NONE =>
        IF hostOp = NONE THEN cmd.p1 \in {"OTHER", "CONTINUE"}
        ELSE /\ cmd.p1 = hostSent
             /\ cmd.p1 # "INIT" => state = "RECEIVING"
             /\ Base(cmd) \o cmd.data = Chunk(hostOp, 1, hostPos)

\* Once a chunk other than the last is accepted, and until the next one is
\* sent, the session holds the operation's first hostPos bytes.
AcceptedOK ==
    (hostOp # NONE /\ cmd = NONE /\ reply \in {NONE, "SUCCESS"} /\ hostSent # "LAST") =>
        state = "RECEIVING" /\ operation = Chunk(hostOp, 1, hostPos)

IInv ==
    /\ SessionTypeOK
    /\ HostOK
    /\ InFlightOK
    /\ AcceptedOK
    /\ RefusedOnlyForSize
    /\ ReadyIsOneOperation
=============================================================================
