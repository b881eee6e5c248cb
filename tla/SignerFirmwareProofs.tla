------------------------ MODULE SignerFirmwareProofs -----------------------
(***************************************************************************)
(* What the signer's firmware guarantees for every size of its buffers.    *)
(* The session: the type invariant, and with it the bound of the operation *)
(* buffer, holds whatever the host does; that what is presented is one     *)
(* whole operation is proved for a host that opens every operation with    *)
(* INIT (~SingleLast).  The random number generator, for every length of   *)
(* its pipeline.  The main loop, for every header and body the host sends. *)
(* The parser of commands, for every command of the short form.            *)
(***************************************************************************)
EXTENDS SignerLoop, SignerRng, SequenceTheorems, TLAPS

\* A piece of an operation is a sequence of bytes of the expected length.
LEMMA ChunkProperties ==
  ASSUME NEW o \in Operations, NEW i \in Nat \ {0},
         NEW j \in Nat, j <= Len(Content[o])
  PROVE  /\ Chunk(o, i, j) \in Seq(Byte)
         /\ i <= j + 1 => Len(Chunk(o, i, j)) = j - i + 1
<1>1. Content[o] \in Seq(Byte)
  BY SessionAssumption
<1>2. \A k \in i .. j : Content[o][k] \in Byte
  BY <1>1, ElementOfSeq
<1>. QED
  BY <1>1, <1>2, SubSeqProperties, LenProperties DEF Chunk

\* Two adjacent pieces make the piece that spans both.
LEMMA ChunkConcat ==
  ASSUME NEW o \in Operations, NEW p \in Nat, NEW n \in Nat,
         p + n <= Len(Content[o])
  PROVE  Chunk(o, 1, p) \o Chunk(o, p + 1, p + n) = Chunk(o, 1, p + n)
<1>1. Content[o] \in Seq(Byte) /\ Len(Content[o]) \in Nat
  BY SessionAssumption, LenProperties
<1>. QED
  BY <1>1, ConcatAdjacentSubSeq DEF Chunk

\* The piece that spans everything is the operation itself.
LEMMA ChunkWhole ==
  ASSUME NEW o \in Operations
  PROVE  Chunk(o, 1, Len(Content[o])) = Content[o]
BY SubSeqFull, SessionAssumption DEF Chunk

\* A command put on the wire by Send is a well-formed command.
LEMMA SendType ==
  ASSUME SessionTypeOK, NEW o \in Operations, NEW p1 \in ChunkType, NEW n \in Nat,
         hostPos + n <= Len(Content[o]), Send(o, p1, n)
  PROVE  SessionTypeOK'
<1>1. Chunk(o, hostPos + 1, hostPos + n) \in Seq(Byte)
  BY ChunkProperties DEF SessionTypeOK
<1>. QED
  BY <1>1 DEF Send, SessionTypeOK, Command

-----------------------------------------------------------------------------
\* Only positions inside the operation are ever sent: what the type
\* invariant needs to be inductive.
HostInside == hostOp # NONE => hostPos <= Len(Content[hostOp])

TypeInv == SessionTypeOK /\ HostInside /\ (hostOp = NONE => hostPos = 0)

\* Types are inductive.
LEMMA TypeInvStep == TypeInv /\ [SessionNext]_assemblyVars => TypeInv'
<1> SUFFICES ASSUME TypeInv, [SessionNext]_assemblyVars
             PROVE  TypeInv'
  OBVIOUS
<1>. USE SessionAssumption
<1>1. CASE AppendChunk
  <2>1. cmd \in Command /\ operation \in Seq(Byte)
    BY <1>1 DEF AppendChunk, TypeInv, SessionTypeOK
  <2>2. Base(cmd) \in Seq(Byte) /\ cmd.data \in Seq(Byte)
    BY <2>1 DEF Base, Command
  <2>3. CASE RejectChunk(cmd)
    BY <1>1, <2>3 DEF AppendChunk, RejectChunk, TypeInv, SessionTypeOK, HostInside,
                     sessionVars, hostVars, StatusWord
  <2>4. CASE OverflowChunk(cmd)
    BY <1>1, <2>4 DEF AppendChunk, OverflowChunk, TypeInv, SessionTypeOK, HostInside,
                     hostVars, StatusWord, States
  <2>5. CASE AcceptChunk(cmd)
    <3>1. operation' \in Seq(Byte) /\ Len(operation') <= MaxOperationSize
      BY <2>2, <2>5, ConcatProperties DEF AcceptChunk, Fits
    <3>. QED
      BY <1>1, <2>5, <3>1 DEF AppendChunk, AcceptChunk, TypeInv, SessionTypeOK,
                             HostInside, hostVars, StatusWord, States
  <2>. QED
    BY <1>1, <2>3, <2>4, <2>5 DEF AppendChunk
<1>2. CASE Resolve
  BY <1>2 DEF Resolve, TypeInv, SessionTypeOK, HostInside, States, hostVars
<1>3. ASSUME NEW o \in Operations, SendFirst(o)
      PROVE  TypeInv'
  <2>1. Len(Content[o]) \in Nat
    BY LenProperties
  <2>2. PICK n \in 1 .. Min2(MaxData, Len(Content[o])), p1 \in ChunkType : Send(o, p1, n)
    BY <1>3 DEF SendFirst, ChunkType
  <2>3. n \in Nat /\ n <= Len(Content[o]) /\ hostPos = 0
    BY <1>3, <2>1, <2>2 DEF Min2, SendFirst, TypeInv
  <2>4. SessionTypeOK'
    BY <2>1, <2>2, <2>3, SendType DEF TypeInv
  <2>. QED
    BY <2>2, <2>3, <2>4 DEF TypeInv, HostInside, Send
<1>4. CASE SendNext
  <2>1. hostOp \in Operations /\ Len(Content[hostOp]) \in Nat /\ hostPos \in Nat
    BY <1>4, LenProperties DEF SendNext, TypeInv, SessionTypeOK
  <2>2. PICK n \in 0 .. Min2(MaxData, Len(Content[hostOp]) - hostPos), p1 \in ChunkType :
           Send(hostOp, p1, n)
    BY <1>4 DEF SendNext, ChunkType
  <2>3. n \in Nat /\ hostPos + n <= Len(Content[hostOp])
    BY <1>4, <2>1, <2>2 DEF Min2, SendNext, TypeInv, HostInside
  <2>4. SessionTypeOK'
    BY <2>1, <2>2, <2>3, SendType DEF TypeInv
  <2>. QED
    BY <2>1, <2>2, <2>3, <2>4 DEF TypeInv, HostInside, Send
<1>5. ASSUME NEW o \in Operations, SendStray(o)
      PROVE  TypeInv'
  <2>1. PICK p1 \in {"OTHER", "CONTINUE"} : cmd' = [p1 |-> p1, data |-> Chunk(o, 1, 1)]
    BY <1>5 DEF SendStray
  <2>2. Len(Content[o]) \in Nat \ {0}
    BY EmptySeq
  <2>3. Chunk(o, 1, 1) \in Seq(Byte)
    BY <2>2, ChunkProperties
  <2>. QED
    BY <1>5, <2>1, <2>3 DEF SendStray, TypeInv, SessionTypeOK, HostInside, Command,
                           ChunkType, hostVars
<1>6. CASE HostReceive
  BY <1>6 DEF HostReceive, HostIdle, TypeInv, SessionTypeOK, HostInside, hostVars
<1>7. CASE LoseCommand
  BY <1>7 DEF LoseCommand, HostIdle, TypeInv, SessionTypeOK, HostInside
<1>8. CASE LoseReply
  BY <1>8 DEF LoseReply, HostIdle, TypeInv, SessionTypeOK, HostInside
<1>9. CASE HostGivesUp
  BY <1>9 DEF HostGivesUp, HostIdle, TypeInv, SessionTypeOK, HostInside
<1>10. CASE UNCHANGED assemblyVars
  BY <1>10 DEF assemblyVars, TypeInv, SessionTypeOK, HostInside
<1>. QED
  BY <1>1, <1>2, <1>3, <1>4, <1>5, <1>6, <1>7, <1>8, <1>9, <1>10 DEF SessionNext

\* Every reachable state is well typed, and the session never holds more than
\* MaxOperationSize bytes, whichever way the host sends its operations.
THEOREM TypeCorrect == SessionSpec => []SessionTypeOK
<1>1. SessionInit => TypeInv
  BY SessionAssumption, EmptySeq DEF SessionInit, TypeInv, SessionTypeOK, HostInside, States
<1>2. TypeInv /\ [SessionNext]_assemblyVars => TypeInv'
  BY TypeInvStep
<1>3. TypeInv => SessionTypeOK
  BY DEF TypeInv
<1>. QED
  BY <1>1, <1>2, <1>3, PTL DEF SessionSpec

-----------------------------------------------------------------------------
\* One step of the system preserves the inductive invariant.
LEMMA IInvStep == ~SingleLast /\ TypeInv /\ TypeInv' /\ IInv /\ [SessionNext]_assemblyVars => IInv'
<1> SUFFICES ASSUME ~SingleLast, TypeInv, TypeInv', IInv, [SessionNext]_assemblyVars
             PROVE  IInv'
  OBVIOUS
<1>. USE SessionAssumption
<1>0. SessionTypeOK' 
  BY DEF TypeInv
<1>. USE DEF IInv
<1>1. CASE AppendChunk
  <2>1. cmd \in Command /\ cmd # NONE /\ cmd' = NONE /\ operation \in Seq(Byte)
    BY <1>1 DEF AppendChunk, TypeInv, SessionTypeOK
  <2>2. UNCHANGED <<hostOp, hostPos, hostSent>> /\ reply' # NONE
    BY <1>1 DEF AppendChunk, RejectChunk, OverflowChunk, AcceptChunk, hostVars, StatusWord
  <2>3. HostOK' /\ InFlightOK'
    BY <2>1, <2>2 DEF HostOK, InFlightOK, Quiet
  <2>4. hostOp # NONE => cmd.p1 = hostSent /\ hostSent \in ChunkType /\ hostOp \in Operations
    BY <2>1 DEF InFlightOK, HostOK, SessionTypeOK
  <2>5. CASE RejectChunk(cmd)
    <3>1. hostOp = NONE
      BY <2>1, <2>4, <2>5 DEF RejectChunk, OutOfSequence, InFlightOK, ChunkType
    <3>. QED
      BY <1>0, <2>2, <2>3, <2>5, <3>1 DEF RejectChunk, AcceptedOK, RefusedOnlyForSize,
           ReadyIsOneOperation, sessionVars
  <2>6. CASE OverflowChunk(cmd)
    <3>1. ASSUME hostOp # NONE  PROVE  Len(Content[hostOp]) > MaxOperationSize
      <4>1. Base(cmd) \in Seq(Byte) /\ cmd.data \in Seq(Byte)
        BY <2>1 DEF Base, Command
      <4>2. Len(Base(cmd) \o cmd.data) > MaxOperationSize
        BY <2>6, <4>1, ConcatProperties, LenProperties DEF OverflowChunk, Fits
      <4>3. Len(Content[hostOp]) \in Nat /\ hostPos \in 1 .. Len(Content[hostOp])
        BY <2>4, <3>1, LenProperties DEF HostOK
      <4>4. Len(Chunk(hostOp, 1, hostPos)) = hostPos
        BY <2>4, <3>1, <4>3, ChunkProperties
      <4>. QED
        BY <2>1, <3>1, <4>2, <4>3, <4>4 DEF InFlightOK
    <3>. QED
      BY <1>0, <2>2, <2>3, <2>6, <3>1 DEF OverflowChunk, AcceptedOK, RefusedOnlyForSize,
           ReadyIsOneOperation
  <2>7. CASE AcceptChunk(cmd)
    <3>1. CASE hostOp = NONE
      BY <1>0, <2>1, <2>2, <2>3, <2>7, <3>1 DEF AcceptChunk, OutOfSequence, ChunkType,
           AcceptedOK, RefusedOnlyForSize, ReadyIsOneOperation, InFlightOK
    <3>2. CASE hostOp # NONE
      <4>1. operation' = Chunk(hostOp, 1, hostPos)
        BY <2>1, <2>7, <3>2 DEF AcceptChunk, InFlightOK
      <4>2. ReadyIsOneOperation'
        <5>1. CASE cmd.p1 = "LAST"
          BY <2>4, <3>2, <4>1, <5>1, ChunkWhole DEF HostOK, ReadyIsOneOperation
        <5>2. CASE cmd.p1 # "LAST"
          BY <2>7, <5>2 DEF AcceptChunk, ReadyIsOneOperation
        <5>. QED  BY <5>1, <5>2
      <4>3. AcceptedOK' /\ RefusedOnlyForSize'
        BY <2>2, <2>4, <2>7, <3>2, <4>1 DEF AcceptChunk, AcceptedOK, RefusedOnlyForSize
      <4>. QED
        BY <1>0, <2>3, <4>2, <4>3
    <3>. QED  BY <3>1, <3>2
  <2>. QED
    BY <1>1, <2>5, <2>6, <2>7 DEF AppendChunk
<1>2. CASE Resolve
  <2>1. InFlightOK'
    BY <1>2 DEF Resolve, InFlightOK, Base, hostVars
  <2>. QED
    BY <1>0, <1>2, <2>1 DEF Resolve, HostOK, AcceptedOK, RefusedOnlyForSize,
         ReadyIsOneOperation, hostVars, Quiet
<1>3. ASSUME NEW o \in Operations, SendFirst(o)
      PROVE  IInv'
  <2>1. Len(Content[o]) \in Nat /\ o # NONE
    BY LenProperties
  <2>2. PICK n \in 1 .. Min2(MaxData, Len(Content[o])) : Send(o, "INIT", n)
    BY <1>3 DEF SendFirst
  <2>3. n \in 1 .. Len(Content[o]) /\ hostPos = 0 /\ reply = NONE
    BY <1>3, <2>1, <2>2 DEF Min2, SendFirst, TypeInv, Quiet
  <2>4. /\ cmd' = [p1 |-> "INIT", data |-> Chunk(o, 1, n)]
        /\ hostOp' = o /\ hostPos' = n /\ hostSent' = "INIT"
        /\ UNCHANGED <<state, operation, reply>>
    BY <2>2, <2>3 DEF Send
  <2>5. cmd' # NONE
    BY <1>0, <2>3, <2>4, ChunkProperties DEF Command, ChunkType
  <2>6. Chunk(o, 1, n) \in Seq(Byte)
    BY <2>1, <2>3, ChunkProperties
  <2>7. InFlightOK'
    BY <2>1, <2>4, <2>6, ConcatEmptySeq DEF InFlightOK, Base
  <2>8. HostOK'
    BY <2>1, <2>3, <2>4 DEF HostOK, ChunkType
  <2>. QED
    BY <1>0, <2>3, <2>4, <2>5, <2>7, <2>8 DEF AcceptedOK, RefusedOnlyForSize, ReadyIsOneOperation
<1>4. CASE SendNext
  <2>1. hostOp \in Operations /\ Len(Content[hostOp]) \in Nat /\ hostPos \in Nat
    BY <1>4, LenProperties DEF SendNext, SessionTypeOK
  <2>2. PICK n \in 0 .. Min2(MaxData, Len(Content[hostOp]) - hostPos), p1 \in {"CONTINUE", "LAST"} :
          /\ Send(hostOp, p1, n)
          /\ p1 = "LAST" => n = Len(Content[hostOp]) - hostPos
    BY <1>4 DEF SendNext
  <2>3. n \in Nat /\ hostPos + n <= Len(Content[hostOp]) /\ hostPos >= 1
    BY <1>4, <2>1, <2>2 DEF Min2, SendNext, TypeInv, HostInside, HostOK
  <2>4. /\ cmd' = [p1 |-> p1, data |-> Chunk(hostOp, hostPos + 1, hostPos + n)]
        /\ hostOp' = hostOp /\ hostPos' = hostPos + n /\ hostSent' = p1
        /\ UNCHANGED <<state, operation, reply>>
    BY <2>2 DEF Send
  <2>5. Chunk(hostOp, hostPos + 1, hostPos + n) \in Seq(Byte)
    BY <2>1, <2>3, ChunkProperties
  <2>6. cmd' # NONE /\ reply = NONE
    BY <1>4, <2>4, <2>5 DEF Command, ChunkType, SendNext, Quiet
  <2>7. state = "RECEIVING" /\ operation = Chunk(hostOp, 1, hostPos)
    BY <1>4 DEF SendNext, AcceptedOK, HostOK, Quiet
  <2>8. InFlightOK'
    <3>1. hostOp' # NONE /\ state' = "RECEIVING"
      BY <1>4, <2>4, <2>7 DEF SendNext
    <3>2. cmd'.p1 = hostSent' /\ cmd'.p1 # "INIT"
      BY <2>4
    <3>3. Base(cmd)' = Chunk(hostOp, 1, hostPos)
      BY <2>4, <2>7 DEF Base
    <3>4. Chunk(hostOp, 1, hostPos) \o Chunk(hostOp, hostPos + 1, hostPos + n)
             = Chunk(hostOp, 1, hostPos + n)
      BY <2>1, <2>3, ChunkConcat
    <3>5. (Base(cmd) \o cmd.data)' = Chunk(hostOp, 1, hostPos)'
      BY <2>4, <3>3, <3>4 DEF Chunk
    <3>. QED
      BY <3>1, <3>2, <3>5 DEF InFlightOK
  <2>9. HostOK'
    BY <1>4, <2>1, <2>2, <2>3, <2>4, <2>6 DEF HostOK, ChunkType, SendNext, Quiet
  <2>. QED
    BY <1>0, <2>4, <2>6, <2>7, <2>8, <2>9 DEF AcceptedOK, RefusedOnlyForSize, ReadyIsOneOperation
<1>5. ASSUME NEW o \in Operations, SendStray(o)
      PROVE  IInv'
  <2>1. PICK p1 \in {"OTHER", "CONTINUE"} : cmd' = [p1 |-> p1, data |-> Chunk(o, 1, 1)]
    BY <1>5 DEF SendStray
  <2>. QED
    BY <1>0, <1>5, <2>1 DEF SendStray, Quiet, hostVars, HostOK, InFlightOK, AcceptedOK,
         RefusedOnlyForSize, ReadyIsOneOperation, ChunkType
<1>6. CASE HostReceive
  BY <1>0, <1>6 DEF HostReceive, HostIdle, hostVars, HostOK, InFlightOK, AcceptedOK,
       RefusedOnlyForSize, ReadyIsOneOperation, Quiet, Base, ChunkType
<1>7. CASE LoseCommand
  BY <1>0, <1>7 DEF LoseCommand, HostIdle, HostOK, InFlightOK, AcceptedOK,
       RefusedOnlyForSize, ReadyIsOneOperation, ChunkType
<1>8. CASE LoseReply
  BY <1>0, <1>8 DEF LoseReply, HostIdle, HostOK, InFlightOK, AcceptedOK,
       RefusedOnlyForSize, ReadyIsOneOperation, ChunkType
<1>9. CASE HostGivesUp
  BY <1>0, <1>9 DEF HostGivesUp, HostIdle, HostOK, InFlightOK, AcceptedOK,
       RefusedOnlyForSize, ReadyIsOneOperation, ChunkType, Quiet
<1>10. CASE UNCHANGED assemblyVars
  BY <1>0, <1>10 DEF assemblyVars, HostOK, InFlightOK, AcceptedOK, RefusedOnlyForSize,
       ReadyIsOneOperation, Quiet, Base
<1>. QED
  BY <1>1, <1>2, <1>3, <1>4, <1>5, <1>6, <1>7, <1>8, <1>9, <1>10 DEF SessionNext

\* The invariant of the session holds in every state.
LEMMA Inductive == ~SingleLast /\ SessionSpec => []IInv
<1>1. SessionInit => TypeInv
  BY SessionAssumption, EmptySeq DEF SessionInit, TypeInv, SessionTypeOK, HostInside, States
<1>2. SessionInit => IInv
  BY <1>1, SessionAssumption DEF SessionInit, IInv, TypeInv, HostOK, InFlightOK, AcceptedOK,
       RefusedOnlyForSize, ReadyIsOneOperation, ChunkType
<1>3. TypeInv /\ [SessionNext]_assemblyVars => TypeInv'
  BY TypeInvStep
<1>4. ~SingleLast /\ TypeInv /\ TypeInv' /\ IInv /\ [SessionNext]_assemblyVars => IInv'
  BY IInvStep
<1>5. CASE ~SingleLast
  <2>1. TypeInv /\ TypeInv' /\ IInv /\ [SessionNext]_assemblyVars => IInv'
    BY <1>4, <1>5
  <2>. QED
    BY <1>1, <1>2, <1>3, <2>1, PTL DEF SessionSpec
<1>6. CASE SingleLast
  BY <1>6
<1>. QED
  BY <1>5, <1>6

\* With a host that opens every operation with INIT, what the signer is given
\* to display and sign is always one whole operation of the host's, whatever
\* was abandoned, lost or overflowed before.
THEOREM Integrity == ~SingleLast /\ SessionSpec => []ReadyIsOneOperation
BY Inductive, PTL DEF IInv

\* And the host is never refused because of what came before its operation.
THEOREM Refusal == ~SingleLast /\ SessionSpec => []RefusedOnlyForSize
BY Inductive, PTL DEF IInv

\* Between two chunks the session holds exactly the bytes it acknowledged.
THEOREM Acknowledgement == ~SingleLast /\ SessionSpec => []AcknowledgedIsAssembled
<1>1. IInv => AcknowledgedIsAssembled
  BY DEF IInv, AcceptedOK, HostOK, AcknowledgedIsAssembled, Quiet
<1>. QED
  BY <1>1, Inductive, PTL

-----------------------------------------------------------------------------
(* The random number generator.                                             *)

\* Outside the recovery, spoilt words are there only while SEIS says so, and
\* between the look at SEIS and the word only an error that came late; within
\* it, the words left are at most those still to be thrown away.
RngInv ==
    /\ at \in {"seis", "drdy", "decide", "clear", "confirm", "word", "halt"}
    /\ stage \in {"first", "flush", "last"}
    /\ flushed \in Nat /\ tainted \in Nat
    /\ stage = "first" => flushed = 0
    /\ tainted <= Pipeline
    /\ at \in {"decide", "clear"} => stage = "first"
    /\ at = "confirm" => stage = "flush"
    /\ stage \in {"first", "last"} /\ at \in {"seis", "drdy"} /\ tainted > 0 => seis
    /\ stage = "flush" /\ at \in {"seis", "drdy"} /\ tainted > 0 =>
          seis \/ tainted + flushed <= Pipeline
    /\ at = "confirm" /\ tainted > 0 => seis
    /\ at = "drdy" /\ seis => late
    /\ WordIsVerified

\* A word thrown away is one spoilt word less: none is left once as many were
\* thrown away as the pipeline holds.
LEMMA OneLess ==
    ASSUME NEW held \in Nat, NEW left \in Nat, NEW gone \in Nat, NEW depth \in Nat, NEW all \in Nat,
           left > 0 => left + 1 = held
    PROVE  /\ left > 0 /\ held + gone <= depth => left + (gone + 1) <= depth
           /\ left > 0 /\ depth <= all => ~(left + all <= depth)
OBVIOUS

\* A step of the code or of the generator.
LEMMA RngStep == RngInv /\ [RngNext]_rngVars => RngInv'
<1> SUFFICES ASSUME RngInv, [RngNext]_rngVars PROVE RngInv'
  OBVIOUS
<1> USE RngAssumption DEF RngInv, WordIsVerified
<1>1. CASE LookAtSeis
  BY <1>1 DEF LookAtSeis, ReadFails, device
<1>2. CASE LookAtDrdy
  <2>1. CASE drdy /\ ReadSucceeds
    <3>1. at = "drdy" /\ seis' = seis /\ late' = late
      BY <1>2, <2>1 DEF LookAtDrdy, ReadSucceeds
    <3>2. tainted' \in Nat /\ tainted' <= Pipeline /\ (tainted' > 0 => tainted > 0 /\ tainted' + 1 = tainted)
      BY <2>1 DEF ReadSucceeds
    <3>3. CASE stage = "flush"
      <4>1. flushed' = flushed + 1 /\ flushed' \in Nat
        BY <2>1, <3>3 DEF ReadSucceeds
      <4>2. tainted' > 0 => seis \/ tainted' + flushed' <= Pipeline
        <5>1. tainted' > 0 => seis \/ tainted + flushed <= Pipeline
          BY <3>1, <3>2, <3>3
        <5>2. tainted \in Nat /\ flushed \in Nat /\ Pipeline \in Nat
          OBVIOUS
        <5>3. tainted' > 0 /\ tainted + flushed <= Pipeline => tainted' + (flushed + 1) <= Pipeline
          BY ONLY <3>2, <5>2, OneLess
        <5> QED BY <4>1, <5>1, <5>3
      <4>3. CASE flushed + 1 = FlushWords
        <5>1. tainted \in Nat /\ flushed \in Nat /\ Pipeline \in Nat /\ FlushWords \in Nat /\ Pipeline <= FlushWords
          OBVIOUS
        <5>2. tainted' > 0 => ~(tainted' + FlushWords <= Pipeline)
          BY ONLY <3>2, <5>1, OneLess
        <5>3. tainted' > 0 => seis
          BY <4>1, <4>2, <4>3, <5>2
        <5>4. at' = "confirm" /\ stage' = "flush"
          BY <2>1, <3>3, <4>1, <4>3 DEF ReadSucceeds
        <5> QED BY <3>1, <3>2, <4>1, <5>3, <5>4
      <4>4. CASE flushed + 1 # FlushWords
        <5>1. at' = "seis" /\ stage' = "flush"
          BY <2>1, <3>3, <4>1, <4>4 DEF ReadSucceeds, Begin
        <5> QED BY <3>1, <3>2, <4>1, <4>2, <5>1
      <4> QED BY <4>3, <4>4
    <3>4. CASE stage # "flush"
      <4>1. at' = "word" /\ spoilt' = (tainted > 0) /\ stage' = stage /\ flushed' = flushed
        BY <2>1, <3>4 DEF ReadSucceeds
      <4>2. tainted > 0 => late
        BY <3>1, <3>4
      <4>3. spoilt' => late
        BY <4>1, <4>2
      <4> QED BY <3>1, <3>2, <4>1, <4>3
    <3> QED BY <3>3, <3>4
  <2>2. CASE ~drdy /\ at' = "seis" /\ UNCHANGED <<stage, flushed, device, late, spoilt>>
    BY <1>2, <2>2 DEF LookAtDrdy, device
  <2>3. CASE ~drdy /\ ReadFails /\ UNCHANGED <<device, late>>
    BY <1>2, <2>3 DEF LookAtDrdy, ReadFails, device
  <2> QED BY <1>2, <2>1, <2>2, <2>3 DEF LookAtDrdy
<1>3. CASE Decide
  BY <1>3 DEF Decide, device
<1>4. CASE Clear
  BY <1>4 DEF Clear, Begin
<1>5. CASE Confirm
  BY <1>5 DEF Confirm, Begin, device
<1>6. CASE Delivers
  BY <1>6 DEF Delivers
<1>7. CASE SeedError
  BY <1>7 DEF SeedError
<1>8. CASE UNCHANGED rngVars
  BY <1>8 DEF rngVars
<1> QED BY <1>1, <1>2, <1>3, <1>4, <1>5, <1>6, <1>7, <1>8 DEF RngNext, RngCode

\* Whatever the length of the pipeline and whenever seed errors come, a word
\* that is returned was not spoilt by an error the code could have seen
\* (tezos_signer_rng_core.c).
THEOREM WordsAreVerified == RngSpec => []WordIsVerified
<1>1. RngInit => RngInv
  BY RngAssumption DEF RngInit, RngInv, WordIsVerified
<1>2. RngInv => WordIsVerified
  BY DEF RngInv
<1> QED BY <1>1, <1>2, RngStep, PTL DEF RngSpec

-----------------------------------------------------------------------------
(* The main loop.                                                           *)

Byte8 == 0 .. 255
Sent == [header : Headers, body : Bodies]

\* The bytes that are still to be dispatched.
Pending == raw \o line

LoopTypeOK ==
    /\ line \in Seq(Byte8) /\ raw \in Seq(Byte8) /\ Len(raw) <= 4
    /\ sent \in Seq(Sent) /\ headers \in Seq(Seq(Byte8))

\* As long as nothing disturbs the line, the pending bytes are the headers
\* that were sent and not dispatched yet, one after the other.
InStep ==
    Undisturbed =>
        /\ Len(headers) <= Len(sent)
        /\ \A i \in 1 .. Len(headers) : headers[i] = sent[i].header
        /\ Len(Pending) = 4 * (Len(sent) - Len(headers))
        /\ \A n \in 1 .. Len(sent) - Len(headers), b \in 1 .. 4 :
              Pending[4 * (n - 1) + b] = sent[Len(headers) + n].header[b]

\* The loop's commands have no data: nothing gets into an operation.
NothingAssembled == operation = <<>> /\ state \in {"IDLE", "RECEIVING"}

LoopInv == LoopTypeOK /\ InStep /\ NothingAssembled

\* A byte more of the header is a byte less on the line.
LEMMA ByteMoves ==
    ASSUME NEW S, NEW a \in Seq(S), NEW b \in Seq(S), b # <<>>
    PROVE  /\ Append(a, Head(b)) \in Seq(S) /\ Tail(b) \in Seq(S)
           /\ Len(Append(a, Head(b))) = Len(a) + 1
           /\ Append(a, Head(b)) \o Tail(b) = a \o b
<1>1. Len(b) \in Nat \ {0} /\ Len(a) \in Nat
  BY EmptySeq, LenProperties
<1>2. /\ Append(a, Head(b)) \in Seq(S) /\ Len(Append(a, Head(b))) = Len(a) + 1
      /\ \A i \in 1 .. Len(a) : Append(a, Head(b))[i] = a[i]
      /\ Append(a, Head(b))[Len(a) + 1] = b[1]
  BY <1>1, AppendProperties, HeadTailProperties
<1>3. /\ Tail(b) \in Seq(S) /\ Len(Tail(b)) = Len(b) - 1
      /\ \A i \in 1 .. Len(Tail(b)) : Tail(b)[i] = b[i + 1]
  BY <1>1, HeadTailProperties
<1> DEFINE x == Append(a, Head(b))
           y == Tail(b)
<1> HIDE DEF x, y
<1>4. /\ x \in Seq(S) /\ y \in Seq(S) /\ Len(x) = Len(a) + 1 /\ Len(y) = Len(b) - 1
      /\ \A i \in 1 .. Len(a) : x[i] = a[i]
      /\ x[Len(a) + 1] = b[1]
      /\ \A i \in 1 .. Len(y) : y[i] = b[i + 1]
  BY <1>2, <1>3 DEF x, y
<1>5. /\ x \o y \in Seq(S) /\ Len(x \o y) = Len(x) + Len(y)
      /\ \A i \in 1 .. Len(x) + Len(y) : (x \o y)[i] = IF i <= Len(x) THEN x[i] ELSE y[i - Len(x)]
  BY <1>4, ConcatProperties
<1>6. /\ a \o b \in Seq(S) /\ Len(a \o b) = Len(a) + Len(b)
      /\ \A i \in 1 .. Len(a) + Len(b) : (a \o b)[i] = IF i <= Len(a) THEN a[i] ELSE b[i - Len(a)]
  BY ConcatProperties
<1>7. ASSUME NEW i \in 1 .. Len(a) + Len(b) PROVE (x \o y)[i] = (a \o b)[i]
  <2>1. CASE i <= Len(a)
    BY <1>1, <1>4, <1>5, <1>6, <2>1
  <2>2. CASE i = Len(a) + 1
    <3>1. (x \o y)[i] = b[1]
      BY <1>1, <1>4, <1>5, <2>2
    <3> QED BY <1>1, <1>6, <2>2, <3>1
  <2>3. CASE i > Len(a) + 1
    <3>1. /\ i - Len(x) \in 1 .. Len(y) /\ i \in 1 .. Len(x) + Len(y) /\ ~(i <= Len(x))
          /\ (i - Len(x)) + 1 = i - Len(a)
      BY ONLY <1>1, <1>4, <2>3, i \in 1 .. Len(a) + Len(b)
    <3>2. (x \o y)[i] = y[i - Len(x)]
      BY ONLY <1>5, <3>1
    <3>3. y[i - Len(x)] = b[(i - Len(x)) + 1]
      BY ONLY <1>4, <3>1
    <3>4. (a \o b)[i] = b[i - Len(a)]
      BY <1>1, <1>6, <2>3
    <3>5. b[(i - Len(x)) + 1] = b[i - Len(a)]
      <4>1. (i - Len(x)) + 1 = i - Len(a)
        BY ONLY <3>1
      <4> QED BY ONLY <4>1, Zenon
    <3> QED BY ONLY <3>2, <3>3, <3>4, <3>5
  <2>4. i <= Len(a) \/ i = Len(a) + 1 \/ i > Len(a) + 1
    BY ONLY <1>1, i \in 1 .. Len(a) + Len(b)
  <2> QED BY <2>1, <2>2, <2>3, <2>4
<1>8. x \o y = a \o b
  <2>1. Len(x \o y) = Len(a \o b) /\ Len(x \o y) = Len(a) + Len(b)
    BY <1>1, <1>4, <1>5, <1>6
  <2> QED BY <1>5, <1>6, <1>7, <2>1, SeqEqual
<1> QED BY <1>2, <1>3, <1>8 DEF x, y

\* A command that the host sends is taken as it is while the line is
\* undisturbed.
LEMMA HostSendsStep == LoopInv /\ HostSends /\ UNCHANGED <<cmd, hostVars>> => LoopInv'
<1> SUFFICES ASSUME LoopInv, HostSends PROVE LoopInv'
  OBVIOUS
<1>1. PICK h \in Headers, body \in Bodies :
          /\ line' = line \o h \o body
          /\ sent' = Append(sent, [header |-> h, body |-> body])
  BY DEF HostSends
<1>2. raw' = raw /\ headers' = headers /\ lost' = lost /\ state' = state /\ operation' = operation
  BY DEF HostSends
<1>3. /\ line \in Seq(Byte8) /\ raw \in Seq(Byte8) /\ sent \in Seq(Sent) /\ h \in Seq(Byte8) /\ Len(h) = 4
      /\ body \in Seq(Byte8)
  BY LineAssumption DEF LoopInv, LoopTypeOK, Byte8
<1> DEFINE command == [header |-> h, body |-> body]
<1>4. command \in Sent
  BY DEF Sent
<1>5. line \o h \in Seq(Byte8) /\ line' \in Seq(Byte8)
  BY <1>1, <1>3, ConcatProperties
<1>6. /\ sent' \in Seq(Sent) /\ Len(sent') = Len(sent) + 1 /\ Len(sent) \in Nat
      /\ \A i \in 1 .. Len(sent) : sent'[i] = sent[i]
      /\ sent'[Len(sent) + 1] = command
  <2> HIDE DEF command
  <2> QED BY <1>1, <1>3, <1>4, AppendProperties, LenProperties DEF command
<1>7. LoopTypeOK'
  BY <1>2, <1>3, <1>5, <1>6 DEF LoopInv, LoopTypeOK
<1>8. InStep'
  <2> SUFFICES ASSUME Undisturbed'
               PROVE  /\ Len(headers') <= Len(sent')
                      /\ \A i \in 1 .. Len(headers') : headers'[i] = sent'[i].header
                      /\ Len(Pending') = 4 * (Len(sent') - Len(headers'))
                      /\ \A n \in 1 .. Len(sent') - Len(headers'), b \in 1 .. 4 :
                            Pending'[4 * (n - 1) + b] = sent'[Len(headers') + n].header[b]
    BY DEF InStep
  <2>1. Undisturbed /\ body = <<>>
    <3>1. ~lost /\ \A i \in 1 .. Len(sent) + 1 : sent'[i].body = <<>>
      BY <1>2, <1>6 DEF Undisturbed
    <3>2. sent'[Len(sent) + 1].body = body
      BY <1>6
    <3>3. Len(sent) + 1 \in 1 .. Len(sent) + 1
      BY <1>6
    <3>4. \A i \in 1 .. Len(sent) : sent[i].body = <<>>
      BY <1>6, <3>1
    <3>5. DOMAIN sent = 1 .. Len(sent)
      BY <1>3
    <3> QED BY <3>1, <3>2, <3>3, <3>4, <3>5 DEF Undisturbed
  <2>2. /\ Len(headers) <= Len(sent)
        /\ \A i \in 1 .. Len(headers) : headers[i] = sent[i].header
        /\ Len(Pending) = 4 * (Len(sent) - Len(headers))
        /\ \A n \in 1 .. Len(sent) - Len(headers), b \in 1 .. 4 :
              Pending[4 * (n - 1) + b] = sent[Len(headers) + n].header[b]
        /\ Len(headers) \in Nat /\ Pending \in Seq(Byte8) /\ Len(Pending) \in Nat
    <3>1. InStep /\ headers \in Seq(Seq(Byte8))
      BY DEF LoopInv, LoopTypeOK
    <3>2. /\ Len(headers) <= Len(sent)
          /\ \A i \in 1 .. Len(headers) : headers[i] = sent[i].header
          /\ Len(Pending) = 4 * (Len(sent) - Len(headers))
          /\ \A n \in 1 .. Len(sent) - Len(headers), b \in 1 .. 4 :
                Pending[4 * (n - 1) + b] = sent[Len(headers) + n].header[b]
      BY ONLY <2>1, <3>1, Zenon DEF InStep
    <3>3. Pending \in Seq(Byte8)
      BY ONLY <1>3, ConcatProperties DEF Pending
    <3>4. Len(headers) \in Nat /\ Len(Pending) \in Nat
      BY ONLY <3>1, <3>3, LenProperties
    <3> QED BY ONLY <3>2, <3>3, <3>4, Zenon
  <2>3. Pending' = Pending \o h
    <3>1. line' = line \o h
      BY <1>1, <1>5, <2>1, ConcatEmptySeq
    <3>2. (raw \o line) \o h = raw \o (line \o h)
      BY ONLY <1>3, ConcatAssociative, SMTT(30)
    <3> QED BY ONLY <1>2, <3>1, <3>2 DEF Pending
  <2>4. /\ Len(Pending') = Len(Pending) + 4
        /\ \A i \in 1 .. Len(Pending) + 4 :
              Pending'[i] = IF i <= Len(Pending) THEN Pending[i] ELSE h[i - Len(Pending)]
    <3>1. /\ Len(Pending \o h) = Len(Pending) + 4
          /\ \A i \in 1 .. Len(Pending) + 4 :
                (Pending \o h)[i] = IF i <= Len(Pending) THEN Pending[i] ELSE h[i - Len(Pending)]
      <4>1. Pending \in Seq(Byte8) /\ h \in Seq(Byte8) /\ Len(h) = 4
        BY <1>3, <2>2
      <4>2. /\ Len(Pending \o h) = Len(Pending) + Len(h)
            /\ \A i \in 1 .. Len(Pending) + Len(h) :
                  (Pending \o h)[i] = IF i <= Len(Pending) THEN Pending[i] ELSE h[i - Len(Pending)]
        BY ONLY <4>1, ConcatProperties
      <4> QED BY ONLY <4>1, <4>2
    <3> QED BY ONLY <2>3, <3>1
  <2> DEFINE left == Len(sent) - Len(headers)
  <2>5. left \in Nat /\ Len(sent') - Len(headers') = left + 1 /\ Len(Pending) = 4 * left
    BY <1>2, <1>6, <2>2
  <2>6. ASSUME NEW n \in 1 .. left + 1, NEW b \in 1 .. 4
        PROVE  Pending'[4 * (n - 1) + b] = sent'[Len(headers') + n].header[b]
    <3> HIDE DEF left
    <3>1. CASE n <= left
      <4>1. 4 * (n - 1) + b \in 1 .. Len(Pending) + 4 /\ 4 * (n - 1) + b <= Len(Pending)
        BY <2>5, <3>1
      <4>2. n \in 1 .. left /\ Len(headers) + n \in 1 .. Len(sent)
        BY <2>2, <2>5, <1>6, <3>1 DEF left
      <4>3. Pending[4 * (n - 1) + b] = sent[Len(headers) + n].header[b]
        BY <2>2, <4>2 DEF left
      <4> QED BY <1>2, <1>6, <2>4, <4>1, <4>2, <4>3
    <3>2. CASE n = left + 1
      <4>1. /\ 4 * (n - 1) + b \in 1 .. Len(Pending) + 4 /\ ~(4 * (n - 1) + b <= Len(Pending))
            /\ (4 * (n - 1) + b) - Len(Pending) = b
        BY <2>5, <3>2
      <4>2. Pending'[4 * (n - 1) + b] = h[b]
        BY <2>4, <4>1
      <4>3. Len(headers) + n = Len(sent) + 1
        BY <2>2, <1>6, <3>2 DEF left
      <4>4. sent'[Len(headers') + n].header = h
        BY <1>2, <1>6, <4>3, SMTT(30)
      <4> QED BY <4>2, <4>4
    <3> QED BY <2>5, <3>1, <3>2
  <2>7. \A i \in 1 .. Len(headers') : headers'[i] = sent'[i].header
    <3>1. \A i \in 1 .. Len(headers) : i \in 1 .. Len(sent)
      BY ONLY <1>6, <2>2
    <3>2. \A i \in 1 .. Len(headers) : headers[i] = sent'[i].header
      BY ONLY <1>6, <2>2, <3>1
    <3> QED BY ONLY <1>2, <3>2
  <2>8. Len(headers') <= Len(sent') /\ Len(Pending') = 4 * (Len(sent') - Len(headers'))
    BY <1>2, <1>6, <2>2, <2>4, <2>5
  <2> QED BY <2>5, <2>6, <2>7, <2>8
<1> QED BY <1>2, <1>7, <1>8 DEF LoopInv, NothingAssembled

\* Reading a byte leaves the pending bytes what they are.
LEMMA ReadByteStep == LoopInv /\ ReadByte => LoopInv'
<1> SUFFICES ASSUME LoopInv, ReadByte PROVE LoopInv'
  OBVIOUS
<1>1. /\ line # <<>> /\ Len(raw) < 4 /\ raw' = Append(raw, Head(line)) /\ line' = Tail(line)
      /\ sent' = sent /\ headers' = headers /\ lost' = lost /\ state' = state /\ operation' = operation
      /\ line \in Seq(Byte8) /\ raw \in Seq(Byte8) /\ Len(raw) \in Nat
  BY LenProperties DEF ReadByte, LoopInv, LoopTypeOK
<1>2. /\ raw' \in Seq(Byte8) /\ line' \in Seq(Byte8) /\ Len(raw') = Len(raw) + 1
      /\ raw' \o line' = raw \o line
  BY <1>1, ByteMoves, SMTT(30)
<1>3. Pending' = Pending /\ (Undisturbed' <=> Undisturbed)
  BY <1>1, <1>2 DEF Pending, Undisturbed
<1>4. InStep'
  BY <1>1, <1>3 DEF LoopInv, InStep
<1>5. LoopTypeOK'
  BY <1>1, <1>2 DEF LoopInv, LoopTypeOK
<1> QED BY <1>1, <1>4, <1>5 DEF LoopInv, NothingAssembled

\* With a lost byte nothing is promised but that nothing is assembled.
LEMMA LoseByteStep == LoopInv /\ LoseByte => LoopInv'
  BY HeadTailProperties DEF LoopInv, LoopTypeOK, InStep, Undisturbed, NothingAssembled, LoseByte

\* A command of four bytes has no data, and leaves nothing in the session.
LEMMA ServeSession ==
    ASSUME NothingAssembled, Serve
    PROVE  NothingAssembled'
<1> DEFINE command == ParseCommand(raw)
           chunk == [p1 |-> ChunkOf(raw[3]), data |-> <<>>]
<1>1. command = [header |-> Header(raw), data |-> <<>>, le |-> 0]
  BY DEF Serve, ParseCommand
<1>2. command.header.p1 = raw[3] /\ command.data = <<>>
  BY <1>1 DEF Header
<1>3. UNCHANGED sessionVars \/ SignChunk(chunk)
  <2> HIDE DEF command
  <2> QED BY <1>2 DEF Serve, Dispatch, command
<1>4. chunk.data = <<>> /\ Base(chunk) = <<>>
  BY DEF Base, NothingAssembled
<1> HIDE DEF chunk
<1>5. CASE SignChunk(chunk)
  <2>1. CASE RejectChunk(chunk)
    BY <2>1 DEF RejectChunk, NothingAssembled, sessionVars
  <2>2. CASE OverflowChunk(chunk)
    BY <2>2 DEF OverflowChunk, NothingAssembled
  <2>3. CASE chunk.p1 # "LAST" /\ AcceptChunk(chunk)
    <3>1. <<>> \o <<>> = <<>>
      BY ConcatEmptySeq, EmptySeq
    <3> QED BY <1>4, <2>3, <3>1 DEF AcceptChunk, NothingAssembled
  <2>4. CASE state' = "IDLE" /\ operation' = <<>>
    BY <2>4 DEF NothingAssembled
  <2> QED BY <1>5, <2>1, <2>2, <2>3, <2>4 DEF SignChunk
<1>6. CASE UNCHANGED sessionVars
  BY <1>6 DEF sessionVars, NothingAssembled
<1> QED BY <1>3, <1>5, <1>6

\* The four bytes that are dispatched are the next header that was sent.
LEMMA ServeStep == LoopInv /\ Serve => LoopInv'
<1> SUFFICES ASSUME LoopInv, Serve PROVE LoopInv'
  OBVIOUS
<1>1. /\ Len(raw) = 4 /\ headers' = Append(headers, raw) /\ raw' = <<>>
      /\ line' = line /\ sent' = sent /\ lost' = lost
      /\ line \in Seq(Byte8) /\ raw \in Seq(Byte8) /\ headers \in Seq(Seq(Byte8)) /\ sent \in Seq(Sent)
      /\ Len(headers) \in Nat /\ Len(sent) \in Nat /\ Len(line) \in Nat
  BY LenProperties DEF Serve, LoopInv, LoopTypeOK
<1>2. /\ headers' \in Seq(Seq(Byte8)) /\ Len(headers') = Len(headers) + 1
      /\ \A i \in 1 .. Len(headers) : headers'[i] = headers[i]
      /\ headers'[Len(headers) + 1] = raw
  BY <1>1, AppendProperties
<1>3. Pending' = line
  <2>1. <<>> \o line = line
    BY <1>1, ConcatEmptySeq
  <2> QED BY ONLY <1>1, <2>1 DEF Pending
<1>4. NothingAssembled'
  BY ServeSession DEF LoopInv
<1>5. LoopTypeOK'
  BY <1>1, <1>2, EmptySeq DEF LoopInv, LoopTypeOK
<1>6. InStep'
  <2> SUFFICES ASSUME Undisturbed'
               PROVE  /\ Len(headers') <= Len(sent')
                      /\ \A i \in 1 .. Len(headers') : headers'[i] = sent'[i].header
                      /\ Len(Pending') = 4 * (Len(sent') - Len(headers'))
                      /\ \A n \in 1 .. Len(sent') - Len(headers'), b \in 1 .. 4 :
                            Pending'[4 * (n - 1) + b] = sent'[Len(headers') + n].header[b]
    BY DEF InStep
  <2> DEFINE k == Len(headers)
  <2>1. Undisturbed
    BY <1>1 DEF Undisturbed
  <2>2. /\ k <= Len(sent)
        /\ \A i \in 1 .. k : headers[i] = sent[i].header
        /\ Len(Pending) = 4 * (Len(sent) - k)
        /\ \A n \in 1 .. Len(sent) - k, b \in 1 .. 4 : Pending[4 * (n - 1) + b] = sent[k + n].header[b]
    BY <2>1 DEF LoopInv, InStep
  <2>3. /\ Len(Pending) = 4 + Len(line)
        /\ \A i \in 1 .. 4 + Len(line) : Pending[i] = IF i <= 4 THEN raw[i] ELSE line[i - 4]
    <3>1. /\ Len(raw \o line) = Len(raw) + Len(line)
          /\ \A i \in 1 .. Len(raw) + Len(line) :
                (raw \o line)[i] = IF i <= Len(raw) THEN raw[i] ELSE line[i - Len(raw)]
      BY <1>1, ConcatProperties
    <3> QED BY ONLY <1>1, <3>1 DEF Pending
  <2>4. k \in Nat /\ k + 1 <= Len(sent) /\ Len(line) = 4 * (Len(sent) - (k + 1))
    BY <1>1, <2>2, <2>3
  <2> HIDE DEF k
  <2>5. /\ k + 1 \in 1 .. Len(sent) /\ sent[k + 1].header \in Seq(Byte8)
        /\ Len(sent[k + 1].header) = 4
    <3>1. k + 1 \in 1 .. Len(sent)
      BY <1>1, <2>4
    <3>2. sent[k + 1] \in Sent
      BY <1>1, <3>1, ElementOfSeq
    <3>3. sent[k + 1].header \in Headers
      BY <3>2 DEF Sent
    <3> QED BY <3>1, <3>3, LineAssumption DEF Byte8
  <2>6. ASSUME NEW b \in 1 .. 4 PROVE raw[b] = sent[k + 1].header[b]
    <3>1. b \in 1 .. 4 + Len(line) /\ b <= 4 /\ 4 * (1 - 1) + b = b /\ 1 \in 1 .. Len(sent) - k
      BY <1>1, <2>4
    <3>2. Pending[b] = raw[b]
      BY ONLY <2>3, <3>1
    <3>3. Pending[4 * (1 - 1) + b] = sent[k + 1].header[b]
      BY ONLY <2>2, <3>1, b \in 1 .. 4
    <3> QED BY <3>1, <3>2, <3>3
  <2>7. raw = sent[k + 1].header
    BY <1>1, <2>5, <2>6, SeqEqual
  <2>8. ASSUME NEW i \in 1 .. Len(headers') PROVE headers'[i] = sent'[i].header
    <3>1. i \in 1 .. k \/ i = k + 1
      BY <1>2, <2>4 DEF k
    <3> QED BY <1>1, <1>2, <2>2, <2>7, <3>1 DEF k
  <2>9. ASSUME NEW n \in 1 .. Len(sent') - Len(headers'), NEW b \in 1 .. 4
        PROVE  Pending'[4 * (n - 1) + b] = sent'[Len(headers') + n].header[b]
    <3>0. Len(headers') = k + 1 /\ Len(sent') = Len(sent)
      BY <1>1, <1>2 DEF k
    <3>1. /\ n \in 1 .. Len(sent) - (k + 1) /\ n + 1 \in 1 .. Len(sent) - k
          /\ Len(headers') + n = k + (n + 1) /\ (4 * ((n + 1) - 1) + b) - 4 = 4 * (n - 1) + b
          /\ 4 * ((n + 1) - 1) + b \in 1 .. 4 + Len(line) /\ ~(4 * ((n + 1) - 1) + b <= 4)
      <4>1. n \in 1 .. Len(sent) - (k + 1)
        BY <3>0
      <4>2. k \in Nat /\ Len(sent) \in Nat /\ Len(line) \in Nat /\ Len(line) = 4 * (Len(sent) - (k + 1))
        BY <1>1, <2>4
      <4> DEFINE m == Len(sent) - (k + 1)
      <4>3. m \in Nat /\ n \in 1 .. m /\ Len(line) = 4 * m /\ Len(sent) - k = m + 1
        BY ONLY <4>1, <4>2
      <4> HIDE DEF m
      <4>4. /\ n + 1 \in 1 .. m + 1 /\ (4 * ((n + 1) - 1) + b) - 4 = 4 * (n - 1) + b
            /\ 4 * ((n + 1) - 1) + b \in 1 .. 4 + 4 * m /\ ~(4 * ((n + 1) - 1) + b <= 4)
        BY ONLY <4>3, b \in 1 .. 4
      <4>5. Len(headers') + n = k + (n + 1)
        BY ONLY <3>0, <4>2, <4>3
      <4> QED BY ONLY <4>1, <4>3, <4>4, <4>5
    <3>2. Pending[4 * ((n + 1) - 1) + b] = sent[k + (n + 1)].header[b]
      BY ONLY <2>2, <3>1, b \in 1 .. 4
    <3>3. Pending[4 * ((n + 1) - 1) + b] = line[(4 * ((n + 1) - 1) + b) - 4]
      BY ONLY <2>3, <3>1
    <3> QED BY ONLY <1>1, <1>3, <3>1, <3>2, <3>3
  <2>10. Len(headers') <= Len(sent') /\ Len(Pending') = 4 * (Len(sent') - Len(headers'))
    BY <1>1, <1>2, <1>3, <2>4 DEF k
  <2> QED BY <2>8, <2>9, <2>10
<1> QED BY <1>4, <1>5, <1>6 DEF LoopInv

\* Whatever the host sends and whatever is lost, the loop dispatches what was
\* sent as long as nothing disturbs the line, and never assembles anything
\* (main_loop, main.c).
THEOREM LoopStaysInStep == LoopSpec => []LoopInStep
<1>1. SessionInit /\ LoopInit => LoopInv
  <2> SUFFICES ASSUME SessionInit, LoopInit PROVE LoopInv
    OBVIOUS
  <2>1. <<>> \o <<>> = <<>> /\ Len(<<>>) = 0
    BY ConcatEmptySeq, EmptySeq
  <2>2. LoopTypeOK /\ NothingAssembled
    <3>1. \A S : <<>> \in Seq(S)
      BY EmptySeq
    <3>2. <<>> \in Seq(Byte8) /\ <<>> \in Seq(Sent) /\ <<>> \in Seq(Seq(Byte8))
      BY <3>1
    <3> QED BY <2>1, <3>2 DEF SessionInit, LoopInit, LoopTypeOK, NothingAssembled
  <2>3. Len(Pending) = 0 /\ Len(sent) = 0 /\ Len(headers) = 0
    BY <2>1 DEF LoopInit, Pending
  <2>4. InStep
    BY <2>3 DEF InStep
  <2> QED BY <2>2, <2>4 DEF LoopInv
<1>2. LoopInv /\ [LoopNext]_<<assemblyVars, loopVars>> => LoopInv'
  <2> SUFFICES ASSUME LoopInv, [LoopNext]_<<assemblyVars, loopVars>> PROVE LoopInv'
    OBVIOUS
  <2>1. CASE UNCHANGED <<assemblyVars, loopVars>>
    BY <2>1 DEF assemblyVars, loopVars, LoopInv, LoopTypeOK, InStep, Undisturbed, Pending, NothingAssembled
  <2> QED BY <2>1, HostSendsStep, ReadByteStep, LoseByteStep, ServeStep DEF LoopNext
<1>3. LoopInv => LoopInStep
  <2> SUFFICES ASSUME LoopInv PROVE LoopInStep
    OBVIOUS
  <2>1. DOMAIN headers = 1 .. Len(headers)
    BY DEF LoopInv, LoopTypeOK
  <2> QED BY <2>1 DEF LoopInv, InStep, NothingAssembled, LoopInStep
<1> QED BY <1>1, <1>2, <1>3, PTL DEF LoopSpec

-----------------------------------------------------------------------------
(* Commands on the serial line.                                            *)

Octet == 0 .. 255

\* The commands of the short form.
ShortCommand(c) ==
    /\ c = [header |-> c.header, data |-> c.data, le |-> c.le]
    /\ c.header = [cla |-> c.header.cla, ins |-> c.header.ins, p1 |-> c.header.p1, p2 |-> c.header.p2]
    /\ {c.header.cla, c.header.ins, c.header.p1, c.header.p2} \subseteq Octet
    /\ c.data \in Seq(Octet) /\ Len(c.data) <= 255 /\ c.le \in 0 .. 256

\* A command on the line, byte by byte.
OnLine(bytes, c) ==
    /\ bytes \in Seq(Octet)
    /\ Len(bytes) = 4 + (IF c.data = <<>> THEN 0 ELSE 1 + Len(c.data)) + (IF c.le = 0 THEN 0 ELSE 1)
    /\ Header(bytes) = c.header
    /\ c.data # <<>> => bytes[5] = Len(c.data) /\ SubSeq(bytes, 6, 5 + Len(c.data)) = c.data
    /\ c.le # 0 => bytes[Len(bytes)] = c.le % 256

\* Two sequences of bytes, one after the other.
Joined(w, a, b) ==
    /\ w \in Seq(Octet) /\ Len(w) = Len(a) + Len(b)
    /\ \A i \in 1 .. Len(a) : w[i] = a[i]
    /\ \A i \in 1 .. Len(b) : w[Len(a) + i] = b[i]

\* They are joined by \o.
LEMMA OneAfterOther ==
    ASSUME NEW a \in Seq(Octet), NEW b \in Seq(Octet), NEW w, w = a \o b
    PROVE  Joined(w, a, b)
<1> DEFINE n == Len(a)
           k == Len(b)
<1>1. n \in Nat /\ k \in Nat
  OBVIOUS
<1>2. /\ w \in Seq(Octet) /\ Len(w) = n + k
      /\ \A i \in 1 .. n + k : w[i] = IF i <= n THEN a[i] ELSE b[i - n]
  BY ConcatProperties
<1> HIDE DEF n, k
<1>3. ASSUME NEW i \in 1 .. n PROVE w[i] = a[i]
  <2>1. i \in 1 .. n + k /\ i <= n
    BY <1>1
  <2> QED BY <1>2, <2>1, Zenon
<1>4. ASSUME NEW i \in 1 .. k PROVE w[n + i] = b[i]
  <2> DEFINE j == n + i
  <2>1. j \in 1 .. n + k /\ ~(j <= n) /\ j - n = i
    BY <1>1
  <2> HIDE DEF j
  <2>2. w[j] = b[j - n]
    BY <1>2, <2>1, Zenon
  <2> QED BY <2>1, <2>2, Zenon DEF j
<1> QED BY <1>2, <1>3, <1>4 DEF n, k, Joined

\* A command is encoded byte by byte.
LEMMA EncodedOnLine ==
    ASSUME NEW c, ShortCommand(c)
    PROVE  OnLine(EncodeCommand(c), c)
<1> DEFINE d == c.data
           n == Len(d)
           h == <<c.header.cla, c.header.ins, c.header.p1, c.header.p2>>
           l == <<n>>
           b == IF d = <<>> THEN <<>> ELSE l \o d
           t == IF c.le = 0 THEN <<>> ELSE <<c.le % 256>>
           hb == h \o b
           bytes == hb \o t
<1>1. EncodeCommand(c) = bytes
  BY DEF EncodeCommand
<1>2. d \in Seq(Octet) /\ n \in Octet /\ n \in Nat /\ c.le \in 0 .. 256 /\ (d # <<>> => n > 0)
  <2>1. d \in Seq(Octet) /\ Len(d) <= 255 /\ c.le \in 0 .. 256
    BY DEF ShortCommand
  <2> HIDE DEF d
  <2>2. Len(d) \in Nat /\ (d # <<>> => Len(d) > 0)
    BY <2>1
  <2>3. n \in Nat /\ n <= 255
    BY <2>1, <2>2
  <2> HIDE DEF n
  <2>4. n \in Octet
    BY <2>3 DEF Octet
  <2> QED BY <2>1, <2>2, <2>3, <2>4 DEF n
<1>3. h \in Seq(Octet) /\ Len(h) = 4 /\ h[1] = c.header.cla /\ h[2] = c.header.ins
      /\ h[3] = c.header.p1 /\ h[4] = c.header.p2
  BY DEF ShortCommand
<1>4. t \in Seq(Octet) /\ (c.le = 0 => Len(t) = 0) /\ (c.le # 0 => Len(t) = 1 /\ t[1] = c.le % 256)
  <2>1. c.le % 256 \in Octet
    <3> DEFINE x == c.le
    <3>1. x \in 0 .. 256
      BY <1>2
    <3> HIDE DEF x
    <3>2. x % 256 \in 0 .. 255
      BY <3>1
    <3> QED BY <3>2 DEF Octet, x
  <2> QED BY <2>1
<1>5. /\ b \in Seq(Octet) /\ (d = <<>> => Len(b) = 0)
      /\ d # <<>> => Len(b) = 1 + n /\ b[1] = n /\ \A i \in 1 .. n : b[1 + i] = d[i]
  <2> DEFINE w == l \o d
  <2>1. l \in Seq(Octet) /\ Len(l) = 1 /\ l[1] = n
    BY <1>2
  <2> HIDE DEF l, n
  <2>2. w \in Seq(Octet) /\ Len(w) = Len(l) + Len(d) /\ (\A i \in 1 .. Len(l) : w[i] = l[i])
        /\ \A i \in 1 .. Len(d) : w[Len(l) + i] = d[i]
    <3>1. Joined(w, l, d)
      BY <1>2, <2>1, OneAfterOther
    <3> QED BY <3>1 DEF Joined
  <2> HIDE DEF w, d
  <2>3. w \in Seq(Octet) /\ Len(w) = 1 + n /\ w[1] = n /\ \A i \in 1 .. n : w[1 + i] = d[i]
    <3>1. 1 \in 1 .. Len(l)
      BY <2>1
    <3> QED BY <2>1, <2>2, <3>1 DEF n
  <2>4. d = <<>> => b = <<>>
    BY DEF b
  <2>5. d # <<>> => b = w
    BY DEF w
  <2>6. <<>> \in Seq(Octet) /\ Len(<<>>) = 0
    OBVIOUS
  <2> HIDE DEF b
  <2>7. d = <<>> => b \in Seq(Octet) /\ Len(b) = 0
    BY <2>4, <2>6
  <2> QED BY <2>3, <2>5, <2>7
<1> HIDE DEF d, n, h, l, b, t
<1>6. hb \in Seq(Octet) /\ Len(hb) = Len(h) + Len(b) /\ (\A i \in 1 .. Len(h) : hb[i] = h[i])
      /\ \A i \in 1 .. Len(b) : hb[Len(h) + i] = b[i]
  <2>1. Joined(hb, h, b)
    BY <1>3, <1>5, OneAfterOther
  <2> QED BY <2>1 DEF Joined
<1> HIDE DEF hb
<1>7. bytes \in Seq(Octet) /\ Len(bytes) = Len(hb) + Len(t) /\ (\A i \in 1 .. Len(hb) : bytes[i] = hb[i])
      /\ \A i \in 1 .. Len(t) : bytes[Len(hb) + i] = t[i]
  <2>1. Joined(bytes, hb, t)
    BY <1>4, <1>6, OneAfterOther
  <2> QED BY <2>1 DEF Joined
<1> HIDE DEF bytes
<1>8. Len(b) \in Nat /\ Len(hb) = 4 + Len(b) /\ Len(bytes) = 4 + Len(b) + Len(t) /\ Len(t) \in Nat
  BY <1>3, <1>4, <1>5, <1>6, <1>7
<1>9. ASSUME NEW i \in 1 .. 4 PROVE bytes[i] = h[i]
  <2>1. i \in 1 .. Len(h) /\ i \in 1 .. Len(hb)
    BY <1>3, <1>8
  <2> QED BY <1>6, <1>7, <2>1
<1>10. ASSUME NEW i \in 1 .. Len(b) PROVE bytes[4 + i] = b[i]
  <2> DEFINE j == 4 + i
  <2>1. j \in 1 .. Len(hb) /\ j = Len(h) + i
    BY <1>3, <1>8
  <2>2. hb[j] = b[i]
    BY <1>6, <2>1
  <2> HIDE DEF j
  <2>3. bytes[j] = b[i]
    BY <1>7, <2>1, <2>2
  <2> QED BY <2>3 DEF j
<1>11. Header(bytes) = c.header
  <2>1. bytes[1] = h[1] /\ bytes[2] = h[2] /\ bytes[3] = h[3] /\ bytes[4] = h[4]
    BY <1>9
  <2>2. c.header = [cla |-> c.header.cla, ins |-> c.header.ins, p1 |-> c.header.p1, p2 |-> c.header.p2]
    BY DEF ShortCommand
  <2> QED BY <1>3, <2>1, <2>2 DEF Header
<1>12. ASSUME d # <<>> PROVE bytes[5] = n /\ SubSeq(bytes, 6, 5 + n) = d
  <2>1. Len(b) = 1 + n /\ b[1] = n /\ \A i \in 1 .. n : b[1 + i] = d[i]
    BY <1>5, <1>12
  <2>2. 1 \in 1 .. Len(b) /\ 4 + 1 = 5
    BY <1>2, <2>1
  <2>3. bytes[5] = n
    BY <1>10, <2>1, <2>2
  <2>4. ASSUME NEW i \in 1 .. n PROVE bytes[5 + i] = d[i]
    <3> DEFINE j == 1 + i
    <3>1. j \in 1 .. Len(b) /\ 4 + j = 5 + i
      BY <1>2, <2>1
    <3>2. b[j] = d[i]
      BY <2>1
    <3> HIDE DEF j
    <3>3. bytes[4 + j] = d[i]
      BY <1>10, <3>1, <3>2
    <3> QED BY <3>1, <3>3
  <2> DEFINE p == 5 + n
             s == SubSeq(bytes, 6, p)
  <2>5. p \in Int /\ 6 \in Int /\ p - 6 + 1 = n /\ 6 <= p /\ \A i \in 1 .. n : 6 + i - 1 = 5 + i
    BY <1>2, <1>12 DEF n, d
  <2>6. \A k \in 6 .. p : bytes[k] \in Octet
    <3>1. \A k \in 6 .. p : k \in 1 .. Len(bytes)
      BY <1>2, <1>8, <2>1
    <3> QED BY <1>7, <3>1, ElementOfSeq
  <2> HIDE DEF p
  <2>7. s \in Seq(Octet) /\ (Len(s) = IF 6 <= p THEN p - 6 + 1 ELSE 0)
        /\ \A i \in 1 .. p - 6 + 1 : s[i] = bytes[6 + i - 1]
    BY <2>5, <2>6, SubSeqProperties
  <2> HIDE DEF s
  <2>8. Len(s) = n /\ \A i \in 1 .. n : s[i] = d[i]
    BY <2>4, <2>5, <2>7
  <2>9. Len(d) = n
    BY DEF n
  <2>10. s = d
    BY <1>2, <2>7, <2>8, <2>9, SeqEqual
  <2> QED BY <2>3, <2>10 DEF s, p
<1>13. ASSUME c.le # 0 PROVE bytes[Len(bytes)] = c.le % 256
  <2>1. Len(t) = 1 /\ t[1] = c.le % 256
    BY <1>4, <1>13
  <2>2. 1 \in 1 .. Len(t) /\ Len(bytes) = Len(hb) + 1
    BY <1>7, <2>1
  <2>3. bytes[Len(hb) + 1] = t[1]
    BY <1>7, <2>2
  <2> QED BY <2>1, <2>2, <2>3
<1>14. Len(bytes) = 4 + (IF d = <<>> THEN 0 ELSE 1 + n) + (IF c.le = 0 THEN 0 ELSE 1)
  BY <1>4, <1>5, <1>8
<1>15. OnLine(bytes, c)
  BY <1>7, <1>11, <1>12, <1>13, <1>14 DEF OnLine, d, n
<1> QED BY <1>1, <1>15

\* Every command of the short form is parsed as it was encoded, in each of its
\* four cases, and one whose data is cut by a byte or two is refused
\* (tezos_apdu_parse_command).
THEOREM CommandsAreParsed ==
    \A c : ShortCommand(c) =>
        /\ ParseCommand(EncodeCommand(c)) = c
        /\ Len(c.data) > 1 => ParseCommand(SubSeq(EncodeCommand(c), 1, 4 + Len(c.data))) = MALFORMED
<1> SUFFICES ASSUME NEW c, ShortCommand(c)
             PROVE  /\ ParseCommand(EncodeCommand(c)) = c
                    /\ Len(c.data) > 1 =>
                          ParseCommand(SubSeq(EncodeCommand(c), 1, 4 + Len(c.data))) = MALFORMED
  OBVIOUS
<1> DEFINE bytes == EncodeCommand(c)
           n == Len(c.data)
           m == Len(bytes)
<1>1. OnLine(bytes, c)
  BY EncodedOnLine
<1>2. /\ bytes \in Seq(Octet) /\ Header(bytes) = c.header
      /\ m = 4 + (IF c.data = <<>> THEN 0 ELSE 1 + n) + (IF c.le = 0 THEN 0 ELSE 1)
      /\ c.data # <<>> => bytes[5] = n /\ SubSeq(bytes, 6, 5 + n) = c.data
      /\ c.le # 0 => bytes[m] = c.le % 256
  BY <1>1 DEF OnLine
<1>3. /\ c = [header |-> c.header, data |-> c.data, le |-> c.le] /\ c.le \in 0 .. 256
      /\ n \in Nat /\ (c.data = <<>> <=> n = 0) /\ c.data \in Seq(Octet)
  BY DEF ShortCommand
<1>4. c.le # 0 => Le(c.le % 256) = c.le
  <2> DEFINE x == c.le
  <2>1. x \in 0 .. 256
    BY <1>3
  <2> HIDE DEF x
  <2>2. x # 0 => IF x % 256 = 0 THEN x = 256 ELSE x % 256 = x
    BY <2>1
  <2>3. x # 0 => Le(x % 256) = x
    BY <2>2 DEF Le
  <2> QED BY <2>3 DEF x
<1> HIDE DEF bytes, n, m
<1>5. ParseCommand(bytes) = c
  <2>1. ASSUME c.data = <<>>, c.le = 0 PROVE ParseCommand(bytes) = c
    <3>1. m = 4
      BY <1>2, <2>1
    <3>2. ParseCommand(bytes) = [header |-> Header(bytes), data |-> <<>>, le |-> 0]
      BY <3>1 DEF ParseCommand, m
    <3> QED BY <1>2, <1>3, <2>1, <3>2
  <2>2. ASSUME c.data = <<>>, c.le # 0 PROVE ParseCommand(bytes) = c
    <3>1. m = 5 /\ bytes[5] = c.le % 256
      BY <1>2, <2>2
    <3>2. ParseCommand(bytes) = [header |-> Header(bytes), data |-> <<>>, le |-> Le(bytes[5])]
      BY <3>1 DEF ParseCommand, m
    <3> QED BY <1>2, <1>3, <1>4, <2>2, <3>1, <3>2
  <2>3. ASSUME c.data # <<>> PROVE ParseCommand(bytes) = c
    <3>1. m = 5 + n + (IF c.le = 0 THEN 0 ELSE 1) /\ n > 0 /\ m > 5
      BY <1>2, <1>3, <2>3
    <3>2. ParseCommand(bytes) = CommandOf(bytes)
      BY <3>1 DEF ParseCommand, m
    <3>3. bytes[5] = n /\ SubSeq(bytes, 6, 5 + n) = c.data
      BY <1>2, <2>3
    <3>4. CASE c.le = 0
      <4>1. m = 5 + n /\ m # 6 + n /\ n # 0
        BY <1>3, <3>1, <3>4
      <4>2. CommandOf(bytes) = [header |-> Header(bytes), data |-> SubSeq(bytes, 6, 5 + n), le |-> 0]
        BY <3>3, <4>1 DEF CommandOf, m
      <4> QED BY <1>2, <1>3, <3>2, <3>3, <3>4, <4>2
    <3>5. CASE c.le # 0
      <4>1. m = 6 + n /\ m # 5 + n /\ n # 0
        BY <1>3, <3>1, <3>5
      <4>2. bytes[6 + n] = c.le % 256
        BY <1>2, <3>5, <4>1
      <4>3. CommandOf(bytes) = [header |-> Header(bytes), data |-> SubSeq(bytes, 6, 5 + n), le |-> Le(bytes[6 + n])]
        BY <3>3, <4>1 DEF CommandOf, m
      <4> QED BY <1>2, <1>3, <1>4, <3>2, <3>3, <3>5, <4>2, <4>3
    <3> QED BY <3>4, <3>5
  <2> QED BY <2>1, <2>2, <2>3
<1>6. ASSUME n > 1 PROVE ParseCommand(SubSeq(bytes, 1, 4 + n)) = MALFORMED
  <2> DEFINE p == 4 + n
             s == SubSeq(bytes, 1, p)
             k == Len(s)
  <2>1. c.data # <<>> /\ bytes[5] = n /\ p <= m
    BY <1>2, <1>3, <1>6
  <2>2. \A i \in 1 .. p : bytes[i] \in Octet
    <3>1. \A i \in 1 .. p : i \in 1 .. Len(bytes)
      BY <1>2, <1>3, <2>1 DEF m
    <3> QED BY <1>2, <3>1, ElementOfSeq
  <2>3. p \in Int /\ 1 \in Int /\ 1 <= p /\ p - 1 + 1 = p /\ 5 \in 1 .. p - 1 + 1 /\ 1 + 5 - 1 = 5 /\ p > 5
    BY <1>3, <1>6
  <2> HIDE DEF p
  <2>4. s \in Seq(Octet) /\ (Len(s) = IF 1 <= p THEN p - 1 + 1 ELSE 0)
        /\ \A i \in 1 .. p - 1 + 1 : s[i] = bytes[1 + i - 1]
    BY <2>2, <2>3, SubSeqProperties
  <2> HIDE DEF s
  <2>5. k = 4 + n /\ s[5] = n /\ k > 5
    BY <2>1, <2>3, <2>4 DEF p
  <2> HIDE DEF k
  <2>6. ParseCommand(s) = CommandOf(s)
    BY <2>5, <1>3 DEF ParseCommand, k
  <2>7. k # 5 + n /\ k # 6 + n
    BY <1>3, <2>5
  <2>8. CommandOf(s) = MALFORMED
    BY <2>5, <2>7, Zenon DEF CommandOf, k
  <2> QED BY <2>6, <2>8 DEF s, p
<1> QED BY <1>5, <1>6 DEF bytes, n
=============================================================================
