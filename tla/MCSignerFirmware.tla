-------------------------- MODULE MCSignerFirmware --------------------------
(***************************************************************************)
(* The hardware signer's firmware: the operation-assembly session with a   *)
(* host that speaks its protocol, the main loop that is to drive it, and   *)
(* the random number generator.  The three do not call each other yet but  *)
(* for the loop, which appends chunks to the session: a behaviour is one   *)
(* of them at work.                                                        *)
(***************************************************************************)
EXTENDS SignerLoop, SignerRng

VARIABLES task      \* which of them this behaviour is about

firmwareVars == <<task, assemblyVars, loopVars, rngVars>>

FirmwareInit ==
    /\ task \in {"session", "loop", "rng"}
    /\ SessionInit /\ LoopInit /\ RngInit

Session == task = "session" /\ SessionNext /\ UNCHANGED <<loopVars, rngVars>>
Loop    == task = "loop" /\ LoopNext /\ UNCHANGED rngVars
Rng     == task = "rng" /\ RngNext /\ UNCHANGED <<assemblyVars, loopVars>>

FirmwareNext == (Session \/ Loop \/ Rng) /\ UNCHANGED task

\* The processor does not stop; the generator may deliver or not.
RngWorks == task = "rng" /\ RngCode /\ UNCHANGED <<task, assemblyVars, loopVars>>

FirmwareSpec ==
    /\ FirmwareInit /\ [][FirmwareNext]_firmwareVars
    /\ WF_firmwareVars(RngWorks)

\* Whatever the generator does, the reader gets its word or halts: it never
\* waits for ever ("without a bound, a genuine hardware failure would hang
\* the caller", tezos_signer_rng_core.c).
RngEnds == <>(task = "rng" => at \in {"word", "halt"})

-----------------------------------------------------------------------------
(* The instance: a one-byte, a four-byte and a five-byte operation against *)
(* a four-byte buffer and two-byte chunks; headers of every class,         *)
(* instruction and chunk the loop tells apart, bodies of one byte that     *)
(* begin a header or do not; a pipeline flushed as a whole.                *)
CONSTANTS small, large, huge

MCOperations == {small, large, huge}
MCSize       == [o \in MCOperations |->
                    IF o = small THEN 1 ELSE IF o = large THEN 4 ELSE 5]
MCByte       == MCOperations \X (1 .. 5)
MCContent    == [o \in MCOperations |-> [i \in 1 .. MCSize[o] |-> <<o, i>>]]

MCHeaders == {<<0, 4, 0, 0>>, <<128, 0, 0, 0>>} \cup {<<128, 4, p1, 0>> : p1 \in {0, 1, 2, 128}}
MCBodies  == {<<>>, <<1, 128>>}
=============================================================================
