------------------------------ MODULE SignerRng ------------------------------
(***************************************************************************)
(* Reading a word of the signer's random number generator                  *)
(* (firmware/signer/protocol/tezos_signer_rng_core.c and the wrapper in    *)
(* stm32f412/tezos_signer_rng.c).  After a seed error the words in the     *)
(* generator's pipeline are not random: the documented recovery clears the *)
(* error, throws twelve words away and looks again.  A word that cannot be *)
(* trusted halts the signer.                                               *)
(*                                                                         *)
(* The generator is external: it delivers words while there is no seed     *)
(* error, and a seed error may come between any two accesses to its        *)
(* registers, which are separate steps.  Clock errors are ignored by the   *)
(* code on purpose and left out.                                           *)
(***************************************************************************)
EXTENDS Naturals

CONSTANTS
    FlushWords,     \* TEZOS_RNG_SEED_ERROR_FLUSH_WORDS
    Pipeline,       \* the words the generator holds
    MaxSpin         \* the bound of the polling loop

ASSUME RngAssumption ==
    /\ FlushWords \in Nat /\ Pipeline \in Nat /\ Pipeline <= FlushWords
    /\ MaxSpin \in Nat \ {0}

VARIABLES
    at,         \* where the code is: "seis" or "drdy" within a poll, "decide",
                \* "clear", "confirm", or done: "word", "halt"
    stage,      \* which word is read: the "first", one to "flush", the "last"
    flushed,    \* the words thrown away so far
    spin,       \* the polls of the word being read
    seis, drdy, \* the flags of the status register
    tainted,      \* how many words of the pipeline a seed error spoilt
    late,       \* history: has a seed error come since SEIS was last looked at?
    spoilt      \* history: was the word returned one of those?

rngVars == <<at, stage, flushed, spin, seis, drdy, tainted, late, spoilt>>
device  == <<seis, drdy, tainted>>

-----------------------------------------------------------------------------
(* The generator.                                                          *)

Delivers ==
    /\ ~seis /\ ~drdy /\ drdy' = TRUE
    /\ UNCHANGED <<at, stage, flushed, spin, seis, tainted, late, spoilt>>

SeedError ==
    /\ seis' = TRUE /\ drdy' = FALSE /\ tainted' = Pipeline /\ late' = TRUE
    /\ UNCHANGED <<at, stage, flushed, spin, spoilt>>

-----------------------------------------------------------------------------
(* tezos_signer_rng_try_read_one_word_impl.                                *)

Begin(word) == stage' = word /\ at' = "seis" /\ spin' = 0

\* The word was not read: the first time there may be a recovery.
ReadFails ==
    /\ at' = IF stage = "first" THEN "decide" ELSE "halt"
    /\ UNCHANGED <<stage, flushed, spin, spoilt>>

ReadSucceeds ==
    /\ tainted' = IF tainted > 0 THEN tainted - 1 ELSE 0
    /\ drdy' = FALSE
    /\ IF stage = "flush"
       THEN /\ flushed' = flushed + 1
            /\ IF flushed' = FlushWords
               THEN at' = "confirm" /\ UNCHANGED <<stage, spin>>
               ELSE Begin("flush")
            /\ UNCHANGED spoilt
       ELSE /\ at' = "word" /\ spoilt' = (tainted > 0)
            /\ UNCHANGED <<stage, flushed, spin>>
    /\ UNCHANGED <<seis, late>>

LookAtSeis ==
    /\ at = "seis"
    /\ late' = FALSE
    /\ IF seis THEN ReadFails
       ELSE at' = "drdy" /\ UNCHANGED <<stage, flushed, spin, spoilt>>
    /\ UNCHANGED device

\* Mutant: the polling loop has no bound.
LookAtDrdy_Unbounded ==
    /\ at = "drdy"
    /\ IF drdy THEN ReadSucceeds
       ELSE at' = "seis" /\ UNCHANGED <<stage, flushed, spin, device, late, spoilt>>
LookAtDrdy ==
    /\ at = "drdy"
    /\ CASE drdy -> ReadSucceeds
         [] ~drdy /\ spin + 1 < MaxSpin ->
              /\ at' = "seis" /\ spin' = spin + 1
              /\ UNCHANGED <<stage, flushed, device, late, spoilt>>
         [] OTHER -> ReadFails /\ UNCHANGED <<device, late>>

-----------------------------------------------------------------------------
(* tezos_signer_rng_read_word_impl.                                        *)

\* A time-out without a seed error is not something to recover from.
Decide ==
    /\ at = "decide"
    /\ at' = IF seis THEN "clear" ELSE "halt"
    /\ late' = FALSE
    /\ UNCHANGED <<stage, flushed, spin, device, spoilt>>

\* Mutant: the words in the pipeline are not thrown away.
Clear_NoFlush ==
    /\ at = "clear"
    /\ seis' = FALSE
    /\ Begin("last")
    /\ UNCHANGED <<flushed, drdy, tainted, late, spoilt>>
Clear ==
    /\ at = "clear"
    /\ seis' = FALSE
    /\ Begin("flush")
    /\ UNCHANGED <<flushed, drdy, tainted, late, spoilt>>

Confirm ==
    /\ at = "confirm"
    /\ late' = FALSE
    /\ IF seis THEN at' = "halt" /\ UNCHANGED <<stage, spin>> ELSE Begin("last")
    /\ UNCHANGED <<flushed, device, spoilt>>

RngCode == LookAtSeis \/ LookAtDrdy \/ Decide \/ Clear \/ Confirm

\* The pipeline's words are good at first, or a seed error is pending.
RngInit ==
    /\ at = "seis" /\ stage = "first" /\ flushed = 0 /\ spin = 0
    /\ drdy = FALSE /\ seis \in BOOLEAN /\ tainted = IF seis THEN Pipeline ELSE 0
    /\ late = FALSE /\ spoilt = FALSE

RngNext == RngCode \/ Delivers \/ SeedError

RngSpec == RngInit /\ [][RngNext]_rngVars

-----------------------------------------------------------------------------
\* A word that is returned was not in the pipeline when a seed error came,
\* unless the error came after the last look at SEIS, where no software can
\* see it ("either a genuinely verified random word, or a clear signal to
\* halt", tezos_signer_rng.h).
WordIsVerified == at = "word" /\ spoilt => late
=============================================================================
