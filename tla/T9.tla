--------------------------------- MODULE T9 ---------------------------------
(***************************************************************************)
(* The multi-tap text field (core/tezos_t9.c): what each key and each tick *)
(* makes of a field.  A field is a record of its committed text, the key   *)
(* being cycled (NOKEY when there is none) with its taps, the time since   *)
(* the last tap and the case.                                              *)
(***************************************************************************)
EXTENDS Integers, Sequences, SequencesExt

CONSTANTS
    Keys,           \* the digits
    KeyChars,       \* for each digit, what its taps cycle through
    Upper,          \* the letters that have an upper case, mapped to it
    MaxLen,         \* TEZOS_T9_MAX_LEN
    CommitDelay     \* TEZOS_T9_COMMIT_DELAY_MS, in ticks

NOKEY == -1

ASSUME KeyAssumption ==
    /\ Keys \subseteq Nat
    /\ KeyChars \in [Keys -> Seq(UNION {Range(KeyChars[k]) : k \in Keys})]
    /\ \A k \in Keys : KeyChars[k] # <<>>
    /\ MaxLen \in Nat /\ CommitDelay \in Nat \ {0}

Chars == (UNION {Range(KeyChars[k]) : k \in Keys}) \cup Range(Upper)

Field == [buffer : Seq(Chars), key : Keys \cup {NOKEY}, taps : Nat,
          elapsed : 0 .. CommitDelay, upper : BOOLEAN]

\* tezos_t9_init.
EmptyField == [buffer |-> <<>>, key |-> NOKEY, taps |-> 0, elapsed |-> 0, upper |-> FALSE]

\* current_pending_char.
PendingChar(f) ==
    LET c == KeyChars[f.key][f.taps + 1]
    IN  IF f.upper /\ c \in DOMAIN Upper THEN Upper[c] ELSE c

\* tezos_t9_commit_pending: at MaxLen the letter is dropped.
Commit(f) ==
    IF f.key = NOKEY THEN f
    ELSE [f EXCEPT !.buffer = IF Len(f.buffer) < MaxLen THEN Append(f.buffer, PendingChar(f))
                              ELSE f.buffer,
                   !.key = NOKEY, !.taps = 0, !.elapsed = 0]

-----------------------------------------------------------------------------
(* tezos_t9_handle_input.  Taps count modulo the characters of their key,  *)
(* which is all that is read of them.                                      *)

\* Mutant: another key throws the letter away.
PressDigit_Drops(f, digit) ==
    IF f.key = digit
    THEN [f EXCEPT !.taps = (f.taps + 1) % Len(KeyChars[digit]), !.elapsed = 0]
    ELSE [f EXCEPT !.key = digit, !.taps = 0, !.elapsed = 0]
PressDigit(f, digit) ==
    IF f.key = digit
    THEN [f EXCEPT !.taps = (f.taps + 1) % Len(KeyChars[digit]), !.elapsed = 0]
    ELSE [Commit(f) EXCEPT !.key = digit, !.taps = 0, !.elapsed = 0]

PressStar(f) == [f EXCEPT !.upper = ~f.upper]

\* Cancels the letter, or erases one.
PressHash(f) ==
    IF f.key # NOKEY THEN [f EXCEPT !.key = NOKEY, !.taps = 0]
    ELSE IF f.buffer # <<>> THEN [f EXCEPT !.buffer = Front(f.buffer)] ELSE f

PressUp(f) == Commit(f)

\* tezos_t9_tick: after elapsed_ms, the letter may be due.
TickDue(f, ms) == f.key # NOKEY /\ f.elapsed + ms >= CommitDelay
\* Mutant: the letter is committed, and its key stays.
AfterTick_KeyStays(f, ms) ==
    IF f.key = NOKEY THEN f
    ELSE IF TickDue(f, ms) THEN [Commit(f) EXCEPT !.key = f.key, !.taps = f.taps]
    ELSE [f EXCEPT !.elapsed = @ + ms]
AfterTick(f, ms) ==
    IF f.key = NOKEY THEN f
    ELSE IF TickDue(f, ms) THEN Commit(f) ELSE [f EXCEPT !.elapsed = @ + ms]
=============================================================================
