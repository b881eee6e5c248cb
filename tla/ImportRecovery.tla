--------------------------- MODULE ImportRecovery ---------------------------
(***************************************************************************)
(* The import of a recovery phrase (apps/settings/import_recovery.c): the  *)
(* words are picked one by one from the candidates for what is typed in a  *)
(* T9 field, the phrase is checked, and a PIN is asked for to save it.     *)
(* The user presses any key at any time, and the main loop ticks.          *)
(***************************************************************************)
EXTENDS T9

CONSTANTS
    WordList,       \* TEZOS_BIP39_WORDLIST, in its order
    MaxCandidates,  \* MAX_CANDIDATES
    WordCount,      \* WORD_COUNT
    Valid           \* the phrases tezos_bip39_validate accepts

Words == Range(WordList)

\* The list is in alphabetical order: a word comes before its extensions.
ASSUME WordListAssumption ==
    /\ WordList \in Seq(Seq(Chars) \ {<<>>})
    /\ \A i, j \in DOMAIN WordList : i < j => ~IsPrefix(WordList[j], WordList[i])
    /\ MaxCandidates \in Nat \ {0} /\ WordCount \in Nat \ {0}

VARIABLES
    screen,     \* the top of the stack: "closed", "import" or "pin"
    phase, words, field, phrase,    \* g_import_state
    candidates, selected,           \* its list
    saved       \* the phrase saved last and made the signer, <<>> before
listVars == <<candidates, selected>>
importVars == <<screen, phase, words, field, phrase, listVars, saved>>

\* refilter_candidates, which selects the first: in the order of the list,
\* the words that begin with what is typed.
Matching(prefix) ==
    {i \in DOMAIN WordList : prefix # <<>> /\ IsPrefix(prefix, WordList[i])}
Candidates(prefix) ==
    LET nth(n) == CHOOSE i \in Matching(prefix) :
                      Cardinality({j \in Matching(prefix) : j <= i}) = n
    IN  [n \in {m \in 1 .. MaxCandidates : m <= Cardinality(Matching(prefix))} |->
            WordList[nth(n)]]
Refilter(f) == candidates' = Candidates(f.buffer) /\ selected' = 1

ImportInit ==
    /\ screen = "closed" /\ phase = "ENTERING"
    /\ words = <<>> /\ field = EmptyField /\ phrase = <<>>
    /\ candidates = <<>> /\ selected = 1
    /\ saved = <<>>

\* The field is empty and no word is confirmed.
StartOver ==
    /\ phase' = "ENTERING"
    /\ words' = <<>> /\ field' = EmptyField
    /\ Refilter(EmptyField)

\* import_recovery_entry_screen.
Open ==
    /\ screen = "closed" /\ screen' = "import"
    /\ StartOver /\ phrase' = <<>>
    /\ UNCHANGED saved

-----------------------------------------------------------------------------
(* entering_handle_input and entering_on_tick.                             *)

Entering == screen = "import" /\ phase = "ENTERING"

EditWord(f) ==
    /\ field' = f
    /\ Refilter(f)
    /\ UNCHANGED <<screen, phase, words, phrase, saved>>

Type ==
    /\ Entering
    /\ \/ \E d \in Keys : EditWord(PressDigit(field, d))
       \/ EditWord(PressStar(field))
       \/ EditWord(PressHash(field))
       \/ field.key # NOKEY /\ EditWord(PressUp(field))

Tick(ms) ==
    /\ Entering /\ field.key # NOKEY
    /\ IF TickDue(field, ms) THEN EditWord(AfterTick(field, ms))
       ELSE /\ field' = AfterTick(field, ms)
            /\ UNCHANGED <<screen, phase, words, phrase, listVars, saved>>

\* DOWN moves the highlight; UP is the field's.
MoveDown ==
    /\ Entering /\ selected < Len(candidates)
    /\ selected' = selected + 1
    /\ UNCHANGED <<screen, phase, words, field, phrase, candidates, saved>>

\* SELECT on a text no word begins with: the letter is committed.
SelectNothing ==
    /\ Entering /\ Candidates(Commit(field).buffer) = <<>>
    /\ field' = Commit(field)
    /\ Refilter(Commit(field))
    /\ UNCHANGED <<screen, phase, words, phrase, saved>>

\* SELECT: the list is filtered again first, and its first word confirmed.
\* The last word has the phrase checked, and a PIN asked for if it is good.
\* Mutant: the letter being cycled is not committed first.
SelectWord_NoCommit ==
    /\ Entering /\ Candidates(field.buffer) # <<>>
    /\ words' = Append(words, Candidates(field.buffer)[1])
    /\ field' = EmptyField /\ Refilter(EmptyField)
    /\ IF Len(words') < WordCount THEN UNCHANGED <<phrase, phase, screen>>
       ELSE /\ phrase' = words'
            /\ IF words' \in Valid THEN phase' = "AWAITING_PIN" /\ screen' = "pin"
               ELSE phase' = "REVIEW_FAIL" /\ UNCHANGED screen
    /\ UNCHANGED saved
SelectWord ==
    /\ Entering /\ Candidates(Commit(field).buffer) # <<>>
    /\ words' = Append(words, Candidates(Commit(field).buffer)[1])
    /\ field' = EmptyField /\ Refilter(EmptyField)
    /\ IF Len(words') < WordCount THEN UNCHANGED <<phrase, phase, screen>>
       ELSE /\ phrase' = words'
            /\ IF words' \in Valid THEN phase' = "AWAITING_PIN" /\ screen' = "pin"
               ELSE phase' = "REVIEW_FAIL" /\ UNCHANGED screen
    /\ UNCHANGED saved

\* CANCEL while entering, DONE once imported.
Close ==
    /\ screen = "import" /\ phase \in {"ENTERING", "IMPORTED"}
    /\ screen' = "closed"
    /\ UNCHANGED <<phase, words, field, phrase, listVars, saved>>

-----------------------------------------------------------------------------
\* review_fail_handle_input: RETRY.
Retry ==
    /\ screen = "import" /\ phase = "REVIEW_FAIL"
    /\ StartOver
    /\ UNCHANGED <<screen, phrase, saved>>

\* screen_on_resume after a confirmed PIN: finish_with_pin, which checks the
\* phrase once more.
PinConfirmed ==
    /\ screen = "pin" /\ screen' = "import"
    /\ phase' = IF phrase \in Valid THEN "IMPORTED" ELSE "REVIEW_FAIL"
    /\ saved' = IF phrase \in Valid THEN phrase ELSE saved
    /\ UNCHANGED <<words, field, phrase, listVars>>

\* screen_on_resume after a cancelled PIN.
PinCancelled ==
    /\ screen = "pin" /\ screen' = "import"
    /\ StartOver
    /\ UNCHANGED <<phrase, saved>>

\* The main loop polls with a timeout and ticks the top screen whether or not
\* a key was pressed; the user need not do anything.
ImportTick == \E ms \in 1 .. CommitDelay : Tick(ms)

ImportNext ==
    \/ Open \/ Type \/ ImportTick \/ MoveDown
    \/ SelectNothing \/ SelectWord \/ Close \/ Retry \/ PinConfirmed \/ PinCancelled

ImportSpec == ImportInit /\ [][ImportNext]_importVars /\ WF_importVars(ImportTick)

-----------------------------------------------------------------------------
\* Every word can be entered: one that is typed out is the one SELECT takes,
\* also when its last letter is still being cycled.
TypedWordIsTaken ==
    [][Entering /\ Len(words') > Len(words) /\ Commit(field).buffer \in Words
        => Last(words') = Commit(field).buffer]_importVars

\* The letter shown while its key is cycled becomes text when the cycle ends,
\* once, however it ends: another key, UP, the pause, a SELECT that finds no
\* word.  Only # cancels it, and only a full field drops it.
LetterIsKept ==
    [][(Entering /\ field.key # NOKEY /\ field'.key # field.key /\ words' = words)
        => \/ Len(field.buffer) = MaxLen /\ field'.buffer = field.buffer
           \/ field'.buffer = Append(field.buffer, PendingChar(field))
           \/ field' = PressHash(field)]_importVars

\* A user who pauses gets the letter ("it's a fast-path, not the only path",
\* tezos_t9.h:18-19, of UP): unless keys are pressed for ever, no letter stays
\* in its cycle while the screen is there.
PauseCommits ==
    \/ []<><<Type>>_importVars
    \/ (Entering /\ field.key # NOKEY) ~> (field.key = NOKEY \/ ~Entering)

\* "SELECT the highlighted candidate" (import_recovery.c:217).
HighlightedIsTaken ==
    [][Entering /\ Len(words') > Len(words) /\ field.key = NOKEY
        => Last(words') = candidates[selected]]_importVars
=============================================================================
