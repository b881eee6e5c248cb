----------------------------- MODULE WalletLock -----------------------------
(***************************************************************************)
(* The wallet's signer and what protects it: the encrypted phrase on disk  *)
(* (chain/tezos_store.c), the unlock gate of the wallet (wallet.c), the    *)
(* PIN change and the accounts of the settings (settings.c), the last step *)
(* of the phrase import (import_recovery.c), and restarts, also in the     *)
(* middle of a save.                                                       *)
(*                                                                         *)
(* A phrase is one that passed the checksum.  A file that was not written  *)
(* to its end is CORRUPT; with the wrong PIN, or corrupt, it loads nothing.*)
(***************************************************************************)
EXTENDS Naturals

CONSTANTS
    Phrases, Pins,
    Dev,            \* the development seed of ensure_signer
    CORRUPT, NOTHING,
    MaxAccounts,    \* PROFILES_MAX_ACCOUNTS
    Faults          \* of "write" (a save fails) and "crash" (power is lost,
                    \* also in the middle of a save), those that may happen

Saved   == [phrase : Phrases, pin : Pins]
Signers == [seed : Phrases \cup {Dev}, account : 0 .. MaxAccounts - 1]
Screens == {"idle", "wallet", "locked", "lock", "import", "profiles"}
Prompts == {"unlock", "old", "new", "set"}
Phases  == {"NO_PHRASE", "READY", "OLD_PIN_WRONG", "AWAITING_NEW_PIN", "DONE"}

ASSUME LockAssumption ==
    /\ Dev \notin Phrases /\ NOTHING \notin Phrases \cup Pins \cup Prompts \cup {Dev, CORRUPT}
    /\ MaxAccounts \in Nat \ {0}
    /\ Faults \subseteq {"write", "crash"}

ASSUME FileAssumption == {NOTHING, CORRUPT} \cap Saved = {} /\ NOTHING \notin Signers

VARIABLES
    file,       \* the signer store on disk: NONE, CORRUPT or a saved phrase
    plain,      \* account_count and active_account on disk, 0 when absent
    signer,     \* g_wallet_signer, NONE until g_signer_ready
    session,    \* g_session_mnemonic
    screen,     \* the screen in use, below a PIN entry if there is one
    prompt,     \* what the PIN entry on top asks for, NONE when there is none
    phase,      \* g_lock_state.phase
    verified,   \* g_lock_state.verified_data
    typed,      \* the assembled phrase of the import
    count,      \* g_profiles_state.account_count
    active,     \* g_profiles_state.active_index
    adding,     \* is the name of a new account being typed?
    newPin,     \* history: the PIN last given to the PIN change
    lost,       \* history: has a save of the plain file ever failed?
    faults      \* the faults that happen in this behaviour

diskVars     == <<file, plain, lost>>
lockVars     == <<phase, verified, newPin>>
profilesVars == <<count, active, adding>>
allLockVars == <<diskVars, signer, session, screen, prompt, lockVars, typed, profilesVars, faults>>

-----------------------------------------------------------------------------
(* tezos_store.c.                                                          *)

StoreExists == file # NOTHING

\* What tezos_store_load_signer opens with this PIN: NONE when it cannot.
Loaded(pin) == IF file \in Saved /\ file.pin = pin THEN file.phrase ELSE NOTHING

\* tezos_store_save_signer truncates the file before it writes it.  A save
\* that fails may have failed before the truncation.
SaveSigner(phrase, pin) ==
    \/ file' = [phrase |-> phrase, pin |-> pin]
    \/ "write" \in faults /\ file' \in {file, CORRUPT}

-----------------------------------------------------------------------------
(* The wallet and its gate.                                                *)

\* wallet_set_active_signer_from_mnemonic.
Activate(phrase, account) ==
    signer' = [seed |-> phrase, account |-> account] /\ session' = phrase

\* wallet_switch_account: nothing happens without a session phrase.
SwitchAccount(account) ==
    signer' = IF session = NOTHING THEN signer ELSE [seed |-> session, account |-> account]

\* Mutant: the wallet opens on the development seed whatever is saved.
OpenWallet_NoGate ==
    /\ screen = "idle"
    /\ screen' = "wallet"
    /\ signer' = IF signer = NOTHING THEN [seed |-> Dev, account |-> 0] ELSE signer
    /\ UNCHANGED <<diskVars, session, prompt, lockVars, typed, profilesVars>>

\* wallet_entry_screen.
OpenWallet ==
    /\ screen = "idle"
    /\ IF signer = NOTHING /\ StoreExists
       THEN screen' = "locked" /\ UNCHANGED signer
       ELSE /\ screen' = "wallet"
            /\ signer' = IF signer = NOTHING THEN [seed |-> Dev, account |-> 0] ELSE signer
    /\ UNCHANGED <<diskVars, session, prompt, lockVars, typed, profilesVars>>

\* locked_on_resume after CONFIRMED; the screen stays whatever happens.
\* Mutant: the signer is set without the session phrase.
Unlock_NoSession(pin) ==
    /\ signer' = IF Loaded(pin) = NOTHING THEN signer ELSE [seed |-> Loaded(pin), account |-> 0]
    /\ UNCHANGED <<session, file, lockVars, screen, typed>>
Unlock(pin) ==
    /\ IF Loaded(pin) = NOTHING THEN UNCHANGED <<signer, session>> ELSE Activate(Loaded(pin), 0)
    /\ UNCHANGED <<file, lockVars, screen, typed>>

-----------------------------------------------------------------------------
(* The PIN change.                                                         *)

OpenLock ==
    /\ screen = "idle"
    /\ screen' = "lock"
    /\ phase' = IF StoreExists THEN "READY" ELSE "NO_PHRASE"
    /\ verified' = NOTHING /\ newPin' = NOTHING
    /\ UNCHANGED <<diskVars, signer, session, prompt, typed, profilesVars>>

\* lock_on_resume, for the current PIN and for the new one.  The result of
\* the save is not looked at.
VerifyOld(pin) ==
    /\ IF Loaded(pin) = NOTHING
       THEN phase' = "OLD_PIN_WRONG" /\ UNCHANGED verified
       ELSE phase' = "AWAITING_NEW_PIN" /\ verified' = Loaded(pin)
    /\ UNCHANGED <<file, newPin, signer, session, screen, typed>>

\* Mutant: the phrase is encrypted under the PIN it had.
ChangePin_OldPin(pin) ==
    /\ SaveSigner(verified, file.pin)
    /\ phase' = "DONE" /\ newPin' = pin
    /\ UNCHANGED <<verified, signer, session, screen, typed>>
ChangePin(pin) ==
    /\ SaveSigner(verified, pin)
    /\ phase' = "DONE" /\ newPin' = pin
    /\ UNCHANGED <<verified, signer, session, screen, typed>>

-----------------------------------------------------------------------------
(* The end of an import: the words are entered and their checksum is good. *)

PhraseEntered(phrase) ==
    /\ screen = "idle"
    /\ screen' = "import" /\ typed' = phrase /\ prompt' = "set"
    /\ UNCHANGED <<diskVars, signer, session, lockVars, profilesVars>>

\* finish_with_pin: the save may fail, the signer is set all the same.
FinishImport(pin) ==
    /\ SaveSigner(typed, pin)
    /\ Activate(typed, 0)
    /\ typed' = NOTHING
    /\ UNCHANGED <<lockVars, screen>>

-----------------------------------------------------------------------------
(* The PIN entry on top of a screen (tezos_pin_entry.c).                   *)

\* SELECT on the gate, or on the PIN change.
AskPin ==
    /\ prompt = NOTHING
    /\ \/ screen = "locked" /\ prompt' = "unlock"
       \/ screen = "lock" /\ phase \in {"READY", "OLD_PIN_WRONG"} /\ prompt' = "old"
       \/ screen = "lock" /\ phase = "AWAITING_NEW_PIN" /\ prompt' = "new"
    /\ UNCHANGED <<diskVars, signer, session, screen, lockVars, typed, profilesVars>>

ConfirmPin(pin) ==
    /\ prompt # NOTHING
    /\ prompt' = NOTHING
    /\ \/ prompt = "unlock" /\ Unlock(pin)
       \/ prompt = "old"    /\ VerifyOld(pin)
       \/ prompt = "new"    /\ ChangePin(pin)
       \/ prompt = "set"    /\ FinishImport(pin)
    /\ UNCHANGED <<plain, lost, profilesVars>>

\* An import whose PIN is cancelled starts over (the user leaves, or enters
\* a phrase again from the first word).
CancelPin ==
    /\ prompt # NOTHING
    /\ prompt' = NOTHING
    /\ typed' = NOTHING
    /\ UNCHANGED <<diskVars, signer, session, screen, lockVars, profilesVars>>

\* BACK, which the gate does not have.
LeaveScreen ==
    /\ prompt = NOTHING
    /\ screen \in Screens \ {"idle", "locked"}
    /\ screen' = "idle"
    /\ UNCHANGED <<diskVars, signer, session, prompt, lockVars, typed, profilesVars>>

-----------------------------------------------------------------------------
(* The accounts of the session phrase.                                     *)

\* profiles_screen_get, with profiles_load.
OpenProfiles ==
    /\ screen = "idle"
    /\ screen' = "profiles"
    /\ adding' = FALSE
    /\ IF session = NOTHING
       THEN count' = 0 /\ active' = 0 /\ UNCHANGED signer
       ELSE /\ count' = IF plain.count = 0 THEN 1 ELSE plain.count
            /\ active' = plain.active
            /\ SwitchAccount(plain.active)
    /\ UNCHANGED <<diskVars, session, prompt, lockVars, typed>>

\* What is left of the two numbers when a rewrite of the file, which begins
\* with truncating it, does not get to its end: lines are missing from some
\* line on.  The count stands before the active account, unless its own save
\* failed when there was no file yet.
CutShort(p) ==
    {p, [p EXCEPT !.active = 0], [count |-> 0, active |-> 0]}
      \cup (IF lost THEN {[p EXCEPT !.count = 0]} ELSE {})

\* tezos_store_save_plain of one key, its result not looked at: it may find
\* that the file cannot be opened, or write a part of it only.
OneSaved(p, key, n, fails) ==
    IF fails THEN {p} \cup CutShort([p EXCEPT ![key] = n]) ELSE {[p EXCEPT ![key] = n]}

\* profiles_save_accounts: the count, the labels, the active account; the
\* labels are rewritten like the count.
AccountsSaved(c, a, fails) ==
    UNION {OneSaved(p, "active", a, fails) : p \in OneSaved(plain, "count", c, fails)}

\* The same, and power is lost before it is done.
\* Mutant: the active account is written first.
Interrupted_ActiveFirst(c, a, fails) ==
    {plain} \cup UNION {CutShort(p) \cup CutShort([p EXCEPT !.count = c]) :
                          p \in OneSaved(plain, "active", a, fails)}
Interrupted(c, a, fails) ==
    {plain} \cup UNION {CutShort(p) \cup CutShort([p EXCEPT !.active = a]) :
                          p \in OneSaved(plain, "count", c, fails)}

MayFail == IF "write" \in faults THEN BOOLEAN ELSE {FALSE}

SaveAccounts(c, a) ==
    \E fails \in MayFail : plain' \in AccountsSaved(c, a, fails) /\ lost' = (lost \/ fails)

InProfiles == screen = "profiles" /\ session # NOTHING

\* Mutant: the marker moves, the signer does not.
ChooseAccount_MarkerOnly(i) ==
    /\ InProfiles /\ ~adding /\ i < count
    /\ active' = i
    /\ SaveAccounts(count, i)
    /\ UNCHANGED <<signer, file, session, screen, prompt, lockVars, typed, count, adding>>
ChooseAccount(i) ==
    /\ InProfiles /\ ~adding /\ i < count
    /\ SwitchAccount(i)
    /\ active' = i
    /\ SaveAccounts(count, i)
    /\ UNCHANGED <<file, session, screen, prompt, lockVars, typed, count, adding>>

StartAdding ==
    /\ InProfiles /\ ~adding /\ count < MaxAccounts
    /\ adding' = TRUE
    /\ UNCHANGED <<diskVars, signer, session, screen, prompt, lockVars, typed, count, active>>

\* SAVE; an empty name adds nothing.
FinishAdding(empty) ==
    /\ InProfiles /\ adding
    /\ adding' = FALSE
    /\ IF empty THEN UNCHANGED <<plain, lost, signer, count, active>>
       ELSE /\ count' = count + 1 /\ active' = count
            /\ SwitchAccount(count)
            /\ SaveAccounts(count + 1, count)
    /\ UNCHANGED <<file, session, screen, prompt, lockVars, typed>>

\* The other settings are kept in the same file: a save of one of them fails.
SettingLost ==
    /\ "write" \in faults /\ screen = "idle"
    /\ plain' \in CutShort(plain) /\ lost' = TRUE
    /\ UNCHANGED <<file, signer, session, screen, prompt, lockVars, typed, profilesVars>>

-----------------------------------------------------------------------------
(* Restarts.                                                               *)

Booted ==
    /\ signer' = NOTHING /\ session' = NOTHING
    /\ screen' = "idle" /\ prompt' = NOTHING
    /\ phase' = "NO_PHRASE" /\ verified' = NOTHING /\ newPin' = NOTHING
    /\ typed' = NOTHING
    /\ count' = 0 /\ active' = 0 /\ adding' = FALSE

\* Power is lost, perhaps while another setting is being saved.
Reboot ==
    /\ "crash" \in faults
    /\ plain' \in IF screen = "idle" THEN CutShort(plain) ELSE {plain}
    /\ Booted
    /\ UNCHANGED <<file, lost>>

\* Power is lost while the phrase is being saved.
CrashInSave(pin) ==
    /\ "crash" \in faults
    /\ prompt \in {"new", "set"}
    /\ LET phrase == IF prompt = "new" THEN verified ELSE typed IN
       file' \in {file, CORRUPT, [phrase |-> phrase, pin |-> pin]}
    /\ Booted
    /\ UNCHANGED <<plain, lost>>

\* Power is lost while the accounts are being saved.
CrashInAccounts ==
    /\ "crash" \in faults /\ InProfiles
    /\ \E fails \in MayFail :
          /\ \/ ~adding /\ \E i \in 0 .. count - 1 : plain' \in Interrupted(count, i, fails)
             \/ adding /\ plain' \in Interrupted(count + 1, count, fails)
          /\ lost' = (lost \/ fails)
    /\ Booted
    /\ UNCHANGED file

-----------------------------------------------------------------------------
LockInit ==
    /\ file = NOTHING /\ plain = [count |-> 0, active |-> 0] /\ lost = FALSE
    /\ signer = NOTHING /\ session = NOTHING
    /\ screen = "idle" /\ prompt = NOTHING
    /\ phase = "NO_PHRASE" /\ verified = NOTHING /\ newPin = NOTHING
    /\ typed = NOTHING
    /\ count = 0 /\ active = 0 /\ adding = FALSE
    /\ faults \in SUBSET Faults

Step ==
    \/ OpenWallet \/ OpenLock \/ OpenProfiles
    \/ \E phrase \in Phrases : PhraseEntered(phrase)
    \/ AskPin \/ CancelPin \/ LeaveScreen
    \/ \E pin \in Pins : ConfirmPin(pin)
    \/ \E i \in 0 .. MaxAccounts - 1 : ChooseAccount(i)
    \/ StartAdding
    \/ \E empty \in BOOLEAN : FinishAdding(empty)
    \/ SettingLost
    \/ Reboot
    \/ \E pin \in Pins : CrashInSave(pin)
    \/ CrashInAccounts

LockNext == Step /\ UNCHANGED faults

LockSpec == LockInit /\ [][LockNext]_allLockVars

-----------------------------------------------------------------------------
(* Properties.                                                             *)

\* Types; the profiles never hold more accounts than their arrays do, nor a
\* signer for an account beyond them.
TypeOK ==
    /\ file \in Saved \cup {NOTHING, CORRUPT}
    /\ plain \in [count : 0 .. MaxAccounts, active : 0 .. MaxAccounts - 1]
    /\ signer \in Signers \cup {NOTHING}
    /\ session \in Phrases \cup {NOTHING}
    /\ screen \in Screens /\ prompt \in Prompts \cup {NOTHING}
    /\ phase \in Phases /\ verified \in Phrases \cup {NOTHING}
    /\ newPin \in Pins \cup {NOTHING} /\ typed \in Phrases \cup {NOTHING}
    /\ count \in 0 .. MaxAccounts /\ active \in 0 .. MaxAccounts - 1
    /\ adding \in BOOLEAN /\ lost \in BOOLEAN

\* The development seed never signs for a user who has a phrase on disk.
DevSeedOnlyWithoutStore ==
    (signer # NOTHING /\ signer.seed = Dev) => file = NOTHING

\* The phrase accounts are derived from is the phrase that signs.
SignerIsSession ==
    /\ session # NOTHING => signer # NOTHING /\ signer.seed = session
    /\ (signer # NOTHING /\ signer.seed # Dev) => session = signer.seed

\* The phrase a PIN change is about to encrypt is the one on disk.
VerifiedIsSaved ==
    (screen = "lock" /\ phase = "AWAITING_NEW_PIN") =>
        file \in Saved /\ file.phrase = verified

\* The account the profiles mark as active is the one that signs.
ProfilesAgree ==
    InProfiles => signer = [seed |-> session, account |-> active]

\* However a save of the accounts, or of another setting, was interrupted, the
\* active account that is loaded next is one of the accounts; until a save
\* fails, when one number may be written without the other (settings.c saves
\* key by key and looks at no result).
ActiveAccountExists ==
    ~lost => plain.active < IF plain.count = 0 THEN 1 ELSE plain.count

\* "PIN changed successfully" (settings.c, LOCK_DONE) means that the new PIN
\* opens the phrase, and that no other does, unless a save fails: its result
\* is not looked at.
DoneMeansChanged ==
    (screen = "lock" /\ phase = "DONE" /\ "write" \notin faults) =>
        file = [phrase |-> verified, pin |-> newPin]

\* The gate is shown only while there is something to unlock.
GateIsLocked == screen = "locked" => signer = NOTHING

-----------------------------------------------------------------------------
(* The inductive invariant.                                                *)

\* A PIN entry lies on the screen that asked for it, in the phase that asks.
PromptOK ==
    /\ prompt = "unlock" => screen = "locked"
    /\ prompt = "old" => screen = "lock"
    /\ prompt = "new" => screen = "lock" /\ phase = "AWAITING_NEW_PIN"
    /\ prompt = "set" => screen = "import" /\ typed # NOTHING

\* The number of accounts in use is the one on disk, until a save fails.
AccountsOK ==
    InProfiles => /\ count > 0
                  /\ ~lost => count = IF plain.count = 0 THEN 1 ELSE plain.count
                  /\ adding => count < MaxAccounts

IInv ==
    /\ TypeOK
    /\ PromptOK
    /\ AccountsOK
    /\ DevSeedOnlyWithoutStore
    /\ SignerIsSession
    /\ VerifiedIsSaved
    /\ ProfilesAgree
    /\ ActiveAccountExists
=============================================================================
