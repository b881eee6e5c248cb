-------------------------- MODULE WalletLockProofs --------------------------
(***************************************************************************)
(* Proofs about WalletLock, for any phrases, PINs, number of accounts and  *)
(* faults: every conjunct of IInv is an invariant.                         *)
(***************************************************************************)
EXTENDS WalletLock, TLAPS

\* The invariant holds at first.
LEMMA InitOK == LockInit => IInv
<1> SUFFICES ASSUME LockInit PROVE IInv
  OBVIOUS
<1>1. TypeOK
  <2>1. 0 \in 0 .. MaxAccounts /\ 0 \in 0 .. MaxAccounts - 1
    BY LockAssumption
  <2> QED BY <2>1 DEF LockInit, TypeOK, Screens, Phases
<1>2. PromptOK /\ AccountsOK /\ ProfilesAgree /\ VerifiedIsSaved
  BY LockAssumption
     DEF LockInit, PromptOK, AccountsOK, ProfilesAgree, VerifiedIsSaved, InProfiles, Prompts
<1>3. DevSeedOnlyWithoutStore /\ SignerIsSession /\ ActiveAccountExists
  BY DEF LockInit, DevSeedOnlyWithoutStore, SignerIsSession, ActiveAccountExists
<1> QED BY <1>1, <1>2, <1>3 DEF IInv

\* What a PIN opens is a phrase, and it is the one in the file.
LEMMA LoadedOK ==
    ASSUME NEW pin
    PROVE  Loaded(pin) # NOTHING =>
             file \in Saved /\ Loaded(pin) = file.phrase /\ Loaded(pin) \in Phrases
  BY DEF Loaded, Saved

\* A save leaves a file, whatever it leaves in it, unless there was none.
LEMMA SaveOK ==
    ASSUME TypeOK, NEW phrase \in Phrases, NEW pin \in Pins, SaveSigner(phrase, pin)
    PROVE  /\ file' \in Saved \cup {NOTHING, CORRUPT}
           /\ file # NOTHING => file' # NOTHING
<1>1. [phrase |-> phrase, pin |-> pin] \in Saved
  BY DEF Saved
<1> QED BY <1>1, LockAssumption, FileAssumption DEF SaveSigner, TypeOK

\* The two numbers on disk, and when they fit each other.
Numbers == [count : 0 .. MaxAccounts, active : 0 .. MaxAccounts - 1]
Fits(p) == p.active < IF p.count = 0 THEN 1 ELSE p.count

\* Lines that are missing at the end leave numbers, which fit each other if
\* they did before and the count stands first.
LEMMA CutOK ==
    ASSUME NEW p \in Numbers, NEW q \in CutShort(p)
    PROVE  /\ q \in Numbers
           /\ ~lost /\ Fits(p) => Fits(q)
<1>1. 0 \in 0 .. MaxAccounts /\ 0 \in 0 .. MaxAccounts - 1
  BY LockAssumption
<1>2. \/ q = p \/ q = [p EXCEPT !.active = 0] \/ q = [count |-> 0, active |-> 0]
      \/ lost /\ q = [p EXCEPT !.count = 0]
  BY DEF CutShort
<1>3. p.count \in 0 .. MaxAccounts /\ p.active \in 0 .. MaxAccounts - 1
  BY DEF Numbers
<1>4. q \in Numbers
  BY <1>1, <1>2 DEF Numbers
<1>5. ASSUME ~lost, Fits(p)
      PROVE  Fits(q)
  <2>1. CASE q = p
    BY <1>5, <2>1
  <2>2. CASE q = [p EXCEPT !.active = 0]
    <3>1. q.active = 0 /\ q.count = p.count
      BY <2>2 DEF Numbers
    <3> QED BY <1>3, <3>1 DEF Fits
  <2>3. CASE q = [count |-> 0, active |-> 0]
    BY <2>3 DEF Fits
  <2> QED BY <1>2, <1>5, <2>1, <2>2, <2>3
<1> QED BY <1>4, <1>5

\* A save of one number leaves numbers, and the others as they were if it
\* does not fail.
LEMMA OneSavedOK ==
    ASSUME NEW p \in Numbers, NEW c \in 0 .. MaxAccounts, NEW a \in 0 .. MaxAccounts - 1,
           NEW fails \in BOOLEAN
    PROVE  /\ \A q \in OneSaved(p, "count", c, fails) : q \in Numbers
           /\ \A q \in OneSaved(p, "active", a, fails) : q \in Numbers
           /\ ~fails => /\ OneSaved(p, "count", c, fails) = {[p EXCEPT !.count = c]}
                        /\ OneSaved(p, "active", a, fails) = {[p EXCEPT !.active = a]}
<1>1. [p EXCEPT !.count = c] \in Numbers /\ [p EXCEPT !.active = a] \in Numbers
  BY DEF Numbers
<1>2. /\ \A q \in CutShort([p EXCEPT !.count = c]) : q \in Numbers
      /\ \A q \in CutShort([p EXCEPT !.active = a]) : q \in Numbers
  BY <1>1, CutOK
<1> QED BY <1>1, <1>2 DEF OneSaved

\* A save of the accounts leaves numbers; theirs, if it does not fail.
LEMMA SavedOK ==
    ASSUME plain \in Numbers, lost \in BOOLEAN,
           NEW c \in 0 .. MaxAccounts, NEW a \in 0 .. MaxAccounts - 1, SaveAccounts(c, a)
    PROVE  /\ plain' \in Numbers /\ lost' \in BOOLEAN
           /\ ~lost' => ~lost /\ plain' = [count |-> c, active |-> a]
<1>1. PICK fails \in MayFail : plain' \in AccountsSaved(c, a, fails) /\ lost' = (lost \/ fails)
  BY DEF SaveAccounts
<1>2. fails \in BOOLEAN
  BY DEF MayFail
<1>3. PICK p \in OneSaved(plain, "count", c, fails) : plain' \in OneSaved(p, "active", a, fails)
  BY <1>1 DEF AccountsSaved
<1>4. p \in Numbers
  BY <1>2, <1>3, OneSavedOK
<1>5. plain' \in Numbers
  BY <1>2, <1>3, <1>4, OneSavedOK
<1>6. ASSUME ~lost'
      PROVE  ~lost /\ plain' = [count |-> c, active |-> a]
  <2>1. ~lost /\ ~fails
    BY <1>1, <1>6
  <2>2. p = [plain EXCEPT !.count = c] /\ plain' = [p EXCEPT !.active = a]
    BY <1>2, <1>3, <1>4, <2>1, OneSavedOK
  <2> QED BY <2>1, <2>2 DEF Numbers
<1> QED BY <1>1, <1>2, <1>5, <1>6

\* A save of the accounts during which power is lost leaves numbers, which fit
\* each other if none of its writes failed: the count is never behind the
\* active account.
LEMMA InterruptedOK ==
    ASSUME plain \in Numbers, lost \in BOOLEAN, ~lost => Fits(plain),
           NEW c \in 1 .. MaxAccounts, NEW a \in 0 .. MaxAccounts - 1, a < c,
           ~lost => plain.active < c,
           NEW fails \in BOOLEAN, plain' \in Interrupted(c, a, fails)
    PROVE  plain' \in Numbers /\ (~lost /\ ~fails => Fits(plain'))
<1>1. CASE plain' = plain
  BY <1>1
<1>2. CASE plain' # plain
  <2>1. PICK p \in OneSaved(plain, "count", c, fails) :
           plain' \in CutShort(p) \cup CutShort([p EXCEPT !.active = a])
    BY <1>2 DEF Interrupted
  <2>2. c \in 0 .. MaxAccounts
    BY LockAssumption
  <2>3. p \in Numbers
    BY <2>1, <2>2, OneSavedOK
  <2>4. [p EXCEPT !.active = a] \in Numbers
    BY <2>3 DEF Numbers
  <2>5. plain' \in Numbers
    BY <2>1, <2>3, <2>4, CutOK
  <2>6. ASSUME ~lost, ~fails
        PROVE  Fits(plain')
    <3>1. p = [plain EXCEPT !.count = c]
      BY <2>1, <2>2, <2>6, OneSavedOK
    <3>2. p.count = c /\ p.active = plain.active /\ c # 0
      BY <3>1, LockAssumption DEF Numbers
    <3>3. Fits(p)
      BY <2>6, <3>2 DEF Fits
    <3>4. Fits([p EXCEPT !.active = a])
      BY <2>3, <3>2 DEF Fits, Numbers
    <3> QED BY <2>1, <2>3, <2>4, <2>6, <3>3, <3>4, CutOK
  <2> QED BY <2>5, <2>6
<1> QED BY <1>1, <1>2

\* The steps that leave the disk and the PIN entry alone.
LEMMA QuietStep ==
    ASSUME IInv, OpenWallet \/ OpenLock \/ LeaveScreen
                 \/ (\E phrase \in Phrases : PhraseEntered(phrase)) \/ AskPin \/ CancelPin
    PROVE  IInv'
<1> USE DEF IInv, TypeOK, PromptOK, AccountsOK, DevSeedOnlyWithoutStore,
            SignerIsSession, VerifiedIsSaved, ProfilesAgree, ActiveAccountExists,
            InProfiles, diskVars, lockVars, profilesVars
<1>1. CASE OpenWallet
  <2>1. [seed |-> Dev, account |-> 0] \in Signers
    BY LockAssumption DEF Signers
  <2> QED BY <1>1, <2>1, LockAssumption, FileAssumption DEF OpenWallet, StoreExists, Screens
<1>2. CASE OpenLock
  BY <1>2 DEF OpenLock, Screens, Phases
<1>3. CASE LeaveScreen
  <2>1. TypeOK'
    BY <1>3 DEF LeaveScreen, Screens
  <2>2. PromptOK'
    BY <1>3, LockAssumption DEF LeaveScreen, Screens, Prompts
  <2>3. AccountsOK'
    BY <1>3 DEF LeaveScreen, Screens
  <2>4. DevSeedOnlyWithoutStore' /\ SignerIsSession'
    BY <1>3 DEF LeaveScreen, Screens
  <2>5. VerifiedIsSaved'
    BY <1>3 DEF LeaveScreen, Screens
  <2>6. ProfilesAgree' /\ ActiveAccountExists'
    BY <1>3 DEF LeaveScreen, Screens
  <2> QED BY <2>1, <2>2, <2>3, <2>4, <2>5, <2>6 DEF IInv
<1>4. CASE \E phrase \in Phrases : PhraseEntered(phrase)
  BY <1>4, LockAssumption DEF PhraseEntered, Screens, Prompts
<1>5. CASE AskPin
  BY <1>5, LockAssumption DEF AskPin, Prompts
<1>6. CASE CancelPin
  BY <1>6, LockAssumption DEF CancelPin, Prompts
<1> QED BY <1>1, <1>2, <1>3, <1>4, <1>5, <1>6

\* A confirmed PIN, for each of the four prompts.
LEMMA PinStep ==
    ASSUME IInv, NEW pin \in Pins, ConfirmPin(pin)
    PROVE  IInv'
<1> USE DEF IInv, TypeOK, PromptOK, AccountsOK, DevSeedOnlyWithoutStore,
            SignerIsSession, VerifiedIsSaved, ProfilesAgree, ActiveAccountExists,
            InProfiles, diskVars, lockVars, profilesVars
<1>1. \A phrase \in Phrases : [seed |-> phrase, account |-> 0] \in Signers
  BY LockAssumption DEF Signers
<1>2. CASE prompt = "unlock" /\ Unlock(pin)
  <2>1. TypeOK'
    BY <1>1, <1>2, LoadedOK, LockAssumption, FileAssumption DEF ConfirmPin, Unlock, Activate
  <2>2. PromptOK'
    BY <1>1, <1>2, LoadedOK, LockAssumption, FileAssumption DEF ConfirmPin, Unlock, Activate, Prompts
  <2>3. AccountsOK'
    BY <1>1, <1>2, LoadedOK, LockAssumption, FileAssumption DEF ConfirmPin, Unlock, Activate
  <2>4. DevSeedOnlyWithoutStore' /\ SignerIsSession'
    BY <1>1, <1>2, LoadedOK, LockAssumption, FileAssumption DEF ConfirmPin, Unlock, Activate
  <2>5. VerifiedIsSaved'
    BY <1>1, <1>2, LoadedOK, LockAssumption, FileAssumption DEF ConfirmPin, Unlock, Activate
  <2>6. ProfilesAgree' /\ ActiveAccountExists'
    BY <1>1, <1>2, LoadedOK, LockAssumption, FileAssumption DEF ConfirmPin, Unlock, Activate
  <2> QED BY <2>1, <2>2, <2>3, <2>4, <2>5, <2>6 DEF IInv
<1>3. CASE prompt = "old" /\ VerifyOld(pin)
  <2>1. TypeOK'
    BY <1>3, LoadedOK, LockAssumption DEF ConfirmPin, VerifyOld, Phases
  <2>2. PromptOK'
    BY <1>3, LoadedOK, LockAssumption DEF ConfirmPin, VerifyOld, Phases, Prompts
  <2>3. AccountsOK'
    BY <1>3, LoadedOK, LockAssumption DEF ConfirmPin, VerifyOld, Phases
  <2>4. DevSeedOnlyWithoutStore' /\ SignerIsSession'
    BY <1>3, LoadedOK, LockAssumption DEF ConfirmPin, VerifyOld, Phases
  <2>5. VerifiedIsSaved'
    BY <1>3, LoadedOK, LockAssumption DEF ConfirmPin, VerifyOld, Phases
  <2>6. ProfilesAgree' /\ ActiveAccountExists'
    BY <1>3, LoadedOK, LockAssumption DEF ConfirmPin, VerifyOld, Phases
  <2> QED BY <2>1, <2>2, <2>3, <2>4, <2>5, <2>6 DEF IInv
<1>4. CASE prompt = "new" /\ ChangePin(pin)
  <2>1. verified \in Phrases /\ file # NOTHING
    BY <1>4, FileAssumption, LockAssumption DEF Saved
  <2>2. file' \in Saved \cup {NOTHING, CORRUPT} /\ file' # NOTHING
    BY <1>4, <2>1, SaveOK DEF ChangePin
  <2>3. TypeOK'
    BY <1>4, <2>1, <2>2, LockAssumption DEF ConfirmPin, ChangePin, Phases
  <2>4. PromptOK'
    BY <1>4, <2>1, <2>2, LockAssumption DEF ConfirmPin, ChangePin, Phases, Prompts
  <2>5. AccountsOK'
    BY <1>4, <2>1, <2>2, LockAssumption DEF ConfirmPin, ChangePin, Phases
  <2>6. DevSeedOnlyWithoutStore' /\ SignerIsSession'
    BY <1>4, <2>1, <2>2, LockAssumption DEF ConfirmPin, ChangePin, Phases
  <2>7. VerifiedIsSaved'
    BY <1>4, <2>1, <2>2, LockAssumption DEF ConfirmPin, ChangePin, Phases
  <2>8. ProfilesAgree' /\ ActiveAccountExists'
    BY <1>4, <2>1, <2>2, LockAssumption DEF ConfirmPin, ChangePin, Phases
  <2> QED BY <2>3, <2>4, <2>5, <2>6, <2>7, <2>8 DEF IInv
<1>5. CASE prompt = "set" /\ FinishImport(pin)
  <2>1. typed \in Phrases /\ screen = "import"
    BY <1>5
  <2>2. file' \in Saved \cup {NOTHING, CORRUPT}
    BY <1>5, <2>1, SaveOK DEF FinishImport
  <2>3. TypeOK'
    BY <1>1, <1>5, <2>1, <2>2, LockAssumption, FileAssumption DEF ConfirmPin, FinishImport, Activate
  <2>4. PromptOK'
    BY <1>1, <1>5, <2>1, <2>2, LockAssumption, FileAssumption DEF ConfirmPin, FinishImport, Activate, Prompts
  <2>5. AccountsOK'
    BY <1>1, <1>5, <2>1, <2>2, LockAssumption, FileAssumption DEF ConfirmPin, FinishImport, Activate
  <2>6. DevSeedOnlyWithoutStore' /\ SignerIsSession'
    BY <1>1, <1>5, <2>1, <2>2, LockAssumption, FileAssumption DEF ConfirmPin, FinishImport, Activate
  <2>7. VerifiedIsSaved'
    BY <1>1, <1>5, <2>1, <2>2, LockAssumption, FileAssumption DEF ConfirmPin, FinishImport, Activate
  <2>8. ProfilesAgree' /\ ActiveAccountExists'
    BY <1>1, <1>5, <2>1, <2>2, LockAssumption, FileAssumption DEF ConfirmPin, FinishImport, Activate
  <2> QED BY <2>3, <2>4, <2>5, <2>6, <2>7, <2>8 DEF IInv
<1> QED BY <1>2, <1>3, <1>4, <1>5 DEF ConfirmPin

\* The accounts of the session phrase.
LEMMA AccountStep ==
    ASSUME IInv, \/ OpenProfiles \/ StartAdding
                 \/ \E i \in 0 .. MaxAccounts - 1 : ChooseAccount(i)
                 \/ \E empty \in BOOLEAN : FinishAdding(empty)
                 \/ SettingLost
    PROVE  IInv'
<1> USE DEF IInv, TypeOK, PromptOK, AccountsOK, DevSeedOnlyWithoutStore,
            SignerIsSession, VerifiedIsSaved, ProfilesAgree, ActiveAccountExists,
            InProfiles, diskVars, lockVars, profilesVars
<1>1. \A phrase \in Phrases, i \in 0 .. MaxAccounts - 1 :
         [seed |-> phrase, account |-> i] \in Signers
  BY LockAssumption DEF Signers
<1>2. plain.count \in 0 .. MaxAccounts /\ plain.active \in 0 .. MaxAccounts - 1
  OBVIOUS
<1>3. CASE OpenProfiles
  <2>1. signer' \in Signers \cup {NOTHING}
    BY <1>1, <1>2, <1>3 DEF OpenProfiles, SwitchAccount
  <2>2. count' \in 0 .. MaxAccounts /\ active' \in 0 .. MaxAccounts - 1
    BY <1>2, <1>3, LockAssumption DEF OpenProfiles
  <2>3. TypeOK'
    BY <1>3, <2>1, <2>2 DEF OpenProfiles, Screens
  <2>4. PromptOK' /\ AccountsOK'
    BY <1>1, <1>2, <1>3, LockAssumption, FileAssumption DEF OpenProfiles, SwitchAccount, Screens
  <2>5. DevSeedOnlyWithoutStore' /\ SignerIsSession'
    BY <1>1, <1>2, <1>3, LockAssumption, FileAssumption DEF OpenProfiles, SwitchAccount, Screens
  <2>6. VerifiedIsSaved'
    BY <1>1, <1>2, <1>3, LockAssumption, FileAssumption DEF OpenProfiles, SwitchAccount, Screens
  <2>7. ProfilesAgree' /\ ActiveAccountExists'
    BY <1>1, <1>2, <1>3, LockAssumption, FileAssumption DEF OpenProfiles, SwitchAccount, Screens
  <2> QED BY <2>3, <2>4, <2>5, <2>6, <2>7 DEF IInv
<1>4. CASE StartAdding
  BY <1>4 DEF StartAdding
<1>5. ASSUME NEW i \in 0 .. MaxAccounts - 1, ChooseAccount(i)
      PROVE  IInv'
  <2>1. SaveAccounts(count, i) /\ i < count /\ count' = count
    BY <1>5 DEF ChooseAccount
  <2>2. /\ plain' \in Numbers /\ lost' \in BOOLEAN
        /\ ~lost' => ~lost /\ plain' = [count |-> count, active |-> i]
    BY <2>1, SavedOK DEF Numbers
  <2>3. TypeOK'
    BY <1>1, <1>5, <2>2 DEF ChooseAccount, SwitchAccount, Numbers
  <2>4. PromptOK' /\ VerifiedIsSaved'
    BY <1>5 DEF ChooseAccount
  <2>5. AccountsOK'
    BY <1>5, <2>1, <2>2 DEF ChooseAccount
  <2>6. DevSeedOnlyWithoutStore' /\ SignerIsSession'
    BY <1>1, <1>5, LockAssumption, FileAssumption DEF ChooseAccount, SwitchAccount
  <2>7. ProfilesAgree'
    BY <1>1, <1>5, LockAssumption, FileAssumption DEF ChooseAccount, SwitchAccount
  <2>8. ActiveAccountExists'
    BY <2>1, <2>2
  <2> QED BY <2>3, <2>4, <2>5, <2>6, <2>7, <2>8 DEF IInv
<1>6. ASSUME NEW empty \in BOOLEAN, FinishAdding(empty)
      PROVE  IInv'
  <2>1. CASE empty
    BY <1>6, <2>1 DEF FinishAdding
  <2>2. CASE ~empty
    <3>1. count \in 0 .. MaxAccounts - 1 /\ count + 1 \in 1 .. MaxAccounts
      BY <1>6, LockAssumption DEF FinishAdding
    <3>2. /\ plain' \in [count : 0 .. MaxAccounts, active : 0 .. MaxAccounts - 1]
          /\ lost' \in BOOLEAN
          /\ ~lost' => ~lost /\ plain' = [count |-> count + 1, active |-> count]
      <4>1. SaveAccounts(count + 1, count) /\ count + 1 \in 0 .. MaxAccounts
        BY <1>6, <2>2, <3>1 DEF FinishAdding
      <4> QED BY <3>1, <4>1, SavedOK DEF Numbers
    <3>3. signer' \in Signers
      BY <1>1, <1>6, <2>2, <3>1 DEF FinishAdding, SwitchAccount
    <3>4. count' \in 0 .. MaxAccounts /\ active' \in 0 .. MaxAccounts - 1
      BY <1>6, <2>2, <3>1, LockAssumption DEF FinishAdding
    <3>5. TypeOK'
      BY <1>6, <2>2, <3>2, <3>3, <3>4 DEF FinishAdding
    <3>6. PromptOK' /\ AccountsOK'
      BY <1>1, <1>6, <2>2, <3>1, <3>2, LockAssumption, FileAssumption DEF FinishAdding, SwitchAccount
    <3>7. DevSeedOnlyWithoutStore' /\ SignerIsSession'
      BY <1>1, <1>6, <2>2, <3>1, <3>2, LockAssumption, FileAssumption DEF FinishAdding, SwitchAccount
    <3>8. VerifiedIsSaved'
      BY <1>1, <1>6, <2>2, <3>1, <3>2, LockAssumption, FileAssumption DEF FinishAdding, SwitchAccount
    <3>9. ProfilesAgree' /\ ActiveAccountExists'
      BY <1>1, <1>6, <2>2, <3>1, <3>2, LockAssumption, FileAssumption DEF FinishAdding, SwitchAccount
    <3> QED BY <3>5, <3>6, <3>7, <3>8, <3>9 DEF IInv
  <2> QED BY <2>1, <2>2
<1>7. CASE SettingLost
  <2>1. plain \in Numbers /\ plain' \in CutShort(plain) /\ lost' = TRUE
    BY <1>7 DEF SettingLost, Numbers
  <2>2. plain' \in Numbers
    BY <2>1, CutOK
  <2>3. screen' = "idle"
    BY <1>7 DEF SettingLost
  <2> QED BY <1>7, <2>1, <2>2, <2>3 DEF SettingLost, Numbers
<1> QED BY <1>3, <1>4, <1>5, <1>6, <1>7

\* Restarts, between two operations and inside a save.
LEMMA RestartStep ==
    ASSUME IInv, Reboot \/ (\E pin \in Pins : CrashInSave(pin)) \/ CrashInAccounts
    PROVE  IInv'
<1> USE DEF IInv, TypeOK, PromptOK, AccountsOK, DevSeedOnlyWithoutStore,
            SignerIsSession, VerifiedIsSaved, ProfilesAgree, ActiveAccountExists,
            InProfiles
<1>1. ASSUME Booted, file' \in Saved \cup {NOTHING, CORRUPT},
             plain' \in [count : 0 .. MaxAccounts, active : 0 .. MaxAccounts - 1],
             lost' \in BOOLEAN, ActiveAccountExists'
      PROVE  IInv'
  <2>1. 0 \in 0 .. MaxAccounts /\ 0 \in 0 .. MaxAccounts - 1
    BY LockAssumption
  <2>2. TypeOK'
    BY <1>1, <2>1 DEF Booted, Screens, Phases
  <2>3. PromptOK'
    BY <1>1, LockAssumption, FileAssumption DEF Booted, Screens, Phases, Prompts
  <2>4. AccountsOK'
    BY <1>1, LockAssumption, FileAssumption DEF Booted, Screens, Phases
  <2>5. DevSeedOnlyWithoutStore' /\ SignerIsSession'
    BY <1>1, LockAssumption, FileAssumption DEF Booted, Screens, Phases
  <2>6. VerifiedIsSaved'
    BY <1>1, LockAssumption, FileAssumption DEF Booted, Screens, Phases
  <2>7. ProfilesAgree' /\ ActiveAccountExists'
    BY <1>1, LockAssumption, FileAssumption DEF Booted, Screens, Phases
  <2> QED BY <2>2, <2>3, <2>4, <2>5, <2>6, <2>7 DEF IInv
<1>2. CASE Reboot
  <2>1. plain \in Numbers /\ (~lost => Fits(plain)) /\ plain \in CutShort(plain)
    BY DEF Numbers, Fits, CutShort
  <2>2. plain' \in CutShort(plain) /\ lost' = lost
    BY <1>2, <2>1 DEF Reboot
  <2>3. plain' \in Numbers /\ (~lost => Fits(plain'))
    BY <2>1, <2>2, CutOK
  <2>4. ActiveAccountExists' /\ plain' \in [count : 0 .. MaxAccounts, active : 0 .. MaxAccounts - 1]
    BY <2>2, <2>3 DEF Fits, Numbers
  <2> QED BY <1>1, <1>2, <2>2, <2>4 DEF Reboot
<1>3. ASSUME NEW pin \in Pins, CrashInSave(pin)
      PROVE  IInv'
  <2>1. \A phrase \in Phrases : [phrase |-> phrase, pin |-> pin] \in Saved
    BY DEF Saved
  <2>2. /\ prompt = "new" => verified \in Phrases
        /\ prompt = "set" => typed \in Phrases
    BY LockAssumption DEF Saved
  <2>3. file' \in Saved \cup {NOTHING, CORRUPT}
    BY <1>3, <2>1, <2>2 DEF CrashInSave
  <2> QED BY <1>1, <1>3, <2>3 DEF CrashInSave
<1>4. CASE CrashInAccounts
  <2>1. plain.count \in 0 .. MaxAccounts /\ plain.active \in 0 .. MaxAccounts - 1
    OBVIOUS
  <2>2. PICK fails \in MayFail :
           /\ \/ ~adding /\ \E i \in 0 .. count - 1 : plain' \in Interrupted(count, i, fails)
              \/ adding /\ plain' \in Interrupted(count + 1, count, fails)
           /\ lost' = (lost \/ fails)
    BY <1>4 DEF CrashInAccounts
  <2>3. /\ count \in 1 .. MaxAccounts /\ (~lost => plain.active < count)
        /\ fails \in BOOLEAN /\ plain \in Numbers /\ (~lost => Fits(plain))
    <3>1. plain \in Numbers /\ (~lost => Fits(plain)) /\ fails \in BOOLEAN
      BY DEF Numbers, Fits, MayFail
    <3>2. count \in 0 .. MaxAccounts /\ count > 0 /\ MaxAccounts \in Nat
      BY <1>4, LockAssumption DEF CrashInAccounts
    <3>3. ~lost => count = (IF plain.count = 0 THEN 1 ELSE plain.count)
      BY <1>4 DEF CrashInAccounts
    <3>4. ~lost => plain.active < count
      BY <3>1, <3>3 DEF Fits
    <3> QED BY ONLY <3>1, <3>2, <3>4
  <2>4. plain' \in Numbers /\ (~lost /\ ~fails => Fits(plain'))
    <3>1. CASE ~adding
      <4>1. PICK i \in 0 .. count - 1 : plain' \in Interrupted(count, i, fails)
        BY <2>2, <3>1
      <4>2. i \in 0 .. MaxAccounts - 1 /\ i < count
        BY <2>3, LockAssumption
      <4> QED BY <2>3, <4>1, <4>2, InterruptedOK
    <3>2. CASE adding
      <4>1. /\ count + 1 \in 1 .. MaxAccounts /\ count \in 0 .. MaxAccounts - 1
            /\ (~lost => plain.active < count + 1) /\ count < count + 1
        BY <1>4, <2>1, <2>3, <3>2, LockAssumption DEF CrashInAccounts
      <4>2. plain' \in Interrupted(count + 1, count, fails)
        BY <2>2, <3>2
      <4> QED BY <2>3, <4>1, <4>2, InterruptedOK
    <3> QED BY <3>1, <3>2
  <2>5. ActiveAccountExists' /\ lost' \in BOOLEAN
        /\ plain' \in [count : 0 .. MaxAccounts, active : 0 .. MaxAccounts - 1]
    BY <2>2, <2>3, <2>4 DEF Fits, Numbers
  <2> QED BY <1>1, <1>4, <2>5 DEF CrashInAccounts
<1> QED BY <1>2, <1>3, <1>4

\* The invariant holds in every state.
LEMMA Invariance == LockSpec => []IInv
<1>1. IInv /\ [LockNext]_allLockVars => IInv'
  <2> SUFFICES ASSUME IInv, [LockNext]_allLockVars PROVE IInv'
    OBVIOUS
  <2>1. CASE UNCHANGED allLockVars
    BY <2>1 DEF allLockVars, lockVars, profilesVars, IInv, TypeOK, PromptOK, AccountsOK,
                DevSeedOnlyWithoutStore, SignerIsSession, VerifiedIsSaved,
                ProfilesAgree, ActiveAccountExists, InProfiles, diskVars
  <2>2. CASE LockNext
    BY <2>2, QuietStep, PinStep, AccountStep, RestartStep DEF LockNext, Step
  <2> QED BY <2>1, <2>2
<1> QED BY <1>1, InitOK, PTL DEF LockSpec

\* Types and the bounds of the profiles' arrays, across restarts.
THEOREM TypeCorrect == LockSpec => []TypeOK
<1>1. IInv => TypeOK
  BY DEF IInv
<1> QED BY <1>1, Invariance, PTL

\* The development seed never signs when a phrase is on disk, readable or not.
THEOREM NoDevSeed == LockSpec => []DevSeedOnlyWithoutStore
<1>1. IInv => DevSeedOnlyWithoutStore
  BY DEF IInv
<1> QED BY <1>1, Invariance, PTL

\* The accounts a user is shown are derived from the phrase that signs.
THEOREM OneSeed == LockSpec => []SignerIsSession
<1>1. IInv => SignerIsSession
  BY DEF IInv
<1> QED BY <1>1, Invariance, PTL

\* A PIN change encrypts the phrase that is on disk.
THEOREM PinChangeKeepsPhrase == LockSpec => []VerifiedIsSaved
<1>1. IInv => VerifiedIsSaved
  BY DEF IInv
<1> QED BY <1>1, Invariance, PTL

\* The marked account signs.
THEOREM MarkedAccountSigns == LockSpec => []ProfilesAgree
<1>1. IInv => ProfilesAgree
  BY DEF IInv
<1> QED BY <1>1, Invariance, PTL

\* The saved active account exists, wherever power was lost, until a save of
\* the settings' file fails.
THEOREM ActiveExists == LockSpec => []ActiveAccountExists
<1>1. IInv => ActiveAccountExists
  BY DEF IInv
<1> QED BY <1>1, Invariance, PTL

\* The page that says so is reached by a save alone, and every step that
\* touches the file, the phrase or the PIN leaves that page.
LEMMA DoneStep ==
    ASSUME IInv, DoneMeansChanged, [LockNext]_allLockVars
    PROVE  DoneMeansChanged'
<1> USE DEF DoneMeansChanged
<1>1. CASE UNCHANGED allLockVars
  BY <1>1 DEF allLockVars, diskVars, lockVars
<1>2. CASE OpenWallet \/ (\E phrase \in Phrases : PhraseEntered(phrase)) \/ LeaveScreen
              \/ OpenProfiles \/ OpenLock
  BY <1>2 DEF OpenWallet, PhraseEntered, LeaveScreen, OpenProfiles, OpenLock
<1>3. CASE (AskPin \/ CancelPin) /\ UNCHANGED faults
  BY <1>3 DEF AskPin, CancelPin, diskVars, lockVars
<1>4. CASE (StartAdding \/ (\E i \in 0 .. MaxAccounts - 1 : ChooseAccount(i))
              \/ (\E empty \in BOOLEAN : FinishAdding(empty)) \/ SettingLost)
  BY <1>4 DEF StartAdding, ChooseAccount, FinishAdding, SettingLost, InProfiles
<1>5. CASE Reboot \/ (\E pin \in Pins : CrashInSave(pin)) \/ CrashInAccounts
  BY <1>5 DEF Reboot, CrashInSave, CrashInAccounts, Booted
<1>6. ASSUME NEW pin \in Pins, ConfirmPin(pin), UNCHANGED faults
      PROVE  DoneMeansChanged'
  <2>1. CASE prompt = "unlock" /\ Unlock(pin)
    BY <2>1 DEF Unlock, IInv, PromptOK
  <2>2. CASE prompt = "old" /\ VerifyOld(pin)
    BY <2>2 DEF VerifyOld
  <2>3. CASE prompt = "new" /\ ChangePin(pin)
    <3>1. /\ SaveSigner(verified, pin)
          /\ newPin' = pin /\ verified' = verified
      BY <2>3 DEF ChangePin
    <3> QED BY <1>6, <3>1 DEF SaveSigner
  <2>4. CASE prompt = "set" /\ FinishImport(pin)
    BY <2>4 DEF FinishImport, IInv, PromptOK
  <2> QED BY <1>6, <2>1, <2>2, <2>3, <2>4 DEF ConfirmPin
<1> QED BY <1>1, <1>2, <1>3, <1>4, <1>5, <1>6 DEF LockNext, Step

\* "PIN changed successfully" is true of every phrase and PIN, unless a save
\* fails.
THEOREM DoneIsTrue == LockSpec => []DoneMeansChanged
<1>1. LockInit => DoneMeansChanged
  BY DEF LockInit, DoneMeansChanged
<1>2. IInv /\ DoneMeansChanged /\ [LockNext]_allLockVars => DoneMeansChanged'
  BY DoneStep
<1> QED BY <1>1, <1>2, Invariance, PTL DEF LockSpec
=============================================================================
