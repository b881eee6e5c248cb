--------------------------- MODULE SettingsEditors ---------------------------
(***************************************************************************)
(* The editors of apps/settings/settings.c: four text fields and the       *)
(* network list, each prefilled with the value in use, and the plain file  *)
(* their values share.  The getters of the other apps load the file too.   *)
(* A text is typed as a whole; the T9 module has the keys.                 *)
(***************************************************************************)
EXTENDS PlainStore

CONSTANTS
    TextKeys,       \* device_name, rpc_node, messenger_contract, name_registry_contract
    Optional,       \* those that may be saved empty
    TypedTexts, BLANK, GARBLED,     \* texts, the empty one, and one that lost its end
    DefaultText,    \* the initializers of the globals
    Networks        \* 0 .. 2, the first one the default

SettingKeys  == TextKeys \cup {"network"}
SettingTexts == TypedTexts \cup {BLANK}

ASSUME SettingsAssumption ==
    /\ Optional \subseteq TextKeys /\ "network" \notin TextKeys
    /\ DefaultText \in [TextKeys -> SettingTexts]
    /\ 0 \in Networks /\ Networks \subseteq Nat
    /\ ABSENT \notin SettingKeys \cup SettingTexts \cup Nat

Default == [k \in SettingKeys |-> IF k = "network" THEN 0 ELSE DefaultText[k]]

VARIABLES
    settingsFile,   \* the lines of the file
    live,           \* the globals
    loaded,         \* g_settings_loaded
    editing,        \* the editor on top, ABSENT in the list of settings
    editText        \* its text or its row; opening prefills it
settingsVars == <<settingsFile, live, loaded, editing, editText>>

\* ensure_settings_loaded.  A text that is no number is 0 for atoi; a number
\* out of range, and a key without a line, leave the global alone.
Loaded(lines) ==
    [k \in SettingKeys |->
        IF Load(lines, k) = ABSENT THEN Default[k]
        ELSE IF k = "network" /\ Load(lines, k) \notin Networks THEN 0
        ELSE Load(lines, k)]

\* settings_entry_screen, or the first getter an app calls.
LoadSettings ==
    /\ ~loaded /\ loaded' = TRUE /\ live' = Loaded(settingsFile)
    /\ UNCHANGED <<settingsFile, editing, editText>>

\* SOFTKEY_L in the list of settings.
OpenEditor(key) ==
    /\ loaded /\ editing = ABSENT
    /\ editing' = key /\ editText' = live[key]
    /\ UNCHANGED <<settingsFile, live, loaded>>

Edit(text) ==
    /\ editing # ABSENT
    /\ text \in IF editing = "network" THEN Networks ELSE SettingTexts
    /\ editText' = text
    /\ UNCHANGED <<settingsFile, live, loaded, editing>>

\* SAVE: nothing happens for an empty name or node; a save that fails is not
\* noticed and the value is used until the program ends.
Saves == editText # BLANK \/ editing \in Optional
\* Mutant: the value in use is the one saved, the file gets the one before.
SaveEdit_Late(written) ==
    /\ editing # ABSENT /\ editing' = ABSENT /\ (steady => written)
    /\ IF Saves
       THEN /\ live' = [live EXCEPT ![editing] = editText]
            /\ settingsFile' = IF written THEN Save(settingsFile, editing, live[editing])
                               ELSE settingsFile
       ELSE UNCHANGED <<live, settingsFile>>
    /\ editText' = BLANK /\ UNCHANGED loaded
SaveEdit(written) ==
    /\ editing # ABSENT /\ editing' = ABSENT /\ (steady => written)
    /\ IF Saves
       THEN /\ live' = [live EXCEPT ![editing] = editText]
            /\ settingsFile' = IF written THEN Save(settingsFile, editing, editText)
                               ELSE settingsFile
       ELSE UNCHANGED <<live, settingsFile>>
    /\ editText' = BLANK /\ UNCHANGED loaded

CancelEdit ==
    /\ editing # ABSENT /\ editing' = ABSENT
    /\ editText' = BLANK /\ UNCHANGED <<settingsFile, live, loaded>>

\* A text that lost its end, and the rest of another line where the "=" was.
CutSettings(lines) == [n \in DOMAIN lines |-> {BLANK, GARBLED}]

\* The program ends; or the power goes, perhaps while SAVE writes the file.
Restart ==
    /\ loaded' = FALSE /\ live' = Default /\ editing' = ABSENT
    /\ editText' = BLANK
    /\ \/ UNCHANGED settingsFile
       \/ /\ ~steady /\ editing # ABSENT /\ Saves
          /\ settingsFile' \in LET lines == Save(settingsFile, editing, editText)
                              IN  Torn(lines, CutSettings(lines))

SettingsInit ==
    /\ settingsFile = <<>> /\ live = Default /\ loaded = FALSE
    /\ editing = ABSENT /\ editText = BLANK

SettingsNext ==
    \/ LoadSettings \/ CancelEdit \/ Restart
    \/ \E key \in SettingKeys : OpenEditor(key)
    \/ \E text \in SettingTexts \cup Networks : Edit(text)
    \/ \E written \in BOOLEAN : SaveEdit(written)

SettingsSpec ==
    SettingsInit /\ steady \in BOOLEAN
        /\ [][SettingsNext /\ UNCHANGED steady]_<<settingsVars, steady>>

-----------------------------------------------------------------------------
\* What the program uses, or the next one will.
InUse == IF loaded THEN live ELSE Loaded(settingsFile)

Promised == INSTANCE Settings WITH
    Keys <- SettingKeys, Values <- SettingTexts \cup Networks,
    Defaults <- Default, value <- InUse

\* While no save fails, Settings are what was saved last, each of them, across
\* editors, cancellations and restarts.
IsSettings == Promised!Spec
=============================================================================
