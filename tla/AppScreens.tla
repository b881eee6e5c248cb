---------------------------- MODULE AppScreens ----------------------------
(***************************************************************************)
(* The screens of the program, by their debug_name, and which of them each *)
(* handle_input may push, be replaced by, or leave: the navigation graph   *)
(* that src/apps builds on TezosCore.  The nine entries of the home grid   *)
(* are those the Linux shim's main registers.                              *)
(***************************************************************************)
EXTENDS TezosCore

HomeApps == <<
    {"wallet_pages", "wallet_locked"}, {"explorer"}, {"gallery"}, {"discover"},
    {"messenger"}, {"camera_home"}, {"beacon_wallet"}, {"stub"}, {"settings_home"} >>

WalletOpens ==
    [wallet_locked       |-> {"pin_entry"},
     wallet_pages        |-> {"wallet_contact_name", "wallet_send_amount",
                              "wallet_send_recipient"},
     wallet_send_amount  |-> {"wallet_send_confirm"},
     wallet_send_confirm |-> {"popup_confirm"}]

\* Each field is replaced by the next step of the same form.
WalletSwaps ==
    [wallet_send_recipient |-> {"wallet_send_amount"},
     wallet_contact_name   |-> {"wallet_contact_address"}]

SettingsFields ==
    {"settings_device_name", "settings_rpc_node", "settings_messenger_contract",
     "settings_name_registry_contract", "settings_network", "settings_wifi",
     "settings_profiles"}

SettingsOpens ==
    [settings_home   |-> SettingsFields \cup
                         {"settings_lock", "settings_about", "import_recovery", "stub"},
     settings_lock   |-> {"pin_entry"},
     import_recovery |-> {"pin_entry"},
     settings_about  |-> {"snake"}]

\* Mutant: the paired wallet offers to scan again.
CameraOpens_Rescan ==
    [camera_home             |-> {"camera_scan", "camera_capture_settings"},
     camera_capture_settings |-> {"camera_capture_result"},
     camera_scan             |-> {"beacon_wallet"},
     beacon_wallet           |-> {"camera_scan"}]

CameraOpens ==
    [camera_home             |-> {"camera_scan", "camera_capture_settings"},
     camera_capture_settings |-> {"camera_capture_result"},
     camera_scan             |-> {"beacon_wallet"}]

\* The apps that do all their work on one screen and ask for a confirmation.
ConfirmingApps == {"explorer", "messenger", "beacon_wallet"}
ConfirmOpens   == [s \in ConfirmingApps |-> {"popup_confirm"}]

\* Which screens an app's screen opens, table by table.
AppTables == {WalletOpens, SettingsOpens, CameraOpens, ConfirmOpens}
Listed(s) == {table \in AppTables : s \in DOMAIN table}

AppScreen ==
    {"gallery", "discover"}
      \cup (UNION {DOMAIN table : table \in AppTables})
      \cup (UNION {UNION {table[s] : s \in DOMAIN table} : table \in AppTables})
      \cup (UNION {WalletSwaps[s] : s \in DOMAIN WalletSwaps})

AppOpens == [s \in AppScreen |-> UNION {table[s] : table \in Listed(s)}]
AppSwaps == [s \in AppScreen |-> IF s \in DOMAIN WalletSwaps THEN WalletSwaps[s] ELSE {}]

\* Every screen has a BACK key but the wallet's lock screen.
AppBacks == AppScreen \ {"wallet_locked"}

\* A phrase whose checksum is wrong is entered again without a report, and so
\* is the letter shown that SELECT commits in vain.
AppQuiet == {"import_recovery"}

\* An instance may have more screens than the program's, which may open these.
ASSUME AppsAssumption ==
    /\ AppScreen \subseteq Pushable
    /\ \A s \in AppScreen : Opens[s] = AppOpens[s] /\ Swaps[s] = AppSwaps[s]
    /\ Silent \cap AppScreen = AppQuiet
    /\ MaxDepth >= 5

-----------------------------------------------------------------------------
(* Properties of the program's own screens.                                *)

AppsOnly == \A i \in 2 .. Len(stack) : stack[i] \in AppScreen

\* A static screen has one place on the stack: were it pushed twice, the two
\* would share their state.  And the screens the program has can never fill
\* the stack, so that no PUSH of theirs is refused.
AppsFitStack ==
    AppsOnly =>
        /\ \A i, j \in 1 .. Len(stack) : stack[i] = stack[j] => i = j
        /\ Top # Splash /\ (Top = Idle \/ Opens[Top] # {}) => ~PushRefused
=============================================================================
