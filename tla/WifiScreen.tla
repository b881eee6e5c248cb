----------------------------- MODULE WifiScreen -----------------------------
(***************************************************************************)
(* Settings > Wi-Fi (apps/settings/settings.c) and nmcli behind it         *)
(* (chain/tezos_wifi.c).  nmcli prints a line per network, its fields      *)
(* separated by colons and the colons of a field escaped.  A text is a     *)
(* sequence of characters; lines are shorter than their buffers here.      *)
(***************************************************************************)
EXTENDS SigningPopup, SequencesExt

CONSTANTS
    COLON, BACKSLASH,
    OpenSecurity,       \* the text "--"
    Airs,               \* what may be in reach: sequences of [ssid, security]
    MaxNetworks         \* TEZOS_WIFI_MAX_NETWORKS

\* The characters of what is in reach.
CharactersOf(reach) ==
    UNION {Range(reach[i].ssid) \cup Range(reach[i].security) : i \in DOMAIN reach}
NetworksOf(C) == [ssid : Seq(C), security : Seq(C)]

ASSUME AirsAssumption ==
    /\ COLON # BACKSLASH /\ MaxNetworks \in Nat \ {0}
    /\ \A reach \in Airs : reach \in Seq(NetworksOf(CharactersOf(reach)))

VARIABLES
    wifi,               \* st->phase; SCANNING is never seen
    air,                \* what was in reach at the scan
    networks,           \* networks: [ssid, security] as read
    current,            \* current_ssid: the network the radio was on, as read
    wifiRow,                \* list.selected
    attempts            \* history of this visit: [ssid, prompted] of the connections tried
wifiVars == <<wifi, air, networks, current, wifiRow, attempts>>

-----------------------------------------------------------------------------
Special == {COLON, BACKSLASH}

\* nmcli -t: a field with its colons and backslashes escaped, and a line of
\* fields with colons between them.
Piece(c) == IF c \in Special THEN <<BACKSLASH, c>> ELSE <<c>>
Escaped(text) ==
    LET escaped[i \in 0 .. Len(text)] ==
            IF i = 0 THEN <<>> ELSE escaped[i - 1] \o Piece(text[i])
    IN  escaped[Len(text)]
Line(fields) ==
    LET line[i \in 0 .. Len(fields)] ==
            IF i = 0 THEN <<>>
            ELSE line[i - 1] \o (IF i = 1 THEN <<>> ELSE <<COLON>>) \o Escaped(fields[i])
    IN  line[Len(fields)]

\* split_terse_line, at character i of the line: the fields that are done, the
\* one being filled, and whether the character was read with the one before.
Taken(state, line, i) ==
    IF state.skip THEN [state EXCEPT !.skip = FALSE]
    ELSE IF line[i] = BACKSLASH /\ i < Len(line) /\ line[i + 1] \in Special
    THEN [state EXCEPT !.field = Append(@, line[i + 1]), !.skip = TRUE]
    ELSE IF line[i] = COLON
    THEN [state EXCEPT !.done = Append(@, state.field), !.field = <<>>]
    ELSE [state EXCEPT !.field = Append(@, line[i])]

Start == [done |-> <<>>, field |-> <<>>, skip |-> FALSE]
\* Mutant: a colon separates, escaped or not.
Split_Plain(line) ==
    FoldLeft(LAMBDA fields, c :
                IF c = COLON THEN Append(fields, <<>>)
                ELSE [fields EXCEPT ![Len(fields)] = Append(@, c)], <<<<>>>>, line)
Split(line) ==
    LET state[i \in 0 .. Len(line)] ==
            IF i = 0 THEN Start ELSE Taken(state[i - 1], line, i)
    IN  Append(state[Len(line)].done, state[Len(line)].field)

\* tezos_wifi_scan: lines without three fields are skipped, and those beyond
\* the list are not read.
Scanned(reach) ==
    LET fields(i) == Split(Line(<<reach[i].ssid, <<"9">>, reach[i].security>>))
        listed[i \in 0 .. Len(reach)] ==
            IF i = 0 THEN <<>>
            ELSE IF Len(fields(i)) >= 3 /\ Len(listed[i - 1]) < MaxNetworks
            THEN Append(listed[i - 1], [ssid |-> fields(i)[1], security |-> fields(i)[3]])
            ELSE listed[i - 1]
    IN  listed[Len(reach)]

\* tezos_wifi_current_connection: the line that says "yes".
Connected(on) == IF on = NONE THEN <<>> ELSE Split(Line(<<<<"yes">>, on>>))[2]

-----------------------------------------------------------------------------
\* wifi_screen_get; nmcli may be missing, and answer one question only.
OpenWifi(reach, on, answers) ==
    /\ Opens("wifi")
    /\ air' = reach /\ current' = Connected(on)
    /\ networks' = (IF answers THEN Scanned(reach) ELSE <<>>)
    /\ wifi' = (IF networks' = <<>> THEN "no_networks" ELSE "list")
    /\ wifiRow' = 1 /\ attempts' = <<>>
    /\ UNCHANGED askVars

\* tezos_list_handle_input of UP and DOWN.
MoveRow(to) ==
    /\ OnTop("wifi") /\ wifi = "list"
    /\ to \in DOMAIN networks /\ to \in {wifiRow - 1, wifiRow + 1} /\ wifiRow' = to
    /\ UNCHANGED <<open, popupVars, wifi, air, networks, current, attempts>>

\* tezos_wifi_connect, with "" or with the text that was asked for; the user
\* waits for it and its result is only shown.
Connects(prompted) ==
    /\ attempts' = Append(attempts, [ssid |-> networks[wifiRow].ssid, prompted |-> prompted])
    /\ wifi' = "result"

\* SOFTKEY_L in the list.
ChooseNetwork ==
    /\ OnTop("wifi") /\ wifi = "list"
    /\ IF networks[wifiRow].security = OpenSecurity THEN Connects(FALSE)
       ELSE wifi' = "password" /\ UNCHANGED attempts
    /\ UNCHANGED <<open, popupVars, air, networks, current, wifiRow>>

\* SOFTKEY_L after the password was typed.
EnterPassword ==
    /\ OnTop("wifi") /\ wifi = "password" /\ Connects(TRUE)
    /\ UNCHANGED <<open, popupVars, air, networks, current, wifiRow>>

\* SOFTKEY_R, in every phase: the screen is left.
LeaveWifi == OnTop("wifi") /\ open' = NONE /\ UNCHANGED <<popupVars, wifiVars>>

WifiInit ==
    /\ wifi = "list" /\ air = <<>> /\ networks = <<>> /\ current = <<>>
    /\ wifiRow = 1 /\ attempts = <<>>

WifiNext ==
    \/ ChooseNetwork \/ EnterPassword \/ LeaveWifi
    \/ \E reach \in Airs, answers \in BOOLEAN :
          \E on \in {reach[i].ssid : i \in DOMAIN reach} \cup {NONE} :
              OpenWifi(reach, on, answers)
    \/ \E to \in 1 .. MaxNetworks : MoveRow(to)

-----------------------------------------------------------------------------
\* The device connects to the network that the user chose among those in
\* reach, by its real name, once a visit, and with a password unless that
\* network is open: what the list shows, whatever characters the names hold,
\* is what nmcli knows.
ConnectsToChosen ==
    /\ Len(attempts) <= 1
    /\ \A attempt \in Range(attempts) :
          /\ wifiRow \in DOMAIN air /\ attempt.ssid = air[wifiRow].ssid
          /\ attempt.prompted <=> air[wifiRow].security # OpenSecurity
    /\ open = "wifi" => current \in {<<>>} \cup {air[i].ssid : i \in DOMAIN air}
=============================================================================
