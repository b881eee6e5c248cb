------------------------------- MODULE Camera -------------------------------
(***************************************************************************)
(* The camera (apps/camera/camera.c): the scanner of pairing codes, whose  *)
(* result is handed to the beacon wallet, and the capture of pictures,     *)
(* whose settings outlive the visit.                                       *)
(***************************************************************************)
EXTENDS SigningPopup

CONSTANTS
    Resolutions,    \* the number of resolutions, cycled through by DOWN
    Depths          \* the number of colour depths, cycled through by UP

ASSUME CameraAssumption == Resolutions \in Nat \ {0} /\ Depths \in Nat \ {0}

VARIABLES
    cameraPage,     \* the camera's screen on top of its others
    scan,           \* g_scan_state.state
    peer,           \* g_scan_state.peer: what was read of the code, or NONE
    settings,       \* resolution, depth and dither_size
    result          \* the settings of result_preview, or NONE
cameraVars == <<cameraPage, scan, peer, settings, result>>

Dithers == {4, 8}

\* camera_entry_screen.
OpenCamera ==
    /\ open = NONE /\ open' = "camera" /\ cameraPage' = "home"
    /\ UNCHANGED <<popupVars, scan, peer, settings, result>>

\* home_input: the scanner starts over, the capture goes on.  Bound: the two
\* modes count as apps.
EnterMode(mode) ==
    /\ OnTop("camera") /\ cameraPage = "home" /\ cameraPage' = mode
    /\ used' = used \cup {mode} /\ Cardinality(used') <= MaxApps
    /\ IF mode = "scan" THEN scan' = "idle" /\ peer' = NONE ELSE UNCHANGED <<scan, peer>>
    /\ UNCHANGED <<open, askVars, settings, result>>

\* SOFTKEY_L of the scanner, also after a failure: simulate_scan finds a code
\* and reads a peer from it, or one of its steps fails.
Scan(ok) ==
    /\ OnTop("camera") /\ cameraPage = "scan" /\ scan \in {"idle", "failed"}
    /\ scan' = (IF ok THEN "success" ELSE "failed") /\ peer' = (IF ok THEN "peer" ELSE NONE)
    /\ UNCHANGED <<open, popupVars, cameraPage, settings, result>>

\* SOFTKEY_L once a peer is read; what beacon_wallet_screen_from_peer does
\* with it is BeaconWallet's.
HandsOver == OnTop("camera") /\ cameraPage = "scan" /\ scan = "success"

\* UP, DOWN and HASH of capture_input.
ChangeSettings ==
    /\ OnTop("camera") /\ cameraPage = "capture"
    /\ settings' \in {[settings EXCEPT !.resolution = (@ + 1) % Resolutions],
                      [settings EXCEPT !.depth = (@ + 1) % Depths],
                      [settings EXCEPT !.dither = IF @ = 4 THEN 8 ELSE 4]}
    /\ UNCHANGED <<open, popupVars, cameraPage, scan, peer, result>>

\* SOFTKEY_L: perform_capture runs the pipeline on a frame.
Capture ==
    /\ OnTop("camera") /\ cameraPage = "capture" /\ cameraPage' = "result"
    /\ result' = settings
    /\ UNCHANGED <<open, popupVars, scan, peer, settings>>

\* SOFTKEY_R, on every screen of the camera.
CameraBack ==
    /\ OnTop("camera")
    /\ IF cameraPage = "home" THEN open' = NONE /\ UNCHANGED cameraPage
       ELSE cameraPage' = (IF cameraPage = "result" THEN "capture" ELSE "home") /\ UNCHANGED open
    /\ UNCHANGED <<popupVars, scan, peer, settings, result>>

CameraInit ==
    /\ cameraPage = "home" /\ scan = "idle" /\ peer = NONE
    /\ settings = [resolution |-> 0, depth |-> 0, dither |-> 4] /\ result = NONE

CameraNext ==
    \/ OpenCamera \/ ChangeSettings \/ Capture \/ CameraBack
    \/ \E mode \in {"scan", "capture"} : EnterMode(mode)
    \/ \E ok \in BOOLEAN : Scan(ok)
=============================================================================
