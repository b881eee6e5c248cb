------------------------------ MODULE MCDevice ------------------------------
(***************************************************************************)
(* What the two programs run on.  Of the device: the navigation core under *)
(* the main loop, the way of a drawing to the panel, and the list and page *)
(* widgets every screen is made of, which meet in one call each            *)
(* (present_frame after a render, the widget's render and handle_input).   *)
(* Of the signer: its firmware, MCSignerFirmware.  None shares state with  *)
(* another: a behaviour is one of them at work.                            *)
(***************************************************************************)
EXTENDS AppScreens, Panel, ListView, MCSignerFirmware, TLC

VARIABLE unit       \* which of them this behaviour is about

deviceVars == <<unit, vars, panelVars, listVars, firmwareVars>>

DeviceInit ==
    /\ unit \in {"core", "panel", "lists", "firmware"}
    /\ Init /\ PanelInit /\ ListInit /\ FirmwareInit
    \* What is not at work has one state.
    /\ unit # "panel" => display = CHOOSE d \in Displays : TRUE
    /\ unit # "lists" => height = (CHOOSE h \in Heights : TRUE) /\ pageCount = 1
    /\ unit # "firmware" => task = "session"

CoreStep     == unit = "core" /\ Next /\ UNCHANGED <<unit, panelVars, listVars, firmwareVars>>
PanelStep    == unit = "panel" /\ PanelNext /\ UNCHANGED <<unit, vars, listVars, firmwareVars>>
ListStep     == unit = "lists" /\ ListNext /\ UNCHANGED <<unit, vars, panelVars, firmwareVars>>
FirmwareStep ==
    unit = "firmware" /\ FirmwareNext /\ UNCHANGED <<unit, vars, panelVars, listVars>>

\* The firmware waits for its host, which may have no more to send, and the
\* reader of the generator may have ended; nothing else ever stops.
FirmwareWaits == unit = "firmware" /\ UNCHANGED deviceVars

DeviceNext == CoreStep \/ PanelStep \/ ListStep \/ FirmwareStep \/ FirmwareWaits

DeviceSpec == DeviceInit /\ [][DeviceNext]_deviceVars

\* TezosCore's fairness, as the main loop never stops and its clock moves,
\* and the firmware's.
DeviceFairSpec ==
    /\ DeviceSpec
    /\ WF_deviceVars(CoreStep)
    /\ SF_deviceVars(unit = "core" /\ Poll(1) /\ UNCHANGED <<unit, panelVars, listVars, firmwareVars>>)
    /\ WF_deviceVars(unit = "firmware" /\ RngWorks /\ UNCHANGED <<unit, vars, panelVars, listVars>>)

\* The splash ends by itself and the home screen is at the bottom for good.
BootEnds == unit = "core" => SplashEnds

-----------------------------------------------------------------------------
(* The instance: the program's own screens and its real stack depth; two   *)
(* stub slots instead of sixteen, a splash of two ticks.  A tenth app of   *)
(* the grid has two screens that push and replace each other at will, as   *)
(* no app of the program does: they fill the stack.                        *)
FreeOpens == [free_a |-> {"free_a", "free_b", "stub"}, free_b |-> {"free_a"}]
FreeSwaps == [free_a |-> {"free_b"}, free_b |-> {"free_a"}]

MCScreens  == AppScreen \cup DOMAIN FreeOpens \cup {"boot_splash", "idle"}
MCOpens    == AppOpens @@ FreeOpens
MCSwaps    == AppSwaps @@ FreeSwaps
MCBacks    == AppBacks \cup DOMAIN FreeOpens
MCAppEntry == Append(HomeApps, DOMAIN FreeOpens)

\* A frame of four by three pixels on displays of its own size, twice and a
\* bit more, twice as wide and too small; room for two dirty rectangles,
\* fewer than the popup marks.
MCDisplays   == {<<4, 3>>, <<9, 7>>, <<9, 3>>, <<3, 3>>}
MCRectangles == {[x |-> corner[1], y |-> corner[2], w |-> 2, h |-> 2] :
                    corner \in {<<-1, 1>>, <<1, -1>>, <<3, 2>>}}
MCPopupMarks == <<[x |-> 1, y |-> 1, w |-> 2, h |-> 1], [x |-> 1, y |-> 1, w |-> 1, h |-> 1],
                  [x |-> 1, y |-> 1, w |-> 4, h |-> 1], [x |-> 1, y |-> 1, w |-> 2, h |-> 1]>>
=============================================================================
