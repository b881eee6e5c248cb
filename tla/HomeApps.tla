------------------------------ MODULE HomeApps ------------------------------
(***************************************************************************)
(* The apps of the home grid on one device, without the wallet, which is   *)
(* WalletSend's: one is open at a time.  The explorer, the messenger and   *)
(* the beacon wallet sign with the wallet's signer; the camera hands over  *)
(* to the beacon wallet; the settings' Wi-Fi screen is here, their editors *)
(* are SettingsEditors'.                                                   *)
(***************************************************************************)
EXTENDS ExplorerCall, MessengerSend, BeaconWallet, Gallery, Discover, Snake, WifiScreen

toolVars == <<galleryVars, discoverVars, snakeVars, wifiVars>>
vars == <<open, popupVars, explorerVars, messengerVars, beaconVars, cameraVars, toolVars>>

Init ==
    /\ PopupInit /\ ExplorerInit /\ MessengerInit /\ BeaconInit
    /\ GalleryInit /\ DiscoverInit /\ SnakeInit /\ WifiInit

\* The camera is part of BeaconNext.
OutsideBeacon == UNCHANGED <<beaconVars, cameraVars>>
Explorer  == ExplorerNext /\ UNCHANGED <<messengerVars, toolVars>> /\ OutsideBeacon
Messenger == MessengerNext /\ UNCHANGED <<explorerVars, toolVars>> /\ OutsideBeacon
Beacon    == BeaconNext /\ UNCHANGED <<explorerVars, messengerVars, toolVars>>
Tool ==
    /\ \/ GalleryNext  /\ UNCHANGED <<discoverVars, snakeVars, wifiVars>>
       \/ DiscoverNext /\ UNCHANGED <<galleryVars, snakeVars, wifiVars>>
       \/ SnakeNext    /\ UNCHANGED <<galleryVars, discoverVars, wifiVars>>
       \/ WifiNext     /\ UNCHANGED <<galleryVars, discoverVars, snakeVars>>
    /\ UNCHANGED <<explorerVars, messengerVars>> /\ OutsideBeacon

Next == Explorer \/ Messenger \/ Beacon \/ Tool
Spec == Init /\ [][Next]_vars

-----------------------------------------------------------------------------
Calls == [app : {"explorer"}, to : CallAddresses, entrypoint : Roots,
          leaves : Seq([kind : LeafKinds, text : Texts]), counts : Seq(Nat)]
Sends == [app : {"messenger"}, to : Contracts,
          receiver : Written, subject : Written, content : Written]
Requested == [app : {"beacon"}, kind : Requests, request : Nat, fetch : Nat]

Confirmed == INSTANCE ConfirmedSigning WITH
    Operations <- Calls \cup Sends \cup Requested, NOTHING <- NONE, shown <- asked

\* Nothing is signed that was not shown and accepted, and nothing twice, in
\* any of the apps ("Every operation is decoded and shown before confirmation,
\* never blind-signed", README.md).
SigningIsConfirmed == Confirmed!Spec

\* The viewer of a token shows the picture of that very token, whatever was
\* fetched, decoded and panned before, through a window that lies inside it;
\* its page shows the token's thumbnail or none, or, when there was memory for
\* the full picture only, at least offers that one.
PictureIsOfItem ==
    /\ open = "gallery" /\ galPhase \in {"detail", "viewer"} =>
          ShowsPictureOf(galTokens[galItem].uri, galPicture, galPhase = "viewer")
    /\ open = "discover" /\ discPhase \in {"detail", "viewer"} =>
          ShowsPictureOf(holdings[discItem].uri, discPicture, discPhase = "viewer")

\* The thumbnail on a token's page is that token's ("fetch fresh for whichever
\* token was just selected, not reuse a prior token's image", gallery.c).
ThumbnailIsOfItem ==
    (open = "gallery" /\ galPhase = "detail" /\ ThumbShown(galPicture)) =>
        galPicture.thumb = galTokens[galItem].uri
=============================================================================
