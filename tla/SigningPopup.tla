--------------------------- MODULE SigningPopup ---------------------------
(***************************************************************************)
(* What the explorer, the messenger and the beacon wallet share: they are  *)
(* opened from the home grid one at a time, ask with the one confirmation  *)
(* popup of tezos_popup.c on top of their only screen, and sign with the   *)
(* wallet's signer when it is resumed with CONFIRMED.                      *)
(***************************************************************************)
EXTENDS Naturals, Sequences, FiniteSets

CONSTANTS
    MaxSigned,      \* bound: operations signed, by the app that signs
    MaxApps,        \* bound: different apps opened
    NONE

\* What may be open; the camera hands over to the beacon wallet.
SigningApps == {"explorer", "messenger", "beacon"}
Apps == SigningApps \cup {"camera", "gallery", "discover", "snake", "wifi"}

ASSUME NoneAssumption == NONE \notin Apps

VARIABLES
    open,       \* the app opened from the home grid, or NONE
    used,       \* history: the apps opened so far
    asked,      \* the operation the popup on top asks about, or NONE
    answer,     \* history: the last answer given to the popup
    signed      \* history: the operations signed

askVars == <<asked, answer, signed>>
popupVars == <<used, askVars>>

\* The app's own screen is on top and takes the keys.
OnTop(app) == open = app /\ asked = NONE

\* An app is opened from the home grid.
Opens(app) ==
    /\ open = NONE /\ open' = app
    /\ used' = used \cup {app} /\ Cardinality(used') <= MaxApps

\* tezos_popup_confirm_get, pushed by handle_input.
Ask(operation) == asked' = operation /\ UNCHANGED <<used, answer, signed>>

\* How the wallet's signer and the network end a perform_*: there is no
\* signer yet, signing fails, the node answers with a hash, or no answer
\* arrives although the operation was sent.
Outcomes == {"no_signer", "sign_failed", "broadcast", "no_answer"}
Signs(outcome) == outcome \in {"broadcast", "no_answer"}

\* SOFTKEY_L in the popup; on_resume then performs the operation.
\* Mutant: what is signed is signed again when the node does not answer.
Accept_Retries(operation, outcome) ==
    /\ asked # NONE /\ asked' = NONE /\ answer' = "accepted" /\ UNCHANGED used
    /\ Signs(outcome) => Len(signed) < MaxSigned[operation.app]
    /\ signed' = signed \o (CASE outcome = "broadcast" -> <<operation>>
                              [] outcome = "no_answer" -> <<operation, operation>>
                              [] OTHER -> <<>>)
Accept(operation, outcome) ==
    /\ asked # NONE /\ asked' = NONE /\ answer' = "accepted" /\ UNCHANGED used
    /\ Signs(outcome) => Len(signed) < MaxSigned[operation.app]
    /\ signed' = IF Signs(outcome) THEN Append(signed, operation) ELSE signed

\* SOFTKEY_L in the popup, when on_resume performs nothing.
AcceptIgnored == asked # NONE /\ asked' = NONE /\ answer' = "accepted" /\ UNCHANGED <<used, signed>>

\* SOFTKEY_R in the popup.
Refuse == asked # NONE /\ asked' = NONE /\ answer' = "refused" /\ UNCHANGED <<used, signed>>

PopupInit == open = NONE /\ used = {} /\ asked = NONE /\ answer = NONE /\ signed = <<>>
=============================================================================
