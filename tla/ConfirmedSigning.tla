-------------------------- MODULE ConfirmedSigning --------------------------
(***************************************************************************)
(* What a signing flow of the device promises: an operation is shown, and  *)
(* the user accepts or refuses it.  One that is accepted is signed as it   *)
(* was shown, once, or not at all (forging it may fail); one that is       *)
(* refused is not.  "Every operation is decoded and shown before           *)
(* confirmation, never blind-signed" (README.md), by the popup of          *)
(* tezos_popup.c.                                                          *)
(***************************************************************************)
EXTENDS Sequences

CONSTANTS Operations, NOTHING

VARIABLES
    shown,      \* the operation the popup shows, or NOTHING
    answer,     \* the last answer given to a popup, or NOTHING
    signed      \* the operations signed, in order

Init == shown = NOTHING /\ answer = NOTHING /\ signed = <<>>

Show == shown = NOTHING /\ shown' \in Operations /\ UNCHANGED <<answer, signed>>

Refuse ==
    /\ shown # NOTHING
    /\ shown' = NOTHING /\ answer' = "refused" /\ UNCHANGED signed

Accept ==
    /\ shown # NOTHING
    /\ shown' = NOTHING /\ answer' = "accepted"
    /\ signed' \in {signed, Append(signed, shown)}

Next == Show \/ Refuse \/ Accept

Spec == Init /\ [][Next]_<<shown, answer, signed>>
=============================================================================
