------------------------------- MODULE Gallery -------------------------------
(***************************************************************************)
(* The tokens of the active account and their pictures (apps/gallery).     *)
(* The row is any row of the list: moving over it is ListView's.           *)
(***************************************************************************)
EXTENDS Pictures

VARIABLES galPhase, galTokens, galOk, galItem, galPicture
    \* phase, tokens, fetch_ok, selected_detail (0 before the first), the picture
galleryVars == <<galPhase, galTokens, galOk, galItem, galPicture>>

\* gallery_entry_screen and perform_fetch: there may be no active address.
OpenGallery(reply) ==
    /\ Opens("gallery")
    /\ galPhase' = "list" /\ galItem' = 0 /\ galPicture' = NoPicture
    /\ galOk' = (reply # FAILED)
    /\ galTokens' = IF reply = FAILED THEN <<>> ELSE OwnedTokens(reply, MaxTokens)
    /\ UNCHANGED askVars

\* SOFTKEY_L on a row of the list.
OpenToken(row) ==
    /\ OnTop("gallery") /\ galPhase = "list" /\ galOk /\ row \in DOMAIN galTokens
    /\ galItem' = row /\ galPhase' = "detail"
    /\ galPicture' \in Fetches(galPicture, galTokens[row].uri)
    /\ UNCHANGED <<open, popupVars, galTokens, galOk>>

ViewToken ==
    /\ OnTop("gallery") /\ galPhase = "detail" /\ Viewable(galPicture)
    /\ galPhase' = "viewer"
    /\ UNCHANGED <<open, popupVars, galTokens, galOk, galItem, galPicture>>

PanToken(key) ==
    /\ OnTop("gallery") /\ galPhase = "viewer" /\ galPicture' = Panned(galPicture, key)
    /\ UNCHANGED <<open, popupVars, galPhase, galTokens, galOk, galItem>>

\* SOFTKEY_R.
GalleryBack ==
    /\ OnTop("gallery")
    /\ IF galPhase = "list" THEN open' = NONE /\ UNCHANGED galPhase
       ELSE galPhase' = (IF galPhase = "viewer" THEN "detail" ELSE "list") /\ UNCHANGED open
    /\ UNCHANGED <<popupVars, galTokens, galOk, galItem, galPicture>>

GalleryInit ==
    /\ galPhase = "list" /\ galTokens = <<>> /\ galOk = FALSE /\ galItem = 0
    /\ galPicture = NoPicture

GalleryNext ==
    \/ \E reply \in Balances \cup {FAILED} : OpenGallery(reply)
    \/ \E row \in 1 .. MaxTokens : OpenToken(row)
    \/ ViewToken \/ GalleryBack
    \/ \E key \in PanKeys : PanToken(key)
=============================================================================
