------------------------------ MODULE Pictures ------------------------------
(***************************************************************************)
(* The picture of a token as Gallery and Discover hold it: found in the    *)
(* indexer's answer about an account (chain/tezos_tzkt.c), fetched, decoded, *)
(* kept once as a thumbnail and once in full, and looked at through a window *)
(* of the size of the screen.  Lengths are in steps of the window.         *)
(*                                                                         *)
(* A field of a reply is ABSENT when it is missing or has another type than *)
(* expected; FAILED stands for no reply, a status other than 200 and a body *)
(* that is not JSON, which all end a call the same way.                    *)
(***************************************************************************)
EXTENDS SigningPopup, Integers, SequencesExt, FiniteSetsExt

CONSTANTS ABSENT, FAILED, EMPTY

\* A string field copied into a zeroed structure.
Copied(field) == IF field = ABSENT THEN EMPTY ELSE field

\* A balance entry of a token still held, with an id.
Held(entry) == entry.balance \notin {ABSENT, "0"} /\ entry.tokenId # ABSENT

\* displayUri, else thumbnailUri, else artifactUri.
ImageUri(uris) ==
    LET given == SelectSeq(uris, LAMBDA uri : uri \notin {ABSENT, EMPTY})
    IN  IF given = <<>> THEN EMPTY ELSE given[1]

\* tezos_tzkt_get_owned_tokens: the entries held, at most max of them; the
\* others are skipped, not the end of the walk.
OwnedTokens(entries, max) ==
    LET held == SelectSeq(entries, Held)
    IN  [i \in 1 .. Min({Len(held), max}) |-> [id |-> held[i].tokenId, uri |-> ImageUri(held[i].uris)]]

\* tezos_tzkt_get_contract_info: the structure is overwritten by any JSON,
\* and the call succeeds when there was a balance (of any type).
InfoGiven(reply, old) == IF reply = FAILED THEN old ELSE Copied(reply.alias)
InfoOk(reply) == reply # FAILED /\ reply.balance # ABSENT

-----------------------------------------------------------------------------
(* Pictures.                                                               *)

CONSTANTS
    ViewW, ViewH,   \* the window: 320 and 480 - 34
    PanStep,        \* GAL_PAN_STEP, DISC_PAN_STEP
    Sizes,          \* bound: the sizes of pictures, <<w, h>>
    Balances,       \* bound: what the indexer answers about an account's tokens
    MaxTokens       \* GAL_MAX, DISC_MAX_HOLDINGS

ASSUME WindowAssumption ==
    /\ ViewW \in Nat \ {0} /\ ViewH \in Nat \ {0} /\ PanStep \in Nat \ {0}
    /\ Sizes \subseteq (Nat \ {0}) \X (Nat \ {0})

\* The zeroed state; thumb and full name the picture in thumb_pixels and
\* full_pixels, NONE before the first; missed is history: there was no memory
\* for the thumbnail of the last picture.
NoPicture == [attempted |-> FALSE, ok |-> FALSE, thumb |-> NONE, full |-> NONE,
              w |-> 0, h |-> 0, x |-> 0, y |-> 0, missed |-> FALSE]

\* What a decoded picture leaves: memory may be missing for either copy.
\* Mutant: the window stays where it was over the last picture.
Decoded_KeepsPan(p, uri, size, hasThumb, hasFull) ==
    [p EXCEPT !.ok = hasThumb \/ hasFull,
              !.thumb = IF hasThumb THEN uri ELSE @, !.missed = ~hasThumb,
              !.full = IF hasFull THEN uri ELSE NONE,
              !.w = IF hasFull THEN size[1] ELSE @,
              !.h = IF hasFull THEN size[2] ELSE @]
Decoded(p, uri, size, hasThumb, hasFull) ==
    LET q == [p EXCEPT !.ok = hasThumb \/ hasFull, !.missed = ~hasThumb,
                       !.thumb = IF hasThumb THEN uri ELSE @]
    IN  IF ~hasFull THEN q
        ELSE [q EXCEPT !.full = uri, !.w = size[1], !.h = size[2], !.x = 0, !.y = 0]

\* fetch_and_decode_image: the full picture is dropped first; there may be
\* no URI, one of a scheme that is not resolved, no answer, one that is not
\* 200, or one that is not a picture.
Fetches(p, uri) ==
    LET dropped == [p EXCEPT !.attempted = TRUE, !.ok = FALSE, !.full = NONE]
    IN  {dropped} \cup
        IF uri = EMPTY THEN {}
        ELSE {Decoded(dropped, uri, size, t, f) : size \in Sizes, t \in BOOLEAN, f \in BOOLEAN}

PanKeys == {"up", "down", "4", "6", "other"}

Clamped(at, last) == Max({0, Min({at, last})})

\* A key in the viewer: every key but SOFTKEY_R.
Panned(p, key) ==
    LET dx == CASE key = "4" -> -PanStep [] key = "6" -> PanStep [] OTHER -> 0
        dy == CASE key = "up" -> -PanStep [] key = "down" -> PanStep [] OTHER -> 0
    IN  [p EXCEPT !.x = Clamped(@ + dx, Max({0, p.w - ViewW})),
                  !.y = Clamped(@ + dy, Max({0, p.h - ViewH}))]

\* SOFTKEY_L opens the viewer, and the footer offers it.
Viewable(p) == p.ok /\ p.full # NONE

\* The detail page shows thumb_pixels, whoever's they are, or says that there
\* is no picture.
ThumbShown(p) == p.attempted /\ p.ok

\* The pixels of the full picture that render_viewer copies.
Window(p) == (p.x .. p.x + Min({ViewW, p.w - p.x}) - 1) \X (p.y .. p.y + Min({ViewH, p.h - p.y}) - 1)

-----------------------------------------------------------------------------
\* What the pages of an item with this URI show is its picture: the viewer as
\* much of it as there is room for, the detail page its thumbnail, unless
\* there was no memory for just that one; then the viewer has the picture.
ShowsPictureOf(uri, p, viewer) ==
    /\ ThumbShown(p) => IF p.missed THEN p.full = uri ELSE p.thumb = uri
    /\ viewer => /\ p.full = uri
                 /\ Window(p) \subseteq (0 .. p.w - 1) \X (0 .. p.h - 1)
                 /\ Cardinality(Window(p)) = Min({ViewW, p.w}) * Min({ViewH, p.h})
=============================================================================
