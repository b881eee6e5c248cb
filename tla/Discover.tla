------------------------------ MODULE Discover ------------------------------
(***************************************************************************)
(* The address browser (apps/discover): the bookmarks are the address      *)
(* book, an address is visited from a row of the home page or typed, and   *)
(* its holdings are looked at like the tokens of the gallery.  The count   *)
(* of entrypoints and the other details of a page are only shown and are   *)
(* left out.                                                               *)
(***************************************************************************)
EXTENDS Pictures

CONSTANTS
    Sites,          \* addresses
    AliasOf,        \* the alias the indexer knows a site by, or ABSENT
    Suggested,      \* DISC_SUGGESTED
    Books,          \* bound: the address books at the start
    MaxBook         \* DISC_MAX_BOOKMARKS = TEZOS_ADDRESS_BOOK_MAX_CONTACTS

ASSUME BooksAssumption ==
    /\ Suggested \in Seq(Sites)
    /\ \A contacts \in Books : contacts \in Seq(Range(contacts))

VARIABLES
    discPhase,
    book,               \* the address book, as <<[name, address], ...>>
    rows, realRows,     \* bookmark_labels, real_bookmark_count
    visited, infoOk, alias,     \* visited_address, site_fetch_ok, site_info.alias
    holdings, holdingsOk, bookmarked, discItem, discPicture
homeVars == <<rows, realRows>>
siteVars == <<visited, infoOk, alias, holdings, holdingsOk, bookmarked>>
pictureVars == <<discItem, discPicture>>
discoverVars == <<discPhase, book, homeVars, siteVars, pictureVars>>

Names(contacts) == [i \in DOMAIN contacts |-> contacts[i].name]
Addresses(contacts) == {contacts[i].address : i \in DOMAIN contacts}

\* refresh_bookmarks.
Refreshed ==
    /\ rows' = <<"visit">> \o Names(book) \o Suggested
    /\ realRows' = Len(book) + 1

\* discover_entry_screen.
OpenDiscover ==
    /\ Opens("discover") /\ discPhase' = "home" /\ Refreshed
    /\ visited' = EMPTY /\ infoOk' = FALSE /\ alias' = EMPTY
    /\ holdings' = <<>> /\ holdingsOk' = FALSE /\ bookmarked' = FALSE
    /\ discItem' = 0 /\ discPicture' = NoPicture
    /\ UNCHANGED <<askVars, book>>

\* What the indexer may say of a site: nothing, its information, or JSON
\* that has neither alias nor balance.
Infos(site) == {FAILED, [alias |-> AliasOf[site], balance |-> "1"],
                [alias |-> ABSENT, balance |-> ABSENT]}

\* visit_address.
Visit(site, info, reply) ==
    /\ visited' = site /\ infoOk' = InfoOk(info) /\ alias' = InfoGiven(info, alias)
    /\ holdingsOk' = (reply # FAILED)
    /\ holdings' = IF reply = FAILED THEN <<>> ELSE OwnedTokens(reply, MaxTokens)
    /\ bookmarked' = (site \in Addresses(book))
    /\ discPhase' = "site"
    /\ UNCHANGED <<open, popupVars, book, homeVars, pictureVars>>

\* SOFTKEY_L on the first row of the home page.
EnterAddress ==
    /\ OnTop("discover") /\ discPhase = "home" /\ discPhase' = "entry"
    /\ UNCHANGED <<open, popupVars, book, homeVars, siteVars, pictureVars>>

\* SOFTKEY_L on another row: a bookmark, or a suggestion below them.
SiteOfRow(row) ==
    IF row <= realRows THEN book[row - 1].address ELSE Suggested[row - realRows]

VisitRow(row, info, reply) ==
    /\ OnTop("discover") /\ discPhase = "home" /\ row \in 2 .. Len(rows)
    /\ info \in Infos(SiteOfRow(row)) /\ Visit(SiteOfRow(row), info, reply)

\* SOFTKEY_L with an address typed.
VisitTyped(site, info, reply) ==
    /\ OnTop("discover") /\ discPhase = "entry"
    /\ info \in Infos(site) /\ Visit(site, info, reply)

\* STAR: the contact is named by the alias at hand, or else the address; a
\* full address book refuses.
Bookmark ==
    LET name == IF alias # EMPTY THEN alias ELSE visited
    IN  /\ OnTop("discover") /\ discPhase = "site" /\ ~bookmarked
        /\ Len(book) < MaxBook
        /\ book' = Append(book, [name |-> name, address |-> visited]) /\ bookmarked' = TRUE
        /\ UNCHANGED <<open, popupVars, discPhase, homeVars, visited, infoOk, alias,
                       holdings, holdingsOk, pictureVars>>

\* SOFTKEY_L on the site's page.
Browse ==
    /\ OnTop("discover") /\ discPhase = "site" /\ holdingsOk /\ holdings # <<>>
    /\ discPhase' = "list"
    /\ UNCHANGED <<open, popupVars, book, homeVars, siteVars, pictureVars>>

OpenHolding(row) ==
    /\ OnTop("discover") /\ discPhase = "list" /\ row \in DOMAIN holdings
    /\ discItem' = row /\ discPhase' = "detail"
    /\ discPicture' \in Fetches(discPicture, holdings[row].uri)
    /\ UNCHANGED <<open, popupVars, book, homeVars, siteVars>>

ViewHolding ==
    /\ OnTop("discover") /\ discPhase = "detail" /\ Viewable(discPicture)
    /\ discPhase' = "viewer"
    /\ UNCHANGED <<open, popupVars, book, homeVars, siteVars, pictureVars>>

PanHolding(key) ==
    /\ OnTop("discover") /\ discPhase = "viewer" /\ discPicture' = Panned(discPicture, key)
    /\ UNCHANGED <<open, popupVars, discPhase, book, homeVars, siteVars, discItem>>

\* The rows of the home page when a site is left; nothing can have changed
\* while an address was typed.
\* Mutant: the rows stay.
ReturnedHome_Stale == UNCHANGED homeVars
ReturnedHome == IF discPhase = "site" THEN Refreshed ELSE UNCHANGED homeVars

\* SOFTKEY_R: one page back.
Back == [entry |-> "home", site |-> "home", list |-> "site", detail |-> "list", viewer |-> "detail"]
DiscoverBack ==
    /\ OnTop("discover") /\ discPhase # "home"
    /\ discPhase' = Back[discPhase]
    /\ ReturnedHome
    /\ UNCHANGED <<open, popupVars, book, siteVars, pictureVars>>

CloseDiscover ==
    /\ OnTop("discover") /\ discPhase = "home"
    /\ open' = NONE
    /\ UNCHANGED <<popupVars, discoverVars>>

DiscoverInit ==
    /\ discPhase = "home" /\ book \in Books /\ rows = <<>> /\ realRows = 0
    /\ visited = EMPTY /\ infoOk = FALSE /\ alias = EMPTY
    /\ holdings = <<>> /\ holdingsOk = FALSE /\ bookmarked = FALSE
    /\ discItem = 0 /\ discPicture = NoPicture

DiscoverNext ==
    \/ OpenDiscover \/ EnterAddress \/ Bookmark \/ Browse \/ ViewHolding
    \/ DiscoverBack \/ CloseDiscover
    \/ \E reply \in Balances \cup {FAILED}, site \in Sites : \E info \in Infos(site) :
          \/ VisitTyped(site, info, reply)
          \/ \E row \in 2 .. MaxBook + Len(Suggested) + 1 : VisitRow(row, info, reply)
    \/ \E row \in 1 .. MaxTokens : OpenHolding(row)
    \/ \E key \in PanKeys : PanHolding(key)

-----------------------------------------------------------------------------
\* The rows of the home page are those the address book has now, so that a
\* row opens the site it is named after, wherever one came back from.
HomeIsBook ==
    open = "discover" /\ discPhase = "home" =>
        \A row \in 2 .. Len(rows) :
            IF row - 1 \in DOMAIN book
            THEN rows[row] = book[row - 1].name /\ SiteOfRow(row) = book[row - 1].address
            ELSE rows[row] = SiteOfRow(row)

\* "the currently-visited address's real info" (discover.c): a bookmark bears
\* the alias of its own address, or the address itself.
BookmarkNamesItsAddress ==
    \A contact \in {book[i] : i \in DOMAIN book} :
        contact.name \in {AliasOf[s] : s \in Sites} => contact.name = AliasOf[contact.address]
=============================================================================
