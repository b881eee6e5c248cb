----------------------------- MODULE WalletSend -----------------------------
(***************************************************************************)
(* The pages of the wallet and the operations sent from them (wallet.c):   *)
(* Send to a typed recipient or to a contact, Delegate, and the contacts   *)
(* themselves.  The network answers as it likes.                           *)
(*                                                                         *)
(* An amount stands for a text the amount screen accepts (SendAmount);     *)
(* texts are entered at once, and one the screen refuses changes nothing.  *)
(* The mock list of transactions scrolls on its own and is left out.       *)
(***************************************************************************)
EXTENDS Naturals, Sequences, SequencesExt

CONSTANTS
    Forgeable,      \* the texts tezos_forge_address encodes
    OtherTexts,     \* texts it refuses
    Amounts, ContactNames,
    MaxContacts,    \* TEZOS_ADDRESS_BOOK_MAX_CONTACTS
    MaxSends,       \* bound: transfers signed
    UNSET

Pages         == <<"BALANCES", "TRANSACTIONS", "CONTACTS", "DOMAIN", "STAKING", "TZKT_INFO">>
Recipients    == Forgeable \cup OtherTexts
Results       == {"none", "forge_failed", "broadcast_ok", "broadcast_failed"}
WalletScreens ==
    {"idle", "pages", "recipient", "amount", "confirm", "popup", "name", "address"}

Contacts  == [name : ContactNames, address : Forgeable]
Transfers == [to : Forgeable, amount : Amounts]
Asked     == [to : Recipients, amount : Amounts]

ASSUME SendAssumption ==
    /\ UNSET \notin Recipients \cup Amounts \cup ContactNames \cup {"accepted", "refused"}
    /\ Forgeable \cap OtherTexts = {}
    /\ MaxContacts \in Nat /\ MaxSends \in Nat

ASSUME NothingAsked == UNSET \notin Asked

VARIABLES
    walletScreen,   \* the top of the stack; the pages are below the others
    page, sublist,
    contactBook,    \* the address book
    listed,         \* contact_labels, after the "+ Add Contact" of row 0
    selected,       \* contacts_list.selected
    newName,        \* g_new_contact_name
    recipient, amount,  \* g_send_recipient, g_send_amount_mutez
    sendAsked,      \* what the popup on top shows
    sendResult,     \* g_send_result
    delegated,      \* g_pages_state.delegate_result
    sendAnswer,     \* history: the last answer given to the popup
    sends,          \* history: the transfers signed
    chosen          \* history: the name in the row this Send was begun on

pageVars    == <<page, sublist, delegated>>
contactVars == <<contactBook, listed, selected, newName>>
sendVars    == <<recipient, amount, chosen>>
signVars    == <<sendAsked, sendAnswer, sendResult, sends>>
walletVars  == <<walletScreen, pageVars, contactVars, sendVars, signVars>>

\* refresh_contacts_list: a row for each contact, in the order of the book,
\* by which the row that is picked is looked up.
\* Mutant: the newest contact is listed first.
NamesOf_NewestFirst(contacts) == [i \in DOMAIN contacts |-> contacts[Len(contacts) + 1 - i].name]
NamesOf(contacts) == [i \in DOMAIN contacts |-> contacts[i].name]

OnPage(name) == walletScreen = "pages" /\ Pages[page] = name

SendInit ==
    /\ walletScreen = "idle" /\ page = 1 /\ sublist = FALSE
    /\ contactBook = <<>> /\ listed = <<>> /\ selected = 0 /\ newName = UNSET
    /\ recipient = UNSET /\ amount = UNSET /\ chosen = UNSET
    /\ sendAsked = UNSET /\ sendAnswer = UNSET /\ sendResult = "none"
    /\ sends = <<>>
    /\ delegated = "none"

-----------------------------------------------------------------------------
(* The pages (wallet_pages_input).                                         *)

\* wallet_entry_screen, once there is a signer.
OpenPages ==
    /\ walletScreen = "idle" /\ walletScreen' = "pages"
    /\ page' = 1 /\ sublist' = FALSE /\ delegated' = "none"
    /\ listed' = NamesOf(contactBook) /\ selected' = 0
    /\ UNCHANGED <<contactBook, newName, sendVars, signVars>>

LeaveWallet ==
    /\ walletScreen = "pages" /\ ~sublist
    /\ walletScreen' = "idle"
    /\ UNCHANGED <<pageVars, contactVars, sendVars, signVars>>

FlipPage ==
    /\ walletScreen = "pages" /\ ~sublist
    /\ page' \in {page - 1, page + 1} \cap DOMAIN Pages
    /\ UNCHANGED <<walletScreen, sublist, delegated, contactVars, sendVars, signVars>>

EnterList ==
    /\ OnPage("TRANSACTIONS") \/ OnPage("CONTACTS")
    /\ ~sublist /\ sublist' = TRUE
    /\ UNCHANGED <<walletScreen, page, delegated, contactVars, sendVars, signVars>>

LeaveList ==
    /\ walletScreen = "pages" /\ sublist /\ sublist' = FALSE
    /\ UNCHANGED <<walletScreen, page, delegated, contactVars, sendVars, signVars>>

ScrollContacts ==
    /\ OnPage("CONTACTS") /\ sublist
    /\ selected' \in {selected - 1, selected + 1} \cap 0 .. Len(listed)
    /\ UNCHANGED <<walletScreen, pageVars, contactBook, listed, newName, sendVars, signVars>>

-----------------------------------------------------------------------------
(* Contacts.                                                               *)

OpenAddContact ==
    /\ OnPage("CONTACTS") /\ sublist /\ selected = 0
    /\ walletScreen' = "name"
    /\ UNCHANGED <<pageVars, contactVars, sendVars, signVars>>

SubmitName(name) ==
    /\ walletScreen = "name" /\ walletScreen' = "address"
    /\ newName' = name
    /\ UNCHANGED <<pageVars, contactBook, listed, selected, sendVars, signVars>>

\* contact_address_input: tezos_address_book_add, then refresh_contacts_list.
SaveContact(text) ==
    /\ walletScreen = "address" /\ Len(contactBook) < MaxContacts /\ text \in Forgeable
    /\ contactBook' = Append(contactBook, [name |-> newName, address |-> text])
    /\ listed' = NamesOf(contactBook') /\ selected' = 0
    /\ walletScreen' = "pages"
    /\ UNCHANGED <<pageVars, newName, sendVars, signVars>>

\* SEND on a contact skips the recipient; the row is the index in the book.
PickContact ==
    /\ OnPage("CONTACTS") /\ sublist /\ selected \in 1 .. Len(contactBook)
    /\ recipient' = contactBook[selected].address
    /\ chosen' = listed[selected]
    /\ walletScreen' = "amount"
    /\ UNCHANGED <<pageVars, contactVars, amount, signVars>>

\* Discover's bookmark, while the wallet is closed, is a contact like any other.
BookmarkElsewhere(contact) ==
    /\ walletScreen = "idle" /\ Len(contactBook) < MaxContacts
    /\ contactBook' = Append(contactBook, contact)
    /\ UNCHANGED <<walletScreen, pageVars, listed, selected, newName, sendVars, signVars>>

-----------------------------------------------------------------------------
(* Send.                                                                   *)

OpenSend ==
    /\ OnPage("BALANCES") /\ ~sublist
    /\ walletScreen' = "recipient"
    /\ UNCHANGED <<pageVars, contactVars, sendVars, signVars>>

\* send_recipient_input: text is what was typed or, for a name, what its
\* record in the registry holds.
SubmitRecipient(text) ==
    /\ walletScreen = "recipient" /\ walletScreen' = "amount"
    /\ recipient' = text /\ chosen' = UNSET
    /\ UNCHANGED <<pageVars, contactVars, amount, signVars>>

\* send_amount_input and wallet_send_confirm_screen.
SubmitAmount(tez) ==
    /\ walletScreen = "amount" /\ walletScreen' = "confirm"
    /\ amount' = tez /\ sendResult' = "none"
    /\ UNCHANGED <<pageVars, contactVars, recipient, chosen, sendAsked, sendAnswer, sends>>

\* send_confirm_input: SIGN, until something was signed on this screen.
\* Mutant: SIGN is there whatever was signed.
AskConfirm_Again ==
    /\ walletScreen = "confirm" /\ walletScreen' = "popup"
    /\ sendAsked' = [to |-> recipient, amount |-> amount]
    /\ UNCHANGED <<pageVars, contactVars, sendVars, sendAnswer, sendResult, sends>>
AskConfirm ==
    /\ walletScreen = "confirm" /\ walletScreen' = "popup"
    /\ sendResult \in {"none", "forge_failed"}
    /\ sendAsked' = [to |-> recipient, amount |-> amount]
    /\ UNCHANGED <<pageVars, contactVars, sendVars, sendAnswer, sendResult, sends>>

\* tezos_rpc_inject_operation: did the node answer that it took the operation?
\* When it did not, the operation may have reached it all the same.
ResultOf(answered) == IF answered THEN "broadcast_ok" ELSE "broadcast_failed"

\* perform_send: a recipient that is no address cannot be forged.
PerformSend(answered) ==
    IF recipient \in Forgeable
    THEN /\ Len(sends) < MaxSends
         /\ sends' = Append(sends, [to |-> recipient, amount |-> amount])
         /\ sendResult' = ResultOf(answered)
    ELSE sendResult' = "forge_failed" /\ UNCHANGED sends

\* send_confirm_on_resume after CONFIRMED.
Confirm(answered) ==
    /\ walletScreen = "popup" /\ walletScreen' = "confirm"
    /\ sendAsked' = UNSET /\ sendAnswer' = "accepted"
    /\ PerformSend(answered)
    /\ UNCHANGED <<pageVars, contactVars, sendVars>>

\* send_confirm_on_resume after CANCELLED.
\* Mutant: the result of the popup is not looked at.
Cancel_Signs ==
    /\ walletScreen = "popup" /\ walletScreen' = "confirm"
    /\ sendAsked' = UNSET /\ sendAnswer' = "refused"
    /\ \E answered \in BOOLEAN : PerformSend(answered)
    /\ UNCHANGED <<pageVars, contactVars, sendVars>>
Cancel ==
    /\ walletScreen = "popup" /\ walletScreen' = "confirm"
    /\ sendAsked' = UNSET /\ sendAnswer' = "refused"
    /\ UNCHANGED <<pageVars, contactVars, sendVars, sendResult, sends>>

\* BACK and CANCEL.
BackInSend ==
    /\ \/ walletScreen = "confirm" /\ walletScreen' = "amount"
       \/ walletScreen \in {"recipient", "amount", "name", "address"} /\ walletScreen' = "pages"
    /\ UNCHANGED <<pageVars, contactVars, sendVars, signVars>>

-----------------------------------------------------------------------------
\* SELECT on the staking page: perform_delegate, at once.
Delegate(answered) ==
    /\ OnPage("STAKING") /\ ~sublist
    /\ delegated' = ResultOf(answered)
    /\ UNCHANGED <<walletScreen, page, sublist, contactVars, sendVars, signVars>>

-----------------------------------------------------------------------------
SendNext ==
    \/ OpenPages \/ LeaveWallet \/ FlipPage \/ EnterList \/ LeaveList \/ ScrollContacts
    \/ OpenAddContact \/ \E name \in ContactNames : SubmitName(name)
    \/ \E text \in Recipients : SaveContact(text) \/ SubmitRecipient(text)
    \/ \E contact \in Contacts : BookmarkElsewhere(contact)
    \/ PickContact \/ OpenSend \/ \E tez \in Amounts : SubmitAmount(tez)
    \/ AskConfirm \/ Cancel \/ BackInSend
    \/ \E answered \in BOOLEAN : Confirm(answered) \/ Delegate(answered)

SendSpec == SendInit /\ [][SendNext]_walletVars

-----------------------------------------------------------------------------
SendTypeOK ==
    /\ walletScreen \in WalletScreens /\ page \in DOMAIN Pages /\ sublist \in BOOLEAN
    /\ contactBook \in Seq(Contacts) /\ listed \in Seq(ContactNames)
    /\ selected \in 0 .. Len(listed)
    /\ newName \in ContactNames \cup {UNSET}
    /\ recipient \in Recipients \cup {UNSET} /\ amount \in Amounts \cup {UNSET}
    /\ chosen \in ContactNames \cup {UNSET} /\ sendAsked \in Asked \cup {UNSET}
    /\ sendAnswer \in {"accepted", "refused", UNSET}
    /\ sendResult \in Results /\ delegated \in Results
    /\ sends \in Seq(Transfers)

\* The contacts on the page are those of the book, in its order, whenever
\* one can be picked ("so the list always reflects what's actually saved,
\* not a stale snapshot", wallet.c:573-575).
ListIsBook == walletScreen = "pages" => listed = NamesOf(contactBook)

\* A Send begun on a row of the contacts goes, up to the popup that asks for
\* it, to an address the book has under the name in that row: the labels were
\* copied when the page was opened or a contact was added, the address is
\* looked up by the row's number in the book as it is then (wallet.c:857-866).
SentToChosen ==
    (walletScreen \in {"amount", "confirm", "popup"} /\ chosen # UNSET) =>
        /\ [name |-> chosen, address |-> recipient] \in Range(contactBook)
        /\ walletScreen = "popup" => sendAsked.to = recipient

\* One visit of the confirm screen signs once ("done" in send_confirm_input).
OncePerVisit ==
    [][(walletScreen \in {"confirm", "popup"}
          /\ sendResult \in {"broadcast_ok", "broadcast_failed"})
        => sends' = sends]_walletVars

\* What makes ListIsBook, SentToChosen and OncePerVisit inductive: the list is
\* the book on every screen above the pages, a Send has what it needs when it
\* asks, and the popup shows the Send below it, which has signed nothing yet.
PopupOK ==
    /\ sendAsked = IF walletScreen = "popup"
                   THEN [to |-> recipient, amount |-> amount] ELSE UNSET
    /\ walletScreen = "popup" => sendResult \in {"none", "forge_failed"}
ListOK == walletScreen # "idle" => listed = NamesOf(contactBook)
EntryOK ==
    /\ walletScreen \in {"amount", "confirm", "popup"} => recipient \in Recipients
    /\ walletScreen \in {"confirm", "popup"} => amount \in Amounts
    /\ walletScreen = "address" => newName \in ContactNames
SendInv == SendTypeOK /\ SentToChosen /\ PopupOK /\ ListOK /\ EntryOK

Sending == INSTANCE ConfirmedSigning
    WITH Operations <- Asked, NOTHING <- UNSET, shown <- sendAsked, answer <- sendAnswer,
         signed <- sends

\* Send signs what the popup showed, when it was accepted, once.
SendIsConfirmed == Sending!Spec
=============================================================================
