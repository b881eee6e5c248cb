-------------------------- MODULE WalletSendProofs --------------------------
(***************************************************************************)
(* Proofs about WalletSend, for any addresses, amounts, names and number   *)
(* of contacts: its invariants, and that Send implements ConfirmedSigning. *)
(***************************************************************************)
EXTENDS WalletSend, SequenceTheorems, TLAPS

\* The labels of the list are the names of the contacts, one for each.
LEMMA NamesOfOK ==
    ASSUME NEW b \in Seq(Contacts)
    PROVE  NamesOf(b) \in Seq(ContactNames) /\ Len(NamesOf(b)) = Len(b)
<1>1. \A i \in 1 .. Len(b) : b[i] \in Contacts
  OBVIOUS
<1>3. \A i \in 1 .. Len(b) : b[i].name \in ContactNames
  BY <1>1 DEF Contacts
<1>2. NamesOf(b) = [i \in 1 .. Len(b) |-> b[i].name]
  BY DEF NamesOf
<1> QED BY <1>2, <1>3

\* The row of a contact names it.
LEMMA RowNamesContact ==
    ASSUME NEW b \in Seq(Contacts), NEW i \in 1 .. Len(b)
    PROVE  /\ NamesOf(b)[i] \in ContactNames /\ b[i].address \in Forgeable
           /\ [name |-> NamesOf(b)[i], address |-> b[i].address] \in Range(b)
<1>1. b[i] \in Contacts /\ NamesOf(b)[i] = b[i].name
  BY DEF NamesOf
<1>2. b[i] = [name |-> b[i].name, address |-> b[i].address]
  BY <1>1 DEF Contacts
<1>3. b[i] \in Range(b)
  BY DEF Range
<1> QED BY <1>1, <1>2, <1>3 DEF Contacts

\* A contact of the book stays one when another is added.
LEMMA AddedStays ==
    ASSUME NEW b \in Seq(Contacts), NEW c \in Contacts, NEW d \in Range(b)
    PROVE  Append(b, c) \in Seq(Contacts) /\ d \in Range(Append(b, c))
<1>1. PICK i \in 1 .. Len(b) : d = b[i]
  BY DEF Range
<1>2. i \in 1 .. Len(Append(b, c)) /\ Append(b, c)[i] = d
  BY <1>1
<1> QED BY <1>2 DEF Range

\* A record of what a Send asks for, and of what it signs.
LEMMA AskedOK ==
    ASSUME NEW to \in Recipients, NEW tez \in Amounts
    PROVE  /\ [to |-> to, amount |-> tez] \in Asked
           /\ to \in Forgeable => [to |-> to, amount |-> tez] \in Transfers
  BY DEF Asked, Transfers

\* The invariant holds at first.
LEMMA InitOK == SendInit => SendInv
<1> SUFFICES ASSUME SendInit PROVE SendInv
  OBVIOUS
<1>1. SendTypeOK
  <2>1. 1 \in DOMAIN Pages /\ 0 \in 0 .. MaxSends /\ 0 \in 0 .. Len(listed)
    BY SendAssumption DEF SendInit, Pages
  <2>2. contactBook \in Seq(Contacts) /\ listed \in Seq(ContactNames) /\ sends \in Seq(Transfers)
    BY DEF SendInit
  <2> QED BY <2>1, <2>2 DEF SendInit, SendTypeOK, WalletScreens, Results
<1>2. SentToChosen /\ PopupOK /\ ListOK /\ EntryOK
  BY DEF SendInit, SentToChosen, PopupOK, ListOK, EntryOK
<1> QED BY <1>1, <1>2 DEF SendInv

\* The steps of the pages: what is asked, signed and saved stays.
LEMMA PageStep ==
    ASSUME SendInv, OpenPages \/ LeaveWallet \/ FlipPage \/ EnterList \/ LeaveList
                 \/ ScrollContacts \/ OpenAddContact \/ OpenSend
                 \/ (\E answered \in BOOLEAN : Delegate(answered))
    PROVE  SendInv'
<1> USE DEF SendInv, SendTypeOK, SentToChosen, PopupOK, ListOK, EntryOK, WalletScreens,
            pageVars, contactVars, sendVars, signVars
<1>1. CASE OpenPages
  <2>1. listed' \in Seq(ContactNames) /\ 1 \in DOMAIN Pages
    BY <1>1, NamesOfOK DEF OpenPages, Pages
  <2>2. 0 \in 0 .. Len(listed')
    BY <2>1
  <2> QED BY <1>1, <2>1, <2>2 DEF OpenPages, Results
<1>2. CASE LeaveWallet
  BY <1>2 DEF LeaveWallet
<1>3. CASE FlipPage
  BY <1>3 DEF FlipPage
<1>4. CASE EnterList
  BY <1>4 DEF EnterList
<1>5. CASE LeaveList
  BY <1>5 DEF LeaveList
<1>6. CASE ScrollContacts
  BY <1>6 DEF ScrollContacts, OnPage
<1>7. CASE OpenAddContact
  BY <1>7 DEF OpenAddContact, OnPage
<1>8. CASE OpenSend
  BY <1>8 DEF OpenSend, OnPage
<1>9. ASSUME NEW answered \in BOOLEAN, Delegate(answered) PROVE SendInv'
  <2>1. ResultOf(answered) \in Results
    BY DEF ResultOf, Results
  <2> QED BY <1>9, <2>1 DEF Delegate, OnPage
<1> QED BY <1>1, <1>2, <1>3, <1>4, <1>5, <1>6, <1>7, <1>8, <1>9

\* The steps that enter texts, and BACK.
LEMMA EntryStep ==
    ASSUME SendInv, (\E name \in ContactNames : SubmitName(name))
                 \/ (\E text \in Recipients : SaveContact(text) \/ SubmitRecipient(text))
                 \/ (\E contact \in Contacts : BookmarkElsewhere(contact))
                 \/ PickContact \/ (\E tez \in Amounts : SubmitAmount(tez)) \/ BackInSend
    PROVE  SendInv'
<1> USE DEF SendInv, SendTypeOK, SentToChosen, PopupOK, ListOK, EntryOK, WalletScreens,
            pageVars, contactVars, sendVars, signVars
<1>1. ASSUME NEW name \in ContactNames, SubmitName(name) PROVE SendInv'
  BY <1>1 DEF SubmitName
<1>2. ASSUME NEW text \in Recipients, SaveContact(text) PROVE SendInv'
  <2>1. newName \in ContactNames /\ [name |-> newName, address |-> text] \in Contacts
    BY <1>2 DEF SaveContact, Contacts
  <2>2. contactBook' \in Seq(Contacts)
    BY <1>2, <2>1 DEF SaveContact
  <2>3. NamesOf(contactBook') \in Seq(ContactNames)
    BY ONLY <2>2, NamesOfOK
  <2>4. listed' = NamesOf(contactBook') /\ selected' = 0
    BY <1>2 DEF SaveContact
  <2>5. listed' \in Seq(ContactNames) /\ 0 \in 0 .. Len(listed')
    BY ONLY <2>3, <2>4
  <2> QED BY <1>2, <2>2, <2>4, <2>5 DEF SaveContact
<1>3. ASSUME NEW text \in Recipients, SubmitRecipient(text) PROVE SendInv'
  BY <1>3 DEF SubmitRecipient
<1>4. CASE PickContact
  <2>1. selected \in 1 .. Len(contactBook) /\ listed = NamesOf(contactBook)
    BY <1>4 DEF PickContact, OnPage
  <2>2. recipient' = contactBook[selected].address /\ chosen' = NamesOf(contactBook)[selected]
    BY <1>4, <2>1 DEF PickContact
  <2>3. /\ chosen' \in ContactNames /\ recipient' \in Forgeable
        /\ [name |-> chosen', address |-> recipient'] \in Range(contactBook)
    BY ONLY SendInv, <2>1, <2>2, RowNamesContact DEF SendInv, SendTypeOK
  <2>4. /\ walletScreen' = "amount" /\ sendAsked' = UNSET
        /\ UNCHANGED <<pageVars, contactVars, amount, signVars>>
    BY <1>4 DEF PickContact, OnPage
  <2>5. SentToChosen'
    BY <2>3, <2>4
  <2>6. SendTypeOK'
    BY <2>3, <2>4 DEF Recipients
  <2>7. PopupOK' /\ EntryOK'
    BY <2>3, <2>4 DEF Recipients
  <2>8. ListOK'
    BY <2>1, <2>4
  <2> QED BY <2>5, <2>6, <2>7, <2>8 DEF SendInv
<1>7. ASSUME NEW contact \in Contacts, BookmarkElsewhere(contact) PROVE SendInv'
  <2>1. contactBook' \in Seq(Contacts)
    BY <1>7, AddedStays DEF BookmarkElsewhere
  <2> QED BY <1>7, <2>1 DEF BookmarkElsewhere
<1>5. ASSUME NEW tez \in Amounts, SubmitAmount(tez) PROVE SendInv'
  BY <1>5 DEF SubmitAmount, Results
<1>6. CASE BackInSend
  BY <1>6 DEF BackInSend
<1> QED BY <1>1, <1>2, <1>3, <1>4, <1>5, <1>6, <1>7

\* The popup: asking, accepting and refusing.
LEMMA PopupStep ==
    ASSUME SendInv, AskConfirm \/ Cancel \/ (\E answered \in BOOLEAN : Confirm(answered))
    PROVE  SendInv'
<1> USE DEF SendInv, SendTypeOK, SentToChosen, PopupOK, ListOK, EntryOK, WalletScreens,
            pageVars, contactVars, sendVars, signVars
<1>1. CASE AskConfirm
  <2>1. [to |-> recipient, amount |-> amount] \in Asked
    BY <1>1, AskedOK DEF AskConfirm
  <2> QED BY <1>1, <2>1 DEF AskConfirm
<1>2. CASE Cancel
  BY <1>2 DEF Cancel
<1>3. ASSUME NEW answered \in BOOLEAN, Confirm(answered) PROVE SendInv'
  <2>1. sends' \in Seq(Transfers) /\ sendResult' \in Results
    <3>1. CASE recipient \in Forgeable
      <4>1. [to |-> recipient, amount |-> amount] \in Transfers
        BY <1>3, <3>1, AskedOK DEF Confirm
      <4>2. ResultOf(answered) \in Results
        BY DEF ResultOf, Results
      <4>3. sends' = Append(sends, [to |-> recipient, amount |-> amount])
            /\ sendResult' = ResultOf(answered)
        BY <1>3, <3>1 DEF Confirm, PerformSend
      <4>4. sends' \in Seq(Transfers)
        BY <4>1, <4>3
      <4> QED BY <4>2, <4>3, <4>4
    <3>2. CASE recipient \notin Forgeable
      BY <1>3, <3>2 DEF Confirm, PerformSend, Results
    <3> QED BY <3>1, <3>2
  <2> QED BY <1>3, <2>1 DEF Confirm
<1> QED BY <1>1, <1>2, <1>3

\* The invariant holds in every state.
LEMMA Invariance == SendSpec => []SendInv
<1>1. SendInv /\ [SendNext]_walletVars => SendInv'
  <2> SUFFICES ASSUME SendInv, [SendNext]_walletVars PROVE SendInv'
    OBVIOUS
  <2>1. CASE UNCHANGED walletVars
    BY <2>1 DEF walletVars, pageVars, contactVars, sendVars, signVars, SendInv, SendTypeOK,
                SentToChosen, PopupOK, ListOK, EntryOK
  <2>2. CASE SendNext
    BY <2>2, PageStep, EntryStep, PopupStep DEF SendNext
  <2> QED BY <2>1, <2>2
<1> QED BY <1>1, InitOK, PTL DEF SendSpec

\* Types, the bounds of the list and of the pages.
THEOREM TypeCorrect == SendSpec => []SendTypeOK
<1>1. SendInv => SendTypeOK
  BY DEF SendInv
<1> QED BY <1>1, Invariance, PTL

\* A contact that can be picked stands in the row of its place in the book.
THEOREM ListShowsBook == SendSpec => []ListIsBook
<1>1. SendInv => ListIsBook
  BY DEF SendInv, ListOK, ListIsBook
<1> QED BY <1>1, Invariance, PTL

\* A Send begun on a row goes to an address the book has under the row's name.
THEOREM RecipientKept == SendSpec => []SentToChosen
<1>1. SendInv => SentToChosen
  BY DEF SendInv
<1> QED BY <1>1, Invariance, PTL

\* Once a Send was broadcast, or failed to be, its screen signs nothing more.
THEOREM NoSecondSignature == SendSpec => OncePerVisit
<1>1. SendInv /\ [SendNext]_walletVars =>
        [(walletScreen \in {"confirm", "popup"}
            /\ sendResult \in {"broadcast_ok", "broadcast_failed"})
            => sends' = sends]_walletVars
  <2> SUFFICES ASSUME SendInv, SendNext,
                      walletScreen \in {"confirm", "popup"},
                      sendResult \in {"broadcast_ok", "broadcast_failed"}
               PROVE  sends' = sends
    OBVIOUS
  <2>1. walletScreen = "confirm"
    BY DEF SendInv, PopupOK
  <2> QED BY <2>1 DEF SendNext, OpenPages, LeaveWallet, FlipPage, EnterList, LeaveList,
        ScrollContacts, OpenAddContact, SubmitName, SaveContact, SubmitRecipient,
        PickContact, BookmarkElsewhere, OpenSend, SubmitAmount, AskConfirm, Cancel,
        BackInSend, Confirm, Delegate, OnPage, signVars
<1> QED BY <1>1, Invariance, PTL DEF SendSpec, OncePerVisit

-----------------------------------------------------------------------------
(* Send implements ConfirmedSigning.                                       *)

\* The first state is one in which nothing was sent.
LEMMA SendingInit == SendInit => Sending!Init
  BY DEF SendInit, Sending!Init

\* Only the three steps of the popup touch what the abstract signing sees.
LEMMA SendingStep ==
    ASSUME SendInv, [SendNext]_walletVars
    PROVE  [Sending!Next]_<<sendAsked, sendAnswer, sends>>
<1> USE DEF SendInv, PopupOK
<1>1. CASE AskConfirm
  <2>1. sendAsked = UNSET /\ sendAsked' \in Asked /\ UNCHANGED <<sendAnswer, sends>>
    BY <1>1, AskedOK DEF AskConfirm, EntryOK
  <2> QED BY <2>1 DEF Sending!Next, Sending!Show
<1>2. CASE Cancel
  <2>1. sendAsked \in Asked
    BY <1>2, AskedOK DEF Cancel, EntryOK
  <2> QED BY <1>2, <2>1, NothingAsked DEF Cancel, Sending!Next, Sending!Refuse
<1>3. ASSUME NEW answered \in BOOLEAN, Confirm(answered)
      PROVE  Sending!Next
  <2>1. sendAsked \in Asked /\ sendAsked = [to |-> recipient, amount |-> amount]
    BY <1>3, AskedOK DEF Confirm, EntryOK
  <2>2. sends' \in {sends, Append(sends, sendAsked)}
    BY <1>3, <2>1 DEF Confirm, PerformSend
  <2> QED BY <1>3, <2>1, <2>2, NothingAsked DEF Confirm, Sending!Next, Sending!Accept
<1>4. CASE UNCHANGED <<sendAsked, sendAnswer, sends>>
  BY <1>4
<1>5. CASE UNCHANGED walletVars
  BY <1>4, <1>5 DEF walletVars, signVars
<1>6. CASE OpenPages \/ LeaveWallet \/ FlipPage \/ EnterList \/ LeaveList \/ ScrollContacts
           \/ OpenAddContact \/ (\E name \in ContactNames : SubmitName(name))
           \/ (\E text \in Recipients : SaveContact(text) \/ SubmitRecipient(text))
           \/ PickContact \/ OpenSend \/ (\E tez \in Amounts : SubmitAmount(tez)) \/ BackInSend
           \/ (\E answered \in BOOLEAN : Delegate(answered))
           \/ (\E contact \in Contacts : BookmarkElsewhere(contact))
  BY <1>4, <1>6 DEF BookmarkElsewhere, OpenPages, LeaveWallet, FlipPage, EnterList, LeaveList, ScrollContacts,
        OpenAddContact, SubmitName, SaveContact, SubmitRecipient, PickContact, OpenSend,
        SubmitAmount, BackInSend, Delegate, signVars
<1> QED BY <1>1, <1>2, <1>3, <1>5, <1>6 DEF SendNext

\* Send signs what the popup showed and the user accepted, once.
THEOREM SignsWhatWasConfirmed == SendSpec => SendIsConfirmed
<1>1. SendInv /\ [SendNext]_walletVars => [Sending!Next]_<<sendAsked, sendAnswer, sends>>
  BY SendingStep
<1> QED BY <1>1, SendingInit, Invariance, PTL DEF SendSpec, SendIsConfirmed, Sending!Spec
=============================================================================
