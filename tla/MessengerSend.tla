--------------------------- MODULE MessengerSend ---------------------------
(***************************************************************************)
(* The messenger (messenger.c): a message is composed field by field,      *)
(* confirmed, and sent as a call of the contract that Settings names; the  *)
(* inbox is fetched message by message.  Typed texts are entered at once.  *)
(***************************************************************************)
EXTENDS SigningPopup, SequencesExt

CONSTANTS
    Contracts,      \* the contracts Settings may name; "" is NONE
    Receivers,      \* the texts tezos_forge_address encodes
    Words,          \* other texts
    ReceiverKept,   \* what the 39 characters of the receiver keep of a text,
    SubjectKept,    \* and the 63 of the subject: T9's field holds 64
    Messages,       \* what message_infos may hold
    MaxInbox        \* MSG_INBOX_MAX

VARIABLES
    messenger,      \* st->phase
    contract,       \* settings_get_messenger_contract
    receiver, subject, content,
    composed,       \* history: the texts of this message, by field
    inbox,          \* inbox_messages, or NONE when the fetch failed
    highlighted,    \* inbox_list.selected
    detail          \* inbox_selected_detail

fieldVars == <<receiver, subject, content, composed>>
inboxVars == <<inbox, highlighted, detail>>
messengerVars == <<messenger, contract, fieldVars, inboxVars>>

Written == Receivers \cup Words

\* strncpy into receiver[40] and subject[64]; content[256] takes any text.  An
\* address has 36 characters, and what is cut to 39 of them is none.
ASSUME KeptAssumption ==
    /\ ReceiverKept \in [Written -> Written] /\ SubjectKept \in [Written -> Written]
    /\ \A text \in Receivers : ReceiverKept[text] = text
    /\ \A text \in Written : ReceiverKept[text] \in Receivers => ReceiverKept[text] = text

\* What perform_send signs and the popup asks about.
Message == [app |-> "messenger", to |-> contract,
            receiver |-> receiver', subject |-> subject', content |-> content']

MessengerInit ==
    /\ messenger = "closed" /\ contract = NONE
    /\ receiver = NONE /\ subject = NONE /\ content = NONE /\ composed = <<>>
    /\ inbox = NONE /\ highlighted = 0 /\ detail = 0

\* Settings > Messenger Contract, while no app is open.  Bound: it counts as
\* using the messenger.
SetContract(c) ==
    /\ open = NONE /\ contract' = c
    /\ used' = used \cup {"messenger"} /\ Cardinality(used') <= MaxApps
    /\ UNCHANGED <<open, askVars, messenger, fieldVars, inboxVars>>

OpenMessenger ==
    /\ Opens("messenger") /\ messenger' = "home"
    /\ UNCHANGED <<askVars, contract, fieldVars, inboxVars>>

\* BACK on the first menu; the next entry clears the state, here the BACK.
LeaveMessenger ==
    /\ OnTop("messenger") /\ messenger = "home"
    /\ open' = NONE /\ messenger' = "closed"
    /\ receiver' = NONE /\ subject' = NONE /\ content' = NONE /\ composed' = <<>>
    /\ inbox' = NONE /\ highlighted' = 0 /\ detail' = 0
    /\ UNCHANGED <<popupVars, contract>>

\* Compose: the fields of the last message are not cleared.
Compose ==
    /\ OnTop("messenger") /\ messenger = "home"
    /\ messenger' = IF contract = NONE THEN "not_configured" ELSE "receiver"
    /\ composed' = <<>>
    /\ UNCHANGED <<open, popupVars, contract, receiver, subject, content, inboxVars>>

\* SELECT on a field.
SubmitReceiver(text) ==
    /\ OnTop("messenger") /\ messenger = "receiver" /\ messenger' = "subject"
    /\ receiver' = ReceiverKept[text] /\ composed' = <<text>>
    /\ UNCHANGED <<open, popupVars, contract, subject, content, inboxVars>>

\* Mutant: a subject that was typed for an earlier message is kept.
SubmitSubject_Once(text) ==
    /\ OnTop("messenger") /\ messenger = "subject" /\ messenger' = "content"
    /\ subject' = IF subject = NONE THEN SubjectKept[text] ELSE subject
    /\ composed' = Append(composed, text)
    /\ UNCHANGED <<open, popupVars, contract, receiver, content, inboxVars>>
SubmitSubject(text) ==
    /\ OnTop("messenger") /\ messenger = "subject" /\ messenger' = "content"
    /\ subject' = SubjectKept[text] /\ composed' = Append(composed, text)
    /\ UNCHANGED <<open, popupVars, contract, receiver, content, inboxVars>>

\* The last field asks; it can be changed and asked for again after CANCEL.
SubmitContent(text) ==
    /\ OnTop("messenger") /\ messenger = "content"
    /\ content' = text /\ composed' = Append(SubSeq(composed, 1, 2), text)
    /\ UNCHANGED <<receiver, subject>>
    /\ Ask(Message)
    /\ UNCHANGED <<open, messenger, contract, inboxVars>>

\* perform_send: a receiver that is no address ends before the signer.
AcceptMessage(outcome) ==
    /\ open = "messenger" /\ messenger = "content" /\ messenger' = "result"
    /\ UNCHANGED <<open, contract, fieldVars, inboxVars>>
    /\ IF receiver \in Receivers
       THEN Accept(Message, outcome)
       ELSE outcome = "no_signer" /\ AcceptIgnored

RefuseMessage ==
    /\ open = "messenger" /\ Refuse
    /\ UNCHANGED <<open, messengerVars>>

\* BACK; a message that is being composed is given up as a whole.
BackInMessenger ==
    /\ OnTop("messenger") /\ messenger \notin {"home", "detail"}
    /\ messenger' = "home"
    /\ UNCHANGED <<open, popupVars, contract, fieldVars, inboxVars>>

\* perform_inbox_fetch: the list of tokens, then a message for each; a message
\* that cannot be fetched is skipped.
FetchInbox(received) ==
    /\ OnTop("messenger") /\ messenger = "home" /\ messenger' = "inbox"
    /\ received # NONE => contract # NONE
    /\ inbox' = received
    /\ highlighted' = IF received \in {NONE, <<>>} THEN highlighted ELSE 0
    /\ UNCHANGED <<open, popupVars, contract, fieldVars, detail>>

InboxListed == inbox \notin {NONE, <<>>}

ScrollInbox ==
    /\ OnTop("messenger") /\ messenger = "inbox" /\ InboxListed
    /\ highlighted' \in {highlighted - 1, highlighted + 1} \cap 0 .. Len(inbox) - 1
    /\ UNCHANGED <<open, popupVars, messenger, contract, fieldVars, inbox, detail>>

OpenDetail ==
    /\ OnTop("messenger") /\ messenger = "inbox" /\ InboxListed
    /\ messenger' = "detail" /\ detail' = highlighted
    /\ UNCHANGED <<open, popupVars, contract, fieldVars, inbox, highlighted>>

CloseDetail ==
    /\ OnTop("messenger") /\ messenger = "detail" /\ messenger' = "inbox"
    /\ UNCHANGED <<open, popupVars, contract, fieldVars, inboxVars>>

Inboxes == {NONE} \cup UNION {[1 .. n -> Messages] : n \in 0 .. MaxInbox}

MessengerNext ==
    \/ \E c \in Contracts \cup {NONE} : SetContract(c)
    \/ OpenMessenger \/ LeaveMessenger \/ Compose
    \/ \E text \in Written : SubmitReceiver(text) \/ SubmitSubject(text) \/ SubmitContent(text)
    \/ \E outcome \in Outcomes : AcceptMessage(outcome)
    \/ RefuseMessage \/ BackInMessenger
    \/ \E received \in Inboxes : FetchInbox(received)
    \/ ScrollInbox \/ OpenDetail \/ CloseDetail

-----------------------------------------------------------------------------
\* The message that is asked for has the texts that were typed for it, as far
\* as the fields hold them, none that an earlier, given up or refused message
\* left in a field; its receiver, if it is an address, is the one that was
\* typed; and it has a contract to go to.
MessageAsComposed ==
    (open = "messenger" /\ asked # NONE) =>
        /\ Len(composed) = 3 /\ asked.to # NONE
        /\ asked.receiver = ReceiverKept[composed[1]]
        /\ asked.subject = SubjectKept[composed[2]]
        /\ asked.content = composed[3]
        /\ asked.receiver \in Receivers => composed[1] = asked.receiver

=============================================================================
