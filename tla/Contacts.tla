------------------------------ MODULE Contacts ------------------------------
(***************************************************************************)
(* What the address book promises: a list of contacts, in the order they   *)
(* were saved, that only adding and deleting change                        *)
(* (tezos_address_book.h).  It promises nothing once the power may fail    *)
(* while the list is being saved.                                          *)
(***************************************************************************)
EXTENDS Naturals, Sequences, SequencesExt

CONSTANTS Contact, MaxContacts

VARIABLES contacts, steady   \* steady: the power never fails

Init == contacts = <<>>

Add(c) == Len(contacts) < MaxContacts /\ contacts' = Append(contacts, c)

Delete(i) == contacts' = RemoveAt(contacts, i)

Next == (\E c \in Contact : Add(c)) \/ (\E i \in DOMAIN contacts : Delete(i))

Spec == Init /\ [][steady => Next]_contacts
=============================================================================
