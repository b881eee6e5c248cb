----------------------------- MODULE AddressBook -----------------------------
(***************************************************************************)
(* The address book (core/tezos_address_book.c) and its file, one line     *)
(* "key=value" for the count and for the name and the address of each      *)
(* contact, which is rewritten as a whole for every key.                   *)
(***************************************************************************)
EXTENDS PlainStore

CONSTANTS
    Names, Addresses,
    EMPTY,          \* the empty string
    CUT,            \* a text that lost its end
    MaxContacts     \* TEZOS_ADDRESS_BOOK_MAX_CONTACTS

\* The lines of a book fit the 64 that the store keeps.
ASSUME BookAssumption ==
    /\ EMPTY # CUT /\ {EMPTY, CUT, ABSENT} \cap (Names \cup Addresses) = {}
    /\ Names \cap Addresses = {} /\ ABSENT \notin {EMPTY, CUT}
    /\ (Names \cup Addresses \cup {EMPTY, CUT, ABSENT}) \cap Int = {}
    /\ MaxContacts \in 1 .. 31

Contact == [name : Names, address : Addresses]
Strings == Names \cup Addresses \cup {EMPTY, CUT}
NoEntry == [name |-> EMPTY, address |-> EMPTY]

\* Key 0 is the count, keys 2i - 1 and 2i the name and address of contact i.
BookKeys == 0 .. 2 * MaxContacts

VARIABLES
    file,       \* the lines of the file, as <<key, value>>
    entries,    \* g_entries
    count,      \* g_count, -1 until the book is loaded
    saving,     \* the next key save_all writes, ABSENT outside save_all
    added,      \* history: the contacts added
    risks       \* history: what was "deleted", "cut" off by the power in a
                \* save, or left "unsaved" by one that failed, perhaps "again"
bookVars == <<file, entries, count, saving, added, risks>>

-----------------------------------------------------------------------------
\* What is read from the last line when its end is missing.  Without its
\* "=" the value is what the line buffer held there: the value of the line
\* before, without its first character when its key is shorter, or anything
\* for the count.  A line that lost a digit of its key has that of an earlier
\* line, which is read first (unless a failed save left that one out, where
\* two things have gone wrong).
CutContacts(lines) ==
    [n \in DOMAIN lines |-> IF lines[n][1] = 0 THEN 0 .. MaxContacts
                            ELSE {EMPTY, CUT, IF n = 1 THEN CUT ELSE lines[n - 1][2]} \cap Strings]

LoadText(lines, key) == IF Load(lines, key) = ABSENT THEN EMPTY ELSE Load(lines, key)

CountIn(lines) == IF Load(lines, 0) = ABSENT THEN 0 ELSE Load(lines, 0)

\* The contacts a file holds for the program that loads it.
Contents(lines) ==
    [i \in 1 .. CountIn(lines) |-> [name    |-> LoadText(lines, 2 * i - 1),
                                    address |-> LoadText(lines, 2 * i)]]

Book == SubSeq(entries, 1, count)

BookInit ==
    /\ file = <<>> /\ entries = [i \in 1 .. MaxContacts |-> NoEntry]
    /\ count = -1 /\ saving = ABSENT /\ added = {} /\ risks = {}

\* ensure_loaded, which every call begins with.
EnsureLoaded ==
    /\ count = -1
    /\ count' = CountIn(file)
    /\ entries' = [i \in 1 .. MaxContacts |->
                        IF i <= CountIn(file) THEN Contents(file)[i] ELSE NoEntry]
    /\ UNCHANGED <<file, saving, added, risks>>

\* tezos_address_book_add, up to save_all.
Add(name, address) ==
    /\ count \in 0 .. MaxContacts - 1 /\ saving = ABSENT
    /\ entries' = [entries EXCEPT ![count + 1] = [name |-> name, address |-> address]]
    /\ count' = count + 1 /\ saving' = 0
    /\ added' = added \cup {[name |-> name, address |-> address]}
    /\ UNCHANGED <<file, risks>>

\* tezos_address_book_delete, up to save_all.
\* Mutant: the last contact takes the place of the one deleted.
Delete_Swap(index) ==
    /\ saving = ABSENT /\ index \in 1 .. count
    /\ entries' = [entries EXCEPT ![index] = entries[count]]
    /\ count' = count - 1 /\ saving' = 0 /\ risks' = risks \cup {"deleted"}
    /\ UNCHANGED <<file, added>>
Delete(index) ==
    /\ saving = ABSENT /\ index \in 1 .. count
    /\ entries' = [i \in 1 .. MaxContacts |->
                        IF i \in index .. count - 1 THEN entries[i + 1] ELSE entries[i]]
    /\ count' = count - 1 /\ saving' = 0 /\ risks' = risks \cup {"deleted"}
    /\ UNCHANGED <<file, added>>

\* The value save_all writes for a key.
ValueOf(key) ==
    IF key = 0 THEN count
    ELSE LET entry == entries[(key + 1) \div 2]
         IN  IF key % 2 = 1 THEN entry.name ELSE entry.address

\* tezos_store_save_plain of a key, and what a failed one leaves: the file as it
\* was, when it cannot be opened to be written; the new line alone, when it
\* cannot be opened to be read, which is taken for no file; and its beginning,
\* when there is no room for the rest.
Written(key) == Save(file, key, ValueOf(key))
Unwritten(key) ==
    {file, <<<<key, ValueOf(key)>>>>} \cup Torn(Written(key), CutContacts(Written(key)))

\* save_all goes on with the next key, whatever became of this one.
KeySaved(key) ==
    \/ file' = Written(key) /\ UNCHANGED risks
    \/ /\ ~steady /\ file' \in Unwritten(key)
       /\ risks' = risks \cup {IF "unsaved" \in risks THEN "again" ELSE "unsaved"}

\* Mutant: the names are written after the addresses of the contacts before.
SaveKey_Backwards ==
    /\ saving # ABSENT
    /\ KeySaved(IF saving = 0 THEN 0 ELSE 2 * count + 1 - saving)
    /\ saving' = IF saving = 2 * count THEN ABSENT ELSE saving + 1
    /\ UNCHANGED <<entries, count, added>>
SaveKey ==
    /\ saving # ABSENT
    /\ KeySaved(saving)
    /\ saving' = IF saving = 2 * count THEN ABSENT ELSE saving + 1
    /\ UNCHANGED <<entries, count, added>>

\* The program ends, between two calls.
Exit ==
    /\ saving = ABSENT
    /\ entries' = [i \in 1 .. MaxContacts |-> NoEntry] /\ count' = -1
    /\ UNCHANGED <<file, saving, added, risks>>

\* The power goes, between two calls, before a key is written or while it is.
PowerFailure ==
    /\ ~steady
    /\ \/ UNCHANGED file
       \/ saving # ABSENT /\ file' \in Torn(Written(saving), CutContacts(Written(saving)))
    /\ risks' = IF saving = ABSENT THEN risks ELSE risks \cup {"cut"}
    /\ entries' = [i \in 1 .. MaxContacts |-> NoEntry] /\ count' = -1 /\ saving' = ABSENT
    /\ UNCHANGED added

BookNext ==
    \/ EnsureLoaded \/ SaveKey \/ Exit \/ PowerFailure
    \/ \E name \in Names, address \in Addresses : Add(name, address)
    \/ \E index \in 1 .. MaxContacts : Delete(index)

BookSpec ==
    BookInit /\ steady \in BOOLEAN /\ [][BookNext /\ UNCHANGED steady]_<<bookVars, steady>>

-----------------------------------------------------------------------------
AtMostOneRisk == \A r, other \in risks : r = other

\* The contacts of the running program, or those the next one will load.
Visible == IF count = -1 THEN Contents(file) ELSE Book

TheBook == INSTANCE Contacts WITH contacts <- Visible

\* While the power holds and no save fails, the book is the list of contacts it
\* promises to be, through any number of programs: keys a deletion left behind never
\* come back, and loading gives what was saved.
IsContacts == TheBook!Spec

\* No name that was added ever stands by the address of another contact,
\* whenever the power failed, or whatever was deleted, or whichever save
\* failed: a name is written before its address, and both before the next
\* contact.  It takes two of these, or two failed saves, to join two contacts.
PairsWereAdded ==
    AtMostOneRisk =>
        \A i \in DOMAIN Visible :
            Visible[i].name \in Names /\ Visible[i].address \in Addresses => Visible[i] \in added
=============================================================================
