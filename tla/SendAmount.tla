----------------------------- MODULE SendAmount -----------------------------
(***************************************************************************)
(* The amount of a transfer: the amount screen of the wallet's Send, the   *)
(* confirm screen it pushes, and the conversion of what was typed in tez to *)
(* what is sent in mutez (send_amount_input, send_confirm_input and        *)
(* wallet_tez_to_mutez of wallet.c).  A typed text is a sequence of        *)
(* characters: digits, which are 0 .. Base-1, the decimal DOT, and others; *)
(* it is edited here one character at a time, and how keys become characters *)
(* is the business of the T9 field.  The program has Base 10, MaxWhole 15, *)
(* Decimals 6 and Word 2^64.                                               *)
(***************************************************************************)
EXTENDS Integers, Sequences, SequencesExt

CONSTANTS
    Base,
    MaxWhole,   \* digits that fit int_part
    Decimals,   \* decimal places of a tez
    Word,       \* unsigned long long counts modulo Word
    DOT, NONE

Digits == 0 .. Base - 1

ASSUME AmountAssumption ==
    /\ Base \in Nat \ {0, 1} /\ MaxWhole \in Nat \ {0} /\ Decimals \in Nat \ {0}
    /\ Word \in Nat \ {0}
    /\ DOT \notin Digits /\ NONE \notin Nat

IsNumeral(s) == \A i \in DOMAIN s : s[i] \in Digits

\* strtoull on a numeral (it saturates only beyond MaxWhole digits).
Value(s) ==
    LET value[n \in 0 .. Len(s)] == IF n = 0 THEN 0 ELSE value[n - 1] * Base + s[n]
    IN  value[Len(s)]

\* Base ^ n, as a function that can be reasoned about.
Power[n \in Nat] == IF n = 0 THEN 1 ELSE Base * Power[n - 1]

\* strchr(tez_str, '.'): the place of the first dot, 0 when there is none.
FirstDot(s) == SelectInSeq(s, LAMBDA c : c = DOT)

WholePart(s) == IF FirstDot(s) = 0 THEN s ELSE SubSeq(s, 1, FirstDot(s) - 1)
FractionPart(s) == IF FirstDot(s) = 0 THEN <<>> ELSE SubSeq(s, FirstDot(s) + 1, Len(s))

\* frac_part, padded with zeros on the right.
PaddedFraction(s) ==
    FractionPart(s) \o [i \in 1 .. Decimals - Len(FractionPart(s)) |-> 0]

Accepted(s) ==
    /\ s # <<>> /\ WholePart(s) # <<>>
    /\ Len(WholePart(s)) <= MaxWhole /\ Len(FractionPart(s)) <= Decimals
    /\ IsNumeral(WholePart(s)) /\ IsNumeral(FractionPart(s))

\* wallet_tez_to_mutez: NONE when it returns false.
TezToMutez(s) ==
    IF Accepted(s)
    THEN (Value(WholePart(s)) * Power[Decimals] + Value(PaddedFraction(s))) % Word
    ELSE NONE

-----------------------------------------------------------------------------
(* The screens.                                                            *)

CONSTANTS Characters, MaxText

ASSUME TextAssumption == Digits \cup {DOT} \subseteq Characters /\ MaxText \in Nat

VARIABLES
    typed,       \* the text of the amount field
    amountError, \* is "invalid amount" shown?
    display,     \* g_send_amount_display
    mutez,       \* g_send_amount_mutez
    amountScreen \* "amount" or "confirm"
amountVars == <<typed, amountError, display, mutez, amountScreen>>

\* wallet_send_amount_screen; the globals are still empty.
AmountInit ==
    /\ typed = <<>> /\ amountError = FALSE
    /\ display = <<>> /\ mutez = NONE
    /\ amountScreen = "amount"

TypeCharacter(c) ==
    /\ amountScreen = "amount" /\ Len(typed) < MaxText
    /\ typed' = Append(typed, c) /\ amountError' = FALSE
    /\ UNCHANGED <<display, mutez, amountScreen>>

Erase ==
    /\ amountScreen = "amount" /\ typed # <<>>
    /\ typed' = Front(typed) /\ amountError' = FALSE
    /\ UNCHANGED <<display, mutez, amountScreen>>

\* The left softkey, NEXT: the confirm screen for an amount that converts.
\* Mutant: the text shown is the one before the last edit.
Submit_StaleDisplay ==
    /\ amountScreen = "amount"
    /\ IF TezToMutez(typed) = NONE
       THEN amountError' = TRUE /\ UNCHANGED <<display, mutez, amountScreen>>
       ELSE /\ mutez' = TezToMutez(typed)
            /\ display' = IF display = <<>> THEN typed ELSE display
            /\ amountScreen' = "confirm" /\ UNCHANGED amountError
    /\ UNCHANGED typed
Submit ==
    /\ amountScreen = "amount"
    /\ IF TezToMutez(typed) = NONE
       THEN amountError' = TRUE /\ UNCHANGED <<display, mutez, amountScreen>>
       ELSE /\ mutez' = TezToMutez(typed)
            /\ display' = typed
            /\ amountScreen' = "confirm" /\ UNCHANGED amountError
    /\ UNCHANGED typed

\* BACK: the amount screen again, with its text.
BackToAmount ==
    /\ amountScreen = "confirm" /\ amountScreen' = "amount"
    /\ UNCHANGED <<typed, amountError, display, mutez>>

AmountNext == (\E c \in Characters : TypeCharacter(c)) \/ Erase \/ Submit \/ BackToAmount

AmountSpec == AmountInit /\ [][AmountNext]_amountVars

-----------------------------------------------------------------------------
(* What a typed text means, defined without the conversion.                *)

\* s denotes the number Numerator(s) / Power[Places(s)]: its digits read
\* without the dot, divided by one Base for each digit after the dot.
IsDecimal(s) ==
    /\ s # <<>> /\ Head(s) \in Digits
    /\ \A i \in DOMAIN s : s[i] \in Digits \cup {DOT}
    /\ \A i, j \in DOMAIN s : s[i] = DOT /\ s[j] = DOT => i = j
Numerator(s) ==
    LET read[n \in 0 .. Len(s)] ==
            IF n = 0 THEN 0
            ELSE IF s[n] = DOT THEN read[n - 1] ELSE read[n - 1] * Base + s[n]
    IN  read[Len(s)]
Places(s) == IF \E i \in DOMAIN s : s[i] = DOT
             THEN Len(s) - (CHOOSE i \in DOMAIN s : s[i] = DOT) ELSE 0

\* amount is what s denotes, in mutez.
Denotes(s, amount) == amount * Power[Places(s)] = Numerator(s) * Power[Decimals]

\* Nothing but a decimal number gets to the confirm screen, and what is shown
\* there is what will be sent, for every amount that fits the machine word.
SmallAmountShownIsSent ==
    amountScreen = "confirm" =>
        /\ IsDecimal(display)
        /\ Numerator(display) * Power[Decimals] < Word * Power[Places(display)]
               => Denotes(display, mutez)
=============================================================================
