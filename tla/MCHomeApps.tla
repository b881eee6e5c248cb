----------------------------- MODULE MCHomeApps -----------------------------
(***************************************************************************)
(* The apps of the home grid: those of HomeApps, the wallet with its       *)
(* contacts and its Send, and what unlocks the wallet, with the settings   *)
(* of its PIN, phrase and accounts.  They use one another's results (a     *)
(* signer, the book), not their state, and one of them is open at a time:  *)
(* a behaviour is about one of the three.                                  *)
(***************************************************************************)
EXTENDS HomeApps, WalletSend, WalletLock, TLC

VARIABLE unit       \* which of them this behaviour is about

gridVars == <<unit, vars, walletVars, allLockVars>>

GridInit ==
    /\ unit \in {"apps", "wallet", "lock"}
    /\ Init /\ SendInit /\ LockInit
    \* What is not at work has one state.
    /\ unit # "lock" => faults = {}

AppStep    == unit = "apps" /\ Next /\ UNCHANGED <<unit, walletVars, allLockVars>>
WalletStep == unit = "wallet" /\ SendNext /\ UNCHANGED <<unit, vars, allLockVars>>
LockStep   == unit = "lock" /\ LockNext /\ UNCHANGED <<unit, vars, walletVars>>

GridNext == AppStep \/ WalletStep \/ LockStep
GridSpec == GridInit /\ [][GridNext]_gridVars

-----------------------------------------------------------------------------
(* The instance of the wallet: what it knows of two addresses, two amounts *)
(* and two names is which of them are the same.                            *)
CONSTANTS ann, ben, alice, bob, one, ten
MCSymmetry ==
    Permutations({ann, ben}) \cup Permutations({alice, bob})

-----------------------------------------------------------------------------
(* The instance of the other apps.                                         *)

\* The types: leaves, a branch of every kind, lists of pairs, lists in lists,
\* and one type deep enough for a count that does not fit on the stack.
Leaf(k) == [kind |-> k, args |-> <<>>]
Branch(k, args) == [kind |-> k, args |-> args]
MCPool == <<Branch("pair", <<2, 10>>),      \* 1: pair (list (list nat)) string
            Branch("list", <<8>>),          \* 2
            Branch("option", <<4>>),        \* 3: option (or string nat)
            Branch("or", <<10, 11>>),       \* 4
            Branch("list", <<6>>),          \* 5: list (pair nat string)
            Branch("pair", <<11, 10>>),     \* 6
            Branch("pair", <<8, 10>>),      \* 7: pair (list nat) string
            Branch("list", <<11>>),         \* 8
            Leaf("unit"),                   \* 9
            Leaf("string"),                 \* 10
            Leaf("nat")>>                   \* 11
MCRoots == {1, 3, 5, 7, 9}
MCMaxSigned == [explorer |-> 1, messenger |-> 1, beacon |-> 2]
MCFound == {MCRoots, {}}
MCTexts == {"7", "ab"}
MCEncodes == [nat |-> {"7"}, string |-> MCTexts]
MCCountTexts == {NONE} \cup 0 .. 3

\* Texts: an address, and a word that is cut to a shorter one.
CONSTANTS r1, w1, w2
MCKept == (r1 :> r1) @@ (w1 :> w1) @@ (w2 :> w1)

\* Token balances: none left, an empty picture address, pictures by another
\* key, no token id, and one entry more than is kept.
Balance(b, i, u) == [balance |-> b, tokenId |-> i, uris |-> u]
MCBalances ==
    {<<Balance("0", "t0", <<"u0", ABSENT, ABSENT>>), Balance("5", "t1", <<ABSENT, EMPTY, "u1">>),
       Balance("1", "t2", <<"u2", ABSENT, "u0">>)>>,
     <<Balance("1", ABSENT, <<"u1", ABSENT, "u3">>), Balance("1", "t3", <<ABSENT, EMPTY, ABSENT>>)>>}
MCSizes == {<<1, 1>>, <<4, 4>>}
MCSites == {"s1", "s2"}
MCAliasOf == [s1 |-> "teia", s2 |-> ABSENT]
MCSuggested == <<"s2">>
MCBooks == {<<>>}

\* Networks with colons and backslashes in their names, a hidden one, and
\* more of them than the list holds.
Network(ssid, security) == [ssid |-> ssid, security |-> security]
MCOpenSecurity == <<"-", "-">>
MCAirs ==
    {<<>>,
     <<Network(<<"x", COLON, "y">>, <<"W">>), Network(<<>>, <<>>),
       Network(<<BACKSLASH>>, MCOpenSecurity)>>,
     <<Network(<<COLON, BACKSLASH, COLON>>, MCOpenSecurity), Network(<<BACKSLASH, "x">>, <<"W">>)>>}
=============================================================================
