--------------------------- MODULE ExplorerCall ---------------------------
(***************************************************************************)
(* The explorer (explorer.c): an address is looked up, one of its          *)
(* entrypoints is chosen, the walker of tezos_micheline.c asks for the     *)
(* values its parameter type needs one at a time, and the call is built,   *)
(* confirmed, signed and sent.                                             *)
(*                                                                         *)
(* A type is a node of Pool, as in tezos_micheline_type_pool_t; the values *)
(* built of it are seen through the leaves and counts they consume.        *)
(***************************************************************************)
EXTENDS SigningPopup, SequencesExt

CONSTANTS
    Pool,           \* Pool[n]: the kind of node n and the nodes of its arguments
    Roots,          \* the types an entrypoint may have
    Found,          \* the sets of entrypoints, by type, a lookup may find
    Texts,          \* what is typed for a leaf
    Encodes,        \* Encodes[k]: the texts that a leaf of kind k is built from
    CallAddresses,
    CountTexts,     \* what is typed for a count; a text that is no number is NONE
    MaxItems,       \* TEZOS_MICHELINE_MAX_LIST_ITEMS
    MaxLists,       \* the size of list_item_counts
    MaxWalk,        \* TEZOS_WALK_MAX_STACK
    MaxNodes        \* TEZOS_MTYPE_MAX_NODES

Nodes    == DOMAIN Pool
Kind(n)  == Pool[n].kind
Arg(n, i) == Pool[n].args[i]
Branches == {"unit", "pair", "option", "or", "list"}
LeafKinds == DOMAIN Encodes

\* The types are those tezos_micheline_parse_type makes: a node stands in the
\* pool before its arguments, and has as many as its kind takes.
ASSUME ExplorerAssumption ==
    /\ {MaxItems, MaxLists, MaxWalk, MaxNodes} \subseteq Nat /\ MaxNodes <= MaxWalk + 1
    /\ LeafKinds \cap Branches = {}
    /\ Pool \in Seq([kind : LeafKinds \cup Branches, args : Seq(Nat)])
    /\ \A n \in Nodes :
          /\ \A i \in DOMAIN Pool[n].args : Arg(n, i) \in n + 1 .. Len(Pool)
          /\ Len(Pool[n].args) = (CASE Kind(n) \in {"pair", "or"} -> 2
                                   [] Kind(n) \in {"option", "list"} -> 1
                                   [] OTHER -> 0)
    /\ Roots \subseteq Nodes /\ NONE \notin Nat

VARIABLES
    explorer,       \* st->phase
    address,
    found,          \* the entrypoints looked up, or NONE when the fetch failed
    foundAt,        \* history: the address they were looked up for
    calling,        \* calling_entrypoint_index
    walk,           \* walker.stack
    element,        \* pending_list_element_type
    leaves,         \* the texts submitted, each with the kind asked for
    counts,         \* list_item_counts
    crowded         \* history: a count was refused for want of room on the stack

walkVars == <<calling, walk, element, leaves, counts, crowded>>
lookupVars == <<address, found, foundAt>>
explorerVars == <<explorer, lookupVars, walkVars>>

-----------------------------------------------------------------------------
(* The walker.                                                             *)

\* What tezos_micheline_walker_next pushes for a node that needs no input, the
\* first argument of a pair on top.
\* Mutant: the second argument of a pair is asked for first.
Pushed_Swapped(n) ==
    CASE Kind(n) = "unit" -> <<>>
      [] Kind(n) = "pair" -> <<Arg(n, 1), Arg(n, 2)>>
      [] OTHER -> <<Arg(n, 1)>>
Pushed(n) ==
    CASE Kind(n) = "unit" -> <<>>
      [] Kind(n) = "pair" -> <<Arg(n, 2), Arg(n, 1)>>
      [] OTHER -> <<Arg(n, 1)>>

\* Its loop: until a list, a leaf or nothing is on top.
Expanded[stack \in Seq(Nodes)] ==
    IF stack = <<>> \/ Kind(Last(stack)) \notin Branches \ {"list"} THEN stack
    ELSE Expanded[Front(stack) \o Pushed(Last(stack))]

\* How far build_value_node has come: the kinds, in order, of the leaves it
\* has taken, the lists whose counts it has taken, and the value nodes made.
Progress == [ok : BOOLEAN, kinds : Seq(LeafKinds), lists : Nat, nodes : Nat]
Nothing == [ok |-> TRUE, kinds |-> <<>>, lists |-> 0, nodes |-> 0]
Stuck(r) == [r EXCEPT !.ok = FALSE]
OneMore(r) == [r EXCEPT !.nodes = @ + 1]

\* Values of the types of a sequence, one after the other from the progress r.
InTurn(builds, types, r) ==
    LET after[i \in 0 .. Len(types)] ==
            IF i = 0 THEN r ELSE builds[types[i]][after[i - 1]]
    IN  after[Len(types)]

\* What is built before a branch itself: the items of a list, the only branch
\* of an option and an or that can be chosen, both sides of a pair.
Arguments(n, count) ==
    CASE Kind(n) = "unit" -> <<>>
      [] Kind(n) = "pair" -> <<Arg(n, 1), Arg(n, 2)>>
      [] Kind(n) = "list" -> [i \in 1 .. count |-> Arg(n, 1)]
      [] OTHER -> <<Arg(n, 1)>>

\* build_value_node, from texts and counts and without the pool's limit: what
\* node n makes of the progress r, when builds makes its arguments.
ValueNode(builds, n, texts, items, r) ==
    LET leaf == Len(r.kinds) + 1
        list == r.lists + 1
    IN  IF ~r.ok THEN r
        ELSE IF Kind(n) \in LeafKinds
        THEN IF leaf <= Len(texts) /\ texts[leaf] \in Encodes[Kind(n)]
             THEN OneMore([r EXCEPT !.kinds = Append(@, Kind(n))]) ELSE Stuck(r)
        ELSE IF Kind(n) = "list"
        THEN IF list <= Len(items)
             THEN OneMore(InTurn(builds, Arguments(n, items[list]), [r EXCEPT !.lists = list]))
             ELSE Stuck(r)
        ELSE OneMore(InTurn(builds, Arguments(n, 1), r))
Builder(texts, items) ==
    LET builds[n \in Nodes] == [r \in Progress |-> ValueNode(builds, n, texts, items, r)]
    IN  builds

\* tezos_micheline_build_value: the kinds, in order, of the leaves built, or
\* NONE when it fails, as it does when anything is left over or the pool has
\* no room for every node; room is NONE for a pool without a limit.
Built(root, texts, items, room) ==
    LET all == Builder(texts, items)[root][Nothing]
    IN  IF /\ all.ok /\ Len(all.kinds) = Len(texts) /\ all.lists = Len(items)
           /\ room = NONE \/ all.nodes <= room
        THEN all.kinds ELSE NONE

TextsOf(submitted) == [i \in DOMAIN submitted |-> submitted[i].text]
KindsOf(submitted) == [i \in DOMAIN submitted |-> submitted[i].kind]

-----------------------------------------------------------------------------
(* The screen.                                                             *)

ExplorerInit ==
    /\ explorer = "closed"
    /\ address = NONE /\ found = NONE /\ foundAt = NONE
    /\ calling = NONE /\ walk = <<>> /\ element = NONE
    /\ leaves = <<>> /\ counts = <<>> /\ crowded = FALSE

\* A walk that is given up is forgotten by the next walker_init, here by the
\* BACK already; so is the rest by the next entry.
NoWalk ==
    /\ calling' = NONE /\ walk' = <<>> /\ element' = NONE
    /\ leaves' = <<>> /\ counts' = <<>> /\ crowded' = FALSE

\* The phase BACK leads to.
Below == [info |-> "address", entrypoints |-> "info", holdings |-> "info",
          leaf |-> "entrypoints", count |-> "entrypoints", result |-> "entrypoints"]

\* explorer_entry_screen.
OpenExplorer ==
    /\ Opens("explorer") /\ explorer' = "address"
    /\ UNCHANGED <<lookupVars, walkVars, askVars>>

LeaveExplorer ==
    /\ OnTop("explorer") /\ explorer = "address"
    /\ open' = NONE /\ explorer' = "closed"
    /\ address' = NONE /\ found' = NONE /\ foundAt' = NONE
    /\ NoWalk
    /\ UNCHANGED popupVars

\* LOOKUP: each of the fetches may fail; those of the activity and of the
\* holdings are only displayed.
\* Mutant: a failed fetch keeps the entrypoints of the previous address.
Lookup_Keeps(text, entrypoints) ==
    /\ OnTop("explorer") /\ explorer = "address"
    /\ explorer' = "info" /\ address' = text
    /\ IF entrypoints = NONE THEN UNCHANGED <<found, foundAt>>
       ELSE found' = entrypoints /\ foundAt' = text
    /\ UNCHANGED <<open, walkVars, popupVars>>
Lookup(text, entrypoints) ==
    /\ OnTop("explorer") /\ explorer = "address"
    /\ explorer' = "info" /\ address' = text
    /\ found' = entrypoints /\ foundAt' = text
    /\ UNCHANGED <<open, walkVars, popupVars>>

ChooseList ==
    /\ OnTop("explorer") /\ explorer = "info"
    /\ explorer' \in {"entrypoints", "holdings"}
    /\ UNCHANGED <<open, lookupVars, walkVars, popupVars>>

BackInExplorer ==
    /\ OnTop("explorer") /\ explorer \in DOMAIN Below
    /\ explorer' = Below[explorer]
    /\ IF Below[explorer] = "entrypoints" THEN NoWalk ELSE UNCHANGED walkVars
    /\ UNCHANGED <<open, lookupVars, popupVars>>

\* advance_walker, and the confirmation when the walk is over: the popup names
\* the entrypoint and the address.
Advance(stack) ==
    /\ walk' = Expanded[stack]
    /\ IF walk' = <<>>
       THEN /\ Ask([app |-> "explorer", to |-> address, entrypoint |-> calling',
                    leaves |-> leaves', counts |-> counts'])
            /\ UNCHANGED <<explorer, element>>
       ELSE /\ UNCHANGED popupVars
            /\ IF Kind(Last(walk')) = "list"
               THEN explorer' = "count" /\ element' = Arg(Last(walk'), 1)
               ELSE explorer' = "leaf" /\ UNCHANGED element

\* SELECT on an entrypoint whose type is known.
SelectEntrypoint(root) ==
    /\ OnTop("explorer") /\ explorer = "entrypoints"
    /\ found # NONE /\ root \in found
    /\ calling' = root
    /\ leaves' = <<>> /\ counts' = <<>> /\ crowded' = FALSE
    /\ Advance(<<root>>)
    /\ UNCHANGED <<open, lookupVars>>

\* tezos_micheline_walker_submit_leaf: nothing is checked but that a leaf is
\* awaited (it is not once the walk is over) and that there is room for it.
SubmitLeaf(text) ==
    /\ OnTop("explorer") /\ explorer = "leaf"
    /\ walk # <<>> /\ Kind(Last(walk)) \in LeafKinds
    /\ Len(leaves) < MaxNodes
    /\ leaves' = Append(leaves, [kind |-> Kind(Last(walk)), text |-> text])
    /\ UNCHANGED <<open, lookupVars, calling, counts, crowded>>
    /\ Advance(Front(walk))

\* atoi: a text that is no number counts as none.
CountOf(text) == IF text = NONE THEN 0 ELSE text

\* tezos_micheline_walker_submit_list_count accepts the count ...
CountAwaited(n) ==
    /\ walk # <<>> /\ Kind(Last(walk)) = "list"
    /\ n \in 0 .. MaxItems /\ Len(counts) < MaxLists

FitsOnStack(n) == Len(walk) - 1 + n <= MaxWalk

\* Mutant: one copy of the element type too few.
SubmitCount_Short(text) ==
    LET n == CountOf(text) IN
    /\ OnTop("explorer") /\ explorer = "count"
    /\ CountAwaited(n) /\ FitsOnStack(n)
    /\ counts' = Append(counts, n)
    /\ UNCHANGED <<open, lookupVars, calling, leaves, crowded>>
    /\ Advance(Front(walk) \o [i \in 1 .. (IF n = 0 THEN 0 ELSE n - 1) |-> element])
SubmitCount(text) ==
    LET n == CountOf(text) IN
    /\ OnTop("explorer") /\ explorer = "count"
    /\ CountAwaited(n) /\ FitsOnStack(n)
    /\ counts' = Append(counts, n)
    /\ UNCHANGED <<open, lookupVars, calling, leaves, crowded>>
    /\ Advance(Front(walk) \o [i \in 1 .. n |-> element])

\* ... or refuses it, when the copies do not fit, after it has recorded it and
\* popped the list; the screen stays as it is.
CountRefused(text) ==
    LET n == CountOf(text) IN
    /\ OnTop("explorer") /\ explorer = "count"
    /\ CountAwaited(n) /\ ~FitsOnStack(n)
    /\ counts' = Append(counts, n)
    /\ walk' = Front(walk) /\ crowded' = TRUE
    /\ UNCHANGED <<open, explorer, lookupVars, calling, element, leaves, popupVars>>

\* on_resume after CONFIRMED: perform_call, in the phases of a walk.
AcceptCall(outcome) ==
    /\ open = "explorer" /\ explorer \in {"leaf", "count"}
    /\ explorer' = "result"
    /\ IF Built(calling, TextsOf(leaves), counts, MaxNodes) = NONE
       THEN outcome = "no_signer" /\ AcceptIgnored
       ELSE Accept([app |-> "explorer", to |-> address, entrypoint |-> calling,
                    leaves |-> leaves, counts |-> counts], outcome)
    /\ UNCHANGED <<open, lookupVars, walkVars>>

\* on_resume in any other phase: an entrypoint without leaves is confirmed on
\* the list, and nothing is performed.
AcceptUnasked ==
    /\ open = "explorer" /\ explorer = "entrypoints"
    /\ AcceptIgnored
    /\ UNCHANGED <<open, explorerVars>>

RefuseCall ==
    /\ open = "explorer" /\ Refuse
    /\ UNCHANGED <<open, explorerVars>>

ExplorerNext ==
    \/ OpenExplorer \/ LeaveExplorer \/ ChooseList \/ BackInExplorer
    \/ \E text \in CallAddresses, entrypoints \in Found \cup {NONE} : Lookup(text, entrypoints)
    \/ \E root \in Roots : SelectEntrypoint(root)
    \/ \E text \in Texts : SubmitLeaf(text)
    \/ \E text \in CountTexts : SubmitCount(text) \/ CountRefused(text)
    \/ \E outcome \in Outcomes : AcceptCall(outcome)
    \/ AcceptUnasked \/ RefuseCall

-----------------------------------------------------------------------------
\* A call goes to the address whose entrypoints are on the list, and to one of
\* them, whatever was looked up before and which fetches failed.
CallOfAddress ==
    (explorer \in {"leaf", "count", "result"} \/ (open = "explorer" /\ asked # NONE))
        => found # NONE /\ calling \in found /\ foundAt = address

\* The walker asks for the values the type needs, in the order
\* tezos_micheline_build_value takes them ("matches
\* tezos_micheline_build_value's own args[0]-then-args[1] order"): when the
\* walk is over and every text encodes as what was asked for, the value
\* builds, each leaf as the kind it was asked as.  Excepted are a walk on which
\* a count was refused for want of room, and a value of more nodes than the
\* pool holds.
WalkBuilds ==
    (open = "explorer" /\ asked # NONE /\ ~crowded
        /\ \A i \in DOMAIN leaves : leaves[i].text \in Encodes[leaves[i].kind])
    => Built(calling, TextsOf(leaves), counts, NONE) = KindsOf(leaves)

\* No text is ever signed as a value of another kind than it was asked as,
\* also after a refused count has left the walker with the wrong element type.
SignedAsAsked ==
    \A i \in DOMAIN signed :
        signed[i].app = "explorer" =>
            Built(signed[i].entrypoint, TextsOf(signed[i].leaves), signed[i].counts, MaxNodes)
                = KindsOf(signed[i].leaves)
=============================================================================
