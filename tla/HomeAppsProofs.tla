--------------------------- MODULE HomeAppsProofs ---------------------------
(***************************************************************************)
(* Proofs about the apps of the home grid on one device, for any number of *)
(* apps opened and signatures made, any messages, addresses, pictures,     *)
(* sites, grids and networks.  Each app has an invariant of its own, kept  *)
(* by its own steps and left alone by those of the others; IInv puts       *)
(* together those that the popup connects, and WalkInv adds what the       *)
(* explorer's walk of a type says of the value built at its end.  The last *)
(* part is about the frames of the camera and the pictures made of them.   *)
(***************************************************************************)
EXTENDS HomeApps, SequenceTheorems, FiniteSetTheorems, WellFoundedInduction, TLAPS

-----------------------------------------------------------------------------
(* Induction over numbers, and functions whose values follow from the one  *)
(* before, as what reads a line character by character is.                 *)

\* The order of the numbers, as a set of pairs.
Smaller == {p \in Nat \X Nat : p[1] < p[2]}

\* A set of line numbers has a first one.
LEMMA LeastOfSet == ASSUME NEW S \in SUBSET Nat, S # {} PROVE \E n \in S : \A k \in S : n <= k
<1>1. OpToRel(<, Nat) = Smaller
  BY Zenon DEF OpToRel, Smaller
<1>2. IsWellFoundedOn(Smaller, Nat)
  BY <1>1, NatLessThanWellFounded, Zenon
<1>3. PICK n \in S : \A k \in S : <<k, n>> \notin Smaller
  BY <1>2, WFMin
<1>4. ASSUME NEW k \in S PROVE n <= k
  <2>1. <<k, n>> \in Nat \X Nat /\ <<k, n>> \notin Smaller
    BY <1>3
  <2>2. ~(k < n)
    BY <2>1 DEF Smaller
  <2> QED BY <2>2
<1> QED BY <1>4

\* Induction over the numbers, on the set of those of which something holds.
LEMMA Induction ==
    ASSUME NEW S \in SUBSET Nat, 0 \in S, \A n \in S : n + 1 \in S
    PROVE  \A n \in Nat : n \in S
<1> SUFFICES ASSUME Nat \ S # {}
             PROVE  FALSE
  OBVIOUS
<1>1. Nat \ S \in SUBSET Nat
  OBVIOUS
<1>2. PICK n \in Nat \ S : \A k \in Nat \ S : n <= k
  BY <1>1, LeastOfSet
<1>3. n # 0 /\ n - 1 \in Nat
  BY <1>2
<1>4. n - 1 \notin Nat \ S
  BY <1>2, <1>3
<1>5. n - 1 + 1 = n
  BY <1>2
<1> QED BY <1>2, <1>3, <1>4, <1>5

\* Induction over 0 .. N.
LEMMA BoundedInduction ==
    ASSUME NEW N \in Nat, NEW S, 0 \in S, \A n \in 0 .. N : n # N /\ n \in S => n + 1 \in S
    PROVE  \A n \in 0 .. N : n \in S
<1> DEFINE T == {n \in Nat : n \in S \/ n > N}
<1>1. T \in SUBSET Nat /\ 0 \in T
  OBVIOUS
<1>2. ASSUME NEW n \in T PROVE n + 1 \in T
  OBVIOUS
<1>3. \A n \in Nat : n \in T
  <2> HIDE DEF T
  <2> QED BY <1>1, <1>2, Induction
<1> QED BY <1>3

\* f starts with first, and each of its values follows from the one before.
Recurs(f, N, V, first, step) ==
    /\ f \in [0 .. N -> V] /\ f[0] = first
    /\ \A n \in 1 .. N : f[n] = step[<<n, f[n - 1]>>]

\* There is such a function for any first value and any step.
LEMMA Recursion ==
    ASSUME NEW N \in Nat, NEW V, NEW first \in V, NEW step \in [(1 .. N) \X V -> V]
    PROVE  \E f : Recurs(f, N, V, first, step)
<1> DEFINE Up(k, f) == /\ f \in [0 .. k -> V] /\ f[0] = first
                       /\ \A n \in 1 .. k : f[n] = step[<<n, f[n - 1]>>]
           S == {k \in 0 .. N : \E f \in [0 .. k -> V] : Up(k, f)}
<1>1. 0 \in S
  <2>1. Up(0, [n \in 0 .. 0 |-> first])
    OBVIOUS
  <2>2. [n \in 0 .. 0 |-> first] \in [0 .. 0 -> V] /\ 0 \in 0 .. N
    OBVIOUS
  <2> HIDE DEF Up
  <2> QED BY <2>1, <2>2
<1>2. ASSUME NEW k \in 0 .. N, k # N, k \in S PROVE k + 1 \in S
  <2>1. PICK f \in [0 .. k -> V] : Up(k, f)
    BY <1>2
  <2> DEFINE g == [n \in 0 .. k + 1 |-> IF n <= k THEN f[n] ELSE step[<<k + 1, f[k]>>]]
  <2>2. k \in Nat /\ k + 1 \in 1 .. N /\ f[k] \in V
    BY <1>2
  <2>3. step[<<k + 1, f[k]>>] \in V
    BY <2>2
  <2>4. g \in [0 .. k + 1 -> V] /\ g[0] = first
    BY <2>1, <2>2, <2>3
  <2>5. ASSUME NEW n \in 1 .. k + 1 PROVE g[n] = step[<<n, g[n - 1]>>]
    <3>1. CASE n <= k
      <4>1. n \in 1 .. k /\ n - 1 <= k /\ n - 1 \in 0 .. k + 1 /\ n \in 0 .. k + 1
        BY <2>2, <3>1
      <4>2. g[n] = f[n] /\ g[n - 1] = f[n - 1]
        BY <3>1, <4>1
      <4> QED BY <2>1, <4>1, <4>2
    <3>2. CASE n = k + 1
      <4>1. k <= k /\ ~(k + 1 <= k) /\ k \in 0 .. k + 1 /\ k + 1 \in 0 .. k + 1 /\ n - 1 = k
        BY <2>2, <3>2
      <4>2. g[n] = step[<<k + 1, f[k]>>] /\ g[n - 1] = f[k]
        BY <3>2, <4>1
      <4> QED BY <3>2, <4>2
    <3> QED BY <2>2, <3>1, <3>2
  <2>6. Up(k + 1, g)
    BY <2>4, <2>5
  <2>7. k + 1 \in 0 .. N
    BY <2>2
  <2> HIDE DEF Up, g
  <2> QED BY <2>4, <2>6, <2>7
<1>3. N \in 0 .. N /\ \A n \in 0 .. N : n \in S
  <2> HIDE DEF S
  <2> QED BY <1>1, <1>2, BoundedInduction
<1> QED BY <1>3 DEF Recurs


\* g does so wherever its values are of V.
Follows(g, N, V, first, step) ==
    /\ g = [n \in 0 .. N |-> g[n]] /\ g[0] = first
    /\ \A n \in 1 .. N : g[n - 1] \in V => g[n] = step[<<n, g[n - 1]>>]

\* They all are.
LEMMA FollowsThroughout ==
    ASSUME NEW N \in Nat, NEW V, NEW first \in V, NEW step \in [(1 .. N) \X V -> V],
           NEW g, Follows(g, N, V, first, step)
    PROVE  Recurs(g, N, V, first, step)
<1>1. /\ g = [n \in 0 .. N |-> g[n]] /\ g[0] = first
      /\ \A n \in 1 .. N : g[n - 1] \in V => g[n] = step[<<n, g[n - 1]>>]
  BY DEF Follows
<1> DEFINE S == {n \in 0 .. N : g[n] \in V}
<1>2. 0 \in S
  BY <1>1
<1>3. ASSUME NEW n \in 0 .. N, n # N, n \in S PROVE n + 1 \in S
  <2> DEFINE m == n + 1
  <2>1. m \in 1 .. N /\ m \in 0 .. N /\ m - 1 = n
    BY <1>3
  <2> HIDE DEF m
  <2>2. g[m] = step[<<m, g[n]>>] /\ <<m, g[n]>> \in (1 .. N) \X V
    BY <1>1, <1>3, <2>1
  <2>3. m \in S
    BY <2>1, <2>2
  <2> QED BY <2>3 DEF m
<1>4. \A n \in 0 .. N : n \in S
  <2> HIDE DEF S
  <2> QED BY <1>2, <1>3, BoundedInduction
<1>5. \A n \in 1 .. N : n - 1 \in 0 .. N
  OBVIOUS
<1>6. ASSUME NEW n \in 0 .. N PROVE g[n] \in V
  BY <1>4
<1>7. g \in [0 .. N -> V]
  BY <1>1, <1>6
<1>8. ASSUME NEW n \in 1 .. N PROVE g[n] = step[<<n, g[n - 1]>>]
  BY <1>1, <1>5, <1>6
<1> QED BY <1>1, <1>7, <1>8 DEF Recurs

-----------------------------------------------------------------------------
(* One app is open at a time, and only the app that is open moves the      *)
(* popup.                                                                  *)

\* The popup lies on one of the apps that sign.
PopupOK == asked # NONE => open \in SigningApps

\* What a step of the apps of these names may do to open and to the popup.
MovesOnly(apps) ==
    \/ UNCHANGED <<open, askVars>>
    \/ open' = open /\ open \in apps \cap SigningApps
    \/ /\ open \in apps \cup {NONE} /\ open' \in apps \cup {NONE}
       /\ open # NONE => asked = NONE
       /\ UNCHANGED askVars

\* An explorer's step leaves the popup and the choice of the app to the other
\* apps alone: explorer.c pushes the one popup only from its own screen.
LEMMA ExplorerMoves == ExplorerNext => MovesOnly({"explorer"})
<1> USE NoneAssumption DEF MovesOnly, OnTop, Opens, popupVars, askVars, Apps, SigningApps
<1>1. OpenExplorer \/ LeaveExplorer \/ ChooseList \/ BackInExplorer \/ AcceptUnasked \/ RefuseCall
        => MovesOnly({"explorer"})
  BY DEF OpenExplorer, LeaveExplorer, ChooseList, BackInExplorer, AcceptUnasked, RefuseCall,
         AcceptIgnored, Refuse
<1>2. ASSUME NEW text, NEW e, Lookup(text, e) \/ SelectEntrypoint(text) \/ SubmitLeaf(text)
                 \/ SubmitCount(text) \/ CountRefused(text) \/ AcceptCall(text)
      PROVE  MovesOnly({"explorer"})
  BY <1>2 DEF Lookup, SelectEntrypoint, SubmitLeaf, SubmitCount, CountRefused, AcceptCall
<1> QED BY <1>1, <1>2 DEF ExplorerNext

\* Nor does a step of the messenger (messenger.c).
LEMMA MessengerMoves == MessengerNext => MovesOnly({"messenger"})
<1> USE NoneAssumption DEF MovesOnly, OnTop, Opens, popupVars, askVars, Apps, SigningApps
<1>1. OpenMessenger \/ LeaveMessenger \/ Compose \/ RefuseMessage \/ BackInMessenger
        \/ ScrollInbox \/ OpenDetail \/ CloseDetail
        => MovesOnly({"messenger"})
  BY DEF OpenMessenger, LeaveMessenger, Compose, RefuseMessage, BackInMessenger,
         ScrollInbox, OpenDetail, CloseDetail, Refuse
<1>2. ASSUME NEW t, SetContract(t) \/ SubmitReceiver(t) \/ SubmitSubject(t) \/ SubmitContent(t)
                 \/ AcceptMessage(t) \/ FetchInbox(t)
      PROVE  MovesOnly({"messenger"})
  BY <1>2 DEF SetContract, SubmitReceiver, SubmitSubject, SubmitContent, AcceptMessage, FetchInbox
<1> QED BY <1>1, <1>2 DEF MessengerNext

\* The camera never asks.
LEMMA CameraMoves == CameraNext => MovesOnly({"camera"}) /\ UNCHANGED askVars
  BY DEF MovesOnly, OnTop, Opens, popupVars, askVars,
         CameraNext, OpenCamera, ChangeSettings, Capture, CameraBack, EnterMode, Scan

\* Nor does a step of the beacon wallet or of the camera that hands over to it.
LEMMA BeaconMoves == BeaconNext => MovesOnly({"beacon", "camera"})
<1> USE NoneAssumption DEF MovesOnly, OnTop, Opens, popupVars, askVars, Apps, SigningApps
<1>1. CameraNext => MovesOnly({"beacon", "camera"})
  BY CameraMoves
<1>2. OpenBeacon \/ LeaveBeacon \/ Deny \/ Approve \/ RefuseOperation \/ CloseResult
        => MovesOnly({"beacon", "camera"})
  BY DEF OpenBeacon, LeaveBeacon, Deny, Approve, RefuseOperation, CloseResult, Refuse
<1>3. ASSUME NEW t, NEW d, Pair(t) \/ DAppSends(t, d) \/ CheckNow(t)
      PROVE  MovesOnly({"beacon", "camera"})
  BY <1>3 DEF Pair, HandsOver, DAppSends, CheckNow
<1>4. ASSUME NEW t, NEW d, AcceptPermission(d) \/ AcceptOperation(t, d)
      PROVE  MovesOnly({"beacon", "camera"})
  BY <1>4 DEF AcceptPermission, AcceptOperation
<1> QED BY <1>1, <1>2, <1>3, <1>4 DEF BeaconNext

\* The tools never ask, and leave the choice of the app to the others.
LEMMA ToolsMove ==
    /\ GalleryNext  => MovesOnly({"gallery"}) /\ UNCHANGED askVars
    /\ DiscoverNext => MovesOnly({"discover"}) /\ UNCHANGED askVars
    /\ SnakeNext    => MovesOnly({"snake"}) /\ UNCHANGED askVars
    /\ WifiNext     => MovesOnly({"wifi"}) /\ UNCHANGED askVars
<1> USE NoneAssumption DEF MovesOnly, OnTop, Opens, popupVars, askVars, Apps, SigningApps
<1>1. GalleryNext => MovesOnly({"gallery"}) /\ UNCHANGED askVars
  BY DEF GalleryNext, OpenGallery, OpenToken, ViewToken, GalleryBack, PanToken
<1>2. DiscoverNext => MovesOnly({"discover"}) /\ UNCHANGED askVars
  BY DEF DiscoverNext, OpenDiscover, EnterAddress, Bookmark, Browse, ViewHolding, DiscoverBack,
         CloseDiscover, VisitTyped, VisitRow, Visit, OpenHolding, PanHolding
<1>3. SnakeNext => MovesOnly({"snake"}) /\ UNCHANGED askVars
  BY DEF SnakeNext, OpenSnake, AdvanceSnake, Restart, CloseSnake, Steer
<1>4. WifiNext => MovesOnly({"wifi"}) /\ UNCHANGED askVars
  BY DEF WifiNext, ChooseNetwork, EnterPassword, LeaveWifi, OpenWifi, MoveRow
<1> QED BY <1>1, <1>2, <1>3, <1>4

\* All of them together.
LEMMA ToolMoves == Tool => MovesOnly({"gallery", "discover", "snake", "wifi"}) /\ UNCHANGED askVars
  BY ToolsMove DEF Tool, MovesOnly

-----------------------------------------------------------------------------
(* Short tuples.                                                           *)

\* A field is appended to the one before it.
LEMMA AppendToOne == ASSUME NEW a, NEW b PROVE Append(<<a>>, b) = <<a, b>>
<1> DEFINE S == {a, b}
<1>1. <<a>> \in Seq(S) /\ <<a, b>> \in Seq(S) /\ b \in S
  OBVIOUS
<1>2. Append(<<a>>, b) \in Seq(S) /\ Len(Append(<<a>>, b)) = 2
  BY <1>1
<1>3. \A i \in 1 .. 2 : Append(<<a>>, b)[i] = <<a, b>>[i]
  BY <1>1
<1> HIDE DEF S
<1> QED BY <1>1, <1>2, <1>3, SeqEqual

\* A third element.
LEMMA AppendToTwo == ASSUME NEW a, NEW b, NEW c PROVE Append(<<a, b>>, c) = <<a, b, c>>
<1> DEFINE S == {a, b, c}
<1>1. <<a, b>> \in Seq(S) /\ <<a, b, c>> \in Seq(S) /\ c \in S
  OBVIOUS
<1>2. Append(<<a, b>>, c) \in Seq(S) /\ Len(Append(<<a, b>>, c)) = 3
  BY <1>1
<1>3. \A i \in 1 .. 3 : Append(<<a, b>>, c)[i] = <<a, b, c>>[i]
  BY <1>1
<1> HIDE DEF S
<1> QED BY <1>1, <1>2, <1>3, SeqEqual

\* The third field, when it is entered again, replaces itself.
LEMMA FirstTwo ==
    ASSUME NEW a, NEW b, NEW c
    PROVE  SubSeq(<<a, b>>, 1, 2) = <<a, b>> /\ SubSeq(<<a, b, c>>, 1, 2) = <<a, b>>
<1> DEFINE S == {a, b, c}
<1>1. <<a, b>> \in Seq(S) /\ <<a, b, c>> \in Seq(S)
  OBVIOUS
<1>2. Len(SubSeq(<<a, b, c>>, 1, 2)) = 2 /\ SubSeq(<<a, b, c>>, 1, 2) \in Seq(S)
  BY <1>1, SubSeqProperties
<1>3. \A i \in 1 .. 2 : SubSeq(<<a, b, c>>, 1, 2)[i] = <<a, b>>[i]
  BY <1>1, SubSeqProperties
<1> HIDE DEF S
<1>4. SubSeq(<<a, b, c>>, 1, 2) = <<a, b>>
  BY <1>1, <1>2, <1>3, SeqEqual
<1> QED BY <1>1, <1>4, SubSeqFull

-----------------------------------------------------------------------------
(* The messenger and the explorer: the popup on top of either asks what     *)
(* was entered, and goes where it was entered for.                          *)

Phases == {"closed", "home", "not_configured", "receiver", "subject", "content", "result",
           "inbox", "detail"}

\* A phase of composing bears out what was entered before it; the messenger
\* is closed while another app is open.
MessengerOK ==
    /\ messenger \in Phases /\ contract \in Contracts \cup {NONE}
    /\ open # "messenger" => messenger = "closed"
    /\ messenger \in {"receiver", "subject", "content"} => contract # NONE
    /\ messenger = "subject" => \E a \in Written : receiver = ReceiverKept[a] /\ composed = <<a>>
    /\ messenger = "content" => \E a, b \in Written :
          /\ receiver = ReceiverKept[a] /\ subject = SubjectKept[b]
          /\ composed \in {<<a, b>>, <<a, b, content>>}
    /\ open = "messenger" /\ asked # NONE =>
          /\ messenger = "content" /\ content \in Written
          /\ \E a, b \in Written : receiver = ReceiverKept[a] /\ subject = SubjectKept[b]
                                    /\ composed = <<a, b, content>>
          /\ asked = [app |-> "messenger", to |-> contract,
                      receiver |-> receiver, subject |-> subject, content |-> content]

Lookups == {"info", "entrypoints", "holdings", "leaf", "count", "result"}

\* What is on the screen belongs to the address that was looked up, and the
\* call that is asked for is the one that was walked through.
ExplorerOK ==
    /\ explorer \in {"closed", "address"} \cup Lookups
    /\ open # "explorer" => explorer = "closed"
    /\ explorer \in Lookups => address \in CallAddresses /\ foundAt = address
    /\ explorer \in {"leaf", "count", "result"} => found # NONE /\ calling \in found \cap Roots
    /\ leaves \in Seq([kind : LeafKinds, text : Texts]) /\ counts \in Seq(Nat)
    /\ open = "explorer" /\ asked # NONE =>
          /\ explorer \in {"entrypoints", "leaf", "count"}
          /\ found # NONE /\ calling \in found \cap Roots
          /\ asked = [app |-> "explorer", to |-> address, entrypoint |-> calling,
                      leaves |-> leaves, counts |-> counts]

\* A step of another app.
LEMMA MessengerFrame ==
    ASSUME NEW apps, "messenger" \notin apps, MovesOnly(apps), UNCHANGED messengerVars, MessengerOK
    PROVE  MessengerOK'
  BY NoneAssumption DEF MovesOnly, MessengerOK, messengerVars, fieldVars, inboxVars, askVars,
                        Apps, SigningApps

\* The same, for the explorer.
LEMMA ExplorerFrame ==
    ASSUME NEW apps, "explorer" \notin apps, MovesOnly(apps), UNCHANGED explorerVars, ExplorerOK
    PROVE  ExplorerOK'
  BY NoneAssumption DEF MovesOnly, ExplorerOK, explorerVars, lookupVars, walkVars, askVars,
                        Apps, SigningApps

\* The steps of the messenger.
LEMMA MessengerStep == PopupOK /\ MessengerOK /\ MessengerNext => MessengerOK'
<1> SUFFICES ASSUME PopupOK, MessengerOK, MessengerNext PROVE MessengerOK'
  OBVIOUS
<1> USE NoneAssumption DEF MessengerOK, Phases, fieldVars, inboxVars, popupVars, askVars, OnTop,
                           Apps, SigningApps
<1>1. ASSUME NEW c \in Contracts \cup {NONE}, SetContract(c) PROVE MessengerOK'
  BY <1>1 DEF SetContract
<1>2. CASE OpenMessenger \/ LeaveMessenger \/ Compose
  <2>1. CASE OpenMessenger
    BY <2>1 DEF OpenMessenger, Opens, PopupOK
  <2>2. CASE LeaveMessenger
    BY <2>2 DEF LeaveMessenger
  <2>3. CASE Compose
    BY <2>3 DEF Compose
  <2> QED BY <1>2, <2>1, <2>2, <2>3
<1>3. ASSUME NEW text \in Written, SubmitReceiver(text) PROVE MessengerOK'
  BY <1>3 DEF SubmitReceiver
<1>4. ASSUME NEW text \in Written, SubmitSubject(text) PROVE MessengerOK'
  <2>1. PICK a \in Written : receiver = ReceiverKept[a] /\ composed = <<a>>
    BY <1>4 DEF SubmitSubject
  <2>2. composed' = <<a, text>>
    BY <1>4, <2>1, AppendToOne DEF SubmitSubject
  <2> QED BY <1>4, <2>1, <2>2 DEF SubmitSubject
<1>5. ASSUME NEW text \in Written, SubmitContent(text) PROVE MessengerOK'
  <2>1. /\ messenger = "content" /\ content' = text /\ UNCHANGED <<receiver, subject>>
        /\ composed' = Append(SubSeq(composed, 1, 2), text)
        /\ UNCHANGED <<open, messenger, contract>>
        /\ asked' = Message
    BY <1>5 DEF SubmitContent, Ask
  <2>2. PICK a \in Written, b \in Written :
            /\ receiver = ReceiverKept[a] /\ subject = SubjectKept[b]
            /\ composed \in {<<a, b>>, <<a, b, content>>}
    BY <2>1
  <2>3. SubSeq(composed, 1, 2) = <<a, b>>
    BY <2>2, FirstTwo
  <2>4. composed' = <<a, b, text>>
    BY <2>1, <2>3, AppendToTwo
  <2> QED BY <2>1, <2>2, <2>4 DEF Message
<1>6. ASSUME NEW outcome \in Outcomes, AcceptMessage(outcome) PROVE MessengerOK'
  BY <1>6 DEF AcceptMessage, Accept, AcceptIgnored
<1>7. CASE RefuseMessage \/ BackInMessenger
  BY <1>7 DEF RefuseMessage, Refuse, BackInMessenger, messengerVars
<1>8. ASSUME NEW received, FetchInbox(received) PROVE MessengerOK'
  BY <1>8 DEF FetchInbox
<1>9. CASE ScrollInbox \/ OpenDetail \/ CloseDetail
  BY <1>9 DEF ScrollInbox, OpenDetail, CloseDetail
<1> QED BY <1>1, <1>2, <1>3, <1>4, <1>5, <1>6, <1>7, <1>8, <1>9 DEF MessengerNext

\* advance_walker, from a step that leaves the address and the entrypoint.
LEMMA AdvanceOK ==
    ASSUME ExplorerOK, OnTop("explorer"), NEW stack, Advance(stack),
           UNCHANGED <<open, lookupVars>>, explorer \in {"entrypoints", "leaf", "count"},
           found # NONE, calling' \in found \cap Roots,
           leaves' \in Seq([kind : LeafKinds, text : Texts]), counts' \in Seq(Nat)
    PROVE  ExplorerOK'
<1> USE DEF ExplorerOK, Lookups, lookupVars, popupVars, askVars, OnTop
<1>1. CASE walk' = <<>>
  BY <1>1 DEF Advance, Ask
<1>2. CASE walk' # <<>>
  BY <1>2 DEF Advance
<1> QED BY <1>1, <1>2

\* The steps of the explorer.
LEMMA ExplorerStep == PopupOK /\ ExplorerOK /\ ExplorerNext => ExplorerOK'
<1> SUFFICES ASSUME PopupOK, ExplorerOK, ExplorerNext PROVE ExplorerOK'
  OBVIOUS
<1> USE NoneAssumption DEF ExplorerOK, Lookups, lookupVars, walkVars, popupVars, askVars, OnTop,
                           Apps, SigningApps
<1>1. CASE OpenExplorer \/ LeaveExplorer \/ ChooseList \/ BackInExplorer
  <2>1. CASE OpenExplorer
    BY <2>1 DEF OpenExplorer, Opens, PopupOK
  <2>2. CASE LeaveExplorer
    BY <2>2 DEF LeaveExplorer, NoWalk
  <2>3. CASE ChooseList
    BY <2>3 DEF ChooseList
  <2>4. CASE BackInExplorer
    <3>1. /\ explorer \in Lookups /\ explorer' = Below[explorer]
          /\ Below[explorer] \in {"address", "info", "entrypoints"}
      BY <2>4 DEF BackInExplorer, Below
    <3>2. CASE Below[explorer] = "entrypoints"
      BY <2>4, <3>1, <3>2 DEF BackInExplorer, NoWalk
    <3>3. CASE Below[explorer] # "entrypoints"
      BY <2>4, <3>1, <3>3 DEF BackInExplorer
    <3> QED BY <3>2, <3>3
  <2> QED BY <1>1, <2>1, <2>2, <2>3, <2>4
<1>2. ASSUME NEW text \in CallAddresses, NEW entrypoints, Lookup(text, entrypoints)
      PROVE  ExplorerOK'
  BY <1>2 DEF Lookup
<1>3. ASSUME NEW root \in Roots, SelectEntrypoint(root) PROVE ExplorerOK'
  <2>1. /\ OnTop("explorer") /\ Advance(<<root>>) /\ UNCHANGED <<open, lookupVars>>
        /\ explorer = "entrypoints" /\ found # NONE /\ calling' = root /\ root \in found
        /\ leaves' = <<>> /\ counts' = <<>>
    BY <1>3 DEF SelectEntrypoint
  <2> QED BY <2>1, AdvanceOK
<1>4. ASSUME NEW text \in Texts, SubmitLeaf(text) PROVE ExplorerOK'
  <2>1. [kind |-> Kind(Last(walk)), text |-> text] \in [kind : LeafKinds, text : Texts]
    BY <1>4 DEF SubmitLeaf
  <2>2. /\ OnTop("explorer") /\ Advance(Front(walk)) /\ UNCHANGED <<open, lookupVars>>
        /\ explorer = "leaf" /\ calling' = calling /\ counts' = counts
        /\ leaves' = Append(leaves, [kind |-> Kind(Last(walk)), text |-> text])
    BY <1>4 DEF SubmitLeaf
  <2>3. leaves' \in Seq([kind : LeafKinds, text : Texts])
    BY <2>1, <2>2
  <2> QED BY <2>2, <2>3, AdvanceOK
<1>5. ASSUME NEW text \in CountTexts, SubmitCount(text) PROVE ExplorerOK'
  <2> DEFINE n == CountOf(text)
             stack == Front(walk) \o [i \in 1 .. n |-> element]
  <2>1. /\ OnTop("explorer") /\ Advance(stack) /\ UNCHANGED <<open, lookupVars>>
        /\ explorer = "count" /\ calling' = calling /\ leaves' = leaves
        /\ n \in 0 .. MaxItems /\ counts' = Append(counts, n)
    BY <1>5 DEF SubmitCount, CountAwaited
  <2>2. counts' \in Seq(Nat)
    BY <2>1, ExplorerAssumption
  <2> HIDE DEF stack
  <2> QED BY <2>1, <2>2, AdvanceOK
<1>6. ASSUME NEW text \in CountTexts, CountRefused(text) PROVE ExplorerOK'
  <2>1. counts' \in Seq(Nat)
    BY <1>6, ExplorerAssumption DEF CountRefused, CountAwaited
  <2> QED BY <1>6, <2>1 DEF CountRefused
<1>7. ASSUME NEW outcome \in Outcomes, AcceptCall(outcome) PROVE ExplorerOK'
  BY <1>7 DEF AcceptCall, Accept, AcceptIgnored
<1>8. CASE AcceptUnasked \/ RefuseCall
  BY <1>8 DEF AcceptUnasked, AcceptIgnored, RefuseCall, Refuse, explorerVars
<1> QED BY <1>1, <1>2, <1>3, <1>4, <1>5, <1>6, <1>7, <1>8 DEF ExplorerNext

-----------------------------------------------------------------------------
(* The beacon wallet: what was answered or signed for is read again only if *)
(* the sync that brought it left since where it was.                        *)

AllOperations == Calls \cup Sends \cup Requested
MatrixMessages == [kind : Requests \cup Unreadable, id : Nat, ops : Nat]
Responses == [request : Nat, kind : Requests, hash : Nat, fetch : Nat]

\* What was signed and answered for the request of this number was on the
\* screen by syncs that left since where it was.
OnlyKept(id) ==
    /\ \A i \in DOMAIN signed : signed[i].app = "beacon" /\ signed[i].request = id =>
          fetches[signed[i].fetch] = "kept"
    /\ \A i \in DOMAIN responses : responses[i].request = id => fetches[responses[i].fetch] = "kept"

\* The messages the next sync may read.
Unread == {i \in 1 .. Len(room) : i > since /\ room[i].kind # "own"}

BeaconTypeOK ==
    /\ beacon \in {"closed", "no_session", "active", "result"} \cup Requests
    /\ room \in Seq(MatrixMessages) /\ since \in Nat /\ issued \in Nat
    /\ responses \in Seq(Responses) /\ signed \in Seq(AllOperations)
    /\ fetches \in Seq({"moved", "kept"})

\* The numbers of the dApp's messages, and those of the fetches, only grow.
IssuedOK ==
    /\ \A i \in DOMAIN signed : signed[i].app = "beacon" =>
          signed[i].request \in 0 .. issued /\ signed[i].fetch \in 1 .. Len(fetches)
    /\ \A i \in DOMAIN responses :
          responses[i].request \in 0 .. issued /\ responses[i].fetch \in 1 .. Len(fetches)
    /\ \A i \in Unread : room[i].id \in 0 .. issued /\ OnlyKept(room[i].id)

\* The request on the screen was not signed for or answered since it was
\* fetched, and is still to be read only if since was left where it was.
PendingOK ==
    /\ open # "beacon" => beacon = "closed"
    /\ beacon \in Requests =>
          /\ pending \in MatrixMessages /\ pending.kind = beacon
          /\ pending.id \in 0 .. issued /\ OnlyKept(pending.id) /\ fetches # <<>>
          /\ \A i \in DOMAIN signed : signed[i].app = "beacon" => signed[i].fetch < Len(fetches)
          /\ \A i \in DOMAIN responses : responses[i].fetch < Len(fetches)
          /\ fetches[Len(fetches)] = "kept" \/ \A i \in Unread : room[i].id # pending.id
    /\ open = "beacon" /\ asked # NONE => beacon \in Requests /\ asked = Operation

BeaconOK == BeaconTypeOK /\ IssuedOK /\ PendingOK /\ SignedOncePerRequest /\ ResponsesAnswer

IInv == PopupOK /\ MessengerOK /\ ExplorerOK /\ BeaconOK

\* What an Append leaves of the operations signed so far.
LEMMA SignedAppend ==
    ASSUME signed \in Seq(AllOperations), NEW op \in AllOperations, signed' = Append(signed, op)
    PROVE  /\ signed' \in Seq(AllOperations)
           /\ DOMAIN signed = 1 .. Len(signed) /\ DOMAIN signed' = 1 .. Len(signed) + 1
           /\ Len(signed) \in Nat /\ Len(signed') = Len(signed) + 1
           /\ \A i \in DOMAIN signed : signed'[i] = signed[i]
           /\ signed'[Len(signed) + 1] = op
  OBVIOUS

\* A step that leaves the room and the screen, and signs nothing of theirs.
LEMMA BeaconStays ==
    ASSUME BeaconOK, UNCHANGED beaconVars,
           signed' = signed \/ (\E op \in AllOperations : op.app # "beacon" /\ signed' = Append(signed, op)),
           open' # "beacon" => beacon = "closed",
           open' = "beacon" /\ asked' # NONE => beacon \in Requests /\ asked' = Operation
    PROVE  BeaconOK'
<1> USE DEF BeaconOK, beaconVars, roomVars
<1>1. BeaconTypeOK'
  BY SignedAppend DEF BeaconTypeOK
<1>2. \A i \in DOMAIN signed' : signed'[i].app = "beacon" =>
          i \in DOMAIN signed /\ signed'[i] = signed[i]
  <2>1. CASE signed' = signed
    BY <2>1
  <2>2. ASSUME NEW op \in AllOperations, op.app # "beacon", signed' = Append(signed, op),
               NEW i \in DOMAIN signed', signed'[i].app = "beacon"
        PROVE  i \in DOMAIN signed /\ signed'[i] = signed[i]
    <3>1. /\ DOMAIN signed = 1 .. Len(signed) /\ i \in 1 .. Len(signed) + 1
          /\ Len(signed) \in Nat
          /\ \A k \in DOMAIN signed : signed'[k] = signed[k]
          /\ signed'[Len(signed) + 1] = op
      <4>1. signed \in Seq(AllOperations)
        BY DEF BeaconTypeOK
      <4>2. i \in DOMAIN signed'
        BY <2>2
      <4> QED BY <2>2, <4>1, <4>2, SignedAppend
    <3>2. i # Len(signed) + 1
      BY <2>2, <3>1
    <3> QED BY <3>1, <3>2
  <2> QED BY <2>1, <2>2
<1>3. \A i \in DOMAIN signed : i \in DOMAIN signed' /\ signed'[i] = signed[i]
  BY SignedAppend DEF BeaconTypeOK
<1>4. Unread' = Unread /\ Operation' = Operation /\ \A id : OnlyKept(id) => OnlyKept(id)'
  BY <1>2 DEF Unread, Operation, OnlyKept
<1>5. IssuedOK'
  BY <1>2, <1>4 DEF IssuedOK
<1>6. PendingOK'
  BY <1>4 DEF PendingOK
<1>7. SignedOncePerRequest'
  BY <1>2 DEF SignedOncePerRequest
<1>8. ResponsesAnswer'
  BY <1>3 DEF ResponsesAnswer
<1> QED BY <1>1, <1>5, <1>6, <1>7, <1>8

\* A step of another app; the one popup asks for that app then.
LEMMA BeaconFrame ==
    ASSUME BeaconOK, NEW apps, "beacon" \notin apps, MovesOnly(apps), UNCHANGED beaconVars,
           signed' = signed \/ (\E op \in AllOperations : op.app # "beacon" /\ signed' = Append(signed, op))
    PROVE  BeaconOK'
<1>1. open' # "beacon" => beacon = "closed"
  BY NoneAssumption DEF MovesOnly, BeaconOK, PendingOK, Apps, SigningApps
<1>2. open' = "beacon" /\ asked' # NONE => beacon \in Requests /\ asked' = Operation
  BY NoneAssumption DEF MovesOnly, BeaconOK, PendingOK, Apps, SigningApps, askVars
<1> QED BY <1>1, <1>2, BeaconStays

\* The first request that is read is one of those not read before.
LEMMA FirstRequestOK ==
    ASSUME BeaconOK, FirstRequest # NONE
    PROVE  \E i \in Unread : FirstRequest = room[i] /\ room[i].kind \in Requests
<1> DEFINE requests == {i \in Fetched : room[i].kind \in Requests}
<1>1. Len(room) \in Nat /\ since \in Nat
  BY DEF BeaconOK, BeaconTypeOK
<1>2. Fetched \subseteq Unread
  BY <1>1 DEF Fetched, Synced, Unread
<1>3. requests # {} /\ FirstRequest = room[Min(requests)]
  BY DEF FirstRequest
<1>4. Fetched \subseteq Nat
  BY <1>1, <1>2 DEF Unread
<1>5. Min(requests) \in requests
  <2>1. requests \in SUBSET Nat
    BY <1>4
  <2> HIDE DEF requests
  <2>2. \E n \in requests : \A k \in requests : n <= k
    BY <1>3, <2>1, LeastOfSet
  <2> QED BY <2>2 DEF Min
<1> QED BY <1>2, <1>3, <1>5

\* Opening, leaving and what comes from the camera.
LEMMA BeaconEntryStep ==
    ASSUME PopupOK, BeaconOK, OpenBeacon \/ LeaveBeacon \/ (\E ok \in BOOLEAN : Pair(ok))
    PROVE  BeaconOK'
<1> USE NoneAssumption DEF BeaconOK, BeaconTypeOK, IssuedOK, PendingOK, OnlyKept, Unread, Requests,
            SignedOncePerRequest, ResponsesAnswer, roomVars, popupVars, askVars, OnTop,
            Apps, SigningApps, PopupOK
<1>1. CASE OpenBeacon
  BY <1>1 DEF OpenBeacon, Opens
<1>2. CASE LeaveBeacon
  BY <1>2 DEF LeaveBeacon
<1>3. ASSUME NEW ok \in BOOLEAN, Pair(ok) PROVE BeaconOK'
  BY <1>3 DEF Pair, HandsOver
<1> QED BY <1>1, <1>2, <1>3

\* The dApp's next message has a number of its own.
LEMMA DAppSendsStep ==
    ASSUME BeaconOK, NEW kind \in Requests \cup {"other"}, NEW ops \in Nat, DAppSends(kind, ops)
    PROVE  BeaconOK'
<1> DEFINE m == [kind |-> kind, id |-> issued + 1, ops |-> ops]
<1> USE DEF BeaconOK
<1>1. /\ room' = Append(room, m) /\ issued' = issued + 1 /\ m \in MatrixMessages
      /\ UNCHANGED <<open, askVars, beacon, since, pending, responses, fetches>>
  BY DEF DAppSends, popupVars, MatrixMessages, BeaconTypeOK, Unreadable
<1>2. BeaconTypeOK'
  BY <1>1 DEF BeaconTypeOK, askVars
<1>3. \A i \in Unread' : (i \in Unread /\ room'[i] = room[i]) \/ room'[i].id = issued + 1
  BY <1>1 DEF Unread, BeaconTypeOK
<1>4. OnlyKept(issued + 1)
  BY DEF IssuedOK, OnlyKept, BeaconTypeOK, Responses
<1>5. /\ signed' = signed /\ responses' = responses /\ issued \in Nat /\ fetches' = fetches
      /\ \A id : OnlyKept(id) => OnlyKept(id)'
  BY <1>1 DEF OnlyKept, BeaconTypeOK, askVars
<1>6. IssuedOK'
  <2>1. \A i \in Unread' : room'[i].id \in 0 .. issued + 1 /\ OnlyKept(room'[i].id)
    <3> SUFFICES ASSUME NEW i \in Unread' PROVE room'[i].id \in 0 .. issued + 1 /\ OnlyKept(room'[i].id)
      OBVIOUS
    <3>1. CASE i \in Unread /\ room'[i] = room[i]
      <4>1. room[i].id \in 0 .. issued /\ OnlyKept(room[i].id)
        BY <3>1 DEF IssuedOK
      <4> QED BY <3>1, <4>1, <1>5
    <3>2. CASE room'[i].id = issued + 1
      BY <3>2, <1>4, <1>5
    <3> QED BY <3>1, <3>2, <1>3
  <2>2. /\ \A i \in DOMAIN signed : signed[i].app = "beacon" =>
              signed[i].request \in 0 .. issued + 1 /\ signed[i].fetch \in 1 .. Len(fetches)
        /\ \A i \in DOMAIN responses :
              responses[i].request \in 0 .. issued + 1 /\ responses[i].fetch \in 1 .. Len(fetches)
    BY <1>5 DEF IssuedOK
  <2> QED BY <1>1, <1>5, <2>1, <2>2 DEF IssuedOK
<1>7. PendingOK'
  <2>1. open' # "beacon" => beacon' = "closed"
    BY <1>1 DEF PendingOK
  <2>2. beacon \in Requests => pending.id \in 0 .. issued + 1 /\ pending.id # issued + 1
    BY <1>5 DEF PendingOK, MatrixMessages
  <2>3. beacon \in Requests =>
            fetches[Len(fetches)] = "kept" \/ \A i \in Unread' : room'[i].id # pending.id
    BY <1>3, <2>2 DEF PendingOK
  <2>4. open' = "beacon" /\ asked' # NONE => beacon' \in Requests /\ asked' = Operation'
    BY <1>1 DEF PendingOK, Operation, askVars
  <2> QED BY <1>1, <1>5, <2>1, <2>2, <2>3, <2>4 DEF PendingOK
<1>8. SignedOncePerRequest' /\ ResponsesAnswer'
  BY <1>1 DEF SignedOncePerRequest, ResponsesAnswer, askVars
<1> QED BY <1>2, <1>6, <1>7, <1>8

\* CHECK NOW puts a request on the screen by a fetch of its own, or none.
LEMMA CheckNowStep ==
    ASSUME BeaconOK, NEW synced \in {"none", "moved", "kept"}, CheckNow(synced)
    PROVE  BeaconOK'
<1> USE DEF BeaconOK, popupVars, askVars
<1>1. /\ OnTop("beacon") /\ beacon = "active"
      /\ UNCHANGED <<open, asked, signed, room, responses, issued>>
      /\ since' = IF synced = "moved" THEN Len(room) ELSE since
      /\ synced # "none" => Received(synced)
  BY DEF CheckNow
<1>2. since' \in Nat /\ Unread' \subseteq Unread /\ (synced = "moved" => Unread' = {})
  BY <1>1 DEF Unread, BeaconTypeOK
<1>3. CASE UNCHANGED <<beacon, pending, fetches>>
  BY <1>1, <1>2, <1>3 DEF BeaconTypeOK, IssuedOK, PendingOK, OnlyKept, Requests,
                          SignedOncePerRequest, ResponsesAnswer, OnTop
<1>4. CASE synced # "none" /\ FirstRequest # NONE
  <2>1. PICK i \in Unread : FirstRequest = room[i] /\ room[i].kind \in Requests
    BY <1>4, FirstRequestOK
  <2>2. /\ pending' = room[i] /\ beacon' = room[i].kind /\ room[i] \in MatrixMessages
        /\ fetches' = Append(fetches, synced)
    BY <1>1, <1>4, <2>1 DEF Received, Unread, BeaconTypeOK
  <2>3. /\ fetches' \in Seq({"moved", "kept"}) /\ Len(fetches') = Len(fetches) + 1
        /\ Len(fetches) \in Nat /\ fetches'[Len(fetches')] = synced
        /\ \A n \in 1 .. Len(fetches) : fetches'[n] = fetches[n]
    <3>1. fetches \in Seq({"moved", "kept"}) /\ synced \in {"moved", "kept"}
      BY <1>4 DEF BeaconTypeOK
    <3> QED BY <2>2, <3>1
  <2>4. \A id : OnlyKept(id) => OnlyKept(id)'
    BY <1>1, <2>3 DEF OnlyKept, IssuedOK
  <2>5. BeaconTypeOK'
    BY <1>1, <1>2, <2>1, <2>2, <2>3 DEF BeaconTypeOK
  <2>6. IssuedOK'
    BY <1>1, <1>2, <2>3, <2>4 DEF IssuedOK
  <2>7. room[i].id \in 0 .. issued /\ OnlyKept(room[i].id)'
    BY <1>1, <2>1, <2>4 DEF IssuedOK
  <2>8. /\ \A k \in DOMAIN signed : signed[k].app = "beacon" => signed[k].fetch < Len(fetches')
        /\ \A k \in DOMAIN responses : responses[k].fetch < Len(fetches')
    BY <2>3 DEF IssuedOK
  <2>9. fetches' # <<>> /\ (synced = "kept" \/ Unread' = {})
    BY <1>2, <1>4, <2>3
  <2>10. PendingOK'
    BY <1>1, <2>1, <2>2, <2>3, <2>7, <2>8, <2>9 DEF PendingOK, OnTop
  <2>11. SignedOncePerRequest'
    BY <1>1, <2>3 DEF SignedOncePerRequest, IssuedOK
  <2>12. ResponsesAnswer'
    BY <1>1, <2>3 DEF ResponsesAnswer, IssuedOK
  <2> QED BY <2>5, <2>6, <2>10, <2>11, <2>12
<1> QED BY <1>1, <1>3, <1>4 DEF CheckNow, Received

\* A request that is performed is signed for or answered, or both, for the
\* first time since it was fetched, and no other is touched.
LEMMA PerformStep ==
    ASSUME BeaconOK, beacon \in Requests, beacon' = "result", asked' = NONE, open' = open,
           open = "beacon", UNCHANGED <<since, pending, issued, fetches>>,
           NEW delivered \in BOOLEAN, NEW hash \in Nat, Respond(delivered, hash),
           signed' \in {signed, Append(signed, Operation)},
           pending.kind = "operation" /\ delivered =>
               signed' = Append(signed, Operation) /\ hash = Len(signed')
    PROVE  BeaconOK'
<1> USE DEF BeaconOK
<1> DEFINE r == [request |-> pending.id, kind |-> pending.kind, hash |-> hash, fetch |-> Len(fetches)]
           own == [kind |-> "own", id |-> pending.id, ops |-> 0]
<1>1. /\ pending \in MatrixMessages /\ pending.kind \in Requests /\ issued \in Nat
      /\ pending.id \in 0 .. issued /\ OnlyKept(pending.id)
      /\ Len(fetches) \in Nat \ {0}
      /\ \A i \in DOMAIN signed : signed[i].app = "beacon" => signed[i].fetch < Len(fetches)
      /\ \A i \in DOMAIN responses : responses[i].fetch < Len(fetches)
      /\ fetches[Len(fetches)] = "kept" \/ \A i \in Unread : room[i].id # pending.id
  BY DEF PendingOK, BeaconTypeOK
<1>2. Operation \in AllOperations /\ r \in Responses /\ own \in MatrixMessages
  BY <1>1 DEF Operation, AllOperations, Requested, Responses, MatrixMessages, Unreadable
<1>3. /\ responses' \in Seq(Responses) /\ responses \in Seq(Responses)
      /\ \A i \in DOMAIN responses' :
            \/ i \in DOMAIN responses /\ responses'[i] = responses[i]
            \/ responses'[i] = r /\ i = Len(responses) + 1 /\ delivered
  <2> HIDE DEF r
  <2>1. CASE ~delivered
    BY <2>1 DEF Respond, BeaconTypeOK
  <2>2. CASE delivered
    <3>1. responses \in Seq(Responses) /\ responses' = Append(responses, r)
      BY <2>2 DEF Respond, BeaconTypeOK, r
    <3> QED BY <1>2, <2>2, <3>1
  <2> QED BY <2>1, <2>2
<1>4. room' \in Seq(MatrixMessages) /\ Unread' = Unread
      /\ \A i \in Unread : room'[i] = room[i]
  <2>1. CASE ~delivered
    BY <2>1 DEF Respond, BeaconTypeOK, Unread
  <2>2. CASE delivered
    <3>1. /\ room \in Seq(MatrixMessages) /\ room' = Append(room, own) /\ own.kind = "own"
          /\ since \in Nat
      BY <2>2 DEF Respond, BeaconTypeOK
    <3> HIDE DEF own
    <3>2. /\ room' \in Seq(MatrixMessages) /\ Len(room') = Len(room) + 1 /\ Len(room) \in Nat
          /\ \A i \in 1 .. Len(room) : room'[i] = room[i]
          /\ room'[Len(room) + 1] = own
      BY <1>2, <3>1
    <3>3. \A i \in 1 .. Len(room') : i \in 1 .. Len(room) \/ room'[i] = own
      BY <3>2
    <3>4. Unread' = Unread
      BY <3>1, <3>2, <3>3 DEF Unread
    <3> QED BY <3>2, <3>4 DEF Unread
  <2> QED BY <2>1, <2>2
<1>5. /\ signed' \in Seq(AllOperations) /\ signed \in Seq(AllOperations)
      /\ \A i \in DOMAIN signed : i \in DOMAIN signed' /\ signed'[i] = signed[i]
      /\ \A i \in DOMAIN signed' :
            \/ i \in DOMAIN signed /\ signed'[i] = signed[i]
            \/ signed'[i] = Operation /\ i = Len(signed) + 1
  <2>1. CASE signed' = signed
    BY <2>1 DEF BeaconTypeOK
  <2>2. CASE signed' = Append(signed, Operation)
    <3>1. signed \in Seq(AllOperations)
      BY DEF BeaconTypeOK
    <3> QED BY <1>2, <2>2, <3>1
  <2> QED BY <2>1, <2>2
<1>6. /\ Operation.app = "beacon" /\ Operation.request = pending.id
      /\ Operation.fetch = Len(fetches)
  BY DEF Operation
<1>7. BeaconTypeOK'
  BY <1>3, <1>4, <1>5 DEF BeaconTypeOK
<1>8. IssuedOK'
  <2>1. \A i \in DOMAIN signed' : signed'[i].app = "beacon" =>
            signed'[i].request \in 0 .. issued /\ signed'[i].fetch \in 1 .. Len(fetches)
    BY <1>1, <1>5, <1>6 DEF IssuedOK
  <2>2. \A i \in DOMAIN responses' :
            responses'[i].request \in 0 .. issued /\ responses'[i].fetch \in 1 .. Len(fetches)
    BY <1>1, <1>3 DEF IssuedOK
  <2>3. \A i \in Unread : OnlyKept(room[i].id)'
    <3> SUFFICES ASSUME NEW i \in Unread PROVE OnlyKept(room[i].id)'
      OBVIOUS
    <3>1. /\ OnlyKept(room[i].id) /\ room'[i] = room[i]
          /\ fetches[Len(fetches)] = "kept" \/ room[i].id # pending.id
      BY <1>1, <1>4 DEF IssuedOK
    <3>2. \A k \in DOMAIN signed' : signed'[k].app = "beacon" /\ signed'[k].request = room[i].id =>
              fetches[signed'[k].fetch] = "kept"
      BY <1>5, <1>6, <3>1 DEF OnlyKept
    <3>3. \A k \in DOMAIN responses' : responses'[k].request = room[i].id =>
              fetches[responses'[k].fetch] = "kept"
      <4> SUFFICES ASSUME NEW k \in DOMAIN responses', responses'[k].request = room[i].id
                   PROVE  fetches[responses'[k].fetch] = "kept"
        OBVIOUS
      <4>1. CASE k \in DOMAIN responses /\ responses'[k] = responses[k]
        BY <3>1, <4>1 DEF OnlyKept
      <4>2. CASE responses'[k] = r
        BY <3>1, <4>2
      <4> QED BY <1>3, <4>1, <4>2
    <3> QED BY <3>1, <3>2, <3>3 DEF OnlyKept
  <2> QED BY <1>4, <2>1, <2>2, <2>3 DEF IssuedOK
<1>9. PendingOK'
  BY DEF PendingOK, Requests
<1>10. SignedOncePerRequest'
  <2> SUFFICES ASSUME NEW i \in DOMAIN signed', NEW j \in DOMAIN signed', i < j,
                      signed'[i].app = "beacon", signed'[j].app = "beacon",
                      signed'[i].request = signed'[j].request
               PROVE  signed'[i].fetch < signed'[j].fetch /\ fetches[signed'[i].fetch] = "kept"
    BY DEF SignedOncePerRequest
  <2>1. i \in DOMAIN signed /\ signed'[i] = signed[i]
    BY <1>5
  <2>2. CASE j \in DOMAIN signed /\ signed'[j] = signed[j]
    BY <2>1, <2>2 DEF SignedOncePerRequest
  <2>3. CASE signed'[j] = Operation
    BY <1>1, <1>6, <2>1, <2>3 DEF OnlyKept
  <2> QED BY <1>5, <2>2, <2>3
<1>11. ResponsesAnswer'
  <2>1. ASSUME NEW i \in DOMAIN responses', NEW j \in DOMAIN responses', i < j,
               responses'[i].request = responses'[j].request
        PROVE  responses'[i].fetch < responses'[j].fetch /\ fetches[responses'[i].fetch] = "kept"
    <3>1. i \in DOMAIN responses /\ responses'[i] = responses[i]
      BY <1>3, <2>1
    <3>2. CASE j \in DOMAIN responses /\ responses'[j] = responses[j]
      BY <2>1, <3>1, <3>2 DEF ResponsesAnswer
    <3>3. CASE responses'[j] = r
      BY <1>1, <2>1, <3>1, <3>3 DEF OnlyKept
    <3> QED BY <1>3, <3>2, <3>3
  <2>2. ASSUME NEW i \in DOMAIN responses', responses'[i].kind = "operation"
        PROVE  /\ responses'[i].hash \in DOMAIN signed'
               /\ signed'[responses'[i].hash].app = "beacon"
               /\ signed'[responses'[i].hash].request = responses'[i].request
               /\ signed'[responses'[i].hash].fetch = responses'[i].fetch
    <3>1. CASE i \in DOMAIN responses /\ responses'[i] = responses[i]
      BY <1>5, <2>2, <3>1 DEF ResponsesAnswer
    <3>2. CASE responses'[i] = r /\ delivered
      <4>1. signed' = Append(signed, Operation) /\ hash = Len(signed')
        BY <2>2, <3>2
      <4>2. hash \in DOMAIN signed' /\ signed'[hash] = Operation
        BY <1>2, <4>1, SignedAppend DEF BeaconTypeOK
      <4> QED BY <1>6, <3>2, <4>2
    <3> QED BY <1>3, <3>1, <3>2
  <2> QED BY <2>1, <2>2 DEF ResponsesAnswer
<1> QED BY <1>7, <1>8, <1>9, <1>10, <1>11

\* The steps of the beacon wallet and of the camera.
LEMMA BeaconStep == PopupOK /\ BeaconOK /\ BeaconNext => BeaconOK'
<1> SUFFICES ASSUME PopupOK, BeaconOK, BeaconNext PROVE BeaconOK'
  OBVIOUS
<1> USE DEF roomVars, popupVars, askVars
<1>1. CASE CameraNext /\ UNCHANGED beaconVars
  BY <1>1, CameraMoves, BeaconFrame
<1>2. CASE OpenBeacon \/ LeaveBeacon \/ (\E ok \in BOOLEAN : Pair(ok))
  BY <1>2, BeaconEntryStep
<1>3. ASSUME NEW kind \in Requests \cup {"other"}, NEW ops \in 0 .. MaxOps, DAppSends(kind, ops)
      PROVE  BeaconOK'
  BY <1>3, DAppSendsStep
<1>4. ASSUME NEW synced \in {"none", "moved", "kept"}, CheckNow(synced) PROVE BeaconOK'
  BY <1>4, CheckNowStep
<1>5. CASE Deny \/ CloseResult
  <2>1. /\ UNCHANGED <<open, asked, signed, since, pending, room, responses, issued, fetches>>
        /\ asked = NONE /\ open = "beacon" /\ beacon' \notin Requests
        /\ beacon' = "active"
    BY <1>5 DEF Deny, CloseResult, OnTop, Requests
  <2>2. BeaconTypeOK' /\ IssuedOK'
    BY <2>1 DEF BeaconOK, BeaconTypeOK, IssuedOK, OnlyKept, Unread
  <2>3. PendingOK'
    BY <2>1 DEF PendingOK
  <2>4. SignedOncePerRequest' /\ ResponsesAnswer'
    BY <2>1 DEF BeaconOK, SignedOncePerRequest, ResponsesAnswer
  <2> QED BY <2>2, <2>3, <2>4 DEF BeaconOK
<1>6. CASE Approve
  BY <1>6, BeaconStays DEF Approve, Ask, OnTop, BeaconOK, PendingOK, Operation, beaconVars
<1>7. CASE RefuseOperation
  BY <1>7, BeaconStays DEF RefuseOperation, Refuse, BeaconOK, PendingOK
<1>8. ASSUME NEW delivered \in BOOLEAN, AcceptPermission(delivered) PROVE BeaconOK'
  <2>1. /\ beacon = "permission" /\ open = "beacon" /\ asked' = NONE /\ beacon' = "result"
        /\ signed' = signed /\ Respond(delivered, 0)
        /\ UNCHANGED <<open, since, pending, issued, fetches>>
    BY <1>8 DEF AcceptPermission, AcceptIgnored
  <2>2. pending.kind = "permission"
    BY <2>1 DEF BeaconOK, PendingOK, Requests
  <2> QED BY <2>1, <2>2, PerformStep DEF Requests
<1>9. ASSUME NEW outcome \in Outcomes, NEW delivered \in BOOLEAN, AcceptOperation(outcome, delivered)
      PROVE  BeaconOK'
  <2>1. /\ beacon = "operation" /\ open = "beacon" /\ asked' = NONE /\ beacon' = "result"
        /\ signed' \in {signed, Append(signed, Operation)}
        /\ delivered => signed' = Append(signed, Operation)
        /\ Respond(delivered, Len(signed'))
        /\ UNCHANGED <<open, since, pending, issued, fetches>>
    BY <1>9 DEF AcceptOperation, Accept, Signs, Outcomes
  <2>2. Operation \in AllOperations
    BY <2>1 DEF BeaconOK, PendingOK, Operation, AllOperations, Requested, Requests, MatrixMessages
  <2>3. Len(signed') \in Nat
    BY <2>1, <2>2 DEF BeaconOK, BeaconTypeOK
  <2> QED BY <2>1, <2>3, PerformStep DEF Requests
<1> QED BY <1>1, <1>2, <1>3, <1>4, <1>5, <1>6, <1>7, <1>8, <1>9 DEF BeaconNext

-----------------------------------------------------------------------------
(* The apps together.                                                       *)

\* What is asked is an operation of the app that is open.
AskedOK == asked # NONE => asked \in AllOperations /\ asked.app = open
\* What the popup asks about is an operation, never NONE.
LEMMA AskedIsOperation == IInv => AskedOK
<1> USE DEF AskedOK
<1> SUFFICES ASSUME IInv, asked # NONE PROVE asked \in AllOperations /\ asked.app = open
  OBVIOUS
<1>1. CASE open = "explorer"
  BY <1>1 DEF IInv, ExplorerOK, Lookups, AllOperations, Calls
<1>2. CASE open = "messenger"
  BY <1>2, KeptAssumption DEF IInv, MessengerOK, AllOperations, Sends
<1>3. CASE open = "beacon"
  <2>1. /\ asked = Operation /\ beacon \in Requests /\ pending.kind = beacon /\ pending.id \in Nat
        /\ Len(fetches) \in Nat
    BY <1>3 DEF IInv, BeaconOK, PendingOK, BeaconTypeOK
  <2> QED BY <1>3, <2>1 DEF Operation, AllOperations, Requested
<1> QED BY <1>1, <1>2, <1>3 DEF IInv, PopupOK, SigningApps

\* A step asks when nothing is asked, or answers what is asked, or leaves the
\* popup and the signatures alone.
PopupStep ==
    \/ UNCHANGED askVars
    \/ asked = NONE /\ UNCHANGED <<answer, signed>>
    \/ /\ asked # NONE /\ asked' = NONE
       /\ \/ answer' = "refused" /\ UNCHANGED signed
          \/ answer' = "accepted" /\ signed' \in {signed, Append(signed, asked)}

\* The explorer's steps do so: what perform_call signs is what was shown.
LEMMA ExplorerPopup == IInv /\ ExplorerNext => PopupStep
<1> SUFFICES ASSUME IInv, ExplorerNext PROVE PopupStep
  OBVIOUS
<1> USE DEF PopupStep, OnTop, popupVars, askVars
<1>1. CASE OpenExplorer \/ LeaveExplorer \/ ChooseList \/ BackInExplorer
  BY <1>1 DEF OpenExplorer, LeaveExplorer, ChooseList, BackInExplorer
<1>2. ASSUME NEW t, NEW e, Lookup(t, e) \/ CountRefused(t) PROVE PopupStep
  BY <1>2 DEF Lookup, CountRefused
<1>3. ASSUME NEW stack, OnTop("explorer"), Advance(stack) PROVE PopupStep
  BY <1>3 DEF Advance, Ask
<1>4. ASSUME NEW t, SelectEntrypoint(t) \/ SubmitLeaf(t) \/ SubmitCount(t) PROVE PopupStep
  BY <1>3, <1>4 DEF SelectEntrypoint, SubmitLeaf, SubmitCount
<1>5. ASSUME NEW outcome, AcceptCall(outcome) PROVE PopupStep
  BY <1>5 DEF AcceptCall, Accept, AcceptIgnored, IInv, ExplorerOK
<1>6. CASE AcceptUnasked \/ RefuseCall
  BY <1>6 DEF AcceptUnasked, AcceptIgnored, RefuseCall, Refuse
<1> QED BY <1>1, <1>2, <1>4, <1>5, <1>6 DEF ExplorerNext

\* And so do the messenger's.
LEMMA MessengerPopup == IInv /\ MessengerNext => PopupStep
<1> SUFFICES ASSUME IInv, MessengerNext PROVE PopupStep
  OBVIOUS
<1> USE DEF PopupStep, OnTop, popupVars, askVars
<1>1. CASE OpenMessenger \/ LeaveMessenger \/ Compose \/ RefuseMessage \/ BackInMessenger
           \/ ScrollInbox \/ OpenDetail \/ CloseDetail
  BY <1>1 DEF OpenMessenger, LeaveMessenger, Compose, RefuseMessage, Refuse, BackInMessenger,
              ScrollInbox, OpenDetail, CloseDetail
<1>2. ASSUME NEW t, SetContract(t) \/ SubmitReceiver(t) \/ SubmitSubject(t) \/ FetchInbox(t)
      PROVE  PopupStep
  BY <1>2 DEF SetContract, SubmitReceiver, SubmitSubject, FetchInbox
<1>3. ASSUME NEW t, SubmitContent(t) PROVE PopupStep
  BY <1>3 DEF SubmitContent, Ask
<1>4. ASSUME NEW outcome, AcceptMessage(outcome) PROVE PopupStep
  BY <1>4 DEF AcceptMessage, Accept, AcceptIgnored, Message, IInv, MessengerOK, fieldVars
<1> QED BY <1>1, <1>2, <1>3, <1>4 DEF MessengerNext

\* And the beacon wallet's.
LEMMA BeaconPopup == IInv /\ BeaconNext => PopupStep
<1> SUFFICES ASSUME IInv, BeaconNext PROVE PopupStep
  OBVIOUS
<1> USE DEF PopupStep, OnTop, popupVars, askVars
<1>1. CASE CameraNext
  BY <1>1, CameraMoves
<1>2. CASE OpenBeacon \/ LeaveBeacon \/ Deny \/ Approve \/ RefuseOperation \/ CloseResult
  BY <1>2 DEF OpenBeacon, LeaveBeacon, Deny, Approve, Ask, RefuseOperation, Refuse, CloseResult
<1>3. ASSUME NEW t, NEW d, Pair(t) \/ DAppSends(t, d) \/ CheckNow(t) \/ AcceptPermission(d)
      PROVE  PopupStep
  BY <1>3 DEF Pair, HandsOver, DAppSends, CheckNow, AcceptPermission, AcceptIgnored
<1>4. ASSUME NEW outcome, NEW d, AcceptOperation(outcome, d) PROVE PopupStep
  BY <1>4 DEF AcceptOperation, Accept, IInv, BeaconOK, PendingOK
<1> QED BY <1>1, <1>2, <1>3, <1>4 DEF BeaconNext

\* PopupOK stays, whichever app moves.
LEMMA PopupStays ==
    ASSUME IInv, NEW apps, MovesOnly(apps)
    PROVE  PopupOK'
  BY NoneAssumption DEF IInv, PopupOK, MovesOnly, askVars, Apps, SigningApps

\* An answer to another app's popup signs nothing for the beacon wallet.
LEMMA SignedElsewhere ==
    ASSUME IInv, PopupStep, NEW apps, MovesOnly(apps), "beacon" \notin apps
    PROVE  \/ signed' = signed
           \/ \E op \in AllOperations : op.app # "beacon" /\ signed' = Append(signed, op)
<1>1. CASE signed' = signed
  BY <1>1
<1>2. CASE signed' # signed
  <2>1. asked # NONE /\ signed' = Append(signed, asked) /\ ~UNCHANGED askVars
    BY <1>2 DEF PopupStep, askVars
  <2>2. open \in apps
    BY <2>1 DEF MovesOnly
  <2> QED BY <2>1, <2>2, AskedIsOperation DEF AskedOK
<1> QED BY <1>1, <1>2

\* The invariant holds at first.
LEMMA InitOK == Init => IInv
<1> SUFFICES ASSUME Init PROVE IInv
  OBVIOUS
<1> USE NoneAssumption DEF Init, PopupInit, ExplorerInit, MessengerInit, BeaconInit, Apps, SigningApps
<1>1. PopupOK
  BY DEF PopupOK
<1>2. MessengerOK
  BY DEF MessengerOK, Phases
<1>3. ExplorerOK
  BY DEF ExplorerOK, Lookups
<1>4. BeaconOK
  BY DEF BeaconOK, BeaconTypeOK, IssuedOK, PendingOK, Unread, Requests,
         SignedOncePerRequest, ResponsesAnswer
<1> QED BY <1>1, <1>2, <1>3, <1>4 DEF IInv

\* Every step of an app keeps its own part of the invariant and the others'.
LEMMA NextOK == IInv /\ [Next]_vars => IInv'
<1> SUFFICES ASSUME IInv, [Next]_vars PROVE IInv'
  OBVIOUS
<1> USE DEF IInv
<1>1. CASE Explorer
  <2>1. ExplorerNext /\ UNCHANGED messengerVars /\ UNCHANGED beaconVars
    BY <1>1 DEF Explorer, OutsideBeacon
  <2>2. MovesOnly({"explorer"}) /\ PopupStep
    BY <2>1, ExplorerMoves, ExplorerPopup
  <2>3. PopupOK' /\ ExplorerOK'
    BY <2>1, <2>2, PopupStays, ExplorerStep
  <2>4. MessengerOK'
    BY <2>1, <2>2, MessengerFrame
  <2>5. BeaconOK'
    BY <2>1, <2>2, SignedElsewhere, BeaconFrame
  <2> QED BY <2>3, <2>4, <2>5
<1>2. CASE Messenger
  <2>1. MessengerNext /\ UNCHANGED explorerVars /\ UNCHANGED beaconVars
    BY <1>2 DEF Messenger, OutsideBeacon
  <2>2. MovesOnly({"messenger"}) /\ PopupStep
    BY <2>1, MessengerMoves, MessengerPopup
  <2>3. PopupOK' /\ MessengerOK'
    BY <2>1, <2>2, PopupStays, MessengerStep
  <2>4. ExplorerOK'
    BY <2>1, <2>2, ExplorerFrame
  <2>5. BeaconOK'
    BY <2>1, <2>2, SignedElsewhere, BeaconFrame
  <2> QED BY <2>3, <2>4, <2>5
<1>3. CASE Beacon
  <2>1. BeaconNext /\ UNCHANGED explorerVars /\ UNCHANGED messengerVars
    BY <1>3 DEF Beacon
  <2>2. MovesOnly({"beacon", "camera"})
    BY <2>1, BeaconMoves
  <2>3. PopupOK' /\ BeaconOK'
    BY <2>1, <2>2, PopupStays, BeaconStep
  <2>4. ExplorerOK' /\ MessengerOK'
    BY <2>1, <2>2, ExplorerFrame, MessengerFrame
  <2> QED BY <2>3, <2>4
<1>4. CASE Tool
  <2>1. UNCHANGED explorerVars /\ UNCHANGED messengerVars /\ UNCHANGED beaconVars
    BY <1>4 DEF Tool, OutsideBeacon
  <2>2. MovesOnly({"gallery", "discover", "snake", "wifi"}) /\ UNCHANGED askVars
    BY <1>4, ToolMoves
  <2>3. PopupOK'
    BY <2>2, PopupStays
  <2>4. ExplorerOK' /\ MessengerOK'
    BY <2>1, <2>2, ExplorerFrame, MessengerFrame
  <2>5. BeaconOK'
    BY <2>1, <2>2, BeaconFrame DEF askVars
  <2> QED BY <2>3, <2>4, <2>5
<1>5. CASE UNCHANGED vars
  <2>1. /\ UNCHANGED explorerVars /\ UNCHANGED messengerVars /\ UNCHANGED beaconVars
        /\ MovesOnly({}) /\ UNCHANGED signed
    BY <1>5 DEF vars, popupVars, askVars, MovesOnly
  <2> QED BY <2>1, PopupStays, ExplorerFrame, MessengerFrame, BeaconFrame
<1> QED BY <1>1, <1>2, <1>3, <1>4, <1>5 DEF Next

\* The invariant holds on every run of the apps.
THEOREM Invariant == Spec => []IInv
  BY InitOK, NextOK, PTL DEF Spec

\* A message that is asked for has the texts typed for it, cut to the length
\* of its fields (messenger.c), on every run and for any texts and contracts; an
\* address is never what is left of another text.
THEOREM MessageFields == Spec => []MessageAsComposed
<1>1. IInv => MessageAsComposed
  <2> SUFFICES ASSUME IInv, open = "messenger", asked # NONE
               PROVE  /\ Len(composed) = 3 /\ asked.to # NONE
                      /\ asked.receiver = ReceiverKept[composed[1]]
                      /\ asked.subject = SubjectKept[composed[2]]
                      /\ asked.content = composed[3]
                      /\ asked.receiver \in Receivers => composed[1] = asked.receiver
    BY DEF MessageAsComposed
  <2>1. PICK a \in Written, b \in Written :
            /\ receiver = ReceiverKept[a] /\ subject = SubjectKept[b]
            /\ composed = <<a, b, content>>
    BY DEF IInv, MessengerOK
  <2>2. /\ asked.to = contract /\ asked.receiver = receiver /\ asked.subject = subject
        /\ asked.content = content /\ contract # NONE
    BY DEF IInv, MessengerOK
  <2>3. Len(composed) = 3 /\ composed[1] = a /\ composed[2] = b /\ composed[3] = content
    BY <2>1
  <2>4. ReceiverKept[a] \in Receivers => ReceiverKept[a] = a
    BY KeptAssumption
  <2> QED BY <2>1, <2>2, <2>3, <2>4
<1> QED BY <1>1, Invariant, PTL

\* A call goes to the address whose entrypoints were looked up, and to one of
\* them (explorer.c), for any addresses and types.
THEOREM CallGoesToAddress == Spec => []CallOfAddress
<1>1. IInv => CallOfAddress
  BY DEF IInv, ExplorerOK, Lookups, CallOfAddress
<1> QED BY <1>1, Invariant, PTL

\* However syncs, broadcasts and responses get lost, a request of the dApp is
\* signed for once every time it is fetched, and fetched again only after a
\* sync without a next_batch (beacon_wallet.c, tezos_matrix.c), for any number
\* of requests and syncs.
THEOREM RequestsSignedOnce == Spec => []SignedOncePerRequest
<1>1. IInv => SignedOncePerRequest
  BY DEF IInv, BeaconOK
<1> QED BY <1>1, Invariant, PTL

\* A response answers a request that was not answered since it was fetched,
\* with the operation that was signed for it then (tezos_beacon_pair.c).
THEOREM ResponsesFitRequests == Spec => []ResponsesAnswer
<1>1. IInv => ResponsesAnswer
  BY DEF IInv, BeaconOK
<1> QED BY <1>1, Invariant, PTL

\* A step of any app is a step of the abstract signing, or none.
LEMMA ConfirmedStep ==
    ASSUME IInv, IInv', [Next]_vars
    PROVE  [Confirmed!Next]_<<asked, answer, signed>>
<1>1. PopupStep
  <2>1. ASSUME UNCHANGED vars PROVE PopupStep
    BY <2>1 DEF vars, popupVars, PopupStep
  <2> QED BY <2>1, ExplorerPopup, MessengerPopup, BeaconPopup, ToolMoves
          DEF Next, Explorer, Messenger, Beacon, PopupStep
<1>2. AskedOK'
  BY AskedIsOperation, PTL
<1>3. CASE UNCHANGED askVars
  BY <1>3 DEF askVars
<1>4. CASE asked = NONE /\ UNCHANGED <<answer, signed>>
  BY <1>2, <1>4 DEF AskedOK, Confirmed!Next, Confirmed!Show, AllOperations
<1>5. CASE asked # NONE /\ asked' = NONE /\ answer' = "refused" /\ UNCHANGED signed
  BY <1>5 DEF Confirmed!Next, Confirmed!Refuse
<1>6. CASE /\ asked # NONE /\ asked' = NONE
           /\ answer' = "accepted" /\ signed' \in {signed, Append(signed, asked)}
  BY <1>6 DEF Confirmed!Next, Confirmed!Accept
<1> QED BY <1>1, <1>3, <1>4, <1>5, <1>6 DEF PopupStep

\* The explorer, the messenger and the beacon wallet implement ConfirmedSigning
\* together: nothing is signed that the popup did not show and the user did
\* not accept, and nothing twice.
THEOREM AppsSignWhatWasConfirmed == Spec => SigningIsConfirmed
<1>1. Init => Confirmed!Init
  BY DEF Init, PopupInit, Confirmed!Init
<1>2. IInv /\ IInv' /\ [Next]_vars => [Confirmed!Next]_<<asked, answer, signed>>
  BY ConfirmedStep
<1> QED BY <1>1, <1>2, Invariant, PTL DEF Spec, SigningIsConfirmed, Confirmed!Spec

-----------------------------------------------------------------------------
(* The snake.                                                               *)

SnakeTypeOK ==
    /\ snakePhase \in {"playing", "over"} /\ direction \in Directions /\ turn \in Directions
    /\ body \in Seq(Grid) /\ (body = <<>> \/ Len(body) >= 3)
    /\ score \in Nat /\ best \in Nat /\ bestFile \in Nat

\* While it moves, the snake has come out of its neck in its direction.
SnakeOK ==
    /\ SnakeTypeOK /\ SnakeOnGrid
    /\ snakePhase = "playing" => body # <<>> /\ Ahead(body[2], direction) = body[1]

\* The snake at the start of a game lies within the grid.
LEMMA ResetOK ==
    ASSUME Reset, best' \in Nat, bestFile' \in Nat
    PROVE  SnakeOK'
<1> DEFINE x == Cols \div 2
           y == Rows \div 2
<1>1. x \in 2 .. Cols - 1 /\ y \in 0 .. Rows - 1 /\ 0 \in 0 .. Cols - 1 /\ 0 \in 0 .. Rows - 1
  BY GridAssumption
<1> HIDE DEF x, y
<1>2. body' = [i \in 1 .. 3 |-> <<x + 1 - i, y>>]
  BY DEF Reset, x, y
<1>3. /\ body' \in Seq(Grid) /\ Len(body') = 3
      /\ body'[1] = <<x, y>> /\ body'[2] = <<x - 1, y>> /\ body'[3] = <<x - 2, y>>
  <2>1. \A i \in 1 .. 3 : <<x + 1 - i, y>> \in Grid
    BY <1>1, GridAssumption DEF Grid
  <2>3. body' \in Seq(Grid) /\ Len(body') = 3
    BY <1>2, <2>1
  <2>4. /\ body'[1] = <<x + 1 - 1, y>> /\ body'[2] = <<x + 1 - 2, y>>
        /\ body'[3] = <<x + 1 - 3, y>>
    BY <1>2
  <2> QED BY <1>1, <2>3, <2>4
<1>4. SnakeTypeOK'
  BY <1>3 DEF Reset, SnakeTypeOK, Directions
<1>5. Range(body') \subseteq Grid /\ IsInjective(body')
  <2>1. DOMAIN body' = 1 .. 3 /\ \A i \in 1 .. 3 : body'[i] \in Grid
    BY <1>2, <1>3
  <2>2. body'[1] # body'[2] /\ body'[1] # body'[3] /\ body'[2] # body'[3]
    BY <1>1, <1>3
  <2>3. \A i \in 1 .. 3 : i \in {1, 2, 3}
    OBVIOUS
  <2> QED BY <2>1, <2>2, <2>3 DEF Range, IsInjective
<1>6. Ahead(body'[3], "right") = body'[2] /\ Ahead(body'[2], "right") = body'[1]
  BY <1>1, <1>3 DEF Ahead
<1>7. Ahead(body'[1], "right") # body'[2]
  BY <1>1, <1>3 DEF Ahead
<1>8. food' \in Grid /\ (food' \in Range(body') => Grid \subseteq Range(body'))
  <2>1. <<0, 0>> \in Grid
    BY <1>1 DEF Grid
  <2> QED BY <2>1 DEF Reset, Spawns
<1> QED BY <1>3, <1>4, <1>5, <1>6, <1>7, <1>8, SMTT(30) DEF Reset, SnakeOK, SnakeOnGrid, Directions

\* Turned never turns the snake into its neck.
LEMMA TurnedOK ==
    ASSUME SnakeTypeOK, NEW neck \in Grid, NEW cell \in Grid, Ahead(neck, direction) = cell
    PROVE  Turned \in Directions /\ Ahead(cell, Turned) # neck
<1>1. Turned \in Directions
  BY DEF Turned, SnakeTypeOK
<1>2. neck[1] \in Int /\ neck[2] \in Int /\ neck = <<neck[1], neck[2]>>
  BY GridAssumption DEF Grid
<1>3. Opposite["up"] = "down" /\ Opposite["down"] = "up"
      /\ Opposite["left"] = "right" /\ Opposite["right"] = "left"
  BY DEF Opposite
<1>4. \/ direction = "up" /\ Turned # "down"
      \/ direction = "down" /\ Turned # "up"
      \/ direction = "left" /\ Turned # "right"
      \/ direction = "right" /\ Turned # "left"
  BY <1>3 DEF Turned, SnakeTypeOK, Directions
<1>5. /\ direction = "up"    => cell[1] = neck[1] /\ cell[2] = neck[2] - 1
      /\ direction = "down"  => cell[1] = neck[1] /\ cell[2] = neck[2] + 1
      /\ direction = "left"  => cell[1] = neck[1] - 1 /\ cell[2] = neck[2]
      /\ direction = "right" => cell[1] = neck[1] + 1 /\ cell[2] = neck[2]
  BY DEF Ahead
<1>6. /\ Turned = "up"    => Ahead(cell, Turned) = <<cell[1], cell[2] - 1>>
      /\ Turned = "down"  => Ahead(cell, Turned) = <<cell[1], cell[2] + 1>>
      /\ Turned = "left"  => Ahead(cell, Turned) = <<cell[1] - 1, cell[2]>>
      /\ Turned = "right" => Ahead(cell, Turned) = <<cell[1] + 1, cell[2]>>
  BY DEF Ahead
<1> DEFINE ahead == Ahead(cell, Turned)
<1>7. ahead[1] # neck[1] \/ ahead[2] # neck[2]
  <2> HIDE DEF ahead
  <2>1. CASE direction = "up"
    BY <1>1, <1>2, <1>4, <1>5, <1>6, <2>1 DEF Directions, ahead
  <2>2. CASE direction = "down"
    BY <1>1, <1>2, <1>4, <1>5, <1>6, <2>2 DEF Directions, ahead
  <2>3. CASE direction = "left"
    BY <1>1, <1>2, <1>4, <1>5, <1>6, <2>3 DEF Directions, ahead
  <2>4. CASE direction = "right"
    BY <1>1, <1>2, <1>4, <1>5, <1>6, <2>4 DEF Directions, ahead
  <2> QED BY <2>1, <2>2, <2>3, <2>4 DEF SnakeTypeOK, Directions
<1> QED BY <1>1, <1>7

\* The snake that has moved: its new head is followed by what was left of it.
MovedOn(moved, head, ate) ==
    /\ moved \in Seq(Grid)
    /\ Len(moved) = IF ate THEN Len(body) + 1 ELSE Len(body)
    /\ moved[1] = head
    /\ \A i \in 1 .. Len(moved) - 1 : i \in 1 .. Len(body) /\ moved[i + 1] = body[i]
    /\ Range(moved) \subseteq Range(body) \cup {head}
    /\ ate => Range(body) \subseteq Range(moved)
    /\ IsInjective(moved)

\* So it is after a step that did not crash.
LEMMA MovedOK ==
    ASSUME SnakeOK, body # <<>>, NEW head, ~Crashes(head), NEW ate \in BOOLEAN,
           NEW moved, moved = <<head>> \o (IF ate THEN body ELSE Front(body))
    PROVE  MovedOn(moved, head, ate)
<1> DEFINE rest == IF ate THEN body ELSE Front(body)
<1>1. head \in Grid /\ head \notin Range(body) /\ body \in Seq(Grid) /\ Len(body) \in Nat /\ Len(body) >= 3
  BY DEF SnakeOK, SnakeTypeOK, Crashes
<1>2. /\ rest \in Seq(Grid) /\ Len(rest) = IF ate THEN Len(body) ELSE Len(body) - 1
      /\ \A i \in 1 .. Len(rest) : rest[i] = body[i]
  <2>1. CASE ate
    BY <1>1, <2>1
  <2>2. CASE ~ate
    <3>1. rest = SubSeq(body, 1, Len(body) - 1)
      BY <2>2 DEF Front
    <3>2. \A i \in 1 .. Len(body) - 1 : body[i] \in Grid
      BY <1>1
    <3> HIDE DEF rest
    <3> QED BY <1>1, <2>2, <3>1, <3>2, SubSeqProperties
  <2> QED BY <2>1, <2>2
<1>3. moved = <<head>> \o rest
  OBVIOUS
<1> HIDE DEF rest
<1>4. <<head>> \in Seq(Grid) /\ Len(<<head>>) = 1
  BY <1>1
<1>5. /\ moved \in Seq(Grid) /\ Len(moved) = Len(rest) + 1 /\ moved[1] = head
      /\ \A i \in 2 .. Len(moved) : moved[i] = rest[i - 1]
  <2>1. /\ moved \in Seq(Grid) /\ Len(moved) = 1 + Len(rest) /\ Len(rest) \in Nat
        /\ \A i \in 1 .. 1 + Len(rest) : moved[i] = IF i <= 1 THEN <<head>>[i] ELSE rest[i - 1]
    BY ONLY <1>2, <1>3, <1>4, ConcatProperties
  <2>2. 1 \in 1 .. 1 + Len(rest)
    BY ONLY <2>1
  <2>3. moved[1] = <<head>>[1]
    BY ONLY <2>1, <2>2
  <2>4. <<head>>[1] = head
    OBVIOUS
  <2>5. ASSUME NEW i \in 2 .. Len(moved) PROVE moved[i] = rest[i - 1]
    <3>1. i \in 1 .. 1 + Len(rest) /\ ~(i <= 1)
      BY ONLY <2>1, i \in 2 .. Len(moved)
    <3> QED BY ONLY <2>1, <3>1
  <2> QED BY ONLY <2>1, <2>3, <2>4, <2>5
<1>6. \A i \in 1 .. Len(moved) - 1 : i \in 1 .. Len(body) /\ moved[i + 1] = body[i]
  BY <1>1, <1>2, <1>5
<1>7. \A i \in 1 .. Len(moved) :
          \/ i = 1 /\ moved[i] = head
          \/ i - 1 \in 1 .. Len(body) /\ moved[i] = body[i - 1]
  BY <1>1, <1>2, <1>5
<1>8. DOMAIN body = 1 .. Len(body) /\ DOMAIN moved = 1 .. Len(moved)
  BY <1>1, <1>5
<1>9. Range(moved) \subseteq Range(body) \cup {head}
  BY <1>7, <1>8 DEF Range
<1>10. ate => Range(body) \subseteq Range(moved)
  <2> SUFFICES ASSUME ate, NEW i \in 1 .. Len(body) PROVE body[i] \in Range(moved)
    BY <1>8 DEF Range
  <2>1. i + 1 \in 1 .. Len(moved) /\ moved[i + 1] = body[i]
    BY <1>1, <1>2, <1>5
  <2> QED BY <1>8, <2>1 DEF Range
<1>11. IsInjective(moved)
  <2> SUFFICES ASSUME NEW i \in 1 .. Len(moved), NEW j \in 1 .. Len(moved), moved[i] = moved[j]
               PROVE  i = j
    BY <1>8 DEF IsInjective
  <2>1. \A k \in 1 .. Len(body) : body[k] # head
    BY <1>1, <1>8 DEF Range
  <2>2. \A k, l \in 1 .. Len(body) : body[k] = body[l] => k = l
    BY <1>1, <1>8 DEF SnakeOK, SnakeOnGrid, IsInjective
  <2>3. i = 1 <=> j = 1
    BY <1>7, <2>1
  <2>4. CASE i = 1
    BY <2>3, <2>4
  <2>5. CASE i # 1
    <3> DEFINE k == i - 1
               l == j - 1
    <3>1. /\ k \in 1 .. Len(body) /\ moved[i] = body[k]
          /\ l \in 1 .. Len(body) /\ moved[j] = body[l]
      BY <1>7, <2>3, <2>5
    <3> HIDE DEF k, l
    <3>2. k = l
      BY <2>2, <3>1
    <3>3. i - 1 = j - 1 /\ Len(moved) \in Nat
      BY <1>5, <3>2 DEF k, l
    <3> QED BY <3>3
  <2> QED BY <2>4, <2>5
<1> QED BY <1>1, <1>2, <1>5, <1>6, <1>9, <1>10, <1>11 DEF MovedOn

\* The food lies beside what it was spawned beside, unless there is no room.
LEMMA SpawnsBeside ==
    ASSUME NEW onto, NEW old \in Grid, NEW new \in Spawns(onto, old)
    PROVE  new \in Grid /\ (new \in Range(onto) => Grid \subseteq Range(onto))
BY DEF Spawns

\* A step of the snake leaves a snake on the grid, or the one that crashed.
LEMMA AdvanceSnakeOK ==
    ASSUME SnakeOK, AdvanceSnake
    PROVE  SnakeOK'
<1> DEFINE head == Ahead(body[1], Turned)
           ate  == head = food
<1>1. /\ snakePhase = "playing" /\ body # <<>> /\ Ahead(body[2], direction) = body[1]
      /\ Len(body) \in Nat /\ Len(body) >= 3 /\ body[1] \in Grid /\ body[2] \in Grid
      /\ direction' = Turned /\ turn' = turn
  BY DEF AdvanceSnake, SnakeOK, SnakeTypeOK
<1>2. Turned \in Directions /\ head # body[2]
  BY <1>1, TurnedOK DEF SnakeOK
<1> HIDE DEF head
<1>3. CASE Crashes(head) /\ snakePhase' = "over" /\ UNCHANGED <<body, food, score, best, bestFile>>
  <2>1. SnakeTypeOK'
    BY <1>1, <1>2, <1>3 DEF SnakeOK, SnakeTypeOK
  <2>2. Ahead(body'[1], direction') # body'[2]
    BY <1>1, <1>2, <1>3 DEF head
  <2>3. SnakeOnGrid'
    BY <1>1, <1>3, <2>2 DEF SnakeOK, SnakeOnGrid
  <2> QED BY <1>3, <2>1, <2>3 DEF SnakeOK
<1>4. CASE ~Crashes(head) /\ ~Crashes(Ahead(body[1], Turned))
  <2>1. /\ body' = <<head>> \o (IF ate THEN body ELSE Front(body))
        /\ score' = IF ate THEN score + 1 ELSE score
        /\ best' = IF score' > best THEN score' ELSE best
        /\ bestFile' \in IF score' > best THEN {bestFile, score'} ELSE {bestFile}
        /\ food' \in IF ate THEN Spawns(body', food) ELSE {food}
        /\ snakePhase' = snakePhase
    BY <1>4 DEF AdvanceSnake, head
  <2>2. ate \in BOOLEAN
    OBVIOUS
  <2> HIDE DEF ate
  <2>3. /\ body' \in Seq(Grid)
        /\ Len(body') = IF ate THEN Len(body) + 1 ELSE Len(body)
        /\ body'[1] = head
        /\ \A i \in 1 .. Len(body') - 1 : i \in 1 .. Len(body) /\ body'[i + 1] = body[i]
        /\ Range(body') \subseteq Range(body) \cup {head}
        /\ ate => Range(body) \subseteq Range(body')
        /\ IsInjective(body')
    <3>1. SnakeOK /\ body # <<>> /\ ~Crashes(head) /\ ate \in BOOLEAN
      BY <1>1, <1>4, <2>2
    <3>2. body' = <<head>> \o (IF ate THEN body ELSE Front(body))
      BY <2>1
    <3>3. MovedOn(body', head, ate)
      BY ONLY <3>1, <3>2, MovedOK
    <3> QED BY <3>3 DEF MovedOn
  <2>4. body'[2] = body[1] /\ head \in Grid /\ head \notin Range(body)
    <3>1. 1 \in 1 .. Len(body') - 1
      BY <1>1, <2>3
    <3>2. body'[1 + 1] = body[1]
      BY <2>3, <3>1
    <3> QED BY <1>4, <3>2 DEF Crashes
  <2>5. /\ score \in Nat /\ best \in Nat /\ bestFile \in Nat /\ score = Len(body) - 3 /\ best >= score
        /\ food \in Grid /\ (food \in Range(body) => Grid \subseteq Range(body))
        /\ Range(body) \subseteq Grid
    BY <1>1 DEF SnakeOK, SnakeTypeOK, SnakeOnGrid
  <2>6. score' = Len(body') - 3 /\ best' >= score' /\ score' \in Nat /\ best' \in Nat /\ bestFile' \in Nat
    BY <1>1, <2>1, <2>2, <2>3, <2>5
  <2>7. SnakeTypeOK'
    BY <1>1, <1>2, <2>1, <2>3, <2>6 DEF SnakeOK, SnakeTypeOK
  <2>8. Ahead(body'[2], direction') = body'[1]
    BY <1>1, <2>3, <2>4 DEF head
  <2>9. ASSUME NEW i \in 1 .. Len(body') - 1
        PROVE  \E d \in Directions : Ahead(body'[i + 1], d) = body'[i]
    <3>1. CASE i = 1
      BY <1>1, <1>2, <2>8, <3>1
    <3>2. CASE i # 1
      <4>1. /\ i - 1 \in 1 .. Len(body') - 1 /\ i - 1 \in 1 .. Len(body) - 1
            /\ (i - 1) + 1 = i
        BY <1>1, <2>2, <2>3, <3>2
      <4>2. body'[i + 1] = body[i] /\ body'[i] = body[i - 1]
        BY <2>3, <4>1
      <4>3. \E d \in Directions : Ahead(body[(i - 1) + 1], d) = body[i - 1]
        BY <1>1, <4>1 DEF SnakeOK, SnakeOnGrid
      <4> QED BY <4>1, <4>2, <4>3
    <3> QED BY <3>1, <3>2
  <2>10. Ahead(body'[1], direction') # body'[2]
    <3>1. head[1] \in Int /\ head[2] \in Int /\ body[1] = <<body[1][1], body[1][2]>>
          /\ body[1][1] \in Int /\ body[1][2] \in Int
      BY <1>1, <2>4, GridAssumption DEF Grid
    <3>2. \A d \in Directions : Ahead(Ahead(body[1], d), d) # body[1]
      <4> SUFFICES ASSUME NEW d \in Directions PROVE Ahead(Ahead(body[1], d), d) # body[1]
        OBVIOUS
      <4>1. CASE d = "up" BY <3>1, <4>1 DEF Ahead
      <4>2. CASE d = "down" BY <3>1, <4>2 DEF Ahead
      <4>3. CASE d = "left" BY <3>1, <4>3 DEF Ahead
      <4>4. CASE d = "right" BY <3>1, <4>4 DEF Ahead
      <4> QED BY <4>1, <4>2, <4>3, <4>4 DEF Directions
    <3>3. Ahead(head, Turned) # body[1]
      BY <1>2, <3>2 DEF head
    <3> QED BY <1>1, <2>3, <2>4, <3>3
  <2>11. food' \in Grid /\ (food' \in Range(body') => Grid \subseteq Range(body'))
    <3>1. CASE ate
      BY <2>1, <2>5, <3>1, SpawnsBeside
    <3>2. CASE ~ate
      <4>1. food' = food /\ food # head
        BY <2>1, <3>2 DEF ate
      <4>2. food \in Range(body') => food \in Range(body)
        BY <2>3, <4>1
      <4>3. food \notin Range(body)
        BY <2>4, <2>5
      <4> QED BY <2>5, <4>1, <4>2, <4>3
    <3> QED BY <3>1, <3>2
  <2>12. SnakeOnGrid'
    BY <2>3, <2>4, <2>5, <2>6, <2>9, <2>10, <2>11 DEF SnakeOnGrid
  <2>13. body' # <<>>
    BY <1>1, <2>2, <2>3
  <2> QED BY <2>7, <2>8, <2>12, <2>13 DEF SnakeOK
<1> QED BY <1>3, <1>4 DEF AdvanceSnake, head

\* A step of the game.
LEMMA SnakeStep == SnakeOK /\ SnakeNext => SnakeOK'
<1> SUFFICES ASSUME SnakeOK, SnakeNext PROVE SnakeOK'
  OBVIOUS
<1>1. best \in Nat /\ bestFile \in Nat
  BY DEF SnakeOK, SnakeTypeOK
<1>2. CASE OpenSnake
  BY <1>1, <1>2, ResetOK DEF OpenSnake
<1>3. CASE Restart
  BY <1>1, <1>3, ResetOK DEF Restart
<1>4. CASE CloseSnake
  BY <1>4 DEF CloseSnake, snakeVars, SnakeOK, SnakeTypeOK, SnakeOnGrid
<1>5. ASSUME NEW d \in Directions, Steer(d) PROVE SnakeOK'
  BY <1>5 DEF Steer, SnakeOK, SnakeTypeOK, SnakeOnGrid
<1> QED BY <1>2, <1>3, <1>4, <1>5, AdvanceSnakeOK DEF SnakeNext

\* Whatever keys come between two steps, the snake is an unbroken line of
\* different cells on the grid, its food lies beside it and the score is what
\* it has grown by (snake.c).
THEOREM SnakeStaysOnGrid == Spec => []SnakeOnGrid
<1>1. Init => SnakeOK
  BY DEF Init, SnakeInit, SnakeOK, SnakeTypeOK, SnakeOnGrid, Directions
<1>2. SnakeOK /\ [Next]_vars => SnakeOK'
  <2> SUFFICES ASSUME SnakeOK, [Next]_vars PROVE SnakeOK'
    OBVIOUS
  <2>1. CASE UNCHANGED snakeVars
    BY <2>1 DEF snakeVars, SnakeOK, SnakeTypeOK, SnakeOnGrid
  <2>2. CASE SnakeNext
    BY <2>2, SnakeStep
  <2> QED BY <2>1, <2>2 DEF Next, Explorer, Messenger, Beacon, Tool, toolVars, vars
<1>3. SnakeOK => SnakeOnGrid
  BY DEF SnakeOK
<1> QED BY <1>1, <1>2, <1>3, PTL DEF Spec

-----------------------------------------------------------------------------
(* The pictures of the gallery and of the address browser.                  *)

\* A picture has the fields of the zeroed one, and the window of a full one
\* stands at its border or as far in as there is room.
WindowOK(at, view, size) == at \in Nat /\ size \in Nat \ {0} /\ (at = 0 \/ at + view <= size)
PictureHeld(p) ==
    /\ p = [attempted |-> p.attempted, ok |-> p.ok, thumb |-> p.thumb, full |-> p.full,
            w |-> p.w, h |-> p.h, x |-> p.x, y |-> p.y, missed |-> p.missed]
    /\ p.full # NONE => WindowOK(p.x, ViewW, p.w) /\ WindowOK(p.y, ViewH, p.h)

\* It is the picture of this URI.
PictureOf(uri, p) ==
    /\ ThumbShown(p) => IF p.missed THEN p.full = uri ELSE p.thumb = uri
    /\ p.full # NONE => p.full = uri

\* The smaller and the greater of two numbers.
LEMMA MinMaxOfTwo ==
    ASSUME NEW a \in Int, NEW b \in Int
    PROVE  /\ Min({a, b}) = IF a <= b THEN a ELSE b
           /\ Max({a, b}) = IF a <= b THEN b ELSE a
BY DEF Min, Max

\* Panning leaves the window where there is something to see.
LEMMA ClampedOK ==
    ASSUME NEW at \in Int, NEW size \in Nat \ {0}, NEW view \in Nat \ {0}
    PROVE  WindowOK(Clamped(at, Max({0, size - view})), view, size)
<1> DEFINE last == Max({0, size - view})
<1>1. last \in Nat /\ (last = 0 \/ last + view = size)
  <2>1. 0 \in Int /\ size - view \in Int
    OBVIOUS
  <2>2. last = IF 0 <= size - view THEN size - view ELSE 0
    BY ONLY <2>1, MinMaxOfTwo
  <2> HIDE DEF last
  <2> QED BY <2>1, <2>2
<1> HIDE DEF last
<1> DEFINE low == Min({at, last})
<1>2. low \in Int /\ low <= last
  BY <1>1, MinMaxOfTwo
<1> HIDE DEF low
<1>3. Max({0, low}) = IF 0 <= low THEN low ELSE 0
  BY <1>2, MinMaxOfTwo
<1>4. Clamped(at, last) = Max({0, low})
  BY DEF Clamped, low
<1>5. WindowOK(Clamped(at, last), view, size)
  BY <1>1, <1>2, <1>3, <1>4 DEF WindowOK
<1> QED BY <1>5 DEF last

\* Whatever was fetched over whatever picture, what is held is the picture of
\* the URI it was fetched from.
LEMMA FetchesOK ==
    ASSUME NEW p, NEW uri, NEW q \in Fetches(p, uri), PictureHeld(p)
    PROVE  PictureHeld(q) /\ PictureOf(uri, q)
<1> DEFINE d == [attempted |-> TRUE, ok |-> FALSE, thumb |-> p.thumb, full |-> NONE,
                 w |-> p.w, h |-> p.h, x |-> p.x, y |-> p.y, missed |-> p.missed]
<1>1. [p EXCEPT !.attempted = TRUE, !.ok = FALSE, !.full = NONE] = d
  <2> DEFINE r == [attempted |-> p.attempted, ok |-> p.ok, thumb |-> p.thumb, full |-> p.full,
                   w |-> p.w, h |-> p.h, x |-> p.x, y |-> p.y, missed |-> p.missed]
         yes == TRUE
         no  == FALSE
  <2> HIDE DEF yes, no
  <2>1. [[[r EXCEPT !.attempted = yes] EXCEPT !.ok = no] EXCEPT !.full = NONE]
            = [attempted |-> yes, ok |-> no, thumb |-> p.thumb, full |-> NONE,
               w |-> p.w, h |-> p.h, x |-> p.x, y |-> p.y, missed |-> p.missed]
    <3>1. [r EXCEPT !.attempted = yes]
              = [attempted |-> yes, ok |-> p.ok, thumb |-> p.thumb, full |-> p.full,
                 w |-> p.w, h |-> p.h, x |-> p.x, y |-> p.y, missed |-> p.missed]
      OBVIOUS
    <3>2. [[attempted |-> yes, ok |-> p.ok, thumb |-> p.thumb, full |-> p.full,
            w |-> p.w, h |-> p.h, x |-> p.x, y |-> p.y, missed |-> p.missed] EXCEPT !.ok = no]
              = [attempted |-> yes, ok |-> no, thumb |-> p.thumb, full |-> p.full,
                 w |-> p.w, h |-> p.h, x |-> p.x, y |-> p.y, missed |-> p.missed]
      OBVIOUS
    <3>3. [[attempted |-> yes, ok |-> no, thumb |-> p.thumb, full |-> p.full,
            w |-> p.w, h |-> p.h, x |-> p.x, y |-> p.y, missed |-> p.missed] EXCEPT !.full = NONE]
              = [attempted |-> yes, ok |-> no, thumb |-> p.thumb, full |-> NONE,
                 w |-> p.w, h |-> p.h, x |-> p.x, y |-> p.y, missed |-> p.missed]
      OBVIOUS
    <3> HIDE DEF r
    <3> QED BY ONLY <3>1, <3>2, <3>3
  <2>2. [[[r EXCEPT !.attempted = TRUE] EXCEPT !.ok = FALSE] EXCEPT !.full = NONE] = d
    BY ONLY <2>1, Zenon DEF yes, no
  <2>4. p = r
    BY DEF PictureHeld
  <2> HIDE DEF r
  <2>5. [p EXCEPT !.attempted = TRUE, !.ok = FALSE, !.full = NONE]
            = [[[r EXCEPT !.attempted = TRUE] EXCEPT !.ok = FALSE] EXCEPT !.full = NONE]
    BY ONLY <2>4
  <2> QED BY ONLY <2>2, <2>5
<1>2. CASE q = d
  BY <1>2 DEF PictureHeld, PictureOf, ThumbShown
<1>3. ASSUME NEW size \in Sizes, NEW t \in BOOLEAN, NEW f \in BOOLEAN, q = Decoded(d, uri, size, t, f)
      PROVE  PictureHeld(q) /\ PictureOf(uri, q)
  <2>1. size[1] \in Nat \ {0} /\ size[2] \in Nat \ {0}
    BY WindowAssumption
  <2>2. q = [attempted |-> TRUE, ok |-> t \/ f, thumb |-> IF t THEN uri ELSE p.thumb,
             full |-> IF f THEN uri ELSE NONE,
             w |-> IF f THEN size[1] ELSE p.w, h |-> IF f THEN size[2] ELSE p.h,
             x |-> IF f THEN 0 ELSE p.x, y |-> IF f THEN 0 ELSE p.y, missed |-> ~t]
    BY <1>3 DEF Decoded
  <2>3. /\ q.thumb = (IF t THEN uri ELSE p.thumb) /\ q.full = (IF f THEN uri ELSE NONE)
        /\ q.ok = (t \/ f) /\ q.missed = ~t
        /\ f => q.w = size[1] /\ q.h = size[2] /\ q.x = 0 /\ q.y = 0
    BY <2>2
  <2>4. PictureOf(uri, q)
    BY <2>3 DEF PictureOf, ThumbShown
  <2>5. q.full # NONE => WindowOK(q.x, ViewW, q.w) /\ WindowOK(q.y, ViewH, q.h)
    BY <2>1, <2>3 DEF WindowOK
  <2>6. q = [attempted |-> q.attempted, ok |-> q.ok, thumb |-> q.thumb, full |-> q.full,
             w |-> q.w, h |-> q.h, x |-> q.x, y |-> q.y, missed |-> q.missed]
    BY <2>2
  <2> QED BY <2>4, <2>5, <2>6 DEF PictureHeld
<1>4. q = d \/ \E size \in Sizes, t \in BOOLEAN, f \in BOOLEAN : q = Decoded(d, uri, size, t, f)
  <2> HIDE DEF d
  <2> QED BY <1>1 DEF Fetches
<1> QED BY <1>2, <1>3, <1>4

\* Panning changes neither whose picture it is nor that it is held.
LEMMA PannedOK ==
    ASSUME NEW p, NEW key, NEW uri, PictureHeld(p), PictureOf(uri, p), p.full # NONE
    PROVE  /\ PictureHeld(Panned(p, key)) /\ PictureOf(uri, Panned(p, key))
           /\ Panned(p, key).full # NONE
<1> DEFINE dx == CASE key = "4" -> -PanStep [] key = "6" -> PanStep [] OTHER -> 0
           dy == CASE key = "up" -> -PanStep [] key = "down" -> PanStep [] OTHER -> 0
           x  == Clamped(p.x + dx, Max({0, p.w - ViewW}))
           y  == Clamped(p.y + dy, Max({0, p.h - ViewH}))
           q  == [p EXCEPT !.x = x, !.y = y]
<1>1. dx \in Int /\ dy \in Int
  BY WindowAssumption
<1>2. Panned(p, key) = q
  BY DEF Panned
<1> HIDE DEF dx, dy
<1>3. WindowOK(x, ViewW, p.w) /\ WindowOK(y, ViewH, p.h)
  <2>1. p.x + dx \in Int /\ p.y + dy \in Int /\ p.w \in Nat \ {0} /\ p.h \in Nat \ {0}
    BY <1>1 DEF PictureHeld, WindowOK
  <2> QED BY <2>1, ClampedOK, WindowAssumption
<1> HIDE DEF x, y
<1>4. q = [attempted |-> p.attempted, ok |-> p.ok, thumb |-> p.thumb, full |-> p.full,
           w |-> p.w, h |-> p.h, x |-> x, y |-> y, missed |-> p.missed]
  <2> DEFINE r == [attempted |-> p.attempted, ok |-> p.ok, thumb |-> p.thumb, full |-> p.full,
                   w |-> p.w, h |-> p.h, x |-> p.x, y |-> p.y, missed |-> p.missed]
  <2>1. [r EXCEPT !.x = x]
            = [attempted |-> p.attempted, ok |-> p.ok, thumb |-> p.thumb, full |-> p.full,
               w |-> p.w, h |-> p.h, x |-> x, y |-> p.y, missed |-> p.missed]
    OBVIOUS
  <2>2. [[attempted |-> p.attempted, ok |-> p.ok, thumb |-> p.thumb, full |-> p.full,
          w |-> p.w, h |-> p.h, x |-> x, y |-> p.y, missed |-> p.missed] EXCEPT !.y = y]
            = [attempted |-> p.attempted, ok |-> p.ok, thumb |-> p.thumb, full |-> p.full,
               w |-> p.w, h |-> p.h, x |-> x, y |-> y, missed |-> p.missed]
    OBVIOUS
  <2>3. p = r
    BY DEF PictureHeld
  <2> HIDE DEF r
  <2>4. q = [[r EXCEPT !.x = x] EXCEPT !.y = y]
    BY ONLY <2>3 DEF q
  <2> QED BY ONLY <2>1, <2>2, <2>4
<1> HIDE DEF q
<1> QED BY <1>2, <1>3, <1>4 DEF PictureHeld, PictureOf, ThumbShown

\* The pixels of one dimension of the window.
LEMMA WindowSide ==
    ASSUME NEW at, NEW view \in Nat \ {0}, NEW size, WindowOK(at, view, size)
    PROVE  /\ at .. at + Min({view, size - at}) - 1 \subseteq 0 .. size - 1
           /\ IsFiniteSet(at .. at + Min({view, size - at}) - 1)
           /\ Cardinality(at .. at + Min({view, size - at}) - 1) = Min({view, size})
<1>1. at \in Nat /\ size \in Nat \ {0} /\ (at = 0 \/ at + view <= size)
  BY DEF WindowOK
<1> DEFINE n == Min({view, size - at})
<1>2. n = Min({view, size}) /\ n \in Nat \ {0} /\ at + n <= size
  BY <1>1, MinMaxOfTwo
<1> HIDE DEF n
<1>3. at \in Int /\ at + n - 1 \in Int /\ at <= at + n - 1 /\ (at + n - 1) - at + 1 = n
  BY <1>1, <1>2
<1>4. IsFiniteSet(at .. at + n - 1) /\ Cardinality(at .. at + n - 1) = n
  BY <1>3, FS_Interval
<1> QED BY <1>1, <1>2, <1>4 DEF n

\* So that the pages show what they should.
LEMMA PageShows ==
    ASSUME NEW p, NEW uri, NEW viewer \in BOOLEAN, PictureHeld(p), PictureOf(uri, p),
           viewer => p.full # NONE
    PROVE  ShowsPictureOf(uri, p, viewer)
<1> SUFFICES ASSUME viewer
             PROVE  /\ p.full = uri
                    /\ Window(p) \subseteq (0 .. p.w - 1) \X (0 .. p.h - 1)
                    /\ Cardinality(Window(p)) = Min({ViewW, p.w}) * Min({ViewH, p.h})
  BY DEF ShowsPictureOf, PictureOf
<1>1. WindowOK(p.x, ViewW, p.w) /\ WindowOK(p.y, ViewH, p.h) /\ p.full = uri
  BY DEF PictureHeld, PictureOf
<1> DEFINE across == p.x .. p.x + Min({ViewW, p.w - p.x}) - 1
           down   == p.y .. p.y + Min({ViewH, p.h - p.y}) - 1
<1>2. /\ across \subseteq 0 .. p.w - 1 /\ IsFiniteSet(across) /\ Cardinality(across) = Min({ViewW, p.w})
      /\ down \subseteq 0 .. p.h - 1 /\ IsFiniteSet(down) /\ Cardinality(down) = Min({ViewH, p.h})
  BY <1>1, WindowSide, WindowAssumption
<1>3. Window(p) = across \X down
  BY DEF Window
<1> HIDE DEF across, down
<1>4. Cardinality(across \X down) = Cardinality(across) * Cardinality(down)
  BY <1>2, FS_Product
<1> QED BY <1>1, <1>2, <1>3, <1>4

\* A page of a token holds the picture of that token, and the viewer one in
\* full.
TokenPage(phase, uri, p) ==
    /\ PictureHeld(p)
    /\ phase \in {"detail", "viewer"} => PictureOf(uri, p)
    /\ phase = "viewer" => p.full # NONE

GalleryOK ==
    galPhase \in {"list", "detail", "viewer"} /\ TokenPage(galPhase, galTokens[galItem].uri, galPicture)

\* The home page was filled in from the address book as it is; while an
\* address is typed nothing changes.
DiscoverOK ==
    /\ discPhase \in {"home", "entry", "site", "list", "detail", "viewer"}
    /\ TokenPage(discPhase, holdings[discItem].uri, discPicture)
    /\ book \in Seq(Range(book))
    /\ open = "discover" /\ discPhase \in {"home", "entry"} =>
          rows = <<"visit">> \o Names(book) \o Suggested /\ realRows = Len(book) + 1

\* Before anything was fetched.
LEMMA NothingHeld == PictureHeld(NoPicture)
  BY DEF PictureHeld, NoPicture

\* The steps of the gallery.
LEMMA GalleryStep == GalleryOK /\ GalleryNext => GalleryOK'
<1> SUFFICES ASSUME GalleryOK, GalleryNext PROVE GalleryOK'
  OBVIOUS
<1>1. ASSUME NEW reply, OpenGallery(reply) PROVE GalleryOK'
  BY <1>1, NothingHeld DEF OpenGallery, GalleryOK, TokenPage
<1>2. ASSUME NEW row, OpenToken(row) PROVE GalleryOK'
  <2>1. PictureHeld(galPicture') /\ PictureOf(galTokens[row].uri, galPicture')
    BY <1>2, FetchesOK DEF OpenToken, GalleryOK, TokenPage
  <2> QED BY <1>2, <2>1 DEF OpenToken, GalleryOK, TokenPage
<1>3. CASE ViewToken
  BY <1>3 DEF ViewToken, Viewable, GalleryOK, TokenPage
<1>4. CASE GalleryBack
  BY <1>4 DEF GalleryBack, GalleryOK, TokenPage
<1>5. ASSUME NEW key, PanToken(key) PROVE GalleryOK'
  <2>1. /\ PictureHeld(galPicture') /\ PictureOf(galTokens[galItem].uri, galPicture')
        /\ galPicture'.full # NONE
    BY <1>5, PannedOK DEF PanToken, GalleryOK, TokenPage
  <2> QED BY <1>5, <2>1 DEF PanToken, GalleryOK, TokenPage
<1> QED BY <1>1, <1>2, <1>3, <1>4, <1>5 DEF GalleryNext

\* A contact that was added is the last of the book.
LEMMA BookGrows ==
    ASSUME NEW old, old \in Seq(Range(old)), NEW contact
    PROVE  Append(old, contact) \in Seq(Range(Append(old, contact)))
<1> DEFINE S == Range(old) \cup {contact}
           new == Append(old, contact)
<1>1. old \in Seq(S) /\ contact \in S
  <2>1. \A i \in 1 .. Len(old) : old[i] \in S
    OBVIOUS
  <2> QED BY <2>1
<1>2. new \in Seq(S) /\ Len(new) = Len(old) + 1
  <2> HIDE DEF S
  <2> QED BY <1>1, AppendProperties
<1> HIDE DEF new
<1>3. \A i \in 1 .. Len(new) : new[i] \in Range(new)
  BY <1>2 DEF Range
<1> QED BY <1>2, <1>3 DEF new

\* The steps of the address browser.
LEMMA DiscoverStep == DiscoverOK /\ DiscoverNext => DiscoverOK'
<1> SUFFICES ASSUME DiscoverOK, DiscoverNext PROVE DiscoverOK'
  OBVIOUS
<1>1. CASE OpenDiscover
  BY <1>1, NothingHeld DEF OpenDiscover, Refreshed, DiscoverOK, TokenPage
<1>2. CASE EnterAddress
  BY <1>2 DEF EnterAddress, OnTop, homeVars, siteVars, pictureVars, DiscoverOK, TokenPage
<1>3. CASE Bookmark
  <2>1. book' \in Seq(Range(book'))
    BY <1>3, BookGrows DEF Bookmark, DiscoverOK
  <2> QED BY <1>3, <2>1 DEF Bookmark, OnTop, homeVars, pictureVars, DiscoverOK, TokenPage
<1>4. CASE Browse
  BY <1>4 DEF Browse, homeVars, siteVars, pictureVars, DiscoverOK, TokenPage
<1>5. CASE ViewHolding
  BY <1>5 DEF ViewHolding, Viewable, homeVars, siteVars, pictureVars, DiscoverOK, TokenPage
<1>6. CASE DiscoverBack
  <2>1. /\ discPhase' = CASE discPhase \in {"entry", "site"} -> "home" [] discPhase = "list" -> "site"
                          [] discPhase = "detail" -> "list" [] discPhase = "viewer" -> "detail"
        /\ discPicture' = discPicture /\ discItem' = discItem /\ holdings' = holdings /\ book' = book
        /\ open = "discover"
    BY <1>6 DEF DiscoverBack, Back, OnTop, siteVars, pictureVars, DiscoverOK
  <2>2. TokenPage(discPhase, holdings[discItem].uri, discPicture)'
    <3>1. CASE discPhase = "viewer"
      BY <2>1, <3>1 DEF DiscoverOK, TokenPage
    <3>2. CASE discPhase # "viewer"
      <4>1. discPhase' \in {"home", "site", "list"}
        BY <1>6, <2>1, <3>2 DEF DiscoverBack, DiscoverOK
      <4>2. PictureHeld(discPicture')
        BY <2>1 DEF DiscoverOK, TokenPage
      <4> QED BY <4>1, <4>2 DEF TokenPage
    <3> QED BY <3>1, <3>2
  <2>3. CASE discPhase = "site"
    BY <1>6, <2>1, <2>2, <2>3 DEF DiscoverBack, ReturnedHome, Refreshed, DiscoverOK
  <2>4. CASE discPhase # "site"
    BY <1>6, <2>1, <2>2, <2>4 DEF DiscoverBack, ReturnedHome, homeVars, DiscoverOK
  <2> QED BY <2>3, <2>4
<1>7. CASE CloseDiscover
  BY <1>7, NoneAssumption DEF CloseDiscover, Apps, discoverVars, homeVars, siteVars, pictureVars,
                              DiscoverOK, TokenPage
<1>8. ASSUME NEW site, NEW info, NEW reply, VisitTyped(site, info, reply)
      PROVE  DiscoverOK'
  BY <1>8 DEF VisitTyped, Visit, pictureVars, DiscoverOK, TokenPage
<1>9. ASSUME NEW row, NEW info, NEW reply, VisitRow(row, info, reply)
      PROVE  DiscoverOK'
  BY <1>9 DEF VisitRow, Visit, pictureVars, DiscoverOK, TokenPage
<1>10. ASSUME NEW row, OpenHolding(row) PROVE DiscoverOK'
  <2>1. PictureHeld(discPicture') /\ PictureOf(holdings[row].uri, discPicture')
    BY <1>10, FetchesOK DEF OpenHolding, DiscoverOK, TokenPage
  <2> QED BY <1>10, <2>1 DEF OpenHolding, homeVars, siteVars, DiscoverOK, TokenPage
<1>11. ASSUME NEW key, PanHolding(key) PROVE DiscoverOK'
  <2>1. /\ PictureHeld(discPicture') /\ PictureOf(holdings[discItem].uri, discPicture')
        /\ discPicture'.full # NONE
    BY <1>11, PannedOK DEF PanHolding, DiscoverOK, TokenPage
  <2> QED BY <1>11, <2>1 DEF PanHolding, homeVars, siteVars, DiscoverOK, TokenPage
<1> QED BY <1>1, <1>2, <1>3, <1>4, <1>5, <1>6, <1>7, <1>8, <1>9, <1>10, <1>11 DEF DiscoverNext

\* A step of another app.
LEMMA DiscoverFrame ==
    ASSUME NEW apps, "discover" \notin apps, MovesOnly(apps), UNCHANGED discoverVars, DiscoverOK
    PROVE  DiscoverOK'
  BY NoneAssumption DEF MovesOnly, DiscoverOK, TokenPage, discoverVars, homeVars, siteVars, pictureVars,
                        Apps, SigningApps

\* What the rows of the home page say and where they lead is what the book
\* says, row by row.
LEMMA RowsAreBook ==
    ASSUME DiscoverOK, open = "discover", discPhase = "home"
    PROVE  HomeIsBook
<1> DEFINE S == {"visit"} \cup Range(Names(book)) \cup Sites
           names == Names(book)
<1>1. /\ book \in Seq(Range(book)) /\ Len(book) \in Nat /\ DOMAIN book = 1 .. Len(book)
      /\ rows = <<"visit">> \o names \o Suggested /\ realRows = Len(book) + 1
  BY DEF DiscoverOK
<1>2. names \in Seq(S) /\ Len(names) = Len(book) /\ \A i \in 1 .. Len(book) : names[i] = book[i].name
  <2>1. names = [i \in 1 .. Len(book) |-> book[i].name]
    BY <1>1 DEF Names
  <2>2. \A i \in 1 .. Len(book) : names[i] \in S
    BY <2>1 DEF Range
  <2> HIDE DEF names, S
  <2> QED BY <1>1, <2>1, <2>2
<1>3. <<"visit">> \in Seq(S) /\ Suggested \in Seq(S) /\ Len(<<"visit">>) = 1
  BY BooksAssumption
<1> HIDE DEF names, S
<1> DEFINE front == <<"visit">> \o names
<1>4. /\ front \in Seq(S) /\ Len(front) = Len(book) + 1
      /\ \A i \in 1 .. 1 + Len(book) : front[i] = IF i <= 1 THEN <<"visit">>[i] ELSE names[i - 1]
  BY <1>1, <1>2, <1>3, ConcatProperties
<1> HIDE DEF front
<1>5. /\ Len(rows) = Len(book) + 1 + Len(Suggested)
      /\ \A i \in 1 .. Len(book) + 1 + Len(Suggested) :
            rows[i] = IF i <= Len(book) + 1 THEN front[i] ELSE Suggested[i - (Len(book) + 1)]
  <2>1. rows = front \o Suggested
    BY <1>1 DEF front
  <2>2. /\ Len(rows) = Len(front) + Len(Suggested)
        /\ \A i \in 1 .. Len(front) + Len(Suggested) :
              rows[i] = IF i <= Len(front) THEN front[i] ELSE Suggested[i - Len(front)]
    BY ONLY <1>3, <1>4, <2>1, ConcatProperties
  <2> QED BY <1>4, <2>2
<1>6. ASSUME NEW row \in 2 .. Len(rows)
      PROVE  IF row - 1 \in DOMAIN book
             THEN rows[row] = book[row - 1].name /\ SiteOfRow(row) = book[row - 1].address
             ELSE rows[row] = SiteOfRow(row)
  <2>1. CASE row <= Len(book) + 1
    <3>1. row - 1 \in 1 .. Len(book) /\ row \in 1 .. 1 + Len(book) /\ ~(row <= 1)
          /\ row \in 1 .. Len(book) + 1 + Len(Suggested)
      BY <1>1, <1>3, <1>5, <2>1
    <3>2. rows[row] = book[row - 1].name
      BY <1>2, <1>4, <1>5, <2>1, <3>1
    <3> QED BY <1>1, <2>1, <3>1, <3>2 DEF SiteOfRow
  <2>2. CASE ~(row <= Len(book) + 1)
    <3>1. row - 1 \notin 1 .. Len(book) /\ row \in 1 .. Len(book) + 1 + Len(Suggested)
      BY <1>1, <1>3, <1>5, <2>2
    <3> QED BY <1>1, <1>5, <2>2, <3>1 DEF SiteOfRow
  <2> QED BY <2>1, <2>2
<1> QED BY <1>6 DEF HomeIsBook

\* The invariant of the pages with pictures.
BrowsingOK == GalleryOK /\ DiscoverOK

\* So does the invariant of the gallery and the browser.
LEMMA BrowsingInit == Init => BrowsingOK
  BY NothingHeld, BooksAssumption, NoneAssumption
  DEF Init, PopupInit, GalleryInit, DiscoverInit, BrowsingOK, GalleryOK, DiscoverOK, TokenPage, Apps

\* Every step keeps the invariant of the gallery and the browser.
LEMMA BrowsingStep == BrowsingOK /\ [Next]_vars => BrowsingOK'
<1> SUFFICES ASSUME BrowsingOK, [Next]_vars PROVE BrowsingOK'
  OBVIOUS
<1>1. GalleryOK'
  <2>1. CASE UNCHANGED galleryVars
    BY <2>1 DEF galleryVars, BrowsingOK, GalleryOK, TokenPage
  <2>2. CASE GalleryNext
    BY <2>2, GalleryStep DEF BrowsingOK
  <2> QED BY <2>1, <2>2 DEF Next, Explorer, Messenger, Beacon, Tool, toolVars, vars
<1>2. DiscoverOK'
  <2>1. CASE UNCHANGED vars
    BY <2>1 DEF vars, popupVars, toolVars, discoverVars, homeVars, siteVars, pictureVars,
                BrowsingOK, DiscoverOK, TokenPage
  <2>2. CASE Explorer
    BY <2>2, ExplorerMoves, DiscoverFrame DEF Explorer, toolVars, BrowsingOK
  <2>3. CASE Messenger
    BY <2>3, MessengerMoves, DiscoverFrame DEF Messenger, toolVars, BrowsingOK
  <2>4. CASE Beacon
    BY <2>4, BeaconMoves, DiscoverFrame DEF Beacon, toolVars, BrowsingOK
  <2>5. CASE Tool
    <3>1. CASE GalleryNext /\ UNCHANGED <<discoverVars, snakeVars, wifiVars>>
      BY <3>1, ToolsMove, DiscoverFrame DEF BrowsingOK
    <3>2. CASE DiscoverNext
      BY <3>2, DiscoverStep DEF BrowsingOK
    <3>3. CASE SnakeNext /\ UNCHANGED <<galleryVars, discoverVars, wifiVars>>
      BY <3>3, ToolsMove, DiscoverFrame DEF BrowsingOK
    <3>4. CASE WifiNext /\ UNCHANGED <<galleryVars, discoverVars, snakeVars>>
      BY <3>4, ToolsMove, DiscoverFrame DEF BrowsingOK
    <3> QED BY <2>5, <3>1, <3>2, <3>3, <3>4 DEF Tool
  <2> QED BY <2>1, <2>2, <2>3, <2>4, <2>5 DEF Next
<1> QED BY <1>1, <1>2 DEF BrowsingOK

\* The viewer shows the picture of its very token, through a window that lies
\* inside it, and the token's page its thumbnail or none, unless there was
\* memory for the full picture only, whatever was fetched and panned before
\* (gallery.c, discover.c).
THEOREM PagesShowTheirItem == Spec => []PictureIsOfItem
<1>1. BrowsingOK => PictureIsOfItem
  BY PageShows DEF BrowsingOK, GalleryOK, DiscoverOK, TokenPage, PictureIsOfItem
<1> QED BY <1>1, BrowsingInit, BrowsingStep, PTL DEF Spec

\* The rows of the browser's home page are the contacts of the address book
\* as it is now, wherever one came back from (refresh_bookmarks, discover.c).
THEOREM HomeShowsBook == Spec => []HomeIsBook
<1>1. BrowsingOK => HomeIsBook
  BY RowsAreBook DEF BrowsingOK, HomeIsBook
<1> QED BY <1>1, BrowsingInit, BrowsingStep, PTL DEF Spec

-----------------------------------------------------------------------------
(* What nmcli prints is read as it was said.  Each of the functions that    *)
(* the parsers of settings.c and tezos_wifi.c amount to is shown to exist,  *)
(* and then followed from one character or field to the next.               *)

\* e[i] are the first i characters of text, escaped.
Escapes(e, text, C) ==
    /\ e \in [0 .. Len(text) -> Seq(C)] /\ e[0] = <<>>
    /\ \A i \in 1 .. Len(text) : e[i] = e[i - 1] \o Piece(text[i])

\* Every text can be escaped.
LEMMA EscapedIsBuilt ==
    ASSUME NEW C, Special \subseteq C, NEW text \in Seq(C)
    PROVE  \E e : Escapes(e, text, C) /\ Escaped(text) = e[Len(text)]
<1> DEFINE N == Len(text)
           V == Seq(C)
           step == [a \in (1 .. N) \X V |-> a[2] \o Piece(text[a[1]])]
           Step(f) == [i \in 0 .. N |-> IF i = 0 THEN <<>> ELSE f[i - 1] \o Piece(text[i])]
           escaped == CHOOSE f : f = Step(f)
<1>1. N \in Nat /\ <<>> \in V
  OBVIOUS
<1>2. ASSUME NEW i \in 1 .. N, NEW s \in V PROVE s \o Piece(text[i]) \in V
  <2>1. text[i] \in C
    BY ElementOfSeq
  <2>2. Piece(text[i]) \in Seq(C)
    BY <2>1 DEF Piece, Special
  <2> QED BY <2>2, ConcatProperties
<1>3. step \in [(1 .. N) \X V -> V] /\ \A i \in 1 .. N, s \in V : step[<<i, s>>] = s \o Piece(text[i])
  BY <1>2
<1> HIDE DEF step, V
<1>4. PICK e : Recurs(e, N, V, <<>>, step)
  BY <1>1, <1>3, Recursion
<1>5. /\ e \in [0 .. N -> V] /\ e[0] = <<>>
      /\ \A i \in 1 .. N : e[i - 1] \in V /\ e[i] = e[i - 1] \o Piece(text[i])
  <2>1. /\ e \in [0 .. N -> V] /\ e[0] = <<>>
        /\ \A i \in 1 .. N : e[i] = step[<<i, e[i - 1]>>]
    BY <1>4 DEF Recurs
  <2>2. \A i \in 1 .. N : i - 1 \in 0 .. N
    BY <1>1
  <2> QED BY <1>3, <2>1, <2>2
<1>6. escaped = Step(escaped)
  <2>1. e = Step(e)
    BY <1>1, <1>5
  <2> HIDE DEF Step
  <2> QED BY <2>1
<1>7. Escaped(text) = escaped[N]
  BY DEF Escaped
<1> HIDE DEF escaped
<1>8. Follows(escaped, N, V, <<>>, step)
  <2>1. /\ escaped = [i \in 0 .. N |-> escaped[i]] /\ escaped[0] = <<>>
        /\ \A i \in 1 .. N : escaped[i] = escaped[i - 1] \o Piece(text[i])
    BY <1>1, <1>6
  <2> QED BY <1>3, <2>1 DEF Follows
<1>9. Recurs(escaped, N, V, <<>>, step)
  BY <1>1, <1>3, <1>8, FollowsThroughout
<1>10. Escapes(escaped, text, C)
  <2>1. /\ escaped \in [0 .. N -> V] /\ escaped[0] = <<>>
        /\ \A i \in 1 .. N : escaped[i] = step[<<i, escaped[i - 1]>>]
    BY <1>9 DEF Recurs
  <2>2. \A i \in 1 .. N : i - 1 \in 0 .. N
    BY <1>1
  <2> QED BY <1>3, <2>1, <2>2 DEF Escapes, V
<1> QED BY <1>7, <1>10

\* What comes before field i of a line.
Between(i) == IF i = 1 THEN <<>> ELSE <<COLON>>

\* l[i] are the first i fields, as they stand in a line.
Lines(l, fields, C) ==
    /\ l \in [0 .. Len(fields) -> Seq(C)] /\ l[0] = <<>>
    /\ \A i \in 1 .. Len(fields) : l[i] = l[i - 1] \o Between(i) \o Escaped(fields[i])

\* A text escaped is a text.
LEMMA EscapedType ==
    ASSUME NEW C, Special \subseteq C, NEW text \in Seq(C)
    PROVE  Escaped(text) \in Seq(C)
<1>1. PICK e : Escapes(e, text, C) /\ Escaped(text) = e[Len(text)]
  BY EscapedIsBuilt
<1>2. Len(text) \in 0 .. Len(text)
  OBVIOUS
<1> QED BY <1>1, <1>2 DEF Escapes

\* Every sequence of fields makes a line.
LEMMA LineIsBuilt ==
    ASSUME NEW C, Special \subseteq C, NEW fields \in Seq(Seq(C))
    PROVE  \E l : Lines(l, fields, C) /\ Line(fields) = l[Len(fields)]
<1> DEFINE N == Len(fields)
           V == Seq(C)
           Longer(i, s) == s \o Between(i) \o Escaped(fields[i])
           step == [a \in (1 .. N) \X V |-> Longer(a[1], a[2])]
           Step(f) == [i \in 0 .. N |-> IF i = 0 THEN <<>> ELSE Longer(i, f[i - 1])]
           line == CHOOSE f : f = Step(f)
<1>1. N \in Nat /\ <<>> \in V
  OBVIOUS
<1>2. ASSUME NEW i \in 1 .. N, NEW s \in V PROVE Longer(i, s) \in V
  <2>1. fields[i] \in Seq(C)
    BY ElementOfSeq
  <2>2. Escaped(fields[i]) \in Seq(C)
    BY <2>1, EscapedType
  <2>3. Between(i) \in Seq(C)
    BY DEF Between, Special
  <2> QED BY <2>2, <2>3, ConcatProperties
<1>3. /\ step \in [(1 .. N) \X V -> V]
      /\ \A i \in 1 .. N, s \in V : step[<<i, s>>] = Longer(i, s)
  BY <1>2
<1>7. Line(fields) = line[N]
  BY DEF Line, Between
<1> HIDE DEF step, V, Longer
<1>4. PICK e : Recurs(e, N, V, <<>>, step)
  BY <1>1, <1>3, Recursion
<1>5. /\ e \in [0 .. N -> V] /\ e[0] = <<>>
      /\ \A i \in 1 .. N : e[i - 1] \in V /\ e[i] = Longer(i, e[i - 1])
  <2>1. /\ e \in [0 .. N -> V] /\ e[0] = <<>>
        /\ \A i \in 1 .. N : e[i] = step[<<i, e[i - 1]>>]
    BY <1>4 DEF Recurs
  <2>2. \A i \in 1 .. N : i - 1 \in 0 .. N
    BY <1>1
  <2> QED BY <1>3, <2>1, <2>2
<1>6. line = Step(line)
  <2>1. e = Step(e)
    BY <1>1, <1>5
  <2> HIDE DEF Step
  <2> QED BY <2>1
<1> HIDE DEF line
<1>8. Follows(line, N, V, <<>>, step)
  <2>1. line = [i \in 0 .. N |-> IF i = 0 THEN <<>> ELSE Longer(i, line[i - 1])]
    BY <1>6
  <2>2. line = [i \in 0 .. N |-> line[i]]
    BY ONLY <2>1
  <2>3. line[0] = <<>> /\ \A i \in 1 .. N : line[i] = Longer(i, line[i - 1])
    <3> HIDE DEF N
    <3> QED BY ONLY <1>1, <2>1
  <2> QED BY <1>3, <2>2, <2>3 DEF Follows
<1>9. Recurs(line, N, V, <<>>, step)
  BY <1>1, <1>3, <1>8, FollowsThroughout
<1>10. Lines(line, fields, C)
  <2>1. /\ line \in [0 .. N -> V] /\ line[0] = <<>>
        /\ \A i \in 1 .. N : line[i] = step[<<i, line[i - 1]>>]
    BY <1>9 DEF Recurs
  <2>2. \A i \in 1 .. N : i - 1 \in 0 .. N
    BY <1>1
  <2> QED BY <1>3, <2>1, <2>2 DEF Lines, V, Longer
<1> QED BY <1>7, <1>10

\* What split_terse_line keeps.
States(C) == [done : Seq(Seq(C)), field : Seq(C), skip : BOOLEAN]

\* s[i] is what it has after i characters.
Splits(s, line, C) ==
    /\ s \in [0 .. Len(line) -> States(C)] /\ s[0] = Start
    /\ \A i \in 1 .. Len(line) : s[i] = Taken(s[i - 1], line, i)

\* Every line can be split.
LEMMA SplitIsBuilt ==
    ASSUME NEW C, NEW line \in Seq(C)
    PROVE  \E s : /\ Splits(s, line, C)
                  /\ Split(line) = Append(s[Len(line)].done, s[Len(line)].field)
<1> DEFINE N == Len(line)
           V == States(C)
           step == [a \in (1 .. N) \X V |-> Taken(a[2], line, a[1])]
           Step(f) == [i \in 0 .. N |-> IF i = 0 THEN Start ELSE Taken(f[i - 1], line, i)]
           state == CHOOSE f : f = Step(f)
<1>1. N \in Nat /\ Start \in V
  BY DEF Start, States
<1>2. ASSUME NEW i \in 1 .. N, NEW s \in V PROVE Taken(s, line, i) \in V
  <2>1. line[i] \in C /\ (i < N => line[i + 1] \in C)
    BY ElementOfSeq
  <2>2. s = [done |-> s.done, field |-> s.field, skip |-> s.skip]
        /\ s.done \in Seq(Seq(C)) /\ s.field \in Seq(C)
    BY DEF States
  <2>3. Append(s.done, s.field) \in Seq(Seq(C)) /\ <<>> \in Seq(C) /\ Append(s.field, line[i]) \in Seq(C)
        /\ (i < N => Append(s.field, line[i + 1]) \in Seq(C))
    BY <2>1, <2>2, AppendProperties
  <2> QED BY <2>2, <2>3 DEF Taken, States
<1>3. /\ step \in [(1 .. N) \X V -> V]
      /\ \A i \in 1 .. N, s \in V : step[<<i, s>>] = Taken(s, line, i)
  BY <1>2
<1> HIDE DEF step, V
<1>4. PICK e : Recurs(e, N, V, Start, step)
  BY <1>1, <1>3, Recursion
<1>5. /\ e \in [0 .. N -> V] /\ e[0] = Start
      /\ \A i \in 1 .. N : e[i - 1] \in V /\ e[i] = Taken(e[i - 1], line, i)
  <2>1. /\ e \in [0 .. N -> V] /\ e[0] = Start
        /\ \A i \in 1 .. N : e[i] = step[<<i, e[i - 1]>>]
    BY <1>4 DEF Recurs
  <2>2. \A i \in 1 .. N : i - 1 \in 0 .. N
    BY <1>1
  <2> QED BY <1>3, <2>1, <2>2
<1>6. state = Step(state)
  <2>1. e = Step(e)
    BY <1>1, <1>5
  <2> HIDE DEF Step
  <2> QED BY <2>1
<1>7. Split(line) = Append(state[N].done, state[N].field)
  BY DEF Split
<1> HIDE DEF state
<1>8. Follows(state, N, V, Start, step)
  <2>1. /\ state = [i \in 0 .. N |-> state[i]] /\ state[0] = Start
        /\ \A i \in 1 .. N : state[i] = Taken(state[i - 1], line, i)
    BY <1>1, <1>6
  <2> QED BY <1>3, <2>1 DEF Follows
<1>9. Recurs(state, N, V, Start, step)
  BY <1>1, <1>3, <1>8, FollowsThroughout
<1>10. Splits(state, line, C)
  <2>1. /\ state \in [0 .. N -> V] /\ state[0] = Start
        /\ \A i \in 1 .. N : state[i] = step[<<i, state[i - 1]>>]
    BY <1>9 DEF Recurs
  <2>2. \A i \in 1 .. N : i - 1 \in 0 .. N
    BY <1>1
  <2> QED BY <1>3, <2>1, <2>2 DEF Splits, V
<1> QED BY <1>7, <1>10

\* A part of the line, after its first d characters.
Stands(line, d, part) ==
    /\ d + Len(part) <= Len(line)
    /\ \A k \in 1 .. Len(part) : line[d + k] = part[k]

\* A part of a part stands where it does.
LEMMA PartsStand ==
    ASSUME NEW C, NEW line \in Seq(C), NEW a \in Seq(C), NEW b \in Seq(C), NEW d \in Nat,
           Stands(line, d, a \o b)
    PROVE  Stands(line, d, a) /\ Stands(line, d + Len(a), b)
<1>1. /\ Len(a \o b) = Len(a) + Len(b)
      /\ \A k \in 1 .. Len(a) + Len(b) :
            (a \o b)[k] = IF k <= Len(a) THEN a[k] ELSE b[k - Len(a)]
  BY ConcatProperties
<1>2. Len(a) \in Nat /\ Len(b) \in Nat /\ Len(line) \in Nat
  OBVIOUS
<1> DEFINE la == Len(a)
           lb == Len(b)
           ab == a \o b
<1>3. /\ d + (la + lb) <= Len(line)
      /\ \A k \in 1 .. la + lb : line[d + k] = ab[k]
  BY <1>1 DEF Stands
<1>4. ASSUME NEW k \in 1 .. la PROVE line[d + k] = a[k]
  <2>1. k \in 1 .. la + lb /\ k <= la
    BY <1>2
  <2> QED BY <1>1, <1>3, <2>1
<1>5. ASSUME NEW k \in 1 .. lb PROVE line[d + la + k] = b[k]
  <2> DEFINE m == la + k
  <2>1. m \in 1 .. la + lb /\ ~(m <= la) /\ m - la = k /\ d + la + k = d + m
    BY <1>2
  <2>2. line[d + m] = ab[m] /\ ab[m] = b[m - la]
    <3> HIDE DEF m
    <3> QED BY <1>1, <1>3, <2>1
  <2> QED BY <2>1, <2>2
<1>6. d + la <= Len(line) /\ d + la + lb <= Len(line)
  BY <1>2, <1>3
<1> QED BY <1>4, <1>5, <1>6 DEF Stands

\* The state between two characters, and after i of the line.
At(done, field) == [done |-> done, field |-> field, skip |-> FALSE]
Stood(s, i, done, field) == s[i] = At(done, field)

\* One character, as nmcli prints it, is read as that character.
LEMMA PieceIsRead ==
    ASSUME NEW C, Special \subseteq C, NEW line \in Seq(C), NEW s, Splits(s, line, C),
           NEW d \in Nat, NEW c \in C, Stands(line, d, Piece(c)),
           NEW D \in Seq(Seq(C)), NEW G \in Seq(C), Stood(s, d, D, G)
    PROVE  Stood(s, d + Len(Piece(c)), D, Append(G, c))
<1> DEFINE N == Len(line)
           e == d + 1
<1>1. N \in Nat /\ e \in Nat /\ e - 1 = d
  OBVIOUS
<1>2. Piece(c) \in Seq(C) /\ Len(Piece(c)) \in {1, 2}
  BY DEF Piece, Special
<1>3. e \in 1 .. N /\ line[e] = Piece(c)[1]
  <2>1. d + Len(Piece(c)) <= N /\ \A k \in 1 .. Len(Piece(c)) : line[d + k] = Piece(c)[k]
    BY DEF Stands
  <2>2. 1 \in 1 .. Len(Piece(c)) /\ e <= N
    <3> DEFINE n == Len(Piece(c))
    <3>1. n \in {1, 2} /\ d + n <= N
      BY <1>2, <2>1
    <3> HIDE DEF n
    <3>2. 1 \in 1 .. n /\ e <= N
      BY <1>1, <3>1
    <3> QED BY <3>2 DEF n
  <2> QED BY <1>1, <2>1, <2>2
<1>4. s[e] = Taken(At(D, G), line, e)
  <2>1. \A i \in 1 .. N : s[i] = Taken(s[i - 1], line, i)
    BY DEF Splits
  <2>2. s[e] = Taken(s[d], line, e)
    <3> HIDE DEF e
    <3> QED BY <1>1, <1>3, <2>1
  <2> QED BY <2>2 DEF Stood
<1>5. CASE c \notin Special
  <2>1. Piece(c) = <<c>> /\ c # BACKSLASH /\ c # COLON
    BY <1>5 DEF Piece, Special
  <2>2. line[e] = c /\ Len(Piece(c)) = 1
    BY <1>3, <2>1
  <2>3. Taken(At(D, G), line, e) = At(D, Append(G, c))
    <3> HIDE DEF e
    <3> QED BY <2>1, <2>2 DEF Taken, At
  <2> QED BY <1>4, <2>2, <2>3 DEF Stood
<1>6. CASE c \in Special
  <2> DEFINE f == d + 2
  <2>1. Piece(c) = <<BACKSLASH, c>> /\ Len(Piece(c)) = 2
    BY <1>6 DEF Piece
  <2>2. f \in 1 .. N /\ line[f] = c /\ e < N /\ f - 1 = e /\ e + 1 = f
    <3>1. d + 2 <= N /\ \A k \in 1 .. 2 : line[d + k] = Piece(c)[k]
      BY <2>1 DEF Stands
    <3>2. Piece(c)[2] = c /\ 2 \in 1 .. 2
      BY <2>1
    <3>3. line[f] = c
      BY <3>1, <3>2
    <3> QED BY <1>1, <3>1, <3>3
  <2>3. line[e] = BACKSLASH
    BY <1>3, <2>1
  <2>4. s[e] = [done |-> D, field |-> Append(G, c), skip |-> TRUE]
    <3> HIDE DEF e, f
    <3>1. line[e + 1] = c
      BY <2>2
    <3> QED BY <1>4, <1>6, <2>2, <2>3, <3>1 DEF Taken, At
  <2>5. s[f] = Taken(s[e], line, f)
    <3>1. \A i \in 1 .. N : s[i] = Taken(s[i - 1], line, i)
      BY DEF Splits
    <3> HIDE DEF e, f
    <3> QED BY <2>2, <3>1
  <2>6. s[f] = At(D, Append(G, c))
    <3> DEFINE field == Append(G, c)
               skipping == [done |-> D, field |-> field, skip |-> TRUE]
    <3>1. s[f] = Taken(skipping, line, f)
      BY <2>4, <2>5
    <3> HIDE DEF e, f, field
    <3>2. Taken(skipping, line, f) = [skipping EXCEPT !.skip = FALSE]
      BY DEF Taken
    <3>3. [skipping EXCEPT !.skip = FALSE] = At(D, field)
      <4>1. ASSUME NEW x, NEW y
            PROVE  [[done |-> D, field |-> field, skip |-> x] EXCEPT !.skip = y]
                        = [done |-> D, field |-> field, skip |-> y]
        OBVIOUS
      <4> QED BY <4>1, Zenon DEF At
    <3>4. s[f] = At(D, field)
      BY ONLY <3>1, <3>2, <3>3
    <3> QED BY <3>4 DEF field
  <2> QED BY <2>1, <2>6 DEF Stood
<1> QED BY <1>5, <1>6

\* A text, escaped, is read as that text.
LEMMA FieldIsRead ==
    ASSUME NEW C, Special \subseteq C, NEW line \in Seq(C), NEW s, Splits(s, line, C),
           NEW d \in Nat, NEW text \in Seq(C), Stands(line, d, Escaped(text)),
           NEW D \in Seq(Seq(C)), Stood(s, d, D, <<>>)
    PROVE  Stood(s, d + Len(Escaped(text)), D, text)
<1> DEFINE N == Len(text)
           Upto(i) == [k \in 1 .. i |-> text[k]]
<1>1. PICK e : Escapes(e, text, C) /\ Escaped(text) = e[N]
  BY EscapedIsBuilt
<1>2. N \in Nat /\ N \in 0 .. N /\ text = Upto(N)
  <2>1. N \in Nat /\ text = [k \in 1 .. N |-> text[k]]
    OBVIOUS
  <2> QED BY <2>1
<1>3. \A k \in 1 .. N : text[k] \in C
  BY ElementOfSeq
<1>4. /\ e \in [0 .. N -> Seq(C)] /\ e[0] = <<>>
      /\ \A i \in 1 .. N : e[i] = e[i - 1] \o Piece(text[i])
  BY <1>1 DEF Escapes
<1> DEFINE Read(i) == Stands(line, d, e[i]) => Stood(s, d + Len(e[i]), D, Upto(i))
           S == {i \in 0 .. N : Read(i)}
<1>5. 0 \in S
  <2>1. Upto(0) = <<>> /\ Len(e[0]) = 0 /\ d + 0 = d /\ 0 \in 0 .. N
    BY <1>2, <1>4
  <2> HIDE DEF Upto
  <2> QED BY <1>4, <2>1
<1>6. ASSUME NEW i \in 0 .. N, i # N, i \in S PROVE i + 1 \in S
  <2> DEFINE m == i + 1
             c == text[m]
             p == Piece(c)
  <2>1. m \in 1 .. N /\ m \in 0 .. N /\ m - 1 = i /\ i \in Nat
    BY <1>2, <1>6
  <2>2. c \in C /\ e[i] \in Seq(C)
    BY <1>3, <1>4, <2>1
  <2>3. p \in Seq(C)
    BY <2>2 DEF Piece, Special
  <2>4. e[m] = e[i] \o p
    <3> HIDE DEF m
    <3> QED BY <1>4, <2>1
  <2>5. SUFFICES ASSUME Stands(line, d, e[m])
                 PROVE  Stood(s, d + Len(e[m]), D, Upto(m))
    BY <2>1
  <2>6. Stands(line, d, e[i]) /\ Stands(line, d + Len(e[i]), p)
    <3> HIDE DEF m, p, c
    <3> QED BY <2>2, <2>3, <2>4, <2>5, PartsStand
  <2>7. Stood(s, d + Len(e[i]), D, Upto(i))
    BY <1>6, <2>6
  <2>8. Upto(i) \in Seq(C)
    <3>1. \A k \in 1 .. i : text[k] \in C
      BY <1>2, <1>3, <2>1
    <3> QED BY <2>1, <3>1
  <2>9. Upto(m) = Append(Upto(i), c)
    BY <2>1, <1>2
  <2>10. d + Len(e[i]) \in Nat
    BY <2>2
  <2>11. Stood(s, d + Len(e[i]) + Len(p), D, Append(Upto(i), c))
    <3> DEFINE dd == d + Len(e[i])
               field == Upto(i)
    <3>1. Stands(line, dd, Piece(c)) /\ Stood(s, dd, D, field) /\ dd \in Nat /\ field \in Seq(C)
      BY <2>6, <2>7, <2>8, <2>10
    <3> HIDE DEF dd, field, c
    <3>2. Stood(s, dd + Len(Piece(c)), D, Append(field, c))
      BY <2>2, <3>1, PieceIsRead
    <3> QED BY <3>2 DEF dd, field
  <2>12. d + Len(e[m]) = d + Len(e[i]) + Len(p)
    <3> DEFINE le == Len(e[i])
               lp == Len(p)
    <3>1. Len(e[m]) = le + lp
      <4> HIDE DEF m, p, c
      <4> QED BY <2>2, <2>3, <2>4, ConcatProperties
    <3>2. le \in Nat /\ lp \in Nat
      BY <2>2, <2>3
    <3> HIDE DEF le, lp
    <3>3. d + (le + lp) = d + le + lp
      BY <3>2
    <3>4. d + Len(e[m]) = d + le + lp
      BY <3>1, <3>3
    <3> QED BY <3>4 DEF le, lp
  <2> QED BY <2>9, <2>11, <2>12
<1>7. \A i \in 0 .. N : i \in S
  <2> HIDE DEF S
  <2> QED BY <1>2, <1>5, <1>6, BoundedInduction
<1>8. Read(N)
  BY <1>2, <1>7
<1> QED BY <1>1, <1>2, <1>8

\* A line of fields is read as those fields.
LEMMA LineIsRead ==
    ASSUME NEW C, Special \subseteq C, NEW fields \in Seq(Seq(C)), fields # <<>>
    PROVE  Split(Line(fields)) = fields
<1> DEFINE N == Len(fields)
           line == Line(fields)
           Upto(i) == [k \in 1 .. i |-> fields[k]]
<1>1. PICK l : Lines(l, fields, C) /\ line = l[N]
  BY LineIsBuilt
<1>2. /\ l \in [0 .. N -> Seq(C)] /\ l[0] = <<>>
      /\ \A i \in 1 .. N : l[i] = l[i - 1] \o Between(i) \o Escaped(fields[i])
  BY <1>1 DEF Lines
<1>3. N \in Nat /\ N # 0 /\ N \in 0 .. N /\ fields = Upto(N)
  <2>1. N \in Nat /\ fields = [k \in 1 .. N |-> fields[k]]
    OBVIOUS
  <2> QED BY <2>1
<1>4. line \in Seq(C)
  BY <1>1, <1>2, <1>3
<1> HIDE DEF line
<1>5. PICK s : Splits(s, line, C) /\ Split(line) = Append(s[Len(line)].done, s[Len(line)].field)
  BY <1>4, SplitIsBuilt
<1>6. \A k \in 1 .. N : fields[k] \in Seq(C)
  BY ElementOfSeq
<1>7. s[0] = At(<<>>, <<>>) /\ \A i \in 1 .. Len(line) : s[i] = Taken(s[i - 1], line, i)
  BY <1>5 DEF Splits, Start, At
<1> DEFINE Read(i) == i # 0 /\ Stands(line, 0, l[i]) => Stood(s, Len(l[i]), Upto(i - 1), fields[i])
           S == {i \in 0 .. N : Read(i)}
<1>8. 0 \in S
  BY <1>3
<1>9. ASSUME NEW i \in 0 .. N, i # N, i \in S PROVE i + 1 \in S
  <2> DEFINE m == i + 1
             text == fields[m]
             p == Escaped(text)
             before == l[i] \o Between(m)
             D == Upto(i)
  <2>1. m \in 1 .. N /\ m \in 0 .. N /\ m - 1 = i /\ i \in Nat
    BY <1>3, <1>9
  <2>2. text \in Seq(C) /\ l[i] \in Seq(C)
    BY <1>2, <1>6, <2>1
  <2>3. p \in Seq(C)
    BY <2>2, EscapedType
  <2>4. before \in Seq(C) /\ Between(m) \in Seq(C)
    <3>1. Between(m) \in Seq(C)
      BY DEF Between, Special
    <3> QED BY <2>2, <3>1, ConcatProperties
  <2>5. l[m] = before \o p
    <3> HIDE DEF m
    <3> QED BY <1>2, <2>1
  <2>6. SUFFICES ASSUME Stands(line, 0, l[m])
                 PROVE  Stood(s, Len(l[m]), D, text)
    BY <2>1
  <2>7. Stands(line, 0, before) /\ Stands(line, Len(before), p)
    <3>1. Stands(line, 0, before) /\ Stands(line, 0 + Len(before), p)
      <4>1. 0 \in Nat
        OBVIOUS
      <4> HIDE DEF m, p, before
      <4> QED BY <1>4, <2>3, <2>4, <2>5, <2>6, <4>1, PartsStand
    <3>2. 0 + Len(before) = Len(before)
      BY <2>4
    <3> QED BY <3>1, <3>2
  <2>8. D \in Seq(Seq(C))
    <3>1. \A k \in 1 .. i : fields[k] \in Seq(C)
      BY <1>3, <1>6, <2>1
    <3> QED BY <2>1, <3>1
  <2>9. Stood(s, Len(before), D, <<>>)
    <3>1. CASE i = 0
      <4>1. before = <<>> /\ D = <<>>
        BY <1>2, <3>1 DEF Between
      <4> HIDE DEF before, D
      <4>2. Len(before) = 0
        BY <4>1
      <4> QED BY <1>7, <4>1, <4>2 DEF Stood
    <3>2. CASE i # 0
      <4> DEFINE j == i - 1
                 n == Len(l[i])
                 F == fields[i]
      <4>1. Between(m) = <<COLON>> /\ i \in 1 .. N
        BY <2>1, <3>2 DEF Between
      <4>2. Stands(line, 0, l[i]) /\ Stands(line, 0 + n, <<COLON>>)
        <5>1. 0 \in Nat /\ <<COLON>> \in Seq(C) /\ before = l[i] \o <<COLON>>
          BY <2>4, <4>1
        <5> HIDE DEF before, m
        <5> QED BY <1>4, <2>2, <2>7, <5>1, PartsStand
      <4>3. Stood(s, n, Upto(j), F)
        BY <1>9, <3>2, <4>2
      <4>4. n \in Nat /\ Len(before) = n + 1
        <5>1. l[i] \in Seq(C) /\ <<COLON>> \in Seq(C) /\ Len(<<COLON>>) = 1
          BY <2>2, <2>4, <4>1
        <5>2. before = l[i] \o <<COLON>>
          BY <4>1
        <5> HIDE DEF before
        <5> QED BY <5>1, <5>2, ConcatProperties
      <4> DEFINE e == n + 1
      <4>5. e \in 1 .. Len(line) /\ e - 1 = n /\ line[e] = COLON
        <5>1. 0 + n + 1 <= Len(line) /\ line[0 + n + 1] = COLON
          BY <4>2 DEF Stands
        <5> QED BY <1>4, <4>4, <5>1
      <4>6. s[e] = Taken(At(Upto(j), F), line, e)
        <5> HIDE DEF e
        <5> QED BY <1>7, <4>3, <4>5 DEF Stood
      <4>7. Taken(At(Upto(j), F), line, e) = At(Append(Upto(j), F), <<>>)
        <5> HIDE DEF e
        <5> QED BY <4>5, AirsAssumption DEF Taken, At
      <4>8. Append(Upto(j), F) = D
        BY <1>3, <2>1, <3>2
      <4> QED BY <4>4, <4>6, <4>7, <4>8 DEF Stood
    <3> QED BY <3>1, <3>2
  <2>10. Stood(s, Len(before) + Len(p), D, text)
    <3>1. Len(before) \in Nat
      <4> HIDE DEF before
      <4> QED BY <2>4
    <3> DEFINE d == Len(before)
    <3> HIDE DEF before, D, text, d, m
    <3>2. d \in Nat /\ Stands(line, d, Escaped(text)) /\ Stood(s, d, D, <<>>)
      BY <2>7, <2>9, <3>1 DEF d
    <3>3. Stood(s, d + Len(Escaped(text)), D, text)
      BY <1>4, <1>5, <2>2, <2>8, <3>2, FieldIsRead
    <3> QED BY <3>3 DEF d
  <2>11. Len(l[m]) = Len(before) + Len(p)
    <3> HIDE DEF m, p, before
    <3> QED BY <2>3, <2>4, <2>5, ConcatProperties
  <2> QED BY <2>10, <2>11
<1>10. \A i \in 0 .. N : i \in S
  <2> HIDE DEF S
  <2> QED BY <1>3, <1>8, <1>9, BoundedInduction
<1>11. Stands(line, 0, line)
  BY <1>4 DEF Stands
<1>12. Stood(s, Len(line), Upto(N - 1), fields[N])
  <2>1. Read(N)
    BY <1>3, <1>10
  <2> QED BY <1>1, <1>3, <1>11, <2>1
<1>13. Split(line) = Append(Upto(N - 1), fields[N])
  BY <1>5, <1>12 DEF Stood, At
<1>14. Append(Upto(N - 1), fields[N]) = Upto(N)
  BY <1>3
<1> QED BY <1>3, <1>13, <1>14 DEF line

\* How many are listed, and which.
Count(reach, n) == IF Len(reach) < n THEN Len(reach) ELSE n
Firsts(reach, n) == [i \in 1 .. Count(reach, n) |-> reach[i]]

\* What nmcli has to say is read as it was said: the first networks in reach,
\* with their names and their securities.
LEMMA NetworksAreRead ==
    ASSUME NEW reach \in Airs
    PROVE  Scanned(reach) = Firsts(reach, MaxNetworks)
<1> DEFINE C == CharactersOf(reach) \cup Special \cup {"9"}
           N == Len(reach)
           fields(i) == Split(Line(<<reach[i].ssid, <<"9">>, reach[i].security>>))
           Longer(i, list) ==
              IF Len(fields(i)) >= 3 /\ Len(list) < MaxNetworks
              THEN Append(list, [ssid |-> fields(i)[1], security |-> fields(i)[3]])
              ELSE list
           Step(f) == [i \in 0 .. N |-> IF i = 0 THEN <<>> ELSE Longer(i, f[i - 1])]
           listed == CHOOSE f : f = Step(f)
           Whole(i) == [k \in 1 .. (IF i < MaxNetworks THEN i ELSE MaxNetworks) |-> reach[k]]
<1>1. /\ reach \in Seq(NetworksOf(CharactersOf(reach))) /\ N \in Nat
      /\ MaxNetworks \in Nat /\ Special \subseteq C
  BY AirsAssumption
<1>2. \A i \in 1 .. N : /\ reach[i].ssid \in Seq(C) /\ reach[i].security \in Seq(C)
                        /\ reach[i] = [ssid |-> reach[i].ssid, security |-> reach[i].security]
  <2> SUFFICES ASSUME NEW i \in 1 .. N
               PROVE  /\ reach[i].ssid \in Seq(C) /\ reach[i].security \in Seq(C)
                      /\ reach[i] = [ssid |-> reach[i].ssid, security |-> reach[i].security]
    OBVIOUS
  <2>1. reach[i] \in NetworksOf(CharactersOf(reach))
    BY <1>1, ElementOfSeq
  <2>2. \A s \in Seq(CharactersOf(reach)) : s \in Seq(C)
    OBVIOUS
  <2> QED BY <2>1, <2>2 DEF NetworksOf
<1> HIDE DEF C
<1>3. ASSUME NEW i \in 1 .. N
      PROVE  fields(i) = <<reach[i].ssid, <<"9">>, reach[i].security>>
  <2> DEFINE name == reach[i].ssid
             strength == <<"9">>
             security == reach[i].security
             said == <<name, strength, security>>
  <2>1. name \in Seq(C) /\ strength \in Seq(C) /\ security \in Seq(C)
    <3>1. "9" \in C
      BY DEF C
    <3>2. strength \in Seq(C)
      BY <3>1
    <3>3. name \in Seq(C) /\ security \in Seq(C)
      BY <1>2
    <3> QED BY <3>2, <3>3
  <2>2. said \in Seq(Seq(C)) /\ said # <<>>
    <3> HIDE DEF name, strength, security
    <3> QED BY <2>1
  <2> HIDE DEF said
  <2>3. Split(Line(said)) = said
    BY <1>1, <2>2, LineIsRead
  <2> QED BY <2>3 DEF said
<1>4. ASSUME NEW i \in 1 .. N, NEW list
      PROVE  Longer(i, list) = IF Len(list) < MaxNetworks THEN Append(list, reach[i]) ELSE list
  <2> DEFINE f == fields(i)
  <2>1. Len(f) >= 3 /\ f[1] = reach[i].ssid /\ f[3] = reach[i].security
    BY <1>3
  <2>2. [ssid |-> f[1], security |-> f[3]] = reach[i]
    BY <1>2, <2>1
  <2> HIDE DEF f
  <2> QED BY <2>1, <2>2 DEF f
<1>5. Scanned(reach) = listed[N]
  BY DEF Scanned
<1> HIDE DEF fields, Longer
<1>6. Whole(0) = <<>> /\ \A i \in 0 .. N : i # N => Whole(i + 1) = Longer(i + 1, Whole(i))
  <2>1. Whole(0) = <<>>
    BY <1>1
  <2>2. ASSUME NEW i \in 0 .. N, i # N PROVE Whole(i + 1) = Longer(i + 1, Whole(i))
    <3> DEFINE m == i + 1
               w == Whole(i)
               n == IF i < MaxNetworks THEN i ELSE MaxNetworks
    <3>1. m \in 1 .. N /\ i \in Nat /\ m \in Nat /\ m > i
      BY <1>1, <2>2
    <3>2. Longer(m, w) = IF Len(w) < MaxNetworks THEN Append(w, reach[m]) ELSE w
      <4> HIDE DEF m, w
      <4> QED BY <1>4, <3>1
    <3>3. Len(w) = n
      BY <1>1, <3>1
    <3>4. CASE i < MaxNetworks
      <4>1. m <= MaxNetworks /\ n = i /\ ~(MaxNetworks < m)
        BY <1>1, <3>1, <3>4
      <4>2. Append(w, reach[m]) = [k \in 1 .. m |-> reach[k]]
        BY <1>1, <3>1, <3>4
      <4>3. Whole(m) = [k \in 1 .. m |-> reach[k]]
        <5>1. (IF m < MaxNetworks THEN m ELSE MaxNetworks) = m
          BY <1>1, <3>1, <4>1
        <5> HIDE DEF m
        <5> QED BY <5>1
      <4> QED BY <3>2, <3>3, <3>4, <4>1, <4>2, <4>3
    <3>5. CASE ~(i < MaxNetworks)
      <4>1. (IF m < MaxNetworks THEN m ELSE MaxNetworks) = MaxNetworks /\ n = MaxNetworks
        BY <1>1, <3>1, <3>5
      <4>2. Whole(m) = w
        <5> HIDE DEF m
        <5> QED BY <3>5, <4>1
      <4>3. ~(Len(w) < MaxNetworks)
        BY <1>1, <3>3, <4>1
      <4> QED BY <3>2, <4>2, <4>3
    <3> QED BY <3>4, <3>5
  <2> QED BY <2>1, <2>2
<1> HIDE DEF Whole
<1>7. listed = Step(listed)
  <2> DEFINE e == [i \in 0 .. N |-> Whole(i)]
  <2>1. ASSUME NEW i \in 0 .. N PROVE e[i] = IF i = 0 THEN <<>> ELSE Longer(i, e[i - 1])
    <3>1. CASE i = 0
      BY <1>6, <3>1
    <3>2. CASE i # 0
      <4> DEFINE j == i - 1
      <4>1. j \in 0 .. N /\ j # N /\ j + 1 = i
        BY <1>1, <3>2
      <4>2. e[i] = Whole(i) /\ e[j] = Whole(j)
        BY <4>1
      <4> HIDE DEF j, e
      <4>3. e[i] = Longer(i, e[j])
        BY <1>6, <4>1, <4>2
      <4> QED BY <3>2, <4>3 DEF j
    <3> QED BY <3>1, <3>2
  <2>2. e = Step(e)
    <3>1. e = [i \in 0 .. N |-> e[i]]
      OBVIOUS
    <3> HIDE DEF e
    <3> QED BY <2>1, <3>1
  <2> HIDE DEF Step
  <2> QED BY <2>2
<1> HIDE DEF listed
<1> DEFINE S == {i \in 0 .. N : listed[i] = Whole(i)}
<1>8. 0 \in S
  <2>1. 0 \in 0 .. N
    BY <1>1
  <2>2. listed[0] = <<>>
    BY <1>7, <2>1
  <2> QED BY <1>6, <2>1, <2>2
<1>9. ASSUME NEW i \in 0 .. N, i # N, i \in S PROVE i + 1 \in S
  <2> DEFINE m == i + 1
  <2>1. m \in 0 .. N /\ m # 0 /\ m - 1 = i
    BY <1>1, <1>9
  <2>2. Whole(m) = Longer(m, Whole(i)) /\ listed[i] = Whole(i)
    BY <1>6, <1>9
  <2> HIDE DEF m
  <2>3. listed[m] = Longer(m, listed[i])
    BY <1>7, <2>1
  <2>4. m \in S
    BY <2>1, <2>2, <2>3
  <2> QED BY <2>4 DEF m
<1>10. \A i \in 0 .. N : i \in S
  <2> HIDE DEF S
  <2> QED BY <1>1, <1>8, <1>9, BoundedInduction
<1>11. N \in 0 .. N
  BY <1>1
<1>12. listed[N] = Whole(N)
  BY <1>10, <1>11
<1>13. Whole(N) = Firsts(reach, MaxNetworks)
  BY DEF Whole, Firsts, Count
<1> QED BY <1>5, <1>12, <1>13

\* The name of the network that the radio is on is read as it was said.
LEMMA CurrentIsRead ==
    ASSUME NEW reach \in Airs, NEW on \in {reach[i].ssid : i \in DOMAIN reach} \cup {NONE}
    PROVE  Connected(on) \in {<<>>, on}
<1> DEFINE C == CharactersOf(reach) \cup Special \cup {"yes"}
<1>1. CASE on = NONE
  BY <1>1 DEF Connected
<1>2. CASE on # NONE
  <2>1. PICK i \in DOMAIN reach : on = reach[i].ssid
    BY <1>2
  <2>2. reach \in Seq(NetworksOf(CharactersOf(reach)))
    BY AirsAssumption
  <2>3. on \in Seq(CharactersOf(reach))
    <3>1. reach[i] \in NetworksOf(CharactersOf(reach))
      BY <2>2, ElementOfSeq
    <3> QED BY <2>1, <3>1 DEF NetworksOf
  <2> DEFINE yes == <<"yes">>
             said == <<yes, on>>
  <2>4. on \in Seq(C) /\ yes \in Seq(C) /\ Special \subseteq C
    BY <2>3
  <2>5. said \in Seq(Seq(C)) /\ said # <<>>
    <3> HIDE DEF yes, C
    <3> QED BY <2>4
  <2>6. Split(Line(said)) = said
    <3> HIDE DEF said, C
    <3> QED BY <2>4, <2>5, LineIsRead
  <2> QED BY <1>2, <2>6 DEF Connected
<1> QED BY <1>1, <1>2

-----------------------------------------------------------------------------
(* The Wi-Fi screen.                                                        *)

\* While a network can still be chosen none was tried, and the row chosen is
\* that of a network in reach; afterwards one was, and the phase shows it.
WifiOK ==
    /\ open = "wifi" /\ wifi \in {"list", "password"} =>
          /\ attempts = <<>>
          /\ wifiRow \in DOMAIN networks /\ wifiRow \in DOMAIN air
          /\ \A row \in DOMAIN networks : row \in DOMAIN air /\ networks[row] = air[row]
    /\ open = "wifi" /\ wifi = "password" => air[wifiRow].security # OpenSecurity
    /\ \/ attempts = <<>>
       \/ \E prompted \in BOOLEAN :
             /\ attempts = <<[ssid |-> air[wifiRow].ssid, prompted |-> prompted]>>
             /\ wifiRow \in DOMAIN air
             /\ prompted <=> air[wifiRow].security # OpenSecurity
    /\ current \in {<<>>} \cup {air[i].ssid : i \in DOMAIN air}

\* A step of another app opens no Wi-Fi screen.
LEMMA WifiFrame ==
    ASSUME WifiOK, UNCHANGED wifiVars, open' = "wifi" => open = "wifi"
    PROVE  WifiOK'
  BY DEF WifiOK, wifiVars

\* The networks listed are the first of those in reach.
LEMMA FirstsAreInReach ==
    ASSUME NEW reach \in Airs
    PROVE  /\ \A i \in DOMAIN Firsts(reach, MaxNetworks) :
                 i \in DOMAIN reach /\ Firsts(reach, MaxNetworks)[i] = reach[i]
           /\ Firsts(reach, MaxNetworks) # <<>> => 1 \in DOMAIN Firsts(reach, MaxNetworks)
<1> DEFINE n == Count(reach, MaxNetworks)
<1>1. reach \in Seq(NetworksOf(CharactersOf(reach))) /\ MaxNetworks \in Nat
  BY AirsAssumption
<1>2. n \in 0 .. Len(reach) /\ DOMAIN reach = 1 .. Len(reach) /\ Len(reach) \in Nat
  BY <1>1 DEF Count
<1>3. Firsts(reach, MaxNetworks) = [i \in 1 .. n |-> reach[i]]
  BY DEF Firsts
<1> HIDE DEF n
<1>4. n = 0 => [i \in 1 .. n |-> reach[i]] = <<>>
  OBVIOUS
<1> QED BY <1>2, <1>3, <1>4

\* The Wi-Fi screen's steps keep the list it shows a list of what was found.
LEMMA WifiStep == ASSUME WifiOK, WifiNext PROVE WifiOK'
<1> USE DEF WifiOK
<1>1. ASSUME NEW reach \in Airs, NEW on \in {reach[i].ssid : i \in DOMAIN reach} \cup {NONE},
             NEW answers \in BOOLEAN, OpenWifi(reach, on, answers)
      PROVE  WifiOK'
  <2>1. /\ air' = reach /\ wifiRow' = 1 /\ attempts' = <<>>
        /\ networks' \in {<<>>, Firsts(reach, MaxNetworks)}
        /\ wifi' = IF networks' = <<>> THEN "no_networks" ELSE "list"
        /\ current' = Connected(on)
    BY <1>1, NetworksAreRead DEF OpenWifi
  <2>2. Connected(on) \in {<<>>} \cup {reach[i].ssid : i \in DOMAIN reach}
    <3>1. CASE on = NONE
      BY <3>1 DEF Connected
    <3>2. CASE on # NONE
      BY <3>2, CurrentIsRead
    <3> QED BY <3>1, <3>2
  <2>3. wifi' = "list" => networks' = Firsts(reach, MaxNetworks) /\ networks' # <<>>
    BY <2>1
  <2>4. wifi' # "password"
    BY <2>1
  <2>5. wifi' = "list" =>
          /\ wifiRow' \in DOMAIN networks' /\ wifiRow' \in DOMAIN air'
          /\ \A row \in DOMAIN networks' : row \in DOMAIN air' /\ networks'[row] = air'[row]
    BY <2>1, <2>3, FirstsAreInReach
  <2> QED BY <2>1, <2>2, <2>4, <2>5
<1>2. ASSUME NEW to, MoveRow(to)
      PROVE  WifiOK'
  BY <1>2 DEF MoveRow, OnTop
<1>3. ASSUME NEW prompted \in BOOLEAN, Connects(prompted), UNCHANGED <<air, networks, current, wifiRow>>,
             open = "wifi", wifi \in {"list", "password"},
             prompted <=> air[wifiRow].security # OpenSecurity
      PROVE  WifiOK'
  <2> DEFINE attempt == [ssid |-> air[wifiRow].ssid, prompted |-> prompted]
  <2>1. attempts' = Append(<<>>, attempt) /\ wifi' = "result"
    BY <1>3 DEF Connects
  <2>2. attempts' = <<attempt>>
    BY <2>1
  <2> QED BY <1>3, <2>1, <2>2
<1>4. CASE ChooseNetwork
  <2>1. open = "wifi" /\ wifi = "list" /\ networks[wifiRow] = air[wifiRow]
    BY <1>4 DEF ChooseNetwork, OnTop
  <2>2. CASE networks[wifiRow].security = OpenSecurity
    BY <1>3, <1>4, <2>1, <2>2 DEF ChooseNetwork
  <2>3. CASE networks[wifiRow].security # OpenSecurity
    BY <1>4, <2>1, <2>3 DEF ChooseNetwork
  <2> QED BY <2>2, <2>3
<1>5. CASE EnterPassword
  BY <1>3, <1>5 DEF EnterPassword, OnTop
<1>6. CASE LeaveWifi
  <2>1. open' # "wifi" /\ UNCHANGED wifiVars
    BY <1>6, NoneAssumption DEF LeaveWifi, Apps
  <2> QED BY <2>1, WifiFrame
<1> QED BY <1>1, <1>2, <1>4, <1>5, <1>6 DEF WifiNext

\* So do the steps of every other app.
LEMMA WifiKept == ASSUME WifiOK, [Next]_vars PROVE WifiOK'
<1> USE NoneAssumption DEF Apps, SigningApps, MovesOnly
<1>1. CASE UNCHANGED vars
  BY <1>1, WifiFrame DEF vars, toolVars
<1>2. CASE Explorer
  BY <1>2, ExplorerMoves, WifiFrame DEF Explorer, toolVars
<1>3. CASE Messenger
  BY <1>3, MessengerMoves, WifiFrame DEF Messenger, toolVars
<1>4. CASE Beacon
  BY <1>4, BeaconMoves, WifiFrame DEF Beacon, toolVars
<1>5. CASE Tool
  <2>1. CASE GalleryNext /\ UNCHANGED <<discoverVars, snakeVars, wifiVars>>
    BY <2>1, ToolsMove, WifiFrame
  <2>2. CASE DiscoverNext /\ UNCHANGED <<galleryVars, snakeVars, wifiVars>>
    BY <2>2, ToolsMove, WifiFrame
  <2>3. CASE SnakeNext /\ UNCHANGED <<galleryVars, discoverVars, wifiVars>>
    BY <2>3, ToolsMove, WifiFrame
  <2>4. CASE WifiNext
    BY <2>4, WifiStep
  <2> QED BY <1>5, <2>1, <2>2, <2>3, <2>4 DEF Tool
<1> QED BY <1>1, <1>2, <1>3, <1>4, <1>5 DEF Next

\* The device connects to the network chosen, by its real name, once a visit,
\* and with a password unless that network is open, whatever colons and
\* backslashes the names hold: the parsers of settings.c and tezos_wifi.c give
\* back what nmcli had to say.
THEOREM ChosenNetworkIsConnected == Spec => []ConnectsToChosen
<1>1. Init => WifiOK
  BY NoneAssumption DEF Init, WifiInit, PopupInit, Apps, WifiOK
<1>2. WifiOK /\ [Next]_vars => WifiOK'
  BY WifiKept
<1>3. WifiOK => ConnectsToChosen
  <2> SUFFICES ASSUME WifiOK
               PROVE  ConnectsToChosen
    OBVIOUS
  <2>1. CASE attempts = <<>>
    BY <2>1 DEF WifiOK, ConnectsToChosen, Range
  <2>2. CASE attempts # <<>>
    <3>1. PICK prompted \in BOOLEAN :
             /\ attempts = <<[ssid |-> air[wifiRow].ssid, prompted |-> prompted]>>
             /\ wifiRow \in DOMAIN air
             /\ prompted <=> air[wifiRow].security # OpenSecurity
      BY <2>2 DEF WifiOK
    <3>2. /\ Len(attempts) = 1
          /\ Range(attempts) = {[ssid |-> air[wifiRow].ssid, prompted |-> prompted]}
      BY <3>1 DEF Range
    <3> QED BY <3>1, <3>2 DEF WifiOK, ConnectsToChosen
  <2> QED BY <2>1, <2>2
<1> QED BY <1>1, <1>2, <1>3, PTL DEF Spec

-----------------------------------------------------------------------------
(* The walk of an entrypoint's type, and the value that is built of what    *)
(* was submitted on it.                                                     *)

Builds == [Nodes -> [Progress -> Progress]]

\* The nodes are numbered, and the arguments of one come after it.
LEMMA PoolOK ==
    /\ Len(Pool) \in Nat /\ Nodes = 1 .. Len(Pool)
    /\ \A n \in Nodes :
          /\ Kind(n) \in LeafKinds \cup Branches
          /\ Kind(n) \in {"pair", "option", "or", "list"} => Arg(n, 1) \in n + 1 .. Len(Pool)
          /\ Kind(n) = "pair" => Arg(n, 2) \in n + 1 .. Len(Pool)
<1>1. Pool \in Seq([kind : LeafKinds \cup Branches, args : Seq(Nat)])
  BY ExplorerAssumption
<1>2. Len(Pool) \in Nat /\ Nodes = 1 .. Len(Pool)
  BY <1>1 DEF Nodes
<1>3. ASSUME NEW n \in Nodes
      PROVE  /\ Kind(n) \in LeafKinds \cup Branches
             /\ Kind(n) \in {"pair", "option", "or", "list"} => Arg(n, 1) \in n + 1 .. Len(Pool)
             /\ Kind(n) = "pair" => Arg(n, 2) \in n + 1 .. Len(Pool)
  <2>1. Pool[n] \in [kind : LeafKinds \cup Branches, args : Seq(Nat)]
    BY <1>1, <1>2, ElementOfSeq
  <2>2. /\ \A i \in DOMAIN Pool[n].args : Arg(n, i) \in n + 1 .. Len(Pool)
        /\ Len(Pool[n].args) = (CASE Kind(n) \in {"pair", "or"} -> 2
                                 [] Kind(n) \in {"option", "list"} -> 1
                                 [] OTHER -> 0)
    BY ExplorerAssumption
  <2>3. Pool[n].args \in Seq(Nat)
    BY <2>1
  <2>4. Kind(n) \in {"pair", "option", "or", "list"} => Len(Pool[n].args) \in {1, 2}
    BY <2>2
  <2>5. Kind(n) = "pair" => Len(Pool[n].args) = 2
    BY <2>2
  <2>6. Kind(n) \in LeafKinds \cup Branches
    BY <2>1 DEF Kind
  <2>7. DOMAIN Pool[n].args = 1 .. Len(Pool[n].args)
    BY <2>3
  <2> QED BY <2>2, <2>4, <2>5, <2>6, <2>7
<1> QED BY <1>2, <1>3

\* A node is of S as soon as all the nodes after it are.
Descends(S) == \A n \in Nodes : n + 1 .. Len(Pool) \subseteq S => n \in S

\* Induction from the last node to the first.
LEMMA NodeInduction == ASSUME NEW S, Descends(S) PROVE Nodes \subseteq S
<1> DEFINE D == {k \in Nat : k <= Len(Pool) => Len(Pool) + 1 - k .. Len(Pool) \subseteq S}
<1>1. Len(Pool) \in Nat /\ Nodes = 1 .. Len(Pool)
  BY PoolOK
<1>2. D \in SUBSET Nat /\ 0 \in D
  BY <1>1
<1>3. ASSUME NEW k \in D PROVE k + 1 \in D
  <2>1. CASE k + 1 <= Len(Pool)
    <3> DEFINE n == Len(Pool) - k
    <3>1. n \in Nodes /\ n + 1 = Len(Pool) + 1 - k /\ Len(Pool) + 1 - (k + 1) = n /\ k \in Nat /\ n \in Nat
      BY <1>1, <1>3, <2>1
    <3>2. n + 1 .. Len(Pool) \subseteq S
      BY <1>1, <1>3, <2>1, <3>1
    <3>3. n \in S
      BY <3>1, <3>2 DEF Descends
    <3>4. \A i \in n .. Len(Pool) : i = n \/ i \in n + 1 .. Len(Pool)
      BY <1>1, <3>1
    <3>5. n .. Len(Pool) \subseteq S
      BY <3>2, <3>3, <3>4
    <3>6. Len(Pool) + 1 - (k + 1) .. Len(Pool) \subseteq S
      BY <3>1, <3>5
    <3> QED BY <3>1, <3>6
  <2>2. CASE ~(k + 1 <= Len(Pool))
    BY <2>2
  <2> QED BY <2>1, <2>2
<1>4. Len(Pool) \in D
  <2> HIDE DEF D
  <2> QED BY <1>1, <1>2, <1>3, Induction
<1>5. Len(Pool) + 1 - Len(Pool) .. Len(Pool) \subseteq S /\ Len(Pool) + 1 - Len(Pool) = 1
  BY <1>1, <1>4
<1> QED BY <1>1, <1>5

\* What a branch is built of are nodes after it.
LEMMA ArgumentsAfter ==
    ASSUME NEW n \in Nodes, NEW c \in Nat, Kind(n) \notin LeafKinds
    PROVE  Arguments(n, c) \in Seq(n + 1 .. Len(Pool)) /\ Arguments(n, c) \in Seq(Nodes)
<1>1. /\ Len(Pool) \in Nat /\ Nodes = 1 .. Len(Pool) /\ Kind(n) \in Branches
      /\ Kind(n) \in {"pair", "option", "or", "list"} => Arg(n, 1) \in n + 1 .. Len(Pool)
      /\ Kind(n) = "pair" => Arg(n, 2) \in n + 1 .. Len(Pool)
  BY PoolOK
<1>2. n + 1 .. Len(Pool) \subseteq Nodes
  BY <1>1
<1> DEFINE A == n + 1 .. Len(Pool)
<1>3. Arguments(n, c) \in Seq(A)
  <2>1. CASE Kind(n) = "unit"
    BY <2>1 DEF Arguments
  <2>2. CASE Kind(n) = "pair"
    <3> HIDE DEF A
    <3>1. Arg(n, 1) \in A /\ Arg(n, 2) \in A
      BY <1>1, <2>2 DEF A
    <3> QED BY <3>1, <2>2 DEF Arguments
  <2>3. CASE Kind(n) = "list"
    <3>1. Arg(n, 1) \in A /\ Arguments(n, c) = [i \in 1 .. c |-> Arg(n, 1)]
      BY <1>1, <2>3 DEF Arguments
    <3> HIDE DEF A
    <3> QED BY <3>1
  <2>4. CASE Kind(n) \in {"option", "or"}
    <3>1. Arg(n, 1) \in A /\ Arguments(n, c) = <<Arg(n, 1)>>
      BY <1>1, <2>4 DEF Arguments
    <3> HIDE DEF A
    <3> QED BY <3>1
  <2> QED BY <1>1, <2>1, <2>2, <2>3, <2>4 DEF Branches
<1> HIDE DEF A
<1>4. Arguments(n, c) \in Seq(Nodes)
  BY <1>2, <1>3, SeqMonotonic DEF A
<1> QED BY <1>3, <1>4 DEF A

\* The progress a makes from r, by f, over the types s.
Visits(f, s, r, a) ==
    /\ a \in [0 .. Len(s) -> Progress] /\ a[0] = r
    /\ \A i \in 1 .. Len(s) : a[i] = f[s[i]][a[i - 1]]
AgreesOn(f, g, s) == \A i \in 1 .. Len(s) : f[s[i]] = g[s[i]]

\* There is one.
LEMMA VisitExists ==
    ASSUME NEW f \in Builds, NEW s \in Seq(Nodes), NEW r \in Progress
    PROVE  \E a : Visits(f, s, r, a)
<1> DEFINE N == Len(s)
           step == [p \in (1 .. N) \X Progress |-> f[s[p[1]]][p[2]]]
<1>1. N \in Nat /\ \A i \in 1 .. N : s[i] \in Nodes
  OBVIOUS
<1>2. step \in [(1 .. N) \X Progress -> Progress]
  BY <1>1 DEF Builds
<1>3. PICK a : Recurs(a, N, Progress, r, step)
  <2> HIDE DEF step, N
  <2> QED BY <1>1, <1>2, Recursion
<1>4. a \in [0 .. N -> Progress] /\ a[0] = r /\ \A i \in 1 .. N : a[i] = step[<<i, a[i - 1]>>]
  BY <1>3 DEF Recurs
<1>5. ASSUME NEW i \in 1 .. N PROVE a[i] = f[s[i]][a[i - 1]]
  <2>1. i - 1 \in 0 .. N
    OBVIOUS
  <2>2. a[i - 1] \in Progress
    BY <1>4, <2>1
  <2>3. <<i, a[i - 1]>> \in (1 .. N) \X Progress
    BY <2>2
  <2> QED BY <1>4, <2>3
<1> QED BY <1>4, <1>5 DEF Visits

\* InTurn ends where it does, also with a function that agrees with f on s.
LEMMA InTurnVisits ==
    ASSUME NEW f \in Builds, NEW s \in Seq(Nodes), NEW r \in Progress, NEW g, AgreesOn(g, f, s),
           NEW a, Visits(f, s, r, a)
    PROVE  InTurn(g, s, r) = a[Len(s)]
<1> DEFINE N == Len(s)
           Step(b) == [i \in 0 .. N |-> IF i = 0 THEN r ELSE g[s[i]][b[i - 1]]]
           b == CHOOSE b : b = Step(b)
<1>1. InTurn(g, s, r) = b[N]
  BY DEF InTurn
<1>2. N \in Nat /\ a \in [0 .. N -> Progress] /\ a[0] = r /\ \A i \in 1 .. N : a[i] = g[s[i]][a[i - 1]]
  BY DEF Visits, AgreesOn
<1>3. a = Step(a)
  <2>1. ASSUME NEW i \in 0 .. N PROVE a[i] = IF i = 0 THEN r ELSE g[s[i]][a[i - 1]]
    <3>1. i = 0 \/ i \in 1 .. N
      BY <1>2
    <3> QED BY <1>2, <3>1
  <2> QED BY <1>2, <2>1
<1>4. b = Step(b)
  <2> HIDE DEF Step
  <2> QED BY <1>3
<1>5. b[0] = r /\ \A i \in 1 .. N : b[i] = g[s[i]][b[i - 1]]
  <2> HIDE DEF b
  <2>1. \A i \in 0 .. N : b[i] = IF i = 0 THEN r ELSE g[s[i]][b[i - 1]]
    BY <1>4
  <2>2. 0 \in 0 .. N /\ \A i \in 1 .. N : i \in 0 .. N /\ i # 0
    BY <1>2
  <2> QED BY <2>1, <2>2
<1> DEFINE S == {i \in 0 .. N : a[i] = b[i]}
<1> HIDE DEF b
<1>6. 0 \in S
  BY <1>2, <1>5
<1>7. ASSUME NEW i \in 0 .. N, i # N, i \in S PROVE i + 1 \in S
  <2> DEFINE m == i + 1
  <2>1. m \in 1 .. N /\ m \in 0 .. N /\ m - 1 = i
    BY <1>2, <1>7
  <2> HIDE DEF m
  <2>2. a[m] = b[m]
    BY <1>2, <1>5, <1>7, <2>1
  <2> QED BY <2>1, <2>2 DEF m
<1>8. N \in S
  <2> HIDE DEF S
  <2>1. N \in 0 .. N
    BY <1>2
  <2> QED BY <1>2, <1>6, <1>7, <2>1, BoundedInduction
<1> QED BY <1>1, <1>8

\* So the functions that agree on s make the same of it.
LEMMA InTurnAgree ==
    ASSUME NEW f \in Builds, NEW s \in Seq(Nodes), NEW r \in Progress, NEW g, AgreesOn(g, f, s)
    PROVE  InTurn(g, s, r) = InTurn(f, s, r) /\ InTurn(f, s, r) \in Progress
<1>1. PICK a : Visits(f, s, r, a)
  BY VisitExists
<1>2. AgreesOn(f, f, s)
  BY DEF AgreesOn
<1>3. InTurn(g, s, r) = a[Len(s)] /\ InTurn(f, s, r) = a[Len(s)]
  BY <1>1, <1>2, InTurnVisits
<1>4. Len(s) \in 0 .. Len(s) /\ a \in [0 .. Len(s) -> Progress]
  BY <1>1 DEF Visits
<1> QED BY <1>3, <1>4

\* No type at all.
LEMMA InTurnNone == ASSUME NEW f \in Builds, NEW r \in Progress PROVE InTurn(f, <<>>, r) = r
<1>1. Visits(f, <<>>, r, [i \in 0 .. 0 |-> r])
  BY DEF Visits
<1>2. AgreesOn(f, f, <<>>) /\ <<>> \in Seq(Nodes)
  BY DEF AgreesOn
<1>3. InTurn(f, <<>>, r) = [i \in 0 .. 0 |-> r][Len(<<>>)]
  BY <1>1, <1>2, InTurnVisits, Zenon
<1> QED BY <1>3

\* One type.
LEMMA InTurnOne ==
    ASSUME NEW f \in Builds, NEW n \in Nodes, NEW r \in Progress
    PROVE  InTurn(f, <<n>>, r) = f[n][r] /\ f[n][r] \in Progress
<1> DEFINE a == [i \in 0 .. 1 |-> IF i = 0 THEN r ELSE f[n][r]]
           s == <<n>>
<1>1. f[n][r] \in Progress
  BY DEF Builds
<1>2. /\ a \in [0 .. 1 -> Progress] /\ a[0] = r /\ a[1] = f[n][r]
      /\ s \in Seq(Nodes) /\ Len(s) = 1 /\ s[1] = n
  BY <1>1
<1> HIDE DEF a, s
<1>3. \A i \in 1 .. 1 : i = 1 /\ i - 1 = 0
  OBVIOUS
<1>4. Visits(f, s, r, a)
  BY <1>2, <1>3 DEF Visits
<1>5. AgreesOn(f, f, s)
  BY DEF AgreesOn
<1>6. InTurn(f, s, r) = a[Len(s)]
  BY <1>2, <1>4, <1>5, InTurnVisits
<1> QED BY <1>1, <1>2, <1>6 DEF s

\* Two sequences of types, one after the other.
LEMMA InTurnConcat ==
    ASSUME NEW f \in Builds, NEW s \in Seq(Nodes), NEW t \in Seq(Nodes), NEW r \in Progress
    PROVE  InTurn(f, s \o t, r) = InTurn(f, t, InTurn(f, s, r))
<1> DEFINE M == Len(s)
           N == Len(t)
           u == s \o t
           q == InTurn(f, s, r)
<1>1. AgreesOn(f, f, s) /\ AgreesOn(f, f, t) /\ AgreesOn(f, f, u)
  BY DEF AgreesOn
<1>2. q \in Progress
  BY <1>1, InTurnAgree
<1>3. PICK a : Visits(f, s, r, a)
  BY VisitExists
<1>4. PICK b : Visits(f, t, q, b)
  BY <1>2, VisitExists
<1> DEFINE c == [i \in 0 .. M + N |-> IF i <= M THEN a[i] ELSE b[i - M]]
<1>5. /\ M \in Nat /\ N \in Nat /\ u \in Seq(Nodes) /\ Len(u) = M + N
      /\ \A i \in 1 .. M + N : u[i] = IF i <= M THEN s[i] ELSE t[i - M]
  BY ConcatProperties
<1> HIDE DEF u, q
<1>6. /\ a \in [0 .. M -> Progress] /\ a[0] = r /\ \A i \in 1 .. M : a[i] = f[s[i]][a[i - 1]]
      /\ b \in [0 .. N -> Progress] /\ b[0] = q /\ \A i \in 1 .. N : b[i] = f[t[i]][b[i - 1]]
  BY <1>3, <1>4 DEF Visits
<1>7. a[M] = q
  BY <1>1, <1>3, InTurnVisits DEF q
<1>8. c \in [0 .. M + N -> Progress] /\ c[0] = r
  <2> HIDE DEF M, N
  <2>1. ASSUME NEW i \in 0 .. M + N PROVE (IF i <= M THEN a[i] ELSE b[i - M]) \in Progress
    <3>1. CASE i <= M
      BY <1>5, <1>6, <3>1
    <3>2. CASE ~(i <= M)
      <4>1. i - M \in 0 .. N
        BY <1>5, <3>2
      <4> QED BY <1>6, <3>2, <4>1
    <3> QED BY <3>1, <3>2
  <2>2. 0 \in 0 .. M + N /\ 0 <= M
    BY <1>5
  <2> QED BY <1>6, <2>1, <2>2
<1>9. ASSUME NEW i \in 1 .. M + N PROVE c[i] = f[u[i]][c[i - 1]]
  <2> HIDE DEF M, N
  <2>0. i \in 0 .. M + N /\ i - 1 \in 0 .. M + N /\ i \in Nat
    BY <1>5
  <2>1. CASE i <= M
    <3>1. i - 1 <= M /\ i \in 1 .. M
      BY <1>5, <2>1
    <3>2. c[i] = a[i] /\ c[i - 1] = a[i - 1] /\ u[i] = s[i]
      BY <1>5, <2>0, <2>1, <3>1
    <3> QED BY <1>6, <3>1, <3>2
  <2>2. CASE i = M + 1
    <3>1. i - M = 1 /\ i - 1 = M /\ ~(i <= M) /\ 1 \in 1 .. N /\ i - 1 <= M /\ 1 - 1 = 0
      BY <1>5, <2>2
    <3>2. c[i] = b[1] /\ c[i - 1] = a[M] /\ u[i] = t[1]
      BY <1>5, <2>0, <3>1
    <3>3. b[1] = f[t[1]][b[0]]
      BY <1>6, <3>1
    <3> QED BY <1>6, <1>7, <3>2, <3>3
  <2>3. CASE i > M + 1
    <3> DEFINE j == i - M
    <3>1. j \in 1 .. N /\ ~(i <= M) /\ ~(i - 1 <= M) /\ i - 1 - M = j - 1
      BY <1>5, <2>3
    <3>2. c[i] = b[j] /\ c[i - 1] = b[j - 1] /\ u[i] = t[j]
      BY <1>5, <2>0, <3>1
    <3> HIDE DEF j
    <3>3. b[j] = f[t[j]][b[j - 1]]
      BY <1>6, <3>1
    <3> QED BY <3>2, <3>3
  <2> QED BY <1>5, <2>0, <2>1, <2>2, <2>3
<1> HIDE DEF c
<1>10. Visits(f, u, r, c)
  BY <1>5, <1>8, <1>9 DEF Visits
<1>11. InTurn(f, u, r) = c[M + N]
  <2>1. u \in Seq(Nodes) /\ Len(u) = M + N
    BY <1>5
  <2>2. InTurn(f, u, r) = c[Len(u)]
    BY <1>1, <1>10, <2>1, InTurnVisits
  <2> QED BY <2>1, <2>2
<1>12. InTurn(f, t, q) = b[N]
  BY <1>1, <1>2, <1>4, InTurnVisits
<1>13. c[M + N] = b[N]
  <2> HIDE DEF M, N
  <2>1. CASE N = 0
    <3>1. M + N = M /\ M \in 0 .. M + N /\ M <= M
      BY <1>5, <2>1
    <3>2. c[M] = a[M]
      BY <3>1 DEF c
    <3>3. c[M + N] = a[M] /\ b[N] = b[0]
      BY <2>1, <3>1, <3>2
    <3> QED BY <1>6, <1>7, <3>3
  <2>2. CASE N # 0
    <3> DEFINE k == M + N
    <3>1. ~(k <= M) /\ k - M = N /\ k \in 0 .. M + N
      BY <1>5, <2>2
    <3> HIDE DEF k
    <3>2. c[k] = b[k - M]
      BY <3>1 DEF c
    <3> QED BY <3>1, <3>2 DEF k
  <2> QED BY <2>1, <2>2
<1> QED BY <1>11, <1>12, <1>13 DEF u, q

\* What f makes of node n, when it is that of texts and items.
Makes(f, n, texts, items) ==
    f[n] = [r \in Progress |-> ValueNode(f, n, texts, items, r)]

\* A node makes progress of progress, and looks only at the nodes after it.
LEMMA ValueNodeOK ==
    ASSUME NEW f \in Builds, NEW n \in Nodes, NEW texts, NEW items \in Seq(Nat), NEW r \in Progress,
           NEW g, \A m \in n + 1 .. Len(Pool) : g[m] = f[m]
    PROVE  /\ ValueNode(g, n, texts, items, r) = ValueNode(f, n, texts, items, r)
           /\ ValueNode(f, n, texts, items, r) \in Progress
<1> DEFINE leaf == Len(r.kinds) + 1
           list == r.lists + 1
<1>1. /\ r.ok \in BOOLEAN /\ r.kinds \in Seq(LeafKinds) /\ r.lists \in Nat /\ r.nodes \in Nat
      /\ r = [ok |-> r.ok, kinds |-> r.kinds, lists |-> r.lists, nodes |-> r.nodes]
  BY DEF Progress
<1>2. Stuck(r) \in Progress
  BY <1>1 DEF Progress, Stuck
<1>3. ASSUME NEW q \in Progress PROVE OneMore(q) \in Progress
  <2>1. q.nodes \in Nat /\ q.nodes + 1 \in Nat
    BY DEF Progress
  <2> QED BY <2>1 DEF Progress, OneMore
<1>4. ASSUME Kind(n) \in LeafKinds PROVE [r EXCEPT !.kinds = Append(@, Kind(n))] \in Progress
  <2>1. Append(r.kinds, Kind(n)) \in Seq(LeafKinds)
    BY <1>1, <1>4
  <2> QED BY <1>1, <2>1 DEF Progress
<1>5. [r EXCEPT !.lists = list] \in Progress
  BY <1>1 DEF Progress
<1>6. ASSUME NEW c \in Nat, Kind(n) \notin LeafKinds, NEW q \in Progress
      PROVE  /\ InTurn(g, Arguments(n, c), q) = InTurn(f, Arguments(n, c), q)
             /\ InTurn(f, Arguments(n, c), q) \in Progress
  <2>1. Arguments(n, c) \in Seq(n + 1 .. Len(Pool)) /\ Arguments(n, c) \in Seq(Nodes)
    BY <1>6, ArgumentsAfter
  <2>2. \A i \in 1 .. Len(Arguments(n, c)) : Arguments(n, c)[i] \in n + 1 .. Len(Pool)
    BY <2>1, ElementOfSeq
  <2>3. AgreesOn(g, f, Arguments(n, c))
    BY <2>2 DEF AgreesOn
  <2> QED BY <2>1, <2>3, InTurnAgree
<1>7. list <= Len(items) => items[list] \in Nat
  <2>1. list <= Len(items) => list \in 1 .. Len(items)
    BY <1>1
  <2> QED BY <2>1, ElementOfSeq
<1>8. 1 \in Nat
  OBVIOUS
<1>9. CASE ~r.ok
  BY <1>9 DEF ValueNode
<1>10. CASE r.ok /\ Kind(n) \in LeafKinds
  BY <1>2, <1>3, <1>4, <1>10 DEF ValueNode
<1>11. CASE r.ok /\ Kind(n) \notin LeafKinds /\ Kind(n) = "list"
  <2>1. CASE list <= Len(items)
    <3> DEFINE A == Arguments(n, items[list])
               q == [r EXCEPT !.lists = list]
    <3>1. InTurn(g, A, q) = InTurn(f, A, q) /\ InTurn(f, A, q) \in Progress
      BY <1>5, <1>6, <1>7, <1>11, <2>1
    <3>2. /\ ValueNode(g, n, texts, items, r) = OneMore(InTurn(g, A, q))
          /\ ValueNode(f, n, texts, items, r) = OneMore(InTurn(f, A, q))
      BY <1>11, <2>1 DEF ValueNode
    <3> HIDE DEF A, q
    <3> QED BY <1>3, <3>1, <3>2
  <2>2. CASE ~(list <= Len(items))
    BY <1>2, <1>11, <2>2 DEF ValueNode
  <2> QED BY <2>1, <2>2
<1>12. CASE r.ok /\ Kind(n) \notin LeafKinds /\ Kind(n) # "list"
  <2> DEFINE A == Arguments(n, 1)
  <2>1. InTurn(g, A, r) = InTurn(f, A, r) /\ InTurn(f, A, r) \in Progress
    BY <1>6, <1>8, <1>12
  <2>2. /\ ValueNode(g, n, texts, items, r) = OneMore(InTurn(g, A, r))
        /\ ValueNode(f, n, texts, items, r) = OneMore(InTurn(f, A, r))
    BY <1>12 DEF ValueNode
  <2> HIDE DEF A
  <2> QED BY <1>3, <2>1, <2>2
<1> QED BY <1>1, <1>9, <1>10, <1>11, <1>12

\* There is a function that makes every node of texts and items.
LEMMA BuilderExists ==
    ASSUME NEW texts, NEW items \in Seq(Nat)
    PROVE  \E f \in Builds : \A n \in Nodes : Makes(f, n, texts, items)
<1> DEFINE N == Len(Pool)
           Upto(k, f) == \A n \in Nodes : n > N - k => Makes(f, n, texts, items)
           S == {k \in 0 .. N : \E f \in Builds : Upto(k, f)}
<1>1. N \in Nat /\ Nodes = 1 .. N
  BY PoolOK
<1>2. 0 \in S
  <2>1. [n \in Nodes |-> [r \in Progress |-> r]] \in Builds
    BY DEF Builds
  <2>2. \A n \in Nodes : ~(n > N - 0)
    BY <1>1
  <2>3. Upto(0, [n \in Nodes |-> [r \in Progress |-> r]]) /\ 0 \in 0 .. N
    BY <1>1, <2>2
  <2> HIDE DEF Upto
  <2> QED BY <2>1, <2>3
<1>3. ASSUME NEW k \in 0 .. N, k # N, k \in S PROVE k + 1 \in S
  <2>1. PICK f \in Builds : Upto(k, f)
    BY <1>3
  <2> DEFINE m == N - k
             h == [r \in Progress |-> ValueNode(f, m, texts, items, r)]
             g == [n \in Nodes |-> IF n = m THEN h ELSE f[n]]
  <2>2. m \in Nodes /\ m \in Nat /\ N - (k + 1) = m - 1 /\ k + 1 \in 0 .. N
    BY <1>1, <1>3
  <2>3. h \in [Progress -> Progress]
    <3> HIDE DEF m
    <3>1. \A i \in m + 1 .. Len(Pool) : f[i] = f[i]
      OBVIOUS
    <3>2. \A r \in Progress : ValueNode(f, m, texts, items, r) \in Progress
      BY <2>2, <3>1, ValueNodeOK
    <3> QED BY <3>2
  <2> HIDE DEF m, h
  <2>4. g \in Builds
    BY <2>3 DEF Builds
  <2>5. ASSUME NEW n \in Nodes, n > m - 1 PROVE Makes(g, n, texts, items)
    <3>1. \A i \in n + 1 .. N : f[i] = g[i]
      <4>1. \A i \in n + 1 .. N : i \in Nodes /\ i # m
        BY <1>1, <2>2, <2>5
      <4> QED BY <4>1
    <3>2. \A r \in Progress : ValueNode(f, n, texts, items, r) = ValueNode(g, n, texts, items, r)
      <4> HIDE DEF g
      <4> QED BY <2>4, <3>1, ValueNodeOK
    <3>3. f[n] = g[n] => (Makes(f, n, texts, items) => Makes(g, n, texts, items))
      <4> HIDE DEF g
      <4> QED BY <3>2 DEF Makes
    <3>4. CASE n = m
      <4>1. g[n] = h
        BY <3>4
      <4> HIDE DEF g
      <4>2. h = [r \in Progress |-> ValueNode(g, n, texts, items, r)]
        BY <3>2, <3>4 DEF h
      <4> QED BY <4>1, <4>2 DEF Makes
    <3>5. CASE n # m
      <4>1. n > m
        BY <1>1, <2>2, <2>5, <3>5
      <4>2. Makes(f, n, texts, items)
        BY <2>1, <4>1 DEF m
      <4>3. f[n] = g[n]
        BY <3>5
      <4> QED BY <3>3, <4>2, <4>3
    <3> QED BY <3>4, <3>5
  <2>6. Upto(k + 1, g)
    BY <2>2, <2>5
  <2> HIDE DEF Upto, g
  <2> QED BY <2>2, <2>4, <2>6
<1>4. N \in S
  <2> HIDE DEF S
  <2>1. N \in 0 .. N
    BY <1>1
  <2> QED BY <1>1, <1>2, <1>3, <2>1, BoundedInduction
<1>5. PICK f \in Builds : Upto(N, f)
  BY <1>4
<1>6. \A n \in Nodes : n > N - N
  BY <1>1
<1> QED BY <1>5, <1>6

\* Builder is one.
LEMMA BuilderOK ==
    ASSUME NEW texts, NEW items \in Seq(Nat)
    PROVE  /\ Builder(texts, items) \in Builds
           /\ \A n \in Nodes : Makes(Builder(texts, items), n, texts, items)
<1> DEFINE Step(f) == [n \in Nodes |-> [r \in Progress |-> ValueNode(f, n, texts, items, r)]]
           b == CHOOSE f : f = Step(f)
<1>1. Builder(texts, items) = b
  BY DEF Builder
<1>2. PICK f \in Builds : \A n \in Nodes : Makes(f, n, texts, items)
  BY BuilderExists
<1>3. f = Step(f)
  <2>1. \A n \in Nodes : f[n] = [r \in Progress |-> ValueNode(f, n, texts, items, r)]
    BY <1>2 DEF Makes
  <2>2. f = [n \in Nodes |-> f[n]]
    BY DEF Builds
  <2> QED BY <2>1, <2>2
<1>4. b = Step(b)
  <2> HIDE DEF Step
  <2> QED BY <1>3
<1> HIDE DEF b
<1>5. \A n \in Nodes : Makes(b, n, texts, items)
  BY <1>4 DEF Makes
<1> DEFINE S == {n \in Nodes : b[n] = f[n]}
<1>6. ASSUME NEW n \in Nodes, n + 1 .. Len(Pool) \subseteq S PROVE n \in S
  <2>1. \A i \in n + 1 .. Len(Pool) : b[i] = f[i]
    BY <1>6
  <2>2. \A r \in Progress : ValueNode(b, n, texts, items, r) = ValueNode(f, n, texts, items, r)
    BY <2>1, ValueNodeOK
  <2>3. b[n] = f[n]
    BY <1>2, <1>5, <2>2 DEF Makes
  <2> QED BY <2>3
<1>7. \A n \in Nodes : n \in S
  <2>1. Descends(S)
    BY <1>6 DEF Descends
  <2> HIDE DEF S
  <2> QED BY <2>1, NodeInduction
<1>8. b = f
  <2>1. b = [n \in Nodes |-> b[n]]
    BY <1>4
  <2>2. f = [n \in Nodes |-> f[n]]
    BY DEF Builds
  <2>3. \A n \in Nodes : b[n] = f[n]
    BY <1>7
  <2> QED BY <2>1, <2>2, <2>3
<1> QED BY <1>1, <1>5, <1>8

\* r has built what q has, of as many nodes or more.
Covers(r, q) ==
    r.ok = q.ok /\ (r.ok => r.kinds = q.kinds /\ r.lists = q.lists /\ r.nodes >= q.nodes)

\* What h makes of more covers what it makes of less, and is a node more.
Steady(h) ==
    /\ \A r \in Progress : \A q \in Progress : Covers(r, q) => Covers(h[r], h[q])
    /\ \A r \in Progress : h[r].ok => r.ok /\ h[r].nodes >= r.nodes + 1
SteadyOn(f, s) == \A i \in 1 .. Len(s) : Steady(f[s[i]])

\* Covering is reflexive ...
LEMMA CoversItself == ASSUME NEW r \in Progress PROVE Covers(r, r)
BY DEF Covers, Progress

\* ... and transitive.
LEMMA CoversOver ==
    ASSUME NEW r \in Progress, NEW q \in Progress, NEW p \in Progress, Covers(r, q), Covers(q, p)
    PROVE  Covers(r, p)
BY DEF Covers, Progress

\* So are the types of a sequence, one after the other.
LEMMA SteadyInTurn ==
    ASSUME NEW f \in Builds, NEW s \in Seq(Nodes), SteadyOn(f, s)
    PROVE  /\ \A r \in Progress : \A q \in Progress :
                  Covers(r, q) => Covers(InTurn(f, s, r), InTurn(f, s, q))
           /\ \A r \in Progress : InTurn(f, s, r).ok
                  => r.ok /\ InTurn(f, s, r).nodes >= r.nodes + Len(s)
<1> DEFINE N == Len(s)
<1>1. N \in Nat /\ AgreesOn(f, f, s)
  BY DEF AgreesOn
<1>2. ASSUME NEW r \in Progress, NEW q \in Progress, Covers(r, q)
      PROVE  Covers(InTurn(f, s, r), InTurn(f, s, q))
  <2>1. PICK a : Visits(f, s, r, a)
    BY VisitExists
  <2>2. PICK b : Visits(f, s, q, b)
    BY VisitExists
  <2>3. /\ a \in [0 .. N -> Progress] /\ a[0] = r /\ \A i \in 1 .. N : a[i] = f[s[i]][a[i - 1]]
        /\ b \in [0 .. N -> Progress] /\ b[0] = q /\ \A i \in 1 .. N : b[i] = f[s[i]][b[i - 1]]
    BY <2>1, <2>2 DEF Visits
  <2> DEFINE S == {i \in 0 .. N : Covers(a[i], b[i])}
  <2>4. 0 \in S
    BY <1>1, <1>2, <2>3
  <2>5. ASSUME NEW i \in 0 .. N, i # N, i \in S PROVE i + 1 \in S
    <3> DEFINE m == i + 1
    <3>1. m \in 1 .. N /\ m \in 0 .. N /\ m - 1 = i
      BY <1>1, <2>5
    <3> HIDE DEF m
    <3>2. a[i] \in Progress /\ b[i] \in Progress /\ Covers(a[i], b[i])
      BY <2>3, <2>5
    <3>3. Steady(f[s[m]])
      BY <3>1 DEF SteadyOn
    <3>4. Covers(f[s[m]][a[i]], f[s[m]][b[i]])
      BY <3>2, <3>3 DEF Steady
    <3>5. a[m] = f[s[m]][a[i]] /\ b[m] = f[s[m]][b[i]]
      BY <2>3, <3>1
    <3>6. Covers(a[m], b[m])
      BY <3>4, <3>5
    <3>7. m \in S
      BY <3>1, <3>6
    <3> QED BY <3>7 DEF m
  <2>6. N \in S
    <3> HIDE DEF S
    <3>1. N \in 0 .. N
      BY <1>1
    <3> QED BY <1>1, <2>4, <2>5, <3>1, BoundedInduction
  <2>7. InTurn(f, s, r) = a[N] /\ InTurn(f, s, q) = b[N]
    BY <1>1, <2>1, <2>2, InTurnVisits
  <2> QED BY <2>6, <2>7
<1>3. ASSUME NEW r \in Progress, InTurn(f, s, r).ok
      PROVE  r.ok /\ InTurn(f, s, r).nodes >= r.nodes + N
  <2>1. PICK a : Visits(f, s, r, a)
    BY VisitExists
  <2>2. a \in [0 .. N -> Progress] /\ a[0] = r /\ \A i \in 1 .. N : a[i] = f[s[i]][a[i - 1]]
    BY <2>1 DEF Visits
  <2> DEFINE S == {i \in 0 .. N : a[i].ok => r.ok /\ a[i].nodes >= r.nodes + i}
  <2>3. 0 \in S
    <3>1. r.nodes \in Nat
      BY DEF Progress
    <3>2. r.nodes >= r.nodes + 0 /\ 0 \in 0 .. N
      BY <1>1, <3>1
    <3> QED BY <2>2, <3>2
  <2>4. ASSUME NEW i \in 0 .. N, i # N, i \in S PROVE i + 1 \in S
    <3> DEFINE m == i + 1
    <3>1. m \in 1 .. N /\ m \in 0 .. N /\ m - 1 = i /\ i \in Nat
      BY <1>1, <2>4
    <3>2. a[i] \in Progress /\ (a[i].ok => r.ok /\ a[i].nodes >= r.nodes + i)
      BY <2>2, <2>4
    <3> HIDE DEF m
    <3>3. Steady(f[s[m]])
      BY <3>1 DEF SteadyOn
    <3>4. a[m] = f[s[m]][a[i]] /\ a[m] \in Progress
      BY <2>2, <3>1
    <3>5. a[m].ok => a[i].ok /\ a[m].nodes >= a[i].nodes + 1
      BY <3>2, <3>3, <3>4 DEF Steady
    <3>6. a[m].nodes \in Nat /\ a[i].nodes \in Nat /\ r.nodes \in Nat
      BY <3>2, <3>4 DEF Progress
    <3>7. a[m].ok => r.ok /\ a[m].nodes >= r.nodes + m
      BY <3>1, <3>2, <3>5, <3>6 DEF m
    <3>8. m \in S
      BY <3>1, <3>7
    <3> QED BY <3>8 DEF m
  <2>5. N \in S
    <3> HIDE DEF S
    <3>1. N \in 0 .. N
      BY <1>1
    <3> QED BY <1>1, <2>3, <2>4, <3>1, BoundedInduction
  <2>6. InTurn(f, s, r) = a[N]
    BY <1>1, <2>1, InTurnVisits
  <2> QED BY <1>3, <2>5, <2>6
<1> QED BY <1>2, <1>3

\* A node more covers what was there.
LEMMA OneMoreCovers ==
    ASSUME NEW r \in Progress, NEW q \in Progress, Covers(r, q)
    PROVE  /\ Covers(OneMore(r), OneMore(q)) /\ Covers(OneMore(r), q)
           /\ OneMore(r).ok = r.ok /\ OneMore(r).nodes = r.nodes + 1 /\ OneMore(r) \in Progress
<1>1. /\ r.nodes \in Nat /\ q.nodes \in Nat /\ r.nodes + 1 \in Nat
      /\ r.kinds = r.kinds /\ r.lists \in Nat
  BY DEF Progress
<1>2. ASSUME NEW p \in Progress
      PROVE  /\ OneMore(p).ok = p.ok /\ OneMore(p).kinds = p.kinds /\ OneMore(p).lists = p.lists
             /\ OneMore(p).nodes = p.nodes + 1
  BY DEF OneMore, Progress
<1>3. OneMore(r) \in Progress
  BY <1>1 DEF Progress, OneMore
<1> QED BY <1>1, <1>2, <1>3 DEF Covers

\* What is built of texts and items is steady, node by node.
LEMMA BuilderSteady ==
    ASSUME NEW f \in Builds, NEW texts, NEW items \in Seq(Nat),
           \A n \in Nodes : Makes(f, n, texts, items)
    PROVE  \A n \in Nodes : Steady(f[n])
<1> DEFINE S == {n \in Nodes : Steady(f[n])}
<1>1. ASSUME NEW n \in Nodes, n + 1 .. Len(Pool) \subseteq S PROVE n \in S
  <2>0. \A r \in Progress : f[n][r] = ValueNode(f, n, texts, items, r) /\ f[n][r] \in Progress
    <3>1. f[n] = [r \in Progress |-> ValueNode(f, n, texts, items, r)] /\ f[n] \in [Progress -> Progress]
      BY <1>1 DEF Makes, Builds
    <3> QED BY <3>1
  <2>1. ASSUME NEW c \in Nat, Kind(n) \notin LeafKinds
        PROVE  Arguments(n, c) \in Seq(Nodes) /\ SteadyOn(f, Arguments(n, c))
    <3>1. Arguments(n, c) \in Seq(n + 1 .. Len(Pool)) /\ Arguments(n, c) \in Seq(Nodes)
      BY <2>1, ArgumentsAfter
    <3>2. \A i \in 1 .. Len(Arguments(n, c)) : Arguments(n, c)[i] \in n + 1 .. Len(Pool)
      BY <3>1, ElementOfSeq
    <3> QED BY <1>1, <3>1, <3>2 DEF SteadyOn
  <2>2. ASSUME NEW r \in Progress, r.ok, NEW q \in Progress, Covers(r, q), Kind(n) \in LeafKinds
        PROVE  Covers(f[n][r], f[n][q]) /\ (f[n][r].ok => f[n][r].nodes >= r.nodes + 1)
    <3> DEFINE R == [r EXCEPT !.kinds = Append(@, Kind(n))]
               Q == [q EXCEPT !.kinds = Append(@, Kind(n))]
    <3>1. r.ok /\ q.ok /\ r.kinds = q.kinds /\ r.lists = q.lists /\ r.nodes >= q.nodes
      BY <2>2 DEF Covers
    <3>2. Append(r.kinds, Kind(n)) \in Seq(LeafKinds)
      BY <2>2 DEF Progress
    <3>3. R \in Progress /\ Q \in Progress /\ Covers(R, Q) /\ R.nodes = r.nodes
      BY <3>1, <3>2 DEF Progress, Covers
    <3>4. CASE Len(r.kinds) + 1 <= Len(texts) /\ texts[Len(r.kinds) + 1] \in Encodes[Kind(n)]
      <4>1. f[n][r] = OneMore(R) /\ f[n][q] = OneMore(Q)
        BY <2>0, <2>2, <3>1, <3>4 DEF ValueNode
      <4> HIDE DEF R, Q
      <4>2. Covers(OneMore(R), OneMore(Q)) /\ OneMore(R).nodes = R.nodes + 1
        BY <3>3, OneMoreCovers
      <4>3. R.nodes \in Nat
        BY <3>3 DEF Progress
      <4> QED BY <3>3, <4>1, <4>2, <4>3
    <3>5. CASE ~(Len(r.kinds) + 1 <= Len(texts) /\ texts[Len(r.kinds) + 1] \in Encodes[Kind(n)])
      <4>1. f[n][r] = Stuck(r) /\ f[n][q] = Stuck(q)
        BY <2>0, <2>2, <3>1, <3>5 DEF ValueNode
      <4>2. Stuck(r).ok = FALSE /\ Stuck(q).ok = FALSE
        BY DEF Stuck, Progress
      <4> QED BY <4>1, <4>2 DEF Covers
    <3> QED BY <3>4, <3>5
  <2>3. ASSUME NEW r \in Progress, r.ok, NEW q \in Progress, Covers(r, q),
               Kind(n) \notin LeafKinds, Kind(n) = "list"
        PROVE  Covers(f[n][r], f[n][q]) /\ (f[n][r].ok => f[n][r].nodes >= r.nodes + 1)
    <3> DEFINE list == r.lists + 1
               R == [r EXCEPT !.lists = list]
               Q == [q EXCEPT !.lists = list]
    <3>1. r.ok /\ q.ok /\ r.kinds = q.kinds /\ r.lists = q.lists /\ r.nodes >= q.nodes
      BY <2>3 DEF Covers
    <3>2. R \in Progress /\ Q \in Progress /\ Covers(R, Q) /\ R.nodes = r.nodes
      <4>1. list \in Nat
        BY DEF Progress
      <4> HIDE DEF list
      <4>2. R \in Progress /\ Q \in Progress
        BY <4>1 DEF Progress
      <4>3. /\ R.ok = r.ok /\ R.kinds = r.kinds /\ R.lists = list /\ R.nodes = r.nodes
            /\ Q.ok = q.ok /\ Q.kinds = q.kinds /\ Q.lists = list /\ Q.nodes = q.nodes
        BY DEF Progress
      <4> QED BY <3>1, <4>2, <4>3 DEF Covers
    <3>3. CASE list <= Len(items)
      <4> DEFINE A == Arguments(n, items[list])
      <4>0. list \in 1 .. Len(items)
        BY <3>3 DEF Progress
      <4>1. items[list] \in Nat
        BY <4>0, ElementOfSeq
      <4>2. A \in Seq(Nodes) /\ SteadyOn(f, A)
        BY <2>1, <2>3, <4>1
      <4>3. f[n][r] = OneMore(InTurn(f, A, R)) /\ f[n][q] = OneMore(InTurn(f, A, Q))
        BY <2>0, <2>3, <3>1, <3>3 DEF ValueNode
      <4> HIDE DEF R, Q, A
      <4>4. AgreesOn(f, f, A) /\ Len(A) \in Nat
        BY <4>2 DEF AgreesOn
      <4>5. /\ InTurn(f, A, R) \in Progress /\ InTurn(f, A, Q) \in Progress
            /\ Covers(InTurn(f, A, R), InTurn(f, A, Q))
            /\ InTurn(f, A, R).ok => InTurn(f, A, R).nodes >= R.nodes + Len(A)
        BY <3>2, <4>2, <4>4, InTurnAgree, SteadyInTurn
      <4> DEFINE E == InTurn(f, A, R)
                 F == InTurn(f, A, Q)
      <4> HIDE DEF E, F
      <4>6. Covers(OneMore(E), OneMore(F)) /\ OneMore(E).ok = E.ok /\ OneMore(E).nodes = E.nodes + 1
        BY <4>5, OneMoreCovers DEF E, F
      <4>7. E.nodes \in Nat /\ R.nodes \in Nat
        BY <3>2, <4>5 DEF E, Progress
      <4>8. E.ok => E.nodes >= R.nodes + Len(A)
        BY <4>5 DEF E
      <4>9. f[n][r] = OneMore(E) /\ f[n][q] = OneMore(F)
        BY <4>3 DEF E, F
      <4> QED BY <3>2, <4>4, <4>6, <4>7, <4>8, <4>9
    <3>4. CASE ~(list <= Len(items))
      <4>1. f[n][r] = Stuck(r) /\ f[n][q] = Stuck(q)
        BY <2>0, <2>3, <3>1, <3>4 DEF ValueNode
      <4>2. Stuck(r).ok = FALSE /\ Stuck(q).ok = FALSE
        BY DEF Stuck, Progress
      <4> QED BY <4>1, <4>2 DEF Covers
    <3> QED BY <3>3, <3>4
  <2>4. ASSUME NEW r \in Progress, r.ok, NEW q \in Progress, Covers(r, q),
               Kind(n) \notin LeafKinds, Kind(n) # "list"
        PROVE  Covers(f[n][r], f[n][q]) /\ (f[n][r].ok => f[n][r].nodes >= r.nodes + 1)
    <3> DEFINE A == Arguments(n, 1)
               E == InTurn(f, A, r)
               F == InTurn(f, A, q)
    <3>1. A \in Seq(Nodes) /\ SteadyOn(f, A)
      BY <2>1, <2>4
    <3>2. q.ok
      BY <2>4 DEF Covers
    <3>3. f[n][r] = OneMore(E) /\ f[n][q] = OneMore(F)
      BY <2>0, <2>4, <3>2 DEF ValueNode
    <3> HIDE DEF A
    <3>4. AgreesOn(f, f, A) /\ Len(A) \in Nat
      BY <3>1 DEF AgreesOn
    <3>5. /\ E \in Progress /\ F \in Progress /\ Covers(E, F)
          /\ E.ok => E.nodes >= r.nodes + Len(A)
      BY <2>4, <3>1, <3>4, InTurnAgree, SteadyInTurn
    <3> HIDE DEF E, F
    <3>6. Covers(OneMore(E), OneMore(F)) /\ OneMore(E).ok = E.ok /\ OneMore(E).nodes = E.nodes + 1
      BY <3>5, OneMoreCovers
    <3>7. E.nodes \in Nat /\ r.nodes \in Nat
      BY <3>5 DEF Progress
    <3> QED BY <3>3, <3>4, <3>5, <3>6, <3>7
  <2>5. ASSUME NEW r \in Progress, ~r.ok PROVE f[n][r] = r
    BY <2>0, <2>5 DEF ValueNode
  <2>6. ASSUME NEW r \in Progress, NEW q \in Progress, Covers(r, q) PROVE Covers(f[n][r], f[n][q])
    <3>1. CASE r.ok
      BY <2>2, <2>3, <2>4, <2>6, <3>1
    <3>2. CASE ~r.ok
      BY <2>5, <2>6, <3>2 DEF Covers
    <3> QED BY <3>1, <3>2
  <2>7. ASSUME NEW r \in Progress, f[n][r].ok PROVE r.ok /\ f[n][r].nodes >= r.nodes + 1
    <3>1. r.ok
      BY <2>5, <2>7
    <3> QED BY <2>2, <2>3, <2>4, <2>7, <3>1, CoversItself
  <2>8. Steady(f[n])
    BY <2>6, <2>7 DEF Steady
  <2> QED BY <2>8
<1>2. Descends(S)
  BY <1>1 DEF Descends
<1>3. \A n \in Nodes : n \in S
  <2> HIDE DEF S
  <2> QED BY <1>2, NodeInduction
<1> QED BY <1>3

-----------------------------------------------------------------------------
(* The stack of the walker, its top last.                                  *)

\* What f builds of the types on a stack, from the top down.
OfStack(f, s, r) == InTurn(f, Reverse(s), r)

\* A stack turned round is as typed, and two stacks swap when they are.
LEMMA ReverseOK ==
    ASSUME NEW s \in Seq(Nodes), NEW t \in Seq(Nodes)
    PROVE  Reverse(s) \in Seq(Nodes) /\ Reverse(s \o t) = Reverse(t) \o Reverse(s)
<1> DEFINE M == Len(s)
           N == Len(t)
<1>1. M \in Nat /\ N \in Nat /\ s \in [1 .. M -> Nodes] /\ t \in [1 .. N -> Nodes]
  OBVIOUS
<1>2. ASSUME NEW S, NEW u \in Seq(S)
      PROVE  /\ Reverse(u) \in Seq(S) /\ Len(Reverse(u)) = Len(u)
             /\ \A i \in 1 .. Len(u) : Reverse(u)[i] = u[Len(u) - i + 1]
  <2>1. Len(u) \in Nat /\ \A i \in 1 .. Len(u) : Len(u) - i + 1 \in 1 .. Len(u)
    OBVIOUS
  <2>2. \A i \in 1 .. Len(u) : u[Len(u) - i + 1] \in S
    BY <2>1, ElementOfSeq
  <2>3. Reverse(u) = [i \in 1 .. Len(u) |-> u[Len(u) - i + 1]]
    BY DEF Reverse
  <2> QED BY <2>1, <2>2, <2>3
<1> DEFINE u == s \o t
           v == Reverse(t) \o Reverse(s)
<1>3. /\ u \in Seq(Nodes) /\ Len(u) = M + N
      /\ \A i \in 1 .. M + N : u[i] = IF i <= M THEN s[i] ELSE t[i - M]
  BY ConcatProperties
<1>4. /\ v \in Seq(Nodes) /\ Len(v) = N + M
      /\ \A i \in 1 .. N + M : v[i] = IF i <= N THEN Reverse(t)[i] ELSE Reverse(s)[i - N]
  <2>1. /\ Reverse(t) \in Seq(Nodes) /\ Reverse(s) \in Seq(Nodes)
        /\ Len(Reverse(t)) = N /\ Len(Reverse(s)) = M
    BY <1>2
  <2> DEFINE a == Reverse(s)
             b == Reverse(t)
  <2> HIDE DEF a, b, M, N
  <2>2. a \in Seq(Nodes) /\ b \in Seq(Nodes) /\ Len(b) = N /\ Len(a) = M
    BY <2>1 DEF a, b
  <2>3. /\ b \o a \in Seq(Nodes) /\ Len(b \o a) = Len(b) + Len(a)
        /\ \A i \in 1 .. Len(b) + Len(a) : (b \o a)[i] = IF i <= Len(b) THEN b[i] ELSE a[i - Len(b)]
    BY <2>2, ConcatProperties
  <2>4. v = b \o a
    BY DEF a, b
  <2> HIDE DEF v
  <2> QED BY <2>2, <2>3, <2>4 DEF a, b
<1> HIDE DEF u, v
<1>5. Reverse(u) \in Seq(Nodes) /\ Len(Reverse(u)) = M + N
  BY <1>2, <1>3
<1>6. ASSUME NEW i \in 1 .. Len(Reverse(u)) PROVE Reverse(u)[i] = v[i]
  <2> HIDE DEF M, N
  <2>1. i \in 1 .. M + N /\ i \in 1 .. N + M
    BY <1>1, <1>5
  <2> DEFINE L == Len(u)
             j == L - i + 1
  <2>2. Reverse(u)[i] = u[j]
    <3>1. u \in Seq(Nodes) /\ i \in 1 .. Len(u)
      BY <1>3, <2>1
    <3> QED BY <1>2, <3>1
  <2>8. L = M + N
    BY <1>3
  <2> HIDE DEF L
  <2>3. j \in 1 .. M + N
    BY <1>1, <2>1, <2>8
  <2>4. u[j] = IF j <= M THEN s[j] ELSE t[j - M]
    BY <1>3, <2>3
  <2>5. v[i] = IF i <= N THEN Reverse(t)[i] ELSE Reverse(s)[i - N]
    BY <1>4, <2>1
  <2>6. CASE i <= N
    <3>1. i \in 1 .. N /\ ~(j <= M) /\ j - M = N - i + 1
      BY <1>1, <2>1, <2>6, <2>8
    <3>2. Reverse(t)[i] = t[N - i + 1]
      BY <1>2, <3>1 DEF N
    <3>3. u[j] = t[j - M]
      BY <2>4, <3>1
    <3> QED BY <2>2, <2>5, <2>6, <3>1, <3>2, <3>3
  <2>7. CASE ~(i <= N)
    <3> DEFINE k == i - N
    <3>1. k \in 1 .. M /\ j <= M /\ j = M - k + 1
      BY <1>1, <2>1, <2>7, <2>8
    <3> HIDE DEF k
    <3>2. Reverse(s)[k] = s[M - k + 1]
      BY <1>2, <3>1 DEF M
    <3>3. u[j] = s[j] /\ v[i] = Reverse(s)[k]
      BY <2>4, <2>5, <2>7, <3>1 DEF k
    <3> HIDE DEF j
    <3>4. Reverse(u)[i] = u[j]
      BY <2>2 DEF j
    <3> QED BY <3>1, <3>2, <3>3, <3>4
  <2> QED BY <2>6, <2>7
<1>7. Len(Reverse(u)) = Len(v)
  BY <1>1, <1>4, <1>5
<1>8. Reverse(u) = v
  BY <1>4, <1>5, <1>6, <1>7, SeqEqual
<1> QED BY <1>2, <1>8 DEF u, v

\* Of one stack on another, the upper one is built first.
LEMMA OfStackOK ==
    ASSUME NEW f \in Builds, NEW s \in Seq(Nodes), NEW t \in Seq(Nodes), NEW r \in Progress
    PROVE  /\ OfStack(f, s, r) \in Progress
           /\ OfStack(f, s \o t, r) = OfStack(f, s, OfStack(f, t, r))
<1>1. /\ Reverse(s) \in Seq(Nodes) /\ Reverse(t) \in Seq(Nodes)
      /\ Reverse(s \o t) = Reverse(t) \o Reverse(s)
  BY ReverseOK
<1>2. AgreesOn(f, f, Reverse(s)) /\ AgreesOn(f, f, Reverse(t))
  BY DEF AgreesOn
<1> QED BY <1>1, <1>2, InTurnAgree, InTurnConcat DEF OfStack

\* A stack of one, and of copies.
LEMMA OfStackOne ==
    ASSUME NEW f \in Builds, NEW n \in Nodes, NEW r \in Progress
    PROVE  /\ OfStack(f, <<n>>, r) = f[n][r] /\ OfStack(f, <<>>, r) = r /\ f[n][r] \in Progress
<1>1. Reverse(<<n>>) = <<n>>
  <2>1. \A i \in 1 .. 1 : 1 - i + 1 = 1
    OBVIOUS
  <2>2. Reverse(<<n>>) = [i \in 1 .. 1 |-> n]
    BY <2>1 DEF Reverse
  <2> QED BY <2>2
<1>2. Reverse(<<>>) = <<>>
  BY DEF Reverse
<1> QED BY <1>1, <1>2, InTurnOne, InTurnNone DEF OfStack

Copies(c, n) == [i \in 1 .. c |-> n]

\* It does not matter in what order copies of one type are built.
LEMMA OfStackCopies ==
    ASSUME NEW f \in Builds, NEW n \in Nodes, NEW c \in Nat, NEW r \in Progress
    PROVE  Copies(c, n) \in Seq(Nodes) /\ OfStack(f, Copies(c, n), r) = InTurn(f, Copies(c, n), r)
<1>1. /\ Copies(c, n) \in Seq(Nodes) /\ Len(Copies(c, n)) = c
      /\ \A i \in 1 .. c : Copies(c, n)[i] = n /\ c - i + 1 \in 1 .. c
  BY DEF Copies
<1>2. Reverse(Copies(c, n)) = [i \in 1 .. c |-> Copies(c, n)[c - i + 1]]
  BY <1>1 DEF Reverse
<1>3. Reverse(Copies(c, n)) = [i \in 1 .. c |-> n]
  BY <1>1, <1>2
<1> QED BY <1>1, <1>3 DEF OfStack, Copies

\* The walker's loop ends on this stack.
Done(s) == s = <<>> \/ Kind(Last(s)) \notin Branches \ {"list"}
Once(s) == Front(s) \o Pushed(Last(s))

\* A stack that is not empty is its top on the rest.
LEMMA TopOK ==
    /\ \A s \in Seq(Nodes) : s # <<>> =>
          /\ Front(s) \in Seq(Nodes) /\ Last(s) \in Nodes /\ s = Front(s) \o <<Last(s)>>
          /\ Len(Front(s)) = Len(s) - 1 /\ Len(s) # 0
    /\ \A s \in Seq(Nodes) : \A n \in Nodes :
          LET t == s \o <<n>> IN t \in Seq(Nodes) /\ t # <<>> /\ Front(t) = s /\ Last(t) = n
<1>1. ASSUME NEW s \in Seq(Nodes), s # <<>>
      PROVE  /\ Front(s) \in Seq(Nodes) /\ Last(s) \in Nodes /\ s = Front(s) \o <<Last(s)>>
             /\ Len(Front(s)) = Len(s) - 1 /\ Len(s) # 0
  <2>1. Len(s) \in 1 .. Len(s) /\ 1 \in 1 .. Len(s) /\ Len(s) \in Nat /\ Len(s) # 0
    BY <1>1, EmptySeq
  <2>2. Last(s) = s[Len(s)] /\ Front(s) = SubSeq(s, 1, Len(s) - 1)
    BY DEF Last, Front
  <2>3. SubSeq(s, 1, Len(s)) = SubSeq(s, 1, Len(s) - 1) \o <<s[Len(s)]>> /\ SubSeq(s, 1, Len(s)) = s
    BY <2>1, SubSeqRecursiveSecond, SubSeqFull
  <2>4. SubSeq(s, 1, Len(s) - 1) \in Seq(Nodes) /\ Len(SubSeq(s, 1, Len(s) - 1)) = Len(s) - 1
    <3> DEFINE k == Len(s) - 1
    <3>1. \A i \in 1 .. k : s[i] \in Nodes
      BY <2>1, ElementOfSeq
    <3>2. 1 \in Int /\ k \in Int /\ k \in Nat
      BY <2>1
    <3> HIDE DEF k
    <3>3. /\ SubSeq(s, 1, k) \in Seq(Nodes)
          /\ Len(SubSeq(s, 1, k)) = IF 1 <= k THEN k - 1 + 1 ELSE 0
      BY <3>1, <3>2, SubSeqProperties
    <3> DEFINE u == SubSeq(s, 1, k)
    <3>4. u \in Seq(Nodes) /\ Len(u) = IF 1 <= k THEN k - 1 + 1 ELSE 0
      BY <3>3
    <3> HIDE DEF u
    <3>5. Len(u) = k
      BY <3>2, <3>4
    <3> QED BY <3>4, <3>5 DEF k, u
  <2>5. s[Len(s)] \in Nodes
    BY <2>1, ElementOfSeq
  <2> QED BY <2>1, <2>2, <2>3, <2>4, <2>5
<1>2. ASSUME NEW s \in Seq(Nodes), NEW n \in Nodes
      PROVE  s \o <<n>> \in Seq(Nodes) /\ s \o <<n>> # <<>> /\ Front(s \o <<n>>) = s /\ Last(s \o <<n>>) = n
  <2> DEFINE a == <<n>>
             t == s \o a
  <2>1. a \in Seq(Nodes) /\ Len(a) = 1 /\ a[1] = n /\ Len(s) \in Nat
    OBVIOUS
  <2> HIDE DEF a
  <2>2. /\ t \in Seq(Nodes) /\ Len(t) = Len(s) + Len(a)
        /\ \A i \in 1 .. Len(s) + Len(a) : t[i] = IF i <= Len(s) THEN s[i] ELSE a[i - Len(s)]
    BY <2>1, ConcatProperties
  <2> HIDE DEF t
  <2>3. Len(t) = Len(s) + 1 /\ t # <<>> /\ Len(t) \in 1 .. Len(s) + Len(a) /\ ~(Len(t) <= Len(s))
    BY <2>1, <2>2
  <2>4. t[Len(t)] = n
    BY <2>1, <2>2, <2>3
  <2>5. SubSeq(t, 1, Len(t) - 1) = s
    <3>1. Len(t) - 1 = Len(s)
      BY <2>1, <2>3
    <3>2. \A i \in 1 .. Len(s) : t[i] = s[i]
      BY <2>1, <2>2
    <3>3. \A i \in 1 .. Len(s) : t[i] \in Nodes
      BY <3>2, ElementOfSeq
    <3>4. /\ SubSeq(t, 1, Len(s)) \in Seq(Nodes) /\ Len(SubSeq(t, 1, Len(s))) = Len(s)
          /\ \A i \in 1 .. Len(s) : SubSeq(t, 1, Len(s))[i] = t[i]
      BY <2>1, <3>3, SMTT(30)
    <3>5. SubSeq(t, 1, Len(s)) = s
      BY <3>2, <3>4, SeqEqual
    <3> QED BY <3>1, <3>5
  <2> QED BY <2>2, <2>3, <2>4, <2>5 DEF Last, Front, t, a
<1> QED BY <1>1, <1>2

\* A set of stacks with the finished ones and with those that go on to one of it.
Walkable(S) ==
    \A s \in Seq(Nodes) : /\ Done(s) => s \in S
                          /\ ~Done(s) /\ Once(s) \in S => s \in S

\* It has all of them: an argument comes after its node.
LEMMA StackInduction == ASSUME NEW S, Walkable(S) PROVE Seq(Nodes) \subseteq S
<1> DEFINE On(n) == \A s \in Seq(Nodes) : s \in S => s \o <<n>> \in S
           D == {n \in Nodes : On(n)}
<1>1. ASSUME NEW n \in Nodes, n + 1 .. Len(Pool) \subseteq D PROVE n \in D
  <2>1. ASSUME NEW s \in Seq(Nodes), s \in S PROVE s \o <<n>> \in S
    <3> DEFINE t == s \o <<n>>
    <3>1. t \in Seq(Nodes) /\ t # <<>> /\ Front(t) = s /\ Last(t) = n
      BY TopOK
    <3> HIDE DEF t
    <3>2. CASE Done(t)
      BY <3>1, <3>2 DEF Walkable, t
    <3>3. CASE ~Done(t)
      <4>1. Once(t) = s \o Pushed(n) /\ Kind(n) \in Branches \ {"list"}
        BY <3>1, <3>3 DEF Once, Done
      <4>2. /\ Kind(n) \in {"pair", "option", "or", "list"} => Arg(n, 1) \in n + 1 .. Len(Pool)
            /\ Kind(n) = "pair" => Arg(n, 2) \in n + 1 .. Len(Pool)
        BY PoolOK
      <4>3. s \o Pushed(n) \in S
        <5>1. CASE Kind(n) = "unit"
          <6>1. Pushed(n) = <<>>
            BY <5>1 DEF Pushed
          <6>2. s \o <<>> = s
            BY ConcatEmptySeq
          <6> QED BY <2>1, <6>1, <6>2
        <5>2. CASE Kind(n) = "pair"
          <6> DEFINE a == Arg(n, 2)
                     b == Arg(n, 1)
          <6>1. Pushed(n) = <<a, b>> /\ a \in D /\ b \in D
            BY <1>1, <4>2, <5>2 DEF Pushed
          <6> HIDE DEF a, b
          <6>2. a \in Nodes /\ b \in Nodes /\ On(a) /\ On(b)
            BY <6>1
          <6>3. s \o <<a>> \in S /\ s \o <<a>> \in Seq(Nodes)
            BY <2>1, <6>2
          <6>4. (s \o <<a>>) \o <<b>> \in S
            BY <6>2, <6>3
          <6>5. (s \o <<a>>) \o <<b>> = s \o (<<a>> \o <<b>>)
            BY <6>2, ConcatAssociative
          <6>6. <<a>> \o <<b>> = <<a, b>>
            <7>1. <<a>> \in Seq(Nodes)
              BY <6>2
            <7>2. Append(<<a>>, b) = <<a>> \o <<b>>
              BY <6>2, <7>1, AppendIsConcat
            <7> QED BY <7>2, AppendToOne
          <6> QED BY <6>1, <6>4, <6>5, <6>6
        <5>3. CASE Kind(n) \in {"option", "or"}
          <6> DEFINE b == Arg(n, 1)
          <6>1. Pushed(n) = <<b>> /\ b \in D
            BY <1>1, <4>2, <5>3 DEF Pushed
          <6> HIDE DEF b
          <6> QED BY <2>1, <6>1
        <5> QED BY <4>1, <5>1, <5>2, <5>3 DEF Branches
      <4> QED BY <3>1, <3>3, <4>1, <4>3 DEF Walkable, t
    <3> QED BY <3>2, <3>3 DEF t
  <2> QED BY <2>1
<1>2. \A n \in Nodes : n \in D
  <2>1. Descends(D)
    BY <1>1 DEF Descends
  <2> HIDE DEF D
  <2> QED BY <2>1, NodeInduction
<1> DEFINE L == {k \in Nat : \A s \in Seq(Nodes) : Len(s) = k => s \in S}
<1>3. 0 \in L
  <2>1. ASSUME NEW s \in Seq(Nodes), Len(s) = 0 PROVE s \in S
    <3>1. s = <<>>
      BY <2>1, EmptySeq
    <3> QED BY <3>1 DEF Walkable, Done
  <2> QED BY <2>1
<1>4. ASSUME NEW k \in L PROVE k + 1 \in L
  <2>1. k \in Nat /\ k + 1 \in Nat /\ k + 1 # 0
    OBVIOUS
  <2>2. ASSUME NEW s \in Seq(Nodes), Len(s) = k + 1 PROVE s \in S
    <3>1. s # <<>>
      BY <2>1, <2>2
    <3>2. /\ Front(s) \in Seq(Nodes) /\ Last(s) \in Nodes /\ s = Front(s) \o <<Last(s)>>
          /\ Len(Front(s)) = k
      BY <2>1, <2>2, <3>1, TopOK
    <3>3. Front(s) \in S
      BY <3>2
    <3>4. On(Last(s))
      BY <1>2, <3>2
    <3> QED BY <3>2, <3>3, <3>4
  <2> QED BY <2>1, <2>2
<1>5. \A k \in Nat : k \in L
  <2> HIDE DEF L
  <2>1. L \in SUBSET Nat
    BY DEF L
  <2> QED BY <1>3, <1>4, <2>1, Induction
<1>6. ASSUME NEW s \in Seq(Nodes) PROVE s \in S
  <2>1. Len(s) \in Nat
    OBVIOUS
  <2>2. Len(s) \in L
    BY <1>5, <2>1
  <2> QED BY <2>2
<1> QED BY <1>6

\* One turn of the loop leaves a stack of nodes.
LEMMA OnceOK == ASSUME NEW s \in Seq(Nodes), ~Done(s) PROVE Once(s) \in Seq(Nodes)
<1>1. s # <<>> /\ Kind(Last(s)) \in Branches \ {"list"}
  BY DEF Done
<1>2. Front(s) \in Seq(Nodes) /\ Last(s) \in Nodes
  BY <1>1, TopOK
<1> DEFINE n == Last(s)
<1> HIDE DEF n
<1>3. /\ Len(Pool) \in Nat /\ Nodes = 1 .. Len(Pool) /\ n \in Nodes /\ Kind(n) \in Branches \ {"list"}
      /\ Kind(n) \in {"pair", "option", "or", "list"} => Arg(n, 1) \in n + 1 .. Len(Pool)
      /\ Kind(n) = "pair" => Arg(n, 2) \in n + 1 .. Len(Pool)
  BY <1>1, <1>2, PoolOK DEF n
<1>4. n + 1 .. Len(Pool) \subseteq Nodes
  BY <1>3
<1>5. Pushed(n) \in Seq(Nodes)
  <2>1. CASE Kind(n) = "unit"
    BY <2>1 DEF Pushed
  <2>2. CASE Kind(n) = "pair"
    <3>1. Arg(n, 1) \in Nodes /\ Arg(n, 2) \in Nodes /\ Pushed(n) = <<Arg(n, 2), Arg(n, 1)>>
      BY <1>3, <1>4, <2>2 DEF Pushed
    <3> QED BY <3>1
  <2>3. CASE Kind(n) \in {"option", "or"}
    <3>1. Arg(n, 1) \in Nodes /\ Pushed(n) = <<Arg(n, 1)>>
      BY <1>3, <1>4, <2>3 DEF Pushed
    <3> QED BY <3>1
  <2> QED BY <1>3, <2>1, <2>2, <2>3 DEF Branches
<1> QED BY <1>2, <1>5, ConcatProperties DEF Once, n

\* The loop is a function of the stack: its finished stack, if any, is in every
\* set that goes on from the stack, and is the only one that is.
LEMMA ExpandedIs ==
    \A s \in Seq(Nodes) : /\ Done(s) => Expanded[s] = s
                          /\ ~Done(s) => Expanded[s] = Expanded[Once(s)]
<1> DEFINE Closed(S) == \A u \in S : ~Done(u) => Once(u) \in S
           Ends(s) == {t \in Seq(Nodes) : Done(t) /\ \A S \in SUBSET Seq(Nodes) : s \in S /\ Closed(S) => t \in S}
           Pick(S) == CHOOSE t : t \in S
           Step(f) == [stack \in Seq(Nodes) |->
                          IF stack = <<>> \/ Kind(Last(stack)) \notin Branches \ {"list"} THEN stack
                          ELSE f[Front(stack) \o Pushed(Last(stack))]]
           f == [s \in Seq(Nodes) |-> Pick(Ends(s))]
<1>1. ASSUME NEW s \in Seq(Nodes), Done(s) PROVE Pick(Ends(s)) = s
  <2>1. Closed({s}) /\ {s} \in SUBSET Seq(Nodes)
    BY <1>1
  <2>2. Ends(s) = {s}
    <3> HIDE DEF Closed
    <3> QED BY <1>1, <2>1
  <2> HIDE DEF Ends
  <2> QED BY <2>2
<1>2. ASSUME NEW s \in Seq(Nodes), ~Done(s) PROVE Ends(s) = Ends(Once(s))
  <2>1. Once(s) \in Seq(Nodes)
    BY <1>2, OnceOK
  <2>2. ASSUME NEW t \in Ends(Once(s)) PROVE t \in Ends(s)
    BY <1>2, <2>2
  <2>3. ASSUME NEW t \in Ends(s) PROVE t \in Ends(Once(s))
    <3>1. t \in Seq(Nodes) /\ Done(t) /\ t # s
      BY <1>2, <2>3
    <3>2. ASSUME NEW S \in SUBSET Seq(Nodes), Once(s) \in S, Closed(S) PROVE t \in S
      <4>1. Closed(S \cup {s}) /\ S \cup {s} \in SUBSET Seq(Nodes) /\ s \in S \cup {s}
        BY <3>2
      <4>2. t \in S \cup {s}
        <5> HIDE DEF Closed
        <5> QED BY <2>3, <4>1
      <4> QED BY <3>1, <4>2
    <3> QED BY <3>1, <3>2
  <2> HIDE DEF Ends
  <2> QED BY <2>2, <2>3
<1>3. f = Step(f)
  <2>1. ASSUME NEW s \in Seq(Nodes)
        PROVE  f[s] = IF s = <<>> \/ Kind(Last(s)) \notin Branches \ {"list"} THEN s
                      ELSE f[Front(s) \o Pushed(Last(s))]
    <3> HIDE DEF Pick, Ends
    <3>1. CASE Done(s)
      BY <1>1, <3>1 DEF Done
    <3>2. CASE ~Done(s)
      <4>1. Once(s) \in Seq(Nodes)
        BY <3>2, OnceOK
      <4>2. f[s] = f[Once(s)]
        BY <1>2, <3>2, <4>1
      <4> QED BY <3>2, <4>2 DEF Done, Once
    <3> QED BY <3>1, <3>2
  <2> HIDE DEF f
  <2>2. f = [s \in Seq(Nodes) |-> f[s]]
    BY DEF f
  <2> QED BY <2>1, <2>2
<1>4. Expanded = CHOOSE g : g = Step(g)
  BY DEF Expanded
<1>5. Expanded = Step(Expanded)
  <2> HIDE DEF Step, f
  <2> QED BY <1>3, <1>4
<1>6. ASSUME NEW s \in Seq(Nodes)
      PROVE  Expanded[s] = IF s = <<>> \/ Kind(Last(s)) \notin Branches \ {"list"} THEN s
                           ELSE Expanded[Front(s) \o Pushed(Last(s))]
  BY <1>5
<1> QED BY <1>6, Zenon DEF Done, Once

\* A stack and what the loop makes of it.
Kept(f, s) ==
    /\ Expanded[s] \in Seq(Nodes) /\ Done(Expanded[s])
    /\ \A r \in Progress : Covers(OfStack(f, s, r), OfStack(f, Expanded[s], r))

\* The loop ends, and what is built of the stack it leaves is what is built of
\* the stack it starts with, but for the branches themselves.
LEMMA ExpandedOK ==
    ASSUME NEW f \in Builds, NEW texts, NEW items \in Seq(Nat),
           \A n \in Nodes : Makes(f, n, texts, items)
    PROVE  \A s \in Seq(Nodes) : Kept(f, s)
<1> DEFINE S == {s \in Seq(Nodes) : Kept(f, s)}
<1>1. ASSUME NEW s \in Seq(Nodes), Done(s) PROVE s \in S
  <2>1. Expanded[s] = s
    BY <1>1, ExpandedIs
  <2>2. \A r \in Progress : OfStack(f, s, r) \in Progress
    BY OfStackOK
  <2>3. \A r \in Progress : Covers(OfStack(f, s, r), OfStack(f, s, r))
    BY <2>2, CoversItself
  <2> QED BY <1>1, <2>1, <2>3 DEF Kept
<1>2. ASSUME NEW s \in Seq(Nodes), ~Done(s), Once(s) \in S PROVE s \in S
  <2>1. Expanded[s] = Expanded[Once(s)] /\ Once(s) \in Seq(Nodes) /\ Kept(f, Once(s))
    BY <1>2, ExpandedIs, OnceOK
  <2> DEFINE n == Last(s)
             u == Front(s)
             p == Pushed(n)
  <2>2. s # <<>> /\ Kind(n) \in Branches \ {"list"}
    BY <1>2 DEF Done
  <2>3. n \in Nodes /\ u \in Seq(Nodes) /\ s = u \o <<n>> /\ Once(s) = u \o p
    BY <2>2, TopOK DEF Once
  <2> HIDE DEF n, u
  <2>4. Kind(n) \notin LeafKinds
    BY <2>2, ExplorerAssumption
  <2>5. p \in Seq(Nodes) /\ Reverse(p) = Arguments(n, 1)
    <3>0. /\ Len(Pool) \in Nat /\ Nodes = 1 .. Len(Pool)
          /\ Kind(n) \in {"pair", "option", "or", "list"} => Arg(n, 1) \in n + 1 .. Len(Pool)
          /\ Kind(n) = "pair" => Arg(n, 2) \in n + 1 .. Len(Pool)
      BY <2>3, PoolOK
    <3>1. n + 1 .. Len(Pool) \subseteq Nodes
      BY <2>3, <3>0
    <3>2. CASE Kind(n) = "unit"
      BY <3>2 DEF Pushed, Arguments, Reverse
    <3>3. CASE Kind(n) = "pair"
      <4> DEFINE a == Arg(n, 1)
                 b == Arg(n, 2)
      <4>1. a \in Nodes /\ b \in Nodes /\ p = <<b, a>> /\ Arguments(n, 1) = <<a, b>>
        BY <3>0, <3>1, <3>3 DEF Pushed, Arguments
      <4> HIDE DEF a, b
      <4>2. Reverse(<<b, a>>) = <<a, b>>
        BY <4>1 DEF Reverse
      <4> QED BY <4>1, <4>2
    <3>4. CASE Kind(n) \in {"option", "or"}
      <4> DEFINE a == Arg(n, 1)
      <4>1. a \in Nodes /\ p = <<a>> /\ Arguments(n, 1) = <<a>>
        BY <3>0, <3>1, <3>4 DEF Pushed, Arguments
      <4> HIDE DEF a
      <4>2. Reverse(<<a>>) = <<a>>
        BY <4>1 DEF Reverse
      <4> QED BY <4>1, <4>2
    <3> QED BY <2>2, <3>2, <3>3, <3>4 DEF Branches
  <2> HIDE DEF p
  <2>6. ASSUME NEW r \in Progress PROVE Covers(f[n][r], OfStack(f, p, r)) /\ f[n][r] \in Progress
    <3> DEFINE e == OfStack(f, p, r)
    <3>1. e \in Progress /\ f[n][r] \in Progress
      BY <2>3, <2>5, OfStackOK, OfStackOne
    <3>2. e = InTurn(f, Arguments(n, 1), r)
      BY <2>5 DEF OfStack
    <3>3. f[n][r] = ValueNode(f, n, texts, items, r)
      BY <2>3 DEF Makes
    <3>4. Arguments(n, 1) \in Seq(Nodes)
      BY <2>3, <2>4, ArgumentsAfter
    <3>5. CASE r.ok
      <4>1. f[n][r] = OneMore(e)
        BY <2>2, <2>4, <3>2, <3>3, <3>5 DEF ValueNode
      <4> HIDE DEF e
      <4>2. Covers(OneMore(e), e)
        BY <3>1, OneMoreCovers, CoversItself
      <4> QED BY <3>1, <4>1, <4>2 DEF e
    <3>6. CASE ~r.ok
      <4>1. f[n][r] = r
        BY <3>3, <3>6 DEF ValueNode
      <4>2. \A i \in Nodes : Steady(f[i])
        BY BuilderSteady
      <4>3. SteadyOn(f, Arguments(n, 1))
        BY <3>4, <4>2, ElementOfSeq DEF SteadyOn
      <4>4. ~e.ok
        BY <3>2, <3>4, <3>6, <4>3, SteadyInTurn
      <4>5. e.ok = FALSE /\ r.ok = FALSE
        BY <3>1, <3>6, <4>4 DEF Progress
      <4> HIDE DEF e
      <4>6. Covers(f[n][r], e)
        BY <4>1, <4>5 DEF Covers
      <4> QED BY <3>1, <4>6 DEF e
    <3> QED BY <3>1, <3>5, <3>6
  <2>7. ASSUME NEW r \in Progress PROVE Covers(OfStack(f, s, r), OfStack(f, Once(s), r))
    <3>1. <<n>> \in Seq(Nodes)
      BY <2>3
    <3>2. /\ OfStack(f, u \o <<n>>, r) = OfStack(f, u, OfStack(f, <<n>>, r))
          /\ OfStack(f, u \o p, r) = OfStack(f, u, OfStack(f, p, r))
          /\ OfStack(f, p, r) \in Progress
      <4>1. OfStack(f, u \o <<n>>, r) = OfStack(f, u, OfStack(f, <<n>>, r))
        BY <2>3, <3>1, OfStackOK
      <4>2. OfStack(f, u \o p, r) = OfStack(f, u, OfStack(f, p, r))
        BY <2>3, <2>5, OfStackOK
      <4>3. OfStack(f, p, r) \in Progress
        BY <2>3, <2>5, OfStackOK
      <4> QED BY <4>1, <4>2, <4>3
    <3>3. OfStack(f, <<n>>, r) = f[n][r]
      BY <2>3, OfStackOne
    <3>4. Reverse(u) \in Seq(Nodes)
      BY <2>3, ReverseOK
    <3>5. SteadyOn(f, Reverse(u))
      <4>1. \A i \in Nodes : Steady(f[i])
        BY BuilderSteady
      <4> QED BY <3>4, <4>1, ElementOfSeq DEF SteadyOn
    <3>6. Covers(InTurn(f, Reverse(u), f[n][r]), InTurn(f, Reverse(u), OfStack(f, p, r)))
      BY <2>6, <3>2, <3>4, <3>5, SteadyInTurn
    <3> QED BY <2>3, <3>2, <3>3, <3>6 DEF OfStack
  <2>8. ASSUME NEW r \in Progress PROVE Covers(OfStack(f, s, r), OfStack(f, Expanded[s], r))
    <3>1. Expanded[s] \in Seq(Nodes) /\ Covers(OfStack(f, Once(s), r), OfStack(f, Expanded[s], r))
      BY <2>1 DEF Kept
    <3>2. /\ OfStack(f, s, r) \in Progress /\ OfStack(f, Once(s), r) \in Progress
          /\ OfStack(f, Expanded[s], r) \in Progress
      BY <2>1, <3>1, OfStackOK
    <3> QED BY <2>7, <3>1, <3>2, CoversOver
  <2> QED BY <2>1, <2>8 DEF Kept
<1>3. \A s \in Seq(Nodes) : s \in S
  <2>1. Walkable(S)
    BY <1>1, <1>2 DEF Walkable
  <2> HIDE DEF S
  <2> QED BY <2>1, StackInduction
<1> QED BY <1>3

-----------------------------------------------------------------------------
(* The walk.                                                               *)

\* The sequences that go on from s.
Longer(s, V) == {t \in Seq(V) : Len(s) <= Len(t) /\ \A i \in 1 .. Len(s) : t[i] = s[i]}

Leaves == Seq([kind : LeafKinds, text : Texts])
AllEncode(lv) == \A i \in DOMAIN lv : lv[i].text \in Encodes[lv[i].kind]

\* What has been built of the leaves and counts submitted so far, of leaves only.
Reach(lv, cs) == [ok |-> AllEncode(lv), kinds |-> KindsOf(lv), lists |-> Len(cs), nodes |-> 0]

\* However the submitting goes on, the value of the whole type is what was built,
\* and what is built then of the types on the stack ...
Fits(root, s, lv, cs) ==
    \A T \in Longer(TextsOf(lv), Texts), C \in Longer(cs, Nat) :
        Covers(Builder(T, C)[root][Nothing], OfStack(Builder(T, C), s, Reach(lv, cs)))

\* ... or it has more nodes than there is room for.
Exceeds(root, lv, cs) ==
    \A T \in Longer(TextsOf(lv), Texts), C \in Longer(cs, Nat) :
        Builder(T, C)[root][Nothing].ok => Builder(T, C)[root][Nothing].nodes > MaxNodes

\* The walk starts from no progress.
LEMMA NothingOK == Nothing \in Progress /\ Reach(<<>>, <<>>) = Nothing
<1>1. Nothing \in Progress
  BY DEF Nothing, Progress
<1>2. AllEncode(<<>>) = TRUE /\ KindsOf(<<>>) = <<>> /\ Len(<<>>) = 0
  BY DEF AllEncode, KindsOf
<1> QED BY <1>1, <1>2 DEF Nothing, Reach

\* What is built of any texts and items.
LEMMA BuildingOK ==
    ASSUME NEW T, NEW C \in Seq(Nat)
    PROVE  /\ Builder(T, C) \in Builds /\ \A n \in Nodes : Makes(Builder(T, C), n, T, C)
           /\ \A n \in Nodes : Steady(Builder(T, C)[n])
           /\ \A n \in Nodes : Builder(T, C)[n][Nothing] \in Progress
<1>1. Builder(T, C) \in Builds /\ \A n \in Nodes : Makes(Builder(T, C), n, T, C)
  BY BuilderOK
<1>2. \A n \in Nodes : Steady(Builder(T, C)[n])
  BY <1>1, BuilderSteady
<1> QED BY <1>1, <1>2, NothingOK DEF Builds

\* What was submitted is a progress, of as many leaves and counts.
LEMMA ReachOK ==
    ASSUME NEW lv \in Leaves, NEW cs \in Seq(Nat)
    PROVE  /\ Reach(lv, cs) \in Progress /\ Reach(lv, cs).ok = AllEncode(lv)
           /\ Reach(lv, cs).kinds = KindsOf(lv) /\ Reach(lv, cs).lists = Len(cs)
           /\ Reach(lv, cs).nodes = 0 /\ Len(KindsOf(lv)) = Len(lv)
           /\ TextsOf(lv) \in Seq(Texts) /\ Len(TextsOf(lv)) = Len(lv)
<1>1. /\ DOMAIN lv = 1 .. Len(lv) /\ Len(lv) \in Nat
      /\ \A i \in 1 .. Len(lv) : lv[i] \in [kind : LeafKinds, text : Texts]
  <2> DEFINE E == [kind : LeafKinds, text : Texts]
  <2>1. lv \in Seq(E)
    BY DEF Leaves
  <2> HIDE DEF E
  <2>2. DOMAIN lv = 1 .. Len(lv) /\ Len(lv) \in Nat /\ \A i \in 1 .. Len(lv) : lv[i] \in E
    BY <2>1, LenProperties, ElementOfSeq
  <2> QED BY <2>2 DEF E
<1>2. KindsOf(lv) = [i \in 1 .. Len(lv) |-> lv[i].kind] /\ TextsOf(lv) = [i \in 1 .. Len(lv) |-> lv[i].text]
  BY <1>1 DEF KindsOf, TextsOf
<1>3. \A i \in 1 .. Len(lv) : lv[i].kind \in LeafKinds /\ lv[i].text \in Texts
  BY <1>1
<1>4. KindsOf(lv) \in Seq(LeafKinds) /\ Len(KindsOf(lv)) = Len(lv)
  BY <1>1, <1>2, <1>3
<1>5. TextsOf(lv) \in Seq(Texts) /\ Len(TextsOf(lv)) = Len(lv)
  BY <1>1, <1>2, <1>3
<1>6. AllEncode(lv) \in BOOLEAN /\ Len(cs) \in Nat
  BY DEF AllEncode
<1>7. ASSUME NEW o \in BOOLEAN, NEW k \in Seq(LeafKinds), NEW l \in Nat
      PROVE  [ok |-> o, kinds |-> k, lists |-> l, nodes |-> 0] \in Progress
  BY DEF Progress
<1> QED BY <1>4, <1>5, <1>6, <1>7 DEF Reach

\* One leaf more.
LEMMA LeafAdded ==
    ASSUME NEW lv \in Leaves, NEW x \in [kind : LeafKinds, text : Texts]
    PROVE  /\ Append(lv, x) \in Leaves
           /\ KindsOf(Append(lv, x)) = Append(KindsOf(lv), x.kind)
           /\ AllEncode(Append(lv, x)) <=> AllEncode(lv) /\ x.text \in Encodes[x.kind]
           /\ \A T \in Longer(TextsOf(Append(lv, x)), Texts) :
                 /\ T \in Longer(TextsOf(lv), Texts) /\ Len(lv) + 1 <= Len(T)
                 /\ T[Len(lv) + 1] = x.text
<1> DEFINE N == Len(lv)
           m == N + 1
           w == Append(lv, x)
<1>1. /\ w \in Leaves /\ N \in Nat /\ DOMAIN lv = 1 .. N /\ DOMAIN w = 1 .. m /\ Len(w) = m /\ w[m] = x
      /\ \A i \in 1 .. N : w[i] = lv[i]
  BY DEF Leaves
<1>2. 1 .. m = 1 .. N \cup {m} /\ m \notin 1 .. N /\ m \in Nat
  BY <1>1
<1> HIDE DEF w, N
<1>3. AllEncode(w) <=> AllEncode(lv) /\ x.text \in Encodes[x.kind]
  <2> HIDE DEF m
  <2> QED BY <1>1, <1>2 DEF AllEncode
<1>4. KindsOf(w) = Append(KindsOf(lv), x.kind)
  <2>1. KindsOf(w) = [i \in 1 .. m |-> w[i].kind] /\ KindsOf(lv) = [i \in 1 .. N |-> lv[i].kind]
    BY <1>1 DEF KindsOf
  <2>2. Append(KindsOf(lv), x.kind) = [i \in 1 .. N + 1 |-> IF i = N + 1 THEN x.kind ELSE lv[i].kind]
    BY <1>1, <2>1
  <2>3. \A i \in 1 .. m : w[i].kind = IF i = m THEN x.kind ELSE lv[i].kind
    <3> HIDE DEF m
    <3> QED BY <1>1, <1>2
  <2> QED BY <2>1, <2>2, <2>3
<1>5. ASSUME NEW T \in Longer(TextsOf(w), Texts)
      PROVE  T \in Longer(TextsOf(lv), Texts) /\ m <= Len(T) /\ T[m] = x.text
  <2> DEFINE a == TextsOf(lv)
             b == TextsOf(w)
  <2>1. /\ Len(a) = N /\ Len(b) = m /\ \A i \in 1 .. N : a[i] = lv[i].text
        /\ \A i \in 1 .. m : b[i] = w[i].text
    <3>1. a = [i \in 1 .. N |-> lv[i].text] /\ b = [i \in 1 .. m |-> w[i].text]
      BY <1>1 DEF TextsOf
    <3> HIDE DEF a, b
    <3> QED BY <1>1, <1>2, <3>1
  <2> HIDE DEF a, b
  <2>2. T \in Seq(Texts) /\ m <= Len(T) /\ \A i \in 1 .. m : T[i] = b[i]
    BY <1>5, <2>1 DEF Longer, b
  <2>3. m \in 1 .. m /\ \A i \in 1 .. N : i \in 1 .. m
    BY <1>1, <1>2
  <2>4. T[m] = x.text
    <3> HIDE DEF m
    <3> QED BY <1>1, <2>1, <2>2, <2>3
  <2>5. \A i \in 1 .. N : T[i] = a[i]
    <3> HIDE DEF m
    <3> QED BY <1>1, <2>1, <2>2, <2>3
  <2>6. N <= Len(T)
    BY <1>1, <2>2
  <2> QED BY <2>1, <2>2, <2>4, <2>5, <2>6 DEF Longer, a
<1> QED BY <1>1, <1>3, <1>4, <1>5 DEF w, N

\* One count more.
LEMMA CountAdded ==
    ASSUME NEW cs \in Seq(Nat), NEW k \in Nat
    PROVE  /\ Append(cs, k) \in Seq(Nat) /\ Len(Append(cs, k)) = Len(cs) + 1
           /\ \A C \in Longer(Append(cs, k), Nat) :
                 C \in Longer(cs, Nat) /\ C \in Seq(Nat) /\ Len(cs) + 1 <= Len(C) /\ C[Len(cs) + 1] = k
<1> DEFINE N == Len(cs)
           m == N + 1
           w == Append(cs, k)
<1>1. /\ w \in Seq(Nat) /\ N \in Nat /\ Len(w) = m /\ w[m] = k
      /\ \A i \in 1 .. N : w[i] = cs[i]
  OBVIOUS
<1>2. m \in 1 .. m /\ \A i \in 1 .. N : i \in 1 .. m
  BY <1>1
<1> HIDE DEF w
<1>3. ASSUME NEW C \in Longer(w, Nat)
      PROVE  C \in Longer(cs, Nat) /\ C \in Seq(Nat) /\ m <= Len(C) /\ C[m] = k
  <2>1. C \in Seq(Nat) /\ m <= Len(C) /\ \A i \in 1 .. m : C[i] = w[i]
    BY <1>1 DEF Longer
  <2>2. C[m] = k /\ \A i \in 1 .. N : C[i] = cs[i]
    <3> HIDE DEF m
    <3> QED BY <1>1, <1>2, <2>1
  <2>3. N <= Len(C)
    BY <1>1, <2>1
  <2> QED BY <2>1, <2>2, <2>3 DEF Longer
<1> QED BY <1>1, <1>3 DEF w

\* The top of the stack gives way to t, of which no more is built.
LEMMA TopReplaced ==
    ASSUME NEW f \in Builds, \A i \in Nodes : Steady(f[i]),
           NEW s \in Seq(Nodes), NEW n \in Nodes, NEW t \in Seq(Nodes),
           NEW R \in Progress, NEW Q \in Progress, NEW v \in Progress,
           Covers(v, OfStack(f, s \o <<n>>, R)), Covers(f[n][R], OfStack(f, t, Q))
    PROVE  Covers(v, OfStack(f, s \o t, Q))
<1>1. <<n>> \in Seq(Nodes) /\ s \o t \in Seq(Nodes) /\ s \o <<n>> \in Seq(Nodes)
  BY ConcatProperties
<1>2. /\ OfStack(f, s \o <<n>>, R) = OfStack(f, s, f[n][R]) /\ f[n][R] \in Progress
      /\ OfStack(f, s \o t, Q) = OfStack(f, s, OfStack(f, t, Q)) /\ OfStack(f, t, Q) \in Progress
      /\ OfStack(f, s \o <<n>>, R) \in Progress /\ OfStack(f, s \o t, Q) \in Progress
  <2>1. OfStack(f, <<n>>, R) = f[n][R] /\ f[n][R] \in Progress
    BY OfStackOne
  <2>2. /\ OfStack(f, s \o <<n>>, R) = OfStack(f, s, OfStack(f, <<n>>, R))
        /\ OfStack(f, s \o <<n>>, R) \in Progress
    <3> DEFINE w == <<n>>
    <3>1. w \in Seq(Nodes) /\ s \o w \in Seq(Nodes)
      BY <1>1
    <3> HIDE DEF w
    <3>2. /\ OfStack(f, s \o w, R) = OfStack(f, s, OfStack(f, w, R))
          /\ OfStack(f, s \o w, R) \in Progress
      BY <3>1, OfStackOK
    <3> QED BY <3>2 DEF w
  <2>3. /\ OfStack(f, s \o t, Q) = OfStack(f, s, OfStack(f, t, Q)) /\ OfStack(f, t, Q) \in Progress
        /\ OfStack(f, s \o t, Q) \in Progress
    BY <1>1, OfStackOK
  <2> QED BY <2>1, <2>2, <2>3
<1>3. Reverse(s) \in Seq(Nodes)
  BY ReverseOK
<1>4. SteadyOn(f, Reverse(s))
  BY <1>3, ElementOfSeq DEF SteadyOn
<1>5. Covers(OfStack(f, s, f[n][R]), OfStack(f, s, OfStack(f, t, Q)))
  BY <1>2, <1>3, <1>4, SteadyInTurn DEF OfStack
<1>6. Covers(OfStack(f, s \o <<n>>, R), OfStack(f, s \o t, Q))
  BY <1>2, <1>5
<1> QED BY <1>2, <1>6, CoversOver

\* A walk fits when its type has been pushed ...
LEMMA FitsAtFirst == ASSUME NEW root \in Nodes PROVE Fits(root, <<root>>, <<>>, <<>>)
<1> SUFFICES ASSUME NEW T \in Longer(TextsOf(<<>>), Texts), NEW C \in Longer(<<>>, Nat)
             PROVE  Covers(Builder(T, C)[root][Nothing], OfStack(Builder(T, C), <<root>>, Reach(<<>>, <<>>)))
  BY DEF Fits
<1>1. C \in Seq(Nat)
  BY DEF Longer
<1> DEFINE f == Builder(T, C)
<1>2. f \in Builds /\ f[root][Nothing] \in Progress
  BY <1>1, BuildingOK
<1> HIDE DEF f
<1>3. OfStack(f, <<root>>, Nothing) = f[root][Nothing]
  BY <1>2, NothingOK, OfStackOne
<1>4. Covers(f[root][Nothing], f[root][Nothing])
  BY <1>2, CoversItself
<1> QED BY <1>3, <1>4, NothingOK DEF f

\* ... still fits when the loop of the walker has run ...
LEMMA FitsExpanded ==
    ASSUME NEW root \in Nodes, NEW s \in Seq(Nodes), NEW lv \in Leaves, NEW cs \in Seq(Nat),
           Fits(root, s, lv, cs)
    PROVE  /\ Expanded[s] \in Seq(Nodes) /\ Done(Expanded[s])
           /\ Fits(root, Expanded[s], lv, cs)
<1>1. ASSUME NEW T, NEW C \in Seq(Nat) PROVE Kept(Builder(T, C), s)
  <2>1. Builder(T, C) \in Builds /\ \A n \in Nodes : Makes(Builder(T, C), n, T, C)
    BY BuildingOK
  <2> QED BY <2>1, ExpandedOK
<1>2. Expanded[s] \in Seq(Nodes) /\ Done(Expanded[s])
  <2>1. Kept(Builder(<<>>, cs), s)
    BY <1>1
  <2> QED BY <2>1 DEF Kept
<1>3. ASSUME NEW T \in Longer(TextsOf(lv), Texts), NEW C \in Longer(cs, Nat)
      PROVE  Covers(Builder(T, C)[root][Nothing], OfStack(Builder(T, C), Expanded[s], Reach(lv, cs)))
  <2> DEFINE f == Builder(T, C)
             v == f[root][Nothing]
             R == Reach(lv, cs)
  <2>1. C \in Seq(Nat)
    BY DEF Longer
  <2>2. f \in Builds /\ v \in Progress /\ Kept(f, s) /\ R \in Progress /\ Covers(v, OfStack(f, s, R))
    BY <1>1, <2>1, BuildingOK, ReachOK DEF Fits
  <2> HIDE DEF f, v, R
  <2>3. Covers(OfStack(f, s, R), OfStack(f, Expanded[s], R))
    BY <2>2 DEF Kept
  <2>4. OfStack(f, s, R) \in Progress /\ OfStack(f, Expanded[s], R) \in Progress
    BY <1>2, <2>2, OfStackOK
  <2>5. Covers(v, OfStack(f, Expanded[s], R))
    BY <2>2, <2>3, <2>4, CoversOver
  <2> QED BY <2>5 DEF f, v, R
<1> QED BY <1>2, <1>3 DEF Fits

\* ... when a leaf is submitted, whether its text encodes or not ...
LEMMA FitsLeaf ==
    ASSUME NEW root \in Nodes, NEW s \in Seq(Nodes), NEW lv \in Leaves, NEW cs \in Seq(Nat),
           Fits(root, s, lv, cs), s # <<>>, Kind(Last(s)) \in LeafKinds, NEW text \in Texts
    PROVE  Fits(root, Front(s), Append(lv, [kind |-> Kind(Last(s)), text |-> text]), cs)
<1> DEFINE n == Last(s)
           u == Front(s)
           x == [kind |-> Kind(n), text |-> text]
           lw == Append(lv, x)
<1>1. n \in Nodes /\ u \in Seq(Nodes) /\ s = u \o <<n>>
  BY TopOK
<1>2. x \in [kind : LeafKinds, text : Texts] /\ Kind(n) \in LeafKinds /\ x.kind = Kind(n) /\ x.text = text
  OBVIOUS
<1> HIDE DEF n, u, x
<1>3. /\ lw \in Leaves /\ KindsOf(lw) = Append(KindsOf(lv), Kind(n))
      /\ AllEncode(lw) <=> AllEncode(lv) /\ text \in Encodes[Kind(n)]
      /\ \A T \in Longer(TextsOf(lw), Texts) :
            T \in Longer(TextsOf(lv), Texts) /\ Len(lv) + 1 <= Len(T) /\ T[Len(lv) + 1] = text
  BY <1>2, LeafAdded
<1> HIDE DEF lw
<1>4. ASSUME NEW T \in Longer(TextsOf(lw), Texts), NEW C \in Longer(cs, Nat)
      PROVE  Covers(Builder(T, C)[root][Nothing], OfStack(Builder(T, C), u, Reach(lw, cs)))
  <2> DEFINE f == Builder(T, C)
             v == f[root][Nothing]
             R == Reach(lv, cs)
             Q == Reach(lw, cs)
  <2>1. C \in Seq(Nat) /\ T \in Longer(TextsOf(lv), Texts)
    BY <1>3 DEF Longer
  <2>2. /\ f \in Builds /\ v \in Progress /\ Covers(v, OfStack(f, s, R))
        /\ \A i \in Nodes : Steady(f[i])
        /\ Makes(f, n, T, C)
    BY <1>1, <2>1, BuildingOK DEF Fits
  <2>3. /\ R \in Progress /\ R.ok = AllEncode(lv) /\ R.kinds = KindsOf(lv) /\ R.lists = Len(cs)
        /\ R.nodes = 0 /\ Len(R.kinds) = Len(lv)
    BY ReachOK
  <2>4. /\ Q \in Progress /\ Q.ok = AllEncode(lw) /\ Q.kinds = KindsOf(lw) /\ Q.lists = Len(cs)
        /\ Q.nodes = 0
    BY <1>3, ReachOK
  <2> HIDE DEF f, v, R, Q
  <2>5. f[n][R] = ValueNode(f, n, T, C, R) /\ f[n][R] \in Progress
    BY <1>1, <2>2, <2>3 DEF Makes, Builds
  <2>6. Covers(f[n][R], Q)
    <3>1. CASE ~R.ok
      <4>1. f[n][R] = R
        BY <2>5, <3>1 DEF ValueNode
      <4>2. R.ok = FALSE /\ Q.ok = FALSE
        BY <1>3, <2>3, <2>4, <3>1 DEF Progress
      <4> QED BY <4>1, <4>2 DEF Covers
    <3>2. CASE R.ok /\ text \in Encodes[Kind(n)]
      <4> DEFINE P == [R EXCEPT !.kinds = Append(@, Kind(n))]
      <4>1. Len(R.kinds) + 1 <= Len(T) /\ T[Len(R.kinds) + 1] \in Encodes[Kind(n)]
        BY <1>3, <2>3, <3>2
      <4>2. f[n][R] = OneMore(P)
        BY <1>2, <2>5, <3>2, <4>1 DEF ValueNode
      <4>3. /\ P.ok = R.ok /\ P.kinds = Append(R.kinds, Kind(n)) /\ P.lists = R.lists /\ P.nodes = 0
            /\ P \in Progress
        <5>1. Append(R.kinds, Kind(n)) \in Seq(LeafKinds)
          BY <1>2, <2>3 DEF Progress
        <5> QED BY <2>3, <5>1 DEF Progress
      <4> HIDE DEF P
      <4>4. Q.ok = TRUE /\ R.ok = TRUE
        BY <1>3, <2>3, <2>4, <3>2 DEF Progress
      <4>5. Covers(P, Q)
        BY <1>3, <2>3, <2>4, <4>3, <4>4 DEF Covers
      <4> QED BY <2>4, <4>2, <4>3, <4>5, OneMoreCovers
    <3>3. CASE R.ok /\ text \notin Encodes[Kind(n)]
      <4>1. T[Len(R.kinds) + 1] \notin Encodes[Kind(n)]
        BY <1>3, <2>3, <3>3
      <4>2. f[n][R] = Stuck(R)
        BY <1>2, <2>5, <3>3, <4>1 DEF ValueNode
      <4>3. Stuck(R).ok = FALSE
        BY <2>3 DEF Stuck, Progress
      <4>4. Q.ok = FALSE
        BY <1>3, <2>4, <3>3 DEF Progress
      <4> QED BY <4>2, <4>3, <4>4 DEF Covers
    <3> QED BY <3>1, <3>2, <3>3
  <2>7. OfStack(f, <<>>, Q) = Q /\ <<>> \in Seq(Nodes) /\ u \o <<>> = u
    BY <1>1, <2>2, <2>4, OfStackOne, ConcatEmptySeq
  <2>8. Covers(v, OfStack(f, u \o <<>>, Q))
    <3> DEFINE e == <<>>
    <3>1. Covers(f[n][R], OfStack(f, e, Q)) /\ Covers(v, OfStack(f, u \o <<n>>, R)) /\ e \in Seq(Nodes)
      BY <1>1, <2>2, <2>6, <2>7
    <3> HIDE DEF e
    <3>2. Covers(v, OfStack(f, u \o e, Q))
      BY <1>1, <2>2, <2>3, <2>4, <3>1, TopReplaced
    <3> QED BY <3>2 DEF e
  <2> QED BY <2>7, <2>8 DEF f, v, Q
<1>5. Fits(root, u, lw, cs)
  BY <1>4 DEF Fits
<1> QED BY <1>5 DEF u, lw, x, n

\* What is built of a list whose count is submitted.
LEMMA ListBuilt ==
    ASSUME NEW n \in Nodes, Kind(n) = "list", NEW lv \in Leaves, NEW cs \in Seq(Nat), NEW k \in Nat,
           NEW T \in Longer(TextsOf(lv), Texts), NEW C \in Longer(Append(cs, k), Nat),
           NEW f, f = Builder(T, C), NEW R, R = Reach(lv, cs), NEW Q, Q = Reach(lv, Append(cs, k))
    PROVE  /\ f \in Builds /\ R \in Progress /\ Q \in Progress /\ R.nodes = 0 /\ Q.nodes = 0
           /\ Copies(k, Arg(n, 1)) \in Seq(Nodes) /\ Len(Copies(k, Arg(n, 1))) = k
           /\ InTurn(f, Copies(k, Arg(n, 1)), Q) \in Progress /\ f[n][R] \in Progress
           /\ ~R.ok => f[n][R] = R /\ ~InTurn(f, Copies(k, Arg(n, 1)), Q).ok
           /\ R.ok => f[n][R] = OneMore(InTurn(f, Copies(k, Arg(n, 1)), Q))
<1> DEFINE A == Copies(k, Arg(n, 1))
<1>1. /\ Append(cs, k) \in Seq(Nat) /\ Len(Append(cs, k)) = Len(cs) + 1
      /\ C \in Seq(Nat) /\ Len(cs) + 1 <= Len(C) /\ C[Len(cs) + 1] = k
  BY CountAdded
<1>2. f \in Builds /\ Makes(f, n, T, C) /\ \A i \in Nodes : Steady(f[i])
  BY <1>1, BuildingOK
<1>3. /\ R \in Progress /\ R.ok = AllEncode(lv) /\ R.kinds = KindsOf(lv) /\ R.lists = Len(cs)
      /\ R.nodes = 0
  BY ReachOK
<1>4. /\ Q \in Progress /\ Q.ok = AllEncode(lv) /\ Q.kinds = KindsOf(lv) /\ Q.lists = Len(cs) + 1
      /\ Q.nodes = 0
  BY <1>1, ReachOK
<1>5. Kind(n) \notin LeafKinds
  BY ExplorerAssumption DEF Branches
<1>6. A = Arguments(n, k) /\ A \in Seq(Nodes) /\ Len(A) = k
  <2>1. A = Arguments(n, k) /\ Len(A) = k
    BY DEF Arguments, Copies
  <2> QED BY <1>5, <2>1, ArgumentsAfter
<1> HIDE DEF A
<1>7. SteadyOn(f, A) /\ AgreesOn(f, f, A)
  BY <1>2, <1>6, ElementOfSeq DEF SteadyOn, AgreesOn
<1>8. InTurn(f, A, Q) \in Progress
  BY <1>2, <1>4, <1>6, <1>7, InTurnAgree
<1>9. f[n][R] = ValueNode(f, n, T, C, R) /\ f[n][R] \in Progress
  BY <1>2, <1>3 DEF Makes, Builds
<1>10. ~R.ok => f[n][R] = R /\ ~InTurn(f, A, Q).ok
  <2>1. ASSUME ~R.ok PROVE f[n][R] = R
    BY <1>9, <2>1 DEF ValueNode
  <2>2. ASSUME ~R.ok PROVE ~InTurn(f, A, Q).ok
    <3>1. ~Q.ok
      BY <1>3, <1>4, <2>2
    <3> QED BY <1>2, <1>4, <1>6, <1>7, <3>1, SteadyInTurn
  <2> QED BY <2>1, <2>2
<1>11. R.ok => f[n][R] = OneMore(InTurn(f, A, Q))
  <2> SUFFICES ASSUME R.ok PROVE f[n][R] = OneMore(InTurn(f, A, Q))
    OBVIOUS
  <2>1. [R EXCEPT !.lists = R.lists + 1] = Q
    <3>1. /\ R = [ok |-> R.ok, kinds |-> R.kinds, lists |-> R.lists, nodes |-> R.nodes]
          /\ Q = [ok |-> Q.ok, kinds |-> Q.kinds, lists |-> Q.lists, nodes |-> Q.nodes]
      BY <1>3, <1>4 DEF Progress
    <3>2. ASSUME NEW a, NEW b, NEW c, NEW d, NEW e
          PROVE  [[ok |-> a, kinds |-> b, lists |-> c, nodes |-> d] EXCEPT !.lists = e]
                    = [ok |-> a, kinds |-> b, lists |-> e, nodes |-> d]
      OBVIOUS
    <3>3. R.ok = Q.ok /\ R.kinds = Q.kinds /\ R.nodes = Q.nodes /\ Q.lists = R.lists + 1
      BY <1>3, <1>4
    <3> QED BY <3>1, <3>2, <3>3, Zenon
  <2>2. R.lists + 1 <= Len(C) /\ C[R.lists + 1] = k
    BY <1>1, <1>3
  <2>3. ValueNode(f, n, T, C, R)
           = OneMore(InTurn(f, Arguments(n, C[R.lists + 1]), [R EXCEPT !.lists = R.lists + 1]))
    BY <1>5, <2>2 DEF ValueNode
  <2> QED BY <1>6, <1>9, <2>1, <2>2, <2>3
<1> QED BY <1>2, <1>3, <1>4, <1>6, <1>8, <1>9, <1>10, <1>11 DEF A

\* ... and when a count is, with its copies of the element type pushed.
LEMMA FitsCount ==
    ASSUME NEW root \in Nodes, NEW s \in Seq(Nodes), NEW lv \in Leaves, NEW cs \in Seq(Nat),
           Fits(root, s, lv, cs), s # <<>>, Kind(Last(s)) = "list", NEW k \in Nat
    PROVE  /\ Front(s) \o Copies(k, Arg(Last(s), 1)) \in Seq(Nodes)
           /\ Fits(root, Front(s) \o Copies(k, Arg(Last(s), 1)), lv, Append(cs, k))
<1> DEFINE n == Last(s)
           u == Front(s)
           A == Copies(k, Arg(n, 1))
           ds == Append(cs, k)
<1>1. n \in Nodes /\ u \in Seq(Nodes) /\ s = u \o <<n>> /\ Kind(n) = "list"
  BY TopOK
<1> HIDE DEF n, u
<1>2. A \in Seq(Nodes)
  <2>1. Arg(n, 1) \in n + 1 .. Len(Pool) /\ Nodes = 1 .. Len(Pool) /\ Len(Pool) \in Nat
    BY <1>1, PoolOK
  <2>2. Arg(n, 1) \in Nodes
    BY <1>1, <2>1
  <2> QED BY <2>2 DEF Copies
<1>3. ASSUME NEW T \in Longer(TextsOf(lv), Texts), NEW C \in Longer(ds, Nat)
      PROVE  Covers(Builder(T, C)[root][Nothing], OfStack(Builder(T, C), u \o A, Reach(lv, ds)))
  <2> DEFINE f == Builder(T, C)
             v == f[root][Nothing]
             R == Reach(lv, cs)
             Q == Reach(lv, ds)
             e == InTurn(f, A, Q)
  <2>1. /\ R \in Progress /\ Q \in Progress /\ e \in Progress /\ f[n][R] \in Progress
        /\ ~R.ok => f[n][R] = R /\ ~e.ok
        /\ R.ok => f[n][R] = OneMore(e)
    BY <1>1, ListBuilt
  <2>2. C \in Seq(Nat) /\ C \in Longer(cs, Nat)
    BY CountAdded
  <2>3. /\ f \in Builds /\ v \in Progress /\ Covers(v, OfStack(f, s, R))
        /\ \A i \in Nodes : Steady(f[i])
    BY <2>2, BuildingOK DEF Fits
  <2>4. Arg(n, 1) \in Nodes
    BY <1>1, PoolOK
  <2> HIDE DEF f, v, R, Q
  <2>5. OfStack(f, A, Q) = e
    BY <2>1, <2>3, <2>4, OfStackCopies
  <2> HIDE DEF e, A
  <2>6. Covers(f[n][R], e)
    <3>1. CASE R.ok
      <4>1. Covers(OneMore(e), e)
        BY <2>1, OneMoreCovers, CoversItself
      <4> QED BY <2>1, <3>1, <4>1
    <3>2. CASE ~R.ok
      <4>1. R.ok = FALSE /\ e.ok = FALSE
        BY <2>1, <3>2 DEF Progress
      <4> QED BY <2>1, <3>2, <4>1 DEF Covers
    <3> QED BY <3>1, <3>2
  <2>7. Covers(v, OfStack(f, u \o A, Q))
    BY <1>1, <1>2, <2>1, <2>3, <2>5, <2>6, TopReplaced
  <2> QED BY <2>7 DEF f, v, Q
<1>4. Fits(root, u \o A, lv, ds)
  BY <1>3 DEF Fits
<1>5. u \o A \in Seq(Nodes)
  BY <1>1, <1>2, ConcatProperties
<1> QED BY <1>4, <1>5 DEF u, A, n

\* A count that is refused for want of room on the stack makes the value, if it
\* is built at all, too large.
LEMMA RefusedExceeds ==
    ASSUME NEW root \in Nodes, NEW s \in Seq(Nodes), NEW lv \in Leaves, NEW cs \in Seq(Nat),
           Fits(root, s, lv, cs), s # <<>>, Kind(Last(s)) = "list", NEW k \in Nat,
           Len(s) - 1 + k > MaxWalk
    PROVE  Exceeds(root, lv, Append(cs, k))
<1> DEFINE n == Last(s)
           u == Front(s)
           A == Copies(k, Arg(n, 1))
           ds == Append(cs, k)
<1>1. n \in Nodes /\ u \in Seq(Nodes) /\ s = u \o <<n>> /\ Kind(n) = "list" /\ Len(u) = Len(s) - 1
  BY TopOK
<1> HIDE DEF n, u
<1>2. MaxWalk \in Nat /\ MaxNodes \in Nat /\ MaxNodes <= MaxWalk + 1
  BY ExplorerAssumption
<1>3. ASSUME NEW T \in Longer(TextsOf(lv), Texts), NEW C \in Longer(ds, Nat),
             Builder(T, C)[root][Nothing].ok
      PROVE  Builder(T, C)[root][Nothing].nodes > MaxNodes
  <2> DEFINE f == Builder(T, C)
             v == f[root][Nothing]
             R == Reach(lv, cs)
             Q == Reach(lv, ds)
             e == InTurn(f, A, Q)
             g == f[n][R]
             w == OfStack(f, u, g)
  <2>1. /\ R \in Progress /\ Q \in Progress /\ e \in Progress /\ g \in Progress /\ Q.nodes = 0
        /\ ~R.ok => g = R
        /\ R.ok => g = OneMore(e)
        /\ A \in Seq(Nodes) /\ Len(A) = k
    BY <1>1, ListBuilt
  <2>2. C \in Seq(Nat) /\ C \in Longer(cs, Nat)
    BY CountAdded
  <2>3. /\ f \in Builds /\ v \in Progress /\ Covers(v, OfStack(f, s, R))
        /\ \A i \in Nodes : Steady(f[i])
    BY <2>2, BuildingOK DEF Fits
  <2> HIDE DEF f, v, R, Q, A
  <2>4. OfStack(f, s, R) = w /\ w \in Progress
    <3> DEFINE t == <<n>>
    <3>1. t \in Seq(Nodes) /\ OfStack(f, t, R) = g
      BY <1>1, <2>1, <2>3, OfStackOne
    <3> HIDE DEF t
    <3>2. OfStack(f, u \o t, R) = OfStack(f, u, OfStack(f, t, R)) /\ OfStack(f, u, g) \in Progress
      BY <1>1, <2>1, <2>3, <3>1, OfStackOK
    <3> QED BY <1>1, <3>1, <3>2 DEF t
  <2>5. Reverse(u) \in Seq(Nodes) /\ Len(Reverse(u)) = Len(u)
    <3>1. Reverse(u) \in Seq(Nodes)
      BY <1>1, ReverseOK
    <3>2. Len(Reverse(u)) = Len(u)
      BY <1>1 DEF Reverse
    <3> QED BY <3>1, <3>2
  <2>6. SteadyOn(f, Reverse(u)) /\ SteadyOn(f, A)
    BY <2>1, <2>3, <2>5, ElementOfSeq DEF SteadyOn
  <2>7. w.ok => g.ok /\ w.nodes >= g.nodes + Len(u)
    BY <2>1, <2>3, <2>5, <2>6, SteadyInTurn DEF OfStack
  <2>8. e.ok => e.nodes >= 0 + k
    BY <2>1, <2>3, <2>6, SteadyInTurn
  <2> HIDE DEF e, g, w
  <2>9. v.ok /\ w.ok /\ v.nodes >= w.nodes
    <3>1. v.ok
      BY <1>3 DEF v, f
    <3> QED BY <2>3, <2>4, <3>1 DEF Covers
  <2>10. g.ok /\ w.nodes >= g.nodes + Len(u)
    BY <2>7, <2>9
  <2>11. R.ok
    BY <2>1, <2>10
  <2>12. g.nodes = e.nodes + 1 /\ g.ok = e.ok
    BY <2>1, <2>11, OneMoreCovers, CoversItself
  <2>13. v.nodes \in Nat /\ w.nodes \in Nat /\ g.nodes \in Nat /\ e.nodes \in Nat /\ Len(u) \in Nat
    BY <1>1, <2>1, <2>3, <2>4 DEF Progress
  <2>14. Len(u) + k > MaxWalk
    BY <1>1
  <2>15. e.nodes >= k
    BY <2>8, <2>10, <2>12
  <2>16. v.nodes > MaxNodes
    <3>1. ASSUME NEW a \in Nat, NEW b \in Nat, NEW c \in Nat, NEW d \in Nat, NEW L \in Nat,
                 a >= b, b >= c + L, c = d + 1, d >= k, L + k > MaxWalk
          PROVE  a > MaxNodes
      BY <1>2, <3>1
    <3> DEFINE a == v.nodes
               b == w.nodes
               c == g.nodes
               d == e.nodes
               L == Len(u)
    <3>2. /\ a \in Nat /\ b \in Nat /\ c \in Nat /\ d \in Nat /\ L \in Nat
          /\ a >= b /\ b >= c + L /\ c = d + 1 /\ d >= k /\ L + k > MaxWalk
      BY <2>9, <2>10, <2>12, <2>13, <2>14, <2>15
    <3> HIDE DEF a, b, c, d, L
    <3>3. a > MaxNodes
      BY <3>1, <3>2
    <3> QED BY <3>3 DEF a
  <2> QED BY <2>16 DEF v, f
<1> QED BY <1>3 DEF Exceeds

\* A value that is too large stays so, whatever else is submitted.
LEMMA ExceedsOn ==
    ASSUME NEW root, NEW lv \in Leaves, NEW cs \in Seq(Nat), Exceeds(root, lv, cs),
           NEW x \in [kind : LeafKinds, text : Texts], NEW k \in Nat
    PROVE  Exceeds(root, Append(lv, x), cs) /\ Exceeds(root, lv, Append(cs, k))
<1>1. \A T \in Longer(TextsOf(Append(lv, x)), Texts) : T \in Longer(TextsOf(lv), Texts)
  BY LeafAdded
<1>2. \A C \in Longer(Append(cs, k), Nat) : C \in Longer(cs, Nat)
  BY CountAdded
<1> QED BY <1>1, <1>2 DEF Exceeds

\* What was submitted is among what may come of it.
LEMMA LongerItself ==
    ASSUME NEW lv \in Leaves, NEW cs \in Seq(Nat)
    PROVE  TextsOf(lv) \in Longer(TextsOf(lv), Texts) /\ cs \in Longer(cs, Nat)
<1>1. TextsOf(lv) \in Seq(Texts)
  BY ReachOK
<1>2. ASSUME NEW S, NEW s \in Seq(S) PROVE s \in Longer(s, S)
  <2>1. Len(s) \in Nat
    OBVIOUS
  <2> QED BY <2>1 DEF Longer
<1> QED BY <1>1, <1>2

\* Of what was submitted on a walk that is over, the value is built, if every
\* text encodes, and of nothing but the texts as they were asked for.
LEMMA WalkedBuilds ==
    ASSUME NEW root \in Nodes, NEW lv \in Leaves, NEW cs \in Seq(Nat), Fits(root, <<>>, lv, cs), NEW space
    PROVE  /\ AllEncode(lv) => Built(root, TextsOf(lv), cs, NONE) = KindsOf(lv)
           /\ Built(root, TextsOf(lv), cs, space) # NONE => Built(root, TextsOf(lv), cs, space) = KindsOf(lv)
<1> DEFINE T == TextsOf(lv)
           f == Builder(T, cs)
           all == f[root][Nothing]
           R == Reach(lv, cs)
<1>1. T \in Longer(T, Texts) /\ cs \in Longer(cs, Nat)
  BY LongerItself
<1>2. Covers(all, OfStack(f, <<>>, R))
  BY <1>1 DEF Fits
<1>3. /\ R \in Progress /\ R.ok = AllEncode(lv) /\ R.kinds = KindsOf(lv) /\ R.lists = Len(cs)
      /\ R.nodes = 0 /\ Len(KindsOf(lv)) = Len(lv) /\ Len(T) = Len(lv)
  BY ReachOK
<1>4. f \in Builds /\ all \in Progress
  BY BuildingOK
<1>5. \A room2 : Built(root, T, cs, room2)
                = IF /\ all.ok /\ Len(all.kinds) = Len(T) /\ all.lists = Len(cs)
                     /\ room2 = NONE \/ all.nodes <= room2
                  THEN all.kinds ELSE NONE
  BY DEF Built
<1> HIDE DEF f, R, T, all
<1>6. OfStack(f, <<>>, R) = R
  BY <1>3, <1>4, OfStackOne
<1>7. all.ok = R.ok /\ (all.ok => all.kinds = R.kinds /\ all.lists = R.lists)
  BY <1>2, <1>6 DEF Covers
<1>8. AllEncode(lv) => Built(root, T, cs, NONE) = KindsOf(lv)
  BY <1>3, <1>5, <1>7
<1>9. Built(root, T, cs, space) # NONE => Built(root, T, cs, space) = KindsOf(lv)
  BY <1>3, <1>5, <1>7
<1> QED BY <1>8, <1>9 DEF T

\* And none that is too large.
LEMMA ExceedingFails ==
    ASSUME NEW root \in Nodes, NEW lv \in Leaves, NEW cs \in Seq(Nat), Exceeds(root, lv, cs)
    PROVE  Built(root, TextsOf(lv), cs, MaxNodes) = NONE
<1> DEFINE T == TextsOf(lv)
           all == Builder(T, cs)[root][Nothing]
<1>1. T \in Longer(T, Texts) /\ cs \in Longer(cs, Nat)
  BY LongerItself
<1>2. all.ok => all.nodes > MaxNodes
  BY <1>1 DEF Exceeds
<1>3. MaxNodes \in Nat /\ MaxNodes # NONE
  BY ExplorerAssumption
<1>4. all \in Progress
  BY BuildingOK
<1>5. all.nodes \in Nat
  BY <1>4 DEF Progress
<1>6. Built(root, T, cs, MaxNodes)
         = IF /\ all.ok /\ Len(all.kinds) = Len(T) /\ all.lists = Len(cs)
              /\ MaxNodes = NONE \/ all.nodes <= MaxNodes
           THEN all.kinds ELSE NONE
  BY DEF Built
<1> HIDE DEF all, T
<1>7. ~(all.ok /\ all.nodes <= MaxNodes)
  BY <1>2, <1>3, <1>5
<1> QED BY <1>3, <1>6, <1>7 DEF T

\* The stack and what was submitted together make the value, until a count is
\* refused; nothing is asked for but an empty stack.
WalkOK ==
    /\ walk \in Seq(Nodes)
    /\ open = "explorer" /\ asked # NONE => walk = <<>>
    /\ explorer = "count" =>
          /\ element \in Nodes
          /\ ~crowded /\ walk # <<>> => Kind(Last(walk)) = "list" /\ element = Arg(Last(walk), 1)
    /\ calling \in Nodes =>
          IF crowded THEN Exceeds(calling, leaves, counts) ELSE Fits(calling, walk, leaves, counts)

\* advance_walker.
LEMMA AdvanceWalk ==
    ASSUME NEW stack \in Seq(Nodes), Advance(stack), OnTop("explorer"), UNCHANGED open,
           leaves' \in Leaves, counts' \in Seq(Nat), calling' \in Nodes,
           explorer = "count" => element \in Nodes,
           crowded' => Exceeds(calling', leaves', counts'),
           ~crowded' => Fits(calling', stack, leaves', counts')
    PROVE  WalkOK'
<1> DEFINE s == walk'
<1>1. walk' = Expanded[stack]
  BY DEF Advance
<1>2. walk' \in Seq(Nodes) /\ Done(walk')
  <2>1. Kept(Builder(<<>>, counts'), stack)
    BY BuildingOK, ExpandedOK
  <2> QED BY <1>1, <2>1 DEF Kept
<1>3. ~crowded' => Fits(calling', walk', leaves', counts')
  BY <1>1, FitsExpanded
<1>4. CASE walk' = <<>>
  <2>1. explorer' = explorer /\ element' = element
    BY <1>4 DEF Advance
  <2> QED BY <1>2, <1>3, <1>4, <2>1 DEF WalkOK
<1>5. CASE walk' # <<>>
  <2>1. asked' = asked /\ asked = NONE
    BY <1>5 DEF Advance, popupVars, askVars, OnTop
  <2>2. /\ Kind(Last(walk')) = "list" => explorer' = "count" /\ element' = Arg(Last(walk'), 1)
        /\ Kind(Last(walk')) # "list" => explorer' = "leaf"
    BY <1>5 DEF Advance
  <2>3. Last(walk') \in Nodes
    BY <1>2, <1>5, TopOK
  <2>4. Kind(Last(walk')) = "list" => Arg(Last(walk'), 1) \in Nodes
    <3> DEFINE n == Last(walk')
    <3> HIDE DEF n
    <3>1. n \in Nodes
      BY <2>3 DEF n
    <3>2. Kind(n) = "list" => Arg(n, 1) \in Nodes
      BY <3>1, PoolOK
    <3> QED BY <3>2 DEF n
  <2> QED BY <1>2, <1>3, <1>5, <2>1, <2>2, <2>4 DEF WalkOK
<1> QED BY <1>4, <1>5

\* The steps of the explorer keep the walk.
LEMMA WalkStep == PopupOK /\ ExplorerOK /\ WalkOK /\ ExplorerNext => WalkOK'
<1> SUFFICES ASSUME PopupOK, ExplorerOK, WalkOK, ExplorerNext PROVE WalkOK'
  OBVIOUS
<1>0. /\ leaves \in Leaves /\ counts \in Seq(Nat) /\ NONE \notin Nodes /\ Roots \subseteq Nodes
      /\ MaxItems \in Nat /\ <<>> \in Leaves /\ <<>> \in Seq(Nat) /\ <<>> \in Seq(Nodes)
  <2>1. NONE \notin Nat /\ Roots \subseteq Nodes /\ MaxItems \in Nat
    BY ExplorerAssumption
  <2>2. Nodes \subseteq Nat
    BY PoolOK
  <2>3. leaves \in Leaves /\ counts \in Seq(Nat)
    BY DEF ExplorerOK, Leaves
  <2>4. \A S : <<>> \in Seq(S)
    BY EmptySeq
  <2>5. <<>> \in Leaves
    BY <2>4 DEF Leaves
  <2> QED BY <2>1, <2>2, <2>3, <2>4, <2>5
<1>1. ASSUME NoWalk, explorer' # "count", open' # "explorer" \/ asked' = NONE PROVE WalkOK'
  BY <1>0, <1>1 DEF NoWalk, WalkOK
<1>2. ASSUME UNCHANGED walkVars, open' # "explorer" \/ asked' = NONE \/ UNCHANGED <<open, asked>>,
             explorer' = "count" => explorer = "count"
      PROVE  WalkOK'
  BY <1>2 DEF walkVars, WalkOK
<1>3. CASE OpenExplorer
  BY <1>2, <1>3, NoneAssumption DEF OpenExplorer, Opens, PopupOK, askVars, SigningApps, Apps
<1>4. CASE LeaveExplorer
  BY <1>1, <1>4 DEF LeaveExplorer, OnTop, popupVars, askVars
<1>5. CASE ChooseList
  BY <1>2, <1>5 DEF ChooseList, OnTop, popupVars, askVars
<1>6. CASE BackInExplorer
  <2>1. Below[explorer] \in {"address", "info", "entrypoints"} /\ explorer' = Below[explorer]
    BY <1>6 DEF BackInExplorer, Below
  <2>2. asked' = NONE
    BY <1>6 DEF BackInExplorer, OnTop, popupVars, askVars
  <2>3. NoWalk \/ UNCHANGED walkVars
    BY <1>6 DEF BackInExplorer
  <2> QED BY <1>1, <1>2, <2>1, <2>2, <2>3
<1>7. ASSUME NEW text, NEW entrypoints, Lookup(text, entrypoints) PROVE WalkOK'
  BY <1>2, <1>7 DEF Lookup, OnTop, popupVars, askVars
<1>8. ASSUME NEW root \in Roots, SelectEntrypoint(root) PROVE WalkOK'
  <2>1. /\ OnTop("explorer") /\ Advance(<<root>>) /\ UNCHANGED open /\ explorer = "entrypoints"
        /\ leaves' = <<>> /\ counts' = <<>> /\ crowded' = FALSE /\ calling' = root
    BY <1>8 DEF SelectEntrypoint
  <2>2. root \in Nodes /\ <<root>> \in Seq(Nodes)
    BY <1>0
  <2>3. Fits(calling', <<root>>, leaves', counts')
    BY <2>1, <2>2, FitsAtFirst
  <2> QED BY <1>0, <2>1, <2>2, <2>3, AdvanceWalk
<1>9. ASSUME NEW text \in Texts, SubmitLeaf(text) PROVE WalkOK'
  <2> DEFINE x == [kind |-> Kind(Last(walk)), text |-> text]
  <2>1. /\ OnTop("explorer") /\ Advance(Front(walk)) /\ UNCHANGED open /\ explorer = "leaf"
        /\ walk # <<>> /\ Kind(Last(walk)) \in LeafKinds
        /\ leaves' = Append(leaves, x) /\ UNCHANGED <<calling, counts, crowded>>
    BY <1>9 DEF SubmitLeaf
  <2>2. calling \in Nodes
    BY <1>0, <2>1 DEF ExplorerOK
  <2>3. walk \in Seq(Nodes) /\ Front(walk) \in Seq(Nodes)
    BY <2>1, TopOK DEF WalkOK
  <2>4. x \in [kind : LeafKinds, text : Texts]
    BY <2>1
  <2>5. leaves' \in Leaves
    <3> HIDE DEF x
    <3> QED BY <1>0, <2>1, <2>4, LeafAdded
  <2>6. crowded' => Exceeds(calling', leaves', counts')
    <3> HIDE DEF x
    <3> QED BY <1>0, <2>1, <2>2, <2>4, ExceedsOn, 0 \in Nat DEF WalkOK
  <2>7. ~crowded' => Fits(calling', Front(walk), leaves', counts')
    BY <1>0, <2>1, <2>2, <2>3, FitsLeaf DEF WalkOK
  <2> QED BY <1>0, <2>1, <2>2, <2>3, <2>5, <2>6, <2>7, AdvanceWalk
<1>10. ASSUME NEW text \in CountTexts, SubmitCount(text) PROVE WalkOK'
  <2> DEFINE k == CountOf(text)
             stack == Front(walk) \o Copies(k, element)
  <2>1. /\ OnTop("explorer") /\ Advance(stack) /\ UNCHANGED open /\ explorer = "count"
        /\ walk # <<>> /\ Kind(Last(walk)) = "list" /\ k \in 0 .. MaxItems
        /\ counts' = Append(counts, k) /\ UNCHANGED <<calling, leaves, crowded>>
    BY <1>10 DEF SubmitCount, CountAwaited, Copies
  <2> HIDE DEF k
  <2>2. calling \in Nodes /\ k \in Nat
    BY <1>0, <2>1 DEF ExplorerOK
  <2>3. walk \in Seq(Nodes) /\ Front(walk) \in Seq(Nodes) /\ element \in Nodes
    BY <2>1, TopOK DEF WalkOK
  <2>4. stack \in Seq(Nodes)
    <3>1. Copies(k, element) \in Seq(Nodes)
      BY <2>2, <2>3 DEF Copies
    <3> QED BY <2>3, <3>1, ConcatProperties
  <2>5. counts' \in Seq(Nat)
    BY <1>0, <2>1, <2>2, CountAdded
  <2>6. crowded' => Exceeds(calling', leaves', counts')
    <3> SUFFICES ASSUME crowded PROVE Exceeds(calling', leaves', counts')
      BY <2>1
    <3>1. Exceeds(calling, leaves, counts)
      BY <2>2 DEF WalkOK
    <3>2. Exceeds(calling, leaves, Append(counts, k))
      BY <1>0, <2>2, <3>1, CountAdded DEF Exceeds
    <3> QED BY <2>1, <3>2
  <2>7. ~crowded' => Fits(calling', stack, leaves', counts')
    <3> SUFFICES ASSUME ~crowded PROVE Fits(calling', stack, leaves', counts')
      BY <2>1
    <3>1. element = Arg(Last(walk), 1) /\ Fits(calling, walk, leaves, counts)
      BY <2>1, <2>2 DEF WalkOK
    <3>2. Fits(calling, Front(walk) \o Copies(k, Arg(Last(walk), 1)), leaves, Append(counts, k))
      BY <1>0, <2>1, <2>2, <2>3, <3>1, FitsCount
    <3> QED BY <2>1, <3>1, <3>2
  <2> HIDE DEF stack
  <2> QED BY <1>0, <2>1, <2>2, <2>3, <2>4, <2>5, <2>6, <2>7, AdvanceWalk
<1>11. ASSUME NEW text \in CountTexts, CountRefused(text) PROVE WalkOK'
  <2> DEFINE k == CountOf(text)
  <2>1. /\ OnTop("explorer") /\ UNCHANGED <<open, asked>> /\ explorer = "count" /\ explorer' = "count"
        /\ walk # <<>> /\ Kind(Last(walk)) = "list" /\ k \in 0 .. MaxItems
        /\ counts' = Append(counts, k) /\ UNCHANGED <<calling, leaves, element>>
        /\ walk' = Front(walk) /\ crowded' = TRUE /\ ~(Len(walk) - 1 + k <= MaxWalk)
    BY <1>11 DEF CountRefused, CountAwaited, FitsOnStack, popupVars, askVars
  <2> HIDE DEF k
  <2>2. calling \in Nodes /\ k \in Nat
    BY <1>0, <2>1 DEF ExplorerOK
  <2>3. walk \in Seq(Nodes) /\ Front(walk) \in Seq(Nodes) /\ element \in Nodes
    BY <2>1, TopOK DEF WalkOK
  <2>4. Exceeds(calling, leaves, Append(counts, k))
    <3>1. CASE crowded
      <4>1. Exceeds(calling, leaves, counts)
        BY <2>2, <3>1 DEF WalkOK
      <4> QED BY <1>0, <2>2, <4>1, CountAdded DEF Exceeds
    <3>2. CASE ~crowded
      <4>1. Fits(calling, walk, leaves, counts)
        BY <2>2, <3>2 DEF WalkOK
      <4>2. Len(walk) - 1 + k > MaxWalk
        <5>1. Len(walk) \in Nat /\ MaxWalk \in Nat
          BY <2>3, ExplorerAssumption
        <5> QED BY <2>1, <2>2, <5>1
      <4> QED BY <1>0, <2>1, <2>2, <2>3, <4>1, <4>2, RefusedExceeds
    <3> QED BY <3>1, <3>2
  <2>5. asked' = NONE
    BY <2>1 DEF OnTop
  <2> QED BY <2>1, <2>3, <2>4, <2>5 DEF WalkOK
<1>12. ASSUME NEW outcome, AcceptCall(outcome) PROVE WalkOK'
  BY <1>2, <1>12 DEF AcceptCall, Accept, AcceptIgnored
<1>13. CASE AcceptUnasked \/ RefuseCall
  BY <1>2, <1>13 DEF AcceptUnasked, AcceptIgnored, RefuseCall, Refuse, explorerVars
<1> QED BY <1>3, <1>4, <1>5, <1>6, <1>7, <1>8, <1>9, <1>10, <1>11, <1>12, <1>13 DEF ExplorerNext

\* A step of another app leaves it.
LEMMA WalkFrame ==
    ASSUME NEW apps, "explorer" \notin apps, MovesOnly(apps), UNCHANGED explorerVars, WalkOK
    PROVE  WalkOK'
<1>1. open' = "explorer" /\ asked' # NONE => UNCHANGED <<open, asked>>
  BY NoneAssumption DEF MovesOnly, askVars, Apps, SigningApps
<1> QED BY <1>1 DEF WalkOK, explorerVars, walkVars

\* What is signed for the explorer is a call of which the value was built.
LEMMA ExplorerSigns ==
    ASSUME IInv, WalkOK, SignedAsAsked, ExplorerNext
    PROVE  SignedAsAsked'
<1>1. CASE signed' = signed
  BY <1>1 DEF SignedAsAsked
<1>2. ASSUME NEW outcome \in Outcomes, AcceptCall(outcome), signed' # signed PROVE SignedAsAsked'
  <2> DEFINE op == [app |-> "explorer", to |-> address, entrypoint |-> calling,
                    leaves |-> leaves, counts |-> counts]
  <2>1. /\ open = "explorer" /\ explorer \in {"leaf", "count"} /\ asked # NONE
        /\ Built(calling, TextsOf(leaves), counts, MaxNodes) # NONE /\ signed' = Append(signed, op)
    BY <1>2 DEF AcceptCall, AcceptIgnored, Accept
  <2>2. walk = <<>> /\ calling \in Nodes /\ leaves \in Leaves /\ counts \in Seq(Nat)
    <3>1. Roots \subseteq Nodes
      BY ExplorerAssumption
    <3> QED BY <2>1, <3>1 DEF WalkOK, IInv, ExplorerOK, Leaves
  <2>3. Built(calling, TextsOf(leaves), counts, MaxNodes) = KindsOf(leaves)
    <3>1. CASE crowded
      <4>1. Exceeds(calling, leaves, counts)
        BY <2>2, <3>1 DEF WalkOK
      <4> QED BY <2>1, <2>2, <4>1, ExceedingFails
    <3>2. CASE ~crowded
      <4>1. Fits(calling, <<>>, leaves, counts)
        BY <2>2, <3>2 DEF WalkOK
      <4> QED BY <2>1, <2>2, <4>1, WalkedBuilds
    <3> QED BY <3>1, <3>2
  <2>4. op \in AllOperations
    <3>1. asked = op
      BY <2>1 DEF IInv, ExplorerOK
    <3> QED BY <2>1, <3>1, AskedIsOperation DEF AskedOK
  <2>5. signed \in Seq(AllOperations)
    BY DEF IInv, BeaconOK, BeaconTypeOK
  <2>6. /\ op.app = "explorer" /\ op.entrypoint = calling /\ op.leaves = leaves /\ op.counts = counts
    OBVIOUS
  <2> HIDE DEF op
  <2>7. /\ DOMAIN signed = 1 .. Len(signed) /\ DOMAIN signed' = 1 .. Len(signed) + 1
        /\ Len(signed) \in Nat /\ \A i \in DOMAIN signed : signed'[i] = signed[i]
        /\ signed'[Len(signed) + 1] = op
    BY <2>1, <2>4, <2>5, SignedAppend
  <2>8. \A i \in DOMAIN signed' : i \in DOMAIN signed \/ i = Len(signed) + 1
    BY <2>7
  <2> QED BY <2>3, <2>6, <2>7, <2>8 DEF SignedAsAsked
<1>3. \/ signed' = signed
      \/ \E outcome \in Outcomes : AcceptCall(outcome)
  <2> USE DEF popupVars, askVars
  <2>1. ASSUME NEW stack, Advance(stack) PROVE signed' = signed
    BY <2>1 DEF Advance, Ask
  <2>2. ASSUME NEW t, SelectEntrypoint(t) \/ SubmitLeaf(t) \/ SubmitCount(t) PROVE signed' = signed
    BY <2>1, <2>2 DEF SelectEntrypoint, SubmitLeaf, SubmitCount
  <2>3. ASSUME NEW t, NEW e, Lookup(t, e) \/ CountRefused(t) PROVE signed' = signed
    BY <2>3 DEF Lookup, CountRefused
  <2>4. CASE OpenExplorer \/ LeaveExplorer \/ ChooseList \/ BackInExplorer \/ AcceptUnasked \/ RefuseCall
    BY <2>4 DEF OpenExplorer, LeaveExplorer, ChooseList, BackInExplorer, AcceptUnasked,
                AcceptIgnored, RefuseCall, Refuse
  <2> QED BY <2>2, <2>3, <2>4 DEF ExplorerNext
<1> QED BY <1>1, <1>2, <1>3

\* What another app signs is not the explorer's.
LEMMA OthersSign ==
    ASSUME IInv, PopupStep, NEW apps, MovesOnly(apps), "explorer" \notin apps, SignedAsAsked
    PROVE  SignedAsAsked'
<1>1. CASE signed' = signed
  BY <1>1 DEF SignedAsAsked
<1>2. CASE signed' # signed
  <2>1. asked # NONE /\ signed' = Append(signed, asked) /\ ~UNCHANGED askVars
    BY <1>2 DEF PopupStep, askVars
  <2>2. open \in apps
    BY <2>1 DEF MovesOnly
  <2>3. asked \in AllOperations /\ asked.app # "explorer"
    BY <2>1, <2>2, AskedIsOperation DEF AskedOK
  <2>4. signed \in Seq(AllOperations)
    BY DEF IInv, BeaconOK, BeaconTypeOK
  <2>5. /\ DOMAIN signed = 1 .. Len(signed) /\ DOMAIN signed' = 1 .. Len(signed) + 1
        /\ Len(signed) \in Nat /\ \A i \in DOMAIN signed : signed'[i] = signed[i]
        /\ signed'[Len(signed) + 1] = asked
    BY <2>1, <2>3, <2>4, SignedAppend
  <2>6. \A i \in DOMAIN signed' : i \in DOMAIN signed \/ i = Len(signed) + 1
    BY <2>5
  <2> QED BY <2>3, <2>5, <2>6 DEF SignedAsAsked
<1> QED BY <1>1, <1>2

\* What the walk rests on, beside what the popup connects.
WalkInv == WalkOK /\ SignedAsAsked

\* No walk has begun, and nothing is signed.
LEMMA WalkInit == Init => WalkInv
<1> SUFFICES ASSUME Init PROVE WalkInv
  OBVIOUS
<1>1. NONE \notin Nodes
  BY ExplorerAssumption, PoolOK
<1>2. WalkOK
  BY <1>1 DEF Init, PopupInit, ExplorerInit, WalkOK
<1>3. SignedAsAsked
  BY DEF Init, PopupInit, SignedAsAsked
<1> QED BY <1>2, <1>3 DEF WalkInv

\* The steps of the explorer keep the walk as it should be, and so does every other app.
LEMMA WalkKept == IInv /\ WalkInv /\ [Next]_vars => WalkInv'
<1> SUFFICES ASSUME IInv, WalkInv, [Next]_vars PROVE WalkInv'
  OBVIOUS
<1> USE DEF WalkInv
<1>1. CASE Explorer
  <2>1. ExplorerNext
    BY <1>1 DEF Explorer
  <2> QED BY <2>1, WalkStep, ExplorerSigns DEF IInv
<1>2. CASE Messenger
  <2>1. MessengerNext /\ UNCHANGED explorerVars
    BY <1>2 DEF Messenger
  <2>2. MovesOnly({"messenger"}) /\ PopupStep
    BY <2>1, MessengerMoves, MessengerPopup
  <2> QED BY <2>1, <2>2, WalkFrame, OthersSign
<1>3. CASE Beacon
  <2>1. BeaconNext /\ UNCHANGED explorerVars
    BY <1>3 DEF Beacon
  <2>2. MovesOnly({"beacon", "camera"}) /\ PopupStep
    BY <2>1, BeaconMoves, BeaconPopup
  <2> QED BY <2>1, <2>2, WalkFrame, OthersSign
<1>4. CASE Tool
  <2>1. /\ UNCHANGED explorerVars /\ UNCHANGED askVars
        /\ MovesOnly({"gallery", "discover", "snake", "wifi"})
    BY <1>4, ToolMoves DEF Tool
  <2>2. WalkOK'
    BY <2>1, WalkFrame
  <2> QED BY <2>1, <2>2 DEF askVars, SignedAsAsked
<1>5. CASE UNCHANGED vars
  <2>1. UNCHANGED explorerVars /\ UNCHANGED signed /\ MovesOnly({})
    BY <1>5 DEF vars, popupVars, askVars, MovesOnly
  <2>2. WalkOK'
    BY <2>1, WalkFrame
  <2> QED BY <2>1, <2>2 DEF SignedAsAsked
<1> QED BY <1>1, <1>2, <1>3, <1>4, <1>5 DEF Next

\* For every pool of types, every sequence of texts and counts typed and
\* whatever the other apps do between: when a walk of the explorer is over and
\* every text encodes, tezos_micheline_build_value builds each as the kind
\* tezos_micheline_walker_next asked for it.
THEOREM WalksBuild == Spec => []WalkBuilds
<1>1. IInv /\ WalkInv => WalkBuilds
  <2> SUFFICES ASSUME IInv, WalkInv, open = "explorer", asked # NONE, ~crowded,
                      \A i \in DOMAIN leaves : leaves[i].text \in Encodes[leaves[i].kind]
               PROVE  Built(calling, TextsOf(leaves), counts, NONE) = KindsOf(leaves)
    BY DEF WalkBuilds
  <2>1. Roots \subseteq Nodes
    BY ExplorerAssumption
  <2>2. walk = <<>> /\ calling \in Nodes /\ leaves \in Leaves /\ counts \in Seq(Nat)
    BY <2>1 DEF WalkInv, WalkOK, IInv, ExplorerOK, Leaves
  <2>3. Fits(calling, <<>>, leaves, counts) /\ AllEncode(leaves)
    BY <2>2 DEF WalkInv, WalkOK, AllEncode
  <2> QED BY <2>2, <2>3, WalkedBuilds
<1>2. Init => WalkInv
  BY WalkInit
<1>3. IInv /\ WalkInv /\ [Next]_vars => WalkInv'
  BY WalkKept
<1> QED BY <1>1, <1>2, <1>3, Invariant, PTL DEF Spec

\* For the same: nothing the explorer signs has a leaf of another kind than the
\* one it was asked as, also after a count refused for want of room has left
\* the walker short of an element type.
THEOREM SignsAsAsked == Spec => []SignedAsAsked
<1>1. WalkInv => SignedAsAsked
  BY DEF WalkInv
<1> QED BY <1>1, WalkInit, WalkKept, Invariant, PTL DEF Spec

-----------------------------------------------------------------------------
(* The blocks of a frame.                                                  *)

Pipeline == INSTANCE CameraPipeline

\* Division, from below and from above.
LEMMA Quotient ==
    ASSUME NEW n \in Nat, NEW to \in Nat \ {0}
    PROVE  /\ n \div to \in Nat /\ to * (n \div to) <= n
           /\ \A k \in Nat : to * k <= n => k <= n \div to
<1> DEFINE q == n \div to
<1>1. q \in Nat /\ to * q <= n /\ n < to * q + to
  <2>1. q \in Nat /\ n % to \in 0 .. to - 1 /\ n = to * q + (n % to)
    OBVIOUS
  <2> HIDE DEF q
  <2> QED BY <2>1
<1> HIDE DEF q
<1>2. ASSUME NEW k \in Nat, to * k <= n PROVE k <= q
  <2> SUFFICES ASSUME k > q PROVE FALSE
    BY <1>1
  <2> DEFINE d == k - q - 1
  <2>1. d \in Nat /\ k = q + 1 + d
    BY <1>1
  <2> HIDE DEF d
  <2>2. to * k = to * q + to + to * d /\ to * d \in Nat /\ to * q \in Nat
    BY <1>1, <2>1
  <2> QED BY <1>1, <1>2, <2>2
<1> QED BY <1>1, <1>2 DEF q

\* The first row of a block, for a picture that is not larger than the frame.
LEMMA FirstRows ==
    ASSUME NEW from \in Nat, NEW to \in Nat \ {0}, to <= from, NEW d \in 0 .. to - 1
    PROVE  LET first == (d * from) \div to  next == ((d + 1) * from) \div to
           IN  /\ first \in Nat /\ next \in Nat /\ first < next /\ next <= from
               /\ d = 0 => first = 0
               /\ d = to - 1 => next = from
<1> DEFINE a == d * from
           b == (d + 1) * from
           first == a \div to
           next == b \div to
<1>1. a \in Nat /\ b \in Nat /\ b = a + from
  OBVIOUS
<1>2. b <= to * from /\ (d = to - 1 => b = to * from)
  <2> DEFINE r == to - (d + 1)
  <2>1. r \in Nat /\ to = d + 1 + r /\ (d = to - 1 => r = 0)
    OBVIOUS
  <2> HIDE DEF r
  <2>2. to * from = b + r * from /\ r * from \in Nat
    BY <2>1
  <2>3. r = 0 => r * from = 0
    OBVIOUS
  <2> QED BY <1>1, <2>1, <2>2, <2>3
<1>3. d = 0 => a = 0
  OBVIOUS
<1> HIDE DEF a, b
<1>4. /\ first \in Nat /\ to * first <= a /\ next \in Nat /\ to * next <= b
      /\ (\A k \in Nat : to * k <= a => k <= first) /\ \A k \in Nat : to * k <= b => k <= next
  BY <1>1, Quotient
<1> HIDE DEF first, next
<1>5. first < next
  <2>1. to * (first + 1) = to * first + to /\ to * first \in Nat
    BY <1>4
  <2>2. to * (first + 1) <= b /\ first + 1 \in Nat
    BY <1>1, <1>4, <2>1
  <2>3. first + 1 <= next
    BY <1>4, <2>2
  <2> QED BY <1>4, <2>3
<1>6. next <= from
  <2> SUFFICES ASSUME next > from PROVE FALSE
    BY <1>4
  <2> DEFINE e == next - from - 1
  <2>1. e \in Nat /\ next = from + 1 + e
    BY <1>4
  <2> HIDE DEF e
  <2>2. to * next = to * from + to + to * e /\ to * e \in Nat /\ to * from \in Nat
    BY <2>1
  <2> QED BY <1>1, <1>2, <1>4, <2>2
<1>7. ASSUME d = 0 PROVE first = 0
  <2> SUFFICES ASSUME first # 0 PROVE FALSE
    OBVIOUS
  <2> DEFINE e == first - 1
  <2>1. e \in Nat /\ first = 1 + e
    BY <1>4
  <2> HIDE DEF e
  <2>2. to * first = to + to * e /\ to * e \in Nat
    BY <2>1
  <2> QED BY <1>3, <1>4, <1>7, <2>2
<1>8. ASSUME d = to - 1 PROVE next = from
  <2>1. from <= next
    BY <1>2, <1>4, <1>8
  <2> QED BY <1>4, <1>6, <2>1
<1> QED BY <1>4, <1>5, <1>6, <1>7, <1>8 DEF first, next, a, b

\* Every row and column of the frame counts in exactly one row and column of the
\* picture, for every size of the two (tezos_cam_downsample_box).
THEOREM BlocksTile ==
    \A from \in Nat, to \in Nat \ {0} : to <= from =>
        \A at \in 0 .. from - 1 : \E d \in 0 .. to - 1 :
            /\ at \in Pipeline!BlockOf(d, from, to)
            /\ \A e \in 0 .. to - 1 : at \in Pipeline!BlockOf(e, from, to) => e = d
<1> SUFFICES ASSUME NEW from \in Nat, NEW to \in Nat \ {0}, to <= from, NEW at \in 0 .. from - 1
             PROVE  \E d \in 0 .. to - 1 :
                       /\ at \in Pipeline!BlockOf(d, from, to)
                       /\ \A e \in 0 .. to - 1 : at \in Pipeline!BlockOf(e, from, to) => e = d
  OBVIOUS
<1> DEFINE F(d) == (d * from) \div to
<1>1. ASSUME NEW d \in 0 .. to - 1
      PROVE  /\ Pipeline!BlockOf(d, from, to) = F(d) .. F(d + 1) - 1
             /\ F(d) \in Nat /\ F(d + 1) \in Nat /\ F(d) < F(d + 1) /\ F(d + 1) <= from
             /\ (d = 0 => F(d) = 0) /\ (d = to - 1 => F(d + 1) = from)
  <2> DEFINE first == F(d)
             next == F(d + 1)
  <2>1. /\ first \in Nat /\ next \in Nat /\ first < next /\ next <= from
        /\ (d = 0 => first = 0) /\ (d = to - 1 => next = from)
    BY FirstRows
  <2>2. Pipeline!BlockOf(d, from, to)
           = first .. Pipeline!Least(IF next <= first THEN first + 1 ELSE next, from) - 1
    BY DEF Pipeline!BlockOf
  <2> HIDE DEF first, next
  <2>3. Pipeline!Least(IF next <= first THEN first + 1 ELSE next, from) = next
    BY <2>1 DEF Pipeline!Least
  <2> QED BY <2>1, <2>2, <2>3 DEF first, next
<1>2. ASSUME NEW x \in Nat, NEW y \in Nat, x <= y PROVE F(x) \in Nat /\ F(y) \in Nat /\ F(x) <= F(y)
  <2> DEFINE a == x * from
             b == y * from
             d == y - x
  <2>1. d \in Nat /\ y = x + d
    BY <1>2
  <2> HIDE DEF d
  <2>2. a \in Nat /\ b \in Nat /\ d * from \in Nat /\ b = a + d * from
    BY <2>1
  <2> HIDE DEF a, b
  <2>3. a \div to \in Nat /\ b \div to \in Nat /\ to * (a \div to) <= a
        /\ \A k \in Nat : to * k <= b => k <= b \div to
    BY <2>2, Quotient
  <2> DEFINE q == a \div to
  <2>4. q \in Nat /\ to * q <= a /\ to * q \in Nat
    BY <2>3
  <2> HIDE DEF q
  <2>5. to * q <= b
    BY <2>2, <2>4
  <2>6. q <= b \div to
    BY <2>3, <2>4, <2>5
  <2> QED BY <2>3, <2>6 DEF a, b, q
<1> HIDE DEF F
<1> DEFINE S == {d \in Nat : d <= to - 1 /\ at < F(d + 1)}
<1>3. S \in SUBSET Nat /\ S # {}
  <2> DEFINE d == to - 1
  <2>1. d \in 0 .. to - 1 /\ d \in Nat /\ d = to - 1
    OBVIOUS
  <2> HIDE DEF d
  <2>2. F(d + 1) = from
    BY <1>1, <2>1
  <2> HIDE DEF F
  <2>3. d \in S
    BY <2>1, <2>2
  <2> QED BY <2>3
<1>4. PICK d \in S : \A e \in S : d <= e
  BY <1>3, LeastOfSet
<1>5. d \in 0 .. to - 1 /\ d \in Nat /\ at < F(d + 1)
  BY <1>4
<1>6. F(d) <= at
  <2>1. CASE d = 0
    BY <1>1, <1>5, <2>1
  <2>2. CASE d # 0
    <3> DEFINE e == d - 1
    <3>1. e \in Nat /\ e < d /\ e + 1 = d /\ e <= to - 1
      BY <1>5, <2>2
    <3> HIDE DEF e
    <3>2. e \notin S
      BY <1>4, <1>5, <3>1
    <3>3. ~(at < F(d))
      BY <3>1, <3>2
    <3> QED BY <1>1, <1>5, <3>3
  <2> QED BY <2>1, <2>2
<1>7. at \in Pipeline!BlockOf(d, from, to)
  BY <1>1, <1>5, <1>6
<1>8. ASSUME NEW e \in 0 .. to - 1, at \in Pipeline!BlockOf(e, from, to) PROVE e = d
  <2>1. F(e) <= at /\ at < F(e + 1) /\ e \in Nat
    <3>1. at \in F(e) .. F(e + 1) - 1 /\ F(e) \in Nat /\ F(e + 1) \in Nat
      BY <1>1, <1>8
    <3> QED BY <3>1
  <2>2. e \in S /\ d <= e
    BY <1>4, <2>1
  <2>3. ASSUME d < e PROVE FALSE
    <3> DEFINE n == d + 1
    <3>1. n \in Nat /\ n <= e /\ at < F(n)
      BY <1>5, <2>1, <2>3
    <3> HIDE DEF n
    <3>2. F(n) \in Nat /\ F(e) \in Nat /\ F(n) <= F(e)
      BY <1>2, <2>1, <3>1
    <3> QED BY <2>1, <3>1, <3>2
  <2> QED BY <1>5, <2>1, <2>2, <2>3
<1> QED BY <1>5, <1>7, <1>8
=============================================================================
