---------------------------- MODULE DeviceProofs ----------------------------
(***************************************************************************)
(* Proofs about the shell of the program.  TezosCore, for every navigation *)
(* graph, stack depth, pool of stubs and list of apps: types and the bound *)
(* of the stack, the home screen at the bottom, and the panel showing what *)
(* the keys go to.  AppScreens: the program's own graph fits on its stack. *)
(* ListView, for every height and length of a list.                        *)
(***************************************************************************)
EXTENDS AppScreens, Panel, ListView, TLAPS, SequenceTheorems,
        WellFoundedInduction

IInv == TypeOK /\ HomeAtBottom /\ ShownUnlessQuiet

\* The invariant of the stack alone.
StackOK(st) ==
    /\ st \in Seq(Screens) /\ Len(st) \in 1 .. MaxDepth
    /\ st[1] \in {Splash, Idle}
    /\ st[1] = Splash => Len(st) = 1
    /\ \A i \in 2 .. Len(st) : st[i] \in Pushable

\* tezos_core_push keeps the stack well formed, full or not.
LEMMA PushedOK ==
    ASSUME StackOK(stack), stack[1] = Idle, NEW s \in Pushable
    PROVE  StackOK(Pushed(s)) /\ Pushed(s)[1] = Idle
<1>1. CASE PushRefused
  BY <1>1 DEF Pushed
<1>2. CASE ~PushRefused
  BY <1>2, CoreAssumption DEF Pushed, PushRefused, StackOK, Pushable
<1> QED BY <1>1, <1>2

\* tezos_core_pop never takes the last screen away.
LEMMA PoppedOK ==
    ASSUME StackOK(stack), stack[1] = Idle
    PROVE  StackOK(Popped(stack)) /\ Popped(stack)[1] = Idle
<1>1. CASE Len(stack) <= 1
  BY <1>1 DEF Popped
<1>2. CASE Len(stack) > 1
  <2> DEFINE st == SubSeq(stack, 1, Len(stack) - 1)
  <2>1. /\ st \in Seq(Screens) /\ Len(st) = Len(stack) - 1
        /\ \A i \in 1 .. Len(stack) - 1 : st[i] = stack[i]
    BY <1>2, SubSeqProperties DEF StackOK
  <2>2. Len(st) \in 1 .. MaxDepth
    BY <1>2, <2>1, CoreAssumption DEF StackOK
  <2>3. /\ st[1] = stack[1]
        /\ \A i \in 2 .. Len(st) : st[i] = stack[i] /\ i \in 2 .. Len(stack)
    BY <1>2, <2>1 DEF StackOK
  <2>4. StackOK(st) /\ st[1] = Idle
    BY <2>1, <2>2, <2>3, CoreAssumption DEF StackOK
  <2> QED BY <1>2, <2>4 DEF Popped
<1> QED BY <1>1, <1>2 DEF StackOK

\* tezos_core_replace changes the top only.
LEMMA ReplacedOK ==
    ASSUME StackOK(stack), NEW s \in Screens,
           \/ Len(stack) = 1 /\ s = Idle
           \/ Len(stack) > 1 /\ s \in Pushable
    PROVE  /\ StackOK(Replaced(s))
           /\ Replaced(s)[1] = IF Len(stack) = 1 THEN Idle ELSE stack[1]
<1>1. /\ Bottom \in Seq(Screens)
      /\ Len(Bottom) = Len(stack) - 1
      /\ \A i \in 1 .. Len(stack) - 1 : Bottom[i] = stack[i]
  BY SubSeqProperties DEF StackOK, Bottom
<1>2. /\ Replaced(s) \in Seq(Screens)
      /\ Len(Replaced(s)) = Len(stack)
      /\ \A i \in 1 .. Len(stack) - 1 : Replaced(s)[i] = stack[i]
      /\ Replaced(s)[Len(stack)] = s
  BY <1>1, AppendProperties DEF Replaced, StackOK
<1>3. Len(Replaced(s)) \in 1 .. MaxDepth
  BY <1>2 DEF StackOK
<1>4. \A i \in 2 .. Len(Replaced(s)) : Replaced(s)[i] \in Pushable
  <2> SUFFICES ASSUME NEW i \in 2 .. Len(stack)
               PROVE  Replaced(s)[i] \in Pushable
    BY <1>2
  <2>1. CASE i = Len(stack)
    BY <2>1, <1>2
  <2>2. CASE i # Len(stack)
    BY <2>2, <1>2 DEF StackOK
  <2> QED BY <2>1, <2>2
<1>5. Replaced(s)[1] = IF Len(stack) = 1 THEN Idle ELSE stack[1]
  BY <1>2 DEF StackOK
<1> QED BY <1>2, <1>3, <1>4, <1>5, CoreAssumption DEF StackOK

\* Whatever a tick did to the stack, its render leaves the top on the panel.
LEMMA Rendered ==
    ASSUME TypeOK, ShownUnlessQuiet, StackOK(stack'),
           NEW redraw \in BOOLEAN, Render(redraw, stack')
    PROVE  /\ ShownUnlessQuiet'
           /\ shown' \in Screens /\ current' \in BOOLEAN /\ needsRender' \in BOOLEAN
<1>1. stack'[Len(stack')] \in Screens
  BY DEF StackOK
<1>2. CASE redraw \/ needsRender \/ stack' # stack
  BY <1>1, <1>2 DEF ShownUnlessQuiet, Render, Top
<1>3. CASE ~(redraw \/ needsRender \/ stack' # stack)
  BY <1>3 DEF ShownUnlessQuiet, Render, Top, TypeOK
<1> QED BY <1>2, <1>3

\* The remainders of the home grid's wrap-around.
LEMMA GridRange ==
    ASSUME NEW sel \in 0 .. AppCount - 1
    PROVE  /\ GridUp(sel) \in 0 .. AppCount - 1
           /\ GridDown(sel) \in 0 .. AppCount - 1
           /\ \A v \in 1 .. 9 : GridNum(sel, v) \in 0 .. AppCount - 1
<1>1. AppCount \in Nat \ {0}
  BY CoreAssumption DEF AppCount
<1>2. \A a \in Nat, n \in Nat \ {0} : a % n \in 0 .. n - 1
  OBVIOUS
<1>3. sel - 1 + AppCount \in Nat /\ sel + 1 \in Nat
  BY <1>1
<1>4. GridUp(sel) \in 0 .. AppCount - 1 /\ GridDown(sel) \in 0 .. AppCount - 1
  BY <1>1, <1>2, <1>3 DEF GridUp, GridDown
<1>5. \A v \in 1 .. 9 : GridNum(sel, v) \in 0 .. AppCount - 1
  BY <1>1 DEF GridNum
<1> QED BY <1>4, <1>5

-----------------------------------------------------------------------------
\* The screens' part: any key keeps the stack, the panel and the grid well
\* formed.
LEMMA KeyStep ==
    ASSUME IInv, Key
    PROVE  IInv'
<1>1. StackOK(stack) /\ ShownUnlessQuiet /\ TypeOK
  BY DEF IInv, StackOK, TypeOK, HomeAtBottom
<1>2. pc' = pc /\ keys' \in 0 .. MaxKeys
  BY <1>1, CoreAssumption DEF Key, TypeOK
<1>3. stack[1] = Splash <=> Top = Splash
  BY <1>1, CoreAssumption DEF StackOK, Top, Pushable
<1>4. Len(stack) = 1 => Top \in {Splash, Idle}
  BY <1>1 DEF StackOK, Top
<1> DEFINE Good == /\ StackOK(stack') /\ ShownUnlessQuiet'
                   /\ shown' \in Screens /\ current' \in BOOLEAN
                   /\ needsRender' \in BOOLEAN
                   /\ elapsed' \in 0 .. SplashTime /\ skip' \in BOOLEAN
                   /\ selected' \in 0 .. AppCount - 1 /\ stubs' \in 0 .. MaxStubs
<1>5. ASSUME NEW s \in Pushable, stack[1] = Idle, OpenScreen(s)
      PROVE  /\ StackOK(stack') /\ stubs' \in 0 .. MaxStubs
             /\ \E redraw \in BOOLEAN : Render(redraw, stack')
  <2>1. StackOK(stack')
    BY <1>1, <1>5, PushedOK DEF OpenScreen
  <2>2. stubs' \in 0 .. MaxStubs
    BY <1>1, <1>5, CoreAssumption DEF OpenScreen, Available, TypeOK
  <2> QED BY <2>1, <2>2, <1>5 DEF OpenScreen
<1>6. ASSUME StackOK(stack'), \E redraw \in BOOLEAN : Render(redraw, stack')
      PROVE  /\ ShownUnlessQuiet' /\ shown' \in Screens
             /\ current' \in BOOLEAN /\ needsRender' \in BOOLEAN
  BY <1>1, <1>6, Rendered
<1>7. CASE SplashKey
  <2>1. StackOK(stack') /\ \E redraw \in BOOLEAN : Render(redraw, stack')
    BY <1>1, <1>7 DEF SplashKey
  <2> QED BY <1>1, <1>2, <1>6, <1>7, <2>1 DEF SplashKey, TypeOK, IInv, HomeAtBottom, StackOK
<1>8. CASE IdleMove
  <2>1. StackOK(stack') /\ \E redraw \in BOOLEAN : Render(redraw, stack')
    BY <1>1, <1>8 DEF IdleMove
  <2>2. selected' \in 0 .. AppCount - 1
    BY <1>1, <1>8, GridRange DEF IdleMove, TypeOK
  <2> QED BY <1>1, <1>2, <1>6, <1>8, <2>1, <2>2
          DEF IdleMove, splashVars, TypeOK, IInv, HomeAtBottom, StackOK
<1>9. CASE IdleSelect
  <2>1. PICK s \in AppEntry[selected + 1] : OpenScreen(s)
    BY <1>9 DEF IdleSelect
  <2>2. s \in Pushable
    BY <1>1, CoreAssumption DEF TypeOK, AppCount
  <2>3. stack[1] = Idle
    BY <1>1, <1>3, <1>9, CoreAssumption DEF IdleSelect, StackOK
  <2> QED BY <1>1, <1>2, <1>5, <1>6, <1>9, <2>1, <2>2, <2>3
          DEF IdleSelect, splashVars, TypeOK, IInv, HomeAtBottom, StackOK
<1>10. CASE KeyIgnored
  <2>1. StackOK(stack') /\ \E redraw \in BOOLEAN : Render(redraw, stack')
    BY <1>1, <1>10 DEF KeyIgnored
  <2> QED BY <1>1, <1>2, <1>6, <1>10, <2>1
          DEF KeyIgnored, splashVars, TypeOK, IInv, HomeAtBottom, StackOK
<1>11. CASE ScreenChanges
  <2>1. StackOK(stack') /\ \E redraw \in BOOLEAN : Render(redraw, stack')
    BY <1>1, <1>11 DEF ScreenChanges
  <2> QED BY <1>1, <1>2, <1>6, <1>11, <2>1
          DEF ScreenChanges, splashVars, TypeOK, IInv, HomeAtBottom, StackOK
<1>16. CASE ScreenChangesQuietly
  <2>1. StackOK(stack') /\ Top' = Top
    BY <1>1, <1>16 DEF ScreenChangesQuietly, Top
  <2>2. CASE needsRender
    <3>1. Render(FALSE, stack')
      BY <1>16, <2>2 DEF ScreenChangesQuietly
    <3> QED BY <1>1, <1>2, <1>6, <1>16, <2>1, <3>1
            DEF ScreenChangesQuietly, splashVars, TypeOK, IInv, HomeAtBottom, StackOK
  <2>3. CASE ~needsRender
    <3>1. current' = FALSE /\ UNCHANGED <<shown, needsRender>> /\ Top \in Silent
      BY <1>16, <2>3 DEF ScreenChangesQuietly
    <3>2. ShownUnlessQuiet'
      BY <1>1, <2>1, <3>1 DEF ShownUnlessQuiet
    <3> QED BY <1>1, <1>2, <1>16, <2>1, <3>1, <3>2
            DEF ScreenChangesQuietly, splashVars, TypeOK, IInv, HomeAtBottom, StackOK
  <2> QED BY <2>2, <2>3
<1>12. Top \in Pushable => stack[1] = Idle /\ Len(stack) > 1
  <2>1. Splash \notin Pushable /\ Idle \notin Pushable
    BY DEF Pushable
  <2>2. stack[1] \in {Splash, Idle} /\ Len(stack) \in Nat \ {0}
    BY <1>1, CoreAssumption DEF StackOK
  <2> SUFFICES ASSUME Top \in Pushable PROVE stack[1] = Idle /\ Len(stack) > 1
    OBVIOUS
  <2>3. Top # Splash /\ Top # Idle
    BY <2>1
  <2>4. stack[1] = Idle
    BY <1>3, <2>2, <2>3
  <2>5. Len(stack) # 1
    BY <1>4, <2>3
  <2>6. \A n \in Nat \ {0} : n # 1 => n > 1
    OBVIOUS
  <2> QED BY <2>2, <2>4, <2>5, <2>6
<1>13. CASE ScreenPushes
  <2>1. PICK s \in Opens[Top] : OpenScreen(s)
    BY <1>13 DEF ScreenPushes
  <2>2. s \in Pushable /\ stack[1] = Idle
    BY <1>12, <1>13, CoreAssumption DEF ScreenPushes
  <2> QED BY <1>1, <1>2, <1>5, <1>6, <1>13, <2>1, <2>2
          DEF ScreenPushes, splashVars, TypeOK, IInv, HomeAtBottom, StackOK
<1>14. CASE ScreenReplaces
  <2>1. PICK s \in Swaps[Top] : stack' = Replaced(s)
    BY <1>14 DEF ScreenReplaces
  <2>2. s \in Pushable /\ s \in Screens /\ Len(stack) > 1
    BY <1>12, <1>14, CoreAssumption DEF ScreenReplaces, Pushable
  <2>3. StackOK(stack')
    BY <1>1, <2>1, <2>2, ReplacedOK
  <2>4. \E redraw \in BOOLEAN : Render(redraw, stack')
    BY <1>14 DEF ScreenReplaces
  <2> QED BY <1>1, <1>2, <1>6, <1>14, <2>3, <2>4
          DEF ScreenReplaces, splashVars, TypeOK, IInv, HomeAtBottom, StackOK
<1>15. CASE ScreenPops
  <2>1. stack[1] = Idle
    BY <1>12, <1>15, CoreAssumption DEF ScreenPops
  <2>2. StackOK(stack') /\ \E redraw \in BOOLEAN : Render(redraw, stack')
    BY <1>1, <1>15, <2>1, PoppedOK DEF ScreenPops
  <2> QED BY <1>1, <1>2, <1>6, <1>15, <2>2
          DEF ScreenPops, splashVars, TypeOK, IInv, HomeAtBottom, StackOK
<1> QED BY <1>7, <1>8, <1>9, <1>10, <1>11, <1>13, <1>14, <1>15, <1>16 DEF Key

\* The loop's part: on_tick and the two places where the splash is left.
LEMMA LoopStep ==
    ASSUME IInv, (\E ms \in {0, 1} : Poll(ms)) \/ Check \/ KeysRead
    PROVE  IInv'
<1>1. StackOK(stack) /\ ShownUnlessQuiet /\ TypeOK
  BY DEF IInv, StackOK, TypeOK, HomeAtBottom
<1>2. ASSUME StackOK(stack'), \E redraw \in BOOLEAN : Render(redraw, stack')
      PROVE  /\ ShownUnlessQuiet' /\ shown' \in Screens
             /\ current' \in BOOLEAN /\ needsRender' \in BOOLEAN
  BY <1>1, <1>2, Rendered
<1>3. ASSUME NEW ms \in {0, 1}, Poll(ms)
      PROVE  IInv'
  <2>1. StackOK(stack') /\ \E redraw \in BOOLEAN : Render(redraw, stack')
    BY <1>1, <1>3 DEF Poll
  <2>2. elapsed' \in 0 .. SplashTime
    <3>1. CASE Top = Splash /\ elapsed < SplashTime
      <4>1. elapsed' = elapsed + ms
        BY <1>3, <3>1 DEF Poll
      <4> QED BY <1>1, <3>1, <4>1, CoreAssumption DEF TypeOK
    <3>2. CASE ~(Top = Splash /\ elapsed < SplashTime)
      BY <1>1, <1>3, <3>2 DEF Poll, TypeOK
    <3> QED BY <3>1, <3>2
  <2> QED BY <1>1, <1>2, <1>3, <2>1, <2>2
          DEF Poll, TypeOK, IInv, HomeAtBottom, StackOK
<1>4. CASE Check /\ SplashFinished
  <2>1. Len(stack) = 1
    BY <1>1, <1>4, CoreAssumption DEF SplashFinished, StackOK, Top, Pushable
  <2>2. StackOK(stack') /\ \E redraw \in BOOLEAN : Render(redraw, stack')
    BY <1>1, <1>4, <2>1, ReplacedOK, CoreAssumption DEF Check, GoHome
  <2> QED BY <1>1, <1>2, <1>4, <2>2
          DEF Check, splashVars, TypeOK, IInv, HomeAtBottom, StackOK
<1>5. CASE Check /\ ~SplashFinished
  BY <1>5 DEF Check, splashVars, TypeOK, IInv, HomeAtBottom, ShownUnlessQuiet, Top
<1>6. CASE KeysRead
  BY <1>6 DEF KeysRead, splashVars, TypeOK, IInv, HomeAtBottom, ShownUnlessQuiet, Top
<1> QED BY <1>3, <1>4, <1>5, <1>6

\* The invariant of the shell holds in every state.
LEMMA Invariance == Spec => []IInv
<1>1. Init => IInv
  <2> SUFFICES ASSUME Init PROVE IInv
    OBVIOUS
  <2>1. stack \in Seq(Screens) /\ Len(stack) = 1 /\ stack[1] = Splash
    BY CoreAssumption DEF Init
  <2>4. AppCount \in Nat \ {0} /\ 0 \in 0 .. AppCount - 1
    BY CoreAssumption DEF AppCount
  <2>5. /\ Splash \in Screens /\ 0 \in 0 .. MaxKeys /\ 0 \in 0 .. SplashTime
        /\ 0 \in 0 .. MaxStubs /\ 1 \in 1 .. MaxDepth
    BY CoreAssumption
  <2>2. TypeOK
    BY <2>1, <2>4, <2>5 DEF Init, TypeOK
  <2>3. HomeAtBottom /\ ShownUnlessQuiet
    BY <2>1 DEF Init, HomeAtBottom, ShownUnlessQuiet, Top
  <2> QED BY <2>2, <2>3 DEF IInv
<1>2. IInv /\ [Next]_vars => IInv'
  <2> SUFFICES ASSUME IInv, [Next]_vars PROVE IInv'
    OBVIOUS
  <2>1. CASE UNCHANGED vars
    BY <2>1 DEF vars, IInv, TypeOK, HomeAtBottom, ShownUnlessQuiet, Top
  <2>2. CASE Next
    BY <2>2, KeyStep, LoopStep DEF Next
  <2> QED BY <2>1, <2>2
<1> QED BY <1>1, <1>2, PTL DEF Spec

\* Types, the bound of the stack and of the stub pool, and a home grid that
\* never indexes a missing app, for any set of screens.
THEOREM TypeCorrect == Spec => []TypeOK
<1>1. IInv => TypeOK
  BY DEF IInv
<1> QED BY <1>1, Invariance, PTL

\* The home screen stays at the bottom whatever the screens push, replace or
\* pop.
THEOREM Home == Spec => []HomeAtBottom
<1>1. IInv => HomeAtBottom
  BY DEF IInv
<1> QED BY <1>1, Invariance, PTL

\* Keys always go to the screen the panel shows, in its latest state unless
\* it is one that changes without a report (tezos_core.c: push, pop, replace
\* and a reported change each end in a render), whichever screens those are.
THEOREM Displayed == Spec => []ShownUnlessQuiet
<1>1. IInv => ShownUnlessQuiet
  BY DEF IInv
<1> QED BY <1>1, Invariance, PTL

-----------------------------------------------------------------------------
(* The program's own screens.                                               *)

\* How far from the home grid a screen is at least; what opens it is nearer,
\* and what it is replaced by is not.
Rank(s) ==
    CASE s \in {"popup_confirm"} -> 4
      [] s \in {"wallet_contact_address", "wallet_send_confirm", "pin_entry", "snake",
                "beacon_wallet", "camera_capture_result"} -> 3
      [] s \in SettingsFields \cup
                {"wallet_contact_name", "wallet_send_amount", "wallet_send_recipient",
                 "settings_lock", "settings_about", "import_recovery", "stub",
                 "camera_scan", "camera_capture_settings"} -> 2
      [] OTHER -> 1

\* A screen opens screens that are further from the home grid.
LEMMA OpensAreFurther ==
    ASSUME NEW s \in AppScreen, NEW t \in AppOpens[s]
    PROVE  t \in AppScreen /\ Rank(t) > Rank(s) /\ Rank(s) \in 1 .. 3 /\ Rank(t) \in 1 .. 4
<1>1. PICK table \in AppTables : s \in DOMAIN table /\ t \in table[s]
  BY DEF AppOpens, Listed
<1>2. t \in AppScreen
  <2>1. t \in UNION {UNION {u[x] : x \in DOMAIN u} : u \in AppTables}
    BY <1>1
  <2> QED BY ONLY <2>1 DEF AppScreen
<1>3. Rank(t) > Rank(s) /\ Rank(s) \in 1 .. 3 /\ Rank(t) \in 1 .. 4
  <2>1. CASE table = WalletOpens
    BY <1>1, <2>1 DEF WalletOpens, Rank, SettingsFields
  <2>2. CASE table = SettingsOpens
    BY <1>1, <2>2 DEF SettingsOpens, Rank, SettingsFields
  <2>3. CASE table = CameraOpens
    BY <1>1, <2>3 DEF CameraOpens, Rank, SettingsFields
  <2>4. CASE table = ConfirmOpens
    BY <1>1, <2>4 DEF ConfirmOpens, ConfirmingApps, Rank, SettingsFields
  <2> QED BY <2>1, <2>2, <2>3, <2>4 DEF AppTables
<1> QED BY <1>2, <1>3

\* A screen is replaced by one that is not nearer.
LEMMA SwapsAreNotNearer ==
    ASSUME NEW s \in AppScreen, NEW t \in AppSwaps[s]
    PROVE  t \in AppScreen /\ Rank(t) >= Rank(s) /\ Rank(s) \in 1 .. 4 /\ Rank(t) \in 1 .. 4
<1>1. s \in DOMAIN WalletSwaps /\ t \in WalletSwaps[s]
  BY DEF AppSwaps
<1>2. t \in AppScreen
  <2>1. t \in UNION {WalletSwaps[x] : x \in DOMAIN WalletSwaps}
    BY <1>1
  <2> QED BY ONLY <2>1 DEF AppScreen
<1>3. Rank(t) >= Rank(s) /\ Rank(s) \in 1 .. 4 /\ Rank(t) \in 1 .. 4
  BY <1>1 DEF WalletSwaps, Rank, SettingsFields
<1> QED BY <1>2, <1>3

\* Above a screen of the program there are only screens of the program, each
\* further from the home grid than the one below, so that a stack of them has
\* no more screens than there are ranks.
StackFits(st) ==
    /\ \A i, j \in 2 .. Len(st) :
          i < j /\ st[i] \in AppScreen => st[j] \in AppScreen /\ Rank(st[i]) < Rank(st[j])
    /\ Len(st) > 1 /\ st[2] \in AppScreen =>
          \A i \in 2 .. Len(st) : Rank(st[i]) >= i - 1

FitInv == IInv /\ StackFits(stack)

\* No screen is further than the confirmation popup.
LEMMA RankRange == \A s : Rank(s) \in 1 .. 4
BY DEF Rank

\* Opening a screen from the home grid, or from a screen that may open it.
LEMMA PushedFits ==
    ASSUME StackOK(stack), StackFits(stack), NEW s \in Pushable,
           \/ Len(stack) = 1
           \/ Top \in Pushable /\ s \in Opens[Top]
    PROVE  StackFits(Pushed(s))
<1> DEFINE n == Len(stack)
           st == Append(stack, s)
<1>0. n \in Nat \ {0} /\ stack \in Seq(Screens) /\ s \in Screens
  BY DEF StackOK, Pushable
<1>1. /\ Len(st) = n + 1 /\ st[n + 1] = s
      /\ \A i \in 1 .. n : st[i] = stack[i]
  BY <1>0, AppendProperties
<1>2. \A i \in 2 .. n + 1 : i \in 2 .. n \/ i = n + 1
  BY <1>0
<1> HIDE DEF n, st
<1>3. ASSUME n = 1
      PROVE  StackFits(st)
  <2>1. \A i \in 2 .. n + 1 : i = 2
    BY <1>3
  <2>2. \A i, j \in 2 .. n + 1 : ~(i < j)
    BY <1>3
  <2>3. \A i \in 2 .. n + 1 : Rank(st[i]) >= i - 1
    BY <2>1, RankRange
  <2> QED BY <1>1, <2>2, <2>3 DEF StackFits
<1>4. ASSUME n > 1
      PROVE  StackFits(st)
  <2>1. Top = stack[n] /\ s \in Opens[Top] /\ n \in 2 .. n
    BY <1>0, <1>4 DEF Top, n
  <2>2. Top \in AppScreen => s \in AppScreen /\ Rank(s) > Rank(Top)
    BY <2>1, AppsAssumption, OpensAreFurther
  <2>3. ASSUME NEW i \in 2 .. n, stack[i] \in AppScreen
        PROVE  s \in AppScreen /\ Rank(stack[i]) < Rank(s)
    <3>1. CASE i = n
      BY <2>1, <2>2, <2>3, <3>1
    <3>2. CASE i < n
      <4>1. Top \in AppScreen /\ Rank(stack[i]) < Rank(Top)
        BY <1>0, <2>1, <2>3, <3>2 DEF StackFits, n
      <4> QED BY <2>2, <4>1, RankRange
    <3> QED BY <1>0, <3>1, <3>2
  <2>4. \A i, j \in 2 .. n + 1 :
           i < j /\ st[i] \in AppScreen => st[j] \in AppScreen /\ Rank(st[i]) < Rank(st[j])
    <3> SUFFICES ASSUME NEW i \in 2 .. n + 1, NEW j \in 2 .. n + 1, i < j, st[i] \in AppScreen
                 PROVE  st[j] \in AppScreen /\ Rank(st[i]) < Rank(st[j])
      OBVIOUS
    <3>1. i \in 2 .. n /\ i \in 1 .. n /\ st[i] = stack[i]
      BY <1>0, <1>1
    <3>2. CASE j = n + 1
      BY <1>1, <2>3, <3>1, <3>2
    <3>3. CASE j \in 2 .. n
      <4>1. st[j] = stack[j]
        BY <1>0, <1>1, <3>3
      <4> QED BY <3>1, <3>3, <4>1 DEF StackFits, n
    <3> QED BY <1>2, <3>2, <3>3
  <2>5. st[2] \in AppScreen => \A i \in 2 .. n + 1 : Rank(st[i]) >= i - 1
    <3> SUFFICES ASSUME st[2] \in AppScreen, NEW i \in 2 .. n + 1
                 PROVE  Rank(st[i]) >= i - 1
      OBVIOUS
    <3>1. st[2] = stack[2] /\ 2 \in 2 .. n
      BY <1>0, <1>1, <1>4
    <3>2. \A k \in 2 .. n : Rank(stack[k]) >= k - 1
      BY <1>4, <3>1 DEF StackFits, n
    <3>3. CASE i \in 2 .. n
      BY <1>0, <1>1, <3>2, <3>3
    <3>4. CASE i = n + 1
      <4>1. Rank(Top) >= n - 1
        BY <2>1, <3>2
      <4>2. Rank(s) > Rank(Top)
        <5>1. CASE n = 2
          BY <2>1, <2>3, <3>1, <5>1
        <5>2. CASE n > 2
          <6>1. Top \in AppScreen
            BY <1>0, <2>1, <3>1, <5>2 DEF StackFits, n
          <6> QED BY <2>2, <6>1
        <5> QED BY <1>0, <1>4, <5>1, <5>2
      <4> QED BY <1>0, <1>1, <3>4, <4>1, <4>2, RankRange
    <3> QED BY <1>2, <3>3, <3>4
  <2> QED BY <1>1, <2>4, <2>5 DEF StackFits
<1>5. StackFits(st)
  BY <1>0, <1>3, <1>4
<1> QED BY <1>5 DEF Pushed, st

\* Replacing the top by a screen that may take its place.
LEMMA ReplacedFits ==
    ASSUME StackOK(stack), StackFits(stack), Len(stack) > 1, Top \in Pushable,
           NEW s \in Swaps[Top]
    PROVE  StackFits(Replaced(s))
<1> DEFINE n == Len(stack)
           st == Replaced(s)
<1>0. n \in Nat \ {0} /\ n > 1 /\ stack \in Seq(Screens) /\ s \in Screens
  BY CoreAssumption DEF StackOK, Pushable
<1>1. /\ Bottom \in Seq(Screens) /\ Len(Bottom) = n - 1
      /\ \A i \in 1 .. n - 1 : Bottom[i] = stack[i]
  BY <1>0, SubSeqProperties DEF Bottom
<1>2. /\ Len(st) = n /\ st[n] = s
      /\ \A i \in 1 .. n - 1 : st[i] = stack[i]
  BY <1>0, <1>1, AppendProperties DEF Replaced
<1>3. Top = stack[n] /\ n \in 2 .. n
  BY <1>0 DEF Top
<1>4. Top \in AppScreen => s \in AppScreen /\ Rank(s) >= Rank(Top)
  BY AppsAssumption, SwapsAreNotNearer
<1>5. \A i \in 2 .. n : i \in 1 .. n - 1 \/ i = n
  BY <1>0
<1> HIDE DEF n, st
<1>6. \A i, j \in 2 .. n :
         i < j /\ st[i] \in AppScreen => st[j] \in AppScreen /\ Rank(st[i]) < Rank(st[j])
  <2> SUFFICES ASSUME NEW i \in 2 .. n, NEW j \in 2 .. n, i < j, st[i] \in AppScreen
               PROVE  st[j] \in AppScreen /\ Rank(st[i]) < Rank(st[j])
    OBVIOUS
  <2>1. i \in 1 .. n - 1 /\ st[i] = stack[i]
    BY <1>0, <1>2
  <2>2. stack[j] \in AppScreen /\ Rank(stack[i]) < Rank(stack[j])
    BY <2>1 DEF StackFits, n
  <2>3. CASE j = n
    BY <1>2, <1>3, <1>4, <2>1, <2>2, <2>3, RankRange
  <2>4. CASE j \in 1 .. n - 1
    BY <1>2, <2>1, <2>2, <2>4
  <2> QED BY <1>5, <2>3, <2>4
<1>7. st[2] \in AppScreen => \A i \in 2 .. n : Rank(st[i]) >= i - 1
  <2> SUFFICES ASSUME st[2] \in AppScreen, NEW i \in 2 .. n
               PROVE  Rank(st[i]) >= i - 1
    OBVIOUS
  <2>1. CASE n = 2
    BY <2>1, RankRange
  <2>2. CASE n > 2
    <3>1. 2 \in 1 .. n - 1 /\ 2 \in 2 .. n /\ 2 < n
      BY <1>0, <2>2
    <3>2. stack[2] \in AppScreen
      BY <1>2, <3>1
    <3>3. \A k \in 2 .. n : Rank(stack[k]) >= k - 1
      BY <1>0, <3>2 DEF StackFits, n
    <3>4. CASE i \in 1 .. n - 1
      BY <1>2, <3>3, <3>4
    <3>5. CASE i = n
      <4>1. Rank(s) >= Rank(Top)
        BY <1>3, <1>4, <3>1, <3>2 DEF StackFits, n
      <4>2. Rank(Top) >= n - 1
        BY <1>3, <3>3
      <4> QED BY <1>0, <1>2, <3>5, <4>1, <4>2, RankRange
    <3> QED BY <1>5, <3>4, <3>5
  <2> QED BY <1>0, <2>1, <2>2
<1> QED BY <1>2, <1>6, <1>7 DEF StackFits, st

\* Leaving a screen.
LEMMA PoppedFits ==
    ASSUME StackOK(stack), StackFits(stack)
    PROVE  StackFits(Popped(stack))
<1>1. CASE Len(stack) <= 1
  BY <1>1 DEF Popped
<1>2. CASE Len(stack) > 1
  <2> DEFINE n == Len(stack)
             st == SubSeq(stack, 1, n - 1)
  <2>0. n \in Nat
    BY DEF StackOK
  <2>1. /\ Len(st) = n - 1
        /\ \A i \in 1 .. n - 1 : st[i] = stack[i]
    BY <1>2, SubSeqProperties DEF StackOK
  <2>2. \A i \in 2 .. n - 1 : st[i] = stack[i] /\ i \in 2 .. n
    BY <2>0, <2>1
  <2>3. st[2] = stack[2] \/ ~(n - 1 > 1)
    BY <2>0, <2>1
  <2>4. StackFits(st)
    <3> HIDE DEF st
    <3> QED BY <1>2, <2>0, <2>1, <2>2, <2>3 DEF StackFits
  <2> QED BY <1>2, <2>4 DEF Popped
<1> QED BY <1>1, <1>2 DEF StackOK

\* Every step of the shell keeps a fitting stack fitting.
LEMMA FitStep ==
    ASSUME FitInv, [Next]_vars
    PROVE  StackFits(stack')
<1>1. StackOK(stack) /\ StackFits(stack) /\ TypeOK
  BY DEF FitInv, IInv, StackOK, TypeOK, HomeAtBottom
<1>2. CASE UNCHANGED stack
  BY <1>1, <1>2
<1>3. stack[1] = Splash <=> Top = Splash
  BY <1>1, CoreAssumption DEF StackOK, Top, Pushable
<1>4. Top = Idle => Len(stack) = 1
  <2>1. Len(stack) \in 2 .. Len(stack) => Top \in Pushable
    BY <1>1 DEF StackOK, Top
  <2>2. \A k \in Nat \ {0} : k = 1 \/ k \in 2 .. k
    OBVIOUS
  <2>3. Len(stack) \in Nat \ {0} /\ Idle \notin Pushable
    BY <1>1, CoreAssumption DEF StackOK, Pushable
  <2> QED BY <2>1, <2>2, <2>3
<1>5. CASE Check /\ SplashFinished
  <2>1. Len(stack) = 1 /\ stack' = Replaced(Idle)
    BY <1>1, <1>3, <1>5 DEF StackOK, Check, GoHome, SplashFinished
  <2>2. Len(stack') = 1
    BY <1>1, <2>1, CoreAssumption, SubSeqProperties, AppendProperties
       DEF StackOK, Replaced, Bottom
  <2>3. \A i \in 2 .. Len(stack') : FALSE
    BY <2>2
  <2> QED BY <2>2, <2>3 DEF StackFits
<1>6. CASE IdleSelect
  <2>1. PICK s \in AppEntry[selected + 1] : OpenScreen(s)
    BY <1>6 DEF IdleSelect
  <2>2. s \in Pushable /\ Len(stack) = 1
    BY <1>1, <1>4, <1>6, CoreAssumption DEF IdleSelect, TypeOK, AppCount
  <2> QED BY <1>1, <2>1, <2>2, PushedFits DEF OpenScreen
<1>7. CASE ScreenPushes
  <2>1. PICK s \in Opens[Top] : OpenScreen(s)
    BY <1>7 DEF ScreenPushes
  <2>2. Top \in Pushable /\ s \in Pushable
    BY <1>7, CoreAssumption DEF ScreenPushes
  <2> QED BY <1>1, <2>1, <2>2, PushedFits DEF OpenScreen
<1>8. CASE ScreenReplaces
  <2>1. PICK s \in Swaps[Top] : stack' = Replaced(s)
    BY <1>8 DEF ScreenReplaces
  <2>2. Top \in Pushable /\ Top # Splash /\ Top # Idle
    BY <1>8 DEF ScreenReplaces, Pushable
  <2>3. Len(stack) # 1
    BY <1>1, <2>2 DEF StackOK, Top
  <2>4. Len(stack) > 1
    <3>1. Len(stack) \in Nat \ {0}
      BY <1>1, CoreAssumption DEF StackOK
    <3>2. \A k \in Nat \ {0} : k # 1 => k > 1
      OBVIOUS
    <3> QED BY <2>3, <3>1, <3>2
  <2> QED BY <1>1, <2>1, <2>2, <2>4, ReplacedFits
<1>9. CASE ScreenPops
  BY <1>1, <1>9, PoppedFits DEF ScreenPops
<1>10. SplashKey \/ IdleMove \/ KeyIgnored \/ ScreenChanges \/ ScreenChangesQuietly \/ KeysRead
          \/ (\E ms \in {0, 1} : Poll(ms)) \/ (Check /\ ~SplashFinished) => UNCHANGED stack
  BY DEF SplashKey, IdleMove, KeyIgnored, ScreenChanges, ScreenChangesQuietly, KeysRead, Poll, Check
<1> QED BY <1>2, <1>5, <1>6, <1>7, <1>8, <1>9, <1>10 DEF Next, Key, vars

\* A stack of the program's own screens holds none of them twice and is never
\* full when its top can still open one.
LEMMA FittingStack ==
    ASSUME FitInv
    PROVE  AppsFitStack
<1> SUFFICES ASSUME AppsOnly
             PROVE  /\ \A i, j \in 1 .. Len(stack) : stack[i] = stack[j] => i = j
                    /\ Top # Splash /\ (Top = Idle \/ Opens[Top] # {}) => ~PushRefused
  BY DEF AppsFitStack
<1> DEFINE n == Len(stack)
<1>0. /\ StackFits(stack) /\ n \in Nat \ {0} /\ MaxDepth \in Nat
      /\ stack[1] \in {Splash, Idle}
      /\ \A i \in 2 .. n : stack[i] \in Pushable /\ stack[i] \in AppScreen
  BY CoreAssumption DEF FitInv, IInv, TypeOK, HomeAtBottom, AppsOnly
<1>1. \A i \in 2 .. n : stack[1] # stack[i]
  BY <1>0 DEF Pushable
<1>2. \A i, j \in 2 .. n : i < j => stack[i] # stack[j]
  <2> SUFFICES ASSUME NEW i \in 2 .. n, NEW j \in 2 .. n, i < j, stack[i] = stack[j]
               PROVE  FALSE
    OBVIOUS
  <2>1. Rank(stack[i]) < Rank(stack[j])
    BY <1>0 DEF StackFits
  <2> QED BY <2>1, RankRange
<1>3. \A i, j \in 1 .. n : stack[i] = stack[j] => i = j
  <2> SUFFICES ASSUME NEW i \in 1 .. n, NEW j \in 1 .. n, stack[i] = stack[j], i # j
               PROVE  FALSE
    OBVIOUS
  <2>1. i < j \/ j < i
    BY <1>0
  <2>2. i = 1 \/ i \in 2 .. n
    BY <1>0
  <2>3. j = 1 \/ j \in 2 .. n
    BY <1>0
  <2> HIDE DEF n
  <2> QED BY <1>1, <1>2, <2>1, <2>2, <2>3
<1>4. ASSUME Top # Splash, Top = Idle \/ Opens[Top] # {}
      PROVE  ~PushRefused
  <2>1. CASE n = 1
    <3>1. MaxDepth >= 5 /\ MaxDepth \in Nat
      BY <1>0, AppsAssumption
    <3> QED BY ONLY <2>1, <3>1 DEF PushRefused
  <2>2. CASE n > 1
    <3>1. n \in 2 .. n /\ 2 \in 2 .. n /\ Top = stack[n]
      BY <1>0, <2>2 DEF Top
    <3>2. Top \in AppScreen /\ Top # Idle
      BY <1>0, <3>1 DEF Pushable
    <3>3. PICK t : t \in AppOpens[Top]
      BY <1>4, <3>2, AppsAssumption
    <3>4. Rank(Top) \in 1 .. 3
      BY <3>2, <3>3, OpensAreFurther
    <3>5. Rank(Top) >= n - 1
      BY <1>0, <2>2, <3>1 DEF StackFits
    <3> QED BY <1>0, <3>4, <3>5, AppsAssumption DEF PushRefused
  <2>3. \A k \in Nat \ {0} : k = 1 \/ k > 1
    OBVIOUS
  <2> QED BY <1>0, <2>1, <2>2, <2>3
<1> QED BY <1>3, <1>4

\* The program's own screens can never fill the stack nor stand on it twice,
\* whatever other screens open them: the depth the code checks for in
\* tezos_core_push is more than its apps can reach.
THEOREM ProgramFitsStack == Spec => []AppsFitStack
<1>1. Init => StackFits(stack)
  <2> SUFFICES ASSUME Init PROVE StackFits(stack)
    OBVIOUS
  <2>1. Len(stack) = 1
    BY DEF Init
  <2>2. \A i \in 2 .. Len(stack) : FALSE
    BY <2>1
  <2> QED BY <2>1, <2>2 DEF StackFits
<1> DEFINE Fits == StackFits(stack)
<1>2. IInv /\ Fits /\ [Next]_vars => Fits'
  BY FitStep DEF FitInv
<1>3. IInv /\ Fits => AppsFitStack
  BY FittingStack DEF FitInv
<1>4. Init => Fits
  BY <1>1
<1> HIDE DEF Fits
<1> QED BY <1>2, <1>3, <1>4, Invariance, PTL DEF Spec

-----------------------------------------------------------------------------
(* The list and the pages.                                                  *)

\* The rows of the place a list is drawn in: never none.
Room == IF height < 1 THEN 1 ELSE height

ListTypes ==
    /\ height \in Nat /\ itemCount \in Nat /\ selectedRow \in Nat
    /\ scrollOffset \in Nat /\ visibleRows \in Nat
    /\ page \in Nat /\ pageCount \in Nat

\* The window starts at or above the selected row and never shows empty rows
\* below the last item when it could show items; it is as tall as its place
\* from the first time it is drawn, and then it reaches the selected row.
ListInv ==
    /\ ListTypes
    /\ selectedRow < itemCount \/ selectedRow = 0
    /\ scrollOffset <= selectedRow
    /\ visibleRows = 0 \/ visibleRows = Room
    /\ scrollOffset = 0 \/ (visibleRows = Room /\ scrollOffset + Room <= itemCount)
    /\ drawn = TRUE => visibleRows = Room /\ selectedRow < scrollOffset + Room
    /\ page < pageCount

\* New items: the list starts over, at a row of them.
LEMMA ListSetOK ==
    ASSUME ListInv, ListSet
    PROVE  ListInv'
<1>0. itemCount' \in Nat /\ scrollOffset' = 0 /\ visibleRows' = 0
  <2>1. itemCount' \in 0 .. MaxRows
    BY DEF ListSet
  <2> QED BY <2>1, ListAssumption DEF ListSet
<1>2. selectedRow' \in Nat /\ (selectedRow' < itemCount' \/ selectedRow' = 0)
  <2> DEFINE rows == 0 .. itemCount' - 1
  <2>1. selectedRow' = 0 \/ selectedRow' \in rows
    <3>1. selectedRow' \in {0} \cup rows
      BY DEF ListSet
    <3> HIDE DEF rows
    <3> QED BY <3>1
  <2>2. CASE selectedRow' = 0
    BY <2>2
  <2>3. CASE selectedRow' \in rows
    <3>1. \A n \in Nat : \A r \in 0 .. n - 1 : r \in Nat /\ r < n
      OBVIOUS
    <3> QED BY ONLY <1>0, <2>3, <3>1
  <2> QED BY <2>1, <2>2, <2>3
<1>1. ListTypes'
  BY <1>0, <1>2 DEF ListInv, ListTypes, ListSet, pageVars
<1>3. scrollOffset' <= selectedRow'
  BY <1>0, <1>2
<1>4. drawn' # TRUE /\ page' < pageCount'
  BY DEF ListInv, ListSet, pageVars
<1> QED BY <1>0, <1>1, <1>2, <1>3, <1>4 DEF ListInv

\* UP takes the window along when the row leaves it.
LEMMA ListUpOK ==
    ASSUME ListInv, ListUp
    PROVE  ListInv'
<1>1. Room \in Nat \ {0} /\ Room' = Room
  BY DEF ListInv, ListTypes, ListUp, Room
<1>2. selectedRow' = selectedRow - 1 /\ selectedRow' \in Nat
  BY DEF ListInv, ListTypes, ListUp
<1>3. /\ UNCHANGED <<height, itemCount, visibleRows, page, pageCount>>
      /\ drawn' = FALSE
  BY DEF ListUp, pageVars
<1>4. CASE selectedRow' < scrollOffset
  <2>1. scrollOffset' = selectedRow'
    BY <1>4 DEF ListUp
  <2>2. scrollOffset # 0
    BY <1>2, <1>4
  <2> HIDE DEF Room
  <2>3. scrollOffset' + Room <= itemCount
    BY <1>1, <1>2, <1>4, <2>1, <2>2 DEF ListInv, ListTypes
  <2> QED BY <1>1, <1>2, <1>3, <2>1, <2>2, <2>3 DEF ListInv, ListTypes
<1>5. CASE ~(selectedRow' < scrollOffset)
  <2>1. scrollOffset' = scrollOffset
    BY <1>5 DEF ListUp
  <2>2. scrollOffset' <= selectedRow'
    BY <1>2, <1>5, <2>1 DEF ListInv, ListTypes
  <2> QED BY <1>1, <1>2, <1>3, <2>1, <2>2 DEF ListInv, ListTypes
<1> QED BY <1>4, <1>5

\* DOWN takes the window along, once its height is known.
LEMMA ListDownOK ==
    ASSUME ListInv, ListDown
    PROVE  ListInv'
<1>1. Room \in Nat \ {0} /\ Room' = Room
  BY DEF ListInv, ListTypes, ListDown, Room
<1>2. selectedRow' = selectedRow + 1 /\ selectedRow' < itemCount /\ selectedRow' \in Nat
  BY DEF ListInv, ListTypes, ListDown
<1>3. /\ UNCHANGED <<height, itemCount, visibleRows, page, pageCount>>
      /\ drawn' = FALSE
  BY DEF ListDown, pageVars
<1>4. CASE visibleRows > 0 /\ selectedRow' >= scrollOffset + visibleRows
  <2>1. scrollOffset' = selectedRow' - visibleRows + 1
    BY <1>4 DEF ListDown
  <2>2. visibleRows = Room
    BY <1>4 DEF ListInv, ListTypes
  <2>3. /\ scrollOffset' \in Nat /\ scrollOffset' <= selectedRow'
        /\ scrollOffset' + Room <= itemCount
    BY <1>1, <1>2, <1>4, <2>1, <2>2 DEF ListInv, ListTypes
  <2> QED BY <1>1, <1>2, <1>3, <2>2, <2>3 DEF ListInv, ListTypes
<1>5. CASE ~(visibleRows > 0 /\ selectedRow' >= scrollOffset + visibleRows)
  <2>1. scrollOffset' = scrollOffset
    BY <1>5 DEF ListDown
  <2>2. scrollOffset' <= selectedRow'
    BY <1>2, <2>1 DEF ListInv, ListTypes
  <2> QED BY <1>1, <1>2, <1>3, <2>1, <2>2 DEF ListInv, ListTypes
<1> QED BY <1>4, <1>5

\* Drawing brings the window to the selected row.
LEMMA ListRenderOK ==
    ASSUME ListInv, ListRender
    PROVE  ListInv'
<1>1. Room \in Nat \ {0} /\ Room' = Room /\ visibleRows' = Room
  BY DEF ListInv, ListTypes, ListRender, Room
<1>2. UNCHANGED <<height, itemCount, selectedRow, page, pageCount>>
  BY DEF ListRender, pageVars
<1>3. CASE selectedRow >= scrollOffset + Room
  <2>1. scrollOffset' = selectedRow - Room + 1
    <3>1. selectedRow >= scrollOffset + visibleRows'
      BY <1>1, <1>3
    <3>2. ~(selectedRow < scrollOffset)
      BY DEF ListInv, ListTypes
    <3>3. scrollOffset' = selectedRow - visibleRows' + 1
      BY <3>1, <3>2 DEF ListRender
    <3> QED BY <1>1, <3>3
  <2>2. selectedRow # 0 /\ selectedRow < itemCount
    BY <1>1, <1>3 DEF ListInv, ListTypes
  <2>3. /\ scrollOffset' \in Nat /\ scrollOffset' <= selectedRow
        /\ scrollOffset' + Room <= itemCount
        /\ selectedRow < scrollOffset' + Room
    BY <1>1, <1>3, <2>1, <2>2 DEF ListInv, ListTypes
  <2> QED BY <1>1, <1>2, <2>3 DEF ListInv, ListTypes
<1>4. CASE ~(selectedRow >= scrollOffset + Room)
  <2>1. scrollOffset' = scrollOffset
    BY <1>1, <1>4 DEF ListRender, ListInv, ListTypes
  <2>2. selectedRow < scrollOffset' + Room
    BY <1>1, <1>4, <2>1 DEF ListInv, ListTypes
  <2> QED BY <1>1, <1>2, <2>1, <2>2 DEF ListInv, ListTypes
<1> QED BY <1>3, <1>4

\* The invariant of the list holds in every state.
LEMMA ListInvariance == ListSpec => []ListInv
<1>1. ListInit => ListInv
  <2> SUFFICES ASSUME ListInit PROVE ListInv
    OBVIOUS
  <2>1. ListTypes /\ page < pageCount
    BY ListAssumption DEF ListInit, ListTypes
  <2> QED BY <2>1 DEF ListInit, ListInv, ListTypes
<1>2. ListInv /\ [ListNext]_listVars => ListInv'
  <2> SUFFICES ASSUME ListInv, [ListNext]_listVars PROVE ListInv'
    OBVIOUS
  <2>1. CASE UNCHANGED listVars
    BY <2>1 DEF listVars, ListInv, ListTypes, Room
  <2>2. CASE ListSet \/ ListUp \/ ListDown \/ ListRender
    BY <2>2, ListSetOK, ListUpOK, ListDownOK, ListRenderOK
  <2>3. CASE PageDown \/ PageUp
    <3>1. UNCHANGED <<height, itemCount, selectedRow, scrollOffset, visibleRows, drawn, pageCount>>
      BY <2>3 DEF PageDown, PageUp
    <3>2. page' \in Nat /\ page' < pageCount
      BY <2>3 DEF PageDown, PageUp, ListInv, ListTypes
    <3> QED BY <3>1, <3>2 DEF ListInv, ListTypes, Room
  <2> QED BY <2>1, <2>2, <2>3 DEF ListNext
<1> QED BY <1>1, <1>2, PTL DEF ListSpec

\* For every height of the screen and length of a list, the row SELECT takes
\* is one of those drawn, and the page shown is one of the pages.
THEOREM ListShowsSelection == ListSpec => []SelectionIsVisible
<1>1. ListInv => SelectionIsVisible
  <2> SUFFICES ASSUME ListInv PROVE SelectionIsVisible
    OBVIOUS
  <2>1. page \in 0 .. pageCount - 1
    BY DEF ListInv, ListTypes
  <2>2. ASSUME drawn, itemCount > 0
        PROVE  /\ selectedRow \in scrollOffset .. scrollOffset + visibleRows - 1
               /\ selectedRow < itemCount
               /\ scrollOffset = 0 \/ scrollOffset + visibleRows <= itemCount
    <3>1. visibleRows = Room /\ selectedRow < scrollOffset + Room
      BY <2>2 DEF ListInv
    <3>2. Room \in Nat
      BY DEF ListInv, ListTypes, Room
    <3> QED BY <2>2, <3>1, <3>2 DEF ListInv, ListTypes
  <2> QED BY <2>1, <2>2 DEF SelectionIsVisible
<1> QED BY <1>1, ListInvariance, PTL

-----------------------------------------------------------------------------
(* The panel.                                                               *)

\* The smaller and the larger of two numbers.
LEMMA MinMaxOfTwo ==
    ASSUME NEW a \in Int, NEW b \in Int
    PROVE  /\ Min({a, b}) = IF a <= b THEN a ELSE b
           /\ Max({a, b}) = IF a <= b THEN b ELSE a
<1>1. CASE a <= b
  <2>1. Min({a, b}) = a
    BY <1>1 DEF Min
  <2>2. Max({a, b}) = b
    BY <1>1 DEF Max
  <2> QED BY <1>1, <2>1, <2>2
<1>2. CASE ~(a <= b)
  <2>1. Min({a, b}) = b
    BY <1>2 DEF Min
  <2>2. Max({a, b}) = a
    BY <1>2 DEF Max
  <2> QED BY <1>2, <2>1, <2>2
<1> QED BY <1>1, <1>2

Smaller == {p \in Nat \X Nat : p[1] < p[2]}

\* A set of numbers has a smallest one.
LEMMA LeastOfSet == ASSUME NEW S \in SUBSET Nat, S # {} PROVE \E n \in S : \A k \in S : n <= k
<1>1. OpToRel(<, Nat) = Smaller
  BY Zenon DEF OpToRel, Smaller
<1>2. IsWellFoundedOn(Smaller, Nat)
  BY <1>1, NatLessThanWellFounded, Zenon
<1>3. PICK n \in S : \A k \in S : <<k, n>> \notin Smaller
  BY <1>2, WFMin
<1>4. ASSUME NEW k \in S PROVE n <= k
  <2>1. <<k, n>> \in Nat \X Nat /\ <<k, n>> \notin Smaller
    BY <1>3
  <2>2. ~(k < n)
    BY <2>1 DEF Smaller
  <2> QED BY <2>2
<1> QED BY <1>4

\* One of finitely many integers is the smallest: were there none among the
\* first k for some k, there would be a first such k.
LEMMA LeastIndex ==
    ASSUME NEW n \in Nat \ {0}, NEW f \in [1 .. n -> Int]
    PROVE  \E i \in 1 .. n : \A j \in 1 .. n : f[i] <= f[j]
<1> DEFINE Least(k, i) == \A j \in 1 .. k : f[i] <= f[j]
           Bad == {k \in 1 .. n : ~ \E i \in 1 .. k : Least(k, i)}
<1>1. CASE Bad = {}
  <2>1. n \in 1 .. n
    OBVIOUS
  <2>2. \E i \in 1 .. n : Least(n, i)
    <3>1. n \notin Bad
      <4> HIDE DEF Bad
      <4> QED BY <1>1
    <3> QED BY <2>1, <3>1
  <2> QED BY <2>2
<1>2. ASSUME Bad # {}
      PROVE  FALSE
  <2>1. Bad \in SUBSET Nat
    OBVIOUS
  <2>2. PICK k \in Bad : \A j \in Bad : k <= j
    <3> HIDE DEF Bad
    <3> QED BY <1>2, <2>1, LeastOfSet
  <2>3. k \in 1 .. n /\ ~ \E i \in 1 .. k : Least(k, i)
    BY <2>2
  <2>4. k # 1
    <3>1. ASSUME k = 1 PROVE FALSE
      <4>1. \A j \in 1 .. 1 : j = 1
        OBVIOUS
      <4>2. f[1] \in Int /\ f[1] <= f[1]
        BY <2>3, <3>1
      <4>3. Least(k, 1) /\ 1 \in 1 .. k
        BY <3>1, <4>1, <4>2
      <4> QED BY <2>3, <4>3
    <3> QED BY <3>1
  <2>5. k - 1 \in 1 .. n /\ ~(k <= k - 1)
    BY <2>3, <2>4
  <2>6. PICK i \in 1 .. k - 1 : Least(k - 1, i)
    <3>1. k - 1 \notin Bad
      <4> HIDE DEF Bad
      <4> QED BY <2>2, <2>5
    <3> QED BY <2>5, <3>1
  <2>7. /\ i \in 1 .. k /\ k \in 1 .. k
        /\ f[i] \in Int /\ f[k] \in Int
        /\ \A j \in 1 .. k : j \in 1 .. k - 1 \/ j = k
        /\ \A j \in 1 .. k : f[j] \in Int
    BY <2>3, <2>5, <2>6
  <2>8. CASE f[i] <= f[k]
    <3>1. Least(k, i)
      BY <2>6, <2>7, <2>8
    <3> QED BY <2>3, <2>7, <3>1
  <2>9. CASE ~(f[i] <= f[k])
    <3>1. ASSUME NEW j \in 1 .. k PROVE f[k] <= f[j]
      <4>1. CASE j = k
        BY <2>7, <4>1
      <4>2. CASE j \in 1 .. k - 1
        <5>1. f[i] <= f[j]
          BY <2>6, <4>2
        <5> QED BY <2>7, <2>9, <5>1
      <4> QED BY <2>7, <4>1, <4>2
    <3>2. Least(k, k)
      BY <3>1
    <3> QED BY <2>3, <2>7, <3>2
  <2> QED BY <2>8, <2>9
<1> QED BY <1>1, <1>2

\* The smallest and the largest of finitely many integers.
LEMMA MinMaxOfMany ==
    ASSUME NEW n \in Nat \ {0}, NEW f \in [1 .. n -> Int],
           NEW S, S = {f[i] : i \in 1 .. n}
    PROVE  /\ Min(S) \in Int /\ Max(S) \in Int
           /\ \A i \in 1 .. n : Min(S) <= f[i] /\ f[i] <= Max(S)
<1>1. PICK i \in 1 .. n : \A j \in 1 .. n : f[i] <= f[j]
  BY LeastIndex
<1>2. Min(S) \in S /\ \A v \in S : Min(S) <= v
  <2>1. f[i] \in S /\ \A v \in S : f[i] <= v
    BY <1>1
  <2> QED BY <2>1 DEF Min
<1> DEFINE g == [j \in 1 .. n |-> -f[j]]
<1>3. g \in [1 .. n -> Int]
  OBVIOUS
<1>4. PICK m \in 1 .. n : \A j \in 1 .. n : g[m] <= g[j]
  <2> HIDE DEF g
  <2> QED BY <1>3, LeastIndex
<1>5. \A j \in 1 .. n : f[m] >= f[j]
  <2> SUFFICES ASSUME NEW j \in 1 .. n PROVE f[m] >= f[j]
    OBVIOUS
  <2>1. -f[m] <= -f[j] /\ f[m] \in Int /\ f[j] \in Int
    BY <1>4
  <2> QED BY <2>1
<1>6. Max(S) \in S /\ \A v \in S : Max(S) >= v
  <2>1. f[m] \in S /\ \A v \in S : f[m] >= v
    BY <1>5
  <2> QED BY <2>1 DEF Max
<1>7. S \subseteq Int /\ \A j \in 1 .. n : f[j] \in S
  OBVIOUS
<1> QED BY <1>2, <1>6, <1>7

\* The near edge of a rectangle, cut at the edge of the frame.
LEMMA CutLow ==
    ASSUME NEW least \in Int, NEW first \in Int, NEW c \in Int,
           least <= first, first <= c, 0 <= c
    PROVE  Max({0, least}) \in Int /\ Max({0, least}) <= c
<1>1. Max({0, least}) = IF 0 <= least THEN least ELSE 0
  BY MinMaxOfTwo
<1> QED BY <1>1

\* The far edge of a rectangle, cut at the edge of the frame.
LEMMA CutHigh ==
    ASSUME NEW most \in Int, NEW last \in Int, NEW size \in Int, NEW c \in Int,
           last <= most, c <= last - 1, c <= size - 1
    PROVE  Min({size, most}) \in Int /\ c <= Min({size, most}) - 1
<1>1. Min({size, most}) = IF size <= most THEN size ELSE most
  BY MinMaxOfTwo
<1> QED BY <1>1

\* What the screens mark are rectangles.
LEMMA DrawingsAreRectangles == ASSUME NEW marks \in Drawings PROVE marks \in Seq(Rectangle)
<1>1. All \in Rectangle /\ \A r \in Rectangles : r \in Rectangle
  BY PanelAssumption DEF All, Rectangle
<1>2. \A r \in Rectangles : <<All, r>> \in Seq(Rectangle) /\ <<r>> \in Seq(Rectangle)
  BY <1>1
<1> QED BY <1>2, PanelAssumption DEF Drawings

\* Without a mark too many, what is drawn lies in the part that is written.
LEMMA MarksInBox ==
    ASSUME NEW marks \in Seq(Rectangle), Around(MarkedAll(marks)) # Whole,
           NEW i \in DOMAIN marks, NEW p \in Clip(marks[i])
    PROVE  LET box == Around(MarkedAll(marks))
           IN  /\ p[1] \in box.x0 .. box.x1 - 1 /\ p[2] \in box.y0 .. box.y1 - 1
               /\ box.x0 \in Int /\ box.x1 \in Int /\ box.y1 \in Int
<1> DEFINE dirty == MarkedAll(marks)
           n == Len(marks)
           left == [j \in 1 .. n |-> marks[j].x]
           top == [j \in 1 .. n |-> marks[j].y]
           right == [j \in 1 .. n |-> marks[j].x + marks[j].w]
           bottom == [j \in 1 .. n |-> marks[j].y + marks[j].h]
           xs == {r.x : r \in dirty.rects}
           ys == {r.y : r \in dirty.rects}
           xe == {r.x + r.w : r \in dirty.rects}
           ye == {r.y + r.h : r \in dirty.rects}
<1>1. /\ n \in Nat \ {0} /\ i \in 1 .. n /\ MaxDirty \in Nat
      /\ \A j \in 1 .. n : marks[j] \in Rectangle
  BY PanelAssumption
<1>2. ~dirty.full
  BY DEF Around
<1>3. dirty.rects = {marks[j] : j \in 1 .. n}
  <2>1. n <= MaxDirty
    <3>1. ~(n > MaxDirty)
      BY <1>2 DEF MarkedAll
    <3> HIDE DEF n
    <3> QED BY <1>1, <3>1
  <2>2. Min({n, MaxDirty}) = n
    <3> HIDE DEF n
    <3> QED BY <1>1, <2>1, MinMaxOfTwo
  <2> QED BY <2>2 DEF MarkedAll
<1>4. dirty.rects # {}
  BY <1>1, <1>3
<1>5. /\ left \in [1 .. n -> Int] /\ top \in [1 .. n -> Int]
      /\ right \in [1 .. n -> Int] /\ bottom \in [1 .. n -> Int]
  <2>1. ASSUME NEW j \in 1 .. n
        PROVE  /\ marks[j].x \in Int /\ marks[j].x + marks[j].w \in Int
               /\ marks[j].y \in Int /\ marks[j].y + marks[j].h \in Int
    <3>1. marks[j] \in Rectangle
      BY <1>1
    <3>2. /\ marks[j].x \in Int /\ marks[j].y \in Int
          /\ marks[j].w \in Nat /\ marks[j].h \in Nat
      BY ONLY <3>1 DEF Rectangle
    <3> QED BY ONLY <3>2
  <2> HIDE DEF n
  <2>2. left \in [1 .. n -> Int] /\ top \in [1 .. n -> Int]
    BY <2>1
  <2>3. right \in [1 .. n -> Int] /\ bottom \in [1 .. n -> Int]
    BY <2>1
  <2> QED BY <2>2, <2>3
<1>6. /\ xs = {left[j] : j \in 1 .. n} /\ ys = {top[j] : j \in 1 .. n}
      /\ xe = {right[j] : j \in 1 .. n} /\ ye = {bottom[j] : j \in 1 .. n}
  <2> HIDE DEF n, dirty
  <2> QED BY <1>3
<1>7. /\ left[i] = marks[i].x /\ right[i] = marks[i].x + marks[i].w
      /\ top[i] = marks[i].y /\ bottom[i] = marks[i].y + marks[i].h
      /\ marks[i].x \in Int /\ marks[i].y \in Int /\ marks[i].w \in Int /\ marks[i].h \in Int
  BY <1>1 DEF Rectangle
<1>8. p[1] \in 0 .. Width - 1 /\ p[2] \in 0 .. Height - 1
  BY DEF Clip, Pixels
<1>9. /\ p[1] \in marks[i].x .. marks[i].x + marks[i].w - 1
      /\ p[2] \in marks[i].y .. marks[i].y + marks[i].h - 1
  BY DEF Clip
<1>10. Around(dirty) = [x0 |-> Max({0, Min(xs)}), y0 |-> Max({0, Min(ys)}),
                        x1 |-> Min({Width, Max(xe)}), y1 |-> Min({Height, Max(ye)})]
  <2> HIDE DEF dirty
  <2> QED BY <1>2, <1>4 DEF Around
<1> HIDE DEF n, left, top, right, bottom, xs, ys, xe, ye
<1>11. /\ Min(xs) \in Int /\ Min(xs) <= left[i]
       /\ Min(ys) \in Int /\ Min(ys) <= top[i]
       /\ Max(xe) \in Int /\ Max(xe) >= right[i]
       /\ Max(ye) \in Int /\ Max(ye) >= bottom[i]
  <2>1. Min(xs) \in Int /\ Min(xs) <= left[i]
    BY <1>1, <1>5, <1>6, MinMaxOfMany
  <2>2. Min(ys) \in Int /\ Min(ys) <= top[i]
    BY <1>1, <1>5, <1>6, MinMaxOfMany
  <2>3. Max(xe) \in Int /\ right[i] <= Max(xe)
    BY <1>1, <1>5, <1>6, MinMaxOfMany
  <2>4. Max(ye) \in Int /\ bottom[i] <= Max(ye)
    BY <1>1, <1>5, <1>6, MinMaxOfMany
  <2>5. right[i] \in Int /\ bottom[i] \in Int
    BY <1>7
  <2> QED BY <2>1, <2>2, <2>3, <2>4, <2>5
<1>14. Width \in Int /\ Height \in Int /\ p[1] \in Int /\ p[2] \in Int
  BY <1>8, PanelAssumption
<1>15. /\ left[i] \in Int /\ left[i] <= p[1] /\ right[i] \in Int /\ p[1] <= right[i] - 1
       /\ top[i] \in Int /\ top[i] <= p[2] /\ bottom[i] \in Int /\ p[2] <= bottom[i] - 1
  <2>1. ASSUME NEW at \in Int, NEW size \in Int, NEW c \in Int, c \in at .. at + size - 1
        PROVE  at <= c /\ at + size \in Int /\ c <= at + size - 1
    BY <2>1
  <2>2. left[i] = marks[i].x /\ marks[i].x \in Int /\ marks[i].w \in Int
        /\ right[i] = marks[i].x + marks[i].w
    BY <1>7
  <2>3. top[i] = marks[i].y /\ marks[i].y \in Int /\ marks[i].h \in Int
        /\ bottom[i] = marks[i].y + marks[i].h
    BY <1>7
  <2>4. left[i] \in Int /\ left[i] <= p[1] /\ right[i] \in Int /\ p[1] <= right[i] - 1
    BY ONLY <1>9, <1>14, <2>1, <2>2
  <2>5. top[i] \in Int /\ top[i] <= p[2] /\ bottom[i] \in Int /\ p[2] <= bottom[i] - 1
    BY ONLY <1>9, <1>14, <2>1, <2>3
  <2> QED BY <2>4, <2>5
<1>16. 0 <= p[1] /\ p[1] <= Width - 1 /\ 0 <= p[2] /\ p[2] <= Height - 1
  BY <1>8, <1>14
<1>17. Max({0, Min(xs)}) \in Int /\ Max({0, Min(xs)}) <= p[1]
  BY <1>11, <1>14, <1>15, <1>16, CutLow
<1>18. Max({0, Min(ys)}) \in Int /\ Max({0, Min(ys)}) <= p[2]
  BY <1>11, <1>14, <1>15, <1>16, CutLow
<1>19. Min({Width, Max(xe)}) \in Int /\ p[1] <= Min({Width, Max(xe)}) - 1
  <2>1. right[i] <= Max(xe)
    BY <1>11, <1>15
  <2> QED BY <1>11, <1>14, <1>15, <1>16, <2>1, CutHigh
<1>20. Min({Height, Max(ye)}) \in Int /\ p[2] <= Min({Height, Max(ye)}) - 1
  <2>1. bottom[i] <= Max(ye)
    BY <1>11, <1>15
  <2> QED BY <1>11, <1>14, <1>15, <1>16, <2>1, CutHigh
<1> DEFINE box == Around(dirty)
<1>21. /\ box.x0 = Max({0, Min(xs)}) /\ box.x1 = Min({Width, Max(xe)})
       /\ box.y0 = Max({0, Min(ys)}) /\ box.y1 = Min({Height, Max(ye)})
  BY <1>10
<1> HIDE DEF box
<1>22. p[1] \in box.x0 .. box.x1 - 1 /\ box.x0 \in Int /\ box.x1 \in Int
  BY <1>14, <1>17, <1>19, <1>21
<1>23. p[2] \in box.y0 .. box.y1 - 1 /\ box.y1 \in Int
  BY <1>14, <1>18, <1>20, <1>21
<1> QED BY <1>22, <1>23 DEF box

\* A row or a column of the frame, enlarged: how often it fits, and that each
\* of its pixels has a place of its own.
LEMMA Enlarged ==
    ASSUME NEW room \in Nat, NEW size \in Nat \ {0}, NEW scale \in Nat \ {0},
           scale <= room \div size
    PROVE  /\ size * scale <= room
           /\ Half(room - size * scale) \in Nat
           /\ Half(room - size * scale) + size * scale <= room
           /\ \A p \in 0 .. size - 1 :
                 /\ p * scale \in 0 .. size * scale - 1
                 /\ (p * scale) \div scale = p
<1>1. room \div size \in Nat /\ size * (room \div size) <= room
  OBVIOUS
<1>2. size * scale <= size * (room \div size)
  <2> DEFINE times == room \div size
  <2>1. times \in Nat /\ scale <= times
    BY <1>1
  <2> HIDE DEF times
  <2> QED BY <2>1
<1>3. size * scale \in Nat /\ size * scale <= room
  <2>1. size * scale \in Nat /\ size * (room \div size) \in Nat
    BY <1>1
  <2> QED BY <1>1, <1>2, <2>1
<1>4. \A n \in Nat : n \div 2 \in Nat /\ n \div 2 <= n
  OBVIOUS
<1>5. /\ Half(room - size * scale) \in Nat
      /\ Half(room - size * scale) + size * scale <= room
  <2> DEFINE n == room - size * scale
  <2>1. n \in Nat /\ n + size * scale = room
    BY <1>3
  <2>2. Half(n) = n \div 2
    BY <2>1 DEF Half
  <2>3. Half(n) \in Nat /\ Half(n) <= n
    BY <1>4, <2>1, <2>2
  <2> HIDE DEF n
  <2>4. Half(n) + size * scale <= room
    BY <1>3, <2>1, <2>3
  <2> QED BY <2>3, <2>4 DEF n
<1>6. ASSUME NEW p \in 0 .. size - 1
      PROVE  p * scale \in 0 .. size * scale - 1 /\ (p * scale) \div scale = p
  <2>1. p \in Nat /\ p < size
    OBVIOUS
  <2>2. p * scale \in Nat /\ p * scale < size * scale
    BY <2>1
  <2>3. (p * scale) \div scale = p
    BY <2>1
  <2> QED BY <1>3, <2>2, <2>3
<1> QED BY <1>3, <1>5, <1>6

\* On a display the frame fits on, the scale is the number of times it fits.
LEMMA ScaleFits ==
    ASSUME display \in Nat \X Nat, display[1] >= Width, display[2] >= Height
    PROVE  /\ Scale \in Nat \ {0}
           /\ Scale <= display[1] \div Width /\ Scale <= display[2] \div Height
<1> DEFINE a == display[1] \div Width
           b == display[2] \div Height
<1>1. \A n \in Nat, k \in Nat \ {0} : n >= k => n \div k \in Nat /\ n \div k >= 1
  OBVIOUS
<1>2. a \in Nat /\ b \in Nat /\ a >= 1 /\ b >= 1
  BY <1>1, PanelAssumption
<1> HIDE DEF a, b
<1>3. Min({a, b}) = IF a <= b THEN a ELSE b
  BY <1>2, MinMaxOfTwo
<1>4. Scale = IF Min({a, b}) < 1 THEN 1 ELSE Min({a, b})
  BY DEF Scale, a, b
<1>5. Scale \in Nat \ {0} /\ Scale <= a /\ Scale <= b
  BY <1>2, <1>3, <1>4
<1> QED BY <1>5 DEF a, b

\* Every pixel of the frame is shown by a pixel of such a display.
LEMMA LetterboxShowsAll ==
    ASSUME display \in Nat \X Nat, display[1] >= Width, display[2] >= Height
    PROVE  Blitted(display[2]) = Pixels
<1> SUFFICES ASSUME NEW p \in Pixels
             PROVE  ShownAt(p) # {} /\ \A q \in ShownAt(p) : q[2] < display[2]
  BY DEF Blitted
<1>1. \A q \in ShownAt(p) : q[2] < display[2]
  BY DEF ShownAt
<1>2. ShownAt(p) # {}
  <2> DEFINE o1 == Half(display[1] - Width * Scale)
             o2 == Half(display[2] - Height * Scale)
             q1 == o1 + p[1] * Scale
             q2 == o2 + p[2] * Scale
  <2>1. p[1] \in 0 .. Width - 1 /\ p[2] \in 0 .. Height - 1
    BY DEF Pixels
  <2>2. /\ o1 \in Nat /\ o1 + Width * Scale <= display[1]
        /\ p[1] * Scale \in 0 .. Width * Scale - 1 /\ (p[1] * Scale) \div Scale = p[1]
    <3>1. /\ display[1] \in Nat /\ Width \in Nat \ {0} /\ Scale \in Nat \ {0}
          /\ Scale <= display[1] \div Width
      BY ScaleFits, PanelAssumption
    <3>2. /\ o1 \in Nat /\ o1 + Width * Scale <= display[1]
          /\ \A c \in 0 .. Width - 1 :
                c * Scale \in 0 .. Width * Scale - 1 /\ (c * Scale) \div Scale = c
      BY ONLY <3>1, Enlarged
    <3> HIDE DEF o1
    <3> QED BY ONLY <2>1, <3>2
  <2>3. /\ o2 \in Nat /\ o2 + Height * Scale <= display[2]
        /\ p[2] * Scale \in 0 .. Height * Scale - 1 /\ (p[2] * Scale) \div Scale = p[2]
    <3>1. /\ display[2] \in Nat /\ Height \in Nat \ {0} /\ Scale \in Nat \ {0}
          /\ Scale <= display[2] \div Height
      BY ScaleFits, PanelAssumption
    <3>2. /\ o2 \in Nat /\ o2 + Height * Scale <= display[2]
          /\ \A c \in 0 .. Height - 1 :
                c * Scale \in 0 .. Height * Scale - 1 /\ (c * Scale) \div Scale = c
      BY ONLY <3>1, Enlarged
    <3> HIDE DEF o2
    <3> QED BY ONLY <2>1, <3>2
  <2>4. /\ Offset[1] = o1 /\ Offset[2] = o2
        /\ <<Width, Height>>[1] = Width /\ <<Width, Height>>[2] = Height
    BY DEF Offset
  <2>5. ASSUME NEW o \in Nat, NEW step \in Int, NEW size \in Int, NEW room \in Nat,
               step \in 0 .. size - 1, o + size <= room
        PROVE  (o + step) - o = step /\ o + step \in 0 .. room - 1
    BY <2>5
  <2>6. Width * Scale \in Int /\ Height * Scale \in Int
    BY ScaleFits, PanelAssumption
  <2>7. q1 - o1 = p[1] * Scale /\ q1 \in 0 .. display[1] - 1
    <3> HIDE DEF o1
    <3> QED BY <2>2, <2>5, <2>6
  <2>8. q2 - o2 = p[2] * Scale /\ q2 \in 0 .. display[2] - 1
    <3> HIDE DEF o2
    <3> QED BY <2>3, <2>5, <2>6
  <2> DEFINE q == <<q1, q2>>
  <2>9. q[1] = q1 /\ q[2] = q2
    OBVIOUS
  <2>10. q \in (0 .. display[1] - 1) \X (0 .. display[2] - 1)
    BY <2>7, <2>8
  <2> HIDE DEF o1, o2, q1, q2, q
  <2>11. /\ q[1] - Offset[1] \in 0 .. <<Width, Height>>[1] * Scale - 1
         /\ (q[1] - Offset[1]) \div Scale = p[1]
    BY <2>2, <2>4, <2>7, <2>9
  <2>12. /\ q[2] - Offset[2] \in 0 .. <<Width, Height>>[2] * Scale - 1
         /\ (q[2] - Offset[2]) \div Scale = p[2]
    BY <2>3, <2>4, <2>8, <2>9
  <2>13. \A i \in 1 .. 2 : i = 1 \/ i = 2
    OBVIOUS
  <2>14. \A i \in 1 .. 2 : /\ q[i] - Offset[i] \in 0 .. <<Width, Height>>[i] * Scale - 1
                           /\ (q[i] - Offset[i]) \div Scale = p[i]
    BY ONLY <2>11, <2>12, <2>13
  <2> QED BY ONLY <2>10, <2>14 DEF ShownAt
<1> QED BY <1>1, <1>2

\* Mirrored, the whole frame is still the whole frame.
LEMMA WholeIsFlipped == Flipped(Whole, Height) = Pixels
<1> SUFFICES ASSUME NEW p \in Pixels
             PROVE  /\ p[2] \in Whole.y0 .. Whole.y1 - 1 /\ p[2] < Height
                    /\ Width - 1 - p[1] \in Whole.x0 .. Whole.x1 - 1
  BY DEF Flipped
<1> QED BY PanelAssumption DEF Whole, Pixels

\* A display the frame fits on shows each pixel as it was last drawn once
\* what was drawn got through, unless a part of it was written to the mirrored
\* place.
PanelInv ==
    /\ display \in Nat \X Nat
    /\ stale \subseteq Pixels
    /\ DrawnIsShown

\* A drawing that is written whole, or in a centred part, leaves nothing of
\* itself stale.
LEMMA DrawnOK ==
    ASSUME PanelInv, NEW marks \in Drawings, Draw(marks), UNCHANGED display
    PROVE  PanelInv'
<1> DEFINE dirty == MarkedAll(marks)
           drawing == UNION {Clip(marks[i]) : i \in DOMAIN marks}
           part == ~Letterboxed /\ Around(dirty) # Whole
<1>1. drawing \subseteq Pixels
  BY DEF Clip
<1>2. PICK rows \in 0 .. Rows(dirty) :
         /\ stale' = (stale \cup drawing) \ Presented(dirty, rows)
         /\ failed' = (rows < Rows(dirty) \/ (failed /\ part))
         /\ lopsided' = (part /\ (lopsided \/ ~Centred(Around(dirty))))
  BY DEF Draw
<1>3. stale' \subseteq Pixels
  <2> HIDE DEF drawing
  <2> QED BY <1>1, <1>2 DEF PanelInv
<1>4. ASSUME display[1] >= Width, display[2] >= Height, ~failed', ~lopsided'
      PROVE  stale' = {}
  <2>1. ~(rows < Rows(dirty))
    <3> HIDE DEF dirty, drawing, part
    <3> QED BY <1>2, <1>4
  <2>2. CASE Letterboxed
    <3>1. Rows(dirty) = display[2] /\ Rows(dirty) \in Nat
      BY <2>2 DEF Rows, PanelInv
    <3>2. rows = display[2]
      <4> HIDE DEF dirty
      <4> QED BY <2>1, <3>1
    <3>3. Presented(dirty, rows) = Pixels
      BY <1>4, <2>2, <3>2, LetterboxShowsAll DEF Presented, PanelInv
    <3> HIDE DEF drawing, dirty
    <3> QED BY <1>1, <1>2, <3>3 DEF PanelInv
  <2>3. CASE ~Letterboxed /\ Around(dirty) = Whole
    <3>1. Rows(dirty) = Height /\ Rows(dirty) \in Nat
      <4>1. Rows(dirty) = Max({0, Height})
        BY <2>3 DEF Rows, Whole
      <4>2. Height \in Nat /\ Max({0, Height}) = Height
        <5>1. Height \in Int /\ 0 <= Height
          BY PanelAssumption
        <5>2. Max({0, Height}) = IF 0 <= Height THEN Height ELSE 0
          BY <5>1, MinMaxOfTwo
        <5> QED BY <5>1, <5>2
      <4> QED BY <4>1, <4>2
    <3>2. rows = Height
      <4> HIDE DEF dirty
      <4> QED BY <2>1, <3>1
    <3>3. Presented(dirty, rows) = Pixels
      BY <2>3, <3>2, WholeIsFlipped DEF Presented
    <3> HIDE DEF drawing, dirty
    <3> QED BY <1>1, <1>2, <3>3 DEF PanelInv
  <2>4. CASE part
    <3> DEFINE box == Around(dirty)
    <3>1. ~failed /\ ~lopsided /\ Centred(box)
      <4> HIDE DEF drawing, dirty
      <4> QED BY <1>2, <1>4, <2>4
    <3>2. stale = {}
      BY <1>4, <3>1 DEF PanelInv, DrawnIsShown
    <3>3. ASSUME NEW p \in drawing
          PROVE  p \in Presented(dirty, rows)
      <4>1. PICK i \in DOMAIN marks : p \in Clip(marks[i])
        BY <3>3
      <4>2. /\ p[1] \in box.x0 .. box.x1 - 1 /\ p[2] \in box.y0 .. box.y1 - 1
            /\ box.x0 \in Int /\ box.x1 \in Int /\ box.y1 \in Int
        BY <2>4, <4>1, DrawingsAreRectangles, MarksInBox
      <4>3. p \in Pixels /\ p[1] \in Int /\ p[2] \in Int /\ Width \in Int
        BY <1>1, <3>3, PanelAssumption DEF Pixels
      <4>4. Rows(dirty) = Max({0, box.y1})
        BY <2>4 DEF Rows
      <4> HIDE DEF box
      <4>5. Rows(dirty) \in Int /\ box.y1 <= Rows(dirty)
        <5>1. Max({0, box.y1}) = IF 0 <= box.y1 THEN box.y1 ELSE 0
          BY <4>2, MinMaxOfTwo
        <5> HIDE DEF dirty
        <5> QED BY <4>2, <4>4, <5>1
      <4>6. p[2] < rows
        <5> HIDE DEF dirty
        <5> QED BY <2>1, <4>2, <4>3, <4>5
      <4>7. Width - 1 - p[1] \in box.x0 .. box.x1 - 1
        BY <3>1, <4>2, <4>3 DEF Centred
      <4>8. p \in Flipped(box, rows)
        BY <4>2, <4>3, <4>6, <4>7 DEF Flipped
      <4> QED BY <2>4, <4>8 DEF Presented, box
    <3> HIDE DEF drawing, dirty, box
    <3> QED BY <1>2, <3>2, <3>3
  <2> QED BY <2>2, <2>3, <2>4
<1> QED BY <1>3, <1>4 DEF PanelInv, DrawnIsShown

\* For every frame, every display it fits on and whatever the screens draw,
\* with the whole frame or a part of it, the panel shows each pixel as it was
\* last drawn as soon as the drawing got through (tezos_dirty_mark, fbdev_flip
\* and tezos_fb_blit_letterboxed), provided the parts written are centred.
THEOREM PanelShowsWhatWasDrawn == PanelSpec => []DrawnIsShown
<1>1. PanelInit => PanelInv
  BY PanelAssumption DEF PanelInit, PanelInv, DrawnIsShown
<1>2. PanelInv /\ [PanelNext]_panelVars => PanelInv'
  <2> SUFFICES ASSUME PanelInv, [PanelNext]_panelVars PROVE PanelInv'
    OBVIOUS
  <2>1. CASE UNCHANGED panelVars
    BY <2>1 DEF panelVars, PanelInv, DrawnIsShown
  <2>2. CASE PanelNext
    BY <2>2, DrawnOK DEF PanelNext
  <2> QED BY <2>1, <2>2
<1>3. PanelInv => DrawnIsShown
  BY DEF PanelInv
<1> QED BY <1>1, <1>2, <1>3, PTL DEF PanelSpec
=============================================================================
