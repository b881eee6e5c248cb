----------------------------- MODULE TezosCore -----------------------------
(***************************************************************************)
(* The navigation core (src/core/tezos_core.c) driven by the Linux shim's  *)
(* main loop (src/shim-linux/linux_shim.c): the stack of screens, the      *)
(* render flag, the boot splash, the home grid and the pool of stub        *)
(* screens.                                                                *)
(*                                                                         *)
(* Screens other than the splash, the home grid and the stubs are seen     *)
(* through tezos_screen_t: a callback changes what the screen would draw   *)
(* or not, reports needs_redraw when it does (some forget to: Silent), and *)
(* asks to push one of the screens it knows (Opens), to be replaced by one *)
(* (Swaps) or, when it has a BACK key (Backs), to be popped.               *)
(***************************************************************************)
EXTENDS Integers, Sequences

CONSTANTS
    Screens,        \* every screen, Splash, Idle and Stub among them
    Splash, Idle,
    Stub,           \* the screens of tezos_stub_screen_get, indistinguishable
    Opens,          \* Opens[s]: what handle_input of s may push
    Swaps,          \* Swaps[s]: what handle_input of s may be replaced by
    Backs,          \* the screens whose handle_input may answer POP
    Silent,          \* those that may change and not report needs_redraw
    AppEntry,       \* AppEntry[i]: what the entry of the i-th app may return
    MaxDepth,       \* TEZOS_MAX_STACK_DEPTH
    MaxStubs,       \* TEZOS_MAX_STUB_INSTANCES
    SplashTime,     \* SPLASH_TOTAL_MS, in ticks
    MaxKeys         \* bound: keys that one pass of the read loop drains

AppCount == Len(AppEntry)
Pushable == Screens \ {Splash, Idle}

ASSUME CoreAssumption ==
    /\ {Splash, Idle, Stub} \subseteq Screens
    /\ Splash # Idle /\ Stub \in Pushable
    /\ Opens \in [Pushable -> SUBSET Pushable]
    /\ Swaps \in [Pushable -> SUBSET Pushable]
    /\ Backs \subseteq Pushable /\ Silent \subseteq Pushable
    /\ AppEntry \in Seq(SUBSET Pushable) /\ AppCount > 0
    /\ MaxDepth \in Nat \ {0}
    /\ MaxStubs \in Nat /\ SplashTime \in Nat /\ MaxKeys \in Nat

VARIABLES
    pc,           \* the main loop: "poll", "check", "keys" or "recheck"
    keys,         \* key presses poll found ready and the loop has yet to read
    stack,        \* core->stack[0 .. depth - 1]
    needsRender,  \* core->needs_render
    shown,        \* the screen whose drawing is on the panel
    current,      \* is that drawing what the screen would draw now?
    elapsed,      \* the splash's elapsed_ms
    skip,         \* the splash's skip_requested
    selected,     \* the home grid's selected app, from 0
    stubs         \* g_stub_count

vars == <<pc, keys, stack, needsRender, shown, current, elapsed, skip, selected, stubs>>
splashVars == <<elapsed, skip>>

Top    == stack[Len(stack)]
Bottom == SubSeq(stack, 1, Len(stack) - 1)

-----------------------------------------------------------------------------
(* tezos_core.c.  The render that ends every tick is part of the tick.     *)

\* Mutant: a screen that is uncovered is drawn when it next reports a change.
Render_ReportedOnly(redraw, newStack) ==
    IF redraw \/ needsRender
    THEN shown' = newStack[Len(newStack)] /\ current' = TRUE /\ needsRender' = FALSE
    ELSE UNCHANGED <<shown, current, needsRender>>

\* The end of a tick: draw the top of the stack when the screen reported a
\* change, the stack changed, or a render is still owed.
Render(redraw, newStack) ==
    IF redraw \/ needsRender \/ newStack # stack
    THEN shown' = newStack[Len(newStack)] /\ current' = TRUE /\ needsRender' = FALSE
    ELSE UNCHANGED <<shown, current, needsRender>>

\* tezos_core_push refuses at the full stack; a NULL next is ignored.
PushRefused == Len(stack) >= MaxDepth
Pushed(s)   == IF PushRefused THEN stack ELSE Append(stack, s)
Popped(st)  == IF Len(st) <= 1 THEN st ELSE SubSeq(st, 1, Len(st) - 1)
Replaced(s) == Append(Bottom, s)

-----------------------------------------------------------------------------
(* tezos_stub_screen_get: a slot of the pool per call, NULL when none is   *)
(* left; any other screen is a static singleton.                           *)

Available(s) == s # Stub \/ stubs < MaxStubs

OpenScreen(s) ==
    /\ stack' = IF Available(s) THEN Pushed(s) ELSE stack
    /\ stubs' = IF s = Stub /\ Available(s) THEN stubs + 1 ELSE stubs
    /\ \E redraw \in BOOLEAN : Render(redraw, stack')

-----------------------------------------------------------------------------
(* The screens' handle_input.                                              *)

\* idle_grid_next_selected.
GridUp(sel)   == (sel - 1 + AppCount) % AppCount
GridDown(sel) == (sel + 1) % AppCount
GridNum(sel, v) == IF v - 1 < AppCount THEN v - 1 ELSE sel

SplashKey ==
    /\ Top = Splash
    /\ skip' = TRUE
    /\ Render(FALSE, stack)
    /\ UNCHANGED <<stack, elapsed, selected, stubs>>

IdleMove ==
    /\ Top = Idle
    /\ selected' \in {GridUp(selected), GridDown(selected)}
                       \cup {GridNum(selected, v) : v \in 1 .. 9}
    /\ Render(selected' # selected, stack)
    /\ UNCHANGED <<stack, splashVars, stubs>>

IdleSelect ==
    /\ Top = Idle
    /\ \E s \in AppEntry[selected + 1] : OpenScreen(s)
    /\ UNCHANGED <<splashVars, selected>>

\* A key the home grid, or a screen, has no use for.
KeyIgnored ==
    /\ Top # Splash
    /\ Render(FALSE, stack)
    /\ UNCHANGED <<stack, splashVars, selected, stubs>>

ScreenChanges ==
    /\ Top \in Pushable
    /\ Render(TRUE, stack)
    /\ UNCHANGED <<stack, splashVars, selected, stubs>>

\* handle_input changes what the screen draws, and leaves needs_redraw as it
\* is: RETRY after a wrong checksum, and SELECT when the letter it commits
\* leaves no candidate (import_recovery.c).
ScreenChangesQuietly ==
    /\ Top \in Silent
    /\ IF needsRender THEN Render(FALSE, stack)
       ELSE current' = FALSE /\ UNCHANGED <<shown, needsRender>>
    /\ UNCHANGED <<stack, splashVars, selected, stubs>>

ScreenPushes ==
    /\ Top \in Pushable
    /\ \E s \in Opens[Top] : OpenScreen(s)
    /\ UNCHANGED <<splashVars, selected>>

ScreenReplaces ==
    /\ Top \in Pushable
    /\ \E s \in Swaps[Top] : stack' = Replaced(s)
    /\ Render(TRUE, stack')
    /\ UNCHANGED <<splashVars, selected, stubs>>

\* BACK: the screen underneath resumes (on_resume may change what it draws)
\* and is drawn.
ScreenPops ==
    /\ Top \in Backs
    /\ stack' = Popped(stack)
    /\ Render(FALSE, stack')
    /\ UNCHANGED <<splashVars, selected, stubs>>

-----------------------------------------------------------------------------
(* The main loop of linux_shim.c.                                          *)

\* poll returns after a time-out or with input; then tezos_core_on_tick.
\* The splash counts its time and asks to be redrawn while it lasts; any
\* other screen's on_tick may change it.
Poll(ms) ==
    /\ pc = "poll"
    /\ pc' = "check"
    /\ keys' \in 0 .. MaxKeys
    /\ IF Top = Splash /\ elapsed < SplashTime
       THEN elapsed' = elapsed + ms /\ Render(TRUE, stack)
       ELSE /\ UNCHANGED elapsed
            /\ \E redraw \in BOOLEAN : (redraw => Top \in Pushable) /\ Render(redraw, stack)
    /\ UNCHANGED <<stack, skip, selected, stubs>>

\* tezos_boot_splash_is_finished, asked of the top screen.
\* Mutant: only a key ends the splash.
SplashFinished_KeyOnly == Top = Splash /\ skip
SplashFinished == Top = Splash /\ (elapsed >= SplashTime \/ skip)

GoHome ==
    /\ stack' = Replaced(Idle)
    /\ Render(TRUE, stack')

\* After on_tick, and again after the keys.
Check ==
    /\ pc \in {"check", "recheck"}
    /\ pc' = IF pc = "check" /\ keys > 0 THEN "keys" ELSE "poll"
    /\ IF SplashFinished THEN GoHome ELSE UNCHANGED <<stack, needsRender, shown, current>>
    /\ UNCHANGED <<keys, splashVars, selected, stubs>>

Key ==
    /\ pc = "keys" /\ keys > 0
    /\ keys' = keys - 1
    /\ \/ SplashKey
       \/ IdleMove \/ IdleSelect \/ KeyIgnored
       \/ ScreenChanges \/ ScreenChangesQuietly
       \/ ScreenPushes \/ ScreenReplaces \/ ScreenPops
    /\ UNCHANGED pc

KeysRead ==
    /\ pc = "keys" /\ keys = 0
    /\ pc' = "recheck"
    /\ UNCHANGED <<keys, stack, needsRender, shown, current, splashVars, selected, stubs>>

-----------------------------------------------------------------------------
\* tezos_core_init, the splash pushed, and the tick that draws it.
Init ==
    /\ pc = "poll" /\ keys = 0
    /\ stack = <<Splash>>
    /\ needsRender = FALSE
    /\ shown = Splash /\ current = TRUE
    /\ elapsed = 0 /\ skip = FALSE
    /\ selected = 0 /\ stubs = 0

Next ==
    \/ \E ms \in {0, 1} : Poll(ms)
    \/ Check
    \/ Key
    \/ KeysRead

Spec == Init /\ [][Next]_vars

\* The loop never stops, and the monotonic clock does not stand still: poll
\* cannot return for ever in less than a millisecond.
Fairness == WF_vars(Next) /\ SF_vars(Poll(1))
FairSpec == Spec /\ Fairness

-----------------------------------------------------------------------------
(* Properties.                                                             *)

\* Types and the bound of the stack: core->stack is never written beyond
\* TEZOS_MAX_STACK_DEPTH, and the home grid never indexes a missing app.
TypeOK ==
    /\ pc \in {"poll", "check", "keys", "recheck"}
    /\ keys \in 0 .. MaxKeys
    /\ stack \in Seq(Screens) /\ Len(stack) \in 1 .. MaxDepth
    /\ needsRender \in BOOLEAN
    /\ shown \in Screens /\ current \in BOOLEAN
    /\ elapsed \in 0 .. SplashTime /\ skip \in BOOLEAN
    /\ selected \in 0 .. AppCount - 1
    /\ stubs \in 0 .. MaxStubs

\* The home screen is the bottom of the stack, and nowhere else, from the
\* moment the splash is dismissed; the splash is never under another screen.
HomeAtBottom ==
    /\ stack[1] \in {Splash, Idle}
    /\ stack[1] = Splash => Len(stack) = 1
    /\ \A i \in 2 .. Len(stack) : stack[i] \in Pushable

\* Every key is dispatched to the screen the panel shows: whatever a tick did
\* to the stack, it ended with the top drawn and nothing owed.  Where it is
\* not shown in its latest state, the screen is one that changes without a
\* report: what one screen forgot to draw never outlives it on the panel.
ShownUnlessQuiet ==
    /\ shown = Top /\ ~needsRender
    /\ current \/ Top \in Silent

\* The panel shows the top of the stack in its latest state: needs_redraw is
\* what "the screen sets to true if its own state changed in a way that requires
\* a re-render" (tezos_core.h).
DisplayedIsCurrent == shown = Top /\ current /\ ~needsRender

\* The splash ends by itself and the home screen is at the bottom for good.
SplashEnds == <>[](stack[1] = Idle)

\* SELECT on the home grid opens the selected app.
SelectOpens == [][IdleSelect => Len(stack') = Len(stack) + 1]_vars
=============================================================================
