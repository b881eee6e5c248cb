-------------------------------- MODULE Snake --------------------------------
(***************************************************************************)
(* The game of apps/snake/snake.c.  Time is the step of 150 ms: a tick     *)
(* that makes up for several of them takes several steps with no key       *)
(* between them.                                                           *)
(***************************************************************************)
EXTENDS SigningPopup, Integers, SequencesExt

CONSTANTS Cols, Rows    \* SNAKE_GRID_COLS, SNAKE_GRID_ROWS

ASSUME GridAssumption == Cols \in Nat /\ Cols >= 4 /\ Rows \in Nat \ {0}

Grid == (0 .. Cols - 1) \X (0 .. Rows - 1)
Directions == {"up", "down", "left", "right"}

VARIABLES
    snakePhase,             \* "playing" or "over"
    body,                   \* body[0 .. length - 1], the head first
    direction, turn,        \* turn: pending_direction
    food, score, best,      \* best: high_score
    bestFile                \* the high score in its file
snakeVars == <<snakePhase, body, direction, turn, food, score, best, bestFile>>

Opposite == [up |-> "down", down |-> "up", left |-> "right", right |-> "left"]

Ahead(cell, d) ==
    CASE d = "up"    -> <<cell[1], cell[2] - 1>>
      [] d = "down"  -> <<cell[1], cell[2] + 1>>
      [] d = "left"  -> <<cell[1] - 1, cell[2]>>
      [] d = "right" -> <<cell[1] + 1, cell[2]>>

\* spawn_food: any free cell, by chance or by the scan for one; where it is
\* when there is none.
Spawns(onto, old) ==
    IF Grid \subseteq Range(onto) THEN {old} ELSE Grid \ Range(onto)

\* reset_game.
Reset ==
    /\ snakePhase' = "playing"
    /\ body' = [i \in 1 .. 3 |-> <<Cols \div 2 + 1 - i, Rows \div 2>>]
    /\ direction' = "right" /\ turn' = "right" /\ score' = 0
    /\ food' \in Spawns(body', <<0, 0>>)

\* snake_entry_screen.
OpenSnake ==
    /\ Opens("snake") /\ Reset
    /\ best' = bestFile /\ UNCHANGED <<bestFile, askVars>>

\* The keys of handle_input while a game is on.
Steer(d) ==
    /\ OnTop("snake") /\ snakePhase = "playing" /\ turn' = d
    /\ UNCHANGED <<open, popupVars, snakePhase, body, direction, food, score, best, bestFile>>

\* The head meets the border or the snake, its tail included.
Crashes(head) == head \notin Grid \/ head \in Range(body)

\* The pending direction, unless it would turn the snake on the spot.
\* Mutant: the last key wins.
Turned_Unchecked == turn
Turned == IF Opposite[turn] = direction THEN direction ELSE turn

\* advance_snake: at a new record the save may fail, which nobody notices.
AdvanceSnake ==
    LET head == Ahead(body[1], Turned)
        ate  == head = food
    IN  /\ OnTop("snake") /\ snakePhase = "playing"
        /\ direction' = Turned
        /\ \/ /\ Crashes(head) /\ snakePhase' = "over"
              /\ UNCHANGED <<body, food, score, best, bestFile>>
           \/ /\ ~Crashes(head)
              /\ body' = <<head>> \o (IF ate THEN body ELSE Front(body))
              /\ score' = IF ate THEN score + 1 ELSE score
              /\ best' = IF score' > best THEN score' ELSE best
              /\ bestFile' \in IF score' > best THEN {bestFile, score'} ELSE {bestFile}
              /\ food' \in IF ate THEN Spawns(body', food) ELSE {food}
              /\ UNCHANGED snakePhase
        /\ UNCHANGED <<open, popupVars, turn>>

\* SOFTKEY_L when the game is over.
Restart ==
    /\ OnTop("snake") /\ snakePhase = "over" /\ Reset
    /\ UNCHANGED <<open, popupVars, best, bestFile>>

\* SOFTKEY_R.
CloseSnake == OnTop("snake") /\ open' = NONE /\ UNCHANGED <<popupVars, snakeVars>>

SnakeInit ==
    /\ snakePhase = "over" /\ body = <<>> /\ direction = "right" /\ turn = "right"
    /\ food = <<0, 0>> /\ score = 0 /\ best = 0 /\ bestFile = 0

SnakeNext ==
    \/ OpenSnake \/ AdvanceSnake \/ Restart \/ CloseSnake
    \/ \E d \in Directions : Steer(d)

-----------------------------------------------------------------------------
\* Whatever keys come between two steps, the snake is an unbroken line of
\* different cells, it never turns into its own neck, its food lies beside it
\* until it fills the grid, and the score is what it has grown by.
SnakeOnGrid ==
    body # <<>> =>
        /\ Range(body) \subseteq Grid /\ IsInjective(body)
        /\ \A i \in 1 .. Len(body) - 1 : \E d \in Directions : Ahead(body[i + 1], d) = body[i]
        /\ Ahead(body[1], direction) # body[2]
        /\ food \in Grid /\ (food \in Range(body) => Grid \subseteq Range(body))
        /\ score = Len(body) - 3 /\ best >= score
=============================================================================
