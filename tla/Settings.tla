------------------------------ MODULE Settings ------------------------------
(***************************************************************************)
(* What Settings keeps: a value for each of its keys, from the default on, *)
(* that changes one at a time (settings.c).  It promises nothing once a    *)
(* save may fail.                                                          *)
(***************************************************************************)
CONSTANTS Keys, Values, Defaults

VARIABLES value, steady     \* steady: no save fails and the power stays

Init == value = Defaults

Set(k, v) == value' = [value EXCEPT ![k] = v]

Next == \E k \in Keys, v \in Values : Set(k, v)

Spec == Init /\ [][steady => Next]_value
=============================================================================
