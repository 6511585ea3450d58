----------------------------- MODULE MCWatchdog -----------------------------
(***************************************************************************)
(* Watchdog with two tasks, the idle tasks of two cores and timeouts of two *)
(* and three seconds.                                                      *)
(***************************************************************************)
EXTENDS Watchdog, TLC

CONSTANTS a, b, idle0, idle1

TwoTimeouts == {2000, 3999}
OneTimeout  == {2000}
AllCalls    == {"enable", "disable", "reset", "disableLocal"}
Symmetry    == Permutations({a, b}) \cup Permutations({idle0, idle1})
=============================================================================
