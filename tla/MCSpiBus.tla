------------------------------ MODULE MCSpiBus ------------------------------
(***************************************************************************)
(* SpiBus with an object on HSPI and two on VSPI that have the same pins,  *)
(* one by default and one by number; two tasks, whose slaves on VSPI       *)
(* differ, while they share the one on HSPI.                               *)
(***************************************************************************)
EXTENDS SpiBus

CONSTANTS a, b, h, v, w, sh, sa, sb

TheOwners == [o \in {h, v, w} |-> IF o = w THEN b ELSE a]
TheNums   == [o \in {h, v, w} |-> IF o = h THEN HSPI ELSE VSPI]
ThePins   == [o \in {h, v, w} |-> IF o = v THEN UsualPin(VSPI) ELSE [sig \in Signals |-> -1]]
TheSlaves == [t \in {a, b} |-> [o \in {h, v, w} |-> IF o = h THEN sh ELSE IF t = a THEN sa ELSE sb]]
TheWires  == [s \in {sh, sa, sb} |-> UsualPin(IF s = sh THEN HSPI ELSE VSPI)]
TheDivs   == [f \in 1..3 |-> IF f = 1 THEN 80 ELSE 40]  \* 2 and 3 have the same divider
=============================================================================
