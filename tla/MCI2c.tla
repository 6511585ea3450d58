-------------------------------- MODULE MCI2c --------------------------------
(* Small instances of I2c for TLC.                                         *)
EXTENDS I2c

CONSTANTS x, y, s, m   \* the objects

KindsOf == [o \in Objects |-> CASE o \in {x, y} -> "hardware" [] o = s -> "hal" [] o = m -> "message"]

W(n)   == [read |-> FALSE, count |-> n, repstart |-> FALSE]
R(n)   == [read |-> TRUE,  count |-> n, repstart |-> FALSE]
Again(msg) == [msg EXCEPT !.repstart = TRUE]

\* A register read, as drivers do it; a read that asks for no stop; and a vector that
\* reads nothing and ends without a stop.
Vectors == {<<Again(W(1)), R(2)>>, <<Again(R(1))>>, <<R(0), Again(W(1))>>}

Same == Permutations(Tasks) \cup Permutations({x, y})
=============================================================================
