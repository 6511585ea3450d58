------------------------------ MODULE MCParts -------------------------------
(***************************************************************************)
(* A task pinned to each core, and one that is not; two timers with one    *)
(* entry in the table of configurations; two SpiFFS objects.             *)
(***************************************************************************)
EXTENDS Parts

CONSTANTS a, b, z

AffinityOf == [t \in {a, b, z} |-> CASE t = a -> {0} [] t = b -> {1} [] t = z -> {0, 1}]
TwoTimers  == {[unit |-> 0, num |-> 1], [unit |-> 1, num |-> 0]}
=============================================================================
