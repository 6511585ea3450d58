------------------------------ MODULE MCGpioIrq ------------------------------
(***************************************************************************)
(* GpioIrq with a task on each core, and a pin in each status register.    *)
(***************************************************************************)
EXTENDS GpioIrq

CONSTANTS a, b

TwoCores == [t \in {a, b} |-> IF t = a THEN 0 ELSE 1]
TwoPins  == {4, 33}
=============================================================================
