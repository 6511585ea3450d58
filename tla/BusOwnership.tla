---------------------------- MODULE BusOwnership ----------------------------
(***************************************************************************)
(* What the HAL's lock promises to the tasks that share one SPI            *)
(* controller: the controller has at most one owner, only the owner        *)
(* changes its registers or launches an exchange, and the owner neither    *)
(* touches the registers nor lets the controller go while an exchange is   *)
(* on the wire.  esp32spi.h states it as "each locks and unlocks when      *)
(* called" (81-83) and "lock once until endTransaction" (100-102).         *)
(***************************************************************************)
CONSTANTS Tasks, None

VARIABLES
  holder,    \* the task that owns the controller, or None
  regs,      \* the configuration registers and the data buffer
  inflight   \* an exchange is on the wire

vars == <<holder, regs, inflight>>

Init == holder = None /\ inflight = FALSE

Acquire(t) ==
  /\ holder = None
  /\ holder' = t
  /\ UNCHANGED <<regs, inflight>>

\* The owner sets registers or fills the buffer: to what, is its own affair.
Change(t) ==
  /\ holder = t
  /\ ~inflight
  /\ UNCHANGED <<holder, inflight>>

Launch(t) ==
  /\ holder = t
  /\ ~inflight
  /\ inflight' = TRUE
  /\ UNCHANGED <<holder, regs>>

\* The controller shifts the exchange out and leaves the reply in the buffer.
Finish ==
  /\ inflight
  /\ holder # None
  /\ inflight' = FALSE
  /\ UNCHANGED holder

Release(t) ==
  /\ holder = t
  /\ ~inflight
  /\ holder' = None
  /\ UNCHANGED <<regs, inflight>>

Next ==
  \/ \E t \in Tasks : Acquire(t) \/ Change(t) \/ Launch(t) \/ Release(t)
  \/ Finish

Spec == Init /\ [][Next]_vars
=============================================================================
