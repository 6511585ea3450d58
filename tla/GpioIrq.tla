------------------------------ MODULE GpioIrq ------------------------------
(***************************************************************************)
(* The interrupts of esp32gpiochip.cpp: tasks on two cores attach and      *)
(* detach handlers while edges arrive and the interrupt service routine    *)
(* runs on the core that the interrupt was allocated on.                   *)
(***************************************************************************)
EXTENDS Integers, Sequences, FiniteSets

CONSTANTS
  Tasks,       \* the tasks that attach and detach
  CoreOf,      \* CoreOf[t]: the core of task t, 0 (PRO_CPU) or 1 (APP_CPU)
  Pins,        \* a subset of 0..39
  Edges,       \* the edges handlers are attached to
  MaxCalls     \* bound on the calls of attachIrqHandler and detachIrqHandler

ASSUME CoreAssumption == CoreOf \in [Tasks -> {0, 1}]
ASSUME PinAssumption  == Pins \subseteq 0..39
ASSUME CallAssumption == MaxCalls \in Nat

\* No allocation, or a gpio_intr_handle that is still NULL.
NoCore == 2

VARIABLES
  todo, pin, edge,  \* the steps left of each task's call, and its arguments
  inited,           \* _initializedIrqs
  core, unmasked,   \* the interrupt's core, and whether it is enabled there
  handler,          \* gpio_isr_handlers[pin] is not NULL
  ena, type,        \* GPIO.pin[pin].int_ena (the core it names) and int_type
  status,           \* GPIO.status and GPIO.status1: the pins with a latched edge
  isr, seen,        \* the next step of the service routine, and the status it read
  use,              \* what the last call on each pin made of it, see Uses
  due,              \* the pins with an edge their handler has not run for
  stray,            \* how often the handler of a detached pin has run
  calls

task == <<todo, pin, edge>>
intr == <<inited, core, unmasked>>
regs == <<handler, ena, type>>
vars == <<task, intr, regs, status, isr, seen, use, due, stray, calls>>

\* A call that was under way, or over, when another task's call allocated the interrupt
\* is an early one, and leaves its pin raced instead of attached.
Uses     == {"never", "busy", "early", "attached", "raced", "detached"}
InUse    == {"attached", "raced"}
Steps == {"init", "alloc", "handler", "mask", "ena", "type", "unmask", "check", "enaOff", "typeOff"}

TypeOK ==
  /\ todo \in [Tasks -> Seq(Steps)]
  /\ pin \in [Tasks -> Pins \cup {-1}]
  /\ edge \in [Tasks -> Edges \cup {"none"}]
  /\ inited \in BOOLEAN /\ core \in {0, 1, NoCore} /\ unmasked \in BOOLEAN
  /\ handler \in [Pins -> BOOLEAN]
  /\ ena \in [Pins -> {0, 1, NoCore}]
  /\ type \in [Pins -> 0..3]
  /\ status \subseteq Pins /\ seen \subseteq Pins /\ due \subseteq Pins
  /\ isr \in {"idle", "readHigh", "clearLow", "clearHigh", "walk"}
  /\ use \in [Pins -> Uses]
  /\ stray \in [Pins -> 0..3]
  /\ calls \in 0..MaxCalls

Init ==
  /\ todo = [t \in Tasks |-> <<>>]
  /\ pin  = [t \in Tasks |-> -1]
  /\ edge = [t \in Tasks |-> "none"]
  /\ inited = FALSE /\ core = NoCore /\ unmasked = FALSE
  /\ handler = [p \in Pins |-> FALSE]
  /\ ena  = [p \in Pins |-> NoCore]
  /\ type = [p \in Pins |-> 0]
  /\ status = {} /\ seen = {} /\ due = {}
  /\ isr = "idle"
  /\ use = [p \in Pins |-> "never"]
  /\ stray = [p \in Pins |-> 0]
  /\ calls = 0

-----------------------------------------------------------------------------
(* attachIrqHandler and detachIrqHandler.                                  *)

\* DISABLED, RISING, FALLING, CHANGE.
mapIrqType(e) ==
  CASE e = "rising" -> 1 [] e = "falling" -> 2 [] e = "both" -> 3 [] e = "none" -> 0 [] OTHER -> -1

\* if(type == -1)
Mapped(e) == mapIrqType(e) # -1

\* An attach that enables the pin before it has a handler.
HastyAttach == <<"init", "alloc", "mask", "ena", "type", "handler", "unmask">>

Attach == <<"init", "alloc", "handler", "mask", "ena", "type", "unmask">>

\* A detach that leaves int_type, and with it the latching of edges.
HalfDetach == <<"check", "mask", "enaOff", "unmask">>
Detach     == <<"check", "mask", "enaOff", "typeOff", "unmask">>

At(t, step) == todo[t] # <<>> /\ Head(todo[t]) = step
Done(t)     == todo' = [todo EXCEPT ![t] = Tail(@)] /\ UNCHANGED <<pin, edge>>

\* The tasks share out the pins: no two work on the same one.
Call(t, p, e, program) ==
  /\ todo[t] = <<>>
  /\ use[p] \notin {"busy", "early"}
  /\ calls < MaxCalls
  /\ todo' = [todo EXCEPT ![t] = program]
  /\ pin'  = [pin EXCEPT ![t] = p]
  /\ edge' = [edge EXCEPT ![t] = e]
  /\ use'  = [use EXCEPT ![p] = "busy"]
  /\ due'  = due \ {p}
  /\ stray' = [stray EXCEPT ![p] = 0]
  /\ calls' = calls + 1
  /\ UNCHANGED <<intr, regs, status, isr, seen>>

attachIrqHandler(t, p, e) == Call(t, p, e, Attach)
detachIrqHandler(t, p)    == Call(t, p, "none", Detach)

\* if(!_initializedIrqs) { _initializedIrqs = true; esp_intr_alloc(...) }
InitIrqs(t) ==
  /\ At(t, "init")
  /\ inited' = TRUE
  /\ todo' = [todo EXCEPT ![t] = IF inited THEN Tail(Tail(@)) ELSE Tail(@)]
  /\ UNCHANGED <<pin, edge, core, unmasked, regs, status, isr, seen, use, due, stray, calls>>

Overtaken(u) == CASE u = "busy" -> "early" [] u = "attached" -> "raced" [] OTHER -> u

Alloc(t) ==
  /\ At(t, "alloc")
  /\ core' = CoreOf[t]
  /\ unmasked' = TRUE
  /\ use' = [p \in Pins |-> IF p = pin[t] THEN use[p] ELSE Overtaken(use[p])]
  /\ Done(t)
  /\ UNCHANGED <<inited, regs, status, isr, seen, due, stray, calls>>

\* if(!_initializedIrqs) return
Check(t) ==
  /\ At(t, "check")
  /\ IF inited
       THEN Done(t) /\ UNCHANGED use
       ELSE /\ todo' = [todo EXCEPT ![t] = <<>>]
            /\ use' = [use EXCEPT ![pin[t]] = "never"]
            /\ UNCHANGED <<pin, edge>>
  /\ UNCHANGED <<intr, regs, status, isr, seen, due, stray, calls>>

\* esp_intr_disable(gpio_intr_handle), which fails for a NULL handle.
Mask(t) ==
  /\ At(t, "mask")
  /\ unmasked' = FALSE
  /\ Done(t)
  /\ UNCHANGED <<inited, core, regs, status, isr, seen, use, due, stray, calls>>

\* A driver that enables every pin for APP_CPU.
AppCore == 1

\* esp_intr_get_cpu of a NULL handle is an error, which the code takes for APP_CPU.
IsrCore == IF core = NoCore THEN 1 ELSE core

SetRegs(t) ==
  LET p == pin[t]
  IN  /\ \/ At(t, "handler") /\ handler' = [handler EXCEPT ![p] = TRUE] /\ UNCHANGED <<ena, type>>
         \/ At(t, "ena")     /\ ena' = [ena EXCEPT ![p] = IsrCore] /\ UNCHANGED <<handler, type>>
         \/ At(t, "type")    /\ type' = [type EXCEPT ![p] = IF Mapped(edge[t]) THEN mapIrqType(edge[t]) ELSE @]
                             /\ UNCHANGED <<handler, ena>>
         \/ At(t, "enaOff")  /\ ena' = [ena EXCEPT ![p] = NoCore] /\ UNCHANGED <<handler, type>>
         \/ At(t, "typeOff") /\ type' = [type EXCEPT ![p] = mapIrqType("none")] /\ UNCHANGED <<handler, ena>>
      /\ Done(t)
      /\ UNCHANGED <<intr, status, isr, seen, use, due, stray, calls>>

\* esp_intr_enable(gpio_intr_handle), and the end of the call.
Unmask(t) ==
  /\ At(t, "unmask")
  /\ unmasked' = (core # NoCore)
  /\ use' = [use EXCEPT ![pin[t]] = IF ena[pin[t]] = NoCore THEN "detached"
                                    ELSE IF @ = "early" THEN "raced" ELSE "attached"]
  /\ Done(t)
  /\ UNCHANGED <<inited, core, regs, status, isr, seen, due, stray, calls>>

-----------------------------------------------------------------------------
(* Edges and the service routine.                                          *)

\* A rising (1) or falling (2) edge is latched if int_type asks for it.
Edge(p, e) ==
  /\ type[p] \in {e, 3}
  /\ status' = status \cup {p}
  /\ due' = IF use[p] \in InUse THEN due \cup {p} ELSE due
  /\ UNCHANGED <<task, intr, regs, isr, seen, use, stray, calls>>

Low  == {p \in Pins : p < 32}
High == Pins \ Low

\* The CPU enters gpio_external_isr, which reads GPIO.status.
Enter ==
  /\ isr = "idle"
  /\ unmasked
  /\ \E p \in status : ena[p] = core
  /\ seen' = status \cap Low
  /\ isr' = "readHigh"
  /\ UNCHANGED <<task, intr, regs, status, use, due, stray, calls>>

ReadHigh ==
  /\ isr = "readHigh"
  /\ seen' = seen \cup (status \cap High)
  /\ isr' = "clearLow"
  /\ UNCHANGED <<task, intr, regs, status, use, due, stray, calls>>

\* status_w1tc = what was read; a routine that clears all that is latched.
ClearAll(bank) == status' = status \ bank
Clear(bank)    == status' = status \ (seen \cap bank)

ClearStatus ==
  /\ \/ isr = "clearLow"  /\ Clear(Low)  /\ isr' = "clearHigh"
     \/ isr = "clearHigh" /\ Clear(High) /\ isr' = "walk"
  /\ UNCHANGED <<task, intr, regs, seen, use, due, stray, calls>>

\* The pins in ascending order; a handler runs if there is one.
Walk ==
  /\ isr = "walk"
  /\ \E p \in seen :
       /\ \A q \in seen : p <= q
       /\ seen' = seen \ {p}
       /\ due' = IF handler[p] THEN due \ {p} ELSE due
       /\ stray' = [stray EXCEPT ![p] = IF handler[p] /\ use[p] = "detached" /\ @ < 3 THEN @ + 1 ELSE @]
  /\ UNCHANGED <<task, intr, regs, status, isr, use, calls>>

Leave ==
  /\ isr = "walk"
  /\ seen = {}
  /\ isr' = "idle"
  /\ UNCHANGED <<task, intr, regs, status, seen, use, due, stray, calls>>

Step(t) ==
  InitIrqs(t) \/ Alloc(t) \/ Check(t) \/ Mask(t) \/ SetRegs(t) \/ Unmask(t)
Isr == Enter \/ ReadHigh \/ ClearStatus \/ Walk \/ Leave

Next ==
  \/ \E t \in Tasks, p \in Pins : detachIrqHandler(t, p) \/ \E e \in Edges : attachIrqHandler(t, p, e)
  \/ \E t \in Tasks : Step(t)
  \/ \E p \in Pins, e \in {1, 2} : Edge(p, e)
  \/ Isr

Spec == Init /\ [][Next]_vars

\* The scheduler runs every ready task, and the CPU takes an interrupt that stays pending.
FairSpec == Spec /\ (\A t \in Tasks : WF_vars(Step(t))) /\ WF_vars(Isr)

-----------------------------------------------------------------------------
(* Properties.                                                             *)

\* An edge on an attached pin is latched, or in what the service routine has read and
\* not yet walked, until the handler has run after it (44-75).
NoLostEdge == \A p \in due : p \in status \/ p \in seen

\* The handler of a detached pin runs at most twice more: for the edge in what the
\* service routine has read and for one latched before int_type is cleared (170-179).
FewStrays == \A p \in Pins : stray[p] <= 2

\* Every edge on an attached pin is handled, or the pin is attached anew or detached;
\* unless another task was still allocating the interrupt when the pin was attached, so
\* that the core it is enabled for was guessed from a NULL handle (142-168).
EdgesHandled == \A p \in Pins :
  (p \in due /\ use[p] = "attached") ~> ~(p \in due /\ use[p] = "attached")

-----------------------------------------------------------------------------
(* The inductive invariant behind NoLostEdge.                              *)

\* The handler is in the table before int_ena and int_type let an edge through: it is
\* still to be set at the first steps of an attach, and is set at the later ones.
Early    == {Attach, Tail(Attach), Tail(Tail(Attach))}
Later(s) == \A i \in 1..Len(s) : s[i] \notin {"init", "alloc", "handler"}
HandlerSet ==
  /\ \A t \in Tasks : todo[t] \in Early \/ Later(todo[t])
  /\ \A t \in Tasks : todo[t] # <<>> => pin[t] \in Pins
  /\ \A t \in Tasks : Later(todo[t]) /\ (\E i \in 1..Len(todo[t]) : todo[t][i] = "ena") => handler[pin[t]]
  /\ \A p \in Pins : ena[p] # NoCore => handler[p]
  /\ \A p \in Pins : use[p] \in InUse => handler[p]
  /\ \A p \in due : handler[p]

NothingSeen == isr = "idle" => seen = {}

\* What attachIrqHandler sets, in which order, and what the service routine reads and
\* clears (44-75, 142-179).
EdgeInv == TypeOK /\ HandlerSet /\ NothingSeen /\ NoLostEdge
=============================================================================
