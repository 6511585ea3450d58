------------------------------ MODULE Critical ------------------------------
(***************************************************************************)
(* The critical sections of soc/esp32.c: a portMUX for each core, and      *)
(* tasks that enter and leave sections, nested ones too, while FreeRTOS    *)
(* moves them between the cores they may run on.                           *)
(***************************************************************************)
EXTENDS Naturals, Sequences

CONSTANTS
  Tasks,
  Cores,
  Affinity,   \* Affinity[t]: the cores t may run on, one of them if it is pinned
  MaxNest,    \* bound on the nesting of sections
  None        \* no core

VARIABLES
  todo,     \* the steps left of the call each task makes
  at,       \* at[t]: the core t runs on
  id,       \* the local variable int id of that call
  masked,   \* the tasks that have masked the interrupts of their core
  nest,     \* how many sections each task is in
  mux,      \* xCoreMutex: the core that holds each lock, and how often
  moved,    \* a task changed its core after it had asked for it
  halted    \* an assertion has failed

vars == <<todo, at, id, masked, nest, mux, moved, halted>>

-----------------------------------------------------------------------------
(* The functions; portENTER_CRITICAL masks the interrupts, then locks.     *)

\* A function that locks before it masks, and one that locks twice.
LockFirst  == <<"id", "acquire", "mask">>
LockTwice  == <<"id", "mask", "acquire", "acquire">>
enter_critical == <<"id", "mask", "acquire">>
exit_critical  == <<"id", "release">>

Free == [owner |-> None, count |-> 0]

TypeOK ==
  /\ todo \in [Tasks -> Seq({"id", "mask", "acquire", "release"})]
  /\ at \in [Tasks -> Cores \cup {None}]
  /\ id \in [Tasks -> Cores]
  /\ masked \subseteq Tasks
  /\ nest \in [Tasks -> 0..MaxNest]
  /\ mux \in [Cores -> [owner : Cores \cup {None}, count : 0..MaxNest]]
  /\ moved \in BOOLEAN /\ halted \in BOOLEAN

Init ==
  /\ todo = [t \in Tasks |-> <<>>]
  /\ at = [t \in Tasks |-> None]
  /\ id = [t \in Tasks |-> CHOOSE c \in Cores : TRUE]
  /\ masked = {}
  /\ nest = [t \in Tasks |-> 0]
  /\ mux = [c \in Cores |-> Free]
  /\ moved = FALSE
  /\ halted = FALSE

At(t, step) == ~halted /\ at[t] # None /\ todo[t] # <<>> /\ Head(todo[t]) = step
Done(t)     == todo' = [todo EXCEPT ![t] = Tail(@)]

-----------------------------------------------------------------------------
(* FreeRTOS: a core runs one task at a time, and changes it unless its     *)
(* interrupts are masked.                                                  *)

Asked(t) == todo[t] # <<>> /\ Head(todo[t]) = "mask"

Dispatch(t, c) ==
  /\ ~halted
  /\ at[t] = None
  /\ c \in Affinity[t]
  /\ \A u \in Tasks : at[u] # c
  /\ at' = [at EXCEPT ![t] = c]
  /\ moved' = (moved \/ (Asked(t) /\ id[t] # c))
  /\ UNCHANGED <<todo, id, masked, nest, mux, halted>>

Preempt(t) ==
  /\ ~halted
  /\ at[t] # None
  /\ t \notin masked
  /\ at' = [at EXCEPT ![t] = None]
  /\ UNCHANGED <<todo, id, masked, nest, mux, moved, halted>>

-----------------------------------------------------------------------------
(* Sections.                                                               *)

Call(t, program) ==
  /\ ~halted
  /\ at[t] # None
  /\ todo[t] = <<>>
  /\ todo' = [todo EXCEPT ![t] = program]
  /\ UNCHANGED <<at, id, masked, nest, mux, moved, halted>>

Enter(t) == nest[t] < MaxNest /\ Call(t, enter_critical)
Exit(t)  == nest[t] > 0 /\ Call(t, exit_critical)

\* id = xPortGetCoreID()
CoreID(t) ==
  /\ At(t, "id")
  /\ id' = [id EXCEPT ![t] = at[t]]
  /\ Done(t)
  /\ UNCHANGED <<at, masked, nest, mux, moved, halted>>

Mask(t) ==
  /\ At(t, "mask")
  /\ masked' = masked \cup {t}
  /\ Done(t)
  /\ UNCHANGED <<at, id, nest, mux, moved, halted>>

\* A lock is its holder core's as often as that core asks; the other core spins.
Acquire(t) ==
  /\ At(t, "acquire")
  /\ mux[id[t]].owner \in {None, at[t]}
  /\ mux' = [mux EXCEPT ![id[t]] = [owner |-> at[t], count |-> @.count + 1]]
  /\ nest' = [nest EXCEPT ![t] = @ + 1]
  /\ Done(t)
  /\ UNCHANGED <<at, id, masked, moved, halted>>

Release(t) ==
  /\ At(t, "release")
  /\ mux[id[t]].owner = at[t]
  /\ mux' = [mux EXCEPT ![id[t]] = IF @.count = 1 THEN Free ELSE [owner |-> @.owner, count |-> @.count - 1]]
  /\ nest' = [nest EXCEPT ![t] = @ - 1]
  /\ masked' = IF nest[t] = 1 THEN masked \ {t} ELSE masked
  /\ Done(t)
  /\ UNCHANGED <<at, id, moved, halted>>

\* FreeRTOS asserts that the lock given back is the core's own, and the panic halts the chip.
ReleaseFails(t) ==
  /\ At(t, "release")
  /\ mux[id[t]].owner # at[t]
  /\ halted' = TRUE
  /\ UNCHANGED <<todo, at, id, masked, nest, mux, moved>>

Next ==
  \E t \in Tasks :
    \/ \E c \in Cores : Dispatch(t, c)
    \/ Preempt(t) \/ Enter(t) \/ Exit(t)
    \/ CoreID(t) \/ Mask(t) \/ Acquire(t) \/ Release(t) \/ ReleaseFails(t)

Spec == Init /\ [][Next]_vars

-----------------------------------------------------------------------------
(* Properties.                                                             *)

\* Each lock is held by the one task that is in a section on that core, as often as its
\* sections are nested, so that tasks of one core exclude one another, nobody spins and
\* every lock can be given back: unless a task changed its core between xPortGetCoreID
\* and the masking (25-39).
OwnLock ==
  ~moved =>
    /\ ~halted
    /\ \A c \in Cores :
         \/ mux[c] = Free /\ \A t \in Tasks : at[t] = c => nest[t] = 0
         \/ \E t \in Tasks : at[t] = c /\ nest[t] > 0 /\ mux[c] = [owner |-> c, count |-> nest[t]]
=============================================================================
