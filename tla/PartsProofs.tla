---------------------------- MODULE PartsProofs -----------------------------
(***************************************************************************)
(* The critical sections, PWM and SPIFFS, for any tasks, cores, timers,    *)
(* frequencies, duty cycles and objects.  The critical sections come       *)
(* first: what holds even when a task changes its core on its way into a   *)
(* section, and, as long as none does, that each core's lock is held by    *)
(* the one task that is in a section there.                                *)
(***************************************************************************)
EXTENDS Parts, TLAPS

Todos == {<<>>, <<"id", "mask", "acquire">>, <<"mask", "acquire">>, <<"acquire">>,
          <<"id", "release">>, <<"release">>}
Entering == {<<"id", "mask", "acquire">>, <<"mask", "acquire">>, <<"acquire">>}
Leaving  == {<<"id", "release">>, <<"release">>}

Types ==
  /\ todo \in [Tasks -> Todos]
  /\ at \in [Tasks -> Cores \cup {None}]
  /\ id \in [Tasks -> Cores]
  /\ masked \subseteq Tasks
  /\ nest \in [Tasks -> Nat]
  /\ mux \in [Cores -> [owner : Cores \cup {None}, count : Nat]]
  /\ moved \in BOOLEAN /\ halted \in BOOLEAN

\* A core runs one task.
OneTask == \A t, u \in Tasks : at[t] = at[u] /\ at[t] # None => t = u

\* A task in a section, or about to lock, has its core to itself; who leaves one is in
\* it, and who enters one has room.
Pinned ==
  \A t \in Tasks :
    /\ nest[t] > 0 \/ todo[t] = <<"acquire">> => t \in masked
    /\ t \in masked => at[t] # None
    /\ todo[t] \in Leaving => nest[t] > 0
    /\ nest[t] <= MaxNest
    /\ todo[t] \in Entering => nest[t] < MaxNest

\* A task in a section asks for the core it runs on, and stays there.
Stays ==
  \A t \in Tasks :
    nest[t] > 0 /\ todo[t] \in {<<"mask", "acquire">>, <<"acquire">>, <<"release">>} => id[t] = at[t]

\* The depth at which task t holds lock c.
Depth(c, t) == IF mux[c].owner = at[t] THEN mux[c].count ELSE 0

\* A task in a section holds its own core's lock as often as it is nested, but perhaps
\* for one: the lock of a core it has left.
OwnCount(t) ==
  \/ /\ Depth(at[t], t) = nest[t]
     /\ \A c \in Cores : mux[c].owner = at[t] => c = at[t]
  \/ /\ Depth(at[t], t) = nest[t] - 1
     /\ \E c \in Cores : /\ c # at[t] /\ mux[c] = [owner |-> at[t], count |-> 1]
                         /\ \A d \in Cores : mux[d].owner = at[t] => d \in {c, at[t]}

\* A lock that is held is held for a task in a section.
Holders ==
  /\ \A c \in Cores : mux[c].owner = None => mux[c] = Free
  /\ \A c \in Cores : mux[c].owner # None =>
       mux[c].count > 0 /\ \E t \in Tasks : at[t] = mux[c].owner /\ nest[t] > 0
  /\ \A t \in Tasks : nest[t] > 0 => OwnCount(t)

BaseInv == Types /\ OneTask /\ Pinned /\ Stays /\ Holders

\* The core a task has asked for is the one it runs on, where that matters.
RightCore ==
  \A t \in Tasks :
    /\ todo[t] = <<"mask", "acquire">> /\ at[t] # None => id[t] = at[t]
    /\ todo[t] \in {<<"acquire">>, <<"release">>} => id[t] = at[t]

\* Each lock says how deep the task on its core is in sections; else it is free.
Locks ==
  \A c \in Cores :
    /\ (\A t \in Tasks : at[t] = c => nest[t] = 0) => mux[c] = Free
    /\ \A t \in Tasks : at[t] = c /\ nest[t] > 0 => mux[c] = [owner |-> c, count |-> nest[t]]

SectionInv == BaseInv /\ (moved \/ (~halted /\ RightCore /\ Locks))

\* The heads and tails of what is left of a call.
LEMMA Steps ==
  ASSUME NEW s \in Todos, s # <<>>
  PROVE  /\ Head(s) = "id" => s \in {<<"id", "mask", "acquire">>, <<"id", "release">>}
         /\ Head(s) = "mask" => s = <<"mask", "acquire">>
         /\ Head(s) = "acquire" => s = <<"acquire">>
         /\ Head(s) = "release" => s = <<"release">>
  BY DEF Todos

LEMMA Tails ==
  /\ Tail(<<"id", "mask", "acquire">>) = <<"mask", "acquire">>
  /\ Tail(<<"mask", "acquire">>) = <<"acquire">>
  /\ Tail(<<"id", "release">>) = <<"release">>
  /\ Tail(<<"acquire">>) = <<>>
  /\ Tail(<<"release">>) = <<>>
  OBVIOUS

\* What is left of calls differs.
LEMMA Different ==
  /\ <<>> \notin {<<"id", "mask", "acquire">>, <<"mask", "acquire">>, <<"acquire">>, <<"id", "release">>, <<"release">>}
  /\ <<"mask", "acquire">> \notin {<<"id", "mask", "acquire">>, <<"acquire">>, <<"id", "release">>, <<"release">>}
  /\ <<"acquire">> \notin {<<"id", "mask", "acquire">>, <<"id", "release">>, <<"release">>}
  /\ <<"release">> \notin {<<"id", "mask", "acquire">>, <<"id", "release">>}
  /\ <<"id", "mask", "acquire">> # <<"id", "release">>
  OBVIOUS

-----------------------------------------------------------------------------
(* Critical sections: what always holds.                                   *)

LEMMA BaseInit ==
  ASSUME Init
  PROVE  BaseInv
<1>1. Types
  BY CoreAssumption DEF Init, Types, Todos, Free
<1>2. OneTask /\ Pinned /\ Stays
  BY CoreAssumption, Different DEF Init, OneTask, Pinned, Stays, Entering, Leaving
<1>3. Holders
  BY DEF Init, Holders, Free
<1>. QED  BY <1>1, <1>2, <1>3 DEF BaseInv

LEMMA BaseDispatch ==
  ASSUME BaseInv, NEW t \in Tasks, NEW c \in Cores, Dispatch(t, c)
  PROVE  BaseInv'
<1>1. Types /\ OneTask /\ Pinned /\ Stays /\ Holders
  BY DEF BaseInv
<1>2. /\ at[t] = None /\ c # None
      /\ \A u \in Tasks : at[u] # c
      /\ at' = [at EXCEPT ![t] = c]
      /\ moved' \in BOOLEAN
      /\ UNCHANGED <<todo, id, masked, nest, mux, halted>>
  BY NoneAssumption DEF Dispatch, BaseInv, Types
<1>3. Types' /\ at'[t] = c /\ \A u \in Tasks \ {t} : at'[u] = at[u]
  BY <1>1, <1>2 DEF Types
<1>4. t \notin masked /\ nest[t] = 0
  <2>1. nest[t] \in Nat
    BY <1>1 DEF Types
  <2>. QED  BY <2>1, <1>1, <1>2 DEF Pinned
<1>5. OneTask'
  BY <1>1, <1>2, <1>3 DEF OneTask
<1>6. Pinned'
  BY <1>1, <1>2, <1>3 DEF Pinned
<1>7. Stays'
  BY <1>1, <1>2, <1>3, <1>4 DEF Stays
<1>8. Holders'
  BY <1>1, <1>2, <1>3, <1>4 DEF Holders, OwnCount, Depth, Free
<1>. QED  BY <1>3, <1>5, <1>6, <1>7, <1>8 DEF BaseInv

LEMMA BasePreempt ==
  ASSUME BaseInv, NEW t \in Tasks, Preempt(t)
  PROVE  BaseInv'
<1>1. Types /\ OneTask /\ Pinned /\ Stays /\ Holders
  BY DEF BaseInv
<1>2. /\ t \notin masked
      /\ at' = [at EXCEPT ![t] = None]
      /\ UNCHANGED <<todo, id, masked, nest, mux, moved, halted>>
  BY DEF Preempt
<1>3. Types' /\ at'[t] = None /\ \A u \in Tasks \ {t} : at'[u] = at[u]
  BY <1>1, <1>2 DEF Types
<1>4. nest[t] = 0
  <2>1. nest[t] \in Nat
    BY <1>1 DEF Types
  <2>. QED  BY <2>1, <1>1, <1>2 DEF Pinned
<1>5. OneTask' /\ Pinned' /\ Stays'
  BY <1>1, <1>2, <1>3, <1>4 DEF OneTask, Pinned, Stays
<1>6. Holders'
  BY <1>1, <1>2, <1>3, <1>4 DEF Holders, OwnCount, Depth, Free
<1>. QED  BY <1>3, <1>5, <1>6 DEF BaseInv

LEMMA BaseCall ==
  ASSUME BaseInv, NEW t \in Tasks, Enter(t) \/ Exit(t)
  PROVE  BaseInv'
<1>1. Types /\ OneTask /\ Pinned /\ Stays /\ Holders
  BY DEF BaseInv
<1>2. UNCHANGED <<at, id, masked, nest, mux, moved, halted>>
  BY DEF Enter, Exit, Call
<1>3. \/ nest[t] < MaxNest /\ todo' = [todo EXCEPT ![t] = <<"id", "mask", "acquire">>]
      \/ nest[t] > 0 /\ todo' = [todo EXCEPT ![t] = <<"id", "release">>]
  BY DEF Enter, Exit, Call, enter_critical, exit_critical
<1>4. Types' /\ \A u \in Tasks \ {t} : todo'[u] = todo[u]
  BY <1>1, <1>2, <1>3 DEF Types, Todos
<1>5. /\ todo'[t] \notin {<<"mask", "acquire">>, <<"acquire">>, <<"release">>}
      /\ todo'[t] \in Leaving => nest[t] > 0
      /\ todo'[t] \in Entering => nest[t] < MaxNest
  BY <1>1, <1>3, Different DEF Types, Leaving, Entering
<1>6. OneTask' /\ Holders'
  BY <1>1, <1>2 DEF OneTask, Holders, OwnCount, Depth, Free
<1>7. Pinned'
  BY <1>1, <1>2, <1>4, <1>5 DEF Pinned
<1>8. Stays'
  BY <1>1, <1>2, <1>4, <1>5 DEF Stays
<1>. QED  BY <1>4, <1>6, <1>7, <1>8 DEF BaseInv

LEMMA BaseCoreID ==
  ASSUME BaseInv, NEW t \in Tasks, CoreID(t)
  PROVE  /\ BaseInv'
         /\ todo'[t] \in {<<"mask", "acquire">>, <<"release">>} /\ id'[t] = at[t]
         /\ \A u \in Tasks \ {t} : todo'[u] = todo[u] /\ id'[u] = id[u]
         /\ todo'[t] = <<"release">> => todo[t] = <<"id", "release">>
<1>1. Types /\ OneTask /\ Pinned /\ Stays /\ Holders
  BY DEF BaseInv
<1>2. /\ UNCHANGED <<at, masked, nest, mux, moved, halted>>
      /\ id' = [id EXCEPT ![t] = at[t]]
      /\ todo' = [todo EXCEPT ![t] = Tail(todo[t])]
      /\ at[t] # None /\ todo[t] # <<>> /\ Head(todo[t]) = "id"
  BY DEF CoreID, At, Done
<1>3. todo[t] \in {<<"id", "mask", "acquire">>, <<"id", "release">>}
  <2>1. todo[t] \in Todos
    BY <1>1 DEF Types
  <2>. QED  BY <2>1, <1>2, Steps
<1>4. todo'[t] = Tail(todo[t])
  BY <1>1, <1>2 DEF Types
<1>5. \/ todo[t] = <<"id", "mask", "acquire">> /\ todo'[t] = <<"mask", "acquire">>
      \/ todo[t] = <<"id", "release">> /\ todo'[t] = <<"release">>
  BY <1>3, <1>4, Tails
<1>6. /\ \A u \in Tasks \ {t} : todo'[u] = todo[u] /\ id'[u] = id[u]
      /\ id'[t] = at[t]
  BY <1>1, <1>2 DEF Types
<1>7. Types'
  <2>1. todo' \in [Tasks -> Todos]
    BY <1>1, <1>2, <1>4, <1>5 DEF Types, Todos
  <2>2. id' \in [Tasks -> Cores]
    BY <1>1, <1>2 DEF Types
  <2>. QED  BY <1>1, <1>2, <2>1, <2>2 DEF Types
<1>8. OneTask' /\ Holders'
  BY <1>1, <1>2 DEF OneTask, Holders, OwnCount, Depth, Free
<1>9. /\ todo'[t] # <<"acquire">>
      /\ todo'[t] \in Leaving => todo[t] \in Leaving
      /\ todo'[t] \in Entering => todo[t] \in Entering
  BY <1>5, Different DEF Leaving, Entering
<1>10. Pinned'
  BY <1>1, <1>2, <1>6, <1>9 DEF Pinned
<1>11. Stays'
  BY <1>1, <1>2, <1>6 DEF Stays
<1>12. BaseInv'
  BY <1>7, <1>8, <1>10, <1>11 DEF BaseInv
<1>. QED  BY <1>5, <1>6, <1>12, Different

LEMMA BaseMask ==
  ASSUME BaseInv, NEW t \in Tasks, Mask(t)
  PROVE  /\ BaseInv'
         /\ todo[t] = <<"mask", "acquire">> /\ todo'[t] = <<"acquire">>
         /\ \A u \in Tasks \ {t} : todo'[u] = todo[u]
<1>1. Types /\ OneTask /\ Pinned /\ Stays /\ Holders
  BY DEF BaseInv
<1>2. /\ UNCHANGED <<at, id, nest, mux, moved, halted>>
      /\ masked' = masked \cup {t}
      /\ todo' = [todo EXCEPT ![t] = Tail(todo[t])]
      /\ at[t] # None /\ todo[t] # <<>> /\ Head(todo[t]) = "mask"
  BY DEF Mask, At, Done
<1>3. todo[t] = <<"mask", "acquire">>
  <2>1. todo[t] \in Todos
    BY <1>1 DEF Types
  <2>. QED  BY <2>1, <1>2, Steps
<1>4. todo'[t] = <<"acquire">> /\ \A u \in Tasks \ {t} : todo'[u] = todo[u]
  BY <1>1, <1>2, <1>3, Tails DEF Types
<1>5. Types'
  <2>1. todo' \in [Tasks -> Todos]
    BY <1>1, <1>2, <1>4 DEF Types, Todos
  <2>. QED  BY <1>1, <1>2, <2>1 DEF Types
<1>6. OneTask' /\ Holders'
  BY <1>1, <1>2 DEF OneTask, Holders, OwnCount, Depth, Free
<1>7. Pinned'
  BY <1>1, <1>2, <1>3, <1>4, Different DEF Pinned, Leaving, Entering
<1>8. Stays'
  BY <1>1, <1>2, <1>3, <1>4, Different DEF Stays
<1>9. BaseInv'
  BY <1>5, <1>6, <1>7, <1>8 DEF BaseInv
<1>. QED  BY <1>3, <1>4, <1>9

\* A task that locks: its first lock may be another core's, its next are its own core's.
LEMMA BaseAcquire ==
  ASSUME BaseInv, NEW t \in Tasks, Acquire(t)
  PROVE  /\ BaseInv'
         /\ todo[t] = <<"acquire">> /\ todo'[t] = <<>> /\ nest'[t] = nest[t] + 1
         /\ \A u \in Tasks \ {t} : todo'[u] = todo[u] /\ nest'[u] = nest[u]
<1>1. Types /\ OneTask /\ Pinned /\ Stays /\ Holders
  BY DEF BaseInv
<1>2. /\ UNCHANGED <<at, id, masked, moved, halted>>
      /\ mux' = [mux EXCEPT ![id[t]] = [owner |-> at[t], count |-> mux[id[t]].count + 1]]
      /\ nest' = [nest EXCEPT ![t] = nest[t] + 1]
      /\ todo' = [todo EXCEPT ![t] = Tail(todo[t])]
      /\ mux[id[t]].owner \in {None, at[t]}
      /\ at[t] # None /\ todo[t] # <<>> /\ Head(todo[t]) = "acquire"
  BY DEF Acquire, At, Done
<1>3. todo[t] = <<"acquire">>
  <2>1. todo[t] \in Todos
    BY <1>1 DEF Types
  <2>. QED  BY <2>1, <1>2, Steps
<1>4. todo'[t] = <<>> /\ \A u \in Tasks \ {t} : todo'[u] = todo[u]
  BY <1>1, <1>2, <1>3, Tails DEF Types
<1>5. at[t] \in Cores /\ id[t] \in Cores /\ t \in masked /\ nest[t] \in Nat /\ nest[t] < MaxNest
  BY <1>1, <1>2, <1>3 DEF Pinned, Types, Entering
<1>6. nest'[t] = nest[t] + 1 /\ \A u \in Tasks \ {t} : nest'[u] = nest[u]
  BY <1>1, <1>2 DEF Types
<1>7. /\ mux'[id[t]] = [owner |-> at[t], count |-> mux[id[t]].count + 1]
      /\ \A d \in Cores \ {id[t]} : mux'[d] = mux[d]
      /\ mux[id[t]].count \in Nat
  BY <1>1, <1>2, <1>5 DEF Types
<1>8. Types'
  <2>1. todo' \in [Tasks -> Todos]
    BY <1>1, <1>2, <1>4 DEF Types, Todos
  <2>2. nest' \in [Tasks -> Nat]
    BY <1>1, <1>2, <1>5 DEF Types
  <2>3. mux' \in [Cores -> [owner : Cores \cup {None}, count : Nat]]
    BY <1>1, <1>2, <1>5, <1>7 DEF Types
  <2>. QED  BY <1>1, <1>2, <2>1, <2>2, <2>3 DEF Types
<1>9. OneTask'
  BY <1>1, <1>2 DEF OneTask
<1>10. Pinned'
  <2>1. SUFFICES ASSUME NEW u \in Tasks
                 PROVE  /\ nest'[u] > 0 \/ todo'[u] = <<"acquire">> => u \in masked
                        /\ u \in masked => at[u] # None
                        /\ todo'[u] \in Leaving => nest'[u] > 0
                        /\ nest'[u] <= MaxNest
                        /\ todo'[u] \in Entering => nest'[u] < MaxNest
    BY <1>2 DEF Pinned
  <2>2. CASE u # t
    BY <1>1, <1>4, <1>6, <2>2 DEF Pinned
  <2>3. CASE u = t
    <3>1. todo'[t] \notin Entering \cup Leaving
      BY <1>4, Different DEF Entering, Leaving
    <3>2. nest'[t] <= MaxNest
      BY <1>5, <1>6, CoreAssumption
    <3>. QED  BY <1>2, <1>5, <2>3, <3>1, <3>2
  <2>. QED  BY <2>2, <2>3
<1>11. Stays'
  BY <1>1, <1>2, <1>4, <1>6, Different DEF Stays
<1>12. ASSUME nest[t] = 0 PROVE \A d \in Cores : mux[d].owner # at[t]
  BY <1>1, <1>2, <1>12 DEF Holders, OneTask
<1>13. mux[id[t]].owner = None => mux[id[t]].count = 0
  BY <1>1, <1>5 DEF Holders, Free
<1>14. nest[t] > 0 => id[t] = at[t]
  BY <1>1, <1>3 DEF Stays
<1>15. Holders'
  <2>1. ASSUME NEW c \in Cores, mux'[c].owner = None PROVE mux'[c] = Free
    BY <1>1, <1>2, <1>7, <2>1 DEF Holders, Free
  <2>2. ASSUME NEW c \in Cores, mux'[c].owner # None
        PROVE  mux'[c].count > 0 /\ \E u \in Tasks : at[u] = mux'[c].owner /\ nest'[u] > 0
    <3>1. CASE c = id[t]
      BY <1>5, <1>6, <1>7, <3>1
    <3>2. CASE c # id[t]
      <4>1. PICK u \in Tasks : at[u] = mux[c].owner /\ nest[u] > 0 /\ mux[c].count > 0
        BY <1>1, <1>7, <2>2, <3>2 DEF Holders
      <4>2. nest'[u] > 0
        BY <4>1, <1>5, <1>6
      <4>. QED  BY <4>1, <4>2, <1>7, <3>2
    <3>. QED  BY <3>1, <3>2
  <2>3. ASSUME NEW u \in Tasks, nest'[u] > 0
        PROVE  OwnCount(u)'
    <3>0. SUFFICES
            \/ /\ Depth(at[u], u)' = nest'[u]
               /\ \A c \in Cores : mux'[c].owner = at[u] => c = at[u]
            \/ /\ Depth(at[u], u)' = nest'[u] - 1
               /\ \E c \in Cores : /\ c # at[u] /\ mux'[c] = [owner |-> at[u], count |-> 1]
                                   /\ \A d \in Cores : mux'[d].owner = at[u] => d \in {c, at[u]}
      BY <1>2 DEF OwnCount
    <3>1. CASE u # t
      <4>1. nest[u] > 0 /\ at[u] \in Cores /\ at[u] # at[t] /\ mux[id[t]].owner # at[u]
        BY <1>1, <1>2, <1>6, <2>3, <3>1, NoneAssumption DEF OneTask, Pinned, Types
      <4>2. Depth(at[u], u)' = Depth(at[u], u)
        BY <1>2, <1>7, <4>1 DEF Depth
      <4>3. \A c \in Cores : mux'[c].owner = at[u] <=> mux[c].owner = at[u]
        BY <1>7, <4>1
      <4>4. \A c \in Cores : mux[c].owner = at[u] => mux'[c] = mux[c]
        BY <1>7, <4>1
      <4>5. CASE Depth(at[u], u) = nest[u] /\ \A c \in Cores : mux[c].owner = at[u] => c = at[u]
        BY <4>2, <4>3, <4>5, <1>6, <3>1
      <4>6. CASE /\ Depth(at[u], u) = nest[u] - 1
                 /\ \E c \in Cores : /\ c # at[u] /\ mux[c] = [owner |-> at[u], count |-> 1]
                                     /\ \A d \in Cores : mux[d].owner = at[u] => d \in {c, at[u]}
        <5>1. PICK c \in Cores : /\ c # at[u] /\ mux[c] = [owner |-> at[u], count |-> 1]
                                 /\ \A d \in Cores : mux[d].owner = at[u] => d \in {c, at[u]}
          BY <4>6
        <5>2. mux'[c] = [owner |-> at[u], count |-> 1]
          BY <4>4, <5>1
        <5>. QED  BY <4>2, <4>3, <4>6, <5>1, <5>2, <1>6, <3>1
      <4>. QED  BY <1>1, <4>1, <4>5, <4>6 DEF Holders, OwnCount
    <3>2. CASE u = t /\ nest[t] = 0
      <4>1. \A d \in Cores : mux'[d].owner = at[t] => d = id[t]
        BY <1>7, <1>12, <3>2
      <4>2. mux'[id[t]] = [owner |-> at[t], count |-> 1]
        BY <1>2, <1>5, <1>7, <1>12, <1>13, <3>2
      <4>3. CASE id[t] = at[t]
        <5>1. Depth(at[t], t)' = 1
          BY <1>2, <4>2, <4>3 DEF Depth
        <5>. QED  BY <5>1, <4>1, <4>3, <1>6, <3>2
      <4>4. CASE id[t] # at[t]
        <5>1. Depth(at[t], t)' = 0
          BY <1>2, <1>5, <4>1, <4>4 DEF Depth
        <5>. QED  BY <5>1, <4>1, <4>2, <4>4, <1>5, <1>6, <3>2
      <4>. QED  BY <4>3, <4>4
    <3>3. CASE u = t /\ nest[t] > 0
      <4>1. id[t] = at[t]
        BY <1>14, <3>3
      <4>2. Depth(at[t], t)' = Depth(at[t], t) + 1
        BY <1>2, <1>5, <1>7, <1>13, <4>1 DEF Depth
      <4>3. CASE Depth(at[t], t) = nest[t] /\ \A c \in Cores : mux[c].owner = at[t] => c = at[t]
        BY <4>1, <4>2, <4>3, <1>6, <1>7, <3>3
      <4>4. CASE /\ Depth(at[t], t) = nest[t] - 1
                 /\ \E c \in Cores : /\ c # at[t] /\ mux[c] = [owner |-> at[t], count |-> 1]
                                     /\ \A d \in Cores : mux[d].owner = at[t] => d \in {c, at[t]}
        <5>1. PICK c \in Cores : /\ c # at[t] /\ mux[c] = [owner |-> at[t], count |-> 1]
                                 /\ \A d \in Cores : mux[d].owner = at[t] => d \in {c, at[t]}
          BY <4>4
        <5>2. mux'[c] = mux[c]
          BY <1>7, <4>1, <5>1
        <5>3. \A d \in Cores : mux'[d].owner = at[t] => d \in {c, at[t]}
          BY <1>7, <4>1, <5>1
        <5>4. Depth(at[t], t)' = nest'[t] - 1
          BY <4>2, <4>4, <1>5, <1>6
        <5>. QED  BY <5>1, <5>2, <5>3, <5>4, <3>3
      <4>. QED  BY <1>1, <3>3, <4>3, <4>4 DEF Holders, OwnCount
    <3>. QED  BY <3>1, <3>2, <3>3, <1>5
  <2>. QED  BY <1>2, <2>1, <2>2, <2>3 DEF Holders, Free
<1>16. BaseInv'
  BY <1>8, <1>9, <1>10, <1>11, <1>15 DEF BaseInv
<1>. QED  BY <1>3, <1>4, <1>6, <1>16

LEMMA BaseRelease ==
  ASSUME BaseInv, NEW t \in Tasks, Release(t)
  PROVE  /\ BaseInv'
         /\ todo[t] = <<"release">> /\ todo'[t] = <<>> /\ nest'[t] = nest[t] - 1
         /\ \A u \in Tasks \ {t} : todo'[u] = todo[u] /\ nest'[u] = nest[u]
<1>1. Types /\ OneTask /\ Pinned /\ Stays /\ Holders
  BY DEF BaseInv
<1>2. /\ UNCHANGED <<at, id, moved, halted>>
      /\ mux' = [mux EXCEPT ![id[t]] = IF mux[id[t]].count = 1 THEN Free
                 ELSE [owner |-> mux[id[t]].owner, count |-> mux[id[t]].count - 1]]
      /\ nest' = [nest EXCEPT ![t] = nest[t] - 1]
      /\ masked' = IF nest[t] = 1 THEN masked \ {t} ELSE masked
      /\ todo' = [todo EXCEPT ![t] = Tail(todo[t])]
      /\ mux[id[t]].owner = at[t]
      /\ at[t] # None /\ todo[t] # <<>> /\ Head(todo[t]) = "release"
  BY DEF Release, At, Done
<1>3. todo[t] = <<"release">>
  <2>1. todo[t] \in Todos
    BY <1>1 DEF Types
  <2>. QED  BY <2>1, <1>2, Steps
<1>4. todo'[t] = <<>> /\ \A u \in Tasks \ {t} : todo'[u] = todo[u]
  BY <1>1, <1>2, <1>3, Tails DEF Types
<1>5. /\ at[t] \in Cores /\ id[t] = at[t] /\ nest[t] \in Nat /\ nest[t] > 0
      /\ t \in masked /\ mux[at[t]].count \in Nat
  BY <1>1, <1>2, <1>3 DEF Pinned, Types, Leaving, Stays
<1>6. nest'[t] = nest[t] - 1 /\ nest'[t] \in Nat /\ \A u \in Tasks \ {t} : nest'[u] = nest[u]
  BY <1>1, <1>2, <1>5 DEF Types
<1>7. /\ mux'[at[t]] = IF mux[at[t]].count = 1 THEN Free
                       ELSE [owner |-> at[t], count |-> mux[at[t]].count - 1]
      /\ \A d \in Cores \ {at[t]} : mux'[d] = mux[d]
      /\ Depth(at[t], t) = mux[at[t]].count
  BY <1>1, <1>2, <1>5 DEF Types, Depth
<1>8. Depth(at[t], t) > 0
  BY <1>1, <1>2, <1>5, <1>7 DEF Holders
<1>9. Types'
  <2>1. todo' \in [Tasks -> Todos]
    BY <1>1, <1>2, <1>4 DEF Types, Todos
  <2>2. nest' \in [Tasks -> Nat]
    BY <1>1, <1>2, <1>5, <1>6 DEF Types
  <2>3. mux'[at[t]] \in [owner : Cores \cup {None}, count : Nat]
    BY <1>5, <1>7, <1>8 DEF Free
  <2>4. mux' \in [Cores -> [owner : Cores \cup {None}, count : Nat]]
    BY <1>1, <1>2, <1>5, <2>3 DEF Types
  <2>. QED  BY <1>1, <1>2, <2>1, <2>2, <2>4 DEF Types
<1>10. OneTask'
  BY <1>1, <1>2 DEF OneTask
<1>11. Pinned'
  <2>1. \A u \in Tasks \ {t} : u \in masked' <=> u \in masked
    BY <1>2
  <2>2. t \in masked' <=> nest'[t] > 0
    BY <1>2, <1>5, <1>6
  <2>3. <<>> \notin Entering \cup Leaving
    BY Different DEF Entering, Leaving
  <2>4. nest'[t] <= MaxNest
    BY <1>1, <1>5, <1>6, CoreAssumption DEF Pinned
  <2>. QED  BY <1>1, <1>2, <1>4, <1>5, <1>6, <2>1, <2>2, <2>3, <2>4, Different DEF Pinned
<1>12. Stays'
  BY <1>1, <1>2, <1>4, <1>6, Different DEF Stays
<1>13. Depth(at[t], t)' = Depth(at[t], t) - 1
  BY <1>2, <1>5, <1>7, <1>8, NoneAssumption DEF Depth, Free
<1>14. /\ \A c \in Cores : mux'[c].owner # None => mux'[c].owner = mux[c].owner
       /\ mux'[at[t]].owner = at[t] => Depth(at[t], t) > 1
       /\ mux'[at[t]].owner = None => Depth(at[t], t) = 1
  BY <1>2, <1>5, <1>7, <1>8, NoneAssumption DEF Free
<1>15. Holders'
  <2>1. ASSUME NEW c \in Cores, mux'[c].owner = None PROVE mux'[c] = Free
    BY <1>1, <1>2, <1>5, <1>7, <2>1, NoneAssumption DEF Holders, Free
  <2>2. ASSUME NEW u \in Tasks, nest'[u] > 0
        PROVE  OwnCount(u)'
    <3>0. SUFFICES
            \/ /\ Depth(at[u], u)' = nest'[u]
               /\ \A c \in Cores : mux'[c].owner = at[u] => c = at[u]
            \/ /\ Depth(at[u], u)' = nest'[u] - 1
               /\ \E c \in Cores : /\ c # at[u] /\ mux'[c] = [owner |-> at[u], count |-> 1]
                                   /\ \A d \in Cores : mux'[d].owner = at[u] => d \in {c, at[u]}
      BY <1>2 DEF OwnCount
    <3>1. CASE u # t
      <4>1. nest[u] > 0 /\ at[u] \in Cores /\ at[u] # at[t] /\ mux[at[t]].owner # at[u] /\ mux'[at[t]].owner # at[u]
        BY <1>1, <1>2, <1>5, <1>6, <1>14, <2>2, <3>1, NoneAssumption DEF OneTask, Pinned, Types
      <4>2. Depth(at[u], u)' = Depth(at[u], u)
        BY <1>2, <1>7, <4>1 DEF Depth
      <4>3. \A c \in Cores : mux'[c].owner = at[u] <=> mux[c].owner = at[u]
        BY <1>7, <4>1
      <4>4. \A c \in Cores : mux[c].owner = at[u] => mux'[c] = mux[c]
        BY <1>7, <4>1
      <4>5. CASE Depth(at[u], u) = nest[u] /\ \A c \in Cores : mux[c].owner = at[u] => c = at[u]
        BY <4>2, <4>3, <4>5, <1>6, <3>1
      <4>6. CASE /\ Depth(at[u], u) = nest[u] - 1
                 /\ \E c \in Cores : /\ c # at[u] /\ mux[c] = [owner |-> at[u], count |-> 1]
                                     /\ \A d \in Cores : mux[d].owner = at[u] => d \in {c, at[u]}
        <5>1. PICK c \in Cores : /\ c # at[u] /\ mux[c] = [owner |-> at[u], count |-> 1]
                                 /\ \A d \in Cores : mux[d].owner = at[u] => d \in {c, at[u]}
          BY <4>6
        <5>2. mux'[c] = [owner |-> at[u], count |-> 1]
          BY <4>4, <5>1
        <5>. QED  BY <4>2, <4>3, <4>6, <5>1, <5>2, <1>6, <3>1
      <4>. QED  BY <1>1, <4>1, <4>5, <4>6 DEF Holders, OwnCount
    <3>2. CASE u = t
      <4>1. CASE Depth(at[t], t) = nest[t] /\ \A c \in Cores : mux[c].owner = at[t] => c = at[t]
        <5>1. \A c \in Cores : mux'[c].owner = at[t] => c = at[t]
          BY <1>7, <4>1
        <5>. QED  BY <5>1, <4>1, <1>6, <1>13, <3>2
      <4>2. CASE /\ Depth(at[t], t) = nest[t] - 1
                 /\ \E c \in Cores : /\ c # at[t] /\ mux[c] = [owner |-> at[t], count |-> 1]
                                     /\ \A d \in Cores : mux[d].owner = at[t] => d \in {c, at[t]}
        <5>1. PICK c \in Cores : /\ c # at[t] /\ mux[c] = [owner |-> at[t], count |-> 1]
                                 /\ \A d \in Cores : mux[d].owner = at[t] => d \in {c, at[t]}
          BY <4>2
        <5>2. mux'[c] = mux[c]
          BY <1>7, <5>1
        <5>3. \A d \in Cores : mux'[d].owner = at[t] => d \in {c, at[t]}
          BY <1>7, <5>1
        <5>4. Depth(at[t], t)' = nest'[t] - 1
          BY <1>13, <4>2, <1>5, <1>6
        <5>. QED  BY <5>1, <5>2, <5>3, <5>4, <3>2
      <4>. QED  BY <1>1, <1>5, <3>2, <4>1, <4>2 DEF Holders, OwnCount
    <3>. QED  BY <3>1, <3>2
  <2>3. ASSUME NEW c \in Cores, mux'[c].owner # None
        PROVE  mux'[c].count > 0 /\ \E u \in Tasks : at[u] = mux'[c].owner /\ nest'[u] > 0
    <3>1. PICK u \in Tasks : at[u] = mux[c].owner /\ nest[u] > 0 /\ mux[c].count > 0
      BY <1>1, <1>14, <2>3 DEF Holders
    <3>2. at[u] = mux'[c].owner
      BY <1>14, <2>3, <3>1
    <3>3. CASE u # t
      <4>1. at[u] \in Cores /\ at[u] # at[t]
        BY <1>1, <1>2, <3>2, <3>3, <2>3 DEF OneTask, Types
      <4>2. c # at[t]
        BY <1>2, <1>5, <3>1, <4>1
      <4>. QED  BY <1>6, <1>7, <3>1, <3>2, <3>3, <4>2
    <3>4. CASE u = t /\ c = at[t]
      <4>1. Depth(at[t], t) > 1 /\ Depth(at[t], t) <= nest[t]
        <5>1. Depth(at[t], t) = nest[t] \/ Depth(at[t], t) = nest[t] - 1
          BY <1>1, <1>5 DEF Holders, OwnCount
        <5>. QED  BY <5>1, <1>5, <1>14, <3>2, <3>4
      <4>2. nest'[t] > 0 /\ mux'[c].count > 0
        BY <4>1, <1>5, <1>6, <1>7, <3>4
      <4>. QED  BY <4>2, <3>2, <3>4
    <3>5. CASE u = t /\ c # at[t]
      <4>1. Depth(at[t], t) = nest[t] - 1
        BY <1>1, <1>5, <3>1, <3>5 DEF Holders, OwnCount
      <4>2. nest'[t] > 0
        BY <4>1, <1>6, <1>8
      <4>. QED  BY <4>2, <1>7, <3>1, <3>2, <3>5
    <3>. QED  BY <3>3, <3>4, <3>5
  <2>. QED  BY <1>2, <2>1, <2>2, <2>3 DEF Holders, Free
<1>16. BaseInv'
  BY <1>9, <1>10, <1>11, <1>12, <1>15 DEF BaseInv
<1>. QED  BY <1>3, <1>4, <1>6, <1>16

LEMMA BaseFails ==
  ASSUME BaseInv, NEW t \in Tasks, ReleaseFails(t)
  PROVE  BaseInv'
BY DEF BaseInv, ReleaseFails, Types, OneTask, Pinned, Stays, Holders, OwnCount, Depth, Free

\* Types: what the run checks of them.
LEMMA BaseTypes ==
  ASSUME BaseInv
  PROVE  TypeOK
<1>1. Types /\ Pinned /\ Holders
  BY DEF BaseInv
<1>2. todo \in [Tasks -> Seq({"id", "mask", "acquire", "release"})]
  <2>1. Todos \subseteq Seq({"id", "mask", "acquire", "release"})
    BY DEF Todos
  <2>. QED  BY <1>1, <2>1 DEF Types
<1>3. nest \in [Tasks -> 0..MaxNest]
  <2>1. ASSUME NEW t \in Tasks PROVE nest[t] \in 0..MaxNest
    <3>1. nest[t] \in Nat /\ nest[t] <= MaxNest
      BY <1>1 DEF Types, Pinned
    <3>. QED  BY <3>1, CoreAssumption
  <2>. QED  BY <1>1, <2>1 DEF Types
<1>4. mux \in [Cores -> [owner : Cores \cup {None}, count : 0..MaxNest]]
  <2>1. SUFFICES ASSUME NEW c \in Cores PROVE mux[c].count \in 0..MaxNest
    BY <1>1 DEF Types
  <2>2. mux[c].count \in Nat /\ mux[c].owner \in Cores \cup {None}
    BY <1>1 DEF Types
  <2>3. CASE mux[c].owner = None
    BY <1>1, <2>3, CoreAssumption DEF Holders, Free
  <2>4. CASE mux[c].owner # None
    <3>1. PICK t \in Tasks : at[t] = mux[c].owner /\ nest[t] > 0
      BY <1>1, <2>4 DEF Holders
    <3>2. nest[t] \in Nat /\ nest[t] <= MaxNest
      BY <1>1 DEF Types, Pinned
    <3>3. mux[c].count <= nest[t]
      <4>1. CASE c = at[t]
        <5>1. Depth(at[t], t) = nest[t] \/ Depth(at[t], t) = nest[t] - 1
          BY <1>1, <3>1 DEF Holders, OwnCount
        <5>2. Depth(at[t], t) = mux[c].count
          BY <3>1, <4>1 DEF Depth
        <5>. QED  BY <5>1, <5>2, <3>2
      <4>2. CASE c # at[t]
        <5>1. mux[c].count = 1
          <6>1. mux[c].owner = at[t] /\ nest[t] > 0
          BY <3>1
        <6>2. ASSUME NEW d \in Cores, d # at[t], mux[d] = [owner |-> at[t], count |-> 1],
                     \A e \in Cores : mux[e].owner = at[t] => e \in {d, at[t]}
              PROVE  mux[c].count = 1
          BY <4>2, <6>1, <6>2
        <6>. QED  BY <1>1, <4>2, <6>1, <6>2 DEF Holders, OwnCount
        <5>. QED  BY <5>1, <3>1, <3>2
      <4>. QED  BY <4>1, <4>2
    <3>. QED  BY <2>2, <3>2, <3>3, CoreAssumption
  <2>. QED  BY <2>2, <2>3, <2>4
<1>. QED  BY <1>1, <1>2, <1>3, <1>4 DEF Types, TypeOK

-----------------------------------------------------------------------------
(* Critical sections whose tasks do not change their core on the way in.   *)

LEMMA SectionInit ==
  ASSUME Init
  PROVE  SectionInv
<1>1. BaseInv
  BY BaseInit
<1>2. RightCore
  BY Different DEF Init, RightCore
<1>3. Locks
  BY DEF Init, Locks
<1>. QED  BY <1>1, <1>2, <1>3 DEF SectionInv, Init

LEMMA SectionDispatch ==
  ASSUME SectionInv, ~moved', NEW t \in Tasks, NEW c \in Cores, Dispatch(t, c)
  PROVE  SectionInv'
<1>1. ~moved /\ ~halted /\ Types /\ OneTask /\ Pinned /\ RightCore /\ Locks
  BY DEF SectionInv, BaseInv, Dispatch
<1>2. BaseInv'
  BY BaseDispatch DEF SectionInv
<1>3. /\ at[t] = None /\ c # None
      /\ \A u \in Tasks : at[u] # c
      /\ at' = [at EXCEPT ![t] = c]
      /\ Asked(t) => id[t] = c
      /\ UNCHANGED <<todo, id, masked, nest, mux, halted>>
  BY NoneAssumption DEF Dispatch, SectionInv
<1>4. at'[t] = c /\ \A u \in Tasks \ {t} : at'[u] = at[u]
  BY <1>1, <1>3 DEF Types
<1>5. t \notin masked /\ nest[t] = 0 /\ todo[t] # <<"acquire">> /\ todo[t] # <<"release">>
  <2>1. nest[t] \in Nat
    BY <1>1 DEF Types
  <2>. QED  BY <2>1, <1>1, <1>3 DEF Pinned, Leaving
<1>6. todo[t] = <<"mask", "acquire">> => id[t] = c
  BY <1>3 DEF Asked
<1>7. RightCore'
  BY <1>1, <1>3, <1>4, <1>5, <1>6 DEF RightCore
<1>8. Locks'
  <2>1. SUFFICES ASSUME NEW d \in Cores
                 PROVE  /\ (\A u \in Tasks : at'[u] = d => nest[u] = 0) => mux[d] = Free
                        /\ \A u \in Tasks : at'[u] = d /\ nest[u] > 0
                             => mux[d] = [owner |-> d, count |-> nest[u]]
    BY <1>3 DEF Locks, Free
  <2>. QED  BY <1>1, <1>3, <1>4, <1>5 DEF Locks
<1>. QED  BY <1>1, <1>2, <1>3, <1>7, <1>8 DEF SectionInv

LEMMA SectionPreempt ==
  ASSUME SectionInv, ~moved', NEW t \in Tasks, Preempt(t)
  PROVE  SectionInv'
<1>1. ~moved /\ ~halted /\ Types /\ OneTask /\ Pinned /\ RightCore /\ Locks
  BY DEF SectionInv, BaseInv, Preempt
<1>2. BaseInv'
  BY BasePreempt DEF SectionInv
<1>3. /\ t \notin masked
      /\ at' = [at EXCEPT ![t] = None]
      /\ UNCHANGED <<todo, id, masked, nest, mux, halted>>
  BY DEF Preempt
<1>4. at'[t] = None /\ \A u \in Tasks \ {t} : at'[u] = at[u]
  BY <1>1, <1>3 DEF Types
<1>5. nest[t] = 0 /\ todo[t] # <<"acquire">> /\ todo[t] # <<"release">>
  <2>1. nest[t] \in Nat
    BY <1>1 DEF Types
  <2>. QED  BY <2>1, <1>1, <1>3 DEF Pinned, Leaving
<1>6. RightCore'
  BY <1>1, <1>3, <1>4, <1>5 DEF RightCore
<1>7. Locks'
  <2>1. SUFFICES ASSUME NEW d \in Cores
                 PROVE  /\ (\A u \in Tasks : at'[u] = d => nest[u] = 0) => mux[d] = Free
                        /\ \A u \in Tasks : at'[u] = d /\ nest[u] > 0
                             => mux[d] = [owner |-> d, count |-> nest[u]]
    BY <1>3 DEF Locks, Free
  <2>2. ASSUME \A u \in Tasks : at'[u] = d => nest[u] = 0
        PROVE  \A u \in Tasks : at[u] = d => nest[u] = 0
    BY <2>2, <1>4, <1>5
  <2>. QED  BY <1>1, <1>4, <2>2, NoneAssumption DEF Locks
<1>. QED  BY <1>1, <1>2, <1>3, <1>6, <1>7 DEF SectionInv

LEMMA SectionCall ==
  ASSUME SectionInv, ~moved', NEW t \in Tasks, Enter(t) \/ Exit(t)
  PROVE  SectionInv'
<1>1. ~moved /\ ~halted /\ Types /\ RightCore /\ Locks
  BY DEF SectionInv, BaseInv, Enter, Exit, Call
<1>2. BaseInv'
  BY BaseCall DEF SectionInv
<1>3. UNCHANGED <<at, id, masked, nest, mux, halted>>
  BY DEF Enter, Exit, Call
<1>4. \/ todo' = [todo EXCEPT ![t] = <<"id", "mask", "acquire">>]
      \/ todo' = [todo EXCEPT ![t] = <<"id", "release">>]
  BY DEF Enter, Exit, Call, enter_critical, exit_critical
<1>5. /\ \A u \in Tasks \ {t} : todo'[u] = todo[u]
      /\ todo'[t] \notin {<<"mask", "acquire">>, <<"acquire">>, <<"release">>}
  BY <1>1, <1>4, Different DEF Types
<1>6. Locks'
  BY <1>1, <1>3 DEF Locks, Free
<1>7. RightCore'
  BY <1>1, <1>3, <1>5 DEF RightCore
<1>. QED  BY <1>1, <1>2, <1>3, <1>6, <1>7 DEF SectionInv

LEMMA SectionCoreID ==
  ASSUME SectionInv, ~moved', NEW t \in Tasks, CoreID(t)
  PROVE  SectionInv'
<1>1. ~moved /\ ~halted /\ RightCore /\ Locks
  BY DEF SectionInv, CoreID
<1>2. /\ UNCHANGED <<at, nest, mux, halted>>
      /\ at[t] # None
  BY DEF CoreID, At
<1>3. /\ BaseInv'
      /\ todo'[t] \in {<<"mask", "acquire">>, <<"release">>} /\ id'[t] = at[t]
      /\ \A u \in Tasks \ {t} : todo'[u] = todo[u] /\ id'[u] = id[u]
  BY BaseCoreID DEF SectionInv
<1>4. Locks'
  BY <1>1, <1>2 DEF Locks, Free
<1>5. RightCore'
  BY <1>1, <1>2, <1>3 DEF RightCore
<1>. QED  BY <1>1, <1>2, <1>3, <1>4, <1>5 DEF SectionInv

LEMMA SectionMask ==
  ASSUME SectionInv, ~moved', NEW t \in Tasks, Mask(t)
  PROVE  SectionInv'
<1>1. ~moved /\ ~halted /\ RightCore /\ Locks
  BY DEF SectionInv, Mask
<1>2. /\ UNCHANGED <<at, id, nest, mux, halted>>
      /\ at[t] # None
  BY DEF Mask, At
<1>3. /\ BaseInv'
      /\ todo[t] = <<"mask", "acquire">> /\ todo'[t] = <<"acquire">>
      /\ \A u \in Tasks \ {t} : todo'[u] = todo[u]
  BY BaseMask DEF SectionInv
<1>4. Locks'
  BY <1>1, <1>2 DEF Locks, Free
<1>5. RightCore'
  BY <1>1, <1>2, <1>3 DEF RightCore
<1>. QED  BY <1>1, <1>2, <1>3, <1>4, <1>5 DEF SectionInv

\* A task that locks finds the lock free, or its core's own from the section around.
LEMMA SectionAcquire ==
  ASSUME SectionInv, ~moved', NEW t \in Tasks, Acquire(t)
  PROVE  SectionInv'
<1>1. ~moved /\ ~halted /\ Types /\ OneTask /\ RightCore /\ Locks
  BY DEF SectionInv, BaseInv, Acquire
<1>2. /\ UNCHANGED <<at, id, halted>>
      /\ mux' = [mux EXCEPT ![id[t]] = [owner |-> at[t], count |-> mux[id[t]].count + 1]]
      /\ at[t] # None
  BY DEF Acquire, At
<1>3. /\ BaseInv'
      /\ todo[t] = <<"acquire">> /\ todo'[t] = <<>> /\ nest'[t] = nest[t] + 1
      /\ \A u \in Tasks \ {t} : todo'[u] = todo[u] /\ nest'[u] = nest[u]
  BY BaseAcquire DEF SectionInv
<1>4. id[t] = at[t] /\ at[t] \in Cores /\ nest[t] \in Nat
  BY <1>1, <1>2, <1>3 DEF RightCore, Types
<1>5. mux[at[t]].count = nest[t]
  <2>1. CASE nest[t] = 0
    <3>1. \A u \in Tasks : at[u] = at[t] => nest[u] = 0
      BY <1>1, <1>4, <2>1, NoneAssumption DEF OneTask
    <3>. QED  BY <1>1, <1>4, <2>1, <3>1 DEF Locks, Free
  <2>2. CASE nest[t] > 0
    <3>1. mux[at[t]] = [owner |-> at[t], count |-> nest[t]]
      BY <1>1, <1>4, <2>2 DEF Locks
    <3>. QED  BY <3>1
  <2>. QED  BY <1>4, <2>1, <2>2
<1>6. /\ mux'[at[t]] = [owner |-> at[t], count |-> nest'[t]]
      /\ \A d \in Cores \ {at[t]} : mux'[d] = mux[d]
  BY <1>1, <1>2, <1>3, <1>4, <1>5 DEF Types
<1>7. RightCore'
  BY <1>1, <1>2, <1>3, Different DEF RightCore
<1>8. Locks'
  <2>1. SUFFICES ASSUME NEW d \in Cores
                 PROVE  /\ (\A u \in Tasks : at[u] = d => nest'[u] = 0) => mux'[d] = Free
                        /\ \A u \in Tasks : at[u] = d /\ nest'[u] > 0
                             => mux'[d] = [owner |-> d, count |-> nest'[u]]
    BY <1>2 DEF Locks, Free
  <2>2. CASE d = at[t]
    <3>1. \A u \in Tasks : at[u] = d => u = t
      BY <1>1, <1>2, <2>2 DEF OneTask
    <3>. QED  BY <1>3, <1>4, <1>6, <2>2, <3>1
  <2>3. CASE d # at[t]
    BY <1>1, <1>3, <1>6, <2>3 DEF Locks
  <2>. QED  BY <2>2, <2>3
<1>. QED  BY <1>1, <1>2, <1>3, <1>7, <1>8 DEF SectionInv

\* A task that leaves a section has its core's lock to give back.
LEMMA LeavesOwn ==
  ASSUME SectionInv, ~moved, NEW t \in Tasks, At(t, "release")
  PROVE  /\ id[t] = at[t] /\ at[t] \in Cores
         /\ nest[t] \in Nat /\ nest[t] > 0
         /\ mux[at[t]] = [owner |-> at[t], count |-> nest[t]]
<1>1. Types /\ Pinned /\ RightCore /\ Locks
  BY DEF SectionInv, BaseInv
<1>2. todo[t] = <<"release">>
  <2>1. todo[t] \in Todos
    BY <1>1 DEF Types
  <2>. QED  BY <2>1, Steps DEF At
<1>3. id[t] = at[t] /\ at[t] \in Cores /\ nest[t] \in Nat
  BY <1>1, <1>2 DEF RightCore, Types, At
<1>4. nest[t] > 0
  BY <1>1, <1>2 DEF Pinned, Leaving
<1>. QED  BY <1>1, <1>2, <1>3, <1>4 DEF Locks

LEMMA SectionRelease ==
  ASSUME SectionInv, ~moved', NEW t \in Tasks, Release(t)
  PROVE  SectionInv'
<1>1. ~moved /\ ~halted /\ Types /\ OneTask /\ RightCore /\ Locks
  BY DEF SectionInv, BaseInv, Release
<1>2. /\ UNCHANGED <<at, id, halted>>
      /\ mux' = [mux EXCEPT ![id[t]] = IF mux[id[t]].count = 1 THEN Free
                 ELSE [owner |-> mux[id[t]].owner, count |-> mux[id[t]].count - 1]]
      /\ at[t] # None /\ At(t, "release")
  BY DEF Release, At
<1>3. /\ id[t] = at[t] /\ at[t] \in Cores
      /\ nest[t] \in Nat /\ nest[t] > 0
      /\ mux[at[t]] = [owner |-> at[t], count |-> nest[t]]
  BY <1>1, <1>2, LeavesOwn
<1>4. /\ BaseInv'
      /\ todo'[t] = <<>> /\ nest'[t] = nest[t] - 1
      /\ \A u \in Tasks \ {t} : todo'[u] = todo[u] /\ nest'[u] = nest[u]
  BY BaseRelease DEF SectionInv
<1>5. /\ nest'[t] = 0 => mux'[at[t]] = Free
      /\ nest'[t] > 0 => mux'[at[t]] = [owner |-> at[t], count |-> nest'[t]]
      /\ \A d \in Cores \ {at[t]} : mux'[d] = mux[d]
  BY <1>1, <1>2, <1>3, <1>4 DEF Types
<1>6. RightCore'
  BY <1>1, <1>2, <1>4, Different DEF RightCore
<1>7. Locks'
  <2>1. SUFFICES ASSUME NEW d \in Cores
                 PROVE  /\ (\A u \in Tasks : at[u] = d => nest'[u] = 0) => mux'[d] = Free
                        /\ \A u \in Tasks : at[u] = d /\ nest'[u] > 0
                             => mux'[d] = [owner |-> d, count |-> nest'[u]]
    BY <1>2 DEF Locks, Free
  <2>2. CASE d = at[t]
    <3>1. \A u \in Tasks : at[u] = d => u = t
      BY <1>1, <1>2, <2>2 DEF OneTask
    <3>. QED  BY <1>3, <1>4, <1>5, <2>2, <3>1
  <2>3. CASE d # at[t]
    BY <1>1, <1>4, <1>5, <2>3 DEF Locks
  <2>. QED  BY <2>2, <2>3
<1>. QED  BY <1>1, <1>2, <1>4, <1>6, <1>7 DEF SectionInv

LEMMA BaseNext ==
  ASSUME BaseInv, [Next]_vars
  PROVE  BaseInv'
<1>1. CASE UNCHANGED vars
  BY <1>1 DEF vars, BaseInv, Types, OneTask, Pinned, Stays, Holders, OwnCount, Depth, Free
<1>2. ASSUME NEW t \in Tasks, NEW c \in Cores, Dispatch(t, c) PROVE BaseInv'
  BY <1>2, BaseDispatch
<1>3. ASSUME NEW t \in Tasks, Preempt(t) PROVE BaseInv'
  BY <1>3, BasePreempt
<1>4. ASSUME NEW t \in Tasks, Enter(t) \/ Exit(t) PROVE BaseInv'
  BY <1>4, BaseCall
<1>5. ASSUME NEW t \in Tasks, CoreID(t) PROVE BaseInv'
  BY <1>5, BaseCoreID
<1>6. ASSUME NEW t \in Tasks, Mask(t) PROVE BaseInv'
  BY <1>6, BaseMask
<1>7. ASSUME NEW t \in Tasks, Acquire(t) PROVE BaseInv'
  BY <1>7, BaseAcquire
<1>8. ASSUME NEW t \in Tasks, Release(t) PROVE BaseInv'
  BY <1>8, BaseRelease
<1>9. ASSUME NEW t \in Tasks, ReleaseFails(t) PROVE BaseInv'
  BY <1>9, BaseFails
<1>. QED  BY <1>1, <1>2, <1>3, <1>4, <1>5, <1>6, <1>7, <1>8, <1>9 DEF Next

LEMMA SectionNext ==
  ASSUME SectionInv, [Next]_vars
  PROVE  SectionInv'
<1>1. CASE moved'
  BY <1>1, BaseNext DEF SectionInv
<1>2. CASE UNCHANGED vars
  BY <1>2, BaseNext DEF vars, SectionInv, RightCore, Locks, Free
<1>3. ASSUME ~moved', NEW t \in Tasks, NEW c \in Cores, Dispatch(t, c) PROVE SectionInv'
  BY <1>3, SectionDispatch
<1>4. ASSUME ~moved', NEW t \in Tasks, Preempt(t) PROVE SectionInv'
  BY <1>4, SectionPreempt
<1>5. ASSUME ~moved', NEW t \in Tasks, Enter(t) \/ Exit(t) PROVE SectionInv'
  BY <1>5, SectionCall
<1>6. ASSUME ~moved', NEW t \in Tasks, CoreID(t) PROVE SectionInv'
  BY <1>6, SectionCoreID
<1>7. ASSUME ~moved', NEW t \in Tasks, Mask(t) PROVE SectionInv'
  BY <1>7, SectionMask
<1>8. ASSUME ~moved', NEW t \in Tasks, Acquire(t) PROVE SectionInv'
  BY <1>8, SectionAcquire
<1>9. ASSUME ~moved', NEW t \in Tasks, Release(t) PROVE SectionInv'
  BY <1>9, SectionRelease
<1>10. ASSUME ~moved', NEW t \in Tasks, ReleaseFails(t) PROVE FALSE
  <2>1. ~moved /\ At(t, "release") /\ mux[id[t]].owner # at[t]
    BY <1>10 DEF ReleaseFails
  <2>2. id[t] = at[t] /\ mux[at[t]] = [owner |-> at[t], count |-> nest[t]]
    BY <2>1, LeavesOwn
  <2>. QED  BY <2>1, <2>2
<1>. QED  BY <1>1, <1>2, <1>3, <1>4, <1>5, <1>6, <1>7, <1>8, <1>9, <1>10 DEF Next

LEMMA SectionOwnLock ==
  ASSUME SectionInv
  PROVE  OwnLock
<1>1. SUFFICES ASSUME ~moved, ~halted, Types, OneTask, Locks, NEW c \in Cores
               PROVE  \/ mux[c] = Free /\ \A t \in Tasks : at[t] = c => nest[t] = 0
                      \/ \E t \in Tasks : at[t] = c /\ nest[t] > 0
                           /\ mux[c] = [owner |-> c, count |-> nest[t]]
  BY DEF SectionInv, BaseInv, OwnLock
<1>2. CASE \A t \in Tasks : at[t] = c => nest[t] = 0
  BY <1>1, <1>2 DEF Locks
<1>3. CASE \E t \in Tasks : at[t] = c /\ nest[t] # 0
  <2>1. PICK t \in Tasks : at[t] = c /\ nest[t] # 0
    BY <1>3
  <2>2. nest[t] > 0
    BY <1>1, <2>1 DEF Types
  <2>. QED  BY <1>1, <2>1, <2>2 DEF Locks
<1>. QED  BY <1>2, <1>3

\* As long as no task changes its core between asking for it and masking its interrupts,
\* each core's lock is held by the one task in a section there, as often as it is nested,
\* and can be given back (soc/esp32.c 25-39).
THEOREM CriticalOwnLock == Spec => []OwnLock
<1>1. Init => SectionInv
  BY SectionInit
<1>2. SectionInv /\ [Next]_vars => SectionInv'
  BY SectionNext
<1>3. SectionInv => OwnLock
  BY SectionOwnLock
<1>. QED  BY <1>1, <1>2, <1>3, PTL DEF Spec

-----------------------------------------------------------------------------
(* SPIFFS.                                                                 *)

FTodos == {<<>>, <<"register", "store">>, <<"store">>, <<"clear", "unregister">>, <<"unregister">>,
           <<"clear", "unregister", "gone">>, <<"unregister", "gone">>, <<"gone">>}

FTypes ==
  /\ todo \in [Callers -> FTodos]
  /\ on \in [Callers -> Objects \cup {None}]
  /\ ret \in [Callers -> BOOLEAN]
  /\ alive \subseteq Objects /\ mounted \subseteq alive
  /\ reg \in Objects \cup {None}
  /\ robbed \subseteq Objects /\ twice \subseteq Objects

\* A call is of an object that exists, and of one that no other call is of.
FCalls ==
  /\ \A t \in Callers : on[t] = None <=> todo[t] = <<>>
  /\ \A t \in Callers : on[t] # None => on[t] \in alive
  /\ \A t, u \in Callers : on[t] = on[u] /\ on[t] # None => t = u

\* What a call that is under way still has to make true of its object, o, and what it
\* has seen to.
FUnder(t) ==
  LET o == on[t]
  IN  /\ todo[t] = <<"register", "store">> /\ reg = o => o \in mounted \cup twice
      /\ todo[t] = <<"store">> /\ ret[t] => reg = o \/ o \in robbed
      /\ todo[t] = <<"store">> /\ ~ret[t] /\ reg = o => o \in twice
      /\ todo[t] \in {<<"unregister">>, <<"unregister", "gone">>, <<"gone">>} => o \notin mounted
      /\ todo[t] = <<"gone">> /\ reg = o => o \in twice

\* The partition is an object's that is mounted or was mounted twice, between calls.
FAgree ==
  /\ \A o \in mounted \ robbed : reg = o
  /\ \A o \in Objects : reg = o /\ (\A t \in Callers : on[t] # o) => o \in mounted \cup twice
  /\ \A t \in Callers : FUnder(t)

FInv == FTypes /\ FCalls /\ FAgree

LEMMA FHeads ==
  ASSUME NEW s \in FTodos, s # <<>>
  PROVE  /\ Head(s) = "register" => s = <<"register", "store">> /\ Tail(s) = <<"store">> /\ Len(s) = 2
         /\ Head(s) = "store" => s = <<"store">> /\ Tail(s) = <<>> /\ Len(s) = 1
         /\ Head(s) = "clear" => \/ s = <<"clear", "unregister">> /\ Tail(s) = <<"unregister">> /\ Len(s) = 2
                                 \/ /\ s = <<"clear", "unregister", "gone">>
                                    /\ Tail(s) = <<"unregister", "gone">> /\ Len(s) = 3
         /\ Head(s) = "unregister" => \/ s = <<"unregister">> /\ Tail(s) = <<>> /\ Len(s) = 1
                                      \/ s = <<"unregister", "gone">> /\ Tail(s) = <<"gone">> /\ Len(s) = 2
         /\ Head(s) = "gone" => s = <<"gone">> /\ Tail(s) = <<>> /\ Len(s) = 1
<1>1. /\ Tail(<<"register", "store">>) = <<"store">> /\ Tail(<<"clear", "unregister">>) = <<"unregister">>
      /\ Tail(<<"unregister", "gone">>) = <<"gone">>
      /\ Tail(<<"store">>) = <<>> /\ Tail(<<"unregister">>) = <<>> /\ Tail(<<"gone">>) = <<>>
  OBVIOUS
<1>2. Tail(<<"clear", "unregister", "gone">>) = <<"unregister", "gone">>
  OBVIOUS
<1>3. CASE s = <<"register", "store">>
  BY <1>1, <1>3
<1>4. CASE s = <<"store">>
  BY <1>1, <1>4
<1>5. CASE s = <<"clear", "unregister">>
  BY <1>1, <1>5
<1>6. CASE s = <<"clear", "unregister", "gone">>
  BY <1>2, <1>6
<1>7. CASE s = <<"unregister">>
  BY <1>1, <1>7
<1>8. CASE s = <<"unregister", "gone">>
  BY <1>1, <1>8
<1>9. CASE s = <<"gone">>
  BY <1>1, <1>9
<1>. QED  BY <1>3, <1>4, <1>5, <1>6, <1>7, <1>8, <1>9 DEF FTodos

LEMMA FDifferent ==
  /\ <<"register", "store">> \notin {<<>>, <<"store">>, <<"unregister">>, <<"unregister", "gone">>, <<"gone">>}
  /\ <<"store">> \notin {<<>>, <<"unregister">>, <<"unregister", "gone">>, <<"gone">>}
  /\ <<"clear", "unregister">> \notin {<<>>, <<"register", "store">>, <<"store">>,
                                       <<"unregister">>, <<"unregister", "gone">>, <<"gone">>}
  /\ <<"clear", "unregister", "gone">> \notin {<<>>, <<"register", "store">>, <<"store">>,
                                               <<"unregister">>, <<"unregister", "gone">>, <<"gone">>}
  /\ <<"unregister">> \notin {<<>>, <<"gone">>}
  /\ <<"unregister", "gone">> \notin {<<>>, <<"gone">>}
  /\ <<"gone">> # <<>>
  OBVIOUS

LEMMA FTails ==
  ASSUME NEW s \in FTodos, s # <<>>
  PROVE  Tail(s) \in FTodos /\ (Tail(s) = <<>> <=> Len(s) = 1)
<1>1. CASE Head(s) \in {"store", "gone"}
  <2>1. Tail(s) = <<>> /\ Len(s) = 1
    BY <1>1, FHeads
  <2>. QED  BY <2>1 DEF FTodos
<1>2. CASE Head(s) = "register"
  <2>1. Tail(s) = <<"store">> /\ Len(s) = 2
    BY <1>2, FHeads
  <2>. QED  BY <2>1, FDifferent DEF FTodos
<1>3. CASE Head(s) = "clear"
  <2>1. Tail(s) \in {<<"unregister">>, <<"unregister", "gone">>} /\ Len(s) # 1
    BY <1>3, FHeads
  <2>2. Tail(s) \in FTodos
    BY <2>1 DEF FTodos
  <2>3. Tail(s) # <<>>
    BY <2>1, FDifferent
  <2>. QED  BY <2>1, <2>2, <2>3
<1>4. CASE Head(s) = "unregister"
  <2>1. \/ Tail(s) = <<>> /\ Len(s) = 1
        \/ Tail(s) = <<"gone">> /\ Len(s) = 2
    BY <1>4, FHeads
  <2>. QED  BY <2>1, FDifferent DEF FTodos
<1>5. Head(s) \in {"register", "store", "clear", "unregister", "gone"}
  BY DEF FTodos
<1>. QED  BY <1>1, <1>2, <1>3, <1>4, <1>5

LEMMA FInitial ==
  ASSUME F!Init
  PROVE  FInv
<1>1. FTypes
  BY DEF F!Init, FTypes, FTodos
<1>2. FCalls /\ FAgree
  BY FDifferent, NoneAssumption DEF F!Init, FCalls, FAgree, FUnder
<1>. QED  BY <1>1, <1>2 DEF FInv

LEMMA FConstruct ==
  ASSUME FInv, NEW o \in Objects, F!Construct(o)
  PROVE  FInv'
<1>1. FTypes /\ FCalls /\ FAgree
  BY DEF FInv
<1>2. /\ alive' = alive \cup {o}
      /\ UNCHANGED <<todo, on, ret, mounted, reg, robbed, twice>>
  BY DEF F!Construct
<1>3. FTypes'
  BY <1>1, <1>2 DEF FTypes
<1>4. FCalls' /\ FAgree'
  BY <1>1, <1>2 DEF FCalls, FAgree, FUnder
<1>. QED  BY <1>3, <1>4 DEF FInv

LEMMA FCall ==
  ASSUME FInv, NEW t \in Callers, NEW o \in Objects,
         F!Call(t, o, F!mount) \/ F!Call(t, o, F!unmount) \/ F!Call(t, o, F!Destruct(o \in mounted))
  PROVE  FInv'
<1>1. FTypes /\ FCalls /\ FAgree
  BY DEF FInv
<1>2. /\ UNCHANGED <<ret, alive, mounted, reg, robbed, twice>>
      /\ todo[t] = <<>> /\ o \in alive /\ \A u \in Callers : on[u] # o
      /\ on' = [on EXCEPT ![t] = o]
  BY DEF F!Call, F!Busy
<1>3. \/ todo' = [todo EXCEPT ![t] = <<"register", "store">>]
      \/ todo' = [todo EXCEPT ![t] = <<"clear", "unregister">>]
      \/ o \in mounted /\ todo' = [todo EXCEPT ![t] = <<"clear", "unregister", "gone">>]
      \/ o \notin mounted /\ todo' = [todo EXCEPT ![t] = <<"gone">>]
  <2>1. F!mount = <<"register", "store">> /\ F!unmount = <<"clear", "unregister">>
    BY DEF F!mount, F!unmount
  <2>2. F!unmount \o <<"gone">> = <<"clear", "unregister", "gone">>
    <3> DEFINE s == <<"clear", "unregister">> \o <<"gone">>
               r == <<"clear", "unregister", "gone">>
    <3>1. s \in Seq({"clear", "unregister", "gone"}) /\ Len(s) = 3
      OBVIOUS
    <3>2. s[1] = "clear" /\ s[2] = "unregister" /\ s[3] = "gone"
      OBVIOUS
    <3>3. \A i \in 1..3 : s[i] = r[i]
      BY <3>2
    <3>4. r \in Seq({"clear", "unregister", "gone"}) /\ Len(r) = 3
      OBVIOUS
    <3> HIDE DEF s, r
    <3>5. s = r
      BY <3>1, <3>3, <3>4
    <3>. QED  BY <2>1, <3>5 DEF s, r
  <2>. QED  BY <2>1, <2>2 DEF F!Call, F!Destruct
<1>4. /\ on'[t] = o /\ o # None
      /\ \A u \in Callers \ {t} : todo'[u] = todo[u] /\ on'[u] = on[u]
  BY <1>1, <1>2, <1>3, NoneAssumption DEF FTypes
<1>5. \/ todo'[t] = <<"register", "store">>
      \/ todo'[t] \in {<<"clear", "unregister">>, <<"clear", "unregister", "gone">>}
      \/ o \notin mounted /\ todo'[t] = <<"gone">>
  BY <1>1, <1>3 DEF FTypes
<1>6. FTypes'
  <2>1. todo' \in [Callers -> FTodos]
    BY <1>1, <1>3 DEF FTypes, FTodos
  <2>. QED  BY <1>1, <1>2, <2>1 DEF FTypes
<1>7. FCalls'
  <2>1. todo'[t] # <<>>
    BY <1>5, FDifferent
  <2>. QED  BY <1>1, <1>2, <1>4, <2>1 DEF FCalls
<1>8. FAgree'
  <2>1. reg = o => o \in mounted \cup twice
    BY <1>1, <1>2 DEF FAgree
  <2>2. FUnder(t)'
    BY <1>2, <1>4, <1>5, <2>1, FDifferent DEF FUnder
  <2>3. ASSUME NEW u \in Callers \ {t} PROVE FUnder(u)'
    BY <1>1, <1>2, <1>4, <2>3 DEF FAgree, FUnder
  <2>4. ASSUME NEW x \in Objects, reg' = x, \A u \in Callers : on'[u] # x PROVE x \in (mounted \cup twice)'
    <3>1. \A u \in Callers : on[u] # x
      BY <1>1, <1>2, <1>4, <2>4, NoneAssumption DEF FCalls
    <3>. QED  BY <1>1, <1>2, <2>4, <3>1 DEF FAgree
  <2>. QED  BY <1>1, <1>2, <2>2, <2>3, <2>4 DEF FAgree
<1>. QED  BY <1>6, <1>7, <1>8 DEF FInv

\* What a step of a call leaves of it.
LEMMA FStep ==
  ASSUME FInv, NEW t \in Callers, todo[t] # <<>>, F!Done(t)
  PROVE  /\ on[t] \in alive /\ on[t] # None
         /\ todo'[t] = Tail(todo[t]) /\ on'[t] = IF Len(todo[t]) = 1 THEN None ELSE on[t]
         /\ \A u \in Callers \ {t} : todo'[u] = todo[u] /\ on'[u] = on[u] /\ on[u] # on[t]
         /\ todo' \in [Callers -> FTodos] /\ on' \in [Callers -> Objects \cup {None}]
         /\ \A u \in Callers : on'[u] = None <=> todo'[u] = <<>>
         /\ \A u, v \in Callers : on'[u] = on'[v] /\ on'[u] # None => u = v
         /\ \A u \in Callers : on'[u] # None => on'[u] = on[u]
         /\ \A o \in Objects \ {on[t]} : (\A u \in Callers : on'[u] # o) => \A u \in Callers : on[u] # o
<1>1. FTypes /\ FCalls
  BY DEF FInv
<1>2. on[t] \in alive /\ on[t] # None
  BY <1>1 DEF FCalls
<1>3. todo'[t] = Tail(todo[t]) /\ on'[t] = IF Len(todo[t]) = 1 THEN None ELSE on[t]
  BY <1>1 DEF F!Done, FTypes
<1>4. \A u \in Callers \ {t} : todo'[u] = todo[u] /\ on'[u] = on[u] /\ on[u] # on[t]
  BY <1>1, <1>2 DEF F!Done, FTypes, FCalls
<1>5. Tail(todo[t]) \in FTodos /\ (Tail(todo[t]) = <<>> <=> Len(todo[t]) = 1)
  <2>1. todo[t] \in FTodos
    BY <1>1 DEF FTypes
  <2>. QED  BY <2>1, FTails
<1>6. todo' \in [Callers -> FTodos] /\ on' \in [Callers -> Objects \cup {None}]
  BY <1>1, <1>5 DEF F!Done, FTypes
<1>7. \A u \in Callers : on'[u] = None <=> todo'[u] = <<>>
  BY <1>1, <1>2, <1>3, <1>4, <1>5 DEF FCalls
<1>8. \A u, v \in Callers : on'[u] = on'[v] /\ on'[u] # None => u = v
  BY <1>1, <1>3, <1>4 DEF FCalls
<1>9. \A u \in Callers : on'[u] # None => on'[u] = on[u]
  BY <1>3, <1>4
<1>10. ASSUME NEW o \in Objects \ {on[t]}, \A u \in Callers : on'[u] # o
       PROVE  \A u \in Callers : on[u] # o
  BY <1>4, <1>10
<1>. QED  BY <1>2, <1>3, <1>4, <1>6, <1>7, <1>8, <1>9, <1>10

LEMMA FRegister ==
  ASSUME FInv, NEW t \in Callers, F!Register(t)
  PROVE  FInv'
<1>1. FTypes /\ FCalls /\ FAgree
  BY DEF FInv
<1>2. /\ todo[t] # <<>> /\ Head(todo[t]) = "register" /\ F!Done(t)
      /\ UNCHANGED <<alive, mounted>>
  BY DEF F!Register, F!At
<1>3. todo[t] = <<"register", "store">> /\ Tail(todo[t]) = <<"store">> /\ Len(todo[t]) = 2
  <2>1. todo[t] \in FTodos
    BY <1>1 DEF FTypes
  <2>. QED  BY <2>1, <1>2, FHeads
<1>4. /\ on[t] \in alive /\ on[t] # None
      /\ todo'[t] = <<"store">> /\ on'[t] = on[t]
      /\ \A u \in Callers \ {t} : todo'[u] = todo[u] /\ on'[u] = on[u] /\ on[u] # on[t]
      /\ todo' \in [Callers -> FTodos] /\ on' \in [Callers -> Objects \cup {None}]
  <2>1. /\ on[t] \in alive /\ on[t] # None
        /\ todo'[t] = Tail(todo[t]) /\ on'[t] = IF Len(todo[t]) = 1 THEN None ELSE on[t]
        /\ \A u \in Callers \ {t} : todo'[u] = todo[u] /\ on'[u] = on[u] /\ on[u] # on[t]
        /\ todo' \in [Callers -> FTodos] /\ on' \in [Callers -> Objects \cup {None}]
    BY <1>2, FStep
  <2>. QED  BY <1>3, <2>1
<1>5. FCalls'
  <2>1. /\ \A u \in Callers : on'[u] = None <=> todo'[u] = <<>>
        /\ \A u, v \in Callers : on'[u] = on'[v] /\ on'[u] # None => u = v
        /\ \A u \in Callers : on'[u] # None => on'[u] = on[u]
    BY <1>2, FStep
  <2>. QED  BY <1>1, <1>2, <2>1 DEF FCalls
<1>6. on' = on
  BY <1>1, <1>4 DEF FTypes
<1>7. CASE /\ reg = None /\ reg' = on[t]
           /\ ret' = [ret EXCEPT ![t] = TRUE]
           /\ twice' = twice \ {on[t]} /\ robbed' = robbed \ {on[t]}
  <2>1. FTypes'
    BY <1>1, <1>2, <1>4, <1>7 DEF FTypes
  <2>2. ret'[t] = TRUE /\ \A u \in Callers \ {t} : ret'[u] = ret[u]
    BY <1>1, <1>7 DEF FTypes
  <2>3. FUnder(t)'
    BY <1>4, <1>7, <2>2, FDifferent DEF FUnder
  <2>4. ASSUME NEW u \in Callers \ {t} PROVE FUnder(u)'
    <3>1. FUnder(u) /\ on'[u] = on[u] /\ todo'[u] = todo[u] /\ ret'[u] = ret[u] /\ on[u] # on[t]
      BY <1>1, <1>4, <2>2 DEF FAgree
    <3>2. todo[u] = <<"store">> => on[u] # None
      BY <1>1, FDifferent DEF FCalls
    <3>. QED  BY <1>2, <1>7, <3>1, <3>2 DEF FUnder
  <2>5. ASSUME NEW o \in (mounted \ robbed)' PROVE reg' = o
    <3>1. o \in mounted /\ (o \in robbed => o = on[t])
      BY <1>2, <1>7
    <3>2. o \in Objects /\ o # None
      BY <1>1, <3>1, NoneAssumption DEF FTypes
    <3>. QED  BY <1>1, <1>7, <3>1, <3>2 DEF FAgree
  <2>6. ASSUME NEW o \in Objects, reg' = o, \A u \in Callers : on'[u] # o PROVE FALSE
    BY <1>4, <1>7, <2>6
  <2>7. FAgree'
    BY <2>3, <2>4, <2>5, <2>6 DEF FAgree
  <2>. QED  BY <1>5, <2>1, <2>7 DEF FInv
<1>8. CASE /\ ret' = [ret EXCEPT ![t] = FALSE]
           /\ twice' = IF reg = on[t] THEN twice \cup {on[t]} ELSE twice
           /\ UNCHANGED <<reg, robbed>>
  <2>1. FTypes'
    BY <1>1, <1>2, <1>4, <1>8 DEF FTypes
  <2>2. ret'[t] = FALSE /\ \A u \in Callers \ {t} : ret'[u] = ret[u]
    BY <1>1, <1>8 DEF FTypes
  <2>3. FUnder(t)'
    BY <1>4, <1>8, <2>2, FDifferent DEF FUnder
  <2>4. ASSUME NEW u \in Callers \ {t} PROVE FUnder(u)'
    <3>1. FUnder(u) /\ on'[u] = on[u] /\ todo'[u] = todo[u] /\ ret'[u] = ret[u] /\ on[u] # on[t]
      BY <1>1, <1>4, <2>2 DEF FAgree
    <3>. QED  BY <1>2, <1>8, <3>1 DEF FUnder
  <2>5. FAgree'
    BY <1>1, <1>2, <1>6, <1>8, <2>3, <2>4 DEF FAgree
  <2>. QED  BY <1>5, <2>1, <2>5 DEF FInv
<1>. QED  BY <1>7, <1>8 DEF F!Register

LEMMA FStore ==
  ASSUME FInv, NEW t \in Callers, F!Store(t)
  PROVE  FInv'
<1>1. FTypes /\ FCalls /\ FAgree
  BY DEF FInv
<1>2. /\ todo[t] # <<>> /\ Head(todo[t]) \in {"store", "clear"} /\ F!Done(t)
      /\ UNCHANGED <<ret, alive, reg, robbed, twice>>
  BY DEF F!Store, F!At
<1>3. /\ on[t] \in alive /\ on[t] # None
      /\ todo'[t] = Tail(todo[t]) /\ on'[t] = IF Len(todo[t]) = 1 THEN None ELSE on[t]
      /\ \A u \in Callers \ {t} : todo'[u] = todo[u] /\ on'[u] = on[u] /\ on[u] # on[t]
      /\ todo' \in [Callers -> FTodos] /\ on' \in [Callers -> Objects \cup {None}]
      /\ \A o \in Objects \ {on[t]} : (\A u \in Callers : on'[u] # o) => \A u \in Callers : on[u] # o
  BY <1>2, FStep
<1>4. FCalls'
  <2>1. /\ \A u \in Callers : on'[u] = None <=> todo'[u] = <<>>
        /\ \A u, v \in Callers : on'[u] = on'[v] /\ on'[u] # None => u = v
        /\ \A u \in Callers : on'[u] # None => on'[u] = on[u]
    BY <1>2, FStep
  <2>. QED  BY <1>1, <1>2, <2>1 DEF FCalls
<1>5. todo[t] \in FTodos /\ on[t] \in Objects
  BY <1>1, <1>3 DEF FTypes
<1>6. \A u \in Callers \ {t} : FUnder(u)
  BY <1>1 DEF FAgree
<1>7. mounted' \subseteq mounted \cup {on[t]} /\ mounted \ {on[t]} \subseteq mounted'
  BY DEF F!Store, F!IsMounted
<1>8. FTypes'
  BY <1>1, <1>2, <1>3, <1>7 DEF FTypes
<1>9. ASSUME NEW u \in Callers \ {t} PROVE FUnder(u)'
  BY <1>2, <1>3, <1>6, <1>7 DEF FUnder
<1>10. ASSUME NEW o \in Objects \ {on[t]}, reg' = o, \A u \in Callers : on'[u] # o
       PROVE  o \in (mounted \cup twice)'
  <2>1. \A u \in Callers : on[u] # o
    BY <1>3, <1>10
  <2>. QED  BY <1>1, <1>2, <1>7, <1>10, <2>1 DEF FAgree
<1>11. ASSUME NEW o \in (mounted \ robbed)', o # on[t] PROVE reg' = o
  BY <1>1, <1>2, <1>7, <1>11 DEF FAgree
<1>12. CASE Head(todo[t]) = "store"
  <2>1. todo[t] = <<"store">> /\ todo'[t] = <<>> /\ on'[t] = None
    BY <1>2, <1>3, <1>5, <1>12, FHeads
  <2>2. mounted' = IF ret[t] THEN mounted \cup {on[t]} ELSE mounted \ {on[t]}
    BY <1>12 DEF F!Store, F!IsMounted, F!At
  <2>3. FUnder(t)
    BY <1>1 DEF FAgree
  <2>4. on[t] \in (mounted \ robbed)' => reg' = on[t]
    BY <1>2, <2>1, <2>2, <2>3 DEF FUnder
  <2>5. reg' = on[t] => on[t] \in (mounted \cup twice)'
    BY <1>2, <2>1, <2>2, <2>3 DEF FUnder
  <2>6. FUnder(t)'
    BY <2>1, FDifferent DEF FUnder
  <2>7. FAgree'
    BY <1>9, <1>10, <1>11, <2>4, <2>5, <2>6 DEF FAgree
  <2>. QED  BY <1>4, <1>8, <2>7 DEF FInv
<1>13. CASE Head(todo[t]) = "clear"
  <2>1. todo'[t] \in {<<"unregister">>, <<"unregister", "gone">>} /\ on'[t] = on[t]
    BY <1>2, <1>3, <1>5, <1>13, FHeads
  <2>2. mounted' = mounted \ {on[t]}
    BY <1>13 DEF F!Store, F!At
  <2>3. FUnder(t)'
    BY <2>1, <2>2, FDifferent DEF FUnder
  <2>4. FAgree'
    BY <1>9, <1>10, <1>11, <2>1, <2>2, <2>3 DEF FAgree
  <2>. QED  BY <1>4, <1>8, <2>4 DEF FInv
<1>. QED  BY <1>2, <1>12, <1>13

LEMMA FUnregister ==
  ASSUME FInv, NEW t \in Callers, F!Unregister(t)
  PROVE  FInv'
<1>1. FTypes /\ FCalls /\ FAgree
  BY DEF FInv
<1>2. /\ todo[t] # <<>> /\ Head(todo[t]) = "unregister" /\ F!Done(t)
      /\ reg' = None
      /\ robbed' = IF reg \in Objects \ {on[t]} THEN robbed \cup {reg} ELSE robbed
      /\ UNCHANGED <<ret, alive, mounted, twice>>
  BY DEF F!Unregister, F!At
<1>3. /\ on[t] \in alive /\ on[t] # None
      /\ todo'[t] = Tail(todo[t]) /\ on'[t] = IF Len(todo[t]) = 1 THEN None ELSE on[t]
      /\ \A u \in Callers \ {t} : todo'[u] = todo[u] /\ on'[u] = on[u] /\ on[u] # on[t]
      /\ todo' \in [Callers -> FTodos] /\ on' \in [Callers -> Objects \cup {None}]
  BY <1>2, FStep
<1>4. FCalls'
  <2>1. /\ \A u \in Callers : on'[u] = None <=> todo'[u] = <<>>
        /\ \A u, v \in Callers : on'[u] = on'[v] /\ on'[u] # None => u = v
        /\ \A u \in Callers : on'[u] # None => on'[u] = on[u]
    BY <1>2, FStep
  <2>. QED  BY <1>1, <1>2, <2>1 DEF FCalls
<1>5. \/ todo[t] = <<"unregister">> /\ todo'[t] = <<>> /\ on'[t] = None
      \/ todo[t] = <<"unregister", "gone">> /\ todo'[t] = <<"gone">> /\ on'[t] = on[t]
  <2>1. todo[t] \in FTodos
    BY <1>1 DEF FTypes
  <2>. QED  BY <2>1, <1>2, <1>3, FHeads
<1>6. on[t] \notin mounted
  BY <1>1, <1>5 DEF FAgree, FUnder
<1>7. FTypes'
  BY <1>1, <1>2, <1>3 DEF FTypes
<1>8. FUnder(t)'
  BY <1>2, <1>3, <1>5, <1>6, FDifferent DEF FUnder
<1>9. ASSUME NEW u \in Callers \ {t} PROVE FUnder(u)'
  <2>1. FUnder(u) /\ on'[u] = on[u] /\ todo'[u] = todo[u] /\ ret'[u] = ret[u] /\ on[u] # on[t]
    BY <1>1, <1>2, <1>3 DEF FAgree
  <2>2. todo[u] = <<"store">> => on[u] \in Objects
    BY <1>1, FDifferent DEF FCalls, FTypes
  <2>3. todo[u] \in {<<"register", "store">>, <<"store">>, <<"gone">>} => on[u] # None
    BY <1>1, FDifferent DEF FCalls
  <2>. QED  BY <1>2, <2>1, <2>2, <2>3 DEF FUnder
<1>10. ASSUME NEW o \in (mounted \ robbed)' PROVE FALSE
  <2>1. o \in mounted /\ o \notin robbed /\ o \in Objects
    BY <1>1, <1>2, <1>10 DEF FTypes
  <2>2. reg = o /\ o # on[t]
    BY <1>1, <1>6, <2>1 DEF FAgree
  <2>. QED  BY <1>2, <1>10, <2>1, <2>2
<1>11. FAgree'
  BY <1>2, <1>8, <1>9, <1>10, NoneAssumption DEF FAgree
<1>. QED  BY <1>4, <1>7, <1>11 DEF FInv

LEMMA FGone ==
  ASSUME FInv, NEW t \in Callers, F!Gone(t)
  PROVE  FInv'
<1>1. FTypes /\ FCalls /\ FAgree
  BY DEF FInv
<1>2. /\ todo[t] # <<>> /\ Head(todo[t]) = "gone" /\ F!Done(t)
      /\ alive' = alive \ {on[t]}
      /\ UNCHANGED <<ret, mounted, reg, robbed, twice>>
  BY DEF F!Gone, F!At
<1>3. todo[t] = <<"gone">> /\ Tail(todo[t]) = <<>> /\ Len(todo[t]) = 1
  <2>1. todo[t] \in FTodos
    BY <1>1 DEF FTypes
  <2>. QED  BY <2>1, <1>2, FHeads
<1>4. /\ on[t] \in alive /\ on[t] # None
      /\ todo'[t] = <<>> /\ on'[t] = None
      /\ \A u \in Callers \ {t} : todo'[u] = todo[u] /\ on'[u] = on[u] /\ on[u] # on[t]
      /\ todo' \in [Callers -> FTodos] /\ on' \in [Callers -> Objects \cup {None}]
      /\ \A o \in Objects \ {on[t]} : (\A u \in Callers : on'[u] # o) => \A u \in Callers : on[u] # o
  BY <1>2, <1>3, FStep
<1>5. FUnder(t)
  BY <1>1 DEF FAgree
<1>6. on[t] \notin mounted /\ (reg = on[t] => on[t] \in twice)
  BY <1>3, <1>5 DEF FUnder
<1>7. FCalls'
  <2>1. /\ \A u \in Callers : on'[u] = None <=> todo'[u] = <<>>
        /\ \A u, v \in Callers : on'[u] = on'[v] /\ on'[u] # None => u = v
    BY <1>2, FStep
  <2>2. \A u \in Callers : on'[u] # None => on'[u] \in alive'
    BY <1>1, <1>2, <1>4 DEF FCalls
  <2>. QED  BY <2>1, <2>2 DEF FCalls
<1>8. FTypes'
  BY <1>1, <1>2, <1>4, <1>6 DEF FTypes
<1>9. FUnder(t)'
  BY <1>4, FDifferent DEF FUnder
<1>10. ASSUME NEW u \in Callers \ {t} PROVE FUnder(u)'
  BY <1>1, <1>2, <1>4, <1>10 DEF FAgree, FUnder
<1>11. ASSUME NEW o \in Objects, reg' = o, \A u \in Callers : on'[u] # o
       PROVE  o \in (mounted \cup twice)'
  <2>1. CASE o = on[t]
    BY <1>2, <1>6, <1>11, <2>1
  <2>2. CASE o # on[t]
    BY <1>1, <1>2, <1>4, <1>11, <2>2 DEF FAgree
  <2>. QED  BY <2>1, <2>2
<1>12. FAgree'
  BY <1>1, <1>2, <1>9, <1>10, <1>11 DEF FAgree
<1>. QED  BY <1>7, <1>8, <1>12 DEF FInv

LEMMA FNext ==
  ASSUME FInv, F!Next
  PROVE  FInv'
<1>1. ASSUME NEW o \in Objects, F!Construct(o) PROVE FInv'
  BY <1>1, FConstruct
<1>2. ASSUME NEW t \in Callers, NEW o \in Objects,
             F!Call(t, o, F!mount) \/ F!Call(t, o, F!unmount) \/ F!Call(t, o, F!Destruct(o \in mounted))
      PROVE  FInv'
  BY <1>2, FCall
<1>3. ASSUME NEW t \in Callers, F!Register(t) PROVE FInv'
  BY <1>3, FRegister
<1>4. ASSUME NEW t \in Callers, F!Store(t) PROVE FInv'
  BY <1>4, FStore
<1>5. ASSUME NEW t \in Callers, F!Unregister(t) PROVE FInv'
  BY <1>5, FUnregister
<1>6. ASSUME NEW t \in Callers, F!Gone(t) PROVE FInv'
  BY <1>6, FGone
<1>. QED  BY <1>1, <1>2, <1>3, <1>4, <1>5, <1>6 DEF F!Next

\* Between calls and during them.
LEMMA FRegistered ==
  ASSUME FInv
  PROVE  F!TypeOK /\ F!MountedIsRegistered
<1>1. FTypes /\ FCalls /\ FAgree
  BY DEF FInv
<1>2. todo \in [Callers -> Seq({"register", "store", "clear", "unregister", "gone"})]
  <2>1. FTodos \subseteq Seq({"register", "store", "clear", "unregister", "gone"})
    BY DEF FTodos
  <2>. QED  BY <1>1, <2>1 DEF FTypes
<1>3. F!TypeOK
  BY <1>1, <1>2 DEF FTypes, F!TypeOK
<1>4. ASSUME reg # None, reg \notin alive PROVE reg \in twice
  <2>1. \A t \in Callers : on[t] # reg
    BY <1>1, <1>4 DEF FCalls
  <2>. QED  BY <1>1, <1>4, <2>1 DEF FAgree, FTypes
<1>. QED  BY <1>1, <1>3, <1>4 DEF FAgree, F!MountedIsRegistered

-----------------------------------------------------------------------------
(* PWM.                                                                    *)

PTodos == {<<>>, <<"frequency", "init">>, <<"init">>, <<"setFrequency", "setDuty">>, <<"setDuty">>}

PTypes ==
  /\ todo \in [Callers -> PTodos]
  /\ on \in [Callers -> P!Used \cup {None}]
  /\ arg \in [Callers -> {0} \cup Freqs]
  /\ duty \in [P!Used -> {0} \cup Duties]
  /\ config \in [0..5 -> {0, 50}]
  /\ hw \in [Timers -> P!Outputs]
  /\ asked \in [Timers -> P!Outputs]
  /\ mixed \subseteq Timers
  /\ calls \in 0..MaxCalls

\* Calls are of different channels, and of different timers' unless the timer is mixed.
PCalls ==
  /\ \A t \in Callers : on[t] = None <=> todo[t] = <<>>
  /\ \A t, u \in Callers : on[t] = on[u] /\ on[t] # None => t = u
  /\ \A t, u \in Callers : /\ on[t] # None /\ on[u] # None
                           /\ P!TimerOf(on[t]) = P!TimerOf(on[u]) /\ P!TimerOf(on[t]) \notin mixed
                           => t = u

\* A timer's outputs once channel c has its frequency and its duty cycle.
Due(out, frequency, c) ==
  [frequency |-> frequency,
   A |-> IF c.pin % 2 = 0 THEN duty[c] ELSE out.A,
   B |-> IF c.pin % 2 = 1 THEN duty[c] ELSE out.B]

\* What the steps left of a call do to its timer is what is asked of it.
PUnder(t) ==
  LET timer == P!TimerOf(on[t])
      out == hw[timer]
  IN  /\ todo[t] = <<"frequency", "init">> => asked[timer] = [frequency |-> 50, A |-> 0, B |-> 0]
      /\ todo[t] = <<"init">> =>
           asked[timer] = [frequency |-> 50, A |-> 0, B |-> 0] /\ config[P!Index(on[t])] = 50
      /\ todo[t] = <<"setFrequency", "setDuty">> => asked[timer] = Due(out, arg[t], on[t])
      /\ todo[t] = <<"setDuty">> => asked[timer] = Due(out, out.frequency, on[t])

PAgree ==
  /\ \A t \in Callers : on[t] # None /\ P!TimerOf(on[t]) \notin mixed => PUnder(t)
  /\ \A timer \in Timers \ mixed :
       (\A t \in Callers : on[t] # None => P!TimerOf(on[t]) # timer) => hw[timer] = asked[timer]

PInv == PTypes /\ PCalls /\ PAgree

LEMMA PChannel ==
  ASSUME NEW c \in P!Used
  PROVE  /\ P!TimerOf(c) \in Timers /\ c \in P!Channels /\ c # None
         /\ c.pin \in 0..5 /\ P!Index(c) \in 0..5
         /\ \A timer \in Timers : c \in P!ChannelsOf(timer) <=> P!TimerOf(c) = timer
<1>1. PICK timer \in Timers : c \in P!ChannelsOf(timer)
  BY DEF P!Used
<1>2. /\ c \in P!Channels /\ c.unit = timer.unit /\ c.num = timer.num
      /\ c.pin \in {2 * timer.num, 2 * timer.num + 1}
  BY <1>1 DEF P!ChannelsOf
<1>3. timer \in [unit : {0, 1}, num : 0..2]
  BY TimerAssumption
<1>4. P!TimerOf(c) = timer
  BY <1>2, <1>3 DEF P!TimerOf
<1>5. c.pin \in 0..5
  BY <1>2 DEF P!Channels
<1>6. P!Index(c) \in 0..5
  BY <1>2, <1>3 DEF P!Index
<1>7. ASSUME NEW other \in Timers PROVE c \in P!ChannelsOf(other) <=> P!TimerOf(c) = other
  <2>1. other \in [unit : {0, 1}, num : 0..2]
    BY TimerAssumption
  <2>2. c \in P!ChannelsOf(other) => other = timer
    BY <1>2, <1>3, <2>1 DEF P!ChannelsOf
  <2>. QED  BY <1>1, <1>4, <2>2
<1>. QED  BY <1>2, <1>4, <1>5, <1>6, <1>7, NoneAssumption

LEMMA PHeads ==
  ASSUME NEW s \in PTodos, s # <<>>
  PROVE  /\ Head(s) = "frequency" => s = <<"frequency", "init">> /\ Tail(s) = <<"init">> /\ Len(s) = 2
         /\ Head(s) = "init" => s = <<"init">> /\ Tail(s) = <<>> /\ Len(s) = 1
         /\ Head(s) = "setFrequency" => /\ s = <<"setFrequency", "setDuty">>
                                        /\ Tail(s) = <<"setDuty">> /\ Len(s) = 2
         /\ Head(s) = "setDuty" => s = <<"setDuty">> /\ Tail(s) = <<>> /\ Len(s) = 1
         /\ Head(s) \in {"frequency", "init", "setFrequency", "setDuty"}
<1>1. /\ Tail(<<"frequency", "init">>) = <<"init">> /\ Tail(<<"setFrequency", "setDuty">>) = <<"setDuty">>
      /\ Tail(<<"init">>) = <<>> /\ Tail(<<"setDuty">>) = <<>>
  OBVIOUS
<1>2. CASE s = <<"frequency", "init">>
  BY <1>1, <1>2
<1>3. CASE s = <<"init">>
  BY <1>1, <1>3
<1>4. CASE s = <<"setFrequency", "setDuty">>
  BY <1>1, <1>4
<1>5. CASE s = <<"setDuty">>
  BY <1>1, <1>5
<1>. QED  BY <1>2, <1>3, <1>4, <1>5 DEF PTodos

LEMMA PDifferent ==
  /\ <<"frequency", "init">> \notin {<<>>, <<"init">>, <<"setFrequency", "setDuty">>, <<"setDuty">>}
  /\ <<"setFrequency", "setDuty">> \notin {<<>>, <<"init">>, <<"setDuty">>}
  /\ <<"setDuty">> \notin {<<>>, <<"init">>}
  /\ <<"init">> # <<>>
  OBVIOUS

\* The operator of a channel is its number's parity.
LEMMA POperator ==
  ASSUME NEW c, c.pin \in 0..5
  PROVE  P!toOperator(c) = IF c.pin % 2 = 0 THEN "A" ELSE "B"
BY DEF P!toOperator

LEMMA PInitial ==
  ASSUME P!Init
  PROVE  PInv
<1>1. P!Off \in P!Outputs
  BY DEF P!Off, P!Outputs
<1>2. PTypes
  BY <1>1, CallAssumption DEF P!Init, PTypes, PTodos
<1>3. PCalls /\ PAgree
  BY DEF P!Init, PCalls, PAgree
<1>. QED  BY <1>2, <1>3 DEF PInv

LEMMA PSetDuty ==
  ASSUME PInv, NEW c \in P!Used, NEW d \in Duties, P!setDutyCycle(c, d)
  PROVE  PInv'
<1>1. PTypes /\ PCalls /\ PAgree
  BY DEF PInv
<1>2. /\ duty' = [duty EXCEPT ![c] = d]
      /\ \A u \in Callers : on[u] # c
      /\ calls < MaxCalls /\ calls' = calls + 1
      /\ UNCHANGED <<todo, on, arg, config, hw, asked, mixed>>
  BY DEF P!setDutyCycle
<1>3. PTypes'
  <2>1. calls' \in 0..MaxCalls
    BY <1>1, <1>2, CallAssumption DEF PTypes
  <2>. QED  BY <1>1, <1>2, <2>1 DEF PTypes
<1>4. PCalls'
  BY <1>1, <1>2 DEF PCalls
<1>5. ASSUME NEW t \in Callers, on[t] # None, PUnder(t) PROVE PUnder(t)'
  <2>1. duty'[on[t]] = duty[on[t]]
    BY <1>1, <1>2, <1>5 DEF PTypes
  <2>2. \A out, f : Due(out, f, on[t])' = Due(out, f, on[t])
    BY <1>2, <2>1 DEF Due
  <2>. QED  BY <1>2, <1>5, <2>1 DEF PUnder, Due
<1>6. PAgree'
  BY <1>1, <1>2, <1>5 DEF PAgree
<1>. QED  BY <1>3, <1>4, <1>6 DEF PInv

\* The calls that Next makes.
PCallOf(t, c, f, program) ==
  \/ f = 0 /\ program = <<"frequency", "init">>
  \/ f \in Freqs /\ program = <<"setFrequency", "setDuty">>
  \/ f = 0 /\ program = <<"setDuty">>

LEMMA PPrograms ==
  ASSUME NEW t, NEW c, NEW f \in Freqs \cup {0}, NEW program,
         \/ f = 0 /\ program \in {P!setGpioPin, P!enable, P!disable, P!reload(0)}
         \/ f \in Freqs /\ program \in {P!update, P!reload(f)}
  PROVE  PCallOf(t, c, f, program)
BY FreqAssumption DEF PCallOf, P!setGpioPin, P!enable, P!disable, P!reload, P!update

LEMMA PCall ==
  ASSUME PInv, NEW t \in Callers, NEW c \in P!Used, NEW f, NEW program,
         PCallOf(t, c, f, program), P!Call(t, c, f, program)
  PROVE  PInv'
<1> DEFINE timer == P!TimerOf(c)
<1>1. PTypes /\ PCalls /\ PAgree
  BY DEF PInv
<1>2. /\ timer \in Timers /\ c # None
      /\ c.pin \in 0..5 /\ c.pin % 2 \in {0, 1}
  BY PChannel
<1>3. /\ todo[t] = <<>> /\ \A u \in Callers : on[u] # c
      /\ calls < MaxCalls /\ calls' = calls + 1
      /\ todo' = [todo EXCEPT ![t] = program]
      /\ on' = [on EXCEPT ![t] = c]
      /\ arg' = [arg EXCEPT ![t] = f]
      /\ asked' = [asked EXCEPT ![timer] = P!Expect(c, f, program)]
      /\ mixed' = IF \E u \in Callers : on[u] \in P!ChannelsOf(timer) THEN mixed \cup {timer} ELSE mixed
      /\ UNCHANGED <<duty, config, hw>>
  BY DEF P!Call
<1> HIDE DEF timer
<1>4. f \in {0} \cup Freqs /\ (f > 0 <=> f \in Freqs)
  <2>1. f = 0 \/ f \in Freqs
    BY DEF PCallOf
  <2>2. 0 \notin Freqs /\ \A g \in Freqs : g > 0
    BY FreqAssumption
  <2>. QED  BY <2>1, <2>2
<1>5. program \in PTodos /\ program # <<>>
  BY PDifferent DEF PCallOf, PTodos
<1>6. \A u \in Callers : on[u] # None =>
        /\ on[u] \in P!Used /\ P!TimerOf(on[u]) \in Timers
        /\ (on[u] \in P!ChannelsOf(timer) <=> P!TimerOf(on[u]) = timer)
  BY <1>1, <1>2, PChannel DEF PTypes
<1>7. None \notin P!ChannelsOf(timer)
  BY NoneAssumption DEF P!ChannelsOf
<1>8. /\ todo'[t] = program /\ on'[t] = c /\ arg'[t] = f /\ on[t] = None
      /\ \A u \in Callers \ {t} : todo'[u] = todo[u] /\ on'[u] = on[u] /\ arg'[u] = arg[u]
      /\ asked'[timer] = P!Expect(c, f, program)
      /\ \A other \in Timers \ {timer} : asked'[other] = asked[other]
  BY <1>1, <1>2, <1>3 DEF PTypes, PCalls
<1>9. /\ mixed \subseteq mixed' /\ mixed' \subseteq mixed \cup {timer}
      /\ timer \notin mixed' => \A u \in Callers : on[u] # None => P!TimerOf(on[u]) # timer
  BY <1>3, <1>6
<1>10. P!Expect(c, f, program) =
         IF program = <<"frequency", "init">> THEN [frequency |-> 50, A |-> 0, B |-> 0]
         ELSE Due(asked[timer], IF f > 0 THEN f ELSE asked[timer].frequency, c)
  <2>1. asked[timer] \in P!Outputs
    BY <1>1, <1>2 DEF PTypes
  <2>2. [asked[timer] EXCEPT !.frequency = IF f > 0 THEN f ELSE @,
                             !.A = IF c.pin % 2 = 0 THEN duty[c] ELSE @,
                             !.B = IF c.pin % 2 = 1 THEN duty[c] ELSE @]
        = Due(asked[timer], IF f > 0 THEN f ELSE asked[timer].frequency, c)
    <3> DEFINE before == asked[timer]
               g == IF f > 0 THEN f ELSE before.frequency
               x == IF c.pin % 2 = 0 THEN duty[c] ELSE before.A
               y == IF c.pin % 2 = 1 THEN duty[c] ELSE before.B
    <3>1. before = [frequency |-> before.frequency, A |-> before.A, B |-> before.B]
      BY <2>1 DEF P!Outputs
    <3>2. [before EXCEPT !.frequency = IF f > 0 THEN f ELSE @,
                         !.A = IF c.pin % 2 = 0 THEN duty[c] ELSE @,
                         !.B = IF c.pin % 2 = 1 THEN duty[c] ELSE @]
          = [before EXCEPT !.frequency = g, !.A = x, !.B = y]
      OBVIOUS
    <3>3. [before EXCEPT !.frequency = g, !.A = x, !.B = y] = [frequency |-> g, A |-> x, B |-> y]
      <4> HIDE DEF before, g, x, y
      <4> DEFINE first  == [before EXCEPT !.frequency = g]
                 second == [first EXCEPT !.A = x]
      <4>1. first = [frequency |-> g, A |-> before.A, B |-> before.B]
        BY <3>1
      <4>2. second = [frequency |-> g, A |-> x, B |-> before.B]
        <5> HIDE DEF first
        <5>. QED  BY <4>1
      <4>3. [second EXCEPT !.B = y] = [frequency |-> g, A |-> x, B |-> y]
        <5> HIDE DEF second
        <5>. QED  BY <4>2
      <4>4. [before EXCEPT !.frequency = g, !.A = x, !.B = y] = [second EXCEPT !.B = y]
        OBVIOUS
      <4>. QED  BY <4>3, <4>4
    <3>. QED  BY <3>2, <3>3 DEF Due
  <2>. QED  BY <2>2 DEF P!Expect, P!setGpioPin, timer
<1>11. PTypes'
  <2>1. P!Expect(c, f, program) \in P!Outputs
    <3>1. asked[timer] \in P!Outputs /\ duty[c] \in {0} \cup Duties
      BY <1>1, <1>2 DEF PTypes
    <3>. QED  BY <1>4, <1>10, <3>1 DEF P!Outputs, Due
  <2>2. calls' \in 0..MaxCalls
    BY <1>1, <1>3, CallAssumption DEF PTypes
  <2>3. todo' \in [Callers -> PTodos] /\ on' \in [Callers -> P!Used \cup {None}] /\ arg' \in [Callers -> {0} \cup Freqs]
    BY <1>1, <1>3, <1>4, <1>5 DEF PTypes
  <2>4. mixed' \subseteq Timers
    BY <1>1, <1>2, <1>9 DEF PTypes
  <2>. QED  BY <1>1, <1>3, <2>1, <2>2, <2>3, <2>4 DEF PTypes
<1>12. PCalls'
  <2>1. \A u \in Callers : on'[u] = None <=> todo'[u] = <<>>
    BY <1>1, <1>2, <1>5, <1>8 DEF PCalls
  <2>2. \A u, v \in Callers : on'[u] = on'[v] /\ on'[u] # None => u = v
    BY <1>1, <1>3, <1>8 DEF PCalls
  <2>3. ASSUME NEW u \in Callers, NEW v \in Callers, on'[u] # None, on'[v] # None,
               P!TimerOf(on'[u]) = P!TimerOf(on'[v]), P!TimerOf(on'[u]) \notin mixed', u # v
        PROVE  FALSE
    <3>1. CASE u = t
      BY <1>8, <1>9, <2>3, <3>1 DEF timer
    <3>2. CASE v = t
      BY <1>8, <1>9, <2>3, <3>2 DEF timer
    <3>3. CASE u # t /\ v # t
      BY <1>1, <1>8, <1>9, <2>3, <3>3 DEF PCalls
    <3>. QED  BY <3>1, <3>2, <3>3
  <2>4. \A x : P!TimerOf(x)' = P!TimerOf(x)
    BY DEF P!TimerOf
  <2>. QED  BY <2>1, <2>2, <2>3 DEF PCalls
<1>13. ASSUME NEW u \in Callers, on'[u] # None, P!TimerOf(on'[u]) \notin mixed'
       PROVE  PUnder(u)'
  <2>1. CASE u = t
    <3>1. timer \notin mixed' /\ timer \notin mixed
      BY <1>8, <1>9, <1>13, <2>1 DEF timer
    <3>2. hw'[timer] = asked[timer]
      BY <1>1, <1>2, <1>3, <1>9, <3>1 DEF PAgree
    <3>3. \A out, g : Due(out, g, c)' = Due(out, g, c)
      BY <1>3 DEF Due
    <3>4. P!TimerOf(on'[t]) = timer
      BY <1>8 DEF timer
    <3>5. CASE f = 0 /\ program = <<"frequency", "init">>
      BY <1>8, <1>10, <3>4, <3>5, <2>1, PDifferent DEF PUnder
    <3>6. CASE f \in Freqs /\ program = <<"setFrequency", "setDuty">>
      <4>1. asked'[timer] = Due(hw'[timer], f, c)
        BY <1>4, <1>8, <1>10, <3>2, <3>6, PDifferent
      <4>. QED  BY <1>3, <1>8, <3>4, <3>6, <4>1, <2>1, PDifferent DEF PUnder, Due
    <3>7. CASE f = 0 /\ program = <<"setDuty">>
      <4>1. asked'[timer] = Due(hw'[timer], hw'[timer].frequency, c)
        BY <1>4, <1>8, <1>10, <3>2, <3>7, PDifferent
      <4>. QED  BY <1>3, <1>8, <3>4, <3>7, <4>1, <2>1, PDifferent DEF PUnder, Due
    <3>. QED  BY <3>5, <3>6, <3>7 DEF PCallOf
  <2>2. CASE u # t
    <3>1. on[u] # None /\ P!TimerOf(on[u]) \notin mixed /\ on'[u] = on[u] /\ todo'[u] = todo[u] /\ arg'[u] = arg[u]
      BY <1>8, <1>9, <1>13, <2>2
    <3>2. PUnder(u)
      BY <1>1, <3>1 DEF PAgree
    <3>3. P!TimerOf(on[u]) # timer
      <4>1. CASE timer \in mixed'
        BY <1>13, <3>1, <4>1
      <4>2. CASE timer \notin mixed'
        BY <1>9, <3>1, <4>2
      <4>. QED  BY <4>1, <4>2
    <3>4. asked'[P!TimerOf(on[u])] = asked[P!TimerOf(on[u])]
      BY <1>6, <1>8, <3>1, <3>3
    <3>. QED  BY <1>3, <3>1, <3>2, <3>4 DEF PUnder, Due
  <2>. QED  BY <2>1, <2>2
<1>14. ASSUME NEW other \in Timers, other \notin mixed',
              \A u \in Callers : on'[u] # None => P!TimerOf(on'[u]) # other
       PROVE  hw'[other] = asked'[other]
  <2>1. other # timer
    BY <1>2, <1>8, <1>14 DEF timer
  <2>2. \A u \in Callers : on[u] # None => P!TimerOf(on[u]) # other
    BY <1>8, <1>14
  <2>. QED  BY <1>1, <1>3, <1>8, <1>9, <1>14, <2>1, <2>2 DEF PAgree
<1>15. PAgree'
  BY <1>13, <1>14 DEF PAgree
<1>. QED  BY <1>11, <1>12, <1>15 DEF PInv

\* What a step of a call leaves of it.
LEMMA PStep ==
  ASSUME PInv, NEW t \in Callers, todo[t] # <<>>, P!Done(t), mixed' = mixed
  PROVE  /\ on[t] \in P!Used /\ on[t] # None /\ P!TimerOf(on[t]) \in Timers
         /\ todo'[t] = Tail(todo[t]) /\ on'[t] = IF Len(todo[t]) = 1 THEN None ELSE on[t]
         /\ Len(todo[t]) # 1 => arg'[t] = arg[t]
         /\ \A u \in Callers \ {t} : todo'[u] = todo[u] /\ on'[u] = on[u] /\ arg'[u] = arg[u]
         /\ todo' \in [Callers -> PTodos] /\ on' \in [Callers -> P!Used \cup {None}]
         /\ arg' \in [Callers -> {0} \cup Freqs]
         /\ PCalls'
<1>1. PTypes /\ PCalls
  BY DEF PInv
<1>2. on[t] \in P!Used /\ on[t] # None
  BY <1>1 DEF PCalls, PTypes
<1>3. P!TimerOf(on[t]) \in Timers
  BY <1>2, PChannel
<1>4. /\ todo'[t] = Tail(todo[t]) /\ on'[t] = IF Len(todo[t]) = 1 THEN None ELSE on[t]
      /\ Len(todo[t]) # 1 => arg'[t] = arg[t]
      /\ \A u \in Callers \ {t} : todo'[u] = todo[u] /\ on'[u] = on[u] /\ arg'[u] = arg[u]
  BY <1>1 DEF P!Done, PTypes
<1>5. Tail(todo[t]) \in PTodos /\ (Tail(todo[t]) = <<>> <=> Len(todo[t]) = 1)
  <2>1. todo[t] \in PTodos
    BY <1>1 DEF PTypes
  <2>2. \/ Tail(todo[t]) = <<>> /\ Len(todo[t]) = 1
        \/ Tail(todo[t]) = <<"init">> /\ Len(todo[t]) = 2
        \/ Tail(todo[t]) = <<"setDuty">> /\ Len(todo[t]) = 2
    BY <2>1, PHeads
  <2>3. Tail(todo[t]) \in PTodos
    BY <2>2 DEF PTodos
  <2>4. Tail(todo[t]) = <<>> <=> Len(todo[t]) = 1
    <3>1. <<"init">> # <<>> /\ <<"setDuty">> # <<>>
      BY PDifferent
    <3>. QED  BY <2>2, <3>1
  <2>. QED  BY <2>3, <2>4
<1>6. todo' \in [Callers -> PTodos] /\ on' \in [Callers -> P!Used \cup {None}] /\ arg' \in [Callers -> {0} \cup Freqs]
  BY <1>1, <1>5 DEF P!Done, PTypes
<1>7. PCalls'
  <2>1. \A u \in Callers : on'[u] = None <=> todo'[u] = <<>>
    BY <1>1, <1>2, <1>4, <1>5 DEF PCalls
  <2>2. \A u \in Callers : on'[u] # None => on'[u] = on[u]
    BY <1>4
  <2>. QED  BY <1>1, <2>1, <2>2 DEF PCalls
<1>. QED  BY <1>2, <1>3, <1>4, <1>6, <1>7

\* A step that leaves a call done, or with what PUnder says of the rest, keeps PAgree if
\* it changes no other timer and clears no entry of the table.
LEMMA PKeeps ==
  ASSUME PInv, NEW t \in Callers, todo[t] # <<>>, P!Done(t),
         UNCHANGED <<duty, asked, mixed, calls>>,
         config' \in [0..5 -> {0, 50}], \A i \in 0..5 : config[i] = 50 => config'[i] = 50,
         hw' \in [Timers -> P!Outputs],
         \A timer \in Timers \ {P!TimerOf(on[t])} : hw'[timer] = hw[timer],
         P!TimerOf(on[t]) \notin mixed =>
           IF Len(todo[t]) = 1 THEN hw'[P!TimerOf(on[t])] = asked[P!TimerOf(on[t])] ELSE PUnder(t)'
  PROVE  PInv'
<1> DEFINE timer == P!TimerOf(on[t])
<1>1. PTypes /\ PCalls /\ PAgree
  BY DEF PInv
<1>2. /\ on[t] \in P!Used /\ on[t] # None /\ timer \in Timers
      /\ on'[t] = IF Len(todo[t]) = 1 THEN None ELSE on[t]
      /\ \A u \in Callers \ {t} : todo'[u] = todo[u] /\ on'[u] = on[u] /\ arg'[u] = arg[u]
      /\ todo' \in [Callers -> PTodos] /\ on' \in [Callers -> P!Used \cup {None}]
      /\ arg' \in [Callers -> {0} \cup Freqs]
      /\ PCalls'
  BY PStep
<1>3. PTypes'
  BY <1>1, <1>2 DEF PTypes
<1>4. \A other \in Timers \ {timer} : hw'[other] = hw[other]
  OBVIOUS
<1> HIDE DEF timer
<1>5. ASSUME NEW u \in Callers, on'[u] # None, P!TimerOf(on'[u]) \notin mixed'
      PROVE  PUnder(u)'
  <2>1. CASE u = t
    <3>1. Len(todo[t]) # 1 /\ on'[t] = on[t]
      BY <1>2, <1>5, <2>1
    <3>. QED  BY <1>5, <2>1, <3>1
  <2>2. CASE u # t
    <3>1. on'[u] = on[u] /\ todo'[u] = todo[u] /\ arg'[u] = arg[u] /\ on[u] # None
      BY <1>2, <1>5, <2>2
    <3>2. PUnder(u)
      BY <1>1, <1>5, <3>1 DEF PAgree
    <3>3. P!TimerOf(on[u]) # timer
      BY <1>1, <1>2, <1>5, <2>2, <3>1 DEF PCalls, timer
    <3>4. on[u] \in P!Used /\ P!TimerOf(on[u]) \in Timers /\ P!Index(on[u]) \in 0..5
      BY <1>1, <3>1, PChannel DEF PTypes
    <3>5. hw'[P!TimerOf(on[u])] = hw[P!TimerOf(on[u])]
      BY <1>4, <3>3, <3>4
    <3>. QED  BY <3>1, <3>2, <3>4, <3>5 DEF PUnder, Due
  <2>. QED  BY <2>1, <2>2
<1>6. ASSUME NEW other \in Timers, other \notin mixed',
             \A u \in Callers : on'[u] # None => P!TimerOf(on'[u]) # other
      PROVE  hw'[other] = asked'[other]
  <2>1. CASE other = timer
    <3>1. Len(todo[t]) = 1
      BY <1>2, <1>6, <2>1 DEF timer
    <3>. QED  BY <1>6, <2>1, <3>1 DEF timer
  <2>2. CASE other # timer
    <3>1. \A u \in Callers : on[u] # None => P!TimerOf(on[u]) # other
      BY <1>2, <1>6, <2>2 DEF timer
    <3>. QED  BY <1>1, <1>4, <1>6, <2>2, <3>1 DEF PAgree
  <2>. QED  BY <2>1, <2>2
<1>7. PAgree'
  BY <1>5, <1>6 DEF PAgree
<1>. QED  BY <1>2, <1>3, <1>7 DEF PInv

LEMMA PFill ==
  ASSUME PInv, NEW t \in Callers, P!Fill(t)
  PROVE  PInv'
<1> DEFINE timer == P!TimerOf(on[t])
<1>1. PTypes /\ PCalls /\ PAgree
  BY DEF PInv
<1>2. /\ todo[t] # <<>> /\ Head(todo[t]) = "frequency" /\ P!Done(t)
      /\ config' = [config EXCEPT ![P!Index(on[t])] = 50]
      /\ UNCHANGED <<duty, hw, asked, mixed, calls>>
  BY DEF P!Fill, P!At
<1>3. todo[t] = <<"frequency", "init">> /\ Tail(todo[t]) = <<"init">> /\ Len(todo[t]) = 2
  <2>1. todo[t] \in PTodos
    BY <1>1 DEF PTypes
  <2>. QED  BY <1>2, <2>1, PHeads
<1>4. on[t] \in P!Used /\ on[t] # None /\ todo'[t] = <<"init">> /\ on'[t] = on[t]
  <2>1. /\ on[t] \in P!Used /\ on[t] # None
        /\ todo'[t] = Tail(todo[t]) /\ on'[t] = IF Len(todo[t]) = 1 THEN None ELSE on[t]
    BY <1>2, PStep
  <2>. QED  BY <1>3, <2>1
<1>5. P!Index(on[t]) \in 0..5
  BY <1>4, PChannel
<1>6. /\ config' \in [0..5 -> {0, 50}] /\ \A i \in 0..5 : config[i] = 50 => config'[i] = 50
      /\ config'[P!Index(on[t])] = 50
  BY <1>1, <1>2, <1>5 DEF PTypes
<1>7. ASSUME timer \notin mixed PROVE PUnder(t)'
  <2>1. PUnder(t)
    BY <1>1, <1>4, <1>7 DEF PAgree
  <2>. QED  BY <1>2, <1>3, <1>4, <1>6, <2>1, PDifferent DEF PUnder
<1>8. timer \notin mixed => IF Len(todo[t]) = 1 THEN hw'[timer] = asked[timer] ELSE PUnder(t)'
  <2>1. Len(todo[t]) # 1
    BY <1>3
  <2>. QED  BY <1>7, <2>1
<1>9. hw' \in [Timers -> P!Outputs] /\ \A other \in Timers \ {timer} : hw'[other] = hw[other]
  BY <1>1, <1>2 DEF PTypes
<1>. QED  BY <1>2, <1>6, <1>8, <1>9, PKeeps

LEMMA PInitTimer ==
  ASSUME PInv, NEW t \in Callers, P!InitTimer(t)
  PROVE  PInv'
<1> DEFINE timer == P!TimerOf(on[t])
           out == [frequency |-> config[P!Index(on[t])], A |-> 0, B |-> 0]
<1>1. PTypes /\ PCalls /\ PAgree
  BY DEF PInv
<1>2. /\ todo[t] # <<>> /\ Head(todo[t]) = "init" /\ P!Done(t)
      /\ hw' = [hw EXCEPT ![timer] = out]
      /\ UNCHANGED <<duty, config, asked, mixed, calls>>
  <2>1. [P!Off EXCEPT !.frequency = config[P!Index(on[t])]] = out
    BY DEF P!Off
  <2>. QED  BY <2>1 DEF P!InitTimer, P!At
<1>3. todo[t] = <<"init">> /\ Len(todo[t]) = 1
  <2>1. todo[t] \in PTodos
    BY <1>1 DEF PTypes
  <2>. QED  BY <1>2, <2>1, PHeads
<1>4. on[t] \in P!Used /\ on[t] # None /\ timer \in Timers
  BY <1>2, PStep
<1>5. out \in P!Outputs
  <2>1. P!Index(on[t]) \in 0..5
    BY <1>4, PChannel
  <2>2. config[P!Index(on[t])] \in {0, 50}
    BY <1>1, <2>1 DEF PTypes
  <2>. QED  BY <2>2 DEF P!Outputs
<1>6. ASSUME timer \notin mixed PROVE out = asked[timer]
  <2>1. PUnder(t)
    BY <1>1, <1>4, <1>6 DEF PAgree
  <2>. QED  BY <1>3, <2>1 DEF PUnder
<1> HIDE DEF out
<1>7. hw' \in [Timers -> P!Outputs] /\ hw'[timer] = out /\ \A other \in Timers \ {timer} : hw'[other] = hw[other]
  BY <1>1, <1>2, <1>4, <1>5 DEF PTypes
<1>. QED  BY <1>1, <1>2, <1>3, <1>6, <1>7, PKeeps DEF PTypes

LEMMA PSetOutput ==
  ASSUME PInv, NEW t \in Callers, P!SetOutput(t)
  PROVE  PInv'
<1> DEFINE c == on[t]
           timer == P!TimerOf(on[t])
<1>1. PTypes /\ PCalls /\ PAgree
  BY DEF PInv
<1>2. /\ todo[t] # <<>> /\ Head(todo[t]) \in {"setFrequency", "setDuty"} /\ P!Done(t)
      /\ UNCHANGED <<duty, config, asked, mixed, calls>>
  BY DEF P!SetOutput, P!At
<1>3. /\ c \in P!Used /\ c # None /\ timer \in Timers
      /\ todo'[t] = Tail(todo[t]) /\ on'[t] = IF Len(todo[t]) = 1 THEN None ELSE on[t]
      /\ Len(todo[t]) # 1 => arg'[t] = arg[t]
  BY <1>2, PStep
<1>4. todo[t] \in PTodos /\ hw[timer] \in P!Outputs /\ c.pin \in 0..5 /\ duty[c] \in {0} \cup Duties
      /\ arg[t] \in {0} \cup Freqs
  BY <1>1, <1>3, PChannel DEF PTypes
<1>5. timer \notin mixed => PUnder(t)
  BY <1>1, <1>3 DEF PAgree
<1>6. CASE Head(todo[t]) = "setFrequency"
  <2>1. todo[t] = <<"setFrequency", "setDuty">> /\ Tail(todo[t]) = <<"setDuty">> /\ Len(todo[t]) = 2
    BY <1>2, <1>4, <1>6, PHeads
  <2>2. hw' = [hw EXCEPT ![timer].frequency = arg[t]]
    BY <1>6 DEF P!SetOutput, P!At
  <2>3. /\ hw'[timer] = [frequency |-> arg[t], A |-> hw[timer].A, B |-> hw[timer].B]
        /\ \A other \in Timers \ {timer} : hw'[other] = hw[other]
    BY <1>1, <1>3, <1>4, <2>2 DEF PTypes, P!Outputs
  <2>4. hw'[timer] \in P!Outputs
    BY <1>4, <2>3 DEF P!Outputs
  <2>5. hw' \in [Timers -> P!Outputs]
    BY <1>1, <1>3, <2>2, <2>3, <2>4 DEF PTypes
  <2>6. ASSUME timer \notin mixed PROVE PUnder(t)'
    <3>1. asked[timer] = Due(hw[timer], arg[t], c)
      BY <1>5, <2>1, <2>6 DEF PUnder
    <3>2. todo'[t] = <<"setDuty">> /\ on'[t] = c
      BY <1>3, <2>1
    <3>3. asked'[timer] = Due(hw'[timer], hw'[timer].frequency, c)
      BY <1>2, <2>3, <3>1 DEF Due
    <3>. QED  BY <1>2, <3>2, <3>3, PDifferent DEF PUnder, Due
  <2>7. timer \notin mixed => IF Len(todo[t]) = 1 THEN hw'[timer] = asked[timer] ELSE PUnder(t)'
    <3>1. Len(todo[t]) # 1
      BY <2>1
    <3>. QED  BY <2>6, <3>1
  <2>8. config' \in [0..5 -> {0, 50}] /\ \A i \in 0..5 : config[i] = 50 => config'[i] = 50
    BY <1>1, <1>2 DEF PTypes
  <2>. QED  BY <1>2, <2>3, <2>5, <2>7, <2>8, PKeeps
<1>7. CASE Head(todo[t]) = "setDuty"
  <2>1. todo[t] = <<"setDuty">> /\ Len(todo[t]) = 1
    BY <1>2, <1>4, <1>7, PHeads
  <2>2. hw' = [hw EXCEPT ![timer][P!toOperator(c)] = duty[c]]
    BY <1>7 DEF P!SetOutput, P!At
  <2>3. hw'[timer] = Due(hw[timer], hw[timer].frequency, c)
    <3>1. /\ c.pin % 2 = 0 => P!toOperator(c) = "A"
          /\ c.pin % 2 = 1 => P!toOperator(c) = "B"
          /\ c.pin % 2 \in {0, 1}
      BY <1>4, POperator
    <3>2. CASE c.pin % 2 = 0
      <4>1. hw' = [hw EXCEPT ![timer].A = duty[c]]
        BY <2>2, <3>1, <3>2
      <4>2. hw'[timer] = [frequency |-> hw[timer].frequency, A |-> duty[c], B |-> hw[timer].B]
        BY <1>1, <1>3, <1>4, <4>1 DEF PTypes, P!Outputs
      <4>3. c.pin % 2 # 1
        BY <3>2
      <4>. QED  BY <3>2, <4>2, <4>3 DEF Due
    <3>3. CASE c.pin % 2 = 1
      <4>1. hw' = [hw EXCEPT ![timer].B = duty[c]]
        <5>1. P!toOperator(c) = "B"
          BY <3>1, <3>3
        <5>. QED  BY <2>2, <5>1
      <4>2. hw'[timer] = [frequency |-> hw[timer].frequency, A |-> hw[timer].A, B |-> duty[c]]
        BY <1>1, <1>3, <1>4, <4>1 DEF PTypes, P!Outputs
      <4>3. c.pin % 2 # 0
        BY <3>3
      <4>. QED  BY <3>3, <4>2, <4>3 DEF Due
    <3>. QED  BY <3>1, <3>2, <3>3
  <2>4. \A other \in Timers \ {timer} : hw'[other] = hw[other]
    BY <1>1, <1>3, <2>2 DEF PTypes
  <2>5. hw'[timer] \in P!Outputs
    BY <1>4, <2>3 DEF P!Outputs, Due
  <2>6. hw' \in [Timers -> P!Outputs]
    BY <1>1, <1>3, <2>2, <2>4, <2>5 DEF PTypes
  <2>7. timer \notin mixed => hw'[timer] = asked[timer]
    BY <1>5, <2>1, <2>3 DEF PUnder
  <2>. QED  BY <1>1, <1>2, <2>1, <2>4, <2>6, <2>7, PKeeps DEF PTypes
<1>. QED  BY <1>2, <1>6, <1>7

LEMMA PNext ==
  ASSUME PInv, P!Next
  PROVE  PInv'
<1>1. ASSUME NEW t \in Callers, NEW c \in P!Used, NEW f \in Freqs \cup {0}, NEW program,
             \/ f = 0 /\ program \in {P!setGpioPin, P!enable, P!disable, P!reload(0)}
             \/ f \in Freqs /\ program \in {P!update, P!reload(f)},
             P!Call(t, c, f, program)
      PROVE  PInv'
  BY <1>1, PPrograms, PCall
<1>2. ASSUME NEW t \in Callers, NEW c \in P!Used,
             \/ P!Call(t, c, 0, P!setGpioPin) \/ P!Call(t, c, 0, P!enable) \/ P!Call(t, c, 0, P!disable)
             \/ \E f \in Freqs : P!Call(t, c, f, P!update)
             \/ \E f \in Freqs \cup {0} : P!Call(t, c, f, P!reload(f))
      PROVE  PInv'
  BY <1>1, <1>2
<1>3. ASSUME NEW c \in P!Used, NEW d \in Duties, P!setDutyCycle(c, d) PROVE PInv'
  BY <1>3, PSetDuty
<1>4. ASSUME NEW t \in Callers, P!Fill(t) PROVE PInv'
  BY <1>4, PFill
<1>5. ASSUME NEW t \in Callers, P!InitTimer(t) PROVE PInv'
  BY <1>5, PInitTimer
<1>6. ASSUME NEW t \in Callers, P!SetOutput(t) PROVE PInv'
  BY <1>6, PSetOutput
<1>. QED  BY <1>2, <1>3, <1>4, <1>5, <1>6 DEF P!Next

LEMMA PAsked ==
  ASSUME PInv
  PROVE  P!TypeOK /\ P!AsAsked
<1>1. PTypes /\ PAgree
  BY DEF PInv
<1>2. todo \in [Callers -> Seq({"frequency", "init", "setFrequency", "setDuty"})]
  <2>1. PTodos \subseteq Seq({"frequency", "init", "setFrequency", "setDuty"})
    BY DEF PTodos
  <2>. QED  BY <1>1, <2>1 DEF PTypes
<1>3. P!TypeOK
  BY <1>1, <1>2 DEF PTypes, P!TypeOK
<1>4. ASSUME NEW timer \in Timers \ mixed, \A t \in Callers : on[t] \notin P!ChannelsOf(timer)
      PROVE  hw[timer] = asked[timer]
  <2>1. \A t \in Callers : on[t] # None => P!TimerOf(on[t]) # timer
    BY <1>1, <1>4, PChannel DEF PTypes
  <2>. QED  BY <1>1, <1>4, <2>1 DEF PAgree
<1>. QED  BY <1>3, <1>4 DEF P!AsAsked

-----------------------------------------------------------------------------
(* The three together.                                                     *)

PartsInv ==
  /\ part = "critical" => SectionInv
  /\ part = "pwm" => PInv
  /\ part = "spiffs" => FInv
  /\ part # "critical" => NoCritical
  /\ part \in {"critical", "pwm", "spiffs"}

LEMMA PartsStart ==
  ASSUME PartsInit
  PROVE  PartsInv
<1>1. CASE part = "critical" /\ Init
  BY <1>1, SectionInit DEF PartsInv
<1>2. CASE part = "pwm" /\ P!Init /\ NoCritical
  BY <1>2, PInitial DEF PartsInv
<1>3. CASE part = "spiffs" /\ F!Init /\ NoCritical
  BY <1>3, FInitial DEF PartsInv
<1>. QED  BY <1>1, <1>2, <1>3 DEF PartsInit

LEMMA PartsStep ==
  ASSUME PartsInv, [PartsNext]_partsVars
  PROVE  PartsInv'
<1>1. CASE part = "critical" /\ Next /\ UNCHANGED part
  BY <1>1, SectionNext DEF PartsInv
<1>2. CASE part = "pwm" /\ P!Next /\ UNCHANGED <<part, criticalVars>>
  BY <1>2, PNext DEF PartsInv, NoCritical, criticalVars
<1>3. CASE part = "spiffs" /\ F!Next /\ UNCHANGED <<part, criticalVars>>
  BY <1>3, FNext DEF PartsInv, NoCritical, criticalVars
<1>4. CASE UNCHANGED partsVars
  <2>1. UNCHANGED <<part, todo, on, calls, at, id, masked, nest, mux, moved, halted, arg, duty, config, hw,
                    asked, mixed, ret, alive, mounted, reg, robbed, twice>>
    BY <1>4 DEF partsVars, criticalVars, pwmVars, spiffsVars
  <2>2. CASE part = "critical"
    <3>1. SectionInv'
      BY <2>1, <2>2, SectionNext DEF PartsInv, vars
    <3>. QED  BY <2>1, <2>2, <3>1 DEF PartsInv
  <2>3. CASE part = "pwm"
    <3>1. PInv'
      BY <2>1, <2>3 DEF PartsInv, PInv, PTypes, PCalls, PAgree, PUnder, Due
    <3>. QED  BY <2>1, <2>3, <3>1 DEF PartsInv, NoCritical
  <2>4. CASE part = "spiffs"
    <3>1. FInv'
      BY <2>1, <2>4 DEF PartsInv, FInv, FTypes, FCalls, FAgree, FUnder
    <3>. QED  BY <2>1, <2>4, <3>1 DEF PartsInv, NoCritical
  <2>. QED  BY <2>2, <2>3, <2>4 DEF PartsInv
<1>. QED  BY <1>1, <1>2, <1>3, <1>4 DEF PartsNext

\* Every part's state is of its types, whatever the values of the constants.
THEOREM PartsTypesHold == PartsSpec => []PartsTypeOK
<1>1. PartsInv => PartsTypeOK
  BY BaseTypes, PAsked, FRegistered DEF PartsInv, SectionInv, PartsTypeOK
<1>. QED  BY <1>1, PartsStart, PartsStep, PTL DEF PartsSpec

\* Whichever part runs, each core's lock is held by the one task in a section there, as
\* often as it is nested, and can be given back, unless a task changed its core between
\* asking for it and masking its interrupts (soc/esp32.c 25-39).
THEOREM PartsOwnLock == PartsSpec => []OwnLock
<1>1. PartsInv => OwnLock
  <2>1. part # "critical" /\ NoCritical => OwnLock
    BY NoneAssumption DEF NoCritical, OwnLock
  <2>. QED  BY <2>1, SectionOwnLock DEF PartsInv
<1>. QED  BY <1>1, PartsStart, PartsStep, PTL DEF PartsSpec

\* Between calls a timer has the frequency that its channels last asked for, and each
\* channel the duty cycle it last set, whatever is done to a timer that has the same
\* entry of the table, unless calls of the timer's own two channels overlapped
\* (esp32pwmchannel.cpp 44-111).
THEOREM PartsAsAsked == PartsSpec => []AsAsked
<1>1. PartsInv => AsAsked
  BY PAsked DEF PartsInv, AsAsked
<1>. QED  BY <1>1, PartsStart, PartsStep, PTL DEF PartsSpec

\* An object whose mounted() is true has the partition, unless another's unmount() took
\* it away, and the partition is registered for no object that is gone, unless that
\* object was mounted twice (spiffs.cpp 31-58, 88-92).
THEOREM PartsMountedIsRegistered == PartsSpec => []MountedIsRegistered
<1>1. PartsInv => MountedIsRegistered
  BY FRegistered DEF PartsInv, MountedIsRegistered
<1>. QED  BY <1>1, PartsStart, PartsStep, PTL DEF PartsSpec
=============================================================================
