------------------------------- MODULE Spiffs -------------------------------
(***************************************************************************)
(* The SpiFFS objects of spiffs.cpp, all of which stand for the one        *)
(* partition that ESP-IDF registers.  Tasks mount, unmount and destroy     *)
(* objects; calls of one object are made one at a time.                    *)
(***************************************************************************)
EXTENDS Naturals, Sequences

CONSTANTS
  Tasks,
  Objects,
  None       \* no object

VARIABLES
  todo,     \* the steps left of the call each task makes
  on,       \* on[t]: the object of that call
  ret,      \* ret[t]: esp_vfs_spiffs_register returned ESP_OK
  alive,    \* the objects that exist
  mounted,  \* the objects whose _mounted is true
  reg,      \* the object the partition is registered for
  robbed,   \* the mounted objects that another object's unmount() unregistered
  twice     \* the objects that were mounted again while they were

vars == <<todo, on, ret, alive, mounted, reg, robbed, twice>>

-----------------------------------------------------------------------------
(* The methods.                                                            *)

mount   == <<"register", "store">>
unmount == <<"clear", "unregister">>

\* A destructor that leaves the registration to the others.
LazyDestruct(isMounted) == <<"gone">>
Destruct(isMounted) == IF isMounted THEN unmount \o <<"gone">> ELSE <<"gone">>

TypeOK ==
  /\ todo \in [Tasks -> Seq({"register", "store", "clear", "unregister", "gone"})]
  /\ on \in [Tasks -> Objects \cup {None}]
  /\ ret \in [Tasks -> BOOLEAN]
  /\ alive \subseteq Objects /\ mounted \subseteq alive
  /\ reg \in Objects \cup {None}
  /\ robbed \subseteq Objects /\ twice \subseteq Objects

Init ==
  /\ todo = [t \in Tasks |-> <<>>]
  /\ on = [t \in Tasks |-> None]
  /\ ret = [t \in Tasks |-> FALSE]
  /\ alive = {} /\ mounted = {}
  /\ reg = None
  /\ robbed = {} /\ twice = {}

At(t, step) == todo[t] # <<>> /\ Head(todo[t]) = step
Busy(o)     == \E t \in Tasks : on[t] = o
Done(t)     == /\ todo' = [todo EXCEPT ![t] = Tail(@)]
               /\ on' = [on EXCEPT ![t] = IF Len(todo[t]) = 1 THEN None ELSE @]

\* A new object, whose _mounted is false.
Construct(o) ==
  /\ o \notin alive
  /\ alive' = alive \cup {o}
  /\ UNCHANGED <<todo, on, ret, mounted, reg, robbed, twice>>

Call(t, o, program) ==
  /\ todo[t] = <<>>
  /\ o \in alive /\ ~Busy(o)
  /\ todo' = [todo EXCEPT ![t] = program]
  /\ on' = [on EXCEPT ![t] = o]
  /\ UNCHANGED <<ret, alive, mounted, reg, robbed, twice>>

\* esp_vfs_spiffs_register fails when the partition is registered, or on bad flash.
Register(t) ==
  /\ At(t, "register")
  /\ \/ /\ reg = None
        /\ reg' = on[t]
        /\ ret' = [ret EXCEPT ![t] = TRUE]
        /\ twice' = twice \ {on[t]}
        /\ robbed' = robbed \ {on[t]}
     \/ /\ ret' = [ret EXCEPT ![t] = FALSE]
        /\ twice' = IF reg = on[t] THEN twice \cup {on[t]} ELSE twice
        /\ UNCHANGED <<reg, robbed>>
  /\ Done(t)
  /\ UNCHANGED <<alive, mounted>>

\* A mount() that takes any answer for success.
Succeeded(ok) == TRUE
IsMounted(ok) == ok

\* _mounted = ret == ESP_OK, and _mounted = false.
Store(t) ==
  /\ \/ At(t, "store") /\ mounted' = IF IsMounted(ret[t]) THEN mounted \cup {on[t]} ELSE mounted \ {on[t]}
     \/ At(t, "clear") /\ mounted' = mounted \ {on[t]}
  /\ Done(t)
  /\ UNCHANGED <<ret, alive, reg, robbed, twice>>

\* esp_vfs_spiffs_unregister(NULL), whoever is registered.
Unregister(t) ==
  /\ At(t, "unregister")
  /\ reg' = None
  /\ robbed' = IF reg \in Objects \ {on[t]} THEN robbed \cup {reg} ELSE robbed
  /\ Done(t)
  /\ UNCHANGED <<ret, alive, mounted, twice>>

Gone(t) ==
  /\ At(t, "gone")
  /\ alive' = alive \ {on[t]}
  /\ Done(t)
  /\ UNCHANGED <<ret, mounted, reg, robbed, twice>>

Next ==
  \/ \E o \in Objects : Construct(o)
  \/ \E t \in Tasks, o \in Objects :
       \/ Call(t, o, mount) \/ Call(t, o, unmount) \/ Call(t, o, Destruct(o \in mounted))
  \/ \E t \in Tasks : Register(t) \/ Store(t) \/ Unregister(t) \/ Gone(t)

Spec == Init /\ [][Next]_vars

-----------------------------------------------------------------------------
(* Properties.                                                             *)

\* An object whose mounted() is true has the partition, whatever others try meanwhile,
\* unless an object that was not mounted was unmounted; and the partition is not left
\* registered for an object that is gone, unless the object was mounted a second time,
\* which fails and forgets the first (spiffs.cpp 31-58, 88-92).
MountedIsRegistered ==
  /\ \A o \in mounted \ robbed : reg = o
  /\ reg # None => reg \in alive \cup twice
=============================================================================
