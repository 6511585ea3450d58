------------------------------ MODULE Watchdog ------------------------------
(***************************************************************************)
(* esp32watchdog.cpp: the Watchdog object, which all tasks share, over the *)
(* task watchdog of ESP-IDF.  The task watchdog panics when, since it was  *)
(* last restarted, a timeout has gone by in which not every task that is   *)
(* subscribed to it has reset it; it restarts when they all have.          *)
(***************************************************************************)
EXTENDS Integers, Sequences

CONSTANTS
  Tasks,     \* the tasks that use the object
  Idle,      \* the idle tasks, which the configuration subscribes at boot
  Calls,     \* the methods the tasks call
  Timeouts,  \* the arguments of enable(), in milliseconds
  Boot,      \* CONFIG_TASK_WDT_TIMEOUT_S
  DisableAlone  \* TRUE: disable() does not overlap another call

ASSUME IdleAssumption    == Tasks \cap Idle = {}
ASSUME TimeoutAssumption == Boot \in Nat \ {0} /\ \A tmo \in Timeouts : tmo \in Nat /\ tmo >= 1000

VARIABLES
  todo,     \* the steps left of the call each task is in
  tmo,      \* the argument of enable()
  enabled,  \* lwiot::Watchdog::enabled()
  twdt,     \* the task watchdog: on, timeout, seconds elapsed, tasks subscribed, those that have reset it
  asked,    \* the tasks that want to be watched: they called reset() and not yet disableLocal()
  late,     \* the seconds since each task last called reset() on an enabled object, or enable() began
  off,      \* disable() was called after enable()
  halted    \* "no", "panic", or "abort" by ESP_ERROR_CHECK

vars == <<todo, tmo, enabled, twdt, asked, late, off, halted>>

All == Tasks \cup Idle
\* The longest timeout, and how far the seconds since a reset are counted.
Limit == CHOOSE m \in {Boot} \cup {x \div 1000 : x \in Timeouts} :
           \A n \in {Boot} \cup {x \div 1000 : x \in Timeouts} : n <= m
MaxLate == 2 * Limit

Steps == {"init", "set", "idle", "clear", "deinit", "check", "feed", "add", "again", "delete"}

TypeOK ==
  /\ todo \in [Tasks -> Seq(Steps)]
  /\ tmo \in [Tasks -> Timeouts \cup {0}]
  /\ enabled \in BOOLEAN
  /\ twdt \in [on : BOOLEAN, timeout : 1..Limit, elapsed : 0..Limit, tasks : SUBSET All, fed : SUBSET All]
  /\ twdt.elapsed < twdt.timeout
  /\ asked \subseteq All
  /\ late \in [All -> 0..MaxLate]
  /\ off \in BOOLEAN
  /\ halted \in {"no", "panic", "abort"}

\* The startup code has subscribed the idle tasks.
Init ==
  /\ todo = [t \in Tasks |-> <<>>]
  /\ tmo = [t \in Tasks |-> 0]
  /\ enabled = FALSE
  /\ twdt = [on |-> TRUE, timeout |-> Boot, elapsed |-> 0, tasks |-> Idle, fed |-> {}]
  /\ asked = Idle
  /\ late = [t \in All |-> 0]
  /\ off = FALSE
  /\ halted = "no"

-----------------------------------------------------------------------------
(* The task watchdog.                                                      *)

\* When all have reset it, it starts again.
Restarted(w) == IF w.tasks \subseteq w.fed THEN [w EXCEPT !.elapsed = 0, !.fed = {}] ELSE w

Subscribe(t)   == twdt' = Restarted([twdt EXCEPT !.tasks = @ \cup {t}, !.fed = @ \cup {t}])
Unsubscribe(t) == twdt' = IF t \in twdt.tasks THEN Restarted([twdt EXCEPT !.tasks = @ \ {t}, !.fed = @ \ {t}])
                                              ELSE twdt
Feed(t)        == twdt' = Restarted([twdt EXCEPT !.fed = @ \cup {t}])

\* A second passes.  The interrupt at the end of a timeout panics, if any task is subscribed.
Tick ==
  /\ halted = "no"
  /\ late' = [t \in All |-> IF late[t] < MaxLate THEN late[t] + 1 ELSE MaxLate]
  /\ IF twdt.on /\ twdt.elapsed + 1 = twdt.timeout
       THEN IF twdt.tasks = {} THEN twdt' = [twdt EXCEPT !.elapsed = 0] /\ UNCHANGED halted
                               ELSE halted' = "panic" /\ UNCHANGED twdt
       ELSE /\ twdt' = [twdt EXCEPT !.elapsed = IF twdt.on THEN @ + 1 ELSE @]
            /\ UNCHANGED halted
  /\ UNCHANGED <<todo, tmo, enabled, asked, off>>

\* The hook of an idle task, which only runs when no other task needs the core.
IdleHook(i) ==
  /\ halted = "no"
  /\ IF i \in twdt.tasks THEN Feed(i) ELSE UNCHANGED twdt
  /\ late' = [late EXCEPT ![i] = 0]
  /\ UNCHANGED <<todo, tmo, enabled, asked, off, halted>>

-----------------------------------------------------------------------------
(* The methods.                                                            *)

\* A reset() that does not subscribe its caller.
LazyProgram(call) ==
  CASE call = "enable"       -> <<"init", "set", "idle", "idle">>
    [] call = "disable"      -> <<"clear", "deinit">>
    [] call = "reset"        -> <<"check", "feed", "again">>
    [] call = "disableLocal" -> <<"check", "delete">>

Program(call) ==
  CASE call = "enable"       -> <<"init", "set", "idle", "idle">>
    [] call = "disable"      -> <<"clear", "deinit">>
    [] call = "reset"        -> <<"check", "feed", "add", "again">>
    [] call = "disableLocal" -> <<"check", "delete">>

At(t, step) == halted = "no" /\ todo[t] # <<>> /\ Head(todo[t]) = step
Done(t)     == todo' = [todo EXCEPT ![t] = Tail(@)]
Return(t)   == todo' = [todo EXCEPT ![t] = <<>>]

Call(t, call, ms) ==
  /\ halted = "no"
  /\ todo[t] = <<>>
  /\ DisableAlone => \A u \in Tasks :
       IF call = "disable" THEN todo[u] = <<>> ELSE ~At(u, "clear") /\ ~At(u, "deinit")
  /\ todo' = [todo EXCEPT ![t] = Program(call)]
  /\ tmo' = [tmo EXCEPT ![t] = IF call = "enable" THEN ms ELSE 0]
  /\ UNCHANGED <<enabled, twdt, asked, late, off, halted>>

\* esp_task_wdt_init(tmo / 1000, true); one that forgets the division.
MilliSeconds(ms) == ms
Seconds(ms)      == ms \div 1000

EnableInit(t) ==
  /\ At(t, "init")
  /\ twdt' = [twdt EXCEPT !.on = TRUE, !.timeout = Seconds(tmo[t]), !.elapsed = 0]
  /\ late' = [u \in All |-> 0]
  /\ Done(t)
  /\ UNCHANGED <<tmo, enabled, asked, off, halted>>

\* It needs memory when the task watchdog is off.
EnableFails(t) ==
  /\ At(t, "init")
  /\ ~twdt.on
  /\ Return(t)
  /\ UNCHANGED <<tmo, enabled, twdt, asked, late, off, halted>>

\* lwiot::Watchdog::enable(tmo), lwiot::Watchdog::disable()
Enabled(t) ==
  /\ \/ At(t, "set")   /\ enabled' = TRUE  /\ off' = FALSE
     \/ At(t, "clear") /\ enabled' = FALSE /\ off' = TRUE
  /\ Done(t)
  /\ UNCHANGED <<tmo, twdt, asked, late, halted>>

\* An enable() that leaves the idle tasks watched, though nobody asked for it.
WatchedIdle(t) ==
  /\ At(t, "idle")
  /\ asked' = asked \ Idle
  /\ Done(t)
  /\ UNCHANGED <<tmo, enabled, twdt, late, off, halted>>

\* esp_task_wdt_delete, for the idle task of each core.
EnableIdle(t) ==
  /\ At(t, "idle")
  /\ \E i \in Idle : /\ Idle \cap twdt.tasks # {} => i \in twdt.tasks
                    /\ Unsubscribe(i)
                    /\ asked' = asked \ {i}
  /\ Done(t)
  /\ UNCHANGED <<tmo, enabled, late, off, halted>>

\* esp_task_wdt_deinit() fails while a task is subscribed.
Deinit(t) ==
  /\ At(t, "deinit")
  /\ twdt' = IF twdt.tasks = {} THEN [twdt EXCEPT !.on = FALSE, !.elapsed = 0] ELSE twdt
  /\ Done(t)
  /\ UNCHANGED <<tmo, enabled, asked, late, off, halted>>

\* if(!this->enabled()) return
Check(t) ==
  /\ At(t, "check")
  /\ IF enabled THEN Done(t) ELSE Return(t)
  /\ UNCHANGED <<tmo, enabled, twdt, asked, late, off, halted>>

\* if(esp_task_wdt_reset() == ESP_OK) return
FeedFirst(t) ==
  /\ At(t, "feed")
  /\ IF twdt.on /\ t \in twdt.tasks
       THEN Feed(t) /\ Return(t) /\ late' = [late EXCEPT ![t] = 0] /\ asked' = asked \cup {t}
       ELSE Done(t) /\ UNCHANGED <<twdt, late, asked>>
  /\ UNCHANGED <<tmo, enabled, off, halted>>

\* esp_task_wdt_add(handle)
Add(t) ==
  /\ At(t, "add")
  /\ IF twdt.on THEN Subscribe(t) ELSE UNCHANGED twdt
  /\ asked' = asked \cup {t}
  /\ late' = [late EXCEPT ![t] = 0]
  /\ Done(t)
  /\ UNCHANGED <<tmo, enabled, off, halted>>

FeedAgain(t) ==
  /\ At(t, "again")
  /\ IF twdt.on /\ t \in twdt.tasks THEN Feed(t) ELSE UNCHANGED twdt
  /\ late' = [late EXCEPT ![t] = 0]
  /\ asked' = asked \cup {t}
  /\ Return(t)
  /\ UNCHANGED <<tmo, enabled, off, halted>>

\* ESP_ERROR_CHECK(esp_task_wdt_delete(handle))
Delete(t) ==
  /\ At(t, "delete")
  /\ IF twdt.on /\ t \in twdt.tasks
       THEN Unsubscribe(t) /\ UNCHANGED halted
       ELSE halted' = "abort" /\ UNCHANGED twdt
  /\ asked' = asked \ {t}
  /\ Done(t)
  /\ UNCHANGED <<tmo, enabled, late, off>>

Step(t) ==
  \/ EnableInit(t) \/ EnableFails(t) \/ Enabled(t) \/ EnableIdle(t) \/ Deinit(t)
  \/ Check(t) \/ FeedFirst(t) \/ Add(t) \/ FeedAgain(t) \/ Delete(t)

Next ==
  \/ Tick
  \/ \E i \in Idle : IdleHook(i)
  \/ \E t \in Tasks : Step(t) \/ \E call \in Calls, ms \in Timeouts : Call(t, call, ms)

Spec == Init /\ [][Next]_vars

-----------------------------------------------------------------------------
(* Properties.                                                             *)

\* A panic is never a false alarm: some task that asked to be watched did not call reset()
\* for a whole timeout, while it was enabled and counted anew from enable().  Idle tasks are watched only until enable() (23-38, 47-71).
NoFalseAlarm == halted = "panic" => \E t \in asked : late[t] >= twdt.timeout

\* A task that hangs after reset() is found out within two timeouts of it, or of the last
\* enable(), however the other tasks come, go and reset (47-60).
HangDetected == halted = "no" => \A t \in asked \cap Tasks : late[t] < 2 * twdt.timeout

\* After disable() no reset() is needed: tests/esp32-xbee_test/main/main_thread.cpp:105
\* disables the watchdog and loops without one.  The startup code has subscribed the idle
\* tasks, and reset() its callers, so that esp_task_wdt_deinit fails (41-45).
SilentWhenOff == off => halted # "panic"
=============================================================================
