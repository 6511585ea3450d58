--------------------------- MODULE WatchdogProofs ---------------------------
(***************************************************************************)
(* The task watchdog under esp32watchdog.cpp, for any tasks, any idle      *)
(* tasks and any timeouts of a second or more: a panic always has a silent *)
(* task behind it, and, as long as disable() overlaps no other call, a     *)
(* silent task leads to a panic within two timeouts.                       *)
(***************************************************************************)
EXTENDS Watchdog, TLAPS

\* The tasks call the object's methods, and one of the timeouts is the longest.
MethodsOnly == Calls \subseteq {"enable", "disable", "reset", "disableLocal"}
Durations   == {Boot} \cup {x \div 1000 : x \in Timeouts}
HasLongest  == \E m \in Durations : \A n \in Durations : n <= m

LEMMA Longest ==
  ASSUME HasLongest
  PROVE  /\ Limit \in Nat \ {0} /\ Boot \in 1..Limit /\ MaxLate \in Nat /\ MaxLate = 2 * Limit
         /\ \A x \in Timeouts : x \div 1000 \in 1..Limit
<1>1. Limit \in Durations /\ \A n \in Durations : n <= Limit
  BY DEF HasLongest, Limit, Durations
<1>2. ASSUME NEW x \in Timeouts PROVE x \div 1000 \in Nat \ {0}
  <2>1. x \in Nat /\ x >= 1000
    BY TimeoutAssumption
  <2>2. \A q \in Int : q * 1000 <= x /\ x < (q + 1) * 1000 => q >= 1
    BY <2>1
  <2>. QED  BY <2>1, <2>2
<1>3. Durations \subseteq Nat \ {0}
  BY <1>2, TimeoutAssumption DEF Durations
<1>4. Limit \in Nat \ {0}
  BY <1>1, <1>3
<1>5. Boot \in Durations /\ \A x \in Timeouts : x \div 1000 \in Durations
  BY DEF Durations
<1>6. \A n \in Durations : n \in 1..Limit
  BY <1>1, <1>3, <1>4
<1>7. MaxLate = 2 * Limit /\ MaxLate \in Nat
  BY <1>4 DEF MaxLate
<1>. QED  BY <1>4, <1>5, <1>6, <1>7

-----------------------------------------------------------------------------
(* What is left of a call.                                                 *)

\* Before its test, or its esp_task_wdt_init; after it; and what is left of disable().
Enabling == <<"init", "set", "idle", "idle">>
Fresh    == {<<>>, Enabling, <<"check", "feed", "add", "again">>, <<"check", "delete">>}
Past     == {<<"set", "idle", "idle">>, <<"idle", "idle">>, <<"idle">>,
             <<"feed", "add", "again">>, <<"add", "again">>, <<"again">>, <<"delete">>}
Stopping == {<<"clear", "deinit">>, <<"deinit">>}
Todos    == Fresh \cup Past \cup Stopping

\* The three are disjoint, and few calls are at their last step.
LEMMA Apart ==
  /\ <<>> \notin Past /\ <<>> \notin Stopping
  /\ \A s \in Past : s \notin Stopping /\ s \notin Fresh
  /\ \A s \in Stopping : s \notin Fresh
  BY DEF Fresh, Past, Stopping, Enabling

LEMMA NotAgain ==
  /\ <<"again">> \in Past /\ Enabling \in Fresh /\ <<>> # Enabling
  /\ \A s \in {<<"set", "idle", "idle">>, <<"idle", "idle">>, <<"idle">>, <<"delete">>,
               <<"feed", "add", "again">>, <<"add", "again">>, <<"deinit">>, <<>>} : s # <<"again">>
  BY DEF Past, Fresh, Enabling

LEMMA Remains ==
  ASSUME NEW s \in Todos, s # <<>>
  PROVE  /\ Tail(s) \in Todos /\ Tail(s) # Enabling
         /\ Head(s) = "init" => s = Enabling /\ Tail(s) \in Past
         /\ Head(s) # "add" => Tail(s) # <<"again">>
         /\ Head(s) \in {"set", "idle", "feed", "add", "again", "delete"} => s \in Past
         /\ Head(s) = "again" => s = <<"again">>
         /\ Head(s) = "check" => s \notin Stopping
         /\ Head(s) \in {"clear", "deinit"} => s \in Stopping /\ Tail(s) \notin Past
         /\ Head(s) # "clear" => Tail(s) \notin Stopping
<1>1. CASE s = Enabling
  <2>1. Head(s) = "init" /\ Tail(s) = <<"set", "idle", "idle">>
    BY <1>1 DEF Enabling
  <2>2. Tail(s) \in Todos
    BY <2>1 DEF Todos, Fresh, Past, Stopping
  <2>. QED  BY <1>1, <2>1, <2>2, Apart, NotAgain DEF Fresh, Past, Stopping
<1>2. CASE s = <<"check", "feed", "add", "again">>
  <2>1. Head(s) = "check" /\ Tail(s) = <<"feed", "add", "again">>
    BY <1>2 DEF Enabling
  <2>2. Tail(s) \in Todos
    BY <2>1 DEF Todos, Fresh, Past, Stopping
  <2>. QED  BY <1>2, <2>1, <2>2, Apart, NotAgain DEF Fresh, Past, Stopping
<1>3. CASE s = <<"check", "delete">>
  <2>1. Head(s) = "check" /\ Tail(s) = <<"delete">>
    BY <1>3 DEF Enabling
  <2>2. Tail(s) \in Todos
    BY <2>1 DEF Todos, Fresh, Past, Stopping
  <2>. QED  BY <1>3, <2>1, <2>2, Apart, NotAgain DEF Fresh, Past, Stopping
<1>4. CASE s = <<"set", "idle", "idle">>
  <2>1. Head(s) = "set" /\ Tail(s) = <<"idle", "idle">>
    BY <1>4 DEF Enabling
  <2>2. Tail(s) \in Todos
    BY <2>1 DEF Todos, Fresh, Past, Stopping
  <2>. QED  BY <1>4, <2>1, <2>2, Apart, NotAgain DEF Fresh, Past, Stopping
<1>5. CASE s = <<"idle", "idle">>
  <2>1. Head(s) = "idle" /\ Tail(s) = <<"idle">>
    BY <1>5 DEF Enabling
  <2>2. Tail(s) \in Todos
    BY <2>1 DEF Todos, Fresh, Past, Stopping
  <2>. QED  BY <1>5, <2>1, <2>2, Apart, NotAgain DEF Fresh, Past, Stopping
<1>6. CASE s = <<"idle">>
  <2>1. Head(s) = "idle" /\ Tail(s) = <<>>
    BY <1>6 DEF Enabling
  <2>2. Tail(s) \in Todos
    BY <2>1 DEF Todos, Fresh, Past, Stopping
  <2>. QED  BY <1>6, <2>1, <2>2, Apart, NotAgain DEF Fresh, Past, Stopping
<1>7. CASE s = <<"feed", "add", "again">>
  <2>1. Head(s) = "feed" /\ Tail(s) = <<"add", "again">>
    BY <1>7 DEF Enabling
  <2>2. Tail(s) \in Todos
    BY <2>1 DEF Todos, Fresh, Past, Stopping
  <2>. QED  BY <1>7, <2>1, <2>2, Apart, NotAgain DEF Fresh, Past, Stopping
<1>8. CASE s = <<"add", "again">>
  <2>1. Head(s) = "add" /\ Tail(s) = <<"again">>
    BY <1>8 DEF Enabling
  <2>2. Tail(s) \in Todos
    BY <2>1 DEF Todos, Fresh, Past, Stopping
  <2>. QED  BY <1>8, <2>1, <2>2, Apart, NotAgain DEF Fresh, Past, Stopping
<1>9. CASE s = <<"again">>
  <2>1. Head(s) = "again" /\ Tail(s) = <<>>
    BY <1>9 DEF Enabling
  <2>2. Tail(s) \in Todos
    BY <2>1 DEF Todos, Fresh, Past, Stopping
  <2>. QED  BY <1>9, <2>1, <2>2, Apart, NotAgain DEF Fresh, Past, Stopping
<1>10. CASE s = <<"delete">>
  <2>1. Head(s) = "delete" /\ Tail(s) = <<>>
    BY <1>10 DEF Enabling
  <2>2. Tail(s) \in Todos
    BY <2>1 DEF Todos, Fresh, Past, Stopping
  <2>. QED  BY <1>10, <2>1, <2>2, Apart, NotAgain DEF Fresh, Past, Stopping
<1>11. CASE s = <<"clear", "deinit">>
  <2>1. Head(s) = "clear" /\ Tail(s) = <<"deinit">>
    BY <1>11 DEF Enabling
  <2>2. Tail(s) \in Todos
    BY <2>1 DEF Todos, Fresh, Past, Stopping
  <2>. QED  BY <1>11, <2>1, <2>2, Apart, NotAgain DEF Fresh, Past, Stopping
<1>12. CASE s = <<"deinit">>
  <2>1. Head(s) = "deinit" /\ Tail(s) = <<>>
    BY <1>12 DEF Enabling
  <2>2. Tail(s) \in Todos
    BY <2>1 DEF Todos, Fresh, Past, Stopping
  <2>. QED  BY <1>12, <2>1, <2>2, Apart, NotAgain DEF Fresh, Past, Stopping
<1>. QED  BY <1>1, <1>2, <1>3, <1>4, <1>5, <1>6, <1>7, <1>8, <1>9, <1>10, <1>11, <1>12 DEF Todos, Fresh, Past, Stopping

-----------------------------------------------------------------------------
(* Types.                                                                  *)

Wdt == [on : BOOLEAN, timeout : 1..Limit, elapsed : 0..Limit, tasks : SUBSET All, fed : SUBSET All]

Types ==
  /\ TypeOK
  /\ todo \in [Tasks -> Todos]
  /\ \A t \in Tasks : todo[t] = Enabling => tmo[t] \in Timeouts

\* A restart keeps everything but the time and the tasks heard of.
LEMMA RestartedEffect ==
  ASSUME NEW w \in Wdt, Limit \in Nat
  PROVE  /\ Restarted(w) \in Wdt
         /\ Restarted(w).on = w.on /\ Restarted(w).timeout = w.timeout /\ Restarted(w).tasks = w.tasks
         /\ w.tasks \subseteq w.fed => Restarted(w).elapsed = 0 /\ Restarted(w).fed = {}
         /\ ~(w.tasks \subseteq w.fed) => Restarted(w) = w
<1>1. CASE w.tasks \subseteq w.fed
  <2>1. Restarted(w) = [w EXCEPT !.elapsed = 0, !.fed = {}]
    BY <1>1 DEF Restarted
  <2>2. [w EXCEPT !.elapsed = 0, !.fed = {}] \in Wdt
    <3>1. 0 \in 0..Limit /\ {} \in SUBSET All
      OBVIOUS
    <3>2. \A e \in 0..Limit : \A f \in SUBSET All : [w EXCEPT !.elapsed = e, !.fed = f] \in Wdt
      BY DEF Wdt
    <3>. QED  BY <3>1, <3>2
  <2>3. LET r == [w EXCEPT !.elapsed = 0, !.fed = {}]
        IN  r.on = w.on /\ r.timeout = w.timeout /\ r.tasks = w.tasks /\ r.elapsed = 0 /\ r.fed = {}
    BY DEF Wdt
  <2>. QED  BY <1>1, <2>1, <2>2, <2>3
<1>2. CASE ~(w.tasks \subseteq w.fed)
  <2>1. Restarted(w) = w
    BY <1>2 DEF Restarted
  <2>. QED  BY <1>2, <2>1
<1>. QED  BY <1>1, <1>2

\* What the three calls of the task watchdog make of it.
Becomes(tasks, fed) ==
  /\ twdt' \in Wdt /\ twdt'.on = twdt.on /\ twdt'.timeout = twdt.timeout /\ twdt'.tasks = tasks
  /\ tasks \subseteq fed => twdt'.elapsed = 0 /\ twdt'.fed = {}
  /\ ~(tasks \subseteq fed) => twdt'.elapsed = twdt.elapsed /\ twdt'.fed = fed

LEMMA WdtCalls ==
  ASSUME twdt \in Wdt, Limit \in Nat, NEW t \in All
  PROVE  /\ Subscribe(t) => Becomes(twdt.tasks \cup {t}, twdt.fed \cup {t})
         /\ Feed(t) => Becomes(twdt.tasks, twdt.fed \cup {t})
         /\ Unsubscribe(t) /\ t \in twdt.tasks => Becomes(twdt.tasks \ {t}, twdt.fed \ {t})
<1>1. ASSUME Subscribe(t) PROVE Becomes(twdt.tasks \cup {t}, twdt.fed \cup {t})
  <2>. DEFINE w == [twdt EXCEPT !.tasks = @ \cup {t}, !.fed = @ \cup {t}]
  <2>1. /\ w \in Wdt /\ w.on = twdt.on /\ w.timeout = twdt.timeout /\ w.elapsed = twdt.elapsed
        /\ w.tasks = twdt.tasks \cup {t} /\ w.fed = twdt.fed \cup {t}
    BY DEF Wdt
  <2>2. twdt' = Restarted(w)
    BY <1>1 DEF Subscribe
  <2>. HIDE DEF w
  <2>. QED  BY <2>1, <2>2, RestartedEffect DEF Becomes
<1>2. ASSUME Feed(t) PROVE Becomes(twdt.tasks, twdt.fed \cup {t})
  <2>. DEFINE w == [twdt EXCEPT !.fed = @ \cup {t}]
  <2>1. /\ w \in Wdt /\ w.on = twdt.on /\ w.timeout = twdt.timeout /\ w.elapsed = twdt.elapsed
        /\ w.tasks = twdt.tasks /\ w.fed = twdt.fed \cup {t}
    BY DEF Wdt
  <2>2. twdt' = Restarted(w)
    BY <1>2 DEF Feed
  <2>. HIDE DEF w
  <2>. QED  BY <2>1, <2>2, RestartedEffect DEF Becomes
<1>3. ASSUME Unsubscribe(t), t \in twdt.tasks PROVE Becomes(twdt.tasks \ {t}, twdt.fed \ {t})
  <2>. DEFINE w == [twdt EXCEPT !.tasks = @ \ {t}, !.fed = @ \ {t}]
  <2>1. /\ w \in Wdt /\ w.on = twdt.on /\ w.timeout = twdt.timeout /\ w.elapsed = twdt.elapsed
        /\ w.tasks = twdt.tasks \ {t} /\ w.fed = twdt.fed \ {t}
    BY DEF Wdt
  <2>2. twdt' = Restarted(w)
    BY <1>3 DEF Unsubscribe
  <2>. HIDE DEF w
  <2>. QED  BY <2>1, <2>2, RestartedEffect DEF Becomes
<1>. QED  BY <1>1, <1>2, <1>3

\* A step leaves the rest of a call, or nothing, and other calls alone.
LEMMA StepTodo ==
  ASSUME Types, NEW t \in Tasks, Step(t)
  PROVE  /\ halted = "no" /\ todo[t] \in Todos /\ todo[t] # <<>>
         /\ todo'[t] \in {Tail(todo[t]), <<>>}
         /\ \A u \in Tasks \ {t} : todo'[u] = todo[u]
         /\ todo' \in [Tasks -> Todos] /\ todo' \in [Tasks -> Seq(Steps)]
         /\ UNCHANGED tmo
<1>1. /\ halted = "no" /\ todo[t] # <<>> /\ (Done(t) \/ Return(t)) /\ UNCHANGED tmo
  BY SMTT(30) DEF Step, EnableInit, EnableFails, Enabled, EnableIdle, Deinit, Check, FeedFirst, Add, FeedAgain, Delete, At
<1>2. todo[t] \in Todos /\ todo[t] \in Seq(Steps)
  BY DEF Types, TypeOK
<1>3. <<>> \in Todos /\ <<>> \in Seq(Steps) /\ Tail(todo[t]) \in Todos /\ Tail(todo[t]) \in Seq(Steps)
  BY <1>1, <1>2, Remains DEF Todos, Fresh
<1>4. todo \in [Tasks -> Todos] /\ todo \in [Tasks -> Seq(Steps)]
  BY DEF Types, TypeOK
<1>5. CASE Done(t)
  <2>1. todo' = [todo EXCEPT ![t] = Tail(todo[t])]
    BY <1>5 DEF Done
  <2>. QED  BY <1>1, <1>2, <1>3, <1>4, <2>1
<1>6. CASE Return(t)
  <2>1. todo' = [todo EXCEPT ![t] = <<>>]
    BY <1>6 DEF Return
  <2>. QED  BY <1>1, <1>2, <1>3, <1>4, <2>1
<1>. QED  BY <1>1, <1>5, <1>6

LEMMA TypesInit ==
  ASSUME Init, HasLongest
  PROVE  Types
<1>1. twdt \in Wdt /\ twdt.elapsed < twdt.timeout
  BY Longest DEF Init, Wdt, All
<1>2. late \in [All -> 0..MaxLate]
  BY Longest DEF Init
<1>3. todo \in [Tasks -> Todos] /\ todo \in [Tasks -> Seq(Steps)] /\ \A t \in Tasks : todo[t] # Enabling
  BY NotAgain DEF Init, Todos, Fresh
<1>. QED  BY <1>1, <1>2, <1>3 DEF Init, Types, TypeOK, Wdt, All

\* The task watchdog and the silence of each task keep their types in every step.
LEMMA TypesStep ==
  ASSUME Types, HasLongest, NEW t \in Tasks, Step(t)
  PROVE  Types'
<1>1. /\ twdt \in Wdt /\ twdt.elapsed < twdt.timeout /\ late \in [All -> 0..MaxLate] /\ t \in All
      /\ 0 \in 0..MaxLate /\ Limit \in Nat
  BY Longest DEF Types, TypeOK, Wdt, All
<1>2. /\ todo[t] \in Todos /\ todo[t] # <<>> /\ todo'[t] \in {Tail(todo[t]), <<>>}
      /\ todo' \in [Tasks -> Todos] /\ todo' \in [Tasks -> Seq(Steps)]
      /\ \A u \in Tasks \ {t} : todo'[u] = todo[u]
      /\ UNCHANGED tmo
  BY StepTodo
<1>3. \A u \in Tasks : todo'[u] = Enabling => tmo'[u] \in Timeouts
  BY <1>2, Remains, NotAgain DEF Types
<1>4. ASSUME NEW tasks, NEW fed, Becomes(tasks, fed)
      PROVE  twdt' \in Wdt /\ twdt'.elapsed < twdt'.timeout
  BY <1>1, <1>4 DEF Becomes, Wdt
<1>5. twdt' \in Wdt /\ twdt'.elapsed < twdt'.timeout
  <2>1. CASE EnableInit(t)
    <3>1. tmo[t] \in Timeouts
      BY <1>2, <2>1, Remains DEF EnableInit, At, Types
    <3>2. Seconds(tmo[t]) \in 1..Limit
      BY <3>1, Longest DEF Seconds
    <3>3. \A g \in BOOLEAN, e \in 0..Limit, m \in 1..Limit :
            [twdt EXCEPT !.on = g, !.timeout = m, !.elapsed = e] \in Wdt
      BY <1>1 DEF Wdt
    <3>4. TRUE \in BOOLEAN /\ 0 \in 0..Limit
      BY <1>1
    <3>5. twdt' = [twdt EXCEPT !.on = TRUE, !.timeout = Seconds(tmo[t]), !.elapsed = 0]
      BY <2>1 DEF EnableInit
    <3>6. twdt' \in Wdt
      BY <3>2, <3>3, <3>4, <3>5
    <3>7. twdt'.elapsed = 0 /\ twdt'.timeout = Seconds(tmo[t])
      BY <1>1, <3>5 DEF Wdt
    <3>. QED  BY <1>1, <3>2, <3>6, <3>7
  <2>2. CASE EnableFails(t) \/ Enabled(t) \/ Check(t)
    BY <1>1, <2>2 DEF EnableFails, Enabled, Check
  <2>3. CASE EnableIdle(t)
    <3>1. PICK i \in Idle : Unsubscribe(i)
      BY <2>3 DEF EnableIdle
    <3>2. i \in All /\ (i \notin twdt.tasks => twdt' = twdt)
      BY <3>1 DEF Unsubscribe, All
    <3>. QED  BY <1>1, <1>4, <3>1, <3>2, WdtCalls
  <2>4. CASE Deinit(t)
    <3>1. \A g \in BOOLEAN, e \in 0..Limit :
            [twdt EXCEPT !.on = g, !.elapsed = e] \in Wdt
      BY <1>1 DEF Wdt
    <3>2. FALSE \in BOOLEAN /\ 0 \in 0..Limit /\ twdt.timeout \in 1..Limit
      BY <1>1 DEF Wdt
    <3>3. twdt' = twdt \/ twdt' = [twdt EXCEPT !.on = FALSE, !.elapsed = 0]
      BY <2>4 DEF Deinit
    <3>4. twdt' \in Wdt
      BY <1>1, <3>1, <3>2, <3>3
    <3>5. twdt'.timeout = twdt.timeout /\ twdt'.elapsed \in {0, twdt.elapsed}
      BY <1>1, <3>3 DEF Wdt
    <3>. QED  BY <1>1, <3>2, <3>4, <3>5
  <2>5. CASE FeedFirst(t) \/ FeedAgain(t)
    <3>1. Feed(t) \/ UNCHANGED twdt
      BY <2>5 DEF FeedFirst, FeedAgain
    <3>. QED  BY <1>1, <1>4, <3>1, WdtCalls
  <2>6. CASE Add(t)
    <3>1. Subscribe(t) \/ UNCHANGED twdt
      BY <2>6 DEF Add
    <3>. QED  BY <1>1, <1>4, <3>1, WdtCalls
  <2>7. CASE Delete(t)
    <3>1. (t \in twdt.tasks /\ Unsubscribe(t)) \/ UNCHANGED twdt
      BY <2>7 DEF Delete
    <3>. QED  BY <1>1, <1>4, <3>1, WdtCalls
  <2>. QED  BY <2>1, <2>2, <2>3, <2>4, <2>5, <2>6, <2>7 DEF Step
<1>6. late' \in [All -> 0..MaxLate]
  BY <1>1, SMTT(30) DEF Step, EnableInit, EnableFails, Enabled, EnableIdle, Deinit, Check, FeedFirst, Add, FeedAgain, Delete
<1>7. asked' \subseteq All
  BY <1>1, SMTT(30) DEF Types, TypeOK, Step, EnableInit, EnableFails, Enabled, EnableIdle, Deinit, Check, FeedFirst, Add, FeedAgain, Delete
<1>8. enabled' \in BOOLEAN /\ off' \in BOOLEAN
  <2>1. Enabled(t) \/ UNCHANGED <<enabled, off>>
    BY SMTT(30) DEF Step, EnableInit, EnableFails, EnableIdle, Deinit, Check, FeedFirst, Add, FeedAgain, Delete
  <2>2. \/ enabled' = TRUE /\ off' = FALSE
        \/ enabled' = FALSE /\ off' = TRUE
        \/ UNCHANGED <<enabled, off>>
    BY <2>1 DEF Enabled
  <2>3. enabled \in BOOLEAN /\ off \in BOOLEAN
    BY DEF Types, TypeOK
  <2>. QED  BY <2>2, <2>3
<1>9. halted' \in {"no", "panic", "abort"}
  BY SMTT(30) DEF Types, TypeOK, Step, EnableInit, EnableFails, Enabled, EnableIdle, Deinit, Check, FeedFirst, Add, FeedAgain, Delete
<1>10. tmo' \in [Tasks -> Timeouts \cup {0}]
  BY <1>2 DEF Types, TypeOK
<1>. QED  BY <1>2, <1>3, <1>5, <1>6, <1>7, <1>8, <1>9, <1>10 DEF Types, TypeOK, Wdt

LEMMA TypesNext ==
  ASSUME Types, HasLongest, MethodsOnly, [Next]_vars
  PROVE  Types'
<1>1. CASE UNCHANGED vars
  BY <1>1 DEF vars, Types, TypeOK
<1>2. /\ twdt \in Wdt /\ twdt.elapsed < twdt.timeout /\ late \in [All -> 0..MaxLate]
      /\ 0 \in 0..MaxLate /\ MaxLate \in Nat /\ Limit \in Nat
  BY Longest DEF Types, TypeOK, Wdt
<1>3. CASE Tick
  <2>1. late' \in [All -> 0..MaxLate]
    BY <1>2, <1>3 DEF Tick
  <2>2. twdt' \in Wdt /\ twdt'.elapsed < twdt'.timeout
    <3>1. twdt.elapsed \in Nat /\ twdt.timeout \in 1..Limit /\ twdt.on \in BOOLEAN
      BY <1>2 DEF Wdt
    <3>2. CASE twdt.on /\ twdt.elapsed + 1 = twdt.timeout
      <4>1. twdt' = twdt \/ twdt' = [twdt EXCEPT !.elapsed = 0]
        BY <1>3, <3>2 DEF Tick
      <4>. QED  BY <1>2, <3>1, <4>1 DEF Wdt
    <3>3. CASE ~(twdt.on /\ twdt.elapsed + 1 = twdt.timeout)
      <4>1. twdt' = [twdt EXCEPT !.elapsed = IF twdt.on THEN @ + 1 ELSE @]
        BY <1>3, <3>3 DEF Tick
      <4>2. (IF twdt.on THEN twdt.elapsed + 1 ELSE twdt.elapsed) \in 0..Limit
        BY <1>2, <3>1, <3>3
      <4>. QED  BY <1>2, <3>1, <3>3, <4>1, <4>2 DEF Wdt
    <3>. QED  BY <3>2, <3>3
  <2>3. halted' \in {"no", "panic", "abort"}
    BY <1>3 DEF Tick, Types, TypeOK
  <2>4. UNCHANGED <<todo, tmo, enabled, asked, off>>
    BY <1>3 DEF Tick
  <2>. QED  BY <2>1, <2>2, <2>3, <2>4 DEF Types, TypeOK, Wdt
<1>4. ASSUME NEW i \in Idle, IdleHook(i) PROVE Types'
  <2>1. i \in All
    BY DEF All
  <2>2. Feed(i) \/ UNCHANGED twdt
    BY <1>4 DEF IdleHook
  <2>3. twdt' \in Wdt /\ twdt'.elapsed < twdt'.timeout
    BY <1>2, <2>1, <2>2, WdtCalls DEF Becomes, Wdt
  <2>4. late' \in [All -> 0..MaxLate] /\ UNCHANGED <<todo, tmo, enabled, asked, off, halted>>
    BY <1>2, <1>4 DEF IdleHook
  <2>. QED  BY <2>3, <2>4 DEF Types, TypeOK, Wdt
<1>5. ASSUME NEW t \in Tasks, NEW call \in Calls, NEW ms \in Timeouts, Call(t, call, ms) PROVE Types'
  <2>1. call \in {"enable", "disable", "reset", "disableLocal"}
    BY DEF MethodsOnly
  <2>2. /\ Program(call) \in Todos /\ Program(call) \in Seq(Steps)
        /\ Program(call) = Enabling => call = "enable"
    <3>1. CASE call = "enable"
      BY <3>1 DEF Program, Todos, Fresh, Enabling, Steps
    <3>2. CASE call = "disable"
      <4>1. Program(call) = <<"clear", "deinit">>
        BY <3>2 DEF Program
      <4>. QED  BY <4>1, Apart, NotAgain DEF Todos, Stopping, Steps
    <3>3. CASE call = "reset"
      <4>1. Program(call) = <<"check", "feed", "add", "again">>
        BY <3>3 DEF Program
      <4>2. Head(Program(call)) = "check" /\ Head(Enabling) = "init"
        BY <4>1 DEF Enabling
      <4>. QED  BY <4>1, <4>2 DEF Todos, Fresh, Steps
    <3>4. CASE call = "disableLocal"
      <4>1. Program(call) = <<"check", "delete">>
        BY <3>4 DEF Program
      <4>2. Head(Program(call)) = "check" /\ Head(Enabling) = "init"
        BY <4>1 DEF Enabling
      <4>. QED  BY <4>1, <4>2 DEF Todos, Fresh, Steps
    <3>. QED  BY <2>1, <3>1, <3>2, <3>3, <3>4
  <2>3. /\ todo' = [todo EXCEPT ![t] = Program(call)]
        /\ tmo' = [tmo EXCEPT ![t] = IF call = "enable" THEN ms ELSE 0]
        /\ UNCHANGED <<enabled, twdt, asked, late, off, halted>>
    BY <1>5 DEF Call
  <2>. QED  BY <2>2, <2>3 DEF Types, TypeOK
<1>6. ASSUME NEW t \in Tasks, Step(t) PROVE Types'
  BY <1>6, TypesStep
<1>. QED  BY <1>1, <1>3, <1>4, <1>5, <1>6 DEF Next

-----------------------------------------------------------------------------
(* No false alarm.                                                         *)

\* Every subscribed task that has not been heard of has been silent for as long as the
\* time runs, and there is one if any task is subscribed.
Watch ==
  /\ ~twdt.on => twdt.tasks = {}
  /\ twdt.tasks \subseteq asked
  /\ twdt.tasks # {} => ~(twdt.tasks \subseteq twdt.fed)
  /\ \A u \in twdt.tasks \ twdt.fed : late[u] >= twdt.elapsed
  /\ NoFalseAlarm

LEMMA WatchInit ==
  ASSUME Init, HasLongest
  PROVE  Watch
<1>. QED  BY Longest DEF Init, Watch, NoFalseAlarm, All

LEMMA WatchBecomes ==
  ASSUME Types, Types', Watch, halted' # "panic", NEW tasks, NEW fed, Becomes(tasks, fed),
         tasks \subseteq asked', twdt.on \/ tasks = {},
         tasks \ fed \subseteq twdt.tasks \ twdt.fed,
         NEW x \in All, x \in fed \/ x \notin tasks, \A u \in All \ {x} : late'[u] = late[u]
  PROVE  Watch'
<1>1. /\ twdt'.on = twdt.on /\ twdt'.tasks = tasks /\ tasks \subseteq All
      /\ tasks \subseteq fed => twdt'.elapsed = 0 /\ twdt'.fed = {}
      /\ ~(tasks \subseteq fed) => twdt'.elapsed = twdt.elapsed /\ twdt'.fed = fed
  BY DEF Becomes, Wdt
<1>2. late' \in [All -> Nat]
  BY DEF Types, TypeOK
<1>3. ASSUME NEW u \in tasks \ twdt'.fed PROVE late'[u] >= twdt'.elapsed
  <2>1. CASE tasks \subseteq fed
    BY <1>1, <1>2, <2>1
  <2>2. CASE ~(tasks \subseteq fed)
    <3>1. u \in tasks \ fed /\ u # x /\ u \in All
      BY <1>1, <2>2
    <3>2. late'[u] = late[u] /\ u \in twdt.tasks \ twdt.fed
      BY <3>1
    <3>. QED  BY <1>1, <2>2, <3>2 DEF Watch
  <2>. QED  BY <2>1, <2>2
<1>. QED  BY <1>1, <1>3 DEF Watch, NoFalseAlarm

LEMMA WatchSame ==
  ASSUME Watch, halted' # "panic", UNCHANGED twdt, twdt.tasks \subseteq asked',
         \A u \in twdt.tasks : late'[u] = late[u]
  PROVE  Watch'
  BY DEF Watch, NoFalseAlarm

LEMMA WatchStep ==
  ASSUME Types, Types', Watch, HasLongest, NEW t \in Tasks, Step(t)
  PROVE  Watch'
<1>1. twdt \in Wdt /\ late \in [All -> 0..MaxLate] /\ t \in All /\ Limit \in Nat /\ MaxLate \in Nat
  BY Longest DEF Types, TypeOK, Wdt, All
<1>2. halted = "no" /\ halted' # "panic" /\ twdt.tasks \subseteq asked
  <2>1. halted = "no"
    BY StepTodo
  <2>2. halted' \in {halted, "abort"}
    BY SMTT(30) DEF Step, EnableInit, EnableFails, Enabled, EnableIdle, Deinit, Check, FeedFirst, Add, FeedAgain, Delete
  <2>. QED  BY <2>1, <2>2 DEF Watch
<1>3. CASE EnableInit(t)
  <2>1. /\ twdt' = [twdt EXCEPT !.on = TRUE, !.timeout = Seconds(tmo[t]), !.elapsed = 0]
        /\ late' = [u \in All |-> 0] /\ UNCHANGED asked
    BY <1>3 DEF EnableInit
  <2>2. twdt'.on /\ twdt'.tasks = twdt.tasks /\ twdt'.fed = twdt.fed /\ twdt'.elapsed = 0
    BY <1>1, <2>1 DEF Wdt
  <2>3. \A u \in twdt.tasks : late'[u] = 0
    BY <1>1, <2>1 DEF Wdt
  <2>. QED  BY <1>2, <2>1, <2>2, <2>3 DEF Watch, NoFalseAlarm
<1>4. CASE EnableFails(t) \/ Enabled(t) \/ Check(t)
  BY <1>2, <1>4, WatchSame DEF EnableFails, Enabled, Check
<1>5. CASE EnableIdle(t)
  <2>1. PICK i \in Idle : /\ Unsubscribe(i) /\ asked' = asked \ {i}
    BY <1>5 DEF EnableIdle
  <2>2. i \in All /\ UNCHANGED late
    BY <1>5 DEF All, EnableIdle
  <2>3. CASE i \in twdt.tasks
    <3>1. Becomes(twdt.tasks \ {i}, twdt.fed \ {i})
      BY <1>1, <2>1, <2>2, <2>3, WdtCalls
    <3>2. twdt.on \/ twdt.tasks \ {i} = {}
      BY DEF Watch
    <3>. QED  BY <1>2, <2>1, <2>2, <3>1, <3>2, WatchBecomes
  <2>4. CASE i \notin twdt.tasks
    BY <1>2, <2>1, <2>2, <2>4, WatchSame DEF Unsubscribe
  <2>. QED  BY <2>3, <2>4
<1>6. CASE Deinit(t)
  <2>1. UNCHANGED <<asked, late>>
    BY <1>6 DEF Deinit
  <2>2. CASE twdt.tasks = {}
    <3>1. twdt' = [twdt EXCEPT !.on = FALSE, !.elapsed = 0]
      BY <1>6, <2>2 DEF Deinit
    <3>2. twdt'.tasks = {}
      BY <1>1, <2>2, <3>1 DEF Wdt
    <3>. QED  BY <1>2, <3>2 DEF Watch, NoFalseAlarm
  <2>3. CASE twdt.tasks # {}
    BY <1>2, <1>6, <2>1, <2>3, WatchSame DEF Deinit
  <2>. QED  BY <2>2, <2>3
<1>7. CASE FeedFirst(t) \/ FeedAgain(t)
  <2>1. twdt.tasks \subseteq asked' /\ \A u \in All \ {t} : late'[u] = late[u]
    BY <1>1, <1>2, <1>7 DEF FeedFirst, FeedAgain
  <2>2. CASE Feed(t) /\ t \in twdt.tasks
    <3>1. Becomes(twdt.tasks, twdt.fed \cup {t})
      BY <1>1, <2>2, WdtCalls
    <3>2. twdt.on \/ twdt.tasks = {}
      BY DEF Watch
    <3>. QED  BY <1>1, <1>2, <2>1, <3>1, <3>2, WatchBecomes
  <2>3. CASE UNCHANGED twdt /\ (UNCHANGED late \/ t \notin twdt.tasks)
    <3>1. \A u \in twdt.tasks : late'[u] = late[u]
      BY <1>1, <2>1, <2>3 DEF Wdt
    <3>. QED  BY <1>2, <2>1, <2>3, <3>1, WatchSame
  <2>4. ~twdt.on => t \notin twdt.tasks
    BY DEF Watch
  <2>. QED  BY <1>7, <2>2, <2>3, <2>4 DEF FeedFirst, FeedAgain
<1>8. CASE Add(t)
  <2>1. asked' = asked \cup {t} /\ late' = [late EXCEPT ![t] = 0]
    BY <1>8 DEF Add
  <2>2. CASE twdt.on
    <3>1. Subscribe(t)
      BY <1>8, <2>2 DEF Add
    <3>2. Becomes(twdt.tasks \cup {t}, twdt.fed \cup {t})
      BY <1>1, <3>1, WdtCalls
    <3>3. \A u \in All \ {t} : late'[u] = late[u]
      BY <1>1, <2>1
    <3>4. /\ twdt.tasks \cup {t} \subseteq asked'
          /\ (twdt.tasks \cup {t}) \ (twdt.fed \cup {t}) \subseteq twdt.tasks \ twdt.fed
          /\ t \in twdt.fed \cup {t}
      BY <1>2, <2>1
    <3>. QED  BY <1>1, <1>2, <2>2, <3>2, <3>3, <3>4, WatchBecomes
  <2>3. CASE ~twdt.on
    <3>1. twdt.tasks = {} /\ UNCHANGED twdt
      BY <1>8, <2>3 DEF Add, Watch
    <3>. QED  BY <1>2, <3>1, WatchSame
  <2>. QED  BY <2>2, <2>3
<1>9. CASE Delete(t)
  <2>1. asked' = asked \ {t} /\ UNCHANGED late
    BY <1>9 DEF Delete
  <2>2. CASE twdt.on /\ t \in twdt.tasks
    <3>1. Unsubscribe(t)
      BY <1>9, <2>2 DEF Delete
    <3>2. Becomes(twdt.tasks \ {t}, twdt.fed \ {t})
      BY <1>1, <2>2, <3>1, WdtCalls
    <3>. QED  BY <1>1, <1>2, <2>1, <2>2, <3>2, WatchBecomes
  <2>3. CASE ~(twdt.on /\ t \in twdt.tasks)
    <3>1. t \notin twdt.tasks /\ UNCHANGED twdt
      BY <1>9, <2>3 DEF Delete, Watch
    <3>. QED  BY <1>2, <2>1, <3>1, WatchSame
  <2>. QED  BY <2>2, <2>3
<1>. QED  BY <1>3, <1>4, <1>5, <1>6, <1>7, <1>8, <1>9 DEF Step

\* A panic: a subscribed task that has not been heard of was silent for the whole timeout.
LEMMA WatchTick ==
  ASSUME Types, Watch, HasLongest, Tick
  PROVE  Watch'
<1>1. /\ twdt \in Wdt /\ twdt.elapsed < twdt.timeout /\ late \in [All -> 0..MaxLate]
      /\ Limit \in Nat /\ MaxLate = 2 * Limit /\ halted = "no" /\ UNCHANGED asked
  BY Longest DEF Types, TypeOK, Wdt, Tick
<1>2. twdt.elapsed \in Nat /\ twdt.timeout \in 1..Limit /\ twdt.tasks \subseteq All
  BY <1>1 DEF Wdt
<1>3. \A u \in twdt.tasks \ twdt.fed : late'[u] >= twdt.elapsed + 1
  <2>1. SUFFICES ASSUME NEW u \in twdt.tasks \ twdt.fed PROVE late'[u] >= twdt.elapsed + 1
    OBVIOUS
  <2>2. late[u] >= twdt.elapsed /\ late[u] \in 0..MaxLate /\ u \in All
    BY <1>1, <1>2 DEF Watch
  <2>3. late'[u] = IF late[u] < MaxLate THEN late[u] + 1 ELSE MaxLate
    BY <2>2 DEF Tick
  <2>. QED  BY <1>1, <1>2, <2>2, <2>3
<1>4. CASE twdt.on /\ twdt.elapsed + 1 = twdt.timeout /\ twdt.tasks # {}
  <2>1. halted' = "panic" /\ UNCHANGED twdt
    BY <1>4 DEF Tick
  <2>2. PICK u \in twdt.tasks : u \notin twdt.fed
    BY <1>4 DEF Watch
  <2>3. u \in asked /\ late'[u] >= twdt.timeout
    BY <1>3, <1>4, <2>2 DEF Watch
  <2>4. \A v \in twdt.tasks \ twdt.fed : late'[v] >= twdt.elapsed
    <3>1. \A v \in twdt.tasks : late'[v] \in Nat
      BY <1>1, <1>2 DEF Tick
    <3>. QED  BY <1>2, <1>3, <3>1
  <2>. QED  BY <1>1, <2>1, <2>3, <2>4 DEF Watch, NoFalseAlarm
<1>5. CASE twdt.on /\ twdt.elapsed + 1 = twdt.timeout /\ twdt.tasks = {}
  <2>1. halted' = halted /\ twdt' = [twdt EXCEPT !.elapsed = 0]
    BY <1>5 DEF Tick
  <2>2. twdt'.tasks = {}
    BY <1>1, <1>5, <2>1 DEF Wdt
  <2>. QED  BY <1>1, <2>1, <2>2 DEF Watch, NoFalseAlarm
<1>6. CASE ~(twdt.on /\ twdt.elapsed + 1 = twdt.timeout)
  <2>1. halted' = halted /\ twdt' = [twdt EXCEPT !.elapsed = IF twdt.on THEN @ + 1 ELSE @]
    BY <1>6 DEF Tick
  <2>2. /\ twdt'.on = twdt.on /\ twdt'.tasks = twdt.tasks /\ twdt'.fed = twdt.fed
        /\ twdt'.elapsed = IF twdt.on THEN twdt.elapsed + 1 ELSE twdt.elapsed
    BY <1>1, <2>1 DEF Wdt
  <2>3. \A u \in twdt.tasks \ twdt.fed : late'[u] >= twdt'.elapsed
    <3>1. \A u \in twdt.tasks : late'[u] \in Nat
      BY <1>1, <1>2 DEF Tick
    <3>. QED  BY <1>2, <1>3, <2>2, <3>1
  <2>. QED  BY <1>1, <2>1, <2>2, <2>3 DEF Watch, NoFalseAlarm
<1>. QED  BY <1>4, <1>5, <1>6

LEMMA WatchNext ==
  ASSUME Types, Types', Watch, HasLongest, [Next]_vars
  PROVE  Watch'
<1>1. CASE UNCHANGED vars
  BY <1>1 DEF vars, Watch, NoFalseAlarm
<1>2. ASSUME NEW i \in Idle, IdleHook(i) PROVE Watch'
  <2>1. /\ i \in All /\ twdt \in Wdt /\ late \in [All -> 0..MaxLate] /\ Limit \in Nat
        /\ twdt.tasks \subseteq All /\ twdt.tasks \subseteq asked /\ (twdt.on \/ twdt.tasks = {})
    BY Longest DEF Types, TypeOK, Wdt, All, Watch
  <2>2. halted' # "panic" /\ UNCHANGED asked /\ \A u \in All \ {i} : late'[u] = late[u]
    BY <1>2, <2>1 DEF IdleHook
  <2>3. CASE i \in twdt.tasks
    <3>1. Becomes(twdt.tasks, twdt.fed \cup {i})
      BY <1>2, <2>1, <2>3, WdtCalls DEF IdleHook
    <3>. QED  BY <2>1, <2>2, <3>1, WatchBecomes
  <2>4. CASE i \notin twdt.tasks
    BY <1>2, <2>1, <2>2, <2>4, WatchSame DEF IdleHook
  <2>. QED  BY <2>3, <2>4
<1>3. ASSUME NEW t \in Tasks, NEW call \in Calls, NEW ms \in Timeouts, Call(t, call, ms) PROVE Watch'
  BY <1>3 DEF Call, Watch, NoFalseAlarm
<1>. QED  BY <1>1, <1>2, <1>3, WatchStep, WatchTick DEF Next

-----------------------------------------------------------------------------
(* Every hang is found, if disable() overlaps no other call.               *)

\* disable() is alone, and the task watchdog is on whenever a call relies on it.
Alone ==
  /\ \A t, u \in Tasks : todo[t] \in Stopping /\ todo[u] # <<>> => t = u
  /\ \A t \in Tasks : todo[t] \in Past => twdt.on
  /\ enabled => twdt.on
  /\ \A t \in Tasks : todo[t] = <<"deinit">> => ~enabled

\* Who asked to be watched is subscribed, and was silent for no longer than the time that
\* runs and, if it has not been heard of in that time, what could be left of the one before.
Silence ==
  /\ \A t \in Tasks : todo[t] = <<"again">> => t \in twdt.tasks
  /\ halted = "no" =>
       /\ asked \cap Tasks \subseteq twdt.tasks
       /\ \A t \in twdt.tasks \cap Tasks :
            late[t] <= twdt.elapsed + (IF t \in twdt.fed THEN 0 ELSE twdt.timeout - 1)

Hang == Alone /\ Silence

LEMMA HangInit ==
  ASSUME Init, HasLongest
  PROVE  Hang
<1>1. \A t \in Tasks : todo[t] = <<>>
  BY DEF Init
<1>2. Alone
  BY <1>1, Apart DEF Init, Alone
<1>3. asked \cap Tasks = {} /\ twdt.tasks \cap Tasks = {}
  BY IdleAssumption DEF Init
<1>4. Silence
  BY <1>1, <1>3, NotAgain DEF Silence
<1>. QED  BY <1>2, <1>4 DEF Hang

LEMMA AloneStep ==
  ASSUME Types, Types', Alone, HasLongest, NEW t \in Tasks, Step(t)
  PROVE  Alone'
<1>1. /\ todo[t] \in Todos /\ todo[t] # <<>> /\ todo'[t] \in {Tail(todo[t]), <<>>}
      /\ \A u \in Tasks \ {t} : todo'[u] = todo[u]
  BY StepTodo
<1>2. \A u, v \in Tasks : todo'[u] \in Stopping /\ todo'[v] # <<>> => u = v
  <2>1. todo'[t] \in Stopping => todo[t] \in Stopping
    BY <1>1, Remains, Apart
  <2>2. todo'[t] # <<>> => todo[t] # <<>>
    BY <1>1
  <2>. QED  BY <1>1, <2>1, <2>2 DEF Alone
<1>3. todo[t] \in Past => twdt.on
  BY DEF Alone
<1>4. twdt \in Wdt /\ t \in All /\ Limit \in Nat
  BY Longest DEF Types, TypeOK, Wdt, All
<1>5. CASE Deinit(t)
  <2>1. todo[t] \in Stopping /\ Tail(todo[t]) \notin Past
    BY <1>1, <1>5, Remains DEF Deinit, At
  <2>2. \A u \in Tasks : todo'[u] \notin Past
    BY <1>1, <2>1, Apart DEF Alone
  <2>3. todo[t] = <<"deinit">>
    <3>1. Head(<<"clear", "deinit">>) = "clear"
      OBVIOUS
    <3>. QED  BY <1>5, <2>1, <3>1 DEF Deinit, At, Stopping
  <2>4. ~enabled'
    BY <1>5, <2>3 DEF Deinit, Alone
  <2>. QED  BY <1>2, <2>2, <2>4 DEF Alone
<1>6. CASE ~Deinit(t)
  <2>1. twdt.on => twdt'.on
    <3>1. CASE EnableInit(t)
      BY <1>4, <3>1 DEF EnableInit, Wdt
    <3>2. ASSUME NEW i \in All, Unsubscribe(i) PROVE twdt'.on = twdt.on
      <4>1. CASE i \in twdt.tasks
        BY <1>4, <3>2, <4>1, WdtCalls DEF Becomes
      <4>2. CASE i \notin twdt.tasks
        BY <3>2, <4>2 DEF Unsubscribe
      <4>. QED  BY <4>1, <4>2
    <3>3. CASE EnableIdle(t)
      BY <3>2, <3>3 DEF EnableIdle, All
    <3>4. CASE Feed(t) \/ Subscribe(t)
      BY <1>4, <3>4, WdtCalls DEF Becomes
    <3>5. EnableInit(t) \/ EnableIdle(t) \/ Feed(t) \/ Subscribe(t) \/ Unsubscribe(t) \/ UNCHANGED twdt
      BY <1>6 DEF Step, EnableFails, Enabled, Check, FeedFirst, Add, FeedAgain, Delete
    <3>. QED  BY <1>4, <3>1, <3>2, <3>3, <3>4, <3>5
  <2>2. todo'[t] \in Past => twdt'.on
    <3>1. CASE EnableInit(t)
      BY <1>4, <3>1 DEF EnableInit, Wdt
    <3>2. CASE Check(t)
      <4>1. CASE enabled
        BY <2>1, <4>1 DEF Alone
      <4>2. CASE ~enabled
        <5>1. todo'[t] = <<>>
          BY <3>2, <4>2 DEF Check, Return, Types, TypeOK
        <5>. QED  BY <5>1, Apart
      <4>. QED  BY <4>1, <4>2
    <3>3. CASE ~EnableInit(t) /\ ~Check(t)
      <4>1. Head(todo[t]) \in {"set", "idle", "feed", "add", "again", "delete", "clear"} \/ todo'[t] = <<>>
        BY <1>6, <3>3 DEF Step, EnableFails, Enabled, EnableIdle, FeedFirst, Add, FeedAgain, Delete, At, Return, Types, TypeOK
      <4>2. todo'[t] \in Past => todo[t] \in Past
        BY <1>1, <4>1, Remains, Apart
      <4>. QED  BY <1>3, <2>1, <4>2
    <3>. QED  BY <3>1, <3>2, <3>3
  <2>3. enabled' => twdt'.on
    <3>1. enabled' => enabled \/ At(t, "set")
      BY DEF Step, EnableInit, EnableFails, Enabled, EnableIdle, Deinit, Check, FeedFirst, Add, FeedAgain, Delete
    <3>2. At(t, "set") => todo[t] \in Past
      BY <1>1, Remains DEF At
    <3>. QED  BY <1>3, <2>1, <3>1, <3>2 DEF Alone
  <2>4. \A u \in Tasks : todo'[u] = <<"deinit">> => ~enabled'
    <3>1. todo[t] \notin Stopping => todo'[t] \notin Stopping
      BY <1>1, Remains, Apart
    <3>2. ASSUME NEW u \in Tasks, todo'[u] = <<"deinit">> PROVE ~enabled'
      <4>1. todo'[u] \in Stopping
        BY <3>2 DEF Stopping
      <4>2. todo[u] \in Stopping /\ u = t
        BY <1>1, <3>1, <4>1 DEF Alone
      <4>3. Head(todo[t]) \in {"clear", "deinit"}
        <5>1. Head(<<"clear", "deinit">>) = "clear" /\ Head(<<"deinit">>) = "deinit"
          OBVIOUS
        <5>. QED  BY <4>2, <5>1 DEF Stopping
      <4>4. Enabled(t) /\ At(t, "clear")
        BY <1>6, <4>3 DEF Step, EnableInit, EnableFails, Enabled, EnableIdle, Check, FeedFirst, Add, FeedAgain, Delete, At
      <4>. QED  BY <4>4 DEF Enabled, At
    <3>. QED  BY <3>2
  <2>. QED  BY <1>1, <1>2, <2>1, <2>2, <2>3, <2>4 DEF Alone
<1>. QED  BY <1>5, <1>6

\* What a call of the task watchdog makes of the silence of the tasks that stay subscribed.
LEMMA SilenceBecomes ==
  ASSUME Types, Types', Silence, halted = "no", NEW tasks, NEW fed, Becomes(tasks, fed), NEW x \in All,
         \A u \in (tasks \cap Tasks) \ {x} :
           u \in twdt.tasks /\ late'[u] = late[u] /\ (u \in fed => u \in twdt.fed),
         x \in tasks => late'[x] = 0
  PROVE  \A u \in twdt'.tasks \cap Tasks :
           late'[u] <= twdt'.elapsed + (IF u \in twdt'.fed THEN 0 ELSE twdt'.timeout - 1)
<1>1. /\ twdt'.timeout = twdt.timeout /\ twdt'.tasks = tasks /\ tasks \subseteq All
      /\ tasks \subseteq fed => twdt'.elapsed = 0 /\ twdt'.fed = {}
      /\ ~(tasks \subseteq fed) => twdt'.elapsed = twdt.elapsed /\ twdt'.fed = fed
      /\ twdt.elapsed \in Nat /\ twdt.timeout \in Nat /\ twdt.elapsed < twdt.timeout /\ twdt.timeout > 0
  BY DEF Becomes, Wdt, Types, TypeOK
<1>2. late \in [All -> Nat] /\ late' \in [All -> Nat]
  BY DEF Types, TypeOK
<1>3. SUFFICES ASSUME NEW u \in tasks \cap Tasks
               PROVE  late'[u] <= twdt'.elapsed + (IF u \in twdt'.fed THEN 0 ELSE twdt.timeout - 1)
  BY <1>1
<1>4. CASE u = x
  BY <1>1, <1>4
<1>5. CASE u # x
  <2>1. late'[u] <= twdt.elapsed + (IF u \in twdt.fed THEN 0 ELSE twdt.timeout - 1)
    BY <1>5 DEF Silence
  <2>2. (u \in fed => u \in twdt.fed) /\ late'[u] \in Nat
    BY <1>1, <1>2, <1>5
  <2>3. CASE tasks \subseteq fed
    BY <1>1, <2>1, <2>2, <2>3
  <2>4. CASE ~(tasks \subseteq fed)
    BY <1>1, <2>1, <2>2, <2>4
  <2>. QED  BY <2>3, <2>4
<1>. QED  BY <1>4, <1>5

LEMMA SilenceStep ==
  ASSUME Types, Types', Watch, Alone, Silence, HasLongest, NEW t \in Tasks, Step(t)
  PROVE  Silence'
<1>1. /\ halted = "no" /\ todo[t] \in Todos /\ todo[t] # <<>> /\ todo'[t] \in {Tail(todo[t]), <<>>}
      /\ \A u \in Tasks \ {t} : todo'[u] = todo[u]
  BY StepTodo
<1>2. /\ twdt \in Wdt /\ t \in All /\ Limit \in Nat /\ late \in [All -> 0..MaxLate] /\ Tasks \cap Idle = {}
      /\ twdt.elapsed \in Nat /\ twdt.timeout \in Nat /\ twdt.elapsed < twdt.timeout /\ Tasks \subseteq All
  BY Longest, IdleAssumption DEF Types, TypeOK, Wdt, All
<1>3. todo[t] \in Past => twdt.on
  BY DEF Alone
<1>4. asked \cap Tasks \subseteq twdt.tasks /\ (todo[t] = <<"again">> => t \in twdt.tasks)
  BY <1>1 DEF Silence
<1>5. ~At(t, "add") => todo'[t] # <<"again">>
  BY <1>1, Remains, NotAgain DEF At
<1>6. ASSUME UNCHANGED twdt, UNCHANGED late, ~At(t, "add"), asked' \cap Tasks \subseteq twdt.tasks
      PROVE  Silence'
  BY <1>1, <1>5, <1>6 DEF Silence
<1>7. CASE EnableInit(t)
  <2>1. /\ twdt' = [twdt EXCEPT !.on = TRUE, !.timeout = Seconds(tmo[t]), !.elapsed = 0]
        /\ late' = [u \in All |-> 0] /\ UNCHANGED asked /\ ~At(t, "add")
    BY <1>7 DEF EnableInit, At
  <2>2. twdt'.tasks = twdt.tasks /\ twdt'.elapsed = 0
    BY <1>2, <2>1 DEF Wdt
  <2>3. twdt'.timeout \in Nat \ {0}
    BY DEF Types, TypeOK
  <2>4. \A u \in Tasks : late'[u] = 0
    BY <1>2, <2>1
  <2>. QED  BY <1>1, <1>4, <1>5, <2>1, <2>2, <2>3, <2>4 DEF Silence
<1>8. CASE EnableFails(t) \/ Enabled(t) \/ Check(t)
  BY <1>4, <1>6, <1>8 DEF EnableFails, Enabled, Check, At
<1>9. CASE EnableIdle(t)
  <2>1. PICK i \in Idle : Unsubscribe(i) /\ asked' = asked \ {i}
    BY <1>9 DEF EnableIdle
  <2>2. /\ i \in All /\ i \notin Tasks /\ UNCHANGED <<late, halted>>
        /\ asked' \cap Tasks \subseteq twdt.tasks \ {i} /\ ~At(t, "add")
    BY <1>2, <1>4, <1>9, <2>1 DEF All, EnableIdle, At
  <2>3. CASE i \in twdt.tasks
    <3>1. Becomes(twdt.tasks \ {i}, twdt.fed \ {i})
      BY <1>2, <2>1, <2>2, <2>3, WdtCalls
    <3>2. \A u \in twdt'.tasks \cap Tasks :
            late'[u] <= twdt'.elapsed + (IF u \in twdt'.fed THEN 0 ELSE twdt'.timeout - 1)
      BY <1>1, <2>2, <3>1, SilenceBecomes
    <3>3. twdt'.tasks = twdt.tasks \ {i}
      BY <3>1 DEF Becomes
    <3>. QED  BY <1>1, <1>5, <2>2, <3>2, <3>3 DEF Silence
  <2>4. CASE i \notin twdt.tasks
    BY <1>6, <2>1, <2>2, <2>4 DEF Unsubscribe
  <2>. QED  BY <2>3, <2>4
<1>10. CASE Deinit(t)
  <2>1. UNCHANGED <<asked, late>> /\ ~At(t, "add")
    BY <1>10 DEF Deinit, At
  <2>2. CASE twdt.tasks = {}
    <3>1. twdt' = [twdt EXCEPT !.on = FALSE, !.elapsed = 0]
      BY <1>10, <2>2 DEF Deinit
    <3>2. twdt'.tasks = {}
      BY <1>2, <2>2, <3>1 DEF Wdt
    <3>. QED  BY <1>1, <1>4, <1>5, <2>1, <2>2, <3>2 DEF Silence
  <2>3. CASE twdt.tasks # {}
    BY <1>4, <1>6, <1>10, <2>1, <2>3 DEF Deinit
  <2>. QED  BY <2>2, <2>3
<1>11. CASE FeedFirst(t) \/ FeedAgain(t)
  <2>1. ~At(t, "add")
    BY <1>11 DEF FeedFirst, FeedAgain, At
  <2>2. CASE UNCHANGED <<twdt, late, asked>>
    BY <1>4, <1>6, <2>1, <2>2
  <2>3. CASE Feed(t) /\ t \in twdt.tasks /\ late' = [late EXCEPT ![t] = 0] /\ asked' = asked \cup {t}
    <3>1. Becomes(twdt.tasks, twdt.fed \cup {t})
      BY <1>2, <2>3, WdtCalls
    <3>2. late'[t] = 0 /\ \A u \in All \ {t} : late'[u] = late[u]
      BY <1>2, <2>3
    <3>3. \A u \in twdt'.tasks \cap Tasks :
            late'[u] <= twdt'.elapsed + (IF u \in twdt'.fed THEN 0 ELSE twdt'.timeout - 1)
      BY <1>1, <1>2, <3>1, <3>2, SilenceBecomes
    <3>4. twdt'.tasks = twdt.tasks /\ asked' \cap Tasks \subseteq twdt.tasks
      BY <1>4, <2>3, <3>1 DEF Becomes
    <3>. QED  BY <1>1, <1>5, <2>1, <3>3, <3>4 DEF Silence
  <2>4. FeedAgain(t) => twdt.on /\ t \in twdt.tasks
    <3>1. FeedAgain(t) => todo[t] = <<"again">>
      BY <1>1, Remains DEF FeedAgain, At
    <3>. QED  BY <1>3, <1>4, <3>1, NotAgain
  <2>. QED  BY <1>11, <2>2, <2>3, <2>4 DEF FeedFirst, FeedAgain
<1>12. CASE Add(t)
  <2>1. twdt.on
    BY <1>1, <1>3, <1>12, Remains DEF Add, At
  <2>2. Subscribe(t) /\ asked' = asked \cup {t} /\ late' = [late EXCEPT ![t] = 0]
    BY <1>12, <2>1 DEF Add
  <2>3. Becomes(twdt.tasks \cup {t}, twdt.fed \cup {t})
    BY <1>2, <2>2, WdtCalls
  <2>4. late'[t] = 0 /\ \A u \in All \ {t} : late'[u] = late[u]
    BY <1>2, <2>2
  <2>5. \A u \in ((twdt.tasks \cup {t}) \cap Tasks) \ {t} :
          u \in twdt.tasks /\ late'[u] = late[u] /\ (u \in twdt.fed \cup {t} => u \in twdt.fed)
    BY <1>2, <2>4
  <2>6. \A u \in twdt'.tasks \cap Tasks :
          late'[u] <= twdt'.elapsed + (IF u \in twdt'.fed THEN 0 ELSE twdt'.timeout - 1)
    BY <1>1, <1>2, <2>3, <2>4, <2>5, SilenceBecomes
  <2>7. twdt'.tasks = twdt.tasks \cup {t} /\ asked' \cap Tasks \subseteq twdt'.tasks
    BY <1>4, <2>2, <2>3 DEF Becomes
  <2>. QED  BY <1>1, <2>6, <2>7 DEF Silence
<1>13. CASE Delete(t)
  <2>1. asked' = asked \ {t} /\ UNCHANGED late /\ ~At(t, "add")
    BY <1>13 DEF Delete, At
  <2>2. CASE twdt.on /\ t \in twdt.tasks
    <3>1. Unsubscribe(t)
      BY <1>13, <2>2 DEF Delete
    <3>2. Becomes(twdt.tasks \ {t}, twdt.fed \ {t})
      BY <1>2, <2>2, <3>1, WdtCalls
    <3>3. \A u \in twdt'.tasks \cap Tasks :
            late'[u] <= twdt'.elapsed + (IF u \in twdt'.fed THEN 0 ELSE twdt'.timeout - 1)
      BY <1>1, <1>2, <2>1, <3>2, SilenceBecomes
    <3>4. twdt'.tasks = twdt.tasks \ {t} /\ asked' \cap Tasks \subseteq twdt'.tasks
      BY <1>4, <2>1, <3>2 DEF Becomes
    <3>. QED  BY <1>1, <1>5, <2>1, <3>3, <3>4 DEF Silence
  <2>3. CASE ~(twdt.on /\ t \in twdt.tasks)
    <3>1. halted' = "abort" /\ UNCHANGED twdt
      BY <1>13, <2>3 DEF Delete
    <3>. QED  BY <1>1, <1>5, <2>1, <3>1 DEF Silence
  <2>. QED  BY <2>2, <2>3
<1>. QED  BY <1>7, <1>8, <1>9, <1>10, <1>11, <1>12, <1>13 DEF Step

\* A second adds to the time and to the silence of each task alike.
LEMMA SilenceTick ==
  ASSUME Types, Watch, Silence, HasLongest, Tick
  PROVE  Silence'
<1>1. /\ twdt \in Wdt /\ late \in [All -> 0..MaxLate] /\ MaxLate \in Nat
      /\ halted = "no" /\ UNCHANGED <<todo, asked>>
  BY Longest DEF Types, TypeOK, Wdt, Tick
<1>2. twdt.elapsed \in Nat /\ twdt.timeout \in Nat /\ twdt.tasks \subseteq All
  BY <1>1, Longest DEF Wdt
<1>3. \A u \in All : late[u] \in Nat /\ late'[u] \in Nat /\ late'[u] <= late[u] + 1
  <2>1. SUFFICES ASSUME NEW u \in All PROVE late[u] \in Nat /\ late'[u] \in Nat /\ late'[u] <= late[u] + 1
    OBVIOUS
  <2>2. late[u] \in 0..MaxLate /\ late'[u] = IF late[u] < MaxLate THEN late[u] + 1 ELSE MaxLate
    BY <1>1 DEF Tick
  <2>. QED  BY <1>1, <2>2
<1>4. CASE twdt.tasks = {}
  <2>1. twdt' = twdt \/ \E e \in Nat : twdt' = [twdt EXCEPT !.elapsed = e]
    <3>1. twdt.elapsed + 1 \in Nat /\ 0 \in Nat
      BY <1>2
    <3>. QED  BY <1>2, <3>1 DEF Tick
  <2>2. twdt'.tasks = {}
    BY <1>1, <1>4, <2>1 DEF Wdt
  <2>. QED  BY <1>1, <1>4, <2>2 DEF Silence, Tick
<1>5. CASE twdt.tasks # {}
  <2>1. twdt.on
    BY <1>5 DEF Watch
  <2>2. CASE twdt.elapsed + 1 = twdt.timeout
    <3>1. halted' = "panic" /\ UNCHANGED twdt
      BY <1>5, <2>1, <2>2 DEF Tick
    <3>. QED  BY <1>1, <3>1 DEF Silence
  <2>3. CASE twdt.elapsed + 1 # twdt.timeout
    <3>1. twdt' = [twdt EXCEPT !.elapsed = twdt.elapsed + 1]
      BY <2>1, <2>3 DEF Tick
    <3>2. /\ twdt'.tasks = twdt.tasks /\ twdt'.fed = twdt.fed /\ twdt'.timeout = twdt.timeout
          /\ twdt'.elapsed = twdt.elapsed + 1
      BY <1>1, <3>1 DEF Wdt
    <3>3. ASSUME NEW u \in twdt.tasks \cap Tasks
          PROVE  late'[u] <= twdt'.elapsed + (IF u \in twdt.fed THEN 0 ELSE twdt.timeout - 1)
      <4>1. late[u] <= twdt.elapsed + (IF u \in twdt.fed THEN 0 ELSE twdt.timeout - 1)
        BY <1>1 DEF Silence
      <4>2. u \in All
        BY <1>2
      <4>. QED  BY <1>2, <1>3, <3>2, <4>1, <4>2
    <3>. QED  BY <1>1, <3>2, <3>3 DEF Silence
  <2>. QED  BY <2>2, <2>3
<1>. QED  BY <1>4, <1>5

LEMMA HangNext ==
  ASSUME Types, Types', Watch, Hang, HasLongest, MethodsOnly, DisableAlone, [Next]_vars
  PROVE  Hang'
<1>1. CASE UNCHANGED vars
  BY <1>1 DEF vars, Hang, Alone, Silence
<1>2. CASE Tick
  <2>1. twdt'.on = twdt.on /\ UNCHANGED <<todo, enabled>>
    <3>1. twdt \in Wdt
      BY DEF Types, TypeOK, Wdt
    <3>. QED  BY <1>2, <3>1 DEF Tick, Wdt
  <2>2. Alone'
    BY <2>1 DEF Hang, Alone
  <2>. QED  BY <1>2, <2>2, SilenceTick DEF Hang
<1>3. ASSUME NEW i \in Idle, IdleHook(i) PROVE Hang'
  <2>1. /\ i \in All /\ i \notin Tasks /\ twdt \in Wdt /\ late \in [All -> 0..MaxLate] /\ Limit \in Nat
        /\ halted = "no" /\ UNCHANGED <<todo, enabled, asked, halted>> /\ Tasks \subseteq All
    BY <1>3, Longest, IdleAssumption DEF Types, TypeOK, Wdt, All, IdleHook
  <2>2. late'[i] = 0 /\ \A u \in All \ {i} : late'[u] = late[u]
    BY <1>3, <2>1 DEF IdleHook
  <2>3. CASE UNCHANGED twdt
    BY <2>1, <2>2, <2>3 DEF Hang, Alone, Silence
  <2>4. CASE Feed(i)
    <3>1. Becomes(twdt.tasks, twdt.fed \cup {i})
      BY <2>1, <2>4, WdtCalls
    <3>2. \A u \in twdt'.tasks \cap Tasks :
            late'[u] <= twdt'.elapsed + (IF u \in twdt'.fed THEN 0 ELSE twdt'.timeout - 1)
      BY <2>1, <2>2, <3>1, SilenceBecomes DEF Hang
    <3>3. twdt'.tasks = twdt.tasks /\ twdt'.on = twdt.on
      BY <3>1 DEF Becomes
    <3>. QED  BY <2>1, <3>2, <3>3 DEF Hang, Alone, Silence
  <2>. QED  BY <1>3, <2>3, <2>4 DEF IdleHook
<1>4. ASSUME NEW t \in Tasks, NEW call \in Calls, NEW ms \in Timeouts, Call(t, call, ms) PROVE Hang'
  <2>1. /\ halted = "no" /\ todo[t] = <<>> /\ todo' = [todo EXCEPT ![t] = Program(call)]
        /\ \A u \in Tasks : IF call = "disable" THEN todo[u] = <<>> ELSE ~At(u, "clear") /\ ~At(u, "deinit")
        /\ UNCHANGED <<enabled, twdt, asked, late, halted>> /\ todo \in [Tasks -> Todos]
    BY <1>4 DEF Call, Types
  <2>2. todo'[t] = Program(call) /\ \A u \in Tasks \ {t} : todo'[u] = todo[u]
    BY <2>1
  <2>3. /\ Program(call) \notin Past /\ Program(call) # <<"again">> /\ Program(call) # <<"deinit">>
        /\ call # "disable" => Program(call) \notin Stopping
    <3>1. call \in {"enable", "disable", "reset", "disableLocal"}
      BY DEF MethodsOnly
    <3>2. CASE call = "disable"
      <4>1. Program(call) = <<"clear", "deinit">> /\ <<"clear", "deinit">> \in Stopping /\ Len(<<"deinit">>) = 1
        BY <3>2 DEF Program, Stopping
      <4>2. Len(Program(call)) = 2
        BY <4>1
      <4>. QED  BY <3>2, <4>1, <4>2, Apart, NotAgain
    <3>3. CASE call # "disable"
      <4>1. Program(call) \in Fresh
        <5>1. CASE call = "enable"
          BY <5>1 DEF Program, Fresh, Enabling
        <5>2. CASE call = "reset"
          BY <5>2 DEF Program, Fresh
        <5>3. CASE call = "disableLocal"
          BY <5>3 DEF Program, Fresh
        <5>. QED  BY <3>1, <3>3, <5>1, <5>2, <5>3
      <4>2. <<"deinit">> \in Stopping
        BY DEF Stopping
      <4>. QED  BY <3>3, <4>1, <4>2, Apart, NotAgain
    <3>. QED  BY <3>2, <3>3
  <2>4. call # "disable" => \A u \in Tasks : todo[u] \notin Stopping
    <3>1. \A s \in Stopping : s # <<>> /\ Head(s) \in {"clear", "deinit"}
      <4>1. /\ Head(<<"clear", "deinit">>) = "clear" /\ Head(<<"deinit">>) = "deinit"
            /\ <<"clear", "deinit">> # <<>> /\ <<"deinit">> # <<>>
        OBVIOUS
      <4>. QED  BY <4>1 DEF Stopping
    <3>. QED  BY <2>1, <3>1 DEF At
  <2>5. \A u, v \in Tasks : todo'[u] \in Stopping /\ todo'[v] # <<>> => u = v
    <3>1. CASE call = "disable"
      BY <2>1, <2>2, <3>1, Apart
    <3>2. CASE call # "disable"
      BY <2>2, <2>3, <2>4, <3>2
    <3>. QED  BY <3>1, <3>2
  <2>. QED  BY <2>1, <2>2, <2>3, <2>5 DEF Hang, Alone, Silence
<1>5. ASSUME NEW t \in Tasks, Step(t) PROVE Hang'
  BY <1>5, AloneStep, SilenceStep DEF Hang
<1>. QED  BY <1>1, <1>2, <1>3, <1>4, <1>5 DEF Next

-----------------------------------------------------------------------------
(* The theorems.                                                           *)

\* Types of the object and of the task watchdog (esp32watchdog.cpp 23-71).
THEOREM WatchdogTypes ==
  ASSUME HasLongest, MethodsOnly
  PROVE  Spec => []TypeOK
<1>1. Types => TypeOK
  BY DEF Types
<1>. QED  BY <1>1, TypesInit, TypesNext, PTL DEF Spec

\* A panic always has a task behind it that asked to be watched and did not call reset() for
\* a whole timeout: also when disable() overlaps other calls (23-71).
THEOREM WatchdogNoFalseAlarm ==
  ASSUME HasLongest, MethodsOnly
  PROVE  Spec => []NoFalseAlarm
<1>1. Watch => NoFalseAlarm
  BY DEF Watch
<1>. QED  BY <1>1, TypesInit, TypesNext, WatchInit, WatchNext, PTL DEF Spec

\* A task that was reset once and then hangs is found out within two timeouts, if no other
\* call overlaps disable() (23-71).
THEOREM WatchdogHangDetected ==
  ASSUME HasLongest, MethodsOnly, DisableAlone
  PROVE  Spec => []HangDetected
<1>1. Types /\ Hang => HangDetected
  <2>1. SUFFICES ASSUME Types, Hang, halted = "no", NEW t \in asked \cap Tasks
                 PROVE  late[t] < 2 * twdt.timeout
    BY DEF HangDetected
  <2>2. late[t] <= twdt.elapsed + (IF t \in twdt.fed THEN 0 ELSE twdt.timeout - 1)
    BY <2>1 DEF Hang, Silence
  <2>3. twdt.elapsed < twdt.timeout /\ twdt.elapsed \in Nat /\ twdt.timeout \in Nat /\ late[t] \in Nat
    BY <2>1 DEF Types, TypeOK
  <2>. QED  BY <2>2, <2>3
<1>. QED  BY <1>1, TypesInit, TypesNext, WatchInit, WatchNext, HangInit, HangNext, PTL DEF Spec
=============================================================================
