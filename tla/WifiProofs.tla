----------------------------- MODULE WifiProofs -----------------------------
(***************************************************************************)
(* Theorems about the WiFi subsystem, for any tasks, any order of their    *)
(* calls and any number of faults of the network and the flash.            *)
(***************************************************************************)
EXTENDS Wifi, SequenceTheorems, TLAPS

\* The tasks call the functions of the station and the access point.
CallNames   == {"connectTo", "disconnect", "ap.start", "ap.begin", "ap.config", "ap.stop"}
DriverCalls == \A t \in Tasks : Calls[t] \subseteq CallNames

-----------------------------------------------------------------------------
(* What is left of a call or a handler.                                    *)

In(s) == {s[i] : i \in 1..Len(s)}

\* A step comes once, the start-up's in their order, and a mode is set right after it is read.
Shape(s) ==
  /\ s \in Seq(Steps)
  /\ \A i, j \in 1..Len(s) : s[i] = s[j] => i = j
  /\ \A i \in 1..Len(s) :
       /\ s[i] = "guard" => i + 6 <= Len(s) /\ s[i+1] = "check" /\ s[i+6] = "built"
       /\ s[i] = "check" => i + 4 <= Len(s) /\ s[i+1] = "nvs" /\ s[i+2] = "loop" /\ s[i+3] = "wifi" /\ s[i+4] = "ready"
       /\ s[i] = "loop"  => i + 2 <= Len(s) /\ s[i+1] = "wifi" /\ s[i+2] = "ready"
       /\ s[i] = "setIp" => \A j \in 1..Len(s) : s[j] # "lease"
  /\ \A i \in 2..Len(s) : s[i] \in ModeSteps => s[i-1] = "getMode"

\* Before its first step a call tests initialised if it starts up at all.
Fresh(s) ==
  /\ Shape(s) /\ s # <<>> /\ s[1] \notin ModeSteps
  /\ "ready" \in In(s) => "check" \in In(s)
  /\ "wifi" \in In(s) => "loop" \in In(s)
  /\ "lease" \notin In(s)

\* The steps of the handler, which are no step of a task, and those of WifiAccessPoint::config.
Reports     == {"connect", "setBit", "clearBit", "setConnected", "setDisconnected", "setAddress"}
ConfigSteps == {"dhcpStop", "setIp", "lease", "dhcpStart", "store"}

\* A sequence that consists of two others.
LEMMA Glue ==
  ASSUME NEW p \in Seq(Steps), NEW q \in Seq(Steps), NEW e \in Seq(Steps),
         NEW m \in Nat, NEW n \in Nat, Len(p) = m, Len(q) = n, Len(e) = m + n,
         \A i \in 1..m : e[i] = p[i], \A i \in 1..n : e[m + i] = q[i]
  PROVE  p \o q = e
<1>1. /\ p \o q \in Seq(Steps) /\ Len(p \o q) = m + n
      /\ \A i \in 1..(m + n) : (p \o q)[i] = IF i <= m THEN p[i] ELSE q[i - m]
  BY ConcatProperties
<1>2. ASSUME NEW i \in 1..(m + n) PROVE (p \o q)[i] = e[i]
  <2>1. CASE i <= m
    BY <1>1, <2>1
  <2>2. CASE i > m
    <3>1. i - m \in 1..n /\ m + (i - m) = i
      BY <2>2
    <3>2. e[m + (i - m)] = q[i - m]
      BY <3>1
    <3> QED BY <1>1, <2>2, <3>1, <3>2
  <2> QED BY <1>1, <2>1, <2>2
<1> QED BY <1>1, <1>2, SeqEqual

Boot == <<"guard", "check", "nvs", "loop", "wifi", "ready", "built">>

LEMMA InstanceIs == Instance = Boot
<1>1. <<"guard">> \o <<"check", "nvs", "loop", "wifi", "ready">>
      = <<"guard", "check", "nvs", "loop", "wifi", "ready">>
  <2> DEFINE p == <<"guard">>
             q == <<"check", "nvs", "loop", "wifi", "ready">>
             e == <<"guard", "check", "nvs", "loop", "wifi", "ready">>
  <2>1. p \in Seq(Steps) /\ q \in Seq(Steps) /\ e \in Seq(Steps) /\ Len(p) = 1 /\ Len(q) = 5 /\ Len(e) = 1 + 5
    BY DEF Steps
  <2>2. (\A i \in 1..1 : e[i] = p[i]) /\ \A i \in 1..5 : e[1 + i] = q[i]
    OBVIOUS
  <2> HIDE DEF p, q, e
  <2>3. p \o q = e
    BY <2>1, <2>2, Glue, 1 \in Nat, 5 \in Nat, ZenonT(40)
  <2> QED BY <2>3 DEF p, q, e
<1>2. <<"guard", "check", "nvs", "loop", "wifi", "ready">> \o <<"built">>
      = <<"guard", "check", "nvs", "loop", "wifi", "ready", "built">>
  <2> DEFINE p == <<"guard", "check", "nvs", "loop", "wifi", "ready">>
             q == <<"built">>
             e == <<"guard", "check", "nvs", "loop", "wifi", "ready", "built">>
  <2>1. p \in Seq(Steps) /\ q \in Seq(Steps) /\ e \in Seq(Steps) /\ Len(p) = 6 /\ Len(q) = 1 /\ Len(e) = 6 + 1
    BY DEF Steps
  <2>2. (\A i \in 1..6 : e[i] = p[i]) /\ \A i \in 1..1 : e[6 + i] = q[i]
    OBVIOUS
  <2> HIDE DEF p, q, e
  <2>3. p \o q = e
    BY <2>1, <2>2, Glue, 6 \in Nat, 1 \in Nat, ZenonT(40)
  <2> QED BY <2>3 DEF p, q, e
<1> QED BY <1>1, <1>2 DEF Instance, esp32_wifi_subsys_init, Boot


\* Every call is in order, and makes no report.
LEMMA Programs ==
  ASSUME NEW call \in CallNames
  PROVE  /\ Fresh(Program(call)) /\ In(Program(call)) \cap Reports = {}
         /\ call # "ap.config" => In(Program(call)) \cap ConfigSteps = {}
<1>1. <<"guard", "check", "nvs", "loop", "wifi", "ready", "built">> \o <<"getMode", "addSta", "start">>
      = <<"guard", "check", "nvs", "loop", "wifi", "ready", "built", "getMode", "addSta", "start">>
  <2> DEFINE p == <<"guard", "check", "nvs", "loop", "wifi", "ready", "built">>
             q == <<"getMode", "addSta", "start">>
             e == <<"guard", "check", "nvs", "loop", "wifi", "ready", "built", "getMode", "addSta", "start">>
  <2>1. p \in Seq(Steps) /\ q \in Seq(Steps) /\ e \in Seq(Steps) /\ Len(p) = 7 /\ Len(q) = 3 /\ Len(e) = 7 + 3
    BY DEF Steps
  <2>2. (\A i \in 1..7 : e[i] = p[i]) /\ \A i \in 1..3 : e[7 + i] = q[i]
    OBVIOUS
  <2> HIDE DEF p, q, e
  <2>3. p \o q = e
    BY <2>1, <2>2, Glue, 7 \in Nat, 3 \in Nat, ZenonT(40)
  <2> QED BY <2>3 DEF p, q, e
<1>2. <<"guard", "check", "nvs", "loop", "wifi", "ready", "built">> \o <<"getMode", "dropSta">>
      = <<"guard", "check", "nvs", "loop", "wifi", "ready", "built", "getMode", "dropSta">>
  <2> DEFINE p == <<"guard", "check", "nvs", "loop", "wifi", "ready", "built">>
             q == <<"getMode", "dropSta">>
             e == <<"guard", "check", "nvs", "loop", "wifi", "ready", "built", "getMode", "dropSta">>
  <2>1. p \in Seq(Steps) /\ q \in Seq(Steps) /\ e \in Seq(Steps) /\ Len(p) = 7 /\ Len(q) = 2 /\ Len(e) = 7 + 2
    BY DEF Steps
  <2>2. (\A i \in 1..7 : e[i] = p[i]) /\ \A i \in 1..2 : e[7 + i] = q[i]
    OBVIOUS
  <2> HIDE DEF p, q, e
  <2>3. p \o q = e
    BY <2>1, <2>2, Glue, 7 \in Nat, 2 \in Nat, ZenonT(40)
  <2> QED BY <2>3 DEF p, q, e
<1> DEFINE Good(s)  == Fresh(s) /\ In(s) \cap Reports = {}
           Plain(s) == Good(s) /\ In(s) \cap ConfigSteps = {}
<1>3. Plain(<<"guard", "check", "nvs", "loop", "wifi", "ready", "built", "getMode", "addSta", "start">>)
  BY DEF Fresh, Shape, In, Steps, Reports, ConfigSteps, ModeSteps
<1>4. Plain(<<"guard", "check", "nvs", "loop", "wifi", "ready", "built", "getMode", "dropSta">>)
  BY DEF Fresh, Shape, In, Steps, Reports, ConfigSteps, ModeSteps
<1>5. Plain(<<"check", "nvs", "loop", "wifi", "ready">>)
  BY DEF Fresh, Shape, In, Steps, Reports, ConfigSteps, ModeSteps
<1>6. Plain(<<"getMode", "addAp", "start">>)
  BY DEF Fresh, Shape, In, Steps, Reports, ConfigSteps, ModeSteps
<1>7. Good(<<"start", "dhcpStop", "setIp", "dhcpStart", "store">>)
  BY DEF Fresh, Shape, In, Steps, Reports, ModeSteps
<1>8. Plain(<<"getMode", "dropAp">>)
  BY DEF Fresh, Shape, In, Steps, Reports, ConfigSteps, ModeSteps
<1> HIDE DEF Good, Plain
<1>9. CASE call = "connectTo"
  BY <1>1, <1>3, <1>9, InstanceIs DEF Program, Boot, Good, Plain
<1>10. CASE call = "disconnect"
  BY <1>2, <1>4, <1>10, InstanceIs DEF Program, Boot, Good, Plain
<1>11. CASE call = "ap.start"
  BY <1>5, <1>11 DEF Program, esp32_wifi_subsys_init, Good, Plain
<1>12. CASE call = "ap.begin"
  BY <1>6, <1>12 DEF Program, Good, Plain
<1>13. CASE call = "ap.config"
  BY <1>7, <1>13 DEF Program, Good
<1>14. CASE call = "ap.stop"
  BY <1>8, <1>14 DEF Program, Good, Plain
<1> QED BY <1>9, <1>10, <1>11, <1>12, <1>13, <1>14 DEF CallNames


\* A handler reports what its event says, and nothing else.
Reporting(id, s) ==
  /\ Fresh(s)
  /\ {"setBit", "setConnected"} \cap In(s) = IF id = "gotIp" THEN {"setBit", "setConnected"} ELSE {}
  /\ {"clearBit", "setDisconnected"} \cap In(s) = IF id = "disconnected" THEN {"clearBit", "setDisconnected"} ELSE {}
  /\ "setAddress" \in In(s) <=> id # "start"
  /\ In(s) \cap ConfigSteps = {}

LEMMA Handlers == ASSUME NEW id \in {"start", "disconnected", "gotIp"} PROVE Reporting(id, Handler(id))
<1>1. <<"setBit">> \o <<"guard", "check", "nvs", "loop", "wifi", "ready", "built">>
      = <<"setBit", "guard", "check", "nvs", "loop", "wifi", "ready", "built">>
  <2> DEFINE p == <<"setBit">>
             q == <<"guard", "check", "nvs", "loop", "wifi", "ready", "built">>
             e == <<"setBit", "guard", "check", "nvs", "loop", "wifi", "ready", "built">>
  <2>1. p \in Seq(Steps) /\ q \in Seq(Steps) /\ e \in Seq(Steps) /\ Len(p) = 1 /\ Len(q) = 7 /\ Len(e) = 1 + 7
    BY DEF Steps
  <2>2. (\A i \in 1..1 : e[i] = p[i]) /\ \A i \in 1..7 : e[1 + i] = q[i]
    OBVIOUS
  <2> HIDE DEF p, q, e
  <2>3. p \o q = e
    BY <2>1, <2>2, Glue, 1 \in Nat, 7 \in Nat, ZenonT(40)
  <2> QED BY <2>3 DEF p, q, e
<1>2. <<"setBit", "guard", "check", "nvs", "loop", "wifi", "ready", "built">> \o <<"setConnected", "setAddress">>
      = <<"setBit", "guard", "check", "nvs", "loop", "wifi", "ready", "built", "setConnected", "setAddress">>
  <2> DEFINE p == <<"setBit", "guard", "check", "nvs", "loop", "wifi", "ready", "built">>
             q == <<"setConnected", "setAddress">>
             e == <<"setBit", "guard", "check", "nvs", "loop", "wifi", "ready", "built", "setConnected", "setAddress">>
  <2>1. p \in Seq(Steps) /\ q \in Seq(Steps) /\ e \in Seq(Steps) /\ Len(p) = 8 /\ Len(q) = 2 /\ Len(e) = 8 + 2
    BY DEF Steps
  <2>2. (\A i \in 1..8 : e[i] = p[i]) /\ \A i \in 1..2 : e[8 + i] = q[i]
    OBVIOUS
  <2> HIDE DEF p, q, e
  <2>3. p \o q = e
    BY <2>1, <2>2, Glue, 8 \in Nat, 2 \in Nat, ZenonT(40)
  <2> QED BY <2>3 DEF p, q, e
<1>3. <<"connect", "clearBit">> \o <<"guard", "check", "nvs", "loop", "wifi", "ready", "built">>
      = <<"connect", "clearBit", "guard", "check", "nvs", "loop", "wifi", "ready", "built">>
  <2> DEFINE p == <<"connect", "clearBit">>
             q == <<"guard", "check", "nvs", "loop", "wifi", "ready", "built">>
             e == <<"connect", "clearBit", "guard", "check", "nvs", "loop", "wifi", "ready", "built">>
  <2>1. p \in Seq(Steps) /\ q \in Seq(Steps) /\ e \in Seq(Steps) /\ Len(p) = 2 /\ Len(q) = 7 /\ Len(e) = 2 + 7
    BY DEF Steps
  <2>2. (\A i \in 1..2 : e[i] = p[i]) /\ \A i \in 1..7 : e[2 + i] = q[i]
    OBVIOUS
  <2> HIDE DEF p, q, e
  <2>3. p \o q = e
    BY <2>1, <2>2, Glue, 2 \in Nat, 7 \in Nat, ZenonT(40)
  <2> QED BY <2>3 DEF p, q, e
<1>4. <<"connect", "clearBit", "guard", "check", "nvs", "loop", "wifi", "ready", "built">>
        \o <<"setDisconnected", "setAddress">>
      = <<"connect", "clearBit", "guard", "check", "nvs", "loop", "wifi", "ready", "built",
          "setDisconnected", "setAddress">>
  <2> DEFINE p == <<"connect", "clearBit", "guard", "check", "nvs", "loop", "wifi", "ready", "built">>
             q == <<"setDisconnected", "setAddress">>
             e == <<"connect", "clearBit", "guard", "check", "nvs", "loop", "wifi", "ready", "built",
                    "setDisconnected", "setAddress">>
  <2>1. p \in Seq(Steps) /\ q \in Seq(Steps) /\ e \in Seq(Steps) /\ Len(p) = 9 /\ Len(q) = 2 /\ Len(e) = 9 + 2
    BY DEF Steps
  <2>2. (\A i \in 1..9 : e[i] = p[i]) /\ \A i \in 1..2 : e[9 + i] = q[i]
    OBVIOUS
  <2> HIDE DEF p, q, e
  <2>3. p \o q = e
    BY <2>1, <2>2, Glue, 9 \in Nat, 2 \in Nat, ZenonT(40)
  <2> QED BY <2>3 DEF p, q, e
<1>5. Reporting("start", <<"connect">>)
  BY DEF Reporting, Fresh, Shape, In, Steps, ConfigSteps, ModeSteps
<1>6. Reporting("gotIp",
        <<"setBit", "guard", "check", "nvs", "loop", "wifi", "ready", "built", "setConnected", "setAddress">>)
  BY DEF Reporting, Fresh, Shape, In, Steps, ConfigSteps, ModeSteps
<1>7. Reporting("disconnected",
        <<"connect", "clearBit", "guard", "check", "nvs", "loop", "wifi", "ready", "built",
          "setDisconnected", "setAddress">>)
  BY DEF Reporting, Fresh, Shape, In, Steps, ConfigSteps, ModeSteps
<1>8. CASE id = "start"
  BY <1>5, <1>8 DEF Handler
<1>9. CASE id = "gotIp"
  BY <1>1, <1>2, <1>6, <1>9, InstanceIs DEF Handler, Boot
<1>10. CASE id = "disconnected"
  BY <1>3, <1>4, <1>7, <1>10, InstanceIs DEF Handler, Boot
<1> QED BY <1>8, <1>9, <1>10

-----------------------------------------------------------------------------
(* Types, and what a step leaves of a call.                                *)

Shapes == \A t \in Threads : Shape(todo[t])
Base   == TypeOK /\ Shapes

\* The end of a sequence in order is in order.
LEMMA Suffix ==
  ASSUME NEW s, Shape(s), NEW n \in 0..Len(s)
  PROVE  /\ Shape(SubSeq(s, n + 1, Len(s)))
         /\ In(SubSeq(s, n + 1, Len(s))) = In(s) \ {s[i] : i \in 1..n}
         /\ n > 0 /\ SubSeq(s, n + 1, Len(s)) # <<>> /\ SubSeq(s, n + 1, Len(s))[1] \in ModeSteps => s[n] = "getMode"
<1> DEFINE q == SubSeq(s, n + 1, Len(s))
           m == Len(s)
<1>1. s \in Seq(Steps) /\ m \in Nat /\ n \in Nat /\ n <= m /\ m = Len(s)
  BY DEF Shape
<1>2. q \in Seq(Steps) /\ Len(q) = m - n /\ \A i \in 1..(m - n) : q[i] = s[n + i]
  <2>1. \A i \in (n + 1)..m : s[i] \in Steps
    BY <1>1
  <2>2. /\ q \in Seq(Steps) /\ Len(q) = IF n + 1 <= m THEN m - (n + 1) + 1 ELSE 0
        /\ \A i \in 1..(m - (n + 1) + 1) : q[i] = s[(n + 1) + i - 1]
    BY <1>1, <2>1, SubSeqProperties
  <2>3. ASSUME NEW i \in 1..(m - n) PROVE q[i] = s[n + i]
    <3>1. i \in 1..(m - (n + 1) + 1) /\ (n + 1) + i - 1 = n + i
      BY <1>1
    <3> QED BY <2>2, <3>1
  <2> QED BY <1>1, <2>2, <2>3
<1> HIDE DEF q, m
<1>3. \A i, j \in 1..Len(q) : q[i] = q[j] => i = j
  <2> SUFFICES ASSUME NEW i \in 1..Len(q), NEW j \in 1..Len(q), q[i] = q[j] PROVE i = j
    OBVIOUS
  <2>1. n + i \in 1..m /\ n + j \in 1..m /\ s[n + i] = s[n + j]
    BY <1>1, <1>2
  <2>2. n + i = n + j
    BY <1>1, <2>1 DEF Shape
  <2> QED BY <1>1, <1>2, <2>2
<1>4. ASSUME NEW i \in 1..Len(q)
      PROVE  /\ q[i] = "guard" => i + 6 <= Len(q) /\ q[i+1] = "check" /\ q[i+6] = "built"
             /\ q[i] = "check" => /\ i + 4 <= Len(q) /\ q[i+1] = "nvs" /\ q[i+2] = "loop"
                               /\ q[i+3] = "wifi" /\ q[i+4] = "ready"
             /\ q[i] = "loop"  => i + 2 <= Len(q) /\ q[i+1] = "wifi" /\ q[i+2] = "ready"
             /\ q[i] = "setIp" => \A j \in 1..Len(q) : q[j] # "lease"
  <2>1. n + i \in 1..m /\ q[i] = s[n + i]
    BY <1>1, <1>2
  <2>2. ASSUME NEW j \in 0..6, i + j <= Len(q) PROVE q[i + j] = s[(n + i) + j]
    <3>1. i + j \in 1..(m - n) /\ n + (i + j) = (n + i) + j
      BY <1>1, <1>2, <2>2
    <3> QED BY <1>2, <3>1
  <2>3. \A j \in 0..6 : (n + i) + j <= m => i + j <= Len(q) /\ q[i + j] = s[(n + i) + j]
    <3>1. \A j \in 0..6 : (n + i) + j <= m => i + j <= Len(q)
      BY <1>1, <1>2
    <3> QED BY <2>2, <3>1
  <2>4. s[n + i] = "guard" => (n + i) + 6 <= m /\ s[(n + i) + 1] = "check" /\ s[(n + i) + 6] = "built"
    BY <1>1, <2>1 DEF Shape
  <2>5. s[n + i] = "check" => /\ (n + i) + 4 <= m /\ s[(n + i) + 1] = "nvs" /\ s[(n + i) + 2] = "loop"
                              /\ s[(n + i) + 3] = "wifi" /\ s[(n + i) + 4] = "ready"
    BY <1>1, <2>1 DEF Shape
  <2>6. s[n + i] = "loop" => (n + i) + 2 <= m /\ s[(n + i) + 1] = "wifi" /\ s[(n + i) + 2] = "ready"
    BY <1>1, <2>1 DEF Shape
  <2>7. s[n + i] = "setIp" => \A j \in 1..Len(q) : q[j] # "lease"
    <3>1. \A j \in 1..Len(q) : n + j \in 1..m /\ q[j] = s[n + j]
      BY <1>1, <1>2
    <3> QED BY <1>1, <2>1, <3>1 DEF Shape
  <2>8. q[i] = "guard" => i + 6 <= Len(q) /\ q[i+1] = "check" /\ q[i+6] = "built"
    <3> SUFFICES ASSUME q[i] = "guard" PROVE i + 6 <= Len(q) /\ q[i+1] = "check" /\ q[i+6] = "built"
      OBVIOUS
    <3>1. (n + i) + 6 <= m /\ s[(n + i) + 1] = "check" /\ s[(n + i) + 6] = "built"
      BY <2>1, <2>4
    <3>2. (n + i) + 1 <= m /\ 1 \in 0..6 /\ 6 \in 0..6
      BY <1>1, <3>1
    <3> QED BY <2>3, <3>1, <3>2, Zenon
  <2>9. q[i] = "check" => i + 4 <= Len(q) /\ q[i+1] = "nvs" /\ q[i+2] = "loop" /\ q[i+3] = "wifi" /\ q[i+4] = "ready"
    BY <1>1, <2>1, <2>3, <2>5
  <2>10. q[i] = "loop" => i + 2 <= Len(q) /\ q[i+1] = "wifi" /\ q[i+2] = "ready"
    BY <1>1, <2>1, <2>3, <2>6
  <2> QED BY <2>1, <2>7, <2>8, <2>9, <2>10
<1>4a. ASSUME NEW i \in 2..Len(q), q[i] \in ModeSteps PROVE q[i-1] = "getMode"
  <2>1. n + i \in 2..m /\ q[i] = s[n + i] /\ i - 1 \in 1..(m - n) /\ n + (i - 1) = (n + i) - 1
    BY <1>1, <1>2
  <2>2. q[i-1] = s[(n + i) - 1]
    BY <1>2, <2>1
  <2> QED BY <1>1, <1>4a, <2>1, <2>2 DEF Shape
<1>4b. n > 0 /\ q # <<>> /\ q[1] \in ModeSteps => s[n] = "getMode"
  <2> SUFFICES ASSUME n > 0, q # <<>>, q[1] \in ModeSteps PROVE s[n] = "getMode"
    OBVIOUS
  <2>1. Len(q) >= 1
    BY <1>2
  <2>2. 1 \in 1..(m - n) /\ n + 1 \in 2..m /\ (n + 1) - 1 = n
    BY <1>1, <1>2, <2>1
  <2> QED BY <1>1, <1>2, <2>2 DEF Shape
<1>5. Shape(q)
  BY <1>2, <1>3, <1>4, <1>4a DEF Shape
<1>6. In(q) = In(s) \ {s[i] : i \in 1..n}
  <2>1. ASSUME NEW x \in In(q) PROVE x \in In(s) /\ x \notin {s[i] : i \in 1..n}
    <3>1. PICK i \in 1..(m - n) : x = s[n + i]
      BY <1>2, <2>1 DEF In
    <3>2. n + i \in 1..m /\ \A j \in 1..n : j \in 1..m /\ j # n + i
      BY <1>1
    <3> QED BY <1>1, <3>1, <3>2 DEF In, Shape
  <2>2. ASSUME NEW x \in In(s), x \notin {s[i] : i \in 1..n} PROVE x \in In(q)
    <3>1. PICK j \in 1..m : x = s[j]
      BY <1>1 DEF In
    <3>2. j > n
      BY <1>1, <2>2, <3>1
    <3>3. j - n \in 1..(m - n) /\ n + (j - n) = j
      BY <1>1, <3>2
    <3> QED BY <1>2, <3>1, <3>3 DEF In
  <2> QED BY <2>1, <2>2
<1> QED BY <1>4b, <1>5, <1>6 DEF q, m

\* What a step drops: as a rule the step itself.
Boots == {"check", "nvs", "loop", "wifi", "ready"}
Dropped(t) ==
  IF At(t, "check") /\ sys.initialised THEN Boots
  ELSE IF At(t, "guard") /\ sta.guard = "done" THEN Boots \cup {"guard", "built"}
  ELSE {Head(todo[t])}

\* The steps of a thread that do not restart the chip.
Moves(t) ==
  \/ Check(t) \/ Nvs(t) \/ NvsErase(t) \/ EventLoopInit(t) \/ WifiInit(t) \/ Ready(t)
  \/ Guard(t) \/ Built(t) \/ GetMode(t) \/ SetMode(t) \/ WifiStart(t)
  \/ SetIp(t) \/ SetIpFails(t) \/ Configure(t) \/ Connect(t) \/ Report(t)

LEMMA DoneTodo ==
  ASSUME Base, NEW t \in Threads, todo[t] # <<>>, Done(t)
  PROVE  /\ todo' = [todo EXCEPT ![t] = Tail(todo[t])] /\ Shape(todo'[t])
         /\ In(todo'[t]) = In(todo[t]) \ {Head(todo[t])}
         /\ todo'[t] # <<>> /\ todo'[t][1] \in ModeSteps => Head(todo[t]) = "getMode"
<1>1. Shape(todo[t]) /\ todo[t] \in Seq(Steps) /\ Len(todo[t]) \in Nat /\ Len(todo[t]) >= 1
  BY DEF Base, Shapes, Shape
<1>2. Tail(todo[t]) = SubSeq(todo[t], 1 + 1, Len(todo[t])) /\ Head(todo[t]) = todo[t][1]
  BY <1>1, TailIsSubSeq
<1>3. todo'[t] = Tail(todo[t]) /\ todo' = [todo EXCEPT ![t] = Tail(todo[t])]
  BY DEF Done, Base, TypeOK
<1>4. {todo[t][i] : i \in 1..1} = {Head(todo[t])}
  BY <1>2
<1>5. 1 \in 0..Len(todo[t])
  BY <1>1
<1>6. /\ Shape(SubSeq(todo[t], 1 + 1, Len(todo[t])))
      /\ In(SubSeq(todo[t], 1 + 1, Len(todo[t]))) = In(todo[t]) \ {todo[t][i] : i \in 1..1}
      /\ 1 > 0 /\ SubSeq(todo[t], 1 + 1, Len(todo[t])) # <<>> /\ SubSeq(todo[t], 1 + 1, Len(todo[t]))[1] \in ModeSteps
           => todo[t][1] = "getMode"
  BY <1>1, <1>5, Suffix, Zenon
<1>7. todo'[t] # <<>> /\ todo'[t][1] \in ModeSteps => Head(todo[t]) = "getMode"
  <2>1. 1 > 0 /\ todo'[t] = SubSeq(todo[t], 1 + 1, Len(todo[t])) /\ Head(todo[t]) = todo[t][1]
    BY <1>2, <1>3
  <2> QED BY <1>6, <2>1, Zenon
<1>8. Shape(todo'[t]) /\ In(todo'[t]) = In(todo[t]) \ {Head(todo[t])}
  <2>1. todo'[t] = SubSeq(todo[t], 1 + 1, Len(todo[t]))
    BY <1>2, <1>3
  <2> QED BY <1>4, <1>6, <2>1, Zenon
<1> QED BY <1>3, <1>7, <1>8

LEMMA LeaveTodo ==
  ASSUME Base, NEW t \in Threads, todo[t] # <<>>,
         NEW n \in {5, 7}, Leave(t, n), Head(todo[t]) = IF n = 5 THEN "check" ELSE "guard"
  PROVE  /\ todo' = [todo EXCEPT ![t] = SubSeq(todo[t], n + 1, Len(todo[t]))] /\ Shape(todo'[t])
         /\ In(todo'[t]) = In(todo[t]) \ (IF n = 5 THEN Boots ELSE Boots \cup {"guard", "built"})
         /\ todo'[t] # <<>> => todo'[t][1] \notin ModeSteps
<1> DEFINE s == todo[t]
<1>1. Shape(s) /\ s \in Seq(Steps) /\ Len(s) \in Nat /\ Len(s) >= 1
      /\ s[1] = IF n = 5 THEN "check" ELSE "guard"
  <2>1. Shape(s) /\ s \in Seq(Steps)
    BY DEF Base, Shapes, Shape
  <2>2. s # <<>> /\ Head(s) = IF n = 5 THEN "check" ELSE "guard"
    OBVIOUS
  <2> HIDE DEF s
  <2>3. Len(s) \in Nat /\ Len(s) >= 1 /\ Head(s) = s[1]
    BY <2>1, <2>2
  <2> QED BY <2>1, <2>2, <2>3
<1>2. todo'[t] = SubSeq(s, n + 1, Len(s)) /\ todo' = [todo EXCEPT ![t] = SubSeq(todo[t], n + 1, Len(todo[t]))]
  BY DEF Leave, Base, TypeOK
<1> HIDE DEF s
<1>3. CASE n = 5
  <2>0. s[1] = "check" /\ 1 \in 1..Len(s)
    BY <1>1, <1>3
  <2>1. 1 + 4 <= Len(s) /\ s[1+1] = "nvs" /\ s[1+2] = "loop" /\ s[1+3] = "wifi" /\ s[1+4] = "ready"
    BY <1>1, <2>0, Zenon DEF Shape
  <2>2. 5 <= Len(s) /\ s[1] = "check" /\ s[2] = "nvs" /\ s[3] = "loop" /\ s[4] = "wifi" /\ s[5] = "ready"
    BY <1>1, <1>3, <2>1
  <2>3. {s[i] : i \in 1..n} = Boots /\ n \in 0..Len(s)
    BY <1>1, <1>3, <2>2 DEF Boots
  <2>4. /\ Shape(SubSeq(s, n + 1, Len(s))) /\ In(SubSeq(s, n + 1, Len(s))) = In(s) \ {s[i] : i \in 1..n}
        /\ n > 0 /\ SubSeq(s, n + 1, Len(s)) # <<>> /\ SubSeq(s, n + 1, Len(s))[1] \in ModeSteps => s[n] = "getMode"
    BY <1>1, <2>3, Suffix, Zenon
  <2> QED BY <1>2, <1>3, <2>2, <2>3, <2>4 DEF s
<1>4. CASE n = 7
  <2>0. s[1] = "guard" /\ 1 \in 1..Len(s)
    BY <1>1, <1>4
  <2>1. 1 + 6 <= Len(s) /\ s[1+1] = "check" /\ s[1+6] = "built"
    BY <1>1, <2>0, Zenon DEF Shape
  <2>2. 2 + 4 <= Len(s) /\ s[2+1] = "nvs" /\ s[2+2] = "loop" /\ s[2+3] = "wifi" /\ s[2+4] = "ready"
    BY <1>1, <2>1 DEF Shape
  <2>3. /\ 7 <= Len(s) /\ s[1] = "guard" /\ s[2] = "check" /\ s[3] = "nvs" /\ s[4] = "loop" /\ s[5] = "wifi"
        /\ s[6] = "ready" /\ s[7] = "built"
    BY <1>1, <1>4, <2>1, <2>2
  <2>4. {s[i] : i \in 1..n} = Boots \cup {"guard", "built"} /\ n \in 0..Len(s)
    BY <1>1, <1>4, <2>3 DEF Boots
  <2>5. /\ Shape(SubSeq(s, n + 1, Len(s))) /\ In(SubSeq(s, n + 1, Len(s))) = In(s) \ {s[i] : i \in 1..n}
        /\ n > 0 /\ SubSeq(s, n + 1, Len(s)) # <<>> /\ SubSeq(s, n + 1, Len(s))[1] \in ModeSteps => s[n] = "getMode"
    BY <1>1, <2>4, Suffix, Zenon
  <2> QED BY <1>2, <1>4, <2>3, <2>4, <2>5 DEF s
<1> QED BY <1>3, <1>4

\* What a step leaves of the thread's call, and of the others'.
LEMMA MovesTodo ==
  ASSUME Base, NEW t \in Threads, Moves(t)
  PROVE  /\ todo[t] # <<>> /\ todo' \in [Threads -> Seq(Steps)] /\ Shapes'
         /\ \A u \in Threads \ {t} : todo'[u] = todo[u]
         /\ \A x \in Steps \ {"lease"} : x \in In(todo'[t]) <=> x \in In(todo[t]) /\ x \notin Dropped(t)
         /\ todo'[t] # <<>> /\ todo'[t][1] \in ModeSteps => At(t, "getMode")
         /\ IF SetIp(t) THEN At(t, "lease")' ELSE "lease" \in In(todo'[t]) => "lease" \in In(todo[t]) /\ ~At(t, "lease")
<1>1. todo[t] # <<>>
  BY DEF Moves, Check, Nvs, NvsErase, EventLoopInit, WifiInit, Ready, Guard, Built, GetMode, SetMode,
         WifiStart, SetIp, SetIpFails, Configure, Connect, Report, At
<1>2. todo \in [Threads -> Seq(Steps)] /\ todo[t] \in Seq(Steps)
  BY DEF Base, TypeOK
<1>3. /\ todo' = [todo EXCEPT ![t] = todo'[t]] /\ Shape(todo'[t])
      /\ \A x \in Steps \ {"lease"} : x \in In(todo'[t]) <=> x \in In(todo[t]) /\ x \notin Dropped(t)
      /\ todo'[t] # <<>> /\ todo'[t][1] \in ModeSteps => Head(todo[t]) = "getMode"
      /\ IF SetIp(t) THEN todo'[t] # <<>> /\ todo'[t][1] = "lease"
                     ELSE "lease" \in In(todo'[t]) => "lease" \in In(todo[t]) /\ ~At(t, "lease")
  <2>1. CASE At(t, "check") /\ sys.initialised
    <3>1. Leave(t, 5) /\ Head(todo[t]) = "check"
      BY <2>1 DEF Moves, Check, Nvs, NvsErase, EventLoopInit, WifiInit, Ready, Guard, Built, GetMode, SetMode,
         WifiStart, SetIp, SetIpFails, Configure, Connect, Report, At, ModeSteps
    <3>2. Dropped(t) = Boots
      BY <2>1 DEF Dropped
    <3>3. /\ todo' = [todo EXCEPT ![t] = SubSeq(todo[t], 5 + 1, Len(todo[t]))] /\ Shape(todo'[t])
          /\ In(todo'[t]) = In(todo[t]) \ (IF 5 = 5 THEN Boots ELSE Boots \cup {"guard", "built"})
          /\ todo'[t] # <<>> => todo'[t][1] \notin ModeSteps
      <4>1. 5 \in {5, 7} /\ Head(todo[t]) = IF 5 = 5 THEN "check" ELSE "guard"
        BY <3>1
      <4> QED BY <1>1, <3>1, <4>1, LeaveTodo, Zenon
    <3>4. ~SetIp(t) /\ ~At(t, "lease")
      BY <3>1 DEF SetIp, At
    <3> QED BY <1>2, <3>2, <3>3, <3>4
  <2>2. CASE At(t, "guard") /\ sta.guard = "done"
    <3>1. Leave(t, Len(Instance)) /\ Head(todo[t]) = "guard"
      BY <2>2 DEF Moves, Check, Nvs, NvsErase, EventLoopInit, WifiInit, Ready, Guard, Built, GetMode, SetMode,
         WifiStart, SetIp, SetIpFails, Configure, Connect, Report, At, ModeSteps
    <3>2. Len(Instance) = 7
      BY InstanceIs DEF Boot
    <3>3. Dropped(t) = Boots \cup {"guard", "built"}
      BY <2>2 DEF Dropped, At
    <3>4. ~SetIp(t) /\ ~At(t, "lease")
      BY <3>1 DEF SetIp, At
    <3> QED BY <1>1, <1>2, <3>1, <3>2, <3>3, <3>4, LeaveTodo
  <2>3. CASE SetIp(t)
    <3> DEFINE q == <<"lease">> \o Tail(todo[t])
               s == todo[t]
    <3>1. todo' = [todo EXCEPT ![t] = q] /\ todo'[t] = q /\ s[1] = "setIp" /\ Dropped(t) = {"setIp"}
      BY <1>2, <2>3 DEF SetIp, At, Dropped
    <3>2. /\ Len(s) \in Nat /\ Len(s) >= 1 /\ Tail(s) \in Seq(Steps) /\ Len(Tail(s)) = Len(s) - 1
          /\ \A i \in 1..(Len(s) - 1) : Tail(s)[i] = s[i + 1]
      BY <1>1, <1>2, HeadTailProperties
    <3>3. /\ q \in Seq(Steps) /\ Len(q) = 1 + Len(Tail(s))
          /\ \A i \in 1..(1 + Len(Tail(s))) : q[i] = IF i <= 1 THEN <<"lease">>[i] ELSE Tail(s)[i - 1]
      <4>1. <<"lease">> \in Seq(Steps) /\ Len(<<"lease">>) = 1
        BY DEF Steps
      <4> QED BY <3>2, <4>1, ConcatProperties
    <3> HIDE DEF q
    <3>4. Len(q) = Len(s) /\ q[1] = "lease" /\ \A i \in 2..Len(s) : q[i] = s[i]
      <4>1. ASSUME NEW i \in 2..Len(s) PROVE q[i] = s[i]
        <5>1. i \in 1..(1 + Len(Tail(s))) /\ ~(i <= 1) /\ i - 1 \in 1..(Len(s) - 1) /\ (i - 1) + 1 = i
          BY <3>2
        <5> QED BY <3>2, <3>3, <5>1
      <4> QED BY <3>2, <3>3, <4>1
    <3>5. Shape(s)
      BY DEF Base, Shapes
    <3>6. \A i \in 1..Len(s) : s[i] # "lease"
      BY <3>1, <3>2, <3>5 DEF Shape
    <3> HIDE DEF s
    <3>7. \A i, j \in 1..Len(q) : q[i] = q[j] => i = j
      BY <3>2, <3>4, <3>5, <3>6 DEF Shape
    <3>8. ASSUME NEW i \in 1..Len(q)
          PROVE  /\ q[i] = "guard" => i + 6 <= Len(q) /\ q[i+1] = "check" /\ q[i+6] = "built"
                 /\ q[i] = "check" => /\ i + 4 <= Len(q) /\ q[i+1] = "nvs" /\ q[i+2] = "loop"
                                      /\ q[i+3] = "wifi" /\ q[i+4] = "ready"
                 /\ q[i] = "loop"  => i + 2 <= Len(q) /\ q[i+1] = "wifi" /\ q[i+2] = "ready"
                 /\ q[i] # "setIp"
      <4>1. \A j \in 1..Len(q) : j > 1 => q[j] = s[j]
        BY <3>2, <3>4
      <4>2. i # 1 => s[i] # "setIp"
        BY <3>1, <3>2, <3>4, <3>5 DEF Shape, s
      <4> QED BY <3>2, <3>4, <3>5, <4>1, <4>2 DEF Shape
    <3>8a. (\A i \in 2..Len(q) : q[i] \in ModeSteps => q[i-1] = "getMode") /\ q[1] \notin ModeSteps
      <4>1. "lease" \notin ModeSteps /\ "setIp" # "getMode"
        BY DEF ModeSteps
      <4>2. ASSUME NEW i \in 2..Len(q), q[i] \in ModeSteps PROVE q[i-1] = "getMode"
        <5>1. i \in 2..Len(s) /\ q[i] = s[i] /\ s[i-1] = "getMode"
          BY <3>2, <3>4, <3>5, <4>2 DEF Shape
        <5>2. i # 2
          BY <3>1, <4>1, <5>1 DEF s
        <5>3. i - 1 \in 2..Len(s)
          BY <3>2, <5>1, <5>2
        <5> QED BY <3>4, <5>1, <5>3
      <4> QED BY <3>4, <4>1, <4>2
    <3>9. Shape(q)
      BY <3>3, <3>7, <3>8, <3>8a DEF Shape
    <3>10. \A x \in Steps \ {"lease"} : x \in In(q) <=> x \in In(s) /\ x # "setIp"
      <4>1. ASSUME NEW x, x # "lease", x \in In(q) PROVE x \in In(s) /\ x # "setIp"
        <5>1. PICK i \in 1..Len(q) : x = q[i]
          BY <4>1 DEF In
        <5> QED BY <3>2, <3>4, <3>8, <4>1, <5>1 DEF In
      <4>2. ASSUME NEW x, x \in In(s), x # "setIp" PROVE x \in In(q)
        <5>1. PICK i \in 1..Len(s) : x = s[i]
          BY <4>2 DEF In
        <5>2. i # 1
          BY <3>1, <4>2, <5>1 DEF s
        <5> QED BY <3>2, <3>4, <5>1, <5>2 DEF In
      <4> QED BY <4>1, <4>2
    <3>11. q # <<>> /\ q[1] = "lease"
      BY <3>2, <3>3, <3>4
    <3> QED BY <2>3, <3>1, <3>8a, <3>9, <3>10, <3>11 DEF s
  <2>4. CASE ~(At(t, "check") /\ sys.initialised) /\ ~(At(t, "guard") /\ sta.guard = "done") /\ ~SetIp(t)
    <3>1. Done(t)
      BY <2>4 DEF Moves, Check, Nvs, NvsErase, EventLoopInit, WifiInit, Ready, Guard, Built, GetMode, SetMode,
         WifiStart, SetIpFails, Configure, Connect, Report
    <3>2. Dropped(t) = {Head(todo[t])}
      BY <2>4 DEF Dropped
    <3>3. "lease" \in In(todo[t]) \ {Head(todo[t])} => "lease" \in In(todo[t]) /\ ~At(t, "lease")
      BY DEF At
    <3> QED BY <1>1, <1>2, <2>4, <3>1, <3>2, <3>3, DoneTodo
  <2> QED BY <2>1, <2>2, <2>3, <2>4
<1>4. todo'[t] \in Seq(Steps)
  BY <1>3 DEF Shape
<1>5. /\ todo' \in [Threads -> Seq(Steps)] /\ \A u \in Threads \ {t} : todo'[u] = todo[u]
  BY <1>2, <1>3, <1>4
<1>6. Shapes'
  BY <1>3, <1>5 DEF Base, Shapes
<1>7. SetIp(t) => At(t, "lease")'
  BY <1>3, <1>4 DEF At
<1> QED BY <1>1, <1>3, <1>5, <1>6, <1>7 DEF At

-----------------------------------------------------------------------------
(* The types, one variable at a time.                                      *)

SysType == [initialised : BOOLEAN, loop : BOOLEAN]
StaType == [guard : {"no", "busy", "done"}, status : {"idle", "connected", "disconnected"},
            address : Addresses \cup {NoAddress}, bit : BOOLEAN]
ApType  == [local : Locals \cup {0}, ip : Locals \cup {0}, dhcps : BOOLEAN,
            lease : [first : 0..255, last : 0..255]]
DrvType == [init : BOOLEAN, started : BOOLEAN, mode : Modes, link : {"down", "connecting", "up"},
            ip : Addresses \cup {NoAddress}]

TodoOK   == todo \in [Threads -> Seq(Steps)]
LocalsOK == arg \in [Threads -> Locals \cup {0}] /\ mode \in [Threads -> Modes]
SysOK    == sys \in SysType
StaOK    == sta \in StaType
ApOK     == ap \in ApType
DrvOK    == drv \in DrvType
QueueOK  == queue \in Seq(Events) /\ event \in Events
SeenOK   == rushed \in BOOLEAN /\ overtaken \in SUBSET Threads
CountsOK == calls \in 0..MaxCalls /\ faults \in 0..MaxFaults

LEMMA TypeParts ==
  /\ TypeOK  <=> TodoOK /\ LocalsOK /\ SysOK /\ StaOK /\ ApOK /\ DrvOK /\ QueueOK /\ SeenOK /\ CountsOK
  /\ TypeOK' <=> TodoOK' /\ LocalsOK' /\ SysOK' /\ StaOK' /\ ApOK' /\ DrvOK' /\ QueueOK' /\ SeenOK' /\ CountsOK'
BY Zenon DEF TypeOK, TodoOK, LocalsOK, SysOK, StaOK, ApOK, DrvOK, QueueOK, SeenOK, CountsOK,
             SysType, StaType, ApType, DrvType

\* What a step leaves alone keeps its type.
LEMMA Kept ==
  ASSUME TypeOK
  PROVE  /\ UNCHANGED todo => TodoOK'
         /\ UNCHANGED <<arg, mode>> => LocalsOK'
         /\ UNCHANGED sys => SysOK'
         /\ UNCHANGED sta => StaOK'
         /\ UNCHANGED ap => ApOK'
         /\ UNCHANGED drv => DrvOK'
         /\ UNCHANGED <<queue, event>> => QueueOK'
         /\ UNCHANGED seen => SeenOK'
         /\ UNCHANGED <<calls, faults>> => CountsOK'
BY TypeParts DEF TodoOK, LocalsOK, SysOK, StaOK, ApOK, DrvOK, QueueOK, SeenOK, CountsOK, seen

LEMMA SysFields ==
  ASSUME SysOK, NEW b \in BOOLEAN
  PROVE  [sys EXCEPT !.initialised = b] \in SysType /\ [sys EXCEPT !.loop = b] \in SysType
BY DEF SysOK, SysType

LEMMA StaFields ==
  ASSUME StaOK
  PROVE  /\ \A b \in BOOLEAN : [sta EXCEPT !.bit = b] \in StaType
         /\ \A g \in {"no", "busy", "done"} : [sta EXCEPT !.guard = g] \in StaType
         /\ \A s \in {"idle", "connected", "disconnected"} : [sta EXCEPT !.status = s] \in StaType
         /\ \A a \in Addresses \cup {NoAddress} : [sta EXCEPT !.address = a] \in StaType
         /\ sta.guard \in {"no", "busy", "done"}
BY DEF StaOK, StaType

LEMMA ApFields ==
  ASSUME ApOK
  PROVE  /\ \A b \in BOOLEAN : [ap EXCEPT !.dhcps = b] \in ApType
         /\ \A x \in Locals \cup {0} : [ap EXCEPT !.ip = x] \in ApType /\ [ap EXCEPT !.local = x] \in ApType
         /\ \A l \in [first : 0..255, last : 0..255] : [ap EXCEPT !.lease = l] \in ApType
BY DEF ApOK, ApType

LEMMA DrvFields ==
  ASSUME NEW d \in DrvType
  PROVE  /\ \A m \in Modes : [d EXCEPT !.mode = m] \in DrvType
         /\ \A b \in BOOLEAN : [d EXCEPT !.init = b] \in DrvType /\ [d EXCEPT !.started = b] \in DrvType
         /\ \A l \in {"down", "connecting", "up"} : [d EXCEPT !.link = l] \in DrvType
         /\ \A l \in {"down", "connecting", "up"}, a \in Addresses \cup {NoAddress} :
              [d EXCEPT !.link = l, !.ip = a] \in DrvType
         /\ \A a \in Addresses \cup {NoAddress} : [d EXCEPT !.ip = a] \in DrvType
BY DEF DrvType

LEMMA EventsAre ==
  /\ StartEvent \in Events /\ Lost \in Events
  /\ \A a \in Addresses : [id |-> "gotIp", ip |-> a] \in Events
  /\ \A e \in Events : e.ip \in Addresses \cup {NoAddress} /\ e.id \in {"start", "disconnected", "gotIp"}
BY DEF StartEvent, Lost, Events


\* What a step, a call and an event may leave in the state.
LEMMA SwitchEffect ==
  ASSUME TypeOK, NEW d \in DrvType,
         d.link = drv.link, d.ip = drv.ip, Switch(d)
  PROVE  /\ drv' \in DrvType
         /\ drv'.init = d.init /\ drv'.started = d.started /\ drv'.mode = d.mode
         /\ \/ /\ drv'.link = drv.link /\ drv'.ip = drv.ip
               /\ queue' = queue \/ queue' = Append(queue, StartEvent)
            \/ /\ drv'.link = "down" /\ drv'.ip = NoAddress
               /\ queue' = IF drv.link = "down" THEN queue ELSE Append(queue, Lost)
<1> DEFINE up   == "STA" \in Up(d) \ Up(drv)
           down == "STA" \in Up(drv) \ Up(d)
<1>1. /\ drv' = IF down THEN [d EXCEPT !.link = "down", !.ip = NoAddress] ELSE d
      /\ queue' = queue \o (IF up THEN <<StartEvent>> ELSE <<>>)
                        \o (IF down /\ drv.link # "down" THEN <<Lost>> ELSE <<>>)
  BY DEF Switch
<1>2. ~(up /\ down) /\ queue \in Seq(Events) /\ StartEvent \in Events /\ Lost \in Events
  BY DEF TypeOK, Events, StartEvent, Lost
<1> HIDE DEF up, down
<1>3. \A e \in Events : queue \o <<e>> = Append(queue, e) /\ Append(queue, e) \in Seq(Events)
  <2> SUFFICES ASSUME NEW e \in Events
               PROVE  queue \o <<e>> = Append(queue, e) /\ Append(queue, e) \in Seq(Events)
    OBVIOUS
  <2>1. <<e>> \in Seq(Events) /\ Len(<<e>>) = 1 /\ <<e>>[1] = e /\ Len(queue) \in Nat
    BY <1>2
  <2>2. /\ queue \o <<e>> \in Seq(Events) /\ Len(queue \o <<e>>) = Len(queue) + 1
        /\ \A i \in 1..(Len(queue) + 1) : (queue \o <<e>>)[i] = IF i <= Len(queue) THEN queue[i] ELSE <<e>>[i - Len(queue)]
    BY <1>2, <2>1, ConcatProperties
  <2>3. /\ Append(queue, e) \in Seq(Events) /\ Len(Append(queue, e)) = Len(queue) + 1
        /\ \A i \in 1..(Len(queue) + 1) : Append(queue, e)[i] = IF i <= Len(queue) THEN queue[i] ELSE e
    BY <1>2, <2>1
  <2>4. \A i \in 1..(Len(queue) + 1) : (queue \o <<e>>)[i] = Append(queue, e)[i]
    <3> SUFFICES ASSUME NEW i \in 1..(Len(queue) + 1) PROVE (queue \o <<e>>)[i] = Append(queue, e)[i]
      OBVIOUS
    <3>1. CASE i <= Len(queue)
      BY <2>2, <2>3, <3>1
    <3>2. CASE i > Len(queue)
      <4>1. i - Len(queue) = 1
        BY <2>1, <3>2
      <4> QED BY <2>1, <2>2, <2>3, <3>2, <4>1
    <3> QED BY <2>1, <3>1, <3>2
  <2> QED BY <2>2, <2>3, <2>4, SeqEqual
<1>4. \A q \in Seq(Events) : q \o <<>> = q
  BY ConcatEmptySeq
<1>5. CASE up
  <2>1. queue' = Append(queue, StartEvent)
    BY <1>1, <1>2, <1>3, <1>4, <1>5
  <2> QED BY <1>1, <1>2, <1>5, <2>1
<1>6. CASE ~up /\ down
  <2>1. queue' = IF drv.link = "down" THEN queue ELSE Append(queue, Lost)
    BY <1>1, <1>2, <1>3, <1>4, <1>6
  <2>2. drv' = [d EXCEPT !.link = "down", !.ip = NoAddress] /\ drv' \in DrvType
    BY <1>1, <1>6, DrvFields
  <2> QED BY <2>1, <2>2 DEF DrvType
<1>7. CASE ~up /\ ~down
  <2>1. queue' = queue
    BY <1>1, <1>2, <1>4, <1>7
  <2> QED BY <1>1, <1>7, <2>1
<1> QED BY <1>5, <1>6, <1>7

LEMMA TypesMoves == ASSUME Base, NEW t \in Threads, Moves(t) PROVE TypeOK'
<1>1. TodoOK'
  BY MovesTodo DEF TodoOK
<1>2. TypeOK /\ TodoOK /\ LocalsOK /\ SysOK /\ StaOK /\ ApOK /\ DrvOK /\ QueueOK /\ SeenOK /\ CountsOK
  BY TypeParts DEF Base
<1>3. ToSetMode \in SUBSET Threads
  BY DEF ToSetMode
<1>4. CASE Check(t)
  <2>1. rushed' \in BOOLEAN /\ SeenOK'
    BY <1>2, <1>4 DEF Check, SeenOK
  <2> QED BY <1>1, <1>2, <1>4, <2>1, Kept, TypeParts, Zenon DEF Check
<1>5. CASE Nvs(t)
  BY <1>1, <1>2, <1>5, Kept, TypeParts, Zenon DEF Nvs
<1>6. CASE NvsErase(t)
  <2>1. DrvOK'
    BY <1>2, <1>6, DrvFields, Zenon DEF NvsErase, DrvOK
  <2>2. CountsOK'
    BY <1>2, <1>6, BoundAssumption DEF NvsErase, CountsOK
  <2> QED BY <1>1, <1>2, <1>6, <2>1, <2>2, Kept, TypeParts, Zenon DEF NvsErase
<1>7. CASE EventLoopInit(t)
  <2>1. SysOK' /\ StaOK'
    BY <1>2, <1>7, SysFields, StaFields, Zenon DEF EventLoopInit, SysOK, StaOK
  <2> QED BY <1>1, <1>2, <1>7, <2>1, Kept, TypeParts, Zenon DEF EventLoopInit
<1>8. CASE WifiInit(t)
  <2>1. DrvOK'
    BY <1>2, <1>8, DrvFields, Zenon DEF WifiInit, DrvOK
  <2>2. SeenOK'
    BY <1>2, <1>3, <1>8 DEF WifiInit, SeenOK
  <2> QED BY <1>1, <1>2, <1>8, <2>1, <2>2, Kept, TypeParts, Zenon DEF WifiInit
<1>9. CASE Ready(t)
  <2>1. SysOK'
    BY <1>2, <1>9, SysFields, Zenon DEF Ready, SysOK
  <2> QED BY <1>1, <1>2, <1>9, <2>1, Kept, TypeParts, Zenon DEF Ready
<1>10. CASE Guard(t)
  <2>1. sta' = [sta EXCEPT !.guard = IF sta.guard = "no" THEN "busy" ELSE sta.guard]
    BY <1>10 DEF Guard
  <2>2. (IF sta.guard = "no" THEN "busy" ELSE sta.guard) \in {"no", "busy", "done"}
    BY <1>2, StaFields
  <2>3. StaOK'
    BY <1>2, <2>1, <2>2, StaFields, Zenon DEF StaOK
  <2> QED BY <1>1, <1>2, <1>10, <2>3, Kept, TypeParts, Zenon DEF Guard
<1>11. CASE Built(t)
  <2>1. StaOK'
    BY <1>2, <1>11, StaFields, Zenon DEF Built, StaOK
  <2> QED BY <1>1, <1>2, <1>11, <2>1, Kept, TypeParts, Zenon DEF Built
<1>12. CASE GetMode(t)
  <2>1. LocalsOK'
    BY <1>2, <1>12 DEF GetMode, LocalsOK
  <2> QED BY <1>1, <1>2, <1>12, <2>1, Kept, TypeParts, Zenon DEF GetMode
<1>13. CASE SetMode(t)
  <2>1. SeenOK'
    BY <1>2, <1>3, <1>13 DEF SetMode, SeenOK
  <2>2. DrvOK' /\ QueueOK'
    <3>1. CASE drv.init
      <4>1. PICK step \in ModeSteps : Switch([drv EXCEPT !.mode = NewMode(step, mode[t])])
        BY <1>13, <3>1, Zenon DEF SetMode
      <4>2. NewMode(step, mode[t]) \in Modes
        BY DEF ModeSteps, NewMode, Modes
      <4> DEFINE d == [drv EXCEPT !.mode = NewMode(step, mode[t])]
      <4>3. d \in DrvType
        BY <1>2, <4>2, DrvFields, Zenon DEF DrvOK
      <4>4. d.link = drv.link /\ d.ip = drv.ip
        BY <1>2 DEF DrvOK, DrvType
      <4>5. Switch(d)
        BY <4>1
      <4> HIDE DEF d
      <4>6. drv' \in DrvType /\ \/ queue' = queue
                                \/ queue' = Append(queue, StartEvent)
                                \/ queue' = Append(queue, Lost)
        BY <1>2, <4>3, <4>4, <4>5, SwitchEffect
      <4>7. event' = event
        BY <1>13 DEF SetMode
      <4> QED BY <1>2, <4>6, <4>7, EventsAre DEF DrvOK, QueueOK
    <3>2. CASE ~drv.init
      BY <1>2, <1>13, <3>2, Kept DEF SetMode
    <3> QED BY <3>1, <3>2
  <2> QED BY <1>1, <1>2, <1>13, <2>1, <2>2, Kept, TypeParts, Zenon DEF SetMode
<1>14. CASE WifiStart(t)
  <2>1. DrvOK' /\ QueueOK'
    <3>1. CASE drv.init
      <4> DEFINE d == [drv EXCEPT !.started = TRUE]
      <4>1. d \in DrvType
        BY <1>2, DrvFields, Zenon DEF DrvOK
      <4>2. d.link = drv.link /\ d.ip = drv.ip
        BY <1>2 DEF DrvOK, DrvType
      <4>3. Switch(d)
        BY <1>14, <3>1, Zenon DEF WifiStart
      <4> HIDE DEF d
      <4>4. drv' \in DrvType /\ \/ queue' = queue
                                \/ queue' = Append(queue, StartEvent)
                                \/ queue' = Append(queue, Lost)
        BY <1>2, <4>1, <4>2, <4>3, SwitchEffect
      <4>5. event' = event
        BY <1>14 DEF WifiStart
      <4> QED BY <1>2, <4>4, <4>5, EventsAre DEF DrvOK, QueueOK
    <3>2. CASE ~drv.init
      BY <1>2, <1>14, <3>2, Kept DEF WifiStart
    <3> QED BY <3>1, <3>2
  <2> QED BY <1>1, <1>2, <1>14, <2>1, Kept, TypeParts, Zenon DEF WifiStart
<1>15. CASE SetIp(t)
  <2>1. arg[t] \in Locals \cup {0}
    BY <1>2 DEF LocalsOK
  <2>2. ApOK'
    BY <1>2, <1>15, <2>1, ApFields, Zenon DEF SetIp, ApOK
  <2> QED BY <1>1, <1>2, <1>15, <2>2, Kept, TypeParts, Zenon DEF SetIp
<1>16. CASE SetIpFails(t)
  BY <1>1, <1>2, <1>16, Kept, TypeParts, Zenon DEF SetIpFails
<1>17. CASE Configure(t)
  <2>1. arg[t] \in Locals \cup {0} /\ LeaseRange(arg[t]) \in [first : 0..255, last : 0..255]
    <3>1. arg[t] \in Locals \cup {0}
      BY <1>2 DEF LocalsOK
    <3>2. ASSUME NEW x \in Locals \cup {0} PROVE LeaseRange(x) \in [first : 0..255, last : 0..255]
      <4>1. x \in 0..255
        BY LocalAssumption
      <4>2. (x + 1) % 256 \in 0..255 /\ (x + 11) % 256 \in 0..255
        BY <4>1
      <4> QED BY <4>2 DEF LeaseRange
    <3> QED BY <3>1, <3>2, Zenon
  <2>2. ApOK'
    <3>1. \/ ap' = [ap EXCEPT !.dhcps = FALSE] \/ ap' = [ap EXCEPT !.dhcps = TRUE]
          \/ ap' = [ap EXCEPT !.lease = LeaseRange(arg[t])] \/ ap' = [ap EXCEPT !.local = arg[t]]
      BY <1>17, Zenon DEF Configure
    <3>2. ap' \in ApType
      <4>1. [ap EXCEPT !.dhcps = FALSE] \in ApType /\ [ap EXCEPT !.dhcps = TRUE] \in ApType
        BY <1>2, ApFields
      <4>2. [ap EXCEPT !.lease = LeaseRange(arg[t])] \in ApType /\ [ap EXCEPT !.local = arg[t]] \in ApType
        BY <1>2, <2>1, ApFields, Zenon
      <4> QED BY <3>1, <4>1, <4>2, Zenon
    <3> QED BY <3>2, Zenon DEF ApOK
  <2> QED BY <1>1, <1>2, <1>17, <2>2, Kept, TypeParts, Zenon DEF Configure
<1>18. CASE Connect(t)
  <2>1. drv.link \in {"down", "connecting", "up"}
    BY <1>2 DEF DrvOK, DrvType
  <2>2. PICK l \in {"down", "connecting", "up"} : drv' = [drv EXCEPT !.link = l]
    BY <1>18, <2>1 DEF Connect
  <2>3. DrvOK'
    BY <1>2, <2>2, DrvFields, Zenon DEF DrvOK
  <2> QED BY <1>1, <1>2, <1>18, <2>3, Kept, TypeParts, Zenon DEF Connect
<1>19. CASE Report(t)
  <2>1. event.ip \in Addresses \cup {NoAddress}
    BY <1>2, EventsAre DEF QueueOK
  <2>2. StaOK'
    BY <1>2, <1>19, <2>1, StaFields, Zenon DEF Report, StaOK
  <2> QED BY <1>1, <1>2, <1>19, <2>2, Kept, TypeParts, Zenon DEF Report
<1> QED BY <1>4, <1>5, <1>6, <1>7, <1>8, <1>9, <1>10, <1>11, <1>12, <1>13, <1>14, <1>15, <1>16, <1>17, <1>18, <1>19
   DEF Moves

LEMMA EmptyShape == Shape(<<>>) /\ <<>> \in Seq(Steps) /\ In(<<>>) = {}
  BY DEF Shape, In

\* A chip that has just started, and what the flash holds.
Blank ==
  /\ todo = [t \in Threads |-> <<>>] /\ arg = [t \in Threads |-> 0] /\ mode = [t \in Threads |-> {}]
  /\ sys = SysOff /\ sta = StaOff /\ ap = ApOff
  /\ drv \in {DrvOff(m) : m \in Modes}
  /\ queue = <<>> /\ event = StartEvent
  /\ rushed = FALSE /\ overtaken = {}

LEMMA BlankBase == Blank /\ CountsOK => Base
<1> SUFFICES ASSUME Blank, CountsOK PROVE Base
  OBVIOUS
<1>1. TodoOK /\ Shapes
  BY EmptyShape, Zenon DEF Blank, TodoOK, Shapes
<1>2. LocalsOK
  BY DEF Blank, LocalsOK, Modes
<1>3. SysOK /\ StaOK
  BY DEF Blank, SysOK, SysOff, SysType, StaOK, StaOff, StaType
<1>4. ApOK
  BY DEF Blank, ApOK, ApOff, NoLease, ApType
<1>5. DrvOK
  <2>1. PICK m \in Modes : drv = DrvOff(m)
    BY DEF Blank
  <2> QED BY <2>1 DEF DrvOK, DrvOff, DrvType
<1>6. QueueOK
  <2>1. queue \in Seq(Events)
    BY DEF Blank
  <2> QED BY <2>1, EventsAre DEF Blank, QueueOK
<1>7. SeenOK
  BY DEF Blank, SeenOK
<1> QED BY <1>1, <1>2, <1>3, <1>4, <1>5, <1>6, <1>7, TypeParts, Zenon DEF Base

LEMMA BlankRestart == ASSUME Base, Restart, faults' \in 0..MaxFaults PROVE Blank' /\ Base'
<1>1. TypeOK
  BY DEF Base
<1>2. drv.mode \in Modes /\ CountsOK
  BY <1>1, TypeParts DEF DrvOK, DrvType
<1>3. Blank'
  BY <1>2 DEF Restart, Blank
<1>4. CountsOK'
  BY <1>2 DEF Restart, CountsOK
<1>5. (Blank /\ CountsOK => Base)'
  BY BlankBase, PTL
<1> QED BY <1>3, <1>4, <1>5

LEMMA BlankInit == Init => Blank /\ Base
<1> SUFFICES ASSUME Init PROVE Blank /\ Base
  OBVIOUS
<1>1. Blank
  BY DEF Init, Blank
<1>2. CountsOK
  BY BoundAssumption DEF Init, CountsOK
<1> QED BY <1>1, <1>2, BlankBase

\* A thread enters a call or its handler.
LEMMA CallTodo ==
  ASSUME Base, DriverCalls, NEW t \in Tasks, NEW local \in Locals, NEW call \in Calls[t], Call(t, call, local)
  PROVE  /\ todo[t] = <<>> /\ todo' = [todo EXCEPT ![t] = todo'[t]]
         /\ Fresh(todo'[t]) /\ In(todo'[t]) \cap Reports = {}
         /\ call # "ap.config" => In(todo'[t]) \cap ConfigSteps = {}
<1>1. todo \in [Threads -> Seq(Steps)] /\ t \in Threads /\ call \in CallNames
  BY DEF Base, TypeOK, Threads, DriverCalls
<1>2. todo' = [todo EXCEPT ![t] = Program(call)] /\ todo[t] = <<>>
  BY DEF Call
<1>3. todo'[t] = Program(call)
  BY <1>1, <1>2
<1> QED BY <1>1, <1>2, <1>3, Programs, Zenon

LEMMA HandleTodo ==
  ASSUME Base, Handle
  PROVE  /\ todo[EventTask] = <<>> /\ todo' = [todo EXCEPT ![EventTask] = todo'[EventTask]]
         /\ event' = queue[1] /\ event' \in Events /\ queue' = Tail(queue) /\ queue' \in Seq(Events) /\ queue # <<>>
         /\ Reporting(event'.id, todo'[EventTask])
<1>1. todo \in [Threads -> Seq(Steps)] /\ EventTask \in Threads /\ queue \in Seq(Events)
  BY DEF Base, TypeOK, Threads
<1>2. /\ todo[EventTask] = <<>> /\ queue # <<>> /\ event' = Head(queue) /\ queue' = Tail(queue)
      /\ todo' = [todo EXCEPT ![EventTask] = Handler(Head(queue).id)]
  BY DEF Handle
<1>3. Head(queue) = queue[1] /\ Head(queue) \in Events /\ Tail(queue) \in Seq(Events)
  BY <1>1, <1>2
<1>4. todo'[EventTask] = Handler(event'.id)
  BY <1>1, <1>2
<1>5. event'.id \in {"start", "disconnected", "gotIp"}
  BY <1>2, <1>3, EventsAre
<1>6. Reporting(event'.id, todo'[EventTask])
  BY <1>4, <1>5, Handlers
<1> QED BY <1>2, <1>3, <1>4, <1>6

LEMMA ShapesExcept ==
  ASSUME Base, NEW t \in Threads, todo' = [todo EXCEPT ![t] = todo'[t]], Shape(todo'[t])
  PROVE  TodoOK' /\ Shapes' /\ \A u \in Threads \ {t} : todo'[u] = todo[u]
<1>1. todo \in [Threads -> Seq(Steps)] /\ todo'[t] \in Seq(Steps)
  BY DEF Base, TypeOK, Shape
<1>2. \A u \in Threads \ {t} : todo'[u] = todo[u]
  BY <1>1
<1>3. TodoOK'
  BY <1>1 DEF TodoOK
<1>4. Shapes'
  BY <1>2 DEF Base, Shapes
<1> QED BY <1>2, <1>3, <1>4

\* What the network does.
LEMMA NetworkTypes == ASSUME Base, Attempt \/ LinkDown \/ NewAddress PROVE Base'
<1>1. TypeOK /\ TodoOK /\ LocalsOK /\ SysOK /\ StaOK /\ ApOK /\ DrvOK /\ QueueOK /\ SeenOK /\ CountsOK
  BY TypeParts DEF Base
<1>2. UNCHANGED <<todo, arg, mode, sys, sta, ap, event, seen, calls>>
  BY DEF Attempt, LinkDown, NewAddress
<1>3. CountsOK'
  <2>1. calls' = calls /\ (faults' = faults \/ (faults < MaxFaults /\ faults' = faults + 1))
    <3>1. calls' = calls
      BY <1>2
    <3>2. CASE Attempt
      <4>1. UNCHANGED <<todo, arg, mode, sys, sta, ap, event, seen, calls, faults>>
        BY <3>2, Zenon DEF Attempt
      <4>2. faults' = faults
        BY <4>1
      <4> QED BY <3>1, <4>2
    <3>3. CASE LinkDown \/ NewAddress
      BY <3>1, <3>3, Zenon DEF LinkDown, NewAddress
    <3> QED BY <3>2, <3>3
  <2> QED BY <1>1, <2>1, BoundAssumption DEF CountsOK
<1>4. DrvOK'
  <2>1. drv \in DrvType /\ NoAddress \in Addresses \cup {NoAddress}
    BY <1>1 DEF DrvOK
  <2>2. CASE Attempt
    <3>1. PICK a \in Addresses : drv' = [drv EXCEPT !.link = "up", !.ip = a]
      BY <2>2, Zenon DEF Attempt
    <3> QED BY <2>1, <3>1, DrvFields DEF DrvOK
  <2>3. CASE LinkDown
    <3>1. drv' = [drv EXCEPT !.link = "down", !.ip = NoAddress]
      BY <2>3, Zenon DEF LinkDown
    <3> QED BY <2>1, <3>1, DrvFields DEF DrvOK
  <2>4. CASE NewAddress
    <3>1. PICK a \in Addresses : drv' = [drv EXCEPT !.ip = a]
      BY <2>4, Zenon DEF NewAddress
    <3> QED BY <2>1, <3>1, DrvFields DEF DrvOK
  <2> QED BY <2>2, <2>3, <2>4
<1>5. PICK e \in Events : queue' = Append(queue, e)
  BY EventsAre DEF Attempt, LinkDown, NewAddress
<1>6. QueueOK'
  BY <1>1, <1>2, <1>5 DEF QueueOK
<1>7. Shapes'
  BY <1>2 DEF Base, Shapes
<1> QED BY <1>1, <1>2, <1>3, <1>4, <1>6, <1>7, Kept, TypeParts, Zenon DEF Base

\* The steps of the specification.
LEMMA NextIs ==
  ASSUME Base, [Next]_vars
  PROVE  \/ \E t \in Threads : Moves(t)
         \/ Restart /\ faults' \in 0..MaxFaults /\ \E t \in Threads : At(t, "loop") \/ At(t, "nvs")
         \/ \E t \in Tasks, local \in Locals : \E call \in Calls[t] : Call(t, call, local)
         \/ Handle
         \/ Attempt \/ LinkDown \/ NewAddress
         \/ UNCHANGED vars
<1>1. faults \in 0..MaxFaults
  BY DEF Base, TypeOK
<1>2. ASSUME NEW t \in Threads, Step(t) \/ NvsErase(t) \/ NvsFails(t)
      PROVE  Moves(t) \/ (Restart /\ faults' \in 0..MaxFaults /\ (At(t, "loop") \/ At(t, "nvs")))
  <2>1. CASE EventLoopFails(t)
    BY <1>1, <2>1 DEF EventLoopFails
  <2>2. CASE NvsFails(t)
    BY <1>1, <2>2, BoundAssumption DEF NvsFails
  <2> QED BY <1>2, <2>1, <2>2 DEF Step, Moves
<1> QED BY <1>2, Zenon DEF Next

LEMMA BaseNext == ASSUME Base, DriverCalls, [Next]_vars PROVE Base'
<1>0. TypeOK /\ TodoOK /\ LocalsOK /\ SysOK /\ StaOK /\ ApOK /\ DrvOK /\ QueueOK /\ SeenOK /\ CountsOK
  BY TypeParts DEF Base
<1>1. CASE \E t \in Threads : Moves(t)
  BY <1>1, TypesMoves, MovesTodo DEF Base
<1>2. CASE Restart /\ faults' \in 0..MaxFaults
  BY <1>2, BlankRestart
<1>3. ASSUME NEW t \in Tasks, NEW local \in Locals, NEW call \in Calls[t], Call(t, call, local)
      PROVE  Base'
  <2>1. t \in Threads /\ todo' = [todo EXCEPT ![t] = todo'[t]] /\ Shape(todo'[t])
    BY <1>3, CallTodo DEF Fresh, Threads
  <2>2. TodoOK' /\ Shapes'
    BY <2>1, ShapesExcept
  <2>3. LocalsOK'
    BY <1>0, <1>3 DEF Call, LocalsOK
  <2>4. CountsOK'
    BY <1>0, <1>3, BoundAssumption DEF Call, CountsOK
  <2> QED BY <1>0, <1>3, <2>2, <2>3, <2>4, Kept, TypeParts, Zenon DEF Call, Base
<1>4. CASE Handle
  <2>1. TodoOK' /\ Shapes'
    BY <1>4, HandleTodo, ShapesExcept DEF Reporting, Fresh, Threads
  <2>2. QueueOK'
    BY <1>4, HandleTodo DEF QueueOK
  <2> QED BY <1>0, <1>4, <2>1, <2>2, Kept, TypeParts, Zenon DEF Handle, Base
<1>5. CASE Attempt \/ LinkDown \/ NewAddress
  BY <1>5, NetworkTypes
<1>6. CASE UNCHANGED vars
  BY <1>6 DEF vars, seen, Base, TypeOK, Shapes
<1> QED BY <1>1, <1>2, <1>3, <1>4, <1>5, <1>6, NextIs, Zenon

\* Type correctness of the subsystem, whatever is called in whatever order.
THEOREM WifiTypes == ASSUME DriverCalls PROVE Spec => []TypeOK
<1>1. Base /\ [Next]_vars => Base'
  BY BaseNext
<1>2. Base => TypeOK
  BY DEF Base
<1>3. Init => Base
  BY BlankInit
<1> QED BY <1>1, <1>2, <1>3, PTL DEF Spec

-----------------------------------------------------------------------------
(* The start-up.                                                           *)

\* Where a thread stands tells what it still has to do.
LEMMA HeadSteps ==
  ASSUME Base, NEW t \in Threads
  PROVE  /\ \A x : Has(t, x) <=> x \in In(todo[t])
         /\ \A x : At(t, x) => Has(t, x)
         /\ At(t, "guard") => Has(t, "check")
         /\ At(t, "loop")  => Has(t, "ready") /\ ~Has(t, "check")
         /\ At(t, "ready") => ~Has(t, "check")
         /\ At(t, "wifi")  => ~Has(t, "loop")
<1> DEFINE s == todo[t]
<1>1. Shape(s) /\ s \in Seq(Steps) /\ Len(s) \in Nat
  BY DEF Base, Shapes, Shape
<1>2. \A x : Has(t, x) <=> x \in In(s)
  BY DEF Has, In
<1>3. \A x : At(t, x) => Len(s) >= 1 /\ s[1] = x
  BY <1>1 DEF At
<1>4. \A x : Has(t, x) => \E i \in 1..Len(s) : s[i] = x
  BY DEF Has
<1>4a. \A x : At(t, x) => Has(t, x)
  BY <1>1, <1>3 DEF Has
<1> HIDE DEF s
<1>5. \A i, j \in 1..Len(s) : s[i] = s[j] => i = j
  BY <1>1 DEF Shape
<1>6. \A i \in 1..Len(s) :
        /\ s[i] = "guard" => i + 6 <= Len(s) /\ s[i+1] = "check" /\ s[i+6] = "built"
        /\ s[i] = "check" => i + 4 <= Len(s) /\ s[i+1] = "nvs" /\ s[i+2] = "loop" /\ s[i+3] = "wifi" /\ s[i+4] = "ready"
        /\ s[i] = "loop"  => i + 2 <= Len(s) /\ s[i+1] = "wifi" /\ s[i+2] = "ready"
  BY <1>1 DEF Shape
<1>7. ASSUME At(t, "guard") PROVE Has(t, "check")
  <2>1. 1 \in 1..Len(s) /\ s[1] = "guard"
    BY <1>1, <1>3, <1>7
  <2>2. 2 \in 1..Len(s) /\ s[2] = "check"
    BY <1>1, <1>6, <2>1
  <2> QED BY <2>2 DEF Has, s
<1>8. ASSUME At(t, "loop") PROVE Has(t, "ready") /\ ~Has(t, "check")
  <2>1. 1 \in 1..Len(s) /\ s[1] = "loop"
    BY <1>1, <1>3, <1>8
  <2>2. 3 \in 1..Len(s) /\ s[3] = "ready"
    BY <1>1, <1>6, <2>1
  <2>3. ASSUME NEW i \in 1..Len(s), s[i] = "check" PROVE FALSE
    <3>1. i + 2 \in 1..Len(s) /\ s[i + 2] = "loop"
      BY <1>1, <1>6, <2>3
    <3>2. i + 2 = 1
      BY <1>5, <2>1, <3>1
    <3> QED BY <3>2
  <2> QED BY <1>4, <2>2, <2>3 DEF Has, s
<1>9. ASSUME At(t, "ready"), Has(t, "check") PROVE FALSE
  <2>1. 1 \in 1..Len(s) /\ s[1] = "ready"
    BY <1>1, <1>3, <1>9
  <2>2. PICK i \in 1..Len(s) : s[i] = "check"
    BY <1>4, <1>9
  <2>3. i + 4 \in 1..Len(s) /\ s[i + 4] = "ready"
    BY <1>1, <1>6, <2>2
  <2>4. i + 4 = 1
    BY <1>5, <2>1, <2>3
  <2> QED BY <2>4
<1>10. ASSUME At(t, "wifi"), Has(t, "loop") PROVE FALSE
  <2>1. 1 \in 1..Len(s) /\ s[1] = "wifi"
    BY <1>1, <1>3, <1>10
  <2>2. PICK i \in 1..Len(s) : s[i] = "loop"
    BY <1>4, <1>10
  <2>3. i + 1 \in 1..Len(s) /\ s[i + 1] = "wifi"
    BY <1>1, <1>6, <2>2
  <2>4. i + 1 = 1
    BY <1>5, <2>1, <2>3
  <2> QED BY <2>4
<1> QED BY <1>2, <1>4a, <1>7, <1>8, <1>9, <1>10 DEF s

\* How a step of a thread changes what the threads still have to do.
LEMMA MovesHas ==
  ASSUME Base, NEW t \in Threads, Moves(t)
  PROVE  /\ todo[t] # <<>>
         /\ \A u \in Threads \ {t} : \A x : /\ Has(u, x)' <=> Has(u, x)
                                            /\ At(u, x)' <=> At(u, x)
         /\ \A x \in Steps \ {"lease"} : Has(t, x)' <=> Has(t, x) /\ x \notin Dropped(t)
<1>1. /\ \A u \in Threads \ {t} : todo'[u] = todo[u]
      /\ \A x \in Steps \ {"lease"} : x \in In(todo'[t]) <=> x \in In(todo[t]) /\ x \notin Dropped(t)
      /\ todo[t] # <<>>
  BY MovesTodo
<1>2. \A u \in Threads : \A x : (Has(u, x) <=> x \in In(todo[u])) /\ (Has(u, x)' <=> x \in In(todo'[u]))
  BY DEF Has, In
<1> QED BY <1>1, <1>2 DEF At

\* What a thread's step does to the subsystem's variables.
LEMMA MovesSys ==
  ASSUME Base, NEW t \in Threads, Moves(t)
  PROVE  /\ \/ At(t, "ready") /\ sys'.initialised = TRUE /\ sys'.loop = sys.loop
            \/ At(t, "loop") /\ ~sys.loop /\ sys'.loop = TRUE /\ sys'.initialised = sys.initialised
            \/ ~At(t, "ready") /\ ~At(t, "loop") /\ sys' = sys
         /\ IF At(t, "check")
            THEN rushed' = (rushed \/ (~sys.initialised /\ \E u \in Threads \ {t} : StartingUp(u)))
            ELSE rushed' = rushed
<1>1. sys \in [initialised : BOOLEAN, loop : BOOLEAN]
  BY DEF Base, TypeOK
<1>2. CASE Check(t)
  BY <1>2 DEF Check, At
<1>3. CASE Ready(t)
  BY <1>1, <1>3 DEF Ready, At, seen
<1>4. CASE EventLoopInit(t)
  BY <1>1, <1>4 DEF EventLoopInit, At, seen
<1>5. CASE /\ Nvs(t) \/ NvsErase(t) \/ WifiInit(t) \/ Guard(t) \/ Built(t) \/ GetMode(t) \/ SetMode(t) \/ WifiStart(t)
                \/ SetIp(t) \/ SetIpFails(t) \/ Configure(t) \/ Connect(t) \/ Report(t)
  <2>1. ~At(t, "ready") /\ ~At(t, "loop") /\ ~At(t, "check")
    BY <1>5 DEF At, Nvs, NvsErase, WifiInit, Guard, Built, GetMode, SetMode, WifiStart, SetIp, SetIpFails, Configure,
                Connect, Report, ModeSteps
  <2>2. sys' = sys /\ rushed' = rushed
    BY <1>5 DEF Nvs, NvsErase, WifiInit, Guard, Built, GetMode, SetMode, WifiStart, SetIp, SetIpFails, Configure,
                Connect, Report, seen
  <2> QED BY <2>1, <2>2
<1> QED BY <1>2, <1>3, <1>4, <1>5 DEF Moves

\* One thread at a time starts the subsystem up, and the event loop is made by it.
OneStartUp ==
  ~rushed =>
    /\ \A t, u \in Threads : StartingUp(t) /\ StartingUp(u) => t = u
    /\ \A t \in Threads : sys.initialised => ~StartingUp(t)
    /\ sys.loop /\ ~sys.initialised => \E t \in Threads : StartingUp(t) /\ ~Has(t, "loop")

LEMMA OneStartUpMoves == ASSUME Base, OneStartUp, NEW t \in Threads, Moves(t) PROVE OneStartUp'
<1>1. /\ \A u \in Threads \ {t} : \A x : Has(u, x)' <=> Has(u, x)
      /\ \A u \in Threads \ {t} : StartingUp(u)' <=> StartingUp(u)
  BY MovesHas DEF StartingUp
<1>2. \A x \in {"check", "ready", "loop"} : Has(t, x)' <=> Has(t, x) /\ x \notin Dropped(t)
  BY MovesHas DEF Steps
<1>3. sys.initialised \in BOOLEAN /\ sys.loop \in BOOLEAN /\ rushed \in BOOLEAN
  BY DEF Base, TypeOK
<1>4. CASE At(t, "check")
  <2>1. ~At(t, "ready") /\ ~At(t, "loop") /\ ~At(t, "guard")
    BY <1>4 DEF At
  <2>2. sys' = sys /\ rushed' = (rushed \/ (~sys.initialised /\ \E u \in Threads \ {t} : StartingUp(u)))
    BY <1>4, <2>1, MovesSys
  <2>3. ~StartingUp(t)
    BY <1>4, HeadSteps DEF StartingUp
  <2>4. CASE sys.initialised
    <3>1. ~StartingUp(t)'
      BY <1>2, <1>4, <2>4 DEF Dropped, Boots, StartingUp
    <3> QED BY <1>1, <1>3, <2>2, <2>4, <3>1 DEF OneStartUp
  <2>5. CASE ~sys.initialised
    <3>1. ~rushed' => \A u \in Threads \ {t} : ~StartingUp(u)'
      BY <1>1, <2>2, <2>5
    <3>2. ~rushed' => ~sys.loop
      BY <1>1, <2>2, <2>3, <2>5, <3>1 DEF OneStartUp
    <3> QED BY <1>1, <2>2, <2>5, <3>1, <3>2 DEF OneStartUp
  <2> QED BY <2>4, <2>5
<1>5. CASE At(t, "guard")
  <2>1. ~At(t, "ready") /\ ~At(t, "loop") /\ ~At(t, "check")
    BY <1>5 DEF At
  <2>2. sys' = sys /\ rushed' = rushed
    BY <2>1, MovesSys
  <2>3. ~StartingUp(t)
    BY <1>5, HeadSteps DEF StartingUp
  <2>4. ~StartingUp(t)'
    BY <1>2, <1>5, <2>1, <2>3, HeadSteps DEF Dropped, Boots, StartingUp, At
  <2> QED BY <1>1, <2>2, <2>3, <2>4 DEF OneStartUp
<1>6. CASE ~At(t, "check") /\ ~At(t, "guard")
  <2>1. Dropped(t) = {Head(todo[t])} /\ rushed' = rushed /\ todo[t] # <<>>
    BY <1>6, MovesSys, MovesHas DEF Dropped
  <2>2. ~("check" \in Dropped(t)) /\ \A x \in {"ready", "loop"} : x \in Dropped(t) <=> At(t, x)
    BY <1>6, <2>1 DEF At
  <2>3. CASE At(t, "ready")
    <3>1. StartingUp(t) /\ ~StartingUp(t)' /\ sys'.initialised
      BY <1>2, <2>2, <2>3, MovesSys, HeadSteps DEF StartingUp, At
    <3> QED BY <1>1, <2>1, <3>1 DEF OneStartUp
  <2>4. CASE At(t, "loop")
    <3>1. StartingUp(t) /\ StartingUp(t)' /\ ~Has(t, "loop")' /\ sys'.initialised = sys.initialised
      BY <1>2, <2>2, <2>4, MovesSys, HeadSteps DEF StartingUp, At
    <3> QED BY <1>1, <2>1, <3>1 DEF OneStartUp
  <2>5. CASE ~At(t, "ready") /\ ~At(t, "loop")
    <3>1. sys' = sys /\ (StartingUp(t)' <=> StartingUp(t)) /\ (Has(t, "loop")' <=> Has(t, "loop"))
      BY <1>2, <2>2, <2>5, MovesSys DEF StartingUp
    <3>2. \A u \in Threads : (StartingUp(u)' <=> StartingUp(u)) /\ (Has(u, "loop")' <=> Has(u, "loop"))
      BY <1>1, <3>1
    <3> QED BY <2>1, <3>1, <3>2 DEF OneStartUp
  <2> QED BY <2>3, <2>4, <2>5
<1> QED BY <1>4, <1>5, <1>6

\* A call and a handler start with the test of initialised.
LEMMA FreshHas ==
  ASSUME Base, NEW t \in Threads, todo[t] = <<>>, todo' = [todo EXCEPT ![t] = todo'[t]], Fresh(todo'[t])
  PROVE  /\ \A u \in Threads \ {t} : \A x : /\ Has(u, x)' <=> Has(u, x)
                                            /\ At(u, x)' <=> At(u, x)
         /\ \A x : ~Has(t, x) /\ ~At(t, x)
         /\ \A x : Has(t, x)' <=> x \in In(todo'[t])
         /\ Has(t, "ready")' => Has(t, "check")'
         /\ Has(t, "wifi")' => Has(t, "loop")'
         /\ \A x \in ModeSteps : ~At(t, x)'
<1>1. \A u \in Threads \ {t} : todo'[u] = todo[u]
  BY ShapesExcept DEF Fresh
<1>2. \A u \in Threads : \A x : Has(u, x)' <=> x \in In(todo'[u])
  BY DEF Has, In
<1>3. \A u \in Threads \ {t} : \A x : (Has(u, x)' <=> Has(u, x)) /\ (At(u, x)' <=> At(u, x))
  BY <1>1 DEF Has, At
<1>4. \A x : ~Has(t, x) /\ ~At(t, x)
  BY DEF Has, At
<1>5. \A x \in ModeSteps : ~At(t, x)'
  BY DEF At, Fresh
<1> QED BY <1>2, <1>3, <1>4, <1>5 DEF Fresh

LEMMA OneStartUpNext == ASSUME Base, OneStartUp, DriverCalls, [Next]_vars PROVE OneStartUp'
<1>1. CASE \E t \in Threads : Moves(t)
  BY <1>1, OneStartUpMoves
<1>2. CASE Restart
  BY <1>2 DEF Restart, OneStartUp, StartingUp, Has, SysOff
<1>3. ASSUME NEW t \in Threads, todo[t] = <<>>, todo' = [todo EXCEPT ![t] = todo'[t]], Fresh(todo'[t]),
             UNCHANGED <<sys, rushed>>
      PROVE  OneStartUp'
  <2>1. ~StartingUp(t) /\ ~StartingUp(t)'
    BY <1>3, FreshHas DEF StartingUp
  <2>2. \A u \in Threads \ {t} : (StartingUp(u)' <=> StartingUp(u)) /\ (Has(u, "loop")' <=> Has(u, "loop"))
    BY <1>3, FreshHas DEF StartingUp
  <2> QED BY <1>3, <2>1, <2>2 DEF OneStartUp
<1>4. ASSUME NEW t \in Tasks, NEW local \in Locals, NEW call \in Calls[t], Call(t, call, local)
      PROVE  OneStartUp'
  BY <1>3, <1>4, CallTodo DEF Call, seen, Threads
<1>5. CASE Handle
  BY <1>3, <1>5, HandleTodo DEF Handle, seen, Threads, Reporting
<1>6. CASE Attempt \/ LinkDown \/ NewAddress \/ UNCHANGED vars
  <2>1. UNCHANGED <<todo, sys, rushed>>
    BY <1>6 DEF Attempt, LinkDown, NewAddress, vars, seen
  <2> QED BY <2>1 DEF OneStartUp, StartingUp, Has
<1> QED BY <1>1, <1>2, <1>4, <1>5, <1>6, NextIs, Zenon

\* The event loop is never made twice, which would abort the program, unless two threads
\* were in the start-up together: not by any order of the calls, nor by the handlers.
THEOREM WifiInitOnce == ASSUME DriverCalls PROVE Spec => []InitOnce
<1>1. Base /\ OneStartUp /\ [Next]_vars => Base' /\ OneStartUp'
  BY BaseNext, OneStartUpNext
<1>2. Base /\ OneStartUp => InitOnce
  BY HeadSteps DEF OneStartUp, InitOnce, StartingUp
<1>3. Init => Base /\ OneStartUp
  BY BlankInit DEF Init, OneStartUp, StartingUp, Has, SysOff
<1> QED BY <1>1, <1>2, <1>3, PTL DEF Spec

-----------------------------------------------------------------------------
(* Station and access point share the driver's mode.                       *)

\* The mode a thread is about to act on is the driver's, unless another changed it meanwhile.
ModeRead == \A t \in ToSetMode \ overtaken : drv.init => mode[t] = drv.mode

\* What a step that is not about the mode leaves of it.
SameMode == UNCHANGED <<mode, overtaken>> /\ drv'.init = drv.init /\ (drv.init => drv'.mode = drv.mode)

LEMMA MovesMode ==
  ASSUME Base, NEW t \in Threads, Moves(t)
  PROVE  \/ SameMode /\ ~At(t, "getMode")
         \/ WifiInit(t)
         \/ GetMode(t)
         \/ SetMode(t) /\ drv'.init = drv.init /\ UNCHANGED mode
<1>1. drv \in DrvType /\ TypeOK
  BY TypeParts DEF Base, DrvOK
<1>2. CASE Check(t) \/ Nvs(t) \/ EventLoopInit(t) \/ Ready(t) \/ Guard(t) \/ Built(t) \/ SetIp(t) \/ SetIpFails(t)
           \/ Configure(t) \/ Report(t)
  <2>1. UNCHANGED <<mode, overtaken, drv>>
    BY <1>2 DEF Check, Nvs, EventLoopInit, Ready, Guard, Built, SetIp, SetIpFails, Configure, Report, seen
  <2>2. ~At(t, "getMode")
    BY <1>2 DEF Check, Nvs, EventLoopInit, Ready, Guard, Built, SetIp, SetIpFails, Configure, Report, At
  <2> QED BY <2>1, <2>2 DEF SameMode
<1>3. CASE NvsErase(t) \/ Connect(t)
  <2>1. UNCHANGED <<mode, overtaken>> /\ ~At(t, "getMode")
    BY <1>3 DEF NvsErase, Connect, seen, At
  <2>2. drv'.init = drv.init /\ (drv.init => drv'.mode = drv.mode)
    BY <1>1, <1>3 DEF NvsErase, Connect, DrvType
  <2> QED BY <2>1, <2>2 DEF SameMode
<1>4. CASE WifiStart(t)
  <2>1. UNCHANGED <<mode, overtaken>> /\ ~At(t, "getMode")
    BY <1>4 DEF WifiStart, seen, At
  <2>2. CASE drv.init
    <3> DEFINE d == [drv EXCEPT !.started = TRUE]
    <3>1. d \in DrvType /\ d.link = drv.link /\ d.ip = drv.ip /\ d.mode = drv.mode /\ d.init = drv.init
      BY <1>1 DEF DrvType
    <3>2. Switch(d)
      BY <1>4, <2>2, Zenon DEF WifiStart
    <3> HIDE DEF d
    <3>3. drv'.init = d.init /\ drv'.mode = d.mode
      BY <1>1, <3>1, <3>2, SwitchEffect
    <3> QED BY <2>1, <3>1, <3>3 DEF SameMode
  <2>3. CASE ~drv.init
    BY <1>4, <2>1, <2>3 DEF WifiStart, SameMode
  <2> QED BY <2>2, <2>3
<1>5. CASE SetMode(t)
  <2>1. UNCHANGED mode
    BY <1>5 DEF SetMode
  <2>2. CASE drv.init
    <3>1. PICK step \in ModeSteps : Switch([drv EXCEPT !.mode = NewMode(step, mode[t])])
      BY <1>5, <2>2, Zenon DEF SetMode
    <3>2. NewMode(step, mode[t]) \in Modes
      BY DEF ModeSteps, NewMode, Modes
    <3> DEFINE d == [drv EXCEPT !.mode = NewMode(step, mode[t])]
    <3>3. d \in DrvType /\ d.link = drv.link /\ d.ip = drv.ip /\ d.init = drv.init
      BY <1>1, <3>2 DEF DrvType
    <3>4. Switch(d)
      BY <3>1
    <3> HIDE DEF d
    <3>5. drv'.init = d.init
      BY <1>1, <3>3, <3>4, SwitchEffect
    <3> QED BY <1>5, <2>1, <3>3, <3>5
  <2>3. CASE ~drv.init
    BY <1>5, <2>1, <2>3 DEF SetMode
  <2> QED BY <2>2, <2>3
<1> QED BY <1>2, <1>3, <1>4, <1>5 DEF Moves

\* A thread that is about to set the mode either was already, or has just read it.
LEMMA MovesToSet ==
  ASSUME Base, NEW t \in Threads, Moves(t)
  PROVE  ToSetMode' \subseteq (ToSetMode \ {t}) \cup (IF At(t, "getMode") THEN {t} ELSE {})
<1>1. SUFFICES ASSUME NEW u \in Threads, NEW step \in ModeSteps, At(u, step)'
               PROVE  u \in (ToSetMode \ {t}) \cup (IF At(t, "getMode") THEN {t} ELSE {})
  BY DEF ToSetMode
<1>2. CASE u # t
  BY <1>1, <1>2, MovesHas DEF ToSetMode
<1>3. CASE u = t
  <2>1. todo'[t] \in Seq(Steps) /\ todo'[t] # <<>> /\ Head(todo'[t]) \in ModeSteps
    BY <1>1, <1>3, MovesTodo DEF At
  <2>2. todo'[t][1] \in ModeSteps
    BY <2>1
  <2> QED BY <1>3, <2>1, <2>2, MovesTodo
<1> QED BY <1>2, <1>3

LEMMA ModeReadNext == ASSUME Base, ModeRead, DriverCalls, [Next]_vars PROVE ModeRead'
<1>1. ASSUME NEW t \in Threads, Moves(t) PROVE ModeRead'
  <2>1. ToSetMode' \subseteq (ToSetMode \ {t}) \cup (IF At(t, "getMode") THEN {t} ELSE {})
    BY <1>1, MovesToSet
  <2>2. CASE SameMode /\ ~At(t, "getMode")
    BY <2>1, <2>2 DEF SameMode, ModeRead
  <2>3. CASE WifiInit(t)
    <3>1. ~At(t, "getMode") /\ mode' = mode
      BY <2>3 DEF WifiInit, At
    <3>2. drv'.mode = drv.mode
      BY <2>3 DEF WifiInit, Base, TypeOK
    <3>3. overtaken' = IF drv.init THEN overtaken ELSE overtaken \cup ToSetMode
      BY <2>3 DEF WifiInit
    <3> QED BY <2>1, <3>1, <3>2, <3>3 DEF ModeRead
  <2>4. CASE GetMode(t)
    <3>1. PICK m \in Modes : (drv.init => m = drv.mode) /\ mode' = [mode EXCEPT ![t] = m]
      BY <2>4, Zenon DEF GetMode
    <3>2. drv' = drv /\ overtaken' = overtaken /\ mode \in [Threads -> Modes]
      BY <2>4 DEF GetMode, seen, Base, TypeOK
    <3>3. ASSUME NEW u \in ToSetMode' \ overtaken', drv'.init PROVE mode'[u] = drv'.mode
      <4>1. u \in Threads /\ (u = t \/ u \in ToSetMode \ overtaken)
        BY <2>1, <3>2, <3>3 DEF ToSetMode
      <4> QED BY <3>1, <3>2, <3>3, <4>1 DEF ModeRead
    <3> QED BY <3>3 DEF ModeRead
  <2>5. CASE SetMode(t) /\ drv'.init = drv.init /\ UNCHANGED mode
    <3>1. overtaken' = (IF drv'.mode = drv.mode THEN overtaken ELSE overtaken \cup ToSetMode) \ {t}
      BY <2>5 DEF SetMode
    <3>2. ~At(t, "getMode")
      BY <2>5 DEF SetMode, ModeSteps, At
    <3>3. ASSUME NEW u \in ToSetMode' \ overtaken', drv'.init PROVE mode'[u] = drv'.mode
      <4>1. u \in ToSetMode /\ u # t
        BY <2>1, <3>2, <3>3
      <4>2. u \notin overtaken /\ drv'.mode = drv.mode
        BY <3>1, <3>3, <4>1
      <4> QED BY <2>5, <3>3, <4>1, <4>2 DEF ModeRead
    <3> QED BY <3>3 DEF ModeRead
  <2> QED BY <1>1, <2>2, <2>3, <2>4, <2>5, MovesMode
<1>2. CASE Restart
  BY <1>2 DEF Restart, ModeRead, ToSetMode, At
<1>3. ASSUME NEW t \in Threads, todo[t] = <<>>, todo' = [todo EXCEPT ![t] = todo'[t]], Fresh(todo'[t]),
             UNCHANGED <<mode, drv, overtaken>>
      PROVE  ModeRead'
  <2>1. ToSetMode' \subseteq ToSetMode
    BY <1>3, FreshHas DEF ToSetMode
  <2> QED BY <1>3, <2>1 DEF ModeRead
<1>4. ASSUME NEW t \in Tasks, NEW local \in Locals, NEW call \in Calls[t], Call(t, call, local)
      PROVE  ModeRead'
  BY <1>3, <1>4, CallTodo DEF Call, seen, Threads
<1>5. CASE Handle
  BY <1>3, <1>5, HandleTodo DEF Handle, seen, Threads, Reporting
<1>6. CASE Attempt \/ LinkDown \/ NewAddress \/ UNCHANGED vars
  <2>1. UNCHANGED <<todo, mode, overtaken>>
    BY <1>6 DEF Attempt, LinkDown, NewAddress, vars, seen
  <2>2. drv'.init = drv.init /\ drv'.mode = drv.mode
    BY <1>6 DEF Attempt, LinkDown, NewAddress, vars, Base, TypeOK
  <2> QED BY <2>1, <2>2 DEF ModeRead, ToSetMode, At
<1> QED BY <1>1, <1>2, <1>4, <1>5, <1>6, NextIs, Zenon

\* A step that takes a thread past a mode step is that thread's call of esp_wifi_set_mode.
LEMMA TakesIsSetMode ==
  ASSUME Base, DriverCalls, NEW t \in Threads, NEW step \in ModeSteps, Takes(t, step), Next
  PROVE  SetMode(t)
<1>1. todo \in [Threads -> Seq(Steps)] /\ todo[t] # <<>> /\ Head(todo[t]) = step /\ todo' = [todo EXCEPT ![t] = Tail(@)]
  BY DEF Takes, At, Done, Base, TypeOK
<1>2. Len(todo'[t]) = Len(todo[t]) - 1 /\ Len(todo[t]) \in Nat /\ \A u \in Threads \ {t} : todo'[u] = todo[u]
  BY <1>1
<1>3. todo'[t] # todo[t]
  BY <1>2
<1>4. \A x \in Steps : At(t, x) => x = step
  BY <1>1 DEF At
<1>5. CASE \E u \in Threads : Moves(u)
  <2>1. PICK u \in Threads : Moves(u)
    BY <1>5
  <2>2. u = t
    <3>1. todo'[t] = todo[t] \/ u = t
      BY <2>1, MovesTodo
    <3> QED BY <1>3, <3>1
  <2> QED BY <1>1, <2>1, <2>2 DEF Moves, Check, Nvs, NvsErase, EventLoopInit, WifiInit, Ready, Guard, Built, GetMode,
         WifiStart, SetIp, SetIpFails, Configure, Connect, Report, At, ModeSteps
<1>6. CASE Restart /\ \E u \in Threads : At(u, "loop") \/ At(u, "nvs")
  <2>1. PICK u \in Threads : At(u, "loop") \/ At(u, "nvs")
    BY <1>6
  <2>2. u # t
    BY <1>1, <2>1 DEF At, ModeSteps
  <2>3. todo'[u] = <<>> /\ todo[u] # <<>>
    BY <1>6, <2>1 DEF Restart, At
  <2> QED BY <1>2, <2>2, <2>3
<1>7. ASSUME NEW u \in Threads, todo[u] = <<>>, todo' = [todo EXCEPT ![u] = todo'[u]] PROVE FALSE
  BY <1>1, <1>3, <1>7
<1>8. ASSUME NEW u \in Tasks, NEW local \in Locals, NEW call \in Calls[u], Call(u, call, local)
      PROVE  FALSE
  BY <1>7, <1>8, CallTodo DEF Threads
<1>9. CASE Handle
  BY <1>7, <1>9, HandleTodo DEF Threads
<1>10. CASE Attempt \/ LinkDown \/ NewAddress \/ UNCHANGED vars
  <2>1. todo' = todo
    BY <1>10 DEF Attempt, LinkDown, NewAddress, vars
  <2> QED BY <1>3, <2>1
<1> QED BY <1>5, <1>6, <1>8, <1>9, <1>10, NextIs, Zenon

\* Starting or stopping the station or the access point leaves the other as it is, when
\* nobody changed the mode between its reading and its setting.
THEOREM WifiKeepsOther == ASSUME DriverCalls PROVE Spec => KeepsOther
<1>1. Base /\ ModeRead /\ [Next]_vars => Base' /\ ModeRead'
  BY BaseNext, ModeReadNext
<1>2. Init => Base /\ ModeRead
  BY BlankInit DEF Init, ModeRead, ToSetMode, At
<1> DEFINE Keeps(t) ==
             /\ Takes(t, "addAp") \/ (Takes(t, "dropAp") /\ "AP" \in drv.mode)
                  => ("STA" \in Up(drv)') = ("STA" \in Up(drv))
             /\ Takes(t, "addSta") \/ (Takes(t, "dropSta") /\ "STA" \in drv.mode)
                  => ("AP" \in Up(drv)') = ("AP" \in Up(drv))
<1>3. ASSUME Base, ModeRead, Next, NEW t \in Threads \ overtaken PROVE Keeps(t)
  <2>1. ASSUME NEW step \in ModeSteps, Takes(t, step)
        PROVE  /\ step \in {"addAp", "dropAp"} /\ (step = "dropAp" => "AP" \in drv.mode)
                    => ("STA" \in Up(drv)') = ("STA" \in Up(drv))
               /\ step \in {"addSta", "dropSta"} /\ (step = "dropSta" => "STA" \in drv.mode)
                    => ("AP" \in Up(drv)') = ("AP" \in Up(drv))
    <3>1. SetMode(t)
      BY <1>3, <2>1, TakesIsSetMode
    <3>2. CASE ~drv.init
      BY <3>1, <3>2 DEF SetMode, Up
    <3>3. CASE drv.init
      <4>1. PICK s \in ModeSteps : At(t, s) /\ Switch([drv EXCEPT !.mode = NewMode(s, mode[t])])
        BY <3>1, <3>3, Zenon DEF SetMode
      <4>2. s = step
        BY <2>1, <4>1 DEF Takes, At
      <4>3. mode[t] = drv.mode
        BY <1>3, <2>1, <3>3 DEF ModeRead, ToSetMode, Takes
      <4>4. NewMode(step, drv.mode) \in Modes /\ drv \in DrvType /\ TypeOK
        BY <1>3, TypeParts DEF ModeSteps, NewMode, Modes, Base, DrvOK
      <4> DEFINE d == [drv EXCEPT !.mode = NewMode(step, drv.mode)]
      <4>5. /\ d \in DrvType /\ d.link = drv.link /\ d.ip = drv.ip
            /\ d.started = drv.started /\ d.mode = NewMode(step, drv.mode)
        BY <4>4 DEF DrvType
      <4>6. Switch(d)
        BY <4>1, <4>2, <4>3
      <4> HIDE DEF d
      <4>7. drv'.started = drv.started /\ drv'.mode = NewMode(step, drv.mode)
        BY <4>4, <4>5, <4>6, SwitchEffect
      <4>8. drv.mode \in SUBSET {"STA", "AP"}
        BY <4>4 DEF DrvType, Modes
      <4>9. CASE step = "addAp"
        <5>1. ("STA" \in drv'.mode) <=> ("STA" \in drv.mode)
          BY <4>7, <4>9 DEF NewMode
        <5> QED BY <4>7, <4>9, <5>1 DEF Up
      <4>10. CASE step = "addSta"
        <5>1. ("AP" \in drv'.mode) <=> ("AP" \in drv.mode)
          BY <4>7, <4>10 DEF NewMode
        <5> QED BY <4>7, <4>10, <5>1 DEF Up
      <4>11. CASE step = "dropAp"
        <5>1. "AP" \in drv.mode => (("STA" \in drv'.mode) <=> ("STA" \in drv.mode))
          BY <4>7, <4>8, <4>11 DEF NewMode
        <5> QED BY <4>7, <4>11, <5>1 DEF Up
      <4>12. CASE step = "dropSta"
        <5>1. "STA" \in drv.mode => (("AP" \in drv'.mode) <=> ("AP" \in drv.mode))
          BY <4>7, <4>8, <4>12 DEF NewMode
        <5> QED BY <4>7, <4>12, <5>1 DEF Up
      <4> QED BY <4>9, <4>10, <4>11, <4>12 DEF ModeSteps
    <3> QED BY <3>2, <3>3
  <2> QED BY <2>1 DEF ModeSteps
<1>4. Base /\ ModeRead /\ [Next]_vars => [\A t \in Threads \ overtaken : Keeps(t)]_vars
  BY <1>3
<1> QED BY <1>1, <1>2, <1>4, PTL DEF Spec, KeepsOther

-----------------------------------------------------------------------------
(* What the station object says of the link.                               *)

\* Only the event task reports, and one thing at a time.
OnlyEvents ==
  /\ \A t \in Tasks, x \in Reports : ~Has(t, x)
  /\ ~(Has(EventTask, "setBit") /\ Has(EventTask, "clearBit"))
  /\ ~(Has(EventTask, "setConnected") /\ Has(EventTask, "setDisconnected"))

\* The driver is initialised after the event loop, and quiet before.
LoopFirst == ~sys.loop => ~drv.init /\ \A t \in Threads : Has(t, "wifi") => Has(t, "loop")
Quiet     == ~drv.init => drv.link = "down" /\ queue = <<>> /\ todo[EventTask] = <<>> /\ ~sta.bit
NoIp      == drv.link # "up" => drv.ip = NoAddress

\* What the station object will say when the handler has run to its end.
WillBit       == Has(EventTask, "setBit") \/ (~Has(EventTask, "clearBit") /\ sta.bit)
WillConnected == Has(EventTask, "setConnected") \/ (~Has(EventTask, "setDisconnected") /\ sta.status = "connected")
WillAddress   == IF Has(EventTask, "setAddress") THEN event.ip ELSE sta.address

\* The last event that tells of the link tells it as it is, and without one the handler does.
Told(e) == IF e.id = "gotIp" THEN drv.link = "up" /\ drv.ip = e.ip ELSE drv.link # "up"
Reported ==
  /\ \A i \in 1..Len(queue) :
       queue[i].id # "start" /\ (\A j \in 1..Len(queue) : j > i => queue[j].id = "start") => Told(queue[i])
  /\ (\A i \in 1..Len(queue) : queue[i].id = "start") =>
       /\ WillBit <=> drv.link = "up"
       /\ WillConnected <=> drv.link = "up"
       /\ WillAddress = drv.ip

LinkInv == OnlyEvents /\ LoopFirst /\ Quiet /\ NoIp /\ Reported

LEMMA AppendIs ==
  ASSUME Base, NEW e \in Events
  PROVE  /\ Len(Append(queue, e)) = Len(queue) + 1 /\ Len(queue) \in Nat
         /\ \A i \in 1..Len(queue) : Append(queue, e)[i] = queue[i]
         /\ Append(queue, e)[Len(queue) + 1] = e
<1>1. queue \in Seq(Events)
  BY DEF Base, TypeOK
<1> QED BY <1>1

\* Nothing new of the link.
LEMMA ReportedKept ==
  ASSUME Base, Reported, WillBit' <=> WillBit, WillConnected' <=> WillConnected, WillAddress' = WillAddress,
         drv'.link = "up" <=> drv.link = "up", drv'.ip = drv.ip,
         queue' = queue \/ queue' = Append(queue, StartEvent)
  PROVE  Reported'
<1>2. CASE queue' = queue
  <2>1. \A i \in 1..Len(queue) : Told(queue[i])' <=> Told(queue[i])
    BY <1>2 DEF Told
  <2> QED BY <1>2, <2>1 DEF Reported
<1>3. CASE queue' = Append(queue, StartEvent)
  <2>1. StartEvent \in Events /\ StartEvent.id = "start"
    BY EventsAre DEF StartEvent
  <2>2. /\ Len(queue') = Len(queue) + 1 /\ Len(queue) \in Nat
        /\ \A i \in 1..Len(queue) : i \in 1..Len(queue') /\ queue'[i] = queue[i]
        /\ queue'[Len(queue')].id = "start" /\ \A i \in 1..Len(queue') : i # Len(queue') => i \in 1..Len(queue)
    BY <1>3, <2>1, AppendIs
  <2>3. ASSUME NEW i \in 1..Len(queue'), queue'[i].id # "start",
               \A j \in 1..Len(queue') : j > i => queue'[j].id = "start"
        PROVE  Told(queue[i])'
    <3>1. i \in 1..Len(queue) /\ queue'[i] = queue[i]
      BY <2>2, <2>3
    <3>2. \A j \in 1..Len(queue) : j > i => queue[j].id = "start"
      BY <2>2, <2>3
    <3>3. Told(queue[i])
      BY <2>3, <3>1, <3>2 DEF Reported
    <3> QED BY <3>1, <3>3 DEF Told
  <2>4. (\A i \in 1..Len(queue') : queue'[i].id = "start") => \A i \in 1..Len(queue) : queue[i].id = "start"
    BY <2>2
  <2>5. (\A i \in 1..Len(queue') : queue'[i].id = "start") =>
          (WillBit' <=> drv'.link = "up") /\ (WillConnected' <=> drv'.link = "up") /\ WillAddress' = drv'.ip
    BY <2>4 DEF Reported
  <2> QED BY <2>3, <2>5, Zenon DEF Reported
<1> QED BY <1>2, <1>3

\* The link has changed, and an event says so.
LEMMA ReportedNews ==
  ASSUME Base, NEW e \in Events, e.id # "start", queue' = Append(queue, e), Told(e)'
  PROVE  Reported'
<1>1. /\ Len(queue') = Len(queue) + 1 /\ Len(queue) \in Nat /\ Len(queue') \in 1..Len(queue')
      /\ queue'[Len(queue')] = e /\ \A i \in 1..Len(queue') : i # Len(queue') => Len(queue') > i
  BY AppendIs
<1>2. ASSUME NEW i \in 1..Len(queue'), \A j \in 1..Len(queue') : j > i => queue'[j].id = "start"
      PROVE  Told(queue[i])'
  <2>1. queue'[i] = e
    BY <1>1, <1>2
  <2> QED BY <2>1 DEF Told
<1>3. ~\A i \in 1..Len(queue') : queue'[i].id = "start"
  BY <1>1
<1> QED BY <1>2, <1>3, Zenon DEF Reported

\* A report is dropped from a call only by being made.
LEMMA ReportsDropped ==
  ASSUME NEW t \in Threads, todo[t] # <<>>, NEW x \in Reports
  PROVE  x \in Dropped(t) <=> At(t, x)
BY DEF Dropped, At, Boots, Reports

\* What a step of a thread does to the station object and to the handler.
LEMMA MovesSta ==
  ASSUME Base, NEW t \in Threads, Moves(t)
  PROVE  /\ event' = event
         /\ IF At(t, "setBit") THEN sta'.bit = TRUE
            ELSE IF At(t, "clearBit") \/ (At(t, "loop") /\ ~sys.loop) THEN sta'.bit = FALSE
            ELSE sta'.bit = sta.bit
         /\ IF At(t, "setConnected") THEN sta'.status = "connected"
            ELSE IF At(t, "setDisconnected") THEN sta'.status = "disconnected"
            ELSE sta'.status = sta.status
         /\ IF At(t, "setAddress") THEN sta'.address = event.ip ELSE sta'.address = sta.address
<1>1. sta \in StaType
  BY TypeParts DEF Base, StaOK
<1>2. event' = event
  BY DEF Moves, Check, Nvs, NvsErase, EventLoopInit, WifiInit, Ready, Guard, Built, GetMode, SetMode, WifiStart,
         SetIp, SetIpFails, Configure, Connect, Report
<1>3. CASE Report(t)
  <2>1. CASE At(t, "setBit") /\ sta' = [sta EXCEPT !.bit = TRUE]
    BY <1>1, <1>2, <2>1 DEF At, StaType
  <2>2. CASE At(t, "clearBit") /\ sta' = [sta EXCEPT !.bit = FALSE]
    BY <1>1, <1>2, <2>2 DEF At, StaType
  <2>3. CASE At(t, "setConnected") /\ sta' = [sta EXCEPT !.status = "connected"]
    BY <1>1, <1>2, <2>3 DEF At, StaType
  <2>4. CASE At(t, "setDisconnected") /\ sta' = [sta EXCEPT !.status = "disconnected"]
    BY <1>1, <1>2, <2>4 DEF At, StaType
  <2>5. CASE At(t, "setAddress") /\ sta' = [sta EXCEPT !.address = event.ip]
    BY <1>1, <1>2, <2>5 DEF At, StaType
  <2> QED BY <1>3, <2>1, <2>2, <2>3, <2>4, <2>5, Zenon DEF Report
<1>4. CASE ~Report(t)
  <2>1. /\ ~At(t, "setBit") /\ ~At(t, "clearBit") /\ ~At(t, "setConnected") /\ ~At(t, "setDisconnected")
        /\ ~At(t, "setAddress")
    BY <1>4 DEF Moves, Check, Nvs, NvsErase, EventLoopInit, WifiInit, Ready, Guard, Built, GetMode, SetMode, WifiStart,
         SetIp, SetIpFails, Configure, Connect, At, ModeSteps
  <2>2. CASE EventLoopInit(t)
    BY <1>1, <1>2, <2>1, <2>2 DEF EventLoopInit, At, StaType
  <2>3. CASE Guard(t) \/ Built(t)
    BY <1>1, <1>2, <2>1, <2>3 DEF Guard, Built, At, StaType
  <2>4. CASE /\ Check(t) \/ Nvs(t) \/ NvsErase(t) \/ WifiInit(t) \/ Ready(t) \/ GetMode(t) \/ SetMode(t) \/ WifiStart(t)
                  \/ SetIp(t) \/ SetIpFails(t) \/ Configure(t) \/ Connect(t)
    <3>1. sta' = sta /\ ~At(t, "loop")
      BY <2>4 DEF Check, Nvs, NvsErase, WifiInit, Ready, GetMode, SetMode, WifiStart, SetIp, SetIpFails, Configure,
                  Connect, At, ModeSteps
    <3> QED BY <1>2, <2>1, <3>1
  <2> QED BY <1>4, <2>2, <2>3, <2>4 DEF Moves
<1> QED BY <1>3, <1>4

\* What a step of a thread does to the link.
LEMMA MovesLink ==
  ASSUME Base, NoIp, NEW t \in Threads, Moves(t)
  PROVE  /\ drv'.init = (drv.init \/ At(t, "wifi"))
         /\ \/ /\ drv'.link = "up" <=> drv.link = "up"
               /\ drv'.ip = drv.ip
               /\ queue' = queue \/ queue' = Append(queue, StartEvent)
            \/ drv'.link = "down" /\ drv'.ip = NoAddress /\ queue' = Append(queue, Lost)
         /\ ~drv.init /\ ~At(t, "connect") => drv'.link = drv.link /\ queue' = queue
<1>1. drv \in DrvType /\ TypeOK
  BY TypeParts DEF Base, DrvOK
<1>2. CASE Check(t) \/ Nvs(t) \/ EventLoopInit(t) \/ Ready(t) \/ Guard(t) \/ Built(t) \/ GetMode(t) \/ SetIp(t)
           \/ SetIpFails(t) \/ Configure(t) \/ Report(t)
  <2>1. drv' = drv /\ queue' = queue
    BY <1>2 DEF Check, Nvs, EventLoopInit, Ready, Guard, Built, GetMode, SetIp, SetIpFails, Configure, Report
  <2>2. ~At(t, "wifi")
    BY <1>2 DEF Check, Nvs, EventLoopInit, Ready, Guard, Built, GetMode, SetIp, SetIpFails, Configure, Report, At
  <2> QED BY <1>1, <2>1, <2>2 DEF DrvType
<1>3. CASE NvsErase(t)
  BY <1>1, <1>3 DEF NvsErase, At, DrvType
<1>4. CASE WifiInit(t)
  BY <1>1, <1>4 DEF WifiInit, DrvType
<1>5. CASE Connect(t)
  <2>1. queue' = queue /\ At(t, "connect") /\ ~At(t, "wifi")
    BY <1>5 DEF Connect, At
  <2>2. drv'.init = drv.init /\ drv'.ip = drv.ip /\ (drv'.link = "up" <=> drv.link = "up")
    BY <1>1, <1>5 DEF Connect, DrvType
  <2> QED BY <1>1, <2>1, <2>2 DEF DrvType
<1>6. CASE SetMode(t) \/ WifiStart(t)
  <2>1. ~At(t, "wifi")
    BY <1>6 DEF SetMode, WifiStart, At, ModeSteps
  <2>2. CASE ~drv.init
    BY <1>1, <1>6, <2>1, <2>2 DEF SetMode, WifiStart, DrvType
  <2>3. ASSUME drv.init, NEW d \in DrvType, d.link = drv.link, d.ip = drv.ip, d.init = drv.init, Switch(d)
        PROVE  /\ drv'.init = drv.init
               /\ \/ /\ drv'.link = "up" <=> drv.link = "up"
                     /\ drv'.ip = drv.ip
                     /\ queue' = queue \/ queue' = Append(queue, StartEvent)
                  \/ drv'.link = "down" /\ drv'.ip = NoAddress /\ queue' = Append(queue, Lost)
    <3>1. /\ drv'.init = d.init
          /\ \/ /\ drv'.link = drv.link /\ drv'.ip = drv.ip
                /\ queue' = queue \/ queue' = Append(queue, StartEvent)
             \/ /\ drv'.link = "down" /\ drv'.ip = NoAddress
                /\ queue' = IF drv.link = "down" THEN queue ELSE Append(queue, Lost)
      BY <1>1, <2>3, SwitchEffect
    <3> QED BY <2>3, <3>1 DEF NoIp
  <2>4. CASE drv.init /\ WifiStart(t)
    <3> DEFINE d == [drv EXCEPT !.started = TRUE]
    <3>1. d \in DrvType /\ d.link = drv.link /\ d.ip = drv.ip /\ d.init = drv.init
      BY <1>1 DEF DrvType
    <3>2. Switch(d)
      BY <2>4, Zenon DEF WifiStart
    <3> HIDE DEF d
    <3> QED BY <1>1, <2>1, <2>3, <2>4, <3>1, <3>2 DEF DrvType
  <2>5. CASE drv.init /\ SetMode(t)
    <3>1. PICK step \in ModeSteps : Switch([drv EXCEPT !.mode = NewMode(step, mode[t])])
      BY <2>5, Zenon DEF SetMode
    <3>2. NewMode(step, mode[t]) \in Modes
      BY DEF ModeSteps, NewMode, Modes
    <3> DEFINE d == [drv EXCEPT !.mode = NewMode(step, mode[t])]
    <3>3. d \in DrvType /\ d.link = drv.link /\ d.ip = drv.ip /\ d.init = drv.init
      BY <1>1, <3>2 DEF DrvType
    <3>4. Switch(d)
      BY <3>1
    <3> HIDE DEF d
    <3> QED BY <1>1, <2>1, <2>3, <2>5, <3>3, <3>4 DEF DrvType
  <2> QED BY <1>6, <2>2, <2>4, <2>5
<1> QED BY <1>2, <1>3, <1>4, <1>5, <1>6 DEF Moves

LEMMA OnlyEventsMoves == ASSUME Base, OnlyEvents, NEW t \in Threads, Moves(t) PROVE OnlyEvents'
<1>1. /\ \A u \in Threads \ {t} : \A x : Has(u, x)' <=> Has(u, x)
      /\ \A x \in Reports : Has(t, x)' => Has(t, x)
  BY MovesHas DEF Reports, Steps
<1>2. \A u \in Threads, x \in Reports : Has(u, x)' => Has(u, x)
  BY <1>1
<1> QED BY <1>2 DEF OnlyEvents, Threads, Reports

LEMMA LoopFirstMoves == ASSUME Base, LoopFirst, NoIp, NEW t \in Threads, Moves(t) PROVE LoopFirst'
<1>1. SUFFICES ASSUME ~sys'.loop PROVE ~drv'.init /\ \A u \in Threads : Has(u, "wifi")' => Has(u, "loop")'
  BY DEF LoopFirst
<1>2. ~sys.loop /\ ~At(t, "loop")
  <2>1. ~(At(t, "ready") /\ At(t, "loop"))
    BY DEF At
  <2> QED BY <1>1, <2>1, MovesSys
<1>3. ~drv.init /\ \A u \in Threads : Has(u, "wifi") => Has(u, "loop")
  BY <1>2 DEF LoopFirst
<1>4. ~At(t, "wifi")
  BY <1>3, HeadSteps
<1>5. ~drv'.init
  BY <1>3, <1>4, MovesLink
<1>6. Has(t, "wifi")' => Has(t, "loop")'
  <2>1. \A x \in {"wifi", "loop"} : Has(t, x)' <=> Has(t, x) /\ x \notin Dropped(t)
    BY MovesHas DEF Steps
  <2>2. "loop" \in Dropped(t) => "wifi" \in Dropped(t)
    BY <1>2, MovesHas DEF Dropped, Boots, At
  <2> QED BY <1>3, <2>1, <2>2
<1>7. \A u \in Threads \ {t} : Has(u, "wifi")' => Has(u, "loop")'
  BY <1>3, MovesHas
<1> QED BY <1>5, <1>6, <1>7

LEMMA LinkMoves == ASSUME Base, LinkInv, NEW t \in Threads, Moves(t) PROVE LinkInv'
<1>1. OnlyEvents /\ LoopFirst /\ Quiet /\ NoIp /\ Reported /\ EventTask \in Threads /\ todo[t] # <<>>
  BY MovesHas DEF LinkInv, Threads
<1>2. OnlyEvents' /\ LoopFirst'
  BY <1>1, OnlyEventsMoves, LoopFirstMoves
<1>3. \A x \in Reports : At(t, x) => t = EventTask
  BY <1>1, HeadSteps DEF OnlyEvents, Threads
<1>4. \A x \in Reports : At(EventTask, x) => drv.init
  BY <1>1 DEF Quiet, At
<1>5. Quiet'
  <2>1. SUFFICES ASSUME ~drv'.init
                 PROVE  drv'.link = "down" /\ queue' = <<>> /\ todo'[EventTask] = <<>> /\ ~sta'.bit
    BY DEF Quiet
  <2>2. ~drv.init
    BY <1>1, <2>1, MovesLink
  <2>3. drv.link = "down" /\ queue = <<>> /\ todo[EventTask] = <<>> /\ ~sta.bit /\ t # EventTask
    BY <1>1, <2>2 DEF Quiet
  <2>4. todo'[EventTask] = <<>>
    BY <1>1, <2>3, MovesTodo
  <2>5. \A x \in Reports : ~At(t, x)
    BY <1>3, <2>3
  <2>6. drv'.link = "down" /\ queue' = <<>>
    BY <1>1, <2>2, <2>3, <2>5, MovesLink DEF Reports
  <2>7. ~sta'.bit
    BY <2>3, <2>5, MovesSta DEF Reports
  <2> QED BY <2>4, <2>6, <2>7
<1>6. NoIp'
  BY <1>1, MovesLink DEF NoIp
<1>7. /\ \A x \in Reports : t = EventTask => (Has(EventTask, x)' <=> Has(EventTask, x) /\ ~At(EventTask, x))
      /\ \A x \in Reports : t # EventTask => (Has(EventTask, x)' <=> Has(EventTask, x))
  <2>1. \A x \in Reports : Has(t, x)' <=> Has(t, x) /\ ~At(t, x)
    BY <1>1, MovesHas, ReportsDropped DEF Reports, Steps
  <2> QED BY <1>1, <2>1, MovesHas
<1>8. \A x \in Reports : At(EventTask, x) => Has(EventTask, x)
  BY <1>1, HeadSteps
<1>9. At(t, "loop") /\ ~sys.loop => /\ t # EventTask /\ ~sta.bit
                                    /\ ~Has(EventTask, "setBit") /\ ~Has(EventTask, "clearBit")
  BY <1>1 DEF LoopFirst, Quiet, Has
<1>10. sta.bit \in BOOLEAN /\ sta'.bit \in BOOLEAN
  <2>1. TypeOK'
    BY TypesMoves
  <2> QED BY <2>1 DEF Base, TypeOK
<1>11. WillBit' <=> WillBit
  <2>1. CASE At(t, "setBit")
    <3>1. t = EventTask /\ sta'.bit = TRUE /\ Has(EventTask, "setBit")
      BY <1>3, <1>8, <2>1, MovesSta DEF Reports
    <3>2. ~Has(EventTask, "clearBit")'
      BY <1>1, <1>7, <3>1 DEF OnlyEvents, Reports
    <3> QED BY <3>1, <3>2 DEF WillBit
  <2>2. CASE At(t, "clearBit")
    <3>1. t = EventTask /\ sta'.bit = FALSE /\ Has(EventTask, "clearBit")
      BY <1>3, <1>8, <2>2, MovesSta DEF Reports, At
    <3>2. ~Has(EventTask, "setBit") /\ ~Has(EventTask, "setBit")'
      BY <1>1, <1>7, <3>1 DEF OnlyEvents, Reports
    <3> QED BY <3>1, <3>2 DEF WillBit
  <2>3. CASE ~At(t, "setBit") /\ ~At(t, "clearBit")
    <3>1. \A x \in {"setBit", "clearBit"} : Has(EventTask, x)' <=> Has(EventTask, x)
      BY <1>7, <2>3 DEF Reports
    <3>2. sta'.bit = sta.bit \/ (At(t, "loop") /\ ~sys.loop /\ sta'.bit = FALSE)
      BY <2>3, MovesSta
    <3> QED BY <1>9, <1>10, <3>1, <3>2 DEF WillBit
  <2> QED BY <2>1, <2>2, <2>3
<1>12. WillConnected' <=> WillConnected
  <2>1. CASE At(t, "setConnected")
    <3>1. t = EventTask /\ sta'.status = "connected" /\ Has(EventTask, "setConnected")
      BY <1>3, <1>8, <2>1, MovesSta DEF Reports
    <3>2. ~Has(EventTask, "setDisconnected")'
      BY <1>1, <1>7, <3>1 DEF OnlyEvents, Reports
    <3> QED BY <3>1, <3>2 DEF WillConnected
  <2>2. CASE At(t, "setDisconnected")
    <3>1. t = EventTask /\ sta'.status = "disconnected" /\ Has(EventTask, "setDisconnected")
      BY <1>3, <1>8, <2>2, MovesSta DEF Reports, At
    <3>2. ~Has(EventTask, "setConnected") /\ ~Has(EventTask, "setConnected")'
      BY <1>1, <1>7, <3>1 DEF OnlyEvents, Reports
    <3> QED BY <3>1, <3>2 DEF WillConnected
  <2>3. CASE ~At(t, "setConnected") /\ ~At(t, "setDisconnected")
    <3>1. \A x \in {"setConnected", "setDisconnected"} : Has(EventTask, x)' <=> Has(EventTask, x)
      BY <1>7, <2>3 DEF Reports
    <3>2. sta'.status = sta.status
      BY <2>3, MovesSta
    <3> QED BY <3>1, <3>2 DEF WillConnected
  <2> QED BY <2>1, <2>2, <2>3
<1>13. WillAddress' = WillAddress
  <2>1. event' = event
    BY MovesSta
  <2>2. CASE At(t, "setAddress")
    <3>1. t = EventTask /\ sta'.address = event.ip /\ Has(EventTask, "setAddress")
      BY <1>3, <1>8, <2>2, MovesSta DEF Reports
    <3> QED BY <2>1, <3>1 DEF WillAddress
  <2>3. CASE ~At(t, "setAddress")
    <3>1. Has(EventTask, "setAddress")' <=> Has(EventTask, "setAddress")
      BY <1>7, <2>3 DEF Reports
    <3>2. sta'.address = sta.address
      BY <2>3, MovesSta
    <3> QED BY <2>1, <3>1, <3>2 DEF WillAddress
  <2> QED BY <2>2, <2>3
<1>14. Reported'
  <2>1. CASE /\ drv'.link = "up" <=> drv.link = "up"
             /\ drv'.ip = drv.ip
             /\ queue' = queue \/ queue' = Append(queue, StartEvent)
    BY <1>1, <1>11, <1>12, <1>13, <2>1, ReportedKept
  <2>2. CASE drv'.link = "down" /\ drv'.ip = NoAddress /\ queue' = Append(queue, Lost)
    <3>1. Lost \in Events /\ Lost.id # "start" /\ Told(Lost)'
      BY <2>2, EventsAre DEF Lost, Told
    <3> QED BY <2>2, <3>1, ReportedNews
  <2> QED BY <1>1, <2>1, <2>2, MovesLink
<1> QED BY <1>2, <1>5, <1>6, <1>14 DEF LinkInv

LEMMA LinkBlank == Blank => LinkInv
<1> SUFFICES ASSUME Blank PROVE LinkInv
  OBVIOUS
<1>1. /\ \A t \in Threads : todo[t] = <<>>
      /\ queue = <<>> /\ sta = StaOff /\ sys = SysOff
  BY DEF Blank
<1>2. drv.link = "down" /\ drv.ip = NoAddress /\ drv.init = FALSE
  BY DEF Blank, DrvOff
<1>3. \A t \in Threads : \A x : ~Has(t, x)
  BY <1>1 DEF Has
<1>4. EventTask \in Threads /\ Tasks \subseteq Threads
  BY DEF Threads
<1>5. sta.bit = FALSE /\ sta.status = "idle" /\ sta.address = NoAddress
  BY <1>1 DEF StaOff
<1>6. OnlyEvents /\ LoopFirst /\ Quiet /\ NoIp
  BY <1>1, <1>2, <1>3, <1>4, <1>5 DEF OnlyEvents, LoopFirst, Quiet, NoIp
<1>7. Reported
  BY <1>1, <1>2, <1>3, <1>4, <1>5 DEF Reported, WillBit, WillConnected, WillAddress
<1> QED BY <1>6, <1>7 DEF LinkInv

LEMMA LinkCall ==
  ASSUME Base, LinkInv, DriverCalls, NEW t \in Tasks, NEW local \in Locals, NEW call \in Calls[t], Call(t, call, local)
  PROVE  LinkInv'
<1>1. OnlyEvents /\ LoopFirst /\ Quiet /\ NoIp /\ Reported /\ EventTask \in Threads /\ t \in Threads /\ t # EventTask
  BY EventTaskAssumption DEF LinkInv, Threads
<1>2. todo[t] = <<>> /\ todo' = [todo EXCEPT ![t] = todo'[t]] /\ Fresh(todo'[t]) /\ In(todo'[t]) \cap Reports = {}
  BY CallTodo
<1>3. UNCHANGED <<sys, sta, drv, queue, event>>
  BY DEF Call
<1>4. /\ \A u \in Threads \ {t} : \A x : Has(u, x)' <=> Has(u, x)
      /\ \A x \in Reports : ~Has(t, x)'
      /\ Has(t, "wifi")' => Has(t, "loop")'
  BY <1>1, <1>2, FreshHas
<1>5. todo'[EventTask] = todo[EventTask]
  BY <1>1, <1>2 DEF Base, TypeOK
<1>6. OnlyEvents' /\ LoopFirst' /\ Quiet' /\ NoIp'
  BY <1>1, <1>3, <1>4, <1>5 DEF OnlyEvents, LoopFirst, Quiet, NoIp, Threads
<1>7. (WillBit' <=> WillBit) /\ (WillConnected' <=> WillConnected) /\ WillAddress' = WillAddress
  BY <1>1, <1>3, <1>4 DEF WillBit, WillConnected, WillAddress
<1>8. Reported'
  BY <1>1, <1>3, <1>7, ReportedKept
<1> QED BY <1>6, <1>8 DEF LinkInv

\* The handler will say of the station what its event said of the link.
LEMMA LinkHandle == ASSUME Base, LinkInv, Handle PROVE LinkInv'
<1>1. OnlyEvents /\ LoopFirst /\ Quiet /\ NoIp /\ Reported /\ EventTask \in Threads
  BY DEF LinkInv, Threads
<1>2. /\ todo[EventTask] = <<>> /\ todo' = [todo EXCEPT ![EventTask] = todo'[EventTask]]
      /\ event' = queue[1] /\ event' \in Events /\ queue' = Tail(queue) /\ queue # <<>>
      /\ Reporting(event'.id, todo'[EventTask])
  BY HandleTodo
<1>3. UNCHANGED <<sys, sta, drv>>
  BY DEF Handle
<1>4. /\ \A u \in Threads \ {EventTask} : \A x : Has(u, x)' <=> Has(u, x)
      /\ \A x : ~Has(EventTask, x)
      /\ \A x : Has(EventTask, x)' <=> x \in In(todo'[EventTask])
      /\ Has(EventTask, "wifi")' => Has(EventTask, "loop")'
  BY <1>1, <1>2, FreshHas DEF Reporting
<1>5. /\ \A x \in {"setBit", "setConnected"} : Has(EventTask, x)' <=> event'.id = "gotIp"
      /\ \A x \in {"clearBit", "setDisconnected"} : Has(EventTask, x)' <=> event'.id = "disconnected"
      /\ Has(EventTask, "setAddress")' <=> event'.id # "start"
  BY <1>2, <1>4 DEF Reporting
<1>6. OnlyEvents' /\ LoopFirst' /\ NoIp'
  BY <1>1, <1>3, <1>4, <1>5, EventTaskAssumption DEF OnlyEvents, LoopFirst, NoIp, Threads
<1>7. Quiet'
  BY <1>1, <1>2, <1>3 DEF Quiet
<1>8. /\ Len(queue') = Len(queue) - 1 /\ Len(queue) \in Nat /\ Len(queue) >= 1
      /\ \A i \in 1..Len(queue') : i + 1 \in 1..Len(queue) /\ queue'[i] = queue[i + 1]
      /\ \A i \in 1..Len(queue) : i # 1 => i - 1 \in 1..Len(queue') /\ queue[i] = queue'[i - 1]
  <2>1. queue \in Seq(Events)
    BY DEF Base, TypeOK
  <2>2. /\ Len(queue') = Len(queue) - 1 /\ Len(queue) \in Nat /\ Len(queue) >= 1
        /\ \A i \in 1..Len(queue') : queue'[i] = queue[i + 1]
    BY <1>2, <2>1
  <2>3. \A i \in 1..Len(queue) : i # 1 => i - 1 \in 1..Len(queue') /\ (i - 1) + 1 = i
    BY <2>2
  <2> QED BY <2>2, <2>3
<1>9. ASSUME NEW i \in 1..Len(queue'), queue'[i].id # "start",
             \A j \in 1..Len(queue') : j > i => queue'[j].id = "start"
      PROVE  Told(queue[i])'
  <2>1. i + 1 \in 1..Len(queue) /\ queue'[i] = queue[i + 1]
    BY <1>8
  <2>2. \A j \in 1..Len(queue) : j > i + 1 => queue[j].id = "start"
    <3>1. ASSUME NEW j \in 1..Len(queue), j > i + 1 PROVE queue[j].id = "start"
      <4>1. j - 1 \in 1..Len(queue') /\ queue[j] = queue'[j - 1] /\ j - 1 > i
        BY <1>8, <3>1
      <4> QED BY <1>9, <4>1
    <3> QED BY <3>1
  <2>3. Told(queue[i + 1])
    BY <1>1, <1>9, <2>1, <2>2 DEF Reported
  <2> QED BY <1>3, <2>1, <2>3 DEF Told
<1>10. ASSUME \A i \in 1..Len(queue') : queue'[i].id = "start"
       PROVE  (WillBit' <=> drv'.link = "up") /\ (WillConnected' <=> drv'.link = "up") /\ WillAddress' = drv'.ip
  <2>1. \A j \in 1..Len(queue) : j > 1 => queue[j].id = "start"
    <3>1. ASSUME NEW j \in 1..Len(queue), j > 1 PROVE queue[j].id = "start"
      <4>1. j # 1
        BY <3>1
      <4>2. j - 1 \in 1..Len(queue') /\ queue[j] = queue'[j - 1]
        BY <1>8, <4>1
      <4> QED BY <1>10, <4>2
    <3> QED BY <3>1
  <2>2. 1 \in 1..Len(queue)
    BY <1>8
  <2>3. CASE event'.id = "start"
    <3>1. \A j \in 1..Len(queue) : queue[j].id = "start"
      BY <1>2, <1>8, <2>1, <2>3
    <3>2. (WillBit <=> drv.link = "up") /\ (WillConnected <=> drv.link = "up") /\ WillAddress = drv.ip
      BY <1>1, <3>1 DEF Reported
    <3>3. /\ ~Has(EventTask, "setBit")' /\ ~Has(EventTask, "clearBit")' /\ ~Has(EventTask, "setConnected")'
          /\ ~Has(EventTask, "setDisconnected")' /\ ~Has(EventTask, "setAddress")'
      BY <1>5, <2>3
    <3> QED BY <1>3, <1>4, <3>2, <3>3 DEF WillBit, WillConnected, WillAddress
  <2>4. CASE event'.id # "start"
    <3>1. Told(queue[1])
      BY <1>1, <1>2, <2>1, <2>2, <2>4 DEF Reported
    <3>2. event'.id \in {"disconnected", "gotIp"} /\ (event'.id = "disconnected" => event'.ip = NoAddress)
      BY <1>2, <2>4 DEF Events
    <3>3. CASE event'.id = "gotIp"
      <4>1. drv'.link = "up" /\ drv'.ip = event'.ip
        BY <1>2, <1>3, <3>1, <3>3 DEF Told
      <4>2. Has(EventTask, "setBit")' /\ Has(EventTask, "setConnected")' /\ Has(EventTask, "setAddress")'
        BY <1>5, <3>3
      <4> QED BY <4>1, <4>2 DEF WillBit, WillConnected, WillAddress
    <3>4. CASE event'.id = "disconnected"
      <4>1. drv'.link # "up" /\ drv'.ip = event'.ip
        BY <1>1, <1>2, <1>3, <3>1, <3>2, <3>4 DEF Told, NoIp
      <4>2. /\ ~Has(EventTask, "setBit")' /\ ~Has(EventTask, "setConnected")' /\ Has(EventTask, "setAddress")'
            /\ Has(EventTask, "clearBit")' /\ Has(EventTask, "setDisconnected")'
        BY <1>5, <3>4
      <4> QED BY <4>1, <4>2 DEF WillBit, WillConnected, WillAddress
    <3> QED BY <3>2, <3>3, <3>4
  <2> QED BY <2>3, <2>4
<1>11. Reported'
  BY <1>9, <1>10, Zenon DEF Reported
<1> QED BY <1>6, <1>7, <1>11 DEF LinkInv

LEMMA LinkNetwork == ASSUME Base, LinkInv, Attempt \/ LinkDown \/ NewAddress PROVE LinkInv'
<1>1. OnlyEvents /\ LoopFirst /\ Quiet /\ NoIp /\ drv \in DrvType
  BY TypeParts DEF LinkInv, Base, DrvOK
<1>2. UNCHANGED <<todo, sys, sta, event>>
  BY DEF Attempt, LinkDown, NewAddress
<1>3. drv.init /\ drv'.init = drv.init
  BY <1>1 DEF Attempt, LinkDown, NewAddress, Quiet, DrvType
<1>4. OnlyEvents' /\ LoopFirst' /\ Quiet'
  BY <1>1, <1>2, <1>3 DEF OnlyEvents, LoopFirst, Quiet, Has
<1>5. CASE LinkDown
  <2>1. drv'.link = "down" /\ drv'.ip = NoAddress /\ queue' = Append(queue, Lost)
    BY <1>1, <1>5 DEF LinkDown, DrvType
  <2>2. Lost \in Events /\ Lost.id # "start" /\ Told(Lost)'
    BY <2>1, EventsAre DEF Lost, Told
  <2> QED BY <1>4, <2>1, <2>2, ReportedNews DEF LinkInv, NoIp
<1>6. CASE Attempt \/ NewAddress
  <2>1. PICK a \in Addresses : /\ \/ drv' = [drv EXCEPT !.link = "up", !.ip = a]
                                  \/ drv.link = "up" /\ drv' = [drv EXCEPT !.ip = a]
                               /\ queue' = Append(queue, [id |-> "gotIp", ip |-> a])
    BY <1>6 DEF Attempt, NewAddress
  <2>2. drv'.link = "up" /\ drv'.ip = a
    BY <1>1, <2>1 DEF DrvType
  <2> DEFINE e == [id |-> "gotIp", ip |-> a]
  <2>3. e \in Events /\ e.id # "start" /\ queue' = Append(queue, e)
    BY <2>1, EventsAre
  <2>4. Told(e)'
    BY <2>2 DEF Told
  <2>5. Reported'
    BY <2>3, <2>4, ReportedNews
  <2> QED BY <1>4, <2>2, <2>5 DEF LinkInv, NoIp
<1> QED BY <1>5, <1>6

LEMMA LinkNext == ASSUME Base, LinkInv, DriverCalls, [Next]_vars PROVE LinkInv'
<1>1. CASE Restart /\ faults' \in 0..MaxFaults
  <2>1. Blank'
    BY <1>1, BlankRestart
  <2>2. (Blank => LinkInv)'
    BY LinkBlank, PTL
  <2> QED BY <2>1, <2>2
<1>2. CASE UNCHANGED vars
  <2>1. UNCHANGED <<todo, sys, sta, drv, queue, event>>
    BY <1>2 DEF vars
  <2>2. (WillBit' <=> WillBit) /\ (WillConnected' <=> WillConnected) /\ WillAddress' = WillAddress
    BY <2>1 DEF WillBit, WillConnected, WillAddress, Has
  <2>3. Reported'
    BY <2>1, <2>2, ReportedKept DEF LinkInv
  <2> QED BY <2>1, <2>3 DEF LinkInv, OnlyEvents, LoopFirst, Quiet, NoIp, Has
<1> QED BY <1>1, <1>2, LinkMoves, LinkCall, LinkHandle, LinkNetwork, NextIs, Zenon

\* Once every event is handled the station object, its address and WIFI_CONNECTED say what
\* the driver's link is, however calls, handlers and the network are interleaved.
THEOREM WifiStatusFollowsLink == ASSUME DriverCalls PROVE Spec => []StatusFollowsLink
<1>1. Base /\ LinkInv /\ [Next]_vars => Base' /\ LinkInv'
  BY BaseNext, LinkNext
<1>2. Base /\ LinkInv => StatusFollowsLink
  <2> SUFFICES ASSUME Base, LinkInv, queue = <<>>, todo[EventTask] = <<>>
               PROVE  /\ sta.bit = (drv.link = "up")
                      /\ (sta.status = "connected") = (drv.link = "up")
                      /\ sta.address = drv.ip
    BY DEF StatusFollowsLink
  <2>1. \A x : ~Has(EventTask, x)
    BY DEF Has
  <2>2. (WillBit <=> drv.link = "up") /\ (WillConnected <=> drv.link = "up") /\ WillAddress = drv.ip
    BY DEF LinkInv, Reported
  <2>3. sta.bit \in BOOLEAN
    BY DEF Base, TypeOK
  <2> QED BY <2>1, <2>2, <2>3 DEF WillBit, WillConnected, WillAddress
<1>3. Init => Base /\ LinkInv
  BY BlankInit, LinkBlank
<1> QED BY <1>1, <1>2, <1>3, PTL DEF Spec

-----------------------------------------------------------------------------
(* The access point's address and the range it leases.                     *)

\* The access point is configured by one task.
OneConfigurer == \A t, u \in Tasks : "ap.config" \in Calls[t] /\ "ap.config" \in Calls[u] => t = u

Configuring(t) == \E x \in ConfigSteps : Has(t, x)
Consistent     == ap.lease # NoLease => ap.ip \notin ap.lease.first..ap.lease.last

\* The range is set right after the address, while the DHCP server is stopped.
LeaseInv ==
  /\ \A t \in Threads : Configuring(t) => t \in Tasks /\ "ap.config" \in Calls[t]
  /\ \A t \in Threads : Has(t, "lease") => At(t, "lease") /\ ap.ip = arg[t] /\ ~ap.dhcps
  /\ Consistent \/ \E t \in Threads : Has(t, "lease")

\* A range that wraps around in its byte is empty or starts at 0, and never holds the address.
LEMMA LeaseRangeExcludes ==
  ASSUME NEW x \in 0..255
  PROVE  x \notin LeaseRange(x).first..LeaseRange(x).last
<1>1. CASE x <= 244
  <2>1. (x + 1) % 256 = x + 1 /\ (x + 11) % 256 = x + 11
    BY <1>1
  <2> QED BY <2>1 DEF LeaseRange
<1>2. CASE x > 244 /\ x < 255
  <2>1. (x + 1) % 256 = x + 1 /\ (x + 11) % 256 = x - 245
    BY <1>2
  <2> QED BY <1>2, <2>1 DEF LeaseRange
<1>3. CASE x = 255
  <2>1. (x + 1) % 256 = 0 /\ (x + 11) % 256 = 10
    BY <1>3
  <2> QED BY <1>3, <2>1 DEF LeaseRange
<1> QED BY <1>1, <1>2, <1>3

\* What a step of a thread does to the access point.
LEMMA MovesAp ==
  ASSUME Base, NEW t \in Threads, Moves(t)
  PROVE  /\ arg' = arg
         /\ SetIp(t) => At(t, "setIp") /\ ap'.ip = arg[t] /\ ~ap'.dhcps
         /\ At(t, "lease") => ap'.ip = ap.ip /\ ap'.lease = LeaseRange(arg[t])
         /\ ~SetIp(t) /\ ~At(t, "lease") => ap'.ip = ap.ip /\ ap'.lease = ap.lease
         /\ (\A x \in ConfigSteps : ~At(t, x)) => ap' = ap
<1>1. ap \in ApType
  BY TypeParts DEF Base, ApOK
<1>2. arg' = arg
  BY DEF Moves, Check, Nvs, NvsErase, EventLoopInit, WifiInit, Ready, Guard, Built, GetMode, SetMode, WifiStart,
         SetIp, SetIpFails, Configure, Connect, Report
<1>3. CASE SetIp(t)
  BY <1>1, <1>2, <1>3 DEF SetIp, At, ApType, ConfigSteps
<1>4. CASE Configure(t)
  <2>1. ~SetIp(t)
    BY <1>4 DEF SetIp, Configure, At
  <2>2. CASE At(t, "dhcpStop") /\ ap' = [ap EXCEPT !.dhcps = FALSE]
    BY <1>1, <1>2, <2>1, <2>2 DEF At, ApType, ConfigSteps
  <2>3. CASE At(t, "lease") /\ ap' = [ap EXCEPT !.lease = LeaseRange(arg[t])]
    BY <1>1, <1>2, <2>1, <2>3 DEF At, ApType, ConfigSteps
  <2>4. CASE At(t, "dhcpStart") /\ ap' = [ap EXCEPT !.dhcps = TRUE]
    BY <1>1, <1>2, <2>1, <2>4 DEF At, ApType, ConfigSteps
  <2>5. CASE At(t, "store") /\ ap' = [ap EXCEPT !.local = arg[t]]
    BY <1>1, <1>2, <2>1, <2>5 DEF At, ApType, ConfigSteps
  <2> QED BY <1>4, <2>2, <2>3, <2>4, <2>5, Zenon DEF Configure
<1>5. CASE ~SetIp(t) /\ ~Configure(t)
  <2>1. ap' = ap /\ ~At(t, "lease")
    BY <1>5 DEF Moves, Check, Nvs, NvsErase, EventLoopInit, WifiInit, Ready, Guard, Built, GetMode, SetMode, WifiStart,
         SetIpFails, Connect, Report, At, ModeSteps
  <2> QED BY <1>2, <1>5, <2>1
<1> QED BY <1>3, <1>4, <1>5

LEMMA LeaseMoves == ASSUME Base, LeaseInv, OneConfigurer, NEW t \in Threads, Moves(t) PROVE LeaseInv'
<1>1. /\ \A u \in Threads \ {t} : \A x : (Has(u, x)' <=> Has(u, x)) /\ (At(u, x)' <=> At(u, x))
      /\ \A x \in Steps \ {"lease"} : Has(t, x)' => Has(t, x)
  BY MovesHas
<1>2. IF SetIp(t) THEN At(t, "lease")' /\ Has(t, "lease")' ELSE Has(t, "lease")' => Has(t, "lease") /\ ~At(t, "lease")
  <2>1. IF SetIp(t) THEN At(t, "lease")' ELSE "lease" \in In(todo'[t]) => "lease" \in In(todo[t]) /\ ~At(t, "lease")
    BY MovesTodo
  <2>2. (Has(t, "lease")' <=> "lease" \in In(todo'[t])) /\ (Has(t, "lease") <=> "lease" \in In(todo[t]))
    BY DEF Has, In
  <2>3. At(t, "lease")' => Has(t, "lease")'
    <3>1. todo'[t] \in Seq(Steps)
      BY MovesTodo
    <3> QED BY <3>1 DEF At, Has
  <2> QED BY <2>1, <2>2, <2>3
<1>3. \A u \in Threads, x \in ConfigSteps : At(u, x) => Configuring(u)
  BY HeadSteps DEF Configuring
<1>4. /\ \A u \in Threads : Configuring(u) => u \in Tasks /\ "ap.config" \in Calls[u]
      /\ \A u \in Threads : Has(u, "lease") => Configuring(u) /\ At(u, "lease") /\ ap.ip = arg[u] /\ ~ap.dhcps
  BY DEF LeaseInv, Configuring, ConfigSteps
<1>5. \A u \in Threads \ {t} : Configuring(t) => ~Has(u, "lease")
  BY <1>4 DEF OneConfigurer
<1>6. \A u \in Threads : Configuring(u)' => u \in Tasks /\ "ap.config" \in Calls[u]
  <2>1. \A u \in Threads \ {t} : Configuring(u)' => Configuring(u)
    BY <1>1 DEF Configuring
  <2>2. Configuring(t)' => Configuring(t)
    <3>1. SUFFICES ASSUME NEW x \in ConfigSteps, Has(t, x)' PROVE Configuring(t)
      BY DEF Configuring
    <3>2. CASE x = "lease"
      <4>1. SetIp(t) => At(t, "setIp")
        BY DEF SetIp
      <4> QED BY <1>2, <1>3, <1>4, <3>1, <3>2, <4>1 DEF ConfigSteps
    <3>3. CASE x # "lease"
      <4>1. Has(t, x)
        BY <1>1, <3>1, <3>3 DEF ConfigSteps, Steps
      <4> QED BY <4>1 DEF Configuring
    <3> QED BY <3>2, <3>3
  <2> QED BY <1>4, <2>1, <2>2
<1>7. arg' = arg
  BY MovesAp
<1>8. CASE At(t, "lease")
  <2>1. Configuring(t) /\ ~SetIp(t) /\ ap.ip = arg[t]
    BY <1>3, <1>4, <1>8, HeadSteps DEF ConfigSteps, SetIp, At
  <2>2. \A u \in Threads : ~Has(u, "lease")'
    BY <1>1, <1>2, <1>5, <1>8, <2>1
  <2>3. ap'.ip = arg[t] /\ ap'.lease = LeaseRange(arg[t])
    BY <1>8, <2>1, MovesAp
  <2>4. arg[t] \in 0..255
    <3>1. arg[t] \in Locals \cup {0}
      BY DEF Base, TypeOK
    <3>2. \A x \in Locals \cup {0} : x \in 0..255
      BY LocalAssumption
    <3> QED BY <3>1, <3>2
  <2>5. Consistent'
    BY <2>3, <2>4, LeaseRangeExcludes DEF Consistent
  <2> QED BY <1>6, <2>2, <2>5 DEF LeaseInv
<1>9. CASE SetIp(t)
  <2>1. Configuring(t) /\ At(t, "lease")' /\ Has(t, "lease")' /\ ap'.ip = arg[t] /\ ~ap'.dhcps
    BY <1>2, <1>3, <1>9, MovesAp DEF ConfigSteps
  <2>2. \A u \in Threads \ {t} : ~Has(u, "lease")'
    BY <1>1, <1>5, <2>1
  <2> QED BY <1>6, <1>7, <2>1, <2>2 DEF LeaseInv
<1>10. CASE ~At(t, "lease") /\ ~SetIp(t)
  <2>1. ~Has(t, "lease") /\ ~Has(t, "lease")'
    BY <1>2, <1>4, <1>10
  <2>2. ap'.ip = ap.ip /\ ap'.lease = ap.lease /\ (~Configuring(t) => ap' = ap)
    BY <1>3, <1>10, MovesAp
  <2>3. ASSUME NEW u \in Threads, Has(u, "lease")'
        PROVE  Has(u, "lease") /\ At(u, "lease")' /\ ap'.ip = arg'[u] /\ ~ap'.dhcps
    <3>1. u # t /\ Has(u, "lease") /\ At(u, "lease") /\ At(u, "lease")' /\ ap.ip = arg[u] /\ ~ap.dhcps
      BY <1>1, <1>4, <2>1, <2>3
    <3>2. ap' = ap
      BY <1>5, <2>2, <3>1
    <3> QED BY <1>7, <3>1, <3>2
  <2>4. Consistent' \/ \E u \in Threads : Has(u, "lease")'
    <3>1. CASE Consistent
      BY <2>2, <3>1 DEF Consistent
    <3>2. CASE \E u \in Threads : Has(u, "lease")
      BY <1>1, <2>1, <3>2
    <3> QED BY <3>1, <3>2 DEF LeaseInv
  <2> QED BY <1>6, <2>3, <2>4 DEF LeaseInv
<1> QED BY <1>8, <1>9, <1>10

\* A call that has only begun has not set the address.
LEMMA LeaseFresh ==
  ASSUME Base, LeaseInv, NEW t \in Threads, todo[t] = <<>>, todo' = [todo EXCEPT ![t] = todo'[t]], Fresh(todo'[t]),
         In(todo'[t]) \cap ConfigSteps # {} => t \in Tasks /\ "ap.config" \in Calls[t],
         ap' = ap, \A u \in Threads \ {t} : arg'[u] = arg[u]
  PROVE  LeaseInv'
<1>1. /\ \A u \in Threads \ {t} : \A x : (Has(u, x)' <=> Has(u, x)) /\ (At(u, x)' <=> At(u, x))
      /\ \A x : ~Has(t, x)
      /\ \A x : Has(t, x)' <=> x \in In(todo'[t])
  BY FreshHas
<1>2. ~Has(t, "lease")'
  BY <1>1 DEF Fresh
<1>3. Configuring(t)' => t \in Tasks /\ "ap.config" \in Calls[t]
  BY <1>1 DEF Configuring
<1>4. \A u \in Threads : Configuring(u)' => u \in Tasks /\ "ap.config" \in Calls[u]
  BY <1>1, <1>3 DEF Configuring, LeaseInv
<1>5. \A u \in Threads : Has(u, "lease")' => At(u, "lease")' /\ ap'.ip = arg'[u] /\ ~ap'.dhcps
  BY <1>1, <1>2 DEF LeaseInv
<1>6. Consistent' \/ \E u \in Threads : Has(u, "lease")'
  BY <1>1 DEF LeaseInv, Consistent
<1> QED BY <1>4, <1>5, <1>6 DEF LeaseInv

LEMMA LeaseBlank == Blank => LeaseInv
<1> SUFFICES ASSUME Blank PROVE LeaseInv
  OBVIOUS
<1>1. \A t \in Threads : \A x : ~Has(t, x)
  BY DEF Blank, Has
<1>2. ap.lease = NoLease
  BY DEF Blank, ApOff
<1> QED BY <1>1, <1>2 DEF LeaseInv, Configuring, Consistent

LEMMA LeaseNext == ASSUME Base, LeaseInv, DriverCalls, OneConfigurer, [Next]_vars PROVE LeaseInv'
<1>1. CASE Restart /\ faults' \in 0..MaxFaults
  <2>1. Blank'
    BY <1>1, BlankRestart
  <2>2. (Blank => LeaseInv)'
    BY LeaseBlank, PTL
  <2> QED BY <2>1, <2>2
<1>2. ASSUME NEW t \in Tasks, NEW local \in Locals, NEW call \in Calls[t], Call(t, call, local)
      PROVE  LeaseInv'
  <2>1. /\ t \in Threads /\ todo[t] = <<>> /\ todo' = [todo EXCEPT ![t] = todo'[t]] /\ Fresh(todo'[t])
        /\ call # "ap.config" => In(todo'[t]) \cap ConfigSteps = {}
    BY <1>2, CallTodo DEF Threads
  <2>2. ap' = ap /\ \A u \in Threads \ {t} : arg'[u] = arg[u]
    BY <1>2 DEF Call, Base, TypeOK
  <2>3. In(todo'[t]) \cap ConfigSteps # {} => t \in Tasks /\ "ap.config" \in Calls[t]
    BY <2>1
  <2> QED BY <2>1, <2>2, <2>3, LeaseFresh
<1>3. CASE Handle
  <2>1. /\ EventTask \in Threads /\ todo[EventTask] = <<>> /\ todo' = [todo EXCEPT ![EventTask] = todo'[EventTask]]
        /\ Fresh(todo'[EventTask]) /\ In(todo'[EventTask]) \cap ConfigSteps = {}
    BY <1>3, HandleTodo DEF Threads, Reporting
  <2>2. ap' = ap /\ arg' = arg
    BY <1>3 DEF Handle
  <2> QED BY <2>1, <2>2, LeaseFresh
<1>4. CASE Attempt \/ LinkDown \/ NewAddress \/ UNCHANGED vars
  <2>1. UNCHANGED <<todo, arg, ap>>
    BY <1>4 DEF Attempt, LinkDown, NewAddress, vars
  <2> QED BY <2>1 DEF LeaseInv, Configuring, Consistent, Has, At
<1> QED BY <1>1, <1>2, <1>3, <1>4, LeaseMoves, NextIs, Zenon

\* The DHCP server never runs with a range that holds the access point's own address, when
\* one task configures it, whatever fails and whatever address it is given.
THEOREM WifiLeaseExcludesSelf == ASSUME DriverCalls, OneConfigurer PROVE Spec => []LeaseExcludesSelf
<1>1. Base /\ LeaseInv /\ [Next]_vars => Base' /\ LeaseInv'
  BY BaseNext, LeaseNext
<1>2. LeaseInv => LeaseExcludesSelf
  BY DEF LeaseInv, Consistent, LeaseExcludesSelf
<1>3. Init => Base /\ LeaseInv
  BY BlankInit, LeaseBlank
<1> QED BY <1>1, <1>2, <1>3, PTL DEF Spec
=============================================================================
