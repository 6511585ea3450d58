-------------------------------- MODULE Wifi --------------------------------
(***************************************************************************)
(* The WiFi subsystem: esp32_wifi.c, and the station and access point      *)
(* objects of esp32_sta.cpp and esp32_ap.cpp.  Tasks call the two objects; *)
(* the event task of ESP-IDF runs wifi_event_handler on the events that    *)
(* the WiFi driver posts.  Each thread executes its call or its handler    *)
(* one step at a time.                                                     *)
(***************************************************************************)
EXTENDS Integers, Sequences

CONSTANTS
  Tasks,       \* the tasks that use the station and the access point
  EventTask,   \* the task that runs wifi_event_handler
  Calls,       \* Calls[t]: the names of the calls t makes
  Addresses,   \* the addresses a DHCP server gives to the station
  NoAddress,   \* IPAddress(0)
  Locals,      \* the last octets of the addresses given to the access point
  MaxCalls,    \* bound on the calls made
  MaxFaults    \* bound on the faults of the network and the flash

ASSUME EventTaskAssumption == EventTask \notin Tasks
ASSUME AddressAssumption   == NoAddress \notin Addresses
ASSUME LocalAssumption     == Locals \subseteq 0..255
ASSUME BoundAssumption     == MaxCalls \in Nat /\ MaxFaults \in Nat

Threads == Tasks \cup {EventTask}
Modes   == SUBSET {"STA", "AP"}   \* WIFI_MODE_NULL, STA, AP, APSTA
Events  == [id : {"start", "disconnected"}, ip : {NoAddress}] \cup [id : {"gotIp"}, ip : Addresses]

VARIABLES
  todo,   \* the steps left of the call or handler each thread runs
  arg,    \* the argument of that call (an access point address)
  mode,   \* the local variable wifi_mode_t mode of that call
  sys,    \* initialised, and whether the event loop and the driver are
  sta,    \* the WifiStation object, the guard of instance() and WIFI_CONNECTED
  ap,     \* the WifiAccessPoint's address, the interface's, the DHCP server
  drv,    \* the WiFi driver: mode (kept in flash), started, link of the station
  queue,  \* the events posted and not yet handled
  event,  \* the event being handled
  rushed,    \* two threads were in the subsystem's start-up together
  overtaken, \* the threads whose mode another has changed, or made valid, since they read it
  calls, faults

seen == <<rushed, overtaken>>
vars == <<todo, arg, mode, sys, sta, ap, drv, queue, event, seen, calls, faults>>

-----------------------------------------------------------------------------
(* The functions, as sequences of steps.                                   *)

\* A subsystem that does not look at initialised.
CarelessInit == <<"nvs", "nvs", "loop", "wifi", "ready">>

esp32_wifi_subsys_init == <<"check", "nvs", "loop", "wifi", "ready">>

\* WifiStation::instance(): a local static, which the first call constructs.
Instance == <<"guard">> \o esp32_wifi_subsys_init \o <<"built">>

Program(call) ==
  CASE call = "connectTo"   -> Instance \o <<"getMode", "addSta", "start">>
    [] call = "disconnect"  -> Instance \o <<"getMode", "dropSta">>
    [] call = "ap.start"    -> esp32_wifi_subsys_init
    [] call = "ap.begin"    -> <<"getMode", "addAp", "start">>
    [] call = "ap.config"   -> <<"start", "dhcpStop", "setIp", "dhcpStart", "store">>
    [] call = "ap.stop"     -> <<"getMode", "dropAp">>

\* A handler that does not connect again, and one that leaves the address.
GiveUpHandler(id) ==
  CASE id = "start"         -> <<"connect">>
    [] id = "gotIp"         -> <<"setBit">> \o Instance \o <<"setConnected", "setAddress">>
    [] id = "disconnected"  -> <<"clearBit">> \o Instance \o <<"setDisconnected", "setAddress">>
StaleHandler(id) ==
  CASE id = "start"         -> <<"connect">>
    [] id = "gotIp"         -> <<"setBit">> \o Instance \o <<"setConnected", "setAddress">>
    [] id = "disconnected"  -> <<"connect", "clearBit">> \o Instance \o <<"setDisconnected">>

Handler(id) ==
  CASE id = "start"         -> <<"connect">>
    [] id = "gotIp"         -> <<"setBit">> \o Instance \o <<"setConnected", "setAddress">>
    [] id = "disconnected"  -> <<"connect", "clearBit">> \o Instance \o <<"setDisconnected", "setAddress">>

-----------------------------------------------------------------------------
(* State.                                                                  *)

SysOff == [initialised |-> FALSE, loop |-> FALSE]
StaOff == [guard |-> "no", status |-> "idle", address |-> NoAddress, bit |-> FALSE]
NoLease == [first |-> 0, last |-> 0]
ApOff  == [local |-> 0, ip |-> 0, dhcps |-> TRUE, lease |-> NoLease]
DrvOff(m) == [init |-> FALSE, started |-> FALSE, mode |-> m, link |-> "down", ip |-> NoAddress]

Steps == {"check", "nvs", "loop", "wifi", "ready", "guard", "built", "getMode", "addSta", "dropSta",
          "addAp", "dropAp", "start", "dhcpStop", "setIp", "lease", "dhcpStart", "store",
          "connect", "setBit", "clearBit", "setConnected", "setDisconnected", "setAddress"}

TypeOK ==
  /\ todo \in [Threads -> Seq(Steps)]
  /\ arg \in [Threads -> Locals \cup {0}]
  /\ mode \in [Threads -> Modes]
  /\ sys \in [initialised : BOOLEAN, loop : BOOLEAN]
  /\ sta \in [guard : {"no", "busy", "done"}, status : {"idle", "connected", "disconnected"},
              address : Addresses \cup {NoAddress}, bit : BOOLEAN]
  /\ ap \in [local : Locals \cup {0}, ip : Locals \cup {0}, dhcps : BOOLEAN,
             lease : [first : 0..255, last : 0..255]]
  /\ drv \in [init : BOOLEAN, started : BOOLEAN, mode : Modes, link : {"down", "connecting", "up"},
              ip : Addresses \cup {NoAddress}]
  /\ queue \in Seq(Events)
  /\ event \in Events
  /\ rushed \in BOOLEAN /\ overtaken \subseteq Threads
  /\ calls \in 0..MaxCalls
  /\ faults \in 0..MaxFaults

StartEvent == [id |-> "start", ip |-> NoAddress]
Lost       == [id |-> "disconnected", ip |-> NoAddress]

\* The driver may find any mode in flash.
Init ==
  /\ todo = [t \in Threads |-> <<>>]
  /\ arg  = [t \in Threads |-> 0]
  /\ mode = [t \in Threads |-> {}]
  /\ sys = SysOff
  /\ sta = StaOff
  /\ ap = ApOff
  /\ \E m \in Modes : drv = DrvOff(m)
  /\ queue = <<>>
  /\ event = StartEvent
  /\ rushed = FALSE /\ overtaken = {}
  /\ calls = 0
  /\ faults = 0

\* abort(): the chip restarts, and only the flash survives.
Restart ==
  /\ todo' = [t \in Threads |-> <<>>]
  /\ arg'  = [t \in Threads |-> 0]
  /\ mode' = [t \in Threads |-> {}]
  /\ sys' = SysOff
  /\ sta' = StaOff
  /\ ap' = ApOff
  /\ drv' = DrvOff(drv.mode)
  /\ queue' = <<>>
  /\ event' = StartEvent
  /\ rushed' = FALSE /\ overtaken' = {}
  /\ UNCHANGED calls

At(t, step) == todo[t] # <<>> /\ Head(todo[t]) = step
Done(t)     == todo' = [todo EXCEPT ![t] = Tail(@)]
Leave(t, n) == todo' = [todo EXCEPT ![t] = SubSeq(@, n + 1, Len(@))]
Takes(t, step) == At(t, step) /\ Done(t)
Has(t, step) == \E i \in 1..Len(todo[t]) : todo[t][i] = step

\* Threads past the test of initialised, and threads that are about to set the mode.
StartingUp(t) == Has(t, "ready") /\ ~Has(t, "check")
ModeSteps     == {"addSta", "dropSta", "addAp", "dropAp"}
ToSetMode     == {t \in Threads : \E step \in ModeSteps : At(t, step)}

-----------------------------------------------------------------------------
(* Calls.                                                                  *)

Call(t, call, local) ==
  /\ todo[t] = <<>>
  /\ call = "ap.config" => sys.initialised
  /\ calls < MaxCalls
  /\ todo' = [todo EXCEPT ![t] = Program(call)]
  /\ arg' = [arg EXCEPT ![t] = IF call = "ap.config" THEN local ELSE 0]
  /\ calls' = calls + 1
  /\ UNCHANGED <<mode, sys, sta, ap, drv, queue, event, seen, faults>>

\* if(initialised) return
Check(t) ==
  /\ At(t, "check")
  /\ IF sys.initialised THEN Leave(t, 5) ELSE Done(t)
  /\ rushed' = (rushed \/ (~sys.initialised /\ \E u \in Threads \ {t} : StartingUp(u)))
  /\ UNCHANGED <<arg, mode, sys, sta, ap, drv, queue, event, overtaken, calls, faults>>

\* nvs_flash_init()
Nvs(t) ==
  /\ At(t, "nvs")
  /\ Done(t)
  /\ UNCHANGED <<arg, mode, sys, sta, ap, drv, queue, event, seen, calls, faults>>

\* ESP_ERR_NVS_NO_FREE_PAGES: the flash is erased, the mode with it.
NvsErase(t) ==
  /\ At(t, "nvs")
  /\ ~drv.init
  /\ faults < MaxFaults
  /\ faults' = faults + 1
  /\ \E m \in Modes : drv' = [drv EXCEPT !.mode = m]
  /\ Done(t)
  /\ UNCHANGED <<arg, mode, sys, sta, ap, queue, event, seen, calls>>

NvsFails(t) ==
  /\ At(t, "nvs")
  /\ faults < MaxFaults
  /\ faults' = faults + 1
  /\ Restart

\* wifi_events = xEventGroupCreate() ... ESP_ERROR_CHECK(esp_event_loop_init(...)),
\* which fails when there is a loop already.
EventLoopInit(t) ==
  /\ At(t, "loop")
  /\ ~sys.loop
  /\ sys' = [sys EXCEPT !.loop = TRUE]
  /\ sta' = [sta EXCEPT !.bit = FALSE]
  /\ Done(t)
  /\ UNCHANGED <<arg, mode, ap, drv, queue, event, seen, calls, faults>>

EventLoopFails(t) ==
  /\ At(t, "loop")
  /\ sys.loop
  /\ Restart
  /\ UNCHANGED faults

WifiInit(t) ==
  /\ At(t, "wifi")
  /\ drv' = [drv EXCEPT !.init = TRUE]
  /\ overtaken' = IF drv.init THEN overtaken ELSE overtaken \cup ToSetMode
  /\ Done(t)
  /\ UNCHANGED <<arg, mode, sys, sta, ap, queue, event, rushed, calls, faults>>

\* initialised = true
Ready(t) ==
  /\ At(t, "ready")
  /\ sys' = [sys EXCEPT !.initialised = TRUE]
  /\ Done(t)
  /\ UNCHANGED <<arg, mode, sta, ap, drv, queue, event, seen, calls, faults>>

\* The first caller of instance() constructs the station, the others wait for it.
Guard(t) ==
  /\ At(t, "guard")
  /\ sta.guard # "busy"
  /\ IF sta.guard = "done" THEN Leave(t, Len(Instance)) ELSE Done(t)
  /\ sta' = [sta EXCEPT !.guard = IF @ = "no" THEN "busy" ELSE @]
  /\ UNCHANGED <<arg, mode, sys, ap, drv, queue, event, seen, calls, faults>>

Built(t) ==
  /\ At(t, "built")
  /\ sta' = [sta EXCEPT !.guard = "done"]
  /\ Done(t)
  /\ UNCHANGED <<arg, mode, sys, ap, drv, queue, event, seen, calls, faults>>

-----------------------------------------------------------------------------
(* The driver's mode.                                                      *)

Up(d) == IF d.started THEN d.mode ELSE {}

\* The driver takes a new mode or starts: a station that comes up is announced,
\* one that goes down loses its link.
Switch(d) ==
  LET up   == "STA" \in Up(d) \ Up(drv)
      down == "STA" \in Up(drv) \ Up(d)
  IN  /\ drv' = IF down THEN [d EXCEPT !.link = "down", !.ip = NoAddress] ELSE d
      /\ queue' = queue \o (IF up THEN <<StartEvent>> ELSE <<>>)
                        \o (IF down /\ drv.link # "down" THEN <<Lost>> ELSE <<>>)

\* A driver that is not initialised fails, and leaves the local as it was: garbage.
GetMode(t) ==
  /\ At(t, "getMode")
  /\ \E m \in Modes : /\ drv.init => m = drv.mode
                      /\ mode' = [mode EXCEPT ![t] = m]
  /\ Done(t)
  /\ UNCHANGED <<arg, sys, sta, ap, drv, queue, event, seen, calls, faults>>

\* An access point that forgets the station.
ForgetfulMode(step, m) ==
  CASE step = "addAp"   -> {"AP"}
    [] step = "addSta"  -> IF "AP" \in m THEN {"STA", "AP"} ELSE {"STA"}
    [] step = "dropAp"  -> IF m = {"STA", "AP"} THEN {"STA"} ELSE {}
    [] step = "dropSta" -> IF m = {"STA", "AP"} THEN {"AP"} ELSE {}

\* The mode that each function sets, given the one it read.
NewMode(step, m) ==
  CASE step = "addAp"   -> IF "STA" \in m THEN {"STA", "AP"} ELSE {"AP"}
    [] step = "addSta"  -> IF "AP" \in m THEN {"STA", "AP"} ELSE {"STA"}
    [] step = "dropAp"  -> IF m = {"STA", "AP"} THEN {"STA"} ELSE {}
    [] step = "dropSta" -> IF m = {"STA", "AP"} THEN {"AP"} ELSE {}

SetMode(t) ==
  /\ \E step \in ModeSteps :
       /\ At(t, step)
       /\ IF drv.init THEN Switch([drv EXCEPT !.mode = NewMode(step, mode[t])])
                      ELSE UNCHANGED <<drv, queue>>
  /\ overtaken' = (IF drv'.mode = drv.mode THEN overtaken ELSE overtaken \cup ToSetMode) \ {t}
  /\ Done(t)
  /\ UNCHANGED <<arg, mode, sys, sta, ap, event, rushed, calls, faults>>

WifiStart(t) ==
  /\ At(t, "start")
  /\ IF drv.init THEN Switch([drv EXCEPT !.started = TRUE]) ELSE UNCHANGED <<drv, queue>>
  /\ Done(t)
  /\ UNCHANGED <<arg, mode, sys, sta, ap, event, seen, calls, faults>>

-----------------------------------------------------------------------------
(* WifiAccessPoint::config.  Addresses of the access point are their last  *)
(* octet, which is the highest byte of the uint32_t.                       *)

\* A lease range that does not wrap around in the byte it is added to.
WideRange(local)  == [first |-> local + 1, last |-> local + 11]
LeaseRange(local) == [first |-> (local + 1) % 256, last |-> (local + 11) % 256]

\* tcpip_adapter_set_ip_info fails when the DHCP server runs, or for reasons of its own.
SetIp(t) ==
  /\ At(t, "setIp")
  /\ ~ap.dhcps
  /\ ap' = [ap EXCEPT !.ip = arg[t]]
  /\ todo' = [todo EXCEPT ![t] = <<"lease">> \o Tail(@)]
  /\ UNCHANGED <<arg, mode, sys, sta, drv, queue, event, seen, calls, faults>>

\* An access point that sets the lease range all the same.
HastySetIpFails(t) ==
  /\ At(t, "setIp")
  /\ todo' = [todo EXCEPT ![t] = <<"lease">> \o Tail(@)]
  /\ UNCHANGED <<arg, mode, sys, sta, ap, drv, queue, event, seen, calls, faults>>

SetIpFails(t) ==
  /\ At(t, "setIp")
  /\ Done(t)
  /\ UNCHANGED <<arg, mode, sys, sta, ap, drv, queue, event, seen, calls, faults>>

\* The DHCP server's option and its stop and start, and the object's _local.
Configure(t) ==
  /\ \/ At(t, "dhcpStop")  /\ ap' = [ap EXCEPT !.dhcps = FALSE]
     \/ At(t, "lease")     /\ ap' = [ap EXCEPT !.lease = LeaseRange(arg[t])]
     \/ At(t, "dhcpStart") /\ ap' = [ap EXCEPT !.dhcps = TRUE]
     \/ At(t, "store")     /\ ap' = [ap EXCEPT !.local = arg[t]]
  /\ Done(t)
  /\ UNCHANGED <<arg, mode, sys, sta, drv, queue, event, seen, calls, faults>>

-----------------------------------------------------------------------------
(* Events.                                                                 *)

Handle ==
  /\ todo[EventTask] = <<>>
  /\ queue # <<>>
  /\ event' = Head(queue)
  /\ queue' = Tail(queue)
  /\ todo' = [todo EXCEPT ![EventTask] = Handler(Head(queue).id)]
  /\ UNCHANGED <<arg, mode, sys, sta, ap, drv, seen, calls, faults>>

\* esp_wifi_connect(), which does nothing unless the station is up and unconnected.
Connect(t) ==
  /\ At(t, "connect")
  /\ drv' = [drv EXCEPT !.link = IF @ = "down" /\ "STA" \in Up(drv) THEN "connecting" ELSE @]
  /\ Done(t)
  /\ UNCHANGED <<arg, mode, sys, sta, ap, queue, event, seen, calls, faults>>

\* xEventGroupSetBits, xEventGroupClearBits, setStatus and setAddress.
Report(t) ==
  /\ \/ At(t, "setBit")          /\ sta' = [sta EXCEPT !.bit = TRUE]
     \/ At(t, "clearBit")        /\ sta' = [sta EXCEPT !.bit = FALSE]
     \/ At(t, "setConnected")    /\ sta' = [sta EXCEPT !.status = "connected"]
     \/ At(t, "setDisconnected") /\ sta' = [sta EXCEPT !.status = "disconnected"]
     \/ At(t, "setAddress")      /\ sta' = [sta EXCEPT !.address = event.ip]
  /\ Done(t)
  /\ UNCHANGED <<arg, mode, sys, ap, drv, queue, event, seen, calls, faults>>

\* The network: an attempt succeeds or fails, a link is lost, an address changes.
Attempt ==
  /\ drv.link = "connecting"
  /\ \E a \in Addresses : /\ drv' = [drv EXCEPT !.link = "up", !.ip = a]
                          /\ queue' = Append(queue, [id |-> "gotIp", ip |-> a])
  /\ UNCHANGED <<todo, arg, mode, sys, sta, ap, event, seen, calls, faults>>

LinkDown ==
  /\ drv.link # "down"
  /\ faults < MaxFaults
  /\ faults' = faults + 1
  /\ drv' = [drv EXCEPT !.link = "down", !.ip = NoAddress]
  /\ queue' = Append(queue, Lost)
  /\ UNCHANGED <<todo, arg, mode, sys, sta, ap, event, seen, calls>>

NewAddress ==
  /\ drv.link = "up"
  /\ faults < MaxFaults
  /\ faults' = faults + 1
  /\ \E a \in Addresses : /\ drv' = [drv EXCEPT !.ip = a]
                          /\ queue' = Append(queue, [id |-> "gotIp", ip |-> a])
  /\ UNCHANGED <<todo, arg, mode, sys, sta, ap, event, seen, calls>>

Step(t) ==
  \/ Check(t) \/ Nvs(t) \/ EventLoopInit(t) \/ EventLoopFails(t) \/ WifiInit(t) \/ Ready(t)
  \/ Guard(t) \/ Built(t) \/ GetMode(t) \/ SetMode(t) \/ WifiStart(t)
  \/ SetIp(t) \/ SetIpFails(t) \/ Configure(t)
  \/ Connect(t) \/ Report(t)

Next ==
  \/ \E t \in Tasks, local \in Locals : \E call \in Calls[t] : Call(t, call, local)
  \/ \E t \in Threads : Step(t) \/ NvsErase(t) \/ NvsFails(t)
  \/ Handle
  \/ Attempt \/ LinkDown \/ NewAddress

Spec == Init /\ [][Next]_vars

\* FreeRTOS runs every ready task, and a network that does not fail connects.
FairSpec == Spec /\ (\A t \in Threads : WF_vars(Step(t))) /\ WF_vars(Handle) /\ WF_vars(Attempt)

-----------------------------------------------------------------------------
(* Properties.                                                             *)

\* esp_event_loop_init is never reached a second time, which would abort: not by the
\* constructor and start() in any order, nor by the handler's call of instance() (67-92),
\* unless two threads tested initialised before either had set it.
InitOnce == ~rushed => \A t \in Threads : At(t, "loop") => ~sys.loop

\* Once every event is handled the station object, its address and WIFI_CONNECTED say
\* what the driver's link is (esp32_wifi.c 43-59, esp32_sta.cpp 33-53).
StatusFollowsLink ==
  queue = <<>> /\ todo[EventTask] = <<>> =>
    /\ sta.bit = (drv.link = "up")
    /\ (sta.status = "connected") = (drv.link = "up")
    /\ sta.address = drv.ip

\* Starting or stopping one of station and access point leaves the other as it is
\* (esp32_wifi.c 114-119, 138-143, esp32_sta.cpp 84-93, esp32_ap.cpp 114-118).
\* What is not running is not stopped: that takes the other down.  So does a mode that
\* another thread has changed since it was read.
KeepsOther ==
  [][\A t \in Threads \ overtaken :
       /\ Takes(t, "addAp") \/ (Takes(t, "dropAp") /\ "AP" \in drv.mode)
            => ("STA" \in Up(drv)') = ("STA" \in Up(drv))
       /\ Takes(t, "addSta") \/ (Takes(t, "dropSta") /\ "STA" \in drv.mode)
            => ("AP" \in Up(drv)') = ("AP" \in Up(drv))]_vars

\* The DHCP server never runs with a lease range that holds the access point's own
\* address (esp32_ap.cpp 72-102).
LeaseExcludesSelf ==
  ap.dhcps /\ ap.lease # NoLease => ap.ip \notin ap.lease.first..ap.lease.last

\* A station that stays up is connected in the end, however often the link was lost
\* (esp32_wifi.c 39-41, 55-59).
Reconnects == <>[]("STA" \in Up(drv)) => <>[](sta.status = "connected" /\ sta.address = drv.ip)
=============================================================================
