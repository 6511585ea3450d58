------------------------------- MODULE SpiBus -------------------------------
(***************************************************************************)
(* The SpiBus objects of spibus.cpp, on the driver of esp32spi.c: tasks    *)
(* construct, destroy and reconfigure objects and send messages to slaves  *)
(* with them.  Objects may share a controller, and all share the clock and *)
(* reset registers of the chip (DPORT) and the GPIO matrix.                *)
(*                                                                         *)
(* A critical section of the driver is one step here: SpiHal shows that    *)
(* sections of one controller exclude one another.  The section of a       *)
(* message is several, because pins and registers outside the lock may     *)
(* change while its exchanges are on the wire.                             *)
(***************************************************************************)
EXTENDS Integers, Sequences, FiniteSets

CONSTANTS
  Tasks,      \* the tasks that use the objects
  Objects,    \* the SpiBus objects
  OwnerOf,    \* OwnerOf[o]: the task that constructs, destroys and reconfigures o
  NumOf,      \* NumOf[o]: the controller passed to o's constructor
  GivenPins,  \* GivenPins[o]: the pins passed to it, an int8_t for each signal
  Slaves, SlaveOf,  \* SlaveOf[t][o]: the slave that task t's messages go to on o
  Wires,      \* Wires[s]: the pins that slave s is soldered to
  Freqs,      \* the arguments of setFrequency, and the constructor's 1 MHz
  Default,    \* that 1 MHz
  DivOf,      \* spiFrequencyToClockDiv, which SpiClock models
  Sizes,      \* the sizes of messages
  Longest,    \* how many exchanges the longest of them takes
  MaxCalls,   \* bound on the calls made
  None        \* no task, no object, no slave

ASSUME SlaveAssumption == SlaveOf \in [Tasks -> [Objects -> Slaves]]
ASSUME FreqAssumption  == Default \in Freqs /\ DivOf \in [Freqs -> Nat \ {0}]
ASSUME NoneAssumption  == None \notin Tasks \cup Slaves \cup Objects
ASSUME BoundAssumption == Longest \in Nat /\ Sizes \subseteq 0..(64 * Longest) /\ MaxCalls \in Nat

HSPI == 2
VSPI == 3
Signals == {"sck", "miso", "mosi"}
Controllers == {NumOf[o] : o \in Objects}

\* A negative pin stands for the controller's usual one.
UsualPin(num) ==
  CASE num = HSPI -> [sck |-> 14, miso |-> 12, mosi |-> 13]
    [] num = VSPI -> [sck |-> 18, miso |-> 19, mosi |-> 23]
    [] OTHER      -> [sck |-> 6,  miso |-> 7,  mosi |-> 8]

Pin(o, sig) == IF GivenPins[o][sig] < 0 THEN UsualPin(NumOf[o])[sig] ELSE GivenPins[o][sig]
PinsOf(o)   == {Pin(o, sig) : sig \in Signals}
AllPins     == UNION {PinsOf(o) : o \in Objects}

\* The board: an object has a pin for each signal, objects of different controllers have
\* none in common, and a slave is soldered to the pins of the objects that reach it.
ASSUME WiringAssumption ==
  /\ \A o \in Objects : \A i, j \in Signals : i # j => Pin(o, i) # Pin(o, j)
  /\ \A o, x \in Objects : NumOf[o] # NumOf[x] => PinsOf(o) \cap PinsOf(x) = {}
  /\ \A t \in Tasks, o \in Objects : \A sig \in Signals : Wires[SlaveOf[t][o]][sig] = Pin(o, sig)

-----------------------------------------------------------------------------
(* The methods, as sequences of steps.                                     *)

\* spiStartBus: the lock, DPORT's read-modify-writes, the sections; and the pins.
Construct == <<"create", "readClk", "setClk", "readRst", "clearRst",
               "stop", "clock", "duplex", "sck", "miso", "mosi", "built">>

\* A destructor that leaves the clock pin to the stopped controller.
HalfDestruct(spi) == IF spi THEN <<"mosiOff", "misoOff", "stop", "gone">> ELSE <<"gone">>
Destruct(spi) == IF spi THEN <<"mosiOff", "misoOff", "sckOff", "stop", "gone">> ELSE <<"gone">>

SetFrequency == <<"frequency", "compare", "setDiv", "div">>

\* A bus that gives up without deselecting when it has no controller.
EagerTransfer(spi, size) ==
  IF spi THEN <<"select", "take">>
                \o [i \in 1..(2 * ((size + 63) \div 64)) |-> IF i % 2 = 1 THEN "launch" ELSE "await"]
                \o <<"give", "deselect">>
         ELSE <<"select">>

\* spiTransferBytes sends 64 bytes at a time, under one lock; without a controller
\* the message is not sent, and transfer() returns true all the same.
Transfer(spi, size) ==
  IF spi THEN <<"select", "take">>
                \o [i \in 1..(2 * ((size + 63) \div 64)) |-> IF i % 2 = 1 THEN "launch" ELSE "await"]
                \o <<"give", "deselect">>
         ELSE <<"select", "deselect">>

-----------------------------------------------------------------------------
(* State.                                                                  *)

VARIABLES
  todo,     \* the steps left of each task's call
  on, arg,  \* the object of that call, and the frequency or size passed
  read,     \* the value of a DPORT register the call has read
  bus,      \* the objects: state, _spi # NULL, _frequency, _div
  ctl,      \* the controllers: lock made, its owner, clock, user.usr_mosi/miso, whose exchange is on the wire
  miso,     \* miso[c]: the pin that controller c's input signal comes from
  pins,     \* pins[p]: direction, and the output signal that drives it
  dport,    \* DPORT_PERIP_CLK_EN_REG, and DPORT_PERIP_RST_EN_REG
  low,      \* the slaves whose chip select is low
  heard,    \* heard[s]: the exchanges slave s has seen since it was selected last
  reply,    \* reply[t]: which slave answered each exchange of t's message
  shared,   \* the objects that have been on their controller with another
  upset,    \* the tasks whose message overlapped another on its controller
  raced,    \* the controllers whose spiStartBus overlapped another
  calls

call == <<todo, on, arg>>
wire == <<miso, pins, low, heard, reply>>
seen == <<shared, upset, raced>>
vars == <<call, read, bus, ctl, wire, dport, seen, calls>>

Steps == {"create", "readClk", "setClk", "readRst", "clearRst", "stop", "clock", "duplex",
          "sck", "miso", "mosi", "built", "sckOff", "misoOff", "mosiOff", "gone",
          "frequency", "compare", "setDiv", "div", "select", "take", "launch", "await", "give", "deselect"}
Chunks == 0..Longest
Driven == [num : Controllers, sig : {"sck", "mosi"}]
Quiet  == [num |-> 0, sig |-> "none"]

TypeOK ==
  /\ todo \in [Tasks -> Seq(Steps)]
  /\ on \in [Tasks -> Objects \cup {None}]
  /\ arg \in [Tasks -> Freqs \cup Sizes]
  /\ read \in [Tasks -> SUBSET Controllers]
  /\ bus \in [Objects -> [state : {"none", "making", "made", "ending"}, spi : BOOLEAN,
                          frequency : Freqs, div : {DivOf[f] : f \in Freqs}]]
  /\ ctl \in [Controllers -> [made : BOOLEAN, owner : Tasks \cup {None}, clk : {0} \cup {DivOf[f] : f \in Freqs},
                              duplex : BOOLEAN, usr : BOOLEAN]]
  /\ miso \in [Controllers -> AllPins \cup {-1}]
  /\ pins \in [AllPins -> [dir : {"in", "out"}, signal : Driven \cup {Quiet}]]
  /\ dport \in [clk : SUBSET Controllers, rst : SUBSET Controllers]
  /\ low \subseteq Slaves
  /\ heard \in [Slaves -> Seq([from : Tasks, n : Chunks])]
  /\ reply \in [Tasks -> Seq(Slaves \cup {None})]
  /\ shared \subseteq Objects /\ upset \subseteq Tasks /\ raced \subseteq Controllers
  /\ calls \in 0..MaxCalls

NoBus == [state |-> "none", spi |-> FALSE, frequency |-> Default, div |-> DivOf[Default]]
Reset == [made |-> FALSE, owner |-> None, clk |-> 0, duplex |-> FALSE, usr |-> FALSE]

Init ==
  /\ todo  = [t \in Tasks |-> <<>>]
  /\ on    = [t \in Tasks |-> None]
  /\ arg   = [t \in Tasks |-> Default]
  /\ read  = [t \in Tasks |-> {}]
  /\ bus   = [o \in Objects |-> NoBus]
  /\ ctl   = [c \in Controllers |-> Reset]
  /\ miso  = [c \in Controllers |-> -1]
  /\ pins  = [p \in AllPins |-> [dir |-> "in", signal |-> Quiet]]
  /\ dport = [clk |-> {}, rst |-> Controllers]
  /\ low   = {}
  /\ heard = [s \in Slaves |-> <<>>]
  /\ reply = [t \in Tasks |-> <<>>]
  /\ shared = {} /\ upset = {} /\ raced = {}
  /\ calls = 0

-----------------------------------------------------------------------------
(* Calls.                                                                  *)

Has(t, step)  == \E i \in 1..Len(todo[t]) : todo[t][i] = step
Starting(t)   == Has(t, "clearRst")            \* up to DPORT's last register
Messaging(t)  == Has(t, "deselect")
Using(t, o)   == todo[t] # <<>> /\ on[t] = o
Others(o)     == {x \in Objects \ {o} : NumOf[x] = NumOf[o] /\ bus[x].state # "none"}

Enter(t, o, x, program) ==
  /\ todo[t] = <<>>
  /\ calls < MaxCalls
  /\ calls' = calls + 1
  /\ todo' = [todo EXCEPT ![t] = program]
  /\ on'   = [on EXCEPT ![t] = o]
  /\ arg'  = [arg EXCEPT ![t] = x]

\* new SpiBus(...).  A start-up order keeps those of one controller apart (SpiHal).
New(t, o) ==
  LET rivals == {u \in Tasks : Starting(u)}
  IN  /\ OwnerOf[o] = t
      /\ bus[o].state = "none"
      /\ \A u \in Tasks : Has(u, "built") => NumOf[on[u]] # NumOf[o]
      /\ Enter(t, o, Default, Construct)
      /\ bus' = [bus EXCEPT ![o] = [NoBus EXCEPT !.state = "making"]]
      /\ shared' = IF Others(o) = {} THEN shared \ {o} ELSE shared \cup Others(o) \cup {o}
      /\ raced' = IF rivals = {} THEN raced \ {NumOf[o]}
                  ELSE raced \cup {NumOf[o]} \cup {NumOf[on[u]] : u \in rivals}
      /\ UNCHANGED <<read, ctl, wire, dport, upset>>

\* delete: nobody else is inside a call of the object.
Delete(t, o) ==
  /\ OwnerOf[o] = t
  /\ bus[o].state = "made"
  /\ \A u \in Tasks : ~Using(u, o)
  /\ Enter(t, o, Default, Destruct(bus[o].spi))
  /\ bus' = [bus EXCEPT ![o].state = "ending"]
  /\ UNCHANGED <<read, ctl, wire, dport, seen>>

setFrequency(t, o, f) ==
  /\ OwnerOf[o] = t
  /\ bus[o].state = "made"
  /\ Enter(t, o, f, SetFrequency)
  /\ UNCHANGED <<read, bus, ctl, wire, dport, seen>>

transfer(t, o, size) ==
  LET rivals == {u \in Tasks : Messaging(u) /\ NumOf[on[u]] = NumOf[o]}
  IN  /\ bus[o].state = "made"
      /\ Enter(t, o, size, Transfer(bus[o].spi, size))
      /\ upset' = IF rivals = {} THEN upset ELSE upset \cup {t} \cup rivals
      /\ UNCHANGED <<read, bus, ctl, wire, dport, shared, raced>>

-----------------------------------------------------------------------------
(* Steps.                                                                  *)

At(t, step) == todo[t] # <<>> /\ Head(todo[t]) = step
Skip(t, n)  ==
  LET left == SubSeq(todo[t], n + 1, Len(todo[t]))
  IN  /\ todo' = [todo EXCEPT ![t] = left]
      /\ on'   = [on EXCEPT ![t] = IF left = <<>> THEN None ELSE @]
      /\ arg'  = [arg EXCEPT ![t] = IF left = <<>> THEN Default ELSE @]
      /\ UNCHANGED calls
Go(t)       == Skip(t, 1)
Num(t)      == NumOf[on[t]]
Me(t)       == bus[on[t]]

\* if(spi->lock == NULL) spi->lock = xSemaphoreCreateMutex(), which may fail: then
\* _spi is NULL, and the functions that attach the pins return at once.
CreateLock(t) ==
  /\ At(t, "create")
  /\ \/ /\ Go(t)
        /\ ctl' = [ctl EXCEPT ![Num(t)].made = TRUE]
        /\ bus' = [bus EXCEPT ![on[t]].spi = TRUE]
     \/ /\ ~ctl[Num(t)].made
        /\ Skip(t, Len(Construct) - 1)
        /\ UNCHANGED <<ctl, bus>>
  /\ UNCHANGED <<read, wire, dport, seen>>

\* DPORT_SET_PERI_REG_MASK and DPORT_CLEAR_PERI_REG_MASK read the register and write it back.
ReadDport(t) ==
  /\ \/ At(t, "readClk") /\ read' = [read EXCEPT ![t] = dport.clk]
     \/ At(t, "readRst") /\ read' = [read EXCEPT ![t] = dport.rst]
  /\ Go(t)
  /\ UNCHANGED <<bus, ctl, wire, dport, seen>>

\* A driver that enables HSPI and VSPI the wrong way around.
OtherBit(num) == IF num = HSPI THEN VSPI ELSE HSPI
PeriphBit(num) == num

WriteDport(t) ==
  /\ \/ At(t, "setClk")   /\ dport' = [dport EXCEPT !.clk = read[t] \cup {PeriphBit(Num(t))}]
     \/ At(t, "clearRst") /\ dport' = [dport EXCEPT !.rst = read[t] \ {PeriphBit(Num(t))}]
  /\ Go(t)
  /\ read' = [read EXCEPT ![t] = {}]
  /\ UNCHANGED <<bus, ctl, wire, seen>>

\* An object that passes its frequency where a divider is asked for.
FrequencyAsDiv(o) == bus[o].frequency
StartDiv(o) == bus[o].div

\* The sections of spiStartBus, spiStopBus and spiSetClockDiv.  Mode and bit order are
\* those of every object, SPI_MODE0 and SPI_MSBFIRST, and left out.
Section(t) ==
  LET c == Num(t)
  IN  /\ \/ At(t, "stop")   /\ ctl' = [ctl EXCEPT ![c].clk = 0, ![c].duplex = FALSE]
         \/ At(t, "clock")  /\ ctl' = [ctl EXCEPT ![c].clk = StartDiv(on[t])]
         \/ At(t, "duplex") /\ ctl' = [ctl EXCEPT ![c].duplex = TRUE]
         \/ At(t, "setDiv") /\ Me(t).spi /\ ctl' = [ctl EXCEPT ![c].clk = DivOf[arg[t]]]
      /\ ctl[c].owner = None
      /\ Go(t)
      /\ UNCHANGED <<read, bus, wire, dport, seen>>

NoSection(t) ==
  /\ At(t, "setDiv")
  /\ ~Me(t).spi
  /\ Go(t)
  /\ UNCHANGED <<read, bus, ctl, wire, dport, seen>>

\* The direction that GpioChip::mode and pinMode give a pin.
Direction(mode) ==
  CASE mode \in {"INPUT_PULLUP", "INPUT_NOPULLUP", "INPUT"} -> "in"
    [] mode = "OUTPUT"            -> "out"
    [] mode = "OUTPUT_OPEN_DRAIN" -> "open drain"
pinMode(raw) ==
  Direction(CASE raw = "RAW_INPUT"            -> "INPUT"
              [] raw = "RAW_OUTPUT"           -> "OUTPUT"
              [] raw = "RAW_OUTPUT_OPENDRAIN" -> "OUTPUT_OPEN_DRAIN")

\* The GPIO matrix: an output pin takes its signal from a controller, a controller its
\* input signal from a pin.  Matrix and direction are set in one step: only an object
\* with the same pin could tell.
Attached(t, sig) ==
  [pins EXCEPT ![Pin(on[t], sig)] = [dir |-> pinMode("RAW_OUTPUT"), signal |-> [num |-> Num(t), sig |-> sig]]]
Detached(t, sig) ==
  [pins EXCEPT ![Pin(on[t], sig)] = [dir |-> pinMode("RAW_INPUT"), signal |-> Quiet]]

AttachPin(t) ==
  /\ \/ At(t, "sck")  /\ pins' = Attached(t, "sck")  /\ UNCHANGED miso
     \/ At(t, "mosi") /\ pins' = Attached(t, "mosi") /\ UNCHANGED miso
     \/ /\ At(t, "miso")
        /\ ctl[Num(t)].owner = None
        /\ pins' = [pins EXCEPT ![Pin(on[t], "miso")].dir = pinMode("RAW_INPUT")]
        /\ miso' = [miso EXCEPT ![Num(t)] = Pin(on[t], "miso")]
  /\ Go(t)
  /\ UNCHANGED <<read, bus, ctl, low, heard, reply, dport, seen>>

\* The input signal is the controller's: it is cut whichever pin it comes from.
DetachPin(t) ==
  /\ \/ At(t, "sckOff")  /\ pins' = Detached(t, "sck")  /\ UNCHANGED miso
     \/ At(t, "mosiOff") /\ pins' = Detached(t, "mosi") /\ UNCHANGED miso
     \/ /\ At(t, "misoOff")
        /\ pins' = [pins EXCEPT ![Pin(on[t], "miso")].dir = pinMode("RAW_INPUT")]
        /\ miso' = [miso EXCEPT ![Num(t)] = -1]
  /\ Go(t)
  /\ UNCHANGED <<read, bus, ctl, low, heard, reply, dport, seen>>

End(t) ==
  /\ \/ At(t, "built") /\ bus' = [bus EXCEPT ![on[t]].state = "made"] /\ UNCHANGED shared
     \/ At(t, "gone")  /\ bus' = [bus EXCEPT ![on[t]] = NoBus] /\ shared' = shared \ {on[t]}
  /\ Go(t)
  /\ UNCHANGED <<read, ctl, wire, dport, upset, raced>>

\* _frequency = freq, and _div = clkdiv.
Store(t) ==
  /\ \/ At(t, "frequency") /\ bus' = [bus EXCEPT ![on[t]].frequency = arg[t]]
     \/ At(t, "div")       /\ bus' = [bus EXCEPT ![on[t]].div = DivOf[arg[t]]]
  /\ Go(t)
  /\ UNCHANGED <<read, ctl, wire, dport, seen>>

\* An object that looks at what it was asked for, not at what the controller was given.
FrequencySame(o, f) == bus[o].frequency = f
DivSame(o, f) == bus[o].div = DivOf[f]

\* if(_div == clkdiv) return
Compare(t) ==
  /\ At(t, "compare")
  /\ IF DivSame(on[t], arg[t]) THEN Skip(t, Len(SetFrequency) - 1) ELSE Go(t)
  /\ UNCHANGED <<read, bus, ctl, wire, dport, seen>>

\* cs.write(false) and cs.write(true): the slave starts a new message when it is selected.
ChipSelect(t) ==
  LET s == SlaveOf[t][on[t]]
  IN  /\ \/ At(t, "select")   /\ low' = low \cup {s} /\ UNCHANGED <<reply, upset>>
         \/ At(t, "deselect") /\ low' = low \ {s} /\ reply' = [reply EXCEPT ![t] = <<>>]
                              /\ upset' = upset \ {t}
      /\ heard' = [heard EXCEPT ![s] = <<>>]
      /\ Go(t)
      /\ UNCHANGED <<read, bus, ctl, miso, pins, dport, shared, raced>>

\* SPI_MUTEX_LOCK and SPI_MUTEX_UNLOCK of spiTransferBytes.
TransferLock(t) ==
  LET c == Num(t)
  IN  /\ \/ At(t, "take") /\ ctl[c].owner = None /\ ctl' = [ctl EXCEPT ![c].owner = t]
         \/ At(t, "give") /\ ctl' = [ctl EXCEPT ![c].owner = None]
      /\ Go(t)
      /\ UNCHANGED <<read, bus, wire, dport, seen>>

\* cmd.usr = 1, and while(cmd.usr).
Launch(t) ==
  /\ At(t, "launch")
  /\ ctl' = [ctl EXCEPT ![Num(t)].usr = TRUE]
  /\ Go(t)
  /\ UNCHANGED <<read, bus, wire, dport, seen>>

Await(t) ==
  /\ At(t, "await")
  /\ ~ctl[Num(t)].usr
  /\ Go(t)
  /\ UNCHANGED <<read, bus, ctl, wire, dport, seen>>

-----------------------------------------------------------------------------
(* The hardware.                                                           *)

\* A controller drives its signals when it is clocked, out of reset and configured.
Runs(c) == c \in dport.clk /\ c \notin dport.rst /\ ctl[c].duplex /\ ctl[c].clk # 0
DrivenBy(p, c, sig) == pins[p] = [dir |-> "out", signal |-> [num |-> c, sig |-> sig]]

\* The slaves that see the exchange on controller c, and whose answer it reads.
Listeners(c) == {s \in low : /\ Runs(c)
                             /\ DrivenBy(Wires[s].sck, c, "sck")
                             /\ DrivenBy(Wires[s].mosi, c, "mosi")}
Answers(c) == {s \in Listeners(c) : miso[c] = Wires[s].miso /\ pins[miso[c]].dir = "in"}

\* The exchange on the wire ends; what a slave sees beyond any message's length is not counted.
Complete(c) ==
  LET t == ctl[c].owner
      x == [from |-> t, n |-> Len(reply[t]) + 1]
  IN  /\ ctl[c].usr
      /\ ctl' = [ctl EXCEPT ![c].usr = FALSE]
      /\ heard' = [s \in Slaves |-> IF s \in Listeners(c) /\ Len(heard[s]) <= Longest
                                      THEN Append(heard[s], x) ELSE heard[s]]
      /\ reply' = [reply EXCEPT ![t] = Append(@, IF Cardinality(Answers(c)) = 1
                                                   THEN CHOOSE s \in Answers(c) : TRUE ELSE None)]
      /\ UNCHANGED <<call, read, bus, miso, pins, low, dport, seen, calls>>

Step(t) ==
  \/ CreateLock(t) \/ ReadDport(t) \/ WriteDport(t) \/ Section(t) \/ NoSection(t)
  \/ AttachPin(t) \/ DetachPin(t) \/ End(t) \/ Store(t) \/ Compare(t)
  \/ ChipSelect(t) \/ TransferLock(t) \/ Launch(t) \/ Await(t)

Next ==
  \/ \E t \in Tasks, o \in Objects :
       \/ New(t, o) \/ Delete(t, o)
       \/ \E f \in Freqs : setFrequency(t, o, f)
       \/ \E n \in Sizes : transfer(t, o, n)
  \/ \E t \in Tasks : Step(t)
  \/ \E c \in Controllers : Complete(c)

Spec == Init /\ [][Next]_vars

-----------------------------------------------------------------------------
(* Properties.                                                             *)

\* The parts of a whole message of t on o, as its slave sees them and as they are answered.
Parts(t, n)   == [i \in 1..((n + 63) \div 64) |-> [from |-> t, n |-> i]]
Answer(s, n)  == [i \in 1..((n + 63) \div 64) |-> s]

\* A slave has seen exactly the exchanges of its message when it is deselected, and
\* all the replies were its own: unless another message overlapped this one on its
\* controller, another object has been on the controller, or the controller was
\* started while another was (spibus.cpp 30-71, esp32spi.c 439-448, 107-206).
WholeMessage ==
  \A t \in Tasks :
    LET o == on[t]
        s == SlaveOf[t][o]
    IN  At(t, "deselect") /\ bus[o].spi /\ t \notin upset /\ o \notin shared /\ NumOf[o] \notin raced
          => heard[s] = Parts(t, arg[t]) /\ reply[t] = Answer(s, arg[t])

\* An exchange runs at the frequency its object was last set to, whatever settings were
\* skipped because the divider was the same; while setFrequency runs it may be the one
\* before (spibus.cpp 49-60).
RightClock ==
  \A t \in Tasks :
    At(t, "await") /\ on[t] \notin shared /\ ~(\E u \in Tasks : Using(u, on[t]) /\ Has(u, "div"))
    => ctl[Num(t)].clk = DivOf[bus[on[t]].frequency]

\* A slave is selected only while a message to it is under way: no path of transfer(),
\* with or without a controller, leaves its select low (62-71).
SelectedInMessage ==
  \A s \in low : \E t \in Tasks : Messaging(t) /\ SlaveOf[t][on[t]] = s

\* A pin that no object has is no longer driven: it is an input and on no signal, in
\* whatever order objects that shared it came and went (41-47).
Released ==
  \A p \in AllPins : (\A o \in Objects : bus[o].state = "none" \/ p \notin PinsOf(o))
    => pins[p] = [dir |-> "in", signal |-> Quiet]
=============================================================================
