--------------------------------- MODULE I2c ---------------------------------
(***************************************************************************)
(* Transfers on the I2C port: the hardware algorithm (hardwarei2calgo-     *)
(* rithm.cpp) and the C HAL (soc/i2chal.c), which queue their commands on  *)
(* a command link that is a static of their file, and the message algo-    *)
(* rithm (esp32i2calgorithm.cpp), which makes a link for each transfer.    *)
(* All use ESP-IDF's driver of port I2C_NUM_0, which objects install and   *)
(* delete, and hand to one another when they are moved.                    *)
(***************************************************************************)
EXTENDS I2cTransfer, FiniteSets

CONSTANTS
  Tasks,
  Objects, KindOf,  \* KindOf[o] \in Kinds; the C HAL counts as one object
  Transfers,        \* the vectors of messages that are transferred
  MaxLinks,         \* bound on the links there are at a time
  MaxCalls,         \* bound on the calls made
  MaxFaults         \* bound on the allocations that fail

Kinds  == {"hardware", "hal", "message"}
Static == {"hardware", "hal"}       \* the files with a static handle
ASSUME KindAssumption     == KindOf \in [Objects -> Kinds]
ASSUME TransferAssumption == Transfers \subseteq Seq(Message)
ASSUME BoundAssumption    == MaxLinks \in Nat /\ MaxCalls \in Nat /\ MaxFaults \in Nat

Links == 1..MaxLinks
NULL  == 0
I2C_NUM_0   == 0
I2C_NUM_MAX == 2
Free  == <<[op |-> "free"]>>    \* a link that is not allocated

VARIABLES
  todo,     \* the steps left of each task's call
  on,       \* the object of that call
  about,    \* the messages it transfers
  local,    \* the message algorithm's link
  ran,      \* what the bus made of the transfer's commands, once they have run
  links,    \* the queues of commands
  handle,   \* handle[k]: the static of file k
  objs,     \* the objects: alive, and _port (I2C_NUM_MAX: moved away)
  port,     \* I2C_NUM_0: the driver is installed, the phase of the bus
  mixed,    \* the files whose static two users have used at a time
  doubled,  \* two objects have come to own the driver
  starved,  \* the tasks whose transfer lost a command to a failed allocation
  wild,     \* a link was used after it was deleted
  calls, faults

frame == <<todo, on, about, local>>
idf   == <<links, port>>
seen  == <<mixed, doubled, starved, wild, faults>>
vars  == <<frame, ran, idf, handle, objs, seen, calls>>

None == [ok |-> FALSE, before |-> "idle", wire |-> Idle]

-----------------------------------------------------------------------------
(* Calls, as sequences of steps.                                           *)

Do(step)    == [do |-> step]
Queue(cmds) == <<[do |-> "queue", cmds |-> cmds]>>

\* An algorithm that makes a new link for every start condition.
FreshStart(who, read) == <<Do("create")>> \o Queue(Begin(who, read))

\* start(): if(handle == nullptr) handle = i2c_cmd_link_create()
start(who, read) == <<Do("test"), Do("create")>> \o Queue(Begin(who, read))

\* lwiot-core drives start, write, read, stop, flush and reset in this order.
HardwareTransfer(t, ms) ==
  FlattenSeq([i \in DOMAIN ms |->
      LET who == <<t, i>>
      IN  start(who, ms[i].read)
            \o Queue(IF ms[i].read THEN Read(who, ms[i].count, FALSE) ELSE Write(who, ms[i].count))
            \o (IF ms[i].repstart THEN <<>> ELSE Queue(<<Stop>>))])
    \o <<Do("flush"), Do("check"), Do("delete"), Do("null")>>

\* The queue of the message algorithm: one message is transferred by transfer(msg).
Commands(t, ms) == IF Len(ms) = 1 THEN MessageCommands(t, ms[1]) ELSE VectorCommands(t, ms)

\* A transfer that returns without deleting its link.
LeakyTransfer(t, ms) == <<Do("make")>> \o Queue(Commands(t, ms)) \o <<Do("begin")>>

MessageTransfer(t, ms) == <<Do("make")>> \o Queue(Commands(t, ms)) \o <<Do("begin"), Do("drop")>>

Construct(kind) == IF kind \in Static THEN <<Do("install"), Do("forget")>> ELSE <<Do("install")>>

-----------------------------------------------------------------------------

StepNames == {"install", "forget", "test", "create", "queue", "flush", "check", "delete", "null",
              "make", "begin", "drop"}

TypeOK ==
  /\ \A t \in Tasks : \A i \in DOMAIN todo[t] : todo[t][i].do \in StepNames
  /\ on \in [Tasks -> Objects \cup {NULL}]
  /\ about \in [Tasks -> Transfers \cup {<<>>}]
  /\ local \in [Tasks -> Links \cup {NULL}]
  /\ \A t \in Tasks : ran[t].ok \in BOOLEAN /\ ran[t].wire.legal \in BOOLEAN
  /\ handle \in [Static -> Links \cup {NULL}]
  /\ links \in [Links -> {Free} \cup Seq(Command(Tasks \X Nat))]
  /\ objs \in [Objects -> [alive : BOOLEAN, port : {I2C_NUM_0, I2C_NUM_MAX}]]
  /\ port \in [installed : BOOLEAN, phase : Phases]
  /\ mixed \subseteq Static /\ starved \subseteq Tasks
  /\ doubled \in BOOLEAN /\ wild \in BOOLEAN
  /\ calls \in 0..MaxCalls /\ faults \in 0..MaxFaults

NoObject == [alive |-> FALSE, port |-> I2C_NUM_0]
OnPort(o) == objs[o].alive /\ objs[o].port < I2C_NUM_MAX

Off ==
  [todo |-> [t \in Tasks |-> <<>>], on |-> [t \in Tasks |-> NULL], about |-> [t \in Tasks |-> <<>>],
   local |-> [t \in Tasks |-> NULL], ran |-> [t \in Tasks |-> None],
   links |-> [l \in Links |-> Free], handle |-> [k \in Static |-> NULL],
   objs |-> [o \in Objects |-> NoObject],
   port |-> [installed |-> FALSE, phase |-> "idle"]]

Init ==
  /\ todo = Off.todo /\ on = Off.on /\ about = Off.about /\ local = Off.local /\ ran = Off.ran
  /\ links = Off.links /\ handle = Off.handle /\ objs = Off.objs /\ port = Off.port
  /\ mixed = {} /\ doubled = FALSE /\ starved = {} /\ wild = FALSE
  /\ calls = 0 /\ faults = 0

\* abort() restarts the chip; the slave may still hold the bus.
Restart ==
  /\ todo' = Off.todo /\ on' = Off.on /\ about' = Off.about /\ local' = Off.local /\ ran' = Off.ran
  /\ links' = Off.links /\ handle' = Off.handle /\ objs' = Off.objs
  /\ port' = [Off.port EXCEPT !.phase = port.phase]
  /\ mixed' = {} /\ doubled' = FALSE /\ starved' = {} /\ wild' = FALSE
  /\ UNCHANGED <<calls, faults>>

At(t, step) == todo[t] # <<>> /\ Head(todo[t]).do = step

\* Leave n steps behind; a call that is over leaves nothing behind.
Skip(t, n) ==
  LET left == SubSeq(todo[t], n + 1, Len(todo[t]))
  IN  /\ todo'  = [todo EXCEPT ![t] = left]
      /\ on'    = [on EXCEPT ![t] = IF left = <<>> THEN NULL ELSE @]
      /\ about' = [about EXCEPT ![t] = IF left = <<>> THEN <<>> ELSE @]
      /\ UNCHANGED calls
Go(t) == Skip(t, 1)

Kind(t) == KindOf[on[t]]
\* The tasks that use the static of o's file.
Users(o) == {u \in Tasks : todo[u] # <<>> /\ KindOf[o] \in Static /\ Kind(u) = KindOf[o]}
Use(o)   == mixed' = IF Users(o) = {} THEN mixed ELSE mixed \cup {KindOf[o]}

Enter(t, o, ms, program) ==
  /\ todo[t] = <<>>
  /\ calls < MaxCalls
  /\ calls' = calls + 1
  /\ todo'  = [todo EXCEPT ![t] = program]
  /\ on'    = [on EXCEPT ![t] = o]
  /\ about' = [about EXCEPT ![t] = ms]
  /\ Use(o)

Unused(o) == \A u \in Tasks : on[u] # o

-----------------------------------------------------------------------------
(* Construction, move and destruction.                                     *)

New(t, o) ==
  /\ ~objs[o].alive /\ Unused(o)
  /\ Enter(t, o, <<>>, Construct(KindOf[o]))
  /\ UNCHANGED <<local, ran, idf, handle, objs, doubled, starved, wild, faults>>

\* i2c_param_config and i2c_driver_install; the latter fails when the driver is there,
\* which only the hardware algorithm checks.
Install(t) ==
  LET o == on[t]
  IN  /\ At(t, "install")
      /\ IF port.installed /\ Kind(t) = "hardware"
           THEN Restart
           ELSE /\ port' = [port EXCEPT !.installed = TRUE]
                /\ objs' = [objs EXCEPT ![o] = [alive |-> TRUE, port |-> I2C_NUM_0]]
                /\ doubled' = (\E other \in Objects \ {o} : OnPort(other))
                /\ Go(t)
                /\ UNCHANGED <<local, ran, links, handle, mixed, starved, wild, faults>>

\* handle = nullptr
Forget(t) ==
  /\ At(t, "forget")
  /\ handle' = [handle EXCEPT ![Kind(t)] = NULL]
  /\ Go(t)
  /\ UNCHANGED <<local, ran, idf, objs, seen>>

\* The move constructor: the new object is on the port, and so is still the other.
MoveConstruct(t, o, other) ==
  /\ todo[t] = <<>> /\ calls < MaxCalls
  /\ {KindOf[o], KindOf[other]} = {"hardware"}
  /\ ~objs[o].alive /\ objs[other].alive /\ Unused(o) /\ Unused(other)
  /\ objs' = [objs EXCEPT ![o] = [alive |-> TRUE, port |-> I2C_NUM_0]]
  /\ doubled' = TRUE
  /\ calls' = calls + 1
  /\ UNCHANGED <<frame, ran, idf, handle, mixed, starved, wild, faults>>

\* An assignment that leaves the other object on the port, and one that marks it with -1.
CopiedFrom(o, other) == [objs EXCEPT ![o].port = objs[other].port]
MarkedFrom(o, other) == [objs EXCEPT ![o].port = objs[other].port, ![other].port = -1]
MovedFrom(o, other)  == [objs EXCEPT ![o].port = objs[other].port, ![other].port = I2C_NUM_MAX]

MoveAssign(t, o, other) ==
  /\ todo[t] = <<>> /\ calls < MaxCalls
  /\ {KindOf[o], KindOf[other]} = {"hardware"} /\ o # other
  /\ objs[o].alive /\ objs[other].alive /\ Unused(o) /\ Unused(other)
  /\ objs' = MovedFrom(o, other)
  /\ doubled' = (doubled /\ ~(port.installed /\ \A p \in Objects : OnPort(p) => p \in {o, other}))
  /\ calls' = calls + 1
  /\ UNCHANGED <<frame, ran, idf, handle, mixed, starved, wild, faults>>

\* The destructors and i2c_disable: i2c_driver_delete, unless the object was moved away.
Delete(t, o) ==
  /\ todo[t] = <<>> /\ calls < MaxCalls
  /\ objs[o].alive /\ Unused(o)
  /\ objs' = [objs EXCEPT ![o] = NoObject]
  /\ port' = IF OnPort(o) THEN [port EXCEPT !.installed = FALSE] ELSE port
  /\ calls' = calls + 1
  /\ UNCHANGED <<frame, ran, links, handle, doubled, mixed, starved, wild, faults>>

-----------------------------------------------------------------------------
(* Transfers.                                                              *)

transfer(t, o, ms) ==
  /\ OnPort(o)
  /\ Enter(t, o, ms, IF KindOf[o] = "message" THEN MessageTransfer(t, ms) ELSE HardwareTransfer(t, ms))
  /\ UNCHANGED <<local, ran, idf, handle, objs, doubled, starved, wild, faults>>

NewLink == CHOOSE l \in Links : links[l] = Free
Room    == \E l \in Links : links[l] = Free

Test(t) ==
  /\ At(t, "test")
  /\ Skip(t, IF handle[Kind(t)] = NULL THEN 1 ELSE 2)
  /\ UNCHANGED <<local, ran, idf, handle, objs, seen>>

\* i2c_cmd_link_create() for the static, or for the transfer; it may return NULL.
Create(t) ==
  /\ Room
  /\ \/ At(t, "create") /\ UNCHANGED local
        /\ handle' = [handle EXCEPT ![Kind(t)] = NewLink]
     \/ At(t, "make") /\ UNCHANGED handle
        /\ local' = [local EXCEPT ![t] = NewLink]
  /\ links' = [links EXCEPT ![NewLink] = <<>>]
  /\ Go(t)
  /\ UNCHANGED <<ran, port, objs, seen>>

Shared(t) == Kind(t) \in mixed

Starve(t) ==
  /\ faults < MaxFaults /\ ~Shared(t)
  /\ faults' = faults + 1
  /\ starved' = starved \cup {t}

CreateFails(t) ==
  /\ At(t, "create") \/ At(t, "make")
  /\ IF At(t, "create") THEN handle' = [handle EXCEPT ![Kind(t)] = NULL] ELSE UNCHANGED handle
  /\ Starve(t)
  /\ Go(t)
  /\ UNCHANGED <<local, ran, idf, objs, mixed, doubled, wild>>

\* The link a call hands to the driver.
Link(t) == IF Kind(t) \in Static THEN handle[Kind(t)] ELSE local[t]

\* More commands for the call's link: a deleted link is undefined behaviour, no link an
\* error that nobody looks at.  What a shared link holds is not followed.
Extend(t, cmds) ==
  LET l == Link(t)
  IN  /\ wild' = (wild \/ (l # NULL /\ links[l] = Free))
      /\ links' = IF l = NULL \/ links[l] = Free \/ Shared(t)
                    THEN links ELSE [links EXCEPT ![l] = @ \o cmds]

\* The calls of one method, or of a whole transfer on a link of its own, to
\* i2c_master_start, _write_byte, _write, _read, _read_byte and _stop.
QueueCommands(t) ==
  /\ At(t, "queue")
  /\ Extend(t, Head(todo[t]).cmds)
  /\ Go(t)
  /\ UNCHANGED <<local, ran, port, handle, objs, mixed, doubled, starved, faults>>

\* There is no memory for one of the commands: the driver says so, and nobody listens.
QueueFails(t) ==
  /\ At(t, "queue")
  /\ LET cmds == Head(todo[t]).cmds
     IN  \E i \in DOMAIN cmds : Extend(t, RemoveAt(cmds, i))
  /\ Starve(t)
  /\ Go(t)
  /\ UNCHANGED <<local, ran, port, handle, objs, mixed, doubled>>

\* i2c_master_cmd_begin runs the queue, or fails: for want of a link, of the driver or of
\* an acknowledgement.  A bus that failed is cleared; a shared link leaves it anyhow.
Begun(t) ==
  LET l    == Link(t)
      wire == Run(port.phase, links[l])
  IN  \/ /\ l # NULL /\ links[l] # Free /\ port.installed /\ ~Shared(t)
         /\ ran' = [ran EXCEPT ![t] = [ok |-> TRUE, before |-> port.phase, wire |-> wire]]
         /\ port' = [port EXCEPT !.phase = IF wire.legal THEN wire.phase ELSE "idle"]
         /\ UNCHANGED wild
      \/ /\ wild' = (wild \/ (l # NULL /\ links[l] = Free))
         /\ ran' = [ran EXCEPT ![t] = None]
         /\ \E phase \in IF Shared(t) THEN Phases ELSE {"idle"} : port' = [port EXCEPT !.phase = phase]

Flush(t) ==
  /\ At(t, "flush") \/ At(t, "begin")
  /\ Begun(t)
  /\ Go(t)
  /\ UNCHANGED <<local, links, handle, objs, mixed, doubled, starved, faults>>

\* reset(): if(handle == nullptr) return
Check(t) ==
  /\ At(t, "check")
  /\ Skip(t, IF handle[Kind(t)] = NULL THEN 3 ELSE 1)
  /\ ran' = IF handle[Kind(t)] = NULL THEN [ran EXCEPT ![t] = None] ELSE ran
  /\ starved' = IF handle[Kind(t)] = NULL THEN starved \ {t} ELSE starved
  /\ UNCHANGED <<local, idf, handle, objs, mixed, doubled, wild, faults>>

\* i2c_cmd_link_delete(handle); the end of a transfer.
DeleteLink(t) ==
  LET l == Link(t)
  IN  /\ At(t, "delete") \/ At(t, "drop")
      /\ wild' = (wild \/ (l # NULL /\ links[l] = Free))
      /\ links' = IF l = NULL THEN links ELSE [links EXCEPT ![l] = Free]
      /\ IF At(t, "drop") THEN /\ local' = [local EXCEPT ![t] = NULL]
                               /\ ran' = [ran EXCEPT ![t] = None]
                               /\ starved' = starved \ {t}
                          ELSE UNCHANGED <<local, ran, starved>>
      /\ Go(t)
      /\ UNCHANGED <<port, handle, objs, mixed, doubled, faults>>

\* A reset() that keeps the handle of the link it has deleted, and handle = nullptr.
KeptHandle(t) == handle
NullHandle(t) == [handle EXCEPT ![Kind(t)] = NULL]

Null(t) ==
  /\ At(t, "null")
  /\ handle' = NullHandle(t)
  /\ ran' = [ran EXCEPT ![t] = None]
  /\ starved' = starved \ {t}
  /\ Go(t)
  /\ UNCHANGED <<local, idf, objs, mixed, doubled, wild, faults>>

Step(t) ==
  \/ Install(t) \/ Forget(t)
  \/ Test(t) \/ Create(t) \/ CreateFails(t) \/ QueueCommands(t) \/ QueueFails(t)
  \/ Flush(t) \/ Check(t) \/ DeleteLink(t) \/ Null(t)

Next ==
  \E t \in Tasks :
    \/ \E o \in Objects : New(t, o) \/ Delete(t, o) \/ \E ms \in Transfers : transfer(t, o, ms)
    \/ \E o, other \in Objects : MoveConstruct(t, o, other) \/ MoveAssign(t, o, other)
    \/ Step(t)

Spec == Init /\ [][Next]_vars

-----------------------------------------------------------------------------
(* Properties.                                                             *)

\* A transfer that succeeds has moved every byte of its messages once and in order, by
\* the rules of the bus, and has left the bus stopped if its last message asks for it:
\* unless a static link was shared (which may free the link of a transfer of another
\* file), memory ran out, or it reads nothing
\* (hardwarei2calgorithm.cpp 89-152, i2chal.c 72-132, esp32i2calgorithm.cpp 72-139).
Delivered ==
  \A t \in Tasks :
    LET ms == about[t]
        stops == ms # <<>> /\ (~ms[Len(ms)].repstart \/ (Kind(t) = "message" /\ Len(ms) = 1))
    IN  ran[t].ok /\ ran[t].before # "held" /\ t \notin starved /\ mixed = {} /\ Sound(ms)
          => /\ ran[t].wire.legal
             /\ ran[t].wire.moved = Payload(t, ms)
             /\ stops => ran[t].wire.phase = "idle"

\* Every link belongs to a transfer that is under way: whatever failed, it is deleted
\* when the transfer ends, and the static forgets it (93-94, 145-152; 81, 108-114).
LinksReturned ==
  mixed = {} => \A l \in Links : links[l] # Free => \E t \in Tasks : todo[t] # <<>> /\ Link(t) = l

\* No link is used after it was deleted, as long as no two users share a static.
NoDanglingLink == wild => mixed # {}

\* An object on the port finds the driver installed, through moves and destructions in
\* any order, unless two objects came to own it (hardwarei2calgorithm.cpp 53-73).
DriverThere == ~doubled => \A o \in Objects : OnPort(o) => port.installed
=============================================================================
