------------------------------- MODULE SpiHal -------------------------------
(***************************************************************************)
(* The SPI driver of esp32spi.c for one controller (one element of         *)
(* _spi_bus_array), used by several FreeRTOS tasks on two cores.           *)
(*                                                                         *)
(* A function of the driver is the sequence of its steps: the reads of     *)
(* spi->lock, the calls that take and give the mutex, the writes to the    *)
(* controller's registers, the launch of an exchange, the busy-wait on     *)
(* cmd.usr and the reads of the data buffer.  A task that is inside a call *)
(* executes these steps one at a time, interleaved with those of the other *)
(* tasks and with the controller.                                          *)
(***************************************************************************)
EXTENDS Integers, Sequences, FiniteSets

CONSTANTS
  Tasks,        \* the tasks that use the controller
  None,         \* the owner of a mutex that is free
  Starters,     \* the tasks that call spiStartBus (each has its own SpiBus object)
  Starts,       \* the calls of spiStartBus they make
  Calls,        \* Calls[t]: the calls that task t makes once it has a spi_t *
  SerialStart,  \* TRUE: a start-up order keeps two calls of spiStartBus apart
  MaxMutexes    \* bound on the mutexes created

-----------------------------------------------------------------------------
(* The registers the driver writes, grouped by the fields that are always  *)
(* written together.                                                       *)

Pins    == {"idle", "keep", "cs0", "cs1", "cs2"}   \* pin: ck_idle_edge, cs_keep_active, csX_dis
User    == {"out", "setup", "duplex"}              \* user: ck_out_edge, cs_setup/hold, usr_mosi/miso/doutdin
Order   == {"wr", "rd"}                            \* ctrl: wr_bit_order, rd_bit_order
CfgRegs == Pins \cup User \cup Order \cup {"clk", "mosi", "miso"}

OpNames == {"test", "create", "open", "ref", "take", "give", "write", "clear", "load",
            "kick", "wait", "fetch", "poll", "swapTx", "swapRx"}
Op == [op : OpNames, regs : SUBSET CfgRegs, val : Nat]

Do(name)       == [op |-> name,    regs |-> {},   val |-> 0]
Write(regs, v) == [op |-> "write", regs |-> regs, val |-> v]

\* The steps that touch the shared registers and buffer.
Access == {"write", "clear", "load", "kick", "wait", "fetch"}

Lock   == <<Do("ref"), Do("take")>>     \* xSemaphoreTake(spi->lock, ...)
Unlock == <<Do("give")>>                \* xSemaphoreGive(spi->lock)
Locked(body) == Lock \o body \o Unlock

-----------------------------------------------------------------------------
(* Configuration.                                                          *)

SetMode(mode) == <<Write({"idle"}, IF mode \in {2, 3} THEN 1 ELSE 0),
                   Write({"out"},  IF mode \in {1, 2} THEN 1 ELSE 0)>>

LSBFIRST == 0
MSBFIRST == 1
SetOrder(order) ==
  IF order \in {LSBFIRST, MSBFIRST}
    THEN <<Write({"wr"}, 1 - order), Write({"rd"}, 1 - order)>>
    ELSE <<>>

SSPins(mask) == {<<"cs0", "cs1", "cs2">>[i] : i \in {j \in 1..3 : (mask \div 2^(j-1)) % 2 = 1}}

\* A driver that forgets SPI_MUTEX_LOCK.
UnlockedClockDiv(div) == <<Write({"clk"}, div)>>

spiSetClockDiv(div)    == Locked(<<Write({"clk"}, div)>>)
spiSetDataMode(mode)   == Locked(SetMode(mode))
spiSetBitOrder(order)  == Locked(SetOrder(order))
spiEnableSSPins(mask)  == Locked(<<Write(SSPins(mask), 0)>>)
spiDisableSSPins(mask) == Locked(<<Write(SSPins(mask), 1)>>)
spiSSEnable            == Locked(<<Write({"setup"}, 1)>>)
spiSSDisable           == Locked(<<Write({"setup"}, 0)>>)
spiSSSet               == Locked(<<Write({"keep"}, 1)>>)
spiSSClear             == Locked(<<Write({"keep"}, 0)>>)

\* A driver that resets the controller without the lock.
UnlockedStopBus == <<Write(Pins, 0), Write(User, 0), Write(Order, 0), Write({"clk"}, 0)>>

spiStopBus == Locked(<<Write(Pins, 0), Write(User, 0), Write(Order, 0), Write({"clk"}, 0)>>)

\* A driver that leaves the clock as the reset left it.
ClocklessStartBus(div, mode, order) ==
  <<Do("test"), Do("create")>>
    \o spiStopBus \o spiSetDataMode(mode) \o spiSetBitOrder(order)
    \o Locked(<<Write({"duplex"}, 1), Do("clear")>>)
    \o <<Do("open")>>

spiStartBus(div, mode, order) ==
  <<Do("test"), Do("create")>>
    \o spiStopBus \o spiSetDataMode(mode) \o spiSetBitOrder(order) \o spiSetClockDiv(div)
    \o Locked(<<Write({"duplex"}, 1), Do("clear")>>)
    \o <<Do("open")>>

-----------------------------------------------------------------------------
(* Exchanges.                                                              *)

\* Set the lengths, fill the buffer, launch, busy-wait and, if the caller
\* wants it, read the reply.  word = 1 when the data is one word, whose bytes
\* the driver puts in wire order first; 0 when it is bytes.
WideDLen(bits) == bits - 1               \* a driver whose lengths are not cut to 24 bits
DLen(bits) == (bits - 1) % 16777216      \* usr_mosi_dbitlen and usr_miso_dbitlen have 24 bits
\* A driver that waits for the controller to be ready instead of waiting for the
\* exchange it launches.
PostedSend(bits, reply, word) ==
  <<Write({"mosi"}, DLen(bits)), Write({"miso"}, IF reply THEN DLen(bits) ELSE 0),
    [Do("load") EXCEPT !.val = word], Do("wait"), Do("kick")>>
    \o (IF reply THEN <<Do("fetch")>> ELSE <<>>)

Send(bits, reply, word) ==
  <<Write({"mosi"}, DLen(bits)), Write({"miso"}, IF reply THEN DLen(bits) ELSE 0),
    [Do("load") EXCEPT !.val = word], Do("kick"), Do("wait")>>
    \o (IF reply THEN <<Do("fetch")>> ELSE <<>>)
Exchange(bits, reply)     == Send(bits, reply, 0)
WordExchange(bits, reply) == Send(bits, reply, 1)

\* A buffer of len bytes goes out 64 bytes at a time: the loop's steps, counted
\* from 0, are those of one Send after the other (with a buffer for the reply,
\* where the function takes one).
Chunks(len, reply, word) ==
  LET k == IF reply THEN 6 ELSE 5
      bytes(i) == IF len > 64 * (i + 1) THEN 64 ELSE len - 64 * i
  IN  [s \in 1..(k * ((len + 63) \div 64)) |->
         Send(8 * bytes((s - 1) \div k), reply, word)[((s - 1) % k) + 1]]

SwapTx == <<Do("swapTx")>>   \* if(!wr_bit_order) data = swapped
SwapRx == <<Do("swapRx")>>   \* if(!rd_bit_order) data = swapped

spiWrite(words)        == Locked(Exchange(32 * (IF words > 16 THEN 16 ELSE words), FALSE))
spiTransfer(words)     == Locked(Exchange(32 * (IF words > 16 THEN 16 ELSE words), TRUE))
spiWriteByte           == Locked(Exchange(8, FALSE))
\* A driver that reads the reply after it gave the lock.
LateTransferByte == Locked(Exchange(8, TRUE)) \o <<Do("fetch")>>

spiTransferByte        == Locked(Exchange(8, TRUE))
spiWriteWord           == SwapTx \o Locked(WordExchange(16, FALSE))
spiTransferWord        == SwapTx \o Locked(WordExchange(16, TRUE)) \o SwapRx
spiWriteLong           == SwapTx \o Locked(WordExchange(32, FALSE))
spiTransferLong        == SwapTx \o Locked(WordExchange(32, TRUE)) \o SwapRx
spiTransferBytes(size) == Locked(Chunks(size, TRUE, 0))
spiWaitReady           == <<Do("poll")>>

\* The NL functions leave locking to spiTransaction and spiEndTransaction.
spiWriteByteNL           == Exchange(8, FALSE)
spiTransferByteNL        == Exchange(8, TRUE)
spiWriteShortNL          == SwapTx \o WordExchange(16, FALSE)
spiTransferShortNL       == SwapTx \o WordExchange(16, TRUE) \o SwapRx
spiWriteLongNL           == SwapTx \o WordExchange(32, FALSE)
spiTransferLongNL        == SwapTx \o WordExchange(32, TRUE) \o SwapRx
spiWriteNL(len)          == Chunks(len, FALSE, 0)
spiTransferBytesNL(len)  == Chunks(len, TRUE, 0)
spiWritePixelsNL(len)    == SwapTx \o Chunks(len, FALSE, 1)
spiTransferBitsNL(bits)  == SwapTx \o WordExchange(IF bits > 32 THEN 32 ELSE bits, TRUE) \o SwapRx
\* Drivers that convert the word before the lock, or the reply after it, as the
\* word functions do.
EarlyTransferBits(bits) ==
  SwapTx \o Locked(WordExchange(IF bits > 32 THEN 32 ELSE bits, TRUE) \o SwapRx)
LateTransferBits(bits) ==
  Locked(SwapTx \o WordExchange(IF bits > 32 THEN 32 ELSE bits, TRUE)) \o SwapRx

spiTransferBits(bits)    == Locked(spiTransferBitsNL(bits))

spiTransaction(div, mode, order) == Lock \o <<Write({"clk"}, div)>> \o SetMode(mode) \o SetOrder(order)
spiSimpleTransaction == Lock
KeepTransaction      == <<>>        \* a driver that forgets SPI_MUTEX_UNLOCK
spiEndTransaction    == Unlock

\* What a client of the transaction API does between its two ends.
InTransaction(div, mode, order, body) == spiTransaction(div, mode, order) \o body \o spiEndTransaction
InSimpleTransaction(body)             == spiSimpleTransaction \o body \o spiEndTransaction

-----------------------------------------------------------------------------
(* State.                                                                  *)

VARIABLES
  lock,     \* spi->lock: 0 is NULL, otherwise the mutex it points to
  owner,    \* owner[m]: the task that holds mutex m
  made,     \* how many mutexes xSemaphoreCreateMutex has returned
  cfg,      \* the configuration registers
  buf,      \* data_buf: whose exchange it holds, answered or not, in which byte order
  usr,      \* cmd.usr: an exchange is on the wire
  handle,   \* handle[t]: what spiStartBus returned to t ("none": not called)
  prog,     \* prog[t]: the steps of the call t is in; <<>> when t is in none
  pc,       \* pc[t]: the next of them
  ref,      \* ref[t]: the value of spi->lock t read last
  conv,     \* conv[t]: the byte order of the word t is about to send
  got       \* got[t]: the reply the call has read last

vars == <<lock, owner, made, cfg, buf, usr, handle, prog, pc, ref, conv, got>>

Mutexes    == 1..MaxMutexes
ByteOrders == {"raw", "native", "swapped"}

\* The n-th exchange of task t's call; the buffer starts with nobody's.
Exchanges == [from : Tasks \cup {None}, n : Nat, answered : BOOLEAN, order : ByteOrders]
NoExchange == [from |-> None, n |-> 0, answered |-> FALSE, order |-> "raw"]

TypeOK ==
  /\ lock \in 0..MaxMutexes
  /\ made \in 0..MaxMutexes
  /\ owner \in [Mutexes -> Tasks \cup {None}]
  /\ cfg \in [CfgRegs -> Nat]
  /\ buf \in Exchanges
  /\ usr \in BOOLEAN
  /\ handle \in [Tasks -> {"none", "null", "ok"}]
  /\ prog \in [Tasks -> Seq(Op)]
  /\ pc \in [Tasks -> Nat \ {0}]
  /\ ref \in [Tasks -> 0..MaxMutexes]
  /\ conv \in [Tasks -> ByteOrders]
  /\ got \in [Tasks -> Exchanges]

Init ==
  /\ lock = 0
  /\ made = 0
  /\ owner = [m \in Mutexes |-> None]
  /\ cfg = [r \in CfgRegs |-> 0]
  /\ buf = NoExchange
  /\ usr = FALSE
  /\ handle = [t \in Tasks |-> "none"]
  /\ prog = [t \in Tasks |-> <<>>]
  /\ pc = [t \in Tasks |-> 1]
  /\ ref = [t \in Tasks |-> 0]
  /\ conv = [t \in Tasks |-> "native"]
  /\ got = [t \in Tasks |-> NoExchange]

-----------------------------------------------------------------------------
(* A task enters a call, and executes its steps.                           *)

Idle(t)     == prog[t] = <<>>
At(t, ops)  == ~Idle(t) /\ prog[t][pc[t]].op \in ops
Starting(t) == ~Idle(t) /\ prog[t][1].op = "test"

Enter(t, p) ==
  /\ Idle(t)
  /\ prog' = [prog EXCEPT ![t] = p]
  /\ pc' = [pc EXCEPT ![t] = 1]
  /\ conv' = [conv EXCEPT ![t] = "native"]
  /\ got' = [got EXCEPT ![t] = NoExchange]

Leave(t) ==
  /\ prog' = [prog EXCEPT ![t] = <<>>]
  /\ pc' = [pc EXCEPT ![t] = 1]

Advance(t) ==
  IF pc[t] < Len(prog[t])
    THEN pc' = [pc EXCEPT ![t] = @ + 1] /\ UNCHANGED prog
    ELSE Leave(t)

\* A task has a spi_t * when its own call of spiStartBus returned one, or, when
\* it constructs no SpiBus, when another task's did and shares the object.
HasBus(t) == \E s \in (IF t \in Starters THEN {t} ELSE Starters) : handle[s] = "ok"

\* new SpiBus.  A task whose call failed may try again.
Start(t) ==
  /\ t \in Starters
  /\ handle[t] # "ok"
  /\ SerialStart => \A s \in Tasks : ~Starting(s)
  /\ \E p \in Starts : Enter(t, p)
  /\ UNCHANGED <<lock, owner, made, cfg, buf, usr, handle, ref>>

\* Any other function; with a NULL spi_t * all of them return at once.
Call(t) ==
  /\ HasBus(t)
  /\ \E p \in Calls[t] : Enter(t, p)
  /\ UNCHANGED <<lock, owner, made, cfg, buf, usr, handle, ref>>

\* A driver that creates a mutex every time.
TestNothing(t) ==
  /\ At(t, {"test"})
  /\ Advance(t)
  /\ UNCHANGED <<lock, owner, made, cfg, buf, usr, handle, ref, conv, got>>

\* if(spi->lock == NULL)
TestLock(t) ==
  /\ At(t, {"test"})
  /\ IF lock = 0 THEN Advance(t) ELSE pc' = [pc EXCEPT ![t] = @ + 2] /\ UNCHANGED prog
  /\ UNCHANGED <<lock, owner, made, cfg, buf, usr, handle, ref, conv, got>>

\* spi->lock = xSemaphoreCreateMutex()
CreateLock(t) ==
  /\ At(t, {"create"})
  /\ made < MaxMutexes
  /\ made' = made + 1
  /\ lock' = made + 1
  /\ Advance(t)
  /\ UNCHANGED <<owner, cfg, buf, usr, handle, ref, conv, got>>

\* ... which returns NULL when the heap is exhausted: spiStartBus returns NULL.
CreateLockFails(t) ==
  /\ At(t, {"create"})
  /\ lock' = 0
  /\ handle' = [handle EXCEPT ![t] = "null"]
  /\ Leave(t)
  /\ UNCHANGED <<owner, made, cfg, buf, usr, ref, conv, got>>

\* return spi
Open(t) ==
  /\ At(t, {"open"})
  /\ handle' = [handle EXCEPT ![t] = "ok"]
  /\ Advance(t)
  /\ UNCHANGED <<lock, owner, made, cfg, buf, usr, ref, conv, got>>

\* The argument of xSemaphoreTake is evaluated before the task blocks on it.
ReadLock(t) ==
  /\ At(t, {"ref"})
  /\ ref' = [ref EXCEPT ![t] = lock]
  /\ Advance(t)
  /\ UNCHANGED <<lock, owner, made, cfg, buf, usr, handle, conv, got>>

Take(t) ==
  /\ At(t, {"take"})
  /\ ref[t] \in Mutexes
  /\ owner[ref[t]] = None
  /\ owner' = [owner EXCEPT ![ref[t]] = t]
  /\ Advance(t)
  /\ UNCHANGED <<lock, made, cfg, buf, usr, handle, ref, conv, got>>

\* xSemaphoreGive(spi->lock) reads spi->lock again.  Given by a task that does
\* not hold it, a FreeRTOS mutex may be freed or stay as it is.
Give(t) ==
  /\ At(t, {"give"})
  /\ lock \in Mutexes
  /\ owner' \in {[owner EXCEPT ![lock] = None]} \cup {o \in {owner} : owner[lock] # t}
  /\ Advance(t)
  /\ UNCHANGED <<lock, made, cfg, buf, usr, handle, ref, conv, got>>

WriteRegs(t) ==
  /\ At(t, {"write"})
  /\ LET op == prog[t][pc[t]]
     IN  cfg' = [r \in CfgRegs |-> IF r \in op.regs THEN op.val ELSE cfg[r]]
  /\ Advance(t)
  /\ UNCHANGED <<lock, owner, made, buf, usr, handle, ref, conv, got>>

\* The loop of spiStartBus that zeroes data_buf.
Clear(t) ==
  /\ At(t, {"clear"})
  /\ buf' = NoExchange
  /\ Advance(t)
  /\ UNCHANGED <<lock, owner, made, cfg, usr, handle, ref, conv, got>>

\* The exchange that t's call is at: its number among those of the call.
Number(t) == Cardinality({i \in 1..pc[t] : prog[t][i].op = "load"})

Load(t) ==
  /\ At(t, {"load"})
  /\ buf' = [from |-> t, n |-> Number(t), answered |-> FALSE,
             order |-> IF prog[t][pc[t]].val = 1 THEN conv[t] ELSE "raw"]
  /\ Advance(t)
  /\ UNCHANGED <<lock, owner, made, cfg, usr, handle, ref, conv, got>>

Kick(t) ==
  /\ At(t, {"kick"})
  /\ usr' = TRUE
  /\ Advance(t)
  /\ UNCHANGED <<lock, owner, made, cfg, buf, handle, ref, conv, got>>

\* while(spi->dev->cmd.usr);
Wait(t) ==
  /\ At(t, {"wait", "poll"})
  /\ ~usr
  /\ Advance(t)
  /\ UNCHANGED <<lock, owner, made, cfg, buf, usr, handle, ref, conv, got>>

Fetch(t) ==
  /\ At(t, {"fetch"})
  /\ got' = [got EXCEPT ![t] = buf]
  /\ Advance(t)
  /\ UNCHANGED <<lock, owner, made, cfg, buf, usr, handle, ref, conv>>

ConvertTx(t) ==
  /\ At(t, {"swapTx"})
  /\ conv' = [conv EXCEPT ![t] = IF cfg["wr"] = 0 THEN "swapped" ELSE "native"]
  /\ Advance(t)
  /\ UNCHANGED <<lock, owner, made, cfg, buf, usr, handle, ref, got>>

Swapped == [raw |-> "raw", native |-> "swapped", swapped |-> "native"]

ConvertRx(t) ==
  /\ At(t, {"swapRx"})
  /\ got' = IF cfg["rd"] = 0 THEN [got EXCEPT ![t].order = Swapped[@]] ELSE got
  /\ Advance(t)
  /\ UNCHANGED <<lock, owner, made, cfg, buf, usr, handle, ref, conv>>

\* The controller has shifted the exchange out and the reply in; the first byte
\* of a word arrives at the lowest address, so a word sent MSB first comes in swapped.
Complete ==
  /\ usr
  /\ usr' = FALSE
  /\ buf' = [buf EXCEPT !.answered = TRUE,
                        !.order = IF @ = "raw" THEN "raw"
                                  ELSE IF cfg["rd"] = 0 THEN "swapped" ELSE "native"]
  /\ UNCHANGED <<lock, owner, made, cfg, handle, prog, pc, ref, conv, got>>

Step(t) ==
  \/ TestLock(t) \/ CreateLock(t) \/ CreateLockFails(t) \/ Open(t)
  \/ ReadLock(t) \/ Take(t) \/ Give(t)
  \/ WriteRegs(t) \/ Clear(t) \/ Load(t) \/ Kick(t) \/ Wait(t) \/ Fetch(t)
  \/ ConvertTx(t) \/ ConvertRx(t)

Next == (\E t \in Tasks : Start(t) \/ Call(t) \/ Step(t)) \/ Complete

Spec == Init /\ [][Next]_vars

\* The scheduler runs every ready task; the mutex goes to the waiter of highest
\* priority that has waited longest, so among tasks of one priority each gets
\* its turn; the controller finishes every exchange.
Fairness ==
  /\ \A t \in Tasks : WF_vars(Step(t)) /\ SF_vars(Take(t))
  /\ WF_vars(Complete)

FairSpec == Spec /\ Fairness

-----------------------------------------------------------------------------
(* The calls there are, what they have in common, and the assumptions.     *)

\* Before step i of p the task holds the lock: its next step on the lock gives it.
HeldAt(p, i) == \E j \in i..Len(p) :
  p[j].op = "give" /\ \A k \in i..(j - 1) : p[k].op # "take"

\* Each call takes the lock before it gives it and ends without it, reads
\* spi->lock just before it takes it, touches the controller only inside, and
\* fills the buffer, launches, waits and reads the reply in this order.  The
\* lock is tested and created at the beginning of spiStartBus only.
WellFormed(p) ==
  /\ p \in Seq(Op) /\ Len(p) > 0
  /\ ~HeldAt(p, 1)
  /\ p[1].op = "test" => Len(p) > 2 /\ p[2].op = "create"
  /\ \A i \in 1..Len(p) :
       /\ p[i].op \in Access => HeldAt(p, i)
       /\ p[i].op = "take"   => HeldAt(p, i + 1)
       /\ p[i].op = "give"   => ~HeldAt(p, i + 1)
       /\ p[i].op = "take"   => i > 1 /\ p[i-1].op = "ref"
       /\ p[i].op = "kick"   => i > 1 /\ p[i-1].op = "load" /\ i < Len(p) /\ p[i+1].op = "wait"
       /\ p[i].op = "wait"   => i > 1 /\ p[i-1].op = "kick"
       /\ p[i].op = "fetch"  => i > 1 /\ p[i-1].op = "wait"
       /\ p[i].op = "test"   => i = 1
       /\ p[i].op = "create" => i = 2 /\ p[1].op = "test"

\* What a client does inside a transaction: steps of NL functions, which leave
\* the lock alone and wait for every exchange they launch.
Unlocked(b) ==
  /\ b \in Seq(Op)
  /\ \A i \in 1..Len(b) :
       /\ b[i].op \in {"write", "clear", "load", "kick", "wait", "fetch", "swapTx", "swapRx"}
       /\ b[i].op = "kick"   => i > 1 /\ b[i-1].op = "load" /\ i < Len(b) /\ b[i+1].op = "wait"
       /\ b[i].op = "wait"   => i > 1 /\ b[i-1].op = "kick"
       /\ b[i].op = "fetch"  => i > 1 /\ b[i-1].op = "wait"

\* The functions that a task with a spi_t * can call.
DriverCall(p) ==
  \/ p \in {spiSSEnable, spiSSDisable, spiSSSet, spiSSClear, spiStopBus, spiWaitReady,
            spiWriteByte, spiTransferByte, spiWriteWord, spiTransferWord,
            spiWriteLong, spiTransferLong}
  \/ \E n \in Nat : p \in {spiSetClockDiv(n), spiSetDataMode(n), spiSetBitOrder(n),
                           spiEnableSSPins(n), spiDisableSSPins(n), spiWrite(n), spiTransfer(n),
                           spiTransferBits(n), spiTransferBytes(n)}
  \/ \E b : Unlocked(b) /\ p = InSimpleTransaction(b)
  \/ \E b : \E div, mode, order \in Nat : Unlocked(b) /\ p = InTransaction(div, mode, order, b)

\* The tasks call the driver's functions, and nothing else touches its controller.
DriverOnly ==
  /\ \A p \in Starts : \E div, mode, order \in Nat : p = spiStartBus(div, mode, order)
  /\ \A t \in Tasks : \A p \in Calls[t] : DriverCall(p)

ASSUME NoneAssumption    == None \notin Tasks
ASSUME StarterAssumption == Starters \subseteq Tasks
ASSUME MutexAssumption   == MaxMutexes \in Nat \ {0}

-----------------------------------------------------------------------------
(* Properties.                                                             *)

\* No two tasks are at a register or buffer access at the same time: the
\* critical sections of the driver exclude one another, over the creation of
\* the lock as well (esp32spi.c:431-436 and every SPI_MUTEX_LOCK).
AccessExclusive ==
  \A s, t \in Tasks : At(s, Access) /\ At(t, Access) => s = t

\* When a task reads the data buffer, the buffer holds the reply to the exchange
\* this call launched last: not another task's, not the bytes it sent, not the
\* reply to an earlier chunk (while(cmd.usr) and data = data_buf[0]).
OwnReply ==
  \A t \in Tasks : At(t, {"fetch"}) =>
    buf.from = t /\ buf.n = Number(t) /\ buf.answered

\* Step i of t's call belongs to the critical section t is in.
SameSection(t, i) ==
  i < pc[t] /\ \A k \in i..(pc[t] - 1) : prog[t][k].op \notin {"take", "give"}

\* A register that a task set in its critical section keeps that value until
\* the task sets it again or leaves: the divider, mode, bit order and lengths
\* of a transaction are those of its exchanges (spiTransaction, 732-765).
ConfigStable ==
  \A t \in Tasks : At(t, Access \cup {"give"}) =>
    \A i \in DOMAIN prog[t] : \A r \in prog[t][i].regs :
      /\ prog[t][i].op = "write" /\ SameSection(t, i)
      /\ \A k \in (i+1)..(pc[t]-1) : r \notin prog[t][k].regs
      => cfg[r] = prog[t][i].val

\* A word on the wire is in the byte order its bit order calls for: swapped
\* when the controller shifts MSB first, as it is in memory when it shifts LSB
\* first (the wr_bit_order tests of the word functions).
WireOrder ==
  usr /\ ~buf.answered /\ buf.order # "raw" => (buf.order = "swapped") = (cfg["wr"] = 0)

\* A word that a call returns is in memory order, whatever bit order it came in
\* with (the rd_bit_order tests of the word functions).
ResultOrder ==
  \A t \in Tasks : Idle(t) => got[t].order # "swapped"

\* No exchange is launched with a stopped clock or without full duplex: one
\* that is under way finds the controller as spiStartBus leaves it (450-458).
ConfiguredInFlight == usr => cfg["clk"] # 0 /\ cfg["duplex"] = 1

\* Every call returns: no task waits for the lock for ever, none holds it for ever.
CallsReturn == \A t \in Tasks : ~Idle(t) ~> Idle(t)

\* The driver implements the ownership its header promises.
Ownership == INSTANCE BusOwnership
  WITH holder <- IF lock = 0 THEN None ELSE owner[lock], regs <- <<cfg, buf>>, inflight <- usr
ImplementsOwnership == Ownership!Spec

-----------------------------------------------------------------------------
(* The inductive invariant behind AccessExclusive and ImplementsOwnership   *)
(* (with SerialStart).                                                      *)

\* Every task in a call is somewhere in a well-formed program.
InCalls == \A t \in Tasks : ~Idle(t) => WellFormed(prog[t]) /\ pc[t] \in 1..Len(prog[t])

\* t holds the lock, as far as its program goes.
Holds(t) == ~Idle(t) /\ HeldAt(prog[t], pc[t])

\* There is one lock, and it stays.
OneLock == lock = made /\ lock \in {0, 1}

\* A start-up order keeps two calls of spiStartBus apart.
OneStart == \A s, t \in Tasks : Starting(s) /\ Starting(t) => s = t

\* The lock is missing when it is about to be created, and there for all else.
LockReady == \A t \in Tasks :
  /\ handle[t] = "ok" => lock = 1
  /\ At(t, {"create"}) => lock = 0
  /\ ~Idle(t) /\ ~At(t, {"test", "create"}) => lock = 1

\* The lock that a task is about to take is the one it read.
TakesTheLock == \A t \in Tasks : At(t, {"take"}) => ref[t] = lock

\* The owner of the lock is the task that is between taking and giving it.
OwnerHolds == \A t \in Tasks : owner[1] = t <=> Holds(t)

\* An exchange on the wire is one that a task waits for.
WireAwaited == usr => \E t \in Tasks : At(t, {"wait"})

\* The lock does its work: what mutual exclusion rests on, over the lock's creation
\* (431-436) and every section between SPI_MUTEX_LOCK and SPI_MUTEX_UNLOCK.
LockInv == TypeOK /\ InCalls /\ OneLock /\ OneStart /\ LockReady /\ TakesTheLock /\ OwnerHolds

\* The same, with the exchange on the wire (while(cmd.usr) inside the lock).
IInv == LockInv /\ WireAwaited
=============================================================================
