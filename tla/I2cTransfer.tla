---------------------------- MODULE I2cTransfer ----------------------------
(***************************************************************************)
(* What a transfer of messages puts on an I2C bus: the commands that the   *)
(* two algorithms of the port queue for ESP-IDF's driver, and what the     *)
(* rules of the bus make of a queue of commands.                           *)
(*                                                                         *)
(* A message is [read, count, repstart].  Commands name the bytes of the   *)
(* message they move: by the message's number, its user, and the offset.   *)
(***************************************************************************)
EXTENDS Integers, Sequences, SequencesExt

Message == [read : BOOLEAN, count : Nat, repstart : BOOLEAN]

ACK  == "ack"         \* I2C_MASTER_ACK
NACK == "last nack"   \* I2C_MASTER_LAST_NACK

Start         == [op |-> "start"]
Stop          == [op |-> "stop"]
Address(who, read)         == [op |-> "address", who |-> who, read |-> read]
WriteBytes(who, n)         == [op |-> "write", who |-> who, n |-> n]
ReadBytes(who, at, n, ack) == [op |-> "read", who |-> who, at |-> at, n |-> n, ack |-> ack]

Command(Who) ==
  {Start, Stop}
    \cup [op : {"address"}, who : Who, read : BOOLEAN]
    \cup [op : {"write"}, who : Who, n : Nat]
    \cup [op : {"read"}, who : Who, at : Int, n : Nat, ack : {ACK, NACK}]

-----------------------------------------------------------------------------
(* esp32i2calgorithm.cpp.                                                  *)

\* A driver that asks for one byte more with every byte it gets.
AckedTransfer(who, m) ==
  IF m.read THEN <<Address(who, TRUE), ReadBytes(who, 0, m.count, ACK)>>
            ELSE <<Address(who, FALSE), WriteBytes(who, m.count)>>

\* All bytes of a read but the last are acknowledged.
prepareTransfer(who, m) ==
  IF m.read
    THEN <<Address(who, TRUE)>>
           \o (IF m.count > 1 THEN <<ReadBytes(who, 0, m.count - 1, ACK)>> ELSE <<>>)
           \o <<ReadBytes(who, m.count - 1, 1, NACK)>>
    ELSE <<Address(who, FALSE), WriteBytes(who, m.count)>>

\* transfer(msg), and transfer(msgs), which leaves the stop to the message.
MessageCommands(t, m) == <<Start>> \o prepareTransfer(<<t, 1>>, m) \o <<Stop>>
VectorCommands(t, ms) ==
  FlattenSeq([i \in DOMAIN ms |-> <<Start>> \o prepareTransfer(<<t, i>>, ms[i])
                                    \o IF ms[i].repstart THEN <<>> ELSE <<Stop>>])

-----------------------------------------------------------------------------
(* hardwarei2calgorithm.cpp and soc/i2chal.c: start(), then write() or     *)
(* read() on a buffer, and stop().                                         *)

Begin(who, read) == <<Start, Address(who, read)>>
Read(who, n, ack)  == <<ReadBytes(who, 0, n, IF ack THEN ACK ELSE NACK)>>
Write(who, n) == <<WriteBytes(who, n)>>

-----------------------------------------------------------------------------
(* The bus.  After an address for reading and after every byte that the    *)
(* master acknowledges the slave drives the data line, so that the master  *)
(* can neither stop nor start.                                             *)

Phases == {"idle", "open", "writing", "read", "held"}
Idle == [phase |-> "idle", legal |-> TRUE, moved |-> <<>>]

Bytes(who, at, n) == [i \in 1..n |-> [who |-> who, at |-> at + i - 1]]

\* The driver ignores a read of no bytes, and a write of none only costs the address.
Drive(wire, c) ==
  LET Now(phase, ok) == [wire EXCEPT !.phase = phase, !.legal = @ /\ ok]
  IN  CASE c.op = "start"   -> Now("open", wire.phase # "held")
        [] c.op = "stop"    -> Now("idle", wire.phase \notin {"held", "idle"})
        [] c.op = "address" -> Now(IF c.read THEN "held" ELSE "writing", wire.phase = "open")
        [] c.op = "write"   -> [Now(wire.phase, wire.phase = "writing") EXCEPT !.moved = @ \o Bytes(c.who, 0, c.n)]
        [] c.op = "read" /\ c.n < 1 -> wire
        [] c.op = "read" /\ c.n > 0 ->
             [Now(IF c.ack = NACK THEN "read" ELSE "held", wire.phase = "held")
                EXCEPT !.moved = @ \o Bytes(c.who, c.at, c.n)]

\* A queue of commands run on a bus that was left in a phase.
Run(phase, commands) ==
  LET wire[i \in 0..Len(commands)] ==
        IF i = 0 THEN [Idle EXCEPT !.phase = phase] ELSE Drive(wire[i-1], commands[i])
  IN  wire[Len(commands)]

\* What a transfer of messages is to move: every byte of each, in order.
Payload(t, ms) == FlattenSeq([i \in DOMAIN ms |-> Bytes(<<t, i>>, 0, ms[i].count)])

\* A read of nothing cannot be asked for: the address alone makes the slave send.
Sound(ms) == \A i \in DOMAIN ms : ms[i].read => ms[i].count > 0
=============================================================================
