----------------------------- MODULE I2cProofs -----------------------------
(***************************************************************************)
(* The I2C port, for every set of tasks and objects and every vector of    *)
(* messages: who owns the driver, the types, whose the command links are,  *)
(* and that a transfer that succeeds has moved the bytes of its messages   *)
(* by the rules of the bus.  The last follows each command from the        *)
(* program of its call over the link to the wire.                          *)
(***************************************************************************)
EXTENDS I2c, FiniteSetTheorems, SequenceTheorems, WellFoundedInduction, TLAPS

\* The part of the state that the driver's ownership depends on.
OwnerTypeOK ==
  /\ objs \in [Objects -> [alive : BOOLEAN, port : {I2C_NUM_0, I2C_NUM_MAX}]]
  /\ DOMAIN port = {"installed", "phase"}
  /\ port = [f \in DOMAIN port |-> port[f]]

\* What makes DriverThere inductive: the driver has one owner, so that whoever deletes it
\* leaves nobody without it.
SoleOwner == ~doubled => \A o, other \in Objects : OnPort(o) /\ OnPort(other) => o = other

OwnerInv == OwnerTypeOK /\ SoleOwner /\ DriverThere

LEMMA OwnerInit == Init => OwnerInv
  BY DEF Init, Off, OwnerInv, OwnerTypeOK, SoleOwner, DriverThere, OnPort, NoObject,
         I2C_NUM_0, I2C_NUM_MAX, Phases

\* A restart of the chip leaves no object.
LEMMA OwnerRestart ==
  ASSUME OwnerInv, Restart
  PROVE  OwnerInv'
<1>1. OwnerTypeOK'
  BY DEF OwnerInv, OwnerTypeOK, Restart, Off, NoObject, I2C_NUM_0, I2C_NUM_MAX
<1>2. \A o \in Objects : ~OnPort(o)'
  BY DEF Restart, Off, NoObject, OnPort
<1>. QED  BY <1>1, <1>2 DEF OwnerInv, SoleOwner, DriverThere

\* The driver is there after an installation, and doubled says whether others own it too.
LEMMA OwnerInstall ==
  ASSUME OwnerInv, NEW t \in Tasks, Install(t)
  PROVE  OwnerInv'
<1>. DEFINE o == on[t]
<1>1. CASE Restart
  BY <1>1, OwnerRestart
<1>2. CASE ~Restart
  <2>1. /\ port' = [port EXCEPT !.installed = TRUE]
        /\ objs' = [objs EXCEPT ![o] = [alive |-> TRUE, port |-> I2C_NUM_0]]
        /\ doubled' = (\E other \in Objects \ {o} : OnPort(other))
    BY <1>2 DEF Install
  <2>2. OwnerTypeOK'
    BY <2>1 DEF OwnerInv, OwnerTypeOK, I2C_NUM_0, I2C_NUM_MAX
  <2>3. port.installed'
    BY <2>1 DEF OwnerInv, OwnerTypeOK
  <2>4. \A p \in Objects \ {o} : OnPort(p)' <=> OnPort(p)
    BY <2>1 DEF OwnerInv, OwnerTypeOK, OnPort
  <2>5. SoleOwner'
    BY <2>1, <2>4 DEF SoleOwner
  <2>. QED  BY <2>2, <2>3, <2>5 DEF OwnerInv, DriverThere
<1>. QED  BY <1>1, <1>2

\* The destructor of the sole owner deletes the driver; that of an object that was moved
\* away leaves it.
LEMMA OwnerDelete ==
  ASSUME OwnerInv, NEW t \in Tasks, NEW o \in Objects, Delete(t, o)
  PROVE  OwnerInv'
<1>1. /\ objs' = [objs EXCEPT ![o] = NoObject]
      /\ port' = IF OnPort(o) THEN [port EXCEPT !.installed = FALSE] ELSE port
      /\ doubled' = doubled
  BY DEF Delete
<1>2. OwnerTypeOK'
  BY <1>1 DEF OwnerInv, OwnerTypeOK, NoObject, I2C_NUM_0, I2C_NUM_MAX
<1>3. ~OnPort(o)' /\ \A p \in Objects \ {o} : OnPort(p)' <=> OnPort(p)
  BY <1>1 DEF OwnerInv, OwnerTypeOK, OnPort, NoObject
<1>4. SoleOwner'
  BY <1>1, <1>3 DEF OwnerInv, SoleOwner
<1>5. DriverThere'
  <2>1. SUFFICES ASSUME ~doubled', NEW p \in Objects, OnPort(p)'
                 PROVE  port'.installed
    BY DEF DriverThere
  <2>2. p # o /\ OnPort(p) /\ ~OnPort(o)
    BY <1>1, <1>3, <2>1 DEF OwnerInv, SoleOwner
  <2>. QED  BY <1>1, <2>1, <2>2 DEF OwnerInv, DriverThere
<1>. QED  BY <1>2, <1>4, <1>5 DEF OwnerInv

\* An assignment moves the port with the object.
LEMMA OwnerMoveAssign ==
  ASSUME OwnerInv, NEW t \in Tasks, NEW o \in Objects, NEW other \in Objects,
         MoveAssign(t, o, other)
  PROVE  OwnerInv'
<1>1. /\ o # other
      /\ objs[o].alive /\ objs[other].alive
      /\ objs' = [objs EXCEPT ![o].port = objs[other].port, ![other].port = I2C_NUM_MAX]
      /\ doubled' = (doubled /\ ~(port.installed /\ \A p \in Objects : OnPort(p) => p \in {o, other}))
      /\ port' = port
  BY DEF MoveAssign, MovedFrom, idf
<1>2. OwnerTypeOK'
  BY <1>1 DEF OwnerInv, OwnerTypeOK
<1>3. /\ OnPort(o)' <=> OnPort(other)
      /\ ~OnPort(other)'
      /\ \A p \in Objects \ {o, other} : OnPort(p)' <=> OnPort(p)
  BY <1>1 DEF OwnerInv, OwnerTypeOK, OnPort, I2C_NUM_MAX
<1>4. CASE ~doubled
  BY <1>1, <1>2, <1>3, <1>4 DEF OwnerInv, SoleOwner, DriverThere
<1>5. CASE doubled
  BY <1>1, <1>2, <1>3, <1>5 DEF OwnerInv, SoleOwner, DriverThere
<1>. QED  BY <1>4, <1>5

\* The steps that leave the objects and the driver alone.
LEMMA OwnerOther ==
  ASSUME OwnerInv, UNCHANGED <<objs, doubled>>,
         port' = port \/ \E phase : port' = [port EXCEPT !.phase = phase]
  PROVE  OwnerInv'
<1>1. OwnerTypeOK'
  BY DEF OwnerInv, OwnerTypeOK
<1>2. port'.installed = port.installed
  BY DEF OwnerInv, OwnerTypeOK
<1>3. \A o \in Objects : OnPort(o)' <=> OnPort(o)
  BY DEF OnPort
<1>. QED  BY <1>1, <1>2, <1>3 DEF OwnerInv, SoleOwner, DriverThere
\* Every step keeps the invariant.
LEMMA OwnerNext ==
  ASSUME OwnerInv, [Next]_vars
  PROVE  OwnerInv'
<1>1. ASSUME NEW t \in Tasks, NEW o \in Objects, New(t, o) \/ \E ms \in Transfers : transfer(t, o, ms)
      PROVE  OwnerInv'
  BY <1>1, OwnerOther DEF New, transfer, idf
<1>2. ASSUME NEW t \in Tasks, NEW o \in Objects, NEW other \in Objects, MoveConstruct(t, o, other)
      PROVE  OwnerInv'
  BY <1>2 DEF MoveConstruct, idf, OwnerInv, OwnerTypeOK, SoleOwner, DriverThere, I2C_NUM_0, I2C_NUM_MAX
<1>3. ASSUME NEW t \in Tasks,
             \/ Forget(t) \/ Test(t) \/ Create(t) \/ CreateFails(t) \/ QueueCommands(t)
             \/ QueueFails(t) \/ Check(t) \/ DeleteLink(t) \/ Null(t)
      PROVE  OwnerInv'
  BY <1>3, OwnerOther
     DEF Forget, Test, Create, CreateFails, QueueCommands, QueueFails, Check, DeleteLink, Null, idf, seen
<1>4. ASSUME NEW t \in Tasks, Flush(t)
      PROVE  OwnerInv'
  <2>1. \E phase : port' = [port EXCEPT !.phase = phase]
    BY <1>4 DEF Flush, Begun
  <2>. QED  BY <1>4, <2>1, OwnerOther DEF Flush
<1>5. CASE UNCHANGED vars
  BY <1>5, OwnerOther DEF vars, idf, seen
<1>. QED
  BY <1>1, <1>2, <1>3, <1>4, <1>5, OwnerInstall, OwnerDelete, OwnerMoveAssign DEF Next, Step

\* DriverThere for every instance: whoever is on the port finds the driver installed,
\* unless two objects own it (hardwarei2calgorithm.cpp 26-73).
THEOREM I2cDriverThere == Spec => []DriverThere
<1>1. OwnerInv => DriverThere
  BY DEF OwnerInv
<1>. QED  BY OwnerInit, OwnerNext, <1>1, PTL DEF Spec

-----------------------------------------------------------------------------
(* Recursion over the steps of a call and the commands of a queue.         *)

\* A set of numbers that is not empty has a least one: what induction rests on.
LEMMA LeastNat ==
  ASSUME NEW T \in SUBSET Nat, T # {}
  PROVE  \E n \in T : \A m \in T : n <= m
<1> DEFINE R == OpToRel(<, Nat)
<1>1. IsWellFoundedOn(R, Nat)
  BY NatLessThanWellFounded
<1>2. \A x, y \in Nat : y < x => <<y, x>> \in R
  BY DEF OpToRel
<1> HIDE DEF R
<1>3. PICK x \in T : \A y \in T : ~ (<<y, x>> \in R)
  BY <1>1, WFMin
<1>4. \A y \in T : ~(y < x)
  BY <1>2, <1>3, Zenon
<1>. QED  BY <1>4

\* What is true of the first and goes from one to the next is true of all.
LEMMA Climb ==
  ASSUME NEW n \in Nat, NEW P \in SUBSET Nat, 0 \in P,
         \A i \in 1..n : i - 1 \in P => i \in P
  PROVE  \A i \in 0..n : i \in P
<1>. DEFINE T == {i \in 0..n : i \notin P}
<1>1. ASSUME T # {} PROVE FALSE
  <2>1. T \in SUBSET Nat
    OBVIOUS
  <2>2. PICK m \in T : \A k \in T : m <= k
    <3>. HIDE DEF T
    <3>. QED  BY <1>1, <2>1, LeastNat
  <2>3. m \in 1..n /\ m - 1 \in 0..n /\ m - 1 \in P
    BY <2>2
  <2>. QED  BY <2>2, <2>3
<1>. QED  BY <1>1

\* f starts with b and takes each value from the one before.
Unfolds(f, W, b, n, G) ==
  f \in [0..n -> W] /\ f[0] = b /\ \A i \in 1..n : f[i] = G[<<f[i-1], i>>]

\* There is a function that is defined from its value at the number before.
LEMMA Recursion ==
  ASSUME NEW W, NEW b \in W, NEW n \in Nat, NEW G \in [W \X (1..n) -> W]
  PROVE  \E f : Unfolds(f, W, b, n, G)
<1>. DEFINE Is(f, m) == f \in [0..m -> W] /\ f[0] = b /\ \A i \in 1..m : f[i] = G[<<f[i-1], i>>]
            P        == {m \in 0..n : \E f : Is(f, m)}
<1>1. 0 \in P
  <2>1. Is([i \in 0..0 |-> b], 0)
    <3>1. \A i \in 0..0 : i = 0
      OBVIOUS
    <3>2. \A i \in 1..0 : FALSE
      OBVIOUS
    <3>. QED  BY <3>1, <3>2
  <2>. HIDE DEF Is
  <2>. QED  BY <2>1
<1>2. ASSUME NEW m \in 1..n, m - 1 \in P PROVE m \in P
  <2>1. PICK g : Is(g, m - 1)
    BY <1>2
  <2>. DEFINE f == [i \in 0..m |-> IF i = m THEN G[<<g[m-1], m>>] ELSE g[i]]
  <2>2. m \in Nat \ {0} /\ m - 1 \in Nat /\ m - 1 \in 0..(m-1) /\ m \in 0..m /\ 0 \in 0..(m-1)
    OBVIOUS
  <2>3. /\ \A i \in 0..m : i # m => i \in 0..(m-1)
        /\ \A i \in 0..(m-1) : i \in 0..m /\ i # m
    BY <2>2
  <2>4. g \in [0..(m-1) -> W] /\ g[0] = b /\ \A i \in 1..(m-1) : g[i] = G[<<g[i-1], i>>]
    BY <2>1
  <2>. HIDE DEF Is
  <2>5. G[<<g[m-1], m>>] \in W
    <3>1. g[m-1] \in W /\ m \in 1..n
      BY <2>2, <2>4
    <3>. QED  BY <3>1
  <2>6. f \in [0..m -> W]
    BY <2>3, <2>4, <2>5
  <2>7. \A i \in 0..(m-1) : f[i] = g[i]
    BY <2>3
  <2>8. f[0] = b
    BY <2>2, <2>4, <2>7
  <2>9. ASSUME NEW i \in 1..m PROVE f[i] = G[<<f[i-1], i>>]
    <3>1. i - 1 \in 0..(m-1) /\ i \in 0..m /\ (i # m => i \in 0..(m-1) /\ i \in 1..(m-1))
      BY <2>2
    <3>2. f[i-1] = g[i-1]
      BY <2>7, <3>1
    <3>3. CASE i = m
      <4>1. f[i] = G[<<g[i-1], i>>]
        BY <3>1, <3>3
      <4>. QED  BY <3>2, <4>1
    <3>4. CASE i # m
      <4>1. f[i] = g[i] /\ g[i] = G[<<g[i-1], i>>]
        BY <2>4, <2>7, <3>1, <3>4
      <4>. QED  BY <3>2, <4>1
    <3>. QED  BY <3>3, <3>4
  <2>. HIDE DEF f
  <2>10. Is(f, m)
    BY <2>6, <2>8, <2>9 DEF Is
  <2>11. m \in 0..n
    OBVIOUS
  <2>. QED  BY <2>10, <2>11
<1>3. n \in P
  <2>. HIDE DEF Is
  <2>1. P \in SUBSET Nat
    OBVIOUS
  <2>2. n \in 0..n
    OBVIOUS
  <2>. HIDE DEF P
  <2>. QED  BY <1>1, <1>2, <2>1, <2>2, Climb
<1>. QED  BY <1>3 DEF Unfolds

\* FlattenSeq by its partial results.
LEMMA Flatten ==
  ASSUME NEW X, NEW ss \in Seq(Seq(X))
  PROVE  \E f \in [0..Len(ss) -> Seq(X)] :
           /\ f[0] = <<>> /\ \A i \in 1..Len(ss) : f[i] = f[i-1] \o ss[i]
           /\ FlattenSeq(ss) = f[Len(ss)]
<1>. DEFINE n == Len(ss)
            G == [w \in Seq(X) \X (1..n) |-> w[1] \o ss[w[2]]]
<1>1. n \in Nat /\ \A i \in 1..n : ss[i] \in Seq(X)
  OBVIOUS
<1>2. PICK f \in [0..n -> Seq(X)] : f[0] = <<>> /\ \A i \in 1..n : f[i] = f[i-1] \o ss[i]
  <2>. DEFINE W == Seq(X)
  <2>1. <<>> \in W /\ G \in [W \X (1..n) -> W]
    <3>1. \A x \in W \X (1..n) : x[1] \o ss[x[2]] \in W
      <4>1. \A x \in W \X (1..n) : x[1] \in W /\ x[2] \in 1..n
        OBVIOUS
      <4>. HIDE DEF n
      <4>. QED  BY <1>1, <4>1
    <3>. QED  BY <3>1
  <2>2. \A w \in W, i \in 1..n : G[<<w, i>>] = w \o ss[i]
    OBVIOUS
  <2>. HIDE DEF G, W, n
  <2>3. PICK f \in [0..n -> W] : f[0] = <<>> /\ \A i \in 1..n : f[i] = G[<<f[i-1], i>>]
    <3>1. n \in Nat
      BY <1>1
    <3>2. \E f : Unfolds(f, W, <<>>, n, G)
      BY <2>1, <3>1, Recursion
    <3>. QED  BY <3>2 DEF Unfolds
  <2>4. \A i \in 1..n : i - 1 \in 0..n
    BY <1>1
  <2>5. \A i \in 1..n : f[i-1] \in W
    BY <2>3, <2>4
  <2>. QED  BY <2>2, <2>3, <2>5 DEF W
<1>3. FlattenSeq(ss) = f[n]
  <2>1. CASE n = 0
    BY <1>2, <2>1 DEF FlattenSeq
  <2>2. CASE n # 0
    <3>. DEFINE E(h) == [i \in 1..n |-> IF i = 1 THEN ss[i] ELSE h[i-1] \o ss[i]]
                h    == CHOOSE h : h = E(h)
                e    == [i \in 1..n |-> f[i]]
    <3>1. FlattenSeq(ss) = h[n]
      BY <2>2 DEF FlattenSeq
    <3>2. f[1] = ss[1]
      <4>1. 1 \in 1..n /\ 1 - 1 = 0
        BY <1>1, <2>2
      <4>2. ss[1] \in Seq(X) /\ f[1] = <<>> \o ss[1]
        <5>. HIDE DEF n
        <5>. QED  BY <1>1, <1>2, <4>1
      <4>. QED  BY <4>2
    <3>3. e = E(e)
      <4>1. \A i \in 1..n : i # 1 => i - 1 \in 1..n /\ e[i-1] = f[i-1]
        BY <1>1
      <4>. HIDE DEF n
      <4>. QED  BY <1>2, <3>2, <4>1
    <3>4. h = E(h)
      <4>. HIDE DEF E, e, n
      <4>. QED  BY <3>3
    <3>. DEFINE P == {i \in 0..n : i > 0 => h[i] = f[i]}
    <3>5. ASSUME NEW i \in 1..n, i - 1 \in P PROVE i \in P
      <4>1. h[i] = IF i = 1 THEN ss[i] ELSE h[i-1] \o ss[i]
        <5>. HIDE DEF h
        <5>. QED  BY <3>4
      <4>. HIDE DEF h, n
      <4>2. CASE i = 1
        BY <1>1, <3>2, <4>1, <4>2
      <4>3. CASE i # 1
        <5>1. i - 1 > 0 /\ i \in 0..n
          BY <1>1, <4>3
        <5>2. h[i-1] = f[i-1]
          BY <3>5, <5>1
        <5>. QED  BY <1>2, <4>1, <4>3, <5>1, <5>2
      <4>. QED  BY <4>2, <4>3
    <3>6. n \in P
      <4>. HIDE DEF h
      <4>1. 0 \in P /\ P \in SUBSET Nat /\ n \in 0..n
        <5>. HIDE DEF n
        <5>. QED  BY <1>1
      <4>. HIDE DEF P, n
      <4>. QED  BY <1>1, <3>5, <4>1, Climb
    <3>. HIDE DEF h
    <3>. QED  BY <1>1, <2>2, <3>1, <3>6
  <2>. QED  BY <2>1, <2>2
<1>. QED  BY <1>2, <1>3

\* What is true of the partial results of FlattenSeq is true of it.
LEMMA FlattenClimb ==
  ASSUME NEW X, NEW ss \in Seq(Seq(X)), NEW Y \in SUBSET Seq(X), <<>> \in Y,
         \A w \in Y, i \in 1..Len(ss) : w \o ss[i] \in Y
  PROVE  FlattenSeq(ss) \in Y
<1>1. PICK f \in [0..Len(ss) -> Seq(X)] :
        /\ f[0] = <<>> /\ \A i \in 1..Len(ss) : f[i] = f[i-1] \o ss[i]
        /\ FlattenSeq(ss) = f[Len(ss)]
  BY Flatten
<1>. DEFINE P == {i \in 0..Len(ss) : f[i] \in Y}
<1>2. Len(ss) \in Nat /\ P \in SUBSET Nat /\ 0 \in P
  BY <1>1
<1>3. ASSUME NEW i \in 1..Len(ss), i - 1 \in P PROVE i \in P
  <2>0. i \in 0..Len(ss)
    BY <1>2
  <2>1. f[i-1] \in Y
    BY <1>3
  <2>2. f[i] \in Y
    <3>1. f[i] = f[i-1] \o ss[i]
      BY <1>1
    <3>. QED  BY <2>1, <3>1
  <2>. QED  BY <2>0, <2>2
<1>4. Len(ss) \in P
  <2>1. Len(ss) \in 0..Len(ss)
    BY <1>2
  <2>. HIDE DEF P
  <2>. QED  BY <1>2, <1>3, <2>1, Climb
<1>. QED  BY <1>1, <1>4

-----------------------------------------------------------------------------
(* The programs of the calls.                                              *)

Cmd   == Command(Tasks \X Nat)
Steps == [do : StepNames \ {"queue"}] \cup [do : {"queue"}, cmds : Seq(Cmd)]

\* What may come after a step of a call, and what may be the last one.
StaticNext ==
  {<<"install", "forget">>, <<"test", "create">>, <<"create", "queue">>, <<"queue", "queue">>,
   <<"queue", "test">>, <<"queue", "flush">>, <<"flush", "check">>, <<"check", "delete">>,
   <<"delete", "null">>}
MessageNext == {<<"make", "queue">>, <<"queue", "begin">>, <<"begin", "drop">>}

NextOf(kind) == IF kind \in Static THEN StaticNext ELSE MessageNext
LastOf(kind) == IF kind \in Static THEN {"forget", "null"} ELSE {"install", "drop"}

\* The rest of a call on an object of a kind.
Chained(kind, p) == \A i \in 1..(Len(p) - 1) : <<p[i].do, p[i+1].do>> \in NextOf(kind)
Rest(kind, p) ==
  /\ p \in Seq(Steps)
  /\ Chained(kind, p)
  /\ p # <<>> => p[Len(p)].do \in LastOf(kind)

\* What is left of a call after some steps is the rest of a call.
LEMMA RestSkips ==
  ASSUME NEW kind, NEW p, Rest(kind, p), NEW n \in 0..Len(p)
  PROVE  /\ Rest(kind, SubSeq(p, n + 1, Len(p)))
         /\ Len(SubSeq(p, n + 1, Len(p))) = Len(p) - n
         /\ \A i \in 1..(Len(p) - n) : SubSeq(p, n + 1, Len(p))[i] = p[n + i]
<1>. DEFINE q == SubSeq(p, n + 1, Len(p))
<1>1. p \in Seq(Steps) /\ Len(p) \in Nat
  BY DEF Rest
<1>2. q \in Seq(Steps) /\ Len(q) = Len(p) - n /\ \A i \in 1..(Len(p) - n) : q[i] = p[n + i]
  BY <1>1
<1>. HIDE DEF q
<1>3. Chained(kind, q)
  <2>1. SUFFICES ASSUME NEW i \in 1..(Len(q) - 1)
                 PROVE  <<q[i].do, q[i+1].do>> \in NextOf(kind)
    BY DEF Chained
  <2>2. /\ i \in 1..(Len(p) - n) /\ i + 1 \in 1..(Len(p) - n)
        /\ n + i \in 1..(Len(p) - 1) /\ n + (i + 1) = (n + i) + 1
    BY <1>1, <1>2, <2>1
  <2>. DEFINE j == i + 1
  <2>3. q[i] = p[n + i] /\ q[j] = p[n + j]
    <3>1. j \in 1..(Len(p) - n)
      BY <2>2
    <3>. HIDE DEF j
    <3>. QED  BY <1>2, <2>2, <3>1
  <2>. QED  BY <2>2, <2>3 DEF Rest, Chained
<1>4. ASSUME q # <<>> PROVE q[Len(q)].do \in LastOf(kind)
  <2>1. Len(q) > 0 /\ p # <<>> /\ q[Len(q)] = p[Len(p)]
    BY <1>1, <1>2, <1>4
  <2>. QED  BY <2>1 DEF Rest
<1>5. Rest(kind, q)
  BY <1>2, <1>3, <1>4 DEF Rest
<1>. QED  BY <1>2, <1>5 DEF q

\* What comes first in the rest of a call on a static, and what follows it.
LEMMA StaticHead ==
  ASSUME NEW kind \in Static, NEW p, Rest(kind, p), p # <<>>
  PROVE  /\ Head(p) = p[1] /\ Len(p) \in Nat \ {0} /\ p[1] \in Steps
         /\ p[1].do \in {"install", "forget", "test", "create", "queue", "flush", "check", "delete", "null"}
         /\ p[1].do \in {"forget", "null"} <=> Len(p) = 1
         /\ p[1].do = "install" => p[2].do = "forget"
         /\ p[1].do = "test"    => Len(p) > 2 /\ p[2].do = "create" /\ p[3].do = "queue"
         /\ p[1].do = "create"  => p[2].do = "queue"
         /\ p[1].do = "queue"   => p[2].do \in {"queue", "test", "flush"}
         /\ p[1].do = "flush"   => p[2].do = "check"
         /\ p[1].do = "check"   => Len(p) = 3 /\ p[2].do = "delete" /\ p[3].do = "null"
         /\ p[1].do = "delete"  => p[2].do = "null"
<1>1. p \in Seq(Steps) /\ Len(p) \in Nat \ {0} /\ p[1] \in Steps /\ Head(p) = p[1]
  BY DEF Rest
<1>2. \A i \in 1..Len(p), j \in Nat : j = i + 1 =>
        \/ i < Len(p) /\ <<p[i].do, p[j].do>> \in StaticNext
        \/ i = Len(p) /\ p[i].do \in {"forget", "null"}
  BY <1>1 DEF Rest, Chained, NextOf, LastOf
<1>3. /\ 1 \in 1..Len(p) /\ (Len(p) > 1 => 2 \in 1..Len(p)) /\ (Len(p) > 2 => 3 \in 1..Len(p))
      /\ 2 = 1 + 1 /\ 3 = 2 + 1 /\ 4 = 3 + 1 /\ 2 \in Nat /\ 3 \in Nat /\ 4 \in Nat
  BY <1>1
<1>4. \/ 1 < Len(p) /\ <<p[1].do, p[2].do>> \in StaticNext
      \/ Len(p) = 1 /\ p[1].do \in {"forget", "null"}
  BY <1>2, <1>3
<1>5. Len(p) > 1 => \/ 2 < Len(p) /\ <<p[2].do, p[3].do>> \in StaticNext
                    \/ Len(p) = 2 /\ p[2].do \in {"forget", "null"}
  BY <1>2, <1>3
<1>6. Len(p) > 2 => \/ 3 < Len(p) /\ <<p[3].do, p[4].do>> \in StaticNext
                    \/ Len(p) = 3 /\ p[3].do \in {"forget", "null"}
  BY <1>2, <1>3
<1>7. \A x, y : <<x, y>> \in StaticNext =>
        \/ x = "install" /\ y = "forget"
        \/ x = "test" /\ y = "create"
        \/ x = "create" /\ y = "queue"
        \/ x = "queue" /\ y \in {"queue", "test", "flush"}
        \/ x = "flush" /\ y = "check"
        \/ x = "check" /\ y = "delete"
        \/ x = "delete" /\ y = "null"
  BY DEF StaticNext
<1>. DEFINE a == p[1].do
            b == p[2].do
            c == p[3].do
            d == p[4].do
<1>. HIDE DEF a, b, c, d
<1>8. /\ a \in {"install", "forget", "test", "create", "queue", "flush", "check", "delete", "null"}
      /\ a \in {"forget", "null"} <=> Len(p) = 1
      /\ a = "install" => b = "forget"
      /\ a = "test"    => b = "create"
      /\ a = "create"  => b = "queue"
      /\ a = "queue"   => b \in {"queue", "test", "flush"}
      /\ a = "flush"   => b = "check"
      /\ a = "check"   => b = "delete"
      /\ a = "delete"  => b = "null"
  BY <1>1, <1>4, <1>7 DEF a, b
<1>9. a = "test" => Len(p) > 2 /\ c = "queue"
  <2>. SUFFICES ASSUME a = "test" PROVE Len(p) > 2 /\ c = "queue"
    OBVIOUS
  <2>0. b = "create" /\ Len(p) # 1
    BY <1>8
  <2>1. b = "create" /\ Len(p) > 1
    BY <1>1, <2>0
  <2>2. Len(p) > 2 /\ <<b, c>> \in StaticNext
    BY <1>5, <2>1 DEF b, c
  <2>. QED  BY <1>7, <2>1, <2>2
<1>10. a = "check" => Len(p) = 3 /\ c = "null"
  <2>. SUFFICES ASSUME a = "check" PROVE Len(p) = 3 /\ c = "null"
    OBVIOUS
  <2>0. b = "delete" /\ Len(p) # 1
    BY <1>8
  <2>1. b = "delete" /\ Len(p) > 1
    <3>1. \A m \in Nat \ {0} : m # 1 => m > 1
      OBVIOUS
    <3>. QED  BY <1>1, <2>0, <3>1
  <2>2. Len(p) > 2 /\ <<b, c>> \in StaticNext
    BY <1>5, <2>1 DEF b, c
  <2>3. c = "null"
    BY <1>7, <2>1, <2>2
  <2>4. ~ (<<c, d>> \in StaticNext)
    BY <1>7, <2>3
  <2>. QED  BY <1>6, <2>2, <2>3, <2>4 DEF c, d
<1>. QED  BY <1>1, <1>8, <1>9, <1>10 DEF a, b, c

\* The same of a call on a message algorithm.
LEMMA MessageHead ==
  ASSUME NEW kind \in Kinds \ Static, NEW p, Rest(kind, p), p # <<>>
  PROVE  /\ Head(p) = p[1] /\ Len(p) \in Nat \ {0} /\ p[1] \in Steps
         /\ p[1].do \in {"install", "make", "queue", "begin", "drop"}
         /\ p[1].do \in {"install", "drop"} <=> Len(p) = 1
         /\ p[1].do = "make"  => p[2].do = "queue"
         /\ p[1].do = "queue" => p[2].do = "begin"
         /\ p[1].do = "begin" => p[2].do = "drop"
<1>1. p \in Seq(Steps) /\ Len(p) \in Nat \ {0} /\ p[1] \in Steps /\ Head(p) = p[1]
  BY DEF Rest
<1>2. \/ 1 < Len(p) /\ <<p[1].do, p[2].do>> \in MessageNext
      \/ Len(p) = 1 /\ p[1].do \in {"install", "drop"}
  <2>1. \A i \in 1..(Len(p) - 1), j \in Nat : j = i + 1 => <<p[i].do, p[j].do>> \in MessageNext
    BY DEF Rest, Chained, NextOf
  <2>2. 1 < Len(p) => 1 \in 1..(Len(p) - 1)
    BY <1>1
  <2>3. p[Len(p)].do \in {"install", "drop"}
    <3>1. p[Len(p)].do \in LastOf(kind)
      BY DEF Rest
    <3>. QED  BY <3>1 DEF LastOf
  <2>4. CASE Len(p) = 1
    <3>1. p[1].do \in {"install", "drop"}
      BY <2>3, <2>4
    <3>. QED  BY <2>4, <3>1
  <2>5. CASE Len(p) # 1
    <3>0. Len(p) \in Nat \ {0}
      BY <1>1
    <3>1. 1 < Len(p)
      <4>1. \A n \in Nat \ {0} : n # 1 => 1 < n
        OBVIOUS
      <4>. QED  BY <2>5, <3>0, <4>1
    <3>2. <<p[1].do, p[2].do>> \in MessageNext
      <4>1. \A i \in 1..(Len(p) - 1) : <<p[i].do, p[i+1].do>> \in MessageNext
        BY DEF Rest, Chained, NextOf
      <4>2. 1 \in 1..(Len(p) - 1) /\ 1 + 1 = 2
        BY <2>2, <3>1
      <4>3. <<p[1].do, p[1+1].do>> \in MessageNext
        BY <4>1, <4>2
      <4>. QED  BY <4>2, <4>3
    <3>. QED  BY <3>1, <3>2
  <2>. QED  BY <2>4, <2>5
<1>3. \A x, y : <<x, y>> \in MessageNext =>
        (x = "make" /\ y = "queue") \/ (x = "queue" /\ y = "begin") \/ (x = "begin" /\ y = "drop")
  BY DEF MessageNext
<1>. QED  BY <1>1, <1>2, <1>3

\* Two parts of a call that fit together.
LEMMA Joins ==
  ASSUME NEW kind, NEW p \in Seq(Steps), NEW q \in Seq(Steps), Chained(kind, p), Chained(kind, q),
         p # <<>> /\ q # <<>> => <<p[Len(p)].do, q[1].do>> \in NextOf(kind)
  PROVE  p \o q \in Seq(Steps) /\ Chained(kind, p \o q)
<1>. DEFINE r == p \o q
            n == Len(p)
<1>1. n \in Nat /\ Len(q) \in Nat /\ r \in Seq(Steps) /\ Len(r) = n + Len(q)
  OBVIOUS
<1>2. /\ \A i \in 1..n : r[i] = p[i]
      /\ \A i \in Nat : i > n /\ i <= n + Len(q) => r[i] = q[i - n]
  OBVIOUS
<1>3. ASSUME NEW i \in 1..(Len(r) - 1), NEW j \in Nat, j = i + 1
      PROVE  <<r[i].do, r[j].do>> \in NextOf(kind)
  <2>. HIDE DEF r
  <2>0. i \in Nat \ {0} /\ j \in Nat
    BY <1>1, <1>3
  <2>1. CASE j <= n
    <3>1. i \in 1..n /\ j \in 1..n /\ i \in 1..(n - 1)
      BY <1>1, <1>3, <2>0, <2>1
    <3>2. <<p[i].do, p[i+1].do>> \in NextOf(kind)
      BY <3>1 DEF Chained
    <3>3. r[i] = p[i] /\ r[j] = p[j]
      BY <1>2, <3>1
    <3>. QED  BY <1>3, <3>2, <3>3
  <2>2. CASE i = n
    <3>1. i \in 1..n /\ j > n /\ j <= n + Len(q) /\ j - n = 1
      BY <1>1, <1>3, <2>0, <2>2
    <3>2. r[i] = p[Len(p)] /\ r[j] = q[1]
      BY <1>2, <2>2, <3>1
    <3>3. p # <<>> /\ q # <<>>
      BY <1>1, <1>3, <2>0, <2>2, <3>1
    <3>. QED  BY <3>2, <3>3
  <2>3. CASE i > n
    <3>. DEFINE k == i - n
    <3>1. /\ j > n /\ i <= n + Len(q) /\ j <= n + Len(q) /\ k \in 1..(Len(q) - 1) /\ j - n = k + 1
          /\ j \in Nat /\ i \in Nat
      BY <1>1, <1>3, <2>0, <2>3
    <3>2. r[i] = q[k] /\ r[j] = q[k + 1]
      BY <1>2, <2>3, <3>1
    <3>3. <<q[k].do, q[k+1].do>> \in NextOf(kind)
      <4>. HIDE DEF k
      <4>. QED  BY <3>1 DEF Chained
    <3>. QED  BY <3>2, <3>3
  <2>. QED  BY <1>1, <1>3, <2>0, <2>1, <2>2, <2>3
<1>4. \A i \in 1..(Len(r) - 1) : <<r[i].do, r[i+1].do>> \in NextOf(kind)
  <2>. HIDE DEF r
  <2>1. \A i \in 1..(Len(r) - 1) : i + 1 \in Nat
    OBVIOUS
  <2>. QED  BY <1>3, <2>1
<1>. QED  BY <1>1, <1>4 DEF Chained

\* The steps that transfer a message through the hardware algorithm, and those that end
\* the transfer.
Body(t, ms, i) ==
  LET who == <<t, i>>
  IN  start(who, ms[i].read)
        \o Queue(IF ms[i].read THEN Read(who, ms[i].count, FALSE) ELSE Write(who, ms[i].count))
        \o (IF ms[i].repstart THEN <<>> ELSE Queue(<<Stop>>))
Flushed == <<Do("flush"), Do("check"), Do("delete"), Do("null")>>

LEMMA HardwareProgram ==
  ASSUME NEW t, NEW ms
  PROVE  HardwareTransfer(t, ms) = FlattenSeq([i \in DOMAIN ms |-> Body(t, ms, i)]) \o Flushed
  BY DEF HardwareTransfer, Body, Flushed

LEMMA SmallSeqs ==
  ASSUME NEW X
  PROVE  /\ <<>> \in Seq(X)
         /\ \A a \in X : <<a>> \in Seq(X)
         /\ \A a, b \in X : <<a, b>> \in Seq(X)
         /\ \A p, q \in Seq(X) : p \o q \in Seq(X)
  OBVIOUS

\* The commands of a message.
LEMMA BodyCommands ==
  ASSUME NEW t \in Tasks, NEW ms \in Seq(Message), NEW i \in DOMAIN ms
  PROVE  /\ Begin(<<t, i>>, ms[i].read) \in Seq(Cmd)
         /\ Read(<<t, i>>, ms[i].count, FALSE) \in Seq(Cmd)
         /\ Write(<<t, i>>, ms[i].count) \in Seq(Cmd)
         /\ <<Stop>> \in Seq(Cmd)
         /\ prepareTransfer(<<t, i>>, ms[i]) \in Seq(Cmd)
         /\ <<Start>> \in Seq(Cmd)
<1>1. ms[i] \in Message /\ ms[i].read \in BOOLEAN /\ ms[i].count \in Nat /\ <<t, i>> \in Tasks \X Nat
  <2>1. ms[i] \in Message /\ i \in Nat
    OBVIOUS
  <2>. QED  BY <2>1 DEF Message
<1>. DEFINE who == <<t, i>>
            m   == ms[i]
<1>2. \A read \in BOOLEAN : Address(who, read) \in Cmd
  BY <1>1 DEF Address, Cmd, Command
<1>3. \A n \in Nat, at \in Int, ack \in {ACK, NACK} : ReadBytes(who, at, n, ack) \in Cmd
  BY <1>1 DEF ReadBytes, Cmd, Command
<1>4. \A n \in Nat : WriteBytes(who, n) \in Cmd
  BY <1>1 DEF WriteBytes, Cmd, Command
<1>5. Start \in Cmd /\ Stop \in Cmd
  BY DEF Cmd, Command
<1>6. Begin(who, m.read) \in Seq(Cmd)
  BY <1>1, <1>2, <1>5 DEF Begin
<1>7. Read(who, m.count, FALSE) \in Seq(Cmd)
  BY <1>1, <1>3 DEF Read
<1>8. Write(who, m.count) \in Seq(Cmd)
  BY <1>1, <1>4 DEF Write
<1>9. prepareTransfer(who, m) \in Seq(Cmd)
  <2>. DEFINE A(read) == <<Address(who, read)>>
              M == IF m.count > 1 THEN <<ReadBytes(who, 0, m.count - 1, ACK)>> ELSE <<>>
              L == <<ReadBytes(who, m.count - 1, 1, NACK)>>
              V == <<Address(who, FALSE), WriteBytes(who, m.count)>>
  <2>1. prepareTransfer(who, m) = IF m.read THEN (A(TRUE) \o M) \o L ELSE V
    BY DEF prepareTransfer
  <2>2. \A read \in BOOLEAN : A(read) \in Seq(Cmd)
    BY <1>2
  <2>3. M \in Seq(Cmd)
    <3>1. 0 \in Int /\ ACK \in {ACK, NACK} /\ (m.count > 1 => m.count - 1 \in Nat)
      BY <1>1
    <3>2. m.count > 1 => ReadBytes(who, 0, m.count - 1, ACK) \in Cmd
      BY <1>3, <3>1
    <3>. QED  BY <3>2
  <2>4. L \in Seq(Cmd)
    <3>1. m.count - 1 \in Int /\ 1 \in Nat /\ NACK \in {ACK, NACK}
      BY <1>1
    <3>2. ReadBytes(who, m.count - 1, 1, NACK) \in Cmd
      BY <1>3, <3>1
    <3>. QED  BY <3>2
  <2>5. V \in Seq(Cmd)
    <3>1. Address(who, FALSE) \in Cmd /\ WriteBytes(who, m.count) \in Cmd
      BY <1>1, <1>2, <1>4
    <3>. QED  BY <3>1, SmallSeqs
  <2>. HIDE DEF A, M, L, V
  <2>6. (A(TRUE) \o M) \o L \in Seq(Cmd)
    BY <2>2, <2>3, <2>4, SmallSeqs
  <2>. QED  BY <2>1, <2>5, <2>6
<1>10. <<Start>> \in Seq(Cmd) /\ <<Stop>> \in Seq(Cmd)
  BY <1>5
<1>. HIDE DEF m, who
<1>11. prepareTransfer(who, m) \in Seq(Cmd) /\ Begin(who, m.read) \in Seq(Cmd)
       /\ Read(who, m.count, FALSE) \in Seq(Cmd) /\ Write(who, m.count) \in Seq(Cmd)
  BY <1>6, <1>7, <1>8, <1>9
<1>. QED  BY <1>10, <1>11 DEF m, who

\* The steps of a message, one by one.
Moves(who, m) == IF m.read THEN Read(who, m.count, FALSE) ELSE Write(who, m.count)
Queued(cmds)  == [do |-> "queue", cmds |-> cmds]

LEMMA BodySteps ==
  ASSUME NEW t, NEW ms, NEW i
  PROVE  Body(t, ms, i) =
           ((<<Do("test"), Do("create")>> \o <<Queued(Begin(<<t, i>>, ms[i].read))>>)
             \o <<Queued(Moves(<<t, i>>, ms[i]))>>)
             \o (IF ms[i].repstart THEN <<>> ELSE <<Queued(<<Stop>>)>>)
  BY DEF Body, start, Queue, Queued, Moves

LEMMA StepsAre ==
  /\ \A d \in StepNames \ {"queue"} : Do(d) \in Steps /\ Do(d).do = d
  /\ \A c \in Seq(Cmd) : Queued(c) \in Steps /\ Queued(c).do = "queue" /\ Queued(c).cmds = c
  BY DEF Steps, Do, Queued

LEMMA TwoParts ==
  ASSUME NEW X, NEW p \in Seq(X), NEW q \in Seq(X)
  PROVE  /\ p \o q \in Seq(X) /\ Len(p \o q) = Len(p) + Len(q)
         /\ \A j \in 1..Len(p) : (p \o q)[j] = p[j]
         /\ \A j \in 1..Len(q) : (p \o q)[Len(p) + j] = q[j]
<1>. DEFINE m == Len(p)
            n == Len(q)
            r == p \o q
<1>1. m \in Nat /\ n \in Nat
  OBVIOUS
<1>2. r \in Seq(X) /\ Len(r) = m + n /\ \A i \in 1..(m + n) : r[i] = IF i <= m THEN p[i] ELSE q[i - m]
  BY ConcatProperties
<1>. HIDE DEF m, n, r
<1>3. \A j \in 1..m : j \in 1..(m + n) /\ j <= m
  BY <1>1
<1>4. \A j \in 1..n : m + j \in 1..(m + n) /\ ~(m + j <= m) /\ (m + j) - m = j
  BY <1>1
<1>5. \A j \in 1..m : r[j] = p[j]
  BY <1>2, <1>3
<1>6. \A j \in 1..n : r[m + j] = q[j]
  BY <1>2, <1>4
<1>. QED  BY <1>2, <1>5, <1>6 DEF m, n, r

LEMMA OneMore ==
  ASSUME NEW X, NEW s \in Seq(X), NEW x \in X
  PROVE  /\ s \o <<x>> \in Seq(X) /\ Len(s \o <<x>>) = Len(s) + 1
         /\ \A j \in 1..Len(s) : (s \o <<x>>)[j] = s[j]
         /\ (s \o <<x>>)[Len(s) + 1] = x
<1>. DEFINE e == <<x>>
            n == Len(s)
<1>1. e \in Seq(X) /\ Len(e) = 1 /\ e[1] = x /\ n \in Nat
  OBVIOUS
<1>. HIDE DEF e
<1>2. /\ s \o e \in Seq(X) /\ Len(s \o e) = n + 1
      /\ \A i \in 1..(n + 1) : (s \o e)[i] = IF i <= n THEN s[i] ELSE e[i - n]
  BY <1>1, ConcatProperties
<1>. HIDE DEF n
<1>3. (s \o e)[n + 1] = x
  <2>1. n + 1 \in 1..(n + 1) /\ ~(n + 1 <= n) /\ (n + 1) - n = 1
    BY <1>1
  <2>. QED  BY <1>1, <1>2, <2>1
<1>4. \A i \in 1..n : (s \o e)[i] = s[i]
  <2>1. \A i \in 1..n : i \in 1..(n + 1) /\ i <= n
    BY <1>1
  <2>. QED  BY <1>2, <2>1
<1>. QED  BY <1>2, <1>3, <1>4 DEF e, n

\* Part of a transfer through a static: whole messages.
Messages(p) ==
  /\ p \in Seq(Steps) /\ Chained("hal", p)
  /\ p # <<>> => p[1].do = "test" /\ p[Len(p)].do = "queue"

LEMMA BodyChained ==
  ASSUME NEW t \in Tasks, NEW ms \in Seq(Message), NEW i \in DOMAIN ms
  PROVE  Messages(Body(t, ms, i)) /\ Body(t, ms, i) # <<>>
<1>. DEFINE b == Queued(Begin(<<t, i>>, ms[i].read))
            m == Queued(Moves(<<t, i>>, ms[i]))
            s == Queued(<<Stop>>)
            B == Body(t, ms, i)
<1>1. Moves(<<t, i>>, ms[i]) \in Seq(Cmd) /\ Begin(<<t, i>>, ms[i].read) \in Seq(Cmd) /\ <<Stop>> \in Seq(Cmd)
  BY BodyCommands DEF Moves
<1>2. /\ b \in Steps /\ m \in Steps /\ s \in Steps
      /\ b.do = "queue" /\ m.do = "queue" /\ s.do = "queue"
  BY <1>1, StepsAre
<1>3. /\ Do("test") \in Steps /\ Do("create") \in Steps
      /\ Do("test").do = "test" /\ Do("create").do = "create"
  BY StepsAre DEF StepNames
<1>. DEFINE P == <<Do("test"), Do("create")>>
            S == IF ms[i].repstart THEN <<>> ELSE <<s>>
<1>4. B = ((P \o <<b>>) \o <<m>>) \o S
  BY BodySteps
<1>. HIDE DEF b, m, s, B
<1>5. /\ B \in Seq(Steps) /\ Len(B) \in {4, 5}
      /\ B[1].do = "test" /\ B[2].do = "create" /\ B[3].do = "queue" /\ B[4].do = "queue"
      /\ Len(B) = 5 => B[5].do = "queue"
  <2>1. P \in Seq(Steps) /\ Len(P) = 2 /\ P[1].do = "test" /\ P[2].do = "create"
    BY <1>3
  <2>. DEFINE Q == P \o <<b>>
              R == Q \o <<m>>
  <2>. HIDE DEF P
  <2>2. Q \in Seq(Steps) /\ Len(Q) = 3 /\ Q[1] = P[1] /\ Q[2] = P[2] /\ Q[3] = b
    <3>1. 2 \in Nat /\ 2 + 1 = 3 /\ 1 \in 1..2 /\ 2 \in 1..2
      OBVIOUS
    <3>0. P \in Seq(Steps) /\ b \in Steps
      BY <1>2, <2>1
    <3>2. Q \in Seq(Steps) /\ Len(Q) = Len(P) + 1
      BY ONLY <3>0, OneMore
    <3>3. (\A j \in 1..Len(P) : Q[j] = P[j]) /\ Q[Len(P) + 1] = b
      BY ONLY <3>0, OneMore
    <3>. HIDE DEF Q
    <3>. QED  BY <2>1, <3>1, <3>2, <3>3
  <2>. HIDE DEF Q
  <2>3. R \in Seq(Steps) /\ Len(R) = 4 /\ R[1] = Q[1] /\ R[2] = Q[2] /\ R[3] = Q[3] /\ R[4] = m
    <3>1. 3 \in Nat /\ 3 + 1 = 4 /\ 1 \in 1..3 /\ 2 \in 1..3 /\ 3 \in 1..3
      OBVIOUS
    <3>0. Q \in Seq(Steps) /\ m \in Steps
      BY <1>2, <2>2
    <3>2. R \in Seq(Steps) /\ Len(R) = Len(Q) + 1
      BY ONLY <3>0, OneMore
    <3>3. (\A j \in 1..Len(Q) : R[j] = Q[j]) /\ R[Len(Q) + 1] = m
      BY ONLY <3>0, OneMore
    <3>. HIDE DEF R
    <3>. QED  BY <2>2, <3>1, <3>2, <3>3
  <2>4. B = R \o S
    BY <1>4 DEF Q
  <2>. HIDE DEF R
  <2>5. CASE ms[i].repstart
    <3>1. B = R
      BY <2>3, <2>4, <2>5
    <3>. QED  BY <1>2, <2>1, <2>2, <2>3, <3>1
  <2>6. CASE ~ms[i].repstart
    <3>1. B = R \o <<s>>
      BY <2>4, <2>6
    <3>2. 4 \in Nat /\ 4 + 1 = 5 /\ 1 \in 1..4 /\ 2 \in 1..4 /\ 3 \in 1..4 /\ 4 \in 1..4
      OBVIOUS
    <3>3. /\ B \in Seq(Steps) /\ Len(B) = 5
          /\ B[1] = R[1] /\ B[2] = R[2] /\ B[3] = R[3] /\ B[4] = R[4] /\ B[5] = s
      <4>0. R \in Seq(Steps) /\ s \in Steps
        BY <1>2, <2>3
      <4>1. R \o <<s>> \in Seq(Steps) /\ Len(R \o <<s>>) = Len(R) + 1
        BY ONLY <4>0, OneMore
      <4>2. (\A j \in 1..Len(R) : (R \o <<s>>)[j] = R[j]) /\ (R \o <<s>>)[Len(R) + 1] = s
        BY ONLY <4>0, OneMore
      <4>. QED  BY <2>3, <3>1, <3>2, <4>1, <4>2
    <3>. QED  BY <1>2, <2>1, <2>2, <2>3, <3>3
  <2>. QED  BY <2>5, <2>6
<1>6. ASSUME NEW j \in 1..(Len(B) - 1) PROVE <<B[j].do, B[j+1].do>> \in NextOf("hal")
  <2>. DEFINE n == Len(B)
  <2>0. n \in {4, 5} /\ j \in 1..(n - 1)
    BY <1>5, <1>6
  <2>1. j \in {1, 2, 3, 4} /\ (j = 4 => Len(B) = 5)
    <3>. HIDE DEF n
    <3>1. j \in {1, 2, 3, 4} /\ (j = 4 => n = 5)
      BY <2>0
    <3>. QED  BY <3>1 DEF n
  <2>2. /\ j = 1 => B[j].do = "test" /\ B[j+1].do = "create"
        /\ j = 2 => B[j].do = "create" /\ B[j+1].do = "queue"
        /\ j = 3 => B[j].do = "queue" /\ B[j+1].do = "queue"
        /\ j = 4 => B[j].do = "queue" /\ B[j+1].do = "queue"
    BY <1>5, <2>1
  <2>. QED  BY <2>1, <2>2 DEF NextOf, StaticNext, Static
<1>7. Chained("hal", B)
  BY <1>6 DEF Chained
<1>. QED  BY <1>5, <1>7 DEF Messages, B

\* Each call on a static is the rest of one.
LEMMA StaticProgram ==
  ASSUME NEW kind \in Static, NEW t \in Tasks, NEW ms \in Seq(Message)
  PROVE  /\ Rest(kind, HardwareTransfer(t, ms))
         /\ HardwareTransfer(t, ms)[1].do \in {"test", "flush"}
         /\ HardwareTransfer(t, ms) # <<>>
<1>. DEFINE ss == [i \in DOMAIN ms |-> Body(t, ms, i)]
            Y  == {p \in Seq(Steps) : Messages(p)}
            F  == FlattenSeq(ss)
<1>1. \A i \in DOMAIN ms : Body(t, ms, i) \in Seq(Steps) /\ Messages(Body(t, ms, i))
  BY BodyChained DEF Messages
<1>2. ss \in Seq(Seq(Steps)) /\ Len(ss) = Len(ms)
  BY <1>1
<1>3. ASSUME NEW w \in Y, NEW i \in 1..Len(ss) PROVE w \o ss[i] \in Y
  <2>1. Messages(w) /\ Messages(ss[i]) /\ w \in Seq(Steps) /\ ss[i] \in Seq(Steps) /\ ss[i] # <<>>
    <3>1. i \in DOMAIN ms /\ ss[i] = Body(t, ms, i)
      BY <1>2
    <3>. QED  BY <3>1, <1>1, BodyChained
  <2>. DEFINE v == ss[i]
  <2>. HIDE DEF v, ss, F
  <2>2. <<"queue", "test">> \in NextOf("hal")
    BY DEF NextOf, StaticNext, Static
  <2>3. w \o v \in Seq(Steps) /\ Chained("hal", w \o v)
    BY <2>1, <2>2, Joins DEF Messages, v
  <2>4. (w \o v)[1] = (IF w = <<>> THEN v[1] ELSE w[1]) /\ (w \o v)[Len(w \o v)] = v[Len(v)]
    BY <2>1 DEF v
  <2>. QED  BY <2>1, <2>3, <2>4 DEF Messages, v
<1>4. <<>> \in Y
  BY DEF Messages, Chained
<1>5. F \in Y
  <2>1. Y \in SUBSET Seq(Steps)
    OBVIOUS
  <2>. HIDE DEF Y, ss
  <2>. QED  BY <1>2, <1>3, <1>4, <2>1, FlattenClimb
<1>6. /\ Flushed \in Seq(Steps) /\ Chained("hal", Flushed) /\ Len(Flushed) = 4
      /\ Flushed[1].do = "flush" /\ Flushed[4].do = "null"
  <2>1. /\ Do("flush") \in Steps /\ Do("check") \in Steps /\ Do("delete") \in Steps /\ Do("null") \in Steps
        /\ Do("flush").do = "flush" /\ Do("check").do = "check"
        /\ Do("delete").do = "delete" /\ Do("null").do = "null"
    BY StepsAre DEF StepNames
  <2>2. /\ Flushed \in Seq(Steps) /\ Len(Flushed) = 4
        /\ Flushed[1] = Do("flush") /\ Flushed[2] = Do("check")
        /\ Flushed[3] = Do("delete") /\ Flushed[4] = Do("null")
    BY <2>1 DEF Flushed
  <2>3. ASSUME NEW j \in 1..(Len(Flushed) - 1) PROVE <<Flushed[j].do, Flushed[j+1].do>> \in NextOf("hal")
    <3>1. j \in {1, 2, 3}
      BY <2>2
    <3>2. /\ j = 1 => Flushed[j].do = "flush" /\ Flushed[j+1].do = "check"
          /\ j = 2 => Flushed[j].do = "check" /\ Flushed[j+1].do = "delete"
          /\ j = 3 => Flushed[j].do = "delete" /\ Flushed[j+1].do = "null"
      BY <2>1, <2>2, <3>1
    <3>. QED  BY <3>1, <3>2 DEF NextOf, StaticNext, Static
  <2>. QED  BY <2>1, <2>2, <2>3 DEF Chained
<1>. DEFINE R == F \o Flushed
<1>7. R \in Seq(Steps) /\ Chained("hal", R)
  <2>1. <<"queue", "flush">> \in NextOf("hal")
    BY DEF NextOf, StaticNext, Static
  <2>2. F \in Seq(Steps) /\ Messages(F)
    <3>. HIDE DEF F
    <3>. QED  BY <1>5
  <2>. HIDE DEF F
  <2>. QED  BY <1>6, <2>1, <2>2, Joins DEF Messages
<1>8. R # <<>> /\ R[Len(R)] = Flushed[4] /\ R[1] = (IF F = <<>> THEN Flushed[1] ELSE F[1])
  <2>1. F \in Seq(Steps)
    <3>. HIDE DEF F
    <3>. QED  BY <1>5
  <2>. HIDE DEF F
  <2>2. Flushed \in Seq(Steps) /\ Len(Flushed) = 4
    BY <1>6
  <2>3. ASSUME NEW f \in Seq(Steps), NEW g \in Seq(Steps), Len(g) = 4
        PROVE  f \o g # <<>> /\ (f \o g)[Len(f \o g)] = g[4] /\ (f \o g)[1] = (IF f = <<>> THEN g[1] ELSE f[1])
    <3>0. Len(f) \in Nat /\ Len(f \o g) = Len(f) + Len(g)
      OBVIOUS
    <3>1. Len(f) \in Nat /\ Len(f \o g) = Len(f) + 4
      BY <2>3, <3>0
    <3>2. (f \o g)[Len(f) + 4] = g[4]
      BY <2>3, <3>1
    <3>3. (f \o g)[1] = (IF f = <<>> THEN g[1] ELSE f[1])
      BY <2>3, <3>1
    <3>. QED  BY <3>1, <3>2, <3>3
  <2>. QED  BY <2>1, <2>2, <2>3
<1>9. R[1].do \in {"test", "flush"}
  <2>1. Messages(F)
    <3>. HIDE DEF F
    <3>. QED  BY <1>5
  <2>. HIDE DEF F, R
  <2>. QED  BY <1>6, <1>8, <2>1 DEF Messages
<1>10. Chained(kind, R)
  <2>. HIDE DEF R
  <2>. QED  BY <1>7 DEF Chained, NextOf, Static
<1>11. R = HardwareTransfer(t, ms)
  BY HardwareProgram
<1>. HIDE DEF R, F
<1>. QED  BY <1>6, <1>7, <1>8, <1>9, <1>10, <1>11 DEF Rest, LastOf

\* The commands of a message in a vector, those of a transfer through a message algorithm.
Block(t, ms, i) ==
  (<<Start>> \o prepareTransfer(<<t, i>>, ms[i])) \o (IF ms[i].repstart THEN <<>> ELSE <<Stop>>)

LEMMA VectorBlocks ==
  ASSUME NEW t, NEW ms
  PROVE  VectorCommands(t, ms) = FlattenSeq([i \in DOMAIN ms |-> Block(t, ms, i)])
  BY DEF VectorCommands, Block

LEMMA BlockCommands ==
  ASSUME NEW t \in Tasks, NEW ms \in Seq(Message), NEW i \in DOMAIN ms
  PROVE  Block(t, ms, i) \in Seq(Cmd)
<1>. DEFINE a == <<Start>>
            b == prepareTransfer(<<t, i>>, ms[i])
            c == IF ms[i].repstart THEN <<>> ELSE <<Stop>>
<1>1. a \in Seq(Cmd) /\ b \in Seq(Cmd) /\ c \in Seq(Cmd)
  <2>1. a \in Seq(Cmd) /\ b \in Seq(Cmd) /\ <<Stop>> \in Seq(Cmd)
    BY BodyCommands
  <2>2. <<>> \in Seq(Cmd)
    BY SmallSeqs
  <2>. QED  BY <2>1, <2>2
<1>. HIDE DEF a, b, c
<1>2. (a \o b) \o c \in Seq(Cmd)
  BY <1>1, SmallSeqs
<1>. QED  BY <1>2 DEF Block, a, b, c

LEMMA MessageCommandsAre ==
  ASSUME NEW t \in Tasks, NEW ms \in Seq(Message)
  PROVE  Commands(t, ms) \in Seq(Cmd)
<1>1. CASE Len(ms) = 1
  <2>. DEFINE a == <<Start>>
              b == prepareTransfer(<<t, 1>>, ms[1])
              c == <<Stop>>
  <2>1. 1 \in DOMAIN ms
    BY <1>1
  <2>2. a \in Seq(Cmd) /\ b \in Seq(Cmd) /\ c \in Seq(Cmd)
    BY <2>1, BodyCommands
  <2>3. Commands(t, ms) = (a \o b) \o c
    BY <1>1 DEF Commands, MessageCommands
  <2>. HIDE DEF a, b, c
  <2>4. a \o b \in Seq(Cmd)
    BY <2>2, SmallSeqs
  <2>. QED  BY <2>2, <2>3, <2>4, SmallSeqs
<1>2. CASE Len(ms) # 1
  <2>. DEFINE ss == [i \in DOMAIN ms |-> Block(t, ms, i)]
              Y  == Seq(Cmd)
  <2>1. ss \in Seq(Seq(Cmd)) /\ \A i \in 1..Len(ss) : ss[i] \in Seq(Cmd)
    BY BlockCommands
  <2>2. FlattenSeq(ss) \in Y
    <3>1. <<>> \in Y /\ Y \in SUBSET Seq(Cmd)
      OBVIOUS
    <3>2. ASSUME NEW w \in Y, NEW i \in 1..Len(ss) PROVE w \o ss[i] \in Y
      <4>1. ss[i] \in Seq(Cmd)
        BY <2>1
      <4>. HIDE DEF ss
      <4>. QED  BY <4>1, SmallSeqs
    <3>. HIDE DEF Y, ss
    <3>. QED  BY <2>1, <3>1, <3>2, FlattenClimb
  <2>. QED  BY <1>2, <2>2, VectorBlocks DEF Commands
<1>. QED  BY <1>1, <1>2

LEMMA MessageProgram ==
  ASSUME NEW kind \in Kinds \ Static, NEW t \in Tasks, NEW ms \in Seq(Message)
  PROVE  /\ Rest(kind, MessageTransfer(t, ms))
         /\ MessageTransfer(t, ms) # <<>>
         /\ Len(MessageTransfer(t, ms)) = 4
         /\ MessageTransfer(t, ms)[1].do = "make"
         /\ MessageTransfer(t, ms)[2] = Queued(Commands(t, ms))
         /\ MessageTransfer(t, ms)[3].do = "begin"
         /\ MessageTransfer(t, ms)[4].do = "drop"
<1>. DEFINE q == Queued(Commands(t, ms))
            M == <<Do("make")>>
            E == <<Do("begin"), Do("drop")>>
            F == M \o <<q>>
            R == F \o E
<1>1. q \in Steps /\ q.do = "queue" /\ q.cmds = Commands(t, ms)
  BY StepsAre, MessageCommandsAre
<1>2. /\ Do("make") \in Steps /\ Do("begin") \in Steps /\ Do("drop") \in Steps
      /\ Do("make").do = "make" /\ Do("begin").do = "begin" /\ Do("drop").do = "drop"
  BY StepsAre DEF StepNames
<1>3. MessageTransfer(t, ms) = R
  BY DEF MessageTransfer, Queue, Queued
<1>. HIDE DEF q
<1>4. /\ M \in Seq(Steps) /\ Len(M) = 1 /\ M[1] = Do("make")
      /\ E \in Seq(Steps) /\ Len(E) = 2 /\ E[1] = Do("begin") /\ E[2] = Do("drop")
  BY <1>2
<1>. HIDE DEF M, E
<1>5. F \in Seq(Steps) /\ Len(F) = 2 /\ F[1] = Do("make") /\ F[2] = q
  <2>1. M \in Seq(Steps) /\ q \in Steps
    BY <1>1, <1>4
  <2>2. F \in Seq(Steps) /\ Len(F) = Len(M) + 1
    BY ONLY <2>1, OneMore
  <2>3. (\A j \in 1..Len(M) : F[j] = M[j]) /\ F[Len(M) + 1] = q
    BY ONLY <2>1, OneMore
  <2>4. 1 \in 1..1 /\ 1 + 1 = 2
    OBVIOUS
  <2>. HIDE DEF F
  <2>. QED  BY <1>4, <2>2, <2>3, <2>4
<1>. HIDE DEF F
<1>6. R \in Seq(Steps) /\ Len(R) = 4 /\ R[1] = F[1] /\ R[2] = F[2] /\ R[3] = E[1] /\ R[4] = E[2]
  <2>1. F \in Seq(Steps) /\ E \in Seq(Steps)
    BY <1>4, <1>5
  <2>2. R \in Seq(Steps) /\ Len(R) = Len(F) + Len(E)
    BY ONLY <2>1, TwoParts
  <2>3. \A j \in 1..Len(F) : R[j] = F[j]
    BY ONLY <2>1, TwoParts
  <2>4. \A j \in 1..Len(E) : R[Len(F) + j] = E[j]
    BY ONLY <2>1, TwoParts
  <2>5. 1 \in 1..2 /\ 2 \in 1..2 /\ 2 + 1 = 3 /\ 2 + 2 = 4
    OBVIOUS
  <2>. HIDE DEF R
  <2>. QED  BY <1>4, <1>5, <2>2, <2>3, <2>4, <2>5
<1>. HIDE DEF R
<1>7. R[1].do = "make" /\ R[2] = q /\ R[2].do = "queue" /\ R[3].do = "begin" /\ R[4].do = "drop"
  BY <1>1, <1>2, <1>4, <1>5, <1>6
<1>8. Chained(kind, R)
  <2>1. ASSUME NEW j \in 1..3, NEW k \in Nat, k = j + 1
        PROVE  <<R[j].do, R[k].do>> \in MessageNext
    <3>1. (j = 1 /\ k = 2) \/ (j = 2 /\ k = 3) \/ (j = 3 /\ k = 4)
      BY <2>1
    <3>. QED  BY <1>7, <3>1 DEF MessageNext
  <2>2. Len(R) - 1 = 3 /\ \A j \in 1..3 : j + 1 \in Nat
    BY <1>6
  <2>. QED  BY <2>1, <2>2 DEF Chained, NextOf
<1>9. Rest(kind, R) /\ R # <<>>
  <2>1. R # <<>> /\ R[Len(R)].do \in LastOf(kind)
    BY <1>6, <1>7 DEF LastOf
  <2>. QED  BY <1>6, <1>8, <2>1 DEF Rest
<1>. QED  BY <1>3, <1>6, <1>7, <1>9 DEF q

\* Construction of an object.
LEMMA ConstructProgram ==
  ASSUME NEW kind \in Kinds
  PROVE  /\ Rest(kind, Construct(kind)) /\ Construct(kind) # <<>>
         /\ Construct(kind)[1].do = "install"
<1>1. /\ Do("install") \in Steps /\ Do("install").do = "install"
      /\ Do("forget") \in Steps /\ Do("forget").do = "forget"
  BY StepsAre DEF StepNames
<1>2. CASE kind \notin Static
  <2>. DEFINE R == <<Do("install")>>
  <2>1. Construct(kind) = R
    BY <1>2 DEF Construct
  <2>2. R \in Seq(Steps) /\ Len(R) = 1 /\ R[1].do = "install" /\ R # <<>>
    BY <1>1
  <2>. HIDE DEF R
  <2>3. Chained(kind, R)
    <3>1. \A i \in 1..(1 - 1) : FALSE
      OBVIOUS
    <3>. QED  BY <2>2, <3>1 DEF Chained
  <2>. QED  BY <1>2, <2>1, <2>2, <2>3 DEF Rest, LastOf
<1>3. CASE kind \in Static
  <2>. DEFINE R == <<Do("install"), Do("forget")>>
  <2>1. Construct(kind) = R
    BY <1>3 DEF Construct
  <2>3. R \in Seq(Steps) /\ Len(R) = 2 /\ R[1].do = "install" /\ R[2].do = "forget" /\ R # <<>>
    BY <1>1
  <2>. HIDE DEF R
  <2>4. Chained(kind, R)
    <3>1. \A i \in 1..(2 - 1) : i = 1 /\ 1 + 1 = 2
      OBVIOUS
    <3>2. <<R[1].do, R[2].do>> \in NextOf(kind)
      BY <1>3, <2>3 DEF NextOf, StaticNext
    <3>. QED  BY <2>3, <3>1, <3>2 DEF Chained
  <2>. QED  BY <1>3, <2>1, <2>3, <2>4 DEF Rest, LastOf
<1>. QED  BY <1>2, <1>3

-----------------------------------------------------------------------------
(* The bus.                                                                *)

Byte == [who : Tasks \X Nat, at : Int]
Wire == [phase : Phases, legal : BOOLEAN, moved : Seq(Byte)]

LEMMA BytesAre ==
  ASSUME NEW who \in Tasks \X Nat, NEW at \in Int, NEW n \in Nat
  PROVE  /\ Bytes(who, at, n) \in Seq(Byte)
         /\ Len(Bytes(who, at, n)) = n
         /\ \A i \in 1..n : Bytes(who, at, n)[i] = [who |-> who, at |-> at + i - 1]
  BY DEF Bytes, Byte

\* Each command, one by one.
LEMMA DriveStart ==
  ASSUME NEW w \in Wire
  PROVE  /\ Drive(w, Start) \in Wire
         /\ Drive(w, Start).phase = "open" /\ Drive(w, Start).moved = w.moved
         /\ Drive(w, Start).legal = (w.legal /\ w.phase # "held")
  BY DEF Drive, Start, Wire, Phases

LEMMA DriveStop ==
  ASSUME NEW w \in Wire
  PROVE  /\ Drive(w, Stop) \in Wire
         /\ Drive(w, Stop).phase = "idle" /\ Drive(w, Stop).moved = w.moved
         /\ Drive(w, Stop).legal = (w.legal /\ w.phase \notin {"held", "idle"})
  BY DEF Drive, Stop, Wire, Phases

LEMMA DriveAddress ==
  ASSUME NEW w \in Wire, NEW who, NEW read \in BOOLEAN
  PROVE  LET v == Drive(w, [op |-> "address", who |-> who, read |-> read])
         IN  /\ v \in Wire
             /\ v.phase = (IF read THEN "held" ELSE "writing") /\ v.moved = w.moved
             /\ v.legal = (w.legal /\ w.phase = "open")
  BY DEF Drive, Wire, Phases

LEMMA DriveWrite ==
  ASSUME NEW w \in Wire, NEW who \in Tasks \X Nat, NEW n \in Nat
  PROVE  LET v == Drive(w, [op |-> "write", who |-> who, n |-> n])
         IN  /\ v \in Wire
             /\ v.phase = w.phase /\ v.moved = w.moved \o Bytes(who, 0, n)
             /\ v.legal = (w.legal /\ w.phase = "writing")
<1>. DEFINE c == [op |-> "write", who |-> who, n |-> n]
            b == Bytes(who, 0, n)
            v == [[w EXCEPT !.phase = w.phase, !.legal = @ /\ w.phase = "writing"] EXCEPT !.moved = @ \o b]
<1>1. Drive(w, c) = v
  BY DEF Drive
<1>2. b \in Seq(Byte)
  BY BytesAre
<1>. HIDE DEF b
<1>3. v \in Wire /\ v.phase = w.phase /\ v.moved = w.moved \o b /\ v.legal = (w.legal /\ w.phase = "writing")
  <2>. DEFINE l == w.legal /\ w.phase = "writing"
              m == w.moved \o b
              x == w.phase
  <2>1. w.moved \in Seq(Byte) /\ x \in Phases /\ l \in BOOLEAN
    BY <1>2 DEF Wire
  <2>2. m \in Seq(Byte)
    BY <1>2, <2>1
  <2>3. v = [[w EXCEPT !.phase = x, !.legal = l] EXCEPT !.moved = m]
    BY DEF Wire
  <2>. HIDE DEF l, m, x, v
  <2>4. v \in Wire /\ v.phase = x /\ v.moved = m /\ v.legal = l
    BY <2>1, <2>2, <2>3 DEF Wire
  <2>. QED  BY <2>4 DEF l, m, x
<1>. QED  BY <1>1, <1>3 DEF b

LEMMA DriveRead ==
  ASSUME NEW w \in Wire, NEW who \in Tasks \X Nat, NEW at \in Int, NEW n \in Nat, NEW ack
  PROVE  LET v == Drive(w, [op |-> "read", who |-> who, at |-> at, n |-> n, ack |-> ack])
         IN  /\ v \in Wire
             /\ n < 1 => v = w
             /\ n > 0 => /\ v.phase = (IF ack = NACK THEN "read" ELSE "held")
                         /\ v.moved = w.moved \o Bytes(who, at, n)
                         /\ v.legal = (w.legal /\ w.phase = "held")
<1>. DEFINE c == [op |-> "read", who |-> who, at |-> at, n |-> n, ack |-> ack]
            b == Bytes(who, at, n)
            p == IF ack = NACK THEN "read" ELSE "held"
            v == [[w EXCEPT !.phase = p, !.legal = @ /\ w.phase = "held"] EXCEPT !.moved = @ \o b]
<1>1. Drive(w, c) = IF n < 1 THEN w ELSE v
  BY DEF Drive
<1>2. b \in Seq(Byte) /\ p \in Phases
  BY BytesAre DEF Phases
<1>. HIDE DEF b, p
<1>3. v \in Wire /\ v.phase = p /\ v.moved = w.moved \o b /\ v.legal = (w.legal /\ w.phase = "held")
  <2>. DEFINE l == w.legal /\ w.phase = "held"
              m == w.moved \o b
              x == p
  <2>1. w.moved \in Seq(Byte) /\ x \in Phases /\ l \in BOOLEAN
    BY <1>2 DEF Wire
  <2>2. m \in Seq(Byte)
    BY <1>2, <2>1
  <2>3. v = [[w EXCEPT !.phase = x, !.legal = l] EXCEPT !.moved = m]
    BY DEF Wire
  <2>. HIDE DEF l, m, x, v
  <2>4. v \in Wire /\ v.phase = x /\ v.moved = m /\ v.legal = l
    BY <2>1, <2>2, <2>3 DEF Wire
  <2>. QED  BY <2>4 DEF l, m, x
<1>4. CASE n < 1
  BY <1>1, <1>4
<1>5. CASE ~(n < 1)
  BY <1>1, <1>3, <1>5 DEF b, p
<1>. QED  BY <1>4, <1>5

LEMMA DriveType ==
  ASSUME NEW w \in Wire, NEW c \in Cmd
  PROVE  Drive(w, c) \in Wire
<1>1. \/ c = Start \/ c = Stop
      \/ c \in [op : {"address"}, who : Tasks \X Nat, read : BOOLEAN]
      \/ c \in [op : {"write"}, who : Tasks \X Nat, n : Nat]
      \/ c \in [op : {"read"}, who : Tasks \X Nat, at : Int, n : Nat, ack : {ACK, NACK}]
  BY DEF Cmd, Command
<1>2. ASSUME c \in [op : {"address"}, who : Tasks \X Nat, read : BOOLEAN] PROVE Drive(w, c) \in Wire
  <2>1. c = [op |-> "address", who |-> c.who, read |-> c.read] /\ c.read \in BOOLEAN
    BY <1>2
  <2>. QED  BY <2>1, DriveAddress
<1>3. ASSUME c \in [op : {"write"}, who : Tasks \X Nat, n : Nat] PROVE Drive(w, c) \in Wire
  <2>1. c = [op |-> "write", who |-> c.who, n |-> c.n] /\ c.who \in Tasks \X Nat /\ c.n \in Nat
    BY <1>3
  <2>. QED  BY <2>1, DriveWrite
<1>4. ASSUME c \in [op : {"read"}, who : Tasks \X Nat, at : Int, n : Nat, ack : {ACK, NACK}]
      PROVE  Drive(w, c) \in Wire
  <2>1. /\ c = [op |-> "read", who |-> c.who, at |-> c.at, n |-> c.n, ack |-> c.ack]
        /\ c.who \in Tasks \X Nat /\ c.at \in Int /\ c.n \in Nat /\ c.ack \in {ACK, NACK}
    BY <1>4
  <2>2. ASSUME NEW who \in Tasks \X Nat, NEW at \in Int, NEW n \in Nat, NEW ack \in {ACK, NACK}
        PROVE  Drive(w, [op |-> "read", who |-> who, at |-> at, n |-> n, ack |-> ack]) \in Wire
    BY DriveRead
  <2>. QED  BY <2>1, <2>2
<1>. QED  BY <1>1, <1>2, <1>3, <1>4, DriveStart, DriveStop

\* A queue of commands run on a bus that has seen others.
RunFrom(w, commands) ==
  LET wire[i \in 0..Len(commands)] == IF i = 0 THEN w ELSE Drive(wire[i-1], commands[i])
  IN  wire[Len(commands)]

LEMMA RunIsRunFrom ==
  ASSUME NEW phase, NEW commands
  PROVE  Run(phase, commands) = RunFrom([Idle EXCEPT !.phase = phase], commands)
  BY DEF Run, RunFrom

LEMMA RunSteps ==
  ASSUME NEW w \in Wire, NEW c \in Seq(Cmd)
  PROVE  \E f \in [0..Len(c) -> Wire] :
           /\ f[0] = w /\ \A i \in 1..Len(c) : f[i] = Drive(f[i-1], c[i])
           /\ RunFrom(w, c) = f[Len(c)]
<1>. DEFINE n == Len(c)
            G == [x \in Wire \X (1..n) |-> Drive(x[1], c[x[2]])]
<1>1. n \in Nat /\ \A i \in 1..n : c[i] \in Cmd
  OBVIOUS
<1>2. PICK f \in [0..n -> Wire] : f[0] = w /\ \A i \in 1..n : f[i] = Drive(f[i-1], c[i])
  <2>1. G \in [Wire \X (1..n) -> Wire]
    <3>1. \A x \in Wire \X (1..n) : Drive(x[1], c[x[2]]) \in Wire
      <4>1. \A x \in Wire \X (1..n) : x[1] \in Wire /\ x[2] \in 1..n
        OBVIOUS
      <4>. HIDE DEF n
      <4>. QED  BY <1>1, <4>1, DriveType
    <3>. QED  BY <3>1
  <2>2. \A x \in Wire, i \in 1..n : G[<<x, i>>] = Drive(x, c[i])
    OBVIOUS
  <2>. HIDE DEF G, n
  <2>3. PICK f : Unfolds(f, Wire, w, n, G)
    BY <1>1, <2>1, Recursion
  <2>4. f \in [0..n -> Wire] /\ f[0] = w /\ \A i \in 1..n : f[i] = G[<<f[i-1], i>>]
    BY <2>3 DEF Unfolds
  <2>5. \A i \in 1..n : i - 1 \in 0..n
    BY <1>1
  <2>6. \A i \in 1..n : f[i-1] \in Wire
    BY <2>4, <2>5
  <2>. QED  BY <2>2, <2>4, <2>6
<1>3. RunFrom(w, c) = f[n]
  <2>. DEFINE E(h) == [i \in 0..n |-> IF i = 0 THEN w ELSE Drive(h[i-1], c[i])]
              h    == CHOOSE h : h = E(h)
  <2>1. RunFrom(w, c) = h[n]
    BY DEF RunFrom
  <2>2. f = E(f)
    <3>1. \A i \in 0..n : i = 0 \/ i \in 1..n
      BY <1>1
    <3>. HIDE DEF n
    <3>. QED  BY <1>2, <3>1
  <2>3. h = E(h)
    <3>. HIDE DEF E, n
    <3>. QED  BY <2>2
  <2>. DEFINE P == {i \in 0..n : h[i] = f[i]}
  <2>4. ASSUME NEW i \in 1..n, i - 1 \in P PROVE i \in P
    <3>0. i \in 0..n /\ i # 0
      BY <1>1
    <3>1. h[i] = Drive(h[i-1], c[i])
      <4>1. E(h)[i] = Drive(h[i-1], c[i])
        <5>. HIDE DEF h, n
        <5>. QED  BY <3>0
      <4>. HIDE DEF h, n, E
      <4>. QED  BY <2>3, <4>1
    <3>. HIDE DEF h, n
    <3>2. h[i-1] = f[i-1]
      BY <2>4
    <3>. QED  BY <1>2, <3>0, <3>1, <3>2
  <2>5. 0 \in P
    <3>1. 0 \in 0..n
      BY <1>1
    <3>2. E(h)[0] = w
      <4>. HIDE DEF h, n
      <4>. QED  BY <3>1
    <3>3. h[0] = w
      <4>. HIDE DEF h, n, E
      <4>. QED  BY <2>3, <3>2
    <3>. HIDE DEF h, n
    <3>. QED  BY <1>2, <3>1, <3>3
  <2>6. n \in P
    <3>. HIDE DEF h
    <3>1. P \in SUBSET Nat /\ n \in 0..n
      <4>. HIDE DEF n
      <4>. QED  BY <1>1
    <3>. HIDE DEF P, n
    <3>. QED  BY <1>1, <2>4, <2>5, <3>1, Climb
  <2>. HIDE DEF h
  <2>. QED  BY <2>1, <2>6
<1>. QED  BY <1>2, <1>3

-----------------------------------------------------------------------------
(* The types.                                                              *)

Runs == [ok : BOOLEAN, before : Phases, wire : Wire]

CallsOK ==
  /\ todo \in [Tasks -> Seq(Steps)]
  /\ on \in [Tasks -> Objects \cup {NULL}]
  /\ about \in [Tasks -> Transfers \cup {<<>>}]
  /\ \A t \in Tasks : todo[t] # <<>> => on[t] \in Objects /\ Rest(Kind(t), todo[t])
LinksOK ==
  /\ local \in [Tasks -> Links \cup {NULL}]
  /\ handle \in [Static -> Links \cup {NULL}]
  /\ links \in [Links -> {Free} \cup Seq(Cmd)]
RunsOK == ran \in [Tasks -> Runs]
DriverOK ==
  /\ objs \in [Objects -> [alive : BOOLEAN, port : {I2C_NUM_0, I2C_NUM_MAX}]]
  /\ port \in [installed : BOOLEAN, phase : Phases]
SeenOK ==
  /\ mixed \subseteq Static /\ starved \subseteq Tasks
  /\ doubled \in BOOLEAN /\ wild \in BOOLEAN
  /\ calls \in 0..MaxCalls /\ faults \in 0..MaxFaults

Types == CallsOK /\ LinksOK /\ RunsOK /\ DriverOK /\ SeenOK

LEMMA NoneIsRun == None \in Runs
  BY DEF None, Idle, Runs, Wire, Phases, Byte

\* The steps of files with a static and those of message algorithms.
LEMMA WhoseStep ==
  ASSUME CallsOK, NEW t \in Tasks, todo[t] # <<>>
  PROVE  /\ on[t] \in Objects /\ Kind(t) \in Kinds /\ Head(todo[t]) \in Steps
         /\ Len(todo[t]) \in Nat \ {0} /\ todo[t] \in Seq(Steps)
         /\ At(t, "forget") \/ At(t, "test") \/ At(t, "create") \/ At(t, "flush") \/ At(t, "check")
              \/ At(t, "delete") \/ At(t, "null") => Kind(t) \in Static
         /\ At(t, "make") \/ At(t, "begin") \/ At(t, "drop") => Kind(t) \notin Static
         /\ At(t, "test") => Len(todo[t]) > 2
         /\ At(t, "check") => Len(todo[t]) = 3
<1>1. on[t] \in Objects /\ Rest(Kind(t), todo[t]) /\ Kind(t) \in Kinds
  BY KindAssumption DEF CallsOK, Kind
<1>2. todo[t] \in Seq(Steps) /\ Len(todo[t]) \in Nat \ {0} /\ Head(todo[t]) = todo[t][1] /\ Head(todo[t]) \in Steps
  BY DEF CallsOK
<1>3. CASE Kind(t) \in Static
  <2>1. /\ Head(todo[t]) = todo[t][1]
        /\ todo[t][1].do \in {"install", "forget", "test", "create", "queue", "flush", "check", "delete", "null"}
        /\ todo[t][1].do = "test" => Len(todo[t]) > 2
        /\ todo[t][1].do = "check" => Len(todo[t]) = 3
    BY <1>1, <1>3, StaticHead
  <2>. QED  BY <1>1, <1>2, <1>3, <2>1 DEF At
<1>4. CASE Kind(t) \notin Static
  <2>1. /\ Head(todo[t]) = todo[t][1]
        /\ todo[t][1].do \in {"install", "make", "queue", "begin", "drop"}
    BY <1>1, <1>4, MessageHead
  <2>. QED  BY <1>1, <1>2, <1>4, <2>1 DEF At
<1>. QED  BY <1>3, <1>4

\* A step leaves the rest of its call.
LEMMA CallsSkip ==
  ASSUME CallsOK, NEW t \in Tasks, todo[t] # <<>>, NEW n \in 0..Len(todo[t]), Skip(t, n)
  PROVE  /\ CallsOK'
         /\ todo' = [todo EXCEPT ![t] = SubSeq(todo[t], n + 1, Len(todo[t]))]
         /\ \A u \in Tasks : u # t => todo'[u] = todo[u] /\ on'[u] = on[u]
         /\ todo'[t] # <<>> => on'[t] = on[t] /\ about'[t] = about[t]
         /\ calls' = calls
<1>. DEFINE left == SubSeq(todo[t], n + 1, Len(todo[t]))
<1>1. /\ todo'  = [todo EXCEPT ![t] = left]
      /\ on'    = [on EXCEPT ![t] = IF left = <<>> THEN NULL ELSE @]
      /\ about' = [about EXCEPT ![t] = IF left = <<>> THEN <<>> ELSE @]
      /\ calls' = calls
  BY DEF Skip
<1>2. /\ todo \in [Tasks -> Seq(Steps)] /\ on \in [Tasks -> Objects \cup {NULL}]
      /\ about \in [Tasks -> Transfers \cup {<<>>}]
      /\ \A u \in Tasks : todo[u] # <<>> => on[u] \in Objects /\ Rest(Kind(u), todo[u])
  BY DEF CallsOK
<1>3. left \in Seq(Steps) /\ Rest(Kind(t), left)
  BY <1>2, RestSkips DEF Rest
<1>. HIDE DEF left
<1>4. /\ todo' \in [Tasks -> Seq(Steps)]
      /\ on' \in [Tasks -> Objects \cup {NULL}]
      /\ about' \in [Tasks -> Transfers \cup {<<>>}]
  BY <1>1, <1>2, <1>3
<1>5. /\ \A u \in Tasks : u # t => todo'[u] = todo[u] /\ on'[u] = on[u]
      /\ todo'[t] = left /\ (left # <<>> => on'[t] = on[t] /\ about'[t] = about[t])
  BY <1>1, <1>2
<1>6. ASSUME NEW u \in Tasks, todo'[u] # <<>> PROVE on'[u] \in Objects /\ Rest(KindOf[on'[u]], todo'[u])
  BY <1>2, <1>3, <1>5, <1>6 DEF Kind
<1>. QED  BY <1>1, <1>4, <1>5, <1>6 DEF CallsOK, Kind, left

LEMMA CallsGo ==
  ASSUME CallsOK, NEW t \in Tasks, todo[t] # <<>>, Go(t)
  PROVE  /\ CallsOK'
         /\ todo' = [todo EXCEPT ![t] = SubSeq(todo[t], 2, Len(todo[t]))]
         /\ \A u \in Tasks : u # t => todo'[u] = todo[u] /\ on'[u] = on[u]
         /\ todo'[t] # <<>> => on'[t] = on[t] /\ about'[t] = about[t]
         /\ calls' = calls
<1>1. 1 \in 0..Len(todo[t]) /\ 1 + 1 = 2
  BY WhoseStep
<1>2. Skip(t, 1)
  BY DEF Go
<1>3. todo' = [todo EXCEPT ![t] = SubSeq(todo[t], 1 + 1, Len(todo[t]))]
  BY <1>1, <1>2, CallsSkip
<1>. QED  BY <1>1, <1>2, <1>3, CallsSkip

\* A call begins.
LEMMA CallsEnter ==
  ASSUME Types, NEW t \in Tasks, NEW o \in Objects, NEW ms \in Transfers \cup {<<>>}, NEW p,
         Rest(KindOf[o], p), Enter(t, o, ms, p)
  PROVE  /\ CallsOK'
         /\ \A u \in Tasks : u # t => todo'[u] = todo[u] /\ on'[u] = on[u]
         /\ todo'[t] = p /\ on'[t] = o /\ about'[t] = ms
         /\ calls' \in 0..MaxCalls
         /\ mixed' \subseteq Static
<1>1. /\ todo \in [Tasks -> Seq(Steps)] /\ on \in [Tasks -> Objects \cup {NULL}]
      /\ about \in [Tasks -> Transfers \cup {<<>>}]
      /\ \A u \in Tasks : todo[u] # <<>> => on[u] \in Objects /\ Rest(Kind(u), todo[u])
  BY DEF Types, CallsOK
<1>2. /\ todo'  = [todo EXCEPT ![t] = p]
      /\ on'    = [on EXCEPT ![t] = o]
      /\ about' = [about EXCEPT ![t] = ms]
      /\ calls' = calls + 1 /\ calls < MaxCalls
      /\ Use(o)
  BY DEF Enter
<1>3. p \in Seq(Steps)
  BY DEF Rest
<1>4. /\ todo' \in [Tasks -> Seq(Steps)] /\ on' \in [Tasks -> Objects \cup {NULL}]
      /\ about' \in [Tasks -> Transfers \cup {<<>>}]
      /\ todo'[t] = p /\ on'[t] = o /\ about'[t] = ms
      /\ \A u \in Tasks : u # t => todo'[u] = todo[u] /\ on'[u] = on[u]
  BY <1>1, <1>2, <1>3
<1>5. ASSUME NEW u \in Tasks, todo'[u] # <<>> PROVE on'[u] \in Objects /\ Rest(KindOf[on'[u]], todo'[u])
  BY <1>1, <1>4, <1>5 DEF Kind
<1>6. CallsOK'
  BY <1>4, <1>5 DEF CallsOK, Kind
<1>7. calls' \in 0..MaxCalls
  <2>1. calls \in 0..MaxCalls /\ MaxCalls \in Nat
    BY BoundAssumption DEF Types, SeenOK
  <2>. QED  BY <1>2, <2>1
<1>8. mixed' \subseteq Static
  <2>1. mixed \subseteq Static
    BY DEF Types, SeenOK
  <2>2. CASE Users(o) = {}
    BY <1>2, <2>1, <2>2 DEF Use
  <2>3. CASE Users(o) # {}
    BY <1>2, <2>1, <2>3 DEF Use, Users
  <2>. QED  BY <2>2, <2>3
<1>. QED  BY <1>4, <1>6, <1>7, <1>8

LEMMA NewLinkIsFree ==
  ASSUME Room
  PROVE  NewLink \in Links /\ links[NewLink] = Free
  BY DEF Room, NewLink

LEMMA OffTypes ==
  /\ Off.todo = [t \in Tasks |-> <<>>] /\ Off.on = [t \in Tasks |-> NULL]
  /\ Off.about = [t \in Tasks |-> <<>>] /\ Off.local = [t \in Tasks |-> NULL]
  /\ Off.ran = [t \in Tasks |-> None] /\ Off.links = [l \in Links |-> Free]
  /\ Off.handle = [k \in Static |-> NULL] /\ Off.objs = [o \in Objects |-> NoObject]
  /\ Off.port = [installed |-> FALSE, phase |-> "idle"]
  BY DEF Off

\* The state in which nothing has happened since the chip started.
LEMMA TypesOff ==
  ASSUME todo = Off.todo, on = Off.on, about = Off.about, local = Off.local, ran = Off.ran,
         links = Off.links, handle = Off.handle, objs = Off.objs
  PROVE  /\ CallsOK /\ LinksOK /\ RunsOK
         /\ objs \in [Objects -> [alive : BOOLEAN, port : {I2C_NUM_0, I2C_NUM_MAX}]]
<1>1. CallsOK
  <2>1. \A t \in Tasks : todo[t] = <<>>
    BY OffTypes
  <2>2. todo \in [Tasks -> Seq(Steps)] /\ on \in [Tasks -> Objects \cup {NULL}]
        /\ about \in [Tasks -> Transfers \cup {<<>>}]
    BY OffTypes
  <2>. QED  BY <2>1, <2>2 DEF CallsOK
<1>2. LinksOK
  BY OffTypes DEF LinksOK
<1>3. RunsOK
  BY OffTypes, NoneIsRun DEF RunsOK
<1>4. objs \in [Objects -> [alive : BOOLEAN, port : {I2C_NUM_0, I2C_NUM_MAX}]]
  BY OffTypes DEF NoObject
<1>. QED  BY <1>1, <1>2, <1>3, <1>4

LEMMA TypesInit == Init => Types
<1>. SUFFICES ASSUME Init PROVE Types
  OBVIOUS
<1>1. port = [installed |-> FALSE, phase |-> "idle"]
  BY OffTypes DEF Init
<1>2. port \in [installed : BOOLEAN, phase : Phases]
  BY <1>1 DEF Phases
<1>3. SeenOK
  <2>1. 0 \in 0..MaxCalls /\ 0 \in 0..MaxFaults
    BY BoundAssumption
  <2>. QED  BY <2>1 DEF Init, SeenOK
<1>4. /\ CallsOK /\ LinksOK /\ RunsOK
      /\ objs \in [Objects -> [alive : BOOLEAN, port : {I2C_NUM_0, I2C_NUM_MAX}]]
  BY TypesOff DEF Init
<1>. QED  BY <1>2, <1>3, <1>4 DEF Types, DriverOK

LEMMA TypesRestart ==
  ASSUME Types, Restart
  PROVE  Types'
<1>1. /\ todo' = Off.todo /\ on' = Off.on /\ about' = Off.about /\ local' = Off.local /\ ran' = Off.ran
      /\ links' = Off.links /\ handle' = Off.handle /\ objs' = Off.objs
      /\ port' = [Off.port EXCEPT !.phase = port.phase]
  BY DEF Restart
<1>2. CallsOK'
  <2>1. \A t \in Tasks : todo'[t] = <<>>
    BY <1>1, OffTypes
  <2>2. todo' \in [Tasks -> Seq(Steps)] /\ on' \in [Tasks -> Objects \cup {NULL}]
        /\ about' \in [Tasks -> Transfers \cup {<<>>}]
    BY <1>1, OffTypes
  <2>. QED  BY <2>1, <2>2 DEF CallsOK
<1>3. LinksOK'
  BY <1>1, OffTypes DEF LinksOK
<1>4. RunsOK'
  BY <1>1, OffTypes, NoneIsRun DEF RunsOK
<1>5. DriverOK'
  <2>1. port.phase \in Phases
    BY DEF Types, DriverOK
  <2>2. port' \in [installed : BOOLEAN, phase : Phases]
    <3>1. ASSUME NEW phase \in Phases
          PROVE  [[installed |-> FALSE, phase |-> "idle"] EXCEPT !.phase = phase] \in [installed : BOOLEAN, phase : Phases]
      OBVIOUS
    <3>2. port' = [[installed |-> FALSE, phase |-> "idle"] EXCEPT !.phase = port.phase]
      BY <1>1, OffTypes
    <3>. QED  BY <2>1, <3>1, <3>2
  <2>3. objs' \in [Objects -> [alive : BOOLEAN, port : {I2C_NUM_0, I2C_NUM_MAX}]]
    BY <1>1, OffTypes DEF NoObject
  <2>. QED  BY <2>2, <2>3 DEF DriverOK
<1>6. SeenOK'
  BY DEF Restart, Types, SeenOK
<1>. QED  BY <1>2, <1>3, <1>4, <1>5, <1>6 DEF Types

\* The calls that begin.
LEMMA TypesNew ==
  ASSUME Types, NEW t \in Tasks, NEW o \in Objects, New(t, o)
  PROVE  Types'
<1>1. Rest(KindOf[o], Construct(KindOf[o]))
  BY ConstructProgram, KindAssumption
<1>2. CallsOK' /\ calls' \in 0..MaxCalls /\ mixed' \subseteq Static
  BY <1>1, CallsEnter DEF New
<1>. QED  BY <1>2 DEF New, idf, Types, LinksOK, RunsOK, DriverOK, SeenOK

\* The program of a transfer.
Program(t, o, ms) == IF KindOf[o] = "message" THEN MessageTransfer(t, ms) ELSE HardwareTransfer(t, ms)

LEMMA TransferProgram ==
  ASSUME NEW t \in Tasks, NEW o \in Objects, NEW ms \in Transfers
  PROVE  /\ Rest(KindOf[o], Program(t, o, ms)) /\ Program(t, o, ms) # <<>>
         /\ KindOf[o] \in Static => Program(t, o, ms) = HardwareTransfer(t, ms)
         /\ KindOf[o] \notin Static => Program(t, o, ms) = MessageTransfer(t, ms)
<1>1. ms \in Seq(Message) /\ KindOf[o] \in Kinds
  BY TransferAssumption, KindAssumption
<1>2. KindOf[o] = "message" <=> KindOf[o] \notin Static
  BY <1>1 DEF Kinds, Static
<1>3. CASE KindOf[o] \in Static
  BY <1>1, <1>2, <1>3, StaticProgram DEF Program
<1>4. CASE KindOf[o] \notin Static
  BY <1>1, <1>2, <1>4, MessageProgram DEF Program
<1>. QED  BY <1>3, <1>4

LEMMA TypesTransfer ==
  ASSUME Types, NEW t \in Tasks, NEW o \in Objects, NEW ms \in Transfers, transfer(t, o, ms)
  PROVE  Types'
<1>1. Rest(KindOf[o], Program(t, o, ms)) /\ Enter(t, o, ms, Program(t, o, ms))
  BY TransferProgram DEF transfer, Program
<1>2. CallsOK' /\ calls' \in 0..MaxCalls /\ mixed' \subseteq Static
  BY <1>1, CallsEnter
<1>. QED  BY <1>2 DEF transfer, idf, Types, LinksOK, RunsOK, DriverOK, SeenOK

\* Moves and destruction.
LEMMA TypesObject ==
  ASSUME Types, NEW t \in Tasks, NEW o \in Objects, NEW other \in Objects,
         MoveConstruct(t, o, other) \/ MoveAssign(t, o, other) \/ Delete(t, o)
  PROVE  Types'
<1>1. CallsOK' /\ LinksOK' /\ RunsOK'
  BY DEF MoveConstruct, MoveAssign, Delete, frame, idf, Types, CallsOK, Kind, LinksOK, RunsOK
<1>2. calls' \in 0..MaxCalls
  <2>1. calls \in 0..MaxCalls /\ MaxCalls \in Nat /\ calls < MaxCalls /\ calls' = calls + 1
    BY BoundAssumption DEF Types, SeenOK, MoveConstruct, MoveAssign, Delete
  <2>. QED  BY <2>1
<1>3. SeenOK'
  <2>1. mixed' = mixed /\ starved' = starved /\ wild' = wild /\ faults' = faults
    BY DEF MoveConstruct, MoveAssign, Delete
  <2>2. doubled' \in BOOLEAN
    BY DEF MoveConstruct, MoveAssign, Delete, Types, SeenOK
  <2>. QED  BY <1>2, <2>1, <2>2 DEF Types, SeenOK
<1>4. DriverOK'
  <2>. DEFINE O == [alive : BOOLEAN, port : {I2C_NUM_0, I2C_NUM_MAX}]
  <2>1. objs \in [Objects -> O] /\ port \in [installed : BOOLEAN, phase : Phases]
    BY DEF Types, DriverOK
  <2>2. CASE MoveConstruct(t, o, other)
    <3>1. objs' = [objs EXCEPT ![o] = [alive |-> TRUE, port |-> I2C_NUM_0]] /\ port' = port
      BY <2>2 DEF MoveConstruct, idf
    <3>. QED  BY <2>1, <3>1 DEF DriverOK
  <2>3. CASE MoveAssign(t, o, other)
    <3>1. objs' = [objs EXCEPT ![o].port = objs[other].port, ![other].port = I2C_NUM_MAX] /\ port' = port
      BY <2>3 DEF MoveAssign, MovedFrom, idf
    <3>. QED  BY <2>1, <3>1 DEF DriverOK
  <2>4. CASE Delete(t, o)
    <3>1. objs' = [objs EXCEPT ![o] = NoObject] /\ (port' = port \/ port' = [port EXCEPT !.installed = FALSE])
      BY <2>4 DEF Delete
    <3>2. NoObject \in O
      BY DEF NoObject
    <3>. QED  BY <2>1, <3>1, <3>2 DEF DriverOK
  <2>. QED  BY <2>2, <2>3, <2>4
<1>. QED  BY <1>1, <1>3, <1>4 DEF Types

LEMMA TypesInstall ==
  ASSUME Types, NEW t \in Tasks, Install(t)
  PROVE  Types'
<1>1. CASE Restart
  BY <1>1, TypesRestart
<1>2. CASE ~Restart
  <2>. DEFINE o == on[t]
  <2>1. /\ port' = [port EXCEPT !.installed = TRUE]
        /\ objs' = [objs EXCEPT ![o] = [alive |-> TRUE, port |-> I2C_NUM_0]]
        /\ doubled' = (\E other \in Objects \ {o} : OnPort(other))
        /\ Go(t)
        /\ UNCHANGED <<local, ran, links, handle, mixed, starved, wild, faults>>
    BY <1>2 DEF Install
  <2>2. CallsOK' /\ calls' = calls
    <3>1. CallsOK /\ todo[t] # <<>>
      BY DEF Types, Install, At
    <3>. QED  BY <2>1, <3>1, CallsGo
  <2>3. DriverOK'
    BY <2>1 DEF Types, DriverOK
  <2>. QED  BY <2>1, <2>2, <2>3 DEF Types, LinksOK, RunsOK, SeenOK
<1>. QED  BY <1>1, <1>2

\* The steps.
LEMMA TypesForget ==
  ASSUME Types, NEW t \in Tasks, Forget(t) \/ Test(t)
  PROVE  Types'
<1>1. CallsOK /\ todo[t] # <<>> /\ Kind(t) \in Kinds
  BY WhoseStep DEF Types, Forget, Test, At
<1>2. CASE Forget(t)
  <2>1. CallsOK' /\ calls' = calls
    BY <1>1, <1>2, CallsGo DEF Forget
  <2>2. handle' \in [Static -> Links \cup {NULL}]
    BY <1>2 DEF Forget, Types, LinksOK
  <2>. QED  BY <1>2, <2>1, <2>2 DEF Forget, idf, seen, Types, LinksOK, RunsOK, DriverOK, SeenOK
<1>3. CASE Test(t)
  <2>. DEFINE n == IF handle[Kind(t)] = NULL THEN 1 ELSE 2
  <2>1. n \in 0..Len(todo[t])
    <3>1. Len(todo[t]) \in Nat /\ Len(todo[t]) > 2
      BY <1>1, <1>3, WhoseStep DEF Test
    <3>. QED  BY <3>1
  <2>2. Skip(t, n)
    BY <1>3 DEF Test
  <2>. HIDE DEF n
  <2>3. CallsOK' /\ calls' = calls
    BY <1>1, <2>1, <2>2, CallsSkip
  <2>. QED  BY <1>3, <2>3 DEF Test, idf, seen, Types, LinksOK, RunsOK, DriverOK, SeenOK
<1>. QED  BY <1>2, <1>3

LEMMA TypesCreate ==
  ASSUME Types, NEW t \in Tasks, Create(t)
  PROVE  Types'
<1>1. CallsOK' /\ calls' = calls
  BY CallsGo DEF Types, Create, At
<1>2. LinksOK'
  <2>1. NewLink \in Links
    BY NewLinkIsFree DEF Create
  <2>2. /\ local \in [Tasks -> Links \cup {NULL}]
        /\ handle \in [Static -> Links \cup {NULL}]
        /\ links \in [Links -> {Free} \cup Seq(Cmd)]
    BY DEF Types, LinksOK
  <2>3. links' = [links EXCEPT ![NewLink] = <<>>]
    BY DEF Create
  <2>4. links' \in [Links -> {Free} \cup Seq(Cmd)]
    <3>1. <<>> \in {Free} \cup Seq(Cmd)
      OBVIOUS
    <3>. QED  BY <2>1, <2>2, <2>3, <3>1
  <2>5. handle' \in [Static -> Links \cup {NULL}] /\ local' \in [Tasks -> Links \cup {NULL}]
    <3>1. \/ local' = local /\ handle' = [handle EXCEPT ![Kind(t)] = NewLink]
          \/ handle' = handle /\ local' = [local EXCEPT ![t] = NewLink]
      BY DEF Create
    <3>. QED  BY <2>1, <2>2, <3>1
  <2>. QED  BY <2>4, <2>5 DEF LinksOK
<1>. QED  BY <1>1, <1>2 DEF Create, seen, Types, RunsOK, DriverOK, SeenOK

LEMMA SeenStarve ==
  ASSUME SeenOK, NEW t \in Tasks, Starve(t)
  PROVE  starved' \subseteq Tasks /\ faults' \in 0..MaxFaults
<1>1. faults < MaxFaults /\ faults' = faults + 1 /\ starved' = starved \cup {t}
  BY DEF Starve
<1>2. faults \in 0..MaxFaults /\ MaxFaults \in Nat /\ starved \subseteq Tasks
  BY BoundAssumption DEF SeenOK
<1>. QED  BY <1>1, <1>2

LEMMA TypesCreateFails ==
  ASSUME Types, NEW t \in Tasks, CreateFails(t)
  PROVE  Types'
<1>1. CallsOK' /\ calls' = calls
  BY CallsGo DEF Types, CreateFails, At
<1>2. starved' \subseteq Tasks /\ faults' \in 0..MaxFaults
  BY SeenStarve DEF Types, CreateFails
<1>3. handle' \in [Static -> Links \cup {NULL}]
  BY DEF Types, LinksOK, CreateFails
<1>. QED  BY <1>1, <1>2, <1>3 DEF CreateFails, idf, Types, LinksOK, RunsOK, DriverOK, SeenOK

\* What a step queues is a sequence of commands.
LEMMA StepCommands ==
  ASSUME CallsOK, NEW t \in Tasks, At(t, "queue")
  PROVE  Head(todo[t]).cmds \in Seq(Cmd)
<1>1. Head(todo[t]) \in Steps /\ Head(todo[t]).do = "queue"
  BY WhoseStep DEF At
<1>. QED  BY <1>1 DEF Steps

LEMMA RemovedCommands ==
  ASSUME NEW cmds \in Seq(Cmd), NEW i \in DOMAIN cmds
  PROVE  RemoveAt(cmds, i) \in Seq(Cmd)
<1>1. SubSeq(cmds, 1, i - 1) \in Seq(Cmd) /\ SubSeq(cmds, i + 1, Len(cmds)) \in Seq(Cmd)
  OBVIOUS
<1>. QED  BY <1>1, SmallSeqs DEF RemoveAt

\* The link of a task, and what becomes of it.
LEMMA LinkType ==
  ASSUME CallsOK, LinksOK, NEW t \in Tasks
  PROVE  Link(t) \in Links \cup {NULL}
  BY DEF LinksOK, Link

LEMMA TypesExtend ==
  ASSUME Types, NEW t \in Tasks, NEW cmds \in Seq(Cmd), Extend(t, cmds)
  PROVE  links' \in [Links -> {Free} \cup Seq(Cmd)] /\ wild' \in BOOLEAN
<1>. DEFINE l == Link(t)
<1>1. /\ wild' = (wild \/ (l # NULL /\ links[l] = Free))
      /\ links' = IF l = NULL \/ links[l] = Free \/ Shared(t)
                    THEN links ELSE [links EXCEPT ![l] = links[l] \o cmds]
  BY DEF Extend
<1>2. l \in Links \cup {NULL} /\ links \in [Links -> {Free} \cup Seq(Cmd)] /\ wild \in BOOLEAN
  BY LinkType DEF Types, LinksOK, SeenOK
<1>. HIDE DEF l
<1>3. ASSUME l \in Links, links[l] # Free
      PROVE  links[l] \o cmds \in Seq(Cmd)
  <2>1. links[l] \in Seq(Cmd)
    BY <1>2, <1>3
  <2>. QED  BY <2>1, SmallSeqs
<1>4. links' \in [Links -> {Free} \cup Seq(Cmd)]
  <2>1. CASE l = NULL \/ links[l] = Free \/ Shared(t)
    BY <1>1, <1>2, <2>1
  <2>2. CASE ~(l = NULL \/ links[l] = Free \/ Shared(t))
    <3>1. links' = [links EXCEPT ![l] = links[l] \o cmds] /\ l \in Links /\ links[l] \o cmds \in Seq(Cmd)
      BY <1>1, <1>2, <1>3, <2>2
    <3>. DEFINE c == links[l] \o cmds
    <3>2. c \in {Free} \cup Seq(Cmd) /\ links' = [links EXCEPT ![l] = c] /\ l \in Links
      BY <3>1
    <3>. HIDE DEF c
    <3>. QED  BY <1>2, <3>2
  <2>. QED  BY <2>1, <2>2
<1>. QED  BY <1>1, <1>2, <1>4

LEMMA TypesQueue ==
  ASSUME Types, NEW t \in Tasks, QueueCommands(t) \/ QueueFails(t)
  PROVE  Types'
<1>1. CallsOK' /\ calls' = calls
  BY CallsGo DEF Types, QueueCommands, QueueFails, At
<1>2. \E cmds \in Seq(Cmd) : Extend(t, cmds)
  <2>1. Head(todo[t]).cmds \in Seq(Cmd)
    BY StepCommands DEF Types, QueueCommands, QueueFails
  <2>2. CASE QueueCommands(t)
    BY <2>1, <2>2 DEF QueueCommands
  <2>3. CASE QueueFails(t)
    <3>1. PICK i \in DOMAIN Head(todo[t]).cmds : Extend(t, RemoveAt(Head(todo[t]).cmds, i))
      BY <2>3 DEF QueueFails
    <3>2. RemoveAt(Head(todo[t]).cmds, i) \in Seq(Cmd)
      BY <2>1, RemovedCommands
    <3>. QED  BY <3>1, <3>2
  <2>. QED  BY <2>2, <2>3
<1>3. links' \in [Links -> {Free} \cup Seq(Cmd)] /\ wild' \in BOOLEAN
  BY <1>2, TypesExtend
<1>4. starved' \subseteq Tasks /\ faults' \in 0..MaxFaults
  BY SeenStarve DEF QueueCommands, QueueFails, Types, SeenOK
<1>. QED
  BY <1>1, <1>3, <1>4 DEF QueueCommands, QueueFails, Types, LinksOK, RunsOK, DriverOK, SeenOK

\* What the bus makes of a queue.
LEMMA RunType ==
  ASSUME NEW phase \in Phases, NEW c \in Seq(Cmd)
  PROVE  Run(phase, c) \in Wire
<1>. DEFINE w == [Idle EXCEPT !.phase = phase]
<1>1. w \in Wire
  <2>1. Idle \in Wire
    BY DEF Idle, Wire, Phases
  <2>2. ASSUME NEW v \in Wire PROVE [v EXCEPT !.phase = phase] \in Wire
    BY DEF Wire
  <2>. QED  BY <2>1, <2>2
<1>. HIDE DEF w
<1>2. RunFrom(w, c) \in Wire
  <2>1. PICK f \in [0..Len(c) -> Wire] : RunFrom(w, c) = f[Len(c)]
    BY <1>1, RunSteps
  <2>2. Len(c) \in 0..Len(c)
    OBVIOUS
  <2>. QED  BY <2>1, <2>2
<1>. QED  BY <1>2, RunIsRunFrom DEF w

LEMMA TypesFlush ==
  ASSUME Types, NEW t \in Tasks, Flush(t)
  PROVE  Types'
<1>1. CallsOK' /\ calls' = calls
  BY CallsGo DEF Types, Flush, At
<1>. DEFINE l    == Link(t)
            wire == Run(port.phase, links[l])
<1>2. \/ /\ l # NULL /\ links[l] # Free
         /\ ran' = [ran EXCEPT ![t] = [ok |-> TRUE, before |-> port.phase, wire |-> wire]]
         /\ port' = [port EXCEPT !.phase = IF wire.legal THEN wire.phase ELSE "idle"]
         /\ wild' = wild
      \/ /\ wild' = (wild \/ (l # NULL /\ links[l] = Free))
         /\ ran' = [ran EXCEPT ![t] = None]
         /\ \E phase \in Phases : port' = [port EXCEPT !.phase = phase]
  BY DEF Flush, Begun, Phases
<1>3. /\ l \in Links \cup {NULL} /\ links \in [Links -> {Free} \cup Seq(Cmd)] /\ wild \in BOOLEAN
      /\ port \in [installed : BOOLEAN, phase : Phases] /\ ran \in [Tasks -> Runs]
  BY LinkType DEF Types, LinksOK, SeenOK, DriverOK, RunsOK
<1>4. l # NULL /\ links[l] # Free => wire \in Wire
  BY <1>3, RunType
<1>. HIDE DEF l, wire
<1>5. ran' \in [Tasks -> Runs] /\ port' \in [installed : BOOLEAN, phase : Phases] /\ wild' \in BOOLEAN
  <2>1. CASE /\ l # NULL /\ links[l] # Free
             /\ ran' = [ran EXCEPT ![t] = [ok |-> TRUE, before |-> port.phase, wire |-> wire]]
             /\ port' = [port EXCEPT !.phase = IF wire.legal THEN wire.phase ELSE "idle"]
             /\ wild' = wild
    <3>1. wire \in Wire /\ port.phase \in Phases
      BY <1>3, <1>4, <2>1
    <3>2. [ok |-> TRUE, before |-> port.phase, wire |-> wire] \in Runs
      BY <3>1 DEF Runs
    <3>3. (IF wire.legal THEN wire.phase ELSE "idle") \in Phases
      BY <3>1 DEF Wire, Phases
    <3>4. port' \in [installed : BOOLEAN, phase : Phases]
      BY <1>3, <2>1, <3>3
    <3>. QED  BY <1>3, <2>1, <3>2, <3>4
  <2>2. CASE /\ wild' = (wild \/ (l # NULL /\ links[l] = Free))
             /\ ran' = [ran EXCEPT ![t] = None]
             /\ \E phase \in Phases : port' = [port EXCEPT !.phase = phase]
    BY <1>3, <2>2, NoneIsRun
  <2>. QED  BY <1>2, <2>1, <2>2
<1>. QED  BY <1>1, <1>5 DEF Flush, Types, LinksOK, RunsOK, DriverOK, SeenOK

LEMMA TypesCheck ==
  ASSUME Types, NEW t \in Tasks, Check(t)
  PROVE  Types'
<1>. DEFINE n == IF handle[Kind(t)] = NULL THEN 3 ELSE 1
<1>1. CallsOK /\ todo[t] # <<>>
  BY DEF Types, Check, At
<1>2. n \in 0..Len(todo[t])
  <2>1. Len(todo[t]) = 3
    BY <1>1, WhoseStep DEF Check
  <2>. QED  BY <2>1
<1>3. Skip(t, n)
  BY DEF Check
<1>. HIDE DEF n
<1>4. CallsOK' /\ calls' = calls
  BY <1>1, <1>2, <1>3, CallsSkip
<1>5. ran' \in [Tasks -> Runs] /\ starved' \subseteq Tasks
  BY NoneIsRun DEF Check, Types, RunsOK, SeenOK
<1>. QED  BY <1>4, <1>5 DEF Check, idf, Types, LinksOK, RunsOK, DriverOK, SeenOK

LEMMA TypesDeleteLink ==
  ASSUME Types, NEW t \in Tasks, DeleteLink(t)
  PROVE  Types'
<1>1. CallsOK' /\ calls' = calls
  BY CallsGo DEF Types, DeleteLink, At
<1>2. Link(t) \in Links \cup {NULL}
  BY LinkType DEF Types
<1>3. links' \in [Links -> {Free} \cup Seq(Cmd)] /\ wild' \in BOOLEAN
  BY <1>2 DEF DeleteLink, Types, LinksOK, SeenOK
<1>4. local' \in [Tasks -> Links \cup {NULL}] /\ ran' \in [Tasks -> Runs] /\ starved' \subseteq Tasks
  BY NoneIsRun DEF DeleteLink, Types, LinksOK, RunsOK, SeenOK
<1>. QED  BY <1>1, <1>3, <1>4 DEF DeleteLink, Types, LinksOK, RunsOK, DriverOK, SeenOK

LEMMA TypesNull ==
  ASSUME Types, NEW t \in Tasks, Null(t)
  PROVE  Types'
<1>1. CallsOK' /\ calls' = calls
  BY CallsGo DEF Types, Null, At
<1>2. handle' \in [Static -> Links \cup {NULL}] /\ ran' \in [Tasks -> Runs] /\ starved' \subseteq Tasks
  BY NoneIsRun DEF Null, NullHandle, Types, LinksOK, RunsOK, SeenOK
<1>. QED  BY <1>1, <1>2 DEF Null, idf, Types, LinksOK, RunsOK, DriverOK, SeenOK

LEMMA TypesNext ==
  ASSUME Types, [Next]_vars
  PROVE  Types'
<1>1. CASE UNCHANGED vars
  BY <1>1 DEF vars, frame, idf, seen, Types, CallsOK, Kind, LinksOK, RunsOK, DriverOK, SeenOK
<1>2. ASSUME NEW t \in Tasks, NEW o \in Objects, New(t, o) \/ Delete(t, o)
      PROVE  Types'
  BY <1>2, TypesNew, TypesObject
<1>3. ASSUME NEW t \in Tasks, NEW o \in Objects, NEW ms \in Transfers, transfer(t, o, ms)
      PROVE  Types'
  BY <1>3, TypesTransfer
<1>4. ASSUME NEW t \in Tasks, NEW o \in Objects, NEW other \in Objects,
             MoveConstruct(t, o, other) \/ MoveAssign(t, o, other)
      PROVE  Types'
  BY <1>4, TypesObject
<1>5. ASSUME NEW t \in Tasks, Step(t) PROVE Types'
  BY <1>5, TypesInstall, TypesForget, TypesCreate, TypesCreateFails, TypesQueue, TypesFlush, TypesCheck,
     TypesDeleteLink, TypesNull DEF Step
<1>. QED  BY <1>1, <1>2, <1>3, <1>4, <1>5 DEF Next

LEMMA TypesAreTypeOK == Types => TypeOK
<1>. SUFFICES ASSUME Types PROVE TypeOK
  OBVIOUS
<1>1. \A t \in Tasks : \A i \in DOMAIN todo[t] : todo[t][i].do \in StepNames
  <2>1. SUFFICES ASSUME NEW t \in Tasks, NEW i \in DOMAIN todo[t] PROVE todo[t][i].do \in StepNames
    OBVIOUS
  <2>2. todo[t][i] \in Steps
    BY DEF Types, CallsOK
  <2>. QED  BY <2>2 DEF Steps, StepNames
<1>2. \A t \in Tasks : ran[t].ok \in BOOLEAN /\ ran[t].wire.legal \in BOOLEAN
  BY DEF Types, RunsOK, Runs, Wire
<1>. QED  BY <1>1, <1>2 DEF Types, CallsOK, LinksOK, DriverOK, SeenOK, TypeOK, Cmd

\* Every state has its types, and every call left is one of the programs' steps
\* (hardwarei2calgorithm.cpp, i2chal.c, esp32i2calgorithm.cpp).
THEOREM I2cTypesHold == Spec => []TypeOK
  BY TypesInit, TypesNext, TypesAreTypeOK, PTL DEF Spec

-----------------------------------------------------------------------------
(* The links.                                                              *)

\* A task refers to a link from its creation until the step after its deletion: there the
\* static still names what is gone.
Refers(t) == todo[t] # <<>> /\ ~At(t, "null")
Owned(t)  == IF Refers(t) THEN {Link(t)} \ {NULL} ELSE {}
Live      == {l \in Links : links[l] # Free}

\* As long as no two tasks share a static, a static has one user, and none when it is NULL;
\* the links there are are those of the tasks, each with one of its own.
OneUser ==
  \A t, u \in Tasks :
    todo[t] # <<>> /\ todo[u] # <<>> /\ Kind(t) = Kind(u) /\ Kind(t) \in Static => t = u
Forgotten ==
  /\ \A k \in Static : (\A t \in Tasks : todo[t] = <<>> \/ Kind(t) # k) => handle[k] = NULL
  /\ \A t \in Tasks : todo[t] = <<>> \/ Kind(t) \in Static => local[t] = NULL
Fresh(t) == At(t, "install") \/ At(t, "forget") \/ At(t, "create") \/ At(t, "make")
Placed ==
  \A t \in Tasks : /\ Fresh(t) => Link(t) = NULL
                   /\ At(t, "delete") => Link(t) # NULL
Belongs ==
  /\ \A l \in Live : \E t \in Tasks : l \in Owned(t)
  /\ \A t \in Tasks : Owned(t) \subseteq Live
  /\ \A t, u \in Tasks : t # u => Owned(t) \cap Owned(u) = {}

LinkState == OneUser /\ Forgotten /\ Placed /\ Belongs

LinkInv == mixed = {} => LinkState /\ ~wild

LEMMA FreeIsNoQueue == Free \notin Seq(Cmd)
<1>1. SUFFICES ASSUME Free \in Seq(Cmd) PROVE FALSE
  OBVIOUS
<1>2. Free[1] = [op |-> "free"] /\ Len(Free) = 1
  BY DEF Free
<1>3. Free[1] \in Cmd
  <2>1. 1 \in 1..Len(Free)
    BY <1>2
  <2>. HIDE DEF Free
  <2>. QED  BY <1>1, <2>1
<1>4. \A c \in Cmd : c.op # "free"
  BY DEF Cmd, Command, Start, Stop
<1>. QED  BY <1>2, <1>3, <1>4

\* A step of a task that keeps to its own link.
LEMMA OwnStep ==
  ASSUME Types, LinkState, NEW t \in Tasks, todo[t] # <<>>,
         \A u \in Tasks : u # t => todo'[u] = todo[u] /\ on'[u] = on[u] /\ local'[u] = local[u],
         todo'[t] # <<>> => on'[t] = on[t],
         \A k \in Static : k # Kind(t) => handle'[k] = handle[k],
         Owned(t)' \cap Live \subseteq Owned(t),
         Live' = (Live \ Owned(t)) \cup Owned(t)',
         todo'[t] = <<>> /\ Kind(t) \in Static => handle'[Kind(t)] = NULL,
         todo'[t] = <<>> \/ Kind(t) \in Static => local'[t] = NULL,
         Fresh(t)' => Link(t)' = NULL,
         At(t, "delete")' => Link(t)' # NULL
  PROVE  LinkState'
<1>1. /\ \A u \in Tasks : todo[u] # <<>> => on[u] \in Objects
      /\ OneUser /\ Forgotten /\ Placed /\ Belongs
  BY DEF Types, CallsOK, LinkState
<1>2. \A u \in Tasks : todo'[u] # <<>> => todo[u] # <<>> /\ Kind(u)' = Kind(u)
  BY DEF Kind
<1>3. OneUser'
  <2>1. SUFFICES ASSUME NEW u \in Tasks, NEW v \in Tasks, todo'[u] # <<>>, todo'[v] # <<>>,
                        Kind(u)' = Kind(v)', Kind(u)' \in Static
                 PROVE  u = v
    BY DEF OneUser
  <2>2. todo[u] # <<>> /\ todo[v] # <<>> /\ Kind(u)' = Kind(u) /\ Kind(v)' = Kind(v)
    BY <1>2, <2>1
  <2>3. Kind(u) = Kind(v) /\ Kind(u) \in Static
    BY <2>1, <2>2
  <2>. QED  BY <1>1, <2>2, <2>3 DEF OneUser
<1>4. Forgotten'
  <2>1. ASSUME NEW k \in Static, \A u \in Tasks : todo'[u] = <<>> \/ Kind(u)' # k
        PROVE  handle'[k] = NULL
    <3>1. CASE k = Kind(t)
      BY <1>2, <2>1, <3>1
    <3>2. CASE k # Kind(t)
      <4>1. \A u \in Tasks : todo[u] = <<>> \/ Kind(u) # k
        BY <2>1, <3>2 DEF Kind
      <4>. QED  BY <1>1, <3>2, <4>1 DEF Forgotten
    <3>. QED  BY <3>1, <3>2
  <2>2. ASSUME NEW u \in Tasks, todo'[u] = <<>> \/ Kind(u)' \in Static
        PROVE  local'[u] = NULL
    <3>1. CASE u = t
      BY <1>2, <2>2, <3>1
    <3>2. CASE u # t
      BY <1>1, <2>2, <3>2 DEF Forgotten, Kind
    <3>. QED  BY <3>1, <3>2
  <2>. QED  BY <2>1, <2>2 DEF Forgotten
<1>5. ASSUME NEW u \in Tasks, u # t, todo[u] # <<>>
      PROVE  Link(u)' = Link(u)
  <2>1. Kind(u)' = Kind(u) /\ local'[u] = local[u]
    BY <1>5 DEF Kind
  <2>2. Kind(u) \in Static => Kind(u) # Kind(t)
    BY <1>1, <1>5 DEF OneUser
  <2>. QED  BY <2>1, <2>2 DEF Link
<1>6. ASSUME NEW u \in Tasks, u # t
      PROVE  Owned(u)' = Owned(u)
  <2>1. todo'[u] = todo[u]
    BY <1>6
  <2>2. Refers(u)' <=> Refers(u)
    BY <2>1 DEF Refers, At
  <2>3. Refers(u) => Link(u)' = Link(u)
    BY <1>5, <1>6 DEF Refers
  <2>. QED  BY <2>2, <2>3 DEF Owned
<1>7. Placed'
  <2>1. SUFFICES ASSUME NEW u \in Tasks, u # t
                 PROVE  /\ Fresh(u)' => Link(u)' = NULL
                        /\ At(u, "delete")' => Link(u)' # NULL
    BY DEF Placed
  <2>2. \A s : At(u, s)' <=> At(u, s)
    BY <2>1 DEF At
  <2>3. \A s : At(u, s) => todo[u] # <<>>
    BY DEF At
  <2>. QED  BY <1>1, <1>5, <2>1, <2>2, <2>3 DEF Placed, Fresh
<1>8. Belongs'
  <2>. DEFINE O(u) == Owned(u)'
  <2>1. \A u \in Tasks : u # t => O(u) = Owned(u)
    BY <1>6
  <2>2. /\ \A l \in Live : \E u \in Tasks : l \in Owned(u)
        /\ \A u \in Tasks : Owned(u) \subseteq Live
        /\ \A u, v \in Tasks : u # v => Owned(u) \cap Owned(v) = {}
    BY <1>1 DEF Belongs
  <2>3. O(t) \cap Live \subseteq Owned(t) /\ Live' = (Live \ Owned(t)) \cup O(t)
    OBVIOUS
  <2>. DEFINE L == Live'
  <2>. HIDE DEF O, L
  <2>4. L = (Live \ Owned(t)) \cup O(t)
    BY <2>3 DEF L
  <2>5. ASSUME NEW l \in L PROVE \E u \in Tasks : l \in O(u)
    <3>1. CASE l \in O(t)
      BY <3>1
    <3>2. CASE l \notin O(t)
      <4>1. PICK u \in Tasks : l \in Owned(u)
        BY <2>2, <2>4, <2>5, <3>2
      <4>2. u # t
        BY <2>4, <2>5, <3>2, <4>1
      <4>. QED  BY <2>1, <4>1, <4>2
    <3>. QED  BY <3>1, <3>2
  <2>6. ASSUME NEW u \in Tasks PROVE O(u) \subseteq L
    <3>1. CASE u = t
      BY <2>4, <3>1
    <3>2. CASE u # t
      <4>1. O(u) = Owned(u) /\ Owned(u) \subseteq Live /\ Owned(u) \cap Owned(t) = {}
        BY <2>1, <2>2, <3>2
      <4>. QED  BY <2>4, <4>1
    <3>. QED  BY <3>1, <3>2
  <2>7. ASSUME NEW u \in Tasks, u # t PROVE O(u) \cap O(t) = {}
    <3>1. O(u) = Owned(u) /\ Owned(u) \subseteq Live /\ Owned(u) \cap Owned(t) = {}
      BY <2>1, <2>2, <2>7
    <3>. QED  BY <2>3, <3>1
  <2>8. ASSUME NEW u \in Tasks, NEW v \in Tasks, u # v PROVE O(u) \cap O(v) = {}
    <3>1. CASE u = t
      BY <2>7, <2>8, <3>1
    <3>2. CASE v = t
      BY <2>7, <2>8, <3>2
    <3>3. CASE u # t /\ v # t
      BY <2>1, <2>2, <2>8, <3>3
    <3>. QED  BY <3>1, <3>2, <3>3
  <2>. QED  BY <2>5, <2>6, <2>8 DEF Belongs, O, L
<1>. QED  BY <1>3, <1>4, <1>7, <1>8 DEF LinkState

\* What comes after a step.
LEMMA AfterStep ==
  ASSUME CallsOK, CallsOK', NEW t \in Tasks, todo[t] # <<>>, Go(t)
  PROVE  /\ At(t, "forget") \/ At(t, "null") \/ At(t, "drop") => todo'[t] = <<>>
         /\ At(t, "install") /\ Kind(t) \notin Static => todo'[t] = <<>>
         /\ At(t, "install") /\ Kind(t) \in Static => At(t, "forget")'
         /\ At(t, "test") => At(t, "create")'
         /\ At(t, "create") \/ At(t, "make") => At(t, "queue")'
         /\ At(t, "queue") => At(t, "queue")' \/ At(t, "test")' \/ At(t, "flush")' \/ At(t, "begin")'
         /\ At(t, "flush") => At(t, "check")'
         /\ At(t, "begin") => At(t, "drop")'
         /\ At(t, "check") => At(t, "delete")'
         /\ At(t, "delete") => At(t, "null")'
<1>. DEFINE p == todo[t]
            q == todo'[t]
<1>1. p \in Seq(Steps) /\ Rest(Kind(t), p) /\ Len(p) \in Nat \ {0} /\ Kind(t) \in Kinds
  BY WhoseStep DEF CallsOK
<1>2. q = SubSeq(p, 2, Len(p))
  <2>1. todo' = [todo EXCEPT ![t] = SubSeq(todo[t], 2, Len(todo[t]))]
    BY CallsGo
  <2>. QED  BY <2>1 DEF CallsOK
<1>. HIDE DEF p, q
<1>3. q \in Seq(Steps) /\ (Len(p) = 1 => q = <<>>)
      /\ (Len(p) # 1 => q # <<>> /\ Head(q) = p[2])
  <2>1. q \in Seq(Steps) /\ Len(q) = Len(p) - 1 /\ (Len(p) > 1 => q[1] = p[2])
    <3>1. 1 \in 0..Len(p) /\ 1 + 1 = 2
      BY <1>1
    <3>2. ASSUME NEW n \in 0..Len(p)
          PROVE  /\ Rest(Kind(t), SubSeq(p, n + 1, Len(p))) /\ Len(SubSeq(p, n + 1, Len(p))) = Len(p) - n
                 /\ \A i \in 1..(Len(p) - n) : SubSeq(p, n + 1, Len(p))[i] = p[n + i]
      BY <1>1, RestSkips
    <3>3. Len(p) > 1 => 1 \in 1..(Len(p) - 1)
      BY <1>1
    <3>4. Rest(Kind(t), q) /\ Len(q) = Len(p) - 1 /\ \A i \in 1..(Len(p) - 1) : q[i] = p[1 + i]
      BY <1>2, <3>1, <3>2
    <3>. QED  BY <3>1, <3>3, <3>4 DEF Rest
  <2>2. CASE Len(p) = 1
    BY <2>1, <2>2
  <2>3. CASE Len(p) # 1
    <3>1. \A n \in Nat \ {0} : n # 1 => n > 1 /\ n - 1 # 0
      OBVIOUS
    <3>2. Len(p) > 1 /\ Len(q) # 0
      BY <1>1, <2>1, <2>3, <3>1
    <3>3. q # <<>> /\ Head(q) = q[1]
      BY <2>1, <3>2
    <3>. QED  BY <2>1, <2>3, <3>2, <3>3
  <2>. QED  BY <2>2, <2>3
<1>4. /\ \A s : At(t, s) <=> Head(p).do = s
      /\ \A s : At(t, s)' <=> q # <<>> /\ Head(q).do = s
  BY DEF At, p, q
<1>5. CASE Kind(t) \in Static
  <2>1. /\ Head(p) = p[1]
        /\ p[1].do \in {"install", "forget", "test", "create", "queue", "flush", "check", "delete", "null"}
        /\ p[1].do \in {"forget", "null"} <=> Len(p) = 1
        /\ p[1].do = "install" => p[2].do = "forget"
        /\ p[1].do = "test"    => p[2].do = "create"
        /\ p[1].do = "create"  => p[2].do = "queue"
        /\ p[1].do = "queue"   => p[2].do \in {"queue", "test", "flush"}
        /\ p[1].do = "flush"   => p[2].do = "check"
        /\ p[1].do = "check"   => p[2].do = "delete"
        /\ p[1].do = "delete"  => p[2].do = "null"
    <3>1. p # <<>>
      BY DEF p
    <3>. QED  BY <1>1, <1>5, <3>1, StaticHead
  <2>. DEFINE a == p[1].do
  <2>2. \A s : At(t, s) <=> a = s
    BY <1>4, <2>1
  <2>3. a \notin {"forget", "null"} => \A s : At(t, s)' <=> p[2].do = s
    BY <1>3, <1>4, <2>1
  <2>4. a \in {"forget", "null"} => q = <<>>
    BY <1>3, <2>1
  <2>. HIDE DEF a
  <2>5. /\ a \in {"install", "forget", "test", "create", "queue", "flush", "check", "delete", "null"}
        /\ a = "install" => p[2].do = "forget"
        /\ a = "test"    => p[2].do = "create"
        /\ a = "create"  => p[2].do = "queue"
        /\ a = "queue"   => p[2].do \in {"queue", "test", "flush"}
        /\ a = "flush"   => p[2].do = "check"
        /\ a = "check"   => p[2].do = "delete"
        /\ a = "delete"  => p[2].do = "null"
    BY <2>1 DEF a
  <2>. QED  BY <1>5, <2>2, <2>3, <2>4, <2>5 DEF q
<1>6. CASE Kind(t) \notin Static
  <2>1. /\ Head(p) = p[1]
        /\ p[1].do \in {"install", "make", "queue", "begin", "drop"}
        /\ p[1].do \in {"install", "drop"} <=> Len(p) = 1
        /\ p[1].do = "make"  => p[2].do = "queue"
        /\ p[1].do = "queue" => p[2].do = "begin"
        /\ p[1].do = "begin" => p[2].do = "drop"
    <3>1. p # <<>>
      BY DEF p
    <3>. QED  BY <1>1, <1>6, <3>1, MessageHead
  <2>. DEFINE a == p[1].do
  <2>2. \A s : At(t, s) <=> a = s
    BY <1>4, <2>1
  <2>3. a \notin {"install", "drop"} => \A s : At(t, s)' <=> p[2].do = s
    BY <1>3, <1>4, <2>1
  <2>4. a \in {"install", "drop"} => q = <<>>
    BY <1>3, <2>1
  <2>. HIDE DEF a
  <2>5. /\ a \in {"install", "make", "queue", "begin", "drop"}
        /\ a = "make"  => p[2].do = "queue"
        /\ a = "queue" => p[2].do = "begin"
        /\ a = "begin" => p[2].do = "drop"
    BY <2>1 DEF a
  <2>. QED  BY <1>6, <2>2, <2>3, <2>4, <2>5 DEF q
<1>. QED  BY <1>5, <1>6

LEMMA OwnedIs ==
  ASSUME NEW t
  PROVE  /\ \A s : s # "null" /\ At(t, s) => Owned(t) = {Link(t)} \ {NULL}
         /\ At(t, "null") \/ todo[t] = <<>> => Owned(t) = {}
         /\ \A s : s # "null" /\ At(t, s)' => Owned(t)' = {Link(t)'} \ {NULL}
         /\ At(t, "null")' \/ todo'[t] = <<>> => Owned(t)' = {}
<1>1. /\ \A s : s # "null" /\ At(t, s) => Owned(t) = {Link(t)} \ {NULL}
      /\ At(t, "null") \/ todo[t] = <<>> => Owned(t) = {}
  BY DEF Owned, Refers, At
<1>2. /\ \A s : s # "null" /\ At(t, s)' => Owned(t)' = {Link(t)'} \ {NULL}
      /\ At(t, "null")' \/ todo'[t] = <<>> => Owned(t)' = {}
  BY DEF Owned, Refers, At
<1>. QED  BY <1>1, <1>2

\* A step that is placed where no condition on the link applies.
LEMMA Elsewhere ==
  ASSUME NEW t, NEW s, At(t, s)', s \notin {"install", "forget", "create", "make"}
  PROVE  ~Fresh(t)' /\ (s # "delete" => ~At(t, "delete")')
  BY DEF At, Fresh

\* Where a call goes on, its link is that of the same file.
LEMMA SameKind ==
  ASSUME Types, NEW t \in Tasks, todo[t] # <<>>, Go(t)
  PROVE  /\ \A u \in Tasks : u # t => todo'[u] = todo[u] /\ on'[u] = on[u]
         /\ todo'[t] # <<>> =>
              /\ on'[t] = on[t]
              /\ Link(t)' = IF Kind(t) \in Static THEN handle'[Kind(t)] ELSE local'[t]
<1>1. /\ \A u \in Tasks : u # t => todo'[u] = todo[u] /\ on'[u] = on[u]
      /\ todo'[t] # <<>> => on'[t] = on[t]
  BY CallsGo DEF Types
<1>. QED  BY <1>1 DEF Link, Kind

\* The steps that leave the links, the statics and the locals alone.
LEMMA LinkQuiet ==
  ASSUME Types, Types', LinkState, NEW t \in Tasks, todo[t] # <<>>, Go(t),
         handle' = handle, local' = local, Live' = Live,
         \/ At(t, "install") \/ At(t, "queue") \/ At(t, "flush") \/ At(t, "begin")
         \/ (At(t, "check") /\ Link(t) # NULL)
         \/ (At(t, "test") /\ Link(t) = NULL)
  PROVE  LinkState'
<1>1. /\ \A u \in Tasks : u # t => todo'[u] = todo[u] /\ on'[u] = on[u]
      /\ todo'[t] # <<>> =>
           /\ on'[t] = on[t]
           /\ Link(t)' = IF Kind(t) \in Static THEN handle'[Kind(t)] ELSE local'[t]
  BY SameKind
<1>2. todo'[t] # <<>> => Link(t)' = Link(t)
  BY <1>1 DEF Link
<1>3. CallsOK /\ CallsOK'
  BY DEF Types
<1>4. Kind(t) \in Static => local[t] = NULL
  BY DEF LinkState, Forgotten
<1>5. Owned(t) = {Link(t)} \ {NULL}
  BY OwnedIs
<1>6. Owned(t) \subseteq Live
  BY DEF LinkState, Belongs
<1>7. CASE At(t, "install")
  <2>1. Link(t) = NULL
    BY <1>7 DEF LinkState, Placed, Fresh
  <2>2. CASE Kind(t) \notin Static
    <3>1. todo'[t] = <<>> /\ local[t] = NULL
      BY <1>3, <1>7, <2>1, <2>2, AfterStep DEF Link
    <3>2. Owned(t)' = {} /\ Owned(t) = {}
      BY <1>5, <2>1, <3>1, OwnedIs
    <3>3. ~Fresh(t)' /\ ~At(t, "delete")'
      BY <3>1 DEF Fresh, At
    <3>. QED  BY <1>1, <2>2, <3>1, <3>2, <3>3, OwnStep
  <2>3. CASE Kind(t) \in Static
    <3>1. At(t, "forget")'
      BY <1>3, <1>7, <2>3, AfterStep
    <3>2. todo'[t] # <<>> /\ ~At(t, "delete")'
      BY <3>1 DEF At
    <3>3. Owned(t)' = {} /\ Owned(t) = {} /\ Link(t)' = NULL
      BY <1>2, <1>5, <2>1, <3>1, <3>2, OwnedIs
    <3>. QED  BY <1>1, <1>4, <2>3, <3>2, <3>3, OwnStep
  <2>. QED  BY <2>2, <2>3
<1>8. CASE At(t, "test") /\ Link(t) = NULL
  <2>1. At(t, "create")' /\ todo'[t] # <<>>
    BY <1>3, <1>8, AfterStep DEF At
  <2>2. ~At(t, "delete")'
    BY <2>1 DEF At
  <2>3. Owned(t)' = {} /\ Owned(t) = {} /\ Link(t)' = NULL
    BY <1>2, <1>5, <1>8, <2>1, OwnedIs
  <2>. QED  BY <1>1, <1>4, <2>1, <2>2, <2>3, OwnStep
<1>9. CASE At(t, "queue") \/ At(t, "flush") \/ At(t, "begin") \/ (At(t, "check") /\ Link(t) # NULL)
  <2>1. PICK s : At(t, s)' /\ s \in {"queue", "test", "flush", "begin", "check", "drop", "delete"}
                 /\ (s = "delete" => Link(t) # NULL)
    BY <1>3, <1>9, AfterStep
  <2>2. todo'[t] # <<>> /\ s # "null" /\ ~Fresh(t)'
    BY <2>1, Elsewhere DEF At
  <2>3. At(t, "delete")' => Link(t)' # NULL
    BY <1>2, <2>1, <2>2, Elsewhere
  <2>4. Owned(t)' = Owned(t)
    BY <1>2, <1>5, <2>1, <2>2, OwnedIs
  <2>5. Owned(t)' \cap Live \subseteq Owned(t) /\ Live' = (Live \ Owned(t)) \cup Owned(t)'
    BY <1>6, <2>4
  <2>. QED  BY <1>1, <1>4, <2>2, <2>3, <2>5, OwnStep
<1>. QED  BY <1>7, <1>8, <1>9

LEMMA LinkInstall ==
  ASSUME Types, Types', LinkState, NEW t \in Tasks, Install(t), ~Restart
  PROVE  LinkState' /\ wild' = wild
<1>1. /\ At(t, "install") /\ todo[t] # <<>> /\ Go(t)
      /\ UNCHANGED <<local, ran, links, handle, mixed, starved, wild, faults>>
  BY DEF Install, At
<1>2. Live' = Live
  BY <1>1 DEF Live
<1>. QED  BY <1>1, <1>2, LinkQuiet

LEMMA LinkForget ==
  ASSUME Types, Types', LinkState, NEW t \in Tasks, Forget(t)
  PROVE  LinkState' /\ wild' = wild
<1>1. /\ At(t, "forget") /\ todo[t] # <<>> /\ Go(t) /\ Kind(t) \in Static
      /\ handle' = [handle EXCEPT ![Kind(t)] = NULL]
      /\ local' = local /\ links' = links /\ wild' = wild
  BY WhoseStep DEF Forget, At, idf, seen, Types
<1>2. /\ \A u \in Tasks : u # t => todo'[u] = todo[u] /\ on'[u] = on[u]
      /\ todo'[t] # <<>> => on'[t] = on[t]
  BY <1>1, SameKind
<1>3. todo'[t] = <<>>
  BY <1>1, AfterStep DEF Types
<1>4. Link(t) = NULL /\ local[t] = NULL
  BY <1>1 DEF LinkState, Placed, Fresh, Forgotten
<1>5. Owned(t) = {} /\ Owned(t)' = {}
  BY <1>1, <1>3, <1>4, OwnedIs
<1>6. handle'[Kind(t)] = NULL /\ \A k \in Static : k # Kind(t) => handle'[k] = handle[k]
  BY <1>1 DEF Types, LinksOK
<1>7. ~Fresh(t)' /\ ~At(t, "delete")'
  BY <1>3 DEF Fresh, At
<1>8. Live' = Live
  BY <1>1 DEF Live
<1>. QED  BY <1>1, <1>2, <1>3, <1>4, <1>5, <1>6, <1>7, <1>8, OwnStep

\* A start on the link there is.
LEMMA AfterTest ==
  ASSUME Types, NEW t \in Tasks, At(t, "test"), Skip(t, 2)
  PROVE  At(t, "queue")' /\ on'[t] = on[t] /\ \A u \in Tasks : u # t => todo'[u] = todo[u] /\ on'[u] = on[u]
<1>1. CallsOK /\ todo[t] # <<>> /\ Kind(t) \in Static
  BY WhoseStep DEF Types, At
<1>. DEFINE p == todo[t]
            q == SubSeq(p, 2 + 1, Len(p))
<1>2. Rest(Kind(t), p) /\ p # <<>>
  BY <1>1 DEF CallsOK
<1>3. Len(p) \in Nat /\ Len(p) > 2 /\ p[3].do = "queue"
  <2>. HIDE DEF p
  <2>1. Head(p) = p[1] /\ Len(p) \in Nat \ {0}
        /\ (p[1].do = "test" => Len(p) > 2 /\ p[2].do = "create" /\ p[3].do = "queue")
    BY <1>1, <1>2, StaticHead
  <2>2. Head(p).do = "test"
    BY DEF At, p
  <2>. QED  BY <2>1, <2>2
<1>4. 2 \in 0..Len(p)
  <2>. HIDE DEF p
  <2>. QED  BY <1>3
<1>5. /\ todo' = [todo EXCEPT ![t] = q]
      /\ \A u \in Tasks : u # t => todo'[u] = todo[u] /\ on'[u] = on[u]
      /\ todo'[t] # <<>> => on'[t] = on[t]
  BY <1>1, <1>4, CallsSkip
<1>6. todo'[t] = q
  BY <1>1, <1>5 DEF CallsOK
<1>7. q # <<>> /\ Head(q).do = "queue"
  <2>1. ASSUME NEW n \in 0..Len(p)
        PROVE  /\ Rest(Kind(t), SubSeq(p, n + 1, Len(p))) /\ Len(SubSeq(p, n + 1, Len(p))) = Len(p) - n
               /\ \A i \in 1..(Len(p) - n) : SubSeq(p, n + 1, Len(p))[i] = p[n + i]
    <3>. HIDE DEF p
    <3>. QED  BY <1>2, RestSkips
  <2>2. Rest(Kind(t), q) /\ Len(q) = Len(p) - 2 /\ \A i \in 1..(Len(p) - 2) : q[i] = p[2 + i]
    <3>. HIDE DEF p
    <3>. QED  BY <1>4, <2>1
  <2>. HIDE DEF q, p
  <2>3. 1 \in 1..(Len(p) - 2) /\ 2 + 1 = 3 /\ Len(q) > 0
    BY <1>3, <2>2
  <2>4. q \in Seq(Steps) /\ q[1] = p[3]
    BY <2>2, <2>3 DEF Rest
  <2>. QED  BY <1>3, <2>3, <2>4
<1>. QED  BY <1>5, <1>6, <1>7 DEF At

LEMMA LinkTest ==
  ASSUME Types, Types', LinkState, NEW t \in Tasks, Test(t)
  PROVE  LinkState' /\ wild' = wild
<1>1. /\ At(t, "test") /\ todo[t] # <<>> /\ Kind(t) \in Static
      /\ local' = local /\ links' = links /\ handle' = handle /\ wild' = wild
      /\ Skip(t, IF handle[Kind(t)] = NULL THEN 1 ELSE 2)
  BY WhoseStep DEF Test, At, idf, seen, Types
<1>2. Live' = Live /\ Link(t) = handle[Kind(t)]
  BY <1>1 DEF Live, Link
<1>3. CASE handle[Kind(t)] = NULL
  <2>1. Go(t)
    BY <1>1, <1>3 DEF Go
  <2>. QED  BY <1>1, <1>2, <1>3, <2>1, LinkQuiet
<1>4. CASE handle[Kind(t)] # NULL
  <2>1. Skip(t, 2)
    BY <1>1, <1>4
  <2>2. At(t, "queue")' /\ on'[t] = on[t] /\ \A u \in Tasks : u # t => todo'[u] = todo[u] /\ on'[u] = on[u]
    BY <1>1, <2>1, AfterTest
  <2>3. Link(t)' = Link(t) /\ local[t] = NULL /\ todo'[t] # <<>>
    BY <1>1, <2>2 DEF Link, Kind, At, LinkState, Forgotten
  <2>4. Owned(t)' = Owned(t) /\ Owned(t) \subseteq Live
    <3>1. Owned(t) = {Link(t)} \ {NULL}
      BY <1>1, OwnedIs
    <3>2. Owned(t)' = {Link(t)'} \ {NULL}
      BY <2>2, OwnedIs
    <3>3. Owned(t) \subseteq Live
      BY DEF LinkState, Belongs
    <3>. QED  BY <2>3, <3>1, <3>2, <3>3
  <2>5. ~Fresh(t)' /\ ~At(t, "delete")'
    BY <2>2 DEF Fresh, At
  <2>6. Owned(t)' \cap Live \subseteq Owned(t) /\ Live' = (Live \ Owned(t)) \cup Owned(t)'
    BY <1>2, <2>4
  <2>. QED  BY <1>1, <2>2, <2>3, <2>5, <2>6, OwnStep
<1>. QED  BY <1>3, <1>4

LEMMA LinkCreate ==
  ASSUME Types, Types', LinkState, NEW t \in Tasks, Create(t)
  PROVE  LinkState' /\ wild' = wild
<1>. DEFINE l == NewLink
<1>1. /\ todo[t] # <<>> /\ Go(t) /\ links' = [links EXCEPT ![l] = <<>>] /\ wild' = wild
      /\ At(t, "create") \/ At(t, "make")
  BY DEF Create, At, seen
<1>2. l \in Links /\ links[l] = Free
  BY NewLinkIsFree DEF Create
<1>. HIDE DEF l
<1>3. /\ \A u \in Tasks : u # t => todo'[u] = todo[u] /\ on'[u] = on[u]
      /\ todo'[t] # <<>> =>
           /\ on'[t] = on[t]
           /\ Link(t)' = IF Kind(t) \in Static THEN handle'[Kind(t)] ELSE local'[t]
  BY <1>1, SameKind
<1>4. At(t, "queue")' /\ todo'[t] # <<>>
  BY <1>1, AfterStep DEF Types, At
<1>5. /\ Link(t) = NULL /\ (Kind(t) \in Static => local[t] = NULL)
      /\ local \in [Tasks -> Links \cup {NULL}] /\ handle \in [Static -> Links \cup {NULL}]
  BY <1>1 DEF LinkState, Placed, Fresh, Forgotten, Types, LinksOK
<1>6. /\ \A u \in Tasks : u # t => local'[u] = local[u]
      /\ \A k \in Static : k # Kind(t) => handle'[k] = handle[k]
      /\ Link(t)' = l
      /\ Kind(t) \in Static => local'[t] = NULL
  <2>1. CASE At(t, "create")
    <3>1. Kind(t) \in Static /\ local' = local /\ handle' = [handle EXCEPT ![Kind(t)] = l]
      <4>1. Kind(t) \in Static
        BY <1>1, <2>1, WhoseStep DEF Types
      <4>2. ~At(t, "make")
        BY <2>1 DEF At
      <4>. QED  BY <4>1, <4>2 DEF Create, l
    <3>. QED  BY <1>3, <1>4, <1>5, <3>1
  <2>2. CASE At(t, "make")
    <3>1. Kind(t) \notin Static /\ handle' = handle /\ local' = [local EXCEPT ![t] = l]
      <4>1. Kind(t) \notin Static
        BY <1>1, <2>2, WhoseStep DEF Types
      <4>2. ~At(t, "create")
        BY <2>2 DEF At
      <4>. QED  BY <4>1, <4>2 DEF Create, l
    <3>. QED  BY <1>3, <1>4, <1>5, <3>1
  <2>. QED  BY <1>1, <2>1, <2>2
<1>7. l # NULL
  BY <1>2, BoundAssumption DEF Links, NULL
<1>8. Owned(t) = {} /\ Owned(t)' = {l}
  BY <1>1, <1>4, <1>5, <1>6, <1>7, OwnedIs
<1>9. Live' = Live \cup {l} /\ l \notin Live
  <2>1. links \in [Links -> {Free} \cup Seq(Cmd)] /\ <<>> # Free
    BY DEF Types, LinksOK, Free
  <2>2. \A k \in Links : links'[k] = IF k = l THEN <<>> ELSE links[k]
    BY <1>1, <1>2, <2>1
  <2>. QED  BY <1>2, <2>1, <2>2 DEF Live
<1>10. ~Fresh(t)' /\ ~At(t, "delete")'
  BY <1>4 DEF Fresh, At
<1>11. Owned(t)' \cap Live \subseteq Owned(t) /\ Live' = (Live \ Owned(t)) \cup Owned(t)'
  BY <1>8, <1>9
<1>. QED  BY <1>1, <1>3, <1>4, <1>6, <1>10, <1>11, OwnStep

LEMMA LinkCreateFails ==
  ASSUME Types, Types', LinkState, NEW t \in Tasks, CreateFails(t)
  PROVE  LinkState' /\ wild' = wild
<1>1. /\ todo[t] # <<>> /\ Go(t) /\ links' = links /\ local' = local /\ wild' = wild
      /\ At(t, "create") \/ At(t, "make")
  BY DEF CreateFails, At, idf
<1>3. /\ \A u \in Tasks : u # t => todo'[u] = todo[u] /\ on'[u] = on[u]
      /\ todo'[t] # <<>> =>
           /\ on'[t] = on[t]
           /\ Link(t)' = IF Kind(t) \in Static THEN handle'[Kind(t)] ELSE local'[t]
  BY <1>1, SameKind
<1>4. At(t, "queue")' /\ todo'[t] # <<>>
  BY <1>1, AfterStep DEF Types, At
<1>5. /\ Link(t) = NULL /\ (Kind(t) \in Static => local[t] = NULL)
      /\ local \in [Tasks -> Links \cup {NULL}] /\ handle \in [Static -> Links \cup {NULL}]
  BY <1>1 DEF LinkState, Placed, Fresh, Forgotten, Types, LinksOK
<1>6. /\ \A k \in Static : k # Kind(t) => handle'[k] = handle[k]
      /\ Link(t)' = NULL
  <2>1. CASE At(t, "create")
    <3>1. Kind(t) \in Static /\ handle' = [handle EXCEPT ![Kind(t)] = NULL]
      BY <1>1, <2>1, WhoseStep DEF Types, CreateFails
    <3>. QED  BY <1>3, <1>4, <1>5, <3>1
  <2>2. CASE ~At(t, "create")
    <3>1. Kind(t) \notin Static /\ handle' = handle
      BY <1>1, <2>2, WhoseStep DEF Types, CreateFails
    <3>2. local[t] = NULL
      BY <1>5, <3>1 DEF Link
    <3>. QED  BY <1>1, <1>3, <1>4, <3>1, <3>2
  <2>. QED  BY <2>1, <2>2
<1>8. Owned(t) = {} /\ Owned(t)' = {}
  BY <1>1, <1>4, <1>5, <1>6, OwnedIs
<1>9. Live' = Live
  BY <1>1 DEF Live
<1>10. ~Fresh(t)' /\ ~At(t, "delete")'
  BY <1>4 DEF Fresh, At
<1>. QED  BY <1>1, <1>3, <1>4, <1>5, <1>6, <1>8, <1>9, <1>10, OwnStep

\* A link that a task hands to the driver is there.
LEMMA LinkThere ==
  ASSUME LinkState, NEW t \in Tasks, NEW s, At(t, s), s # "null"
  PROVE  Link(t) # NULL => Link(t) \in Links /\ links[Link(t)] # Free
<1>1. Owned(t) = {Link(t)} \ {NULL}
  BY OwnedIs
<1>2. Owned(t) \subseteq Live
  BY DEF LinkState, Belongs
<1>. QED  BY <1>1, <1>2 DEF Live

\* Commands are added to a link that is there, and it stays.
LEMMA ExtendLive ==
  ASSUME Types, LinkState, NEW t \in Tasks, At(t, "queue"), NEW cmds \in Seq(Cmd), Extend(t, cmds)
  PROVE  Live' = Live /\ wild' = wild
<1>. DEFINE l == Link(t)
<1>1. /\ wild' = (wild \/ (l # NULL /\ links[l] = Free))
      /\ links' = IF l = NULL \/ links[l] = Free \/ Shared(t)
                    THEN links ELSE [links EXCEPT ![l] = links[l] \o cmds]
  BY DEF Extend
<1>2. l # NULL => l \in Links /\ links[l] # Free
  BY LinkThere
<1>3. links \in [Links -> {Free} \cup Seq(Cmd)] /\ wild \in BOOLEAN
  BY DEF Types, LinksOK, SeenOK
<1>. HIDE DEF l
<1>4. wild' = wild
  BY <1>1, <1>2, <1>3
<1>5. CASE l = NULL \/ links[l] = Free \/ Shared(t)
  BY <1>1, <1>4, <1>5 DEF Live
<1>6. CASE ~(l = NULL \/ links[l] = Free \/ Shared(t))
  <2>. DEFINE c == links[l] \o cmds
  <2>1. links[l] \in Seq(Cmd)
    BY <1>2, <1>3, <1>6
  <2>2. c \in Seq(Cmd)
    BY <2>1, SmallSeqs
  <2>3. links' = [links EXCEPT ![l] = c] /\ l \in Links /\ links[l] # Free
    BY <1>1, <1>2, <1>6
  <2>. HIDE DEF c
  <2>4. c # Free
    BY <2>2, FreeIsNoQueue
  <2>5. \A k \in Links : links'[k] = IF k = l THEN c ELSE links[k]
    BY <1>3, <2>3
  <2>6. Live' = Live
    BY <2>3, <2>4, <2>5 DEF Live
  <2>. QED  BY <1>4, <2>6
<1>. QED  BY <1>5, <1>6

\* Some commands are added: all of them, or all but one.
LEMMA QueueExtends ==
  ASSUME Types, NEW t \in Tasks, QueueCommands(t) \/ QueueFails(t)
  PROVE  \E cmds \in Seq(Cmd) : Extend(t, cmds)
<1>1. Head(todo[t]).cmds \in Seq(Cmd)
  BY StepCommands DEF Types, QueueCommands, QueueFails
<1>2. CASE QueueCommands(t)
  BY <1>1, <1>2 DEF QueueCommands
<1>3. CASE QueueFails(t)
  <2>1. PICK i \in DOMAIN Head(todo[t]).cmds : Extend(t, RemoveAt(Head(todo[t]).cmds, i))
    BY <1>3 DEF QueueFails
  <2>2. RemoveAt(Head(todo[t]).cmds, i) \in Seq(Cmd)
    BY <1>1, RemovedCommands
  <2>. QED  BY <2>1, <2>2
<1>. QED  BY <1>2, <1>3

LEMMA LinkQueue ==
  ASSUME Types, Types', LinkState, NEW t \in Tasks, QueueCommands(t) \/ QueueFails(t)
  PROVE  LinkState' /\ wild' = wild
<1>1. /\ At(t, "queue") /\ todo[t] # <<>> /\ Go(t)
      /\ handle' = handle /\ local' = local
  BY DEF QueueCommands, QueueFails, At
<1>2. Live' = Live /\ wild' = wild
  BY <1>1, QueueExtends, ExtendLive
<1>. QED  BY <1>1, <1>2, LinkQuiet

LEMMA LinkFlush ==
  ASSUME Types, Types', LinkState, NEW t \in Tasks, Flush(t)
  PROVE  LinkState' /\ wild' = wild
<1>1. /\ todo[t] # <<>> /\ Go(t) /\ handle' = handle /\ local' = local /\ links' = links
      /\ At(t, "flush") \/ At(t, "begin")
  BY DEF Flush, At
<1>2. Live' = Live
  BY <1>1 DEF Live
<1>3. wild' = wild
  <2>1. Link(t) # NULL => links[Link(t)] # Free
    BY <1>1, LinkThere
  <2>2. wild' = wild \/ wild' = (wild \/ (Link(t) # NULL /\ links[Link(t)] = Free))
    BY DEF Flush, Begun
  <2>. QED  BY <2>1, <2>2 DEF Types, SeenOK
<1>. QED  BY <1>1, <1>2, <1>3, LinkQuiet

LEMMA LinkCheck ==
  ASSUME Types, Types', LinkState, NEW t \in Tasks, Check(t)
  PROVE  LinkState' /\ wild' = wild
<1>1. /\ At(t, "check") /\ todo[t] # <<>> /\ Kind(t) \in Static /\ CallsOK
      /\ local' = local /\ links' = links /\ handle' = handle /\ wild' = wild
      /\ Skip(t, IF handle[Kind(t)] = NULL THEN 3 ELSE 1)
  BY WhoseStep DEF Check, At, idf, Types
<1>2. Live' = Live /\ Link(t) = handle[Kind(t)]
  BY <1>1 DEF Live, Link
<1>3. CASE handle[Kind(t)] # NULL
  <2>1. Go(t)
    BY <1>1, <1>3 DEF Go
  <2>. QED  BY <1>1, <1>2, <1>3, <2>1, LinkQuiet
<1>4. CASE handle[Kind(t)] = NULL
  <2>1. Skip(t, 3) /\ Len(todo[t]) = 3 /\ todo[t] \in Seq(Steps)
    BY <1>1, <1>4, WhoseStep
  <2>2. 3 \in 0..Len(todo[t])
    BY <2>1
  <2>3. /\ todo' = [todo EXCEPT ![t] = SubSeq(todo[t], 3 + 1, Len(todo[t]))]
        /\ \A u \in Tasks : u # t => todo'[u] = todo[u] /\ on'[u] = on[u]
        /\ todo'[t] # <<>> => on'[t] = on[t]
    BY <1>1, <2>1, <2>2, CallsSkip
  <2>4. todo'[t] = <<>>
    <3>1. todo'[t] = SubSeq(todo[t], 3 + 1, Len(todo[t]))
      BY <1>1, <2>3 DEF CallsOK
    <3>2. SubSeq(todo[t], 3 + 1, Len(todo[t])) = <<>>
      BY <2>1
    <3>. QED  BY <3>1, <3>2
  <2>5. Owned(t) = {} /\ Owned(t)' = {}
    BY <1>1, <1>2, <1>4, <2>4, OwnedIs
  <2>6. local[t] = NULL /\ ~Fresh(t)' /\ ~At(t, "delete")'
    BY <1>1, <2>4 DEF Fresh, At, LinkState, Forgotten
  <2>. QED  BY <1>1, <1>2, <1>4, <2>3, <2>4, <2>5, <2>6, OwnStep
<1>. QED  BY <1>3, <1>4

LEMMA LinkDelete ==
  ASSUME Types, Types', LinkState, NEW t \in Tasks, DeleteLink(t)
  PROVE  LinkState' /\ wild' = wild
<1>. DEFINE l == Link(t)
<1>1. /\ todo[t] # <<>> /\ Go(t) /\ handle' = handle /\ CallsOK /\ CallsOK'
      /\ At(t, "delete") \/ At(t, "drop")
      /\ wild' = (wild \/ (l # NULL /\ links[l] = Free))
      /\ links' = IF l = NULL THEN links ELSE [links EXCEPT ![l] = Free]
  BY DEF DeleteLink, At, Types
<1>2. l # NULL => l \in Links /\ links[l] # Free
  BY <1>1, LinkThere
<1>3. wild' = wild
  BY <1>1, <1>2 DEF Types, SeenOK
<1>4. Owned(t) = {l} \ {NULL}
  BY <1>1, OwnedIs
<1>5. /\ \A u \in Tasks : u # t => todo'[u] = todo[u] /\ on'[u] = on[u]
      /\ todo'[t] # <<>> => on'[t] = on[t]
  BY <1>1, SameKind
<1>6. Live' = Live \ Owned(t)
  <2>0. links \in [Links -> {Free} \cup Seq(Cmd)]
    BY DEF Types, LinksOK
  <2>. HIDE DEF l
  <2>1. CASE l = NULL
    BY <1>1, <1>4, <2>1 DEF Live
  <2>2. CASE l # NULL
    <3>1. \A k \in Links : links'[k] = IF k = l THEN Free ELSE links[k]
      BY <1>1, <1>2, <2>0, <2>2
    <3>2. Owned(t) = {l}
      BY <1>4, <2>2
    <3>. QED  BY <3>1, <3>2 DEF Live
  <2>. QED  BY <2>1, <2>2
<1>7. CASE At(t, "delete")
  <2>1. At(t, "null")' /\ todo'[t] # <<>> /\ Kind(t) \in Static
    BY <1>1, <1>7, AfterStep, WhoseStep DEF At
  <2>2. Owned(t)' = {} /\ ~Fresh(t)' /\ ~At(t, "delete")'
    BY <2>1, OwnedIs DEF At, Fresh
  <2>3. local' = local /\ local[t] = NULL
    <3>1. ~At(t, "drop")
      BY <1>7 DEF At
    <3>2. local' = local
      BY <3>1 DEF DeleteLink
    <3>. QED  BY <2>1, <3>2 DEF LinkState, Forgotten
  <2>. QED  BY <1>1, <1>3, <1>5, <1>6, <2>1, <2>2, <2>3, OwnStep
<1>8. CASE At(t, "drop")
  <2>1. todo'[t] = <<>> /\ Kind(t) \notin Static
    BY <1>1, <1>8, AfterStep, WhoseStep
  <2>2. Owned(t)' = {} /\ ~Fresh(t)' /\ ~At(t, "delete")'
    BY <2>1, OwnedIs DEF At, Fresh
  <2>3. local' = [local EXCEPT ![t] = NULL]
    BY <1>8 DEF DeleteLink
  <2>4. local'[t] = NULL /\ \A u \in Tasks : u # t => local'[u] = local[u]
    BY <2>3 DEF Types, LinksOK
  <2>. QED  BY <1>1, <1>3, <1>5, <1>6, <2>1, <2>2, <2>4, OwnStep
<1>. QED  BY <1>1, <1>7, <1>8

LEMMA LinkNull ==
  ASSUME Types, Types', LinkState, NEW t \in Tasks, Null(t)
  PROVE  LinkState' /\ wild' = wild
<1>1. /\ At(t, "null") /\ todo[t] # <<>> /\ Go(t) /\ Kind(t) \in Static
      /\ handle' = [handle EXCEPT ![Kind(t)] = NULL]
      /\ local' = local /\ links' = links /\ wild' = wild
  BY WhoseStep DEF Null, NullHandle, At, idf, Types
<1>2. /\ \A u \in Tasks : u # t => todo'[u] = todo[u] /\ on'[u] = on[u]
      /\ todo'[t] # <<>> => on'[t] = on[t]
  BY <1>1, SameKind
<1>3. todo'[t] = <<>> /\ local[t] = NULL
  BY <1>1, AfterStep DEF Types, LinkState, Forgotten
<1>4. Owned(t) = {} /\ Owned(t)' = {} /\ ~Fresh(t)' /\ ~At(t, "delete")'
  BY <1>1, <1>3, OwnedIs DEF Fresh, At
<1>5. handle'[Kind(t)] = NULL /\ \A k \in Static : k # Kind(t) => handle'[k] = handle[k]
  BY <1>1 DEF Types, LinksOK
<1>6. Live' = Live
  BY <1>1 DEF Live
<1>. QED  BY <1>1, <1>2, <1>3, <1>4, <1>5, <1>6, OwnStep

\* A call that begins where nobody uses the static of its file finds no link.
LEMMA LinkEnter ==
  ASSUME Types, Types', LinkState, NEW t \in Tasks, NEW o \in Objects,
         NEW ms \in Transfers \cup {<<>>}, NEW p, Rest(KindOf[o], p),
         Head(p).do # "null" /\ Head(p).do # "delete",
         Enter(t, o, ms, p), Users(o) = {},
         local' = local, handle' = handle, links' = links
  PROVE  LinkState'
<1>1. /\ todo[t] = <<>>
      /\ \A u \in Tasks : u # t => todo'[u] = todo[u] /\ on'[u] = on[u]
      /\ todo'[t] = p /\ on'[t] = o
  <2>1. todo[t] = <<>>
    BY DEF Enter
  <2>. QED  BY <2>1, CallsEnter
<1>2. \A u \in Tasks : todo[u] # <<>> /\ KindOf[o] \in Static => Kind(u) # KindOf[o]
  BY DEF Users
<1>3. /\ \A k \in Static : (\A u \in Tasks : todo[u] = <<>> \/ Kind(u) # k) => handle[k] = NULL
      /\ \A u \in Tasks : todo[u] = <<>> \/ Kind(u) \in Static => local[u] = NULL
  BY DEF LinkState, Forgotten
<1>4. Kind(t)' = KindOf[o] /\ \A u \in Tasks : u # t => Kind(u)' = Kind(u)
  BY <1>1 DEF Kind
<1>5. Link(t)' = NULL
  <2>1. KindOf[o] \in Static => handle[KindOf[o]] = NULL
    BY <1>2, <1>3
  <2>2. local[t] = NULL
    BY <1>1, <1>3
  <2>. QED  BY <1>4, <2>1, <2>2 DEF Link
<1>6. OneUser'
  <2>1. SUFFICES ASSUME NEW u \in Tasks, NEW v \in Tasks, todo'[u] # <<>>, todo'[v] # <<>>,
                        Kind(u)' = Kind(v)', Kind(u)' \in Static
                 PROVE  u = v
    BY DEF OneUser
  <2>2. \A w \in Tasks : w # t /\ todo'[w] # <<>> /\ KindOf[o] \in Static => Kind(w)' # KindOf[o]
    BY <1>1, <1>2, <1>4
  <2>3. CASE u # t /\ v # t
    <3>1. todo[u] # <<>> /\ todo[v] # <<>> /\ Kind(u) = Kind(v) /\ Kind(u) \in Static
      BY <1>1, <1>4, <2>1, <2>3
    <3>. QED  BY <3>1 DEF LinkState, OneUser
  <2>4. CASE u = t \/ v = t
    BY <1>4, <2>1, <2>2, <2>4
  <2>. QED  BY <2>3, <2>4
<1>7. Forgotten'
  <2>1. ASSUME NEW k \in Static, \A u \in Tasks : todo'[u] = <<>> \/ Kind(u)' # k
        PROVE  handle'[k] = NULL
    <3>1. \A u \in Tasks : todo[u] = <<>> \/ Kind(u) # k
      BY <1>1, <1>4, <2>1
    <3>. QED  BY <1>3, <3>1
  <2>2. ASSUME NEW u \in Tasks, todo'[u] = <<>> \/ Kind(u)' \in Static
        PROVE  local'[u] = NULL
    BY <1>1, <1>3, <1>4, <2>2
  <2>. QED  BY <2>1, <2>2 DEF Forgotten
<1>8. ASSUME NEW u \in Tasks, u # t
      PROVE  /\ Link(u)' = Link(u) /\ Owned(u)' = Owned(u)
             /\ \A s : At(u, s)' <=> At(u, s)
  <2>1. Link(u)' = Link(u)
    BY <1>4, <1>8 DEF Link
  <2>2. todo'[u] = todo[u]
    BY <1>1, <1>8
  <2>3. \A s : At(u, s)' <=> At(u, s)
    BY <2>2 DEF At
  <2>4. Owned(u)' = Owned(u)
    BY <2>1, <2>2 DEF Owned, Refers, At
  <2>. QED  BY <2>1, <2>3, <2>4
<1>9. Placed'
  <2>1. SUFFICES ASSUME NEW u \in Tasks
                 PROVE  /\ Fresh(u)' => Link(u)' = NULL
                        /\ At(u, "delete")' => Link(u)' # NULL
    BY DEF Placed
  <2>2. CASE u = t
    BY <1>1, <1>5, <2>2 DEF At
  <2>3. CASE u # t
    BY <1>8, <2>3 DEF LinkState, Placed, Fresh
  <2>. QED  BY <2>2, <2>3
<1>10. Belongs'
  <2>1. Owned(t)' = {} /\ Owned(t) = {} /\ Live' = Live
    BY <1>1, <1>5 DEF Owned, Refers, Live
  <2>. DEFINE O(u) == Owned(u)'
              L    == Live'
  <2>2. (\A u \in Tasks : O(u) = Owned(u)) /\ L = Live
    BY <1>8, <2>1
  <2>. HIDE DEF O, L
  <2>3. /\ \A l \in L : \E u \in Tasks : l \in O(u)
        /\ \A u \in Tasks : O(u) \subseteq L
        /\ \A u, v \in Tasks : u # v => O(u) \cap O(v) = {}
    BY <2>2 DEF LinkState, Belongs
  <2>. QED  BY <2>3 DEF Belongs, O, L
<1>. QED  BY <1>6, <1>7, <1>9, <1>10 DEF LinkState

\* Where no call is under way there are no links.
LEMMA LinkOff ==
  ASSUME todo = Off.todo, local = Off.local, links = Off.links, handle = Off.handle
  PROVE  LinkState
<1>1. /\ \A t \in Tasks : todo[t] = <<>> /\ local[t] = NULL
      /\ \A l \in Links : links[l] = Free
      /\ \A k \in Static : handle[k] = NULL
  BY OffTypes
<1>2. Live = {} /\ \A t \in Tasks : Owned(t) = {}
  BY <1>1 DEF Live, Owned, Refers
<1>3. OneUser /\ Forgotten
  BY <1>1 DEF OneUser, Forgotten
<1>4. Placed
  BY <1>1 DEF Placed, Fresh, At
<1>5. Belongs
  <2>. HIDE DEF Live, Owned
  <2>. QED  BY <1>2 DEF Belongs
<1>. QED  BY <1>3, <1>4, <1>5 DEF LinkState

LEMMA LinkInit == Init => LinkInv
<1>. SUFFICES ASSUME Init PROVE LinkState /\ ~wild
  BY DEF LinkInv
<1>. QED  BY LinkOff DEF Init

LEMMA LinkRestart ==
  ASSUME Restart
  PROVE  LinkState' /\ ~wild'
<1>1. /\ \A t \in Tasks : todo'[t] = <<>> /\ local'[t] = NULL
      /\ \A l \in Links : links'[l] = Free
      /\ \A k \in Static : handle'[k] = NULL
      /\ wild' = FALSE
  BY OffTypes DEF Restart
<1>2. Live' = {} /\ \A t \in Tasks : Owned(t)' = {}
  BY <1>1 DEF Live, Owned, Refers
<1>3. OneUser' /\ Forgotten'
  BY <1>1 DEF OneUser, Forgotten
<1>4. Placed'
  BY <1>1 DEF Placed, Fresh, At
<1>5. Belongs'
  <2>. DEFINE O(u) == Owned(u)'
              L    == Live'
  <2>1. L = {} /\ \A t \in Tasks : O(t) = {}
    BY <1>2
  <2>. HIDE DEF O, L
  <2>2. /\ \A l \in L : \E u \in Tasks : l \in O(u)
        /\ \A u \in Tasks : O(u) \subseteq L
        /\ \A u, v \in Tasks : u # v => O(u) \cap O(v) = {}
    BY <2>1
  <2>. QED  BY <2>2 DEF Belongs, O, L
<1>. QED  BY <1>1, <1>3, <1>4, <1>5 DEF LinkState

\* Construction, destruction and moves, between transfers.
LEMMA LinkObject ==
  ASSUME LinkState, NEW t \in Tasks, NEW o \in Objects, NEW other \in Objects,
         MoveConstruct(t, o, other) \/ MoveAssign(t, o, other) \/ Delete(t, o)
  PROVE  LinkState' /\ wild' = wild /\ mixed' = mixed
<1>1. /\ todo' = todo /\ on' = on /\ local' = local /\ handle' = handle /\ links' = links
      /\ wild' = wild /\ mixed' = mixed
  BY DEF MoveConstruct, MoveAssign, Delete, frame, idf
<1>2. LinkState'
  BY <1>1 DEF LinkState, OneUser, Forgotten, Placed, Belongs, Kind, Link, Fresh, At, Owned, Refers, Live
<1>. QED  BY <1>1, <1>2

LEMMA LinkBegins ==
  ASSUME Types, Types', LinkState, NEW t \in Tasks, NEW o \in Objects, Users(o) = {},
         New(t, o) \/ \E ms \in Transfers : transfer(t, o, ms)
  PROVE  LinkState' /\ wild' = wild
<1>1. CASE New(t, o)
  <2>. DEFINE p == Construct(KindOf[o])
  <2>1. Rest(KindOf[o], p) /\ Enter(t, o, <<>>, p) /\ Head(p).do = "install"
    BY <1>1, ConstructProgram, KindAssumption DEF New, Construct, Do
  <2>2. local' = local /\ handle' = handle /\ links' = links /\ wild' = wild
    BY <1>1 DEF New, idf
  <2>. QED  BY <2>1, <2>2, LinkEnter
<1>2. CASE \E ms \in Transfers : transfer(t, o, ms)
  <2>1. PICK ms \in Transfers : transfer(t, o, ms)
    BY <1>2
  <2>. DEFINE p == Program(t, o, ms)
  <2>2. Rest(KindOf[o], p) /\ p # <<>> /\ Enter(t, o, ms, p)
    BY <2>1, TransferProgram DEF transfer, Program
  <2>3. local' = local /\ handle' = handle /\ links' = links /\ wild' = wild
    BY <2>1 DEF transfer, idf
  <2>4. Head(p).do # "null" /\ Head(p).do # "delete"
    <3>1. Rest(KindOf[o], p) /\ KindOf[o] \in Kinds /\ ms \in Seq(Message)
      BY <2>2, KindAssumption, TransferAssumption
    <3>2. KindOf[o] \in Static => p[1].do \in {"test", "flush"}
      BY <3>1, TransferProgram, StaticProgram
    <3>3. KindOf[o] \notin Static => p[1].do = "make"
      BY <3>1, TransferProgram, MessageProgram
    <3>4. Head(p) = p[1]
      <4>. HIDE DEF p
      <4>. QED  BY <2>2, <3>1, StaticHead, MessageHead
    <3>. QED  BY <3>2, <3>3, <3>4
  <2>. HIDE DEF p
  <2>. QED  BY <2>2, <2>3, <2>4, LinkEnter
<1>. QED  BY <1>1, <1>2

LEMMA LinkStep ==
  ASSUME Types, Types', LinkState, NEW t \in Tasks, Step(t), ~Restart
  PROVE  LinkState' /\ wild' = wild
<1>1. CASE Install(t)
  BY <1>1, LinkInstall
<1>2. CASE Forget(t) \/ Test(t)
  BY <1>2, LinkForget, LinkTest
<1>3. CASE Create(t) \/ CreateFails(t)
  BY <1>3, LinkCreate, LinkCreateFails
<1>4. CASE QueueCommands(t) \/ QueueFails(t)
  BY <1>4, LinkQueue
<1>5. CASE Flush(t) \/ Check(t)
  BY <1>5, LinkFlush, LinkCheck
<1>6. CASE DeleteLink(t) \/ Null(t)
  BY <1>6, LinkDelete, LinkNull
<1>. QED  BY <1>1, <1>2, <1>3, <1>4, <1>5, <1>6 DEF Step

\* Two users of a static that are seen stay seen until the chip restarts.
LEMMA MixedStays ==
  ASSUME Next
  PROVE  \/ Restart
         \/ \E t \in Tasks : Step(t) /\ ~Restart /\ mixed' = mixed
         \/ \E t \in Tasks, o \in Objects :
              /\ New(t, o) \/ \E ms \in Transfers : transfer(t, o, ms)
              /\ mixed' = {} => mixed = {} /\ Users(o) = {}
         \/ \E t \in Tasks, o, other \in Objects :
              (MoveConstruct(t, o, other) \/ MoveAssign(t, o, other) \/ Delete(t, o)) /\ mixed' = mixed
<1>1. ASSUME NEW t \in Tasks, Step(t), ~Restart
      PROVE  mixed' = mixed
  BY <1>1 DEF Step, Install, Forget, Test, Create, CreateFails, QueueCommands, QueueFails, Flush, Check,
              DeleteLink, Null, seen
<1>2. ASSUME NEW t \in Tasks, NEW o \in Objects, New(t, o) \/ \E ms \in Transfers : transfer(t, o, ms)
      PROVE  mixed' = {} => mixed = {} /\ Users(o) = {}
  <2>1. Use(o)
    BY <1>2 DEF New, transfer, Enter
  <2>. HIDE DEF Users
  <2>. QED  BY <2>1 DEF Use
<1>3. ASSUME NEW t \in Tasks, NEW o \in Objects, NEW other \in Objects,
             MoveConstruct(t, o, other) \/ MoveAssign(t, o, other) \/ Delete(t, o)
      PROVE  mixed' = mixed
  BY <1>3 DEF MoveConstruct, MoveAssign, Delete
<1>4. PICK t \in Tasks :
        \/ \E o \in Objects : New(t, o) \/ Delete(t, o) \/ \E ms \in Transfers : transfer(t, o, ms)
        \/ \E o, other \in Objects : MoveConstruct(t, o, other) \/ MoveAssign(t, o, other)
        \/ Step(t)
  BY DEF Next
<1>5. CASE Step(t)
  BY <1>1, <1>5
<1>6. CASE \E o \in Objects : New(t, o) \/ \E ms \in Transfers : transfer(t, o, ms)
  BY <1>2, <1>6
<1>7. CASE \E o \in Objects : Delete(t, o)
  BY <1>3, <1>7
<1>8. CASE \E o, other \in Objects : MoveConstruct(t, o, other) \/ MoveAssign(t, o, other)
  BY <1>3, <1>8
<1>. QED  BY <1>4, <1>5, <1>6, <1>7, <1>8

LEMMA LinkNext ==
  ASSUME Types, Types', LinkInv, [Next]_vars
  PROVE  LinkInv'
<1>1. CASE UNCHANGED vars
  <2>1. /\ todo' = todo /\ on' = on /\ local' = local /\ handle' = handle /\ links' = links
        /\ wild' = wild /\ mixed' = mixed
    BY <1>1 DEF vars, frame, idf, seen
  <2>2. LinkState => LinkState'
    BY <2>1 DEF LinkState, OneUser, Forgotten, Placed, Belongs, Kind, Link, Fresh, At, Owned, Refers, Live
  <2>. QED  BY <2>1, <2>2 DEF LinkInv
<1>2. CASE Restart
  BY <1>2, LinkRestart DEF LinkInv
<1>3. ASSUME NEW t \in Tasks, Step(t), ~Restart, mixed' = mixed
      PROVE  LinkInv'
  BY <1>3, LinkStep DEF LinkInv
<1>4. ASSUME NEW t \in Tasks, NEW o \in Objects, New(t, o) \/ \E ms \in Transfers : transfer(t, o, ms),
             mixed' = {} => mixed = {} /\ Users(o) = {}
      PROVE  LinkInv'
  BY <1>4, LinkBegins DEF LinkInv
<1>5. ASSUME NEW t \in Tasks, NEW o \in Objects, NEW other \in Objects, mixed' = mixed,
             MoveConstruct(t, o, other) \/ MoveAssign(t, o, other) \/ Delete(t, o)
      PROVE  LinkInv'
  BY <1>5, LinkObject DEF LinkInv
<1>6. CASE Next
  BY <1>2, <1>3, <1>4, <1>5, <1>6, MixedStays
<1>. QED  BY <1>1, <1>6

LEMMA LinkInvIs ==
  LinkInv => NoDanglingLink /\ LinksReturned
<1>. SUFFICES ASSUME LinkInv, mixed = {}
              PROVE  ~wild /\ \A l \in Links : links[l] # Free => \E t \in Tasks : todo[t] # <<>> /\ Link(t) = l
  BY DEF NoDanglingLink, LinksReturned
<1>1. ~wild /\ LinkState
  BY DEF LinkInv
<1>2. ASSUME NEW l \in Links, links[l] # Free PROVE \E t \in Tasks : todo[t] # <<>> /\ Link(t) = l
  <2>1. PICK t \in Tasks : l \in Owned(t)
    BY <1>1, <1>2 DEF LinkState, Belongs, Live
  <2>. QED  BY <2>1 DEF Owned, Refers
<1>. QED  BY <1>1, <1>2

\* No step uses a link that was deleted, as long as no two users share a static
\* (hardwarei2calgorithm.cpp 89-152, i2chal.c 72-132, esp32i2calgorithm.cpp 72-139).
THEOREM I2cNoDanglingLink == Spec => []NoDanglingLink
  BY TypesInit, TypesNext, LinkInit, LinkNext, LinkInvIs, PTL DEF Spec

\* Every link there is belongs to a transfer that is under way: whatever failed, it is
\* deleted when its transfer ends (the same lines).
THEOREM I2cLinksReturned == Spec => []LinksReturned
  BY TypesInit, TypesNext, LinkInit, LinkNext, LinkInvIs, PTL DEF Spec

-----------------------------------------------------------------------------
(* What a call queues.                                                     *)

\* FlattenSeq of two parts.
LEMMA FlattenJoins ==
  ASSUME NEW X, NEW ss \in Seq(Seq(X)), NEW tt \in Seq(Seq(X))
  PROVE  FlattenSeq(ss \o tt) = FlattenSeq(ss) \o FlattenSeq(tt)
<1>. DEFINE rr == ss \o tt
            m  == Len(ss)
            n  == Len(tt)
            Y  == Seq(X)
<1>1. /\ rr \in Seq(Y) /\ Len(rr) = m + n /\ m \in Nat /\ n \in Nat
      /\ \A i \in 1..m : rr[i] = ss[i]
      /\ \A j \in 1..n : rr[m + j] = tt[j]
  <2>. HIDE DEF Y
  <2>. QED  BY TwoParts DEF Y
<1>2. PICK f \in [0..m -> Y] :
        f[0] = <<>> /\ (\A i \in 1..m : f[i] = f[i-1] \o ss[i]) /\ FlattenSeq(ss) = f[m]
  BY Flatten
<1>3. PICK g \in [0..n -> Y] :
        g[0] = <<>> /\ (\A i \in 1..n : g[i] = g[i-1] \o tt[i]) /\ FlattenSeq(tt) = g[n]
  BY Flatten
<1>4. PICK h \in [0..Len(rr) -> Y] :
        h[0] = <<>> /\ (\A i \in 1..Len(rr) : h[i] = h[i-1] \o rr[i]) /\ FlattenSeq(rr) = h[Len(rr)]
  <2>. HIDE DEF rr
  <2>. QED  BY <1>1, Flatten DEF Y
<1>7. \A j \in 1..n : tt[j] \in Y
  OBVIOUS
<1>8. \A a, b, c \in Y : a \o (b \o c) = (a \o b) \o c
  BY ConcatAssociative, SMTT(30)
<1>. HIDE DEF rr, m, n
<1>5. h[m] = f[m]
  <2>. DEFINE P == {i \in 0..m : h[i] = f[i]}
  <2>1. 0 \in P /\ P \in SUBSET Nat
    BY <1>1, <1>2, <1>4
  <2>2. ASSUME NEW i \in 1..m, i - 1 \in P PROVE i \in P
    <3>1. i \in 0..m /\ i \in 1..Len(rr)
      BY <1>1
    <3>. QED  BY <1>1, <1>2, <1>4, <2>2, <3>1
  <2>3. m \in P
    <3>1. m \in 0..m
      BY <1>1
    <3>. HIDE DEF P
    <3>. QED  BY <1>1, <2>1, <2>2, <3>1, Climb
  <2>. QED  BY <2>3
<1>6. h[m + n] = f[m] \o g[n]
  <2>. DEFINE P == {j \in 0..n : h[m + j] = f[m] \o g[j]}
  <2>1. f[m] \in Y /\ 0 \in 0..n /\ m + 0 = m /\ n \in 0..n
    BY <1>1, <1>2
  <2>2. 0 \in P /\ P \in SUBSET Nat
    <3>1. f[m] \o <<>> = f[m]
      BY <2>1, ConcatEmptySeq
    <3>. QED  BY <1>3, <1>5, <2>1, <3>1
  <2>3. ASSUME NEW j \in 1..n, j - 1 \in P PROVE j \in P
    <3>1. /\ j \in 0..n /\ j - 1 \in 0..n /\ m + j \in 1..Len(rr) /\ (m + j) - 1 = m + (j - 1)
      BY <1>1
    <3>2. h[m + j] = h[m + (j - 1)] \o tt[j]
      BY <1>1, <1>4, <3>1
    <3>3. h[m + (j - 1)] = f[m] \o g[j-1]
      BY <2>3
    <3>4. g[j-1] \in Y /\ tt[j] \in Y /\ g[j] = g[j-1] \o tt[j]
      BY <1>3, <1>7, <3>1
    <3>5. f[m] \o (g[j-1] \o tt[j]) = (f[m] \o g[j-1]) \o tt[j]
      <4>. HIDE DEF Y
      <4>. QED  BY <1>8, <2>1, <3>4
    <3>. QED  BY <3>1, <3>2, <3>3, <3>4, <3>5
  <2>4. n \in P
    <3>. HIDE DEF P
    <3>. QED  BY <1>1, <2>1, <2>2, <2>3, Climb
  <2>. QED  BY <2>4
<1>. QED  BY <1>1, <1>2, <1>3, <1>4, <1>6 DEF rr

LEMMA FlattenSmall ==
  ASSUME NEW X
  PROVE  /\ FlattenSeq(<<>>) = <<>>
         /\ \A s \in Seq(X) : FlattenSeq(<<s>>) = s
         /\ \A ss \in Seq(Seq(X)) : FlattenSeq(ss) \in Seq(X)
<1>1. FlattenSeq(<<>>) = <<>>
  <2>1. PICK f \in [0..Len(<<>>) -> Seq(X)] : f[0] = <<>> /\ FlattenSeq(<<>>) = f[Len(<<>>)]
    <3>1. <<>> \in Seq(Seq(X))
      OBVIOUS
    <3>. QED  BY <3>1, Flatten
  <2>. QED  BY <2>1
<1>2. ASSUME NEW s \in Seq(X) PROVE FlattenSeq(<<s>>) = s
  <2>. DEFINE ss == <<s>>
  <2>1. ss \in Seq(Seq(X)) /\ Len(ss) = 1 /\ ss[1] = s
    OBVIOUS
  <2>. HIDE DEF ss
  <2>2. PICK f \in [0..Len(ss) -> Seq(X)] :
          f[0] = <<>> /\ (\A i \in 1..Len(ss) : f[i] = f[i-1] \o ss[i]) /\ FlattenSeq(ss) = f[Len(ss)]
    BY <2>1, Flatten
  <2>3. 1 \in 1..1 /\ 1 - 1 = 0
    OBVIOUS
  <2>4. f[1] = <<>> \o s
    BY <2>1, <2>2, <2>3
  <2>5. FlattenSeq(ss) = s
    BY <2>1, <2>2, <2>4, ConcatEmptySeq
  <2>. QED  BY <2>5 DEF ss
<1>3. ASSUME NEW ss \in Seq(Seq(X)) PROVE FlattenSeq(ss) \in Seq(X)
  <2>1. PICK f \in [0..Len(ss) -> Seq(X)] : FlattenSeq(ss) = f[Len(ss)]
    BY Flatten
  <2>2. Len(ss) \in 0..Len(ss)
    OBVIOUS
  <2>. QED  BY <2>1, <2>2
<1>. QED  BY <1>1, <1>2, <1>3

\* The commands that a part of a call queues.
CmdsOf(step) == IF step.do = "queue" THEN step.cmds ELSE <<>>
Cmds(p) == FlattenSeq([i \in DOMAIN p |-> CmdsOf(p[i])])

LEMMA CmdsOfType ==
  ASSUME NEW step \in Steps
  PROVE  CmdsOf(step) \in Seq(Cmd)
<1>1. step.do = "queue" => step.cmds \in Seq(Cmd)
  BY DEF Steps
<1>. QED  BY <1>1 DEF CmdsOf

LEMMA CmdsType ==
  ASSUME NEW p \in Seq(Steps)
  PROVE  /\ [i \in DOMAIN p |-> CmdsOf(p[i])] \in Seq(Seq(Cmd))
         /\ Cmds(p) \in Seq(Cmd)
<1>1. \A i \in 1..Len(p) : CmdsOf(p[i]) \in Seq(Cmd)
  BY CmdsOfType
<1>2. [i \in DOMAIN p |-> CmdsOf(p[i])] \in Seq(Seq(Cmd))
  BY <1>1
<1>. QED  BY <1>2, FlattenSmall DEF Cmds

LEMMA CmdsJoin ==
  ASSUME NEW p \in Seq(Steps), NEW q \in Seq(Steps)
  PROVE  Cmds(p \o q) = Cmds(p) \o Cmds(q)
<1>. DEFINE C(r) == [i \in DOMAIN r |-> CmdsOf(r[i])]
            r == p \o q
            m == Len(p)
            n == Len(q)
            Z == Seq(Cmd)
<1>1. /\ r \in Seq(Steps) /\ Len(r) = m + n /\ m \in Nat /\ n \in Nat
      /\ \A i \in 1..m : r[i] = p[i]
      /\ \A j \in 1..n : r[m + j] = q[j]
  BY TwoParts
<1>. HIDE DEF r
<1>2. C(p) \in Seq(Z) /\ C(q) \in Seq(Z) /\ C(r) \in Seq(Z)
  BY <1>1, CmdsType
<1>3. /\ Len(C(p)) = m /\ \A i \in 1..m : C(p)[i] = CmdsOf(p[i])
      /\ Len(C(q)) = n /\ \A i \in 1..n : C(q)[i] = CmdsOf(q[i])
      /\ Len(C(r)) = m + n /\ \A i \in 1..(m + n) : C(r)[i] = CmdsOf(r[i])
  BY <1>1
<1>. DEFINE a == C(p)
            b == C(q)
            c == C(r)
            d == a \o b
<1>. HIDE DEF a, b, c, Z, m, n
<1>4. /\ d \in Seq(Z) /\ Len(d) = m + n
      /\ \A i \in 1..m : d[i] = a[i]
      /\ \A j \in 1..n : d[m + j] = b[j]
  <2>1. a \in Seq(Z) /\ b \in Seq(Z) /\ Len(a) = m /\ Len(b) = n
    BY <1>2, <1>3 DEF a, b
  <2>0. a \in Seq(Z) /\ b \in Seq(Z)
    BY <2>1
  <2>2. d \in Seq(Z) /\ Len(d) = Len(a) + Len(b)
    BY ONLY <2>0, TwoParts
  <2>3. \A i \in 1..Len(a) : d[i] = a[i]
    BY ONLY <2>0, TwoParts
  <2>4. \A j \in 1..Len(b) : d[Len(a) + j] = b[j]
    BY ONLY <2>0, TwoParts
  <2>. HIDE DEF d
  <2>. QED  BY <2>1, <2>2, <2>3, <2>4
<1>5. c = d
  <2>1. c \in Seq(Z) /\ Len(c) = m + n
    BY <1>2, <1>3 DEF c
  <2>2. ASSUME NEW i \in 1..(m + n) PROVE c[i] = d[i]
    <3>0. c[i] = CmdsOf(r[i])
      BY <1>3 DEF c
    <3>1. CASE i \in 1..m
      <4>1. d[i] = CmdsOf(p[i]) /\ r[i] = p[i]
        BY <1>1, <1>3, <1>4, <3>1 DEF a
      <4>. QED  BY <3>0, <4>1
    <3>2. CASE i \notin 1..m
      <4>1. PICK j \in 1..n : i = m + j
        <5>1. i - m \in 1..n /\ i = m + (i - m)
          BY <1>1, <3>2
        <5>. QED  BY <5>1
      <4>2. d[i] = CmdsOf(q[j]) /\ r[i] = q[j]
        BY <1>1, <1>3, <1>4, <4>1 DEF b
      <4>. QED  BY <3>0, <4>2
    <3>. QED  BY <3>1, <3>2
  <2>. HIDE DEF d
  <2>. QED  BY <1>4, <2>1, <2>2, SeqEqual
<1>6. FlattenSeq(d) = FlattenSeq(a) \o FlattenSeq(b)
  <2>1. a \in Seq(Seq(Cmd)) /\ b \in Seq(Seq(Cmd))
    BY <1>2 DEF a, b, Z
  <2>. QED  BY ONLY <2>1, FlattenJoins
<1>. QED  BY <1>5, <1>6 DEF Cmds, a, b, c, r

LEMMA CmdsSmall ==
  /\ Cmds(<<>>) = <<>>
  /\ \A step \in Steps : Cmds(<<step>>) = CmdsOf(step)
<1>1. Cmds(<<>>) = <<>>
  <2>1. [i \in DOMAIN <<>> |-> CmdsOf(<<>>[i])] = <<>>
    OBVIOUS
  <2>. QED  BY <2>1, FlattenSmall DEF Cmds
<1>2. ASSUME NEW step \in Steps PROVE Cmds(<<step>>) = CmdsOf(step)
  <2>1. CmdsOf(step) \in Seq(Cmd)
    BY CmdsOfType
  <2>. DEFINE c == CmdsOf(step)
  <2>2. [i \in DOMAIN <<step>> |-> CmdsOf(<<step>>[i])] = <<c>>
    OBVIOUS
  <2>. HIDE DEF c
  <2>3. FlattenSeq(<<c>>) = c
    BY <2>1, FlattenSmall DEF c
  <2>. QED  BY <2>2, <2>3 DEF Cmds, c
<1>. QED  BY <1>1, <1>2

\* The first step, and the rest.
LEMMA CmdsHead ==
  ASSUME NEW p \in Seq(Steps), p # <<>>
  PROVE  /\ Cmds(p) = CmdsOf(Head(p)) \o Cmds(SubSeq(p, 2, Len(p)))
         /\ Head(p) \in Steps /\ SubSeq(p, 2, Len(p)) \in Seq(Steps)
<1>. DEFINE h == <<Head(p)>>
            q == SubSeq(p, 2, Len(p))
<1>1. Head(p) \in Steps /\ h \in Seq(Steps) /\ q \in Seq(Steps)
  OBVIOUS
<1>2. p = h \o q
  OBVIOUS
<1>3. Cmds(h) = CmdsOf(Head(p))
  BY <1>1, CmdsSmall
<1>. HIDE DEF h, q
<1>4. Cmds(h \o q) = Cmds(h) \o Cmds(q)
  BY <1>1, CmdsJoin
<1>. QED  BY <1>1, <1>2, <1>3, <1>4 DEF q

\* The commands of a call that is made of parts are those of the parts.
LEMMA CmdsFlatten ==
  ASSUME NEW ps \in Seq(Seq(Steps))
  PROVE  /\ Cmds(FlattenSeq(ps)) = FlattenSeq([i \in DOMAIN ps |-> Cmds(ps[i])])
         /\ [i \in DOMAIN ps |-> Cmds(ps[i])] \in Seq(Seq(Cmd))
<1>. DEFINE cs == [i \in DOMAIN ps |-> Cmds(ps[i])]
            n  == Len(ps)
<1>1. /\ n \in Nat /\ \A i \in 1..n : ps[i] \in Seq(Steps)
      /\ cs \in Seq(Seq(Cmd)) /\ Len(cs) = n /\ \A i \in 1..n : cs[i] = Cmds(ps[i])
  <2>1. n \in Nat /\ \A i \in 1..n : ps[i] \in Seq(Steps)
    OBVIOUS
  <2>2. \A i \in 1..n : Cmds(ps[i]) \in Seq(Cmd)
    BY <2>1, CmdsType
  <2>. DEFINE W    == Seq(Cmd)
              c(i) == Cmds(ps[i])
  <2>3. \A i \in 1..n : c(i) \in W
    BY <2>2
  <2>4. cs = [i \in 1..n |-> c(i)]
    OBVIOUS
  <2>. HIDE DEF W, c, n, cs
  <2>5. cs \in Seq(W) /\ Len(cs) = n /\ \A i \in 1..n : cs[i] = c(i)
    BY <2>1, <2>3, <2>4
  <2>. QED  BY <2>1, <2>5 DEF W, c
<1>2. PICK f \in [0..n -> Seq(Steps)] :
        f[0] = <<>> /\ (\A i \in 1..n : f[i] = f[i-1] \o ps[i]) /\ FlattenSeq(ps) = f[n]
  BY Flatten
<1>. HIDE DEF cs
<1>3. PICK g \in [0..n -> Seq(Cmd)] :
        g[0] = <<>> /\ (\A i \in 1..n : g[i] = g[i-1] \o cs[i]) /\ FlattenSeq(cs) = g[n]
  <2>1. cs \in Seq(Seq(Cmd)) /\ Len(cs) = n
    BY <1>1
  <2>2. PICK g \in [0..Len(cs) -> Seq(Cmd)] :
          /\ g[0] = <<>> /\ \A i \in 1..Len(cs) : g[i] = g[i-1] \o cs[i]
          /\ FlattenSeq(cs) = g[Len(cs)]
    BY <2>1, Flatten
  <2>. QED  BY <2>1, <2>2
<1>. HIDE DEF n
<1>. DEFINE P == {i \in 0..n : Cmds(f[i]) = g[i]}
<1>4. 0 \in P /\ P \in SUBSET Nat
  BY <1>1, <1>2, <1>3, CmdsSmall
<1>5. ASSUME NEW i \in 1..n, i - 1 \in P PROVE i \in P
  <2>1. i \in 0..n /\ i - 1 \in 0..n
    BY <1>1
  <2>2. f[i-1] \in Seq(Steps) /\ ps[i] \in Seq(Steps)
    BY <1>1, <1>2, <2>1
  <2>3. Cmds(f[i-1] \o ps[i]) = Cmds(f[i-1]) \o Cmds(ps[i])
    BY <2>2, CmdsJoin
  <2>. QED  BY <1>1, <1>2, <1>3, <1>5, <2>1, <2>3
<1>6. n \in P
  <2>1. n \in 0..n
    BY <1>1
  <2>. HIDE DEF P
  <2>. QED  BY <1>1, <1>4, <1>5, <2>1, Climb
<1>. QED  BY <1>1, <1>2, <1>3, <1>6 DEF cs

-----------------------------------------------------------------------------
(* What the bus makes of the commands of a message.                        *)

LEMMA RunTypes ==
  ASSUME NEW w \in Wire, NEW c \in Seq(Cmd)
  PROVE  RunFrom(w, c) \in Wire
<1>1. PICK f \in [0..Len(c) -> Wire] : RunFrom(w, c) = f[Len(c)]
  BY RunSteps
<1>2. Len(c) \in 0..Len(c)
  OBVIOUS
<1>. QED  BY <1>1, <1>2

\* Two queues, one after the other.
LEMMA RunJoins ==
  ASSUME NEW w \in Wire, NEW a \in Seq(Cmd), NEW b \in Seq(Cmd)
  PROVE  RunFrom(w, a \o b) = RunFrom(RunFrom(w, a), b)
<1>. DEFINE c == a \o b
            m == Len(a)
            n == Len(b)
            v == RunFrom(w, a)
<1>1. /\ c \in Seq(Cmd) /\ Len(c) = m + n /\ m \in Nat /\ n \in Nat
      /\ \A i \in 1..m : c[i] = a[i]
      /\ \A j \in 1..n : c[m + j] = b[j]
  BY TwoParts
<1>2. PICK f \in [0..m -> Wire] :
        f[0] = w /\ (\A i \in 1..m : f[i] = Drive(f[i-1], a[i])) /\ v = f[m]
  BY RunSteps
<1>3. v \in Wire
  BY RunTypes
<1>. HIDE DEF v, c
<1>4. PICK g \in [0..n -> Wire] :
        g[0] = v /\ (\A i \in 1..n : g[i] = Drive(g[i-1], b[i])) /\ RunFrom(v, b) = g[n]
  BY <1>3, RunSteps
<1>5. PICK h \in [0..Len(c) -> Wire] :
        h[0] = w /\ (\A i \in 1..Len(c) : h[i] = Drive(h[i-1], c[i])) /\ RunFrom(w, c) = h[Len(c)]
  BY <1>1, RunSteps
<1>. HIDE DEF m, n
<1>6. h[m] = f[m]
  <2>. DEFINE P == {i \in 0..m : h[i] = f[i]}
  <2>1. 0 \in P /\ P \in SUBSET Nat
    BY <1>1, <1>2, <1>5
  <2>2. ASSUME NEW i \in 1..m, i - 1 \in P PROVE i \in P
    <3>1. i \in 0..m /\ i \in 1..Len(c)
      BY <1>1
    <3>. QED  BY <1>1, <1>2, <1>5, <2>2, <3>1
  <2>3. m \in P
    <3>1. m \in 0..m
      BY <1>1
    <3>. HIDE DEF P
    <3>. QED  BY <1>1, <2>1, <2>2, <3>1, Climb
  <2>. QED  BY <2>3
<1>7. h[m + n] = g[n]
  <2>. DEFINE P == {j \in 0..n : h[m + j] = g[j]}
  <2>1. 0 \in 0..n /\ m + 0 = m /\ n \in 0..n
    BY <1>1
  <2>2. 0 \in P /\ P \in SUBSET Nat
    BY <1>2, <1>4, <1>6, <2>1
  <2>3. ASSUME NEW j \in 1..n, j - 1 \in P PROVE j \in P
    <3>1. /\ j \in 0..n /\ j - 1 \in 0..n /\ m + j \in 1..Len(c) /\ (m + j) - 1 = m + (j - 1)
      BY <1>1
    <3>2. h[m + j] = Drive(h[m + (j - 1)], b[j])
      BY <1>1, <1>5, <3>1
    <3>. QED  BY <1>4, <2>3, <3>1, <3>2
  <2>4. n \in P
    <3>. HIDE DEF P
    <3>. QED  BY <1>1, <2>1, <2>2, <2>3, Climb
  <2>. QED  BY <2>4
<1>. QED  BY <1>1, <1>4, <1>5, <1>7 DEF c, v

LEMMA RunSmall ==
  ASSUME NEW w \in Wire
  PROVE  /\ RunFrom(w, <<>>) = w
         /\ \A a \in Cmd : RunFrom(w, <<a>>) = Drive(w, a)
         /\ \A a, b \in Cmd : RunFrom(w, <<a, b>>) = Drive(Drive(w, a), b)
<1>1. ASSUME NEW c \in Seq(Cmd)
      PROVE  /\ Len(c) = 0 => RunFrom(w, c) = w
             /\ Len(c) = 1 => RunFrom(w, c) = Drive(w, c[1])
             /\ Len(c) = 2 => RunFrom(w, c) = Drive(Drive(w, c[1]), c[2])
  <2>1. PICK f \in [0..Len(c) -> Wire] :
          f[0] = w /\ (\A i \in 1..Len(c) : f[i] = Drive(f[i-1], c[i])) /\ RunFrom(w, c) = f[Len(c)]
    BY RunSteps
  <2>2. Len(c) > 0 => f[1] = Drive(w, c[1])
    <3>1. Len(c) > 0 => 1 \in 1..Len(c)
      OBVIOUS
    <3>2. 1 - 1 = 0
      OBVIOUS
    <3>. QED  BY <2>1, <3>1, <3>2
  <2>3. Len(c) > 1 => f[2] = Drive(f[1], c[2])
    <3>1. Len(c) > 1 => 2 \in 1..Len(c)
      OBVIOUS
    <3>2. 2 - 1 = 1
      OBVIOUS
    <3>. QED  BY <2>1, <3>1, <3>2
  <2>. QED  BY <2>1, <2>2, <2>3
<1>2. RunFrom(w, <<>>) = w
  <2>1. <<>> \in Seq(Cmd) /\ Len(<<>>) = 0
    BY SmallSeqs
  <2>. QED  BY <1>1, <2>1
<1>3. ASSUME NEW a \in Cmd PROVE RunFrom(w, <<a>>) = Drive(w, a)
  <2>. DEFINE c == <<a>>
  <2>1. c \in Seq(Cmd) /\ Len(c) = 1 /\ c[1] = a
    OBVIOUS
  <2>. HIDE DEF c
  <2>2. RunFrom(w, c) = Drive(w, a)
    BY <1>1, <2>1
  <2>. QED  BY <2>2 DEF c
<1>4. ASSUME NEW a \in Cmd, NEW b \in Cmd PROVE RunFrom(w, <<a, b>>) = Drive(Drive(w, a), b)
  <2>. DEFINE c == <<a, b>>
  <2>1. c \in Seq(Cmd) /\ Len(c) = 2 /\ c[1] = a /\ c[2] = b
    BY SmallSeqs
  <2>. HIDE DEF c
  <2>2. RunFrom(w, c) = Drive(Drive(w, a), b)
    BY <1>1, <2>1
  <2>. QED  BY <2>2 DEF c
<1>. QED  BY <1>2, <1>3, <1>4

\* A bus on which a message may start, and one that has carried it.
Ready(w) == w \in Wire /\ w.legal /\ w.phase # "held"
Carried(v, w, who, m) ==
  /\ v \in Wire /\ v.legal /\ v.phase \in {"writing", "read"}
  /\ v.moved = w.moved \o Bytes(who, 0, m.count)

Asked(m) == m \in Message /\ (m.read => m.count > 0)

LEMMA BytesJoin ==
  ASSUME NEW who \in Tasks \X Nat, NEW n \in Nat, n > 0
  PROVE  Bytes(who, 0, n - 1) \o Bytes(who, n - 1, 1) = Bytes(who, 0, n)
<1>. DEFINE a == Bytes(who, 0, n - 1)
            b == Bytes(who, n - 1, 1)
            c == Bytes(who, 0, n)
            B(k) == [who |-> who, at |-> k]
<1>1. n - 1 \in Nat /\ 0 \in Int /\ 1 \in Nat /\ n - 1 \in Int
  OBVIOUS
<1>2. a \in Seq(Byte) /\ Len(a) = n - 1
  BY ONLY <1>1, BytesAre, who \in Tasks \X Nat
<1>3. b \in Seq(Byte) /\ Len(b) = 1
  BY ONLY <1>1, BytesAre, who \in Tasks \X Nat
<1>4. c \in Seq(Byte) /\ Len(c) = n
  BY ONLY <1>1, BytesAre, who \in Tasks \X Nat, n \in Nat
<1>5. /\ \A i \in 1..(n-1) : a[i] = B(i - 1)
      /\ b[1] = B(n - 1)
      /\ \A i \in 1..n : c[i] = B(i - 1)
  <2>1. /\ \A i \in 1..(n-1) : 0 + i - 1 = i - 1
        /\ (n - 1) + 1 - 1 = n - 1 /\ 1 \in 1..1
        /\ \A i \in 1..n : 0 + i - 1 = i - 1
    OBVIOUS
  <2>. QED  BY <2>1 DEF Bytes
<1>. HIDE DEF a, b, c, B
<1>. DEFINE d == a \o b
<1>6. d \in Seq(Byte) /\ Len(d) = n /\ (\A i \in 1..(n-1) : d[i] = a[i]) /\ d[n] = b[1]
  <2>0. a \in Seq(Byte) /\ b \in Seq(Byte)
    BY <1>2, <1>3
  <2>1. d \in Seq(Byte) /\ Len(d) = Len(a) + Len(b)
    BY ONLY <2>0, TwoParts
  <2>2. \A i \in 1..Len(a) : d[i] = a[i]
    BY ONLY <2>0, TwoParts
  <2>3. \A j \in 1..Len(b) : d[Len(a) + j] = b[j]
    BY ONLY <2>0, TwoParts
  <2>4. 1 \in 1..1 /\ (n - 1) + 1 = n
    OBVIOUS
  <2>. HIDE DEF d
  <2>. QED  BY <1>2, <1>3, <2>1, <2>2, <2>3, <2>4
<1>. HIDE DEF d
<1>7. ASSUME NEW i \in 1..n PROVE d[i] = c[i]
  <2>1. i = n \/ i \in 1..(n-1)
    OBVIOUS
  <2>. QED  BY <1>5, <1>6, <2>1
<1>8. d = c
  BY <1>4, <1>6, <1>7, SeqEqual
<1>. QED  BY <1>8 DEF a, b, c, d

LEMMA MessageIs ==
  ASSUME NEW m, Asked(m)
  PROVE  m.read \in BOOLEAN /\ m.count \in Nat /\ m.repstart \in BOOLEAN /\ (m.read => m.count > 0)
  BY DEF Asked, Message

LEMMA CommandsAre ==
  ASSUME NEW who \in Tasks \X Nat
  PROVE  /\ Start \in Cmd /\ Stop \in Cmd
         /\ \A read \in BOOLEAN : Address(who, read) \in Cmd
         /\ \A n \in Nat : WriteBytes(who, n) \in Cmd
         /\ \A at \in Int, n \in Nat, ack \in {ACK, NACK} : ReadBytes(who, at, n, ack) \in Cmd
  BY DEF Cmd, Command, Address, WriteBytes, ReadBytes

\* A start condition and an address.
LEMMA BeginRuns ==
  ASSUME NEW w, Ready(w), NEW who \in Tasks \X Nat, NEW read \in BOOLEAN
  PROVE  LET v == Drive(Drive(w, Start), Address(who, read))
         IN  /\ v \in Wire /\ v.legal /\ v.moved = w.moved
             /\ read => v.phase = "held"
             /\ ~read => v.phase = "writing"
<1>. DEFINE u == Drive(w, Start)
<1>1. u \in Wire /\ u.legal /\ u.phase = "open" /\ u.moved = w.moved
  BY DriveStart DEF Ready
<1>. HIDE DEF u
<1>. DEFINE v == Drive(u, [op |-> "address", who |-> who, read |-> read])
<1>2. /\ v \in Wire
      /\ v.phase = (IF read THEN "held" ELSE "writing") /\ v.moved = u.moved
      /\ v.legal = (u.legal /\ u.phase = "open")
  BY <1>1, DriveAddress
<1>3. v = Drive(u, Address(who, read))
  BY DEF Address
<1>. HIDE DEF v
<1>. QED  BY <1>1, <1>2, <1>3 DEF u

\* What moves the bytes of a message, after its address.
LEMMA WriteRuns ==
  ASSUME NEW w \in Wire, w.legal, w.phase = "writing", NEW who \in Tasks \X Nat, NEW m,
         Asked(m), ~m.read
  PROVE  Carried(Drive(w, WriteBytes(who, m.count)), w, who, m)
<1>1. m.count \in Nat
  BY MessageIs
<1>2. LET v == Drive(w, [op |-> "write", who |-> who, n |-> m.count])
      IN  /\ v \in Wire /\ v.phase = w.phase /\ v.moved = w.moved \o Bytes(who, 0, m.count)
          /\ v.legal = (w.legal /\ w.phase = "writing")
  BY <1>1, DriveWrite
<1>. QED  BY <1>2 DEF Carried, WriteBytes

LEMMA ReadRuns ==
  ASSUME NEW w \in Wire, w.legal, w.phase = "held", NEW who \in Tasks \X Nat,
         NEW at \in Int, NEW n \in Nat, n > 0, NEW ack
  PROVE  LET v == Drive(w, ReadBytes(who, at, n, ack))
         IN  /\ v \in Wire /\ v.legal /\ v.moved = w.moved \o Bytes(who, at, n)
             /\ ack = NACK => v.phase = "read"
             /\ ack # NACK => v.phase = "held"
<1>. DEFINE v == Drive(w, [op |-> "read", who |-> who, at |-> at, n |-> n, ack |-> ack])
            b == Bytes(who, at, n)
<1>0. w \in Wire /\ who \in Tasks \X Nat /\ at \in Int /\ n \in Nat /\ n > 0
  OBVIOUS
<1>3. v \in Wire
  BY ONLY <1>0, DriveRead, SMTT(30)
<1>4. v.phase = (IF ack = NACK THEN "read" ELSE "held")
  BY ONLY <1>0, DriveRead, SMTT(30)
<1>5. v.moved = w.moved \o b
  BY ONLY <1>0, DriveRead, SMTT(30)
<1>6. v.legal = (w.legal /\ w.phase = "held")
  BY ONLY <1>0, DriveRead, SMTT(30)
<1>2. v = Drive(w, ReadBytes(who, at, n, ack))
  BY DEF ReadBytes
<1>. HIDE DEF v, b
<1>. QED  BY <1>2, <1>3, <1>4, <1>5, <1>6 DEF b

LEMMA ReadKinds ==
  ASSUME NEW w \in Wire, w.legal, w.phase = "held", NEW who \in Tasks \X Nat,
         NEW at \in Int, NEW n \in Nat, n > 0
  PROVE  /\ LET v == Drive(w, ReadBytes(who, at, n, NACK))
            IN  v \in Wire /\ v.legal /\ v.moved = w.moved \o Bytes(who, at, n) /\ v.phase = "read"
         /\ LET v == Drive(w, ReadBytes(who, at, n, ACK))
            IN  v \in Wire /\ v.legal /\ v.moved = w.moved \o Bytes(who, at, n) /\ v.phase = "held"
<1>. DEFINE a == NACK
            b == ACK
<1>1. a = NACK /\ b # NACK
  BY DEF ACK, NACK
<1>. HIDE DEF a, b
<1>2. LET v == Drive(w, ReadBytes(who, at, n, a))
      IN  v \in Wire /\ v.legal /\ v.moved = w.moved \o Bytes(who, at, n) /\ v.phase = "read"
  BY <1>1, ReadRuns
<1>3. LET v == Drive(w, ReadBytes(who, at, n, b))
      IN  v \in Wire /\ v.legal /\ v.moved = w.moved \o Bytes(who, at, n) /\ v.phase = "held"
  BY <1>1, ReadRuns
<1>. QED  BY <1>2, <1>3 DEF a, b

\* A command that has a name of its own.
LEMMA NamedRead ==
  ASSUME NEW w, w \in Wire, w.legal, w.phase = "held", NEW who, who \in Tasks \X Nat,
         NEW at, at \in Int, NEW n, n \in Nat /\ n > 0, NEW c, c = ReadBytes(who, at, n, ACK)
  PROVE  /\ Drive(w, c) \in Wire /\ Drive(w, c).legal /\ Drive(w, c).phase = "held"
         /\ Drive(w, c).moved = w.moved \o Bytes(who, at, n)
<1>1. LET v == Drive(w, ReadBytes(who, at, n, ACK))
      IN  v \in Wire /\ v.legal /\ v.moved = w.moved \o Bytes(who, at, n) /\ v.phase = "held"
  BY ReadKinds
<1>. QED  BY <1>1

LEMMA AddressKinds ==
  ASSUME NEW w, Ready(w), NEW who \in Tasks \X Nat
  PROVE  LET v == Drive(Drive(w, Start), Address(who, TRUE))
         IN  v \in Wire /\ v.legal /\ v.moved = w.moved /\ v.phase = "held"
<1>. DEFINE r == TRUE
<1>1. r \in BOOLEAN /\ r
  OBVIOUS
<1>. HIDE DEF r
<1>2. LET v == Drive(Drive(w, Start), Address(who, r))
      IN  v \in Wire /\ v.legal /\ v.moved = w.moved /\ v.phase = "held"
  BY <1>1, BeginRuns
<1>. QED  BY <1>2 DEF r

\* start() and read() or write() of the hardware algorithm and the C HAL.
LEMMA MovesRun ==
  ASSUME NEW w, Ready(w), NEW who \in Tasks \X Nat, NEW m, Asked(m)
  PROVE  LET c == Begin(who, m.read) \o Moves(who, m)
         IN  c \in Seq(Cmd) /\ Carried(RunFrom(w, c), w, who, m)
<1>. DEFINE b == Begin(who, m.read)
            q == Moves(who, m)
            u == RunFrom(w, b)
<1>1. m.read \in BOOLEAN /\ m.count \in Nat /\ (m.read => m.count > 0) /\ w \in Wire
  BY MessageIs DEF Ready
<1>2. b \in Seq(Cmd) /\ u = Drive(Drive(w, Start), Address(who, m.read))
  <2>1. Start \in Cmd /\ Address(who, m.read) \in Cmd
    BY <1>1, CommandsAre
  <2>2. b = <<Start, Address(who, m.read)>>
    BY DEF Begin
  <2>. QED  BY <1>1, <2>1, <2>2, RunSmall, SmallSeqs
<1>. HIDE DEF b, u
<1>3. u \in Wire /\ u.legal /\ u.moved = w.moved /\ u.phase = (IF m.read THEN "held" ELSE "writing")
  BY <1>1, <1>2, BeginRuns
<1>4. q \in Seq(Cmd) /\ Carried(RunFrom(u, q), u, who, m)
  <2>1. CASE m.read
    <3>. DEFINE r == ReadBytes(who, 0, m.count, NACK)
    <3>1. q = <<r>>
      BY <2>1 DEF Moves, Read
    <3>2. r \in Cmd /\ 0 \in Int /\ NACK \in {ACK, NACK}
      BY <1>1, CommandsAre
    <3>3. RunFrom(u, <<r>>) = Drive(u, r)
      BY <1>3, <3>2, RunSmall
    <3>4. LET v == Drive(u, ReadBytes(who, 0, m.count, NACK))
          IN  v \in Wire /\ v.legal /\ v.moved = u.moved \o Bytes(who, 0, m.count) /\ v.phase = "read"
      <4>. DEFINE n  == m.count
                  at == 0
      <4>1. n \in Nat /\ n > 0 /\ at \in Int /\ u \in Wire /\ u.legal /\ u.phase = "held"
        BY <1>1, <1>3, <2>1
      <4>. HIDE DEF n, at
      <4>2. LET v == Drive(u, ReadBytes(who, at, n, NACK))
            IN  v \in Wire /\ v.legal /\ v.moved = u.moved \o Bytes(who, at, n) /\ v.phase = "read"
        BY <4>1, ReadKinds
      <4>. QED  BY <4>2 DEF n, at
    <3>5. Carried(Drive(u, r), u, who, m)
      BY <3>4 DEF Carried
    <3>. HIDE DEF r, q
    <3>. QED  BY <3>1, <3>2, <3>3, <3>5
  <2>2. CASE ~m.read
    <3>. DEFINE r == WriteBytes(who, m.count)
    <3>1. q = <<r>>
      BY <2>2 DEF Moves, Write
    <3>2. r \in Cmd
      BY <1>1, CommandsAre
    <3>3. RunFrom(u, <<r>>) = Drive(u, r)
      BY <1>3, <3>2, RunSmall
    <3>4. Carried(Drive(u, r), u, who, m)
      BY <1>3, <2>2, WriteRuns
    <3>. HIDE DEF r, q
    <3>. QED  BY <3>1, <3>2, <3>3, <3>4
  <2>. QED  BY <2>1, <2>2
<1>. HIDE DEF q
<1>5. b \o q \in Seq(Cmd) /\ RunFrom(w, b \o q) = RunFrom(u, q)
  BY <1>1, <1>2, <1>4, RunJoins, SmallSeqs DEF u
<1>6. Carried(RunFrom(u, q), w, who, m)
  BY <1>3, <1>4 DEF Carried
<1>. QED  BY <1>5, <1>6 DEF b, q

\* prepareTransfer() of the message algorithm.
LEMMA PreparedRun ==
  ASSUME NEW w, Ready(w), NEW who \in Tasks \X Nat, NEW m, Asked(m)
  PROVE  LET c == <<Start>> \o prepareTransfer(who, m)
         IN  c \in Seq(Cmd) /\ Carried(RunFrom(w, c), w, who, m)
<1>. DEFINE s == <<Start>>
            q == prepareTransfer(who, m)
            u == RunFrom(w, s)
            n == m.count
<1>1. m.read \in BOOLEAN /\ n \in Nat /\ (m.read => n > 0) /\ w \in Wire
  BY MessageIs DEF Ready
<1>2. s \in Seq(Cmd) /\ u = Drive(w, Start)
  BY <1>1, CommandsAre, RunSmall, SmallSeqs
<1>3. u \in Wire
  BY <1>1, <1>2, DriveStart
<1>. HIDE DEF s, u
<1>4. q \in Seq(Cmd) /\ Carried(RunFrom(u, q), w, who, m)
  <2>1. CASE ~m.read
    <3>. DEFINE a == Address(who, FALSE)
                r == WriteBytes(who, n)
                v == Drive(u, a)
    <3>1. q = <<a, r>>
      BY <2>1 DEF prepareTransfer
    <3>2. a \in Cmd /\ r \in Cmd
      BY <1>1, CommandsAre
    <3>3. v \in Wire /\ v.legal /\ v.moved = w.moved /\ v.phase = "writing"
      BY <1>1, <1>2, BeginRuns
    <3>. HIDE DEF v
    <3>4. Carried(Drive(v, r), v, who, m)
      BY <2>1, <3>3, WriteRuns
    <3>5. Carried(Drive(v, r), w, who, m)
      BY <3>3, <3>4 DEF Carried
    <3>6. q \in Seq(Cmd) /\ RunFrom(u, q) = Drive(v, r)
      <4>. HIDE DEF a, r, q
      <4>. QED  BY <1>3, <3>1, <3>2, RunSmall, SmallSeqs DEF v
    <3>. QED  BY <3>5, <3>6
  <2>2. CASE m.read
    <3>. DEFINE a == <<Address(who, TRUE)>>
                l == <<ReadBytes(who, n - 1, 1, NACK)>>
                h == IF n > 1 THEN <<ReadBytes(who, 0, n - 1, ACK)>> ELSE <<>>
                v == RunFrom(u, a)
                x == RunFrom(v, h)
                y == RunFrom(x, l)
    <3>1. q = (a \o h) \o l
      BY <2>2 DEF prepareTransfer
    <3>2. /\ a \in Seq(Cmd) /\ v = Drive(u, Address(who, TRUE))
      BY <1>1, <1>3, CommandsAre, RunSmall, SmallSeqs
    <3>3. v \in Wire /\ v.legal /\ v.moved = w.moved /\ v.phase = "held"
      BY <1>2, <3>2, AddressKinds
    <3>. HIDE DEF a, v
    <3>4. /\ h \in Seq(Cmd) /\ x \in Wire /\ x.legal /\ x.phase = "held"
          /\ x.moved = v.moved \o Bytes(who, 0, n - 1)
      <4>1. CASE n > 1
        <5>. DEFINE k == n - 1
                    r == ReadBytes(who, 0, k, ACK)
        <5>1. k \in Nat /\ k > 0 /\ 0 \in Int /\ ACK \in {ACK, NACK} /\ ACK # NACK
          BY <1>1, <4>1 DEF ACK, NACK
        <5>2. h = <<r>>
          BY <4>1
        <5>. HIDE DEF k, h
        <5>3. r \in Cmd
          BY <5>1, CommandsAre
        <5>4. LET z == Drive(v, r)
              IN  z \in Wire /\ z.legal /\ z.moved = v.moved \o Bytes(who, 0, k) /\ z.phase = "held"
          <6>. DEFINE at == 0
          <6>1. k \in Nat /\ k > 0 /\ at \in Int /\ r = ReadBytes(who, at, k, ACK)
            BY <5>1
          <6>. HIDE DEF k, r, at
          <6>2. /\ Drive(v, r) \in Wire /\ Drive(v, r).legal /\ Drive(v, r).phase = "held"
                /\ Drive(v, r).moved = v.moved \o Bytes(who, at, k)
            BY <3>3, <6>1, NamedRead
          <6>. QED  BY <6>2 DEF at
        <5>5. h \in Seq(Cmd) /\ x = Drive(v, r)
          <6>. HIDE DEF r
          <6>. QED  BY <3>3, <5>2, <5>3, RunSmall, SmallSeqs
        <5>. QED  BY <5>4, <5>5 DEF k
      <4>2. CASE ~(n > 1)
        <5>1. h = <<>> /\ n = 1 /\ n - 1 = 0
          BY <1>1, <2>2, <4>2
        <5>. HIDE DEF h
        <5>2. h \in Seq(Cmd) /\ x = v
          BY <3>3, <5>1, RunSmall, SmallSeqs
        <5>3. Bytes(who, 0, 0) = <<>>
          BY DEF Bytes
        <5>4. v.moved \o <<>> = v.moved
          <6>1. v.moved \in Seq(Byte)
            BY <3>3 DEF Wire
          <6>. QED  BY <6>1, ConcatEmptySeq
        <5>. QED  BY <3>3, <5>1, <5>2, <5>3, <5>4
      <4>. QED  BY <4>1, <4>2
    <3>. HIDE DEF h, x
    <3>5. l \in Seq(Cmd) /\ y \in Wire /\ y.legal /\ y.phase = "read"
          /\ y.moved = x.moved \o Bytes(who, n - 1, 1)
      <4>. DEFINE k == n - 1
                  r == ReadBytes(who, k, 1, NACK)
      <4>1. k \in Int /\ 1 \in Nat /\ 1 > 0 /\ NACK \in {ACK, NACK}
        BY <1>1
      <4>2. l = <<r>>
        OBVIOUS
      <4>. HIDE DEF k, l
      <4>3. r \in Cmd
        BY <4>1, CommandsAre
      <4>4. LET z == Drive(x, r)
            IN  z \in Wire /\ z.legal /\ z.moved = x.moved \o Bytes(who, k, 1) /\ z.phase = "read"
        <5>. DEFINE j == 1
        <5>1. /\ j \in Nat /\ j > 0 /\ k \in Int /\ who \in Tasks \X Nat
              /\ x \in Wire /\ x.legal /\ x.phase = "held"
          BY <3>4, <4>1
        <5>. HIDE DEF r, j
        <5>2. LET z == Drive(x, ReadBytes(who, k, j, NACK))
              IN  z \in Wire /\ z.legal /\ z.moved = x.moved \o Bytes(who, k, j) /\ z.phase = "read"
          BY ONLY <5>1, ReadKinds
        <5>. QED  BY <5>2 DEF r, j
      <4>5. l \in Seq(Cmd) /\ y = Drive(x, r)
        <5>. HIDE DEF r
        <5>. QED  BY <3>4, <4>2, <4>3, RunSmall, SmallSeqs
      <4>. QED  BY <4>4, <4>5 DEF k
    <3>. HIDE DEF l, y
    <3>6. q \in Seq(Cmd) /\ RunFrom(u, q) = y
      <4>1. a \o h \in Seq(Cmd) /\ RunFrom(u, a \o h) = x
        BY <1>3, <3>2, <3>4, RunJoins, SmallSeqs DEF v, x
      <4>. DEFINE g == a \o h
      <4>. HIDE DEF g
      <4>2. g \in Seq(Cmd) /\ RunFrom(u, g) = x /\ q = g \o l
        BY <3>1, <4>1 DEF g
      <4>. HIDE DEF q
      <4>. QED  BY <1>3, <3>5, <4>2, RunJoins, SmallSeqs DEF y
    <3>7. y.moved = w.moved \o Bytes(who, 0, n)
      <4>. DEFINE b == Bytes(who, 0, n - 1)
                  c == Bytes(who, n - 1, 1)
                  d == w.moved
      <4>0. n - 1 \in Nat /\ n - 1 \in Int /\ 0 \in Int /\ 1 \in Nat
        BY <1>1, <2>2
      <4>1. b \in Seq(Byte) /\ c \in Seq(Byte) /\ d \in Seq(Byte)
        BY <1>1, <4>0, BytesAre DEF Wire
      <4>2. b \o c = Bytes(who, 0, n)
        BY <1>1, <2>2, BytesJoin
      <4>3. y.moved = (d \o b) \o c
        BY <3>3, <3>4, <3>5
      <4>. HIDE DEF b, c, d
      <4>5. \A i, j, k \in Seq(Byte) : (i \o j) \o k = i \o (j \o k)
        BY ConcatAssociative
      <4>4. (d \o b) \o c = d \o (b \o c)
        BY <4>1, <4>5
      <4>. QED  BY <4>2, <4>3, <4>4 DEF d
    <3>. QED  BY <3>5, <3>6, <3>7 DEF Carried
  <2>. QED  BY <1>1, <2>1, <2>2
<1>. HIDE DEF q
<1>5. s \o q \in Seq(Cmd) /\ RunFrom(w, s \o q) = RunFrom(u, q)
  BY <1>1, <1>2, <1>4, RunJoins, SmallSeqs DEF u
<1>. QED  BY <1>4, <1>5 DEF s, q

\* Steps that queue nothing.
LEMMA NoCmds ==
  ASSUME NEW p \in Seq(Steps), \A i \in 1..Len(p) : p[i].do # "queue"
  PROVE  Cmds(p) = <<>>
<1>. DEFINE ss == [i \in DOMAIN p |-> CmdsOf(p[i])]
            Y  == {<<>>}
<1>1. ss \in Seq(Seq(Cmd))
  BY CmdsType
<1>2. \A i \in 1..Len(ss) : ss[i] = <<>>
  BY DEF CmdsOf
<1>. HIDE DEF ss
<1>3. FlattenSeq(ss) \in Y
  <2>1. Y \in SUBSET Seq(Cmd) /\ <<>> \in Y
    BY SmallSeqs
  <2>2. ASSUME NEW w \in Y, NEW i \in 1..Len(ss) PROVE w \o ss[i] \in Y
    <3>1. w = <<>> /\ ss[i] = <<>>
      BY <1>2
    <3>2. <<>> \o <<>> = <<>>
      OBVIOUS
    <3>. QED  BY <3>1, <3>2
  <2>. HIDE DEF Y
  <2>. QED  BY <1>1, <2>1, <2>2, FlattenClimb
<1>. QED  BY <1>3 DEF Cmds, ss

\* Commands that carry a message, from a bus on which it may start, and stop.
Carries(c, who, m, stop) ==
  /\ c \in Seq(Cmd)
  /\ \A w \in Wire : Ready(w) =>
       /\ Ready(RunFrom(w, c))
       /\ RunFrom(w, c).moved = w.moved \o Bytes(who, 0, m.count)
       /\ stop => RunFrom(w, c).phase = "idle"

LEMMA StopCarries ==
  ASSUME NEW who, NEW m, NEW c \in Seq(Cmd),
         \A w \in Wire : Ready(w) => Carried(RunFrom(w, c), w, who, m)
  PROVE  /\ Carries(c, who, m, FALSE)
         /\ Carries(c \o <<Stop>>, who, m, TRUE)
<1>1. Carries(c, who, m, FALSE)
  BY DEF Carries, Carried, Ready
<1>2. Carries(c \o <<Stop>>, who, m, TRUE)
  <2>1. Stop \in Cmd
    BY DEF Cmd, Command
  <2>2. <<Stop>> \in Seq(Cmd) /\ c \o <<Stop>> \in Seq(Cmd)
    BY <2>1, SmallSeqs
  <2>3. ASSUME NEW w \in Wire, Ready(w)
        PROVE  /\ Ready(RunFrom(w, c \o <<Stop>>))
               /\ RunFrom(w, c \o <<Stop>>).moved = w.moved \o Bytes(who, 0, m.count)
               /\ RunFrom(w, c \o <<Stop>>).phase = "idle"
    <3>. DEFINE u == RunFrom(w, c)
    <3>1. u \in Wire /\ u.legal /\ u.phase \in {"writing", "read"} /\ u.moved = w.moved \o Bytes(who, 0, m.count)
      BY <2>3 DEF Carried
    <3>. HIDE DEF u
    <3>2. RunFrom(u, <<Stop>>) = Drive(u, Stop)
      BY <2>1, <3>1, RunSmall
    <3>3. RunFrom(w, c \o <<Stop>>) = RunFrom(u, <<Stop>>)
      BY <2>2, RunJoins DEF u
    <3>. DEFINE v == Drive(u, Stop)
    <3>4. v \in Wire /\ v.phase = "idle" /\ v.moved = u.moved /\ v.legal
      BY <3>1, DriveStop
    <3>. HIDE DEF v
    <3>5. RunFrom(w, c \o <<Stop>>) = v
      BY <3>2, <3>3 DEF v
    <3>. QED  BY <3>1, <3>4, <3>5 DEF Ready
  <2>. QED  BY <2>2, <2>3 DEF Carries
<1>. QED  BY <1>1, <1>2

\* The commands of a message in a vector, through a message algorithm.
LEMMA BlockCarries ==
  ASSUME NEW t \in Tasks, NEW ms \in Seq(Message), NEW i \in DOMAIN ms, Asked(ms[i])
  PROVE  Carries(Block(t, ms, i), <<t, i>>, ms[i], ~ms[i].repstart)
<1>. DEFINE who == <<t, i>>
            m   == ms[i]
            c   == <<Start>> \o prepareTransfer(who, m)
<1>1. who \in Tasks \X Nat
  OBVIOUS
<1>2. c \in Seq(Cmd) /\ \A w \in Wire : Ready(w) => Carried(RunFrom(w, c), w, who, m)
  <2>1. \A w \in Wire : Ready(w) => c \in Seq(Cmd) /\ Carried(RunFrom(w, c), w, who, m)
    <3>. HIDE DEF who, m
    <3>. QED  BY <1>1, PreparedRun DEF m
  <2>2. c \in Seq(Cmd)
    <3>1. <<Start>> \in Seq(Cmd) /\ prepareTransfer(who, m) \in Seq(Cmd)
      BY BodyCommands
    <3>. HIDE DEF who, m
    <3>. QED  BY <3>1, SmallSeqs
  <2>. QED  BY <2>1, <2>2
<1>3. Carries(c, who, m, FALSE) /\ Carries(c \o <<Stop>>, who, m, TRUE)
  <2>. HIDE DEF c, who, m
  <2>. QED  BY <1>2, StopCarries
<1>4. Block(t, ms, i) = c \o (IF m.repstart THEN <<>> ELSE <<Stop>>)
  BY DEF Block
<1>5. c \o <<>> = c
  <2>. HIDE DEF c
  <2>. QED  BY <1>2, ConcatEmptySeq
<1>6. m.repstart \in BOOLEAN
  BY MessageIs
<1>. HIDE DEF c, who
<1>7. CASE m.repstart
  BY <1>3, <1>4, <1>5, <1>7 DEF who
<1>8. CASE ~m.repstart
  BY <1>3, <1>4, <1>8 DEF who
<1>. QED  BY <1>6, <1>7, <1>8

\* The same through the hardware algorithm and the C HAL.
LEMMA BodyQueues ==
  ASSUME NEW t \in Tasks, NEW ms \in Seq(Message), NEW i \in DOMAIN ms
  PROVE  /\ Body(t, ms, i) \in Seq(Steps)
         /\ Cmds(Body(t, ms, i)) =
              (Begin(<<t, i>>, ms[i].read) \o Moves(<<t, i>>, ms[i])) \o (IF ms[i].repstart THEN <<>> ELSE <<Stop>>)
<1>. DEFINE x == Begin(<<t, i>>, ms[i].read)
            y == Moves(<<t, i>>, ms[i])
            z == <<Stop>>
            b == Queued(x)
            m == Queued(y)
            s == Queued(z)
            P == <<Do("test"), Do("create")>>
            S == IF ms[i].repstart THEN <<>> ELSE <<s>>
<1>1. x \in Seq(Cmd) /\ y \in Seq(Cmd) /\ z \in Seq(Cmd)
  BY BodyCommands DEF Moves
<1>2. Body(t, ms, i) = ((P \o <<b>>) \o <<m>>) \o S
  BY BodySteps
<1>3. Body(t, ms, i) \in Seq(Steps)
  BY BodyChained DEF Messages
<1>. HIDE DEF x, y, z
<1>4. /\ b \in Steps /\ m \in Steps /\ s \in Steps
      /\ CmdsOf(b) = x /\ CmdsOf(m) = y /\ CmdsOf(s) = z
  BY <1>1, StepsAre DEF CmdsOf
<1>5. P \in Seq(Steps) /\ Cmds(P) = <<>>
  <2>1. /\ Do("test") \in Steps /\ Do("create") \in Steps
        /\ Do("test").do = "test" /\ Do("create").do = "create"
    BY StepsAre DEF StepNames
  <2>2. P \in Seq(Steps) /\ Len(P) = 2 /\ P[1].do # "queue" /\ P[2].do # "queue"
    BY <2>1
  <2>. HIDE DEF P
  <2>3. \A j \in 1..Len(P) : P[j].do # "queue"
    BY <2>2
  <2>. QED  BY <2>2, <2>3, NoCmds
<1>. HIDE DEF b, m, s, P
<1>6. \A step \in Steps : <<step>> \in Seq(Steps) /\ Cmds(<<step>>) = CmdsOf(step)
  BY CmdsSmall, SmallSeqs
<1>7. \A p \in Seq(Steps), q \in Seq(Steps) : p \o q \in Seq(Steps) /\ Cmds(p \o q) = Cmds(p) \o Cmds(q)
  BY CmdsJoin, SmallSeqs
<1>8. S \in Seq(Steps) /\ Cmds(S) = (IF ms[i].repstart THEN <<>> ELSE z)
  <2>1. CASE ms[i].repstart
    <3>1. S = <<>>
      BY <2>1
    <3>. HIDE DEF S
    <3>. QED  BY <2>1, <3>1, CmdsSmall, SmallSeqs
  <2>2. CASE ~ms[i].repstart
    <3>1. S = <<s>>
      BY <2>2
    <3>. HIDE DEF S
    <3>. QED  BY <1>4, <1>6, <2>2, <3>1
  <2>. QED  BY <2>1, <2>2
<1>. HIDE DEF S
<1>. DEFINE Q == P \o <<b>>
            R == Q \o <<m>>
<1>9. Q \in Seq(Steps) /\ Cmds(Q) = x
  <2>1. Q \in Seq(Steps) /\ Cmds(Q) = <<>> \o x
    BY <1>4, <1>5, <1>6, <1>7
  <2>. HIDE DEF Q
  <2>. QED  BY <1>1, <2>1, ConcatEmptySeq
<1>. HIDE DEF Q
<1>10. R \in Seq(Steps) /\ Cmds(R) = x \o y
  BY <1>4, <1>6, <1>7, <1>9
<1>11. Cmds(R \o S) = (x \o y) \o Cmds(S)
  <2>. HIDE DEF R
  <2>. QED  BY <1>7, <1>8, <1>10
<1>. QED  BY <1>2, <1>3, <1>8, <1>11 DEF x, y, z, Q

LEMMA BodyCarries ==
  ASSUME NEW t \in Tasks, NEW ms \in Seq(Message), NEW i \in DOMAIN ms, Asked(ms[i])
  PROVE  Carries(Cmds(Body(t, ms, i)), <<t, i>>, ms[i], ~ms[i].repstart)
<1>. DEFINE who == <<t, i>>
            m   == ms[i]
            c   == Begin(who, m.read) \o Moves(who, m)
<1>1. who \in Tasks \X Nat
  OBVIOUS
<1>2. c \in Seq(Cmd) /\ \A w \in Wire : Ready(w) => Carried(RunFrom(w, c), w, who, m)
  <2>1. \A w \in Wire : Ready(w) => c \in Seq(Cmd) /\ Carried(RunFrom(w, c), w, who, m)
    <3>. HIDE DEF who, m
    <3>. QED  BY <1>1, MovesRun DEF m
  <2>2. c \in Seq(Cmd)
    <3>1. Begin(who, m.read) \in Seq(Cmd) /\ Moves(who, m) \in Seq(Cmd)
      BY BodyCommands DEF Moves
    <3>. HIDE DEF who, m
    <3>. QED  BY <3>1, SmallSeqs
  <2>. QED  BY <2>1, <2>2
<1>3. Carries(c, who, m, FALSE) /\ Carries(c \o <<Stop>>, who, m, TRUE)
  <2>. HIDE DEF c, who, m
  <2>. QED  BY <1>2, StopCarries
<1>4. Cmds(Body(t, ms, i)) = c \o (IF m.repstart THEN <<>> ELSE <<Stop>>)
  BY BodyQueues
<1>5. c \o <<>> = c
  <2>. HIDE DEF c
  <2>. QED  BY <1>2, ConcatEmptySeq
<1>6. m.repstart \in BOOLEAN
  BY MessageIs
<1>. HIDE DEF c, who
<1>7. CASE m.repstart
  BY <1>3, <1>4, <1>5, <1>7 DEF who
<1>8. CASE ~m.repstart
  BY <1>3, <1>4, <1>8 DEF who
<1>. QED  BY <1>6, <1>7, <1>8

\* Commands that carry each message carry them all.
LEMMA VectorDelivers ==
  ASSUME NEW t \in Tasks, NEW ms \in Seq(Message), NEW stop \in [DOMAIN ms -> BOOLEAN],
         NEW bs \in Seq(Seq(Cmd)), Len(bs) = Len(ms),
         \A i \in DOMAIN ms : Carries(bs[i], <<t, i>>, ms[i], stop[i]),
         NEW w \in Wire, Ready(w)
  PROVE  LET v == RunFrom(w, FlattenSeq(bs))
         IN  /\ Ready(v) /\ v.moved = w.moved \o Payload(t, ms)
             /\ ms # <<>> /\ stop[Len(ms)] => v.phase = "idle"
<1>. DEFINE n    == Len(ms)
            B(i) == Bytes(<<t, i>>, 0, ms[i].count)
            ys   == [i \in DOMAIN ms |-> B(i)]
            Y    == Seq(Byte)
            X    == Seq(Cmd)
<1>1. n \in Nat /\ DOMAIN ms = 1..n /\ (ms # <<>> => n > 0)
  OBVIOUS
<1>2. ys \in Seq(Y) /\ Len(ys) = n /\ \A i \in 1..n : ys[i] \in Y /\ ys[i] = B(i)
  <2>1. ASSUME NEW i \in 1..n PROVE B(i) \in Y
    <3>1. ms[i].count \in Nat
      <4>1. ms[i] \in Message
        BY <2>1
      <4>. QED  BY <4>1 DEF Message
    <3>2. <<t, i>> \in Tasks \X Nat /\ 0 \in Int
      BY <2>1
    <3>. QED  BY <3>1, <3>2, BytesAre
  <2>2. ys = [i \in 1..n |-> B(i)]
    BY <1>1
  <2>. HIDE DEF B, Y, n, ys
  <2>. QED  BY <1>1, <2>1, <2>2
<1>. HIDE DEF ys
<1>3. PICK f \in [0..n -> X] :
        f[0] = <<>> /\ (\A i \in 1..n : f[i] = f[i-1] \o bs[i]) /\ FlattenSeq(bs) = f[n]
  <2>1. PICK f \in [0..Len(bs) -> X] :
          f[0] = <<>> /\ (\A i \in 1..Len(bs) : f[i] = f[i-1] \o bs[i]) /\ FlattenSeq(bs) = f[Len(bs)]
    BY Flatten
  <2>. QED  BY <2>1
<1>4. PICK g \in [0..n -> Y] :
        g[0] = <<>> /\ (\A i \in 1..n : g[i] = g[i-1] \o ys[i]) /\ FlattenSeq(ys) = g[n]
  <2>0. ys \in Seq(Seq(Byte)) /\ Len(ys) = n
    BY <1>2
  <2>1. PICK g \in [0..Len(ys) -> Y] :
          g[0] = <<>> /\ (\A i \in 1..Len(ys) : g[i] = g[i-1] \o ys[i]) /\ FlattenSeq(ys) = g[Len(ys)]
    BY <2>0, Flatten
  <2>. QED  BY <2>0, <2>1
<1>5. Payload(t, ms) = FlattenSeq(ys)
  BY DEF Payload, ys
<1>. DEFINE v(i) == RunFrom(w, f[i])
            P    == {i \in 0..n : /\ Ready(v(i)) /\ v(i).moved = w.moved \o g[i]
                                  /\ i > 0 /\ stop[i] => v(i).phase = "idle"}
<1>6. \A i \in 1..n : /\ i \in 0..n /\ i - 1 \in 0..n /\ i \in DOMAIN ms
                      /\ f[i-1] \in X /\ g[i-1] \in Y /\ bs[i] \in X
  <2>1. \A i \in 1..n : i \in 0..n /\ i - 1 \in 0..n /\ i \in DOMAIN ms /\ bs[i] \in X
    BY <1>1
  <2>. HIDE DEF X, Y, n
  <2>. QED  BY <1>3, <1>4, <2>1
<1>7. \A i \in 1..n : /\ bs[i] \in X
                      /\ \A u \in Wire : Ready(u) =>
                           /\ Ready(RunFrom(u, bs[i]))
                           /\ RunFrom(u, bs[i]).moved = u.moved \o ys[i]
                           /\ stop[i] => RunFrom(u, bs[i]).phase = "idle"
  BY <1>2, <1>6 DEF Carries
<1>8. w.moved \in Y
  BY DEF Wire
<1>9. \A a, b, c \in Y : a \o (b \o c) = (a \o b) \o c
  BY ConcatAssociative
<1>. HIDE DEF n, B, X, Y
<1>10. 0 \in P /\ P \in SUBSET Nat
  <2>1. v(0) = w /\ w.moved \o <<>> = w.moved
    BY <1>3, <1>8, RunSmall, ConcatEmptySeq DEF Y
  <2>2. 0 \in 0..n /\ ~(0 > 0)
    BY <1>1
  <2>3. Ready(v(0)) /\ v(0).moved = w.moved \o g[0]
    <3>. HIDE DEF v
    <3>. QED  BY <1>4, <2>1
  <2>. HIDE DEF v
  <2>. QED  BY <2>2, <2>3
<1>11. ASSUME NEW i \in 1..n, i - 1 \in P PROVE i \in P
  <2>. DEFINE u == v(i-1)
              x == bs[i]
  <2>1. Ready(u) /\ u.moved = w.moved \o g[i-1]
    BY <1>11
  <2>2. v(i) = RunFrom(u, x)
    <3>1. f[i] = f[i-1] \o bs[i] /\ f[i-1] \in Seq(Cmd) /\ bs[i] \in Seq(Cmd)
      BY <1>3, <1>6 DEF X
    <3>2. RunFrom(w, f[i-1] \o bs[i]) = RunFrom(RunFrom(w, f[i-1]), bs[i])
      BY <3>1, RunJoins
    <3>. QED  BY <3>1, <3>2
  <2>. HIDE DEF u, v
  <2>3. u \in Wire
    BY <2>1 DEF Ready
  <2>4. Ready(v(i)) /\ v(i).moved = u.moved \o ys[i] /\ (stop[i] => v(i).phase = "idle")
    BY <1>7, <2>1, <2>2, <2>3
  <2>5. u.moved \o ys[i] = w.moved \o g[i]
    <3>1. g[i] = g[i-1] \o ys[i] /\ g[i-1] \in Y /\ ys[i] \in Y
      BY <1>2, <1>4, <1>6
    <3>. DEFINE a == w.moved
                b == g[i-1]
                c == ys[i]
    <3>2. a \in Y /\ b \in Y /\ c \in Y /\ g[i] = b \o c /\ u.moved = a \o b
      BY <1>8, <2>1, <3>1
    <3>. HIDE DEF a, b, c
    <3>4. (a \o b) \o c = a \o (b \o c)
      BY <1>9, <3>2
    <3>3. u.moved \o c = a \o g[i]
      BY <3>2, <3>4
    <3>. QED  BY <3>3 DEF a, c
  <2>. QED  BY <1>6, <2>4, <2>5
<1>12. n \in P
  <2>1. n \in 0..n
    BY <1>1
  <2>. HIDE DEF P
  <2>. QED  BY <1>1, <1>10, <1>11, <2>1, Climb
<1>. HIDE DEF v
<1>13. Ready(v(n)) /\ v(n).moved = w.moved \o Payload(t, ms) /\ (ms # <<>> /\ stop[n] => v(n).phase = "idle")
  BY <1>1, <1>4, <1>5, <1>12
<1>. QED  BY <1>3, <1>13 DEF v, n

\* What Delivered promises of a transfer.
Stops(o, ms) ==
  ms # <<>> /\ (~ms[Len(ms)].repstart \/ (KindOf[o] = "message" /\ Len(ms) = 1))
Kept(t, o, ms, wire) ==
  wire.legal /\ wire.moved = Payload(t, ms) /\ (Stops(o, ms) => wire.phase = "idle")

LEMMA QueueDelivers ==
  ASSUME NEW t \in Tasks, NEW o, NEW ms \in Seq(Message), NEW stop \in [DOMAIN ms -> BOOLEAN],
         NEW bs \in Seq(Seq(Cmd)), Len(bs) = Len(ms),
         \A i \in DOMAIN ms : Carries(bs[i], <<t, i>>, ms[i], stop[i]),
         Stops(o, ms) => stop[Len(ms)],
         NEW phase \in Phases, phase # "held"
  PROVE  Kept(t, o, ms, Run(phase, FlattenSeq(bs)))
<1>. DEFINE w == [Idle EXCEPT !.phase = phase]
            v == RunFrom(w, FlattenSeq(bs))
<1>1. w \in Wire /\ w.legal /\ w.phase = phase /\ w.moved = <<>>
  <2>1. Idle \in Wire /\ Idle.legal /\ Idle.moved = <<>>
    BY DEF Idle, Wire, Phases
  <2>2. ASSUME NEW u \in Wire
        PROVE  /\ [u EXCEPT !.phase = phase] \in Wire /\ [u EXCEPT !.phase = phase].phase = phase
               /\ [u EXCEPT !.phase = phase].legal = u.legal /\ [u EXCEPT !.phase = phase].moved = u.moved
    BY DEF Wire
  <2>. QED  BY <2>1, <2>2
<1>2. Run(phase, FlattenSeq(bs)) = v
  BY RunIsRunFrom
<1>. HIDE DEF w
<1>3. Ready(w)
  BY <1>1 DEF Ready
<1>4. /\ Ready(v) /\ v.moved = w.moved \o Payload(t, ms)
      /\ ms # <<>> /\ stop[Len(ms)] => v.phase = "idle"
  BY <1>1, <1>3, VectorDelivers
<1>. HIDE DEF v
<1>5. <<>> \o Payload(t, ms) = Payload(t, ms)
  <2>1. \A i \in DOMAIN ms : Bytes(<<t, i>>, 0, ms[i].count) \in Seq(Byte)
    <3>1. ASSUME NEW i \in DOMAIN ms PROVE Bytes(<<t, i>>, 0, ms[i].count) \in Seq(Byte)
      <4>0. ms[i] \in Message /\ <<t, i>> \in Tasks \X Nat /\ 0 \in Int
        OBVIOUS
      <4>1. <<t, i>> \in Tasks \X Nat /\ 0 \in Int /\ ms[i].count \in Nat
        BY <4>0 DEF Message
      <4>. QED  BY <4>1, BytesAre
    <3>. QED  BY <3>1
  <2>2. [i \in DOMAIN ms |-> Bytes(<<t, i>>, 0, ms[i].count)] \in Seq(Seq(Byte))
    <3>. DEFINE b(i) == Bytes(<<t, i>>, 0, ms[i].count)
                Y    == Seq(Byte)
    <3>1. \A i \in 1..Len(ms) : b(i) \in Y
      BY <2>1
    <3>2. Len(ms) \in Nat /\ DOMAIN ms = 1..Len(ms)
      OBVIOUS
    <3>. HIDE DEF b, Y
    <3>3. [i \in DOMAIN ms |-> b(i)] \in Seq(Y)
      BY <3>1, <3>2
    <3>. QED  BY <3>3 DEF b, Y
  <2>3. Payload(t, ms) \in Seq(Byte)
    BY <2>2, FlattenSmall DEF Payload
  <2>. QED  BY <2>3, ConcatEmptySeq
<1>6. ms # <<>> <=> Len(ms) # 0
  OBVIOUS
<1>. QED  BY <1>1, <1>2, <1>4, <1>5 DEF Kept, Ready, Stops

\* The commands of a whole transfer.
LEMMA ProgramDelivers ==
  ASSUME NEW t \in Tasks, NEW o \in Objects, NEW ms \in Transfers, Sound(ms),
         NEW phase \in Phases, phase # "held"
  PROVE  Kept(t, o, ms, Run(phase, Cmds(Program(t, o, ms))))
<1>1. ms \in Seq(Message) /\ KindOf[o] \in Kinds
  BY TransferAssumption, KindAssumption
<1>2. \A i \in DOMAIN ms : Asked(ms[i])
  BY <1>1 DEF Asked, Sound
<1>. DEFINE stop == [i \in DOMAIN ms |-> ~ms[i].repstart]
<1>3. /\ stop \in [DOMAIN ms -> BOOLEAN] /\ \A i \in DOMAIN ms : stop[i] = ~ms[i].repstart
      /\ ms # <<>> => Len(ms) \in DOMAIN ms
  BY <1>1
<1>. HIDE DEF stop
<1>4. CASE KindOf[o] # "message"
  <2>. DEFINE ps == [i \in DOMAIN ms |-> Body(t, ms, i)]
              bs == [i \in DOMAIN ps |-> Cmds(ps[i])]
  <2>1. ps \in Seq(Seq(Steps)) /\ Len(ps) = Len(ms) /\ \A i \in DOMAIN ms : ps[i] = Body(t, ms, i)
    <3>1. \A i \in DOMAIN ms : Body(t, ms, i) \in Seq(Steps)
      BY <1>1, BodyQueues
    <3>. QED  BY <1>1, <3>1
  <2>. HIDE DEF ps
  <2>2. Cmds(FlattenSeq(ps)) = FlattenSeq(bs) /\ bs \in Seq(Seq(Cmd))
    BY <2>1, CmdsFlatten
  <2>3. Len(bs) = Len(ms) /\ \A i \in DOMAIN ms : bs[i] = Cmds(Body(t, ms, i))
    BY <1>1, <2>1
  <2>. HIDE DEF bs
  <2>4. \A i \in DOMAIN ms : Carries(bs[i], <<t, i>>, ms[i], stop[i])
    BY <1>1, <1>2, <1>3, <2>3, BodyCarries
  <2>5. Stops(o, ms) => stop[Len(ms)]
    BY <1>3, <1>4 DEF Stops
  <2>6. Kept(t, o, ms, Run(phase, FlattenSeq(bs)))
    BY <1>1, <1>3, <2>2, <2>3, <2>4, <2>5, QueueDelivers
  <2>7. Cmds(Program(t, o, ms)) = FlattenSeq(bs)
    <3>1. Program(t, o, ms) = FlattenSeq(ps) \o Flushed
      BY <1>4, HardwareProgram DEF Program, ps
    <3>2. FlattenSeq(ps) \in Seq(Steps)
      BY <2>1, FlattenSmall
    <3>3. Flushed \in Seq(Steps) /\ Cmds(Flushed) = <<>>
      <4>1. /\ Do("flush") \in Steps /\ Do("check") \in Steps /\ Do("delete") \in Steps /\ Do("null") \in Steps
            /\ Do("flush").do = "flush" /\ Do("check").do = "check"
            /\ Do("delete").do = "delete" /\ Do("null").do = "null"
        BY StepsAre DEF StepNames
      <4>2. /\ Flushed \in Seq(Steps) /\ Len(Flushed) = 4
            /\ Flushed[1] = Do("flush") /\ Flushed[2] = Do("check")
            /\ Flushed[3] = Do("delete") /\ Flushed[4] = Do("null")
        BY <4>1 DEF Flushed
      <4>3. \A i \in 1..Len(Flushed) : i = 1 \/ i = 2 \/ i = 3 \/ i = 4
        BY <4>2
      <4>4. \A i \in 1..Len(Flushed) : Flushed[i].do # "queue"
        BY <4>1, <4>2, <4>3
      <4>. QED  BY <4>2, <4>4, NoCmds
    <3>. DEFINE F == FlattenSeq(ps)
    <3>4. F \in Seq(Steps) /\ Cmds(F) \in Seq(Cmd)
      BY <3>2, CmdsType
    <3>. HIDE DEF F
    <3>5. Cmds(F \o Flushed) = Cmds(F) \o Cmds(Flushed)
      BY <3>3, <3>4, CmdsJoin
    <3>6. Cmds(F) \o <<>> = Cmds(F)
      BY <3>4, ConcatEmptySeq
    <3>. QED  BY <2>2, <3>1, <3>3, <3>5, <3>6 DEF F
  <2>. QED  BY <2>6, <2>7
<1>5. CASE KindOf[o] = "message"
  <2>. DEFINE c == Commands(t, ms)
  <2>1. Cmds(Program(t, o, ms)) = c
    <3>. DEFINE p == MessageTransfer(t, ms)
                a == <<Do("make")>>
                q == Queued(c)
                e == <<Do("begin"), Do("drop")>>
    <3>1. c \in Seq(Cmd)
      BY <1>1, MessageCommandsAre
    <3>. HIDE DEF c
    <3>2. q \in Steps /\ CmdsOf(q) = c
      BY <3>1, StepsAre DEF CmdsOf
    <3>3. Program(t, o, ms) = (a \o <<q>>) \o e
      BY <1>5 DEF Program, MessageTransfer, Queue, Queued, c
    <3>4. /\ Do("make") \in Steps /\ Do("begin") \in Steps /\ Do("drop") \in Steps
          /\ Do("make").do = "make" /\ Do("begin").do = "begin" /\ Do("drop").do = "drop"
      BY StepsAre DEF StepNames
    <3>5. a \in Seq(Steps) /\ Cmds(a) = <<>>
      <4>1. a \in Seq(Steps) /\ Len(a) = 1 /\ a[1].do # "queue"
        BY <3>4
      <4>. HIDE DEF a
      <4>2. \A i \in 1..Len(a) : a[i].do # "queue"
        BY <4>1
      <4>. QED  BY <4>1, <4>2, NoCmds
    <3>6. e \in Seq(Steps) /\ Cmds(e) = <<>>
      <4>1. e \in Seq(Steps) /\ Len(e) = 2 /\ e[1].do # "queue" /\ e[2].do # "queue"
        BY <3>4
      <4>. HIDE DEF e
      <4>2. \A i \in 1..Len(e) : e[i].do # "queue"
        BY <4>1
      <4>. QED  BY <4>1, <4>2, NoCmds
    <3>. HIDE DEF a, e, q
    <3>7. <<q>> \in Seq(Steps) /\ Cmds(<<q>>) = c
      BY <3>2, CmdsSmall, SmallSeqs
    <3>. DEFINE b == a \o <<q>>
    <3>8. b \in Seq(Steps) /\ Cmds(b) = c
      <4>1. b \in Seq(Steps) /\ Cmds(b) = <<>> \o c
        BY <3>5, <3>7, CmdsJoin, SmallSeqs
      <4>. QED  BY <3>1, <4>1, ConcatEmptySeq
    <3>. HIDE DEF b
    <3>9. Cmds(b \o e) = c
      <4>1. Cmds(b \o e) = c \o <<>>
        BY <3>6, <3>8, CmdsJoin
      <4>. QED  BY <3>1, <4>1, ConcatEmptySeq
    <3>. QED  BY <3>3, <3>9 DEF b, c
  <2>2. CASE Len(ms) # 1
    <3>. DEFINE bs == [i \in DOMAIN ms |-> Block(t, ms, i)]
    <3>1. c = FlattenSeq(bs)
      BY <2>2, VectorBlocks DEF Commands
    <3>2. bs \in Seq(Seq(Cmd)) /\ Len(bs) = Len(ms) /\ \A i \in DOMAIN ms : bs[i] = Block(t, ms, i)
      <4>1. \A i \in DOMAIN ms : Block(t, ms, i) \in Seq(Cmd)
        BY <1>1, BlockCommands
      <4>. QED  BY <1>1, <4>1
    <3>. HIDE DEF bs
    <3>3. \A i \in DOMAIN ms : Carries(bs[i], <<t, i>>, ms[i], stop[i])
      BY <1>1, <1>2, <1>3, <3>2, BlockCarries
    <3>4. Stops(o, ms) => stop[Len(ms)]
      BY <1>3, <2>2 DEF Stops
    <3>5. Kept(t, o, ms, Run(phase, FlattenSeq(bs)))
      BY <1>1, <1>3, <3>2, <3>3, <3>4, QueueDelivers
    <3>. QED  BY <2>1, <3>1, <3>5
  <2>3. CASE Len(ms) = 1
    <3>. DEFINE who == <<t, 1>>
                m   == ms[1]
                s   == <<Start>>
                r   == prepareTransfer(who, m)
                b   == s \o r
                d   == b \o <<Stop>>
                bs  == <<d>>
                all == [i \in DOMAIN ms |-> TRUE]
    <3>1. c = d
      BY <2>3 DEF Commands, MessageCommands
    <3>2. who \in Tasks \X Nat /\ 1 \in DOMAIN ms /\ Asked(m) /\ DOMAIN ms = 1..1
      BY <1>1, <1>2, <2>3
    <3>3. b \in Seq(Cmd) /\ \A w \in Wire : Ready(w) => Carried(RunFrom(w, b), w, who, m)
      <4>1. s \in Seq(Cmd) /\ r \in Seq(Cmd)
        BY <1>1, <3>2, BodyCommands
      <4>2. b \in Seq(Cmd)
        <5>. HIDE DEF s, r
        <5>. QED  BY <4>1, SmallSeqs
      <4>3. \A w \in Wire : Ready(w) => Carried(RunFrom(w, b), w, who, m)
        <5>. HIDE DEF who, m
        <5>. QED  BY <3>2, PreparedRun
      <4>. QED  BY <4>2, <4>3
    <3>. HIDE DEF b
    <3>4. Carries(d, who, m, TRUE) /\ d \in Seq(Cmd)
      <4>1. Carries(d, who, m, TRUE)
        <5>. HIDE DEF who, m
        <5>. QED  BY <3>3, StopCarries
      <4>. QED  BY <4>1 DEF Carries
    <3>. HIDE DEF d
    <3>5. bs \in Seq(Seq(Cmd)) /\ Len(bs) = 1 /\ bs[1] = d /\ FlattenSeq(bs) = d
      BY <3>4, FlattenSmall
    <3>. HIDE DEF bs
    <3>6. all \in [DOMAIN ms -> BOOLEAN] /\ all[1] = TRUE /\ \A i \in DOMAIN ms : all[i] = TRUE
      BY <3>2
    <3>. HIDE DEF all
    <3>7. \A i \in DOMAIN ms : Carries(bs[i], <<t, i>>, ms[i], all[i])
      <4>1. \A i \in DOMAIN ms : i = 1
        BY <3>2
      <4>. QED  BY <3>4, <3>5, <3>6, <4>1
    <3>8. Kept(t, o, ms, Run(phase, FlattenSeq(bs)))
      BY <1>1, <2>3, <3>5, <3>6, <3>7, QueueDelivers
    <3>. QED  BY <2>1, <3>1, <3>5, <3>8
  <2>. QED  BY <2>2, <2>3
<1>. QED  BY <1>4, <1>5

-----------------------------------------------------------------------------
(* What a transfer has queued, and what the bus has made of it.            *)

Working == {"test", "create", "queue", "flush", "make", "begin"}
Ended   == {"check", "delete", "null", "drop"}

\* Until the link is handed over, what is on it and what the call has left to queue are the
\* commands of the whole transfer; afterwards a run that succeeded has kept the promise.
Content(t) == IF Link(t) = NULL THEN <<>> ELSE links[Link(t)]
Filled(t) ==
  (\E s \in Working : At(t, s)) /\ t \notin starved =>
    /\ about[t] \in Transfers
    /\ At(t, "queue") => Link(t) # NULL
    /\ Content(t) \o Cmds(todo[t]) = Cmds(Program(t, on[t], about[t]))
Result(t) ==
  ran[t].ok =>
    /\ \E s \in Ended : At(t, s)
    /\ t \notin starved /\ ran[t].before # "held" /\ Sound(about[t])
         => Kept(t, on[t], about[t], ran[t].wire)

TransferState == \A t \in Tasks : Filled(t) /\ Result(t)
TransferInv == mixed = {} => TransferState

\* What the step of a task leaves to the others.
Keeps(t) ==
  /\ \A u \in Tasks : u # t =>
       /\ todo'[u] = todo[u] /\ on'[u] = on[u] /\ about'[u] = about[u] /\ local'[u] = local[u]
       /\ ran'[u] = ran[u] /\ (u \in starved' <=> u \in starved)
  /\ \A k \in Static : k # Kind(t) => handle'[k] = handle[k]
  /\ \A l \in Live \ Owned(t) : links'[l] = links[l]

LEMMA SkipKeeps ==
  ASSUME CallsOK, NEW t \in Tasks, NEW n, Skip(t, n)
  PROVE  \A u \in Tasks : u # t => todo'[u] = todo[u] /\ on'[u] = on[u] /\ about'[u] = about[u]
<1>. DEFINE left == SubSeq(todo[t], n + 1, Len(todo[t]))
            a == IF left = <<>> THEN NULL ELSE on[t]
            b == IF left = <<>> THEN <<>> ELSE about[t]
<1>1. todo' = [todo EXCEPT ![t] = left] /\ on' = [on EXCEPT ![t] = a] /\ about' = [about EXCEPT ![t] = b]
  BY DEF Skip
<1>. HIDE DEF left, a, b
<1>2. todo \in [Tasks -> Seq(Steps)] /\ on \in [Tasks -> Objects \cup {NULL}]
      /\ about \in [Tasks -> Transfers \cup {<<>>}]
  BY DEF CallsOK
<1>. QED  BY <1>1, <1>2

\* A step that leaves the links alone, or changes those of the task itself.
LEMMA StepSkips ==
  ASSUME NEW t \in Tasks, Step(t), ~Restart
  PROVE  \E n : Skip(t, n)
  BY DEF Step, Install, Forget, Test, Create, CreateFails, QueueCommands, QueueFails, Flush, Check,
         DeleteLink, Null, Go

LEMMA KeepsTaskState ==
  ASSUME Types, NEW t \in Tasks, Step(t), ~Restart, NEW u \in Tasks, u # t
  PROVE  local'[u] = local[u] /\ ran'[u] = ran[u] /\ (u \in starved' <=> u \in starved)
<1>1. local \in [Tasks -> Links \cup {NULL}] /\ ran \in [Tasks -> Runs]
  BY DEF Types, LinksOK, RunsOK
<1>2. CASE Install(t) \/ Forget(t) \/ Test(t)
  BY <1>2 DEF Install, Forget, Test, seen
<1>3. CASE Create(t) \/ CreateFails(t)
  <2>1. ran' = ran /\ (starved' = starved \/ starved' = starved \cup {t})
    BY <1>3 DEF Create, CreateFails, Starve, seen
  <2>2. local' = local \/ local' = [local EXCEPT ![t] = NewLink]
    BY <1>3 DEF Create, CreateFails
  <2>. QED  BY <1>1, <2>1, <2>2
<1>4. CASE QueueCommands(t) \/ QueueFails(t)
  BY <1>4 DEF QueueCommands, QueueFails, Starve
<1>5. CASE Flush(t)
  <2>. DEFINE r == [ok |-> TRUE, before |-> port.phase, wire |-> Run(port.phase, links[Link(t)])]
  <2>1. ran' = [ran EXCEPT ![t] = r] \/ ran' = [ran EXCEPT ![t] = None]
    BY <1>5 DEF Flush, Begun
  <2>2. local' = local /\ starved' = starved
    BY <1>5 DEF Flush
  <2>. HIDE DEF r
  <2>. QED  BY <1>1, <2>1, <2>2
<1>6. CASE Check(t) \/ DeleteLink(t) \/ Null(t)
  <2>1. ran' = ran \/ ran' = [ran EXCEPT ![t] = None]
    BY <1>6 DEF Check, DeleteLink, Null
  <2>2. starved' = starved \/ starved' = starved \ {t}
    BY <1>6 DEF Check, DeleteLink, Null
  <2>3. local' = local \/ local' = [local EXCEPT ![t] = NULL]
    BY <1>6 DEF Check, DeleteLink, Null
  <2>. QED  BY <1>1, <2>1, <2>2, <2>3
<1>. QED  BY <1>2, <1>3, <1>4, <1>5, <1>6 DEF Step

LEMMA KeepsStatics ==
  ASSUME Types, NEW t \in Tasks, Step(t), ~Restart, NEW k \in Static, k # Kind(t)
  PROVE  handle'[k] = handle[k]
<1>1. handle \in [Static -> Links \cup {NULL}]
  BY DEF Types, LinksOK
<1>2. \/ handle' = handle
      \/ \E l : handle' = [handle EXCEPT ![Kind(t)] = l]
  BY DEF Step, Install, Forget, Test, Create, CreateFails, QueueCommands, QueueFails, Flush, Check,
         DeleteLink, Null, NullHandle, idf
<1>. QED  BY <1>1, <1>2

LEMMA KeepsLinks ==
  ASSUME Types, LinkState, NEW t \in Tasks, Step(t), ~Restart, NEW l \in Live \ Owned(t)
  PROVE  links'[l] = links[l]
<1>1. links \in [Links -> {Free} \cup Seq(Cmd)] /\ l \in Links /\ links[l] # Free
  BY DEF Types, LinksOK, Live
<1>2. CASE Create(t)
  <2>1. links[NewLink] = Free /\ links' = [links EXCEPT ![NewLink] = <<>>]
    BY <1>2, NewLinkIsFree DEF Create
  <2>2. NewLink # l
    BY <1>1, <2>1
  <2>. QED  BY <1>1, <2>1, <2>2
<1>3. CASE QueueCommands(t) \/ QueueFails(t)
  <2>1. PICK cmds \in Seq(Cmd) : Extend(t, cmds)
    BY <1>3, QueueExtends
  <2>2. At(t, "queue")
    BY <1>3 DEF QueueCommands, QueueFails
  <2>3. Owned(t) = {Link(t)} \ {NULL}
    BY <2>2, OwnedIs
  <2>. DEFINE c == links[Link(t)] \o cmds
  <2>4. links' = links \/ (Link(t) # NULL /\ links' = [links EXCEPT ![Link(t)] = c])
    BY <2>1 DEF Extend
  <2>. HIDE DEF c
  <2>5. Link(t) # NULL => Link(t) # l
    BY <2>3
  <2>. QED  BY <1>1, <2>4, <2>5
<1>4. CASE DeleteLink(t)
  <2>1. At(t, "delete") \/ At(t, "drop")
    BY <1>4 DEF DeleteLink
  <2>2. Owned(t) = {Link(t)} \ {NULL}
    BY <2>1, OwnedIs
  <2>3. links' = links \/ (Link(t) # NULL /\ links' = [links EXCEPT ![Link(t)] = Free])
    BY <1>4 DEF DeleteLink
  <2>4. Link(t) # NULL => Link(t) # l
    BY <2>2
  <2>. QED  BY <1>1, <2>3, <2>4
<1>5. CASE Install(t) \/ Forget(t) \/ Test(t) \/ CreateFails(t) \/ Flush(t) \/ Check(t) \/ Null(t)
  BY <1>5 DEF Install, Forget, Test, CreateFails, Flush, Check, Null, idf
<1>. QED  BY <1>2, <1>3, <1>4, <1>5 DEF Step

LEMMA StepKeeps ==
  ASSUME Types, LinkState, NEW t \in Tasks, Step(t), ~Restart
  PROVE  Keeps(t)
<1>1. \A u \in Tasks : u # t => todo'[u] = todo[u] /\ on'[u] = on[u] /\ about'[u] = about[u]
  BY StepSkips, SkipKeeps DEF Types
<1>2. \A u \in Tasks : u # t => local'[u] = local[u] /\ ran'[u] = ran[u] /\ (u \in starved' <=> u \in starved)
  BY KeepsTaskState
<1>3. \A k \in Static : k # Kind(t) => handle'[k] = handle[k]
  BY KeepsStatics
<1>4. \A l \in Live \ Owned(t) : links'[l] = links[l]
  BY KeepsLinks
<1>. QED  BY <1>1, <1>2, <1>3, <1>4 DEF Keeps

\* What the others have queued and run stays.
LEMMA OthersKeep ==
  ASSUME LinkState, NEW t \in Tasks, todo[t] # <<>>, Keeps(t), NEW u \in Tasks, u # t, Filled(u), Result(u)
  PROVE  Filled(u)' /\ Result(u)'
<1>1. /\ todo'[u] = todo[u] /\ on'[u] = on[u] /\ about'[u] = about[u] /\ local'[u] = local[u]
      /\ ran'[u] = ran[u] /\ (u \in starved' <=> u \in starved)
  BY DEF Keeps
<1>2. \A s : At(u, s)' <=> At(u, s)
  BY <1>1 DEF At
<1>3. Result(u)'
  BY <1>1, <1>2 DEF Result, Kept, Stops
<1>4. Filled(u)'
  <2>1. SUFFICES ASSUME NEW s \in Working, At(u, s)', u \notin starved'
                 PROVE  /\ about'[u] \in Transfers
                        /\ At(u, "queue")' => Link(u)' # NULL
                        /\ Content(u)' \o Cmds(todo'[u]) = Cmds(Program(u, on'[u], about'[u]))
    BY DEF Filled, Program
  <2>2. At(u, s) /\ todo[u] # <<>> /\ s # "null" /\ u \notin starved
    BY <1>1, <1>2, <2>1 DEF At, Working
  <2>3. Link(u)' = Link(u)
    <3>1. Kind(u)' = Kind(u)
      BY <1>1 DEF Kind
    <3>2. Kind(u) \in Static => Kind(u) # Kind(t)
      BY <2>2 DEF LinkState, OneUser
    <3>. QED  BY <1>1, <3>1, <3>2 DEF Link, Keeps
  <2>4. Content(u)' = Content(u)
    <3>1. CASE Link(u) = NULL
      BY <2>3, <3>1 DEF Content
    <3>2. CASE Link(u) # NULL
      <4>1. Owned(u) = {Link(u)} /\ Owned(u) \subseteq Live /\ Owned(u) \cap Owned(t) = {}
        BY <2>2, <3>2, OwnedIs DEF LinkState, Belongs
      <4>2. Link(u) \in Live \ Owned(t)
        BY <4>1
      <4>3. links'[Link(u)] = links[Link(u)]
        BY <4>2 DEF Keeps
      <4>. QED  BY <2>3, <4>3 DEF Content
    <3>. QED  BY <3>1, <3>2
  <2>5. /\ about[u] \in Transfers
        /\ At(u, "queue") => Link(u) # NULL
        /\ Content(u) \o Cmds(todo[u]) = Cmds(Program(u, on[u], about[u]))
    BY <2>2 DEF Filled
  <2>. QED  BY <1>1, <1>2, <2>3, <2>4, <2>5
<1>. QED  BY <1>3, <1>4

\* A call that is over, or has not run, has promised nothing.
LEMMA NotRun ==
  ASSUME NEW t, NEW s, At(t, s), s \notin Ended, Result(t)
  PROVE  ~ran[t].ok
  BY DEF Result, At

LEMMA CallOver ==
  ASSUME NEW t, todo'[t] = <<>>, ~ran'[t].ok
  PROVE  Filled(t)' /\ Result(t)'
  BY DEF Filled, Result, At

LEMMA StillToRun ==
  ASSUME NEW t, ~ran'[t].ok
  PROVE  Result(t)'
  BY DEF Result

\* A step that adds to the link what it takes from the rest of the call.
LEMMA FilledGoes ==
  ASSUME NEW t, NEW s \in Working, At(t, s), t \in starved => t \in starved', Filled(t),
         todo'[t] # <<>> => on'[t] = on[t] /\ about'[t] = about[t],
         t \notin starved => /\ At(t, "queue")' => Link(t)' # NULL
                             /\ Content(t)' \o Cmds(todo'[t]) = Content(t) \o Cmds(todo[t])
  PROVE  Filled(t)'
<1>. SUFFICES ASSUME NEW r \in Working, At(t, r)', t \notin starved'
              PROVE  /\ about'[t] \in Transfers
                     /\ At(t, "queue")' => Link(t)' # NULL
                     /\ Content(t)' \o Cmds(todo'[t]) = Cmds(Program(t, on'[t], about'[t]))
  BY DEF Filled, Program
<1>1. t \notin starved /\ todo'[t] # <<>>
  BY DEF At
<1>2. about[t] \in Transfers /\ Content(t) \o Cmds(todo[t]) = Cmds(Program(t, on[t], about[t]))
  BY <1>1 DEF Filled
<1>. QED  BY <1>1, <1>2

\* The commands of a call, one step on.
LEMMA GoCmds ==
  ASSUME CallsOK, NEW t \in Tasks, todo[t] # <<>>, Go(t)
  PROVE  /\ Cmds(todo[t]) = CmdsOf(Head(todo[t])) \o Cmds(todo'[t])
         /\ Cmds(todo'[t]) \in Seq(Cmd) /\ CmdsOf(Head(todo[t])) \in Seq(Cmd)
         /\ todo'[t] # <<>> => on'[t] = on[t] /\ about'[t] = about[t]
<1>1. todo \in [Tasks -> Seq(Steps)]
  BY DEF CallsOK
<1>2. /\ todo' = [todo EXCEPT ![t] = SubSeq(todo[t], 2, Len(todo[t]))]
      /\ todo'[t] # <<>> => on'[t] = on[t] /\ about'[t] = about[t]
  BY CallsGo
<1>3. todo'[t] = SubSeq(todo[t], 2, Len(todo[t])) /\ todo[t] \in Seq(Steps)
  BY <1>1, <1>2
<1>4. /\ Cmds(todo[t]) = CmdsOf(Head(todo[t])) \o Cmds(todo'[t])
      /\ Head(todo[t]) \in Steps /\ todo'[t] \in Seq(Steps)
  BY <1>3, CmdsHead
<1>. QED  BY <1>2, <1>4, CmdsOfType, CmdsType

\* Steps that queue nothing.
LEMMA NothingQueued ==
  ASSUME NEW t, NEW s, At(t, s), s # "queue"
  PROVE  CmdsOf(Head(todo[t])) = <<>>
  BY DEF CmdsOf, At

LEMMA EmptyHead == \A c \in Seq(Cmd) : <<>> \o c = c /\ c \o <<>> = c
  BY ConcatEmptySeq

LEMMA TransferBegins ==
  ASSUME Types, Types', NEW t \in Tasks, Install(t) \/ Forget(t), ~Restart, Result(t)
  PROVE  Filled(t)' /\ Result(t)'
<1>1. /\ Go(t) /\ todo[t] # <<>> /\ ran' = ran
      /\ At(t, "install") \/ At(t, "forget")
  BY DEF Install, Forget, At
<1>2. ~ran'[t].ok
  BY <1>1, NotRun DEF Ended
<1>3. todo'[t] = <<>> \/ At(t, "forget")'
  BY <1>1, AfterStep DEF Types
<1>4. \A s \in Working : ~At(t, s)'
  BY <1>3 DEF At, Working
<1>. QED  BY <1>2, <1>4, StillToRun DEF Filled

\* Two steps off a call, one by one.
LEMMA TwoOff ==
  ASSUME NEW X, NEW p \in Seq(X), Len(p) > 2
  PROVE  LET q == SubSeq(p, 2, Len(p))
         IN  q # <<>> /\ Head(q) = p[2] /\ SubSeq(q, 2, Len(q)) = SubSeq(p, 3, Len(p))
<1>. DEFINE n == Len(p)
            q == SubSeq(p, 2, n)
            r == SubSeq(q, 2, Len(q))
            s == SubSeq(p, 3, n)
<1>1. n \in Nat /\ n > 2
  OBVIOUS
<1>2. q \in Seq(X) /\ Len(q) = n - 1 /\ \A i \in 1..(n - 1) : q[i] = p[i + 1]
  BY <1>1
<1>3. s \in Seq(X) /\ Len(s) = n - 2 /\ \A i \in 1..(n - 2) : s[i] = p[i + 2]
  BY <1>1
<1>4. r \in Seq(X) /\ Len(r) = n - 2 /\ \A i \in 1..(n - 2) : r[i] = q[i + 1]
  <2>. HIDE DEF q
  <2>. QED  BY <1>1, <1>2
<1>. HIDE DEF n, q, r, s
<1>5. \A i \in 1..(n - 2) : i + 1 \in 1..(n - 1) /\ (i + 1) + 1 = i + 2
  BY <1>1
<1>6. r = s
  <2>1. \A i \in 1..(n - 2) : r[i] = s[i]
    BY <1>2, <1>3, <1>4, <1>5
  <2>. QED  BY <1>3, <1>4, <2>1, SeqEqual
<1>7. q # <<>> /\ Head(q) = p[2]
  BY <1>1, <1>2
<1>. QED  BY <1>6, <1>7 DEF n, q, r, s

LEMMA TransferTest ==
  ASSUME Types, Types', LinkState, NEW t \in Tasks, Test(t), Filled(t), Result(t)
  PROVE  Filled(t)' /\ Result(t)'
<1>1. /\ At(t, "test") /\ todo[t] # <<>> /\ Kind(t) \in Static /\ CallsOK /\ CallsOK'
      /\ links' = links /\ handle' = handle /\ ran' = ran /\ starved' = starved
      /\ Skip(t, IF handle[Kind(t)] = NULL THEN 1 ELSE 2)
  BY WhoseStep DEF Test, At, idf, seen, Types
<1>2. Result(t)'
  BY <1>1, NotRun, StillToRun DEF Ended
<1>3. Link(t) = handle[Kind(t)] /\ "test" \in Working
  BY <1>1 DEF Link, Working
<1>4. CASE handle[Kind(t)] = NULL
  <2>1. Go(t)
    BY <1>1, <1>4 DEF Go
  <2>2. At(t, "create")' /\ todo'[t] # <<>>
    BY <1>1, <2>1, AfterStep DEF At
  <2>3. on'[t] = on[t] /\ about'[t] = about[t]
    BY <1>1, <2>1, <2>2, GoCmds
  <2>4. Link(t)' = NULL
    BY <1>1, <1>4, <2>3 DEF Link, Kind
  <2>5. Content(t)' = Content(t)
    BY <1>3, <1>4, <2>4 DEF Content
  <2>6. Cmds(todo'[t]) = Cmds(todo[t])
    BY <1>1, <2>1, GoCmds, NothingQueued, EmptyHead
  <2>7. ~At(t, "queue")'
    BY <2>2 DEF At
  <2>8. Content(t)' \o Cmds(todo'[t]) = Content(t) \o Cmds(todo[t])
    BY <2>5, <2>6
  <2>. QED  BY <1>1, <1>2, <1>3, <2>3, <2>7, <2>8, FilledGoes
<1>5. CASE handle[Kind(t)] # NULL
  <2>1. Skip(t, 2) /\ Len(todo[t]) > 2 /\ Rest(Kind(t), todo[t]) /\ todo[t] \in Seq(Steps)
    BY <1>1, <1>5, WhoseStep DEF CallsOK
  <2>2. 2 \in 0..Len(todo[t])
    BY <2>1
  <2>3. /\ todo' = [todo EXCEPT ![t] = SubSeq(todo[t], 2 + 1, Len(todo[t]))]
        /\ todo'[t] # <<>> => on'[t] = on[t] /\ about'[t] = about[t]
    BY <1>1, <2>1, <2>2, CallsSkip
  <2>4. At(t, "queue")' /\ on'[t] = on[t] /\ about'[t] = about[t]
    BY <1>1, <2>1, <2>3, AfterTest DEF At
  <2>5. Link(t)' = Link(t) /\ Link(t) # NULL
    BY <1>1, <1>3, <1>5, <2>4 DEF Link, Kind
  <2>6. Content(t)' = Content(t)
    BY <1>1, <2>5 DEF Content
  <2>7. Cmds(todo'[t]) = Cmds(todo[t])
    <3>. DEFINE p == todo[t]
                q == SubSeq(p, 2, Len(p))
                r == SubSeq(q, 2, Len(q))
    <3>1. p[1].do = "test" /\ p[2].do = "create" /\ p \in Seq(Steps) /\ p # <<>> /\ Len(p) > 2 /\ Head(p) = p[1]
      BY <1>1, <2>1, StaticHead DEF At
    <3>2. todo'[t] = SubSeq(p, 3, Len(p))
      BY <2>3 DEF Types, CallsOK
    <3>. HIDE DEF p
    <3>3. Cmds(p) = CmdsOf(Head(p)) \o Cmds(q) /\ q \in Seq(Steps)
      BY <3>1, CmdsHead
    <3>4. q # <<>> /\ Head(q) = p[2] /\ r = SubSeq(p, 3, Len(p))
      BY <3>1, TwoOff
    <3>. HIDE DEF q
    <3>5. Cmds(q) = CmdsOf(Head(q)) \o Cmds(r) /\ r \in Seq(Steps)
      BY <3>3, <3>4, CmdsHead
    <3>6. CmdsOf(Head(p)) = <<>> /\ CmdsOf(Head(q)) = <<>>
      BY <3>1, <3>4 DEF CmdsOf
    <3>. HIDE DEF r
    <3>7. Cmds(r) \in Seq(Cmd) /\ Cmds(q) \in Seq(Cmd)
      BY <3>3, <3>5, CmdsType
    <3>8. Cmds(q) = Cmds(r)
      BY <3>5, <3>6, <3>7, EmptyHead
    <3>9. Cmds(p) = Cmds(q)
      BY <3>3, <3>6, <3>7, EmptyHead
    <3>10. todo'[t] = r
      BY <3>2, <3>4
    <3>. QED  BY <3>8, <3>9, <3>10 DEF p
  <2>8. Content(t)' \o Cmds(todo'[t]) = Content(t) \o Cmds(todo[t])
    BY <2>6, <2>7
  <2>. QED  BY <1>1, <1>2, <1>3, <2>4, <2>5, <2>8, FilledGoes
<1>. QED  BY <1>4, <1>5

LEMMA TransferCreate ==
  ASSUME Types, Types', LinkState, NEW t \in Tasks, Create(t), Filled(t), Result(t)
  PROVE  Filled(t)' /\ Result(t)'
<1>. DEFINE l == NewLink
<1>1. /\ todo[t] # <<>> /\ Go(t) /\ links' = [links EXCEPT ![l] = <<>>] /\ ran' = ran
      /\ starved' = starved /\ CallsOK /\ CallsOK'
      /\ At(t, "create") \/ At(t, "make")
  BY DEF Create, At, seen, Types
<1>2. l \in Links /\ links[l] = Free
  BY NewLinkIsFree DEF Create
<1>. HIDE DEF l
<1>3. Result(t)'
  BY <1>1, NotRun, StillToRun DEF Ended
<1>4. At(t, "queue")' /\ todo'[t] # <<>>
  BY <1>1, AfterStep DEF At
<1>5. Link(t)' = IF Kind(t) \in Static THEN handle'[Kind(t)] ELSE local'[t]
  BY <1>1, <1>4, SameKind
<1>6. local \in [Tasks -> Links \cup {NULL}] /\ handle \in [Static -> Links \cup {NULL}]
      /\ links \in [Links -> {Free} \cup Seq(Cmd)]
  BY DEF Types, LinksOK
<1>7. Link(t)' = l
  <2>1. CASE At(t, "create")
    <3>1. Kind(t) \in Static /\ ~At(t, "make")
      BY <1>1, <2>1, WhoseStep DEF At
    <3>2. handle' = [handle EXCEPT ![Kind(t)] = l]
      BY <3>1 DEF Create, l
    <3>. QED  BY <1>5, <1>6, <3>1, <3>2
  <2>2. CASE At(t, "make")
    <3>1. Kind(t) \notin Static /\ ~At(t, "create")
      BY <1>1, <2>2, WhoseStep DEF At
    <3>2. local' = [local EXCEPT ![t] = l]
      BY <3>1 DEF Create, l
    <3>. QED  BY <1>5, <1>6, <3>1, <3>2
  <2>. QED  BY <1>1, <2>1, <2>2
<1>8. l # NULL
  BY <1>2, BoundAssumption DEF Links, NULL
<1>9. links'[l] = <<>>
  BY <1>1, <1>2, <1>6
<1>10. Content(t)' = <<>>
  BY <1>7, <1>8, <1>9 DEF Content
<1>11. Link(t) = NULL
  BY <1>1 DEF LinkState, Placed, Fresh
<1>12. Content(t) = <<>>
  BY <1>11 DEF Content
<1>13. Cmds(todo'[t]) = Cmds(todo[t])
  BY <1>1, GoCmds, NothingQueued, EmptyHead
<1>14. Content(t)' \o Cmds(todo'[t]) = Content(t) \o Cmds(todo[t])
  BY <1>10, <1>12, <1>13
<1>15. todo'[t] # <<>> => on'[t] = on[t] /\ about'[t] = about[t]
  BY <1>1, GoCmds
<1>16. \E s \in Working : At(t, s)
  BY <1>1 DEF Working
<1>. QED  BY <1>1, <1>3, <1>7, <1>8, <1>14, <1>15, <1>16, FilledGoes

\* A transfer that lost a command promises nothing.
LEMMA TransferStarves ==
  ASSUME NEW t \in Tasks, CreateFails(t) \/ QueueFails(t), Result(t)
  PROVE  Filled(t)' /\ Result(t)'
<1>1. /\ ran' = ran /\ t \in starved'
      /\ At(t, "create") \/ At(t, "make") \/ At(t, "queue")
  BY DEF CreateFails, QueueFails, Starve
<1>2. ~ran'[t].ok
  BY <1>1, NotRun DEF Ended
<1>. QED  BY <1>1, <1>2, StillToRun DEF Filled

LEMMA TransferQueue ==
  ASSUME Types, Types', LinkState, NEW t \in Tasks, QueueCommands(t), ~Shared(t), Filled(t), Result(t)
  PROVE  Filled(t)' /\ Result(t)'
<1>. DEFINE l == Link(t)
            cmds == Head(todo[t]).cmds
            rest == Cmds(todo'[t])
<1>1. /\ At(t, "queue") /\ todo[t] # <<>> /\ Go(t) /\ CallsOK /\ CallsOK'
      /\ handle' = handle /\ local' = local /\ ran' = ran /\ starved' = starved
      /\ links' = IF l = NULL \/ links[l] = Free THEN links ELSE [links EXCEPT ![l] = links[l] \o cmds]
  BY DEF QueueCommands, Extend, At, Types
<1>2. Result(t)'
  BY <1>1, NotRun, StillToRun DEF Ended
<1>3. todo'[t] # <<>>
  BY <1>1, AfterStep DEF At
<1>4. l = Link(t)'
  <2>1. Link(t)' = IF Kind(t) \in Static THEN handle'[Kind(t)] ELSE local'[t]
    BY <1>1, <1>3, SameKind
  <2>. QED  BY <1>1, <2>1 DEF Link
<1>5. cmds \in Seq(Cmd) /\ CmdsOf(Head(todo[t])) = cmds
  BY <1>1, StepCommands DEF CmdsOf, At
<1>6. /\ Cmds(todo[t]) = cmds \o rest /\ rest \in Seq(Cmd)
      /\ todo'[t] # <<>> => on'[t] = on[t] /\ about'[t] = about[t]
  BY <1>1, <1>5, GoCmds
<1>7. l # NULL => l \in Links /\ links[l] # Free
  BY <1>1, LinkThere
<1>8. links \in [Links -> {Free} \cup Seq(Cmd)]
  BY DEF Types, LinksOK
<1>9. t \notin starved => l # NULL
  BY <1>1 DEF Filled, Working
<1>10. ASSUME t \notin starved
       PROVE  Content(t)' \o rest = Content(t) \o Cmds(todo[t])
  <2>1. l # NULL
    BY <1>9, <1>10
  <2>2. Content(t) = links[l] /\ Content(t)' = links'[l]
    BY <1>4, <2>1 DEF Content
  <2>. HIDE DEF l, cmds, rest
  <2>3. l \in Links /\ links[l] \in Seq(Cmd)
    BY <1>7, <1>8, <2>1
  <2>4. links'[l] = links[l] \o cmds
    BY <1>1, <1>7, <1>8, <2>1
  <2>5. (links[l] \o cmds) \o rest = links[l] \o (cmds \o rest)
    <3>1. \A a, b, c \in Seq(Cmd) : (a \o b) \o c = a \o (b \o c)
      BY ConcatAssociative
    <3>. QED  BY <1>5, <1>6, <2>3, <3>1
  <2>. QED  BY <1>6, <2>2, <2>4, <2>5
<1>. QED  BY <1>1, <1>2, <1>4, <1>6, <1>9, <1>10, FilledGoes DEF Working

\* At the end of a call nothing is left to queue.
LEMMA LastCommands ==
  ASSUME CallsOK, NEW t \in Tasks, At(t, "flush") \/ At(t, "begin")
  PROVE  Cmds(todo[t]) = <<>>
<1>. DEFINE p == todo[t]
<1>1. /\ p # <<>> /\ p \in Seq(Steps) /\ Rest(Kind(t), p) /\ Kind(t) \in Kinds
      /\ At(t, "flush") => Kind(t) \in Static
      /\ At(t, "begin") => Kind(t) \notin Static
  BY WhoseStep DEF CallsOK, At
<1>2. Head(p) = p[1] /\ Len(p) \in Nat \ {0}
  BY <1>1
<1>3. ASSUME NEW n \in 0..Len(p)
      PROVE  /\ Rest(Kind(t), SubSeq(p, n + 1, Len(p))) /\ Len(SubSeq(p, n + 1, Len(p))) = Len(p) - n
             /\ \A i \in 1..(Len(p) - n) : SubSeq(p, n + 1, Len(p))[i] = p[n + i]
  <2>. HIDE DEF p
  <2>. QED  BY <1>1, RestSkips
<1>. DEFINE q == SubSeq(p, 1 + 1, Len(p))
<1>4. /\ Rest(Kind(t), q) /\ Len(q) = Len(p) - 1 /\ q \in Seq(Steps)
      /\ \A i \in 1..(Len(p) - 1) : q[i] = p[1 + i]
  <2>1. 1 \in 0..Len(p)
    BY <1>2
  <2>. QED  BY <1>3, <2>1 DEF Rest
<1>5. CASE At(t, "flush")
  <2>1. Kind(t) \in Static /\ p[1].do = "flush"
    BY <1>1, <1>2, <1>5 DEF At
  <2>. HIDE DEF p, q
  <2>2. p[2].do = "check" /\ Len(p) # 1
    BY <1>1, <2>1, StaticHead
  <2>3. q # <<>> /\ q[1] = p[2]
    BY <1>2, <1>4, <2>2
  <2>4. Len(q) = 3 /\ q[2].do = "delete" /\ q[3].do = "null"
    BY <1>4, <2>1, <2>2, <2>3, StaticHead
  <2>5. Len(p) = 4 /\ p[3].do = "delete" /\ p[4].do = "null"
    <3>1. Len(p) = 4
      <4>1. \A m \in Nat : m - 1 = 3 => m = 4
        OBVIOUS
      <4>2. Len(p) - 1 = 3 /\ Len(p) \in Nat
        BY <1>2, <1>4, <2>4
      <4>. QED  BY <4>1, <4>2
    <3>2. q[2] = p[3] /\ q[3] = p[4]
      BY <1>4, <3>1
    <3>. QED  BY <2>4, <3>1, <3>2
  <2>6. \A i \in 1..Len(p) : p[i].do # "queue"
    BY <2>1, <2>2, <2>5
  <2>7. Cmds(p) = <<>>
    BY <1>1, <2>6, NoCmds
  <2>. QED  BY <2>7 DEF p
<1>6. CASE At(t, "begin")
  <2>1. Kind(t) \in Kinds \ Static /\ p[1].do = "begin"
    BY <1>1, <1>2, <1>6 DEF At
  <2>. HIDE DEF p, q
  <2>2. p[2].do = "drop" /\ Len(p) # 1
    BY <1>1, <2>1, MessageHead
  <2>3. q # <<>> /\ q[1] = p[2]
    BY <1>2, <1>4, <2>2
  <2>4. Len(q) = 1
    BY <1>4, <2>1, <2>2, <2>3, MessageHead
  <2>5. Len(p) = 2
    <3>1. \A m \in Nat : m - 1 = 1 => m = 2
      OBVIOUS
    <3>2. Len(p) - 1 = 1 /\ Len(p) \in Nat
      BY <1>2, <1>4, <2>4
    <3>. QED  BY <3>1, <3>2
  <2>6. \A i \in 1..Len(p) : p[i].do # "queue"
    BY <2>1, <2>2, <2>5
  <2>7. Cmds(p) = <<>>
    BY <1>1, <2>6, NoCmds
  <2>. QED  BY <2>7 DEF p
<1>. QED  BY <1>5, <1>6

LEMMA TransferFlush ==
  ASSUME Types, Types', LinkState, NEW t \in Tasks, Flush(t), Filled(t), Result(t)
  PROVE  Filled(t)' /\ Result(t)'
<1>. DEFINE l == Link(t)
            wire == Run(port.phase, links[l])
            r == [ok |-> TRUE, before |-> port.phase, wire |-> wire]
<1>1. /\ At(t, "flush") \/ At(t, "begin")
      /\ todo[t] # <<>> /\ Go(t) /\ starved' = starved /\ CallsOK /\ CallsOK'
      /\ ran' = [ran EXCEPT ![t] = None] \/ (l # NULL /\ ran' = [ran EXCEPT ![t] = r])
  BY DEF Flush, Begun, At, Types
<1>2. At(t, "check")' \/ At(t, "drop")'
  BY <1>1, AfterStep
<1>3. /\ \A s \in Working : ~At(t, s)'
      /\ \E s \in Ended : At(t, s)'
      /\ todo'[t] # <<>>
  BY <1>2 DEF At, Working, Ended
<1>4. Filled(t)'
  BY <1>3 DEF Filled
<1>5. on'[t] = on[t] /\ about'[t] = about[t]
  BY <1>1, <1>3, GoCmds
<1>6. ran \in [Tasks -> Runs] /\ port.phase \in Phases
  BY DEF Types, RunsOK, DriverOK
<1>7. CASE ran' = [ran EXCEPT ![t] = None]
  BY <1>6, <1>7, StillToRun, <1>4 DEF None
<1>8. CASE l # NULL /\ ran' = [ran EXCEPT ![t] = r]
  <2>1. ran'[t] = r
    BY <1>6, <1>8
  <2>2. ASSUME t \notin starved, port.phase # "held", Sound(about[t])
        PROVE  Kept(t, on[t], about[t], wire)
    <3>1. about[t] \in Transfers /\ Content(t) \o Cmds(todo[t]) = Cmds(Program(t, on[t], about[t]))
      BY <1>1, <2>2 DEF Filled, Working
    <3>2. Content(t) = links[l]
      BY <1>8 DEF Content
    <3>3. links[l] \in Seq(Cmd)
      <4>1. l \in Links /\ links[l] # Free
        BY <1>1, <1>8, LinkThere
      <4>2. links \in [Links -> {Free} \cup Seq(Cmd)]
        BY DEF Types, LinksOK
      <4>. HIDE DEF l
      <4>. QED  BY <4>1, <4>2
    <3>4. links[l] = Cmds(Program(t, on[t], about[t]))
      BY <1>1, <3>1, <3>2, <3>3, LastCommands, EmptyHead
    <3>5. on[t] \in Objects
      BY <1>1, WhoseStep
    <3>6. Kept(t, on[t], about[t], Run(port.phase, Cmds(Program(t, on[t], about[t]))))
      BY <1>6, <2>2, <3>1, <3>5, ProgramDelivers
    <3>. QED  BY <3>4, <3>6
  <2>3. r.before = port.phase /\ r.wire = wire
    OBVIOUS
  <2>. HIDE DEF wire, r
  <2>4. \A w : Kept(t, on'[t], about'[t], w) <=> Kept(t, on[t], about[t], w)
    BY <1>5
  <2>5. /\ \E s \in Ended : At(t, s)'
        /\ t \notin starved' /\ ran'[t].before # "held" /\ Sound(about'[t])
             => Kept(t, on'[t], about'[t], ran'[t].wire)
    BY <1>1, <1>3, <1>5, <2>1, <2>2, <2>3
  <2>6. Result(t)'
    BY <2>5 DEF Result, Kept, Stops
  <2>. QED  BY <1>4, <2>6
<1>. QED  BY <1>1, <1>7, <1>8

\* Where the run is over, what it made of the commands stays until the call ends.
LEMMA ResultStays ==
  ASSUME NEW t, Result(t), NEW s, s \in Ended, At(t, s)', on'[t] = on[t], about'[t] = about[t],
         ran' = ran, starved' = starved
  PROVE  Filled(t)' /\ Result(t)'
<1>1. \A r \in Working : ~At(t, r)'
  BY DEF At, Working, Ended
<1>2. Filled(t)'
  BY <1>1 DEF Filled
<1>. QED  BY <1>2 DEF Result, Kept, Stops

LEMMA TransferEnds ==
  ASSUME Types, Types', NEW t \in Tasks, Check(t) \/ DeleteLink(t) \/ Null(t), Result(t)
  PROVE  Filled(t)' /\ Result(t)'
<1>1. CallsOK /\ CallsOK' /\ todo[t] # <<>> /\ ran \in [Tasks -> Runs]
  BY DEF Check, DeleteLink, Null, At, Types, RunsOK
<1>2. CASE Check(t)
  <2>1. /\ At(t, "check") /\ Skip(t, IF handle[Kind(t)] = NULL THEN 3 ELSE 1)
        /\ ran' = IF handle[Kind(t)] = NULL THEN [ran EXCEPT ![t] = None] ELSE ran
        /\ starved' = IF handle[Kind(t)] = NULL THEN starved \ {t} ELSE starved
    BY <1>2 DEF Check
  <2>2. CASE handle[Kind(t)] # NULL
    <3>1. Go(t) /\ ran' = ran /\ starved' = starved
      BY <2>1, <2>2 DEF Go
    <3>2. At(t, "delete")' /\ todo'[t] # <<>>
      BY <1>1, <2>1, <3>1, AfterStep DEF At
    <3>3. on'[t] = on[t] /\ about'[t] = about[t]
      BY <1>1, <3>1, <3>2, GoCmds
    <3>. QED  BY <3>1, <3>2, <3>3, ResultStays DEF Ended
  <2>3. CASE handle[Kind(t)] = NULL
    <3>1. Skip(t, 3) /\ Len(todo[t]) = 3 /\ todo[t] \in Seq(Steps)
      BY <1>1, <2>1, <2>3, WhoseStep
    <3>2. 3 \in 0..Len(todo[t])
      BY <3>1
    <3>3. todo' = [todo EXCEPT ![t] = SubSeq(todo[t], 3 + 1, Len(todo[t]))]
      BY <1>1, <3>1, <3>2, CallsSkip
    <3>4. todo'[t] = SubSeq(todo[t], 3 + 1, Len(todo[t]))
      BY <1>1, <3>3 DEF CallsOK
    <3>5. SubSeq(todo[t], 3 + 1, Len(todo[t])) = <<>>
      BY <3>1
    <3>6. ran'[t] = None
      BY <1>1, <2>1, <2>3
    <3>7. todo'[t] = <<>>
      BY <3>4, <3>5
    <3>8. ~ran'[t].ok
      BY <3>6 DEF None
    <3>. QED  BY <3>7, <3>8, CallOver
  <2>. QED  BY <2>2, <2>3
<1>3. CASE DeleteLink(t)
  <2>1. Go(t) /\ (At(t, "delete") \/ At(t, "drop"))
    BY <1>3 DEF DeleteLink
  <2>2. CASE At(t, "delete")
    <3>1. ran' = ran /\ starved' = starved
      <4>1. ~At(t, "drop")
        BY <2>2 DEF At
      <4>. QED  BY <1>3, <4>1 DEF DeleteLink
    <3>2. At(t, "null")' /\ todo'[t] # <<>>
      BY <1>1, <2>1, <2>2, AfterStep DEF At
    <3>3. on'[t] = on[t] /\ about'[t] = about[t]
      BY <1>1, <2>1, <3>2, GoCmds
    <3>. QED  BY <3>1, <3>2, <3>3, ResultStays DEF Ended
  <2>3. CASE At(t, "drop")
    <3>1. todo'[t] = <<>> /\ ran' = [ran EXCEPT ![t] = None]
      BY <1>1, <1>3, <2>1, <2>3, AfterStep DEF DeleteLink
    <3>. QED  BY <1>1, <3>1, CallOver DEF None
  <2>. QED  BY <2>1, <2>2, <2>3
<1>4. CASE Null(t)
  <2>1. Go(t) /\ At(t, "null") /\ ran' = [ran EXCEPT ![t] = None]
    BY <1>4 DEF Null
  <2>2. todo'[t] = <<>>
    BY <1>1, <2>1, AfterStep
  <2>. QED  BY <1>1, <2>1, <2>2, CallOver DEF None
<1>. QED  BY <1>2, <1>3, <1>4

LEMMA TransferStep ==
  ASSUME Types, Types', LinkState, TransferState, mixed = {}, NEW t \in Tasks, Step(t), ~Restart
  PROVE  TransferState'
<1>1. todo[t] # <<>>
  BY DEF Step, Install, Forget, Test, Create, CreateFails, QueueCommands, QueueFails, Flush, Check,
         DeleteLink, Null, At
<1>2. \A u \in Tasks : Filled(u) /\ Result(u)
  BY DEF TransferState
<1>3. ASSUME NEW u \in Tasks, u # t
      PROVE  Filled(u)' /\ Result(u)'
  BY <1>1, <1>2, <1>3, StepKeeps, OthersKeep
<1>4. Filled(t)' /\ Result(t)'
  <2>0. Filled(t) /\ Result(t) /\ ~Shared(t)
    BY <1>2 DEF Shared
  <2>1. CASE Install(t) \/ Forget(t)
    BY <2>0, <2>1, TransferBegins
  <2>2. CASE Test(t)
    BY <2>0, <2>2, TransferTest
  <2>3. CASE Create(t)
    BY <2>0, <2>3, TransferCreate
  <2>4. CASE CreateFails(t) \/ QueueFails(t)
    BY <2>0, <2>4, TransferStarves
  <2>5. CASE QueueCommands(t)
    BY <2>0, <2>5, TransferQueue
  <2>6. CASE Flush(t)
    BY <2>0, <2>6, TransferFlush
  <2>7. CASE Check(t) \/ DeleteLink(t) \/ Null(t)
    BY <2>0, <2>7, TransferEnds
  <2>. QED  BY <2>1, <2>2, <2>3, <2>4, <2>5, <2>6, <2>7 DEF Step
<1>. HIDE DEF TransferState, Filled, Result
<1>5. \A u \in Tasks : Filled(u)' /\ Result(u)'
  <2>1. SUFFICES ASSUME NEW u \in Tasks PROVE Filled(u)' /\ Result(u)'
    OBVIOUS
  <2>2. CASE u = t
    BY <1>4, <2>2
  <2>3. CASE u # t
    BY <1>3, <2>3
  <2>. QED  BY <2>2, <2>3
<1>. QED  BY <1>5 DEF TransferState

\* Where a task's call, link and run are what they were, so is what it has queued.
LEMMA TransferStays ==
  ASSUME NEW u, Filled(u), Result(u),
         todo'[u] = todo[u], on'[u] = on[u], about'[u] = about[u], local'[u] = local[u],
         ran'[u] = ran[u], starved' = starved, handle' = handle, links' = links
  PROVE  Filled(u)' /\ Result(u)'
<1>1. \A s : At(u, s)' <=> At(u, s)
  BY DEF At
<1>2. Content(u)' = Content(u) /\ Link(u)' = Link(u)
  BY DEF Content, Link, Kind
<1>3. Result(u)'
  BY <1>1 DEF Result, Kept, Stops
<1>4. Filled(u)'
  <2>1. SUFFICES ASSUME NEW s \in Working, At(u, s)', u \notin starved'
                 PROVE  /\ about'[u] \in Transfers
                        /\ At(u, "queue")' => Link(u)' # NULL
                        /\ Content(u)' \o Cmds(todo'[u]) = Cmds(Program(u, on'[u], about'[u]))
    BY DEF Filled, Program
  <2>2. /\ about[u] \in Transfers
        /\ At(u, "queue") => Link(u) # NULL
        /\ Content(u) \o Cmds(todo[u]) = Cmds(Program(u, on[u], about[u]))
    BY <1>1, <2>1 DEF Filled
  <2>. QED  BY <1>1, <1>2, <2>2
<1>. QED  BY <1>3, <1>4

\* A call that begins has queued nothing, and has all its commands to queue.
LEMMA TransferEnter ==
  ASSUME Types, Types', LinkState, TransferState, NEW t \in Tasks, NEW o \in Objects, Users(o) = {},
         New(t, o) \/ \E ms \in Transfers : transfer(t, o, ms)
  PROVE  TransferState'
<1>1. PICK ms, p :
        /\ ms \in Transfers \cup {<<>>} /\ Enter(t, o, ms, p) /\ Rest(KindOf[o], p)
        /\ \/ p = Construct(KindOf[o])
           \/ ms \in Transfers /\ p = Program(t, o, ms)
  <2>1. CASE New(t, o)
    <3>. DEFINE p == Construct(KindOf[o])
    <3>1. Rest(KindOf[o], p) /\ Enter(t, o, <<>>, p)
      BY <2>1, ConstructProgram, KindAssumption DEF New
    <3>. QED  BY <3>1
  <2>2. CASE \E ms \in Transfers : transfer(t, o, ms)
    <3>1. PICK ms \in Transfers : transfer(t, o, ms)
      BY <2>2
    <3>. DEFINE p == Program(t, o, ms)
    <3>2. Rest(KindOf[o], p) /\ Enter(t, o, ms, p)
      BY <3>1, TransferProgram DEF transfer, Program
    <3>. QED  BY <3>2
  <2>. QED  BY <2>1, <2>2
<1>2. /\ local' = local /\ ran' = ran /\ handle' = handle /\ links' = links /\ starved' = starved
      /\ todo[t] = <<>>
  BY DEF New, transfer, Enter, idf
<1>3. /\ \A u \in Tasks : u # t => todo'[u] = todo[u] /\ on'[u] = on[u]
      /\ todo'[t] = p /\ on'[t] = o /\ about'[t] = ms
  BY <1>1, CallsEnter
<1>4. \A u \in Tasks : u # t => about'[u] = about[u]
  BY <1>1 DEF Enter, Types, CallsOK
<1>5. \A u \in Tasks : Filled(u) /\ Result(u)
  BY DEF TransferState
<1>6. ASSUME NEW u \in Tasks, u # t
      PROVE  Filled(u)' /\ Result(u)'
  BY <1>2, <1>3, <1>4, <1>5, <1>6, TransferStays
<1>7. Result(t)'
  <2>1. ~ran[t].ok
    BY <1>2, <1>5 DEF Result, At
  <2>. QED  BY <1>2, <2>1, StillToRun
<1>8. Filled(t)'
  <2>1. CASE p = Construct(KindOf[o])
    <3>1. p[1].do = "install" /\ Head(p) = p[1]
      BY <2>1, ConstructProgram, KindAssumption DEF Construct
    <3>. QED  BY <1>3, <3>1 DEF Filled, At, Working
  <2>2. CASE ms \in Transfers /\ p = Program(t, o, ms)
    <3>1. Link(t)' = NULL
      <4>1. KindOf[o] \in Static => handle[KindOf[o]] = NULL
        <5>1. \A u \in Tasks : todo[u] # <<>> /\ KindOf[o] \in Static => Kind(u) # KindOf[o]
          BY DEF Users
        <5>. QED  BY <5>1 DEF LinkState, Forgotten
      <4>2. local[t] = NULL
        BY <1>2 DEF LinkState, Forgotten
      <4>. QED  BY <1>2, <1>3, <4>1, <4>2 DEF Link, Kind
    <3>2. Content(t)' = <<>>
      BY <3>1 DEF Content
    <3>3. Cmds(p) \in Seq(Cmd)
      BY <1>1, CmdsType DEF Rest
    <3>4. <<>> \o Cmds(p) = Cmds(p)
      BY <3>3, EmptyHead
    <3>5. ~At(t, "queue")'
      <4>1. KindOf[o] \in Kinds /\ ms \in Seq(Message)
        BY <2>2, KindAssumption, TransferAssumption
      <4>2. p # <<>>
        BY <2>2, TransferProgram
      <4>3. KindOf[o] \in Static => p[1].do \in {"test", "flush"}
        BY <2>2, <4>1, TransferProgram, StaticProgram
      <4>4. KindOf[o] \notin Static => p[1].do = "make"
        BY <2>2, <4>1, TransferProgram, MessageProgram
      <4>5. Head(p) = p[1]
        BY <1>1, <4>1, <4>2, StaticHead, MessageHead
      <4>. QED  BY <1>3, <4>3, <4>4, <4>5 DEF At
    <3>6. Content(t)' \o Cmds(todo'[t]) = Cmds(Program(t, on'[t], about'[t]))
      BY <1>3, <2>2, <3>2, <3>4
    <3>. QED  BY <1>3, <2>2, <3>5, <3>6 DEF Filled, Program
  <2>. QED  BY <1>1, <2>1, <2>2
<1>9. \A u \in Tasks : Filled(u)' /\ Result(u)'
  <2>1. SUFFICES ASSUME NEW u \in Tasks PROVE Filled(u)' /\ Result(u)'
    OBVIOUS
  <2>2. CASE u = t
    BY <1>7, <1>8, <2>2
  <2>3. CASE u # t
    BY <1>6, <2>3
  <2>. QED  BY <2>2, <2>3
<1>. QED  BY <1>9 DEF TransferState

LEMMA TransferUnchanged ==
  ASSUME TransferState, todo' = todo, on' = on, about' = about, local' = local,
         ran' = ran, starved' = starved, handle' = handle, links' = links
  PROVE  TransferState'
<1>1. \A u \in Tasks : Filled(u) /\ Result(u)
  BY DEF TransferState
<1>2. ASSUME NEW u \in Tasks PROVE Filled(u)' /\ Result(u)'
  BY <1>1, TransferStays
<1>. QED  BY <1>2 DEF TransferState

\* Where no call is under way nothing is queued and nothing has run.
LEMMA TransferOff ==
  ASSUME todo = Off.todo, ran = Off.ran
  PROVE  TransferState
<1>1. \A t \in Tasks : todo[t] = <<>> /\ ~ran[t].ok
  BY OffTypes DEF None
<1>. QED  BY <1>1 DEF TransferState, Filled, Result, At

LEMMA TransferRestart ==
  ASSUME Restart
  PROVE  TransferState'
<1>1. \A t \in Tasks : todo'[t] = <<>> /\ ~ran'[t].ok
  BY OffTypes DEF Restart, None
<1>2. ASSUME NEW t \in Tasks PROVE Filled(t)' /\ Result(t)'
  BY <1>1, CallOver
<1>. QED  BY <1>2 DEF TransferState

LEMMA TransferNext ==
  ASSUME Types, Types', LinkInv, TransferInv, [Next]_vars
  PROVE  TransferInv'
<1>. SUFFICES ASSUME mixed' = {} PROVE TransferState'
  BY DEF TransferInv
<1>1. CASE UNCHANGED vars
  <2>1. /\ todo' = todo /\ on' = on /\ about' = about /\ local' = local /\ ran' = ran
        /\ starved' = starved /\ handle' = handle /\ links' = links /\ mixed' = mixed
    BY <1>1 DEF vars, frame, idf, seen
  <2>. QED  BY <2>1, TransferUnchanged DEF TransferInv
<1>2. CASE Restart
  BY <1>2, TransferRestart
<1>3. ASSUME NEW t \in Tasks, Step(t), ~Restart, mixed' = mixed
      PROVE  TransferState'
  BY <1>3, TransferStep DEF LinkInv, TransferInv
<1>4. ASSUME NEW t \in Tasks, NEW o \in Objects, New(t, o) \/ \E ms \in Transfers : transfer(t, o, ms),
             mixed' = {} => mixed = {} /\ Users(o) = {}
      PROVE  TransferState'
  BY <1>4, TransferEnter DEF LinkInv, TransferInv
<1>5. ASSUME NEW t \in Tasks, NEW o \in Objects, NEW other \in Objects, mixed' = mixed,
             MoveConstruct(t, o, other) \/ MoveAssign(t, o, other) \/ Delete(t, o)
      PROVE  TransferState'
  <2>1. /\ todo' = todo /\ on' = on /\ about' = about /\ local' = local /\ ran' = ran
        /\ starved' = starved /\ handle' = handle /\ links' = links
    BY <1>5 DEF MoveConstruct, MoveAssign, Delete, frame, idf
  <2>. QED  BY <1>5, <2>1, TransferUnchanged DEF TransferInv
<1>6. CASE Next
  BY <1>2, <1>3, <1>4, <1>5, <1>6, MixedStays
<1>. QED  BY <1>1, <1>6

LEMMA TransferInit == Init => TransferInv
  BY TransferOff DEF Init, TransferInv

LEMMA TransferInvIs == TransferInv => Delivered
<1>. SUFFICES ASSUME TransferInv, mixed = {}, NEW t \in Tasks, ran[t].ok, ran[t].before # "held",
                     t \notin starved, Sound(about[t])
              PROVE  LET ms == about[t]
                         stops == ms # <<>> /\ (~ms[Len(ms)].repstart \/ (Kind(t) = "message" /\ Len(ms) = 1))
                     IN  /\ ran[t].wire.legal
                         /\ ran[t].wire.moved = Payload(t, ms)
                         /\ stops => ran[t].wire.phase = "idle"
  BY DEF Delivered
<1>1. Kept(t, on[t], about[t], ran[t].wire)
  BY DEF TransferInv, TransferState, Result
<1>. QED  BY <1>1 DEF Kept, Stops, Kind

\* A transfer that succeeds has moved every byte of its messages once and in order, by the
\* rules of the bus, and has left it stopped where its last message asks for that: whatever
\* other tasks did with other objects in the meantime (the same lines).
THEOREM I2cDelivered == Spec => []Delivered
  BY TypesInit, TypesNext, LinkInit, LinkNext, TransferInit, TransferNext, TransferInvIs, PTL DEF Spec
=============================================================================
