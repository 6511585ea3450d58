---------------------------- MODULE SpiHalProofs ----------------------------
(***************************************************************************)
(* Theorems about SpiHal, for any tasks, any calls, and any number of      *)
(* exchanges: as long as a start-up order keeps two calls of spiStartBus   *)
(* apart (SerialStart), the lock it creates protects the controller.       *)
(***************************************************************************)
EXTENDS SpiHal, FiniteSetTheorems, SequenceTheorems, TLAPS

-----------------------------------------------------------------------------
(* The lock along a program.                                               *)

\* Past the end of a call the lock is not held.
LEMMA HeldAtEnd ==
  ASSUME NEW p \in Seq(Op) PROVE ~HeldAt(p, Len(p) + 1)
  BY DEF HeldAt

\* A step that neither takes nor gives the lock leaves it held or free.
LEMMA HeldAtStep ==
  ASSUME NEW p \in Seq(Op), NEW i \in 1..Len(p), p[i].op \notin {"take", "give"}
  PROVE  HeldAt(p, i) <=> HeldAt(p, i + 1)
<1>1. ASSUME HeldAt(p, i) PROVE HeldAt(p, i + 1)
  <2>1. PICK j \in i..Len(p) : p[j].op = "give" /\ \A k \in i..(j - 1) : p[k].op # "take"
    BY <1>1 DEF HeldAt
  <2>2. j # i
    BY <2>1
  <2>3. j \in (i + 1)..Len(p) /\ \A k \in (i + 1)..(j - 1) : p[k].op # "take"
    BY <2>1, <2>2
  <2> QED BY <2>1, <2>3 DEF HeldAt
<1>2. ASSUME HeldAt(p, i + 1) PROVE HeldAt(p, i)
  <2>1. PICK j \in (i + 1)..Len(p) :
          p[j].op = "give" /\ \A k \in (i + 1)..(j - 1) : p[k].op # "take"
    BY <1>2 DEF HeldAt
  <2>2. j \in i..Len(p) /\ \A k \in i..(j - 1) : p[k].op # "take"
    BY <2>1
  <2> QED BY <2>1, <2>2 DEF HeldAt
<1> QED BY <1>1, <1>2

\* The lock is free before a step that takes it and held before one that gives it.
LEMMA HeldAtTakeGive ==
  ASSUME NEW p \in Seq(Op), NEW i \in 1..Len(p)
  PROVE  /\ p[i].op = "give" => HeldAt(p, i)
         /\ p[i].op = "take" => ~HeldAt(p, i)
<1>1. ASSUME p[i].op = "give" PROVE HeldAt(p, i)
  <2>1. i \in i..Len(p) /\ \A k \in i..(i - 1) : p[k].op # "take"
    OBVIOUS
  <2> QED BY <1>1, <2>1 DEF HeldAt
<1>2. ASSUME p[i].op = "take", HeldAt(p, i) PROVE FALSE
  <2>1. PICK j \in i..Len(p) : p[j].op = "give" /\ \A k \in i..(j - 1) : p[k].op # "take"
    BY <1>2 DEF HeldAt
  <2>2. CASE j = i
    BY <2>1, <2>2, <1>2
  <2>3. CASE j # i
    <3>1. i \in i..(j - 1)
      BY <2>3
    <3> QED BY <2>1, <3>1, <1>2
  <2> QED BY <2>2, <2>3
<1> QED BY <1>1, <1>2

-----------------------------------------------------------------------------
(* The programs of the driver are well formed.                             *)

WellFormedCalls ==
  /\ \A p \in Starts : WellFormed(p) /\ p[1].op = "test"
  /\ \A t \in Tasks : \A p \in Calls[t] : WellFormed(p) /\ p[1].op # "test"

\* A part of a call, other than the test and creation of the lock, that takes
\* and gives the lock in turn and begins and ends without it.
SoundAt(p, i) ==
  /\ p[i].op \notin {"test", "create"}
  /\ p[i].op \in Access => HeldAt(p, i)
  /\ p[i].op = "take"   => HeldAt(p, i + 1)
  /\ p[i].op = "give"   => ~HeldAt(p, i + 1)
  /\ p[i].op = "take"   => i > 1 /\ p[i-1].op = "ref"
  /\ p[i].op = "kick"   => i > 1 /\ p[i-1].op = "load" /\ i < Len(p) /\ p[i+1].op = "wait"
  /\ p[i].op = "wait"   => i > 1 /\ p[i-1].op = "kick"
  /\ p[i].op = "fetch"  => i > 1 /\ p[i-1].op = "wait"

Segment(p) == p \in Seq(Op) /\ ~HeldAt(p, 1) /\ \A i \in 1..Len(p) : SoundAt(p, i)

\* The steps of one sequence after another.
LEMMA Concat ==
  ASSUME NEW p \in Seq(Op), NEW q \in Seq(Op)
  PROVE  /\ p \o q \in Seq(Op) /\ Len(p \o q) = Len(p) + Len(q)
         /\ \A i \in 1..Len(p) : (p \o q)[i] = p[i]
         /\ \A i \in 1..Len(q) : (p \o q)[Len(p) + i] = q[i]
<1> DEFINE r == p \o q
<1>1. /\ r \in Seq(Op) /\ Len(r) = Len(p) + Len(q) /\ Len(p) \in Nat /\ Len(q) \in Nat
      /\ \A i \in 1..(Len(p) + Len(q)) : r[i] = IF i <= Len(p) THEN p[i] ELSE q[i - Len(p)]
  BY ConcatProperties
<1> HIDE DEF r
<1>2. \A i \in 1..Len(p) : r[i] = p[i]
  BY <1>1
<1>3. \A i \in 1..Len(q) : r[Len(p) + i] = q[i]
  <2>1. ASSUME NEW i \in 1..Len(q) PROVE r[Len(p) + i] = q[i]
    <3>1. Len(p) + i \in 1..(Len(p) + Len(q)) /\ ~(Len(p) + i <= Len(p)) /\ (Len(p) + i) - Len(p) = i
      BY <1>1
    <3> QED BY <1>1, <3>1
  <2> QED BY <2>1
<1> QED BY <1>1, <1>2, <1>3 DEF r

\* The lock along the first and the second part of a call.
LEMMA HeldAtConcat ==
  ASSUME NEW p \in Seq(Op), NEW q \in Seq(Op), ~HeldAt(q, 1)
  PROVE  /\ \A i \in 1..(Len(p) + 1) : HeldAt(p \o q, i) <=> HeldAt(p, i)
         /\ \A i \in 1..(Len(q) + 1) : HeldAt(p \o q, Len(p) + i) <=> HeldAt(q, i)
<1> DEFINE r == p \o q
<1>1. /\ r \in Seq(Op) /\ Len(r) = Len(p) + Len(q) /\ Len(p) \in Nat /\ Len(q) \in Nat
      /\ \A i \in 1..Len(p) : r[i] = p[i]
      /\ \A i \in 1..Len(q) : r[Len(p) + i] = q[i]
  BY Concat
<1> HIDE DEF r
<1>2. ASSUME NEW i \in 1..(Len(p) + 1), HeldAt(p, i) PROVE HeldAt(r, i)
  <2>1. PICK j \in i..Len(p) : p[j].op = "give" /\ \A k \in i..(j - 1) : p[k].op # "take"
    BY <1>2 DEF HeldAt
  <2>2. i \in Nat /\ i >= 1 /\ j \in 1..Len(p) /\ j \in i..Len(r)
    BY <1>1, <2>1
  <2>3. r[j].op = "give"
    BY <1>1, <2>1, <2>2
  <2>4. ASSUME NEW k \in i..(j - 1) PROVE r[k].op # "take"
    <3>1. k \in 1..Len(p)
      BY <1>1, <2>2
    <3> QED BY <1>1, <2>1, <3>1
  <2> QED BY <2>2, <2>3, <2>4 DEF HeldAt
<1>3. ASSUME NEW i \in 1..(Len(p) + 1), HeldAt(r, i) PROVE HeldAt(p, i)
  <2>1. PICK j \in i..Len(r) : r[j].op = "give" /\ \A k \in i..(j - 1) : r[k].op # "take"
    BY <1>3 DEF HeldAt
  <2>2. CASE j <= Len(p)
    <3>1. j \in i..Len(p) /\ p[j].op = "give"
      BY <1>1, <2>1, <2>2
    <3>2. ASSUME NEW k \in i..(j - 1) PROVE p[k].op # "take"
      <4>1. k \in 1..Len(p)
        BY <1>1, <2>1, <2>2
      <4> QED BY <1>1, <2>1, <4>1
    <3> QED BY <3>1, <3>2 DEF HeldAt
  <2>3. CASE j > Len(p)
    <3> DEFINE n == j - Len(p)
    <3>1. n \in 1..Len(q) /\ j = Len(p) + n
      BY <1>1, <2>1, <2>3
    <3>2. q[n].op = "give"
      BY <1>1, <2>1, <3>1
    <3>3. ASSUME NEW k \in 1..(n - 1) PROVE q[k].op # "take"
      <4>1. Len(p) + k \in i..(j - 1) /\ k \in 1..Len(q)
        <5>1. j = Len(p) + n /\ n \in 1..Len(q) /\ k \in 1..(n - 1) /\ i <= Len(p) + 1 /\ i \in Nat
          BY <3>1
        <5> HIDE DEF n
        <5> QED BY <1>1, <5>1
      <4> QED BY <1>1, <2>1, <4>1
    <3>4. HeldAt(q, 1)
      BY <3>1, <3>2, <3>3 DEF HeldAt
    <3> QED BY <3>4
  <2> QED BY <1>1, <2>1, <2>2, <2>3
<1>4. ASSUME NEW i \in 1..(Len(q) + 1), HeldAt(q, i) PROVE HeldAt(r, Len(p) + i)
  <2>1. PICK j \in i..Len(q) : q[j].op = "give" /\ \A k \in i..(j - 1) : q[k].op # "take"
    BY <1>4 DEF HeldAt
  <2>2. Len(p) + j \in (Len(p) + i)..Len(r) /\ r[Len(p) + j].op = "give"
    BY <1>1, <2>1
  <2>3. ASSUME NEW k \in (Len(p) + i)..(Len(p) + j - 1) PROVE r[k].op # "take"
    <3>1. k - Len(p) \in i..(j - 1) /\ k - Len(p) \in 1..Len(q) /\ k = Len(p) + (k - Len(p))
      BY <1>1, <2>1
    <3> QED BY <1>1, <2>1, <3>1
  <2> QED BY <2>2, <2>3, SMTT(30) DEF HeldAt
<1>5. ASSUME NEW i \in 1..(Len(q) + 1), HeldAt(r, Len(p) + i) PROVE HeldAt(q, i)
  <2>1. PICK j \in (Len(p) + i)..Len(r) :
          r[j].op = "give" /\ \A k \in (Len(p) + i)..(j - 1) : r[k].op # "take"
    BY <1>5 DEF HeldAt
  <2>2. j - Len(p) \in i..Len(q) /\ j - Len(p) \in 1..Len(q) /\ j = Len(p) + (j - Len(p))
    BY <1>1, <2>1
  <2>3. q[j - Len(p)].op = "give"
    BY <1>1, <2>1, <2>2
  <2>4. ASSUME NEW k \in i..(j - Len(p) - 1) PROVE q[k].op # "take"
    <3>1. Len(p) + k \in (Len(p) + i)..(j - 1) /\ k \in 1..Len(q)
      BY <1>1, <2>1, <2>2
    <3> QED BY <1>1, <2>1, <3>1
  <2> QED BY <2>2, <2>3, <2>4 DEF HeldAt
<1> QED BY <1>2, <1>3, <1>4, <1>5 DEF r

\* What holds of a step in a part of a call holds of it after another part.
LEMMA SoundShift ==
  ASSUME NEW p \in Seq(Op), NEW q, Segment(q), NEW i \in 1..Len(q)
  PROVE  SoundAt(p \o q, Len(p) + i)
<1> DEFINE r == p \o q
           m == Len(p)
           n == Len(q)
           k == m + i
<1>1. q \in Seq(Op) /\ m \in Nat /\ n \in Nat /\ ~HeldAt(q, 1) /\ SoundAt(q, i) /\ n = Len(q)
  BY DEF Segment
<1>2. /\ r \in Seq(Op) /\ Len(r) = m + n
      /\ \A j \in 1..n : r[m + j] = q[j]
      /\ \A j \in 1..(n + 1) : HeldAt(r, m + j) <=> HeldAt(q, j)
  BY <1>1, Concat, HeldAtConcat
<1>3. k = m + i /\ i \in 1..n
  OBVIOUS
<1> HIDE DEF r, m, n, k
<1>4. r[k] = q[i] /\ (HeldAt(r, k) <=> HeldAt(q, i)) /\ k \in Nat
  BY <1>1, <1>2, <1>3
<1>5. HeldAt(r, k + 1) <=> HeldAt(q, i + 1)
  <2>1. i + 1 \in 1..(n + 1) /\ m + (i + 1) = k + 1
    BY <1>1, <1>3
  <2> QED BY <1>2, <2>1
<1>6. i > 1 => k > 1 /\ r[k-1] = q[i-1]
  <2>1. i > 1 => i - 1 \in 1..n /\ m + (i - 1) = k - 1 /\ k > 1
    BY <1>1, <1>3
  <2> QED BY <1>2, <2>1
<1>7. i < n => k < Len(r) /\ r[k+1] = q[i+1]
  <2>1. i < n => i + 1 \in 1..n /\ m + (i + 1) = k + 1 /\ k < m + n
    BY <1>1, <1>3
  <2> QED BY <1>2, <2>1
<1>8. SoundAt(r, k)
  BY <1>1, <1>4, <1>5, <1>6, <1>7 DEF SoundAt
<1> QED BY <1>8 DEF r, k, m

\* Two parts of a call, one after the other, are a part of a call.
LEMMA SegmentConcat == ASSUME NEW p, NEW q, Segment(p), Segment(q) PROVE Segment(p \o q)
<1> DEFINE r == p \o q
           m == Len(p)
           n == Len(q)
<1>1. /\ p \in Seq(Op) /\ q \in Seq(Op) /\ m \in Nat /\ n \in Nat
      /\ ~HeldAt(p, 1) /\ ~HeldAt(q, 1)
  BY DEF Segment
<1>2. /\ r \in Seq(Op) /\ Len(r) = m + n
      /\ \A i \in 1..m : r[i] = p[i]
      /\ \A i \in 1..(m + 1) : HeldAt(r, i) <=> HeldAt(p, i)
  BY <1>1, Concat, HeldAtConcat
<1>3. /\ \A i \in 1..m : SoundAt(p, i)
      /\ \A i \in 1..n : SoundAt(r, m + i)
      /\ m = Len(p)
  BY <1>1, SoundShift DEF Segment
<1> HIDE DEF r, m, n
<1>4. ASSUME NEW i \in 1..m PROVE SoundAt(r, i)
  <2>1. r[i] = p[i] /\ (HeldAt(r, i) <=> HeldAt(p, i)) /\ (HeldAt(r, i + 1) <=> HeldAt(p, i + 1))
    BY <1>1, <1>2
  <2>2. /\ i > 1 => r[i-1] = p[i-1]
        /\ i < m => r[i+1] = p[i+1] /\ i < Len(r)
    BY <1>1, <1>2, SMTT(30)
  <2>3. SoundAt(p, i)
    BY <1>3
  <2> QED BY <1>3, <2>1, <2>2, <2>3 DEF SoundAt
<1>5. ASSUME NEW i \in 1..Len(r) PROVE SoundAt(r, i)
  <2>1. CASE i <= m
    BY <1>1, <1>2, <1>4, <2>1
  <2>2. CASE i > m
    <3>1. i - m \in 1..n /\ i = m + (i - m)
      BY <1>1, <1>2, <2>2
    <3> QED BY <1>3, <3>1
  <2> QED BY <1>1, <1>2, <2>1, <2>2
<1>6. ~HeldAt(r, 1)
  BY <1>1, <1>2
<1> QED BY <1>2, <1>5, <1>6 DEF Segment, r

\* The steps of a driver program are steps.
LEMMA DoIsOp ==
  /\ \A name \in OpNames : Do(name) \in Op /\ Do(name).op = name
  /\ \A regs \in SUBSET CfgRegs : \A v \in Nat : Write(regs, v) \in Op /\ Write(regs, v).op = "write"
  BY DEF Do, Write, Op, OpNames

\* One step that has nothing to do with the lock or the controller.
LEMMA SingleSegment ==
  ASSUME NEW name \in {"open", "poll", "swapTx", "swapRx"} PROVE Segment(<<Do(name)>>)
<1>1. Do(name) \in Op /\ Do(name).op = name
  BY DoIsOp DEF OpNames
<1>2. <<Do(name)>> \in Seq(Op) /\ Len(<<Do(name)>>) = 1 /\ <<Do(name)>>[1].op = name
  BY <1>1
<1>3. ~HeldAt(<<Do(name)>>, 1)
  BY <1>2 DEF HeldAt
<1> QED BY <1>2, <1>3 DEF Segment, SoundAt, Access

\* A body of steps between taking and giving the lock.
LEMMA LockedSegment == ASSUME NEW b, Unlocked(b) PROVE Segment(Locked(b)) /\ Len(Locked(b)) > 2
<1> DEFINE n == Len(b)
           r == Locked(b)
<1>1. b \in Seq(Op) /\ n \in Nat
  BY DEF Unlocked
<1>2. /\ Lock \in Seq(Op) /\ Len(Lock) = 2 /\ Lock[1].op = "ref" /\ Lock[2].op = "take"
      /\ Unlock \in Seq(Op) /\ Len(Unlock) = 1 /\ Unlock[1].op = "give"
  BY DoIsOp DEF Lock, Unlock, OpNames
<1>3. /\ r \in Seq(Op) /\ Len(r) = n + 3
      /\ r[1].op = "ref" /\ r[2].op = "take" /\ r[n + 3].op = "give"
      /\ \A i \in 1..n : r[2 + i] = b[i]
  <2> DEFINE l == Lock \o b
  <2>1. /\ l \in Seq(Op) /\ Len(l) = 2 + n
        /\ \A i \in 1..2 : l[i] = Lock[i]
        /\ \A i \in 1..n : l[2 + i] = b[i]
    <3>1. /\ Lock \o b \in Seq(Op) /\ Len(Lock \o b) = Len(Lock) + Len(b)
          /\ \A i \in 1..Len(Lock) : (Lock \o b)[i] = Lock[i]
          /\ \A i \in 1..Len(b) : (Lock \o b)[Len(Lock) + i] = b[i]
      BY <1>1, <1>2, Concat, Zenon
    <3> HIDE DEF l, n
    <3> QED BY <1>2, <3>1 DEF l, n
  <2> HIDE DEF l, n
  <2>2. /\ l \o Unlock \in Seq(Op) /\ Len(l \o Unlock) = Len(l) + 1
        /\ \A i \in 1..Len(l) : (l \o Unlock)[i] = l[i]
        /\ \A i \in 1..1 : (l \o Unlock)[Len(l) + i] = Unlock[i]
    <3>1. /\ l \o Unlock \in Seq(Op) /\ Len(l \o Unlock) = Len(l) + Len(Unlock)
          /\ \A i \in 1..Len(l) : (l \o Unlock)[i] = l[i]
          /\ \A i \in 1..Len(Unlock) : (l \o Unlock)[Len(l) + i] = Unlock[i]
      BY <1>2, <2>1, Concat, Zenon
    <3> QED BY <1>2, <3>1
  <2>3. r = l \o Unlock
    BY DEF Locked, l
  <2>4. /\ r \in Seq(Op) /\ Len(r) = n + 3
        /\ \A i \in 1..(2 + n) : r[i] = l[i]
        /\ r[n + 3] = Unlock[1]
    BY <1>1, <2>1, <2>2, <2>3
  <2>5. ASSUME NEW i \in 1..n PROVE r[2 + i] = b[i]
    <3>1. 2 + i \in 1..(2 + n)
      BY <1>1
    <3> QED BY <2>1, <2>4, <3>1
  <2>6. r[1] = Lock[1] /\ r[2] = Lock[2]
    BY <1>1, <2>1, <2>4
  <2> QED BY <1>2, <2>4, <2>5, <2>6
<1> HIDE DEF r, n
<1>4. \A i \in 3..(n + 2) : r[i] = b[i - 2] /\ r[i].op \notin {"take", "give", "ref", "test", "create"}
  <2> SUFFICES ASSUME NEW i \in 3..(n + 2)
               PROVE  r[i] = b[i - 2] /\ r[i].op \notin {"take", "give", "ref", "test", "create"}
    OBVIOUS
  <2>1. i - 2 \in 1..n /\ 2 + (i - 2) = i
    BY <1>1
  <2>2. r[i] = b[i - 2]
    BY <1>3, <2>1
  <2> QED BY <2>1, <2>2 DEF Unlocked, n
<1>5. \A i \in 3..(n + 3) : HeldAt(r, i)
  <2>1. ASSUME NEW i \in 3..(n + 3) PROVE HeldAt(r, i)
    <3> DEFINE e == n + 3
    <3>1. e \in i..Len(r) /\ r[e].op = "give"
      BY <1>1, <1>3
    <3>2. \A k \in i..(e - 1) : r[k].op # "take"
      <4>1. n \in Nat /\ i \in 3..(n + 3)
        BY <1>1
      <4>2. ASSUME NEW k \in i..(e - 1) PROVE r[k].op # "take"
        <5>1. k \in 3..(n + 2)
          BY <4>1
        <5>2. r[k].op \notin {"take", "give", "ref", "test", "create"}
          BY <1>4, <5>1, Zenon
        <5> QED BY <5>2
      <4> QED BY <4>2, Zenon
    <3> HIDE DEF e
    <3> QED BY <3>1, <3>2, Zenon DEF HeldAt
  <2> QED BY <2>1
<1>6. ~HeldAt(r, 1) /\ ~HeldAt(r, n + 4)
  <2>1. ~HeldAt(r, n + 4)
    BY <1>1, <1>3 DEF HeldAt
  <2>2. ASSUME HeldAt(r, 1) PROVE FALSE
    <3>1. PICK j \in 1..Len(r) : r[j].op = "give" /\ \A k \in 1..(j - 1) : r[k].op # "take"
      BY <2>2 DEF HeldAt
    <3>2. j # 1 /\ j # 2
      BY <1>3, <3>1
    <3>3. 2 \in 1..(j - 1)
      BY <1>1, <1>3, <3>1, <3>2
    <3> QED BY <1>3, <3>1, <3>3
  <2> QED BY <2>1, <2>2
<1>7. ASSUME NEW i \in 1..Len(r) PROVE SoundAt(r, i)
  <2>1. CASE i = 1
    BY <1>3, <2>1 DEF Access, SoundAt
  <2>2. CASE i = 2
    BY <1>1, <1>3, <1>5, <2>2 DEF Access, SoundAt
  <2>3. CASE i = n + 3
    <3>1. r[i].op = "give" /\ i + 1 = n + 4
      BY <1>1, <1>3, <2>3
    <3> QED BY <1>6, <3>1 DEF Access, SoundAt
  <2>4. CASE i \in 3..(n + 2)
    <3>1. i - 2 \in 1..n /\ r[i] = b[i - 2] /\ HeldAt(r, i)
      BY <1>1, <1>4, <1>5, <2>4
    <3>2. /\ i - 2 > 1 => i > 1 /\ r[i-1] = b[i - 2 - 1]
          /\ i - 2 < n => i < Len(r) /\ r[i+1] = b[i - 2 + 1]
      <4>1. /\ i - 2 > 1 => i > 1 /\ i - 1 \in 3..(n + 2) /\ (i - 1) - 2 = i - 2 - 1
            /\ i - 2 < n => i < n + 3 /\ i + 1 \in 3..(n + 2) /\ (i + 1) - 2 = i - 2 + 1
        BY <1>1, <2>4
      <4>2. Len(r) = n + 3
        BY <1>3
      <4>3. CASE i - 2 > 1
        <5>1. r[i-1] = b[(i - 1) - 2]
          BY <1>4, <4>1, <4>3
        <5> QED BY <4>1, <4>2, <4>3, <5>1, <1>4
      <4>4. CASE ~(i - 2 > 1)
        BY <1>4, <4>1, <4>2, <4>4
      <4> QED BY <4>3, <4>4
    <3>3. r[i].op \notin {"take", "give", "test", "create"}
      BY <1>4, <2>4
    <3>4. /\ b[i-2].op = "kick"  => i - 2 > 1 /\ b[i-2-1].op = "load" /\ i - 2 < n /\ b[i-2+1].op = "wait"
          /\ b[i-2].op = "wait"  => i - 2 > 1 /\ b[i-2-1].op = "kick"
          /\ b[i-2].op = "fetch" => i - 2 > 1 /\ b[i-2-1].op = "wait"
      BY <3>1 DEF Unlocked, n
    <3> QED BY <3>1, <3>2, <3>3, <3>4 DEF SoundAt
  <2> QED BY <1>1, <1>3, <2>1, <2>2, <2>3, <2>4
<1>8. Len(r) > 2
  BY <1>1, <1>3
<1> QED BY <1>3, <1>6, <1>7, <1>8 DEF Segment, r

\* The condition Unlocked puts on a step.
UnlockedAt(b, i) ==
  /\ b[i].op \in {"write", "clear", "load", "kick", "wait", "fetch", "swapTx", "swapRx"}
  /\ b[i].op = "kick"   => i > 1 /\ b[i-1].op = "load" /\ i < Len(b) /\ b[i+1].op = "wait"
  /\ b[i].op = "wait"   => i > 1 /\ b[i-1].op = "kick"
  /\ b[i].op = "fetch"  => i > 1 /\ b[i-1].op = "wait"

\* Two unlocked bodies, one after the other, are an unlocked body.
LEMMA UnlockedConcat == ASSUME NEW p, NEW q, Unlocked(p), Unlocked(q) PROVE Unlocked(p \o q)
<1> DEFINE r == p \o q
           m == Len(p)
           n == Len(q)
<1>1. p \in Seq(Op) /\ q \in Seq(Op) /\ m \in Nat /\ n \in Nat
  BY DEF Unlocked
<1>2. /\ r \in Seq(Op) /\ Len(r) = m + n
      /\ \A i \in 1..m : r[i] = p[i]
      /\ \A i \in 1..n : r[m + i] = q[i]
  BY <1>1, Concat
<1>3. /\ \A i \in 1..m : UnlockedAt(p, i)
      /\ \A i \in 1..n : UnlockedAt(q, i)
      /\ m = Len(p) /\ n = Len(q)
  BY DEF Unlocked, UnlockedAt
<1> HIDE DEF r, m, n
<1>4. ASSUME NEW i \in 1..m PROVE UnlockedAt(r, i)
  <2>1. /\ r[i] = p[i]
        /\ i > 1 => r[i-1] = p[i-1]
        /\ i < m => r[i+1] = p[i+1] /\ i < Len(r)
    <3>1. i > 1 => i - 1 \in 1..m
      BY <1>1
    <3>2. i < m => i + 1 \in 1..m /\ i < m + n
      BY <1>1
    <3> QED BY <1>2, <3>1, <3>2
  <2>2. UnlockedAt(p, i)
    BY <1>3
  <2> QED BY <1>3, <2>1, <2>2 DEF UnlockedAt
<1>5. ASSUME NEW i \in 1..n, NEW k, k = m + i PROVE UnlockedAt(r, k)
  <2>1. r[k] = q[i] /\ k \in Nat
    BY <1>1, <1>2, <1>5
  <2>2. i > 1 => k > 1 /\ r[k-1] = q[i-1]
    <3>1. i > 1 => i - 1 \in 1..n /\ m + (i - 1) = k - 1 /\ k > 1
      BY <1>1, <1>5
    <3> QED BY <1>2, <3>1
  <2>3. i < n => k < Len(r) /\ r[k+1] = q[i+1]
    <3>1. i < n => i + 1 \in 1..n /\ m + (i + 1) = k + 1 /\ k < m + n
      BY <1>1, <1>5
    <3> QED BY <1>2, <3>1
  <2>4. UnlockedAt(q, i)
    BY <1>3
  <2> QED BY <1>3, <2>1, <2>2, <2>3, <2>4 DEF UnlockedAt
<1>6. ASSUME NEW i \in 1..Len(r) PROVE UnlockedAt(r, i)
  <2>1. CASE i <= m
    BY <1>1, <1>2, <1>4, <2>1
  <2>2. CASE i > m
    <3>1. i - m \in 1..n /\ i = m + (i - m)
      BY <1>1, <1>2, <2>2
    <3> QED BY <1>5, <3>1
  <2> QED BY <1>1, <1>2, <2>1, <2>2
<1> QED BY <1>2, <1>6 DEF Unlocked, UnlockedAt, r

\* The bodies the functions are built from.
LEMMA UnlockedBasic ==
  /\ Unlocked(<<>>) /\ Unlocked(SwapTx) /\ Unlocked(SwapRx) /\ Unlocked(<<Do("clear")>>)
  /\ \A regs \in SUBSET CfgRegs : \A v \in Nat : Unlocked(<<Write(regs, v)>>)
<1>1. ASSUME NEW o \in Op, o.op \in {"write", "clear", "swapTx", "swapRx"} PROVE Unlocked(<<o>>)
  <2>1. <<o>> \in Seq(Op) /\ Len(<<o>>) = 1 /\ <<o>>[1] = o
    OBVIOUS
  <2> QED BY <1>1, <2>1 DEF Unlocked
<1>2. Unlocked(<<>>)
  BY DEF Unlocked
<1> QED BY <1>1, <1>2, DoIsOp DEF SwapTx, SwapRx, OpNames

\* Two steps in one sequence.
LEMMA Pair == ASSUME NEW x, NEW y PROVE <<x>> \o <<y>> = <<x, y>>
<1> DEFINE S == {x, y}
<1>1. <<x>> \in Seq(S) /\ <<y>> \in Seq(S) /\ <<x, y>> \in Seq(S)
  OBVIOUS
<1>2. <<x>> \o <<y>> \in Seq(S) /\ Len(<<x>> \o <<y>>) = 2
  BY <1>1
<1>3. (<<x>> \o <<y>>)[1] = x /\ (<<x>> \o <<y>>)[2] = y
  BY <1>1
<1>4. \A i \in 1..2 : (<<x>> \o <<y>>)[i] = <<x, y>>[i]
  BY <1>3
<1> HIDE DEF S
<1> QED BY <1>1, <1>2, <1>4, SeqEqual

\* The settings that a client makes under the lock.
LEMMA UnlockedConfig ==
  ASSUME NEW n \in Nat
  PROVE  /\ Unlocked(<<Write({"clk"}, n)>>) /\ Unlocked(SetMode(n)) /\ Unlocked(SetOrder(n))
         /\ \A v \in {0, 1} : Unlocked(<<Write(SSPins(n), v)>>)
<1>1. {"idle"} \in SUBSET CfgRegs /\ {"out"} \in SUBSET CfgRegs /\ {"wr"} \in SUBSET CfgRegs
      /\ {"rd"} \in SUBSET CfgRegs /\ {"clk"} \in SUBSET CfgRegs /\ SSPins(n) \in SUBSET CfgRegs
  BY DEF CfgRegs, Pins, User, Order, SSPins
<1>2. Unlocked(SetMode(n))
  <2>1. \A v, w \in {0, 1} : Unlocked(<<Write({"idle"}, v)>> \o <<Write({"out"}, w)>>)
    BY <1>1, UnlockedBasic, UnlockedConcat
  <2>2. \A v, w \in {0, 1} : Unlocked(<<Write({"idle"}, v), Write({"out"}, w)>>)
    BY <2>1, Pair
  <2> QED BY <2>2 DEF SetMode
<1>3. Unlocked(SetOrder(n))
  <2>1. \A v, w \in {0, 1} : Unlocked(<<Write({"wr"}, v)>> \o <<Write({"rd"}, w)>>)
    BY <1>1, UnlockedBasic, UnlockedConcat
  <2>2. \A v, w \in {0, 1} : Unlocked(<<Write({"wr"}, v), Write({"rd"}, w)>>)
    BY <2>1, Pair
  <2>3. CASE n \in {0, 1}
    <3>1. 1 - n \in {0, 1}
      BY <2>3
    <3> QED BY <2>2, <2>3, <3>1 DEF SetOrder, LSBFIRST, MSBFIRST
  <2>4. CASE n \notin {0, 1}
    BY <2>4, UnlockedBasic DEF SetOrder, LSBFIRST, MSBFIRST
  <2> QED BY <2>3, <2>4
<1> QED BY <1>1, <1>2, <1>3, UnlockedBasic

\* The six (five) steps of an exchange.
IsExchange(s, reply) ==
  /\ s \in Seq(Op) /\ Len(s) = IF reply THEN 6 ELSE 5
  /\ s[1].op = "write" /\ s[2].op = "write" /\ s[3].op = "load" /\ s[4].op = "kick"
  /\ s[5].op = "wait" /\ (reply => s[6].op = "fetch")

\* They are what Send consists of.
LEMMA SendSteps ==
  ASSUME NEW bits \in Int, NEW reply \in BOOLEAN, NEW word \in {0, 1}
  PROVE  IsExchange(Send(bits, reply, word), reply)
<1> DEFINE w1 == Write({"mosi"}, DLen(bits))
           w2 == Write({"miso"}, IF reply THEN DLen(bits) ELSE 0)
           l  == [Do("load") EXCEPT !.val = word]
           k  == Do("kick")
           w  == Do("wait")
           f  == Do("fetch")
<1>1. DLen(bits) \in Nat
  BY DEF DLen
<1>2. /\ w1 \in Op /\ w2 \in Op /\ l \in Op /\ k \in Op /\ w \in Op /\ f \in Op
      /\ w1.op = "write" /\ w2.op = "write" /\ l.op = "load" /\ k.op = "kick" /\ w.op = "wait"
      /\ f.op = "fetch"
  BY <1>1 DEF Write, Do, Op, OpNames, CfgRegs
<1>3. Send(bits, reply, word) = <<w1, w2, l, k, w>> \o (IF reply THEN <<f>> ELSE <<>>)
  BY DEF Send
<1> HIDE DEF w1, w2, l, k, w, f
<1>4. CASE reply
  BY <1>2, <1>3, <1>4 DEF IsExchange
<1>5. CASE ~reply
  BY <1>2, <1>3, <1>5 DEF IsExchange
<1> QED BY <1>4, <1>5

\* One exchange waits for what it launches.
LEMMA UnlockedSend ==
  ASSUME NEW bits \in Int, NEW reply \in BOOLEAN, NEW word \in {0, 1}
  PROVE  Unlocked(Send(bits, reply, word))
<1> DEFINE s == Send(bits, reply, word)
<1>1. /\ s \in Seq(Op) /\ Len(s) = IF reply THEN 6 ELSE 5
      /\ s[1].op = "write" /\ s[2].op = "write" /\ s[3].op = "load" /\ s[4].op = "kick"
      /\ s[5].op = "wait" /\ (reply => s[6].op = "fetch")
  BY SendSteps DEF IsExchange
<1> HIDE DEF s
<1>2. ASSUME NEW i \in 1..Len(s) PROVE UnlockedAt(s, i)
  <2>1. i \in {1, 2, 3, 4, 5} \/ (i = 6 /\ reply)
    BY <1>1
  <2> QED BY <1>1, <2>1 DEF UnlockedAt
<1> QED BY <1>1, <1>2 DEF Unlocked, UnlockedAt, s

\* The steps of the loop over the chunks of a buffer.
LEMMA UnlockedChunks ==
  ASSUME NEW len \in Nat, NEW reply \in BOOLEAN, NEW word \in {0, 1}
  PROVE  Unlocked(Chunks(len, reply, word))
<1> DEFINE k == IF reply THEN 6 ELSE 5
           bytes(i) == IF len > 64 * (i + 1) THEN 64 ELSE len - 64 * i
           steps == k * ((len + 63) \div 64)
           c == Chunks(len, reply, word)
           send(s) == Send(8 * bytes((s - 1) \div k), reply, word)
           at(s) == ((s - 1) % k) + 1
<1>1. c = [s \in 1..steps |-> send(s)[at(s)]]
  BY DEF Chunks
<1>2. steps \in Nat /\ (reply => steps % 6 = 0) /\ (~reply => steps % 5 = 0)
  <2>1. (len + 63) \div 64 \in Nat
    OBVIOUS
  <2> QED BY <2>1
<1>3. ASSUME NEW s \in 1..steps
      PROVE  /\ at(s) \in 1..k /\ send(s) \in Seq(Op) /\ Len(send(s)) = k
             /\ send(s)[1].op = "write" /\ send(s)[2].op = "write" /\ send(s)[3].op = "load"
             /\ send(s)[4].op = "kick" /\ send(s)[5].op = "wait" /\ (reply => send(s)[6].op = "fetch")
  <2> DEFINE bits == 8 * bytes((s - 1) \div k)
  <2>1. bits \in Int /\ at(s) \in 1..k
    BY <1>2
  <2>2. send(s) = Send(bits, reply, word)
    OBVIOUS
  <2> HIDE DEF bits, send, at
  <2>3. IsExchange(Send(bits, reply, word), reply)
    BY <2>1, SendSteps, Zenon
  <2> QED BY <2>1, <2>2, <2>3 DEF IsExchange
<1>4. ASSUME NEW s \in 1..steps
      PROVE  /\ at(s) > 1 => s > 1 /\ at(s - 1) = at(s) - 1
             /\ at(s) < k => s < steps /\ at(s + 1) = at(s) + 1
  BY <1>2
<1> HIDE DEF at, send, steps, bytes, c
<1>5. c \in Seq(Op) /\ Len(c) = steps
  <2>1. \A s \in 1..steps : send(s)[at(s)] \in Op
    BY <1>3
  <2> QED BY <1>1, <1>2, <2>1
<1>6. ASSUME NEW s \in 1..steps
      PROVE  c[s].op = <<"write", "write", "load", "kick", "wait", "fetch">>[at(s)]
  <2>1. c[s] = send(s)[at(s)] /\ at(s) \in {1, 2, 3, 4, 5, 6} /\ (at(s) = 6 => reply)
    BY <1>1, <1>3, SMTT(30)
  <2> QED BY <1>3, <2>1, SMTT(30)
<1>7. ASSUME NEW s \in 1..Len(c) PROVE UnlockedAt(c, s)
  <2>1. at(s) \in {1, 2, 3, 4, 5, 6} /\ s \in 1..steps
    BY <1>3, <1>5
  <2>2. at(s) > 1 => s - 1 \in 1..steps /\ at(s - 1) = at(s) - 1
    BY <1>2, <1>4, <2>1
  <2>3. at(s) < k => s + 1 \in 1..steps /\ at(s + 1) = at(s) + 1
    BY <1>2, <1>4, <2>1
  <2>4. CASE at(s) \in {1, 2, 3}
    BY <1>6, <2>1, <2>4 DEF UnlockedAt
  <2>5. CASE at(s) = 4
    BY <1>2, <1>5, <1>6, <2>1, <2>2, <2>3, <2>5 DEF UnlockedAt
  <2>6. CASE at(s) \in {5, 6}
    BY <1>6, <2>1, <2>2, <2>6 DEF UnlockedAt
  <2> QED BY <2>1, <2>4, <2>5, <2>6
<1> QED BY <1>5, <1>7 DEF Unlocked, UnlockedAt, c

\* A part of a call that has steps, and is not a start, is a call.
LEMMA SegmentIsCall ==
  ASSUME NEW p, Segment(p), Len(p) > 0 PROVE WellFormed(p) /\ p[1].op # "test"
<1>1. p \in Seq(Op) /\ ~HeldAt(p, 1) /\ \A i \in 1..Len(p) : SoundAt(p, i)
  BY DEF Segment
<1>2. p[1].op # "test"
  BY <1>1 DEF SoundAt
<1> QED BY <1>1, <1>2 DEF WellFormed, SoundAt

\* Every locked function.
LEMMA LockedIsCall == ASSUME NEW b, Unlocked(b) PROVE WellFormed(Locked(b)) /\ Locked(b)[1].op # "test"
  BY LockedSegment, SegmentIsCall

\* Some steps before the lock is taken, and after it is given.
LEMMA AroundIsCall ==
  ASSUME NEW p, NEW q, Segment(p), Segment(q), Len(p) > 0
  PROVE  WellFormed(p \o q) /\ (p \o q)[1].op # "test" /\ Segment(p \o q) /\ Len(p \o q) > 0
<1>1. Segment(p \o q)
  BY SegmentConcat
<1>2. p \in Seq(Op) /\ q \in Seq(Op)
  BY DEF Segment
<1>3. Len(p \o q) > 0
  BY <1>2, Concat
<1> QED BY <1>1, <1>3, SegmentIsCall

\* The test and the creation of the lock, and the rest of spiStartBus.
LEMMA StartIsCall ==
  ASSUME NEW q, Segment(q), Len(q) > 0
  PROVE  WellFormed(<<Do("test"), Do("create")>> \o q) /\ (<<Do("test"), Do("create")>> \o q)[1].op = "test"
<1> DEFINE d == <<Do("test"), Do("create")>>
           r == d \o q
<1>1. /\ d \in Seq(Op) /\ Len(d) = 2 /\ d[1].op = "test" /\ d[2].op = "create"
      /\ q \in Seq(Op) /\ Len(q) \in Nat
  BY DoIsOp DEF OpNames, Segment
<1> HIDE DEF d
<1>2. /\ r \in Seq(Op) /\ Len(r) = Len(d) + Len(q)
      /\ \A i \in 1..Len(d) : r[i] = d[i]
      /\ \A i \in 1..(Len(d) + 1) : HeldAt(r, i) <=> HeldAt(d, i)
      /\ \A i \in 1..Len(q) : SoundAt(r, Len(d) + i)
  <2>1. ~HeldAt(q, 1)
    BY DEF Segment
  <2>2. \A i \in 1..Len(q) : SoundAt(r, Len(d) + i)
    BY <1>1, SoundShift
  <2>3. \A i \in 1..(Len(d) + 1) : HeldAt(r, i) <=> HeldAt(d, i)
    BY <1>1, <2>1, HeldAtConcat
  <2> QED BY <1>1, <2>2, <2>3, Concat
<1> HIDE DEF r
<1>3. r \in Seq(Op) /\ Len(r) > 2 /\ r[1].op = "test" /\ r[2].op = "create"
  BY <1>1, <1>2
<1>4. ~HeldAt(r, 1)
  <2>1. ~HeldAt(d, 1)
    BY <1>1 DEF HeldAt
  <2> QED BY <1>1, <1>2, <2>1
<1>5. ASSUME NEW i \in 1..Len(r), i > 2 PROVE SoundAt(r, i)
  <2>1. i - 2 \in 1..Len(q) /\ 2 + (i - 2) = i
    BY <1>1, <1>2, <1>5
  <2> QED BY <1>1, <1>2, <2>1
<1>6. WellFormed(r)
  <2> SUFFICES ASSUME NEW i \in 1..Len(r)
               PROVE  /\ r[i].op \in Access => HeldAt(r, i)
                      /\ r[i].op = "take"   => HeldAt(r, i + 1)
                      /\ r[i].op = "give"   => ~HeldAt(r, i + 1)
                      /\ r[i].op = "take"   => i > 1 /\ r[i-1].op = "ref"
                      /\ r[i].op = "kick"   => i > 1 /\ r[i-1].op = "load" /\ i < Len(r) /\ r[i+1].op = "wait"
                      /\ r[i].op = "wait"   => i > 1 /\ r[i-1].op = "kick"
                      /\ r[i].op = "fetch"  => i > 1 /\ r[i-1].op = "wait"
                      /\ r[i].op = "test"   => i = 1
                      /\ r[i].op = "create" => i = 2 /\ r[1].op = "test"
    BY <1>3, <1>4 DEF WellFormed
  <2>1. CASE i > 2
    BY <1>5, <2>1 DEF SoundAt
  <2>2. CASE i \in {1, 2}
    BY <1>3, <2>2 DEF Access
  <2> QED BY <2>1, <2>2
<1> QED BY <1>3, <1>6 DEF r, d

\* Concatenation is associative on programs.
LEMMA Regroup ==
  ASSUME NEW p \in Seq(Op), NEW q \in Seq(Op), NEW r \in Seq(Op)
  PROVE  (p \o q) \o r = p \o (q \o r)
  BY ConcatAssociative

\* A transaction is one locked section.
LEMMA TransactionIsLocked ==
  ASSUME NEW div \in Nat, NEW mode \in Nat, NEW order \in Nat, NEW b, Unlocked(b)
  PROVE  \E c : Unlocked(c) /\ InTransaction(div, mode, order, b) = Locked(c)
<1> DEFINE w == <<Write({"clk"}, div)>>
           m == SetMode(mode)
           o == SetOrder(order)
<1>1. Unlocked(w) /\ Unlocked(m) /\ Unlocked(o)
  BY UnlockedConfig
<1>2. InTransaction(div, mode, order, b) = (Lock \o w \o m \o o \o b) \o Unlock
  BY DEF InTransaction, spiTransaction, spiEndTransaction
<1> HIDE DEF w, m, o
<1>3. w \in Seq(Op) /\ m \in Seq(Op) /\ o \in Seq(Op) /\ b \in Seq(Op) /\ Lock \in Seq(Op)
  BY <1>1, DoIsOp DEF Unlocked, Lock, OpNames
<1>4. Unlocked(w \o m) /\ w \o m \in Seq(Op)
  BY <1>1, <1>3, UnlockedConcat
<1>5. Unlocked((w \o m) \o o) /\ (w \o m) \o o \in Seq(Op)
  BY <1>1, <1>3, <1>4, UnlockedConcat
<1>6. Unlocked(((w \o m) \o o) \o b)
  BY <1>5, UnlockedConcat
<1>7. Lock \o w \o m \o o \o b = Lock \o (((w \o m) \o o) \o b)
  <2>1. Lock \o w \o m = Lock \o (w \o m)
    BY <1>3, Regroup, Zenon
  <2>2. (Lock \o (w \o m)) \o o = Lock \o ((w \o m) \o o)
    BY <1>3, <1>4, Regroup, Zenon
  <2>3. (Lock \o ((w \o m) \o o)) \o b = Lock \o (((w \o m) \o o) \o b)
    BY <1>3, <1>5, Regroup, Zenon
  <2> QED BY <2>1, <2>2, <2>3
<1> QED BY <1>2, <1>6, <1>7 DEF Locked

\* spiStartBus is the test and creation of the lock, and a part of a call.
LEMMA StartBusIsCall ==
  ASSUME NEW div \in Nat, NEW mode \in Nat, NEW order \in Nat
  PROVE  WellFormed(spiStartBus(div, mode, order)) /\ spiStartBus(div, mode, order)[1].op = "test"
<1> DEFINE d == <<Do("test"), Do("create")>>
           s1 == spiStopBus
           s2 == spiSetDataMode(mode)
           s3 == spiSetBitOrder(order)
           s4 == spiSetClockDiv(div)
           s5 == Locked(<<Write({"duplex"}, 1), Do("clear")>>)
           s6 == <<Do("open")>>
<1>1. Unlocked(<<Write(Pins, 0), Write(User, 0), Write(Order, 0), Write({"clk"}, 0)>>)
  BY DoIsOp DEF Unlocked, Write, Op, OpNames, CfgRegs, Pins, User, Order
<1>2. Unlocked(<<Write({"duplex"}, 1), Do("clear")>>)
  BY DoIsOp DEF Unlocked, Write, Do, Op, OpNames, CfgRegs, Pins, User, Order
<1>3. /\ Segment(s1) /\ Len(s1) > 2 /\ Segment(s2) /\ Segment(s3) /\ Segment(s4) /\ Segment(s5)
      /\ Segment(s6) /\ d \in Seq(Op)
  <2>1. Segment(s1) /\ Len(s1) > 2
    BY <1>1, LockedSegment, Zenon DEF spiStopBus
  <2>2. Unlocked(SetMode(mode)) /\ Unlocked(SetOrder(order)) /\ Unlocked(<<Write({"clk"}, div)>>)
    BY UnlockedConfig
  <2>3. Segment(s2) /\ Segment(s3) /\ Segment(s4)
    BY <2>2, LockedSegment, Zenon DEF spiSetDataMode, spiSetBitOrder, spiSetClockDiv
  <2>4. Segment(s5)
    BY <1>2, LockedSegment, Zenon
  <2>5. Segment(s6)
    BY SingleSegment
  <2>6. Do("test") \in Op /\ Do("create") \in Op
    BY DoIsOp DEF OpNames
  <2>7. d \in Seq(Op)
    BY <2>6
  <2> QED BY <2>1, <2>3, <2>4, <2>5, <2>7
<1>4. spiStartBus(div, mode, order) = d \o s1 \o s2 \o s3 \o s4 \o s5 \o s6
  BY DEF spiStartBus
<1> HIDE DEF d, s1, s2, s3, s4, s5, s6
<1>5. Segment(s1 \o s2) /\ Len(s1 \o s2) > 0
  <2>1. Len(s1) > 0
    BY <1>3 DEF Segment
  <2> QED BY <1>3, <2>1, AroundIsCall
<1>6. Segment((s1 \o s2) \o s3) /\ Len((s1 \o s2) \o s3) > 0
  BY <1>3, <1>5, AroundIsCall
<1>7. Segment(((s1 \o s2) \o s3) \o s4) /\ Len(((s1 \o s2) \o s3) \o s4) > 0
  BY <1>3, <1>6, AroundIsCall
<1>8. Segment((((s1 \o s2) \o s3) \o s4) \o s5) /\ Len((((s1 \o s2) \o s3) \o s4) \o s5) > 0
  BY <1>3, <1>7, AroundIsCall
<1> DEFINE p == ((((s1 \o s2) \o s3) \o s4) \o s5) \o s6
<1>9. Segment(p) /\ Len(p) > 0
  BY <1>3, <1>8, AroundIsCall
<1>10. \A x, y : Segment(x) /\ Segment(y) => (d \o x) \o y = d \o (x \o y)
  <2>1. ASSUME NEW x, NEW y, Segment(x), Segment(y) PROVE (d \o x) \o y = d \o (x \o y)
    <3>1. x \in Seq(Op) /\ y \in Seq(Op) /\ d \in Seq(Op)
      BY <1>3, <2>1 DEF Segment
    <3> QED BY <3>1, Regroup, Zenon
  <2> QED BY <2>1
<1>11. d \o s1 \o s2 \o s3 \o s4 \o s5 \o s6 = d \o p
  <2>1. (d \o s1) \o s2 = d \o (s1 \o s2)
    BY <1>3, <1>10
  <2>2. (d \o (s1 \o s2)) \o s3 = d \o ((s1 \o s2) \o s3)
    BY <1>3, <1>5, <1>10
  <2>3. (d \o ((s1 \o s2) \o s3)) \o s4 = d \o (((s1 \o s2) \o s3) \o s4)
    BY <1>3, <1>6, <1>10
  <2>4. (d \o (((s1 \o s2) \o s3) \o s4)) \o s5 = d \o ((((s1 \o s2) \o s3) \o s4) \o s5)
    BY <1>3, <1>7, <1>10
  <2>5. (d \o ((((s1 \o s2) \o s3) \o s4) \o s5)) \o s6 = d \o p
    BY <1>3, <1>8, <1>10
  <2> QED BY <2>1, <2>2, <2>3, <2>4, <2>5, Zenon
<1> HIDE DEF p
<1> QED BY <1>4, <1>9, <1>11, StartIsCall DEF d

\* Every function of the driver that a client can call.
LEMMA DriverCallIsCall == ASSUME NEW p, DriverCall(p) PROVE WellFormed(p) /\ p[1].op # "test"
<1>1. CASE p \in {spiSSEnable, spiSSDisable, spiSSSet, spiSSClear}
  <2>1. \A v \in {0, 1} : Unlocked(<<Write({"setup"}, v)>>) /\ Unlocked(<<Write({"keep"}, v)>>)
    BY UnlockedBasic DEF CfgRegs, Pins, User, Order
  <2> QED BY <1>1, <2>1, LockedIsCall DEF spiSSEnable, spiSSDisable, spiSSSet, spiSSClear
<1>2. CASE p = spiStopBus
  <2>1. Unlocked(<<Write(Pins, 0), Write(User, 0), Write(Order, 0), Write({"clk"}, 0)>>)
    BY DoIsOp DEF Unlocked, Write, Op, OpNames, CfgRegs, Pins, User, Order
  <2> QED BY <1>2, <2>1, LockedIsCall DEF spiStopBus
<1>3. CASE p = spiWaitReady
  <2>1. Segment(spiWaitReady)
    BY SingleSegment DEF spiWaitReady
  <2>2. Len(spiWaitReady) > 0
    BY DEF spiWaitReady
  <2> QED BY <1>3, <2>1, <2>2, SegmentIsCall, Zenon
<1>4. CASE p \in {spiWriteByte, spiTransferByte}
  <2>1. 8 \in Int /\ 0 \in {0, 1}
    OBVIOUS
  <2>2. Unlocked(Send(8, FALSE, 0)) /\ Unlocked(Send(8, TRUE, 0))
    <3>1. FALSE \in BOOLEAN /\ TRUE \in BOOLEAN
      OBVIOUS
    <3> QED BY <2>1, <3>1, UnlockedSend, Zenon
  <2> QED BY <1>4, <2>2, LockedIsCall DEF spiWriteByte, spiTransferByte, Exchange
<1>5. CASE p \in {spiWriteWord, spiTransferWord, spiWriteLong, spiTransferLong}
  <2>1. \A n \in {16, 32} : \A reply \in BOOLEAN : Segment(Locked(WordExchange(n, reply)))
    BY UnlockedSend, LockedSegment DEF WordExchange
  <2>2. Segment(SwapTx) /\ Len(SwapTx) > 0 /\ Segment(SwapRx)
    BY SingleSegment DEF SwapTx, SwapRx
  <2> QED BY <1>5, <2>1, <2>2, AroundIsCall
             DEF spiWriteWord, spiTransferWord, spiWriteLong, spiTransferLong
<1>6. ASSUME NEW n \in Nat, p \in {spiSetClockDiv(n), spiSetDataMode(n), spiSetBitOrder(n),
                                   spiEnableSSPins(n), spiDisableSSPins(n)}
      PROVE  WellFormed(p) /\ p[1].op # "test"
  BY <1>6, UnlockedConfig, LockedIsCall
     DEF spiSetClockDiv, spiSetDataMode, spiSetBitOrder, spiEnableSSPins, spiDisableSSPins
<1>7. ASSUME NEW n \in Nat, p \in {spiWrite(n), spiTransfer(n)}
      PROVE  WellFormed(p) /\ p[1].op # "test"
  <2> DEFINE bits == 32 * (IF n > 16 THEN 16 ELSE n)
  <2>1. bits \in Int
    OBVIOUS
  <2>2. p \in {Locked(Send(bits, FALSE, 0)), Locked(Send(bits, TRUE, 0))}
    BY <1>7 DEF spiWrite, spiTransfer, Exchange
  <2> HIDE DEF bits
  <2> QED BY <2>1, <2>2, UnlockedSend, LockedIsCall
<1>8. ASSUME NEW n \in Nat, p = spiTransferBits(n) PROVE WellFormed(p) /\ p[1].op # "test"
  <2> DEFINE bits == IF n > 32 THEN 32 ELSE n
  <2>1. bits \in Int
    OBVIOUS
  <2>2. p = Locked((SwapTx \o Send(bits, TRUE, 1)) \o SwapRx)
    BY <1>8 DEF spiTransferBits, spiTransferBitsNL, WordExchange
  <2> HIDE DEF bits
  <2>3. Unlocked(SwapTx) /\ Unlocked(Send(bits, TRUE, 1)) /\ Unlocked(SwapRx)
    BY <2>1, UnlockedSend, UnlockedBasic
  <2>4. Unlocked(SwapTx \o Send(bits, TRUE, 1))
    BY <2>3, UnlockedConcat, Zenon
  <2>5. Unlocked((SwapTx \o Send(bits, TRUE, 1)) \o SwapRx)
    BY <2>3, <2>4, UnlockedConcat, Zenon
  <2> QED BY <2>2, <2>5, LockedIsCall
<1>9. ASSUME NEW n \in Nat, p = spiTransferBytes(n) PROVE WellFormed(p) /\ p[1].op # "test"
  BY <1>9, UnlockedChunks, LockedIsCall DEF spiTransferBytes
<1>10. ASSUME NEW b, Unlocked(b), p = InSimpleTransaction(b) PROVE WellFormed(p) /\ p[1].op # "test"
  BY <1>10, LockedIsCall DEF InSimpleTransaction, spiSimpleTransaction, spiEndTransaction, Locked
<1>11. ASSUME NEW b, NEW div \in Nat, NEW mode \in Nat, NEW order \in Nat, Unlocked(b),
              p = InTransaction(div, mode, order, b)
       PROVE  WellFormed(p) /\ p[1].op # "test"
  <2>1. PICK c : Unlocked(c) /\ InTransaction(div, mode, order, b) = Locked(c)
    <3>1. \E c : Unlocked(c) /\ InTransaction(div, mode, order, b) = Locked(c)
      BY <1>11, TransactionIsLocked
    <3> QED BY <3>1
  <2> QED BY <1>11, <2>1, LockedIsCall, Zenon
<1> QED BY <1>1, <1>2, <1>3, <1>4, <1>5, <1>6, <1>7, <1>8, <1>9, <1>10, <1>11 DEF DriverCall

\* Every function of the driver takes the lock before it gives it, ends without
\* it and touches the controller only inside.
THEOREM DriverWellFormed == DriverOnly => WellFormedCalls
  BY StartBusIsCall, DriverCallIsCall DEF DriverOnly, WellFormedCalls

-----------------------------------------------------------------------------
(* Types, and the place of every task in its call.                         *)

\* What moving on to the next step does to the tasks.
LEMMA AdvanceEffect ==
  ASSUME TypeOK, InCalls, NEW t \in Tasks, ~Idle(t), Advance(t)
  PROVE  /\ prog' \in [Tasks -> Seq(Op)] /\ pc' \in [Tasks -> Nat \ {0}]
         /\ \A s \in Tasks \ {t} : prog'[s] = prog[s] /\ pc'[s] = pc[s]
         /\ prog'[t] # <<>> => prog'[t] = prog[t] /\ pc'[t] = pc[t] + 1 /\ pc[t] < Len(prog[t])
         /\ InCalls'
         /\ Holds(t)' <=> HeldAt(prog[t], pc[t] + 1)
<1>1. /\ prog[t] \in Seq(Op) /\ prog[t] # <<>> /\ pc[t] \in 1..Len(prog[t])
      /\ WellFormed(prog[t])
  BY DEF TypeOK, InCalls, Idle
<1>2. CASE pc[t] < Len(prog[t])
  <2>1. prog' = prog /\ pc' = [pc EXCEPT ![t] = @ + 1]
    BY <1>2 DEF Advance
  <2>2. InCalls'
    BY <1>1, <1>2, <2>1 DEF InCalls, Idle, TypeOK
  <2>3. Holds(t)' <=> HeldAt(prog[t], pc[t] + 1)
    BY <1>1, <2>1 DEF Holds, Idle, TypeOK
  <2> QED BY <1>1, <1>2, <2>1, <2>2, <2>3 DEF TypeOK
<1>3. CASE pc[t] = Len(prog[t])
  <2>1. prog' = [prog EXCEPT ![t] = <<>>] /\ pc' = [pc EXCEPT ![t] = 1]
    BY <1>3 DEF Advance, Leave
  <2>2. ~Holds(t)'
    BY <2>1 DEF Holds, Idle, TypeOK
  <2>3. ~HeldAt(prog[t], pc[t] + 1)
    BY <1>1, <1>3, HeldAtEnd
  <2>4. InCalls'
    BY <2>1 DEF InCalls, Idle, TypeOK
  <2> QED BY <2>1, <2>2, <2>3, <2>4 DEF TypeOK
<1> QED BY <1>1, <1>2, <1>3

\* The exchange number is a number.
LEMMA NumberType == ASSUME TypeOK, InCalls, NEW t \in Tasks PROVE Number(t) \in Nat
<1>1. pc[t] \in Nat
  BY DEF TypeOK
<1>2. IsFiniteSet(1..pc[t])
  BY <1>1, FS_Interval
<1>3. IsFiniteSet({i \in 1..pc[t] : prog[t][i].op = "load"})
  BY <1>2, FS_Subset
<1> QED BY <1>3, FS_CardinalityType DEF Number

\* The first state is well typed.
LEMMA InitType == Init => TypeOK /\ InCalls
<1> SUFFICES ASSUME Init PROVE TypeOK /\ InCalls
  OBVIOUS
<1>1. NoExchange \in Exchanges
  BY DEF Exchanges, NoExchange, ByteOrders
<1>2. /\ lock \in 0..MaxMutexes /\ made \in 0..MaxMutexes
      /\ ref \in [Tasks -> 0..MaxMutexes] /\ owner \in [Mutexes -> Tasks \cup {None}]
  BY MutexAssumption DEF Init
<1>3. prog \in [Tasks -> Seq(Op)] /\ pc \in [Tasks -> Nat \ {0}]
  BY DEF Init
<1>4. conv \in [Tasks -> ByteOrders] /\ handle \in [Tasks -> {"none", "null", "ok"}]
  BY DEF Init, ByteOrders
<1>5. /\ cfg \in [CfgRegs -> Nat] /\ buf \in Exchanges /\ usr \in BOOLEAN
      /\ got \in [Tasks -> Exchanges]
  BY <1>1 DEF Init
<1>6. InCalls
  BY DEF Init, InCalls, Idle
<1> QED BY <1>1, <1>2, <1>3, <1>4, <1>5, <1>6 DEF TypeOK

\* A task that enters a call is at the beginning of a well-formed program.
LEMMA EnterEffect ==
  ASSUME TypeOK, InCalls, NEW t \in Tasks, NEW p, WellFormed(p), Enter(t, p)
  PROVE  /\ prog' \in [Tasks -> Seq(Op)] /\ pc' \in [Tasks -> Nat \ {0}]
         /\ conv' \in [Tasks -> ByteOrders] /\ got' \in [Tasks -> Exchanges]
         /\ \A s \in Tasks \ {t} : prog'[s] = prog[s] /\ pc'[s] = pc[s]
         /\ prog'[t] = p /\ pc'[t] = 1 /\ p # <<>>
         /\ InCalls' /\ ~Holds(t)'
<1>1. p \in Seq(Op) /\ Len(p) > 0 /\ ~HeldAt(p, 1)
  BY DEF WellFormed
<1>2. /\ prog' = [prog EXCEPT ![t] = p] /\ pc' = [pc EXCEPT ![t] = 1]
      /\ conv' = [conv EXCEPT ![t] = "native"] /\ got' = [got EXCEPT ![t] = NoExchange]
  BY DEF Enter
<1>3. prog'[t] = p /\ pc'[t] = 1
  BY <1>2 DEF TypeOK
<1>4. InCalls'
  BY <1>1, <1>2 DEF InCalls, Idle, TypeOK
<1>5. ~Holds(t)'
  BY <1>1, <1>3 DEF Holds, Idle
<1>6. conv' \in [Tasks -> ByteOrders] /\ got' \in [Tasks -> Exchanges]
  BY <1>2 DEF TypeOK, ByteOrders, Exchanges, NoExchange
<1>7. p # <<>>
  BY <1>1
<1> QED BY <1>1, <1>2, <1>3, <1>4, <1>5, <1>6, <1>7 DEF TypeOK

\* The types survive every step of a task.
LEMMA StepType ==
  ASSUME TypeOK, InCalls, NEW t \in Tasks, Step(t)
  PROVE  TypeOK' /\ InCalls'
<1>1. Idle(t) => FALSE
  BY DEF Step, TestLock, CreateLock, CreateLockFails, Open, ReadLock, Take, Give, WriteRegs,
         Clear, Load, Kick, Wait, Fetch, ConvertTx, ConvertRx, At
<1>2. /\ prog[t] \in Seq(Op) /\ pc[t] \in 1..Len(prog[t]) /\ WellFormed(prog[t])
      /\ prog[t][pc[t]] \in Op
  <2>1. prog[t] \in Seq(Op) /\ pc[t] \in 1..Len(prog[t]) /\ WellFormed(prog[t])
    BY <1>1 DEF InCalls, TypeOK
  <2> QED BY <2>1
<1>3. CASE TestLock(t)
  <2>1. CASE lock = 0
    BY <1>1, <1>3, <2>1, AdvanceEffect DEF TestLock, TypeOK
  <2>2. CASE lock # 0
    <3>1. prog' = prog /\ pc' = [pc EXCEPT ![t] = @ + 2]
      BY <1>3, <2>2 DEF TestLock
    <3>2. pc[t] = 1 /\ Len(prog[t]) > 2
      BY <1>2, <1>3 DEF TestLock, At, WellFormed
    <3>3. InCalls'
      BY <1>2, <3>1, <3>2 DEF InCalls, Idle, TypeOK
    <3> QED BY <1>3, <3>1, <3>3 DEF TestLock, TypeOK
  <2> QED BY <2>1, <2>2
<1>4. CASE CreateLock(t)
  BY <1>1, <1>4, AdvanceEffect, MutexAssumption DEF CreateLock, TypeOK
<1>5. CASE CreateLockFails(t)
  <2>1. prog' = [prog EXCEPT ![t] = <<>>] /\ pc' = [pc EXCEPT ![t] = 1]
    BY <1>5 DEF CreateLockFails, Leave
  <2>2. InCalls'
    BY <2>1 DEF InCalls, Idle, TypeOK
  <2> QED BY <1>5, <2>1, <2>2, MutexAssumption DEF CreateLockFails, TypeOK
<1>6. CASE Open(t)
  BY <1>1, <1>6, AdvanceEffect DEF Open, TypeOK
<1>7. CASE ReadLock(t)
  BY <1>1, <1>7, AdvanceEffect DEF ReadLock, TypeOK
<1>8. CASE Take(t)
  BY <1>1, <1>8, AdvanceEffect DEF Take, TypeOK
<1>9. CASE Give(t)
  <2>1. owner' \in [Mutexes -> Tasks \cup {None}]
    BY <1>9 DEF Give, TypeOK
  <2> QED BY <1>1, <1>9, <2>1, AdvanceEffect DEF Give, TypeOK
<1>10. CASE WriteRegs(t)
  <2>1. cfg' \in [CfgRegs -> Nat]
    BY <1>2, <1>10 DEF WriteRegs, TypeOK, Op
  <2> QED BY <1>1, <1>10, <2>1, AdvanceEffect DEF WriteRegs, TypeOK
<1>11. CASE Clear(t)
  <2>1. NoExchange \in Exchanges
    BY DEF Exchanges, NoExchange, ByteOrders
  <2> QED BY <1>1, <1>11, <2>1, AdvanceEffect DEF Clear, TypeOK
<1>12. CASE Load(t)
  <2>1. buf' \in Exchanges
    BY <1>12, NumberType DEF Load, Exchanges, ByteOrders, TypeOK
  <2> QED BY <1>1, <1>12, <2>1, AdvanceEffect DEF Load, TypeOK
<1>13. CASE Kick(t)
  BY <1>1, <1>13, AdvanceEffect DEF Kick, TypeOK
<1>14. CASE Wait(t)
  BY <1>1, <1>14, AdvanceEffect DEF Wait, TypeOK
<1>15. CASE Fetch(t)
  BY <1>1, <1>15, AdvanceEffect DEF Fetch, TypeOK
<1>16. CASE ConvertTx(t)
  BY <1>1, <1>16, AdvanceEffect DEF ConvertTx, TypeOK, ByteOrders
<1>17. CASE ConvertRx(t)
  <2>1. \A o \in ByteOrders : Swapped[o] \in ByteOrders
    BY DEF Swapped, ByteOrders
  <2>2. got' \in [Tasks -> Exchanges]
    BY <1>17, <2>1 DEF ConvertRx, TypeOK, Exchanges
  <2> QED BY <1>1, <1>17, <2>2, AdvanceEffect DEF ConvertRx, TypeOK
<1> QED BY <1>3, <1>4, <1>5, <1>6, <1>7, <1>8, <1>9, <1>10, <1>11, <1>12, <1>13, <1>14, <1>15,
           <1>16, <1>17 DEF Step

\* The types are an invariant.
THEOREM SpiTypes == ASSUME DriverOnly PROVE Spec => []TypeOK
<1>1. Init => TypeOK /\ InCalls
  BY InitType
<1>2. TypeOK /\ InCalls /\ [Next]_vars => (TypeOK /\ InCalls)'
  <2> SUFFICES ASSUME TypeOK, InCalls, [Next]_vars PROVE (TypeOK /\ InCalls)'
    OBVIOUS
  <2>1. CASE \E t \in Tasks : Start(t)
    <3>1. PICK t \in Tasks : Start(t)
      BY <2>1
    <3>2. PICK p \in Starts : Enter(t, p)
      BY <3>1 DEF Start
    <3> QED BY <3>1, <3>2, EnterEffect, DriverWellFormed DEF WellFormedCalls, Start, TypeOK
  <2>2. CASE \E t \in Tasks : Call(t)
    <3>1. PICK t \in Tasks : Call(t)
      BY <2>2
    <3>2. PICK p \in Calls[t] : Enter(t, p)
      BY <3>1 DEF Call
    <3> QED BY <3>1, <3>2, EnterEffect, DriverWellFormed DEF WellFormedCalls, Call, TypeOK
  <2>3. CASE \E t \in Tasks : Step(t)
    BY <2>3, StepType
  <2>4. CASE Complete
    <3>1. buf' \in Exchanges
      BY <2>4 DEF Complete, TypeOK, Exchanges, ByteOrders
    <3> QED BY <2>4, <3>1 DEF Complete, TypeOK, InCalls, Idle
  <2>5. CASE UNCHANGED vars
    BY <2>5 DEF vars, TypeOK, InCalls, Idle
  <2> QED BY <2>1, <2>2, <2>3, <2>4, <2>5 DEF Next
<1> QED BY <1>1, <1>2, PTL DEF Spec

-----------------------------------------------------------------------------
(* The invariant behind mutual exclusion.                                  *)

\* A task at a register or buffer access, or about to give the lock, owns it.
LEMMA AccessOwns ==
  ASSUME LockInv, NEW t \in Tasks, At(t, Access \cup {"give"})
  PROVE  lock = 1 /\ owner[1] = t
<1>1. ~Idle(t) /\ prog[t] \in Seq(Op) /\ pc[t] \in 1..Len(prog[t]) /\ WellFormed(prog[t])
  BY DEF At, InCalls, LockInv, TypeOK
<1>2. prog[t][pc[t]].op = "give" => HeldAt(prog[t], pc[t])
  BY <1>1, HeldAtTakeGive
<1>3. Holds(t)
  BY <1>1, <1>2 DEF Holds, At, WellFormed
<1>4. ~At(t, {"test", "create"})
  BY DEF At, Access
<1> QED BY <1>1, <1>3, <1>4 DEF LockInv, OwnerHolds, LockReady

\* The lock invariant survives a step of a call that leaves the lock alone.
LEMMA PlainStep ==
  ASSUME LockInv, NEW t \in Tasks, Advance(t), ~Idle(t), TypeOK', InCalls',
         ~At(t, {"test", "create", "take", "give"}),
         lock' = lock, made' = made, owner' = owner,
         handle' = handle \/ handle' = [handle EXCEPT ![t] = "ok"],
         IF At(t, {"ref"}) THEN ref' = [ref EXCEPT ![t] = lock] ELSE ref' = ref
  PROVE  LockInv'
<1>1. /\ prog[t] \in Seq(Op) /\ pc[t] \in 1..Len(prog[t]) /\ WellFormed(prog[t])
      /\ lock = 1 /\ TypeOK /\ InCalls
  BY DEF InCalls, LockInv, TypeOK, LockReady, At
<1>2. /\ \A s \in Tasks \ {t} : prog'[s] = prog[s] /\ pc'[s] = pc[s]
      /\ prog'[t] # <<>> => prog'[t] = prog[t] /\ pc'[t] = pc[t] + 1 /\ pc[t] < Len(prog[t])
      /\ Holds(t)' <=> HeldAt(prog[t], pc[t] + 1)
  BY <1>1, AdvanceEffect
<1>3. OneLock'
  BY DEF LockInv, OneLock
<1>4. OneStart'
  BY <1>2 DEF LockInv, OneStart, Starting, Idle
<1>5. LockReady'
  <2>1. ~At(t, {"create"})'
    BY <1>1, <1>2 DEF At, Idle, WellFormed
  <2> QED BY <1>1, <1>2, <2>1 DEF LockInv, LockReady, At, Idle, TypeOK
<1>6. TakesTheLock'
  <2>1. ASSUME At(t, {"take"})' PROVE ref'[t] = lock
    <3>1. prog'[t] = prog[t] /\ pc'[t] = pc[t] + 1 /\ pc[t] < Len(prog[t])
      BY <1>2, <2>1 DEF At, Idle
    <3>2. prog[t][pc[t] + 1].op = "take"
      BY <3>1, <2>1 DEF At
    <3>3. prog[t][pc[t]].op = "ref"
      BY <1>1, <3>1, <3>2 DEF WellFormed
    <3> QED BY <1>1, <3>3 DEF At, TypeOK
  <2>2. \A s \in Tasks \ {t} : ref'[s] = ref[s] /\ (At(s, {"take"})' => At(s, {"take"}))
    BY <1>1, <1>2 DEF At, Idle, TypeOK
  <2> QED BY <2>1, <2>2 DEF LockInv, TakesTheLock
<1>7. OwnerHolds'
  <2>1. Holds(t)' <=> Holds(t)
    BY <1>1, <1>2, HeldAtStep DEF Holds, At
  <2>2. \A s \in Tasks \ {t} : Holds(s)' <=> Holds(s)
    BY <1>2 DEF Holds, Idle
  <2> QED BY <2>1, <2>2 DEF LockInv, OwnerHolds
<1> QED BY <1>3, <1>4, <1>5, <1>6, <1>7 DEF LockInv

\* Where a task executes a step, what its call looks like.
LEMMA InStep ==
  ASSUME LockInv, NEW t \in Tasks, ~Idle(t)
  PROVE  /\ prog[t] \in Seq(Op) /\ pc[t] \in 1..Len(prog[t]) /\ WellFormed(prog[t])
         /\ TypeOK /\ InCalls
  BY DEF LockInv, InCalls, TypeOK

\* Testing the lock, and skipping its creation when it is there.
LEMMA TestLockInv == ASSUME LockInv, NEW t \in Tasks, TestLock(t), TypeOK', InCalls' PROVE LockInv'
<1>1. /\ ~Idle(t) /\ prog[t] \in Seq(Op) /\ pc[t] \in 1..Len(prog[t]) /\ WellFormed(prog[t])
      /\ TypeOK /\ InCalls
  BY InStep DEF TestLock, At
<1>2. /\ pc[t] = 1 /\ prog[t][1].op = "test" /\ Len(prog[t]) > 2 /\ prog[t][2].op = "create"
  BY <1>1 DEF TestLock, At, WellFormed
<1>3. prog' = prog /\ pc' = [pc EXCEPT ![t] = IF lock = 0 THEN 2 ELSE 3]
  BY <1>1, <1>2 DEF TestLock, Advance
<1>4. UNCHANGED <<lock, made, owner, handle, ref>>
  BY DEF TestLock
<1>5. /\ prog'[t] = prog[t] /\ pc'[t] \in {2, 3} /\ (lock # 0 => pc'[t] = 3)
      /\ prog[t][3].op # "create" /\ prog[t][3].op # "take"
  <2>1. 3 \in 1..Len(prog[t]) /\ 3 # 2 /\ 3 - 1 = 2
    BY <1>1, <1>2
  <2>2. prog[t][3].op # "create" /\ prog[t][3].op # "take"
    BY <1>1, <1>2, <2>1 DEF WellFormed
  <2> QED BY <1>1, <1>3, <2>2 DEF TypeOK
<1>6. LockReady'
  <2>1. At(t, {"create"})' => lock = 0
    BY <1>5 DEF At
  <2>2. ~Idle(t)' /\ ~At(t, {"test", "create"})' => lock = 1
    BY <1>1, <1>2, <1>3 DEF At, Idle, TypeOK, LockInv, OneLock
  <2>3. \A s \in Tasks \ {t} : \A ops : At(s, ops)' <=> At(s, ops)
    BY <1>1, <1>3 DEF At, Idle, TypeOK
  <2> QED BY <1>3, <1>4, <2>1, <2>2, <2>3 DEF LockInv, LockReady, Idle
<1>7. TakesTheLock'
  <2>1. ~At(t, {"take"})'
    BY <1>2, <1>5 DEF At
  <2> QED BY <1>1, <1>3, <1>4, <2>1 DEF LockInv, TakesTheLock, At, Idle, TypeOK
<1>8. OwnerHolds'
  <2>1. HeldAt(prog[t], 1) <=> HeldAt(prog[t], 2)
    BY <1>1, <1>2, HeldAtStep
  <2>2. HeldAt(prog[t], 2) <=> HeldAt(prog[t], 2 + 1)
    BY <1>1, <1>2, HeldAtStep
  <2>3. Holds(t)' <=> Holds(t)
    BY <1>1, <1>2, <1>3, <2>1, <2>2 DEF Holds, Idle, TypeOK
  <2>4. \A s \in Tasks \ {t} : Holds(s)' <=> Holds(s)
    BY <1>1, <1>3 DEF Holds, Idle, TypeOK
  <2> QED BY <1>4, <2>3, <2>4 DEF LockInv, OwnerHolds
<1> QED BY <1>3, <1>4, <1>6, <1>7, <1>8 DEF LockInv, OneLock, OneStart, Starting, Idle

\* No task owns a lock that is not there.
LEMMA NoLockNoOwner ==
  ASSUME LockInv, lock = 0, NEW t \in Tasks
  PROVE  ~Holds(t) /\ owner[1] # t /\ (~Idle(t) => At(t, {"test", "create"}))
<1>1. ASSUME ~Idle(t) PROVE ~HeldAt(prog[t], pc[t]) /\ At(t, {"test", "create"})
  <2>1. /\ prog[t] \in Seq(Op) /\ pc[t] \in 1..Len(prog[t]) /\ WellFormed(prog[t])
    BY <1>1, InStep
  <2>2. At(t, {"test", "create"})
    BY <1>1 DEF LockInv, LockReady
  <2>3. CASE pc[t] = 1
    BY <2>1, <2>2, <2>3 DEF WellFormed
  <2>4. CASE pc[t] # 1
    <3>1. pc[t] = 2 /\ prog[t][1].op = "test"
      BY <2>1, <2>2, <2>4 DEF WellFormed, At
    <3>2. HeldAt(prog[t], 1) <=> HeldAt(prog[t], 1 + 1)
      BY <2>1, <3>1, HeldAtStep
    <3> QED BY <2>1, <2>2, <3>1, <3>2 DEF WellFormed
  <2> QED BY <2>3, <2>4
<1> QED BY <1>1 DEF Holds, LockInv, OwnerHolds

\* Creating the lock.
LEMMA CreateLockInv ==
  ASSUME LockInv, NEW t \in Tasks, CreateLock(t), TypeOK', InCalls' PROVE LockInv'
<1>1. /\ ~Idle(t) /\ prog[t] \in Seq(Op) /\ pc[t] \in 1..Len(prog[t]) /\ WellFormed(prog[t])
      /\ TypeOK /\ InCalls
  BY InStep DEF CreateLock, At
<1>2. pc[t] = 2 /\ prog[t][1].op = "test" /\ lock = 0
  BY <1>1 DEF CreateLock, At, WellFormed, LockInv, LockReady
<1>3. /\ \A s \in Tasks \ {t} : prog'[s] = prog[s] /\ pc'[s] = pc[s]
      /\ prog'[t] # <<>> => prog'[t] = prog[t] /\ pc'[t] = pc[t] + 1 /\ pc[t] < Len(prog[t])
      /\ Holds(t)' <=> HeldAt(prog[t], pc[t] + 1)
  BY <1>1, AdvanceEffect DEF CreateLock
<1>4. lock' = 1 /\ made' = 1 /\ UNCHANGED <<owner, handle, ref>>
  BY <1>2 DEF CreateLock, LockInv, OneLock
<1>5. OneStart'
  BY <1>3 DEF LockInv, OneStart, Starting, Idle
<1>6. LockReady'
  <2>1. ~At(t, {"create"})'
    BY <1>1, <1>2, <1>3 DEF At, Idle, WellFormed
  <2>2. ASSUME NEW s \in Tasks \ {t} PROVE ~At(s, {"create"})'
    <3>1. At(s, {"create"}) => Starting(s)
      BY InStep DEF At, Starting, WellFormed
    <3>2. Starting(t)
      BY <1>1, <1>2 DEF Starting
    <3> QED BY <1>3, <3>1, <3>2 DEF LockInv, OneStart, At, Idle
  <2> QED BY <1>4, <2>1, <2>2 DEF LockReady
<1>7. TakesTheLock'
  <2>1. ~At(t, {"take"})'
    BY <1>1, <1>2, <1>3 DEF At, Idle, WellFormed, CreateLock
  <2>2. ASSUME NEW s \in Tasks \ {t} PROVE ~At(s, {"take"})'
    BY <1>2, <1>3, NoLockNoOwner DEF At, Idle
  <2> QED BY <2>1, <2>2 DEF TakesTheLock
<1>8. OwnerHolds'
  <2>1. ~Holds(t)'
    BY <1>1, <1>2, <1>3, HeldAtStep, NoLockNoOwner DEF CreateLock, At, Holds
  <2>2. \A s \in Tasks \ {t} : Holds(s)' <=> Holds(s)
    BY <1>3 DEF Holds, Idle
  <2> QED BY <1>2, <1>4, <2>1, <2>2, NoLockNoOwner DEF LockInv, OwnerHolds
<1> QED BY <1>4, <1>5, <1>6, <1>7, <1>8 DEF LockInv, OneLock

\* Failing to: the call returns NULL, and the lock is as missing as before.
LEMMA CreateLockFailsInv ==
  ASSUME LockInv, NEW t \in Tasks, CreateLockFails(t), TypeOK', InCalls' PROVE LockInv'
<1>1. /\ ~Idle(t) /\ TypeOK /\ lock = 0
  BY InStep DEF CreateLockFails, At, LockInv, LockReady
<1>2. prog' = [prog EXCEPT ![t] = <<>>] /\ pc' = [pc EXCEPT ![t] = 1]
  BY DEF CreateLockFails, Leave
<1>3. lock' = lock /\ handle' = [handle EXCEPT ![t] = "null"] /\ UNCHANGED <<made, owner, ref>>
  BY <1>1 DEF CreateLockFails
<1>4. OneStart'
  BY <1>1, <1>2 DEF LockInv, OneStart, Starting, Idle, TypeOK
<1>5. LockReady' /\ TakesTheLock'
  BY <1>1, <1>2, <1>3 DEF LockInv, LockReady, TakesTheLock, At, Idle, TypeOK
<1>6. OwnerHolds'
  <2>1. ~Holds(t)' /\ \A s \in Tasks \ {t} : Holds(s)' <=> Holds(s)
    BY <1>1, <1>2 DEF Holds, Idle, TypeOK
  <2> QED BY <1>1, <1>3, <2>1, NoLockNoOwner DEF LockInv, OwnerHolds
<1> QED BY <1>3, <1>4, <1>5, <1>6 DEF LockInv, OneLock

\* Taking the lock.
LEMMA TakeInv == ASSUME LockInv, NEW t \in Tasks, Take(t), TypeOK', InCalls' PROVE LockInv'
<1>1. /\ ~Idle(t) /\ prog[t] \in Seq(Op) /\ pc[t] \in 1..Len(prog[t]) /\ WellFormed(prog[t])
      /\ TypeOK /\ InCalls /\ prog[t][pc[t]].op = "take"
  BY InStep DEF Take, At
<1>2. /\ \A s \in Tasks \ {t} : prog'[s] = prog[s] /\ pc'[s] = pc[s]
      /\ prog'[t] # <<>> => prog'[t] = prog[t] /\ pc'[t] = pc[t] + 1 /\ pc[t] < Len(prog[t])
      /\ Holds(t)' <=> HeldAt(prog[t], pc[t] + 1)
  BY <1>1, AdvanceEffect DEF Take
<1>3. lock = 1 /\ ref[t] = 1
  BY <1>1 DEF Take, LockInv, TakesTheLock, LockReady, At
<1>4. UNCHANGED <<lock, made, handle, ref>> /\ owner[1] = None /\ owner'[1] = t
  BY <1>1, <1>3, MutexAssumption DEF Take, TypeOK, Mutexes
<1>5. OneStart'
  BY <1>2 DEF LockInv, OneStart, Starting, Idle
<1>6. LockReady'
  <2>1. ~At(t, {"create"})'
    <3>1. SUFFICES ASSUME At(t, {"create"})' PROVE FALSE
      OBVIOUS
    <3>2. pc[t] + 1 \in 1..Len(prog[t]) /\ prog[t][pc[t] + 1].op = "create"
      BY <1>1, <1>2, <3>1 DEF At, Idle
    <3>3. prog[t][1].op = "test" /\ pc[t] + 1 = 2
      BY <1>1, <3>2 DEF WellFormed
    <3> QED BY <1>1, <3>3
  <2> QED BY <1>2, <1>3, <1>4, <2>1 DEF LockInv, LockReady, At, Idle
<1>7. TakesTheLock'
  <2>1. ~At(t, {"take"})'
    <3>1. SUFFICES ASSUME At(t, {"take"})' PROVE FALSE
      OBVIOUS
    <3>2. pc[t] + 1 \in 1..Len(prog[t]) /\ prog[t][pc[t] + 1].op = "take"
      BY <1>1, <1>2, <3>1 DEF At, Idle
    <3>3. prog[t][(pc[t] + 1) - 1].op = "ref" /\ (pc[t] + 1) - 1 = pc[t]
      BY <1>1, <3>2 DEF WellFormed
    <3> QED BY <1>1, <3>3
  <2> QED BY <1>2, <1>4, <2>1 DEF LockInv, TakesTheLock, At, Idle
<1>8. OwnerHolds'
  <2>1. Holds(t)'
    BY <1>1, <1>2 DEF WellFormed
  <2>2. ASSUME NEW s \in Tasks \ {t} PROVE ~Holds(s)'
    <3>1. ~Holds(s)
      BY <1>4, NoneAssumption DEF LockInv, OwnerHolds
    <3> QED BY <1>2, <3>1 DEF Holds, Idle
  <2> QED BY <1>4, <2>1, <2>2 DEF OwnerHolds
<1> QED BY <1>4, <1>5, <1>6, <1>7, <1>8 DEF LockInv, OneLock

\* Giving the lock: only its owner does.
LEMMA GiveInv == ASSUME LockInv, NEW t \in Tasks, Give(t), TypeOK', InCalls' PROVE LockInv'
<1>1. /\ ~Idle(t) /\ prog[t] \in Seq(Op) /\ pc[t] \in 1..Len(prog[t]) /\ WellFormed(prog[t])
      /\ TypeOK /\ InCalls /\ prog[t][pc[t]].op = "give"
  BY InStep DEF Give, At
<1>2. /\ \A s \in Tasks \ {t} : prog'[s] = prog[s] /\ pc'[s] = pc[s]
      /\ prog'[t] # <<>> => prog'[t] = prog[t] /\ pc'[t] = pc[t] + 1 /\ pc[t] < Len(prog[t])
      /\ Holds(t)' <=> HeldAt(prog[t], pc[t] + 1)
  BY <1>1, AdvanceEffect DEF Give
<1>3. lock = 1 /\ owner[1] = t
  BY AccessOwns DEF Give, At
<1>4. UNCHANGED <<lock, made, handle, ref>> /\ owner'[1] = None
  BY <1>1, <1>3, MutexAssumption DEF Give, TypeOK, Mutexes
<1>5. OneStart'
  BY <1>2 DEF LockInv, OneStart, Starting, Idle
<1>6. LockReady'
  <2>1. ~At(t, {"create"})'
    <3>1. SUFFICES ASSUME At(t, {"create"})' PROVE FALSE
      OBVIOUS
    <3>2. pc[t] + 1 \in 1..Len(prog[t]) /\ prog[t][pc[t] + 1].op = "create"
      BY <1>1, <1>2, <3>1 DEF At, Idle
    <3>3. prog[t][1].op = "test" /\ pc[t] + 1 = 2
      BY <1>1, <3>2 DEF WellFormed
    <3> QED BY <1>1, <3>3
  <2> QED BY <1>2, <1>3, <1>4, <2>1 DEF LockInv, LockReady, At, Idle
<1>7. TakesTheLock'
  <2>1. ~At(t, {"take"})'
    <3>1. SUFFICES ASSUME At(t, {"take"})' PROVE FALSE
      OBVIOUS
    <3>2. pc[t] + 1 \in 1..Len(prog[t]) /\ prog[t][pc[t] + 1].op = "take"
      BY <1>1, <1>2, <3>1 DEF At, Idle
    <3>3. prog[t][(pc[t] + 1) - 1].op = "ref" /\ (pc[t] + 1) - 1 = pc[t]
      BY <1>1, <3>2 DEF WellFormed
    <3> QED BY <1>1, <3>3
  <2> QED BY <1>2, <1>4, <2>1 DEF LockInv, TakesTheLock, At, Idle
<1>8. OwnerHolds'
  <2>1. ~Holds(t)'
    BY <1>1, <1>2 DEF WellFormed
  <2>2. ASSUME NEW s \in Tasks \ {t} PROVE ~Holds(s)'
    <3>1. ~Holds(s)
      BY <1>3 DEF LockInv, OwnerHolds
    <3> QED BY <1>2, <3>1 DEF Holds, Idle
  <2> QED BY <1>4, <2>1, <2>2, NoneAssumption DEF OwnerHolds
<1> QED BY <1>4, <1>5, <1>6, <1>7, <1>8 DEF LockInv, OneLock

\* Entering a call.  SerialStart keeps a second call of spiStartBus out.
LEMMA EnterInv ==
  ASSUME DriverOnly, SerialStart, LockInv, NEW t \in Tasks, Start(t) \/ Call(t), TypeOK', InCalls'
  PROVE  LockInv'
<1>1. PICK p : /\ WellFormed(p) /\ Enter(t, p)
               /\ p[1].op = "test" => \A s \in Tasks : ~Starting(s)
               /\ p[1].op # "test" => lock = 1
  <2>1. CASE Start(t)
    BY <2>1, DriverWellFormed DEF WellFormedCalls, Start
  <2>2. CASE Call(t)
    <3>1. lock = 1
      BY <2>2, StarterAssumption DEF Call, HasBus, LockInv, LockReady
    <3> QED BY <2>2, <3>1, DriverWellFormed DEF WellFormedCalls, Call
  <2> QED BY <2>1, <2>2
<1>2. TypeOK /\ InCalls /\ Idle(t)
  BY <1>1 DEF LockInv, Enter
<1>3. /\ \A s \in Tasks \ {t} : prog'[s] = prog[s] /\ pc'[s] = pc[s]
      /\ prog'[t] = p /\ pc'[t] = 1 /\ ~Holds(t)'
  BY <1>1, <1>2, EnterEffect
<1>4. UNCHANGED <<lock, made, owner, handle, ref>>
  BY DEF Start, Call
<1>5. OneStart'
  BY <1>1, <1>3 DEF LockInv, OneStart, Starting, Idle
<1>6. p \in Seq(Op) /\ 1 \in 1..Len(p) /\ p[1].op \notin {"create", "take"}
  BY <1>1 DEF WellFormed
<1>7. LockReady'
  BY <1>1, <1>3, <1>4, <1>6 DEF LockInv, LockReady, At, Idle
<1>8. TakesTheLock'
  BY <1>3, <1>4, <1>6 DEF LockInv, TakesTheLock, At, Idle
<1>9. OwnerHolds'
  <2>1. ~Holds(t)
    BY <1>2 DEF Holds
  <2>2. \A s \in Tasks \ {t} : Holds(s)' <=> Holds(s)
    BY <1>3 DEF Holds, Idle
  <2> QED BY <1>3, <1>4, <2>1, <2>2 DEF LockInv, OwnerHolds
<1> QED BY <1>4, <1>5, <1>7, <1>8, <1>9 DEF LockInv, OneLock

\* Every step of a task keeps the lock invariant.
LEMMA StepInv == ASSUME LockInv, NEW t \in Tasks, Step(t) PROVE LockInv'
<1>1. TypeOK' /\ InCalls'
  BY StepType DEF LockInv
<1>2. CASE TestLock(t) \/ CreateLock(t) \/ CreateLockFails(t) \/ Take(t) \/ Give(t)
  BY <1>1, <1>2, TestLockInv, CreateLockInv, CreateLockFailsInv, TakeInv, GiveInv
<1>3. CASE Open(t)
  BY <1>1, <1>3, PlainStep DEF Open, At
<1>4. CASE ReadLock(t)
  BY <1>1, <1>4, PlainStep DEF ReadLock, At
<1>5. CASE WriteRegs(t)
  BY <1>1, <1>5, PlainStep DEF WriteRegs, At
<1>6. CASE Clear(t)
  BY <1>1, <1>6, PlainStep DEF Clear, At
<1>7. CASE Load(t)
  BY <1>1, <1>7, PlainStep DEF Load, At
<1>8. CASE Kick(t)
  BY <1>1, <1>8, PlainStep DEF Kick, At
<1>9. CASE Wait(t)
  BY <1>1, <1>9, PlainStep DEF Wait, At
<1>10. CASE Fetch(t)
  BY <1>1, <1>10, PlainStep DEF Fetch, At
<1>11. CASE ConvertTx(t)
  BY <1>1, <1>11, PlainStep DEF ConvertTx, At
<1>12. CASE ConvertRx(t)
  BY <1>1, <1>12, PlainStep DEF ConvertRx, At
<1> QED BY <1>2, <1>3, <1>4, <1>5, <1>6, <1>7, <1>8, <1>9, <1>10, <1>11, <1>12 DEF Step

\* A task that waits for an exchange and is not the one that moves stays there.
LEMMA OthersStay ==
  ASSUME LockInv, NEW t \in Tasks, Step(t) \/ Start(t) \/ Call(t), NEW s \in Tasks \ {t}
  PROVE  prog'[s] = prog[s] /\ pc'[s] = pc[s]
<1>1. TypeOK /\ InCalls
  BY DEF LockInv
<1>2. CASE Start(t) \/ Call(t)
  BY <1>1, <1>2 DEF Start, Call, Enter, TypeOK
<1>3. CASE TestLock(t)
  BY <1>1, <1>3 DEF TestLock, Advance, Leave, TypeOK
<1>4. CASE CreateLockFails(t)
  BY <1>1, <1>4 DEF CreateLockFails, Leave, TypeOK
<1>5. CASE Advance(t)
  BY <1>1, <1>5 DEF Advance, Leave, TypeOK
<1> QED BY <1>2, <1>3, <1>4, <1>5 DEF Step, CreateLock, Open, ReadLock, Take, Give, WriteRegs,
           Clear, Load, Kick, Wait, Fetch, ConvertTx, ConvertRx

\* A launched exchange is awaited until it is done.
LEMMA WireInv ==
  ASSUME LockInv, WireAwaited, NEW t \in Tasks, Step(t) \/ Start(t) \/ Call(t), LockInv'
  PROVE  WireAwaited'
<1> SUFFICES ASSUME usr' PROVE (\E s \in Tasks : At(s, {"wait"}))'
  BY DEF WireAwaited
<1>1. CASE Kick(t)
  <2>1. /\ ~Idle(t) /\ prog[t] \in Seq(Op) /\ pc[t] \in 1..Len(prog[t]) /\ WellFormed(prog[t])
        /\ TypeOK /\ InCalls /\ prog[t][pc[t]].op = "kick"
    BY <1>1, InStep DEF Kick, At
  <2>2. pc[t] < Len(prog[t]) /\ prog[t][pc[t] + 1].op = "wait"
    BY <2>1 DEF WellFormed
  <2>3. prog' = prog /\ pc' = [pc EXCEPT ![t] = @ + 1]
    BY <1>1, <2>2 DEF Kick, Advance
  <2>4. At(t, {"wait"})'
    BY <2>1, <2>2, <2>3 DEF At, Idle, TypeOK
  <2> QED BY <2>4
<1>2. CASE ~Kick(t)
  <2>1. usr
    BY <1>2 DEF Step, Start, Call, TestLock, CreateLock, CreateLockFails, Open, ReadLock, Take,
           Give, WriteRegs, Clear, Load, Kick, Wait, Fetch, ConvertTx, ConvertRx
  <2>2. PICK s \in Tasks : At(s, {"wait"})
    BY <2>1 DEF WireAwaited
  <2>3. s # t
    BY <2>1, <2>2 DEF At, Idle, Step, Start, Call, Enter, TestLock, CreateLock, CreateLockFails,
       Open, ReadLock, Take, Give, WriteRegs, Clear, Load, Kick, Wait, Fetch, ConvertTx, ConvertRx
  <2>4. At(s, {"wait"})'
    BY <2>2, <2>3, OthersStay DEF At, Idle
  <2> QED BY <2>4
<1> QED BY <1>1, <1>2

\* The first state satisfies the inductive invariant.
LEMMA InitInv == Init => IInv
<1> SUFFICES ASSUME Init PROVE IInv
  OBVIOUS
<1>1. \A t \in Tasks : Idle(t) /\ handle[t] # "ok" /\ owner[1] # t
  BY NoneAssumption, MutexAssumption DEF Init, Idle, Mutexes
<1> QED BY <1>1, InitType DEF Init, IInv, LockInv, OneLock, OneStart, LockReady, TakesTheLock,
           OwnerHolds, WireAwaited, Starting, At, Holds

\* The invariant is inductive when start-ups are kept apart.
LEMMA NextInv == ASSUME DriverOnly, SerialStart, IInv, [Next]_vars PROVE IInv'
<1>1. CASE \E t \in Tasks : Start(t) \/ Call(t)
  <2>1. PICK t \in Tasks : Start(t) \/ Call(t)
    BY <1>1
  <2>2. TypeOK' /\ InCalls'
    <3>1. PICK p : WellFormed(p) /\ Enter(t, p)
      BY <2>1, DriverWellFormed DEF WellFormedCalls, Start, Call
    <3> QED BY <2>1, <3>1, EnterEffect DEF Start, Call, TypeOK, IInv, LockInv
  <2>3. LockInv'
    BY <2>1, <2>2, EnterInv DEF IInv
  <2> QED BY <2>1, <2>3, WireInv DEF IInv
<1>2. CASE \E t \in Tasks : Step(t)
  BY <1>2, StepInv, WireInv DEF IInv
<1>3. CASE Complete
  <2>1. TypeOK'
    <3>1. buf' \in Exchanges
      BY <1>3 DEF Complete, IInv, LockInv, TypeOK, Exchanges, ByteOrders
    <3> QED BY <1>3, <3>1 DEF Complete, IInv, LockInv, TypeOK
  <2> QED BY <1>3, <2>1 DEF Complete, IInv, LockInv, InCalls, OneLock, OneStart, LockReady,
             TakesTheLock, OwnerHolds, WireAwaited, Starting, At, Idle, Holds
<1>4. CASE UNCHANGED vars
  BY <1>4 DEF vars, IInv, LockInv, TypeOK, InCalls, OneLock, OneStart, LockReady,
     TakesTheLock, OwnerHolds, WireAwaited, Starting, At, Idle, Holds
<1> QED BY <1>1, <1>2, <1>3, <1>4 DEF Next

\* For any tasks and calls, IInv holds throughout when start-ups are kept apart.
THEOREM SpiLockInvariant == ASSUME DriverOnly, SerialStart PROVE Spec => []IInv
<1>1. IInv /\ [Next]_vars => IInv'
  BY NextInv
<1> QED BY <1>1, InitInv, PTL DEF Spec

\* Mutual exclusion: no two tasks are at an access to the controller's
\* registers or buffer at the same time.
THEOREM SpiExclusion == ASSUME DriverOnly, SerialStart PROVE Spec => []AccessExclusive
<1>1. IInv => AccessExclusive
  BY AccessOwns DEF IInv, AccessExclusive, At, Access
<1> QED BY <1>1, SpiLockInvariant, PTL

-----------------------------------------------------------------------------
(* Registers keep what their owner wrote, and replies are the caller's.    *)

\* A task that is still in its call after a step is where it was, or further on.
LEMMA Moved ==
  ASSUME LockInv, NEW t \in Tasks, Step(t), NEW s \in Tasks, ~Idle(s)'
  PROVE  /\ ~Idle(s) /\ prog'[s] = prog[s]
         /\ s # t => pc'[s] = pc[s]
         /\ s = t => \/ pc'[t] = pc[t] + 1
                     \/ At(t, {"test"}) /\ pc[t] = 1 /\ pc'[t] = 3
<1>1. ~Idle(t)
  BY DEF Step, TestLock, CreateLock, CreateLockFails, Open, ReadLock, Take, Give, WriteRegs,
         Clear, Load, Kick, Wait, Fetch, ConvertTx, ConvertRx, At
<1>2. /\ prog[t] \in Seq(Op) /\ pc[t] \in 1..Len(prog[t]) /\ WellFormed(prog[t])
      /\ TypeOK /\ InCalls
  BY <1>1, InStep
<1>3. CASE s # t
  BY <1>3, OthersStay DEF Idle
<1>4. CASE s = t
  <2>1. CASE Advance(t)
    BY <1>1, <1>2, <1>4, <2>1, AdvanceEffect DEF Idle
  <2>2. CASE TestLock(t) /\ ~Advance(t)
    <3>1. pc' = [pc EXCEPT ![t] = @ + 2] /\ prog' = prog /\ At(t, {"test"})
      BY <2>2 DEF TestLock
    <3>2. pc[t] = 1
      BY <1>2, <3>1 DEF At, WellFormed
    <3> QED BY <1>1, <1>2, <1>4, <3>1, <3>2 DEF TypeOK
  <2>3. CASE CreateLockFails(t)
    BY <1>2, <1>4, <2>3 DEF CreateLockFails, Leave, Idle, TypeOK
  <2> QED BY <2>1, <2>2, <2>3 DEF Step, CreateLock, Open, ReadLock, Take, Give, WriteRegs,
             Clear, Load, Kick, Wait, Fetch, ConvertTx, ConvertRx
<1> QED BY <1>3, <1>4

\* Only the owner of the lock changes the registers, the buffer or the wire.
LEMMA OwnerOnly ==
  ASSUME LockInv, NEW t \in Tasks, Step(t), owner[1] # t
  PROVE  UNCHANGED <<cfg, buf, usr>>
<1>1. ~WriteRegs(t) /\ ~Clear(t) /\ ~Load(t) /\ ~Kick(t)
  BY AccessOwns DEF WriteRegs, Clear, Load, Kick, At, Access
<1> QED BY <1>1 DEF Step, TestLock, CreateLock, CreateLockFails, Open, ReadLock, Take, Give,
           Wait, Fetch, ConvertTx, ConvertRx

\* A step that is not a write leaves the registers, and a write those that are not its own.
LEMMA OthersKept ==
  ASSUME LockInv, NEW t \in Tasks, Step(t), NEW r \in CfgRegs, ~Idle(t)
  PROVE  IF prog[t][pc[t]].op = "write" /\ r \in prog[t][pc[t]].regs
           THEN cfg'[r] = prog[t][pc[t]].val
           ELSE prog[t][pc[t]].op # "write" \/ r \notin prog[t][pc[t]].regs => cfg'[r] = cfg[r]
<1>1. CASE WriteRegs(t)
  BY <1>1 DEF WriteRegs, At, LockInv, TypeOK
<1>2. CASE ~WriteRegs(t)
  BY <1>2 DEF Step, TestLock, CreateLock, CreateLockFails, Open, ReadLock, Take, Give,
     Clear, Load, Kick, Wait, Fetch, ConvertTx, ConvertRx, At
<1> QED BY <1>1, <1>2

\* The registers that t has written in its section have the values it wrote.
Kept(t) == \A i \in DOMAIN prog[t] : \A r \in prog[t][i].regs :
  /\ prog[t][i].op = "write" /\ SameSection(t, i)
  /\ \A k \in (i+1)..(pc[t]-1) : r \notin prog[t][k].regs
  => cfg[r] = prog[t][i].val
HoldersKeep == \A t \in Tasks : Holds(t) => Kept(t)

LEMMA KeepStep == ASSUME LockInv, HoldersKeep, NEW t \in Tasks, Step(t) PROVE HoldersKeep'
<1> SUFFICES ASSUME NEW s \in Tasks, Holds(s)',
                    NEW i \in DOMAIN prog'[s], NEW r \in prog'[s][i].regs,
                    prog'[s][i].op = "write", SameSection(s, i)',
                    \A k \in (i+1)..(pc'[s]-1) : r \notin prog'[s][k].regs
             PROVE  cfg'[r] = prog'[s][i].val
  BY DEF HoldersKeep, Kept
<1>1. /\ ~Idle(s)' /\ ~Idle(s) /\ prog'[s] = prog[s]
      /\ s # t => pc'[s] = pc[s]
      /\ s = t => pc'[t] = pc[t] + 1 \/ (At(t, {"test"}) /\ pc[t] = 1 /\ pc'[t] = 3)
  BY Moved DEF Holds
<1>2. /\ prog[s] \in Seq(Op) /\ pc[s] \in 1..Len(prog[s]) /\ WellFormed(prog[s])
      /\ i \in 1..Len(prog[s]) /\ r \in CfgRegs
  <2>1. prog[s] \in Seq(Op) /\ pc[s] \in 1..Len(prog[s]) /\ WellFormed(prog[s])
    BY <1>1, InStep
  <2>2. i \in 1..Len(prog[s])
    BY <1>1, <2>1
  <2>3. prog[s][i] \in Op
    BY <2>1, <2>2
  <2> QED BY <1>1, <2>1, <2>2, <2>3 DEF Op
<1>3. i < pc'[s] /\ \A k \in i..(pc'[s] - 1) : prog[s][k].op \notin {"take", "give"}
  BY <1>1 DEF SameSection
<1>4. CASE s # t
  <2>1. Holds(s) /\ SameSection(s, i)
    BY <1>1, <1>4 DEF Holds, SameSection, Idle
  <2>2. owner[1] = s
    BY <2>1 DEF LockInv, OwnerHolds
  <2>3. cfg' = cfg
    BY <1>4, <2>2, OwnerOnly
  <2> QED BY <1>1, <1>2, <1>4, <2>1, <2>3 DEF HoldersKeep, Kept
<1>5. CASE s = t /\ pc'[t] = pc[t] + 1
  <2>1. CASE i = pc[t]
    BY <1>1, <1>2, <1>5, <2>1, OthersKept
  <2>2. CASE i # pc[t]
    <3>1. i < pc[t] /\ pc[t] \in i..(pc'[t] - 1) /\ pc[t] \in (i+1)..(pc'[t] - 1)
      BY <1>2, <1>3, <1>5, <2>2
    <3>2. prog[t][pc[t]].op \notin {"take", "give"} /\ r \notin prog[t][pc[t]].regs
      BY <1>1, <1>3, <1>5, <3>1
    <3>3. Holds(t)
      <4>1. HeldAt(prog[t], pc[t] + 1)
        BY <1>1, <1>5 DEF Holds
      <4> QED BY <1>1, <1>2, <1>5, <3>2, <4>1, HeldAtStep DEF Holds
    <3>4. SameSection(t, i) /\ \A k \in (i+1)..(pc[t]-1) : r \notin prog[t][k].regs
      BY <1>1, <1>2, <1>3, <1>5, <3>1 DEF SameSection
    <3>5. cfg[r] = prog[t][i].val
      <4>1. Kept(t)
        BY <3>3 DEF HoldersKeep
      <4>2. i \in DOMAIN prog[t] /\ r \in prog[t][i].regs /\ prog[t][i].op = "write"
        BY <1>1, <1>5
      <4> QED BY <3>4, <4>1, <4>2, Zenon DEF Kept
    <3> QED BY <1>1, <1>2, <1>5, <3>2, <3>5, OthersKept
  <2> QED BY <2>1, <2>2
<1>6. CASE s = t /\ At(t, {"test"}) /\ pc[t] = 1 /\ pc'[t] = 3
  <2>1. prog[t][1].op = "test" /\ prog[t][2].op = "create" /\ i \in {1, 2}
    BY <1>2, <1>3, <1>6 DEF At, WellFormed
  <2> QED BY <1>1, <1>6, <2>1
<1> QED BY <1>1, <1>4, <1>5, <1>6

\* A call begins with nothing written, and the controller writes no configuration register.
LEMMA KeepNext ==
  ASSUME DriverOnly, SerialStart, IInv, HoldersKeep, [Next]_vars PROVE HoldersKeep'
<1>1. CASE \E t \in Tasks : Start(t) \/ Call(t)
  <2>1. PICK t \in Tasks : Start(t) \/ Call(t)
    BY <1>1
  <2>2. PICK p : WellFormed(p) /\ Enter(t, p)
    BY <2>1, DriverWellFormed DEF WellFormedCalls, Start, Call
  <2>3. /\ \A s \in Tasks \ {t} : prog'[s] = prog[s] /\ pc'[s] = pc[s]
        /\ ~Holds(t)' /\ cfg' = cfg
    BY <2>1, <2>2, EnterEffect DEF IInv, LockInv, Start, Call
  <2> QED BY <2>3 DEF HoldersKeep, Kept, Holds, Idle, SameSection
<1>2. CASE \E t \in Tasks : Step(t)
  BY <1>2, KeepStep DEF IInv
<1>3. CASE Complete \/ UNCHANGED vars
  BY <1>3 DEF Complete, vars, HoldersKeep, Kept, Holds, Idle, SameSection
<1> QED BY <1>1, <1>2, <1>3 DEF Next

\* What a task wrote to a register in its critical section stands until it writes it again or
\* leaves: the divider, mode, bit order and lengths of a transaction are those of its exchanges.
THEOREM SpiConfigStable == ASSUME DriverOnly, SerialStart PROVE Spec => []ConfigStable
<1>1. Init => HoldersKeep
  BY DEF Init, HoldersKeep, Holds, Idle
<1>2. IInv /\ HoldersKeep /\ [Next]_vars => HoldersKeep'
  BY KeepNext
<1>3. IInv /\ HoldersKeep => ConfigStable
  <2> SUFFICES ASSUME IInv, HoldersKeep, NEW t \in Tasks, At(t, Access \cup {"give"})
               PROVE  Kept(t)
    BY DEF ConfigStable, Kept
  <2>1. owner[1] = t
    BY AccessOwns DEF IInv
  <2> QED BY <2>1 DEF IInv, LockInv, OwnerHolds, HoldersKeep
<1> QED BY <1>1, <1>2, <1>3, SpiLockInvariant, PTL DEF Spec

\* From the launch of an exchange to the read of its reply, the buffer is the caller's.
Buffered(t) ==
  /\ At(t, {"kick", "wait", "fetch"}) => buf.from = t /\ buf.n = Number(t)
  /\ At(t, {"fetch"}) \/ (At(t, {"wait"}) /\ ~usr) => buf.answered
AllBuffered == \A t \in Tasks : Buffered(t)

LEMMA NumberNext ==
  ASSUME NEW t \in Tasks, prog'[t] = prog[t], pc[t] \in Nat, pc'[t] = pc[t] + 1,
         prog[t][pc[t] + 1].op # "load"
  PROVE  Number(t)' = Number(t)
<1>1. {i \in 1..(pc[t] + 1) : prog[t][i].op = "load"} = {i \in 1..pc[t] : prog[t][i].op = "load"}
  OBVIOUS
<1> QED BY <1>1 DEF Number

LEMMA BufferStep == ASSUME LockInv, AllBuffered, NEW t \in Tasks, Step(t) PROVE AllBuffered'
<1> SUFFICES ASSUME NEW s \in Tasks, At(s, {"kick", "wait", "fetch"})' PROVE Buffered(s)'
  BY DEF AllBuffered, Buffered, At
<1>1. /\ ~Idle(s)' /\ ~Idle(s) /\ prog'[s] = prog[s]
      /\ s # t => pc'[s] = pc[s]
      /\ s = t => pc'[t] = pc[t] + 1 \/ (At(t, {"test"}) /\ pc[t] = 1 /\ pc'[t] = 3)
  BY Moved DEF At
<1>2. /\ prog[s] \in Seq(Op) /\ pc[s] \in 1..Len(prog[s]) /\ WellFormed(prog[s])
  BY <1>1, InStep
<1>3. CASE s # t
  <2>1. \A ops : At(s, ops)' <=> At(s, ops)
    BY <1>1, <1>3 DEF At, Idle
  <2>2. owner[1] = s
    <3>1. At(s, Access \cup {"give"})
      BY <2>1 DEF At, Access
    <3> QED BY <3>1, AccessOwns
  <2>3. UNCHANGED <<cfg, buf, usr>>
    BY <1>3, <2>2, OwnerOnly
  <2>4. Number(s)' = Number(s)
    BY <1>1, <1>3 DEF Number
  <2> QED BY <2>1, <2>3, <2>4 DEF AllBuffered, Buffered
<1>4. CASE s = t /\ pc'[t] = pc[t] + 1
  <2> DEFINE now  == prog[t][pc[t]].op
             next == prog[t][pc[t] + 1].op
  <2>1. next \in {"kick", "wait", "fetch"} /\ pc[t] + 1 \in 1..Len(prog[t])
    <3>1. LockInv' => pc'[t] \in 1..Len(prog'[t])
      BY <1>1, <1>4 DEF LockInv, InCalls
    <3> QED BY <1>1, <1>4, <3>1, StepInv DEF At
  <2>2. /\ next = "kick"  => now = "load"
        /\ next = "wait"  => now = "kick"
        /\ next = "fetch" => now = "wait"
    BY <1>2, <1>4, <2>1 DEF WellFormed
  <2>3. Number(t)' = Number(t)
    BY <1>1, <1>2, <1>4, <2>1, NumberNext
  <2>4. CASE next = "kick"
    <3>1. Load(t)
      BY <2>2, <2>4 DEF Step, TestLock, CreateLock, CreateLockFails, Open, ReadLock, Take, Give,
         WriteRegs, Clear, Kick, Wait, Fetch, ConvertTx, ConvertRx, At
    <3>2. buf'.from = t /\ buf'.n = Number(t)
      BY <3>1 DEF Load
    <3>3. ~At(t, {"wait"})' /\ ~At(t, {"fetch"})'
      BY <1>1, <1>4, <2>4 DEF At
    <3> QED BY <1>4, <2>3, <3>2, <3>3 DEF Buffered
  <2>5. CASE next = "wait"
    <3>1. Kick(t) /\ At(t, {"kick"})
      BY <2>2, <2>5 DEF Step, TestLock, CreateLock, CreateLockFails, Open, ReadLock, Take, Give,
         WriteRegs, Clear, Load, Kick, Wait, Fetch, ConvertTx, ConvertRx, At
    <3>2. buf' = buf /\ usr' /\ buf.from = t /\ buf.n = Number(t)
      BY <3>1 DEF Kick, AllBuffered, Buffered, At
    <3>3. ~At(t, {"fetch"})'
      BY <1>1, <1>4, <2>5 DEF At
    <3> QED BY <1>4, <2>3, <3>2, <3>3 DEF Buffered
  <2>6. CASE next = "fetch"
    <3>1. Wait(t) /\ At(t, {"wait"})
      BY <1>1, <1>4, <2>2, <2>6 DEF Step, TestLock, CreateLock, CreateLockFails, Open, ReadLock, Take, Give,
         WriteRegs, Clear, Load, Kick, Wait, Fetch, ConvertTx, ConvertRx, At
    <3>2. buf' = buf /\ ~usr /\ buf.from = t /\ buf.n = Number(t) /\ buf.answered
      BY <3>1 DEF Wait, AllBuffered, Buffered, At
    <3> QED BY <1>4, <2>3, <3>2 DEF Buffered
  <2> QED BY <2>1, <2>4, <2>5, <2>6
<1>5. CASE s = t /\ At(t, {"test"}) /\ pc[t] = 1 /\ pc'[t] = 3
  <2>1. prog[t][2].op = "create" /\ Len(prog[t]) > 2 /\ prog[t][3].op \in {"kick", "wait", "fetch"}
    BY <1>1, <1>2, <1>5 DEF At, WellFormed
  <2>2. 3 \in 1..Len(prog[t]) /\ 3 - 1 = 2
    BY <1>2, <1>5, <2>1
  <2>3. prog[t][2].op \in {"load", "kick", "wait"}
    BY <1>2, <1>5, <2>1, <2>2 DEF WellFormed
  <2> QED BY <2>1, <2>3
<1> QED BY <1>1, <1>3, <1>4, <1>5

\* No call begins with an exchange, and the controller answers the one that is in the buffer.
LEMMA BufferNext ==
  ASSUME DriverOnly, SerialStart, IInv, AllBuffered, [Next]_vars PROVE AllBuffered'
<1>1. CASE \E t \in Tasks : Start(t) \/ Call(t)
  <2>1. PICK t \in Tasks : Start(t) \/ Call(t)
    BY <1>1
  <2>2. PICK p : WellFormed(p) /\ Enter(t, p)
    BY <2>1, DriverWellFormed DEF WellFormedCalls, Start, Call
  <2>3. /\ \A s \in Tasks \ {t} : prog'[s] = prog[s] /\ pc'[s] = pc[s]
        /\ prog'[t] = p /\ pc'[t] = 1 /\ UNCHANGED <<buf, usr>>
    BY <2>1, <2>2, EnterEffect DEF IInv, LockInv, Start, Call
  <2>4. ~At(t, {"kick", "wait", "fetch"})'
    BY <2>2, <2>3 DEF At, WellFormed
  <2>5. Buffered(t)'
    BY <2>4 DEF Buffered, At
  <2>6. ASSUME NEW s \in Tasks \ {t} PROVE Buffered(s)'
    <3>1. Number(s)' = Number(s) /\ \A ops : At(s, ops)' <=> At(s, ops)
      BY <2>3 DEF At, Idle, Number
    <3> QED BY <2>3, <3>1 DEF AllBuffered, Buffered
  <2> QED BY <2>5, <2>6 DEF AllBuffered
<1>2. CASE \E t \in Tasks : Step(t)
  BY <1>2, BufferStep DEF IInv
<1>3. CASE Complete
  <2>1. buf'.from = buf.from /\ buf'.n = buf.n /\ buf'.answered
    BY <1>3 DEF Complete, IInv, LockInv, TypeOK, Exchanges
  <2>2. \A t \in Tasks : (Number(t)' = Number(t)) /\ \A ops : At(t, ops)' <=> At(t, ops)
    BY <1>3 DEF Complete, At, Idle, Number
  <2> QED BY <2>1, <2>2 DEF AllBuffered, Buffered
<1>4. CASE UNCHANGED vars
  BY <1>4 DEF vars, AllBuffered, Buffered, At, Idle, Number
<1> QED BY <1>1, <1>2, <1>3, <1>4 DEF Next

\* A task that reads the data buffer reads the answer to the exchange it launched last.
THEOREM SpiOwnReply == ASSUME DriverOnly, SerialStart PROVE Spec => []OwnReply
<1>1. Init => AllBuffered
  BY DEF Init, AllBuffered, Buffered, At, Idle
<1>2. IInv /\ AllBuffered /\ [Next]_vars => AllBuffered'
  BY BufferNext
<1>3. AllBuffered => OwnReply
  BY DEF AllBuffered, Buffered, OwnReply, At
<1> QED BY <1>1, <1>2, <1>3, SpiLockInvariant, PTL DEF Spec

-----------------------------------------------------------------------------
(* Words are converted inside the section that sends or receives them.     *)

\* Where step i of p loads a word, p has converted it in the same section and not changed
\* the bit order since; a reply that is a word is converted at once, and no other reply is.
ConvertsAt(p, i) ==
  /\ p[i].op = "load" /\ p[i].val = 1 =>
       \E j \in 1..(i - 1) :
         /\ p[j].op = "swapTx"
         /\ \A k \in j..i : p[k].op \notin {"take", "give"} /\ "wr" \notin p[k].regs
  /\ p[i].op = "fetch"  => i > 3 /\ (p[i-3].val = 1 => i < Len(p) /\ p[i+1].op = "swapRx")
  /\ p[i].op = "swapRx" => i > 4 /\ p[i-1].op = "fetch" /\ p[i-4].val = 1
Converts(p) == p \in Seq(Op) /\ \A i \in 1..Len(p) : ConvertsAt(p, i)

\* What a client does inside a transaction when it leaves the words to the NL functions.
Body(b) == Unlocked(b) /\ Converts(b)

\* The functions of DriverCall but those that convert a word before they take the lock or
\* after they have given it: spiWriteWord, spiTransferWord, spiWriteLong, spiTransferLong.
InsideCall(p) ==
  \/ p \in {spiSSEnable, spiSSDisable, spiSSSet, spiSSClear, spiStopBus, spiWaitReady,
            spiWriteByte, spiTransferByte}
  \/ \E n \in Nat : p \in {spiSetClockDiv(n), spiSetDataMode(n), spiSetBitOrder(n),
                           spiEnableSSPins(n), spiDisableSSPins(n), spiWrite(n), spiTransfer(n),
                           spiTransferBits(n), spiTransferBytes(n)}
  \/ \E b : Body(b) /\ p = InSimpleTransaction(b)
  \/ \E b : \E div, mode, order \in Nat : Body(b) /\ p = InTransaction(div, mode, order, b)

\* Tasks that send words as the pixel and transaction functions do.
InsideOnly == \A t \in Tasks : \A p \in Calls[t] : InsideCall(p)

\* Converting does not depend on what comes before and after.
LEMMA ConvertsShift ==
  ASSUME NEW q, Converts(q), NEW r \in Seq(Op), NEW m \in Nat, Len(r) >= m + Len(q),
         \A j \in 1..Len(q) : r[m + j] = q[j], NEW i \in 1..Len(q), NEW k, k = m + i
  PROVE  ConvertsAt(r, k)
<1> DEFINE n == Len(q)
<1>1. q \in Seq(Op) /\ n \in Nat /\ i \in 1..n /\ k \in Nat /\ ConvertsAt(q, i) /\ r[k] = q[i]
  BY DEF Converts
<1>2. \A h \in 1..n : r[m + h] = q[h]
  OBVIOUS
<1> HIDE DEF n
<1>3. ASSUME q[i].op = "load", q[i].val = 1
      PROVE  \E j \in 1..(k - 1) :
               /\ r[j].op = "swapTx"
               /\ \A h \in j..k : r[h].op \notin {"take", "give"} /\ "wr" \notin r[h].regs
  <2>1. PICK j \in 1..(i - 1) :
          /\ q[j].op = "swapTx"
          /\ \A h \in j..i : q[h].op \notin {"take", "give"} /\ "wr" \notin q[h].regs
    BY <1>1, <1>3 DEF ConvertsAt
  <2>2. m + j \in 1..(k - 1) /\ r[m + j] = q[j]
    <3>1. j \in 1..n /\ m + j \in 1..(k - 1)
      BY <1>1, <2>1
    <3> QED BY <1>2, <3>1
  <2>3. ASSUME NEW h \in (m + j)..k PROVE r[h].op \notin {"take", "give"} /\ "wr" \notin r[h].regs
    <3>1. h - m \in j..i /\ h - m \in 1..n /\ m + (h - m) = h
      BY <1>1, <2>1
    <3>2. r[h] = q[h - m]
      BY <1>2, <3>1
    <3> QED BY <2>1, <3>1, <3>2
  <2> QED BY <2>1, <2>2, <2>3
<1>4. /\ i < n => k < Len(r) /\ r[k+1] = q[i+1]
      /\ i > 1 => k > 1 /\ r[k-1] = q[i-1]
      /\ i > 3 => k > 3 /\ r[k-3] = q[i-3]
      /\ i > 4 => k > 4 /\ r[k-4] = q[i-4]
  <2>1. Len(r) >= m + n /\ Len(r) \in Nat
    BY <1>1 DEF n
  <2>2. i < n => i + 1 \in 1..n /\ m + (i + 1) = k + 1 /\ k < Len(r)
    BY <1>1, <2>1
  <2>3. i > 1 => i - 1 \in 1..n /\ m + (i - 1) = k - 1 /\ k > 1
    BY <1>1
  <2>4. i > 3 => i - 3 \in 1..n /\ m + (i - 3) = k - 3 /\ k > 3
    BY <1>1
  <2>5. i > 4 => i - 4 \in 1..n /\ m + (i - 4) = k - 4 /\ k > 4
    BY <1>1
  <2> QED BY <1>2, <2>2, <2>3, <2>4, <2>5
<1>5. i > 4 => i > 1
  BY <1>1
<1>6. n = Len(q)
  BY DEF n
<1> QED BY <1>1, <1>3, <1>4, <1>5, <1>6 DEF ConvertsAt

LEMMA ConvertsConcat == ASSUME NEW p, NEW q, Converts(p), Converts(q) PROVE Converts(p \o q)
<1> DEFINE r == p \o q
           m == Len(p)
           n == Len(q)
<1>1. p \in Seq(Op) /\ q \in Seq(Op) /\ m \in Nat /\ n \in Nat
  BY DEF Converts
<1>2. /\ r \in Seq(Op) /\ Len(r) = m + n
      /\ \A j \in 1..m : r[j] = p[j]
      /\ \A j \in 1..n : r[m + j] = q[j]
  BY <1>1, Concat
<1>3. m = Len(p) /\ n = Len(q)
  OBVIOUS
<1> HIDE DEF r, m, n
<1>4. ASSUME NEW i \in 1..Len(r) PROVE ConvertsAt(r, i)
  <2>1. CASE i <= m
    <3>1. i \in 1..Len(p) /\ i = 0 + i /\ Len(r) >= 0 + Len(p) /\ \A j \in 1..Len(p) : r[0 + j] = p[j]
      BY <1>1, <1>2, <1>3, <2>1
    <3> QED BY <1>2, <3>1, ConvertsShift
  <2>2. CASE i > m
    <3>1. i - m \in 1..Len(q) /\ i = m + (i - m) /\ Len(r) >= m + Len(q)
      BY <1>1, <1>2, <1>3, <2>2
    <3> QED BY <1>1, <1>2, <1>3, <3>1, ConvertsShift
  <2> QED BY <1>1, <1>2, <2>1, <2>2
<1> QED BY <1>2, <1>4 DEF Converts, r

\* Steps that neither load nor read.
LEMMA QuietConverts ==
  ASSUME NEW p \in Seq(Op), \A i \in 1..Len(p) : p[i].op \notin {"load", "fetch", "swapRx"}
  PROVE  Converts(p)
  BY DEF Converts, ConvertsAt

\* A locked section converts where its body does.
LEMMA LockedConverts == ASSUME NEW b, Converts(b) PROVE Converts(Locked(b))
<1>1. /\ Lock \in Seq(Op) /\ Len(Lock) = 2 /\ Lock[1].op = "ref" /\ Lock[2].op = "take"
      /\ Unlock \in Seq(Op) /\ Len(Unlock) = 1 /\ Unlock[1].op = "give"
  BY DoIsOp DEF Lock, Unlock, OpNames
<1>2. \A i \in 1..Len(Lock) : Lock[i].op \notin {"load", "fetch", "swapRx"}
  BY <1>1
<1>3. \A i \in 1..Len(Unlock) : Unlock[i].op \notin {"load", "fetch", "swapRx"}
  BY <1>1
<1>4. Converts(Lock) /\ Converts(Unlock)
  BY <1>1, <1>2, <1>3, QuietConverts
<1>5. Converts(Lock \o b)
  BY <1>4, ConvertsConcat
<1> QED BY <1>4, <1>5, ConvertsConcat DEF Locked

\* Bytes go out and come in as they are.
LEMMA RawConverts ==
  ASSUME NEW b, Unlocked(b), \A i \in 1..Len(b) : b[i].op = "load" => b[i].val = 0,
         \A i \in 1..Len(b) : b[i].op # "swapRx"
  PROVE  Body(b)
<1>1. b \in Seq(Op)
  BY DEF Unlocked
<1>2. ASSUME NEW i \in 1..Len(b), b[i].op = "fetch" PROVE i > 3 /\ b[i-3].val = 0
  <2>1. i - 1 \in 1..Len(b) /\ b[i-1].op = "wait"
    BY <1>1, <1>2 DEF Unlocked
  <2>2. i - 2 \in 1..Len(b) /\ b[i-2].op = "kick"
    <3>1. i - 1 > 1 /\ b[(i-1)-1].op = "kick"
      BY <2>1 DEF Unlocked
    <3> QED BY <1>1, <2>1, <3>1
  <2>3. i - 3 \in 1..Len(b) /\ b[i-3].op = "load"
    <3>1. i - 2 > 1 /\ b[(i-2)-1].op = "load"
      BY <2>2 DEF Unlocked
    <3> QED BY <1>1, <2>2, <3>1
  <2> QED BY <1>1, <2>3
<1>3. ASSUME NEW i \in 1..Len(b) PROVE ConvertsAt(b, i)
  BY <1>2 DEF ConvertsAt
<1> QED BY <1>1, <1>3 DEF Body, Converts

\* Words that are sent only, all of one conversion.
LEMMA SentConverts ==
  ASSUME NEW b, Unlocked(b),
         \A i \in 1..Len(b) : b[i].op \notin {"fetch", "swapRx"} /\ "wr" \notin b[i].regs
  PROVE  Body(SwapTx \o b)
<1> DEFINE r == SwapTx \o b
           n == Len(b)
<1>1. Unlocked(r) /\ b \in Seq(Op) /\ n \in Nat
  <2>1. Unlocked(r)
    BY UnlockedBasic, UnlockedConcat, Zenon
  <2> QED BY <2>1 DEF Unlocked
<1>2. SwapTx \in Seq(Op) /\ Len(SwapTx) = 1 /\ SwapTx[1].op = "swapTx" /\ SwapTx[1].regs = {}
  BY DoIsOp DEF SwapTx, OpNames, Do
<1>3. /\ r \in Seq(Op) /\ Len(r) = 1 + n
      /\ r[1] = SwapTx[1]
      /\ \A i \in 1..n : r[1 + i] = b[i]
  <2>1. /\ r \in Seq(Op) /\ Len(r) = Len(SwapTx) + n
        /\ \A i \in 1..Len(SwapTx) : r[i] = SwapTx[i]
        /\ \A i \in 1..n : r[Len(SwapTx) + i] = b[i]
    BY <1>1, <1>2, Concat, Zenon
  <2> HIDE DEF r, n
  <2> QED BY <1>1, <1>2, <2>1
<1> HIDE DEF r
<1>4. ASSUME NEW i \in 1..Len(r)
      PROVE  r[i].op \notin {"take", "give", "fetch", "swapRx"} /\ "wr" \notin r[i].regs
  <2>1. CASE i = 1
    BY <1>2, <1>3, <2>1
  <2>2. CASE i > 1
    <3>1. i - 1 \in 1..n /\ r[i] = b[i - 1]
      <4>1. i - 1 \in 1..n /\ 1 + (i - 1) = i
        BY <1>1, <1>3, <2>2
      <4> QED BY <1>3, <4>1
    <3> QED BY <3>1 DEF Unlocked
  <2> QED BY <1>1, <1>3, <2>1, <2>2
<1>5. ASSUME NEW i \in 1..Len(r) PROVE ConvertsAt(r, i)
  <2>1. ASSUME r[i].op = "load"
        PROVE  \E j \in 1..(i - 1) :
                 /\ r[j].op = "swapTx"
                 /\ \A k \in j..i : r[k].op \notin {"take", "give"} /\ "wr" \notin r[k].regs
    <3>1. 1 \in 1..(i - 1)
      BY <1>2, <1>3, <2>1
    <3>2. \A k \in 1..i : r[k].op \notin {"take", "give"} /\ "wr" \notin r[k].regs
      BY <1>3, <1>4
    <3> QED BY <1>2, <1>3, <3>1, <3>2
  <2> QED BY <1>4, <2>1 DEF ConvertsAt
<1> QED BY <1>1, <1>3, <1>5 DEF Body, Converts, r

\* What the steps of an exchange write and load.
LEMMA SendValues ==
  ASSUME NEW bits \in Int, NEW reply \in BOOLEAN, NEW word \in {0, 1}
  PROVE  LET s == Send(bits, reply, word)
         IN  /\ s[3].val = word
             /\ \A i \in 1..Len(s) : "wr" \notin s[i].regs
<1> DEFINE w1 == Write({"mosi"}, DLen(bits))
           w2 == Write({"miso"}, IF reply THEN DLen(bits) ELSE 0)
           l  == [Do("load") EXCEPT !.val = word]
           k  == Do("kick")
           w  == Do("wait")
           f  == Do("fetch")
           s  == Send(bits, reply, word)
<1>1. DLen(bits) \in Nat
  BY DEF DLen
<1>2. /\ w1 \in Op /\ w2 \in Op /\ l \in Op /\ k \in Op /\ w \in Op /\ f \in Op
      /\ l.val = word
      /\ \A o \in {w1, w2, l, k, w, f} : "wr" \notin o.regs
  BY <1>1 DEF Write, Do, Op, OpNames, CfgRegs
<1>3. s = <<w1, w2, l, k, w>> \o (IF reply THEN <<f>> ELSE <<>>)
  BY DEF Send
<1> HIDE DEF w1, w2, l, k, w, f, s
<1>4. CASE reply
  <2>1. /\ Len(s) = 6 /\ s[1] = w1 /\ s[2] = w2 /\ s[3] = l /\ s[4] = k /\ s[5] = w /\ s[6] = f
    BY <1>2, <1>3, <1>4
  <2>2. \A i \in 1..6 : s[i] \in {w1, w2, l, k, w, f}
    BY <2>1
  <2> QED BY <1>2, <2>1, <2>2 DEF s
<1>5. CASE ~reply
  <2>1. s = <<w1, w2, l, k, w>>
    BY <1>2, <1>3, <1>5
  <2> QED BY <1>2, <2>1 DEF s
<1> QED BY <1>4, <1>5

\* The same of a loop over chunks.
LEMMA ChunkValues ==
  ASSUME NEW len \in Nat, NEW reply \in BOOLEAN, NEW word \in {0, 1}
  PROVE  LET c == Chunks(len, reply, word)
         IN  \A s \in 1..Len(c) : /\ "wr" \notin c[s].regs /\ c[s].op # "swapRx"
                                  /\ c[s].op = "load" => c[s].val = word
                                  /\ c[s].op = "fetch" => reply
<1> DEFINE k == IF reply THEN 6 ELSE 5
           bytes(i) == IF len > 64 * (i + 1) THEN 64 ELSE len - 64 * i
           steps == k * ((len + 63) \div 64)
           c == Chunks(len, reply, word)
           send(s) == Send(8 * bytes((s - 1) \div k), reply, word)
           at(s) == ((s - 1) % k) + 1
<1>1. c = [s \in 1..steps |-> send(s)[at(s)]]
  BY DEF Chunks
<1>2. steps \in Nat
  <2>1. (len + 63) \div 64 \in Nat
    OBVIOUS
  <2> QED BY <2>1
<1>3. ASSUME NEW s \in 1..steps
      PROVE  /\ at(s) \in 1..k /\ IsExchange(send(s), reply) /\ Len(send(s)) = k
             /\ send(s)[3].val = word /\ \A i \in 1..Len(send(s)) : "wr" \notin send(s)[i].regs
  <2> DEFINE bits == 8 * bytes((s - 1) \div k)
  <2>1. bits \in Int /\ at(s) \in 1..k
    BY <1>2
  <2>2. send(s) = Send(bits, reply, word)
    OBVIOUS
  <2> HIDE DEF bits, send, at
  <2>3. IsExchange(Send(bits, reply, word), reply)
    BY <2>1, SendSteps, Zenon
  <2>4. LET x == Send(bits, reply, word) IN x[3].val = word /\ \A i \in 1..Len(x) : "wr" \notin x[i].regs
    BY <2>1, SendValues, Zenon
  <2>5. Len(send(s)) = k
    BY <2>2, <2>3 DEF IsExchange
  <2> QED BY <2>1, <2>2, <2>3, <2>4, <2>5
<1> HIDE DEF at, send, steps, bytes, c
<1>4. Len(c) = steps
  BY <1>1, <1>2, UnlockedChunks DEF c, Unlocked
<1>5. ASSUME NEW s \in 1..Len(c)
      PROVE  /\ "wr" \notin c[s].regs /\ c[s].op # "swapRx"
             /\ c[s].op = "load" => c[s].val = word
             /\ c[s].op = "fetch" => reply
  <2>1. /\ c[s] = send(s)[at(s)] /\ at(s) \in 1..k /\ IsExchange(send(s), reply)
        /\ send(s)[3].val = word /\ "wr" \notin c[s].regs
    BY <1>1, <1>3, <1>4
  <2>2. at(s) \in {1, 2, 3, 4, 5} \/ (at(s) = 6 /\ reply)
    BY <2>1
  <2> QED BY <2>1, <2>2 DEF IsExchange
<1> QED BY <1>5 DEF c

\* A word exchanged between its two conversions.
LEMMA ExchangedConverts ==
  ASSUME NEW bits \in Int PROVE Body(SwapTx \o WordExchange(bits, TRUE) \o SwapRx)
<1> DEFINE s == Send(bits, TRUE, 1)
           l == SwapTx \o s
           r == l \o SwapRx
<1>1. /\ s \in Seq(Op) /\ Len(s) = 6
      /\ s[1].op = "write" /\ s[2].op = "write" /\ s[3].op = "load" /\ s[4].op = "kick"
      /\ s[5].op = "wait" /\ s[6].op = "fetch" /\ s[3].val = 1
      /\ \A i \in 1..Len(s) : "wr" \notin s[i].regs
  <2>1. TRUE \in BOOLEAN /\ 1 \in {0, 1}
    OBVIOUS
  <2>2. IsExchange(s, TRUE)
    BY <2>1, SendSteps, Zenon
  <2>3. LET x == s IN x[3].val = 1 /\ \A i \in 1..Len(x) : "wr" \notin x[i].regs
    BY <2>1, SendValues, Zenon
  <2> HIDE DEF s
  <2> QED BY <2>2, <2>3 DEF IsExchange
<1>2. Unlocked(SwapTx) /\ Unlocked(s) /\ Unlocked(SwapRx)
  BY UnlockedBasic, UnlockedSend
<1>3. Unlocked(l) /\ Unlocked(r)
  BY <1>2, UnlockedConcat, Zenon
<1>4. /\ SwapTx \in Seq(Op) /\ Len(SwapTx) = 1 /\ SwapTx[1].op = "swapTx" /\ SwapTx[1].regs = {}
      /\ SwapRx \in Seq(Op) /\ Len(SwapRx) = 1 /\ SwapRx[1].op = "swapRx"
  BY DoIsOp DEF SwapTx, SwapRx, OpNames, Do
<1> HIDE DEF s
<1>5. /\ l \in Seq(Op) /\ Len(l) = 7 /\ l[1] = SwapTx[1] /\ l[2] = s[1] /\ l[3] = s[2]
      /\ l[4] = s[3] /\ l[5] = s[4] /\ l[6] = s[5] /\ l[7] = s[6]
  <2>1. /\ l \in Seq(Op) /\ Len(l) = Len(SwapTx) + Len(s)
        /\ \A i \in 1..Len(SwapTx) : l[i] = SwapTx[i]
        /\ \A i \in 1..Len(s) : l[Len(SwapTx) + i] = s[i]
    BY <1>1, <1>4, Concat, Zenon
  <2> HIDE DEF l
  <2>2. l[1] = SwapTx[1] /\ \A i \in 1..6 : l[1 + i] = s[i]
    BY <1>1, <1>4, <2>1
  <2> QED BY <1>1, <1>4, <2>1, <2>2
<1> HIDE DEF l
<1>6. /\ r \in Seq(Op) /\ Len(r) = 8 /\ \A i \in 1..7 : r[i] = l[i]
      /\ r[8].op = "swapRx"
  <2>1. /\ r \in Seq(Op) /\ Len(r) = Len(l) + Len(SwapRx)
        /\ \A i \in 1..Len(l) : r[i] = l[i]
        /\ \A i \in 1..Len(SwapRx) : r[Len(l) + i] = SwapRx[i]
    BY <1>4, <1>5, Concat, Zenon
  <2> HIDE DEF r
  <2>2. r[7 + 1] = SwapRx[1]
    BY <1>4, <1>5, <2>1
  <2> QED BY <1>4, <1>5, <2>1, <2>2
<1> HIDE DEF r
<1>7. /\ r[1].op = "swapTx" /\ r[2].op = "write" /\ r[3].op = "write" /\ r[4].op = "load" /\ r[5].op = "kick"
      /\ r[6].op = "wait" /\ r[7].op = "fetch" /\ r[8].op = "swapRx" /\ r[4].val = 1
      /\ \A k \in 1..4 : "wr" \notin r[k].regs
  BY <1>1, <1>4, <1>5, <1>6
<1>8. ASSUME NEW i \in 1..Len(r) PROVE ConvertsAt(r, i)
  <2>1. CASE i = 4
    <3>1. 1 \in 1..(i - 1) /\ \A k \in 1..i : r[k].op \notin {"take", "give"} /\ "wr" \notin r[k].regs
      BY <1>7, <2>1
    <3> QED BY <1>7, <2>1, <3>1 DEF ConvertsAt
  <2>2. CASE i \in {1, 2, 3, 5, 6}
    BY <1>7, <2>2 DEF ConvertsAt
  <2>3. CASE i = 7
    BY <1>6, <1>7, <2>3 DEF ConvertsAt
  <2>4. CASE i = 8
    BY <1>6, <1>7, <2>4 DEF ConvertsAt
  <2> QED BY <1>6, <2>1, <2>2, <2>3, <2>4
<1>9. Body(r)
  BY <1>3, <1>6, <1>8 DEF Body, Converts
<1> QED BY <1>9 DEF r, l, s, WordExchange

\* One exchange of bytes, and one of a word that is only sent.
LEMMA SingleConverts ==
  ASSUME NEW bits \in Int
  PROVE  /\ \A reply \in BOOLEAN : Body(Exchange(bits, reply))
         /\ Body(SwapTx \o WordExchange(bits, FALSE))
<1>1. ASSUME NEW reply \in BOOLEAN PROVE Body(Exchange(bits, reply))
  <2> DEFINE s == Send(bits, reply, 0)
  <2>1. Unlocked(s)
    BY UnlockedSend
  <2>2. IsExchange(s, reply) /\ s[3].val = 0
    <3>1. 0 \in {0, 1}
      OBVIOUS
    <3>2. LET x == s IN x[3].val = 0 /\ \A i \in 1..Len(x) : "wr" \notin x[i].regs
      BY <3>1, SendValues, Zenon
    <3> QED BY <3>1, <3>2, SendSteps
  <2>3. s = Exchange(bits, reply)
    BY DEF Exchange
  <2> HIDE DEF s
  <2>4. ASSUME NEW i \in 1..Len(s) PROVE s[i].op # "swapRx" /\ (s[i].op = "load" => s[i].val = 0)
    <3>1. i \in {1, 2, 3, 4, 5} \/ (i = 6 /\ reply)
      BY <2>2 DEF IsExchange
    <3> QED BY <2>2, <3>1 DEF IsExchange
  <2> QED BY <2>1, <2>3, <2>4, RawConverts
<1>2. Body(SwapTx \o WordExchange(bits, FALSE))
  <2> DEFINE s == Send(bits, FALSE, 1)
  <2>1. Unlocked(s)
    BY UnlockedSend
  <2>2. IsExchange(s, FALSE) /\ \A i \in 1..Len(s) : "wr" \notin s[i].regs
    <3>1. 1 \in {0, 1} /\ FALSE \in BOOLEAN
      OBVIOUS
    <3>2. LET x == s IN x[3].val = 1 /\ \A i \in 1..Len(x) : "wr" \notin x[i].regs
      BY <3>1, SendValues, Zenon
    <3> QED BY <3>1, <3>2, SendSteps
  <2>3. s = WordExchange(bits, FALSE)
    BY DEF WordExchange
  <2> HIDE DEF s
  <2>4. ASSUME NEW i \in 1..Len(s) PROVE s[i].op \notin {"fetch", "swapRx"}
    <3>1. i \in {1, 2, 3, 4, 5}
      BY <2>2 DEF IsExchange
    <3> QED BY <2>2, <3>1 DEF IsExchange
  <2> QED BY <2>1, <2>2, <2>3, <2>4, SentConverts
<1> QED BY <1>1, <1>2

\* The loops over a buffer of bytes, and the one over a buffer of words.
LEMMA LoopConverts ==
  ASSUME NEW len \in Nat
  PROVE  /\ \A reply \in BOOLEAN : Body(Chunks(len, reply, 0))
         /\ Body(SwapTx \o Chunks(len, FALSE, 1))
<1>1. ASSUME NEW reply \in BOOLEAN PROVE Body(Chunks(len, reply, 0))
  <2> DEFINE c == Chunks(len, reply, 0)
  <2>1. 0 \in {0, 1}
    OBVIOUS
  <2>2. LET x == c
        IN  \A s \in 1..Len(x) : /\ "wr" \notin x[s].regs /\ x[s].op # "swapRx"
                                 /\ x[s].op = "load" => x[s].val = 0
                                 /\ x[s].op = "fetch" => reply
    BY <2>1, ChunkValues, Zenon
  <2>3. Unlocked(c)
    BY UnlockedChunks
  <2> HIDE DEF c
  <2>4. Body(c)
    BY <2>2, <2>3, RawConverts
  <2> QED BY <2>4 DEF c
<1>2. Body(SwapTx \o Chunks(len, FALSE, 1))
  <2> DEFINE c == Chunks(len, FALSE, 1)
  <2>1. 1 \in {0, 1} /\ FALSE \in BOOLEAN
    OBVIOUS
  <2>2. LET x == c
        IN  \A s \in 1..Len(x) : /\ "wr" \notin x[s].regs /\ x[s].op # "swapRx"
                                 /\ x[s].op = "load" => x[s].val = 1
                                 /\ x[s].op = "fetch" => FALSE
    BY <2>1, ChunkValues, Zenon
  <2>3. Unlocked(c)
    BY UnlockedChunks
  <2> HIDE DEF c
  <2>4. Body(SwapTx \o c)
    BY <2>2, <2>3, SentConverts
  <2> QED BY <2>4 DEF c
<1> QED BY <1>1, <1>2

\* The NL functions of a transaction, and any sequence of them, convert each word inside.
THEOREM TransactionBodies ==
  /\ Body(<<>>) /\ \A b, c : Body(b) /\ Body(c) => Body(b \o c)
  /\ \A b \in {spiWriteByteNL, spiTransferByteNL, spiWriteShortNL, spiTransferShortNL,
               spiWriteLongNL, spiTransferLongNL} : Body(b)
  /\ \A n \in Nat : \A b \in {spiWriteNL(n), spiTransferBytesNL(n), spiWritePixelsNL(n),
                             spiTransferBitsNL(n)} : Body(b)
<1>1. Body(<<>>)
  BY UnlockedBasic, RawConverts
<1>2. ASSUME NEW b, NEW c, Body(b), Body(c) PROVE Body(b \o c)
  BY <1>2, UnlockedConcat, ConvertsConcat DEF Body
<1>3. \A bits \in {8, 16, 32} : /\ \A reply \in BOOLEAN : Body(Exchange(bits, reply))
                               /\ Body(SwapTx \o WordExchange(bits, FALSE))
                               /\ Body(SwapTx \o WordExchange(bits, TRUE) \o SwapRx)
  <2>1. {8, 16, 32} \subseteq Int
    OBVIOUS
  <2> QED BY <2>1, SingleConverts, ExchangedConverts
<1>4. Body(spiWriteByteNL) /\ Body(spiTransferByteNL)
  <2>1. FALSE \in BOOLEAN /\ TRUE \in BOOLEAN /\ 8 \in {8, 16, 32}
    OBVIOUS
  <2> QED BY <1>3, <2>1, Zenon DEF spiWriteByteNL, spiTransferByteNL
<1>5. Body(spiWriteShortNL) /\ Body(spiTransferShortNL) /\ Body(spiWriteLongNL) /\ Body(spiTransferLongNL)
  <2>1. 16 \in {8, 16, 32} /\ 32 \in {8, 16, 32}
    OBVIOUS
  <2> QED BY <1>3, <2>1, Zenon DEF spiWriteShortNL, spiTransferShortNL, spiWriteLongNL, spiTransferLongNL
<1>6. ASSUME NEW n \in Nat
      PROVE  Body(spiWriteNL(n)) /\ Body(spiTransferBytesNL(n)) /\ Body(spiWritePixelsNL(n))
  <2>1. FALSE \in BOOLEAN /\ TRUE \in BOOLEAN
    OBVIOUS
  <2> QED BY <2>1, LoopConverts, Zenon DEF spiWriteNL, spiTransferBytesNL, spiWritePixelsNL
<1>7. ASSUME NEW n \in Nat PROVE Body(spiTransferBitsNL(n))
  <2> DEFINE bits == IF n > 32 THEN 32 ELSE n
  <2>1. bits \in Int
    OBVIOUS
  <2>2. spiTransferBitsNL(n) = SwapTx \o WordExchange(bits, TRUE) \o SwapRx
    BY DEF spiTransferBitsNL
  <2> HIDE DEF bits
  <2>3. Body(SwapTx \o WordExchange(bits, TRUE) \o SwapRx)
    BY <2>1, ExchangedConverts, Zenon
  <2> QED BY <2>2, <2>3
<1>8. \A b, c : Body(b) /\ Body(c) => Body(b \o c)
  BY <1>2
<1> QED BY <1>1, <1>4, <1>5, <1>6, <1>7, <1>8

\* Settings convert nothing.
LEMMA ConfigBody ==
  ASSUME NEW n \in Nat
  PROVE  /\ Body(<<Write({"clk"}, n)>>) /\ Body(SetMode(n)) /\ Body(SetOrder(n))
         /\ \A v \in {0, 1} : /\ Body(<<Write(SSPins(n), v)>>) /\ Body(<<Write({"setup"}, v)>>)
                             /\ Body(<<Write({"keep"}, v)>>)
<1>1. ASSUME NEW regs \in SUBSET CfgRegs, NEW v \in Nat PROVE Body(<<Write(regs, v)>>)
  <2> DEFINE o == Write(regs, v)
  <2>1. Unlocked(<<o>>)
    BY UnlockedBasic
  <2>2. o \in Op /\ o.op = "write"
    BY DoIsOp
  <2> HIDE DEF o
  <2>3. Len(<<o>>) = 1 /\ <<o>>[1] = o
    OBVIOUS
  <2>4. Body(<<o>>)
    BY <2>1, <2>2, <2>3, RawConverts
  <2> QED BY <2>4 DEF o
<1>2. {"idle"} \in SUBSET CfgRegs /\ {"out"} \in SUBSET CfgRegs /\ {"wr"} \in SUBSET CfgRegs
      /\ {"rd"} \in SUBSET CfgRegs /\ {"clk"} \in SUBSET CfgRegs /\ SSPins(n) \in SUBSET CfgRegs
      /\ {"setup"} \in SUBSET CfgRegs /\ {"keep"} \in SUBSET CfgRegs
  BY DEF CfgRegs, Pins, User, Order, SSPins
<1>3. Body(<<>>) /\ \A b, c : Body(b) /\ Body(c) => Body(b \o c)
  BY TransactionBodies
<1>4. Body(SetMode(n))
  <2>1. \A v, w \in {0, 1} : Body(<<Write({"idle"}, v)>> \o <<Write({"out"}, w)>>)
    BY <1>1, <1>2, <1>3
  <2>2. \A v, w \in {0, 1} : Body(<<Write({"idle"}, v), Write({"out"}, w)>>)
    BY <2>1, Pair
  <2> QED BY <2>2 DEF SetMode
<1>5. Body(SetOrder(n))
  <2>1. \A v, w \in {0, 1} : Body(<<Write({"wr"}, v)>> \o <<Write({"rd"}, w)>>)
    BY <1>1, <1>2, <1>3
  <2>2. \A v, w \in {0, 1} : Body(<<Write({"wr"}, v), Write({"rd"}, w)>>)
    BY <2>1, Pair
  <2>3. CASE n \in {0, 1}
    <3>1. 1 - n \in {0, 1}
      BY <2>3
    <3> QED BY <2>2, <2>3, <3>1 DEF SetOrder, LSBFIRST, MSBFIRST
  <2>4. CASE n \notin {0, 1}
    BY <1>3, <2>4 DEF SetOrder, LSBFIRST, MSBFIRST
  <2> QED BY <2>3, <2>4
<1>6. \A v \in {0, 1} : v \in Nat
  OBVIOUS
<1> QED BY <1>1, <1>2, <1>4, <1>5, <1>6

\* A locked body converts inside, a transaction around one too.
LEMMA LockedBody == ASSUME NEW b, Body(b) PROVE Converts(Locked(b))
  BY LockedConverts DEF Body

LEMMA TransactionConverts ==
  ASSUME NEW div \in Nat, NEW mode \in Nat, NEW order \in Nat, NEW b, Body(b)
  PROVE  Converts(InTransaction(div, mode, order, b))
<1> DEFINE w == <<Write({"clk"}, div)>>
           m == SetMode(mode)
           o == SetOrder(order)
<1>1. Body(w) /\ Body(m) /\ Body(o)
  BY ConfigBody
<1>2. InTransaction(div, mode, order, b) = (Lock \o w \o m \o o \o b) \o Unlock
  BY DEF InTransaction, spiTransaction, spiEndTransaction
<1> HIDE DEF w, m, o
<1>3. Converts(Lock) /\ Converts(Unlock)
  <2>1. /\ Lock \in Seq(Op) /\ Len(Lock) = 2 /\ Lock[1].op = "ref" /\ Lock[2].op = "take"
        /\ Unlock \in Seq(Op) /\ Len(Unlock) = 1 /\ Unlock[1].op = "give"
    BY DoIsOp DEF Lock, Unlock, OpNames
  <2>2. \A i \in 1..Len(Lock) : Lock[i].op \notin {"load", "fetch", "swapRx"}
    BY <2>1
  <2>3. \A i \in 1..Len(Unlock) : Unlock[i].op \notin {"load", "fetch", "swapRx"}
    BY <2>1
  <2> QED BY <2>1, <2>2, <2>3, QuietConverts
<1>4. Converts(Lock \o w)
  BY <1>1, <1>3, ConvertsConcat DEF Body
<1>5. Converts((Lock \o w) \o m)
  BY <1>1, <1>4, ConvertsConcat DEF Body
<1>6. Converts(((Lock \o w) \o m) \o o)
  BY <1>1, <1>5, ConvertsConcat DEF Body
<1>7. Converts((((Lock \o w) \o m) \o o) \o b)
  BY <1>6, ConvertsConcat DEF Body
<1> QED BY <1>2, <1>3, <1>7, ConvertsConcat

\* Starting a controller converts nothing.
LEMMA StopConverts == Converts(spiStopBus)
<1> DEFINE b == <<Write(Pins, 0), Write(User, 0), Write(Order, 0), Write({"clk"}, 0)>>
<1>1. Unlocked(b) /\ Len(b) = 4 /\ \A i \in 1..4 : b[i].op = "write"
  BY DoIsOp DEF Unlocked, Write, Op, OpNames, CfgRegs, Pins, User, Order
<1>2. spiStopBus = Locked(b)
  BY DEF spiStopBus
<1> HIDE DEF b
<1>3. Body(b)
  <2>1. \A i \in 1..Len(b) : b[i].op = "write"
    BY <1>1
  <2> QED BY <1>1, <2>1, RawConverts
<1> QED BY <1>2, <1>3, LockedBody

LEMMA StartConverts ==
  ASSUME NEW div \in Nat, NEW mode \in Nat, NEW order \in Nat
  PROVE  Converts(spiStartBus(div, mode, order))
<1> DEFINE d == <<Do("test"), Do("create")>>
           c == <<Write({"duplex"}, 1), Do("clear")>>
           e == <<Do("open")>>
<1>1. Converts(d) /\ Converts(e)
  <2>1. /\ d \in Seq(Op) /\ Len(d) = 2 /\ d[1].op = "test" /\ d[2].op = "create"
        /\ e \in Seq(Op) /\ Len(e) = 1 /\ e[1].op = "open"
    BY DoIsOp DEF OpNames
  <2> HIDE DEF d, e
  <2>2. /\ \A i \in 1..Len(d) : d[i].op \notin {"load", "fetch", "swapRx"}
        /\ \A i \in 1..Len(e) : e[i].op \notin {"load", "fetch", "swapRx"}
    BY <2>1
  <2> QED BY <2>1, <2>2, QuietConverts
<1>2. Converts(Locked(c))
  <2>1. Unlocked(c) /\ Len(c) = 2 /\ c[1].op = "write" /\ c[2].op = "clear"
    BY DoIsOp DEF Unlocked, Write, Do, Op, OpNames, CfgRegs, Pins, User, Order
  <2> HIDE DEF c
  <2>2. \A i \in 1..Len(c) : c[i].op \in {"write", "clear"}
    BY <2>1
  <2> QED BY <2>1, <2>2, RawConverts, LockedBody
<1>3. Converts(spiSetDataMode(mode)) /\ Converts(spiSetBitOrder(order)) /\ Converts(spiSetClockDiv(div))
  BY ConfigBody, LockedBody DEF spiSetDataMode, spiSetBitOrder, spiSetClockDiv
<1>4. spiStartBus(div, mode, order)
        = d \o spiStopBus \o spiSetDataMode(mode) \o spiSetBitOrder(order) \o spiSetClockDiv(div)
            \o Locked(c) \o e
  BY DEF spiStartBus
<1> HIDE DEF d, c, e
<1>5. Converts(d \o spiStopBus)
  BY <1>1, StopConverts, ConvertsConcat
<1>6. Converts((d \o spiStopBus) \o spiSetDataMode(mode))
  BY <1>3, <1>5, ConvertsConcat
<1>7. Converts(((d \o spiStopBus) \o spiSetDataMode(mode)) \o spiSetBitOrder(order))
  BY <1>3, <1>6, ConvertsConcat
<1>8. Converts((((d \o spiStopBus) \o spiSetDataMode(mode)) \o spiSetBitOrder(order)) \o spiSetClockDiv(div))
  BY <1>3, <1>7, ConvertsConcat
<1>9. Converts(((((d \o spiStopBus) \o spiSetDataMode(mode)) \o spiSetBitOrder(order)) \o spiSetClockDiv(div))
                 \o Locked(c))
  BY <1>2, <1>8, ConvertsConcat
<1> QED BY <1>1, <1>4, <1>9, ConvertsConcat

\* The functions of InsideCall are functions of the driver that convert inside.
LEMMA InsideConverts == ASSUME NEW p, InsideCall(p) PROVE DriverCall(p) /\ Converts(p)
<1>1. DriverCall(p)
  BY DEF InsideCall, DriverCall, Body
<1>2. CASE p \in {spiSSEnable, spiSSDisable, spiSSSet, spiSSClear}
  <2>1. 0 \in Nat /\ 0 \in {0, 1} /\ 1 \in {0, 1}
    OBVIOUS
  <2>2. \A v \in {0, 1} : Body(<<Write({"setup"}, v)>>) /\ Body(<<Write({"keep"}, v)>>)
    BY <2>1, ConfigBody
  <2> QED BY <1>1, <1>2, <2>1, <2>2, LockedBody DEF spiSSEnable, spiSSDisable, spiSSSet, spiSSClear
<1>3. CASE p = spiStopBus
  BY <1>1, <1>3, StopConverts
<1>4. CASE p = spiWaitReady
  <2>1. spiWaitReady \in Seq(Op) /\ Len(spiWaitReady) = 1 /\ spiWaitReady[1].op = "poll"
    BY DoIsOp DEF spiWaitReady, OpNames
  <2>2. \A i \in 1..Len(spiWaitReady) : spiWaitReady[i].op \notin {"load", "fetch", "swapRx"}
    BY <2>1
  <2> QED BY <1>1, <1>4, <2>1, <2>2, QuietConverts
<1>5. CASE p \in {spiWriteByte, spiTransferByte}
  <2>1. Body(spiWriteByteNL) /\ Body(spiTransferByteNL)
    BY TransactionBodies
  <2> QED BY <1>1, <1>5, <2>1, LockedBody DEF spiWriteByte, spiTransferByte, spiWriteByteNL, spiTransferByteNL
<1>6. ASSUME NEW n \in Nat, p \in {spiSetClockDiv(n), spiSetDataMode(n), spiSetBitOrder(n),
                                   spiEnableSSPins(n), spiDisableSSPins(n)}
      PROVE  Converts(p)
  BY <1>6, ConfigBody, LockedBody
     DEF spiSetClockDiv, spiSetDataMode, spiSetBitOrder, spiEnableSSPins, spiDisableSSPins
<1>7. ASSUME NEW n \in Nat, p \in {spiWrite(n), spiTransfer(n)} PROVE Converts(p)
  <2> DEFINE bits == 32 * (IF n > 16 THEN 16 ELSE n)
  <2>1. bits \in Int
    OBVIOUS
  <2>2. p \in {Locked(Exchange(bits, FALSE)), Locked(Exchange(bits, TRUE))}
    BY <1>7 DEF spiWrite, spiTransfer
  <2> HIDE DEF bits
  <2> QED BY <2>1, <2>2, SingleConverts, LockedBody
<1>8. ASSUME NEW n \in Nat, p = spiTransferBits(n) PROVE Converts(p)
  <2>1. Body(spiTransferBitsNL(n))
    BY TransactionBodies
  <2> QED BY <1>8, <2>1, LockedBody DEF spiTransferBits
<1>9. ASSUME NEW n \in Nat, p = spiTransferBytes(n) PROVE Converts(p)
  <2>1. Body(Chunks(n, TRUE, 0))
    BY LoopConverts
  <2> QED BY <1>9, <2>1, LockedBody DEF spiTransferBytes
<1>10. ASSUME NEW b, Body(b), p = InSimpleTransaction(b) PROVE Converts(p)
  BY <1>10, LockedBody DEF InSimpleTransaction, spiSimpleTransaction, spiEndTransaction, Locked
<1>11. ASSUME NEW b, NEW div \in Nat, NEW mode \in Nat, NEW order \in Nat, Body(b),
              p = InTransaction(div, mode, order, b)
       PROVE  Converts(p)
  BY <1>11, TransactionConverts
<1> QED BY <1>1, <1>2, <1>3, <1>4, <1>5, <1>6, <1>7, <1>8, <1>9, <1>10, <1>11 DEF InsideCall

\* What each step of a task changes.
LEMMA StepIs ==
  ASSUME TypeOK, NEW t \in Tasks, Step(t)
  PROVE  /\ ~Idle(t)
         /\ LET now == prog[t][pc[t]].op
            IN  /\ now = "load"   => Load(t)
                /\ now = "kick"   => Kick(t)
                /\ now = "wait"   => Wait(t)
                /\ now = "fetch"  => Fetch(t)
                /\ now = "swapTx" => ConvertTx(t)
                /\ now = "swapRx" => ConvertRx(t)
                /\ now \notin {"load", "clear"} => buf' = buf
                /\ now # "swapTx" => conv' = conv
                /\ now \notin {"fetch", "swapRx"} => got' = got
                /\ now # "kick" => usr' = usr
                /\ now # "write" => cfg' = cfg
         /\ \A s \in Tasks \ {t} : conv'[s] = conv[s] /\ got'[s] = got[s]
<1>1. \A s \in Tasks \ {t} : conv'[s] = conv[s] /\ got'[s] = got[s]
  BY DEF Step, TestLock, CreateLock, CreateLockFails, Open, ReadLock, Take, Give, WriteRegs,
         Clear, Load, Kick, Wait, Fetch, ConvertTx, ConvertRx, TypeOK
<1> QED BY <1>1 DEF Step, TestLock, CreateLock, CreateLockFails, Open, ReadLock, Take, Give, WriteRegs,
         Clear, Load, Kick, Wait, Fetch, ConvertTx, ConvertRx, At

-----------------------------------------------------------------------------
(* The driver implements the ownership its header promises.                *)

\* Who owns the controller, as the abstract specification sees it.
Holder == IF lock = 0 THEN None ELSE owner[lock]

\* While an exchange is on the wire, the owner is waiting for it.
LEMMA WireOwner ==
  ASSUME IInv, usr
  PROVE  \E t \in Tasks : At(t, {"wait"}) /\ owner[1] = t /\ lock = 1
<1>1. PICK t \in Tasks : At(t, {"wait"})
  BY DEF IInv, WireAwaited
<1>2. At(t, Access \cup {"give"})
  BY <1>1 DEF At, Access
<1> QED BY <1>1, <1>2, AccessOwns DEF IInv

\* A task that is at another access than waiting finds the wire free.
LEMMA OwnerNotWaiting ==
  ASSUME IInv, NEW t \in Tasks, At(t, (Access \cup {"give"}) \ {"wait"})
  PROVE  Holder = t /\ lock = 1 /\ owner[1] = t /\ ~usr
<1>1. At(t, Access \cup {"give"}) /\ ~At(t, {"wait"})
  BY DEF At
<1>2. lock = 1 /\ owner[1] = t
  BY <1>1, AccessOwns DEF IInv
<1>3. ~usr
  BY <1>1, <1>2, WireOwner
<1> QED BY <1>2, <1>3 DEF Holder

\* Each step of a task is a step of the abstract specification, or none.
LEMMA StepRefines == ASSUME IInv, NEW t \in Tasks, Step(t) PROVE [Ownership!Next]_(Ownership!vars)
<1> USE DEF Ownership!Next, Ownership!vars
<1>1. CASE TestLock(t) \/ Open(t) \/ ReadLock(t) \/ Wait(t) \/ Fetch(t) \/ ConvertTx(t) \/ ConvertRx(t)
  BY <1>1 DEF TestLock, Open, ReadLock, Wait, Fetch, ConvertTx, ConvertRx
<1>2. CASE CreateLock(t)
  <2>1. lock = 0 /\ lock' = 1 /\ UNCHANGED <<owner, cfg, buf, usr>>
    BY <1>2 DEF CreateLock, IInv, LockInv, LockReady, OneLock
  <2>2. owner[1] = None
    <3>1. owner[1] \in Tasks \cup {None}
      BY MutexAssumption DEF IInv, LockInv, TypeOK, Mutexes
    <3> QED BY <2>1, <3>1, NoLockNoOwner DEF IInv
  <2> QED BY <2>1, <2>2
<1>3. CASE CreateLockFails(t)
  BY <1>3 DEF CreateLockFails, IInv, LockInv, LockReady
<1>4. CASE Take(t)
  <2>1. lock = 1 /\ ref[t] = 1
    BY <1>4 DEF Take, IInv, LockInv, LockReady, TakesTheLock, At
  <2>2. owner[1] = None /\ owner'[1] = t /\ UNCHANGED <<lock, cfg, buf, usr>>
    BY <1>4, <2>1, MutexAssumption DEF Take, IInv, LockInv, TypeOK, Mutexes
  <2> QED BY <2>1, <2>2 DEF Ownership!Acquire
<1>5. CASE Give(t)
  <2>1. owner[1] = t /\ lock = 1 /\ ~usr
    BY <1>5, OwnerNotWaiting DEF Give, At
  <2>2. owner'[1] = None /\ UNCHANGED <<lock, cfg, buf, usr>>
    BY <1>5, <2>1, MutexAssumption DEF Give, IInv, LockInv, TypeOK, Mutexes
  <2> QED BY <2>1, <2>2 DEF Ownership!Release
<1>6. CASE WriteRegs(t) \/ Clear(t) \/ Load(t)
  <2>1. owner[1] = t /\ lock = 1 /\ ~usr
    BY <1>6, OwnerNotWaiting DEF WriteRegs, Clear, Load, At, Access
  <2>2. UNCHANGED <<lock, owner, usr>>
    BY <1>6 DEF WriteRegs, Clear, Load
  <2> QED BY <2>1, <2>2 DEF Ownership!Change
<1>7. CASE Kick(t)
  <2>1. owner[1] = t /\ lock = 1 /\ ~usr
    BY <1>7, OwnerNotWaiting DEF Kick, At, Access
  <2>2. usr' = TRUE /\ UNCHANGED <<lock, owner, cfg, buf>>
    BY <1>7 DEF Kick
  <2>3. Ownership!Launch(t)
    BY <2>1, <2>2 DEF Ownership!Launch
  <2> QED BY <2>3
<1> QED BY <1>1, <1>2, <1>3, <1>4, <1>5, <1>6, <1>7 DEF Step

\* The lock, its creation included, gives the tasks what the header promises:
\* one owner at a time, which alone configures and launches and never lets go
\* of a running exchange.
THEOREM SpiOwnership == ASSUME DriverOnly, SerialStart PROVE Spec => ImplementsOwnership
<1>1. Init => Ownership!Init
  BY DEF Init, Ownership!Init
<1>2. IInv /\ [Next]_vars => [Ownership!Next]_(Ownership!vars)
  <2> SUFFICES ASSUME IInv, [Next]_vars PROVE [Ownership!Next]_(Ownership!vars)
    OBVIOUS
  <2>1. CASE \E t \in Tasks : Start(t) \/ Call(t)
    BY <2>1 DEF Start, Call, Ownership!vars
  <2>2. CASE \E t \in Tasks : Step(t)
    BY <2>2, StepRefines
  <2>3. CASE Complete
    <3>1. Holder # None /\ Holder' = Holder
      BY <2>3, WireOwner, NoneAssumption DEF Complete, Holder
    <3> QED BY <2>3, <3>1 DEF Complete, Holder, Ownership!Next, Ownership!Finish
  <2>4. CASE UNCHANGED vars
    BY <2>4 DEF vars, Ownership!vars
  <2> QED BY <2>1, <2>2, <2>3, <2>4 DEF Next
<1> QED BY <1>1, <1>2, SpiLockInvariant, PTL DEF Spec, ImplementsOwnership, Ownership!Spec

-----------------------------------------------------------------------------
(* A word goes out in the order the bit order calls for, and comes back in memory order. *)

\* The order of a word that the bit order wr or rd calls for, and of what a load step sends.
Expected(reg) == IF cfg[reg] = 0 THEN "swapped" ELSE "native"
OrderOf(op, reg) == IF op.val = 1 THEN Expected(reg) ELSE "raw"

\* What t has converted in its section, with the bit order it has set there, is as it should be.
Fresh(t) ==
  Holds(t) =>
    \A j \in 1..(pc[t] - 1) :
      /\ prog[t][j].op = "swapTx"
      /\ \A k \in j..(pc[t] - 1) : prog[t][k].op \notin {"take", "give"} /\ "wr" \notin prog[t][k].regs
      => conv[t] = Expected("wr")

\* From the load to the read of the reply, the buffer is in the order of the exchange's way.
Ordered(t) ==
  /\ At(t, {"kick"})  => ~buf.answered /\ buf.order = OrderOf(prog[t][pc[t]-1], "wr")
  /\ At(t, {"wait"})  => buf.order = OrderOf(prog[t][pc[t]-2], IF buf.answered THEN "rd" ELSE "wr")
  /\ At(t, {"fetch"}) => buf.order = OrderOf(prog[t][pc[t]-3], "rd")

\* What t has read is in memory order, but for the word it converts next.
Received(t) == IF At(t, {"swapRx"}) THEN got[t].order = Expected("rd") ELSE got[t].order # "swapped"

WordInv == \A t \in Tasks :
  (~Idle(t) => Converts(prog[t])) /\ Fresh(t) /\ Ordered(t) /\ Received(t)

\* A task about to convert a reply holds the lock.
LEMMA ConvertingOwns ==
  ASSUME LockInv, NEW t \in Tasks, At(t, {"swapRx"}), Converts(prog[t])
  PROVE  owner[1] = t
<1>1. /\ prog[t] \in Seq(Op) /\ pc[t] \in 1..Len(prog[t]) /\ WellFormed(prog[t])
      /\ ~Idle(t) /\ prog[t][pc[t]].op = "swapRx"
  BY InStep DEF At
<1> DEFINE i == pc[t] - 1
<1>2. i \in 1..Len(prog[t]) /\ i + 1 = pc[t] /\ prog[t][i].op = "fetch"
  BY <1>1 DEF Converts, ConvertsAt
<1>3. HeldAt(prog[t], i)
  BY <1>1, <1>2 DEF WellFormed, Access
<1>4. HeldAt(prog[t], pc[t])
  <2>1. prog[t][i].op \notin {"take", "give"}
    BY <1>2
  <2> HIDE DEF i
  <2> QED BY <1>1, <1>2, <1>3, <2>1, HeldAtStep
<1> QED BY <1>1, <1>4 DEF LockInv, OwnerHolds, Holds

\* A task that did not move keeps what it has converted, sent and received.
LEMMA WordOthers ==
  ASSUME IInv, WordInv, NEW t \in Tasks, Step(t), NEW s \in Tasks \ {t}
  PROVE  (~Idle(s)' => Converts(prog'[s])) /\ Fresh(s)' /\ Ordered(s)' /\ Received(s)'
<1>1. /\ prog'[s] = prog[s] /\ pc'[s] = pc[s] /\ conv'[s] = conv[s] /\ got'[s] = got[s]
      /\ LockInv /\ TypeOK
  BY OthersStay, StepIs DEF IInv, LockInv
<1>2. (Idle(s)' <=> Idle(s)) /\ (Holds(s)' <=> Holds(s)) /\ \A ops : At(s, ops)' <=> At(s, ops)
  BY <1>1 DEF Idle, Holds, At
<1>3. (~Idle(s) => Converts(prog[s])) /\ Fresh(s) /\ Ordered(s) /\ Received(s)
  BY DEF WordInv
<1>4. owner[1] = s => UNCHANGED <<cfg, buf, usr>>
  BY <1>1, OwnerOnly
<1>5. Fresh(s)'
  <2> SUFFICES ASSUME Holds(s) PROVE Fresh(s)'
    BY <1>2 DEF Fresh
  <2>1. cfg' = cfg
    BY <1>1, <1>4 DEF LockInv, OwnerHolds
  <2> QED BY <1>1, <1>2, <1>3, <2>1 DEF Fresh, Expected
<1>6. Ordered(s)'
  <2>1. CASE At(s, {"kick", "wait", "fetch"})
    <3>1. At(s, Access \cup {"give"})
      BY <2>1 DEF At, Access
    <3>2. UNCHANGED <<cfg, buf>>
      BY <1>1, <1>4, <3>1, AccessOwns
    <3> QED BY <1>1, <1>2, <1>3, <3>2 DEF Ordered, OrderOf, Expected
  <2>2. CASE ~At(s, {"kick", "wait", "fetch"})
    <3>1. ~At(s, {"kick"}) /\ ~At(s, {"wait"}) /\ ~At(s, {"fetch"})
      BY <2>2 DEF At
    <3> QED BY <1>2, <3>1 DEF Ordered
  <2> QED BY <2>1, <2>2
<1>7. Received(s)'
  <2>1. At(s, {"swapRx"}) => cfg' = cfg
    BY <1>1, <1>3, <1>4, ConvertingOwns DEF At
  <2> QED BY <1>1, <1>2, <1>3, <2>1 DEF Received, Expected
<1> QED BY <1>1, <1>2, <1>3, <1>5, <1>6, <1>7

\* The task that moved, and is still in its call.
LEMMA FreshStep ==
  ASSUME LockInv, NEW t \in Tasks, Fresh(t), Step(t) PROVE Fresh(t)'
<1> SUFFICES ASSUME Holds(t)', NEW j \in 1..(pc'[t] - 1), prog'[t][j].op = "swapTx",
                    \A k \in j..(pc'[t] - 1) :
                      prog'[t][k].op \notin {"take", "give"} /\ "wr" \notin prog'[t][k].regs
             PROVE  conv'[t] = Expected("wr")'
  BY DEF Fresh
<1>1. /\ ~Idle(t) /\ prog'[t] = prog[t]
      /\ pc'[t] = pc[t] + 1 \/ (At(t, {"test"}) /\ pc[t] = 1 /\ pc'[t] = 3)
  BY Moved DEF Holds
<1>2. /\ prog[t] \in Seq(Op) /\ pc[t] \in 1..Len(prog[t]) /\ WellFormed(prog[t]) /\ TypeOK
  BY <1>1, InStep
<1>3. pc'[t] = pc[t] + 1
  <2>1. ASSUME At(t, {"test"}), pc[t] = 1, pc'[t] = 3 PROVE FALSE
    <3>1. prog[t][1].op = "test" /\ prog[t][2].op = "create" /\ j \in {1, 2}
      BY <1>2, <2>1 DEF At, WellFormed
    <3> QED BY <1>1, <3>1
  <2> QED BY <1>1, <2>1
<1>4. pc[t] \in j..(pc'[t] - 1) /\ j \in 1..pc[t]
  BY <1>2, <1>3
<1>5. prog[t][pc[t]].op \notin {"take", "give"} /\ "wr" \notin prog[t][pc[t]].regs
  BY <1>1, <1>4
<1>6. "wr" \in CfgRegs
  BY DEF CfgRegs, Order
<1>7. cfg'["wr"] = cfg["wr"]
  BY <1>1, <1>5, <1>6, OthersKept
<1>8. CASE j = pc[t]
  <2>1. ConvertTx(t)
    BY <1>1, <1>2, <1>8, StepIs
  <2> QED BY <1>2, <1>7, <2>1 DEF ConvertTx, Expected, TypeOK
<1>9. CASE j # pc[t]
  <2>1. Holds(t)
    BY <1>1, <1>2, <1>3, <1>5, HeldAtStep DEF Holds
  <2>2. j \in 1..(pc[t] - 1) /\ \A k \in j..(pc[t] - 1) : k \in j..(pc'[t] - 1)
    BY <1>2, <1>3, <1>4, <1>9
  <2>3. conv[t] = Expected("wr")
    BY <1>1, <2>1, <2>2 DEF Fresh
  <2>4. CASE prog[t][pc[t]].op = "swapTx"
    <3>1. ConvertTx(t)
      BY <1>2, <2>4, StepIs
    <3> QED BY <1>2, <1>7, <3>1 DEF ConvertTx, Expected, TypeOK
  <2>5. CASE prog[t][pc[t]].op # "swapTx"
    <3>1. conv' = conv
      BY <1>2, <2>5, StepIs
    <3> QED BY <1>7, <2>3, <3>1 DEF Expected
  <2> QED BY <2>4, <2>5
<1> QED BY <1>8, <1>9

LEMMA OrderedStep ==
  ASSUME IInv, AllBuffered, NEW t \in Tasks, Step(t),
         Converts(prog[t]), Fresh(t), Ordered(t)
  PROVE  Ordered(t)'
<1> SUFFICES ASSUME At(t, {"kick", "wait", "fetch"})' PROVE Ordered(t)'
  BY DEF Ordered, At
<1>1. /\ ~Idle(t) /\ prog'[t] = prog[t]
      /\ pc'[t] = pc[t] + 1 \/ (At(t, {"test"}) /\ pc[t] = 1 /\ pc'[t] = 3)
      /\ LockInv
  BY Moved DEF At, IInv
<1>2. /\ prog[t] \in Seq(Op) /\ pc[t] \in 1..Len(prog[t]) /\ WellFormed(prog[t]) /\ TypeOK
  BY <1>1, InStep
<1>3. pc'[t] \in 1..Len(prog[t]) /\ prog[t][pc'[t]].op \in {"kick", "wait", "fetch"}
  <2>1. LockInv'
    BY <1>1, StepInv
  <2>2. ~Idle(t)' /\ prog'[t][pc'[t]].op \in {"kick", "wait", "fetch"}
    BY DEF At
  <2>3. pc'[t] \in 1..Len(prog'[t])
    BY <2>1, <2>2 DEF LockInv, InCalls
  <2> QED BY <1>1, <2>2, <2>3
<1>4. pc'[t] = pc[t] + 1
  <2>1. ASSUME At(t, {"test"}), pc[t] = 1, pc'[t] = 3 PROVE FALSE
    <3>1. prog[t][1].op = "test" /\ prog[t][2].op = "create" /\ 3 - 1 = 2
      BY <1>2, <2>1 DEF At, WellFormed
    <3>2. prog[t][3-1].op \in {"load", "kick", "wait"}
      BY <1>2, <1>3, <2>1 DEF WellFormed
    <3> QED BY <3>1, <3>2
  <2> QED BY <1>1, <2>1
<1> DEFINE i    == pc[t]
           now  == prog[t][i].op
           next == prog[t][i + 1].op
<1>5. i \in 1..Len(prog[t]) /\ i + 1 \in 1..Len(prog[t]) /\ pc'[t] = i + 1 /\ i \in Nat /\ (i + 1) - 1 = i
  BY <1>2, <1>3, <1>4
<1>6. /\ next \in {"kick", "wait", "fetch"}
      /\ next = "kick"  => now = "load"
      /\ next = "wait"  => now = "kick"
      /\ next = "fetch" => now = "wait"
  <2>1. next \in {"kick", "wait", "fetch"}
    BY <1>3, <1>4
  <2>2. WellFormed(prog[t])
    BY <1>2
  <2> HIDE DEF i
  <2> QED BY <1>5, <2>1, <2>2 DEF WellFormed
<1>7. \A ops : At(t, ops)' <=> next \in ops
  BY <1>1, <1>5 DEF At, Idle
<1>8. CASE next = "kick"
  <2>1. Load(t) /\ cfg' = cfg
    BY <1>2, <1>6, <1>8, StepIs DEF Load
  <2>2. i \in 1..Len(prog[t]) /\ prog[t][i].op = "load" /\ ConvertsAt(prog[t], i)
    BY <1>5, <1>6, <1>8 DEF Converts
  <2>3. At(t, Access \cup {"give"})
    BY <1>1, <2>2 DEF At, Access
  <2>4. Holds(t)
    BY <1>1, <2>3, AccessOwns DEF LockInv, OwnerHolds
  <2>5. prog[t][i].val = 1 => conv[t] = Expected("wr")
    <3> SUFFICES ASSUME prog[t][i].val = 1 PROVE conv[t] = Expected("wr")
      OBVIOUS
    <3>1. PICK j \in 1..(i - 1) :
            /\ prog[t][j].op = "swapTx"
            /\ \A k \in j..i : prog[t][k].op \notin {"take", "give"} /\ "wr" \notin prog[t][k].regs
      BY <2>2 DEF ConvertsAt
    <3>2. \A k \in j..(i - 1) : k \in j..i
      BY <1>5
    <3> QED BY <2>4, <3>1, <3>2 DEF Fresh
  <2>6. ~buf'.answered /\ buf'.order = OrderOf(prog[t][i], "wr")
    BY <2>1, <2>5 DEF Load, OrderOf
  <2>7. buf'.order = IF prog'[t][pc'[t] - 1].val = 1 THEN Expected("wr")' ELSE "raw"
    BY <1>1, <1>5, <2>1, <2>6 DEF OrderOf, Expected
  <2> QED BY <1>7, <1>8, <2>6, <2>7 DEF Ordered, OrderOf
<1>9. CASE next = "wait"
  <2>1. At(t, {"kick"}) /\ UNCHANGED <<buf, cfg>>
    BY <1>1, <1>2, <1>6, <1>9, StepIs DEF At
  <2>2. ~buf'.answered /\ buf'.order = OrderOf(prog[t][i-1], "wr")
    BY <2>1 DEF Ordered
  <2>3. (i + 1) - 2 = i - 1
    BY <1>5
  <2>4. buf'.order = IF prog'[t][pc'[t] - 2].val = 1 THEN Expected("wr")' ELSE "raw"
    BY <1>1, <1>5, <2>1, <2>2, <2>3 DEF OrderOf, Expected
  <2> QED BY <1>7, <1>9, <2>2, <2>4 DEF Ordered, OrderOf
<1>10. CASE next = "fetch"
  <2>1. At(t, {"wait"}) /\ UNCHANGED <<buf, cfg>> /\ Wait(t)
    BY <1>1, <1>2, <1>6, <1>10, StepIs DEF At
  <2>2. buf.answered
    BY <2>1 DEF Wait, AllBuffered, Buffered
  <2>3. buf'.order = OrderOf(prog[t][i-2], "rd")
    BY <2>1, <2>2 DEF Ordered
  <2>4. (i + 1) - 3 = i - 2
    BY <1>5
  <2>5. buf'.order = IF prog'[t][pc'[t] - 3].val = 1 THEN Expected("rd")' ELSE "raw"
    BY <1>1, <1>5, <2>1, <2>3, <2>4 DEF OrderOf, Expected
  <2> QED BY <1>7, <1>10, <2>5 DEF Ordered, OrderOf
<1> QED BY <1>6, <1>8, <1>9, <1>10

LEMMA ReceivedStep ==
  ASSUME LockInv, NEW t \in Tasks, Step(t), Converts(prog[t]), Ordered(t), Received(t)
  PROVE  Received(t)'
<1>1. ~Idle(t) /\ TypeOK
  BY StepIs DEF LockInv
<1>2. prog[t] \in Seq(Op) /\ pc[t] \in 1..Len(prog[t]) /\ WellFormed(prog[t])
  BY <1>1, InStep
<1> DEFINE i   == pc[t]
           now == prog[t][i].op
<1>3. ConvertsAt(prog[t], i) /\ i \in Nat
  BY <1>2 DEF Converts
\* Where the next step converts a reply, this one reads it.
<1>4. ASSUME At(t, {"swapRx"})' PROVE now = "fetch" /\ prog[t][i-3].val = 1
  <2>1. /\ prog'[t] = prog[t]
        /\ pc'[t] = i + 1 \/ (At(t, {"test"}) /\ i = 1 /\ pc'[t] = 3)
    BY <1>4, Moved DEF At
  <2>2. pc'[t] \in 1..Len(prog[t]) /\ prog[t][pc'[t]].op = "swapRx"
    <3>1. LockInv'
      BY StepInv
    <3> QED BY <1>4, <2>1, <3>1 DEF LockInv, InCalls, At
  <2>3. pc'[t] > 4 /\ prog[t][pc'[t] - 1].op = "fetch" /\ prog[t][pc'[t] - 4].val = 1
    BY <2>2 DEF Converts, ConvertsAt
  <2>4. pc'[t] = i + 1 /\ pc'[t] - 1 = i /\ pc'[t] - 4 = i - 3
    BY <1>3, <2>1, <2>3
  <2> QED BY <2>3, <2>4
<1>5. CASE now = "fetch"
  <2>1. got'[t].order = OrderOf(prog[t][i-3], "rd") /\ cfg' = cfg /\ pc[t] = i
    <3>1. Fetch(t) /\ At(t, {"fetch"})
      BY <1>1, <1>5, StepIs DEF At
    <3>2. got'[t] = buf /\ cfg' = cfg
      BY <1>1, <3>1 DEF Fetch, TypeOK
    <3> QED BY <3>1, <3>2 DEF Ordered
  <2>2. CASE prog[t][i-3].val = 1
    <3>1. i < Len(prog[t]) /\ prog[t][i+1].op = "swapRx"
      BY <1>3, <1>5, <2>2 DEF ConvertsAt
    <3>2. Advance(t)
      BY <1>1, <1>5, StepIs DEF Fetch
    <3>3. prog' = prog /\ pc'[t] = i + 1
      BY <1>1, <1>2, <3>1, <3>2 DEF Advance, TypeOK
    <3>4. At(t, {"swapRx"})'
      BY <1>1, <3>1, <3>3 DEF At, Idle
    <3> QED BY <2>1, <2>2, <3>4 DEF Received, OrderOf, Expected
  <2>3. CASE prog[t][i-3].val # 1
    <3>1. ~At(t, {"swapRx"})'
      BY <1>4, <2>3
    <3> QED BY <2>1, <2>3, <3>1 DEF Received, OrderOf
  <2> QED BY <2>2, <2>3
<1>6. CASE now = "swapRx"
  <2>1. ~At(t, {"swapRx"})'
    BY <1>4, <1>6
  <2>2. ConvertRx(t) /\ got[t].order = Expected("rd")
    BY <1>1, <1>6, StepIs DEF Received, At
  <2>3. got'[t].order = "native"
    BY <1>1, <2>2 DEF ConvertRx, Expected, Swapped, TypeOK, Exchanges
  <2> QED BY <2>1, <2>3 DEF Received
<1>7. CASE now \notin {"fetch", "swapRx"}
  <2>1. got' = got /\ ~At(t, {"swapRx"}) /\ ~At(t, {"swapRx"})'
    BY <1>1, <1>4, <1>7, StepIs DEF At
  <2> QED BY <2>1 DEF Received
<1> QED BY <1>5, <1>6, <1>7

LEMMA WordStep == ASSUME IInv, AllBuffered, WordInv, NEW t \in Tasks, Step(t) PROVE WordInv'
<1>1. LockInv /\ TypeOK /\ ~Idle(t)
  BY StepIs DEF IInv, LockInv
<1>2. Converts(prog[t]) /\ Fresh(t) /\ Ordered(t) /\ Received(t)
  BY <1>1 DEF WordInv
<1>3. ~Idle(t)' => Converts(prog'[t])
  BY <1>1, <1>2, Moved
<1>4. Fresh(t)' /\ Ordered(t)' /\ Received(t)'
  BY <1>1, <1>2, FreshStep, OrderedStep, ReceivedStep
<1> QED BY <1>3, <1>4, WordOthers DEF WordInv

\* A call begins with nothing converted, sent or received.
LEMMA WordEnter ==
  ASSUME LockInv, WordInv, NEW t \in Tasks, NEW p, WellFormed(p), Converts(p), Enter(t, p),
         UNCHANGED <<cfg, buf>>
  PROVE  WordInv'
<1>1. /\ \A s \in Tasks \ {t} : prog'[s] = prog[s] /\ pc'[s] = pc[s]
      /\ prog'[t] = p /\ pc'[t] = 1 /\ p # <<>> /\ ~Holds(t)'
  BY EnterEffect DEF LockInv
<1>2. /\ \A s \in Tasks \ {t} : conv'[s] = conv[s] /\ got'[s] = got[s]
      /\ got'[t] = NoExchange
  BY DEF Enter, LockInv, TypeOK
<1>3. ASSUME NEW s \in Tasks \ {t}
      PROVE  (~Idle(s)' => Converts(prog'[s])) /\ Fresh(s)' /\ Ordered(s)' /\ Received(s)'
  <2>1. (Idle(s)' <=> Idle(s)) /\ (Holds(s)' <=> Holds(s)) /\ \A ops : At(s, ops)' <=> At(s, ops)
    BY <1>1 DEF Idle, Holds, At
  <2>2. (~Idle(s) => Converts(prog[s])) /\ Fresh(s) /\ Ordered(s) /\ Received(s)
    BY DEF WordInv
  <2>3. Fresh(s)'
    BY <1>1, <1>2, <2>1, <2>2 DEF Fresh, Expected
  <2>4. Ordered(s)'
    BY <1>1, <2>1, <2>2 DEF Ordered, OrderOf, Expected
  <2>5. Received(s)'
    BY <1>1, <1>2, <2>1, <2>2 DEF Received, Expected
  <2> QED BY <1>1, <2>1, <2>2, <2>3, <2>4, <2>5
<1>4. ~At(t, {"kick", "wait", "fetch", "swapRx"})'
  <2>1. 1 \in 1..Len(p)
    BY DEF WellFormed
  <2>2. p[1].op \notin {"kick", "wait", "fetch"}
    BY <2>1 DEF WellFormed
  <2>3. p[1].op # "swapRx"
    BY <2>1 DEF Converts, ConvertsAt
  <2> QED BY <1>1, <2>2, <2>3 DEF At
<1>5. Ordered(t)' /\ Fresh(t)'
  BY <1>1, <1>4 DEF Ordered, Fresh, At
<1>6. Received(t)'
  BY <1>2, <1>4 DEF Received, At, NoExchange
<1> QED BY <1>1, <1>3, <1>5, <1>6 DEF WordInv

\* The answer to a word comes in the order that the receiving bit order gives it.
LEMMA WordComplete == ASSUME IInv, WordInv, Complete PROVE WordInv'
<1>1. /\ UNCHANGED <<cfg, prog, pc, conv, got>> /\ buf'.answered
      /\ buf'.order = IF buf.order = "raw" THEN "raw" ELSE Expected("rd")
  BY DEF Complete, IInv, LockInv, TypeOK, Exchanges, Expected
<1>2. PICK o \in Tasks : At(o, {"wait"}) /\ owner[1] = o
  BY WireOwner DEF Complete
<1> SUFFICES ASSUME NEW t \in Tasks
             PROVE  (~Idle(t)' => Converts(prog'[t])) /\ Fresh(t)' /\ Ordered(t)' /\ Received(t)'
  BY DEF WordInv
<1>3. (~Idle(t) => Converts(prog[t])) /\ Fresh(t) /\ Ordered(t) /\ Received(t)
  BY DEF WordInv
<1>4. (Idle(t)' <=> Idle(t)) /\ (Holds(t)' <=> Holds(t)) /\ \A ops : At(t, ops)' <=> At(t, ops)
  BY <1>1 DEF Idle, Holds, At
<1>5. Fresh(t)' /\ Received(t)'
  BY <1>1, <1>3, <1>4 DEF Fresh, Received, Expected
<1>6. Ordered(t)'
  <2>1. ~At(t, {"kick", "fetch"})
    <3> SUFFICES ASSUME At(t, {"kick", "fetch"}) PROVE FALSE
      OBVIOUS
    <3>1. At(t, Access \cup {"give"})
      BY DEF At, Access
    <3>2. t = o
      BY <1>2, <3>1, AccessOwns DEF IInv
    <3> QED BY <1>2, <3>2 DEF At
  <2>2. ~At(t, {"kick"})' /\ ~At(t, {"fetch"})'
    BY <1>4, <2>1 DEF At
  <2> QED BY <1>1, <1>3, <1>4, <2>2 DEF Ordered, OrderOf, Expected
<1> QED BY <1>1, <1>3, <1>4, <1>5, <1>6

\* Every call that the tasks make converts its words inside.
LEMMA AllConvert ==
  ASSUME DriverOnly, InsideOnly, NEW t \in Tasks, NEW p,
         (Start(t) /\ p \in Starts) \/ (Call(t) /\ p \in Calls[t])
  PROVE  WellFormed(p) /\ Converts(p)
<1>1. WellFormed(p)
  BY DriverWellFormed DEF WellFormedCalls, Start
<1>2. CASE p \in Starts
  <2>1. PICK div, mode, order \in Nat : p = spiStartBus(div, mode, order)
    BY <1>2 DEF DriverOnly
  <2> QED BY <1>1, <2>1, StartConverts
<1>3. CASE p \in Calls[t]
  BY <1>1, <1>3, InsideConverts DEF InsideOnly
<1> QED BY <1>2, <1>3

LEMMA WordNext ==
  ASSUME DriverOnly, InsideOnly, IInv, AllBuffered, WordInv, [Next]_vars PROVE WordInv'
<1>1. CASE \E t \in Tasks : Start(t) \/ Call(t)
  <2>1. PICK t \in Tasks : Start(t) \/ Call(t)
    BY <1>1
  <2>2. PICK p : Enter(t, p) /\ ((Start(t) /\ p \in Starts) \/ (Call(t) /\ p \in Calls[t]))
    <3>1. Start(t) => \E p \in Starts : Enter(t, p)
      BY DEF Start
    <3>2. Call(t) => \E p \in Calls[t] : Enter(t, p)
      BY DEF Call
    <3> QED BY <2>1, <3>1, <3>2
  <2>3. WellFormed(p) /\ Converts(p)
    BY <2>2, AllConvert
  <2>4. UNCHANGED <<cfg, buf>> /\ LockInv
    BY <2>1 DEF Start, Call, IInv
  <2> QED BY <2>2, <2>3, <2>4, WordEnter
<1>2. CASE \E t \in Tasks : Step(t)
  BY <1>2, WordStep
<1>3. CASE Complete
  BY <1>3, WordComplete
<1>4. CASE UNCHANGED vars
  BY <1>4 DEF vars, WordInv, Fresh, Ordered, Received, OrderOf, Expected, Holds, At, Idle
<1> QED BY <1>1, <1>2, <1>3, <1>4 DEF Next

\* With calls that convert inside, what the buffer and the tasks hold is in the right order.
THEOREM SpiWordInvariant ==
  ASSUME DriverOnly, InsideOnly, SerialStart PROVE Spec => [](IInv /\ AllBuffered /\ WordInv)
<1>1. Init => AllBuffered /\ WordInv
  <2> SUFFICES ASSUME Init PROVE AllBuffered /\ WordInv
    OBVIOUS
  <2>1. \A t \in Tasks : Idle(t) /\ got[t] = NoExchange
    BY DEF Init, Idle
  <2> QED BY <2>1 DEF AllBuffered, Buffered, WordInv, Fresh, Holds, Ordered, Received, At, NoExchange
<1>2. IInv /\ AllBuffered /\ [Next]_vars => AllBuffered'
  BY BufferNext
<1>3. IInv /\ AllBuffered /\ WordInv /\ [Next]_vars => WordInv'
  BY WordNext
<1> QED BY <1>1, <1>2, <1>3, SpiLockInvariant, PTL DEF Spec

\* A word on the wire is in the byte order the bit order calls for, whatever the other tasks
\* do, for every call that converts it inside its section: the transaction functions, the
\* pixel loop and spiTransferBits.  The functions that convert it before they take the lock are
\* left out by InsideOnly, and violate this: a bit order set in between is not the word's.
THEOREM SpiWireOrder == ASSUME DriverOnly, InsideOnly, SerialStart PROVE Spec => []WireOrder
<1>1. IInv /\ WordInv => WireOrder
  <2> SUFFICES ASSUME IInv, WordInv, usr, ~buf.answered, buf.order # "raw"
               PROVE  (buf.order = "swapped") = (cfg["wr"] = 0)
    BY DEF WireOrder
  <2>1. PICK t \in Tasks : At(t, {"wait"})
    BY WireOwner
  <2> QED BY <2>1 DEF WordInv, Ordered, OrderOf, Expected
<1> QED BY <1>1, SpiWordInvariant, PTL

\* With the same calls, a word that a call returns is in memory order.
THEOREM SpiResultOrder == ASSUME DriverOnly, InsideOnly, SerialStart PROVE Spec => []ResultOrder
<1>1. WordInv => ResultOrder
  BY DEF WordInv, Received, ResultOrder, At
<1> QED BY <1>1, SpiWordInvariant, PTL

-----------------------------------------------------------------------------
(* No exchange runs on a controller that is not set up.                    *)

\* One SpiBus object is constructed on the controller, with a divider, and the calls of the
\* tasks neither stop its clock nor take it out of full duplex: spiStopBus is not among them.
OneStarter == \A s, t \in Starters : s = t
Constructs(p) == \E div \in Nat \ {0} : \E mode, order \in Nat : p = spiStartBus(div, mode, order)
LeavesConfigured(p) == \A i \in 1..Len(p) :
  p[i].op = "write" => /\ "clk" \in p[i].regs => p[i].val # 0
                       /\ "duplex" \in p[i].regs => p[i].val = 1
ConfiguredCalls ==
  /\ \A p \in Starts : Constructs(p)
  /\ \A t \in Tasks : \A p \in Calls[t] : LeavesConfigured(p)

\* The last write to r among the first i - 1 steps of p is of a value in V.
Leaves(p, i, r, V) == \E j \in 1..(i - 1) :
  /\ p[j].op = "write" /\ r \in p[j].regs /\ p[j].val \in V
  /\ \A k \in (j + 1)..(i - 1) : r \notin p[k].regs
Ends(p, r, V) == Leaves(p, Len(p) + 1, r, V)

\* A part of a call that neither waits for an exchange nor hands out the controller.
Silent(p) == p \in Seq(Op) /\ \A i \in 1..Len(p) : p[i].op \notin {"open", "wait"}

LEMMA SilentConcat == ASSUME NEW p, NEW q, Silent(p), Silent(q) PROVE Silent(p \o q)
<1> DEFINE r == p \o q
<1>1. /\ p \in Seq(Op) /\ q \in Seq(Op) /\ r \in Seq(Op) /\ Len(r) = Len(p) + Len(q)
      /\ \A i \in 1..Len(p) : r[i] = p[i]
      /\ \A i \in 1..Len(q) : r[Len(p) + i] = q[i]
  BY Concat DEF Silent
<1> HIDE DEF r
<1>2. ASSUME NEW i \in 1..Len(r) PROVE r[i].op \notin {"open", "wait"}
  <2>1. CASE i \in 1..Len(p)
    BY <1>1, <2>1 DEF Silent
  <2>2. CASE i \notin 1..Len(p)
    <3>1. i - Len(p) \in 1..Len(q) /\ Len(p) + (i - Len(p)) = i
      BY <1>1, <2>2
    <3>2. r[i] = q[i - Len(p)]
      BY <1>1, <3>1
    <3> QED BY <3>1, <3>2 DEF Silent
  <2> QED BY <2>1, <2>2
<1> QED BY <1>1, <1>2 DEF Silent, r

\* What the second part of a call writes stays, what the first writes too when the second does not.
LEMMA EndsConcat ==
  ASSUME NEW p \in Seq(Op), NEW q \in Seq(Op), NEW r, NEW V,
         Ends(q, r, V) \/ (Ends(p, r, V) /\ \A i \in 1..Len(q) : r \notin q[i].regs)
  PROVE  Ends(p \o q, r, V)
<1> DEFINE c == p \o q
<1>1. /\ c \in Seq(Op) /\ Len(c) = Len(p) + Len(q) /\ Len(p) \in Nat /\ Len(q) \in Nat
      /\ \A i \in 1..Len(p) : c[i] = p[i]
      /\ \A i \in 1..Len(q) : c[Len(p) + i] = q[i]
  BY Concat
<1> HIDE DEF c
<1>2. CASE Ends(q, r, V)
  <2>1. PICK j \in 1..Len(q) : /\ q[j].op = "write" /\ r \in q[j].regs /\ q[j].val \in V
                               /\ \A k \in (j + 1)..Len(q) : r \notin q[k].regs
    BY <1>1, <1>2 DEF Ends, Leaves
  <2> DEFINE h == Len(p) + j
  <2>2. h \in 1..Len(c) /\ c[h] = q[j]
    BY <1>1, <2>1
  <2>3. ASSUME NEW k \in (h + 1)..Len(c) PROVE r \notin c[k].regs
    <3>1. k - Len(p) \in (j + 1)..Len(q) /\ k - Len(p) \in 1..Len(q) /\ Len(p) + (k - Len(p)) = k
      BY <1>1, <2>1
    <3>2. c[k] = q[k - Len(p)]
      BY <1>1, <3>1
    <3> QED BY <2>1, <3>1, <3>2
  <2> HIDE DEF h
  <2>4. (Len(c) + 1) - 1 = Len(c)
    BY <1>1
  <2> QED BY <2>1, <2>2, <2>3, <2>4 DEF Ends, Leaves, c
<1>3. CASE Ends(p, r, V) /\ \A i \in 1..Len(q) : r \notin q[i].regs
  <2>1. PICK j \in 1..Len(p) : /\ p[j].op = "write" /\ r \in p[j].regs /\ p[j].val \in V
                               /\ \A k \in (j + 1)..Len(p) : r \notin p[k].regs
    BY <1>1, <1>3 DEF Ends, Leaves
  <2>2. j \in 1..Len(c) /\ c[j] = p[j]
    BY <1>1, <2>1
  <2>3. ASSUME NEW k \in (j + 1)..Len(c) PROVE r \notin c[k].regs
    <3>1. CASE k <= Len(p)
      <4>1. k \in (j + 1)..Len(p) /\ k \in 1..Len(p)
        BY <1>1, <2>1, <3>1
      <4> QED BY <1>1, <2>1, <4>1
    <3>2. CASE ~(k <= Len(p))
      <4>1. k - Len(p) \in 1..Len(q) /\ Len(p) + (k - Len(p)) = k
        BY <1>1, <3>2
      <4>2. c[k] = q[k - Len(p)]
        BY <1>1, <4>1
      <4> QED BY <1>3, <4>1, <4>2
    <3> QED BY <3>1, <3>2
  <2>4. (Len(c) + 1) - 1 = Len(c)
    BY <1>1
  <2> QED BY <2>1, <2>2, <2>3, <2>4 DEF Ends, Leaves, c
<1> QED BY <1>2, <1>3

\* A section whose last write to r is of a value in V.
LEMMA LockedEnds ==
  ASSUME NEW b, Unlocked(b), Silent(b)
  PROVE  /\ Silent(Locked(b))
         /\ \A r, V : Ends(b, r, V) => Ends(Locked(b), r, V)
         /\ \A r : (\A i \in 1..Len(b) : r \notin b[i].regs)
                     => \A i \in 1..Len(Locked(b)) : r \notin Locked(b)[i].regs
<1>1. /\ Lock \in Seq(Op) /\ Len(Lock) = 2 /\ Lock[1] = Do("ref") /\ Lock[2] = Do("take")
      /\ Unlock \in Seq(Op) /\ Len(Unlock) = 1 /\ Unlock[1] = Do("give") /\ b \in Seq(Op)
  BY DoIsOp DEF Lock, Unlock, OpNames, Silent
<1>2. Silent(Lock) /\ Silent(Unlock)
  <2>1. \A i \in 1..Len(Lock) : Lock[i].op \notin {"open", "wait"}
    BY <1>1 DEF Do
  <2>2. \A i \in 1..Len(Unlock) : Unlock[i].op \notin {"open", "wait"}
    BY <1>1 DEF Do
  <2> QED BY <1>1, <2>1, <2>2 DEF Silent
<1> DEFINE c == Lock \o b
<1>3. Locked(b) = c \o Unlock
  BY DEF Locked
<1>4. /\ c \in Seq(Op) /\ Len(c) = 2 + Len(b) /\ c[1] = Do("ref") /\ c[2] = Do("take") /\ Len(b) \in Nat
      /\ \A i \in 1..Len(b) : c[2 + i] = b[i]
  <2>1. /\ c \in Seq(Op) /\ Len(c) = Len(Lock) + Len(b) /\ \A i \in 1..Len(Lock) : c[i] = Lock[i]
        /\ \A i \in 1..Len(b) : c[Len(Lock) + i] = b[i]
    BY <1>1, Concat
  <2>2. 1 \in 1..Len(Lock) /\ 2 \in 1..Len(Lock)
    BY <1>1
  <2> HIDE DEF c
  <2> QED BY <1>1, <2>1, <2>2
<1>5. /\ c \o Unlock \in Seq(Op) /\ Len(c \o Unlock) = Len(c) + 1
      /\ \A i \in 1..Len(c) : (c \o Unlock)[i] = c[i]
      /\ (c \o Unlock)[Len(c) + 1] = Do("give")
  <2>1. 1 \in 1..Len(Unlock) /\ c \in Seq(Op)
    BY <1>1, <1>4
  <2> DEFINE e == c \o Unlock
  <2> HIDE DEF c
  <2>2. /\ e \in Seq(Op) /\ Len(e) = Len(c) + Len(Unlock) /\ \A i \in 1..Len(c) : e[i] = c[i]
        /\ \A i \in 1..Len(Unlock) : e[Len(c) + i] = Unlock[i]
    BY <1>1, <2>1, Concat
  <2> HIDE DEF e
  <2>3. Len(e) = Len(c) + 1 /\ e[Len(c) + 1] = Do("give")
    BY <1>1, <2>1, <2>2
  <2> QED BY <2>2, <2>3 DEF e
<1>6. Silent(Locked(b))
  <2>1. Silent(c)
    BY <1>2, SilentConcat
  <2> HIDE DEF c
  <2> QED BY <1>2, <1>3, <2>1, SilentConcat
<1>7. \A i \in 1..Len(Unlock) : Unlock[i].regs = {}
  BY <1>1 DEF Do
<1>8. ASSUME NEW r, NEW V, Ends(b, r, V) PROVE Ends(Locked(b), r, V)
  <2>1. Ends(c, r, V)
    BY <1>1, <1>8, EndsConcat
  <2>2. c \in Seq(Op) /\ \A i \in 1..Len(Unlock) : r \notin Unlock[i].regs
    BY <1>4, <1>7
  <2> HIDE DEF c
  <2> QED BY <1>1, <1>3, <2>1, <2>2, EndsConcat
<1>9. ASSUME NEW r, \A i \in 1..Len(b) : r \notin b[i].regs,
             NEW i \in 1..Len(c \o Unlock)
      PROVE  r \notin (c \o Unlock)[i].regs
  <2>1. CASE i = Len(c) + 1
    BY <1>5, <2>1 DEF Do
  <2>2. CASE i # Len(c) + 1
    <3>1. i \in 1..Len(c) /\ (c \o Unlock)[i] = c[i]
      BY <1>4, <1>5, <2>2
    <3>2. CASE i \in {1, 2}
      BY <1>4, <3>1, <3>2 DEF Do
    <3>3. CASE i \notin {1, 2}
      <4>1. i - 2 \in 1..Len(b) /\ 2 + (i - 2) = i
        BY <1>4, <3>1, <3>3
      <4>2. c[i] = b[i - 2]
        BY <1>4, <4>1
      <4> QED BY <1>9, <3>1, <4>1, <4>2
    <3> QED BY <3>2, <3>3
  <2> QED BY <2>1, <2>2
<1> QED BY <1>3, <1>6, <1>8, <1>9

\* What spiStartBus leaves, and where it hands out the controller.
LEMMA StartSteps ==
  ASSUME NEW p, Constructs(p)
  PROVE  /\ p \in Seq(Op) /\ Len(p) > 0
         /\ \A i \in 1..Len(p) : p[i].op # "wait" /\ (p[i].op = "open" => i = Len(p))
         /\ Leaves(p, Len(p), "clk", Nat \ {0}) /\ Leaves(p, Len(p), "duplex", {1})
<1>1. PICK div \in Nat \ {0}, mode \in Nat, order \in Nat : p = spiStartBus(div, mode, order)
  BY DEF Constructs
<1> DEFINE d  == <<Do("test"), Do("create")>>
           b1 == <<Write(Pins, 0), Write(User, 0), Write(Order, 0), Write({"clk"}, 0)>>
           w  == <<Write({"clk"}, div)>>
           c  == <<Write({"duplex"}, 1), Do("clear")>>
           e  == <<Do("open")>>
           s1 == Locked(b1)
           s2 == Locked(SetMode(mode))
           s3 == Locked(SetOrder(order))
           s4 == Locked(w)
           s5 == Locked(c)
<1>2. p = d \o s1 \o s2 \o s3 \o s4 \o s5 \o e
  BY <1>1 DEF spiStartBus, spiStopBus, spiSetDataMode, spiSetBitOrder, spiSetClockDiv
<1>3. Silent(d)
  <2>1. d \in Seq(Op) /\ Len(d) = 2 /\ d[1].op = "test" /\ d[2].op = "create"
    BY DoIsOp DEF OpNames
  <2> HIDE DEF d
  <2> QED BY <2>1 DEF Silent
<1>4. Silent(s1)
  <2>1. Unlocked(b1) /\ Len(b1) = 4 /\ \A i \in 1..4 : b1[i].op = "write"
    BY DoIsOp DEF Unlocked, Write, Op, OpNames, CfgRegs, Pins, User, Order
  <2> HIDE DEF b1
  <2>2. Silent(b1)
    BY <2>1 DEF Silent, Unlocked
  <2> QED BY <2>1, <2>2, LockedEnds
<1>5. Silent(s2) /\ Silent(s3)
  <2>1. Unlocked(SetMode(mode)) /\ Unlocked(SetOrder(order))
    BY ConfigBody DEF Body
  <2>2. Silent(SetMode(mode)) /\ Silent(SetOrder(order))
    BY DoIsOp, <2>1 DEF Silent, SetMode, SetOrder, Write, Unlocked
  <2> QED BY <2>1, <2>2, LockedEnds
<1>6. Silent(s4) /\ Ends(s4, "clk", Nat \ {0})
  <2>1. Unlocked(w) /\ Len(w) = 1 /\ w[1] = [op |-> "write", regs |-> {"clk"}, val |-> div]
    BY ConfigBody DEF Body, Write
  <2> HIDE DEF w
  <2>2. Silent(w) /\ Ends(w, "clk", Nat \ {0})
    BY <2>1 DEF Silent, Ends, Leaves, Unlocked
  <2> QED BY <2>1, <2>2, LockedEnds
<1>7. /\ Silent(s5) /\ Ends(s5, "duplex", {1})
      /\ \A i \in 1..Len(s5) : "clk" \notin s5[i].regs
  <2>1. /\ Unlocked(c) /\ Len(c) = 2 /\ c[1] = [op |-> "write", regs |-> {"duplex"}, val |-> 1]
        /\ c[2] = [op |-> "clear", regs |-> {}, val |-> 0]
    BY DoIsOp DEF Unlocked, Write, Do, Op, OpNames, CfgRegs, Pins, User, Order
  <2> HIDE DEF c
  <2>2. /\ Silent(c) /\ Ends(c, "duplex", {1})
        /\ \A i \in 1..Len(c) : "clk" \notin c[i].regs
    BY <2>1 DEF Silent, Ends, Leaves, Unlocked
  <2> QED BY <2>1, <2>2, LockedEnds
<1> HIDE DEF d, s1, s2, s3, s4, s5
<1>8. Silent(((d \o s1) \o s2) \o s3)
  BY <1>3, <1>4, <1>5, SilentConcat
<1>9. /\ Silent((((d \o s1) \o s2) \o s3) \o s4)
      /\ Ends((((d \o s1) \o s2) \o s3) \o s4, "clk", Nat \ {0})
  BY <1>6, <1>8, SilentConcat, EndsConcat DEF Silent
<1> DEFINE q == ((((d \o s1) \o s2) \o s3) \o s4) \o s5
<1>10. Silent(q) /\ Ends(q, "clk", Nat \ {0}) /\ Ends(q, "duplex", {1})
  BY <1>7, <1>9, SilentConcat, EndsConcat DEF Silent
<1> HIDE DEF q
<1>11. p = q \o e /\ q \in Seq(Op) /\ e \in Seq(Op) /\ Len(e) = 1 /\ e[1] = Do("open")
  BY <1>2, <1>10, DoIsOp DEF q, Silent, OpNames
<1> HIDE DEF e
<1>12. /\ p \in Seq(Op) /\ Len(p) = Len(q) + 1 /\ Len(q) \in Nat
       /\ \A i \in 1..Len(q) : p[i] = q[i]
  <2> DEFINE qe == q \o e
  <2>1. /\ qe \in Seq(Op) /\ Len(qe) = Len(q) + Len(e) /\ Len(q) \in Nat
        /\ \A i \in 1..Len(q) : qe[i] = q[i]
    <3>1. q \in Seq(Op) /\ e \in Seq(Op)
      BY <1>11
    <3> QED BY <3>1, Concat
  <2> HIDE DEF qe
  <2>2. p = qe
    BY <1>11 DEF qe
  <2> QED BY <1>11, <2>1, <2>2
<1>13. \A i \in 1..Len(p) : p[i].op # "wait" /\ (p[i].op = "open" => i = Len(p))
  <2>1. p[Len(p)].op = "open"
    <3>1. 1 \in 1..Len(e)
      BY <1>11
    <3>2. p[Len(q) + 1] = e[1]
      BY <1>11, <3>1, Concat
    <3> QED BY <1>11, <1>12, <3>2 DEF Do
  <2>2. \A i \in 1..Len(q) : p[i].op \notin {"open", "wait"}
    BY <1>10, <1>12 DEF Silent
  <2> QED BY <1>12, <2>1, <2>2
<1>14. ASSUME NEW r, NEW V, Ends(q, r, V) PROVE Leaves(p, Len(p), r, V)
  <2>1. PICK j \in 1..Len(q) : /\ q[j].op = "write" /\ r \in q[j].regs /\ q[j].val \in V
                               /\ \A k \in (j + 1)..Len(q) : r \notin q[k].regs
    BY <1>12, <1>14 DEF Ends, Leaves
  <2>2. Len(p) - 1 = Len(q) /\ \A k \in (j + 1)..Len(q) : k \in 1..Len(q)
    BY <1>12, <2>1
  <2> QED BY <1>12, <2>1, <2>2 DEF Leaves
<1> QED BY <1>10, <1>12, <1>13, <1>14

Configured == cfg["clk"] # 0 /\ cfg["duplex"] = 1

\* While a SpiBus is constructed nobody else uses the controller, and it has what was written so
\* far; once it is, the controller is set up and stays so.
ConfInv ==
  /\ \A t \in Tasks : Starting(t) =>
       /\ t \in Starters /\ handle[t] # "ok" /\ Constructs(prog[t])
       /\ Leaves(prog[t], pc[t], "clk", Nat \ {0}) => cfg["clk"] # 0
       /\ Leaves(prog[t], pc[t], "duplex", {1})    => cfg["duplex"] = 1
  /\ \A t \in Tasks : ~Idle(t) /\ ~Starting(t) =>
       LeavesConfigured(prog[t]) /\ \E s \in Starters : handle[s] = "ok"
  /\ \A s \in Starters : handle[s] = "ok" => Configured

\* A step of the construction.
LEMMA ConfStarting ==
  ASSUME LockInv, OneStarter, ConfInv, NEW t \in Tasks, Step(t), Starting(t) PROVE ConfInv'
<1>1. /\ ~Idle(t) /\ TypeOK /\ prog[t] \in Seq(Op) /\ pc[t] \in 1..Len(prog[t])
      /\ WellFormed(prog[t])
  BY InStep DEF Starting
<1>2. /\ t \in Starters /\ handle[t] # "ok" /\ Constructs(prog[t])
      /\ Leaves(prog[t], pc[t], "clk", Nat \ {0}) => cfg["clk"] # 0
      /\ Leaves(prog[t], pc[t], "duplex", {1})    => cfg["duplex"] = 1
  BY DEF ConfInv
<1>3. \A s \in Starters : s = t
  BY <1>2 DEF OneStarter
<1>4. \A s \in Tasks \ {t} : Idle(s)
  BY <1>2, <1>3 DEF ConfInv
<1>5. \A s \in Tasks \ {t} : Idle(s)'
  BY <1>4, OthersStay DEF Idle
<1>6. /\ ~Idle(t)' => prog'[t] = prog[t] /\ (pc'[t] = pc[t] + 1 \/ (pc[t] = 1 /\ pc'[t] = 3))
      /\ Starting(t)' <=> ~Idle(t)'
  BY Moved DEF Starting
<1>7. CASE Open(t)
  <2>1. pc[t] = Len(prog[t])
    BY <1>1, <1>2, <1>7, StartSteps DEF Open, At
  <2>2. Configured /\ cfg' = cfg
    BY <1>2, <1>7, <2>1, StartSteps DEF Open, Configured
  <2>3. Idle(t)'
    BY <1>1, <1>7, <2>1 DEF Open, Advance, Leave, Idle, TypeOK
  <2>4. \A s \in Tasks : Idle(s)' /\ ~Starting(s)'
    BY <1>5, <2>3 DEF Starting
  <2> QED BY <2>2, <2>4 DEF ConfInv, Configured
<1>8. CASE ~Open(t)
  <2>1. handle'[t] # "ok"
    BY <1>1, <1>2, <1>8 DEF Step, TestLock, CreateLock, CreateLockFails, ReadLock, Take, Give,
       WriteRegs, Clear, Load, Kick, Wait, Fetch, ConvertTx, ConvertRx, TypeOK
  <2>2. ASSUME NEW r \in CfgRegs, NEW V, Leaves(prog[t], pc[t], r, V) => cfg[r] \in V,
               ~Idle(t)', Leaves(prog[t], pc'[t], r, V)
        PROVE  cfg'[r] \in V
    <3>1. PICK j \in 1..(pc'[t] - 1) :
            /\ prog[t][j].op = "write" /\ r \in prog[t][j].regs /\ prog[t][j].val \in V
            /\ \A k \in (j + 1)..(pc'[t] - 1) : r \notin prog[t][k].regs
      BY <2>2 DEF Leaves
    <3>2. pc'[t] = pc[t] + 1
      <4>1. ASSUME pc[t] = 1, pc'[t] = 3 PROVE FALSE
        <5>1. prog[t][1].op = "test" /\ prog[t][2].op = "create" /\ j \in {1, 2}
          BY <1>1, <3>1, <4>1 DEF Starting, WellFormed
        <5> QED BY <3>1, <5>1
      <4> QED BY <1>6, <2>2, <4>1
    <3>3. CASE j = pc[t]
      BY <1>1, <3>1, <3>3, OthersKept
    <3>4. CASE j # pc[t]
      <4>1. j \in 1..(pc[t] - 1) /\ pc[t] \in (j + 1)..(pc'[t] - 1)
            /\ \A k \in (j + 1)..(pc[t] - 1) : k \in (j + 1)..(pc'[t] - 1)
        BY <1>1, <3>1, <3>2, <3>4
      <4>2. cfg[r] \in V
        BY <2>2, <3>1, <4>1 DEF Leaves
      <4>3. r \notin prog[t][pc[t]].regs
        BY <3>1, <4>1
      <4>4. cfg'[r] = cfg[r]
        BY <1>1, <4>3, OthersKept
      <4> QED BY <4>2, <4>4
    <3> QED BY <3>3, <3>4
  <2>3. "clk" \in CfgRegs /\ "duplex" \in CfgRegs /\ cfg'["clk"] \in Nat /\ cfg["clk"] \in Nat
    <3>1. TypeOK'
      BY StepInv DEF LockInv
    <3>2. "clk" \in CfgRegs /\ "duplex" \in CfgRegs
      BY DEF CfgRegs, User
    <3> QED BY <1>1, <3>1, <3>2 DEF TypeOK
  <2>4. ~Idle(t)' => /\ Leaves(prog[t], pc'[t], "clk", Nat \ {0}) => cfg'["clk"] # 0
                     /\ Leaves(prog[t], pc'[t], "duplex", {1})    => cfg'["duplex"] = 1
    <3>1. Leaves(prog[t], pc[t], "clk", Nat \ {0}) => cfg["clk"] \in Nat \ {0}
      BY <1>2, <2>3
    <3>2. Leaves(prog[t], pc[t], "duplex", {1}) => cfg["duplex"] \in {1}
      BY <1>2
    <3> QED BY <2>2, <2>3, <3>1, <3>2
  <2>5. \A s \in Tasks : Starting(s)' => s = t
    BY <1>5 DEF Starting
  <2>6. \A s \in Tasks : ~Idle(s)' => Starting(s)'
    BY <1>5, <1>6
  <2>7. \A s \in Starters : handle'[s] # "ok"
    BY <1>3, <2>1
  <2>8. Starting(t)' => prog'[t] = prog[t] /\ ~Idle(t)'
    BY <1>6
  <2> QED BY <1>2, <2>1, <2>4, <2>5, <2>6, <2>7, <2>8 DEF ConfInv
<1> QED BY <1>7, <1>8

\* A step of any other call.
LEMMA ConfCalling ==
  ASSUME LockInv, OneStarter, ConfInv, NEW t \in Tasks, Step(t), ~Starting(t) PROVE ConfInv'
<1>1. ~Idle(t) /\ TypeOK
  BY StepIs DEF LockInv
<1>2. prog[t] \in Seq(Op) /\ pc[t] \in 1..Len(prog[t]) /\ WellFormed(prog[t])
  BY <1>1, InStep
<1>3. LeavesConfigured(prog[t])
  BY <1>1 DEF ConfInv
<1>4. PICK o \in Starters : handle[o] = "ok"
  BY <1>1 DEF ConfInv
<1>5. o \in Tasks /\ \A s \in Starters : s = o
  BY StarterAssumption DEF OneStarter
<1>6. \A s \in Tasks : ~Starting(s)
  BY <1>4, <1>5 DEF ConfInv
<1>7. handle'[o] = "ok"
  <2>1. ~At(t, {"create"})
    BY <1>1, <1>2 DEF At, WellFormed, Starting
  <2> QED BY <1>1, <1>4, <1>5, <2>1 DEF Step, TestLock, CreateLock, CreateLockFails, Open, ReadLock,
         Take, Give, WriteRegs, Clear, Load, Kick, Wait, Fetch, ConvertTx, ConvertRx, TypeOK
<1>8. Configured'
  <2>1. Configured
    BY <1>4 DEF ConfInv
  <2>2. "clk" \in CfgRegs /\ "duplex" \in CfgRegs
    BY DEF CfgRegs, User
  <2>3. prog[t][pc[t]].op = "write" =>
           /\ "clk" \in prog[t][pc[t]].regs => prog[t][pc[t]].val # 0
           /\ "duplex" \in prog[t][pc[t]].regs => prog[t][pc[t]].val = 1
    BY <1>2, <1>3 DEF LeavesConfigured
  <2> QED BY <1>1, <2>1, <2>2, <2>3, OthersKept DEF Configured
<1>9. \A s \in Tasks : ~Idle(s)' => ~Idle(s) /\ prog'[s] = prog[s] /\ ~Starting(s)'
  BY <1>6, Moved DEF Starting
<1>10. \A s \in Tasks : ~Idle(s)' => LeavesConfigured(prog'[s])
  BY <1>6, <1>9 DEF ConfInv
<1> QED BY <1>4, <1>7, <1>8, <1>9, <1>10 DEF ConfInv, Starting

\* A call that begins: the construction, while nothing else goes on, or another when it is over.
LEMMA ConfEnter ==
  ASSUME DriverOnly, ConfiguredCalls, OneStarter, LockInv, ConfInv,
         NEW t \in Tasks, Start(t) \/ Call(t)
  PROVE  ConfInv'
<1>1. \A s \in Tasks \ {t} : prog'[s] = prog[s] /\ pc'[s] = pc[s]
  BY OthersStay
<1>2. \A s \in Tasks \ {t} : (Idle(s)' <=> Idle(s)) /\ (Starting(s)' <=> Starting(s))
  BY <1>1 DEF Idle, Starting
<1>3. UNCHANGED <<cfg, handle>>
  BY DEF Start, Call
<1>4. CASE Start(t)
  <2>1. PICK p \in Starts : Enter(t, p)
    BY <1>4 DEF Start
  <2>2. WellFormed(p) /\ Constructs(p) /\ t \in Starters /\ handle[t] # "ok"
    BY <1>4, <2>1, DriverWellFormed DEF WellFormedCalls, ConfiguredCalls, Start
  <2>3. prog'[t] = p /\ pc'[t] = 1 /\ p # <<>>
    BY <2>1, <2>2, EnterEffect DEF LockInv
  <2>4. p[1].op = "test"
    BY <2>1, StartBusIsCall DEF DriverOnly
  <2>5. Starting(t)'
    BY <2>3, <2>4 DEF Starting, Idle
  <2>6. \A r, V : ~Leaves(p, 1, r, V)
    BY DEF Leaves
  <2> QED BY <1>1, <1>2, <1>3, <2>2, <2>3, <2>5, <2>6 DEF ConfInv, Configured
<1>5. CASE Call(t)
  <2>1. PICK p \in Calls[t] : Enter(t, p)
    BY <1>5 DEF Call
  <2>2. WellFormed(p) /\ LeavesConfigured(p) /\ p[1].op # "test"
    BY <2>1, DriverCallIsCall DEF DriverOnly, ConfiguredCalls
  <2>3. prog'[t] = p /\ p # <<>>
    BY <2>1, <2>2, EnterEffect DEF LockInv
  <2>4. ~Starting(t)'
    BY <2>2, <2>3 DEF Starting
  <2>5. \E s \in Starters : handle[s] = "ok"
    BY <1>5 DEF Call, HasBus
  <2> QED BY <1>1, <1>2, <1>3, <2>2, <2>3, <2>4, <2>5 DEF ConfInv, Configured
<1> QED BY <1>4, <1>5

\* An exchange finds the controller with a clock and in full duplex, for every order of the calls
\* that use one SpiBus object: none is launched before spiStartBus has returned, and none of
\* the sections in between undoes what it set.
THEOREM SpiConfiguredInFlight ==
  ASSUME DriverOnly, ConfiguredCalls, OneStarter, SerialStart PROVE Spec => []ConfiguredInFlight
<1>1. Init => ConfInv
  BY StarterAssumption DEF Init, ConfInv, Starting, Idle
<1>2. IInv /\ ConfInv /\ [Next]_vars => ConfInv'
  <2> SUFFICES ASSUME IInv, ConfInv, [Next]_vars PROVE ConfInv'
    OBVIOUS
  <2>1. CASE \E t \in Tasks : Start(t) \/ Call(t)
    BY <2>1, ConfEnter DEF IInv
  <2>2. CASE \E t \in Tasks : Step(t)
    BY <2>2, ConfStarting, ConfCalling DEF IInv
  <2>3. CASE Complete \/ UNCHANGED vars
    BY <2>3 DEF Complete, vars, ConfInv, Configured, Starting, Idle
  <2> QED BY <2>1, <2>2, <2>3 DEF Next
<1>3. IInv /\ ConfInv => ConfiguredInFlight
  <2> SUFFICES ASSUME IInv, ConfInv, usr PROVE Configured
    BY DEF ConfiguredInFlight, Configured
  <2>1. PICK t \in Tasks : At(t, {"wait"})
    BY WireOwner
  <2>2. ~Idle(t) /\ pc[t] \in 1..Len(prog[t]) /\ prog[t][pc[t]].op = "wait"
    BY <2>1, InStep DEF At, IInv
  <2>3. ~Starting(t)
    BY <2>2, StartSteps DEF ConfInv
  <2> QED BY <2>2, <2>3 DEF ConfInv
<1> QED BY <1>1, <1>2, <1>3, SpiLockInvariant, PTL DEF Spec
=============================================================================
