---------------------------- MODULE SpiBusProofs ----------------------------
(***************************************************************************)
(* Theorems about SpiBus, for any tasks, objects, pins and slaves: TypeOK, *)
(* Released, SelectedInMessage, RightClock and WholeMessage.               *)
(*                                                                         *)
(* The invariant speaks of a call by its Kind, which its last step tells,  *)
(* and of the place in it by Left, the number of steps it still has.  It   *)
(* has a part for each thing that calls share: the objects, the            *)
(* controllers, DPORT, the pins, the locks, and what slaves have heard.    *)
(***************************************************************************)
EXTENDS SpiBus, FiniteSetTheorems, TLAPS

-----------------------------------------------------------------------------
(* Where a call is.                                                        *)

Kind(t) == IF todo[t] = <<>> THEN "idle" ELSE todo[t][Len(todo[t])]
Left(t) == Len(todo[t])

\* The exchanges of a message of n bytes.
Exchanges(n) == (n + 63) \div 64

\* The steps of a call when it starts.
Whole(kind, spi, n) ==
  CASE kind = "built"    -> 12
    [] kind = "gone"     -> 5
    [] kind = "div"      -> 4
    [] kind = "deselect" -> IF spi THEN 2 * Exchanges(n) + 4 ELSE 2
    [] OTHER             -> 0

\* The step of a message that leaves m - 1.
Message(spi, n, m) ==
  IF m = 1 THEN "deselect"
  ELSE IF ~spi THEN "select"
  ELSE IF m = 2 THEN "give"
  ELSE IF m = 2 * Exchanges(n) + 4 THEN "select"
  ELSE IF m = 2 * Exchanges(n) + 3 THEN "take"
  ELSE IF m % 2 = 0 THEN "launch" ELSE "await"

\* The step of a call that leaves m - 1.
Stage(kind, spi, n, m) ==
  CASE kind = "built"    -> Construct[13 - m]
    [] kind = "gone"     -> Destruct(TRUE)[6 - m]
    [] kind = "div"      -> SetFrequency[5 - m]
    [] kind = "deselect" -> Message(spi, n, m)

Kinds == {"idle", "built", "gone", "div", "deselect"}

\* What is left of a call is the end of one of the methods.
Shape ==
  \A t \in Tasks :
    /\ Kind(t) \in Kinds
    /\ Left(t) <= Whole(Kind(t), bus[on[t]].spi, arg[t])
    /\ \A m \in 1..Left(t) :
         todo[t][Left(t) - m + 1] = Stage(Kind(t), bus[on[t]].spi, arg[t], m)

\* A call is of an object that is in the state for it.
Calls ==
  \A t \in Tasks :
    /\ on[t] = None <=> Kind(t) = "idle"
    /\ Kind(t) = "built" => bus[on[t]].state = "making" /\ OwnerOf[on[t]] = t
    /\ Kind(t) = "gone"  => bus[on[t]].state = "ending" /\ OwnerOf[on[t]] = t
    /\ Kind(t) = "div"   => bus[on[t]].state = "made" /\ OwnerOf[on[t]] = t /\ arg[t] \in Freqs
    /\ Kind(t) = "deselect" => bus[on[t]].state = "made" /\ arg[t] \in Sizes

\* An object in the making, or at its end, is at its owner's hands.
Busy ==
  \A o \in Objects :
    /\ bus[o].state = "making" => OwnerOf[o] \in Tasks /\ Kind(OwnerOf[o]) = "built" /\ on[OwnerOf[o]] = o
    /\ bus[o].state = "ending" => OwnerOf[o] \in Tasks /\ Kind(OwnerOf[o]) = "gone" /\ on[OwnerOf[o]] = o

\* Whether an object has its controller, and what it has been given.
Given ==
  \A o \in Objects :
    LET left == Left(OwnerOf[o])
    IN  /\ bus[o].state = "none" => bus[o] = NoBus
        /\ bus[o].state = "making" => /\ bus[o].frequency = Default /\ bus[o].div = DivOf[Default]
                                      /\ left = 12 => ~bus[o].spi
                                      /\ left \in 2..11 => bus[o].spi
        /\ bus[o].state = "ending" => (left > 1 => bus[o].spi)

CallTypes ==
  /\ todo \in [Tasks -> Seq(Steps)]
  /\ on \in [Tasks -> Objects \cup {None}]
  /\ arg \in [Tasks -> Freqs \cup Sizes]
  /\ bus \in [Objects -> [state : {"none", "making", "made", "ending"}, spi : BOOLEAN,
                          frequency : Freqs, div : {DivOf[f] : f \in Freqs}]]
  /\ calls \in 0..MaxCalls

CallInv == CallTypes /\ Shape /\ Calls /\ Busy /\ Given

-----------------------------------------------------------------------------
(* The methods, step by step.                                              *)

LEMMA ExchangesType ==
  ASSUME NEW n \in Nat
  PROVE  Exchanges(n) \in Nat /\ 64 * Exchanges(n) <= n + 63
BY DEF Exchanges

LEMMA SizesNat == \A n \in Sizes : n \in Nat /\ n <= 64 * Longest
BY BoundAssumption

LEMMA BuiltStages ==
  ASSUME NEW spi, NEW n, NEW m \in 1..12
  PROVE  Stage("built", spi, n, m)
           = IF m = 12 THEN "create" ELSE IF m = 11 THEN "readClk" ELSE IF m = 10 THEN "setClk"
             ELSE IF m = 9 THEN "readRst" ELSE IF m = 8 THEN "clearRst" ELSE IF m = 7 THEN "stop"
             ELSE IF m = 6 THEN "clock" ELSE IF m = 5 THEN "duplex" ELSE IF m = 4 THEN "sck"
             ELSE IF m = 3 THEN "miso" ELSE IF m = 2 THEN "mosi" ELSE "built"
BY DEF Stage, Construct

LEMMA GoneStages ==
  ASSUME NEW spi, NEW n, NEW m \in 1..5
  PROVE  Stage("gone", spi, n, m)
           = IF m = 5 THEN "mosiOff" ELSE IF m = 4 THEN "misoOff" ELSE IF m = 3 THEN "sckOff"
             ELSE IF m = 2 THEN "stop" ELSE "gone"
BY DEF Stage, Destruct

LEMMA DivStages ==
  ASSUME NEW spi, NEW n, NEW m \in 1..4
  PROVE  Stage("div", spi, n, m)
           = IF m = 4 THEN "frequency" ELSE IF m = 3 THEN "compare" ELSE IF m = 2 THEN "setDiv" ELSE "div"
BY DEF Stage, SetFrequency

LEMMA MessageStages ==
  ASSUME NEW spi, NEW n, NEW m
  PROVE  Stage("deselect", spi, n, m) = Message(spi, n, m)
BY DEF Stage

LEMMA MessageSteps ==
  ASSUME NEW spi, NEW n, NEW m
  PROVE  /\ Message(spi, n, m) \in {"select", "take", "launch", "await", "give", "deselect"}
         /\ Message(spi, n, m) = "deselect" <=> m = 1
BY DEF Message

\* A message with a controller, as concatenations make it.
LEMMA TransferSteps ==
  ASSUME NEW n \in Nat
  PROVE  /\ Len(Transfer(TRUE, n)) = 2 * Exchanges(n) + 4
         /\ Transfer(TRUE, n) \in Seq(Steps)
         /\ \A m \in 1..(2 * Exchanges(n) + 4) :
              Transfer(TRUE, n)[2 * Exchanges(n) + 5 - m] = Message(TRUE, n, m)
<1> DEFINE N == Exchanges(n)
           mid == [i \in 1..(2 * N) |-> IF i % 2 = 1 THEN "launch" ELSE "await"]
           T == <<"select", "take">> \o mid \o <<"give", "deselect">>
<1>1. N \in Nat  BY ExchangesType
<1>2. Transfer(TRUE, n) = T  BY DEF Transfer, Exchanges
<1>3. mid \in Seq({"launch", "await"}) /\ Len(mid) = 2 * N /\ \A i \in 1..(2 * N) : mid[i] = IF i % 2 = 1 THEN "launch" ELSE "await"
  BY <1>1
<1>4. /\ <<"select", "take">> \in Seq(Steps) /\ <<"give", "deselect">> \in Seq(Steps)
      /\ mid \in Seq(Steps)
  BY <1>3 DEF Steps
<1>5. /\ Len(T) = 2 * N + 4 /\ T \in Seq(Steps)
      /\ T[1] = "select" /\ T[2] = "take"
      /\ \A i \in 3..(2 * N + 2) : T[i] = mid[i - 2]
      /\ T[2 * N + 3] = "give" /\ T[2 * N + 4] = "deselect"
  <2> HIDE DEF mid, N
  <2> QED  BY <1>1, <1>3, <1>4
<1> HIDE DEF T, mid
<1>6. ASSUME NEW m \in 1..(2 * N + 4)
      PROVE  T[2 * N + 5 - m] = Message(TRUE, n, m)
  <2>1. CASE m = 1  BY <1>1, <1>5, <2>1 DEF Message
  <2>2. CASE m = 2  BY <1>1, <1>5, <2>2 DEF Message
  <2>3. CASE m = 2 * N + 4  BY <1>1, <1>5, <2>3 DEF Message
  <2>4. CASE m = 2 * N + 3
    <3>1. 2 * N + 5 - m = 2 /\ m # 1 /\ m # 2 /\ m # 2 * N + 4  BY <1>1, <2>4
    <3>2. T[2 * N + 5 - m] = "take"  BY <3>1, <1>5
    <3>3. Message(TRUE, n, m) = "take"  BY <3>1, <2>4 DEF Message
    <3> QED  BY <3>2, <3>3
  <2>5. CASE m \in 3..(2 * N + 2)
    <3> DEFINE i == 2 * N + 3 - m
    <3>1. i \in 1..(2 * N) /\ T[2 * N + 5 - m] = mid[i]
      <4> DEFINE j == 2 * N + 5 - m
      <4>1. j \in 3..(2 * N + 2) /\ j - 2 = i /\ i \in 1..(2 * N)
        BY <1>1, <2>5
      <4> HIDE DEF j, i
      <4>2. T[j] = mid[j - 2]  BY <4>1, <1>5
      <4> QED  BY <4>1, <4>2 DEF j
    <3>2. i % 2 = 1 <=> m % 2 = 0  BY <1>1, <2>5
    <3>3. Message(TRUE, n, m) = IF m % 2 = 0 THEN "launch" ELSE "await"
      BY <1>1, <2>5 DEF Message
    <3> HIDE DEF i
    <3> QED  BY <1>3, <3>1, <3>2, <3>3
  <2>6. \/ m \in {1, 2, 2 * N + 4, 2 * N + 3}
        \/ m \in 3..(2 * N + 2)
    BY <1>1, <1>6
  <2> QED  BY <2>1, <2>2, <2>3, <2>4, <2>5, <2>6
<1> QED  BY <1>1, <1>2, <1>5, <1>6

LEMMA TransferNot ==
  ASSUME NEW n
  PROVE  /\ Transfer(FALSE, n) = <<"select", "deselect">>
         /\ \A m \in 1..2 : Transfer(FALSE, n)[3 - m] = Message(FALSE, n, m)
BY DEF Transfer, Message

LEMMA Here ==
  ASSUME CallTypes, Shape, NEW t \in Tasks
  PROVE  /\ Left(t) \in Nat
         /\ todo[t] = <<>> <=> Left(t) = 0
         /\ Left(t) = 0 <=> Kind(t) = "idle"
         /\ Kind(t) \in Kinds /\ Left(t) <= Whole(Kind(t), bus[on[t]].spi, arg[t])
         /\ Left(t) # 0 => Head(todo[t]) = Stage(Kind(t), bus[on[t]].spi, arg[t], Left(t))
<1>1. todo[t] \in Seq(Steps)  BY DEF CallTypes
<1>2. Left(t) \in Nat /\ (todo[t] = <<>> <=> Left(t) = 0)  BY <1>1 DEF Left
<1>3. Left(t) # 0 => Kind(t) \in Steps  BY <1>1, <1>2 DEF Kind, Left
<1>4. "idle" \notin Steps  BY DEF Steps
<1>5. Left(t) = 0 <=> Kind(t) = "idle"  BY <1>2, <1>3, <1>4 DEF Kind
<1>6. Kind(t) \in Kinds /\ Left(t) <= Whole(Kind(t), bus[on[t]].spi, arg[t])  BY DEF Shape
<1>7. ASSUME Left(t) # 0
      PROVE  Head(todo[t]) = Stage(Kind(t), bus[on[t]].spi, arg[t], Left(t))
  <2>1. Left(t) \in 1..Left(t) /\ Left(t) - Left(t) + 1 = 1  BY <1>2, <1>7
  <2>2. todo[t][1] = Stage(Kind(t), bus[on[t]].spi, arg[t], Left(t))  BY <2>1 DEF Shape
  <2> QED  BY <1>1, <1>2, <1>7, <2>2
<1> QED  BY <1>2, <1>5, <1>6, <1>7

Control == {"select", "take", "launch", "await", "give", "deselect"}

\* The place of each step in its method.
LEMMA Where ==
  ASSUME CallTypes, Shape, NEW t \in Tasks
  PROVE  /\ At(t, "create")   => Kind(t) = "built" /\ Left(t) = 12
         /\ At(t, "readClk")  => Kind(t) = "built" /\ Left(t) = 11
         /\ At(t, "setClk")   => Kind(t) = "built" /\ Left(t) = 10
         /\ At(t, "readRst")  => Kind(t) = "built" /\ Left(t) = 9
         /\ At(t, "clearRst") => Kind(t) = "built" /\ Left(t) = 8
         /\ At(t, "stop")     => (Kind(t) = "built" /\ Left(t) = 7) \/ (Kind(t) = "gone" /\ Left(t) = 2)
         /\ At(t, "clock")    => Kind(t) = "built" /\ Left(t) = 6
         /\ At(t, "duplex")   => Kind(t) = "built" /\ Left(t) = 5
         /\ At(t, "sck")      => Kind(t) = "built" /\ Left(t) = 4
         /\ At(t, "miso")     => Kind(t) = "built" /\ Left(t) = 3
         /\ At(t, "mosi")     => Kind(t) = "built" /\ Left(t) = 2
         /\ At(t, "built")    => Kind(t) = "built" /\ Left(t) = 1
         /\ At(t, "mosiOff")  => Kind(t) = "gone" /\ Left(t) = 5
         /\ At(t, "misoOff")  => Kind(t) = "gone" /\ Left(t) = 4
         /\ At(t, "sckOff")   => Kind(t) = "gone" /\ Left(t) = 3
         /\ At(t, "gone")     => Kind(t) = "gone" /\ Left(t) = 1
         /\ At(t, "frequency") => Kind(t) = "div" /\ Left(t) = 4
         /\ At(t, "compare")  => Kind(t) = "div" /\ Left(t) = 3
         /\ At(t, "setDiv")   => Kind(t) = "div" /\ Left(t) = 2
         /\ At(t, "div")      => Kind(t) = "div" /\ Left(t) = 1
         /\ \A step \in Control : At(t, step)
              => Kind(t) = "deselect" /\ step = Message(bus[on[t]].spi, arg[t], Left(t))
<1> DEFINE spi == bus[on[t]].spi
           n == arg[t]
           h == Head(todo[t])
           k == Kind(t)
           m == Left(t)
<1>0. SUFFICES ASSUME todo[t] # <<>>
               PROVE  /\ h = "create"   => k = "built" /\ m = 12
                      /\ h = "readClk"  => k = "built" /\ m = 11
                      /\ h = "setClk"   => k = "built" /\ m = 10
                      /\ h = "readRst"  => k = "built" /\ m = 9
                      /\ h = "clearRst" => k = "built" /\ m = 8
                      /\ h = "stop"     => (k = "built" /\ m = 7) \/ (k = "gone" /\ m = 2)
                      /\ h = "clock"    => k = "built" /\ m = 6
                      /\ h = "duplex"   => k = "built" /\ m = 5
                      /\ h = "sck"      => k = "built" /\ m = 4
                      /\ h = "miso"     => k = "built" /\ m = 3
                      /\ h = "mosi"     => k = "built" /\ m = 2
                      /\ h = "built"    => k = "built" /\ m = 1
                      /\ h = "mosiOff"  => k = "gone" /\ m = 5
                      /\ h = "misoOff"  => k = "gone" /\ m = 4
                      /\ h = "sckOff"   => k = "gone" /\ m = 3
                      /\ h = "gone"     => k = "gone" /\ m = 1
                      /\ h = "frequency" => k = "div" /\ m = 4
                      /\ h = "compare"  => k = "div" /\ m = 3
                      /\ h = "setDiv"   => k = "div" /\ m = 2
                      /\ h = "div"      => k = "div" /\ m = 1
                      /\ h \in Control => k = "deselect" /\ h = Message(spi, n, m)
  BY DEF At
<1>1. /\ m \in Nat \ {0} /\ k \in Kinds /\ k # "idle"
      /\ m <= Whole(k, spi, n) /\ h = Stage(k, spi, n, m)
  BY <1>0, Here
<1> HIDE DEF spi, n, h, k, m
<1>2. CASE k = "built"
  <2>1. m \in 1..12  BY <1>1, <1>2 DEF Whole
  <2> QED  BY <1>1, <1>2, <2>1, BuiltStages DEF Control
<1>3. CASE k = "gone"
  <2>1. m \in 1..5  BY <1>1, <1>3 DEF Whole
  <2> QED  BY <1>1, <1>3, <2>1, GoneStages DEF Control
<1>4. CASE k = "div"
  <2>1. m \in 1..4  BY <1>1, <1>4 DEF Whole
  <2> QED  BY <1>1, <1>4, <2>1, DivStages DEF Control
<1>5. CASE k = "deselect"
  <2>1. h = Message(spi, n, m) /\ h \in Control  BY <1>1, <1>5, MessageStages, MessageSteps DEF Control
  <2> QED  BY <1>5, <2>1 DEF Control
<1> QED  BY <1>1, <1>2, <1>3, <1>4, <1>5 DEF Kinds

\* A message's control steps, in numbers.
LEMMA Turn ==
  ASSUME CallTypes, Shape, Calls, NEW t \in Tasks, Kind(t) = "deselect"
  PROVE  LET N == Exchanges(arg[t])
             m == Left(t)
         IN  /\ N \in Nat /\ m \in Nat \ {0} /\ on[t] \in Objects
             /\ m <= IF bus[on[t]].spi THEN 2 * N + 4 ELSE 2
             /\ At(t, "deselect") <=> m = 1
             /\ At(t, "give")   <=> m = 2 /\ bus[on[t]].spi
             /\ At(t, "select") <=> m = IF bus[on[t]].spi THEN 2 * N + 4 ELSE 2
             /\ At(t, "take")   <=> m = 2 * N + 3 /\ m # 1 /\ bus[on[t]].spi
             /\ At(t, "launch") <=> m \in 3..(2 * N + 2) /\ m % 2 = 0 /\ bus[on[t]].spi
             /\ At(t, "await")  <=> m \in 3..(2 * N + 2) /\ m % 2 = 1 /\ bus[on[t]].spi
<1> DEFINE N == Exchanges(arg[t])
           m == Left(t)
           spi == bus[on[t]].spi
           h == Head(todo[t])
<1>1. arg[t] \in Sizes /\ on[t] \in Objects  BY DEF Calls, CallTypes
<1>2. N \in Nat  BY <1>1, SizesNat, ExchangesType
<1>3. m \in Nat \ {0} /\ todo[t] # <<>> /\ m <= IF spi THEN 2 * N + 4 ELSE 2
  BY Here DEF Whole
<1>4. h = Message(spi, arg[t], m)  BY <1>3, Here, MessageStages
<1>5. spi \in BOOLEAN  BY <1>1 DEF CallTypes
<1>6. h = IF m = 1 THEN "deselect" ELSE IF ~spi THEN "select" ELSE IF m = 2 THEN "give"
          ELSE IF m = 2 * N + 4 THEN "select" ELSE IF m = 2 * N + 3 THEN "take"
          ELSE IF m % 2 = 0 THEN "launch" ELSE "await"
  BY <1>4 DEF Message
<1>7. \A step : At(t, step) <=> h = step  BY <1>3 DEF At
<1> HIDE DEF h, spi, m, N
<1>8. /\ h = "deselect" <=> m = 1
      /\ h = "give"   <=> m = 2 /\ spi
      /\ h = "select" <=> m = IF spi THEN 2 * N + 4 ELSE 2
      /\ h = "take"   <=> m = 2 * N + 3 /\ m # 1 /\ spi
      /\ h = "launch" <=> m \in 3..(2 * N + 2) /\ m % 2 = 0 /\ spi
      /\ h = "await"  <=> m \in 3..(2 * N + 2) /\ m % 2 = 1 /\ spi
  BY <1>2, <1>3, <1>5, <1>6
<1> QED  BY <1>1, <1>2, <1>3, <1>7, <1>8 DEF h, spi, m, N

\* What a call still has before it.
LEMMA Ahead ==
  ASSUME CallTypes, Shape, NEW t \in Tasks
  PROVE  /\ Starting(t) <=> Kind(t) = "built" /\ Left(t) >= 8
         /\ Has(t, "built") <=> Kind(t) = "built"
         /\ Has(t, "div") <=> Kind(t) = "div"
         /\ Messaging(t) <=> Kind(t) = "deselect"
<1> DEFINE spi == bus[on[t]].spi
           n == arg[t]
           k == Kind(t)
           m == Left(t)
           S(j) == Stage(k, spi, n, j)
<1>1. m \in Nat /\ k \in Kinds /\ (m = 0 <=> k = "idle") /\ m <= Whole(k, spi, n)  BY Here
<1>2. \A j \in 1..m : todo[t][m - j + 1] = S(j)  BY DEF Shape
<1>3. ASSUME NEW step
      PROVE  Has(t, step) <=> \E j \in 1..m : S(j) = step
  <2>1. Has(t, step) <=> \E i \in 1..m : todo[t][i] = step  BY DEF Has, Left
  <2> HIDE DEF m, S
  <2>2. ASSUME NEW i \in 1..m
        PROVE  m - i + 1 \in 1..m /\ todo[t][i] = S(m - i + 1)
    <3>1. m - i + 1 \in 1..m /\ m - (m - i + 1) + 1 = i  BY <1>1
    <3> QED  BY <1>2, <3>1
  <2> QED  BY <1>1, <1>2, <2>1, <2>2
<1>4. /\ Starting(t) <=> \E j \in 1..m : S(j) = "clearRst"
      /\ Messaging(t) <=> \E j \in 1..m : S(j) = "deselect"
  BY <1>3 DEF Starting, Messaging
<1> HIDE DEF m, spi, n, k
<1>5. CASE k = "built"
  <2>1. m \in 1..12  BY <1>1, <1>5 DEF Whole
  <2>2. \A j \in 1..12 : /\ S(j) = "clearRst" <=> j = 8
                         /\ S(j) = "built" <=> j = 1
                         /\ S(j) # "div" /\ S(j) # "deselect"
    BY <1>5, BuiltStages
  <2> HIDE DEF S
  <2> QED  BY <1>3, <1>4, <1>5, <2>1, <2>2 DEF k, m
<1>6. CASE k = "gone"
  <2>1. m \in 1..5  BY <1>1, <1>6 DEF Whole
  <2>2. \A j \in 1..5 : S(j) \notin {"clearRst", "built", "div", "deselect"}
    BY <1>6, GoneStages
  <2> HIDE DEF S
  <2> QED  BY <1>3, <1>4, <1>6, <2>1, <2>2 DEF k, m
<1>7. CASE k = "div"
  <2>1. m \in 1..4  BY <1>1, <1>7 DEF Whole
  <2>2. \A j \in 1..4 : S(j) \notin {"clearRst", "built", "deselect"} /\ (S(j) = "div" <=> j = 1)
    BY <1>7, DivStages
  <2> HIDE DEF S
  <2> QED  BY <1>3, <1>4, <1>7, <2>1, <2>2 DEF k, m
<1>8. CASE k = "deselect"
  <2>1. m \in Nat \ {0}  BY <1>1, <1>8
  <2>2. \A j : S(j) \notin {"clearRst", "built", "div"} /\ (S(j) = "deselect" <=> j = 1)
    BY <1>8, MessageStages, MessageSteps
  <2> HIDE DEF S
  <2> QED  BY <1>3, <1>4, <1>8, <2>1, <2>2 DEF k, m
<1>9. CASE k = "idle"
  <2>1. 1..m = {}  BY <1>1, <1>9
  <2> QED  BY <1>3, <1>4, <1>9, <2>1 DEF k, m
<1> QED  BY <1>1, <1>5, <1>6, <1>7, <1>8, <1>9 DEF Kinds

-----------------------------------------------------------------------------
(* How the calls move.                                                     *)

\* Task t gets n steps on, the others stay where they are.
Moved(t, n) ==
  /\ Left(t)' = Left(t) - n
  /\ Kind(t)' = IF n = Left(t) THEN "idle" ELSE Kind(t)
  /\ on'[t] = IF n = Left(t) THEN None ELSE on[t]
  /\ n # Left(t) => arg'[t] = arg[t]
  /\ \A m \in 1..(Left(t) - n) : todo'[t][Left(t) - n - m + 1] = todo[t][Left(t) - m + 1]

\* The calls of tasks other than t stay as they are.
OthersStay(t) ==
  \A u \in Tasks \ {t} :
    /\ todo'[u] = todo[u] /\ on'[u] = on[u] /\ arg'[u] = arg[u]
    /\ Kind(u)' = Kind(u) /\ Left(u)' = Left(u)

\* What is typed of the calls alone.
ProgramTypes ==
  /\ todo \in [Tasks -> Seq(Steps)]
  /\ on \in [Tasks -> Objects \cup {None}]
  /\ arg \in [Tasks -> Freqs \cup Sizes]
  /\ calls \in 0..MaxCalls

LEMMA Advance ==
  ASSUME CallTypes, NEW t \in Tasks, NEW n \in 1..Left(t), Skip(t, n)
  PROVE  Moved(t, n) /\ OthersStay(t) /\ ProgramTypes'
<1> DEFINE q == SubSeq(todo[t], n + 1, Len(todo[t]))
           m == Left(t)
<1>1. todo[t] \in Seq(Steps) /\ m \in Nat /\ m = Len(todo[t])  BY DEF CallTypes, Left
<1>2. /\ q \in Seq(Steps) /\ Len(q) = m - n
      /\ \A i \in 1..(m - n) : q[i] = todo[t][n + i]
  <2>1. n + 1 \in 1..(m + 1)  BY <1>1
  <2>2. q \in Seq(Steps) /\ Len(q) = m - n  BY <1>1, <2>1
  <2>3. ASSUME NEW i \in 1..(m - n)  PROVE q[i] = todo[t][n + i]
    <3>1. n + 1 \in Int /\ m \in Int /\ i \in 1..(m - (n + 1) + 1) /\ n + 1 + i - 1 = n + i
      BY <1>1
    <3> QED  BY <1>1, <3>1
  <2> QED  BY <2>2, <2>3
<1> HIDE DEF q
<1>3. q = <<>> <=> n = m
  <2>1. q = <<>> <=> Len(q) = 0  BY <1>2
  <2> QED  BY <1>1, <1>2, <2>1
<1>4. /\ todo' = [todo EXCEPT ![t] = q]
      /\ on'   = [on EXCEPT ![t] = IF q = <<>> THEN None ELSE @]
      /\ arg'  = [arg EXCEPT ![t] = IF q = <<>> THEN Default ELSE @]
      /\ calls' = calls
  BY DEF Skip, q
<1>5. ProgramTypes'
  BY <1>2, <1>4, FreqAssumption DEF ProgramTypes, CallTypes
<1>6. todo'[t] = q /\ on'[t] = (IF n = m THEN None ELSE on[t]) /\ (n # m => arg'[t] = arg[t])
  BY <1>3, <1>4 DEF CallTypes
<1>7. ASSUME NEW u \in Tasks \ {t}
      PROVE  /\ todo'[u] = todo[u] /\ on'[u] = on[u] /\ arg'[u] = arg[u]
             /\ Kind(u)' = Kind(u) /\ Left(u)' = Left(u)
  <2>1. todo'[u] = todo[u] /\ on'[u] = on[u] /\ arg'[u] = arg[u]
    BY <1>4 DEF CallTypes
  <2> QED  BY <2>1 DEF Kind, Left
<1>8. Left(t)' = m - n  BY <1>2, <1>6 DEF Left
<1>9. Kind(t)' = IF n = m THEN "idle" ELSE Kind(t)
  <2>1. CASE n = m  BY <1>3, <1>6, <2>1 DEF Kind
  <2>2. CASE n # m
    <3>1. q[m - n] = todo[t][m]
      <4>1. m - n \in 1..(m - n) /\ n + (m - n) = m  BY <1>1, <2>2
      <4> QED  BY <1>2, <4>1
    <3>2. todo[t] # <<>>  BY <1>1, <2>2
    <3> QED  BY <1>1, <1>2, <1>3, <1>6, <2>2, <3>1, <3>2 DEF Kind
  <2> QED  BY <2>1, <2>2
<1>10. ASSUME NEW j \in 1..(m - n)
       PROVE  todo'[t][m - n - j + 1] = todo[t][m - j + 1]
  <2>1. m - n - j + 1 \in 1..(m - n) /\ n + (m - n - j + 1) = m - j + 1  BY <1>1
  <2> QED  BY <1>2, <1>6, <2>1
<1> QED  BY <1>5, <1>6, <1>7, <1>8, <1>9, <1>10 DEF Moved, OthersStay

\* Task t starts a call of the given kind.
Entered(t, o, x, kind) ==
  /\ Kind(t) = "idle" /\ Left(t) = 0
  /\ Kind(t)' = kind /\ on'[t] = o /\ arg'[t] = x
  /\ Left(t)' \in Nat \ {0}

LEMMA EnterCall ==
  ASSUME CallTypes, NEW t \in Tasks, NEW o \in Objects, NEW x \in Freqs \cup Sizes,
         NEW program \in Seq(Steps), NEW m \in Nat \ {0}, Len(program) = m,
         Enter(t, o, x, program)
  PROVE  /\ Entered(t, o, x, program[m]) /\ Left(t)' = m /\ OthersStay(t) /\ ProgramTypes'
         /\ todo'[t] = program
<1>1. /\ todo[t] = <<>> /\ calls < MaxCalls /\ calls' = calls + 1
      /\ todo' = [todo EXCEPT ![t] = program]
      /\ on' = [on EXCEPT ![t] = o]
      /\ arg' = [arg EXCEPT ![t] = x]
  BY DEF Enter
<1>2. Kind(t) = "idle" /\ Left(t) = 0  BY <1>1 DEF Kind, Left
<1>3. todo'[t] = program /\ on'[t] = o /\ arg'[t] = x  BY <1>1 DEF CallTypes
<1>4. program # <<>>  OBVIOUS
<1>5. Kind(t)' = program[m] /\ Left(t)' = m  BY <1>3, <1>4 DEF Kind, Left
<1>6. ASSUME NEW u \in Tasks \ {t}
      PROVE  /\ todo'[u] = todo[u] /\ on'[u] = on[u] /\ arg'[u] = arg[u]
             /\ Kind(u)' = Kind(u) /\ Left(u)' = Left(u)
  <2>1. todo'[u] = todo[u] /\ on'[u] = on[u] /\ arg'[u] = arg[u]
    BY <1>1 DEF CallTypes
  <2> QED  BY <2>1 DEF Kind, Left
<1>7. ProgramTypes'
  <2>1. calls' \in 0..MaxCalls  BY <1>1, BoundAssumption DEF CallTypes
  <2> QED  BY <1>1, <2>1 DEF ProgramTypes, CallTypes
<1> QED  BY <1>2, <1>3, <1>5, <1>6, <1>7 DEF Entered, OthersStay

\* A call of any kind but a message is the same whatever it is given.
LEMMA StageSame ==
  ASSUME NEW k \in Kinds \ {"deselect"}, NEW s1, NEW s2, NEW n1, NEW n2
  PROVE  Whole(k, s1, n1) = Whole(k, s2, n2) /\ \A m : Stage(k, s1, n1, m) = Stage(k, s2, n2, m)
<1>1. k \in {"idle", "built", "gone", "div"}  BY DEF Kinds
<1>2. Whole(k, s1, n1) = Whole(k, s2, n2)  BY <1>1 DEF Whole
<1>3. ASSUME NEW m PROVE Stage(k, s1, n1, m) = Stage(k, s2, n2, m)  BY <1>1 DEF Stage
<1> QED  BY <1>2, <1>3

\* The controllers of objects that messages are sent with.
SameController == \A u \in Tasks : Kind(u) = "deselect" => bus'[on[u]].spi = bus[on[u]].spi

LEMMA ShapeOthers ==
  ASSUME CallTypes, Shape, SameController, NEW t \in Tasks, OthersStay(t), NEW u \in Tasks \ {t}
  PROVE  /\ Kind(u)' \in Kinds
         /\ Left(u)' <= Whole(Kind(u)', bus'[on'[u]].spi, arg'[u])
         /\ \A m \in 1..Left(u)' :
              todo'[u][Left(u)' - m + 1] = Stage(Kind(u)', bus'[on'[u]].spi, arg'[u], m)
<1>1. /\ todo'[u] = todo[u] /\ on'[u] = on[u] /\ arg'[u] = arg[u]
      /\ Kind(u)' = Kind(u) /\ Left(u)' = Left(u)
  BY DEF OthersStay
<1>2. /\ Kind(u) \in Kinds
      /\ Left(u) <= Whole(Kind(u), bus[on[u]].spi, arg[u])
      /\ \A m \in 1..Left(u) : todo[u][Left(u) - m + 1] = Stage(Kind(u), bus[on[u]].spi, arg[u], m)
  BY DEF Shape
<1>3. /\ Whole(Kind(u), bus'[on[u]].spi, arg[u]) = Whole(Kind(u), bus[on[u]].spi, arg[u])
      /\ \A m : Stage(Kind(u), bus'[on[u]].spi, arg[u], m) = Stage(Kind(u), bus[on[u]].spi, arg[u], m)
  <2>1. CASE Kind(u) = "deselect"  BY <2>1 DEF SameController
  <2>2. CASE Kind(u) # "deselect"  BY <1>2, <2>2, StageSame
  <2> QED  BY <2>1, <2>2
<1> QED  BY <1>1, <1>2, <1>3

LEMMA WholeType ==
  ASSUME NEW kind \in Kinds, NEW spi, NEW n, kind = "deselect" => n \in Sizes
  PROVE  Whole(kind, spi, n) \in Nat
<1>1. CASE kind = "deselect"  BY <1>1, SizesNat, ExchangesType DEF Whole
<1>2. CASE kind # "deselect"  BY <1>2 DEF Whole, Kinds
<1> QED  BY <1>1, <1>2

LEMMA ShapeMoves ==
  ASSUME CallTypes, Shape, Calls, SameController, NEW t \in Tasks, NEW n \in 1..Left(t),
         Moved(t, n), OthersStay(t)
  PROVE  Shape'
<1>1. /\ Kind(t) \in Kinds /\ Left(t) \in Nat
      /\ Left(t) <= Whole(Kind(t), bus[on[t]].spi, arg[t])
      /\ \A m \in 1..Left(t) : todo[t][Left(t) - m + 1] = Stage(Kind(t), bus[on[t]].spi, arg[t], m)
  BY Here DEF Shape
<1>2. /\ Kind(t)' \in Kinds
      /\ Left(t)' <= Whole(Kind(t)', bus'[on'[t]].spi, arg'[t])
      /\ \A m \in 1..Left(t)' :
           todo'[t][Left(t)' - m + 1] = Stage(Kind(t)', bus'[on'[t]].spi, arg'[t], m)
  <2>1. CASE n = Left(t)
    <3>1. Left(t)' = 0 /\ Kind(t)' = "idle"  BY <1>1, <2>1 DEF Moved
    <3>2. 1..Left(t)' = {}  BY <3>1
    <3> QED  BY <3>1, <3>2 DEF Whole, Kinds
  <2>2. CASE n # Left(t)
    <3>1. /\ Kind(t)' = Kind(t) /\ Left(t)' = Left(t) - n /\ on'[t] = on[t] /\ arg'[t] = arg[t]
          /\ \A m \in 1..(Left(t) - n) : todo'[t][Left(t) - n - m + 1] = todo[t][Left(t) - m + 1]
      BY <2>2 DEF Moved
    <3>2. /\ Whole(Kind(t), bus'[on[t]].spi, arg[t]) = Whole(Kind(t), bus[on[t]].spi, arg[t])
          /\ \A m : Stage(Kind(t), bus'[on[t]].spi, arg[t], m) = Stage(Kind(t), bus[on[t]].spi, arg[t], m)
      <4>1. CASE Kind(t) = "deselect"
        <5>1. bus'[on[t]].spi = bus[on[t]].spi  BY <4>1 DEF SameController
        <5> QED  BY <5>1
      <4>2. CASE Kind(t) # "deselect"
        <5>1. Kind(t) \in Kinds \ {"deselect"}  BY <1>1, <4>2
        <5> QED  BY <5>1, StageSame
      <4> QED  BY <4>1, <4>2
    <3>3. Whole(Kind(t), bus[on[t]].spi, arg[t]) \in Int  BY <1>1, WholeType DEF Calls
    <3>4. Left(t) - n <= Whole(Kind(t), bus[on[t]].spi, arg[t])
      BY <1>1, <3>3
    <3>5. ASSUME NEW m \in 1..(Left(t) - n)
          PROVE  todo'[t][Left(t) - n - m + 1] = Stage(Kind(t), bus[on[t]].spi, arg[t], m)
      <4>1. m \in 1..Left(t)  BY <1>1
      <4> QED  BY <1>1, <3>1, <4>1
    <3> QED  BY <1>1, <3>1, <3>2, <3>4, <3>5
  <2> QED  BY <2>1, <2>2
<1>3. ASSUME NEW u \in Tasks
      PROVE  /\ Kind(u)' \in Kinds
             /\ Left(u)' <= Whole(Kind(u)', bus'[on'[u]].spi, arg'[u])
             /\ \A m \in 1..Left(u)' :
                  todo'[u][Left(u)' - m + 1] = Stage(Kind(u)', bus'[on'[u]].spi, arg'[u], m)
  <2>1. CASE u = t  BY <1>2, <2>1
  <2>2. CASE u # t  BY <2>2, ShapeOthers
  <2> QED  BY <2>1, <2>2
<1> QED  BY <1>3 DEF Shape

LEMMA GoDoes ==
  ASSUME CallInv, NEW t \in Tasks, todo[t] # <<>>, Go(t)
  PROVE  /\ 1 \in 1..Left(t) /\ Left(t) \in Nat \ {0} /\ on[t] \in Objects /\ Kind(t) # "idle"
         /\ Moved(t, 1) /\ OthersStay(t) /\ ProgramTypes'
<1>1. Left(t) \in Nat \ {0} /\ Kind(t) # "idle"  BY Here DEF CallInv
<1>2. on[t] \in Objects  BY <1>1 DEF CallInv, CallTypes, Calls
<1>3. Skip(t, 1) /\ 1 \in 1..Left(t)  BY <1>1 DEF Go
<1>4. Moved(t, 1) /\ OthersStay(t) /\ ProgramTypes'  BY <1>3, Advance DEF CallInv
<1> QED  BY <1>1, <1>2, <1>3, <1>4

LEMMA LeftBounds ==
  ASSUME CallInv, NEW t \in Tasks
  PROVE  /\ Left(t) \in Nat /\ (Left(t) = 0 <=> Kind(t) = "idle") /\ Kind(t) \in Kinds
         /\ Kind(t) # "idle" => on[t] \in Objects
         /\ Kind(t) = "built" => Left(t) <= 12
         /\ Kind(t) = "gone"  => Left(t) <= 5
         /\ Kind(t) = "div"   => Left(t) <= 4
<1>1. Left(t) \in Nat /\ (Left(t) = 0 <=> Kind(t) = "idle") /\ Kind(t) \in Kinds
      /\ Left(t) <= Whole(Kind(t), bus[on[t]].spi, arg[t])
  BY Here DEF CallInv
<1>2. Kind(t) # "idle" => on[t] \in Objects  BY DEF CallInv, CallTypes, Calls
<1> QED  BY <1>1, <1>2 DEF Whole

\* A step that leaves the objects alone, and does not decide on a controller.
LEMMA CallsGo ==
  ASSUME CallInv, NEW t \in Tasks, NEW n \in 1..Left(t), Moved(t, n), OthersStay(t), ProgramTypes',
         bus' = bus,
         \/ Kind(t) \in {"div", "deselect"}
         \/ n = 1 /\ Left(t) # 1 /\ (Kind(t) = "built" => Left(t) # 12)
  PROVE  CallInv'
<1>1. CallTypes'  BY DEF CallTypes, ProgramTypes, CallInv
<1>2. SameController  BY DEF SameController
<1>3. Shape'  BY <1>2, ShapeMoves DEF CallInv
<1>4. /\ Left(t)' = Left(t) - n
      /\ Kind(t)' = IF n = Left(t) THEN "idle" ELSE Kind(t)
      /\ on'[t] = IF n = Left(t) THEN None ELSE on[t]
      /\ n # Left(t) => arg'[t] = arg[t]
  BY DEF Moved
<1>5. \A u \in Tasks \ {t} : /\ on'[u] = on[u] /\ arg'[u] = arg[u]
                             /\ Kind(u)' = Kind(u) /\ Left(u)' = Left(u)
  BY DEF OthersStay
<1>6. \A u \in Tasks : on[u] = None <=> Kind(u) = "idle"  BY DEF CallInv, Calls
<1>7. Left(t) \in Nat \ {0} /\ Kind(t) # "idle"  BY LeftBounds
<1>8. ASSUME NEW u \in Tasks
      PROVE  /\ on'[u] = None <=> Kind(u)' = "idle"
             /\ Kind(u)' = "built" => bus'[on'[u]].state = "making" /\ OwnerOf[on'[u]] = u
             /\ Kind(u)' = "gone"  => bus'[on'[u]].state = "ending" /\ OwnerOf[on'[u]] = u
             /\ Kind(u)' = "div"   => bus'[on'[u]].state = "made" /\ OwnerOf[on'[u]] = u /\ arg'[u] \in Freqs
             /\ Kind(u)' = "deselect" => bus'[on'[u]].state = "made" /\ arg'[u] \in Sizes
  <2>1. CASE u = t  BY <1>4, <1>6, <1>7, <2>1 DEF CallInv, Calls
  <2>2. CASE u # t  BY <1>5, <2>2 DEF CallInv, Calls
  <2> QED  BY <2>1, <2>2
<1>9. Calls'  BY <1>8 DEF Calls
<1>10. ASSUME NEW o \in Objects
       PROVE  /\ bus'[o].state = "making" => OwnerOf[o] \in Tasks /\ Kind(OwnerOf[o])' = "built" /\ on'[OwnerOf[o]] = o
              /\ bus'[o].state = "ending" => OwnerOf[o] \in Tasks /\ Kind(OwnerOf[o])' = "gone" /\ on'[OwnerOf[o]] = o
  <2>1. CASE OwnerOf[o] = t
    BY <1>4, <1>7, <2>1 DEF CallInv, Busy
  <2>2. CASE OwnerOf[o] # t
    BY <1>5, <2>2 DEF CallInv, Busy
  <2> QED  BY <2>1, <2>2
<1>11. Busy'  BY <1>10 DEF Busy
<1>12. ASSUME NEW o \in Objects
       PROVE  /\ bus'[o].state = "none" => bus'[o] = NoBus
              /\ bus'[o].state = "making" => /\ bus'[o].frequency = Default /\ bus'[o].div = DivOf[Default]
                                             /\ Left(OwnerOf[o])' = 12 => ~bus'[o].spi
                                             /\ Left(OwnerOf[o])' \in 2..11 => bus'[o].spi
              /\ bus'[o].state = "ending" => (Left(OwnerOf[o])' > 1 => bus'[o].spi)
  <2>1. CASE bus[o].state \in {"making", "ending"} /\ OwnerOf[o] = t
    <3>1. Kind(t) \in {"built", "gone"} /\ n = 1  BY <2>1 DEF CallInv, Busy
    <3>2. (Kind(t) = "built" => Left(t) <= 12)  BY LeftBounds
    <3>3. (bus[o].state = "making") <=> Kind(t) = "built"  BY <2>1 DEF CallInv, Busy
    <3> QED  BY <1>4, <1>7, <2>1, <3>1, <3>2, <3>3 DEF CallInv, Given
  <2>2. CASE bus[o].state \in {"making", "ending"} /\ OwnerOf[o] # t
    BY <1>5, <2>2 DEF CallInv, Given, Busy
  <2>3. CASE bus[o].state \notin {"making", "ending"}
    BY <2>3 DEF CallInv, Given
  <2> QED  BY <2>1, <2>2, <2>3
<1>13. Given'  BY <1>12 DEF Given
<1> QED  BY <1>1, <1>3, <1>9, <1>11, <1>13 DEF CallInv

BusTypes ==
  bus \in [Objects -> [state : {"none", "making", "made", "ending"}, spi : BOOLEAN,
                       frequency : Freqs, div : {DivOf[f] : f \in Freqs}]]

\* The parts of Calls, Busy and Given for one task and one object.
CallOf(u) ==
  /\ on[u] = None <=> Kind(u) = "idle"
  /\ Kind(u) = "built" => bus[on[u]].state = "making" /\ OwnerOf[on[u]] = u
  /\ Kind(u) = "gone"  => bus[on[u]].state = "ending" /\ OwnerOf[on[u]] = u
  /\ Kind(u) = "div"   => bus[on[u]].state = "made" /\ OwnerOf[on[u]] = u /\ arg[u] \in Freqs
  /\ Kind(u) = "deselect" => bus[on[u]].state = "made" /\ arg[u] \in Sizes

ObjectOf(o) ==
  /\ bus[o].state = "making" => OwnerOf[o] \in Tasks /\ Kind(OwnerOf[o]) = "built" /\ on[OwnerOf[o]] = o
  /\ bus[o].state = "ending" => OwnerOf[o] \in Tasks /\ Kind(OwnerOf[o]) = "gone" /\ on[OwnerOf[o]] = o
  /\ bus[o].state = "none" => bus[o] = NoBus
  /\ bus[o].state = "making" => /\ bus[o].frequency = Default /\ bus[o].div = DivOf[Default]
                                /\ Left(OwnerOf[o]) = 12 => ~bus[o].spi
                                /\ Left(OwnerOf[o]) \in 2..11 => bus[o].spi
  /\ bus[o].state = "ending" => (Left(OwnerOf[o]) > 1 => bus[o].spi)

LEMMA CallsParts ==
  /\ Calls <=> \A u \in Tasks : CallOf(u)
  /\ Busy /\ Given <=> \A o \in Objects : ObjectOf(o)
BY DEF Calls, Busy, Given, CallOf, ObjectOf

\* A step that changes its own object.
LEMMA CallsChange ==
  ASSUME CallInv, NEW t \in Tasks, NEW n \in 1..Left(t), Moved(t, n), OthersStay(t), ProgramTypes',
         NEW x \in Objects, x = on[t], OwnerOf[x] = t, Kind(t) \in {"built", "gone", "div"},
         BusTypes', \A o \in Objects \ {x} : bus'[o] = bus[o],
         Kind(t) = "div" => bus'[x].state = bus[x].state /\ bus'[x].spi = bus[x].spi,
         CallOf(t)', ObjectOf(x)'
  PROVE  CallInv'
<1>1. CallTypes'  BY DEF CallTypes, ProgramTypes, BusTypes
<1>2. Calls /\ \A u \in Tasks : CallOf(u)  BY CallsParts DEF CallInv
<1>3. \A o \in Objects : ObjectOf(o)  BY CallsParts DEF CallInv
<1>4. /\ Kind(t) = "built" => bus[x].state = "making"
      /\ Kind(t) = "gone"  => bus[x].state = "ending"
      /\ Kind(t) = "div"   => bus[x].state = "made"
  BY <1>2 DEF CallOf
<1>5. ASSUME NEW u \in Tasks \ {t}, on[u] = x
      PROVE  Kind(u) = "deselect" /\ Kind(t) = "div"
  <2>1. CallOf(u) /\ Kind(u) \in Kinds /\ x # None
    BY <1>2, LeftBounds, NoneAssumption
  <2> QED  BY <1>4, <1>5, <2>1 DEF CallOf, Kinds
<1>6. SameController
  <2>1. ASSUME NEW u \in Tasks, Kind(u) = "deselect"
        PROVE  bus'[on[u]].spi = bus[on[u]].spi
    <3>1. u # t /\ on[u] \in Objects  BY <2>1, LeftBounds
    <3>2. CASE on[u] = x  BY <1>5, <3>1, <3>2
    <3>3. CASE on[u] # x  BY <3>1, <3>3
    <3> QED  BY <3>2, <3>3
  <2> QED  BY <2>1 DEF SameController
<1>7. Shape'  BY <1>6, ShapeMoves DEF CallInv
<1>8. ASSUME NEW u \in Tasks \ {t} PROVE CallOf(u)'
  <2>1. /\ on'[u] = on[u] /\ arg'[u] = arg[u] /\ Kind(u)' = Kind(u) /\ Left(u)' = Left(u)
    BY DEF OthersStay
  <2>2. CallOf(u) /\ Kind(u) \in Kinds /\ (Kind(u) # "idle" => on[u] \in Objects)
    BY <1>2, LeftBounds
  <2>3. Kind(u) # "idle" => bus'[on[u]].state = bus[on[u]].state
    BY <1>5, <2>2
  <2> QED  BY <2>1, <2>2, <2>3 DEF CallOf
<1>9. ASSUME NEW o \in Objects \ {x} PROVE ObjectOf(o)'
  <2>1. bus'[o] = bus[o] /\ ObjectOf(o)  BY <1>3
  <2>2. OwnerOf[o] \in Tasks \ {t} => on'[OwnerOf[o]] = on[OwnerOf[o]] /\ Kind(OwnerOf[o])' = Kind(OwnerOf[o])
                                      /\ Left(OwnerOf[o])' = Left(OwnerOf[o])
    BY DEF OthersStay
  <2>3. bus[o].state \in {"making", "ending"} => OwnerOf[o] \in Tasks \ {t}
    BY <2>1 DEF ObjectOf
  <2> QED  BY <2>1, <2>2, <2>3 DEF ObjectOf
<1>10. (\A u \in Tasks : CallOf(u)') /\ (\A o \in Objects : ObjectOf(o)')  BY <1>8, <1>9
<1>11. Calls' /\ Busy' /\ Given'  BY <1>10 DEF Calls, Busy, Given, CallOf, ObjectOf
<1> QED  BY <1>1, <1>7, <1>11 DEF CallInv

\* A call that starts.
LEMMA CallsEnter ==
  ASSUME CallInv, NEW t \in Tasks, NEW x \in Objects, NEW y, NEW kind \in Kinds \ {"idle"},
         Entered(t, x, y, kind), OthersStay(t), ProgramTypes',
         BusTypes', \A o \in Objects \ {x} : bus'[o] = bus[o],
         bus'[x] = bus[x] \/ \A u \in Tasks \ {t} : on[u] # x,
         Left(t)' <= Whole(kind, bus'[x].spi, y),
         \A m \in 1..Left(t)' : todo'[t][Left(t)' - m + 1] = Stage(kind, bus'[x].spi, y, m),
         CallOf(t)', ObjectOf(x)'
  PROVE  CallInv'
<1>1. CallTypes'  BY DEF CallTypes, ProgramTypes, BusTypes
<1>2. \A u \in Tasks : CallOf(u)  BY CallsParts DEF CallInv
<1>3. \A o \in Objects : ObjectOf(o)  BY CallsParts DEF CallInv
<1>4. Kind(t) = "idle" /\ on[t] = None  BY <1>2 DEF Entered, CallOf
<1>5. ASSUME NEW u \in Tasks, Kind(u) # "idle"
      PROVE  u # t /\ on[u] \in Objects /\ bus'[on[u]] = bus[on[u]]
  <2>1. u # t /\ on[u] \in Objects  BY <1>4, <1>5, LeftBounds
  <2> QED  BY <2>1
<1>6. SameController
  <2>1. \A u \in Tasks : Kind(u) = "deselect" => bus'[on[u]] = bus[on[u]]  BY <1>5
  <2> QED  BY <2>1 DEF SameController
<1>7. Shape'
  <2>1. /\ Kind(t)' = kind /\ on'[t] = x /\ arg'[t] = y  BY DEF Entered
  <2>2. ASSUME NEW u \in Tasks
        PROVE  /\ Kind(u)' \in Kinds
               /\ Left(u)' <= Whole(Kind(u)', bus'[on'[u]].spi, arg'[u])
               /\ \A m \in 1..Left(u)' :
                    todo'[u][Left(u)' - m + 1] = Stage(Kind(u)', bus'[on'[u]].spi, arg'[u], m)
    <3>1. CASE u = t  BY <2>1, <3>1
    <3>2. CASE u # t  BY <1>6, <3>2, ShapeOthers DEF CallInv
    <3> QED  BY <3>1, <3>2
  <2> QED  BY <2>2 DEF Shape
<1>8. ASSUME NEW u \in Tasks \ {t} PROVE CallOf(u)'
  <2>1. /\ on'[u] = on[u] /\ arg'[u] = arg[u] /\ Kind(u)' = Kind(u) /\ Left(u)' = Left(u)
    BY DEF OthersStay
  <2>2. CallOf(u)  BY <1>2
  <2>3. Kind(u) # "idle" => bus'[on[u]] = bus[on[u]]  BY <1>5
  <2> QED  BY <2>1, <2>2, <2>3 DEF CallOf
<1>9. ASSUME NEW o \in Objects \ {x} PROVE ObjectOf(o)'
  <2>1. bus'[o] = bus[o] /\ ObjectOf(o)  BY <1>3
  <2>2. OwnerOf[o] \in Tasks \ {t} => on'[OwnerOf[o]] = on[OwnerOf[o]] /\ Kind(OwnerOf[o])' = Kind(OwnerOf[o])
                                      /\ Left(OwnerOf[o])' = Left(OwnerOf[o])
    BY DEF OthersStay
  <2>3. bus[o].state \in {"making", "ending"} => OwnerOf[o] \in Tasks \ {t}
    BY <1>4, <2>1 DEF ObjectOf
  <2> QED  BY <2>1, <2>2, <2>3 DEF ObjectOf
<1>10. (\A u \in Tasks : CallOf(u)') /\ (\A o \in Objects : ObjectOf(o)')  BY <1>8, <1>9
<1>11. Calls' /\ Busy' /\ Given'  BY <1>10 DEF Calls, Busy, Given, CallOf, ObjectOf
<1> QED  BY <1>1, <1>7, <1>11 DEF CallInv

LEMMA NoBusType ==
  /\ NoBus \in [state : {"none", "making", "made", "ending"}, spi : BOOLEAN,
                frequency : Freqs, div : {DivOf[f] : f \in Freqs}]
  /\ NoBus.state = "none" /\ NoBus.spi = FALSE /\ NoBus.frequency = Default /\ NoBus.div = DivOf[Default]
BY FreqAssumption DEF NoBus

\* What New does to calls and objects.
Created(t, o) ==
  /\ Entered(t, o, Default, "built") /\ Left(t)' = 12 /\ OthersStay(t)
  /\ OwnerOf[o] = t /\ bus[o].state = "none"
  /\ bus'[o].state = "making" /\ bus'[o].spi = FALSE
  /\ \A x \in Objects \ {o} : bus'[x] = bus[x]

LEMMA NewDoes ==
  ASSUME CallInv, NEW t \in Tasks, NEW o \in Objects, New(t, o)
  PROVE  CallInv' /\ Created(t, o)
<1>1. /\ OwnerOf[o] = t /\ bus[o].state = "none" /\ Enter(t, o, Default, Construct)
      /\ bus' = [bus EXCEPT ![o] = [NoBus EXCEPT !.state = "making"]]
  BY DEF New
<1>2. Construct \in Seq(Steps) /\ Len(Construct) = 12 /\ Construct[12] = "built"
  BY DEF Construct, Steps
<1>3. Entered(t, o, Default, "built") /\ Left(t)' = 12 /\ OthersStay(t) /\ ProgramTypes' /\ todo'[t] = Construct
  <2>1. Default \in Freqs \cup Sizes  BY FreqAssumption
  <2>2. CallTypes /\ 12 \in Nat \ {0}  BY DEF CallInv
  <2>3. ASSUME NEW m \in Nat \ {0}, m = Len(Construct)
        PROVE  Entered(t, o, Default, Construct[m]) /\ Left(t)' = m /\ OthersStay(t) /\ ProgramTypes'
               /\ todo'[t] = Construct
    <3>1. Enter(t, o, Default, Construct) /\ Construct \in Seq(Steps) /\ Len(Construct) = m
      BY <1>1, <1>2, <2>3
    <3> QED  BY ONLY <3>1, <2>1, <2>2, <2>3, EnterCall, t \in Tasks, o \in Objects
  <2> QED  BY <1>2, <2>2, <2>3
<1>4. bus \in [Objects -> [state : {"none", "making", "made", "ending"}, spi : BOOLEAN,
                           frequency : Freqs, div : {DivOf[f] : f \in Freqs}]]
  BY DEF CallInv, CallTypes
<1>5. /\ bus'[o] = [NoBus EXCEPT !.state = "making"] /\ \A x \in Objects \ {o} : bus'[x] = bus[x]
      /\ bus'[o].state = "making" /\ bus'[o].spi = FALSE
      /\ bus'[o].frequency = Default /\ bus'[o].div = DivOf[Default]
  BY <1>1, <1>4 DEF NoBus
<1>6. BusTypes'
  <2>1. [NoBus EXCEPT !.state = "making"] \in [state : {"none", "making", "made", "ending"}, spi : BOOLEAN,
                                               frequency : Freqs, div : {DivOf[f] : f \in Freqs}]
    BY FreqAssumption DEF NoBus
  <2> QED  BY <1>1, <1>4, <2>1 DEF BusTypes
<1>7. \A u \in Tasks \ {t} : on[u] # o
  <2>1. \A u \in Tasks : CallOf(u)  BY CallsParts DEF CallInv
  <2>2. \A u \in Tasks : on[u] = o => Kind(u) \in Kinds /\ o # None  BY LeftBounds, NoneAssumption
  <2> QED  BY <1>1, <2>1, <2>2 DEF CallOf, Kinds
<1>8. \A m \in 1..12 : todo'[t][12 - m + 1] = Stage("built", bus'[o].spi, Default, m)
  <2>1. ASSUME NEW m \in 1..12 PROVE Construct[12 - m + 1] = Stage("built", bus'[o].spi, Default, m)
    <3>1. 12 - m + 1 = 13 - m  OBVIOUS
    <3>2. Stage("built", bus'[o].spi, Default, m) = Construct[13 - m]  BY DEF Stage
    <3> QED  BY <3>1, <3>2
  <2> QED  BY <1>3, <2>1
<1>9. Whole("built", bus'[o].spi, Default) = 12  BY DEF Whole
<1>10. CallOf(t)'
  BY <1>1, <1>3, <1>5, NoneAssumption DEF CallOf, Entered
<1>11. ObjectOf(o)'
  BY <1>1, <1>3, <1>5 DEF ObjectOf, Entered
<1>12. CallInv'
  <2>1. Left(t)' <= Whole("built", bus'[o].spi, Default)  BY <1>3, <1>9
  <2>2. \A m \in 1..Left(t)' : todo'[t][Left(t)' - m + 1] = Stage("built", bus'[o].spi, Default, m)
    BY <1>3, <1>8
  <2>3. "built" \in Kinds \ {"idle"}  BY DEF Kinds
  <2> QED  BY <1>3, <1>5, <1>6, <1>7, <1>10, <1>11, <2>1, <2>2, <2>3, CallsEnter
<1>13. Created(t, o)  BY <1>1, <1>3, <1>5 DEF Created
<1> QED  BY <1>12, <1>13

LEMMA DeleteDoes ==
  ASSUME CallInv, NEW t \in Tasks, NEW o \in Objects, Delete(t, o)
  PROVE  /\ CallInv' /\ Entered(t, o, Default, "gone") /\ Left(t)' = (IF bus[o].spi THEN 5 ELSE 1) /\ OthersStay(t)
         /\ OwnerOf[o] = t /\ bus[o].state = "made"
         /\ bus'[o].state = "ending" /\ bus'[o].spi = bus[o].spi
         /\ \A x \in Objects \ {o} : bus'[x] = bus[x]
         /\ \A u \in Tasks : on[u] # o
<1> DEFINE m == IF bus[o].spi THEN 5 ELSE 1
<1>1. /\ OwnerOf[o] = t /\ bus[o].state = "made" /\ Enter(t, o, Default, Destruct(bus[o].spi))
      /\ \A u \in Tasks : ~Using(u, o)
      /\ bus' = [bus EXCEPT ![o].state = "ending"]
  BY DEF Delete
<1>2. bus \in [Objects -> [state : {"none", "making", "made", "ending"}, spi : BOOLEAN,
                           frequency : Freqs, div : {DivOf[f] : f \in Freqs}]]
  BY DEF CallInv, CallTypes
<1>3. /\ bus'[o] = [bus[o] EXCEPT !.state = "ending"] /\ \A x \in Objects \ {o} : bus'[x] = bus[x]
      /\ bus'[o].state = "ending" /\ bus'[o].spi = bus[o].spi /\ bus[o].spi \in BOOLEAN
  BY <1>1, <1>2
<1>4. BusTypes'  BY <1>1, <1>2 DEF BusTypes
<1>5. /\ Destruct(bus[o].spi) \in Seq(Steps) /\ Len(Destruct(bus[o].spi)) = m
      /\ Destruct(bus[o].spi)[m] = "gone"
  <2>1. CASE bus[o].spi  BY <2>1 DEF Destruct, Steps
  <2>2. CASE ~bus[o].spi  BY <2>2 DEF Destruct, Steps
  <2> QED  BY <2>1, <2>2
<1>6. Entered(t, o, Default, "gone") /\ Left(t)' = m /\ OthersStay(t) /\ ProgramTypes' /\ todo'[t] = Destruct(bus[o].spi)
  <2>1. Default \in Freqs \cup Sizes  BY FreqAssumption
  <2>2. m \in Nat \ {0}  OBVIOUS
  <2> HIDE DEF m
  <2> QED  BY <1>1, <1>5, <2>1, <2>2, EnterCall DEF CallInv
<1>7. \A u \in Tasks : on[u] # o
  <2>1. \A u \in Tasks : CallOf(u)  BY CallsParts DEF CallInv
  <2>2. \A u \in Tasks : todo[u] = <<>> => Kind(u) = "idle"  BY DEF Kind
  <2> QED  BY <1>1, <2>1, <2>2, NoneAssumption DEF CallOf, Using
<1>8. ASSUME NEW j \in 1..m
      PROVE  Destruct(bus[o].spi)[m - j + 1] = Stage("gone", bus'[o].spi, Default, j)
  <2>1. CASE bus[o].spi
    <3>1. 5 - j + 1 = 6 - j /\ m = 5  BY <2>1
    <3>2. Stage("gone", bus'[o].spi, Default, j) = Destruct(TRUE)[6 - j]  BY DEF Stage
    <3>3. Destruct(bus[o].spi) = Destruct(TRUE)  BY <1>3, <2>1
    <3> QED  BY <3>1, <3>2, <3>3
  <2>2. CASE ~bus[o].spi
    <3>1. m = 1 /\ j = 1 /\ m - j + 1 = 1  BY <2>2
    <3>2. Stage("gone", bus'[o].spi, Default, j) = "gone"  BY <3>1, GoneStages
    <3> QED  BY <1>5, <3>1, <3>2
  <2> QED  BY <2>1, <2>2
<1>9. m <= Whole("gone", bus'[o].spi, Default)  BY DEF Whole
<1>10. CallOf(t)'
  BY <1>1, <1>3, <1>6, NoneAssumption DEF CallOf, Entered
<1>11. ObjectOf(o)'
  BY <1>1, <1>3, <1>6 DEF ObjectOf, Entered
<1>12. CallInv'
  <2>1. Left(t)' <= Whole("gone", bus'[o].spi, Default)  BY <1>6, <1>9
  <2>2. \A j \in 1..Left(t)' : todo'[t][Left(t)' - j + 1] = Stage("gone", bus'[o].spi, Default, j)
    BY <1>6, <1>8
  <2>3. "gone" \in Kinds \ {"idle"}  BY DEF Kinds
  <2> HIDE DEF m
  <2> QED  BY <1>3, <1>4, <1>6, <1>7, <1>10, <1>11, <2>1, <2>2, <2>3, CallsEnter
<1> QED  BY <1>1, <1>3, <1>6, <1>7, <1>12

LEMMA SetFrequencyDoes ==
  ASSUME CallInv, NEW t \in Tasks, NEW o \in Objects, NEW f \in Freqs, setFrequency(t, o, f)
  PROVE  /\ CallInv' /\ Entered(t, o, f, "div") /\ Left(t)' = 4 /\ OthersStay(t)
         /\ OwnerOf[o] = t /\ bus[o].state = "made" /\ bus' = bus
<1>1. OwnerOf[o] = t /\ bus[o].state = "made" /\ Enter(t, o, f, SetFrequency) /\ bus' = bus
  BY DEF setFrequency
<1>2. SetFrequency \in Seq(Steps) /\ Len(SetFrequency) = 4 /\ SetFrequency[4] = "div"
  BY DEF SetFrequency, Steps
<1>3. Entered(t, o, f, "div") /\ Left(t)' = 4 /\ OthersStay(t) /\ ProgramTypes' /\ todo'[t] = SetFrequency
  <2>1. f \in Freqs \cup Sizes /\ CallTypes /\ 4 \in Nat \ {0}  BY DEF CallInv
  <2> HIDE DEF SetFrequency
  <2>2. Entered(t, o, f, SetFrequency[4]) /\ Left(t)' = 4 /\ OthersStay(t) /\ ProgramTypes' /\ todo'[t] = SetFrequency
    BY ONLY <1>1, <1>2, <2>1, EnterCall
  <2> QED  BY <1>2, <2>2
<1>4. BusTypes'  BY <1>1 DEF CallInv, CallTypes, BusTypes
<1>5. \A m \in 1..4 : todo'[t][4 - m + 1] = Stage("div", bus'[o].spi, f, m)
  <2>1. ASSUME NEW m \in 1..4 PROVE SetFrequency[4 - m + 1] = Stage("div", bus'[o].spi, f, m)
    <3>1. 4 - m + 1 = 5 - m  OBVIOUS
    <3>2. Stage("div", bus'[o].spi, f, m) = SetFrequency[5 - m]  BY DEF Stage
    <3> QED  BY <3>1, <3>2
  <2> QED  BY <1>3, <2>1
<1>6. Whole("div", bus'[o].spi, f) = 4  BY DEF Whole
<1>7. CallOf(t)'  BY <1>1, <1>3, NoneAssumption DEF CallOf, Entered
<1>8. ObjectOf(o)'
  <2>1. ObjectOf(o)  BY CallsParts DEF CallInv
  <2> QED  BY <1>1, <2>1 DEF ObjectOf
<1>9. CallInv'
  <2>1. Left(t)' <= Whole("div", bus'[o].spi, f)  BY <1>3, <1>6
  <2>2. \A m \in 1..Left(t)' : todo'[t][Left(t)' - m + 1] = Stage("div", bus'[o].spi, f, m)
    BY <1>3, <1>5
  <2>3. "div" \in Kinds \ {"idle"}  BY DEF Kinds
  <2> QED  BY <1>1, <1>3, <1>4, <1>7, <1>8, <2>1, <2>2, <2>3, CallsEnter
<1> QED  BY <1>1, <1>3, <1>9

LEMMA TransferDoes ==
  ASSUME CallInv, NEW t \in Tasks, NEW o \in Objects, NEW n \in Sizes, transfer(t, o, n)
  PROVE  /\ CallInv' /\ Entered(t, o, n, "deselect") /\ OthersStay(t)
         /\ Left(t)' = IF bus[o].spi THEN 2 * Exchanges(n) + 4 ELSE 2
         /\ bus[o].state = "made" /\ bus' = bus
<1> DEFINE spi == bus[o].spi
           m == IF spi THEN 2 * Exchanges(n) + 4 ELSE 2
           T == Transfer(spi, n)
<1>1. bus[o].state = "made" /\ Enter(t, o, n, T) /\ bus' = bus
  BY DEF transfer
<1>2. spi \in BOOLEAN /\ n \in Nat /\ Exchanges(n) \in Nat  BY SizesNat, ExchangesType DEF CallInv, CallTypes
<1>3. /\ T \in Seq(Steps) /\ Len(T) = m /\ m \in Nat \ {0}
      /\ \A j \in 1..m : T[m - j + 1] = Stage("deselect", spi, n, j)
  <2>1. CASE spi
    <3>1. T = Transfer(TRUE, n) /\ m = 2 * Exchanges(n) + 4 /\ spi = TRUE  BY <1>2, <2>1
    <3>2. /\ Len(T) = m /\ T \in Seq(Steps) /\ m \in Nat \ {0}
          /\ \A j \in 1..m : T[2 * Exchanges(n) + 5 - j] = Message(TRUE, n, j)
      <4>1. /\ Len(Transfer(TRUE, n)) = 2 * Exchanges(n) + 4
            /\ Transfer(TRUE, n) \in Seq(Steps)
            /\ \A j \in 1..(2 * Exchanges(n) + 4) : Transfer(TRUE, n)[2 * Exchanges(n) + 5 - j] = Message(TRUE, n, j)
        BY <1>2, TransferSteps
      <4>2. 2 * Exchanges(n) + 4 \in Nat \ {0}  BY <1>2
      <4> HIDE DEF m, T
      <4> QED  BY <3>1, <4>1, <4>2
    <3>3. ASSUME NEW j \in 1..m PROVE T[m - j + 1] = Stage("deselect", spi, n, j)
      <4>1. m - j + 1 = 2 * Exchanges(n) + 5 - j  BY <1>2, <3>1
      <4>2. T[2 * Exchanges(n) + 5 - j] = Message(TRUE, n, j)  BY <3>2
      <4> HIDE DEF m, T, spi
      <4>3. Stage("deselect", spi, n, j) = Message(TRUE, n, j)  BY <3>1, MessageStages
      <4> QED  BY ONLY <4>1, <4>2, <4>3
    <3> QED  BY <3>2, <3>3
  <2>2. CASE ~spi
    <3>1. T = <<"select", "deselect">> /\ m = 2 /\ spi = FALSE
          /\ \A j \in 1..2 : T[3 - j] = Message(FALSE, n, j)
      BY <1>2, <2>2, TransferNot
    <3>2. Len(T) = 2 /\ T \in Seq(Steps)  BY <3>1 DEF Steps
    <3>3. ASSUME NEW j \in 1..m PROVE T[m - j + 1] = Stage("deselect", spi, n, j)
      <4>1. m - j + 1 = 3 - j /\ j \in 1..2  BY <3>1
      <4>2. T[3 - j] = Message(FALSE, n, j)  BY <3>1, <4>1
      <4> HIDE DEF m, T, spi
      <4>3. Stage("deselect", spi, n, j) = Message(FALSE, n, j)  BY <3>1, MessageStages
      <4> QED  BY ONLY <4>1, <4>2, <4>3
    <3> QED  BY <3>1, <3>2, <3>3
  <2> QED  BY <2>1, <2>2
<1>4. T[m] = "deselect"
  <2>1. 1 \in 1..m /\ m - 1 + 1 = m  BY <1>3
  <2>2. Stage("deselect", spi, n, 1) = "deselect"  BY MessageStages, MessageSteps
  <2> HIDE DEF m, T
  <2> QED  BY <1>3, <2>1, <2>2
<1> HIDE DEF m, T
<1>5. Entered(t, o, n, "deselect") /\ Left(t)' = m /\ OthersStay(t) /\ ProgramTypes' /\ todo'[t] = T
  BY <1>1, <1>3, <1>4, EnterCall DEF CallInv
<1>6. BusTypes'  BY <1>1 DEF CallInv, CallTypes, BusTypes
<1>7. Whole("deselect", bus'[o].spi, n) = m  BY <1>1 DEF Whole, m
<1>8. CallOf(t)'  BY <1>1, <1>5, NoneAssumption DEF CallOf, Entered
<1>9. ObjectOf(o)'
  <2>1. ObjectOf(o) /\ Left(t) = 0 /\ Kind(t) = "idle"  BY <1>5, CallsParts DEF CallInv, Entered
  <2>2. OwnerOf[o] \in Tasks \ {t} => on'[OwnerOf[o]] = on[OwnerOf[o]] /\ Kind(OwnerOf[o])' = Kind(OwnerOf[o])
                                      /\ Left(OwnerOf[o])' = Left(OwnerOf[o])
    BY <1>5 DEF OthersStay
  <2> QED  BY <1>1, <2>1, <2>2 DEF ObjectOf
<1>10. CallInv'
  <2>1. Left(t)' <= Whole("deselect", bus'[o].spi, n)  BY <1>3, <1>5, <1>7
  <2>2. \A j \in 1..Left(t)' : todo'[t][Left(t)' - j + 1] = Stage("deselect", bus'[o].spi, n, j)
    BY <1>1, <1>3, <1>5
  <2>3. "deselect" \in Kinds \ {"idle"}  BY DEF Kinds
  <2> QED  BY <1>1, <1>5, <1>6, <1>8, <1>9, <2>1, <2>2, <2>3, CallsEnter
<1> QED  BY <1>1, <1>5, <1>10 DEF m

\* Steps that leave the objects alone and take one step of the call.
Plain(t) ==
  \/ ReadDport(t) \/ WriteDport(t) \/ Section(t) \/ NoSection(t) \/ AttachPin(t) \/ DetachPin(t)
  \/ ChipSelect(t) \/ TransferLock(t) \/ Launch(t) \/ Await(t)

LEMMA PlainDoes ==
  ASSUME CallInv, NEW t \in Tasks, Plain(t)
  PROVE  /\ CallInv' /\ Moved(t, 1) /\ OthersStay(t) /\ bus' = bus
         /\ on[t] \in Objects /\ Left(t) \in Nat \ {0} /\ Kind(t) # "idle"
         /\ Kind(t) # "deselect" => Left(t) # 1
<1>1. Go(t) /\ bus' = bus /\ todo[t] # <<>>
  BY DEF Plain, ReadDport, WriteDport, Section, NoSection, AttachPin, DetachPin, ChipSelect,
         TransferLock, Launch, Await, At
<1>2. /\ 1 \in 1..Left(t) /\ Left(t) \in Nat \ {0} /\ on[t] \in Objects /\ Kind(t) # "idle"
      /\ Moved(t, 1) /\ OthersStay(t) /\ ProgramTypes'
  BY <1>1, GoDoes
<1>3. \/ Kind(t) \in {"div", "deselect"} /\ (Kind(t) = "div" => Left(t) # 1)
      \/ Kind(t) = "built" /\ Left(t) \notin {1, 12}
      \/ Kind(t) = "gone" /\ Left(t) # 1
  <2>0. CallTypes /\ Shape  BY DEF CallInv
  <2>1. CASE ReadDport(t)   BY <2>0, <2>1, Where DEF ReadDport
  <2>2. CASE WriteDport(t)  BY <2>0, <2>2, Where DEF WriteDport
  <2>3. CASE Section(t)     BY <2>0, <2>3, Where DEF Section
  <2>4. CASE NoSection(t)   BY <2>0, <2>4, Where DEF NoSection
  <2>5. CASE AttachPin(t)   BY <2>0, <2>5, Where DEF AttachPin
  <2>6. CASE DetachPin(t)   BY <2>0, <2>6, Where DEF DetachPin
  <2>7. CASE ChipSelect(t)
    <3>1. At(t, "select") \/ At(t, "deselect")  BY <2>7 DEF ChipSelect
    <3> QED  BY <2>0, <3>1, Where DEF Control
  <2>8. CASE TransferLock(t)
    <3>1. At(t, "take") \/ At(t, "give")  BY <2>8 DEF TransferLock
    <3> QED  BY <2>0, <3>1, Where DEF Control
  <2>9. CASE Launch(t)
    <3>1. At(t, "launch")  BY <2>9 DEF Launch
    <3> QED  BY <2>0, <3>1, Where DEF Control
  <2>10. CASE Await(t)
    <3>1. At(t, "await")  BY <2>10 DEF Await
    <3> QED  BY <2>0, <3>1, Where DEF Control
  <2> QED  BY <2>1, <2>2, <2>3, <2>4, <2>5, <2>6, <2>7, <2>8, <2>9, <2>10 DEF Plain
<1>4. CallInv'
  <2>1. \/ Kind(t) \in {"div", "deselect"}
        \/ 1 = 1 /\ Left(t) # 1 /\ (Kind(t) = "built" => Left(t) # 12)
    BY <1>3
  <2> QED  BY <1>1, <1>2, <2>1, CallsGo
<1> QED  BY <1>1, <1>2, <1>3, <1>4

LEMMA CompareDoes ==
  ASSUME CallInv, NEW t \in Tasks, Compare(t)
  PROVE  /\ CallInv' /\ OthersStay(t) /\ bus' = bus
         /\ on[t] \in Objects /\ Left(t) = 3 /\ Kind(t) = "div"
         /\ IF bus[on[t]].div = DivOf[arg[t]]
              THEN Kind(t)' = "idle" /\ Left(t)' = 0 /\ on'[t] = None
              ELSE Kind(t)' = "div" /\ Left(t)' = 2 /\ on'[t] = on[t] /\ arg'[t] = arg[t]
<1> DEFINE n == IF DivSame(on[t], arg[t]) THEN 3 ELSE 1
<1>1. At(t, "compare") /\ bus' = bus  BY DEF Compare
<1>2. Kind(t) = "div" /\ Left(t) = 3  BY <1>1, Where DEF CallInv
<1>3. on[t] \in Objects  BY <1>2, LeftBounds
<1>4. Skip(t, n)
  <2>1. Len(SetFrequency) - 1 = 3  BY DEF SetFrequency
  <2> QED  BY <2>1 DEF Compare, Go
<1>5. n \in 1..Left(t)  BY <1>2
<1>6. Moved(t, n) /\ OthersStay(t) /\ ProgramTypes'
  <2> HIDE DEF n
  <2> QED  BY <1>4, <1>5, Advance DEF CallInv
<1>7. CallInv'
  <2> HIDE DEF n
  <2> QED  BY <1>1, <1>2, <1>5, <1>6, CallsGo
<1> QED  BY <1>1, <1>2, <1>3, <1>6, <1>7 DEF Moved, DivSame

LEMMA CreateDoes ==
  ASSUME CallInv, NEW t \in Tasks, CreateLock(t)
  PROVE  /\ CallInv' /\ OthersStay(t)
         /\ on[t] \in Objects /\ Left(t) = 12 /\ Kind(t) = "built" /\ OwnerOf[on[t]] = t
         /\ Kind(t)' = "built" /\ on'[t] = on[t] /\ arg'[t] = arg[t]
         /\ bus[on[t]].state = "making" /\ ~bus[on[t]].spi
         /\ \/ Left(t)' = 11 /\ bus' = [bus EXCEPT ![on[t]].spi = TRUE]
               /\ ctl' = [ctl EXCEPT ![Num(t)].made = TRUE]
            \/ Left(t)' = 1 /\ bus' = bus /\ ctl' = ctl
<1>0. PICK x \in Objects : x = on[t]
  <2>1. At(t, "create")  BY DEF CreateLock
  <2>2. Kind(t) # "idle"  BY <2>1, Where DEF CallInv
  <2> QED  BY <2>2, LeftBounds
<1> USE <1>0
<1>1. At(t, "create")  BY DEF CreateLock
<1>2. Kind(t) = "built" /\ Left(t) = 12  BY <1>1, Where DEF CallInv
<1>3. x \in Objects  OBVIOUS
<1>4. CallOf(t) /\ ObjectOf(x)  BY <1>3, CallsParts DEF CallInv
<1>5. bus[x].state = "making" /\ OwnerOf[x] = t /\ ~bus[x].spi
      /\ bus[x].frequency = Default /\ bus[x].div = DivOf[Default] /\ x # None
  BY <1>2, <1>3, <1>4, NoneAssumption DEF CallOf, ObjectOf
<1>6. bus \in [Objects -> [state : {"none", "making", "made", "ending"}, spi : BOOLEAN,
                           frequency : Freqs, div : {DivOf[f] : f \in Freqs}]]
  BY DEF CallInv, CallTypes
<1>7. \/ Go(t) /\ bus' = [bus EXCEPT ![x].spi = TRUE] /\ ctl' = [ctl EXCEPT ![Num(t)].made = TRUE]
      \/ Skip(t, 11) /\ bus' = bus /\ ctl' = ctl
  BY DEF CreateLock, Construct
<1>8. PICK n \in {1, 11} :
        /\ Skip(t, n)
        /\ \/ n = 1 /\ bus' = [bus EXCEPT ![x].spi = TRUE] /\ ctl' = [ctl EXCEPT ![Num(t)].made = TRUE]
           \/ n = 11 /\ bus' = bus /\ ctl' = ctl
  BY <1>7 DEF Go
<1>9. n \in 1..Left(t) /\ n # Left(t) /\ Left(t) - 1 = 11 /\ Left(t) - 11 = 1  BY <1>2
<1>10. Moved(t, n) /\ OthersStay(t) /\ ProgramTypes'  BY <1>8, <1>9, Advance DEF CallInv
<1>11. /\ Left(t)' = 12 - n /\ Kind(t)' = "built" /\ on'[t] = x /\ arg'[t] = arg[t]
  BY <1>2, <1>9, <1>10 DEF Moved
<1>12. BusTypes' /\ (\A o \in Objects \ {x} : bus'[o] = bus[o])
       /\ bus'[x].state = "making" /\ (n = 1 => bus'[x].spi)
       /\ bus'[x].frequency = Default /\ bus'[x].div = DivOf[Default]
  <2>1. CASE n = 11 /\ bus' = bus  BY <1>3, <1>5, <1>6, <2>1 DEF BusTypes
  <2>2. CASE bus' = [bus EXCEPT ![x].spi = TRUE]
    <3>1. /\ \A o \in Objects \ {x} : bus'[o] = bus[o]
          /\ bus'[x] = [bus[x] EXCEPT !.spi = TRUE]
      BY <1>3, <1>6, <2>2
    <3>3. BusTypes'  BY ONLY <1>3, <1>6, <2>2 DEF BusTypes
    <3>2. bus'[x].state = bus[x].state /\ bus'[x].spi = TRUE
          /\ bus'[x].frequency = bus[x].frequency /\ bus'[x].div = bus[x].div
      BY <1>3, <1>6, <3>1
    <3> QED  BY <1>5, <3>1, <3>2, <3>3
  <2> QED  BY <1>8, <2>1, <2>2
<1>13. CallOf(t)'  BY <1>5, <1>11, <1>12 DEF CallOf
<1>14. ObjectOf(x)'
  <2>1. n = 11 => Left(t)' = 1  BY <1>11
  <2>2. n = 1 => Left(t)' = 11  BY <1>11
  <2> QED  BY <1>5, <1>8, <1>11, <1>12, <2>1, <2>2 DEF ObjectOf
<1>15. CallInv'
  <2>1. Kind(t) \in {"built", "gone", "div"} /\ x = on[t]  BY <1>2
  <2>2. Kind(t) # "div"  BY <1>2
  <2> QED  BY <1>3, <1>5, <1>9, <1>10, <1>12, <1>13, <1>14, <2>1, <2>2, CallsChange
<1> QED  BY <1>2, <1>3, <1>5, <1>8, <1>9, <1>10, <1>11, <1>15

LEMMA EndDoes ==
  ASSUME CallInv, NEW t \in Tasks, End(t)
  PROVE  /\ CallInv' /\ OthersStay(t)
         /\ on[t] \in Objects /\ Left(t) = 1 /\ OwnerOf[on[t]] = t
         /\ Kind(t)' = "idle" /\ Left(t)' = 0 /\ on'[t] = None
         /\ \/ /\ Kind(t) = "built" /\ bus[on[t]].state = "making"
               /\ bus' = [bus EXCEPT ![on[t]].state = "made"] /\ shared' = shared
            \/ /\ Kind(t) = "gone" /\ bus[on[t]].state = "ending"
               /\ bus' = [bus EXCEPT ![on[t]] = NoBus] /\ shared' = shared \ {on[t]}
<1>0. PICK x \in Objects : x = on[t]
  <2>1. At(t, "built") \/ At(t, "gone")  BY DEF End
  <2>2. Kind(t) # "idle"  BY <2>1, Where DEF CallInv
  <2> QED  BY <2>2, LeftBounds
<1> USE <1>0
<1>1. /\ Go(t)
      /\ \/ At(t, "built") /\ bus' = [bus EXCEPT ![x].state = "made"] /\ shared' = shared
         \/ At(t, "gone")  /\ bus' = [bus EXCEPT ![x] = NoBus] /\ shared' = shared \ {x}
  BY DEF End
<1>2. Left(t) = 1 /\ todo[t] # <<>>  BY <1>1, Where DEF CallInv, At
<1>3. \/ Kind(t) = "built" /\ bus' = [bus EXCEPT ![x].state = "made"] /\ shared' = shared
      \/ Kind(t) = "gone"  /\ bus' = [bus EXCEPT ![x] = NoBus] /\ shared' = shared \ {x}
  BY <1>1, Where DEF CallInv
<1>4. x \in Objects /\ Moved(t, 1) /\ OthersStay(t) /\ ProgramTypes' /\ 1 \in 1..Left(t)
  BY <1>1, <1>2, GoDoes
<1>5. CallOf(t) /\ ObjectOf(x)  BY <1>4, CallsParts DEF CallInv
<1>6. OwnerOf[x] = t /\ (Kind(t) = "built" => bus[x].state = "making") /\ (Kind(t) = "gone" => bus[x].state = "ending")
  BY <1>3, <1>5 DEF CallOf
<1>7. Left(t)' = 0 /\ Kind(t)' = "idle" /\ on'[t] = None  BY <1>2, <1>4 DEF Moved
<1>8. bus \in [Objects -> [state : {"none", "making", "made", "ending"}, spi : BOOLEAN,
                           frequency : Freqs, div : {DivOf[f] : f \in Freqs}]]
  BY DEF CallInv, CallTypes
<1>9. BusTypes' /\ (\A o \in Objects \ {x} : bus'[o] = bus[o])
      /\ (bus'[x].state = "made" \/ bus'[x] = NoBus)
  <2>1. CASE Kind(t) = "built"
    <3>1. bus' = [bus EXCEPT ![x].state = "made"]  BY <1>3, <2>1
    <3> QED  BY <1>4, <1>8, <3>1 DEF BusTypes
  <2>2. CASE Kind(t) = "gone"
    <3>1. bus' = [bus EXCEPT ![x] = NoBus]  BY <1>3, <2>2
    <3> QED  BY <1>4, <1>8, <3>1, NoBusType DEF BusTypes
  <2> QED  BY <1>3, <2>1, <2>2
<1>10. CallOf(t)'  BY <1>7 DEF CallOf
<1>11. ObjectOf(x)'  BY <1>9, NoBusType DEF ObjectOf
<1>12. CallInv'
  <2>1. Kind(t) \in {"built", "gone", "div"} /\ x = on[t]  BY <1>3
  <2>2. Kind(t) # "div"  BY <1>3
  <2> QED  BY <1>4, <1>6, <1>9, <1>10, <1>11, <2>1, <2>2, CallsChange
<1> QED  BY <1>2, <1>3, <1>4, <1>6, <1>7, <1>12

LEMMA StoreDoes ==
  ASSUME CallInv, NEW t \in Tasks, Store(t)
  PROVE  /\ CallInv' /\ OthersStay(t)
         /\ on[t] \in Objects /\ Kind(t) = "div" /\ OwnerOf[on[t]] = t /\ arg[t] \in Freqs
         /\ bus[on[t]].state = "made"
         /\ \A o \in Objects : bus'[o].state = bus[o].state /\ bus'[o].spi = bus[o].spi
         /\ \/ /\ Left(t) = 4 /\ Left(t)' = 3 /\ Kind(t)' = "div" /\ on'[t] = on[t] /\ arg'[t] = arg[t]
               /\ bus' = [bus EXCEPT ![on[t]].frequency = arg[t]]
            \/ /\ Left(t) = 1 /\ Left(t)' = 0 /\ Kind(t)' = "idle" /\ on'[t] = None
               /\ bus' = [bus EXCEPT ![on[t]].div = DivOf[arg[t]]]
<1>0. PICK x \in Objects : x = on[t]
  <2>1. At(t, "frequency") \/ At(t, "div")  BY DEF Store
  <2>2. Kind(t) # "idle"  BY <2>1, Where DEF CallInv
  <2> QED  BY <2>2, LeftBounds
<1> USE <1>0
<1>1. /\ Go(t)
      /\ \/ At(t, "frequency") /\ bus' = [bus EXCEPT ![x].frequency = arg[t]]
         \/ At(t, "div")       /\ bus' = [bus EXCEPT ![x].div = DivOf[arg[t]]]
  BY DEF Store
<1>2. Kind(t) = "div" /\ todo[t] # <<>>  BY <1>1, Where DEF CallInv, At
<1>3. \/ Left(t) = 4 /\ bus' = [bus EXCEPT ![x].frequency = arg[t]]
      \/ Left(t) = 1 /\ bus' = [bus EXCEPT ![x].div = DivOf[arg[t]]]
  BY <1>1, Where DEF CallInv
<1>4. x \in Objects /\ Moved(t, 1) /\ OthersStay(t) /\ ProgramTypes' /\ 1 \in 1..Left(t)
  BY <1>1, <1>2, GoDoes
<1>5. CallOf(t) /\ ObjectOf(x)  BY <1>4, CallsParts DEF CallInv
<1>6. OwnerOf[x] = t /\ bus[x].state = "made" /\ arg[t] \in Freqs /\ x # None
  BY <1>2, <1>4, <1>5, NoneAssumption DEF CallOf
<1>7. \/ Left(t) = 4 /\ Left(t)' = 3 /\ Kind(t)' = "div" /\ on'[t] = x /\ arg'[t] = arg[t]
      \/ Left(t) = 1 /\ Left(t)' = 0 /\ Kind(t)' = "idle" /\ on'[t] = None
  BY <1>2, <1>3, <1>4 DEF Moved
<1>8. bus \in [Objects -> [state : {"none", "making", "made", "ending"}, spi : BOOLEAN,
                           frequency : Freqs, div : {DivOf[f] : f \in Freqs}]]
  BY DEF CallInv, CallTypes
<1>9. BusTypes' /\ (\A o \in Objects \ {x} : bus'[o] = bus[o])
      /\ bus'[x].state = bus[x].state /\ bus'[x].spi = bus[x].spi
  <2>1. CASE bus' = [bus EXCEPT ![x].frequency = arg[t]]
    BY <1>4, <1>6, <1>8, <2>1 DEF BusTypes
  <2>2. CASE bus' = [bus EXCEPT ![x].div = DivOf[arg[t]]]
    BY <1>4, <1>6, <1>8, <2>2 DEF BusTypes
  <2> QED  BY <1>3, <2>1, <2>2
<1>10. CallOf(t)'  BY <1>6, <1>7, <1>9 DEF CallOf
<1>11. ObjectOf(x)'  BY <1>6, <1>9 DEF ObjectOf
<1>12. CallInv'
  <2>1. Kind(t) \in {"built", "gone", "div"} /\ x = on[t]  BY <1>2
  <2> QED  BY <1>4, <1>6, <1>9, <1>10, <1>11, <2>1, CallsChange
<1>13. \A o \in Objects : bus'[o].state = bus[o].state /\ bus'[o].spi = bus[o].spi
  <2> QED  BY <1>4, <1>9
<1> QED  BY <1>2, <1>3, <1>4, <1>6, <1>7, <1>12, <1>13

-----------------------------------------------------------------------------
(* The places of the objects.                                              *)

\* The steps that an object's owner still has in a call of it that is not a message.
Place(o) ==
  IF OwnerOf[o] \in Tasks /\ on[OwnerOf[o]] = o /\ Kind(OwnerOf[o]) # "deselect"
    THEN Left(OwnerOf[o]) ELSE 0

LEMMA PlaceFacts ==
  ASSUME CallInv, NEW o \in Objects
  PROVE  /\ Place(o) \in Nat
         /\ bus[o].state \in {"none", "making", "made", "ending"} /\ bus[o].spi \in BOOLEAN
         /\ bus[o].state = "none" => Place(o) = 0 /\ ~bus[o].spi
         /\ bus[o].state = "making" =>
              /\ Place(o) \in 1..12 /\ OwnerOf[o] \in Tasks /\ on[OwnerOf[o]] = o /\ Kind(OwnerOf[o]) = "built"
              /\ Place(o) = Left(OwnerOf[o])
              /\ Place(o) = 12 => ~bus[o].spi
              /\ Place(o) \in 2..11 => bus[o].spi
              /\ bus[o].frequency = Default /\ bus[o].div = DivOf[Default]
         /\ bus[o].state = "made" /\ Place(o) # 0 =>
              /\ Place(o) \in 1..4 /\ OwnerOf[o] \in Tasks /\ on[OwnerOf[o]] = o /\ Kind(OwnerOf[o]) = "div"
              /\ arg[OwnerOf[o]] \in Freqs
         /\ bus[o].state = "ending" =>
              /\ Place(o) \in 1..5 /\ OwnerOf[o] \in Tasks /\ on[OwnerOf[o]] = o /\ Kind(OwnerOf[o]) = "gone"
              /\ Place(o) > 1 => bus[o].spi
<1> DEFINE t == OwnerOf[o]
<1>1. ObjectOf(o) /\ \A u \in Tasks : CallOf(u)  BY CallsParts DEF CallInv
<1>2. bus[o].state \in {"none", "making", "made", "ending"} /\ bus[o].spi \in BOOLEAN
  BY DEF CallInv, CallTypes
<1>3. t \in Tasks =>
        /\ Left(t) \in Nat /\ (Left(t) = 0 <=> Kind(t) = "idle") /\ Kind(t) \in Kinds
        /\ Kind(t) = "built" => Left(t) <= 12
        /\ Kind(t) = "gone"  => Left(t) <= 5
        /\ Kind(t) = "div"   => Left(t) <= 4
        /\ CallOf(t)
  BY <1>1, LeftBounds
<1>4. o # None  BY NoneAssumption
<1> HIDE DEF t
<1>5. Place(o) = IF t \in Tasks /\ on[t] = o /\ Kind(t) # "deselect" THEN Left(t) ELSE 0  BY DEF Place, t
<1>6. Place(o) \in Nat  BY <1>3, <1>5
<1>7. t \in Tasks /\ on[t] = o /\ Kind(t) # "deselect" =>
        \/ Kind(t) = "built" /\ bus[o].state = "making" /\ Left(t) \in 1..12
        \/ Kind(t) = "gone" /\ bus[o].state = "ending" /\ Left(t) \in 1..5
        \/ Kind(t) = "div" /\ bus[o].state = "made" /\ Left(t) \in 1..4 /\ arg[t] \in Freqs
  BY <1>3, <1>4 DEF CallOf, Kinds
<1>8. CASE bus[o].state = "none"
  <2>1. bus[o] = NoBus  BY <1>1, <1>8 DEF ObjectOf
  <2>2. Place(o) = 0  BY <1>5, <1>7, <1>8
  <2> QED  BY <1>2, <1>8, <2>1, <2>2, NoBusType
<1>9. CASE bus[o].state = "making"
  <2>1. t \in Tasks /\ Kind(t) = "built" /\ on[t] = o  BY <1>1, <1>9 DEF ObjectOf, t
  <2>2. Place(o) = Left(t) /\ Left(t) \in 1..12  BY <1>5, <1>7, <2>1
  <2>3. /\ Left(t) = 12 => ~bus[o].spi
        /\ Left(t) \in 2..11 => bus[o].spi
        /\ bus[o].frequency = Default /\ bus[o].div = DivOf[Default]
    BY <1>1, <1>9 DEF ObjectOf, t
  <2> QED  BY <1>2, <1>6, <1>9, <2>1, <2>2, <2>3 DEF t
<1>10. CASE bus[o].state = "made"
  BY <1>2, <1>5, <1>6, <1>7, <1>10 DEF t
<1>11. CASE bus[o].state = "ending"
  <2>1. t \in Tasks /\ Kind(t) = "gone" /\ on[t] = o  BY <1>1, <1>11 DEF ObjectOf, t
  <2>2. Place(o) = Left(t) /\ Left(t) \in 1..5  BY <1>5, <1>7, <2>1
  <2>3. Left(t) > 1 => bus[o].spi  BY <1>1, <1>11 DEF ObjectOf, t
  <2> QED  BY <1>2, <1>6, <1>11, <2>1, <2>2, <2>3 DEF t
<1> QED  BY <1>2, <1>8, <1>9, <1>10, <1>11

\* The object of a call that is not a message.
LEMMA OwnPlace ==
  ASSUME CallInv, NEW t \in Tasks, Kind(t) \in {"built", "gone", "div"}
  PROVE  /\ on[t] \in Objects /\ OwnerOf[on[t]] = t /\ Place(on[t]) = Left(t) /\ Left(t) \in Nat \ {0}
         /\ Kind(t) = "built" => bus[on[t]].state = "making"
         /\ Kind(t) = "gone"  => bus[on[t]].state = "ending"
         /\ Kind(t) = "div"   => bus[on[t]].state = "made"
<1>1. CallOf(t)  BY CallsParts DEF CallInv
<1>2. on[t] \in Objects /\ Left(t) \in Nat \ {0}  BY LeftBounds
<1>3. OwnerOf[on[t]] = t  BY <1>1 DEF CallOf
<1>4. Place(on[t]) = Left(t)  BY <1>3 DEF Place
<1> QED  BY <1>1, <1>2, <1>3, <1>4 DEF CallOf

LEMMA PlaceEnter ==
  ASSUME CallInv, NEW t \in Tasks, NEW x \in Objects, NEW y, NEW kind,
         Entered(t, x, y, kind), OthersStay(t), NEW o \in Objects
  PROVE  Place(o)' = IF o = x /\ OwnerOf[x] = t /\ kind # "deselect" THEN Left(t)' ELSE Place(o)
<1>1. Kind(t) = "idle" /\ Left(t) = 0 /\ Kind(t)' = kind /\ on'[t] = x  BY DEF Entered
<1>2. CASE OwnerOf[o] = t  BY <1>1, <1>2 DEF Place
<1>3. CASE OwnerOf[o] \in Tasks \ {t}
  <2>1. on'[OwnerOf[o]] = on[OwnerOf[o]] /\ Kind(OwnerOf[o])' = Kind(OwnerOf[o])
        /\ Left(OwnerOf[o])' = Left(OwnerOf[o])
    BY <1>3 DEF OthersStay
  <2> QED  BY <1>3, <2>1 DEF Place
<1>4. CASE OwnerOf[o] \notin Tasks  BY <1>4 DEF Place
<1> QED  BY <1>2, <1>3, <1>4

\* A step of a call: it goes on, or it is the last.
Walks(t) ==
  \/ Kind(t)' = Kind(t) /\ on'[t] = on[t] /\ arg'[t] = arg[t]
  \/ Kind(t)' = "idle" /\ on'[t] = None /\ Left(t)' = 0

LEMMA PlaceStep ==
  ASSUME CallInv, NEW t \in Tasks, Kind(t) # "idle", Walks(t), OthersStay(t), NEW o \in Objects
  PROVE  Place(o)' = IF o = on[t] /\ Kind(t) # "deselect" THEN Left(t)' ELSE Place(o)
<1>1. o # None  BY NoneAssumption
<1>2. CASE OwnerOf[o] = t
  <2>1. CASE on[t] = o
    <3>1. CASE Kind(t)' = Kind(t) /\ on'[t] = on[t]  BY <1>2, <2>1, <3>1 DEF Place
    <3>2. CASE Kind(t)' = "idle" /\ on'[t] = None /\ Left(t)' = 0  BY <1>1, <1>2, <2>1, <3>2 DEF Place
    <3> QED  BY <3>1, <3>2 DEF Walks
  <2>2. CASE on[t] # o
    <3>1. on'[t] # o  BY <1>1, <2>2 DEF Walks
    <3> QED  BY <1>2, <2>2, <3>1 DEF Place
  <2> QED  BY <2>1, <2>2
<1>3. CASE OwnerOf[o] \in Tasks \ {t}
  <2>1. on'[OwnerOf[o]] = on[OwnerOf[o]] /\ Kind(OwnerOf[o])' = Kind(OwnerOf[o])
        /\ Left(OwnerOf[o])' = Left(OwnerOf[o])
    BY <1>3 DEF OthersStay
  <2>2. o = on[t] /\ Kind(t) # "deselect" => OwnerOf[o] = t
    <3>1. Kind(t) \in Kinds  BY LeftBounds
    <3> QED  BY <3>1, OwnPlace DEF Kinds
  <2> QED  BY <1>3, <2>1, <2>2 DEF Place
<1>4. CASE OwnerOf[o] \notin Tasks
  <2>1. o = on[t] /\ Kind(t) # "deselect" => OwnerOf[o] = t
    <3>1. Kind(t) \in Kinds  BY LeftBounds
    <3> QED  BY <3>1, OwnPlace DEF Kinds
  <2> QED  BY <1>4, <2>1 DEF Place
<1> QED  BY <1>2, <1>3, <1>4

LEMMA PlainWalks ==
  ASSUME CallInv, NEW t \in Tasks, Plain(t)
  PROVE  /\ CallInv' /\ Walks(t) /\ OthersStay(t) /\ bus' = bus /\ on[t] \in Objects
         /\ Left(t) \in Nat \ {0} /\ Left(t)' = Left(t) - 1 /\ Kind(t) # "idle"
         /\ Kind(t) # "deselect" \/ Left(t) # 1 => Kind(t)' = Kind(t) /\ on'[t] = on[t] /\ arg'[t] = arg[t]
         /\ Kind(t) # "deselect" => Left(t) # 1
BY PlainDoes DEF Moved, Walks

LEMMA CallInit ==
  Init => CallInv
<1> SUFFICES ASSUME Init PROVE CallInv  OBVIOUS
<1>1. \A t \in Tasks : todo[t] = <<>> /\ Kind(t) = "idle" /\ Left(t) = 0 /\ on[t] = None
  BY DEF Init, Kind, Left
<1>2. \A o \in Objects : bus[o] = NoBus  BY DEF Init
<1>3. CallTypes
  <2>1. <<>> \in Seq(Steps)  OBVIOUS
  <2>2. 0 \in 0..MaxCalls  BY BoundAssumption
  <2> QED  BY <2>1, <2>2, NoBusType, FreqAssumption DEF Init, CallTypes
<1>4. Shape
  <2>1. \A t \in Tasks : 1..Left(t) = {}  BY <1>1
  <2> QED  BY <1>1, <2>1 DEF Shape, Whole, Kinds
<1>5. Calls /\ Busy /\ Given  BY <1>1, <1>2, NoBusType DEF Calls, Busy, Given
<1> QED  BY <1>3, <1>4, <1>5 DEF CallInv

LEMMA CallSame ==
  ASSUME CallInv, UNCHANGED <<call, bus, calls>>
  PROVE  /\ CallInv' /\ \A t : Kind(t)' = Kind(t) /\ Left(t)' = Left(t)
         /\ \A o : Place(o)' = Place(o)
<1>1. todo' = todo /\ on' = on /\ arg' = arg /\ bus' = bus /\ calls' = calls  BY DEF call
<1>2. \A t : Kind(t)' = Kind(t) /\ Left(t)' = Left(t)  BY <1>1 DEF Kind, Left
<1>3. \A o : Place(o)' = Place(o)  BY <1>1, <1>2 DEF Place
<1>4. CallTypes'  BY <1>1 DEF CallInv, CallTypes
<1>5. Shape'  BY <1>1, <1>2 DEF CallInv, Shape
<1>6. Calls' /\ Busy' /\ Given'  BY <1>1, <1>2 DEF CallInv, Calls, Busy, Given
<1> QED  BY <1>2, <1>3, <1>4, <1>5, <1>6 DEF CallInv

-----------------------------------------------------------------------------
(* The invariant.                                                          *)

\* Objects that are on one controller at once have been recorded.
Lone ==
  \A o, x \in Objects :
    o # x /\ NumOf[o] = NumOf[x] /\ bus[o].state # "none" /\ bus[x].state # "none" => o \in shared

\* An object that has had its controller to itself.
Sole(o) == bus[o].spi /\ o \notin shared

\* An object whose constructor has at most n steps left.
Built(o, n) == bus[o].state = "made" \/ (bus[o].state = "making" /\ Place(o) <= n)

\* An object whose setFrequency has at most n steps left.
Changing(o, n) == bus[o].state = "made" /\ Place(o) \in 1..n

\* A controller with one object is set as the object says, but for a divider that is
\* being changed.
ConfiguredBy(o) ==
  /\ Built(o, 4) => ctl[NumOf[o]].duplex
  /\ Built(o, 5) => ctl[NumOf[o]].clk = IF Changing(o, 1) THEN DivOf[arg[OwnerOf[o]]] ELSE bus[o].div
  /\ Built(o, 5) => IF Changing(o, 3) THEN bus[o].frequency = arg[OwnerOf[o]]
                                      ELSE bus[o].div = DivOf[bus[o].frequency]
Configured == \A o \in Objects : Sole(o) => ConfiguredBy(o)

\* Starts that overlap have been recorded.
Starts ==
  \A t, u \in Tasks :
    t # u /\ Kind(t) = "built" /\ Left(t) >= 8 /\ Kind(u) = "built" /\ Left(u) >= 8
      => NumOf[on[t]] \in raced

\* An object whose constructor, if it runs, has at most n steps left.
Within(o, n) == bus[o].state = "making" => Place(o) <= n

\* What constructors have read of DPORT's registers keeps controller c in order.
ReadRight(c) ==
  \A u \in Tasks : Kind(u) = "built" =>
    /\ Left(u) = 10 => c \in read[u]
    /\ Left(u) = 8  => c \notin read[u]

\* No other start takes a controller's clock away or puts it into reset again.
ClockedFor(o) ==
  /\ Within(o, 9) => NumOf[o] \in dport.clk
  /\ Within(o, 7) => NumOf[o] \notin dport.rst /\ ReadRight(NumOf[o])
Clocked == \A o \in Objects : Sole(o) /\ NumOf[o] \notin raced => ClockedFor(o)

Driver(c, sig) == [dir |-> "out", signal |-> [num |-> c, sig |-> sig]]

\* The pins of a controller's one object are attached to it.
AttachedTo(o) ==
  /\ Built(o, 3) => pins[Pin(o, "sck")] = Driver(NumOf[o], "sck")
  /\ Built(o, 2) => miso[NumOf[o]] = Pin(o, "miso") /\ pins[Pin(o, "miso")].dir = "in"
  /\ Built(o, 1) => pins[Pin(o, "mosi")] = Driver(NumOf[o], "mosi")
Attachments == \A o \in Objects : Sole(o) => AttachedTo(o)

\* An object that will still come to the last n steps of its destructor.
Detaches(o, n) == bus[o].spi /\ (bus[o].state = "ending" => Place(o) >= n)

\* A pin that is not an idle input has an object that will detach it.
Kept ==
  \A p \in AllPins :
    \/ pins[p] = [dir |-> "in", signal |-> Quiet]
    \/ \E o \in Objects : \/ p = Pin(o, "sck")  /\ Detaches(o, 3)
                          \/ p = Pin(o, "mosi") /\ Detaches(o, 5)

\* A message between its take and its give.
Holding(t) ==
  Kind(t) = "deselect" /\ bus[on[t]].spi /\ Left(t) \in 2..(2 * Exchanges(arg[t]) + 2)

\* It has the lock, nobody else does, and an exchange on the wire is awaited by the holder.
Awaiting(t) == Left(t) > 2 /\ Left(t) % 2 = 1
Locks ==
  /\ \A t \in Tasks : Holding(t) => ctl[NumOf[on[t]]].owner = t
  /\ \A c \in Controllers :
       /\ ctl[c].owner # None => \E t \in Tasks : ctl[c].owner = t /\ Holding(t) /\ NumOf[on[t]] = c
       /\ ctl[c].usr => \E t \in Tasks : ctl[c].owner = t /\ Awaiting(t)

\* A message has had a reply for each exchange that is over.
Had(t) ==
  Exchanges(arg[t]) - (Left(t) - 1) \div 2
  + IF Awaiting(t) /\ ~ctl[NumOf[on[t]]].usr THEN 1 ELSE 0
Answered ==
  \A t \in Tasks :
    IF Kind(t) = "deselect" /\ bus[on[t]].spi /\ Left(t) <= 2 * Exchanges(arg[t]) + 2
      THEN Len(reply[t]) = Had(t)
      ELSE reply[t] = <<>>

\* Messages that overlap on a controller have been recorded.
Alone ==
  \A t, u \in Tasks :
    t # u /\ Kind(t) = "deselect" /\ Kind(u) = "deselect" /\ NumOf[on[t]] = NumOf[on[u]] => t \in upset

Heard(t, n)   == [i \in 1..n |-> [from |-> t, n |-> i]]
Replies(s, n) == [i \in 1..n |-> s]

\* A message that has its controller to itself, after its select.
Clean(t) ==
  /\ Kind(t) = "deselect" /\ bus[on[t]].spi /\ Left(t) <= 2 * Exchanges(arg[t]) + 3
  /\ t \notin upset /\ on[t] \notin shared /\ NumOf[on[t]] \notin raced

\* It has been heard as far as it was answered.
Messages ==
  \A t \in Tasks : Clean(t) =>
    LET s == SlaveOf[t][on[t]]
    IN  s \in low /\ heard[s] = Heard(t, Len(reply[t])) /\ reply[t] = Replies(s, Len(reply[t]))

CtlRecords ==
  [made : BOOLEAN, owner : Tasks \cup {None}, clk : {0} \cup {DivOf[f] : f \in Freqs},
   duplex : BOOLEAN, usr : BOOLEAN]
CtlTypes == ctl \in [Controllers -> CtlRecords]

DeviceTypes ==
  /\ read \in [Tasks -> SUBSET Controllers]
  /\ CtlTypes
  /\ miso \in [Controllers -> AllPins \cup {-1}]
  /\ pins \in [AllPins -> [dir : {"in", "out"}, signal : Driven \cup {Quiet}]]
  /\ dport \in [clk : SUBSET Controllers, rst : SUBSET Controllers]
  /\ low \subseteq Slaves
  /\ shared \subseteq Objects /\ upset \subseteq Tasks /\ raced \subseteq Controllers

LEMMA Modes ==
  pinMode("RAW_OUTPUT") = "out" /\ pinMode("RAW_INPUT") = "in"
BY DEF pinMode, Direction

LEMMA PinTypes ==
  ASSUME NEW o \in Objects
  PROVE  /\ NumOf[o] \in Controllers
         /\ Pin(o, "sck") \in AllPins /\ Pin(o, "miso") \in AllPins /\ Pin(o, "mosi") \in AllPins
         /\ Pin(o, "sck") \in PinsOf(o) /\ Pin(o, "miso") \in PinsOf(o) /\ Pin(o, "mosi") \in PinsOf(o)
         /\ Pin(o, "sck") # Pin(o, "miso") /\ Pin(o, "sck") # Pin(o, "mosi") /\ Pin(o, "miso") # Pin(o, "mosi")
<1>1. NumOf[o] \in Controllers  BY DEF Controllers
<1>2. "sck" \in Signals /\ "miso" \in Signals /\ "mosi" \in Signals  BY DEF Signals
<1>3. Pin(o, "sck") \in PinsOf(o) /\ Pin(o, "miso") \in PinsOf(o) /\ Pin(o, "mosi") \in PinsOf(o)
  BY <1>2 DEF PinsOf
<1>4. \A p \in PinsOf(o) : p \in AllPins  BY DEF AllPins
<1>5. \A i, j \in Signals : i # j => Pin(o, i) # Pin(o, j)  BY WiringAssumption
<1> QED  BY <1>1, <1>2, <1>3, <1>4, <1>5

LEMMA TypesOfRead ==
  ASSUME CallInv, DeviceTypes, NEW t \in Tasks, ReadDport(t) \/ WriteDport(t)
  PROVE  DeviceTypes'
<1>1. on[t] \in Objects  BY PlainDoes DEF Plain
<1>2. NumOf[on[t]] \in Controllers  BY <1>1, PinTypes
<1>3. CASE ReadDport(t)
  <2>1. read' = [read EXCEPT ![t] = dport.clk] \/ read' = [read EXCEPT ![t] = dport.rst]
    BY <1>3 DEF ReadDport
  <2>2. read' \in [Tasks -> SUBSET Controllers]  BY <2>1 DEF DeviceTypes
  <2> QED  BY <1>3, <2>2 DEF ReadDport, DeviceTypes, CtlTypes, wire, seen
<1>4. CASE WriteDport(t)
  <2>1. read' = [read EXCEPT ![t] = {}]  BY <1>4 DEF WriteDport
  <2>2. read' \in [Tasks -> SUBSET Controllers]  BY <2>1 DEF DeviceTypes
  <2>3. \/ dport' = [dport EXCEPT !.clk = read[t] \cup {Num(t)}]
        \/ dport' = [dport EXCEPT !.rst = read[t] \ {Num(t)}]
    BY <1>4 DEF WriteDport, PeriphBit
  <2>4. read[t] \subseteq Controllers  BY DEF DeviceTypes
  <2>5. dport' \in [clk : SUBSET Controllers, rst : SUBSET Controllers]
    BY <1>2, <2>3, <2>4 DEF DeviceTypes, Num
  <2> QED  BY <1>4, <2>2, <2>5 DEF WriteDport, DeviceTypes, CtlTypes, wire, seen
<1> QED  BY <1>3, <1>4

\* The fields of a controller, one by one.
LEMMA CtlFields ==
  ASSUME NEW k \in CtlRecords, NEW b \in BOOLEAN, NEW o \in Tasks \cup {None},
         NEW d \in {0} \cup {DivOf[f] : f \in Freqs}
  PROVE  /\ [k EXCEPT !.made = b] \in CtlRecords /\ [k EXCEPT !.owner = o] \in CtlRecords
         /\ [k EXCEPT !.clk = d] \in CtlRecords
         /\ [k EXCEPT !.clk = d, !.duplex = b] \in CtlRecords
         /\ [k EXCEPT !.duplex = b] \in CtlRecords /\ [k EXCEPT !.usr = b] \in CtlRecords
BY DEF CtlRecords

LEMMA CtlChange ==
  ASSUME CtlTypes, NEW c \in Controllers, NEW r \in CtlRecords, ctl' = [ctl EXCEPT ![c] = r]
  PROVE  CtlTypes'
BY DEF CtlTypes

LEMMA TypesOfSection ==
  ASSUME CallInv, DeviceTypes, NEW t \in Tasks,
         Section(t) \/ TransferLock(t) \/ Launch(t) \/ CreateLock(t)
  PROVE  CtlTypes'
<1>0. PICK c \in Controllers : on[t] \in Objects /\ c = NumOf[on[t]]
  <2>1. on[t] \in Objects  BY PlainDoes, CreateDoes DEF Plain
  <2> QED  BY <2>1, PinTypes
<1>1. CtlTypes /\ ctl[c] \in CtlRecords
  <2>1. CtlTypes  BY DEF DeviceTypes
  <2> QED  BY <2>1 DEF CtlTypes
<1> DEFINE k == ctl[c]
           Divs == {0} \cup {DivOf[f] : f \in Freqs}
<1>a. TRUE \in BOOLEAN /\ FALSE \in BOOLEAN /\ 0 \in Divs /\ t \in Tasks \cup {None} /\ None \in Tasks \cup {None}
  OBVIOUS
<1>2. CASE Section(t)
  <2>1. bus[on[t]].div \in Divs  BY <1>0 DEF CallInv, CallTypes
  <2>2. At(t, "setDiv") => DivOf[arg[t]] \in Divs
    <3>1. At(t, "setDiv") => Kind(t) = "div"  BY Where DEF CallInv
    <3> QED  BY <3>1 DEF CallInv, Calls
  <2>3. \/ ctl' = [ctl EXCEPT ![c] = [k EXCEPT !.clk = 0, !.duplex = FALSE]]
        \/ \E d \in Divs : ctl' = [ctl EXCEPT ![c] = [k EXCEPT !.clk = d]]
        \/ ctl' = [ctl EXCEPT ![c] = [k EXCEPT !.duplex = TRUE]]
    BY <1>0, <1>2, <2>1, <2>2 DEF Section, Num, StartDiv
  <2>4. /\ [k EXCEPT !.clk = 0, !.duplex = FALSE] \in CtlRecords
        /\ \A d \in Divs : [k EXCEPT !.clk = d] \in CtlRecords
        /\ [k EXCEPT !.duplex = TRUE] \in CtlRecords
    BY ONLY <1>1, <1>a, CtlFields
  <2> HIDE DEF k, Divs
  <2> QED  BY ONLY <1>1, <2>3, <2>4, CtlChange
<1>3. CASE TransferLock(t)
  <2>1. \E o \in Tasks \cup {None} : ctl' = [ctl EXCEPT ![c] = [k EXCEPT !.owner = o]]
    BY <1>0, <1>3, <1>a DEF TransferLock, Num
  <2>2. \A o \in Tasks \cup {None} : [k EXCEPT !.owner = o] \in CtlRecords
    BY ONLY <1>1, <1>a, CtlFields
  <2> HIDE DEF k
  <2> QED  BY ONLY <1>1, <2>1, <2>2, CtlChange
<1>4. CASE Launch(t)
  <2>1. ctl' = [ctl EXCEPT ![c] = [k EXCEPT !.usr = TRUE]]  BY <1>0, <1>4 DEF Launch, Num
  <2>2. [k EXCEPT !.usr = TRUE] \in CtlRecords  BY ONLY <1>1, <1>a, CtlFields
  <2> HIDE DEF k
  <2> QED  BY ONLY <1>1, <2>1, <2>2, CtlChange
<1>5. CASE CreateLock(t)
  <2>1. ctl' = [ctl EXCEPT ![c] = [k EXCEPT !.made = TRUE]] \/ ctl' = ctl
    BY <1>0, <1>5 DEF CreateLock, Num
  <2>2. CASE ctl' = ctl  BY <1>1, <2>2 DEF CtlTypes
  <2>3. CASE ctl' = [ctl EXCEPT ![c] = [k EXCEPT !.made = TRUE]]
    <3>1. [k EXCEPT !.made = TRUE] \in CtlRecords  BY ONLY <1>1, <1>a, CtlFields
    <3> HIDE DEF k
    <3> QED  BY ONLY <1>1, <2>3, <3>1, CtlChange
  <2> QED  BY <2>1, <2>2, <2>3
<1> QED  BY <1>2, <1>3, <1>4, <1>5

PinStates ==
  /\ miso \in [Controllers -> AllPins \cup {-1}]
  /\ pins \in [AllPins -> [dir : {"in", "out"}, signal : Driven \cup {Quiet}]]

\* What attaching and detaching do to the pins.
LEMMA AttachDoes ==
  ASSUME CallInv, NEW t \in Tasks, AttachPin(t), NEW o \in Objects, o = on[t]
  PROVE  /\ Kind(t) = "built"
         /\ \/ Left(t) = 4 /\ pins' = [pins EXCEPT ![Pin(o, "sck")] = Driver(NumOf[o], "sck")] /\ miso' = miso
            \/ Left(t) = 2 /\ pins' = [pins EXCEPT ![Pin(o, "mosi")] = Driver(NumOf[o], "mosi")] /\ miso' = miso
            \/ Left(t) = 3 /\ pins' = [pins EXCEPT ![Pin(o, "miso")].dir = "in"]
               /\ miso' = [miso EXCEPT ![NumOf[o]] = Pin(o, "miso")]
<1>1. CallTypes /\ Shape  BY DEF CallInv
<1> QED  BY <1>1, Where, Modes DEF AttachPin, Attached, Num, Driver

LEMMA DetachDoes ==
  ASSUME CallInv, NEW t \in Tasks, DetachPin(t), NEW o \in Objects, o = on[t]
  PROVE  /\ Kind(t) = "gone"
         /\ \/ Left(t) = 3 /\ pins' = [pins EXCEPT ![Pin(o, "sck")] = [dir |-> "in", signal |-> Quiet]] /\ miso' = miso
            \/ Left(t) = 5 /\ pins' = [pins EXCEPT ![Pin(o, "mosi")] = [dir |-> "in", signal |-> Quiet]] /\ miso' = miso
            \/ Left(t) = 4 /\ pins' = [pins EXCEPT ![Pin(o, "miso")].dir = "in"]
               /\ miso' = [miso EXCEPT ![NumOf[o]] = -1]
<1>1. CallTypes /\ Shape  BY DEF CallInv
<1> QED  BY <1>1, Where, Modes DEF DetachPin, Detached, Num

LEMMA TypesOfPins ==
  ASSUME CallInv, DeviceTypes, NEW t \in Tasks, AttachPin(t) \/ DetachPin(t)
  PROVE  PinStates'
<1>0. PICK o \in Objects : o = on[t]  BY PlainDoes DEF Plain
<1>1. /\ NumOf[o] \in Controllers
      /\ Pin(o, "sck") \in AllPins /\ Pin(o, "miso") \in AllPins /\ Pin(o, "mosi") \in AllPins
  BY PinTypes
<1>2. Driver(NumOf[o], "sck") \in [dir : {"in", "out"}, signal : Driven \cup {Quiet}]
      /\ Driver(NumOf[o], "mosi") \in [dir : {"in", "out"}, signal : Driven \cup {Quiet}]
      /\ [dir |-> "in", signal |-> Quiet] \in [dir : {"in", "out"}, signal : Driven \cup {Quiet}]
  BY <1>1 DEF Driver, Driven
<1>3. miso \in [Controllers -> AllPins \cup {-1}] /\ pins \in [AllPins -> [dir : {"in", "out"}, signal : Driven \cup {Quiet}]]
  BY DEF DeviceTypes
<1>4. \/ pins' = [pins EXCEPT ![Pin(o, "sck")] = Driver(NumOf[o], "sck")]
      \/ pins' = [pins EXCEPT ![Pin(o, "mosi")] = Driver(NumOf[o], "mosi")]
      \/ pins' = [pins EXCEPT ![Pin(o, "sck")] = [dir |-> "in", signal |-> Quiet]]
      \/ pins' = [pins EXCEPT ![Pin(o, "mosi")] = [dir |-> "in", signal |-> Quiet]]
      \/ pins' = [pins EXCEPT ![Pin(o, "miso")].dir = "in"]
  BY <1>0, AttachDoes, DetachDoes
<1>5. \/ miso' = miso \/ miso' = [miso EXCEPT ![NumOf[o]] = Pin(o, "miso")]
      \/ miso' = [miso EXCEPT ![NumOf[o]] = -1]
  BY <1>0, AttachDoes, DetachDoes
<1>6. miso' \in [Controllers -> AllPins \cup {-1}]  BY <1>1, <1>3, <1>5
<1>7. CASE pins' = [pins EXCEPT ![Pin(o, "miso")].dir = "in"]
  BY <1>1, <1>3, <1>6, <1>7 DEF PinStates
<1>8. CASE \E p \in AllPins, v \in [dir : {"in", "out"}, signal : Driven \cup {Quiet}] : pins' = [pins EXCEPT ![p] = v]
  BY <1>3, <1>6, <1>8 DEF PinStates
<1> QED  BY <1>1, <1>2, <1>4, <1>7, <1>8

LEMMA NextCases ==
  ASSUME [Next]_vars
  PROVE  \/ \E t \in Tasks, o \in Objects :
              \/ New(t, o) \/ Delete(t, o)
              \/ \E f \in Freqs : setFrequency(t, o, f)
              \/ \E n \in Sizes : transfer(t, o, n)
         \/ \E t \in Tasks : CreateLock(t) \/ Compare(t) \/ End(t) \/ Store(t) \/ Plain(t)
         \/ \E c \in Controllers : Complete(c)
         \/ UNCHANGED vars
BY DEF Next, Step, Plain

LEMMA CompleteFrame ==
  ASSUME NEW c, Complete(c)
  PROVE  /\ ctl[c].usr /\ ctl' = [ctl EXCEPT ![c].usr = FALSE]
         /\ UNCHANGED <<call, read, bus, miso, pins, low, dport, seen, calls>>
BY Zenon DEF Complete

LEMMA TypesNext ==
  ASSUME CallInv, DeviceTypes, [Next]_vars
  PROVE  CallInv' /\ DeviceTypes'
<1>1. ASSUME NEW t \in Tasks, NEW o \in Objects, New(t, o) PROVE CallInv' /\ DeviceTypes'
  <2>1. CallInv'  BY <1>1, NewDoes
  <2>2. shared' \subseteq Objects
    BY <1>1 DEF New, DeviceTypes, Others
  <2>3. raced' \subseteq Controllers
    <3>1. \A u \in Tasks : Starting(u) => NumOf[on[u]] \in Controllers
      <4>1. \A u \in Tasks : Starting(u) => Kind(u) = "built"  BY Ahead DEF CallInv
      <4>2. \A u \in Tasks : Kind(u) = "built" => on[u] \in Objects  BY LeftBounds
      <4> QED  BY <4>1, <4>2, PinTypes
    <3> QED  BY <1>1, <3>1, PinTypes DEF New, DeviceTypes
  <2> QED  BY <1>1, <2>1, <2>2, <2>3 DEF New, DeviceTypes, CtlTypes, wire
<1>2. ASSUME NEW t \in Tasks, NEW o \in Objects, Delete(t, o) PROVE CallInv' /\ DeviceTypes'
  BY <1>2, DeleteDoes DEF Delete, DeviceTypes, CtlTypes, wire, seen
<1>3. ASSUME NEW t \in Tasks, NEW o \in Objects, NEW f \in Freqs, setFrequency(t, o, f) PROVE CallInv' /\ DeviceTypes'
  BY <1>3, SetFrequencyDoes DEF setFrequency, DeviceTypes, CtlTypes, wire, seen
<1>4. ASSUME NEW t \in Tasks, NEW o \in Objects, NEW n \in Sizes, transfer(t, o, n) PROVE CallInv' /\ DeviceTypes'
  <2>1. upset' \subseteq Tasks  BY <1>4 DEF transfer, DeviceTypes
  <2> QED  BY <1>4, <2>1, TransferDoes DEF transfer, DeviceTypes, CtlTypes, wire
<1>5. ASSUME NEW t \in Tasks, CreateLock(t) PROVE CallInv' /\ DeviceTypes'
  <2>1. CtlTypes'  BY <1>5, TypesOfSection
  <2> QED  BY <1>5, <2>1, CreateDoes DEF CreateLock, DeviceTypes, wire, seen
<1>6. ASSUME NEW t \in Tasks, Compare(t) PROVE CallInv' /\ DeviceTypes'
  <2>1. UNCHANGED <<read, ctl, wire, dport, seen>>  BY <1>6 DEF Compare
  <2>2. CallInv'  BY <1>6, CompareDoes
  <2>3. DeviceTypes'  BY <2>1 DEF DeviceTypes, CtlTypes, wire, seen
  <2> QED  BY <2>2, <2>3
<1>7. ASSUME NEW t \in Tasks, End(t) PROVE CallInv' /\ DeviceTypes'
  <2>5. shared' = shared \/ shared' = shared \ {on[t]}  BY <1>7 DEF End
  <2>1. shared' \subseteq Objects  BY <2>5 DEF DeviceTypes
  <2>2. CallInv'  BY <1>7, EndDoes
  <2>3. UNCHANGED <<read, ctl, wire, dport, upset, raced>>  BY <1>7 DEF End
  <2>4. DeviceTypes'  BY <2>1, <2>3 DEF DeviceTypes, CtlTypes, wire
  <2> QED  BY <2>2, <2>4
<1>8. ASSUME NEW t \in Tasks, Store(t) PROVE CallInv' /\ DeviceTypes'
  BY <1>8, StoreDoes DEF Store, DeviceTypes, CtlTypes, wire, seen
<1>9. ASSUME NEW t \in Tasks, Plain(t) PROVE CallInv' /\ DeviceTypes'
  <2>0. CallInv'  BY <1>9, PlainDoes
  <2>1. CASE ReadDport(t) \/ WriteDport(t)  BY <2>0, <2>1, TypesOfRead
  <2>2. CASE Section(t) \/ TransferLock(t) \/ Launch(t)
    <3>1. CtlTypes'  BY <2>2, TypesOfSection
    <3> QED  BY <2>0, <2>2, <3>1 DEF Section, TransferLock, Launch, DeviceTypes, wire, seen
  <2>3. CASE NoSection(t) \/ Await(t)
    BY <2>0, <2>3 DEF NoSection, Await, DeviceTypes, CtlTypes, wire, seen
  <2>4. CASE AttachPin(t) \/ DetachPin(t)
    <3>1. PinStates'  BY <2>4, TypesOfPins
    <3> QED  BY <2>0, <2>4, <3>1 DEF AttachPin, DetachPin, DeviceTypes, CtlTypes, PinStates, seen
  <2>5. CASE ChipSelect(t)
    <3>1. on[t] \in Objects  BY <1>9, PlainDoes
    <3>2. SlaveOf[t][on[t]] \in Slaves  BY <3>1, SlaveAssumption
    <3>3. low' \subseteq Slaves /\ upset' \subseteq Tasks  BY <2>5, <3>2 DEF ChipSelect, DeviceTypes
    <3> QED  BY <2>0, <2>5, <3>3 DEF ChipSelect, DeviceTypes, CtlTypes
  <2> QED  BY <1>9, <2>1, <2>2, <2>3, <2>4, <2>5 DEF Plain
<1>10. ASSUME NEW c \in Controllers, Complete(c) PROVE CallInv' /\ DeviceTypes'
  <2>1. ctl' = [ctl EXCEPT ![c].usr = FALSE]  BY <1>10, CompleteFrame, Zenon
  <2>2. CtlTypes'
    <3>1. CtlTypes  BY DEF DeviceTypes
    <3>2. [ctl[c] EXCEPT !.usr = FALSE] \in CtlRecords
      <4>1. \A k \in CtlRecords : [k EXCEPT !.usr = FALSE] \in CtlRecords  BY DEF CtlRecords
      <4> QED  BY <3>1, <4>1 DEF CtlTypes
    <3> QED  BY ONLY <2>1, <3>1, <3>2, <1>10, CtlChange
  <2> QED  BY <1>10, <2>2, CompleteFrame, CallSame DEF DeviceTypes, seen
<1>11. CASE UNCHANGED vars
  BY <1>11, CallSame DEF vars, DeviceTypes, CtlTypes, wire, seen
<1> QED  BY <1>1, <1>2, <1>3, <1>4, <1>5, <1>6, <1>7, <1>8, <1>9, <1>10, <1>11, NextCases

-----------------------------------------------------------------------------
(* Objects on one controller.                                              *)

\* No object has come or gone.
LEMMA LoneSame ==
  ASSUME Lone, \A o \in Objects : (bus'[o].state = "none") = (bus[o].state = "none"), shared' = shared
  PROVE  Lone'
BY DEF Lone

LEMMA LoneNext ==
  ASSUME CallInv, Lone, [Next]_vars
  PROVE  Lone'
<1>1. ASSUME NEW t \in Tasks, NEW o \in Objects, New(t, o) PROVE Lone'
  <2>1. /\ bus[o].state = "none" /\ bus'[o].state = "making"
        /\ \A x \in Objects \ {o} : bus'[x] = bus[x]
    <3>1. Created(t, o)  BY <1>1, NewDoes
    <3> QED  BY <3>1 DEF Created
  <2>2. shared' = IF Others(o) = {} THEN shared \ {o} ELSE shared \cup Others(o) \cup {o}
    BY <1>1 DEF New
  <2>3. ASSUME NEW x \in Objects, NEW y \in Objects, x # y, NumOf[x] = NumOf[y],
               bus'[x].state # "none", bus'[y].state # "none"
        PROVE  x \in shared'
    <3>1. CASE x = o
      <4>1. y \in Others(o)  BY <2>1, <2>3, <3>1 DEF Others
      <4> QED  BY <2>2, <3>1, <4>1
    <3>2. CASE y = o
      <4>1. x \in Others(o)  BY <2>1, <2>3, <3>2 DEF Others
      <4> QED  BY <2>2, <3>2, <4>1
    <3>3. CASE x # o /\ y # o
      <4>1. x \in shared  BY <2>1, <2>3, <3>3 DEF Lone
      <4> QED  BY <2>2, <3>3, <4>1
    <3> QED  BY <3>1, <3>2, <3>3
  <2> QED  BY <2>3 DEF Lone
<1>2. ASSUME NEW t \in Tasks, NEW o \in Objects, Delete(t, o) PROVE Lone'
  BY <1>2, DeleteDoes, LoneSame DEF Delete, seen
<1>3. ASSUME NEW t \in Tasks, NEW o \in Objects, NEW f \in Freqs, setFrequency(t, o, f) PROVE Lone'
  BY <1>3, SetFrequencyDoes, LoneSame DEF setFrequency, seen
<1>4. ASSUME NEW t \in Tasks, NEW o \in Objects, NEW n \in Sizes, transfer(t, o, n) PROVE Lone'
  BY <1>4, TransferDoes, LoneSame DEF transfer
<1>5. ASSUME NEW t \in Tasks, CreateLock(t) PROVE Lone'
  <2>1. \A o \in Objects : bus'[o].state = bus[o].state
    <3>1. on[t] \in Objects /\ (bus' = bus \/ bus' = [bus EXCEPT ![on[t]].spi = TRUE])  BY <1>5, CreateDoes
    <3>2. CASE bus' = [bus EXCEPT ![on[t]].spi = TRUE]
      <4>1. bus \in [Objects -> [state : {"none", "making", "made", "ending"}, spi : BOOLEAN,
                                 frequency : Freqs, div : {DivOf[f] : f \in Freqs}]]
        BY DEF CallInv, CallTypes
      <4>2. ASSUME NEW o \in Objects PROVE bus'[o].state = bus[o].state
        <5>1. bus'[o] = IF o = on[t] THEN [bus[o] EXCEPT !.spi = TRUE] ELSE bus[o]  BY <3>2, <4>1
        <5> QED  BY <4>1, <5>1
      <4> QED  BY <4>2
    <3> QED  BY <3>1, <3>2
  <2> QED  BY <1>5, <2>1, LoneSame DEF CreateLock, seen
<1>6. ASSUME NEW t \in Tasks, Compare(t) PROVE Lone'
  BY <1>6, LoneSame DEF Compare, seen
<1>7. ASSUME NEW t \in Tasks, End(t) PROVE Lone'
  <2>0. PICK x \in Objects : x = on[t]  BY <1>7, EndDoes
  <2>1. CASE bus[x].state = "making" /\ bus' = [bus EXCEPT ![x].state = "made"] /\ shared' = shared
    <3>1. \A o \in Objects : (bus'[o].state = "none") = (bus[o].state = "none")
      BY <2>1 DEF CallInv, CallTypes
    <3> QED  BY <2>1, <3>1, LoneSame
  <2>2. CASE bus' = [bus EXCEPT ![x] = NoBus] /\ shared' = shared \ {x}
    <3>1. bus'[x].state = "none" /\ \A o \in Objects \ {x} : bus'[o] = bus[o]
      BY <2>2, NoBusType DEF CallInv, CallTypes
    <3> QED  BY <2>2, <3>1 DEF Lone
  <2> QED  BY <1>7, <2>0, <2>1, <2>2, EndDoes
<1>8. ASSUME NEW t \in Tasks, Store(t) PROVE Lone'
  BY <1>8, StoreDoes, LoneSame DEF Store, seen
<1>9. ASSUME NEW t \in Tasks, Plain(t) PROVE Lone'
  <2>1. bus' = bus  BY <1>9, PlainDoes
  <2>2. shared' = shared
    BY <1>9 DEF Plain, ReadDport, WriteDport, Section, NoSection, AttachPin, DetachPin, ChipSelect,
            TransferLock, Launch, Await, seen
  <2> QED  BY <2>1, <2>2, LoneSame
<1>10. ASSUME NEW c \in Controllers, Complete(c) PROVE Lone'
  BY <1>10, CompleteFrame, LoneSame DEF seen
<1>11. CASE UNCHANGED vars
  BY <1>11, LoneSame DEF vars, seen
<1> QED  BY <1>1, <1>2, <1>3, <1>4, <1>5, <1>6, <1>7, <1>8, <1>9, <1>10, <1>11, NextCases

\* What takes a controller from its one object, and what gives it one.
LEMMA SoleBefore ==
  ASSUME CallInv, Lone, NEW o \in Objects,
         bus[o].spi, NEW x \in Objects \ {o}, NumOf[x] = NumOf[o], bus[x].state # "none"
  PROVE  o \in shared
<1>1. bus[o].state # "none"  BY PlaceFacts
<1> QED  BY <1>1 DEF Lone

-----------------------------------------------------------------------------
(* Settings of the controllers.                                            *)

\* Objects that a step is not about stay in their places.
LEMMA StepElsewhere ==
  ASSUME CallInv, NEW t \in Tasks, Kind(t) # "idle", Walks(t), OthersStay(t),
         NEW o \in Objects, Kind(t) = "deselect" \/ on[t] # o
  PROVE  Place(o)' = Place(o) /\ (Place(o) # 0 => arg'[OwnerOf[o]] = arg[OwnerOf[o]])
<1>1. Place(o)' = Place(o)  BY PlaceStep
<1>2. ASSUME Place(o) # 0 PROVE arg'[OwnerOf[o]] = arg[OwnerOf[o]]
  <2>1. OwnerOf[o] \in Tasks \ {t}  BY <1>2 DEF Place
  <2> QED  BY <2>1 DEF OthersStay
<1> QED  BY <1>1, <1>2

LEMMA EnterElsewhere ==
  ASSUME CallInv, NEW t \in Tasks, NEW x \in Objects, NEW y, NEW kind,
         Entered(t, x, y, kind), OthersStay(t), NEW o \in Objects, o # x \/ kind = "deselect"
  PROVE  Place(o)' = Place(o) /\ (Place(o) # 0 => arg'[OwnerOf[o]] = arg[OwnerOf[o]])
<1>1. Place(o)' = Place(o)  BY PlaceEnter
<1>2. ASSUME Place(o) # 0 PROVE arg'[OwnerOf[o]] = arg[OwnerOf[o]]
  <2>1. Kind(t) = "idle" /\ Left(t) = 0  BY DEF Entered
  <2>2. OwnerOf[o] \in Tasks \ {t}  BY <1>2, <2>1 DEF Place
  <2> QED  BY <2>2 DEF OthersStay
<1> QED  BY <1>1, <1>2

LEMMA ConfiguredSame ==
  ASSUME NEW o \in Objects, ConfiguredBy(o), bus'[o] = bus[o], Place(o)' = Place(o),
         Place(o) # 0 => arg'[OwnerOf[o]] = arg[OwnerOf[o]],
         ctl'[NumOf[o]].duplex = ctl[NumOf[o]].duplex, ctl'[NumOf[o]].clk = ctl[NumOf[o]].clk
  PROVE  ConfiguredBy(o)'
<1>1. \A n : Built(o, n)' = Built(o, n)  BY DEF Built
<1>2. Changing(o, 1)' = Changing(o, 1) /\ Changing(o, 3)' = Changing(o, 3)  BY DEF Changing
<1>3. Changing(o, 1) \/ Changing(o, 3) => arg'[OwnerOf[o]] = arg[OwnerOf[o]]  BY DEF Changing
<1> QED  BY <1>1, <1>2, <1>3 DEF ConfiguredBy

\* What Plain steps do to the settings of controllers.
LEMMA SettingsStay ==
  ASSUME CallInv, DeviceTypes, NEW t \in Tasks,
         \/ CreateLock(t) \/ Compare(t) \/ End(t) \/ Store(t)
         \/ ReadDport(t) \/ WriteDport(t) \/ NoSection(t) \/ AttachPin(t) \/ DetachPin(t)
         \/ ChipSelect(t) \/ TransferLock(t) \/ Launch(t) \/ Await(t),
         NEW c \in Controllers
  PROVE  ctl'[c].duplex = ctl[c].duplex /\ ctl'[c].clk = ctl[c].clk
<1>1. \/ ctl' = ctl
      \/ ctl' = [ctl EXCEPT ![Num(t)].made = TRUE]
      \/ ctl' = [ctl EXCEPT ![Num(t)].owner = t]
      \/ ctl' = [ctl EXCEPT ![Num(t)].owner = None]
      \/ ctl' = [ctl EXCEPT ![Num(t)].usr = TRUE]
  BY DEF CreateLock, Compare, End, Store, ReadDport, WriteDport, NoSection, AttachPin, DetachPin,
         ChipSelect, TransferLock, Launch, Await
<1>2. CtlTypes  BY DEF DeviceTypes
<1> QED  BY <1>1, <1>2 DEF CtlTypes, CtlRecords

LEMMA SectionDoes ==
  ASSUME CallInv, DeviceTypes, NEW t \in Tasks, Section(t), NEW o \in Objects, o = on[t]
  PROVE  /\ \A c \in Controllers \ {NumOf[o]} : ctl'[c] = ctl[c]
         /\ ctl'[NumOf[o]].owner = ctl[NumOf[o]].owner /\ ctl'[NumOf[o]].usr = ctl[NumOf[o]].usr
         /\ \/ (Kind(t) = "built" /\ Left(t) = 7) \/ (Kind(t) = "gone" /\ Left(t) = 2)
            \/ Kind(t) = "built" /\ Left(t) = 6 /\ ctl'[NumOf[o]].clk = bus[o].div
               /\ ctl'[NumOf[o]].duplex = ctl[NumOf[o]].duplex
            \/ Kind(t) = "built" /\ Left(t) = 5 /\ ctl'[NumOf[o]].duplex
               /\ ctl'[NumOf[o]].clk = ctl[NumOf[o]].clk
            \/ Kind(t) = "div" /\ Left(t) = 2 /\ ctl'[NumOf[o]].clk = DivOf[arg[t]]
               /\ ctl'[NumOf[o]].duplex = ctl[NumOf[o]].duplex
<1>0. PICK c \in Controllers : c = NumOf[o]  BY PinTypes
<1>1. CtlTypes /\ CallTypes /\ Shape  BY DEF DeviceTypes, CallInv
<1>2. \/ /\ At(t, "stop")   /\ ctl' = [ctl EXCEPT ![c].clk = 0, ![c].duplex = FALSE]
      \/ /\ At(t, "clock")  /\ ctl' = [ctl EXCEPT ![c].clk = bus[o].div]
      \/ /\ At(t, "duplex") /\ ctl' = [ctl EXCEPT ![c].duplex = TRUE]
      \/ /\ At(t, "setDiv") /\ ctl' = [ctl EXCEPT ![c].clk = DivOf[arg[t]]]
  BY <1>0 DEF Section, Num, StartDiv
<1>3. CASE At(t, "stop")   /\ ctl' = [ctl EXCEPT ![c].clk = 0, ![c].duplex = FALSE]
  <2>1. (Kind(t) = "built" /\ Left(t) = 7) \/ (Kind(t) = "gone" /\ Left(t) = 2)  BY <1>1, <1>3, Where
  <2>2. /\ \A d \in Controllers \ {c} : ctl'[d] = ctl[d]
        /\ ctl'[c].owner = ctl[c].owner /\ ctl'[c].usr = ctl[c].usr
    BY <1>1, <1>3 DEF CtlTypes
  <2> QED  BY <1>0, <2>1, <2>2
<1>4. CASE At(t, "clock")  /\ ctl' = [ctl EXCEPT ![c].clk = bus[o].div]
  <2>1. Kind(t) = "built" /\ Left(t) = 6  BY <1>1, <1>4, Where
  <2>2. /\ \A d \in Controllers \ {c} : ctl'[d] = ctl[d]
        /\ ctl'[c].owner = ctl[c].owner /\ ctl'[c].usr = ctl[c].usr
        /\ ctl'[c].clk = bus[o].div /\ ctl'[c].duplex = ctl[c].duplex
    BY <1>1, <1>4 DEF CtlTypes
  <2> QED  BY <1>0, <2>1, <2>2
<1>5. CASE At(t, "duplex") /\ ctl' = [ctl EXCEPT ![c].duplex = TRUE]
  <2>1. Kind(t) = "built" /\ Left(t) = 5  BY <1>1, <1>5, Where
  <2>2. /\ \A d \in Controllers \ {c} : ctl'[d] = ctl[d]
        /\ ctl'[c].owner = ctl[c].owner /\ ctl'[c].usr = ctl[c].usr
        /\ ctl'[c].duplex = TRUE /\ ctl'[c].clk = ctl[c].clk
    BY <1>1, <1>5 DEF CtlTypes
  <2> QED  BY <1>0, <2>1, <2>2
<1>6. CASE At(t, "setDiv") /\ ctl' = [ctl EXCEPT ![c].clk = DivOf[arg[t]]]
  <2>1. Kind(t) = "div" /\ Left(t) = 2  BY <1>1, <1>6, Where
  <2>2. /\ \A d \in Controllers \ {c} : ctl'[d] = ctl[d]
        /\ ctl'[c].owner = ctl[c].owner /\ ctl'[c].usr = ctl[c].usr
        /\ ctl'[c].clk = DivOf[arg[t]] /\ ctl'[c].duplex = ctl[c].duplex
    BY <1>1, <1>6 DEF CtlTypes
  <2> QED  BY <1>0, <2>1, <2>2
<1> QED  BY <1>2, <1>3, <1>4, <1>5, <1>6

\* What CreateLock, Compare, End and Store have in common.
LEMMA OddWalks ==
  ASSUME CallInv, NEW t \in Tasks, CreateLock(t) \/ Compare(t) \/ End(t) \/ Store(t)
  PROVE  /\ Walks(t) /\ OthersStay(t) /\ on[t] \in Objects /\ Kind(t) \in {"built", "gone", "div"}
         /\ \A o \in Objects \ {on[t]} : bus'[o] = bus[o]
<1>0. CallTypes  BY DEF CallInv
<1>1. CASE CreateLock(t)
  <2>1. /\ OthersStay(t) /\ on[t] \in Objects /\ Kind(t) = "built"
        /\ Kind(t)' = "built" /\ on'[t] = on[t] /\ arg'[t] = arg[t]
        /\ (bus' = bus \/ bus' = [bus EXCEPT ![on[t]].spi = TRUE])
    BY <1>1, CreateDoes
  <2>2. \A o \in Objects \ {on[t]} : bus'[o] = bus[o]  BY <1>0, <2>1 DEF CallTypes
  <2> QED  BY <2>1, <2>2 DEF Walks
<1>2. CASE Compare(t)
  <2>1. /\ OthersStay(t) /\ on[t] \in Objects /\ Kind(t) = "div" /\ bus' = bus
    BY <1>2, CompareDoes
  <2>2. Walks(t)  BY <1>2, <2>1, CompareDoes DEF Walks
  <2> QED  BY <2>1, <2>2
<1>3. CASE End(t)
  <2>1. /\ OthersStay(t) /\ on[t] \in Objects
        /\ Kind(t)' = "idle" /\ Left(t)' = 0 /\ on'[t] = None
        /\ Kind(t) \in {"built", "gone"}
        /\ (bus' = [bus EXCEPT ![on[t]] = NoBus] \/ bus' = [bus EXCEPT ![on[t]].state = "made"])
    BY <1>3, EndDoes
  <2>2. \A o \in Objects \ {on[t]} : bus'[o] = bus[o]  BY <1>0, <2>1 DEF CallTypes
  <2> QED  BY <2>1, <2>2 DEF Walks
<1>4. CASE Store(t)
  <2>1. /\ OthersStay(t) /\ on[t] \in Objects /\ Kind(t) = "div"
        /\ (bus' = [bus EXCEPT ![on[t]].frequency = arg[t]] \/ bus' = [bus EXCEPT ![on[t]].div = DivOf[arg[t]]])
    BY <1>4, StoreDoes
  <2>2. \A o \in Objects \ {on[t]} : bus'[o] = bus[o]  BY <1>0, <2>1 DEF CallTypes
  <2>3. Walks(t)  BY <1>4, <2>1, StoreDoes DEF Walks
  <2> QED  BY <2>1, <2>2, <2>3
<1> QED  BY <1>1, <1>2, <1>3, <1>4

\* An object has its controller to itself only from its start.
LEMMA SoleNext ==
  ASSUME CallInv, [Next]_vars, NEW o \in Objects, Sole(o)'
  PROVE  Sole(o) \/ (bus'[o].state = "making" /\ Place(o)' = 11)
<1>0. bus'[o].spi /\ o \notin shared'  BY DEF Sole
<1> SUFFICES ASSUME ~(bus'[o].state = "making" /\ Place(o)' = 11) PROVE Sole(o)  OBVIOUS
<1>1. ASSUME NEW t \in Tasks, NEW x \in Objects, New(t, x) PROVE Sole(o)
  <2>0. Created(t, x)  BY <1>1, NewDoes
  <2>1. bus'[x].spi = FALSE  BY <2>0 DEF Created
  <2>2. o # x  BY <1>0, <2>1
  <2>3. \A y \in Objects \ {x} : bus'[y] = bus[y]  BY <2>0 DEF Created
  <2>4. o \notin shared  BY <1>0, <1>1, <2>2 DEF New
  <2>5. bus'[o] = bus[o]  BY <2>2, <2>3
  <2> QED  BY <1>0, <2>4, <2>5 DEF Sole
<1>2. ASSUME NEW t \in Tasks, NEW x \in Objects, Delete(t, x) PROVE Sole(o)
  <2>1. bus'[o].spi = bus[o].spi  BY <1>2, DeleteDoes
  <2> QED  BY <1>0, <1>2, <2>1 DEF Sole, Delete, seen
<1>3. ASSUME NEW t \in Tasks, NEW x \in Objects, NEW f \in Freqs, setFrequency(t, x, f) PROVE Sole(o)
  BY <1>0, <1>3 DEF Sole, setFrequency, seen
<1>4. ASSUME NEW t \in Tasks, NEW x \in Objects, NEW n \in Sizes, transfer(t, x, n) PROVE Sole(o)
  BY <1>0, <1>4 DEF Sole, transfer
<1>5. ASSUME NEW t \in Tasks, CreateLock(t) PROVE Sole(o)
  <2>1. shared' = shared  BY <1>5 DEF CreateLock, seen
  <2>2. CASE o = on[t] /\ Left(t)' = 11
    <3>1. bus' = [bus EXCEPT ![o].spi = TRUE] \/ bus' = bus  BY <1>5, <2>2, CreateDoes
    <3>2. bus[o].state = "making" /\ Kind(t) = "built"  BY <1>5, <2>2, CreateDoes
    <3>3. bus'[o].state = "making"  BY <3>1, <3>2 DEF CallInv, CallTypes
    <3>4. Place(o)' = 11
      <4>1. Walks(t) /\ OthersStay(t)  BY <1>5, OddWalks
      <4>2. Kind(t) # "idle" /\ Kind(t) # "deselect"  BY <3>2
      <4> QED  BY <2>2, <4>1, <4>2, PlaceStep
    <3> QED  BY <3>3, <3>4
  <2>3. CASE o = on[t] /\ Left(t)' # 11
    <3>1. bus' = bus  BY <1>5, <2>3, CreateDoes
    <3> QED  BY <1>0, <2>1, <3>1 DEF Sole
  <2>4. CASE o # on[t]
    <3>1. bus'[o] = bus[o]  BY <1>5, <2>4, OddWalks
    <3> QED  BY <1>0, <2>1, <3>1 DEF Sole
  <2> QED  BY <2>2, <2>3, <2>4
<1>6. ASSUME NEW t \in Tasks, Compare(t) PROVE Sole(o)
  BY <1>0, <1>6 DEF Sole, Compare, seen
<1>7. ASSUME NEW t \in Tasks, End(t) PROVE Sole(o)
  <2>0. PICK x \in Objects : x = on[t]  BY <1>7, EndDoes
  <2>1. \/ bus' = [bus EXCEPT ![x].state = "made"] /\ shared' = shared
        \/ bus' = [bus EXCEPT ![x] = NoBus] /\ shared' = shared \ {x}
    BY <1>7, <2>0, EndDoes
  <2>2. CASE bus' = [bus EXCEPT ![x].state = "made"] /\ shared' = shared
    <3>1. bus'[o].spi = bus[o].spi  BY <2>2 DEF CallInv, CallTypes
    <3> QED  BY <1>0, <2>2, <3>1 DEF Sole
  <2>3. CASE bus' = [bus EXCEPT ![x] = NoBus] /\ shared' = shared \ {x}
    <3>1. bus'[x].spi = FALSE /\ \A y \in Objects \ {x} : bus'[y] = bus[y]
      BY <2>3, NoBusType DEF CallInv, CallTypes
    <3>2. o # x  BY <1>0, <3>1
    <3> QED  BY <1>0, <2>3, <3>1, <3>2 DEF Sole
  <2> QED  BY <2>1, <2>2, <2>3
<1>8. ASSUME NEW t \in Tasks, Store(t) PROVE Sole(o)
  <2>1. bus'[o].spi = bus[o].spi  BY <1>8, StoreDoes
  <2> QED  BY <1>0, <1>8, <2>1 DEF Sole, Store, seen
<1>9. ASSUME NEW t \in Tasks, Plain(t) PROVE Sole(o)
  <2>1. bus' = bus  BY <1>9, PlainDoes
  <2>2. shared' = shared
    BY <1>9 DEF Plain, ReadDport, WriteDport, Section, NoSection, AttachPin, DetachPin, ChipSelect,
            TransferLock, Launch, Await, seen
  <2> QED  BY <1>0, <2>1, <2>2 DEF Sole
<1>10. ASSUME NEW c \in Controllers, Complete(c) PROVE Sole(o)
  BY <1>0, <1>10, CompleteFrame DEF Sole, seen
<1>11. CASE UNCHANGED vars
  BY <1>0, <1>11 DEF Sole, vars, seen
<1> QED
  BY <1>1, <1>2, <1>3, <1>4, <1>5, <1>6, <1>7, <1>8, <1>9, <1>10, <1>11, NextCases

\* An object being made is set as its constructor was asked.
LEMMA ConfiguredMaking ==
  ASSUME CallInv, NEW o \in Objects, bus[o].state = "making"
  PROVE  bus[o].div = DivOf[bus[o].frequency]
BY PlaceFacts

LEMMA ConfiguredStep ==
  ASSUME CallInv, CallInv', DeviceTypes, Lone, NEW o \in Objects, Sole(o), ConfiguredBy(o),
         NEW t \in Tasks, Plain(t)
  PROVE  ConfiguredBy(o)'
<1>1. /\ Walks(t) /\ OthersStay(t) /\ bus' = bus /\ on[t] \in Objects
      /\ Left(t) \in Nat \ {0} /\ Left(t)' = Left(t) - 1 /\ Kind(t) # "idle"
  BY PlainWalks
<1>2. bus'[o] = bus[o] /\ NumOf[o] \in Controllers /\ bus[o].spi  BY <1>1, PinTypes DEF Sole
<1>3. CASE Kind(t) = "deselect" \/ on[t] # o
  <2>1. Place(o)' = Place(o) /\ (Place(o) # 0 => arg'[OwnerOf[o]] = arg[OwnerOf[o]])
    BY <1>1, <1>3, StepElsewhere
  <2>2. ctl'[NumOf[o]].duplex = ctl[NumOf[o]].duplex /\ ctl'[NumOf[o]].clk = ctl[NumOf[o]].clk
    <3>1. CASE Section(t)
      <4>1. Kind(t) \in {"built", "gone", "div"}  BY <1>1, <3>1, SectionDoes
      <4>2. bus[on[t]].state # "none" /\ on[t] # o  BY <1>3, <4>1, OwnPlace
      <4>3. NumOf[on[t]] # NumOf[o]  BY <1>1, <1>2, <4>2, SoleBefore DEF Sole
      <4>4. ctl'[NumOf[o]] = ctl[NumOf[o]]  BY <1>1, <1>2, <3>1, <4>3, SectionDoes
      <4> QED  BY <4>4
    <3>2. CASE ~Section(t)  BY <1>2, <3>2, SettingsStay DEF Plain
    <3> QED  BY <3>1, <3>2
  <2> QED  BY <1>2, <2>1, <2>2, ConfiguredSame
<1>4. CASE Kind(t) # "deselect" /\ on[t] = o
  <2>1. Kind(t) \in {"built", "gone", "div"}  BY <1>1, <1>4, LeftBounds DEF Kinds
  <2>2. /\ OwnerOf[o] = t /\ Place(o) = Left(t) /\ Place(o)' = Left(t) - 1
        /\ Kind(t) = "built" => bus[o].state = "making"
        /\ Kind(t) = "gone"  => bus[o].state = "ending"
        /\ Kind(t) = "div"   => bus[o].state = "made"
    BY <1>1, <1>4, <2>1, OwnPlace, PlaceStep
  <2>3. arg'[t] = arg[t]  BY <1>4, PlainWalks
  <2>4. CASE Section(t)
    <3>1. \/ (Kind(t) = "built" /\ Left(t) = 7) \/ (Kind(t) = "gone" /\ Left(t) = 2)
          \/ Kind(t) = "built" /\ Left(t) = 6 /\ ctl'[NumOf[o]].clk = bus[o].div
             /\ ctl'[NumOf[o]].duplex = ctl[NumOf[o]].duplex
          \/ Kind(t) = "built" /\ Left(t) = 5 /\ ctl'[NumOf[o]].duplex
             /\ ctl'[NumOf[o]].clk = ctl[NumOf[o]].clk
          \/ Kind(t) = "div" /\ Left(t) = 2 /\ ctl'[NumOf[o]].clk = DivOf[arg[t]]
             /\ ctl'[NumOf[o]].duplex = ctl[NumOf[o]].duplex
      BY <1>4, <2>4, SectionDoes
    <3>2. CASE Kind(t) = "built"
      <4>1. bus[o].div = DivOf[bus[o].frequency]  BY <2>2, <3>2, ConfiguredMaking
      <4>2. ~Changing(o, 1)' /\ ~Changing(o, 3)' /\ ~Changing(o, 1)  BY <1>2, <2>2, <3>2 DEF Changing
      <4>3. /\ Left(t) = 7 => ~Built(o, 4)' /\ ~Built(o, 5)'
            /\ Left(t) = 6 => ~Built(o, 4)'
            /\ Left(t) = 5 => Built(o, 5)
        BY <1>2, <2>2, <3>2 DEF Built
      <4> QED  BY <1>2, <3>1, <3>2, <4>1, <4>2, <4>3 DEF ConfiguredBy
    <3>3. CASE Kind(t) = "gone"
      <4>1. ~Built(o, 4)' /\ ~Built(o, 5)'  BY <1>2, <2>2, <3>3 DEF Built
      <4> QED  BY <4>1 DEF ConfiguredBy
    <3>4. CASE Kind(t) = "div" /\ Left(t) = 2 /\ ctl'[NumOf[o]].clk = DivOf[arg[t]]
               /\ ctl'[NumOf[o]].duplex = ctl[NumOf[o]].duplex
      <4>1. Place(o) = 2 /\ Place(o)' = 1 /\ bus[o].state = "made"  BY <2>2, <3>4
      <4>2. Changing(o, 3) /\ Changing(o, 3)' /\ Changing(o, 1)'  BY <1>2, <4>1 DEF Changing
      <4>3. Built(o, 4) /\ Built(o, 5)  BY <4>1 DEF Built
      <4> QED  BY <1>2, <2>2, <2>3, <3>4, <4>2, <4>3 DEF ConfiguredBy
    <3> QED  BY <3>1, <3>2, <3>3, <3>4
  <2>5. CASE NoSection(t)
    <3>1. ~bus[o].spi  BY <1>4, <2>5 DEF NoSection, Me
    <3> QED  BY <1>2, <3>1
  <2>6. CASE AttachPin(t) \/ DetachPin(t) \/ ReadDport(t) \/ WriteDport(t)
    <3>1. /\ Kind(t) = "built" /\ Left(t) \in {2, 3, 4, 8, 9, 10, 11}
          \/ Kind(t) = "gone"
      <4>1. AttachPin(t) => Kind(t) = "built" /\ Left(t) \in {2, 3, 4}  BY <1>4, AttachDoes
      <4>2. DetachPin(t) => Kind(t) = "gone"  BY <1>4, DetachDoes
      <4>3. ReadDport(t) => Kind(t) = "built" /\ Left(t) \in {9, 11}  BY Where DEF CallInv, ReadDport
      <4>4. WriteDport(t) => Kind(t) = "built" /\ Left(t) \in {8, 10}  BY Where DEF CallInv, WriteDport
      <4> QED  BY <2>6, <4>1, <4>2, <4>3, <4>4
    <3>2. ctl'[NumOf[o]].duplex = ctl[NumOf[o]].duplex /\ ctl'[NumOf[o]].clk = ctl[NumOf[o]].clk
      BY <1>2, <2>6, SettingsStay
    <3>3. ~Changing(o, 1)' /\ ~Changing(o, 3)' /\ ~Changing(o, 1) /\ ~Changing(o, 3)
      BY <1>2, <2>2, <3>1 DEF Changing
    <3>4. (Built(o, 4)' => Built(o, 4)) /\ (Built(o, 5)' => Built(o, 5))
      BY <1>2, <2>2, <3>1 DEF Built
    <3> QED  BY <1>2, <3>2, <3>3, <3>4 DEF ConfiguredBy
  <2>7. ~(ChipSelect(t) \/ TransferLock(t) \/ Launch(t) \/ Await(t))
    BY <1>4, Where DEF CallInv, ChipSelect, TransferLock, Launch, Await, Control
  <2> QED  BY <2>4, <2>5, <2>6, <2>7 DEF Plain
<1> QED  BY <1>3, <1>4

LEMMA ConfiguredNext ==
  ASSUME CallInv, CallInv', DeviceTypes, Lone, Configured, [Next]_vars
  PROVE  Configured'
<1> SUFFICES ASSUME NEW o \in Objects, Sole(o)'
             PROVE  ConfiguredBy(o)'
  BY DEF Configured
<1>0. CASE bus'[o].state = "making" /\ Place(o)' = 11
  <2>1. ~Built(o, 4)' /\ ~Built(o, 5)'  BY <1>0 DEF Built
  <2> QED  BY <2>1 DEF ConfiguredBy
<1> SUFFICES ASSUME ~(bus'[o].state = "making" /\ Place(o)' = 11)
             PROVE  ConfiguredBy(o)'
  BY <1>0
<1>a. Sole(o) /\ ConfiguredBy(o)  BY SoleNext DEF Configured
<1>b. NumOf[o] \in Controllers /\ bus[o].spi  BY <1>a, PinTypes DEF Sole
<1>1. ASSUME NEW t \in Tasks, NEW x \in Objects, New(t, x) PROVE ConfiguredBy(o)'
  <2>0. Created(t, x)  BY <1>1, NewDoes
  <2>1. o # x  BY <2>0 DEF Created, Sole
  <2>2. bus'[o] = bus[o]  BY <2>0, <2>1 DEF Created
  <2>3. Place(o)' = Place(o) /\ (Place(o) # 0 => arg'[OwnerOf[o]] = arg[OwnerOf[o]])
    <3>1. Entered(t, x, Default, "built") /\ OthersStay(t)  BY <2>0 DEF Created
    <3> QED  BY <2>1, <3>1, EnterElsewhere
  <2>4. ctl' = ctl  BY <1>1 DEF New
  <2> QED  BY <1>a, <2>2, <2>3, <2>4, ConfiguredSame
<1>2. ASSUME NEW t \in Tasks, NEW x \in Objects, Delete(t, x) PROVE ConfiguredBy(o)'
  <2>1. /\ Entered(t, x, Default, "gone") /\ OthersStay(t) /\ bus'[x].state = "ending"
        /\ \A y \in Objects \ {x} : bus'[y] = bus[y]
    BY <1>2, DeleteDoes
  <2>2. CASE o = x
    <3>1. ~Built(o, 4)' /\ ~Built(o, 5)'  BY <2>1, <2>2 DEF Built
    <3> QED  BY <3>1 DEF ConfiguredBy
  <2>3. CASE o # x
    <3>1. Place(o)' = Place(o) /\ (Place(o) # 0 => arg'[OwnerOf[o]] = arg[OwnerOf[o]])
      BY <2>1, <2>3, EnterElsewhere
    <3>2. ctl' = ctl  BY <1>2 DEF Delete
    <3> QED  BY <1>a, <2>1, <2>3, <3>1, <3>2, ConfiguredSame
  <2> QED  BY <2>2, <2>3
<1>3. ASSUME NEW t \in Tasks, NEW x \in Objects, NEW f \in Freqs, setFrequency(t, x, f) PROVE ConfiguredBy(o)'
  <2>1. /\ Entered(t, x, f, "div") /\ OthersStay(t) /\ Left(t)' = 4 /\ OwnerOf[x] = t
        /\ bus[x].state = "made" /\ bus' = bus
    BY <1>3, SetFrequencyDoes
  <2>2. ctl' = ctl  BY <1>3 DEF setFrequency
  <2>3. CASE o = x
    <3>1. Place(o)' = 4  BY <2>1, <2>3, PlaceEnter
    <3>2. Place(o) = 0
      <4>1. Kind(t) = "idle" /\ Left(t) = 0  BY <2>1 DEF Entered
      <4> QED  BY <2>1, <2>3, <4>1 DEF Place
    <3>3. ~Changing(o, 1)' /\ ~Changing(o, 3)' /\ ~Changing(o, 1) /\ ~Changing(o, 3)
      BY <3>1, <3>2 DEF Changing
    <3>4. Built(o, 4) /\ Built(o, 5)  BY <2>1, <2>3 DEF Built
    <3> QED  BY <1>a, <2>1, <2>2, <3>3, <3>4 DEF ConfiguredBy
  <2>4. CASE o # x
    <3>1. Place(o)' = Place(o) /\ (Place(o) # 0 => arg'[OwnerOf[o]] = arg[OwnerOf[o]])
      BY <2>1, <2>4, EnterElsewhere
    <3> QED  BY <1>a, <2>1, <2>2, <3>1, ConfiguredSame
  <2> QED  BY <2>3, <2>4
<1>4. ASSUME NEW t \in Tasks, NEW x \in Objects, NEW n \in Sizes, transfer(t, x, n) PROVE ConfiguredBy(o)'
  <2>1. Entered(t, x, n, "deselect") /\ OthersStay(t) /\ bus' = bus  BY <1>4, TransferDoes
  <2>2. ctl' = ctl  BY <1>4 DEF transfer
  <2>3. Place(o)' = Place(o) /\ (Place(o) # 0 => arg'[OwnerOf[o]] = arg[OwnerOf[o]])
    BY <2>1, EnterElsewhere
  <2> QED  BY <1>a, <2>1, <2>2, <2>3, ConfiguredSame
<1>5. ASSUME NEW t \in Tasks, CreateLock(t) \/ Compare(t) \/ End(t) \/ Store(t) PROVE ConfiguredBy(o)'
  <2>1. /\ Walks(t) /\ OthersStay(t) /\ on[t] \in Objects /\ Kind(t) \in {"built", "gone", "div"}
        /\ \A y \in Objects \ {on[t]} : bus'[y] = bus[y]
    BY <1>5, OddWalks
  <2>2. ctl'[NumOf[o]].duplex = ctl[NumOf[o]].duplex /\ ctl'[NumOf[o]].clk = ctl[NumOf[o]].clk
    BY <1>b, <1>5, SettingsStay
  <2>3. CASE on[t] # o
    <3>1. Place(o)' = Place(o) /\ (Place(o) # 0 => arg'[OwnerOf[o]] = arg[OwnerOf[o]])
      BY <2>1, <2>3, StepElsewhere
    <3>2. bus'[o] = bus[o]  BY <2>1, <2>3
    <3> QED  BY <1>a, <2>2, <3>1, <3>2, ConfiguredSame
  <2>4. CASE on[t] = o
    <3>0. Place(o)' = Left(t)' /\ Place(o) = Left(t) /\ OwnerOf[o] = t
      BY <2>1, <2>4, PlaceStep, OwnPlace
    <3>t. bus \in [Objects -> [state : {"none", "making", "made", "ending"}, spi : BOOLEAN,
                               frequency : Freqs, div : {DivOf[f] : f \in Freqs}]]
      BY DEF CallInv, CallTypes
    <3>1. CASE CreateLock(t)
      <4>1. ~bus[o].spi  BY <2>4, <3>1, CreateDoes
      <4> QED  BY <1>b, <4>1
    <3>2. CASE Compare(t)
      <4>1. Left(t) = 3 /\ bus' = bus /\ bus[o].state = "made"
        BY <2>4, <3>2, CompareDoes, OwnPlace
      <4>2. Changing(o, 3) /\ ~Changing(o, 1) /\ Built(o, 5) /\ Built(o, 4)
        BY <3>0, <4>1 DEF Changing, Built
      <4>3. CASE bus[o].div = DivOf[arg[t]]
        <5>1. Left(t)' = 0  BY <2>4, <3>2, <4>3, CompareDoes
        <5>2. ~Changing(o, 3)' /\ ~Changing(o, 1)'  BY <3>0, <5>1 DEF Changing
        <5> QED  BY <1>a, <2>2, <3>0, <4>1, <4>2, <4>3, <5>2 DEF ConfiguredBy
      <4>4. CASE bus[o].div # DivOf[arg[t]]
        <5>1. Left(t)' = 2 /\ arg'[t] = arg[t]  BY <2>4, <3>2, <4>4, CompareDoes
        <5>2. Changing(o, 3)' /\ ~Changing(o, 1)'  BY <3>0, <4>1, <5>1 DEF Changing
        <5> QED  BY <1>a, <2>2, <3>0, <4>1, <4>2, <5>1, <5>2 DEF ConfiguredBy
      <4> QED  BY <4>3, <4>4
    <3>3. CASE End(t)
      <4>1. Left(t) = 1 /\ Left(t)' = 0  BY <3>3, EndDoes
      <4>2. CASE bus[o].state = "making" /\ bus' = [bus EXCEPT ![o].state = "made"]
        <5>1. bus[o].div = DivOf[bus[o].frequency]  BY <4>2, ConfiguredMaking
        <5>2. bus'[o].div = bus[o].div /\ bus'[o].frequency = bus[o].frequency  BY <3>t, <4>2
        <5>3. ~Changing(o, 3)' /\ ~Changing(o, 1)' /\ ~Changing(o, 1)
          BY <3>0, <4>1, <4>2 DEF Changing
        <5>4. Built(o, 5) /\ Built(o, 4)  BY <3>0, <4>1, <4>2 DEF Built
        <5> QED  BY <1>a, <2>2, <5>1, <5>2, <5>3, <5>4 DEF ConfiguredBy
      <4>3. CASE bus' = [bus EXCEPT ![o] = NoBus]
        <5>1. ~bus'[o].spi  BY <3>t, <4>3, NoBusType
        <5> QED  BY <5>1 DEF Sole
      <4> QED  BY <2>4, <3>3, <4>2, <4>3, EndDoes
    <3>4. CASE Store(t)
      <4>1. CASE Left(t) = 4 /\ Left(t)' = 3 /\ arg'[t] = arg[t] /\ bus' = [bus EXCEPT ![o].frequency = arg[t]]
        <5>1. bus[o].state = "made"  BY <2>4, <3>4, StoreDoes
        <5>2. bus'[o].state = "made" /\ bus'[o].div = bus[o].div /\ bus'[o].frequency = arg[t]
          BY <3>t, <4>1, <5>1
        <5>3. Changing(o, 3)' /\ ~Changing(o, 1)' /\ ~Changing(o, 1)  BY <3>0, <4>1, <5>2 DEF Changing
        <5>4. Built(o, 5) /\ Built(o, 4)  BY <5>1 DEF Built
        <5> QED  BY <1>a, <2>2, <3>0, <4>1, <5>2, <5>3, <5>4 DEF ConfiguredBy
      <4>2. CASE Left(t) = 1 /\ Left(t)' = 0 /\ bus' = [bus EXCEPT ![o].div = DivOf[arg[t]]]
        <5>1. bus[o].state = "made"  BY <2>4, <3>4, StoreDoes
        <5>2. bus'[o].state = "made" /\ bus'[o].div = DivOf[arg[t]] /\ bus'[o].frequency = bus[o].frequency
          BY <3>t, <4>2, <5>1
        <5>3. ~Changing(o, 3)' /\ ~Changing(o, 1)' /\ Changing(o, 1) /\ Changing(o, 3)
          BY <3>0, <4>2, <5>1 DEF Changing
        <5>4. Built(o, 5) /\ Built(o, 4)  BY <5>1 DEF Built
        <5> QED  BY <1>a, <2>2, <3>0, <4>2, <5>2, <5>3, <5>4 DEF ConfiguredBy
      <4> QED  BY <2>4, <3>4, <4>1, <4>2, StoreDoes
    <3> QED  BY <1>5, <3>1, <3>2, <3>3, <3>4
  <2> QED  BY <2>3, <2>4
<1>6. ASSUME NEW t \in Tasks, Plain(t) PROVE ConfiguredBy(o)'
  BY <1>a, <1>6, ConfiguredStep
<1>7. ASSUME NEW c \in Controllers, Complete(c) PROVE ConfiguredBy(o)'
  <2>1. ctl' = [ctl EXCEPT ![c].usr = FALSE] /\ UNCHANGED <<call, bus, calls>>  BY <1>7, CompleteFrame
  <2>2. CtlTypes  BY DEF DeviceTypes
  <2>3. ctl'[NumOf[o]].duplex = ctl[NumOf[o]].duplex /\ ctl'[NumOf[o]].clk = ctl[NumOf[o]].clk
    BY <1>b, <2>1, <2>2 DEF CtlTypes
  <2>4. Place(o)' = Place(o) /\ arg' = arg /\ bus' = bus  BY <2>1, CallSame DEF call
  <2> QED  BY <1>a, <2>3, <2>4, ConfiguredSame
<1>8. CASE UNCHANGED vars
  <2>1. UNCHANGED <<call, bus, calls>> /\ ctl' = ctl  BY <1>8 DEF vars
  <2>2. Place(o)' = Place(o) /\ arg' = arg /\ bus' = bus  BY <2>1, CallSame DEF call
  <2> QED  BY <1>a, <2>1, <2>2, ConfiguredSame
<1> QED  BY <1>1, <1>2, <1>3, <1>4, <1>5, <1>6, <1>7, <1>8, NextCases

-----------------------------------------------------------------------------
(* Clocks and resets.                                                      *)

\* A constructor gets on, unless it starts.
LEMMA BuildersBefore ==
  ASSUME CallInv, [Next]_vars, NEW u \in Tasks, Kind(u)' = "built"
  PROVE  \/ \E o \in Objects : New(u, o)
         \/ Kind(u) = "built" /\ Left(u)' <= Left(u) /\ on'[u] = on[u]
<1>0. Left(u) \in Nat  BY LeftBounds
<1>1. ASSUME NEW t \in Tasks, OthersStay(t), u # t
      PROVE  Kind(u) = "built" /\ Left(u)' <= Left(u) /\ on'[u] = on[u]
  <2>1. Kind(u)' = Kind(u) /\ Left(u)' = Left(u) /\ on'[u] = on[u]  BY <1>1 DEF OthersStay
  <2> QED  BY <1>0, <2>1
<1>2. ASSUME NEW t \in Tasks, NEW o \in Objects, New(t, o)
      PROVE  (\E x \in Objects : New(u, x)) \/ (Kind(u) = "built" /\ Left(u)' <= Left(u) /\ on'[u] = on[u])
  <2>1. OthersStay(t)
    <3>1. Created(t, o)  BY <1>2, NewDoes
    <3> QED  BY <3>1 DEF Created
  <2> QED  BY <1>1, <1>2, <2>1
<1>3. ASSUME NEW t \in Tasks, NEW x, NEW y, NEW kind, kind # "built", Entered(t, x, y, kind), OthersStay(t)
      PROVE  Kind(u) = "built" /\ Left(u)' <= Left(u) /\ on'[u] = on[u]
  <2>1. Kind(t)' # "built"  BY <1>3 DEF Entered
  <2> QED  BY <1>1, <1>3, <2>1
<1>4. ASSUME NEW t \in Tasks, NEW o \in Objects, Delete(t, o)
      PROVE  Kind(u) = "built" /\ Left(u)' <= Left(u) /\ on'[u] = on[u]
  <2>1. Entered(t, o, Default, "gone") /\ OthersStay(t)  BY <1>4, DeleteDoes
  <2> QED  BY <1>3, <2>1
<1>5. ASSUME NEW t \in Tasks, NEW o \in Objects, NEW f \in Freqs, setFrequency(t, o, f)
      PROVE  Kind(u) = "built" /\ Left(u)' <= Left(u) /\ on'[u] = on[u]
  <2>1. Entered(t, o, f, "div") /\ OthersStay(t)  BY <1>5, SetFrequencyDoes
  <2> QED  BY <1>3, <2>1
<1>6. ASSUME NEW t \in Tasks, NEW o \in Objects, NEW n \in Sizes, transfer(t, o, n)
      PROVE  Kind(u) = "built" /\ Left(u)' <= Left(u) /\ on'[u] = on[u]
  <2>1. Entered(t, o, n, "deselect") /\ OthersStay(t)  BY <1>6, TransferDoes
  <2> QED  BY <1>3, <2>1
<1>7. ASSUME NEW t \in Tasks, CreateLock(t) \/ Compare(t) \/ End(t) \/ Store(t)
      PROVE  Kind(u) = "built" /\ Left(u)' <= Left(u) /\ on'[u] = on[u]
  <2>1. OthersStay(t) /\ Walks(t)  BY <1>7, OddWalks
  <2>2. CASE u # t  BY <1>1, <2>1, <2>2
  <2>3. CASE u = t
    <3>1. Kind(t) = "built" /\ on'[t] = on[t]  BY <2>1, <2>3 DEF Walks
    <3>2. CreateLock(t)  BY <1>7, <2>3, <3>1, CompareDoes, EndDoes, StoreDoes
    <3>3. Left(t) = 12 /\ Left(t)' \in {1, 11}  BY <3>2, CreateDoes
    <3> QED  BY <2>3, <3>1, <3>3
  <2> QED  BY <2>2, <2>3
<1>8. ASSUME NEW t \in Tasks, Plain(t)
      PROVE  Kind(u) = "built" /\ Left(u)' <= Left(u) /\ on'[u] = on[u]
  <2>1. OthersStay(t) /\ Walks(t) /\ Left(t)' = Left(t) - 1  BY <1>8, PlainWalks
  <2>2. CASE u # t  BY <1>1, <2>1, <2>2
  <2>3. CASE u = t
    <3>1. Kind(t) = "built" /\ on'[t] = on[t]  BY <2>1, <2>3 DEF Walks
    <3> QED  BY <1>0, <2>1, <2>3, <3>1
  <2> QED  BY <2>2, <2>3
<1>9. ASSUME UNCHANGED <<call, bus, calls>>
      PROVE  Kind(u) = "built" /\ Left(u)' <= Left(u) /\ on'[u] = on[u]
  <2>1. Kind(u)' = Kind(u) /\ Left(u)' = Left(u) /\ on' = on  BY <1>9, CallSame DEF call
  <2> QED  BY <1>0, <2>1
<1>10. ASSUME NEW c \in Controllers, Complete(c)
       PROVE  Kind(u) = "built" /\ Left(u)' <= Left(u) /\ on'[u] = on[u]
  <2>1. UNCHANGED <<call, bus, calls>>  BY <1>10, CompleteFrame
  <2> QED  BY <1>9, <2>1
<1>11. CASE UNCHANGED vars
  <2>1. UNCHANGED <<call, bus, calls>>  BY <1>11 DEF vars
  <2> QED  BY <1>9, <2>1
<1> QED  BY <1>2, <1>4, <1>5, <1>6, <1>7, <1>8, <1>10, <1>11, NextCases

\* Only a constructor that starts changes what is recorded of starts.
LEMMA RacedNext ==
  ASSUME [Next]_vars
  PROVE  raced' = raced \/ \E t \in Tasks, o \in Objects : New(t, o)
<1>1. ASSUME NEW t \in Tasks, NEW o \in Objects,
             \/ Delete(t, o) \/ \E f \in Freqs : setFrequency(t, o, f)
             \/ \E n \in Sizes : transfer(t, o, n)
      PROVE  raced' = raced
  BY <1>1 DEF Delete, setFrequency, transfer, seen
<1>2. ASSUME NEW t \in Tasks, CreateLock(t) \/ Compare(t) \/ End(t) \/ Store(t)
      PROVE  raced' = raced
  BY <1>2 DEF CreateLock, Compare, End, Store, seen
<1>3. ASSUME NEW t \in Tasks, Plain(t) PROVE raced' = raced
  BY <1>3 DEF Plain, ReadDport, WriteDport, Section, NoSection, AttachPin, DetachPin, ChipSelect,
              TransferLock, Launch, Await, seen
<1>4. ASSUME NEW c \in Controllers, Complete(c) PROVE raced' = raced
  BY <1>4, CompleteFrame DEF seen
<1>5. CASE UNCHANGED vars  BY <1>5 DEF vars, seen
<1> QED  BY <1>1, <1>2, <1>3, <1>4, <1>5, NextCases

LEMMA StartsNext ==
  ASSUME CallInv, CallInv', Starts, [Next]_vars
  PROVE  Starts'
<1>1. CASE \E t \in Tasks, o \in Objects : New(t, o)
  <2>1. PICK t \in Tasks, o \in Objects : New(t, o)  BY <1>1
  <2>2. Created(t, o)  BY <2>1, NewDoes
  <2>3. /\ Kind(t)' = "built" /\ on'[t] = o /\ Kind(t) = "idle"
        /\ \A u \in Tasks \ {t} : Kind(u)' = Kind(u) /\ Left(u)' = Left(u) /\ on'[u] = on[u]
    BY <2>2 DEF Created, Entered, OthersStay
  <2> DEFINE rivals == {u \in Tasks : Starting(u)}
  <2>4. \A u \in Tasks : u \in rivals <=> Kind(u) = "built" /\ Left(u) >= 8  BY Ahead DEF CallInv
  <2>5. raced' = IF rivals = {} THEN raced \ {NumOf[o]}
                 ELSE raced \cup {NumOf[o]} \cup {NumOf[on[u]] : u \in rivals}
    BY <2>1 DEF New
  <2> HIDE DEF rivals
  <2>6. ASSUME NEW u \in Tasks, NEW w \in Tasks, u # w, Kind(u)' = "built", Left(u)' >= 8,
               Kind(w)' = "built", Left(w)' >= 8
        PROVE  NumOf[on'[u]] \in raced'
    <3>1. rivals # {}
      <4>1. u \in rivals \/ w \in rivals  BY <2>3, <2>4, <2>6
      <4> QED  BY <4>1
    <3>2. CASE u = t  BY <2>3, <2>5, <3>1, <3>2
    <3>3. CASE u # t
      <4>1. u \in rivals /\ on'[u] = on[u]  BY <2>3, <2>4, <2>6, <3>3
      <4> QED  BY <2>5, <3>1, <4>1
    <3> QED  BY <3>2, <3>3
  <2> QED  BY <2>6 DEF Starts
<1>2. CASE ~\E t \in Tasks, o \in Objects : New(t, o)
  <2>1. raced' = raced  BY <1>2, RacedNext
  <2>2. ASSUME NEW u \in Tasks, Kind(u)' = "built", Left(u)' >= 8
        PROVE  Kind(u) = "built" /\ Left(u) >= 8 /\ on'[u] = on[u]
    <3>1. Kind(u) = "built" /\ Left(u)' <= Left(u) /\ on'[u] = on[u]  BY <1>2, <2>2, BuildersBefore
    <3>2. Left(u) \in Nat  BY LeftBounds
    <3>3. Left(u)' \in Nat
      <4>1. CallTypes'  BY DEF CallInv
      <4> QED  BY <4>1 DEF CallTypes, Left
    <3> QED  BY <2>2, <3>1, <3>2, <3>3
  <2> QED  BY <2>1, <2>2 DEF Starts
<1> QED  BY <1>1, <1>2

LEMMA ClockedSame ==
  ASSUME NEW o \in Objects, ClockedFor(o),
         Within(o, 9)' => Within(o, 9), Within(o, 7)' => Within(o, 7), dport' = dport, read' = read,
         \A u \in Tasks : Kind(u)' = "built" /\ Left(u)' \in {8, 10}
           => Kind(u) = "built" /\ Left(u) = Left(u)'
  PROVE  ClockedFor(o)'
<1>1. ReadRight(NumOf[o]) => ReadRight(NumOf[o])'  BY DEF ReadRight
<1> QED  BY <1>1 DEF ClockedFor

\* The object of a step of t, and the others.
LEMMA WithinSame ==
  ASSUME NEW o \in Objects, bus'[o].state = bus[o].state, Place(o)' = Place(o)
  PROVE  \A n : Within(o, n)' = Within(o, n)
BY DEF Within

\* Two starts on one controller cannot be of objects that keep it to themselves.
LEMMA OneStart ==
  ASSUME CallInv, Starts, NEW o \in Objects, NumOf[o] \notin raced, bus[o].state = "making", Place(o) >= 8,
         NEW t \in Tasks, Kind(t) = "built", Left(t) >= 8
  PROVE  on[t] = o
<1>1. /\ OwnerOf[o] \in Tasks /\ on[OwnerOf[o]] = o /\ Kind(OwnerOf[o]) = "built"
      /\ Place(o) = Left(OwnerOf[o])
  BY PlaceFacts
<1>2. OwnerOf[o] = t  BY <1>1 DEF Starts
<1> QED  BY <1>1, <1>2

LEMMA ClockedRead ==
  ASSUME CallInv, DeviceTypes, NEW o \in Objects, ClockedFor(o), NEW t \in Tasks, ReadDport(t)
  PROVE  ClockedFor(o)'
<1>1. /\ Walks(t) /\ OthersStay(t) /\ bus' = bus /\ on[t] \in Objects
      /\ Left(t)' = Left(t) - 1 /\ Kind(t) # "idle" /\ (Kind(t) # "deselect" => Kind(t)' = Kind(t))
  BY PlainWalks DEF Plain
<1>2. dport' = dport  BY DEF ReadDport
<1>3. \/ Kind(t) = "built" /\ Left(t) = 11 /\ read' = [read EXCEPT ![t] = dport.clk]
      \/ Kind(t) = "built" /\ Left(t) = 9 /\ read' = [read EXCEPT ![t] = dport.rst]
  BY Where DEF CallInv, ReadDport
<1>4. read \in [Tasks -> SUBSET Controllers]  BY DEF DeviceTypes
<1>5. Within(o, 9)' => Within(o, 9)
  <2>1. CASE on[t] = o
    <3>1. Place(o)' = Left(t)' /\ Place(o) = Left(t)  BY <1>1, <1>3, <2>1, PlaceStep, OwnPlace
    <3>2. bus[o].state = "making"  BY <1>3, <2>1, OwnPlace
    <3> QED  BY <1>1, <1>3, <3>1, <3>2 DEF Within
  <2>2. CASE on[t] # o
    <3>1. Place(o)' = Place(o)  BY <1>1, <2>2, PlaceStep
    <3> QED  BY <1>1, <3>1, WithinSame
  <2> QED  BY <2>1, <2>2
<1>6. Within(o, 7)' => Within(o, 7) /\ on[t] # o
  <2>1. CASE on[t] = o
    <3>1. Place(o)' = Left(t)'  BY <1>1, <1>3, <2>1, PlaceStep
    <3>2. bus[o].state = "making"  BY <1>3, <2>1, OwnPlace
    <3> QED  BY <1>1, <1>3, <3>1, <3>2 DEF Within
  <2>2. CASE on[t] # o
    <3>1. Place(o)' = Place(o)  BY <1>1, <2>2, PlaceStep
    <3> QED  BY <1>1, <2>2, <3>1, WithinSame
  <2> QED  BY <2>1, <2>2
<1>7. ASSUME Within(o, 7)' PROVE ReadRight(NumOf[o])'
  <2>1. Within(o, 7) /\ Within(o, 9)
    <3>1. Within(o, 7)  BY <1>6, <1>7
    <3>2. Place(o) \in Nat  BY PlaceFacts
    <3> QED  BY <3>1, <3>2 DEF Within
  <2>2. NumOf[o] \in dport.clk /\ NumOf[o] \notin dport.rst /\ ReadRight(NumOf[o])  BY <2>1 DEF ClockedFor
  <2>3. ASSUME NEW u \in Tasks, Kind(u)' = "built"
        PROVE  (Left(u)' = 10 => NumOf[o] \in read'[u]) /\ (Left(u)' = 8 => NumOf[o] \notin read'[u])
    <3>1. CASE u = t  BY <1>1, <1>3, <1>4, <2>2, <3>1
    <3>2. CASE u # t
      <4>1. Kind(u)' = Kind(u) /\ Left(u)' = Left(u)  BY <1>1, <3>2 DEF OthersStay
      <4>2. read'[u] = read[u]  BY <1>3, <1>4, <3>2
      <4> QED  BY <2>2, <2>3, <4>1, <4>2 DEF ReadRight
    <3> QED  BY <3>1, <3>2
  <2> QED  BY <2>3 DEF ReadRight
<1> QED  BY <1>2, <1>5, <1>6, <1>7 DEF ClockedFor

LEMMA ClockedWrite ==
  ASSUME CallInv, DeviceTypes, Starts, NEW o \in Objects, ClockedFor(o), NumOf[o] \notin raced,
         NEW t \in Tasks, WriteDport(t)
  PROVE  ClockedFor(o)'
<1> DEFINE c == NumOf[o]
<1>1. /\ Walks(t) /\ OthersStay(t) /\ bus' = bus /\ on[t] \in Objects
      /\ Left(t)' = Left(t) - 1 /\ Kind(t) # "idle" /\ (Kind(t) # "deselect" => Kind(t)' = Kind(t))
  BY PlainWalks DEF Plain
<1>2. \/ Kind(t) = "built" /\ Left(t) = 10 /\ dport' = [dport EXCEPT !.clk = read[t] \cup {NumOf[on[t]]}]
      \/ Kind(t) = "built" /\ Left(t) = 8 /\ dport' = [dport EXCEPT !.rst = read[t] \ {NumOf[on[t]]}]
  BY Where DEF CallInv, WriteDport, PeriphBit, Num
<1>3. read' = [read EXCEPT ![t] = {}]  BY DEF WriteDport
<1>4. read \in [Tasks -> SUBSET Controllers] /\ dport \in [clk : SUBSET Controllers, rst : SUBSET Controllers]
  BY DEF DeviceTypes
<1>5. \/ Left(t) = 10 /\ Left(t)' = 9 /\ dport'.clk = read[t] \cup {NumOf[on[t]]} /\ dport'.rst = dport.rst
      \/ Left(t) = 8 /\ Left(t)' = 7 /\ dport'.rst = read[t] \ {NumOf[on[t]]} /\ dport'.clk = dport.clk
  BY <1>1, <1>2, <1>4
<1>6. Place(o) \in Nat /\ Kind(t) = "built"  BY <1>2, PlaceFacts
<1>7. ASSUME NEW u \in Tasks \ {t}, Kind(u)' = "built"
      PROVE  Kind(u) = "built" /\ Left(u)' = Left(u) /\ read'[u] = read[u]
  BY <1>1, <1>3, <1>4, <1>7 DEF OthersStay
<1>8. CASE on[t] = o
  <2>1. Place(o)' = Left(t)' /\ Place(o) = Left(t)  BY <1>1, <1>6, <1>8, PlaceStep, OwnPlace
  <2>2. bus[o].state = "making" /\ bus'[o].state = "making"  BY <1>1, <1>6, <1>8, OwnPlace
  <2>3. CASE Left(t) = 10
    <3>1. Within(o, 9)' /\ ~Within(o, 7)'  BY <1>5, <2>1, <2>2, <2>3 DEF Within
    <3> QED  BY <1>5, <1>8, <2>3, <3>1 DEF ClockedFor
  <2>4. CASE Left(t) = 8
    <3>1. Within(o, 9)  BY <2>1, <2>4 DEF Within
    <3>2. c \in dport'.clk /\ c \notin dport'.rst  BY <1>5, <1>8, <2>4, <3>1 DEF ClockedFor
    <3>3. ReadRight(c)'
      <4>1. ASSUME NEW u \in Tasks, Kind(u)' = "built"
            PROVE  Left(u)' # 10 /\ Left(u)' # 8
        <5>1. CASE u = t  BY <1>5, <2>4, <5>1
        <5>2. CASE u # t
          <6>1. Kind(u) = "built" /\ Left(u)' = Left(u)  BY <1>7, <4>1, <5>2
          <6>2. Left(u) >= 8 => NumOf[on[t]] \in raced  BY <1>6, <2>4, <5>2, <6>1 DEF Starts
          <6>3. ~(Left(u) >= 8)  BY <1>8, <6>2
          <6> QED  BY <6>1, <6>3
        <5> QED  BY <5>1, <5>2
      <4> QED  BY <4>1 DEF ReadRight
    <3> QED  BY <3>2, <3>3 DEF ClockedFor
  <2> QED  BY <1>5, <2>3, <2>4
<1>9. CASE on[t] # o
  <2>1. Place(o)' = Place(o) /\ bus'[o] = bus[o]  BY <1>1, <1>6, <1>9, PlaceStep
  <2>2. (Within(o, 9)' => Within(o, 9)) /\ (Within(o, 7)' => Within(o, 7))  BY <2>1 DEF Within
  <2>3. Within(o, 9) => Within(o, 7)
    <3>1. ~(bus[o].state = "making" /\ Place(o) >= 8)  BY <1>5, <1>6, <1>9, OneStart
    <3> QED  BY <1>6, <3>1 DEF Within
  <2>4. ASSUME Within(o, 9)
        PROVE  c \in dport'.clk /\ c \notin dport'.rst /\ ReadRight(c)'
    <3>1. c \in dport.clk /\ c \notin dport.rst /\ ReadRight(c)  BY <2>3, <2>4 DEF ClockedFor
    <3>2. (Left(t) = 10 => c \in read[t]) /\ (Left(t) = 8 => c \notin read[t])
      BY <1>6, <3>1 DEF ReadRight
    <3>3. c \in dport'.clk /\ c \notin dport'.rst  BY <1>5, <3>1, <3>2
    <3>4. ASSUME NEW u \in Tasks, Kind(u)' = "built"
          PROVE  (Left(u)' = 10 => c \in read'[u]) /\ (Left(u)' = 8 => c \notin read'[u])
      <4>1. CASE u = t  BY <1>5, <4>1
      <4>2. CASE u # t
        <5>1. Kind(u) = "built" /\ Left(u)' = Left(u) /\ read'[u] = read[u]  BY <1>7, <3>4, <4>2
        <5> QED  BY <3>1, <5>1 DEF ReadRight
      <4> QED  BY <4>1, <4>2
    <3>5. ReadRight(c)'  BY <3>4 DEF ReadRight
    <3> QED  BY <3>3, <3>5
  <2>5. Within(o, 7) => Within(o, 9)  BY <1>6 DEF Within
  <2> QED  BY <2>2, <2>4, <2>5 DEF ClockedFor
<1> QED  BY <1>8, <1>9

\* A start that did not overlap another is still one, for an object that is alone on its controller.
LEMMA RacedKept ==
  ASSUME CallInv, [Next]_vars, NEW o \in Objects, bus[o].state # "none", o \notin shared', NumOf[o] \notin raced'
  PROVE  NumOf[o] \notin raced
<1>1. CASE raced' = raced  BY <1>1
<1>2. CASE \E t \in Tasks, x \in Objects : New(t, x)
  <2>1. PICK t \in Tasks, x \in Objects : New(t, x)  BY <1>2
  <2>2. Created(t, x)  BY <2>1, NewDoes
  <2>3. x # o  BY <2>2 DEF Created
  <2>4. NumOf[x] # NumOf[o]
    <3>1. SUFFICES ASSUME NumOf[x] = NumOf[o] PROVE FALSE  OBVIOUS
    <3>2. o \in Others(x)  BY <2>3, <3>1 DEF Others
    <3>3. o \in shared'  BY <2>1, <3>2 DEF New
    <3> QED  BY <3>3
  <2>5. raced \ {NumOf[x]} \subseteq raced'
    <3> DEFINE rivals == {u \in Tasks : Starting(u)}
    <3>1. raced' = IF rivals = {} THEN raced \ {NumOf[x]}
                   ELSE raced \cup {NumOf[x]} \cup {NumOf[on[u]] : u \in rivals}
      BY <2>1 DEF New
    <3> HIDE DEF rivals
    <3> QED  BY <3>1
  <2> QED  BY <2>4, <2>5
<1> QED  BY <1>1, <1>2, RacedNext

LEMMA ClockedNext ==
  ASSUME CallInv, CallInv', DeviceTypes, Lone, Starts, Clocked, [Next]_vars
  PROVE  Clocked'
<1> SUFFICES ASSUME NEW o \in Objects, Sole(o)', NumOf[o] \notin raced'
             PROVE  ClockedFor(o)'
  BY DEF Clocked
<1>0. CASE bus'[o].state = "making" /\ Place(o)' = 11
  <2>1. ~Within(o, 9)' /\ ~Within(o, 7)'  BY <1>0 DEF Within
  <2> QED  BY <2>1 DEF ClockedFor
<1> SUFFICES ASSUME ~(bus'[o].state = "making" /\ Place(o)' = 11)
             PROVE  ClockedFor(o)'
  BY <1>0
<1>a. Sole(o)  BY SoleNext
<1>b. NumOf[o] \in Controllers /\ bus[o].spi  BY <1>a, PinTypes DEF Sole
<1>c. NumOf[o] \notin raced
  <2>1. bus[o].state # "none" /\ o \notin shared'  BY <1>b, PlaceFacts DEF Sole
  <2> QED  BY <2>1, RacedKept
<1>d. ClockedFor(o)  BY <1>a, <1>c DEF Clocked
<1>e. Place(o) \in Nat  BY PlaceFacts
<1>1. ASSUME NEW t \in Tasks, NEW x \in Objects, NEW y, NEW kind,
             Entered(t, x, y, kind), OthersStay(t), kind = "built" => Left(t)' = 12,
             dport' = dport, read' = read,
             Within(o, 9)' => Within(o, 9), Within(o, 7)' => Within(o, 7)
      PROVE  ClockedFor(o)'
  <2>1. \A u \in Tasks : Kind(u)' = "built" /\ Left(u)' \in {8, 10} => Kind(u) = "built" /\ Left(u) = Left(u)'
    BY <1>1 DEF Entered, OthersStay
  <2> QED  BY <1>1, <1>d, <2>1, ClockedSame
<1>2. ASSUME NEW t \in Tasks, NEW x \in Objects, New(t, x) PROVE ClockedFor(o)'
  <2>0. Created(t, x)  BY <1>2, NewDoes
  <2>1. /\ o # x /\ bus'[o] = bus[o] /\ Entered(t, x, Default, "built") /\ OthersStay(t) /\ Left(t)' = 12
    BY <2>0 DEF Created, Sole
  <2>2. Place(o)' = Place(o)  BY <2>1, EnterElsewhere
  <2>3. Within(o, 9)' = Within(o, 9) /\ Within(o, 7)' = Within(o, 7)  BY <2>1, <2>2 DEF Within
  <2>4. dport' = dport /\ read' = read  BY <1>2 DEF New
  <2> QED  BY <1>1, <2>1, <2>3, <2>4
<1>3. ASSUME NEW t \in Tasks, NEW x \in Objects, Delete(t, x) PROVE ClockedFor(o)'
  <2>1. /\ Entered(t, x, Default, "gone") /\ OthersStay(t) /\ bus[x].state = "made"
        /\ \A z \in Objects \ {x} : bus'[z] = bus[z]
    BY <1>3, DeleteDoes
  <2>2. (Within(o, 9)' => Within(o, 9)) /\ (Within(o, 7)' => Within(o, 7))
    <3>1. CASE o = x  BY <2>1, <3>1 DEF Within
    <3>2. CASE o # x
      <4>1. Place(o)' = Place(o)  BY <2>1, <3>2, EnterElsewhere
      <4> QED  BY <2>1, <3>2, <4>1 DEF Within
    <3> QED  BY <3>1, <3>2
  <2>3. dport' = dport /\ read' = read  BY <1>3 DEF Delete
  <2> QED  BY <1>1, <2>1, <2>2, <2>3
<1>4. ASSUME NEW t \in Tasks, NEW x \in Objects, NEW f \in Freqs, setFrequency(t, x, f) PROVE ClockedFor(o)'
  <2>1. /\ Entered(t, x, f, "div") /\ OthersStay(t) /\ bus' = bus /\ bus[x].state = "made"
    BY <1>4, SetFrequencyDoes
  <2>2. (Within(o, 9)' => Within(o, 9)) /\ (Within(o, 7)' => Within(o, 7))
    <3>1. CASE o = x  BY <2>1, <3>1 DEF Within
    <3>2. CASE o # x
      <4>1. Place(o)' = Place(o)  BY <2>1, <3>2, EnterElsewhere
      <4> QED  BY <2>1, <4>1 DEF Within
    <3> QED  BY <3>1, <3>2
  <2>3. dport' = dport /\ read' = read  BY <1>4 DEF setFrequency
  <2> QED  BY <1>1, <2>1, <2>2, <2>3
<1>5. ASSUME NEW t \in Tasks, NEW x \in Objects, NEW n \in Sizes, transfer(t, x, n) PROVE ClockedFor(o)'
  <2>1. /\ Entered(t, x, n, "deselect") /\ OthersStay(t) /\ bus' = bus
    BY <1>5, TransferDoes
  <2>2. Place(o)' = Place(o)  BY <2>1, EnterElsewhere
  <2>3. (Within(o, 9)' => Within(o, 9)) /\ (Within(o, 7)' => Within(o, 7))  BY <2>1, <2>2 DEF Within
  <2>4. dport' = dport /\ read' = read  BY <1>5 DEF transfer
  <2> QED  BY <1>1, <2>1, <2>3, <2>4
<1>6. ASSUME NEW t \in Tasks, Walks(t), OthersStay(t), Kind(t) # "idle",
             Kind(t)' = "built" => Left(t)' \notin {8, 10},
             dport' = dport, read' = read,
             on[t] # o => bus'[o].state = bus[o].state,
             on[t] = o /\ Kind(t) # "deselect" => Within(o, 7),
             Kind(t) = "deselect" => bus'[o].state = bus[o].state
      PROVE  ClockedFor(o)'
  <2>1. \A u \in Tasks : Kind(u)' = "built" /\ Left(u)' \in {8, 10} => Kind(u) = "built" /\ Left(u) = Left(u)'
    BY <1>6 DEF OthersStay
  <2>2. (Within(o, 9)' => Within(o, 9)) /\ (Within(o, 7)' => Within(o, 7))
    <3>1. CASE on[t] = o /\ Kind(t) # "deselect"
      <4>1. Within(o, 7)  BY <1>6, <3>1
      <4>2. Within(o, 9)  BY <1>e, <4>1 DEF Within
      <4> QED  BY <4>1, <4>2
    <3>2. CASE ~(on[t] = o /\ Kind(t) # "deselect")
      <4>1. Place(o)' = Place(o)  BY <1>6, <3>2, StepElsewhere
      <4>2. bus'[o].state = bus[o].state  BY <1>6, <3>2
      <4> QED  BY <4>1, <4>2 DEF Within
    <3> QED  BY <3>1, <3>2
  <2> QED  BY <1>6, <1>d, <2>1, <2>2, ClockedSame
<1>7. ASSUME NEW t \in Tasks, CreateLock(t) \/ Compare(t) \/ End(t) \/ Store(t) PROVE ClockedFor(o)'
  <2>1. /\ Walks(t) /\ OthersStay(t) /\ on[t] \in Objects /\ Kind(t) \in {"built", "gone", "div"}
        /\ \A y \in Objects \ {on[t]} : bus'[y] = bus[y]
    BY <1>7, OddWalks
  <2>2. dport' = dport /\ read' = read  BY <1>7 DEF CreateLock, Compare, End, Store
  <2>3. Kind(t)' = "built" => Left(t)' \notin {8, 10}
    <3>1. CASE CreateLock(t)
      <4>1. Left(t)' = 11 \/ Left(t)' = 1  BY <3>1, CreateDoes
      <4> QED  BY <4>1
    <3>2. CASE Compare(t)  BY <3>2, CompareDoes
    <3>3. CASE End(t)  BY <3>3, EndDoes
    <3>4. CASE Store(t)  BY <3>4, StoreDoes
    <3> QED  BY <1>7, <3>1, <3>2, <3>3, <3>4
  <2>4. on[t] = o => Within(o, 7)
    <3>1. SUFFICES ASSUME on[t] = o PROVE Within(o, 7)  OBVIOUS
    <3>2. CASE CreateLock(t)
      <4>1. ~bus[o].spi  BY <3>1, <3>2, CreateDoes
      <4> QED  BY <1>b, <4>1
    <3>3. CASE Compare(t) \/ Store(t)
      <4>1. bus[o].state = "made"  BY <3>1, <3>3, CompareDoes, StoreDoes, OwnPlace
      <4> QED  BY <4>1 DEF Within
    <3>4. CASE End(t)
      <4>2. Left(t) = 1  BY <3>4, EndDoes
      <4>1. Place(o) = 1  BY <2>1, <3>1, <4>2, OwnPlace
      <4> QED  BY <4>1 DEF Within
    <3> QED  BY <1>7, <3>2, <3>3, <3>4
  <2> QED  BY <1>6, <2>1, <2>2, <2>3, <2>4
<1>8. ASSUME NEW t \in Tasks, Plain(t) PROVE ClockedFor(o)'
  <2>1. CASE ReadDport(t)  BY <1>d, <2>1, ClockedRead
  <2>2. CASE WriteDport(t)  BY <1>c, <1>d, <2>2, ClockedWrite
  <2>3. CASE ~ReadDport(t) /\ ~WriteDport(t)
    <3>1. /\ Walks(t) /\ OthersStay(t) /\ bus' = bus /\ on[t] \in Objects
          /\ Left(t) \in Nat \ {0} /\ Left(t)' = Left(t) - 1 /\ Kind(t) # "idle"
      BY <1>8, PlainWalks
    <3>2. dport' = dport /\ read' = read
      BY <1>8, <2>3 DEF Plain, Section, NoSection, AttachPin, DetachPin, ChipSelect, TransferLock, Launch, Await
    <3>3. Kind(t) = "built" => Left(t) <= 7
      <4>0. CallTypes /\ Shape  BY DEF CallInv
      <4>1. CASE Section(t)  BY <3>1, <4>1, SectionDoes
      <4>2. CASE NoSection(t)  BY <4>0, <4>2, Where DEF NoSection
      <4>3. CASE AttachPin(t)  BY <3>1, <4>3, AttachDoes
      <4>4. CASE DetachPin(t)  BY <3>1, <4>4, DetachDoes
      <4>5. CASE ChipSelect(t) \/ TransferLock(t) \/ Launch(t) \/ Await(t)
        BY <4>0, <4>5, Where DEF ChipSelect, TransferLock, Launch, Await, Control
      <4> QED  BY <1>8, <2>3, <4>1, <4>2, <4>3, <4>4, <4>5 DEF Plain
    <3>4. Kind(t)' = "built" => Left(t)' \notin {8, 10}
      BY <3>1, <3>3 DEF Walks
    <3>5. on[t] = o /\ Kind(t) # "deselect" => Within(o, 7)
      <4>1. SUFFICES ASSUME on[t] = o, Kind(t) # "deselect", bus[o].state = "making" PROVE Place(o) <= 7
        BY DEF Within
      <4>2. Kind(t) \in {"built", "gone", "div"}  BY <3>1, <4>1, LeftBounds DEF Kinds
      <4> QED  BY <3>3, <4>1, <4>2, OwnPlace
    <3> QED  BY <1>6, <3>1, <3>2, <3>4, <3>5
  <2> QED  BY <2>1, <2>2, <2>3
<1>9. ASSUME UNCHANGED <<call, bus, calls>>, dport' = dport, read' = read PROVE ClockedFor(o)'
  <2>1. (\A u : Kind(u)' = Kind(u) /\ Left(u)' = Left(u)) /\ Place(o)' = Place(o) /\ bus' = bus
    BY <1>9, CallSame
  <2>2. (Within(o, 9)' => Within(o, 9)) /\ (Within(o, 7)' => Within(o, 7))  BY <2>1 DEF Within
  <2> QED  BY <1>9, <1>d, <2>1, <2>2, ClockedSame
<1>10. ASSUME NEW c \in Controllers, Complete(c) PROVE ClockedFor(o)'
  BY <1>9, <1>10, CompleteFrame
<1>11. CASE UNCHANGED vars  BY <1>9, <1>11 DEF vars
<1> QED  BY <1>2, <1>3, <1>4, <1>5, <1>7, <1>8, <1>10, <1>11, NextCases

-----------------------------------------------------------------------------
(* What a step does to an object and the place it is at.                   *)

\* A step that the object's constructor, destructor or setFrequency takes, but not its last one.
OwnStep(o) ==
  \E t \in Tasks : /\ Plain(t) /\ on[t] = o /\ Kind(t) \in {"built", "gone", "div"}
                   /\ Place(o) = Left(t) /\ Place(o)' = Left(t) - 1 /\ bus'[o] = bus[o]

\* Its start, and its end.
Renewed(o) ==
  \/ bus[o].state = "none" /\ bus'[o].state = "making" /\ Place(o)' = 12 /\ ~bus'[o].spi
  \/ bus[o].state = "making" /\ ~bus[o].spi /\ bus'[o].state = "making" /\ Place(o)' \in {1, 11}
  \/ bus[o].state = "ending" /\ Place(o) = 1 /\ bus'[o] = NoBus

LEMMA PlaceNext ==
  ASSUME CallInv, [Next]_vars, NEW o \in Objects
  PROVE  \/ bus'[o] = bus[o] /\ Place(o)' = Place(o)
         \/ OwnStep(o)
         \/ bus[o].state = "made" /\ bus'[o].state = "made" /\ bus'[o].spi = bus[o].spi
         \/ bus[o].state = "made" /\ bus'[o].state = "ending" /\ bus'[o].spi = bus[o].spi
            /\ Place(o)' = IF bus[o].spi THEN 5 ELSE 1
         \/ bus[o].state = "making" /\ Place(o) = 1 /\ bus'[o].state = "made" /\ bus'[o].spi = bus[o].spi
         \/ Renewed(o)
<1>t. bus \in [Objects -> [state : {"none", "making", "made", "ending"}, spi : BOOLEAN,
                           frequency : Freqs, div : {DivOf[f] : f \in Freqs}]]
  BY DEF CallInv, CallTypes
<1>1. ASSUME NEW t \in Tasks, NEW x \in Objects, New(t, x)
      PROVE  (bus'[o] = bus[o] /\ Place(o)' = Place(o)) \/ Renewed(o)
  <2>1. Created(t, x)  BY <1>1, NewDoes
  <2>2. /\ Entered(t, x, Default, "built") /\ OthersStay(t) /\ Left(t)' = 12 /\ OwnerOf[x] = t
        /\ bus[x].state = "none" /\ bus'[x].state = "making" /\ ~bus'[x].spi /\ \A y \in Objects \ {x} : bus'[y] = bus[y]
    BY <2>1 DEF Created
  <2>3. CASE x = o
    <3>1. Place(o)' = 12  BY <2>2, <2>3, PlaceEnter
    <3> QED  BY <2>2, <2>3, <3>1 DEF Renewed
  <2>4. CASE x # o
    <3>1. Place(o)' = Place(o)  BY <2>2, <2>4, EnterElsewhere
    <3> QED  BY <2>2, <2>4, <3>1
  <2> QED  BY <2>3, <2>4
<1>2. ASSUME NEW t \in Tasks, NEW x \in Objects, Delete(t, x)
      PROVE  \/ bus'[o] = bus[o] /\ Place(o)' = Place(o)
             \/ bus[o].state = "made" /\ bus'[o].state = "ending" /\ bus'[o].spi = bus[o].spi
                /\ Place(o)' = IF bus[o].spi THEN 5 ELSE 1
  <2>1. /\ Entered(t, x, Default, "gone") /\ Left(t)' = (IF bus[x].spi THEN 5 ELSE 1) /\ OthersStay(t)
        /\ OwnerOf[x] = t /\ bus[x].state = "made"
        /\ bus'[x].state = "ending" /\ bus'[x].spi = bus[x].spi
        /\ \A y \in Objects \ {x} : bus'[y] = bus[y]
    BY <1>2, DeleteDoes
  <2>2. CASE x = o
    <3>1. Place(o)' = Left(t)'  BY <2>1, <2>2, PlaceEnter
    <3> QED  BY <2>1, <2>2, <3>1
  <2>3. CASE x # o
    <3>1. Place(o)' = Place(o)  BY <2>1, <2>3, EnterElsewhere
    <3> QED  BY <2>1, <2>3, <3>1
  <2> QED  BY <2>2, <2>3
<1>3. ASSUME NEW t \in Tasks, NEW x \in Objects, NEW f \in Freqs, setFrequency(t, x, f)
      PROVE  \/ bus'[o] = bus[o] /\ Place(o)' = Place(o)
             \/ bus[o].state = "made" /\ bus'[o].state = "made" /\ bus'[o].spi = bus[o].spi
  <2>1. Entered(t, x, f, "div") /\ OthersStay(t) /\ bus[x].state = "made" /\ bus' = bus
    BY <1>3, SetFrequencyDoes
  <2>2. CASE x = o  BY <2>1, <2>2
  <2>3. CASE x # o
    <3>1. Place(o)' = Place(o)  BY <2>1, <2>3, EnterElsewhere
    <3> QED  BY <2>1, <3>1
  <2> QED  BY <2>2, <2>3
<1>4. ASSUME NEW t \in Tasks, NEW x \in Objects, NEW n \in Sizes, transfer(t, x, n)
      PROVE  bus'[o] = bus[o] /\ Place(o)' = Place(o)
  <2>1. Entered(t, x, n, "deselect") /\ OthersStay(t) /\ bus' = bus  BY <1>4, TransferDoes
  <2> QED  BY <2>1, EnterElsewhere
<1>5. ASSUME NEW t \in Tasks, CreateLock(t) \/ Compare(t) \/ End(t) \/ Store(t)
      PROVE  \/ bus'[o] = bus[o] /\ Place(o)' = Place(o)
             \/ bus[o].state = "made" /\ bus'[o].state = "made" /\ bus'[o].spi = bus[o].spi
             \/ bus[o].state = "making" /\ Place(o) = 1 /\ bus'[o].state = "made" /\ bus'[o].spi = bus[o].spi
             \/ Renewed(o)
  <2>1. /\ Walks(t) /\ OthersStay(t) /\ on[t] \in Objects /\ Kind(t) \in {"built", "gone", "div"}
        /\ \A y \in Objects \ {on[t]} : bus'[y] = bus[y]
    BY <1>5, OddWalks
  <2>2. CASE on[t] # o
    <3>1. Place(o)' = Place(o)  BY <2>1, <2>2, StepElsewhere
    <3> QED  BY <2>1, <2>2, <3>1
  <2>3. CASE on[t] = o
    <3>1. Place(o)' = Left(t)' /\ Place(o) = Left(t)  BY <2>1, <2>3, PlaceStep, OwnPlace
    <3>2. CASE CreateLock(t)
      <4>1. bus[o].state = "making" /\ ~bus[o].spi /\ Place(o)' \in {1, 11}
        BY <2>3, <3>1, <3>2, CreateDoes
      <4>2. bus' = [bus EXCEPT ![o].spi = TRUE] \/ bus' = bus  BY <2>3, <3>2, CreateDoes
      <4>3. bus'[o].state = "making"  BY <1>t, <4>1, <4>2
      <4> QED  BY <4>1, <4>3 DEF Renewed
    <3>3. CASE Compare(t) \/ Store(t)
      <4>1. bus[o].state = "made"  BY <2>1, <2>3, <3>3, CompareDoes, StoreDoes, OwnPlace
      <4>2. bus'[o].state = bus[o].state /\ bus'[o].spi = bus[o].spi  BY <3>3, CompareDoes, StoreDoes
      <4> QED  BY <4>1, <4>2
    <3>4. CASE End(t)
      <4>1. Left(t) = 1  BY <3>4, EndDoes
      <4>2. \/ bus[o].state = "making" /\ bus' = [bus EXCEPT ![o].state = "made"]
            \/ bus[o].state = "ending" /\ bus' = [bus EXCEPT ![o] = NoBus]
        BY <2>3, <3>4, EndDoes
      <4>3. CASE bus[o].state = "making" /\ bus' = [bus EXCEPT ![o].state = "made"]
        <5>1. bus'[o].state = "made" /\ bus'[o].spi = bus[o].spi  BY <1>t, <4>3
        <5> QED  BY <3>1, <4>1, <4>3, <5>1
      <4>4. CASE bus[o].state = "ending" /\ bus' = [bus EXCEPT ![o] = NoBus]
        <5>1. bus'[o] = NoBus  BY <1>t, <4>4
        <5> QED  BY <3>1, <4>1, <4>4, <5>1 DEF Renewed
      <4> QED  BY <4>2, <4>3, <4>4
    <3> QED  BY <1>5, <3>2, <3>3, <3>4
  <2> QED  BY <2>2, <2>3
<1>6. ASSUME NEW t \in Tasks, Plain(t)
      PROVE  (bus'[o] = bus[o] /\ Place(o)' = Place(o)) \/ OwnStep(o)
  <2>1. /\ Walks(t) /\ OthersStay(t) /\ bus' = bus /\ on[t] \in Objects
        /\ Left(t)' = Left(t) - 1 /\ Kind(t) # "idle"
    BY <1>6, PlainWalks
  <2>2. CASE Kind(t) = "deselect" \/ on[t] # o  BY <2>1, <2>2, StepElsewhere
  <2>3. CASE Kind(t) # "deselect" /\ on[t] = o
    <3>1. Kind(t) \in {"built", "gone", "div"}  BY <2>1, <2>3, LeftBounds DEF Kinds
    <3>2. Place(o) = Left(t) /\ Place(o)' = Left(t) - 1  BY <2>1, <2>3, <3>1, OwnPlace, PlaceStep
    <3> QED  BY <1>6, <2>1, <2>3, <3>1, <3>2 DEF OwnStep
  <2> QED  BY <2>2, <2>3
<1>7. ASSUME UNCHANGED <<call, bus, calls>> PROVE bus'[o] = bus[o] /\ Place(o)' = Place(o)
  BY <1>7, CallSame
<1>8. ASSUME NEW c \in Controllers, Complete(c) PROVE bus'[o] = bus[o] /\ Place(o)' = Place(o)
  <2>1. UNCHANGED <<call, bus, calls>>  BY <1>8, CompleteFrame
  <2> QED  BY <1>7, <2>1
<1>9. CASE UNCHANGED vars
  <2>1. UNCHANGED <<call, bus, calls>>  BY <1>9 DEF vars
  <2> QED  BY <1>7, <2>1
<1> QED  BY <1>1, <1>2, <1>3, <1>4, <1>5, <1>6, <1>8, <1>9, NextCases

\* A constructor's last steps attach the pins, a destructor's detach them.
LEMMA OwnPins ==
  ASSUME CallInv, NEW o \in Objects, OwnStep(o)
  PROVE  /\ bus[o].state = "making" /\ Place(o) \in 2..4 => \E t \in Tasks : AttachPin(t) /\ on[t] = o
         /\ bus[o].state = "ending" /\ Place(o) \in 3..5 => \E t \in Tasks : DetachPin(t) /\ on[t] = o
<1>1. PICK t \in Tasks : Plain(t) /\ on[t] = o /\ Kind(t) \in {"built", "gone", "div"} /\ Place(o) = Left(t)
  BY DEF OwnStep
<1>2. /\ Kind(t) = "built" => bus[o].state = "making"
      /\ Kind(t) = "gone"  => bus[o].state = "ending"
      /\ Kind(t) = "div"   => bus[o].state = "made"
  BY <1>1, OwnPlace
<1>3. CallTypes /\ Shape  BY DEF CallInv
<1>4. Kind(t) = "built" /\ Left(t) \in 2..4 => AttachPin(t)
  BY <1>1, <1>3, Where DEF Plain, ReadDport, WriteDport, Section, NoSection, DetachPin, ChipSelect,
     TransferLock, Launch, Await, Control
<1>5. Kind(t) = "gone" /\ Left(t) \in 3..5 => DetachPin(t)
  BY <1>1, <1>3, Where DEF Plain, ReadDport, WriteDport, Section, NoSection, AttachPin, ChipSelect,
     TransferLock, Launch, Await, Control
<1> QED  BY <1>1, <1>2, <1>4, <1>5

-----------------------------------------------------------------------------
(* Pins.                                                                   *)

LEMMA PinsStay ==
  ASSUME [Next]_vars, ~\E t \in Tasks : AttachPin(t) \/ DetachPin(t)
  PROVE  pins' = pins /\ miso' = miso
<1>1. ASSUME NEW t \in Tasks, NEW o \in Objects,
             \/ New(t, o) \/ Delete(t, o) \/ \E f \in Freqs : setFrequency(t, o, f)
             \/ \E n \in Sizes : transfer(t, o, n)
      PROVE  pins' = pins /\ miso' = miso
  BY <1>1 DEF New, Delete, setFrequency, transfer, wire
<1>2. ASSUME NEW t \in Tasks, CreateLock(t) \/ Compare(t) \/ End(t) \/ Store(t)
      PROVE  pins' = pins /\ miso' = miso
  BY <1>2 DEF CreateLock, Compare, End, Store, wire
<1>3. ASSUME NEW t \in Tasks, Plain(t) PROVE pins' = pins /\ miso' = miso
  BY <1>3 DEF Plain, ReadDport, WriteDport, Section, NoSection, ChipSelect,
              TransferLock, Launch, Await, wire
<1>4. ASSUME NEW c \in Controllers, Complete(c) PROVE pins' = pins /\ miso' = miso
  BY <1>4, CompleteFrame
<1>5. CASE UNCHANGED vars  BY <1>5 DEF vars, wire
<1> QED  BY <1>1, <1>2, <1>3, <1>4, <1>5, NextCases

Idle == [dir |-> "in", signal |-> Quiet]

\* What AttachPin and DetachPin leave alone, and what they do for their object.
LEMMA PinsMove ==
  ASSUME CallInv, DeviceTypes, NEW t \in Tasks, AttachPin(t) \/ DetachPin(t),
         NEW x \in Objects, x = on[t]
  PROVE  /\ Plain(t) /\ Place(x) = Left(t) /\ Place(x)' = Left(t) - 1 /\ bus' = bus
         /\ \A o \in Objects \ {x} : Place(o)' = Place(o)
         /\ \A c \in Controllers \ {NumOf[x]} : miso'[c] = miso[c]
         /\ \A p \in AllPins \ PinsOf(x) : pins'[p] = pins[p]
         /\ \A p \in AllPins : \/ pins'[p] = pins[p] \/ pins'[p] = Idle
                               \/ p = Pin(x, "miso") /\ pins'[p] = [pins[p] EXCEPT !.dir = "in"]
                               \/ AttachPin(t) /\ Left(t) = 4 /\ p = Pin(x, "sck")
                                  /\ pins'[p] = Driver(NumOf[x], "sck")
                               \/ AttachPin(t) /\ Left(t) = 2 /\ p = Pin(x, "mosi")
                                  /\ pins'[p] = Driver(NumOf[x], "mosi")
<1>0. Plain(t)  BY DEF Plain
<1>1. /\ Walks(t) /\ OthersStay(t) /\ bus' = bus /\ Left(t)' = Left(t) - 1 /\ Kind(t) # "idle"
  BY <1>0, PlainWalks
<1>2. Kind(t) \in {"built", "gone"}  BY AttachDoes, DetachDoes
<1>3. /\ Place(x) = Left(t) /\ Place(x)' = Left(t) - 1 /\ \A o \in Objects \ {x} : Place(o)' = Place(o)
  BY <1>1, <1>2, PlaceStep, OwnPlace
<1>4. /\ Pin(x, "sck") \in AllPins /\ Pin(x, "miso") \in AllPins /\ Pin(x, "mosi") \in AllPins
      /\ Pin(x, "sck") \in PinsOf(x) /\ Pin(x, "miso") \in PinsOf(x) /\ Pin(x, "mosi") \in PinsOf(x)
      /\ NumOf[x] \in Controllers
  BY PinTypes
<1>5. miso \in [Controllers -> AllPins \cup {-1}] /\ pins \in [AllPins -> [dir : {"in", "out"}, signal : Driven \cup {Quiet}]]
  BY DEF DeviceTypes
<1>6. miso' = miso \/ \E v : miso' = [miso EXCEPT ![NumOf[x]] = v]  BY AttachDoes, DetachDoes
<1>7. \A c \in Controllers \ {NumOf[x]} : miso'[c] = miso[c]  BY <1>4, <1>5, <1>6
<1>8. \/ AttachPin(t) /\ Left(t) = 4 /\ pins' = [pins EXCEPT ![Pin(x, "sck")] = Driver(NumOf[x], "sck")]
      \/ AttachPin(t) /\ Left(t) = 2 /\ pins' = [pins EXCEPT ![Pin(x, "mosi")] = Driver(NumOf[x], "mosi")]
      \/ pins' = [pins EXCEPT ![Pin(x, "sck")] = Idle] \/ pins' = [pins EXCEPT ![Pin(x, "mosi")] = Idle]
      \/ pins' = [pins EXCEPT ![Pin(x, "miso")].dir = "in"]
  BY AttachDoes, DetachDoes DEF Idle
<1>9. ASSUME NEW p \in AllPins
      PROVE  /\ p \notin PinsOf(x) => pins'[p] = pins[p]
             /\ \/ pins'[p] = pins[p] \/ pins'[p] = Idle
                \/ p = Pin(x, "miso") /\ pins'[p] = [pins[p] EXCEPT !.dir = "in"]
                \/ AttachPin(t) /\ Left(t) = 4 /\ p = Pin(x, "sck") /\ pins'[p] = Driver(NumOf[x], "sck")
                \/ AttachPin(t) /\ Left(t) = 2 /\ p = Pin(x, "mosi") /\ pins'[p] = Driver(NumOf[x], "mosi")
  <2>1. CASE pins' = [pins EXCEPT ![Pin(x, "miso")].dir = "in"]
    <3>1. pins'[p] = IF p = Pin(x, "miso") THEN [pins[p] EXCEPT !.dir = "in"] ELSE pins[p]
      BY <1>4, <1>5, <2>1
    <3> QED  BY <1>4, <3>1
  <2>2. CASE pins' # [pins EXCEPT ![Pin(x, "miso")].dir = "in"]
    <3> HIDE DEF Idle, Driver
    <3>1. \/ AttachPin(t) /\ Left(t) = 4 /\ pins'[p] = IF p = Pin(x, "sck") THEN Driver(NumOf[x], "sck") ELSE pins[p]
          \/ AttachPin(t) /\ Left(t) = 2 /\ pins'[p] = IF p = Pin(x, "mosi") THEN Driver(NumOf[x], "mosi") ELSE pins[p]
          \/ pins'[p] = IF p = Pin(x, "sck") THEN Idle ELSE pins[p]
          \/ pins'[p] = IF p = Pin(x, "mosi") THEN Idle ELSE pins[p]
      BY <1>4, <1>5, <1>8, <2>2
    <3> QED  BY <1>4, <3>1
  <2> QED  BY <2>1, <2>2
<1> QED  BY <1>0, <1>1, <1>3, <1>7, <1>9

\* An object that will detach a pin still will, unless it just did.
LEMMA DetachesNext ==
  ASSUME CallInv, [Next]_vars, NEW o \in Objects, NEW n \in {3, 5}, Detaches(o, n)
  PROVE  \/ Detaches(o, n)'
         \/ \E t \in Tasks : DetachPin(t) /\ on[t] = o /\ Left(t) = n
<1>1. bus[o].spi /\ (bus[o].state = "ending" => Place(o) >= n)  BY DEF Detaches
<1>2. Place(o) \in Nat  BY PlaceFacts
<1>3. CASE bus'[o] = bus[o] /\ Place(o)' = Place(o)  BY <1>1, <1>3 DEF Detaches
<1>4. CASE OwnStep(o)
  <2>1. PICK t \in Tasks : /\ Plain(t) /\ on[t] = o /\ Kind(t) \in {"built", "gone", "div"}
                           /\ Place(o) = Left(t) /\ Place(o)' = Left(t) - 1 /\ bus'[o] = bus[o]
    BY <1>4 DEF OwnStep
  <2>2. CASE bus[o].state # "ending" \/ Place(o) # n  BY <1>1, <1>2, <2>1, <2>2 DEF Detaches
  <2>3. CASE bus[o].state = "ending" /\ Place(o) = n
    <3>1. PICK u \in Tasks : DetachPin(u) /\ on[u] = o  BY <1>4, <2>3, OwnPins
    <3>2. Kind(u) = "gone"  BY <3>1, DetachDoes
    <3>3. Left(u) = n  BY <2>3, <3>1, <3>2, OwnPlace
    <3> QED  BY <3>1, <3>3
  <2> QED  BY <2>2, <2>3
<1>5. CASE bus[o].state = "made" /\ bus'[o].state = "made" /\ bus'[o].spi = bus[o].spi
  BY <1>1, <1>5 DEF Detaches
<1>6. CASE bus[o].state = "made" /\ bus'[o].state = "ending" /\ bus'[o].spi = bus[o].spi
           /\ Place(o)' = IF bus[o].spi THEN 5 ELSE 1
  BY <1>1, <1>6 DEF Detaches
<1>7. CASE bus[o].state = "making" /\ Place(o) = 1 /\ bus'[o].state = "made" /\ bus'[o].spi = bus[o].spi
  BY <1>1, <1>7 DEF Detaches
<1>8. ~Renewed(o)  BY <1>1, PlaceFacts DEF Renewed
<1> QED  BY <1>3, <1>4, <1>5, <1>6, <1>7, <1>8, PlaceNext

LEMMA KeptNext ==
  ASSUME CallInv, DeviceTypes, Kept, [Next]_vars
  PROVE  Kept'
<1>0. \A p \in AllPins : \/ pins[p] = Idle
                         \/ \E o \in Objects : \/ p = Pin(o, "sck")  /\ Detaches(o, 3)
                                               \/ p = Pin(o, "mosi") /\ Detaches(o, 5)
  BY DEF Kept, Idle
<1> SUFFICES ASSUME NEW p \in AllPins, pins'[p] # Idle
             PROVE  \E o \in Objects : \/ p = Pin(o, "sck")  /\ Detaches(o, 3)'
                                       \/ p = Pin(o, "mosi") /\ Detaches(o, 5)'
  BY DEF Kept, Idle
<1>1. CASE pins[p] # Idle
  <2>1. PICK o \in Objects, n \in {3, 5} :
           /\ Detaches(o, n) /\ p = IF n = 3 THEN Pin(o, "sck") ELSE Pin(o, "mosi")
    <3>1. PICK o \in Objects : \/ p = Pin(o, "sck")  /\ Detaches(o, 3)
                               \/ p = Pin(o, "mosi") /\ Detaches(o, 5)
      BY <1>0, <1>1
    <3>2. \E n \in {3, 5} : Detaches(o, n) /\ p = IF n = 3 THEN Pin(o, "sck") ELSE Pin(o, "mosi")
      BY <3>1
    <3> QED  BY <3>2
  <2>2. ~\E t \in Tasks : DetachPin(t) /\ on[t] = o /\ Left(t) = n
    <3>1. SUFFICES ASSUME NEW t \in Tasks, DetachPin(t), on[t] = o, Left(t) = n PROVE FALSE  OBVIOUS
    <3>2. pins' = [pins EXCEPT ![p] = Idle]  BY <2>1, <3>1, DetachDoes DEF Idle
    <3>3. pins'[p] = Idle  BY <3>2 DEF DeviceTypes
    <3> QED  BY <3>3
  <2>3. Detaches(o, n)'  BY <2>1, <2>2, DetachesNext
  <2> QED  BY <2>1, <2>3
<1>2. CASE pins[p] = Idle
  <2>1. PICK t \in Tasks : AttachPin(t) \/ DetachPin(t)  BY <1>2, PinsStay
  <2>2. PICK x \in Objects : x = on[t]  BY <2>1, PlainDoes DEF Plain
  <2>3. [pins[p] EXCEPT !.dir = "in"] = Idle  BY <1>2 DEF Idle
  <2>4. /\ AttachPin(t)
        /\ \/ p = Pin(x, "sck") /\ Left(t) = 4
           \/ p = Pin(x, "mosi") /\ Left(t) = 2
    BY <1>2, <2>1, <2>2, <2>3, PinsMove
  <2>5. bus' = bus /\ Place(x) = Left(t) /\ bus[x].state = "making"
    <3>1. Kind(t) = "built"  BY <2>2, <2>4, AttachDoes
    <3> QED  BY <2>1, <2>2, <3>1, PinsMove, OwnPlace
  <2>6. bus[x].spi  BY <2>4, <2>5, PlaceFacts
  <2>7. Detaches(x, 3)' /\ Detaches(x, 5)'  BY <2>5, <2>6 DEF Detaches
  <2> QED  BY <2>4, <2>7
<1> QED  BY <1>1, <1>2

\* What an object has once it is attached, it had, or it got in this step.
LEMMA BuiltBefore ==
  ASSUME CallInv, [Next]_vars, NEW o \in Objects, bus[o].spi, NEW n \in 1..5, Built(o, n)'
  PROVE  Built(o, n) \/ (OwnStep(o) /\ bus[o].state = "making" /\ Place(o) = n + 1)
<1>1. Place(o) \in Nat  BY PlaceFacts
<1>2. CASE bus'[o] = bus[o] /\ Place(o)' = Place(o)  BY <1>2 DEF Built
<1>3. CASE OwnStep(o)
  <2>1. Place(o)' = Place(o) - 1 /\ bus'[o] = bus[o]  BY <1>3 DEF OwnStep
  <2> QED  BY <1>1, <1>3, <2>1 DEF Built
<1>4. CASE bus[o].state = "made"  BY <1>4 DEF Built
<1>5. CASE bus[o].state = "making" /\ Place(o) = 1  BY <1>5 DEF Built
<1>6. CASE Renewed(o)
  <2>1. bus[o].state = "ending" /\ bus'[o] = NoBus  BY <1>6, PlaceFacts DEF Renewed
  <2> QED  BY <2>1, NoBusType DEF Built
<1> QED  BY <1>2, <1>3, <1>4, <1>5, <1>6, PlaceNext

\* Another object's pins and controller are others.
LEMMA OtherPins ==
  ASSUME CallInv, DeviceTypes, Lone, NEW o \in Objects, Sole(o),
         NEW t \in Tasks, AttachPin(t) \/ DetachPin(t), on[t] # o
  PROVE  /\ pins'[Pin(o, "sck")] = pins[Pin(o, "sck")] /\ pins'[Pin(o, "miso")] = pins[Pin(o, "miso")]
         /\ pins'[Pin(o, "mosi")] = pins[Pin(o, "mosi")] /\ miso'[NumOf[o]] = miso[NumOf[o]]
<1>1. PICK x \in Objects : x = on[t]  BY PlainDoes DEF Plain
<1>2. bus[x].state # "none"
  <2>1. Kind(t) \in {"built", "gone"}  BY <1>1, AttachDoes, DetachDoes
  <2> QED  BY <1>1, <2>1, OwnPlace
<1>3. NumOf[x] # NumOf[o]  BY <1>1, <1>2, SoleBefore DEF Sole
<1>4. PinsOf(o) \cap PinsOf(x) = {}  BY <1>3, WiringAssumption
<1>5. \A p \in PinsOf(o) : p \in AllPins /\ p \notin PinsOf(x)  BY <1>4 DEF AllPins
<1>6. \A p \in PinsOf(o) : pins'[p] = pins[p]  BY <1>1, <1>5, PinsMove
<1>7. miso'[NumOf[o]] = miso[NumOf[o]]  BY <1>1, <1>3, PinTypes, PinsMove
<1> QED  BY <1>6, <1>7, PinTypes

LEMMA AttachmentsNext ==
  ASSUME CallInv, DeviceTypes, Lone, Attachments, [Next]_vars
  PROVE  Attachments'
<1> SUFFICES ASSUME NEW o \in Objects, Sole(o)'
             PROVE  AttachedTo(o)'
  BY DEF Attachments
<1>0. CASE bus'[o].state = "making" /\ Place(o)' = 11
  <2>1. ~Built(o, 1)' /\ ~Built(o, 2)' /\ ~Built(o, 3)'  BY <1>0 DEF Built
  <2> QED  BY <2>1 DEF AttachedTo
<1> SUFFICES ASSUME ~(bus'[o].state = "making" /\ Place(o)' = 11)
             PROVE  AttachedTo(o)'
  BY <1>0
<1>a. Sole(o) /\ AttachedTo(o)  BY SoleNext DEF Attachments
<1>b. bus[o].spi  BY <1>a DEF Sole
<1>1. ASSUME Built(o, 1)' => Built(o, 1), Built(o, 2)' => Built(o, 2), Built(o, 3)' => Built(o, 3),
             pins'[Pin(o, "sck")] = pins[Pin(o, "sck")], pins'[Pin(o, "miso")] = pins[Pin(o, "miso")],
             pins'[Pin(o, "mosi")] = pins[Pin(o, "mosi")], miso'[NumOf[o]] = miso[NumOf[o]]
      PROVE  AttachedTo(o)'
  BY <1>a, <1>1 DEF AttachedTo
<1>2. CASE ~\E t \in Tasks : AttachPin(t) \/ DetachPin(t)
  <2>1. pins' = pins /\ miso' = miso  BY <1>2, PinsStay
  <2>2. ASSUME NEW n \in 1..3, Built(o, n)' PROVE Built(o, n)
    <3>1. CASE OwnStep(o) /\ bus[o].state = "making" /\ Place(o) = n + 1
      <4>1. \E t \in Tasks : AttachPin(t) /\ on[t] = o  BY <3>1, OwnPins
      <4> QED  BY <1>2, <4>1
    <3> QED  BY <1>b, <2>2, <3>1, BuiltBefore
  <2> QED  BY <1>1, <2>1, <2>2
<1>3. ASSUME NEW t \in Tasks, AttachPin(t) \/ DetachPin(t), on[t] # o PROVE AttachedTo(o)'
  <2>1. PICK x \in Objects : x = on[t]  BY <1>3, PlainDoes DEF Plain
  <2>2. bus' = bus /\ Place(o)' = Place(o)  BY <1>3, <2>1, PinsMove
  <2>3. \A n : Built(o, n)' => Built(o, n)  BY <2>2 DEF Built
  <2> QED  BY <1>1, <1>3, <1>a, <2>3, OtherPins
<1>4. ASSUME NEW t \in Tasks, DetachPin(t), on[t] = o PROVE AttachedTo(o)'
  <2>1. Kind(t) = "gone"  BY <1>4, DetachDoes
  <2>2. bus' = bus /\ bus[o].state = "ending"  BY <1>4, <2>1, PinsMove, OwnPlace
  <2>3. ~Built(o, 1)' /\ ~Built(o, 2)' /\ ~Built(o, 3)'  BY <2>2 DEF Built
  <2> QED  BY <2>3 DEF AttachedTo
<1>5. ASSUME NEW t \in Tasks, AttachPin(t), on[t] = o PROVE AttachedTo(o)'
  <2>1. Kind(t) = "built"  BY <1>5, AttachDoes
  <2>2. bus' = bus /\ bus[o].state = "making" /\ Place(o) = Left(t) /\ Place(o)' = Left(t) - 1
    BY <1>5, <2>1, PinsMove, OwnPlace
  <2>3. /\ Pin(o, "sck") \in AllPins /\ Pin(o, "miso") \in AllPins /\ Pin(o, "mosi") \in AllPins
        /\ Pin(o, "sck") # Pin(o, "miso") /\ Pin(o, "sck") # Pin(o, "mosi") /\ Pin(o, "miso") # Pin(o, "mosi")
        /\ NumOf[o] \in Controllers
    BY PinTypes
  <2>4. miso \in [Controllers -> AllPins \cup {-1}] /\ pins \in [AllPins -> [dir : {"in", "out"}, signal : Driven \cup {Quiet}]]
    BY DEF DeviceTypes
  <2>5. CASE Left(t) = 4 /\ pins' = [pins EXCEPT ![Pin(o, "sck")] = Driver(NumOf[o], "sck")]
    <3>1. ~Built(o, 1)' /\ ~Built(o, 2)'  BY <2>2, <2>5 DEF Built
    <3>2. pins'[Pin(o, "sck")] = Driver(NumOf[o], "sck")  BY <2>3, <2>4, <2>5
    <3>3. Driver(NumOf[o], "sck")' = Driver(NumOf[o], "sck")  BY DEF Driver
    <3> QED  BY <3>1, <3>2, <3>3 DEF AttachedTo
  <2>6. CASE /\ Left(t) = 3 /\ pins' = [pins EXCEPT ![Pin(o, "miso")].dir = "in"]
             /\ miso' = [miso EXCEPT ![NumOf[o]] = Pin(o, "miso")]
    <3>1. ~Built(o, 1)' /\ Built(o, 3)  BY <2>2, <2>6 DEF Built
    <3>2. pins'[Pin(o, "sck")] = pins[Pin(o, "sck")] /\ pins'[Pin(o, "miso")].dir = "in"  BY <2>3, <2>4, <2>6
    <3>3. miso'[NumOf[o]] = Pin(o, "miso")  BY <2>3, <2>4, <2>6
    <3>4. pins[Pin(o, "sck")] = Driver(NumOf[o], "sck")  BY <1>a, <3>1 DEF AttachedTo
    <3> QED  BY <3>1, <3>2, <3>3, <3>4 DEF AttachedTo
  <2>7. CASE Left(t) = 2 /\ pins' = [pins EXCEPT ![Pin(o, "mosi")] = Driver(NumOf[o], "mosi")] /\ miso' = miso
    <3>1. Built(o, 2) /\ Built(o, 3)  BY <2>2, <2>7 DEF Built
    <3>2. /\ pins'[Pin(o, "sck")] = pins[Pin(o, "sck")] /\ pins'[Pin(o, "miso")] = pins[Pin(o, "miso")]
          /\ pins'[Pin(o, "mosi")] = Driver(NumOf[o], "mosi")
      BY <2>3, <2>4, <2>7
    <3>3. /\ pins[Pin(o, "sck")] = Driver(NumOf[o], "sck")
          /\ miso[NumOf[o]] = Pin(o, "miso") /\ pins[Pin(o, "miso")].dir = "in"
      BY <1>a, <3>1 DEF AttachedTo
    <3> QED  BY <2>7, <3>2, <3>3 DEF AttachedTo
  <2> QED  BY <1>5, <2>5, <2>6, <2>7, AttachDoes
<1> QED  BY <1>2, <1>3, <1>4, <1>5

-----------------------------------------------------------------------------
(* Messages.                                                               *)

\* A message that does not move in a step, and one that starts.
Rests(u) ==
  /\ Kind(u) = "deselect" /\ Kind(u)' = "deselect" /\ Left(u)' = Left(u) /\ on'[u] = on[u] /\ arg'[u] = arg[u]
  /\ bus'[on[u]].spi = bus[on[u]].spi
Begins(u) == \E o \in Objects, n \in Sizes : transfer(u, o, n)
Turns(u)  == Plain(u) /\ Kind(u) = "deselect"

LEMMA MessageNext ==
  ASSUME CallInv, [Next]_vars, NEW u \in Tasks
  PROVE  \/ Turns(u) \/ Rests(u) \/ Begins(u)
         \/ Kind(u) # "deselect" /\ Kind(u)' # "deselect"
<1>1. ASSUME Kind(u)' = Kind(u), Left(u)' = Left(u), on'[u] = on[u], arg'[u] = arg[u], Kind(u) = "deselect"
      PROVE  Rests(u)
  <2>1. on[u] \in Objects  BY <1>1, LeftBounds
  <2>2. bus[on[u]].state = "made"  BY <1>1 DEF CallInv, Calls
  <2>3. PICK o \in Objects : o = on[u]  BY <2>1
  <2>4. CASE OwnStep(o)
    <3>1. bus'[o] = bus[o]  BY <2>4 DEF OwnStep
    <3> QED  BY <1>1, <2>3, <3>1 DEF Rests
  <2>5. CASE ~OwnStep(o)
    <3>1. ~Renewed(o)  BY <2>2, <2>3 DEF Renewed
    <3>2. bus'[o].spi = bus[o].spi  BY <2>2, <2>3, <2>5, <3>1, PlaceNext
    <3> QED  BY <1>1, <2>3, <3>2 DEF Rests
  <2> QED  BY <2>4, <2>5
<1>2. ASSUME NEW t \in Tasks, OthersStay(t), u # t
      PROVE  Rests(u) \/ (Kind(u) # "deselect" /\ Kind(u)' # "deselect")
  <2>1. Kind(u)' = Kind(u) /\ Left(u)' = Left(u) /\ on'[u] = on[u] /\ arg'[u] = arg[u]  BY <1>2 DEF OthersStay
  <2> QED  BY <1>1, <2>1
<1>3. ASSUME NEW t \in Tasks, OthersStay(t), Kind(t) # "deselect", Kind(t)' # "deselect"
      PROVE  Rests(u) \/ (Kind(u) # "deselect" /\ Kind(u)' # "deselect")
  BY <1>2, <1>3
<1>4. ASSUME NEW t \in Tasks, NEW o \in Objects, New(t, o)
      PROVE  Rests(u) \/ (Kind(u) # "deselect" /\ Kind(u)' # "deselect")
  <2>1. Created(t, o)  BY <1>4, NewDoes
  <2>2. Kind(t) = "idle" /\ Kind(t)' = "built" /\ OthersStay(t)  BY <2>1 DEF Created, Entered
  <2> QED  BY <1>3, <2>2
<1>5. ASSUME NEW t \in Tasks, NEW o \in Objects, Delete(t, o)
      PROVE  Rests(u) \/ (Kind(u) # "deselect" /\ Kind(u)' # "deselect")
  <2>1. Entered(t, o, Default, "gone") /\ OthersStay(t)  BY <1>5, DeleteDoes
  <2>2. Kind(t) = "idle" /\ Kind(t)' = "gone"  BY <2>1 DEF Entered
  <2> QED  BY <1>3, <2>1, <2>2
<1>6. ASSUME NEW t \in Tasks, NEW o \in Objects, NEW f \in Freqs, setFrequency(t, o, f)
      PROVE  Rests(u) \/ (Kind(u) # "deselect" /\ Kind(u)' # "deselect")
  <2>1. Entered(t, o, f, "div") /\ OthersStay(t)  BY <1>6, SetFrequencyDoes
  <2>2. Kind(t) = "idle" /\ Kind(t)' = "div"  BY <2>1 DEF Entered
  <2> QED  BY <1>3, <2>1, <2>2
<1>7. ASSUME NEW t \in Tasks, NEW o \in Objects, NEW n \in Sizes, transfer(t, o, n)
      PROVE  Rests(u) \/ Begins(u) \/ (Kind(u) # "deselect" /\ Kind(u)' # "deselect")
  <2>1. OthersStay(t)  BY <1>7, TransferDoes
  <2> QED  BY <1>2, <1>7, <2>1 DEF Begins
<1>8. ASSUME NEW t \in Tasks, CreateLock(t) \/ Compare(t) \/ End(t) \/ Store(t)
      PROVE  Rests(u) \/ (Kind(u) # "deselect" /\ Kind(u)' # "deselect")
  <2>1. Walks(t) /\ OthersStay(t) /\ Kind(t) \in {"built", "gone", "div"}  BY <1>8, OddWalks
  <2>2. Kind(t) # "deselect" /\ Kind(t)' # "deselect"  BY <2>1 DEF Walks
  <2> QED  BY <1>3, <2>1, <2>2
<1>9. ASSUME NEW t \in Tasks, Plain(t)
      PROVE  Turns(u) \/ Rests(u) \/ (Kind(u) # "deselect" /\ Kind(u)' # "deselect")
  <2>1. Walks(t) /\ OthersStay(t)  BY <1>9, PlainWalks
  <2>2. CASE u # t  BY <1>2, <2>1, <2>2
  <2>3. CASE u = t /\ Kind(t) # "deselect"
    <3>1. Kind(t)' # "deselect"  BY <2>1, <2>3 DEF Walks
    <3> QED  BY <2>3, <3>1
  <2>4. CASE u = t /\ Kind(t) = "deselect"  BY <1>9, <2>4 DEF Turns
  <2> QED  BY <2>2, <2>3, <2>4
<1>10. ASSUME UNCHANGED <<call, bus, calls>>
       PROVE  Rests(u) \/ (Kind(u) # "deselect" /\ Kind(u)' # "deselect")
  <2>1. Kind(u)' = Kind(u) /\ Left(u)' = Left(u) /\ on' = on /\ arg' = arg  BY <1>10, CallSame DEF call
  <2> QED  BY <1>1, <2>1
<1>11. ASSUME NEW c \in Controllers, Complete(c)
       PROVE  Rests(u) \/ (Kind(u) # "deselect" /\ Kind(u)' # "deselect")
  <2>1. UNCHANGED <<call, bus, calls>>  BY <1>11, CompleteFrame
  <2> QED  BY <1>10, <2>1
<1>12. CASE UNCHANGED vars
  <2>1. UNCHANGED <<call, bus, calls>>  BY <1>12 DEF vars
  <2> QED  BY <1>10, <2>1
<1> QED  BY <1>4, <1>5, <1>6, <1>7, <1>8, <1>9, <1>11, <1>12, NextCases

LEMMA BeginDoes ==
  ASSUME CallInv, NEW t \in Tasks, Begins(t)
  PROVE  /\ Kind(t) = "idle" /\ Kind(t)' = "deselect" /\ OthersStay(t) /\ bus' = bus
         /\ on'[t] \in Objects /\ arg'[t] \in Sizes
         /\ Left(t)' = IF bus'[on'[t]].spi THEN 2 * Exchanges(arg'[t]) + 4 ELSE 2
         /\ UNCHANGED <<ctl, wire, shared, raced>>
<1>1. PICK o \in Objects, n \in Sizes : transfer(t, o, n)  BY DEF Begins
<1>2. /\ Entered(t, o, n, "deselect") /\ OthersStay(t) /\ bus' = bus
      /\ Left(t)' = IF bus[o].spi THEN 2 * Exchanges(n) + 4 ELSE 2
  BY <1>1, TransferDoes
<1>3. Kind(t) = "idle" /\ Kind(t)' = "deselect" /\ on'[t] = o /\ arg'[t] = n  BY <1>2 DEF Entered
<1>4. UNCHANGED <<ctl, wire, shared, raced>>  BY <1>1 DEF transfer
<1> QED  BY <1>2, <1>3, <1>4

\* What a message does, from how many steps it has left.
LEMMA TurnDoes ==
  ASSUME CallInv, NEW t \in Tasks, Turns(t)
  PROVE  /\ on[t] \in Objects /\ arg[t] \in Sizes /\ Exchanges(arg[t]) \in Nat /\ Left(t) \in Nat \ {0}
         /\ Left(t)' = Left(t) - 1 /\ OthersStay(t) /\ bus' = bus
         /\ Left(t) = 1 => Kind(t)' = "idle"
         /\ Left(t) # 1 => Kind(t)' = "deselect" /\ on'[t] = on[t] /\ arg'[t] = arg[t]
         /\ \/ At(t, "deselect") /\ ChipSelect(t) /\ Left(t) = 1
            \/ At(t, "select") /\ ChipSelect(t) /\ Left(t) = IF bus[on[t]].spi THEN 2 * Exchanges(arg[t]) + 4 ELSE 2
            \/ At(t, "take") /\ TransferLock(t) /\ bus[on[t]].spi /\ Left(t) = 2 * Exchanges(arg[t]) + 3
            \/ At(t, "give") /\ TransferLock(t) /\ bus[on[t]].spi /\ Left(t) = 2
            \/ Launch(t) /\ bus[on[t]].spi /\ Left(t) \in 3..(2 * Exchanges(arg[t]) + 2) /\ Left(t) % 2 = 0
            \/ Await(t) /\ bus[on[t]].spi /\ Left(t) \in 3..(2 * Exchanges(arg[t]) + 2) /\ Left(t) % 2 = 1
<1>0. Plain(t) /\ Kind(t) = "deselect"  BY DEF Turns
<1>1. CallTypes /\ Shape /\ Calls  BY DEF CallInv
<1>2. /\ Walks(t) /\ OthersStay(t) /\ bus' = bus /\ on[t] \in Objects /\ CallInv'
      /\ Left(t) \in Nat \ {0} /\ Left(t)' = Left(t) - 1
      /\ Left(t) # 1 => Kind(t)' = "deselect" /\ on'[t] = on[t] /\ arg'[t] = arg[t]
  BY <1>0, PlainWalks
<1>3. arg[t] \in Sizes  BY <1>0, <1>1 DEF Calls
<1>4. Left(t) = 1 => Kind(t)' = "idle"
  <2>1. Left(t) = 1 => Left(t)' = 0  BY <1>2
  <2>2. todo'[t] \in Seq(Steps)
    <3>1. CallTypes'  BY <1>2 DEF CallInv
    <3> QED  BY <3>1 DEF CallTypes
  <2> QED  BY <2>1, <2>2 DEF Kind, Left
<1>5. ChipSelect(t) \/ TransferLock(t) \/ Launch(t) \/ Await(t)
  BY <1>0, <1>1, Where DEF Plain, ReadDport, WriteDport, Section, NoSection, AttachPin, DetachPin
<1>6. /\ At(t, "deselect") <=> Left(t) = 1
      /\ At(t, "give")   <=> Left(t) = 2 /\ bus[on[t]].spi
      /\ At(t, "select") <=> Left(t) = IF bus[on[t]].spi THEN 2 * Exchanges(arg[t]) + 4 ELSE 2
      /\ At(t, "take")   <=> Left(t) = 2 * Exchanges(arg[t]) + 3 /\ Left(t) # 1 /\ bus[on[t]].spi
      /\ At(t, "launch") <=> Left(t) \in 3..(2 * Exchanges(arg[t]) + 2) /\ Left(t) % 2 = 0 /\ bus[on[t]].spi
      /\ At(t, "await")  <=> Left(t) \in 3..(2 * Exchanges(arg[t]) + 2) /\ Left(t) % 2 = 1 /\ bus[on[t]].spi
      /\ Exchanges(arg[t]) \in Nat
  BY <1>0, <1>1, Turn
<1>7. \/ At(t, "deselect") /\ ChipSelect(t)
      \/ At(t, "select") /\ ChipSelect(t)
      \/ At(t, "take") /\ TransferLock(t)
      \/ At(t, "give") /\ TransferLock(t)
      \/ At(t, "launch") /\ Launch(t)
      \/ At(t, "await") /\ Await(t)
  BY <1>5 DEF ChipSelect, TransferLock, Launch, Await
<1>8. /\ on[t] \in Objects /\ arg[t] \in Sizes /\ Exchanges(arg[t]) \in Nat /\ Left(t) \in Nat \ {0}
      /\ Left(t)' = Left(t) - 1 /\ OthersStay(t) /\ bus' = bus
  BY <1>2, <1>3, <1>6
<1> QED  BY <1>2, <1>4, <1>6, <1>7, <1>8

LineSame == \A c \in Controllers : ctl'[c].owner = ctl[c].owner /\ ctl'[c].usr = ctl[c].usr
Endings  == \E c \in Controllers : Complete(c)

\* Only messages and the hardware use the line.
LEMMA LineStays ==
  ASSUME CallInv, DeviceTypes, [Next]_vars, ~Endings, \A t \in Tasks : ~Turns(t)
  PROVE  LineSame
<1>0. CtlTypes /\ CallTypes /\ Shape  BY DEF DeviceTypes, CallInv
<1>1. ASSUME NEW t \in Tasks, NEW o \in Objects,
             \/ New(t, o) \/ Delete(t, o) \/ \E f \in Freqs : setFrequency(t, o, f)
             \/ \E n \in Sizes : transfer(t, o, n)
      PROVE  ctl' = ctl
  BY <1>1 DEF New, Delete, setFrequency, transfer
<1>2. ASSUME NEW t \in Tasks, CreateLock(t) \/ Compare(t) \/ End(t) \/ Store(t)
      PROVE  ctl' = ctl \/ ctl' = [ctl EXCEPT ![Num(t)].made = TRUE]
  BY <1>2 DEF CreateLock, Compare, End, Store
<1>3. ASSUME NEW t \in Tasks, Plain(t) PROVE LineSame
  <2>1. ~(ChipSelect(t) \/ TransferLock(t) \/ Launch(t) \/ Await(t))
    BY <1>0, <1>3, Where DEF Turns, ChipSelect, TransferLock, Launch, Await, Control
  <2>2. CASE Section(t)
    <3>1. PICK o \in Objects : o = on[t]  BY <1>3, PlainDoes
    <3>2. \A c \in Controllers : ctl'[c].owner = ctl[c].owner /\ ctl'[c].usr = ctl[c].usr
      BY <2>2, <3>1, SectionDoes
    <3> QED  BY <3>2 DEF LineSame
  <2>3. CASE ~Section(t)
    <3>1. ctl' = ctl
      BY <1>3, <2>1, <2>3 DEF Plain, ReadDport, WriteDport, NoSection, AttachPin, DetachPin
    <3> QED  BY <3>1 DEF LineSame
  <2> QED  BY <2>2, <2>3
<1>4. CASE UNCHANGED vars
  <2>1. ctl' = ctl  BY <1>4 DEF vars
  <2> QED  BY <2>1 DEF LineSame
<1>5. ctl' = ctl => LineSame  BY DEF LineSame
<1>6. \A c : ctl' = [ctl EXCEPT ![c].made = TRUE] => LineSame  BY <1>0 DEF LineSame, CtlTypes
<1> QED  BY <1>1, <1>2, <1>3, <1>4, <1>5, <1>6, NextCases DEF Endings

\* A message that does not move keeps the lock.
HoldsOn(u) ==
  /\ Holding(u)' => Holding(u)
  /\ Holding(u) => Holding(u)' /\ Left(u)' = Left(u) /\ on'[u] = on[u] /\ arg'[u] = arg[u]

LEMMA RestsHold ==
  ASSUME NEW u \in Tasks, Rests(u)
  PROVE  HoldsOn(u)
BY DEF Rests, HoldsOn, Holding

LEMMA OthersHold ==
  ASSUME CallInv, NEW t \in Tasks, OthersStay(t), bus' = bus, NEW u \in Tasks \ {t}
  PROVE  HoldsOn(u)
<1>1. Kind(u)' = Kind(u) /\ Left(u)' = Left(u) /\ on'[u] = on[u] /\ arg'[u] = arg[u]  BY DEF OthersStay
<1> QED  BY <1>1 DEF HoldsOn, Holding

LEMMA HoldsNext ==
  ASSUME CallInv, [Next]_vars, NEW u \in Tasks, ~Turns(u)
  PROVE  HoldsOn(u)
<1>1. CASE Rests(u)  BY <1>1, RestsHold
<1>2. CASE Begins(u)
  <2>1. /\ Kind(u) = "idle" /\ arg'[u] \in Sizes
        /\ Left(u)' = IF bus'[on'[u]].spi THEN 2 * Exchanges(arg'[u]) + 4 ELSE 2
    BY <1>2, BeginDoes
  <2>2. Exchanges(arg'[u]) \in Nat  BY <2>1, SizesNat, ExchangesType
  <2>3. ~Holding(u)'  BY <2>1, <2>2 DEF Holding
  <2> QED  BY <2>1, <2>3 DEF HoldsOn, Holding
<1>3. CASE Kind(u) # "deselect" /\ Kind(u)' # "deselect"  BY <1>3 DEF HoldsOn, Holding
<1> QED  BY <1>1, <1>2, <1>3, MessageNext

\* What a holder's turn does to the line.
LEMMA LocksSame ==
  ASSUME CallInv, Locks, LineSame, NEW t \in Tasks, \A u \in Tasks \ {t} : HoldsOn(u),
         \/ HoldsOn(t)
         \/ ~Holding(t) /\ ~Holding(t)'
         \/ Holding(t) /\ Holding(t)' /\ on'[t] = on[t] /\ ~ctl[NumOf[on[t]]].usr
  PROVE  Locks'
<1>0. \A u \in Tasks : Holding(u) => on[u] \in Objects /\ NumOf[on[u]] \in Controllers
  BY LeftBounds, PinTypes DEF Holding
<1>1. \A u \in Tasks : /\ Holding(u)' <=> Holding(u)
                       /\ Holding(u) => on'[u] = on[u]
  BY DEF HoldsOn
<1>2. ASSUME NEW u \in Tasks, Holding(u)' PROVE ctl'[NumOf[on'[u]]].owner = u
  BY <1>0, <1>1, <1>2 DEF Locks, LineSame
<1>3. ASSUME NEW c \in Controllers, ctl'[c].owner # None
      PROVE  \E u \in Tasks : ctl'[c].owner = u /\ Holding(u)' /\ NumOf[on'[u]] = c
  <2>1. PICK u \in Tasks : ctl[c].owner = u /\ Holding(u) /\ NumOf[on[u]] = c
    BY <1>3 DEF Locks, LineSame
  <2>2. ctl'[c].owner = u  BY <2>1 DEF LineSame
  <2>3. Holding(u)' /\ NumOf[on'[u]] = c  BY <1>1, <2>1
  <2> QED  BY <2>2, <2>3
<1>4. ASSUME NEW c \in Controllers, ctl'[c].usr
      PROVE  \E u \in Tasks : ctl'[c].owner = u /\ Awaiting(u)'
  <2>0. ctl[c].usr  BY <1>4 DEF LineSame
  <2>1. PICK u \in Tasks : ctl[c].owner = u /\ Awaiting(u)  BY <2>0 DEF Locks
  <2>2. Holding(u) /\ NumOf[on[u]] = c  BY <2>1, NoneAssumption DEF Locks
  <2>3. ctl'[c].owner = u  BY <2>1 DEF LineSame
  <2>4. HoldsOn(u)  BY <2>0, <2>2
  <2>5. Left(u)' = Left(u)  BY <2>2, <2>4 DEF HoldsOn
  <2>6. Awaiting(u)'  BY <2>1, <2>5 DEF Awaiting
  <2> QED  BY <2>3, <2>6
<1> QED  BY <1>2, <1>3, <1>4 DEF Locks

\* A turn of t changes only the line of its controller, which nobody else holds.
LEMMA LocksTurn ==
  ASSUME CallInv, Locks, NEW t \in Tasks, on[t] \in Objects, NEW c \in Controllers, c = NumOf[on[t]],
         \A d \in Controllers \ {c} : ctl'[d] = ctl[d], \A u \in Tasks \ {t} : HoldsOn(u),
         Holding(t) \/ ctl[c].owner = None,
         Holding(t)' => ctl'[c].owner = t /\ on'[t] = on[t],
         ctl'[c].owner # None => ctl'[c].owner = t /\ Holding(t)',
         ctl'[c].usr => ctl'[c].owner = t /\ Awaiting(t)'
  PROVE  Locks'
<1>0. \A u \in Tasks : Holding(u) => on[u] \in Objects /\ NumOf[on[u]] \in Controllers
  BY LeftBounds, PinTypes DEF Holding
<1>1. \A u \in Tasks \ {t} : /\ Holding(u)' <=> Holding(u)
                             /\ Holding(u) => on'[u] = on[u] /\ Left(u)' = Left(u)
  BY DEF HoldsOn
<1>2. ASSUME NEW u \in Tasks \ {t}, Holding(u) PROVE NumOf[on[u]] # c
  BY <1>2, NoneAssumption DEF Locks
<1>3. ASSUME NEW u \in Tasks, Holding(u)' PROVE ctl'[NumOf[on'[u]]].owner = u
  <2>1. CASE u = t  BY <1>3, <2>1
  <2>2. CASE u # t
    <3>1. Holding(u) /\ on'[u] = on[u]  BY <1>1, <1>3, <2>2
    <3>2. NumOf[on[u]] \in Controllers \ {c}  BY <1>0, <1>2, <2>2, <3>1
    <3> QED  BY <3>1, <3>2 DEF Locks
  <2> QED  BY <2>1, <2>2
<1>4. ASSUME NEW d \in Controllers, ctl'[d].owner # None
      PROVE  \E u \in Tasks : ctl'[d].owner = u /\ Holding(u)' /\ NumOf[on'[u]] = d
  <2>1. CASE d = c  BY <1>4, <2>1
  <2>2. CASE d # c
    <3>1. PICK u \in Tasks : ctl[d].owner = u /\ Holding(u) /\ NumOf[on[u]] = d
      BY <1>4, <2>2 DEF Locks
    <3>2. u # t /\ ctl'[d] = ctl[d]  BY <2>2, <3>1
    <3> QED  BY <1>1, <3>1, <3>2
  <2> QED  BY <2>1, <2>2
<1>5. ASSUME NEW d \in Controllers, ctl'[d].usr
      PROVE  \E u \in Tasks : ctl'[d].owner = u /\ Awaiting(u)'
  <2>1. CASE d = c  BY <1>5, <2>1
  <2>2. CASE d # c
    <3>1. PICK u \in Tasks : ctl[d].owner = u /\ Awaiting(u)  BY <1>5, <2>2 DEF Locks
    <3>2. Holding(u) /\ NumOf[on[u]] = d  BY <3>1, NoneAssumption DEF Locks
    <3>3. u # t /\ ctl'[d] = ctl[d]  BY <2>2, <3>2
    <3>4. Left(u)' = Left(u)  BY <1>1, <3>2, <3>3
    <3>5. Awaiting(u)'  BY <3>1, <3>4 DEF Awaiting
    <3> QED  BY <3>1, <3>3, <3>5
  <2> QED  BY <2>1, <2>2
<1> QED  BY <1>3, <1>4, <1>5 DEF Locks

LEMMA LocksNext ==
  ASSUME CallInv, DeviceTypes, Locks, [Next]_vars
  PROVE  Locks'
<1>0. CtlTypes  BY DEF DeviceTypes
<1>1. ASSUME NEW t \in Tasks, Turns(t) PROVE Locks'
  <2>1. /\ on[t] \in Objects /\ arg[t] \in Sizes /\ Exchanges(arg[t]) \in Nat /\ Left(t) \in Nat \ {0}
        /\ Left(t)' = Left(t) - 1 /\ OthersStay(t) /\ bus' = bus /\ Kind(t) = "deselect"
        /\ Left(t) = 1 => Kind(t)' = "idle"
        /\ Left(t) # 1 => Kind(t)' = "deselect" /\ on'[t] = on[t] /\ arg'[t] = arg[t]
    BY <1>1, TurnDoes DEF Turns
  <2>2. PICK c \in Controllers : c = NumOf[on[t]]  BY <2>1, PinTypes
  <2>3. \A u \in Tasks \ {t} : HoldsOn(u)  BY <2>1, OthersHold
  <2>4. Holding(t) <=> bus[on[t]].spi /\ Left(t) \in 2..(2 * Exchanges(arg[t]) + 2)
    BY <2>1 DEF Holding
  <2>5. Holding(t)' <=> bus[on[t]].spi /\ Left(t) \in 3..(2 * Exchanges(arg[t]) + 3)
    BY <2>1 DEF Holding
  <2>6. CASE ChipSelect(t) /\ (Left(t) = 1 \/ Left(t) = IF bus[on[t]].spi THEN 2 * Exchanges(arg[t]) + 4 ELSE 2)
    <3>1. ~Holding(t) /\ ~Holding(t)'  BY <2>1, <2>4, <2>5, <2>6
    <3>2. LineSame  BY <2>6 DEF ChipSelect, LineSame
    <3> QED  BY <2>3, <3>1, <3>2, LocksSame
  <2>7. CASE At(t, "take") /\ TransferLock(t) /\ bus[on[t]].spi /\ Left(t) = 2 * Exchanges(arg[t]) + 3
    <3>1. ctl[c].owner = None /\ ctl' = [ctl EXCEPT ![c].owner = t]
      BY <2>2, <2>7 DEF TransferLock, Num, At
    <3>2. /\ \A d \in Controllers \ {c} : ctl'[d] = ctl[d]
          /\ ctl'[c].owner = t /\ ctl'[c].usr = ctl[c].usr
      BY <1>0, <3>1 DEF CtlTypes, CtlRecords
    <3>3. ~ctl[c].usr  BY <3>1, NoneAssumption DEF Locks
    <3>4. Holding(t)' /\ on'[t] = on[t]  BY <2>1, <2>5, <2>7
    <3> QED  BY <2>1, <2>2, <2>3, <3>1, <3>2, <3>3, <3>4, LocksTurn
  <2>8. CASE At(t, "give") /\ TransferLock(t) /\ bus[on[t]].spi /\ Left(t) = 2
    <3>1. ctl' = [ctl EXCEPT ![c].owner = None]
      BY <2>2, <2>8 DEF TransferLock, Num, At
    <3>2. /\ \A d \in Controllers \ {c} : ctl'[d] = ctl[d]
          /\ ctl'[c].owner = None /\ ctl'[c].usr = ctl[c].usr
      BY <1>0, <3>1 DEF CtlTypes, CtlRecords
    <3>3. Holding(t) /\ ~Holding(t)'  BY <2>1, <2>4, <2>5, <2>8
    <3>4. ~ctl[c].usr
      <4>1. ctl[c].owner = t  BY <2>2, <3>3 DEF Locks
      <4>2. ~Awaiting(t)  BY <2>8 DEF Awaiting
      <4> QED  BY <4>1, <4>2 DEF Locks
    <3> QED  BY <2>1, <2>2, <2>3, <3>2, <3>3, <3>4, LocksTurn
  <2>9. CASE Launch(t) /\ bus[on[t]].spi /\ Left(t) \in 3..(2 * Exchanges(arg[t]) + 2) /\ Left(t) % 2 = 0
    <3>1. ctl' = [ctl EXCEPT ![c].usr = TRUE]  BY <2>2, <2>9 DEF Launch, Num
    <3>2. /\ \A d \in Controllers \ {c} : ctl'[d] = ctl[d]
          /\ ctl'[c].owner = ctl[c].owner
      BY <1>0, <3>1 DEF CtlTypes, CtlRecords
    <3>3. Holding(t) /\ Holding(t)'  BY <2>1, <2>4, <2>5, <2>9
    <3>4. ctl[c].owner = t  BY <2>2, <3>3 DEF Locks
    <3>5. Left(t)' > 2 /\ Left(t)' % 2 = 1  BY <2>1, <2>9
    <3>6. Awaiting(t)'  BY <3>5 DEF Awaiting
    <3>7. on'[t] = on[t]  BY <2>1, <2>9
    <3> QED  BY <2>1, <2>2, <2>3, <3>2, <3>3, <3>4, <3>6, <3>7, LocksTurn
  <2>10. CASE Await(t) /\ bus[on[t]].spi /\ Left(t) \in 3..(2 * Exchanges(arg[t]) + 2) /\ Left(t) % 2 = 1
    <3>1. ~ctl[c].usr /\ ctl' = ctl  BY <2>2, <2>10 DEF Await, Num
    <3>2. LineSame  BY <3>1 DEF LineSame
    <3>3. Holding(t) /\ Holding(t)' /\ on'[t] = on[t]  BY <2>1, <2>4, <2>5, <2>10
    <3> QED  BY <2>2, <2>3, <3>1, <3>2, <3>3, LocksSame
  <2> QED  BY <1>1, <2>6, <2>7, <2>8, <2>9, <2>10, TurnDoes
<1>2. ASSUME NEW c \in Controllers, Complete(c), \A t \in Tasks : ~Turns(t) PROVE Locks'
  <2>1. ctl[c].usr /\ ctl' = [ctl EXCEPT ![c].usr = FALSE]  BY <1>2, CompleteFrame
  <2>2. PICK t \in Tasks : ctl[c].owner = t /\ Awaiting(t)  BY <2>1 DEF Locks
  <2>3. Holding(t) /\ NumOf[on[t]] = c /\ on[t] \in Objects
    BY <2>2, NoneAssumption, LeftBounds DEF Locks, Holding
  <2>4. \A u \in Tasks : HoldsOn(u)  BY <1>2, HoldsNext
  <2>5. /\ \A d \in Controllers \ {c} : ctl'[d] = ctl[d]
        /\ ctl'[c].owner = t /\ ~ctl'[c].usr
    BY <1>0, <2>1, <2>2 DEF CtlTypes
  <2>6. Holding(t)' /\ on'[t] = on[t]  BY <2>3, <2>4 DEF HoldsOn
  <2> QED  BY <2>3, <2>4, <2>5, <2>6, LocksTurn
<1>3. CASE ~Endings /\ \A t \in Tasks : ~Turns(t)
  <2>1. LineSame  BY <1>3, LineStays
  <2>2. \A u \in Tasks : HoldsOn(u)  BY <1>3, HoldsNext
  <2>3. CASE Tasks = {}
    <3>1. \A c \in Controllers : ctl'[c].owner = None /\ ~ctl'[c].usr
      BY <2>1, <2>3 DEF Locks, LineSame
    <3> QED  BY <2>3, <3>1 DEF Locks
  <2>4. CASE Tasks # {}
    <3>1. PICK t \in Tasks : TRUE  BY <2>4
    <3> QED  BY <2>1, <2>2, <3>1, LocksSame
  <2> QED  BY <2>3, <2>4
<1> QED  BY <1>1, <1>2, <1>3 DEF Endings

-----------------------------------------------------------------------------
(* Replies.                                                                *)

MessageTypes ==
  /\ heard \in [Slaves -> Seq([from : Tasks, n : Chunks])]
  /\ reply \in [Tasks -> Seq(Slaves \cup {None})]

\* Only messages and the hardware touch the wire.
LEMMA WireStays ==
  ASSUME CallInv, [Next]_vars, ~Endings, \A t \in Tasks : ~Turns(t)
  PROVE  low' = low /\ heard' = heard /\ reply' = reply /\ \A t \in upset : t \in upset'
<1>0. CallTypes /\ Shape  BY DEF CallInv
<1>1. ASSUME NEW t \in Tasks, NEW o \in Objects,
             \/ New(t, o) \/ Delete(t, o) \/ \E f \in Freqs : setFrequency(t, o, f)
             \/ \E n \in Sizes : transfer(t, o, n)
      PROVE  low' = low /\ heard' = heard /\ reply' = reply /\ \A u \in upset : u \in upset'
  BY <1>1 DEF New, Delete, setFrequency, transfer, wire, seen
<1>2. ASSUME NEW t \in Tasks, CreateLock(t) \/ Compare(t) \/ End(t) \/ Store(t)
      PROVE  low' = low /\ heard' = heard /\ reply' = reply /\ upset' = upset
  BY <1>2 DEF CreateLock, Compare, End, Store, wire, seen
<1>3. ASSUME NEW t \in Tasks, Plain(t)
      PROVE  low' = low /\ heard' = heard /\ reply' = reply /\ upset' = upset
  <2>1. ~(ChipSelect(t) \/ TransferLock(t) \/ Launch(t) \/ Await(t))
    BY <1>0, <1>3, Where DEF Turns, ChipSelect, TransferLock, Launch, Await, Control
  <2> QED  BY <1>3, <2>1 DEF Plain, Section, ReadDport, WriteDport, NoSection, AttachPin, DetachPin, wire, seen
<1>4. CASE UNCHANGED vars  BY <1>4 DEF vars, wire, seen
<1> QED  BY <1>1, <1>2, <1>3, <1>4, NextCases DEF Endings

\* An exchange that ends is the lock holder's.
LEMMA EndingDoes ==
  ASSUME CallInv, DeviceTypes, Locks, MessageTypes, NEW c \in Controllers, Complete(c), NEW t \in Tasks, t = ctl[c].owner
  PROVE  /\ Holding(t) /\ Awaiting(t) /\ on[t] \in Objects /\ NumOf[on[t]] = c
         /\ ctl[c].usr /\ ~ctl'[c].usr /\ \A d \in Controllers \ {c} : ctl'[d] = ctl[d]
         /\ UNCHANGED <<call, bus, calls, low, upset>>
         /\ \E a \in Slaves \cup {None} : reply' = [reply EXCEPT ![t] = Append(reply[t], a)]
<1>1. ctl[c].usr /\ ctl' = [ctl EXCEPT ![c].usr = FALSE] /\ UNCHANGED <<call, bus, calls, low, upset>>
  BY CompleteFrame DEF seen
<1>2. Awaiting(t)
  <2>1. PICK u \in Tasks : ctl[c].owner = u /\ Awaiting(u)  BY <1>1 DEF Locks
  <2> QED  BY <2>1
<1>3. Holding(t) /\ NumOf[on[t]] = c
  <2>1. PICK u \in Tasks : ctl[c].owner = u /\ Holding(u) /\ NumOf[on[u]] = c
    BY NoneAssumption DEF Locks
  <2> QED  BY <2>1
<1>4. on[t] \in Objects  BY <1>3, LeftBounds DEF Holding
<1>5. ~ctl'[c].usr /\ \A d \in Controllers \ {c} : ctl'[d] = ctl[d]
  <2>1. CtlTypes  BY DEF DeviceTypes
  <2> QED  BY <1>1, <2>1 DEF CtlTypes
<1>6. \E a \in Slaves \cup {None} : reply' = [reply EXCEPT ![t] = Append(reply[t], a)]
  <2> DEFINE A == Answers(c)
  <2> DEFINE a == IF Cardinality(A) = 1 THEN CHOOSE s \in A : TRUE ELSE None
  <2>1. reply' = [reply EXCEPT ![t] = Append(reply[t], a)]
    <3>1. reply' = [reply EXCEPT ![ctl[c].owner] = Append(@, a)]  BY DEF Complete
    <3> QED  BY <3>1 DEF MessageTypes
  <2>2. a \in Slaves \cup {None}
    <3>1. A \subseteq Slaves  BY DEF Answers, Listeners, DeviceTypes
    <3>2. Cardinality(A) = 1 => A # {}  BY FS_EmptySet
    <3> HIDE DEF A
    <3> QED  BY <3>1, <3>2
  <2> HIDE DEF a
  <2> QED  BY <2>1, <2>2
<1> QED  BY <1>1, <1>2, <1>3, <1>4, <1>5, <1>6

\* A turn clears the replies when it is the last.
LEMMA TurnReply ==
  ASSUME CallInv, NEW t \in Tasks, Turns(t)
  PROVE  \/ Left(t) = 1 /\ reply' = [reply EXCEPT ![t] = <<>>]
         \/ Left(t) # 1 /\ reply' = reply
<1>1. CASE At(t, "deselect") /\ ChipSelect(t) /\ Left(t) = 1  BY <1>1 DEF ChipSelect, At
<1>2. CASE At(t, "select") /\ ChipSelect(t) /\ Left(t) = IF bus[on[t]].spi THEN 2 * Exchanges(arg[t]) + 4 ELSE 2
  <2>1. Left(t) # 1  BY <1>2, TurnDoes
  <2>2. ~At(t, "deselect")  BY <1>2 DEF At
  <2> QED  BY <1>2, <2>1, <2>2 DEF ChipSelect
<1>3. CASE TransferLock(t) /\ Left(t) # 1  BY <1>3 DEF TransferLock, wire
<1>4. CASE Launch(t) /\ Left(t) # 1  BY <1>4 DEF Launch, wire
<1>5. CASE Await(t) /\ Left(t) # 1  BY <1>5 DEF Await, wire
<1>6. \/ At(t, "deselect") /\ ChipSelect(t) /\ Left(t) = 1
      \/ At(t, "select") /\ ChipSelect(t) /\ Left(t) = IF bus[on[t]].spi THEN 2 * Exchanges(arg[t]) + 4 ELSE 2
      \/ TransferLock(t) /\ Left(t) # 1
      \/ Launch(t) /\ Left(t) # 1
      \/ Await(t) /\ Left(t) # 1
  BY TurnDoes
<1> QED  BY <1>1, <1>2, <1>3, <1>4, <1>5, <1>6

\* The exchange that a holder has on the wire is ended by the hardware alone.
LEMMA LineNext ==
  ASSUME CallInv, DeviceTypes, Locks, [Next]_vars, NEW u \in Tasks, Holding(u), ~Turns(u),
         NEW c \in Controllers, c = NumOf[on[u]], ~Complete(c)
  PROVE  ctl'[c].usr = ctl[c].usr
<1>0. CtlTypes  BY DEF DeviceTypes
<1>1. ctl[c].owner = u  BY DEF Locks
<1>2. ASSUME NEW t \in Tasks, Turns(t) PROVE ctl'[c].usr = ctl[c].usr
  <2>1. CASE Launch(t)
    <3>1. on[t] \in Objects /\ Holding(t)
      <4>1. /\ on[t] \in Objects /\ Kind(t) = "deselect" /\ Exchanges(arg[t]) \in Nat /\ Left(t) \in Nat \ {0}
        BY <1>2, TurnDoes DEF Turns
      <4>2. At(t, "launch")  BY <2>1 DEF Launch
      <4>3. Left(t) \in 3..(2 * Exchanges(arg[t]) + 2) /\ bus[on[t]].spi
        BY <4>1, <4>2, Turn DEF CallInv
      <4> QED  BY <4>1, <4>3 DEF Holding
    <3>2. ctl[NumOf[on[t]]].owner = t  BY <3>1 DEF Locks
    <3>3. NumOf[on[t]] # c  BY <1>1, <1>2, <3>2
    <3>4. ctl' = [ctl EXCEPT ![NumOf[on[t]]].usr = TRUE]  BY <2>1 DEF Launch, Num
    <3> QED  BY <1>0, <3>3, <3>4 DEF CtlTypes
  <2>2. CASE TransferLock(t)
    <3>1. \/ ctl' = [ctl EXCEPT ![NumOf[on[t]]].owner = t]
          \/ ctl' = [ctl EXCEPT ![NumOf[on[t]]].owner = None]
      BY <2>2 DEF TransferLock, Num
    <3> QED  BY <1>0, <3>1 DEF CtlTypes, CtlRecords
  <2>3. CASE ChipSelect(t) \/ Await(t)  BY <2>3 DEF ChipSelect, Await
  <2> QED  BY <1>2, <2>1, <2>2, <2>3, TurnDoes
<1>3. ASSUME NEW d \in Controllers, Complete(d) PROVE ctl'[c].usr = ctl[c].usr
  <2>1. ctl' = [ctl EXCEPT ![d].usr = FALSE] /\ d # c  BY <1>3, CompleteFrame
  <2> QED  BY <1>0, <2>1 DEF CtlTypes
<1>4. CASE ~Endings /\ \A t \in Tasks : ~Turns(t)
  <2>1. LineSame  BY <1>4, LineStays
  <2> QED  BY <2>1 DEF LineSame
<1> QED  BY <1>2, <1>3, <1>4 DEF Endings

LEMMA ReplyNext ==
  ASSUME CallInv, DeviceTypes, Locks, MessageTypes, [Next]_vars, NEW u \in Tasks, ~Turns(u),
         ~\E c \in Controllers : Complete(c) /\ ctl[c].owner = u
  PROVE  reply'[u] = reply[u]
<1>1. ASSUME NEW t \in Tasks, Turns(t) PROVE reply'[u] = reply[u]
  <2>1. reply' = reply \/ reply' = [reply EXCEPT ![t] = <<>>]  BY <1>1, TurnReply
  <2>2. u # t  BY <1>1
  <2> QED  BY <2>1, <2>2 DEF MessageTypes
<1>2. ASSUME NEW c \in Controllers, Complete(c) PROVE reply'[u] = reply[u]
  <2>0. ctl[c].usr  BY <1>2, CompleteFrame
  <2>1. PICK t \in Tasks : t = ctl[c].owner  BY <2>0 DEF Locks
  <2>2. \E a \in Slaves \cup {None} : reply' = [reply EXCEPT ![t] = Append(reply[t], a)]
    BY <1>2, <2>1, EndingDoes
  <2>3. u # t  BY <1>2, <2>1
  <2> QED  BY <2>2, <2>3 DEF MessageTypes
<1>3. CASE ~Endings /\ \A t \in Tasks : ~Turns(t)  BY <1>3, WireStays
<1> QED  BY <1>1, <1>2, <1>3 DEF Endings

\* A message that may have had replies.
Answering(t) == Kind(t) = "deselect" /\ bus[on[t]].spi /\ Left(t) <= 2 * Exchanges(arg[t]) + 2

LEMMA AnswersRest ==
  ASSUME CallInv, CallInv', DeviceTypes, Locks, MessageTypes, Answered, [Next]_vars,
         NEW u \in Tasks, Rests(u)
  PROVE  IF Answering(u)' THEN Len(reply'[u]) = Had(u)' ELSE reply'[u] = <<>>
<1>0. /\ Kind(u) = "deselect" /\ Kind(u)' = "deselect" /\ Left(u)' = Left(u) /\ on'[u] = on[u] /\ arg'[u] = arg[u]
      /\ bus'[on[u]].spi = bus[on[u]].spi
  BY DEF Rests
<1>1. ~Turns(u)
  <2>1. Turns(u) => Left(u)' = Left(u) - 1 /\ Left(u) \in Nat  BY TurnDoes
  <2> QED  BY <1>0, <2>1
<1>2. on[u] \in Objects /\ arg[u] \in Sizes /\ Exchanges(arg[u]) \in Nat /\ Left(u) \in Nat \ {0}
  <2>1. on[u] \in Objects /\ Exchanges(arg[u]) \in Nat /\ Left(u) \in Nat \ {0}
    BY <1>0, Turn DEF CallInv
  <2>2. arg[u] \in Sizes  BY <1>0 DEF CallInv, Calls
  <2> QED  BY <2>1, <2>2
<1>3. Answering(u)' <=> Answering(u)  BY <1>0 DEF Answering
<1>4. Awaiting(u)' <=> Awaiting(u)  BY <1>0 DEF Awaiting
<1>5. PICK c \in Controllers : c = NumOf[on[u]]  BY <1>2, PinTypes
<1>6. /\ Had(u)  = Exchanges(arg[u]) - (Left(u) - 1) \div 2 + IF Awaiting(u) /\ ~ctl[c].usr THEN 1 ELSE 0
      /\ Had(u)' = Exchanges(arg[u]) - (Left(u) - 1) \div 2 + IF Awaiting(u) /\ ~ctl'[c].usr THEN 1 ELSE 0
  BY <1>0, <1>4, <1>5 DEF Had
<1>7. Answering(u) /\ Awaiting(u) => Holding(u)  BY <1>2 DEF Answering, Awaiting, Holding
<1>8. Answering(u) => Len(reply[u]) = Had(u)  BY DEF Answered, Answering
<1>9. ~Answering(u) => reply[u] = <<>>  BY DEF Answered, Answering
<1>10. CASE Complete(c) /\ ctl[c].owner = u
  <2>1. /\ Holding(u) /\ Awaiting(u) /\ ctl[c].usr /\ ~ctl'[c].usr
        /\ \E a \in Slaves \cup {None} : reply' = [reply EXCEPT ![u] = Append(reply[u], a)]
    BY <1>10, EndingDoes
  <2>2. Len(reply'[u]) = Len(reply[u]) + 1
    <3>1. PICK a \in Slaves \cup {None} : reply' = [reply EXCEPT ![u] = Append(reply[u], a)]  BY <2>1
    <3>2. reply'[u] = Append(reply[u], a) /\ reply[u] \in Seq(Slaves \cup {None})  BY <3>1 DEF MessageTypes
    <3> QED  BY <3>2
  <2>3. Answering(u)  BY <2>1 DEF Holding, Answering
  <2>4. Had(u)' = Had(u) + 1  BY <1>2, <1>6, <2>1
  <2> QED  BY <1>3, <1>8, <2>2, <2>3, <2>4
<1>11. CASE ~(Complete(c) /\ ctl[c].owner = u)
  <2>1. ~\E d \in Controllers : Complete(d) /\ ctl[d].owner = u
    <3>1. SUFFICES ASSUME NEW d \in Controllers, Complete(d), ctl[d].owner = u PROVE FALSE  OBVIOUS
    <3>2. NumOf[on[u]] = d  BY <3>1, EndingDoes
    <3> QED  BY <1>5, <1>11, <3>1, <3>2
  <2>2. reply'[u] = reply[u]  BY <1>1, <2>1, ReplyNext
  <2>3. Holding(u) => ctl'[c].usr = ctl[c].usr
    <3>1. Holding(u) => ctl[c].owner = u  BY <1>5 DEF Locks
    <3> QED  BY <1>1, <1>5, <1>11, <3>1, LineNext
  <2>4. Answering(u) => Had(u)' = Had(u)  BY <1>2, <1>6, <1>7, <2>3
  <2> QED  BY <1>3, <1>8, <1>9, <2>2, <2>4
<1> QED  BY <1>10, <1>11

LEMMA AnswersTurn ==
  ASSUME CallInv, CallInv', DeviceTypes, Locks, MessageTypes, Answered, NEW u \in Tasks, Turns(u)
  PROVE  IF Answering(u)' THEN Len(reply'[u]) = Had(u)' ELSE reply'[u] = <<>>
<1>1. /\ on[u] \in Objects /\ arg[u] \in Sizes /\ Exchanges(arg[u]) \in Nat /\ Left(u) \in Nat \ {0}
      /\ Left(u)' = Left(u) - 1 /\ OthersStay(u) /\ bus' = bus /\ Kind(u) = "deselect"
      /\ Left(u) = 1 => Kind(u)' = "idle"
      /\ Left(u) # 1 => Kind(u)' = "deselect" /\ on'[u] = on[u] /\ arg'[u] = arg[u]
  BY TurnDoes DEF Turns
<1>2. CASE Left(u) = 1
  <2>1. reply' = [reply EXCEPT ![u] = <<>>]  BY <1>2, TurnReply
  <2>2. reply'[u] = <<>>  BY <2>1 DEF MessageTypes
  <2>3. ~Answering(u)'  BY <1>1, <1>2 DEF Answering
  <2> QED  BY <2>2, <2>3
<1>3. CASE Left(u) # 1
  <2>0. PICK c \in Controllers : c = NumOf[on[u]]  BY <1>1, PinTypes
  <2>1. reply' = reply  BY <1>3, TurnReply
  <2>2. Kind(u)' = "deselect" /\ on'[u] = on[u] /\ arg'[u] = arg[u]  BY <1>1, <1>3
  <2>3. /\ Had(u)  = Exchanges(arg[u]) - (Left(u) - 1) \div 2
                     + IF Left(u) > 2 /\ Left(u) % 2 = 1 /\ ~ctl[c].usr THEN 1 ELSE 0
        /\ Had(u)' = Exchanges(arg[u]) - (Left(u) - 2) \div 2
                     + IF Left(u) > 3 /\ Left(u) % 2 = 0 /\ ~ctl'[c].usr THEN 1 ELSE 0
    <3>1. Had(u)  = Exchanges(arg[u]) - (Left(u) - 1) \div 2
                     + IF Awaiting(u) /\ ~ctl[c].usr THEN 1 ELSE 0
      BY <2>0 DEF Had
    <3>2. Had(u)' = Exchanges(arg[u]) - (Left(u)' - 1) \div 2
                     + IF Awaiting(u)' /\ ~ctl'[c].usr THEN 1 ELSE 0
      BY <2>0, <2>2 DEF Had
    <3>3. Awaiting(u)' <=> Left(u) > 3 /\ Left(u) % 2 = 0  BY <1>1 DEF Awaiting
    <3>4. Left(u)' - 1 = Left(u) - 2  BY <1>1
    <3> QED  BY <3>1, <3>2, <3>3, <3>4 DEF Awaiting
  <2>4. Answering(u) <=> bus[on[u]].spi /\ Left(u) <= 2 * Exchanges(arg[u]) + 2  BY <1>1 DEF Answering
  <2>5. Answering(u)' <=> bus[on[u]].spi /\ Left(u) <= 2 * Exchanges(arg[u]) + 3  BY <1>1, <2>2 DEF Answering
  <2>6. Answering(u) => Len(reply[u]) = Had(u)  BY DEF Answered, Answering
  <2>7. ~Answering(u) => reply[u] = <<>>  BY DEF Answered, Answering
  <2>8. CASE ~bus[on[u]].spi  BY <2>1, <2>4, <2>5, <2>7, <2>8
  <2>9. CASE bus[on[u]].spi /\ Left(u) = 2 * Exchanges(arg[u]) + 4
    <3>1. ~Answering(u) /\ ~Answering(u)'  BY <1>1, <2>4, <2>5, <2>9
    <3> QED  BY <2>1, <2>7, <3>1
  <2>10. CASE bus[on[u]].spi /\ Left(u) = 2 * Exchanges(arg[u]) + 3
    <3>1. ~Answering(u) /\ Answering(u)'
      <4>1. ~(Left(u) <= 2 * Exchanges(arg[u]) + 2) /\ Left(u) <= 2 * Exchanges(arg[u]) + 3  BY <1>1, <2>10
      <4> QED  BY <2>4, <2>5, <2>10, <4>1
    <3>2. Had(u)' = 0
      <4>0. \A n \in Nat : (2 * n + 1) \div 2 = n /\ (2 * n + 3) % 2 = 1  OBVIOUS
      <4>1. Left(u) - 2 = 2 * Exchanges(arg[u]) + 1 /\ Left(u) = 2 * Exchanges(arg[u]) + 3  BY <1>1, <2>10
      <4>2. (Left(u) - 2) \div 2 = Exchanges(arg[u]) /\ Left(u) % 2 = 1  BY <1>1, <4>0, <4>1
      <4> QED  BY <1>1, <2>3, <4>2
    <3> QED  BY <2>1, <2>7, <3>1, <3>2
  <2>11. CASE bus[on[u]].spi /\ Left(u) = 2
    <3>1. Answering(u) /\ Answering(u)'  BY <1>1, <2>4, <2>5, <2>11
    <3>2. Had(u)' = Had(u)  BY <1>1, <2>3, <2>11
    <3> QED  BY <2>1, <2>6, <3>1, <3>2
  <2>12. CASE bus[on[u]].spi /\ Launch(u) /\ Left(u) \in 3..(2 * Exchanges(arg[u]) + 2) /\ Left(u) % 2 = 0
    <3>1. Answering(u) /\ Answering(u)'  BY <1>1, <2>4, <2>5, <2>12
    <3>2. ctl'[c].usr
      <4>1. ctl' = [ctl EXCEPT ![c].usr = TRUE]  BY <2>0, <2>12 DEF Launch, Num
      <4>2. CtlTypes  BY DEF DeviceTypes
      <4> QED  BY <4>1, <4>2 DEF CtlTypes
    <3>3. (Left(u) - 1) \div 2 = (Left(u) - 2) \div 2  BY <1>1, <2>12
    <3>4. Had(u)' = Had(u)  BY <1>1, <2>3, <2>12, <3>2, <3>3
    <3> QED  BY <2>1, <2>6, <3>1, <3>4
  <2>13. CASE bus[on[u]].spi /\ Await(u) /\ Left(u) \in 3..(2 * Exchanges(arg[u]) + 2) /\ Left(u) % 2 = 1
    <3>1. Answering(u) /\ Answering(u)'  BY <1>1, <2>4, <2>5, <2>13
    <3>2. ~ctl[c].usr  BY <2>0, <2>13 DEF Await, Num
    <3>3. (Left(u) - 1) \div 2 = (Left(u) - 2) \div 2 + 1  BY <1>1, <2>13
    <3>4. (Left(u) - 2) \div 2 \in Int  BY <1>1
    <3>5. Had(u)' = Had(u)  BY <1>1, <2>3, <2>13, <3>2, <3>3, <3>4
    <3> QED  BY <2>1, <2>6, <3>1, <3>5
  <2> QED  BY <1>3, <2>8, <2>9, <2>10, <2>11, <2>12, <2>13, TurnDoes
<1> QED  BY <1>2, <1>3

LEMMA AnsweredNext ==
  ASSUME CallInv, CallInv', DeviceTypes, Locks, MessageTypes, Answered, [Next]_vars
  PROVE  Answered'
<1> SUFFICES ASSUME NEW u \in Tasks
             PROVE  IF Answering(u)' THEN Len(reply'[u]) = Had(u)' ELSE reply'[u] = <<>>
  BY DEF Answered, Answering
<1>1. CASE Turns(u)  BY <1>1, AnswersTurn
<1>2. CASE Rests(u)  BY <1>2, AnswersRest
<1>3. CASE Begins(u)
  <2>1. /\ Kind(u) = "idle" /\ arg'[u] \in Sizes /\ reply' = reply
        /\ Left(u)' = IF bus'[on'[u]].spi THEN 2 * Exchanges(arg'[u]) + 4 ELSE 2
    BY <1>3, BeginDoes DEF wire
  <2>2. Exchanges(arg'[u]) \in Nat  BY <2>1, SizesNat, ExchangesType
  <2>3. ~Answering(u)'  BY <2>1, <2>2 DEF Answering
  <2>4. reply[u] = <<>>  BY <2>1 DEF Answered
  <2> QED  BY <2>1, <2>3, <2>4
<1>4. CASE Kind(u) # "deselect" /\ Kind(u)' # "deselect"
  <2>1. ~Turns(u)  BY <1>4 DEF Turns
  <2>2. ~\E c \in Controllers : Complete(c) /\ ctl[c].owner = u
    <3>1. SUFFICES ASSUME NEW c \in Controllers, Complete(c), ctl[c].owner = u PROVE FALSE  OBVIOUS
    <3>2. Holding(u)  BY <3>1, EndingDoes
    <3> QED  BY <1>4, <3>2 DEF Holding
  <2>3. reply'[u] = reply[u]  BY <2>1, <2>2, ReplyNext
  <2>4. reply[u] = <<>>  BY <1>4 DEF Answered
  <2> QED  BY <1>4, <2>3, <2>4 DEF Answering
<1> QED  BY <1>1, <1>2, <1>3, <1>4, MessageNext

\* What a turn does to its slave and to what is recorded of overlaps.
LEMMA TurnHeard ==
  ASSUME CallInv, NEW t \in Tasks, Turns(t), NEW s \in Slaves, s = SlaveOf[t][on[t]]
  PROVE  \/ /\ Left(t) = 1 /\ low' = low \ {s} /\ heard' = [heard EXCEPT ![s] = <<>>] /\ upset' = upset \ {t}
         \/ /\ Left(t) = IF bus[on[t]].spi THEN 2 * Exchanges(arg[t]) + 4 ELSE 2
            /\ low' = low \cup {s} /\ heard' = [heard EXCEPT ![s] = <<>>] /\ upset' = upset
         \/ /\ Left(t) # IF bus[on[t]].spi THEN 2 * Exchanges(arg[t]) + 4 ELSE 2
            /\ Left(t) # 1 /\ low' = low /\ heard' = heard /\ upset' = upset
<1>1. CASE At(t, "deselect") /\ ChipSelect(t) /\ Left(t) = 1
  BY <1>1 DEF ChipSelect, At
<1>2. CASE At(t, "select") /\ ChipSelect(t) /\ Left(t) = IF bus[on[t]].spi THEN 2 * Exchanges(arg[t]) + 4 ELSE 2
  <2>1. ~At(t, "deselect")  BY <1>2 DEF At
  <2> QED  BY <1>2, <2>1 DEF ChipSelect
<1>3. CASE TransferLock(t) \/ Launch(t) \/ Await(t)
  <2>1. low' = low /\ heard' = heard /\ upset' = upset
    BY <1>3 DEF TransferLock, Launch, Await, wire, seen
  <2>2. ~(At(t, "select") \/ At(t, "deselect"))  BY <1>3 DEF TransferLock, Launch, Await, At
  <2>3. /\ At(t, "deselect") <=> Left(t) = 1
        /\ At(t, "select") <=> Left(t) = IF bus[on[t]].spi THEN 2 * Exchanges(arg[t]) + 4 ELSE 2
    BY Turn DEF CallInv, Turns
  <2> QED  BY <2>1, <2>2, <2>3
<1> QED  BY <1>1, <1>2, <1>3, TurnDoes

LEMMA EndingHeard ==
  ASSUME NEW c \in Controllers, Complete(c), NEW t, t = ctl[c].owner
  PROVE  heard' = [s \in Slaves |-> IF s \in Listeners(c) /\ Len(heard[s]) <= Longest
                                      THEN Append(heard[s], [from |-> t, n |-> Len(reply[t]) + 1]) ELSE heard[s]]
BY DEF Complete

\* The exchange that is on the wire is one of its message's.
LEMMA PartNumber ==
  ASSUME CallInv, DeviceTypes, Locks, Answered, NEW t \in Tasks, Holding(t), Awaiting(t), ctl[NumOf[on[t]]].usr
  PROVE  Len(reply[t]) \in Nat /\ Len(reply[t]) + 1 \in Chunks /\ Len(reply[t]) + 1 <= Exchanges(arg[t])
         /\ Exchanges(arg[t]) \in Chunks
<1> DEFINE N == Exchanges(arg[t])
<1>1. Kind(t) = "deselect" /\ bus[on[t]].spi /\ Left(t) \in 2..(2 * N + 2)  BY DEF Holding
<1>2. arg[t] \in Sizes  BY <1>1 DEF CallInv, Calls
<1>3. arg[t] \in Nat /\ arg[t] <= 64 * Longest /\ N \in Nat /\ 64 * N <= arg[t] + 63  BY <1>2, SizesNat, ExchangesType
<1>4. Left(t) \in Nat  BY LeftBounds
<1>5. Len(reply[t]) = N - (Left(t) - 1) \div 2
  <2>1. Len(reply[t]) = Had(t)  BY <1>1, <1>3, <1>4 DEF Answered
  <2>2. Had(t) = N - (Left(t) - 1) \div 2 + 0  BY DEF Had
  <2>3. (Left(t) - 1) \div 2 \in Int  BY <1>4
  <2> HIDE DEF N
  <2> QED  BY <1>3, <2>1, <2>2, <2>3
<1>6. (Left(t) - 1) \div 2 \in 1..N
  <2>1. Left(t) > 2  BY DEF Awaiting
  <2> HIDE DEF N
  <2> QED  BY <1>1, <1>3, <1>4, <2>1
<1> HIDE DEF N
<1>7. Len(reply[t]) \in Nat /\ Len(reply[t]) + 1 <= N  BY <1>3, <1>5, <1>6
<1>8. ASSUME NEW i \in Nat, i <= N PROVE i \in Chunks
  <2>1. i <= Longest  BY <1>3, <1>8, BoundAssumption
  <2> QED  BY <2>1, BoundAssumption DEF Chunks
<1>9. Len(reply[t]) + 1 \in Chunks /\ N \in Chunks  BY <1>3, <1>7, <1>8
<1> QED  BY <1>7, <1>9 DEF N

LEMMA Clears ==
  ASSUME NEW S, NEW T, NEW f \in [S -> Seq(T)], NEW s \in S
  PROVE  [f EXCEPT ![s] = <<>>] \in [S -> Seq(T)]
<1>1. <<>> \in Seq(T)  OBVIOUS
<1> QED  BY <1>1

LEMMA Appends ==
  ASSUME NEW T, NEW q \in Seq(T), NEW x \in T
  PROVE  Append(q, x) \in Seq(T)
OBVIOUS

LEMMA TypesOfMessages ==
  ASSUME CallInv, DeviceTypes, Locks, Answered, MessageTypes, [Next]_vars
  PROVE  MessageTypes'
<1>1. ASSUME NEW t \in Tasks, Turns(t) PROVE MessageTypes'
  <2>1. on[t] \in Objects  BY <1>1, TurnDoes
  <2>2. PICK s \in Slaves : s = SlaveOf[t][on[t]]  BY <2>1, SlaveAssumption
  <2>3. heard' = heard \/ heard' = [heard EXCEPT ![s] = <<>>]  BY <1>1, <2>2, TurnHeard
  <2>4. reply' = reply \/ reply' = [reply EXCEPT ![t] = <<>>]  BY <1>1, TurnReply
  <2>5. heard' \in [Slaves -> Seq([from : Tasks, n : Chunks])]
    <3>1. heard \in [Slaves -> Seq([from : Tasks, n : Chunks])]  BY DEF MessageTypes
    <3>2. [heard EXCEPT ![s] = <<>>] \in [Slaves -> Seq([from : Tasks, n : Chunks])]
      BY ONLY <2>2, <3>1, Clears
    <3> QED  BY ONLY <2>3, <3>1, <3>2
  <2>6. reply' \in [Tasks -> Seq(Slaves \cup {None})]
    <3>1. reply \in [Tasks -> Seq(Slaves \cup {None})]  BY DEF MessageTypes
    <3>2. [reply EXCEPT ![t] = <<>>] \in [Tasks -> Seq(Slaves \cup {None})]
      BY ONLY <1>1, <3>1, Clears
    <3> QED  BY ONLY <2>4, <3>1, <3>2
  <2> QED  BY <2>5, <2>6 DEF MessageTypes
<1>2. ASSUME NEW c \in Controllers, Complete(c) PROVE MessageTypes'
  <2>0. ctl[c].usr  BY <1>2, CompleteFrame
  <2>1. PICK t \in Tasks : t = ctl[c].owner  BY <2>0 DEF Locks
  <2>2. /\ Holding(t) /\ Awaiting(t) /\ NumOf[on[t]] = c
        /\ \E a \in Slaves \cup {None} : reply' = [reply EXCEPT ![t] = Append(reply[t], a)]
    BY <1>2, <2>1, EndingDoes
  <2>3. PICK x \in [from : Tasks, n : Chunks] : x = [from |-> t, n |-> Len(reply[t]) + 1]
    BY <2>0, <2>2, PartNumber
  <2>4. heard' = [s \in Slaves |-> IF s \in Listeners(c) /\ Len(heard[s]) <= Longest
                                     THEN Append(heard[s], x) ELSE heard[s]]
    BY <1>2, <2>1, <2>3, EndingHeard
  <2>5. heard' \in [Slaves -> Seq([from : Tasks, n : Chunks])]
    <3>1. ASSUME NEW s \in Slaves PROVE heard'[s] \in Seq([from : Tasks, n : Chunks])
      <4>1. heard[s] \in Seq([from : Tasks, n : Chunks])  BY DEF MessageTypes
      <4>2. heard'[s] = Append(heard[s], x) \/ heard'[s] = heard[s]  BY <2>4
      <4> QED  BY <4>1, <4>2, Appends
    <3> QED  BY <2>4, <3>1
  <2>6. reply' \in [Tasks -> Seq(Slaves \cup {None})]
    <3>1. PICK a \in Slaves \cup {None} : reply' = [reply EXCEPT ![t] = Append(reply[t], a)]  BY <2>2
    <3>2. reply[t] \in Seq(Slaves \cup {None})  BY DEF MessageTypes
    <3>3. Append(reply[t], a) \in Seq(Slaves \cup {None})  BY <3>2
    <3> QED  BY <3>1, <3>3 DEF MessageTypes
  <2> QED  BY <2>5, <2>6 DEF MessageTypes
<1>3. CASE ~Endings /\ \A t \in Tasks : ~Turns(t)  BY <1>3, WireStays DEF MessageTypes
<1> QED  BY <1>1, <1>2, <1>3 DEF Endings

-----------------------------------------------------------------------------
(* Overlaps and selects.                                                   *)

\* A message before a step is the message after it, unless it ends.
LEMMA StillMessage ==
  ASSUME CallInv, [Next]_vars, NEW u \in Tasks, Kind(u) = "deselect"
  PROVE  \/ Kind(u)' = "deselect" /\ on'[u] = on[u] /\ arg'[u] = arg[u] /\ ~(Turns(u) /\ Left(u) = 1)
         \/ Turns(u) /\ Left(u) = 1 /\ Kind(u)' = "idle"
<1>1. CASE Turns(u)  BY <1>1, TurnDoes
<1>2. CASE Rests(u)
  <2>1. ~(Turns(u) /\ Left(u) = 1)
    <3>1. Kind(u)' # "idle"  BY <1>2 DEF Rests
    <3> QED  BY <3>1, TurnDoes
  <2> QED  BY <1>2, <2>1 DEF Rests
<1>3. ~Begins(u)  BY BeginDoes
<1> QED  BY <1>1, <1>2, <1>3, MessageNext

LEMMA UpsetNext ==
  ASSUME CallInv, DeviceTypes, [Next]_vars, NEW u \in upset, ~(Turns(u) /\ Left(u) = 1)
  PROVE  u \in upset'
<1>1. ASSUME NEW t \in Tasks, Turns(t) PROVE u \in upset'
  <2>1. on[t] \in Objects  BY <1>1, TurnDoes
  <2>2. PICK s \in Slaves : s = SlaveOf[t][on[t]]  BY <2>1, SlaveAssumption
  <2>3. upset' = upset \/ (Left(t) = 1 /\ upset' = upset \ {t})  BY <1>1, <2>2, TurnHeard
  <2> QED  BY <1>1, <2>3
<1>2. ASSUME NEW c \in Controllers, Complete(c) PROVE u \in upset'
  BY <1>2, CompleteFrame DEF seen
<1>3. CASE ~Endings /\ \A t \in Tasks : ~Turns(t)  BY <1>3, WireStays
<1> QED  BY <1>1, <1>2, <1>3 DEF Endings

LEMMA AloneNext ==
  ASSUME CallInv, DeviceTypes, Alone, [Next]_vars
  PROVE  Alone'
<1> SUFFICES ASSUME NEW t \in Tasks, NEW u \in Tasks, t # u, Kind(t)' = "deselect", Kind(u)' = "deselect",
                    NumOf[on'[t]] = NumOf[on'[u]]
             PROVE  t \in upset'
  BY DEF Alone
<1>1. ASSUME NEW v \in Tasks, NEW w \in Tasks, v # w, Kind(v)' = "deselect", Kind(w)' = "deselect",
             NumOf[on'[v]] = NumOf[on'[w]], Begins(v)
      PROVE  v \in upset' /\ w \in upset'
  <2>1. PICK o \in Objects, n \in Sizes : transfer(v, o, n)  BY <1>1 DEF Begins
  <2>2. Entered(v, o, n, "deselect") /\ OthersStay(v)  BY <2>1, TransferDoes
  <2>3. on'[v] = o /\ Kind(w)' = Kind(w) /\ on'[w] = on[w]  BY <1>1, <2>2 DEF Entered, OthersStay
  <2>4. Messaging(w) /\ NumOf[on[w]] = NumOf[o]  BY <1>1, <2>3, Ahead DEF CallInv
  <2> DEFINE rivals == {x \in Tasks : Messaging(x) /\ NumOf[on[x]] = NumOf[o]}
  <2>5. w \in rivals  BY <2>4
  <2>6. upset' = IF rivals = {} THEN upset ELSE upset \cup {v} \cup rivals  BY <2>1 DEF transfer
  <2> HIDE DEF rivals
  <2> QED  BY <2>5, <2>6
<1>2. CASE Begins(t) \/ Begins(u)  BY <1>1, <1>2
<1>3. CASE ~Begins(t) /\ ~Begins(u)
  <2>1. ASSUME NEW v \in Tasks, Kind(v)' = "deselect", ~Begins(v)
        PROVE  Kind(v) = "deselect" /\ on'[v] = on[v] /\ ~(Turns(v) /\ Left(v) = 1)
    <3>1. Kind(v) = "deselect"  BY <2>1, MessageNext DEF Turns, Rests
    <3> QED  BY <2>1, <3>1, StillMessage
  <2>2. t \in upset  BY <1>3, <2>1 DEF Alone
  <2> QED  BY <1>3, <2>1, <2>2, UpsetNext
<1> QED  BY <1>2, <1>3

\* SelectedInMessage, in terms of the calls.
Selected == \A s \in low : \E t \in Tasks : Kind(t) = "deselect" /\ SlaveOf[t][on[t]] = s

LEMMA SelectedNext ==
  ASSUME CallInv, DeviceTypes, Selected, [Next]_vars
  PROVE  Selected'
<1> SUFFICES ASSUME NEW s \in low'
             PROVE  \E t \in Tasks : Kind(t)' = "deselect" /\ SlaveOf[t][on'[t]] = s
  BY DEF Selected
<1>1. CASE s \in low
  <2>1. PICK u \in Tasks : Kind(u) = "deselect" /\ SlaveOf[u][on[u]] = s  BY <1>1 DEF Selected
  <2>2. ~(Turns(u) /\ Left(u) = 1)
    <3>1. SUFFICES ASSUME Turns(u), Left(u) = 1 PROVE FALSE  OBVIOUS
    <3>2. /\ arg[u] \in Sizes /\ Exchanges(arg[u]) \in Nat  BY <3>1, TurnDoes
    <3>3. s \in Slaves  BY <1>1 DEF DeviceTypes
    <3>4. low' = low \ {s}  BY <2>1, <3>1, <3>2, <3>3, TurnHeard
    <3> QED  BY <3>4
  <2>3. Kind(u)' = "deselect" /\ on'[u] = on[u]  BY <2>1, <2>2, StillMessage
  <2> QED  BY <2>1, <2>3
<1>2. CASE s \notin low
  <2>1. ASSUME NEW t \in Tasks, Turns(t)
        PROVE  \E u \in Tasks : Kind(u)' = "deselect" /\ SlaveOf[u][on'[u]] = s
    <3>1. on[t] \in Objects /\ Exchanges(arg[t]) \in Nat  BY <2>1, TurnDoes
    <3>2. PICK x \in Slaves : x = SlaveOf[t][on[t]]  BY <3>1, SlaveAssumption
    <3>3. s = x /\ Left(t) = IF bus[on[t]].spi THEN 2 * Exchanges(arg[t]) + 4 ELSE 2
      BY <1>2, <2>1, <3>2, TurnHeard
    <3>4. Left(t) # 1  BY <3>1, <3>3
    <3>5. Kind(t)' = "deselect" /\ on'[t] = on[t]  BY <2>1, <3>4, TurnDoes
    <3> QED  BY <3>2, <3>3, <3>5
  <2>2. ASSUME NEW c \in Controllers, Complete(c) PROVE FALSE
    BY <1>2, <2>2, CompleteFrame
  <2>3. CASE ~Endings /\ \A t \in Tasks : ~Turns(t)  BY <1>2, <2>3, WireStays
  <2> QED  BY <2>1, <2>2, <2>3 DEF Endings
<1> QED  BY <1>1, <1>2

-----------------------------------------------------------------------------
(* Whole messages.                                                         *)

LEMMA HeardNone ==
  ASSUME NEW t, NEW s
  PROVE  Heard(t, 0) = <<>> /\ Replies(s, 0) = <<>>
BY DEF Heard, Replies

LEMMA HeardMore ==
  ASSUME NEW t, NEW s, NEW k \in Nat
  PROVE  /\ Append(Heard(t, k), [from |-> t, n |-> k + 1]) = Heard(t, k + 1)
         /\ Append(Replies(s, k), s) = Replies(s, k + 1)
         /\ Len(Heard(t, k)) = k /\ Len(Replies(s, k)) = k
<1> DEFINE part(i) == [from |-> t, n |-> i]
           p(m)    == [i \in 1..m |-> part(i)]
           S       == {part(i) : i \in 1..(k + 1)}
<1>1. \A i \in 1..(k + 1) : part(i) \in S  OBVIOUS
<1> HIDE DEF part, S
<1>2. p(k) \in Seq(S) /\ Len(p(k)) = k  BY <1>1
<1>3. Append(p(k), part(k + 1)) = p(k + 1)  BY <1>1, <1>2
<1>4. Replies(s, k) \in Seq({s}) /\ Len(Replies(s, k)) = k  BY DEF Replies
<1>5. Append(Replies(s, k), s) = Replies(s, k + 1)  BY <1>4 DEF Replies
<1> QED  BY <1>2, <1>3, <1>4, <1>5 DEF Heard, part

\* The pins of objects tell their controllers apart.
LEMMA PinTells ==
  ASSUME NEW o \in Objects, NEW x \in Objects, NEW p, p \in PinsOf(o), p \in PinsOf(x)
  PROVE  NumOf[o] = NumOf[x]
<1>1. PinsOf(o) \cap PinsOf(x) # {}  OBVIOUS
<1> QED  BY <1>1, WiringAssumption

LEMMA WiredTo ==
  ASSUME NEW t \in Tasks, NEW o \in Objects, NEW s, s = SlaveOf[t][o]
  PROVE  /\ Wires[s].sck = Pin(o, "sck") /\ Wires[s].miso = Pin(o, "miso") /\ Wires[s].mosi = Pin(o, "mosi")
         /\ s \in Slaves
<1>1. "sck" \in Signals /\ "miso" \in Signals /\ "mosi" \in Signals  BY DEF Signals
<1>2. \A sig \in Signals : Wires[s][sig] = Pin(o, sig)  BY WiringAssumption
<1>3. s \in Slaves  BY SlaveAssumption
<1> QED  BY <1>1, <1>2, <1>3

\* A controller whose one object is made is running.
LEMMA Running ==
  ASSUME CallInv, Configured, Clocked, NEW o \in Objects, Sole(o), bus[o].state = "made",
         NumOf[o] \notin raced
  PROVE  Runs(NumOf[o])
<1>1. ClockedFor(o) /\ ConfiguredBy(o)  BY DEF Clocked, Configured
<1>2. Within(o, 9) /\ Within(o, 7)  BY DEF Within
<1>3. Built(o, 4) /\ Built(o, 5)  BY DEF Built
<1>4. ctl[NumOf[o]].clk = IF Changing(o, 1) THEN DivOf[arg[OwnerOf[o]]] ELSE bus[o].div
  BY <1>1, <1>3 DEF ConfiguredBy
<1>5. Changing(o, 1) => arg[OwnerOf[o]] \in Freqs  BY PlaceFacts DEF Changing
<1>6. bus[o].div \in {DivOf[f] : f \in Freqs}  BY DEF CallInv, CallTypes
<1>7. ctl[NumOf[o]].clk # 0  BY <1>4, <1>5, <1>6, FreqAssumption
<1> QED  BY <1>1, <1>2, <1>3, <1>7 DEF ClockedFor, ConfiguredBy, Runs

\* A clean message's slave listens to its controller alone, and alone answers there.
LEMMA Listening ==
  ASSUME CallInv, DeviceTypes, Configured, Clocked, Attachments, Alone, Selected,
         NEW u \in Tasks, Clean(u), NEW s, s = SlaveOf[u][on[u]], s \in low,
         NEW c \in Controllers
  PROVE  /\ s \in Listeners(c) => c = NumOf[on[u]]
         /\ c = NumOf[on[u]] => s \in Listeners(c) /\ Answers(c) = {s}
<1>0. PICK o \in Objects : o = on[u]  BY LeftBounds DEF Clean
<1>1. Sole(o) /\ NumOf[o] \notin raced /\ Kind(u) = "deselect" /\ u \notin upset
  BY <1>0 DEF Clean, Sole
<1>2. bus[o].state = "made"  BY <1>0, <1>1 DEF CallInv, Calls
<1>3. /\ Wires[s].sck = Pin(o, "sck") /\ Wires[s].miso = Pin(o, "miso") /\ Wires[s].mosi = Pin(o, "mosi")
  BY <1>0, WiredTo
<1>4. /\ pins[Pin(o, "sck")] = Driver(NumOf[o], "sck") /\ pins[Pin(o, "mosi")] = Driver(NumOf[o], "mosi")
      /\ miso[NumOf[o]] = Pin(o, "miso") /\ pins[Pin(o, "miso")].dir = "in"
  <2>1. Built(o, 1) /\ Built(o, 2) /\ Built(o, 3)  BY <1>2 DEF Built
  <2> QED  BY <1>1, <2>1 DEF Attachments, AttachedTo
<1>5. ASSUME s \in Listeners(c) PROVE c = NumOf[o]
  <2>1. pins[Pin(o, "sck")] = [dir |-> "out", signal |-> [num |-> c, sig |-> "sck"]]
    BY <1>3, <1>5 DEF Listeners, DrivenBy
  <2>2. pins[Pin(o, "sck")].signal.num = c /\ pins[Pin(o, "sck")].signal.num = NumOf[o]
    BY <1>4, <2>1 DEF Driver
  <2> QED  BY <2>2
<1>6. ASSUME c = NumOf[o] PROVE s \in Listeners(c) /\ Answers(c) = {s}
  <2>1. Runs(c)  BY <1>1, <1>2, <1>6, Running
  <2>2. s \in Listeners(c)  BY <1>3, <1>4, <1>6, <2>1 DEF Listeners, DrivenBy, Driver
  <2>3. s \in Answers(c)  BY <1>3, <1>4, <1>6, <2>2 DEF Answers
  <2>4. ASSUME NEW z \in Answers(c) PROVE z = s
    <3>1. z \in low /\ miso[c] = Wires[z].miso  BY <2>4 DEF Answers, Listeners
    <3>2. PICK v \in Tasks : Kind(v) = "deselect" /\ SlaveOf[v][on[v]] = z  BY <3>1 DEF Selected
    <3>3. PICK x \in Objects : x = on[v]  BY <3>2, LeftBounds
    <3>4. Wires[z].miso = Pin(x, "miso")  BY <3>2, <3>3, WiredTo
    <3>5. Pin(o, "miso") = Pin(x, "miso")  BY <1>4, <1>6, <3>1, <3>4
    <3>6. NumOf[o] = NumOf[x]  BY <3>5, PinTypes, PinTells
    <3>7. v = u  BY <1>0, <1>1, <3>2, <3>3, <3>6 DEF Alone
    <3> QED  BY <3>2, <3>7
  <2> QED  BY <2>2, <2>3, <2>4
<1> QED  BY <1>0, <1>5, <1>6

\* What has been recorded of an object in use stays.
LEMMA SharedKept ==
  ASSUME CallInv, [Next]_vars, NEW o \in Objects, bus[o].state = "made", o \in shared
  PROVE  o \in shared'
<1>1. ASSUME NEW t \in Tasks, NEW x \in Objects, New(t, x) PROVE o \in shared'
  <2>1. x # o  BY <1>1 DEF New
  <2> QED  BY <1>1, <2>1 DEF New
<1>2. ASSUME NEW t \in Tasks, NEW x \in Objects,
             \/ Delete(t, x) \/ \E f \in Freqs : setFrequency(t, x, f)
             \/ \E n \in Sizes : transfer(t, x, n)
      PROVE  o \in shared'
  BY <1>2 DEF Delete, setFrequency, transfer, seen
<1>3. ASSUME NEW t \in Tasks, End(t) PROVE o \in shared'
  <2>1. \/ shared' = shared
        \/ bus[on[t]].state = "ending" /\ shared' = shared \ {on[t]}
    BY <1>3, EndDoes
  <2> QED  BY <2>1
<1>4. ASSUME NEW t \in Tasks, CreateLock(t) \/ Compare(t) \/ Store(t) PROVE o \in shared'
  BY <1>4 DEF CreateLock, Compare, Store, seen
<1>5. ASSUME NEW t \in Tasks, Plain(t) PROVE o \in shared'
  BY <1>5 DEF Plain, ReadDport, WriteDport, Section, NoSection, AttachPin, DetachPin, ChipSelect,
              TransferLock, Launch, Await, seen
<1>6. ASSUME NEW c \in Controllers, Complete(c) PROVE o \in shared'
  BY <1>6, CompleteFrame DEF seen
<1>7. CASE UNCHANGED vars  BY <1>7 DEF vars, seen
<1> QED  BY <1>1, <1>2, <1>3, <1>4, <1>5, <1>6, <1>7, NextCases

\* A message that is clean after a step was clean, or has just selected its slave.
LEMMA CleanBefore ==
  ASSUME CallInv, DeviceTypes, [Next]_vars, NEW u \in Tasks, Clean(u)'
  PROVE  /\ on'[u] = on[u] /\ on[u] \in Objects /\ arg'[u] = arg[u] /\ ~(Turns(u) /\ Left(u) = 1)
         /\ Kind(u) = "deselect" /\ bus[on[u]].spi /\ u \notin upset
         /\ Clean(u) \/ (Turns(u) /\ Left(u) = 2 * Exchanges(arg[u]) + 4)
<1>1. /\ Kind(u)' = "deselect" /\ bus'[on'[u]].spi /\ Left(u)' <= 2 * Exchanges(arg'[u]) + 3
      /\ u \notin upset' /\ on'[u] \notin shared' /\ NumOf[on'[u]] \notin raced'
  BY DEF Clean
<1>2. ~Begins(u)
  <2>1. SUFFICES ASSUME Begins(u) PROVE FALSE  OBVIOUS
  <2>2. arg'[u] \in Sizes /\ Left(u)' = 2 * Exchanges(arg'[u]) + 4  BY <1>1, <2>1, BeginDoes
  <2>3. Exchanges(arg'[u]) \in Nat  BY <2>2, SizesNat, ExchangesType
  <2> QED  BY <1>1, <2>2, <2>3
<1>3. Kind(u) = "deselect"  BY <1>1, <1>2, MessageNext DEF Turns, Rests
<1>4. on'[u] = on[u] /\ arg'[u] = arg[u] /\ ~(Turns(u) /\ Left(u) = 1)  BY <1>1, <1>3, StillMessage
<1>5. on[u] \in Objects /\ bus[on[u]].state = "made" /\ Exchanges(arg[u]) \in Nat /\ Left(u) \in Nat \ {0}
      /\ Left(u) <= IF bus[on[u]].spi THEN 2 * Exchanges(arg[u]) + 4 ELSE 2
  BY <1>3, Turn DEF CallInv, Calls
<1>6. bus[on[u]].spi  BY <1>1, <1>2, <1>3, <1>4, MessageNext, TurnDoes DEF Rests
<1>7. u \notin upset  BY <1>1, <1>4, UpsetNext
<1>8. on[u] \notin shared /\ NumOf[on[u]] \notin raced
  <2>1. PICK o \in Objects : o = on[u]  BY <1>5
  <2>2. o \notin shared  BY <1>1, <1>4, <1>5, <2>1, SharedKept
  <2>3. NumOf[o] \notin raced  BY <1>1, <1>4, <1>5, <2>1, RacedKept
  <2> QED  BY <2>1, <2>2, <2>3
<1>9. Left(u) <= 2 * Exchanges(arg[u]) + 3 \/ Left(u) = 2 * Exchanges(arg[u]) + 4
  BY <1>5, <1>6
<1>10. Left(u) = 2 * Exchanges(arg[u]) + 4 => Turns(u)
  <2>1. ~Rests(u) \/ Left(u)' = Left(u)  BY DEF Rests
  <2> QED  BY <1>1, <1>2, <1>3, <1>4, <1>5, <2>1, MessageNext
<1>11. Left(u) <= 2 * Exchanges(arg[u]) + 3 => Clean(u)  BY <1>3, <1>6, <1>7, <1>8 DEF Clean
<1> QED  BY <1>3, <1>4, <1>5, <1>6, <1>7, <1>9, <1>10, <1>11

\* What a message has heard and been answered so far.
InOrder(u, s) ==
  s \in low /\ heard[s] = Heard(u, Len(reply[u])) /\ reply[u] = Replies(s, Len(reply[u]))

LEMMA OrderSame ==
  ASSUME NEW u \in Tasks, NEW s, InOrder(u, s), s \in low', heard'[s] = heard[s], reply'[u] = reply[u]
  PROVE  InOrder(u, s)'
BY DEF InOrder, Heard, Replies

LEMMA MessagesNext ==
  ASSUME CallInv, CallInv', DeviceTypes, Configured, Clocked, Attachments, Locks, Answered, Alone,
         Selected, MessageTypes, Messages, [Next]_vars
  PROVE  Messages'
<1> SUFFICES ASSUME NEW u \in Tasks, Clean(u)', NEW s, s = SlaveOf[u][on'[u]]
             PROVE  InOrder(u, s)'
  BY DEF Messages, InOrder
<1>1. /\ on'[u] = on[u] /\ on[u] \in Objects /\ arg'[u] = arg[u] /\ ~(Turns(u) /\ Left(u) = 1)
      /\ Kind(u) = "deselect" /\ bus[on[u]].spi /\ u \notin upset
      /\ Clean(u) \/ (Turns(u) /\ Left(u) = 2 * Exchanges(arg[u]) + 4)
  BY CleanBefore
<1>2. s = SlaveOf[u][on[u]] /\ s \in Slaves  BY <1>1, SlaveAssumption
<1>3. heard \in [Slaves -> Seq([from : Tasks, n : Chunks])] /\ reply \in [Tasks -> Seq(Slaves \cup {None})]
  BY DEF MessageTypes
<1>4. Exchanges(arg[u]) \in Nat /\ Left(u) \in Nat \ {0}  BY <1>1, Turn DEF CallInv
<1>5. Clean(u) => InOrder(u, s)  BY <1>2 DEF Messages, InOrder
<1>6. CASE Turns(u) /\ Left(u) = 2 * Exchanges(arg[u]) + 4
  <2>1. low' = low \cup {s} /\ heard' = [heard EXCEPT ![s] = <<>>] /\ reply' = reply
    <3>1. Left(u) # 1  BY <1>4, <1>6
    <3> QED  BY <1>1, <1>2, <1>6, <3>1, TurnHeard, TurnReply
  <2>2. reply[u] = <<>>
    <3>1. ~(Left(u) <= 2 * Exchanges(arg[u]) + 2)  BY <1>4, <1>6
    <3> QED  BY <3>1 DEF Answered
  <2>3. heard'[s] = <<>> /\ reply'[u] = <<>> /\ Len(reply'[u]) = 0  BY <1>2, <1>3, <2>1, <2>2
  <2>4. Heard(u, Len(reply'[u])) = <<>> /\ Replies(s, Len(reply'[u])) = <<>>  BY <2>3, HeardNone
  <2>5. s \in low'  BY <2>1
  <2> QED  BY <2>3, <2>4, <2>5 DEF InOrder, Heard, Replies
<1>7. CASE Turns(u) /\ Left(u) # 2 * Exchanges(arg[u]) + 4
  <2>1. low' = low /\ heard' = heard /\ reply' = reply  BY <1>1, <1>2, <1>7, TurnHeard, TurnReply
  <2>2. s \in low  BY <1>1, <1>5, <1>7 DEF InOrder
  <2> QED  BY <1>1, <1>5, <1>7, <2>1, <2>2, OrderSame
<1>8. ASSUME ~Turns(u), NEW t \in Tasks, Turns(t) PROVE InOrder(u, s)'
  <2>1. Clean(u) /\ InOrder(u, s)  BY <1>1, <1>5, <1>8
  <2>2. on[t] \in Objects /\ Kind(t) = "deselect"  BY <1>8, TurnDoes DEF Turns
  <2>3. PICK z \in Slaves : z = SlaveOf[t][on[t]]  BY <2>2, SlaveAssumption
  <2>4. z # s
    <3>1. SUFFICES ASSUME z = s PROVE FALSE  OBVIOUS
    <3>2. PICK o \in Objects : o = on[u]  BY <1>1
    <3>6. PICK x \in Objects : x = on[t]  BY <2>2
    <3>3. Pin(o, "sck") = Pin(x, "sck")
      <4>1. SlaveOf[t][x] = s /\ SlaveOf[u][o] = s  BY <1>2, <2>3, <3>1, <3>2, <3>6
      <4>2. Wires[s].sck = Pin(x, "sck")  BY <4>1, WiredTo
      <4>3. Wires[s].sck = Pin(o, "sck")  BY <4>1, WiredTo
      <4> QED  BY <4>2, <4>3
    <3>4. NumOf[o] = NumOf[x]  BY <3>3, PinTypes, PinTells
    <3>5. t # u  BY <1>8
    <3> QED  BY <1>1, <2>2, <3>2, <3>4, <3>5, <3>6 DEF Alone
  <2>5. /\ low' = low \ {z} \/ low' = low \cup {z} \/ low' = low
        /\ heard' = heard \/ heard' = [heard EXCEPT ![z] = <<>>]
    BY <1>8, <2>3, TurnHeard
  <2>6. s \in low' /\ heard'[s] = heard[s]  BY <1>2, <1>3, <2>1, <2>4, <2>5 DEF InOrder
  <2>7. reply'[u] = reply[u]
    <3>1. reply' = reply \/ reply' = [reply EXCEPT ![t] = <<>>]  BY <1>8, TurnReply
    <3>2. u # t  BY <1>8
    <3> QED  BY <1>3, <3>1, <3>2
  <2> QED  BY <2>1, <2>6, <2>7, OrderSame
<1>9. ASSUME ~Turns(u), NEW c \in Controllers, Complete(c) PROVE InOrder(u, s)'
  <2>1. Clean(u) /\ InOrder(u, s)  BY <1>1, <1>5, <1>9
  <2>2. ctl[c].usr /\ low' = low  BY <1>9, CompleteFrame
  <2>3. PICK t \in Tasks : t = ctl[c].owner  BY <2>2 DEF Locks
  <2>4. /\ Holding(t) /\ Awaiting(t) /\ on[t] \in Objects /\ NumOf[on[t]] = c
    BY <1>9, <2>3, EndingDoes
  <2>5. heard'[s] = IF s \in Listeners(c) /\ Len(heard[s]) <= Longest
                      THEN Append(heard[s], [from |-> t, n |-> Len(reply[t]) + 1]) ELSE heard[s]
    <3>1. heard' = [z \in Slaves |-> IF z \in Listeners(c) /\ Len(heard[z]) <= Longest
                                      THEN Append(heard[z], [from |-> t, n |-> Len(reply[t]) + 1]) ELSE heard[z]]
      BY <1>9, <2>3, EndingHeard
    <3> QED  BY ONLY <1>2, <3>1
  <2>6. s \in low  BY <2>1 DEF InOrder
  <2>7. /\ s \in Listeners(c) => c = NumOf[on[u]]
        /\ c = NumOf[on[u]] => s \in Listeners(c) /\ Answers(c) = {s}
    BY <1>2, <2>1, <2>6, Listening
  <2>8. CASE c = NumOf[on[u]]
    <3>1. t = u  BY <1>1, <2>4, <2>8 DEF Alone, Holding
    <3>2. PICK k \in Nat : k = Len(reply[u]) /\ k + 1 \in Chunks
      BY <2>2, <2>4, <3>1, PartNumber
    <3>3. heard[s] = Heard(u, k) /\ reply[u] = Replies(s, k)  BY <2>1, <3>2 DEF InOrder
    <3>4. Len(heard[s]) <= Longest
      <4>1. Len(heard[s]) = k  BY <3>3, HeardMore
      <4>2. k + 1 <= Longest /\ Longest \in Nat  BY <3>2, BoundAssumption DEF Chunks
      <4> QED  BY <3>2, <4>1, <4>2
    <3>5. heard'[s] = Append(Heard(u, k), [from |-> u, n |-> k + 1])
      BY <2>5, <2>7, <2>8, <3>1, <3>2, <3>3, <3>4
    <3>6. heard'[s] = Heard(u, k + 1)  BY <3>5, HeardMore
    <3>7. reply'[u] = Append(Replies(s, k), s)
      <4>1. reply' = [reply EXCEPT ![ctl[c].owner] = Append(@, IF Cardinality(Answers(c)) = 1
                                                                THEN CHOOSE z \in Answers(c) : TRUE ELSE None)]
        BY <1>9 DEF Complete
      <4>2. Answers(c) = {s}  BY <2>7, <2>8
      <4>3. Cardinality(Answers(c)) = 1  BY <4>2, FS_Singleton
      <4>4. (CHOOSE z \in Answers(c) : TRUE) = s  BY <4>2
      <4>5. reply' = [reply EXCEPT ![u] = Append(reply[u], s)]
        BY ONLY <1>3, <2>3, <3>1, <4>1, <4>3, <4>4
      <4> QED  BY <1>3, <3>3, <4>5
    <3>8. reply'[u] = Replies(s, k + 1)  BY <3>7, HeardMore
    <3>9. Len(reply'[u]) = k + 1
      <4>1. k + 1 \in Nat  OBVIOUS
      <4> QED  BY <3>8, <4>1, HeardMore
    <3> QED  BY <2>2, <2>6, <3>6, <3>8, <3>9 DEF InOrder, Heard, Replies
  <2>9. CASE c # NumOf[on[u]]
    <3>1. heard'[s] = heard[s]  BY <2>5, <2>7, <2>9
    <3>2. reply'[u] = reply[u]
      <4>1. ~\E d \in Controllers : Complete(d) /\ ctl[d].owner = u
        <5>1. SUFFICES ASSUME NEW d \in Controllers, Complete(d), ctl[d].owner = u PROVE FALSE  OBVIOUS
        <5>2. NumOf[on[u]] = d  BY <5>1, EndingDoes
        <5>3. ctl' = [ctl EXCEPT ![d].usr = FALSE] /\ ctl' = [ctl EXCEPT ![c].usr = FALSE]
              /\ ctl[c].usr /\ ctl[d].usr
          BY <1>9, <5>1, CompleteFrame
        <5>4. CtlTypes  BY DEF DeviceTypes
        <5> QED  BY <2>9, <5>2, <5>3, <5>4 DEF CtlTypes, CtlRecords
      <4> QED  BY <1>9, <4>1, ReplyNext
    <3>3. s \in low'  BY <2>2, <2>6
    <3> QED  BY <2>1, <3>1, <3>2, <3>3, OrderSame
  <2> QED  BY <2>8, <2>9
<1>10. CASE ~Endings /\ \A t \in Tasks : ~Turns(t)
  <2>1. Clean(u) /\ InOrder(u, s)  BY <1>1, <1>5, <1>10
  <2>2. low' = low /\ heard' = heard /\ reply' = reply  BY <1>10, WireStays
  <2>3. s \in low'  BY <2>1, <2>2 DEF InOrder
  <2> QED  BY <2>1, <2>2, <2>3, OrderSame
<1> QED  BY <1>1, <1>6, <1>7, <1>8, <1>9, <1>10 DEF Endings

-----------------------------------------------------------------------------
(* The theorems.                                                           *)

Inv ==
  /\ CallInv /\ DeviceTypes /\ MessageTypes
  /\ Lone /\ Configured /\ Starts /\ Clocked /\ Attachments /\ Kept
  /\ Locks /\ Answered /\ Alone /\ Selected /\ Messages

LEMMA InvInit ==
  Init => Inv
<1> SUFFICES ASSUME Init PROVE Inv  OBVIOUS
<1>1. CallInv  BY CallInit
<1>2. \A t \in Tasks : todo[t] = <<>> /\ Kind(t) = "idle"  BY DEF Init, Kind
<1>3. \A o \in Objects : bus[o] = NoBus /\ bus[o].state = "none" /\ ~bus[o].spi  BY DEF Init, NoBus
<1>4. \A o \in Objects : ~Sole(o)  BY <1>3 DEF Sole
<1>5. DeviceTypes
  <2>1. Reset \in CtlRecords  BY DEF Reset, CtlRecords
  <2>2. [dir |-> "in", signal |-> Quiet] \in [dir : {"in", "out"}, signal : Driven \cup {Quiet}]
    OBVIOUS
  <2>3. read \in [Tasks -> SUBSET Controllers]  BY DEF Init
  <2>4. CtlTypes  BY <2>1 DEF Init, CtlTypes
  <2>5. pins \in [AllPins -> [dir : {"in", "out"}, signal : Driven \cup {Quiet}]]
    BY <2>2 DEF Init
  <2>6. miso \in [Controllers -> AllPins \cup {-1}] /\ dport \in [clk : SUBSET Controllers, rst : SUBSET Controllers]
    BY DEF Init
  <2>7. low = {} /\ shared = {} /\ upset = {} /\ raced = {}  BY DEF Init
  <2> QED  BY <2>3, <2>4, <2>5, <2>6, <2>7 DEF DeviceTypes
<1>6. MessageTypes
  <2>1. <<>> \in Seq([from : Tasks, n : Chunks]) /\ <<>> \in Seq(Slaves \cup {None})  OBVIOUS
  <2> QED  BY <2>1 DEF Init, MessageTypes
<1>7. Lone /\ Configured /\ Clocked /\ Attachments
  BY <1>3, <1>4 DEF Lone, Configured, Clocked, Attachments
<1>8. Starts /\ Alone  BY <1>2 DEF Starts, Alone
<1>9. Kept  BY DEF Init, Kept
<1>10. Locks
  <2>1. \A c \in Controllers : ctl[c].owner = None /\ ~ctl[c].usr  BY DEF Init, Reset
  <2> QED  BY <1>2, <2>1 DEF Locks, Holding
<1>11. Answered
  <2>1. \A t \in Tasks : reply[t] = <<>>  BY DEF Init
  <2> QED  BY <1>2, <2>1 DEF Answered
<1>12. Selected  BY DEF Init, Selected
<1>13. Messages  BY <1>2 DEF Messages, Clean
<1> QED  BY <1>1, <1>5, <1>6, <1>7, <1>8, <1>9, <1>10, <1>11, <1>12, <1>13 DEF Inv

LEMMA InvNext ==
  Inv /\ [Next]_vars => Inv'
<1> SUFFICES ASSUME Inv, [Next]_vars PROVE Inv'  OBVIOUS
<1> USE DEF Inv
<1>1. CallInv' /\ DeviceTypes'  BY TypesNext
<1>2. MessageTypes'  BY TypesOfMessages
<1>3. Lone'  BY LoneNext
<1>4. Configured'  BY <1>1, ConfiguredNext
<1>5. Starts'  BY <1>1, StartsNext
<1>6. Clocked'  BY <1>1, ClockedNext
<1>7. Attachments'  BY AttachmentsNext
<1>8. Kept'  BY KeptNext
<1>9. Locks'  BY LocksNext
<1>10. Answered'  BY <1>1, AnsweredNext
<1>11. Alone'  BY AloneNext
<1>12. Selected'  BY SelectedNext
<1>13. Messages'  BY <1>1, MessagesNext
<1> QED  BY <1>1, <1>2, <1>3, <1>4, <1>5, <1>6, <1>7, <1>8, <1>9, <1>10, <1>11, <1>12, <1>13

LEMMA InvHolds ==
  Spec => []Inv
BY InvInit, InvNext, PTL DEF Spec

\* The types of the objects, the driver, the pins and the messages (spibus.cpp, esp32spi.c).
THEOREM TypesHold ==
  Spec => []TypeOK
<1>1. Inv => TypeOK  BY DEF Inv, CallInv, CallTypes, DeviceTypes, CtlTypes, CtlRecords, MessageTypes, TypeOK
<1> QED  BY <1>1, InvHolds, PTL

\* A slave's select is low only while a message to it is under way, with or without a
\* controller (spibus.cpp 62-71).
THEOREM SelectsInMessages ==
  Spec => []SelectedInMessage
<1>1. Inv => SelectedInMessage
  <2> SUFFICES ASSUME Inv, NEW s \in low
               PROVE  \E t \in Tasks : Messaging(t) /\ SlaveOf[t][on[t]] = s
    BY DEF SelectedInMessage
  <2>1. PICK t \in Tasks : Kind(t) = "deselect" /\ SlaveOf[t][on[t]] = s  BY DEF Inv, Selected
  <2>2. Messaging(t)  BY <2>1, Ahead DEF Inv, CallInv
  <2> QED  BY <2>1, <2>2
<1> QED  BY <1>1, InvHolds, PTL

\* A pin that no object has is an idle input, whichever objects had it and in whatever
\* order they came and went (spibus.cpp 41-47).
THEOREM PinsReleased ==
  Spec => []Released
<1>1. Inv => Released
  <2> SUFFICES ASSUME Inv, NEW p \in AllPins,
                      \A o \in Objects : bus[o].state = "none" \/ p \notin PinsOf(o)
               PROVE  pins[p] = [dir |-> "in", signal |-> Quiet]
    BY DEF Released
  <2>1. ASSUME NEW o \in Objects, p = Pin(o, "sck") \/ p = Pin(o, "mosi") PROVE ~bus[o].spi
    <3>1. p \in PinsOf(o)  BY <2>1, PinTypes
    <3> QED  BY <3>1, PlaceFacts DEF Inv
  <2> QED  BY <2>1 DEF Inv, Kept, Detaches
<1> QED  BY <1>1, InvHolds, PTL

\* An exchange runs at the frequency that its object was last set to, whatever settings
\* were skipped because the divider was the same (spibus.cpp 49-60).
THEOREM ClockIsRight ==
  Spec => []RightClock
<1>1. Inv => RightClock
  <2> SUFFICES ASSUME Inv, NEW t \in Tasks, At(t, "await"), on[t] \notin shared,
                      ~(\E u \in Tasks : Using(u, on[t]) /\ Has(u, "div"))
               PROVE  ctl[Num(t)].clk = DivOf[bus[on[t]].frequency]
    BY DEF RightClock
  <2>1. Kind(t) = "deselect"  BY Where DEF Inv, CallInv, Control
  <2>2. on[t] \in Objects /\ bus[on[t]].spi  BY <2>1, Turn DEF Inv, CallInv
  <2>3. bus[on[t]].state = "made"  BY <2>1 DEF Inv, CallInv, Calls
  <2>4. PICK o \in Objects : o = on[t]  BY <2>2
  <2>5. ~Changing(o, 3) /\ ~Changing(o, 1)
    <3>1. SUFFICES ASSUME Place(o) # 0 PROVE FALSE  BY DEF Changing
    <3>2. PICK u \in Tasks : on[u] = o /\ Kind(u) = "div"
      BY <2>3, <2>4, <3>1, PlaceFacts DEF Inv
    <3>3. Has(u, "div") /\ todo[u] # <<>>  BY <3>2, Ahead, Here DEF Inv, CallInv
    <3> QED  BY <2>4, <3>2, <3>3 DEF Using
  <2>6. ConfiguredBy(o) /\ Built(o, 5)  BY <2>2, <2>3, <2>4 DEF Inv, Configured, Sole, Built
  <2> QED  BY <2>4, <2>5, <2>6 DEF ConfiguredBy, Num
<1> QED  BY <1>1, InvHolds, PTL

\* When a slave is deselected it has seen exactly the exchanges of its message, and the
\* replies were all its own: unless another message, object or start was about on the
\* controller (spibus.cpp 30-71, esp32spi.c 439-448 and 107-206).
THEOREM MessagesWhole ==
  Spec => []WholeMessage
<1>1. Inv => WholeMessage
  <2> SUFFICES ASSUME Inv, NEW t \in Tasks, At(t, "deselect"), bus[on[t]].spi, t \notin upset,
                      on[t] \notin shared, NumOf[on[t]] \notin raced
               PROVE  heard[SlaveOf[t][on[t]]] = Parts(t, arg[t])
                      /\ reply[t] = Answer(SlaveOf[t][on[t]], arg[t])
    BY DEF WholeMessage
  <2>1. Kind(t) = "deselect"  BY Where DEF Inv, CallInv, Control
  <2>2. Left(t) = 1 /\ Exchanges(arg[t]) \in Nat  BY <2>1, Turn DEF Inv, CallInv
  <2>3. Clean(t)  BY <2>1, <2>2 DEF Clean
  <2>4. Len(reply[t]) = Exchanges(arg[t])
    <3>1. Len(reply[t]) = Had(t)  BY <2>1, <2>2 DEF Inv, Answered
    <3>2. Had(t) = Exchanges(arg[t])  BY <2>2 DEF Had, Awaiting
    <3> QED  BY <3>1, <3>2
  <2>5. /\ heard[SlaveOf[t][on[t]]] = Heard(t, Exchanges(arg[t]))
        /\ reply[t] = Replies(SlaveOf[t][on[t]], Exchanges(arg[t]))
    BY <2>3, <2>4 DEF Inv, Messages
  <2> QED  BY <2>5 DEF Heard, Replies, Parts, Answer, Exchanges
<1> QED  BY <1>1, InvHolds, PTL
=============================================================================
