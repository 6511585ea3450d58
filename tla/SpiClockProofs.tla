--------------------------- MODULE SpiClockProofs ---------------------------
(***************************************************************************)
(* Theorems about SpiClock, for every clock, every width of the divider's  *)
(* fields and every frequency: the divider found is never too fast, and no *)
(* divider that the search could have found is closer.                     *)
(***************************************************************************)
EXTENDS SpiClock, TLAPS

-----------------------------------------------------------------------------
(* Integer division.                                                       *)

\* What a quotient is.
LEMMA Quotient ==
  ASSUME NEW a \in Nat, NEW b \in Nat \ {0}
  PROVE  a \div b \in Nat /\ b * (a \div b) <= a /\ a < b * ((a \div b) + 1)
  OBVIOUS

\* Products grow with their factors.
LEMMA Times ==
  ASSUME NEW a \in Nat, NEW b \in Nat, NEW c \in Nat, a <= b
  PROVE  a * c <= b * c /\ c * a <= c * b
  OBVIOUS

\* A quotient below a bound.
LEMMA QuotientBelow ==
  ASSUME NEW a \in Nat, NEW b \in Nat \ {0}, NEW c \in Nat, a < b * c
  PROVE  a \div b < c
<1> DEFINE q == a \div b
<1>1. q \in Nat /\ b * q <= a
  BY Quotient
<1> HIDE DEF q
<1>2. ASSUME c <= q PROVE FALSE
  <2>1. b * c <= b * q
    BY <1>1, <1>2, Times
  <2> QED BY <1>1, <2>1
<1>3. q < c
  BY <1>1, <1>2
<1> QED BY <1>3 DEF q

\* A quotient above one.
LEMMA QuotientAbove ==
  ASSUME NEW a \in Nat, NEW b \in Nat \ {0}, NEW c \in Nat, b * c <= a
  PROVE  c <= a \div b
<1> DEFINE q == a \div b
<1>1. q \in Nat /\ a < b * (q + 1)
  BY Quotient
<1> HIDE DEF q
<1>2. ASSUME q + 1 <= c PROVE FALSE
  <2>1. b * (q + 1) <= b * c
    BY <1>1, <1>2, Times
  <2> QED BY <1>1, <2>1
<1>3. c <= q
  BY <1>1, <1>2
<1> QED BY <1>3 DEF q

\* A larger divisor gives a smaller quotient.
LEMMA QuotientAntimonotone ==
  ASSUME NEW a \in Nat, NEW b \in Nat \ {0}, NEW c \in Nat \ {0}, b <= c
  PROVE  a \div c <= a \div b
<1> DEFINE q == a \div c
<1>1. q \in Nat /\ c * q <= a
  BY Quotient
<1> HIDE DEF q
<1>2. b * q <= c * q
  BY <1>1, Times
<1>3. b * q <= a /\ b * q \in Nat
  BY <1>1, <1>2
<1>4. q <= a \div b
  BY <1>1, <1>3, QuotientAbove
<1> QED BY <1>4 DEF q

-----------------------------------------------------------------------------
(* The frequency of a divider.                                             *)

\* It is a number, and falls with the prescaler.
LEMMA FrequencyFalls ==
  ASSUME NEW n \in Nat, NEW pre \in Nat, NEW other \in Nat, pre <= other
  PROVE  Frequency(n, pre) \in Nat /\ Frequency(n, other) <= Frequency(n, pre)
<1> DEFINE b == (pre + 1) * (n + 1)
           c == (other + 1) * (n + 1)
<1>1. b <= c /\ b \in Nat /\ c \in Nat
  BY Times
<1>2. b # 0 /\ c # 0
  BY Times
<1>3. CpuClk \in Nat
  BY ClockAssumption
<1> HIDE DEF b, c
<1>4. CpuClk \div c <= CpuClk \div b /\ CpuClk \div b \in Nat
  BY <1>1, <1>2, <1>3, QuotientAntimonotone, Quotient
<1> QED BY <1>4 DEF Frequency, b, c

\* In particular it is a number.
LEMMA FrequencyType == \A n, pre \in Nat : Frequency(n, pre) \in Nat
  BY FrequencyFalls

\* The prescaler that spiFrequencyToClockDiv computes first (vari = 1), unclamped.
Pivot(n) == (CpuClk \div (n + 1)) \div freq

\* From the pivot on, the frequency is below the requested one.
LEMMA BelowPivot ==
  ASSUME NEW n \in Nat, NEW pre \in Nat, freq \in Nat \ {0}, Pivot(n) <= pre
  PROVE  Frequency(n, pre) < freq
<1> DEFINE x == CpuClk \div (n + 1)
           q == x \div freq
<1>1. CpuClk \in Nat /\ n + 1 \in Nat \ {0}
  BY ClockAssumption
<1>2. x \in Nat /\ CpuClk < (n + 1) * (x + 1)
  BY <1>1, Quotient
<1>3. q \in Nat /\ x < freq * (q + 1)
  BY <1>2, Quotient
<1>4. q <= pre
  BY DEF Pivot
<1> HIDE DEF x, q
<1>5. x + 1 <= freq * (q + 1) /\ freq * (q + 1) <= freq * (pre + 1)
  <2>1. q + 1 <= pre + 1 /\ q + 1 \in Nat /\ pre + 1 \in Nat /\ freq \in Nat
    BY <1>3, <1>4
  <2>2. freq * (q + 1) <= freq * (pre + 1)
    BY <2>1, Times
  <2>3. freq * (q + 1) \in Nat
    BY <2>1
  <2> QED BY <1>2, <1>3, <2>2, <2>3
<1> DEFINE y == freq * (pre + 1)
<1>6. y \in Nat
  OBVIOUS
<1>7. x + 1 <= y
  BY <1>2, <1>3, <1>5, <1>6
<1>8. y * (n + 1) = ((pre + 1) * (n + 1)) * freq
  OBVIOUS
<1> HIDE DEF y
<1>9. (n + 1) * (x + 1) <= y * (n + 1)
  <2>1. (x + 1) * (n + 1) <= y * (n + 1)
    BY <1>1, <1>2, <1>6, <1>7, Times
  <2> QED BY <1>1, <1>2, <2>1
<1> DEFINE b == (pre + 1) * (n + 1)
<1>10. b \in Nat \ {0} /\ CpuClk < b * freq
  BY <1>1, <1>2, <1>6, <1>8, <1>9
<1> HIDE DEF b
<1>11. CpuClk \div b < freq
  BY <1>1, <1>10, QuotientBelow
<1> QED BY <1>11 DEF Frequency, b

\* Before it, it is not.
LEMMA AbovePivot ==
  ASSUME NEW n \in Nat, NEW pre \in Nat, freq \in Nat \ {0}, pre < Pivot(n)
  PROVE  freq <= Frequency(n, pre)
<1> DEFINE x == CpuClk \div (n + 1)
           q == x \div freq
<1>1. CpuClk \in Nat /\ n + 1 \in Nat \ {0}
  BY ClockAssumption
<1>2. x \in Nat /\ (n + 1) * x <= CpuClk
  BY <1>1, Quotient
<1>3. q \in Nat /\ freq * q <= x
  BY <1>2, Quotient
<1>4. pre + 1 <= q
  BY <1>3 DEF Pivot
<1> HIDE DEF x, q
<1> DEFINE y == freq * (pre + 1)
<1>5. y \in Nat /\ y <= x
  <2>1. freq * (pre + 1) <= freq * q
    BY <1>3, <1>4, Times
  <2> QED BY <1>2, <1>3, <2>1
<1>6. y * (n + 1) = ((pre + 1) * (n + 1)) * freq
  OBVIOUS
<1> HIDE DEF y
<1>7. y * (n + 1) <= (n + 1) * x
  <2>1. y * (n + 1) <= x * (n + 1)
    BY <1>1, <1>2, <1>5, Times
  <2> QED BY <1>1, <1>2, <2>1
<1> DEFINE b == (pre + 1) * (n + 1)
<1>8. b \in Nat \ {0} /\ b * freq <= CpuClk
  BY <1>1, <1>2, <1>5, <1>6, <1>7
<1> HIDE DEF b
<1>9. freq <= CpuClk \div b
  BY <1>1, <1>8, QuotientAbove
<1> QED BY <1>9 DEF Frequency, b

\* The clamped prescalers of the two variations that matter.
LEMMA Variations ==
  ASSUME NEW n \in Nat, freq \in Nat \ {0}
  PROVE  /\ Pivot(n) \in Nat
         /\ regPre(n, 0) = IF Pivot(n) = 0 THEN 0
                           ELSE IF Pivot(n) - 1 > MaxPre THEN MaxPre ELSE Pivot(n) - 1
         /\ regPre(n, 1) = IF Pivot(n) > MaxPre THEN MaxPre ELSE Pivot(n)
         /\ \A v \in -1..2 : regPre(n, v) \in 0..MaxPre
<1>1. CpuClk \in Nat /\ MaxPre \in Nat /\ n + 1 \in Nat \ {0}
  BY ClockAssumption, FieldAssumption
<1>2. CpuClk \div (n + 1) \in Nat
  BY <1>1, Quotient
<1>3. Pivot(n) \in Nat
  BY <1>2, Quotient DEF Pivot
<1>4. \A v : calPre(n, v) = Pivot(n) - 1 + v
  BY DEF calPre, Pivot
<1> HIDE DEF calPre
<1> QED BY <1>1, <1>3, <1>4 DEF regPre

\* What the search relies on: when the variation vari = 0 is not exact, no
\* divider of this regN that is not too fast is closer than the variation vari = 1.
LEMMA TwoVariations ==
  ASSUME NEW n \in Nat, freq \in Nat \ {0}, NEW pre \in 0..MaxPre,
         Frequency(n, pre) <= freq, Frequency(n, regPre(n, 0)) # freq
  PROVE  Frequency(n, regPre(n, 1)) < freq /\ Frequency(n, pre) <= Frequency(n, regPre(n, 1))
<1> DEFINE q == Pivot(n)
           p0 == regPre(n, 0)
           p1 == regPre(n, 1)
<1>1. /\ q \in Nat /\ MaxPre \in Nat /\ pre \in Nat
      /\ p0 = IF q = 0 THEN 0 ELSE IF q - 1 > MaxPre THEN MaxPre ELSE q - 1
      /\ p1 = IF q > MaxPre THEN MaxPre ELSE q
      /\ p0 \in Nat /\ p1 \in Nat
  BY Variations, FieldAssumption
<1> HIDE DEF q, p0, p1
<1>2. q <= pre
  <2> SUFFICES ASSUME pre < q PROVE FALSE
    BY <1>1
  <2>1. p0 < q /\ pre <= p0
    BY <1>1
  <2>2. freq <= Frequency(n, p0)
    BY <1>1, <2>1, AbovePivot DEF q
  <2>3. Frequency(n, p0) <= Frequency(n, pre)
    BY <1>1, <2>1, FrequencyFalls
  <2>4. Frequency(n, p0) \in Nat /\ Frequency(n, pre) \in Nat
    BY <1>1, FrequencyType
  <2>5. Frequency(n, p0) = freq
    BY <2>2, <2>3, <2>4
  <2> QED BY <2>5 DEF p0
<1>3. p1 = q /\ p1 <= pre
  BY <1>1, <1>2
<1>4. Frequency(n, p1) < freq
  BY <1>1, <1>3, BelowPivot DEF q
<1>5. Frequency(n, pre) <= Frequency(n, p1)
  BY <1>1, <1>3, FrequencyFalls
<1> QED BY <1>4, <1>5 DEF p1

-----------------------------------------------------------------------------
(* The search.                                                             *)

\* The slowest divider gives a frequency that is not 0.
LEMMA SlowestRuns == ClkRegToFreq(MinReg) = Frequency(MaxN, MaxPre) /\ Frequency(MaxN, MaxPre) >= 1
<1> DEFINE b == (MaxPre + 1) * (MaxN + 1)
<1>1. b \in Nat \ {0} /\ CpuClk \in Nat /\ b * 1 <= CpuClk
  BY ClockAssumption, FieldAssumption
<1> HIDE DEF b
<1>2. CpuClk \div b >= 1
  BY <1>1, QuotientAbove
<1> QED BY <1>2 DEF ClkRegToFreq, Frequency, MinReg, b

\* The first state satisfies the invariant.
LEMMA InitClock == Init => ClockInv
  BY FreqAssumption, FieldAssumption
     DEF Init, ClockInv, TypeOK, StartInv, SearchInv, NeverTooFast, Closest, Regs, ZeroReg

\* The requested frequency while the search runs.
LEMMA SearchFreq ==
  ASSUME ClockInv, pc = "search"
  PROVE  /\ freq \in Nat \ {0} /\ freq < CpuClk /\ freq >= Frequency(MaxN, MaxPre)
         /\ calN \in Nat /\ calN >= 1 /\ CpuClk \in Nat
  BY SlowestRuns, FreqAssumption, ClockAssumption, FieldAssumption
     DEF ClockInv, SearchInv, BestSoFar, TypeOK

\* An iteration of the inner loop that finds an exact divider.
LEMMA TryExact ==
  ASSUME ClockInv, Try, ClkRegToFreq(Candidate) = freq
  PROVE  ClockInv'
<1>1. pc = "search" /\ calN <= MaxN /\ Return(Candidate)
  BY DEF Try
<1>2. freq \in Nat \ {0} /\ calN \in 1..MaxN /\ vari \in -1..2 /\ MaxN \in Nat
  BY <1>1, SearchFreq, FieldAssumption DEF ClockInv, TypeOK
<1>3. Candidate \in Regs
  <2>1. regPre(calN, vari) \in 0..MaxPre /\ (calN + 1) \div 2 \in 0..MaxN
    BY <1>2, Variations
  <2> QED BY <1>2, <2>1 DEF Candidate, Regs
<1>4. TypeOK'
  BY <1>1, <1>3 DEF Return, ClockInv, TypeOK
<1>5. NeverTooFast' /\ Closest'
  <2>1. spiClockDivToFrequency(best)' = freq /\ freq' = freq
    BY <1>1 DEF Return, spiClockDivToFrequency, ClkRegToFreq, Frequency
  <2> QED BY <1>2, <2>1 DEF NeverTooFast, Closest, Frequency
<1> QED BY <1>1, <1>4, <1>5 DEF Return, ClockInv, StartInv, SearchInv

\* An iteration that does not.
LEMMA TryOther ==
  ASSUME ClockInv, Try, ClkRegToFreq(Candidate) # freq
  PROVE  ClockInv'
<1> DEFINE f == ClkRegToFreq(Candidate)
<1>1. /\ pc = "search" /\ calN <= MaxN
      /\ best' = (IF Closer(f) THEN Candidate ELSE best)
      /\ bestFreq' = (IF Closer(f) THEN f ELSE bestFreq)
      /\ vari' = (IF vari = 2 THEN -1 ELSE vari + 1)
      /\ calN' = (IF vari = 2 THEN calN + 1 ELSE calN)
      /\ freq' = freq /\ pc' = pc
  BY DEF Try, Return
<1>2. /\ freq \in Nat \ {0} /\ calN \in 1..MaxN /\ vari \in -1..2 /\ MaxN \in Nat /\ CpuClk \in Nat
      /\ freq < CpuClk
  BY <1>1, SearchFreq, FieldAssumption DEF ClockInv, TypeOK
<1>3. Candidate \in Regs /\ f = Frequency(calN, regPre(calN, vari)) /\ f \in Nat
  <2>1. regPre(calN, vari) \in 0..MaxPre /\ (calN + 1) \div 2 \in 0..MaxN
    BY <1>2, Variations
  <2>2. f = Frequency(calN, regPre(calN, vari))
    BY DEF ClkRegToFreq, Candidate
  <2>3. f \in Nat
    BY <1>2, <2>1, <2>2, FrequencyFalls
  <2> QED BY <1>2, <2>1, <2>2, <2>3 DEF Candidate, Regs
<1>4. TypeOK /\ BestSoFar /\ TriedN /\ TriedVari /\ bestFreq \in Nat
  BY <1>1 DEF ClockInv, SearchInv, TypeOK
<1>5. TypeOK'
  BY <1>1, <1>2, <1>3, <1>4 DEF TypeOK
<1>6. bestFreq' \in Nat /\ bestFreq <= bestFreq' /\ bestFreq' < freq /\ (f < freq => f <= bestFreq')
  BY <1>1, <1>2, <1>3, <1>4 DEF Closer, BestSoFar
<1>7. BestSoFar'
  BY <1>1, <1>3, <1>4, <1>6 DEF BestSoFar, ClkRegToFreq, Frequency, MinReg
<1>8. f # freq
  OBVIOUS
<1> HIDE DEF f
<1>9. TriedVari'
  <2>1. CASE vari = 2
    BY <1>1, <2>1 DEF TriedVari
  <2>2. CASE vari # 2
    <3>1. vari' = vari + 1 /\ calN' = calN /\ freq' = freq
      BY <1>1, <2>2
    <3>2. \A v : regPre(calN, v)' = regPre(calN, v) /\ Frequency(calN, regPre(calN, v))' = Frequency(calN, regPre(calN, v))
      BY <3>1 DEF regPre, calPre, Frequency
    <3>3. vari + 1 > 0 => Frequency(calN, regPre(calN, 0)) # freq
      <4>1. CASE vari = 0
        BY <1>3, <1>8, <4>1
      <4>2. CASE vari # 0
        BY <1>1, <1>2, <1>4, <4>2 DEF TriedVari
      <4> QED BY <4>1, <4>2
    <3>4. vari + 1 > 1 /\ Frequency(calN, regPre(calN, 1)) < freq
            => Frequency(calN, regPre(calN, 1)) <= bestFreq'
      <4>1. CASE vari = 1
        BY <1>3, <1>6, <4>1
      <4>2. CASE vari # 1
        <5>1. Frequency(calN, regPre(calN, 1)) \in Nat
          <6>1. regPre(calN, 1) \in Nat /\ calN \in Nat
            BY <1>2, Variations, FieldAssumption
          <6> QED BY <6>1, FrequencyType
        <5> QED BY <1>1, <1>2, <1>4, <1>6, <4>2, <5>1 DEF TriedVari
      <4> QED BY <4>1, <4>2
    <3> QED BY <3>1, <3>2, <3>3, <3>4 DEF TriedVari
  <2> QED BY <2>1, <2>2
<1>10. TriedN'
  <2>1. ASSUME NEW n \in 1..(calN' - 1), NEW pre \in 0..MaxPre, Frequency(n, pre) <= freq
        PROVE  Frequency(n, pre) <= bestFreq'
    <3>1. Frequency(n, pre) \in Nat
      BY <1>1, <1>2, FieldAssumption, FrequencyFalls
    <3>2. CASE n \in 1..(calN - 1)
      BY <1>4, <1>6, <2>1, <3>1, <3>2 DEF TriedN
    <3>3. CASE n \notin 1..(calN - 1)
      <4>1. vari = 2 /\ n = calN
        BY <1>1, <1>2, <3>3
      <4>2. Frequency(calN, regPre(calN, 0)) # freq
        BY <1>1, <1>4, <4>1 DEF TriedVari
      <4>3. /\ Frequency(n, regPre(n, 1)) < freq
            /\ Frequency(n, pre) <= Frequency(n, regPre(n, 1))
        BY <1>2, <2>1, <4>1, <4>2, TwoVariations
      <4>4. Frequency(n, regPre(n, 1)) <= bestFreq
        BY <1>1, <1>4, <4>1, <4>3 DEF TriedVari
      <4>5. Frequency(n, regPre(n, 1)) \in Nat
        <5>1. regPre(n, 1) \in Nat /\ n \in Nat
          BY <1>2, <4>1, Variations, FieldAssumption
        <5> QED BY <5>1, FrequencyType
      <4> QED BY <1>4, <1>6, <3>1, <4>3, <4>4, <4>5
    <3> QED BY <3>2, <3>3
  <2> QED BY <1>1, <2>1 DEF TriedN, Frequency
<1>11. pc' = "search"
  BY <1>1
<1> QED BY <1>5, <1>7, <1>9, <1>10, <1>11 DEF ClockInv, StartInv, SearchInv, NeverTooFast, Closest

\* The end of the loops, with the best divider.
LEMMA FinishBest ==
  ASSUME ClockInv, Finish
  PROVE  ClockInv'
<1>1. pc = "search" /\ calN > MaxN /\ best' = best /\ pc' = "done" /\ freq' = freq
      /\ calN' = calN /\ vari' = vari /\ bestFreq' = bestFreq
  BY DEF Finish, Return
<1>2. TypeOK /\ BestSoFar /\ TriedN /\ MaxN \in Nat \ {0} /\ MaxPre \in Nat /\ calN = MaxN + 1
  BY <1>1, FieldAssumption DEF ClockInv, SearchInv, TypeOK
<1>3. freq >= Frequency(MaxN, MaxPre) /\ Frequency(MaxN, MaxPre) >= 1
  BY <1>1, SearchFreq, SlowestRuns
<1>4. Frequency(MaxN, MaxPre) <= bestFreq
  BY <1>2, <1>3 DEF TriedN
<1>5. ClkRegToFreq(best) = bestFreq
  <2>1. Frequency(MaxN, MaxPre) \in Nat /\ bestFreq \in Nat
    BY <1>2, FrequencyFalls DEF TypeOK
  <2>2. bestFreq # 0
    BY <1>3, <1>4, <2>1
  <2> QED BY <1>2, <2>2 DEF BestSoFar
<1>6. NeverTooFast'
  <2>1. spiClockDivToFrequency(best)' = bestFreq
    BY <1>1, <1>5 DEF spiClockDivToFrequency, ClkRegToFreq, Frequency
  <2>2. bestFreq <= freq
    BY <1>2, FreqAssumption DEF BestSoFar, TypeOK
  <2> QED BY <1>1, <2>1, <2>2 DEF NeverTooFast
<1>7. Closest'
  BY <1>1, <1>2, <1>5 DEF Closest, TriedN, spiClockDivToFrequency, ClkRegToFreq, Frequency
<1>8. TypeOK'
  BY <1>1, <1>2 DEF TypeOK
<1> QED BY <1>1, <1>6, <1>7, <1>8 DEF ClockInv, StartInv, SearchInv

\* A frequency below the slowest divider: no other divider is as slow.
LEMMA SlowestIsClosest ==
  ASSUME NEW f \in Nat, f < Frequency(MaxN, MaxPre), NEW n \in 1..MaxN, NEW pre \in 0..MaxPre
  PROVE  ~(Frequency(n, pre) <= f)
<1>1. MaxN \in Nat /\ MaxPre \in Nat /\ n \in Nat /\ pre \in Nat /\ CpuClk \in Nat
  BY FieldAssumption, ClockAssumption
<1> DEFINE b == (pre + 1) * (n + 1)
           c == (MaxPre + 1) * (MaxN + 1)
<1>2. b \in Nat \ {0} /\ c \in Nat \ {0} /\ b <= c
  <2>1. (pre + 1) * (n + 1) <= (MaxPre + 1) * (n + 1)
    BY <1>1, Times
  <2>2. (MaxPre + 1) * (n + 1) <= (MaxPre + 1) * (MaxN + 1)
    BY <1>1, Times
  <2>3. b \in Nat \ {0} /\ c \in Nat \ {0} /\ (MaxPre + 1) * (n + 1) \in Nat
    BY <1>1
  <2> QED BY <2>1, <2>2, <2>3
<1> HIDE DEF b, c
<1>3. CpuClk \div c <= CpuClk \div b /\ CpuClk \div b \in Nat /\ CpuClk \div c \in Nat
  BY <1>1, <1>2, QuotientAntimonotone, Quotient
<1>4. Frequency(n, pre) = CpuClk \div b /\ Frequency(MaxN, MaxPre) = CpuClk \div c
  BY DEF Frequency, b, c
<1> QED BY <1>3, <1>4

\* The early returns and the start of the search.
LEMMA StartSteps ==
  ASSUME ClockInv, TooFast \/ TooSlow \/ Search
  PROVE  ClockInv'
<1>1. pc = "start" /\ StartInv /\ TypeOK /\ freq' = freq /\ freq \in Nat
  BY FreqAssumption DEF ClockInv, TooFast, TooSlow, Search, Return, TypeOK
<1>2. MaxN \in Nat \ {0} /\ MaxPre \in Nat /\ CpuClk \in Nat
  BY FieldAssumption, ClockAssumption
<1>3. CASE TooFast
  <2>1. spiClockDivToFrequency(SysClk) = CpuClk
    BY <1>2 DEF spiClockDivToFrequency, ClkRegToFreq, Frequency, SysClk, ZeroReg
  <2>2. SysClk \in Regs
    BY <1>2 DEF SysClk, ZeroReg, Regs
  <2>3. best' = SysClk /\ pc' = "done" /\ freq >= CpuClk
    BY <1>3 DEF TooFast, Return
  <2>4. NeverTooFast' /\ Closest'
    <3>1. spiClockDivToFrequency(best)' = CpuClk
      BY <2>1, <2>3 DEF spiClockDivToFrequency, ClkRegToFreq, Frequency
    <3> QED BY <1>1, <1>2, <2>3, <3>1 DEF NeverTooFast, Closest
  <2> QED BY <1>1, <1>3, <2>2, <2>3, <2>4 DEF TooFast, Return, ClockInv, StartInv, SearchInv, TypeOK
<1>4. CASE TooSlow
  <2>1. best' = MinReg /\ pc' = "done" /\ freq < Frequency(MaxN, MaxPre)
    BY <1>4, SlowestRuns DEF TooSlow, Return
  <2>2. MinReg \in Regs
    <3>1. MaxPre \in 0..MaxPre /\ MaxN \in 0..MaxN /\ 0 \in 0..MaxN
      BY <1>2
    <3> QED BY <3>1 DEF MinReg, Regs
  <2>3. NeverTooFast'
    BY <1>1, <1>4, <2>1 DEF NeverTooFast, TooSlow, ClkRegToFreq, Frequency, MinReg
  <2>4. Closest'
    BY <1>1, <2>1, SlowestIsClosest DEF Closest, Frequency
  <2> QED BY <1>1, <1>4, <2>1, <2>2, <2>3, <2>4
          DEF TooSlow, Return, ClockInv, StartInv, SearchInv, TypeOK
<1>5. CASE Search
  <2>1. /\ freq < CpuClk /\ freq >= ClkRegToFreq(MinReg) /\ pc' = "search" /\ calN' = 1
        /\ vari' = -1 /\ bestFreq' = 0 /\ best' = best
    BY <1>1, <1>5 DEF Search, StartInv
  <2>2. freq > 0
    <3>1. Frequency(MaxN, MaxPre) \in Nat
      BY <1>2, FrequencyType
    <3> QED BY <1>1, <2>1, <3>1, SlowestRuns
  <2>3. BestSoFar'
    BY <1>1, <2>1, <2>2 DEF BestSoFar, ClkRegToFreq, Frequency, MinReg
  <2>4. TriedN' /\ TriedVari'
    BY <2>1 DEF TriedN, TriedVari
  <2> QED BY <1>1, <1>2, <1>5, <2>1, <2>3, <2>4
          DEF Search, ClockInv, StartInv, SearchInv, TypeOK, NeverTooFast, Closest
<1> QED BY <1>3, <1>4, <1>5

\* The inductive invariant of the search, for every clock, register width and frequency.
THEOREM ClockInvariant == Spec => []ClockInv
<1>1. ClockInv /\ [Next]_vars => ClockInv'
  <2> SUFFICES ASSUME ClockInv, [Next]_vars PROVE ClockInv'
    OBVIOUS
  <2>1. CASE TooFast \/ TooSlow \/ Search
    BY <2>1, StartSteps
  <2>2. CASE Try
    BY <2>2, TryExact, TryOther
  <2>3. CASE Finish
    BY <2>3, FinishBest
  <2>4. CASE UNCHANGED vars
    BY <2>4 DEF vars, ClockInv, TypeOK, StartInv, SearchInv, BestSoFar, TriedN, TriedVari,
                NeverTooFast, Closest, Frequency, ClkRegToFreq, spiClockDivToFrequency, regPre, calPre
  <2> QED BY <2>1, <2>2, <2>3, <2>4 DEF Next
<1> QED BY <1>1, InitClock, PTL DEF Spec

\* The bus never runs faster than asked for (or than its slowest divider allows).
THEOREM ClockNeverTooFast == Spec => []NeverTooFast
<1>1. ClockInv => NeverTooFast
  BY DEF ClockInv
<1> QED BY <1>1, ClockInvariant, PTL

\* No divider the search could have found is closer.
THEOREM ClockClosest == Spec => []Closest
<1>1. ClockInv => Closest
  BY DEF ClockInv
<1> QED BY <1>1, ClockInvariant, PTL
=============================================================================
