------------------------------ MODULE SpiClock ------------------------------
(***************************************************************************)
(* The clock calculator of the SPI driver: spiFrequencyToClockDiv looks    *)
(* for the divider whose frequency is the requested one or, failing that,  *)
(* the highest below it, and spiClockDivToFrequency tells which frequency  *)
(* a divider gives.  One action is one iteration of the inner loop.        *)
(***************************************************************************)
EXTENDS Integers

CONSTANTS
  CpuClk,   \* CPU_CLK_FREQ, the clock that is divided
  MaxN,     \* the largest regN: 63, a field of 6 bits
  MaxPre,   \* the largest regPre: 8191, a field of 13 bits
  Freqs     \* the frequencies asked for

\* The slowest divider gives a frequency that is not 0.
ASSUME ClockAssumption == CpuClk \in Nat /\ CpuClk >= (MaxPre + 1) * (MaxN + 1)
ASSUME FieldAssumption == MaxN \in Nat \ {0} /\ MaxPre \in Nat
ASSUME FreqAssumption  == Freqs \subseteq Nat

Regs == [pre : 0..MaxPre, n : 0..MaxN, l : 0..MaxN, equ : {0, 1}]

\* { 0 }, SPI_CLK_EQU_SYSCLK and { 0x7FFFF000 }.
ZeroReg == [pre |-> 0, n |-> 0, l |-> 0, equ |-> 0]
SysClk  == [ZeroReg EXCEPT !.equ = 1]
MinReg  == [pre |-> MaxPre, n |-> MaxN, l |-> 0, equ |-> 0]

Frequency(n, pre) == CpuClk \div ((pre + 1) * (n + 1))
ClkRegToFreq(reg) == Frequency(reg.n, reg.pre)

spiClockDivToFrequency(clockDiv) == ClkRegToFreq(clockDiv)

VARIABLES
  freq,      \* the argument
  calN,      \* the outer loop
  vari,      \* calPreVari, the inner loop
  best,      \* bestReg, and what is returned
  bestFreq,
  pc         \* "start", "search", "done"

vars == <<freq, calN, vari, best, bestFreq, pc>>

TypeOK ==
  /\ freq \in Freqs
  /\ calN \in 1..(MaxN + 1)
  /\ vari \in -1..2
  /\ best \in Regs
  /\ bestFreq \in Nat
  /\ pc \in {"start", "search", "done"}

Init ==
  /\ freq \in Freqs
  /\ calN = 1
  /\ vari = -1
  /\ best = ZeroReg
  /\ bestFreq = 0
  /\ pc = "start"

Return(reg) ==
  /\ best' = reg
  /\ pc' = "done"
  /\ UNCHANGED <<freq, calN, vari, bestFreq>>

\* if(freq >= CPU_CLK_FREQ) return SPI_CLK_EQU_SYSCLK
TooFast == pc = "start" /\ freq >= CpuClk /\ Return(SysClk)

\* if(freq < minFreq) return minFreqReg
TooSlow == pc = "start" /\ freq < CpuClk /\ freq < ClkRegToFreq(MinReg) /\ Return(MinReg)

Search ==
  /\ pc = "start"
  /\ freq < CpuClk
  /\ freq >= ClkRegToFreq(MinReg)
  /\ pc' = "search"
  /\ UNCHANGED <<freq, calN, vari, best, bestFreq>>

\* The prescaler of iteration v for regN = n, and clamped to its field; a
\* search that forgets the variation.
FixedPre(n, v)     == ((CpuClk \div (n + 1)) \div freq) - 1
calPre(n, v)       == ((CpuClk \div (n + 1)) \div freq) - 1 + v
regPre(n, v)       == IF calPre(n, v) > MaxPre THEN MaxPre
                      ELSE IF calPre(n, v) <= 0 THEN 0 ELSE calPre(n, v)

Candidate == [pre |-> regPre(calN, vari), n |-> calN, l |-> (calN + 1) \div 2, equ |-> 0]

\* abs(freq - calFreq) < abs(freq - bestFreq); a search that takes a frequency
\* on either side, and one that takes the last instead of the closest.
Nearer(f)    == f # freq /\ (IF f < freq THEN freq - f ELSE f - freq) < freq - bestFreq
LastBelow(f) == f < freq
Closer(f)    == f < freq /\ freq - f < freq - bestFreq

\* An exact divider ends both loops; otherwise the search goes on with the next
\* variation, or the next regN.
Try ==
  /\ pc = "search"
  /\ calN <= MaxN
  /\ LET calFreq == ClkRegToFreq(Candidate)
     IN  IF calFreq = freq
           THEN Return(Candidate)
           ELSE /\ best'     = IF Closer(calFreq) THEN Candidate ELSE best
                /\ bestFreq' = IF Closer(calFreq) THEN calFreq ELSE bestFreq
                /\ vari'     = IF vari = 2 THEN -1 ELSE vari + 1
                /\ calN'     = IF vari = 2 THEN calN + 1 ELSE calN
                /\ UNCHANGED <<freq, pc>>

\* return bestReg.regValue
Finish == pc = "search" /\ calN > MaxN /\ Return(best)

Next == TooFast \/ TooSlow \/ Search \/ Try \/ Finish

Spec == Init /\ [][Next]_vars

-----------------------------------------------------------------------------
(* Properties.                                                             *)

\* The bus never runs faster than asked for, except that it cannot run slower
\* than its slowest divider (1052-1110).
NeverTooFast ==
  pc = "done" => \/ spiClockDivToFrequency(best) <= freq
                 \/ freq < ClkRegToFreq(MinReg) /\ best = MinReg

\* No divider with a regN the search looks at gives a frequency closer to the
\* requested one from below: four variations of the prescaler per regN are enough (1084).
Closest ==
  pc = "done" /\ freq < CpuClk =>
    \A n \in 1..MaxN : \A pre \in 0..MaxPre :
      Frequency(n, pre) <= freq => Frequency(n, pre) <= spiClockDivToFrequency(best)

-----------------------------------------------------------------------------
(* The inductive invariant behind NeverTooFast and Closest.                *)

\* The best divider so far gives bestFreq, below the requested frequency.
BestSoFar ==
  /\ freq < CpuClk /\ freq >= ClkRegToFreq(MinReg)
  /\ bestFreq < freq
  /\ bestFreq = 0 \/ ClkRegToFreq(best) = bestFreq

\* No divider with a regN that has been tried is closer.
TriedN ==
  \A n \in 1..(calN - 1) : \A pre \in 0..MaxPre :
    Frequency(n, pre) <= freq => Frequency(n, pre) <= bestFreq

\* Two of the four variations matter: vari = 0, which finds an exact divider if
\* there is one, and vari = 1, which finds the closest frequency below.
TriedVari ==
  calN <= MaxN =>
    /\ vari > 0 => Frequency(calN, regPre(calN, 0)) # freq
    /\ vari > 1 /\ Frequency(calN, regPre(calN, 1)) < freq
         => Frequency(calN, regPre(calN, 1)) <= bestFreq

SearchInv == pc = "search" => BestSoFar /\ TriedN /\ TriedVari
StartInv  == pc = "start" => bestFreq = 0 /\ calN = 1 /\ vari = -1

\* The search loop of spiFrequencyToClockDiv (1075-1108).
ClockInv == TypeOK /\ StartInv /\ SearchInv /\ NeverTooFast /\ Closest
=============================================================================
