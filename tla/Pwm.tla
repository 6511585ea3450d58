-------------------------------- MODULE Pwm ---------------------------------
(***************************************************************************)
(* PWM: the channels of esp32pwmchannel.cpp, two to each timer of          *)
(* esp32pwmtimer.cpp.  A unit of the MCPWM hardware has timers with two    *)
(* operators each.  Tasks call channels; calls of one channel do not       *)
(* overlap, those of different channels do, a timer's two among them.      *)
(***************************************************************************)
EXTENDS Naturals, Sequences

CONSTANTS
  Tasks,
  Timers,    \* the timers: a unit and a number, 0 to 2
  Freqs,     \* the frequencies asked for
  Duties,    \* the duty cycles set, other than 0
  MaxCalls,  \* bound on the calls made
  None       \* no channel

\* PwmTimer's constructor gives timer num the channels 2 * num and 2 * num + 1, which
\* pwm_channel_map takes to the output of the same index.
Channels  == [unit : {t.unit : t \in Timers}, num : {t.num : t \in Timers}, pin : 0..5]
ChannelsOf(timer) == {c \in Channels : /\ c.unit = timer.unit /\ c.num = timer.num
                                       /\ c.pin \in {2 * timer.num, 2 * timer.num + 1}}
Used      == UNION {ChannelsOf(timer) : timer \in Timers}
TimerOf(c) == [unit |-> c.unit, num |-> c.num]

\* A mapping that takes the odd timers' outputs for those of operator A.
FirstOperator(c) == IF c.pin \in {0, 2, 3, 4} THEN "A" ELSE "B"
toOperator(c)    == IF c.pin \in {0, 2, 4} THEN "A" ELSE "B"

\* The index of a channel's timer in pwm_config.
Index(c) == c.unit + c.num

VARIABLES
  todo,     \* the steps left of the call each task makes
  on, arg,  \* the channel of that call, and the frequency passed
  duty,     \* duty(), which the base class keeps for each channel
  config,   \* pwm_config's frequencies
  hw,       \* each timer's frequency, and its operators' duty cycles
  asked,    \* what the calls made so far ask of each timer, see Expect
  mixed,    \* the timers whose channels' calls overlapped
  calls

vars == <<todo, on, arg, duty, config, hw, asked, mixed, calls>>

Outputs == [frequency : {0, 50} \cup Freqs, A : {0} \cup Duties, B : {0} \cup Duties]

TypeOK ==
  /\ todo \in [Tasks -> Seq({"frequency", "init", "setFrequency", "setDuty"})]
  /\ on \in [Tasks -> Used \cup {None}]
  /\ arg \in [Tasks -> {0} \cup Freqs]
  /\ duty \in [Used -> {0} \cup Duties]
  /\ config \in [0..5 -> {0, 50}]
  /\ hw \in [Timers -> Outputs]
  /\ asked \in [Timers -> Outputs]
  /\ mixed \subseteq Timers
  /\ calls \in 0..MaxCalls

Off == [frequency |-> 0, A |-> 0, B |-> 0]

Init ==
  /\ todo = [t \in Tasks |-> <<>>]
  /\ on = [t \in Tasks |-> None]
  /\ arg = [t \in Tasks |-> 0]
  /\ duty = [c \in Used |-> 0]
  /\ config = [i \in 0..5 |-> 0]
  /\ hw = [timer \in Timers |-> Off]
  /\ asked = [timer \in Timers |-> Off]
  /\ mixed = {}
  /\ calls = 0

-----------------------------------------------------------------------------
(* Calls.                                                                  *)

\* A channel that relies on the frequency that is in the table.
BareSetGpioPin == <<"init">>
setGpioPin == <<"frequency", "init">>
update     == <<"setFrequency", "setDuty">>
enable     == <<"setDuty">>
disable    == <<"setDuty">>
reload(freq) == IF freq > 0 THEN update ELSE <<"setDuty">>

\* setGpioPin() starts the timer anew, at 50 Hz with both of its outputs low.
Expect(c, freq, program) ==
  IF program = setGpioPin THEN [frequency |-> 50, A |-> 0, B |-> 0]
  ELSE LET before == asked[TimerOf(c)]
       IN  [before EXCEPT !.frequency = IF freq > 0 THEN freq ELSE @,
                          !.A = IF c.pin % 2 = 0 THEN duty[c] ELSE @,
                          !.B = IF c.pin % 2 = 1 THEN duty[c] ELSE @]

Call(t, c, freq, program) ==
  LET timer == TimerOf(c)
  IN  /\ todo[t] = <<>>
      /\ \A u \in Tasks : on[u] # c
      /\ calls < MaxCalls
      /\ calls' = calls + 1
      /\ todo' = [todo EXCEPT ![t] = program]
      /\ on' = [on EXCEPT ![t] = c]
      /\ arg' = [arg EXCEPT ![t] = freq]
      /\ asked' = [asked EXCEPT ![timer] = Expect(c, freq, program)]
      /\ mixed' = IF \E u \in Tasks : on[u] \in ChannelsOf(timer) THEN mixed \cup {timer} ELSE mixed
      /\ UNCHANGED <<duty, config, hw>>

\* The base class's setDutyCycle().
setDutyCycle(c, d) ==
  /\ \A u \in Tasks : on[u] # c
  /\ calls < MaxCalls
  /\ calls' = calls + 1
  /\ duty' = [duty EXCEPT ![c] = d]
  /\ UNCHANGED <<todo, on, arg, config, hw, asked, mixed>>

-----------------------------------------------------------------------------
(* Steps.                                                                  *)

At(t, step) == todo[t] # <<>> /\ Head(todo[t]) = step
Done(t) ==
  LET last == Len(todo[t]) = 1
  IN  /\ todo' = [todo EXCEPT ![t] = Tail(@)]
      /\ on' = [on EXCEPT ![t] = IF last THEN None ELSE @]
      /\ arg' = [arg EXCEPT ![t] = IF last THEN 0 ELSE @]

\* config->frequency = 50; the other fields, low outputs among them, have one value ever.
Fill(t) ==
  /\ At(t, "frequency")
  /\ config' = [config EXCEPT ![Index(on[t])] = 50]
  /\ Done(t)
  /\ UNCHANGED <<duty, hw, asked, mixed, calls>>

\* mcpwm_init: the timer starts with what the table holds.
InitTimer(t) ==
  /\ At(t, "init")
  /\ hw' = [hw EXCEPT ![TimerOf(on[t])] = [Off EXCEPT !.frequency = config[Index(on[t])]]]
  /\ Done(t)
  /\ UNCHANGED <<duty, config, asked, mixed, calls>>

\* mcpwm_set_frequency and mcpwm_set_duty.
SetOutput(t) ==
  LET c == on[t]
  IN  /\ \/ At(t, "setFrequency") /\ hw' = [hw EXCEPT ![TimerOf(c)].frequency = arg[t]]
         \/ At(t, "setDuty")      /\ hw' = [hw EXCEPT ![TimerOf(c)][toOperator(c)] = duty[c]]
      /\ Done(t)
      /\ UNCHANGED <<duty, config, asked, mixed, calls>>

Next ==
  \/ \E t \in Tasks, c \in Used :
       \/ Call(t, c, 0, setGpioPin) \/ Call(t, c, 0, enable) \/ Call(t, c, 0, disable)
       \/ \E f \in Freqs : Call(t, c, f, update)
       \/ \E f \in Freqs \cup {0} : Call(t, c, f, reload(f))
  \/ \E c \in Used, d \in Duties : setDutyCycle(c, d)
  \/ \E t \in Tasks : Fill(t) \/ InitTimer(t) \/ SetOutput(t)

Spec == Init /\ [][Next]_vars

-----------------------------------------------------------------------------
(* Properties.                                                             *)

\* Between calls a timer has the frequency that its channels last asked for, and each
\* channel the duty cycle it last set: whatever is done to the timer of the other unit
\* that has the same entry of pwm_config, but not after calls of the timer's own two
\* channels overlapped (esp32pwmchannel.cpp 44-111).
AsAsked ==
  \A timer \in Timers \ mixed :
    (\A t \in Tasks : on[t] \notin ChannelsOf(timer)) => hw[timer] = asked[timer]
=============================================================================
