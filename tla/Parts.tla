------------------------------- MODULE Parts --------------------------------
(***************************************************************************)
(* The critical sections, PWM and SPIFFS: three small parts of the port    *)
(* that share nothing.  A behaviour chooses one of them and is a behaviour *)
(* of that part alone.                                                     *)
(***************************************************************************)
EXTENDS Critical

CONSTANTS
  Callers,   \* the tasks that call PWM channels and SpiFFS objects
  Timers, Freqs, Duties, MaxCalls,  \* see Pwm
  Objects    \* see Spiffs

VARIABLES
  part,
  on, calls,
  arg, duty, config, hw, asked, mixed,
  ret, alive, mounted, reg, robbed, twice

P == INSTANCE Pwm WITH Tasks <- Callers
F == INSTANCE Spiffs WITH Tasks <- Callers

ASSUME CoreAssumption  == Cores # {} /\ MaxNest \in Nat
ASSUME CallAssumption  == MaxCalls \in Nat
ASSUME TimerAssumption == Timers \subseteq [unit : {0, 1}, num : 0..2]
ASSUME FreqAssumption  == Freqs \subseteq Nat \ {0}
ASSUME NoneAssumption  == None \notin Cores \cup Objects \cup P!Channels

criticalVars == <<at, id, masked, nest, mux, moved, halted>>
pwmVars      == <<arg, duty, config, hw, asked, mixed>>
spiffsVars   == <<ret, alive, mounted, reg, robbed, twice>>

\* What the chosen part does not use is empty.
NoPwm    == arg = 0 /\ duty = 0 /\ config = 0 /\ hw = 0 /\ asked = 0 /\ mixed = 0
NoSpiffs == ret = 0 /\ alive = 0 /\ mounted = 0 /\ reg = 0 /\ robbed = 0 /\ twice = 0
NoCritical ==
  /\ at = [t \in Tasks |-> None] /\ id = [t \in Tasks |-> 0] /\ masked = {}
  /\ nest = [t \in Tasks |-> 0] /\ mux = [k \in Cores |-> Free]
  /\ moved = FALSE /\ halted = FALSE

PartsInit ==
  \/ part = "critical" /\ Init /\ NoPwm /\ NoSpiffs /\ on = 0 /\ calls = 0
  \/ part = "pwm" /\ P!Init /\ NoCritical /\ NoSpiffs
  \/ part = "spiffs" /\ F!Init /\ NoCritical /\ NoPwm /\ calls = 0

PartsNext ==
  \/ part = "critical" /\ Next /\ UNCHANGED <<part, on, calls, pwmVars, spiffsVars>>
  \/ part = "pwm" /\ P!Next /\ UNCHANGED <<part, criticalVars, spiffsVars>>
  \/ part = "spiffs" /\ F!Next /\ UNCHANGED <<part, calls, criticalVars, pwmVars>>

partsVars == <<part, todo, on, calls, criticalVars, pwmVars, spiffsVars>>

PartsSpec == PartsInit /\ [][PartsNext]_partsVars

-----------------------------------------------------------------------------

\* Types of each part's state.
PartsTypeOK ==
  /\ part = "critical" => TypeOK
  /\ part = "pwm" => P!TypeOK
  /\ part = "spiffs" => F!TypeOK

\* Timers and channels do what they were last asked (esp32pwmchannel.cpp 44-111).
AsAsked == part = "pwm" => P!AsAsked

\* mounted() is true of the object that has the partition, and no object that is gone
\* has it (spiffs.cpp 31-58, 88-92).
MountedIsRegistered == part = "spiffs" => F!MountedIsRegistered
=============================================================================
