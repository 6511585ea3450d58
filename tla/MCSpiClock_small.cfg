SPECIFICATION Spec
CONSTANTS
  CpuClk = 2500
  MaxN = 7
  MaxPre = 15
  Freqs <- AllFrequencies
INVARIANTS NeverTooFast Closest ClockInv
CHECK_DEADLOCK FALSE
