----------------------------- MODULE MCSpiClock -----------------------------
(***************************************************************************)
(* SpiClock with registers of three and four bits, a clock that the        *)
(* slowest divider brings down to 19, and every frequency from 0 to just   *)
(* above the clock.                                                        *)
(***************************************************************************)
EXTENDS SpiClock

AllFrequencies == 0..(CpuClk + 1)
=============================================================================
