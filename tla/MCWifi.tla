------------------------------- MODULE MCWifi -------------------------------
(***************************************************************************)
(* Wifi with two tasks that both use the station, one of which uses the    *)
(* access point, two station addresses and two access point addresses: 250 *)
(* lies in the range leased for 244, and its own range wraps around.       *)
(***************************************************************************)
EXTENDS Wifi

CONSTANTS a, b, ev, ip1, ip2, none

StationCalls == {"connectTo", "disconnect"}
AllCalls     == StationCalls \cup {"ap.start", "ap.begin", "ap.config", "ap.stop"}
CallsOf      == [t \in {a, b} |-> IF t = a THEN StationCalls ELSE AllCalls]
=============================================================================
