---------------------------- MODULE BeaconNode ----------------------------
(***************************************************************************)
(* What one slightlight node promises about its use of the half-duplex     *)
(* radio, without the driver, the chip or the interrupts.                  *)
(*                                                                         *)
(* The radio runs one activity at a time, a receive window or the sending  *)
(* of a beacon.  Each activity ends in exactly one report, and the main    *)
(* loop takes every report, once, before it starts the next activity.  A   *)
(* beacon goes out only on the report that a whole window passed without a *)
(* packet; every other report leads to a new window.                       *)
(***************************************************************************)

VARIABLES
  activity,   \* what the radio, or the main loop on its behalf, is doing
  report      \* the report that waits for the main loop

vars == <<activity, report>>

WindowEnds == {"RX", "RX_ERROR", "RX_TIMEOUT"}
BeaconEnds == {"TX", "TX_TIMEOUT"}
Reports    == WindowEnds \cup BeaconEnds
None       == "none"

TypeOK ==
  /\ activity \in {"listening", "talking", "reporting", "toListen", "toTalk"}
  /\ report \in Reports \cup {None}

Init == activity = "toListen" /\ report = None

Listen    == activity = "toListen" /\ activity' = "listening" /\ UNCHANGED report
Talk      == activity = "toTalk"   /\ activity' = "talking"   /\ UNCHANGED report

EndWindow(r) ==
  /\ activity = "listening"
  /\ activity' = "reporting" /\ report' = r

EndBeacon(r) ==
  /\ activity = "talking"
  /\ activity' = "reporting" /\ report' = r

Take ==
  /\ activity = "reporting"
  /\ report' = None
  /\ \/ activity' = "toListen"
     \/ report = "RX_TIMEOUT" /\ activity' = "toTalk"

Next ==
  \/ Listen
  \/ Talk
  \/ \E r \in WindowEnds : EndWindow(r)
  \/ \E r \in BeaconEnds : EndBeacon(r)
  \/ Take

Spec == Init /\ [][Next]_vars
=============================================================================
