------------------------------ MODULE MCTraffic -----------------------------
(* Two vehicles in one instance: one whose cell groups and charger are      *)
(* silent, one whose motor driver is.  Which one it is is chosen at the     *)
(* start, so that the ages of all five streams need not be multiplied.      *)
EXTENDS MCCan

VARIABLE traffic

Sent == [drive |-> DriveFrames, cells |-> CellAndPack]

TrafficInit == CHInit /\ traffic \in DOMAIN Sent
TrafficNext == CHNextOf(Sent[traffic]) /\ UNCHANGED traffic
TrafficSpec == TrafficInit /\ [][TrafficNext]_<<chVars, traffic>> /\ CanFairness
=============================================================================
