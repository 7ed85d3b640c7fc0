------------------------------- MODULE MCHmi --------------------------------
(* The display task in two situations, chosen at the start: telemetry that   *)
(* keeps changing with nobody at the panel, or presses over silent telemetry, *)
(* from when the page has settled.                                           *)
EXTENDS HmiTask

VARIABLE situation

Reading(bms, cells, volts) ==
    [queued |-> TRUE, bms |-> bms, cells |-> cells,
     mv |-> [i \in Cell |-> volts[i + 1]], soc |-> 8000, temp |-> 25, packv |-> 800,
     motorValid |-> cells, motorTimeout |-> ~bms]

\* In band, in band but out of balance, a cell too high, a cell far too low; no
\* cells, no pack.
MCSnapshots ==
    {Reading(TRUE, TRUE, v) : v \in {<<3300, 3301, 3302>>, <<3500, 3310, 3498>>,
                                      <<3306, 3307, 3560>>, <<2499, 3308, 3309>>}}
      \cup {Reading(b, FALSE, <<0, 0, 0>>) : b \in BOOLEAN}

\* The same cells at 25 and at 70 degrees, where the VCU is in FAULT.
HotSnapshots ==
    {[Reading(TRUE, TRUE, <<3300, 3301, 3302>>) EXCEPT !.temp = c] : c \in {25, 70}}

\* A frame that comes while the pages are written waits for the poll all the same.
Settled == isWarm /\ sickRounds = 3 /\ hmiStep = "touch"

MCInit == HmiInit /\ situation \in {"watching", "touching"}
MCNext ==
    /\ UNCHANGED situation
    /\ \/ HmiStep
       \/ situation = "touching" /\ Settled /\ \E c \in Commands : PressButton(c)
       \/ situation = "watching" /\ \E t \in Snapshots : Publish(t)
MCSpec == MCInit /\ [][MCNext]_<<hmiVars, situation>> /\ HmiFairness
=============================================================================
