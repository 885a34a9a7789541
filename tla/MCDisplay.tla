----------------------------- MODULE MCDisplay ------------------------------
(***************************************************************************)
(* An instance of Meter and MemMap.  The two share no variable, and a      *)
(* picture does not depend on the one before: either the meter is followed *)
(* or one picture is drawn.                                                *)
(***************************************************************************)
EXTENDS Meter, MemMap

MCRegionLists ==
  {<<a>> : a \in 1 .. 3} \cup {<<a, b>> : a, b \in 1 .. 3} \cup {<<a, b, c>> : a, b, c \in 1 .. 2}

Init == MeterInit /\ MapInit

Next ==
  /\ picture = NoPicture
  /\ \/ MeterNext /\ UNCHANGED picture
     \/ ~process /\ memstats[1] = Blank /\ MapNext /\ UNCHANGED meterVars

Spec == Init /\ [][Next]_<<meterVars, picture>>

=============================================================================
