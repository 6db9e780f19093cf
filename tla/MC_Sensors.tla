----------------------------- MODULE MC_Sensors -----------------------------
(* Sensors for TLC: small readers, of which one ends inside a sample, and   *)
(* room for fewer samples than there may be.                                *)
EXTENDS Sensors

MC_Size == [acc |-> 3, mag |-> 2, light |-> 2]
MC_MaxSamples == [acc |-> 3, mag |-> 1, light |-> 2, gyro |-> 1]

=============================================================================
