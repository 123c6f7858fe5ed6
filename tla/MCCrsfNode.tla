----------------------------- MODULE MCCrsfNode -----------------------------
(* CrsfNode with the robot's two drives; see the .cfg files for the bounds. *)
EXTENDS CrsfNode

CONSTANTS left, right

MCDrives == {left, right}
MCInitSequence == <<left, right>>

=============================================================================
