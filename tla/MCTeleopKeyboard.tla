-------------------------- MODULE MCTeleopKeyboard --------------------------
(* TeleopKeyboard with the robot's two drives; bounds in the .cfg files. *)
EXTENDS TeleopKeyboard

CONSTANTS left, right

MCDrives == {left, right}
MCServices == <<left, right>>

=============================================================================
