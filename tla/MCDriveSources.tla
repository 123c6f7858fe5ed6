--------------------------- MODULE MCDriveSources ---------------------------
(* DriveSources with the time-outs of the code and two short commands. *)
EXTENDS DriveSources

MCTimeout == [hil |-> 5, nav |-> 1]
MCCommands == << [linear |-> 1, angular |-> 0, duration |-> 2],
                 [linear |-> 0, angular |-> 1, duration |-> 1] >>
=============================================================================
