--------------------------- MODULE MCWaypointDemo ---------------------------
(* WaypointDemo on one waypoint of each kind of the demo's route. *)
EXTENDS WaypointDemo

MCRoute == << [go_back_after |-> TRUE, raise_lift |-> TRUE],
              [go_back_after |-> FALSE, raise_lift |-> TRUE],
              [go_back_after |-> FALSE, raise_lift |-> FALSE] >>
=============================================================================
