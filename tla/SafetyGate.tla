----------------------------- MODULE SafetyGate -----------------------------
(***************************************************************************)
(* What the teleoperation of the robot promises the rest of it, whatever   *)
(* the radio link, the service calls and the drives do: a gate between an  *)
(* operator's stick and the velocity topic. Abstract specification;        *)
(* CrsfNode is shown to implement it.                                      *)
(***************************************************************************)
EXTENDS Integers

VARIABLES
    armed,       \* the gate is open
    killswitch,  \* what the gate last said on the killswitch topic
    motion,      \* the last velocity it let through
    switch       \* the position of the arming switch it last saw

gateVars == <<armed, killswitch, motion, switch>>

GateInit ==
    /\ armed = FALSE
    /\ killswitch = "unset"
    /\ motion = "none"
    /\ switch = 0

(* The operator's switch has to be on for the gate to open. *)
Arm ==
    /\ ~armed
    /\ switch' = 1
    /\ armed' = TRUE
    /\ killswitch' = "off"
    /\ motion' \in {motion, "zero", "move"}

(* A velocity passes an open gate only, and never with the switch off.     *)
Pass ==
    /\ armed
    /\ switch' \in {0, 1}
    /\ motion' \in {"zero", "move"}
    /\ UNCHANGED <<armed, killswitch>>

(* Closing the gate says so and stops the robot in one step. A closed gate *)
(* does not close again, except for the first time.                        *)
Disarm ==
    /\ armed \/ killswitch = "unset"
    /\ switch' \in {-1, 0, 1}
    /\ armed' = FALSE
    /\ killswitch' = "on"
    /\ motion' = "zero"

(* The switch is seen to have moved and nothing comes of it yet. *)
See ==
    /\ switch' \in {-1, 0, 1}
    /\ UNCHANGED <<armed, killswitch, motion>>

GateNext == Arm \/ Pass \/ Disarm \/ See

GateSpec == GateInit /\ [][GateNext]_gateVars

=============================================================================
