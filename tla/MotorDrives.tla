---------------------------- MODULE MotorDrives ----------------------------
(***************************************************************************)
(* The CANopen motor drives as their clients in src/ see them: two         *)
(* std_srvs/Trigger services per drive, <drive>/init and <drive>/halt.     *)
(* The drives themselves are not in the repository; this module is what    *)
(* ad_r1m_bringup/scripts/crsf/crsf_node.py (the client) takes them to be. *)
(*                                                                         *)
(* The requests to one service of one drive are counted, not queued: they  *)
(* are all alike, and nothing orders a request to one service with respect *)
(* to a request to another, so a halt may overtake an earlier init.        *)
(***************************************************************************)
EXTENDS Naturals, FiniteSets

CONSTANTS
    Drives,       \* the motor drives, e.g. {drive_left, drive_right}
    MaxHalts,     \* bound: halt requests counted per drive
    MaxRestarts   \* bound: restarts of drive drivers

ASSUME MotorDrivesAssumption ==
    /\ MaxHalts \in Nat \ {0}
    /\ MaxRestarts \in Nat

VARIABLES
    drive,     \* drive[d]: what drive d does
    initReq,   \* initReq[d]: init requests on their way to d
    haltReq,   \* haltReq[d]: halt requests on their way to d
    answers,   \* answers to init requests on their way back to the client
    restarts   \* how many times a drive driver has been restarted

driveVars == <<drive, initReq, haltReq, answers, restarts>>

DriveStates == {"off", "enabled", "halted"}

DrivesTypeOK ==
    /\ drive \in [Drives -> DriveStates]
    /\ initReq \in [Drives -> Nat]
    /\ haltReq \in [Drives -> 0..MaxHalts]
    /\ answers \in Nat
    /\ restarts \in 0..MaxRestarts

(* A client may start while the drives are in any state. *)
DrivesInit ==
    /\ drive \in [Drives -> DriveStates]
    /\ initReq = [d \in Drives |-> 0]
    /\ haltReq = [d \in Drives |-> 0]
    /\ answers = 0
    /\ restarts = 0

(* Some init request has been sent and not yet been served. *)
InitInFlight == \E d \in Drives : initReq[d] > 0

-----------------------------------------------------------------------------
(* The drive serves one init request and answers it, with success (it is   *)
(* enabled) or without (it stays as it is).                                *)
ServeInit(d) ==
    /\ initReq[d] > 0
    /\ initReq' = [initReq EXCEPT ![d] = @ - 1]
    /\ answers' = answers + 1
    /\ \/ drive' = [drive EXCEPT ![d] = "enabled"]
       \/ drive' = drive
    /\ UNCHANGED <<haltReq, restarts>>

(* The drive serves one halt request. Nobody reads the answer, so none is  *)
(* modelled.                                                               *)
ServeHalt(d) ==
    /\ haltReq[d] > 0
    /\ haltReq' = [haltReq EXCEPT ![d] = @ - 1]
    /\ drive' = [drive EXCEPT ![d] = IF @ = "enabled" THEN "halted" ELSE @]
    /\ UNCHANGED <<initReq, answers, restarts>>

(* The process that drives d dies and comes back: d is off, and the init   *)
(* and halt requests it held are never answered.                           *)
RestartDrive(d) ==
    /\ restarts < MaxRestarts
    /\ restarts' = restarts + 1
    /\ drive' = [drive EXCEPT ![d] = "off"]
    /\ initReq' = [initReq EXCEPT ![d] = 0]
    /\ haltReq' = [haltReq EXCEPT ![d] = 0]
    /\ UNCHANGED answers

DriveStep == \E d \in Drives : ServeInit(d) \/ ServeHalt(d) \/ RestartDrive(d)

(* A drive that is up serves every request it gets in the end. *)
DriveFairness ==
    \A d \in Drives : WF_driveVars(ServeInit(d)) /\ WF_driveVars(ServeHalt(d))

=============================================================================
