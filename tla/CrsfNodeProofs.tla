--------------------------- MODULE CrsfNodeProofs ---------------------------
(***************************************************************************)
(* Theorems of CrsfNode, for every set of drives, init sequence, limit and *)
(* bound. The proofs need no fairness and no bound on the environment.     *)
(***************************************************************************)
EXTENDS CrsfNode, SequenceTheorems, TLAPS

(* A frame is never NoChannels, and SA is one of three positions in both. *)
LEMMA FrameFacts ==
    /\ NoChannels \notin Frames
    /\ \A f \in Frames \cup {NoChannels} : f.sa \in {-1, 0, 1}
    /\ \A f \in Frames : f.stick \in {"centre", "moved"}
  BY DEF Frames, NoChannels

(* The queue and the counters of requests stay well typed when the queue   *)
(* is processed: every entry of the queue is a drive.                      *)
LEMMA ProcessTypes ==
    ASSUME NEW queue \in Seq(Drives), DrivesTypeOK, ServiceQueueProcess(queue)
    PROVE  /\ service_call_queue' \in Seq(Drives)
           /\ initReq' \in [Drives -> Nat]
  <1>1. CASE queue = <<>>
    BY <1>1 DEF ServiceQueueProcess, DrivesTypeOK
  <1>2. CASE queue # <<>>
    <2>1. Head(queue) \in Drives /\ Tail(queue) \in Seq(Drives)
      BY <1>2
    <2>2. service_call_queue' = Tail(queue) /\ initReq' = Call(initReq, Head(queue))
      BY <1>2 DEF ServiceQueueProcess
    <2>3. \A h \in Drives : Call(initReq, h) \in [Drives -> Nat]
      BY DEF Call, DrivesTypeOK
    <2> QED
      BY <2>1, <2>2, <2>3
  <1> QED
    BY <1>1, <1>2

(* Entering kill keeps the types of what it changes. *)
LEMMA EnterKillTypes ==
    ASSUME TypeOK, EnterKill
    PROVE  /\ state' = "kill" /\ killswitch' = "on" /\ cmd_vel_joy' = "zero"
           /\ haltReq' \in [Drives -> 0..MaxHalts]
           /\ raced' \in BOOLEAN
           /\ service_call_queue' \in Seq(Drives)
           /\ previous_was_static' \in BOOLEAN
           /\ drive' \in [Drives -> DriveStates]
           /\ initReq' \in [Drives -> Nat]
  <1>1. haltReq' \in [Drives -> 0..MaxHalts]
    BY MotorDrivesAssumption DEF EnterKill, HaltAll, TypeOK, DrivesTypeOK
  <1> QED
    BY <1>1 DEF EnterKill, TypeOK, DrivesTypeOK, InitOutstanding, InitInFlight

(* So does entering run. *)
LEMMA EnterRunTypes ==
    ASSUME TypeOK, EnterRun
    PROVE  /\ state' = "run" /\ killswitch' = "off"
           /\ haltReq' \in [Drives -> 0..MaxHalts]
           /\ raced' \in BOOLEAN
           /\ service_call_queue' \in Seq(Drives)
           /\ drive' \in [Drives -> DriveStates]
           /\ initReq' \in [Drives -> Nat]
  <1>1. service_call_queue' \in Seq(Drives) /\ initReq' \in [Drives -> Nat]
    <2>1. CASE service_call_queue = <<>>
      BY <2>1, ProcessTypes, CrsfNodeAssumption DEF EnterRun, QueueUpServiceCalls, TypeOK
    <2>2. CASE service_call_queue # <<>>
      <3>1. \A s, t \in Seq(Drives) : s \o t \in Seq(Drives)
        OBVIOUS
      <3> QED
        BY <2>2, <3>1, CrsfNodeAssumption
           DEF EnterRun, QueueUpServiceCalls, TypeOK, DrivesTypeOK
    <2> QED
      BY <2>1, <2>2
  <1> QED
    BY <1>1 DEF EnterRun, TypeOK, DrivesTypeOK

(* The part of a poll that follows the read of the serial line. *)
LEMMA ControlTypes ==
    ASSUME TypeOK, NEW frame \in Frames \cup {NoChannels}, Control(frame)
    PROVE  /\ state' \in {"init", "kill", "run"}
           /\ service_call_queue' \in Seq(Drives)
           /\ previous_was_static' \in BOOLEAN
           /\ killswitch' \in {"unset", "on", "off"}
           /\ cmd_vel_joy' \in {"none", "zero", "move"}
           /\ raced' \in BOOLEAN
           /\ drive' \in [Drives -> DriveStates]
           /\ initReq' \in [Drives -> Nat]
           /\ haltReq' \in [Drives -> 0..MaxHalts]
  <1>1. CASE NodeIdle
    BY <1>1 DEF NodeIdle, TypeOK, DrivesTypeOK
  <1>2. CASE EnterKill
    BY <1>2, EnterKillTypes
  <1>3. CASE EnterRun /\ PublishStick(frame)
    BY <1>3, EnterRunTypes DEF PublishStick, TypeOK
  <1>4. CASE /\ PublishStick(frame)
             /\ UNCHANGED <<state, service_call_queue, killswitch, raced,
                            drive, initReq, haltReq>>
    BY <1>4 DEF PublishStick, TypeOK, DrivesTypeOK
  <1> QED
    BY <1>1, <1>2, <1>3, <1>4 DEF Control

(* Every step keeps the types. *)
LEMMA TypeStep == TypeOK /\ [Next]_vars => TypeOK'
  <1> SUFFICES ASSUME TypeOK, [Next]_vars PROVE TypeOK'
    OBVIOUS
  <1>1. CASE FastTimer
    <2>1. link' \in {"up", "down"} /\ handset' \in Frames /\ answers' \in Nat
          /\ restarts' \in 0..MaxRestarts
      BY <1>1 DEF FastTimer, envVars, TypeOK, DrivesTypeOK
    <2>2. CASE PollBytes
      <3>1. channels' \in Frames \cup {NoChannels} /\ Control(channels')
            /\ empty_crsf_count' \in 0..(EmptyLimit + 1)
        BY <2>2, CrsfNodeAssumption DEF PollBytes, TypeOK
      <3> QED
        BY <3>1, <2>1, ControlTypes DEF TypeOK, DrivesTypeOK
    <2>3. CASE PollEmpty
      <3>1. empty_crsf_count' \in 0..(EmptyLimit + 1)
        BY <2>3, CrsfNodeAssumption DEF PollEmpty, TypeOK
      <3>2. CASE EnterKill /\ channels' = NoChannels
        BY <2>1, <3>1, <3>2, EnterKillTypes DEF TypeOK, DrivesTypeOK
      <3>3. CASE Control(channels) /\ channels' = channels
        <4>1. channels \in Frames \cup {NoChannels}
          BY DEF TypeOK
        <4> QED
          BY <2>1, <3>1, <3>3, <4>1, ControlTypes DEF TypeOK, DrivesTypeOK
      <3> QED
        BY <2>3, <3>2, <3>3 DEF PollEmpty
    <2> QED
      BY <1>1, <2>2, <2>3 DEF FastTimer
  <1>2. CASE ServiceDone
    <2>1. service_call_queue' \in Seq(Drives) /\ initReq' \in [Drives -> Nat]
      BY <1>2, ProcessTypes DEF ServiceDone, TypeOK
    <2> QED
      BY <1>2, <2>1 DEF ServiceDone, TypeOK, DrivesTypeOK, envVars
  <1>3. CASE OperatorMoves
    BY <1>3 DEF OperatorMoves, nodeVars, driveVars, TypeOK, DrivesTypeOK
  <1>4. CASE LinkChanges
    BY <1>4 DEF LinkChanges, nodeVars, driveVars, TypeOK, DrivesTypeOK
  <1>5. CASE DrivesAct
    <2>1. PICK d \in Drives : ServeInit(d) \/ ServeHalt(d) \/ RestartDrive(d)
      BY <1>5 DEF DrivesAct, DriveStep
    <2>2. DrivesTypeOK'
      <3>1. CASE ServeInit(d)
        <4>1. initReq' \in [Drives -> Nat]
          BY <3>1 DEF ServeInit, TypeOK, DrivesTypeOK
        <4>2. drive' \in [Drives -> DriveStates]
          BY <3>1 DEF ServeInit, TypeOK, DrivesTypeOK, DriveStates
        <4> QED
          BY <3>1, <4>1, <4>2 DEF ServeInit, TypeOK, DrivesTypeOK
      <3>2. CASE ServeHalt(d)
        BY <2>1, <3>2, MotorDrivesAssumption
           DEF ServeHalt, TypeOK, DrivesTypeOK, DriveStates
      <3>3. CASE RestartDrive(d)
        BY <2>1, <3>3, MotorDrivesAssumption
           DEF RestartDrive, TypeOK, DrivesTypeOK, DriveStates
      <3> QED
        BY <2>1, <3>1, <3>2, <3>3
    <2> QED
      BY <1>5, <2>2 DEF DrivesAct, nodeVars, envVars, TypeOK
  <1>6. CASE UNCHANGED vars
    BY <1>6 DEF vars, nodeVars, envVars, driveVars, TypeOK, DrivesTypeOK
  <1> QED
    BY <1>1, <1>2, <1>3, <1>4, <1>5, <1>6 DEF Next

(* Type correctness of the node, its calls and the drives. *)
THEOREM TypeCorrect == Spec => []TypeOK
  <1>1. Init => TypeOK
    <2>1. Init => DrivesTypeOK
      BY MotorDrivesAssumption DEF Init, DrivesInit, DrivesTypeOK
    <2>2. <<>> \in Seq(Drives)
      OBVIOUS
    <2>3. 0 \in 0..(EmptyLimit + 1)
      BY CrsfNodeAssumption
    <2>4. Init => service_call_queue \in Seq(Drives) /\ empty_crsf_count \in 0..(EmptyLimit + 1)
      BY <2>2, <2>3 DEF Init
    <2> QED
      BY <2>1, <2>4 DEF Init, TypeOK
  <1> QED
    BY <1>1, TypeStep, PTL DEF Spec

-----------------------------------------------------------------------------
(* The four things a poll can do, as the invariants tell them apart. *)

PollIdle ==
    /\ NodeIdle
    /\ \/ service_call_queue # <<>>
       \/ channels' = NoChannels
       \/ state = "kill" /\ channels'.sa <= 0

PollKills ==
    /\ EnterKill
    /\ state # "kill"
    /\ channels' = NoChannels \/ channels'.sa <= 0

PollArms ==
    /\ service_call_queue = <<>> /\ state # "run"
    /\ channels' \in Frames /\ channels'.sa > 0
    /\ EnterRun /\ PublishStick(channels')
    /\ empty_crsf_count' = 0 \/ channels' = channels

PollPasses ==
    /\ state = "run" /\ channels'.sa >= 0
    /\ PublishStick(channels')
    /\ UNCHANGED <<state, service_call_queue, killswitch, raced,
                   drive, initReq, haltReq>>

(* What follows the read of the serial line does one of the four. *)
LEMMA ControlCases ==
    ASSUME TypeOK, channels' \in Frames \cup {NoChannels}, Control(channels'),
           empty_crsf_count' = 0 \/ channels' = channels
    PROVE  PollIdle \/ PollKills \/ PollArms \/ PollPasses
  <1>1. CASE service_call_queue # <<>> \/ channels' = NoChannels
    <2>1. NodeIdle
      BY <1>1 DEF Control
    <2> QED
      BY <1>1, <2>1 DEF PollIdle
  <1>2. CASE service_call_queue = <<>> /\ channels' # NoChannels
    <2>1. channels' \in Frames
      BY <1>2
    <2>2. CASE state # "run" /\ channels'.sa > 0 /\ EnterRun /\ PublishStick(channels')
      BY <1>2, <2>1, <2>2 DEF PollArms
    <2>3. CASE state = "init" /\ channels'.sa <= 0 /\ EnterKill
      BY <2>3 DEF PollKills
    <2>4. CASE state = "kill" /\ channels'.sa <= 0 /\ NodeIdle
      BY <2>4 DEF PollIdle
    <2>5. CASE state = "run" /\ channels'.sa < 0 /\ EnterKill
      <3>1. channels'.sa <= 0
        BY <2>1, <2>5, FrameFacts
      <3> QED
        BY <2>5, <3>1 DEF PollKills
    <2>6. CASE /\ state = "run" /\ channels'.sa >= 0 /\ PublishStick(channels')
               /\ UNCHANGED <<state, service_call_queue, killswitch, raced,
                              drive, initReq, haltReq>>
      BY <2>6 DEF PollPasses
    <2> QED
      BY <1>2, <2>2, <2>3, <2>4, <2>5, <2>6 DEF Control
  <1> QED
    BY <1>1, <1>2

(* A poll does one of the four. *)
LEMMA PollCases ==
    ASSUME TypeOK, FastTimer
    PROVE  /\ PollIdle \/ PollKills \/ PollArms \/ PollPasses
           /\ UNCHANGED <<answers, restarts>>
           /\ channels' \in Frames \cup {NoChannels}
  <1>1. CASE PollBytes
    <2>1. channels' \in Frames \cup {NoChannels}
      BY <1>1 DEF PollBytes, TypeOK
    <2>2. Control(channels') /\ empty_crsf_count' = 0
      BY <1>1 DEF PollBytes
    <2> QED
      BY <2>1, <2>2, ControlCases DEF FastTimer
  <1>2. CASE PollEmpty
    <2>1. channels \in Frames \cup {NoChannels}
      BY DEF TypeOK
    <2>2. CASE EnterKill /\ channels' = NoChannels /\ state # "kill"
      BY <2>2 DEF FastTimer, PollKills
    <2>3. CASE Control(channels) /\ channels' = channels
      BY <2>1, <2>3, ControlCases DEF FastTimer
    <2> QED
      BY <1>2, <2>2, <2>3 DEF PollEmpty
  <1> QED
    BY <1>1, <1>2 DEF FastTimer

-----------------------------------------------------------------------------
(* The inductive invariant of the gate. TopicsAgree and StaticMeansStill   *)
(* need each other; ArmingNeedsLink and CleanKillHalts need                *)
(* CleanKillLeavesNothing: without it an init call that was sent before    *)
(* the kill could be served after the halt.                                *)
UnsetInInit == state = "init" => killswitch = "unset"

GateInv ==
    /\ TopicsAgree
    /\ StaticMeansStill
    /\ UnsetInInit
    /\ CleanKillLeavesNothing
    /\ CleanKillHalts

(* It holds initially. *)
LEMMA GateInvInit == Init => GateInv
  BY DEF Init, DrivesInit, GateInv, TopicsAgree, StaticMeansStill, UnsetInInit,
         CleanKillLeavesNothing, CleanKillHalts, InitOutstanding, InitInFlight

(* Entering kill establishes all of it. *)
LEMMA GateInvKill == TypeOK /\ GateInv /\ PollKills => GateInv'
  <1> SUFFICES ASSUME TypeOK, GateInv, PollKills PROVE GateInv'
    OBVIOUS
  <1>1. TopicsAgree' /\ StaticMeansStill' /\ UnsetInInit'
    BY DEF PollKills, EnterKill, TopicsAgree, StaticMeansStill, UnsetInInit
  <1>2. CleanKillLeavesNothing'
    BY DEF PollKills, EnterKill, CleanKillLeavesNothing, InitOutstanding, InitInFlight
  <1>3. CleanKillHalts'
    <2>1. \A d \in KillDrives : haltReq'[d] # 0
      BY MotorDrivesAssumption, CrsfNodeAssumption
         DEF PollKills, EnterKill, HaltAll, TypeOK, DrivesTypeOK
    <2> QED
      BY <2>1 DEF CleanKillHalts
  <1> QED
    BY <1>1, <1>2, <1>3 DEF GateInv

(* Every step of the system keeps it. *)
LEMMA GateInvStep == TypeOK /\ GateInv /\ [Next]_vars => GateInv'
  <1> SUFFICES ASSUME TypeOK, GateInv, [Next]_vars PROVE GateInv'
    OBVIOUS
  <1> USE DEF GateInv
  <1>1. CASE FastTimer
    <2>1. CASE PollIdle
      BY <2>1, PollCases, <1>1
         DEF PollIdle, NodeIdle, TopicsAgree, StaticMeansStill, UnsetInInit,
             CleanKillLeavesNothing, CleanKillHalts, InitOutstanding, InitInFlight
    <2>2. CASE PollKills
      BY <2>2, GateInvKill
    <2>3. CASE PollArms
      BY <2>3 DEF PollArms, EnterRun, PublishStick, TopicsAgree, StaticMeansStill,
             UnsetInInit, CleanKillLeavesNothing, CleanKillHalts
    <2>4. CASE PollPasses
      BY <2>4 DEF PollPasses, PublishStick, TopicsAgree, StaticMeansStill,
             UnsetInInit, CleanKillLeavesNothing, CleanKillHalts
    <2> QED
      BY <1>1, <2>1, <2>2, <2>3, <2>4, PollCases
  <1>2. CASE ServiceDone
    <2>1. TopicsAgree' /\ StaticMeansStill' /\ UnsetInInit' /\ CleanKillHalts'
      BY <1>2 DEF ServiceDone, TopicsAgree, StaticMeansStill, UnsetInInit, CleanKillHalts
    <2>2. CleanKillLeavesNothing'
      BY <1>2 DEF ServiceDone, ServiceQueueProcess, CleanKillLeavesNothing,
             InitOutstanding, InitInFlight
    <2> QED
      BY <2>1, <2>2
  <1>3. CASE OperatorMoves \/ LinkChanges \/ UNCHANGED vars
    BY <1>3 DEF OperatorMoves, LinkChanges, vars, nodeVars, envVars, driveVars,
           TopicsAgree, StaticMeansStill, UnsetInInit,
           CleanKillLeavesNothing, CleanKillHalts, InitOutstanding, InitInFlight
  <1>4. CASE DrivesAct
    <2>1. PICK d \in Drives : ServeInit(d) \/ ServeHalt(d) \/ RestartDrive(d)
      BY <1>4 DEF DrivesAct, DriveStep
    <2>2. TopicsAgree' /\ StaticMeansStill' /\ UnsetInInit'
      BY <1>4 DEF DrivesAct, nodeVars, TopicsAgree, StaticMeansStill, UnsetInInit
    <2>3. UNCHANGED <<state, raced, channels, service_call_queue>>
      BY <1>4 DEF DrivesAct, nodeVars
    <2>4. CASE ServeInit(d)
      <3>1. InitOutstanding
        BY <2>4 DEF ServeInit, InitOutstanding, InitInFlight
      <3>2. state = "run" \/ raced
        BY <3>1 DEF CleanKillLeavesNothing
      <3> QED
        BY <2>2, <2>3, <3>2 DEF CleanKillLeavesNothing, CleanKillHalts
    <2>5. CASE ServeHalt(d)
      <3>1. CleanKillHalts'
        BY <2>3, <2>5, CrsfNodeAssumption
           DEF ServeHalt, CleanKillHalts, TypeOK, DrivesTypeOK
      <3>2. CleanKillLeavesNothing'
        BY <2>3, <2>5 DEF ServeHalt, CleanKillLeavesNothing, InitOutstanding, InitInFlight
      <3> QED
        BY <2>2, <3>1, <3>2
    <2>6. CASE RestartDrive(d)
      <3>1. CleanKillHalts'
        BY <2>3, <2>6, CrsfNodeAssumption
           DEF RestartDrive, CleanKillHalts, TypeOK, DrivesTypeOK
      <3>2. CleanKillLeavesNothing'
        BY <2>3, <2>6 DEF RestartDrive, CleanKillLeavesNothing, InitOutstanding,
               InitInFlight, TypeOK, DrivesTypeOK
      <3> QED
        BY <2>2, <3>1, <3>2
    <2> QED
      BY <2>1, <2>4, <2>5, <2>6
  <1> QED
    BY <1>1, <1>2, <1>3, <1>4 DEF Next

(* The gate invariant holds in every reachable state. *)
LEMMA GateInvariant == Spec => []GateInv
  BY GateInvInit, GateInvStep, TypeCorrect, PTL DEF Spec

(* What the node says on its topics agrees with its state. *)
THEOREM TopicsAlwaysAgree == Spec => []TopicsAgree
  <1>1. GateInv => TopicsAgree
    BY DEF GateInv
  <1> QED
    BY <1>1, GateInvariant, PTL

(* When a poll may keep silent the robot has been told to stand still. *)
THEOREM StaticAlwaysStill == Spec => []StaticMeansStill
  <1>1. GateInv => StaticMeansStill
    BY DEF GateInv
  <1> QED
    BY <1>1, GateInvariant, PTL

(* Both together: what was said on the topics is true of the state. *)
THEOREM TopicsAlwaysTellState == Spec => []TopicsTellState
  <1>1. TopicsAgree /\ StaticMeansStill => TopicsTellState
    BY DEF TopicsTellState
  <1> QED
    BY <1>1, TopicsAlwaysAgree, StaticAlwaysStill, PTL

(* A kill with no init call outstanding halts the drives for good. *)
THEOREM CleanKillAlwaysHalts == Spec => []CleanKillHalts
  <1>1. GateInv => CleanKillHalts
    BY DEF GateInv
  <1> QED
    BY <1>1, GateInvariant, PTL

(* ... and leaves no call and no frame behind that could undo it. *)
THEOREM CleanKillAlwaysLeavesNothing == Spec => []CleanKillLeavesNothing
  <1>1. GateInv => CleanKillLeavesNothing
    BY DEF GateInv
  <1> QED
    BY <1>1, GateInvariant, PTL

(* Both together: a kill that found no init call outstanding is final. *)
THEOREM CleanKillAlwaysFinal == Spec => []CleanKillIsFinal
  <1>1. CleanKillHalts /\ CleanKillLeavesNothing => CleanKillIsFinal
    BY DEF CleanKillIsFinal
  <1> QED
    BY <1>1, CleanKillAlwaysHalts, CleanKillAlwaysLeavesNothing, PTL

(* After such a kill (and before the first one) only a poll that has read  *)
(* bytes arms the robot.                                                   *)
THEOREM ArmingAlwaysNeedsLink == Spec => ArmingNeedsLink
  <1>1. TypeOK /\ GateInv /\ [Next]_vars =>
          [state # "run" /\ state' = "run" /\ ~raced => empty_crsf_count' = 0]_vars
    <2> SUFFICES ASSUME TypeOK, GateInv, [Next]_vars,
                        state # "run", state' = "run", ~raced
                 PROVE  empty_crsf_count' = 0
      OBVIOUS
    <2>1. FastTimer
      BY DEF Next, ServiceDone, OperatorMoves, LinkChanges, DrivesAct, vars, nodeVars
    <2>2. PollArms
      BY <2>1, PollCases DEF PollIdle, NodeIdle, PollKills, EnterKill, PollPasses
    <2>3. channels # channels'
      BY <2>2, FrameFacts DEF PollArms, GateInv, CleanKillLeavesNothing, Frames
    <2> QED
      BY <2>2, <2>3 DEF PollArms
  <1> QED
    BY <1>1, TypeCorrect, GateInvariant, PTL DEF Spec, ArmingNeedsLink

-----------------------------------------------------------------------------
(* Refinement: every step of the node is a step of the abstract gate. *)

(* A poll is one of the four steps of the gate. *)
LEMMA PollRefines ==
    ASSUME TypeOK, GateInv, FastTimer
    PROVE  Gate!GateNext
  <1>1. channels'.sa \in {-1, 0, 1}
    BY PollCases, FrameFacts
  <1>2. CASE PollIdle
    BY <1>1, <1>2 DEF PollIdle, NodeIdle, Gate!GateNext, Gate!See
  <1>3. CASE PollKills
    <2>1. state = "run" \/ killswitch = "unset"
      BY <1>3 DEF PollKills, TypeOK, GateInv, UnsetInInit
    <2> QED
      BY <1>1, <1>3, <2>1 DEF PollKills, EnterKill, Gate!GateNext, Gate!Disarm
  <1>4. CASE PollArms
    <2>1. channels'.sa = 1
      BY <1>1, <1>4 DEF PollArms
    <2> QED
      BY <1>4, <2>1 DEF PollArms, EnterRun, PublishStick, Gate!GateNext, Gate!Arm
  <1>5. CASE PollPasses
    <2>1. channels'.sa \in {0, 1}
      BY <1>1, <1>5 DEF PollPasses
    <2>2. cmd_vel_joy' \in {"zero", "move"} \/ cmd_vel_joy' = cmd_vel_joy
      BY <1>5 DEF PollPasses, PublishStick
    <2> QED
      BY <1>1, <1>5, <2>1, <2>2 DEF PollPasses, Gate!GateNext, Gate!Pass, Gate!See
  <1> QED
    BY <1>2, <1>3, <1>4, <1>5, PollCases

(* The node implements the gate. Only polls change what the gate is made   *)
(* of; every other step is a stutter.                                      *)
THEOREM ImplementsSafetyGate == Spec => ImplementsGate
  <1>1. Init => Gate!GateInit
    BY DEF Init, Gate!GateInit, NoChannels
  <1>2. TypeOK /\ GateInv /\ [Next]_vars => [Gate!GateNext]_(Gate!gateVars)
    <2> SUFFICES ASSUME TypeOK, GateInv, [Next]_vars
                 PROVE  [Gate!GateNext]_(Gate!gateVars)
      OBVIOUS
    <2>1. CASE FastTimer
      BY <2>1, PollRefines
    <2>2. CASE ServiceDone \/ OperatorMoves \/ LinkChanges \/ DrivesAct \/ UNCHANGED vars
      BY <2>2 DEF ServiceDone, OperatorMoves, LinkChanges, DrivesAct, vars, nodeVars,
             Gate!gateVars
    <2> QED
      BY <2>1, <2>2 DEF Next
  <1> QED
    BY <1>1, <1>2, TypeCorrect, GateInvariant, PTL DEF Spec, ImplementsGate, Gate!GateSpec

-----------------------------------------------------------------------------
(* The queue of init calls. *)

(* After the queue has been processed, a queue that is not empty has a     *)
(* call in flight: the one just made.                                      *)
LEMMA ProcessCalls ==
    ASSUME TypeOK, NEW queue \in Seq(Drives), ServiceQueueProcess(queue),
           service_call_queue' # <<>>
    PROVE  InitInFlight'
  <1>1. queue # <<>>
    BY DEF ServiceQueueProcess
  <1>2. PICK h \in Drives : initReq' = Call(initReq, h)
    BY <1>1 DEF ServiceQueueProcess
  <1>3. initReq'[h] > 0
    BY <1>2 DEF Call, TypeOK, DrivesTypeOK
  <1> QED
    BY <1>3 DEF InitInFlight

(* As long as no drive restarts, the node is never left with a queue that  *)
(* no answer will pop.                                                     *)
THEOREM QueueAlwaysHasCaller == Spec => []QueueHasCaller
  <1>1. Init => QueueHasCaller
    BY DEF Init, QueueHasCaller
  <1>2. TypeOK /\ QueueHasCaller /\ [Next]_vars => QueueHasCaller'
    <2> SUFFICES ASSUME TypeOK, QueueHasCaller, [Next]_vars PROVE QueueHasCaller'
      OBVIOUS
    <2>1. CASE FastTimer
      <3>1. CASE PollArms
        <4>1. ServiceQueueProcess(InitSequence)
          BY <3>1 DEF PollArms, EnterRun, QueueUpServiceCalls
        <4> QED
          BY <4>1, ProcessCalls, CrsfNodeAssumption DEF QueueHasCaller
      <3>2. CASE PollIdle \/ PollKills \/ PollPasses
        <4>1. UNCHANGED <<service_call_queue, initReq, answers, restarts>>
          BY <2>1, <3>2, PollCases
             DEF PollIdle, NodeIdle, PollKills, EnterKill, PollPasses
        <4> QED
          BY <4>1 DEF QueueHasCaller, InitInFlight
      <3> QED
        BY <2>1, <3>1, <3>2, PollCases
    <2>2. CASE ServiceDone
      BY <2>2, ProcessCalls DEF ServiceDone, QueueHasCaller, TypeOK
    <2>3. CASE OperatorMoves \/ LinkChanges \/ UNCHANGED vars
      BY <2>3 DEF OperatorMoves, LinkChanges, vars, nodeVars, driveVars,
             QueueHasCaller, InitInFlight
    <2>4. CASE DrivesAct
      <3>1. PICK d \in Drives : ServeInit(d) \/ ServeHalt(d) \/ RestartDrive(d)
        BY <2>4 DEF DrivesAct, DriveStep
      <3>2. service_call_queue' = service_call_queue
        BY <2>4 DEF DrivesAct, nodeVars
      <3>3. CASE ServeInit(d)
        BY <3>2, <3>3 DEF ServeInit, QueueHasCaller, TypeOK, DrivesTypeOK
      <3>4. CASE ServeHalt(d)
        BY <3>2, <3>4 DEF ServeHalt, QueueHasCaller, InitInFlight
      <3>5. CASE RestartDrive(d)
        BY <3>5 DEF RestartDrive, QueueHasCaller, TypeOK, DrivesTypeOK
      <3> QED
        BY <3>1, <3>3, <3>4, <3>5
    <2> QED
      BY <2>1, <2>2, <2>3, <2>4 DEF Next
  <1> QED
    BY <1>1, <1>2, TypeCorrect, PTL DEF Spec

(* What processing leaves of a tail of the init sequence, or of all of it, *)
(* is a proper tail.                                                       *)
LEMMA ProcessTail ==
    ASSUME NEW k \in 1..Len(InitSequence),
           ServiceQueueProcess(SubSeq(InitSequence, k, Len(InitSequence)))
    PROVE  QueueIsTail'
  <1> DEFINE n == Len(InitSequence)
             q == SubSeq(InitSequence, k, n)
  <1>1. InitSequence \in Seq(Drives) /\ n \in Nat
    BY CrsfNodeAssumption
  <1>2. q # <<>>
    <2>1. /\ k \in Int /\ n \in Int /\ k <= n
          /\ \A i \in k..n : InitSequence[i] \in Drives
      BY <1>1, ElementOfSeq
    <2>2. Len(q) = n - k + 1
      BY <2>1, SubSeqProperties
    <2> HIDE DEF n, q
    <2>3. Len(q) # 0
      BY <1>1, <2>1, <2>2
    <2> QED
      BY <2>3
  <1>3. service_call_queue' = Tail(q)
    BY <1>2 DEF ServiceQueueProcess
  <1>4. Tail(q) = SubSeq(InitSequence, k + 1, n)
    <2>1. n \in k..Len(InitSequence)
      BY <1>1
    <2> QED
      BY <1>1, <2>1, HeadTailOfSubSeq
  <1>5. CASE k = n
    <2>1. SubSeq(InitSequence, k + 1, n) = <<>>
      BY <1>1, <1>5, SubSeqEmpty
    <2> QED
      BY <1>3, <1>4, <2>1 DEF QueueIsTail
  <1>6. CASE k # n
    <2>1. k + 1 \in 2..n
      BY <1>1, <1>6
    <2> QED
      BY <1>3, <1>4, <2>1 DEF QueueIsTail
  <1> QED
    BY <1>5, <1>6

(* The queue only ever holds what is left of one init sequence. *)
THEOREM QueueAlwaysTail == Spec => []QueueIsTail
  <1>1. Init => QueueIsTail
    BY DEF Init, QueueIsTail
  <1>2. TypeOK /\ QueueIsTail /\ [Next]_vars => QueueIsTail'
    <2> SUFFICES ASSUME TypeOK, QueueIsTail, [Next]_vars PROVE QueueIsTail'
      OBVIOUS
    <2>1. CASE FastTimer /\ PollArms
      <3>1. ServiceQueueProcess(InitSequence)
        BY <2>1 DEF PollArms, EnterRun, QueueUpServiceCalls
      <3>2. CASE InitSequence = <<>>
        BY <3>1, <3>2 DEF ServiceQueueProcess, QueueIsTail
      <3>3. CASE InitSequence # <<>>
        <4>1. 1 \in 1..Len(InitSequence) /\ SubSeq(InitSequence, 1, Len(InitSequence)) = InitSequence
          BY <3>3, CrsfNodeAssumption
        <4> QED
          BY <3>1, <4>1, ProcessTail
      <3> QED
        BY <3>2, <3>3
    <2>2. CASE FastTimer /\ ~PollArms
      <3>1. service_call_queue' = service_call_queue
        BY <2>2, PollCases DEF PollIdle, NodeIdle, PollKills, EnterKill, PollPasses
      <3> QED
        BY <3>1 DEF QueueIsTail
    <2>3. CASE ServiceDone
      <3>1. ServiceQueueProcess(service_call_queue)
        BY <2>3 DEF ServiceDone
      <3>2. CASE service_call_queue = <<>>
        BY <3>1, <3>2 DEF ServiceQueueProcess, QueueIsTail
      <3>3. CASE service_call_queue # <<>>
        <4>1. PICK k \in 2..Len(InitSequence) :
                service_call_queue = SubSeq(InitSequence, k, Len(InitSequence))
          BY <3>3 DEF QueueIsTail
        <4>2. k \in 1..Len(InitSequence)
          BY CrsfNodeAssumption
        <4> QED
          BY <3>1, <4>1, <4>2, ProcessTail
      <3> QED
        BY <3>2, <3>3
    <2>4. CASE OperatorMoves \/ LinkChanges \/ DrivesAct \/ UNCHANGED vars
      <3>1. service_call_queue' = service_call_queue
        BY <2>4 DEF OperatorMoves, LinkChanges, DrivesAct, vars, nodeVars
      <3> QED
        BY <3>1 DEF QueueIsTail
    <2> QED
      BY <2>1, <2>2, <2>3, <2>4 DEF Next
  <1> QED
    BY <1>1, <1>2, TypeCorrect, PTL DEF Spec

(* The queue is part of one init sequence, and while the drives answer it  *)
(* is being emptied.                                                       *)
THEOREM QueueAlwaysSound == Spec => []QueueSound
  <1>1. QueueIsTail /\ QueueHasCaller => QueueSound
    BY DEF QueueSound
  <1> QED
    BY <1>1, QueueAlwaysTail, QueueAlwaysHasCaller, PTL

=============================================================================
