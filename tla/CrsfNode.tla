------------------------------ MODULE CrsfNode ------------------------------
(***************************************************************************)
(* The node of ad_r1m_bringup/scripts/crsf/crsf_node.py: it reads an RC    *)
(* handset over a serial line, keeps the robot's killswitch state machine  *)
(* (init, kill, run), initialises and halts the motor drives through       *)
(* asynchronous service calls and publishes the right stick as velocity.   *)
(*                                                                         *)
(* rclpy.spin runs its callbacks one at a time on one thread, so a         *)
(* callback is one action: FastTimer (the poll of the serial line, every   *)
(* 1/poll_rate s) and ServiceDone (the answer to an init call). The rest   *)
(* of Next is the environment: the operator, the radio link, the drives.   *)
(* The battery timer shares nothing with these variables and is not here.  *)
(***************************************************************************)
EXTENDS MotorDrives, Integers, Sequences

CONSTANTS
    InitSequence,  \* parameter init_sequence: the drives to initialise, in order
    KillDrives,    \* parameter kill_sequence: the drives to halt, in any order
    EmptyLimit,    \* empty reads tolerated; 50 in the code
    MaxCalls       \* bound: no new init sequence with this many calls to a drive

ASSUME CrsfNodeAssumption ==
    /\ InitSequence \in Seq(Drives)
    /\ KillDrives \subseteq Drives
    /\ EmptyLimit \in Nat
    /\ MaxCalls \in Nat

VARIABLES
    state,               \* the killswitch state machine
    channels,            \* the last RC frame, or NoChannels
    empty_crsf_count,    \* consecutive empty reads, counted to EmptyLimit + 1
    service_call_queue,  \* init calls still to be made
    previous_was_static, \* the last stick command published was zero
    killswitch,          \* the last message on topic killswitch
    cmd_vel_joy,         \* the last message on topic cmd_vel_joy
    link,                \* environment: does the radio link carry bytes?
    handset,             \* environment: the frame the handset is sending
    raced                \* history: the last kill found an init call outstanding

nodeVars == <<state, channels, empty_crsf_count, service_call_queue,
              previous_was_static, killswitch, cmd_vel_joy, raced>>
envVars == <<link, handset>>
vars == <<nodeVars, envVars, driveVars>>

(* A frame, as far as the node tells frames apart: the sign of switch SA   *)
(* and whether a stick axis is outside the dead zone (min_joy_pos).        *)
Frames == [sa : {-1, 0, 1}, stick : {"centre", "moved"}]

(* channels = [] *)
NoChannels == [sa |-> 0, stick |-> "none"]

TypeOK ==
    /\ DrivesTypeOK
    /\ state \in {"init", "kill", "run"}
    /\ channels \in Frames \cup {NoChannels}
    /\ empty_crsf_count \in 0..(EmptyLimit + 1)
    /\ service_call_queue \in Seq(Drives)
    /\ previous_was_static \in BOOLEAN
    /\ killswitch \in {"unset", "on", "off"}
    /\ cmd_vel_joy \in {"none", "zero", "move"}
    /\ link \in {"up", "down"}
    /\ handset \in Frames
    /\ raced \in BOOLEAN

Init ==
    /\ DrivesInit
    /\ state = "init"
    /\ channels = NoChannels
    /\ empty_crsf_count = 0
    /\ service_call_queue = <<>>
    /\ previous_was_static = TRUE
    /\ killswitch = "unset"
    /\ cmd_vel_joy = "none"
    /\ link \in {"up", "down"}
    /\ handset \in Frames
    /\ raced = FALSE

-----------------------------------------------------------------------------
(* An init call is queued or has been sent and not yet served. *)
InitOutstanding == service_call_queue # <<>> \/ InitInFlight

(* One request more to drive d, of the kind that req counts. *)
Call(req, d) == [req EXCEPT ![d] = @ + 1]

(* Halt requests are idempotent and nobody waits for their answers, so     *)
(* they are counted up to MaxHalts only.                                   *)
HaltAll ==
    [d \in Drives |-> IF d \in KillDrives /\ haltReq[d] < MaxHalts
                      THEN haltReq[d] + 1 ELSE haltReq[d]]

(* The queue is popped before the call is made. *)
ServiceQueueProcess(queue) ==
    IF queue = <<>>
    THEN service_call_queue' = <<>> /\ UNCHANGED initReq
    ELSE /\ service_call_queue' = Tail(queue)
         /\ initReq' = Call(initReq, Head(queue))

(* Bug for QueueHasCaller: the calls are queued and none is made. *)
QueueUpOnly ==
    /\ service_call_queue' = service_call_queue \o InitSequence
    /\ UNCHANGED initReq

(* enter_run always finds the queue empty, so the sequence starts at once. *)
QueueUpServiceCalls ==
    IF service_call_queue = <<>>
    THEN ServiceQueueProcess(InitSequence)
    ELSE /\ service_call_queue' = service_call_queue \o InitSequence
         /\ UNCHANGED initReq

(* Bug for TopicsAgree and ImplementsGate: no zero velocity on a kill. *)
EnterKillSilent ==
    /\ state' = "kill"
    /\ killswitch' = "on"
    /\ haltReq' = HaltAll
    /\ raced' = InitOutstanding
    /\ UNCHANGED <<cmd_vel_joy, service_call_queue, previous_was_static, drive, initReq>>

(* Bug for CleanKillHalts: nothing to stop if the node never ran. *)
EnterKillIfRan ==
    /\ state' = "kill"
    /\ killswitch' = "on"
    /\ cmd_vel_joy' = "zero"
    /\ haltReq' = IF state = "init" THEN haltReq ELSE HaltAll
    /\ raced' = InitOutstanding
    /\ UNCHANGED <<service_call_queue, previous_was_static, drive, initReq>>

EnterKill ==
    /\ state' = "kill"
    /\ killswitch' = "on"
    /\ cmd_vel_joy' = "zero"
    /\ haltReq' = HaltAll
    /\ raced' = InitOutstanding
    /\ UNCHANGED <<service_call_queue, previous_was_static, drive, initReq>>

EnterRun ==
    /\ \A d \in Drives : initReq[d] < MaxCalls
    /\ answers < MaxCalls
    /\ state' = "run"
    /\ killswitch' = "off"
    /\ QueueUpServiceCalls
    /\ UNCHANGED <<drive, haltReq, raced>>

(* Bug for StaticMeansStill: a stick at rest is never published. *)
PublishStickMoved(frame) ==
    /\ previous_was_static' = (frame.stick = "centre")
    /\ cmd_vel_joy' = IF frame.stick = "moved" THEN "move" ELSE cmd_vel_joy

(* The stick is published while it is moved, and once more when it comes   *)
(* to rest.                                                                *)
PublishStick(frame) ==
    \/ /\ frame.stick = "moved"
       /\ previous_was_static' = FALSE
       /\ cmd_vel_joy' = "move"
    \/ /\ frame.stick = "centre"
       /\ previous_was_static' = TRUE
       /\ cmd_vel_joy' = IF previous_was_static THEN cmd_vel_joy ELSE "zero"

NodeIdle == UNCHANGED <<state, service_call_queue, previous_was_static,
                        killswitch, cmd_vel_joy, raced, drive, initReq, haltReq>>

(* Bug for QueueIsTail: the poll does not wait for the queue to empty. *)
ControlEager(frame) ==
    \/ frame = NoChannels /\ NodeIdle
    \/ /\ frame # NoChannels
       /\ \/ state # "run" /\ frame.sa > 0 /\ EnterRun /\ PublishStick(frame)
          \/ state = "init" /\ frame.sa <= 0 /\ EnterKill
          \/ state = "kill" /\ frame.sa <= 0 /\ NodeIdle
          \/ state = "run" /\ frame.sa < 0 /\ EnterKill
          \/ /\ state = "run" /\ frame.sa >= 0 /\ PublishStick(frame)
             /\ UNCHANGED <<state, service_call_queue, killswitch, raced,
                            drive, initReq, haltReq>>

(* Bug for SwitchKills: SA in the middle is not told from SA off, and SA   *)
(* off only stops the stick.                                               *)
ControlOnStick(frame) ==
    \/ /\ service_call_queue # <<>> \/ frame = NoChannels
       /\ NodeIdle
    \/ /\ service_call_queue = <<>> /\ frame # NoChannels
       /\ \/ state # "run" /\ frame.sa > 0 /\ EnterRun /\ PublishStick(frame)
          \/ state = "init" /\ frame.sa <= 0 /\ EnterKill
          \/ state = "kill" /\ frame.sa <= 0 /\ NodeIdle
          \/ state = "run" /\ frame.sa < 0 /\ frame.stick = "moved" /\ EnterKill
          \/ state = "run" /\ frame.sa < 0 /\ frame.stick = "centre" /\ NodeIdle
          \/ /\ state = "run" /\ frame.sa >= 0 /\ PublishStick(frame)
             /\ UNCHANGED <<state, service_call_queue, killswitch, raced,
                            drive, initReq, haltReq>>

(* What is left of a poll once the serial line has been read. The branch   *)
(* of init and that of kill fall through to the branch of run, so the poll *)
(* that enters run also publishes the stick.                               *)
Control(frame) ==
    \/ /\ service_call_queue # <<>> \/ frame = NoChannels
       /\ NodeIdle
    \/ /\ service_call_queue = <<>> /\ frame # NoChannels
       /\ \/ state # "run" /\ frame.sa > 0 /\ EnterRun /\ PublishStick(frame)
          \/ state = "init" /\ frame.sa <= 0 /\ EnterKill
          \/ state = "kill" /\ frame.sa <= 0 /\ NodeIdle
          \/ state = "run" /\ frame.sa < 0 /\ EnterKill
          \/ /\ state = "run" /\ frame.sa >= 0 /\ PublishStick(frame)
             /\ UNCHANGED <<state, service_call_queue, killswitch, raced,
                            drive, initReq, haltReq>>

(* The read returns bytes. They complete an RC frame, or they do not (part *)
(* of a frame, or a frame of another type): channels is as it was.         *)
PollBytes ==
    /\ link = "up"
    /\ empty_crsf_count' = 0
    /\ channels' \in {handset, channels}
    /\ Control(channels')

(* Bug for ArmingNeedsLink: a lost link kills and keeps the last frame. *)
PollEmptyKeeps ==
    /\ link = "down"
    /\ empty_crsf_count' = IF empty_crsf_count <= EmptyLimit
                           THEN empty_crsf_count + 1 ELSE empty_crsf_count
    /\ UNCHANGED channels
    /\ IF empty_crsf_count' > EmptyLimit /\ state # "kill"
       THEN EnterKill ELSE Control(channels)

(* Bug for DeadLinkKills: empty reads are not counted while the queue is   *)
(* not empty.                                                              *)
PollEmptyWaits ==
    /\ link = "down"
    /\ empty_crsf_count' = IF /\ service_call_queue = <<>>
                              /\ empty_crsf_count <= EmptyLimit
                           THEN empty_crsf_count + 1 ELSE empty_crsf_count
    /\ IF empty_crsf_count' > EmptyLimit /\ state # "kill"
       THEN EnterKill /\ channels' = NoChannels
       ELSE Control(channels) /\ UNCHANGED channels

(* The read returns nothing. The limit is only looked at outside kill.     *)
PollEmpty ==
    /\ link = "down"
    /\ empty_crsf_count' = IF empty_crsf_count <= EmptyLimit
                           THEN empty_crsf_count + 1 ELSE empty_crsf_count
    /\ IF empty_crsf_count' > EmptyLimit /\ state # "kill"
       THEN EnterKill /\ channels' = NoChannels
       ELSE Control(channels) /\ UNCHANGED channels

FastTimer ==
    /\ PollBytes \/ PollEmpty
    /\ UNCHANGED <<envVars, answers, restarts>>

(* Bug for TypeOK: the queue is processed without waiting for an answer. *)
ServiceDoneUnasked ==
    /\ service_call_queue # <<>>
    /\ answers' = answers - 1
    /\ ServiceQueueProcess(service_call_queue)
    /\ UNCHANGED <<state, channels, empty_crsf_count, previous_was_static,
                   killswitch, cmd_vel_joy, raced, envVars, drive, haltReq, restarts>>

(* Bug for QueueDrains: an answer makes no further call. *)
ServiceDoneStops ==
    /\ answers > 0
    /\ answers' = answers - 1
    /\ UNCHANGED <<nodeVars, envVars, drive, initReq, haltReq, restarts>>

(* The future of an init call is done. Its result, success or not, is not  *)
(* looked at: the next call of the queue is made.                          *)
ServiceDone ==
    /\ answers > 0
    /\ answers' = answers - 1
    /\ ServiceQueueProcess(service_call_queue)
    /\ UNCHANGED <<state, channels, empty_crsf_count, previous_was_static,
                   killswitch, cmd_vel_joy, raced, envVars, drive, haltReq, restarts>>

(* The operator flips SA or moves a stick. *)
OperatorMoves ==
    /\ \E f \in Frames \ {handset} : handset' = f
    /\ UNCHANGED <<nodeVars, link, driveVars>>

LinkChanges ==
    /\ link' \in {"up", "down"} \ {link}
    /\ UNCHANGED <<nodeVars, handset, driveVars>>

DrivesAct == DriveStep /\ UNCHANGED <<nodeVars, envVars>>

Next == FastTimer \/ ServiceDone \/ OperatorMoves \/ LinkChanges \/ DrivesAct

Spec == Init /\ [][Next]_vars

(* A timer keeps firing. While the link is up, a poll now and then finds a *)
(* complete RC frame.                                                      *)
PollFrame == FastTimer /\ link = "up" /\ channels' = handset

TimerFairness == WF_vars(FastTimer) /\ SF_vars(PollFrame)

(* The executor runs every callback that is due. The drives need not       *)
(* answer: a property that needs their answers says so (DriveFairness).    *)
FairSpec == Spec /\ TimerFairness /\ WF_vars(ServiceDone)

-----------------------------------------------------------------------------
(* Safety. *)

(* What the node last told the rest of the robot agrees with the state it  *)
(* is in: outside run its last velocity is not a moving one, in kill the   *)
(* killswitch topic says on, in run it says off. No interleaving of polls  *)
(* and answers leaves the three out of step.                               *)
TopicsAgree ==
    /\ state # "run" => cmd_vel_joy # "move"
    /\ state = "kill" => killswitch = "on" /\ cmd_vel_joy = "zero"
    /\ state = "run" => killswitch = "off"

(* The queue holds what is left of one init sequence, its first call       *)
(* excluded: two sequences are never queued behind one another, however    *)
(* often the operator goes through kill and back to run.                   *)
QueueIsTail ==
    \/ service_call_queue = <<>>
    \/ \E k \in 2..Len(InitSequence) :
          service_call_queue = SubSeq(InitSequence, k, Len(InitSequence))

(* While the drives answer, a queue that is not empty has a call under way *)
(* whose answer will pop it: the node is never deaf to SA for good.        *)
QueueHasCaller ==
    restarts = 0 /\ service_call_queue # <<>> => answers > 0 \/ InitInFlight

(* previous_was_static is what allows a poll to publish nothing: whenever  *)
(* it is set, the last velocity on the topic is not a moving one, through  *)
(* every kill and re-arm.                                                  *)
StaticMeansStill == previous_was_static => cmd_vel_joy # "move"

(* The queue is part of one init sequence and never stops by itself,       *)
(* however two sequences overlap.                                          *)
QueueSound == QueueIsTail /\ QueueHasCaller

(* What the node has said on its topics agrees with its state, and silence *)
(* never leaves a moving velocity behind.                                  *)
TopicsTellState == TopicsAgree /\ StaticMeansStill

(* A kill that found no init call outstanding leaves every drive of the    *)
(* kill sequence not enabled once its halt request has been served, for as *)
(* long as the node stays in kill.                                         *)
CleanKillHalts ==
    state = "kill" /\ ~raced =>
        \A d \in KillDrives : haltReq[d] = 0 => drive[d] # "enabled"

(* A kill that found no init call outstanding leaves nothing behind that   *)
(* could arm or enable anything: no queued call, none in flight, and no    *)
(* frame with SA positive.                                                 *)
CleanKillLeavesNothing ==
    state # "run" /\ ~raced =>
        /\ ~InitOutstanding
        /\ channels = NoChannels \/ channels.sa <= 0

(* A clean kill is final: it halts, and nothing is left to undo it. *)
CleanKillIsFinal == CleanKillHalts /\ CleanKillLeavesNothing

(* Unless the last kill found an init call outstanding, the node arms only *)
(* on a poll that has just read bytes: a link-loss kill empties channels,  *)
(* so a dead link never arms the robot. (Without the premiss it does, see  *)
(* NoArmingOnDeadLink.)                                                    *)
ArmingNeedsLink ==
    [][state # "run" /\ state' = "run" /\ ~raced => empty_crsf_count' = 0]_vars

(* The node implements the abstract gate between the operator and the      *)
(* robot. The switch the gate sees is SA of the last frame.                *)
Gate == INSTANCE SafetyGate
            WITH armed <- state = "run", motion <- cmd_vel_joy,
                 switch <- channels.sa

ImplementsGate == Gate!GateSpec

(* Liveness. *)

(* A link that stays dead kills: with the timer running, the node ends up  *)
(* in kill for good, whatever the drives do. crsf_node.py:225.             *)
DeadLinkKills == <>[](link = "down") => <>[](state = "kill")

(* With a live link, drives that answer and SA held negative, the node     *)
(* ends up in kill for good.                                               *)
SwitchKills ==
    DriveFairness /\ <>[](link = "up" /\ handset.sa = -1) => <>[](state = "kill")

(* With drives that answer, every init sequence is sent to its end. *)
QueueDrains ==
    DriveFairness => (service_call_queue # <<>> ~> service_call_queue = <<>>)

(* The node is not deaf to the switch for good: what it waits for ends, and *)
(* the switch is obeyed.                                                    *)
SwitchIsHeard == SwitchKills /\ QueueDrains

-----------------------------------------------------------------------------
(* What the comments and the documentation say and the code does not do.   *)

(* ros2-architecture.rst:494, "kill: Safe state, motors stopped via halt   *)
(* services": once every request has been served, no drive is enabled.     *)
KillMeansHalted ==
    state = "kill" /\ ~InitOutstanding =>
        \A d \in KillDrives : haltReq[d] = 0 => drive[d] # "enabled"

(* ros2-architecture.rst:478, "Automatically enters kill mode on CRSF      *)
(* signal loss (50+ empty reads)": the node does not arm itself while the  *)
(* signal is lost.                                                         *)
NoArmingOnDeadLink ==
    [][state # "run" /\ state' = "run" => empty_crsf_count' <= EmptyLimit]_vars

=============================================================================
