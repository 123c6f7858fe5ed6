---------------------------- MODULE DriveSources ----------------------------
(***************************************************************************)
(* Two programs that drive the robot through the velocity multiplexer:      *)
(* ad_r1m_examples/imu_hil_demo/scripts/imu_hil_controller.py, whose keys   *)
(* W and S nudge the robot for KEY_PULSE_DURATION and whose control loop    *)
(* turns it to the yaw of an IMU, and lift_waypoint_demo/scripts/           *)
(* velocity_control.py, which drives a list of commands. The channels are   *)
(* those of imu_hil_demo/config/twist_mux_hil.yaml. twist_mux, the wheel    *)
(* controller and the program that holds the killswitch are external.       *)
(*                                                                          *)
(* Time passes in Ticks of a tenth of a second; a deadline is the ticks     *)
(* left, -1 once it is over. Timers are on time: each fires between two     *)
(* ticks, once or more often, and the two writes of a key fit between two   *)
(* ticks as well. Messages arrive at once. A velocity is 0 or 1.            *)
(***************************************************************************)
EXTENDS Integers, Sequences

CONSTANTS
    KEY_PULSE_DURATION,  \* 0.3 s
    Timeout,             \* of a channel: hil 0.5 s, nav 0.1 s
    CmdTimeout,          \* cmd_vel_timeout of the wheel controller, 0.5 s
    Commands,            \* example_commands: records of linear, angular, duration
    Longest              \* no command takes longer

Channels == {"hil", "nav"}
Twist == [linear : {0, 1}, angular : {0, 1}]
Still == [linear |-> 0, angular |-> 0]

ASSUME DriveSourcesAssumption ==
    /\ KEY_PULSE_DURATION \in Nat /\ CmdTimeout \in Nat \ {0}
    /\ Timeout \in [Channels -> Nat]
    /\ Longest \in Nat /\ Commands \in 
         Seq([linear : {0, 1}, angular : {0, 1}, duration : 0..Longest])

VARIABLES
    linear_x, deadline, \* _linear_x and _linear_x_deadline
    loop,               \* the control loop: idle, zero, publish or off
    astray,             \* a yaw of the IMU is known, and it is not _sim_yaw
    key,                \* the key thread: reads, or is between its two writes
    cmd_vel,            \* cmd_vel_msg of velocity_control
    ends, armed,        \* its deadline; armed: not DEADLINE_OVER
    step,               \* commands begun
    alive,              \* velocity_control runs
    fresh,              \* ticks until the last message of a channel is old
    lock,               \* the killswitch
    wheels, master, hold, \* what the wheels do, who said so, for how long yet
    due,                \* timers that fire before the next tick
    since,              \* history: ticks since a channel last began to move
    locked,             \* history: ticks the killswitch has been on
    straight,           \* history: ticks since the loop had a yaw to turn to
    kept                \* history: pressed again in time (NudgeKept)

hilVars == <<linear_x, deadline, loop, astray, key, kept>>
demoVars == <<cmd_vel, ends, armed, step, alive>>
muxVars == <<fresh, wheels, master, hold>>
ghostVars == <<since, locked, straight>>
vars == <<hilVars, demoVars, muxVars, lock, due, ghostVars>>

(* How long a channel may move the wheels after it last began to: its      *)
(* pulse or its command, and the controller's time-out.                    *)
Limit(c) == (IF c = "hil" THEN KEY_PULSE_DURATION ELSE Longest) + CmdTimeout

TypeOK ==
    /\ linear_x \in {0, 1} /\ deadline \in -1..KEY_PULSE_DURATION
    /\ loop \in {"idle", "zero", "publish", "off"}
    /\ astray \in BOOLEAN /\ key \in {"read", "moving", "stopping", "gone"}
    /\ cmd_vel \in Twist /\ ends \in -1..Longest
    /\ armed \in BOOLEAN /\ step \in 0..Len(Commands) /\ alive \in BOOLEAN
    /\ fresh \in [Channels -> Nat] /\ since \in [Channels -> Nat]
    /\ \A c \in Channels : fresh[c] <= Timeout[c] /\ since[c] <= Limit(c)
    /\ lock \in BOOLEAN /\ wheels \in Twist /\ master \in Channels /\ hold \in 0..CmdTimeout
    /\ due \subseteq Channels
    /\ locked \in 0..CmdTimeout /\ straight \in 0..CmdTimeout /\ kept \in BOOLEAN

Init ==
    /\ linear_x = 0 /\ deadline = -1 /\ loop = "idle" /\ astray = FALSE /\ key = "read"
    /\ cmd_vel = Still /\ ends = -1 /\ armed = FALSE /\ step = 0 /\ alive = TRUE
    /\ fresh = [c \in Channels |-> 0]
    /\ lock = FALSE /\ wheels = Still /\ master = "hil" /\ hold = 0
    /\ due = Channels
    /\ since = [c \in Channels |-> Limit(c)]
    /\ locked = 0 /\ straight = CmdTimeout /\ kept = FALSE

-----------------------------------------------------------------------------
(* The multiplexer passes a message on when no channel that is not old has *)
(* a higher priority, and no lock that is on.                              *)
Priority == [hil |-> 45, nav |-> 30]

(* Bug for MotionEnds: the lock has the priority of a channel. *)
WeakLock == 40
LockPriority == 255

(* Bug for TypeOK: a message counts for a tick too long. *)
MessageLonger(c, v) ==
    /\ fresh' = [fresh EXCEPT ![c] = Timeout[c] + 1]
    /\ IF (\A d \in Channels \ {c} : fresh[d] > 0 => Priority[d] < Priority[c])
          /\ ~(lock /\ LockPriority > Priority[c])
       THEN wheels' = v /\ master' = c /\ hold' = CmdTimeout
       ELSE UNCHANGED <<wheels, master, hold>>

Message(c, v) ==
    /\ fresh' = [fresh EXCEPT ![c] = Timeout[c]]
    /\ IF (\A d \in Channels \ {c} : fresh[d] > 0 => Priority[d] < Priority[c])
          /\ ~(lock /\ LockPriority > Priority[c])
       THEN wheels' = v /\ master' = c /\ hold' = CmdTimeout
       ELSE UNCHANGED <<wheels, master, hold>>

(* Whoever holds the killswitch turns it on or off. *)
Killswitch(b) ==
    /\ lock # b /\ lock' = b
    /\ locked' = 0
    /\ UNCHANGED <<hilVars, demoVars, muxVars, due, since, straight>>

-----------------------------------------------------------------------------
(* _control_loop, in the executor's thread: the deadline is read, then     *)
(* _linear_x may be written, then it is read and published. The key thread *)
(* runs in between.                                                        *)

(* Bugs for MotionEnds and for NudgeKept: the deadline is not looked at;   *)
(* it is taken for over although it is not.                                *)
NeverCheck ==
    /\ loop = "idle"
    /\ loop' = "publish"
    /\ UNCHANGED <<linear_x, deadline, astray, key, kept, demoVars, muxVars, lock, due, ghostVars>>

CheckEarly ==
    /\ loop = "idle"
    /\ loop' = IF deadline <= 0 THEN "zero" ELSE "publish"
    /\ UNCHANGED <<linear_x, deadline, astray, key, kept, demoVars, muxVars, lock, due, ghostVars>>

CheckDeadline ==
    /\ loop = "idle"
    /\ loop' = IF deadline < 0 THEN "zero" ELSE "publish"
    /\ UNCHANGED <<linear_x, deadline, astray, key, kept, demoVars, muxVars, lock, due, ghostVars>>

Zero ==
    /\ loop = "zero" /\ loop' = "publish"
    /\ linear_x' = 0
    /\ UNCHANGED <<deadline, astray, key, kept, demoVars, muxVars, lock, due, ghostVars>>

Publish ==
    /\ loop = "publish" /\ loop' = "idle"
    /\ Message("hil", [linear |-> linear_x, angular |-> IF astray THEN 1 ELSE 0])
    /\ due' = due \ {"hil"}
    /\ UNCHANGED <<linear_x, deadline, astray, key, kept, demoVars, lock, ghostVars>>

(* A message of the IMU or of the odometry, in the executor's thread too.  *)
Yaw(b) ==
    /\ loop = "idle" /\ astray' = b
    /\ straight' = IF b THEN 0 ELSE straight
    /\ UNCHANGED <<linear_x, deadline, loop, key, kept, demoVars, muxVars, lock, due, since, locked>>

(* The key thread: the velocity, then the deadline; q shuts the node down, *)
(* and the loop with it wherever it is, without a zero.                    *)
KeyMove ==
    /\ key = "read" /\ key' = "moving"
    /\ linear_x' = 1
    /\ since' = [since EXCEPT !["hil"] = 0]
    /\ UNCHANGED <<deadline, loop, astray, kept, demoVars, muxVars, lock, due, locked, straight>>

MoveDeadline ==
    /\ key = "moving" /\ key' = "read"
    /\ deadline' = KEY_PULSE_DURATION
    /\ kept' = (deadline >= 0 /\ linear_x = 1 /\ loop # "zero")
    /\ UNCHANGED <<linear_x, loop, astray, demoVars, muxVars, lock, due, ghostVars>>

KeySpace ==
    /\ key = "read" /\ key' = "stopping"
    /\ linear_x' = 0 /\ kept' = FALSE
    /\ UNCHANGED <<deadline, loop, astray, demoVars, muxVars, lock, due, ghostVars>>

StopDeadline ==
    /\ key = "stopping" /\ key' = "read"
    /\ deadline' = -1
    /\ UNCHANGED <<linear_x, loop, astray, kept, demoVars, muxVars, lock, due, ghostVars>>

KeyQ ==
    /\ key = "read" /\ key' = "gone"
    /\ loop' = "off" /\ due' = due \ {"hil"}
    /\ UNCHANGED <<linear_x, deadline, astray, kept, demoVars, muxVars, lock, ghostVars>>

-----------------------------------------------------------------------------
(* velocity_control: main() sets the next command as soon as timer_tick    *)
(* has let the last one end, which publishes one zero.                     *)
SetVelocityFor ==
    /\ alive /\ ~armed /\ step < Len(Commands)
    /\ step' = step + 1 /\ armed' = TRUE
    /\ cmd_vel' = [linear |-> Commands[step'].linear, angular |-> Commands[step'].angular]
    /\ ends' = Commands[step'].duration
    /\ since' = IF cmd_vel' # Still THEN [since EXCEPT !["nav"] = 0] ELSE since
    /\ UNCHANGED <<alive, hilVars, muxVars, lock, due, locked, straight>>

TimerTick ==
    /\ alive /\ armed
    /\ cmd_vel' = IF ends < 0 THEN Still ELSE cmd_vel
    /\ armed' = (ends >= 0)
    /\ Message("nav", cmd_vel')
    /\ due' = due \ {"nav"}
    /\ UNCHANGED <<ends, step, alive, hilVars, lock, ghostVars>>

(* All commands are done, or somebody interrupts the program. *)
Leave ==
    /\ alive /\ alive' = FALSE
    /\ due' = due \ {"nav"}
    /\ UNCHANGED <<cmd_vel, ends, armed, step, hilVars, muxVars, lock, ghostVars>>

-----------------------------------------------------------------------------
Less(n) == IF n > 0 THEN n - 1 ELSE 0
More(n) == IF n < CmdTimeout THEN n + 1 ELSE n
Timers == {c \in Channels : IF c = "hil" THEN loop # "off" ELSE alive}

(* A tenth of a second: deadlines come closer, messages grow old, and the  *)
(* controller stops wheels it has heard nothing for.                       *)
Tick ==
    /\ due = {} /\ loop \in {"idle", "off"} /\ key \in {"read", "gone"}
    /\ ~(alive /\ ~armed /\ step < Len(Commands))
    /\ due' = IF armed THEN Timers ELSE Timers \ {"nav"}
    /\ deadline' = IF deadline >= 0 THEN deadline - 1 ELSE -1
    /\ kept' = (kept /\ deadline > 0)
    /\ ends' = IF ends >= 0 THEN ends - 1 ELSE -1
    /\ fresh' = [c \in Channels |-> Less(fresh[c])]
    /\ hold' = Less(hold)
    /\ wheels' = IF hold' = 0 THEN Still ELSE wheels
    /\ since' = [c \in Channels |-> IF since[c] = Limit(c) THEN since[c] ELSE since[c] + 1]
    /\ locked' = IF lock THEN More(locked) ELSE locked
    /\ straight' = IF astray /\ loop # "off" THEN 0 ELSE More(straight)
    /\ UNCHANGED <<linear_x, loop, astray, key, cmd_vel, armed, step, alive, lock, master>>

Next ==
    \/ CheckDeadline \/ Zero \/ Publish
    \/ KeyMove \/ MoveDeadline \/ KeySpace \/ StopDeadline \/ KeyQ
    \/ SetVelocityFor \/ TimerTick \/ Leave
    \/ Tick
    \/ \E b \in BOOLEAN : Killswitch(b) \/ Yaw(b)

Spec == Init /\ [][Next]_vars

-----------------------------------------------------------------------------
(* Properties *)

(* Motion ends. A nudge does within its pulse and the time-outs, also when *)
(* q or a race of the two threads keeps its zero from being published; a   *)
(* command of velocity_control, also one that turns, within its duration,  *)
(* also when the program dies or is masked by the other (155, 188, 203;    *)
(* velocity_control.py:73). The loop that turns the robot to the IMU's yaw *)
(* has no deadline: it turns for as long as the yaws known differ, and     *)
(* stops within the controller's time-out once they agree or the node is   *)
(* gone (161-170). Under the killswitch everything stops within that time, *)
(* whoever drives (twist_mux_hil.yaml:16-19).                              *)
MotionEnds ==
    /\ wheels.linear = 1 \/ (wheels # Still /\ master = "nav") => since[master] < Limit(master)
    /\ wheels.angular = 1 /\ master = "hil" => straight < CmdTimeout
    /\ wheels # Still => locked < CmdTimeout

(* A key pressed again while its speed lasts keeps the speed until the new *)
(* deadline: of the two threads' races only the one of a key with an       *)
(* expired deadline loses a nudge (155-156, 188-189).                      *)
NudgeKept == kept => linear_x = 1
=============================================================================
