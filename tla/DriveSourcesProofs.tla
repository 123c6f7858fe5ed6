-------------------------- MODULE DriveSourcesProofs --------------------------
(***************************************************************************)
(* Theorems of DriveSources, for every pulse, time-out and list of          *)
(* commands: nothing of the environment is bounded, and no timer need fire. *)
(***************************************************************************)
EXTENDS DriveSources, SequenceTheorems, TLAPS

(* The constants, and the bounds made of them, are natural numbers. *)
LEMMA BoundFacts ==
    /\ KEY_PULSE_DURATION \in Nat /\ Longest \in Nat /\ CmdTimeout \in Nat /\ CmdTimeout > 0
    /\ \A c \in Channels : Timeout[c] \in Nat /\ Limit(c) \in Nat
    /\ Limit("hil") = KEY_PULSE_DURATION + CmdTimeout
    /\ Limit("nav") = Longest + CmdTimeout
  BY DriveSourcesAssumption DEF Limit, Channels

(* The commands of the list. *)
LEMMA CommandFacts ==
    \A i \in 1..Len(Commands) :
        /\ Commands[i].linear \in {0, 1} /\ Commands[i].angular \in {0, 1}
        /\ Commands[i].duration \in 0..Longest
  <1>1. \A i \in 1..Len(Commands) :
           Commands[i] \in [linear : {0, 1}, angular : {0, 1}, duration : 0..Longest]
    BY DriveSourcesAssumption, ElementOfSeq
  <1> QED
    BY <1>1

(* A message, passed on or not, keeps the types of the multiplexer. *)
LEMMA MessageTypes ==
    ASSUME TypeOK, NEW c \in Channels, NEW v \in Twist, Message(c, v)
    PROVE  /\ fresh' \in [Channels -> Nat] /\ \A d \in Channels : fresh'[d] <= Timeout[d]
           /\ wheels' \in Twist /\ master' \in Channels /\ hold' \in 0..CmdTimeout
  <1>1. fresh' \in [Channels -> Nat] /\ \A d \in Channels : fresh'[d] <= Timeout[d]
    BY BoundFacts DEF TypeOK, Message
  <1>2. \/ wheels' = v /\ master' = c /\ hold' = CmdTimeout
        \/ UNCHANGED <<wheels, master, hold>>
    BY DEF Message
  <1> QED
    BY <1>1, <1>2, BoundFacts DEF TypeOK

(* Velocities, and no motion. *)
LEMMA TwistFacts ==
    /\ Still \in Twist /\ Still.linear = 0 /\ Still.angular = 0
    /\ \A a, b \in {0, 1} : LET v == [linear |-> a, angular |-> b] IN
           v \in Twist /\ v.linear = a /\ v.angular = b
  BY DEF Still, Twist

(* What the loop publishes. *)
LoopTwist == [linear |-> linear_x, angular |-> IF astray THEN 1 ELSE 0]

LEMMA LoopTwistFacts ==
    TypeOK => LoopTwist \in Twist /\ LoopTwist.linear = linear_x /\ (LoopTwist.angular = 1 <=> astray)
  <1> SUFFICES ASSUME TypeOK
               PROVE  /\ LoopTwist \in Twist /\ LoopTwist.linear = linear_x
                      /\ LoopTwist.angular = 1 <=> astray
    OBVIOUS
  <1>1. linear_x \in {0, 1}
    BY DEF TypeOK
  <1>2. CASE astray
    BY <1>1, <1>2 DEF LoopTwist, Twist
  <1>3. CASE ~astray
    BY <1>1, <1>3 DEF LoopTwist, Twist
  <1> QED
    BY <1>2, <1>3

(* How long nothing was to be turned to, at a tick. *)
LEMMA TickStraight ==
    Tick => straight' = IF astray /\ loop # "off" THEN 0
                        ELSE IF straight < CmdTimeout THEN straight + 1 ELSE straight
  BY DEF Tick, More

(* Every step keeps the types. *)
LEMMA DriveTypeStep == TypeOK /\ [Next]_vars => TypeOK'
  <1> SUFFICES ASSUME TypeOK, [Next]_vars PROVE TypeOK'
    OBVIOUS
  <1> USE BoundFacts DEF Channels
  <1>1. CASE CheckDeadline
    BY <1>1 DEF CheckDeadline, TypeOK, demoVars, muxVars, ghostVars
  <1>2. CASE Zero
    BY <1>2 DEF Zero, TypeOK, demoVars, muxVars, ghostVars
  <1>3. CASE Publish
    <2>1. Message("hil", LoopTwist)
      BY <1>3 DEF Publish, LoopTwist
    <2>2. /\ fresh' \in [Channels -> Nat] /\ \A d \in Channels : fresh'[d] <= Timeout[d]
          /\ wheels' \in Twist /\ master' \in Channels /\ hold' \in 0..CmdTimeout
      BY <2>1, MessageTypes, LoopTwistFacts
    <2> QED
      BY <1>3, <2>2 DEF Publish, TypeOK, demoVars, ghostVars
  <1>4. CASE KeyMove
    BY <1>4 DEF KeyMove, TypeOK, demoVars, muxVars
  <1>5. CASE MoveDeadline
    BY <1>5 DEF MoveDeadline, TypeOK, demoVars, muxVars, ghostVars
  <1>6. CASE KeySpace
    BY <1>6 DEF KeySpace, TypeOK, demoVars, muxVars, ghostVars
  <1>7. CASE StopDeadline
    BY <1>7 DEF StopDeadline, TypeOK, demoVars, muxVars, ghostVars
  <1>8. CASE KeyQ
    BY <1>8 DEF KeyQ, TypeOK, demoVars, muxVars, ghostVars
  <1>9. CASE SetVelocityFor
    <2>1. step' \in 1..Len(Commands) /\ step' = step + 1
      BY <1>9, DriveSourcesAssumption DEF SetVelocityFor, TypeOK
    <2>2. cmd_vel' \in Twist /\ ends' \in 0..Longest
      <3>1. Commands[step'].linear \in {0, 1} /\ Commands[step'].angular \in {0, 1}
        BY <2>1, CommandFacts
      <3>2. ends' \in 0..Longest
        BY <1>9, <2>1, CommandFacts DEF SetVelocityFor
      <3> QED
        BY <1>9, <3>1, <3>2, TwistFacts DEF SetVelocityFor
    <2>3. since' \in [Channels -> Nat] /\ \A c \in Channels : since'[c] <= Limit(c)
      BY <1>9 DEF SetVelocityFor, TypeOK
    <2>4. ends' \in -1..Longest
      BY <2>2
    <2> QED
      BY <1>9, <2>1, <2>2, <2>3, <2>4 DEF SetVelocityFor, TypeOK, hilVars, muxVars
  <1>10. CASE TimerTick
    <2>1. cmd_vel' \in Twist
      BY <1>10, TwistFacts DEF TimerTick, TypeOK
    <2>2. armed' \in BOOLEAN
      BY <1>10 DEF TimerTick
    <2>3. Message("nav", cmd_vel')
      BY <1>10 DEF TimerTick
    <2>4. /\ fresh' \in [Channels -> Nat] /\ \A d \in Channels : fresh'[d] <= Timeout[d]
          /\ wheels' \in Twist /\ master' \in Channels /\ hold' \in 0..CmdTimeout
      BY <2>1, <2>3, MessageTypes
    <2> QED
      BY <1>10, <2>1, <2>2, <2>4 DEF TimerTick, TypeOK, hilVars, ghostVars
  <1>11. CASE Leave
    BY <1>11 DEF Leave, TypeOK, hilVars, muxVars, ghostVars
  <1>12. CASE Tick
    <2>1. fresh' \in [Channels -> Nat] /\ \A c \in Channels : fresh'[c] <= Timeout[c]
      BY <1>12 DEF Tick, TypeOK, Less
    <2>2. since' \in [Channels -> Nat] /\ \A c \in Channels : since'[c] <= Limit(c)
      BY <1>12 DEF Tick, TypeOK
    <2>3. hold' \in 0..CmdTimeout
      BY <1>12 DEF Tick, TypeOK, Less
    <2>8. wheels' \in Twist
      BY <1>12, TwistFacts DEF Tick, TypeOK
    <2>4. deadline' \in -1..KEY_PULSE_DURATION /\ ends' \in -1..Longest
      BY <1>12 DEF Tick, TypeOK
    <2>5. locked' \in 0..CmdTimeout
      BY <1>12 DEF Tick, TypeOK, More
    <2>7. straight' \in 0..CmdTimeout
      BY <1>12, TickStraight DEF TypeOK
    <2>6. due' \subseteq Channels /\ kept' \in BOOLEAN
      BY <1>12 DEF Tick, TypeOK, Timers
    <2> QED
      BY <1>12, <2>1, <2>2, <2>3, <2>4, <2>5, <2>6, <2>7, <2>8 DEF Tick, TypeOK
  <1>13. CASE \E b \in BOOLEAN : Killswitch(b)
    BY <1>13 DEF Killswitch, TypeOK, hilVars, demoVars, muxVars
  <1>14. CASE UNCHANGED vars
    BY <1>14 DEF vars, hilVars, demoVars, muxVars, ghostVars, TypeOK
  <1>15. CASE \E b \in BOOLEAN : Yaw(b)
    <2>1. straight' \in 0..CmdTimeout
      BY <1>15 DEF Yaw, TypeOK
    <2>2. astray' \in BOOLEAN
      BY <1>15 DEF Yaw
    <2> QED
      BY <1>15, <2>1, <2>2 DEF Yaw, TypeOK, demoVars, muxVars
  <1> QED
    BY <1>1, <1>2, <1>3, <1>4, <1>5, <1>6, <1>7, <1>8, <1>9, <1>10, <1>11, <1>12, <1>13, <1>14, <1>15
       DEF Next

(* The start. *)
LEMMA DriveTypeInit == Init => TypeOK
  <1> SUFFICES ASSUME Init PROVE TypeOK
    OBVIOUS
  <1>1. fresh \in [Channels -> Nat] /\ since \in [Channels -> Nat]
    BY BoundFacts DEF Init
  <1>2. \A c \in Channels : fresh[c] <= Timeout[c] /\ since[c] <= Limit(c)
    BY BoundFacts DEF Init
  <1>3. step \in 0..Len(Commands)
    <2>1. Len(Commands) \in Nat
      BY DriveSourcesAssumption
    <2> QED
      BY <2>1 DEF Init
  <1>4. /\ linear_x \in {0, 1} /\ deadline \in -1..KEY_PULSE_DURATION
        /\ ends \in -1..Longest
        /\ hold \in 0..CmdTimeout /\ locked \in 0..CmdTimeout /\ straight \in 0..CmdTimeout
    BY BoundFacts DEF Init
  <1>6. cmd_vel \in Twist /\ wheels \in Twist
    BY TwistFacts DEF Init
  <1>5. /\ armed \in BOOLEAN /\ alive \in BOOLEAN /\ lock \in BOOLEAN /\ kept \in BOOLEAN
        /\ astray \in BOOLEAN /\ master \in Channels /\ due \subseteq Channels
    BY DEF Init, Channels
  <1> QED
    BY <1>1, <1>2, <1>3, <1>4, <1>5, <1>6 DEF Init, TypeOK

(* Type correctness, for every pulse, time-out and list of commands. *)
THEOREM DriveTypes == Spec => []TypeOK
  <1>1. Init => TypeOK
    BY DriveTypeInit
  <1>2. TypeOK /\ [Next]_vars => TypeOK'
    BY DriveTypeStep
  <1> QED
    BY <1>1, <1>2, PTL DEF Spec

-----------------------------------------------------------------------------
(* What keeps a nudge: while it is due to be kept its deadline is ahead,   *)
(* no iteration of the loop is about to zero it, and no key has stopped it. *)
Nudged ==
    /\ kept => linear_x = 1 /\ deadline >= 0 /\ loop # "zero"
    /\ key = "stopping" => linear_x = 0

(* Every step keeps that. *)
LEMMA NudgedStep == TypeOK /\ Nudged /\ [Next]_vars => Nudged'
  <1> SUFFICES ASSUME TypeOK, Nudged, [Next]_vars PROVE Nudged'
    OBVIOUS
  <1> USE DEF Nudged
  <1>1. CASE CheckDeadline
    BY <1>1 DEF CheckDeadline, TypeOK
  <1>2. CASE Zero
    BY <1>2 DEF Zero
  <1>3. CASE Publish
    BY <1>3 DEF Publish
  <1>4. CASE KeyMove
    BY <1>4 DEF KeyMove
  <1>5. CASE MoveDeadline
    <2>1. /\ deadline' = KEY_PULSE_DURATION /\ deadline' >= 0 /\ key' = "read"
          /\ linear_x' = linear_x /\ loop' = loop
      BY <1>5, BoundFacts DEF MoveDeadline
    <2>2. kept' => linear_x = 1 /\ loop # "zero"
      BY <1>5 DEF MoveDeadline
    <2> QED
      BY <2>1, <2>2
  <1>6. CASE KeySpace
    BY <1>6 DEF KeySpace
  <1>7. CASE StopDeadline
    BY <1>7 DEF StopDeadline
  <1>8. CASE KeyQ
    BY <1>8 DEF KeyQ
  <1>9. CASE SetVelocityFor \/ TimerTick \/ Leave \/ \E b \in BOOLEAN : Killswitch(b) \/ Yaw(b)
    BY <1>9 DEF SetVelocityFor, TimerTick, Leave, Killswitch, Yaw, hilVars
  <1>10. CASE Tick
    <2>1. kept' => kept /\ deadline > 0
      BY <1>10 DEF Tick
    <2>2. linear_x' = linear_x /\ loop' = loop /\ key' = key
          /\ deadline' = (IF deadline >= 0 THEN deadline - 1 ELSE -1)
      BY <1>10 DEF Tick
    <2> QED
      BY <2>1, <2>2 DEF TypeOK
  <1>11. CASE UNCHANGED vars
    BY <1>11 DEF vars, hilVars
  <1> QED
    BY <1>1, <1>2, <1>3, <1>4, <1>5, <1>6, <1>7, <1>8, <1>9, <1>10, <1>11 DEF Next

(* A key pressed again in time keeps its speed to the new deadline, in     *)
(* every interleaving of the key thread and the control loop.              *)
THEOREM NudgeAlwaysKept == Spec => []NudgeKept
  <1>1. Init => TypeOK /\ Nudged
    <2>1. Init => Nudged
      BY DEF Init, Nudged
    <2> QED
      BY <2>1, DriveTypeInit
  <1>2. (TypeOK /\ Nudged) /\ [Next]_vars => (TypeOK /\ Nudged)'
    BY DriveTypeStep, NudgedStep
  <1>3. Nudged => NudgeKept
    BY DEF Nudged, NudgeKept
  <1> QED
    BY <1>1, <1>2, <1>3, PTL DEF Spec

-----------------------------------------------------------------------------
(* Why motion ends. A speed in _linear_x is either being written, has its  *)
(* deadline ahead, or is not published any more; a command has its end     *)
(* ahead; and there is a yaw to turn to.                                   *)
SpeedEnds ==
    /\ key = "moving" => since["hil"] = 0
    /\ linear_x = 1 =>
          \/ key = "moving"
          \/ deadline >= 0 /\ since["hil"] + deadline <= KEY_PULSE_DURATION
          \/ deadline = -1 /\ loop # "publish"
    /\ cmd_vel # Still /\ ends >= 0 => since["nav"] + ends <= Longest
    /\ astray /\ loop # "off" => straight = 0
    /\ ~lock => locked = 0

(* Moved by a key or a command, and turned by the loop. *)
Driven(w, c) == w.linear = 1 \/ (w # Still /\ c = "nav")
Turned(w, c) == w.angular = 1 /\ c = "hil"

(* What the wheels do was published before that, and has as long to go as  *)
(* the controller holds it; and it was published before the killswitch,    *)
(* which lets nothing pass.                                                *)
WheelsEnd ==
    /\ wheels # Still => hold > 0 /\ locked + hold <= CmdTimeout
    /\ Driven(wheels, master) => since[master] + hold <= Limit(master)
    /\ Turned(wheels, master) => straight + hold <= CmdTimeout

LEMMA MovedFacts ==
    ASSUME NEW w, NEW c
    PROVE  Driven(w, c) \/ Turned(w, c) => w # Still
  BY DEF Driven, Turned, Still

(* Starting to count anew never makes the wheels go on for longer. *)
LEMMA WheelsStay ==
    ASSUME TypeOK, WheelsEnd, UNCHANGED muxVars,
           locked' \in {0, locked}, straight' \in {0, straight},
           \A c \in Channels : since'[c] \in {0, since[c]}
    PROVE  WheelsEnd'
  <1>1. /\ UNCHANGED <<wheels, master, hold>> /\ master \in Channels
        /\ hold \in 0..CmdTimeout /\ locked \in Nat /\ straight \in Nat /\ since[master] \in Nat
    BY BoundFacts DEF TypeOK, muxVars
  <1>2. /\ locked' \in Nat /\ locked' <= locked /\ straight' \in Nat /\ straight' <= straight
        /\ since'[master] \in Nat /\ since'[master] <= since[master]
    BY <1>1
  <1>0. CmdTimeout \in Nat /\ Limit(master) \in Nat /\ hold \in Nat
    BY <1>1, BoundFacts
  <1>8. \A a, b, h, l \in Nat : a <= b /\ b + h <= l => a + h <= l
    OBVIOUS
  <1>3. ASSUME wheels # Still PROVE hold > 0 /\ locked' + hold <= CmdTimeout
    <2>1. hold > 0 /\ locked + hold <= CmdTimeout
      BY <1>3 DEF WheelsEnd
    <2>2. locked' \in Nat /\ locked \in Nat /\ hold \in Nat /\ CmdTimeout \in Nat /\ locked' <= locked
      BY <1>0, <1>1, <1>2
    <2>3. locked + hold <= CmdTimeout
      BY <2>1
    <2>4. locked' + hold <= CmdTimeout
      BY <1>8, <2>2, <2>3, Zenon
    <2> QED
      BY <2>1, <2>4
  <1>4. ASSUME Driven(wheels, master) PROVE since'[master] + hold <= Limit(master)
    <2>1. since[master] + hold <= Limit(master)
      BY <1>4 DEF WheelsEnd
    <2> QED
      BY <1>0, <1>1, <1>2, <1>8, <2>1
  <1>5. ASSUME Turned(wheels, master) PROVE straight' + hold <= CmdTimeout
    <2>1. straight + hold <= CmdTimeout
      BY <1>5 DEF WheelsEnd
    <2>2. straight' \in Nat /\ straight \in Nat /\ hold \in Nat /\ CmdTimeout \in Nat /\ straight' <= straight
      BY <1>0, <1>1, <1>2
    <2>3. straight + hold <= CmdTimeout
      BY <2>1
    <2>4. straight' + hold <= CmdTimeout
      BY <1>8, <2>2, <2>3, Zenon
    <2> QED
      BY <2>1, <2>4
  <1>6. Driven(wheels, master)' = Driven(wheels, master) /\ Turned(wheels, master)' = Turned(wheels, master)
    BY <1>1 DEF Driven, Turned
  <1>7. Limit(master)' = Limit(master)
    BY <1>1 DEF Limit
  <1> QED
    BY <1>1, <1>3, <1>4, <1>5, <1>6, <1>7 DEF WheelsEnd

(* A message of a channel that has a reason to move. *)
LEMMA Passed ==
    ASSUME TypeOK, WheelsEnd, NEW c \in Channels, NEW v \in Twist, Message(c, v),
           ~lock => locked = 0,
           Driven(v, c) => since[c] + CmdTimeout <= Limit(c),
           Turned(v, c) => straight = 0,
           UNCHANGED <<since, locked, straight>>
    PROVE  WheelsEnd'
  <1>1. Priority[c] < LockPriority
    BY DEF Priority, LockPriority, Channels
  <1>2. CASE UNCHANGED <<wheels, master, hold>>
    <2>1. UNCHANGED <<Driven(wheels, master), Turned(wheels, master), Limit(master)>>
      BY <1>2 DEF Driven, Turned, Limit
    <2> QED
      BY <1>2, <2>1 DEF WheelsEnd
  <1>3. CASE wheels' = v /\ master' = c /\ hold' = CmdTimeout /\ ~lock
    <2>1. Driven(wheels, master)' = Driven(v, c) /\ Turned(wheels, master)' = Turned(v, c)
          /\ Limit(master)' = Limit(c)
      BY <1>3 DEF Driven, Turned, Limit
    <2>2. hold' > 0 /\ locked' + hold' <= CmdTimeout
      BY <1>3, BoundFacts
    <2>3. Driven(v, c) => since'[c] + hold' <= Limit(c)
      BY <1>3
    <2>4. Turned(v, c) => straight' + hold' <= CmdTimeout
      BY <1>3, BoundFacts
    <2> QED
      BY <1>3, <2>1, <2>2, <2>3, <2>4 DEF WheelsEnd
  <1> QED
    BY <1>1, <1>2, <1>3 DEF Message

(* A tick brings the end of the hold as much closer as it counts. *)
LEMMA TickWheels == TypeOK /\ WheelsEnd /\ Tick => WheelsEnd'
  <1> SUFFICES ASSUME TypeOK, WheelsEnd, Tick PROVE WheelsEnd'
    OBVIOUS
  <1>1. /\ hold' = IF hold > 0 THEN hold - 1 ELSE 0
        /\ wheels' = IF hold' = 0 THEN Still ELSE wheels
        /\ master' = master
    BY DEF Tick, Less
  <1>2. CASE wheels' = Still
    BY <1>2, MovedFacts DEF WheelsEnd
  <1>3. CASE wheels' # Still
    <2>1. hold \in Nat /\ hold > 1 /\ hold' = hold - 1 /\ wheels' = wheels
      BY <1>1, <1>3, BoundFacts DEF TypeOK
    <2>2. /\ locked' \in Nat /\ locked \in Nat /\ locked' <= locked + 1
          /\ since'[master] \in Nat /\ since[master] \in Nat /\ since'[master] <= since[master] + 1
      BY BoundFacts DEF Tick, TypeOK, More
    <2>3. straight' \in Nat /\ straight \in Nat /\ straight' <= straight + 1
      BY TickStraight, BoundFacts DEF TypeOK
    <2>4. Limit(master) \in Nat /\ Limit(master)' = Limit(master)
      BY <1>1, BoundFacts DEF TypeOK, Limit
    <2>5. UNCHANGED <<Driven(wheels, master), Turned(wheels, master)>>
      BY <1>1, <2>1 DEF Driven, Turned
    <2>6. \A a, b, h, l \in Nat : a <= b + 1 /\ b + h <= l /\ h > 1 => a + (h - 1) <= l
      OBVIOUS
    <2>7. locked + hold <= CmdTimeout
      BY <1>3, <2>1 DEF WheelsEnd
    <2>8. locked' + hold' <= CmdTimeout
      BY <2>1, <2>2, <2>6, <2>7, BoundFacts
    <2>9. ASSUME Driven(wheels, master) PROVE since'[master] + hold' <= Limit(master)
      <3>1. since[master] + hold <= Limit(master)
        BY <2>9 DEF WheelsEnd
      <3> QED
        BY <2>1, <2>2, <2>4, <2>6, <3>1
    <2>10. ASSUME Turned(wheels, master) PROVE straight' + hold' <= CmdTimeout
      <3>1. straight + hold <= CmdTimeout
        BY <2>10 DEF WheelsEnd
      <3> QED
        BY <2>1, <2>3, <2>6, <3>1, BoundFacts
    <2>11. hold' > 0
      BY <2>1
    <2> QED
      BY <1>1, <2>4, <2>5, <2>8, <2>9, <2>10, <2>11 DEF WheelsEnd
  <1> QED
    BY <1>2, <1>3

(* Every step keeps it. *)
LEMMA WheelsStep == TypeOK /\ SpeedEnds /\ WheelsEnd /\ [Next]_vars => WheelsEnd'
  <1> SUFFICES ASSUME TypeOK, SpeedEnds, WheelsEnd, [Next]_vars PROVE WheelsEnd'
    OBVIOUS
  <1>0. ~lock => locked = 0
    BY DEF SpeedEnds
  <1>1. CASE CheckDeadline \/ Zero \/ MoveDeadline \/ KeySpace \/ StopDeadline \/ KeyQ \/ Leave
             \/ UNCHANGED vars
    <2>1. UNCHANGED <<muxVars, since, locked, straight>>
      BY <1>1 DEF CheckDeadline, Zero, MoveDeadline, KeySpace, StopDeadline, KeyQ, Leave, vars, ghostVars
    <2> QED
      BY <2>1, WheelsStay
  <1>2. CASE Publish
    <2>1. /\ Message("hil", LoopTwist) /\ loop = "publish"
          /\ UNCHANGED <<since, locked, straight>>
      BY <1>2 DEF Publish, LoopTwist, ghostVars
    <2>2. LoopTwist \in Twist /\ LoopTwist.linear = linear_x /\ (LoopTwist.angular = 1 <=> astray)
      BY LoopTwistFacts
    <2>3. linear_x = 1 => since["hil"] + CmdTimeout <= Limit("hil")
      BY <2>1, BoundFacts DEF SpeedEnds, TypeOK, Channels
    <2>4. Driven(LoopTwist, "hil") => linear_x = 1
      BY <2>2 DEF Driven
    <2>5. Turned(LoopTwist, "hil") => straight = 0
      BY <2>1, <2>2 DEF Turned, SpeedEnds
    <2> QED
      BY <1>0, <2>1, <2>2, <2>3, <2>4, <2>5, Passed DEF Channels
  <1>3. CASE KeyMove \/ SetVelocityFor \/ \E b \in BOOLEAN : Killswitch(b) \/ Yaw(b)
    <2>1. UNCHANGED muxVars
      BY <1>3 DEF KeyMove, SetVelocityFor, Killswitch, Yaw
    <2>2. locked' \in {0, locked} /\ straight' \in {0, straight}
      BY <1>3 DEF KeyMove, SetVelocityFor, Killswitch, Yaw
    <2>3. \A c \in Channels : since'[c] \in {0, since[c]}
      BY <1>3 DEF KeyMove, SetVelocityFor, Killswitch, Yaw, TypeOK
    <2> QED
      BY <2>1, <2>2, <2>3, WheelsStay
  <1>4. CASE TimerTick
    <2>1. Message("nav", cmd_vel') /\ UNCHANGED <<since, locked, straight>>
          /\ cmd_vel' = IF ends < 0 THEN Still ELSE cmd_vel
      BY <1>4 DEF TimerTick, ghostVars
    <2>2. cmd_vel' \in Twist
      BY <2>1, TwistFacts DEF TypeOK
    <2>3. Driven(cmd_vel', "nav") => since["nav"] + CmdTimeout <= Limit("nav")
      <3>1. Driven(cmd_vel', "nav") => cmd_vel # Still /\ ends >= 0
        <4>1. Driven(cmd_vel', "nav") => cmd_vel' # Still
          BY MovedFacts
        <4>2. ends \in Int
          BY BoundFacts DEF TypeOK
        <4> QED
          BY <2>1, <4>1, <4>2
      <3> QED
        BY <3>1, BoundFacts DEF SpeedEnds, TypeOK, Channels
    <2>4. ~Turned(cmd_vel', "nav")
      BY DEF Turned
    <2> QED
      BY <1>0, <2>1, <2>2, <2>3, <2>4, Passed DEF Channels
  <1>5. CASE Tick
    BY <1>5, TickWheels
  <1> QED
    BY <1>1, <1>2, <1>3, <1>4, <1>5 DEF Next

LEMMA SpeedStep == TypeOK /\ Nudged /\ SpeedEnds /\ [Next]_vars => SpeedEnds'
  <1> SUFFICES ASSUME TypeOK, Nudged, SpeedEnds, [Next]_vars PROVE SpeedEnds'
    OBVIOUS
  <1> USE BoundFacts DEF Channels
  <1>1. CASE CheckDeadline
    BY <1>1 DEF CheckDeadline, SpeedEnds, TypeOK, demoVars, ghostVars
  <1>2. CASE Zero
    BY <1>2 DEF Zero, SpeedEnds, TypeOK, demoVars, ghostVars
  <1>3. CASE Publish
    BY <1>3 DEF Publish, SpeedEnds, TypeOK, demoVars, ghostVars
  <1>4. CASE KeyMove
    <2>1. since'["hil"] = 0 /\ since'["nav"] = since["nav"]
      BY <1>4 DEF KeyMove, TypeOK
    <2> QED
      BY <1>4, <2>1 DEF KeyMove, SpeedEnds, demoVars
  <1>5. CASE MoveDeadline
    BY <1>5 DEF MoveDeadline, SpeedEnds, TypeOK, demoVars, ghostVars
  <1>6. CASE KeySpace
    BY <1>6 DEF KeySpace, SpeedEnds, TypeOK, demoVars, ghostVars
  <1>7. CASE StopDeadline
    BY <1>7 DEF StopDeadline, SpeedEnds, Nudged, TypeOK, demoVars, ghostVars
  <1>8. CASE KeyQ
    BY <1>8 DEF KeyQ, SpeedEnds, TypeOK, demoVars, ghostVars
  <1>9. CASE SetVelocityFor
    <2>1. step' \in 1..Len(Commands)
      BY <1>9, DriveSourcesAssumption DEF SetVelocityFor, TypeOK
    <2>2. ends' \in 0..Longest
      BY <1>9, <2>1, CommandFacts DEF SetVelocityFor
    <2>3. since'["hil"] = since["hil"] /\ (cmd_vel' # Still => since'["nav"] = 0)
      BY <1>9 DEF SetVelocityFor, TypeOK
    <2> QED
      BY <1>9, <2>2, <2>3 DEF SetVelocityFor, SpeedEnds, hilVars
  <1>10. CASE TimerTick
    <2>1. cmd_vel' # Still => cmd_vel' = cmd_vel
      BY <1>10 DEF TimerTick
    <2>2. UNCHANGED <<ends, lock, key, linear_x, deadline, loop, astray, since, locked, straight>>
      BY <1>10 DEF TimerTick, hilVars, ghostVars
    <2> QED
      BY <2>1, <2>2 DEF SpeedEnds
  <1>11. CASE Leave
    BY <1>11 DEF Leave, SpeedEnds, hilVars, ghostVars
  <1>12. CASE Tick
    <2>1. \A c \in Channels : since'[c] = IF since[c] = Limit(c) THEN since[c] ELSE since[c] + 1
      BY <1>12 DEF Tick
    <2>2. /\ deadline' = IF deadline >= 0 THEN deadline - 1 ELSE -1
          /\ ends' = IF ends >= 0 THEN ends - 1 ELSE -1
          /\ locked' = IF lock /\ locked < CmdTimeout THEN locked + 1 ELSE locked
          /\ UNCHANGED <<linear_x, loop, astray, key, cmd_vel, lock>>
          /\ key # "moving" /\ loop \in {"idle", "off"}
      BY <1>12 DEF Tick, More
    <2>3. linear_x' = 1 => \/ deadline' >= 0 /\ since'["hil"] + deadline' <= KEY_PULSE_DURATION
                           \/ deadline' = -1 /\ loop' # "publish"
      BY <2>1, <2>2 DEF SpeedEnds, TypeOK
    <2>4. cmd_vel' # Still /\ ends' >= 0 => since'["nav"] + ends' <= Longest
      BY <2>1, <2>2 DEF SpeedEnds, TypeOK
    <2>5. astray' /\ loop' # "off" => straight' = 0
      BY <1>12, <2>2, TickStraight
    <2> QED
      BY <2>2, <2>3, <2>4, <2>5 DEF SpeedEnds, TypeOK
  <1>13. CASE \E b \in BOOLEAN : Killswitch(b)
    <2>1. UNCHANGED <<hilVars, demoVars, since, straight>> /\ locked' = 0
      BY <1>13 DEF Killswitch
    <2> QED
      BY <2>1 DEF SpeedEnds, TypeOK, hilVars, demoVars
  <1>14. CASE UNCHANGED vars
    BY <1>14 DEF vars, hilVars, demoVars, ghostVars, SpeedEnds
  <1>15. CASE \E b \in BOOLEAN : Yaw(b)
    <2>1. UNCHANGED <<linear_x, deadline, loop, key, demoVars, lock, since, locked>>
          /\ (astray' => straight' = 0)
      BY <1>15 DEF Yaw
    <2> QED
      BY <2>1 DEF SpeedEnds, demoVars
  <1> QED
    BY <1>1, <1>2, <1>3, <1>4, <1>5, <1>6, <1>7, <1>8, <1>9, <1>10, <1>11, <1>12, <1>13, <1>14, <1>15
       DEF Next

(* A nudge ends within its pulse, a command within its duration, turning   *)
(* to the IMU's yaw once there is nothing to turn to, each but for the     *)
(* time-out of the controller; and everything within that time-out alone   *)
(* once the killswitch is on.                                              *)
THEOREM MotionAlwaysEnds == Spec => []MotionEnds
  <1> DEFINE I == TypeOK /\ Nudged /\ SpeedEnds /\ WheelsEnd
  <1>1. Init => I
    <2> SUFFICES ASSUME Init PROVE I
      OBVIOUS
    <2>1. Nudged /\ SpeedEnds
      BY DEF Init, Nudged, SpeedEnds
    <2>2. wheels = Still
      BY DEF Init
    <2>3. WheelsEnd
      BY <2>2, MovedFacts DEF WheelsEnd
    <2> QED
      BY <2>1, <2>3, DriveTypeInit
  <1>2. I /\ [Next]_vars => I'
    BY DriveTypeStep, NudgedStep, SpeedStep, WheelsStep
  <1>3. I => MotionEnds
    <2> SUFFICES ASSUME TypeOK, WheelsEnd PROVE MotionEnds
      OBVIOUS
    <2>1. master \in Channels /\ locked \in Nat /\ straight \in Nat /\ hold \in Nat
          /\ since[master] \in Nat /\ Limit(master) \in Nat
      BY BoundFacts DEF TypeOK
    <2>2. ASSUME wheels # Still PROVE hold > 0 /\ locked < CmdTimeout
      BY <2>1, <2>2, BoundFacts DEF WheelsEnd
    <2>3. ASSUME Driven(wheels, master) PROVE since[master] < Limit(master)
      <3>1. hold > 0 /\ since[master] + hold <= Limit(master)
        BY <2>2, <2>3, MovedFacts DEF WheelsEnd
      <3> QED
        BY <2>1, <3>1
    <2>4. ASSUME Turned(wheels, master) PROVE straight < CmdTimeout
      <3>1. hold > 0 /\ straight + hold <= CmdTimeout
        BY <2>2, <2>4, MovedFacts DEF WheelsEnd
      <3> QED
        BY <2>1, <3>1, BoundFacts
    <2> QED
      BY <2>2, <2>3, <2>4 DEF MotionEnds, Driven, Turned
  <1> QED
    BY <1>1, <1>2, <1>3, PTL DEF Spec
=============================================================================
