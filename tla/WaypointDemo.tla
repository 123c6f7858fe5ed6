---------------------------- MODULE WaypointDemo ----------------------------
(***************************************************************************)
(* ad_r1m_examples/lift_waypoint_demo/scripts: a commander script that      *)
(* sends Nav2 one waypoint after the other and calls a service at each, and *)
(* the server of that service. Three commanders:                            *)
(*   "demo_run"          commander/demo_run.py, with lift/lift_node.py      *)
(*   "elevator_follower" commander/waypoint_follower.py, with               *)
(*                       commander/elevator_server.py                       *)
(*   "follower"          waypoint_follower.py, the one that is installed    *)
(*                                                                          *)
(* A commander is one thread; the stages it has ahead at a waypoint are in  *)
(* todo. Sleeps are left out: a stage may last as long as it likes. Places  *)
(* are integers on the line the vehicle drives along, in the distance at    *)
(* which localisation publishes a pose; Send moves the origin to the        *)
(* vehicle. Nav2 (external) also takes the goals of the topic goal_pose,    *)
(* each as late as it likes: before the action's, while it drives there, or *)
(* after it has arrived.                                                    *)
(***************************************************************************)
EXTENDS Integers, Sequences

CONSTANTS
    Route,       \* waypoints: records of go_back_after and raise_lift
    Distance,    \* what move_backwards(0.1, 0.2) moves, in units of pose
    QueueDepth,  \* of the subscription to /amcl_pose; 10 in the code
    GoalDepth,   \* of the publisher of goal_pose; 10 in the code
    Strays,      \* Pose(), known before any pose: where it may be on the line
    MaxDrive,    \* bound: units of a leg
    MaxLag,      \* bound: how far the vehicle is ahead of the pose known
    MaxCrashes   \* bound: crashes of the commander and of the server

ASSUME WaypointDemoAssumption ==
    /\ Route \in Seq([go_back_after : BOOLEAN, raise_lift : BOOLEAN])
    /\ Distance \in Nat \ {0} /\ QueueDepth \in Nat \ {0} /\ GoalDepth \in Nat \ {0}
    /\ Strays \subseteq Int /\ 0 \in Strays
    /\ MaxDrive \in Nat /\ MaxLag \in Nat /\ MaxCrashes \in Nat

VARIABLES
    script,    \* which commander runs
    wp, todo,  \* its position: the waypoint, and the stages ahead of it
    call,      \* its service call: none, flying or answered
    nav,       \* what Nav2 drives to: nothing, the action's goal, the topic's
    posted,    \* how many goals published on goal_pose are still to be taken
    result,    \* of the action, for the commander
    server, queue, \* the server runs; the requests it has not served
    led, lift, \* the last colour and the last UP or DOWN the hardware got
    pos,       \* where the vehicle is
    poses,     \* poses published and not yet delivered to the commander
    current_pose, start, \* of the commander; start is move_backwards's
    backing,   \* the commander is inside move_backwards
    from, backlog, \* history: pos and Len(poses) when it began
    pushed,    \* history: Nav2 drove the vehicle since it began
    orphan,    \* history: a commander died with the lift raised or rising
    crashes    \* crashes so far

tourVars == <<script, wp, todo, call>>
navVars == <<nav, posted, result>>
serverVars == <<server, queue, led, lift>>
poseVars == <<pos, poses, current_pose>>
backVars == <<start, backing, from, backlog, pushed>>
ghostVars == <<orphan, crashes>>
vars == <<tourVars, navVars, serverVars, poseVars, backVars, ghostVars>>

Scripts == {"demo_run", "elevator_follower", "follower"}
Calls == {"boot", "tell", "up", "down", "leave", "fault", "rest", "ride"}
Colours == {"GREEN", "BLUE", "PURPLE", "RED"}
Requests == [led : Colours \cup {"none"}, lift : {"NOOP", "UP", "DOWN", "RIDE"}, mine : BOOLEAN]

(* The request of each call: the colour of self.state and a lift command,  *)
(* or the elevator's data=True.                                            *)
ColourOf(s) ==
    CASE s \in {"boot", "rest"} -> "GREEN"
      [] s \in {"tell", "leave"} -> "BLUE"
      [] s \in {"up", "down"} -> "PURPLE"
      [] s = "fault" -> "RED"
      [] OTHER -> "none"

LiftOf(s) ==
    CASE s = "up" -> "UP" [] s = "down" -> "DOWN" [] s = "ride" -> "RIDE" [] OTHER -> "NOOP"

Request(s) == [led |-> ColourOf(s), lift |-> LiftOf(s), mine |-> TRUE]

If(p, s) == IF p THEN s ELSE <<>>

(* The stages a commander starts with, those of a goal, and those after it *)
(* succeeded, after it failed and at the end of the route.                 *)
Boot(s) == If(s = "demo_run", <<"boot">>) \o If(s = "elevator_follower", <<"find">>)

(* Bug for LiftAndLightsAgree: nobody is told that the vehicle moves. *)
GoingSilently == <<"await">>

Going == If(script = "demo_run", <<"tell">>) \o <<"await">>

(* Bug for LiftAndLightsAgree: back, with the lift up. *)
SucceededBackFirst(w) ==
    CASE script = "demo_run" ->
              <<"settle">> \o If(w.raise_lift, <<"up">>) \o If(w.go_back_after, <<"back">>)
                           \o If(w.raise_lift, <<"down", "leave">>)
      [] script = "elevator_follower" -> <<"ride">>
      [] OTHER -> <<>>

Succeeded(w) ==
    CASE script = "demo_run" ->
              <<"settle">> \o If(w.raise_lift, <<"up", "down">>)
                           \o If(w.go_back_after, <<"back">>) \o If(w.raise_lift, <<"leave">>)
      [] script = "elevator_follower" -> <<"ride">>
      [] OTHER -> <<>>
Failed == If(script = "demo_run", <<"fault">>)
EndOfRoute == IF script = "demo_run" THEN <<"rest">> ELSE <<"done">>

At(s) == todo # <<>> /\ Head(todo) = s

TypeOK ==
    /\ script \in Scripts
    /\ wp \in 1..(Len(Route) + 1)
    /\ todo \in Seq(Calls \cup {"find", "await", "settle", "back", "done"})
    /\ call \in {"none", "flying", "answered"}
    /\ nav \in {"idle", "action", "topic"} /\ posted \in 0..GoalDepth
    /\ result \in {"none", "SUCCEEDED", "CANCELED", "FAILED"}
    /\ server \in BOOLEAN /\ queue \in Seq(Requests)
    /\ led \in Colours \cup {"none"} /\ lift \in {"UP", "DOWN"}
    /\ pos \in Int /\ current_pose \in Int /\ start \in Int /\ from \in Int
    /\ poses \in Seq(Int) /\ Len(poses) <= QueueDepth
    /\ backing \in BOOLEAN /\ backlog \in 0..QueueDepth /\ pushed \in BOOLEAN
    /\ orphan \in BOOLEAN /\ crashes \in 0..MaxCrashes

Init ==
    /\ script \in Scripts
    /\ wp = 1 /\ todo = Boot(script) /\ call = "none"
    /\ nav = "idle" /\ posted = 0 /\ result = "none"
    /\ server \in BOOLEAN /\ queue = <<>>
    /\ led = "none" /\ lift = "DOWN"
    /\ pos = 0 /\ poses = <<>> /\ current_pose \in Strays
    /\ start = 0 /\ backing = FALSE /\ from = 0 /\ backlog = 0 /\ pushed = FALSE
    /\ orphan = FALSE /\ crashes = 0

-----------------------------------------------------------------------------
(* The constructor of the elevator's client waits for the service, once.   *)
Find ==
    /\ At("find") /\ server
    /\ todo' = Tail(todo)
    /\ UNCHANGED <<script, wp, call, navVars, serverVars, poseVars, backVars, ghostVars>>

(* call_lift_gpio makes a client and waits for the service at each call;   *)
(* the elevator's client does not, and a request to a server that is gone  *)
(* is lost.                                                                *)
Call(s) ==
    /\ At(s) /\ call = "none"
    /\ server \/ s = "ride"
    /\ call' = "flying"
    /\ queue' = IF server THEN Append(queue, Request(s)) ELSE queue
    /\ UNCHANGED <<script, wp, todo, navVars, server, led, lift, poseVars, backVars, ghostVars>>

(* spin_until_future_complete without a time-out. *)
Answered ==
    /\ call = "answered" /\ call' = "none"
    /\ todo' = Tail(todo)
    /\ UNCHANGED <<script, wp, navVars, serverVars, poseVars, backVars, ghostVars>>

(* The goal goes to the topic, except from elevator_follower, and to the   *)
(* action, which displaces what Nav2 drives to, the goal of the topic too  *)
(* if that was there first. The vehicle drives before "tell" has set the   *)
(* colour.                                                                 *)
Post == IF posted = GoalDepth THEN posted ELSE posted + 1

Send ==
    /\ todo = <<>> /\ wp <= Len(Route)
    /\ todo' = Going
    /\ nav' = "action" /\ result' = "none"
    /\ posted' \in IF script = "elevator_follower" THEN {posted} ELSE {0, Post}
    /\ pos' = 0 /\ current_pose' = current_pose - pos
    /\ poses' = [i \in DOMAIN poses |-> poses[i] - pos]
    /\ UNCHANGED <<script, wp, call, serverVars, backVars, ghostVars>>

Finish ==
    /\ todo = <<>> /\ wp > Len(Route)
    /\ todo' = EndOfRoute
    /\ wp' = IF script = "demo_run" THEN 1 ELSE wp
    /\ UNCHANGED <<script, call, navVars, serverVars, poseVars, backVars, ghostVars>>

(* rclpy.spin_once(self): one pose, the oldest. *)
TakePose ==
    /\ current_pose' = IF poses = <<>> THEN current_pose ELSE Head(poses)
    /\ poses' = IF poses = <<>> THEN poses ELSE Tail(poses)

(* The wait for the result; demo_run takes poses meanwhile. *)
Listen ==
    /\ At("await") /\ script = "demo_run" /\ poses # <<>>
    /\ TakePose
    /\ UNCHANGED <<tourVars, navVars, serverVars, pos, backVars, ghostVars>>

(* Bug for TourGoesOn: a goal that is canceled is waited for. *)
AwaitEnd ==
    /\ At("await") /\ result \in {"SUCCEEDED", "FAILED"}
    /\ todo' = IF result = "SUCCEEDED" THEN Succeeded(Route[wp]) ELSE Failed
    /\ wp' = wp + 1
    /\ UNCHANGED <<script, call, navVars, serverVars, poseVars, backVars, ghostVars>>

Await ==
    /\ At("await") /\ result # "none"
    /\ todo' = IF result = "SUCCEEDED" THEN Succeeded(Route[wp]) ELSE Failed
    /\ wp' = wp + 1
    /\ UNCHANGED <<script, call, navVars, serverVars, poseVars, backVars, ghostVars>>

Settle ==
    /\ At("settle")
    /\ todo' = Tail(todo)
    /\ TakePose
    /\ UNCHANGED <<script, wp, call, navVars, serverVars, pos, backVars, ghostVars>>

-----------------------------------------------------------------------------
(* move_backwards: start is the pose known, which is older than the        *)
(* vehicle's while poses wait in the queue.                                *)
BackBegin ==
    /\ At("back") /\ ~backing
    /\ backing' = TRUE /\ start' = current_pose
    /\ from' = pos /\ backlog' = Len(poses) /\ pushed' = FALSE
    /\ UNCHANGED <<tourVars, navVars, serverVars, poseVars, ghostVars>>

(* Bug for TypeOK: nothing is dropped from a full subscription. *)
EnqueueAlways(p) == Append(poses, p)

Enqueue(p) == Append(IF Len(poses) = QueueDepth THEN Tail(poses) ELSE poses, p)

(* Bug for BackIsBounded: the loop ends beyond the distance. *)
FarStrict(a, b) == a - b > Distance \/ b - a > Distance

Far(a, b) == a - b >= Distance \/ b - a >= Distance

(* One turn of its loop: a velocity is published and one pose is taken.    *)
(* The vehicle moves by m, 0 when it is slow or when it is held.           *)
BackStep(m) ==
    /\ At("back") /\ backing
    /\ pos' = pos - m
    /\ LET seen == IF m = 0 THEN poses ELSE Enqueue(pos') IN
       /\ current_pose' = IF seen = <<>> THEN current_pose ELSE Head(seen)
       /\ poses' = IF seen = <<>> THEN seen ELSE Tail(seen)
    /\ backing' = ~Far(current_pose', start)
    /\ todo' = IF backing' THEN todo ELSE Tail(todo)
    /\ UNCHANGED <<script, wp, call, navVars, serverVars, start, from, backlog, pushed, ghostVars>>

-----------------------------------------------------------------------------
(* lift_callback: the colour first, then the command on the I2C bus; done  *)
(* is answered at once. elevator_server answers after its six seconds.     *)
Obey(r) ==
    /\ led' = IF r.led = "none" THEN led ELSE r.led
    /\ lift' = IF r.lift \in {"UP", "DOWN"} THEN r.lift ELSE lift

Serve ==
    /\ server /\ queue # <<>>
    /\ Obey(Head(queue))
    /\ queue' = Tail(queue)
    /\ call' = IF Head(queue).mine THEN "answered" ELSE call
    /\ orphan' = (orphan /\ ~(Head(queue).mine /\ Head(queue).lift = "DOWN"))
    /\ UNCHANGED <<script, wp, todo, navVars, server, poseVars, backVars, crashes>>

(* The bus raises an error: the colour is set, the lift is not, and the    *)
(* node ends without an answer.                                            *)
ServeFails ==
    /\ server /\ queue # <<>> /\ Head(queue).led # "none" /\ crashes < MaxCrashes
    /\ led' = Head(queue).led
    /\ server' = FALSE /\ queue' = <<>> /\ crashes' = crashes + 1
    /\ UNCHANGED <<tourVars, navVars, lift, poseVars, backVars, orphan>>

ServerCrash ==
    /\ server /\ crashes < MaxCrashes
    /\ server' = FALSE /\ queue' = <<>> /\ crashes' = crashes + 1
    /\ UNCHANGED <<tourVars, navVars, led, lift, poseVars, backVars, orphan>>

ServerStart ==
    /\ ~server /\ server' = TRUE
    /\ UNCHANGED <<tourVars, navVars, queue, led, lift, poseVars, backVars, ghostVars>>

(* The commander dies and is started again: Nav2 drives on, the requests   *)
(* it sent are still served, and the lift stays where it is.               *)
CommanderRestart ==
    /\ crashes < MaxCrashes /\ crashes' = crashes + 1
    /\ todo' = Boot(script) /\ wp' = 1 /\ call' = "none" /\ result' = "none"
    /\ queue' = [i \in DOMAIN queue |-> [queue[i] EXCEPT !.mine = FALSE]]
    /\ orphan' = (orphan \/ lift = "UP" \/ \E i \in DOMAIN queue : queue[i].lift = "UP")
    /\ poses' = <<>> /\ current_pose' \in {pos + d : d \in Strays}
    /\ backing' = FALSE /\ start' = 0 /\ from' = 0 /\ backlog' = 0 /\ pushed' = FALSE
    /\ UNCHANGED <<script, nav, posted, server, led, lift, pos>>

-----------------------------------------------------------------------------
(* Nav2 and localisation. A late goal of the topic is driven to whatever   *)
(* the commander does.                                                     *)
Drive ==
    /\ nav # "idle"
    /\ pos < MaxDrive /\ pos - current_pose < MaxLag
    /\ pos' = pos + 1
    /\ poses' = IF script = "demo_run" THEN Enqueue(pos') ELSE poses
    /\ current_pose' = IF script = "demo_run" THEN current_pose ELSE pos'
    /\ pushed' = backing
    /\ UNCHANGED <<tourVars, navVars, serverVars, start, backing, from, backlog, ghostVars>>

ActionEnds(r) ==
    /\ nav = "action" /\ nav' = "idle"
    /\ result' = r
    /\ UNCHANGED <<tourVars, posted, serverVars, poseVars, backVars, ghostVars>>

(* A goal of the topic takes the place of the action's, which is aborted   *)
(* if it runs: the commander reads FAILED and the vehicle drives there. If *)
(* the action's has ended, its result stays and the vehicle drives again.  *)
TakePosted ==
    /\ posted > 0 /\ posted' = posted - 1
    /\ nav' = "topic"
    /\ result' = IF nav = "action" THEN "FAILED" ELSE result
    /\ UNCHANGED <<tourVars, serverVars, poseVars, backVars, ghostVars>>

TopicEnds ==
    /\ nav = "topic" /\ nav' = "idle"
    /\ UNCHANGED <<tourVars, posted, result, serverVars, poseVars, backVars, ghostVars>>

Commander == Find \/ Answered \/ Send \/ Finish \/ Await \/ Settle \/ BackBegin \/ BackStep(1)
             \/ \E s \in Calls : Call(s)
NavEnds == TopicEnds \/ \E r \in {"SUCCEEDED", "CANCELED", "FAILED"} : ActionEnds(r)

Next ==
    \/ Commander \/ Listen \/ BackStep(0)
    \/ Serve \/ ServeFails \/ ServerCrash \/ ServerStart \/ CommanderRestart
    \/ Drive \/ NavEnds \/ TakePosted

Spec == Init /\ [][Next]_vars

(* The commander runs and its loop of backward moves gets somewhere, Nav2  *)
(* ends every goal, a server that is up serves. Nobody has to start it.    *)
Fairness == WF_vars(Commander) /\ WF_vars(BackStep(1)) /\ WF_vars(NavEnds) /\ WF_vars(Serve)

FairSpec == Spec /\ Fairness

-----------------------------------------------------------------------------
(* Properties *)

(* The vehicle moves neither backwards nor to a goal of the commander's    *)
(* while the last command the lift got is UP: not after a server or a bus  *)
(* that fails between the two calls, and not to a goal of the topic that   *)
(* made the action's fail. Two cases are left: a commander that died with  *)
(* the lift raised, until it lowers it again (163-183), and a goal of the  *)
(* topic that Nav2 takes after the action's has succeeded, which nothing   *)
(* prevents (149-150). The time the lift takes is not in it: nothing waits *)
(* for it (lift_node.py:60-63).                                            *)
LiftDownWhileDriving ==
    lift = "UP" /\ ~orphan =>
        /\ ~backing
        /\ nav = "idle" \/ (nav = "topic" /\ result = "SUCCEEDED")

(* The colours say what the robot does, whatever was lost: blue while the  *)
(* commander waits for a goal, purple while the lift is raised.            *)
LightsTell ==
    ~orphan =>
        /\ At("await") /\ script = "demo_run" => led = "BLUE"
        /\ lift = "UP" => led = "PURPLE"

(* Lift and colours agree with what the robot does. *)
LiftAndLightsAgree == LiftDownWhileDriving /\ LightsTell

(* move_backwards(0.1, 0.2) ends Distance behind where it began when it    *)
(* knew the vehicle's pose; poses that wait add to the way, one each, and  *)
(* so does what the pose it knew is off (102-114). A late goal of the      *)
(* topic that moves the vehicle meanwhile makes any other way of it.       *)
Off == IF from > start THEN from - start ELSE start - from

BackIsBounded ==
    [][At("back") /\ backing /\ ~pushed /\ todo' = Tail(todo) =>
          IF backlog = 0 /\ start = from THEN from - pos' = Distance
                                        ELSE from - pos' <= Distance + backlog + Off]_vars

(* The tour goes on: goals are sent again and again, or the route ends; or *)
(* the server is away, or a request was lost with it, for which the        *)
(* commander waits for ever (34). And no goal is waited for longer than it *)
(* lasts, whether it succeeds, fails, is cancelled or displaced.           *)
Lost == call = "flying" /\ ~\E i \in DOMAIN queue : queue[i].mine

TourGoesOn ==
    /\ []<>(At("await") \/ At("done") \/ ~server \/ Lost)
    /\ At("await") ~> ~At("await")
=============================================================================
