--------------------------- MODULE TeleopKeyboard ---------------------------
(***************************************************************************)
(* ad_r1m_bringup/scripts/crsf/teleop_keyboard.py: a terminal program that *)
(* reads keys, keeps a killswitch state machine of its own (init, kill,    *)
(* run), calls the init and halt services of the drives one after another  *)
(* with retries, and publishes a velocity after each key.                  *)
(*                                                                         *)
(* Two threads: main() (the actions of pc) and the background thread that  *)
(* spins the node and runs killswitch_callback (Receive). They share       *)
(* killswitch_state, which main() reads at two places and writes at two.   *)
(* Time is abstracted: a call may time out whenever it is unanswered.      *)
(***************************************************************************)
EXTENDS Naturals, Sequences, SequencesExt

CONSTANTS
    Drives,
    StartServices,   \* init_sequence, the drives in order
    StopServices,    \* kill_sequence, the drives in order
    MaxAttempts,     \* max_retries of call_services; 3 in the code
    Depth,           \* depth of the killswitch subscription; 10 in the code
    MaxRemote,       \* bound: killswitch messages of other publishers
    MaxPending       \* bound: requests counted at one service

ASSUME TeleopKeyboardAssumption ==
    /\ StartServices \in Seq(Drives) /\ StopServices \in Seq(Drives)
    /\ MaxAttempts \in Nat \ {0} /\ Depth \in Nat \ {0}
    /\ MaxRemote \in Nat /\ MaxPending \in Nat \ {0}

VARIABLES
    pc,               \* where main() is
    state,            \* the state machine of main()
    x,                \* the velocity to publish: "zero" or "move"
    calling, index, attempt,  \* call_services: the list, the position, the try
    future,           \* future[s]: the last future of service s
    request,          \* request[s]: requests waiting at service s
    drive,            \* what the drives do
    killswitch_state, \* shared with the background thread
    inbox,            \* killswitch messages not yet delivered to this node
    killswitch,       \* the last message on topic killswitch
    cmd_vel_keyboard, \* the last message on topic cmd_vel_keyboard
    remote,           \* killswitch messages published by others so far
    meddled           \* history: one of them came between KeyR or KeyP and Note

mainVars == <<pc, state, x, calling, index, attempt>>
topicVars == <<killswitch_state, inbox, killswitch, remote, meddled>>
serviceVars == <<future, request, drive>>
vars == <<mainVars, topicVars, serviceVars, cmd_vel_keyboard>>

Services == {"init", "halt"} \X Drives

(* The services of the list that call_services is working through. *)
List == CASE calling = "start" -> [i \in DOMAIN StartServices |-> <<"init", StartServices[i]>>]
          [] calling = "stop"  -> [i \in DOMAIN StopServices |-> <<"halt", StopServices[i]>>]
          [] OTHER -> <<>>

TypeOK ==
    /\ pc \in {"check", "initkey", "key", "note", "call", "wait", "verify", "gate", "publish",
             "done", "mute"}
    /\ state \in {"init", "kill", "run"}
    /\ x \in {"zero", "move"}
    /\ calling \in {"none", "start", "stop"}
    /\ index \in 1..(Len(List) + 1)
    /\ attempt \in 1..MaxAttempts
    /\ future \in [Services -> {"none", "pending", "ok", "fail"}]
    /\ request \in [Services -> 0..MaxPending]
    /\ drive \in [Drives -> {"off", "enabled", "halted"}]
    /\ killswitch_state \in BOOLEAN
    /\ inbox \in Seq({"on", "off"}) /\ Len(inbox) <= Depth
    /\ killswitch \in {"unset", "on", "off"}
    /\ cmd_vel_keyboard \in {"none", "zero", "move"}
    /\ remote \in 0..MaxRemote /\ meddled \in BOOLEAN

Init ==
    /\ pc = "check" /\ state = "init" /\ x = "zero"
    /\ calling = "none" /\ index = 1 /\ attempt = 1
    /\ future = [s \in Services |-> "none"]
    /\ request = [s \in Services |-> 0]
    /\ drive \in [Drives -> {"off", "enabled", "halted"}]
    /\ killswitch_state = FALSE
    /\ inbox = <<>>
    /\ killswitch = "unset"
    /\ cmd_vel_keyboard = "none"
    /\ remote = 0 /\ meddled = FALSE

-----------------------------------------------------------------------------
(* A message on topic killswitch: the node also subscribes to its own. A   *)
(* full subscription drops its oldest message.                             *)
Publish(b) ==
    /\ killswitch' = b
    /\ inbox' = Append(IF Len(inbox) = Depth THEN Tail(inbox) ELSE inbox, b)

StartCalling(list) == calling' = list /\ index' = 1 /\ attempt' = 1

(* The top of the init loop, and the loop's key. *)
Check ==
    /\ pc = "check"
    /\ IF killswitch_state THEN state' = "kill" /\ pc' = "key"
                           ELSE state' = state /\ pc' = "initkey"
    /\ UNCHANGED <<x, calling, index, attempt, topicVars, serviceVars, cmd_vel_keyboard>>

(* Pressing p before the first run publishes and halts nothing.            *)
InitKeyP ==
    /\ pc = "initkey"
    /\ Publish("on")
    /\ state' = "kill" /\ pc' = "key"
    /\ UNCHANGED <<x, calling, index, attempt, killswitch_state, remote, meddled,
                   serviceVars, cmd_vel_keyboard>>

InitKeyOther ==
    /\ pc = "initkey"
    /\ pc' = "check"
    /\ UNCHANGED <<state, x, calling, index, attempt, topicVars, serviceVars, cmd_vel_keyboard>>

(* Bug for EchoAgrees: r takes the killswitch for released and tells       *)
(* nobody.                                                                 *)
KeyRSilent ==
    /\ pc = "key" /\ state = "kill"
    /\ pc' = "note"
    /\ UNCHANGED <<state, x, calling, index, attempt, topicVars,
                   serviceVars, cmd_vel_keyboard>>

(* The keys of kill. r releases the killswitch, takes note of it in the    *)
(* shared copy, and initialises. Between the publication and the note the  *)
(* background thread may have received another message.                    *)
KeyR ==
    /\ pc = "key" /\ state = "kill"
    /\ Publish("off")
    /\ pc' = "note" /\ meddled' = FALSE
    /\ UNCHANGED <<state, x, calling, index, attempt, killswitch_state, remote,
                   serviceVars, cmd_vel_keyboard>>

(* p, likewise, activates it; the state machine leaves run in Note. *)
KeyP ==
    /\ pc = "key" /\ state = "run"
    /\ Publish("on")
    /\ pc' = "note" /\ meddled' = FALSE
    /\ UNCHANGED <<state, x, calling, index, attempt, killswitch_state, remote,
                   serviceVars, cmd_vel_keyboard>>

(* Bug for QuietOutsideRun: p goes back to the prompt without calling the  *)
(* drives and without the zero velocity.                                   *)
NoteQuick ==
    /\ pc = "note"
    /\ killswitch_state' = (state = "run")
    /\ IF state = "run"
       THEN state' = "kill" /\ x' = "zero" /\ pc' = "key" /\ UNCHANGED <<calling, index, attempt>>
       ELSE UNCHANGED <<state, x>> /\ StartCalling("start") /\ pc' = "call"
    /\ UNCHANGED <<inbox, killswitch, remote, meddled, serviceVars, cmd_vel_keyboard>>

(* The second half of r and of p. *)
Note ==
    /\ pc = "note" /\ pc' = "call"
    /\ killswitch_state' = (state = "run")
    /\ IF state = "run"
       THEN state' = "kill" /\ x' = "zero" /\ StartCalling("stop")
       ELSE UNCHANGED <<state, x>> /\ StartCalling("start")
    /\ UNCHANGED <<inbox, killswitch, remote, meddled, serviceVars, cmd_vel_keyboard>>

KeyKillOther ==
    /\ pc = "key" /\ state = "kill"
    /\ x' = "zero" /\ pc' = "gate"
    /\ UNCHANGED <<state, calling, index, attempt, topicVars, serviceVars, cmd_vel_keyboard>>

(* The keys of run: a movement, a stop (any other key), p. The keys that   *)
(* change the speed publish nothing and are left out.                      *)
KeyMove ==
    /\ pc = "key" /\ state = "run"
    /\ x' \in {"zero", "move"} /\ pc' = "gate"
    /\ UNCHANGED <<state, calling, index, attempt, topicVars, serviceVars, cmd_vel_keyboard>>

(* call_services makes the next call, or returns. *)
CallService ==
    /\ pc = "call" /\ index <= Len(List)
    /\ request' = [request EXCEPT ![List[index]] = IF @ < MaxPending THEN @ + 1 ELSE @]
    /\ future' = [future EXCEPT ![List[index]] = "pending"]
    /\ pc' = "wait"
    /\ UNCHANGED <<state, x, calling, index, attempt, topicVars, drive, cmd_vel_keyboard>>

CallsDone ==
    /\ pc = "call" /\ index > Len(List)
    /\ pc' = IF calling = "start" THEN "verify" ELSE "gate"
    /\ UNCHANGED <<state, x, calling, index, attempt, topicVars, serviceVars, cmd_vel_keyboard>>

(* Bug for TypeOK: one attempt too many. *)
WaitCallOneMore ==
    /\ pc = "wait"
    /\ pc' = "call"
    /\ IF future[List[index]] = "ok" \/ attempt > MaxAttempts
       THEN index' = index + 1 /\ attempt' = 1
       ELSE index' = index /\ attempt' = attempt + 1
    /\ UNCHANGED <<state, x, calling, topicVars, serviceVars, cmd_vel_keyboard>>

(* Bug for CallsEnd: a failed call is tried again for ever. *)
WaitCallForever ==
    /\ pc = "wait"
    /\ pc' = "call"
    /\ attempt' = 1
    /\ index' = IF future[List[index]] = "ok" THEN index + 1 ELSE index
    /\ UNCHANGED <<state, x, calling, topicVars, serviceVars, cmd_vel_keyboard>>

(* The call is done or has timed out. A success, or the last of the        *)
(* attempts, moves on to the next service; anything else tries again.      *)
WaitCall ==
    /\ pc = "wait"
    /\ pc' = "call"
    /\ IF future[List[index]] = "ok" \/ attempt = MaxAttempts
       THEN index' = index + 1 /\ attempt' = 1
       ELSE index' = index /\ attempt' = attempt + 1
    /\ UNCHANGED <<state, x, calling, topicVars, serviceVars, cmd_vel_keyboard>>

(* Bug for RunMeansInitialised: one answered call is enough. *)
VerifySome ==
    /\ pc = "verify"
    /\ state' = IF \E i \in DOMAIN List : future[List[i]] = "ok" THEN "run" ELSE "kill"
    /\ x' = "zero" /\ pc' = "gate"
    /\ UNCHANGED <<calling, index, attempt, topicVars, serviceVars, cmd_vel_keyboard>>

(* The futures are read once more: a call that had timed out may have been *)
(* answered since.                                                         *)
Verify ==
    /\ pc = "verify"
    /\ state' = IF \A i \in DOMAIN List : future[List[i]] = "ok" THEN "run" ELSE "kill"
    /\ x' = "zero" /\ pc' = "gate"
    /\ UNCHANGED <<calling, index, attempt, topicVars, serviceVars, cmd_vel_keyboard>>

(* "Force zero velocity when not running", and then the publication: the   *)
(* background thread may set killswitch_state between the two.             *)
Gate ==
    /\ pc = "gate"
    /\ x' = IF state # "run" \/ killswitch_state THEN "zero" ELSE x
    /\ pc' = "publish"
    /\ UNCHANGED <<state, calling, index, attempt, topicVars, serviceVars, cmd_vel_keyboard>>

UpdateTwist ==
    /\ pc = "publish"
    /\ cmd_vel_keyboard' = x
    /\ pc' = "key"
    /\ UNCHANGED <<state, x, calling, index, attempt, topicVars, serviceVars>>

(* CTRL-C at a prompt is a key. The last message is not the zero velocity  *)
(* that the finally clause writes: update_twist overwrites it with x.      *)
Quit ==
    /\ pc \in {"initkey", "key"}
    /\ cmd_vel_keyboard' = x
    /\ pc' = "done"
    /\ UNCHANGED <<state, x, calling, index, attempt, topicVars, serviceVars>>

(* Anywhere else it is a signal. Its handler may have shut the context     *)
(* down, and then the publication of the finally clause raises.            *)
Interrupt ==
    /\ pc \notin {"initkey", "key", "done", "mute"}
    /\ \/ pc' = "done" /\ cmd_vel_keyboard' = x
       \/ pc' = "mute" /\ UNCHANGED cmd_vel_keyboard
    /\ UNCHANGED <<state, x, calling, index, attempt, topicVars, serviceVars>>

Keys == InitKeyP \/ InitKeyOther \/ KeyR \/ KeyKillOther \/ KeyMove \/ KeyP \/ Quit

MainRuns ==
    Check \/ Note \/ CallService \/ CallsDone \/ WaitCall \/ Verify \/ Gate \/ UpdateTwist

(* killswitch_callback, in the background thread. *)
Receive ==
    /\ pc \notin {"done", "mute"} /\ inbox # <<>>
    /\ killswitch_state' = (Head(inbox) = "on")
    /\ inbox' = Tail(inbox)
    /\ meddled' = (meddled /\ pc = "note")
    /\ UNCHANGED <<mainVars, killswitch, remote, serviceVars, cmd_vel_keyboard>>

(* The environment. Another node (the CRSF node) publishes on killswitch.  *)
RemotePublish ==
    /\ remote < MaxRemote
    /\ remote' = remote + 1
    /\ meddled' = (meddled \/ pc = "note")
    /\ \E b \in {"on", "off"} : Publish(b)
    /\ UNCHANGED <<mainVars, killswitch_state, serviceVars, cmd_vel_keyboard>>

(* A service serves its oldest request. The last future of a service waits *)
(* for the last request: the others belong to attempts that timed out.     *)
Serve(s) ==
    /\ request[s] > 0
    /\ request' = [request EXCEPT ![s] = @ - 1]
    /\ \E result \in {"ok", "fail"} :
         /\ future' = IF request[s] = 1 THEN [future EXCEPT ![s] = result] ELSE future
         /\ drive' = [drive EXCEPT ![s[2]] =
                CASE result = "fail" -> @
                  [] s[1] = "init" -> "enabled"
                  [] @ = "enabled" -> "halted"
                  [] OTHER -> @]
    /\ UNCHANGED <<mainVars, topicVars, cmd_vel_keyboard>>

Next ==
    \/ Keys \/ MainRuns \/ Interrupt
    \/ Receive \/ RemotePublish
    \/ \E s \in Services : Serve(s)
    \/ pc \in {"done", "mute"} /\ UNCHANGED vars

Spec == Init /\ [][Next]_vars

(* main() runs on between two keys. Nothing is assumed of the keys, of the *)
(* services, or of the background thread, which the calls of main() may    *)
(* disturb: both spin the same executor.                                   *)
FairSpec == Spec /\ WF_vars(MainRuns)

-----------------------------------------------------------------------------
(* Safety. *)

(* In run, the last init call of every drive has succeeded, late answers   *)
(* and timed-out attempts included.                                        *)
RunMeansInitialised ==
    state = "run" => \A i \in DOMAIN StartServices :
                        future[<<"init", StartServices[i]>>] = "ok"

(* Outside run a moving velocity is the last one published only while p    *)
(* calls the halts, one after another, before it publishes the zero (318,  *)
(* 328), or when a signal ended main() then; the killswitch is on before   *)
(* that begins, unless somebody else released it. At a prompt, and after   *)
(* an end that could still publish, the last velocity is not a moving one. *)
(* (In run, ending publishes the velocity held once more.)                 *)
QuietOutsideRun ==
    state # "run" /\ cmd_vel_keyboard = "move" =>
        /\ calling = "stop" /\ pc \in {"call", "wait", "gate", "publish", "mute"}
        /\ remote = 0 => killswitch = "on"

(* The copy of the killswitch that main() and the background thread share  *)
(* settles on the last message on the topic, whoever published it and      *)
(* whatever echoes of older keys are still to be delivered. The exception  *)
(* is a message of another publisher between the node's own publication    *)
(* and its note of it (258-259, 313-314): the note overwrites it, until    *)
(* the next message is received.                                           *)
EchoAgrees ==
    /\ inbox # <<>> => Last(inbox) = killswitch
    /\ inbox = <<>> /\ killswitch # "unset" /\ ~meddled =>
           killswitch_state = (killswitch = "on")

(* Liveness: a sequence of calls ends, answered or not.                    *)
CallsEnd == pc \in {"note", "call"} ~> pc \in {"key", "done", "mute"}

-----------------------------------------------------------------------------
(* What the documentation says and the code does not do. *)

(* ros2-architecture.rst:958, "kill: Safe state, motors halted": as long   *)
(* as nobody else publishes, a prompt of kill never has the killswitch     *)
(* released and a drive enabled.                                           *)
KillIsSafe ==
    pc = "key" /\ state = "kill" /\ remote = 0 =>
        ~(killswitch = "off" /\ \E d \in Drives : drive[d] = "enabled")

=============================================================================
