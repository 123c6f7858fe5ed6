------------------------- MODULE TeleopKeyboardProofs -------------------------
(***************************************************************************)
(* Theorems of TeleopKeyboard, for every set of drives, list of services,  *)
(* number of attempts and depth of the subscription, and for any number of *)
(* messages of other publishers.                                           *)
(***************************************************************************)
EXTENDS TeleopKeyboard, SequenceTheorems, TLAPS

(* The steps of the node that leave the services alone, and those that     *)
(* leave the topic killswitch alone.                                       *)
LEMMA ListFacts ==
    /\ List \in Seq(Services)
    /\ calling = "start" => /\ DOMAIN List = DOMAIN StartServices
                            /\ \A i \in DOMAIN List : List[i] = <<"init", StartServices[i]>>
    /\ calling = "none" => Len(List) = 0
  <1>1. CASE calling = "start"
    <2>1. List = [i \in DOMAIN StartServices |-> <<"init", StartServices[i]>>]
      BY <1>1 DEF List
    <2>2. StartServices \in Seq(Drives)
      BY TeleopKeyboardAssumption
    <2>3. DOMAIN StartServices = 1..Len(StartServices) /\ Len(StartServices) \in Nat
      BY <2>2
    <2>4. \A i \in 1..Len(StartServices) : <<"init", StartServices[i]>> \in Services
      BY <2>2, ElementOfSeq DEF Services
    <2> QED
      BY <1>1, <2>1, <2>3, <2>4
  <1>2. CASE calling = "stop"
    <2>1. List = [i \in DOMAIN StopServices |-> <<"halt", StopServices[i]>>]
      BY <1>2 DEF List
    <2>2. StopServices \in Seq(Drives)
      BY TeleopKeyboardAssumption
    <2>3. DOMAIN StopServices = 1..Len(StopServices) /\ Len(StopServices) \in Nat
      BY <2>2
    <2>4. \A i \in 1..Len(StopServices) : <<"halt", StopServices[i]>> \in Services
      BY <2>2, ElementOfSeq DEF Services
    <2> QED
      BY <1>2, <2>1, <2>3, <2>4
  <1>3. CASE calling \notin {"start", "stop"}
    BY <1>3 DEF List
  <1> QED
    BY <1>1, <1>2, <1>3

-----------------------------------------------------------------------------
(* Why a moving velocity does not last outside run: outside run the        *)
(* velocity held is zero, calls are made outside run only, and p leaves    *)
(* run with its killswitch message sent.                                   *)
Quiet ==
    /\ QuietOutsideRun
    /\ state # "run" => x = "zero"
    /\ pc \in {"check", "initkey"} => state = "init" /\ cmd_vel_keyboard = "none"
    /\ pc \in {"call", "wait", "verify"} => state # "run"
    /\ pc = "verify" => calling = "start"
    /\ pc = "note" /\ state = "run" /\ remote = 0 => killswitch = "on"
    /\ remote \in Nat

(* Every step keeps that. *)
LEMMA QuietStep == Quiet /\ [Next]_vars => Quiet'
  <1> SUFFICES ASSUME Quiet, [Next]_vars PROVE Quiet'
    OBVIOUS
  <1> USE DEF Quiet, QuietOutsideRun
  <1>1. CASE Keys
    <2>1. CASE InitKeyP
      BY <2>1 DEF InitKeyP
    <2>2. CASE InitKeyOther \/ KeyKillOther \/ KeyMove \/ Quit
      BY <2>2 DEF InitKeyOther, KeyKillOther, KeyMove, Quit, topicVars
    <2>3. CASE KeyR
      BY <2>3 DEF KeyR
    <2>4. CASE KeyP
      BY <2>4 DEF KeyP, Publish
    <2> QED
      BY <1>1, <2>1, <2>2, <2>3, <2>4 DEF Keys
  <1>2. CASE Note
    BY <1>2 DEF Note, StartCalling
  <1>3. CASE Check \/ CallService \/ CallsDone \/ WaitCall \/ Verify \/ Gate \/ UpdateTwist
    BY <1>3 DEF Check, CallService, CallsDone, WaitCall, Verify, Gate, UpdateTwist, topicVars
  <1>4. CASE Interrupt
    BY <1>4 DEF Interrupt, topicVars
  <1>5. CASE RemotePublish
    <2>1. remote' \in Nat /\ remote' # 0
      BY <1>5 DEF RemotePublish
    <2> QED
      BY <1>5, <2>1 DEF RemotePublish, mainVars
  <1>6. CASE Receive \/ \E s \in Services : Serve(s)
    <2>1. UNCHANGED <<mainVars, killswitch, remote, cmd_vel_keyboard>>
      BY <1>6 DEF Receive, Serve, topicVars
    <2> QED
      BY <2>1 DEF mainVars
  <1>7. CASE UNCHANGED vars
    BY <1>7 DEF vars, mainVars, topicVars
  <1> QED
    BY <1>1, <1>2, <1>3, <1>4, <1>5, <1>6, <1>7 DEF Next, MainRuns

(* Outside run a moving velocity is the last one published only while p    *)
(* calls the halts, or after a signal ended the program then, and the      *)
(* killswitch is on if nobody else uses it: for every list of halts and    *)
(* whatever the services answer.                                           *)
THEOREM AlwaysQuietOutsideRun == Spec => []QuietOutsideRun
  <1>1. Init => Quiet
    BY DEF Init, Quiet, QuietOutsideRun
  <1>2. Quiet /\ [Next]_vars => Quiet'
    BY QuietStep
  <1>3. Quiet => QuietOutsideRun
    BY DEF Quiet
  <1> QED
    BY <1>1, <1>2, <1>3, PTL DEF Spec

-----------------------------------------------------------------------------
(* Why run means initialised: an answer that has come leaves no request of *)
(* its service waiting, so that no later one can replace it, and no call   *)
(* is made in run.                                                         *)
Initialised ==
    /\ RunMeansInitialised
    /\ future \in [Services -> {"none", "pending", "ok", "fail"}]
    /\ request \in [Services -> 0..MaxPending]
    /\ \A s \in Services : request[s] > 0 => future[s] = "pending"
    /\ pc \in {"call", "wait", "verify"} => state # "run"
    /\ pc = "verify" => calling = "start"
    /\ index \in Nat \ {0}

(* The init services of the drives are services. *)
LEMMA InitServices ==
    \A i \in DOMAIN StartServices : <<"init", StartServices[i]>> \in Services
  <1>1. StartServices \in Seq(Drives)
    BY TeleopKeyboardAssumption
  <1> QED
    BY <1>1, ElementOfSeq DEF Services

(* Every step keeps that. *)
LEMMA InitialisedStep == Initialised /\ [Next]_vars => Initialised'
  <1> SUFFICES ASSUME Initialised, [Next]_vars PROVE Initialised'
    OBVIOUS
  <1> USE DEF Initialised, RunMeansInitialised
  <1>1. CASE Keys
    BY <1>1 DEF Keys, InitKeyP, InitKeyOther, KeyR, KeyKillOther, KeyMove, KeyP, Quit,
                serviceVars
  <1>0. CASE Interrupt
    BY <1>0 DEF Interrupt, serviceVars
  <1>2. CASE CallService
    <2>1. List[index] \in Services
      <3>1. List \in Seq(Services) /\ index \in 1..Len(List)
        BY <1>2, ListFacts DEF CallService, Initialised
      <3> QED
        BY <3>1, ElementOfSeq
    <2> QED
      BY <1>2, <2>1, TeleopKeyboardAssumption DEF CallService
  <1>3. CASE Verify
    <2>1. state' = "run" => \A i \in DOMAIN StartServices :
                               future[<<"init", StartServices[i]>>] = "ok"
      <3>1. calling = "start" /\ DOMAIN List = DOMAIN StartServices
            /\ \A i \in DOMAIN List : List[i] = <<"init", StartServices[i]>>
        BY <1>3, ListFacts DEF Verify
      <3>2. state' = "run" => \A i \in DOMAIN List : future[List[i]] = "ok"
        BY <1>3 DEF Verify
      <3> QED
        BY <3>1, <3>2
    <2> QED
      BY <1>3, <2>1 DEF Verify, serviceVars
  <1>4. CASE Check \/ Note \/ CallsDone \/ WaitCall \/ Gate \/ UpdateTwist
    BY <1>4 DEF Check, Note, CallsDone, WaitCall, Gate, UpdateTwist, StartCalling, serviceVars
  <1>5. CASE \E s \in Services : Serve(s)
    <2>1. PICK s \in Services : Serve(s)
      BY <1>5
    <2>2. request[s] \in 0..MaxPending /\ request[s] > 0 /\ MaxPending \in Nat
      BY <2>1, TeleopKeyboardAssumption DEF Serve
    <2>3. future[s] = "pending" /\ request[s] \in 1..MaxPending
      BY <2>2
    <2>4. request' = [request EXCEPT ![s] = request[s] - 1]
      BY <2>1 DEF Serve
    <2>5. PICK result \in {"ok", "fail"} :
             future' = IF request[s] = 1 THEN [future EXCEPT ![s] = result] ELSE future
      BY <2>1 DEF Serve
    <2>6. \/ request[s] > 1 /\ future' = future
          \/ request[s] = 1 /\ \E r \in {"ok", "fail"} : future' = [future EXCEPT ![s] = r]
      <3>1. request[s] = 1 \/ request[s] > 1
        BY <2>2
      <3> QED
        BY <2>5, <3>1
    <2>7. request' \in [Services -> 0..MaxPending]
          /\ future' \in [Services -> {"none", "pending", "ok", "fail"}]
      BY <2>2, <2>3, <2>4, <2>6
    <2>8. \A u \in Services : request'[u] > 0 => future'[u] = "pending"
      BY <2>2, <2>3, <2>4, <2>6
    <2>9. \A u \in Services : future[u] = "ok" => future'[u] = "ok"
      BY <2>3, <2>6
    <2>10. pc' = pc /\ state' = state /\ calling' = calling /\ index' = index
      BY <2>1 DEF Serve, mainVars
    <2> QED
      BY <2>7, <2>8, <2>9, <2>10, InitServices
  <1>6. CASE Receive \/ RemotePublish
    BY <1>6 DEF Receive, RemotePublish, mainVars, serviceVars
  <1>7. CASE UNCHANGED vars
    BY <1>7 DEF vars, mainVars, serviceVars
  <1> QED
    BY <1>0, <1>1, <1>2, <1>3, <1>4, <1>5, <1>6, <1>7 DEF Next, MainRuns

(* In run every drive has answered its last init call with a success,      *)
(* however late and after however many attempts.                           *)
THEOREM RunAlwaysInitialised == Spec => []RunMeansInitialised
  <1>1. Init => Initialised
    BY TeleopKeyboardAssumption DEF Init, Initialised, RunMeansInitialised
  <1>2. Initialised /\ [Next]_vars => Initialised'
    BY InitialisedStep
  <1>3. Initialised => RunMeansInitialised
    BY DEF Initialised
  <1> QED
    BY <1>1, <1>2, <1>3, PTL DEF Spec

-----------------------------------------------------------------------------
(* Why the shared copy settles: the last message on its way is the last    *)
(* one published, and main() notes what it has just published.             *)
Echoed ==
    /\ EchoAgrees
    /\ inbox \in Seq({"on", "off"}) /\ Len(inbox) <= Depth
    /\ pc = "note" /\ ~meddled => killswitch = IF state = "run" THEN "on" ELSE "off"

(* What is published is the last message in the subscription. *)
LEMMA PublishFacts ==
    ASSUME inbox \in Seq({"on", "off"}), Len(inbox) <= Depth,
           NEW b \in {"on", "off"}, Publish(b)
    PROVE  /\ killswitch' = b
           /\ inbox' \in Seq({"on", "off"}) /\ Len(inbox') <= Depth
           /\ inbox' # <<>> /\ Last(inbox)' = b
  <1> DEFINE kept == IF Len(inbox) = Depth THEN Tail(inbox) ELSE inbox
  <1>1. kept \in Seq({"on", "off"}) /\ Len(kept) < Depth
    <2>1. Len(inbox) \in Nat /\ Depth \in Nat \ {0}
      BY TeleopKeyboardAssumption
    <2>2. CASE Len(inbox) = Depth
      <3>1. inbox # <<>>
        BY <2>1, <2>2
      <3> QED
        BY <2>1, <2>2, <3>1, HeadTailProperties
    <2>3. CASE Len(inbox) # Depth
      BY <2>1, <2>3
    <2> QED
      BY <2>2, <2>3
  <1>2. inbox' = Append(kept, b) /\ killswitch' = b
    BY DEF Publish
  <1> HIDE DEF kept
  <1>3. /\ inbox' \in Seq({"on", "off"}) /\ inbox' # <<>>
        /\ Len(inbox') = Len(kept) + 1 /\ inbox'[Len(kept) + 1] = b
    BY <1>1, <1>2, AppendProperties
  <1>4. Len(kept) \in Nat /\ Depth \in Nat
    BY <1>1, TeleopKeyboardAssumption
  <1> QED
    BY <1>1, <1>2, <1>3, <1>4 DEF Last

(* Every step keeps that. *)
LEMMA EchoedStep == Echoed /\ [Next]_vars => Echoed'
  <1> SUFFICES ASSUME Echoed, [Next]_vars PROVE Echoed'
    OBVIOUS
  <1>1. CASE InitKeyP
    BY <1>1, PublishFacts DEF InitKeyP, Echoed, EchoAgrees
  <1>2. CASE KeyR
    BY <1>2, PublishFacts DEF KeyR, Echoed, EchoAgrees
  <1>3. CASE KeyP
    BY <1>3, PublishFacts DEF KeyP, Echoed, EchoAgrees
  <1>4. CASE Note
    BY <1>4 DEF Note, Echoed, EchoAgrees, StartCalling
  <1>5. CASE RemotePublish
    <2>1. PICK b \in {"on", "off"} : Publish(b)
      BY <1>5 DEF RemotePublish
    <2>2. pc' = pc /\ (pc = "note" => meddled')
      BY <1>5 DEF RemotePublish, mainVars
    <2> QED
      BY <2>1, <2>2, PublishFacts DEF Echoed, EchoAgrees
  <1>6. CASE Receive
    <2>1. inbox # <<>> /\ inbox' = Tail(inbox) /\ inbox \in Seq({"on", "off"})
          /\ killswitch_state' = (Head(inbox) = "on")
          /\ UNCHANGED <<mainVars, killswitch>> /\ (pc = "note" => (meddled' <=> meddled))
      BY <1>6 DEF Receive, Echoed
    <2>2. /\ inbox' \in Seq({"on", "off"}) /\ Len(inbox') = Len(inbox) - 1
          /\ Len(inbox) \in Nat /\ Len(inbox) > 0
          /\ \A i \in 1..Len(inbox') : inbox'[i] = inbox[i + 1]
      BY <2>1, HeadTailProperties
    <2>3. Len(inbox') <= Depth
      BY <2>2, TeleopKeyboardAssumption DEF Echoed
    <2>4. CASE inbox' = <<>>
      <3>1. Len(inbox) = 1
        BY <2>2, <2>4
      <3>2. Head(inbox) = killswitch
        BY <2>1, <3>1 DEF Echoed, EchoAgrees, Last
      <3>3. killswitch_state' = (killswitch = "on")
        BY <2>1, <3>2
      <3> QED
        BY <2>1, <2>2, <2>3, <2>4, <3>3 DEF Echoed, EchoAgrees, mainVars
    <2>5. CASE inbox' # <<>>
      <3>1. Len(inbox') > 0 /\ inbox'[Len(inbox')] = inbox[Len(inbox)]
        BY <2>2, <2>5, EmptySeq
      <3>2. Last(inbox)' = killswitch
        BY <2>1, <3>1 DEF Echoed, EchoAgrees, Last
      <3> QED
        BY <2>1, <2>2, <2>3, <2>5, <3>2 DEF Echoed, EchoAgrees, mainVars
    <2> QED
      BY <2>4, <2>5
  <1>7. CASE InitKeyOther \/ KeyKillOther \/ KeyMove \/ Quit \/ Interrupt
    BY <1>7 DEF InitKeyOther, KeyKillOther, KeyMove, Quit, Interrupt, Echoed, EchoAgrees, topicVars
  <1>8. CASE Check \/ CallService \/ CallsDone \/ WaitCall \/ Verify \/ Gate \/ UpdateTwist
    BY <1>8 DEF Check, CallService, CallsDone, WaitCall, Verify, Gate, UpdateTwist,
                Echoed, EchoAgrees, topicVars
  <1>9. CASE \E s \in Services : Serve(s)
    BY <1>9 DEF Serve, Echoed, EchoAgrees, mainVars, topicVars
  <1>10. CASE UNCHANGED vars
    BY <1>10 DEF vars, mainVars, topicVars, Echoed, EchoAgrees
  <1> QED
    BY <1>1, <1>2, <1>3, <1>4, <1>5, <1>6, <1>7, <1>8, <1>9, <1>10 DEF Next, Keys, MainRuns

(* The copy of the killswitch that the two threads share settles on what   *)
(* was published last, by this node or by another, unless another message  *)
(* came between a publication of this node and its note: for every depth   *)
(* of the subscription and any number of messages of others.               *)
THEOREM EchoAlwaysAgrees == Spec => []EchoAgrees
  <1>1. Init => Echoed
    <2> SUFFICES ASSUME Init PROVE Echoed
      OBVIOUS
    <2>1. inbox = <<>> /\ Len(inbox) = 0 /\ killswitch = "unset" /\ pc = "check"
      BY DEF Init
    <2> QED
      BY <2>1, TeleopKeyboardAssumption DEF Echoed, EchoAgrees
  <1>2. Echoed /\ [Next]_vars => Echoed'
    BY EchoedStep
  <1>3. Echoed => EchoAgrees
    BY DEF Echoed
  <1> QED
    BY <1>1, <1>2, <1>3, PTL DEF Spec

-----------------------------------------------------------------------------
(* A call that is being waited for is one of the list: what the type of    *)
(* the position needs to be inductive.                                     *)
Waited ==
    /\ TypeOK
    /\ pc = "wait" => index <= Len(List)

(* The list depends on what is being called, and on nothing else. *)
LEMMA ListLength ==
    /\ Len(List) \in Nat
    /\ calling' = calling => List' = List
    /\ Len(List') \in Nat
  <1>1. Len(List) \in Nat
    BY ListFacts
  <1>2. calling' = calling => List' = List
    BY DEF List
  <1>3. Len(List') \in Nat
    <2>1. \A L : L \in Seq(Drives) => Len([i \in DOMAIN L |-> <<"init", L[i]>>]) \in Nat
                                     /\ Len([i \in DOMAIN L |-> <<"halt", L[i]>>]) \in Nat
      BY DEF Services
    <2>2. Len(<<>>) \in Nat
      OBVIOUS
    <2> QED
      BY <2>1, <2>2, TeleopKeyboardAssumption DEF List
  <1> QED
    BY <1>1, <1>2, <1>3

(* Every step keeps that. *)
LEMMA WaitedStep == Waited /\ [Next]_vars => Waited'
  <1> SUFFICES ASSUME Waited, [Next]_vars PROVE Waited'
    OBVIOUS
  <1> USE ListLength DEF Waited
  <1>1. CASE InitKeyP
    <2>1. inbox' \in Seq({"on", "off"}) /\ Len(inbox') <= Depth /\ killswitch' \in {"on", "off"}
      BY <1>1, PublishFacts DEF InitKeyP, TypeOK
    <2> QED
      BY <1>1, <2>1 DEF InitKeyP, TypeOK, serviceVars
  <1>2. CASE KeyR
    <2>1. inbox' \in Seq({"on", "off"}) /\ Len(inbox') <= Depth /\ killswitch' \in {"on", "off"}
      BY <1>2, PublishFacts DEF KeyR, TypeOK
    <2> QED
      BY <1>2, <2>1 DEF KeyR, TypeOK, serviceVars
  <1>3. CASE KeyP
    <2>1. inbox' \in Seq({"on", "off"}) /\ Len(inbox') <= Depth /\ killswitch' \in {"on", "off"}
      BY <1>3, PublishFacts DEF KeyP, TypeOK
    <2> QED
      BY <1>3, <2>1 DEF KeyP, TypeOK, serviceVars
  <1>4. CASE RemotePublish
    <2>1. inbox' \in Seq({"on", "off"}) /\ Len(inbox') <= Depth /\ killswitch' \in {"on", "off"}
      BY <1>4, PublishFacts DEF RemotePublish, TypeOK
    <2>2. remote' \in 0..MaxRemote
      BY <1>4, TeleopKeyboardAssumption DEF RemotePublish, TypeOK
    <2> QED
      BY <1>4, <2>1, <2>2 DEF RemotePublish, TypeOK, mainVars, serviceVars
  <1>5. CASE Note
    <2>1. index' \in 1..(Len(List') + 1) /\ attempt' \in 1..MaxAttempts
      BY <1>5, TeleopKeyboardAssumption DEF Note, StartCalling
    <2>2. pc' = "call" /\ calling' \in {"start", "stop"} /\ x' \in {"zero", "move"}
          /\ state' \in {"init", "kill", "run"} /\ killswitch_state' \in BOOLEAN
      BY <1>5 DEF Note, StartCalling, TypeOK
    <2> QED
      BY <1>5, <2>1, <2>2 DEF Note, TypeOK, serviceVars
  <1>6. CASE CallService
    <2>1. List[index] \in Services
      BY <1>6, ListFacts, ElementOfSeq DEF CallService, TypeOK
    <2>2. request' \in [Services -> 0..MaxPending]
          /\ future' \in [Services -> {"none", "pending", "ok", "fail"}]
      BY <1>6, <2>1, TeleopKeyboardAssumption DEF CallService, TypeOK
    <2> QED
      BY <1>6, <2>2 DEF CallService, TypeOK, topicVars
  <1>7. CASE WaitCall
    <2>1. index' \in 1..(Len(List') + 1) /\ attempt' \in 1..MaxAttempts
      BY <1>7, TeleopKeyboardAssumption DEF WaitCall, TypeOK
    <2> QED
      BY <1>7, <2>1 DEF WaitCall, TypeOK, topicVars, serviceVars
  <1>8. CASE Check \/ CallsDone \/ Verify \/ Gate \/ UpdateTwist
    <2>1. calling' = calling /\ index' = index /\ attempt' = attempt /\ pc' # "wait"
      BY <1>8 DEF Check, CallsDone, Verify, Gate, UpdateTwist
    <2>2. /\ pc' \in {"initkey", "key", "verify", "gate", "publish"}
          /\ state' \in {"init", "kill", "run"} /\ x' \in {"zero", "move"}
          /\ cmd_vel_keyboard' \in {"none", "zero", "move"}
      BY <1>8 DEF Check, CallsDone, Verify, Gate, UpdateTwist, TypeOK
    <2>3. UNCHANGED <<topicVars, serviceVars>>
      BY <1>8 DEF Check, CallsDone, Verify, Gate, UpdateTwist
    <2> QED
      BY <2>1, <2>2, <2>3 DEF TypeOK, topicVars, serviceVars
  <1>9. CASE InitKeyOther \/ KeyKillOther \/ KeyMove \/ Quit \/ Interrupt
    BY <1>9 DEF InitKeyOther, KeyKillOther, KeyMove, Quit, Interrupt, TypeOK, topicVars, serviceVars
  <1>10. CASE Receive
    <2>1. inbox' \in Seq({"on", "off"}) /\ Len(inbox') <= Depth
      <3>1. inbox \in Seq({"on", "off"}) /\ inbox # <<>> /\ inbox' = Tail(inbox)
        BY <1>10 DEF Receive, TypeOK
      <3> QED
        BY <3>1, HeadTailProperties, TeleopKeyboardAssumption DEF TypeOK
    <2> QED
      BY <1>10, <2>1 DEF Receive, TypeOK, mainVars, serviceVars
  <1>11. CASE \E s \in Services : Serve(s)
    <2>1. PICK s \in Services : Serve(s)
      BY <1>11
    <2>2. request' \in [Services -> 0..MaxPending]
      BY <2>1, TeleopKeyboardAssumption DEF Serve, TypeOK
    <2>3. future' \in [Services -> {"none", "pending", "ok", "fail"}]
      BY <2>1 DEF Serve, TypeOK
    <2>4. s[2] \in Drives
      BY DEF Services
    <2>5. drive' \in [Drives -> {"off", "enabled", "halted"}]
      <3>1. PICK to \in {drive[s[2]], "enabled", "halted"} : drive' = [drive EXCEPT ![s[2]] = to]
        BY <2>1 DEF Serve
      <3> QED
        BY <2>4, <3>1 DEF TypeOK
    <2> QED
      BY <2>1, <2>2, <2>3, <2>5 DEF Serve, TypeOK, mainVars, topicVars
  <1>12. CASE UNCHANGED vars
    BY <1>12 DEF vars, mainVars, topicVars, serviceVars, TypeOK
  <1> QED
    BY <1>1, <1>2, <1>3, <1>4, <1>5, <1>6, <1>7, <1>8, <1>9, <1>10, <1>11, <1>12
       DEF Next, Keys, MainRuns

(* Type correctness, for every list of services and number of attempts.    *)
THEOREM TeleopTypes == Spec => []TypeOK
  <1>1. Init => Waited
    <2> SUFFICES ASSUME Init PROVE Waited
      OBVIOUS
    <2>1. Len(List) = 0 /\ index = 1 /\ attempt = 1 /\ pc = "check"
      BY ListFacts DEF Init
    <2>2. inbox \in Seq({"on", "off"}) /\ Len(inbox) <= Depth
      BY TeleopKeyboardAssumption DEF Init
    <2>3. /\ future \in [Services -> {"none", "pending", "ok", "fail"}]
          /\ request \in [Services -> 0..MaxPending]
          /\ remote \in 0..MaxRemote /\ 1 \in 1..MaxAttempts
      BY TeleopKeyboardAssumption DEF Init
    <2>4. index \in 1..(Len(List) + 1) /\ attempt \in 1..MaxAttempts
      BY <2>1, <2>3
    <2>5. /\ pc = "check" /\ state = "init" /\ x = "zero" /\ calling = "none"
          /\ killswitch_state = FALSE /\ killswitch = "unset" /\ cmd_vel_keyboard = "none"
          /\ drive \in [Drives -> {"off", "enabled", "halted"}]
      BY DEF Init
    <2>6. killswitch_state \in BOOLEAN /\ meddled \in BOOLEAN
      BY DEF Init
    <2> QED
      BY <2>2, <2>3, <2>4, <2>5, <2>6 DEF Waited, TypeOK
  <1>2. Waited /\ [Next]_vars => Waited'
    BY WaitedStep
  <1>3. Waited => TypeOK
    BY DEF Waited
  <1> QED
    BY <1>1, <1>2, <1>3, PTL DEF Spec
=============================================================================
