------------------------- MODULE WaypointDemoProofs -------------------------
(***************************************************************************)
(* Theorems of WaypointDemo, for every route, distance and depth of the    *)
(* subscription, and every number of crashes.                              *)
(***************************************************************************)
EXTENDS WaypointDemo, SequenceTheorems, TLAPS

(* The lists of stages a commander may have ahead of it. *)
DemoPlans ==
    { <<>>, <<"boot">>, <<"tell", "await">>, <<"await">>, <<"fault">>, <<"rest">>,
      <<"settle", "up", "down", "back", "leave">>, <<"up", "down", "back", "leave">>,
      <<"down", "back", "leave">>, <<"back", "leave">>, <<"leave">>,
      <<"settle", "up", "down", "leave">>, <<"up", "down", "leave">>, <<"down", "leave">>,
      <<"settle", "back">>, <<"back">>, <<"settle">> }

OtherPlans == { <<>>, <<"find">>, <<"await">>, <<"ride">>, <<"done">> }

Plans == IF script = "demo_run" THEN DemoPlans ELSE OtherPlans

(* The stage a commander is at; between two goals it has none. *)
StageOf(t) == IF t = <<>> THEN "none" ELSE Head(t)
Stage == StageOf(todo)

(* Types; a goal is of a waypoint. *)
TourTyped ==
    /\ script \in Scripts /\ todo \in Plans
    /\ wp \in 1..(Len(Route) + 1)
    /\ Stage \in {"tell", "await"} => wp <= Len(Route)
    /\ call \in {"none", "flying", "answered"}

WorldTyped ==
    /\ nav \in {"idle", "action", "topic"} /\ posted \in 0..GoalDepth
    /\ result \in {"none", "SUCCEEDED", "CANCELED", "FAILED"}
    /\ server \in BOOLEAN /\ queue \in Seq(Requests)
    /\ led \in Colours \cup {"none"} /\ lift \in {"UP", "DOWN"}
    /\ orphan \in BOOLEAN /\ crashes \in 0..MaxCrashes

PoseTyped ==
    /\ pos \in Int /\ current_pose \in Int /\ start \in Int /\ from \in Int
    /\ poses \in Seq(Int) /\ Len(poses) <= QueueDepth
    /\ backing \in BOOLEAN /\ backlog \in 0..QueueDepth /\ pushed \in BOOLEAN

Typed == TourTyped /\ WorldTyped /\ PoseTyped

(* The stages after a goal that succeeded. *)
Arrived == {"settle", "up", "down", "back", "leave", "ride"}

(* After a success Nav2 drives to nothing but a late goal of the topic; the *)
(* commander calls, and moves backwards, at the stages made for it.         *)
Parked ==
    /\ result = "SUCCEEDED" => nav \in {"idle", "topic"}
    /\ Stage \in Arrived => result = "SUCCEEDED"
    /\ call # "none" => Stage \in Calls
    /\ backing => Stage = "back"

(* The one request of a commander is the last in the queue, that of its    *)
(* stage, and still waited for. Those of a commander that died are served  *)
(* before the first answer to the next one.                                *)
Queued ==
    /\ \A i \in 1..Len(queue) :
          queue[i].mine => i = Len(queue) /\ call = "flying" /\ queue[i] = Request(Stage)
    /\ call = "answered" => queue = <<>>
    /\ script = "demo_run" /\ Stage # "boot" => \A i \in 1..Len(queue) : queue[i].mine
    /\ ~orphan => \A i \in 1..Len(queue) : ~queue[i].mine => queue[i].lift # "UP"
    /\ script # "demo_run" => lift = "DOWN" /\ \A i \in 1..Len(queue) : queue[i].lift # "UP"

(* What the hardware got last. *)
Shown ==
    /\ script = "demo_run" /\ call = "answered" => led = Request(Stage).led
    /\ script = "demo_run" /\ Stage = "await" => led = "BLUE"
    /\ lift = "UP" /\ ~orphan =>
          /\ led = "PURPLE"
          /\ (Stage = "up" /\ call = "answered") \/ (Stage = "down" /\ call # "answered")

LiftInv == Parked /\ Queued /\ Shown

(* While the commander moves backwards by d, the d newest poses are those  *)
(* of the way, the last the present one; once only they are left, the pose *)
(* known is the one before them. The distance is not reached yet.          *)
BackInv ==
    backing /\ ~pushed =>
        /\ pos <= from /\ Len(poses) <= backlog /\ ~Far(current_pose, start)
        /\ \A i \in 1..Len(poses) :
              Len(poses) - i < from - pos => poses[i] = pos + (Len(poses) - i)
        /\ from - pos > Len(poses) => current_pose = pos + Len(poses)
        /\ pos = from /\ backlog = 0 => current_pose = start

-----------------------------------------------------------------------------
(* Short sequences, joined. *)
LEMMA Join11 ==
    ASSUME NEW S, NEW a \in S, NEW b \in S PROVE <<a>> \o <<b>> = <<a, b>>
  <1> DEFINE s == <<a>> t == <<b>> q == s \o t
  <1>1. /\ s \in Seq(S) /\ Len(s) = 1 /\ s[1] = a
        /\ t \in Seq(S) /\ Len(t) = 1 /\ t[1] = b
    OBVIOUS
  <1> HIDE DEF s, t
  <1>2. q \in Seq(S) /\ Len(q) = 2 /\ q[1] = a /\ q[2] = b
    BY <1>1, ConcatProperties
  <1> HIDE DEF q
  <1>3. q = <<a, b>>
    BY <1>2
  <1> QED
    BY <1>3 DEF q, s, t

LEMMA Join12 ==
    ASSUME NEW S, NEW a \in S, NEW b \in S, NEW c \in S PROVE <<a>> \o <<b, c>> = <<a, b, c>>
  <1> DEFINE s == <<a>> t == <<b, c>> q == s \o t
  <1>1. /\ s \in Seq(S) /\ Len(s) = 1 /\ s[1] = a
        /\ t \in Seq(S) /\ Len(t) = 2 /\ t[1] = b /\ t[2] = c
    OBVIOUS
  <1> HIDE DEF s, t
  <1>2. q \in Seq(S) /\ Len(q) = 3 /\ q[1] = a /\ q[2] = b /\ q[3] = c
    BY <1>1, ConcatProperties
  <1> HIDE DEF q
  <1>3. q = <<a, b, c>>
    BY <1>2
  <1> QED
    BY <1>3 DEF q, s, t

LEMMA Join31 ==
    ASSUME NEW S, NEW a \in S, NEW b \in S, NEW c \in S, NEW d \in S
    PROVE  <<a, b, c>> \o <<d>> = <<a, b, c, d>>
  <1> DEFINE s == <<a, b, c>> t == <<d>> q == s \o t
  <1>1. /\ s \in Seq(S) /\ Len(s) = 3 /\ s[1] = a /\ s[2] = b /\ s[3] = c
        /\ t \in Seq(S) /\ Len(t) = 1 /\ t[1] = d
    OBVIOUS
  <1> HIDE DEF s, t
  <1>2. q \in Seq(S) /\ Len(q) = 4
    <2>1. q \in Seq(S) /\ Len(q) = Len(s) + Len(t)
      BY <1>1, ConcatProperties
    <2> QED
      BY <1>1, <2>1
  <1>3. q[1] = a /\ q[2] = b /\ q[3] = c /\ q[4] = d
    <2>1. \A i \in 1..(Len(s) + Len(t)) : q[i] = IF i <= Len(s) THEN s[i] ELSE t[i - Len(s)]
      BY <1>1, ConcatProperties
    <2> HIDE DEF q
    <2>2. \A i \in 1..4 : q[i] = IF i <= 3 THEN s[i] ELSE t[i - 3]
      BY <1>1, <2>1
    <2> QED
      BY <1>1, <2>2
  <1> HIDE DEF q
  <1>4. q = <<a, b, c, d>>
    BY <1>2, <1>3
  <1> QED
    BY <1>4 DEF q, s, t

LEMMA Join41 ==
    ASSUME NEW S, NEW a \in S, NEW b \in S, NEW c \in S, NEW d \in S, NEW e \in S
    PROVE  <<a, b, c, d>> \o <<e>> = <<a, b, c, d, e>>
  <1> DEFINE s == <<a, b, c, d>> t == <<e>> q == s \o t
  <1>1. /\ s \in Seq(S) /\ Len(s) = 4 /\ s[1] = a /\ s[2] = b /\ s[3] = c /\ s[4] = d
        /\ t \in Seq(S) /\ Len(t) = 1 /\ t[1] = e
    OBVIOUS
  <1> HIDE DEF s, t
  <1>2. q \in Seq(S) /\ Len(q) = 5
    <2>1. q \in Seq(S) /\ Len(q) = Len(s) + Len(t)
      BY <1>1, ConcatProperties
    <2> QED
      BY <1>1, <2>1
  <1>3. q[1] = a /\ q[2] = b /\ q[3] = c /\ q[4] = d /\ q[5] = e
    <2>1. \A i \in 1..(Len(s) + Len(t)) : q[i] = IF i <= Len(s) THEN s[i] ELSE t[i - Len(s)]
      BY <1>1, ConcatProperties
    <2> HIDE DEF q
    <2>2. \A i \in 1..5 : q[i] = IF i <= 4 THEN s[i] ELSE t[i - 4]
      BY <1>1, <2>1
    <2> QED
      BY <1>1, <2>2
  <1> HIDE DEF q
  <1>4. q = <<a, b, c, d, e>>
    BY <1>2, <1>3
  <1> QED
    BY <1>4 DEF q, s, t

(* Every list of a commander is one of those above. *)
LEMMA PlanFacts ==
    /\ Boot("demo_run") = <<"boot">> /\ Boot("elevator_follower") = <<"find">>
    /\ Boot("follower") = <<>>
    /\ Going = IF script = "demo_run" THEN <<"tell", "await">> ELSE <<"await">>
    /\ Failed = IF script = "demo_run" THEN <<"fault">> ELSE <<>>
  <1> DEFINE S == {"boot", "find", "tell", "await"}
  <1>1. <<"boot">> \in Seq(S) /\ <<"find">> \in Seq(S) /\ <<"await">> \in Seq(S) /\ <<>> \in Seq(S)
    OBVIOUS
  <1>2. \A q \in Seq(S) : q \o <<>> = q /\ <<>> \o q = q
    BY ConcatEmptySeq
  <1>3. <<"tell">> \o <<"await">> = <<"tell", "await">>
    <2>1. "tell" \in S /\ "await" \in S
      OBVIOUS
    <2> HIDE DEF S
    <2> QED
      BY <2>1, Join11
  <1>4. /\ Boot("demo_run") = <<"boot">> \o <<>> /\ Boot("elevator_follower") = <<>> \o <<"find">>
        /\ Boot("follower") = <<>> \o <<>>
    BY DEF Boot, If
  <1>5. Going = IF script = "demo_run" THEN <<"tell">> \o <<"await">> ELSE <<>> \o <<"await">>
    BY DEF Going, If
  <1>6. Failed = IF script = "demo_run" THEN <<"fault">> ELSE <<>>
    BY DEF Failed, If
  <1> HIDE DEF S
  <1> QED
    BY <1>1, <1>2, <1>3, <1>4, <1>5, <1>6

LEMMA SuccessFacts ==
    ASSUME NEW w \in [go_back_after : BOOLEAN, raise_lift : BOOLEAN], script = "demo_run"
    PROVE  Succeeded(w) \in { <<"settle", "up", "down", "back", "leave">>,
              <<"settle", "up", "down", "leave">>, <<"settle", "back">>, <<"settle">> }
  <1> DEFINE S == {"settle", "up", "down", "back", "leave"}
  <1>1. /\ <<"settle">> \in Seq(S) /\ <<"settle", "up", "down">> \in Seq(S) /\ <<"settle", "back">> \in Seq(S)
        /\ <<"settle", "up", "down", "back">> \in Seq(S)
    OBVIOUS
  <1>0. "settle" \in S /\ "up" \in S /\ "down" \in S /\ "back" \in S /\ "leave" \in S
    OBVIOUS
  <1> HIDE DEF S
  <1>2. \A q \in Seq(S) : q \o <<>> = q
    BY ConcatEmptySeq
  <1>3. <<"settle">> \o <<"up", "down">> = <<"settle", "up", "down">>
    BY <1>0, Join12
  <1>4. <<"settle">> \o <<"back">> = <<"settle", "back">>
    BY <1>0, Join11
  <1>5. <<"settle", "up", "down">> \o <<"back">> = <<"settle", "up", "down", "back">>
    BY <1>0, Join31
  <1>6. <<"settle", "up", "down">> \o <<"leave">> = <<"settle", "up", "down", "leave">>
    BY <1>0, Join31
  <1>7. <<"settle", "up", "down", "back">> \o <<"leave">> = <<"settle", "up", "down", "back", "leave">>
    BY <1>0, Join41
  <1>8. Succeeded(w) = ((<<"settle">> \o If(w.raise_lift, <<"up", "down">>))
                         \o If(w.go_back_after, <<"back">>)) \o If(w.raise_lift, <<"leave">>)
    BY DEF Succeeded
  <1>9. w.raise_lift \in BOOLEAN /\ w.go_back_after \in BOOLEAN
    OBVIOUS
  <1>10. CASE w.raise_lift /\ w.go_back_after
    BY <1>3, <1>5, <1>7, <1>8, <1>10 DEF If
  <1>11. CASE w.raise_lift /\ ~w.go_back_after
    BY <1>1, <1>2, <1>3, <1>6, <1>8, <1>11 DEF If
  <1>12. CASE ~w.raise_lift /\ w.go_back_after
    BY <1>1, <1>2, <1>4, <1>8, <1>12 DEF If
  <1>13. CASE ~w.raise_lift /\ ~w.go_back_after
    BY <1>1, <1>2, <1>8, <1>13 DEF If
  <1> QED
    BY <1>9, <1>10, <1>11, <1>12, <1>13

(* The stages that may follow each other in a list. *)
Follows ==
    { <<"boot", "none">>, <<"tell", "await">>, <<"await", "none">>, <<"fault", "none">>,
      <<"rest", "none">>, <<"settle", "up">>, <<"settle", "back">>, <<"settle", "none">>,
      <<"up", "down">>, <<"down", "back">>, <<"down", "leave">>, <<"back", "leave">>,
      <<"back", "none">>, <<"leave", "none">>, <<"find", "none">>, <<"ride", "none">>,
      <<"done", "none">> }

LEMMA TailFacts ==
    ASSUME NEW t, t # <<>>
    PROVE  /\ t \in DemoPlans =>
                  Tail(t) \in DemoPlans /\ <<StageOf(t), StageOf(Tail(t))>> \in Follows
           /\ t \in OtherPlans =>
                  Tail(t) \in OtherPlans /\ <<StageOf(t), StageOf(Tail(t))>> \in Follows
  <1>1. ASSUME t \in DemoPlans
        PROVE  Tail(t) \in DemoPlans /\ <<StageOf(t), StageOf(Tail(t))>> \in Follows
    <2>1. CASE t = <<"boot">>
      BY <2>1 DEF DemoPlans, StageOf, Follows
    <2>2. CASE t = <<"tell", "await">>
      BY <2>2 DEF DemoPlans, StageOf, Follows
    <2>3. CASE t = <<"await">>
      BY <2>3 DEF DemoPlans, StageOf, Follows
    <2>4. CASE t = <<"fault">>
      BY <2>4 DEF DemoPlans, StageOf, Follows
    <2>5. CASE t = <<"rest">>
      BY <2>5 DEF DemoPlans, StageOf, Follows
    <2>6. CASE t = <<"settle", "up", "down", "back", "leave">>
      BY <2>6 DEF DemoPlans, StageOf, Follows
    <2>7. CASE t = <<"up", "down", "back", "leave">>
      BY <2>7 DEF DemoPlans, StageOf, Follows
    <2>8. CASE t = <<"down", "back", "leave">>
      BY <2>8 DEF DemoPlans, StageOf, Follows
    <2>9. CASE t = <<"back", "leave">>
      BY <2>9 DEF DemoPlans, StageOf, Follows
    <2>10. CASE t = <<"leave">>
      BY <2>10 DEF DemoPlans, StageOf, Follows
    <2>11. CASE t = <<"settle", "up", "down", "leave">>
      BY <2>11 DEF DemoPlans, StageOf, Follows
    <2>12. CASE t = <<"up", "down", "leave">>
      BY <2>12 DEF DemoPlans, StageOf, Follows
    <2>13. CASE t = <<"down", "leave">>
      BY <2>13 DEF DemoPlans, StageOf, Follows
    <2>14. CASE t = <<"settle", "back">>
      BY <2>14 DEF DemoPlans, StageOf, Follows
    <2>15. CASE t = <<"back">>
      BY <2>15 DEF DemoPlans, StageOf, Follows
    <2>16. CASE t = <<"settle">>
      BY <2>16 DEF DemoPlans, StageOf, Follows
    <2> QED
      BY <1>1, <2>1, <2>2, <2>3, <2>4, <2>5, <2>6, <2>7, <2>8, <2>9, <2>10, <2>11, <2>12, <2>13, <2>14, <2>15, <2>16 DEF DemoPlans
  <1>2. ASSUME t \in OtherPlans
        PROVE  Tail(t) \in OtherPlans /\ <<StageOf(t), StageOf(Tail(t))>> \in Follows
    <2>1. CASE t = <<"find">>
      BY <2>1 DEF OtherPlans, StageOf, Follows
    <2>2. CASE t = <<"await">>
      BY <2>2 DEF OtherPlans, StageOf, Follows
    <2>3. CASE t = <<"ride">>
      BY <2>3 DEF OtherPlans, StageOf, Follows
    <2>4. CASE t = <<"done">>
      BY <2>4 DEF OtherPlans, StageOf, Follows
    <2> QED
      BY <1>2, <2>1, <2>2, <2>3, <2>4 DEF OtherPlans
  <1> QED
    BY <1>1, <1>2

-----------------------------------------------------------------------------
(* What a list and its stage have to do with each other. *)
LEMMA AtStage == \A s : s # "none" => (At(s) <=> Stage = s)
  BY DEF At, Stage, StageOf

LEMMA NoStage == \A t \in DemoPlans \cup OtherPlans : StageOf(t) = "none" <=> t = <<>>
  <1> SUFFICES ASSUME NEW t \in DemoPlans \cup OtherPlans, t # <<>> PROVE StageOf(t) # "none"
    BY DEF StageOf
  <1>1. <<StageOf(t), StageOf(Tail(t))>> \in Follows
    BY TailFacts
  <1> QED
    BY <1>1 DEF Follows

(* The next stage of the list. *)
LEMMA TailMoves ==
    ASSUME TourTyped, script' = script, todo # <<>>, todo' = Tail(todo)
    PROVE  todo' \in Plans' /\ <<Stage, Stage'>> \in Follows
  <1>1. Plans' = Plans /\ todo \in Plans
    BY DEF TourTyped, Plans
  <1>2. todo' \in Plans /\ <<StageOf(todo), StageOf(todo')>> \in Follows
    BY <1>1, TailFacts DEF Plans
  <1> QED
    BY <1>1, <1>2 DEF Stage

(* The list that is made when the last is at its end. *)
LEMMA SendMoves ==
    ASSUME TourTyped, Send
    PROVE  /\ Stage = "none" /\ script' = script /\ todo' \in Plans'
           /\ Stage' = IF script = "demo_run" THEN "tell" ELSE "await"
  <1>1. todo = <<>> /\ script' = script /\ todo' = Going
    BY DEF Send
  <1>2. CASE script = "demo_run"
    <2>1. todo' = <<"tell", "await">>
      BY <1>1, <1>2, PlanFacts
    <2> QED
      BY <1>1, <1>2, <2>1 DEF Plans, DemoPlans, Stage, StageOf
  <1>3. CASE script # "demo_run"
    <2>1. todo' = <<"await">>
      BY <1>1, <1>3, PlanFacts
    <2> QED
      BY <1>1, <1>3, <2>1 DEF Plans, OtherPlans, Stage, StageOf
  <1> QED
    BY <1>2, <1>3

LEMMA FinishMoves ==
    ASSUME TourTyped, Finish
    PROVE  /\ Stage = "none" /\ script' = script /\ todo' \in Plans'
           /\ Stage' = IF script = "demo_run" THEN "rest" ELSE "done"
  <1>1. todo = <<>> /\ script' = script /\ todo' = EndOfRoute
    BY DEF Finish
  <1>2. CASE script = "demo_run"
    <2>1. todo' = <<"rest">>
      BY <1>1, <1>2 DEF EndOfRoute
    <2> QED
      BY <1>1, <1>2, <2>1 DEF Plans, DemoPlans, Stage, StageOf
  <1>3. CASE script # "demo_run"
    <2>1. todo' = <<"done">>
      BY <1>1, <1>3 DEF EndOfRoute
    <2> QED
      BY <1>1, <1>3, <2>1 DEF Plans, OtherPlans, Stage, StageOf
  <1> QED
    BY <1>2, <1>3

LEMMA AwaitMoves ==
    ASSUME TourTyped, Await
    PROVE  /\ Stage = "await" /\ script' = script /\ todo' \in Plans'
           /\ \/ Stage' \in {"none", "fault"}
              \/ result = "SUCCEEDED" /\ Stage' \in {"settle", "ride"}
  <1>1. Stage = "await" /\ script' = script
    BY AtStage DEF Await
  <1>2. CASE result # "SUCCEEDED"
    <2>1. todo' = Failed
      BY <1>2 DEF Await
    <2>2. CASE script = "demo_run"
      <3>1. todo' = <<"fault">>
        BY <2>1, <2>2, PlanFacts
      <3> QED
        BY <1>1, <2>2, <3>1 DEF Plans, DemoPlans, Stage, StageOf
    <2>3. CASE script # "demo_run"
      <3>1. todo' = <<>>
        BY <2>1, <2>3, PlanFacts
      <3> QED
        BY <1>1, <2>3, <3>1 DEF Plans, OtherPlans, Stage, StageOf
    <2> QED
      BY <2>2, <2>3
  <1>3. CASE result = "SUCCEEDED"
    <2>1. todo' = Succeeded(Route[wp])
      BY <1>3 DEF Await
    <2>2. CASE script = "demo_run"
      <3>1. Route[wp] \in [go_back_after : BOOLEAN, raise_lift : BOOLEAN]
        <4>1. wp \in 1..Len(Route)
          BY <1>1, WaypointDemoAssumption, LenProperties DEF TourTyped
        <4>2. Route \in Seq([go_back_after : BOOLEAN, raise_lift : BOOLEAN])
          BY WaypointDemoAssumption
        <4> QED
          BY <4>1, <4>2, ElementOfSeq
      <3>2. todo' \in { <<"settle", "up", "down", "back", "leave">>,
                  <<"settle", "up", "down", "leave">>, <<"settle", "back">>, <<"settle">> }
        BY <2>1, <2>2, <3>1, SuccessFacts
      <3>3. todo' \in DemoPlans /\ Stage' = "settle"
        BY <3>2 DEF DemoPlans, Stage, StageOf
      <3> QED
        BY <1>1, <1>3, <2>2, <3>3 DEF Plans
    <2>3. CASE script = "elevator_follower"
      <3>1. todo' = <<"ride">>
        BY <2>1, <2>3 DEF Succeeded
      <3> QED
        BY <1>1, <1>3, <2>3, <3>1 DEF Plans, OtherPlans, Stage, StageOf
    <2>4. CASE script = "follower"
      <3>1. todo' = <<>>
        BY <2>1, <2>4 DEF Succeeded
      <3> QED
        BY <1>1, <2>4, <3>1 DEF Plans, OtherPlans, Stage, StageOf
    <2> QED
      BY <2>2, <2>3, <2>4 DEF TourTyped, Scripts
  <1> QED
    BY <1>2, <1>3

(* A commander that starts. *)
LEMMA BootMoves ==
    ASSUME NEW s \in Scripts
    PROVE  /\ Boot(s) \in IF s = "demo_run" THEN DemoPlans ELSE OtherPlans
           /\ StageOf(Boot(s)) \in {"boot", "find", "none"}
           /\ s = "demo_run" => StageOf(Boot(s)) = "boot"
  <1>1. CASE s = "demo_run"
    BY <1>1, PlanFacts DEF DemoPlans, StageOf
  <1>2. CASE s = "elevator_follower"
    BY <1>2, PlanFacts DEF OtherPlans, StageOf
  <1>3. CASE s = "follower"
    BY <1>3, PlanFacts DEF OtherPlans, StageOf
  <1> QED
    BY <1>1, <1>2, <1>3 DEF Scripts

(* The steps that leave the list of the commander alone. *)
Aside ==
    \/ (\E s \in Calls : Call(s)) \/ Listen \/ BackBegin
    \/ Serve \/ ServeFails \/ ServerCrash \/ ServerStart
    \/ Drive \/ NavEnds \/ TakePosted

LEMMA AsideMoves == Aside \/ UNCHANGED vars => UNCHANGED <<script, wp, todo>>
  BY DEF Aside, Call, Listen, BackBegin, Serve, ServeFails, ServerCrash, ServerStart, Drive, NavEnds,
         TopicEnds, ActionEnds, TakePosted, vars, tourVars

(* The types of the tour. *)
LEMMA TourStep == Typed /\ LiftInv /\ [Next]_vars => TourTyped'
  <1> SUFFICES ASSUME Typed, LiftInv, [Next]_vars PROVE TourTyped'
    OBVIOUS
  <1>0. TourTyped /\ Len(Route) \in Nat
    BY WaypointDemoAssumption, LenProperties DEF Typed
  <1>1. call' \in {"none", "flying", "answered"}
    <2>1. CASE (\E s \in Calls : Call(s)) \/ Answered \/ Serve \/ CommanderRestart
      BY <1>0, <2>1 DEF Call, Answered, Serve, CommanderRestart, TourTyped
    <2>2. CASE ~((\E s \in Calls : Call(s)) \/ Answered \/ Serve \/ CommanderRestart)
      <3>1. call' = call
        BY <2>2 DEF Next, Commander, Find, Send, Finish, Await, Settle, BackBegin, BackStep, Listen,
           ServeFails, ServerCrash, ServerStart, Drive, NavEnds, TopicEnds, ActionEnds, TakePosted,
           vars, tourVars
      <3> QED
        BY <1>0, <3>1 DEF TourTyped
    <2> QED
      BY <2>1, <2>2
  <1>2. CASE Aside \/ UNCHANGED vars
    BY <1>0, <1>1, <1>2, AsideMoves DEF TourTyped, Plans, Stage
  <1>3. CASE Find \/ Answered \/ Settle
    <2>1. script' = script /\ wp' = wp /\ todo' = Tail(todo)
      BY <1>3 DEF Find, Answered, Settle
    <2>2. todo # <<>>
      <3>1. CASE Find \/ Settle
        BY <3>1 DEF Find, Settle, At
      <3>2. CASE Answered
        BY <3>2 DEF Answered, LiftInv, Parked, Stage, StageOf, Calls
      <3> QED
        BY <1>3, <3>1, <3>2
    <2> QED
      BY <1>0, <1>1, <2>1, <2>2, TailMoves DEF TourTyped, Follows
  <1>4. ASSUME NEW m, BackStep(m) PROVE TourTyped'
    <2>1. /\ script' = script /\ wp' = wp /\ todo # <<>> /\ Stage = "back"
          /\ todo' = todo \/ todo' = Tail(todo)
      BY <1>4, AtStage DEF BackStep, At
    <2>2. CASE todo' = todo
      BY <1>0, <1>1, <2>1, <2>2 DEF TourTyped, Plans, Stage
    <2>3. CASE todo' = Tail(todo)
      BY <1>0, <1>1, <2>1, <2>3, TailMoves DEF TourTyped, Follows
    <2> QED
      BY <2>1, <2>2, <2>3
  <1>5. CASE Send
    BY <1>0, <1>1, <1>5, SendMoves DEF TourTyped, Send
  <1>6. CASE Finish
    BY <1>0, <1>1, <1>6, FinishMoves DEF TourTyped, Finish
  <1>7. CASE Await
    BY <1>0, <1>1, <1>7, AwaitMoves DEF TourTyped, Await
  <1>8. CASE CommanderRestart
    <2>1. script' = script /\ wp' = 1 /\ todo' = Boot(script)
      BY <1>8 DEF CommanderRestart
    <2> QED
      BY <1>0, <1>1, <2>1, BootMoves DEF TourTyped, Plans, Stage
  <1> QED
    BY <1>2, <1>3, <1>4, <1>5, <1>6, <1>7, <1>8 DEF Next, Commander, Aside

-----------------------------------------------------------------------------
(* The requests. *)
LEMMA RequestFacts ==
    \A s \in Calls :
        /\ Request(s) \in Requests /\ Request(s).mine
        /\ Request(s).lift = "UP" <=> s = "up"
        /\ Request(s).lift = "DOWN" <=> s = "down"
        /\ s \in {"up", "down"} => Request(s).led = "PURPLE"
        /\ s = "tell" => Request(s).led = "BLUE"
        /\ s # "ride" => Request(s).led \in Colours
        /\ s = "ride" => Request(s).led = "none"
  <1> SUFFICES ASSUME NEW s \in Calls
               PROVE  /\ Request(s) \in Requests /\ Request(s).mine
                      /\ Request(s).lift = "UP" <=> s = "up"
                      /\ Request(s).lift = "DOWN" <=> s = "down"
                      /\ s \in {"up", "down"} => Request(s).led = "PURPLE"
                      /\ s = "tell" => Request(s).led = "BLUE"
                      /\ s # "ride" => Request(s).led \in Colours
                      /\ s = "ride" => Request(s).led = "none"
    OBVIOUS
  <1>1. CASE s = "boot"
    <2>1. ColourOf(s) = "GREEN" /\ LiftOf(s) = "NOOP"
      BY <1>1 DEF ColourOf, LiftOf
    <2> QED
      BY <1>1, <2>1 DEF Request, Requests, Colours
  <1>2. CASE s = "tell"
    <2>1. ColourOf(s) = "BLUE" /\ LiftOf(s) = "NOOP"
      BY <1>2 DEF ColourOf, LiftOf
    <2> QED
      BY <1>2, <2>1 DEF Request, Requests, Colours
  <1>3. CASE s = "up"
    <2>1. ColourOf(s) = "PURPLE" /\ LiftOf(s) = "UP"
      BY <1>3 DEF ColourOf, LiftOf
    <2> QED
      BY <1>3, <2>1 DEF Request, Requests, Colours
  <1>4. CASE s = "down"
    <2>1. ColourOf(s) = "PURPLE" /\ LiftOf(s) = "DOWN"
      BY <1>4 DEF ColourOf, LiftOf
    <2> QED
      BY <1>4, <2>1 DEF Request, Requests, Colours
  <1>5. CASE s = "leave"
    <2>1. ColourOf(s) = "BLUE" /\ LiftOf(s) = "NOOP"
      BY <1>5 DEF ColourOf, LiftOf
    <2> QED
      BY <1>5, <2>1 DEF Request, Requests, Colours
  <1>6. CASE s = "fault"
    <2>1. ColourOf(s) = "RED" /\ LiftOf(s) = "NOOP"
      BY <1>6 DEF ColourOf, LiftOf
    <2> QED
      BY <1>6, <2>1 DEF Request, Requests, Colours
  <1>7. CASE s = "rest"
    <2>1. ColourOf(s) = "GREEN" /\ LiftOf(s) = "NOOP"
      BY <1>7 DEF ColourOf, LiftOf
    <2> QED
      BY <1>7, <2>1 DEF Request, Requests, Colours
  <1>8. CASE s = "ride"
    <2>1. ColourOf(s) = "none" /\ LiftOf(s) = "RIDE"
      BY <1>8 DEF ColourOf, LiftOf
    <2> QED
      BY <1>8, <2>1 DEF Request, Requests, Colours
  <1> QED
    BY <1>1, <1>2, <1>3, <1>4, <1>5, <1>6, <1>7, <1>8 DEF Calls

LEMMA RequestTypes ==
    \A r \in Requests : /\ r.led \in Colours \cup {"none"} /\ r.mine \in BOOLEAN
                         /\ r.lift \in {"NOOP", "UP", "DOWN", "RIDE"}
  BY DEF Requests

(* What becomes of a request when its commander dies. *)
LEMMA Disowned ==
    ASSUME NEW r \in Requests
    PROVE  LET o == [r EXCEPT !.mine = FALSE] IN
             o \in Requests /\ ~o.mine /\ o.lift = r.lift
  BY DEF Requests

(* Those in the queue. *)
LEMMA QueueFacts ==
    ASSUME NEW q \in Seq(Requests)
    PROVE  /\ Len(q) \in Nat /\ DOMAIN q = 1..Len(q) /\ \A i \in 1..Len(q) : q[i] \in Requests
           /\ q # <<>> => /\ 1 \in 1..Len(q) /\ Head(q) = q[1] /\ Tail(q) \in Seq(Requests)
                          /\ Len(Tail(q)) = Len(q) - 1
                          /\ \A i \in 1..(Len(q) - 1) : Tail(q)[i] = q[i + 1]
  <1>1. Len(q) \in Nat /\ DOMAIN q = 1..Len(q) /\ \A i \in 1..Len(q) : q[i] \in Requests
    BY LenProperties, ElementOfSeq
  <1>2. ASSUME q # <<>>
        PROVE  /\ 1 \in 1..Len(q) /\ Head(q) = q[1] /\ Tail(q) \in Seq(Requests)
               /\ Len(Tail(q)) = Len(q) - 1
               /\ \A i \in 1..(Len(q) - 1) : Tail(q)[i] = q[i + 1]
    <2>1. Tail(q) \in Seq(Requests) /\ Len(Tail(q)) = Len(q) - 1
          /\ \A i \in 1..Len(Tail(q)) : Tail(q)[i] = q[i + 1]
      BY <1>2, HeadTailProperties
    <2>2. Len(q) # 0 /\ Head(q) = q[1]
      BY <1>2, EmptySeq
    <2> QED
      BY <1>1, <2>1, <2>2
  <1> QED
    BY <1>1, <1>2

LEMMA DisownedQueue ==
    ASSUME NEW q \in Seq(Requests)
    PROVE  LET o == [i \in DOMAIN q |-> [q[i] EXCEPT !.mine = FALSE]] IN
             /\ o \in Seq(Requests) /\ Len(o) = Len(q)
             /\ \A i \in 1..Len(q) : ~o[i].mine /\ o[i].lift = q[i].lift
  <1> DEFINE o == [i \in DOMAIN q |-> [q[i] EXCEPT !.mine = FALSE]]
  <1>1. Len(q) \in Nat /\ DOMAIN q = 1..Len(q) /\ \A i \in 1..Len(q) : q[i] \in Requests
    BY QueueFacts
  <1>2. \A i \in 1..Len(q) : o[i] \in Requests /\ ~o[i].mine /\ o[i].lift = q[i].lift
    BY <1>1, Disowned
  <1>3. o \in [1..Len(q) -> Requests]
    <2>1. o = [i \in 1..Len(q) |-> o[i]]
      BY <1>1
    <2> QED
      BY <1>2, <2>1
  <1> HIDE DEF o
  <1>4. o \in Seq(Requests) /\ Len(o) = Len(q)
    BY <1>1, <1>3, SeqDef, LenProperties
  <1> QED
    BY <1>2, <1>4 DEF o

(* The types of Nav2, the server and the hardware. *)
LEMMA WorldStep == Typed /\ LiftInv /\ [Next]_vars => WorldTyped'
  <1> SUFFICES ASSUME Typed, LiftInv, [Next]_vars PROVE WorldTyped'
    OBVIOUS
  <1>0. WorldTyped /\ queue \in Seq(Requests) /\ MaxCrashes \in Nat /\ GoalDepth \in Nat \ {0}
    BY WaypointDemoAssumption DEF Typed, WorldTyped
  <1>1. CASE Find \/ Answered \/ Finish \/ Await \/ Settle \/ BackBegin \/ Listen \/ Drive
             \/ UNCHANGED vars
    BY <1>0, <1>1 DEF Find, Answered, Finish, Await, Settle, BackBegin, Listen, Drive, vars,
       navVars, serverVars, ghostVars, WorldTyped
  <1>2. ASSUME NEW m, BackStep(m) PROVE WorldTyped'
    BY <1>0, <1>2 DEF BackStep, navVars, serverVars, ghostVars, WorldTyped
  <1>3. ASSUME NEW s \in Calls, Call(s) PROVE WorldTyped'
    <2>1. queue' = Append(queue, Request(s)) \/ queue' = queue
      BY <1>3 DEF Call
    <2>2. queue' \in Seq(Requests)
      BY <1>0, <2>1, RequestFacts, AppendProperties
    <2> QED
      BY <1>0, <1>3, <2>2 DEF Call, navVars, ghostVars, WorldTyped
  <1>4. CASE Send
    <2>1. posted' \in 0..GoalDepth
      BY <1>0, <1>4 DEF Send, Post, WorldTyped
    <2> QED
      BY <1>0, <1>4, <2>1 DEF Send, serverVars, ghostVars, WorldTyped
  <1>5. CASE Serve
    <2>1. Head(queue) \in Requests /\ queue' \in Seq(Requests)
      BY <1>0, <1>5, QueueFacts DEF Serve
    <2>2. led' \in Colours \cup {"none"} /\ lift' \in {"UP", "DOWN"}
      BY <1>0, <1>5, <2>1, RequestTypes DEF Serve, Obey, WorldTyped
    <2>3. orphan' \in BOOLEAN
      BY <1>5 DEF Serve
    <2> QED
      BY <1>0, <1>5, <2>1, <2>2, <2>3 DEF Serve, navVars, WorldTyped
  <1>6. CASE ServeFails \/ ServerCrash
    <2>1. crashes' \in 0..MaxCrashes
      BY <1>0, <1>6 DEF ServeFails, ServerCrash, WorldTyped
    <2>2. <<>> \in Seq(Requests)
      OBVIOUS
    <2>3. server' \in BOOLEAN
      BY <1>6 DEF ServeFails, ServerCrash
    <2>4. led' \in Colours \cup {"none"}
      BY <1>0, <1>6, QueueFacts, RequestTypes DEF ServeFails, ServerCrash, WorldTyped
    <2> QED
      BY <1>0, <1>6, <2>1, <2>2, <2>3, <2>4 DEF ServeFails, ServerCrash, navVars, WorldTyped
  <1>7. CASE ServerStart
    <2>1. server' \in BOOLEAN
      BY <1>7 DEF ServerStart
    <2> QED
      BY <1>0, <1>7, <2>1 DEF ServerStart, navVars, ghostVars, WorldTyped
  <1>8. CASE CommanderRestart
    <2>1. crashes' \in 0..MaxCrashes
      BY <1>0, <1>8 DEF CommanderRestart, WorldTyped
    <2>2. queue' \in Seq(Requests)
      BY <1>0, <1>8, DisownedQueue DEF CommanderRestart
    <2>3. orphan' \in BOOLEAN
      BY <1>8 DEF CommanderRestart
    <2>4. result' = "none" /\ UNCHANGED <<nav, posted, server, led, lift>>
      BY <1>8 DEF CommanderRestart
    <2> QED
      BY <1>0, <2>1, <2>2, <2>3, <2>4 DEF WorldTyped
  <1>9. CASE TopicEnds \/ TakePosted
    <2>1. posted' \in 0..GoalDepth
      BY <1>0, <1>9 DEF TopicEnds, TakePosted, WorldTyped
    <2> QED
      BY <1>0, <1>9, <2>1 DEF TopicEnds, TakePosted, serverVars, ghostVars, WorldTyped
  <1>10. ASSUME NEW r \in {"SUCCEEDED", "CANCELED", "FAILED"}, ActionEnds(r) PROVE WorldTyped'
    BY <1>0, <1>10 DEF ActionEnds, serverVars, ghostVars, WorldTyped
  <1> QED
    BY <1>1, <1>2, <1>3, <1>4, <1>5, <1>6, <1>7, <1>8, <1>9, <1>10 DEF Next, Commander, NavEnds

-----------------------------------------------------------------------------
(* Poses that wait: taking the oldest, and adding one behind the newest,   *)
(* for which the oldest makes room when there is none.                     *)
LEMMA OldestFacts ==
    ASSUME NEW q \in Seq(Int), q # <<>>
    PROVE  /\ Len(q) \in Nat \ {0} /\ Head(q) = q[1] /\ q[1] \in Int /\ Tail(q) \in Seq(Int)
           /\ Len(Tail(q)) = Len(q) - 1 /\ \A i \in 1..(Len(q) - 1) : Tail(q)[i] = q[i + 1]
  <1>1. Len(q) \in Nat /\ \A i \in 1..Len(q) : q[i] \in Int
    BY LenProperties, ElementOfSeq
  <1>2. Tail(q) \in Seq(Int) /\ Len(Tail(q)) = Len(q) - 1
        /\ \A i \in 1..Len(Tail(q)) : Tail(q)[i] = q[i + 1]
    BY HeadTailProperties
  <1>3. Len(q) # 0 /\ Head(q) = q[1]
    BY EmptySeq
  <1> QED
    BY <1>1, <1>2, <1>3

LEMMA EnqueueFacts ==
    ASSUME PoseTyped, NEW p \in Int
    PROVE  /\ Enqueue(p) \in Seq(Int) /\ Len(poses) \in Nat
           /\ Len(poses) < QueueDepth =>
                 /\ Len(Enqueue(p)) = Len(poses) + 1 /\ Enqueue(p)[Len(poses) + 1] = p
                 /\ \A i \in 1..Len(poses) : Enqueue(p)[i] = poses[i]
           /\ Len(poses) = QueueDepth =>
                 /\ Len(Enqueue(p)) = Len(poses) /\ Enqueue(p)[Len(poses)] = p
                 /\ \A i \in 1..(Len(poses) - 1) : Enqueue(p)[i] = poses[i + 1]
  <1>0. poses \in Seq(Int) /\ Len(poses) \in Nat /\ QueueDepth \in Nat \ {0}
    BY WaypointDemoAssumption, LenProperties DEF PoseTyped
  <1>1. CASE Len(poses) < QueueDepth
    <2>1. Enqueue(p) = Append(poses, p)
      BY <1>0, <1>1 DEF Enqueue
    <2>2. /\ Append(poses, p) \in Seq(Int) /\ Len(Append(poses, p)) = Len(poses) + 1
          /\ Append(poses, p)[Len(poses) + 1] = p
          /\ \A i \in 1..Len(poses) : Append(poses, p)[i] = poses[i]
      BY <1>0, AppendProperties
    <2> QED
      BY <1>0, <1>1, <2>1, <2>2
  <1>2. CASE Len(poses) = QueueDepth
    <2> DEFINE t == Tail(poses)
    <2>1. Enqueue(p) = Append(t, p)
      BY <1>2 DEF Enqueue
    <2>2. /\ t \in Seq(Int) /\ Len(t) = Len(poses) - 1
          /\ \A i \in 1..(Len(poses) - 1) : t[i] = poses[i + 1]
      <3>1. poses # <<>>
        BY <1>0, <1>2, EmptySeq
      <3> QED
        BY <1>0, <3>1, OldestFacts
    <2> HIDE DEF t
    <2>3. /\ Append(t, p) \in Seq(Int) /\ Len(Append(t, p)) = Len(t) + 1
          /\ Append(t, p)[Len(t) + 1] = p
          /\ \A i \in 1..Len(t) : Append(t, p)[i] = t[i]
      BY <2>2, AppendProperties
    <2>4. Len(t) + 1 = Len(poses)
      BY <1>0, <2>2
    <2> QED
      BY <1>0, <1>2, <2>1, <2>2, <2>3, <2>4
  <1>3. Len(poses) < QueueDepth \/ Len(poses) = QueueDepth
    BY <1>0 DEF PoseTyped
  <1> QED
    BY <1>0, <1>1, <1>2, <1>3

(* A goal moves the origin of the poses that wait, too. *)
LEMMA ShiftFacts ==
    ASSUME NEW q \in Seq(Int), NEW d \in Int
    PROVE  LET o == [i \in DOMAIN q |-> q[i] - d] IN o \in Seq(Int) /\ Len(o) = Len(q)
  <1> DEFINE o == [i \in DOMAIN q |-> q[i] - d]
  <1>1. Len(q) \in Nat /\ DOMAIN q = 1..Len(q) /\ \A i \in 1..Len(q) : q[i] \in Int
    BY LenProperties, ElementOfSeq
  <1>2. o \in [1..Len(q) -> Int]
    BY <1>1
  <1> HIDE DEF o
  <1>3. o \in Seq(Int) /\ Len(o) = Len(q)
    BY <1>1, <1>2, SeqDef, LenProperties
  <1> QED
    BY <1>3 DEF o

(* One turn of the loop: what it sees, takes and leaves. *)
Seen(m) == IF m = 0 THEN poses ELSE Enqueue(pos')

LEMMA SeenFacts ==
    ASSUME PoseTyped, NEW m \in {0, 1}, pos' = pos - m
    PROVE  /\ Seen(m) \in Seq(Int) /\ Len(Seen(m)) \in Nat
           /\ Len(Seen(m)) <= QueueDepth /\ Len(Seen(m)) <= Len(poses) + m
           /\ m = 1 => Len(Seen(m)) >= 1 /\ Seen(m)[Len(Seen(m))] = pos'
           /\ \E k \in {0, 1} :
                 \A i \in 1..(Len(Seen(m)) - m) :
                    /\ Seen(m)[i] = poses[i + k]
                    /\ i + k \in 1..Len(poses) /\ Len(poses) - (i + k) = Len(Seen(m)) - m - i
  <1>0. poses \in Seq(Int) /\ Len(poses) \in Nat /\ QueueDepth \in Nat \ {0} /\ pos' \in Int
        /\ Len(poses) <= QueueDepth
    BY WaypointDemoAssumption, LenProperties DEF PoseTyped
  <1>1. CASE m = 0
    <2>1. Seen(m) = poses
      BY <1>1 DEF Seen
    <2>2. \A i \in 1..(Len(poses) - m) :
             /\ poses[i] = poses[i + 0]
             /\ i + 0 \in 1..Len(poses) /\ Len(poses) - (i + 0) = Len(poses) - m - i
      BY <1>0, <1>1
    <2> QED
      BY <1>0, <1>1, <2>1, <2>2
  <1>2. CASE m = 1 /\ Len(poses) < QueueDepth
    <2> DEFINE e == Enqueue(pos')
    <2>1. /\ e \in Seq(Int) /\ Len(e) = Len(poses) + 1 /\ e[Len(poses) + 1] = pos'
          /\ \A i \in 1..Len(poses) : e[i] = poses[i]
      BY <1>0, <1>2, EnqueueFacts
    <2>2. Seen(m) = e
      BY <1>2 DEF Seen
    <2> HIDE DEF e
    <2>3. Len(e) - m = Len(poses) /\ Len(e) <= QueueDepth /\ Len(e) >= 1
      BY <1>0, <1>2, <2>1
    <2>4. \A i \in 1..(Len(e) - m) :
             /\ e[i] = poses[i + 0]
             /\ i + 0 \in 1..Len(poses) /\ Len(poses) - (i + 0) = Len(e) - m - i
      BY <1>0, <2>1, <2>3
    <2> QED
      BY <1>0, <1>2, <2>1, <2>2, <2>3, <2>4
  <1>3. CASE m = 1 /\ Len(poses) = QueueDepth
    <2> DEFINE e == Enqueue(pos')
    <2>1. /\ e \in Seq(Int) /\ Len(e) = Len(poses) /\ e[Len(poses)] = pos'
          /\ \A i \in 1..(Len(poses) - 1) : e[i] = poses[i + 1]
      BY <1>0, <1>3, EnqueueFacts
    <2>2. Seen(m) = e
      BY <1>3 DEF Seen
    <2> HIDE DEF e
    <2>3. Len(e) - m = Len(poses) - 1 /\ Len(e) <= QueueDepth /\ Len(e) >= 1
      BY <1>0, <1>3, <2>1
    <2>4. \A i \in 1..(Len(e) - m) :
             /\ e[i] = poses[i + 1]
             /\ i + 1 \in 1..Len(poses) /\ Len(poses) - (i + 1) = Len(e) - m - i
      BY <1>0, <2>1, <2>3
    <2> QED
      BY <1>0, <1>3, <2>1, <2>2, <2>3, <2>4
  <1> QED
    BY <1>0, <1>1, <1>2, <1>3

LEMMA TurnFacts ==
    ASSUME PoseTyped, NEW m \in {0, 1}, BackStep(m)
    PROVE  /\ pos' = pos - m
           /\ Seen(m) = <<>> => current_pose' = current_pose /\ poses' = <<>>
           /\ Seen(m) # <<>> => current_pose' = Seen(m)[1] /\ poses' = Tail(Seen(m))
           /\ poses' \in Seq(Int) /\ Len(poses') <= QueueDepth /\ current_pose' \in Int
  <1>1. /\ pos' = pos - m
        /\ current_pose' = IF Seen(m) = <<>> THEN current_pose ELSE Head(Seen(m))
        /\ poses' = IF Seen(m) = <<>> THEN Seen(m) ELSE Tail(Seen(m))
    BY DEF BackStep, Seen
  <1>2. Seen(m) \in Seq(Int) /\ Len(Seen(m)) \in Nat /\ Len(Seen(m)) <= QueueDepth
    BY <1>1, SeenFacts
  <1>3. CASE Seen(m) = <<>>
    <2>1. Len(<<>>) = 0 /\ <<>> \in Seq(Int) /\ 0 <= QueueDepth
      BY WaypointDemoAssumption
    <2> QED
      BY <1>1, <1>3, <2>1 DEF PoseTyped
  <1>4. CASE Seen(m) # <<>>
    <2> DEFINE e == Seen(m)
    <2>1. /\ Len(e) \in Nat \ {0} /\ Head(e) = e[1] /\ e[1] \in Int /\ Tail(e) \in Seq(Int)
          /\ Len(Tail(e)) = Len(e) - 1
      BY <1>2, <1>4, OldestFacts
    <2>2. QueueDepth \in Nat /\ Len(e) - 1 <= QueueDepth
      BY <1>2, WaypointDemoAssumption
    <2> HIDE DEF e
    <2>3. current_pose' = e[1] /\ poses' = Tail(e)
      BY <1>1, <1>4, <2>1 DEF e
    <2> QED
      BY <1>1, <1>4, <2>1, <2>2, <2>3 DEF e
  <1> QED
    BY <1>3, <1>4

(* The types of the poses. *)
LEMMA PoseStep == Typed /\ [Next]_vars => PoseTyped'
  <1> SUFFICES ASSUME Typed, [Next]_vars PROVE PoseTyped'
    OBVIOUS
  <1>0. /\ PoseTyped /\ poses \in Seq(Int) /\ Len(poses) \in Nat /\ QueueDepth \in Nat \ {0}
        /\ \A d \in Strays : d \in Int
    BY WaypointDemoAssumption, LenProperties DEF Typed, PoseTyped
  <1>1. CASE \/ Find \/ Answered \/ Finish \/ Await \/ (\E s \in Calls : Call(s))
             \/ Serve \/ ServeFails \/ ServerCrash \/ ServerStart \/ NavEnds \/ TakePosted
             \/ UNCHANGED vars
    BY <1>0, <1>1 DEF Find, Answered, Finish, Await, Call, Serve, ServeFails, ServerCrash,
       ServerStart, NavEnds, TopicEnds, ActionEnds, TakePosted, vars, poseVars, backVars, PoseTyped
  <1>2. CASE Send
    <2>1. poses' \in Seq(Int) /\ Len(poses') = Len(poses)
      BY <1>0, <1>2, ShiftFacts DEF Send, PoseTyped
    <2> QED
      BY <1>0, <1>2, <2>1 DEF Send, backVars, PoseTyped
  <1>3. CASE Listen \/ Settle
    <2>1. TakePose /\ UNCHANGED <<pos, backVars>>
      BY <1>3 DEF Listen, Settle
    <2>2. CASE poses = <<>>
      BY <1>0, <2>1, <2>2 DEF TakePose, backVars, PoseTyped
    <2>3. CASE poses # <<>>
      <3>1. /\ current_pose' \in Int /\ poses' \in Seq(Int) /\ Len(poses') = Len(poses) - 1
        BY <1>0, <2>1, <2>3, OldestFacts DEF TakePose
      <3> QED
        BY <1>0, <2>1, <3>1 DEF backVars, PoseTyped
    <2> QED
      BY <2>2, <2>3
  <1>4. CASE BackBegin
    <2>1. backing' \in BOOLEAN /\ pushed' \in BOOLEAN
      BY <1>4 DEF BackBegin
    <2> QED
      BY <1>0, <1>4, <2>1 DEF BackBegin, poseVars, PoseTyped
  <1>5. ASSUME NEW m \in {0, 1}, BackStep(m) PROVE PoseTyped'
    <2>1. backing' \in BOOLEAN
      BY <1>5 DEF BackStep
    <2>2. UNCHANGED <<start, from, backlog, pushed>>
      BY <1>5 DEF BackStep
    <2> QED
      BY <1>0, <1>5, <2>1, <2>2, TurnFacts DEF PoseTyped
  <1>6. CASE Drive
    <2>1. pos' = pos + 1 /\ pos' \in Int /\ UNCHANGED <<start, backing, from, backlog>>
      BY <1>0, <1>6 DEF Drive, PoseTyped
    <2>2. poses' = Enqueue(pos') \/ poses' = poses
      BY <1>6 DEF Drive
    <2>3. poses' \in Seq(Int) /\ Len(poses') <= QueueDepth
      <3>1. CASE poses' = Enqueue(pos')
        <4>1. /\ Enqueue(pos') \in Seq(Int)
              /\ Len(poses) < QueueDepth => Len(Enqueue(pos')) = Len(poses) + 1
              /\ Len(poses) = QueueDepth => Len(Enqueue(pos')) = Len(poses)
          BY <1>0, <2>1, EnqueueFacts
        <4>2. Len(poses) <= QueueDepth
          BY <1>0 DEF PoseTyped
        <4> QED
          BY <1>0, <3>1, <4>1, <4>2
      <3> QED
        BY <1>0, <2>2, <3>1 DEF PoseTyped
    <2> QED
      BY <1>0, <1>6, <2>1, <2>3 DEF Drive, PoseTyped
  <1>7. CASE CommanderRestart
    <2>1. PICK d \in Strays : current_pose' = pos + d
      BY <1>7 DEF CommanderRestart
    <2>2. current_pose' \in Int
      BY <1>0, <2>1 DEF PoseTyped
    <2>3. backing' \in BOOLEAN /\ pushed' \in BOOLEAN
      BY <1>7 DEF CommanderRestart
    <2>4. Len(<<>>) = 0 /\ <<>> \in Seq(Int)
      OBVIOUS
    <2> QED
      BY <1>0, <1>7, <2>2, <2>3, <2>4 DEF CommanderRestart, PoseTyped
  <1> QED
    BY <1>1, <1>2, <1>3, <1>4, <1>5, <1>6, <1>7 DEF Next, Commander

-----------------------------------------------------------------------------
(* The stages of each commander. *)
LEMMA StageKinds ==
    TourTyped => IF script = "demo_run" THEN Stage \notin {"find", "ride", "done"}
                                        ELSE Stage \in {"none", "find", "await", "ride", "done"}
  <1> SUFFICES ASSUME TourTyped
               PROVE  IF script = "demo_run" THEN Stage \notin {"find", "ride", "done"}
                                             ELSE Stage \in {"none", "find", "await", "ride", "done"}
    OBVIOUS
  <1>1. ASSUME todo \in DemoPlans PROVE StageOf(todo) \notin {"find", "ride", "done"}
    BY <1>1 DEF DemoPlans, StageOf
  <1>2. ASSUME todo \in OtherPlans
        PROVE  StageOf(todo) \in {"none", "find", "await", "ride", "done"}
    BY <1>2 DEF OtherPlans, StageOf
  <1> QED
    BY <1>1, <1>2 DEF TourTyped, Plans, Stage

(* Steps that move neither the tour, nor a request, nor the hardware. *)
LEMMA QuietLift ==
    ASSUME LiftInv, UNCHANGED <<script, todo, call, nav, posted, result, queue, led, lift, orphan>>,
           backing' => Stage = "back"
    PROVE  LiftInv'
  BY DEF LiftInv, Parked, Queued, Shown, Stage

(* Steps of Nav2: after a success none but those of the topic. *)
LEMMA NavLift == LiftInv /\ (NavEnds \/ TakePosted) => LiftInv'
  <1> SUFFICES ASSUME LiftInv, NavEnds \/ TakePosted PROVE LiftInv'
    OBVIOUS
  <1>1. UNCHANGED <<script, todo, call, queue, led, lift, orphan, backing>>
    BY DEF NavEnds, TopicEnds, ActionEnds, TakePosted, tourVars, serverVars, backVars, ghostVars
  <1>2. /\ result' = "SUCCEEDED" => nav' \in {"idle", "topic"}
        /\ result = "SUCCEEDED" => result' = "SUCCEEDED"
    BY DEF NavEnds, TopicEnds, ActionEnds, TakePosted, LiftInv, Parked
  <1> QED
    BY <1>1, <1>2 DEF LiftInv, Parked, Queued, Shown, Stage

(* Steps of the commander from a stage that calls nothing. *)
LEMMA MoveLift ==
    ASSUME LiftInv, UNCHANGED <<script, call, queue, led, lift, orphan>>,
           Stage \notin Calls, script = "demo_run" => Stage' # "await",
           result' = "SUCCEEDED" => nav' \in {"idle", "topic"},
           Stage' \in Arrived => result' = "SUCCEEDED",
           backing' => Stage' = "back"
    PROVE  LiftInv'
  <1>1. call = "none" /\ Stage # "boot" /\ ~(lift = "UP" /\ ~orphan)
    BY DEF LiftInv, Parked, Shown, Calls
  <1>2. Parked'
    BY <1>1 DEF Parked
  <1>3. Queued'
    BY <1>1 DEF LiftInv, Queued
  <1>4. Shown'
    BY <1>1 DEF Shown
  <1> QED
    BY <1>2, <1>3, <1>4 DEF LiftInv

LEMMA TourLift ==
    Typed /\ LiftInv /\ (Find \/ Settle \/ Send \/ Finish \/ Await) => LiftInv'
  <1> SUFFICES ASSUME Typed, LiftInv, Find \/ Settle \/ Send \/ Finish \/ Await PROVE LiftInv'
    OBVIOUS
  <1>0. TourTyped /\ Parked
    BY DEF Typed, LiftInv
  <1>1. CASE Find \/ Settle
    <2>1. /\ UNCHANGED <<script, call, queue, led, lift, orphan, nav, posted, result, backing>>
          /\ todo # <<>> /\ todo' = Tail(todo)
      BY <1>1 DEF Find, Settle, At, navVars, serverVars, backVars, ghostVars
    <2>2. Stage \in {"find", "settle"} /\ (Stage = "find" => Find)
      BY <1>1, AtStage DEF Find, Settle
    <2>3. <<Stage, Stage'>> \in Follows
      BY <1>0, <2>1, TailMoves
    <2>4. Stage' # "await" /\ (Stage' \in Arrived => Stage \in Arrived)
      BY <2>2, <2>3 DEF Follows, Arrived
    <2> QED
      BY <1>0, <2>1, <2>2, <2>4, MoveLift DEF Parked, Calls
  <1>2. CASE Send
    <2>1. UNCHANGED <<script, call, queue, led, lift, orphan, backing>> /\ result' = "none"
      BY <1>2 DEF Send, serverVars, backVars, ghostVars
    <2>2. Stage = "none" /\ Stage' = IF script = "demo_run" THEN "tell" ELSE "await"
      BY <1>0, <1>2, SendMoves
    <2> QED
      BY <1>0, <2>1, <2>2, MoveLift DEF Parked, Calls, Arrived
  <1>3. CASE Finish
    <2>1. UNCHANGED <<script, call, queue, led, lift, orphan, nav, posted, result, backing>>
      BY <1>3 DEF Finish, navVars, serverVars, backVars, ghostVars
    <2>2. Stage = "none" /\ Stage' = IF script = "demo_run" THEN "rest" ELSE "done"
      BY <1>0, <1>3, FinishMoves
    <2> QED
      BY <1>0, <2>1, <2>2, MoveLift DEF Parked, Calls, Arrived
  <1>4. CASE Await
    <2>1. UNCHANGED <<script, call, queue, led, lift, orphan, nav, posted, result, backing>>
      BY <1>4 DEF Await, navVars, serverVars, backVars, ghostVars
    <2>2. /\ Stage = "await"
          /\ \/ Stage' \in {"none", "fault"}
             \/ result = "SUCCEEDED" /\ Stage' \in {"settle", "ride"}
      BY <1>0, <1>4, AwaitMoves
    <2> QED
      BY <1>0, <2>1, <2>2, MoveLift DEF Parked, Calls, Arrived
  <1> QED
    BY <1>1, <1>2, <1>3, <1>4

LEMMA BackLift ==
    ASSUME Typed, LiftInv, NEW m, BackStep(m) PROVE LiftInv'
  <1>1. /\ UNCHANGED <<script, call, queue, led, lift, orphan, nav, posted, result>>
        /\ todo # <<>> /\ todo' = IF backing' THEN todo ELSE Tail(todo)
    BY DEF BackStep, At, navVars, serverVars, ghostVars
  <1>2. Stage = "back" /\ Parked /\ TourTyped
    BY AtStage DEF BackStep, Typed, LiftInv
  <1>3. CASE backing'
    <2>1. Stage' = Stage
      BY <1>1, <1>3 DEF Stage
    <2> QED
      BY <1>1, <1>2, <2>1, MoveLift DEF Parked, Calls
  <1>4. CASE ~backing'
    <2>1. <<Stage, Stage'>> \in Follows
      BY <1>1, <1>2, <1>4, TailMoves
    <2>2. Stage' \in {"leave", "none"}
      BY <1>2, <2>1 DEF Follows
    <2> QED
      BY <1>1, <1>2, <1>4, <2>2, MoveLift DEF Parked, Calls, Arrived
  <1> QED
    BY <1>3, <1>4

(* The answer to a call: the list goes on, and nothing is in the queue. *)
LEMMA AnsweredLift == Typed /\ LiftInv /\ Answered => LiftInv'
  <1> SUFFICES ASSUME Typed, LiftInv, Answered PROVE LiftInv'
    OBVIOUS
  <1>0. TourTyped /\ Parked /\ Queued /\ Shown
    BY DEF Typed, LiftInv
  <1>1. /\ UNCHANGED <<script, queue, led, lift, orphan, nav, posted, result, backing>>
        /\ call = "answered" /\ call' = "none" /\ todo' = Tail(todo)
    BY DEF Answered, navVars, serverVars, backVars, ghostVars
  <1>2. Stage \in Calls /\ Stage # "back" /\ todo # <<>>
    BY <1>0, <1>1 DEF Parked, Stage, StageOf, Calls
  <1>3. <<Stage, Stage'>> \in Follows
    BY <1>0, <1>1, <1>2, TailMoves
  <1>4. Parked'
    <2>1. Stage' \in Arrived => Stage \in Arrived
      BY <1>2, <1>3 DEF Follows, Arrived, Calls
    <2> QED
      BY <1>0, <1>1, <1>2, <2>1 DEF Parked
  <1>5. Queued'
    <2>1. queue = <<>> /\ Len(queue) = 0
      BY <1>0, <1>1 DEF Queued
    <2>2. script # "demo_run" => lift = "DOWN"
      BY <1>0 DEF Queued
    <2> QED
      BY <1>1, <2>1, <2>2 DEF Queued
  <1>6. Shown'
    <2>1. ASSUME script = "demo_run", Stage' = "await" PROVE led' = "BLUE"
      <3>1. Stage = "tell"
        BY <1>2, <1>3, <2>1 DEF Follows, Calls
      <3> QED
        BY <1>0, <1>1, <2>1, <3>1, RequestFacts DEF Shown, Calls
    <2>2. ASSUME lift = "UP", ~orphan PROVE led = "PURPLE" /\ Stage' = "down"
      <3>1. led = "PURPLE" /\ Stage = "up"
        BY <1>0, <1>1, <2>2 DEF Shown
      <3> QED
        BY <1>3, <3>1 DEF Follows
    <2> QED
      BY <1>1, <2>1, <2>2 DEF Shown
  <1> QED
    BY <1>4, <1>5, <1>6 DEF LiftInv

(* A call: the request goes behind those of a commander that died. *)
LEMMA CallLift == Typed /\ LiftInv /\ (\E s \in Calls : Call(s)) => LiftInv'
  <1> SUFFICES ASSUME Typed, LiftInv, NEW s \in Calls, Call(s) PROVE LiftInv'
    OBVIOUS
  <1>0. TourTyped /\ Parked /\ Queued /\ Shown /\ queue \in Seq(Requests)
    BY DEF Typed, LiftInv, WorldTyped
  <1>1. /\ UNCHANGED <<script, todo, led, lift, orphan, nav, posted, result, backing>>
        /\ call = "none" /\ call' = "flying"
        /\ queue' = Append(queue, Request(s)) \/ queue' = queue
    BY DEF Call, navVars, backVars, ghostVars
  <1>2. Stage = s /\ Stage' = Stage
    BY <1>1, AtStage DEF Call, Calls, Stage
  <1>3. script # "demo_run" => s = "ride"
    BY <1>0, <1>2, StageKinds DEF Calls
  <1>4. Request(s).mine /\ (Request(s).lift = "UP" <=> s = "up") /\ Request(s) \in Requests
    BY RequestFacts
  <1>5. /\ Len(queue) \in Nat
        /\ \A i \in 1..Len(queue) : ~queue[i].mine
    BY <1>0, <1>1, QueueFacts DEF Queued
  <1>6. Parked'
    BY <1>0, <1>1, <1>2 DEF Parked
  <1>7. Shown'
    BY <1>0, <1>1, <1>2 DEF Shown
  <1>8. Queued'
    <2>1. CASE queue' = queue
      BY <1>0, <1>1, <1>2, <1>5, <2>1 DEF Queued
    <2>2. CASE queue' = Append(queue, Request(s))
      <3>1. /\ Len(queue') = Len(queue) + 1 /\ queue'[Len(queue')] = Request(s)
            /\ \A i \in 1..Len(queue) : queue'[i] = queue[i]
        BY <1>0, <1>4, <2>2, AppendProperties
      <3>2. \A i \in 1..Len(queue') : i \in 1..Len(queue) \/ i = Len(queue')
        BY <1>5, <3>1
      <3>3. Request(s)' = Request(s)
        BY DEF Request, ColourOf, LiftOf
      <3>4. \A i \in 1..Len(queue') :
               queue'[i].mine => i = Len(queue') /\ call' = "flying" /\ queue'[i] = Request(s)
        BY <1>1, <1>5, <3>1, <3>2
      <3>5. script = "demo_run" /\ Stage # "boot" => \A i \in 1..Len(queue') : queue'[i].mine
        BY <1>0, <1>4, <3>1, <3>2 DEF Queued
      <3>6. ~orphan => \A i \in 1..Len(queue') : ~queue'[i].mine => queue'[i].lift # "UP"
        BY <1>0, <1>4, <3>1, <3>2 DEF Queued
      <3>7. script # "demo_run" => lift = "DOWN" /\ \A i \in 1..Len(queue') : queue'[i].lift # "UP"
        BY <1>0, <1>3, <1>4, <3>1, <3>2 DEF Queued
      <3> QED
        BY <1>1, <1>2, <3>4, <3>5, <3>6, <3>7 DEF Queued
    <2> QED
      BY <1>1, <2>1, <2>2
  <1> QED
    BY <1>6, <1>7, <1>8 DEF LiftInv

(* The server serves the oldest request: the one the commander waits for,  *)
(* then the only one, or one of a commander that died.                     *)
LEMMA ServeLift == Typed /\ LiftInv /\ Serve => LiftInv'
  <1> SUFFICES ASSUME Typed, LiftInv, Serve PROVE LiftInv'
    OBVIOUS
  <1> DEFINE r == Head(queue)
  <1>0. TourTyped /\ Parked /\ Queued /\ Shown /\ queue \in Seq(Requests)
    BY DEF Typed, LiftInv, WorldTyped
  <1>1. /\ UNCHANGED <<script, todo, nav, posted, result, backing>> /\ Stage' = Stage
        /\ queue # <<>> /\ queue' = Tail(queue)
        /\ call' = IF r.mine THEN "answered" ELSE call
        /\ orphan' = (orphan /\ ~(r.mine /\ r.lift = "DOWN"))
    BY DEF Serve, navVars, backVars, Stage
  <1>2. /\ led' = IF r.led = "none" THEN led ELSE r.led
        /\ lift' = IF r.lift \in {"UP", "DOWN"} THEN r.lift ELSE lift
    BY DEF Serve, Obey
  <1>3. /\ Len(queue) \in Nat /\ 1 \in 1..Len(queue) /\ r = queue[1] /\ r \in Requests
        /\ Tail(queue) \in Seq(Requests) /\ Len(Tail(queue)) = Len(queue) - 1
        /\ \A i \in 1..(Len(queue) - 1) : Tail(queue)[i] = queue[i + 1]
    BY <1>0, <1>1, QueueFacts
  <1>4. script # "demo_run" => lift = "DOWN" /\ r.lift # "UP"
    BY <1>0, <1>3 DEF Queued
  <1> HIDE DEF r
  <1>5. CASE r.mine
    <2>1. Len(queue) = 1 /\ call = "flying" /\ r = Request(Stage)
      BY <1>0, <1>3, <1>5 DEF Queued
    <2>2. Stage \in Calls /\ (script = "demo_run" => Stage # "ride")
      BY <1>0, <2>1, StageKinds DEF Parked
    <2>3. /\ r.lift = "UP" <=> Stage = "up"
          /\ r.lift = "DOWN" <=> Stage = "down"
          /\ Stage = "up" => r.led = "PURPLE"
          /\ Stage # "ride" => r.led # "none"
      BY <2>1, <2>2, RequestFacts DEF Colours
    <2>4. Parked'
      BY <1>0, <1>1, <2>2 DEF Parked
    <2>5. Queued'
      <3>1. queue' = <<>> /\ Len(queue') = 0
        BY <1>1, <1>3, <2>1, EmptySeq
      <3>2. script' # "demo_run" => lift' = "DOWN"
        BY <1>1, <1>2, <1>4
      <3>3. \A i \in 1..Len(queue') : FALSE
        BY <3>1
      <3> QED
        BY <3>1, <3>2, <3>3 DEF Queued
    <2>6. Shown'
      <3>1. call' = "answered"
        BY <1>1, <1>5
      <3>2. script = "demo_run" => led' = Request(Stage).led
        BY <1>2, <2>1, <2>2, <2>3
      <3>3. Request(Stage)' = Request(Stage)
        BY <1>1 DEF Request, ColourOf, LiftOf
      <3>4. Stage # "await"
        BY <2>2 DEF Calls
      <3>5. ASSUME lift' = "UP", ~orphan' PROVE led' = "PURPLE" /\ Stage = "up"
        <4>1. CASE r.lift = "UP"
          BY <1>2, <2>3, <4>1
        <4>2. CASE r.lift # "UP"
          <5>1. lift = "UP" /\ r.lift # "DOWN"
            BY <1>2, <3>5, <4>2
          <5>2. Stage = "down"
            BY <1>0, <1>1, <1>5, <2>1, <3>5, <5>1 DEF Shown
          <5> QED
            BY <2>3, <5>1, <5>2
        <4> QED
          BY <4>1, <4>2
      <3> QED
        BY <1>1, <3>1, <3>2, <3>3, <3>4, <3>5 DEF Shown
    <2> QED
      BY <2>4, <2>5, <2>6 DEF LiftInv
  <1>6. CASE ~r.mine
    <2>1. call' = call /\ call # "answered" /\ orphan' = orphan
      <3>1. call' = call /\ call # "answered"
        BY <1>0, <1>1, <1>6 DEF Queued
      <3>2. orphan \in BOOLEAN
        BY DEF Typed, WorldTyped
      <3>3. orphan' = orphan
        BY <1>1, <1>6, <3>2
      <3> QED
        BY <3>1, <3>3
    <2>2. script = "demo_run" => Stage = "boot"
      BY <1>0, <1>3, <1>6 DEF Queued
    <2>3. ~orphan => r.lift # "UP"
      BY <1>0, <1>3, <1>6 DEF Queued
    <2>4. Parked'
      BY <1>0, <1>1, <2>1 DEF Parked
    <2>5. Queued'
      <3>1. \A i \in 1..Len(queue') : i + 1 \in 1..Len(queue) /\ queue'[i] = queue[i + 1]
        BY <1>1, <1>3
      <3>2. Len(queue') = Len(queue) - 1 /\ Len(queue) \in Nat
        BY <1>1, <1>3
      <3>3. \A i \in 1..Len(queue') :
               queue'[i].mine => i = Len(queue') /\ call = "flying" /\ queue'[i] = Request(Stage)
        <4> SUFFICES ASSUME NEW i \in 1..Len(queue'), queue'[i].mine
                     PROVE  i = Len(queue') /\ call = "flying" /\ queue'[i] = Request(Stage)
          OBVIOUS
        <4>1. i + 1 = Len(queue) /\ call = "flying" /\ queue[i + 1] = Request(Stage)
          BY <1>0, <3>1 DEF Queued
        <4>2. i = Len(queue')
          BY <3>2, <4>1
        <4> QED
          BY <3>1, <4>1, <4>2
      <3>4. ~orphan => \A i \in 1..Len(queue') : ~queue'[i].mine => queue'[i].lift # "UP"
        BY <1>0, <3>1 DEF Queued
      <3>5. script # "demo_run" => lift' = "DOWN" /\ \A i \in 1..Len(queue') : queue'[i].lift # "UP"
        BY <1>0, <1>2, <1>4, <3>1 DEF Queued
      <3>6. Request(Stage)' = Request(Stage)
        BY <1>1 DEF Request, ColourOf, LiftOf
      <3> QED
        BY <1>1, <2>1, <2>2, <3>3, <3>4, <3>5, <3>6 DEF Queued
    <2>6. Shown'
      <3>1. ~(lift' = "UP" /\ ~orphan')
        <4> SUFFICES ASSUME lift' = "UP", ~orphan' PROVE FALSE
          OBVIOUS
        <4>1. lift = "UP"
          BY <1>2, <2>1, <2>3
        <4>2. Stage \in {"up", "down"} /\ script = "demo_run"
          BY <1>0, <1>4, <2>1, <4>1 DEF Shown
        <4> QED
          BY <2>2, <4>2
      <3> QED
        BY <1>1, <2>1, <2>2, <3>1 DEF Shown
    <2> QED
      BY <2>4, <2>5, <2>6 DEF LiftInv
  <1> QED
    BY <1>5, <1>6

(* The server ends: what it had not served is lost. Where the bus fails,   *)
(* the colour is set, which is purple while the lift is raised.            *)
LEMMA ServerEndsLift == Typed /\ LiftInv /\ (ServeFails \/ ServerCrash) => LiftInv'
  <1> SUFFICES ASSUME Typed, LiftInv, ServeFails \/ ServerCrash PROVE LiftInv'
    OBVIOUS
  <1>0. TourTyped /\ Parked /\ Queued /\ Shown /\ queue \in Seq(Requests)
    BY DEF Typed, LiftInv, WorldTyped
  <1>1. /\ UNCHANGED <<script, todo, call, lift, orphan, nav, posted, result, backing>>
        /\ Stage' = Stage /\ queue' = <<>>
    BY DEF ServeFails, ServerCrash, tourVars, navVars, backVars, Stage
  <1>2. Parked'
    BY <1>0, <1>1 DEF Parked
  <1>3. Queued'
    <2>1. Len(queue') = 0
      BY <1>1
    <2>2. script # "demo_run" => lift = "DOWN"
      BY <1>0 DEF Queued
    <2> QED
      BY <1>1, <2>1, <2>2 DEF Queued
  <1>4. Request(Stage)' = Request(Stage)
    BY <1>1 DEF Request, ColourOf, LiftOf
  <1>5. Shown'
    <2>1. CASE ServerCrash
      <3>1. led' = led
        BY <2>1 DEF ServerCrash
      <3> QED
        BY <1>0, <1>1, <1>4, <3>1 DEF Shown
    <2>2. CASE ServeFails
      <3> DEFINE r == Head(queue)
      <3>1. /\ queue # <<>> /\ led' = r.led
            /\ Len(queue) \in Nat /\ 1 \in 1..Len(queue) /\ r = queue[1]
        BY <1>0, <2>2, QueueFacts DEF ServeFails
      <3>2. call # "answered"
        BY <1>0, <3>1 DEF Queued
      <3>3. script = "demo_run" /\ Stage # "boot" => r = Request(Stage) /\ call = "flying"
        BY <1>0, <3>1 DEF Queued
      <3> HIDE DEF r
      <3>4. script = "demo_run" => Stage # "await"
        BY <1>0, <3>3 DEF Parked, Calls
      <3>5. ASSUME lift = "UP", ~orphan PROVE led' = "PURPLE" /\ Stage = "down"
        <4>1. Stage = "down" /\ script = "demo_run"
          BY <1>0, <3>2, <3>5 DEF Shown, Queued
        <4> QED
          BY <3>1, <3>3, <4>1, RequestFacts DEF Calls
      <3> QED
        BY <1>1, <3>2, <3>4, <3>5 DEF Shown
    <2> QED
      BY <2>1, <2>2
  <1> QED
    BY <1>2, <1>3, <1>5 DEF LiftInv

(* The commander dies: what it asked for is nobody's, and if that or the   *)
(* lift is UP it is an orphan.                                             *)
LEMMA RestartLift == Typed /\ LiftInv /\ CommanderRestart => LiftInv'
  <1> SUFFICES ASSUME Typed, LiftInv, CommanderRestart PROVE LiftInv'
    OBVIOUS
  <1>0. TourTyped /\ Queued /\ queue \in Seq(Requests) /\ lift \in {"UP", "DOWN"}
    BY DEF Typed, LiftInv, WorldTyped
  <1>1. /\ UNCHANGED <<script, lift>> /\ todo' = Boot(script)
        /\ call' = "none" /\ result' = "none" /\ ~backing'
        /\ orphan' = (orphan \/ lift = "UP" \/ \E i \in DOMAIN queue : queue[i].lift = "UP")
    BY DEF CommanderRestart
  <1>2. /\ Len(queue') = Len(queue) /\ DOMAIN queue = 1..Len(queue)
        /\ \A i \in 1..Len(queue) : ~queue'[i].mine /\ queue'[i].lift = queue[i].lift
    BY <1>0, DisownedQueue, QueueFacts DEF CommanderRestart
  <1>3. Stage' \in {"boot", "find", "none"} /\ (script = "demo_run" => Stage' = "boot")
    BY <1>0, <1>1, BootMoves DEF TourTyped, Stage
  <1>4. Parked'
    BY <1>1, <1>3 DEF Parked, Arrived
  <1>5. Queued'
    BY <1>0, <1>1, <1>2, <1>3 DEF Queued
  <1>6. Shown'
    BY <1>0, <1>1, <1>3 DEF Shown
  <1> QED
    BY <1>4, <1>5, <1>6 DEF LiftInv

(* Every step. *)
LEMMA LiftStep == Typed /\ LiftInv /\ [Next]_vars => LiftInv'
  <1> SUFFICES ASSUME Typed, LiftInv, [Next]_vars PROVE LiftInv'
    OBVIOUS
  <1>1. CASE Listen \/ BackBegin \/ ServerStart \/ Drive \/ UNCHANGED vars
    <2>1. UNCHANGED <<script, todo, call, nav, posted, result, queue, led, lift, orphan>>
      BY <1>1 DEF Listen, BackBegin, ServerStart, Drive, vars, tourVars, navVars, serverVars, ghostVars
    <2>2. backing' => Stage = "back"
      BY <1>1, AtStage DEF Listen, BackBegin, ServerStart, Drive, vars, backVars, LiftInv, Parked
    <2> QED
      BY <2>1, <2>2, QuietLift
  <1> QED
    BY <1>1, NavLift, TourLift, BackLift, AnsweredLift, CallLift, ServeLift, ServerEndsLift, RestartLift
    DEF Next, Commander

-----------------------------------------------------------------------------
(* One turn of the loop keeps the newest poses those of the way. *)
LEMMA TurnInv ==
    ASSUME PoseTyped, backing, ~pushed, BackInv, NEW m \in {0, 1}, BackStep(m)
    PROVE  /\ pos' = pos - m /\ UNCHANGED <<start, from, backlog>>
           /\ pos' <= from /\ Len(poses') \in Nat /\ Len(poses') <= backlog
           /\ \A i \in 1..Len(poses') :
                 Len(poses') - i < from - pos' => poses'[i] = pos' + (Len(poses') - i)
           /\ from - pos' > Len(poses') => current_pose' = pos' + Len(poses')
           /\ pos' = from /\ backlog = 0 => current_pose' = start
           /\ backing' = ~Far(current_pose', start)
           /\ todo' = IF backing' THEN todo ELSE Tail(todo)
  <1> DEFINE e == Seen(m) n == Len(poses) l == Len(e)
  <1>0. /\ pos \in Int /\ from \in Int /\ backlog \in Nat /\ n \in Nat
        /\ pos' = pos - m /\ pos' \in Int
        /\ pos <= from /\ n <= backlog
    BY LenProperties DEF PoseTyped, BackInv, BackStep
  <1>1. UNCHANGED <<start, from, backlog>> /\ backing' = ~Far(current_pose', start)
        /\ todo' = IF backing' THEN todo ELSE Tail(todo)
    BY DEF BackStep
  <1>2. /\ \A i \in 1..n : n - i < from - pos => poses[i] = pos + (n - i)
        /\ from - pos > n => current_pose = pos + n
        /\ pos = from /\ backlog = 0 => current_pose = start
    BY DEF BackInv
  <1>3. /\ e \in Seq(Int) /\ l \in Nat /\ l <= n + m
        /\ m = 1 => l >= 1 /\ e[l] = pos'
    BY <1>0, SeenFacts
  <1>4. PICK k \in {0, 1} : \A i \in 1..(l - m) :
           e[i] = poses[i + k] /\ i + k \in 1..n /\ n - (i + k) = l - m - i
    BY <1>0, SeenFacts
  <1>5. /\ e = <<>> => current_pose' = current_pose /\ poses' = <<>>
        /\ e # <<>> => current_pose' = e[1] /\ poses' = Tail(e)
    BY TurnFacts
  <1>6. m = 0 => e = poses
    BY DEF Seen
  <1> HIDE DEF e, n, l
  <1>7. \A j \in 1..l : l - j < from - pos' => e[j] = pos' + (l - j)
    <2> SUFFICES ASSUME NEW j \in 1..l, l - j < from - pos' PROVE e[j] = pos' + (l - j)
      OBVIOUS
    <2>1. CASE j \in 1..(l - m)
      <3>1. e[j] = poses[j + k] /\ j + k \in 1..n /\ n - (j + k) = l - m - j
        BY <1>4, <2>1
      <3>2. n - (j + k) < from - pos
        BY <1>0, <1>3, <3>1
      <3>3. poses[j + k] = pos + (n - (j + k))
        BY <1>2, <3>1, <3>2
      <3> QED
        BY <1>0, <1>3, <3>1, <3>3
    <2>2. CASE j \notin 1..(l - m)
      <3>1. m = 1 /\ j = l
        BY <1>3, <2>2
      <3> QED
        BY <1>0, <1>3, <3>1
    <2> QED
      BY <2>1, <2>2
  <1>8. CASE e = <<>>
    <2>1. l = 0 /\ m = 0 /\ n = 0 /\ Len(poses') = 0 /\ current_pose' = current_pose
      <3>1. l = 0
        BY <1>8 DEF l
      <3>2. m = 0
        BY <1>3, <3>1
      <3> QED
        BY <1>5, <1>6, <1>8, <3>1, <3>2 DEF n
    <2> QED
      BY <1>0, <1>1, <1>2, <2>1
  <1>9. CASE e # <<>>
    <2> DEFINE q == poses' c == current_pose'
    <2>1. /\ Len(q) = l - 1 /\ c = e[1] /\ l \in Nat \ {0}
          /\ \A i \in 1..(l - 1) : q[i] = e[i + 1]
      BY <1>3, <1>5, <1>9, OldestFacts DEF l
    <2> HIDE DEF q, c
    <2>2. \A i \in 1..Len(q) : Len(q) - i < from - pos' => q[i] = pos' + (Len(q) - i)
      <3> SUFFICES ASSUME NEW i \in 1..(l - 1), l - 1 - i < from - pos'
                   PROVE  q[i] = pos' + (l - 1 - i)
        BY <2>1
      <3>1. i + 1 \in 1..l /\ l - (i + 1) < from - pos'
        BY <1>0, <2>1
      <3>2. e[i + 1] = pos' + (l - (i + 1))
        BY <1>7, <3>1
      <3> QED
        BY <1>0, <2>1, <3>2
    <2>3. from - pos' > Len(q) => c = pos' + Len(q)
      <3>1. 1 \in 1..l
        BY <2>1
      <3>2. l - 1 < from - pos' => e[1] = pos' + (l - 1)
        BY <1>7, <3>1
      <3> QED
        BY <1>0, <2>1, <3>2
    <2>4. ~(pos' = from /\ backlog = 0)
      <3> SUFFICES ASSUME pos' = from, backlog = 0 PROVE FALSE
        OBVIOUS
      <3>1. m = 0 /\ n = 0
        BY <1>0
      <3>2. l = 0
        BY <1>6, <3>1 DEF n, l
      <3> QED
        BY <2>1, <3>2
    <2>5. pos' <= from /\ Len(q) \in Nat /\ Len(q) <= backlog
      BY <1>0, <1>3, <2>1
    <2> QED
      BY <1>0, <1>1, <2>2, <2>3, <2>4, <2>5 DEF q, c
  <1> QED
    BY <1>8, <1>9

LEMMA BackStays ==
    ASSUME BackInv, UNCHANGED backVars, backing => UNCHANGED poseVars
    PROVE  BackInv'
  BY DEF BackInv, Far, backVars, poseVars

LEMMA BackInvStep == Typed /\ LiftInv /\ BackInv /\ [Next]_vars => BackInv'
  <1> SUFFICES ASSUME Typed, LiftInv, BackInv, [Next]_vars PROVE BackInv'
    OBVIOUS
  <1>0. PoseTyped /\ (backing => Stage = "back") /\ Distance \in Nat \ {0}
    BY WaypointDemoAssumption DEF Typed, LiftInv, Parked
  <1>1. CASE Find \/ Answered \/ Finish \/ Await \/ (\E s \in Calls : Call(s))
             \/ Serve \/ ServeFails \/ ServerCrash \/ ServerStart \/ NavEnds \/ TakePosted
             \/ UNCHANGED vars
    <2>1. UNCHANGED <<poseVars, backVars>>
      BY <1>1 DEF Find, Answered, Finish, Await, Call, Serve, ServeFails, ServerCrash,
         ServerStart, NavEnds, TopicEnds, ActionEnds, TakePosted, vars
    <2> QED
      BY <2>1, BackStays
  <1>2. CASE Send \/ Settle \/ Listen
    <2>1. UNCHANGED backVars
      BY <1>2 DEF Send, Settle, Listen
    <2>2. ~backing
      <3>1. Send => Stage = "none"
        BY DEF Send, Stage, StageOf
      <3>2. Settle \/ Listen => Stage \in {"settle", "await"}
        BY AtStage DEF Settle, Listen
      <3> QED
        BY <1>0, <1>2, <3>1, <3>2
    <2> QED
      BY <2>1, <2>2, BackStays
  <1>3. CASE BackBegin
    <2>1. /\ start' = current_pose /\ from' = pos /\ backlog' = Len(poses)
          /\ pos' = pos /\ poses' = poses /\ current_pose' = current_pose
      BY <1>3 DEF BackBegin, poseVars
    <2>2. pos \in Int /\ current_pose \in Int /\ Len(poses) \in Nat
      BY <1>0, LenProperties DEF PoseTyped
    <2>3. ~Far(current_pose', start')
      BY <1>0, <2>1, <2>2 DEF Far
    <2>4. \A i \in 1..Len(poses') : ~(Len(poses') - i < from' - pos')
      BY <2>1, <2>2
    <2>5. pos' <= from' /\ Len(poses') <= backlog' /\ ~(from' - pos' > Len(poses'))
      BY <2>1, <2>2
    <2> QED
      BY <2>1, <2>3, <2>4, <2>5 DEF BackInv, Far
  <1>4. ASSUME NEW m \in {0, 1}, BackStep(m) PROVE BackInv'
    <2>1. backing /\ pushed' = pushed
      BY <1>4 DEF BackStep
    <2>2. CASE pushed
      BY <2>1, <2>2 DEF BackInv
    <2>3. CASE ~pushed
      BY <1>0, <1>4, <2>1, <2>3, TurnInv DEF BackInv, Far
    <2> QED
      BY <2>2, <2>3
  <1>5. CASE CommanderRestart
    BY <1>5 DEF CommanderRestart, BackInv
  <1>6. CASE Drive
    BY <1>6 DEF Drive, BackInv
  <1> QED
    BY <1>1, <1>2, <1>3, <1>4, <1>5, <1>6 DEF Next, Commander

-----------------------------------------------------------------------------
(* The inductive invariant. *)
IInv == Typed /\ LiftInv /\ BackInv

LEMMA InitIInv == Init => IInv
  <1> SUFFICES ASSUME Init PROVE IInv
    OBVIOUS
  <1>1. /\ script \in Scripts /\ todo = Boot(script) /\ wp = 1 /\ call = "none"
        /\ nav = "idle" /\ result = "none" /\ queue = <<>> /\ led = "none" /\ lift = "DOWN"
        /\ pos = 0 /\ poses = <<>> /\ current_pose \in Strays /\ start = 0 /\ from = 0
        /\ backlog = 0 /\ crashes = 0 /\ ~backing
    BY DEF Init
  <1>2. /\ server \in BOOLEAN /\ backing \in BOOLEAN
        /\ orphan \in BOOLEAN /\ pushed \in BOOLEAN
    BY DEF Init
  <1>11. posted \in 0..GoalDepth
    BY WaypointDemoAssumption DEF Init
  <1>3. /\ Len(Route) \in Nat /\ MaxCrashes \in Nat /\ QueueDepth \in Nat
        /\ current_pose \in Int
    BY <1>1, WaypointDemoAssumption, LenProperties
  <1>4. /\ todo \in Plans /\ Stage \in {"boot", "find", "none"}
        /\ script = "demo_run" => Stage = "boot"
    BY <1>1, BootMoves DEF Plans, Stage
  <1>5. /\ <<>> \in Seq(Requests) /\ <<>> \in Seq(Int) /\ Len(<<>>) = 0
    OBVIOUS
  <1>6. TourTyped
    BY <1>1, <1>3, <1>4 DEF TourTyped
  <1>7. WorldTyped
    BY <1>1, <1>2, <1>3, <1>5, <1>11 DEF WorldTyped
  <1>8. PoseTyped
    BY <1>1, <1>2, <1>3, <1>5 DEF PoseTyped
  <1>9. LiftInv
    <2>1. Parked
      BY <1>1, <1>4 DEF Parked, Arrived
    <2>2. Queued
      BY <1>1, <1>5 DEF Queued
    <2>3. Shown
      BY <1>1, <1>4 DEF Shown
    <2> QED
      BY <2>1, <2>2, <2>3 DEF LiftInv
  <1>10. BackInv
    BY <1>1 DEF BackInv
  <1> QED
    BY <1>6, <1>7, <1>8, <1>9, <1>10 DEF IInv, Typed

LEMMA NextIInv == IInv /\ [Next]_vars => IInv'
  BY TourStep, WorldStep, PoseStep, LiftStep, BackInvStep DEF IInv, Typed

LEMMA Invariance == Spec => []IInv
  BY InitIInv, NextIInv, PTL DEF Spec

-----------------------------------------------------------------------------
LEMMA PlansTyped ==
    \A t \in DemoPlans \cup OtherPlans :
        t \in Seq(Calls \cup {"find", "await", "settle", "back", "done"})
  <1> DEFINE S == Calls \cup {"find", "await", "settle", "back", "done"}
  <1>1. /\ "boot" \in S /\ "tell" \in S /\ "up" \in S /\ "down" \in S /\ "leave" \in S
        /\ "fault" \in S /\ "rest" \in S /\ "ride" \in S
        /\ "find" \in S /\ "await" \in S /\ "settle" \in S /\ "back" \in S /\ "done" \in S
    BY DEF Calls
  <1> HIDE DEF S
  <1>2. /\ <<>> \in Seq(S) /\ \A a \in S : <<a>> \in Seq(S)
        /\ \A a, b \in S : <<a, b>> \in Seq(S)
        /\ \A a, b, c \in S : <<a, b, c>> \in Seq(S)
        /\ \A a, b, c, d \in S : <<a, b, c, d>> \in Seq(S)
        /\ \A a, b, c, d, e \in S : <<a, b, c, d, e>> \in Seq(S)
    OBVIOUS
  <1>3. \A t \in DemoPlans : t \in Seq(S)
    <2>1. /\ <<"boot">> \in Seq(S)
          /\ <<"await">> \in Seq(S)
          /\ <<"fault">> \in Seq(S)
          /\ <<"rest">> \in Seq(S)
          /\ <<"leave">> \in Seq(S)
          /\ <<"back">> \in Seq(S)
          /\ <<"settle">> \in Seq(S)
      BY <1>1, <1>2
    <2>2. /\ <<"tell", "await">> \in Seq(S)
          /\ <<"back", "leave">> \in Seq(S)
          /\ <<"down", "leave">> \in Seq(S)
          /\ <<"settle", "back">> \in Seq(S)
      BY <1>1, <1>2
    <2>3. /\ <<"down", "back", "leave">> \in Seq(S)
          /\ <<"up", "down", "leave">> \in Seq(S)
      BY <1>1, <1>2
    <2>4. /\ <<"up", "down", "back", "leave">> \in Seq(S)
          /\ <<"settle", "up", "down", "leave">> \in Seq(S)
      BY <1>1, <1>2
    <2>5. <<"settle", "up", "down", "back", "leave">> \in Seq(S)
      BY <1>1, <1>2
    <2> QED
      BY <1>2, <2>1, <2>2, <2>3, <2>4, <2>5 DEF DemoPlans
  <1>4. \A t \in OtherPlans : t \in Seq(S)
    BY <1>1, <1>2 DEF OtherPlans
  <1> QED
    BY <1>3, <1>4 DEF S

(* Every variable stays in its type: the subscription never holds more     *)
(* than its depth, and no stage is reached that a commander does not have. *)
THEOREM WaypointTypes == Spec => []TypeOK
  <1>1. IInv => TypeOK
    <2> SUFFICES ASSUME IInv PROVE TypeOK
      OBVIOUS
    <2>1. TourTyped /\ WorldTyped /\ PoseTyped
      BY DEF IInv, Typed
    <2>2. todo \in Seq(Calls \cup {"find", "await", "settle", "back", "done"})
      BY <2>1, PlansTyped DEF TourTyped, Plans
    <2> QED
      BY <2>1, <2>2 DEF TypeOK, TourTyped, WorldTyped, PoseTyped
  <1> QED
    BY <1>1, Invariance, PTL

(* On every route and with any number of crashes of the commander and of   *)
(* the server, the vehicle moves backwards and to the goals of the action  *)
(* only with the lift lowered, but for a lift a dead commander left        *)
(* raised; with the lift up it drives to nothing but a goal of the topic   *)
(* taken after the success; and the colours are those of what the robot    *)
(* does (demo_run.py:116-186, lift_node.py:34-68).                         *)
THEOREM LiftAndLightsAlwaysAgree == Spec => []LiftAndLightsAgree
  <1>1. IInv => LiftAndLightsAgree
    <2> SUFFICES ASSUME IInv PROVE LiftAndLightsAgree
      OBVIOUS
    <2>1. Parked /\ Shown
      BY DEF IInv, LiftInv
    <2>2. LiftDownWhileDriving
      <3> SUFFICES ASSUME lift = "UP", ~orphan 
                   PROVE ~backing /\ (nav = "idle" \/ (nav = "topic" /\ result = "SUCCEEDED"))
        BY DEF LiftDownWhileDriving
      <3>1. Stage \in {"up", "down"}
        BY <2>1 DEF Shown
      <3> QED
        BY <2>1, <3>1 DEF Parked, Arrived
    <2>3. LightsTell
      BY <2>1, AtStage DEF LightsTell, Shown
    <2> QED
      BY <2>2, <2>3 DEF LiftAndLightsAgree
  <1> QED
    BY <1>1, Invariance, PTL

(* The last turn of the loop: how far behind its beginning it is. *)
LEMMA TurnEnds ==
    ASSUME PoseTyped, backing, ~pushed, BackInv, NEW m \in {0, 1}, BackStep(m), ~backing'
    PROVE  IF backlog = 0 /\ start = from THEN from - pos' = Distance
                                          ELSE from - pos' <= Distance + backlog + Off
  <1> DEFINE n == Len(poses) nn == Len(poses') cc == current_pose'
  <1>0. /\ pos \in Int /\ from \in Int /\ start \in Int /\ current_pose \in Int
        /\ backlog \in Nat /\ n \in Nat /\ Distance \in Nat \ {0} /\ cc \in Int
        /\ pos <= from /\ n <= backlog
    BY WaypointDemoAssumption, LenProperties, TurnFacts DEF PoseTyped, BackInv
  <1>1. /\ ~(current_pose - start >= Distance \/ start - current_pose >= Distance)
        /\ from - pos > n => current_pose = pos + n
    BY DEF BackInv, Far
  <1>2. /\ pos' = pos - m /\ pos' <= from /\ nn \in Nat /\ nn <= backlog
        /\ from - pos' > nn => cc = pos' + nn
        /\ pos' = from /\ backlog = 0 => cc = start
        /\ cc - start >= Distance \/ start - cc >= Distance
    <2>1. Far(cc, start)
      BY TurnInv
    <2> QED
      BY <2>1, TurnInv DEF Far
  <1>3. Off = IF from > start THEN from - start ELSE start - from
    BY DEF Off
  <1> HIDE DEF n, nn, cc
  <1>4. Off \in Nat /\ from - start <= Off /\ (start = from => Off = 0)
    BY <1>0, <1>3
  <1>5. from - pos' <= Distance + backlog + Off
    <2>1. CASE from - pos > n
      BY <1>0, <1>1, <1>2, <1>4, <2>1
    <2>2. CASE ~(from - pos > n)
      BY <1>0, <1>2, <1>4, <2>2
    <2> QED
      BY <2>1, <2>2
  <1>6. ASSUME backlog = 0, start = from PROVE from - pos' = Distance
    <2>1. nn = 0 /\ pos' \in Int
      BY <1>0, <1>2, <1>6
    <2>2. pos' # from
      BY <1>0, <1>2, <1>6
    <2>3. cc = pos'
      BY <1>0, <1>2, <2>1, <2>2
    <2>4. from - pos' >= Distance
      BY <1>0, <1>2, <1>6, <2>1, <2>3
    <2>5. from - pos' <= Distance
      <3>1. Off = 0 /\ backlog = 0
        BY <1>4, <1>6
      <3> QED
        BY <1>0, <1>5, <3>1
    <2> DEFINE w == from - pos'
    <2>6. w \in Int /\ Distance \in Int
      BY <1>0, <2>1
    <2> HIDE DEF w
    <2>7. w >= Distance /\ w <= Distance => w = Distance
      BY <2>6
    <2> QED
      BY <2>4, <2>5, <2>7 DEF w
  <1> QED
    BY <1>5, <1>6

(* Only a turn of the loop takes the stage from a commander that moves     *)
(* backwards.                                                              *)
LEMMA BackEnds ==
    ASSUME Typed, LiftInv, [Next]_vars, At("back"), backing, todo' = Tail(todo)
    PROVE  \E m \in {0, 1} : BackStep(m) /\ ~backing'
  <1>0. TourTyped /\ Stage = "back" /\ todo # <<>> /\ Parked
    BY AtStage DEF Typed, LiftInv, At
  <1>1. script = "demo_run" /\ call = "none"
    BY <1>0, StageKinds DEF Parked, Calls, TourTyped
  <1>2. StageOf(todo') \in {"leave", "none"}
    <2>1. <<StageOf(todo), StageOf(Tail(todo))>> \in Follows
      BY <1>0, TailFacts DEF TourTyped, Plans
    <2>2. StageOf(todo) = "back"
      BY <1>0 DEF Stage
    <2> QED
      BY <2>1, <2>2 DEF Follows
  <1>3. ~(Aside \/ UNCHANGED vars)
    BY <1>0, <1>2, AsideMoves DEF Stage
  <1>4. ~(Find \/ Settle \/ Send \/ Finish \/ Await \/ Answered)
    BY <1>0, <1>1, AtStage DEF Find, Settle, Send, Finish, Await, Answered
  <1>5. ~CommanderRestart
    <2>1. ASSUME CommanderRestart PROVE StageOf(todo') = "boot"
      BY <1>1, <2>1, BootMoves DEF CommanderRestart, Scripts
    <2> QED
      BY <1>2, <2>1
  <1>6. \E m \in {0, 1} : BackStep(m)
    BY <1>3, <1>4, <1>5 DEF Next, Commander, Aside
  <1>7. ASSUME NEW m, BackStep(m) PROVE ~backing'
    <2>1. ASSUME backing' PROVE todo' = todo
      BY <1>7, <2>1 DEF BackStep
    <2> QED
      BY <1>0, <1>2, <2>1 DEF Stage
  <1> QED
    BY <1>6, <1>7

(* For every distance and every depth of the subscription, the loop of     *)
(* backward moves ends Distance behind its beginning when the pose known   *)
(* was the vehicle's, and otherwise no further beyond than the poses that  *)
(* waited and what the pose known was off, unless Nav2 drove the vehicle   *)
(* meanwhile to a late goal of the topic (demo_run.py:102-114, 149-150).   *)
THEOREM WayBackBounded == Spec => BackIsBounded
  <1> DEFINE Bounded == At("back") /\ backing /\ ~pushed /\ todo' = Tail(todo) =>
                           IF backlog = 0 /\ start = from THEN from - pos' = Distance
                                                 ELSE from - pos' <= Distance + backlog + Off
  <1>1. IInv /\ [Next]_vars => Bounded
    <2> SUFFICES ASSUME IInv, [Next]_vars, At("back"), backing, ~pushed, todo' = Tail(todo)
                 PROVE  IF backlog = 0 /\ start = from THEN from - pos' = Distance
                                              ELSE from - pos' <= Distance + backlog + Off
      OBVIOUS
    <2>1. PICK m \in {0, 1} : BackStep(m) /\ ~backing'
      BY BackEnds DEF IInv
    <2> QED
      BY <2>1, TurnEnds DEF IInv, Typed
  <1> QED
    BY <1>1, Invariance, PTL DEF Spec, BackIsBounded

=============================================================================
