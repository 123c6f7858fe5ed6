---------------------- MODULE ExtrinsicCalibrationProofs ----------------------
(***************************************************************************)
(* Theorems of ExtrinsicCalibration, for all places of the cameras and the *)
(* boards, every turn, noise, set of levels and drift.                     *)
(***************************************************************************)
EXTENDS ExtrinsicCalibration, SequenceTheorems, TLAPS

Positions == Int \X Int

(* Positions are added and subtracted component by component. *)
LEMMA PositionFacts ==
    \A a, b \in Positions : Plus(a, b) \in Positions /\ Minus(a, b) \in Positions
  BY DEF Positions, Plus, Minus

(* The mean of two positions is a position. *)
LEMMA MeanIsPosition ==
    ASSUME NEW s \in Positions
    PROVE  <<s[1] \div 2, s[2] \div 2>> \in Positions
  BY DEF Positions

(* The yaws the cameras are mounted at, and an angle brought back into a   *)
(* turn, are integers.                                                     *)
LEMMA YawFacts ==
    /\ CAM_YAWS \in [Cams -> Int]
    /\ \A x \in Int : Wrap(x) \in Int
  <1>1. Turn \in Nat \ {0} /\ Turn \div 2 \in Int /\ Turn \div 4 \in Int
    BY ExtrinsicCalibrationAssumption
  <1>2. \A x \in Int : x % Turn \in Int
    BY <1>1
  <1>3. \A x \in Int : Wrap(x) \in Int
    BY <1>1, <1>2 DEF Wrap
  <1> QED
    BY <1>1, <1>3 DEF CAM_YAWS, Cams

(* A vector that is turned and tilted is one again. *)
LEMMA TurnedFacts ==
    ASSUME NEW ref \in Cams, NEW error \in 0..(Turn - 1), NEW level \in Levels \cup {None}, NEW v \in Positions
    PROVE  Turned(ref, error, level, v) \in Positions
  <1> DEFINE along == Dot(v, Ahead[ref])
             lost == along - (along * Short[level]) \div Unit
             w == <<v[1] - lost * Ahead[ref][1], v[2] - lost * Ahead[ref][2]>>
  <1>1. /\ Unit \in Nat \ {0} /\ Turn \in Nat \ {0} /\ Short[level] \in Int
        /\ Cos \in [0..(Turn - 1) -> Int] /\ Sin \in [0..(Turn - 1) -> Int]
    BY ExtrinsicCalibrationAssumption
  <1>2. \A x, y \in Int : x * y \in Int /\ x + y \in Int /\ x - y \in Int /\ x \div Unit \in Int
    BY <1>1
  <1>3. Ahead[ref][1] \in Int /\ Ahead[ref][2] \in Int /\ v[1] \in Int /\ v[2] \in Int
    BY DEF Ahead, Cams, Positions
  <1>4. along \in Int
    BY <1>2, <1>3 DEF Dot
  <1> HIDE DEF along
  <1>5. lost \in Int
    BY <1>1, <1>2, <1>4
  <1> HIDE DEF lost
  <1>6. w[1] \in Int /\ w[2] \in Int
    BY <1>2, <1>3, <1>5
  <1>7. Cos[error] \in Int /\ Sin[error] \in Int
    BY <1>1
  <1> HIDE DEF w
  <1>8. /\ (Cos[error] * w[1] - Sin[error] * w[2]) \div Unit \in Int
        /\ (Sin[error] * w[1] + Cos[error] * w[2]) \div Unit \in Int
    BY <1>2, <1>6, <1>7
  <1>9. Turned(ref, error, level, v) =
            <<(Cos[error] * w[1] - Sin[error] * w[2]) \div Unit,
              (Sin[error] * w[1] + Cos[error] * w[2]) \div Unit>>
    BY DEF Turned, along, lost, w
  <1> QED
    BY <1>8, <1>9 DEF Positions

(* The error of a yaw is less than a turn. *)
LEMMA YawErrors ==
    ASSUME TypeOK, NEW ref \in Cams
    PROVE  YawError(ref) \in 0..(Turn - 1)
  <1>1. cam_yaws[ref] \in Int /\ CAM_YAWS[ref] \in Int /\ Turn \in Nat \ {0}
    BY YawFacts, ExtrinsicCalibrationAssumption DEF TypeOK
  <1>2. \A x \in Int : x % Turn \in 0..(Turn - 1)
    BY <1>1
  <1>3. cam_yaws[ref] - CAM_YAWS[ref] \in Int
    BY <1>1
  <1> QED
    BY <1>2, <1>3 DEF YawError

(* What is detected by two cameras has the types of what it is used for. *)
LEMMA DetectionFacts ==
    ASSUME NEW ref \in Cams, NEW target \in Cams, NEW refHalf, NEW targetHalf,
           NEW d \in Detections(ref, target, refHalf, targetHalf)
    PROVE  /\ \A c \in {ref, target} : d.level[c] \in Levels \cup {None}
           /\ d.noise \in Int
           /\ Measured(d) => BoardAt[d.ref] \in Positions /\ BoardAt[d.target] \in Positions
  <1>1. /\ d.level \in [{ref, target} -> Levels \cup {None}]
        /\ d.ref \in Visible(ref, refHalf) \cup {None}
        /\ d.target \in Visible(target, targetHalf) \cup {None}
        /\ d.noise \in Noise
    BY DEF Detections
  <1>2. \A c \in Cams : \A half : Visible(c, half) \subseteq Boards
    BY DEF Visible, Cams, Boards
  <1>3. Measured(d) => d.ref \in Boards /\ d.target \in Boards
    BY <1>1, <1>2 DEF Measured
  <1> QED
    BY <1>1, <1>3, ExtrinsicCalibrationAssumption DEF Positions

(* A measured pose is a position and an integer. *)
LEMMA PoseFacts ==
    ASSUME TypeOK, NEW ref \in Cams, NEW target \in Cams, NEW refHalf, NEW targetHalf,
           NEW d \in Detections(ref, target, refHalf, targetHalf), Measured(d)
    PROVE  /\ RelativePose(ref, target, d).offset \in Positions
           /\ RelativePose(ref, target, d).yaw \in Int
  <1>1. /\ Place[ref] \in Positions /\ Place[target] \in Positions
        /\ cam_offsets[ref] \in Positions /\ cam_yaws[ref] \in Int
    BY ExtrinsicCalibrationAssumption DEF TypeOK, Positions
  <1>2. BoardAt[d.ref] \in Positions /\ BoardAt[d.target] \in Positions /\ d.noise \in Int
    BY DetectionFacts
  <1>3. RelativePose(ref, target, d).offset \in Positions
    <2>1. Minus(Place[target], BoardAt[d.target]) \in Positions
      BY <1>1, <1>2, PositionFacts
    <2>2. Minus(Place[ref], BoardAt[d.ref]) \in Positions
      BY <1>1, <1>2, PositionFacts
    <2>3. Apart(ref, target, d) \in Positions
      BY <2>1, <2>2, PositionFacts DEF Apart
    <2>4. Levelled(ref, target, d)[ref] \in Levels \cup {None}
      BY DetectionFacts DEF Levelled, TypeOK
    <2>5. Turned(ref, YawError(ref), Levelled(ref, target, d)[ref], Apart(ref, target, d)) \in Positions
      BY <2>3, <2>4, TurnedFacts, YawErrors
    <2> QED
      BY <1>1, <2>5, PositionFacts DEF RelativePose
  <1>4. RelativePose(ref, target, d).yaw \in Int
    <2>1. CAM_YAWS[target] - CAM_YAWS[ref] \in Int
      BY YawFacts
    <2>2. Wrap(CAM_YAWS[target] - CAM_YAWS[ref]) \in Int
      BY <2>1, YawFacts
    <2> QED
      BY <1>1, <1>2, <2>2 DEF RelativePose
  <1> QED
    BY <1>3, <1>4

(* The invariant of the proof: types, and every homography made from the   *)
(* parameters of the moment.                                               *)
Current(c) ==
    bev_Hs[c] = IF cam_levels[c] = None THEN NoHomography
                ELSE [level |-> cam_levels[c], offset |-> cam_offsets[c], yaw |-> cam_yaws[c]]

(* The four arrays of camera parameters. *)
CameraTypes ==
    /\ cam_levels \in [Cams -> Levels \cup {None}]
    /\ cam_offsets \in [Cams -> Int \X Int]
    /\ cam_yaws \in [Cams -> Int]
    /\ bev_Hs \in [Cams -> Homographies]

(* A homography made from parameters of the right types is one. *)
LEMMA HomographyFacts ==
    ASSUME NEW c \in Cams, bev_Hs \in [Cams -> Homographies],
           NEW level \in [Cams -> Levels \cup {None}],
           NEW offset \in [Cams -> Positions], NEW yaw \in [Cams -> Int]
    PROVE  Homography(c, level, offset, yaw) \in Homographies
  BY DEF Homography, Homographies, Positions

(* A pair that is calibrated, measured or not, keeps both. *)
LEMMA PairStep ==
    ASSUME TypeOK, NEW ref \in Cams, NEW target \in Cams, NEW refHalf, NEW targetHalf,
           NEW d \in Detections(ref, target, refHalf, targetHalf),
           CalibratePair(ref, target, d)
    PROVE  /\ CameraTypes'
           /\ BevIsCurrent => BevIsCurrent'
  <1> DEFINE pose == RelativePose(ref, target, d)
  <1>1. cam_levels' \in [Cams -> Levels \cup {None}]
    BY DetectionFacts DEF CalibratePair, Levelled, TypeOK
  <1>2. cam_offsets' \in [Cams -> Positions] /\ cam_yaws' \in [Cams -> Int]
    <2>1. CASE Measured(d)
      <3>1. pose.offset \in Positions /\ pose.yaw \in Int
        BY <2>1, PoseFacts
      <3>2. cam_offsets' = [cam_offsets EXCEPT ![target] = pose.offset]
            /\ cam_yaws' = [cam_yaws EXCEPT ![target] = pose.yaw]
        BY <2>1 DEF CalibratePair
      <3> HIDE DEF pose
      <3> QED
        BY <3>1, <3>2 DEF TypeOK, Positions
    <2>2. CASE ~Measured(d)
      BY <2>2 DEF CalibratePair, TypeOK, Positions
    <2> QED
      BY <2>1, <2>2
  <1>3. bev_Hs' = [c \in Cams |-> IF c \in {ref, target}
                                  THEN Homography(c, cam_levels', cam_offsets', cam_yaws')
                                  ELSE bev_Hs[c]]
    BY DEF CalibratePair
  <1>4. bev_Hs' \in [Cams -> Homographies]
    <2>1. \A c \in Cams : Homography(c, cam_levels', cam_offsets', cam_yaws') \in Homographies
      BY <1>1, <1>2, HomographyFacts DEF TypeOK
    <2> QED
      BY <1>3, <2>1 DEF TypeOK
  <1>5. ASSUME BevIsCurrent, NEW c \in Cams PROVE Current(c)'
    <2>1. Current(c)
      BY <1>5 DEF BevIsCurrent, Current
    <2>2. CASE c \in {ref, target}
      <3>1. bev_Hs'[c] = Homography(c, cam_levels', cam_offsets', cam_yaws')
        BY <1>3, <2>2
      <3>2. cam_levels'[c] = None => cam_levels[c] = None
        BY <2>2 DEF CalibratePair, Levelled
      <3> QED
        BY <2>1, <3>1, <3>2 DEF Current, Homography
    <2>3. CASE c \notin {ref, target}
      <3>1. bev_Hs'[c] = bev_Hs[c]
        BY <1>3, <2>3
      <3>2. cam_levels'[c] = cam_levels[c]
        BY <2>3 DEF CalibratePair, Levelled
      <3>3. cam_offsets'[c] = cam_offsets[c] /\ cam_yaws'[c] = cam_yaws[c]
        BY <2>3 DEF CalibratePair, TypeOK
      <3> QED
        BY <2>1, <3>1, <3>2, <3>3 DEF Current
    <2> QED
      BY <2>2, <2>3
  <1>6. CameraTypes'
    BY <1>1, <1>2, <1>4 DEF CameraTypes, Positions
  <1> QED
    BY <1>5, <1>6 DEF BevIsCurrent, Current

(* So does the average of the two fronts. *)
LEMMA AverageStep ==
    ASSUME TypeOK, Average
    PROVE  /\ CameraTypes'
           /\ BevIsCurrent => BevIsCurrent'
  <1> DEFINE sum == Plus(via_left[1], cam_offsets["front"])
             mean == <<sum[1] \div 2, sum[2] \div 2>>
             yaw == (via_left[2] + cam_yaws["front"]) \div 2
  <1>1. mean \in Positions /\ yaw \in Int
    <2>1. via_left[1] \in Positions /\ via_left[2] \in Int
          /\ cam_offsets["front"] \in Positions /\ cam_yaws["front"] \in Int
      BY DEF TypeOK, Positions, Cams
    <2>2. sum \in Positions
      BY <2>1, PositionFacts
    <2>3. mean \in Positions
      BY <2>2, MeanIsPosition
    <2> QED
      BY <2>1, <2>3
  <1>2. /\ cam_offsets' = [cam_offsets EXCEPT !["front"] = mean]
        /\ cam_yaws' = [cam_yaws EXCEPT !["front"] = yaw]
        /\ bev_Hs' = [bev_Hs EXCEPT !["front"] = Homography("front", cam_levels, cam_offsets', cam_yaws')]
        /\ cam_levels' = cam_levels
    BY DEF Average
  <1> HIDE DEF mean, yaw
  <1>3. cam_offsets' \in [Cams -> Positions] /\ cam_yaws' \in [Cams -> Int]
    BY <1>1, <1>2 DEF TypeOK, Positions
  <1>4. Homography("front", cam_levels, cam_offsets', cam_yaws') \in Homographies
    BY <1>3, HomographyFacts DEF TypeOK, Cams
  <1>5. CameraTypes'
    BY <1>2, <1>3, <1>4 DEF CameraTypes, TypeOK, Positions
  <1>6. ASSUME BevIsCurrent, NEW c \in Cams PROVE Current(c)'
    <2>1. Current(c)
      BY <1>6 DEF BevIsCurrent, Current
    <2> QED
      BY <1>2, <2>1 DEF Current, Homography, TypeOK
  <1> QED
    BY <1>5, <1>6 DEF BevIsCurrent, Current

(* The note of the procedure is a sequence of keys. *)
LEMMA NoteTypes ==
    ASSUME TypeOK, NEW key \in {"SPACE", "C", "other"}, NEW complete, Note(key, complete)
    PROVE  procedure' \in Seq({"SPACE", "C", "other"})
  <1>1. Append(procedure, key) \in Seq({"SPACE", "C", "other"})
    BY DEF TypeOK
  <1>2. <<"other", "other">> \in Seq({"SPACE", "C", "other"})
    OBVIOUS
  <1>3. procedure' = Append(procedure, key) \/ procedure' = <<"other", "other">>
    BY DEF Note
  <1> QED
    BY <1>1, <1>2, <1>3

(* The counters stop where main() stops counting: without this the types   *)
(* of the two counters are not inductive.                                  *)
Counted ==
    /\ pc = "open" => opened < Len(CAMS_TO_CALIBRATE)
    /\ pc # "done" => stopped < Len(CAMS_TO_CALIBRATE)

(* Every step keeps the types, and the homographies current. *)
LEMMA CalibrationStep ==
    ASSUME TypeOK, Counted, [Next]_vars
    PROVE  TypeOK' /\ Counted' /\ (BevIsCurrent => BevIsCurrent')
  <1> USE DEF Counted
  <1>1. CASE OpenCamera
    BY <1>1 DEF OpenCamera, TypeOK, camVars, BevIsCurrent, CAMS_TO_CALIBRATE
  <1>2. CASE OpenFails
    BY <1>2 DEF OpenFails, TypeOK, camVars, threadVars, BevIsCurrent
  <1>3. CASE ReadFrame
    <2>1. Running \subseteq Cams
      <3>1. Len(CAMS_TO_CALIBRATE) = 4 /\ \A i \in 1..4 : CAMS_TO_CALIBRATE[i] \in Cams
        BY DEF CAMS_TO_CALIBRATE, Cams
      <3>2. opened \in 0..4 /\ stopped \in 0..4
        BY <3>1 DEF TypeOK
      <3>3. \A i \in (stopped + 1)..opened : i \in 1..4
        BY <3>2
      <3> QED
        BY <3>1, <3>3 DEF Running
    <2> QED
      BY <1>3, <2>1 DEF ReadFrame, TypeOK, camVars, BevIsCurrent
  <1>4. CASE CopyFrames
    BY <1>4 DEF CopyFrames, TypeOK, camVars, threadVars, BevIsCurrent
  <1>5. CASE KeySpace
    <2>1. PICK d \in Detections("rear", "left", "right", None) :
             /\ CalibratePair("rear", "left", d)
             /\ measured' = Measured(d)
             /\ placed' = IF Measured(d) THEN placed \cup {"left"} ELSE placed
      BY <1>5 DEF KeySpace
    <2>2. CameraTypes' /\ (BevIsCurrent => BevIsCurrent')
      BY <2>1, PairStep DEF Cams
    <2>3. keys' \in 0..MaxKeys
      BY <1>5, ExtrinsicCalibrationAssumption DEF KeySpace, TypeOK
    <2>4. placed' \subseteq Cams
      BY <2>1 DEF TypeOK, Cams
    <2> QED
      BY <1>5, <2>1, <2>2, <2>3, <2>4 DEF KeySpace, TypeOK, CameraTypes, threadVars, Measured
  <1>6. CASE RearRight
    <2>1. PICK d \in Detections("rear", "right", "left", None) :
             /\ CalibratePair("rear", "right", d)
             /\ placed' = IF Measured(d) THEN placed \cup {"right"} ELSE placed
             /\ Note("SPACE", measured /\ Measured(d))
      BY <1>6 DEF RearRight
    <2>2. CameraTypes' /\ (BevIsCurrent => BevIsCurrent') /\ placed' \subseteq Cams
      BY <2>1, PairStep DEF Cams, TypeOK
    <2>3. procedure' \in Seq({"SPACE", "C", "other"})
      BY <2>1, NoteTypes
    <2> QED
      BY <1>6, <2>2, <2>3 DEF RearRight, TypeOK, CameraTypes, threadVars
  <1>7. CASE KeyC
    <2>1. PICK d \in Detections("left", "front", None, "left") :
             /\ CalibratePair("left", "front", d)
             /\ measured' = Measured(d)
             /\ placed' \in {placed, placed \cup {"front"}, placed \ {"front"}}
      BY <1>7 DEF KeyC
    <2>2. CameraTypes' /\ (BevIsCurrent => BevIsCurrent') /\ placed' \subseteq Cams
      BY <2>1, PairStep DEF Cams, TypeOK
    <2>3. via_left' \in (Int \X Int) \X Int
      BY <1>7, <2>2 DEF KeyC, CameraTypes, Cams
    <2>4. keys' \in 0..MaxKeys
      BY <1>7, ExtrinsicCalibrationAssumption DEF KeyC, TypeOK
    <2> QED
      BY <1>7, <2>1, <2>2, <2>3, <2>4 DEF KeyC, TypeOK, CameraTypes, threadVars, Measured
  <1>8. CASE RightFront
    <2>1. PICK d \in Detections("right", "front", None, "right") :
             /\ CalibratePair("right", "front", d)
             /\ placed' \in {placed, placed \ {"front"}}
             /\ Note("C", measured /\ Measured(d))
      BY <1>8 DEF RightFront
    <2>2. CameraTypes' /\ (BevIsCurrent => BevIsCurrent') /\ placed' \subseteq Cams
      BY <2>1, PairStep DEF Cams, TypeOK
    <2>3. procedure' \in Seq({"SPACE", "C", "other"})
      BY <2>1, NoteTypes
    <2> QED
      BY <1>8, <2>2, <2>3 DEF RightFront, TypeOK, CameraTypes, threadVars
  <1>9. CASE Average
    BY <1>9, AverageStep DEF Average, TypeOK, CameraTypes, threadVars
  <1>10. CASE KeyOther
    BY <1>10 DEF KeyOther, TypeOK, camVars, threadVars, BevIsCurrent
  <1>11. CASE KeyQ
    BY <1>11 DEF KeyQ, TypeOK, camVars, threadVars, BevIsCurrent
  <1>12. CASE StopThread
    BY <1>12 DEF StopThread, TypeOK, camVars, BevIsCurrent, CAMS_TO_CALIBRATE
  <1>13. CASE UNCHANGED vars
    BY <1>13 DEF vars, TypeOK, camVars, threadVars, BevIsCurrent
  <1> QED
    BY <1>1, <1>2, <1>3, <1>4, <1>5, <1>6, <1>7, <1>8, <1>9, <1>10, <1>11, <1>12, <1>13 DEF Next

(* The program starts with no level, and no homography. *)
LEMMA CalibrationInit == Init => TypeOK /\ Counted /\ BevIsCurrent
  <1> SUFFICES ASSUME Init PROVE TypeOK /\ Counted /\ BevIsCurrent
    OBVIOUS
  <1>1. NoHomography \in Homographies
    BY DEF NoHomography, Homographies
  <1>2. cam_yaws \in [Cams -> Int]
    BY YawFacts DEF Init
  <1>3. Len(CAMS_TO_CALIBRATE) = 4
    BY DEF CAMS_TO_CALIBRATE
  <1>4. bev_Hs \in [Cams -> Homographies] /\ cam_levels \in [Cams -> Levels \cup {None}]
        /\ cam_offsets \in [Cams -> Int \X Int] /\ BevIsCurrent
    BY <1>1 DEF Init, BevIsCurrent
  <1>5. via_left \in (Int \X Int) \X Int /\ procedure \in Seq({"SPACE", "C", "other"})
    BY DEF Init
  <1>6. TypeOK
    <2>1. opened \in 0..4 /\ stopped \in 0..4 /\ frames \subseteq Cams /\ measured \in BOOLEAN
          /\ keys \in 0..MaxKeys /\ placed \subseteq Cams
          /\ pc \in {"open", "loop", "prompt", "right", "front", "average", "stop", "done", "aborted"}
      <3>1. opened = 0 /\ stopped = 0 /\ frames = {} /\ pc = "open"
        BY DEF Init
      <3>2. opened \in 0..4 /\ stopped \in 0..4
        BY <3>1
      <3>3. measured \in BOOLEAN
        BY DEF Init
      <3>4. keys \in 0..MaxKeys /\ placed \subseteq Cams
        BY ExtrinsicCalibrationAssumption DEF Init, Cams
      <3> QED
        BY <3>1, <3>2, <3>3, <3>4
    <2> QED
      BY <1>2, <1>3, <1>4, <1>5, <2>1 DEF TypeOK
  <1>7. Counted
    BY <1>3 DEF Init, Counted
  <1> QED
    BY <1>4, <1>6, <1>7

(* Type correctness, for every world the cameras may stand in. *)
THEOREM CalibrationTypes == Spec => []TypeOK
  <1>1. Init => TypeOK /\ Counted
    BY CalibrationInit
  <1>2. (TypeOK /\ Counted) /\ [Next]_vars => (TypeOK /\ Counted)'
    BY CalibrationStep
  <1> QED
    BY <1>1, <1>2, PTL DEF Spec

(* The bird's-eye view the operator judges the calibration by is always    *)
(* that of the parameters the program would report.                        *)
THEOREM BevAlwaysCurrent == Spec => []BevIsCurrent
  <1>1. Init => TypeOK /\ Counted /\ BevIsCurrent
    BY CalibrationInit
  <1>2. (TypeOK /\ Counted /\ BevIsCurrent) /\ [Next]_vars
          => (TypeOK /\ Counted /\ BevIsCurrent)'
    BY CalibrationStep
  <1> QED
    BY <1>1, <1>2, PTL DEF Spec

-----------------------------------------------------------------------------
(* Remainders, as far as they are needed: at most a turn away. *)
LEMMA Remainders ==
    ASSUME NEW r \in Int, 0 <= r, r < Turn
    PROVE  (Turn + r) % Turn = r /\ r % Turn = r /\ (r - Turn) % Turn = r
  <1>1. Turn \in Int /\ Turn > 0
    BY ExtrinsicCalibrationAssumption
  <1>2. r % Turn = r
    BY <1>1, SMTT(60)
  <1>3. (Turn + r) % Turn = r
    BY <1>1, SMTT(60)
  <1>4. (r - Turn) % Turn = r
    BY <1>1, SMTT(60)
  <1> QED
    BY <1>2, <1>3, <1>4

(* Halves and quarters of a turn are whole. *)
LEMMA Quarters ==
    \E k \in Nat \ {0} : Turn = 4 * k /\ Turn \div 2 = 2 * k /\ Turn \div 4 = k
  <1> DEFINE k == Turn \div 4
  <1>1. Turn = 4 * k /\ k \in Nat \ {0}
    BY ExtrinsicCalibrationAssumption
  <1>2. Turn \div 2 = 2 * k
    BY <1>1
  <1> QED
    BY <1>1, <1>2

(* The differences of the mounting yaws, brought back into a turn. *)
LEMMA WrapFacts ==
    /\ Wrap(0) = 0 /\ Wrap(Turn) = 0
    /\ Wrap(CAM_YAWS["left"] - CAM_YAWS["rear"]) = -(Turn \div 4)
    /\ Wrap(CAM_YAWS["right"] - CAM_YAWS["rear"]) = Turn \div 4
    /\ Wrap(CAM_YAWS["front"] - CAM_YAWS["left"]) = -(Turn \div 4)
    /\ Wrap(CAM_YAWS["front"] - CAM_YAWS["right"]) = Turn \div 4
  <1>1. PICK k \in Nat \ {0} : Turn = 4 * k /\ Turn \div 2 = 2 * k /\ Turn \div 4 = k
    BY Quarters
  <1>2. (0 + 2 * k) % Turn = 2 * k /\ (Turn + 2 * k) % Turn = 2 * k
    BY <1>1, Remainders
  <1>3. (- k + 2 * k) % Turn = k
    BY <1>1, Remainders
  <1>4. (- k - 2 * k + 2 * k) % Turn = 3 * k
    <2>1. (3 * k - Turn) % Turn = 3 * k
      BY <1>1, Remainders
    <2> QED
      BY <1>1, <2>1
  <1>5. (k + 2 * k) % Turn = 3 * k
    BY <1>1, Remainders
  <1>6. /\ CAM_YAWS["front"] = 0 /\ CAM_YAWS["rear"] = 2 * k
        /\ CAM_YAWS["left"] = k /\ CAM_YAWS["right"] = - k
    BY <1>1 DEF CAM_YAWS, Cams
  <1> QED
    BY <1>1, <1>2, <1>3, <1>4, <1>5, <1>6 DEF Wrap

(* An angle within twice the noise, to either side. *)
Within(x) == \E m, n \in Noise : 2 * m <= x /\ x <= 2 * n

(* The noises add up to such an angle, and the mean of two is one. *)
LEMMA WithinFacts ==
    /\ \A m, n \in Noise : Within(m + n)
    /\ \A x, y \in Int : Within(x) /\ Within(y) => Within((x + y) \div 2)
  <1>1. \A m, n \in Noise : Within(m + n)
    BY ExtrinsicCalibrationAssumption DEF Within
  <1>2. ASSUME NEW x \in Int, NEW y \in Int, Within(x), Within(y)
        PROVE  Within((x + y) \div 2)
    <2>1. PICK a, b \in Noise : 2 * a <= x /\ x <= 2 * b
      BY <1>2 DEF Within
    <2>2. PICK c, d \in Noise : 2 * c <= y /\ y <= 2 * d
      BY <1>2 DEF Within
    <2>3. a \in Int /\ b \in Int /\ c \in Int /\ d \in Int
      BY ExtrinsicCalibrationAssumption
    <2>4. PICK lo \in {a, c} : lo <= a /\ lo <= c
      BY <2>3
    <2>5. PICK hi \in {b, d} : b <= hi /\ d <= hi
      BY <2>3
    <2>6. 2 * lo <= (x + y) \div 2 /\ (x + y) \div 2 <= 2 * hi
      <3>1. lo \in Int /\ hi \in Int
        BY <2>3
      <3>2. 4 * lo <= x + y /\ x + y <= 4 * hi
        BY <2>1, <2>2, <2>3, <2>4, <2>5, <3>1
      <3> QED
        BY <3>1, <3>2
    <2> QED
      BY <2>4, <2>5, <2>6 DEF Within
  <1> QED
    BY <1>1, <1>2

(* What the yaws are exactly. The right camera is where it is mounted, or  *)
(* a turn further with the noise of a pair; in the first case the front    *)
(* camera, and what the left pair has left for it, are within the noise of *)
(* two pairs.                                                              *)
Facing ==
    /\ cam_yaws["rear"] = CAM_YAWS["rear"]
    /\ \E n \in Noise : cam_yaws["left"] = CAM_YAWS["left"] + n
    /\ \/ cam_yaws["right"] = CAM_YAWS["right"]
       \/ \E n \in Noise : cam_yaws["right"] = CAM_YAWS["right"] + Turn + n
    /\ cam_yaws["right"] = CAM_YAWS["right"] =>
          /\ Within(cam_yaws["front"])
          /\ pc \in {"front", "average"} => Within(via_left[2])

(* From which follows what the property says. *)
LEMMA FacingImplies == TypeOK /\ Facing => FacingKept
  <1> SUFFICES ASSUME TypeOK, Facing PROVE FacingKept
    OBVIOUS
  <1>1. /\ \A c \in Cams : cam_yaws[c] \in Int /\ CAM_YAWS[c] \in Int
        /\ Turn \in Int /\ Noise \subseteq Int /\ 0 \in Noise
    BY YawFacts, ExtrinsicCalibrationAssumption DEF TypeOK
  <1>2. \E n \in Noise : Wrap(cam_yaws["rear"] - CAM_YAWS["rear"] - n) = 0
    <2>1. cam_yaws["rear"] - CAM_YAWS["rear"] - 0 = 0
      BY <1>1 DEF Facing, Cams
    <2> QED
      BY <1>1, <2>1, WrapFacts
  <1>3. \E n \in Noise : Wrap(cam_yaws["left"] - CAM_YAWS["left"] - n) = 0
    <2>1. PICK n \in Noise : cam_yaws["left"] = CAM_YAWS["left"] + n
      BY DEF Facing
    <2>2. cam_yaws["left"] - CAM_YAWS["left"] - n = 0
      BY <1>1, <2>1 DEF Cams
    <2> QED
      BY <2>2, WrapFacts
  <1>4. \E n \in Noise : Wrap(cam_yaws["right"] - CAM_YAWS["right"] - n) = 0
    <2>1. CASE cam_yaws["right"] = CAM_YAWS["right"]
      <3>1. cam_yaws["right"] - CAM_YAWS["right"] - 0 = 0
        BY <1>1, <2>1 DEF Cams
      <3> QED
        BY <1>1, <3>1, WrapFacts
    <2>2. CASE \E n \in Noise : cam_yaws["right"] = CAM_YAWS["right"] + Turn + n
      <3>1. PICK n \in Noise : cam_yaws["right"] = CAM_YAWS["right"] + Turn + n
        BY <2>2
      <3>2. cam_yaws["right"] - CAM_YAWS["right"] - n = Turn
        BY <1>1, <3>1 DEF Cams
      <3> QED
        BY <3>2, WrapFacts
    <2> QED
      BY <2>1, <2>2 DEF Facing
  <1> QED
    BY <1>2, <1>3, <1>4 DEF Facing, FacingKept, Within

(* The yaws after a pair. *)
LEMMA PairYaws ==
    ASSUME TypeOK, NEW ref \in Cams, NEW target \in Cams, NEW refHalf, NEW targetHalf,
           NEW d \in Detections(ref, target, refHalf, targetHalf),
           CalibratePair(ref, target, d)
    PROVE  /\ \A c \in Cams \ {target} : cam_yaws'[c] = cam_yaws[c]
           /\ \/ cam_yaws'[target] = cam_yaws[target]
              \/ \E n \in Noise : cam_yaws'[target] =
                    cam_yaws[ref] + Wrap(CAM_YAWS[target] - CAM_YAWS[ref]) + n
  <1>1. d.noise \in Noise
    BY DEF Detections
  <1>2. \/ cam_yaws' = cam_yaws
        \/ cam_yaws' = [cam_yaws EXCEPT ![target] = RelativePose(ref, target, d).yaw]
    BY DEF CalibratePair
  <1>3. RelativePose(ref, target, d).yaw =
            cam_yaws[ref] + Wrap(CAM_YAWS[target] - CAM_YAWS[ref]) + d.noise
    BY DEF RelativePose
  <1> QED
    BY <1>1, <1>2, <1>3 DEF TypeOK

(* The four pairs, and the mean. *)
LEMMA FacingStep ==
    ASSUME TypeOK, Facing, [Next]_vars
    PROVE  Facing'
  <1>1. PICK k \in Nat \ {0} : Turn = 4 * k /\ Turn \div 2 = 2 * k /\ Turn \div 4 = k
    BY Quarters
  <1>2. /\ CAM_YAWS["front"] = 0 /\ CAM_YAWS["rear"] = 2 * k
        /\ CAM_YAWS["left"] = k /\ CAM_YAWS["right"] = - k
    BY <1>1 DEF CAM_YAWS, Cams
  <1>3. \A n \in Noise : n \in Int /\ - k < n /\ n < k
    BY <1>1, ExtrinsicCalibrationAssumption
  <1>4. 0 \in Noise
    BY ExtrinsicCalibrationAssumption
  <1>5. CASE KeySpace
    <2>1. PICK d \in Detections("rear", "left", "right", None) :
             CalibratePair("rear", "left", d)
      BY <1>5 DEF KeySpace
    <2>2. /\ cam_yaws'["rear"] = cam_yaws["rear"] /\ cam_yaws'["right"] = cam_yaws["right"]
          /\ cam_yaws'["front"] = cam_yaws["front"]
          /\ \/ cam_yaws'["left"] = cam_yaws["left"]
             \/ \E n \in Noise : cam_yaws'["left"] = cam_yaws["rear"] - k + n
      BY <1>1, <2>1, PairYaws, WrapFacts DEF Cams
    <2>3. \E n \in Noise : cam_yaws'["left"] = CAM_YAWS["left"] + n
      BY <1>2, <1>3, <2>2 DEF Facing
    <2> QED
      BY <1>5, <2>2, <2>3 DEF Facing, KeySpace
  <1>6. CASE RearRight
    <2>1. PICK d \in Detections("rear", "right", "left", None) :
             CalibratePair("rear", "right", d)
      BY <1>6 DEF RearRight
    <2>2. /\ cam_yaws'["rear"] = cam_yaws["rear"] /\ cam_yaws'["left"] = cam_yaws["left"]
          /\ cam_yaws'["front"] = cam_yaws["front"]
          /\ \/ cam_yaws'["right"] = cam_yaws["right"]
             \/ \E n \in Noise : cam_yaws'["right"] = cam_yaws["rear"] + k + n
      BY <1>1, <2>1, PairYaws, WrapFacts DEF Cams
    <2>3. CASE cam_yaws'["right"] = cam_yaws["right"]
      BY <1>6, <2>2, <2>3 DEF Facing, RearRight
    <2>4. CASE \E n \in Noise : cam_yaws'["right"] = cam_yaws["rear"] + k + n
      <3>1. PICK n \in Noise : cam_yaws'["right"] = cam_yaws["rear"] + k + n
        BY <2>4
      <3>2. cam_yaws'["right"] = CAM_YAWS["right"] + Turn + n
            /\ cam_yaws'["right"] # CAM_YAWS["right"]
        BY <1>1, <1>2, <1>3, <3>1 DEF Facing
      <3> QED
        BY <1>6, <2>2, <3>2 DEF Facing
    <2> QED
      BY <2>2, <2>3, <2>4
  <1>7. CASE KeyC
    <2>1. PICK d \in Detections("left", "front", None, "left") :
             CalibratePair("left", "front", d)
      BY <1>7 DEF KeyC
    <2>2. /\ cam_yaws'["rear"] = cam_yaws["rear"] /\ cam_yaws'["left"] = cam_yaws["left"]
          /\ cam_yaws'["right"] = cam_yaws["right"]
          /\ \/ cam_yaws'["front"] = cam_yaws["front"]
             \/ \E n \in Noise : cam_yaws'["front"] = cam_yaws["left"] - k + n
      BY <1>1, <2>1, PairYaws, WrapFacts DEF Cams
    <2>3. via_left'[2] = cam_yaws'["front"]
      BY <1>7 DEF KeyC
    <2>4. ASSUME cam_yaws["right"] = CAM_YAWS["right"]
          PROVE  Within(cam_yaws'["front"])
      <3>1. CASE cam_yaws'["front"] = cam_yaws["front"]
        BY <2>4, <3>1 DEF Facing
      <3>2. CASE \E n \in Noise : cam_yaws'["front"] = cam_yaws["left"] - k + n
        <4>1. PICK m, n \in Noise : cam_yaws["left"] = k + m
                                    /\ cam_yaws'["front"] = cam_yaws["left"] - k + n
          BY <1>2, <3>2 DEF Facing
        <4>2. cam_yaws'["front"] = m + n
          BY <1>3, <4>1
        <4> QED
          BY <4>2, WithinFacts
      <3> QED
        BY <2>2, <3>1, <3>2
    <2> QED
      BY <1>7, <2>2, <2>3, <2>4 DEF Facing
  <1>8. CASE RightFront
    <2>1. PICK d \in Detections("right", "front", None, "right") :
             CalibratePair("right", "front", d)
      BY <1>8 DEF RightFront
    <2>2. /\ cam_yaws'["rear"] = cam_yaws["rear"] /\ cam_yaws'["left"] = cam_yaws["left"]
          /\ cam_yaws'["right"] = cam_yaws["right"]
          /\ \/ cam_yaws'["front"] = cam_yaws["front"]
             \/ \E n \in Noise : cam_yaws'["front"] = cam_yaws["right"] + k + n
      BY <1>1, <2>1, PairYaws, WrapFacts DEF Cams
    <2>3. ASSUME cam_yaws["right"] = CAM_YAWS["right"]
          PROVE  Within(cam_yaws'["front"])
      <3>1. CASE cam_yaws'["front"] = cam_yaws["front"]
        BY <2>3, <3>1 DEF Facing
      <3>2. CASE \E n \in Noise : cam_yaws'["front"] = cam_yaws["right"] + k + n
        <4>1. PICK n \in Noise : cam_yaws'["front"] = - k + k + n
          BY <1>2, <2>3, <3>2
        <4>2. cam_yaws'["front"] = 0 + n
          BY <1>3, <4>1
        <4> QED
          BY <1>4, <4>2, WithinFacts
      <3> QED
        BY <2>2, <3>1, <3>2
    <2> QED
      BY <1>8, <2>2, <2>3 DEF Facing, RightFront
  <1>9. CASE Average
    <2>1. /\ cam_yaws'["rear"] = cam_yaws["rear"] /\ cam_yaws'["left"] = cam_yaws["left"]
          /\ cam_yaws'["right"] = cam_yaws["right"]
          /\ cam_yaws'["front"] = (via_left[2] + cam_yaws["front"]) \div 2
      BY <1>9 DEF Average, TypeOK, Cams
    <2>2. via_left[2] \in Int /\ cam_yaws["front"] \in Int
      BY DEF TypeOK, Cams
    <2>3. cam_yaws["right"] = CAM_YAWS["right"] => Within(cam_yaws'["front"])
      BY <1>9, <2>1, <2>2, WithinFacts DEF Facing, Average
    <2> QED
      BY <1>9, <2>1, <2>3 DEF Facing, Average
  <1>10. CASE OpenCamera \/ OpenFails \/ ReadFrame \/ CopyFrames \/ KeyOther \/ KeyQ \/ StopThread
    BY <1>10 DEF OpenCamera, OpenFails, ReadFrame, CopyFrames, KeyOther, KeyQ, StopThread,
                 camVars, threadVars, Facing
  <1>11. CASE UNCHANGED vars
    BY <1>11 DEF vars, camVars, Facing
  <1> QED
    BY <1>5, <1>6, <1>7, <1>8, <1>9, <1>10, <1>11 DEF Next

(* The cameras start at the yaws they are mounted at. *)
LEMMA FacingInit == Init => Facing
  <1>1. 0 \in Noise /\ Within(0)
    BY ExtrinsicCalibrationAssumption DEF Within
  <1>2. CAM_YAWS["left"] = CAM_YAWS["left"] + 0 /\ CAM_YAWS["front"] = 0
    BY YawFacts DEF CAM_YAWS, Cams
  <1> QED
    BY <1>1, <1>2 DEF Init, Facing

(* Measured yaws stay the cameras' own, whatever is pressed and seen, and  *)
(* however large the noise is below a quarter of a turn.                   *)
THEOREM FacingAlwaysKept == Spec => []FacingKept
  <1>1. Init => TypeOK /\ Counted /\ Facing
    BY CalibrationInit, FacingInit
  <1>2. (TypeOK /\ Counted /\ Facing) /\ [Next]_vars => (TypeOK /\ Counted /\ Facing)'
    BY CalibrationStep, FacingStep
  <1>3. TypeOK /\ Facing => FacingKept
    BY FacingImplies
  <1> QED
    BY <1>1, <1>2, <1>3, PTL DEF Spec

-----------------------------------------------------------------------------
(* What a half of a picture shows: the pairs see one board, the same. *)
LEMMA HalfFacts ==
    /\ Visible("rear", "right") = {"L"} /\ Visible("left", None) = {"L"}
    /\ Visible("rear", "left") = {"R"} /\ Visible("right", None) = {"R"}
    /\ Visible("front", "left") = {"L"} /\ Visible("front", "right") = {"R"}
  BY DEF Visible, None

(* Distances add up. *)
LEMMA NearFacts ==
    /\ \A a \in Positions : \A e \in Nat : Near(a, a, e)
    /\ \A a, b, t, u \in Positions : \A e, f \in Nat :
          Near(a, b, e) /\ Near(t, Minus(u, b), f) => Near(Plus(a, t), u, e + f)
    /\ \A a, b, u \in Positions : \A e \in Nat :
          Near(a, u, e) /\ Near(b, u, e) =>
              Near(<<Plus(a, b)[1] \div 2, Plus(a, b)[2] \div 2>>, u, e)
  <1>1. \A a, b : \A e \in Nat : Near(a, b, e) <=>
            b[1] - e <= a[1] /\ a[1] <= b[1] + e /\ b[2] - e <= a[2] /\ a[2] <= b[2] + e
    BY DEF Near
  <1>2. \A a \in Positions : \A e \in Nat : Near(a, a, e)
    BY <1>1 DEF Positions
  <1>3. ASSUME NEW a \in Positions, NEW b \in Positions, NEW t \in Positions, NEW u \in Positions,
               NEW e \in Nat, NEW f \in Nat,
               Near(a, b, e), Near(t, Minus(u, b), f)
        PROVE  Near(Plus(a, t), u, e + f)
    <2>1. /\ b[1] - e <= a[1] /\ a[1] <= b[1] + e /\ b[2] - e <= a[2] /\ a[2] <= b[2] + e
          /\ (u[1] - b[1]) - f <= t[1] /\ t[1] <= (u[1] - b[1]) + f
          /\ (u[2] - b[2]) - f <= t[2] /\ t[2] <= (u[2] - b[2]) + f
      BY <1>1, <1>3 DEF Minus
    <2>2. \A p \in Positions : p[1] \in Int /\ p[2] \in Int
      BY DEF Positions
    <2>3. /\ u[1] - (e + f) <= a[1] + t[1] /\ a[1] + t[1] <= u[1] + (e + f)
          /\ u[2] - (e + f) <= a[2] + t[2] /\ a[2] + t[2] <= u[2] + (e + f)
      BY <2>1, <2>2
    <2>4. Plus(a, t)[1] = a[1] + t[1] /\ Plus(a, t)[2] = a[2] + t[2] /\ e + f \in Nat
      BY DEF Plus
    <2> QED
      BY <1>1, <2>3, <2>4
  <1>4. ASSUME NEW a \in Positions, NEW b \in Positions, NEW u \in Positions, NEW e \in Nat,
               Near(a, u, e), Near(b, u, e)
        PROVE  Near(<<Plus(a, b)[1] \div 2, Plus(a, b)[2] \div 2>>, u, e)
    <2>1. /\ u[1] - e <= a[1] /\ a[1] <= u[1] + e /\ u[2] - e <= a[2] /\ a[2] <= u[2] + e
          /\ u[1] - e <= b[1] /\ b[1] <= u[1] + e /\ u[2] - e <= b[2] /\ b[2] <= u[2] + e
      BY <1>1, <1>4
    <2>2. \A x, y, z, w \in Int : z <= x /\ x <= w /\ z <= y /\ y <= w =>
              z <= (x + y) \div 2 /\ (x + y) \div 2 <= w
      OBVIOUS
    <2>3. /\ a[1] \in Int /\ a[2] \in Int /\ b[1] \in Int /\ b[2] \in Int
          /\ u[1] - e \in Int /\ u[1] + e \in Int /\ u[2] - e \in Int /\ u[2] + e \in Int
      BY DEF Positions
    <2>4. /\ u[1] - e <= (a[1] + b[1]) \div 2 /\ (a[1] + b[1]) \div 2 <= u[1] + e
          /\ u[2] - e <= (a[2] + b[2]) \div 2 /\ (a[2] + b[2]) \div 2 <= u[2] + e
      BY <2>1, <2>2, <2>3
    <2> QED
      BY <1>1, <2>4 DEF Plus
  <1> QED
    BY <1>2, <1>3, <1>4

(* The cameras that are references have the yaw they are mounted at, up to *)
(* noise, for the program.                                                 *)
LEMMA ReferenceYaws ==
    ASSUME TypeOK, Facing, NEW ref \in {"rear", "left", "right"}
    PROVE  \E n \in Noise : YawError(ref) = n % Turn
  <1>1. /\ cam_yaws[ref] \in Int /\ CAM_YAWS[ref] \in Int
        /\ Turn \in Nat \ {0} /\ Noise \subseteq Int /\ 0 \in Noise
    BY YawFacts, ExtrinsicCalibrationAssumption DEF TypeOK, Cams
  <1>2. \E n \in Noise : \/ cam_yaws[ref] = CAM_YAWS[ref] + n
                         \/ cam_yaws[ref] = CAM_YAWS[ref] + Turn + n
    BY <1>1 DEF Facing
  <1>3. PICK n \in Noise : \/ cam_yaws[ref] = CAM_YAWS[ref] + n
                           \/ cam_yaws[ref] = CAM_YAWS[ref] + Turn + n
    BY <1>2
  <1>4. n \in Int
    BY <1>1
  <1>5. CASE cam_yaws[ref] = CAM_YAWS[ref] + n
    <2>1. cam_yaws[ref] - CAM_YAWS[ref] = n
      BY <1>1, <1>4, <1>5
    <2> QED
      BY <2>1 DEF YawError
  <1>6. CASE cam_yaws[ref] = CAM_YAWS[ref] + Turn + n
    <2>1. cam_yaws[ref] - CAM_YAWS[ref] = Turn + n
      BY <1>1, <1>4, <1>6
    <2>2. (Turn + n) % Turn = n % Turn
      <3>1. - Turn < n /\ n < Turn
        <4>1. PICK k \in Nat \ {0} : Turn = 4 * k /\ Turn \div 2 = 2 * k /\ Turn \div 4 = k
          BY Quarters
        <4>2. - k < n /\ n < k
          BY <4>1, ExtrinsicCalibrationAssumption
        <4> QED
          BY <1>4, <4>1, <4>2
      <3>2. CASE 0 <= n
        BY <1>4, <3>1, <3>2, Remainders
      <3>3. CASE n < 0
        <4>1. 0 <= Turn + n /\ Turn + n < Turn /\ Turn + n \in Int /\ (Turn + n) - Turn = n
          BY <1>1, <1>4, <3>1, <3>3
        <4>2. (Turn + n) % Turn = Turn + n /\ ((Turn + n) - Turn) % Turn = Turn + n
          BY <4>1, Remainders
        <4> QED
          BY <4>1, <4>2
      <3> QED
        BY <1>4, <3>2, <3>3
    <2> QED
      BY <2>1, <2>2 DEF YawError
  <1> QED
    BY <1>3, <1>5, <1>6

(* One pair: a target that is measured lies as far off as its reference,   *)
(* and a drift further, whatever pitch the reference is taken to have.     *)
LEMMA PairOffsets ==
    ASSUME TypeOK, Facing, NEW ref \in {"rear", "left", "right"}, NEW target \in Cams,
           <<ref, target>> \in Pairs, NEW refHalf, NEW targetHalf,
           NEW d \in Detections(ref, target, refHalf, targetHalf),
           CalibratePair(ref, target, d),
           NEW b \in Boards,
           Visible(ref, refHalf) = {b}, Visible(target, targetHalf) = {b},
           NEW e \in Nat
    PROVE  /\ \A c \in Cams \ {target} : cam_offsets'[c] = cam_offsets[c]
           /\ ~Measured(d) => cam_offsets'[target] = cam_offsets[target]
           /\ Measured(d) /\ Near(cam_offsets[ref], Place[ref], e) =>
                 Near(cam_offsets'[target], Place[target], e + Drift)
  <1> DEFINE level == Levelled(ref, target, d)[ref]
             apart == Minus(Place[target], Place[ref])
  <1>1. /\ \A c \in Cams \ {target} : cam_offsets'[c] = cam_offsets[c]
        /\ ~Measured(d) => cam_offsets'[target] = cam_offsets[target]
        /\ Measured(d) => cam_offsets'[target] = RelativePose(ref, target, d).offset
    BY DEF CalibratePair, TypeOK
  <1>2. ASSUME Measured(d), Near(cam_offsets[ref], Place[ref], e)
        PROVE  Near(cam_offsets'[target], Place[target], e + Drift)
    <2>1. ref \in Cams
      BY DEF Cams
    <2>2. d.ref = b /\ d.target = b
      BY <1>2 DEF Detections, Measured
    <2>3. /\ Place[ref] \in Positions /\ Place[target] \in Positions /\ BoardAt[b] \in Positions
          /\ cam_offsets[ref] \in Positions /\ cam_yaws[ref] \in Int /\ Drift \in Nat
      BY <2>1, ExtrinsicCalibrationAssumption DEF Positions, TypeOK
    <2>4. \A p, q, x \in Positions : Minus(Minus(q, x), Minus(p, x)) = Minus(q, p)
      BY DEF Minus, Positions
    <2>5. Apart(ref, target, d) = apart
      <3>1. Apart(ref, target, d) = Minus(Minus(Place[target], BoardAt[b]), Minus(Place[ref], BoardAt[b]))
        BY <2>2 DEF Apart
      <3> QED
        BY <2>3, <2>4, <3>1
    <2>6. apart \in Positions
      BY <2>3, PositionFacts
    <2>7. level \in Levels \cup {None}
      BY <2>1, DetectionFacts DEF Levelled, TypeOK
    <2> HIDE DEF level
    <2>8. PICK n \in Noise : YawError(ref) = n % Turn
      BY ReferenceYaws
    <2>9. Near(Turned(ref, n % Turn, level, apart), apart, Drift)
      <3>1. <<ref, target>>[1] = ref /\ <<ref, target>>[2] = target
        OBVIOUS
      <3>2. \A m \in Noise, l \in Levels \cup {None} :
               Near(Turned(ref, m % Turn, l, apart), apart, Drift)
        BY <3>1, DriftAssumption
      <3> HIDE DEF apart
      <3> QED
        BY <2>7, <3>2
    <2>10. Turned(ref, YawError(ref), level, apart) \in Positions
      BY <2>1, <2>6, <2>7, TurnedFacts, YawErrors
    <2>11. cam_offsets'[target] = Plus(cam_offsets[ref], Turned(ref, YawError(ref), level, apart))
      BY <1>1, <1>2, <2>5 DEF RelativePose, level
    <2>12. Near(Turned(ref, YawError(ref), level, apart), Minus(Place[target], Place[ref]), Drift)
      BY <2>8, <2>9
    <2> HIDE DEF apart
    <2>13. Near(Plus(cam_offsets[ref], Turned(ref, YawError(ref), level, apart)), Place[target], e + Drift)
      BY <1>2, <2>3, <2>10, <2>12, NearFacts, Zenon
    <2> QED
      BY <2>11, <2>13
  <1> QED
    BY <1>1, <1>2

(* The invariant: left and right are placed for good by the first pair that*)
(* measures them, the front camera only in their company, and what its     *)
(* left pair left for the average is as good as the front camera was then. *)
Placed ==
    /\ cam_offsets["rear"] = Place["rear"] /\ "rear" \in placed
    /\ "left" \in placed => Near(cam_offsets["left"], Place["left"], Drift)
    /\ "right" \in placed => Near(cam_offsets["right"], Place["right"], Drift)
    /\ "front" \in placed =>
          /\ "left" \in placed
          /\ Near(cam_offsets["front"], Place["front"], 2 * Drift)
          /\ pc \in {"front", "average"} => Near(via_left[1], Place["front"], 2 * Drift)

(* Every step keeps it. *)
LEMMA PlacedStep ==
    ASSUME TypeOK, Facing, Placed, [Next]_vars
    PROVE  Placed'
  <1>1. Drift \in Nat /\ 0 \in Nat /\ 0 + Drift = Drift /\ Drift + Drift = 2 * Drift /\ 2 * Drift \in Nat
    BY ExtrinsicCalibrationAssumption
  <1>2. \A c \in Cams : Place[c] \in Positions /\ cam_offsets[c] \in Positions
    BY ExtrinsicCalibrationAssumption DEF TypeOK, Positions
  <1>3. Near(cam_offsets["rear"], Place["rear"], 0)
    BY <1>1, <1>2, NearFacts DEF Placed, Cams
  <1>4. CASE KeySpace
    <2>1. PICK d \in Detections("rear", "left", "right", None) :
             /\ CalibratePair("rear", "left", d)
             /\ placed' = IF Measured(d) THEN placed \cup {"left"} ELSE placed
      BY <1>4 DEF KeySpace
    <2>2. /\ \A c \in Cams \ {"left"} : cam_offsets'[c] = cam_offsets[c]
          /\ ~Measured(d) => cam_offsets'["left"] = cam_offsets["left"]
          /\ Measured(d) => Near(cam_offsets'["left"], Place["left"], 0 + Drift)
      BY <1>1, <1>3, <2>1, PairOffsets, HalfFacts DEF Cams, Boards, Pairs
    <2>3. pc' = "right" /\ pc = "prompt" /\ via_left' = via_left
      BY <1>4 DEF KeySpace
    <2> QED
      BY <1>1, <2>1, <2>2, <2>3 DEF Placed, Cams
  <1>5. CASE RearRight
    <2>1. PICK d \in Detections("rear", "right", "left", None) :
             /\ CalibratePair("rear", "right", d)
             /\ placed' = IF Measured(d) THEN placed \cup {"right"} ELSE placed
      BY <1>5 DEF RearRight
    <2>2. /\ \A c \in Cams \ {"right"} : cam_offsets'[c] = cam_offsets[c]
          /\ ~Measured(d) => cam_offsets'["right"] = cam_offsets["right"]
          /\ Measured(d) => Near(cam_offsets'["right"], Place["right"], 0 + Drift)
      BY <1>1, <1>3, <2>1, PairOffsets, HalfFacts DEF Cams, Boards, Pairs
    <2>3. pc' = "loop" /\ via_left' = via_left
      BY <1>5 DEF RearRight
    <2> QED
      BY <1>1, <2>1, <2>2, <2>3 DEF Placed, Cams
  <1>6. CASE KeyC
    <2>1. PICK d \in Detections("left", "front", None, "left") :
             /\ CalibratePair("left", "front", d)
             /\ placed' = IF ~Measured(d) THEN placed
                          ELSE IF "left" \in placed THEN placed \cup {"front"} ELSE placed \ {"front"}
      BY <1>6 DEF KeyC
    <2>2. /\ \A c \in Cams \ {"front"} : cam_offsets'[c] = cam_offsets[c]
          /\ ~Measured(d) => cam_offsets'["front"] = cam_offsets["front"]
          /\ Measured(d) /\ Near(cam_offsets["left"], Place["left"], Drift) =>
                Near(cam_offsets'["front"], Place["front"], Drift + Drift)
      BY <1>1, <2>1, PairOffsets, HalfFacts DEF Cams, Boards, Pairs
    <2>3. via_left'[1] = cam_offsets'["front"]
      BY <1>6 DEF KeyC
    <2>4. "front" \in placed' => "left" \in placed' /\ Near(cam_offsets'["front"], Place["front"], 2 * Drift)
      BY <1>1, <2>1, <2>2 DEF Placed
    <2> QED
      BY <1>1, <2>1, <2>2, <2>3, <2>4 DEF Placed, Cams
  <1>7. CASE RightFront
    <2>1. PICK d \in Detections("right", "front", None, "right") :
             /\ CalibratePair("right", "front", d)
             /\ placed' = IF Measured(d) /\ "right" \notin placed THEN placed \ {"front"} ELSE placed
      BY <1>7 DEF RightFront
    <2>2. /\ \A c \in Cams \ {"front"} : cam_offsets'[c] = cam_offsets[c]
          /\ ~Measured(d) => cam_offsets'["front"] = cam_offsets["front"]
          /\ Measured(d) /\ Near(cam_offsets["right"], Place["right"], Drift) =>
                Near(cam_offsets'["front"], Place["front"], Drift + Drift)
      BY <1>1, <2>1, PairOffsets, HalfFacts DEF Cams, Boards, Pairs
    <2>3. pc = "front" /\ via_left' = via_left
      BY <1>7 DEF RightFront
    <2>4. "front" \in placed' => /\ "front" \in placed /\ "left" \in placed'
                                 /\ Near(cam_offsets'["front"], Place["front"], 2 * Drift)
      BY <1>1, <2>1, <2>2 DEF Placed
    <2> QED
      BY <1>1, <2>1, <2>2, <2>3, <2>4 DEF Placed, Cams
  <1>8. CASE Average
    <2> DEFINE sum == Plus(via_left[1], cam_offsets["front"])
               mean == <<sum[1] \div 2, sum[2] \div 2>>
    <2>1. /\ \A c \in Cams \ {"front"} : cam_offsets'[c] = cam_offsets[c]
          /\ cam_offsets'["front"] = mean
          /\ pc' = "loop" /\ pc = "average" /\ placed' = placed
      BY <1>8 DEF Average, TypeOK, Cams
    <2>2. ASSUME Near(via_left[1], Place["front"], 2 * Drift),
                 Near(cam_offsets["front"], Place["front"], 2 * Drift)
          PROVE  Near(mean, Place["front"], 2 * Drift)
      <3>1. via_left[1] \in Positions /\ cam_offsets["front"] \in Positions /\ Place["front"] \in Positions
        BY <1>2 DEF TypeOK, Positions, Cams
      <3> QED
        BY <1>1, <2>2, <3>1, NearFacts, Zenon
    <2> HIDE DEF mean
    <2> QED
      BY <2>1, <2>2 DEF Placed, Cams
  <1>9. CASE OpenCamera \/ OpenFails \/ ReadFrame \/ CopyFrames \/ KeyOther \/ KeyQ \/ StopThread
    <2>1. /\ cam_offsets' = cam_offsets /\ placed' = placed /\ via_left' = via_left
          /\ (pc' = pc \/ pc' \notin {"front", "average"})
      BY <1>9 DEF OpenCamera, OpenFails, ReadFrame, CopyFrames, KeyOther, KeyQ, StopThread, camVars
    <2> QED
      BY <2>1 DEF Placed
  <1>10. CASE UNCHANGED vars
    BY <1>10 DEF vars, camVars, Placed
  <1> QED
    BY <1>4, <1>5, <1>6, <1>7, <1>8, <1>9, <1>10 DEF Next

(* A camera measured from one that was placed keeps within the drift of its*)
(* one or two pairs, for every number of keys and every way to miss boards,*)
(* wherever the cameras and the boards are.                                *)
THEOREM OffsetsAlwaysKept == Spec => []OffsetsKept
  <1>1. Init => TypeOK /\ Counted /\ Facing /\ Placed
    <2>1. Init => Placed
      BY ExtrinsicCalibrationAssumption DEF Init, Placed, Cams
    <2> QED
      BY <2>1, CalibrationInit, FacingInit
  <1>2. (TypeOK /\ Counted /\ Facing /\ Placed) /\ [Next]_vars
          => (TypeOK /\ Counted /\ Facing /\ Placed)'
    BY CalibrationStep, FacingStep, PlacedStep
  <1>3. TypeOK /\ Placed => OffsetsKept
    <2> SUFFICES ASSUME TypeOK, Placed, NEW c \in placed
                 PROVE  Near(cam_offsets[c], Place[c],
                             CASE c = "rear" -> 0 [] c = "front" -> 2 * Drift [] OTHER -> Drift)
      BY DEF OffsetsKept
    <2>1. CASE c = "rear"
      <3>1. Place["rear"] \in Positions /\ 0 \in Nat
        BY ExtrinsicCalibrationAssumption DEF Positions, Cams
      <3>2. Near(cam_offsets["rear"], Place["rear"], 0)
        BY <3>1, NearFacts DEF Placed
      <3> QED
        BY <2>1, <3>2
    <2>2. CASE c = "front"
      BY <2>2 DEF Placed
    <2>3. CASE c = "left" \/ c = "right"
      BY <2>3 DEF Placed
    <2> QED
      BY <2>1, <2>2, <2>3 DEF TypeOK, Cams
  <1> QED
    BY <1>1, <1>2, <1>3, PTL DEF Spec
=============================================================================
