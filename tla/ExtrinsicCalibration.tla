------------------------ MODULE ExtrinsicCalibration ------------------------
(***************************************************************************)
(* ad_r1m_perception_video/.../utils/extrinsics_calibrator.py: four cameras *)
(* are opened, a thread each keeps their last frame, and the main loop,     *)
(* on SPACE and C, measures cameras in pairs on a board both of them see:   *)
(* the target is placed relative to the reference, and the homography of    *)
(* its bird's-eye view (BEV) is made again.                                 *)
(*                                                                          *)
(* Positions are pairs of integers, angles are integers modulo Turn; height *)
(* and pitch are one value, the level. The poses in the frame of a board    *)
(* are exact, but a measured yaw is off by a member of Noise, and what a    *)
(* pair yields is turned by the yaw and tilted by the pitch the reference   *)
(* is taken to have (Turned). The cameras stand at one height. The two      *)
(* boards are identical and lie along the vehicle.                          *)
(***************************************************************************)
EXTENDS Integers, Sequences, FiniteSets

CONSTANTS
    Place,     \* where the cameras really are
    BoardAt,   \* where the boards "L" (left of the vehicle) and "R" are
    Turn,      \* a full turn, in units of yaw
    Noise,     \* the errors of a measured yaw
    Levels,    \* the heights and pitches that are accepted
    Cos, Sin,  \* of every angle, times Unit
    Unit,
    Short,     \* the cosine, times Unit, of the error of a level's pitch
    Drift,     \* how far that turns and tilts the other camera of a pair
    MaxKeys    \* bound: how often SPACE and C are pressed

Cams == {"rear", "left", "front", "right"}
Boards == {"L", "R"}
None == "none"

ASSUME ExtrinsicCalibrationAssumption ==
    /\ Place \in [Cams -> Int \X Int] /\ Place["rear"] = <<0, 0>>
    /\ BoardAt \in [Boards -> Int \X Int]
    /\ Turn \in Nat \ {0} /\ Turn % 4 = 0
    /\ Noise \subseteq Int /\ 0 \in Noise
    /\ \A n \in Noise : -(Turn \div 4) < n /\ n < Turn \div 4
    /\ None \notin Levels
    /\ Unit \in Nat \ {0}
    /\ Cos \in [0..(Turn - 1) -> Int] /\ Sin \in [0..(Turn - 1) -> Int]
    /\ Short \in [Levels \cup {None} -> Int]
    /\ Drift \in Nat /\ MaxKeys \in Nat

CAMS_TO_CALIBRATE == <<"rear", "left", "front", "right">>

CAM_YAWS == [c \in Cams |-> CASE c = "front" -> 0
                              [] c = "rear"  -> Turn \div 2
                              [] c = "left"  -> Turn \div 4
                              [] c = "right" -> -(Turn \div 4)]

Plus(a, b) == <<a[1] + b[1], a[2] + b[2]>>
Minus(a, b) == <<a[1] - b[1], a[2] - b[2]>>
Dot(a, b) == a[1] * b[1] + a[2] * b[2]

(* Where a camera looks: x is to the right of the vehicle, y ahead.        *)
Ahead == [c \in Cams |-> CASE c = "front" -> <<0, 1>>
                           [] c = "rear"  -> <<0, -1>>
                           [] c = "left"  -> <<-1, 0>>
                           [] c = "right" -> <<1, 0>>]

(* A true vector v, brought from the frame of the reference into that of   *)
(* the vehicle by the yaw (off by error) and the level the reference has   *)
(* in the program: a wrong pitch shortens what lies ahead of the camera, a *)
(* wrong yaw turns it all. None stands for the fallback of 5 degrees.      *)
Turned(ref, error, level, v) ==
    LET along == Dot(v, Ahead[ref])
        lost == along - (along * Short[level]) \div Unit
        w == <<v[1] - lost * Ahead[ref][1], v[2] - lost * Ahead[ref][2]>>
    IN  <<(Cos[error] * w[1] - Sin[error] * w[2]) \div Unit,
          (Sin[error] * w[1] + Cos[error] * w[2]) \div Unit>>

Near(a, b, distance) ==
    \A i \in 1..2 : b[i] - distance <= a[i] /\ a[i] <= b[i] + distance

Pairs == {<<"rear", "left">>, <<"rear", "right">>, <<"left", "front">>, <<"right", "front">>}

(* Drift bounds what the noise of a yaw and any level do to one pair. *)
ASSUME DriftAssumption ==
    \A pair \in Pairs, n \in Noise, level \in Levels \cup {None} :
        LET apart == Minus(Place[pair[2]], Place[pair[1]]) IN
        Near(Turned(pair[1], n % Turn, level, apart), apart, Drift)

VARIABLES
    pc,           \* where main() is
    opened,       \* how many cameras main() has opened
    stopped,      \* how many threads main() has stopped
    frames,       \* the cameras with a frame; a frame is replaced, never lost
    cam_levels,   \* cam_heights and cam_pitches: a level or None
    cam_offsets,
    cam_yaws,
    bev_Hs,       \* what the homography of a camera was made from
    via_left,     \* front_via_left: an offset and a yaw
    keys,         \* how often SPACE and C were pressed
    measured,     \* history: the first pair of this key was measured
    placed,       \* history: the cameras measured from one that was placed
    procedure     \* history: the first keys pressed, if all was measured

camVars == <<cam_levels, cam_offsets, cam_yaws, bev_Hs>>
threadVars == <<opened, stopped, frames>>
vars == <<pc, threadVars, camVars, via_left, keys, measured, placed, procedure>>

Homographies == [level : Levels \cup {None}, offset : Int \X Int, yaw : Int]
NoHomography == [level |-> None, offset |-> <<0, 0>>, yaw |-> 0]

TypeOK ==
    /\ pc \in {"open", "loop", "prompt", "right", "front", "average", "stop", "done", "aborted"}
    /\ opened \in 0..Len(CAMS_TO_CALIBRATE) /\ stopped \in 0..Len(CAMS_TO_CALIBRATE)
    /\ frames \subseteq Cams
    /\ cam_levels \in [Cams -> Levels \cup {None}]
    /\ cam_offsets \in [Cams -> Int \X Int]
    /\ cam_yaws \in [Cams -> Int]
    /\ bev_Hs \in [Cams -> Homographies]
    /\ via_left \in (Int \X Int) \X Int
    /\ keys \in 0..MaxKeys
    /\ measured \in BOOLEAN /\ placed \subseteq Cams
    /\ procedure \in Seq({"SPACE", "C", "other"})

Init ==
    /\ pc = "open" /\ opened = 0 /\ stopped = 0
    /\ frames = {}
    /\ cam_levels = [c \in Cams |-> None]
    /\ cam_offsets = [c \in Cams |-> <<0, 0>>]
    /\ cam_yaws = CAM_YAWS
    /\ bev_Hs = [c \in Cams |-> NoHomography]
    /\ via_left = <<<<0, 0>>, 0>>
    /\ keys = 0 /\ measured = FALSE /\ placed = {"rear"} /\ procedure = <<>>

-----------------------------------------------------------------------------
(* CameraThread(name): the camera opens and its thread starts, or the main *)
(* program gives up and the threads it started (daemons) go with it.       *)
OpenCamera ==
    /\ pc = "open"
    /\ opened' = opened + 1
    /\ pc' = IF opened' = Len(CAMS_TO_CALIBRATE) THEN "loop" ELSE "open"
    /\ UNCHANGED <<stopped, frames, camVars, via_left, keys, measured, placed, procedure>>

OpenFails ==
    /\ pc = "open"
    /\ pc' = "aborted"
    /\ UNCHANGED <<threadVars, camVars, via_left, keys, measured, placed, procedure>>

(* A thread reads its first frame, or another one. *)
Running == {CAMS_TO_CALIBRATE[i] : i \in (stopped + 1)..opened}

ReadFrame ==
    /\ pc \notin {"done", "aborted"}
    /\ \E c \in Running \ frames : frames' = frames \cup {c}
    /\ UNCHANGED <<pc, opened, stopped, camVars, via_left, keys, measured, placed, procedure>>

(* The top of the loop: until every camera has had a frame, keys are       *)
(* thrown away, q too.                                                     *)
CopyFrames ==
    /\ pc = "loop" /\ frames = Cams
    /\ pc' = "prompt"
    /\ UNCHANGED <<threadVars, camVars, via_left, keys, measured, placed, procedure>>

-----------------------------------------------------------------------------
(* atan2 of a difference of angles. *)
Wrap(angle) == ((angle + Turn \div 2) % Turn) - Turn \div 2

(* The boards in the picture of a camera, or in the half of it that is     *)
(* cut out. The rear camera looks back: the vehicle's left is on its right.*)
Visible(c, half) ==
    CASE c = "left" -> {"L"}
      [] c = "right" -> {"R"}
      [] c = "front" -> IF half = "left" THEN {"L"} ELSE IF half = "right" THEN {"R"} ELSE Boards
      [] c = "rear" -> IF half = "right" THEN {"L"} ELSE IF half = "left" THEN {"R"} ELSE Boards

(* What the two cameras of a pair may detect: their levels (None for one   *)
(* not found, not solved, or refused as too high or too steep) and the     *)
(* board each of them takes its pose from.                                 *)
Detections(ref, target, refHalf, targetHalf) ==
    [level : [{ref, target} -> Levels \cup {None}],
     ref : Visible(ref, refHalf) \cup {None},
     target : Visible(target, targetHalf) \cup {None},
     noise : Noise]

(* Both poses were detected: nothing of the target moves otherwise. *)
Measured(d) == d.ref # None /\ d.target # None

(* The levels once those of the pair are detected: the pitch the reference *)
(* is taken to have is that of this very key, if it was accepted.          *)
Levelled(ref, target, d) ==
    [c \in Cams |-> IF c \in {ref, target} /\ d.level[c] # None THEN d.level[c] ELSE cam_levels[c]]

(* How far the program is wrong about where a camera looks: turns are      *)
(* nothing to a cosine.                                                    *)
YawError(ref) == (cam_yaws[ref] - CAM_YAWS[ref]) % Turn

(* The two cameras, as seen from the boards they take their poses from.    *)
Apart(ref, target, d) ==
    Minus(Minus(Place[target], BoardAt[d.target]), Minus(Place[ref], BoardAt[d.ref]))

(* Bugs for OffsetsKept and for FacingKept: the offset is taken for an     *)
(* absolute one; the relative yaw has the wrong sign.                      *)
RelativeAsAbsolute(ref, target, d) ==
    [offset |-> Turned(ref, YawError(ref), Levelled(ref, target, d)[ref], Apart(ref, target, d)),
     yaw |-> cam_yaws[ref] + Wrap(CAM_YAWS[target] - CAM_YAWS[ref]) + d.noise]

RelativeNegated(ref, target, d) ==
    [offset |-> Plus(cam_offsets[ref],
                     Turned(ref, YawError(ref), Levelled(ref, target, d)[ref], Apart(ref, target, d))),
     yaw |-> cam_yaws[ref] - Wrap(CAM_YAWS[target] - CAM_YAWS[ref]) + d.noise]

(* Both poses are relative to "the" board: that they see the same one is   *)
(* up to the halves of the pictures.                                       *)
RelativePose(ref, target, d) ==
    [offset |-> Plus(cam_offsets[ref],
                     Turned(ref, YawError(ref), Levelled(ref, target, d)[ref], Apart(ref, target, d))),
     yaw |-> cam_yaws[ref] + Wrap(CAM_YAWS[target] - CAM_YAWS[ref]) + d.noise]

Homography(c, level, offset, yaw) ==
    IF level[c] = None THEN bev_Hs[c]
    ELSE [level |-> level[c], offset |-> offset[c], yaw |-> yaw[c]]

(* Bug for BevIsCurrent: only the camera that was placed gets a new        *)
(* homography.                                                             *)
CalibrateTargetOnly(ref, target, d) ==
    LET pose == RelativePose(ref, target, d) IN
    /\ cam_levels' = Levelled(ref, target, d)
    /\ cam_offsets' = IF Measured(d) THEN [cam_offsets EXCEPT ![target] = pose.offset] ELSE cam_offsets
    /\ cam_yaws' = IF Measured(d) THEN [cam_yaws EXCEPT ![target] = pose.yaw] ELSE cam_yaws
    /\ bev_Hs' = [c \in Cams |-> IF c = target THEN Homography(c, cam_levels', cam_offsets', cam_yaws')
                                               ELSE bev_Hs[c]]

(* calibrate_pair: levels, then the pose of the target relative to the     *)
(* reference, then the homographies of both.                               *)
CalibratePair(ref, target, d) ==
    LET pose == RelativePose(ref, target, d) IN
    /\ cam_levels' = Levelled(ref, target, d)
    /\ cam_offsets' = IF Measured(d) THEN [cam_offsets EXCEPT ![target] = pose.offset] ELSE cam_offsets
    /\ cam_yaws' = IF Measured(d) THEN [cam_yaws EXCEPT ![target] = pose.yaw] ELSE cam_yaws
    /\ bev_Hs' = [c \in Cams |-> IF c \in {ref, target}
                                 THEN Homography(c, cam_levels', cam_offsets', cam_yaws')
                                 ELSE bev_Hs[c]]

-----------------------------------------------------------------------------
(* SPACE: rear and left, then rear and right. C: left and front, then      *)
(* right and front, then the average of the two. The keys work on the      *)
(* frames copied at the top of the loop.                                   *)
KeySpace ==
    /\ pc = "prompt" /\ pc' = "right"
    /\ keys < MaxKeys /\ keys' = keys + 1
    /\ \E d \in Detections("rear", "left", "right", None) :
          /\ CalibratePair("rear", "left", d)
          /\ measured' = Measured(d)
          /\ placed' = IF Measured(d) THEN placed \cup {"left"} ELSE placed
    /\ UNCHANGED <<threadVars, via_left, procedure>>

Note(key, complete) ==
    procedure' = IF complete /\ Len(procedure) < 2 THEN Append(procedure, key) ELSE <<"other", "other">>

RearRight ==
    /\ pc = "right" /\ pc' = "loop"
    /\ \E d \in Detections("rear", "right", "left", None) :
          /\ CalibratePair("rear", "right", d)
          /\ placed' = IF Measured(d) THEN placed \cup {"right"} ELSE placed
          /\ Note("SPACE", measured /\ Measured(d))
    /\ UNCHANGED <<threadVars, via_left, keys, measured>>

KeyC ==
    /\ pc = "prompt" /\ pc' = "front"
    /\ keys < MaxKeys /\ keys' = keys + 1
    /\ \E d \in Detections("left", "front", None, "left") :
          /\ CalibratePair("left", "front", d)
          /\ measured' = Measured(d)
          /\ placed' = IF ~Measured(d) THEN placed
                       ELSE IF "left" \in placed THEN placed \cup {"front"} ELSE placed \ {"front"}
    /\ via_left' = <<cam_offsets'["front"], cam_yaws'["front"]>>
    /\ UNCHANGED <<threadVars, procedure>>

(* What the left pair left, or the key before it, goes into the average:   *)
(* the front camera is placed if that was and if this pair's reference is. *)
RightFront ==
    /\ pc = "front" /\ pc' = "average"
    /\ \E d \in Detections("right", "front", None, "right") :
          /\ CalibratePair("right", "front", d)
          /\ placed' = IF Measured(d) /\ "right" \notin placed THEN placed \ {"front"} ELSE placed
          /\ Note("C", measured /\ Measured(d))
    /\ UNCHANGED <<threadVars, via_left, keys, measured>>

(* The average of what the two pairs left in the front camera's entry: the *)
(* entry of before where a pair was not measured, and a mean of angles     *)
(* that may lie a turn apart.                                              *)
Average ==
    /\ pc = "average" /\ pc' = "loop"
    /\ LET sum == Plus(via_left[1], cam_offsets["front"]) IN
       cam_offsets' = [cam_offsets EXCEPT !["front"] = <<sum[1] \div 2, sum[2] \div 2>>]
    /\ cam_yaws' = [cam_yaws EXCEPT !["front"] = (via_left[2] + cam_yaws["front"]) \div 2]
    /\ bev_Hs' = [bev_Hs EXCEPT !["front"] = Homography("front", cam_levels, cam_offsets', cam_yaws')]
    /\ UNCHANGED <<threadVars, cam_levels, via_left, keys, measured, placed, procedure>>

KeyOther ==
    /\ pc = "prompt" /\ pc' = "loop"
    /\ UNCHANGED <<threadVars, camVars, via_left, keys, measured, placed, procedure>>

KeyQ ==
    /\ pc = "prompt" /\ pc' = "stop"
    /\ UNCHANGED <<threadVars, camVars, via_left, keys, measured, placed, procedure>>

(* Bug for TypeOK: the loop over the threads runs one too far. *)
StopThreadAgain ==
    /\ pc = "stop"
    /\ stopped' = stopped + 1
    /\ pc' = IF stopped' > Len(CAMS_TO_CALIBRATE) THEN "done" ELSE "stop"
    /\ UNCHANGED <<opened, frames, camVars, via_left, keys, measured, placed, procedure>>

(* ct.stop() of one camera after the other, each waits for its thread. *)
StopThread ==
    /\ pc = "stop"
    /\ stopped' = stopped + 1
    /\ pc' = IF stopped' = Len(CAMS_TO_CALIBRATE) THEN "done" ELSE "stop"
    /\ UNCHANGED <<opened, frames, camVars, via_left, keys, measured, placed, procedure>>

Next ==
    \/ OpenCamera \/ OpenFails \/ ReadFrame \/ CopyFrames
    \/ KeySpace \/ RearRight \/ KeyC \/ RightFront \/ Average
    \/ KeyOther \/ KeyQ \/ StopThread

Spec == Init /\ [][Next]_vars

-----------------------------------------------------------------------------
(* Properties *)

(* The bird's-eye view on the screen, by which the operator judges the     *)
(* calibration, is made from the parameters the program would report: no   *)
(* sequence of keys, of boards missed and of levels refused leaves a       *)
(* homography behind that was made from older ones (336-345, 434-437).     *)
BevIsCurrent ==
    \A c \in Cams :
        bev_Hs[c] = IF cam_levels[c] = None THEN NoHomography
                    ELSE [level |-> cam_levels[c], offset |-> cam_offsets[c], yaw |-> cam_yaws[c]]

(* A measured yaw is the camera's, up to its noise and whole turns: the    *)
(* left and right ones always, although each is computed from another. The *)
(* front one, the plain mean of two, is off by the noise of two pairs at   *)
(* most however often only one of them is measured, as long as the right   *)
(* camera has not been measured from the rear (322-332, 431).              *)
FacingKept ==
    /\ \A c \in {"rear", "left", "right"} :
          \E n \in Noise : Wrap(cam_yaws[c] - CAM_YAWS[c] - n) = 0
    /\ cam_yaws["right"] = CAM_YAWS["right"] =>
          \E m, n \in Noise : 2 * m <= cam_yaws["front"] /\ cam_yaws["front"] <= 2 * n

(* A camera once measured from one that stands right stays where it is:    *)
(* whatever keys follow, whatever boards they miss, whatever levels they   *)
(* accept and however yaws are off, left and right are off by the drift of *)
(* one pair and the front one by that of two, although the next C averages *)
(* the entry of before with one pair's or with none (318-345, 411-433).    *)
OffsetsKept ==
    \A c \in placed :
        Near(cam_offsets[c], Place[c], CASE c = "rear" -> 0 [] c = "front" -> 2 * Drift [] OTHER -> Drift)

(* The README of the package on the procedure: first C, then SPACE, "order *)
(* matters". Does not hold, with all the room the drift leaves: C places   *)
(* the front camera relative to a left and a right one that are still at   *)
(* the origin.                                                             *)
ProcedureCalibrates ==
    procedure = <<"C", "SPACE">> /\ pc = "prompt" =>
        \A c \in Cams : Near(cam_offsets[c], Place[c], 2 * Drift)
=============================================================================
