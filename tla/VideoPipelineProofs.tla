------------------------- MODULE VideoPipelineProofs -------------------------
(***************************************************************************)
(* Theorems of VideoPipeline, for every set of cameras, length of the      *)
(* queues and number of canvases.                                          *)
(***************************************************************************)
EXTENDS VideoPipeline, SequenceTheorems, TLAPS

(* The worker is told to stop only when the main thread is stopping. *)
Woken ==
    /\ NoLostWakeup
    /\ ~seg_running => pc \in {"segset", "segjoin", "done"}

(* What the steps of the three families of threads leave alone. *)
LEMMA WorkerFrame ==
    SegmentorSteps => UNCHANGED <<frames, mainVars, key, seg_running, recVars, record_queue,
                                  thrVars, zmqVars>>
  BY DEF SegmentorSteps, Top, WaitEvent, Clear, Check, Take, Infer, Worker

LEMMA WriterFrame ==
    WriterSteps => UNCHANGED <<frames, mainVars, key, boxVars, segVars, zmqVars>>
  BY DEF WriterSteps, GetFrame, WriteFrame, recVars

LEMMA PublisherFrame ==
    Publisher => UNCHANGED <<frames, mainVars, key, boxVars, segVars, recVars, record_queue, thrVars>>
  BY DEF Publisher, PublisherStarts, TickNothing, PublisherEnds, Tick, OnTopics, vars

(* The steps of the worker: the event is cleared only by a worker that     *)
(* goes on to take what is in the mailbox.                                 *)
LEMMA WorkerWakes == Woken /\ SegmentorSteps => Woken'
  <1> SUFFICES ASSUME Woken, SegmentorSteps PROVE Woken'
    OBVIOUS
  <1>1. pc' = pc /\ seg_running' = seg_running
    BY WorkerFrame DEF mainVars
  <1>2. CASE Top
    BY <1>1, <1>2 DEF Top, Worker, Woken, NoLostWakeup
  <1>3. CASE WaitEvent
    BY <1>1, <1>3 DEF WaitEvent, Worker, Woken, NoLostWakeup
  <1>4. CASE Clear
    BY <1>1, <1>4 DEF Clear, Worker, Woken, NoLostWakeup
  <1>5. CASE Check
    BY <1>1, <1>5 DEF Check, Worker, Woken, NoLostWakeup, Stopping
  <1>6. CASE Take
    BY <1>1, <1>6 DEF Take, Worker, Woken, NoLostWakeup
  <1>7. CASE Infer
    BY <1>1, <1>7 DEF Infer, Worker, Woken, NoLostWakeup
  <1> QED
    BY <1>2, <1>3, <1>4, <1>5, <1>6, <1>7 DEF SegmentorSteps

(* The steps of the main thread: a batch is followed by its event, and a   *)
(* loop that is left is on its way to stop the worker.                     *)
LEMMA MainWakes == Woken /\ MainSteps => Woken'
  <1> SUFFICES ASSUME Woken, MainSteps PROVE Woken'
    OBVIOUS
  <1>1. worker' = worker
    BY DEF MainSteps, LoopSteps, Start, Wait, Calibrate, Submit, SetEvent, GetAllMasks, Stitch, Show,
           KeyV, MakeThread, StartThread, StopRecording, Put, Join, JoinRaises, Publish, KeyQ, Finally,
           DisplayStop, SegStop, SegSet, SegJoin,
           Control, Compute, Mailbox, OnDisplay, At, segVars
  <1>2. CASE Submit \/ SetEvent \/ SegStop \/ SegSet
    BY <1>1, <1>2 DEF Submit, SetEvent, SegStop, SegSet, Mailbox, At, Woken, NoLostWakeup, Stopping
  <1>3. CASE Start \/ Wait \/ SegJoin
    BY <1>1, <1>3 DEF Start, Wait, SegJoin, Control, At, boxVars, Woken, NoLostWakeup, Stopping
  <1>4. CASE Calibrate \/ GetAllMasks \/ Stitch
    BY <1>1, <1>4 DEF Calibrate, GetAllMasks, Stitch, Compute, At, boxVars, Woken, NoLostWakeup, Stopping
  <1>5. CASE Show \/ KeyV \/ MakeThread \/ StartThread \/ KeyQ
    BY <1>1, <1>5 DEF Show, KeyV, MakeThread, StartThread, KeyQ, recVars, OnDisplay, At, boxVars, Woken, NoLostWakeup, Stopping
  <1>6. CASE StopRecording
    BY <1>1, <1>6 DEF StopRecording, Put, Join, OnDisplay, At, boxVars, Woken, NoLostWakeup, Stopping
  <1>7. CASE DisplayStop
    BY <1>1, <1>7 DEF DisplayStop, Put, Join, JoinRaises, Control, OnDisplay, At, dispVars, boxVars, Woken, NoLostWakeup, Stopping
  <1>8. CASE Publish \/ Finally
    BY <1>1, <1>8 DEF Publish, Finally, At, boxVars, Woken, NoLostWakeup, Stopping
  <1> QED
    BY <1>2, <1>3, <1>4, <1>5, <1>6, <1>7, <1>8 DEF MainSteps, LoopSteps

(* Every step keeps the wake-up. *)
LEMMA StepWakes == Woken /\ [Next]_vars => Woken'
  <1> SUFFICES ASSUME Woken, [Next]_vars PROVE Woken'
    OBVIOUS
  <1>1. CASE SegmentorSteps
    BY <1>1, WorkerWakes
  <1>2. CASE MainSteps
    BY <1>2, MainWakes
  <1>3. CASE WriterSteps
    BY <1>3, WriterFrame DEF mainVars, boxVars, segVars, Woken, NoLostWakeup
  <1>4. CASE \E c \in Cams : Capture(c)
    BY <1>4 DEF Capture, mainVars, boxVars, segVars, Woken, NoLostWakeup
  <1>5. CASE Interrupt
    BY <1>5 DEF Interrupt, Loop, Stopping, boxVars, segVars, Woken, NoLostWakeup
  <1>6. CASE Press \/ Publisher
    BY <1>6, PublisherFrame DEF Press, mainVars, boxVars, segVars, Woken, NoLostWakeup
  <1>7. CASE UNCHANGED vars
    BY <1>7 DEF vars, mainVars, boxVars, segVars, Woken, NoLostWakeup
  <1> QED
    BY <1>1, <1>2, <1>3, <1>4, <1>5, <1>6, <1>7 DEF Next

(* A batch in the mailbox always has a wake-up on its way, in every        *)
(* interleaving of the main thread, the worker and an interrupt.           *)
THEOREM WakeupNeverLost == Spec => []NoLostWakeup
  <1>1. Init => Woken
    BY DEF Init, Woken, NoLostWakeup
  <1>2. Woken /\ [Next]_vars => Woken'
    BY StepWakes
  <1>3. Woken => NoLostWakeup
    BY DEF Woken
  <1> QED
    BY <1>1, <1>2, <1>3, PTL DEF Spec

-----------------------------------------------------------------------------
(* The stages between Wait and the stitching of a canvas, and those from   *)
(* there to its publication.                                               *)
Stitching == {"calibrate", "submit", "set", "masks", "stitch"}
Stitched == {"show", "keyv", "thread", "launch", "put", "join", "publish"}

(* Types of what the loop keeps; there is room for the canvas it makes, it *)
(* has a number, and it is drawn with the masks that will go with it.      *)
LoopTyped ==
    /\ frames \in [Cams -> Frames] /\ running \in BOOLEAN
    /\ pc \in {"start", "crashed"} \cup Loop \cup Stopping /\ key \in {None, "v", "q"}
    /\ canvas \in Canvases /\ floor_masks \in Masks /\ calibrated \in BOOLEAN
    /\ pc \in Stitching => canvas.n < MaxCanvas
    /\ pc \in Stitched => canvas.n > 0 /\ canvas.masks = floor_masks

(* Types of the segmentation; a worker that infers has a batch. *)
SegTyped ==
    /\ input \in Masks \cup {NoBatch} /\ event \in BOOLEAN /\ seg_running \in BOOLEAN
    /\ worker \in {"top", "wait", "clear", "check", "take", "infer", "dead"}
    /\ index \in DOMAIN floor_cams /\ batch \in Masks \cup {NoBatch} /\ masks \in Masks
    /\ worker = "infer" => batch # NoBatch

(* Types of the recorder; what is written is not what ends a recording. *)
RecTyped ==
    /\ recording \in BOOLEAN /\ writer \in {None, "open", "released"} /\ cut \in BOOLEAN
    /\ record_queue \in Seq(0..MaxCanvas) /\ Len(record_queue) <= RecordMax
    /\ thread \in {None, "new", "get", "write", "dead"} /\ hand \in 0..MaxCanvas
    /\ accepted \in Seq(1..MaxCanvas) /\ written \in Seq(1..MaxCanvas)
    /\ thread = "write" => hand # Poison

ZmqTyped ==
    /\ pipe \in Seq(Canvases) /\ Len(pipe) <= HWM
    /\ listening \in BOOLEAN /\ published \in Canvases

Typed == LoopTyped /\ SegTyped /\ RecTyped /\ ZmqTyped

(* A batch is of the cameras whose floor is searched. *)
LEMMA CameraFacts ==
    /\ FloorCams \subseteq Cams /\ 1 \in DOMAIN floor_cams /\ Len(floor_cams) \in Nat
    /\ DOMAIN floor_cams = 1..Len(floor_cams)
    /\ \A i \in DOMAIN floor_cams : floor_cams[i] \in FloorCams
    /\ \A f \in [Cams -> Frames] : [c \in FloorCams |-> f[c]] \in Masks
  <1>1. floor_cams \in Seq(Cams) /\ floor_cams # <<>>
    BY VideoAssumption
  <1>2. /\ Len(floor_cams) \in Nat /\ DOMAIN floor_cams = 1..Len(floor_cams) /\ Len(floor_cams) # 0
        /\ \A i \in 1..Len(floor_cams) : floor_cams[i] \in Cams
    BY <1>1, LenProperties, EmptySeq, ElementOfSeq
  <1>3. FloorCams \subseteq Cams
    BY <1>2 DEF FloorCams
  <1> QED
    BY <1>2, <1>3 DEF FloorCams, Masks

(* The main thread leaves alone what is not its own. *)
LEMMA MainFrame == MainSteps => UNCHANGED <<frames, segVars, hand, written, listening, published>>
  BY DEF MainSteps, LoopSteps, Start, Wait, Calibrate, Submit, SetEvent, GetAllMasks, Stitch, Show,
         KeyV, MakeThread, StartThread, StopRecording, Put, Join, JoinRaises, Publish, KeyQ, Finally,
           DisplayStop, SegStop, SegSet, SegJoin,
         Control, Compute, Mailbox, OnDisplay, At, zmqVars

(* The types of the loop. *)
LEMMA LoopStep == Typed /\ [Next]_vars => LoopTyped'
  <1> SUFFICES ASSUME Typed, [Next]_vars PROVE LoopTyped'
    OBVIOUS
  <1> USE DEF Typed, LoopTyped, Loop, Stopping, Stitching, Stitched
  <1>1. CASE SegmentorSteps
    BY <1>1, WorkerFrame DEF mainVars, loopVars
  <1>2. CASE WriterSteps
    BY <1>2, WriterFrame DEF mainVars, loopVars
  <1>3. ASSUME NEW c \in Cams, Capture(c) PROVE LoopTyped'
    <2>1. frames' \in [Cams -> Frames]
      BY <1>3, VideoAssumption DEF Capture, Frames
    <2> QED
      BY <1>3, <2>1 DEF Capture, mainVars, loopVars
  <1>4. CASE Start \/ SegJoin
    BY <1>4 DEF Start, SegJoin, Control, At, loopVars
  <1>5. CASE Wait
    BY <1>5 DEF Wait, Control, At, loopVars
  <1>6. CASE Submit \/ SetEvent \/ SegStop \/ SegSet
    BY <1>6 DEF Submit, SetEvent, SegStop, SegSet, Mailbox, At, loopVars
  <1>7. CASE Calibrate \/ GetAllMasks
    BY <1>7 DEF Calibrate, GetAllMasks, Compute, At, SegTyped
  <1>8. CASE Stitch
    <2>1. canvas.n \in 0..MaxCanvas /\ canvas.n < MaxCanvas /\ MaxCanvas \in Nat
      BY <1>8, VideoAssumption DEF Stitch, Compute, At, Canvases
    <2>2. canvas'.n = canvas.n + 1 /\ canvas'.masks = floor_masks /\ canvas' \in Canvases
      BY <1>8, <2>1 DEF Stitch, Canvases
    <2> QED
      BY <1>8, <2>1, <2>2 DEF Stitch, Compute, At
  <1>9. CASE Show \/ KeyV \/ MakeThread \/ StartThread \/ KeyQ
    BY <1>9 DEF Show, KeyV, MakeThread, StartThread, KeyQ, recVars, OnDisplay, At, loopVars
  <1>10. CASE StopRecording
    BY <1>10 DEF StopRecording, Put, Join, OnDisplay, At, loopVars
  <1>11. CASE DisplayStop
    BY <1>11 DEF DisplayStop, Put, Join, JoinRaises, Control, OnDisplay, At, dispVars, loopVars
  <1>12. CASE Publish
    BY <1>12 DEF Publish, At, loopVars
  <1>13. CASE Finally
    BY <1>13 DEF Finally, At
  <1>14. CASE Interrupt
    BY <1>14 DEF Interrupt, loopVars
  <1>15. CASE Press \/ Publisher
    BY <1>15, PublisherFrame DEF Press, mainVars, loopVars
  <1>16. CASE UNCHANGED vars
    BY <1>16 DEF vars, mainVars, loopVars
  <1> QED
    BY <1>1, <1>2, <1>3, <1>4, <1>5, <1>6, <1>7, <1>8, <1>9, <1>10, <1>11, <1>12, <1>13, <1>14,
       <1>15, <1>16 DEF Next, MainSteps, LoopSteps

(* The types of the segmentation. *)
LEMMA SegStep == Typed /\ [Next]_vars => SegTyped'
  <1> SUFFICES ASSUME Typed, [Next]_vars PROVE SegTyped'
    OBVIOUS
  <1> USE DEF Typed, SegTyped
  <1>1. CASE Top \/ WaitEvent \/ Clear \/ Check
    BY <1>1 DEF Top, WaitEvent, Clear, Check, Worker
  <1>2. CASE Take
    BY <1>2, CameraFacts DEF Take, Worker
  <1>3. CASE Infer
    <2>1. index \in 1..Len(floor_cams) /\ floor_cams[index] \in FloorCams /\ batch \in Masks
      BY <1>3, CameraFacts DEF Infer, Worker
    <2>2. index' \in DOMAIN floor_cams
      BY <1>3, <2>1, CameraFacts DEF Infer
    <2>3. masks' \in Masks
      BY <1>3, <2>1 DEF Infer, Masks
    <2> QED
      BY <1>3, <2>2, <2>3 DEF Infer, Worker
  <1>4. CASE Submit
    <2>1. input' \in Masks
      BY <1>4, CameraFacts DEF Submit, LoopTyped
    <2> QED
      BY <1>4, <2>1 DEF Submit, Mailbox, At, segVars
  <1>5. CASE SetEvent \/ SegStop \/ SegSet
    BY <1>5 DEF SetEvent, SegStop, SegSet, Mailbox, At, segVars
  <1>6. CASE Start \/ SegJoin \/ Wait
    BY <1>6 DEF Start, SegJoin, Wait, Control, At, boxVars, segVars
  <1>7. CASE Calibrate \/ GetAllMasks \/ Stitch
    BY <1>7 DEF Calibrate, GetAllMasks, Stitch, Compute, At, boxVars, segVars
  <1>8. CASE Show \/ KeyV \/ MakeThread \/ StartThread \/ KeyQ
    BY <1>8 DEF Show, KeyV, MakeThread, StartThread, KeyQ, recVars, OnDisplay, At, boxVars, segVars
  <1>9. CASE StopRecording \/ DisplayStop
    BY <1>9 DEF StopRecording, DisplayStop, Put, Join, JoinRaises, Control, OnDisplay, At, dispVars, boxVars, segVars
  <1>10. CASE Publish \/ Finally
    BY <1>10 DEF Publish, Finally, At, boxVars, segVars
  <1>11. CASE WriterSteps
    BY <1>11, WriterFrame DEF boxVars, segVars
  <1>12. CASE (\E c \in Cams : Capture(c)) \/ Interrupt
    BY <1>12 DEF Capture, Interrupt, boxVars, segVars
  <1>13. CASE Press \/ Publisher
    BY <1>13, PublisherFrame DEF Press, boxVars, segVars
  <1>14. CASE UNCHANGED vars
    BY <1>14 DEF vars, boxVars, segVars
  <1> QED
    BY <1>1, <1>2, <1>3, <1>4, <1>5, <1>6, <1>7, <1>8, <1>9, <1>10, <1>11, <1>12, <1>13, <1>14
       DEF Next, MainSteps, LoopSteps, SegmentorSteps

(* The types of the recorder. *)
LEMMA RecStep == Typed /\ [Next]_vars => RecTyped'
  <1> SUFFICES ASSUME Typed, [Next]_vars PROVE RecTyped'
    OBVIOUS
  <1> USE DEF Typed, RecTyped
  <1>0. MaxCanvas \in Nat /\ RecordMax \in Nat \ {0} /\ canvas.n \in 0..MaxCanvas
    BY VideoAssumption DEF LoopTyped, Canvases
  <1>1. CASE GetFrame
    <2>1. /\ Head(record_queue) \in 0..MaxCanvas /\ Tail(record_queue) \in Seq(0..MaxCanvas)
          /\ Len(Tail(record_queue)) = Len(record_queue) - 1
      BY <1>1, HeadTailProperties DEF GetFrame
    <2>2. Len(record_queue) \in Nat
      BY LenProperties
    <2>3. record_queue' \in Seq(0..MaxCanvas) /\ Len(record_queue') <= RecordMax
      BY <1>0, <1>1, <2>1, <2>2 DEF GetFrame
    <2>4. hand' \in 0..MaxCanvas /\ thread' \in {None, "new", "get", "write", "dead"}
          /\ (thread' = "write" => hand' # Poison)
      BY <1>1, <2>1 DEF GetFrame
    <2> QED
      BY <1>1, <2>3, <2>4 DEF GetFrame, recVars
  <1>2. CASE WriteFrame
    <2>1. hand \in 1..MaxCanvas
      BY <1>0, <1>2 DEF WriteFrame, Poison
    <2>2. written' \in Seq(1..MaxCanvas)
      BY <1>2, <2>1, AppendProperties DEF WriteFrame
    <2> QED
      BY <1>2, <2>2 DEF WriteFrame, recVars
  <1>3. CASE Show
    <2>1. canvas.n \in 1..MaxCanvas
      BY <1>0, <1>3 DEF Show, OnDisplay, At, LoopTyped, Stitched
    <2>2. accepted' = accepted \/ accepted' = Append(accepted, canvas.n)
      BY <1>3 DEF Show
    <2>4. accepted' \in Seq(1..MaxCanvas)
      <3>1. accepted \in Seq(1..MaxCanvas)
        OBVIOUS
      <3>2. Append(accepted, canvas.n) \in Seq(1..MaxCanvas)
        BY <2>1, <3>1, AppendProperties
      <3> QED
        BY <2>2, <3>1, <3>2
    <2>3. record_queue' \in Seq(0..MaxCanvas) /\ Len(record_queue') <= RecordMax
      <3>1. CASE recording /\ Room
        <4>1. record_queue' = Append(record_queue, canvas.n)
          BY <1>3, <3>1 DEF Show, Enqueue
        <4> QED
          BY <1>0, <3>1, <4>1, AppendProperties, LenProperties DEF Room
      <3>2. CASE ~(recording /\ Room)
        BY <1>3, <3>2 DEF Show
      <3> QED
        BY <3>1, <3>2
    <2> QED
      BY <1>3, <2>3, <2>4 DEF Show, OnDisplay, At
  <1>4. ASSUME NEW from, NEW to, Put(from, to) PROVE RecTyped'
    <2>1. record_queue' = Append(record_queue, Poison) /\ Len(record_queue) < RecordMax
      BY <1>4 DEF Put, Enqueue, Room
    <2>2. Poison \in 0..MaxCanvas
      BY <1>0 DEF Poison
    <2>3. record_queue' \in Seq(0..MaxCanvas) /\ Len(record_queue') <= RecordMax
      BY <1>0, <2>1, <2>2, AppendProperties, LenProperties
    <2> QED
      BY <1>4, <2>3 DEF Put, OnDisplay, At, recVars
  <1>5. ASSUME NEW from, NEW to, Join(from, to) PROVE RecTyped'
    BY <1>5 DEF Join, OnDisplay, At
  <1>6. CASE KeyV \/ MakeThread \/ StartThread \/ KeyQ
    BY <1>6 DEF KeyV, MakeThread, StartThread, KeyQ, OnDisplay, At, dispVars, recVars
  <1>7. CASE Finally
    BY <1>7 DEF Finally, At
  <1>8. CASE Submit \/ SetEvent \/ SegStop \/ SegSet
    BY <1>8 DEF Submit, SetEvent, SegStop, SegSet, Mailbox, At, dispVars, recVars
  <1>9. CASE Start \/ SegJoin \/ Wait \/ JoinRaises
    BY <1>9 DEF Start, SegJoin, Wait, JoinRaises, Control, At, dispVars, recVars
  <1>10. CASE Calibrate \/ GetAllMasks \/ Stitch
    BY <1>10 DEF Calibrate, GetAllMasks, Stitch, Compute, At, dispVars, recVars
  <1>11. CASE Publish
    BY <1>11 DEF Publish, At, dispVars, recVars
  <1>12. CASE SegmentorSteps
    BY <1>12, WorkerFrame DEF recVars, thrVars
  <1>13. CASE \E c \in Cams : Capture(c)
    BY <1>13 DEF Capture, recVars, thrVars
  <1>14. CASE Interrupt
    BY <1>14 DEF Interrupt, thrVars
  <1>15. CASE Press \/ Publisher
    BY <1>15, PublisherFrame DEF Press, recVars, thrVars
  <1>16. CASE UNCHANGED vars
    BY <1>16 DEF vars, recVars, thrVars
  <1> QED
    BY <1>1, <1>2, <1>3, <1>4, <1>5, <1>6, <1>7, <1>8, <1>9, <1>10, <1>11, <1>12, <1>13, <1>14,
       <1>15, <1>16 DEF Next, MainSteps, LoopSteps, WriterSteps, StopRecording, DisplayStop

(* A pair of sockets that has k messages drained from it. *)
LEMMA RecvFacts ==
    ASSUME NEW S, NEW q \in Seq(S), NEW k \in DOMAIN q
    PROVE  /\ Len(q) \in Nat /\ k \in 1..Len(q) /\ q[k] \in S
           /\ SubSeq(q, k + 1, Len(q)) \in Seq(S)
           /\ Len(SubSeq(q, k + 1, Len(q))) = Len(q) - k
           /\ \A i \in 1..(Len(q) - k) : SubSeq(q, k + 1, Len(q))[i] = q[k + i]
  <1>1. Len(q) \in Nat /\ DOMAIN q = 1..Len(q) /\ \A i \in 1..Len(q) : q[i] \in S
    BY LenProperties, ElementOfSeq
  <1>2. k \in 1..Len(q)
    BY <1>1
  <1>3. \A i \in (k + 1)..Len(q) : q[i] \in S
    BY <1>1, <1>2
  <1>4. k + 1 \in Int /\ Len(q) \in Int
    BY <1>1, <1>2
  <1>5. /\ SubSeq(q, k + 1, Len(q)) \in Seq(S)
        /\ Len(SubSeq(q, k + 1, Len(q))) =
             IF k + 1 <= Len(q) THEN Len(q) - (k + 1) + 1 ELSE 0
        /\ \A i \in 1..(Len(q) - (k + 1) + 1) : SubSeq(q, k + 1, Len(q))[i] = q[(k + 1) + i - 1]
    BY <1>3, <1>4, SubSeqProperties
  <1>6. Len(q) - (k + 1) + 1 = Len(q) - k /\ \A i \in Int : (k + 1) + i - 1 = k + i
    BY <1>1, <1>2
  <1>7. (IF k + 1 <= Len(q) THEN Len(q) - (k + 1) + 1 ELSE 0) = Len(q) - k
    BY <1>1, <1>2
  <1>8. \A i \in 1..(Len(q) - k) : SubSeq(q, k + 1, Len(q))[i] = q[k + i]
    <2> SUFFICES ASSUME NEW i \in 1..(Len(q) - k)
                 PROVE  SubSeq(q, k + 1, Len(q))[i] = q[k + i]
      OBVIOUS
    <2>1. i \in 1..(Len(q) - (k + 1) + 1) /\ (k + 1) + i - 1 = k + i
      BY <1>1, <1>2
    <2>2. SubSeq(q, k + 1, Len(q))[i] = q[(k + 1) + i - 1]
      BY <1>5, <2>1
    <2> QED
      BY <2>1, <2>2
  <1> QED
    BY <1>1, <1>2, <1>5, <1>7, <1>8

(* A pair of sockets that keeps only the k oldest messages. *)
LEMMA CloseFacts ==
    ASSUME NEW S, NEW q \in Seq(S), NEW k \in 0..Len(q)
    PROVE  /\ SubSeq(q, 1, k) \in Seq(S) /\ Len(SubSeq(q, 1, k)) = k
           /\ \A i \in 1..k : SubSeq(q, 1, k)[i] = q[i]
  <1>1. Len(q) \in Nat /\ \A i \in 1..Len(q) : q[i] \in S
    BY LenProperties, ElementOfSeq
  <1>2. 1 \in Int /\ k \in Int /\ \A i \in 1..k : q[i] \in S
    BY <1>1
  <1>3. /\ SubSeq(q, 1, k) \in Seq(S)
        /\ Len(SubSeq(q, 1, k)) = IF 1 <= k THEN k - 1 + 1 ELSE 0
        /\ \A i \in 1..(k - 1 + 1) : SubSeq(q, 1, k)[i] = q[1 + i - 1]
    BY <1>2, SubSeqProperties
  <1>4. /\ k - 1 + 1 = k /\ (IF 1 <= k THEN k - 1 + 1 ELSE 0) = k
        /\ \A i \in Int : 1 + i - 1 = i
    BY <1>1
  <1> QED
    BY <1>3, <1>4

(* The types of the sockets. *)
LEMMA ZmqStep == Typed /\ [Next]_vars => ZmqTyped'
  <1> SUFFICES ASSUME Typed, [Next]_vars PROVE ZmqTyped'
    OBVIOUS
  <1> USE DEF Typed, ZmqTyped
  <1>1. CASE Publish
    <2>1. [n |-> canvas.n, masks |-> floor_masks] \in Canvases
      BY DEF LoopTyped, Canvases
    <2>2. HWM \in Nat /\ Len(pipe) \in Nat
      BY VideoAssumption, LenProperties
    <2>3. CASE listening /\ Len(pipe) < HWM
      <3>1. pipe' = Append(pipe, [n |-> canvas.n, masks |-> floor_masks])
        BY <1>1, <2>3 DEF Publish, Send
      <3> QED
        BY <1>1, <2>1, <2>2, <2>3, <3>1, AppendProperties DEF Publish
    <2>4. CASE ~(listening /\ Len(pipe) < HWM)
      BY <1>1, <2>4 DEF Publish, Send
    <2> QED
      BY <2>3, <2>4
  <1>2. ASSUME NEW k \in DOMAIN pipe, Tick(k) PROVE ZmqTyped'
    <2>1. /\ Len(pipe) \in Nat /\ k \in 1..Len(pipe) /\ pipe[k] \in Canvases
          /\ pipe' \in Seq(Canvases) /\ Len(pipe') = Len(pipe) - k
      BY <1>2, RecvFacts DEF Tick, Recv
    <2> QED
      BY <1>2, <2>1, VideoAssumption DEF Tick
  <1>7. CASE Finally
    <2>1. PICK sent \in 0..Len(pipe) : pipe' = SubSeq(pipe, 1, sent)
      BY <1>7 DEF Finally, CloseSender
    <2>2. Len(pipe) \in Nat /\ pipe' \in Seq(Canvases) /\ Len(pipe') = sent
      BY <2>1, CloseFacts, LenProperties
    <2> QED
      BY <1>7, <2>2, VideoAssumption DEF Finally
  <1>8. CASE PublisherStarts \/ PublisherEnds
    <2>1. Len(<<>>) = 0 /\ <<>> \in Seq(Canvases) /\ 0 <= HWM
      BY VideoAssumption
    <2> QED
      BY <1>8, <2>1 DEF PublisherStarts, PublisherEnds, Connect, Disconnect
  <1>3. CASE MainSteps /\ ~Publish /\ ~Finally
    BY <1>3 DEF MainSteps, LoopSteps, Start, Wait, Calibrate, Submit, SetEvent, GetAllMasks, Stitch,
         Show, KeyV, MakeThread, StartThread, StopRecording, Put, Join, JoinRaises, KeyQ, DisplayStop, SegStop, SegSet, SegJoin,
         Control, Compute, Mailbox, OnDisplay, At, zmqVars
  <1>4. CASE SegmentorSteps \/ WriterSteps
    BY <1>4, WorkerFrame, WriterFrame DEF zmqVars
  <1>5. CASE (\E c \in Cams : Capture(c)) \/ Interrupt \/ Press \/ TickNothing
    BY <1>5 DEF Capture, Interrupt, Press, TickNothing, vars, zmqVars
  <1>6. CASE UNCHANGED vars
    BY <1>6 DEF vars, zmqVars
  <1> QED
    BY <1>1, <1>2, <1>3, <1>4, <1>5, <1>6, <1>7, <1>8 DEF Next, Publisher

(* At the start there is no frame, no batch and no canvas. *)
LEMMA TypedInit == Init => Typed
  <1> SUFFICES ASSUME Init PROVE Typed
    OBVIOUS
  <1>1. Blank \in Canvases /\ Blank.masks \in Masks
    BY VideoAssumption DEF Blank, Canvases, Masks, Frames
  <1>2. LoopTyped
    <2>1. running \in BOOLEAN /\ calibrated \in BOOLEAN
      BY DEF Init
    <2>2. frames \in [Cams -> Frames] /\ pc = "start" /\ key = None
      BY VideoAssumption DEF Init, Frames
    <2>3. canvas \in Canvases /\ floor_masks \in Masks
      BY <1>1 DEF Init
    <2> QED
      BY <2>1, <2>2, <2>3 DEF LoopTyped, Stitching, Stitched
  <1>3. SegTyped
    BY <1>1, CameraFacts DEF Init, SegTyped
  <1>4. <<>> \in Seq(0..MaxCanvas) /\ <<>> \in Seq(1..MaxCanvas) /\ <<>> \in Seq(Canvases)
    OBVIOUS
  <1>5. RecTyped
    <2>1. /\ recording \in BOOLEAN /\ cut \in BOOLEAN
          /\ writer \in {None, "open", "released"} /\ thread \in {None, "new", "get", "write", "dead"}
          /\ thread # "write"
      BY DEF Init, None
    <2>2. hand \in 0..MaxCanvas
      BY VideoAssumption DEF Init
    <2>3. Len(record_queue) <= RecordMax
      BY VideoAssumption DEF Init
    <2> QED
      BY <1>4, <2>1, <2>2, <2>3 DEF Init, RecTyped
  <1>6. ZmqTyped
    <2>1. listening \in BOOLEAN
      BY DEF Init
    <2> QED
      BY <1>1, <1>4, <2>1, VideoAssumption DEF Init, ZmqTyped
  <1> QED
    BY <1>2, <1>3, <1>5, <1>6 DEF Typed

LEMMA TypedStep == Typed /\ [Next]_vars => Typed'
  BY LoopStep, SegStep, RecStep, ZmqStep DEF Typed

(* Type correctness, for every set of cameras and length of the queues. *)
THEOREM VideoTypes == Spec => []TypeOK
  <1>1. Typed => TypeOK
    BY DEF Typed, TypeOK, LoopTyped, SegTyped, RecTyped, ZmqTyped
  <1> QED
    BY <1>1, TypedInit, TypedStep, PTL DEF Spec

-----------------------------------------------------------------------------
(* A message of a canvas that was stitched; while the newest canvas is not *)
(* yet sent, of an older one.                                              *)
SentBefore(m) ==
    /\ m.n <= canvas.n
    /\ pc \in Stitched => m.n < canvas.n
    /\ m.n = canvas.n => m.masks = canvas.masks

(* The messages in the socket are in order and newer than the topics. *)
InOrder ==
    /\ SentBefore(published)
    /\ \A i \in 1..Len(pipe) : SentBefore(pipe[i]) /\ published.n < pipe[i].n
    /\ \A i, j \in 1..Len(pipe) : i < j => pipe[i].n < pipe[j].n

(* What is sent has a number. *)
LEMMA NumberFacts ==
    Typed => /\ canvas.n \in Nat /\ published.n \in Nat /\ Len(pipe) \in Nat
             /\ \A i \in 1..Len(pipe) : pipe[i].n \in Nat
  <1> SUFFICES ASSUME Typed
               PROVE  /\ canvas.n \in Nat /\ published.n \in Nat /\ Len(pipe) \in Nat
                      /\ \A i \in 1..Len(pipe) : pipe[i].n \in Nat
    OBVIOUS
  <1>1. \A m \in Canvases : m.n \in Nat
    BY VideoAssumption DEF Canvases
  <1>2. Len(pipe) \in Nat /\ \A i \in 1..Len(pipe) : pipe[i] \in Canvases
    BY LenProperties, ElementOfSeq DEF Typed, ZmqTyped
  <1> QED
    BY <1>1, <1>2 DEF Typed, LoopTyped, ZmqTyped

(* The next canvas is newer than all that was sent. *)
LEMMA StitchOrder == Typed /\ InOrder /\ Stitch => InOrder'
  <1> SUFFICES ASSUME Typed, InOrder, Stitch PROVE InOrder'
    OBVIOUS
  <1>1. canvas'.n = canvas.n + 1 /\ UNCHANGED <<pipe, published>>
    BY DEF Stitch, Compute, At, zmqVars
  <1>2. \A m : m.n \in Nat /\ SentBefore(m) =>
            m.n <= canvas'.n /\ m.n < canvas'.n /\ m.n # canvas'.n
    BY <1>1, NumberFacts DEF SentBefore
  <1>3. SentBefore(published)'
    BY <1>1, <1>2, NumberFacts DEF SentBefore, InOrder
  <1>4. ASSUME NEW i \in 1..Len(pipe) PROVE SentBefore(pipe[i])'
    BY <1>1, <1>2, NumberFacts DEF SentBefore, InOrder
  <1> QED
    BY <1>1, <1>3, <1>4 DEF InOrder

(* The canvas of the moment is the newest in the socket, with its masks. *)
LEMMA PublishOrder == Typed /\ InOrder /\ Publish => InOrder'
  <1> SUFFICES ASSUME Typed, InOrder, Publish PROVE InOrder'
    OBVIOUS
  <1> DEFINE m == [n |-> canvas.n, masks |-> floor_masks]
  <1>1. /\ pc = "publish" /\ pc' = "keyq" /\ UNCHANGED <<canvas, published>>
        /\ canvas.masks = floor_masks
    BY DEF Publish, At, loopVars, Typed, LoopTyped, Stitched
  <1>2. /\ \A x : SentBefore(x) => x.n < canvas.n
        /\ \A x : x.n = canvas.n /\ x.masks = floor_masks => SentBefore(x)'
        /\ \A x : x.n \in Nat /\ x.n < canvas.n =>
              /\ x.n <= canvas'.n /\ (pc' \in Stitched => x.n < canvas'.n)
              /\ (x.n = canvas'.n => x.masks = canvas'.masks)
    BY <1>1, NumberFacts DEF SentBefore, Stitched
  <1>3. SentBefore(published)' /\ published.n < canvas.n
    BY <1>1, <1>2, NumberFacts DEF InOrder, SentBefore
  <1>4. CASE pipe' = pipe
    <2>1. ASSUME NEW i \in 1..Len(pipe) PROVE SentBefore(pipe[i])'
      BY <1>2, <1>4, NumberFacts DEF InOrder, SentBefore
    <2> QED
      BY <1>1, <1>3, <1>4, <2>1 DEF InOrder
  <1>5. CASE pipe' = Append(pipe, m)
    <2>1. m \in Canvases /\ pipe \in Seq(Canvases) /\ m.n = canvas.n /\ m.masks = floor_masks
      BY DEF Typed, LoopTyped, ZmqTyped, Canvases
    <2> HIDE DEF m
    <2>2. /\ Len(pipe') = Len(pipe) + 1 /\ pipe'[Len(pipe) + 1] = m
          /\ \A i \in 1..Len(pipe) : pipe'[i] = pipe[i]
      BY <1>5, <2>1, AppendProperties
    <2>3. ASSUME NEW i \in 1..Len(pipe')
          PROVE  SentBefore(pipe[i])' /\ published'.n < pipe'[i].n
      <3>1. CASE i \in 1..Len(pipe)
        BY <1>1, <1>2, <2>2, <3>1, NumberFacts DEF InOrder, SentBefore
      <3>2. CASE i = Len(pipe) + 1
        <4>1. pipe'[i].n = canvas.n /\ pipe'[i].masks = floor_masks
          BY <2>1, <2>2, <3>2
        <4> QED
          BY <1>1, <1>3, <4>1, NumberFacts DEF SentBefore, Stitched
      <3> QED
        BY <2>2, <3>1, <3>2, NumberFacts
    <2>4. ASSUME NEW i \in 1..Len(pipe'), NEW j \in 1..Len(pipe'), i < j
          PROVE  pipe'[i].n < pipe'[j].n
      <3>1. i \in 1..Len(pipe) /\ pipe'[i] = pipe[i] /\ pipe[i].n < canvas.n
        BY <1>2, <2>2, <2>4, NumberFacts DEF InOrder
      <3>2. CASE j \in 1..Len(pipe)
        BY <2>2, <2>4, <3>1, <3>2 DEF InOrder
      <3>3. CASE j = Len(pipe) + 1
        BY <2>1, <2>2, <3>1, <3>3
      <3> QED
        BY <2>2, <3>2, <3>3, NumberFacts
    <2> QED
      BY <1>3, <2>3, <2>4 DEF InOrder
  <1> QED
    BY <1>4, <1>5 DEF Publish, Send

(* The publisher takes the newest of what it drains. *)
LEMMA TickOrder ==
    ASSUME Typed, InOrder, NEW k \in DOMAIN pipe, Tick(k)
    PROVE  InOrder' /\ published'.n > published.n
  <1>1. UNCHANGED <<pc, canvas>> /\ published' = pipe[k]
    BY DEF Tick, OnTopics, mainVars, loopVars
  <1>2. /\ k \in 1..Len(pipe) /\ Len(pipe) \in Nat /\ Len(pipe') = Len(pipe) - k
        /\ \A i \in 1..Len(pipe') : pipe'[i] = pipe[k + i] /\ k + i \in 1..Len(pipe) /\ k < k + i
    <2>1. pipe \in Seq(Canvases) /\ pipe' = SubSeq(pipe, k + 1, Len(pipe))
      BY DEF Typed, ZmqTyped, Tick, Recv
    <2>2. /\ k \in 1..Len(pipe) /\ Len(pipe) \in Nat /\ Len(pipe') = Len(pipe) - k
          /\ \A i \in 1..(Len(pipe) - k) : pipe'[i] = pipe[k + i]
      BY <2>1, RecvFacts
    <2>3. \A i \in 1..(Len(pipe) - k) : k + i \in 1..Len(pipe) /\ k < k + i
      BY <2>2
    <2> QED
      BY <2>2, <2>3
  <1>3. SentBefore(published)' /\ published'.n > published.n
    BY <1>1, <1>2, NumberFacts DEF InOrder, SentBefore
  <1>4. ASSUME NEW i \in 1..Len(pipe')
        PROVE  SentBefore(pipe[i])' /\ published'.n < pipe'[i].n
    BY <1>1, <1>2, NumberFacts DEF InOrder, SentBefore
  <1>5. ASSUME NEW i \in 1..Len(pipe'), NEW j \in 1..Len(pipe'), i < j
        PROVE  pipe'[i].n < pipe'[j].n
    <2>1. k + i < k + j
      BY <1>2, <1>5
    <2> QED
      BY <1>2, <1>5, <2>1 DEF InOrder
  <1> QED
    BY <1>3, <1>4, <1>5 DEF InOrder

(* No other step touches a canvas or the topics, puts anything in the      *)
(* sockets, or goes to a stage at which the canvas is not yet sent.        *)
LEMMA OtherOrder ==
    ASSUME Typed, InOrder, UNCHANGED <<canvas, published>>,
           Len(pipe') \in 0..Len(pipe), \A i \in 1..Len(pipe') : pipe'[i] = pipe[i],
           pc' \in Stitched => pc \in Stitched
    PROVE  InOrder'
  <1>1. \A m : SentBefore(m) =>
            /\ m.n <= canvas'.n /\ (pc' \in Stitched => m.n < canvas'.n)
            /\ (m.n = canvas'.n => m.masks = canvas'.masks)
    BY DEF SentBefore
  <1>2. SentBefore(published)'
    BY <1>1 DEF InOrder, SentBefore
  <1>3. \A i \in 1..Len(pipe') : i \in 1..Len(pipe)
    BY NumberFacts
  <1>4. ASSUME NEW i \in 1..Len(pipe') PROVE SentBefore(pipe[i])' /\ published'.n < pipe'[i].n
    BY <1>1, <1>3 DEF InOrder, SentBefore
  <1>5. \A i, j \in 1..Len(pipe') : i < j => pipe'[i].n < pipe'[j].n
    BY <1>3 DEF InOrder
  <1> QED
    BY <1>2, <1>4, <1>5 DEF InOrder

(* The sockets are left alone by most steps. *)
LEMMA SamePipeOrder ==
    ASSUME Typed, InOrder, UNCHANGED <<canvas, pipe, published>>,
           pc' \in Stitched => pc \in Stitched
    PROVE  InOrder'
  <1>1. Len(pipe') \in 0..Len(pipe)
    BY NumberFacts
  <1> QED
    BY <1>1, OtherOrder

(* A closing end of the sockets loses messages, and reorders none. *)
LEMMA CloseOrder == Typed /\ InOrder /\ (Finally \/ PublisherEnds) => InOrder'
  <1> SUFFICES ASSUME Typed, InOrder, Finally \/ PublisherEnds PROVE InOrder'
    OBVIOUS
  <1>1. CASE Finally
    <2>1. PICK sent \in 0..Len(pipe) : pipe' = SubSeq(pipe, 1, sent)
      BY <1>1 DEF Finally, CloseSender
    <2>2. Len(pipe') = sent /\ \A i \in 1..sent : pipe'[i] = pipe[i]
      BY <2>1, CloseFacts DEF Typed, ZmqTyped
    <2> QED
      BY <1>1, <2>1, <2>2, OtherOrder DEF Finally, At, Stitched
  <1>2. CASE PublisherEnds
    <2>1. Len(pipe') = 0 /\ 0 \in 0..Len(pipe)
      BY <1>2, NumberFacts DEF PublisherEnds, Disconnect
    <2> QED
      BY <1>2, <2>1, OtherOrder DEF PublisherEnds, Disconnect, OnTopics, mainVars, loopVars
  <1> QED
    BY <1>1, <1>2

(* Every step keeps the order, and brings nothing older to the topics. *)
LEMMA OrderStep ==
    Typed /\ InOrder /\ [Next]_vars =>
        InOrder' /\ (published' # published => published'.n > published.n)
  <1> SUFFICES ASSUME Typed, InOrder, [Next]_vars
               PROVE  InOrder' /\ (published' # published => published'.n > published.n)
    OBVIOUS
  <1>1. CASE Stitch
    BY <1>1, StitchOrder DEF Stitch, Compute, At, zmqVars
  <1>2. CASE Publish
    BY <1>2, PublishOrder DEF Publish
  <1>3. ASSUME NEW k \in DOMAIN pipe, Tick(k)
        PROVE  InOrder' /\ published'.n > published.n
    BY <1>3, TickOrder
  <1>4. CASE Start \/ Wait \/ SegJoin \/ Calibrate \/ GetAllMasks
    BY <1>4, SamePipeOrder DEF Start, Wait, SegJoin, Calibrate, GetAllMasks, Control, Compute, At, loopVars,
       zmqVars, Stitched
  <1>5. CASE Submit \/ SetEvent \/ SegStop \/ SegSet
    BY <1>5, SamePipeOrder DEF Submit, SetEvent, SegStop, SegSet, Mailbox, At, loopVars, zmqVars, Stitched
  <1>6. CASE Show \/ KeyV \/ MakeThread \/ StartThread \/ KeyQ \/ StopRecording \/ DisplayStop
    BY <1>6, SamePipeOrder DEF Show, KeyV, MakeThread, StartThread, KeyQ, StopRecording, DisplayStop, Put, Join,
       JoinRaises, Control, OnDisplay, At, loopVars, zmqVars, Stitched
  <1>7. CASE Interrupt
    BY <1>7, SamePipeOrder DEF Interrupt, loopVars, zmqVars, Stitched
  <1>11. CASE Finally
    BY <1>11, CloseOrder DEF Finally
  <1>12. CASE PublisherEnds
    BY <1>12, CloseOrder DEF PublisherEnds
  <1>13. CASE PublisherStarts
    BY <1>13, SamePipeOrder DEF PublisherStarts, Connect, OnTopics, mainVars, loopVars
  <1>8. CASE SegmentorSteps \/ WriterSteps
    BY <1>8, WorkerFrame, WriterFrame, SamePipeOrder DEF mainVars, loopVars, zmqVars
  <1>9. CASE (\E c \in Cams : Capture(c)) \/ Press
    BY <1>9, SamePipeOrder DEF Capture, Press, mainVars, loopVars, zmqVars
  <1>10. CASE TickNothing \/ UNCHANGED vars
    BY <1>10, SamePipeOrder DEF TickNothing, vars, mainVars, loopVars, zmqVars
  <1> QED
    BY <1>1, <1>2, <1>3, <1>4, <1>5, <1>6, <1>7, <1>8, <1>9, <1>10, <1>11, <1>12, <1>13
       DEF Next, MainSteps, LoopSteps, Publisher

(* What is published is one canvas with its own masks, in the order in     *)
(* which they were stitched, however much the sockets drop.                *)
THEOREM PublishedAlwaysWhole == Spec => PublishedWhole
  <1>1. Init => Typed /\ InOrder
    <2>1. ASSUME Init PROVE InOrder
      <3>1. Blank.n = 0 /\ Stitched \cap {"start"} = {} /\ Len(<<>>) = 0
        BY DEF Blank, Stitched
      <3>2. pc = "start" /\ canvas = Blank /\ published = Blank /\ pipe = <<>>
        BY <2>1 DEF Init
      <3> QED
        BY <3>1, <3>2 DEF InOrder, SentBefore
    <2> QED
      BY <2>1, TypedInit
  <1>2. Typed /\ InOrder /\ [Next]_vars => (Typed /\ InOrder)'
    BY TypedStep, OrderStep
  <1>3. Typed /\ InOrder => MasksBelongToCanvas
    <2> SUFFICES ASSUME Typed, InOrder PROVE MasksBelongToCanvas
      OBVIOUS
    <2>1. DOMAIN pipe = 1..Len(pipe)
      BY LenProperties DEF Typed, ZmqTyped
    <2> QED
      BY <2>1 DEF InOrder, SentBefore, MasksBelongToCanvas
  <1>4. Typed /\ InOrder /\ [Next]_vars =>
            [published' # published => published'.n > published.n]_vars
    BY OrderStep
  <1> QED
    BY <1>1, <1>2, <1>3, <1>4, PTL DEF Spec, PublishedWhole

-----------------------------------------------------------------------------
(* The writer is at work on a recording. *)
Writing == thread \in {"get", "write"}

(* A frame is in its hand; what ends the recording is in the queue.        *)
InHand == IF thread = "write" THEN 1 ELSE 0
Ending == IF Writing /\ pc \in {"join", "fjoin"} THEN 1 ELSE 0

(* What the queue accepted is what is written, then what is in the         *)
(* writer's hand, then what is in the queue but for what ends it. A writer *)
(* is at work only while its recording lasts or is being ended.            *)
Recorded ==
    /\ Len(accepted) + Ending = Len(written) + InHand + Len(record_queue)
    /\ \A i \in 1..Len(written) : written[i] = accepted[i]
    /\ thread = "write" => hand = accepted[Len(written) + 1]
    /\ \A i \in 1..Len(record_queue) :
          record_queue[i] = IF Len(written) + InHand + i <= Len(accepted)
                            THEN accepted[Len(written) + InHand + i] ELSE Poison
    /\ Writing => writer = "open"
    /\ Writing /\ pc \notin {"join", "fjoin", "put", "fput"} => recording
    /\ pc \in {"put", "fput"} => Writing
    /\ pc \in {"put", "fput", "join", "fjoin"} => ~recording
    /\ ~Writing => ~recording /\ record_queue = <<>>
    /\ pc \notin {"thread", "launch"}

(* A recording that is being started, or whose start was interrupted: it   *)
(* has no writer at work, and nothing was accepted that is not written.    *)
NotStarted ==
    /\ pc \in {"thread", "launch"} \cup Stopping \cup {"crashed"} /\ ~Writing
    /\ Len(accepted) = Len(written) /\ \A i \in 1..Len(written) : written[i] = accepted[i]
    /\ pc \in {"thread", "launch"} => recording /\ writer = "open" /\ record_queue = <<>>

(* The lengths are numbers, and what is accepted does not end a recording. *)
LEMMA RecordFacts ==
    Typed => /\ Len(accepted) \in Nat /\ Len(written) \in Nat /\ Len(record_queue) \in Nat
             /\ \A i \in 1..Len(accepted) : accepted[i] # Poison
             /\ (record_queue = <<>> <=> Len(record_queue) = 0)
  <1> SUFFICES ASSUME Typed
               PROVE  /\ Len(accepted) \in Nat /\ Len(written) \in Nat /\ Len(record_queue) \in Nat
                      /\ \A i \in 1..Len(accepted) : accepted[i] # Poison
                      /\ (record_queue = <<>> <=> Len(record_queue) = 0)
    OBVIOUS
  <1>1. /\ accepted \in Seq(1..MaxCanvas) /\ written \in Seq(1..MaxCanvas)
        /\ record_queue \in Seq(0..MaxCanvas)
    BY DEF Typed, RecTyped
  <1>2. \A i \in 1..Len(accepted) : accepted[i] \in 1..MaxCanvas
    BY <1>1, ElementOfSeq
  <1>3. 0 \notin 1..MaxCanvas
    OBVIOUS
  <1> QED
    BY <1>1, <1>2, <1>3, LenProperties, EmptySeq DEF Poison

(* The writer takes the first entry; if it ends the recording, there is    *)
(* nothing behind it.                                                      *)
LEMMA GetRecorded == Typed /\ Recorded /\ GetFrame => Recorded'
  <1> SUFFICES ASSUME Typed, Recorded, GetFrame PROVE Recorded'
    OBVIOUS
  <1> USE DEF Writing, InHand, Ending
  <1>1. /\ thread = "get" /\ record_queue # <<>> /\ record_queue' = Tail(record_queue)
        /\ hand' = record_queue[1] /\ thread' = (IF hand' = Poison THEN "dead" ELSE "write")
        /\ UNCHANGED <<pc, recording, writer, accepted, written>>
    BY DEF GetFrame, mainVars, recVars
  <1>2. /\ Len(record_queue) >= 1 /\ Len(record_queue') = Len(record_queue) - 1
        /\ \A i \in 1..Len(record_queue') : record_queue'[i] = record_queue[i + 1]
        /\ record_queue' \in Seq(0..MaxCanvas)
    <2>1. record_queue \in Seq(0..MaxCanvas)
      BY DEF Typed, RecTyped
    <2>2. /\ Tail(record_queue) \in Seq(0..MaxCanvas)
          /\ Len(Tail(record_queue)) = Len(record_queue) - 1
          /\ \A i \in 1..Len(Tail(record_queue)) : Tail(record_queue)[i] = record_queue[i + 1]
      BY <1>1, <2>1, HeadTailProperties
    <2> QED
      BY <1>1, <2>2, RecordFacts
  <1>3. \A i \in 1..Len(record_queue') : i + 1 \in 1..Len(record_queue)
    BY <1>2, RecordFacts
  <1>4. record_queue[1] = IF Len(written) + 1 <= Len(accepted) THEN accepted[Len(written) + 1]
                                                               ELSE Poison
    BY <1>1, <1>2, RecordFacts DEF Recorded
  <1>5. CASE hand' = Poison
    <2>1. Len(written) + 1 > Len(accepted)
      BY <1>1, <1>4, <1>5, RecordFacts
    <2>2. Len(record_queue) = 1 /\ Len(accepted) = Len(written) /\ pc \in {"join", "fjoin"}
      BY <1>1, <1>2, <2>1, RecordFacts DEF Recorded
    <2>3. Len(record_queue') = 0 /\ record_queue' = <<>>
      BY <1>2, <2>2, EmptySeq
    <2>4. thread' = "dead" /\ ~Writing' /\ InHand' = 0 /\ Ending' = 0
      BY <1>1, <1>5
    <2>5. ~recording' /\ pc' \notin {"put", "fput", "thread", "launch"} /\ pc' \in {"join", "fjoin"}
      BY <1>1, <2>2 DEF Recorded
    <2>6. Len(accepted') + Ending' = Len(written') + InHand' + Len(record_queue')
      <3>1. Len(accepted') = Len(accepted) /\ Len(written') = Len(written)
        BY <1>1
      <3> HIDE DEF Writing, InHand, Ending
      <3> QED
        BY <2>2, <2>3, <2>4, <3>1, RecordFacts
    <2>7. \A i \in 1..Len(written') : written'[i] = accepted'[i]
      BY <1>1 DEF Recorded
    <2>8. 1..Len(record_queue') = {}
      BY <2>3
    <2> HIDE DEF Writing, InHand, Ending
    <2> QED
      BY <2>3, <2>4, <2>5, <2>6, <2>7, <2>8 DEF Recorded
  <1>6. CASE hand' # Poison
    <2>1. hand' = accepted[Len(written) + 1] /\ thread' = "write"
      <3>1. thread' = "write"
        BY <1>1, <1>6
      <3>2. CASE Len(written) + 1 <= Len(accepted)
        BY <1>1, <1>4, <3>1, <3>2
      <3>3. CASE ~(Len(written) + 1 <= Len(accepted))
        BY <1>1, <1>4, <1>6, <3>3
      <3> QED
        BY <3>2, <3>3
    <2>2. Len(accepted) + Ending' = Len(written') + InHand' + Len(record_queue')
      <3>1. Ending' = Ending /\ Ending \in {0, 1} /\ InHand' = 1 /\ InHand = 0
        BY <1>1, <2>1
      <3>2. Len(written') = Len(written)
        BY <1>1
      <3>3. Len(accepted) + Ending = Len(written) + InHand + Len(record_queue)
        BY DEF Recorded
      <3> HIDE DEF Writing, InHand, Ending
      <3> QED
        BY <1>2, <3>1, <3>2, <3>3, RecordFacts
    <2>3. ASSUME NEW i \in 1..Len(record_queue')
          PROVE  record_queue'[i] = IF Len(written) + 1 + i <= Len(accepted)
                                    THEN accepted[Len(written) + 1 + i] ELSE Poison
      <3>1. Len(written) + 0 + (i + 1) = Len(written) + 1 + i /\ i + 1 \in 1..Len(record_queue)
        BY <1>3, RecordFacts
      <3> QED
        BY <1>1, <1>2, <3>1 DEF Recorded
    <2>4. Writing' /\ InHand' = 1 /\ writer' = "open"
      BY <1>1, <2>1 DEF Recorded
    <2>5. /\ pc' \notin {"join", "fjoin", "put", "fput"} => recording'
          /\ pc' \in {"put", "fput", "join", "fjoin"} => ~recording'
          /\ pc' \notin {"thread", "launch"}
      BY <1>1 DEF Recorded
    <2>6. \A i \in 1..Len(written') : written'[i] = accepted'[i]
      BY <1>1 DEF Recorded
    <2>7. UNCHANGED <<accepted, written>>
      BY <1>1
    <2> HIDE DEF Writing, InHand, Ending
    <2> QED
      BY <2>1, <2>2, <2>3, <2>4, <2>5, <2>6, <2>7 DEF Recorded
  <1> QED
    BY <1>5, <1>6

(* What is in the hand is the next of what was accepted. *)
LEMMA WriteRecorded == Typed /\ Recorded /\ WriteFrame => Recorded'
  <1> SUFFICES ASSUME Typed, Recorded, WriteFrame PROVE Recorded'
    OBVIOUS
  <1> USE DEF Writing, InHand, Ending
  <1>1. /\ thread = "write" /\ thread' = "get" /\ writer = "open"
        /\ hand = accepted[Len(written) + 1] /\ written' = Append(written, hand)
        /\ UNCHANGED <<pc, recording, writer, accepted, record_queue>>
    BY DEF WriteFrame, Recorded, mainVars, recVars
  <1>2. /\ Len(written') = Len(written) + 1 /\ written'[Len(written) + 1] = hand
        /\ \A i \in 1..Len(written) : written'[i] = written[i]
    <2>1. written \in Seq(1..MaxCanvas) /\ hand \in 1..MaxCanvas
      BY <1>1, VideoAssumption DEF Typed, RecTyped, Poison
    <2> QED
      BY <1>1, <2>1, AppendProperties
  <1>3. \A i \in 1..Len(written') : written'[i] = accepted[i]
    BY <1>1, <1>2, RecordFacts DEF Recorded
  <1>4. Len(written) + 1 = Len(written') + 0 /\ Len(written) \in Nat
    BY <1>2, RecordFacts
  <1> QED
    BY <1>1, <1>3, <1>4 DEF Recorded

(* A frame goes into the queue, or nowhere. *)
LEMMA ShowRecorded == Typed /\ Recorded /\ Show => Recorded'
  <1> SUFFICES ASSUME Typed, Recorded, Show PROVE Recorded'
    OBVIOUS
  <1> USE DEF Writing, InHand, Ending
  <1>1. pc = "show" /\ pc' = "keyv" /\ UNCHANGED <<hand, written, recording, writer, thread>>
    BY DEF Show, OnDisplay, At
  <1>2. CASE recording /\ Room
    <2>1. accepted' = Append(accepted, canvas.n) /\ record_queue' = Append(record_queue, canvas.n)
      BY <1>2 DEF Show, Enqueue
    <2>2. /\ accepted \in Seq(1..MaxCanvas) /\ record_queue \in Seq(0..MaxCanvas)
          /\ canvas.n \in 1..MaxCanvas
      BY <1>1, VideoAssumption DEF Typed, RecTyped, LoopTyped, Canvases, Stitched
    <2>3. /\ Len(accepted') = Len(accepted) + 1 /\ accepted'[Len(accepted) + 1] = canvas.n
          /\ \A i \in 1..Len(accepted) : accepted'[i] = accepted[i]
      BY <2>1, <2>2, AppendProperties
    <2>4. /\ Len(record_queue') = Len(record_queue) + 1
          /\ record_queue'[Len(record_queue) + 1] = canvas.n
          /\ \A i \in 1..Len(record_queue) : record_queue'[i] = record_queue[i]
      <3>1. canvas.n \in 0..MaxCanvas
        BY <2>2
      <3> QED
        BY <2>1, <2>2, <3>1, AppendProperties
    <2>5. Writing /\ Ending = 0 /\ Ending' = 0 /\ InHand' = InHand /\ InHand \in Nat
      BY <1>1, <1>2 DEF Recorded
    <2>6. Len(accepted) = Len(written) + InHand + Len(record_queue)
      BY <2>5, RecordFacts DEF Recorded
    <2>7. Len(accepted') + Ending' = Len(written') + InHand' + Len(record_queue')
      <3>1. Len(written') = Len(written)
        BY <1>1
      <3> HIDE DEF Writing, InHand, Ending
      <3> QED
        BY <2>3, <2>4, <2>5, <2>6, <3>1, RecordFacts
    <2>8. ASSUME NEW i \in 1..Len(written') PROVE written'[i] = accepted'[i]
      <3>1. written' = written /\ i \in 1..Len(written)
        BY <1>1
      <3>2. i \in 1..Len(accepted)
        BY <2>5, <2>6, <3>1, RecordFacts
      <3>3. written[i] = accepted[i]
        BY <3>1 DEF Recorded
      <3> QED
        BY <2>3, <3>1, <3>2, <3>3
    <2>9. thread' = "write" => hand' = accepted'[Len(written') + 1]
      <3>1. UNCHANGED <<thread, hand, written>>
        BY <1>1
      <3>2. ASSUME thread = "write" PROVE hand = accepted'[Len(written) + 1]
        <4>1. hand = accepted[Len(written) + 1]
          BY <3>2 DEF Recorded
        <4>2. InHand = 1 /\ Len(written) + 1 \in 1..Len(accepted)
          BY <2>6, <3>2, RecordFacts
        <4> QED
          BY <2>3, <4>1, <4>2
      <3> QED
        BY <3>1, <3>2
    <2>10. ASSUME NEW i \in 1..Len(record_queue')
           PROVE  record_queue'[i] = IF Len(written') + InHand' + i <= Len(accepted')
                                     THEN accepted'[Len(written') + InHand' + i] ELSE Poison
      <3>1. Len(written') + InHand' + i <= Len(accepted')
        BY <1>1, <2>3, <2>4, <2>5, <2>6, RecordFacts
      <3>2. CASE i = Len(record_queue) + 1
        <4>1. Len(written') + InHand' + i = Len(accepted) + 1
          <5>1. Len(written') = Len(written)
            BY <1>1
          <5> HIDE DEF Writing, InHand, Ending
          <5> QED
            BY <2>5, <2>6, <3>2, <5>1, RecordFacts
        <4>2. record_queue'[i] = canvas.n
          BY <2>4, <3>2
        <4>3. accepted'[Len(written') + InHand' + i] = canvas.n
          BY <2>3, <4>1
        <4> HIDE DEF Writing, InHand, Ending
        <4> QED
          BY <3>1, <4>2, <4>3
      <3>3. CASE i \in 1..Len(record_queue)
        <4> DEFINE k == Len(written) + InHand + i
        <4>1. k \in 1..Len(accepted) /\ k = Len(written') + InHand' + i
          BY <1>1, <2>5, <2>6, <3>3, RecordFacts
        <4> HIDE DEF k
        <4>2. record_queue[i] = IF k <= Len(accepted) THEN accepted[k] ELSE Poison
          BY <3>3 DEF Recorded, k
        <4>3. k <= Len(accepted)
          BY <4>1
        <4>4. record_queue'[i] = record_queue[i] /\ accepted'[k] = accepted[k]
          BY <2>3, <2>4, <3>3, <4>1
        <4>5. record_queue'[i] = accepted'[k]
          BY <4>2, <4>3, <4>4
        <4> QED
          BY <3>1, <4>1, <4>5
      <3> QED
        BY <2>4, <3>2, <3>3, RecordFacts
    <2> QED
      BY <1>1, <2>5, <2>7, <2>8, <2>9, <2>10 DEF Recorded
  <1>3. CASE ~(recording /\ Room)
    <2>1. UNCHANGED <<record_queue, accepted>>
      BY <1>3 DEF Show
    <2> QED
      BY <1>1, <2>1 DEF Recorded
  <1> QED
    BY <1>2, <1>3

(* What leaves the recorder alone, and its stages. *)
Ends == {"put", "fput", "join", "fjoin", "thread", "launch"}

LEMMA OtherRecorded ==
    ASSUME Recorded, UNCHANGED <<recording, writer, accepted, record_queue, thread, hand, written>>,
           pc' = pc \/ (pc \notin Ends /\ pc' \notin Ends)
    PROVE  Recorded'
  BY DEF Recorded, Writing, InHand, Ending, Ends

(* What ends a recording goes behind all that was accepted. *)
LEMMA PutRecorded ==
    ASSUME Typed, Recorded, NEW from, NEW to, Put(from, to),
           from \in {"put", "fput"}, to \in {"join", "fjoin"}
    PROVE  Recorded'
  <1>1. /\ pc = from /\ pc' = to /\ record_queue' = Append(record_queue, Poison)
        /\ UNCHANGED <<recording, writer, accepted, thread, hand, written>>
    BY DEF Put, OnDisplay, At, Enqueue, recVars
  <1>2. /\ Writing /\ Writing' /\ InHand' = InHand /\ InHand \in {0, 1}
        /\ Ending = 0 /\ Ending' = 1 /\ ~recording /\ writer = "open"
    BY <1>1 DEF Recorded, Writing, InHand, Ending
  <1>3. /\ Len(record_queue') = Len(record_queue) + 1
        /\ record_queue'[Len(record_queue) + 1] = Poison
        /\ \A i \in 1..Len(record_queue) : record_queue'[i] = record_queue[i]
    <2>1. record_queue \in Seq(0..MaxCanvas) /\ Poison \in 0..MaxCanvas
      BY VideoAssumption DEF Typed, RecTyped, Poison
    <2> QED
      BY <1>1, <2>1, AppendProperties
  <1>4. Len(accepted) = Len(written) + InHand + Len(record_queue)
    BY <1>2, RecordFacts DEF Recorded
  <1>5. Len(accepted') + Ending' = Len(written') + InHand' + Len(record_queue')
    <2>1. Len(accepted') = Len(accepted) /\ Len(written') = Len(written)
      BY <1>1
    <2> QED
      BY <1>2, <1>3, <1>4, <2>1, RecordFacts
  <1>6. ASSUME NEW i \in 1..Len(record_queue')
        PROVE  record_queue'[i] = IF Len(written) + InHand + i <= Len(accepted)
                                  THEN accepted[Len(written) + InHand + i] ELSE Poison
    <2>1. CASE i = Len(record_queue) + 1
      <3>1. ~(Len(written) + InHand + i <= Len(accepted))
        BY <1>2, <1>4, <2>1, RecordFacts
      <3> QED
        BY <1>3, <2>1, <3>1
    <2>2. CASE i \in 1..Len(record_queue)
      BY <1>3, <2>2 DEF Recorded
    <2> QED
      BY <1>3, <2>1, <2>2, RecordFacts
  <1>7. \A i \in 1..Len(written) : written[i] = accepted[i]
    BY DEF Recorded
  <1>8. thread = "write" => hand = accepted[Len(written) + 1]
    BY DEF Recorded
  <1> QED
    BY <1>1, <1>2, <1>5, <1>6, <1>7, <1>8 DEF Recorded

(* The writer is released once its thread is dead. *)
LEMMA JoinRecorded ==
    ASSUME Recorded, NEW from, NEW to, Join(from, to),
           from \in {"join", "fjoin"}, to \in {"publish", "segstop"}
    PROVE  Recorded'
  <1>1. /\ pc = from /\ pc' = to /\ thread = "dead"
        /\ UNCHANGED <<recording, record_queue, accepted, thread, hand, written>>
    BY DEF Join, OnDisplay, At
  <1>2. ~Writing /\ ~Writing' /\ InHand' = InHand /\ Ending = 0 /\ Ending' = 0
    BY <1>1 DEF Writing, InHand, Ending
  <1> QED
    BY <1>1, <1>2 DEF Recorded

(* The key starts a recording with nothing left of the one before, or ends *)
(* the one that runs.                                                      *)
LEMMA KeyRecorded == Typed /\ Recorded /\ KeyV => (Recorded \/ NotStarted)'
  <1> SUFFICES ASSUME Typed, Recorded, KeyV PROVE Recorded' \/ NotStarted'
    OBVIOUS
  <1>1. /\ pc = "keyv"
        /\ pc' = (IF key # "v" THEN "publish" ELSE IF recording THEN "put" ELSE "thread")
        /\ recording' = (recording # (key = "v"))
        /\ writer' = (IF recording' /\ ~recording THEN "open" ELSE writer)
        /\ UNCHANGED <<accepted, record_queue, hand, written, thread>>
    BY DEF KeyV, OnDisplay, At
  <1>2. Writing' = Writing /\ InHand' = InHand /\ Ending = 0 /\ Ending' = 0
    BY <1>1 DEF Writing, InHand, Ending
  <1>3. Writing <=> recording
    BY <1>1 DEF Recorded
  <1>4. CASE key = "v" /\ ~recording
    <2>1. ~Writing /\ record_queue = <<>> /\ InHand = 0 /\ Ending = 0
      BY <1>2, <1>3, <1>4 DEF Recorded, Writing, InHand
    <2>2. Len(accepted) = Len(written)
      BY <2>1, EmptySeq DEF Recorded
    <2>3. pc' = "thread" /\ recording' /\ writer' = "open"
      BY <1>1, <1>4
    <2> QED
      BY <1>1, <1>2, <2>1, <2>2, <2>3 DEF Recorded, NotStarted
  <1>5. CASE key = "v" /\ recording
    <2>1. pc' = "put" /\ ~recording' /\ writer' = writer
      BY <1>1, <1>5
    <2> QED
      BY <1>1, <1>2, <1>3, <1>5, <2>1 DEF Recorded
  <1>6. CASE key # "v"
    <2>1. recording \in BOOLEAN /\ (key = "v") = FALSE
      BY <1>6 DEF Typed, RecTyped
    <2>2. recording' = recording
      BY <1>1, <2>1
    <2>3. pc' = "publish" /\ writer' = writer
      BY <1>1, <1>6, <2>2
    <2> QED
      BY <1>1, <1>2, <1>3, <2>2, <2>3 DEF Recorded
  <1> QED
    BY <1>4, <1>5, <1>6

(* The steps that find a recording not started: the thread is started, or  *)
(* the process is on its way out and records nothing any more.             *)
LEMMA NotStartedStep ==
    ASSUME Typed, NotStarted, [Next]_vars PROVE (Recorded \/ NotStarted)'
  <1>1. Len(accepted) = Len(written) /\ ~Writing /\ pc \notin Loop \ {"thread", "launch"} /\ pc # "start"
    BY DEF NotStarted, Loop, Stopping
  <1> USE DEF NotStarted, Stopping
  <1>2. CASE StartThread
    <2>1. /\ thread' = "get" /\ pc' = "publish" /\ recording /\ writer = "open" /\ record_queue = <<>>
          /\ UNCHANGED <<recording, writer, accepted, record_queue, hand, written>>
      BY <1>2 DEF StartThread, OnDisplay, At, recVars
    <2>2. Writing' /\ InHand' = 0 /\ Ending' = 0 /\ Len(record_queue) = 0 /\ 1..Len(record_queue) = {}
      BY <2>1, EmptySeq DEF Writing, InHand, Ending
    <2>3. Len(accepted) + 0 = Len(written) + 0 + 0
      BY <1>1, RecordFacts
    <2> QED
      BY <1>1, <2>1, <2>2, <2>3 DEF Recorded
  <1>3. CASE MakeThread
    BY <1>1, <1>3 DEF MakeThread, OnDisplay, At, recVars, Writing
  <1>4. CASE Finally
    BY <1>1, <1>4 DEF Finally, At, Writing
  <1>5. CASE DisplayStop
    BY <1>1, <1>5 DEF DisplayStop, Put, Join, JoinRaises, Control, OnDisplay, At, dispVars, recVars, Writing
  <1>6. CASE SegStop \/ SegSet
    BY <1>1, <1>6 DEF SegStop, SegSet, Mailbox, At, dispVars, recVars, Writing
  <1>7. CASE SegJoin
    BY <1>1, <1>7 DEF SegJoin, Control, At, dispVars, recVars, Writing
  <1>8. CASE Interrupt
    BY <1>1, <1>8 DEF Interrupt, thrVars, Writing
  <1>9. CASE SegmentorSteps
    BY <1>1, <1>9, WorkerFrame DEF mainVars, recVars, thrVars, Writing
  <1>10. CASE (\E c \in Cams : Capture(c)) \/ Press \/ Publisher \/ UNCHANGED vars
    BY <1>1, <1>10, PublisherFrame DEF Capture, Press, vars, mainVars, recVars, thrVars, Writing
  <1>11. ~WriterSteps
    BY <1>1 DEF WriterSteps, GetFrame, WriteFrame, Writing
  <1>12. ~(Start \/ Wait \/ Calibrate \/ Submit \/ SetEvent \/ GetAllMasks \/ Stitch \/ Show \/ KeyV
           \/ StopRecording \/ Publish \/ KeyQ)
    BY <1>1 DEF Loop, Start, Wait, Calibrate, Submit, SetEvent, GetAllMasks, Stitch, Show, KeyV, StopRecording,
       Put, Join, Publish, KeyQ, Control, Compute, Mailbox, OnDisplay, At
  <1> QED
    BY <1>2, <1>3, <1>4, <1>5, <1>6, <1>7, <1>8, <1>9, <1>10, <1>11, <1>12 DEF Next, MainSteps, LoopSteps

(* On the way out a recording that runs is ended. *)
LEMMA FinallyRecorded == Recorded /\ Finally => Recorded'
  <1> SUFFICES ASSUME Recorded, Finally PROVE Recorded'
    OBVIOUS
  <1>1. /\ pc = "finally" /\ pc' = (IF recording THEN "fput" ELSE "segstop") /\ recording' = FALSE
        /\ UNCHANGED <<accepted, record_queue, hand, written, writer, thread>>
    BY DEF Finally, At
  <1>2. Writing' = Writing /\ InHand' = InHand /\ Ending = 0 /\ Ending' = 0
    BY <1>1 DEF Writing, InHand, Ending
  <1>3. Writing <=> recording
    BY <1>1 DEF Recorded
  <1> QED
    BY <1>1, <1>2, <1>3 DEF Recorded

(* Every step keeps the recording, unless an interrupt cuts its end. *)
LEMMA RecordedStep ==
    ASSUME Typed, ~cut => Recorded \/ NotStarted, [Next]_vars
    PROVE  ~cut' => (Recorded \/ NotStarted)'
  <1> SUFFICES ASSUME ~cut' PROVE Recorded' \/ NotStarted'
    OBVIOUS
  <1>0. CASE NotStarted
    BY <1>0, NotStartedStep
  <1>1. CASE Interrupt /\ ~NotStarted
    <2>1. ~cut /\ pc \notin {"put", "join"} /\ pc \in Loop /\ pc' = "finally"
      BY <1>1 DEF Interrupt, Typed, RecTyped
    <2>2. Recorded
      BY <1>1, <2>1
    <2>3. pc \notin Ends /\ pc' \notin Ends
      BY <2>1, <2>2 DEF Recorded, Loop, Ends
    <2> QED
      BY <1>1, <2>2, <2>3, OtherRecorded DEF Interrupt, thrVars
  <1>2. CASE ~Interrupt /\ ~NotStarted
    <2>1. cut' = cut
      <3>1. CASE MainSteps
        BY <3>1 DEF MainSteps, LoopSteps, Start, Wait, Calibrate, Submit, SetEvent, GetAllMasks,
           Stitch, Show, KeyV, MakeThread, StartThread, StopRecording, Put, Join, JoinRaises, Publish, KeyQ, Finally,
           DisplayStop, SegStop, SegSet,
           SegJoin, Control, Compute, Mailbox, OnDisplay, At, dispVars, recVars
      <3>2. CASE SegmentorSteps
        BY <3>2, WorkerFrame DEF recVars
      <3>3. CASE WriterSteps
        BY <3>3 DEF WriterSteps, GetFrame, WriteFrame, recVars
      <3>4. CASE (\E c \in Cams : Capture(c)) \/ Press \/ Publisher \/ UNCHANGED vars
        BY <3>4, PublisherFrame DEF Capture, Press, vars, recVars
      <3> QED
        BY <1>2, <3>1, <3>2, <3>3, <3>4 DEF Next
    <2>2. Recorded
      BY <1>2, <2>1
    <2>3. CASE WriterSteps
      BY <2>2, <2>3, GetRecorded, WriteRecorded DEF WriterSteps
    <2>4. CASE Show \/ KeyV \/ Finally
      BY <2>2, <2>4, ShowRecorded, KeyRecorded, FinallyRecorded
    <2>5. CASE StopRecording \/ DisplayStop
      <3>1. CASE JoinRaises
        <4>1. /\ pc = "fjoin" /\ pc' = "crashed" /\ thread \notin {"get", "write"}
              /\ UNCHANGED <<recording, writer, accepted, record_queue, thread, hand, written>>
          BY <3>1 DEF JoinRaises, Control, At, dispVars, recVars, None
        <4>2. ~Writing /\ Writing' = Writing /\ InHand' = InHand /\ Ending = 0 /\ Ending' = 0
          BY <4>1 DEF Writing, InHand, Ending
        <4> QED
          BY <2>2, <4>1, <4>2 DEF Recorded
      <3> QED
        BY <2>2, <2>5, <3>1, PutRecorded, JoinRecorded DEF StopRecording, DisplayStop
    <2>6. CASE Start \/ Wait \/ SegJoin \/ Calibrate \/ GetAllMasks \/ Stitch
      BY <2>2, <2>6, OtherRecorded DEF Start, Wait, SegJoin, Calibrate, GetAllMasks, Stitch, Control, Compute,
         At, dispVars, recVars, Ends
    <2>7. CASE Submit \/ SetEvent \/ SegStop \/ SegSet
      BY <2>2, <2>7, OtherRecorded DEF Submit, SetEvent, SegStop, SegSet, Mailbox, At, dispVars,
         recVars, Ends
    <2>8. CASE KeyQ \/ Publish
      BY <2>2, <2>8, OtherRecorded DEF KeyQ, Publish, OnDisplay, At, dispVars, recVars, Ends
    <2>9. CASE SegmentorSteps
      BY <2>2, <2>9, WorkerFrame, OtherRecorded DEF mainVars, recVars, thrVars
    <2>10. CASE (\E c \in Cams : Capture(c)) \/ Press \/ Publisher \/ UNCHANGED vars
      BY <2>2, <2>10, PublisherFrame, OtherRecorded DEF Capture, Press, vars, mainVars, recVars,
         thrVars
    <2>11. ~MakeThread /\ ~StartThread
      BY <2>2 DEF Recorded, MakeThread, StartThread, OnDisplay, At
    <2> QED
      BY <1>2, <2>3, <2>4, <2>5, <2>6, <2>7, <2>8, <2>9, <2>10, <2>11 DEF Next, MainSteps, LoopSteps
  <1> QED
    BY <1>0, <1>1, <1>2

(* A recording that is released holds every frame its queue accepted, in   *)
(* order, for every length of the queue and number of recordings.          *)
THEOREM RecordingAlwaysComplete == Spec => []RecordingIsComplete
  <1>1. Init => Typed /\ (~cut => Recorded \/ NotStarted)
    <2> SUFFICES ASSUME Init PROVE Recorded
      BY TypedInit
    <2>1. /\ ~Writing /\ InHand = 0 /\ Ending = 0 /\ pc = "start" /\ thread # "write"
          /\ accepted = <<>> /\ written = <<>> /\ record_queue = <<>> /\ ~recording
      BY DEF Init, Writing, InHand, Ending, None
    <2> QED
      BY <2>1 DEF Recorded
  <1>2. (Typed /\ (~cut => Recorded \/ NotStarted)) /\ [Next]_vars => (Typed /\ (~cut => Recorded \/ NotStarted))'
    BY TypedStep, RecordedStep
  <1>3. Typed /\ (~cut => Recorded \/ NotStarted) => RecordingIsComplete
    <2> SUFFICES ASSUME Typed, Recorded \/ NotStarted, writer = "released" PROVE written = accepted
      BY DEF RecordingIsComplete
    <2>1. ASSUME Recorded
          PROVE  Len(accepted) = Len(written) /\ \A i \in 1..Len(written) : written[i] = accepted[i]
      <3>1. ~Writing /\ record_queue = <<>> /\ InHand = 0 /\ Ending = 0
        BY <2>1 DEF Recorded, Writing, InHand, Ending
      <3> QED
        BY <2>1, <3>1, RecordFacts DEF Recorded
    <2>2. Len(accepted) = Len(written) /\ \A i \in 1..Len(written) : written[i] = accepted[i]
      BY <2>1 DEF NotStarted
    <2>3. accepted \in Seq(1..MaxCanvas) /\ written \in Seq(1..MaxCanvas)
      BY DEF Typed, RecTyped
    <2> QED
      BY <2>2, <2>3, SeqEqual
  <1> QED
    BY <1>1, <1>2, <1>3, PTL DEF Spec

=============================================================================
