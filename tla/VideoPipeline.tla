--------------------------- MODULE VideoPipeline ---------------------------
(***************************************************************************)
(* The bird's-eye-view process of ad_r1m_perception_video and the ROS      *)
(* publisher fed by it. Threads of the process: a capture thread for each  *)
(* camera, the worker of FloorSegmentor, the writer of Display while it    *)
(* records, and the main thread, whose loop submits frames to the worker,  *)
(* stitches a canvas, shows it, sends it, and polls the keyboard twice.    *)
(* The publisher is a second process, behind a pair of ZeroMQ sockets; it  *)
(* may start before or after this one, end, and be started again.          *)
(*                                                                         *)
(* A frame is the number of its capture, 0 for None; a mask is the number  *)
(* of the frame it was inferred from. The cameras are read in one step by  *)
(* BEV.stitch and by the download before submit_batch: no property relates *)
(* two cameras. A step of a thread ends where another could see the        *)
(* difference: at a lock, an event, a queue, or an attribute they share.   *)
(***************************************************************************)
EXTENDS Naturals, Sequences

CONSTANTS
    Cams,           \* cameras_cfg
    floor_cams,     \* FloorSegmentor.cam_keys, in order
    RecordMax,      \* maxsize of _record_queue (60)
    HWM,            \* messages the two sockets hold between them
    SocketOpened,   \* does FramePublisher have a socket? FALSE in the source
    MaxFrames,      \* bound: frames captured by each camera
    MaxCanvas       \* bound: canvases stitched

FloorCams == {floor_cams[i] : i \in DOMAIN floor_cams}

ASSUME VideoAssumption ==
    /\ floor_cams \in Seq(Cams) /\ floor_cams # <<>>
    /\ RecordMax \in Nat \ {0} /\ HWM \in Nat \ {0}
    /\ SocketOpened \in BOOLEAN
    /\ MaxFrames \in Nat /\ MaxCanvas \in Nat

VARIABLES
    frames, running,                                \* capture_loop
    pc, key, canvas, floor_masks, calibrated,       \* the main thread
    input, event, seg_running,                      \* FloorSegmentor's mailbox
    worker, index, batch, masks,                    \* FloorSegmentor._run
    recording, record_queue, writer, thread, hand,  \* Display
    accepted, written, cut,                         \* history of the recording
    pipe, listening, published                      \* the sockets, the topics

loopVars == <<canvas, floor_masks, calibrated, running>>
mainVars == <<pc, loopVars>>
boxVars == <<input, event, seg_running>>
segVars == <<worker, index, batch, masks>>
recVars == <<recording, writer, accepted, cut>>
thrVars == <<thread, hand, written>>
dispVars == <<recVars, record_queue, thread>>
zmqVars == <<pipe, listening, published>>
vars == <<frames, mainVars, key, boxVars, segVars, recVars, record_queue, thrVars, zmqVars>>

None == "none"
NoBatch == <<>>
Poison == 0             \* the None that ends a recording
Frames == 0..MaxFrames
Masks == [FloorCams -> Frames]
Canvases == [n : 0..MaxCanvas, masks : Masks]

Blank == [n |-> 0, masks |-> [c \in FloorCams |-> 0]]

(* The stages of the loop and of its finally clause; the last four of the  *)
(* loop are the start and the end of a recording by the key.               *)
Loop == {"wait", "calibrate", "submit", "set", "masks", "stitch", "show", "keyv", "publish",
         "keyq", "thread", "launch", "put", "join"}
Stopping == {"finally", "fput", "fjoin", "segstop", "segset", "segjoin", "done"}

TypeOK ==
    /\ frames \in [Cams -> Frames] /\ running \in BOOLEAN
    /\ pc \in {"start", "crashed"} \cup Loop \cup Stopping /\ key \in {None, "v", "q"}
    /\ canvas \in Canvases /\ floor_masks \in Masks /\ calibrated \in BOOLEAN
    /\ input \in Masks \cup {NoBatch} /\ event \in BOOLEAN /\ seg_running \in BOOLEAN
    /\ worker \in {"top", "wait", "clear", "check", "take", "infer", "dead"}
    /\ index \in DOMAIN floor_cams /\ batch \in Masks \cup {NoBatch} /\ masks \in Masks
    /\ recording \in BOOLEAN /\ writer \in {None, "open", "released"} /\ cut \in BOOLEAN
    /\ record_queue \in Seq(0..MaxCanvas) /\ Len(record_queue) <= RecordMax
    /\ thread \in {None, "new", "get", "write", "dead"} /\ hand \in 0..MaxCanvas
    /\ accepted \in Seq(1..MaxCanvas) /\ written \in Seq(1..MaxCanvas)
    /\ pipe \in Seq(Canvases) /\ Len(pipe) <= HWM
    /\ listening \in BOOLEAN /\ published \in Canvases

Init ==
    /\ frames = [c \in Cams |-> 0] /\ running = TRUE
    /\ pc = "start" /\ key = None
    /\ canvas = Blank /\ floor_masks = Blank.masks /\ calibrated = FALSE
    /\ input = NoBatch /\ event = FALSE /\ seg_running = TRUE
    /\ worker = "top" /\ index = 1 /\ batch = NoBatch /\ masks = Blank.masks
    /\ recording = FALSE /\ record_queue = <<>> /\ writer = None /\ thread = None /\ hand = 0
    /\ accepted = <<>> /\ written = <<>> /\ cut = FALSE
    /\ pipe = <<>> /\ listening = FALSE /\ published = Blank

-----------------------------------------------------------------------------
(* capture_loop stores the next frame of its camera. (The frame in flight  *)
(* when running is cleared may still be stored, and nobody looks at it.)   *)
Capture(c) ==
    /\ running /\ pc # "crashed"
    /\ frames[c] < MaxFrames
    /\ frames' = [frames EXCEPT ![c] = @ + 1]
    /\ UNCHANGED <<mainVars, key, boxVars, segVars, recVars, record_queue, thrVars, zmqVars>>

-----------------------------------------------------------------------------
(* FloorSegmentor._run. *)
Worker(from, to) ==
    /\ worker = from /\ pc # "crashed" /\ worker' = to
    /\ UNCHANGED <<frames, mainVars, key, seg_running, recVars, record_queue, thrVars, zmqVars>>

(* Bug for NoLostWakeup: the event is cleared before the wait. *)
TopClearing == Worker("top", IF seg_running THEN "wait" ELSE "dead")
               /\ event' = FALSE /\ UNCHANGED <<input, index, batch, masks>>

(* while self._running *)
Top == Worker("top", IF seg_running THEN "wait" ELSE "dead")
       /\ UNCHANGED <<input, event, index, batch, masks>>

WaitEvent == event /\ Worker("wait", "clear") /\ UNCHANGED <<input, event, index, batch, masks>>

Clear == Worker("clear", "check") /\ event' = FALSE /\ UNCHANGED <<input, index, batch, masks>>

Check == Worker("check", IF seg_running THEN "take" ELSE "dead")
         /\ UNCHANGED <<input, event, index, batch, masks>>

Take ==
    /\ Worker("take", IF input = NoBatch THEN "top" ELSE "infer")
    /\ batch' = input /\ input' = NoBatch /\ index' = 1
    /\ UNCHANGED <<event, masks>>

(* The floor is found in the next image of the batch, or it is not and the *)
(* mask stays as it is.                                                    *)
Infer ==
    /\ Worker("infer", IF index = Len(floor_cams) THEN "top" ELSE "infer")
    /\ index' = IF index = Len(floor_cams) THEN 1 ELSE index + 1
    /\ LET c == floor_cams[index] IN
         masks' \in {masks, [masks EXCEPT ![c] = batch[c]]}
    /\ UNCHANGED <<input, event, batch>>

SegmentorSteps == Top \/ WaitEvent \/ Clear \/ Check \/ Take \/ Infer

-----------------------------------------------------------------------------
(* Display._write_loop. *)
GetFrame ==
    /\ thread = "get" /\ record_queue # <<>> /\ pc # "crashed"
    /\ hand' = Head(record_queue)
    /\ thread' = IF hand' = Poison THEN "dead" ELSE "write"
    /\ record_queue' = Tail(record_queue)
    /\ UNCHANGED <<frames, mainVars, key, boxVars, segVars, recVars, written, zmqVars>>

WriteFrame ==
    /\ thread = "write" /\ thread' = "get" /\ pc # "crashed"
    /\ written' = IF writer = "open" THEN Append(written, hand) ELSE written
    /\ UNCHANGED <<frames, mainVars, key, boxVars, segVars, recVars, hand, record_queue, zmqVars>>

WriterSteps == GetFrame \/ WriteFrame

-----------------------------------------------------------------------------
(* The main thread. A step leaves all alone but its own object: the loop's *)
(* variables, the mailbox of FloorSegmentor, the Display, or the socket.   *)
At(from, to) == pc = from /\ pc' = to /\ UNCHANGED <<frames, segVars, hand, written>>

Control(from, to) == At(from, to) /\ UNCHANGED <<loopVars, key, boxVars, dispVars, zmqVars>>
Compute(from, to) == At(from, to) /\ UNCHANGED <<key, boxVars, dispVars, zmqVars>>
Mailbox(from, to) == At(from, to) /\ UNCHANGED <<loopVars, key, dispVars, zmqVars>>
OnDisplay(from, to) == At(from, to) /\ UNCHANGED <<loopVars, boxVars, zmqVars>>

(* Cameras and FloorSegmentor run already; FramePublisher uses a socket it *)
(* never made, outside of the try: the process ends.                       *)
Start == Control("start", IF SocketOpened THEN "wait" ELSE "crashed")

(* The loop sleeps until every camera has delivered. *)
Wait ==
    /\ Control("wait", IF calibrated THEN "submit" ELSE "calibrate")
    /\ canvas.n < MaxCanvas
    /\ \A c \in Cams : frames[c] # 0

(* BEV.calibrate finds its gains and seams in ten rounds of the frames,    *)
(* while the threads go on: a frame that is there never is None again.     *)
Calibrate ==
    /\ Compute("calibrate", "submit")
    /\ calibrated' = TRUE /\ UNCHANGED <<canvas, floor_masks, running>>

(* submit_batch, under the lock, then the event. *)
Submit ==
    /\ Mailbox("submit", "set")
    /\ input' = [c \in FloorCams |-> frames[c]]
    /\ UNCHANGED <<event, seg_running>>

SetEvent == Mailbox("set", "masks") /\ event' = TRUE /\ UNCHANGED <<input, seg_running>>

GetAllMasks ==
    /\ Compute("masks", "stitch")
    /\ floor_masks' = masks /\ UNCHANGED <<canvas, calibrated, running>>

Stitch ==
    /\ Compute("stitch", "show")
    /\ canvas' = [n |-> canvas.n + 1, masks |-> floor_masks]
    /\ UNCHANGED <<floor_masks, calibrated, running>>

Enqueue(item) == record_queue' = Append(record_queue, item)

(* Bug for TypeOK: the queue is used as if it had no bound. *)
RoomAlways == TRUE

Room == Len(record_queue) < RecordMax

(* A frame that finds the queue full is not recorded. *)
Show ==
    /\ OnDisplay("show", "keyv")
    /\ IF recording /\ Room
       THEN Enqueue(canvas.n) /\ accepted' = Append(accepted, canvas.n)
       ELSE UNCHANGED <<record_queue, accepted>>
    /\ UNCHANGED <<key, recording, writer, cut, thread>>

(* The first waitKey: any key is consumed, v toggles the recording. One    *)
(* that starts has its file and says so before it has a thread.            *)
KeyV ==
    /\ OnDisplay("keyv", IF key # "v" THEN "publish" ELSE IF recording THEN "put" ELSE "thread")
    /\ key' = None
    /\ recording' = (recording # (key = "v"))
    /\ writer' = IF recording' /\ ~recording THEN "open" ELSE writer
    /\ UNCHANGED <<accepted, cut, record_queue, thread>>

MakeThread ==
    /\ OnDisplay("thread", "launch") /\ thread' = "new"
    /\ UNCHANGED <<key, recVars, record_queue>>

StartThread ==
    /\ OnDisplay("launch", "publish") /\ thread' = "get"
    /\ UNCHANGED <<key, recVars, record_queue>>

(* Bug for RecordingAndQuitEnd: put_nowait, and a full queue is ignored. *)
PutNoWait(from, to) ==
    /\ OnDisplay(from, to)
    /\ IF Room THEN Enqueue(Poison) ELSE UNCHANGED record_queue
    /\ UNCHANGED <<key, recVars, thread>>

(* _record_queue.put(None), which waits for room. *)
Put(from, to) ==
    /\ OnDisplay(from, to)
    /\ Room /\ Enqueue(Poison)
    /\ UNCHANGED <<key, recVars, thread>>

(* Bug for RecordingIsComplete: the writer is released without the join. *)
ReleaseAtOnce(from, to) ==
    /\ OnDisplay(from, to)
    /\ writer' = "released"
    /\ UNCHANGED <<key, recording, accepted, cut, record_queue, thread>>

(* _record_thread.join(), then the writer is released. *)
Join(from, to) ==
    /\ OnDisplay(from, to)
    /\ thread = "dead" /\ writer' = "released"
    /\ UNCHANGED <<key, recording, accepted, cut, record_queue, thread>>

StopRecording == Put("put", "join") \/ Join("join", "publish")

(* A PUB socket drops what nobody listens to, and what it has no room for. *)
Send(message) ==
    pipe' = IF listening /\ Len(pipe) < HWM THEN Append(pipe, message) ELSE pipe

(* Bug for PublishedWhole: the masks are asked for again. *)
PublishLatestMasks ==
    /\ At("publish", "keyq") /\ Send([n |-> canvas.n, masks |-> masks])
    /\ UNCHANGED <<loopVars, key, boxVars, dispVars, listening, published>>

Publish ==
    /\ At("publish", "keyq") /\ Send([n |-> canvas.n, masks |-> floor_masks])
    /\ UNCHANGED <<loopVars, key, boxVars, dispVars, listening, published>>

(* The second waitKey: any key is consumed, q ends the loop. *)
KeyQ ==
    /\ OnDisplay("keyq", IF key = "q" THEN "finally" ELSE "wait")
    /\ key' = None /\ UNCHANGED dispVars

(* KeyboardInterrupt, between any two steps of the loop. One that comes    *)
(* while a recording is being ended leaves it so: recording is FALSE       *)
(* already. One that comes while a recording starts leaves it without a    *)
(* thread, or with one that was not started (or that of the one before).   *)
Interrupt ==
    /\ pc \in Loop /\ pc' = "finally"
    /\ cut' = (cut \/ pc \in {"put", "join"})
    /\ UNCHANGED <<frames, loopVars, key, boxVars, segVars, recording, writer, accepted,
                   record_queue, thrVars, zmqVars>>

(* FramePublisher.close lets its socket go without lingering: what it has  *)
(* not handed over yet, the youngest messages, is lost.                    *)
CloseSender == \E sent \in 0..Len(pipe) : pipe' = SubSeq(pipe, 1, sent)

Finally ==
    /\ At("finally", IF recording THEN "fput" ELSE "segstop")
    /\ running' = FALSE /\ CloseSender /\ recording' = FALSE
    /\ UNCHANGED <<canvas, floor_masks, calibrated, key, boxVars, writer, accepted, cut,
                   record_queue, thread, listening, published>>

(* join raises where there is no thread, or none that was started, and the *)
(* finally clause ends there: so does the process, whose threads are       *)
(* daemons.                                                                *)
JoinRaises == Control("fjoin", "crashed") /\ thread \in {None, "new"}

DisplayStop == Put("fput", "fjoin") \/ Join("fjoin", "segstop") \/ JoinRaises

(* FloorSegmentor.stop: the flag, the event, the join. *)
SegStop == Mailbox("segstop", "segset") /\ seg_running' = FALSE /\ UNCHANGED <<input, event>>

(* Bug for RecordingAndQuitEnd: the worker is not woken up. *)
SegSetNothing == Control("segset", "segjoin")

SegSet == Mailbox("segset", "segjoin") /\ event' = TRUE /\ UNCHANGED <<input, seg_running>>

SegJoin == Control("segjoin", "done") /\ worker = "dead"

LoopSteps == Wait \/ Calibrate \/ Submit \/ SetEvent \/ GetAllMasks \/ Stitch \/ Show \/ KeyV
             \/ MakeThread \/ StartThread \/ StopRecording \/ Publish \/ KeyQ
MainSteps == Start \/ LoopSteps \/ Finally \/ DisplayStop \/ SegStop \/ SegSet \/ SegJoin

-----------------------------------------------------------------------------
(* The operator presses a key, which a waitKey will consume. *)
Press ==
    /\ pc \in Loop /\ key = None /\ key' \in {"v", "q"}
    /\ UNCHANGED <<frames, mainVars, boxVars, segVars, recVars, record_queue, thrVars, zmqVars>>

(* The publisher process. Only its own steps touch the topics. *)
OnTopics == UNCHANGED <<frames, mainVars, key, boxVars, segVars, recVars, record_queue, thrVars>>

(* A FrameSubscriber hears what is sent from now on. *)
Connect == ~listening /\ listening' = TRUE /\ UNCHANGED pipe

(* Its close leaves what is in the sockets unread. *)
Disconnect == listening /\ listening' = FALSE /\ pipe' = <<>>

(* The node is made anew, with its FrameSubscriber. *)
PublisherStarts == Connect /\ OnTopics /\ UNCHANGED published

(* Bug for PublishedWhole: the newest message is read and the older ones *)
(* stay in the socket.                                                     *)
RecvLeavesOlder(k) == pipe' = SubSeq(pipe, 1, k - 1)

(* FrameSubscriber.recv: the k messages that have arrived are drained. *)
Recv(k) == pipe' = SubSeq(pipe, k + 1, Len(pipe))

(* PerceptionPublisher.tick: the last of them is published. *)
Tick(k) ==
    /\ listening /\ Recv(k) /\ published' = pipe[k]
    /\ OnTopics /\ UNCHANGED listening

(* A tick that finds no message returns; the publisher outlives the        *)
(* pipeline.                                                               *)
TickNothing == listening /\ pipe = <<>> /\ UNCHANGED vars

(* Ctrl-C in spin. What was published is not taken back. *)
PublisherEnds == Disconnect /\ OnTopics /\ UNCHANGED published

Publisher == PublisherStarts \/ TickNothing \/ PublisherEnds \/ \E k \in DOMAIN pipe : Tick(k)

Next ==
    \/ \E c \in Cams : Capture(c)
    \/ SegmentorSteps \/ WriterSteps \/ MainSteps
    \/ Interrupt \/ Press \/ Publisher

Spec == Init /\ [][Next]_vars

(* The threads run, a camera goes on delivering, inference ends. *)
FairSpec ==
    /\ Spec
    /\ WF_vars(SegmentorSteps) /\ WF_vars(WriterSteps) /\ WF_vars(MainSteps)
    /\ \A c \in Cams : WF_vars(Capture(c))

-----------------------------------------------------------------------------
(* A batch in the mailbox has a wake-up on its way: the event is set or    *)
(* about to be, or the worker is between clearing it and taking the batch. *)
NoLostWakeup ==
    input # NoBatch => \/ event \/ pc = "set" \/ pc \in Stopping \cup {"crashed"}
                       \/ worker \in {"check", "take"}

(* A released recording holds every frame its queue accepted, in order,    *)
(* unless an interrupt cut its end short.                                  *)
RecordingIsComplete == writer = "released" /\ ~cut => written = accepted

(* What leaves with a canvas are the masks drawn on it, in the socket and  *)
(* on the topics, although the worker replaces masks all the time; and the *)
(* topics never go back to an older canvas.                                *)
MasksBelongToCanvas ==
    /\ \A i \in DOMAIN pipe : pipe[i].n = canvas.n => pipe[i].masks = canvas.masks
    /\ published.n = canvas.n => published.masks = canvas.masks

PublishedWhole ==
    [](MasksBelongToCanvas) /\ [][published' # published => published'.n > published.n]_vars

(* An interrupt has come in the start of a recording, where there is no    *)
(* thread to join.                                                         *)
HalfStarted == recording /\ thread \in {None, "new"}

(* Ending a recording by the key gives the loop back, a full queue and a   *)
(* writer behind by a queue included; quitting ends the process: neither   *)
(* the end of a recording nor the join of the worker waits for ever. (An   *)
(* interrupt in the start of a recording ends it too, in JoinRaises.)      *)
RecordingAndQuitEnd ==
    /\ pc = "put" ~> pc \in {"publish"} \cup Stopping
    /\ pc = "finally" /\ ~HalfStarted ~> pc = "done"

(* The process, started, stitches a canvas, unless the operator stops it.  *)
CanvasOrStopped == <>(canvas.n > 0 \/ pc \in Stopping)

=============================================================================
