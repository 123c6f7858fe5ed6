----------------------------- MODULE ImageSync -----------------------------
(***************************************************************************)
(* The component of ad_r1m_perception_cuvslam/src/realsense_image_sync.cpp *)
(* (camera_sync::MultiApproxSync): it buffers the images of several camera *)
(* topics and republishes groups whose stamps are close, one image per     *)
(* topic. Its subscriptions share the node's callback group, so one        *)
(* callback, synchronize_images, runs at a time even in the multi-threaded *)
(* container: one action per image.                                        *)
(*                                                                         *)
(* A topic is its rank in the lexicographic order of topic names, the      *)
(* order in which std::map walks the buffers; a stamp is a natural number. *)
(***************************************************************************)
EXTENDS Integers, Sequences, FiniteSets

CONSTANTS
    Subscribe,  \* topics2subscribe: Subscribe[i] is republished by publisher i
    InterSlop,  \* inter_message_slop
    InnerSlop,  \* inner_message_slop
    MaxStamp    \* bound: the last stamp of the cameras

N == Len(Subscribe)
Topics == 1..N
Stamps == 0..MaxStamp

(* params_sanity_check leaves slops that are not negative; the topics are  *)
(* distinct.                                                               *)
ASSUME ImageSyncAssumption ==
    /\ Subscribe \in Seq(Nat) /\ N > 0
    /\ \A t \in Topics : \E i \in Topics : Subscribe[i] = t
    /\ InterSlop \in Nat /\ InnerSlop \in Nat /\ MaxStamp \in Nat

VARIABLES
    buffers,    \* buffers[t]: the stamps buffered of topic t, oldest first
    published,  \* published[i]: the last image of publisher i
    arrived     \* history: arrived[t] is the set of stamps received on t

vars == <<buffers, published, arrived>>

Nothing == [topic |-> 0, stamp |-> -1]
Images == [topic : Topics, stamp : Stamps]

TypeOK ==
    /\ buffers \in [Topics -> Seq(Stamps)]
    /\ \A t \in Topics : Len(buffers[t]) <= InnerSlop + 1
    /\ published \in [Topics -> Images \cup {Nothing}]
    /\ arrived \in [Topics -> SUBSET Stamps]

Init ==
    /\ buffers = [t \in Topics |-> <<>>]
    /\ published = [i \in Topics |-> Nothing]
    /\ arrived = [t \in Topics |-> {}]

-----------------------------------------------------------------------------
Distance(a, b) == IF a < b THEN b - a ELSE a - b

First(indices) == CHOOSE i \in indices : \A j \in indices : i <= j

(* Bug for TypeOK, LatestGoOut, PublicationIsSound: old images are never popped. *)
NearAll(buffer, ref) == DOMAIN buffer

(* Bug for NothingUsefulDropped: the boundary is popped too. *)
NearStrict(buffer, ref) ==
    {i \in DOMAIN buffer : Distance(ref, buffer[i]) < InnerSlop \/ i = Len(buffer)}

(* The front is popped until it is within InnerSlop of the new stamp. *)
Near(buffer, ref) == {i \in DOMAIN buffer : Distance(ref, buffer[i]) <= InnerSlop}

Prune(buffer, ref) == SubSeq(buffer, First(Near(buffer, ref)), Len(buffer))

(* Bug for LatestGoOut: an image as far as both slops goes with ref. *)
MatchesWide(buffer, ref) ==
    {i \in DOMAIN buffer : Distance(buffer[i], ref) < InterSlop + InnerSlop}

(* The images of a buffer that may go with ref; the oldest of them goes.   *)
Matches(buffer, ref) == {i \in DOMAIN buffer : Distance(buffer[i], ref) < InterSlop}

(* The candidates are walked in the order of the map, the publishers in    *)
(* the order of the parameters.                                            *)
Group(bufs, ref) ==
    [i \in Topics |-> [topic |-> i, stamp |-> bufs[i][First(Matches(bufs[i], ref))]]]

(* Bug for PublicationIsSound: the match is made before the image is *)
(* stored.                                                                 *)
SynchronizeThenStore(t, ref) ==
    /\ buffers' = [buffers EXCEPT ![t] = Prune(Append(@, ref), ref)]
    /\ published' = IF \A u \in Topics : Matches(buffers[u], ref) # {}
                    THEN Group(buffers, ref) ELSE published
    /\ arrived' = [arrived EXCEPT ![t] = @ \cup {ref}]

(* The new image is stored and its buffer pruned; then every buffer is     *)
(* searched for an image that goes with it.                                *)
SynchronizeImages(t, ref) ==
    /\ buffers' = [buffers EXCEPT ![t] = Prune(Append(@, ref), ref)]
    /\ published' = IF \A u \in Topics : Matches(buffers'[u], ref) # {}
                    THEN Group(buffers', ref) ELSE published
    /\ arrived' = [arrived EXCEPT ![t] = @ \cup {ref}]

(* A camera stamps its images in increasing order; some are lost.          *)
Arrive == \E t \in Topics, ref \in Stamps :
    /\ \A s \in arrived[t] : s < ref
    /\ SynchronizeImages(t, ref)

Done == (\A t \in Topics : MaxStamp \in arrived[t]) /\ UNCHANGED vars

Next == Arrive \/ Done

Spec == Init /\ [][Next]_vars

-----------------------------------------------------------------------------
Newest(stamps) == CHOOSE s \in stamps : \A r \in stamps : r <= s

(* Pruning by the front alone drops nothing that is still within InnerSlop *)
(* of the newest image of its topic, and keeps nothing else.               *)
NothingUsefulDropped ==
    \A t \in Topics : arrived[t] # {} =>
        {buffers[t][i] : i \in DOMAIN buffers[t]} =
            {s \in arrived[t] : Newest(arrived[t]) - s <= InnerSlop}

(* Cameras whose period is longer than inner_message_slop: 67 ms in        *)
(* vslam_multi_realsense.yaml, against the default of 20 ms.               *)
Spaced == \A t \in Topics : \A r, s \in arrived[t] : r < s => s - r > InnerSlop

(* With such cameras no image goes out that is not the latest of its       *)
(* topic, however the topics interleave and whatever was lost: an image    *)
(* publishes the latest of all topics if they are within InterSlop of it,  *)
(* each topic once, and publishes nothing otherwise. The buffers are never *)
(* cleared, and the oldest match goes out (128-136), so the pruning of the *)
(* other topics' callbacks must have left one image each.                  *)
LatestGoOut ==
    [][Spaced' => \A t \in Topics, ref \in Stamps :
         ref \in arrived'[t] \ arrived[t] =>
            IF \A u \in Topics : arrived'[u] # {} /\ Distance(Newest(arrived'[u]), ref) < InterSlop
            THEN {published'[i] : i \in Topics} = {[topic |-> u, stamp |-> Newest(arrived'[u])] : u \in Topics}
            ELSE UNCHANGED published]_vars

(* Images that all topics carry with one stamp are published, or closer    *)
(* ones are, as soon as the last of them arrives, unless a topic has by    *)
(* then run ahead by more than InnerSlop.                                  *)
CompleteGroupIsPublished ==
    [][\A k \in Stamps :
         /\ \A t \in Topics : k \in arrived'[t]
         /\ \E t \in Topics : k \notin arrived[t]
         /\ \A t \in Topics : \A s \in arrived'[t] : s - k <= InnerSlop
         /\ InterSlop > 0
         => \A i \in Topics : Distance(published'[i].stamp, k) < InterSlop]_vars

(* A publisher may go back in time (an image of a slower topic may match   *)
(* an older image than the one published last), by InnerSlop at most.      *)
RegressionIsBounded ==
    [][\A i \in Topics : published'[i].stamp >= published[i].stamp - InnerSlop]_vars

(* Publisher i republishes topics2subscribe[i], the topic that the launch  *)
(* file pairs it with. Not so for a list that is not in the order of the   *)
(* map, as the launch file's is not.                                       *)
RightTopic == \A i \in Topics : published[i] # Nothing => published[i].topic = Subscribe[i]

(* Over time: no complete group is passed over, none goes far back. *)
PublicationIsSound == CompleteGroupIsPublished /\ RegressionIsBounded

=============================================================================
