--------------------------- MODULE ImageSyncProofs ---------------------------
(***************************************************************************)
(* Theorems of ImageSync, for every number of topics, both slops and every *)
(* number of stamps.                                                       *)
(***************************************************************************)
EXTENDS ImageSync, SequenceTheorems, WellFoundedInduction, TLAPS

(* A set of natural numbers that is not empty has a first. *)
LEMMA FirstFacts ==
    ASSUME NEW S \in SUBSET Nat, S # {}
    PROVE  First(S) \in S /\ \A j \in S : First(S) <= j
  <1>1. \E x \in S : \A y \in S : ~(<<y, x>> \in OpToRel(<, Nat))
    BY WFMin, NatLessThanWellFounded
  <1>2. PICK x \in S : \A y \in S : ~(<<y, x>> \in OpToRel(<, Nat))
    BY <1>1
  <1>3. \A y \in S : x <= y
    <2> SUFFICES ASSUME NEW y \in S, y < x PROVE FALSE
      OBVIOUS
    <2>1. <<y, x>> \in OpToRel(<, Nat)
      BY DEF OpToRel
    <2> QED
      BY <1>2, <2>1
  <1> QED
    BY <1>3 DEF First

LEMMA ParameterFacts ==
    /\ N \in Nat \ {0} /\ Topics = 1..N /\ Stamps \subseteq Nat
    /\ InterSlop \in Nat /\ InnerSlop \in Nat
  <1>1. N \in Nat
    BY ImageSyncAssumption, LenProperties DEF N
  <1> QED
    BY <1>1, ImageSyncAssumption DEF Topics, Stamps, N

LEMMA DistanceFacts ==
    \A a, b \in Int : /\ Distance(a, b) \in Nat /\ Distance(a, b) = Distance(b, a)
                      /\ Distance(a, a) = 0
                      /\ \A d \in Int : Distance(a, b) <= d <=> a - b <= d /\ b - a <= d
  BY DEF Distance

(* A buffer is pruned up to the first image near the one that was stored. *)
LEMMA PruneFacts ==
    ASSUME NEW c \in Seq(Stamps), c # <<>>, NEW ref \in Stamps, c[Len(c)] = ref
    PROVE  \E f \in 1..Len(c) :
              /\ Prune(c, ref) = SubSeq(c, f, Len(c))
              /\ Distance(ref, c[f]) <= InnerSlop
              /\ \A i \in 1..(f - 1) : ~(Distance(ref, c[i]) <= InnerSlop)
  <1>1. /\ DOMAIN c = 1..Len(c) /\ Len(c) \in Nat \ {0}
        /\ \A i \in 1..Len(c) : c[i] \in Stamps
    BY LenProperties, EmptySeq, ElementOfSeq
  <1>2. Near(c, ref) \in SUBSET Nat /\ Len(c) \in Near(c, ref)
    <2>1. ref \in Int /\ Distance(ref, c[Len(c)]) = 0 /\ 0 <= InnerSlop
      BY DistanceFacts, ParameterFacts
    <2>2. Len(c) \in Near(c, ref)
      BY <1>1, <2>1 DEF Near
    <2> QED
      BY <1>1, <2>2 DEF Near
  <1>3. First(Near(c, ref)) \in Near(c, ref) /\ \A j \in Near(c, ref) : First(Near(c, ref)) <= j
    BY <1>2, FirstFacts
  <1>4. PICK f \in Near(c, ref) : f = First(Near(c, ref)) /\ \A j \in Near(c, ref) : f <= j
    BY <1>3
  <1>5. f \in 1..Len(c) /\ Distance(ref, c[f]) <= InnerSlop
    BY <1>1, <1>4 DEF Near
  <1>6. ASSUME NEW i \in 1..(f - 1), Distance(ref, c[i]) <= InnerSlop PROVE FALSE
    <2>1. i \in 1..Len(c) /\ ~(f <= i)
      BY <1>1, <1>5
    <2>2. i \in Near(c, ref)
      BY <1>1, <1>6, <2>1 DEF Near
    <2> QED
      BY <1>4, <2>1, <2>2
  <1> QED
    BY <1>4, <1>5, <1>6 DEF Prune

-----------------------------------------------------------------------------
(* Stamps increase along a buffer, by one at least. *)
Increasing(b) == \A i, j \in 1..Len(b) : i < j => b[j] - b[i] >= j - i

(* A buffer of the topic on which the stamps in A have arrived: it ends    *)
(* with the last of them, and holds those that are within InnerSlop of it. *)
Window(b, A) ==
    /\ b \in Seq(Stamps)
    /\ Increasing(b)
    /\ b = <<>> => A = {}
    /\ \A i \in 1..Len(b) : b[i] \in A
    /\ b # <<>> => /\ \A s \in A : s <= b[Len(b)]
                   /\ \A i \in 1..Len(b) : b[Len(b)] - b[i] <= InnerSlop
                   /\ \A s \in A : b[Len(b)] - s <= InnerSlop => \E i \in 1..Len(b) : b[i] = s

(* The last group: an image of each topic, near one stamp. *)
Grouped(pub, arr) ==
    \/ \A i \in Topics : pub[i] = Nothing
    \/ \E r \in Stamps : \A i \in Topics :
          /\ pub[i] \in Images /\ pub[i].topic = i /\ pub[i].stamp \in arr[i]
          /\ Distance(pub[i].stamp, r) < InterSlop

Inv ==
    /\ buffers \in [Topics -> Seq(Stamps)]
    /\ published \in [Topics -> Images \cup {Nothing}]
    /\ arrived \in [Topics -> SUBSET Stamps]
    /\ \A t \in Topics : Window(buffers[t], arrived[t])
    /\ Grouped(published, arrived)

(* Storing an image newer than all of its topic and pruning by it keeps    *)
(* the window.                                                             *)
LEMMA WindowStep ==
    ASSUME NEW b, NEW A \in SUBSET Stamps, Window(b, A), NEW ref \in Stamps,
           \A s \in A : s < ref
    PROVE  /\ Window(Prune(Append(b, ref), ref), A \cup {ref})
           /\ Prune(Append(b, ref), ref) # <<>>
           /\ Prune(Append(b, ref), ref)[Len(Prune(Append(b, ref), ref))] = ref
  <1> DEFINE c == Append(b, ref)
  <1>1. /\ b \in Seq(Stamps) /\ Len(b) \in Nat /\ ref \in Nat
        /\ \A i \in 1..Len(b) : b[i] \in Nat /\ b[i] \in A /\ b[i] < ref
    BY ElementOfSeq, LenProperties, ParameterFacts DEF Window
  <1>2. /\ c \in Seq(Stamps) /\ c # <<>> /\ Len(c) = Len(b) + 1 /\ c[Len(b) + 1] = ref
        /\ \A i \in 1..Len(b) : c[i] = b[i]
    BY <1>1, AppendProperties
  <1> HIDE DEF c
  <1>3. c[Len(c)] = ref /\ \A i \in 1..Len(c) : c[i] \in Nat /\ c[i] \in A \cup {ref}
    BY <1>1, <1>2
  <1>4. Increasing(c)
    <2> SUFFICES ASSUME NEW i \in 1..Len(c), NEW j \in 1..Len(c), i < j
                 PROVE  c[j] - c[i] >= j - i
      BY DEF Increasing
    <2>1. CASE j \in 1..Len(b)
      <3>1. i \in 1..Len(b)
        BY <1>1, <1>2, <2>1
      <3> QED
        BY <1>2, <2>1, <3>1 DEF Window, Increasing
    <2>2. CASE j = Len(b) + 1
      <3>1. i \in 1..Len(b) /\ Len(b) \in 1..Len(b)
        BY <1>1, <1>2, <2>2
      <3>2. b[Len(b)] - b[i] >= Len(b) - i
        <4>1. CASE i = Len(b)
          BY <1>1, <3>1, <4>1
        <4>2. CASE i # Len(b)
          <5>1. i < Len(b)
            BY <1>1, <3>1, <4>2
          <5> QED
            BY <3>1, <5>1 DEF Window, Increasing
        <4> QED
          BY <4>1, <4>2
      <3>3. c[j] = ref /\ c[i] = b[i] /\ b[Len(b)] < ref
        BY <1>1, <1>2, <2>2, <3>1
      <3> QED
        BY <1>1, <2>2, <3>1, <3>2, <3>3
    <2> QED
      BY <1>1, <1>2, <2>1, <2>2
  <1>5. PICK f \in 1..Len(c) :
              /\ Prune(c, ref) = SubSeq(c, f, Len(c))
              /\ Distance(ref, c[f]) <= InnerSlop
              /\ \A i \in 1..(f - 1) : ~(Distance(ref, c[i]) <= InnerSlop)
    BY <1>2, <1>3, PruneFacts
  <1> DEFINE p == Prune(c, ref)
  <1>6. /\ p \in Seq(Stamps) /\ Len(p) = Len(c) - f + 1 /\ Len(p) \in Nat \ {0}
        /\ \A i \in 1..Len(p) : p[i] = c[f + i - 1] /\ f + i - 1 \in f..Len(c)
    <2>1. f \in Int /\ Len(c) \in Int /\ f <= Len(c) /\ Len(c) \in Nat /\ f >= 1
      BY <1>1, <1>2, <1>5
    <2>2. \A i \in f..Len(c) : c[i] \in Stamps
      BY <1>2, <2>1, ElementOfSeq
    <2>3. /\ SubSeq(c, f, Len(c)) \in Seq(Stamps)
          /\ Len(SubSeq(c, f, Len(c))) = IF f <= Len(c) THEN Len(c) - f + 1 ELSE 0
          /\ \A i \in 1..(Len(c) - f + 1) : SubSeq(c, f, Len(c))[i] = c[f + i - 1]
      BY <2>1, <2>2, SubSeqProperties
    <2>4. p = SubSeq(c, f, Len(c))
      BY <1>5
    <2> HIDE DEF p
    <2>5. Len(p) = Len(c) - f + 1 /\ p \in Seq(Stamps)
          /\ \A i \in 1..(Len(c) - f + 1) : p[i] = c[f + i - 1]
      BY <2>1, <2>3, <2>4
    <2>6. \A i \in 1..(Len(c) - f + 1) : f + i - 1 \in f..Len(c)
      BY <2>1
    <2> QED
      BY <2>1, <2>5, <2>6
  <1> HIDE DEF p
  <1>7. \A i \in 1..Len(p) : f + i - 1 \in 1..Len(c) /\ p[i] = c[f + i - 1]
    BY <1>1, <1>2, <1>5, <1>6
  <1>8. p # <<>> /\ p[Len(p)] = ref
    <2>1. f + Len(p) - 1 = Len(c) /\ Len(p) \in 1..Len(p)
      BY <1>1, <1>2, <1>5, <1>6
    <2>2. p[Len(p)] = c[f + Len(p) - 1]
      BY <1>6, <2>1
    <2> QED
      BY <1>3, <1>6, <2>1, <2>2
  <1>9. Increasing(p)
    <2> SUFFICES ASSUME NEW i \in 1..Len(p), NEW j \in 1..Len(p), i < j
                 PROVE  p[j] - p[i] >= j - i
      BY DEF Increasing
    <2>1. f + i - 1 < f + j - 1 /\ (f + j - 1) - (f + i - 1) = j - i
      BY <1>5, <1>6
    <2> QED
      BY <1>4, <1>7, <2>1 DEF Increasing
  <1>10. \A i \in 1..Len(p) : p[i] \in A \cup {ref} /\ p[i] \in Nat
    BY <1>3, <1>7
  <1>11. \A s \in A \cup {ref} : s <= ref
    BY <1>1, ParameterFacts
  <1>12. ASSUME NEW i \in 1..Len(p) PROVE ref - p[i] <= InnerSlop
    <2>1. ref - c[f] <= InnerSlop /\ c[f] \in Nat
      <3>1. ref \in Int /\ c[f] \in Int /\ InnerSlop \in Int /\ c[f] \in Nat
        BY <1>1, <1>3, <1>5, ParameterFacts
      <3> QED
        BY <1>5, <3>1, DistanceFacts
    <2>2. c[f] <= p[i]
      <3>1. CASE i = 1
        BY <1>5, <1>7, <2>1, <3>1
      <3>2. CASE i # 1
        <4>1. f < f + i - 1 /\ f + i - 1 \in 1..Len(c) /\ (f + i - 1) - f >= 0
          BY <1>5, <1>7, <3>2
        <4>2. c[f + i - 1] - c[f] >= (f + i - 1) - f
          BY <1>4, <4>1 DEF Increasing
        <4>3. p[i] = c[f + i - 1] /\ c[f + i - 1] \in Nat /\ f \in Int
          BY <1>3, <1>5, <1>7, <4>1
        <4>4. c[f + i - 1] - c[f] >= 0
          BY <2>1, <4>1, <4>2, <4>3
        <4> QED
          BY <2>1, <4>3, <4>4
      <3> QED
        BY <3>1, <3>2
    <2> QED
      BY <1>1, <1>10, <2>1, <2>2, ParameterFacts
  <1>13. ASSUME NEW s \in A \cup {ref}, ref - s <= InnerSlop PROVE \E i \in 1..Len(p) : p[i] = s
    <2>1. CASE s = ref
      BY <1>6, <1>8, <2>1
    <2>2. CASE s \in A
      <3>1. s < ref /\ s \in Nat
        BY <2>2, ParameterFacts
      <3>2. b # <<>> /\ Len(b) \in 1..Len(b)
        BY <1>1, <2>2, EmptySeq DEF Window
      <3>3. b[Len(b)] - s <= InnerSlop
        BY <1>1, <1>13, <3>1, <3>2, ParameterFacts
      <3>4. PICK k \in 1..Len(b) : b[k] = s
        BY <2>2, <3>2, <3>3 DEF Window
      <3>5. c[k] = s /\ k \in 1..Len(c)
        BY <1>1, <1>2, <3>4
      <3>6. Distance(ref, c[k]) <= InnerSlop
        BY <1>1, <1>13, <3>1, <3>5, DistanceFacts, ParameterFacts
      <3>7. f <= k
        BY <1>5, <3>5, <3>6
      <3>8. k - f + 1 \in 1..Len(p) /\ f + (k - f + 1) - 1 = k
        BY <1>2, <1>5, <1>6, <3>5, <3>7
      <3> QED
        BY <1>7, <3>5, <3>8
    <2> QED
      BY <2>1, <2>2
  <1> QED
    BY <1>6, <1>8, <1>9, <1>10, <1>11, <1>12, <1>13 DEF Window, p, c

-----------------------------------------------------------------------------
(* Every image of a group is near the stamp it was made for, and its own   *)
(* topic's; of a buffer that ends with newer stamps the first match goes.  *)
LEMMA GroupFacts ==
    ASSUME NEW bufs \in [Topics -> Seq(Stamps)], NEW ref \in Stamps,
           \A u \in Topics : Matches(bufs[u], ref) # {}
    PROVE  \A i \in Topics :
              /\ Group(bufs, ref)[i].topic = i
              /\ Group(bufs, ref)[i] \in Images
              /\ Distance(Group(bufs, ref)[i].stamp, ref) < InterSlop
              /\ \E k \in 1..Len(bufs[i]) : Group(bufs, ref)[i].stamp = bufs[i][k]
  <1> SUFFICES ASSUME NEW i \in Topics
               PROVE  /\ Group(bufs, ref)[i].topic = i
                      /\ Group(bufs, ref)[i] \in Images
                      /\ Distance(Group(bufs, ref)[i].stamp, ref) < InterSlop
                      /\ \E k \in 1..Len(bufs[i]) : Group(bufs, ref)[i].stamp = bufs[i][k]
    OBVIOUS
  <1>1. bufs[i] \in Seq(Stamps) /\ DOMAIN bufs[i] = 1..Len(bufs[i]) /\ Len(bufs[i]) \in Nat
    BY LenProperties
  <1>2. Matches(bufs[i], ref) \in SUBSET Nat /\ Matches(bufs[i], ref) # {}
    BY <1>1 DEF Matches
  <1>3. PICK k \in Matches(bufs[i], ref) : k = First(Matches(bufs[i], ref))
    BY <1>2, FirstFacts
  <1>4. k \in 1..Len(bufs[i]) /\ Distance(bufs[i][k], ref) < InterSlop
    BY <1>1, <1>3 DEF Matches
  <1>5. bufs[i][k] \in Stamps
    BY <1>1, <1>4, ElementOfSeq
  <1>6. Group(bufs, ref)[i] = [topic |-> i, stamp |-> bufs[i][k]]
    BY <1>3 DEF Group
  <1> QED
    BY <1>4, <1>5, <1>6 DEF Images

(* A step of the component: what is buffered and what has arrived. *)
LEMMA ArriveFacts ==
    ASSUME Inv, NEW t \in Topics, NEW ref \in Stamps, \A s \in arrived[t] : s < ref,
           SynchronizeImages(t, ref)
    PROVE  /\ buffers' \in [Topics -> Seq(Stamps)] /\ arrived' \in [Topics -> SUBSET Stamps]
           /\ \A u \in Topics : Window(buffers'[u], arrived'[u])
           /\ arrived'[t] = arrived[t] \cup {ref}
           /\ \A u \in Topics \ {t} : arrived'[u] = arrived[u]
  <1>1. /\ buffers' = [buffers EXCEPT ![t] = Prune(Append(buffers[t], ref), ref)]
        /\ arrived' = [arrived EXCEPT ![t] = arrived[t] \cup {ref}]
    BY DEF SynchronizeImages, Inv
  <1>2. Window(Prune(Append(buffers[t], ref), ref), arrived[t] \cup {ref})
    BY WindowStep DEF Inv
  <1>3. Prune(Append(buffers[t], ref), ref) \in Seq(Stamps)
    BY <1>2 DEF Window
  <1>4. buffers' \in [Topics -> Seq(Stamps)] /\ arrived' \in [Topics -> SUBSET Stamps]
    BY <1>1, <1>3 DEF Inv
  <1>5. ASSUME NEW u \in Topics PROVE Window(buffers'[u], arrived'[u])
    <2>1. CASE u = t
      <3>1. buffers'[u] = Prune(Append(buffers[t], ref), ref) /\ arrived'[u] = arrived[t] \cup {ref}
        BY <1>1, <2>1 DEF Inv
      <3> QED
        BY <1>2, <3>1
    <2>2. CASE u # t
      <3>1. buffers'[u] = buffers[u] /\ arrived'[u] = arrived[u]
        BY <1>1, <2>2 DEF Inv
      <3> QED
        BY <3>1 DEF Inv
    <2> QED
      BY <2>1, <2>2
  <1> QED
    BY <1>1, <1>4, <1>5 DEF Inv

(* Every step keeps the invariant. *)
LEMMA SyncStep == Inv /\ [Next]_vars => Inv'
  <1> SUFFICES ASSUME Inv, [Next]_vars PROVE Inv'
    OBVIOUS
  <1>1. ASSUME NEW t \in Topics, NEW ref \in Stamps, \A s \in arrived[t] : s < ref,
               SynchronizeImages(t, ref)
        PROVE  Inv'
    <2>1. /\ buffers' \in [Topics -> Seq(Stamps)] /\ arrived' \in [Topics -> SUBSET Stamps]
          /\ \A u \in Topics : Window(buffers'[u], arrived'[u])
          /\ \A u \in Topics : arrived[u] \subseteq arrived'[u]
      BY <1>1, ArriveFacts
    <2>2. CASE published' = published
      <3>1. published' \in [Topics -> Images \cup {Nothing}]
        BY <2>2 DEF Inv
      <3>2. Grouped(published, arrived')
        BY <2>1 DEF Inv, Grouped
      <3> QED
        BY <2>1, <2>2, <3>1, <3>2 DEF Inv
    <2>3. CASE published' # published
      <3>1. published' = Group(buffers', ref) /\ \A u \in Topics : Matches(buffers'[u], ref) # {}
        BY <1>1, <2>3 DEF SynchronizeImages
      <3>2. \A i \in Topics :
              /\ published'[i].topic = i /\ published'[i] \in Images
              /\ Distance(published'[i].stamp, ref) < InterSlop
              /\ \E k \in 1..Len(buffers'[i]) : published'[i].stamp = buffers'[i][k]
        BY <2>1, <3>1, GroupFacts
      <3>3. \A i \in Topics : published'[i].stamp \in arrived'[i]
        BY <2>1, <3>2 DEF Window
      <3>4. published' \in [Topics -> Images \cup {Nothing}]
        BY <3>1, <3>2 DEF Group
      <3>5. Grouped(published', arrived')
        BY <1>1, <3>2, <3>3 DEF Grouped
      <3> QED
        BY <2>1, <3>4, <3>5 DEF Inv
    <2> QED
      BY <2>2, <2>3
  <1>2. CASE UNCHANGED vars
    BY <1>2 DEF vars, Inv
  <1> QED
    BY <1>1, <1>2 DEF Next, Arrive, Done

LEMMA SyncInit == Init => Inv
  <1> SUFFICES ASSUME Init PROVE Inv
    OBVIOUS
  <1>1. Window(<<>>, {})
    BY DEF Window, Increasing
  <1> QED
    BY <1>1 DEF Init, Inv, Grouped

(* A buffer is no longer than InnerSlop + 1, because its stamps increase   *)
(* within that slop.                                                       *)
LEMMA WindowLength ==
    ASSUME NEW b, NEW A \in SUBSET Stamps, Window(b, A) PROVE Len(b) <= InnerSlop + 1
  <1>1. b \in Seq(Stamps) /\ Len(b) \in Nat /\ InnerSlop \in Nat
    BY LenProperties, ParameterFacts DEF Window
  <1>2. CASE Len(b) <= 1
    BY <1>1, <1>2
  <1>3. CASE Len(b) > 1
    <2>1. 1 \in 1..Len(b) /\ Len(b) \in 1..Len(b) /\ 1 < Len(b) /\ b # <<>>
      BY <1>1, <1>3
    <2>2. b[Len(b)] - b[1] >= Len(b) - 1
      BY <2>1 DEF Window, Increasing
    <2>3. b[Len(b)] - b[1] <= InnerSlop
      BY <2>1 DEF Window
    <2>4. b[1] \in Nat /\ b[Len(b)] \in Nat
      BY <1>1, <2>1, ElementOfSeq, ParameterFacts
    <2> QED
      BY <1>1, <2>2, <2>3, <2>4
  <1> QED
    BY <1>1, <1>2, <1>3

(* Type correctness, the bound of the buffers included. *)
THEOREM SyncTypes == Spec => []TypeOK
  <1>1. Inv => TypeOK
    BY WindowLength DEF Inv, TypeOK
  <1> QED
    BY <1>1, SyncInit, SyncStep, PTL DEF Spec

(* The last image of a buffer is the newest of its topic. *)
LEMMA NewestFacts ==
    ASSUME NEW b, NEW A \in SUBSET Stamps, Window(b, A), A # {}
    PROVE  /\ b \in Seq(Stamps) /\ DOMAIN b = 1..Len(b) /\ Len(b) \in Nat \ {0}
           /\ Newest(A) = b[Len(b)]
  <1>1. b \in Seq(Stamps) /\ DOMAIN b = 1..Len(b) /\ Len(b) \in Nat \ {0} /\ b # <<>>
    <2>1. b \in Seq(Stamps) /\ b # <<>>
      BY DEF Window
    <2> QED
      BY <2>1, LenProperties, EmptySeq
  <1>2. b[Len(b)] \in A /\ \A r \in A : r <= b[Len(b)]
    BY <1>1 DEF Window
  <1>3. \A s \in A : s \in Nat
    BY ParameterFacts
  <1>4. \A s \in A : (\A r \in A : r <= s) => s = b[Len(b)]
    BY <1>2, <1>3
  <1> QED
    BY <1>1, <1>2, <1>4 DEF Newest

(* What is buffered is what may still match, for every slop. *)
THEOREM NothingUsefulEverDropped == Spec => []NothingUsefulDropped
  <1>1. ASSUME Inv PROVE NothingUsefulDropped
    <2> SUFFICES ASSUME NEW t \in Topics, arrived[t] # {}
                 PROVE  {buffers[t][i] : i \in DOMAIN buffers[t]} =
                            {s \in arrived[t] : Newest(arrived[t]) - s <= InnerSlop}
      BY DEF NothingUsefulDropped
    <2> DEFINE b == buffers[t]
    <2>1. Window(b, arrived[t]) /\ arrived[t] \in SUBSET Stamps
      BY <1>1 DEF Inv
    <2>2. /\ DOMAIN b = 1..Len(b) /\ Len(b) \in Nat \ {0} /\ Newest(arrived[t]) = b[Len(b)]
      BY <2>1, NewestFacts
    <2>3. b # <<>>
      BY <2>1 DEF Window
    <2> QED
      BY <2>1, <2>2, <2>3 DEF Window
  <1> QED
    BY <1>1, SyncInit, SyncStep, PTL DEF Spec

-----------------------------------------------------------------------------
(* A camera whose images are further apart than InnerSlop has one in its   *)
(* buffer, the latest.                                                     *)
LEMMA OneImage ==
    ASSUME NEW b, NEW A \in SUBSET Stamps, Window(b, A), A # {},
           \A r, s \in A : r < s => s - r > InnerSlop
    PROVE  Len(b) = 1 /\ DOMAIN b = {1} /\ b[1] = Newest(A)
  <1>1. /\ b \in Seq(Stamps) /\ DOMAIN b = 1..Len(b) /\ Len(b) \in Nat \ {0}
        /\ Newest(A) = b[Len(b)]
    BY NewestFacts
  <1>2. ASSUME Len(b) > 1 PROVE FALSE
    <2>1. 1 \in 1..Len(b) /\ Len(b) \in 1..Len(b)
      BY <1>1
    <2>2. b[1] \in A /\ b[Len(b)] \in A
      BY <2>1 DEF Window
    <2>3. b[1] \in Nat /\ b[Len(b)] \in Nat
      BY <2>2, ParameterFacts
    <2>4. b[Len(b)] - b[1] >= Len(b) - 1
      BY <1>2, <2>1 DEF Window, Increasing
    <2>5. b[1] < b[Len(b)]
      BY <1>1, <1>2, <2>3, <2>4
    <2>6. b[Len(b)] - b[1] <= InnerSlop
      BY <1>1, <2>1, EmptySeq DEF Window
    <2>7. b[Len(b)] - b[1] > InnerSlop
      BY <2>2, <2>5
    <2> QED
      BY <2>3, <2>6, <2>7, ParameterFacts
  <1>3. Len(b) = 1
    BY <1>1, <1>2
  <1> QED
    BY <1>1, <1>3

(* The image that arrives finds, in every buffer, the latest of its topic. *)
LEMMA LatestFound ==
    ASSUME Inv, [Next]_vars, Spaced', NEW t \in Topics, NEW ref \in Stamps,
           ref \in arrived'[t] \ arrived[t]
    PROVE  IF \A u \in Topics : arrived'[u] # {} /\ Distance(Newest(arrived'[u]), ref) < InterSlop
           THEN {published'[i] : i \in Topics} = {[topic |-> u, stamp |-> Newest(arrived'[u])] : u \in Topics}
           ELSE UNCHANGED published
  <1>1. PICK v \in Topics, r \in Stamps :
            (\A s \in arrived[v] : s < r) /\ SynchronizeImages(v, r)
    BY DEF Next, Arrive, Done, vars
  <1>2. /\ buffers' \in [Topics -> Seq(Stamps)] /\ arrived' \in [Topics -> SUBSET Stamps]
        /\ \A u \in Topics : Window(buffers'[u], arrived'[u])
        /\ arrived'[v] = arrived[v] \cup {r}
        /\ \A u \in Topics \ {v} : arrived'[u] = arrived[u]
    BY <1>1, ArriveFacts
  <1>3. r = ref
    BY <1>2
  <1>4. ASSUME NEW u \in Topics, arrived'[u] # {}
        PROVE  DOMAIN buffers'[u] = {1} /\ buffers'[u][1] = Newest(arrived'[u])
    <2>1. \A q, s \in arrived'[u] : q < s => s - q > InnerSlop
      BY DEF Spaced
    <2> QED
      BY <1>2, <1>4, <2>1, OneImage
  <1>5. ASSUME NEW u \in Topics, arrived'[u] = {} PROVE Matches(buffers'[u], ref) = {}
    <2>1. \A i \in 1..Len(buffers'[u]) : buffers'[u][i] \in {}
      BY <1>2, <1>5 DEF Window
    <2>2. DOMAIN buffers'[u] = 1..Len(buffers'[u])
      BY <1>2, LenProperties
    <2> QED
      BY <2>1, <2>2 DEF Matches
  <1>6. ASSUME NEW u \in Topics, arrived'[u] # {}
        PROVE  Matches(buffers'[u], ref) =
                  IF Distance(Newest(arrived'[u]), ref) < InterSlop THEN {1} ELSE {}
    BY <1>4, <1>6 DEF Matches
  <1>7. CASE \A u \in Topics : arrived'[u] # {} /\ Distance(Newest(arrived'[u]), ref) < InterSlop
    <2>1. \A u \in Topics : Matches(buffers'[u], ref) = {1}
      BY <1>6, <1>7
    <2>2. published' = Group(buffers', ref)
      BY <1>1, <1>3, <2>1 DEF SynchronizeImages
    <2>3. First({1}) = 1
      BY FirstFacts
    <2>4. \A u \in Topics : published'[u] = [topic |-> u, stamp |-> Newest(arrived'[u])]
      BY <1>4, <1>7, <2>1, <2>2, <2>3 DEF Group
    <2> QED
      BY <1>7, <2>4
  <1>8. CASE ~(\A u \in Topics : arrived'[u] # {} /\ Distance(Newest(arrived'[u]), ref) < InterSlop)
    <2>1. PICK u \in Topics : ~(arrived'[u] # {} /\ Distance(Newest(arrived'[u]), ref) < InterSlop)
      BY <1>8
    <2>2. Matches(buffers'[u], ref) = {}
      BY <1>5, <1>6, <2>1
    <2>3. published' = published
      BY <1>1, <1>3, <2>2 DEF SynchronizeImages
    <2> QED
      BY <1>8, <2>3
  <1> QED
    BY <1>7, <1>8

(* With cameras slower than InnerSlop only the latest images go out, for   *)
(* every number of topics and both slops.                                  *)
THEOREM LatestAlwaysGoOut == Spec => LatestGoOut
  <1>1. Inv /\ [Next]_vars =>
          [Spaced' => \A t \in Topics, ref \in Stamps :
             ref \in arrived'[t] \ arrived[t] =>
                IF \A u \in Topics : arrived'[u] # {} /\ Distance(Newest(arrived'[u]), ref) < InterSlop
                THEN {published'[i] : i \in Topics} = {[topic |-> u, stamp |-> Newest(arrived'[u])] : u \in Topics}
                ELSE UNCHANGED published]_vars
    BY LatestFound
  <1> QED
    BY <1>1, SyncInit, SyncStep, PTL DEF Spec, LatestGoOut

-----------------------------------------------------------------------------
(* A group that goes out is made for the stamp that has just arrived, out  *)
(* of windows.                                                             *)
LEMMA Regression ==
    ASSUME Inv, [Next]_vars, NEW i \in Topics
    PROVE  published'[i].stamp >= published[i].stamp - InnerSlop
  <1>1. published[i].stamp \in Int /\ (published[i] # Nothing => published[i].stamp \in arrived[i])
        /\ (published[i] = Nothing => published[i].stamp = -1)
    <2>1. CASE published[i] = Nothing
      BY <2>1 DEF Nothing
    <2>2. CASE published[i] # Nothing
      <3>1. published[i] \in Images /\ published[i].stamp \in arrived[i]
        BY <2>2 DEF Inv, Grouped
      <3>2. published[i].stamp \in Stamps
        BY <3>1 DEF Images
      <3>3. \A s \in Stamps : s \in Int
        BY ParameterFacts
      <3>4. published[i].stamp \in Int
        BY <3>2, <3>3
      <3> QED
        BY <2>2, <3>1, <3>4, Zenon
    <2> QED
      BY <2>1, <2>2
  <1>2. CASE published' = published
    BY <1>1, <1>2, ParameterFacts
  <1>3. ASSUME published' # published, NEW t \in Topics, NEW ref \in Stamps,
               \A s \in arrived[t] : s < ref, SynchronizeImages(t, ref)
        PROVE  published'[i].stamp >= published[i].stamp - InnerSlop
    <2>1. /\ buffers' \in [Topics -> Seq(Stamps)] /\ arrived[i] \subseteq arrived'[i]
          /\ Window(buffers'[i], arrived'[i])
      BY <1>3, ArriveFacts
    <2>2. published' = Group(buffers', ref) /\ \A u \in Topics : Matches(buffers'[u], ref) # {}
      BY <1>3 DEF SynchronizeImages
    <2>3. PICK k \in 1..Len(buffers'[i]) : published'[i].stamp = buffers'[i][k]
      BY <2>1, <2>2, GroupFacts
    <2> DEFINE b == buffers'[i]
    <2>4. /\ b \in Seq(Stamps) /\ Len(b) \in Nat /\ Len(b) \in 1..Len(b) /\ b # <<>>
          /\ b[k] \in Nat /\ b[Len(b)] \in Nat
      <3>1. b \in Seq(Stamps) /\ Len(b) \in Nat /\ k \in 1..Len(b)
        BY <2>1, <2>3, LenProperties
      <3>2. Len(b) \in 1..Len(b) /\ b # <<>>
        BY <3>1
      <3> QED
        BY <3>1, <3>2, ElementOfSeq, ParameterFacts
    <2>5. b[Len(b)] - b[k] <= InnerSlop /\ \A s \in arrived'[i] : s <= b[Len(b)]
      BY <2>1, <2>3, <2>4 DEF Window
    <2>6. CASE published[i] = Nothing
      BY <1>1, <2>3, <2>4, <2>6, ParameterFacts
    <2>7. CASE published[i] # Nothing
      <3>1. published[i].stamp <= b[Len(b)]
        BY <1>1, <2>1, <2>5, <2>7
      <3> QED
        BY <1>1, <2>3, <2>4, <2>5, <3>1, ParameterFacts
    <2> QED
      BY <2>6, <2>7
  <1>4. CASE UNCHANGED vars
    BY <1>2, <1>4 DEF vars
  <1> QED
    BY <1>2, <1>3, <1>4 DEF Next, Arrive, Done

(* The stamp that completes a group is the one that arrives, and every     *)
(* buffer holds it.                                                        *)
LEMMA Completion ==
    ASSUME Inv, [Next]_vars, NEW k \in Stamps,
           \A t \in Topics : k \in arrived'[t],
           \E t \in Topics : k \notin arrived[t],
           \A t \in Topics : \A s \in arrived'[t] : s - k <= InnerSlop,
           InterSlop > 0
    PROVE  \A i \in Topics : Distance(published'[i].stamp, k) < InterSlop
  <1>1. PICK t \in Topics, ref \in Stamps :
            (\A s \in arrived[t] : s < ref) /\ SynchronizeImages(t, ref)
    BY DEF Next, Arrive, Done, vars
  <1>2. /\ buffers' \in [Topics -> Seq(Stamps)]
        /\ \A u \in Topics : Window(buffers'[u], arrived'[u])
        /\ arrived'[t] = arrived[t] \cup {ref}
        /\ \A u \in Topics \ {t} : arrived'[u] = arrived[u]
    BY <1>1, ArriveFacts
  <1>3. k = ref
    BY <1>2
  <1>4. ASSUME NEW u \in Topics PROVE Matches(buffers'[u], ref) # {}
    <2> DEFINE b == buffers'[u]
    <2>1. b \in Seq(Stamps) /\ Window(b, arrived'[u]) /\ k \in arrived'[u] /\ b # <<>>
      BY <1>2 DEF Window
    <2>2. Len(b) \in 1..Len(b) /\ DOMAIN b = 1..Len(b)
      BY <2>1, LenProperties, EmptySeq
    <2>3. b[Len(b)] - k <= InnerSlop
      BY <2>1, <2>2 DEF Window
    <2>4. PICK j \in 1..Len(b) : b[j] = k
      BY <2>1, <2>3 DEF Window
    <2>5. Distance(b[j], ref) < InterSlop
      <3>1. Distance(ref, ref) = 0
        BY DistanceFacts, ParameterFacts
      <3> QED
        BY <1>3, <2>4, <3>1, ParameterFacts
    <2>6. j \in Matches(b, ref)
      BY <2>2, <2>5 DEF Matches
    <2> QED
      BY <2>6
  <1>5. published' = Group(buffers', ref)
    BY <1>1, <1>4 DEF SynchronizeImages
  <1> QED
    BY <1>2, <1>3, <1>4, <1>5, GroupFacts

(* A complete group is never passed over, and a publisher goes back in     *)
(* time by InnerSlop at most, for every number of topics and both slops.   *)
THEOREM PublicationAlwaysSound == Spec => PublicationIsSound
  <1>1. Inv /\ [Next]_vars =>
          [\A k \in Stamps :
             /\ \A t \in Topics : k \in arrived'[t]
             /\ \E t \in Topics : k \notin arrived[t]
             /\ \A t \in Topics : \A s \in arrived'[t] : s - k <= InnerSlop
             /\ InterSlop > 0
             => \A i \in Topics : Distance(published'[i].stamp, k) < InterSlop]_vars
    BY Completion
  <1>2. Inv /\ [Next]_vars =>
          [\A i \in Topics : published'[i].stamp >= published[i].stamp - InnerSlop]_vars
    BY Regression
  <1> QED
    BY <1>1, <1>2, SyncInit, SyncStep, PTL
       DEF Spec, PublicationIsSound, CompleteGroupIsPublished, RegressionIsBounded

=============================================================================
