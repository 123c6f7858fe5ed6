---------------------------- MODULE SensorProofs ----------------------------
(***************************************************************************)
(* Theorems of the two nodes that turn what a sensor says into messages:   *)
(* of BmsNode, for every width of the numbers, depth of the queue and      *)
(* number of objects sent, and of PointCloudGrid, for every size of the    *)
(* grid, every scale of the averages and any clouds and maps. The nodes    *)
(* share nothing.                                                          *)
(***************************************************************************)
EXTENDS BmsNode, PointCloudGrid, SequenceTheorems, FiniteSetTheorems, TLAPS

(* The objects, one by one. *)
LEMMA ObjectFacts ==
    Objects = {"batteryStatus", "chargerStatus", "current", "voltage", "batterySoc",
               "chargerSoc", "chargeRequest"}
  BY DEF Objects, Meaning

(* What the BMS may mean is a number below the one that stands for none.   *)
LEMMA MeaningFacts ==
    /\ Meaning["batteryStatus"] = {0, 1} /\ Meaning["chargerStatus"] = 0..4
    /\ Meaning["current"] = Signed
    /\ \A o \in Objects \ {"current"} : Meaning[o] \subseteq 0..4
    /\ \A o \in Objects : \A v \in Meaning[o] : v \in Int /\ v < Unheard
  <1>1. \A o \in Objects \ {"current"} : Meaning[o] \subseteq 0..4
    BY ObjectFacts DEF Meaning
  <1>2. Meaning["current"] = Signed /\ Meaning["batteryStatus"] = {0, 1}
        /\ Meaning["chargerStatus"] = 0..4
    BY DEF Meaning
  <1>3. \A v \in Signed \cup 0..4 : v \in Int /\ v < Unheard
    BY BmsNodeAssumption DEF Signed, Unheard
  <1> QED
    BY <1>1, <1>2, <1>3

(* The two's complement on the bus is read as what was meant: a signed     *)
(* number by Decode, a small one as it is.                                 *)
LEMMA DecodeFacts ==
    /\ \A v \in Signed : Decode(Encode(v)) = v
    /\ \A v \in 0..4 : Encode(v) = v
  <1> DEFINE M == 2 * Half
  <1>1. M \in Int /\ M > 4 /\ Half \in Int
    BY BmsNodeAssumption
  <1>2. ASSUME NEW w \in Int, 0 <= w, w < M PROVE w % M = w
    <2> HIDE DEF M
    <2> QED
      BY <1>1, <1>2, SMTT(60)
  <1>3. ASSUME NEW w \in Int, 0 <= w, w < M PROVE (w - M) % M = w
    <2> HIDE DEF M
    <2> QED
      BY <1>1, <1>3, SMTT(60)
  <1>4. ASSUME NEW v \in Signed PROVE Decode(Encode(v)) = v
    <2>1. v \in Int /\ -Half <= v /\ v < Half
      BY <1>1 DEF Signed
    <2>2. CASE v >= 0
      <3>1. v % M = v
        BY <1>1, <1>2, <2>1, <2>2
      <3> QED
        BY <2>1, <3>1 DEF Encode, Decode
    <2>3. CASE v < 0
      <3>1. v + M \in Int /\ 0 <= v + M /\ v + M < M /\ (v + M) - M = v
        BY <1>1, <2>1, <2>3
      <3>2. v % M = v + M
        BY <1>3, <3>1
      <3> QED
        BY <1>1, <2>1, <2>3, <3>2 DEF Encode, Decode
    <2> QED
      BY <2>1, <2>2, <2>3
  <1>5. ASSUME NEW v \in 0..4 PROVE Encode(v) = v
    BY <1>1, <1>2 DEF Encode
  <1> QED
    BY <1>4, <1>5

-----------------------------------------------------------------------------
(* Whether an object has an entry in the queue. *)
Waits(o) == \E i \in 1..Len(rpdo) : rpdo[i].object = o

(* What an entry may carry for its object. *)
EntryFits(e) ==
    /\ e.object \in Objects
    /\ \E v \in Meaning[e.object] : e.data = Encode(v)

(* Types, as far as they are inductive by themselves; a power supply       *)
(* status that is always the one of the two statuses kept; and a timer     *)
(* that is off only when there is nothing to publish.                      *)
Kept ==
    /\ TypeOK
    /\ sent \in [Objects -> Int]
    /\ \A o \in Objects : sent[o] \in Meaning[o] \cup {Unheard}
    /\ rpdo \in Seq([object : Objects, data : Int])
    /\ \A i \in 1..Len(rpdo) : EntryFits(rpdo[i])
    /\ battery_state.power_supply_status = PowerSupply(battery_status, charger_status)
    /\ send_timer = "off" => published = battery_state

(* What the node holds of an object it keeps as it is. *)
Holds(o) ==
    CASE o = "batteryStatus" -> battery_status
      [] o = "chargerStatus" -> charger_status
      [] o = "current" -> battery_state.current
      [] o = "voltage" -> battery_state.voltage

Held == {"batteryStatus", "chargerStatus", "current", "voltage"}

(* As long as nothing has been dropped, the last entry of an object is     *)
(* what the BMS last said of it, and what has no entry any more has been   *)
(* taken over.                                                             *)
Faithful ==
    /\ \A i \in 1..Len(rpdo) :
          (\A j \in (i + 1)..Len(rpdo) : rpdo[j].object # rpdo[i].object)
              => rpdo[i].data = Encode(sent[rpdo[i].object])
    /\ \A i \in 1..Len(rpdo) : Heard(rpdo[i].object)
    /\ \A o \in Held : Heard(o) /\ ~Waits(o) => Holds(o) = sent[o]
    /\ ~Heard("chargerStatus") => charger_status = 0
    /\ Heard("batterySoc") /\ ~Heard("chargerSoc") /\ ~Waits("batterySoc") =>
          battery_state.percentage = sent["batterySoc"]
    /\ battery_state.present => \E o \in Objects : Heard(o)
    /\ (\E o \in Objects : Heard(o)) => battery_state.present \/ rpdo # <<>>

(* The status of the power supply is one of the five. *)
LEMMA PowerSupplyFacts ==
    /\ \A b, c : PowerSupply(b, c) \in Statuses
    /\ \A c : PowerSupply(1, c) = CASE c = 1 -> "charging" [] c = 4 -> "full" [] OTHER -> "discharging"
    /\ PowerSupply(0, 0) = "unknown"
  BY DEF PowerSupply, Statuses

(* With nothing queued, nothing dropped and the timer off, that is the     *)
(* property.                                                               *)
LEMMA FaithfulImplies == Kept /\ (~dropped => Faithful) => SettledIsTrue
  <1> SUFFICES ASSUME Kept, Faithful, rpdo = <<>>, send_timer = "off", ~dropped
               PROVE  /\ Heard("current") => published.current = sent["current"]
                      /\ Heard("voltage") => published.voltage = sent["voltage"]
                      /\ Heard("batterySoc") /\ ~Heard("chargerSoc") =>
                           published.percentage = sent["batterySoc"]
                      /\ published.present <=> \E o \in Objects : Heard(o)
                      /\ sent["batteryStatus"] = 1 =>
                           published.power_supply_status =
                              CASE sent["chargerStatus"] = 1 -> "charging"
                                [] sent["chargerStatus"] = 4 -> "full"
                                [] OTHER -> "discharging"
    BY DEF SettledIsTrue
  <1>1. published = battery_state /\ Len(rpdo) = 0 /\ \A o : ~Waits(o)
    BY DEF Kept, Waits
  <1>2. \A o \in Held : Heard(o) => Holds(o) = sent[o]
    BY <1>1 DEF Faithful
  <1>3. Heard("current") => published.current = sent["current"]
    BY <1>1, <1>2 DEF Held, Holds
  <1>4. Heard("voltage") => published.voltage = sent["voltage"]
    BY <1>1, <1>2 DEF Held, Holds
  <1>5. Heard("batterySoc") /\ ~Heard("chargerSoc") => published.percentage = sent["batterySoc"]
    BY <1>1 DEF Faithful
  <1>6. published.present <=> \E o \in Objects : Heard(o)
    BY <1>1 DEF Faithful
  <1>7. ASSUME sent["batteryStatus"] = 1
        PROVE  published.power_supply_status =
                  CASE sent["chargerStatus"] = 1 -> "charging"
                    [] sent["chargerStatus"] = 4 -> "full"
                    [] OTHER -> "discharging"
    <2>1. 1 # Unheard /\ 4 # Unheard
      BY BmsNodeAssumption DEF Unheard
    <2>2. battery_status = 1
      BY <1>2, <1>7, <2>1 DEF Held, Holds, Heard
    <2>3. CASE Heard("chargerStatus")
      <3>1. charger_status = sent["chargerStatus"]
        BY <1>2, <2>3 DEF Held, Holds
      <3> QED
        BY <1>1, <2>2, <3>1, PowerSupplyFacts DEF Kept
    <2>4. CASE ~Heard("chargerStatus")
      <3>1. charger_status = 0 /\ sent["chargerStatus"] = Unheard
        BY <2>4 DEF Faithful, Heard
      <3> QED
        BY <1>1, <2>1, <2>2, <3>1, PowerSupplyFacts DEF Kept
    <2> QED
      BY <2>3, <2>4
  <1> QED
    BY <1>3, <1>4, <1>5, <1>6, <1>7

(* The BMS says something: the new entry is the last one of its object.    *)
LEMMA SendsStep ==
    ASSUME Kept, ~dropped => Faithful, NEW o \in Objects, NEW v \in Meaning[o], BmsSends(o, v)
    PROVE  Kept' /\ (~dropped' => Faithful')
  <1> DEFINE e == [object |-> o, data |-> Encode(v)]
             rest == IF Len(rpdo) = Depth THEN Tail(rpdo) ELSE rpdo
  <1>1. v \in Int /\ v < Unheard /\ Encode(v) \in Int /\ Unheard \in Int
    BY MeaningFacts, BmsNodeAssumption DEF Encode, Unheard
  <1>2. e \in [object : Objects, data : Int] /\ EntryFits(e)
    BY <1>1 DEF EntryFits
  <1>3. rpdo \in Seq([object : Objects, data : Int]) /\ Len(rpdo) \in Nat /\ Len(rpdo) <= Depth
        /\ Depth \in Nat \ {0}
    BY BmsNodeAssumption DEF Kept, TypeOK
  <1>4. /\ rest \in Seq([object : Objects, data : Int]) /\ Len(rest) \in Nat /\ Len(rest) < Depth
        /\ \A i \in 1..Len(rest) : EntryFits(rest[i])
    <2>1. CASE Len(rpdo) = Depth
      <3>1. rpdo # <<>>
        BY <1>3, <2>1
      <3>2. /\ Tail(rpdo) \in Seq([object : Objects, data : Int])
            /\ Len(Tail(rpdo)) = Len(rpdo) - 1
            /\ \A i \in 1..Len(Tail(rpdo)) : Tail(rpdo)[i] = rpdo[i + 1]
        BY <1>3, <3>1, HeadTailProperties
      <3>3. \A i \in 1..Len(Tail(rpdo)) : i + 1 \in 1..Len(rpdo)
        BY <1>3, <3>2
      <3> QED
        BY <1>3, <2>1, <3>2, <3>3 DEF Kept
    <2>2. CASE Len(rpdo) # Depth
      BY <1>3, <2>2 DEF Kept
    <2> QED
      BY <2>1, <2>2
  <1>5. rpdo' = Append(rest, e)
    BY DEF BmsSends
  <1>6. ~dropped' => ~dropped /\ rest = rpdo
    BY DEF BmsSends
  <1> HIDE DEF rest
  <1>7. /\ rpdo' \in Seq([object : Objects, data : Int]) /\ Len(rpdo') = Len(rest) + 1
        /\ \A i \in 1..Len(rest) : rpdo'[i] = rest[i]
        /\ rpdo'[Len(rest) + 1] = e /\ rpdo' # <<>>
    BY <1>2, <1>4, <1>5, AppendProperties
  <1>8. sent' = [sent EXCEPT ![o] = v] /\ UNCHANGED nodeVars
    BY DEF BmsSends
  <1>9. Kept'
    <2>1. TypeOK'
      <3>1. count' \in 0..MaxSent
        BY BmsNodeAssumption DEF Kept, TypeOK, BmsSends
      <3>2. dropped' \in BOOLEAN
        BY DEF Kept, TypeOK, BmsSends
      <3>3. Len(rpdo') <= Depth
        BY <1>3, <1>4, <1>7
      <3> QED
        BY <1>8, <3>1, <3>2, <3>3 DEF Kept, TypeOK, nodeVars
    <2>2. sent' \in [Objects -> Int] /\ \A u \in Objects : sent'[u] \in Meaning[u] \cup {Unheard}
      BY <1>1, <1>8 DEF Kept
    <2>3. \A i \in 1..Len(rpdo') : EntryFits(rpdo'[i])
      BY <1>2, <1>4, <1>7
    <2> QED
      BY <1>7, <1>8, <2>1, <2>2, <2>3 DEF Kept, EntryFits, nodeVars
  <1>10. ASSUME ~dropped' PROVE Faithful'
    <2>1. /\ Faithful /\ Len(rpdo') = Len(rpdo) + 1 /\ rpdo'[Len(rpdo) + 1] = e
          /\ \A i \in 1..Len(rpdo) : rpdo'[i] = rpdo[i]
      BY <1>6, <1>7, <1>10
    <2>2. Heard(o)' /\ sent'[o] = v /\ \A u \in Objects \ {o} : sent'[u] = sent[u]
      BY <1>1, <1>8 DEF Kept, Heard
    <2>3. \A u \in Objects : Heard(u) => Heard(u)'
      BY <2>2 DEF Heard
    <2>4. Waits(o)' /\ \A u \in Objects : Waits(u) => Waits(u)'
      BY <1>3, <2>1 DEF Waits
    <2>5. ASSUME NEW i \in 1..Len(rpdo'),
                 \A j \in (i + 1)..Len(rpdo') : rpdo'[j].object # rpdo'[i].object
          PROVE  rpdo'[i].data = Encode(sent'[rpdo'[i].object])
      <3>1. CASE i = Len(rpdo) + 1
        BY <2>1, <2>2, <3>1
      <3>2. CASE i \in 1..Len(rpdo)
        <4>1. rpdo'[i] = rpdo[i] /\ rpdo[i].object \in Objects \ {o}
          <5>1. Len(rpdo) + 1 \in (i + 1)..Len(rpdo')
            BY <1>3, <2>1, <3>2
          <5>2. rpdo'[i] = rpdo[i] /\ e.object = o
            BY <2>1, <3>2
          <5>3. rpdo'[Len(rpdo) + 1].object # rpdo'[i].object
            BY <2>5, <5>1
          <5>4. rpdo[i].object # o
            BY <2>1, <5>2, <5>3
          <5>5. EntryFits(rpdo[i])
            BY <3>2 DEF Kept
          <5> QED
            BY <5>2, <5>4, <5>5 DEF EntryFits
        <4>2. \A j \in (i + 1)..Len(rpdo) : j \in (i + 1)..Len(rpdo') /\ j \in 1..Len(rpdo)
          BY <1>3, <2>1, <3>2
        <4>3. \A j \in (i + 1)..Len(rpdo) : rpdo[j].object # rpdo[i].object
          BY <2>1, <2>5, <4>1, <4>2
        <4> QED
          BY <2>1, <2>2, <3>2, <4>1, <4>3 DEF Faithful
      <3> QED
        BY <1>3, <2>1, <3>1, <3>2
    <2>6. ASSUME NEW i \in 1..Len(rpdo') PROVE sent'[rpdo'[i].object] # Unheard
      <3>1. CASE i \in 1..Len(rpdo)
        <4>1. rpdo'[i] = rpdo[i] /\ rpdo[i].object \in Objects /\ Heard(rpdo[i].object)
          BY <2>1, <3>1 DEF Faithful, Kept, EntryFits
        <4> QED
          BY <2>3, <4>1 DEF Heard
      <3>2. CASE i = Len(rpdo) + 1
        <4>1. rpdo'[i].object = o
          BY <2>1, <3>2
        <4> QED
          BY <2>2, <4>1 DEF Heard
      <3> QED
        BY <1>3, <2>1, <3>1, <3>2
    <2>7. \A u \in Held : Heard(u)' /\ ~Waits(u)' => Holds(u)' = sent'[u]
      BY <1>8, <2>1, <2>2, <2>4, ObjectFacts DEF Faithful, Holds, Held, Heard, nodeVars
    <2>8. ~Heard("chargerStatus")' => charger_status' = 0
      BY <1>8, <2>1, <2>3, ObjectFacts DEF Faithful, nodeVars
    <2>9. Heard("batterySoc")' /\ ~Heard("chargerSoc")' /\ ~Waits("batterySoc")' =>
             battery_state'.percentage = sent'["batterySoc"]
      BY <1>8, <2>1, <2>2, <2>3, <2>4, ObjectFacts DEF Faithful, Heard, nodeVars
    <2>10. rpdo' # <<>> /\ \E u \in Objects : Heard(u)'
      BY <1>7, <2>2
    <2>11. (\A i \in 1..Len(rpdo) :
              (\A j \in (i + 1)..Len(rpdo) : rpdo[j].object # rpdo[i].object)
                  => rpdo[i].data = Encode(sent[rpdo[i].object]))'
      BY <2>5
    <2>12. (\A i \in 1..Len(rpdo) : Heard(rpdo[i].object))'
      BY <2>6 DEF Heard
    <2> QED
      BY <2>7, <2>8, <2>9, <2>10, <2>11, <2>12 DEF Faithful
  <1> QED
    BY <1>9, <1>10

(* The node takes over the first entry. *)
LEMMA CodataStep ==
    ASSUME Kept, ~dropped => Faithful, OnCodata
    PROVE  Kept' /\ (~dropped' => Faithful')
  <1>1. /\ rpdo # <<>> /\ rpdo \in Seq([object : Objects, data : Int]) /\ rpdo' = Tail(rpdo)
        /\ UNCHANGED <<sent, count, dropped, published>> /\ send_timer' = "running"
    BY DEF Kept, OnCodata
  <1>2. /\ rpdo' \in Seq([object : Objects, data : Int]) /\ Len(rpdo) \in Nat \ {0}
        /\ Len(rpdo') = Len(rpdo) - 1
        /\ \A i \in 1..Len(rpdo') : i + 1 \in 1..Len(rpdo) /\ rpdo'[i] = rpdo[i + 1]
        /\ 1 \in 1..Len(rpdo) /\ Head(rpdo) = rpdo[1]
    <2>1. /\ Tail(rpdo) \in Seq([object : Objects, data : Int])
          /\ Len(Tail(rpdo)) = Len(rpdo) - 1
          /\ \A i \in 1..Len(Tail(rpdo)) : Tail(rpdo)[i] = rpdo[i + 1]
      BY <1>1, HeadTailProperties
    <2>2. Len(rpdo) \in Nat \ {0}
      BY <1>1, EmptySeq
    <2> QED
      BY <1>1, <2>1, <2>2
  <1>3. EntryFits(Head(rpdo))
    BY <1>2 DEF Kept
  <1>9. PICK o, data : o = Head(rpdo).object /\ data = Head(rpdo).data
    OBVIOUS
  <1>4. PICK v \in Meaning[o] : data = Encode(v)
    BY <1>3, <1>9 DEF EntryFits
  <1>5. /\ o \in Objects
        /\ o # "current" => data = v /\ v \in 0..4
        /\ o = "current" => Decode(data) = v /\ v \in Signed
        /\ o = "batteryStatus" => v \in {0, 1}
    BY <1>3, <1>4, <1>9, MeaningFacts, DecodeFacts, ObjectFacts DEF EntryFits
  <1>6. /\ battery_status' = IF o = "batteryStatus" THEN data ELSE battery_status
        /\ charger_status' = IF o = "chargerStatus" THEN data ELSE charger_status
        /\ battery_state' =
                [power_supply_status |->
                    IF o \in {"batteryStatus", "chargerStatus"}
                    THEN PowerSupply(battery_status', charger_status')
                    ELSE battery_state.power_supply_status,
                 current |-> IF o = "current" THEN Decode(data) ELSE battery_state.current,
                 voltage |-> IF o = "voltage" THEN data ELSE battery_state.voltage,
                 percentage |-> IF o \in {"batterySoc", "chargerSoc"}
                                THEN data ELSE battery_state.percentage,
                 present |-> TRUE]
    BY <1>9 DEF OnCodata
  <1>7. Kept'
    <2>1. battery_status' \in {0, 1} /\ charger_status' \in 0..4
      BY <1>5, <1>6 DEF Kept, TypeOK
    <2>2. battery_state'.power_supply_status = PowerSupply(battery_status', charger_status')
      BY <1>6 DEF Kept
    <2>3. battery_state'.current \in Signed \cup {Unheard}
      BY <1>5, <1>6 DEF Kept, TypeOK
    <2>4. TypeOK'
      BY <1>1, <1>2, <2>1, <2>2, <2>3, PowerSupplyFacts, BmsNodeAssumption DEF Kept, TypeOK
    <2>5. \A i \in 1..Len(rpdo') : EntryFits(rpdo'[i])
      BY <1>2 DEF Kept
    <2> QED
      BY <1>1, <1>2, <2>2, <2>4, <2>5 DEF Kept, EntryFits
  <1>8. ASSUME ~dropped' PROVE Faithful'
    <2>1. Faithful /\ sent' = sent
      BY <1>1, <1>8
    <2>2. Heard(o)
      BY <1>2, <1>9, <2>1 DEF Faithful
    <2>3. \A u : Waits(u) => Waits(u)' \/ u = o
      <3> SUFFICES ASSUME NEW u, Waits(u), u # o PROVE Waits(u)'
        OBVIOUS
      <3>1. PICK i \in 1..Len(rpdo) : rpdo[i].object = u
        BY DEF Waits
      <3>2. i # 1
        BY <1>2, <1>9, <3>1
      <3>3. i - 1 \in 1..Len(rpdo') /\ (i - 1) + 1 = i
        BY <1>2, <3>2
      <3> QED
        BY <1>2, <3>1, <3>3 DEF Waits
    <2>4. ~Waits(o)' => v = sent[o]
      <3> SUFFICES ASSUME ~Waits(o)' PROVE v = sent[o]
        OBVIOUS
      <3>1. \A j \in 2..Len(rpdo) : rpdo[j].object # rpdo[1].object
        <4> SUFFICES ASSUME NEW j \in 2..Len(rpdo) PROVE rpdo[j].object # o
          BY <1>2, <1>9
        <4>1. j - 1 \in 1..Len(rpdo') /\ (j - 1) + 1 = j
          BY <1>2
        <4>2. rpdo'[j - 1] = rpdo[j]
          BY <1>2, <4>1
        <4> QED
          BY <4>1, <4>2 DEF Waits
      <3>2. data = Encode(sent[o])
        BY <1>2, <1>9, <2>1, <3>1 DEF Faithful
      <3>3. sent[o] \in Meaning[o]
        BY <1>5, <2>2 DEF Kept, Heard
      <3>4. CASE o = "current"
        BY <1>5, <3>2, <3>3, <3>4, MeaningFacts, DecodeFacts
      <3>5. CASE o # "current"
        BY <1>5, <3>2, <3>3, <3>5, MeaningFacts, DecodeFacts
      <3> QED
        BY <3>4, <3>5
    <2>5. ASSUME NEW i \in 1..Len(rpdo'),
                 \A j \in (i + 1)..Len(rpdo') : rpdo'[j].object # rpdo'[i].object
          PROVE  rpdo'[i].data = Encode(sent'[rpdo'[i].object])
      <3>1. i + 1 \in 1..Len(rpdo) /\ rpdo'[i] = rpdo[i + 1]
        BY <1>2
      <3>2. \A j \in ((i + 1) + 1)..Len(rpdo) : rpdo[j].object # rpdo[i + 1].object
        <4> SUFFICES ASSUME NEW j \in ((i + 1) + 1)..Len(rpdo) PROVE rpdo[j].object # rpdo[i + 1].object
          OBVIOUS
        <4>1. j - 1 \in (i + 1)..Len(rpdo') /\ j - 1 \in 1..Len(rpdo') /\ (j - 1) + 1 = j
          BY <1>2
        <4> QED
          BY <1>2, <2>5, <3>1, <4>1
      <3> QED
        BY <2>1, <3>1, <3>2 DEF Faithful
    <2>6. \A i \in 1..Len(rpdo') : sent'[rpdo'[i].object] # Unheard
      <3>1. \A i \in 1..Len(rpdo) : sent[rpdo[i].object] # Unheard
        BY <2>1 DEF Faithful, Heard
      <3> QED
        BY <1>2, <2>1, <3>1
    <2>7. \A u \in Held : Heard(u)' /\ ~Waits(u)' => Holds(u)' = sent'[u]
      <3> SUFFICES ASSUME NEW u \in Held, Heard(u), ~Waits(u)' PROVE Holds(u)' = sent[u]
        BY <2>1 DEF Heard
      <3>1. CASE u = o
        <4>1. ~Waits(o)'
          BY <3>1
        <4>2. v = sent[u]
          BY <2>4, <3>1, <4>1
        <4> QED
          BY <1>5, <1>6, <3>1, <4>2 DEF Holds, Held
      <3>2. CASE u # o
        <4>1. Holds(u) = sent[u]
          BY <2>1, <2>3, <3>2 DEF Faithful
        <4>2. Holds(u)' = Holds(u)
          BY <1>6, <3>2 DEF Holds, Held
        <4> QED
          BY <4>1, <4>2
      <3> QED
        BY <3>1, <3>2
    <2>8. ~Heard("chargerStatus")' => charger_status' = 0
      BY <1>6, <2>1, <2>2 DEF Faithful, Heard
    <2>9. Heard("batterySoc")' /\ ~Heard("chargerSoc")' /\ ~Waits("batterySoc")' =>
             battery_state'.percentage = sent'["batterySoc"]
      <3> SUFFICES ASSUME Heard("batterySoc"), ~Heard("chargerSoc"), ~Waits("batterySoc")'
                   PROVE  battery_state'.percentage = sent["batterySoc"]
        BY <2>1 DEF Heard
      <3>1. o # "chargerSoc"
        BY <2>2
      <3>2. CASE o = "batterySoc"
        <4>1. ~Waits(o)'
          BY <3>2
        <4>2. v = sent["batterySoc"] /\ data = v
          BY <1>5, <2>4, <3>2, <4>1
        <4> QED
          BY <1>6, <3>2, <4>2
      <3>3. CASE o # "batterySoc"
        BY <1>6, <2>1, <2>3, <3>1, <3>3 DEF Faithful
      <3> QED
        BY <3>2, <3>3
    <2>10. battery_state'.present /\ \E u \in Objects : Heard(u)'
      BY <1>5, <1>6, <2>1, <2>2 DEF Heard
    <2>11. (\A i \in 1..Len(rpdo) :
              (\A j \in (i + 1)..Len(rpdo) : rpdo[j].object # rpdo[i].object)
                  => rpdo[i].data = Encode(sent[rpdo[i].object]))'
      BY <2>5
    <2>12. (\A i \in 1..Len(rpdo) : Heard(rpdo[i].object))'
      BY <2>6 DEF Heard
    <2> QED
      BY <2>7, <2>8, <2>9, <2>10, <2>11, <2>12 DEF Faithful
  <1> QED
    BY <1>7, <1>8

(* Every step keeps both. *)
LEMMA BmsStep ==
    Kept /\ (~dropped => Faithful) /\ [Next]_vars => Kept' /\ (~dropped' => Faithful')
  <1> SUFFICES ASSUME Kept, ~dropped => Faithful, [Next]_vars
               PROVE  Kept' /\ (~dropped' => Faithful')
    OBVIOUS
  <1>1. CASE \E o \in Objects : \E v \in Meaning[o] : BmsSends(o, v)
    BY <1>1, SendsStep
  <1>2. CASE OnCodata
    BY <1>2, CodataStep
  <1>3. CASE TimerElapses
    BY <1>3 DEF TimerElapses, Kept, TypeOK, EntryFits, Faithful, Heard, Waits, Holds
  <1>4. CASE Transmit
    BY <1>4 DEF Transmit, Kept, TypeOK, EntryFits, Faithful, Heard, Waits, Holds
  <1>5. CASE UNCHANGED vars
    BY <1>5 DEF vars, nodeVars, Kept, TypeOK, EntryFits, Faithful, Heard, Waits, Holds
  <1> QED
    BY <1>1, <1>2, <1>3, <1>4, <1>5 DEF Next

(* The start: nothing said, nothing held. *)
LEMMA BmsInit == Init => Kept /\ Faithful
  <1> SUFFICES ASSUME Init PROVE Kept /\ Faithful
    OBVIOUS
  <1>1. Unheard \in Int
    BY BmsNodeAssumption DEF Unheard
  <1>2. rpdo = <<>> /\ Len(rpdo) = 0 /\ rpdo \in Seq([object : Objects, data : Int])
    BY DEF Init
  <1>3. \A o \in Objects : sent[o] = Unheard /\ ~Heard(o)
    BY DEF Init, Heard
  <1>4. TypeOK
    <2>1. count \in 0..MaxSent
      BY BmsNodeAssumption DEF Init
    <2>2. dropped \in BOOLEAN
      BY DEF Init
    <2>3. Len(rpdo) <= Depth
      BY <1>2, BmsNodeAssumption
    <2>4. battery_state = Blank /\ published = Blank
      BY DEF Init
    <2>5. Blank.power_supply_status = "unknown" /\ Blank.current = Unheard
      BY DEF Blank
    <2>6. "unknown" \in Statuses
      BY DEF Statuses
    <2>7. battery_status \in {0, 1} /\ charger_status \in 0..4
          /\ send_timer \in {"off", "running", "due"}
      BY DEF Init
    <2> QED
      BY <2>1, <2>2, <2>3, <2>4, <2>5, <2>6, <2>7 DEF TypeOK
  <1>5. Kept
    BY <1>1, <1>2, <1>3, <1>4, PowerSupplyFacts DEF Kept, Init, Blank
  <1>6. Faithful
    BY <1>2, <1>3, ObjectFacts DEF Faithful, Init, Blank, Held
  <1> QED
    BY <1>5, <1>6

(* Type correctness, for every width of the numbers. *)
THEOREM BmsTypes == Spec => []TypeOK
  <1>1. Init => Kept /\ (~dropped => Faithful)
    BY BmsInit
  <1>2. (Kept /\ (~dropped => Faithful)) /\ [Next]_vars => (Kept /\ (~dropped => Faithful))'
    BY BmsStep
  <1>3. Kept => TypeOK
    BY DEF Kept
  <1> QED
    BY <1>1, <1>2, <1>3, PTL DEF Spec

(* Once the node has settled, what it last published is what the BMS last  *)
(* said, for every order of the objects, width of the numbers and depth of *)
(* the queue, as long as the queue has dropped nothing.                    *)
THEOREM SettledAlwaysTrue == Spec => []SettledIsTrue
  <1>1. Init => Kept /\ (~dropped => Faithful)
    BY BmsInit
  <1>2. (Kept /\ (~dropped => Faithful)) /\ [Next]_vars => (Kept /\ (~dropped => Faithful))'
    BY BmsStep
  <1>3. Kept /\ (~dropped => Faithful) => SettledIsTrue
    BY FaithfulImplies
  <1> QED
    BY <1>1, <1>2, <1>3, PTL DEF Spec

-----------------------------------------------------------------------------
(* The point cloud grid, for every size, scale and set of clouds and maps. *)

(* The scale divides by every number of frames an average may be over, as  *)
(* some scale does for any MaxFrames and Weight: no mean is rounded. The   *)
(* code averages floats; the scale is the model's.                         *)
NoRounding == \A n \in 1..(Weight + MaxFrames) : Scale % n = 0

(* For every scale, an average is the mean but for at most one unit of the *)
(* scale a cloud.                                                          *)
AverageNearMean ==
    pure => \A i \in AvgCells :
        /\ normal_avg_count * avg_ipoints[i] <= total[i]
        /\ total[i] <= normal_avg_count * avg_ipoints[i] + frames * normal_avg_count

(* Types: a vector of averages that was as long as some grid, and as long  *)
(* as its history. Each frame has been counted once at most.               *)
Vectors ==
    /\ avg_ipoints \in Seq(Nat) /\ Len(avg_ipoints) \in Sizes
    /\ total \in [AvgCells -> Nat] /\ low \in [AvgCells -> Nat] /\ high \in [AvgCells -> Nat]

Settings ==
    /\ params \in Params
    /\ frames \in 0..MaxFrames /\ normal_avg_count \in 0..(Weight + frames)
    /\ pure \in BOOLEAN /\ overrun \in BOOLEAN

Drawn ==
    /\ \A i \in DOMAIN intensity_grid : intensity_grid[i] \in Grid
    /\ height_grid \subseteq DOMAIN intensity_grid

(* Every value that was averaged is a whole number of intensities.         *)
Whole == \A i \in AvgCells : \E k \in Nat : total[i] = Scale * k

GridInv ==
    /\ Vectors /\ Settings /\ Drawn /\ Whole
    /\ AverageWithinSeen /\ AverageNearMean /\ (NoRounding => AverageIsMean)

LEMMA GridConstants ==
    /\ Scale \in Nat \ {0} /\ Weight \in Nat /\ MaxFrames \in Nat /\ Contribution \in Nat
    /\ \A size \in Sizes : size \in Nat \ {0}
  BY PointCloudGridAssumption

-----------------------------------------------------------------------------
(* Division rounds down. *)
LEMMA DivisionFacts ==
    ASSUME NEW a \in Int, NEW n \in Nat \ {0}
    PROVE  /\ a \div n \in Int /\ a % n \in 0..(n - 1)
           /\ a = n * (a \div n) + (a % n)
  OBVIOUS

LEMMA QuotientBounds ==
    ASSUME NEW a \in Int, NEW n \in Nat \ {0}
    PROVE  /\ a >= 0 => 0 <= a \div n /\ a \div n <= a
           /\ a <= 0 => a <= a \div n /\ a \div n <= 0
  <1> DEFINE q == a \div n r == a % n
  <1>1. q \in Int /\ r \in Int /\ 0 <= r /\ r < n /\ a = n * q + r
    BY DivisionFacts
  <1> HIDE DEF q, r
  <1>2. ASSUME q < 0 PROVE n * q <= 0 - n /\ n * q <= q
    BY <1>1, <1>2
  <1>3. ASSUME q >= 0 PROVE n * q >= q
    BY <1>1, <1>3
  <1>4. ASSUME q >= 1 PROVE n * q >= n
    BY <1>1, <1>4
  <1>5. ASSUME a >= 0 PROVE 0 <= q /\ q <= a
    BY <1>1, <1>2, <1>3, <1>5
  <1>6. ASSUME a <= 0 PROVE a <= q /\ q <= 0
    BY <1>1, <1>2, <1>3, <1>4, <1>6
  <1> QED
    BY <1>5, <1>6 DEF q

(* One more value in an average over n of them. *)
LEMMA MeanFacts ==
    ASSUME NEW old \in Nat, NEW new \in Nat, NEW n \in Nat \ {0}
    PROVE  LET a == old + (new - old) \div n IN
             /\ a \in Nat /\ LesserOf(old, new) <= a /\ a <= GreaterOf(old, new)
             /\ \E r \in 0..(n - 1) : (n - 1) * old + new = n * a + r
  <1> DEFINE d == new - old q == d \div n r == d % n a == old + q
  <1> d \in Int
    OBVIOUS
  <1> HIDE DEF d
  <1>1. q \in Int /\ r \in 0..(n - 1) /\ d = n * q + r
    BY DivisionFacts
  <1>2. (d >= 0 => 0 <= q /\ q <= d) /\ (d <= 0 => d <= q /\ q <= 0)
    BY QuotientBounds
  <1> HIDE DEF q, r
  <1>3. a \in Nat /\ LesserOf(old, new) <= a /\ a <= GreaterOf(old, new)
    BY <1>1, <1>2 DEF LesserOf, GreaterOf, d
  <1>4. (n - 1) * old + new = n * a + r
    <2>1. n * a = n * old + n * q
      BY <1>1
    <2>2. (n - 1) * old = n * old - old
      OBVIOUS
    <2> QED
      BY <1>1, <2>1, <2>2 DEF d
  <1> QED
    BY <1>1, <1>3, <1>4 DEF q, d

(* When the sum divides by the number of values, the mean is exact. *)
LEMMA ExactMean ==
    ASSUME NEW n \in Nat \ {0}, NEW a \in Int, NEW r \in 0..(n - 1), NEW s \in Int,
           n * s = n * a + r
    PROVE  r = 0
  <1>1. n * (s - a) = r
    OBVIOUS
  <1>2. s - a \in Int
    OBVIOUS
  <1>3. ASSUME s - a >= 1 PROVE FALSE
    <2>1. n * (s - a) >= n
      BY <1>2, <1>3
    <2> QED
      BY <1>1, <2>1
  <1>4. ASSUME s - a <= -1 PROVE FALSE
    <2>1. n * (s - a) <= 0 - n
      BY <1>2, <1>4
    <2> QED
      BY <1>1, <2>1
  <1>5. s - a = 0
    BY <1>2, <1>3, <1>4
  <1> QED
    BY <1>1, <1>5

(* The middle of two values. *)
LEMMA MiddleFacts ==
    ASSUME NEW old \in Nat, NEW new \in Nat
    PROVE  LET a == (old + new) \div 2 IN
             a \in Nat /\ LesserOf(old, new) <= a /\ a <= GreaterOf(old, new)
  BY DEF LesserOf, GreaterOf

(* What is shown of an average. *)
LEMMA ShownFacts ==
    ASSUME NEW a \in Nat PROVE LesserOf(a \div Scale, 100) \in Grid
  <1>1. a \div Scale \in Int /\ 0 <= a \div Scale
    BY GridConstants, DivisionFacts, QuotientBounds
  <1> QED
    BY <1>1 DEF LesserOf, Grid

(* Normal averaging in one cell, from an average over n values whose sum   *)
(* is sum: the mean stays near, and when it was exact and the new sum      *)
(* divides by n + 1, it stays exact.                                       *)
LEMMA NormalCell ==
    ASSUME NEW old \in Nat, NEW new \in Nat, NEW n \in Nat, NEW sum \in Nat, NEW f \in Nat,
           NEW a \in Nat, a = old + (new - old) \div (n + 1),
           n * old <= sum, sum <= n * old + f * n
    PROVE  /\ (n + 1) * a <= sum + new
           /\ sum + new <= (n + 1) * a + (f + 1) * (n + 1)
  <1> DEFINE m == n + 1 drift == f * n before == n * old after == m * a
  <1>1. m \in Nat \ {0} /\ m - 1 = n /\ a = old + (new - old) \div m
    OBVIOUS
  <1>2. PICK r \in 0..(m - 1) : (m - 1) * old + new = m * a + r
    <2> HIDE DEF m
    <2>1. m \in Nat \ {0} /\ a = old + (new - old) \div m
      BY <1>1
    <2>2. \E r \in 0..(m - 1) :
             (m - 1) * old + new = m * (old + (new - old) \div m) + r
      BY <2>1, MeanFacts, Zenon
    <2> QED
      BY <2>1, <2>2, Zenon
  <1>3. before + new = after + r
    BY <1>1, <1>2
  <1>4. (f + 1) * m = drift + f + n + 1
    OBVIOUS
  <1>5. drift \in Nat /\ before \in Nat /\ after \in Nat
    OBVIOUS
  <1>6. before <= sum /\ sum <= before + drift /\ r \in Nat /\ r <= n
    BY <1>1, <1>2
  <1> HIDE DEF drift, before, after
  <1>7. after <= sum + new /\ sum + new <= after + (drift + f + n + 1)
    BY <1>3, <1>5, <1>6
  <1> QED
    BY <1>4, <1>7 DEF after

LEMMA ExactCell ==
    ASSUME NEW old \in Nat, NEW new \in Nat, NEW n \in Nat,
           \E k \in Nat : n * old + new = Scale * k, Scale % (n + 1) = 0
    PROVE  (n + 1) * (old + (new - old) \div (n + 1)) = n * old + new
  <1> PICK k \in Nat : n * old + new = Scale * k
    OBVIOUS
  <1> DEFINE m == n + 1 a == old + (new - old) \div m q == Scale \div m s == q * k
  <1>1. m \in Nat \ {0} /\ m - 1 = n
    OBVIOUS
  <1>2. a \in Nat /\ \E r \in 0..(m - 1) : (m - 1) * old + new = m * a + r
    <2> HIDE DEF m
    <2> QED
      BY <1>1, MeanFacts, Zenon
  <1> HIDE DEF a
  <1>3. PICK r \in 0..(m - 1) : n * old + new = m * a + r
    BY <1>1, <1>2
  <1>4. q \in Int /\ Scale = m * q
    <2> HIDE DEF m
    <2>1. Scale \in Int /\ Scale % m = 0
      BY GridConstants DEF m
    <2> QED
      BY <1>1, <2>1, DivisionFacts
  <1> HIDE DEF q
  <1>5. s \in Int
    BY <1>4
  <1>6. Scale * k = m * s
    BY <1>1, <1>4
  <1>7. m * s = m * a + r
    BY <1>3, <1>6
  <1> HIDE DEF m, s
  <1>8. r = 0
    <2>1. m \in Nat \ {0} /\ a \in Int /\ r \in 0..(m - 1)
      BY <1>1, <1>2
    <2> QED
      BY <2>1, <1>5, <1>7, ExactMean, Zenon
  <1>9. m * a = n * old + new
    <2>1. m * a \in Int
      BY <1>1, <1>2
    <2> QED
      BY <1>3, <1>8, <2>1
  <1> QED
    BY <1>9 DEF a, m

-----------------------------------------------------------------------------
(* Vectors of points, occupancies and averages. *)
LEMMA VectorFacts ==
    ASSUME NEW n \in Nat, NEW f \in [1..n -> Nat]
    PROVE  f \in Seq(Nat) /\ Len(f) = n /\ DOMAIN f = 1..n
  <1>1. f \in Seq(Nat)
    BY SeqDef
  <1> QED
    BY <1>1, LenProperties

(* A cloud, as far as the grid is concerned: a finite set of points. What  *)
(* a filter makes of one is one, voxels included.                          *)
IsCloud(c) == IsFiniteSet(c) /\ c \subseteq Points

LEMMA SubsetFacts ==
    ASSUME NEW cloud, IsCloud(cloud), NEW part, part \subseteq cloud
    PROVE  IsCloud(part)
  BY FS_Subset DEF IsCloud

LEMMA VoxelFacts ==
    ASSUME NEW cloud, IsCloud(cloud)
    PROVE  IsCloud(VoxelGrid(cloud))
  <1>1. Filter.voxel \in Nat \ {0}
    BY PointCloudGridAssumption
  <1>2. \A x \in Nat : Centre(x) \in Nat
    <2> TAKE x \in Nat
    <2> DEFINE v == Filter.voxel
    <2>1. \A w \in Nat \ {0} : x \div w \in Nat /\ w \div 2 \in Nat
      OBVIOUS
    <2>2. v \in Nat \ {0} /\ x \div v \in Nat /\ v \div 2 \in Nat
      BY <1>1, <2>1
    <2>3. Centre(x) = v * (x \div v) + v \div 2
      BY DEF Centre
    <2> HIDE DEF v
    <2>4. \A a, b, c \in Nat : a * b + c \in Nat
      OBVIOUS
    <2> QED
      BY <2>2, <2>3, <2>4
  <1> DEFINE voxel(p) == [at |-> Centre(p.at), z |-> Centre(p.z)]
  <1>3. IsFiniteSet({voxel(p) : p \in cloud})
    <2>1. IsFiniteSet(cloud)
      BY DEF IsCloud
    <2> DEFINE f == [p \in cloud |-> voxel(p)] image == {voxel(p) : p \in cloud}
    <2> HIDE DEF voxel
    <2>2. f \in Surjection(cloud, image)
      BY DEF Surjection
    <2> HIDE DEF f
    <2> QED
      BY <2>1, <2>2, FS_Surjection
  <1>4. \A p \in cloud : voxel(p) \in Points
    BY <1>2 DEF IsCloud, Points
  <1> QED
    BY <1>3, <1>4 DEF IsCloud, VoxelGrid

LEMMA FilterFacts ==
    ASSUME NEW p, NEW cloud, IsCloud(cloud)
    PROVE  IsCloud(FilterCloud(p, cloud))
  <1> DEFINE outliers == IF p.ror THEN RadiusOutlier(cloud) ELSE {}
             refined == IF p.sor THEN StatisticalOutlier(outliers) ELSE outliers
             band == IF p.pass THEN PassThrough(refined) ELSE refined
             compact == IF p.voxel THEN VoxelGrid(band) ELSE band
  <1>1. FilterCloud(p, cloud) =
           IF ~filter_enable THEN cloud
           ELSE IF p.cluster THEN ClusterFilter(compact) ELSE compact
    BY DEF FilterCloud
  <1>2. IsCloud(outliers)
    <2>1. outliers \subseteq cloud
      BY DEF RadiusOutlier
    <2> HIDE DEF outliers
    <2> QED
      BY <2>1, SubsetFacts
  <1>3. IsCloud(refined)
    <2>1. refined \subseteq outliers
      BY DEF StatisticalOutlier
    <2> HIDE DEF outliers, refined
    <2> QED
      BY <1>2, <2>1, SubsetFacts
  <1>4. IsCloud(band)
    <2>1. band \subseteq refined
      BY DEF PassThrough
    <2> HIDE DEF refined, band
    <2> QED
      BY <1>3, <2>1, SubsetFacts
  <1> HIDE DEF band
  <1>5. IsCloud(compact)
    BY <1>4, VoxelFacts
  <1> HIDE DEF compact
  <1>6. ClusterFilter(compact) \subseteq compact
    BY DEF ClusterFilter
  <1>7. IsCloud(ClusterFilter(compact))
    BY <1>5, <1>6, SubsetFacts
  <1> QED
    BY <1>1, <1>5, <1>7

LEMMA CellFacts ==
    ASSUME NEW cloud, IsFiniteSet(cloud), NEW size \in Nat, NEW i \in 1..size
    PROVE  \E k \in Nat : Intensities(size, cloud)[i] = Scale * k
  <1> DEFINE here == {p \in InGrid(size, cloud) : CellOf(p) = i}
             k == Contribution * Cardinality(here)
  <1>1. Cardinality(here) \in Nat
    <2>1. here \in SUBSET cloud
      BY DEF InGrid
    <2> QED
      BY <2>1, FS_Subset, FS_CardinalityType
  <1>2. Intensities(size, cloud)[i] = Scale * Contribution * Cardinality(here)
    BY DEF Intensities
  <1> HIDE DEF here
  <1>3. k \in Nat /\ Scale * Contribution * Cardinality(here) = Scale * k
    BY <1>1, GridConstants
  <1> QED
    BY <1>2, <1>3

LEMMA StretchFacts ==
    ASSUME NEW m \in Nat, NEW s \in [1..m -> Nat], NEW n \in Nat, NEW garbage \in Garbage
    PROVE  Stretch(s, n, garbage) \in [1..n -> Nat]
  <1>1. garbage \in Nat
    BY GridConstants DEF Garbage
  <1> QED
    BY <1>1 DEF Stretch

LEMMA PointFacts ==
    ASSUME NEW cloud, IsFiniteSet(cloud), NEW size \in Nat, NEW n \in Nat,
           NEW garbage \in Garbage
    PROVE  LET ipoints == Intensities(size, cloud)
               points == Stretch(ipoints, n, garbage)
           IN  /\ ipoints \in [1..size -> Nat] /\ points \in [1..n -> Nat]
               /\ \A i \in 1..n : \E k \in Nat : points[i] = Scale * k
  <1> DEFINE ipoints == Intensities(size, cloud)
             points == Stretch(ipoints, n, garbage)
  <1>1. ipoints \in [1..size -> Nat]
    <2>1. \A i \in 1..size : ipoints[i] \in Nat
      <3> TAKE i \in 1..size
      <3>1. PICK k \in Nat : ipoints[i] = Scale * k
        BY CellFacts
      <3>2. Scale * k \in Nat
        BY GridConstants
      <3> QED
        BY <3>1, <3>2
    <2>2. ipoints = [i \in 1..size |-> ipoints[i]]
      BY DEF Intensities
    <2> QED
      BY <2>1, <2>2
  <1>2. ASSUME NEW i \in 1..n PROVE \E k \in Nat : points[i] = Scale * k
    <2>1. CASE i \in 1..size
      <3>1. points[i] = ipoints[i]
        BY <1>1, <2>1 DEF Stretch
      <3> QED
        BY <2>1, <3>1, CellFacts
    <2>2. CASE i \notin 1..size
      <3>1. points[i] = garbage
        BY <1>1, <2>2 DEF Stretch
      <3>2. garbage = Scale * 0 \/ garbage = Scale * 100
        BY GridConstants DEF Garbage
      <3> QED
        BY <3>1, <3>2
    <2> QED
      BY <2>1, <2>2
  <1> HIDE DEF ipoints
  <1>3. points \in [1..n -> Nat]
    BY <1>1, StretchFacts
  <1> QED
    BY <1>1, <1>2, <1>3 DEF ipoints

LEMMA DisplayFacts ==
    ASSUME NEW n \in Nat, NEW points \in [1..n -> Nat]
    PROVE  DOMAIN Display(points) = 1..n /\ \A i \in 1..n : Display(points)[i] \in Grid
  <1>1. DOMAIN Display(points) = 1..n
    BY DEF Display
  <1>2. ASSUME NEW i \in 1..n PROVE Display(points)[i] \in Grid
    <2>1. Display(points)[i] = LesserOf(points[i] \div Scale, 100) /\ points[i] \in Nat
      BY DEF Display
    <2> QED
      BY <2>1, ShownFacts
  <1> QED
    BY <1>1, <1>2

(* What an initial map says of a cell, as a message or as an image. *)
LEMMA MapFacts ==
    ASSUME NEW map \in Maps
    PROVE  /\ Len(map) \in Nat /\ OccupancyOf(map) \in [1..Len(map) -> Nat]
           /\ \A i \in 1..Len(map) : \E k \in Nat : OccupancyOf(map)[i] = Scale * k
  <1>1. map \in Seq(-1..100)
    BY PointCloudGridAssumption
  <1>2. Len(map) \in Nat /\ DOMAIN map = 1..Len(map)
    BY <1>1, LenProperties
  <1>3. ASSUME NEW i \in 1..Len(map)
        PROVE  \E k \in Nat : OccupancyOf(map)[i] = Scale * k /\ Scale * k \in Nat
    <2> DEFINE seen == map[i] k == GreaterOf(seen, 0)
    <2>1. seen \in -1..100
      BY <1>1, ElementOfSeq
    <2>2. k \in Nat
      <3> HIDE DEF seen
      <3> QED
        BY <2>1 DEF GreaterOf
    <2>3. OccupancyOf(map)[i] = Scale * k
      BY <1>2 DEF OccupancyOf
    <2> HIDE DEF k
    <2>4. Scale * k \in Nat
      BY <2>2, GridConstants
    <2> QED
      BY <2>2, <2>3, <2>4
  <1>4. OccupancyOf(map) = [i \in 1..Len(map) |-> OccupancyOf(map)[i]]
    BY <1>2 DEF OccupancyOf
  <1> QED
    BY <1>2, <1>3, <1>4

LEMMA ImageFacts ==
    ASSUME NEW image \in Images
    PROVE  /\ Len(image) \in Nat /\ OccupancyOfImage(image) \in [1..Len(image) -> Nat]
           /\ \A i \in 1..Len(image) : \E k \in Nat : OccupancyOfImage(image)[i] = Scale * k
  <1>1. image \in Seq(0..255)
    BY PointCloudGridAssumption
  <1>2. Len(image) \in Nat /\ DOMAIN image = 1..Len(image)
    BY <1>1, LenProperties
  <1>3. ASSUME NEW i \in 1..Len(image)
        PROVE  \E k \in Nat : OccupancyOfImage(image)[i] = Scale * k /\ Scale * k \in Nat
    <2> DEFINE j == Len(image) + 1 - i pixel == image[j] k == OccupancyOfPixel(pixel)
    <2>1. j \in 1..Len(image)
      BY <1>2
    <2>2. pixel \in 0..255
      BY <1>1, <2>1, ElementOfSeq
    <2>3. OccupancyOfImage(image)[i] = Scale * k
      BY <1>2 DEF OccupancyOfImage
    <2> HIDE DEF pixel
    <2>4. k \in Nat
      <3>1. ((255 - pixel) * 100) \div 255 \in Nat
        BY <2>2
      <3> QED
        BY <3>1 DEF OccupancyOfPixel
    <2> HIDE DEF k
    <2>5. Scale * k \in Nat
      BY <2>4, GridConstants
    <2> QED
      BY <2>3, <2>4, <2>5
  <1>4. OccupancyOfImage(image) = [i \in 1..Len(image) |-> OccupancyOfImage(image)[i]]
    BY <1>2 DEF OccupancyOfImage
  <1> QED
    BY <1>2, <1>3, <1>4

-----------------------------------------------------------------------------
(* The averages keep their length. *)
LEMMA AveragesShape ==
    ASSUME Vectors
    PROVE  /\ Len(avg_ipoints) \in Nat /\ AvgCells = 1..Len(avg_ipoints)
           /\ avg_ipoints \in [AvgCells -> Nat]
           /\ \A f \in [AvgCells -> Nat] :
                f \in Seq(Nat) /\ Len(f) = Len(avg_ipoints) /\ DOMAIN f = AvgCells
  <1>1. /\ Len(avg_ipoints) \in Nat /\ AvgCells = 1..Len(avg_ipoints)
        /\ avg_ipoints \in [AvgCells -> Nat]
    BY LenProperties DEF Vectors, AvgCells
  <1> QED
    BY <1>1, VectorFacts

(* A step that leaves averages and grids alone. *)
LEMMA Untouched ==
    ASSUME GridInv, params' \in Params, UNCHANGED <<averages, grids, frames, overrun>>
    PROVE  GridInv'
  <1> UNCHANGED <<avg_ipoints, normal_avg_count, total, low, high, pure, intensity_grid,
                  height_grid, frames, overrun>>
    BY DEF averages, grids
  <1>1. AvgCells' = AvgCells
    BY DEF AvgCells
  <1> QED
    BY <1>1 DEF GridInv, Vectors, Settings, Drawn, Whole, AverageWithinSeen,
                AverageNearMean, AverageIsMean, NoRounding

(* An initial map, as a message, starts the averages afresh. Where it is   *)
(* shorter than the averages, these are no longer the means of anything.   *)
LEMMA MapStep ==
    ASSUME GridInv, NEW map \in Maps, ApplyInitialMap(map), UNCHANGED <<params, grids, frames>>
    PROVE  GridInv'
  <1>1. CASE Len(map) # params.size
    <2>1. UNCHANGED <<averages, overrun>>
      BY <1>1 DEF ApplyInitialMap
    <2>2. params' \in Params
      BY DEF GridInv, Settings
    <2> QED
      BY <2>1, <2>2, Untouched
  <1>2. CASE Len(map) = params.size
    <2> DEFINE occupancy == OccupancyOf(map) n == Len(map)
    <2>1. /\ n \in Nat /\ occupancy \in [1..n -> Nat] /\ Len(occupancy) = n
          /\ DOMAIN map = 1..n /\ DOMAIN occupancy = 1..n
          /\ \A i \in 1..n : \E k \in Nat : occupancy[i] = Scale * k
      <3>1. n \in Nat /\ occupancy \in [1..n -> Nat]
            /\ \A i \in 1..n : \E k \in Nat : occupancy[i] = Scale * k
        BY MapFacts
      <3>2. Len(occupancy) = n /\ DOMAIN occupancy = 1..n
        BY <3>1, VectorFacts
      <3>3. DOMAIN occupancy = DOMAIN map
        BY DEF OccupancyOf
      <3> QED
        BY <3>1, <3>2, <3>3
    <2>2. /\ avg_ipoints' = [i \in AvgCells |->
                IF i \in DOMAIN map THEN occupancy[i] ELSE avg_ipoints[i]]
          /\ normal_avg_count' = Weight
          /\ overrun' = (overrun \/ PastEnd(avg_ipoints, n))
          /\ total' = [i \in AvgCells |-> IF i \in DOMAIN occupancy THEN Weight * occupancy[i]
                                                                    ELSE 0]
          /\ low' = avg_ipoints' /\ high' = avg_ipoints'
          /\ pure' = (Len(occupancy) = Len(avg_ipoints))
      BY <1>2 DEF ApplyInitialMap, Seed
    <2> HIDE DEF occupancy, n
    <2>3. /\ Vectors /\ avg_ipoints \in [AvgCells -> Nat] /\ AvgCells = 1..Len(avg_ipoints)
          /\ Len(avg_ipoints) \in Nat
          /\ \A f \in [AvgCells -> Nat] :
                f \in Seq(Nat) /\ Len(f) = Len(avg_ipoints) /\ DOMAIN f = AvgCells
      BY AveragesShape DEF GridInv
    <2>4. avg_ipoints' \in [AvgCells -> Nat]
      BY <2>1, <2>2, <2>3
    <2>5. AvgCells' = AvgCells /\ avg_ipoints' \in Seq(Nat)
          /\ Len(avg_ipoints') = Len(avg_ipoints)
      BY <2>3, <2>4 DEF AvgCells
    <2>6. ASSUME NEW i \in AvgCells
          PROVE  total'[i] \in Nat /\ \E k \in Nat : total'[i] = Scale * k
      <3>1. CASE i \in 1..n
        <4>1. PICK k \in Nat : occupancy[i] = Scale * k
          BY <2>1, <3>1
        <4>2. total'[i] = Weight * occupancy[i] /\ occupancy[i] \in Nat
          BY <2>1, <2>2, <3>1
        <4>3. Weight * k \in Nat /\ Weight * (Scale * k) = Scale * (Weight * k)
          BY GridConstants
        <4>4. Weight * occupancy[i] \in Nat
          BY <4>2, GridConstants
        <4> QED
          BY <4>1, <4>2, <4>3, <4>4
      <3>2. CASE i \notin 1..n
        <4>1. total'[i] = 0 /\ 0 = Scale * 0
          BY <2>1, <2>2, <3>2, GridConstants
        <4> QED
          BY <4>1
      <3> QED
        BY <3>1, <3>2
    <2>7. ASSUME NEW i \in AvgCells, pure'
          PROVE  total'[i] = Weight * avg_ipoints'[i]
      <3>1. i \in 1..n
        BY <2>1, <2>2, <2>3, <2>7
      <3> QED
        BY <2>1, <2>2, <3>1
    <2>8. Vectors'
      <3>1. total' \in [AvgCells -> Nat]
        BY <2>2, <2>6
      <3> QED
        BY <2>2, <2>3, <2>4, <2>5, <3>1 DEF Vectors
    <2>9. Settings'
      <3>1. Weight \in 0..(Weight + frames) /\ frames \in 0..MaxFrames
        BY GridConstants DEF GridInv, Settings
      <3>2. overrun' \in BOOLEAN /\ pure' \in BOOLEAN
        BY <2>2, Zenon
      <3> QED
        BY <2>2, <3>1, <3>2 DEF GridInv, Settings
    <2>10. Drawn'
      BY DEF GridInv, Drawn, grids
    <2>11. Whole'
      BY <2>5, <2>6 DEF Whole
    <2>12. AverageWithinSeen'
      <3>1. ASSUME NEW i \in AvgCells PROVE avg_ipoints'[i] <= avg_ipoints'[i]
        <4>1. avg_ipoints'[i] \in Nat
          BY <2>4
        <4> QED
          BY <4>1
      <3> QED
        BY <2>2, <2>5, <3>1 DEF AverageWithinSeen
    <2>13. (pure => \A i \in AvgCells : normal_avg_count * avg_ipoints[i] = total[i])'
      BY <2>2, <2>5, <2>7
    <2>14. AverageNearMean'
      <3> SUFFICES ASSUME pure', NEW i \in AvgCells'
                   PROVE  /\ normal_avg_count' * avg_ipoints'[i] <= total'[i]
                          /\ total'[i] <= normal_avg_count' * avg_ipoints'[i]
                                            + frames' * normal_avg_count'
        BY DEF AverageNearMean
      <3> DEFINE sum == total'[i] drift == frames * Weight
      <3>1. normal_avg_count' * avg_ipoints'[i] = sum /\ sum \in Nat
        BY <2>5, <2>6, <2>13
      <3>2. frames \in Nat /\ Weight \in Nat
        BY GridConstants DEF GridInv, Settings
      <3>3. drift \in Nat
        BY <3>2
      <3>4. frames' * normal_avg_count' = drift
        BY <2>2
      <3> HIDE DEF sum, drift
      <3>5. sum <= sum /\ sum <= sum + drift
        BY <3>1, <3>3
      <3> QED
        BY <3>1, <3>4, <3>5 DEF sum
    <2> QED
      BY <2>8, <2>9, <2>10, <2>11, <2>12, <2>13, <2>14 DEF GridInv, AverageIsMean
  <1> QED
    BY <1>1, <1>2

(* A cloud is averaged in. *)
LEMMA AverageStep ==
    ASSUME GridInv, NEW ipoints, NEW points \in [AvgCells -> Nat],
           \A i \in AvgCells : \E k \in Nat : points[i] = Scale * k,
           frames < MaxFrames, frames' = frames + 1, UNCHANGED params,
           \/ /\ params.normal
              /\ normal_avg_count' = normal_avg_count + 1
              /\ avg_ipoints' = NormalAverage(avg_ipoints, points, normal_avg_count')
           \/ /\ ~params.normal
              /\ avg_ipoints' = MovingAverage(avg_ipoints, points)
              /\ UNCHANGED normal_avg_count,
           Averaged(ipoints, points, params.normal)
    PROVE  /\ Vectors' /\ Settings' /\ Whole'
           /\ AverageWithinSeen' /\ AverageNearMean' /\ (NoRounding => AverageIsMean)'
  <1>1. /\ avg_ipoints \in [AvgCells -> Nat] /\ Len(avg_ipoints) \in Sizes
        /\ total \in [AvgCells -> Nat] /\ low \in [AvgCells -> Nat] /\ high \in [AvgCells -> Nat]
        /\ \A f \in [AvgCells -> Nat] :
              f \in Seq(Nat) /\ Len(f) = Len(avg_ipoints) /\ DOMAIN f = AvgCells
    BY AveragesShape DEF GridInv, Vectors
  <1>2. /\ frames \in Nat /\ normal_avg_count \in Nat
        /\ normal_avg_count + 1 \in Nat \ {0}
        /\ normal_avg_count + 1 \in 1..(Weight + MaxFrames)
    BY GridConstants DEF GridInv, Settings
  <1>3. /\ total' = [i \in AvgCells |-> total[i] + points[i]]
        /\ low' = [i \in AvgCells |-> LesserOf(low[i], points[i])]
        /\ high' = [i \in AvgCells |-> GreaterOf(high[i], points[i])]
        /\ pure' = (pure /\ params.normal)
        /\ overrun' = (overrun \/ PastEnd(ipoints, Len(avg_ipoints)) \/ PastEnd(avg_ipoints, Len(ipoints)))
    BY DEF Averaged
  <1>4. ASSUME NEW i \in AvgCells
        PROVE  /\ total[i] \in Nat /\ points[i] \in Nat /\ low[i] \in Nat /\ high[i] \in Nat
               /\ avg_ipoints[i] \in Nat
               /\ low[i] <= avg_ipoints[i] /\ avg_ipoints[i] <= high[i]
               /\ total'[i] = total[i] + points[i] /\ total'[i] \in Nat
               /\ low'[i] = LesserOf(low[i], points[i]) /\ low'[i] \in Nat
               /\ high'[i] = GreaterOf(high[i], points[i]) /\ high'[i] \in Nat
    <2>1. /\ total[i] \in Nat /\ points[i] \in Nat /\ low[i] \in Nat /\ high[i] \in Nat
          /\ avg_ipoints[i] \in Nat
      BY <1>1
    <2>2. low[i] <= avg_ipoints[i] /\ avg_ipoints[i] <= high[i]
      BY DEF GridInv, AverageWithinSeen
    <2>3. /\ total'[i] = total[i] + points[i] /\ low'[i] = LesserOf(low[i], points[i])
          /\ high'[i] = GreaterOf(high[i], points[i])
      BY <1>3
    <2>4. /\ total[i] + points[i] \in Nat /\ LesserOf(low[i], points[i]) \in Nat
          /\ GreaterOf(high[i], points[i]) \in Nat
      BY <2>1 DEF LesserOf, GreaterOf
    <2> QED
      BY <2>1, <2>2, <2>3, <2>4
  <1>5. ASSUME NEW i \in AvgCells
        PROVE  /\ avg_ipoints'[i] \in Nat
               /\ LesserOf(avg_ipoints[i], points[i]) <= avg_ipoints'[i]
               /\ avg_ipoints'[i] <= GreaterOf(avg_ipoints[i], points[i])
    <2> DEFINE old == avg_ipoints[i] new == points[i] n == normal_avg_count + 1
    <2>1. old \in Nat /\ new \in Nat /\ n \in Nat \ {0}
      BY <1>2, <1>4
    <2>2. CASE params.normal
      <3>1. avg_ipoints'[i] = old + (new - old) \div n
        BY <1>1, <2>2 DEF NormalAverage
      <3> HIDE DEF old, new, n
      <3>2. LET a == old + (new - old) \div n
            IN  a \in Nat /\ LesserOf(old, new) <= a /\ a <= GreaterOf(old, new)
        BY <2>1, MeanFacts, Zenon
      <3> QED
        BY <3>1, <3>2 DEF old, new
    <2>3. CASE ~params.normal
      <3>1. avg_ipoints'[i] = (old + new) \div 2
        BY <1>1, <2>3 DEF MovingAverage
      <3> HIDE DEF old, new
      <3>2. LET a == (old + new) \div 2
            IN  a \in Nat /\ LesserOf(old, new) <= a /\ a <= GreaterOf(old, new)
        BY <2>1, MiddleFacts, Zenon
      <3> QED
        BY <3>1, <3>2 DEF old, new
    <2> QED
      BY <2>2, <2>3
  <1>6. AvgCells' = AvgCells /\ avg_ipoints' \in Seq(Nat)
        /\ Len(avg_ipoints') = Len(avg_ipoints)
    <2>1. avg_ipoints' = [i \in AvgCells |-> avg_ipoints'[i]]
      BY DEF NormalAverage, MovingAverage, AvgCells
    <2>2. avg_ipoints' \in [AvgCells -> Nat]
      BY <1>5, <2>1
    <2> QED
      BY <1>1, <2>2 DEF AvgCells
  <1>7. Vectors'
    <2>1. /\ total' \in [AvgCells -> Nat] /\ low' \in [AvgCells -> Nat]
          /\ high' \in [AvgCells -> Nat]
      BY <1>3, <1>4
    <2> QED
      BY <1>1, <1>6, <2>1 DEF Vectors
  <1>8. Settings'
    <2>1. params' \in Params
      BY DEF GridInv, Settings
    <2>2. pure' \in BOOLEAN /\ overrun' \in BOOLEAN
      BY <1>3, Zenon
    <2>3. frames' \in 0..MaxFrames /\ normal_avg_count' \in 0..(Weight + frames')
      BY GridConstants DEF GridInv, Settings
    <2> QED
      BY <2>1, <2>2, <2>3 DEF Settings
  <1>9. Whole'
    <2> SUFFICES ASSUME NEW i \in AvgCells PROVE \E k \in Nat : total'[i] = Scale * k
      BY <1>6 DEF Whole
    <2>1. PICK k \in Nat : total[i] = Scale * k
      BY DEF GridInv, Whole
    <2>2. PICK j \in Nat : points[i] = Scale * j
      OBVIOUS
    <2>3. k + j \in Nat /\ Scale * k + Scale * j = Scale * (k + j)
      BY GridConstants
    <2> QED
      BY <1>4, <2>1, <2>2, <2>3
  <1>10. AverageWithinSeen'
    <2> SUFFICES ASSUME NEW i \in AvgCells
                 PROVE  low'[i] <= avg_ipoints'[i] /\ avg_ipoints'[i] <= high'[i]
      BY <1>6 DEF AverageWithinSeen
    <2> DEFINE old == avg_ipoints[i] new == points[i] a == avg_ipoints'[i]
               l == low[i] h == high[i]
    <2>1. /\ old \in Nat /\ new \in Nat /\ a \in Nat /\ l \in Nat /\ h \in Nat
          /\ l <= old /\ old <= h /\ LesserOf(old, new) <= a /\ a <= GreaterOf(old, new)
          /\ low'[i] = LesserOf(l, new) /\ high'[i] = GreaterOf(h, new)
      BY <1>4, <1>5
    <2> HIDE DEF old, new, a, l, h
    <2>2. LesserOf(l, new) <= a /\ a <= GreaterOf(h, new)
      BY <2>1 DEF LesserOf, GreaterOf
    <2> QED
      BY <2>1, <2>2 DEF a
  <1>11. ASSUME pure', NEW i \in AvgCells
         PROVE  /\ normal_avg_count' * avg_ipoints'[i] <= total'[i]
                /\ total'[i] <= normal_avg_count' * avg_ipoints'[i] + frames' * normal_avg_count'
                /\ NoRounding => normal_avg_count' * avg_ipoints'[i] = total'[i]
    <2> DEFINE old == avg_ipoints[i] new == points[i] n == normal_avg_count
               a == avg_ipoints'[i] sum == total[i] f == frames
    <2>1. pure /\ params.normal
      BY <1>3, <1>11
    <2>2. /\ old \in Nat /\ new \in Nat /\ n \in Nat /\ sum \in Nat /\ f \in Nat /\ a \in Nat
          /\ normal_avg_count' = n + 1 /\ frames' = f + 1 /\ total'[i] = sum + new
      BY <1>2, <1>4, <1>5, <2>1
    <2>3. a = old + (new - old) \div (n + 1)
      BY <1>1, <2>1 DEF NormalAverage
    <2>4. n * old <= sum /\ sum <= n * old + f * n
      BY <2>1 DEF GridInv, AverageNearMean
    <2>5. (n + 1) * a <= sum + new /\ sum + new <= (n + 1) * a + (f + 1) * (n + 1)
      <3> HIDE DEF old, new, n, a, sum, f
      <3> QED
        BY <2>2, <2>3, <2>4, NormalCell, Zenon
    <2>6. ASSUME NoRounding PROVE (n + 1) * a = sum + new
      <3>1. n * old = sum
        BY <2>1, <2>6 DEF GridInv, AverageIsMean
      <3>2. \E k \in Nat : n * old + new = Scale * k
        BY <1>6, <1>9, <2>2, <3>1 DEF Whole
      <3>3. Scale % (n + 1) = 0
        BY <1>2, <2>6 DEF NoRounding
      <3> HIDE DEF old, new, n, a, sum, f
      <3>4. (n + 1) * (old + (new - old) \div (n + 1)) = n * old + new
        BY <2>2, <3>2, <3>3, ExactCell, Zenon
      <3> QED
        BY <2>3, <3>1, <3>4, Zenon
    <2> HIDE DEF n, a, sum, f, new
    <2> QED
      BY <2>2, <2>5, <2>6 DEF a
  <1>12. AverageNearMean'
    BY <1>6, <1>11 DEF AverageNearMean
  <1>13. (NoRounding => AverageIsMean)'
    BY <1>6, <1>11 DEF AverageIsMean, NoRounding
  <1> QED
    BY <1>7, <1>8, <1>9, <1>10, <1>12, <1>13

-----------------------------------------------------------------------------
LEMMA CloudStep ==
    ASSUME GridInv, NEW cloud \in Clouds, CloudArrives(cloud) PROVE GridInv'
  <1> DEFINE filtered == FilterCloud(params, cloud) size == params.size
             ipoints == Intensities(size, filtered)
  <1>1. /\ frames < MaxFrames /\ frames' = frames + 1 /\ UNCHANGED params
        /\ height_grid' = {CellOf(p) : p \in InGrid(size, filtered)}
    BY DEF CloudArrives
  <1>2. size \in Nat \ {0}
    BY GridConstants DEF GridInv, Settings, Params
  <1>3. IsFiniteSet(filtered) /\ filtered \subseteq Points
    <2>1. IsCloud(cloud)
      BY PointCloudGridAssumption DEF IsCloud
    <2> QED
      BY <2>1, FilterFacts DEF IsCloud
  <1>4. height_grid' \subseteq 1..size
    <2> SUFFICES ASSUME NEW p \in InGrid(size, filtered) PROVE CellOf(p) \in 1..size
      BY <1>1
    <2>1. p \in filtered /\ CellOf(p) <= size
      BY DEF InGrid
    <2> HIDE DEF filtered
    <2>2. p.at \in Nat /\ CellSize \in Nat \ {0}
      BY <1>3, <2>1, PointCloudGridAssumption DEF Points
    <2>3. \A x \in Nat, y \in Nat \ {0} : x \div y \in Nat
      OBVIOUS
    <2>4. CellOf(p) \in Nat \ {0}
      BY <2>2, <2>3 DEF CellOf
    <2> QED
      BY <1>2, <2>1, <2>4
  <1>5. CASE ~params.normal /\ ~params.moving
    <2>1. intensity_grid' = Display(ipoints) /\ UNCHANGED <<averages, overrun>>
      BY <1>5 DEF CloudArrives
    <2>2. DOMAIN intensity_grid' = 1..size /\ \A i \in 1..size : intensity_grid'[i] \in Grid
      <3> HIDE DEF filtered, size
      <3>1. ipoints \in [1..size -> Nat]
        <4>1. 0 \in Garbage /\ size \in Nat
          BY <1>2 DEF Garbage
        <4> QED
          BY <1>3, <4>1, PointFacts
      <3> QED
        BY <1>2, <2>1, <3>1, DisplayFacts
    <2>3. Drawn'
      BY <1>4, <2>2 DEF Drawn
    <2>4. UNCHANGED <<avg_ipoints, normal_avg_count, total, low, high, pure, overrun>>
      BY <2>1 DEF averages
    <2>5. AvgCells' = AvgCells
      BY <2>4 DEF AvgCells
    <2>6. Vectors' /\ Whole' /\ AverageWithinSeen' /\ (NoRounding => AverageIsMean)'
      BY <2>4, <2>5 DEF GridInv, Vectors, Whole, AverageWithinSeen, AverageIsMean, NoRounding
    <2>7. Settings'
      <3>1. frames' \in 0..MaxFrames /\ normal_avg_count' \in 0..(Weight + frames')
        BY <1>1, <2>4, GridConstants DEF GridInv, Settings
      <3> QED
        BY <1>1, <2>4, <3>1 DEF GridInv, Settings
    <2>8. AverageNearMean'
      <3> SUFFICES ASSUME pure', NEW i \in AvgCells'
                   PROVE  /\ normal_avg_count' * avg_ipoints'[i] <= total'[i]
                          /\ total'[i] <= normal_avg_count' * avg_ipoints'[i]
                                            + frames' * normal_avg_count'
        BY DEF AverageNearMean
      <3> DEFINE n == normal_avg_count mean == n * avg_ipoints[i] drift == frames * n
      <3>1. mean <= total[i] /\ total[i] <= mean + drift
        BY <2>4, <2>5 DEF GridInv, AverageNearMean
      <3>2. n \in Nat /\ frames \in Nat /\ avg_ipoints[i] \in Nat /\ total[i] \in Nat
        BY <2>5, AveragesShape, GridConstants DEF GridInv, Settings, Vectors
      <3>3. mean \in Nat /\ drift \in Nat /\ (frames + 1) * n = drift + n
        BY <3>2
      <3>4. n' * avg_ipoints'[i] = mean /\ frames' * n' = (frames + 1) * n
            /\ total'[i] = total[i]
        BY <1>1, <2>4
      <3> HIDE DEF mean, drift
      <3>5. total[i] <= mean + (drift + n)
        BY <3>1, <3>2, <3>3
      <3> QED
        BY <3>1, <3>3, <3>4, <3>5
    <2> QED
      BY <2>3, <2>6, <2>7, <2>8 DEF GridInv
  <1>6. CASE params.normal \/ params.moving
    <2>1. PICK garbage \in Garbage :
            LET points == Stretch(ipoints, Len(avg_ipoints), garbage)
            IN  /\ \/ /\ params.normal
                      /\ normal_avg_count' = normal_avg_count + 1
                      /\ avg_ipoints' = NormalAverage(avg_ipoints, points, normal_avg_count')
                   \/ /\ ~params.normal /\ params.moving
                      /\ avg_ipoints' = MovingAverage(avg_ipoints, points)
                      /\ UNCHANGED normal_avg_count
                /\ Averaged(ipoints, points, params.normal)
                /\ intensity_grid' = Display(Stretch(avg_ipoints', params.size, garbage))
      BY <1>6 DEF CloudArrives
    <2> DEFINE n == Len(avg_ipoints) points == Stretch(ipoints, n, garbage)
    <2>2. n \in Nat /\ AvgCells = 1..n
      BY AveragesShape DEF GridInv
    <2>3. /\ points \in [AvgCells -> Nat]
          /\ \A i \in AvgCells : \E k \in Nat : points[i] = Scale * k
      <3> HIDE DEF filtered, size, n
      <3>1. size \in Nat
        BY <1>2
      <3>2. points \in [1..n -> Nat] /\ \A i \in 1..n : \E k \in Nat : points[i] = Scale * k
        BY <1>3, <2>2, <3>1, PointFacts, Zenon
      <3> QED
        BY <2>2, <3>2, Zenon
    <2>4. /\ Vectors' /\ Settings' /\ Whole'
          /\ AverageWithinSeen' /\ AverageNearMean' /\ (NoRounding => AverageIsMean)'
      <3>1. /\ \/ /\ params.normal
                  /\ normal_avg_count' = normal_avg_count + 1
                  /\ avg_ipoints' = NormalAverage(avg_ipoints, points, normal_avg_count')
               \/ /\ ~params.normal
                  /\ avg_ipoints' = MovingAverage(avg_ipoints, points)
                  /\ UNCHANGED normal_avg_count
            /\ Averaged(ipoints, points, params.normal)
        BY <2>1
      <3> HIDE DEF points, ipoints
      <3> QED
        BY <1>1, <2>3, <3>1, AverageStep
    <2>5. Drawn'
      <3> DEFINE shown == Stretch(avg_ipoints', size, garbage)
      <3>1. shown \in [1..size -> Nat]
        <4> DEFINE s == avg_ipoints' m == Len(s)
        <4>1. m \in Nat /\ s \in [1..m -> Nat] /\ size \in Nat
          BY <1>2, <2>4, LenProperties DEF Vectors
        <4> HIDE DEF s, m, size
        <4>2. Stretch(s, size, garbage) \in [1..size -> Nat]
          BY <4>1, StretchFacts
        <4> QED
          BY <4>2 DEF s
      <3>2. intensity_grid' = Display(shown)
        BY <2>1
      <3> HIDE DEF shown, size
      <3>3. DOMAIN intensity_grid' = 1..size /\ \A i \in 1..size : intensity_grid'[i] \in Grid
        BY <1>2, <3>1, <3>2, DisplayFacts
      <3> QED
        BY <1>4, <3>3 DEF Drawn
    <2> QED
      BY <2>4, <2>5 DEF GridInv
  <1> QED
    BY <1>5, <1>6

LEMMA GridStep == GridInv /\ [GridNext]_gridVars => GridInv'
  <1> SUFFICES ASSUME GridInv, [GridNext]_gridVars PROVE GridInv'
    OBVIOUS
  <1>1. ASSUME NEW cloud \in Clouds, CloudArrives(cloud) PROVE GridInv'
    BY <1>1, CloudStep
  <1>2. CASE MapArrives
    <2>1. PICK map \in Maps : ApplyInitialMap(map)
      BY <1>2 DEF MapArrives
    <2>2. UNCHANGED <<params, grids, frames>>
      BY <1>2 DEF MapArrives
    <2> QED
      BY <2>1, <2>2, MapStep
  <1>3. CASE SetParameter
    <2>1. params \in Params
      BY DEF GridInv, Settings
    <2>2. params' \in Params
      <3>1. CASE \E flag \in Switches : params' = [params EXCEPT ![flag] = ~@]
        <4>1. PICK flag \in Switches : params' = [params EXCEPT ![flag] = ~@]
          BY <3>1
        <4>2. flag \in Flags
          BY PointCloudGridAssumption
        <4> QED
          BY <2>1, <4>1, <4>2, Zenon DEF Params, Flags
      <3>2. CASE \E size \in Sizes : params' = [params EXCEPT !.size = size]
        <4>1. PICK size \in Sizes : params' = [params EXCEPT !.size = size]
          BY <3>2
        <4> QED
          BY <2>1, <4>1 DEF Params
      <3> QED
        BY <1>3, <3>1, <3>2 DEF SetParameter
    <2>3. UNCHANGED <<averages, grids, frames, overrun>>
      BY <1>3 DEF SetParameter
    <2> QED
      BY <2>2, <2>3, Untouched
  <1>4. CASE UNCHANGED gridVars
    <2>1. params' \in Params /\ UNCHANGED <<averages, grids, frames, overrun>>
      BY <1>4 DEF gridVars, GridInv, Settings
    <2> QED
      BY <2>1, Untouched
  <1> QED
    BY <1>1, <1>2, <1>3, <1>4 DEF GridNext

LEMMA GridStart == GridInit => GridInv
  <1> SUFFICES ASSUME GridInit PROVE GridInv
    OBVIOUS
  <1> DEFINE n == params.size
  <1>1. /\ params \in Params /\ n \in Sizes /\ low = avg_ipoints /\ high = avg_ipoints
        /\ pure = TRUE /\ overrun = FALSE /\ intensity_grid = <<>> /\ height_grid = {}
        /\ frames = 0
    BY DEF GridInit, Params
  <1>2. n \in Nat
    BY <1>1, GridConstants
  <1>3. /\ avg_ipoints \in [1..n -> Nat] /\ normal_avg_count \in {0, Weight}
        /\ \A i \in 1..n : \E k \in Nat : avg_ipoints[i] = Scale * k
        /\ total = [i \in 1..n |-> normal_avg_count * avg_ipoints[i]]
    <2>1. CASE /\ avg_ipoints = Constant(params.size, 0) /\ normal_avg_count = 0
               /\ total = avg_ipoints
      <3>1. avg_ipoints = [i \in 1..n |-> 0]
        BY <2>1 DEF Constant
      <3>2. 0 = Scale * 0 /\ 0 * 0 = 0
        BY GridConstants
      <3>3. \A i \in 1..n : normal_avg_count * avg_ipoints[i] = 0
        BY <2>1, <3>1, <3>2
      <3>4. avg_ipoints \in [1..n -> Nat]
        BY <3>1
      <3>5. \A i \in 1..n : \E k \in Nat : avg_ipoints[i] = Scale * k
        BY <3>1, <3>2
      <3>6. total = [i \in 1..n |-> normal_avg_count * avg_ipoints[i]]
        BY <2>1, <3>1, <3>3
      <3> QED
        BY <2>1, <3>4, <3>5, <3>6
    <2>2. CASE /\ \E image \in Images :
                     Len(image) = params.size /\ avg_ipoints = OccupancyOfImage(image)
               /\ normal_avg_count = Weight
               /\ total = [i \in DOMAIN avg_ipoints |-> Weight * avg_ipoints[i]]
      <3>1. PICK image \in Images : Len(image) = n /\ avg_ipoints = OccupancyOfImage(image)
        BY <2>2
      <3>2. /\ avg_ipoints \in [1..n -> Nat]
            /\ \A i \in 1..n : \E k \in Nat : avg_ipoints[i] = Scale * k
        <4> HIDE DEF n
        <4> QED
          BY <3>1, ImageFacts
      <3> QED
        BY <2>2, <3>2
    <2> QED
      BY <2>1, <2>2 DEF GridInit
  <1> HIDE DEF n
  <1>4. avg_ipoints \in Seq(Nat) /\ Len(avg_ipoints) = n /\ AvgCells = 1..n
    BY <1>2, <1>3, VectorFacts DEF AvgCells
  <1>5. ASSUME NEW i \in AvgCells
        PROVE  LET a == avg_ipoints[i]
               IN  /\ total[i] = normal_avg_count * a /\ total[i] \in Nat /\ a \in Nat
                   /\ \E k \in Nat : total[i] = Scale * k
    <2>1. PICK k \in Nat : avg_ipoints[i] = Scale * k
      BY <1>3, <1>4
    <2>2. normal_avg_count \in Nat /\ avg_ipoints[i] \in Nat
      BY <1>3, <1>4, GridConstants
    <2>3. normal_avg_count * k \in Nat
          /\ normal_avg_count * (Scale * k) = Scale * (normal_avg_count * k)
      BY <2>2, GridConstants
    <2>4. normal_avg_count * avg_ipoints[i] \in Nat
      BY <2>2
    <2> QED
      BY <1>3, <1>4, <2>1, <2>2, <2>3, <2>4
  <1>6. Vectors
    <2>1. total \in [AvgCells -> Nat]
      BY <1>3, <1>4, <1>5
    <2> QED
      BY <1>1, <1>3, <1>4, <2>1 DEF Vectors
  <1>7. Settings
    <2>1. frames \in 0..MaxFrames /\ normal_avg_count \in 0..(Weight + frames)
      BY <1>1, <1>3, GridConstants
    <2> QED
      BY <1>1, <2>1 DEF Settings
  <1>8. Drawn
    BY <1>1 DEF Drawn
  <1>9. Whole
    BY <1>5 DEF Whole
  <1>10. AverageWithinSeen
    <2> SUFFICES ASSUME NEW i \in AvgCells PROVE avg_ipoints[i] <= avg_ipoints[i]
      BY <1>1 DEF AverageWithinSeen
    <2> QED
      BY <1>5
  <1>11. AverageIsMean
    BY <1>5 DEF AverageIsMean
  <1>12. AverageNearMean
    <2> SUFFICES ASSUME NEW i \in AvgCells
                 PROVE  /\ normal_avg_count * avg_ipoints[i] <= total[i]
                        /\ total[i] <= normal_avg_count * avg_ipoints[i]
                                         + frames * normal_avg_count
      BY DEF AverageNearMean
    <2> DEFINE sum == total[i] drift == frames * normal_avg_count
    <2>1. normal_avg_count * avg_ipoints[i] = sum /\ sum \in Nat
      BY <1>5
    <2>2. drift = 0
      <3>1. normal_avg_count \in Nat /\ frames = 0
        BY <1>1, <1>3, GridConstants
      <3> QED
        BY <3>1
    <2> HIDE DEF sum, drift
    <2>3. sum <= sum /\ sum <= sum + drift
      BY <2>1, <2>2
    <2> QED
      BY <2>1, <2>3 DEF sum, drift
  <1> QED
    BY <1>6, <1>7, <1>8, <1>9, <1>10, <1>11, <1>12 DEF GridInv

LEMMA GridSound == GridSpec => []GridInv
  BY GridStart, GridStep, PTL DEF GridSpec

-----------------------------------------------------------------------------
(* Every state of the node's averages and grids has its type: every cell   *)
(* that occupancy_grid_callback publishes is an occupancy, 0..100, even    *)
(* where averages that are shorter than the grid are read past their end.  *)
THEOREM GridTypes == GridSpec => []GridTypeOK
  <1>1. GridInv => GridTypeOK
    <2> SUFFICES ASSUME GridInv PROVE GridTypeOK
      OBVIOUS
    <2>1. frames \in 0..MaxFrames /\ normal_avg_count \in 0..(Weight + MaxFrames)
      BY GridConstants DEF GridInv, Settings
    <2> QED
      BY <2>1 DEF GridInv, Vectors, Settings, Drawn, GridTypeOK
  <1> QED
    BY <1>1, GridSound, PTL

(* An average that occupancy_grid_callback keeps is the mean of the map    *)
(* and the clouds, in normal averaging, and within what was averaged, in   *)
(* either mode, whatever the parameters did in between. The means are      *)
(* exact on a scale that every number of clouds divides: the code computes *)
(* them as floats.                                                         *)
THEOREM AveragesAlwaysSound == GridSpec => [](NoRounding => AveragesAreSound)
  <1>1. GridInv => (NoRounding => AveragesAreSound)
    BY DEF GridInv, AveragesAreSound
  <1> QED
    BY <1>1, GridSound, PTL

(* On any scale, what the recurrence of update_normal_average rounds off   *)
(* adds up to one unit of the scale a cloud at most, and never leads the   *)
(* average out of what was averaged.                                       *)
THEOREM AveragesAlwaysNear == GridSpec => [](AverageNearMean /\ AverageWithinSeen)
  <1>1. GridInv => AverageNearMean /\ AverageWithinSeen
    BY DEF GridInv
  <1> QED
    BY <1>1, GridSound, PTL

(* As long as nobody has set a size parameter to another value, averages   *)
(* and grid are of one size.                                               *)
Unresized == ~resized => params.size = Len(avg_ipoints) /\ ~overrun

(* The node starts with averages of the size of the grid. *)
LEMMA UnresizedStart == GridInit => Unresized
  <1> SUFFICES ASSUME GridInit PROVE params.size = Len(avg_ipoints) /\ ~overrun
    BY DEF Unresized
  <1>1. params.size \in Nat
    BY GridConstants DEF GridInit
  <1>2. CASE avg_ipoints = Constant(params.size, 0)
    <2>1. avg_ipoints \in [1..params.size -> Nat]
      BY <1>2 DEF Constant
    <2>2. Len(avg_ipoints) = params.size
      BY <1>1, <2>1, VectorFacts
    <2> QED
      BY <2>2 DEF GridInit
  <1>3. CASE \E image \in Images :
               Len(image) = params.size /\ avg_ipoints = OccupancyOfImage(image)
    <2>1. PICK image \in Images :
            Len(image) = params.size /\ avg_ipoints = OccupancyOfImage(image)
      BY <1>3
    <2>2. avg_ipoints \in [1..params.size -> Nat]
      BY <2>1, ImageFacts
    <2>3. Len(avg_ipoints) = params.size
      BY <1>1, <2>2, VectorFacts
    <2> QED
      BY <2>3 DEF GridInit
  <1> QED
    BY <1>2, <1>3 DEF GridInit

(* No step changes the size of the averages. *)
LEMMA AveragesKeepSize ==
    ASSUME GridInv, GridInv', [GridNext]_gridVars
    PROVE  Len(avg_ipoints') = Len(avg_ipoints)
  <1>1. Len(avg_ipoints) \in Nat /\ AvgCells = 1..Len(avg_ipoints)
    BY AveragesShape DEF GridInv
  <1>2. DOMAIN avg_ipoints' = AvgCells
    <2>1. CASE \E cloud \in Clouds : CloudArrives(cloud)
      BY <2>1 DEF CloudArrives, NormalAverage, MovingAverage, averages, AvgCells
    <2>2. CASE MapArrives
      BY <2>2 DEF MapArrives, ApplyInitialMap, averages, AvgCells
    <2>3. CASE SetParameter
      BY <2>3 DEF SetParameter, averages, AvgCells
    <2>4. CASE UNCHANGED gridVars
      BY <2>4 DEF gridVars, averages, AvgCells
    <2> QED
      BY <2>1, <2>2, <2>3, <2>4 DEF GridNext
  <1>3. Len(avg_ipoints') \in Nat /\ DOMAIN avg_ipoints' = 1..Len(avg_ipoints')
    BY LenProperties DEF GridInv, Vectors
  <1> QED
    BY <1>1, <1>2, <1>3

(* Nor does one access a vector past its end where they are of one size:   *)
(* apply_initial_map has compared the map with the grid, and both loops of *)
(* the callback run over as many elements as the grid has cells.           *)
LEMMA UnresizedStep ==
    ASSUME GridInv, GridInv', Unresized, [GridNext]_gridVars
    PROVE  Unresized'
  <1>1. Len(avg_ipoints') = Len(avg_ipoints)
    BY AveragesKeepSize
  <1>2. params.size \in Nat /\ Len(avg_ipoints) \in Nat
    BY GridConstants DEF GridInv, Vectors, Settings, Params
  <1>3. ASSUME NEW cloud \in Clouds, CloudArrives(cloud), ~resized'
        PROVE  params'.size = Len(avg_ipoints') /\ ~overrun'
    <2> DEFINE filtered == FilterCloud(params, cloud)
               ipoints == Intensities(params.size, filtered)
    <2>1. params' = params /\ resized' = resized
      BY <1>3 DEF CloudArrives
    <2>2. params.size = Len(avg_ipoints) /\ ~overrun
      BY <1>3, <2>1 DEF Unresized
    <2>3. Len(ipoints) = params.size
      <3>1. ipoints = [i \in 1..params.size |->
                          Scale * Contribution * Cardinality({p \in InGrid(params.size, filtered) : CellOf(p) = i})]
        BY DEF Intensities
      <3>2. IsFiniteSet(filtered)
        BY PointCloudGridAssumption, FilterFacts DEF IsCloud
      <3>3. 0 \in Garbage
        BY DEF Garbage
      <3> HIDE DEF filtered
      <3>4. ipoints \in [1..params.size -> Nat]
        BY <1>2, <3>2, <3>3, PointFacts
      <3> HIDE DEF ipoints
      <3> QED
        BY <1>2, <3>4, VectorFacts
    <2>4. \/ overrun' = overrun
          \/ overrun' = (overrun \/ PastEnd(ipoints, Len(avg_ipoints)) \/ PastEnd(avg_ipoints, Len(ipoints)))
      BY <1>3 DEF CloudArrives, Averaged
    <2> HIDE DEF ipoints
    <2>5. ~PastEnd(ipoints, Len(avg_ipoints)) /\ ~PastEnd(avg_ipoints, Len(ipoints))
      BY <1>2, <2>2, <2>3 DEF PastEnd
    <2>6. ~overrun'
      BY <2>2, <2>4, <2>5, Zenon
    <2> QED
      BY <1>1, <2>1, <2>2, <2>6
  <1>4. ASSUME MapArrives, ~resized'
        PROVE  params'.size = Len(avg_ipoints') /\ ~overrun'
    <2>1. PICK map \in Maps : ApplyInitialMap(map)
      BY <1>4 DEF MapArrives
    <2>2. params' = params /\ resized' = resized
      BY <1>4 DEF MapArrives
    <2>3. params.size = Len(avg_ipoints) /\ ~overrun
      BY <1>4, <2>2 DEF Unresized
    <2>4. CASE Len(map) # params.size
      BY <1>1, <2>1, <2>2, <2>3, <2>4 DEF ApplyInitialMap
    <2>5. CASE Len(map) = params.size
      <3>1. overrun' = (overrun \/ PastEnd(avg_ipoints, Len(map)))
        BY <2>1, <2>5 DEF ApplyInitialMap
      <3>2. ~PastEnd(avg_ipoints, Len(map))
        BY <1>2, <2>3, <2>5 DEF PastEnd
      <3> QED
        BY <1>1, <2>2, <2>3, <3>1, <3>2
    <2> QED
      BY <2>4, <2>5
  <1>5. ASSUME SetParameter, ~resized'
        PROVE  params'.size = Len(avg_ipoints') /\ ~overrun'
    <2>1. resized' = (resized \/ params'.size # params.size) /\ overrun' = overrun
      BY <1>5 DEF SetParameter
    <2> QED
      BY <1>1, <1>5, <2>1 DEF Unresized
  <1>6. CASE UNCHANGED gridVars
    BY <1>6 DEF gridVars, averages, Unresized
  <1> QED
    BY <1>3, <1>4, <1>5, <1>6 DEF GridNext, Unresized

(* A node whose size parameters nobody sets never accesses a vector past   *)
(* its end, whatever else parametersCallback is asked for, whichever map   *)
(* comes and when.                                                         *)
THEOREM OverrunAlwaysNeedsResize == GridSpec => []OverrunNeedsResize
  <1>1. Unresized => OverrunNeedsResize
    BY DEF Unresized, OverrunNeedsResize
  <1> QED
    BY <1>1, UnresizedStart, UnresizedStep, GridSound, PTL DEF GridSpec
=============================================================================
