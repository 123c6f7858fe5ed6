------------------------------ MODULE BmsNode ------------------------------
(***************************************************************************)
(* The node of ad_r1m_bringup/scripts/adrd_bms/adrd_bms_node.py: it turns  *)
(* the CANopen objects that the BMS sends one by one into BatteryState     *)
(* messages, published by a one-shot timer that every object restarts.     *)
(*                                                                         *)
(* Its callbacks run one at a time: OnCodata, Transmit. The BMS and the    *)
(* subscription's queue are the environment. A number is as wide as on     *)
(* the bus: signed objects have 2 * Half values. Scaling by a power of     *)
(* ten is left out.                                                        *)
(***************************************************************************)
EXTENDS Integers, Sequences

CONSTANTS
    Half,     \* half the range of a number: 2^7, 2^15 and 2^31 in the code
    Depth,    \* depth of the rpdo subscription; 5 in the code
    MaxSent   \* bound: objects sent by the BMS

ASSUME BmsNodeAssumption ==
    Half \in Nat /\ Half > 2 /\ Depth \in Nat \ {0} /\ MaxSent \in Nat

Signed == -Half..(Half - 1)

(* The objects, and what the BMS may mean by one. chargeRequest stands for *)
(* the objects the node does not keep, voltage for the plain numbers       *)
(* (voltage, cells, capacity), current for the signed ones (current,       *)
(* temperature).                                                           *)
Meaning == [batteryStatus |-> {0, 1}, chargerStatus |-> 0..4, current |-> Signed,
            voltage |-> {1}, batterySoc |-> {1, 2}, chargerSoc |-> {1, 2},
            chargeRequest |-> {1}]

Objects == DOMAIN Meaning

VARIABLES
    sent,            \* environment: what the BMS last said of each object
    count,           \* environment: how many objects it has sent
    dropped,         \* environment: the queue has dropped an object
    rpdo,            \* the queue of objects not yet delivered
    battery_state,   \* the message the node fills in
    battery_status, charger_status,  \* _battery_status, _charger_status
    send_timer,      \* "off", "running" or "due"
    published        \* the last message published

nodeVars == <<battery_state, battery_status, charger_status, send_timer, published>>
vars == <<sent, count, dropped, rpdo, nodeVars>>

(* No number on the bus. *)
Unheard == 2 * Half + 5

Statuses == {"unknown", "charging", "full", "discharging", "not charging"}

Blank == [power_supply_status |-> "unknown", current |-> Unheard,
          voltage |-> Unheard, percentage |-> Unheard, present |-> FALSE]

Init ==
    /\ sent = [o \in Objects |-> Unheard]
    /\ count = 0 /\ dropped = FALSE /\ rpdo = <<>>
    /\ battery_state = Blank
    /\ battery_status = 0 /\ charger_status = 0
    /\ send_timer = "off"
    /\ published = Blank

TypeOK ==
    /\ count \in 0..MaxSent /\ dropped \in BOOLEAN /\ Len(rpdo) <= Depth
    /\ \A m \in {battery_state, published} :
         /\ m.power_supply_status \in Statuses
         /\ m.current \in Signed \cup {Unheard}
    /\ battery_status \in {0, 1} /\ charger_status \in 0..4
    /\ send_timer \in {"off", "running", "due"}

-----------------------------------------------------------------------------
(* Two's complement on the bus, and its reading by the node. *)
Encode(v) == v % (2 * Half)

(* Bug for TypeOK: the sign is not restored. *)
DecodeUnsigned(data) == data

(* Bug for SettledIsTrue: the boundary is on the wrong side. *)
DecodeLate(data) == IF data <= Half THEN data ELSE data - 2 * Half

Decode(data) == IF data < Half THEN data ELSE data - 2 * Half

(* The BMS says something of an object; a full queue drops its oldest.     *)
BmsSends(o, v) ==
    /\ count < MaxSent
    /\ count' = count + 1
    /\ sent' = [sent EXCEPT ![o] = v]
    /\ dropped' = (dropped \/ Len(rpdo) = Depth)
    /\ rpdo' = Append(IF Len(rpdo) = Depth THEN Tail(rpdo) ELSE rpdo,
                      [object |-> o, data |-> Encode(v)])
    /\ UNCHANGED nodeVars

(* Bug for SettledIsTrue: the charger has the last word. *)
PowerSupplyChargerFirst(battery, charger) ==
    CASE charger = 1 -> "charging"
      [] charger = 4 -> "full"
      [] charger = 3 -> "not charging"
      [] charger \notin {1, 3, 4} /\ battery = 1 -> "discharging"
      [] OTHER -> "unknown"

(* _update_power_supply_status: the first of these that holds.             *)
PowerSupply(battery, charger) ==
    CASE charger = 1 -> "charging"
      [] charger = 4 -> "full"
      [] charger \notin {1, 4} /\ battery = 1 -> "discharging"
      [] charger = 3 /\ battery # 1 -> "not charging"
      [] OTHER -> "unknown"

OnCodata ==
    /\ rpdo # <<>>
    /\ rpdo' = Tail(rpdo)
    /\ LET o == Head(rpdo).object
           data == Head(rpdo).data
       IN  /\ battery_status' = IF o = "batteryStatus" THEN data ELSE battery_status
           /\ charger_status' = IF o = "chargerStatus" THEN data ELSE charger_status
           /\ battery_state' =
                [power_supply_status |->
                    IF o \in {"batteryStatus", "chargerStatus"}
                    THEN PowerSupply(battery_status', charger_status')
                    ELSE battery_state.power_supply_status,
                 current |-> IF o = "current" THEN Decode(data) ELSE battery_state.current,
                 voltage |-> IF o = "voltage" THEN data ELSE battery_state.voltage,
                 percentage |-> IF o \in {"batterySoc", "chargerSoc"}
                                THEN data ELSE battery_state.percentage,
                 present |-> TRUE]
    /\ send_timer' = "running"
    /\ UNCHANGED <<sent, count, dropped, published>>

(* 1 ms has passed since the timer was last restarted. *)
TimerElapses ==
    /\ send_timer = "running"
    /\ send_timer' = "due"
    /\ UNCHANGED <<sent, count, dropped, rpdo, battery_state, battery_status,
                   charger_status, published>>

(* Bug for UpdatePublished: the timer is not due again once it was. *)
TransmitOnce ==
    /\ send_timer = "due" /\ ~published.present
    /\ send_timer' = "off"
    /\ published' = battery_state
    /\ UNCHANGED <<sent, count, dropped, rpdo, battery_state, battery_status, charger_status>>

Transmit ==
    /\ send_timer = "due"
    /\ send_timer' = "off"
    /\ published' = battery_state
    /\ UNCHANGED <<sent, count, dropped, rpdo, battery_state, battery_status, charger_status>>

Next ==
    \/ \E o \in Objects : \E v \in Meaning[o] : BmsSends(o, v)
    \/ OnCodata \/ TimerElapses \/ Transmit
    \/ count = MaxSent /\ rpdo = <<>> /\ send_timer = "off" /\ UNCHANGED vars

Spec == Init /\ [][Next]_vars

(* The executor delivers what is queued and fires what is due. TimerElapses *)
(* is fair because MaxSent makes the BMS pause in the end; a BMS that never *)
(* paused for 1 ms would keep the timer from firing.                        *)
FairSpec == Spec /\ WF_vars(OnCodata) /\ WF_vars(TimerElapses) /\ WF_vars(Transmit)

-----------------------------------------------------------------------------
Heard(o) == sent[o] # Unheard

(* Once nothing is queued and the timer is off, the last message published *)
(* says what the BMS last said, whatever order the objects came in. The    *)
(* power supply status combines two objects, each of which may be the last *)
(* to come: a discharging battery is discharging unless the charger is     *)
(* charging it or calls it full.                                           *)
SettledIsTrue ==
    rpdo = <<>> /\ send_timer = "off" /\ ~dropped =>
        /\ Heard("current") => published.current = sent["current"]
        /\ Heard("voltage") => published.voltage = sent["voltage"]
        /\ Heard("batterySoc") /\ ~Heard("chargerSoc") =>
             published.percentage = sent["batterySoc"]
        /\ published.present <=> \E o \in Objects : Heard(o)
        /\ sent["batteryStatus"] = 1 =>
             published.power_supply_status =
                CASE sent["chargerStatus"] = 1 -> "charging"
                  [] sent["chargerStatus"] = 4 -> "full"
                  [] OTHER -> "discharging"

(* Every object received is followed by a publication. *)
UpdatePublished == send_timer # "off" ~> send_timer = "off"

=============================================================================
