-------------------------- MODULE UsageSync_proof --------------------------
(***************************************************************************)
(* Proofs about the Mac Bluetooth client (UsageClient) and, further down,  *)
(* about the way of a snapshot from the Mac to the screen (UsageDelivery). *)
(***************************************************************************)
EXTENDS UsageClient, UsageDelivery, TLAPS

(* What the client may be waiting for, and the steps by the handler they    *)
(* share.                                                                   *)
Failing ==
    \/ RecoverAfterWake
    \/ \E call \in calls : DidFail(call)
    \/ DidDisconnect \/ (dropping /\ Disconnected(Attached(calls)))
Advancing ==
    \E call \in calls : \/ DidDiscover(call) \/ DidConnect(call)
                        \/ DidDiscoverServices(call)
Found == \E call \in calls : DidDiscoverCharacteristics(call)
Writing == \E call \in calls : DidWrite(call)
Ignoring == \/ HeartbeatDue \/ \E call \in calls : Lost(call)
            \/ dropping /\ IgnoresDisconnect
Updating == \E payload \in Payload \cup {latest} : Update(payload)
Scanning == RetryElapsed \/ RadioOn

LEMMA Steps ==
    Next <=> \/ Start \/ Stop \/ Updating \/ Failing \/ Scanning \/ RadioOff
             \/ Advancing \/ Found \/ Writing \/ Ignoring
  BY DEF Next, Updating, Failing, Scanning, Advancing, Found, Writing,
         Ignoring, Answer, LateDisconnect

-----------------------------------------------------------------------------
(* Type correctness, one group of variables at a time.                      *)

Calls == SUBSET [request : Request, live : BOOLEAN]
MachineType == /\ running \in BOOLEAN /\ poweredOn \in BOOLEAN
               /\ retryArmed \in BOOLEAN
               /\ state \in State
WriteType == /\ found \in BOOLEAN
             /\ latest \in Stored /\ active \in Stored
             /\ frames \in 0 .. FrameCount
GateType == /\ gate \in Stored /\ deliveredHere \in Stored
            /\ gateAge \in {"never", "recent", "due"}
LinkType == calls \in Calls /\ link \in BOOLEAN /\ dropping \in BOOLEAN

LEMMA TypeParts ==
    /\ TypeOK <=> MachineType /\ WriteType /\ GateType /\ LinkType
    /\ TypeOK' <=> MachineType' /\ WriteType' /\ GateType' /\ LinkType'
  BY DEF TypeOK, MachineType, WriteType, GateType, LinkType, Calls

LEMMA StoredType == None \in Stored /\ Payload \subseteq Stored
  BY DEF Stored

LEMMA FrameType == 0 \in 0 .. FrameCount /\ FrameCount \in 0 .. FrameCount
  BY DEF FrameCount

LEMMA RequestType ==
    \A r \in Request, owed \in Calls : owed \cup {Asked(r)} \in Calls
<1>1. \A r \in Request : Asked(r) \in [request : Request, live : BOOLEAN]
    BY DEF Asked
<1> QED BY <1>1 DEF Calls

LEMMA CancelType ==
    ASSUME NEW owed \in Calls, NEW drops \in BOOLEAN, Cancel(owed, drops),
           WriteType, latest' \in Stored
    PROVE  WriteType' /\ LinkType'
<1>1. \A c \in owed : [request |-> c.request, live |-> FALSE]
                       \in [request : Request, live : BOOLEAN]
    BY DEF Calls
<1>2. calls' \in Calls
    BY <1>1 DEF Cancel, Calls
<1>3. found' = FALSE /\ active' = None /\ frames' = 0
      /\ link' = FALSE /\ dropping' = drops
    BY DEF Cancel
<1>4. WriteType'
    BY <1>3, StoredType, FrameType DEF WriteType
<1>5. LinkType'
    BY <1>2, <1>3 DEF LinkType
<1> QED BY <1>4, <1>5

LEMMA FailType ==
    ASSUME NEW owed \in Calls, NEW drops \in BOOLEAN, Fail(owed, drops),
           MachineType, WriteType, LinkType
    PROVE  MachineType' /\ WriteType' /\ LinkType'
<1>1. CASE poweredOn /\ state # "stopped"
    <2>1. MachineType'
        BY <1>1 DEF Fail, MachineType, State
    <2> QED BY <1>1, <2>1, CancelType DEF Fail, WriteType
<1>2. CASE ~ (poweredOn /\ state # "stopped")
    BY <1>2 DEF Fail, MachineType, WriteType, LinkType, writeVars
<1> QED BY <1>1, <1>2

LEMMA AttemptType ==
    ASSUME NEW payload \in Stored, NEW canWrite, NEW lastPayload, NEW lastAge,
           NEW owed \in Calls,
           Attempt(payload, canWrite, lastPayload, lastAge, owed)
    PROVE  active' \in Stored /\ frames' \in 0 .. FrameCount /\ calls' \in Calls
<1>1. owed \cup {Asked("write")} \in Calls
    BY RequestType DEF Request
<1> QED BY <1>1, StoredType, FrameType DEF Attempt

LEMMA TypeStep == TypeOK /\ [Next]_vars => TypeOK'
<1> SUFFICES ASSUME MachineType, WriteType, GateType, LinkType, [Next]_vars
             PROVE  MachineType' /\ WriteType' /\ GateType' /\ LinkType'
    BY TypeParts
<1>a. /\ calls \in Calls
      /\ \A call : calls \ {call} \in Calls
      /\ Attached(calls) \in BOOLEAN
      /\ \A call : Attached(calls \ {call}) \in BOOLEAN
    BY DEF LinkType, Calls, Attached
<1>1. CASE Start
    BY <1>1 DEF Start, MachineType, WriteType, GateType, LinkType, writeVars,
                gateVars, Calls
<1>2. CASE Stop
    <2>1. MachineType' /\ GateType' /\ latest' \in Stored
        BY <1>2 DEF Stop, MachineType, GateType, WriteType, gateVars, State
    <2> QED BY <1>2, <1>a, <2>1, CancelType DEF Stop, CancelAll, LinkType
<1>3. CASE Updating
    <2>1. PICK payload \in Payload \cup {latest} : Update(payload)
        BY <1>3 DEF Updating
    <2>2. payload \in Stored
        BY DEF WriteType, Stored
    <2>3. active' \in Stored /\ frames' \in 0 .. FrameCount /\ calls' \in Calls
        BY <1>a, <2>1, <2>2, AttemptType DEF Update, WriteType
    <2> QED BY <2>1, <2>2, <2>3 DEF Update, MachineType, WriteType, GateType,
                 LinkType, machineVars, gateVars
<1>4. CASE Failing
    <2>1. PICK owed \in SUBSET calls, drops \in BOOLEAN :
              Fail(owed, drops) /\ gateAge' \in {gateAge, "never"}
              /\ UNCHANGED <<gate, deliveredHere>>
        BY <1>4, <1>a DEF Failing, RecoverAfterWake, DidFail, DidDisconnect,
               Disconnected, ResetGate, gateVars, LinkType
    <2>2. owed \in Calls
        BY <1>a DEF Calls
    <2> QED BY <2>1, <2>2, FailType DEF GateType
<1>5. CASE Scanning
    <2>1. calls' \in Calls
        BY <1>5, RequestType DEF Scanning, RetryElapsed, RadioOn, StartScan,
               Calls, Asked, Request
    <2> QED BY <1>5, <2>1 DEF Scanning, RetryElapsed, RadioOn, StartScan,
                 MachineType, WriteType, GateType, LinkType, writeVars,
                 gateVars, State
<1>6. CASE RadioOff
    <2>1. MachineType' /\ GateType' /\ latest' \in Stored
        BY <1>6 DEF RadioOff, MachineType, GateType, WriteType, gateVars, State
    <2> QED BY <1>6, <1>a, <2>1, CancelType DEF RadioOff, CancelAll, LinkType,
                 WriteType, writeVars, linkVars
<1>7. CASE Advancing
    <2>1. \A call : /\ (calls \ {call}) \cup {Asked("connect")} \in Calls
                    /\ (calls \ {call}) \cup {Asked("service")} \in Calls
                    /\ (calls \ {call}) \cup {Asked("characteristic")} \in Calls
        BY <1>a, RequestType DEF Request
    <2>2. PICK call \in calls : \/ DidDiscover(call) \/ DidConnect(call)
                                \/ DidDiscoverServices(call)
        BY <1>7 DEF Advancing
    <2>3. calls' \in Calls
        BY <1>a, <2>1, <2>2 DEF DidDiscover, DidConnect, DidDiscoverServices,
               Advances
    <2>4. link' \in BOOLEAN /\ state' \in State
        BY <2>2 DEF DidDiscover, DidConnect, DidDiscoverServices, Advances,
               MachineType, State
    <2> QED BY <2>2, <2>3, <2>4 DEF DidDiscover, DidConnect,
                 DidDiscoverServices, Advances, MachineType, WriteType,
                 GateType, LinkType, writeVars, gateVars
<1>8. CASE Found
    <2>1. PICK call \in calls : DidDiscoverCharacteristics(call)
        BY <1>8 DEF Found
    <2>2. active' \in Stored /\ frames' \in 0 .. FrameCount /\ calls' \in Calls
        BY <1>a, <2>1, AttemptType DEF DidDiscoverCharacteristics,
               BecameReady, WriteType
    <2> QED BY <2>1, <2>2 DEF DidDiscoverCharacteristics, BecameReady,
                 MachineType, WriteType, GateType, LinkType, gateVars, State,
                 Stored
<1>9. CASE Writing
    <2>1. PICK call \in calls : DidWrite(call)
        BY <1>9 DEF Writing
    <2>2. (calls \ {call}) \cup {Asked("write")} \in Calls
        BY <1>a, RequestType DEF Request
    <2>3. active' \in Stored /\ frames' \in 0 .. FrameCount /\ calls' \in Calls
        <3>1. CASE frames > 1 /\ active' = active /\ frames' = frames - 1
                   /\ calls' = (calls \ {call}) \cup {Asked("write")}
            BY <2>2, <3>1 DEF WriteType, FrameCount
        <3>2. CASE Delivered(calls \ {call})
            BY <1>a, <3>2, AttemptType DEF Delivered, WriteType
        <3>3. CASE Attempt(latest, CanWrite, gate, gateAge, calls \ {call})
            BY <1>a, <3>3, AttemptType DEF WriteType
        <3> QED BY <2>1, <3>1, <3>2, <3>3 DEF DidWrite
    <2> QED BY <2>1, <2>3 DEF DidWrite, Delivered, MachineType, WriteType,
                 GateType, LinkType, machineVars, gateVars
<1>10. CASE Ignoring
    BY <1>10, <1>a DEF Ignoring, HeartbeatDue, Lost, IgnoresDisconnect,
           MachineType, WriteType, GateType, LinkType, machineVars, writeVars,
           gateVars, linkVars
<1>11. CASE UNCHANGED vars
    BY <1>11 DEF vars, MachineType, WriteType, GateType, LinkType,
           machineVars, writeVars, gateVars, linkVars
<1> QED BY Steps, <1>1, <1>2, <1>3, <1>4, <1>5, <1>6, <1>7, <1>8, <1>9, <1>10,
         <1>11

(* Every variable of the client keeps its type, whatever the payloads are   *)
(* and in whatever order callbacks, timers and updates reach the queue.     *)
THEOREM TypeCorrect == Spec => []TypeOK
<1>1. Init => TypeOK
    <2> SUFFICES ASSUME Init
                 PROVE  MachineType /\ WriteType /\ GateType /\ LinkType
        BY TypeParts
    <2>1. MachineType
        BY DEF Init, MachineType, State
    <2>2. WriteType /\ GateType
        BY StoredType, FrameType DEF Init, WriteType, GateType
    <2>3. LinkType
        BY DEF Init, LinkType, Calls
    <2> QED BY <2>1, <2>2, <2>3
<1> QED BY <1>1, TypeStep, PTL DEF Spec

-----------------------------------------------------------------------------

(* The client and the requests it waits for.  Beyond the two properties the *)
(* induction needs to know where a client that is not running, or has no    *)
(* radio, can be.                                                           *)

Parked == /\ ~ running => state = "stopped"
          /\ ~ poweredOn => state \in {"stopped", "unavailable"}

WaitInv == Parked /\ RetryIffRetrying /\ AwaitsAnswer

LEMMA CancelWaits ==
    ASSUME NEW owed, NEW drops, Cancel(owed, drops),
           state' \in {"stopped", "unavailable", "retrying"}
    PROVE  AwaitsAnswer'
  BY DEF Cancel, AwaitsAnswer

LEMMA FailWaits ==
    ASSUME NEW owed, NEW drops, Fail(owed, drops), WaitInv
    PROVE  WaitInv'
<1>1. CASE poweredOn /\ state # "stopped"
    BY <1>1, CancelWaits DEF Fail, WaitInv, Parked, RetryIffRetrying
<1>2. CASE ~ (poweredOn /\ state # "stopped")
    <2>1. state \in {"stopped", "unavailable"} /\ active = None
        BY <1>2 DEF WaitInv, Parked, AwaitsAnswer
    <2> QED BY <1>2, <2>1 DEF Fail, WaitInv, Parked, RetryIffRetrying,
                 AwaitsAnswer, writeVars
<1> QED BY <1>1, <1>2

LEMMA WaitStep == WaitInv /\ [Next]_vars => WaitInv'
<1> SUFFICES ASSUME WaitInv, [Next]_vars
             PROVE  WaitInv'
    OBVIOUS
<1> USE DEF WaitInv
<1>1. CASE Start
    BY <1>1 DEF Start, Parked, RetryIffRetrying, AwaitsAnswer, writeVars
<1>2. CASE Stop
    BY <1>2, CancelWaits DEF Stop, CancelAll, Parked, RetryIffRetrying
<1>3. CASE Updating
    <2>1. PICK payload : Update(payload)
        BY <1>3 DEF Updating
    <2>2. calls \subseteq calls'
        BY <2>1 DEF Update, Attempt
    <2>3. active' # None => state = "ready" /\ Asked("write") \in calls'
        BY <2>1 DEF Update, Attempt, CanWrite, AwaitsAnswer
    <2>4. AwaitsAnswer'
        BY <2>1, <2>2, <2>3 DEF Update, machineVars, AwaitsAnswer
    <2> QED BY <2>1, <2>4 DEF Update, machineVars, Parked, RetryIffRetrying
<1>4. CASE Failing
    BY <1>4, FailWaits DEF Failing, RecoverAfterWake, DidFail, DidDisconnect,
       Disconnected
<1>5. CASE Scanning
    <2>1. active = None /\ running
        BY <1>5 DEF Scanning, RetryElapsed, RadioOn, Parked, RetryIffRetrying,
               AwaitsAnswer
    <2> QED BY <1>5, <2>1 DEF Scanning, RetryElapsed, RadioOn, StartScan,
                 Parked, RetryIffRetrying, AwaitsAnswer, writeVars
<1>6. CASE RadioOff
    <2>1. CASE state = "stopped"
        BY <1>6, <2>1 DEF RadioOff, Parked, RetryIffRetrying, AwaitsAnswer,
               writeVars, linkVars
    <2>2. CASE state # "stopped"
        BY <1>6, <2>2, CancelWaits DEF RadioOff, CancelAll, Parked,
               RetryIffRetrying
    <2> QED BY <2>1, <2>2
<1>7. CASE Advancing
    <2>1. PICK call \in calls : \/ DidDiscover(call) \/ DidConnect(call)
                                \/ DidDiscoverServices(call)
        BY <1>7 DEF Advancing
    <2>2. active' = active /\ found' = found
          /\ UNCHANGED <<running, poweredOn, retryArmed>>
        BY <2>1 DEF DidDiscover, DidConnect, DidDiscoverServices, Advances,
               writeVars
    <2>3. AwaitsAnswer'
        <3>1. \A r \in Request \ {call.request} : Asked(r) \in calls =>
                                                     Asked(r) \in calls'
            BY <2>1 DEF DidDiscover, DidConnect, DidDiscoverServices,
                   Advances, Asked
        <3>2. CASE DidDiscover(call)
            BY <2>2, <3>1, <3>2 DEF DidDiscover, Advances, AwaitsAnswer,
                   Request
        <3>3. CASE DidConnect(call)
            BY <2>2, <3>1, <3>3 DEF DidConnect, Advances, AwaitsAnswer,
                   Request
        <3>4. CASE DidDiscoverServices(call)
            BY <2>2, <3>1, <3>4 DEF DidDiscoverServices, Advances,
                   AwaitsAnswer, Request
        <3> QED BY <2>1, <3>2, <3>3, <3>4
    <2>4. Parked' /\ RetryIffRetrying'
        BY <2>1, <2>2 DEF DidDiscover, DidConnect, DidDiscoverServices,
               Advances, Parked, RetryIffRetrying
    <2> QED BY <2>3, <2>4
<1>8. CASE Found
    <2>1. PICK call \in calls : DidDiscoverCharacteristics(call)
        BY <1>8 DEF Found
    <2>2. CASE state = "discoveringCharacteristic"
        BY <2>1, <2>2 DEF DidDiscoverCharacteristics, BecameReady, Attempt,
               Parked, RetryIffRetrying, AwaitsAnswer
    <2>3. CASE state # "discoveringCharacteristic"
        BY <2>1, <2>3 DEF DidDiscoverCharacteristics, Parked,
               RetryIffRetrying, AwaitsAnswer, Asked
    <2> QED BY <2>2, <2>3
<1>9. CASE Writing
    <2>1. PICK call \in calls : DidWrite(call)
        BY <1>9 DEF Writing
    <2>2. \A r \in Request \ {"write"} : Asked(r) \in calls =>
                                             Asked(r) \in calls'
        BY <2>1 DEF DidWrite, Delivered, Attempt, Asked
    <2>3. active' # None => state = "ready" /\ Asked("write") \in calls'
        BY <2>1 DEF DidWrite, Delivered, Attempt, CanWrite, AwaitsAnswer
    <2> QED BY <2>1, <2>2, <2>3 DEF DidWrite, machineVars, Parked,
                 RetryIffRetrying, AwaitsAnswer, Request
<1>10. CASE Ignoring
    BY <1>10 DEF Ignoring, HeartbeatDue, Lost, IgnoresDisconnect, Parked,
           RetryIffRetrying, AwaitsAnswer, Asked, machineVars, writeVars,
           linkVars
<1>11. CASE UNCHANGED vars
    BY <1>11 DEF vars, Parked, RetryIffRetrying, AwaitsAnswer, machineVars,
           writeVars, linkVars
<1> QED BY Steps, <1>1, <1>2, <1>3, <1>4, <1>5, <1>6, <1>7, <1>8, <1>9, <1>10,
         <1>11

LEMMA WaitInvariant == Spec => []WaitInv
<1>1. Init => WaitInv
    BY DEF Init, WaitInv, Parked, RetryIffRetrying, AwaitsAnswer
<1> QED BY <1>1, WaitStep, PTL DEF Spec

(* The retry timer is armed exactly while the client is retrying (perform). *)
THEOREM RetryArmed == Spec => []RetryIffRetrying
<1>1. WaitInv => RetryIffRetrying
    BY DEF WaitInv
<1> QED BY <1>1, WaitInvariant, PTL

(* A client that waits for CoreBluetooth has a request of the current       *)
(* connection open for what it waits for.                                   *)
THEOREM NeverStranded == Spec => []AwaitsAnswer
<1>1. WaitInv => AwaitsAnswer
    BY DEF WaitInv
<1> QED BY <1>1, WaitInvariant, PTL

-----------------------------------------------------------------------------
(* No update is lost.  A recent delivery in the gate is one of the current  *)
(* connection, and only a real payload is ever being written.               *)

GateInv == /\ state = "ready" /\ gateAge = "recent" => gate = deliveredHere
           /\ active # None => latest # None
           /\ NoUpdateLost

LEMMA GateStep == TypeOK /\ WaitInv /\ GateInv /\ [Next]_vars => GateInv'
<1> SUFFICES ASSUME TypeOK, WaitInv, GateInv, [Next]_vars
             PROVE  GateInv'
    OBVIOUS
<1> USE DEF GateInv, NoUpdateLost
<1>a. /\ state = "ready" => found
      /\ active # None => state = "ready"
    BY DEF WaitInv, AwaitsAnswer
<1>1. CASE Start
    BY <1>1 DEF Start, writeVars, gateVars
<1>2. CASE Stop
    BY <1>2 DEF Stop, CancelAll, Cancel
<1>3. CASE Updating
    <2>1. PICK payload \in Payload \cup {latest} : Update(payload)
        BY <1>3 DEF Updating
    <2>2. payload = None => latest = None
        BY PayloadAssumption
    <2> QED BY <1>a, <2>1, <2>2 DEF Update, Attempt, CanWrite, machineVars,
                 gateVars
<1>4. CASE Failing
    <2>1. PICK owed, drops : /\ Fail(owed, drops)
                             /\ gateAge' \in {gateAge, "never"}
                             /\ UNCHANGED <<gate, deliveredHere>>
        BY <1>4 DEF Failing, RecoverAfterWake, DidFail, DidDisconnect,
               Disconnected, ResetGate, gateVars
    <2> QED BY <2>1 DEF Fail, Cancel, writeVars
<1>5. CASE Scanning
    <2>1. active = None
        BY <1>5, <1>a DEF Scanning, RetryElapsed, RadioOn, WaitInv, Parked,
               RetryIffRetrying
    <2> QED BY <1>5, <2>1 DEF Scanning, RetryElapsed, RadioOn, StartScan,
                 writeVars, gateVars
<1>6. CASE RadioOff
    BY <1>6, <1>a DEF RadioOff, CancelAll, Cancel, writeVars, gateVars
<1>7. CASE Advancing
    BY <1>7, <1>a DEF Advancing, DidDiscover, DidConnect,
           DidDiscoverServices, Advances, writeVars, gateVars
<1>8. CASE Found
    BY <1>8, <1>a DEF Found, DidDiscoverCharacteristics, BecameReady, Attempt,
           gateVars
<1>9. CASE Writing
    <2>1. PICK call : DidWrite(call)
        BY <1>9 DEF Writing
    <2>2. CASE active # None /\ Delivered(calls \ {call})
        BY <1>a, <2>1, <2>2 DEF DidWrite, Delivered, Attempt, CanWrite,
               machineVars
    <2>3. CASE active = None
               /\ Attempt(latest, CanWrite, gate, gateAge, calls \ {call})
               /\ UNCHANGED gateVars
        BY <1>a, <2>1, <2>3 DEF DidWrite, Attempt, CanWrite, machineVars,
               gateVars
    <2>4. CASE UNCHANGED <<active, gateVars>>
        BY <2>1, <2>4 DEF DidWrite, machineVars, gateVars
    <2> QED BY <2>1, <2>2, <2>3, <2>4 DEF DidWrite
<1>10. CASE Ignoring
    BY <1>10 DEF Ignoring, HeartbeatDue, Lost, IgnoresDisconnect,
           machineVars, writeVars, gateVars
<1>11. CASE UNCHANGED vars
    BY <1>11 DEF vars, machineVars, writeVars, gateVars
<1> QED BY Steps, <1>1, <1>2, <1>3, <1>4, <1>5, <1>6, <1>7, <1>8, <1>9, <1>10,
         <1>11

(* A ready client that writes nothing has delivered the newest snapshot on  *)
(* the connection it has (attemptDelivery, writeNextFrame, becameReady).    *)
THEOREM UpdatesAreDelivered == Spec => []NoUpdateLost
<1>1. Init => GateInv
    BY DEF Init, GateInv, NoUpdateLost
<1>2. GateInv => NoUpdateLost
    BY DEF GateInv
<1> QED BY <1>1, <1>2, GateStep, TypeCorrect, WaitInvariant, PTL DEF Spec
-----------------------------------------------------------------------------
(* The way of a snapshot (UsageDelivery).                                   *)

(* The write loop: a payload is being written exactly while a frame is on   *)
(* its way, only over a link, and never during the check after a wake-up.   *)
LoopInv ==
    /\ frame = 0 <=> activePayload = Nothing
    /\ frame = 0 => answer = "none"
    /\ frame # 0 => linked
    /\ linked => mac # "off" /\ ~ marking

(* Nothing anywhere is newer than the latest observation. *)
KnownInv ==
    /\ current.at =< newest /\ cache =< newest /\ activePayload.at =< newest
    /\ device.at =< newest /\ nvs =< newest

(* How old a live value can be: the controller's snapshot, once it was      *)
(* checked after a wake-up and since the timer last ran, the payload being  *)
(* written, and the device's, which also counts from its delivery.          *)
Recent(p, limit) == ~ p.stale => now - p.at =< limit

FreshInv ==
    /\ linked \/ (mac = "awake" /\ ~ marking) => Recent(current, StaleAfter + 1)
    /\ mac = "awake" /\ ~ marking /\ ~ due => Recent(current, StaleAfter)
    /\ Recent(activePayload, StaleAfter + 1)
    /\ Recent(device, StaleAfter + 1 + age)

(* Between the frames of an undisturbed message the device holds its first  *)
(* half, after the second the payload, and so it does once that counts as   *)
(* delivered.                                                               *)
HeldInv ==
    /\ deliveryGate.sure => device.at >= deliveryGate.payload.at
    /\ frame = 1 /\ answer = "none" => partial.of # "this"
    /\ ~ disturbed =>
        /\ (frame = 1 /\ answer = "ok") \/ (frame = 2 /\ answer = "none")
               => partial = [of |-> "this", halves |-> {1}]
        /\ frame = 2 /\ answer = "ok" => device.at >= activePayload.at

DeliveryInv == DeliveryTypeOK /\ LoopInv /\ KnownInv /\ FreshInv /\ HeldInv

LEMMA InvInit == DeliveryInit => DeliveryInv
<1> SUFFICES ASSUME DeliveryInit PROVE DeliveryInv
    OBVIOUS
<1> USE DEF DeliveryInit, Nothing, Blank
<1>1. DeliveryTypeOK
    <2>1. -1 \in Time /\ 0 \in 0 .. MaxTime /\ 0 \in 0 .. StaleAfter
        BY DeliveryAssumption DEF Time
    <2>2. Nothing \in Snapshot
        BY <2>1 DEF Snapshot
    <2>3. deliveryGate \in Gate /\ partial \in Partial
        BY <2>2 DEF Gate, Partial
    <2>4. /\ due \in BOOLEAN /\ marking \in BOOLEAN
          /\ linked \in BOOLEAN /\ disturbed \in BOOLEAN
        OBVIOUS
    <2>5. now \in 0 .. MaxTime /\ newest \in -1 .. now
        BY <2>1
    <2> QED BY <2>1, <2>2, <2>3, <2>4, <2>5 DEF DeliveryTypeOK
<1>2. LoopInv /\ KnownInv /\ FreshInv /\ HeldInv
    BY DEF LoopInv, KnownInv, FreshInv, Recent, HeldInv
<1> QED BY <1>1, <1>2 DEF DeliveryInv

-----------------------------------------------------------------------------
(* Snapshots. *)

LEMMA SnapshotFields ==
    /\ Nothing \in Snapshot /\ Nothing.at = -1 /\ Nothing.stale
    /\ \A p \in Snapshot :
          /\ p.at \in Time /\ p.at \in Int /\ p.stale \in BOOLEAN
          /\ AsStale(p) \in Snapshot
          /\ AsStale(p).at = p.at /\ AsStale(p).stale
<1>1. -1 \in Time /\ \A t \in Time : t \in Int
    BY DeliveryAssumption DEF Time
<1>2. Nothing \in Snapshot /\ Nothing.at = -1 /\ Nothing.stale
    BY <1>1 DEF Snapshot, Nothing
<1>3. ASSUME NEW p \in Snapshot
      PROVE  /\ p.at \in Time /\ p.at \in Int /\ p.stale \in BOOLEAN
             /\ AsStale(p) \in Snapshot
             /\ AsStale(p).at = p.at /\ AsStale(p).stale
    BY <1>1, <1>3 DEF Snapshot, AsStale
<1> QED BY <1>2, <1>3

LEMMA MarkedIsRecent ==
    ASSUME DeliveryTypeOK, NEW p \in Snapshot, NEW q \in MarkingStale(p)
    PROVE  q \in Snapshot /\ q.at = p.at /\ Recent(q, StaleAfter)
<1>1. q \in {p, AsStale(p)} /\ (now - p.at > StaleAfter => q.stale)
    BY DEF MarkingStale
<1> QED
    BY <1>1, SnapshotFields, DeliveryAssumption DEF DeliveryTypeOK, Recent

LEMMA PeriodicIsRecent ==
    ASSUME DeliveryTypeOK, NEW p \in Snapshot
    PROVE  /\ PeriodicMark(p) \in Snapshot /\ PeriodicMark(p).at = p.at
           /\ Recent(PeriodicMark(p), StaleAfter)
BY SnapshotFields, DeliveryAssumption DEF DeliveryTypeOK, Recent, PeriodicMark

-----------------------------------------------------------------------------
(* The write loop. *)

(* A message that starts finds the reassembler without its halves. *)
LEMMA Started ==
    ASSUME DeliveryTypeOK, NEW p, StartMessage(p)
    PROVE  /\ activePayload' = p /\ frame' = 1
           /\ disturbed' \in BOOLEAN /\ ~ disturbed'
           /\ partial' \in Partial /\ partial'.of # "this"
BY DEF DeliveryTypeOK, StartMessage, Partial

LEMMA GateReset ==
    ASSUME NEW g \in Gate
    PROVE  ConnectionReset(g) \in Gate /\ ~ ConnectionReset(g).sure
<1>1. [g EXCEPT !.age = 2] \in Gate
    BY DEF Gate
<1>2. ConnectionReset(g) \in Gate
    BY <1>1 DEF Gate, ConnectionReset
<1>3. ~ ConnectionReset(g).sure
    BY DEF Gate, ConnectionReset
<1> QED BY <1>2, <1>3

LEMMA DisconnectKeeps ==
    ASSUME DeliveryTypeOK, Disconnect
    PROVE  /\ linked' \in BOOLEAN /\ ~ linked' /\ answer' = "none" /\ frame' = 0
           /\ activePayload' = Nothing /\ activePayload' \in Snapshot
           /\ deliveryGate' \in Gate /\ ~ deliveryGate'.sure
           /\ partial' \in Partial /\ partial'.of # "this"
           /\ disturbed' \in BOOLEAN /\ ~ disturbed'
<1>1. deliveryGate' \in Gate /\ ~ deliveryGate'.sure
    BY GateReset DEF DeliveryTypeOK, Disconnect
<1>2. partial' \in Partial /\ partial'.of # "this"
    BY DEF Disconnect, Partial, Blank
<1> QED BY <1>1, <1>2, SnapshotFields DEF Disconnect

(* Offering a payload starts a message or changes nothing. *)
Offered(p) ==
    \/ UNCHANGED <<clientVars, partial, disturbed>>
    \/ /\ linked /\ activePayload = Nothing /\ p # Nothing
       /\ StartMessage(p)
       /\ UNCHANGED <<linked, deliveryGate, answer>>

LEMMA OfferIsOffered ==
    ASSUME LoopInv, NEW p, Offer(p)
    PROVE  Offered(p)
BY DEF LoopInv, Offer, AttemptDelivery, Offered, clientVars

LEMMA PublishIsOffered ==
    ASSUME LoopInv, NEW p, Publish(p)
    PROVE  current' = p /\ Offered(p)
BY OfferIsOffered DEF Publish, Offered

(* The controller has a new snapshot, checked now, and offers it. *)
LEMMA Published ==
    ASSUME DeliveryInv, NEW p \in Snapshot, current' = p, Offered(p),
           Recent(p, StaleAfter), p.at =< newest',
           newest' \in newest .. now, cache' \in Time, cache' =< newest',
           due' \in BOOLEAN, marking' \in BOOLEAN, marking' => marking,
           UNCHANGED <<now, mac, deviceVars>>
    PROVE  DeliveryInv'
<1> USE DEF DeliveryInv
<1>0. /\ now \in Int /\ newest \in Int /\ newest' \in Int
      /\ device.at \in Int /\ nvs \in Int /\ activePayload.at \in Int
      /\ p.at \in Int /\ age \in Int /\ StaleAfter \in Nat
    BY SnapshotFields, DeliveryAssumption DEF DeliveryTypeOK, Time
<1>a. CASE UNCHANGED <<clientVars, partial, disturbed>>
    <2> USE <1>a DEF clientVars, deviceVars
    <2>1. DeliveryTypeOK'
        BY <1>0 DEF DeliveryTypeOK
    <2>2. LoopInv'
        BY DEF LoopInv
    <2>3. KnownInv'
        BY <1>0 DEF KnownInv
    <2>4. FreshInv'
        BY <1>0 DEF FreshInv, Recent, LoopInv, DeliveryTypeOK
    <2>5. HeldInv'
        BY DEF HeldInv
    <2> QED BY <2>1, <2>2, <2>3, <2>4, <2>5
<1>b. CASE /\ linked /\ activePayload = Nothing /\ p # Nothing
           /\ StartMessage(p)
           /\ UNCHANGED <<linked, deliveryGate, answer>>
    <2> USE <1>b DEF deviceVars
    <2>0. /\ activePayload' = p /\ frame' = 1
          /\ disturbed' \in BOOLEAN /\ ~ disturbed'
          /\ partial' \in Partial /\ partial'.of # "this"
        BY Started
    <2>1. DeliveryTypeOK'
        <3>1. newest' \in -1 .. now
            BY <1>0 DEF DeliveryTypeOK
        <3>2. frame' \in 0 .. 2
            BY <2>0
        <3> QED BY <2>0, <3>1, <3>2 DEF DeliveryTypeOK
    <2>2. LoopInv'
        BY <2>0 DEF LoopInv, DeliveryTypeOK
    <2>3. KnownInv'
        BY <1>0, <2>0 DEF KnownInv
    <2>4. FreshInv'
        BY <1>0, <2>0 DEF FreshInv, Recent, LoopInv, DeliveryTypeOK
    <2>5. HeldInv'
        BY <2>0 DEF HeldInv, LoopInv
    <2> QED BY <2>1, <2>2, <2>3, <2>4, <2>5
<1> QED BY <1>a, <1>b DEF Offered

(* The link ends; the Mac may quit or wake up, the device may restart.      *)
LEMMA Cut ==
    ASSUME DeliveryInv, Disconnect, UNCHANGED <<now, newest, cache, nvs>>,
           mac' \in {"off", "awake", "asleep"},
           due' \in BOOLEAN, marking' \in BOOLEAN,
           current' \in {current, Nothing},
           mac' = "awake" /\ ~ marking'
               => mac = "awake" /\ ~ marking /\ UNCHANGED <<due, current>>,
           device' \in Snapshot, device'.at =< newest,
           age' \in 0 .. StaleAfter,
           ~ device'.stale => UNCHANGED <<device, age>>
    PROVE  DeliveryInv'
<1> USE DEF DeliveryInv
<1>0. /\ now \in Int /\ newest \in Int /\ -1 =< newest
      /\ Nothing.at = -1 /\ Nothing.stale /\ Nothing \in Snapshot
    BY SnapshotFields, DeliveryAssumption DEF DeliveryTypeOK
<1>1. /\ linked' \in BOOLEAN /\ ~ linked' /\ answer' = "none" /\ frame' = 0
      /\ activePayload' = Nothing /\ activePayload' \in Snapshot
      /\ deliveryGate' \in Gate /\ ~ deliveryGate'.sure
      /\ partial' \in Partial /\ partial'.of # "this"
      /\ disturbed' \in BOOLEAN /\ ~ disturbed'
    BY DisconnectKeeps
<1>2. DeliveryTypeOK'
    BY <1>0, <1>1 DEF DeliveryTypeOK
<1>3. LoopInv'
    BY <1>1 DEF LoopInv
<1>4. KnownInv'
    BY <1>0, <1>1 DEF KnownInv
<1>5. FreshInv'
    BY <1>0, <1>1 DEF FreshInv, Recent
<1>6. HeldInv'
    BY <1>1 DEF HeldInv
<1> QED BY <1>2, <1>3, <1>4, <1>5, <1>6

LEMMA ConnectKeeps == DeliveryInv /\ Connect => DeliveryInv'
<1> SUFFICES ASSUME DeliveryInv, Connect PROVE DeliveryInv'
    OBVIOUS
<1> USE DEF DeliveryInv, Connect, macVars, deviceVars
<1>0. /\ deliveryGate' \in Gate /\ ~ deliveryGate'.sure
      /\ frame = 0 /\ activePayload = Nothing /\ answer = "none"
    BY GateReset DEF DeliveryTypeOK, LoopInv
<1>a. CASE current # Nothing /\ StartMessage(current)
    <2>0. /\ activePayload' = current /\ frame' = 1
          /\ disturbed' \in BOOLEAN /\ ~ disturbed'
          /\ partial' \in Partial /\ partial'.of # "this"
        BY <1>a, Started
    <2>1. DeliveryTypeOK'
        BY <1>0, <2>0 DEF DeliveryTypeOK
    <2>2. LoopInv'
        BY <1>0, <1>a, <2>0 DEF LoopInv, DeliveryTypeOK
    <2>3. KnownInv'
        BY <2>0 DEF KnownInv
    <2>4. FreshInv'
        BY <2>0 DEF FreshInv, Recent, DeliveryTypeOK
    <2>5. HeldInv'
        BY <1>0, <2>0 DEF HeldInv
    <2> QED BY <2>1, <2>2, <2>3, <2>4, <2>5
<1>b. CASE /\ current = Nothing
           /\ UNCHANGED <<activePayload, frame, partial, disturbed>>
    <2>1. DeliveryTypeOK'
        BY <1>0, <1>b DEF DeliveryTypeOK
    <2>2. LoopInv'
        BY <1>0, <1>b DEF LoopInv, DeliveryTypeOK
    <2>3. KnownInv'
        BY <1>b DEF KnownInv
    <2>4. FreshInv'
        BY <1>b DEF FreshInv, Recent, DeliveryTypeOK
    <2>5. HeldInv'
        BY <1>0, <1>b DEF HeldInv
    <2> QED BY <2>1, <2>2, <2>3, <2>4, <2>5
<1> QED BY <1>a, <1>b

(* The gate takes what the device acknowledged. *)
LEMMA AcknowledgedKeeps ==
    ASSUME DeliveryInv, Acknowledged, UNCHANGED <<now, newest, macVars, deviceVars>>
    PROVE  DeliveryInv'
<1> USE DEF DeliveryInv, macVars, deviceVars
<1>0. answer = "ok" /\ answer' = "none" /\ linked' = linked /\ frame # 0 /\ linked
    BY DEF Acknowledged, LoopInv
<1>a. CASE frame = 1 /\ frame' = 2
           /\ UNCHANGED <<activePayload, deliveryGate, partial, disturbed>>
    <2>1. DeliveryTypeOK'
        BY <1>0, <1>a DEF DeliveryTypeOK
    <2>2. LoopInv'
        BY <1>0, <1>a DEF LoopInv
    <2>3. KnownInv'
        BY <1>a DEF KnownInv
    <2>4. FreshInv'
        BY <1>0, <1>a DEF FreshInv, Recent
    <2>5. HeldInv'
        BY <1>0, <1>a DEF HeldInv
    <2> QED BY <2>1, <2>2, <2>3, <2>4, <2>5
<1>b. CASE /\ frame = 2
           /\ deliveryGate' =
                [payload |-> activePayload, age |-> 0, sure |-> ~ disturbed]
           /\ AttemptDelivery(current, deliveryGate')
    <2>1. deliveryGate' \in Gate
        BY <1>b DEF Gate, DeliveryTypeOK
    <2>2. deliveryGate'.sure => device.at >= deliveryGate'.payload.at
        BY <1>0, <1>b DEF HeldInv
    <2>a. CASE current # Nothing /\ StartMessage(current)
        <3>0. /\ activePayload' = current /\ frame' = 1
              /\ disturbed' \in BOOLEAN /\ ~ disturbed'
              /\ partial' \in Partial /\ partial'.of # "this"
            BY <2>a, Started
        <3>1. DeliveryTypeOK'
            BY <1>0, <2>1, <3>0 DEF DeliveryTypeOK
        <3>2. LoopInv'
            BY <1>0, <2>a, <3>0 DEF LoopInv, DeliveryTypeOK
        <3>3. KnownInv'
            BY <3>0 DEF KnownInv
        <3>4. FreshInv'
            BY <1>0, <3>0 DEF FreshInv, Recent, DeliveryTypeOK
        <3>5. HeldInv'
            BY <1>0, <2>2, <3>0 DEF HeldInv
        <3> QED BY <3>1, <3>2, <3>3, <3>4, <3>5
    <2>b. CASE /\ activePayload' = Nothing /\ frame' = 0
               /\ UNCHANGED <<partial, disturbed>>
        <3>1. DeliveryTypeOK'
            BY <1>0, <2>1, <2>b, SnapshotFields DEF DeliveryTypeOK
        <3>2. LoopInv'
            BY <1>0, <2>b DEF LoopInv, DeliveryTypeOK
        <3>3. KnownInv'
            BY <2>b, SnapshotFields DEF KnownInv, DeliveryTypeOK
        <3>4. FreshInv'
            BY <1>0, <2>b, SnapshotFields DEF FreshInv, Recent, DeliveryTypeOK
        <3>5. HeldInv'
            BY <1>0, <2>2, <2>b DEF HeldInv
        <3> QED BY <3>1, <3>2, <3>3, <3>4, <3>5
    <2> QED BY <1>b, <2>a, <2>b DEF AttemptDelivery
<1> QED BY <1>a, <1>b DEF Acknowledged

-----------------------------------------------------------------------------
(* The controller. *)

LEMMA ObserveKeeps ==
    ASSUME DeliveryInv, NEW t \in Answered, Observe(t) PROVE DeliveryInv'
<1> USE DEF Observe
<1>0. /\ now \in Int /\ newest \in Int /\ t \in Time /\ t \in Int
      /\ newest =< now /\ StaleAfter >= 1
    BY DeliveryAssumption DEF DeliveryInv, DeliveryTypeOK, Time
<1>1. newest' \in newest .. now /\ t =< newest'
    BY <1>0
<1> DEFINE observed == [at |-> t, stale |-> FALSE]
<1>2. /\ observed \in Snapshot /\ observed.at = t
      /\ Recent(observed, StaleAfter)
    <2>1. observed \in Snapshot /\ observed.at = t
        BY <1>0 DEF Snapshot
    <2>2. now - t =< StaleAfter
        BY <1>0, DeliveryAssumption
    <2> QED BY <2>1, <2>2 DEF Recent
<1>3. cache \in Time /\ cache =< newest'
    BY <1>0, <1>1 DEF DeliveryInv, DeliveryTypeOK, KnownInv, Time
<1>4. PICK p \in Snapshot : /\ Publish(p) /\ Recent(p, StaleAfter)
                            /\ p.at =< newest'
                            /\ cache' \in {cache, t}
    <2>a. CASE observed.at >= current.at /\ Publish(observed)
               /\ cache' \in {cache, observed.at}
        BY <1>1, <1>2, <2>a
    <2>b. CASE (\E p \in MarkingStale(current) : Publish(p)) /\ cache' = cache
        <3>1. PICK p \in MarkingStale(current) : Publish(p)
            BY <2>b
        <3>2. p \in Snapshot /\ p.at = current.at /\ Recent(p, StaleAfter)
            BY MarkedIsRecent DEF DeliveryInv, DeliveryTypeOK
        <3>3. p.at =< newest'
            BY <1>0, <1>1, <3>2, SnapshotFields DEF DeliveryInv, DeliveryTypeOK, KnownInv
        <3> QED BY <2>b, <3>1, <3>2, <3>3
    <2> QED BY <2>a, <2>b DEF Accept
<1>5. current' = p /\ Offered(p)
    BY <1>4, PublishIsOffered DEF DeliveryInv
<1>6. cache' \in Time /\ cache' =< newest'
    BY <1>0, <1>1, <1>3, <1>4
<1> HIDE DEF Observe, observed
<1>7. /\ due' \in BOOLEAN /\ marking' \in BOOLEAN /\ (marking' => marking)
      /\ UNCHANGED <<now, mac, deviceVars>>
    BY DEF Observe, DeliveryInv, DeliveryTypeOK
<1> QED BY <1>1, <1>4, <1>5, <1>6, <1>7, Published

LEMMA PeriodicKeeps == ASSUME DeliveryInv, Periodic PROVE DeliveryInv'
<1> DEFINE p == PeriodicMark(current)
<1>1. p \in Snapshot /\ p.at = current.at /\ Recent(p, StaleAfter)
    BY PeriodicIsRecent DEF DeliveryInv, DeliveryTypeOK
<1>2. current' = p /\ Offered(p)
    BY OfferIsOffered DEF DeliveryInv, Periodic
<1> HIDE DEF p
<1>3. /\ p.at =< newest' /\ newest' \in newest .. now
      /\ cache' \in Time /\ cache' =< newest'
    BY <1>1, DeliveryAssumption DEF Periodic, DeliveryInv, DeliveryTypeOK, KnownInv
<1>4. /\ due' \in BOOLEAN /\ marking' \in BOOLEAN /\ (marking' => marking)
      /\ UNCHANGED <<now, mac, deviceVars>>
    BY DEF Periodic, DeliveryInv, DeliveryTypeOK
<1> QED BY <1>1, <1>2, <1>3, <1>4, Published

LEMMA MarkKeeps == ASSUME DeliveryInv, MarkAfterWake PROVE DeliveryInv'
<1>1. PICK p \in MarkingStale(current) : Publish(p)
    BY DEF MarkAfterWake
<1>2. p \in Snapshot /\ p.at = current.at /\ Recent(p, StaleAfter)
    BY MarkedIsRecent DEF DeliveryInv, DeliveryTypeOK
<1>3. current' = p /\ Offered(p)
    BY <1>1, PublishIsOffered DEF DeliveryInv
<1>4. /\ p.at =< newest' /\ newest' \in newest .. now
      /\ cache' \in Time /\ cache' =< newest'
    BY <1>2, DeliveryAssumption DEF MarkAfterWake, DeliveryInv, DeliveryTypeOK, KnownInv
<1>5. /\ due' \in BOOLEAN /\ marking' \in BOOLEAN /\ (marking' => marking)
      /\ UNCHANGED <<now, mac, deviceVars>>
    BY DEF MarkAfterWake, DeliveryInv, DeliveryTypeOK
<1> QED BY <1>2, <1>3, <1>4, <1>5, Published

LEMMA SleepKeeps == ASSUME DeliveryInv, Sleep PROVE DeliveryInv'
<1> USE DEF DeliveryInv, Sleep, clientVars, deviceVars
<1>1. DeliveryTypeOK'
    BY DEF DeliveryTypeOK
<1>2. LoopInv'
    BY DEF LoopInv
<1>3. KnownInv'
    BY DEF KnownInv
<1>4. FreshInv'
    BY DEF FreshInv, Recent
<1>5. HeldInv'
    BY DEF HeldInv
<1> QED BY <1>1, <1>2, <1>3, <1>4, <1>5

LEMMA LaunchKeeps == ASSUME DeliveryInv, Launch PROVE DeliveryInv'
<1> USE DEF DeliveryInv, Launch, deviceVars
<1>0. ~ linked /\ frame = 0
    BY DEF LoopInv
<1>1. /\ current' \in Snapshot /\ current'.at = cache /\ current'.stale
      /\ deliveryGate' \in Gate /\ ~ deliveryGate'.sure
    BY SnapshotFields DEF DeliveryTypeOK, Restored, Snapshot, Gate
<1>2. DeliveryTypeOK'
    BY <1>1 DEF DeliveryTypeOK
<1>3. LoopInv'
    BY <1>0 DEF LoopInv
<1>4. KnownInv'
    BY <1>1 DEF KnownInv
<1>5. FreshInv'
    BY <1>1 DEF FreshInv, Recent
<1>6. HeldInv'
    BY <1>0, <1>1 DEF HeldInv
<1> QED BY <1>2, <1>3, <1>4, <1>5, <1>6

-----------------------------------------------------------------------------
(* The device. *)

(* What a message does to the device: nothing, or it stores a payload that  *)
(* is not older than its own.                                               *)
LEMMA FrameKeeps == ASSUME DeliveryInv, FrameArrives PROVE DeliveryInv'
<1> USE DEF DeliveryInv, FrameArrives, macVars, Respond
<1>0. /\ frame \in {1, 2} /\ answer = "none"
      /\ now \in Int /\ newest \in Int /\ activePayload.at \in Int
      /\ device.at \in Int /\ StaleAfter \in Nat
    BY SnapshotFields, DeliveryAssumption DEF DeliveryTypeOK
<1>1. /\ LoopInv'
      /\ UNCHANGED <<now, newest, mac, current, cache, due, marking, linked, deliveryGate,
                     activePayload, frame, disturbed>>
    BY DEF LoopInv
<1>a. CASE partial.of = "other" /\ answer' = "error" /\ partial' = Blank
           /\ UNCHANGED deviceVars
    <2> USE <1>a DEF deviceVars
    <2>1. DeliveryTypeOK'
        BY DEF DeliveryTypeOK, Partial, Blank
    <2>2. KnownInv' /\ FreshInv'
        BY DEF KnownInv, FreshInv, Recent
    <2>3. HeldInv'
        BY <1>0 DEF HeldInv
    <2> QED BY <1>1, <2>1, <2>2, <2>3
<1>b. CASE /\ Halves # {1, 2} /\ answer' = "ok"
           /\ partial' = [of |-> "this", halves |-> Halves]
           /\ UNCHANGED deviceVars
    <2> USE <1>b DEF deviceVars
    <2>0. Halves \in {{}, {1}, {2}}
        BY <1>0 DEF Halves, DeliveryTypeOK, Partial
    <2>1. DeliveryTypeOK'
        BY <2>0 DEF DeliveryTypeOK, Partial
    <2>2. KnownInv' /\ FreshInv'
        BY DEF KnownInv, FreshInv, Recent
    <2>3. frame = 1 => Halves = {1}
        BY <1>0 DEF HeldInv, Halves
    <2>4. frame = 2 /\ ~ disturbed => Halves = {1, 2}
        BY <1>0 DEF HeldInv, Halves
    <2>5. HeldInv'
        BY <1>0, <1>1, <2>3, <2>4 DEF HeldInv
    <2> QED BY <1>1, <2>1, <2>2, <2>5
<1>c. CASE answer' = "error" /\ partial' = Blank /\ UNCHANGED deviceVars
    <2> USE <1>c DEF deviceVars
    <2>1. DeliveryTypeOK'
        BY DEF DeliveryTypeOK, Partial, Blank
    <2>2. KnownInv' /\ FreshInv'
        BY DEF KnownInv, FreshInv, Recent
    <2>3. HeldInv'
        BY <1>0 DEF HeldInv
    <2> QED BY <1>1, <2>1, <2>2, <2>3
<1>d. CASE /\ Halves = {1, 2} /\ ~ IsRollback(activePayload)
           /\ answer' = "ok" /\ partial' = Blank
           /\ StoreAndShow(activePayload)
    <2> USE <1>d DEF StoreAndShow
    <2>1. DeliveryTypeOK'
        BY SnapshotFields, DeliveryAssumption DEF DeliveryTypeOK, Partial, Blank
    <2>2. KnownInv'
        BY DEF KnownInv
    <2>3. FreshInv'
        BY <1>0 DEF FreshInv, Recent
    <2>4. frame = 2
        BY <1>0 DEF Halves, HeldInv
    <2>5. activePayload.at >= device.at
        BY <1>0 DEF IsRollback
    <2>6. HeldInv'
        <3>1. deliveryGate.sure => device'.at >= deliveryGate.payload.at
            BY <1>0, <2>5, SnapshotFields DEF HeldInv, DeliveryTypeOK, Gate
        <3> QED BY <1>0, <1>1, <2>4, <3>1 DEF HeldInv
    <2> QED BY <1>1, <2>1, <2>2, <2>3, <2>6
<1> QED BY <1>a, <1>b, <1>c, <1>d

LEMMA OtherKeeps == ASSUME DeliveryInv, Other PROVE DeliveryInv'
<1> USE DEF DeliveryInv, macVars, clientVars
<1>0. /\ disturbed' \in BOOLEAN /\ (activePayload # Nothing => disturbed')
      /\ partial' \in Partial /\ partial'.of # "this"
      /\ UNCHANGED <<now, macVars, clientVars>>
    <2>1. partial' \in Partial /\ partial'.of # "this"
        BY DEF Other, OtherInterferes, OtherDelivers, Partial, Blank
    <2>2. disturbed' = (activePayload # Nothing)
        BY DEF Other, OtherInterferes, OtherDelivers
    <2>3. disturbed' \in BOOLEAN /\ (activePayload # Nothing => disturbed')
        BY <2>2
    <2> QED
        BY <2>1, <2>3 DEF Other, OtherInterferes, OtherDelivers
<1>1. LoopInv'
    BY <1>0 DEF LoopInv
<1>2. /\ frame = 0 \/ disturbed'
      /\ frame' = frame /\ activePayload' = activePayload
    BY <1>0 DEF LoopInv
<1>a. CASE OtherInterferes
    <2> USE <1>a DEF OtherInterferes, deviceVars
    <2>1. DeliveryTypeOK'
        BY <1>0 DEF DeliveryTypeOK
    <2>2. KnownInv' /\ FreshInv'
        BY DEF KnownInv, FreshInv, Recent
    <2>3. HeldInv'
        BY <1>0, <1>2 DEF HeldInv
    <2> QED BY <1>1, <2>1, <2>2, <2>3
<1>b. CASE OtherDelivers
    <2> USE <1>b DEF OtherDelivers, StoreAndShow
    <2>0. /\ now \in Int /\ newest \in Int /\ newest =< now
          /\ current.at \in Int /\ cache \in Int /\ activePayload.at \in Int
          /\ nvs \in Int /\ device.at \in Int /\ deliveryGate.payload.at \in Int
          /\ now \in Time /\ StaleAfter \in Nat
        BY SnapshotFields, DeliveryAssumption DEF DeliveryTypeOK, Time, Gate
    <2>1. /\ device' \in Snapshot /\ device'.at = now
          /\ nvs' \in {nvs, now} /\ age' = 0 /\ newest' = now
        BY <2>0 DEF Snapshot
    <2>2. DeliveryTypeOK'
        BY <1>0, <2>0, <2>1, DeliveryAssumption DEF DeliveryTypeOK
    <2>3. KnownInv'
        BY <1>0, <2>0, <2>1 DEF KnownInv
    <2>4. FreshInv'
        BY <1>0, <2>0, <2>1 DEF FreshInv, Recent
    <2>5. device'.at >= device.at
        BY <2>0, <2>1 DEF KnownInv
    <2>6. HeldInv'
        BY <1>0, <1>2, <2>0, <2>1, <2>5 DEF HeldInv
    <2> QED BY <1>1, <2>2, <2>3, <2>4, <2>6
<1> QED BY <1>a, <1>b DEF Other

LEMMA PollStaleKeeps == ASSUME DeliveryInv, PollStale PROVE DeliveryInv'
<1> USE DEF DeliveryInv, PollStale, macVars, clientVars
<1>0. device' \in Snapshot /\ device'.at = device.at /\ device'.stale
    BY SnapshotFields DEF DeliveryTypeOK
<1>1. DeliveryTypeOK'
    BY <1>0 DEF DeliveryTypeOK
<1>2. LoopInv'
    BY DEF LoopInv
<1>3. KnownInv'
    BY <1>0 DEF KnownInv
<1>4. FreshInv'
    BY <1>0 DEF FreshInv, Recent
<1>5. HeldInv'
    BY <1>0 DEF HeldInv
<1> QED BY <1>1, <1>2, <1>3, <1>4, <1>5

(* Five minutes pass: no payload is being written, the controller's timer   *)
(* has run or the link is down, and a live value on the device ages.        *)
LEMMA TickKeeps == ASSUME DeliveryInv, Tick PROVE DeliveryInv'
<1> USE DEF DeliveryInv, Tick
<1>0. /\ now \in Int /\ newest \in Int /\ MaxTime \in Nat
      /\ StaleAfter \in Nat /\ age \in Int /\ age =< StaleAfter
      /\ current.at \in Int /\ device.at \in Int
    BY SnapshotFields, DeliveryAssumption DEF DeliveryTypeOK
<1>1. now' \in {now, now + 1} /\ now' \in 0 .. MaxTime /\ newest =< now'
    BY <1>0, DeliveryAssumption DEF DeliveryTypeOK
<1>2. frame = 0 /\ activePayload = Nothing /\ (mac # "awake" => ~ linked)
    BY DEF LoopInv, DeliveryTypeOK
<1>3. /\ deliveryGate' \in Gate /\ deliveryGate'.sure = deliveryGate.sure
      /\ deliveryGate'.payload = deliveryGate.payload
    BY DEF DeliveryTypeOK, Gate
<1>4. DeliveryTypeOK'
    <2>1. age' \in 0 .. StaleAfter
        BY <1>0 DEF DeliveryTypeOK
    <2>2. newest' \in -1 .. now' /\ due' \in BOOLEAN
        BY <1>0, <1>1 DEF DeliveryTypeOK
    <2> QED BY <1>1, <1>3, <2>1, <2>2 DEF DeliveryTypeOK
<1>5. LoopInv'
    BY DEF LoopInv
<1>6. KnownInv'
    BY DEF KnownInv
<1>7. FreshInv'
    <2>1. Recent(activePayload, StaleAfter + 1)'
        BY <1>2, SnapshotFields DEF Recent
    <2>2. ~ device.stale => age' = age + 1
        BY <1>0 DEF Expiring, DeliveryTypeOK
    <2>3. Recent(device, StaleAfter + 1 + age)'
        BY <1>0, <1>1, <2>2 DEF FreshInv, Recent
    <2>4. mac = "awake" => due' /\ Recent(current, StaleAfter + 1)'
        <3>1. mac = "awake" => ~ due /\ ~ marking /\ due'
            OBVIOUS
        <3>2. mac = "awake" => Recent(current, StaleAfter)
            BY <3>1 DEF FreshInv
        <3> QED BY <1>0, <1>1, <3>1, <3>2 DEF Recent
    <2> QED BY <1>2, <2>1, <2>3, <2>4 DEF FreshInv
<1>8. HeldInv'
    BY <1>2, <1>3 DEF HeldInv
<1> QED BY <1>4, <1>5, <1>6, <1>7, <1>8

-----------------------------------------------------------------------------

LEMMA InvStep == DeliveryInv /\ [DeliveryNext]_deliveryVars => DeliveryInv'
<1> SUFFICES ASSUME DeliveryInv, [DeliveryNext]_deliveryVars PROVE DeliveryInv'
    OBVIOUS
<1>0. /\ Nothing \in Snapshot /\ Nothing.stale
      /\ device \in Snapshot /\ device.at =< newest /\ age \in 0 .. StaleAfter
      /\ mac \in {"off", "awake", "asleep"}
      /\ due \in BOOLEAN /\ marking \in BOOLEAN
    BY SnapshotFields DEF DeliveryInv, DeliveryTypeOK, KnownInv
<1>1. CASE DidWriteValue
    <2>1. CASE Acknowledged
        BY <1>1, <2>1, AcknowledgedKeeps DEF DidWriteValue
    <2>2. CASE Disconnect
        BY <1>0, <1>1, <2>2, Cut DEF DidWriteValue, macVars, deviceVars
    <2> QED BY <1>1, <2>1, <2>2 DEF DidWriteValue
<1>2. CASE Connect
    BY <1>2, ConnectKeeps
<1>3. CASE LinkDrops
    BY <1>0, <1>3, Cut DEF LinkDrops, macVars, deviceVars
<1>4. ASSUME NEW t \in Answered, Observe(t) PROVE DeliveryInv'
    BY <1>4, ObserveKeeps
<1>5. CASE Periodic
    BY <1>5, PeriodicKeeps
<1>6. CASE Sleep
    BY <1>6, SleepKeeps
<1>7. CASE Wake
    BY <1>0, <1>7, Cut DEF Wake, deviceVars
<1>8. CASE MarkAfterWake
    BY <1>8, MarkKeeps
<1>9. CASE Quit
    BY <1>0, <1>9, Cut DEF Quit, deviceVars
<1>10. CASE Launch
    BY <1>10, LaunchKeeps
<1>11. CASE FrameArrives
    BY <1>11, FrameKeeps
<1>12. CASE Other
    BY <1>12, OtherKeeps
<1>13. CASE PollStale
    BY <1>13, PollStaleKeeps
<1>14. CASE Reboot
    <2>1. device' \in Snapshot /\ device'.at =< newest /\ device'.stale
        <3>1. CASE device' = Restored(nvs)
            BY <3>1 DEF Restored, Snapshot, DeliveryInv, DeliveryTypeOK, KnownInv
        <3>2. CASE device' = Nothing
            BY <3>2, SnapshotFields, DeliveryAssumption DEF DeliveryInv, DeliveryTypeOK
        <3> QED BY <1>14, <3>1, <3>2 DEF Reboot
    <2>2. age' \in 0 .. StaleAfter
        BY <1>14, DeliveryAssumption DEF Reboot
    <2> QED BY <1>0, <1>14, <2>1, <2>2, Cut DEF Reboot, macVars
<1>15. CASE Tick
    BY <1>15, TickKeeps
<1>16. CASE UNCHANGED deliveryVars
    BY <1>16 DEF deliveryVars, macVars, clientVars, deviceVars, DeliveryInv, DeliveryTypeOK, LoopInv,
       KnownInv, FreshInv, Recent, HeldInv
<1> QED
    BY <1>1, <1>2, <1>3, <1>4, <1>5, <1>6, <1>7, <1>8, <1>9, <1>10, <1>11,
       <1>12, <1>13, <1>14, <1>15, <1>16 DEF DeliveryNext

LEMMA Invariant == DeliverySpec => []DeliveryInv
BY InvInit, InvStep, PTL DEF DeliverySpec

(* Every variable of the path keeps its type, for every staleness window,   *)
(* heartbeat and bound of the clock: values on their way never get mixed    *)
(* with parts of a message (process_frame, shouldDeliver).                  *)
THEOREM DeliveryTypeCorrect == DeliverySpec => []DeliveryTypeOK
<1>1. DeliveryInv => DeliveryTypeOK
    BY DEF DeliveryInv
<1> QED BY <1>1, Invariant, PTL

(* A live value on the device was observed at most two staleness windows   *)
(* and one period ago, whatever was restarted, suspended or delayed.       *)
THEOREM LiveValuesAreRecent == DeliverySpec => []LiveIsRecent
<1>1. DeliveryInv => LiveIsRecent
    BY SnapshotFields, DeliveryAssumption
       DEF DeliveryInv, DeliveryTypeOK, FreshInv, Recent, LiveIsRecent
<1> QED BY <1>1, Invariant, PTL

(* What the Mac counts as delivered on this connection the device holds, or *)
(* something newer, unless another central interfered with the message      *)
(* (didWriteValueFor, process_frame).                                       *)
THEOREM AcknowledgedIsHeld == DeliverySpec => []AckIsHeld
<1>1. DeliveryInv => AckIsHeld
    BY DEF DeliveryInv, HeldInv, AckIsHeld
<1> QED BY <1>1, Invariant, PTL

-----------------------------------------------------------------------------
(* The refinement. *)

LEMMA RegisterStep ==
    DeliveryInv /\ DeliveryInv' /\ [DeliveryNext]_deliveryVars
        => [Register!Next]_<<now, newest, device>>
<1> SUFFICES ASSUME DeliveryInv, DeliveryInv', [DeliveryNext]_deliveryVars
             PROVE  Register!Next \/ UNCHANGED <<now, newest, device>>
    OBVIOUS
<1>0. /\ now \in Int /\ newest \in Int /\ newest =< now
      /\ device.at \in Int /\ device.at =< newest
      /\ device'.at \in Int /\ device'.at =< newest'
      /\ activePayload.at \in Int /\ activePayload.at =< newest
      /\ Recent(activePayload, StaleAfter + 1) /\ StaleAfter \in Nat
    BY SnapshotFields, DeliveryAssumption
       DEF DeliveryInv, DeliveryTypeOK, KnownInv, FreshInv
<1>1. ASSUME NEW t \in Answered, Observe(t)
      PROVE Register!Observe \/ UNCHANGED <<now, newest, device>>
    BY <1>0, <1>1, DeliveryAssumption DEF Observe, deviceVars, Register!Observe
<1>2. CASE FrameArrives
    <2>1. CASE UNCHANGED deviceVars
        BY <1>2, <2>1 DEF FrameArrives, deviceVars
    <2>2. CASE ~ IsRollback(activePayload) /\ StoreAndShow(activePayload)
        <3>1. device'.at \in device.at .. newest'
            BY <1>0, <1>2, <2>2 DEF FrameArrives, StoreAndShow, IsRollback
        <3>2. Register!Deliver
            BY <1>0, <1>2, <2>2, <3>1
               DEF Register!Deliver, FrameArrives, StoreAndShow, Recent
        <3> QED BY <3>2 DEF Register!Next
    <2> QED BY <1>2, <2>1, <2>2 DEF FrameArrives
<1>3. CASE OtherDelivers
    <2>1. device' = [at |-> now, stale |-> FALSE] /\ newest' = now /\ now' = now
        BY <1>3 DEF OtherDelivers, StoreAndShow
    <2>2. Register!Deliver
        BY <1>0, <2>1 DEF Register!Deliver
    <2> QED BY <2>2 DEF Register!Next
<1>4. CASE PollStale
    BY <1>4 DEF PollStale, AsStale, Register!Next, Register!Expire
<1>5. CASE Reboot
    <2>1. device'.at =< newest /\ device'.stale
        BY <1>0, <1>5, SnapshotFields DEF Reboot, Restored
    <2> QED BY <1>5, <2>1 DEF Reboot, Register!Next, Register!Restart
<1>6. CASE Tick
    BY <1>6 DEF Tick, Register!Next, Register!Pass
<1>7. CASE DidWriteValue \/ Connect \/ LinkDrops \/ Periodic \/ Sleep \/ Wake
           \/ MarkAfterWake \/ Quit \/ Launch \/ OtherInterferes
           \/ UNCHANGED deliveryVars
    BY <1>7 DEF DidWriteValue, Connect, LinkDrops, Periodic, Sleep, Wake,
       MarkAfterWake, Quit, Launch, OtherInterferes, deliveryVars, deviceVars
<1> QED
    BY <1>1, <1>2, <1>3, <1>4, <1>5, <1>6, <1>7
       DEF DeliveryNext, Other, Register!Next

(* Controller, cache, client and device together implement the register:    *)
(* the value shown never runs ahead of what was observed, and goes back     *)
(* only in a restart (accept, restoredFromCache, process_frame).            *)
THEOREM PathImplementsRegister == DeliverySpec => ImplementsRegister
<1>1. DeliveryInit => Register!Init
    BY DEF DeliveryInit, Nothing, Register!Init, Register!Nothing
<1> QED
    BY <1>1, Invariant, RegisterStep, PTL
       DEF DeliverySpec, ImplementsRegister, Register!Spec
=============================================================================
