----------------------------- MODULE UsageClient -----------------------------
(***************************************************************************)
(* The Mac's Bluetooth client for the Usage service                        *)
(* (MicroStickUsageBluetooth: UsageBluetoothClient,                        *)
(* UsageBluetoothStateMachine, UsageDeliveryGate).                         *)
(*                                                                         *)
(* Everything runs on one serial queue, so a handler is one step; what is  *)
(* not fixed is the order in which updates, timers and the callbacks of    *)
(* CoreBluetooth reach the queue.  "calls" holds the requests CoreBluetooth *)
(* still owes an answer; cancelling a connection makes them stale, and a   *)
(* stale one may still be answered, with success or error, or get lost.    *)
(* Two things are taken from CoreBluetooth: a stale answer is on the queue *)
(* before the shortest retry delay (one second) has passed and before the  *)
(* radio is reported on again; a disconnect may come at any later time.    *)
(* The retry attempt only chooses the delay and is left out.               *)
(* Operators named X_Defect are defective variants of X that no action     *)
(* uses: each breaks one of the properties.                                *)
(***************************************************************************)
EXTENDS Integers

CONSTANTS Payload,   \* encoded snapshots the controller hands over
          None       \* no payload

ASSUME PayloadAssumption == None \notin Payload

VARIABLES
    running,
    poweredOn, state,   \* UsageBluetoothStateMachine
    retryArmed,         \* retryWork is scheduled and not cancelled
    found,              \* characteristic is set
    latest, active,     \* latestPayload, activePayload
    frames,             \* frames left in writeQueue
    gate,               \* lastDeliveredPayload
    gateAge,            \* lastDeliveredAt, against the heartbeat interval
    calls,              \* requests CoreBluetooth has not answered yet
    link,               \* CoreBluetooth holds a connection for this client
    dropping,           \* didDisconnect of a cancelled connection is to come
    deliveredHere       \* history: last payload delivered on this connection

machineVars == <<running, poweredOn, state, retryArmed>>
writeVars == <<found, active, frames>>
gateVars == <<gate, gateAge, deliveredHere>>
linkVars == <<calls, link, dropping>>
vars == <<machineVars, writeVars, latest, gateVars, linkVars>>

State == {"stopped", "unavailable", "scanning", "connecting",
          "discoveringService", "discoveringCharacteristic", "ready",
          "retrying"}
Request == {"scan", "connect", "service", "characteristic", "write"}
Asked(r) == [request |-> r, live |-> TRUE]
FrameCount == 2     \* UsageFrameCodec.frames of a 20-byte payload
Stored == Payload \cup {None}

TypeOK ==
    /\ running \in BOOLEAN /\ poweredOn \in BOOLEAN
    /\ retryArmed \in BOOLEAN /\ found \in BOOLEAN
    /\ link \in BOOLEAN /\ dropping \in BOOLEAN
    /\ state \in State
    /\ latest \in Stored /\ active \in Stored
    /\ gate \in Stored /\ deliveredHere \in Stored
    /\ frames \in 0 .. FrameCount
    /\ gateAge \in {"never", "recent", "due"}
    /\ calls \in SUBSET [request : Request, live : BOOLEAN]

Init ==
    /\ state = "stopped"
    /\ running = FALSE /\ poweredOn = FALSE /\ retryArmed = FALSE
    /\ found = FALSE /\ active = None /\ frames = 0
    /\ latest = None
    /\ gate = None /\ gateAge = "never" /\ deliveredHere = None
    /\ calls = {} /\ link = FALSE /\ dropping = FALSE

-----------------------------------------------------------------------------
(* The actions of the state machine, as perform carries them out.          *)

(* .startScan: a device another application holds is attached at once.  No  *)
(* stale answer is left by then.                                            *)
StartScan ==
    /\ calls = {}
    /\ retryArmed' = FALSE
    /\ \/ state' = "scanning" /\ calls' = {Asked("scan")}
       \/ state' = "connecting" /\ calls' = {Asked("connect")}
    /\ UNCHANGED <<running, writeVars, latest, gateVars, link, dropping>>

(* .cancel, with "owed" the requests still open; "drops" says whether a    *)
(* disconnect is still to be reported.                                      *)
Attached(owed) == link \/ Asked("connect") \in owed

Cancel_KeepsPayload(owed, drops) ==
    /\ found' = FALSE /\ frames' = 0
    /\ calls' = {[request |-> c.request, live |-> FALSE] :
                    c \in {d \in owed : d.request # "scan"}}
    /\ link' = FALSE
    /\ dropping' = drops
    /\ UNCHANGED active

Cancel(owed, drops) ==
    /\ found' = FALSE /\ active' = None /\ frames' = 0
    /\ calls' = {[request |-> c.request, live |-> FALSE] :
                    c \in {d \in owed : d.request # "scan"}}
    /\ link' = FALSE
    /\ dropping' = drops

CancelAll == Cancel(calls, dropping \/ Attached(calls))

(* The event .failed: .cancel and .scheduleRetry, if the radio is on. *)
Fail(owed, drops) ==
    /\ IF poweredOn /\ state # "stopped"
       THEN state' = "retrying" /\ retryArmed' = TRUE /\ Cancel(owed, drops)
       ELSE /\ calls' = owed
            /\ UNCHANGED <<state, retryArmed, writeVars, link, dropping>>
    /\ UNCHANGED <<running, poweredOn, latest>>

(* UsageDeliveryGate.resetConnection *)
ResetGate == gateAge' = "never" /\ UNCHANGED <<gate, deliveredHere>>

(* attemptDelivery, with no write under way, and shouldDeliver. *)
Attempt(payload, canWrite, lastPayload, lastAge, owed) ==
    IF canWrite /\ payload # None
       /\ ~ (lastPayload = payload /\ lastAge = "recent")
    THEN /\ active' = payload
         /\ frames' = FrameCount
         /\ calls' = owed \cup {Asked("write")}
    ELSE active' = None /\ frames' = 0 /\ calls' = owed

CanWrite == state = "ready" /\ found

-----------------------------------------------------------------------------
(* The client's own entry points, and its timers.                          *)

(* start makes a new CBCentralManager, which reports the radio later. *)
Start ==
    /\ ~ running
    /\ running' = TRUE
    /\ calls' = {} /\ link' = FALSE /\ dropping' = FALSE
    /\ UNCHANGED <<poweredOn, state, retryArmed, writeVars, latest, gateVars>>

Stop ==
    /\ running' = FALSE /\ poweredOn' = FALSE
    /\ state' = "stopped" /\ retryArmed' = FALSE
    /\ CancelAll
    /\ UNCHANGED <<latest, gateVars>>

(* update with a new snapshot, or heartbeat with the one it has. *)
Update(payload) ==
    /\ latest' = payload
    /\ IF active = None
       THEN Attempt(payload, CanWrite, gate, gateAge, calls)
       ELSE UNCHANGED <<active, frames, calls>>
    /\ UNCHANGED <<machineVars, found, gateVars, link, dropping>>

RecoverAfterWake ==
    /\ running
    /\ ResetGate
    /\ Fail(calls, dropping \/ Attached(calls))

RetryElapsed ==
    /\ retryArmed
    /\ poweredOn
    /\ StartScan
    /\ UNCHANGED poweredOn

(* The heartbeat interval has passed since the last delivery. *)
HeartbeatDue ==
    /\ gateAge = "recent"
    /\ gateAge' = "due"
    /\ UNCHANGED <<machineVars, writeVars, latest, gate, deliveredHere,
                   linkVars>>

-----------------------------------------------------------------------------
(* centralManagerDidUpdateState                                            *)

RadioOn ==
    /\ running
    /\ ~ poweredOn
    /\ poweredOn' = TRUE
    /\ StartScan

(* .startUnavailable on the first report, .poweredOff and .cancel later. *)
RadioOff ==
    /\ running
    /\ poweredOn' = FALSE
    /\ state' = "unavailable"
    /\ IF state = "stopped"
       THEN UNCHANGED <<retryArmed, writeVars, linkVars>>
       ELSE retryArmed' = FALSE /\ CancelAll
    /\ UNCHANGED <<running, latest, gateVars>>

-----------------------------------------------------------------------------
(* Callbacks of CBCentralManagerDelegate and CBPeripheralDelegate.  "call"  *)
(* is the request that is answered; an answer the state machine does not    *)
(* wait for changes nothing else.                                           *)

Advances(call, request, from, to, next) ==
    /\ call.request = request
    /\ IF state = from
       THEN state' = to /\ calls' = (calls \ {call}) \cup {Asked(next)}
       ELSE UNCHANGED state /\ calls' = calls \ {call}
    /\ link' = (link \/ (request = "connect" /\ state = from))
    /\ UNCHANGED <<running, poweredOn, retryArmed, writeVars, latest,
                   gateVars, dropping>>

DidDiscover(call) == Advances(call, "scan", "scanning", "connecting", "connect")
DidConnect(call) ==
    Advances(call, "connect", "connecting", "discoveringService", "service")
DidDiscoverServices(call) ==
    Advances(call, "service", "discoveringService", "discoveringCharacteristic",
             "characteristic")

(* .becameReady: the gate forgets when it delivered, and delivery starts.   *)
BecameReady_KeepsGate(owed) ==
    /\ state' = "ready"
    /\ deliveredHere' = None
    /\ Attempt(latest, TRUE, gate, gateAge, owed)
    /\ UNCHANGED <<gate, gateAge>>

BecameReady(owed) ==
    /\ state' = "ready"
    /\ gateAge' = "never" /\ deliveredHere' = None
    /\ Attempt(latest, TRUE, gate, "never", owed)
    /\ UNCHANGED gate

DidDiscoverCharacteristics(call) ==
    /\ call.request = "characteristic"
    /\ found' = TRUE
    /\ IF state = "discoveringCharacteristic"
       THEN BecameReady(calls \ {call})
       ELSE /\ calls' = calls \ {call}
            /\ UNCHANGED <<state, active, frames, gateVars>>
    /\ UNCHANGED <<running, poweredOn, retryArmed, latest, link, dropping>>

(* writeNextFrame, once the queue is empty: the delivery is recorded and    *)
(* what arrived meanwhile is attempted.                                     *)
Delivered_Stops(owed) ==
    /\ gate' = active /\ gateAge' = "recent" /\ deliveredHere' = active
    /\ active' = None /\ frames' = 0 /\ calls' = owed

Delivered(owed) ==
    /\ gate' = active /\ gateAge' = "recent" /\ deliveredHere' = active
    /\ Attempt(latest, CanWrite, active, "recent", owed)

DidWrite(call) ==
    /\ call.request = "write"
    /\ \/ /\ frames > 1
          /\ frames' = frames - 1
          /\ calls' = (calls \ {call}) \cup {Asked("write")}
          /\ UNCHANGED <<active, gateVars>>
       \/ frames =< 1 /\ active # None /\ Delivered(calls \ {call})
       \/ /\ active = None
          /\ Attempt(latest, CanWrite, gate, gateAge, calls \ {call})
          /\ UNCHANGED gateVars
    /\ UNCHANGED <<machineVars, found, latest, link, dropping>>

(* didFailToConnect, and every answer that carries an error. *)
DidFail(call) ==
    /\ call.request # "scan"
    /\ Fail(calls \ {call}, dropping \/ Attached(calls \ {call}))
    /\ UNCHANGED gateVars

(* An answer to a cancelled request that never comes. *)
Lost(call) ==
    /\ ~ call.live
    /\ calls' = calls \ {call}
    /\ UNCHANGED <<machineVars, writeVars, latest, gateVars, link, dropping>>

(* didDisconnectPeripheral, of the connection that is up or, late, of one   *)
(* that was cancelled: the client cannot tell them apart.                   *)
Disconnected(drops) ==
    /\ running
    /\ state \notin {"retrying", "stopped", "unavailable"}
    /\ ResetGate
    /\ Fail(calls, drops)

IgnoresDisconnect ==
    /\ ~ running \/ state \in {"retrying", "stopped", "unavailable"}
    /\ dropping' = FALSE
    /\ UNCHANGED <<machineVars, writeVars, latest, gateVars, calls, link>>

DidDisconnect == link /\ Disconnected(dropping)
LateDisconnect ==
    /\ dropping
    /\ Disconnected(Attached(calls)) \/ IgnoresDisconnect

Answer(call) ==
    \/ DidDiscover(call) \/ DidConnect(call) \/ DidDiscoverServices(call)
    \/ DidDiscoverCharacteristics(call) \/ DidWrite(call)

-----------------------------------------------------------------------------
Next ==
    \/ Start \/ Stop
    \/ \E payload \in Payload \cup {latest} : Update(payload)
    \/ RecoverAfterWake \/ RetryElapsed \/ HeartbeatDue
    \/ RadioOn \/ RadioOff
    \/ \E call \in calls : Answer(call) \/ DidFail(call) \/ Lost(call)
    \/ DidDisconnect \/ LateDisconnect

Spec == Init /\ [][Next]_vars

(* What may go wrong, or restart, outside the client. *)
Trouble ==
    \/ Start \/ Stop \/ RadioOff \/ RecoverAfterWake
    \/ \E call \in calls : DidFail(call) \/ Lost(call)
    \/ DidDisconnect \/ LateDisconnect

(* CoreBluetooth answers what it is asked, a scan finds the device while it *)
(* is in reach, and the retry timer fires.                                  *)
FairSpec ==
    /\ Spec
    /\ WF_vars(\E call \in calls : Answer(call))
    /\ WF_vars(RetryElapsed)

-----------------------------------------------------------------------------
(* Properties.                                                             *)

(* The retry timer is armed exactly while the client waits to retry: a     *)
(* retrying client is never forgotten, and no timer of an earlier failure  *)
(* restarts a scan over a newer connection (perform).                      *)
RetryIffRetrying == retryArmed <=> state = "retrying"

(* A client that waits for CoreBluetooth has asked it for what it waits    *)
(* for, on the connection that is current, and writes only when ready:     *)
(* no interleaving of late answers, wake-ups and power changes leaves it   *)
(* waiting for an answer nobody owes.                                      *)
AwaitsAnswer ==
    /\ state = "scanning" => Asked("scan") \in calls
    /\ state = "connecting" => Asked("connect") \in calls
    /\ state = "discoveringService" => link /\ Asked("service") \in calls
    /\ state = "discoveringCharacteristic" =>
           link /\ Asked("characteristic") \in calls
    /\ state = "ready" => link /\ found
    /\ active # None => state = "ready" /\ Asked("write") \in calls

(* A ready client that writes nothing has delivered the newest snapshot on *)
(* this very connection: an update that arrived during a write, or while   *)
(* the link was down, is not forgotten (attemptDelivery, writeNextFrame,   *)
(* becameReady).                                                           *)
NoUpdateLost ==
    state = "ready" /\ active = None => deliveredHere = latest

(* Once nothing goes wrong any more, a powered client ends up ready with   *)
(* the newest snapshot delivered.                                          *)
Recovers ==
    <>[][~ Trouble]_vars /\ <>[][UNCHANGED latest]_vars =>
        <>[](poweredOn => state = "ready" /\ deliveredHere = latest)
=============================================================================
