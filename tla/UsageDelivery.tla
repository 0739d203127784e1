--------------------------- MODULE UsageDelivery ---------------------------
(***************************************************************************)
(* A usage snapshot on its way from the Mac to the screen: the controller  *)
(* with its cache and timers (UsageSyncController, UsageSnapshot,          *)
(* UsageCache), the delivery gate and write loop of the Bluetooth client   *)
(* and the reassembler, rollback check, NVS copy and ageing of the device, *)
(* which a second central shares.  Mac and device sleep, quit and restart  *)
(* and lose the link at any point.                                         *)
(*                                                                         *)
(* A clock step is one period of the controller's timer, five minutes, and *)
(* so is the interval of the gate.  Answers, reconnects and the device's   *)
(* poll take seconds: the clock waits for them.  UsageClient has the       *)
(* stages of a connection and UsageDevice the steps of an accepted frame;  *)
(* here each is one step.  At MaxTime wall-clock time stands still while   *)
(* the timers go on.                                                       *)
(***************************************************************************)
EXTENDS Integers

CONSTANTS
    StaleAfter,   \* UsageSnapshot.staleAfter and the device's, in steps
    MaxTime,      \* bound on the wall clock
    Answered      \* bound: the times at which an app-server may answer

ASSUME DeliveryAssumption ==
    /\ StaleAfter \in Nat \ {0}
    /\ MaxTime \in Nat
    /\ Answered \subseteq 0 .. MaxTime

VARIABLES
    now, newest,  \* the clock; history: the latest observation of any Mac
    mac,          \* the Mac is off, awake or asleep
    current,      \* currentSnapshot, and the client's latestPayload
    cache,        \* update time in the cache file, -1 if there is none
    due, marking, \* the periodic timer has fired; a wake-up's check is queued
    linked,       \* the client is ready, and the device has the connection
    deliveryGate, \* its age 2 stands for an elapsed interval
    activePayload, frame, answer, \* the write loop, its frame, the response
    partial,      \* s_reassembler: whose message, and which halves of it
    disturbed,    \* history: another central touched it during this message
    device, age,  \* s_snapshot and the steps since its delivery
    nvs           \* update time in the NVS copy, -1 if there is none

macVars == <<mac, current, cache, due, marking>>
clientVars == <<linked, deliveryGate, activePayload, frame, answer>>
deviceVars == <<device, age, nvs>>
deliveryVars ==
    <<now, newest, macVars, clientVars, partial, disturbed, deviceVars>>

Time == -1 .. MaxTime
Snapshot == [at : Time, stale : BOOLEAN]
Nothing == [at |-> -1, stale |-> TRUE]
Blank == [of |-> "nobody", halves |-> {}]
Gate == [payload : Snapshot, age : 0 .. 2, sure : BOOLEAN]
Partial == [of : {"nobody", "this", "earlier", "other"},
            halves : {{}, {1}, {2}}]

DeliveryTypeOK ==
    /\ now \in 0 .. MaxTime /\ newest \in -1 .. now
    /\ mac \in {"off", "awake", "asleep"}
    /\ current \in Snapshot /\ activePayload \in Snapshot /\ device \in Snapshot
    /\ cache \in Time /\ nvs \in Time
    /\ due \in BOOLEAN /\ marking \in BOOLEAN
    /\ linked \in BOOLEAN /\ disturbed \in BOOLEAN
    /\ deliveryGate \in Gate
    /\ frame \in 0 .. 2
    /\ answer \in {"none", "ok", "error"}
    /\ partial \in Partial
    /\ age \in 0 .. StaleAfter

DeliveryInit ==
    /\ now = 0 /\ newest = -1
    /\ mac = "off" /\ current = Nothing /\ cache = -1
    /\ due = FALSE /\ marking = FALSE
    /\ linked = FALSE
    /\ deliveryGate = [payload |-> Nothing, age |-> 2, sure |-> FALSE]
    /\ activePayload = Nothing /\ frame = 0 /\ answer = "none"
    /\ partial = Blank /\ disturbed = FALSE
    /\ device = Nothing /\ age = 0 /\ nvs = -1

-----------------------------------------------------------------------------
(* The client's gate and write loop.                                       *)

ShouldDeliver(p, g) == p # g.payload \/ g.age > 0
MustDeliver(p, g) == p # g.payload \/ g.age = 2

StartMessage(p) ==
    /\ activePayload' = p /\ frame' = 1
    /\ partial' = [partial EXCEPT !.of = IF @ = "this" THEN "earlier" ELSE @]
    /\ disturbed' = FALSE

(* attemptDelivery; a heartbeat a step after the last delivery may come    *)
(* before or after the interval is over.                                   *)
AttemptDelivery(p, g) ==
    \/ linked /\ p # Nothing /\ ShouldDeliver(p, g) /\ StartMessage(p)
    \/ /\ ~ (linked /\ p # Nothing /\ MustDeliver(p, g))
       /\ activePayload' = Nothing /\ frame' = 0
       /\ UNCHANGED <<partial, disturbed>>

(* ...which returns at once while a payload is being written. *)
Offer(p) ==
    /\ \/ activePayload = Nothing /\ AttemptDelivery(p, deliveryGate)
       \/ /\ activePayload # Nothing
          /\ UNCHANGED <<activePayload, frame, partial, disturbed>>
    /\ UNCHANGED <<linked, deliveryGate, answer>>

(* resetConnection forgets when, not what, was delivered. *)
ConnectionReset(g) == [g EXCEPT !.age = 2, !.sure = FALSE]

(* The connection ends: the client cancels or hears of it, and the device  *)
(* resets the reassembler.                                                 *)
Disconnect ==
    /\ linked' = FALSE
    /\ deliveryGate' = ConnectionReset(deliveryGate)
    /\ activePayload' = Nothing /\ frame' = 0 /\ answer' = "none"
    /\ partial' = Blank /\ disturbed' = FALSE

(* didWriteValueFor, writeNextFrame *)
Acknowledged_FirstHalf ==
    /\ answer = "ok"
    /\ answer' = "none"
    /\ deliveryGate' = [payload |-> activePayload, age |-> 0, sure |-> ~ disturbed]
    /\ AttemptDelivery(current, deliveryGate')
    /\ UNCHANGED linked

Acknowledged ==
    /\ answer = "ok"
    /\ answer' = "none"
    /\ \/ /\ frame = 1 /\ frame' = 2
          /\ UNCHANGED <<activePayload, deliveryGate, partial, disturbed>>
       \/ /\ frame = 2
          /\ deliveryGate' = [payload |-> activePayload, age |-> 0, sure |-> ~ disturbed]
          /\ AttemptDelivery(current, deliveryGate')
    /\ UNCHANGED linked

DidWriteValue ==
    /\ mac = "awake"
    /\ Acknowledged \/ (answer = "error" /\ Disconnect)
    /\ UNCHANGED <<now, newest, macVars, deviceVars>>

(* The client has scanned, connected and discovered: becameReady.  The     *)
(* retry delay of a second and more lets a wake-up's check run first.      *)
Connect ==
    /\ mac = "awake" /\ ~ linked /\ ~ marking
    /\ linked' = TRUE
    /\ deliveryGate' = ConnectionReset(deliveryGate)
    /\ \/ current # Nothing /\ StartMessage(current)
       \/ /\ current = Nothing
          /\ UNCHANGED <<activePayload, frame, partial, disturbed>>
    /\ UNCHANGED <<now, newest, macVars, answer, deviceVars>>

LinkDrops ==
    /\ linked
    /\ Disconnect
    /\ UNCHANGED <<now, newest, macVars, deviceVars>>

-----------------------------------------------------------------------------
(* The controller.                                                         *)

AsStale(p) == [p EXCEPT !.stale = TRUE]

(* publish *)
Publish(p) ==
    /\ current' = p
    /\ \/ p # current /\ Offer(p)
       \/ p = current /\ UNCHANGED <<clientVars, partial, disturbed>>

(* markingStale: between clock steps an age of StaleAfter steps may or may *)
(* not be over the limit.                                                  *)
MarkingStale(p) ==
    {q \in {p, AsStale(p)} : /\ now - p.at > StaleAfter => q.stale
                             /\ now - p.at < StaleAfter => q = p}

(* accept; UsageCache.save may fail. *)
Accept(observed) ==
    \/ /\ observed.at >= current.at
       /\ cache' \in IF observed # current THEN {cache, observed.at} ELSE {cache}
       /\ Publish(observed)
    \/ /\ observed.at < current.at
       /\ \E p \in MarkingStale(current) : Publish(p)
       /\ UNCHANGED cache

(* The app-server answers; the clock may have been set back by a step. *)
Observe(t) ==
    /\ mac = "awake"
    /\ t \in {now - 1, now}
    /\ newest' = IF t > newest THEN t ELSE newest
    /\ Accept([at |-> t, stale |-> FALSE])
    /\ UNCHANGED <<now, mac, due, marking, deviceVars>>

(* The periodic timer: markCurrentSnapshotStaleIfNeeded, heartbeat.        *)
PeriodicMark(p) == IF now - p.at > StaleAfter THEN AsStale(p) ELSE p

Periodic_NoHeartbeat ==
    /\ mac = "awake" /\ due
    /\ due' = FALSE
    /\ Publish(PeriodicMark(current))
    /\ UNCHANGED <<now, newest, mac, cache, marking, deviceVars>>

Periodic ==
    /\ mac = "awake" /\ due
    /\ due' = FALSE
    /\ current' = PeriodicMark(current)
    /\ Offer(current')
    /\ UNCHANGED <<now, newest, mac, cache, marking, deviceVars>>

Sleep ==
    /\ mac = "awake"
    /\ mac' = "asleep"
    /\ UNCHANGED <<now, newest, current, cache, due, marking, clientVars,
                   partial, disturbed, deviceVars>>

(* didWakeNotification: recoverAfterWake fails the connection at once, the *)
(* check of the snapshot is queued.                                        *)
Wake ==
    /\ mac = "asleep"
    /\ mac' = "awake"
    /\ marking' = TRUE
    /\ Disconnect
    /\ UNCHANGED <<now, newest, current, cache, due, deviceVars>>

MarkAfterWake ==
    /\ mac = "awake" /\ marking
    /\ marking' = FALSE
    /\ \E p \in MarkingStale(current) : Publish(p)
    /\ UNCHANGED <<now, newest, mac, cache, due, deviceVars>>

(* UsageSync quits or crashes; only the cache file stays. *)
Quit ==
    /\ mac # "off"
    /\ mac' = "off"
    /\ current' = Nothing
    /\ due' = FALSE /\ marking' = FALSE
    /\ Disconnect
    /\ UNCHANGED <<now, newest, cache, deviceVars>>

(* start: load, restoredFromCache. *)
Restored(t) == [at |-> t, stale |-> TRUE]

Launch ==
    /\ mac = "off"
    /\ mac' = "awake"
    /\ current' = Restored(cache)
    /\ deliveryGate' = [payload |-> Nothing, age |-> 2, sure |-> FALSE]
    /\ UNCHANGED <<now, newest, cache, due, marking, linked, activePayload,
                   frame, answer, partial, disturbed, deviceVars>>

-----------------------------------------------------------------------------
(* The device.                                                             *)

(* microstick_usage_reassembler_accept: message ids tell this message from *)
(* earlier ones; another central may happen to use the same id.            *)
Halves == (IF partial.of = "this" THEN partial.halves ELSE {}) \cup {frame}

Respond(r, p) == answer' = r /\ partial' = p

IsRollback_Never(p) == FALSE
IsRollback(p) == p.at < device.at

StoreAndShow(p) ==
    /\ device' = p /\ age' = 0
    /\ nvs' \in {nvs, p.at}

(* process_frame, for a frame of this Mac. *)
FrameArrives ==
    /\ frame # 0 /\ answer = "none"
    /\ \/ /\ partial.of = "other"
          /\ Respond("error", Blank)
          /\ UNCHANGED deviceVars
       \/ /\ Halves # {1, 2}
          /\ Respond("ok", [of |-> "this", halves |-> Halves])
          /\ UNCHANGED deviceVars
       \/ /\ Halves = {1, 2} /\ IsRollback(activePayload)
          /\ Respond("error", Blank)
          /\ UNCHANGED deviceVars
       \/ /\ Halves = {1, 2} /\ ~ IsRollback(activePayload)
          /\ Respond("ok", Blank)
          /\ StoreAndShow(activePayload)
    /\ UNCHANGED <<now, newest, macVars, linked, deliveryGate, activePayload,
                   frame, disturbed>>

(* A second bonded central writes a half, disconnects, ...                 *)
OtherInterferes ==
    /\ partial' \in {Blank, [of |-> "other", halves |-> {1}]} \ {partial}
    /\ disturbed' = (activePayload # Nothing)
    /\ UNCHANGED <<now, newest, macVars, clientVars, deviceVars>>

(* ...or, being another Mac, delivers what it has just observed. *)
OtherDelivers ==
    /\ now \in Answered
    /\ partial' = Blank
    /\ disturbed' = (activePayload # Nothing)
    /\ newest' = now
    /\ StoreAndShow([at |-> now, stale |-> FALSE])
    /\ UNCHANGED <<now, macVars, clientVars>>

(* microstick_usage_gatt_poll_stale; an age of StaleAfter steps may or may *)
(* not be over the limit.                                                  *)
Expiring_WhileLinked == linked /\ ~ device.stale /\ age = StaleAfter
Expiring == ~ device.stale /\ age = StaleAfter

PollStale ==
    /\ Expiring
    /\ device' = AsStale(device)
    /\ UNCHANGED <<now, newest, macVars, clientVars, partial, disturbed, age, nvs>>

(* microstick_usage_gatt_prepare; the NVS copy may be unreadable. *)
Reboot ==
    /\ Disconnect
    /\ device' \in {Restored(nvs), Nothing}
    /\ age' = 0
    /\ UNCHANGED <<now, newest, macVars, nvs>>

-----------------------------------------------------------------------------
(* Everything that takes seconds is done before five minutes have passed;  *)
(* a link does not outlive a sleep of five minutes.                        *)
Tick ==
    /\ mac = "awake" => ~ due /\ ~ marking /\ frame = 0
    /\ mac = "asleep" => ~ linked
    /\ ~ Expiring
    /\ now' = IF now < MaxTime THEN now + 1 ELSE now
    /\ due' = (due \/ mac = "awake")
    /\ deliveryGate' = [deliveryGate EXCEPT !.age = IF @ < 2 THEN @ + 1 ELSE @]
    /\ age' = IF age < StaleAfter THEN age + 1 ELSE age
    /\ UNCHANGED <<newest, mac, current, cache, marking, linked, activePayload,
                   frame, answer, partial, disturbed, device, nvs>>

Other == OtherInterferes \/ OtherDelivers

DeliveryNext ==
    \/ DidWriteValue \/ Connect \/ LinkDrops
    \/ \E t \in Answered : Observe(t)
    \/ Periodic \/ Sleep \/ Wake \/ MarkAfterWake \/ Quit \/ Launch
    \/ FrameArrives \/ Other \/ PollStale \/ Reboot
    \/ Tick

DeliverySpec == DeliveryInit /\ [][DeliveryNext]_deliveryVars

(* Both programs and the radio run, and time passes; nobody has to open    *)
(* the Mac, start UsageSync or answer a request for an observation.        *)
Fairness ==
    /\ WF_deliveryVars(DidWriteValue) /\ WF_deliveryVars(Connect)
    /\ WF_deliveryVars(FrameArrives) /\ WF_deliveryVars(Periodic)
    /\ WF_deliveryVars(MarkAfterWake) /\ WF_deliveryVars(PollStale)
    /\ WF_deliveryVars(Tick)

DeliveryFairSpec == DeliverySpec /\ Fairness

-----------------------------------------------------------------------------
(* Properties.                                                             *)

(* The whole path implements the register: whatever is restarted, lost or  *)
(* repeated, the value on the device only goes back in a restart, is never *)
(* newer than what was observed, and becomes live only by an observation   *)
(* at most StaleAfter old (accept, restoredFromCache, process_frame).      *)
Register == INSTANCE UsageRegister WITH
    Fresh <- StaleAfter + 1, now <- now, newest <- newest, shown <- device

ImplementsRegister == Register!Spec

(* A value shown as live was observed at most two staleness windows ago:   *)
(* one on the Mac, which heartbeats deliver as live, one on the device,    *)
(* which counts from the delivery (markingStale, poll_stale).              *)
LiveIsRecent == ~ device.stale => now - device.at =< 2 * StaleAfter + 1

(* What the Mac counts as delivered on this connection the device holds,   *)
(* if no other central touched the reassembler during the message          *)
(* (didWriteValueFor, process_frame).                                      *)
AckIsHeld == linked /\ deliveryGate.sure => device.at >= deliveryGate.payload.at

(* Once the Mac stays awake and nothing disturbs the link, the device      *)
(* comes to show the Mac's snapshot or a newer one, also after a half that *)
(* was acknowledged and lost to another central (heartbeat).               *)
Disturbance == LinkDrops \/ Other \/ Reboot \/ Sleep \/ Quit

Converges ==
    <>[][~ Disturbance]_deliveryVars /\ <>[](mac = "awake")
        => <>[](device \in {current, AsStale(current)} \/ device.at > current.at)
=============================================================================
