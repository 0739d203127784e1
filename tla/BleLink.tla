------------------------------- MODULE BleLink -------------------------------
(***************************************************************************)
(* Connections and advertising of the BLE transport (codex_ble_espidf.c in *)
(* components/codex_transport_ble_espidf, and which link is the HID host:  *)
(* the repository's own ble_hidd.c in components/esp_hid).                 *)
(*                                                                         *)
(* One connection is the HID host, one is UsageSync.  The Bluetooth task   *)
(* delivers the stack's events in order, a link event once to each GATT    *)
(* application, keeps the set of connections and tells the event loop of   *)
(* the HID device which one claimed it.  Both tasks start advertising      *)
(* again, from flags and a count they read before.  btPc and loopPc say    *)
(* what the two tasks do next.  The controller and the peers are external: *)
(* a peer connects while the controller advertises, which ends the         *)
(* advertising, and leaves at any time.                                    *)
(***************************************************************************)
EXTENDS Integers, Sequences, FiniteSets

CONSTANTS
    Conn,        \* connection ids
    None,        \* no connection
    QueueSize    \* event_task_args.queue_size

ASSUME LinkAssumption == None \notin Conn /\ QueueSize \in Nat \ {0}

VARIABLES
    btPc, loopPc,
    ready,         \* s_adv_data_ready, s_scan_response_ready, s_hid_ready
    ids,           \* s_physical_connection_ids and their count
    inbox,         \* events the Bluetooth task has still to deliver
    app,           \* the application that gets the first of them next
    hidHost,       \* dev->connected and dev->conn_id
    hidEvents,     \* the queue of the HID event loop
    connected,     \* s_connected
    links,         \* external: the connections there are
    advertising,   \* external: the controller advertises
    startRefused   \* history: the last start of advertising was refused

btVars == <<ids, inbox, app, hidHost>>
radioVars == <<links, advertising, startRefused>>
vars == <<btPc, loopPc, ready, btVars, hidEvents, connected, radioVars>>

Slots == 2                  \* s_physical_connection_ids[2]
App == {"hid", "usage"}     \* registered GATT applications
Configured == {"advData", "scanResponse"}
Ready == Configured \cup {"hid"}
Pc == {"idle", "check", "start"}
Event == [type : {"CONNECT", "DISCONNECT", "WRITE"}, conn : Conn]
             \cup [type : Configured]
HidEvent == {"START", "CONNECT", "DISCONNECT"}

TypeOK ==
    /\ btPc \in Pc
    /\ loopPc \in Pc
    /\ ready \in SUBSET Ready
    /\ ids \in Seq(Conn)
    /\ Len(ids) <= Slots
    /\ inbox \in Seq(Event)
    /\ app \in App
    /\ hidHost \in Conn \cup {None}
    /\ hidEvents \in Seq(HidEvent)
    /\ Len(hidEvents) <= QueueSize
    /\ connected \in BOOLEAN
    /\ links \in SUBSET Conn
    /\ advertising \in BOOLEAN
    /\ startRefused \in BOOLEAN

(* codex_ble_espidf_start: the callbacks are registered; the advertising    *)
(* and scan response data are on their way to the controller and the HID    *)
(* service announces itself.                                                *)
Init ==
    /\ btPc = "idle"
    /\ loopPc = "idle"
    /\ ready = {}
    /\ ids = <<>>
    /\ inbox = <<[type |-> "advData"], [type |-> "scanResponse"]>>
    /\ app = "hid"
    /\ hidHost = None
    /\ hidEvents = <<"START">>
    /\ connected = FALSE
    /\ links = {}
    /\ advertising = FALSE
    /\ startRefused = FALSE

-----------------------------------------------------------------------------
(* The peers.                                                              *)

Mentions(c) ==
    \E i \in DOMAIN inbox : inbox[i].type \notin Configured /\ inbox[i].conn = c

(* An id is used again only after the events of its last link were          *)
(* delivered.                                                               *)
LinkUp(c) ==
    /\ advertising
    /\ c \notin links
    /\ ~ Mentions(c)
    /\ links' = links \cup {c}
    /\ advertising' = FALSE
    /\ inbox' = Append(inbox, [type |-> "CONNECT", conn |-> c])
    /\ UNCHANGED <<btPc, loopPc, ready, ids, app, hidHost, hidEvents,
                   connected, startRefused>>

LinkDown(c) ==
    /\ c \in links
    /\ links' = links \ {c}
    /\ inbox' = Append(inbox, [type |-> "DISCONNECT", conn |-> c])
    /\ UNCHANGED <<btPc, loopPc, ready, ids, app, hidHost, hidEvents,
                   connected, advertising, startRefused>>

(* A write to a HID attribute.  Bound: one of each link on its way. *)
HidWrite(c) ==
    /\ c \in links
    /\ [type |-> "WRITE", conn |-> c] \notin {inbox[i] : i \in DOMAIN inbox}
    /\ inbox' = Append(inbox, [type |-> "WRITE", conn |-> c])
    /\ UNCHANGED <<btPc, loopPc, ready, ids, app, hidHost, hidEvents,
                   connected, radioVars>>

-----------------------------------------------------------------------------
(* start_advertising_if_ready: the flags and the count are read first, the  *)
(* controller is told afterwards, and a refusal is only logged.             *)

MayStart == ready = Ready /\ Len(ids) < Slots

StartAdvertising ==
    /\ \E refused \in BOOLEAN :
           /\ startRefused' = refused
           /\ advertising' = (advertising \/ ~ refused)
    /\ UNCHANGED links

-----------------------------------------------------------------------------
(* The Bluetooth task: gap_event_handler, gatts_event_dispatcher and the    *)
(* handler of the HID device it calls.                                      *)

First == Head(inbox)

Delivers(types) ==
    /\ btPc = "idle"
    /\ inbox # <<>>
    /\ First.type \in types

(* esp_event_post_to with portMAX_DELAY: waits for room. *)
Post(event) ==
    /\ Len(hidEvents) < QueueSize
    /\ hidEvents' = Append(hidEvents, event)

(* The next application's turn, or the next event. *)
Advance ==
    IF First.type \in {"CONNECT", "DISCONNECT"} /\ app = "hid"
    THEN app' = "usage" /\ UNCHANGED inbox
    ELSE app' = "hid" /\ inbox' = Tail(inbox)

DataSet ==
    /\ Delivers(Configured)
    /\ btPc' = "check"
    /\ ready' = ready \cup {First.type}
    /\ UNCHANGED <<loopPc, btVars, hidEvents, connected, radioVars>>

(* claim_hid_host: the first link that writes to a HID attribute. *)
Claim ==
    /\ Delivers({"WRITE"})
    /\ \/ hidHost = None /\ hidHost' = First.conn /\ Post("CONNECT")
       \/ hidHost # None /\ UNCHANGED <<hidHost, hidEvents>>
    /\ Advance
    /\ UNCHANGED <<btPc, loopPc, ready, ids, connected, radioVars>>

Remembers(c) == \E i \in DOMAIN ids : ids[i] = c

(* remember_physical_connection *)
WithConn(c) ==
    IF Remembers(c) \/ Len(ids) >= Slots THEN ids ELSE Append(ids, c)

(* forget_physical_connection: the last id moves to the free place. *)
WithoutConn(c) ==
    IF ~ Remembers(c) THEN ids
    ELSE LET last == Len(ids)
         IN  [i \in 1 .. last - 1 |-> IF ids[i] = c THEN ids[last] ELSE ids[i]]

(* gatts_event_dispatcher calls the application's handler, changes the set  *)
(* and then looks whether to advertise.  The first two are one step: nobody *)
(* but that look reads the set, and only the events tell of the claim.      *)
LinkAdded ==
    /\ Delivers({"CONNECT"})
    /\ btPc' = "check"
    /\ ids' = WithConn(First.conn)
    /\ UNCHANGED <<loopPc, ready, inbox, app, hidHost, hidEvents, connected,
                   radioVars>>

(* Only the loss of the link that claimed the HID device concerns it. *)
HostLost_AnyLink(c) == app = "hid" /\ hidHost # None

HostLost(c) == app = "hid" /\ hidHost = c

LinkRemoved_NoRestart ==
    /\ Delivers({"DISCONNECT"})
    /\ \/ HostLost(First.conn) /\ hidHost' = None /\ Post("DISCONNECT")
       \/ ~ HostLost(First.conn) /\ UNCHANGED <<hidHost, hidEvents>>
    /\ ids' = WithoutConn(First.conn)
    /\ Advance
    /\ UNCHANGED <<btPc, loopPc, ready, connected, radioVars>>

LinkRemoved ==
    /\ Delivers({"DISCONNECT"})
    /\ btPc' = "check"
    /\ \/ HostLost(First.conn) /\ hidHost' = None /\ Post("DISCONNECT")
       \/ ~ HostLost(First.conn) /\ UNCHANGED <<hidHost, hidEvents>>
    /\ ids' = WithoutConn(First.conn)
    /\ UNCHANGED <<loopPc, ready, inbox, app, connected, radioVars>>

BtCheck ==
    /\ btPc = "check"
    /\ \/ MayStart /\ btPc' = "start" /\ UNCHANGED <<inbox, app>>
       \/ ~ MayStart /\ btPc' = "idle" /\ Advance
    /\ UNCHANGED <<loopPc, ready, ids, hidHost, hidEvents, connected, radioVars>>

BtStart ==
    /\ btPc = "start"
    /\ btPc' = "idle"
    /\ StartAdvertising
    /\ Advance
    /\ UNCHANGED <<loopPc, ready, ids, hidHost, hidEvents, connected>>

-----------------------------------------------------------------------------
(* The task of the HID event loop: hid_event_handler.                      *)

Takes(event) ==
    /\ loopPc = "idle"
    /\ hidEvents # <<>>
    /\ Head(hidEvents) = event
    /\ hidEvents' = Tail(hidEvents)
    /\ loopPc' = "check"

HidStart ==
    /\ Takes("START")
    /\ ready' = ready \cup {"hid"}
    /\ UNCHANGED <<btPc, btVars, connected, radioVars>>

HidConnect ==
    /\ Takes("CONNECT")
    /\ connected' = TRUE
    /\ UNCHANGED <<btPc, ready, btVars, radioVars>>

HidDisconnect ==
    /\ Takes("DISCONNECT")
    /\ connected' = FALSE
    /\ UNCHANGED <<btPc, ready, btVars, radioVars>>

LoopCheck ==
    /\ loopPc = "check"
    /\ loopPc' = IF MayStart THEN "start" ELSE "idle"
    /\ UNCHANGED <<btPc, ready, btVars, hidEvents, connected, radioVars>>

LoopStart ==
    /\ loopPc = "start"
    /\ loopPc' = "idle"
    /\ StartAdvertising
    /\ UNCHANGED <<btPc, ready, btVars, hidEvents, connected>>

-----------------------------------------------------------------------------
Bluetooth ==
    \/ DataSet \/ Claim \/ LinkAdded \/ LinkRemoved \/ BtCheck \/ BtStart

Loop == HidStart \/ HidConnect \/ HidDisconnect \/ LoopCheck \/ LoopStart

Next ==
    \/ Bluetooth
    \/ Loop
    \/ \E c \in Conn : LinkUp(c) \/ LinkDown(c) \/ HidWrite(c)

Spec == Init /\ [][Next]_vars

-----------------------------------------------------------------------------
(* Properties.                                                             *)

BtAtRest == btPc = "idle" /\ inbox = <<>>
AtRest == BtAtRest /\ loopPc = "idle" /\ hidEvents = <<>>

(* However often a link event is delivered, and whatever the order in which *)
(* links come and go, a connection takes one slot and a lost one none       *)
(* (remember_physical_connection, forget_physical_connection).              *)
SlotsAreLinks ==
    /\ \A i, j \in DOMAIN ids : ids[i] = ids[j] => i = j
    /\ BtAtRest => \A i \in DOMAIN ids : ids[i] \in links

(* While a slot is free the device can be found: whatever the two tasks     *)
(* read before the other changed it, once both are at rest the controller   *)
(* advertises, unless it refused (nobody asks it again).                    *)
FreeSlotIsAdvertised ==
    AtRest /\ Len(ids) < Slots /\ ~ startRefused => advertising

(* A link that is up keeps its slot and, if it claimed it, the HID device,  *)
(* whatever other links do, UsageSync's among them                          *)
(* (forget_physical_connection, the disconnect handler of ble_hidd.c).      *)
LinkKeepsPlace ==
    [][/\ hidHost # None /\ hidHost' # hidHost => hidHost \notin links
       /\ \A c \in links : Remembers(c) => Remembers(c)']_vars
=============================================================================
