---------------------------- MODULE UsageDevice ----------------------------
(***************************************************************************)
(* The device side of the Usage service: reassembly of the two ATT frames  *)
(* of a snapshot, the rollback check, the NVS copy, ageing and the value   *)
(* on the screen (app/usage/*.c, usage_update and state_task of            *)
(* app/app_main.cpp).                                                      *)
(*                                                                         *)
(* The Bluetooth task handles a frame from its arrival to its response;    *)
(* the state task polls once a second.  The steps between which the other  *)
(* task, a crash or the clock can come are actions of their own.  A        *)
(* snapshot is its update time and its stale flag: quota and reset time    *)
(* only travel with them.  Distinct payloads are taken to differ in their  *)
(* CRC-16, so a checksum is named by the payload it was computed from, and *)
(* the bytes of a half are the announced payload's or damaged.             *)
(* Operators named X_Defect are defective variants of X that no action     *)
(* uses: each breaks one of the properties.                                *)
(***************************************************************************)
EXTENDS Integers

CONSTANTS
    Payload,      \* the snapshots peers may send
    Id,           \* message ids
    Watched,      \* a payload whose halves are counted, for the properties
    StaleAfter    \* MICROSTICK_USAGE_STALE_AFTER_SECONDS, in clock steps

AsStale(p) == [at |-> p.at, stale |-> TRUE]

ASSUME UsageAssumption ==
    /\ Payload \subseteq [at : Nat, stale : BOOLEAN]
    /\ \A p \in Payload : AsStale(p) \in Payload
    /\ 0 \in Id
    /\ Watched \in Payload /\ ~ Watched.stale
    /\ StaleAfter \in Nat

None == [at |-> -1, stale |-> TRUE]
Index == {0, 1}

(* A well-formed frame carries one half of the payload "sum", whose         *)
(* checksum its header announces.  Everything else is Malformed.            *)
Frame == [id : Id, index : Index, sum : Payload, half : {"intact", "damaged"}]
Malformed == [id |-> 0, index |-> 0, sum |-> None, half |-> "damaged"]

VARIABLES
    partial,      \* s_reassembler
    gattPc,       \* what the Bluetooth task does next with "completed"
    completed,
    reply,        \* the last ATT response
    snapshot,     \* s_snapshot, None while s_has_snapshot is false
    synced,       \* s_last_sync_monotonic_us > 0
    age,          \* time since the last sync, saturating past StaleAfter
    stored,       \* the NVS blob
    statePc,      \* what the state task does next with "copy"
    copy,
    shown,        \* usage in the UI state
    halves,       \* history: intact halves of Watched received
    unreadable    \* history: an NVS load has failed

gattVars == <<partial, gattPc, completed, reply, halves>>
stateVars == <<statePc, copy>>
vars == <<gattVars, snapshot, synced, age, stored, stateVars, shown,
          unreadable>>

Blank == [id |-> 0, sum |-> None, parts |-> [i \in Index |-> "blank"]]
Partial == [id : Id, sum : Payload \cup {None},
            parts : [Index -> {"blank", "intact", "damaged"}]]

TypeOK ==
    /\ partial \in Partial
    /\ gattPc \in {"idle", "save", "set", "publish"}
    /\ completed \in Payload \cup {None}
    /\ reply \in {"none", "ok", "error"}
    /\ snapshot \in Payload \cup {None}
    /\ synced \in BOOLEAN
    /\ age \in 0 .. StaleAfter + 1
    /\ stored \in Payload \cup {None}
    /\ statePc \in {"poll", "publish", "take", "show"}
    /\ copy \in Payload \cup {None}
    /\ shown \in Payload \cup {None}
    /\ halves \subseteq Index
    /\ unreadable \in BOOLEAN

Init ==
    /\ partial = Blank
    /\ gattPc = "idle"
    /\ completed = None
    /\ reply = "none"
    /\ snapshot = None
    /\ synced = FALSE
    /\ age = 0
    /\ stored = None
    /\ statePc = "poll"
    /\ copy = None
    /\ shown = None
    /\ halves = {}
    /\ unreadable = FALSE

-----------------------------------------------------------------------------
(* microstick_usage_reassembler_accept                                     *)

Started == \E i \in Index : partial.parts[i] # "blank"

(* A half of the message under way, with the same metadata, ... *)
Continues(f) == Started /\ f.id = partial.id /\ f.sum = partial.sum
(* ...a half with the same id and other metadata... *)
Contradicts(f) == Started /\ f.id = partial.id /\ f.sum # partial.sum
(* ...or the first half seen of another message. *)
Begins(f) == ~ Started \/ f.id # partial.id

With(f) ==
    [id |-> f.id,
     sum |-> f.sum,
     parts |-> [i \in Index |->
                   IF i = f.index THEN f.half
                   ELSE IF Begins(f) THEN "blank" ELSE partial.parts[i]]]

IsComplete(p) == \A i \in Index : p.parts[i] # "blank"

(* crc16 of the assembled bytes against the announced checksum. *)
ChecksumMatches_LastHalf(p) == \E i \in Index : p.parts[i] = "intact"
ChecksumMatches(p) == \A i \in Index : p.parts[i] = "intact"

Respond(r) == gattPc' = "idle" /\ reply' = r
Reject == partial' = Blank /\ Respond("error")

Heard(f) ==
    halves' = IF f.sum = Watched /\ f.half = "intact"
              THEN halves \cup {f.index} ELSE halves

-----------------------------------------------------------------------------
(* The Bluetooth task: usage_gatts_event, process_frame.                   *)

RejectFrame(f) ==
    /\ gattPc = "idle"
    /\ f = Malformed \/ Contradicts(f)
    /\ Reject
    /\ UNCHANGED <<completed, snapshot, synced, age, stored, stateVars,
                   shown, halves, unreadable>>

(* A write that is prepared, without response or from an unbonded peer is  *)
(* refused before it reaches the reassembler.                              *)
RefuseWrite ==
    /\ gattPc = "idle"
    /\ Respond("error")
    /\ UNCHANGED <<partial, completed, snapshot, synced, age, stored,
                   stateVars, shown, halves, unreadable>>

AcceptHalf(f) ==
    /\ gattPc = "idle"
    /\ f \in Frame
    /\ ~ Contradicts(f)
    /\ ~ IsComplete(With(f))
    /\ partial' = With(f)
    /\ Respond("ok")
    /\ Heard(f)
    /\ UNCHANGED <<completed, snapshot, synced, age, stored, stateVars,
                   shown, unreadable>>

IsRollback_Restored(p) == synced /\ p.at < snapshot.at
(* microstick_usage_snapshot_is_rollback, under s_has_snapshot *)
IsRollback(p) == snapshot # None /\ p.at < snapshot.at

FinishMessage(f) ==
    /\ gattPc = "idle"
    /\ f \in Frame
    /\ ~ Contradicts(f)
    /\ IsComplete(With(f))
    /\ partial' = Blank
    /\ \/ /\ ChecksumMatches(With(f)) /\ ~ IsRollback(f.sum)
          /\ gattPc' = "save"
          /\ completed' = f.sum
          /\ UNCHANGED reply
       \/ /\ ~ ChecksumMatches(With(f)) \/ IsRollback(f.sum)
          /\ Respond("error")
          /\ UNCHANGED completed
    /\ Heard(f)
    /\ UNCHANGED <<snapshot, synced, age, stored, stateVars, shown,
                   unreadable>>

(* microstick_usage_storage_save; a failure is logged and passed over. *)
Save ==
    /\ gattPc = "save"
    /\ gattPc' = "set"
    /\ stored' \in {stored, completed}
    /\ UNCHANGED <<partial, completed, reply, snapshot, synced, age,
                   stateVars, shown, halves, unreadable>>

Set ==
    /\ gattPc = "set"
    /\ gattPc' = "publish"
    /\ snapshot' = completed
    /\ synced' = TRUE
    /\ age' = 0
    /\ UNCHANGED <<partial, completed, reply, stored, stateVars, shown,
                   halves, unreadable>>

Publish ==
    /\ gattPc = "publish"
    /\ shown' = completed
    /\ completed' = None
    /\ Respond("ok")
    /\ UNCHANGED <<partial, snapshot, synced, age, stored,
                   stateVars, halves, unreadable>>

(* ESP_GATTS_DISCONNECT_EVT, of any peer. *)
PeerDisconnects ==
    /\ gattPc = "idle"
    /\ partial' = Blank
    /\ UNCHANGED <<gattPc, completed, reply, snapshot, synced, age, stored,
                   stateVars, shown, halves, unreadable>>

-----------------------------------------------------------------------------
(* The state task.                                                         *)

StateGoes(from, to) == statePc = from /\ statePc' = to

(* microstick_usage_gatt_poll_stale *)
Expired == snapshot # None /\ ~ snapshot.stale /\ synced /\ age > StaleAfter

PollStale ==
    /\ \/ /\ Expired
          /\ StateGoes("poll", "publish")
          /\ snapshot' = AsStale(snapshot)
          /\ copy' = snapshot'
       \/ /\ ~ Expired
          /\ StateGoes("poll", "take")
          /\ UNCHANGED <<snapshot, copy>>
    /\ UNCHANGED <<gattVars, synced, age, stored, shown, unreadable>>

PublishStale ==
    /\ StateGoes("publish", "take")
    /\ shown' = copy
    /\ copy' = None
    /\ UNCHANGED <<gattVars, snapshot, synced, age, stored, unreadable>>

(* microstick_usage_gatt_snapshot, then the assignment to the UI state. *)
TakeCopy ==
    /\ StateGoes("take", "show")
    /\ copy' = snapshot
    /\ UNCHANGED <<gattVars, snapshot, synced, age, stored, shown, unreadable>>

ShowCopy_ByCallbackOnly ==
    /\ StateGoes("show", "poll")
    /\ copy' = None
    /\ UNCHANGED <<gattVars, snapshot, synced, age, stored, shown, unreadable>>

ShowCopy ==
    /\ StateGoes("show", "poll")
    /\ shown' = copy
    /\ copy' = None
    /\ UNCHANGED <<gattVars, snapshot, synced, age, stored, unreadable>>

-----------------------------------------------------------------------------
(* The clock, and a crash or power cycle at any point.                     *)

Tick ==
    /\ age =< StaleAfter
    /\ age' = age + 1
    /\ UNCHANGED <<gattVars, snapshot, synced, stored, stateVars, shown,
                   unreadable>>

(* microstick_usage_snapshot_restore_cached *)
Restored(p) == AsStale(p)

(* microstick_usage_gatt_prepare: load the cached snapshot, if it can be   *)
(* read, and show it as stale.                                             *)
Reboot ==
    /\ partial' = Blank
    /\ gattPc' = "idle"
    /\ completed' = None
    /\ reply' = "none"
    /\ synced' = FALSE
    /\ age' = 0
    /\ statePc' = "poll"
    /\ copy' = None
    /\ \/ /\ snapshot' = Restored(stored)
          /\ UNCHANGED unreadable
       \/ /\ snapshot' = None
          /\ unreadable' = TRUE
    /\ shown' = snapshot'
    /\ UNCHANGED <<stored, halves>>

Bluetooth(f) == RejectFrame(f) \/ AcceptHalf(f) \/ FinishMessage(f)
Commit == Save \/ Set \/ Publish
StateTask == PollStale \/ PublishStale \/ TakeCopy \/ ShowCopy

Next ==
    \/ \E f \in Frame \cup {Malformed} : Bluetooth(f)
    \/ RefuseWrite
    \/ Commit
    \/ PeerDisconnects
    \/ StateTask
    \/ Tick
    \/ Reboot

Spec == Init /\ [][Next]_vars

(* Both tasks run, and time passes. *)
Fairness == WF_vars(Commit) /\ WF_vars(StateTask) /\ WF_vars(Tick)

FairSpec == Spec /\ Fairness

-----------------------------------------------------------------------------
(* Properties.                                                             *)

(* Only a message both of whose halves arrived intact ever reaches the     *)
(* snapshot, the NVS or the screen, whatever was mixed, repeated, damaged, *)
(* malformed or cut off by a disconnect or a crash                         *)
(* (process_frame, microstick_usage_reassembler_accept).                   *)
OnlyWholeSnapshots == Watched \in {snapshot, stored, shown} => halves = Index

(* A snapshot restored from NVS is never live: only a delivery since the   *)
(* last start makes it so (microstick_usage_snapshot_restore_cached).      *)
LiveSinceDelivery == ~ snapshot.stale => synced

(* The NVS copy never moves backwards in time, though a save may fail, the *)
(* device may restart between the save and the update, and the check reads *)
(* the snapshot and not the NVS (process_frame).                           *)
StoredNeverRollsBack == [][stored'.at >= stored.at \/ unreadable]_vars

(* What the screen shows never stays behind the snapshot (state_task,      *)
(* usage_update): the two tasks may publish out of order, and the next     *)
(* poll puts it right.                                                     *)
ScreenCatchesUp ==
    <>[][UNCHANGED snapshot]_vars => <>[](shown = snapshot)
=============================================================================
