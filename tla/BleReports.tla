----------------------------- MODULE BleReports -----------------------------
(***************************************************************************)
(* Reports between the device and the HID host: the event queue, the send  *)
(* mutex, the wait for confirmations and the Escape fallback               *)
(* (codex_ble_espidf.c, and ble_hidd.c of the repository's own esp_hid).   *)
(*                                                                         *)
(* The Bluetooth task delivers the events of inbox in order.  It posts the *)
(* writes of the host to the event queue of the loop task, waiting while   *)
(* that is full, and gives the semaphore a sender waits on.  The loop      *)
(* task answers requests, the input task sends actions and starts the      *)
(* Escape task: all three take the send mutex and keep it until each       *)
(* report is confirmed.  pc says what a task does next.  The stack and the *)
(* host are external: a report may be refused at any time, one that is     *)
(* accepted is confirmed later, and the link may go at any time.           *)
(***************************************************************************)
EXTENDS Integers, Sequences, FiniteSets

CONSTANTS
    Nobody,      \* no holder of the mutex
    QueueSize,   \* event_task_args.queue_size
    MaxUnread,   \* bound: writes of the host the loop task has not taken
    MaxReports   \* bound: reports of one message

ASSUME ReportAssumption ==
    /\ Nobody \notin {"loop", "input", "escape"}
    /\ QueueSize \in Nat \ {0}
    /\ MaxUnread \in Nat
    /\ MaxReports \in Nat \ {0}

VARIABLES
    pc,             \* what each sender does next
    inbox,          \* events the Bluetooth task has still to deliver
    claimed,        \* dev->connected
    hidEvents,      \* the queue of the HID event loop
    connected,      \* s_connected
    sendMutex,      \* who holds s_send_mutex
    sem,            \* dev->sem
    left,           \* reports of a message still to be sent
    escapePending,  \* s_cancel_escape_pending
    step,           \* index into the cancel sequence
    link,           \* external: the host is connected
    unconfirmed,    \* external: a report the stack has not confirmed
    escapeDown,     \* history: the host sees Escape held down
    refusedTwice    \* history: a release was refused twice on this link

btVars == <<inbox, claimed, hidEvents>>
sendVars == <<sendMutex, sem, left>>
escapeVars == <<escapePending, step, refusedTwice>>
hostVars == <<link, unconfirmed, escapeDown>>
vars == <<pc, btVars, connected, sendVars, escapeVars, hostVars>>

Messenger == {"loop", "input"}
Sender == Messenger \cup {"escape"}
Event == {"WRITE", "LOST", "CONF"}
HidEvent == {"CONNECT", "OUTPUT", "DISCONNECT"}
Pc == {"idle", "create", "begin", "clear", "lock", "send", "retry", "await",
       "end"}

TypeOK ==
    /\ pc \in [Sender -> Pc]
    /\ inbox \in Seq(Event)
    /\ claimed \in BOOLEAN
    /\ hidEvents \in Seq(HidEvent)
    /\ Len(hidEvents) <= QueueSize
    /\ connected \in BOOLEAN
    /\ sendMutex \in Sender \cup {Nobody}
    /\ sem \in BOOLEAN
    /\ left \in [Messenger -> 0 .. MaxReports]
    /\ escapePending \in BOOLEAN
    /\ step \in 0 .. 3
    /\ link \in BOOLEAN
    /\ unconfirmed \in BOOLEAN
    /\ escapeDown \in BOOLEAN
    /\ refusedTwice \in BOOLEAN

Init ==
    /\ pc = [t \in Sender |-> "idle"]
    /\ inbox = <<>>
    /\ claimed = FALSE
    /\ hidEvents = <<>>
    /\ connected = FALSE
    /\ sendMutex = Nobody
    /\ sem = FALSE
    /\ left = [t \in Messenger |-> 0]
    /\ escapePending = FALSE
    /\ step = 0
    /\ link = FALSE
    /\ unconfirmed = FALSE
    /\ escapeDown = FALSE
    /\ refusedTwice = FALSE

Goes(t, from, to) == pc[t] = from /\ pc' = [pc EXCEPT ![t] = to]

-----------------------------------------------------------------------------
(* The host and the stack.                                                 *)

Unread ==
    Cardinality({i \in DOMAIN inbox : inbox[i] = "WRITE"})
      + Cardinality({i \in DOMAIN hidEvents : hidEvents[i] = "OUTPUT"})

(* A connection takes far longer than a message: when the host comes back   *)
(* nothing is on the air, and the loop task has taken the loss of its link. *)
LinkUp ==
    /\ ~ link
    /\ ~ claimed
    /\ inbox = <<>>
    /\ ~ unconfirmed
    /\ \A i \in DOMAIN hidEvents : hidEvents[i] # "DISCONNECT"
    /\ link' = TRUE
    /\ UNCHANGED <<pc, btVars, connected, sendVars, escapeVars, unconfirmed,
                   escapeDown>>

LinkDown ==
    /\ link
    /\ link' = FALSE
    /\ inbox' = Append(inbox, "LOST")
    /\ escapeDown' = FALSE
    /\ UNCHANGED <<pc, claimed, hidEvents, connected, sendVars, escapeVars,
                   unconfirmed>>

(* A fragment of a request, written to the vendor output report. *)
HostWrites ==
    /\ link
    /\ Unread < MaxUnread
    /\ inbox' = Append(inbox, "WRITE")
    /\ UNCHANGED <<pc, claimed, hidEvents, connected, sendVars, escapeVars,
                   hostVars>>

(* Every accepted report is confirmed once, also when the link is gone. *)
StackConfirms ==
    /\ unconfirmed
    /\ unconfirmed' = FALSE
    /\ inbox' = Append(inbox, "CONF")
    /\ UNCHANGED <<pc, claimed, hidEvents, connected, sendVars, escapeVars,
                   link, escapeDown>>

-----------------------------------------------------------------------------
(* The Bluetooth task, in hid_event_handler of ble_hidd.c.                 *)

Delivers(event) == inbox # <<>> /\ Head(inbox) = event

(* esp_event_post_to with portMAX_DELAY: waits for room. *)
Post(event) ==
    /\ Len(hidEvents) < QueueSize
    /\ hidEvents' = Append(hidEvents, event)

(* claim_hid_host, in front of the handling of the write. *)
Claim ==
    /\ Delivers("WRITE")
    /\ ~ claimed
    /\ claimed' = TRUE
    /\ Post("CONNECT")
    /\ UNCHANGED <<pc, inbox, connected, sendVars, escapeVars, hostVars>>

DeliverWrite ==
    /\ Delivers("WRITE")
    /\ claimed
    /\ Post("OUTPUT")
    /\ inbox' = Tail(inbox)
    /\ UNCHANGED <<pc, claimed, connected, sendVars, escapeVars, hostVars>>

DeliverLost ==
    /\ Delivers("LOST")
    /\ \/ claimed /\ claimed' = FALSE /\ Post("DISCONNECT")
       \/ ~ claimed /\ UNCHANGED <<claimed, hidEvents>>
    /\ inbox' = Tail(inbox)
    /\ UNCHANGED <<pc, connected, sendVars, escapeVars, hostVars>>

DeliverConf ==
    /\ Delivers("CONF")
    /\ sem' = TRUE
    /\ inbox' = Tail(inbox)
    /\ UNCHANGED <<pc, claimed, hidEvents, connected, sendMutex, left,
                   escapeVars, hostVars>>

-----------------------------------------------------------------------------
(* send_reports, and esp_ble_hidd_dev_input_set below it.                  *)

(* send_json and send_reports look at the link before they wait. *)
BeginMessage(t) ==
    /\ connected
    /\ \E n \in 1 .. MaxReports : left' = [left EXCEPT ![t] = n]

TakeMutex_Nested(t) ==
    /\ Goes(t, "lock", "send")
    /\ sendMutex' = t
    /\ UNCHANGED <<btVars, connected, sem, left, escapeVars, hostVars>>

TakeMutex(t) ==
    /\ Goes(t, "lock", "send")
    /\ sendMutex = Nobody
    /\ sendMutex' = t
    /\ UNCHANGED <<btVars, connected, sem, left, escapeVars, hostVars>>

(* esp_ble_gatts_send_indicate accepts the report: WAIT_CB comes next.  The *)
(* battery level is an application of its own, whose confirmations never    *)
(* reach the semaphore (bat_event_handler).                                 *)
Transmit ==
    /\ claimed
    /\ unconfirmed' = TRUE

SendReport_KeepsMutex(t) ==
    /\ \/ Goes(t, "send", "await") /\ Transmit
       \/ Goes(t, "send", "idle") /\ UNCHANGED unconfirmed
    /\ UNCHANGED <<btVars, connected, sendVars, escapeVars, link, escapeDown>>

SendReport(t) ==
    /\ \/ /\ Goes(t, "send", "await")
          /\ Transmit
          /\ UNCHANGED sendMutex
       \/ /\ Goes(t, "send", "idle")
          /\ sendMutex' = Nobody
          /\ UNCHANGED unconfirmed
    /\ UNCHANGED <<btVars, connected, sem, left, escapeVars, link, escapeDown>>

(* WAIT_CB, then the next report of the message or the end. *)
ReportSent(t) ==
    /\ Goes(t, "await", IF left[t] > 1 THEN "send" ELSE "idle")
    /\ sem
    /\ sem' = FALSE
    /\ left' = [left EXCEPT ![t] = @ - 1]
    /\ sendMutex' = IF left[t] > 1 THEN t ELSE Nobody
    /\ UNCHANGED <<btVars, connected, escapeVars, hostVars>>

-----------------------------------------------------------------------------
(* The loop task: hid_event_handler of codex_ble_espidf.c.                 *)

Takes(event, to) ==
    /\ Goes("loop", "idle", to)
    /\ hidEvents # <<>>
    /\ Head(hidEvents) = event
    /\ hidEvents' = Tail(hidEvents)

HidConnect ==
    /\ Takes("CONNECT", "idle")
    /\ connected' = TRUE
    /\ UNCHANGED <<inbox, claimed, sendVars, escapeVars, hostVars>>

(* codex_control_receive_report: an incomplete request, or the end of one,  *)
(* which is answered.                                                       *)
HidOutput ==
    /\ \/ Takes("OUTPUT", "idle") /\ UNCHANGED left
       \/ Takes("OUTPUT", "lock") /\ BeginMessage("loop")
    /\ UNCHANGED <<inbox, claimed, connected, sendMutex, sem, escapeVars,
                   hostVars>>

HidDisconnect ==
    /\ Takes("DISCONNECT", "clear")
    /\ connected' = FALSE
    /\ UNCHANGED <<inbox, claimed, sendVars, escapeVars, hostVars>>

(* handle_codex_event: the action tracker is cleared when the action the    *)
(* input task is sending is done.                                           *)
ClearTracker ==
    /\ Goes("loop", "clear", "idle")
    /\ pc["input"] \notin {"lock", "send", "await"}
    /\ UNCHANGED <<btVars, connected, sendVars, escapeVars, hostVars>>

-----------------------------------------------------------------------------
(* The input task.                                                         *)

SendAction ==
    /\ Goes("input", "idle", "lock")
    /\ BeginMessage("input")
    /\ UNCHANGED <<btVars, connected, sendMutex, sem, escapeVars, hostVars>>

(* codex_ble_espidf_send_cancel_escape: one at a time. *)
SendCancelEscape ==
    /\ connected
    /\ ~ escapePending
    /\ Goes("input", "idle", "create")
    /\ escapePending' = TRUE
    /\ UNCHANGED <<btVars, connected, sendVars, step, refusedTwice, hostVars>>

CreateEscapeTask ==
    /\ pc["input"] = "create"
    /\ \/ /\ pc' = [pc EXCEPT !["input"] = "idle", !["escape"] = "begin"]
          /\ UNCHANGED escapePending
       \/ /\ pc' = [pc EXCEPT !["input"] = "idle"]
          /\ escapePending' = FALSE
    /\ UNCHANGED <<btVars, connected, sendVars, step, refusedTwice, hostVars>>

-----------------------------------------------------------------------------
(* The Escape task: press, release, press, release under one mutex.        *)

Release == step \in {1, 3}

EscapeBegin ==
    /\ Goes("escape", "begin", IF connected THEN "lock" ELSE "end")
    /\ step' = 0
    /\ UNCHANGED <<btVars, connected, sendVars, escapePending, refusedTwice,
                   hostVars>>

EscapeSend ==
    /\ \/ Goes("escape", "send", "await")
       \/ Goes("escape", "retry", "await")
    /\ Transmit
    /\ escapeDown' = (link /\ ~ Release)
    /\ refusedTwice' = FALSE
    /\ UNCHANGED <<btVars, connected, sendVars, escapePending, step, link>>

(* A refused release is tried once more; anything else ends the sequence. *)
EscapeRefused_Once ==
    /\ Goes("escape", "send", "end")
    /\ sendMutex' = Nobody
    /\ UNCHANGED <<btVars, connected, sem, left, escapeVars, hostVars>>

EscapeRefused ==
    /\ \/ /\ Release
          /\ Goes("escape", "send", "retry")
          /\ UNCHANGED <<sendMutex, refusedTwice>>
       \/ /\ \/ ~ Release /\ Goes("escape", "send", "end")
             \/ Goes("escape", "retry", "end")
          /\ sendMutex' = Nobody
          /\ refusedTwice' = (refusedTwice \/ Release)
    /\ UNCHANGED <<btVars, connected, sem, left, escapePending, step, hostVars>>

EscapeSent ==
    /\ sem
    /\ sem' = FALSE
    /\ \/ /\ step < 3
          /\ Goes("escape", "await", "send")
          /\ step' = step + 1
          /\ UNCHANGED sendMutex
       \/ /\ step = 3
          /\ Goes("escape", "await", "end")
          /\ sendMutex' = Nobody
          /\ UNCHANGED step
    /\ UNCHANGED <<btVars, connected, left, escapePending, refusedTwice,
                   hostVars>>

EscapeEnd ==
    /\ Goes("escape", "end", "idle")
    /\ escapePending' = FALSE
    /\ UNCHANGED <<btVars, connected, sendVars, step, refusedTwice, hostVars>>

-----------------------------------------------------------------------------
Bluetooth == Claim \/ DeliverWrite \/ DeliverLost \/ DeliverConf

Loop ==
    \/ HidConnect \/ HidOutput \/ HidDisconnect \/ ClearTracker
    \/ SendReport("loop") \/ ReportSent("loop")

Input == CreateEscapeTask \/ SendReport("input") \/ ReportSent("input")

Escape ==
    EscapeBegin \/ EscapeSend \/ EscapeRefused \/ EscapeSent \/ EscapeEnd

Next ==
    \/ Bluetooth \/ Loop \/ Input \/ Escape
    \/ \E t \in Sender : TakeMutex(t)
    \/ SendAction \/ SendCancelEscape
    \/ LinkUp \/ LinkDown \/ HostWrites \/ StackConfirms

Spec == Init /\ [][Next]_vars

(* The tasks run, the stack confirms, and a mutex that is released again    *)
(* and again is given to everyone who waits for it.                         *)
FairSpec ==
    /\ Spec
    /\ WF_vars(Bluetooth)
    /\ WF_vars(Loop)
    /\ WF_vars(Input)
    /\ WF_vars(Escape)
    /\ WF_vars(StackConfirms)
    /\ \A t \in Sender : SF_vars(TakeMutex(t))

-----------------------------------------------------------------------------
(* Properties.                                                             *)

Awaiting == {t \in Sender : pc[t] = "await"}

Confirmations ==
    Cardinality({i \in DOMAIN inbox : inbox[i] = "CONF"})
      + (IF unconfirmed THEN 1 ELSE 0) + (IF sem THEN 1 ELSE 0)

(* There is one semaphore for all reports: at any time there is exactly one *)
(* confirmation on its way for the one sender that waits, so no wait is     *)
(* ended by the confirmation of another report, and none is left behind     *)
(* for the next (esp_ble_hidd_dev_input_set, under s_send_mutex).           *)
ConfirmationIsOwn == Cardinality(Awaiting) = Confirmations /\ Confirmations <= 1

(* A finished sequence leaves Escape held at the host only when a release   *)
(* was refused twice on a link that is still up (send_cancel_escape_now).   *)
EscapeIsReleased ==
    pc["escape"] = "idle" /\ escapeDown => refusedTwice

(* docs/PROTOCOLS.md: "BLE disconnect clears pressed state": a link that is *)
(* gone does not stay connected for ever.                                   *)
DisconnectIsHandled == (connected /\ ~ link) ~> ~ connected
=============================================================================
