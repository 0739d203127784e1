--------------------------- MODULE BleReports_proof ---------------------------
(***************************************************************************)
(* Proofs about BleReports, for every queue size and every bound: type     *)
(* correctness, that a sender only ever gets its own confirmation, and     *)
(* that the Escape task does not leave the key down unless it was refused. *)
(***************************************************************************)
EXTENDS BleReports, FiniteSetTheorems, TLAPS

(* A message that is being sent has a report left. *)
LeftInv ==
    \A t \in Messenger : pc[t] \in {"lock", "send", "await"} => left[t] >= 1

(* The mutex is held exactly between taking it and the end of a message. *)
MutexInv ==
    \A t \in Sender : pc[t] \in {"send", "retry", "await"} <=> sendMutex = t

(* Of a report that is not confirmed yet, of a confirmation that is not     *)
(* delivered and of one nobody has taken there is at most one together, and *)
(* somebody waits for it.                                                   *)
Arriving == \E i \in DOMAIN inbox : inbox[i] = "CONF"

ConfirmationInv ==
    /\ \A i, j \in DOMAIN inbox : inbox[i] = "CONF" /\ inbox[j] = "CONF" => i = j
    /\ Arriving => ~ unconfirmed /\ ~ sem
    /\ unconfirmed => ~ sem
    /\ (\E t \in Sender : pc[t] = "await") <=> Arriving \/ unconfirmed \/ sem

(* Escape is down only after a press whose release is still to be tried. *)
EscapeInv ==
    escapeDown =>
        \/ refusedTwice
        \/ pc["escape"] \in {"send", "retry"} /\ Release
        \/ pc["escape"] = "await" /\ ~ Release

(* There is one Escape task at a time. *)
SingleInv ==
    /\ pc["input"] = "create" => escapePending /\ pc["escape"] = "idle"
    /\ pc["escape"] # "idle" => escapePending

ReportInv ==
    /\ TypeOK
    /\ LeftInv
    /\ MutexInv
    /\ SingleInv
    /\ ConfirmationInv
    /\ EscapeInv

-----------------------------------------------------------------------------
LEMMA Moves ==
    ASSUME TypeOK, NEW t \in Sender, NEW from, NEW to \in Pc, Goes(t, from, to)
    PROVE  /\ pc[t] = from
           /\ pc' \in [Sender -> Pc]
           /\ pc'[t] = to
           /\ \A u \in Sender : u # t => pc'[u] = pc[u]
BY DEF TypeOK, Goes

(* Appending and removing an event, seen from the confirmations.           *)
LEMMA Appended ==
    ASSUME TypeOK, NEW event \in Event, inbox' = Append(inbox, event)
    PROVE  /\ inbox' \in Seq(Event)
           /\ \A i \in DOMAIN inbox : i \in DOMAIN inbox' /\ inbox'[i] = inbox[i]
           /\ Len(inbox) + 1 \in DOMAIN inbox'
           /\ inbox'[Len(inbox) + 1] = event
           /\ \A i \in DOMAIN inbox' : i \in DOMAIN inbox \/ i = Len(inbox) + 1
BY DEF TypeOK

LEMMA Delivered ==
    ASSUME TypeOK, inbox # <<>>, inbox' = Tail(inbox)
    PROVE  /\ inbox' \in Seq(Event)
           /\ \A i \in DOMAIN inbox' :
                  i \in Int /\ i + 1 \in DOMAIN inbox /\ inbox'[i] = inbox[i + 1]
           /\ \A i \in DOMAIN inbox :
                  i = 1 \/ (i - 1 \in DOMAIN inbox' /\ inbox'[i - 1] = inbox[i])
           /\ 1 \in DOMAIN inbox /\ Head(inbox) = inbox[1]
BY DEF TypeOK

LEMMA SenderNames ==
    /\ Messenger \subseteq Sender
    /\ "loop" \in Messenger /\ "input" \in Messenger
    /\ "escape" \in Sender /\ "escape" \notin Messenger
    /\ Nobody \notin Sender
BY ReportAssumption DEF Messenger, Sender

-----------------------------------------------------------------------------
LEMMA TypeStep ==
    ASSUME ReportInv, [Next]_vars
    PROVE  TypeOK'
<1> USE DEF ReportInv
<1>1. \A event \in Event : inbox' = Append(inbox, event) => inbox' \in Seq(Event)
    BY Appended
<1>2. inbox # <<>> /\ inbox' = Tail(inbox) => inbox' \in Seq(Event)
    BY Delivered
<1>3. ASSUME NEW event \in HidEvent, Post(event)
      PROVE  hidEvents' \in Seq(HidEvent) /\ Len(hidEvents') <= QueueSize
    BY <1>3, ReportAssumption DEF Post, TypeOK
<1>4. ASSUME NEW event, NEW to, Takes(event, to)
      PROVE  hidEvents' \in Seq(HidEvent) /\ Len(hidEvents') <= QueueSize
    BY <1>4, ReportAssumption DEF Takes, TypeOK
<1>5. ASSUME NEW t \in Messenger, BeginMessage(t)
      PROVE  left' \in [Messenger -> 0 .. MaxReports]
    BY <1>5, ReportAssumption DEF BeginMessage, TypeOK
<1>6. ASSUME NEW t \in Sender, NEW from, NEW to \in Pc, Goes(t, from, to)
      PROVE  pc' \in [Sender -> Pc]
    BY <1>6, Moves
<1>7. {"loop", "input"} \subseteq Messenger /\ Messenger \subseteq Sender
      /\ "escape" \in Sender
    BY SenderNames
<1>8. CASE LinkUp \/ LinkDown \/ HostWrites \/ StackConfirms
    BY <1>1, <1>8 DEF LinkUp, LinkDown, HostWrites, StackConfirms, TypeOK, Event,
       btVars, sendVars, escapeVars, hostVars
<1>9. CASE Claim \/ DeliverWrite \/ DeliverLost \/ DeliverConf
    BY <1>2, <1>3, <1>9 DEF Claim, DeliverWrite, DeliverLost, DeliverConf,
       Delivers, TypeOK, HidEvent, sendVars, escapeVars, hostVars
<1>10. ASSUME NEW t \in Sender, TakeMutex(t) PROVE TypeOK'
    BY <1>6, <1>10 DEF TakeMutex, TypeOK, Pc, btVars, escapeVars, hostVars
<1>11. ASSUME NEW t \in Messenger, SendReport(t) PROVE TypeOK'
    BY <1>6, <1>7, <1>11 DEF SendReport, Transmit, TypeOK, Pc, btVars, escapeVars
<1>12. ASSUME NEW t \in Messenger, ReportSent(t) PROVE TypeOK'
    <2>1. pc[t] = "await" /\ t \in Sender
        BY <1>7, <1>12 DEF ReportSent, Goes
    <2>2. left' \in [Messenger -> 0 .. MaxReports]
        BY <1>12, <2>1, ReportAssumption DEF ReportSent, LeftInv, TypeOK
    <2>3. pc' \in [Sender -> Pc]
        BY <1>6, <1>12, <2>1 DEF ReportSent, Pc
    <2>4. sendMutex' \in Sender \cup {Nobody}
        BY <1>12, <2>1 DEF ReportSent
    <2> QED BY <1>12, <2>2, <2>3, <2>4 DEF ReportSent, TypeOK, btVars, escapeVars,
               hostVars
<1>13. CASE HidConnect \/ HidOutput \/ HidDisconnect
    <2>1. pc' \in [Sender -> Pc]
        BY <1>6, <1>7, <1>13 DEF HidConnect, HidOutput, HidDisconnect, Takes, Pc
    <2>2. hidEvents' \in Seq(HidEvent) /\ Len(hidEvents') <= QueueSize
        BY <1>4, <1>13 DEF HidConnect, HidOutput, HidDisconnect
    <2>3. left' \in [Messenger -> 0 .. MaxReports]
        BY <1>5, <1>7, <1>13 DEF HidConnect, HidOutput, HidDisconnect, sendVars,
           TypeOK
    <2> QED BY <1>13, <2>1, <2>2, <2>3 DEF HidConnect, HidOutput, HidDisconnect,
               TypeOK, sendVars, escapeVars, hostVars
<1>14. CASE ClearTracker
    BY <1>6, <1>7, <1>14 DEF ClearTracker, TypeOK, Pc, btVars, sendVars,
       escapeVars, hostVars
<1>15. CASE SendAction
    <2>1. pc' \in [Sender -> Pc]
        BY <1>6, <1>7, <1>15 DEF SendAction, Pc
    <2>2. left' \in [Messenger -> 0 .. MaxReports]
        BY <1>5, <1>7, <1>15 DEF SendAction
    <2> QED BY <1>15, <2>1, <2>2 DEF SendAction, TypeOK, btVars, escapeVars,
               hostVars
<1>16. CASE SendCancelEscape
    BY <1>6, <1>7, <1>16 DEF SendCancelEscape, TypeOK, Pc, btVars, sendVars,
       hostVars
<1>17. CASE CreateEscapeTask
    BY <1>7, <1>17 DEF CreateEscapeTask, TypeOK, Pc, btVars, sendVars, hostVars
<1>18. CASE EscapeBegin
    BY <1>6, <1>7, <1>18 DEF EscapeBegin, TypeOK, Pc, btVars, sendVars, hostVars
<1>19. CASE EscapeSend
    <2>1. escapeDown' \in BOOLEAN
        <3>1. escapeDown' = (link /\ ~ Release)
            BY <1>19 DEF EscapeSend
        <3> QED BY <3>1
    <2>2. pc' \in [Sender -> Pc]
        BY <1>6, <1>7, <1>19 DEF EscapeSend, Pc
    <2>3. /\ unconfirmed' = TRUE /\ refusedTwice' = FALSE
          /\ UNCHANGED <<inbox, claimed, hidEvents, connected, sendMutex, sem,
                         left, escapePending, step, link>>
        BY <1>19 DEF EscapeSend, Transmit, btVars, sendVars
    <2> QED BY <2>1, <2>2, <2>3 DEF TypeOK
<1>20. CASE EscapeRefused
    BY <1>6, <1>7, <1>20 DEF EscapeRefused, Release, TypeOK, Pc, btVars,
       escapeVars, hostVars
<1>21. CASE EscapeSent
    <2>1. pc' \in [Sender -> Pc]
        BY <1>6, <1>7, <1>21 DEF EscapeSent, Pc
    <2>2. step' \in 0 .. 3 /\ sendMutex' \in Sender \cup {Nobody}
        BY <1>21 DEF EscapeSent, TypeOK
    <2> QED BY <1>21, <2>1, <2>2 DEF EscapeSent, TypeOK, btVars, hostVars
<1>22. CASE EscapeEnd
    BY <1>6, <1>7, <1>22 DEF EscapeEnd, TypeOK, Pc, btVars, sendVars, hostVars
<1>23. CASE UNCHANGED vars
    BY <1>23 DEF vars, TypeOK, btVars, sendVars, escapeVars, hostVars
<1> QED
    BY <1>7, <1>8, <1>9, <1>10, <1>11, <1>12, <1>13, <1>14, <1>15, <1>16, <1>17,
       <1>18, <1>19, <1>20, <1>21, <1>22, <1>23
       DEF Next, Bluetooth, Loop, Input, Escape

-----------------------------------------------------------------------------
LEMMA LeftStep ==
    ASSUME ReportInv, [Next]_vars
    PROVE  LeftInv'
<1> USE SenderNames DEF ReportInv
<1> DEFINE Sending == {"lock", "send", "await"}
<1>1. ASSUME NEW t \in Sender, NEW from, NEW to \in Pc, Goes(t, from, to),
             UNCHANGED left,
             t \in Messenger /\ to \in Sending => from \in Sending
      PROVE  LeftInv'
    BY <1>1, Moves DEF LeftInv
<1>2. ASSUME NEW t \in Messenger, NEW to \in Pc, Goes(t, "idle", to),
             BeginMessage(t)
      PROVE  LeftInv'
    BY <1>2, Moves DEF LeftInv, BeginMessage, TypeOK
<1>3. ASSUME UNCHANGED <<pc, left>> PROVE LeftInv'
    BY <1>3 DEF LeftInv
<1>4. CASE Bluetooth \/ LinkUp \/ LinkDown \/ HostWrites \/ StackConfirms
               \/ UNCHANGED vars
    BY <1>3, <1>4 DEF Bluetooth, Claim, DeliverWrite, DeliverLost, DeliverConf,
       LinkUp, LinkDown, HostWrites, StackConfirms, vars, sendVars
<1>5. ASSUME NEW t \in Sender, TakeMutex(t) PROVE LeftInv'
    BY <1>1, <1>5 DEF TakeMutex, Pc
<1>6. ASSUME NEW t \in Messenger, SendReport(t) PROVE LeftInv'
    BY <1>1, <1>6 DEF SendReport, Pc, sendVars
<1>7. ASSUME NEW t \in Messenger, ReportSent(t) PROVE LeftInv'
    <2> DEFINE to == IF left[t] > 1 THEN "send" ELSE "idle"
    <2>1. Goes(t, "await", to) /\ left' = [left EXCEPT ![t] = @ - 1]
        BY <1>7 DEF ReportSent
    <2>2. to \in Pc
        BY DEF Pc
    <2>3. left[t] \in Int /\ left'[t] = left[t] - 1
          /\ \A u \in Messenger : u # t => left'[u] = left[u]
        BY <2>1 DEF TypeOK
    <2>4. pc'[t] = to /\ \A u \in Sender : u # t => pc'[u] = pc[u]
        BY <2>1, <2>2, Moves
    <2>5. ASSUME NEW u \in Messenger, pc'[u] \in Sending PROVE left'[u] >= 1
        <3>1. CASE u = t
            BY <2>3, <2>4, <2>5, <3>1
        <3>2. CASE u # t
            BY <2>3, <2>4, <2>5, <3>2 DEF LeftInv
        <3> QED BY <3>1, <3>2
    <2> QED BY <2>5 DEF LeftInv
<1>8. CASE HidConnect \/ HidOutput \/ HidDisconnect \/ ClearTracker
    BY <1>1, <1>2, <1>8 DEF HidConnect, HidOutput, HidDisconnect, ClearTracker,
       Takes, Pc, sendVars
<1>9. CASE SendAction \/ SendCancelEscape
    BY <1>1, <1>2, <1>9 DEF SendAction, SendCancelEscape, Pc, sendVars
<1>10. CASE CreateEscapeTask
    BY <1>10 DEF CreateEscapeTask, TypeOK, LeftInv, sendVars
<1>11. CASE Escape
    BY <1>1, <1>11 DEF Escape, EscapeBegin, EscapeSend, EscapeRefused, EscapeSent,
       EscapeEnd, Pc, sendVars
<1> QED
    BY <1>4, <1>5, <1>6, <1>7, <1>8, <1>9, <1>10, <1>11 DEF Next, Loop, Input

-----------------------------------------------------------------------------
LEMMA MutexStep ==
    ASSUME ReportInv, [Next]_vars
    PROVE  MutexInv'
<1> USE SenderNames DEF ReportInv
<1> DEFINE Holding == {"send", "retry", "await"}
<1>1. ASSUME NEW t \in Sender, NEW from, NEW to \in Pc, Goes(t, from, to),
             UNCHANGED sendMutex, from \in Holding <=> to \in Holding
      PROVE  MutexInv'
    BY <1>1, Moves DEF MutexInv
<1>2. ASSUME NEW t \in Sender, NEW from \in Holding, NEW to \in Pc \ Holding,
             Goes(t, from, to), sendMutex' = Nobody
      PROVE  MutexInv'
    BY <1>2, Moves DEF MutexInv
<1>3. ASSUME UNCHANGED <<pc, sendMutex>> PROVE MutexInv'
    BY <1>3 DEF MutexInv
<1>4. CASE Bluetooth \/ LinkUp \/ LinkDown \/ HostWrites \/ StackConfirms
               \/ UNCHANGED vars
    BY <1>3, <1>4 DEF Bluetooth, Claim, DeliverWrite, DeliverLost, DeliverConf,
       LinkUp, LinkDown, HostWrites, StackConfirms, vars, sendVars
<1>5. ASSUME NEW t \in Sender, TakeMutex(t) PROVE MutexInv'
    <2>1. /\ pc'[t] = "send" /\ \A u \in Sender : u # t => pc'[u] = pc[u]
          /\ sendMutex = Nobody /\ sendMutex' = t
        BY <1>5, Moves DEF TakeMutex, Pc
    <2> QED BY <2>1 DEF MutexInv
<1>6. ASSUME NEW t \in Messenger, SendReport(t) PROVE MutexInv'
    BY <1>1, <1>2, <1>6 DEF SendReport, Pc
<1>7. ASSUME NEW t \in Messenger, ReportSent(t) PROVE MutexInv'
    <2>1. sendMutex = t
        BY <1>7 DEF ReportSent, Goes, MutexInv
    <2>2. CASE left[t] > 1
        BY <1>1, <1>7, <2>1, <2>2 DEF ReportSent, Pc
    <2>3. CASE ~ (left[t] > 1)
        BY <1>2, <1>7, <2>3 DEF ReportSent, Pc
    <2> QED BY <2>2, <2>3
<1>8. CASE HidConnect \/ HidOutput \/ HidDisconnect \/ ClearTracker
    BY <1>1, <1>8 DEF HidConnect, HidOutput, HidDisconnect, ClearTracker,
       Takes, Pc, sendVars
<1>9. CASE SendAction \/ SendCancelEscape
    BY <1>1, <1>9 DEF SendAction, SendCancelEscape, Pc, sendVars
<1>10. CASE CreateEscapeTask
    <2>1. pc["input"] = "create" /\ pc["escape"] = "idle"
        BY <1>10 DEF CreateEscapeTask, SingleInv
    <2> QED BY <1>10, <2>1 DEF CreateEscapeTask, TypeOK, MutexInv, sendVars
<1>11. CASE EscapeBegin \/ EscapeEnd
    BY <1>1, <1>11 DEF EscapeBegin, EscapeEnd, Pc, sendVars
<1>12. CASE EscapeSend \/ EscapeRefused \/ EscapeSent
    BY <1>1, <1>2, <1>12 DEF EscapeSend, EscapeRefused, EscapeSent, Pc, sendVars
<1> QED
    BY <1>4, <1>5, <1>6, <1>7, <1>8, <1>9, <1>10, <1>11, <1>12
       DEF Next, Loop, Input, Escape

LEMMA SingleStep ==
    ASSUME ReportInv, [Next]_vars
    PROVE  SingleInv'
<1> USE SenderNames DEF ReportInv
<1>1. ASSUME NEW t \in Sender, NEW from, NEW to \in Pc, Goes(t, from, to),
             UNCHANGED escapePending, from # "idle" \/ t # "escape",
             to # "create"
      PROVE  SingleInv'
    BY <1>1, Moves DEF SingleInv
<1>2. ASSUME UNCHANGED <<pc, escapePending>> PROVE SingleInv'
    BY <1>2 DEF SingleInv
<1>3. CASE Bluetooth \/ LinkUp \/ LinkDown \/ HostWrites \/ StackConfirms
               \/ UNCHANGED vars
    BY <1>2, <1>3 DEF Bluetooth, Claim, DeliverWrite, DeliverLost, DeliverConf,
       LinkUp, LinkDown, HostWrites, StackConfirms, vars, escapeVars
<1>4. ASSUME NEW t \in Sender, TakeMutex(t) PROVE SingleInv'
    BY <1>1, <1>4 DEF TakeMutex, Pc, escapeVars
<1>5. ASSUME NEW t \in Messenger, SendReport(t) \/ ReportSent(t) PROVE SingleInv'
    BY <1>1, <1>5 DEF SendReport, ReportSent, Pc, escapeVars
<1>6. CASE HidConnect \/ HidOutput \/ HidDisconnect \/ ClearTracker \/ SendAction
    BY <1>1, <1>6 DEF HidConnect, HidOutput, HidDisconnect, ClearTracker,
       SendAction, Takes, Pc, escapeVars
<1>7. CASE SendCancelEscape
    BY <1>7, Moves DEF SendCancelEscape, SingleInv, Pc
<1>8. CASE CreateEscapeTask
    BY <1>8 DEF CreateEscapeTask, SingleInv, TypeOK
<1>9. CASE EscapeBegin \/ EscapeSend \/ EscapeRefused \/ EscapeSent
    BY <1>1, <1>9 DEF EscapeBegin, EscapeSend, EscapeRefused, EscapeSent, Pc,
       escapeVars
<1>10. CASE EscapeEnd
    <2>1. pc["escape"] = "end" /\ pc'["escape"] = "idle"
          /\ pc'["input"] = pc["input"]
        BY <1>10, Moves DEF EscapeEnd, Pc
    <2> QED BY <2>1 DEF SingleInv
<1> QED
    BY <1>3, <1>4, <1>5, <1>6, <1>7, <1>8, <1>9, <1>10
       DEF Next, Loop, Input, Escape

-----------------------------------------------------------------------------
(* Escape at the host.                                                     *)

LEMMA EscapeStep ==
    ASSUME ReportInv, [Next]_vars
    PROVE  EscapeInv'
<1> USE SenderNames DEF ReportInv
<1>1. ASSUME NEW t \in Messenger, NEW from, NEW to \in Pc, Goes(t, from, to),
             UNCHANGED <<escapeDown, refusedTwice, step>>
      PROVE  EscapeInv'
    BY <1>1, Moves DEF EscapeInv, Release
<1>2. ASSUME NEW from, NEW to \in Pc, Goes("escape", from, to),
             UNCHANGED <<escapeDown, refusedTwice>>,
             from \notin {"send", "retry", "await"}
      PROVE  EscapeInv'
    BY <1>2, Moves DEF EscapeInv, Release
<1>3. ASSUME UNCHANGED <<pc, refusedTwice, step>>,
             escapeDown' => escapeDown
      PROVE  EscapeInv'
    BY <1>3 DEF EscapeInv, Release
<1>4. CASE Bluetooth \/ LinkUp \/ LinkDown \/ HostWrites \/ StackConfirms
               \/ UNCHANGED vars
    BY <1>3, <1>4 DEF Bluetooth, Claim, DeliverWrite, DeliverLost, DeliverConf,
       LinkUp, LinkDown, HostWrites, StackConfirms, vars, escapeVars, hostVars
<1>5. ASSUME NEW t \in Sender, TakeMutex(t) PROVE EscapeInv'
    <2>1. t \in Messenger \/ t = "escape"
        BY DEF Sender
    <2> QED BY <1>1, <1>2, <1>5, <2>1 DEF TakeMutex, Pc, escapeVars, hostVars
<1>6. ASSUME NEW t \in Messenger, SendReport(t) \/ ReportSent(t) PROVE EscapeInv'
    BY <1>1, <1>6 DEF SendReport, ReportSent, Pc, escapeVars, hostVars
<1>7. CASE HidConnect \/ HidOutput \/ HidDisconnect \/ ClearTracker \/ SendAction
               \/ SendCancelEscape
    BY <1>1, <1>7 DEF HidConnect, HidOutput, HidDisconnect, ClearTracker,
       SendAction, SendCancelEscape, Takes, Pc, escapeVars, hostVars
<1>8. CASE CreateEscapeTask
    <2>1. pc["escape"] = "idle"
        BY <1>8 DEF CreateEscapeTask, SingleInv
    <2> QED BY <1>8, <2>1 DEF CreateEscapeTask, EscapeInv, hostVars
<1>9. CASE EscapeBegin \/ EscapeEnd
    BY <1>2, <1>9 DEF EscapeBegin, EscapeEnd, Pc, hostVars
<1>10. CASE EscapeSend
    <2>1. pc'["escape"] = "await" /\ step' = step
        BY <1>10, Moves DEF EscapeSend, Pc
    <2>2. escapeDown' => ~ Release
        <3>1. escapeDown' = (link /\ ~ Release)
            BY <1>10 DEF EscapeSend
        <3> QED BY <3>1
    <2> QED BY <2>1, <2>2 DEF EscapeInv, Release
<1>11. CASE EscapeRefused
    <2>1. CASE Release /\ Goes("escape", "send", "retry") /\ UNCHANGED refusedTwice
        BY <1>11, <2>1, Moves DEF EscapeRefused, EscapeInv, Release, Pc
    <2>2. CASE /\ \/ ~ Release /\ Goes("escape", "send", "end")
                  \/ Goes("escape", "retry", "end")
               /\ refusedTwice' = (refusedTwice \/ Release)
        <3>1. escapeDown => refusedTwice \/ Release
            BY <2>2 DEF EscapeInv, Goes
        <3>2. escapeDown' => refusedTwice'
            BY <1>11, <2>2, <3>1 DEF EscapeRefused, hostVars
        <3> QED BY <3>2 DEF EscapeInv
    <2> QED BY <1>11, <2>1, <2>2 DEF EscapeRefused
<1>12. CASE EscapeSent
    <2>1. pc["escape"] = "await" /\ UNCHANGED <<escapeDown, refusedTwice>>
        BY <1>12 DEF EscapeSent, Goes, hostVars
    <2>2. CASE step < 3
        <3>1. pc'["escape"] = "send" /\ step' = step + 1
            BY <1>12, <2>2, Moves DEF EscapeSent, Pc
        <3> QED BY <2>1, <2>2, <3>1 DEF EscapeInv, Release, TypeOK
    <2>3. CASE step = 3
        BY <2>1, <2>3 DEF EscapeInv, Release
    <2> QED BY <1>12, <2>2, <2>3 DEF EscapeSent
<1> QED
    BY <1>4, <1>5, <1>6, <1>7, <1>8, <1>9, <1>10, <1>11, <1>12
       DEF Next, Loop, Input, Escape

-----------------------------------------------------------------------------
(* Confirmations.                                                          *)

LEMMA ConfirmationStep ==
    ASSUME ReportInv, [Next]_vars
    PROVE  ConfirmationInv'
<1> USE SenderNames DEF ReportInv
<1>1. ASSUME UNCHANGED <<inbox, unconfirmed, sem>>,
             \A t \in Sender : pc'[t] = "await" <=> pc[t] = "await"
      PROVE  ConfirmationInv'
    BY <1>1 DEF ConfirmationInv, Arriving
<1>2. ASSUME NEW t \in Sender, NEW from, NEW to \in Pc, Goes(t, from, to),
             UNCHANGED <<inbox, unconfirmed, sem>>, from # "await", to # "await"
      PROVE  ConfirmationInv'
    BY <1>1, <1>2, Moves
<1>3. ASSUME NEW t \in Sender, NEW from \in {"send", "retry"},
             Goes(t, from, "await"), unconfirmed' = TRUE, UNCHANGED <<inbox, sem>>
      PROVE  ConfirmationInv'
    <2>1. pc[t] = from /\ pc'[t] = "await"
        BY <1>3, Moves DEF Pc
    <2>2. sendMutex = t
        BY <1>3, <2>1 DEF MutexInv
    <2>3. \A u \in Sender : pc[u] # "await"
        BY <1>3, <2>1, <2>2 DEF MutexInv
    <2>4. ~ Arriving /\ ~ sem
        BY <2>3 DEF ConfirmationInv
    <2>5. ~ Arriving' /\ ~ sem'
        BY <1>3, <2>4 DEF Arriving
    <2> QED BY <1>3, <2>1, <2>5 DEF ConfirmationInv, Arriving
<1>4. ASSUME NEW t \in Sender, NEW to \in Pc \ {"await"}, Goes(t, "await", to),
             sem, sem' = FALSE, UNCHANGED <<inbox, unconfirmed>>
      PROVE  ConfirmationInv'
    <2>1. /\ pc[t] = "await" /\ pc'[t] # "await"
          /\ \A u \in Sender : u # t => pc'[u] = pc[u]
        BY <1>4, Moves
    <2>2. \A u \in Sender : pc'[u] # "await"
        BY <1>4, <2>1 DEF MutexInv
    <2>3. ~ Arriving /\ ~ unconfirmed
        BY <1>4 DEF ConfirmationInv
    <2>4. ~ Arriving' /\ ~ unconfirmed'
        BY <1>4, <2>3 DEF Arriving
    <2> QED BY <1>4, <2>2, <2>4 DEF ConfirmationInv, Arriving
<1>5. ASSUME NEW event \in {"WRITE", "LOST"}, inbox' = Append(inbox, event),
             UNCHANGED <<pc, unconfirmed, sem>>
      PROVE  ConfirmationInv'
    <2>1. event \in Event /\ event # "CONF"
        BY DEF Event
    <2>2. /\ Arriving' <=> Arriving
          /\ (\A i, j \in DOMAIN inbox :
                  inbox[i] = "CONF" /\ inbox[j] = "CONF" => i = j)'
        BY <1>5, <2>1, Appended DEF Arriving, ConfirmationInv
    <2> QED BY <1>5, <2>2 DEF ConfirmationInv
<1>6. ASSUME inbox # <<>>, Head(inbox) # "CONF", inbox' = Tail(inbox),
             UNCHANGED <<pc, unconfirmed, sem>>
      PROVE  ConfirmationInv'
    <2>1. Arriving' <=> Arriving
        BY <1>6, Delivered DEF Arriving
    <2>2. ASSUME NEW i \in DOMAIN inbox', NEW j \in DOMAIN inbox',
                 inbox'[i] = "CONF", inbox'[j] = "CONF"
          PROVE  i = j
        <3>1. /\ i \in Int /\ i + 1 \in DOMAIN inbox /\ inbox[i + 1] = "CONF"
              /\ j \in Int /\ j + 1 \in DOMAIN inbox /\ inbox[j + 1] = "CONF"
            BY <1>6, <2>2, Delivered
        <3> QED BY <3>1 DEF ConfirmationInv
    <2> QED BY <1>6, <2>1, <2>2 DEF ConfirmationInv
<1>7. CASE LinkDown \/ HostWrites \/ LinkUp \/ UNCHANGED vars
    BY <1>1, <1>5, <1>7 DEF LinkDown, HostWrites, LinkUp, vars, btVars, sendVars,
       hostVars
<1>8. CASE StackConfirms
    <2>1. /\ unconfirmed /\ unconfirmed' = FALSE
          /\ inbox' = Append(inbox, "CONF")
          /\ UNCHANGED <<pc, sem>>
        BY <1>8 DEF StackConfirms, sendVars
    <2>2. ~ Arriving /\ ~ sem /\ \E t \in Sender : pc[t] = "await"
        BY <2>1 DEF ConfirmationInv
    <2>3. "CONF" \in Event
        BY DEF Event
    <2>4. /\ Arriving'
          /\ (\A i, j \in DOMAIN inbox :
                  inbox[i] = "CONF" /\ inbox[j] = "CONF" => i = j)'
        BY <2>1, <2>2, <2>3, Appended DEF Arriving
    <2> QED BY <2>1, <2>2, <2>4 DEF ConfirmationInv
<1>9. CASE Claim \/ DeliverWrite \/ DeliverLost
    BY <1>1, <1>6, <1>9 DEF Claim, DeliverWrite, DeliverLost, Delivers, sendVars,
       hostVars
<1>10. CASE DeliverConf
    <2>1. /\ inbox # <<>> /\ Head(inbox) = "CONF" /\ inbox' = Tail(inbox)
          /\ sem' = TRUE
          /\ UNCHANGED <<pc, unconfirmed>>
        BY <1>10 DEF DeliverConf, Delivers, hostVars
    <2>2. 1 \in DOMAIN inbox /\ inbox[1] = "CONF"
        BY <2>1, Delivered
    <2>3. Arriving /\ ~ unconfirmed /\ \E t \in Sender : pc[t] = "await"
        BY <2>2 DEF Arriving, ConfirmationInv
    <2>4. ASSUME NEW i \in DOMAIN inbox' PROVE inbox'[i] # "CONF"
        <3>1. i \in Int /\ i + 1 \in DOMAIN inbox /\ inbox'[i] = inbox[i + 1]
            BY <2>1, <2>4, Delivered
        <3>2. DOMAIN inbox = 1 .. Len(inbox) /\ DOMAIN inbox' = 1 .. Len(inbox')
            BY <2>1, Delivered DEF TypeOK
        <3>3. i >= 1
            BY <2>1, <2>4, <3>2, Delivered
        <3> QED BY <2>2, <3>1, <3>3 DEF ConfirmationInv
    <2> QED BY <2>1, <2>3, <2>4 DEF ConfirmationInv, Arriving
<1>11. ASSUME NEW t \in Sender, TakeMutex(t) PROVE ConfirmationInv'
    BY <1>2, <1>11 DEF TakeMutex, Pc, btVars, hostVars
<1>12. ASSUME NEW t \in Messenger, SendReport(t) PROVE ConfirmationInv'
    BY <1>2, <1>3, <1>12 DEF SendReport, Transmit, Pc, btVars
<1>13. ASSUME NEW t \in Messenger, ReportSent(t) PROVE ConfirmationInv'
    BY <1>4, <1>13 DEF ReportSent, Pc, btVars, hostVars
<1>14. CASE HidConnect \/ HidOutput \/ HidDisconnect \/ ClearTracker \/ SendAction
               \/ SendCancelEscape
    BY <1>2, <1>14 DEF HidConnect, HidOutput, HidDisconnect, ClearTracker,
       SendAction, SendCancelEscape, Takes, Pc, btVars, sendVars, hostVars
<1>15. CASE CreateEscapeTask
    <2>1. pc["input"] = "create" /\ pc["escape"] = "idle"
        BY <1>15 DEF CreateEscapeTask, SingleInv
    <2>2. \A t \in Sender : pc'[t] = "await" <=> pc[t] = "await"
        BY <1>15, <2>1 DEF CreateEscapeTask, TypeOK
    <2> QED BY <1>1, <1>15, <2>2 DEF CreateEscapeTask, btVars, sendVars, hostVars
<1>16. CASE EscapeBegin \/ EscapeRefused \/ EscapeEnd
    BY <1>2, <1>16 DEF EscapeBegin, EscapeRefused, EscapeEnd, Pc, btVars, sendVars,
       hostVars
<1>17. CASE EscapeSend
    BY <1>3, <1>17 DEF EscapeSend, Transmit, btVars, sendVars
<1>18. CASE EscapeSent
    BY <1>4, <1>18 DEF EscapeSent, Pc, btVars, hostVars
<1> QED
    BY <1>7, <1>8, <1>9, <1>10, <1>11, <1>12, <1>13, <1>14, <1>15, <1>16, <1>17,
       <1>18 DEF Next, Bluetooth, Loop, Input, Escape

-----------------------------------------------------------------------------
LEMMA ReportInvInit == ASSUME Init PROVE ReportInv
<1> USE ReportAssumption DEF Init
<1>1. TypeOK
    <2>1. pc \in [Sender -> Pc] /\ left \in [Messenger -> 0 .. MaxReports]
        BY DEF Pc
    <2>2. inbox \in Seq(Event) /\ hidEvents \in Seq(HidEvent) /\ Len(hidEvents) = 0
        OBVIOUS
    <2>3. Len(hidEvents) <= QueueSize /\ step \in 0 .. 3
          /\ sendMutex \in Sender \cup {Nobody}
        OBVIOUS
    <2>4. /\ claimed \in BOOLEAN /\ connected \in BOOLEAN /\ sem \in BOOLEAN
          /\ escapePending \in BOOLEAN /\ link \in BOOLEAN
          /\ unconfirmed \in BOOLEAN /\ escapeDown \in BOOLEAN
          /\ refusedTwice \in BOOLEAN
        OBVIOUS
    <2> HIDE DEF Init
    <2> QED BY <2>1, <2>2, <2>3, <2>4 DEF TypeOK
<1>2. LeftInv /\ MutexInv /\ SingleInv
    BY SenderNames DEF LeftInv, MutexInv, SingleInv
<1>3. ConfirmationInv /\ EscapeInv
    BY DEF ConfirmationInv, Arriving, EscapeInv
<1> QED BY <1>1, <1>2, <1>3 DEF ReportInv

LEMMA ReportInvStep ==
    ASSUME ReportInv, [Next]_vars
    PROVE  ReportInv'
BY TypeStep, LeftStep, MutexStep, SingleStep, ConfirmationStep, EscapeStep
   DEF ReportInv

LEMMA ReportInvAlways == Spec => []ReportInv
BY ReportInvInit, ReportInvStep, PTL DEF Spec

-----------------------------------------------------------------------------
(* The transport keeps its types: the event queue never exceeds its size   *)
(* and the cancel sequence never runs past its end (codex_ble_espidf.c).   *)
THEOREM TypeCorrect == Spec => []TypeOK
<1>1. ReportInv => TypeOK
    BY DEF ReportInv
<1> QED BY <1>1, ReportInvAlways, PTL

(* A sender is woken by the confirmation of its own report and leaves none *)
(* behind (esp_ble_hidd_dev_input_set under s_send_mutex).                 *)
THEOREM ConfirmationCorrect == Spec => []ConfirmationIsOwn
<1>1. ASSUME ReportInv PROVE ConfirmationIsOwn
    <2> USE <1>1 DEF ReportInv
    <2> DEFINE confirmed == {i \in DOMAIN inbox : inbox[i] = "CONF"}
    <2>1. Cardinality({}) = 0 /\ \A x : Cardinality({x}) = 1
        BY FS_EmptySet, FS_Singleton
    <2>2. Cardinality(confirmed) = IF Arriving THEN 1 ELSE 0
        <3>1. CASE Arriving
            <4>1. PICK i \in DOMAIN inbox : inbox[i] = "CONF"
                BY <3>1 DEF Arriving
            <4>2. confirmed = {i}
                BY <4>1 DEF ConfirmationInv
            <4> QED BY <2>1, <3>1, <4>2
        <3>2. CASE ~ Arriving
            <4>1. confirmed = {}
                BY <3>2 DEF Arriving
            <4> QED BY <2>1, <3>2, <4>1
        <3> QED BY <3>1, <3>2
    <2>3. Confirmations = Cardinality(confirmed)
              + (IF unconfirmed THEN 1 ELSE 0) + (IF sem THEN 1 ELSE 0)
        BY DEF Confirmations
    <2>4. Confirmations = IF Arriving \/ unconfirmed \/ sem THEN 1 ELSE 0
        <3> HIDE DEF confirmed
        <3> QED BY <2>2, <2>3 DEF ConfirmationInv, TypeOK
    <2>5. CASE \E t \in Sender : pc[t] = "await"
        <3>1. PICK t \in Sender : pc[t] = "await"
            BY <2>5
        <3>2. Awaiting = {t}
            BY <3>1 DEF Awaiting, MutexInv
        <3> QED BY <2>1, <2>4, <2>5, <3>2 DEF ConfirmationInv, ConfirmationIsOwn
    <2>6. CASE \A t \in Sender : pc[t] # "await"
        <3>1. Awaiting = {}
            BY <2>6 DEF Awaiting
        <3> QED BY <2>1, <2>4, <2>6, <3>1 DEF ConfirmationInv, ConfirmationIsOwn
    <2> QED BY <2>5, <2>6
<1> QED BY <1>1, ReportInvAlways, PTL

(* A finished cancel sequence leaves Escape down only after its release    *)
(* was refused twice (send_cancel_escape_now).                             *)
THEOREM EscapeCorrect == Spec => []EscapeIsReleased
<1>1. ReportInv => EscapeIsReleased
    BY DEF ReportInv, EscapeInv, EscapeIsReleased
<1> QED BY <1>1, ReportInvAlways, PTL
=============================================================================
