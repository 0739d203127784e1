----------------------------- MODULE MCAppState -----------------------------
(* The host's frames: one Agent done and the other at work, which selects   *)
(* it; the second done as well; the host's lighting sleep.                  *)
EXTENDS AppState

Updates(id, color, effect) ==
    [id |-> id, color |-> color, effect |-> effect, dark |-> FALSE]
Dark(id) == [id |-> id, color |-> "black", effect |-> "off", dark |-> TRUE]

MCFrames ==
    {<<Updates(1, "green", "solid"), Updates(2, "blue", "breath")>>,
     <<Updates(2, "green", "solid")>>,
     <<Dark(1), Dark(2)>>}

(* Tables of a connected device, by the first and the second slot. *)
Linked(first, second) ==
    [NoLink EXCEPT !.connected = TRUE,
                   !.slots[1] = first, !.slots[2] = second]
Shows(color, meaning) ==
    [color |-> color, effect |-> "solid", meaning |-> meaning]

Complete == Linked(Free, Shows("green", "UNREAD"))
Alarm == Linked(Shows("red", "ERROR"), Shows("orange", "AWAITING"))

(* Nothing is under way, and every copy and the screen agree on a table; if *)
(* it is complete, the completion was taken down.  AppInit reaches the first *)
(* of the three tables below in a step of the LVGL task, the others with a   *)
(* connection and a frame.                                                   *)
AtRest(table, shown) ==
    /\ micro = table
    /\ view = "IDLE"
    /\ app = [micro |-> table, view |-> "IDLE"] /\ ui = app
    /\ pc = [t \in Task |-> "wait"] /\ after = [t \in Task |-> "wait"]
    /\ event = "none" /\ pick = 1
    /\ got = [t \in Task |-> NoLink] /\ seen = [t \in Task |-> "IDLE"]
    /\ carried = [t \in Task |-> Cold]
    /\ lvgl = "wait" /\ taken = Cold /\ dirty = FALSE
    /\ roxy = shown /\ last = [table |-> Aggregate(table), shown |-> shown]
    /\ over = (table = Complete)
    /\ hold = [active |-> over, expired |-> over]

(* A device that has just started, or a completion taken down, with two     *)
(* events of the host; or two Agents that want attention, with one event    *)
(* of the host and one of the input task.                                   *)
MCInit ==
    \/ /\ AtRest(NoLink, "IDLE") \/ AtRest(Complete, "IDLE")
       /\ events = 0 /\ inputs = MaxInputs
    \/ AtRest(Alarm, "ERROR") /\ events = MaxEvents - 1 /\ inputs = 0

MCSpec == MCInit /\ [][AppNext]_appVars /\ AppFairness
=============================================================================
