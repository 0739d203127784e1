------------------------------ MODULE AppState ------------------------------
(***************************************************************************)
(* The Agent table and the voice display on their way to the screen.       *)
(* micro_control keeps the table of the link, the button controller the    *)
(* display, app_main a copy of both and the UI a copy of that; the LVGL    *)
(* task copies the last one and draws its copy, with Roxy and the hold on  *)
(* a completion (microstick_state_model.c, microstick_ui.cpp).             *)
(*                                                                         *)
(* Three tasks publish: the one that handles the host's events, the input  *)
(* task and the state task, once a second.  Each holds one lock at a time, *)
(* so every locked section is an action of its own, and each carries what  *)
(* it copied from one section to the next.  A slot is its color, effect    *)
(* and meaning; brightness only counts where a frame is all off.  Battery  *)
(* and light are in PowerDisplay, usage in UsageDevice, the page in        *)
(* TwoButtonInput (it travels with the voice display), the rules of the    *)
(* voice display in VoiceControl: here it changes at will.  Times are left *)
(* to chance: a step may come at any time.                                 *)
(* Operators named X_Defect are defective variants of X that no action     *)
(* uses: each breaks one of the properties.                                *)
(***************************************************************************)
EXTENDS Integers, FiniteSets, Sequences

CONSTANTS
    AgentCount,   \* MICRO_AGENT_COUNT
    Frames,       \* bound: the status frames the host may send
    MaxEvents,    \* bound on events of the host
    MaxInputs     \* bound on voice changes and selections of the input task

Agent == 1 .. AgentCount
Color == {"white", "blue", "green", "orange", "red", "black"}
Effect == {"off", "solid", "breath"}

(* A frame's update of one slot; "kept" is a field it does not have, and    *)
(* "dark" says it has a brightness of zero.                                 *)
SlotUpdate == [id : Agent, color : Color \cup {"kept"},
               effect : Effect \cup {"kept"}, dark : BOOLEAN]

ASSUME AppAssumption ==
    /\ AgentCount \in Nat \ {0}
    /\ MaxEvents \in Nat /\ MaxInputs \in Nat
    /\ \A f \in Frames : f \in Seq(SlotUpdate) /\ Len(f) <= AgentCount

VARIABLES
    micro,        \* s_snapshot of micro_control.cpp
    view,         \* s_ui of two_button_controller.cpp: its voice display
    app,          \* s_state of app_main.cpp
    pc, after,    \* what a task does next, and after its next update
    event, pick,  \* the host's event and the agent being selected
    got, seen, carried, \* a task's copies: of micro, of view, of app
    ui, dirty,    \* s_state and s_dirty of the UI
    lvgl, taken,  \* what the LVGL task does next, and apply_state's copy of ui
    roxy,         \* s_roxy_state
    hold, over,   \* s_done_hold; its duration has passed, by the 32-bit clock
    last,         \* history: the last table drawn without a voice, its Roxy
    events, inputs

taskVars == <<pc, after, event, pick, got, seen, carried>>
drawVars == <<roxy, hold, over, last>>
screenVars == <<dirty, lvgl, taken, drawVars>>
appVars == <<micro, view, app, taskVars, ui, screenVars, events, inputs>>

Task == {"host", "input", "state"}
Meaning == {"OFF", "IDLE", "WORKING", "UNREAD", "AWAITING", "ERROR", "UNKNOWN"}
Semantic == {"OFFLINE", "IDLE", "WORKING", "WAITING", "DONE", "ERROR"}
Slot == [color : Color \cup {"none"}, effect : Effect \cup {"none"},
         meaning : Meaning]
Micro == [connected : BOOLEAN, slots : [Agent -> Slot], selected : Agent]
View == {"IDLE", "BUSY", "COMPLETED"}
App == [micro : Micro, view : View]
Section == {"wait", "get", "store", "control", "send", "select", "viewcopy",
            "viewstore", "copy", "update"}

Free == [color |-> "none", effect |-> "none", meaning |-> "OFF"]
NoLink == [connected |-> FALSE, slots |-> [a \in Agent |-> Free], selected |-> 1]
Cold == [micro |-> NoLink, view |-> "IDLE"]

AppTypeOK ==
    /\ micro \in Micro
    /\ view \in View /\ app \in App /\ ui \in App
    /\ pc \in [Task -> Section] /\ after \in [Task -> Section]
    /\ event \in {"none", "DISCONNECTED", "LIGHTING"}
    /\ pick \in Agent
    /\ got \in [Task -> Micro] /\ seen \in [Task -> View]
    /\ carried \in [Task -> App]
    /\ dirty \in BOOLEAN /\ over \in BOOLEAN
    /\ lvgl \in {"wait", "draw"} /\ taken \in App
    /\ roxy \in Semantic
    /\ last \in [table : Semantic, shown : Semantic]
    /\ hold \in [active : BOOLEAN, expired : BOOLEAN]
    /\ events \in 0 .. MaxEvents /\ inputs \in 0 .. MaxInputs

-----------------------------------------------------------------------------
(* The Agent table.                                                        *)

(* microstick_agent_state_from_host, for a slot that is being updated *)
MeaningOf(color, effect) ==
    IF effect = "off" \/ color = "black" THEN "OFF"
    ELSE CASE color = "white"  -> "IDLE"
           [] color = "blue"   -> "WORKING"
           [] color = "green"  -> "UNREAD"
           [] color = "orange" -> "AWAITING"
           [] color = "red"    -> "ERROR"
           [] OTHER            -> "UNKNOWN"

Patched(slots, u) ==
    LET old == slots[u.id]
        color == IF u.color = "kept" THEN old.color ELSE u.color
        effect == IF u.effect = "kept" THEN old.effect ELSE u.effect
    IN  [slots EXCEPT ![u.id] = [color |-> color, effect |-> effect,
                                 meaning |-> MeaningOf(color, effect)]]

EverySlot(frame) ==
    /\ Len(frame) = AgentCount
    /\ {frame[i].id : i \in DOMAIN frame} = Agent

(* codex_agent_statuses_are_all_off *)
AllOff(frame) ==
    /\ EverySlot(frame)
    /\ \A i \in DOMAIN frame :
         frame[i].color = "black" /\ frame[i].effect = "off" /\ frame[i].dark

(* microstick_selected_agent_from_host_effects *)
Breathing(slots) ==
    {a \in Agent : slots[a].meaning # "OFF" /\ slots[a].effect = "breath"}

HostSelected(frame, slots, selected) ==
    IF /\ EverySlot(frame)
       /\ \A i \in DOMAIN frame : frame[i].effect # "kept"
       /\ Cardinality(Breathing(slots)) = 1
    THEN CHOOSE a \in Breathing(slots) : TRUE
    ELSE selected

(* The slots after the first n updates of a frame: the loop of              *)
(* handle_codex_event. *)
SlotsAfter(start, frame) ==
    LET patched[n \in 0 .. Len(frame)] ==
            IF n = 0 THEN start ELSE Patched(patched[n - 1], frame[n])
    IN  patched

StatusOf(m, frame) ==
    IF AllOff(frame) THEN m
    ELSE LET slots == SlotsAfter(m.slots, frame)[Len(frame)]
         IN  [m EXCEPT !.slots = slots,
                       !.selected = HostSelected(frame, slots, @)]

-----------------------------------------------------------------------------
(* Roxy.                                                                   *)

(* microstick_roxy_aggregate: one slot of its loop *)
Louder_DoneFirst(result, meaning) ==
    IF result = "ERROR" \/ meaning = "ERROR" THEN "ERROR"
    ELSE IF meaning = "AWAITING" THEN "WAITING"
    ELSE IF meaning = "WORKING" /\ result \notin {"WAITING", "DONE"}
    THEN "WORKING"
    ELSE IF meaning = "UNREAD" /\ result = "IDLE" THEN "DONE"
    ELSE result

Louder(result, meaning) ==
    IF result = "ERROR" \/ meaning = "ERROR" THEN "ERROR"
    ELSE IF meaning = "AWAITING" THEN "WAITING"
    ELSE IF meaning = "WORKING" /\ result # "WAITING" THEN "WORKING"
    ELSE IF meaning = "UNREAD" /\ result = "IDLE" THEN "DONE"
    ELSE result

(* What it makes of the first n slots. *)
AggregateOf(slots) ==
    LET upTo[n \in 0 .. AgentCount] ==
            IF n = 0 THEN "IDLE" ELSE Louder(upTo[n - 1], slots[n].meaning)
    IN  upTo

Aggregate(m) ==
    IF m.connected THEN AggregateOf(m.slots)[AgentCount] ELSE "OFFLINE"

(* microstick_completion_hold_update: what is shown of a completion, and   *)
(* what is kept of the hold.                                               *)
Released == [active |-> FALSE, expired |-> FALSE]
ShowsComplete_ByClock == ~ hold.active \/ ~ over

ShowsComplete == ~ hold.active \/ (~ hold.expired /\ ~ over)

(* desired_roxy_state: while the voice display is up the hold is not asked. *)
RoxyFor(voice, table) ==
    IF voice = "COMPLETED" THEN "DONE"
    ELSE IF voice = "BUSY" THEN "WAITING"
    ELSE IF table = "DONE" THEN IF ShowsComplete THEN "DONE" ELSE "IDLE"
    ELSE IF table = "OFFLINE" THEN "IDLE"
    ELSE table

-----------------------------------------------------------------------------

AppInit ==
    /\ micro = NoLink
    /\ view = "IDLE"
    /\ app = Cold /\ ui = Cold
    /\ pc = [t \in Task |-> "wait"] /\ after = [t \in Task |-> "wait"]
    /\ event = "none" /\ pick = 1
    /\ got = [t \in Task |-> NoLink] /\ seen = [t \in Task |-> "IDLE"]
    /\ carried = [t \in Task |-> Cold]
    /\ dirty = TRUE
    /\ lvgl = "wait" /\ taken = Cold
    /\ roxy = "IDLE" /\ last = [table |-> "OFFLINE", shown |-> "IDLE"]
    /\ hold = Released /\ over = FALSE
    /\ events = 0 /\ inputs = 0

Goes(t, step) == pc' = [pc EXCEPT ![t] = step]

(* handle_codex_event changes the table, and then calls micro_event. *)
HostEvent(e, m) ==
    /\ pc["host"] = "wait" /\ events < MaxEvents
    /\ events' = events + 1
    /\ micro' = m /\ event' = e
    /\ Goes("host", "get")
    /\ UNCHANGED <<view, app, after, pick, got, seen, carried, ui, screenVars,
                   inputs>>

Connected == ~ micro.connected /\ HostEvent("none", [micro EXCEPT !.connected = TRUE])
Disconnected == micro.connected /\ HostEvent("DISCONNECTED", NoLink)
HostStatus(frame) == micro.connected /\ HostEvent("none", StatusOf(micro, frame))
HostLighting == micro.connected /\ HostEvent("LIGHTING", micro)

(* micro_get_agent_snapshot: micro_event in its caller's task, and the      *)
(* state task once a second.                                                *)
StateRound_CopiesOnly ==
    /\ pc["state"] = "wait"
    /\ Goes("state", "copy")
    /\ UNCHANGED <<micro, view, app, after, event, pick, got, seen, carried,
                   ui, screenVars, events, inputs>>

StateRound ==
    /\ pc["state"] = "wait"
    /\ Goes("state", "get")
    /\ UNCHANGED <<micro, view, app, after, event, pick, got, seen, carried,
                   ui, screenVars, events, inputs>>

Get(t) ==
    /\ pc[t] = "get"
    /\ got' = [got EXCEPT ![t] = micro]
    /\ Goes(t, "store")
    /\ UNCHANGED <<micro, view, app, after, event, pick, seen, carried, ui,
                   screenVars, events, inputs>>

Store(t) ==
    /\ pc[t] = "store"
    /\ app' = [app EXCEPT !.micro = got[t]]
    /\ got' = [got EXCEPT ![t] = NoLink]
    /\ Goes(t, IF t = "host" /\ event # "none" THEN "control" ELSE "copy")
    /\ UNCHANGED <<micro, view, after, event, pick, seen, carried, ui,
                   screenVars, events, inputs>>

(* microstick_two_button_controller_micro_disconnected, which publishes     *)
(* the view before micro_event publishes once more *)
ControllerReset ==
    /\ pc["host"] = "control" /\ event = "DISCONNECTED"
    /\ view' = "IDLE"
    /\ event' = "none"
    /\ Goes("host", "viewcopy") /\ after' = [after EXCEPT !["host"] = "copy"]
    /\ UNCHANGED <<micro, app, pick, got, seen, carried, ui, screenVars,
                   events, inputs>>

(* ..._host_voice: publishes if the display changes; only a sequence in     *)
(* progress completes *)
HostVoice(voice) ==
    /\ pc["host"] = "control" /\ event = "LIGHTING"
    /\ voice = "COMPLETED" => view # "IDLE"
    /\ view' = voice
    /\ event' = "none"
    /\ IF voice # view
       THEN Goes("host", "viewcopy") /\ after' = [after EXCEPT !["host"] = "copy"]
       ELSE Goes("host", "copy") /\ UNCHANGED after
    /\ UNCHANGED <<micro, app, pick, got, seen, carried, ui,
                   screenVars, events, inputs>>

(* The input task shows a voice sequence, or ends what is shown. *)
InputVoice(voice) ==
    /\ pc["input"] = "wait" /\ inputs < MaxInputs
    /\ voice # view /\ voice # "COMPLETED"
    /\ inputs' = inputs + 1
    /\ view' = voice
    /\ Goes("input", "viewcopy")
    /\ UNCHANGED <<micro, app, after, event, pick, got, seen, carried,
                   ui, screenVars, events>>

(* micro_select_agent: the link is checked, press and release are sent, and *)
(* the selection is stored under another lock; a toast follows in any case. *)
SelectAgent(a) ==
    /\ pc["input"] = "wait" /\ inputs < MaxInputs
    /\ inputs' = inputs + 1 /\ pick' = a
    /\ Goes("input", IF micro.connected THEN "send" ELSE "viewcopy")
    /\ UNCHANGED <<micro, view, app, after, event, got, seen, carried, ui,
                   screenVars, events>>

SendAgent(ok) ==
    /\ pc["input"] = "send"
    /\ Goes("input", IF ok THEN "select" ELSE "viewcopy")
    /\ UNCHANGED <<micro, view, app, after, event, pick, got, seen, carried,
                   ui, screenVars, events, inputs>>

AgentSelected ==
    /\ pc["input"] = "select"
    /\ micro' = [micro EXCEPT !.selected = pick]
    /\ pick' = 1
    /\ Goes("input", "get") /\ after' = [after EXCEPT !["input"] = "viewcopy"]
    /\ UNCHANGED <<view, app, event, got, seen, carried, ui, screenVars,
                   events, inputs>>

(* publish and input_ui_update: the view travels in a copy as well. *)
CopyView(t) ==
    /\ pc[t] = "viewcopy"
    /\ seen' = [seen EXCEPT ![t] = view]
    /\ Goes(t, "viewstore")
    /\ UNCHANGED <<micro, view, app, after, event, pick, got, carried, ui,
                   screenVars, events, inputs>>

StoreView(t) ==
    /\ pc[t] = "viewstore"
    /\ app' = [app EXCEPT !.view = seen[t]]
    /\ seen' = [seen EXCEPT ![t] = "IDLE"]
    /\ Goes(t, "copy")
    /\ UNCHANGED <<micro, view, after, event, pick, got, carried, ui,
                   screenVars, events, inputs>>

(* publish_ui, and microstick_ui_update *)
CopyApp(t) ==
    /\ pc[t] = "copy"
    /\ carried' = [carried EXCEPT ![t] = app]
    /\ Goes(t, "update")
    /\ UNCHANGED <<micro, view, app, after, event, pick, got, seen, ui,
                   screenVars, events, inputs>>

UpdateUi(t) ==
    /\ pc[t] = "update"
    /\ ui' = carried[t] /\ dirty' = TRUE
    /\ carried' = [carried EXCEPT ![t] = Cold]
    /\ Goes(t, after[t]) /\ after' = [after EXCEPT ![t] = "wait"]
    /\ UNCHANGED <<micro, view, app, event, pick, got, seen, lvgl, taken,
                   drawVars, events, inputs>>

-----------------------------------------------------------------------------
(* The LVGL task.                                                          *)

(* render_timer: a new state, an animation, or a completion to take down.    *)
(* What it reads under the lock stays true until apply_state locks again: a  *)
(* state published in between is dirty.                                      *)
Redraws ==
    \/ dirty
    \/ ui.view # "IDLE" \/ ~ ui.micro.connected
    \/ \E a \in Agent : ui.micro.slots[a].meaning = "AWAITING"
    \/ hold.active /\ ~ hold.expired

(* apply_state copies the state and clears the flag under one lock... *)
TakeState ==
    /\ lvgl = "wait" /\ Redraws
    /\ lvgl' = "draw" /\ taken' = ui /\ dirty' = FALSE
    /\ UNCHANGED <<micro, view, app, taskVars, ui, drawVars, events, inputs>>

(* ...and draws its copy, while the other tasks may publish the next.        *)
Draw_ClearsDirty ==
    LET table == Aggregate(taken.micro)
        voice == taken.view
    IN  /\ lvgl = "draw" /\ lvgl' = "wait" /\ taken' = Cold /\ dirty' = FALSE
        /\ roxy' = RoxyFor(voice, table)
        /\ IF voice # "IDLE" THEN UNCHANGED <<hold, over, last>>
           ELSE /\ last' = [table |-> table, shown |-> roxy']
                /\ IF table # "DONE" THEN hold' = Released /\ UNCHANGED over
                   ELSE /\ hold' = [active |-> TRUE,
                                    expired |-> ~ ShowsComplete]
                        /\ over' = (over /\ hold.active)
        /\ UNCHANGED <<micro, view, app, taskVars, ui, events, inputs>>

Draw ==
    LET table == Aggregate(taken.micro)
        voice == taken.view
    IN  /\ lvgl = "draw" /\ lvgl' = "wait" /\ taken' = Cold
        /\ roxy' = RoxyFor(voice, table)
        /\ IF voice # "IDLE" THEN UNCHANGED <<hold, over, last>>
           ELSE /\ last' = [table |-> table, shown |-> roxy']
                /\ IF table # "DONE" THEN hold' = Released /\ UNCHANGED over
                   ELSE /\ hold' = [active |-> TRUE,
                                    expired |-> ~ ShowsComplete]
                        /\ over' = (over /\ hold.active)
        /\ UNCHANGED <<micro, view, app, taskVars, ui, dirty, events, inputs>>

(* The hold's duration passes, and after 2^32 milliseconds the clock is back *)
(* where the hold began: a pending hold is redrawn every 100 ms till then.   *)
HoldPasses ==
    /\ hold.active /\ over' = ~ over
    /\ over => hold.expired
    /\ UNCHANGED <<micro, view, app, taskVars, ui, dirty, lvgl, taken, roxy,
                   hold, last, events, inputs>>

AppNext ==
    \/ Connected \/ Disconnected \/ HostLighting
    \/ \E frame \in Frames : HostStatus(frame)
    \/ ControllerReset
    \/ \E voice \in View : HostVoice(voice) \/ InputVoice(voice)
    \/ \E a \in Agent : SelectAgent(a)
    \/ \E ok \in BOOLEAN : SendAgent(ok)
    \/ AgentSelected \/ StateRound
    \/ \E t \in Task :
         Get(t) \/ Store(t) \/ CopyView(t) \/ StoreView(t) \/ CopyApp(t)
           \/ UpdateUi(t)
    \/ TakeState \/ Draw \/ HoldPasses

AppSpec == AppInit /\ [][AppNext]_appVars

Advances(t) ==
    \/ Get(t) \/ Store(t) \/ CopyView(t) \/ StoreView(t) \/ CopyApp(t)
    \/ UpdateUi(t)

HostTask ==
    Advances("host") \/ ControllerReset \/ \E voice \in View : HostVoice(voice)
InputTask ==
    Advances("input") \/ AgentSelected \/ \E ok \in BOOLEAN : SendAgent(ok)

(* Every task is scheduled, and a hold comes to its end. *)
AppFairness ==
    /\ WF_appVars(HostTask) /\ WF_appVars(InputTask)
    /\ WF_appVars(Advances("state") \/ StateRound)
    /\ WF_appVars(TakeState \/ Draw)
    /\ WF_appVars(~ over /\ HoldPasses)

AppFairSpec == AppSpec /\ AppFairness

-----------------------------------------------------------------------------
(* A table's loudest meaning, in whatever order its slots come: error       *)
(* before awaiting before working before complete before idle, and no slot  *)
(* counts while the link is down (docs/ARCHITECTURE.md, Agent and Roxy).    *)
Loudest(meanings) ==
    IF "ERROR" \in meanings THEN "ERROR"
    ELSE IF "AWAITING" \in meanings THEN "WAITING"
    ELSE IF "WORKING" \in meanings THEN "WORKING"
    ELSE IF "UNREAD" \in meanings THEN "DONE"
    ELSE "IDLE"

LoudestOf(m) ==
    IF m.connected THEN Loudest({m.slots[a].meaning : a \in Agent})
    ELSE "OFFLINE"

(* The voice display comes first, and a completion may have been taken down. *)
RoxyMayShow(voice, loudest) ==
    IF voice = "COMPLETED" THEN {"DONE"}
    ELSE IF voice = "BUSY" THEN {"WAITING"}
    ELSE IF loudest = "OFFLINE" THEN {"IDLE"}
    ELSE IF loudest = "DONE" THEN {"DONE", "IDLE"}
    ELSE {loudest}

(* A state may be published while an older one is being drawn.  Whenever    *)
(* the LVGL task waits and sees nothing to redraw, Roxy nevertheless shows  *)
(* what the latest state says: the voice display, or the loudest meaning of *)
(* its table, a completion until it is taken down (apply_state,             *)
(* microstick_roxy_aggregate, desired_roxy_state).                          *)
RoxyIsLoudest ==
    lvgl = "wait" /\ ~ dirty =>
        roxy \in RoxyMayShow(ui.view, LoudestOf(ui.micro))

(* A completion is shown when the table comes to say so; once it was taken  *)
(* down it is not shown again while the table goes on saying complete, not  *)
(* even after a voice display in between or when the clock of the hold      *)
(* comes round (microstick_completion_hold_update).                         *)
CompleteShownOnce ==
    [][last'.table = "DONE" =>
           IF last.table = "DONE"
           THEN last.shown # "DONE" => last'.shown # "DONE"
           ELSE last'.shown = "DONE"]_appVars

(* Once host and input are done, the screen settles on the table of the     *)
(* link, whichever of the three tasks published an older copy last, and     *)
(* Roxy on what the table says, a completion having been taken down.        *)
(* Nothing of the kind holds for the page: see Known disagreements in the   *)
(* README.                                                                  *)
Settled ==
    /\ ui.micro = micro
    /\ ui.view = "IDLE" =>
           roxy = IF LoudestOf(micro) \in {"DONE", "OFFLINE"} THEN "IDLE"
                  ELSE LoudestOf(micro)
ScreenSettles == <>[]Settled
=============================================================================
