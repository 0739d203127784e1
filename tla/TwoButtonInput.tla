--------------------------- MODULE TwoButtonInput ---------------------------
(***************************************************************************)
(* The two-button gesture recogniser                                       *)
(* (components/two_button_input/two_button_input.c).                       *)
(*                                                                         *)
(* One call of two_button_input_update runs its handlers in a fixed order; *)
(* "phase" names the handler that runs next, so every handler is an action *)
(* of its own and emits at most one event ("out").  Between two calls the  *)
(* input task may cancel the gesture, refresh the Agent mask and let time  *)
(* pass.  Timestamps are modelled by what the code compares: the time      *)
(* since an edge or a press (saturating at the largest threshold) and the  *)
(* time left to a deadline, so the wrap-around of the millisecond counter  *)
(* is not part of this model.  view.revision is left out: it moves exactly *)
(* when a view field does.  Operators named X_Defect are defective         *)
(* variants of X that no action uses: each breaks one of the properties.   *)
(***************************************************************************)
EXTENDS Integers, Sequences

CONSTANTS
    Debounce,         \* config.debounce_ms
    VoiceHold,        \* config.voice_hold_ms
    DoubleClick,      \* config.double_click_ms
    LongPress,        \* config.long_press_ms
    MenuTimeout,      \* config.menu_timeout_ms
    MaxPoll,          \* longest time between two polls (the bound on Elapse)
    Menu,             \* two_button_command_t in order, Approve first
    AgentCount,       \* TWO_BUTTON_AGENT_COUNT
    NavigationCount   \* TWO_BUTTON_NAVIGATION_COUNT

Command == {"APPROVE", "DECLINE", "FAST", "FORK", "AGENT", "NAVIGATION",
            "USAGE_DETAIL", "DEVICE_SETTINGS"}

ASSUME TimingAssumption ==
    /\ {Debounce, VoiceHold, DoubleClick, LongPress, MenuTimeout, MaxPoll}
           \subseteq Nat \ {0}
    /\ VoiceHold =< LongPress
    /\ DoubleClick =< LongPress
    /\ LongPress < MenuTimeout

ASSUME MenuAssumption ==
    /\ Menu \in Seq(Command)
    /\ Len(Menu) > 0
    /\ Menu[1] = "APPROVE"
    /\ AgentCount \in Nat \ {0}
    /\ NavigationCount \in Nat \ {0}

VARIABLES
    raw, stable,       \* sampled and debounced level of each key
    edgeAge,           \* now - raw_changed_at, kept while raw and stable differ
    heldAge,           \* now - pressed_at, kept while the key is down
    longFired, consumed,
    pressMode,         \* history: the mode in which the key's last press began
    sendPending,       \* key1_send_pending
    sendLeft,          \* key1_send_deadline - now, kept while pending
    doubleCandidate,   \* key1_double_candidate
    micForwarded,
    mode, menuIndex, submenuIndex,  \* the view
    modeLeft,          \* mode_deadline - now, kept while a menu is open
    assigned,          \* assigned_agents
    selected,          \* selected_agent
    phase,             \* the handler of two_button_input_update that runs next
    out                \* the event the last step emitted

keyVars == <<raw, stable, edgeAge, heldAge, longFired, consumed, pressMode>>
clickVars == <<sendPending, sendLeft, doubleCandidate, micForwarded>>
viewVars == <<mode, menuIndex, submenuIndex, modeLeft>>
agentVars == <<assigned, selected>>
vars == <<keyVars, clickVars, viewVars, agentVars, phase, out>>

Key == {"KEY1", "KEY2"}
Mode == {"HOME", "CONTROL_CENTER", "AGENT_MENU", "NAVIGATION_MENU",
         "USAGE_DETAIL", "DEVICE_SETTINGS", "DECLINE_CONFIRM"}
Phase == {"poll", "key2", "key1", "hold1", "hold2", "send", "timeout"}
Agent == 0 .. AgentCount - 1
EventType == {"MIC_PRESS", "MIC_RELEASE", "SEND", "ESCAPE", "APPROVE",
              "DECLINE", "FORK", "FAST", "SELECT_AGENT", "NAVIGATION",
              "NO_AVAILABLE_AGENT"}
Event == [type : EventType, value : Nat]
Silent == [type |-> "NONE", value |-> 0]

Emit(type, value) == out' = [type |-> type, value |-> value]
Quiet == out' = Silent

AtMost(n, bound) == IF n =< bound THEN n ELSE bound

TypeOK ==
    /\ raw \in [Key -> BOOLEAN]
    /\ stable \in [Key -> BOOLEAN]
    /\ edgeAge \in [Key -> 0 .. Debounce]
    /\ heldAge \in [Key -> 0 .. LongPress]
    /\ longFired \in [Key -> BOOLEAN]
    /\ consumed \in [Key -> BOOLEAN]
    /\ pressMode \in [Key -> Mode]
    /\ sendPending \in BOOLEAN
    /\ sendLeft \in Int
    /\ sendLeft =< DoubleClick
    /\ doubleCandidate \in BOOLEAN
    /\ micForwarded \in BOOLEAN
    /\ mode \in Mode
    /\ menuIndex \in 0 .. Len(Menu) - 1
    /\ submenuIndex \in Nat
    /\ modeLeft \in Int
    /\ modeLeft =< MenuTimeout
    /\ assigned \in SUBSET Agent
    /\ selected \in Agent
    /\ phase \in Phase
    /\ out \in Event \cup {Silent}

(* two_button_input_init: a key may already be down when the task starts. *)
Init ==
    /\ raw \in [Key -> BOOLEAN]
    /\ stable = raw
    /\ edgeAge = [k \in Key |-> 0]
    /\ heldAge = [k \in Key |-> 0]
    /\ longFired = [k \in Key |-> FALSE]
    /\ consumed = [k \in Key |-> FALSE]
    /\ pressMode = [k \in Key |-> "HOME"]
    /\ sendPending = FALSE
    /\ sendLeft = 0
    /\ doubleCandidate = FALSE
    /\ micForwarded = FALSE
    /\ mode = "HOME"
    /\ menuIndex = 0
    /\ submenuIndex = 0
    /\ modeLeft = 0
    /\ assigned = {}
    /\ selected = 0
    /\ phase = "poll"
    /\ out = Silent

-----------------------------------------------------------------------------
(* Helpers on the view.                                                    *)

Overlay == mode # "HOME"

(* change_mode: entering the Control Center always rewinds it to Approve. *)
ChangeMode(m) ==
    /\ mode' = m
    /\ menuIndex' = IF m = "CONTROL_CENTER" THEN 0 ELSE menuIndex
    /\ modeLeft' = IF m = "HOME" THEN 0 ELSE MenuTimeout

(* touch *)
TouchedLeft == IF Overlay THEN MenuTimeout ELSE modeLeft
Touch == /\ modeLeft' = TouchedLeft
         /\ UNCHANGED <<mode, menuIndex, submenuIndex>>

(* previous_item and next_item: Turn(n - 1, ...) steps back, Turn(1, ...)   *)
(* forward, both modulo the length of the list that is open.               *)
Turn(menuStep, agentStep, navigationStep) ==
    /\ menuIndex' = IF mode = "CONTROL_CENTER"
                    THEN (menuIndex + menuStep) % Len(Menu) ELSE menuIndex
    /\ submenuIndex' =
           CASE mode = "AGENT_MENU" ->
                    (submenuIndex + agentStep) % AgentCount
             [] mode = "NAVIGATION_MENU" ->
                    (submenuIndex + navigationStep) % NavigationCount
             [] OTHER -> submenuIndex
    /\ modeLeft' = TouchedLeft
    /\ UNCHANGED mode

NextItem == Turn(1, 1, 1)
PreviousItem == Turn(Len(Menu) - 1, AgentCount - 1, NavigationCount - 1)

(* back_or_close, in every menu a long side press can leave. *)
BackOrClose ==
    ChangeMode(IF mode = "CONTROL_CENTER" THEN "HOME" ELSE "CONTROL_CENTER")

(* next_assigned: the first assigned slot after the selected one, cyclically. *)
Distance(a) == IF a > selected THEN a - selected
                               ELSE a + AgentCount - selected
IsNextAssigned(a) == \A b \in assigned : Distance(a) =< Distance(b)

-----------------------------------------------------------------------------
(* Between two updates: input_task cancels, refreshes the Agents, sleeps.  *)

(* two_button_input_cancel *)
Cancel_KeepsPresses ==
    /\ phase = "poll"
    /\ micForwarded' = FALSE
    /\ sendPending' = FALSE
    /\ sendLeft' = 0
    /\ doubleCandidate' = FALSE
    /\ ChangeMode("HOME")
    /\ Quiet
    /\ UNCHANGED <<keyVars, submenuIndex, agentVars, phase>>

Cancel ==
    /\ phase = "poll"
    /\ micForwarded' = FALSE
    /\ sendPending' = FALSE
    /\ sendLeft' = 0
    /\ doubleCandidate' = FALSE
    /\ consumed' = stable
    /\ ChangeMode("HOME")
    /\ Quiet
    /\ UNCHANGED <<raw, stable, edgeAge, heldAge, longFired, pressMode,
                   submenuIndex, agentVars, phase>>

(* two_button_input_set_agents; an out-of-range selection is ignored. *)
SetAgents(mask, agent) ==
    /\ phase = "poll"
    /\ assigned' = mask
    /\ selected' = IF agent \in Agent THEN agent ELSE selected
    /\ Quiet
    /\ UNCHANGED <<keyVars, clickVars, viewVars, phase>>

(* vTaskDelay, stretched by however long the event callbacks took. *)
Elapse(dt) ==
    /\ phase = "poll"
    /\ phase' = "key2"
    /\ edgeAge' = [k \in Key |-> IF raw[k] = stable[k] THEN 0
                                 ELSE AtMost(edgeAge[k] + dt, Debounce)]
    /\ heldAge' = [k \in Key |-> IF stable[k]
                                 THEN AtMost(heldAge[k] + dt, LongPress)
                                 ELSE 0]
    /\ sendLeft' = IF sendPending THEN sendLeft - dt ELSE 0
    /\ modeLeft' = IF Overlay THEN modeLeft - dt ELSE 0
    /\ Quiet
    /\ UNCHANGED <<raw, stable, longFired, consumed, pressMode, sendPending,
                   doubleCandidate, micForwarded, mode, menuIndex,
                   submenuIndex, agentVars>>

-----------------------------------------------------------------------------
(* update_key: sample the level; a level that has differed from the stable *)
(* one for the debounce time becomes a press or a release.                 *)

(* The handlers run KEY2 before KEY1. *)
Turnstile(k) == IF k = "KEY2" THEN phase = "key2" /\ phase' = "key1"
                              ELSE phase = "key1" /\ phase' = "hold1"

SampledAge(k, level) == IF level = raw[k] THEN edgeAge[k] ELSE 0
Settles(k, level) ==
    /\ level # stable[k]
    /\ SampledAge(k, level) >= Debounce

NoEdge_RestartsWindow(k, level) ==
    /\ Turnstile(k)
    /\ ~ Settles(k, level)
    /\ raw' = [raw EXCEPT ![k] = level]
    /\ edgeAge' = [edgeAge EXCEPT ![k] = IF level = stable[k] THEN 0
                                         ELSE SampledAge(k, level)]
    /\ sendLeft' = IF sendPending /\ k = "KEY1" /\ level # raw[k]
                   THEN DoubleClick ELSE sendLeft
    /\ Quiet
    /\ UNCHANGED <<stable, heldAge, longFired, consumed, pressMode,
                   sendPending, doubleCandidate, micForwarded, viewVars,
                   agentVars>>

NoEdge(k, level) ==
    /\ Turnstile(k)
    /\ ~ Settles(k, level)
    /\ raw' = [raw EXCEPT ![k] = level]
    /\ edgeAge' = [edgeAge EXCEPT ![k] = IF level = stable[k] THEN 0
                                         ELSE SampledAge(k, level)]
    /\ Quiet
    /\ UNCHANGED <<stable, heldAge, longFired, consumed, pressMode,
                   clickVars, viewVars, agentVars>>

(* What every settled press does to its key in update_key and handle_press. *)
Press(k, eaten) ==
    /\ Turnstile(k)
    /\ Settles(k, TRUE)
    /\ raw' = [raw EXCEPT ![k] = TRUE]
    /\ stable' = [stable EXCEPT ![k] = TRUE]
    /\ edgeAge' = [edgeAge EXCEPT ![k] = 0]
    /\ heldAge' = [heldAge EXCEPT ![k] = 0]
    /\ longFired' = [longFired EXCEPT ![k] = FALSE]
    /\ consumed' = [consumed EXCEPT ![k] = eaten]
    /\ pressMode' = [pressMode EXCEPT ![k] = mode]
    /\ Quiet
    /\ UNCHANGED agentVars

PressSide ==
    /\ Press("KEY2", FALSE)
    /\ Touch
    /\ UNCHANGED clickVars

PressFrontHome_KeepsSend ==
    /\ mode = "HOME"
    /\ Press("KEY1", FALSE)
    /\ doubleCandidate' = sendPending
    /\ UNCHANGED <<sendPending, sendLeft, micForwarded, viewVars>>

PressFrontHome ==
    /\ mode = "HOME"
    /\ Press("KEY1", FALSE)
    /\ doubleCandidate' = sendPending
    /\ sendPending' = FALSE
    /\ sendLeft' = 0
    /\ UNCHANGED <<micForwarded, viewVars>>

PressFrontMenu ==
    /\ mode \notin {"HOME", "DECLINE_CONFIRM"}
    /\ Press("KEY1", FALSE)
    /\ Touch
    /\ UNCHANGED clickVars

(* The front key cancels the decline confirmation and is used up by it. *)
PressFrontDecline ==
    /\ mode = "DECLINE_CONFIRM"
    /\ Press("KEY1", TRUE)
    /\ ChangeMode("CONTROL_CENTER")
    /\ UNCHANGED <<clickVars, submenuIndex>>

(* What every settled release does to its key in update_key. *)
Release(k) ==
    /\ Turnstile(k)
    /\ Settles(k, FALSE)
    /\ raw' = [raw EXCEPT ![k] = FALSE]
    /\ stable' = [stable EXCEPT ![k] = FALSE]
    /\ edgeAge' = [edgeAge EXCEPT ![k] = 0]
    /\ heldAge' = [heldAge EXCEPT ![k] = 0]
    /\ UNCHANGED <<longFired, consumed, pressMode, agentVars>>

(* handle_release, KEY1 *)
ReleaseFrontMic ==
    /\ micForwarded
    /\ Release("KEY1")
    /\ micForwarded' = FALSE
    /\ doubleCandidate' = FALSE
    /\ Emit("MIC_RELEASE", 0)
    /\ UNCHANGED <<sendPending, sendLeft, viewVars>>

ReleaseFrontHome ==
    /\ ~ micForwarded
    /\ mode = "HOME"
    /\ ~ consumed["KEY1"]
    /\ Release("KEY1")
    /\ \/ /\ doubleCandidate
          /\ doubleCandidate' = FALSE
          /\ sendLeft' = 0
          /\ Emit("ESCAPE", 0)
          /\ UNCHANGED sendPending
       \/ /\ ~ doubleCandidate
          /\ sendPending' = TRUE
          /\ sendLeft' = DoubleClick
          /\ Quiet
          /\ UNCHANGED doubleCandidate
    /\ UNCHANGED <<micForwarded, viewVars>>

ReleaseFrontMenu ==
    /\ ~ micForwarded
    /\ ~ (mode = "HOME" /\ ~ consumed["KEY1"])
    /\ Release("KEY1")
    /\ IF longFired["KEY1"] \/ consumed["KEY1"]
       THEN UNCHANGED viewVars
       ELSE NextItem
    /\ Quiet
    /\ UNCHANGED clickVars

(* handle_release, KEY2: on the confirmation a long press still declines. *)
ReleaseSideDecline ==
    /\ mode = "DECLINE_CONFIRM"
    /\ ~ consumed["KEY2"]
    /\ Release("KEY2")
    /\ Emit("DECLINE", 0)
    /\ ChangeMode("CONTROL_CENTER")
    /\ UNCHANGED <<clickVars, submenuIndex>>

ReleaseSideIgnored ==
    /\ \/ consumed["KEY2"]
       \/ longFired["KEY2"] /\ mode # "DECLINE_CONFIRM"
    /\ Release("KEY2")
    /\ Quiet
    /\ UNCHANGED <<clickVars, viewVars>>

ShortSide == ~ longFired["KEY2"] /\ ~ consumed["KEY2"] /\ Release("KEY2")

(* select_next_agent *)
ReleaseSideHome ==
    /\ mode = "HOME"
    /\ ShortSide
    /\ \/ \E a \in assigned : IsNextAssigned(a) /\ Emit("SELECT_AGENT", a)
       \/ assigned = {} /\ Emit("NO_AVAILABLE_AGENT", 0)
    /\ UNCHANGED <<clickVars, viewVars>>

(* execute_menu: the commands that act at once and leave the menu open... *)
ExecuteImmediate ==
    /\ mode = "CONTROL_CENTER"
    /\ Menu[menuIndex + 1] \in {"APPROVE", "FAST", "FORK"}
    /\ ShortSide
    /\ Emit(Menu[menuIndex + 1], 0)
    /\ Touch
    /\ UNCHANGED clickVars

(* ...those that open a submenu... *)
ExecuteOpen ==
    /\ mode = "CONTROL_CENTER"
    /\ ShortSide
    /\ \/ /\ Menu[menuIndex + 1] = "AGENT"
          /\ ChangeMode("AGENT_MENU")
          /\ submenuIndex' = selected
       \/ /\ Menu[menuIndex + 1] = "NAVIGATION"
          /\ ChangeMode("NAVIGATION_MENU")
          /\ submenuIndex' = 0
       \/ /\ Menu[menuIndex + 1] = "DECLINE"
          /\ ChangeMode("DECLINE_CONFIRM")
          /\ UNCHANGED submenuIndex
       \/ /\ Menu[menuIndex + 1] \in {"USAGE_DETAIL", "DEVICE_SETTINGS"}
          /\ ChangeMode(Menu[menuIndex + 1])
          /\ UNCHANGED submenuIndex
    /\ Quiet
    /\ UNCHANGED clickVars

(* ...and the entries of the submenus. *)
ExecuteSubmenu ==
    /\ ShortSide
    /\ \/ /\ mode = "AGENT_MENU"
          /\ Emit(IF submenuIndex \in assigned THEN "SELECT_AGENT"
                  ELSE "NO_AVAILABLE_AGENT", submenuIndex)
          /\ Touch
       \/ /\ mode = "NAVIGATION_MENU"
          /\ Emit("NAVIGATION", submenuIndex)
          /\ Touch
       \/ /\ mode \in {"USAGE_DETAIL", "DEVICE_SETTINGS"}
          /\ Quiet
          /\ UNCHANGED viewVars
    /\ UNCHANGED clickVars

UpdateSide(level) ==
    \/ NoEdge("KEY2", level)
    \/ level /\ PressSide
    \/ ~ level /\ \/ ReleaseSideDecline \/ ReleaseSideIgnored
                  \/ ReleaseSideHome
                  \/ ExecuteImmediate \/ ExecuteOpen \/ ExecuteSubmenu

UpdateFront(level) ==
    \/ NoEdge("KEY1", level)
    \/ level /\ (PressFrontHome \/ PressFrontMenu \/ PressFrontDecline)
    \/ ~ level /\ (ReleaseFrontMic \/ ReleaseFrontHome \/ ReleaseFrontMenu)

-----------------------------------------------------------------------------
(* handle_holds, front key: push-to-talk at Home, previous item in a menu. *)

VoiceHeld == stable["KEY1"] /\ heldAge["KEY1"] >= VoiceHold
LongHeld(k) == stable[k] /\ heldAge[k] >= LongPress /\ ~ longFired[k]

FireLong(k) == longFired' = [longFired EXCEPT ![k] = @ \/ LongHeld(k)]

StartsMic == /\ mode = "HOME" /\ VoiceHeld
             /\ ~ consumed["KEY1"] /\ ~ micForwarded

HoldFront ==
    /\ phase = "hold1"
    /\ phase' = "hold2"
    /\ FireLong("KEY1")
    /\ IF StartsMic
       THEN /\ sendPending' = FALSE
            /\ sendLeft' = 0
            /\ doubleCandidate' = FALSE
            /\ micForwarded' = TRUE
            /\ Emit("MIC_PRESS", 0)
       ELSE Quiet /\ UNCHANGED clickVars
    /\ IF LongHeld("KEY1") /\ ~ consumed["KEY1"] /\ Overlay
       THEN PreviousItem
       ELSE UNCHANGED viewVars
    /\ UNCHANGED <<raw, stable, edgeAge, heldAge, consumed, pressMode,
                   agentVars>>

(* handle_holds, side key: open, go back or close; the confirmation ignores *)
(* a long press.                                                            *)
HoldSide_Executes ==
    /\ phase = "hold2"
    /\ phase' = "send"
    /\ FireLong("KEY2")
    /\ IF LongHeld("KEY2") /\ mode # "DECLINE_CONFIRM"
       THEN /\ ChangeMode(IF mode = "HOME" THEN "CONTROL_CENTER"
                          ELSE "DECLINE_CONFIRM")
            /\ UNCHANGED <<consumed, submenuIndex>>
       ELSE UNCHANGED <<consumed, viewVars>>
    /\ Quiet
    /\ UNCHANGED <<raw, stable, edgeAge, heldAge, pressMode, clickVars,
                   agentVars>>

HoldSide ==
    /\ phase = "hold2"
    /\ phase' = "send"
    /\ FireLong("KEY2")
    /\ IF LongHeld("KEY2") /\ mode # "DECLINE_CONFIRM"
       THEN /\ consumed' = [consumed EXCEPT !["KEY2"] = TRUE]
            /\ IF mode = "HOME" THEN ChangeMode("CONTROL_CENTER")
                                ELSE BackOrClose
            /\ UNCHANGED submenuIndex
       ELSE UNCHANGED <<consumed, viewVars>>
    /\ Quiet
    /\ UNCHANGED <<raw, stable, edgeAge, heldAge, pressMode, clickVars,
                   agentVars>>

(* handle_pending_send: a second press whose edge came before the deadline *)
(* still gets its debounce time.                                           *)
SecondPressDebouncing_Held == raw["KEY1"]

SecondPressDebouncing ==
    /\ raw["KEY1"]
    /\ ~ stable["KEY1"]
    /\ sendLeft + edgeAge["KEY1"] >= 0

HandlePendingSend ==
    /\ phase = "send"
    /\ phase' = "timeout"
    /\ IF sendPending /\ sendLeft =< 0 /\ ~ SecondPressDebouncing
       THEN /\ sendPending' = FALSE
            /\ sendLeft' = 0
            /\ Emit("SEND", 0)
       ELSE Quiet /\ UNCHANGED <<sendPending, sendLeft>>
    /\ UNCHANGED <<keyVars, doubleCandidate, micForwarded, viewVars,
                   agentVars>>

(* handle_timeout: the side key's press is used up, the front key's is not. *)
HandleTimeout_Back ==
    /\ phase = "timeout"
    /\ phase' = "poll"
    /\ IF Overlay /\ modeLeft =< 0
       THEN ChangeMode("CONTROL_CENTER") /\ UNCHANGED submenuIndex
       ELSE UNCHANGED viewVars
    /\ Quiet
    /\ UNCHANGED <<keyVars, clickVars, agentVars>>

HandleTimeout ==
    /\ phase = "timeout"
    /\ phase' = "poll"
    /\ IF Overlay /\ modeLeft =< 0
       THEN /\ consumed' = [consumed EXCEPT !["KEY2"] = @ \/ stable["KEY2"]]
            /\ ChangeMode("HOME")
            /\ UNCHANGED submenuIndex
       ELSE UNCHANGED <<consumed, viewVars>>
    /\ Quiet
    /\ UNCHANGED <<raw, stable, edgeAge, heldAge, longFired, pressMode,
                   clickVars, agentVars>>

-----------------------------------------------------------------------------
(* One pass of two_button_input_update. *)
Update ==
    \/ \E level \in BOOLEAN : UpdateSide(level) \/ UpdateFront(level)
    \/ HoldFront
    \/ HoldSide
    \/ HandlePendingSend
    \/ HandleTimeout

Next ==
    \/ Cancel
    \/ \E mask \in SUBSET Agent, agent \in 0 .. AgentCount :
           SetAgents(mask, agent)
    \/ \E dt \in 1 .. MaxPoll : Elapse(dt)
    \/ Update

Spec == Init /\ [][Next]_vars

(* input_task polls forever: time passes and every pass is completed.  What *)
(* the fingers and the host do is not fair.                                 *)
FairSpec ==
    /\ Spec
    /\ WF_vars(Update)
    /\ WF_vars(\E dt \in 1 .. MaxPoll : Elapse(dt))

-----------------------------------------------------------------------------
(* Properties.                                                             *)

(* A Decline is only ever sent by a side-button press that began on the    *)
(* confirmation page: the press that opened the page can never be the one  *)
(* that confirms, whatever is held, bounced, timed out or cancelled        *)
(* meanwhile (handle_release, execute_menu).                               *)
DeclineConfirmed ==
    out.type = "DECLINE" => pressMode["KEY2"] = "DECLINE_CONFIRM"

(* While the microphone is forwarded the front button is physically down   *)
(* and no Send or Escape is waiting behind it, even when a menu opens, the *)
(* link drops or the button bounces (mic_forwarded, handle_holds).         *)
MicHeld ==
    micForwarded => /\ stable["KEY1"]
                    /\ ~ sendPending
                    /\ ~ doubleCandidate

(* A side-button press acts where it was made: a press that began in one   *)
(* menu never executes an entry of another one.  The one exception the     *)
(* code has is a press on the decline confirmation that the front button   *)
(* cancelled (see CancelledConfirmIsSilent).                               *)
SideEvents == {"APPROVE", "DECLINE", "FAST", "FORK", "SELECT_AGENT",
               "NAVIGATION", "NO_AVAILABLE_AGENT"}
SideActsWherePressed ==
    out.type \in SideEvents \ {"DECLINE"} =>
        \/ pressMode["KEY2"] = mode
        \/ pressMode["KEY2"] = "DECLINE_CONFIRM" /\ mode = "CONTROL_CENTER"

(* The strengthening both side-button properties rest on: a press that can *)
(* still act was made in the mode that is open, or on the confirmation the  *)
(* front button has just cancelled.                                         *)
SidePressOrigin ==
    stable["KEY2"] /\ ~ consumed["KEY2"] =>
        \/ pressMode["KEY2"] = mode
        \/ pressMode["KEY2"] = "DECLINE_CONFIRM" /\ mode = "CONTROL_CENTER"

GestureInv ==
    /\ TypeOK
    /\ SidePressOrigin
    /\ DeclineConfirmed
    /\ SideActsWherePressed
    /\ MicHeld

(* A click that waits for its double-click window is never committed as a  *)
(* Send while the front button is down again at Home: the second press     *)
(* takes the pending click with it (handle_press, handle_pending_send).    *)
(* Polls must not be much later than the timings: see NoSendUnderPress in  *)
(* TwoButtonInput_proof.                                                   *)
SendNotUnderPress ==
    out.type = "SEND" => ~ (mode = "HOME" /\ stable["KEY1"])

(* A pending Send is never more than a debounce interval and one late poll *)
(* overdue: the exception for a second press that is still bouncing cannot *)
(* postpone it for ever (handle_pending_send).                             *)
SendNotOverdue == sendPending => sendLeft > -(Debounce + MaxPoll)

(* A pending click is always resolved: sent, turned into an Escape or a    *)
(* microphone hold, or dropped by a cancel.                                *)
PendingResolved == sendPending ~> ~ sendPending

(* A menu closes by itself once nobody touches the buttons any more        *)
(* (touch, handle_timeout), whatever bounce was in flight.                 *)
MenusClose == <>[](\A k \in Key : ~ raw[k]) => <>[](mode = "HOME")

(* docs/ARCHITECTURE.md: on the confirmation "the front button or timeout  *)
(* cancels".  A side press made there and then cancelled should send       *)
(* nothing; the code rewinds the menu to Approve under it.                 *)
CancelledConfirmIsSilent ==
    pressMode["KEY2"] = "DECLINE_CONFIRM" =>
        out.type \notin {"APPROVE", "FAST", "FORK"}

(* docs/PROTOCOLS.md: an Escape is a "home-screen front-button double      *)
(* click".  The double-click candidate survives a release in a menu, so a  *)
(* later single click that began in a menu can send the Escape.            *)
EscapeFromHomeOnly == out.type = "ESCAPE" => pressMode["KEY1"] = "HOME"
=============================================================================
