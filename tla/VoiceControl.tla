---------------------------- MODULE VoiceControl ----------------------------
(***************************************************************************)
(* Push-to-talk and click actions across the two tasks that share them     *)
(* (app/input/two_button_controller.cpp, app/micro/micro_control.cpp,      *)
(* components/micro_action_tracker).                                       *)
(*                                                                         *)
(* The input task runs one gesture callback after the other; the BLE event *)
(* task runs the link and lighting handlers.  A step of the model is one   *)
(* section under a mutex, one atomic access or one transmission, so every  *)
(* interleaving the mutexes allow is a behaviour.  inputPc and blePc say   *)
(* what the two tasks do next.  The host is external: it may send any      *)
(* lighting at any time, and a transmission may fail at any time.          *)
(* Operators named X_Defect are defective variants of X that no action     *)
(* uses: each breaks one of the properties.                                *)
(***************************************************************************)
CONSTANT ClickAction   \* Send, Approve, Decline, Fast, Fork, ...

ASSUME ClickAssumption == "MIC" \notin ClickAction

VARIABLES
    inputPc, blePc,
    gestureMic,       \* mic_forwarded of the gesture recogniser
    cancelRequested,  \* s_cancel_requested
    connected,        \* codex_control's connected flag
    pressed,          \* s_action_tracker.pressed
    hostPressed,      \* actions the host holds down on this connection
    active,           \* s_microphone_action_active
    sequence,         \* s_voice_sequence_active
    confirmed,        \* s_host_voice_confirmed
    voice,            \* s_ui.voice_state
    deadline,         \* s_voice_deadline_ms is set
    ptt,              \* the microphone's PTT flag: local tones are suppressed
    clicking,         \* the action of the click being sent
    sentOK            \* status of the Mic release being processed

inputVars == <<inputPc, gestureMic>>
linkVars == <<connected, pressed, hostPressed>>
voiceVars == <<active, sequence, confirmed, voice, deadline>>
callVars == <<clicking, sentOK>>
vars == <<inputVars, blePc, cancelRequested, linkVars, voiceVars, ptt,
          callVars>>

Action == {"MIC"} \cup ClickAction
HostVoice == {"RECORDING", "PROCESSING", "COMPLETED", "IDLE"}
InputPc == {"poll", "gesture", "pttOn", "pressCheck", "pressSend",
            "pressFailed", "pressReset", "releaseCheck", "releaseSend",
            "releasePtt", "releaseDone", "clickCheck", "clickPress",
            "clickCheckAgain", "clickRelease", "deadlines"}
BlePc == {"idle", "dropped", "cleared", "released", "muted", "cancelling"}

Session == INSTANCE VoiceSession

TypeOK ==
    /\ inputPc \in InputPc
    /\ blePc \in BlePc
    /\ gestureMic \in BOOLEAN
    /\ cancelRequested \in BOOLEAN
    /\ connected \in BOOLEAN
    /\ pressed \in SUBSET Action
    /\ hostPressed \in SUBSET Action
    /\ active \in BOOLEAN
    /\ sequence \in BOOLEAN
    /\ confirmed \in BOOLEAN
    /\ voice \in Session!Voice
    /\ deadline \in BOOLEAN
    /\ ptt \in BOOLEAN
    /\ clicking \in Action
    /\ sentOK \in BOOLEAN

(* microstick_two_button_controller_start, before the link comes up. *)
Init ==
    /\ inputPc = "poll"
    /\ blePc = "idle"
    /\ gestureMic = FALSE
    /\ cancelRequested = FALSE
    /\ connected = FALSE
    /\ pressed = {}
    /\ hostPressed = {}
    /\ active = FALSE
    /\ sequence = FALSE
    /\ confirmed = FALSE
    /\ voice = "IDLE"
    /\ deadline = FALSE
    /\ ptt = FALSE
    /\ clicking = "MIC"
    /\ sentOK = FALSE

(* The assignments the handlers share. *)
EndSequence ==
    /\ sequence' = FALSE
    /\ confirmed' = FALSE
    /\ voice' = "IDLE"
    /\ deadline' = FALSE

InputGoes(from, to) == inputPc = from /\ inputPc' = to
BleGoes(from, to) == blePc = from /\ blePc' = to

-----------------------------------------------------------------------------
(* micro_send_action                                                       *)

(* micro_is_connected, read before the send mutex is taken. *)
CheckConnected(from, yes, no) ==
    /\ InputGoes(from, IF connected THEN yes ELSE no)
    /\ UNCHANGED <<gestureMic, blePc, cancelRequested, linkVars, voiceVars,
                   ptt>>

(* micro_action_tracker_should_send *)
ShouldSend(action, press) == press <=> action \notin pressed

(* micro_action_tracker_record_sent, and what the host sees of it. *)
Transition(held, action, press) ==
    IF press THEN held \cup {action} ELSE held \ {action}

(* The part under the send mutex: a phase the tracker has already sent is   *)
(* reported as sent; otherwise it is transmitted and, if that worked,       *)
(* recorded.                                                                *)
SendSucceeds(action, press) ==
    \/ /\ ~ ShouldSend(action, press)
       /\ UNCHANGED linkVars
    \/ /\ ShouldSend(action, press)
       /\ connected
       /\ pressed' = Transition(pressed, action, press)
       /\ hostPressed' = Transition(hostPressed, action, press)
       /\ UNCHANGED connected

SendFails_Records(action, press) ==
    /\ ShouldSend(action, press)
    /\ pressed' = Transition(pressed, action, press)
    /\ UNCHANGED <<connected, hostPressed>>

SendFails(action, press) ==
    /\ ShouldSend(action, press)
    /\ UNCHANGED linkVars

Send(action, press, from, ok, failed) ==
    /\ \/ InputGoes(from, ok) /\ SendSucceeds(action, press)
       \/ InputGoes(from, failed) /\ SendFails(action, press)
    /\ UNCHANGED <<gestureMic, blePc, cancelRequested, voiceVars, ptt>>

-----------------------------------------------------------------------------
(* The input task.                                                         *)

(* s_cancel_requested.exchange(false), and two_button_input_cancel. *)
Poll ==
    /\ InputGoes("poll", "gesture")
    /\ cancelRequested' = FALSE
    /\ gestureMic' = (gestureMic /\ ~ cancelRequested)
    /\ UNCHANGED <<blePc, linkVars, voiceVars, ptt, callVars>>

NoGesture ==
    /\ InputGoes("gesture", "deadlines")
    /\ UNCHANGED <<gestureMic, blePc, cancelRequested, linkVars, voiceVars,
                   ptt, callVars>>

(* microstick_voice_start_allowed *)
CanStart_AnyDisplay == ~ active

CanStart == ~ sequence /\ ~ active /\ voice = "IDLE"

(* start_microphone_action, first locked section: claim or refuse. *)
MicPress ==
    /\ ~ gestureMic
    /\ gestureMic' = TRUE
    /\ \/ /\ CanStart
          /\ InputGoes("gesture", "pttOn")
          /\ active' = TRUE
          /\ sequence' = TRUE
          /\ confirmed' = FALSE
          /\ voice' = "PREPARING"
          /\ deadline' = FALSE
       \/ /\ ~ CanStart
          /\ InputGoes("gesture", "deadlines")
          /\ UNCHANGED voiceVars
    /\ UNCHANGED <<blePc, cancelRequested, connected, pressed, hostPressed,
                   ptt, callVars>>

PttOn ==
    /\ InputGoes("pttOn", "pressCheck")
    /\ ptt' = TRUE
    /\ UNCHANGED <<gestureMic, blePc, cancelRequested, linkVars, voiceVars,
                   callVars>>

PressCheck ==
    /\ CheckConnected("pressCheck", "pressSend", "pressFailed")
    /\ UNCHANGED callVars

PressSend ==
    /\ Send("MIC", TRUE, "pressSend", "deadlines", "pressFailed")
    /\ UNCHANGED callVars

PressFailed ==
    /\ InputGoes("pressFailed", "pressReset")
    /\ ptt' = FALSE
    /\ UNCHANGED <<gestureMic, blePc, cancelRequested, linkVars, voiceVars,
                   callVars>>

PressReset ==
    /\ InputGoes("pressReset", "deadlines")
    /\ active' = FALSE
    /\ EndSequence
    /\ UNCHANGED <<gestureMic, blePc, cancelRequested, linkVars, ptt, callVars>>

(* release_microphone_action: was_active is read under the lock and used    *)
(* after it.                                                                *)
MicRelease ==
    /\ gestureMic
    /\ gestureMic' = FALSE
    /\ InputGoes("gesture", IF active THEN "releaseCheck" ELSE "deadlines")
    /\ UNCHANGED <<blePc, cancelRequested, linkVars, voiceVars, ptt, callVars>>

ReleaseCheck ==
    /\ CheckConnected("releaseCheck", "releaseSend", "releasePtt")
    /\ sentOK' = FALSE
    /\ UNCHANGED clicking

ReleaseSend ==
    /\ InputGoes("releaseSend", "releasePtt")
    /\ \/ SendSucceeds("MIC", FALSE) /\ sentOK' = TRUE
       \/ SendFails("MIC", FALSE) /\ sentOK' = FALSE
    /\ UNCHANGED <<gestureMic, blePc, cancelRequested, voiceVars, ptt,
                   clicking>>

ReleasePtt ==
    /\ InputGoes("releasePtt", "releaseDone")
    /\ ptt' = FALSE
    /\ UNCHANGED <<gestureMic, blePc, cancelRequested, linkVars, voiceVars,
                   callVars>>

ReleaseDone ==
    /\ InputGoes("releaseDone", "deadlines")
    /\ active' = FALSE
    /\ \/ /\ sentOK
          /\ voice' = "PROCESSING"
          /\ deadline' = TRUE
          /\ UNCHANGED <<sequence, confirmed>>
       \/ /\ ~ sentOK
          /\ EndSequence
    /\ UNCHANGED <<gestureMic, blePc, cancelRequested, linkVars, ptt, callVars>>

(* micro_click_action: a press, a short delay and a release. *)
Click(action) ==
    /\ InputGoes("gesture", "clickCheck")
    /\ clicking' = action
    /\ UNCHANGED <<gestureMic, blePc, cancelRequested, linkVars, voiceVars,
                   ptt, sentOK>>

ClickCheck ==
    /\ \/ CheckConnected("clickCheck", "clickPress", "deadlines")
       \/ CheckConnected("clickCheckAgain", "clickRelease", "deadlines")
    /\ UNCHANGED callVars

ClickSend ==
    /\ \/ Send(clicking, TRUE, "clickPress", "clickCheckAgain", "deadlines")
       \/ Send(clicking, FALSE, "clickRelease", "deadlines", "deadlines")
    /\ UNCHANGED callVars

(* update_deadlines: the 30 s Processing and the 1 s Completed deadline. *)
DeadlinePassed_OnlyProcessing ==
    /\ InputGoes("deadlines", "poll")
    /\ voice = "PROCESSING"
    /\ deadline
    /\ EndSequence
    /\ UNCHANGED <<gestureMic, blePc, cancelRequested, linkVars, active, ptt,
                   callVars>>

DeadlinePassed ==
    /\ InputGoes("deadlines", "poll")
    /\ voice \in {"PROCESSING", "COMPLETED"}
    /\ deadline
    /\ EndSequence
    /\ UNCHANGED <<gestureMic, blePc, cancelRequested, linkVars, active, ptt,
                   callVars>>

DeadlineAhead ==
    /\ InputGoes("deadlines", "poll")
    /\ UNCHANGED <<gestureMic, blePc, cancelRequested, linkVars, voiceVars,
                   ptt, callVars>>

InputStep ==
    \/ Poll
    \/ PttOn \/ PressCheck \/ PressSend \/ PressFailed \/ PressReset
    \/ ReleaseCheck \/ ReleaseSend \/ ReleasePtt \/ ReleaseDone
    \/ ClickCheck \/ ClickSend
    \/ DeadlinePassed \/ DeadlineAhead

Gesture ==
    \/ NoGesture
    \/ MicPress
    \/ MicRelease
    \/ \E action \in ClickAction : Click(action)

-----------------------------------------------------------------------------
(* The BLE event task.                                                     *)

(* codex_control_transport_connected *)
Connect ==
    /\ blePc = "idle"
    /\ ~ connected
    /\ connected' = TRUE
    /\ UNCHANGED <<inputVars, blePc, cancelRequested, pressed, hostPressed,
                   voiceVars, ptt, callVars>>

(* codex_control_transport_disconnected: the host drops what was held. *)
Disconnect ==
    /\ BleGoes("idle", "dropped")
    /\ connected
    /\ connected' = FALSE
    /\ hostPressed' = {}
    /\ UNCHANGED <<inputVars, cancelRequested, pressed, voiceVars, ptt,
                   callVars>>

(* handle_codex_event, CODEX_EVENT_DISCONNECTED: the tracker forgets. *)
ClearTracker ==
    /\ BleGoes("dropped", "cleared")
    /\ pressed' = {}
    /\ UNCHANGED <<inputVars, cancelRequested, connected, hostPressed,
                   voiceVars, ptt, callVars>>

(* micro_release_all_actions: the releases are sent only over a live link,  *)
(* and nobody looks whether they were.                                      *)
ReleaseAll ==
    /\ BleGoes("cleared", "released")
    /\ pressed' = {}
    /\ \E sent \in SUBSET (IF connected THEN pressed ELSE {}) :
           hostPressed' = hostPressed \ sent
    /\ UNCHANGED <<inputVars, cancelRequested, connected, voiceVars,
                   ptt, callVars>>

(* microstick_two_button_controller_micro_disconnected *)
MutePtt ==
    /\ BleGoes("released", "muted")
    /\ ptt' = FALSE
    /\ UNCHANGED <<inputVars, cancelRequested, linkVars, voiceVars, callVars>>

RequestCancel ==
    /\ BleGoes("muted", "cancelling")
    /\ cancelRequested' = TRUE
    /\ UNCHANGED <<inputVars, linkVars, voiceVars, ptt, callVars>>

ResetVoice ==
    /\ BleGoes("cancelling", "idle")
    /\ active' = FALSE
    /\ EndSequence
    /\ UNCHANGED <<inputVars, cancelRequested, linkVars, ptt, callVars>>

(* microstick_host_voice_terminal_allowed *)
TerminalAllowed_Unconfirmed == sequence /\ ~ active

TerminalAllowed == sequence /\ ~ active /\ confirmed

(* microstick_two_button_controller_host_voice: one locked section. *)
HostRecording_KeepsTones ==
    /\ sequence' = TRUE
    /\ confirmed' = TRUE
    /\ voice' = "LISTENING"
    /\ deadline' = FALSE
    /\ UNCHANGED <<active, ptt>>

HostRecording ==
    /\ ptt' = TRUE
    /\ sequence' = TRUE
    /\ confirmed' = TRUE
    /\ voice' = "LISTENING"
    /\ deadline' = FALSE
    /\ UNCHANGED active

HostProcessing ==
    /\ ~ active /\ sequence
    /\ ptt' = FALSE
    /\ confirmed' = TRUE
    /\ voice' = "PROCESSING"
    /\ deadline' = TRUE
    /\ UNCHANGED <<active, sequence>>

HostCompleted ==
    /\ TerminalAllowed
    /\ ptt' = FALSE
    /\ voice' = "COMPLETED"
    /\ deadline' = TRUE
    /\ UNCHANGED <<active, sequence, confirmed>>

HostIdle ==
    /\ TerminalAllowed
    /\ ptt' = FALSE
    /\ EndSequence
    /\ UNCHANGED active

HostLighting(state) ==
    /\ blePc = "idle"
    /\ connected
    /\ \/ state = "RECORDING" /\ HostRecording
       \/ state = "PROCESSING" /\ HostProcessing
       \/ state = "COMPLETED" /\ HostCompleted
       \/ state = "IDLE" /\ HostIdle
    /\ UNCHANGED <<inputVars, blePc, cancelRequested, linkVars, callVars>>

BleStep ==
    \/ ClearTracker \/ ReleaseAll
    \/ MutePtt \/ RequestCancel \/ ResetVoice

-----------------------------------------------------------------------------
Next ==
    \/ InputStep
    \/ Gesture
    \/ Connect \/ Disconnect \/ BleStep
    \/ \E state \in HostVoice : HostLighting(state)

Spec == Init /\ [][Next]_vars

(* Both tasks keep running, each handler runs to its end and time passes,  *)
(* so a deadline that stays set is eventually found passed.  The fingers,  *)
(* the link and the host owe nothing.                                      *)
FairSpec ==
    /\ Spec
    /\ WF_vars(InputStep)
    /\ WF_vars(Gesture)
    /\ WF_vars(BleStep)
    /\ SF_vars(DeadlinePassed)

-----------------------------------------------------------------------------
(* Properties.                                                             *)

InputAtRest == inputPc \in {"poll", "gesture", "deadlines"}
AtRest == InputAtRest /\ blePc = "idle"

(* While the link is up the tracker knows exactly what the host holds down, *)
(* although it is changed by the input task and cleared by the BLE task     *)
(* (micro_send_action, handle_codex_event).                                 *)
TrackerMirrorsHost == connected => pressed = hostPressed

(* docs/ARCHITECTURE.md: the "written" feedback is shown only after host-   *)
(* confirmed Recording or Processing, and never once the sequence is over.  *)
CompletedIsConfirmed == voice = "COMPLETED" => sequence /\ confirmed

(* A claimed push-to-talk is never orphaned: whatever a disconnect and a    *)
(* press or release in flight did to each other, once both tasks are at     *)
(* rest a claim has a held gesture that will release it.                    *)
ClaimIsHeld == AtRest /\ active => gestureMic

(* Local tones are suppressed for as long as a hold is claimed or the       *)
(* display says preparing or listening (microphone_input_set_ptt_active     *)
(* is written by both tasks, partly outside the lock).                      *)
TonesSuppressed ==
    AtRest /\ (active \/ voice \in {"PREPARING", "LISTENING"}) => ptt

(* A Processing or Completed display always has a deadline that ends it.    *)
DisplayWillSettle == voice \in {"PROCESSING", "COMPLETED"} => deadline

(* Once the host is silent, a display that is processing or completed goes  *)
(* back to idle (update_deadlines).                                         *)
VoiceSettles ==
    <>[][~ \E state \in HostVoice : HostLighting(state)]_vars =>
        (voice \in {"PROCESSING", "COMPLETED"} ~>
             voice \in {"IDLE", "PREPARING", "LISTENING"})

(* The detailed protocol keeps the promise of VoiceSession. *)
KeepsVoiceSession == Session!Spec
=============================================================================
