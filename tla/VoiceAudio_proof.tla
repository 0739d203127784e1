-------------------------- MODULE VoiceAudio_proof --------------------------
(***************************************************************************)
(* Proofs about push-to-talk across the input task and the BLE event task  *)
(* (VoiceControl): the tracker, the voice display and the suppression of   *)
(* local tones are right under every interleaving and for every set of     *)
(* click actions, and the protocol implements VoiceSession.  Further down  *)
(* the tones themselves and the microphone's stream (AudioPath).           *)
(***************************************************************************)
EXTENDS VoiceControl, AudioPath, SequenceTheorems, TLAPS

(* Next with the disjuncts of its parts side by side, grouped by the state *)
(* they may change.                                                        *)
PttSteps == PttOn \/ PressFailed \/ ReleasePtt \/ MutePtt
CheckSteps == PressCheck \/ ReleaseCheck \/ ClickCheck
SendSteps == PressSend \/ ReleaseSend \/ ClickSend
IdleSteps == \/ NoGesture \/ MicRelease \/ Poll \/ DeadlineAhead
             \/ RequestCancel
             \/ \E action \in ClickAction : Click(action)
ResetSteps == PressReset \/ ReleaseDone \/ DeadlinePassed \/ ResetVoice
LinkSteps == Connect \/ Disconnect \/ ClearTracker \/ ReleaseAll
HostSteps == \E state \in HostVoice : HostLighting(state)

LEMMA StepGroups ==
    ASSUME [Next]_vars
    PROVE  \/ PttSteps \/ CheckSteps \/ SendSteps \/ IdleSteps \/ ResetSteps
           \/ LinkSteps \/ HostSteps \/ MicPress \/ UNCHANGED vars
  BY DEF Next, InputStep, Gesture, BleStep, PttSteps, CheckSteps,
         SendSteps, IdleSteps, ResetSteps, LinkSteps, HostSteps

(* What each group leaves alone. *)
LEMMA QuietGroups ==
    /\ PttSteps => UNCHANGED <<linkVars, voiceVars>>
    /\ CheckSteps => UNCHANGED <<linkVars, voiceVars, ptt>>
    /\ SendSteps => UNCHANGED <<voiceVars, ptt, blePc>>
    /\ IdleSteps => UNCHANGED <<linkVars, voiceVars, ptt>>
    /\ ResetSteps => UNCHANGED <<linkVars, ptt>>
    /\ LinkSteps => UNCHANGED <<voiceVars, ptt, inputVars>>
    /\ HostSteps => UNCHANGED <<linkVars, inputVars, blePc>>
    /\ UNCHANGED vars =>
           UNCHANGED <<linkVars, voiceVars, ptt, inputPc, blePc>>
<1>1. PttSteps => UNCHANGED <<linkVars, voiceVars>>
  BY DEF PttSteps, PttOn, PressFailed, ReleasePtt, MutePtt
<1>2. CheckSteps => UNCHANGED <<linkVars, voiceVars, ptt>>
  BY DEF CheckSteps, PressCheck, ReleaseCheck, ClickCheck, CheckConnected
<1>3. SendSteps => UNCHANGED <<voiceVars, ptt, blePc>>
  BY DEF SendSteps, PressSend, ReleaseSend, ClickSend, Send
<1>4. IdleSteps => UNCHANGED <<linkVars, voiceVars, ptt>>
  BY DEF IdleSteps, NoGesture, MicRelease, Click, Poll, DeadlineAhead,
         RequestCancel
<1>5. ResetSteps => UNCHANGED <<linkVars, ptt>>
  BY DEF ResetSteps, PressReset, ReleaseDone, DeadlinePassed, ResetVoice
<1>6. LinkSteps => UNCHANGED <<voiceVars, ptt, inputVars>>
  BY DEF LinkSteps, Connect, Disconnect, ClearTracker, ReleaseAll
<1>7. HostSteps => UNCHANGED <<linkVars, inputVars, blePc>>
  BY DEF HostSteps, HostLighting
<1>8. UNCHANGED vars => UNCHANGED <<linkVars, voiceVars, ptt, inputPc, blePc>>
  BY DEF vars, inputVars
<1> QED
  BY <1>1, <1>2, <1>3, <1>4, <1>5, <1>6, <1>7, <1>8

-----------------------------------------------------------------------------
(* Type correctness, one independent part of TypeOK at a time.             *)

PcTypes == inputPc \in InputPc /\ blePc \in BlePc
FlagTypes == /\ gestureMic \in BOOLEAN
             /\ cancelRequested \in BOOLEAN
             /\ ptt \in BOOLEAN
             /\ clicking \in Action
             /\ sentOK \in BOOLEAN
LinkTypes == /\ connected \in BOOLEAN
             /\ pressed \in SUBSET Action
             /\ hostPressed \in SUBSET Action
VoiceTypes == /\ active \in BOOLEAN
              /\ sequence \in BOOLEAN
              /\ confirmed \in BOOLEAN
              /\ voice \in Session!Voice
              /\ deadline \in BOOLEAN

LEMMA PcStep ==
    ASSUME PcTypes, [Next]_vars
    PROVE  PcTypes'
<1> USE DEF InputPc, BlePc, InputGoes, BleGoes, PcTypes, inputVars
<1>1. CASE PttSteps
  BY <1>1 DEF PttSteps, PttOn, PressFailed, ReleasePtt, MutePtt
<1>2. CASE CheckSteps
  BY <1>2 DEF CheckSteps, PressCheck, ReleaseCheck, ClickCheck, CheckConnected
<1>3. CASE SendSteps
  BY <1>3 DEF SendSteps, PressSend, ReleaseSend, ClickSend, Send
<1>4. CASE IdleSteps
  BY <1>4 DEF IdleSteps, NoGesture, MicRelease, Click, Poll, DeadlineAhead,
              RequestCancel
<1>5. CASE ResetSteps
  BY <1>5 DEF ResetSteps, PressReset, ReleaseDone, DeadlinePassed, ResetVoice
<1>6. CASE LinkSteps
  BY <1>6 DEF LinkSteps, Connect, Disconnect, ClearTracker, ReleaseAll
<1>7. CASE HostSteps
  BY <1>7, QuietGroups
<1>8. CASE MicPress
  BY <1>8 DEF MicPress
<1>9. CASE UNCHANGED vars
  BY <1>9, QuietGroups
<1> QED
  BY <1>1, <1>2, <1>3, <1>4, <1>5, <1>6, <1>7, <1>8, <1>9, StepGroups

LEMMA FlagStep ==
    ASSUME FlagTypes, LinkTypes, [Next]_vars
    PROVE  FlagTypes'
<1> USE DEF FlagTypes, inputVars, callVars, Action
<1>1. CASE PttSteps
  BY <1>1 DEF PttSteps, PttOn, PressFailed, ReleasePtt, MutePtt
<1>2. CASE CheckSteps
  BY <1>2 DEF CheckSteps, PressCheck, ReleaseCheck, ClickCheck, CheckConnected
<1>3. CASE SendSteps
  BY <1>3 DEF SendSteps, PressSend, ReleaseSend, ClickSend, Send
<1>4. CASE IdleSteps
  BY <1>4 DEF IdleSteps, NoGesture, MicRelease, Click, Poll, DeadlineAhead,
              RequestCancel
<1>5. CASE ResetSteps
  BY <1>5 DEF ResetSteps, PressReset, ReleaseDone, DeadlinePassed, ResetVoice
<1>6. CASE LinkSteps
  BY <1>6 DEF LinkSteps, Connect, Disconnect, ClearTracker, ReleaseAll
<1>7. CASE HostSteps
  BY <1>7 DEF HostSteps, HostLighting, HostRecording, HostProcessing,
              HostCompleted, HostIdle
<1>8. CASE MicPress
  BY <1>8 DEF MicPress
<1>9. CASE UNCHANGED vars
  BY <1>9 DEF vars
<1> QED
  BY <1>1, <1>2, <1>3, <1>4, <1>5, <1>6, <1>7, <1>8, <1>9, StepGroups

LEMMA SendTypes ==
    ASSUME LinkTypes, NEW action \in Action, NEW press \in BOOLEAN,
           SendSucceeds(action, press) \/ SendFails(action, press)
    PROVE  LinkTypes'
  BY DEF LinkTypes, SendSucceeds, SendFails, Transition, linkVars

(* A transmission is a success or a failure of one action. *)
LEMMA SendStepsAreSends ==
    ASSUME clicking \in Action, SendSteps
    PROVE  \E action \in Action, press \in BOOLEAN :
               SendSucceeds(action, press) \/ SendFails(action, press)
<1>1. "MIC" \in Action
  BY DEF Action
<1>2. CASE PressSend
  BY <1>1, <1>2 DEF PressSend, Send
<1>3. CASE ReleaseSend
  BY <1>1, <1>3 DEF ReleaseSend
<1>4. CASE ClickSend
  BY <1>4 DEF ClickSend, Send
<1> QED
  BY <1>2, <1>3, <1>4 DEF SendSteps

LEMMA LinkStep ==
    ASSUME clicking \in Action, LinkTypes, [Next]_vars
    PROVE  LinkTypes'
<1>1. CASE UNCHANGED linkVars
  BY <1>1 DEF LinkTypes, linkVars
<1>2. CASE SendSteps
  BY <1>2, SendStepsAreSends, SendTypes
<1>3. CASE LinkSteps
  BY <1>3 DEF LinkTypes, LinkSteps, Connect, Disconnect, ClearTracker,
              ReleaseAll
<1>4. CASE MicPress
  BY <1>4 DEF LinkTypes, MicPress
<1> QED
  BY <1>1, <1>2, <1>3, <1>4, StepGroups, QuietGroups

LEMMA VoiceStep ==
    ASSUME VoiceTypes, [Next]_vars
    PROVE  VoiceTypes'
<1>1. CASE UNCHANGED voiceVars
  BY <1>1 DEF VoiceTypes, voiceVars
<1>2. CASE ResetSteps
  BY <1>2 DEF VoiceTypes, ResetSteps, PressReset, ReleaseDone,
              DeadlinePassed, ResetVoice, EndSequence, Session!Voice
<1>3. CASE HostSteps
  BY <1>3 DEF VoiceTypes, HostSteps, HostLighting, HostRecording,
              HostProcessing, HostCompleted, HostIdle, EndSequence,
              Session!Voice
<1>4. CASE MicPress
  BY <1>4 DEF VoiceTypes, MicPress, voiceVars, Session!Voice
<1> QED
  BY <1>1, <1>2, <1>3, <1>4, StepGroups, QuietGroups

(* Every state the two tasks reach is well typed. *)
THEOREM TypeCorrect == Spec => []TypeOK
<1>1. Init => TypeOK
  BY DEF Init, TypeOK, InputPc, BlePc, Action, Session!Voice
<1>2. TypeOK <=> PcTypes /\ FlagTypes /\ LinkTypes /\ VoiceTypes
  BY DEF TypeOK, PcTypes, FlagTypes, LinkTypes, VoiceTypes
<1>3. TypeOK /\ [Next]_vars => TypeOK'
  <2> SUFFICES ASSUME TypeOK, [Next]_vars
               PROVE  PcTypes' /\ FlagTypes' /\ LinkTypes' /\ VoiceTypes'
    BY DEF TypeOK, PcTypes, FlagTypes, LinkTypes, VoiceTypes
  <2> QED
    BY <1>2, PcStep, FlagStep, LinkStep, VoiceStep DEF FlagTypes
<1> QED
  BY <1>1, <1>3, PTL DEF Spec

-----------------------------------------------------------------------------
(* The link.  While the BLE task is inside its disconnect handler the link *)
(* stays down; between the two the tracker is emptied, and nothing can be  *)
(* recorded over a link that is down.                                      *)
LinkInv ==
    /\ TrackerMirrorsHost
    /\ ~ connected => hostPressed = {}
    /\ ~ connected /\ blePc # "dropped" => pressed = {}
    /\ blePc # "idle" => ~ connected

LEMMA LinkInvKept ==
    ASSUME LinkInv, UNCHANGED linkVars,
           blePc' = blePc \/ (blePc # "dropped" /\ blePc' # "dropped"),
           blePc' # "idle" => blePc # "idle"
    PROVE  LinkInv'
  BY DEF LinkInv, TrackerMirrorsHost, linkVars

LEMMA LinkInvStep ==
    ASSUME clicking \in Action, LinkTypes, LinkInv, [Next]_vars
    PROVE  LinkInv'
<1>1. CASE PttSteps
  <2>1. blePc' = blePc \/ (blePc = "released" /\ blePc' = "muted")
    BY <1>1 DEF PttSteps, PttOn, PressFailed, ReleasePtt, MutePtt, BleGoes
  <2> QED
    BY <1>1, <2>1, QuietGroups, LinkInvKept
<1>2. CASE CheckSteps
  <2>1. blePc' = blePc
    BY <1>2 DEF CheckSteps, PressCheck, ReleaseCheck, ClickCheck, CheckConnected
  <2> QED
    BY <1>2, <2>1, QuietGroups, LinkInvKept
<1>3. CASE SendSteps
  <2>1. PICK action \in Action, press \in BOOLEAN :
            SendSucceeds(action, press) \/ SendFails(action, press)
    BY <1>3, SendStepsAreSends
  <2>2. blePc' = blePc
    BY <1>3, QuietGroups
  <2>3. CASE UNCHANGED linkVars
    BY <2>2, <2>3, LinkInvKept
  <2>4. CASE connected /\ connected' = connected
             /\ pressed' = Transition(pressed, action, press)
             /\ hostPressed' = Transition(hostPressed, action, press)
    BY <2>2, <2>4 DEF LinkInv, TrackerMirrorsHost
  <2> QED
    BY <2>1, <2>3, <2>4 DEF SendSucceeds, SendFails
<1>4. CASE IdleSteps
  <2>1. blePc' = blePc \/ (blePc = "muted" /\ blePc' = "cancelling")
    BY <1>4 DEF IdleSteps, NoGesture, MicRelease, Click, Poll, DeadlineAhead,
                RequestCancel, BleGoes
  <2> QED
    BY <1>4, <2>1, QuietGroups, LinkInvKept
<1>5. CASE ResetSteps
  <2>1. blePc' = blePc \/ (blePc = "cancelling" /\ blePc' = "idle")
    BY <1>5 DEF ResetSteps, PressReset, ReleaseDone, DeadlinePassed,
                ResetVoice, BleGoes
  <2> QED
    BY <1>5, <2>1, QuietGroups, LinkInvKept
<1>6. CASE Connect
  BY <1>6 DEF LinkInv, TrackerMirrorsHost, Connect
<1>7. CASE Disconnect
  BY <1>7 DEF LinkInv, TrackerMirrorsHost, Disconnect, BleGoes
<1>8. CASE ClearTracker \/ ReleaseAll
  BY <1>8 DEF LinkInv, TrackerMirrorsHost, ClearTracker, ReleaseAll, BleGoes
<1>9. CASE HostSteps \/ UNCHANGED vars
  <2>1. blePc' = blePc /\ UNCHANGED linkVars
    BY <1>9, QuietGroups
  <2> QED
    BY <2>1, LinkInvKept
<1>10. CASE MicPress
  BY <1>10 DEF LinkInv, TrackerMirrorsHost, MicPress
<1> QED
  BY <1>1, <1>2, <1>3, <1>4, <1>5, <1>6, <1>7, <1>8, <1>9, <1>10, StepGroups
  DEF LinkSteps

(* While the link is up the tracker holds exactly what the host holds down. *)
THEOREM TrackerCorrect == Spec => []TrackerMirrorsHost
<1>1. Init => LinkInv
  BY DEF Init, LinkInv, TrackerMirrorsHost
<1>2. TypeOK /\ LinkInv /\ [Next]_vars => LinkInv'
  BY LinkInvStep DEF TypeOK, LinkTypes
<1>3. LinkInv => TrackerMirrorsHost
  BY DEF LinkInv
<1> QED
  BY <1>1, <1>2, <1>3, TypeCorrect, PTL DEF Spec

-----------------------------------------------------------------------------
(* The voice display.  A confirmation never outlives its sequence.         *)
VoiceInv ==
    /\ CompletedIsConfirmed
    /\ DisplayWillSettle
    /\ confirmed => sequence

LEMMA VoiceInvStep ==
    ASSUME VoiceTypes, VoiceInv, [Next]_vars
    PROVE  VoiceInv'
<1> USE DEF VoiceInv, CompletedIsConfirmed, DisplayWillSettle
<1>1. CASE UNCHANGED voiceVars
  BY <1>1 DEF voiceVars
<1>2. CASE ResetSteps
  BY <1>2 DEF ResetSteps, PressReset, ReleaseDone, DeadlinePassed, ResetVoice,
              EndSequence
<1>3. CASE HostSteps
  BY <1>3 DEF HostSteps, HostLighting, HostRecording, HostProcessing,
              HostCompleted, HostIdle, TerminalAllowed, EndSequence
<1>4. CASE MicPress
  BY <1>4 DEF MicPress, voiceVars
<1> QED
  BY <1>1, <1>2, <1>3, <1>4, StepGroups, QuietGroups

LEMMA VoiceInvariant == Spec => [](VoiceTypes /\ VoiceInv)
<1>1. Init => VoiceTypes /\ VoiceInv
  BY DEF Init, VoiceTypes, Session!Voice, VoiceInv, CompletedIsConfirmed,
         DisplayWillSettle
<1>2. VoiceTypes /\ VoiceInv /\ [Next]_vars => (VoiceTypes /\ VoiceInv)'
  BY VoiceStep, VoiceInvStep
<1> QED
  BY <1>1, <1>2, PTL DEF Spec

(* "Written" is shown only for a sequence the host has confirmed. *)
THEOREM CompletedCorrect == Spec => []CompletedIsConfirmed
<1>1. VoiceInv => CompletedIsConfirmed
  BY DEF VoiceInv
<1> QED
  BY <1>1, VoiceInvariant, PTL

(* A Processing or Completed display always has its deadline armed. *)
THEOREM DeadlineArmed == Spec => []DisplayWillSettle
<1>1. VoiceInv => DisplayWillSettle
  BY DEF VoiceInv
<1> QED
  BY <1>1, VoiceInvariant, PTL

-----------------------------------------------------------------------------
(* Local tones.  Where a hold or a listening display is not covered by the *)
(* PTT flag, one of the tasks is inside the handler that sets the flag or  *)
(* ends the hold.                                                          *)
ToneInv ==
    active \/ voice \in {"PREPARING", "LISTENING"} =>
        \/ ptt
        \/ inputPc \in {"pttOn", "pressReset", "releaseDone"}
        \/ blePc \in {"muted", "cancelling"}

LEMMA ToneInvStep ==
    ASSUME ToneInv, [Next]_vars
    PROVE  ToneInv'
<1> USE DEF ToneInv, InputGoes, BleGoes
<1>1. CASE PttSteps
  BY <1>1 DEF PttSteps, PttOn, PressFailed, ReleasePtt, MutePtt, voiceVars
<1>2. CASE CheckSteps
  BY <1>2 DEF CheckSteps, PressCheck, ReleaseCheck, ClickCheck, CheckConnected, voiceVars
<1>3. CASE SendSteps
  BY <1>3 DEF SendSteps, PressSend, ReleaseSend, ClickSend, Send, voiceVars
<1>4. CASE IdleSteps
  BY <1>4 DEF IdleSteps, NoGesture, MicRelease, Click, Poll, DeadlineAhead,
              RequestCancel, voiceVars
<1>5. CASE ResetSteps
  BY <1>5 DEF ResetSteps, PressReset, ReleaseDone, DeadlinePassed, ResetVoice,
              EndSequence, inputVars
<1>6. CASE LinkSteps
  BY <1>6 DEF LinkSteps, Connect, Disconnect, ClearTracker, ReleaseAll,
              inputVars, voiceVars
<1>7. CASE HostSteps
  BY <1>7 DEF HostSteps, HostLighting, HostRecording, HostProcessing,
              HostCompleted, HostIdle, TerminalAllowed, EndSequence, inputVars
<1>8. CASE MicPress
  BY <1>8 DEF MicPress, voiceVars
<1>9. CASE UNCHANGED vars
  BY <1>9 DEF vars, inputVars, voiceVars
<1> QED
  BY <1>1, <1>2, <1>3, <1>4, <1>5, <1>6, <1>7, <1>8, <1>9, StepGroups

(* No local tone can leak into a hold once both tasks are at rest. *)
THEOREM TonesStaySuppressed == Spec => []TonesSuppressed
<1>1. Init => ToneInv
  BY DEF Init, ToneInv
<1>2. ToneInv /\ [Next]_vars => ToneInv'
  BY ToneInvStep
<1>3. ToneInv => TonesSuppressed
  BY DEF ToneInv, TonesSuppressed, AtRest, InputAtRest
<1> QED
  BY <1>1, <1>2, <1>3, PTL DEF Spec

-----------------------------------------------------------------------------
(* Every step of the two tasks is a step of VoiceSession or leaves the     *)
(* display and the confirmation alone.                                     *)
LEMMA SessionStep ==
    ASSUME VoiceTypes, VoiceInv, [Next]_vars
    PROVE  [Session!Next]_(Session!vars)
<1> USE DEF Session!Next, Session!vars
<1>1. CASE UNCHANGED voiceVars
  BY <1>1 DEF voiceVars
<1>2. CASE PressReset \/ DeadlinePassed \/ ResetVoice
  BY <1>2 DEF PressReset, DeadlinePassed, ResetVoice, EndSequence,
              Session!Settle
<1>3. CASE ReleaseDone
  BY <1>3 DEF ReleaseDone, EndSequence, Session!Settle, Session!Process
<1>4. CASE HostSteps
  BY <1>4 DEF HostSteps, HostLighting, HostRecording, HostProcessing,
              HostCompleted, HostIdle, TerminalAllowed, EndSequence,
              Session!Settle, Session!Process, Session!Listen,
              Session!Complete
<1>5. CASE MicPress
  <2>1. CASE UNCHANGED voiceVars
    BY <2>1 DEF voiceVars
  <2>2. CASE CanStart /\ voice' = "PREPARING" /\ confirmed' = FALSE
    <3>1. voice = "IDLE" /\ confirmed = FALSE
      BY <2>2 DEF CanStart, VoiceInv, VoiceTypes
    <3> QED
      BY <2>2, <3>1 DEF Session!Prepare
  <2> QED
    BY <1>5, <2>1, <2>2 DEF MicPress
<1> QED
  BY <1>1, <1>2, <1>3, <1>4, <1>5, StepGroups, QuietGroups DEF ResetSteps

(* The detailed protocol implements the promise about the display. *)
THEOREM Refinement == Spec => KeepsVoiceSession
<1>1. Init => Session!Init
  BY DEF Init, Session!Init
<1>2. VoiceTypes /\ VoiceInv /\ [Next]_vars => [Session!Next]_(Session!vars)
  BY SessionStep
<1> QED
  BY <1>1, <1>2, VoiceInvariant, PTL DEF Spec, KeepsVoiceSession, Session!Spec

-----------------------------------------------------------------------------
(* The local tones (LocalTones).                                            *)

(* A frame is written after its check: once one was written with PTT active *)
(* the next check ends the note, and so for every later note.               *)
NoteInv ==
    /\ late =< 1
    /\ pttActive /\ late = 1 => tone # "write"
    /\ ~ pttActive => late = 0
    /\ tone = "write" => left >= 1
    /\ tone \in {"check", "note", "frame", "write"} => notes >= 1

LEMMA ToneStep ==
    ASSUME ToneTypeOK, NoteInv, ToneNext
    PROVE  ToneTypeOK' /\ NoteInv'
<1> USE DEF ToneTypeOK, NoteInv, Notes
<1>1. CASE SetPtt
  BY <1>1 DEF SetPtt
<1>2. CASE \E n \in Notes : PlayTone(n)
  BY <1>2 DEF PlayTone
<1>3. CASE SendTone
  <2>1. queue' \in Seq({1, 2}) /\ Len(queue') <= ToneQueue
    BY <1>3, ToneAssumption DEF SendTone
  <2> QED
    BY <1>3, <2>1 DEF SendTone
<1>4. CASE ReceiveTone
  <2>1. /\ queue' \in Seq({1, 2}) /\ Len(queue') <= ToneQueue
        /\ notes' \in {1, 2}
    BY <1>4, ToneAssumption DEF ReceiveTone
  <2> QED
    BY <1>4, <2>1 DEF ReceiveTone
<1>5. CASE CheckPtt
  BY <1>5 DEF CheckPtt
<1>6. CASE StartNote
  BY <1>6, ToneAssumption DEF StartNote
<1>7. CASE NextFrame
  <2>1. CASE EndNote
    <3>1. notes' \in 0 .. 2 /\ left' \in 0 .. NoteFrames
      BY <1>7, <2>1, ToneAssumption DEF NextFrame, EndNote
    <3>2. tone' = "note" => notes' >= 1
      BY <1>7, <2>1 DEF NextFrame, EndNote
    <3>3. /\ tone' \in {"receive", "note"} /\ amplifier' \in BOOLEAN
          /\ UNCHANGED <<pttActive, asked, queue, late>>
      BY <1>7, <2>1 DEF NextFrame, EndNote
    <3> QED
      BY <3>1, <3>2, <3>3
  <2>2. CASE /\ left # 0 /\ ~ pttActive /\ tone' = "write"
             /\ UNCHANGED <<notes, left, amplifier>>
    BY <1>7, <2>2, ToneAssumption DEF NextFrame
  <2> QED
    BY <1>7, <2>1, <2>2 DEF NextFrame, Interrupted
<1>8. CASE WriteFrame
  BY <1>8, ToneAssumption DEF WriteFrame
<1> QED
  BY <1>1, <1>2, <1>3, <1>4, <1>5, <1>6, <1>7, <1>8 DEF ToneNext, ToneTask

-----------------------------------------------------------------------------
(* The microphone's way to the host (UsbMicrophone).                        *)

One(b) == IF b THEN 1 ELSE 0

(* Old chunks that the host has got since the stream changed or can get     *)
(* before anything in the FIFO: in the buffers of the microphone task, and  *)
(* the frame that is being pushed.                                          *)
InReady == One(size /\ ready = "old")
InChunk == One(chunk = "old")
InFrame == One(capture # "read" /\ frame = "old")
Ahead == stale + InReady + InChunk + InFrame

(* The microphone task has a chunk in hand, or is about to take one. *)
InHand == One(mic \in {"read", "mute", "swap"})

(* What the tasks know of the stream between their steps. *)
StreamInv ==
    /\ tusb = "idle" => (usbActive <=> micActive)
    /\ tusb \in {"notify", "opened"} => micActive
    /\ tusb \in {"closed", "clear"} => ~ micActive
    /\ tusb = "clear" => ~ usbActive
    /\ micActive => alt /\ bus = "active"
    /\ mic \in {"check", "wait", "read"} => chunk = "silence"
    /\ capture = "read" => frame = "old"

(* While the stream is open: an old frame in the FIFO is so near its head   *)
(* that, with those ahead of it, it is one of three; and nothing old is     *)
(* pushed behind what is new.                                               *)
OpenInv ==
    micActive =>
        /\ Ahead =< 3
        /\ \A i \in DOMAIN fifo : fifo[i] = "old" => i + Ahead =< 3
        /\ InFrame = 1 => \A i \in DOMAIN fifo : fifo[i] = "old"

(* While it is closed nothing is new, and once the FIFO was cleared at most *)
(* the one frame that was past its check of the flag is pushed.             *)
ClosedInv ==
    ~ micActive =>
        /\ stale + InReady + InHand =< 2
        /\ frame # "new" /\ chunk # "new" /\ ready # "new"
        /\ \A i \in DOMAIN fifo : fifo[i] = "old"
        /\ tusb = "idle" => Len(fifo) + One(capture = "push") =< 1

MicrophoneInv == MicrophoneTypeOK /\ StreamInv /\ OpenInv /\ ClosedInv

(* The FIFO when a callback ends the stream. *)
LEMMA AgedFifo ==
    ASSUME MicrophoneTypeOK, StreamEnds
    PROVE  /\ fifo' \in Seq({"old", "new"}) /\ Len(fifo') = Len(fifo)
           /\ \A i \in DOMAIN fifo' : fifo'[i] = "old"
<1>1. Len(fifo) \in Nat /\ DOMAIN fifo = 1 .. Len(fifo)
  BY DEF MicrophoneTypeOK
<1>2. fifo' = [i \in 1 .. Len(fifo) |-> "old"]
  BY <1>1 DEF StreamEnds
<1>3. fifo' \in [1 .. Len(fifo) -> {"old", "new"}]
  BY <1>2
<1>4. fifo' \in Seq({"old", "new"})
  BY <1>1, <1>3, SeqDef
<1>5. DOMAIN fifo' = 1 .. Len(fifo)
  BY <1>2
<1> QED
  BY <1>1, <1>2, <1>4, <1>5, LenProperties

LEMMA MicrophoneTypes ==
    ASSUME MicrophoneTypeOK, MicrophoneNext
    PROVE  MicrophoneTypeOK'
<1> USE DEF MicrophoneTypeOK, Sound, Chunk, hostVars, flagVars, captureVars,
            micVars
<1>1. CASE TinyUsb
  <2>1. CASE OpenNotify
    BY <2>1 DEF OpenNotify
  <2>2. CASE StreamState
    BY <2>2 DEF StreamState
  <2>3. CASE FifoClear
    BY <2>3, MicrophoneAssumption DEF FifoClear, Cleared
  <2> QED
    BY <1>1, <2>1, <2>2, <2>3 DEF TinyUsb
<1>2. CASE Host
  <2>1. CASE StreamEnds /\ bus' \in {"out", "active", "suspended"}
             /\ alt' \in BOOLEAN /\ size' \in BOOLEAN
    <3>1. fifo' \in Seq({"old", "new"}) /\ Len(fifo') <= FifoFrames
      BY <2>1, AgedFifo
    <3>2. /\ frame' = Old(frame) /\ chunk' = Old(chunk) /\ ready' = Old(ready)
          /\ ~ micActive' /\ micActive' \in BOOLEAN
          /\ tusb' = "closed" /\ stale' = 0
          /\ UNCHANGED <<notified, usbActive, muted, capture, mic>>
      BY <2>1 DEF StreamEnds
    <3>3. /\ frame' \in {"old", "new"}
          /\ chunk' \in {"old", "new"} \cup {"silence"}
          /\ ready' \in {"old", "new"} \cup {"silence"}
      BY <3>2 DEF Old
    <3> QED
      BY <2>1, <3>1, <3>2, <3>3
  <2>2. CASE Resume
    BY <2>2 DEF Resume
  <2>3. CASE OpenStream
    <3>1. /\ alt' \in BOOLEAN /\ size' \in BOOLEAN /\ micActive' \in BOOLEAN
          /\ stale' = 0 /\ tusb' = "notify"
          /\ UNCHANGED <<bus, notified, usbActive, muted, fifo, captureVars,
                         micVars>>
      BY <2>3 DEF OpenStream
    <3> QED
      BY <3>1
  <2>4. CASE SetMute
    BY <2>4 DEF SetMute
  <2> QED
    BY <1>2, <2>1, <2>2, <2>3, <2>4
       DEF Host, Mount, Unmount, Suspend, CloseStream
<1>3. CASE Capture
  <2>1. CASE CaptureRead \/ CaptureCheck
    BY <2>1 DEF CaptureRead, CaptureCheck
  <2>2. CASE FifoPush
    <3>1. fifo' \in Seq({"old", "new"}) /\ Len(fifo') <= FifoFrames
      BY <2>2, MicrophoneAssumption DEF FifoPush
    <3> QED
      BY <2>2, <3>1 DEF FifoPush
  <2> QED
    BY <1>3, <2>1, <2>2 DEF Capture
<1>4. CASE Microphone
  <2>1. CASE MicCheck \/ MicWakes \/ MuteChunk \/ Swap
    BY <2>1 DEF MicCheck, MicWakes, MuteChunk, Swap
  <2>2. CASE FifoPop
    <3>1. /\ fifo' \in Seq({"old", "new"}) /\ Len(fifo') <= FifoFrames
          /\ chunk' \in {"old", "new"} \cup {"silence"}
      BY <2>2, MicrophoneAssumption DEF FifoPop
    <3> QED
      BY <2>2, <3>1 DEF FifoPop
  <2> QED
    BY <1>4, <2>1, <2>2 DEF Microphone
<1>5. CASE TxDone
  <2>1. stale' \in 0 .. 4
    BY <1>5 DEF TxDone
  <2>2. /\ size' \in BOOLEAN /\ ready' = "silence"
        /\ UNCHANGED <<hostVars, tusb, micActive, notified, usbActive, muted,
                       fifo, captureVars, mic, chunk>>
    BY <1>5 DEF TxDone
  <2> QED
    BY <2>1, <2>2
<1> QED
  BY <1>1, <1>2, <1>3, <1>4, <1>5 DEF MicrophoneNext

LEMMA StreamStep ==
    ASSUME MicrophoneTypeOK, StreamInv, MicrophoneNext
    PROVE  StreamInv'
<1> USE DEF MicrophoneTypeOK, StreamInv, Sound, Chunk, hostVars, flagVars,
            captureVars, micVars
<1>1. CASE TinyUsb
  BY <1>1 DEF TinyUsb, OpenNotify, StreamState, FifoClear
<1>2. CASE StreamEnds
  BY <1>2 DEF StreamEnds, Old
<1>3. CASE Resume \/ OpenStream \/ SetMute
  BY <1>3 DEF Resume, OpenStream, SetMute
<1>4. CASE Capture
  BY <1>4 DEF Capture, CaptureRead, CaptureCheck, FifoPush
<1>5. CASE Microphone
  BY <1>5 DEF Microphone, MicCheck, MicWakes, FifoPop, MuteChunk, Swap
<1>6. CASE TxDone
  BY <1>6 DEF TxDone
<1> QED
  BY <1>1, <1>2, <1>3, <1>4, <1>5, <1>6
     DEF MicrophoneNext, Host, Mount, Unmount, Suspend, CloseStream

(* The parts of the counts are zero or one. *)
LEMMA Counts ==
    ASSUME MicrophoneTypeOK
    PROVE  /\ stale \in Nat /\ InReady \in 0 .. 1 /\ InChunk \in 0 .. 1
           /\ InFrame \in 0 .. 1 /\ InHand \in 0 .. 1
  BY DEF MicrophoneTypeOK, InReady, InChunk, InFrame, InHand, One

(* What a callback that ends the stream leaves. *)
LEMMA Ended ==
    ASSUME MicrophoneTypeOK, StreamEnds
    PROVE  /\ ~ micActive' /\ tusb' = "closed" /\ stale' = 0
           /\ frame' # "new" /\ chunk' # "new" /\ ready' # "new"
  BY DEF StreamEnds, MicrophoneTypeOK, Sound, Chunk, Old

(* How a step of the microphone task and of the endpoint changes the counts. *)
LEMMA PopCounts ==
    ASSUME MicrophoneInv, FifoPop
    PROVE  /\ fifo # <<>> => /\ fifo' = Tail(fifo)
                             /\ InChunk' = One(Head(fifo) = "old")
           /\ fifo = <<>> => fifo' = fifo /\ InChunk' = 0
           /\ InChunk = 0 /\ InHand = 1 /\ InHand' = 1
           /\ UNCHANGED <<stale, InReady, InFrame>>
<1>1. mic = "read" /\ mic' = "mute" /\ chunk = "silence"
  BY DEF MicrophoneInv, StreamInv, FifoPop
<1>2. UNCHANGED <<stale, InReady, InFrame>>
  BY DEF FifoPop, InReady, InFrame, One, flagVars, captureVars
<1>3. InChunk = 0 /\ InHand = 1 /\ InHand' = 1
  BY <1>1 DEF InChunk, InHand, One
<1>4. CASE fifo = <<>>
  <2>1. fifo' = fifo /\ chunk' = "silence"
    BY <1>4 DEF FifoPop
  <2> QED
    BY <1>2, <1>3, <1>4, <2>1 DEF InChunk, One
<1>5. CASE fifo # <<>>
  <2>1. fifo' = Tail(fifo) /\ chunk' = Head(fifo)
    BY <1>5 DEF FifoPop
  <2> QED
    BY <1>2, <1>3, <1>5, <2>1 DEF InChunk, One
<1> QED
  BY <1>4, <1>5

LEMMA MuteCounts ==
    ASSUME MicrophoneInv, MuteChunk
    PROVE  /\ InChunk' = InChunk \/ InChunk' = 0
           /\ InHand = 1 /\ InHand' = 1
           /\ UNCHANGED <<fifo, stale, InReady, InFrame>>
<1>1. /\ mic = "mute" /\ mic' = "swap"
      /\ UNCHANGED <<fifo, stale, size, ready, captureVars>>
  BY DEF MuteChunk, flagVars
<1>2. chunk' = chunk \/ chunk' = "silence"
  BY DEF MuteChunk
<1>3. InChunk' = InChunk \/ InChunk' = 0
  BY <1>2 DEF InChunk, One
<1> QED
  BY <1>1, <1>3 DEF InReady, InFrame, InHand, One, captureVars

LEMMA SwapCounts ==
    ASSUME MicrophoneInv, Swap
    PROVE  /\ InReady' = InChunk /\ InChunk' = 0
           /\ InHand = 1 /\ InHand' = 0
           /\ UNCHANGED <<fifo, stale, InFrame>>
  BY DEF Swap, InReady, InChunk, InFrame, InHand, One, captureVars

LEMMA TxCounts ==
    ASSUME MicrophoneInv, TxDone, stale =< 3
    PROVE  /\ InReady' = 0 /\ stale' = stale + InReady
           /\ UNCHANGED <<fifo, InChunk, InFrame, InHand>>
<1>1. /\ size /\ ~ size' /\ stale \in Nat
      /\ stale' = IF ready = "old" /\ stale < 4 THEN stale + 1 ELSE stale
      /\ UNCHANGED <<captureVars, mic, chunk, fifo>>
  BY DEF TxDone, MicrophoneInv, MicrophoneTypeOK
<1>2. CASE ready = "old"
  BY <1>1, <1>2 DEF InReady, InChunk, InFrame, InHand, One, captureVars
<1>3. CASE ready # "old"
  BY <1>1, <1>3 DEF InReady, InChunk, InFrame, InHand, One, captureVars
<1> QED
  BY <1>2, <1>3

(* The other steps of the microphone task. *)
LEMMA IdleCounts ==
    ASSUME MicrophoneInv, MicCheck \/ MicWakes
    PROVE  /\ UNCHANGED <<fifo, stale, InReady, InChunk, InFrame>>
           /\ ~ micActive => InHand' = 0
           /\ UNCHANGED <<micActive, capture, frame, chunk, ready, tusb>>
  BY DEF MicCheck, MicWakes, InReady, InChunk, InFrame, InHand, One,
         captureVars, flagVars, micVars

LEMMA OpenStep ==
    ASSUME MicrophoneInv, MicrophoneNext
    PROVE  OpenInv'
<1> SUFFICES ASSUME micActive' PROVE OpenInv'
  BY DEF OpenInv
<1> USE Counts DEF MicrophoneInv
<1>0. /\ Len(fifo) \in Nat /\ DOMAIN fifo = 1 .. Len(fifo)
      /\ \A i \in 1 .. Len(fifo) : fifo[i] \in {"old", "new"}
  BY DEF MicrophoneTypeOK, Sound
<1>1. ~ StreamEnds
  BY Ended
<1>2. CASE OpenStream
  <2>1. /\ ~ micActive /\ tusb = "idle" /\ stale' = 0 /\ ~ size'
        /\ UNCHANGED <<fifo, captureVars, micVars>>
    BY <1>2 DEF OpenStream, StreamInv
  <2>2. /\ InReady' = 0 /\ InChunk' = InChunk /\ InFrame' = InFrame
    BY <2>1 DEF InReady, InChunk, InFrame, One, captureVars, micVars
  <2>3. /\ Len(fifo) =< 1
        /\ \A i \in DOMAIN fifo : fifo[i] = "old"
    BY <2>1, <1>0 DEF ClosedInv, One
  <2>4. Ahead' =< 2
    BY <2>1, <2>2 DEF Ahead
  <2> QED
    BY <2>1, <2>2, <2>3, <2>4, <1>0 DEF OpenInv, Ahead
<1> SUFFICES ASSUME micActive
             PROVE  OpenInv'
  BY <1>1, <1>2 DEF MicrophoneNext, TinyUsb, Host, Capture, Microphone, Mount,
     Unmount, Suspend, CloseStream, Resume, SetMute, OpenNotify, StreamState,
     FifoClear, CaptureRead, CaptureCheck, FifoPush, MicCheck, MicWakes,
     FifoPop, MuteChunk, Swap, TxDone, flagVars
<1>3. /\ Ahead =< 3
      /\ \A i \in DOMAIN fifo : fifo[i] = "old" => i + Ahead =< 3
      /\ InFrame = 1 => \A i \in DOMAIN fifo : fifo[i] = "old"
  BY DEF OpenInv
<1>4. ASSUME fifo' = fifo, Ahead' \in Int, Ahead' =< Ahead,
             InFrame' = 1 => InFrame = 1
      PROVE  OpenInv'
  BY <1>0, <1>3, <1>4 DEF OpenInv, Ahead
<1>5. CASE OpenNotify \/ StreamState \/ SetMute \/ MicCheck \/ MicWakes
  <2>1. UNCHANGED <<fifo, stale, InReady, InChunk, InFrame>>
    <3>1. CASE MicCheck \/ MicWakes
      BY <3>1, IdleCounts
    <3>2. CASE OpenNotify \/ StreamState \/ SetMute
      <4>1. UNCHANGED <<fifo, stale, size, captureVars, micVars>>
        BY <3>2 DEF OpenNotify, StreamState, SetMute, flagVars
      <4> QED
        BY <4>1 DEF InReady, InChunk, InFrame, One, captureVars, micVars
    <3> QED
      BY <1>5, <3>1, <3>2
  <2> QED
    BY <2>1, <1>4 DEF Ahead
<1>6. ~ FifoClear /\ ~ Resume /\ ~ OpenStream
  BY DEF FifoClear, Resume, OpenStream, StreamInv
<1>7. CASE CaptureRead
  <2>1. /\ frame' = "new"
        /\ UNCHANGED <<fifo, stale, size, micVars>>
    BY <1>7 DEF CaptureRead, flagVars
  <2>2. InFrame' = 0 /\ UNCHANGED <<InReady, InChunk>>
    BY <2>1 DEF InFrame, InReady, InChunk, One, micVars
  <2> QED
    BY <2>1, <2>2, <1>4 DEF Ahead
<1>8. CASE CaptureCheck
  <2>1. /\ capture = "check"
        /\ \/ capture' = "push" /\ frame' = frame
           \/ capture' = "read" /\ frame' = "old"
        /\ UNCHANGED <<fifo, stale, size, micVars>>
    BY <1>8 DEF CaptureCheck, flagVars
  <2>2. /\ InFrame' = InFrame \/ InFrame' = 0
        /\ UNCHANGED <<InReady, InChunk>>
    BY <2>1 DEF InFrame, InReady, InChunk, One, micVars
  <2> QED
    BY <2>1, <2>2, <1>4 DEF Ahead
<1>9. CASE FifoPush
  <2>1. PICK kept :
          /\ kept = IF Len(fifo) = FifoFrames THEN Tail(fifo) ELSE fifo
          /\ fifo' = Append(kept, frame)
    BY <1>9 DEF FifoPush
  <2>2. /\ capture = "push" /\ capture' = "read"
        /\ UNCHANGED <<stale, size, micVars>>
    BY <1>9 DEF FifoPush, flagVars
  <2>3. /\ InFrame = One(frame = "old") /\ InFrame' = 0
        /\ UNCHANGED <<InReady, InChunk>>
    BY <2>2 DEF InFrame, InReady, InChunk, One, micVars
  <2>4. Ahead' = Ahead - InFrame /\ Ahead \in Nat
    BY <2>2, <2>3 DEF Ahead
  <2>5. /\ kept \in Seq({"old", "new"}) /\ frame \in {"old", "new"}
        /\ Len(kept) \in Nat /\ Len(kept) =< Len(fifo)
        /\ \/ \A i \in 1 .. Len(kept) : kept[i] = fifo[i]
           \/ /\ \A i \in 1 .. Len(kept) : kept[i] = fifo[i + 1]
              /\ Len(kept) + 1 = Len(fifo)
    BY <2>1, MicrophoneAssumption DEF MicrophoneTypeOK, Sound
  <2>6. /\ \A i \in 1 .. Len(kept) : kept[i] = "old" => i + Ahead =< 3
        /\ InFrame = 1 => \A i \in 1 .. Len(kept) : kept[i] = "old"
    <3>1. Len(kept) \in Nat /\ Len(kept) =< Len(fifo)
      BY <2>5
    <3>2. ASSUME NEW i \in 1 .. Len(kept)
          PROVE  \E j \in DOMAIN fifo : i =< j /\ kept[i] = fifo[j]
      <4>1. CASE kept[i] = fifo[i]
        BY <4>1, <3>1, <1>0
      <4>2. CASE kept[i] = fifo[i + 1] /\ Len(kept) + 1 = Len(fifo)
        BY <4>2, <3>1, <1>0
      <4> QED
        BY <4>1, <4>2, <2>5
    <3>3. ASSUME NEW i \in 1 .. Len(kept), kept[i] = "old"
          PROVE  i + Ahead =< 3
      <4>1. PICK j \in DOMAIN fifo : i =< j /\ fifo[j] = "old"
        BY <3>2, <3>3
      <4>2. j + Ahead =< 3 /\ j \in Nat
        BY <4>1, <1>0, <1>3
      <4> QED
        BY <4>1, <4>2, <2>4
    <3>4. ASSUME InFrame = 1, NEW i \in 1 .. Len(kept)
          PROVE  kept[i] = "old"
      BY <3>2, <3>4, <1>3
    <3> QED
      BY <3>3, <3>4
  <2>7. /\ DOMAIN fifo' = 1 .. Len(kept) + 1
        /\ \A i \in 1 .. Len(kept) : fifo'[i] = kept[i]
        /\ fifo'[Len(kept) + 1] = frame
    BY <2>1, <2>5
  <2>8. ASSUME NEW i \in DOMAIN fifo', fifo'[i] = "old"
        PROVE  i + Ahead' =< 3
    <3>1. CASE i \in 1 .. Len(kept)
      BY <3>1, <2>4, <2>6, <2>7, <2>8
    <3>2. CASE i = Len(kept) + 1
      <4>1. InFrame = 1
        BY <3>2, <2>3, <2>7, <2>8 DEF One
      <4>2. Len(kept) = 0 \/ Len(kept) + Ahead =< 3
        BY <4>1, <2>5, <2>6
      <4> QED
        BY <3>2, <4>1, <4>2, <2>4, <2>5, <1>3
    <3> QED
      BY <3>1, <3>2, <2>5, <2>7
  <2> QED
    BY <2>3, <2>4, <2>8, <1>3 DEF OpenInv
<1>10. CASE FifoPop
  <2>1. CASE fifo = <<>>
    BY <2>1, <1>4, <1>10, PopCounts DEF Ahead
  <2>2. CASE fifo # <<>>
    <3>1. /\ Len(fifo) >= 1 /\ DOMAIN Tail(fifo) = 1 .. Len(fifo) - 1
          /\ Head(fifo) = fifo[1]
          /\ \A i \in 1 .. Len(fifo) - 1 : Tail(fifo)[i] = fifo[i + 1]
      BY <2>2 DEF MicrophoneTypeOK, Sound
    <3>2. /\ fifo' = Tail(fifo) /\ InFrame' = InFrame
          /\ InChunk = 0 /\ InChunk' = One(fifo[1] = "old")
          /\ UNCHANGED <<stale, InReady>>
      BY <2>2, <1>10, <3>1, PopCounts
    <3>3. DOMAIN fifo' = 1 .. Len(fifo) - 1
      BY <3>1, <3>2
    <3>4. /\ Ahead \in Nat /\ Ahead' \in Nat /\ Ahead' =< Ahead + 1
          /\ fifo[1] # "old" => Ahead' = Ahead
      BY <3>2 DEF Ahead, One
    <3>5. Ahead' =< 3
      <4>1. CASE fifo[1] = "old"
        <5>1. 1 + Ahead =< 3
          BY <4>1, <3>1, <1>0, <1>3
        <5> QED
          BY <5>1, <3>4
      <4> QED
        BY <4>1, <3>4, <1>3
    <3>6. ASSUME NEW i \in DOMAIN fifo'
          PROVE  fifo'[i] = fifo[i + 1] /\ i + 1 \in DOMAIN fifo
      BY <3>1, <3>2, <3>3, <1>0
    <3>7. ASSUME NEW i \in DOMAIN fifo', fifo'[i] = "old"
          PROVE  i + Ahead' =< 3
      <4>1. i + 1 + Ahead =< 3 /\ i \in Nat
        BY <3>3, <3>6, <3>7, <1>3, <3>1
      <4> QED
        BY <4>1, <3>4
    <3>8. InFrame' = 1 => \A i \in DOMAIN fifo' : fifo'[i] = "old"
      BY <3>2, <3>6, <1>3
    <3> QED
      BY <3>5, <3>7, <3>8 DEF OpenInv
  <2> QED
    BY <2>1, <2>2
<1>11. CASE MuteChunk
  BY <1>4, <1>11, MuteCounts DEF Ahead
<1>12. CASE Swap
  BY <1>4, <1>12, SwapCounts DEF Ahead
<1>13. CASE TxDone
  <2>1. stale =< 3
    BY <1>3 DEF Ahead
  <2> QED
    BY <2>1, <1>4, <1>13, TxCounts DEF Ahead
<1> QED
  BY <1>1, <1>5, <1>6, <1>7, <1>8, <1>9, <1>10, <1>11, <1>12, <1>13
     DEF MicrophoneNext, TinyUsb, Host, Capture, Microphone, Mount, Unmount,
         Suspend, CloseStream

LEMMA ClosedStep ==
    ASSUME MicrophoneInv, MicrophoneNext
    PROVE  ClosedInv'
<1> SUFFICES ASSUME ~ micActive' PROVE ClosedInv'
  BY DEF ClosedInv
<1> USE Counts DEF MicrophoneInv
<1>0. /\ Len(fifo) \in Nat /\ DOMAIN fifo = 1 .. Len(fifo)
      /\ \A i \in 1 .. Len(fifo) : fifo[i] \in {"old", "new"}
  BY DEF MicrophoneTypeOK, Sound
<1>1. CASE StreamEnds
  <2>1. stale' = 0 /\ InReady' \in {0, 1} /\ InHand' \in {0, 1}
    BY <1>1, Ended DEF InReady, InHand, One
  <2>2. stale' + InReady' + InHand' =< 2
    <3>1. \A a, b \in {0, 1} : 0 + a + b =< 2
      OBVIOUS
    <3> QED
      BY <2>1, <3>1, Zenon
  <2> QED
    BY <1>1, <2>2, Ended, AgedFifo DEF ClosedInv
<1>2. CASE ~ micActive /\ ~ StreamEnds
  <2>1. /\ stale + InReady + InHand =< 2
        /\ frame # "new" /\ chunk # "new" /\ ready # "new"
        /\ \A i \in DOMAIN fifo : fifo[i] = "old"
        /\ tusb = "idle" => Len(fifo) + One(capture = "push") =< 1
    BY <1>2 DEF ClosedInv
  <2>2. CASE OpenNotify \/ StreamState \/ Resume \/ SetMute
    <3>1. /\ UNCHANGED <<fifo, size, captureVars, micVars, stale>>
          /\ tusb' = "idle" => tusb = "idle"
      BY <1>2, <2>2 DEF OpenNotify, StreamState, Resume, SetMute, StreamInv,
         flagVars
    <3> QED
      BY <2>1, <3>1 DEF ClosedInv, InReady, InHand, captureVars, micVars
  <2>3. CASE FifoClear
    <3>1. fifo' = <<>> /\ UNCHANGED <<size, captureVars, micVars, stale>>
      BY <2>3 DEF FifoClear, Cleared, flagVars
    <3> QED
      BY <2>1, <3>1 DEF ClosedInv, InReady, InHand, One, captureVars, micVars
  <2>4. CASE CaptureRead \/ CaptureCheck
    <3>1. /\ frame' # "new" /\ UNCHANGED <<tusb, fifo, size, micVars, stale>>
          /\ tusb = "idle" => capture' # "push"
      BY <1>2, <2>1, <2>4 DEF CaptureRead, CaptureCheck, StreamInv, flagVars
    <3> QED
      BY <2>1, <3>1, <1>0 DEF ClosedInv, InReady, InHand, One, micVars
  <2>5. CASE FifoPush
    <3>1. /\ capture = "push" /\ capture' = "read" /\ frame' = "old"
          /\ UNCHANGED <<tusb, size, micVars, stale>>
      BY <2>5 DEF FifoPush, flagVars
    <3>2. frame = "old"
      BY <2>1 DEF MicrophoneTypeOK, Sound
    <3>3. /\ Len(fifo') \in Nat /\ Len(fifo') =< Len(fifo) + 1
          /\ \A i \in DOMAIN fifo' : fifo'[i] = "old"
      <4>1. CASE Len(fifo) = FifoFrames
        BY <2>1, <2>5, <3>2, <4>1, MicrophoneAssumption
           DEF FifoPush, MicrophoneTypeOK, Sound
      <4>2. CASE Len(fifo) # FifoFrames
        BY <2>1, <2>5, <3>2, <4>2 DEF FifoPush, MicrophoneTypeOK, Sound
      <4> QED
        BY <4>1, <4>2
    <3> QED
      BY <2>1, <3>1, <3>3, <1>0 DEF ClosedInv, InReady, InHand, One, micVars
  <2>6. CASE MicCheck \/ MicWakes
    BY <1>2, <2>1, <2>6, IdleCounts DEF ClosedInv
  <2>7. CASE FifoPop
    <3>1. UNCHANGED <<tusb, frame, capture, ready>>
      BY <2>7 DEF FifoPop, captureVars
    <3>2. /\ Len(fifo') \in Nat /\ Len(fifo') =< Len(fifo) /\ chunk' # "new"
          /\ \A i \in DOMAIN fifo' : fifo'[i] = "old"
      <4>1. CASE fifo = <<>>
        BY <2>1, <2>7, <4>1 DEF FifoPop
      <4>2. CASE fifo # <<>>
        <5>1. fifo' = Tail(fifo) /\ chunk' = Head(fifo)
          BY <2>7, <4>2 DEF FifoPop
        <5>2. /\ Len(fifo') = Len(fifo) - 1 /\ DOMAIN fifo' = 1 .. Len(fifo')
              /\ \A i \in 1 .. Len(fifo') : fifo'[i] = fifo[i + 1]
              /\ Head(fifo) = fifo[1] /\ Len(fifo) >= 1
          BY <4>2, <5>1 DEF MicrophoneTypeOK, Sound
        <5> QED
          BY <2>1, <5>1, <5>2, <1>0
      <4> QED
        BY <4>1, <4>2
    <3> QED
      BY <2>1, <2>7, <3>1, <3>2, <1>0, PopCounts DEF ClosedInv, One
  <2>8. CASE MuteChunk
    <3>1. chunk' # "new" /\ UNCHANGED <<tusb, frame, capture, ready>>
      BY <2>1, <2>8 DEF MuteChunk, captureVars
    <3> QED
      BY <2>1, <2>8, <3>1, MuteCounts DEF ClosedInv
  <2>9. CASE Swap
    <3>1. /\ chunk' # "new" /\ ready' # "new"
          /\ UNCHANGED <<tusb, frame, capture>>
      BY <2>1, <2>9 DEF Swap, captureVars
    <3> QED
      BY <2>1, <2>9, <3>1, SwapCounts DEF ClosedInv
  <2>10. CASE TxDone
    <3>1. ready' # "new" /\ UNCHANGED <<tusb, frame, capture, chunk>>
      BY <2>10 DEF TxDone, captureVars
    <3>2. stale =< 3
      BY <2>1
    <3> QED
      BY <2>1, <2>10, <3>1, <3>2, TxCounts DEF ClosedInv
  <2>11. ~ OpenStream
    BY DEF OpenStream
  <2> QED
    BY <1>2, <2>2, <2>3, <2>4, <2>5, <2>6, <2>7, <2>8, <2>9, <2>10, <2>11
       DEF MicrophoneNext, TinyUsb, Host, Capture, Microphone, Mount, Unmount,
           Suspend, CloseStream
<1>3. StreamEnds \/ ~ micActive
  BY DEF MicrophoneNext, TinyUsb, Host, Capture, Microphone, Mount, Unmount,
     Suspend, CloseStream, OpenStream, Resume, SetMute, OpenNotify, StreamState,
     FifoClear, CaptureRead, CaptureCheck, FifoPush, MicCheck, MicWakes,
     FifoPop, MuteChunk, Swap, TxDone, flagVars
<1> QED
  BY <1>1, <1>2, <1>3

(* The two parts of the component keep out of each other's way. *)
AudioInv == ToneTypeOK /\ NoteInv /\ MicrophoneInv

LEMMA AudioStart == AudioInit => AudioInv
<1> SUFFICES ASSUME AudioInit PROVE AudioInv
  OBVIOUS
<1> USE DEF AudioInit, MicrophoneInit, ToneInit
<1>1. ToneTypeOK /\ NoteInv
  <2>1. pttActive \in BOOLEAN /\ amplifier \in BOOLEAN
    OBVIOUS
  <2>2. queue \in Seq(Notes) /\ Len(queue) = 0
    OBVIOUS
  <2> QED
    BY <2>1, <2>2, ToneAssumption DEF ToneTypeOK, NoteInv
<1>2. MicrophoneTypeOK
  <2>1. /\ alt \in BOOLEAN /\ micActive \in BOOLEAN /\ size \in BOOLEAN
        /\ notified \in BOOLEAN /\ usbActive \in BOOLEAN /\ muted \in BOOLEAN
    OBVIOUS
  <2>2. fifo \in Seq(Sound) /\ Len(fifo) = 0
    OBVIOUS
  <2> QED
    BY <2>1, <2>2, MicrophoneAssumption DEF MicrophoneTypeOK, Sound, Chunk
<1>3. StreamInv /\ OpenInv
  BY DEF StreamInv, OpenInv
<1>4. ClosedInv
  BY DEF ClosedInv, InReady, InHand, One
<1> QED
  BY <1>1, <1>2, <1>3, <1>4 DEF AudioInv, MicrophoneInv

LEMMA AudioStep == AudioInv /\ [AudioNext]_audioVars => AudioInv'
<1> SUFFICES ASSUME AudioInv, [AudioNext]_audioVars PROVE AudioInv'
  OBVIOUS
<1>1. ASSUME UNCHANGED toneVars PROVE ToneTypeOK' /\ NoteInv'
  BY <1>1 DEF toneVars, AudioInv, ToneTypeOK, NoteInv
<1>2. ASSUME UNCHANGED microphoneVars PROVE MicrophoneInv'
  BY <1>2 DEF microphoneVars, hostVars, flagVars, captureVars, micVars,
     AudioInv, MicrophoneInv, MicrophoneTypeOK, StreamInv, OpenInv, ClosedInv,
     Ahead, InReady, InChunk, InFrame, InHand
<1>3. ASSUME MicrophoneNext PROVE MicrophoneInv'
  BY <1>3, MicrophoneTypes, StreamStep, OpenStep, ClosedStep
     DEF AudioInv, MicrophoneInv
<1>4. ASSUME ToneNext PROVE ToneTypeOK' /\ NoteInv'
  BY <1>4, ToneStep DEF AudioInv
<1> QED
  BY <1>1, <1>2, <1>3, <1>4
     DEF AudioInv, AudioNext, Microphones, Tones, audioVars

LEMMA AudioInvariant == AudioSpec => []AudioInv
  BY AudioStart, AudioStep, PTL DEF AudioSpec

(* Type correctness of the microphone's path and of the tones. *)
THEOREM AudioTypeCorrect == AudioSpec => [](MicrophoneTypeOK /\ ToneTypeOK)
<1>1. AudioInv => MicrophoneTypeOK /\ ToneTypeOK
  BY DEF AudioInv, MicrophoneInv
<1> QED
  BY <1>1, AudioInvariant, PTL

(* Whatever the host does with the bus and the stream, and for every length *)
(* of the FIFO, a stream brings at most three chunks that were not recorded *)
(* in it (stream_state, fifo_push, usb_read, tud_audio_tx_done_isr).        *)
THEOREM OldSoundEnds == AudioSpec => []StaleBounded
<1>1. AudioInv => StaleBounded
  <2> SUFFICES ASSUME AudioInv PROVE stale =< 3
    BY DEF StaleBounded
  <2> USE Counts DEF AudioInv, MicrophoneInv
  <2>1. CASE micActive
    BY <2>1 DEF OpenInv, Ahead
  <2>2. CASE ~ micActive
    BY <2>2 DEF ClosedInv
  <2> QED
    BY <2>1, <2>2
<1> QED
  BY <1>1, AudioInvariant, PTL

(* For every queue and length of a note: once PTT is active at most the     *)
(* frame that was past its check is written (play_frequency, tone_task).    *)
THEOREM TonesAreCut == AudioSpec => []TonesStop
<1>1. AudioInv => TonesStop
  BY DEF AudioInv, NoteInv, TonesStop
<1> QED
  BY <1>1, AudioInvariant, PTL
=============================================================================
