----------------------------- MODULE LocalTones -----------------------------
(***************************************************************************)
(* The local tones and the PTT flag that suppresses them                   *)
(* (app/audio/usb_microphone.cpp).  A tone is the number of its notes, a   *)
(* note a number of frames of 10 ms.  Tones are asked for by several       *)
(* tasks, each of which reads the flag before it sends to the queue: one   *)
(* asker stands for all of them.                                           *)
(* Operators named X_Defect are defective variants of X that no action     *)
(* uses: each breaks one of the properties.                                *)
(***************************************************************************)
EXTENDS Integers, Sequences

CONSTANTS
    ToneQueue,   \* the length of tone_queue, 4 in the code
    NoteFrames   \* frames of a note, 5 or 6 in the code

ASSUME ToneAssumption == ToneQueue \in Nat \ {0} /\ NoteFrames \in Nat \ {0}

VARIABLES
    pttActive,      \* s_ptt_active
    asked,    \* the tone of a play_tone that has read the flag, or 0
    queue,    \* tone_queue
    tone,     \* what tone_task does next
    notes, left,  \* notes and frames of the tone being played
    amplifier,
    late      \* history: frames written since PTT became active

toneVars == <<pttActive, asked, queue, tone, notes, left, amplifier, late>>

Notes == {1, 2}

ToneTypeOK ==
    /\ pttActive \in BOOLEAN /\ amplifier \in BOOLEAN
    /\ asked \in {0} \cup Notes
    /\ queue \in Seq(Notes) /\ Len(queue) <= ToneQueue
    /\ tone \in {"receive", "check", "note", "frame", "write"}
    /\ notes \in 0 .. 2 /\ left \in 0 .. NoteFrames
    /\ late \in 0 .. 2

ToneInit ==
    /\ pttActive = FALSE /\ asked = 0 /\ queue = <<>>
    /\ tone = "receive" /\ notes = 0 /\ left = 0
    /\ amplifier = FALSE /\ late = 0

(* microphone_input_set_ptt_active *)
SetPtt ==
    /\ pttActive' = ~ pttActive /\ late' = 0
    /\ UNCHANGED <<asked, queue, tone, notes, left, amplifier>>

(* microphone_input_play_tone: the flag is read before the tone is sent,    *)
(* and a full queue drops it.                                               *)
PlayTone(n) ==
    /\ asked = 0 /\ ~ pttActive
    /\ asked' = n
    /\ UNCHANGED <<pttActive, queue, tone, notes, left, amplifier, late>>

SendTone ==
    /\ asked # 0
    /\ queue' = IF Len(queue) < ToneQueue THEN Append(queue, asked) ELSE queue
    /\ asked' = 0
    /\ UNCHANGED <<pttActive, tone, notes, left, amplifier, late>>

(* tone_task *)
ReceiveTone ==
    /\ tone = "receive" /\ queue # <<>>
    /\ notes' = Head(queue) /\ queue' = Tail(queue)
    /\ tone' = "check"
    /\ UNCHANGED <<pttActive, asked, left, amplifier, late>>

CheckPtt ==
    /\ tone = "check"
    /\ IF pttActive THEN tone' = "receive" /\ notes' = 0
              ELSE tone' = "note" /\ UNCHANGED notes
    /\ UNCHANGED <<pttActive, asked, queue, left, amplifier, late>>

(* play_frequency *)
StartNote ==
    /\ tone = "note"
    /\ amplifier' = TRUE /\ left' = NoteFrames
    /\ tone' = "frame"
    /\ UNCHANGED <<pttActive, asked, queue, notes, late>>

EndNote ==
    /\ left' = 0 /\ notes' = notes - 1
    /\ amplifier' = FALSE
    /\ tone' = IF notes = 1 THEN "receive" ELSE "note"

Interrupted_AtStart == pttActive /\ left = NoteFrames

Interrupted == pttActive

NextFrame ==
    /\ tone = "frame"
    /\ IF left = 0 \/ Interrupted THEN EndNote
       ELSE tone' = "write" /\ UNCHANGED <<notes, left, amplifier>>
    /\ UNCHANGED <<pttActive, asked, queue, late>>

WriteFrame ==
    /\ tone = "write"
    /\ left' = left - 1
    /\ late' = IF pttActive /\ late < 2 THEN late + 1 ELSE late
    /\ tone' = "frame"
    /\ UNCHANGED <<pttActive, asked, queue, notes, amplifier>>

ToneTask ==
    ReceiveTone \/ CheckPtt \/ StartNote \/ NextFrame \/ WriteFrame

ToneNext ==
    SetPtt \/ (\E n \in Notes : PlayTone(n)) \/ SendTone \/ ToneTask

-----------------------------------------------------------------------------
(* PTT suppresses active and queued tones (docs/ARCHITECTURE.md:97): once   *)
(* it is active at most the one frame that was past its check is written,   *)
(* whatever was queued, asked for or being played.                          *)
TonesStop == late <= 1
=============================================================================
