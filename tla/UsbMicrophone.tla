--------------------------- MODULE UsbMicrophone ---------------------------
(***************************************************************************)
(* The microphone's way from the codec to the USB host                     *)
(* (app/audio/usb_microphone.cpp, components/usb_device_uac).              *)
(*                                                                         *)
(* The capture task pushes frames into a FIFO while s_usb_active; the UAC  *)
(* microphone task pops them, mutes them and swaps a double buffer that    *)
(* the endpoint's interrupt empties; the TinyUSB task opens and closes the *)
(* stream under both.  One frame is one chunk: both take 10 ms.  A frame   *)
(* is "new" if it was recorded in the stream now open, else "old"; a chunk *)
(* can also be "silence".  Times are left to chance, gain is left out.     *)
(* Operators named X_Defect are defective variants of X that no action     *)
(* uses: each breaks one of the properties.                                *)
(***************************************************************************)
EXTENDS Integers, Sequences

CONSTANT FifoFrames  \* FIFO_SAMPLES in frames, 10 in the code

ASSUME MicrophoneAssumption == FifoFrames \in Nat \ {0}

VARIABLES
    bus, alt,     \* external: the USB bus and the host's alternate setting
    tusb,         \* what the TinyUSB task does next
    micActive, size, notified,  \* mic_active, mic_data_size # 0, notification
    usbActive, muted, fifo,        \* s_usb_active, s_usb_muted, fifo
    capture, frame,             \* the capture task and its frame
    mic, chunk, ready,          \* the UAC task, its write buffer, the read one
    stale  \* history: old chunks sent since the stream last changed

hostVars == <<bus, alt>>
flagVars == <<micActive, size, notified, usbActive>>
captureVars == <<capture, frame>>
micVars == <<mic, chunk, ready>>
microphoneVars ==
    <<hostVars, tusb, flagVars, muted, fifo, captureVars, micVars, stale>>

Sound == {"old", "new"}
Chunk == Sound \cup {"silence"}

MicrophoneTypeOK ==
    /\ bus \in {"out", "active", "suspended"}
    /\ tusb \in {"idle", "notify", "opened", "closed", "clear"}
    /\ alt \in BOOLEAN /\ micActive \in BOOLEAN /\ size \in BOOLEAN
    /\ notified \in BOOLEAN /\ usbActive \in BOOLEAN /\ muted \in BOOLEAN
    /\ fifo \in Seq(Sound) /\ Len(fifo) <= FifoFrames
    /\ capture \in {"read", "check", "push"} /\ frame \in Sound
    /\ mic \in {"check", "wait", "read", "mute", "swap"}
    /\ chunk \in Chunk /\ ready \in Chunk
    /\ stale \in 0 .. 4

MicrophoneInit ==
    /\ bus = "out" /\ alt = FALSE /\ tusb = "idle"
    /\ micActive = FALSE /\ size = FALSE /\ notified = FALSE
    /\ usbActive = FALSE /\ muted = FALSE /\ fifo = <<>>
    /\ capture = "read" /\ frame = "old"
    /\ mic = "check" /\ chunk = "silence" /\ ready = "silence"
    /\ stale = 0

-----------------------------------------------------------------------------
(* The TinyUSB task.  A callback that ends the stream turns what was        *)
(* recorded in it old.                                                      *)

Old(c) == IF c = "new" THEN "old" ELSE c

StreamEnds ==
    /\ tusb = "idle"
    /\ micActive' = FALSE
    /\ fifo' = [i \in DOMAIN fifo |-> "old"]
    /\ frame' = Old(frame) /\ chunk' = Old(chunk) /\ ready' = Old(ready)
    /\ tusb' = "closed" /\ stale' = 0
    /\ UNCHANGED <<notified, usbActive, muted, capture, mic>>

(* tud_mount_cb, tud_umount_cb and tud_suspend_cb leave mic_data_size. *)
Mount ==
    /\ bus = "out" /\ bus' = "active"
    /\ StreamEnds /\ UNCHANGED <<alt, size>>

Unmount ==
    /\ bus # "out" /\ bus' = "out" /\ alt' = FALSE
    /\ StreamEnds /\ UNCHANGED size

Suspend ==
    /\ bus = "active" /\ bus' = "suspended"
    /\ StreamEnds /\ UNCHANGED <<alt, size>>

(* tud_resume_cb only logs: the host still has its alternate setting. *)
Resume ==
    /\ bus = "suspended" /\ bus' = "active"
    /\ UNCHANGED <<alt, tusb, flagVars, muted, fifo, captureVars, micVars,
                   stale>>

(* tud_audio_set_itf_close_EP_cb *)
CloseStream ==
    /\ bus = "active" /\ alt /\ alt' = FALSE
    /\ size' = FALSE
    /\ StreamEnds /\ UNCHANGED bus

(* tud_audio_set_itf_cb *)
OpenStream_NoNotify ==
    /\ bus = "active" /\ ~ alt /\ tusb = "idle"
    /\ alt' = TRUE
    /\ size' = FALSE /\ micActive' = TRUE
    /\ stale' = 0
    /\ tusb' = "opened"
    /\ UNCHANGED <<bus, notified, usbActive, muted, fifo, captureVars, micVars>>

OpenStream ==
    /\ bus = "active" /\ ~ alt /\ tusb = "idle"
    /\ alt' = TRUE
    /\ size' = FALSE /\ micActive' = TRUE
    /\ stale' = 0
    /\ tusb' = "notify"
    /\ UNCHANGED <<bus, notified, usbActive, muted, fifo, captureVars, micVars>>

OpenNotify ==
    /\ tusb = "notify"
    /\ notified' = TRUE /\ tusb' = "opened"
    /\ UNCHANGED <<hostVars, micActive, size, usbActive, muted, fifo, captureVars,
                   micVars, stale>>

(* stream_state, which clears the FIFO after it has stored the flag *)
StreamState ==
    /\ tusb \in {"opened", "closed"}
    /\ usbActive' = micActive
    /\ tusb' = IF micActive THEN "idle" ELSE "clear"
    /\ UNCHANGED <<hostVars, micActive, size, notified, muted, fifo, captureVars,
                   micVars, stale>>

Cleared_Kept == fifo
Cleared == <<>>

FifoClear ==
    /\ tusb = "clear"
    /\ fifo' = Cleared /\ tusb' = "idle"
    /\ UNCHANGED <<hostVars, flagVars, muted, captureVars, micVars, stale>>

(* set_mute, from the host's feature-unit request *)
SetMute ==
    /\ bus = "active" /\ tusb = "idle"
    /\ muted' = ~ muted
    /\ UNCHANGED <<hostVars, tusb, flagVars, fifo, captureVars, micVars, stale>>

-----------------------------------------------------------------------------
(* capture_task: the flag is read, and then the FIFO's lock is taken.       *)

CaptureRead ==
    /\ capture = "read"
    /\ frame' = IF micActive THEN "new" ELSE "old"
    /\ capture' = "check"
    /\ UNCHANGED <<hostVars, tusb, flagVars, muted, fifo, micVars, stale>>

CaptureCheck ==
    /\ capture = "check"
    /\ capture' = IF usbActive THEN "push" ELSE "read"
    /\ frame' = IF usbActive THEN frame ELSE "old"
    /\ UNCHANGED <<hostVars, tusb, flagVars, muted, fifo, micVars, stale>>

(* fifo_push drops the oldest. *)
FifoPush ==
    /\ capture = "push"
    /\ fifo' = Append(IF Len(fifo) = FifoFrames THEN Tail(fifo) ELSE fifo, frame)
    /\ capture' = "read" /\ frame' = "old"
    /\ UNCHANGED <<hostVars, tusb, flagVars, muted, micVars, stale>>

-----------------------------------------------------------------------------
(* usb_mic_task *)

MicCheck ==
    /\ mic = "check"
    /\ mic' = IF micActive THEN "read" ELSE "wait"
    /\ UNCHANGED <<hostVars, tusb, flagVars, muted, fifo, captureVars, chunk,
                   ready, stale>>

MicWakes ==
    /\ mic = "wait" /\ notified
    /\ notified' = FALSE /\ mic' = "check"
    /\ UNCHANGED <<hostVars, tusb, micActive, size, usbActive, muted, fifo,
                   captureVars, chunk, ready, stale>>

(* usb_read: what the FIFO lacks is silence, and so is all of it if muted. *)
FifoPop ==
    /\ mic = "read"
    /\ IF fifo = <<>> THEN chunk' = "silence" /\ UNCHANGED fifo
       ELSE chunk' = Head(fifo) /\ fifo' = Tail(fifo)
    /\ mic' = "mute"
    /\ UNCHANGED <<hostVars, tusb, flagVars, muted, captureVars, ready, stale>>

MuteChunk ==
    /\ mic = "mute"
    /\ chunk' = IF muted THEN "silence" ELSE chunk
    /\ mic' = "swap"
    /\ UNCHANGED <<hostVars, tusb, flagVars, muted, fifo, captureVars, ready,
                   stale>>

Swap ==
    /\ mic = "swap"
    /\ ready' = chunk /\ chunk' = "silence" /\ size' = TRUE
    /\ mic' = "check"
    /\ UNCHANGED <<hostVars, tusb, micActive, notified, usbActive, muted, fifo,
                   captureVars, stale>>

(* tud_audio_tx_done_isr with room in the endpoint's FIFO; without room the *)
(* chunk stays.  What a buffer holds does not matter once it is sent.       *)
TxDone ==
    /\ bus = "active" /\ alt /\ size
    /\ size' = FALSE /\ ready' = "silence"
    /\ stale' = IF ready = "old" /\ stale < 4 THEN stale + 1 ELSE stale
    /\ UNCHANGED <<hostVars, tusb, micActive, notified, usbActive, muted, fifo,
                   captureVars, mic, chunk>>

TinyUsb ==
    OpenNotify \/ StreamState \/ FifoClear

Host ==
    \/ Mount \/ Unmount \/ Suspend \/ Resume \/ CloseStream \/ OpenStream
    \/ SetMute

Capture == CaptureRead \/ CaptureCheck \/ FifoPush
Microphone == MicCheck \/ MicWakes \/ FifoPop \/ MuteChunk \/ Swap

MicrophoneNext == TinyUsb \/ Host \/ Capture \/ Microphone \/ TxDone

-----------------------------------------------------------------------------
(* A stream the host has opened brings at most three chunks, 30 ms, that    *)
(* were not recorded in it: one that the capture task pushes after the FIFO *)
(* was cleared (usb_microphone.cpp:162), one read before the stream was     *)
(* open, and one in the hands of the microphone task.                       *)
StaleBounded == stale <= 3

(* As long as a stream stays open and is not muted, the host goes on        *)
(* getting what is being recorded: no wakeup of the microphone task is lost *)
(* to a callback in between.                                                *)
Flows ==
    <>[](micActive /\ ~ muted) => []<>(size /\ ready = "new")
=============================================================================
