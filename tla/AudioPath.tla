------------------------------ MODULE AudioPath ------------------------------
(***************************************************************************)
(* The audio component as a whole: the microphone's stream and the local   *)
(* tones.  They share the codec and no variable, so their interleavings    *)
(* add nothing: a behaviour is one of the microphone or one of the tones.  *)
(***************************************************************************)
EXTENDS UsbMicrophone, LocalTones

VARIABLE side   \* which of the two this behaviour is about

audioVars == <<side, microphoneVars, toneVars>>

AudioInit == side \in {"microphone", "tones"} /\ MicrophoneInit /\ ToneInit

Microphones(A) == side = "microphone" /\ A /\ UNCHANGED <<side, toneVars>>
Tones(A) == side = "tones" /\ A /\ UNCHANGED <<side, microphoneVars>>

AudioNext ==
    \/ Microphones(MicrophoneNext)
    \/ Tones(ToneNext)

AudioSpec == AudioInit /\ [][AudioNext]_audioVars

(* Every task is scheduled, and the host polls the endpoint of a stream it  *)
(* has opened. *)
AudioFairSpec ==
    /\ AudioSpec
    /\ WF_audioVars(Microphones(TinyUsb)) /\ WF_audioVars(Microphones(Capture))
    /\ WF_audioVars(Microphones(Microphone))
    /\ WF_audioVars(Microphones(TxDone))
    /\ WF_audioVars(Tones(SendTone)) /\ WF_audioVars(Tones(ToneTask))
=============================================================================
