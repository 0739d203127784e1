---------------------------- MODULE VoiceSession ----------------------------
(***************************************************************************)
(* What the device promises about the voice state it shows                 *)
(* (docs/ARCHITECTURE.md, "Voice feedback"), whatever the buttons, the     *)
(* host and the BLE link do: "written" is shown only after the host        *)
(* confirmed Recording or Processing since the display was last idle, and  *)
(* a timeout or a lost link can only go back to idle.                      *)
(***************************************************************************)
VARIABLES voice,      \* the state on the display
          confirmed   \* the host has confirmed recording or processing

vars == <<voice, confirmed>>

Voice == {"IDLE", "PREPARING", "LISTENING", "PROCESSING", "COMPLETED"}

Init == voice = "IDLE" /\ confirmed = FALSE

(* A local hold prepares only an idle display. *)
Prepare == /\ voice = "IDLE" /\ ~ confirmed
           /\ voice' = "PREPARING"
           /\ UNCHANGED confirmed

(* Listening is always the host's word. *)
Listen == voice' = "LISTENING" /\ confirmed' = TRUE

(* Processing is entered by the release or by the host; only the host's     *)
(* word confirms, and neither takes a confirmation back.                    *)
Process == /\ voice' = "PROCESSING"
           /\ confirmed' \in {confirmed, TRUE}

Complete == /\ confirmed
            /\ voice' = "COMPLETED"
            /\ UNCHANGED confirmed

(* Timeout, host idle, failure or disconnect. *)
Settle == voice' = "IDLE" /\ confirmed' = FALSE

Next == Prepare \/ Listen \/ Process \/ Complete \/ Settle

Spec == Init /\ [][Next]_vars
=============================================================================
