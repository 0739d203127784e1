--------------------------- MODULE MCVoiceControl ---------------------------
(* Two click actions, so that a click can meet the unfinished release of    *)
(* another one as well as its own.                                          *)
EXTENDS VoiceControl

MCClickAction == {"SEND", "APPROVE"}
=============================================================================
