---------------------------- MODULE MCUsageClient ----------------------------
(* Two payloads: the one being delivered and a newer one. *)
EXTENDS UsageClient
MCPayload == {"p1", "p2"}
==============================================================================
