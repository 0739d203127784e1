--------------------------- MODULE MCUsageDevice ---------------------------
(* Two snapshots, the older one watched, each live and stale; two message   *)
(* ids, so that frames of one message can meet a half of another.           *)
EXTENDS UsageDevice

MCPayload == [at : {1, 2}, stale : BOOLEAN]
MCId == {0, 1}
MCWatched == [at |-> 1, stale |-> FALSE]
=============================================================================
