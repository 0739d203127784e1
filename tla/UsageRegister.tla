--------------------------- MODULE UsageRegister ---------------------------
(***************************************************************************)
(* What the Usage pair promises of the value on the device, apart from how *)
(* it gets there: a register that only moves forward, never runs ahead of  *)
(* what was observed, is made live only by a recent observation, and may   *)
(* go back or be lost in a restart of the device, never live.              *)
(***************************************************************************)
EXTENDS Integers

CONSTANT Fresh    \* how old an observation may be that makes the value live

VARIABLES
    now,          \* clock steps
    newest,       \* the latest observation made on any Mac
    shown         \* the value on the device

Nothing == [at |-> -1, stale |-> TRUE]

Init ==
    /\ now = 0
    /\ newest = -1
    /\ shown = Nothing

Pass == now' = now + 1 /\ UNCHANGED <<newest, shown>>

Observe == newest' > newest /\ newest' =< now /\ UNCHANGED <<now, shown>>

Deliver ==
    /\ shown'.at \in shown.at .. newest'
    /\ newest' >= newest
    /\ ~ shown'.stale => now - shown'.at =< Fresh
    /\ UNCHANGED now

Expire == shown' = [shown EXCEPT !.stale = TRUE] /\ UNCHANGED <<now, newest>>

Restart ==
    /\ shown'.at =< newest
    /\ shown'.stale
    /\ UNCHANGED <<now, newest>>

Next == Pass \/ Observe \/ Deliver \/ Expire \/ Restart

Spec == Init /\ [][Next]_<<now, newest, shown>>
=============================================================================
