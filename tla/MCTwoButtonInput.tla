-------------------------- MODULE MCTwoButtonInput --------------------------
(* Instances of TwoButtonInput for TLC: the real menu cut to one command of *)
(* every kind, and to the two that meet in the decline confirmation; both   *)
(* keep its order and begin with Approve.                                   *)
EXTENDS TwoButtonInput

WholeMenu == <<"APPROVE", "DECLINE", "AGENT", "NAVIGATION", "USAGE_DETAIL">>
ConfirmMenu == <<"APPROVE", "DECLINE">>
=============================================================================
