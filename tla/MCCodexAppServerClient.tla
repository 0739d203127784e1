------------------------ MODULE MCCodexAppServerClient ------------------------
(* Three requests: one under way, the next one, and one of an earlier process *)
(* whose answer is still on the queue.                                        *)
EXTENDS CodexAppServerClient
MCId == {1, 2, 3}
===============================================================================
