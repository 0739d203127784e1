------------------------- MODULE CodexAppServerClient -------------------------
(***************************************************************************)
(* The Mac's client of the local Codex app-server                          *)
(* (MicroStickUsageCodex/CodexAppServerClient.swift): one child process,   *)
(* one request at a time under a timeout, and a retry timer.               *)
(*                                                                         *)
(* Calls, timers and output all run on one serial queue, so a handler is   *)
(* one step.  "blocks" are the pieces of output and exits that wait on the *)
(* queue.  Giving a process up does not take its blocks off the queue, and *)
(* consume does not know which process a block is from.  Blocks are kept   *)
(* as a set: reads and exits reach the queue from threads of their own.    *)
(* Request ids grow without bound in the code; here a new id is one that   *)
(* nothing in the state still carries.                                     *)
(* "wanted" and "foreign" are history variables.  Operators named X_Defect *)
(* are defective variants of X that no action uses.                        *)
(***************************************************************************)
EXTENDS Integers, FiniteSets

CONSTANTS Id,            \* request ids
          None,          \* no request
          MaxAttempt,    \* the retry delay grows no more: 5
          MaxWaiting     \* bound: blocks on the queue when more is emitted

ASSUME IdAssumption == None \notin Id
ASSUME AttemptAssumption == MaxAttempt \in Nat \ {0}

VARIABLES
    running, state,
    process,                                    \* process is set
    initialized, pendingRefresh,
    initializeRequestID, rateLimitsRequestID,
    timeoutFor,    \* the request the armed timeoutWork is for
    retryArmed,    \* retryWork is scheduled and not cancelled
    retryAttempt,  \* failures in a row, which set the delay
    spoiled,       \* readBuffer begins with a piece of an earlier process
    blocks,        \* output and exits waiting on the queue
    asked,         \* the request the process has not answered yet
    executable,    \* what executableLocator would find
    wanted,        \* history: a refresh no request has served yet
    foreign        \* history: a snapshot was not from this process

requestVars == <<process, initialized, initializeRequestID,
                 rateLimitsRequestID, timeoutFor>>
processVars == <<requestVars, spoiled, asked>>
history == <<wanted, foreign>>
retryVars == <<retryArmed, retryAttempt>>
vars == <<running, state, processVars, pendingRefresh, retryVars, blocks,
          executable, history>>

State == {"stopped", "unavailable", "connecting", "ready", "retrying"}
Kind == {"answer", "notification", "fragment", "oversized", "eof", "exit"}
Request == Id \cup {None}
Block == [kind : {"answer"}, id : Id, current : BOOLEAN]
             \cup [kind : Kind \ {"answer"}, id : {None}, current : BOOLEAN]
Output(kind, id) == [kind |-> kind, id |-> id, current |-> TRUE]

TypeOK ==
    /\ running \in BOOLEAN /\ process \in BOOLEAN /\ initialized \in BOOLEAN
    /\ pendingRefresh \in BOOLEAN /\ retryArmed \in BOOLEAN
    /\ spoiled \in BOOLEAN /\ wanted \in BOOLEAN /\ foreign \in BOOLEAN
    /\ state \in State
    /\ initializeRequestID \in Request /\ rateLimitsRequestID \in Request
    /\ timeoutFor \in Request /\ asked \in Request
    /\ retryAttempt \in 0 .. MaxAttempt
    /\ blocks \subseteq Block
    /\ executable \in {"missing", "broken", "works"}

Init ==
    /\ running = FALSE /\ state = "stopped" /\ process = FALSE
    /\ initialized = FALSE /\ pendingRefresh = FALSE /\ retryArmed = FALSE
    /\ retryAttempt = 0
    /\ initializeRequestID = None /\ rateLimitsRequestID = None
    /\ timeoutFor = None /\ asked = None
    /\ spoiled = FALSE /\ blocks = {}
    /\ executable \in {"missing", "broken", "works"}
    /\ wanted = FALSE /\ foreign = FALSE

-----------------------------------------------------------------------------
(* Helpers.  "rest" are the blocks left on the queue, "armed" says whether *)
(* the retry is armed when the helper is called.                           *)

InFlight == {initializeRequestID, rateLimitsRequestID} \ {None}

(* nextRequestID *)
Fresh_InProcess(id) ==
    /\ id \notin InFlight
    /\ \A b \in blocks : b.current => b.id # id

Fresh(id) ==
    /\ id \notin InFlight
    /\ \A b \in blocks : b.id # id

(* closeProcess: what waits on the queue is from an earlier process now. *)
Earlier(rest) == {[b EXCEPT !.current = FALSE] : b \in rest}

CloseProcess(rest) ==
    /\ process' = FALSE /\ initialized' = FALSE
    /\ initializeRequestID' = None /\ rateLimitsRequestID' = None
    /\ timeoutFor' = None /\ asked' = None
    /\ spoiled' = FALSE
    /\ blocks' = Earlier(rest)

(* scheduleRetry, after "attempt" failures. *)
ScheduleRetry_Silent(attempt) == state' = "retrying" /\ UNCHANGED retryVars

ScheduleRetry(attempt) ==
    /\ state' = "retrying" /\ retryArmed' = TRUE
    /\ retryAttempt' = IF attempt < MaxAttempt THEN attempt + 1 ELSE MaxAttempt

(* failAndRetry, processTerminated: a request that is cut off has served   *)
(* no refresh.                                                             *)
FailAndRetry(rest) ==
    /\ CloseProcess(rest)
    /\ ScheduleRetry(retryAttempt)
    /\ wanted' = (wanted \/ rateLimitsRequestID # None)

(* launchIfNeeded, without a process: there is no executable, it does not  *)
(* start or does not take the first request, or it runs.                   *)
Launch(armed) ==
    \/ /\ executable = "missing"
       /\ state' = "unavailable"
       /\ retryArmed' = armed /\ UNCHANGED retryAttempt
       /\ CloseProcess(blocks)
    \/ /\ executable = "broken"
       /\ ScheduleRetry(retryAttempt)
       /\ CloseProcess(blocks)
    \/ /\ executable = "works"
       /\ state' = "connecting"
       /\ retryArmed' = armed /\ UNCHANGED retryAttempt
       /\ process' = TRUE /\ initialized' = FALSE /\ spoiled' = FALSE
       /\ \E id \in Id :
             /\ Fresh(id)
             /\ initializeRequestID' = id /\ timeoutFor' = id /\ asked' = id
       /\ rateLimitsRequestID' = None
       /\ blocks' = Earlier(blocks)

(* requestRateLimitsIfNeeded of an initialized process: the request is     *)
(* sent, or the write fails.                                               *)
Send(rest, armed, attempt) ==
    /\ pendingRefresh' = FALSE
    /\ \/ /\ \E id \in Id :
                /\ Fresh(id)
                /\ rateLimitsRequestID' = id /\ timeoutFor' = id /\ asked' = id
          /\ initializeRequestID' = None /\ initialized' = TRUE
          /\ state' = "ready"
          /\ wanted' = FALSE /\ blocks' = rest
          /\ retryArmed' = armed /\ retryAttempt' = attempt
          /\ UNCHANGED <<process, spoiled>>
       \/ CloseProcess(rest) /\ ScheduleRetry(attempt) /\ wanted' = TRUE

(* A refresh or a notification while a process runs: no request before it  *)
(* is initialized, and one at a time.                                      *)
Postpones == ~ initialized \/ rateLimitsRequestID # None

RequestRateLimits(rest, armed) ==
    IF Postpones
    THEN /\ pendingRefresh' = TRUE /\ wanted' = TRUE /\ blocks' = rest
         /\ retryArmed' = armed
         /\ UNCHANGED <<state, processVars, retryAttempt>>
    ELSE Send(rest, armed, retryAttempt)

-----------------------------------------------------------------------------
(* Calls and timers.                                                       *)

Start ==
    /\ ~ running
    /\ running' = TRUE /\ pendingRefresh' = TRUE /\ wanted' = TRUE
    /\ Launch(retryArmed)
    /\ UNCHANGED <<executable, foreign>>

Refresh ==
    /\ running
    /\ IF process
       THEN RequestRateLimits(blocks, FALSE)
       ELSE pendingRefresh' = TRUE /\ wanted' = TRUE /\ Launch(FALSE)
    /\ UNCHANGED <<running, executable, foreign>>

(* The retry timer, if it is armed, stays armed. *)
RecoverAfterWake ==
    /\ running
    /\ pendingRefresh' = TRUE /\ wanted' = TRUE
    /\ Launch(retryArmed)
    /\ UNCHANGED <<running, executable, foreign>>

Stop ==
    /\ running' = FALSE /\ state' = "stopped"
    /\ pendingRefresh' = FALSE /\ retryArmed' = FALSE /\ wanted' = FALSE
    /\ CloseProcess(blocks)
    /\ UNCHANGED <<retryAttempt, executable, foreign>>

(* armTimeout: the work only acts for a request that is still under way. *)
Overdue_Initialize == timeoutFor # None /\ timeoutFor = initializeRequestID
Overdue == timeoutFor \in InFlight

TimeoutElapsed ==
    /\ Overdue
    /\ FailAndRetry(blocks)
    /\ UNCHANGED <<running, pendingRefresh, executable, foreign>>

RetryElapsed ==
    /\ retryArmed
    /\ running
    /\ pendingRefresh' = TRUE
    /\ IF process
       THEN /\ retryArmed' = FALSE
            /\ UNCHANGED <<state, processVars, retryAttempt, blocks>>
       ELSE Launch(FALSE)
    /\ UNCHANGED <<running, executable, wanted, foreign>>

-----------------------------------------------------------------------------
(* Blocks of the serial queue.                                             *)

(* A block that changes nothing but the read buffer. *)
Skip(rest, spoils) ==
    /\ blocks' = rest
    /\ spoiled' = spoils
    /\ UNCHANGED <<running, state, requestVars, asked, pendingRefresh,
                   retryVars, executable, history>>

Fails(rest) ==
    /\ FailAndRetry(rest)
    /\ UNCHANGED <<running, pendingRefresh, executable, foreign>>

(* processTerminated, for the process that exited. *)
Terminated(b, rest) ==
    IF process /\ b.current THEN Fails(rest) ELSE Skip(rest, spoiled)

(* consume of no data: whichever process runs now is taken to have ended. *)
EndOfFile(rest) ==
    IF running /\ process THEN Fails(rest) ELSE Skip(rest, spoiled)

Oversized(rest) == IF running THEN Fails(rest) ELSE Skip(rest, spoiled)

(* A piece of a line; the rest of it never comes if the process is gone. *)
Fragment(b, rest) == Skip(rest, spoiled \/ (running /\ ~ b.current))

(* handle, for account/rateLimits/updated *)
Notified(rest) ==
    /\ RequestRateLimits(rest, retryArmed)
    /\ UNCHANGED <<running, executable, foreign>>

(* handle, for the answer to initialize *)
Initialized(rest) ==
    \/ /\ Send(rest, retryArmed, retryAttempt)
       /\ UNCHANGED <<running, executable, foreign>>
    \/ Fails(rest)

(* handle, for the answer with the rate limits: it holds a snapshot, or    *)
(* an error or nothing that parses.                                        *)
AsksAgain_Never == FALSE
AsksAgain == pendingRefresh

Snapshot(b, rest) ==
    /\ foreign' = (foreign \/ ~ b.current)
    /\ IF AsksAgain
       THEN Send(rest, retryArmed, 0)
       ELSE /\ rateLimitsRequestID' = None /\ timeoutFor' = None
            /\ retryAttempt' = 0 /\ blocks' = rest
            /\ UNCHANGED <<state, process, initialized, initializeRequestID,
                           spoiled, asked, pendingRefresh, retryArmed, wanted>>
    /\ UNCHANGED <<running, executable>>

Answered_AnyId(b, rest) ==
    \/ b.id = initializeRequestID /\ Initialized(rest)
    \/ /\ b.id # initializeRequestID /\ rateLimitsRequestID # None
       /\ Snapshot(b, rest) \/ Fails(rest)
    \/ b.id \notin InFlight /\ Skip(rest, spoiled)

Answered(b, rest) ==
    \/ b.id = initializeRequestID /\ Initialized(rest)
    \/ b.id = rateLimitsRequestID /\ (Snapshot(b, rest) \/ Fails(rest))
    \/ b.id \notin InFlight /\ Skip(rest, spoiled)

(* consume of a whole line. *)
Line(b, rest) ==
    IF running /\ ~ spoiled
    THEN \/ b.kind = "notification" /\ Notified(rest)
         \/ b.kind = "answer" /\ Answered(b, rest)
    ELSE Skip(rest, FALSE)

Consume(b) ==
    LET rest == blocks \ {b} IN
    \/ b.kind = "exit" /\ Terminated(b, rest)
    \/ b.kind = "eof" /\ EndOfFile(rest)
    \/ b.kind = "oversized" /\ Oversized(rest)
    \/ b.kind = "fragment" /\ Fragment(b, rest)
    \/ b.kind \in {"notification", "answer"} /\ Line(b, rest)

-----------------------------------------------------------------------------
(* The process, the queue and the disk.                                    *)

Puts(block) ==
    /\ process
    /\ blocks' = blocks \cup {block}
    /\ UNCHANGED <<running, state, requestVars, spoiled, pendingRefresh,
                   retryVars, executable, history>>

Answer ==
    /\ asked # None
    /\ asked' = None
    /\ Puts(Output("answer", asked))

(* A notification, half a line, a line past the limit, or the end. *)
Emit(kind) ==
    /\ Cardinality(blocks) < MaxWaiting
    /\ Puts(Output(kind, None))
    /\ UNCHANGED asked

ExecutableChanges(to) ==
    /\ executable' = to
    /\ UNCHANGED <<running, state, processVars, pendingRefresh, retryVars,
                   blocks, history>>

-----------------------------------------------------------------------------
Next ==
    \/ Start \/ Refresh \/ RecoverAfterWake \/ Stop
    \/ TimeoutElapsed \/ RetryElapsed
    \/ \E b \in blocks : Consume(b)
    \/ Answer
    \/ \E kind \in Kind \ {"answer"} : Emit(kind)
    \/ \E to \in {"missing", "broken", "works"} : ExecutableChanges(to)

Spec == Init /\ [][Next]_vars

(* The answer came, but its line was spoiled by an earlier process. *)
AnswerLost ==
    /\ asked = None
    /\ \A b \in blocks : b.id \notin InFlight

(* A process is given up for a reason of its own, not because of what an   *)
(* earlier one left on the queue.                                          *)
GivenUp ==
    /\ process /\ ~ process'
    /\ ~ \E b \in blocks \ blocks' : ~ b.current
    /\ ~ (AnswerLost /\ TimeoutElapsed)

Trouble ==
    \/ Stop \/ RecoverAfterWake \/ GivenUp
    \/ \E kind \in Kind \ {"answer", "notification"} : Emit(kind)
    \/ executable' # executable

(* The queue runs its blocks, timers fire, the controller's five-minute    *)
(* timer refreshes, and the process answers.                               *)
FairSpec ==
    /\ Spec
    /\ WF_vars(\E b \in blocks : Consume(b))
    /\ WF_vars(\E b \in blocks : b.kind = "answer" /\ Consume(b))
    /\ WF_vars(TimeoutElapsed) /\ WF_vars(RetryElapsed)
    /\ WF_vars(Refresh) /\ WF_vars(Answer)

-----------------------------------------------------------------------------
(* Properties.                                                             *)

(* Whoever waits is woken: every request under way is under a timeout of   *)
(* its own and no timeout is left without its request; a client without a  *)
(* process has a retry armed unless no executable was found; and a process *)
(* that runs is initialized or being asked (armTimeout, scheduleRetry,     *)
(* launchIfNeeded).                                                        *)
AlwaysWoken ==
    /\ InFlight = {timeoutFor} \ {None}
    /\ running /\ ~ process => retryArmed \/ state = "unavailable"
    /\ state = "retrying" => retryArmed
    /\ process => initialized \/ initializeRequestID # None

(* The state that is reported agrees with the process: no order of exits,  *)
(* late output, timers and calls leaves "ready" without an initialized     *)
(* process or reports anything else while there is one (transition).       *)
StateAgrees ==
    /\ state = "ready" <=> process /\ initialized
    /\ state = "connecting" <=> process /\ ~ initialized
    /\ state = "stopped" <=> ~ running

(* No refresh is lost: one that comes while a request is under way, or     *)
(* before the process is initialized, is followed by a request sent after  *)
(* it (pendingRefresh).                                                    *)
NoRefreshLost ==
    wanted /\ initialized => pendingRefresh /\ rateLimitsRequestID # None

(* A snapshot that is published was sent by the process that was asked for *)
(* it, whatever an earlier process left on the queue (nextRequestID).      *)
OwnSnapshots == ~ foreign

(* Once processes no longer fail, a running client with a working          *)
(* executable becomes ready for good, survives what earlier processes left *)
(* on the queue, and serves every refresh.                                 *)
Recovers ==
    <>[][~ Trouble]_vars =>
        /\ <>[](running /\ executable = "works" => state = "ready")
        /\ [](wanted => <>(~ wanted \/ executable # "works"))
=============================================================================
