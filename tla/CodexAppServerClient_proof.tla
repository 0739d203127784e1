--------------------- MODULE CodexAppServerClient_proof ---------------------
(***************************************************************************)
(* Proofs about CodexAppServerClient, for every set of request ids and     *)
(* every bound: type correctness, that whoever waits is woken, that the    *)
(* reported state agrees with the process, that no refresh is lost, and    *)
(* that no snapshot of an earlier process is published.                    *)
(***************************************************************************)
EXTENDS CodexAppServerClient, TLAPS

(* Which request can be under way when: the first one until the process is *)
(* initialized, rate limits afterwards, and none without a process.        *)
Phases ==
    /\ initialized => process /\ initializeRequestID = None
    /\ ~ initialized => rateLimitsRequestID = None
    /\ ~ process => initializeRequestID = None

(* An answer on the queue to the request under way is from the process     *)
(* that runs.                                                              *)
OwnAnswers ==
    /\ \A b \in blocks : b.id \in InFlight => b.current
    /\ OwnSnapshots

ClientInv ==
    TypeOK /\ Phases /\ AlwaysWoken /\ StateAgrees /\ NoRefreshLost /\ OwnAnswers

-----------------------------------------------------------------------------
(* The blocks of a process that is given up keep their type.               *)
LEMMA EarlierType ==
    ASSUME NEW rest, rest \subseteq Block
    PROVE  Earlier(rest) \subseteq Block
BY DEF Earlier, Block

(* failAndRetry and closeProcess leave a client that waits for its retry.  *)
LEMMA ClosedStep ==
    ASSUME ClientInv, running, running' = TRUE,
           NEW rest \in SUBSET blocks, CloseProcess(rest),
           NEW attempt \in 0 .. MaxAttempt, ScheduleRetry(attempt),
           pendingRefresh' \in BOOLEAN, wanted' \in BOOLEAN,
           UNCHANGED <<executable, foreign>>
    PROVE  ClientInv'
<1>1. blocks' \subseteq Block
    BY EarlierType DEF ClientInv, TypeOK, CloseProcess
<1>2. retryAttempt' \in 0 .. MaxAttempt
    BY AttemptAssumption DEF ScheduleRetry
<1>3. TypeOK'
    BY <1>1, <1>2
       DEF ClientInv, TypeOK, CloseProcess, ScheduleRetry, State, Request
<1>4. InFlight' = {}
    BY DEF CloseProcess, InFlight
<1>5. Phases' /\ AlwaysWoken' /\ StateAgrees' /\ NoRefreshLost'
    BY <1>4 DEF CloseProcess, ScheduleRetry, Phases, AlwaysWoken, StateAgrees,
                NoRefreshLost
<1>6. OwnAnswers'
    BY <1>4 DEF ClientInv, OwnAnswers, OwnSnapshots
<1> QED BY <1>3, <1>5, <1>6 DEF ClientInv

(* launchIfNeeded leaves a process that is asked to initialize, a retry, or *)
(* an unavailable client.                                                   *)
LEMMA LaunchStep ==
    ASSUME ClientInv, NEW armed \in BOOLEAN, Launch(armed), running' = TRUE,
           pendingRefresh' \in BOOLEAN, wanted' \in BOOLEAN,
           UNCHANGED <<executable, foreign>>
    PROVE  ClientInv'
<1>1. blocks' \subseteq Block
    BY EarlierType DEF ClientInv, TypeOK, CloseProcess, Launch
<1>2. CASE process' = FALSE
    <2>1. CloseProcess(blocks)
        BY <1>2 DEF Launch
    <2>2. InFlight' = {}
        BY <2>1 DEF CloseProcess, InFlight
    <2>3. \/ state' = "unavailable" /\ retryArmed' = armed
             /\ retryAttempt' = retryAttempt
          \/ ScheduleRetry(retryAttempt)
        BY <1>2 DEF Launch
    <2>4. TypeOK'
        <3>1. retryAttempt' \in 0 .. MaxAttempt
            BY <2>3, AttemptAssumption DEF ClientInv, TypeOK, ScheduleRetry
        <3>2. retryArmed' \in BOOLEAN /\ state' \in State
            BY <2>3 DEF ScheduleRetry, State
        <3> QED BY <1>1, <2>1, <3>1, <3>2
                DEF ClientInv, TypeOK, CloseProcess, Request
    <2>5. Phases' /\ AlwaysWoken' /\ StateAgrees' /\ NoRefreshLost'
        BY <2>1, <2>2, <2>3
           DEF CloseProcess, ScheduleRetry, Phases, AlwaysWoken, StateAgrees,
               NoRefreshLost
    <2>6. OwnAnswers'
        BY <2>2 DEF ClientInv, OwnAnswers, OwnSnapshots
    <2> QED BY <2>4, <2>5, <2>6 DEF ClientInv
<1>3. CASE process' # FALSE
    <2>1. PICK id \in Id :
             /\ Fresh(id)
             /\ initializeRequestID' = id /\ timeoutFor' = id /\ asked' = id
             /\ rateLimitsRequestID' = None
             /\ process' = TRUE /\ initialized' = FALSE /\ spoiled' = FALSE
             /\ state' = "connecting"
             /\ retryArmed' = armed /\ retryAttempt' = retryAttempt
             /\ blocks' = Earlier(blocks)
        BY <1>3 DEF Launch, CloseProcess
    <2>2. InFlight' = {id} /\ id # None
        BY <2>1, IdAssumption DEF InFlight
    <2>3. TypeOK'
        BY <1>1, <2>1 DEF ClientInv, TypeOK, State, Request
    <2>4. Phases' /\ AlwaysWoken' /\ StateAgrees' /\ NoRefreshLost'
        BY <2>1, <2>2
           DEF Phases, AlwaysWoken, StateAgrees, NoRefreshLost
    <2>5. \A b \in Earlier(blocks) : b.id # id
        BY <2>1 DEF Fresh, Earlier, ClientInv, TypeOK, Block
    <2>6. OwnAnswers'
        BY <2>1, <2>2, <2>5 DEF ClientInv, OwnAnswers, OwnSnapshots
    <2> QED BY <2>3, <2>4, <2>6 DEF ClientInv
<1> QED BY <1>2, <1>3

(* requestRateLimitsIfNeeded leaves a request under way, or a retry.       *)
LEMMA SendStep ==
    ASSUME ClientInv, running, process, running' = TRUE,
           NEW rest \in SUBSET blocks, NEW armed \in BOOLEAN,
           NEW attempt \in 0 .. MaxAttempt, Send(rest, armed, attempt),
           UNCHANGED <<executable, foreign>>
    PROVE  ClientInv'
<1>1. CASE CloseProcess(rest) /\ ScheduleRetry(attempt) /\ wanted' = TRUE
    <2>1. pendingRefresh' = FALSE
        BY DEF Send
    <2> QED BY <1>1, <2>1, ClosedStep
<1>2. CASE ~ (CloseProcess(rest) /\ ScheduleRetry(attempt) /\ wanted' = TRUE)
    <2>1. PICK id \in Id :
             /\ Fresh(id)
             /\ rateLimitsRequestID' = id /\ timeoutFor' = id /\ asked' = id
             /\ initializeRequestID' = None /\ initialized' = TRUE
             /\ state' = "ready" /\ process' = process /\ spoiled' = spoiled
             /\ wanted' = FALSE /\ pendingRefresh' = FALSE /\ blocks' = rest
             /\ retryArmed' = armed /\ retryAttempt' = attempt
        BY <1>2 DEF Send
    <2>2. InFlight' = {id} /\ id # None
        BY <2>1, IdAssumption DEF InFlight
    <2>3. TypeOK'
        BY <2>1 DEF ClientInv, TypeOK, State, Request
    <2>4. Phases' /\ AlwaysWoken' /\ StateAgrees' /\ NoRefreshLost'
        BY <2>1, <2>2
           DEF Phases, AlwaysWoken, StateAgrees, NoRefreshLost
    <2>5. OwnAnswers'
        BY <2>1, <2>2 DEF ClientInv, OwnAnswers, OwnSnapshots, Fresh
    <2> QED BY <2>3, <2>4, <2>5 DEF ClientInv
<1> QED BY <1>1, <1>2

(* A refresh while a process runs, or a notification.                      *)
LEMMA RequestStep ==
    ASSUME ClientInv, running, running' = TRUE,
           NEW rest \in SUBSET blocks, NEW armed \in BOOLEAN,
           process \/ armed = retryArmed,
           RequestRateLimits(rest, armed),
           UNCHANGED <<executable, foreign>>
    PROVE  ClientInv'
<1>1. CASE Postpones
    <2>1. /\ pendingRefresh' = TRUE /\ wanted' = TRUE /\ blocks' = rest
          /\ retryArmed' = armed
          /\ UNCHANGED <<state, processVars, retryAttempt>>
        BY <1>1 DEF RequestRateLimits
    <2>2. TypeOK'
        BY <2>1 DEF ClientInv, TypeOK, processVars, requestVars
    <2>3. InFlight' = InFlight
        BY <2>1 DEF InFlight, processVars, requestVars
    <2>4. Phases' /\ NoRefreshLost'
        BY <1>1, <2>1
           DEF ClientInv, Phases, NoRefreshLost, Postpones, processVars,
               requestVars
    <2>5. AlwaysWoken' /\ StateAgrees'
        BY <2>1, <2>3
           DEF ClientInv, AlwaysWoken, StateAgrees, processVars, requestVars
    <2>6. OwnAnswers'
        BY <2>1, <2>3 DEF ClientInv, OwnAnswers, OwnSnapshots
    <2> QED BY <2>2, <2>4, <2>5, <2>6 DEF ClientInv
<1>2. CASE ~ Postpones
    <2>1. Send(rest, armed, retryAttempt) /\ retryAttempt \in 0 .. MaxAttempt
        BY <1>2 DEF RequestRateLimits, ClientInv, TypeOK
    <2>2. process
        BY <1>2 DEF Postpones, ClientInv, Phases
    <2>3. running' = TRUE /\ UNCHANGED <<executable, foreign>>
        OBVIOUS
    <2> QED BY <2>1, <2>2, <2>3, SendStep
<1> QED BY <1>1, <1>2

(* A block that changes nothing but the read buffer.                       *)
LEMMA SkipStep ==
    ASSUME ClientInv, NEW rest \in SUBSET blocks, NEW spoils \in BOOLEAN,
           Skip(rest, spoils)
    PROVE  ClientInv'
<1>1. TypeOK'
    BY DEF ClientInv, TypeOK, Skip, requestVars, retryVars, history
<1>2. InFlight' = InFlight
    BY DEF InFlight, Skip, requestVars
<1>3. Phases' /\ AlwaysWoken' /\ StateAgrees' /\ NoRefreshLost'
    BY <1>2
       DEF ClientInv, Phases, AlwaysWoken, StateAgrees, NoRefreshLost, Skip,
           requestVars, retryVars, history
<1>4. OwnAnswers'
    BY <1>2 DEF ClientInv, OwnAnswers, OwnSnapshots, Skip, history
<1> QED BY <1>1, <1>3, <1>4 DEF ClientInv

(* A block, a timeout or an answer that makes the client give up.          *)
LEMMA FailsStep ==
    ASSUME ClientInv, running, NEW rest \in SUBSET blocks, Fails(rest)
    PROVE  ClientInv'
<1>1. CloseProcess(rest) /\ ScheduleRetry(retryAttempt)
    BY DEF Fails, FailAndRetry
<1>2. wanted' \in BOOLEAN /\ pendingRefresh' \in BOOLEAN /\ running' = TRUE
      /\ UNCHANGED <<executable, foreign>>
    BY DEF Fails, FailAndRetry, ClientInv, TypeOK
<1>3. retryAttempt \in 0 .. MaxAttempt
    BY DEF ClientInv, TypeOK
<1> QED BY <1>1, <1>2, <1>3, ClosedStep

-----------------------------------------------------------------------------
LEMMA InvInit == Init => ClientInv
<1> SUFFICES ASSUME Init PROVE ClientInv
    OBVIOUS
<1>1. TypeOK
    <2>1. 0 \in 0 .. MaxAttempt
        BY AttemptAssumption
    <2>2. {} \subseteq Block
        OBVIOUS
    <2> QED BY <2>1, <2>2 DEF Init, TypeOK, State, Request
<1>2. InFlight = {}
    BY DEF Init, InFlight
<1> QED BY <1>1, <1>2 DEF Init, ClientInv, Phases, AlwaysWoken, StateAgrees,
                          NoRefreshLost, OwnAnswers, OwnSnapshots

(* A process runs only while the client does.                              *)
LEMMA ProcessRuns == ClientInv /\ process => running
BY DEF ClientInv, StateAgrees

LEMMA ConsumeStep ==
    ASSUME ClientInv, NEW b \in blocks, Consume(b)
    PROVE  ClientInv'
<1> DEFINE rest == blocks \ {b}
<1>1. rest \in SUBSET blocks
    OBVIOUS
<1>2. spoiled \in BOOLEAN /\ running \in BOOLEAN /\ retryArmed \in BOOLEAN
      /\ retryAttempt \in 0 .. MaxAttempt /\ b \in Block
    BY DEF ClientInv, TypeOK
<1>3. CASE b.kind = "exit" /\ Terminated(b, rest)
    BY <1>1, <1>2, <1>3, SkipStep, FailsStep, ProcessRuns DEF Terminated
<1>4. CASE b.kind = "eof" /\ EndOfFile(rest)
    BY <1>1, <1>2, <1>4, SkipStep, FailsStep DEF EndOfFile
<1>5. CASE b.kind = "oversized" /\ Oversized(rest)
    BY <1>1, <1>2, <1>5, SkipStep, FailsStep DEF Oversized
<1>6. CASE b.kind = "fragment" /\ Fragment(b, rest)
    <2>1. (spoiled \/ (running /\ ~ b.current)) \in BOOLEAN
        BY <1>2
    <2> QED BY <1>1, <1>6, <2>1, SkipStep DEF Fragment
<1>7. CASE b.kind \in {"notification", "answer"} /\ Line(b, rest)
    <2>1. CASE ~ (running /\ ~ spoiled)
        BY <1>1, <1>7, <2>1, SkipStep DEF Line
    <2>2. CASE running /\ b.kind = "notification" /\ Notified(rest)
        <3>1. running' = TRUE /\ UNCHANGED <<executable, foreign>>
            BY <1>2, <2>2 DEF Notified
        <3> QED BY <1>1, <1>2, <2>2, <3>1, RequestStep DEF Notified
    <2>3. CASE running /\ b.kind = "answer" /\ Answered(b, rest)
        <3>0. b.id \in Id /\ b.id # None
            BY <1>2, <2>3, IdAssumption DEF Block
        <3>1. CASE b.id = initializeRequestID /\ Initialized(rest)
            <4>1. process
                BY <3>0, <3>1 DEF ClientInv, Phases
            <4> QED BY <1>1, <1>2, <2>3, <3>1, <4>1, SendStep, FailsStep
                    DEF Initialized
        <3>2. CASE b.id = rateLimitsRequestID
                   /\ (Snapshot(b, rest) \/ Fails(rest))
            <4>1. initialized /\ process
                BY <3>0, <3>2 DEF ClientInv, Phases
            <4>2. b.id \in InFlight /\ b.current
                BY <3>0, <3>2 DEF ClientInv, OwnAnswers, InFlight
            <4>3. CASE Fails(rest)
                BY <1>1, <2>3, <4>3, FailsStep
            <4>4. CASE Snapshot(b, rest)
                <5>1. running' = TRUE /\ UNCHANGED <<executable, foreign>>
                    <6>1. foreign = FALSE /\ running = TRUE
                        BY <2>3 DEF ClientInv, TypeOK, OwnAnswers, OwnSnapshots
                    <6>2. foreign' = (foreign \/ ~ b.current)
                          /\ UNCHANGED <<running, executable>>
                        BY <4>4 DEF Snapshot
                    <6>3. foreign' = FALSE
                        BY <4>2, <6>1, <6>2
                    <6> QED BY <6>1, <6>2, <6>3
                <5>2. CASE AsksAgain
                    <6>1. 0 \in 0 .. MaxAttempt
                        BY AttemptAssumption
                    <6> QED BY <1>1, <1>2, <2>3, <4>1, <4>4, <5>1, <5>2, <6>1,
                               SendStep DEF Snapshot
                <5>3. CASE ~ AsksAgain
                    <6>1. /\ rateLimitsRequestID' = None
                          /\ timeoutFor' = None
                          /\ retryAttempt' = 0 /\ blocks' = rest
                          /\ UNCHANGED <<state, process, initialized,
                                 initializeRequestID, spoiled, asked,
                                 pendingRefresh, retryArmed, wanted>>
                        BY <4>4, <5>3 DEF Snapshot
                    <6>2. TypeOK'
                        BY <5>1, <6>1, AttemptAssumption
                           DEF ClientInv, TypeOK, Request
                    <6>3. InFlight' = {}
                        BY <4>1, <6>1 DEF ClientInv, Phases, InFlight
                    <6>4. Phases' /\ AlwaysWoken' /\ StateAgrees'
                        BY <2>3, <4>1, <5>1, <6>1, <6>3
                           DEF ClientInv, Phases, AlwaysWoken, StateAgrees
                    <6>5. NoRefreshLost'
                        BY <4>1, <5>3, <6>1
                           DEF ClientInv, NoRefreshLost, AsksAgain
                    <6>6. OwnAnswers'
                        BY <5>1, <6>3 DEF ClientInv, OwnAnswers, OwnSnapshots
                    <6> QED BY <6>2, <6>4, <6>5, <6>6 DEF ClientInv
                <5> QED BY <5>2, <5>3
            <4> QED BY <3>2, <4>3, <4>4
        <3>3. CASE b.id \notin InFlight /\ Skip(rest, spoiled)
            BY <1>1, <1>2, <3>3, SkipStep
        <3> QED BY <2>3, <3>1, <3>2, <3>3 DEF Answered
    <2> QED BY <1>7, <2>1, <2>2, <2>3 DEF Line
<1> QED BY <1>3, <1>4, <1>5, <1>6, <1>7 DEF Consume

LEMMA PutsStep ==
    ASSUME ClientInv, NEW block \in Block, block.current, Puts(block),
           asked' \in Request
    PROVE  ClientInv'
<1>1. TypeOK'
    BY DEF ClientInv, TypeOK, Puts, requestVars, retryVars, history
<1>2. InFlight' = InFlight
    BY DEF InFlight, Puts, requestVars
<1>3. Phases' /\ AlwaysWoken' /\ StateAgrees' /\ NoRefreshLost'
    BY <1>2
       DEF ClientInv, Phases, AlwaysWoken, StateAgrees, NoRefreshLost, Puts,
           requestVars, retryVars, history
<1>4. OwnAnswers'
    BY <1>2 DEF ClientInv, OwnAnswers, OwnSnapshots, Puts, history
<1> QED BY <1>1, <1>3, <1>4 DEF ClientInv

LEMMA InvStep == ClientInv /\ [Next]_vars => ClientInv'
<1> SUFFICES ASSUME ClientInv, [Next]_vars PROVE ClientInv'
    OBVIOUS
<1>0. /\ running \in BOOLEAN /\ retryArmed \in BOOLEAN /\ wanted \in BOOLEAN
      /\ TRUE \in BOOLEAN /\ FALSE \in BOOLEAN
      /\ blocks \in SUBSET blocks
    BY DEF ClientInv, TypeOK
<1>1. CASE Start
    BY <1>0, <1>1, LaunchStep DEF Start
<1>2. CASE Refresh
    <2>1. running /\ running' = TRUE /\ UNCHANGED <<executable, foreign>>
        BY <1>0, <1>2 DEF Refresh
    <2>2. CASE process
        BY <1>0, <1>2, <2>1, <2>2, RequestStep DEF Refresh
    <2>3. CASE ~ process
        BY <1>0, <1>2, <2>1, <2>3, LaunchStep DEF Refresh
    <2> QED BY <2>2, <2>3
<1>3. CASE RecoverAfterWake
    <2>1. running' = TRUE
        BY <1>0, <1>3 DEF RecoverAfterWake
    <2> QED BY <1>0, <1>3, <2>1, LaunchStep DEF RecoverAfterWake
<1>4. CASE Stop
    <2>1. blocks' \subseteq Block
        BY <1>4, EarlierType DEF ClientInv, TypeOK, CloseProcess, Stop
    <2>2. TypeOK'
        BY <1>4, <2>1
           DEF ClientInv, TypeOK, Stop, CloseProcess, State, Request
    <2>3. InFlight' = {}
        BY <1>4 DEF Stop, CloseProcess, InFlight
    <2>4. Phases' /\ AlwaysWoken' /\ StateAgrees' /\ NoRefreshLost'
        BY <1>4, <2>3 DEF Stop, CloseProcess, Phases, AlwaysWoken, StateAgrees,
                          NoRefreshLost
    <2>5. OwnAnswers'
        BY <1>4, <2>3 DEF Stop, ClientInv, OwnAnswers, OwnSnapshots
    <2> QED BY <2>2, <2>4, <2>5 DEF ClientInv
<1>5. CASE TimeoutElapsed
    <2>1. process
        BY <1>5 DEF TimeoutElapsed, Overdue, InFlight, ClientInv, Phases
    <2>2. Fails(blocks)
        BY <1>5 DEF TimeoutElapsed, Fails
    <2> QED BY <1>0, <2>1, <2>2, ProcessRuns, FailsStep
<1>6. CASE RetryElapsed
    <2>1. running /\ running' = TRUE /\ UNCHANGED <<executable, wanted, foreign>>
          /\ pendingRefresh' = TRUE
        BY <1>0, <1>6 DEF RetryElapsed
    <2>2. CASE process
        <3>1. retryArmed' = FALSE
              /\ UNCHANGED <<state, processVars, retryAttempt, blocks>>
            BY <1>6, <2>2 DEF RetryElapsed
        <3>2. TypeOK'
            BY <2>1, <3>1 DEF ClientInv, TypeOK, processVars, requestVars
        <3>3. InFlight' = InFlight
            BY <3>1 DEF InFlight, processVars, requestVars
        <3>4. Phases' /\ AlwaysWoken' /\ StateAgrees' /\ NoRefreshLost'
            BY <2>1, <2>2, <3>1, <3>3
               DEF ClientInv, Phases, AlwaysWoken, StateAgrees, NoRefreshLost,
                   processVars, requestVars
        <3>5. OwnAnswers'
            BY <2>1, <3>1, <3>3 DEF ClientInv, OwnAnswers, OwnSnapshots
        <3> QED BY <3>2, <3>4, <3>5 DEF ClientInv
    <2>3. CASE ~ process
        BY <1>0, <1>6, <2>1, <2>3, LaunchStep DEF RetryElapsed
    <2> QED BY <2>2, <2>3
<1>7. ASSUME NEW b \in blocks, Consume(b)
      PROVE  ClientInv'
    BY <1>7, ConsumeStep
<1>8. CASE Answer
    <2>1. Output("answer", asked) \in Block /\ Output("answer", asked).current
        BY <1>8 DEF Answer, Output, Block, ClientInv, TypeOK, Request
    <2>2. asked' \in Request
        BY <1>8 DEF Answer, Request
    <2> QED BY <1>8, <2>1, <2>2, PutsStep DEF Answer
<1>9. ASSUME NEW kind \in Kind \ {"answer"}, Emit(kind)
      PROVE  ClientInv'
    <2>1. Output(kind, None) \in Block /\ Output(kind, None).current
        BY DEF Output, Block
    <2>2. asked' \in Request
        BY <1>9 DEF Emit, ClientInv, TypeOK
    <2> QED BY <1>9, <2>1, <2>2, PutsStep DEF Emit
<1>10. ASSUME NEW to \in {"missing", "broken", "works"}, ExecutableChanges(to)
       PROVE  ClientInv'
    BY <1>10 DEF ExecutableChanges, ClientInv, TypeOK, Phases, AlwaysWoken,
                 StateAgrees, NoRefreshLost, OwnAnswers, OwnSnapshots, InFlight,
                 processVars, requestVars, retryVars, history
<1>11. CASE UNCHANGED vars
    BY <1>11 DEF vars, ClientInv, TypeOK, Phases, AlwaysWoken,
                 StateAgrees, NoRefreshLost, OwnAnswers, OwnSnapshots, InFlight,
                 processVars, requestVars, retryVars, history
<1> QED BY <1>1, <1>2, <1>3, <1>4, <1>5, <1>6, <1>7, <1>8, <1>9, <1>10, <1>11
        DEF Next

LEMMA InvAlways == Spec => []ClientInv
<1> QED BY InvInit, InvStep, PTL DEF Spec

-----------------------------------------------------------------------------
(* The variables keep their types; the retry attempt stays bounded.        *)
THEOREM TypeCorrect == Spec => []TypeOK
<1>1. ClientInv => TypeOK
    BY DEF ClientInv
<1> QED BY <1>1, InvAlways, PTL

(* Every request is under its timeout, and a client without a process has  *)
(* a retry armed or found no executable.                                   *)
THEOREM WaitsAreWoken == Spec => []AlwaysWoken
<1>1. ClientInv => AlwaysWoken
    BY DEF ClientInv
<1> QED BY <1>1, InvAlways, PTL

(* The reported state agrees with the process.                             *)
THEOREM StateCorrect == Spec => []StateAgrees
<1>1. ClientInv => StateAgrees
    BY DEF ClientInv
<1> QED BY <1>1, InvAlways, PTL

(* A refresh asked for is followed by a request sent after it.             *)
THEOREM RefreshesAreServed == Spec => []NoRefreshLost
<1>1. ClientInv => NoRefreshLost
    BY DEF ClientInv
<1> QED BY <1>1, InvAlways, PTL

(* No snapshot comes from an earlier process.                              *)
THEOREM SnapshotsAreOwn == Spec => []OwnSnapshots
<1>1. ClientInv => OwnSnapshots
    BY DEF ClientInv, OwnAnswers
<1> QED BY <1>1, InvAlways, PTL
=============================================================================
