---------------------------- MODULE Device_proof ----------------------------
(***************************************************************************)
(* Proofs about UsageDevice, for every set of payloads and message ids and *)
(* every freshness window: type correctness, that only whole messages are  *)
(* ever kept, that a restored snapshot is never live, and that the NVS     *)
(* copy never moves backwards in time.  Further down about the Agent table *)
(* and Roxy (AppState), for every number of Agents and set of frames.      *)
(***************************************************************************)
EXTENDS UsageDevice, AppState, FiniteSetTheorems, WellFoundedInduction, TLAPS

(* Payload with the "no snapshot" value: times and stale flags are typed.  *)
LEMMA PayloadType ==
    \A p \in Payload \cup {None} :
        /\ p \in [at : Int, stale : BOOLEAN]
        /\ AsStale(p) \in Payload \cup {None}
        /\ AsStale(p).at = p.at /\ AsStale(p).stale = TRUE
        /\ p \in Payload => p.at \in Nat
<1> SUFFICES ASSUME NEW p \in Payload \cup {None}
             PROVE  /\ p \in [at : Int, stale : BOOLEAN]
                    /\ AsStale(p) \in Payload \cup {None}
                    /\ AsStale(p).at = p.at /\ AsStale(p).stale = TRUE
                    /\ p \in Payload => p.at \in Nat
    OBVIOUS
<1>0. AsStale(p).at = p.at /\ AsStale(p).stale = TRUE
    BY DEF AsStale
<1>1. CASE p = None
    <2>1. AsStale(None) = None
        BY DEF AsStale, None
    <2>2. None \in [at : Int, stale : BOOLEAN]
        BY DEF None
    <2>3. None \notin Payload
        <3>1. None.at \notin Nat
            BY DEF None
        <3> QED BY <3>1, UsageAssumption
    <2> QED BY <1>0, <1>1, <2>1, <2>2, <2>3
<1>2. CASE p \in Payload
    <2>1. p \in [at : Nat, stale : BOOLEAN]
        BY <1>2, UsageAssumption
    <2>2. AsStale(p) \in Payload
        BY <1>2, UsageAssumption
    <2> QED BY <1>0, <2>1, <2>2
<1> QED BY <1>1, <1>2

LEMMA WatchedIsLive == Watched # None /\ ~ Watched.stale
BY UsageAssumption DEF None

(* What the reassembler holds after it takes a well-formed frame.           *)
LEMMA WithType ==
    ASSUME NEW f \in Frame, partial \in Partial
    PROVE  With(f) \in Partial /\ With(f).sum = f.sum /\ With(f).id = f.id
<1>1. f.id \in Id /\ f.sum \in Payload /\ f.half \in {"intact", "damaged"}
    BY DEF Frame
<1>2. Blank.parts \in [Index -> {"blank", "intact", "damaged"}]
    BY DEF Blank
<1>3. partial.parts \in [Index -> {"blank", "intact", "damaged"}]
    BY DEF Partial
<1>4. With(f).parts \in [Index -> {"blank", "intact", "damaged"}]
    BY <1>1, <1>2, <1>3 DEF With
<1> QED BY <1>1, <1>4 DEF With, Partial

-----------------------------------------------------------------------------

LEMMA TypeInit == Init => TypeOK
<1> SUFFICES ASSUME Init PROVE TypeOK
    OBVIOUS
<1>1. Blank \in Partial
    BY UsageAssumption DEF Blank, Partial, Index
<1>2. 0 \in 0 .. StaleAfter + 1
    BY UsageAssumption
<1> QED BY <1>1, <1>2 DEF Init, TypeOK

LEMMA TypeStep == TypeOK /\ [Next]_vars => TypeOK'
<1> SUFFICES ASSUME TypeOK, [Next]_vars PROVE TypeOK'
    OBVIOUS
<1>0. Blank \in Partial
    BY UsageAssumption DEF Blank, Partial, Index
<1>1. ASSUME NEW f \in Frame \cup {Malformed}, RejectFrame(f)
      PROVE TypeOK'
    BY <1>0, <1>1
       DEF TypeOK, RejectFrame, Reject, Respond, stateVars
<1>2. ASSUME NEW f \in Frame \cup {Malformed}, AcceptHalf(f)
      PROVE TypeOK'
    <2>1. partial' \in Partial
        BY <1>2, WithType DEF AcceptHalf, TypeOK
    <2>2. halves' \subseteq Index
        BY <1>2 DEF AcceptHalf, Heard, TypeOK, Frame
    <2> QED BY <1>2, <2>1, <2>2 DEF TypeOK, AcceptHalf, Respond, stateVars
<1>3. ASSUME NEW f \in Frame \cup {Malformed}, FinishMessage(f)
      PROVE TypeOK'
    <2>1. halves' \subseteq Index
        BY <1>3 DEF FinishMessage, Heard, TypeOK, Frame
    <2>2. completed' \in Payload \cup {None} /\ gattPc' \in {"save", "idle"}
          /\ reply' \in {reply, "error"}
        BY <1>3 DEF FinishMessage, Respond, TypeOK, Frame
    <2> QED BY <1>0, <1>3, <2>1, <2>2 DEF TypeOK, FinishMessage, stateVars
<1>4. CASE RefuseWrite
    BY <1>4 DEF TypeOK, RefuseWrite, Respond, stateVars
<1>5. CASE Save
    BY <1>5 DEF TypeOK, Save, stateVars
<1>6. CASE Set
    BY <1>6, UsageAssumption DEF TypeOK, Set, stateVars
<1>7. CASE Publish
    BY <1>7 DEF TypeOK, Publish, Respond, stateVars
<1>8. CASE PeerDisconnects
    BY <1>0, <1>8 DEF TypeOK, PeerDisconnects, stateVars
<1>9. CASE PollStale
    BY <1>9, PayloadType DEF TypeOK, PollStale, StateGoes, gattVars
<1>10. CASE PublishStale
    BY <1>10 DEF TypeOK, PublishStale, StateGoes, gattVars
<1>11. CASE TakeCopy
    BY <1>11 DEF TypeOK, TakeCopy, StateGoes, gattVars
<1>12. CASE ShowCopy
    BY <1>12 DEF TypeOK, ShowCopy, StateGoes, gattVars
<1>13. CASE Tick
    BY <1>13, UsageAssumption DEF TypeOK, Tick, gattVars, stateVars
<1>14. CASE Reboot
    <2>1. snapshot' \in Payload \cup {None} /\ unreadable' \in BOOLEAN
        BY <1>14, PayloadType DEF Reboot, Restored, TypeOK
    <2>2. age' \in 0 .. StaleAfter + 1
        BY <1>14, UsageAssumption DEF Reboot
    <2> QED BY <1>0, <1>14, <2>1, <2>2 DEF TypeOK, Reboot
<1>15. CASE UNCHANGED vars
    BY <1>15 DEF TypeOK, vars, gattVars, stateVars
<1> QED
    BY <1>1, <1>2, <1>3, <1>4, <1>5, <1>6, <1>7, <1>8, <1>9, <1>10, <1>11,
       <1>12, <1>13, <1>14, <1>15
       DEF Next, Bluetooth, Commit, StateTask

(* Every variable keeps its type, for any payloads, ids and window.         *)
THEOREM TypeCorrect == Spec => []TypeOK
BY TypeInit, TypeStep, PTL DEF Spec

-----------------------------------------------------------------------------
(* Only whole messages.  The watched payload can be anywhere only when     *)
(* both its halves were counted, and the reassembler's intact halves of it *)
(* were.                                                                   *)

Counted ==
    /\ Watched \in {snapshot, stored, shown, copy, completed}
           => halves = Index
    /\ \A i \in Index :
           partial.sum = Watched /\ partial.parts[i] = "intact"
               => i \in halves

LEMMA CountedInit == Init => Counted
BY WatchedIsLive DEF Init, Counted, Blank, Index

LEMMA BlankCountsNothing == \A i \in Index : Blank.parts[i] = "blank"
BY DEF Blank

(* Taking a half keeps the reassembler's part of the invariant.             *)
LEMMA WithCounted ==
    ASSUME TypeOK, Counted, NEW f \in Frame, ~ Contradicts(f), Heard(f)
    PROVE  /\ halves \subseteq halves'
           /\ halves' \subseteq Index
           /\ \A i \in Index :
                  With(f).sum = Watched /\ With(f).parts[i] = "intact"
                      => i \in halves'
<1>1. halves \subseteq halves' /\ halves' \subseteq Index
    BY DEF Heard, TypeOK, Frame
<1>2. ASSUME NEW i \in Index, With(f).sum = Watched,
             With(f).parts[i] = "intact"
      PROVE i \in halves'
    <2>1. f.sum = Watched
        BY <1>2, WithType DEF TypeOK
    <2>2. CASE i = f.index
        <3>1. With(f).parts[i] = f.half
            BY <2>2 DEF With
        <3> QED BY <1>2, <2>1, <2>2, <3>1 DEF Heard
    <2>3. CASE i # f.index /\ Begins(f)
        BY <1>2, <2>3 DEF With
    <2>4. CASE i # f.index /\ ~ Begins(f)
        <3>1. partial.sum = f.sum
            BY <2>4 DEF Begins, Contradicts
        <3>2. partial.parts[i] = "intact"
            BY <1>2, <2>4 DEF With
        <3> QED BY <1>1, <2>1, <3>1, <3>2 DEF Counted
    <2> QED BY <2>2, <2>3, <2>4
<1> QED BY <1>1, <1>2

LEMMA CountedStep == TypeOK /\ Counted /\ [Next]_vars => Counted'
<1> SUFFICES ASSUME TypeOK, Counted, [Next]_vars PROVE Counted'
    OBVIOUS
<1>1. ASSUME NEW f \in Frame \cup {Malformed}, RejectFrame(f)
      PROVE Counted'
    BY <1>1, BlankCountsNothing
       DEF Counted, RejectFrame, Reject, Respond, stateVars
<1>2. ASSUME NEW f \in Frame \cup {Malformed}, AcceptHalf(f)
      PROVE Counted'
    <2>1. f \in Frame /\ ~ Contradicts(f) /\ Heard(f)
        BY <1>2 DEF AcceptHalf
    <2>2. /\ halves \subseteq halves' /\ halves' \subseteq Index
          /\ \A i \in Index :
                 With(f).sum = Watched /\ With(f).parts[i] = "intact"
                     => i \in halves'
        BY <2>1, WithCounted
    <2> QED BY <1>2, <2>2 DEF Counted, AcceptHalf, stateVars
<1>3. ASSUME NEW f \in Frame \cup {Malformed}, FinishMessage(f)
      PROVE Counted'
    <2>1. f \in Frame /\ ~ Contradicts(f) /\ Heard(f)
        BY <1>3 DEF FinishMessage
    <2>2. /\ halves \subseteq halves' /\ halves' \subseteq Index
          /\ \A i \in Index :
                 With(f).sum = Watched /\ With(f).parts[i] = "intact"
                     => i \in halves'
        BY <2>1, WithCounted
    <2>3. completed' = Watched => halves' = Index
        <3>1. CASE completed' = completed
            BY <2>2, <3>1 DEF Counted
        <3>2. CASE completed' = f.sum /\ ChecksumMatches(With(f))
            BY <2>1, <2>2, <3>2, WithType DEF ChecksumMatches, TypeOK
        <3> QED BY <1>3, <3>1, <3>2 DEF FinishMessage
    <2> QED
        BY <1>3, <2>2, <2>3, BlankCountsNothing
           DEF Counted, FinishMessage, stateVars
<1>4. CASE RefuseWrite
    BY <1>4 DEF Counted, RefuseWrite, Respond, stateVars
<1>5. CASE Save
    BY <1>5 DEF Counted, Save, stateVars
<1>6. CASE Set
    BY <1>6 DEF Counted, Set, stateVars
<1>7. CASE Publish
    BY <1>7, WatchedIsLive DEF Counted, Publish, Respond, stateVars
<1>8. CASE PeerDisconnects
    BY <1>8, BlankCountsNothing DEF Counted, PeerDisconnects, stateVars
<1>9. CASE PollStale
    <2>1. snapshot' = snapshot \/ snapshot' # Watched
        BY <1>9, PayloadType, WatchedIsLive DEF PollStale, TypeOK
    <2> QED
        BY <1>9, <2>1 DEF Counted, PollStale, StateGoes, gattVars
<1>10. CASE PublishStale
    BY <1>10, WatchedIsLive DEF Counted, PublishStale, StateGoes, gattVars
<1>11. CASE TakeCopy
    BY <1>11 DEF Counted, TakeCopy, StateGoes, gattVars
<1>12. CASE ShowCopy
    BY <1>12, WatchedIsLive DEF Counted, ShowCopy, StateGoes, gattVars
<1>13. CASE Tick
    BY <1>13 DEF Counted, Tick, gattVars, stateVars
<1>14. CASE Reboot
    <2>1. snapshot' # Watched
        BY <1>14, PayloadType, WatchedIsLive DEF Reboot, Restored, TypeOK
    <2> QED
        BY <1>14, <2>1, WatchedIsLive, BlankCountsNothing DEF Counted, Reboot
<1>15. CASE UNCHANGED vars
    BY <1>15 DEF Counted, vars, gattVars, stateVars
<1> QED
    BY <1>1, <1>2, <1>3, <1>4, <1>5, <1>6, <1>7, <1>8, <1>9, <1>10, <1>11,
       <1>12, <1>13, <1>14, <1>15
       DEF Next, Bluetooth, Commit, StateTask

(* A payload reaches the snapshot, the NVS or the screen only after both   *)
(* its halves arrived intact, however frames and crashes are interleaved   *)
(* (microstick_usage_reassembler_accept, process_frame).                   *)
THEOREM OnlyWholeKept == Spec => []OnlyWholeSnapshots
<1>1. Counted => OnlyWholeSnapshots
    BY DEF Counted, OnlyWholeSnapshots
<1> QED
    BY <1>1, TypeInit, TypeStep, CountedInit, CountedStep, PTL DEF Spec

-----------------------------------------------------------------------------
(* A restored snapshot is never live.                                      *)

LEMMA LiveStep ==
    TypeOK /\ LiveSinceDelivery /\ [Next]_vars => LiveSinceDelivery'
<1> SUFFICES ASSUME TypeOK, LiveSinceDelivery, [Next]_vars
             PROVE LiveSinceDelivery'
    OBVIOUS
<1>1. CASE UNCHANGED <<snapshot, synced>>
    BY <1>1 DEF LiveSinceDelivery
<1>2. CASE Set
    BY <1>2 DEF LiveSinceDelivery, Set
<1>3. CASE PollStale
    BY <1>3, PayloadType DEF LiveSinceDelivery, PollStale, TypeOK
<1>4. CASE Reboot
    BY <1>4, PayloadType DEF LiveSinceDelivery, Reboot, Restored, TypeOK, None
<1> QED
    BY <1>1, <1>2, <1>3, <1>4
       DEF Next, Bluetooth, Commit, StateTask, RejectFrame, AcceptHalf,
           FinishMessage, RefuseWrite, Save, Publish, PeerDisconnects,
           PublishStale, TakeCopy, ShowCopy, Tick, vars

(* What the device shows as live was delivered since its last start        *)
(* (microstick_usage_snapshot_restore_cached, microstick_usage_gatt_prepare). *)
THEOREM RestoredIsStale == Spec => []LiveSinceDelivery
<1>1. Init => LiveSinceDelivery
    BY DEF Init, LiveSinceDelivery, None
<1> QED BY <1>1, TypeInit, TypeStep, LiveStep, PTL DEF Spec

-----------------------------------------------------------------------------
(* The NVS copy.  As long as every load succeeded, the snapshot is at      *)
(* least as new as the NVS copy, except between a save and the update of   *)
(* the snapshot, when the message being committed is.                      *)

Ordered ==
    ~ unreadable =>
        /\ gattPc # "set" => stored.at =< snapshot.at
        /\ gattPc = "save" => snapshot.at =< completed.at
        /\ gattPc = "set" => stored.at =< completed.at

LEMMA OrderedStep ==
    TypeOK /\ Ordered /\ [Next]_vars
        => Ordered' /\ (stored'.at >= stored.at \/ unreadable)
<1> SUFFICES ASSUME TypeOK, Ordered, [Next]_vars
             PROVE Ordered' /\ (stored'.at >= stored.at \/ unreadable)
    OBVIOUS
<1>0. stored.at \in Int /\ snapshot.at \in Int /\ completed.at \in Int
    BY PayloadType DEF TypeOK
<1>1. CASE UNCHANGED <<stored, snapshot, unreadable>>
           /\ (gattPc' = "idle" \/ UNCHANGED <<gattPc, completed>>)
           /\ (gattPc # "set" \/ gattPc' = "set")
    BY <1>0, <1>1 DEF Ordered
<1>2. ASSUME NEW f \in Frame \cup {Malformed}, FinishMessage(f),
             gattPc' = "save"
      PROVE Ordered' /\ stored'.at >= stored.at
    <2>1. completed' = f.sum /\ ~ IsRollback(f.sum) /\ f.sum \in Payload
        BY <1>2 DEF FinishMessage, Respond, Frame
    <2>2. f.sum.at \in Nat
        BY <2>1, PayloadType
    <2>3. snapshot.at =< f.sum.at
        <3>1. CASE snapshot = None
            BY <2>2, <3>1 DEF None
        <3>2. CASE snapshot # None
            BY <1>0, <2>1, <2>2, <3>2 DEF IsRollback
        <3> QED BY <3>1, <3>2
    <2> QED
        BY <1>0, <1>2, <2>1, <2>3 DEF Ordered, FinishMessage
<1>3. CASE Save
    BY <1>0, <1>3 DEF Ordered, Save
<1>4. CASE Set
    BY <1>0, <1>4 DEF Ordered, Set
<1>5. CASE Publish
    BY <1>0, <1>5 DEF Ordered, Publish, Respond
<1>6. CASE PollStale
    <2>1. snapshot'.at = snapshot.at
        BY <1>6, PayloadType DEF PollStale, TypeOK
    <2> QED BY <1>0, <1>6, <2>1 DEF Ordered, PollStale, gattVars
<1>7. CASE Reboot
    <2>1. Restored(stored).at = stored.at
        BY PayloadType DEF Restored, TypeOK
    <2> QED BY <1>0, <1>7, <2>1 DEF Ordered, Reboot
<1> QED
    BY <1>0, <1>1, <1>2, <1>3, <1>4, <1>5, <1>6, <1>7
       DEF Next, Bluetooth, Commit, StateTask, RejectFrame, Reject, Respond,
           AcceptHalf, FinishMessage, RefuseWrite, PeerDisconnects,
           PublishStale, TakeCopy, ShowCopy, Tick, vars, gattVars, stateVars

(* Unless a load failed, no crash, failed save or order of deliveries puts *)
(* an older snapshot over a newer one in the NVS (process_frame).          *)
THEOREM NvsNeverRollsBack == Spec => StoredNeverRollsBack
<1>1. Init => Ordered
    BY DEF Init, Ordered, None
<1>2. TypeOK /\ Ordered /\ [Next]_vars
          => [stored'.at >= stored.at \/ unreadable]_vars
    BY OrderedStep
<1> QED
    BY <1>1, <1>2, TypeInit, TypeStep, OrderedStep, PTL
       DEF Spec, StoredNeverRollsBack

-----------------------------------------------------------------------------
(* The Agent table and Roxy (AppState).                                     *)

(* Induction over the loops of the model: among the counterexamples there   *)
(* would be a least one.                                                    *)
LEMMA Least ==
    ASSUME NEW T, T \subseteq Nat, T # {}
    PROVE  \E n \in T : \A m \in T : n =< m
<1>1. PICK n \in T : \A m \in T : ~ (<<m, n>> \in OpToRel(<, Nat))
    BY NatLessThanWellFounded, WFMin
<1>2. ASSUME NEW m \in T PROVE n =< m
    <2>1. ~ (<<m, n>> \in OpToRel(<, Nat))
        BY <1>1
    <2>2. ~ (m < n)
        BY <2>1 DEF OpToRel
    <2> QED BY <2>2
<1> QED BY <1>2

(* A set that has zero and with each number of 0 .. N - 1 the next one has  *)
(* all numbers up to N. *)
LEMMA UpTo ==
    ASSUME NEW N \in Nat, NEW T, 0 \in T,
           \A n \in 0 .. N : n # N /\ n \in T => n + 1 \in T
    PROVE  0 .. N \subseteq T
<1> SUFFICES ASSUME 0 .. N \ T # {} PROVE FALSE
    OBVIOUS
<1>1. PICK n \in 0 .. N \ T : \A m \in 0 .. N \ T : n =< m
    <2> DEFINE U == 0 .. N \ T
    <2>1. U \subseteq Nat /\ U # {}
        OBVIOUS
    <2>2. \E n \in U : \A m \in U : n =< m
        <3> HIDE DEF U
        <3> QED BY <2>1, Least
    <2> QED BY <2>2
<1>2. n # 0
    BY <1>1
<1>3. n - 1 \in 0 .. N /\ n - 1 # N
    BY <1>1, <1>2
<1>4. n - 1 \in T
    BY <1>1, <1>3
<1>5. n - 1 + 1 \in T
    BY <1>3, <1>4
<1> QED BY <1>1, <1>5

(* f is a run of a loop over 1 .. N with a state in S: what it holds after   *)
(* each pass. *)
IsRun(N, S, start, step, f) ==
    /\ f \in [0 .. N -> S] /\ f[0] = start
    /\ \A n \in 1 .. N : f[n] = step[<<f[n - 1], n>>]

(* Every loop has a run. *)
LEMMA Loop ==
    ASSUME NEW N \in Nat, NEW S, NEW start \in S,
           NEW step \in [S \X (1 .. N) -> S]
    PROVE  \E f : IsRun(N, S, start, step, f)
<1> DEFINE Runs(k, f) ==
        /\ f \in [0 .. k -> S] /\ f[0] = start
        /\ \A n \in 1 .. k : f[n] = step[<<f[n - 1], n>>]
           T == {k \in 0 .. N : \E f : Runs(k, f)}
<1>1. 0 \in T
    <2>1. Runs(0, [n \in 0 .. 0 |-> start])
        OBVIOUS
    <2>2. 0 \in 0 .. N
        OBVIOUS
    <2> HIDE DEF Runs
    <2> QED BY <2>1, <2>2
<1>2. ASSUME NEW k \in 0 .. N, k # N, k \in T PROVE k + 1 \in T
    <2>1. PICK f : Runs(k, f)
        BY <1>2
    <2> DEFINE g == [n \in 0 .. k + 1 |->
                        IF n = k + 1 THEN step[<<f[k], k + 1>>] ELSE f[n]]
    <2>2. k \in 0 .. k /\ k + 1 \in 1 .. N
        BY <1>2
    <2>3. f[k] \in S
        BY <2>1, <2>2
    <2>4. <<f[k], k + 1>> \in S \X (1 .. N)
        BY <2>2, <2>3
    <2>5. step[<<f[k], k + 1>>] \in S
        BY <2>4
    <2>6. g \in [0 .. k + 1 -> S]
        <3>1. ASSUME NEW n \in 0 .. k + 1, n # k + 1 PROVE f[n] \in S
            <4>1. n \in 0 .. k
                BY <3>1, <1>2
            <4> QED BY <4>1, <2>1
        <3> QED BY <3>1, <2>5
    <2>7. g[0] = start
        BY <2>1, <1>2
    <2>8. ASSUME NEW n \in 1 .. k + 1 PROVE g[n] = step[<<g[n - 1], n>>]
        <3>1. n \in 0 .. k + 1 /\ n - 1 \in 0 .. k + 1 /\ n - 1 # k + 1
            BY <1>2
        <3>2. g[n - 1] = f[n - 1]
            BY <3>1
        <3>3. CASE n = k + 1
            <4>1. n - 1 = k
                BY <3>3, <1>2
            <4> QED BY <3>1, <3>2, <3>3, <4>1
        <3>4. CASE n # k + 1
            <4>1. n \in 1 .. k /\ g[n] = f[n]
                BY <3>4, <3>1, <1>2
            <4> QED BY <4>1, <3>2, <2>1
        <3> QED BY <3>3, <3>4
    <2>9. Runs(k + 1, g)
        BY <2>6, <2>7, <2>8
    <2>10. k + 1 \in 0 .. N
        BY <1>2
    <2> QED BY <2>9, <2>10
<1>3. 0 .. N \subseteq T
    <2> HIDE DEF T
    <2> QED BY <1>1, <1>2, UpTo
<1>4. N \in T
    BY <1>3
<1>5. PICK f : Runs(N, f)
    BY <1>4
<1> QED BY <1>5 DEF IsRun

(* One slot of the loop of microstick_roxy_aggregate. *)
LEMMA LouderIsLoudest ==
    ASSUME NEW M, NEW x
    PROVE  Louder(Loudest(M), x) = Loudest(M \cup {x})
BY DEF Louder, Loudest

(* The unfolded loop of AggregateOf. *)
LEMMA AggregateLoop ==
    ASSUME NEW slots
    PROVE  LET f == AggregateOf(slots)
           IN  /\ f[0] = "IDLE"
               /\ \A n \in 1 .. AgentCount :
                    f[n] = Louder(f[n - 1], slots[n].meaning)
<1> DEFINE step == [p \in Semantic \X (1 .. AgentCount) |->
                        Louder(p[1], slots[p[2]].meaning)]
           Unfolds(f) == f = [n \in 0 .. AgentCount |->
                IF n = 0 THEN "IDLE" ELSE Louder(f[n - 1], slots[n].meaning)]
<1>1. step \in [Semantic \X (1 .. AgentCount) -> Semantic]
    BY DEF Louder, Semantic
<1>2. AgentCount \in Nat /\ "IDLE" \in Semantic
    BY AppAssumption DEF Semantic
<1>3. PICK f : IsRun(AgentCount, Semantic, "IDLE", step, f)
    <2> HIDE DEF step
    <2> QED BY <1>1, <1>2, Loop, Zenon
<1>4. /\ f \in [0 .. AgentCount -> Semantic] /\ f[0] = "IDLE"
      /\ \A n \in 1 .. AgentCount : f[n] = step[<<f[n - 1], n>>]
    <2> HIDE DEF step
    <2> QED BY <1>3 DEF IsRun
<1>5. ASSUME NEW n \in 0 .. AgentCount, n # 0
      PROVE  step[<<f[n - 1], n>>] = Louder(f[n - 1], slots[n].meaning)
    <2>1. n \in 1 .. AgentCount /\ n - 1 \in 0 .. AgentCount
        BY <1>2, <1>5
    <2>2. <<f[n - 1], n>> \in Semantic \X (1 .. AgentCount)
        BY <2>1, <1>4
    <2> QED BY <2>2
<1>6. Unfolds(f)
    <2>1. ASSUME NEW n \in 0 .. AgentCount
          PROVE  f[n] = IF n = 0 THEN "IDLE"
                        ELSE Louder(f[n - 1], slots[n].meaning)
        <3> HIDE DEF step
        <3>1. n = 0 \/ n \in 1 .. AgentCount
            BY <1>2
        <3> QED BY <3>1, <1>4, <1>5
    <2> QED BY <2>1, <1>4
<1>7. AggregateOf(slots) = CHOOSE g : Unfolds(g)
    BY DEF AggregateOf
<1>8. Unfolds(AggregateOf(slots))
    <2> HIDE DEF Unfolds
    <2> QED BY <1>6, <1>7
<1>9. /\ 0 \in 0 .. AgentCount
      /\ \A n \in 1 .. AgentCount : n \in 0 .. AgentCount /\ n # 0
    BY <1>2
<1> DEFINE h == AggregateOf(slots)
<1>10. Unfolds(h)
    BY <1>8
<1> HIDE DEF h
<1>11. /\ h[0] = "IDLE"
       /\ \A n \in 1 .. AgentCount : h[n] = Louder(h[n - 1], slots[n].meaning)
    BY <1>9, <1>10
<1> QED BY <1>11 DEF h

(* What Roxy makes of a table, in whatever order its slots come. *)
LEMMA AggregateIsLoudest ==
    ASSUME NEW slots
    PROVE  AggregateOf(slots)[AgentCount]
               = Loudest({slots[b].meaning : b \in Agent})
<1> DEFINE f == AggregateOf(slots)
           T == {n \in 0 .. AgentCount :
                    f[n] = Loudest({slots[b].meaning : b \in 1 .. n})}
<1>1. 0 \in T
    <2>1. f[0] = "IDLE" /\ 0 \in 0 .. AgentCount
        BY AggregateLoop, AppAssumption
    <2>2. {slots[b].meaning : b \in 1 .. 0} = {}
        OBVIOUS
    <2> QED BY <2>1, <2>2 DEF Loudest
<1>2. ASSUME NEW n \in 0 .. AgentCount, n # AgentCount, n \in T
      PROVE  n + 1 \in T
    <2>1. n + 1 \in 1 .. AgentCount /\ n + 1 \in 0 .. AgentCount
        BY <1>2, AppAssumption
    <2>2. f[n + 1] = Louder(f[n], slots[n + 1].meaning)
        <3>1. f[n + 1] = Louder(f[n + 1 - 1], slots[n + 1].meaning)
            BY <2>1, AggregateLoop
        <3>2. n + 1 - 1 = n
            BY <1>2
        <3> QED BY <3>1, <3>2
    <2>3. {slots[b].meaning : b \in 1 .. n + 1}
            = {slots[b].meaning : b \in 1 .. n} \cup {slots[n + 1].meaning}
        <3>1. 1 .. n + 1 = (1 .. n) \cup {n + 1}
            BY <1>2
        <3> QED BY <3>1
    <2> QED BY <1>2, <2>1, <2>2, <2>3, LouderIsLoudest
<1>3. AgentCount \in Nat
    BY AppAssumption
<1>4. AgentCount \in T
    <2> HIDE DEF T
    <2> QED BY <1>1, <1>2, <1>3, UpTo
<1> QED BY <1>4 DEF Agent

(* An update of one slot, and a frame of them, leave a well-formed table.   *)
LEMMA PatchedType ==
    ASSUME NEW slots \in [Agent -> Slot], NEW u \in SlotUpdate
    PROVE  Patched(slots, u) \in [Agent -> Slot]
<1>1. /\ u.id \in Agent
      /\ u.color \in Color \cup {"kept"} /\ u.effect \in Effect \cup {"kept"}
      /\ slots[u.id] \in Slot
    BY DEF SlotUpdate
<1>2. /\ slots[u.id].color \in Color \cup {"none"}
      /\ slots[u.id].effect \in Effect \cup {"none"}
    BY <1>1 DEF Slot
<1> DEFINE color == IF u.color = "kept" THEN slots[u.id].color ELSE u.color
           effect == IF u.effect = "kept" THEN slots[u.id].effect ELSE u.effect
           new == [color |-> color, effect |-> effect,
                   meaning |-> MeaningOf(color, effect)]
<1>3. color \in Color \cup {"none"} /\ effect \in Effect \cup {"none"}
    BY <1>1, <1>2
<1>4. MeaningOf(color, effect) \in Meaning
    <2> HIDE DEF color, effect
    <2> QED BY DEF MeaningOf, Meaning
<1>5. new \in Slot
    BY <1>3, <1>4 DEF Slot
<1>6. Patched(slots, u) = [slots EXCEPT ![u.id] = new]
    BY DEF Patched
<1> QED
    <2> HIDE DEF new
    <2> QED BY <1>5, <1>6

LEMMA SlotsType ==
    ASSUME NEW start \in [Agent -> Slot], NEW frame \in Seq(SlotUpdate)
    PROVE  SlotsAfter(start, frame)[Len(frame)] \in [Agent -> Slot]
<1> DEFINE S == [Agent -> Slot]
           N == Len(frame)
           step == [p \in S \X (1 .. N) |-> Patched(p[1], frame[p[2]])]
           Unfolds(f) == f = [n \in 0 .. N |->
                IF n = 0 THEN start ELSE Patched(f[n - 1], frame[n])]
<1>1. /\ N \in Nat /\ start \in S
      /\ \A n \in 1 .. N : frame[n] \in SlotUpdate
    OBVIOUS
<1>2. step \in [S \X (1 .. N) -> S]
    <2>1. ASSUME NEW p \in S \X (1 .. N)
          PROVE  Patched(p[1], frame[p[2]]) \in S
        <3>1. p[1] \in S /\ p[2] \in 1 .. N
            OBVIOUS
        <3>2. frame[p[2]] \in SlotUpdate
            BY <3>1, <1>1
        <3> QED BY <3>1, <3>2, PatchedType
    <2> QED BY <2>1
<1>3. PICK f : IsRun(N, S, start, step, f)
    <2> HIDE DEF step, S, N
    <2> QED BY <1>1, <1>2, Loop, Zenon
<1>4. /\ f \in [0 .. N -> S] /\ f[0] = start
      /\ \A n \in 1 .. N : f[n] = step[<<f[n - 1], n>>]
    <2> HIDE DEF step, S, N
    <2> QED BY <1>3 DEF IsRun
<1>5. ASSUME NEW n \in 1 .. N
      PROVE  step[<<f[n - 1], n>>] = Patched(f[n - 1], frame[n])
    <2>1. n - 1 \in 0 .. N
        BY <1>1, <1>5
    <2>2. <<f[n - 1], n>> \in S \X (1 .. N)
        <3> HIDE DEF S, N, step
        <3> QED BY <2>1, <1>4
    <2> HIDE DEF S, N
    <2> QED BY <2>2
<1>6. Unfolds(f)
    <2> HIDE DEF step, S, N
    <2>1. ASSUME NEW n \in 0 .. N
          PROVE  f[n] = IF n = 0 THEN start ELSE Patched(f[n - 1], frame[n])
        <3>1. n = 0 \/ n \in 1 .. N
            BY <1>1
        <3> QED BY <3>1, <1>4, <1>5
    <2> QED BY <2>1, <1>4
<1>7. SlotsAfter(start, frame) = CHOOSE g : Unfolds(g)
    BY DEF SlotsAfter
<1>8. Unfolds(SlotsAfter(start, frame))
    <2> HIDE DEF Unfolds
    <2> QED BY <1>6, <1>7
<1> DEFINE h == SlotsAfter(start, frame)
           T == {n \in 0 .. N : h[n] \in S}
<1>9. Unfolds(h)
    BY <1>8
<1> HIDE DEF h, S, N
<1>10. 0 \in T
    BY <1>1, <1>9
<1>11. ASSUME NEW n \in 0 .. N, n # N, n \in T PROVE n + 1 \in T
    <2>1. n + 1 \in 0 .. N /\ n + 1 \in 1 .. N /\ n + 1 # 0 /\ n + 1 - 1 = n
        BY <1>1, <1>11
    <2>2. h[n + 1] = Patched(h[n], frame[n + 1])
        BY <2>1, <1>9
    <2>3. h[n] \in S /\ frame[n + 1] \in SlotUpdate
        BY <2>1, <1>1, <1>11
    <2>4. Patched(h[n], frame[n + 1]) \in S
        BY <2>3, PatchedType DEF S
    <2> QED BY <2>1, <2>2, <2>4
<1>12. N \in T
    <2> HIDE DEF T
    <2>1. \A n \in 0 .. N : n # N /\ n \in T => n + 1 \in T
        BY <1>11
    <2>2. N \in Nat /\ 0 \in T
        BY <1>1, <1>10
    <2>3. 0 .. N \subseteq T
        BY <2>1, <2>2, UpTo
    <2> QED BY <2>2, <2>3
<1> QED BY <1>12 DEF h, S, N

LEMMA StatusType ==
    ASSUME NEW m \in Micro, NEW frame \in Seq(SlotUpdate)
    PROVE  StatusOf(m, frame) \in Micro
<1>1. CASE AllOff(frame)
    BY <1>1 DEF StatusOf
<1>2. CASE ~ AllOff(frame)
    <2> DEFINE slots == SlotsAfter(m.slots, frame)[Len(frame)]
               selected == HostSelected(frame, slots, m.selected)
    <2>1. m.slots \in [Agent -> Slot] /\ m.selected \in Agent
        BY DEF Micro
    <2>2. slots \in [Agent -> Slot]
        BY <2>1, SlotsType
    <2>3. selected \in Agent
        <3> HIDE DEF slots
        <3>1. Cardinality(Breathing(slots)) = 1 => Breathing(slots) # {}
            <4>1. Cardinality({}) = 0
                BY FS_EmptySet
            <4>2. Breathing(slots) = {} => Cardinality(Breathing(slots)) = 0
                BY <4>1, Zenon
            <4>3. 0 # 1
                OBVIOUS
            <4> QED BY <4>2, <4>3, Zenon
        <3>2. Breathing(slots) \subseteq Agent
            BY DEF Breathing
        <3> QED BY <2>1, <3>1, <3>2 DEF HostSelected
    <2>4. StatusOf(m, frame) = [m EXCEPT !.slots = slots, !.selected = selected]
        BY <1>2 DEF StatusOf
    <2> HIDE DEF slots, selected
    <2> QED BY <2>2, <2>3, <2>4 DEF Micro
<1> QED BY <1>1, <1>2

LEMMA AppStart == AppInit => AppTypeOK
<1> SUFFICES ASSUME AppInit PROVE AppTypeOK
    OBVIOUS
<1> USE DEF AppInit
<1>1. 1 \in Agent
    BY AppAssumption DEF Agent
<1>2. Free \in Slot
    BY DEF Free, Slot, Meaning
<1>3. NoLink \in Micro
    BY <1>1, <1>2 DEF NoLink, Micro
<1>4. "IDLE" \in View /\ Cold \in App
    BY <1>3 DEF Cold, App, View
<1>5. /\ micro \in Micro /\ app \in App /\ ui \in App /\ view \in View
      /\ got \in [Task -> Micro] /\ seen \in [Task -> View]
      /\ carried \in [Task -> App]
    BY <1>3, <1>4
<1>6. /\ pc \in [Task -> Section] /\ after \in [Task -> Section]
      /\ pick \in Agent
    BY <1>1 DEF Section
<1>7. dirty \in BOOLEAN /\ over \in BOOLEAN
    OBVIOUS
<1>8. /\ lvgl \in {"wait", "draw"} /\ taken \in App
      /\ roxy \in Semantic /\ last \in [table : Semantic, shown : Semantic]
      /\ hold \in [active : BOOLEAN, expired : BOOLEAN]
    BY <1>4 DEF Semantic, Released
<1>9. events \in 0 .. MaxEvents /\ inputs \in 0 .. MaxInputs
    BY AppAssumption
<1> QED BY <1>5, <1>6, <1>7, <1>8, <1>9 DEF AppTypeOK

(* The sections of one task: what it does next, and what it carries.        *)
LEMMA GoesType ==
    ASSUME AppTypeOK, NEW t \in Task, NEW step \in Section, Goes(t, step)
    PROVE  pc' \in [Task -> Section]
BY DEF AppTypeOK, Goes

(* The host's events change the table. *)
LEMMA HostEventTypes ==
    ASSUME AppTypeOK, NEW m \in Micro,
           NEW e \in {"none", "DISCONNECTED", "LIGHTING"}, HostEvent(e, m)
    PROVE  AppTypeOK'
<1>1. pc' \in [Task -> Section]
    BY GoesType DEF HostEvent, Task, Section
<1>2. events' \in 0 .. MaxEvents
    BY AppAssumption DEF HostEvent, AppTypeOK
<1> QED BY <1>1, <1>2 DEF HostEvent, AppTypeOK, screenVars, drawVars

LEMMA HostTypes ==
    ASSUME AppTypeOK,
           \/ Connected \/ Disconnected \/ HostLighting
           \/ \E frame \in Frames : HostStatus(frame)
    PROVE  AppTypeOK'
<1>1. CASE Connected
    <2>1. [micro EXCEPT !.connected = TRUE] \in Micro
        BY DEF AppTypeOK, Micro
    <2> QED BY <1>1, <2>1, HostEventTypes DEF Connected
<1>2. CASE Disconnected
    <2>1. NoLink \in Micro
        <3>1. Free \in Slot /\ 1 \in Agent
            BY AppAssumption DEF Free, Slot, Meaning, Agent
        <3> QED BY <3>1 DEF NoLink, Micro
    <2> QED BY <1>2, <2>1, HostEventTypes DEF Disconnected
<1>3. CASE HostLighting
    <2>1. micro \in Micro
        BY DEF AppTypeOK
    <2> QED BY <1>3, <2>1, HostEventTypes DEF HostLighting
<1>4. CASE \E frame \in Frames : HostStatus(frame)
    <2>1. PICK frame \in Frames : HostEvent("none", StatusOf(micro, frame))
        BY <1>4 DEF HostStatus
    <2>2. StatusOf(micro, frame) \in Micro
        BY AppAssumption, StatusType DEF AppTypeOK
    <2> QED BY <2>1, <2>2, HostEventTypes
<1> QED BY <1>1, <1>2, <1>3, <1>4

(* The locked sections of the three tasks. *)
LEMMA SectionTypes ==
    ASSUME AppTypeOK, NEW t \in Task,
           \/ Get(t) \/ Store(t) \/ CopyView(t) \/ StoreView(t) \/ CopyApp(t)
           \/ UpdateUi(t)
    PROVE  AppTypeOK'
<1>0. NoLink \in Micro /\ "IDLE" \in View /\ Cold \in App
    <2>1. Free \in Slot /\ 1 \in Agent
        BY AppAssumption DEF Free, Slot, Meaning, Agent
    <2>2. NoLink \in Micro /\ "IDLE" \in View
        BY <2>1 DEF NoLink, Micro, View
    <2> QED BY <2>2 DEF Cold, App
<1>1. CASE Get(t)
    <2>1. pc' \in [Task -> Section]
        BY <1>1, GoesType DEF Get, Section
    <2>2. got' \in [Task -> Micro]
        BY <1>1 DEF Get, AppTypeOK
    <2> QED BY <1>1, <2>1, <2>2 DEF Get, AppTypeOK, screenVars, drawVars
<1>2. CASE Store(t)
    <2>1. pc' \in [Task -> Section]
        BY <1>2, GoesType DEF Store, Section
    <2>2. got' \in [Task -> Micro]
        BY <1>0, <1>2 DEF Store, AppTypeOK
    <2>3. app' \in App
        BY <1>2 DEF Store, AppTypeOK, App
    <2> QED BY <1>2, <2>1, <2>2, <2>3
           DEF Store, AppTypeOK, screenVars, drawVars
<1>3. CASE CopyView(t)
    <2>1. pc' \in [Task -> Section]
        BY <1>3, GoesType DEF CopyView, Section
    <2>2. seen' \in [Task -> View]
        BY <1>3 DEF CopyView, AppTypeOK
    <2> QED BY <1>3, <2>1, <2>2 DEF CopyView, AppTypeOK, screenVars, drawVars
<1>4. CASE StoreView(t)
    <2>1. pc' \in [Task -> Section]
        BY <1>4, GoesType DEF StoreView, Section
    <2>2. seen' \in [Task -> View]
        BY <1>0, <1>4 DEF StoreView, AppTypeOK
    <2>3. app' \in App
        BY <1>4 DEF StoreView, AppTypeOK, App
    <2> QED BY <1>4, <2>1, <2>2, <2>3
           DEF StoreView, AppTypeOK, screenVars, drawVars
<1>5. CASE CopyApp(t)
    <2>1. pc' \in [Task -> Section]
        BY <1>5, GoesType DEF CopyApp, Section
    <2>2. carried' \in [Task -> App]
        BY <1>5 DEF CopyApp, AppTypeOK
    <2> QED BY <1>5, <2>1, <2>2 DEF CopyApp, AppTypeOK, screenVars, drawVars
<1>6. CASE UpdateUi(t)
    <2>1. after[t] \in Section
        BY DEF AppTypeOK
    <2>2. pc' \in [Task -> Section]
        BY <1>6, <2>1, GoesType DEF UpdateUi
    <2>3. after' \in [Task -> Section]
        BY <1>6 DEF UpdateUi, AppTypeOK, Section
    <2>4. carried' \in [Task -> App] /\ ui' \in App
        BY <1>0, <1>6 DEF UpdateUi, AppTypeOK
    <2>5. dirty' \in BOOLEAN
        BY <1>6 DEF UpdateUi
    <2> QED BY <1>6, <2>2, <2>3, <2>4, <2>5 DEF UpdateUi, AppTypeOK, drawVars
<1> QED BY <1>1, <1>2, <1>3, <1>4, <1>5, <1>6

(* What the controller and the input task do between those sections. *)
LEMMA ControlTypes ==
    ASSUME AppTypeOK,
           \/ ControllerReset \/ AgentSelected \/ StateRound
           \/ \E voice \in View : HostVoice(voice) \/ InputVoice(voice)
           \/ \E a \in Agent : SelectAgent(a)
           \/ \E ok \in BOOLEAN : SendAgent(ok)
    PROVE  AppTypeOK'
<1>0. {"host", "input", "state"} \subseteq Task
    BY DEF Task
<1>1. CASE ControllerReset
    <2>1. pc' \in [Task -> Section] /\ after' \in [Task -> Section]
        BY <1>0, <1>1, GoesType DEF ControllerReset, AppTypeOK, Section
    <2> QED BY <1>1, <2>1
           DEF ControllerReset, AppTypeOK, View, screenVars, drawVars
<1>2. CASE AgentSelected
    <2>1. pc' \in [Task -> Section] /\ after' \in [Task -> Section]
        BY <1>0, <1>2, GoesType DEF AgentSelected, AppTypeOK, Section
    <2>2. micro' \in Micro
        BY <1>2 DEF AgentSelected, AppTypeOK, Micro
    <2>3. pick' \in Agent
        BY <1>2, AppAssumption DEF AgentSelected, Agent
    <2> QED BY <1>2, <2>1, <2>2, <2>3
           DEF AgentSelected, AppTypeOK, screenVars, drawVars
<1>3. CASE StateRound
    <2>1. pc' \in [Task -> Section]
        BY <1>0, <1>3, GoesType DEF StateRound, Section
    <2> QED BY <1>3, <2>1 DEF StateRound, AppTypeOK, screenVars, drawVars
<1>4. ASSUME NEW voice \in View, HostVoice(voice) PROVE AppTypeOK'
    <2>1. pc' \in [Task -> Section] /\ after' \in [Task -> Section]
        <3>1. CASE /\ Goes("host", "viewcopy")
                   /\ after' = [after EXCEPT !["host"] = "copy"]
            BY <1>0, <3>1, GoesType DEF AppTypeOK, Section
        <3>2. CASE Goes("host", "copy") /\ UNCHANGED after
            BY <1>0, <3>2, GoesType DEF AppTypeOK, Section
        <3> QED BY <1>4, <3>1, <3>2 DEF HostVoice
    <2>2. /\ view' = voice /\ event' = "none"
          /\ UNCHANGED <<micro, app, pick, got, seen, carried, ui,
                         screenVars, events, inputs>>
        BY <1>4 DEF HostVoice
    <2> QED BY <1>4, <2>1, <2>2 DEF AppTypeOK, screenVars, drawVars
<1>5. ASSUME NEW voice \in View, InputVoice(voice) PROVE AppTypeOK'
    <2>1. pc' \in [Task -> Section]
        BY <1>0, <1>5, GoesType DEF InputVoice, Section
    <2>2. inputs' \in 0 .. MaxInputs
        BY <1>5, AppAssumption DEF InputVoice, AppTypeOK
    <2> QED BY <1>5, <2>1, <2>2 DEF InputVoice, AppTypeOK, screenVars, drawVars
<1>6. ASSUME NEW a \in Agent, SelectAgent(a) PROVE AppTypeOK'
    <2>1. pc' \in [Task -> Section]
        <3>1. CASE micro.connected
            BY <1>0, <1>6, <3>1, GoesType DEF SelectAgent, Section
        <3>2. CASE ~ micro.connected
            BY <1>0, <1>6, <3>2, GoesType DEF SelectAgent, Section
        <3> QED BY <3>1, <3>2
    <2>2. inputs' \in 0 .. MaxInputs
        BY <1>6, AppAssumption DEF SelectAgent, AppTypeOK
    <2> QED BY <1>6, <2>1, <2>2
           DEF SelectAgent, AppTypeOK, screenVars, drawVars
<1>7. ASSUME NEW ok \in BOOLEAN, SendAgent(ok) PROVE AppTypeOK'
    <2>1. pc' \in [Task -> Section]
        BY <1>0, <1>7, GoesType DEF SendAgent, Section
    <2> QED BY <1>7, <2>1 DEF SendAgent, AppTypeOK, screenVars, drawVars
<1> QED BY <1>1, <1>2, <1>3, <1>4, <1>5, <1>6, <1>7

(* The LVGL task. *)
LEMMA AggregateType ==
    ASSUME NEW m
    PROVE  Aggregate(m) \in Semantic
<1>1. Aggregate(m) = "OFFLINE" \/ \E M : Aggregate(m) = Loudest(M)
    BY AggregateIsLoudest DEF Aggregate
<1> QED BY <1>1 DEF Loudest, Semantic

LEMMA TakeTypes ==
    ASSUME AppTypeOK, TakeState
    PROVE  AppTypeOK'
<1>1. lvgl' \in {"wait", "draw"} /\ taken' \in App /\ dirty' \in BOOLEAN
    BY DEF TakeState, AppTypeOK
<1> QED BY <1>1 DEF TakeState, AppTypeOK, taskVars, drawVars

LEMMA DrawTypes ==
    ASSUME AppTypeOK, Draw \/ HoldPasses
    PROVE  AppTypeOK'
<1>1. CASE Draw
    <2> DEFINE table == Aggregate(taken.micro)
    <2>1. table \in Semantic
        BY AggregateType
    <2> HIDE DEF table
    <2>2. RoxyFor(taken.view, table) \in Semantic
        BY <2>1 DEF RoxyFor, Semantic
    <2>3. roxy' \in Semantic /\ last' \in [table : Semantic, shown : Semantic]
        <3>1. roxy' \in Semantic
            BY <1>1, <2>2 DEF Draw, table
        <3>2. CASE taken.view # "IDLE"
            BY <1>1, <3>1, <3>2 DEF Draw, AppTypeOK
        <3>3. CASE taken.view = "IDLE"
            <4>1. last' = [table |-> table, shown |-> roxy']
                BY <1>1, <3>3 DEF Draw, table
            <4> QED BY <2>1, <3>1, <4>1
        <3> QED BY <3>2, <3>3, <3>1
    <2>4. hold' \in [active : BOOLEAN, expired : BOOLEAN] /\ over' \in BOOLEAN
        <3>1. CASE taken.view # "IDLE"
            BY <1>1, <3>1 DEF Draw, AppTypeOK
        <3>2. CASE taken.view = "IDLE" /\ table # "DONE"
            <4>1. hold' = Released /\ over' = over
                BY <1>1, <3>2 DEF Draw, table
            <4>2. Released \in [active : BOOLEAN, expired : BOOLEAN]
                BY DEF Released
            <4> QED BY <4>1, <4>2 DEF AppTypeOK
        <3>3. CASE taken.view = "IDLE" /\ table = "DONE"
            <4>1. /\ hold' = [active |-> TRUE, expired |-> ~ ShowsComplete]
                  /\ over' = (over /\ hold.active)
                BY <1>1, <3>3 DEF Draw, table
            <4>2. /\ (~ ShowsComplete) \in BOOLEAN
                  /\ (over /\ hold.active) \in BOOLEAN
                OBVIOUS
            <4>3. over' \in BOOLEAN
                BY <4>1, <4>2, Zenon
            <4>4. ASSUME NEW e \in BOOLEAN
                  PROVE  [active |-> TRUE, expired |-> e]
                             \in [active : BOOLEAN, expired : BOOLEAN]
                OBVIOUS
            <4>5. hold' \in [active : BOOLEAN, expired : BOOLEAN]
                BY <4>1, <4>2, <4>4, Zenon
            <4> QED BY <4>3, <4>5
        <3> QED BY <3>1, <3>2, <3>3
    <2>5. Cold \in App
        <3>1. Free \in Slot /\ 1 \in Agent
            BY AppAssumption DEF Free, Slot, Meaning, Agent
        <3> QED BY <3>1 DEF Cold, NoLink, App, Micro, View
    <2>6. /\ lvgl' = "wait" /\ taken' = Cold
          /\ UNCHANGED <<micro, view, app, taskVars, ui, dirty, events, inputs>>
        BY <1>1 DEF Draw
    <2> QED BY <2>3, <2>4, <2>5, <2>6 DEF AppTypeOK, taskVars
<1>2. CASE HoldPasses
    <2>1. over' \in BOOLEAN
        BY <1>2 DEF HoldPasses
    <2> QED BY <1>2, <2>1 DEF HoldPasses, AppTypeOK, taskVars
<1> QED BY <1>1, <1>2

LEMMA AppTyped == AppTypeOK /\ [AppNext]_appVars => AppTypeOK'
<1> SUFFICES ASSUME AppTypeOK, [AppNext]_appVars PROVE AppTypeOK'
    OBVIOUS
<1>1. CASE UNCHANGED appVars
    BY <1>1 DEF appVars, taskVars, screenVars, drawVars, AppTypeOK
<1> QED
    BY <1>1, HostTypes, SectionTypes, ControlTypes, TakeTypes, DrawTypes
    DEF AppNext

(* Type correctness for every number of Agents and every set of frames:     *)
(* no order of the tasks' sections mixes up what they carry (publish_ui).   *)
THEOREM AppTypeCorrect == AppSpec => []AppTypeOK
BY AppStart, AppTyped, PTL DEF AppSpec

(* Between two rounds of the LVGL task the flag is set whenever the state   *)
(* is newer than the one drawn; while it draws, whenever it is newer than   *)
(* the copy.                                                                *)
DrawnInv ==
    /\ lvgl = "draw" /\ ~ dirty => taken = ui
    /\ RoxyIsLoudest

LEMMA AggregateIsLoudestOf ==
    ASSUME NEW m
    PROVE  Aggregate(m) = LoudestOf(m)
BY AggregateIsLoudest DEF Aggregate, LoudestOf

(* What only the LVGL task and an update of its state change. *)
LEMMA OthersLeaveDrawn ==
    ASSUME AppNext, ~ TakeState, ~ Draw, ~ \E t \in Task : UpdateUi(t)
    PROVE  UNCHANGED <<ui, dirty, lvgl, taken, roxy>>
BY DEF AppNext, screenVars, drawVars, Connected, Disconnected, HostLighting,
       HostStatus, HostEvent, ControllerReset, HostVoice, InputVoice,
       SelectAgent, SendAgent, AgentSelected, StateRound, Get, Store, CopyView,
       StoreView, CopyApp, HoldPasses

LEMMA DrawnStep ==
    ASSUME AppTypeOK, DrawnInv, [AppNext]_appVars
    PROVE  DrawnInv'
<1>1. CASE TakeState
    BY <1>1 DEF TakeState, DrawnInv, RoxyIsLoudest
<1>2. CASE Draw
    <2> SUFFICES ASSUME ~ dirty
                 PROVE  RoxyIsLoudest'
        BY <1>2 DEF Draw, DrawnInv, RoxyIsLoudest
    <2> DEFINE table == LoudestOf(ui.micro)
    <2>1. /\ taken = ui /\ ui' = ui
          /\ roxy' = RoxyFor(taken.view, Aggregate(taken.micro))
        BY <1>2 DEF Draw, DrawnInv
    <2>2. roxy' = RoxyFor(ui.view, table) /\ ui.view \in View
        BY <2>1, AggregateIsLoudestOf DEF AppTypeOK, App
    <2>3. LoudestOf(ui'.micro) = table
        BY <2>1
    <2>4. table \in Semantic
        BY DEF LoudestOf, Loudest, Semantic
    <2> HIDE DEF table
    <2>5. roxy' \in RoxyMayShow(ui.view, table)
        BY <2>2, <2>4 DEF RoxyFor, RoxyMayShow, View, Semantic
    <2> QED BY <2>1, <2>3, <2>5 DEF RoxyIsLoudest
<1>3. CASE \E t \in Task : UpdateUi(t)
    BY <1>3 DEF UpdateUi, DrawnInv, RoxyIsLoudest
<1>4. CASE UNCHANGED <<ui, dirty, lvgl, taken, roxy>>
    BY <1>4 DEF DrawnInv, RoxyIsLoudest
<1>5. CASE UNCHANGED appVars
    BY <1>4, <1>5 DEF appVars, screenVars, drawVars
<1> QED BY <1>1, <1>2, <1>3, <1>4, <1>5, OthersLeaveDrawn

(* Whenever nothing is left to redraw Roxy shows the voice display or the   *)
(* loudest meaning of the latest table, for any number of Agents and        *)
(* however the tasks publish while an older state is being drawn            *)
(* (apply_state, microstick_roxy_aggregate).                                *)
THEOREM RoxyIsCurrent == AppSpec => []RoxyIsLoudest
<1>1. AppInit => DrawnInv
    BY DEF AppInit, DrawnInv, RoxyIsLoudest
<1>2. DrawnInv => RoxyIsLoudest
    BY DEF DrawnInv
<1> QED BY <1>1, <1>2, DrawnStep, AppStart, AppTyped, PTL DEF AppSpec

(* A completion that is not shown, while the table says complete, is one    *)
(* whose hold has expired, and without a completion there is no hold. A     *)
(* voice display leaves both as they are.                                   *)
TakenDown ==
    /\ last.table = "DONE" /\ last.shown # "DONE" => hold.active /\ hold.expired
    /\ last.table # "DONE" => ~ hold.active

ShownOnce ==
    last'.table = "DONE" =>
        IF last.table = "DONE"
        THEN last.shown # "DONE" => last'.shown # "DONE"
        ELSE last'.shown = "DONE"

LEMMA DrawShows ==
    ASSUME TakenDown, Draw
    PROVE  TakenDown' /\ ShownOnce
<1> DEFINE table == Aggregate(taken.micro)
<1>1. CASE taken.view # "IDLE"
    <2>1. last' = last /\ hold' = hold
        BY <1>1 DEF Draw
    <2> QED BY <2>1 DEF TakenDown, ShownOnce
<1>2. CASE taken.view = "IDLE" /\ table = "DONE"
    <2>1. /\ hold'.active = TRUE /\ hold'.expired = ~ ShowsComplete
          /\ last'.table = "DONE"
          /\ last'.shown = IF ShowsComplete THEN "DONE" ELSE "IDLE"
        BY <1>2 DEF Draw, RoxyFor
    <2>2. /\ hold.active /\ hold.expired => ~ ShowsComplete
          /\ ~ hold.active => ShowsComplete
        BY DEF ShowsComplete
    <2> QED BY <2>1, <2>2 DEF TakenDown, ShownOnce
<1>3. CASE taken.view = "IDLE" /\ table # "DONE"
    <2>1. last'.table # "DONE" /\ hold'.active = FALSE
        BY <1>3 DEF Draw, Released
    <2> QED BY <2>1 DEF TakenDown, ShownOnce
<1> QED BY <1>1, <1>2, <1>3

(* Only drawing touches the hold. *)
LEMMA OthersLeaveHold ==
    ASSUME AppNext, ~ Draw
    PROVE  UNCHANGED <<hold, last>>
BY DEF AppNext, screenVars, drawVars, Connected, Disconnected, HostLighting,
       HostStatus, HostEvent, ControllerReset, HostVoice, InputVoice,
       SelectAgent, SendAgent, AgentSelected, StateRound, Get, Store, CopyView,
       StoreView, CopyApp, UpdateUi, TakeState, HoldPasses

LEMMA TakenDownStep ==
    TakenDown /\ [AppNext]_appVars => TakenDown' /\ [ShownOnce]_appVars
<1> SUFFICES ASSUME TakenDown, [AppNext]_appVars
             PROVE  TakenDown' /\ ShownOnce
    OBVIOUS
<1>1. CASE Draw
    BY <1>1, DrawShows
<1>2. CASE UNCHANGED <<hold, last>>
    BY <1>2 DEF TakenDown, ShownOnce
<1>3. CASE UNCHANGED appVars
    BY <1>2, <1>3 DEF appVars, screenVars, drawVars
<1> QED BY <1>1, <1>2, <1>3, OthersLeaveHold

(* A new completion is shown, and one that was taken down is not shown      *)
(* again while the table goes on saying complete, for any number of Agents, *)
(* any frames of the host and any order of the three publishing tasks       *)
(* (microstick_completion_hold_update, desired_roxy_state).                 *)
THEOREM CompletionStaysDown == AppSpec => CompleteShownOnce
<1>1. AppInit => TakenDown
    BY DEF AppInit, TakenDown, Released
<1> QED
    BY <1>1, TakenDownStep, PTL DEF AppSpec, CompleteShownOnce, ShownOnce
=============================================================================
