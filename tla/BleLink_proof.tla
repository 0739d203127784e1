---------------------------- MODULE BleLink_proof ----------------------------
(***************************************************************************)
(* Proofs about BleLink, for every set of connection ids and every queue   *)
(* size: type correctness, that the slots are the links, that a free slot  *)
(* is advertised, and that no link loses its place to another.             *)
(***************************************************************************)
EXTENDS BleLink, TLAPS

Distinct(s) == \A i, j \in DOMAIN s : s[i] = s[j] => i = j

LinkEvent == {"CONNECT", "DISCONNECT"}

(* The loss of c is behind place i of the inbox.                           *)
LostAfter(i, c) ==
    \E k \in DOMAIN inbox :
        k > i /\ inbox[k].type = "DISCONNECT" /\ inbox[k].conn = c

(* Nobody is told of the loss of a link that is up, and who is told of a   *)
(* link, or remembers one, that is gone will be told of its loss.          *)
InboxInv ==
    /\ \A i \in DOMAIN inbox :
           /\ inbox[i].type = "DISCONNECT" => inbox[i].conn \notin links
           /\ inbox[i].type = "CONNECT" =>
                  inbox[i].conn \in links \/ LostAfter(i, inbox[i].conn)
    /\ \A i \in DOMAIN ids : ids[i] \in links \/ LostAfter(0, ids[i])

(* What the Bluetooth task has done with the event it is about to leave.   *)
EventInv ==
    btPc # "idle" =>
        /\ inbox # <<>>
        /\ First.type # "WRITE"
        /\ First.type \in Configured => First.type \in ready
        /\ First.type = "DISCONNECT" => ~ Remembers(First.conn)

(* What is not ready yet has still to announce itself.                     *)
ReadyInv ==
    /\ \A type \in Configured :
           type \in ready \/ \E i \in DOMAIN inbox : inbox[i].type = type
    /\ "hid" \in ready \/ \E i \in DOMAIN hidEvents : hidEvents[i] = "START"

(* A start that is due is one that somebody will still see to.             *)
StartIsDue ==
    MayStart /\ ~ advertising /\ ~ startRefused =>
        \/ btPc # "idle"
        \/ loopPc # "idle"
        \/ \E i \in DOMAIN inbox : inbox[i].type \in LinkEvent

LinkInv ==
    TypeOK /\ Distinct(ids) /\ InboxInv /\ EventInv /\ ReadyInv /\ StartIsDue

-----------------------------------------------------------------------------
(* remember_physical_connection adds c, if it adds anything, and keeps     *)
(* every id in its place.                                                  *)
LEMMA Remembering ==
    ASSUME NEW c \in Conn, ids \in Seq(Conn), Len(ids) <= Slots, Distinct(ids)
    PROVE  /\ WithConn(c) \in Seq(Conn)
           /\ Len(WithConn(c)) <= Slots
           /\ Distinct(WithConn(c))
           /\ \A i \in DOMAIN WithConn(c) :
                  WithConn(c)[i] = c \/ Remembers(WithConn(c)[i])
           /\ \A i \in DOMAIN ids :
                  i \in DOMAIN WithConn(c) /\ WithConn(c)[i] = ids[i]
BY DEF WithConn, Remembers, Distinct, Slots

(* forget_physical_connection removes c and nothing else.                  *)
LEMMA Forgetting ==
    ASSUME NEW c \in Conn, ids \in Seq(Conn), Len(ids) <= Slots, Distinct(ids)
    PROVE  /\ WithoutConn(c) \in Seq(Conn)
           /\ Len(WithoutConn(c)) <= Slots
           /\ Distinct(WithoutConn(c))
           /\ \A i \in DOMAIN WithoutConn(c) :
                  /\ WithoutConn(c)[i] # c
                  /\ Remembers(WithoutConn(c)[i])
           /\ \A i \in DOMAIN ids :
                  \/ ids[i] = c
                  \/ \E j \in DOMAIN WithoutConn(c) : WithoutConn(c)[j] = ids[i]
<1>1. CASE ~ Remembers(c)
    BY <1>1 DEF WithoutConn, Remembers, Distinct
<1>2. CASE Remembers(c)
    <2> DEFINE last == Len(ids)
               rest == [i \in 1 .. last - 1 |->
                            IF ids[i] = c THEN ids[last] ELSE ids[i]]
    <2>1. PICK index \in 1 .. last : ids[index] = c
        BY <1>2 DEF Remembers
    <2>2. WithoutConn(c) = rest
        BY <1>2 DEF WithoutConn
    <2>3. rest \in Seq(Conn) /\ DOMAIN rest = 1 .. last - 1 /\ Len(rest) = last - 1
        BY <2>1
    <2>4. Distinct(rest)
        BY <2>1, <2>3 DEF Distinct
    <2>5. \A i \in DOMAIN rest : rest[i] # c /\ Remembers(rest[i])
        BY <2>1, <2>3 DEF Distinct, Remembers
    <2>6. ASSUME NEW i \in DOMAIN ids, ids[i] # c
          PROVE  \E j \in DOMAIN rest : rest[j] = ids[i]
        BY <2>1, <2>3, <2>6
    <2> HIDE DEF rest
    <2> QED BY <2>2, <2>3, <2>4, <2>5, <2>6 DEF Slots
<1> QED BY <1>1, <1>2

(* The head of the inbox is an event, with a connection when it is of one. *)
LEMMA HeadEvent ==
    ASSUME TypeOK, inbox # <<>>
    PROVE  /\ First \in Event
           /\ First.type \notin Configured => First.conn \in Conn
           /\ First = inbox[1]
           /\ 1 \in DOMAIN inbox
BY DEF TypeOK, First, Event, Configured

(* Behind the head the inbox is unchanged.                                 *)
LEMMA InboxTail ==
    ASSUME TypeOK, inbox # <<>>, inbox' = Tail(inbox)
    PROVE  /\ inbox' \in Seq(Event)
           /\ \A i \in DOMAIN inbox' : i + 1 \in DOMAIN inbox /\ inbox'[i] = inbox[i + 1]
           /\ \A i \in DOMAIN inbox :
                  i = 1 \/ (i - 1 \in DOMAIN inbox' /\ inbox'[i - 1] = inbox[i])
BY DEF TypeOK

(* In front of a new event the inbox is unchanged.                         *)
LEMMA InboxAppend ==
    ASSUME TypeOK, NEW event \in Event, inbox' = Append(inbox, event)
    PROVE  /\ inbox' \in Seq(Event)
           /\ \A i \in DOMAIN inbox : i \in DOMAIN inbox' /\ inbox'[i] = inbox[i]
           /\ Len(inbox) + 1 \in DOMAIN inbox'
           /\ inbox'[Len(inbox) + 1] = event
           /\ \A i \in DOMAIN inbox' :
                  (i \in DOMAIN inbox /\ i <= Len(inbox)) \/ i = Len(inbox) + 1
           /\ \A i \in DOMAIN inbox : i < Len(inbox) + 1
BY DEF TypeOK

-----------------------------------------------------------------------------
LEMMA TypeStep ==
    ASSUME LinkInv, [Next]_vars
    PROVE  TypeOK'
<1> USE DEF LinkInv
<1>1. ASSUME NEW c \in Conn, LinkUp(c) PROVE TypeOK'
    <2>1. [type |-> "CONNECT", conn |-> c] \in Event
        BY DEF Event
    <2> QED BY <1>1, <2>1, InboxAppend DEF LinkUp, TypeOK
<1>2. ASSUME NEW c \in Conn, LinkDown(c) PROVE TypeOK'
    <2>1. [type |-> "DISCONNECT", conn |-> c] \in Event
        BY DEF Event
    <2> QED BY <1>2, <2>1, InboxAppend DEF LinkDown, TypeOK
<1>3. ASSUME NEW c \in Conn, HidWrite(c) PROVE TypeOK'
    <2>1. [type |-> "WRITE", conn |-> c] \in Event
        BY DEF Event
    <2> QED BY <1>3, <2>1, InboxAppend DEF HidWrite, TypeOK, radioVars
<1>4. ASSUME inbox # <<>>, Advance PROVE inbox' \in Seq(Event) /\ app' \in App
    BY <1>4, InboxTail DEF Advance, App, TypeOK
<1>5. CASE DataSet
    <2>1. First.type \in Configured
        BY <1>5 DEF DataSet, Delivers
    <2> QED BY <1>5, <2>1 DEF DataSet, TypeOK, Ready, Pc, btVars, radioVars
<1>6. CASE Claim
    <2>1. First.conn \in Conn /\ inbox # <<>>
        BY <1>6, HeadEvent DEF Claim, Delivers, Configured
    <2>2. /\ hidHost' \in Conn \cup {None}
          /\ hidEvents' \in Seq(HidEvent)
          /\ Len(hidEvents') <= QueueSize
        BY <1>6, <2>1, LinkAssumption DEF Claim, Post, HidEvent, TypeOK
    <2> QED BY <1>4, <1>6, <2>1, <2>2 DEF Claim, TypeOK, radioVars
<1>7. CASE LinkAdded
    <2>1. First.conn \in Conn
        BY <1>7, HeadEvent DEF LinkAdded, Delivers, Configured
    <2> QED BY <1>7, <2>1, Remembering DEF LinkAdded, TypeOK, Pc, radioVars
<1>8. CASE LinkRemoved
    <2>1. First.conn \in Conn
        BY <1>8, HeadEvent DEF LinkRemoved, Delivers, Configured
    <2>2. /\ hidHost' \in Conn \cup {None}
          /\ hidEvents' \in Seq(HidEvent)
          /\ Len(hidEvents') <= QueueSize
        <3>1. CASE hidHost' = None /\ Post("DISCONNECT")
            BY <3>1, LinkAssumption DEF Post, HidEvent, TypeOK
        <3>2. CASE UNCHANGED <<hidHost, hidEvents>>
            BY <3>2 DEF TypeOK
        <3> QED BY <1>8, <3>1, <3>2 DEF LinkRemoved
    <2>3. ids' \in Seq(Conn) /\ Len(ids') <= Slots
        BY <1>8, <2>1, Forgetting DEF LinkRemoved, TypeOK
    <2> QED BY <1>8, <2>2, <2>3 DEF LinkRemoved, TypeOK, Pc, radioVars
<1>9. CASE BtCheck
    BY <1>4, <1>9 DEF BtCheck, EventInv, TypeOK, Pc, radioVars
<1>10. CASE BtStart
    BY <1>4, <1>10 DEF BtStart, StartAdvertising, EventInv, TypeOK, Pc
<1>11. ASSUME NEW event \in HidEvent, Takes(event)
       PROVE  hidEvents' \in Seq(HidEvent) /\ Len(hidEvents') <= QueueSize
              /\ loopPc' \in Pc
    BY <1>11, LinkAssumption DEF Takes, TypeOK, Pc
<1>12. CASE HidStart
    BY <1>11, <1>12 DEF HidStart, HidEvent, TypeOK, Ready, btVars, radioVars
<1>13. CASE HidConnect
    BY <1>11, <1>13 DEF HidConnect, HidEvent, TypeOK, btVars, radioVars
<1>14. CASE HidDisconnect
    BY <1>11, <1>14 DEF HidDisconnect, HidEvent, TypeOK, btVars, radioVars
<1>15. CASE LoopCheck
    BY <1>15 DEF LoopCheck, TypeOK, Pc, btVars, radioVars
<1>16. CASE LoopStart
    BY <1>16 DEF LoopStart, StartAdvertising, TypeOK, Pc, btVars
<1>17. CASE UNCHANGED vars
    BY <1>17 DEF vars, TypeOK, btVars, radioVars
<1> QED
    BY <1>1, <1>2, <1>3, <1>5, <1>6, <1>7, <1>8, <1>9, <1>10, <1>12, <1>13,
       <1>14, <1>15, <1>16, <1>17 DEF Next, Bluetooth, Loop

-----------------------------------------------------------------------------
(* What the inbox and the slots say of the links.                          *)

(* Leaving the head keeps InboxInv, provided that its loss is handled.     *)
LEMMA AdvanceStep ==
    ASSUME LinkInv, inbox # <<>>, Advance, UNCHANGED <<links, ids>>,
           First.type = "DISCONNECT" => ~ Remembers(First.conn)
    PROVE  InboxInv'
<1>1. CASE UNCHANGED inbox
    BY <1>1 DEF LinkInv, InboxInv, LostAfter
<1>2. CASE inbox' = Tail(inbox)
    <2>1. ASSUME NEW i \in Int, i >= 1, NEW c, LostAfter(i, c)
          PROVE  \E k \in DOMAIN inbox' : /\ k > i - 1
                                          /\ inbox'[k].type = "DISCONNECT"
                                          /\ inbox'[k].conn = c
        <3>1. PICK k \in DOMAIN inbox :
                  k > i /\ inbox[k].type = "DISCONNECT" /\ inbox[k].conn = c
            BY <2>1 DEF LostAfter
        <3>2. k \in Int /\ k # 1 /\ k - 1 > i - 1
            BY <2>1, <3>1 DEF LinkInv, TypeOK
        <3>3. k - 1 \in DOMAIN inbox' /\ inbox'[k - 1] = inbox[k]
            BY <1>2, <3>2, InboxTail DEF LinkInv
        <3> QED BY <3>1, <3>2, <3>3
    <2>2. ASSUME NEW i \in DOMAIN inbox'
          PROVE  (/\ inbox[i].type = "DISCONNECT" => inbox[i].conn \notin links
                  /\ inbox[i].type = "CONNECT" =>
                         inbox[i].conn \in links \/ LostAfter(i, inbox[i].conn))'
        <3>1. i + 1 \in DOMAIN inbox /\ inbox'[i] = inbox[i + 1]
            BY <1>2, InboxTail DEF LinkInv
        <3>2. i \in Int /\ i + 1 >= 1 /\ (i + 1) - 1 = i
            BY <1>2, <3>1, InboxTail DEF LinkInv, TypeOK
        <3>3. LostAfter(i + 1, inbox[i + 1].conn) => LostAfter(i, inbox[i].conn)'
            BY <2>1, <3>1, <3>2 DEF LostAfter
        <3> QED BY <3>1, <3>3 DEF LinkInv, InboxInv
    <2>3. ASSUME NEW i \in DOMAIN ids, ids[i] \notin links
          PROVE  LostAfter(0, ids[i])'
        <3>1. LostAfter(1, ids[i])
            <4>1. PICK k \in DOMAIN inbox :
                      /\ k > 0
                      /\ inbox[k].type = "DISCONNECT"
                      /\ inbox[k].conn = ids[i]
                BY <2>3 DEF LinkInv, InboxInv, LostAfter
            <4>2. k # 1
                BY <2>3, <4>1, HeadEvent DEF LinkInv, Remembers
            <4>3. k \in Int /\ k > 1
                BY <4>1, <4>2 DEF LinkInv, TypeOK
            <4> QED BY <4>1, <4>3 DEF LostAfter
        <3> QED BY <2>1, <3>1 DEF LostAfter
    <2> QED BY <2>2, <2>3 DEF InboxInv
<1> QED BY <1>1, <1>2 DEF Advance

(* A new event hides no news of a loss.                                    *)
LEMMA AppendKeepsLosses ==
    ASSUME TypeOK, NEW event \in Event, inbox' = Append(inbox, event),
           NEW i, NEW c, LostAfter(i, c)
    PROVE  \E k \in DOMAIN inbox' :
               k > i /\ inbox'[k].type = "DISCONNECT" /\ inbox'[k].conn = c
BY InboxAppend DEF LostAfter

LEMMA InboxStep ==
    ASSUME LinkInv, [Next]_vars
    PROVE  Distinct(ids)' /\ InboxInv'
<1> USE DEF LinkInv
<1>1. ASSUME NEW c \in Conn, LinkUp(c) PROVE Distinct(ids)' /\ InboxInv'
    <2> DEFINE event == [type |-> "CONNECT", conn |-> c]
    <2>1. event \in Event
        BY DEF Event
    <2>2. inbox' = Append(inbox, event) /\ links' = links \cup {c} /\ ids' = ids
        BY <1>1 DEF LinkUp
    <2>3. \A i \in DOMAIN inbox : inbox[i].type = "DISCONNECT" => inbox[i].conn # c
        BY <1>1 DEF LinkUp, Mentions, Configured
    <2>4. ASSUME NEW i \in DOMAIN inbox'
          PROVE  (/\ inbox[i].type = "DISCONNECT" => inbox[i].conn \notin links
                  /\ inbox[i].type = "CONNECT" =>
                         inbox[i].conn \in links \/ LostAfter(i, inbox[i].conn))'
        <3>1. CASE i \in DOMAIN inbox
            <4>1. inbox'[i] = inbox[i]
                BY <2>1, <2>2, <3>1, InboxAppend
            <4>2. LostAfter(i, inbox[i].conn) => LostAfter(i, inbox[i].conn)'
                BY <2>1, <2>2, <4>1, AppendKeepsLosses DEF LostAfter
            <4> QED BY <2>2, <2>3, <3>1, <4>1, <4>2 DEF InboxInv
        <3>2. CASE i = Len(inbox) + 1
            BY <2>1, <2>2, <3>2, InboxAppend
        <3> QED BY <2>1, <2>2, <3>1, <3>2, InboxAppend
    <2>5. ASSUME NEW i \in DOMAIN ids
          PROVE  ids[i] \in links' \/ LostAfter(0, ids[i])'
        BY <2>1, <2>2, AppendKeepsLosses DEF InboxInv, LostAfter
    <2> QED BY <2>2, <2>4, <2>5 DEF InboxInv
<1>2. ASSUME NEW c \in Conn, LinkDown(c) PROVE Distinct(ids)' /\ InboxInv'
    <2> DEFINE event == [type |-> "DISCONNECT", conn |-> c]
    <2>1. event \in Event
        BY DEF Event
    <2>2. inbox' = Append(inbox, event) /\ links' = links \ {c} /\ ids' = ids
        BY <1>2 DEF LinkDown
    <2>3. \A i \in Int : i < Len(inbox) + 1 =>
              \E k \in DOMAIN inbox' :
                  k > i /\ inbox'[k].type = "DISCONNECT" /\ inbox'[k].conn = c
        BY <2>1, <2>2, InboxAppend
    <2>4. ASSUME NEW i \in DOMAIN inbox'
          PROVE  (/\ inbox[i].type = "DISCONNECT" => inbox[i].conn \notin links
                  /\ inbox[i].type = "CONNECT" =>
                         inbox[i].conn \in links \/ LostAfter(i, inbox[i].conn))'
        <3>1. CASE i \in DOMAIN inbox
            <4>1. inbox'[i] = inbox[i] /\ i \in Int /\ i < Len(inbox) + 1
                BY <2>1, <2>2, <3>1, InboxAppend DEF TypeOK
            <4>2. LostAfter(i, inbox[i].conn) => LostAfter(i, inbox[i].conn)'
                BY <2>1, <2>2, <4>1, AppendKeepsLosses DEF LostAfter
            <4>3. inbox[i].conn = c => LostAfter(i, inbox[i].conn)'
                BY <2>3, <4>1 DEF LostAfter
            <4> QED BY <2>2, <3>1, <4>1, <4>2, <4>3 DEF InboxInv
        <3>2. CASE i = Len(inbox) + 1
            BY <2>1, <2>2, <3>2, InboxAppend
        <3> QED BY <2>1, <2>2, <3>1, <3>2, InboxAppend
    <2>5. ASSUME NEW i \in DOMAIN ids
          PROVE  ids[i] \in links' \/ LostAfter(0, ids[i])'
        <3>1. CASE ids[i] = c
            <4>1. 0 < Len(inbox) + 1
                BY DEF TypeOK
            <4> QED BY <2>2, <2>3, <3>1, <4>1 DEF LostAfter
        <3>2. CASE ids[i] # c
            BY <2>1, <2>2, <3>2, AppendKeepsLosses DEF InboxInv, LostAfter
        <3> QED BY <3>1, <3>2
    <2> QED BY <2>2, <2>4, <2>5 DEF InboxInv
<1>3. ASSUME NEW c \in Conn, HidWrite(c) PROVE Distinct(ids)' /\ InboxInv'
    <2> DEFINE event == [type |-> "WRITE", conn |-> c]
    <2>1. event \in Event
        BY DEF Event
    <2>2. inbox' = Append(inbox, event) /\ links' = links /\ ids' = ids
        BY <1>3 DEF HidWrite, radioVars
    <2>3. ASSUME NEW i \in DOMAIN inbox'
          PROVE  (/\ inbox[i].type = "DISCONNECT" => inbox[i].conn \notin links
                  /\ inbox[i].type = "CONNECT" =>
                         inbox[i].conn \in links \/ LostAfter(i, inbox[i].conn))'
        <3>1. CASE i \in DOMAIN inbox
            <4>1. inbox'[i] = inbox[i]
                BY <2>1, <2>2, <3>1, InboxAppend
            <4>2. LostAfter(i, inbox[i].conn) => LostAfter(i, inbox[i].conn)'
                BY <2>1, <2>2, <4>1, AppendKeepsLosses DEF LostAfter
            <4> QED BY <2>2, <3>1, <4>1, <4>2 DEF InboxInv
        <3>2. CASE i = Len(inbox) + 1
            BY <2>1, <2>2, <3>2, InboxAppend
        <3> QED BY <2>1, <2>2, <3>1, <3>2, InboxAppend
    <2>4. ASSUME NEW i \in DOMAIN ids
          PROVE  ids[i] \in links' \/ LostAfter(0, ids[i])'
        BY <2>1, <2>2, AppendKeepsLosses DEF InboxInv, LostAfter
    <2> QED BY <2>2, <2>3, <2>4 DEF InboxInv
<1>4. CASE Claim
    BY <1>4, AdvanceStep DEF Claim, Delivers, radioVars, Distinct
<1>5. CASE LinkAdded
    <2>1. /\ First.conn \in Conn
          /\ First = inbox[1] /\ 1 \in DOMAIN inbox /\ First.type = "CONNECT"
        BY <1>5, HeadEvent DEF LinkAdded, Delivers, Configured
    <2>2. ids' = WithConn(First.conn) /\ UNCHANGED <<inbox, links>>
        BY <1>5 DEF LinkAdded, radioVars
    <2>3. First.conn \in links \/ LostAfter(0, First.conn)
        BY <2>1 DEF InboxInv, LostAfter, TypeOK
    <2>4. ASSUME NEW i \in DOMAIN ids'
          PROVE  ids'[i] \in links \/ LostAfter(0, ids'[i])
        BY <2>1, <2>2, <2>3, Remembering DEF InboxInv, Remembers, TypeOK
    <2>5. Distinct(ids)'
        BY <2>1, <2>2, Remembering DEF TypeOK, Distinct
    <2> QED BY <2>2, <2>4, <2>5 DEF InboxInv, LostAfter
<1>6. CASE LinkRemoved
    <2>1. First.conn \in Conn
        BY <1>6, HeadEvent DEF LinkRemoved, Delivers, Configured
    <2>2. ids' = WithoutConn(First.conn) /\ UNCHANGED <<inbox, links>>
        BY <1>6 DEF LinkRemoved, radioVars
    <2>3. ASSUME NEW i \in DOMAIN ids'
          PROVE  ids'[i] \in links \/ LostAfter(0, ids'[i])
        BY <2>1, <2>2, Forgetting DEF InboxInv, Remembers, TypeOK
    <2>4. Distinct(ids)'
        BY <2>1, <2>2, Forgetting DEF TypeOK, Distinct
    <2> QED BY <2>2, <2>3, <2>4 DEF InboxInv, LostAfter
<1>7. CASE BtCheck
    <2>1. CASE UNCHANGED inbox
        BY <1>7, <2>1 DEF BtCheck, radioVars, InboxInv, LostAfter, Distinct
    <2>2. CASE Advance
        BY <1>7, <2>2, AdvanceStep DEF BtCheck, EventInv, radioVars, Distinct
    <2> QED BY <1>7, <2>1, <2>2 DEF BtCheck
<1>8. CASE BtStart
    BY <1>8, AdvanceStep DEF BtStart, StartAdvertising, EventInv, Distinct
<1>9. CASE UNCHANGED <<inbox, ids, links>>
    BY <1>9 DEF InboxInv, LostAfter, Distinct
<1>10. CASE DataSet \/ HidStart \/ HidConnect \/ HidDisconnect \/ LoopCheck
            \/ LoopStart \/ UNCHANGED vars
    BY <1>9, <1>10 DEF DataSet, HidStart, HidConnect, HidDisconnect, LoopCheck,
       LoopStart, StartAdvertising, vars, btVars, radioVars
<1> QED
    BY <1>1, <1>2, <1>3, <1>4, <1>5, <1>6, <1>7, <1>8, <1>10
       DEF Next, Bluetooth, Loop

-----------------------------------------------------------------------------
(* The event the Bluetooth task is at.                                     *)

LEMMA AppendKeepsFirst ==
    ASSUME TypeOK, inbox # <<>>, NEW event \in Event, inbox' = Append(inbox, event)
    PROVE  inbox' # <<>> /\ First' = First
BY DEF TypeOK, First

LEMMA EventStep ==
    ASSUME LinkInv, [Next]_vars
    PROVE  EventInv'
<1> USE DEF LinkInv
<1>1. ASSUME NEW event \in Event, inbox' = Append(inbox, event),
             UNCHANGED <<btPc, ready, ids>>
      PROVE  EventInv'
    BY <1>1, AppendKeepsFirst DEF EventInv, Remembers
<1>2. ASSUME NEW c \in Conn, LinkUp(c) \/ LinkDown(c) \/ HidWrite(c)
      PROVE  EventInv'
    <2>1. \A type \in {"CONNECT", "DISCONNECT", "WRITE"} :
              [type |-> type, conn |-> c] \in Event
        BY DEF Event
    <2> QED BY <1>1, <1>2, <2>1 DEF LinkUp, LinkDown, HidWrite
<1>3. CASE DataSet
    BY <1>3 DEF DataSet, Delivers, EventInv, Configured, First, btVars
<1>4. CASE Claim \/ BtStart
    BY <1>4 DEF Claim, BtStart, Delivers, EventInv
<1>5. CASE LinkAdded
    BY <1>5 DEF LinkAdded, Delivers, EventInv, Configured, First
<1>6. CASE LinkRemoved
    <2>1. First.conn \in Conn
        BY <1>6, HeadEvent DEF LinkRemoved, Delivers, Configured
    <2>2. ids' = WithoutConn(First.conn) /\ First' = First /\ inbox' = inbox
          /\ First.type = "DISCONNECT" /\ inbox # <<>>
        BY <1>6 DEF LinkRemoved, Delivers, First
    <2>3. \A i \in DOMAIN ids' : ids'[i] # First.conn
        BY <2>1, <2>2, Forgetting DEF TypeOK
    <2> QED BY <2>2, <2>3 DEF EventInv, Remembers, Configured
<1>7. CASE BtCheck
    BY <1>7 DEF BtCheck, EventInv, First, Remembers
<1>8. CASE UNCHANGED <<btPc, inbox, ids>> /\ ready \subseteq ready'
    BY <1>8 DEF EventInv, First, Remembers
<1>9. CASE HidStart \/ HidConnect \/ HidDisconnect \/ LoopCheck \/ LoopStart
           \/ UNCHANGED vars
    BY <1>8, <1>9 DEF HidStart, HidConnect, HidDisconnect, LoopCheck, LoopStart,
       vars, btVars
<1> QED
    BY <1>2, <1>3, <1>4, <1>5, <1>6, <1>7, <1>9 DEF Next, Bluetooth, Loop

-----------------------------------------------------------------------------
(* Who has not announced itself yet still will.                            *)

(* Only an event whose type is noted, or of a link, leaves the inbox.      *)
LEMMA AdvanceKeepsData ==
    ASSUME TypeOK, inbox # <<>>, Advance,
           First.type \in Configured => First.type \in ready,
           NEW type \in Configured,
           type \in ready \/ \E i \in DOMAIN inbox : inbox[i].type = type
    PROVE  type \in ready \/ \E i \in DOMAIN inbox' : inbox'[i].type = type
<1>1. CASE inbox' = Tail(inbox) /\ type \notin ready
    <2>1. PICK i \in DOMAIN inbox : inbox[i].type = type
        BY <1>1
    <2>2. i # 1
        BY <1>1, <2>1, HeadEvent
    <2> QED BY <1>1, <2>1, <2>2, InboxTail
<1> QED BY <1>1 DEF Advance

LEMMA ReadyStep ==
    ASSUME LinkInv, [Next]_vars
    PROVE  ReadyInv'
<1> USE DEF LinkInv
<1> DEFINE Data == \A type \in Configured :
               type \in ready \/ \E i \in DOMAIN inbox : inbox[i].type = type
           Hid == "hid" \in ready
                      \/ \E i \in DOMAIN hidEvents : hidEvents[i] = "START"
<1>1. ASSUME NEW event \in HidEvent, Post(event), ready' = ready
      PROVE  Hid'
    BY <1>1 DEF ReadyInv, Post, TypeOK
<1>2. ASSUME UNCHANGED hidEvents, ready \subseteq ready' PROVE Hid'
    BY <1>2 DEF ReadyInv
<1>3. ASSUME UNCHANGED inbox, ready \subseteq ready' PROVE Data'
    BY <1>3 DEF ReadyInv
<1>4. ASSUME inbox # <<>>, Advance, ready' = ready,
             First.type \in Configured => First.type \in ready
      PROVE  Data'
    BY <1>4, AdvanceKeepsData DEF ReadyInv
<1>5. ASSUME NEW c \in Conn, LinkUp(c) \/ LinkDown(c) \/ HidWrite(c)
      PROVE  ReadyInv'
    <2>1. \A type \in {"CONNECT", "DISCONNECT", "WRITE"} :
              [type |-> type, conn |-> c] \in Event
        BY DEF Event
    <2>2. PICK event \in Event : inbox' = Append(inbox, event)
        BY <1>5, <2>1 DEF LinkUp, LinkDown, HidWrite
    <2>3. Data'
        BY <1>5, <2>2, InboxAppend DEF ReadyInv, LinkUp, LinkDown, HidWrite
    <2>4. Hid'
        BY <1>2, <1>5 DEF LinkUp, LinkDown, HidWrite
    <2> QED BY <2>3, <2>4 DEF ReadyInv
<1>6. CASE DataSet
    <2>1. Data'
        BY <1>3, <1>6 DEF DataSet, btVars
    <2>2. Hid'
        BY <1>2, <1>6 DEF DataSet
    <2> QED BY <2>1, <2>2 DEF ReadyInv
<1>7. CASE Claim
    <2>1. Data'
        BY <1>4, <1>7 DEF Claim, Delivers, Configured
    <2>2. Hid'
        BY <1>1, <1>2, <1>7 DEF Claim, HidEvent
    <2> QED BY <2>1, <2>2 DEF ReadyInv
<1>8. CASE LinkAdded \/ LinkRemoved
    <2>1. Data'
        BY <1>3, <1>8 DEF LinkAdded, LinkRemoved
    <2>2. Hid'
        BY <1>1, <1>2, <1>8 DEF LinkAdded, LinkRemoved, HidEvent
    <2> QED BY <2>1, <2>2 DEF ReadyInv
<1>9. CASE BtCheck \/ BtStart
    <2>1. Data'
        BY <1>3, <1>4, <1>9 DEF BtCheck, BtStart, EventInv
    <2>2. Hid'
        BY <1>2, <1>9 DEF BtCheck, BtStart
    <2> QED BY <2>1, <2>2 DEF ReadyInv
<1>10. CASE HidStart
    BY <1>10 DEF HidStart, ReadyInv, Takes, btVars
<1>11. ASSUME NEW event \in {"CONNECT", "DISCONNECT"}, Takes(event), ready' = ready
       PROVE  Hid'
    <2>1. CASE "hid" \in ready
        BY <1>11, <2>1
    <2>2. CASE "hid" \notin ready
        <3>1. PICK i \in DOMAIN hidEvents : hidEvents[i] = "START"
            BY <2>2 DEF ReadyInv
        <3>2. i # 1
            BY <1>11, <3>1 DEF Takes, TypeOK
        <3>3. i - 1 \in DOMAIN hidEvents' /\ hidEvents'[i - 1] = "START"
            BY <1>11, <3>1, <3>2 DEF Takes, TypeOK
        <3> QED BY <3>3
    <2> QED BY <2>1, <2>2
<1>12. CASE HidConnect \/ HidDisconnect
    <2>1. Data'
        BY <1>3, <1>12 DEF HidConnect, HidDisconnect, btVars
    <2>2. Hid'
        BY <1>11, <1>12 DEF HidConnect, HidDisconnect
    <2> QED BY <2>1, <2>2 DEF ReadyInv
<1>13. CASE LoopCheck \/ LoopStart \/ UNCHANGED vars
    <2>1. UNCHANGED <<ready, inbox, hidEvents>>
        BY <1>13 DEF LoopCheck, LoopStart, vars, btVars
    <2> QED BY <1>2, <1>3, <2>1 DEF ReadyInv
<1> QED
    BY <1>5, <1>6, <1>7, <1>8, <1>9, <1>10, <1>12, <1>13
       DEF Next, Bluetooth, Loop

-----------------------------------------------------------------------------
(* Somebody will see to a start that is due.                               *)

LEMMA DueStep ==
    ASSUME LinkInv, [Next]_vars
    PROVE  StartIsDue'
<1> USE DEF LinkInv
<1> DEFINE LinkNews == \E i \in DOMAIN inbox : inbox[i].type \in LinkEvent
<1>1. ASSUME NEW c \in Conn, LinkUp(c) \/ LinkDown(c) PROVE StartIsDue'
    <2>1. \A type \in LinkEvent : [type |-> type, conn |-> c] \in Event
        BY DEF Event, LinkEvent
    <2>2. PICK type \in LinkEvent :
              inbox' = Append(inbox, [type |-> type, conn |-> c])
        BY <1>1 DEF LinkUp, LinkDown, LinkEvent
    <2>3. LinkNews'
        BY <2>1, <2>2, InboxAppend
    <2> QED BY <2>3 DEF StartIsDue
<1>2. ASSUME NEW c \in Conn, HidWrite(c) PROVE StartIsDue'
    <2>1. [type |-> "WRITE", conn |-> c] \in Event
        BY DEF Event
    <2>2. LinkNews => LinkNews'
        BY <1>2, <2>1, InboxAppend DEF HidWrite
    <2> QED BY <1>2, <2>2 DEF HidWrite, StartIsDue, MayStart, radioVars
<1>3. CASE DataSet \/ LinkAdded \/ LinkRemoved
    BY <1>3 DEF DataSet, LinkAdded, LinkRemoved, StartIsDue
<1>4. CASE Claim
    <2>1. inbox # <<>> /\ First.type = "WRITE" /\ inbox' = Tail(inbox)
        BY <1>4 DEF Claim, Delivers, Advance
    <2>2. LinkNews => LinkNews'
        BY <2>1, HeadEvent, InboxTail DEF LinkEvent
    <2> QED BY <1>4, <2>2 DEF Claim, StartIsDue, MayStart, radioVars, Delivers
<1>5. CASE BtCheck
    BY <1>5 DEF BtCheck, StartIsDue, MayStart, radioVars
<1>6. CASE LoopCheck
    BY <1>6 DEF LoopCheck, StartIsDue, MayStart, btVars, radioVars
<1>7. CASE BtStart \/ LoopStart
    <2>1. startRefused' \/ advertising'
        <3>1. PICK refused \in BOOLEAN :
                  /\ startRefused' = refused
                  /\ advertising' = (advertising \/ ~ refused)
            BY <1>7 DEF BtStart, LoopStart, StartAdvertising
        <3> QED BY <3>1
    <2> QED BY <2>1 DEF StartIsDue
<1>8. CASE HidStart \/ HidConnect \/ HidDisconnect
    BY <1>8 DEF HidStart, HidConnect, HidDisconnect, Takes, StartIsDue
<1>9. CASE UNCHANGED vars
    BY <1>9 DEF vars, btVars, radioVars, StartIsDue, MayStart
<1> QED
    BY <1>1, <1>2, <1>3, <1>4, <1>5, <1>6, <1>7, <1>8, <1>9
       DEF Next, Bluetooth, Loop

-----------------------------------------------------------------------------
LEMMA LinkInvInit == ASSUME Init PROVE LinkInv
<1> USE DEF Init
<1>1. /\ inbox \in Seq(Event)
      /\ \A i \in DOMAIN inbox : inbox[i].type \in Configured
      /\ \A type \in Configured : \E i \in DOMAIN inbox : inbox[i].type = type
    <2>1. [type |-> "advData"] \in Event /\ [type |-> "scanResponse"] \in Event
        BY DEF Event, Configured
    <2>2. inbox = <<[type |-> "advData"], [type |-> "scanResponse"]>>
        OBVIOUS
    <2>3. inbox \in Seq(Event)
        BY <2>1, <2>2
    <2>4. /\ DOMAIN inbox = {1, 2}
          /\ inbox[1].type = "advData"
          /\ inbox[2].type = "scanResponse"
        BY <2>2
    <2> QED BY <2>3, <2>4 DEF Configured
<1>2. TypeOK
    <2>1. hidEvents \in Seq(HidEvent) /\ Len(hidEvents) <= QueueSize
        BY LinkAssumption DEF HidEvent
    <2>2. ids \in Seq(Conn) /\ Len(ids) <= Slots
        BY DEF Slots
    <2> QED BY <1>1, <2>1, <2>2 DEF TypeOK, Pc, App
<1>3. Distinct(ids) /\ InboxInv
    BY <1>1 DEF Distinct, InboxInv, Configured
<1>4. EventInv /\ ReadyInv /\ StartIsDue
    BY <1>1 DEF EventInv, ReadyInv, StartIsDue, MayStart, Ready
<1> QED BY <1>2, <1>3, <1>4 DEF LinkInv

LEMMA LinkInvStep ==
    ASSUME LinkInv, [Next]_vars
    PROVE  LinkInv'
BY TypeStep, InboxStep, EventStep, ReadyStep, DueStep DEF LinkInv

LEMMA LinkInvAlways == Spec => []LinkInv
BY LinkInvInit, LinkInvStep, PTL DEF Spec

-----------------------------------------------------------------------------
(* The transport keeps its types: at most two slots are used and the event *)
(* queue never exceeds its size (codex_ble_espidf.c).                      *)
THEOREM TypeCorrect == Spec => []TypeOK
<1>1. LinkInv => TypeOK
    BY DEF LinkInv
<1> QED BY <1>1, LinkInvAlways, PTL

(* A connection takes one slot, and at rest every slot is a link that is   *)
(* up (remember_physical_connection, forget_physical_connection).          *)
THEOREM SlotsCorrect == Spec => []SlotsAreLinks
<1>1. ASSUME LinkInv PROVE SlotsAreLinks
    <2>1. ASSUME BtAtRest, NEW i \in DOMAIN ids PROVE ids[i] \in links
        <3>1. ~ LostAfter(0, ids[i])
            BY <2>1 DEF BtAtRest, LostAfter
        <3> QED BY <1>1, <3>1 DEF LinkInv, InboxInv
    <2> QED BY <1>1, <2>1 DEF SlotsAreLinks, LinkInv, Distinct
<1> QED BY <1>1, LinkInvAlways, PTL

(* Once both tasks are at rest a device with a free slot advertises,       *)
(* unless the controller refused (start_advertising_if_ready).             *)
THEOREM FreeSlotCorrect == Spec => []FreeSlotIsAdvertised
<1>1. ASSUME LinkInv PROVE FreeSlotIsAdvertised
    <2>1. ASSUME AtRest, Len(ids) < Slots, ~ startRefused PROVE advertising
        <3>1. inbox = <<>> /\ hidEvents = <<>> /\ btPc = "idle" /\ loopPc = "idle"
            BY <2>1 DEF AtRest, BtAtRest
        <3>2. Configured \subseteq ready /\ "hid" \in ready
            BY <1>1, <3>1 DEF LinkInv, ReadyInv
        <3>3. MayStart
            BY <1>1, <2>1, <3>2 DEF MayStart, Ready, LinkInv, TypeOK
        <3> QED BY <1>1, <2>1, <3>1, <3>3 DEF LinkInv, StartIsDue
    <2> QED BY <2>1 DEF FreeSlotIsAdvertised
<1> QED BY <1>1, LinkInvAlways, PTL

(* No link loses its slot or its claim of the HID device before it is gone *)
(* (forget_physical_connection, the disconnect handler of ble_hidd.c).     *)
THEOREM PlaceKept == Spec => LinkKeepsPlace
<1> DEFINE Kept ==
        /\ hidHost # None /\ hidHost' # hidHost => hidHost \notin links
        /\ \A c \in links : Remembers(c) => Remembers(c)'
<1>1. ASSUME LinkInv, [Next]_vars PROVE Kept
    <2> USE <1>1 DEF LinkInv
    <2>1. CASE UNCHANGED <<hidHost, ids>>
        BY <2>1 DEF Remembers
    <2>2. CASE Claim
        BY <2>2 DEF Claim, Remembers
    <2>3. CASE LinkAdded
        <3>1. First.conn \in Conn
            BY <2>3, HeadEvent DEF LinkAdded, Delivers, Configured
        <3>2. ids' = WithConn(First.conn) /\ hidHost' = hidHost
            BY <2>3 DEF LinkAdded
        <3>3. \A i \in DOMAIN ids : i \in DOMAIN ids' /\ ids'[i] = ids[i]
            BY <3>1, <3>2, Remembering DEF TypeOK
        <3> QED BY <3>2, <3>3 DEF Remembers
    <2>4. CASE LinkRemoved
        <3>1. First.conn \in Conn /\ First.type = "DISCONNECT"
            BY <2>4, HeadEvent DEF LinkRemoved, Delivers, Configured
        <3>2. First.conn \notin links
            BY <2>4, <3>1, HeadEvent DEF LinkRemoved, Delivers, InboxInv
        <3>3. hidHost' # hidHost => hidHost = First.conn
            BY <2>4 DEF LinkRemoved, HostLost
        <3>4. ids' = WithoutConn(First.conn)
            BY <2>4 DEF LinkRemoved
        <3>5. \A i \in DOMAIN ids :
                  ids[i] = First.conn \/ \E j \in DOMAIN ids' : ids'[j] = ids[i]
            BY <3>1, <3>4, Forgetting DEF TypeOK
        <3> QED BY <3>2, <3>3, <3>5 DEF Remembers
    <2>5. CASE DataSet \/ BtCheck \/ BtStart \/ Loop \/ UNCHANGED vars
              \/ \E c \in Conn : LinkUp(c) \/ LinkDown(c) \/ HidWrite(c)
        BY <2>1, <2>5 DEF DataSet, BtCheck, BtStart, Loop, HidStart, HidConnect,
           HidDisconnect, LoopCheck, LoopStart, LinkUp, LinkDown, HidWrite,
           vars, btVars
    <2> QED BY <1>1, <2>2, <2>3, <2>4, <2>5 DEF Next, Bluetooth
<1> QED BY <1>1, LinkInvAlways, PTL DEF Spec, LinkKeepsPlace
=============================================================================
