------------------------ MODULE TwoButtonInput_proof ------------------------
(***************************************************************************)
(* Proofs about the gesture recogniser, for every choice of the timing     *)
(* thresholds, of the menu and of the number of Agents.                    *)
(***************************************************************************)
EXTENDS TwoButtonInput, TLAPS

(* Remainders stay in range; stated once so that the index proofs need no   *)
(* arithmetic of their own.                                                 *)
LEMMA ModRange ==
    ASSUME NEW x \in Int, NEW n \in Nat \ {0}
    PROVE  x % n \in 0 .. n - 1
  BY SMT

(* The view stays well typed under the helpers that change it. *)
ViewOK == /\ mode \in Mode
          /\ menuIndex \in 0 .. Len(Menu) - 1
          /\ submenuIndex \in Nat
          /\ modeLeft \in Int
          /\ modeLeft =< MenuTimeout

LEMMA ConstantTypes ==
    /\ Debounce \in Nat \ {0} /\ LongPress \in Nat \ {0}
    /\ DoubleClick \in Nat \ {0} /\ MenuTimeout \in Nat \ {0}
    /\ MaxPoll \in Nat \ {0}
    /\ Len(Menu) \in Nat \ {0}
    /\ AgentCount \in Nat \ {0} /\ NavigationCount \in Nat \ {0}
  BY TimingAssumption, MenuAssumption

LEMMA ChangeModeType ==
    ASSUME ViewOK, NEW m \in Mode, ChangeMode(m)
    PROVE  /\ mode' \in Mode
           /\ menuIndex' \in 0 .. Len(Menu) - 1
           /\ modeLeft' \in Int
           /\ modeLeft' =< MenuTimeout
  BY ConstantTypes DEF ViewOK, ChangeMode

LEMMA TouchType ==
    ASSUME ViewOK, Touch
    PROVE  ViewOK'
  BY ConstantTypes DEF ViewOK, Touch, TouchedLeft

LEMMA TurnType ==
    ASSUME ViewOK, NEW i \in Nat, NEW j \in Nat, NEW k \in Nat, Turn(i, j, k)
    PROVE  ViewOK'
<1>1. menuIndex' \in 0 .. Len(Menu) - 1
  BY ConstantTypes, ModRange DEF ViewOK, Turn
<1>2. submenuIndex' \in Nat
  <2>1. /\ (submenuIndex + j) % AgentCount \in Nat
        /\ (submenuIndex + k) % NavigationCount \in Nat
        /\ submenuIndex \in Nat
    BY ConstantTypes DEF ViewOK
  <2>2. CASE mode = "AGENT_MENU"
    BY <2>1, <2>2 DEF Turn
  <2>3. CASE mode = "NAVIGATION_MENU"
    BY <2>1, <2>3 DEF Turn
  <2>4. CASE mode \notin {"AGENT_MENU", "NAVIGATION_MENU"}
    BY <2>1, <2>4 DEF Turn
  <2> QED
    BY <2>2, <2>3, <2>4
<1>3. modeLeft' \in Int /\ modeLeft' =< MenuTimeout
  BY ConstantTypes DEF ViewOK, Turn, TouchedLeft
<1> QED
  BY <1>1, <1>2, <1>3 DEF ViewOK, Turn

(* The parts of TypeOK that the handlers disturb independently. *)
KeysOK == /\ raw \in [Key -> BOOLEAN]
          /\ stable \in [Key -> BOOLEAN]
          /\ edgeAge \in [Key -> 0 .. Debounce]
          /\ heldAge \in [Key -> 0 .. LongPress]
          /\ longFired \in [Key -> BOOLEAN]
          /\ consumed \in [Key -> BOOLEAN]
          /\ pressMode \in [Key -> Mode]

ClicksOK == /\ sendPending \in BOOLEAN
            /\ sendLeft \in Int
            /\ sendLeft =< DoubleClick
            /\ doubleCandidate \in BOOLEAN
            /\ micForwarded \in BOOLEAN

AgentsOK == assigned \in SUBSET Agent /\ selected \in Agent

StepOK == phase \in Phase /\ out \in Event \cup {Silent}

LEMMA TypeParts ==
    TypeOK <=> KeysOK /\ ClicksOK /\ ViewOK /\ AgentsOK /\ StepOK
  BY DEF TypeOK, KeysOK, ClicksOK, ViewOK, AgentsOK, StepOK

LEMMA TypePartsNext ==
    TypeOK' <=> KeysOK' /\ ClicksOK' /\ ViewOK' /\ AgentsOK' /\ StepOK'
  BY DEF TypeOK, KeysOK, ClicksOK, ViewOK, AgentsOK, StepOK

(* The deadline is arithmetic and the flags are Boolean: each part has its  *)
(* own prover, and this lemma joins them.                                   *)
FlagsOK == /\ sendPending \in BOOLEAN
           /\ doubleCandidate \in BOOLEAN
           /\ micForwarded \in BOOLEAN
LeftOK == sendLeft \in Int /\ sendLeft =< DoubleClick

LEMMA ClickParts == (ClicksOK <=> FlagsOK /\ LeftOK) /\ (ClicksOK' <=> FlagsOK' /\ LeftOK')
  BY DEF ClicksOK, FlagsOK, LeftOK

LEMMA KeepClicks == ClicksOK /\ UNCHANGED clickVars => ClicksOK'
  BY DEF ClicksOK, clickVars

LEMMA KeepView == ViewOK /\ UNCHANGED viewVars => ViewOK'
  BY DEF ViewOK, viewVars

LEMMA KeepAgents == AgentsOK /\ UNCHANGED agentVars => AgentsOK'
  BY DEF AgentsOK, agentVars, Agent

LEMMA QuietType == Quiet => out' \in Event \cup {Silent}
  BY DEF Quiet

LEMMA EmitType ==
    ASSUME NEW t \in EventType, NEW v \in Nat, Emit(t, v)
    PROVE  out' \in Event \cup {Silent}
  BY DEF Emit, Event

LEMMA ViewFromChange ==
    ASSUME ViewOK, NEW m \in Mode, ChangeMode(m), submenuIndex' \in Nat
    PROVE  ViewOK'
  BY ChangeModeType DEF ViewOK

(* A settled press, a settled release and a poll without an edge leave the  *)
(* key variables, the Agents and the phase well typed.                      *)
LEMMA PressType ==
    ASSUME KeysOK, ViewOK, AgentsOK, NEW k \in Key, NEW eaten \in BOOLEAN,
           Press(k, eaten)
    PROVE  KeysOK' /\ AgentsOK' /\ StepOK'
<1>1. KeysOK'
  BY ConstantTypes DEF KeysOK, ViewOK, Press
<1>2. AgentsOK'
  BY KeepAgents DEF Press
<1>3. StepOK'
  BY QuietType DEF Press, Turnstile, StepOK, Phase
<1> QED
  BY <1>1, <1>2, <1>3

LEMMA ReleaseType ==
    ASSUME KeysOK, AgentsOK, NEW k \in Key, Release(k)
    PROVE  KeysOK' /\ AgentsOK' /\ phase' \in Phase
<1>1. KeysOK'
  BY ConstantTypes DEF KeysOK, Release
<1>2. AgentsOK'
  BY KeepAgents DEF Release
<1>3. phase' \in Phase
  BY DEF Release, Turnstile, Phase
<1> QED
  BY <1>1, <1>2, <1>3

LEMMA NoEdgeType ==
    ASSUME TypeOK, NEW k \in Key, NEW level \in BOOLEAN, NoEdge(k, level)
    PROVE  TypeOK'
<1> USE TypeParts
<1>1. KeysOK'
  <2>1. SampledAge(k, level) \in 0 .. Debounce
    BY ConstantTypes DEF SampledAge, KeysOK
  <2> QED
    BY <2>1, ConstantTypes DEF KeysOK, NoEdge
<1>2. ClicksOK' /\ ViewOK' /\ AgentsOK'
  BY KeepClicks, KeepView, KeepAgents DEF NoEdge
<1>3. StepOK'
  BY QuietType DEF NoEdge, Turnstile, StepOK, Phase
<1> QED
  BY <1>1, <1>2, <1>3, TypePartsNext

LEMMA SideType ==
    ASSUME TypeOK, NEW level \in BOOLEAN, UpdateSide(level)
    PROVE  TypeOK'
<1>0. KeysOK /\ ClicksOK /\ ViewOK /\ AgentsOK /\ StepOK /\ "KEY2" \in Key
  BY TypeParts DEF Key
<1> USE <1>0
<1>1. CASE NoEdge("KEY2", level)
  BY <1>1, NoEdgeType
<1>2. CASE PressSide
  <2>1. KeysOK' /\ AgentsOK' /\ StepOK'
    BY <1>2, PressType DEF PressSide
  <2>2. ClicksOK' /\ ViewOK'
    BY <1>2, KeepClicks, TouchType DEF PressSide
  <2> QED
    BY <2>1, <2>2, TypePartsNext
<1>3. CASE ReleaseSideDecline
  <2>1. KeysOK' /\ AgentsOK' /\ phase' \in Phase
    BY <1>3, ReleaseType DEF ReleaseSideDecline
  <2>2. out' \in Event \cup {Silent}
    BY <1>3, EmitType DEF ReleaseSideDecline, EventType
  <2>3. ViewOK'
    BY <1>3, ViewFromChange DEF ReleaseSideDecline, Mode, ViewOK
  <2>4. ClicksOK'
    BY <1>3, KeepClicks DEF ReleaseSideDecline
  <2> QED
    BY <2>1, <2>2, <2>3, <2>4, TypePartsNext DEF StepOK
<1>4. CASE ReleaseSideIgnored
  <2>1. KeysOK' /\ AgentsOK' /\ phase' \in Phase
    BY <1>4, ReleaseType DEF ReleaseSideIgnored
  <2>2. ClicksOK' /\ ViewOK' /\ out' \in Event \cup {Silent}
    BY <1>4, KeepClicks, KeepView, QuietType DEF ReleaseSideIgnored
  <2> QED
    BY <2>1, <2>2, TypePartsNext DEF StepOK
<1>5. CASE ReleaseSideHome
  <2>1. KeysOK' /\ AgentsOK' /\ phase' \in Phase
    BY <1>5, ReleaseType DEF ReleaseSideHome, ShortSide
  <2>2. ClicksOK' /\ ViewOK'
    BY <1>5, KeepClicks, KeepView DEF ReleaseSideHome
  <2>3. out' \in Event \cup {Silent}
    <3>1. CASE \E a \in assigned : IsNextAssigned(a) /\ Emit("SELECT_AGENT", a)
      BY <3>1, EmitType, ConstantTypes DEF EventType, AgentsOK, Agent
    <3>2. CASE Emit("NO_AVAILABLE_AGENT", 0)
      BY <3>2, EmitType DEF EventType
    <3> QED
      BY <1>5, <3>1, <3>2 DEF ReleaseSideHome
  <2> QED
    BY <2>1, <2>2, <2>3, TypePartsNext DEF StepOK
<1>6. CASE ExecuteImmediate
  <2>1. KeysOK' /\ AgentsOK' /\ phase' \in Phase
    BY <1>6, ReleaseType DEF ExecuteImmediate, ShortSide
  <2>2. ClicksOK' /\ ViewOK'
    BY <1>6, KeepClicks, TouchType DEF ExecuteImmediate
  <2>3. out' \in Event \cup {Silent}
    BY <1>6, EmitType DEF ExecuteImmediate, EventType
  <2> QED
    BY <2>1, <2>2, <2>3, TypePartsNext DEF StepOK
<1>7. CASE ExecuteOpen
  <2>1. KeysOK' /\ AgentsOK' /\ phase' \in Phase
    BY <1>7, ReleaseType DEF ExecuteOpen, ShortSide
  <2>2. ClicksOK' /\ out' \in Event \cup {Silent}
    BY <1>7, KeepClicks, QuietType DEF ExecuteOpen
  <2>3. PICK m \in Mode : ChangeMode(m)
    BY <1>7 DEF ExecuteOpen, Mode
  <2>4. submenuIndex' \in Nat
    BY <1>7, ConstantTypes DEF ExecuteOpen, ViewOK, AgentsOK, Agent
  <2>5. ViewOK'
    BY <2>3, <2>4, ViewFromChange
  <2> QED
    BY <2>1, <2>2, <2>5, TypePartsNext DEF StepOK
<1>8. CASE ExecuteSubmenu
  <2>1. KeysOK' /\ AgentsOK' /\ phase' \in Phase
    BY <1>8, ReleaseType DEF ExecuteSubmenu, ShortSide
  <2>2. ClicksOK' /\ ViewOK'
    BY <1>8, KeepClicks, KeepView, TouchType DEF ExecuteSubmenu
  <2>3. out' \in Event \cup {Silent}
    BY <1>8, EmitType, QuietType DEF ExecuteSubmenu, EventType, ViewOK
  <2> QED
    BY <2>1, <2>2, <2>3, TypePartsNext DEF StepOK
<1> QED
  BY <1>1, <1>2, <1>3, <1>4, <1>5, <1>6, <1>7, <1>8 DEF UpdateSide

LEMMA FrontType ==
    ASSUME TypeOK, NEW level \in BOOLEAN, UpdateFront(level)
    PROVE  TypeOK'
<1>0. KeysOK /\ ClicksOK /\ ViewOK /\ AgentsOK /\ StepOK /\ "KEY1" \in Key
  BY TypeParts DEF Key
<1> USE <1>0, ConstantTypes
<1>1. CASE NoEdge("KEY1", level)
  BY <1>1, NoEdgeType
<1>2. CASE PressFrontHome
  <2>1. KeysOK' /\ AgentsOK' /\ StepOK'
    BY <1>2, PressType DEF PressFrontHome
  <2>2. ClicksOK' /\ ViewOK'
    <3>1. FlagsOK'
      BY <1>2, ClickParts, Zenon DEF PressFrontHome, FlagsOK
    <3>2. LeftOK'
      BY <1>2, ConstantTypes DEF PressFrontHome, LeftOK
    <3> QED
      BY <1>2, <3>1, <3>2, ClickParts, KeepView DEF PressFrontHome
  <2> QED
    BY <2>1, <2>2, TypePartsNext
<1>3. CASE PressFrontMenu
  <2>1. KeysOK' /\ AgentsOK' /\ StepOK'
    BY <1>3, PressType DEF PressFrontMenu
  <2>2. ClicksOK' /\ ViewOK'
    BY <1>3, KeepClicks, TouchType DEF PressFrontMenu
  <2> QED
    BY <2>1, <2>2, TypePartsNext
<1>4. CASE PressFrontDecline
  <2>1. KeysOK' /\ AgentsOK' /\ StepOK'
    BY <1>4, PressType DEF PressFrontDecline
  <2>2. ClicksOK'
    BY <1>4, KeepClicks DEF PressFrontDecline
  <2>3. ViewOK'
    BY <1>4, ViewFromChange DEF PressFrontDecline, Mode, ViewOK
  <2> QED
    BY <2>1, <2>2, <2>3, TypePartsNext
<1>5. CASE ReleaseFrontMic
  <2>1. KeysOK' /\ AgentsOK' /\ phase' \in Phase
    BY <1>5, ReleaseType DEF ReleaseFrontMic
  <2>2. ClicksOK' /\ ViewOK'
    BY <1>5, KeepView DEF ReleaseFrontMic, ClicksOK
  <2>3. out' \in Event \cup {Silent}
    BY <1>5, EmitType DEF ReleaseFrontMic, EventType
  <2> QED
    BY <2>1, <2>2, <2>3, TypePartsNext DEF StepOK
<1>6. CASE ReleaseFrontHome
  <2>1. KeysOK' /\ AgentsOK' /\ phase' \in Phase
    BY <1>6, ReleaseType DEF ReleaseFrontHome
  <2>2. ClicksOK'
    <3>1. FlagsOK'
      BY <1>6, ClickParts, Zenon DEF ReleaseFrontHome, FlagsOK
    <3>2. LeftOK'
      BY <1>6, ConstantTypes DEF ReleaseFrontHome, LeftOK
    <3> QED
      BY <3>1, <3>2, ClickParts
  <2>3. ViewOK'
    BY <1>6, KeepView DEF ReleaseFrontHome
  <2>4. out' \in Event \cup {Silent}
    BY <1>6, EmitType, QuietType DEF ReleaseFrontHome, EventType
  <2> QED
    BY <2>1, <2>2, <2>3, <2>4, TypePartsNext DEF StepOK
<1>7. CASE ReleaseFrontMenu
  <2>1. KeysOK' /\ AgentsOK' /\ phase' \in Phase
    BY <1>7, ReleaseType DEF ReleaseFrontMenu
  <2>2. ClicksOK' /\ out' \in Event \cup {Silent}
    BY <1>7, KeepClicks, QuietType DEF ReleaseFrontMenu
  <2>3. ViewOK'
    BY <1>7, KeepView, TurnType DEF ReleaseFrontMenu, NextItem
  <2> QED
    BY <2>1, <2>2, <2>3, TypePartsNext DEF StepOK
<1> QED
  BY <1>1, <1>2, <1>3, <1>4, <1>5, <1>6, <1>7 DEF UpdateFront

LEMMA CancelType == TypeOK /\ Cancel => TypeOK'
<1> SUFFICES ASSUME TypeOK, Cancel PROVE TypeOK'
  OBVIOUS
<1>0. KeysOK /\ ClicksOK /\ ViewOK /\ AgentsOK /\ StepOK
  BY TypeParts
<1>1. KeysOK'
  BY <1>0 DEF Cancel, KeysOK
<1>2. ClicksOK'
  <2>1. FlagsOK'
    BY Zenon DEF Cancel, FlagsOK
  <2>2. LeftOK'
    BY ConstantTypes DEF Cancel, LeftOK
  <2> QED
    BY <2>1, <2>2, ClickParts
<1>3. ViewOK'
  BY <1>0, ViewFromChange DEF Cancel, Mode, ViewOK
<1>4. AgentsOK' /\ StepOK'
  BY <1>0, KeepAgents, QuietType DEF Cancel, StepOK
<1> QED
  BY <1>1, <1>2, <1>3, <1>4, TypePartsNext

LEMMA SetAgentsType ==
    ASSUME TypeOK, NEW mask \in SUBSET Agent, NEW agent \in 0 .. AgentCount,
           SetAgents(mask, agent)
    PROVE  TypeOK'
<1>0. KeysOK /\ ClicksOK /\ ViewOK /\ AgentsOK /\ StepOK
  BY TypeParts
<1>1. AgentsOK'
  BY <1>0 DEF SetAgents, AgentsOK, Agent
<1>2. KeysOK'
  BY <1>0 DEF SetAgents, keyVars, KeysOK
<1>3. ClicksOK' /\ ViewOK' /\ StepOK'
  BY <1>0, KeepClicks, KeepView, QuietType DEF SetAgents, StepOK
<1> QED
  BY <1>1, <1>2, <1>3, TypePartsNext

LEMMA ElapseType ==
    ASSUME TypeOK, NEW dt \in 1 .. MaxPoll, Elapse(dt)
    PROVE  TypeOK'
<1>0. KeysOK /\ ClicksOK /\ ViewOK /\ AgentsOK /\ StepOK
  BY TypeParts
<1>1. dt \in Nat
  BY ConstantTypes
<1>2. \A n \in Nat, b \in Nat : AtMost(n + dt, b) \in 0 .. b
  BY <1>1 DEF AtMost
<1>3. KeysOK'
  <2>1. edgeAge' \in [Key -> 0 .. Debounce]
    <3>1. ASSUME NEW k \in Key
          PROVE  AtMost(edgeAge[k] + dt, Debounce) \in 0 .. Debounce
      <4>1. edgeAge[k] \in Nat
        BY <1>0, ConstantTypes DEF KeysOK
      <4> QED
        BY <1>2, <4>1, ConstantTypes
    <3> QED
      BY <3>1, ConstantTypes DEF Elapse
  <2>2. heldAge' \in [Key -> 0 .. LongPress]
    <3>1. ASSUME NEW k \in Key
          PROVE  AtMost(heldAge[k] + dt, LongPress) \in 0 .. LongPress
      <4>1. heldAge[k] \in Nat
        BY <1>0, ConstantTypes DEF KeysOK
      <4> QED
        BY <1>2, <4>1, ConstantTypes
    <3> QED
      BY <3>1, ConstantTypes DEF Elapse
  <2> QED
    BY <1>0, <2>1, <2>2 DEF Elapse, KeysOK
<1>4. ClicksOK'
  BY <1>0, <1>1, ConstantTypes DEF Elapse, ClicksOK
<1>5. ViewOK'
  BY <1>0, <1>1, ConstantTypes DEF Elapse, ViewOK
<1>6. AgentsOK' /\ StepOK'
  BY <1>0, KeepAgents, QuietType DEF Elapse, StepOK, Phase
<1> QED
  BY <1>3, <1>4, <1>5, <1>6, TypePartsNext

LEMMA HoldFrontType == TypeOK /\ HoldFront => TypeOK'
<1> SUFFICES ASSUME TypeOK, HoldFront PROVE TypeOK'
  OBVIOUS
<1>0. KeysOK /\ ClicksOK /\ ViewOK /\ AgentsOK /\ StepOK
  BY TypeParts
<1>1. KeysOK'
  BY <1>0 DEF HoldFront, FireLong, LongHeld, KeysOK, Key
<1>2. ClicksOK' /\ out' \in Event \cup {Silent}
  <2>1. CASE StartsMic
    <3>1. FlagsOK'
      BY <2>1, Zenon DEF HoldFront, FlagsOK
    <3>2. LeftOK' /\ out' \in Event \cup {Silent}
      BY <2>1, EmitType, ConstantTypes DEF HoldFront, LeftOK, EventType
    <3> QED
      BY <3>1, <3>2, ClickParts
  <2>2. CASE ~ StartsMic
    BY <1>0, <2>2, KeepClicks, QuietType DEF HoldFront
  <2> QED
    BY <2>1, <2>2
<1>3. ViewOK'
  <2>1. CASE UNCHANGED viewVars
    BY <1>0, <2>1, KeepView
  <2>2. CASE PreviousItem
    BY <1>0, <2>2, TurnType, ConstantTypes DEF PreviousItem
  <2> QED
    BY <2>1, <2>2 DEF HoldFront
<1>4. AgentsOK' /\ phase' \in Phase
  BY <1>0, KeepAgents DEF HoldFront, Phase
<1> QED
  BY <1>1, <1>2, <1>3, <1>4, TypePartsNext DEF StepOK

LEMMA HoldSideType == TypeOK /\ HoldSide => TypeOK'
<1> SUFFICES ASSUME TypeOK, HoldSide PROVE TypeOK'
  OBVIOUS
<1>0. KeysOK /\ ClicksOK /\ ViewOK /\ AgentsOK /\ StepOK
  BY TypeParts
<1>1. KeysOK'
  BY <1>0 DEF HoldSide, FireLong, LongHeld, KeysOK, Key
<1>2. ViewOK'
  <2>1. CASE UNCHANGED viewVars
    BY <1>0, <2>1, KeepView
  <2>2. CASE /\ UNCHANGED submenuIndex
             /\ \/ ChangeMode("CONTROL_CENTER")
                \/ BackOrClose
    BY <1>0, <2>2, ViewFromChange DEF BackOrClose, Mode, ViewOK
  <2> QED
    BY <2>1, <2>2 DEF HoldSide
<1>3. ClicksOK' /\ AgentsOK' /\ StepOK'
  BY <1>0, KeepClicks, KeepAgents, QuietType DEF HoldSide, StepOK, Phase
<1> QED
  BY <1>1, <1>2, <1>3, TypePartsNext

LEMMA PendingSendType == TypeOK /\ HandlePendingSend => TypeOK'
<1> SUFFICES ASSUME TypeOK, HandlePendingSend PROVE TypeOK'
  OBVIOUS
<1>0. KeysOK /\ ClicksOK /\ ViewOK /\ AgentsOK /\ StepOK
  BY TypeParts
<1>1. ClicksOK'
  <2>1. FlagsOK'
    BY <1>0, ClickParts, Zenon DEF HandlePendingSend, FlagsOK
  <2>2. LeftOK'
    BY <1>0, ClickParts, ConstantTypes DEF HandlePendingSend, LeftOK
  <2> QED
    BY <2>1, <2>2, ClickParts
<1>2. out' \in Event \cup {Silent}
  BY EmitType, QuietType DEF HandlePendingSend, EventType
<1>3. KeysOK'
  BY <1>0 DEF HandlePendingSend, keyVars, KeysOK
<1>4. ViewOK' /\ AgentsOK' /\ phase' \in Phase
  BY <1>0, KeepView, KeepAgents DEF HandlePendingSend, Phase
<1> QED
  BY <1>1, <1>2, <1>3, <1>4, TypePartsNext DEF StepOK

LEMMA TimeoutType == TypeOK /\ HandleTimeout => TypeOK'
<1> SUFFICES ASSUME TypeOK, HandleTimeout PROVE TypeOK'
  OBVIOUS
<1>0. KeysOK /\ ClicksOK /\ ViewOK /\ AgentsOK /\ StepOK
  BY TypeParts
<1>1. KeysOK'
  BY <1>0 DEF HandleTimeout, KeysOK, Key
<1>2. ViewOK'
  <2>1. CASE UNCHANGED viewVars
    BY <1>0, <2>1, KeepView
  <2>2. CASE ChangeMode("HOME") /\ UNCHANGED submenuIndex
    BY <1>0, <2>2, ViewFromChange DEF Mode, ViewOK
  <2> QED
    BY <2>1, <2>2 DEF HandleTimeout
<1>3. ClicksOK' /\ AgentsOK' /\ StepOK'
  BY <1>0, KeepClicks, KeepAgents, QuietType DEF HandleTimeout, StepOK, Phase
<1> QED
  BY <1>1, <1>2, <1>3, TypePartsNext

LEMMA TypeCorrectInit == Init => TypeOK
<1> SUFFICES ASSUME Init PROVE TypeOK
  OBVIOUS
<1>1. KeysOK
  BY ConstantTypes DEF Init, KeysOK, Mode
<1>2. FlagsOK
  BY Zenon DEF Init, FlagsOK
<1>3. LeftOK /\ ViewOK /\ AgentsOK /\ StepOK
  BY ConstantTypes DEF Init, LeftOK, ViewOK, AgentsOK, StepOK, Mode, Phase,
     Agent
<1> QED
  BY <1>1, <1>2, <1>3, ClickParts, TypeParts

LEMMA TypeCorrectStep == TypeOK /\ [Next]_vars => TypeOK'
<1> SUFFICES ASSUME TypeOK, [Next]_vars PROVE TypeOK'
  OBVIOUS
<1>1. CASE Cancel
  BY <1>1, CancelType
<1>2. ASSUME NEW mask \in SUBSET Agent, NEW agent \in 0 .. AgentCount,
             SetAgents(mask, agent)
      PROVE  TypeOK'
  BY <1>2, SetAgentsType
<1>3. ASSUME NEW dt \in 1 .. MaxPoll, Elapse(dt)
      PROVE  TypeOK'
  BY <1>3, ElapseType
<1>4. CASE Update
  BY <1>4, SideType, FrontType, HoldFrontType, HoldSideType,
     PendingSendType, TimeoutType DEF Update
<1>5. CASE UNCHANGED vars
  BY <1>5 DEF TypeOK, vars, keyVars, clickVars, viewVars, agentVars, Agent
<1> QED
  BY <1>1, <1>2, <1>3, <1>4, <1>5 DEF Next

(* Every variable keeps its type: the menu and submenu indices stay inside  *)
(* their lists, ages inside their thresholds and deadlines never lie        *)
(* further ahead than the configured interval.                              *)
THEOREM TypeCorrect == Spec => []TypeOK
  BY TypeCorrectInit, TypeCorrectStep, PTL DEF Spec

-----------------------------------------------------------------------------
(* The side button.                                                         *)

(* Only these events come from the side button. *)
SideQuiet == out'.type \notin SideEvents

LEMMA QuietIsSideQuiet == Quiet => SideQuiet
  BY DEF Quiet, Silent, SideQuiet, SideEvents

LEMMA EmitFrontIsSideQuiet ==
    ASSUME NEW t \in {"MIC_PRESS", "MIC_RELEASE", "SEND", "ESCAPE"}, Emit(t, 0)
    PROVE  SideQuiet
  BY DEF Emit, SideQuiet, SideEvents

LEMMA SideQuietSafe ==
    SideQuiet => DeclineConfirmed' /\ SideActsWherePressed'
  BY DEF SideQuiet, SideEvents, DeclineConfirmed, SideActsWherePressed

(* A step that leaves the side key and the mode alone keeps the origin. *)
LEMMA OriginKept ==
    ASSUME SidePressOrigin, stable'["KEY2"] = stable["KEY2"],
           consumed'["KEY2"] = consumed["KEY2"],
           pressMode'["KEY2"] = pressMode["KEY2"], mode' = mode
    PROVE  SidePressOrigin'
  BY DEF SidePressOrigin

(* A press that is used up, or released, constrains nothing any more. *)
LEMMA OriginVacuous ==
    (~ stable'["KEY2"] \/ consumed'["KEY2"]) => SidePressOrigin'
  BY DEF SidePressOrigin

LEMMA SideStep ==
    ASSUME TypeOK, SidePressOrigin, NEW level \in BOOLEAN, UpdateSide(level)
    PROVE  SidePressOrigin' /\ DeclineConfirmed' /\ SideActsWherePressed'
<1>0. KeysOK /\ KeysOK' /\ "KEY2" \in Key
  BY SideType, TypeParts, TypePartsNext DEF Key
<1>1. CASE NoEdge("KEY2", level)
  <2>1. SidePressOrigin'
    BY <1>1, OriginKept DEF NoEdge, viewVars
  <2> QED
    BY <1>1, <2>1, QuietIsSideQuiet, SideQuietSafe DEF NoEdge
<1>2. CASE PressSide
  <2>1. pressMode'["KEY2"] = mode /\ mode' = mode
    BY <1>0, <1>2 DEF PressSide, Press, Touch, KeysOK
  <2>2. SidePressOrigin'
    BY <2>1 DEF SidePressOrigin
  <2> QED
    BY <1>2, <2>2, QuietIsSideQuiet, SideQuietSafe DEF PressSide, Press
<1>3. ASSUME Release("KEY2")
      PROVE  /\ SidePressOrigin'
             /\ stable["KEY2"]
             /\ pressMode' = pressMode
  BY <1>0, <1>3, OriginVacuous DEF Release, Settles, KeysOK
<1>4. CASE ReleaseSideDecline
  <2>1. pressMode'["KEY2"] = "DECLINE_CONFIRM"
    BY <1>3, <1>4 DEF ReleaseSideDecline, SidePressOrigin
  <2>2. out'.type = "DECLINE"
    BY <1>4 DEF ReleaseSideDecline, Emit
  <2> QED
    BY <1>3, <1>4, <2>1, <2>2
    DEF ReleaseSideDecline, DeclineConfirmed, SideActsWherePressed, SideEvents
<1>5. CASE ReleaseSideIgnored
  BY <1>3, <1>5, QuietIsSideQuiet, SideQuietSafe DEF ReleaseSideIgnored
<1>6. ASSUME ShortSide, mode' = mode, out'.type # "DECLINE"
      PROVE  SidePressOrigin' /\ DeclineConfirmed' /\ SideActsWherePressed'
  BY <1>3, <1>6
  DEF ShortSide, SidePressOrigin, DeclineConfirmed, SideActsWherePressed
<1>7. CASE ReleaseSideHome
  BY <1>6, <1>7 DEF ReleaseSideHome, Emit, viewVars
<1>8. CASE ExecuteImmediate
  BY <1>6, <1>8 DEF ExecuteImmediate, Emit, Touch
<1>9. CASE ExecuteOpen
  BY <1>3, <1>9, QuietIsSideQuiet, SideQuietSafe DEF ExecuteOpen, ShortSide
<1>10. CASE ExecuteSubmenu
  BY <1>6, <1>10 DEF ExecuteSubmenu, Emit, Quiet, Silent, Touch, viewVars
<1> QED
  BY <1>1, <1>2, <1>4, <1>5, <1>7, <1>8, <1>9, <1>10 DEF UpdateSide

(* The front key never touches the side key; the only mode it can change is *)
(* the confirmation, back to the Control Center.                            *)
LEMMA FrontStep ==
    ASSUME TypeOK, SidePressOrigin, NEW level \in BOOLEAN, UpdateFront(level)
    PROVE  SidePressOrigin' /\ DeclineConfirmed' /\ SideActsWherePressed'
<1>0. KeysOK /\ "KEY1" \in Key /\ "KEY2" \in Key
  BY TypeParts DEF Key
<1>1. ASSUME NEW eaten \in BOOLEAN, Press("KEY1", eaten)
      PROVE  /\ stable'["KEY2"] = stable["KEY2"]
             /\ consumed'["KEY2"] = consumed["KEY2"]
             /\ pressMode'["KEY2"] = pressMode["KEY2"]
             /\ SideQuiet
  BY <1>0, <1>1, QuietIsSideQuiet DEF Press, KeysOK
<1>2. ASSUME Release("KEY1")
      PROVE  /\ stable'["KEY2"] = stable["KEY2"]
             /\ consumed'["KEY2"] = consumed["KEY2"]
             /\ pressMode'["KEY2"] = pressMode["KEY2"]
  BY <1>0, <1>2 DEF Release, KeysOK
<1>3. CASE NoEdge("KEY1", level)
  <2>1. SidePressOrigin'
    BY <1>3, OriginKept DEF NoEdge, viewVars
  <2> QED
    BY <1>3, <2>1, QuietIsSideQuiet, SideQuietSafe DEF NoEdge
<1>4. CASE PressFrontHome
  BY <1>1, <1>4, OriginKept, SideQuietSafe DEF PressFrontHome, viewVars
<1>5. CASE PressFrontMenu
  BY <1>1, <1>5, OriginKept, SideQuietSafe DEF PressFrontMenu, Touch
<1>6. CASE PressFrontDecline
  <2>1. mode = "DECLINE_CONFIRM" /\ mode' = "CONTROL_CENTER"
    BY <1>6 DEF PressFrontDecline, ChangeMode
  <2>2. SidePressOrigin'
    BY <1>1, <1>6, <2>1 DEF PressFrontDecline, SidePressOrigin
  <2> QED
    BY <1>1, <1>6, <2>2, SideQuietSafe DEF PressFrontDecline
<1>7. CASE ReleaseFrontMic
  BY <1>2, <1>7, OriginKept, EmitFrontIsSideQuiet, SideQuietSafe
  DEF ReleaseFrontMic, viewVars
<1>8. CASE ReleaseFrontHome
  <2>1. SideQuiet
    BY <1>8, EmitFrontIsSideQuiet, QuietIsSideQuiet DEF ReleaseFrontHome
  <2> QED
    BY <1>2, <1>8, <2>1, OriginKept, SideQuietSafe
    DEF ReleaseFrontHome, viewVars
<1>9. CASE ReleaseFrontMenu
  <2>1. mode' = mode
    BY <1>9 DEF ReleaseFrontMenu, viewVars, NextItem, Turn
  <2> QED
    BY <1>2, <1>9, <2>1, OriginKept, QuietIsSideQuiet, SideQuietSafe
    DEF ReleaseFrontMenu
<1> QED
  BY <1>3, <1>4, <1>5, <1>6, <1>7, <1>8, <1>9 DEF UpdateFront

LEMMA HoldsStep ==
    ASSUME TypeOK, SidePressOrigin, HoldFront \/ HoldSide
    PROVE  SidePressOrigin' /\ DeclineConfirmed' /\ SideActsWherePressed'
<1>0. KeysOK /\ "KEY2" \in Key
  BY TypeParts DEF Key
<1>1. CASE HoldFront
  <2>1. SideQuiet
    BY <1>1, EmitFrontIsSideQuiet, QuietIsSideQuiet DEF HoldFront
  <2>2. mode' = mode
    BY <1>1 DEF HoldFront, viewVars, PreviousItem, Turn
  <2> QED
    BY <1>1, <2>1, <2>2, OriginKept, SideQuietSafe DEF HoldFront
<1>2. CASE HoldSide
  <2>1. SidePressOrigin'
    <3>1. CASE LongHeld("KEY2") /\ mode # "DECLINE_CONFIRM"
      <4>1. consumed'["KEY2"]
        BY <1>0, <1>2, <3>1 DEF HoldSide, KeysOK
      <4> QED
        BY <4>1, OriginVacuous
    <3>2. CASE ~ (LongHeld("KEY2") /\ mode # "DECLINE_CONFIRM")
      BY <1>2, <3>2, OriginKept DEF HoldSide, viewVars
    <3> QED
      BY <3>1, <3>2
  <2> QED
    BY <1>2, <2>1, QuietIsSideQuiet, SideQuietSafe DEF HoldSide
<1> QED
  BY <1>1, <1>2

LEMMA TimersStep ==
    ASSUME TypeOK, SidePressOrigin, HandlePendingSend \/ HandleTimeout
    PROVE  SidePressOrigin' /\ DeclineConfirmed' /\ SideActsWherePressed'
<1>0. KeysOK /\ "KEY2" \in Key
  BY TypeParts DEF Key
<1>1. CASE HandlePendingSend
  <2>1. SideQuiet
    BY <1>1, EmitFrontIsSideQuiet, QuietIsSideQuiet DEF HandlePendingSend
  <2> QED
    BY <1>1, <2>1, OriginKept, SideQuietSafe
    DEF HandlePendingSend, keyVars, viewVars
<1>2. CASE HandleTimeout
  <2>1. SidePressOrigin'
    <3>1. CASE Overlay /\ modeLeft =< 0
      <4>1. /\ stable' = stable
            /\ stable["KEY2"] => consumed'["KEY2"]
        BY <1>0, <1>2, <3>1 DEF HandleTimeout, KeysOK
      <4> QED
        BY <4>1, OriginVacuous
    <3>2. CASE ~ (Overlay /\ modeLeft =< 0)
      BY <1>2, <3>2, OriginKept DEF HandleTimeout, viewVars
    <3> QED
      BY <3>1, <3>2
  <2> QED
    BY <1>2, <2>1, QuietIsSideQuiet, SideQuietSafe DEF HandleTimeout
<1> QED
  BY <1>1, <1>2

-----------------------------------------------------------------------------
(* The microphone.                                                          *)

LEMMA MicKept ==
    ASSUME MicHeld, UNCHANGED clickVars,
           stable'["KEY1"] = stable["KEY1"] \/ stable'["KEY1"]
    PROVE  MicHeld'
  BY Zenon DEF MicHeld, clickVars

LEMMA MicVacuous == ~ micForwarded' => MicHeld'
  BY DEF MicHeld

LEMMA MicSideStep ==
    ASSUME TypeOK, MicHeld, NEW level \in BOOLEAN, UpdateSide(level)
    PROVE  MicHeld'
<1>0. KeysOK /\ "KEY1" \in Key /\ "KEY2" \in Key /\ "KEY1" # "KEY2"
  BY TypeParts DEF Key
<1>1. UNCHANGED clickVars
  BY DEF UpdateSide, NoEdge, PressSide, ReleaseSideDecline, ReleaseSideIgnored,
         ReleaseSideHome, ExecuteImmediate, ExecuteOpen, ExecuteSubmenu
<1>2. stable'["KEY1"] = stable["KEY1"]
  <2>1. CASE NoEdge("KEY2", level)
    BY <2>1 DEF NoEdge
  <2>2. CASE Press("KEY2", FALSE)
    BY <1>0, <2>2 DEF Press, KeysOK
  <2>3. CASE Release("KEY2")
    BY <1>0, <2>3 DEF Release, KeysOK
  <2> QED
    BY <2>1, <2>2, <2>3
    DEF UpdateSide, PressSide, ReleaseSideDecline, ReleaseSideIgnored,
        ReleaseSideHome, ExecuteImmediate, ExecuteOpen, ExecuteSubmenu,
        ShortSide
<1> QED
  BY <1>1, <1>2, MicKept

LEMMA MicFrontStep ==
    ASSUME TypeOK, MicHeld, NEW level \in BOOLEAN, UpdateFront(level)
    PROVE  MicHeld'
<1>0. KeysOK /\ "KEY1" \in Key
  BY TypeParts DEF Key
<1>1. CASE NoEdge("KEY1", level)
  BY <1>1, MicKept DEF NoEdge
<1>2. ASSUME NEW eaten \in BOOLEAN, Press("KEY1", eaten)
      PROVE  ~ stable["KEY1"] /\ stable'["KEY1"]
  BY <1>0, <1>2 DEF Press, Settles, KeysOK
<1>3. CASE PressFrontHome
  BY <1>2, <1>3, MicVacuous, Zenon DEF PressFrontHome, MicHeld
<1>4. CASE PressFrontMenu
  BY <1>2, <1>4, MicKept DEF PressFrontMenu
<1>5. CASE PressFrontDecline
  BY <1>2, <1>5, MicKept DEF PressFrontDecline
<1>6. CASE ReleaseFrontMic
  BY <1>6, MicVacuous DEF ReleaseFrontMic
<1>7. CASE ReleaseFrontHome
  BY <1>7, MicVacuous, Zenon DEF ReleaseFrontHome
<1>8. CASE ReleaseFrontMenu
  BY <1>8, MicVacuous, Zenon DEF ReleaseFrontMenu, clickVars
<1> QED
  BY <1>1, <1>3, <1>4, <1>5, <1>6, <1>7, <1>8 DEF UpdateFront

LEMMA MicOtherStep ==
    ASSUME TypeOK, MicHeld,
           HoldFront \/ HoldSide \/ HandlePendingSend \/ HandleTimeout
    PROVE  MicHeld'
<1>1. CASE HoldFront
  <2>1. CASE StartsMic
    BY <1>1, <2>1, Zenon DEF HoldFront, MicHeld, StartsMic, VoiceHeld
  <2>2. CASE ~ StartsMic
    BY <1>1, <2>2, MicKept DEF HoldFront
  <2> QED
    BY <2>1, <2>2
<1>2. CASE HoldSide
  BY <1>2, MicKept DEF HoldSide
<1>3. CASE HandlePendingSend
  <2>1. /\ micForwarded' = micForwarded
        /\ doubleCandidate' = doubleCandidate
        /\ stable' = stable
        /\ sendPending' = FALSE \/ sendPending' = sendPending
    BY <1>3, Zenon DEF HandlePendingSend, keyVars
  <2> QED
    BY <2>1, Zenon DEF MicHeld
<1>4. CASE HandleTimeout
  BY <1>4, MicKept DEF HandleTimeout
<1> QED
  BY <1>1, <1>2, <1>3, <1>4

-----------------------------------------------------------------------------
(* The gesture invariant: a side press that can still act was made where it *)
(* acts, a Decline was confirmed by a second press, and the microphone is   *)
(* forwarded only under a held button with no click pending.                *)
THEOREM GestureCorrect == Spec => []GestureInv
<1>1. Init => GestureInv
  <2> SUFFICES ASSUME Init PROVE GestureInv
    OBVIOUS
  <2>1. TypeOK
    BY TypeCorrectInit
  <2>2. SidePressOrigin
    BY DEF Init, SidePressOrigin, Key
  <2>3. DeclineConfirmed /\ SideActsWherePressed
    BY DEF Init, Silent, DeclineConfirmed, SideActsWherePressed, SideEvents
  <2>4. MicHeld
    BY DEF Init, MicHeld
  <2> QED
    BY <2>1, <2>2, <2>3, <2>4 DEF GestureInv
<1>2. GestureInv /\ [Next]_vars => GestureInv'
  <2> SUFFICES ASSUME GestureInv, [Next]_vars PROVE GestureInv'
    OBVIOUS
  <2>0. TypeOK /\ SidePressOrigin /\ MicHeld /\ TypeOK'
    BY TypeCorrectStep DEF GestureInv
  <2>1. CASE Cancel
    <3>1. SidePressOrigin'
      BY <2>0, <2>1, OriginVacuous DEF Cancel
    <3>2. DeclineConfirmed' /\ SideActsWherePressed' /\ MicHeld'
      BY <2>1, QuietIsSideQuiet, SideQuietSafe, MicVacuous DEF Cancel
    <3> QED
      BY <2>0, <3>1, <3>2 DEF GestureInv
  <2>2. ASSUME NEW mask \in SUBSET Agent, NEW agent \in 0 .. AgentCount,
               SetAgents(mask, agent)
        PROVE  GestureInv'
    <3>1. SidePressOrigin' /\ MicHeld'
      BY <2>0, <2>2, OriginKept, MicKept DEF SetAgents, keyVars, viewVars
    <3> QED
      BY <2>0, <2>2, <3>1, QuietIsSideQuiet, SideQuietSafe
      DEF SetAgents, GestureInv
  <2>3. ASSUME NEW dt \in 1 .. MaxPoll, Elapse(dt)
        PROVE  GestureInv'
    <3>1. SidePressOrigin'
      BY <2>0, <2>3, OriginKept DEF Elapse
    <3>2. MicHeld'
      BY <2>0, <2>3, Zenon DEF Elapse, MicHeld
    <3> QED
      BY <2>0, <2>3, <3>1, <3>2, QuietIsSideQuiet, SideQuietSafe
      DEF Elapse, GestureInv
  <2>4. CASE Update
    <3>1. SidePressOrigin' /\ DeclineConfirmed' /\ SideActsWherePressed'
      BY <2>0, <2>4, SideStep, FrontStep, HoldsStep, TimersStep DEF Update
    <3>2. MicHeld'
      BY <2>0, <2>4, MicSideStep, MicFrontStep, MicOtherStep DEF Update
    <3> QED
      BY <2>0, <3>1, <3>2 DEF GestureInv
  <2>5. CASE UNCHANGED vars
    <3>1. SidePressOrigin' /\ MicHeld'
      BY <2>0, <2>5, OriginKept, MicKept DEF vars, keyVars, viewVars
    <3>2. DeclineConfirmed' /\ SideActsWherePressed'
      BY <2>5 DEF GestureInv, DeclineConfirmed, SideActsWherePressed,
                  vars, keyVars, viewVars
    <3> QED
      BY <2>0, <3>1, <3>2 DEF GestureInv
  <2> QED
    BY <2>1, <2>2, <2>3, <2>4, <2>5 DEF Next
<1> QED
  BY <1>1, <1>2, PTL DEF Spec

(* A Decline always answers a side press made on the confirmation page. *)
THEOREM DeclineNeedsSecondPress == Spec => []DeclineConfirmed
<1>1. GestureInv => DeclineConfirmed
  BY DEF GestureInv
<1> QED
  BY <1>1, GestureCorrect, PTL

(* A side press never executes an entry of a menu it was not made in. *)
THEOREM SidePressActsWhereMade == Spec => []SideActsWherePressed
<1>1. GestureInv => SideActsWherePressed
  BY DEF GestureInv
<1> QED
  BY <1>1, GestureCorrect, PTL

(* The microphone is forwarded only while the front button is held, with no *)
(* Send and no Escape waiting behind it.                                    *)
THEOREM MicOnlyUnderHold == Spec => []MicHeld
<1>1. GestureInv => MicHeld
  BY DEF GestureInv
<1> QED
  BY <1>1, GestureCorrect, PTL

-----------------------------------------------------------------------------
(* The pending click.  After handle_pending_send a click that is still      *)
(* pending has time left, or a second press of the front key is bouncing,   *)
(* which ends within the debounce time; between two of its calls the poll   *)
(* takes away at most MaxPoll.                                              *)

Late == phase \in {"timeout", "poll"}
Grace == IF Late THEN 0 ELSE MaxPoll

Bouncing ==
    phase \notin {"key2", "key1"} /\ raw["KEY1"] # stable["KEY1"]
        => edgeAge["KEY1"] < Debounce

PendingInv ==
    /\ Bouncing
    /\ sendPending => sendLeft + Debounce + Grace > 0
    /\ sendPending /\ Late /\ stable["KEY1"] => sendLeft > 0

LEMMA PendingSide ==
    ASSUME TypeOK, PendingInv, NEW level \in BOOLEAN, UpdateSide(level)
    PROVE  PendingInv'
<1>1. phase = "key2" /\ phase' = "key1" /\ UNCHANGED <<sendPending, sendLeft>>
  BY DEF UpdateSide, NoEdge, PressSide, Press, Release, ReleaseSideDecline,
         ReleaseSideIgnored, ReleaseSideHome, ExecuteImmediate, ExecuteOpen,
         ExecuteSubmenu, ShortSide, Turnstile, clickVars
<1> QED
  BY <1>1 DEF PendingInv, Bouncing, Late, Grace

LEMMA PendingFront ==
    ASSUME TypeOK, PendingInv, NEW level \in BOOLEAN, UpdateFront(level)
    PROVE  PendingInv'
<1>1. phase = "key1" /\ phase' = "hold1"
  BY DEF UpdateFront, NoEdge, Press, Release, PressFrontHome, PressFrontMenu,
         PressFrontDecline, ReleaseFrontMic, ReleaseFrontHome,
         ReleaseFrontMenu, Turnstile
<1>2. Bouncing'
  <2>1. CASE NoEdge("KEY1", level)
    BY <2>1, ConstantTypes DEF NoEdge, Settles, SampledAge, Bouncing, TypeOK, Key
  <2>2. CASE ~ NoEdge("KEY1", level)
    <3>1. raw'["KEY1"] = stable'["KEY1"]
      BY <2>2 DEF UpdateFront, Press, Release, PressFrontHome, PressFrontMenu,
         PressFrontDecline, ReleaseFrontMic, ReleaseFrontHome,
         ReleaseFrontMenu, TypeOK, Key
    <3> QED
      BY <3>1 DEF Bouncing
  <2> QED
    BY <2>1, <2>2
<1>3. \/ sendPending' = FALSE
      \/ sendLeft' \in {0, DoubleClick}
      \/ UNCHANGED <<sendPending, sendLeft>>
  BY Zenon DEF UpdateFront, NoEdge, PressFrontHome, PressFrontMenu,
         PressFrontDecline, ReleaseFrontMic, ReleaseFrontHome,
         ReleaseFrontMenu, clickVars
<1>4. sendPending' => sendLeft' + Debounce + MaxPoll > 0
  <2>1. CASE sendPending' = FALSE
    BY <2>1, Zenon
  <2>2. CASE sendLeft' \in {0, DoubleClick}
    <3>1. /\ Debounce \in Nat \ {0} /\ MaxPoll \in Nat \ {0}
          /\ DoubleClick \in Nat \ {0}
      BY ConstantTypes
    <3>2. 0 + Debounce + MaxPoll > 0 /\ DoubleClick + Debounce + MaxPoll > 0
      BY <3>1
    <3>3. sendLeft' + Debounce + MaxPoll > 0
      BY <2>2, <3>2, Zenon
    <3> QED
      BY <3>3, Zenon
  <2>3. CASE UNCHANGED <<sendPending, sendLeft>>
    BY <1>1, <2>3 DEF PendingInv, Grace, Late
  <2> QED
    BY <1>3, <2>1, <2>2, <2>3
<1> QED
  BY <1>1, <1>2, <1>4 DEF PendingInv, Late, Grace

LEMMA PendingRest ==
    ASSUME TypeOK, PendingInv, HoldFront \/ HoldSide \/ HandleTimeout
    PROVE  PendingInv'
<1>1. UNCHANGED <<raw, stable, edgeAge>>
  BY DEF HoldFront, HoldSide, HandleTimeout
<1>2. sendPending' = FALSE \/ UNCHANGED <<sendPending, sendLeft>>
  BY Zenon DEF HoldFront, HoldSide, HandleTimeout, clickVars
<1>3. /\ phase \notin {"key2", "key1"}
      /\ Late' = Late
  BY DEF HoldFront, HoldSide, HandleTimeout, Late
<1>4. Bouncing'
  BY <1>1, <1>3 DEF PendingInv, Bouncing
<1>5. CASE sendPending' = FALSE
  BY <1>4, <1>5, Zenon DEF PendingInv
<1>6. CASE UNCHANGED <<sendPending, sendLeft>>
  BY <1>1, <1>3, <1>4, <1>6 DEF PendingInv, Grace
<1> QED
  BY <1>2, <1>5, <1>6

LEMMA PendingSendStep ==
    ASSUME TypeOK, PendingInv, HandlePendingSend
    PROVE  PendingInv'
<1>1. /\ phase = "send" /\ phase' = "timeout"
      /\ UNCHANGED <<raw, stable, edgeAge>>
  BY DEF HandlePendingSend, keyVars
<1>2. Bouncing'
  BY <1>1 DEF PendingInv, Bouncing
<1>3. CASE sendPending /\ sendLeft =< 0 /\ ~ SecondPressDebouncing
  BY <1>2, <1>3, Zenon DEF HandlePendingSend, PendingInv
<1>4. CASE ~ (sendPending /\ sendLeft =< 0 /\ ~ SecondPressDebouncing)
  <2>1. UNCHANGED <<sendPending, sendLeft>>
    BY <1>4, Zenon DEF HandlePendingSend
  <2>2. /\ sendLeft \in Int /\ edgeAge["KEY1"] \in Nat
        /\ Debounce \in Nat \ {0}
    BY ConstantTypes DEF TypeOK, Key
  <2>3. CASE SecondPressDebouncing
    <3>1. /\ raw["KEY1"] # stable["KEY1"] /\ ~ stable["KEY1"]
          /\ sendLeft + edgeAge["KEY1"] >= 0
      BY <2>3, Zenon DEF SecondPressDebouncing
    <3>2. edgeAge["KEY1"] < Debounce
      BY <1>1, <3>1 DEF PendingInv, Bouncing
    <3>3. sendLeft + Debounce > 0
      BY <2>2, <3>1, <3>2
    <3> QED
      BY <1>1, <1>2, <2>1, <2>2, <3>1, <3>3 DEF PendingInv, Grace, Late
  <2>4. CASE sendPending /\ sendLeft > 0
    BY <1>1, <1>2, <2>1, <2>2, <2>4 DEF PendingInv, Grace, Late
  <2>5. CASE ~ sendPending
    BY <1>2, <2>1, <2>5, Zenon DEF PendingInv
  <2> QED
    BY <1>4, <2>2, <2>3, <2>4, <2>5
<1> QED
  BY <1>3, <1>4

LEMMA PendingStep == TypeOK /\ PendingInv /\ [Next]_vars => PendingInv'
<1> SUFFICES ASSUME TypeOK, PendingInv, [Next]_vars PROVE PendingInv'
  OBVIOUS
<1>1. CASE Cancel
  <2>1. /\ sendPending' = FALSE
        /\ UNCHANGED <<raw, stable, edgeAge, phase>>
    BY <1>1, Zenon DEF Cancel
  <2>2. Bouncing'
    BY <2>1 DEF PendingInv, Bouncing
  <2> QED
    BY <2>1, <2>2, Zenon DEF PendingInv
<1>2. ASSUME NEW mask \in SUBSET Agent, NEW agent \in 0 .. AgentCount,
             SetAgents(mask, agent)
      PROVE  PendingInv'
  BY <1>2 DEF SetAgents, keyVars, clickVars, PendingInv, Bouncing, Late, Grace
<1>3. ASSUME NEW dt \in 1 .. MaxPoll, Elapse(dt)
      PROVE  PendingInv'
  <2>1. phase = "poll" /\ phase' = "key2" /\ sendPending' = sendPending
    BY <1>3 DEF Elapse
  <2>2. sendPending => sendLeft' = sendLeft - dt
    BY <1>3 DEF Elapse
  <2>3. sendLeft \in Int
    BY DEF TypeOK
  <2> QED
    BY <2>1, <2>2, <2>3, ConstantTypes DEF PendingInv, Bouncing, Late, Grace
<1>4. CASE Update
  BY <1>4, PendingSide, PendingFront, PendingRest, PendingSendStep DEF Update
<1>5. CASE UNCHANGED vars
  BY <1>5 DEF vars, keyVars, clickVars, PendingInv, Bouncing, Late, Grace
<1> QED
  BY <1>1, <1>2, <1>3, <1>4, <1>5 DEF Next

(* A pending click is at most a debounce time and a late poll overdue.      *)
THEOREM PendingInTime == Spec => []SendNotOverdue
<1>1. Init => TypeOK /\ PendingInv
  <2>1. Init => ~ sendPending /\ raw = stable
    BY Zenon DEF Init
  <2> QED
    BY <2>1, TypeCorrectInit DEF PendingInv, Bouncing
<1>2. TypeOK /\ PendingInv /\ [Next]_vars => (TypeOK /\ PendingInv)'
  BY TypeCorrectStep, PendingStep
<1>3. TypeOK /\ PendingInv => SendNotOverdue
  BY ConstantTypes DEF TypeOK, PendingInv, Grace, SendNotOverdue
<1> QED
  BY <1>1, <1>2, <1>3, PTL DEF Spec

-----------------------------------------------------------------------------
(* A click that is pending in a menu runs out before the menu does, and     *)
(* before a side press made there is long enough to close it: the front key *)
(* can then not be down at Home with a click still pending.  The second     *)
(* needs polls that are not later than what a long press is longer than the *)
(* double-click window, less the debounce time.                             *)

Prompt == Debounce + MaxPoll =< LongPress - DoubleClick

SideClosesLater ==
    stable["KEY2"] /\ ~ longFired["KEY2"]
        => heldAge["KEY2"] + sendLeft =< DoubleClick

PendingIn(home) ==
    IF home THEN ~ stable["KEY1"] ELSE sendLeft =< modeLeft /\ SideClosesLater

HomeInv == sendPending => PendingIn(mode = "HOME")

LEMMA HomeTypes ==
    ASSUME TypeOK
    PROVE  /\ sendLeft \in Int /\ sendLeft =< DoubleClick /\ modeLeft \in Int
           /\ \A k \in Key : heldAge[k] \in 0 .. LongPress
           /\ DoubleClick =< MenuTimeout
           /\ DOMAIN stable = Key /\ DOMAIN heldAge = Key
           /\ DOMAIN longFired = Key
  BY ConstantTypes, TimingAssumption DEF TypeOK

(* Where the view may go while a menu is open, or without leaving Home. *)
Stays == mode' = mode /\ modeLeft' = modeLeft
Renews == mode # "HOME" /\ mode' # "HOME" /\ modeLeft' = MenuTimeout

LEMMA TurnRenews ==
    ASSUME NEW i, NEW j, NEW k, Turn(i, j, k)
    PROVE  Stays \/ Renews
  BY DEF Turn, TouchedLeft, Overlay, Stays, Renews

LEMMA TouchRenews == Touch => Stays \/ Renews
  BY DEF Touch, TouchedLeft, Overlay, Stays, Renews

LEMMA HomeKept ==
    ASSUME TypeOK, HomeInv, Stays \/ Renews,
           UNCHANGED <<sendPending, sendLeft>>,
           mode = "HOME" => (stable'["KEY1"] => stable["KEY1"]),
           \/ UNCHANGED <<stable, heldAge, longFired>>
           \/ SideClosesLater => SideClosesLater'
    PROVE  HomeInv'
<1>1. CASE ~ sendPending
  BY <1>1, Zenon DEF HomeInv
<1>2. CASE sendPending /\ mode = "HOME"
  <2>1. mode' = "HOME" /\ ~ stable["KEY1"]
    BY <1>2 DEF Stays, Renews, HomeInv, PendingIn
  <2> QED
    BY <1>2, <2>1, Zenon DEF HomeInv, PendingIn
<1>3. CASE sendPending /\ mode # "HOME"
  <2>1. mode' # "HOME" /\ SideClosesLater /\ sendLeft =< modeLeft
    BY <1>3 DEF Stays, Renews, HomeInv, PendingIn
  <2>2. SideClosesLater'
    BY <2>1 DEF SideClosesLater
  <2>3. sendLeft' =< modeLeft'
    BY <2>1, HomeTypes, ConstantTypes DEF Stays, Renews
  <2> QED
    BY <2>1, <2>2, <2>3, Zenon DEF HomeInv, PendingIn
<1> QED
  BY <1>1, <1>2, <1>3

LEMMA HomeSide ==
    ASSUME TypeOK, HomeInv, NEW level \in BOOLEAN, UpdateSide(level)
    PROVE  HomeInv' /\ out'.type # "SEND"
<1>0. "KEY1" \in Key /\ "KEY2" \in Key /\ "KEY1" # "KEY2"
  BY DEF Key
<1>1. UNCHANGED <<sendPending, sendLeft>>
  BY DEF UpdateSide, NoEdge, PressSide, ReleaseSideDecline,
         ReleaseSideIgnored, ReleaseSideHome, ExecuteImmediate, ExecuteOpen,
         ExecuteSubmenu, clickVars
<1>2. stable'["KEY1"] = stable["KEY1"]
  BY <1>0, HomeTypes DEF UpdateSide, NoEdge, Press, Release, PressSide,
     ReleaseSideDecline, ReleaseSideIgnored, ReleaseSideHome,
     ExecuteImmediate, ExecuteOpen, ExecuteSubmenu, ShortSide
<1>3. \/ UNCHANGED <<stable, heldAge, longFired>>
      \/ SideClosesLater => SideClosesLater'
  <2>1. CASE NoEdge("KEY2", level)
    BY <2>1 DEF NoEdge
  <2>2. CASE PressSide
    <3>1. heldAge'["KEY2"] = 0
      BY <1>0, <2>2, HomeTypes DEF PressSide, Press
    <3> QED
      BY <1>1, <3>1, HomeTypes DEF SideClosesLater
  <2>3. CASE Release("KEY2")
    <3>1. stable'["KEY2"] = FALSE
      BY <1>0, <2>3, HomeTypes DEF Release
    <3> QED
      BY <3>1 DEF SideClosesLater
  <2> QED
    BY <2>1, <2>2, <2>3 DEF UpdateSide, ReleaseSideDecline,
       ReleaseSideIgnored, ReleaseSideHome, ExecuteImmediate, ExecuteOpen,
       ExecuteSubmenu, ShortSide
<1>4. Stays \/ Renews
  <2>1. CASE UNCHANGED viewVars
    BY <2>1 DEF viewVars, Stays
  <2>2. CASE Touch
    BY <2>2, TouchRenews
  <2>3. CASE ReleaseSideDecline
    BY <2>3 DEF ReleaseSideDecline, ChangeMode, Renews
  <2>4. CASE ExecuteOpen
    BY <2>4 DEF ExecuteOpen, ChangeMode, Renews
  <2> QED
    BY <2>1, <2>2, <2>3, <2>4 DEF UpdateSide, NoEdge, PressSide,
       ReleaseSideIgnored, ReleaseSideHome, ExecuteImmediate, ExecuteSubmenu
<1>5. out'.type # "SEND"
  <2>1. CASE NoEdge("KEY2", level) \/ PressSide \/ ReleaseSideIgnored
             \/ ExecuteOpen
    <3>1. Quiet
      BY <2>1 DEF NoEdge, PressSide, Press, ReleaseSideIgnored, ExecuteOpen
    <3> QED
      BY <3>1 DEF Quiet, Silent
  <2>2. CASE ReleaseSideDecline \/ ReleaseSideHome
    BY <2>2 DEF ReleaseSideDecline, ReleaseSideHome, Emit
  <2>3. CASE ExecuteImmediate
    BY <2>3 DEF ExecuteImmediate, Emit
  <2>4. CASE ExecuteSubmenu
    BY <2>4 DEF ExecuteSubmenu, Emit, Quiet, Silent
  <2> QED
    BY <2>1, <2>2, <2>3, <2>4 DEF UpdateSide
<1> QED
  BY <1>1, <1>2, <1>3, <1>4, <1>5, HomeKept

LEMMA HomeFront ==
    ASSUME TypeOK, HomeInv, NEW level \in BOOLEAN, UpdateFront(level)
    PROVE  HomeInv' /\ out'.type # "SEND"
<1>0. "KEY1" \in Key /\ "KEY2" \in Key /\ "KEY1" # "KEY2"
  BY DEF Key
<1>1. SideClosesLater /\ sendLeft' = sendLeft => SideClosesLater'
  BY <1>0, HomeTypes DEF SideClosesLater, UpdateFront, NoEdge, Press, Release,
     PressFrontHome, PressFrontMenu, PressFrontDecline, ReleaseFrontMic,
     ReleaseFrontHome, ReleaseFrontMenu
<1>2. out'.type # "SEND"
  <2>1. Quiet \/ Emit("MIC_RELEASE", 0) \/ Emit("ESCAPE", 0)
    BY DEF UpdateFront, NoEdge, Press, PressFrontHome, PressFrontMenu,
       PressFrontDecline, ReleaseFrontMic, ReleaseFrontHome, ReleaseFrontMenu
  <2> QED
    BY <2>1 DEF Quiet, Silent, Emit
<1>3. CASE NoEdge("KEY1", level)
  BY <1>1, <1>2, <1>3, HomeKept DEF NoEdge, clickVars, viewVars, Stays
<1>4. CASE PressFrontHome
  BY <1>2, <1>4, Zenon DEF PressFrontHome, HomeInv
<1>5. CASE PressFrontMenu
  BY <1>1, <1>2, <1>5, HomeKept, TouchRenews DEF PressFrontMenu, clickVars
<1>6. CASE PressFrontDecline
  <2>1. Renews /\ UNCHANGED <<sendPending, sendLeft>> /\ mode # "HOME"
    BY <1>6 DEF PressFrontDecline, ChangeMode, Renews, clickVars
  <2> QED
    BY <1>1, <1>2, <2>1, HomeKept
<1>7. CASE ReleaseFrontMic
  <2>1. ~ stable'["KEY1"]
    BY <1>0, <1>7, HomeTypes DEF ReleaseFrontMic, Release
  <2> QED
    BY <1>1, <1>2, <1>7, <2>1, HomeKept DEF ReleaseFrontMic, viewVars, Stays
<1>8. CASE ReleaseFrontHome
  <2>1. ~ stable'["KEY1"] /\ mode' = "HOME"
    BY <1>0, <1>8, HomeTypes DEF ReleaseFrontHome, Release, viewVars
  <2> QED
    BY <1>2, <2>1, Zenon DEF HomeInv, PendingIn
<1>9. CASE ReleaseFrontMenu
  <2>1. ~ stable'["KEY1"]
    BY <1>0, <1>9, HomeTypes DEF ReleaseFrontMenu, Release
  <2>2. Stays \/ Renews
    BY <1>9, TurnRenews DEF ReleaseFrontMenu, NextItem, viewVars, Stays
  <2> QED
    BY <1>1, <1>2, <1>9, <2>1, <2>2, HomeKept DEF ReleaseFrontMenu, clickVars
<1> QED
  BY <1>2, <1>3, <1>4, <1>5, <1>6, <1>7, <1>8, <1>9 DEF UpdateFront

LEMMA HomeHoldFront ==
    ASSUME TypeOK, HomeInv, HoldFront
    PROVE  HomeInv' /\ out'.type # "SEND"
<1>0. "KEY1" \in Key /\ "KEY2" \in Key /\ "KEY1" # "KEY2"
  BY DEF Key
<1>1. out'.type # "SEND"
  BY DEF HoldFront, Quiet, Silent, Emit
<1>2. CASE StartsMic
  BY <1>1, <1>2, Zenon DEF HoldFront, HomeInv
<1>3. CASE ~ StartsMic
  <2>1. UNCHANGED <<sendPending, sendLeft, stable, heldAge>>
    BY <1>3 DEF HoldFront, clickVars
  <2>2. longFired'["KEY2"] = longFired["KEY2"]
    BY <1>0, HomeTypes DEF HoldFront, FireLong
  <2>3. Stays \/ Renews
    BY TurnRenews DEF HoldFront, PreviousItem, viewVars, Stays
  <2>4. SideClosesLater => SideClosesLater'
    BY <2>1, <2>2 DEF SideClosesLater
  <2> QED
    BY <1>1, <2>1, <2>3, <2>4, HomeKept
<1> QED
  BY <1>2, <1>3

(* A side press that closes a menu is longer than any click stays pending.  *)
LEMMA HomeHoldSide ==
    ASSUME Prompt, TypeOK, PendingInv, HomeInv, HoldSide
    PROVE  HomeInv' /\ out'.type # "SEND"
<1>0. "KEY2" \in Key
  BY DEF Key
<1>1. out'.type # "SEND"
  BY DEF HoldSide, Quiet, Silent
<1>2. UNCHANGED <<sendPending, sendLeft, stable, heldAge>>
  BY DEF HoldSide, clickVars
<1>3. CASE ~ sendPending
  BY <1>1, <1>2, <1>3, Zenon DEF HomeInv
<1>4. CASE sendPending /\ ~ (LongHeld("KEY2") /\ mode # "DECLINE_CONFIRM")
  <2>1. Stays
    BY <1>4 DEF HoldSide, viewVars, Stays
  <2>2. longFired["KEY2"] => longFired'["KEY2"]
    BY <1>0, HomeTypes DEF HoldSide, FireLong
  <2>3. SideClosesLater => SideClosesLater'
    BY <1>2, <2>2 DEF SideClosesLater
  <2> QED
    BY <1>1, <1>2, <2>1, <2>3, HomeKept
<1>5. CASE sendPending /\ LongHeld("KEY2") /\ mode # "DECLINE_CONFIRM"
  <2>1. longFired'["KEY2"]
    BY <1>0, <1>5, HomeTypes DEF HoldSide, FireLong
  <2>2. SideClosesLater'
    BY <2>1 DEF SideClosesLater
  <2>3. mode = "HOME"
    <3> SUFFICES ASSUME mode # "HOME" PROVE FALSE
      OBVIOUS
    <3>1. heldAge["KEY2"] + sendLeft =< DoubleClick /\ heldAge["KEY2"] >= LongPress
      BY <1>5 DEF HomeInv, PendingIn, SideClosesLater, LongHeld
    <3>2. sendLeft + Debounce + MaxPoll > 0
      BY <1>5 DEF PendingInv, Grace, Late, HoldSide
    <3>3. /\ sendLeft \in Int /\ heldAge["KEY2"] \in Nat
          /\ Debounce \in Int /\ MaxPoll \in Int
          /\ LongPress \in Int /\ DoubleClick \in Int
      BY <1>0, HomeTypes, ConstantTypes
    <3> QED
      BY <3>1, <3>2, <3>3 DEF Prompt
  <2>4. mode' # "HOME" /\ modeLeft' = MenuTimeout
    BY <1>5, <2>3 DEF HoldSide, ChangeMode
  <2>5. sendLeft' =< modeLeft'
    BY <1>2, <2>4, HomeTypes, ConstantTypes
  <2> QED
    BY <1>1, <2>2, <2>4, <2>5, Zenon DEF HomeInv, PendingIn
<1> QED
  BY <1>3, <1>4, <1>5

(* The only step that sends: the front key is not down at Home. *)
LEMMA HomeSendStep ==
    ASSUME TypeOK, HomeInv, HandlePendingSend
    PROVE  HomeInv' /\ SendNotUnderPress'
<1>1. UNCHANGED <<mode, modeLeft, stable, heldAge, longFired>>
  BY DEF HandlePendingSend, keyVars, viewVars
<1>2. CASE sendPending /\ sendLeft =< 0 /\ ~ SecondPressDebouncing
  <2>1. sendPending' = FALSE
    BY <1>2, Zenon DEF HandlePendingSend
  <2>2. ~ (mode' = "HOME" /\ stable'["KEY1"])
    BY <1>1, <1>2 DEF HomeInv, PendingIn
  <2> QED
    BY <2>1, <2>2, Zenon DEF HomeInv, SendNotUnderPress
<1>3. CASE ~ (sendPending /\ sendLeft =< 0 /\ ~ SecondPressDebouncing)
  <2>1. UNCHANGED <<sendPending, sendLeft>> /\ out' = Silent
    BY <1>3, Zenon DEF HandlePendingSend, Quiet
  <2> QED
    BY <1>1, <2>1 DEF HomeInv, PendingIn, SideClosesLater, SendNotUnderPress,
                      Silent
<1> QED
  BY <1>2, <1>3

(* A menu that times out takes no pending click with it to a held key.      *)
LEMMA HomeTimeout ==
    ASSUME TypeOK, PendingInv, HomeInv, HandleTimeout
    PROVE  HomeInv' /\ out'.type # "SEND"
<1>1. /\ UNCHANGED <<sendPending, sendLeft, stable, heldAge, longFired>>
      /\ out'.type # "SEND"
  BY DEF HandleTimeout, clickVars, Quiet, Silent
<1>2. CASE ~ (Overlay /\ modeLeft =< 0)
  BY <1>1, <1>2, HomeKept DEF HandleTimeout, viewVars, Stays
<1>3. CASE Overlay /\ modeLeft =< 0
  <2>1. mode' = "HOME" /\ mode # "HOME"
    BY <1>3 DEF HandleTimeout, ChangeMode, Overlay
  <2>2. sendPending => ~ stable["KEY1"]
    <3> SUFFICES ASSUME sendPending, stable["KEY1"] PROVE FALSE
      OBVIOUS
    <3>1. sendLeft > 0
      BY DEF PendingInv, Late, HandleTimeout
    <3>2. sendLeft =< modeLeft
      BY <2>1 DEF HomeInv, PendingIn
    <3> QED
      BY <1>3, <3>1, <3>2, HomeTypes
  <2> QED
    BY <1>1, <2>1, <2>2 DEF HomeInv, PendingIn
<1> QED
  BY <1>2, <1>3

LEMMA HomeElapse ==
    ASSUME TypeOK, HomeInv, NEW dt \in 1 .. MaxPoll, Elapse(dt)
    PROVE  HomeInv' /\ out'.type # "SEND"
<1>1. /\ UNCHANGED <<sendPending, mode, stable, longFired>>
      /\ out'.type # "SEND"
  BY DEF Elapse, Quiet, Silent
<1>2. CASE ~ sendPending
  BY <1>1, <1>2, Zenon DEF HomeInv
<1>3. CASE sendPending /\ mode = "HOME"
  BY <1>1, <1>3 DEF HomeInv, PendingIn
<1>4. CASE sendPending /\ mode # "HOME"
  <2>1. sendLeft' = sendLeft - dt /\ modeLeft' = modeLeft - dt
    BY <1>4 DEF Elapse, Overlay
  <2>2. /\ "KEY2" \in Key /\ dt \in Nat /\ heldAge["KEY2"] \in Nat
        /\ LongPress \in Nat /\ sendLeft \in Int /\ DoubleClick \in Nat
    BY HomeTypes, ConstantTypes DEF Key
  <2>3. stable["KEY2"] => heldAge'["KEY2"] = AtMost(heldAge["KEY2"] + dt, LongPress)
    BY <2>2 DEF Elapse
  <2>4. /\ AtMost(heldAge["KEY2"] + dt, LongPress) \in Nat
        /\ AtMost(heldAge["KEY2"] + dt, LongPress) =< heldAge["KEY2"] + dt
    BY <2>2 DEF AtMost
  <2>5. sendLeft =< modeLeft /\ SideClosesLater
    BY <1>4 DEF HomeInv, PendingIn
  <2>6. SideClosesLater'
    <3> SUFFICES ASSUME stable["KEY2"], ~ longFired["KEY2"]
                 PROVE  heldAge'["KEY2"] + sendLeft' =< DoubleClick
      BY <1>1 DEF SideClosesLater
    <3>1. heldAge["KEY2"] + sendLeft =< DoubleClick
      BY <2>5 DEF SideClosesLater
    <3> QED
      BY <2>1, <2>2, <2>3, <2>4, <3>1
  <2>7. sendLeft' =< modeLeft'
    BY <2>1, <2>2, <2>5, HomeTypes
  <2> QED
    BY <1>1, <1>4, <2>6, <2>7 DEF HomeInv, PendingIn
<1> QED
  BY <1>1, <1>2, <1>3, <1>4

LEMMA HomeStep ==
    ASSUME Prompt, TypeOK, PendingInv, HomeInv, SendNotUnderPress, [Next]_vars
    PROVE  HomeInv' /\ SendNotUnderPress'
<1>1. CASE Cancel
  <2>1. sendPending' = FALSE /\ out' = Silent
    BY <1>1, Zenon DEF Cancel, Quiet
  <2> QED
    BY <2>1 DEF HomeInv, SendNotUnderPress, Silent
<1>2. ASSUME NEW mask \in SUBSET Agent, NEW agent \in 0 .. AgentCount,
             SetAgents(mask, agent)
      PROVE  HomeInv' /\ SendNotUnderPress'
  BY <1>2 DEF SetAgents, keyVars, clickVars, viewVars, HomeInv, PendingIn,
              SideClosesLater, SendNotUnderPress, Quiet, Silent
<1>3. ASSUME NEW dt \in 1 .. MaxPoll, Elapse(dt)
      PROVE  HomeInv' /\ SendNotUnderPress'
  BY <1>3, HomeElapse DEF SendNotUnderPress
<1>4. CASE Update
  BY <1>4, HomeSide, HomeFront, HomeHoldFront, HomeHoldSide, HomeSendStep,
     HomeTimeout DEF Update, SendNotUnderPress
<1>5. CASE UNCHANGED vars
  BY <1>5 DEF vars, keyVars, clickVars, viewVars, HomeInv, PendingIn,
              SideClosesLater, SendNotUnderPress
<1> QED
  BY <1>1, <1>2, <1>3, <1>4, <1>5 DEF Next

(* If polls are prompt, no Send goes out while the front key is down again  *)
(* at Home.                                                                 *)
THEOREM NoSendUnderPress ==
    ASSUME Prompt
    PROVE  Spec => []SendNotUnderPress
<1> DEFINE IInv == TypeOK /\ PendingInv /\ HomeInv /\ SendNotUnderPress
<1>1. Init => IInv
  <2>1. Init => ~ sendPending /\ raw = stable /\ out = Silent
    BY Zenon DEF Init
  <2> QED
    BY <2>1, TypeCorrectInit DEF PendingInv, Bouncing, HomeInv,
       SendNotUnderPress, Silent
<1>2. IInv /\ [Next]_vars => IInv'
  BY TypeCorrectStep, PendingStep, HomeStep
<1>3. IInv => SendNotUnderPress
  OBVIOUS
<1> QED
  BY <1>1, <1>2, <1>3, PTL DEF Spec
=============================================================================
