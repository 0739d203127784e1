------------------------- MODULE PowerDisplay_proof -------------------------
(***************************************************************************)
(* Proofs about PowerDisplay for every range, fixed point, hysteresis,     *)
(* number of confirming samples and delay the assumption allows: the       *)
(* display never leaves the range of the readings and rises only while     *)
(* charging, and a press is followed by full light.                        *)
(***************************************************************************)
EXTENDS PowerDisplay, TLAPS

(* One filter step stays between the filtered value and the target. *)
LEMMA StepIsShort ==
    ASSUME NEW way \in Nat, way > 0
    PROVE  Step(way) \in 1 .. way
  BY DEF Step

LEMMA TowardBetween ==
    ASSUME NEW q \in Nat, NEW target \in Nat
    PROVE  /\ Toward(q, target) \in Nat
           /\ q <= target => q <= Toward(q, target) /\ Toward(q, target) <= target
           /\ target <= q => target <= Toward(q, target) /\ Toward(q, target) <= q
  <1>1. CASE q < target
    <2>1. target - q \in Nat /\ target - q > 0
      BY <1>1
    <2>2. Step(target - q) \in 1 .. (target - q)
      BY <2>1, StepIsShort
    <2>3. QED
      BY <1>1, <2>2 DEF Toward
  <1>2. CASE q > target
    <2>1. q - target \in Nat /\ q - target > 0
      BY <1>2
    <2>2. Step(q - target) \in 1 .. (q - target)
      BY <2>1, StepIsShort
    <2>3. QED
      BY <1>2, <2>2 DEF Toward
  <1>3. CASE q = target
    BY <1>3 DEF Toward
  <1>4. QED
    BY <1>1, <1>2, <1>3

(* Percentages in fixed point keep their order. *)
LEMMA Scaled ==
    ASSUME NEW a \in Nat, NEW b \in Nat
    PROVE  /\ a * One \in Nat
           /\ a <= b => a * One <= b * One
           /\ a < b => a * One + One <= b * One
           /\ a * One < b * One => a < b
  BY PowerAssumption

(* What the filter keeps: the filtered value and the display stay between  *)
(* the readings, and a pending rise counts powered samples only.           *)
Within(f, lo, hi) ==
    /\ lo * One <= f.filtered /\ f.filtered <= hi * One
    /\ lo <= f.displayed /\ f.displayed <= hi

LEMMA TowardWithin ==
    ASSUME NEW q \in Nat, NEW target \in Nat, NEW lo \in Nat, NEW hi \in Nat,
           lo <= q, q <= hi, lo <= target, target <= hi
    PROVE  lo <= Toward(q, target) /\ Toward(q, target) <= hi
  <1>1. CASE q <= target
    BY <1>1, TowardBetween
  <1>2. CASE target <= q
    BY <1>2, TowardBetween
  <1>3. QED
    BY <1>1, <1>2

(* A confirmed direction moves the display by one, and only then. *)
LEMMA ConfirmedMoves ==
    ASSUME NEW f \in Filter, NEW d \in {-1, 0, 1}, f.displayed + d \in Percent
    PROVE  /\ Confirmed(f, d) \in Filter
           /\ Confirmed(f, d).on = f.on /\ Confirmed(f, d).filtered = f.filtered
           /\ Confirmed(f, d).displayed \in {f.displayed, f.displayed + d}
           /\ Confirmed(f, d).displayed # f.displayed =>
                 d = f.direction /\ f.samples + 1 = Confirm
           /\ Confirmed(f, d).direction = 1 =>
                 \/ d = f.direction /\ Confirmed(f, d).samples = f.samples + 1
                 \/ d = 1 /\ Confirmed(f, d).samples = 1
  <1> USE PowerAssumption
  <1> DEFINE g == Confirmed(f, d)
  <1>1. /\ f = [on |-> f.on, filtered |-> f.filtered, displayed |-> f.displayed,
                direction |-> f.direction, samples |-> f.samples]
        /\ f.on \in BOOLEAN /\ f.filtered \in 0 .. Full * One
        /\ f.displayed \in Percent /\ f.direction \in {-1, 0, 1}
        /\ f.samples \in 0 .. Confirm - 1
    BY DEF Filter
  <1>2. CASE d = 0
    <2>1. g = [f EXCEPT !.direction = 0, !.samples = 0]
      BY <1>2 DEF Confirmed
    <2>2. 0 \in 0 .. Confirm - 1
      OBVIOUS
    <2>3. QED
      BY <1>1, <1>2, <2>1, <2>2 DEF Filter
  <1>3. CASE d # 0 /\ d # f.direction
    <2>1. g = [f EXCEPT !.direction = d, !.samples = 1]
      BY <1>3 DEF Confirmed
    <2>2. 1 \in 0 .. Confirm - 1
      OBVIOUS
    <2>3. QED
      BY <1>1, <1>3, <2>1, <2>2 DEF Filter
  <1>4. CASE d # 0 /\ d = f.direction /\ f.samples + 1 < Confirm
    <2>1. g = [f EXCEPT !.samples = @ + 1]
      BY <1>4 DEF Confirmed
    <2>2. f.samples + 1 \in 0 .. Confirm - 1
      BY <1>1, <1>4
    <2>3. QED
      BY <1>1, <1>4, <2>1, <2>2 DEF Filter
  <1>5. CASE d # 0 /\ d = f.direction /\ ~ (f.samples + 1 < Confirm)
    <2>1. g = [f EXCEPT !.displayed = @ + d, !.direction = 0, !.samples = 0]
      BY <1>5 DEF Confirmed
    <2>2. 0 \in 0 .. Confirm - 1
      OBVIOUS
    <2>3. f.samples + 1 = Confirm
      BY <1>1, <1>5
    <2>4. g \in Filter
      BY <1>1, <2>1, <2>2 DEF Filter
    <2>5. /\ g.on = f.on /\ g.filtered = f.filtered /\ g.direction = 0
          /\ g.displayed = f.displayed + d
      BY <1>1, <2>1
    <2>6. QED
      BY <1>5, <2>3, <2>4, <2>5
  <1>6. QED
    BY <1>2, <1>3, <1>4, <1>5

(* One sample keeps the filter within the readings, and what it does to the *)
(* display and to a pending rise.                                           *)
LEMMA UpdateWithin ==
    ASSUME NEW f \in Filter, f.on,
           NEW lo \in Percent, NEW hi \in Percent, Within(f, lo, hi),
           NEW raw \in lo .. hi, NEW external \in BOOLEAN,
           NEW g, g = FilterUpdate(f, raw, external)
    PROVE  /\ g \in Filter /\ g.on /\ Within(g, lo, hi)
           /\ g.displayed > f.displayed =>
                 external /\ f.direction = 1 /\ f.samples + 1 = Confirm
           /\ g.direction = 1 =>
                 /\ external
                 /\ \/ f.direction = 1 /\ g.samples = f.samples + 1
                    \/ g.samples = 1
  <1> USE PowerAssumption DEF Percent
  <1>1. /\ raw \in Nat /\ lo \in Nat /\ hi \in Nat
        /\ f.filtered \in Nat /\ f.displayed \in Nat
        /\ lo <= raw /\ raw <= hi /\ hi <= Full
    BY DEF Filter
  <1>2. PICK q : q = Toward(f.filtered, raw * One)
    OBVIOUS
  <1>3. q \in Nat /\ lo * One <= q /\ q <= hi * One
    <2>1. raw * One \in Nat /\ lo * One \in Nat /\ hi * One \in Nat
      BY <1>1, Scaled
    <2>2. lo * One <= f.filtered /\ f.filtered <= hi * One
      BY DEF Within
    <2>3. lo * One <= raw * One /\ raw * One <= hi * One
      BY <1>1, Scaled
    <2>4. q \in Nat
      BY <1>1, <1>2, <2>1, TowardBetween
    <2>5. QED
      BY <1>1, <1>2, <2>1, <2>2, <2>3, <2>4, TowardWithin
  <1>4. PICK e : e = [f EXCEPT !.filtered = q]
    OBVIOUS
  <1>5. /\ e \in Filter /\ e.on /\ e.filtered = q /\ e.displayed = f.displayed
        /\ e.direction = f.direction /\ e.samples = f.samples
    <2>1. hi * One <= Full * One /\ Full * One \in Nat /\ hi * One \in Nat
      BY <1>1, Scaled
    <2>2. q \in 0 .. Full * One
      BY <1>3, <2>1
    <2>3. QED
      BY <1>4, <2>2 DEF Filter
  <1>6. PICK d : d = Wanted(f, q, external)
    OBVIOUS
  <1>7. d \in {-1, 0, 1}
    BY <1>6 DEF Wanted
  <1>8. ASSUME d = 1 PROVE f.displayed < hi /\ external
    <2>1. f.displayed * One + Hysteresis <= q /\ external
      BY <1>1, <1>3, <1>5, <1>6, <1>8, Scaled DEF Wanted
    <2>2. f.displayed * One < hi * One
      BY <1>1, <1>3, <2>1, Scaled
    <2>3. QED
      BY <1>1, <2>1, <2>2, Scaled
  <1>9. ASSUME d = -1 PROVE lo < f.displayed
    <2>1. q + Hysteresis <= f.displayed * One
      BY <1>1, <1>3, <1>5, <1>6, <1>9, Scaled DEF Wanted
    <2>2. lo * One < f.displayed * One
      BY <1>1, <1>3, <2>1, Scaled
    <2>3. QED
      BY <1>1, <2>2, Scaled
  <1>10. g = Confirmed(e, d)
    BY <1>2, <1>4, <1>6 DEF FilterUpdate
  <1>11. lo <= f.displayed /\ f.displayed <= hi
    BY DEF Within
  <1>12. e.displayed + d \in Percent
    BY <1>1, <1>5, <1>7, <1>8, <1>9, <1>11
  <1>13. /\ g \in Filter /\ g.on = e.on /\ g.filtered = q
         /\ g.displayed \in {f.displayed, f.displayed + d}
         /\ g.displayed # f.displayed =>
               d = f.direction /\ f.samples + 1 = Confirm
         /\ g.direction = 1 =>
               \/ d = f.direction /\ g.samples = f.samples + 1
               \/ d = 1 /\ g.samples = 1
    <2>1. /\ g \in Filter /\ g.on = e.on /\ g.filtered = e.filtered
          /\ g.displayed \in {e.displayed, e.displayed + d}
          /\ g.displayed # e.displayed =>
                d = e.direction /\ e.samples + 1 = Confirm
          /\ g.direction = 1 =>
                \/ d = e.direction /\ g.samples = e.samples + 1
                \/ d = 1 /\ g.samples = 1
      <3>1. e \in Filter /\ e.displayed + d \in Percent
        BY <1>5, <1>12
      <3>2. QED
        BY <1>7, <1>10, <3>1, ConfirmedMoves
    <2>2. QED
      BY <1>5, <2>1, Zenon
  <1>14. Within(g, lo, hi)
    BY <1>1, <1>3, <1>7, <1>8, <1>9, <1>11, <1>13 DEF Within
  <1>15. ASSUME g.displayed > f.displayed PROVE d = 1
    BY <1>1, <1>7, <1>13, <1>15
  <1>16. ASSUME g.direction = 1 PROVE d = 1
    <2>1. f.direction \in {-1, 0, 1} /\ g.samples \in 0 .. Confirm - 1
      BY <1>13 DEF Filter
    <2>2. QED
      BY <1>5, <1>7, <1>10, <1>13, <1>16, <2>1 DEF Confirmed, Filter
  <1>17. QED
    BY <1>1, <1>5, <1>8, <1>13, <1>14, <1>15, <1>16

-----------------------------------------------------------------------------

LEMMA SampledType ==
    ASSUME NEW fail \in SUBSET Sensors, supply \in Supply
    PROVE  Sampled(fail) \in [valid : BOOLEAN, external : BOOLEAN, usb : BOOLEAN]
  BY DEF Sampled, Supply

LEMMA FirstType ==
    ASSUME NEW raw \in Percent
    PROVE  First(raw) \in Filter
  <1>1. raw \in Nat /\ Full \in Nat /\ raw <= Full
    BY PowerAssumption DEF Percent
  <1>2. raw * One \in Nat /\ Full * One \in Nat /\ raw * One <= Full * One
    BY <1>1, Scaled
  <1>3. raw * One \in 0 .. Full * One
    BY <1>2
  <1>4. 0 \in 0 .. Confirm - 1
    BY PowerAssumption
  <1>5. QED
    BY <1>3, <1>4 DEF First, Filter

LEMMA FirstWithin ==
    ASSUME NEW raw \in Percent, NEW lo \in Percent, NEW hi \in Percent,
           lo <= raw, raw <= hi
    PROVE  Within(First(raw), lo, hi)
  <1>1. raw \in Nat /\ lo \in Nat /\ hi \in Nat
    BY PowerAssumption DEF Percent
  <1>2. QED
    BY <1>1, Scaled DEF First, Within

LEMMA WithinWider ==
    ASSUME NEW f \in Filter, NEW lo \in Percent, NEW hi \in Percent,
           NEW l \in Percent, NEW h \in Percent, l <= lo, hi <= h,
           Within(f, lo, hi)
    PROVE  Within(f, l, h)
  <1>1. lo \in Nat /\ hi \in Nat /\ l \in Nat /\ h \in Nat
    BY PowerAssumption DEF Percent
  <1>2. f.filtered \in Nat /\ f.displayed \in Nat
    BY PowerAssumption DEF Filter, Percent
  <1>3. /\ lo * One \in Nat /\ hi * One \in Nat /\ l * One \in Nat
        /\ h * One \in Nat /\ l * One <= lo * One /\ hi * One <= h * One
    BY <1>1, Scaled
  <1>4. QED
    BY <1>1, <1>2, <1>3 DEF Within

(* The filter's part of the inductive invariant. *)
FilterInv ==
    /\ filter.on => Within(filter, lowest, highest)
    /\ filter.direction = 1 => filter.samples <= powered

IInv == TypeOK /\ FilterInv

(* What a sample does to the filter and its history. *)
LEMMA SampleFilters ==
    ASSUME IInv, NEW external \in BOOLEAN, NEW raw \in Percent,
           filter' = FilterUpdate(filter, raw, external),
           lowest' = Lesser(lowest, raw), highest' = Greater(highest, raw),
           powered' = IF ~ external THEN 0 ELSE Lesser(powered + 1, Confirm)
    PROVE  /\ filter' \in Filter /\ lowest' \in Percent /\ highest' \in Percent
           /\ powered' \in 0 .. Confirm
           /\ FilterInv'
           /\ filter.on /\ filter'.displayed > filter.displayed
                => powered' = Confirm
  <1> USE PowerAssumption
  <1>1. /\ filter \in Filter /\ lowest \in Percent /\ highest \in Percent
        /\ powered \in 0 .. Confirm
    BY DEF IInv, TypeOK
  <1>2. /\ lowest' \in Percent /\ highest' \in Percent
        /\ lowest' <= lowest /\ highest <= highest'
        /\ lowest' <= raw /\ raw <= highest'
    BY <1>1 DEF Percent, Lesser, Greater
  <1>3. powered' \in 0 .. Confirm
    BY <1>1 DEF Lesser
  <1>4. CASE ~ filter.on
    <2>1. filter' = First(raw)
      BY <1>4 DEF FilterUpdate
    <2>2. filter'.direction = 0
      BY <2>1 DEF First
    <2>3. QED
      BY <1>2, <1>3, <1>4, <2>1, <2>2, FirstType, FirstWithin DEF FilterInv
  <1>5. CASE filter.on
    <2>1. Within(filter, lowest', highest')
      BY <1>1, <1>2, <1>5, WithinWider DEF IInv, FilterInv
    <2>2. raw \in lowest' .. highest'
      BY <1>2 DEF Percent
    <2>3. /\ filter' \in Filter /\ filter'.on
          /\ Within(filter', lowest', highest')
          /\ filter'.displayed > filter.displayed =>
                external /\ filter.direction = 1 /\ filter.samples + 1 = Confirm
          /\ filter'.direction = 1 =>
                /\ external
                /\ \/ filter.direction = 1
                      /\ filter'.samples = filter.samples + 1
                   \/ filter'.samples = 1
      BY <1>1, <1>2, <1>5, <2>1, <2>2, UpdateWithin
    <2>4. filter.samples \in 0 .. Confirm - 1 /\ filter'.samples \in 0 .. Confirm - 1
      BY <1>1, <2>3 DEF Filter
    <2>5. filter.direction = 1 => filter.samples <= powered
      BY DEF IInv, FilterInv
    <2>6. external => powered' = IF powered + 1 < Confirm THEN powered + 1
                                ELSE Confirm
      BY DEF Lesser
    <2>7. ASSUME filter'.direction = 1 PROVE filter'.samples <= powered'
      <3>1. external
        BY <2>3, <2>7
      <3>2. /\ powered \in Nat /\ Confirm \in Nat /\ filter.samples \in Nat
            /\ filter'.samples \in Nat /\ filter'.samples < Confirm
        BY <1>1, <2>4
      <3>3. \/ filter.direction = 1 /\ filter'.samples = filter.samples + 1
            \/ filter'.samples = 1
        BY <2>3, <2>7
      <3>4. filter'.samples <= powered + 1
        <4>1. CASE filter.direction = 1 /\ filter'.samples = filter.samples + 1
          <5>1. filter.samples <= powered
            BY <2>5, <4>1
          <5>2. QED
            BY <3>2, <4>1, <5>1
        <4>2. CASE filter'.samples = 1
          BY <3>2, <4>2
        <4>3. QED
          BY <3>3, <4>1, <4>2
      <3>5. \/ powered' = powered + 1
            \/ powered' = Confirm
        BY <2>6, <3>1
      <3>6. CASE powered' = powered + 1
        BY <3>4, <3>6
      <3>7. CASE powered' = Confirm
        BY <3>2, <3>7
      <3>8. QED
        BY <3>5, <3>6, <3>7
    <2>8. ASSUME filter'.displayed > filter.displayed PROVE powered' = Confirm
      <3>1. external /\ Confirm <= powered + 1
        BY <1>1, <2>3, <2>4, <2>5, <2>8
      <3>2. QED
        BY <1>1, <2>6, <3>1
    <2>9. QED
      BY <1>2, <1>3, <2>3, <2>7, <2>8 DEF FilterInv
  <1>6. QED
    BY <1>4, <1>5

-----------------------------------------------------------------------------
(* Type correctness and the filter, step by step.                          *)

LEMMA InitOK == Init => IInv
  <1> SUFFICES ASSUME Init PROVE IInv
    OBVIOUS
  <1> USE PowerAssumption
  <1>1. supply \in Supply /\ supply.level \in Percent /\ supply.level <= supply.level
    BY DEF Init, Supply, Percent
  <1>2. sampled \in [valid : BOOLEAN, external : BOOLEAN, usb : BOOLEAN]
    BY <1>1, SampledType DEF Init
  <1>3. 0 \in Percent /\ Full \in Percent
    BY DEF Percent
  <1>4. First(0) \in Filter /\ First(0).direction = 0
    BY <1>3, FirstType DEF First
  <1>5. filter \in Filter /\ filter.direction = 0
    <2>1. CASE sampled.valid
      BY <1>1, <2>1, FirstType DEF Init, First
    <2>2. CASE ~ sampled.valid
      BY <1>4, <2>2 DEF Init, Filter
    <2>3. QED
      BY <2>1, <2>2
  <1>6. FilterInv
    <2>1. CASE sampled.valid
      BY <1>1, <1>5, <2>1, FirstWithin DEF Init, FilterInv
    <2>2. CASE ~ sampled.valid
      <3>1. ~ filter.on
        BY <1>4, <2>2 DEF Init, Filter
      <3>2. QED
        BY <1>5, <3>1 DEF FilterInv
    <2>3. QED
      BY <2>1, <2>2
  <1>7. app \in AppPower
    <2>1. filter.displayed \in Percent
      BY <1>5 DEF Filter
    <2>2. QED
      BY <1>2, <2>1 DEF Init, AppPower, Light
  <1>8. /\ lowest \in Percent /\ highest \in Percent /\ powered \in 0 .. Confirm
        /\ since \in 0 .. 1 /\ idle \in 0 .. Low + 1
        /\ changes \in 0 .. MaxChanges /\ presses \in 0 .. MaxPresses
        /\ faults \in 0 .. MaxFaults
    BY <1>1, <1>3 DEF Init
  <1>9. /\ ui \in AppPower /\ copy \in [Task -> AppPower]
        /\ pc \in [Task -> {"wait", "store", "copy", "update"}]
        /\ dirty \in BOOLEAN /\ failed \in BOOLEAN /\ lit \in Light
    BY <1>7 DEF Init, Light
  <1>10. QED
    BY <1>1, <1>2, <1>5, <1>6, <1>7, <1>8, <1>9 DEF IInv, TypeOK

LEMMA StepOK == IInv /\ [Next]_vars => IInv'
  <1> SUFFICES ASSUME IInv, [Next]_vars PROVE IInv'
    OBVIOUS
  <1> USE PowerAssumption DEF IInv
  <1>1. TypeOK /\ FilterInv
    OBVIOUS
  <1>2. ASSUME NEW s \in Supply, SupplyChanges(s) PROVE IInv'
    BY <1>1, <1>2 DEF SupplyChanges, TypeOK, FilterInv, filterVars, panelVars
  <1>3. ASSUME NEW fail \in SUBSET Sensors, Sample(fail) PROVE IInv'
    <2>1. sampled' \in [valid : BOOLEAN, external : BOOLEAN, usb : BOOLEAN]
      BY <1>1, <1>3, SampledType DEF Sample, TypeOK
    <2>2. supply.level \in Percent
      BY <1>1 DEF TypeOK, Supply
    <2>3. /\ filter' \in Filter /\ lowest' \in Percent /\ highest' \in Percent
          /\ powered' \in 0 .. Confirm /\ FilterInv'
      <3>1. CASE sampled'.valid
        BY <1>1, <1>3, <2>1, <2>2, <3>1, SampleFilters DEF Sample
      <3>2. CASE ~ sampled'.valid
        BY <1>1, <1>3, <3>2 DEF Sample, TypeOK, FilterInv, filterVars
      <3>3. QED
        BY <3>1, <3>2
    <2>4. faults' \in 0 .. MaxFaults /\ since' \in 0 .. 1
      BY <1>1, <1>3 DEF Sample, TypeOK
    <2>5. pc' \in [Task -> {"wait", "store", "copy", "update"}]
      BY <1>1, <1>3 DEF Sample, TypeOK
    <2>6. QED
      BY <1>1, <1>3, <2>1, <2>3, <2>4, <2>5
         DEF Sample, TypeOK, envVars, panelVars
  <1>4. ASSUME Store PROVE IInv'
    <2>1. PercentForIdle(Elapsed, sampled.external) \in Light
      BY DEF PercentForIdle, Light
    <2>2. app' \in AppPower
      BY <1>1, <1>4, <2>1 DEF Store, TypeOK, AppPower, Filter
    <2>3. QED
      BY <1>1, <1>4, <2>2
         DEF Store, TypeOK, FilterInv, envVars, filterVars, panelVars
  <1>5. ASSUME Press PROVE IInv'
    <2>1. app' \in AppPower
      BY <1>1, <1>5 DEF Press, TypeOK, AppPower, Light
    <2>2. presses' \in 0 .. MaxPresses /\ idle' \in 0 .. Low + 1
      BY <1>1, <1>5 DEF Press, TypeOK
    <2>3. QED
      BY <1>1, <1>5, <2>1, <2>2
         DEF Press, TypeOK, FilterInv, envVars, filterVars, panelVars
  <1>6. ASSUME NEW t \in Task, Copy(t) PROVE IInv'
    BY <1>1, <1>6 DEF Copy, TypeOK, FilterInv, envVars, filterVars, panelVars
  <1>7. ASSUME NEW t \in Task, Update(t) PROVE IInv'
    <2>1. ui' \in AppPower /\ since' \in 0 .. 1
      BY <1>1, <1>7 DEF Update, TypeOK
    <2>2. QED
      BY <1>1, <1>7, <2>1
         DEF Update, TypeOK, FilterInv, envVars, filterVars, panelVars
  <1>8. ASSUME NEW ok \in BOOLEAN, Render(ok) PROVE IInv'
    <2>1. lit' \in Light /\ faults' \in 0 .. MaxFaults
      BY <1>1, <1>8 DEF Render, TypeOK, AppPower
    <2>2. QED
      BY <1>1, <1>8, <2>1 DEF Render, TypeOK, FilterInv, envVars, filterVars
  <1>9. ASSUME Tick PROVE IInv'
    <2>1. idle' \in 0 .. Low + 1
      BY <1>1, <1>9 DEF Tick, TypeOK, Lesser
    <2>2. QED
      BY <1>1, <1>9, <2>1
         DEF Tick, TypeOK, FilterInv, envVars, filterVars, panelVars
  <1>10. ASSUME UNCHANGED vars PROVE IInv'
    BY <1>1, <1>10 DEF vars, TypeOK, FilterInv, envVars, filterVars, panelVars
  <1>11. QED
    BY <1>2, <1>3, <1>4, <1>5, <1>6, <1>7, <1>8, <1>9, <1>10 DEF Next

(* Every variable keeps its type. *)
THEOREM TypeCorrect == Spec => []TypeOK
  <1>1. Spec => []IInv
    BY InitOK, StepOK, PTL DEF Spec
  <1>2. IInv => TypeOK
    BY DEF IInv
  <1>3. QED
    BY <1>1, <1>2, PTL

(* The percentage on the display stays within the range of the readings. *)
THEOREM DisplayStaysWithin == Spec => []NoOvershoot
  <1>1. Spec => []IInv
    BY InitOK, StepOK, PTL DEF Spec
  <1>2. IInv => NoOvershoot
    BY PowerAssumption
       DEF IInv, TypeOK, FilterInv, Within, NoOvershoot, Filter, Percent
  <1>3. QED
    BY <1>1, <1>2, PTL

(* The percentage rises only on readings taken under external power. *)
THEOREM RiseMeansCharging == Spec => RisesOnlyCharging
  <1>1. Spec => []IInv
    BY InitOK, StepOK, PTL DEF Spec
  <1>2. IInv /\ [Next]_vars =>
          [filter.on /\ filter'.displayed > filter.displayed
             => powered' = Confirm]_vars
    <2> SUFFICES ASSUME IInv, Next, filter.on,
                        filter'.displayed > filter.displayed
                 PROVE  powered' = Confirm
      BY DEF vars
    <2>1. ASSUME filter' = filter PROVE FALSE
      BY <2>1, PowerAssumption DEF IInv, TypeOK, Filter, Percent
    <2>2. ASSUME NEW fail \in SUBSET Sensors, Sample(fail)
          PROVE  powered' = Confirm
      <3>1. sampled' \in [valid : BOOLEAN, external : BOOLEAN, usb : BOOLEAN]
        BY <2>2, SampledType DEF Sample, IInv, TypeOK
      <3>2. sampled'.valid
        BY <2>1, <2>2 DEF Sample, filterVars
      <3>3. supply.level \in Percent
        BY DEF IInv, TypeOK, Supply
      <3>4. QED
        BY <2>2, <3>1, <3>2, <3>3, SampleFilters DEF Sample
    <2>3. QED
      BY <2>1, <2>2 DEF Next, SupplyChanges, Store, Press, Copy, Update, Render,
                        Tick, filterVars
  <1>3. QED
    BY <1>1, <1>2, PTL DEF Spec, RisesOnlyCharging

-----------------------------------------------------------------------------
(* Light.  Until the delay is over the state asks for full light; a copy    *)
(* that is older than the press is the one of a round that was under way,   *)
(* and the next round, at most two steps later, corrects it.                *)

Round == IF pc["state"] = "wait" THEN 1 ELSE 2

LightInv ==
    /\ idle < Dim => app.light = 100
    /\ pc["input"] # "wait" => idle = 0
    /\ pc["input"] = "update" => copy["input"].light = 100
    /\ pc["state"] = "update" /\ idle < Dim /\ copy["state"].light # 100
         => idle <= since
    /\ idle < Dim /\ ui.light # 100 => idle <= since + Round
    /\ ~ dirty /\ ~ failed => lit = ui.light
    /\ idle < Dim /\ ~ failed /\ lit # 100 => idle <= 3

LEMMA LightInit == Init => LightInv
  <1> USE PowerAssumption
  <1>1. ASSUME Init PROVE LightInv
    <2>1. /\ app.light = 100 /\ lit = 100 /\ ui = app
          /\ pc["input"] = "wait" /\ pc["state"] = "wait"
      BY <1>1 DEF Init, Task
    <2>2. QED
      BY <2>1 DEF LightInv
  <1>2. QED
    BY <1>1

LEMMA LightStep == IInv /\ LightInv /\ [Next]_vars => LightInv'
  <1> SUFFICES ASSUME IInv, LightInv, [Next]_vars PROVE LightInv'
    OBVIOUS
  <1> USE PowerAssumption DEF Task
  <1>1. /\ since \in 0 .. 1 /\ idle \in Nat /\ Dim \in Nat
        /\ pc \in [Task -> {"wait", "store", "copy", "update"}]
        /\ app \in AppPower /\ ui \in AppPower /\ copy \in [Task -> AppPower]
        /\ dirty \in BOOLEAN /\ failed \in BOOLEAN
    BY DEF IInv, TypeOK
  <1>2. ASSUME NEW s \in Supply, SupplyChanges(s) PROVE LightInv'
    BY <1>2 DEF SupplyChanges, LightInv, Round, panelVars
  <1>3. ASSUME NEW fail \in SUBSET Sensors, Sample(fail) PROVE LightInv'
    BY <1>1, <1>3 DEF Sample, LightInv, Round, panelVars
  <1>4. ASSUME Store PROVE LightInv'
    <2>1. ASSUME idle < Dim PROVE app'.light = 100
      <3>1. Elapsed < Dim
        BY <1>1, <2>1 DEF Elapsed
      <3>2. QED
        BY <1>4, <3>1 DEF Store, PercentForIdle
    <2>2. QED
      BY <1>1, <1>4, <2>1 DEF Store, LightInv, Round, panelVars
  <1>5. ASSUME Press PROVE LightInv'
    <2>1. idle' = 0 /\ app'.light = 100
      BY <1>1, <1>5 DEF Press, AppPower
    <2>2. QED
      BY <1>1, <1>5, <2>1 DEF Press, LightInv, Round, panelVars
  <1>6. ASSUME NEW t \in Task, Copy(t) PROVE LightInv'
    BY <1>1, <1>6 DEF Copy, LightInv, Round, panelVars
  <1>7. ASSUME NEW t \in Task, Update(t) PROVE LightInv'
    <2>1. CASE t = "state"
      BY <1>1, <1>7, <2>1 DEF Update, LightInv, Round, panelVars
    <2>2. CASE t = "input"
      BY <1>1, <1>7, <2>2 DEF Update, LightInv, Round, panelVars
    <2>3. QED
      BY <2>1, <2>2
  <1>8. ASSUME NEW ok \in BOOLEAN, Render(ok) PROVE LightInv'
    BY <1>1, <1>8 DEF Render, LightInv, Round
  <1>9. ASSUME Tick PROVE LightInv'
    <2>1. idle' = idle \/ idle' = idle + 1
      BY <1>1, <1>9 DEF Tick, Lesser, IInv, TypeOK
    <2>2. idle' >= idle /\ idle' \in Nat
      BY <1>1, <2>1
    <2>3. QED
      BY <1>1, <1>9, <2>1, <2>2 DEF Tick, LightInv, Round, panelVars
  <1>10. ASSUME UNCHANGED vars PROVE LightInv'
    BY <1>10 DEF vars, LightInv, Round, panelVars
  <1>11. QED
    BY <1>2, <1>3, <1>4, <1>5, <1>6, <1>7, <1>8, <1>9, <1>10 DEF Next

(* A press is followed by full light, whatever was published last. *)
THEOREM PressLights == Spec => []LitAfterPress
  <1>1. Spec => [](IInv /\ LightInv)
    BY InitOK, StepOK, LightInit, LightStep, PTL DEF Spec
  <1>2. IInv /\ LightInv => LitAfterPress
    BY PowerAssumption DEF IInv, TypeOK, LightInv, LitAfterPress
  <1>3. QED
    BY <1>1, <1>2, PTL
=============================================================================
