---------------------------- MODULE PowerDisplay ----------------------------
(***************************************************************************)
(* Battery and backlight from the power chip to the panel: the once-a-     *)
(* second round of state_task and its filter (app_main.cpp,                *)
(* microstick_state_model.c), the activity callback of the input task, the *)
(* copies both publish and the LVGL task that draws the last one           *)
(* (microstick_ui.cpp).  AppState has the other fields of the same copies. *)
(*                                                                         *)
(* A clock step is one period of the state task.  A round ends at most one *)
(* step after it read the clock; the other tasks finish within a step.     *)
(* Bring-up, where the panel is dark until it was drawn once, is left out. *)
(***************************************************************************)
EXTENDS Integers

CONSTANTS
    Full,         \* 100 percent
    One,          \* one percent in the filter's fixed point: 1 << 8
    Hysteresis,   \* BATTERY_HYSTERESIS_Q8
    Confirm,      \* BATTERY_CHANGE_CONFIRM_SAMPLES
    Dim, Low,     \* MICROSTICK_BACKLIGHT_*_DELAY_MS, in clock steps
    MaxChanges,   \* bound on changes of the supply
    MaxPresses,   \* bound on presses
    MaxFaults     \* bound on calls of the board and of the driver that fail

ASSUME PowerAssumption ==
    /\ Full \in Nat \ {0} /\ One \in Nat \ {0}
    /\ Hysteresis \in 1 .. One
    /\ Confirm \in Nat \ {0, 1}
    /\ Dim \in Nat \ {0} /\ Low \in Nat /\ Dim < Low
    /\ MaxChanges \in Nat /\ MaxPresses \in Nat /\ MaxFaults \in Nat

VARIABLES
    supply,       \* the chip: battery level, charging, USB power
    filter,       \* s_battery_filter
    sampled,      \* locals of state_task's round
    since,        \* steps since the round read the clock or ended
    idle,         \* steps since s_last_activity_ms, saturating past Low
    app,          \* s_state of app_main
    pc, copy,     \* what each task does next, and publish_ui's copy
    ui, dirty,    \* s_state and s_dirty of the UI
    lit, failed,  \* the panel's light; its last change was refused
    changes, presses, faults,
    lowest, highest, \* history: range of the readings the filter was given
    powered       \* history: latest readings in a row under external power

envVars == <<supply, changes>>
filterVars == <<filter, lowest, highest, powered>>
panelVars == <<lit, failed>>
vars == <<envVars, filterVars, panelVars, sampled, since, idle, app, pc, copy,
          ui, dirty, presses, faults>>

Task == {"state", "input"}
Percent == 0 .. Full
Light == {20, 50, 100}
Supply == [level : Percent, charge : BOOLEAN, usb : BOOLEAN]
Filter == [on : BOOLEAN, filtered : 0 .. Full * One, displayed : Percent,
           direction : {-1, 0, 1}, samples : 0 .. Confirm - 1]
AppPower == [valid : BOOLEAN, percent : Percent, charging : BOOLEAN,
             usb : BOOLEAN, light : Light]

(* Types, and the range of every bounded counter. *)
TypeOK ==
    /\ supply \in Supply
    /\ filter \in Filter
    /\ sampled \in [valid : BOOLEAN, external : BOOLEAN, usb : BOOLEAN]
    /\ since \in 0 .. 1
    /\ idle \in 0 .. Low + 1
    /\ app \in AppPower /\ ui \in AppPower
    /\ pc \in [Task -> {"wait", "store", "copy", "update"}]
    /\ copy \in [Task -> AppPower]
    /\ dirty \in BOOLEAN /\ failed \in BOOLEAN /\ lit \in Light
    /\ changes \in 0 .. MaxChanges /\ presses \in 0 .. MaxPresses
    /\ faults \in 0 .. MaxFaults
    /\ lowest \in Percent /\ highest \in Percent
    /\ powered \in 0 .. Confirm

-----------------------------------------------------------------------------
(* The battery filter.                                                     *)

(* One sample moves the filtered value an eighth of the way, and at least  *)
(* one unit while there is a way to go.                                    *)
Step_Truncates(way) == way \div 8

Step(way) == IF way < 8 THEN 1 ELSE way \div 8
Toward(q, target) ==
    IF q < target THEN q + Step(target - q)
    ELSE IF q > target THEN q - Step(q - target)
    ELSE q

(* The direction in which the display wants to move, 0 for none. *)
Wanted_NoMargin(f, q, external) ==
    IF f.displayed < Full /\ q >= f.displayed * One
    THEN IF external THEN 1 ELSE 0
    ELSE IF f.displayed > 0 /\ q + Hysteresis <= f.displayed * One
    THEN -1
    ELSE 0

Wanted(f, q, external) ==
    IF f.displayed < Full /\ q >= f.displayed * One + Hysteresis
    THEN IF external THEN 1 ELSE 0
    ELSE IF f.displayed > 0 /\ q + Hysteresis <= f.displayed * One
    THEN -1
    ELSE 0

(* It moves by one percent when Confirm samples in a row agree. *)
Confirmed_KeepsPending(f, direction) ==
    IF direction = 0
    THEN f
    ELSE IF direction # f.direction
    THEN [f EXCEPT !.direction = direction, !.samples = 1]
    ELSE IF f.samples + 1 < Confirm
    THEN [f EXCEPT !.samples = @ + 1]
    ELSE [f EXCEPT !.displayed = @ + direction, !.direction = 0, !.samples = 0]

Confirmed_Early(f, direction) ==
    IF direction = 0
    THEN [f EXCEPT !.direction = 0, !.samples = 0]
    ELSE IF direction # f.direction
    THEN [f EXCEPT !.direction = direction, !.samples = 1]
    ELSE IF f.samples + 2 < Confirm
    THEN [f EXCEPT !.samples = @ + 1]
    ELSE [f EXCEPT !.displayed = @ + direction, !.direction = 0, !.samples = 0]

Confirmed(f, direction) ==
    IF direction = 0
    THEN [f EXCEPT !.direction = 0, !.samples = 0]
    ELSE IF direction # f.direction
    THEN [f EXCEPT !.direction = direction, !.samples = 1]
    ELSE IF f.samples + 1 < Confirm
    THEN [f EXCEPT !.samples = @ + 1]
    ELSE [f EXCEPT !.displayed = @ + direction, !.direction = 0, !.samples = 0]

First(raw) == [on |-> TRUE, filtered |-> raw * One, displayed |-> raw,
               direction |-> 0, samples |-> 0]

FilterUpdate(f, raw, external) ==
    IF ~ f.on
    THEN First(raw)
    ELSE LET q == Toward(f.filtered, raw * One)
         IN  Confirmed([f EXCEPT !.filtered = q], Wanted(f, q, external))

-----------------------------------------------------------------------------
(* The light that an idle time deserves. *)
PercentForIdle(steps, external) ==
    IF external \/ steps < Dim THEN 100 ELSE IF steps < Low THEN 50 ELSE 20

(* elapsed_ms: the last press may be later than the clock that was read. *)
Elapsed_Unsigned == IF idle >= since THEN idle - since ELSE Low

Elapsed == IF idle > since THEN idle - since ELSE 0

(* stick_s3_board_battery and _usb_powered; "fail" names the calls that do. *)
Sampled(fail) ==
    LET usb == supply.usb /\ "usb" \notin fail
        valid == "battery" \notin fail
    IN  [valid |-> valid, usb |-> usb, external |-> usb \/ (valid /\ supply.charge)]

Sensors == {"battery", "usb"}
Lesser(a, b) == IF a < b THEN a ELSE b
Greater(a, b) == IF a > b THEN a ELSE b

Init ==
    /\ supply \in Supply
    /\ \E fail \in SUBSET Sensors : sampled = Sampled(fail)
    /\ filter = IF sampled.valid THEN First(supply.level)
                ELSE [First(0) EXCEPT !.on = FALSE]
    /\ lowest = IF sampled.valid THEN supply.level ELSE Full
    /\ highest = IF sampled.valid THEN supply.level ELSE 0
    /\ powered = IF sampled.valid /\ sampled.external THEN 1 ELSE 0
    /\ since = 1 /\ idle = 0
    /\ app = [valid |-> sampled.valid, percent |-> filter.displayed,
              charging |-> sampled.valid /\ sampled.external,
              usb |-> sampled.usb, light |-> 100]
    /\ pc = [t \in Task |-> "wait"]
    /\ copy = [t \in Task |-> app] /\ ui = app /\ dirty = FALSE
    /\ lit = 100 /\ failed = FALSE
    /\ changes = 0 /\ presses = 0 /\ faults = 0

SupplyChanges(s) ==
    /\ changes < MaxChanges /\ s # supply
    /\ supply' = s /\ changes' = changes + 1
    /\ UNCHANGED <<filterVars, panelVars, sampled, since, idle, app, pc, copy,
                   ui, dirty, presses, faults>>

-----------------------------------------------------------------------------
(* state_task: sample and filter, then read the clock... *)
Sample(fail) ==
    /\ pc["state"] = "wait" /\ since = 1
    /\ fail # {} => faults < MaxFaults
    /\ faults' = IF fail = {} THEN faults ELSE faults + 1
    /\ sampled' = Sampled(fail)
    /\ IF sampled'.valid
       THEN /\ filter' = FilterUpdate(filter, supply.level, sampled'.external)
            /\ lowest' = Lesser(lowest, supply.level)
            /\ highest' = Greater(highest, supply.level)
            /\ powered' = IF ~ sampled'.external THEN 0
                          ELSE Lesser(powered + 1, Confirm)
       ELSE UNCHANGED filterVars
    /\ since' = 0
    /\ pc' = [pc EXCEPT !["state"] = "store"]
    /\ UNCHANGED <<envVars, panelVars, idle, app, copy, ui, dirty, presses>>

(* ...then store it all under the lock; the idle time is computed there. *)
Store ==
    /\ pc["state"] = "store"
    /\ app' = [valid |-> sampled.valid,
               percent |-> IF sampled.valid THEN filter.displayed
                           ELSE app.percent,
               charging |-> sampled.external, usb |-> sampled.usb,
               light |-> PercentForIdle(Elapsed, sampled.external)]
    /\ pc' = [pc EXCEPT !["state"] = "copy"]
    /\ UNCHANGED <<envVars, filterVars, panelVars, sampled, since, idle, copy,
                   ui, dirty, presses, faults>>

(* input_activity: a key went down. *)
Press ==
    /\ pc["input"] = "wait" /\ presses < MaxPresses
    /\ presses' = presses + 1
    /\ idle' = 0 /\ app' = [app EXCEPT !.light = 100]
    /\ pc' = [pc EXCEPT !["input"] = "copy"]
    /\ UNCHANGED <<envVars, filterVars, panelVars, sampled, since, copy, ui,
                   dirty, faults>>

(* publish_ui: copy under one lock, microstick_ui_update under another. *)
Copy(t) ==
    /\ pc[t] = "copy"
    /\ copy' = [copy EXCEPT ![t] = app]
    /\ pc' = [pc EXCEPT ![t] = "update"]
    /\ UNCHANGED <<envVars, filterVars, panelVars, sampled, since, idle, app,
                   ui, dirty, presses, faults>>

Update(t) ==
    /\ pc[t] = "update"
    /\ ui' = copy[t] /\ dirty' = TRUE
    /\ pc' = [pc EXCEPT ![t] = "wait"]
    /\ since' = IF t = "state" THEN 0 ELSE since
    /\ UNCHANGED <<envVars, filterVars, panelVars, sampled, idle, app, copy,
                   presses, faults>>

(* render_timer, apply_state and apply_backlight.  The driver may refuse a  *)
(* new duty; any later redraw tries again.                                  *)
Render(ok) ==
    /\ dirty \/ failed
    /\ dirty' = FALSE
    /\ ~ ok => ui.light # lit /\ faults < MaxFaults
    /\ faults' = IF ok THEN faults ELSE faults + 1
    /\ lit' = IF ok THEN ui.light ELSE lit
    /\ failed' = ~ ok
    /\ UNCHANGED <<envVars, filterVars, sampled, since, idle, app, pc, copy, ui,
                   presses>>

Tick ==
    /\ since = 0
    /\ pc["input"] = "wait" /\ ~ dirty
    /\ since' = 1
    /\ idle' = Lesser(idle + 1, Low + 1)
    /\ UNCHANGED <<envVars, filterVars, panelVars, sampled, app, pc, copy, ui,
                   dirty, presses, faults>>

Next ==
    \/ \E s \in Supply : SupplyChanges(s)
    \/ \E fail \in SUBSET Sensors : Sample(fail)
    \/ Store \/ Press
    \/ \E t \in Task : Copy(t) \/ Update(t)
    \/ \E ok \in BOOLEAN : Render(ok)
    \/ Tick

Spec == Init /\ [][Next]_vars

(* Each task is scheduled and time passes. *)
FairSpec ==
    /\ Spec
    /\ WF_vars(\E fail \in SUBSET Sensors : Sample(fail))
    /\ WF_vars(Store)
    /\ \A t \in Task : WF_vars(Copy(t) \/ Update(t))
    /\ WF_vars(dirty /\ \E ok \in BOOLEAN : Render(ok))
    /\ WF_vars(Tick)

-----------------------------------------------------------------------------
(* However the readings jump, the display stays within their range: neither *)
(* the rounding of the filter nor its hysteresis carries it past a reading. *)
NoOvershoot == filter.on => filter.displayed \in lowest .. highest

(* A rising percentage means charging: it rises only when the latest        *)
(* Confirm readings were all taken under external power; a load that goes   *)
(* away, or a charger that was there for a moment, does not lift it.        *)
RisesOnlyCharging ==
    [][filter.on /\ filter'.displayed > filter.displayed
         => powered' = Confirm]_vars

(* The state task that is about to dim never wins over a press: until the   *)
(* delay has passed the state asks for full light, and three steps after    *)
(* the press at the latest the panel has it, whatever copy was published    *)
(* last, unless the driver refused the latest change.                       *)
LitAfterPress ==
    idle < Dim => /\ app.light = 100
                  /\ idle > 3 /\ ~ failed => lit = 100

(* Once the supply and the keys are left alone, the screen settles: on the  *)
(* reading, or below a reading that nothing charges; and at the light that  *)
(* the power source and the idle time ask for.                              *)
Settled ==
    LET external == supply.charge \/ supply.usb
    IN  /\ ui.valid /\ ui.percent = filter.displayed
        /\ \/ ui.percent = supply.level
           \/ ui.percent < supply.level /\ ~ external
        /\ ui.charging = external /\ ui.usb = supply.usb
        /\ lit = IF external THEN 100 ELSE 20
Settles == <>[]Settled
=============================================================================
