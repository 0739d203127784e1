# MicroStick: formal models, checks and proofs

MicroStick turns an M5Stack StickS3 into a two-button Codex controller: a
firmware (`firmware/sticks3`, C and C++ on FreeRTOS) that speaks the Codex Micro
protocol over BLE HID, captures the microphone over USB, and shows account usage
that a small macOS application (`app/macos`, Swift) sends over a private GATT
service. This directory holds TLA+ models of the parts where the logic is hard,
the TLC configurations that check them, and TLAPS proofs of the properties that
matter most. Paths below are relative to the repository root.

Run everything from this directory: `tlc -config X.cfg M` for a run of the table
below, `tlapm M_proof.tla` for a proof module.

## 1. Inventory

### 1.1 Components, their state and operations

| component | state it keeps | operations | where |
|---|---|---|---|
| two-button gesture recogniser | per key: sampled and debounced level, edge and press times, "long fired", "consumed"; pending click and its deadline; double-click candidate; forwarded microphone; menu page, indices and deadline; Agent mask and selection | `init`, `update` (side key, front key, holds, pending Send, menu timeout), `cancel`, `set_agents` | `firmware/sticks3/components/two_button_input` |
| input controller | claim of the microphone, voice sequence, host confirmation, displayed voice state and deadline, cancel request | input task loop, gesture callbacks, deadlines, link and host-voice handlers | `firmware/sticks3/app/input` |
| Micro action control, action tracker | which actions were sent as pressed; Agent slots and selection | send, click, release all, connect/disconnect, lighting handlers | `firmware/sticks3/app/micro`, `components/micro_action_tracker` |
| state model | none (pure functions on states of their callers) | host-voice start and terminal guards, meaning of a slot, host selection, Roxy and its completion hold, battery filter, backlight policy, layout choice | `components/microstick_state_model` |
| Usage service on the device | one reassembler, the snapshot, its sync time, the NVS blob | frame write, disconnect, prepare after boot, stale poll, copy out | `app/usage` |
| application state | the UI state and its lock, the battery filter, the time of the last activity | `state_task`, `usage_update`, `micro_event`, `input_ui_update`, `input_activity`, `publish_ui` | `app/app_main.cpp` |
| user interface | a copy of the UI state, the "redraw" flag, Roxy's state and completion hold, the applied light | `microstick_ui_update`, the LVGL task's `render` | `app/ui/microstick_ui.cpp` |
| JSON/RPC codec | connected flag, report assembly, RPC dispatch | transport connected/disconnected, report in, input events out | `components/codex_control` |
| BLE HID transport | the set of (at most two) connections, readiness flags, advertising, connected flag, send mutex, Escape single flight | GAP, GATTS and HID callbacks, send reports, Escape task | `components/codex_transport_ble_espidf` |
| HID device role | which link claimed the device, event queue, semaphore of the confirmation | claim, write, disconnect, confirmation, send report | `components/esp_hid/src/ble_hidd.c` (the repository's changed copy) |
| USB microphone and tones | stream and mute flags, sample FIFO, PTT flag, tone queue | UAC callbacks, capture task, tone task | `app/audio` |
| USB audio class | which interface is open, the chunk being written and the one being sent, the notification of its task | bus and interface callbacks, microphone task, endpoint interrupt | `components/usb_device_uac` (the repository's changed copy) |
| board support | the power chip behind it | battery level, charging and VIN readings, each of which may fail | `app/board` |
| Mac Bluetooth client | connection state, retry timer, latest and active payload, frames to write, delivery gate | `start`, `stop`, `update`, `heartbeat`, `recoverAfterWake`, CoreBluetooth callbacks, retry | `MicroStickUsageBluetooth` |
| Mac Codex app-server client | child process, the request under way and its timeout, postponed refresh, read buffer, retry timer | `start`, `stop`, `refresh`, `recoverAfterWake`, output and exit of the process, timeout, retry | `MicroStickUsageCodex` |
| Mac sync controller | last accepted snapshot, disk cache, periodic timer | accept, mark stale, hand to the Bluetooth client, refresh and heartbeat | `MicroStickUsageCore`, `UsageSync` |

The Mac parser and byte codecs, the Mac process entry, and assets, tools and
scripts are listed in `PROJECT.json` with the reason they are not modelled.

### 1.2 How they interact

```
buttons -> recogniser -> input controller -> Micro action control -> codec -> BLE HID -> host
                              ^   |                    ^                        |
                              |   +-- PTT flag --> microphone, tones            |
                              +------- host voice, disconnect, Agents <---------+
Codex app-server -> Mac client -> sync controller -> Bluetooth client
                                                          | two ATT frames
                              display <- application state <- Usage service <-> NVS
```

* The **input task** polls the buttons, runs one recogniser pass and, from
  inside it, every gesture callback, which takes the controller's lock, sends
  over the link and changes the PTT flag.
* **HID events** run one after the other on the event-loop task of `esp_hid`
  (`ble_hidd_events`): connect, disconnect and lighting change the tracker, the
  voice state and the cancel request the input task also uses. The locks cover
  single sections, not whole handlers.
* **Usage frames** are handled on the Bluetooth task; the **state task** polls
  once a second, ages the snapshot, filters the battery and copies Agent table,
  usage and voice display to the screen. The loop task and the input task publish
  too: whoever does copies the UI state under the lock and hands the copy over
  outside it, and the **LVGL task** draws the last one it was handed.
* The **capture task** fills the FIFO, the **UAC task** empties it into a double
  buffer, the endpoint's interrupt sends that, and the **TinyUSB task** opens and
  closes the stream under all of them. Tones are asked for by several tasks and
  played by the **tone task**; the PTT flag is what ties both to the input side.
* **Bluetooth events** reach the device on the stack's task, which hands the
  HID ones to the event loop through a queue and waits when that is full. Three
  tasks send reports (the event loop answers requests, the input task sends
  actions, the Escape task the cancel fallback) under one mutex and one semaphore.
* On the Mac the Bluetooth client, the app-server client and the controller each
  have a serial queue of their own, so the handlers of one of them never overlap;
  what varies is the order in which calls, timers, callbacks and output reach the
  queue, and what an earlier connection or process still has on it.

### 1.3 What is hard, and what makes each part correct

The complete list, with lines, is `hazards` in `PROJECT.json`. In short:

* *recogniser*: long sequences of legal presses across page changes, timeouts
  and cancels. Correct when a side press acts only where it was made, Decline
  needs a press of its own, a forwarded microphone always ends with the key, and
  a pending click is resolved exactly once and in time.
* *controller and action control*: two tasks change one voice state, one tracker
  and one flag, with transmissions in between that can fail. Correct when the
  tracker says what the host holds, "written" is shown only after the host's
  confirmation, tones are suppressed under a hold, nothing remains processing,
  and no press stays at the host without a hold behind it.
* *Usage service*: halves repeated, mixed, damaged or cut off; power loss between
  the NVS write and the update; two tasks publishing to one display. Correct when
  only whole messages are kept, time never goes back, restored data is not live,
  and the display converges.
* *BLE transport*: links come and go in any order, each event is delivered to two
  applications, two tasks decide about advertising from values they read before,
  and reports, confirmations and the host's writes share queues. Correct when
  the slots are the links, a device with a free slot can be found, no link loses
  its place to another, and a sender is woken by its own confirmation.
* *Mac clients*: late callbacks of a cancelled connection, late output of a
  process that was given up, timers and wake-ups. Correct when the client never
  waits for something nobody owes, no update or refresh is lost, nothing of an
  earlier process is published, and the client recovers.
* *the Usage path as a whole*: two clocks of freshness, heartbeats, a cache, a
  reassembler that two centrals share, sleep and restarts on both sides. Correct
  when the value on the device never runs ahead of what was observed, goes back
  only in a restart, is live only after a recent observation, and catches up.
* *application state and screen*: three tasks publish copies of three tables,
  each behind a lock of its own; a wrapping clock takes a completion down; a
  filter in fixed point decides what the battery shows; idle time is computed
  from a clock read before the lock. Correct when the screen settles on the
  tables, a completion is shown once, the percentage stays within its readings
  and rises only while charging, and a press lights the panel.
* *audio*: a FIFO cleared against its producer, streams opened and closed under
  two tasks, a tone asked for just before PTT. Correct when a new stream carries
  at most a fixed amount of old sound, PTT silences what was queued, and an open
  stream never stalls.

## 2. Modules

| module | models | state and actions |
|---|---|---|
| `TwoButtonInput` | `two_button_input.c` | one variable per field the code keeps; every handler of one `two_button_input_update` pass is an action, `phase` names the next one, `out` is the event a step emits |
| `VoiceControl` | `two_button_controller.cpp`, `micro_control.cpp`, `micro_action_tracker.c`, the host-voice guards | a step is one locked section, one atomic access or one transmission; `inputPc` and `blePc` say what the two tasks do next |
| `VoiceSession` | nothing by itself: the promise of `docs/ARCHITECTURE.md`, "Voice feedback" | `voice`, `confirmed`; `VoiceControl` implements it under the identity mapping on both |
| `UsageDevice` | `usage_protocol.c`, `usage_gatt.c`, `usage_storage.c`, the usage part of `app_main.cpp` | `gattPc` and `statePc` are the two tasks; a frame carries one half, intact or damaged, of an announced payload; `Reboot` may come anywhere |
| `BleLink` | connections and advertising of `codex_ble_espidf.c`, the claim of the HID device in `ble_hidd.c` | `btPc` and `loopPc` are the Bluetooth task and the event-loop task; `inbox` and `app` are the stack's events and whose turn it is to get them; peers connect, write and leave at any time |
| `BleReports` | the send mutex, the semaphore, the event queue and the Escape task of the same two files | `pc` says what each of the three senders does next; the Bluetooth task delivers `inbox`, one event a step |
| `UsageClient` | `UsageBluetoothClient.swift`, `UsageBluetoothStateMachine.swift` | a handler is a step; `calls` are the requests CoreBluetooth still owes an answer, live or of a cancelled connection |
| `CodexAppServerClient` | `CodexAppServerClient.swift` | a handler is a step; `blocks` are the pieces of output and exits that wait on the serial queue, each of the current or of an earlier process |
| `UsageDelivery` | `UsageSyncController.swift`, `UsageSnapshot.swift`, `UsageCache.swift`, and what `UsageClient` and `UsageDevice` do, in larger steps | the composition of both sides: controller with cache and timer, delivery gate and write loop, link, reassembler shared with a second central, snapshot, NVS copy and ageing |
| `UsageRegister` | nothing by itself: what the Usage pair promises of the value on the device | a register that moves forward, becomes live only by a recent observation, and may go back, never live, in a restart |
| `PowerDisplay` | the battery and light part of `app_main.cpp`, the filter and backlight policy of `microstick_state_model.c`, `apply_backlight` of `microstick_ui.cpp` | `pc` says what the state task and the input task do next; `copy` is what each is about to publish |
| `AppState` | `micro_control.cpp`, `app_main.cpp`, the Agent part of `microstick_state_model.c`, the redraw of `microstick_ui.cpp` | one variable per copy of the tables: `micro`, `view`, `app`, `got`, `seen`, `carried`, `ui`, `taken`; `pc` says what each of the three publishing tasks does next, `lvgl` whether the LVGL task is about to draw its copy |
| `UsbMicrophone` | `usb_microphone.cpp`, the microphone half of `usb_device_uac.c` | `tusb`, `capture` and `mic` are the three tasks; the endpoint's interrupt is an action |
| `LocalTones` | tones and PTT flag of `usb_microphone.cpp` | `asked` is a tone between the test of the flag and the queue, `tone` is the task that plays |
| `AudioPath` | both of the above | they share the codec and no variable, so `side` chooses which of them a behaviour is about |
| `MC*` | constants for TLC | |
| `*_proof` | theorems about the one or two modules they extend | |

Abstractions a reader should know of:

* *Time.* `TwoButtonInput` keeps what the code compares, the time since an edge
  or press (saturating at the largest threshold) and the time left to a
  deadline, not the wrapping 32-bit counter. What the wrap-around does (a
  deadline that lands on 0 means "none") is therefore outside the model.
  `VoiceControl` keeps whether a deadline is set; it may be found passed at any
  time. `UsageDevice` counts the time since the last sync up to `StaleAfter + 1`.
  A clock step of `UsageDelivery` is a period of the controller's timer, five
  minutes; what takes seconds (answers of the radio, reconnects, the device's
  poll) happens between two of them. A clock step of `PowerDisplay` is a period
  of the state task, one second. In `AppState` and `AudioPath` times are left to
  chance: a step may come at any time. The hold on a completion is "over" by the
  32-bit clock, which becomes false again when that clock comes round.
* *History variables.* `pressMode` (recogniser), `halves` and `unreadable`
  (Usage), `startRefused` (`BleLink`), `escapeDown` and `refusedTwice`
  (`BleReports`), `deliveredHere` (`UsageClient`), `wanted` and `foreign`
  (`CodexAppServerClient`), `newest`, `disturbed` and `deliveryGate.sure`
  (`UsageDelivery`), `lowest`, `highest` and `powered` (`PowerDisplay`), `last`
  (`AppState`), `stale` and `late` (`AudioPath`) record what happened for the properties; no guard
  reads them.
* *Data.* A slot in `AppState` is its color, effect and meaning; brightness only
  counts where a frame is all off. The page travels with the voice display
  through the same copies and is left out. An audio frame is a chunk, both 10 ms;
  gain is left out.
* *The link.* `VoiceControl` has one link flag for host and device; `BleReports`
  separates the host's link, the claim in `ble_hidd.c` and `s_connected`, which
  follow one another with queues in between. The two modules are not composed:
  `VoiceControl` lets a transmission fail at any time, which covers what the
  transport may do to one.
* *What is taken from the stacks.* `BleReports`: Bluedroid confirms every report
  it accepts, once, also when the link is gone, and a host comes back only after
  the loop task has taken the loss of its last link. `UsageClient`: an answer to
  a cancelled request arrives, if at all, before the shortest retry delay (one
  second) has passed. `BleLink`: a connection id is used again after the events
  of its last link were delivered.
* *Request ids* of the app-server client grow without bound in the code; in the
  model a new id is one that nothing in the state still carries.
* *The retry attempt* of the Bluetooth client only chooses the delay and is left
  out. (It is reset as soon as the client is ready, so a payload the device keeps
  rejecting is retried at the shortest delay for ever.)
* *Frames.* A checksum is identified with the payload it was computed from:
  different payloads have different checksums and a damaged half never
  matches. CRC collisions are not modelled.
* *Failures.* A transmission may fail at any time, an NVS write may leave the old
  blob, an NVS load may fail, a release sent by `micro_release_all_actions` may
  or may not arrive, a reading of the power chip or a change of the light may
  fail, and a selection may not reach the host.
* `X_Defect` *operators.* Next to some definitions stands a variant named after a
  plausible mistake (`Turn_PastEnd`, `HostProcessing_NoDeadline`). No action uses
  it; substituting it for the real definition breaks the property it was written
  for (`mutants` in `PROJECT.json`), which shows that the property says something
  about the code.

## 3. Runs

| run | question | bounds |
|---|---|---|
| `gesture` | does Decline need its own press, do side presses act only where they were made, is a pending click resolved once and in time, do menus close? | debounce 2, voice hold 2, double click 2, long press 3, menu timeout 4, polls 1 or 2 late; 5 of the 8 commands (one of each kind), 1 Agent, 1 navigation entry: 1.3 million states |
| `voice_safety` | does every interleaving of the two tasks keep tracker, host, display, tones and deadline consistent, and does it implement `VoiceSession`? | one click action; nothing else is bounded: 16,000 states |
| `usage_device` | are only whole messages kept, does the NVS copy never roll back, does the display catch up with the store? | two update times, each live or stale, two message ids, `StaleAfter` 0: 260,000 states |
| `ble_link` | are the slots the links, is a free slot advertised, does every link keep its place? | three connection ids (interchangeable, hence symmetry), event queue of 1: 1.3 million states |
| `ble_reports` | does every wait end with its own confirmation, is Escape released, is a disconnect handled while the host keeps its unread writes low? | event queue of 5, at most 2 unread writes, messages of 1 or 2 reports: 88,000 states |
| `ble_reports_stall` | finding, see 6 | event queue of 5, at most 6 unread writes, messages of one report |
| `usage_client` | is the client never stranded, is no update lost, does it recover? | two payloads; nothing else is bounded: 1,000 states |
| `codex_client` | is somebody always woken, is no refresh lost, is nothing foreign published, does it recover? | three request ids, retry attempts up to 1, at most 2 blocks waiting when output is emitted: 57,000 states |
| `usage_delivery` | does the pair implement `UsageRegister`, does the device hold what the Mac counts as delivered, how old can a live value be, does the device catch up? | `StaleAfter` 1 step, clock up to 4, answers of the app-server at times 0 and 1: 600,000 states |
| `power_display` | does the battery display stay within its readings, rise only while charging and settle, does a press light the panel? | 2 percent of 8 fixed-point units, hysteresis 6, confirmation 3, dim after 5 and low after 6 steps; one change of the supply, one press, one fault: 1.6 million states |
| `app_state` | is every state drawn that is published while another is drawn, does Roxy show its loudest meaning, is each completion shown once, does the screen settle? | 2 Agents, 3 frames of the host; from a device that has just started or from a completion taken down 2 events, from an alarm 1 event and 1 input: 540,000 states |
| `audio_path` | how much old sound reaches a new stream, does PTT silence tones, does an open stream flow? | FIFO of 3 frames, tone queue of 3, notes of 2 frames: 28,000 states |

**Why the bounds are enough.** The recogniser compares times only with its five
thresholds and with each other; the values keep the order of the real ones
(25, 250, 250, 500 and 8000 ms: debounce, hold = double click < long < menu; a
debounce as long as the hold only delays it) and leave room for a poll on both
sides of each, which is where the cases differ. `MaxPoll` bounds how late a poll
can be: with 2, a poll can jump over a threshold. A debounce of 2 is needed
because the exception for a second press that is still bouncing needs an edge
and a settled press in different polls. One command of each kind
executes each branch of `execute_menu`. With one Agent and one navigation entry the indices
wrap at once; that `Turn` stays inside its list for every length is part of
`TypeCorrect`, which is proved.
`VoiceControl` has no counters; a second click action would be
handled exactly as the first. In `UsageDevice` two times suffice for an older,
an equal and a newer message and two ids for "same id, other metadata" and
"other id"; `Watched` is a fixed live payload whose halves are counted, and since
payloads of each kind are interchangeable it stands for each of them (the proof
is for any). `StaleAfter` is 0 because only "fresh" and "expired" are told apart.

In `BleLink` there are two slots, so a third id gives the link that finds none;
a queue of 1 makes the Bluetooth task wait for the event loop as often as
possible, and the proofs are for any queue. In `BleReports` the queue has the
size of the code (`queue_size` in `ble_hidd.c` is 5) because the stall depends
on it: with the claim and the disconnect, two unread writes fill four places of
it, while six fill it and leave one in front of the confirmation. Two reports
tell "another report follows" from "the last one". In `UsageClient` two payloads
tell "the one delivered" from "a newer one". In `CodexAppServerClient` at most
one request is under way. Ids never run out in the code; three of them leave one
for an answer of an earlier process that is still on the queue, one for
`initialize` and one for the rate-limits request that follows while that
answer waits, so what `handle` checks of an answer's id matters. (Two such
answers at once leave no id for that request; to the model it then fails.)
`MaxAttempt` 1 tells the first failure from the later ones,
and with two waiting blocks every pair of late and current output occurs (an
answer may come as a third).

In `UsageDelivery` an observation needs two windows to expire on both sides
(`StaleAfter` 1 makes that three steps), so a clock of 4 leaves one step after
the last; two times of answers give an older and a newer snapshot, a cache that
differs from the screen and a device that is ahead of the Mac. At `MaxTime` the
wall clock stands still while the timers go on, so the liveness runs never end
at the bound. In `PowerDisplay` two percent make the lowest, an inner and the
highest reading; 6 of 8 fixed-point units is the ratio of the code's hysteresis
to a percent (192 of 256), so rounding falls on both sides of it. The code asks
for 5 samples to agree (`microstick_state_model.c:9`); 3 is the least that has a
first, a counted and a deciding one. With two percent the filter has no step over
twice the hysteresis, so a direction never turns round without a sample in
between that wants neither; the theorem covers that case, for every range and
every confirmation from 2. The dim delay is longer than the three steps after which a
press must be seen. One change, press and fault each may fall on every step of
the round; their repetition only starts the same round again, and what holds of
safety for any number of them is proved. In `AppState` two slots distinguish
"the loudest" from "the last", and the frames make a table at work, a complete
one and an all-off one. Two events are enough for every pair of copies to cross,
but from boot they only reach a first frame. The run therefore starts at rest
(`MCInit`) from three tables: no link; a completion that was taken down; and an
error before an Agent that waits. `AppInit` reaches the first with a
step of the LVGL task and the others with a connection and a frame; from
there two events disconnect, blank or replace a table that is not empty. From the
third table the input task takes part, with one of the two events, so that all three publishing
tasks cross with the drawing. In `AudioPath` a FIFO of 3 frames can be empty, partly filled, full
and dropping its oldest, and a queue of 3 tones takes every tone that was
asked for when PTT begins.

**Deadlock** is checked in every passing run but `ble_link`. There the system
may really stop: a start of advertising that the controller refuses is only
logged and nobody tries again, so with no link left nothing more happens
(`startRefused`). `ble_reports_stall` looks for a temporal counterexample that
ends in a stop; there the deadlock is the finding.

### Fairness

* `TwoButtonInput!FairSpec`: weak fairness of the handlers and of the passing of
  time. `input_task` is an endless loop with a delay, so a pass is completed and
  a next one begins. Nothing is assumed of fingers, cancels or Agent updates
  beyond what a property's own premise says.
* `VoiceControl!FairSpec`: weak fairness of the input task's steps, of ending a
  gesture and of the steps of a handler that has begun: both tasks run for ever
  and every handler returns. Strong fairness of `DeadlinePassed`: the input task
  looks at the deadline in every round, time passes, so a deadline that stays set
  is eventually found passed. No fairness of presses, the link or the host.
* `UsageDevice!FairSpec`: weak fairness of a commit in progress, of the state
  task and of the clock. No fairness of frames, and reboots may recur for ever
  (the liveness properties then say what holds once the named event stops).
* `BleReports!FairSpec`: weak fairness of the Bluetooth, loop, input and Escape
  tasks and of the stack's confirmations: the tasks are endless loops and
  Bluedroid confirms what it accepted. Strong fairness of taking the mutex, for
  each sender: FreeRTOS gives a mutex to a waiting task when it is released. No
  fairness of the host or of new actions.
* `UsageClient!FairSpec`: weak fairness of an answer to some open request and of
  the retry timer: CoreBluetooth answers what it is asked, a scan finds the
  device in reach, and a scheduled work item runs. `Recovers` says what follows
  once `Trouble` (errors, disconnects, power changes, wake-ups) has stopped.
* `CodexAppServerClient!FairSpec`: weak fairness of running the blocks on the
  queue, of an answer among them (the queue is first-in first-out, the model's set
  is not), of both timers, of the controller's five-minute refresh and of the
  answer of a process. `Recovers` again has the premise that `Trouble` stops;
  what an earlier process left on the queue is not counted as trouble.
* `UsageDelivery!DeliveryFairSpec`: weak fairness of an acknowledgement that is due, of
  connecting, of a frame's arrival, of the controller's timer and the check after
  a wake-up, of the device's poll and of the clock. No fairness of opening the
  Mac, of starting UsageSync or of an answer of the app-server: `Converges` only
  promises that the device comes to what the Mac has, and only if the Mac stays
  awake and link drops, other centrals and restarts (`Disturbance`) stop.
* `PowerDisplay!FairSpec`: weak fairness of each step of the state task and of
  the input task's publish, of drawing what was handed to the screen, and of the
  clock. A press, a change of the supply or a fault need never come.
* `AppState!AppFairness`: weak fairness of every step of a handler that has begun, of
  the state task's next round, of the LVGL task, and of the end of a hold. No fairness
  of the host's events or of the input.
* `AudioPath!AudioFairSpec`: weak fairness of the capture task, the UAC task and the
  TinyUSB callbacks that have begun, of the endpoint's interrupt (a host polls
  the endpoint of a stream it has opened) and of the tone task. `Flows` speaks of
  a stream that stays open and is not muted.

## 4. Proofs

All for every value of the constants that the named assumptions allow. Three
proof modules treat two components of one subject side by side: the two Usage
specifications of the Mac side, voice and audio, and the two tables of the
device. The components do not share a variable; `UsageDelivery`, `AppState` and
`AudioPath` give their variables and specifications names of their own
(`DeliverySpec`, `AppSpec`, `AudioSpec`) so that they can be extended together.

| module | theorems | argument |
|---|---|---|
| `TwoButtonInput_proof` | `TypeCorrect`, `GestureCorrect`, `DeclineNeedsSecondPress`, `SidePressActsWhereMade`, `MicOnlyUnderHold`, `PendingInTime`, `NoSendUnderPress` | the inductive invariant is `GestureInv`. What `out` says of a release depends on the press before, so the side-button properties need `SidePressOrigin`: a held press that is not used up was made in the page that is open, or on the confirmation the front button has just cancelled. Every page change that could break this (`HoldSide`, `HandleTimeout`, `Cancel`) uses the press up; that is the point of `consumed`. `PendingInv` says that what is still pending after `handle_pending_send` has time left or a bounce in front of it. `HomeInv` says that a click pending in a menu runs out before the menu does and before a side press made there is long enough to close it; only the latter needs `Prompt` (a poll comes no later than a long press exceeds the double-click window, less the debounce time: 225 ms as configured), and without it `SendNotUnderPress` is false |
| `VoiceAudio_proof`, on `VoiceControl` | `TypeCorrect`, `TrackerCorrect`, `CompletedCorrect`, `DeadlineArmed`, `TonesStaySuppressed`, `Refinement` | `LinkInv`: the tracker may differ from the host only while the disconnect handler is between dropping and clearing, or the link is down. `VoiceInv`: a shown voice state goes with a sequence, `COMPLETED` with a confirmation, and both settling states with a deadline. `ToneInv` says at which program points a claim may be without its PTT flag. `Refinement` shows that every step is a step of `VoiceSession` or leaves `voice` and `confirmed` alone |
| `VoiceAudio_proof`, on `AudioPath` | `AudioTypeCorrect`, `OldSoundEnds`, `TonesAreCut` | `NoteInv`: a frame is written after its check, so once one was written under PTT the task is not at a write again before the next check ends the note. `StreamInv` says what the tasks know of the stream between their steps. `OpenInv` counts: an old frame in the FIFO stands so near its head that, together with the old chunks in front of it (already sent, in the endpoint's buffer, in the microphone task's hands) and the one being pushed, it is at most the third; and while an old frame is being pushed nothing new is in the FIFO. `ClosedInv` gives what a new stream starts from: after the clear at most the one frame past its check of the flag, and two chunks of the microphone task |
| `Device_proof`, on `UsageDevice` | `TypeCorrect`, `OnlyWholeKept`, `RestoredIsStale`, `NvsNeverRollsBack` | `Counted`: an intact half in the reassembler that belongs to `Watched` has been counted, and wherever `Watched` is kept (`completed`, `snapshot`, `copy`, `stored`, `shown`) both have. `Ordered`: unless a load has failed, the stored copy is no newer than the message being saved or the snapshot |
| `Device_proof`, on `AppState` | `AppTypeCorrect`, `RoxyIsCurrent`, `CompletionStaysDown` | `AggregateIsLoudest`: after slot `n` the loop of `microstick_roxy_aggregate` holds the loudest of the first `n` meanings, by induction on `n`. `Loop` shows that every such loop has a run, so that a recursive function satisfies its equation; `AppTypeCorrect` needs the same of the loop over a frame of the host. `DrawnInv`: while the LVGL task draws, a flag that is not set means that its copy is the latest state, so what it draws is right when it is done; a state published meanwhile sets the flag. `TakenDown`: a completion that is not shown while the last table drawn says complete is one whose hold has expired, and without such a table there is no hold; only a table that stops saying complete releases it, whatever the wrapping clock says and whatever voice display comes in between |
| `BleLink_proof` | `TypeCorrect`, `SlotsCorrect`, `FreeSlotCorrect`, `PlaceKept` | `LinkInv`. `InboxInv`: nobody is told of the loss of a link that is up, and a link that is gone, but is announced or remembered, has its loss ahead in the inbox. `EventInv` says what was done with the event the task is about to leave, `ReadyInv` that what is not ready has still to announce itself, `StartIsDue` that a start that is due is one somebody will still see to: the two tasks read the flags and the count unlocked, and this is why one of them always reads them late enough |
| `BleReports_proof` | `TypeCorrect`, `ConfirmationCorrect`, `EscapeCorrect` | `ReportInv`. `MutexInv`: the mutex is held exactly from taking it to the end of a message. `ConfirmationInv`: of a report in the air, a confirmation not delivered and one not taken there is at most one together, exactly while somebody waits. `SingleInv`: one Escape task at a time. `EscapeInv` follows the key through press, release and second try |
| `UsageSync_proof`, on `UsageClient` | `TypeCorrect`, `RetryArmed`, `NeverStranded`, `UpdatesAreDelivered` | `WaitInv`: the two properties, and where a client that is not running or has no radio can be. `GateInv`: when the client is ready, a gate with a recent delivery holds what was delivered on this very connection |
| `UsageSync_proof`, on `UsageDelivery` | `DeliveryTypeCorrect`, `LiveValuesAreRecent`, `AcknowledgedIsHeld`, `PathImplementsRegister` | `DeliveryInv`. `LoopInv`: a payload is being written exactly while a frame is on its way, and never during the check after a wake-up. `KnownInv`: nothing anywhere is newer than the last observation. `FreshInv` bounds the age of whatever is live: what the controller holds by its window and the period until its timer, what is being written likewise, and the device's value by that and its own `age`; this is why `LiveIsRecent` allows two windows and a step and cannot allow less. `HeldInv` follows a message between its frames: unless another central disturbed it, the reassembler holds its first half when the second arrives, so what the gate counts as delivered is on the device. With `KnownInv` and `FreshInv` every step is a step of `UsageRegister` or leaves the value alone |
| `CodexAppServerClient_proof` | `TypeCorrect`, `WaitsAreWoken`, `StateCorrect`, `RefreshesAreServed`, `SnapshotsAreOwn` | `ClientInv`: which request can be under way in which phase, and that an answer on the queue to the request under way is from the process that runs |
| `PowerDisplay_proof` | `TypeCorrect`, `DisplayStaysWithin`, `RiseMeansCharging`, `PressLights` | `FilterInv`: the filtered value lies between the smallest and the largest reading, as does what it displays, and its count of confirmations is no longer than the run of readings under external power. `LightInv` follows a press: whichever task is about to publish, a copy taken before the press is older than the delay, so the light in `app` is full, and a panel that has it not yet has either the redraw or one of the copies ahead |

Assumptions: `TimingAssumption` (thresholds are positive, voice hold and double
click no longer than a long press, a long press shorter than the menu timeout:
what the default configuration gives; `two_button_input_init` takes any) and
`MenuAssumption` (the command list begins with Approve) for the recogniser,
`ClickAssumption` (Mic is no click action) for the controller, and
`UsageAssumption` for the Usage service (payloads are closed under becoming
stale, `Watched` is live). The others only say that sizes are positive and that
"no payload", "no request", "no connection" and "no holder" are none
(`PayloadAssumption`, `IdAssumption`, `AttemptAssumption`, `LinkAssumption`,
`ReportAssumption`, `DeliveryAssumption`, `AppAssumption`,
`MicrophoneAssumption`, `ToneAssumption`); `AppAssumption` also says that a frame of
the host has at most as many updates as there are slots. `PowerAssumption` asks for a hysteresis of at most one
percent, a confirmation of at least two readings and dimming before the low
light, as in the code. TLC evaluates all of them in the runs.

Six properties are proved and in no run: `MicHeld` (`MicOnlyUnderHold`),
`DisplayWillSettle` (`DeadlineArmed`), `LiveSinceDelivery` (`RestoredIsStale`),
`SlotsAreLinks` (`SlotsCorrect`), `RetryIffRetrying` (`RetryArmed`) and
`StateAgrees` (`StateCorrect`). The runs leave the type invariants out; each is
proved.

Every safety invariant, every action property and both refinements of the passing
runs are proved. Only model-checked is liveness (`PendingResolved`,
`MenusClose`, `VoiceSettles`, `ScreenCatchesUp`, `DisconnectIsHandled`, the two
`Recovers`, `Converges`, `Settles`, `ScreenSettles`, `Flows`), which the prover
does not support under fairness.

*Induction.* The library's induction theorems take an operator as a parameter,
which no backend instantiates. Where a property needs induction on a number
(the loops over the slots and over a frame, in `Device_proof`), the proof takes a
least counterexample instead: `NatLessThanWellFounded` and `WFMin`, which speak
of sets, give the lemmas `Least` and `UpTo`. For the same reason the two loops
of `AppState` are recursive functions (`SlotsAfter`, `AggregateOf`) and not folds
of the library.

Two refinements: `VoiceControl` implements `VoiceSession` (`KeepsVoiceSession`,
checked and proved), and `UsageDelivery` implements `UsageRegister`
(`ImplementsRegister`, checked and proved) with the value on the device for `shown` and one
step more than `StaleAfter` for `Fresh`, since the controller looks at the age of
its snapshot once a period.

## 5. Not modelled

* *Formatting and layout*: texts, sizes, lighting colours, JSON and byte layout
  on both sides (`codex_control.c` from report to message and back,
  `CodexRateLimitsParser.swift`, the payload and frame codecs); unit tests
  cover them. The models begin and end at the decoded message.
* *Toasts* of the controller, and the *page* on its way to the screen, which
  travels with the voice display (`AppState`).
* *Drawing*: of `microstick_ui.cpp` the state copy, the redraw, Roxy with its
  hold and the light are modelled; the widgets have no state of their own.
* *Pairing and bring-up* of the transport, attribute tables and feature reports
  of `esp_hid`: `BleLink` begins where `codex_ble_espidf_start` ends; security
  only decides whether a write arrives.
* *The speaker half of* `usb_device_uac.c`, which is not compiled in, and its
  descriptors, which are tables. *Gain and volume*, which are data.
* *Mac process entry and status file*: login item, signals and diagnostics.
* *Generated assets* (`app`'s Roxy frames and two fonts, 12,000 lines, more than
  half of the repository's code), build tools and scripts: no behaviour of
  their own.

## 6. Where the code and its documentation part

One run, `ble_reports_stall`, is expected to find a violation; its property says
what `docs/PROTOCOLS.md` says, and `findings` in `PROJECT.json` quotes it.

* `DisconnectIsHandled`: a sender waits without a time limit, holding the send
  mutex, for a confirmation that only the Bluetooth task delivers; the Bluetooth
  task waits without a time limit for room in the event queue; the event loop
  that empties the queue waits for the mutex to answer a request. With six
  unread writes of the host the three wait for each other, and a disconnect is
  never handled. With fewer (`ble_reports`) it always is.

### Known disagreements

Three more have a configuration of their own, which is not among the runs; TLC
finds the violation in seconds.

* `tlc -config MCTwoButtonInput_cancelled.cfg MCTwoButtonInput`,
  `CancelledConfirmIsSilent`: with the side button held on the Decline
  confirmation, the front button cancels to the Control Center, rewound to
  Approve; letting go of the side button then sends Approve. The timeout path
  uses the side press up, the cancel path does not.
* `tlc -config MCTwoButtonInput_escape.cfg MCTwoButtonInput`,
  `EscapeFromHomeOnly`: a front press that takes a pending click as double-click
  candidate and is released in a menu leaves the candidate set; a later press
  that begins in a menu and ends at Home sends Escape.
* `tlc -config MCVoiceControl_orphan.cfg MCVoiceControl`, `ClaimIsHeld`: the
  disconnect handler requests a cancel and then resets the voice state. A hold
  that begins between the poll and the reset, followed by a reconnect, loses its
  gesture to the cancel without a release: the claim and the host's Mic stay.

Others shape what a property says:

* The controller's `publish` copies under the lock and calls back outside it, so
  two tasks can publish in the wrong order, and an older page or voice display
  stays until the next publish. The state task repairs the Agent table once a
  second, not these; `ScreenSettles` speaks of the table and of Roxy only.
* `docs/PROTOCOLS.md` has data stale after fifteen minutes. The device counts
  from delivery and the Mac from observation, and a heartbeat delivers an almost
  expired snapshot as live: up to two windows and a timer period, 35 minutes, in
  `LiveIsRecent`.
* `tud_suspend_cb` ends the microphone stream and `tud_resume_cb` does not bring
  it back; `Flows` asks for a stream that is open for the firmware.
* A volume below -50 dB becomes a negative level, which the callback takes as a
  large unsigned one and clamps to 100 (not modelled).

Observed while modelling: the link is checked before the send mutex is taken, so
a press claimed on one link can be sent on the next; when the release of a click
fails, nobody sends it again; a finished device-side Agent selection overwrites
the reset of a disconnect, until the host's next full frame; the end of file of
an earlier process ends a new one, which delays recovery by one retry; a link
that comes up between the two tasks' reads of the count can be a third one,
which `remember_physical_connection` then ignores; if one poll comes very late,
a long side press can close a menu over a pending click and a held front key,
and the Send goes out under that key (`NoSendUnderPress` says how late).

## 7. Plan

Done: the recogniser, the controller with tracker and voice state, the Usage
service, both Mac clients, the transport (`BleLink`, `BleReports`), the battery
and light path, the Usage path as a whole with its abstract register, the
application state, and the audio path, each with its proofs.
What is left, in this order:

1. `VoiceControl` over `BleReports`: one link flag replaced by the transport's
   three, so that a press sent on a later link is seen.
2. Report reassembly and RPC dispatch of `codex_control.c`, with fragments cut
   off by a disconnect.
3. The modular clock of the menu deadline, where 0 means "no deadline".
