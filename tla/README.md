# The greenhouse controller in TLA+

Specifications, model-checking runs and machine-checked proofs for the firmware
in `src/firmware`: an ESP32-S3 that opens and closes three greenhouse windows
(M1, M2 and M3) on temperature, humidity, wind and an operator's wish. The
references `src/...` below are paths of the repository.

## 1. The system

The firmware is a graph of FreeRTOS tasks, T1 to T17, on two cores with no core
affinity. They share queues (Q1 to Q6), task notifications and one event group,
EG1. The behaviour that matters is the loop

    T5 sensors -> T4 snapshot -> T3 wind safety  \
                              -> T6 climate law   >-- Q1 --> T2 relays --> motors
                       T8/T11/T17/T4, operator   /              ^
                                                     RRK-3 alarm contact (ISR)

and around it are the services: the network, the web and its sessions, the
panel, the settings, updates, logs, the time.

| Component | State it keeps | Operations | Talks to |
|---|---|---|---|
| **T2 relay controller** `relay_controller.cpp` | per window: FSM state, relay, travel, gap and dwell deadlines, armed target, pulse, source of the drive, count of takings; the window's state in NVS | boot calibration, 20 ms loop (alarm, timers, drain Q1), eight commands, blocking close sweep, alarm onset and clearance with a 60 s guard | reads Q1, notifications, the contact; writes EG1 MOTOR_ALARM and CALIBRATING |
| **T3 safety monitor** `safety_monitor.cpp` | override active, close pending | judge a reading; raise and clear WIND_OVERRIDE; post CLOSE_ALL (retried) and RESUME | notified by T4; EG1, Q1 |
| **T6 climate control** `climate_control.cpp` | the law's memory, inhibited flag, the last M3 target and its result | on a reading: inhibit test, ask the law, plan, post closes before opens | notified by T4; EG1, Q1, T2's getters |
| **T4 data manager** `data_manager.cpp` | settings and their shadow, snapshot, STANDBY and its holders, M3's control mode, the time | apply a setting, reset and reload, hold and release STANDBY, take and give the time | everyone |
| **T5 sensor poll** `sensor_poll.cpp` | averaging windows, failed polls, busy grace | poll, raise and clear the sensor fault bits | the bus, EG1, Q6 |
| **T17 window position** `window_pos/` | trust in the sensor, drive verdict, teach, commissioning session, characterisation run | poll the encoder, teach, characterise (CMD_PULSE, CMD_STOP) | Q1, T2's getters, STANDBY |
| **T7, T8 panel** `keypad_scan.cpp`, `ui_display.cpp`, `drivers/m3Hold` | a pressed key, screen, session, menu's hold | tap and hold of M3, menus, PIN, reset | Q2, Q1, Q4 |
| **T9, T14 logs** `event_logger.cpp`, `status_post.cpp` | files on the card, the open one, the upload's latch and cursor | write, rotate, trim, reclaim, mount; upload what is closed; post the status | SD, NVS, HTTP |
| **T10 network** `network_manager.cpp` | link, lease, retries, back-off timer, access point | reconnect, renew, recover on T14's word, SNTP | the Wi-Fi driver's events, Q4 |
| **T11 web** `web_server.cpp` | session slots | login, renew, logout; forms, uploads, commissioning | T4, T13, T17 |
| **T13, T16 updates** `ota_manager.cpp`, `ota_client.cpp` | session, handles, buffer, fallback timer; boot partition, failure count | begin, write, end, extract, install, fall back, roll back | flash, EG1 |
| **PINs** `pin_auth.cpp` | salt and hashes | make, change, reset, check | NVS |
| **Modbus** `drivers/modBus` | the bus and its lock | ask and answer with a timeout | T5, T17 |
| T1 watchdog, `main.cpp` | the order of the start, the count of boots cut short | start, feed, restart | all |

What is hard in it: commands of three sources in one queue of eight that T2
does not read during its sweeps (up to 176 s); an ISR that interleaves with a
loop that polls the same pin elsewhere; ends of travel reported on time alone,
with no end switch in sight; a boot that trusts the store; a millisecond clock
that wraps in a machine meant to run for years; two tasks that see each other
only through an event group; a pause with several holders that outlives some of
them; runs of many steps that share the motor with the wind; an update in which
three tasks and a timer meet. `PROJECT.json` lists each such hazard at its line.

What makes each component correct:

- **T2**: it claims an end only where a drive has carried the leaf, and
  withdraws the claim before the leaf moves; relays follow states; nothing runs
  in an alarm; a target never cuts another stroke; climate commands never
  reverse a stroke nor break a dwell; every drive ends; an alarm is raised while
  its contact stays closed.
- **T3 with T6**: an override once posted is not undone by older or later
  climate commands, and ends with closed windows.
- **T4**: the pause in force is the pause in the store, each pause is ended by
  those it belongs to and by nobody else; settings in use are settings stored.
- **T5, T3 and the bus**: a sensor that stays dead closes the greenhouse; an
  answer is the answer to its question.
- **T17**: runs come to their end, leave nothing behind, and yield to the wind;
  a sensor that fails is given up, one that recovers is used again, and position
  control takes over no movement that was begun on the timer. Whether M3's drives
  are confirmed is reported, and decides nothing.
- **Panel**: M3 stops when the press ends, however it ends.
- **Updates**: only a verified image is booted; a session never holds the unit
  for ever; a crashing image is left.
- **Logs, network, sessions, time**: nothing unsent is passed over, but for two
  files that T14 cannot tell from others (section 4); the unit
  comes back online by itself; a live session is not thrown out; the day goes on.

## 2. Modules

| Module | Models | State and actions |
|---|---|---|
| `WindowPromise` | what T2 promises, with no timers, states or commands | a leaf, a relay and a word per window; drives start and stop, the alarm, power |
| `WindowChannel` | one window's record and what T2 does to it, as functions | `Start` is `ch_start_close()`/`ch_start_open()`, `StartTarget` is `ch_start_target()`, `Update` is `ch_update()` with `pulse_tick()`, `ch_target_tick()` and `pulse_reap()`, `Stop` is `ch_stop()`, `Sweep`/`Swept` are `calib_close_all()`, `Suspend` is `handle_alarm_onset()` |
| `RelayController` | T2, extending it: the loop cut at its blocking points, `process_command()` with one action per command, the ISR, time, power; implements `WindowPromise` (`Promise`, an INSTANCE with the refinement mapping) | `pc` says where T2 is; `ch` holds the records, `leaf` the true place of each leaf, `pin`/`edge`/`quiet`/`late` the contact and its ISR, `eg` the EG1 bits T2 owns |
| `TickClock` | T2's deadlines on the 32-bit clock that wraps | `tick` is real time, `Now` what the clock shows; `real` remembers what is so, to compare |
| `VentControl` | T3, T6 and Q1 composed with `RelayController` | T3 and T6 cut where they read or write what the other sees; `Receive` takes the head of Q1 into `Process` |
| `Standby` | T4's STANDBY: the bit, its holders, NVS | one action per entry, each under the one mutex |
| `Commission` | extends it: T11's starts, aborts and logouts, T17's tick, sessions that expire, the LCD's hold | `teach_start` cut where T17 may come between |
| `Teach` | the teach of M3's sensor | T17 cut between its reading, its copy of the state and its acts, and between its last look at the state and the leg's command (`StartLeg`, `SendLeg`), which may wait 100 ms for room in Q1; the device with its own armed state; restarts of both |
| `Characterise` | a characterisation run with its plan of phases | one command at a time through Q1, sent in a step of its own behind the tick that decided on it (`SendRun`, `SendStop`); T3's bit and its close apart (`WindRises`, `PostClose`); T2 as drives of six kinds; aborts, intruders |
| `PositionGate` | T17's gate, its verdicts on drives and the control mode | a pass of the loop cut at the reads of T2 and at the bus |
| `Sensing` | T5's polls, averages and faults, T4's merge, T3's wind | the busy grace and the count of failures |
| `Bus` | the Modbus master | requests, late answers, leftovers in the buffer, the lock |
| `VentLaw` | the stepped and the graded law, T6's planning and judging of M3 | one decision per reading; M3 walks, fails or is taken |
| `KeyHold` | a finger, T7's scan and repeats, Q2, T8's timing | losses of releases, T8 behind |
| `Panel` | T8's screens, sessions, PIN flow, menu, the timed press | one action per screen's keys; time-outs, wind, IO0 |
| `Pins` | salt and hashes in NVS and RAM | boot, change, reset, cut where power may fail |
| `Sessions` | the web's session table and the time of day | renew, login, logout, a clock set either way |
| `Config` | the settings in NVS, shadow and T2 | Q4, forms, reset, each cut between the write and the shadow |
| `WallClock` | the system's clock, the chip and the shadow | SNTP, T4's poll, the operator's time, faults of the chip |
| `Station`, `SoftAp` | T10's station with T14's recovery; the access point | retries, back-off timer, posts, lease; the flag in NVS |
| `LogRows` | Q3 and the count of the rows that gave way | `log_post()` cut at its queue and count steps, T9's drain and report |
| `LogShip` | T9's files and T14's upload | write, rotate, trim, reclaim, suspend, mount and open; T14 cut between its look at the name of T9's file, its scan and its upload (`Look`, `Scan`, `Deliver`); latch and cursor; `torn`, `early` and `jumped` remember which files T14 took or passed over wrongly |
| `Ota` | T11, T13, T16 and the fallback over one session | each task cut where it leaves the manager's mutex |
| `Boot` | the start, its counts and the rollback | task by task, with crashes, cuts of the power, an erased NVS, a board that halts |
| `RelayMC`, `TickMC`, `VentMC`, `PositionMC`, `ServicesMC` | instances for TLC | the last two put modules that share no variable side by side: a behaviour is of one of them, which keeps the runs few and costs the sum, not the product, of their states |
| `ChannelProofs`, `RelayProofs`, `TickProofs`, `VentProofs` | the proofs of T2 and its promise, of its clock, and of the loop, section 5 | |
| `PositionProofs` | the proofs of what `PositionMC` puts together | |
| `UpdateProofs`, `LogProofs`, `ServiceProofs` | the proofs of what `ServicesMC` puts together, each extending the one before: updates, start and settings; logs; the rest | |

An operator `Wrong...` is its namesake with a plausible slip; nothing uses it
but the mutants of `PROJECT.json`.

### Choices in T2

- A deadline of the code is a countdown in `WindowChannel` that stays at 0 once
  it is reached, so T2 may be late by any amount. `TickClock` has the arithmetic.
- T2's code between two blocking points is one action, except where an ISR or
  another task can make the order visible: the contact is read in one step and
  the edge cleared in the next (`AlarmSeen`, `Trip`); `now_ms` is sampled in
  `Top` and compared in the next step, so an edge may arrive in between, when
  `now_ms - edge_ms` wraps and the debounce is passed at once (`late`). In the
  main loop's `AlarmCheck` the edge is cleared *before* the contact is read, so
  that an edge between the two merely causes one more look; there both are one step.
- An edge younger than 75 ms is left for a later pass. Its age is abstracted:
  within the ISR's 5 ms it is young, after them it may be either.
- A position is in ticks of drive. A reading is fresh, waiting or lost; a lead
  is any of `Leads`. Targets within the deadband of an end are the ends.
- `taken` counts modulo `TakenMod`, large enough to see one taking.
- The travel time of a drive is any of `Travels`, which also covers a change of
  configuration between drives. The premise `TravelAssumption`, that a travel
  time is at least the real stroke, is the one on which T2 may report an end at all.
- A write to NVS may fail (`NvsWrites`); the code does not look at its result.

### Choices elsewhere

- `VentControl`: one window stands for three. T3 may reach any verdict on a
  reading and the law may want any of M3's commands, within what `plan_target()`
  and the two passes let out. `T6Undisturbed` says that T3 does not run between
  T6's look at EG1 and its post; `vent_race` is what happens when it does. The
  loop's commands have no pulses, which only a characterisation run sends: what
  a close does to one is in `Characterise`, with `wind_pulse`.
- A teach and a run are taken apart: how each goes is in its own module, how
  they hold STANDBY in `Commission`, where each starts and ends.
- A mutex under which a whole operation runs makes it one action; a mutex that
  can time out gives the branch in which it did.
- NVS, HTTP, the sensor and the Wi-Fi driver may refuse wherever their result is
  looked at, and also where it is not.
- Data are kept to what a property tells apart: a hash is the salt and the PIN
  it is of, a log file its number, an image whether it is whole and verified.

## 3. Runs

| Run | Question | Bounds, and why they are enough |
|---|---|---|
| `relay_m3` | the safety of T2 for the window that has every command; the refinement of `WindowPromise` | one window; a stroke of 2 ticks, so that a leaf can be part way; gap 1; dwells 0 and 1; leads 0 and 1; all commands of all three sources; power losses at any time; a bouncing contact |
| `relay_pair` | two windows: partial sweeps, alarms that must be seen, drives that must end | stroke 1 with travels 1 and 2, so the windows finish apart; fair scheduling |
| `relay_gap` | is there always a gap between the relays? **No** | as `relay_pair` with one window |
| `relay_clears` | does an alarm always clear with its contact? **No** | same, with fairness |
| `clock_wrap` | timers about the wrap | a clock of 12 ticks for 2^32 ms, through two wraps (`Uptime` 26); travels 2 and 3, dwell 2, gap 1, T2 at most 1 tick late |
| `clock_debt` | is a refusal of T6 always owed? **No** | as `clock_wrap` |
| `clock_sweep` | does a sweep wait for its last window? **No** | as `clock_wrap` |
| `vent_loop` | does an override that has posted rule, and does one that stays close the window? | Q1 of two places, so that T6's command and T3's close stand in it behind each other, and a full queue is common; of T6 a part-open target, which drives either way, and on to an end when the sensor is lost; stroke 2; fairness |
| `vent_race` | does it with T3 free to run at any time? **No** | Q1 of two places, so that a close and an open can stand in it together |
| `position` | the four parts of M3's measuring | two holders and two sessions; one fault in a teach (`MaxFaults`: an abort, a restart of the board or the sensor, a write that fails, a drive of others) and two teaches (`MaxStarts`), so that one starts over what the other left; a plan of one step in each phase, one raise of the band, a queue of two and one intruder; a limit of two failed reads |
| `wind_pulse` | does a close that is told end a pulse? **No** | as `Characterise` in `position`, without intruders |
| `services` | the fifteen services | `services.cfg`: five log rows from two tasks and T9 through a Q3 of two, three log files of which two are kept, queues of one or two places so that full is common, two slots for three tokens, a clock of three ticks set either way, two of the three averaging windows, three cuts of the power (the limit of the rollback), readings on both sides of every limit of the laws and a stroke in sixths |

Those that took thought:

- `PromiseKept` is the refinement: every step of T2, its alarms, sweeps, pulses
  and restarts, is a step or a stutter of `WindowPromise`.
- `EndsAreReal` and `StoredClosedIsClosed` compare what T2 says with the
  leaf's true place, through pulses, targets, stops, reversals and power losses.
- `ClimateYields` and `TakingsAreTold` speak of steps and of who caused them:
  T6 neither reverses a stroke nor disarms its target, and anyone else who ends
  T6's target raises the count T6 compares.
- `OverrideRules` relates T3's bit, Q1's contents in order, and the window.
- `DrivesAreWhole` compares a drive that ends with the ticks its relay was on.
- `HoldsKeepTheirPlace` speaks of the steps of T11 and T17 only: they neither
  end the operator's pause nor drop the hold under a teach or a run.
- `TeachDrivesNoMore` counts what an abandoned teach still does: T17 decides on a
  leg only in a teach that runs, and of those it had decided on before the abort
  at most one is sent (`stray`), whatever is started anew meanwhile.
- `WhatLastsIsFollowed`: a wind that stays leaves M3 closed and at rest, whatever
  of the run stands in Q1 before or behind T3's close, but for the two cases of
  finding 6 (`foiled`); a sensor that stays bad is given up, one that stays well
  is used.
- `SensorIsNotOverrated`: no position control with the gate closed or after
  `FailLimit` failures running; none of a movement that began before the gate
  opened (gh#72; `rested` is kept apart from what the code keeps); and a drive is
  confirmed only on a reading of its own with the leaf at its end (`seen`),
  through reversals and their gaps. It does not say that the sensor was seen to
  follow M3: the code promotes it at rest whatever the last verdict was.
- `NoneLeftBehind` says of every file on the card that the latch has passed: it
  was uploaded whole, with no row written to it since, in whatever order T9 and
  T14 went, but for the two cases of section 4 (`early`, `jumped`).
- It also follows each row of the log: a drop is counted before the
  row that takes its place can wake T9, so that none is left untold at rest; the
  two exceptions, a row refused twice and a report that finds Q3 full, are kept
  apart in `refused` and `unsaid`.
- `PanelMovesByHand` compares what M3 does with what the finger did (`truth`).
- `StoreIsUsed` allows for exactly two gaps, which the model keeps in `astray`.
- `LawComesToRest` says that equal readings get equal answers, and that M3 rests
  where the law wants it once readings, mode and troubles have come to rest.

### Bounds

`Uptime` in `TickClock`, `Q1Depth` in `VentControl`, `MaxFaults`, `MaxStarts`,
`Intrusions`, `MaxCuts`, `MaxTroubles`, `MaxManual`, `MaxFile`, `MaxRows`,
`MaxHeld` and `MaxNow` are the only guards that bound a run; `TakenMod` and `Word` wrap.
Everything else is finite by its sets or by the code's own limits.

### Fairness

- T2 is a task that is always runnable between its delays: weak fairness of its
  steps. The passing of time and the drain's end get strong fairness, because
  the ISR's 5 ms and a sweep posted at the wrong moment can disable them again
  and again but not for ever: time is not stopped by an edge, and T2 empties
  eight messages faster than tasks that wake every few seconds post them. A
  pending edge grows old, so the main loop's look at the contact is strongly
  fair. Nothing is assumed of the contact, of power or of any command. T3 wakes
  every 2 s and T6 on every reading; both are weakly fair.
- T17 ticks and sends, T11 goes on with what it began, T3 offers its close again
  (gh#79), T2 drains Q1 and its timers end every drive, and time passes: weak
  fairness. Commissioning's tick waits up to
  2 s for the hold's lock, and starts are minutes apart: strong fairness of the
  tick that lets go.
- A task of the updates goes on with what it began, the timer fires, a restart
  that is due comes. Uploads: T14 runs on, the daily minute comes again and
  again, and the server takes a file that is offered again and again (strong).
- Network: driver, handler, timer and tasks go on; a post may fail on a good link
  too, any number of times. `NetworkHeals` asks nothing while the router is away. Clock: a mutex that is asked for again and again is
  had some time (strong), and the network is there.
- Of a finger, an operator, the wind, faults and power nothing is assumed.

## 4. Findings

The six runs that expect a violation show where the code departs from what
the repository says of it; `PROJECT.json` quotes the lines.

1. **No gap at a recalibration** (`relay_gap`). `calib_close_all()` closes a
   window that is opening without `RELAY_GAP_MS`. Reached by leaving STANDBY
   while a window opens. `ReversalsRest` proves that it is the only way.
2. **A motor alarm that does not clear** (`relay_clears`). The sweep and the
   guard read the contact, then clear the edge. A contact released in between
   loses its edge and MOTOR_ALARM stays until the contact moves again.
3. **A dwell that comes back** (`clock_debt`). A deadline is never retired: 24.8
   days after it, or at an uptime past 24.8 days with the deadline at 0, T6 is
   refused, for up to 24.8 days.
4. **A sweep cut short at the wrap** (`clock_sweep`). The last deadline is the
   largest *number*. A sweep within three minutes of the wrap may return early
   and leave M3 closing on an old deadline.
5. **T6 behind T3** (`vent_race`). T6 tests EG1 and posts later. T3 can run in
   between, on the other core or by its priority; T6's open is then drained
   after the CLOSE_ALL, and nothing closes the window again while the override lasts.
6. **A pulse outlives the close** (`wind_pulse`). T3's CLOSE_ALL that finds M3
   on a closing pulse of the characterisation run changes only who the drive is
   of; the pulse then stops M3 part way. The run has ended on the wind, its stop
   is refused, and T3 does not post again: M3 stays ajar until the end of the
   pause recalibrates. `WhatLastsIsFollowed` holds but for this (`foiled`) and
   for one thing more: a command of the run that had passed its look at EG1
   (`characterise.cpp:922`) and waits for room in Q1 while the wind rises may
   land behind T3's close. It drives M3 off its closed end, and the run's own
   stop then leaves it there.

Three things more that the models have as the code has them, and that the
properties except by name:

- An abort of a teach that comes between `start_leg()`'s look at the state and
  its command is followed by one more stroke. The comments at
  `commission.cpp:541-542` and 575-577 know of it, as "the few instructions
  between here and the send"; the send may wait 100 ms (586).
- T9 suspends with the card mounted on low space or a failed write
  (`event_logger.cpp:411-414`, 640-647). T14 then has no name to pass over (892),
  takes T9's file for a closed one and latches it; the remount goes on with that
  file (705-716), and its later rows are never sent (`early`).
- `pick_closed()` reads the name of T9's file and scans the card after it, with no
  lock over both. When T9 rotates in between, the file just closed is passed
  over and the new one, T9's own, is taken and latched: the closed one is never
  sent (`jumped`).

## 5. Proofs

What TLAPS proves holds for every value of the constants; `PROJECT.json`,
"theorems", names the results. Every invariant and every action property of the
passing runs is proved; what the runs check beyond that is liveness.

The premises are the modules' assumptions: those of `RelayController`,
`WindowChannel`, `VentControl` and `TickClock` are ASSUMEs; those of modules that
are only instantiated are operators (`SessionAssumption`, `KeyAssumption`), parts of
`PositionAssumption` and `ServicesAssumption`, the ASSUMEs of `PositionMC` and
`ServicesMC`, so that TLC evaluates every one. The bounds of section 3 (`Uptime`,
`MaxCuts`, `MaxRows`...) are constants of the theorems and may have any value. Some
theorems have a premise more:

- what speaks of real positions (`EndsReal`, `StoredClosedReal`, `Implements`,
  `SweepsEndClosed`, `EndsRealInLoop`): `NvsReliable`, that NVS writes succeed;
- `OverrideObeyed`: `T6Undisturbed`, without which it is false (`vent_race`);
- `ClimateGivesWay`: `ClimatePosts`, that T6 posts moves and targets, as
  `climate_control.cpp` does; `TakersAreCounted`: a count that wraps at 1 tells nothing;
- `SensorsCount`: `~LateBeyondGap`, that a slave answers within the silence the bus
  keeps after a time-out; `modbus_rtu.cpp` empties its buffer then and knows no more.

None of the properties is inductive. The invariants, checked with TLC first:

- **T2** (`ChannelProofs`, `RelayProofs`). `ChannelInv(c, l)` of one window and
  its leaf: relay and state agree; an armed target belongs to a stroke; an end is
  real; a stored CLOSED is a closed window at rest; and the strengthening that
  carries the rest, that *a closing drive has at least as much travel time left
  as the leaf has way to go* (and an opening one likewise). One lemma for each
  operation of `WindowChannel`. `RelayInv` adds where T2 may be while positions
  are unknown: in an alarm, in the guard and at boot every window is unknown, in
  the working loop none is, and in a sweep every window is closing or closed.
  The promise, `ClimateYields`, `TakingsAreTold` and `SweepsAreWhole` are then
  one lemma for each command and each way a drive ends.
- **T2's clock** (`TickProofs`). `ClockInv` says of each deadline what it is the
  reading of: the time its timer ends, modulo the clock's word. With lemmas on
  remainders, `Pending` is then exactly "that time is to come", as long as it is
  within half the range. In a sweep those in hand have run equally long, and one of
  them has the largest deadline; about the wrap neither helps, hence finding 4.
- **The loop** (`VentProofs`). `VentInv` adds to `RelayInv` the order of Q1: once
  the override has posted, nothing of T6 stands behind its close; and that T3 and
  T6 are at places that agree with their flags. It gives `VentTypeOK`,
  `OverrideRules` for any depth of Q1, and `EndsAreReal` in the closed loop.
- **M3's measuring** (`PositionProofs`). `HoldInv`: pause and store agree, and T11
  has the lock while it arms, though T17 may have gone on without it. `TeachInv`:
  while a run arms, whether it is T11 that arms it or T17 that saw it armed, the
  leg holds nothing of the run before; a leg that was sent after the end (`stray`)
  leaves neither a teach running nor a state copied that would send another
  (`NoLegIsLeft`). `CharInv`: a raised dwell belongs to a run that goes on, a stop
  that waits for Q1 comes of a run without one, and the runs' words in Q1 are
  typed. `GateInv`: the mode needs the gate, the gate a sensor that has not failed
  `FailLimit` times, a gate that saw M3 at rest has `rested`, and a verdict that
  would confirm a drive T17 has not seen at its end stands only while that drive
  is new or short of its end (`NoOverratedSensor`).
- **Updates** (`UpdateProofs`). Each task's place fits the state of the session, at
  most one task is at a place that holds it, and what is open, set or buffered is
  what the state says; so nobody is left to write to an image once it is set to
  boot. Start: a task that has begun stands on those before it, and what the
  failure count says is how many boots in a row were cut short.
- **Settings** (`UpdateProofs`). Each difference between two copies has a writer
  that still answers for it (`InHand`, `TwoInHand`) or is one of the known gaps.
- **Logs** (`LogProofs`). `ShipInv`: whatever latch, cursor, T14's copy of the
  latch or the file on its way has passed was shipped, was passed over as T9's
  (`jumped`) or is gone; and the file T9 goes on with is one that T14 has taken
  only if `early` says so, so that no other is ever torn. `RowsInv`: the rows that
  vanished are no more than what was told, counted, is about to be counted, waits in Q3
  in a report (`acc`, a sum along the queue) or was lost with a report.
- **Sessions, PINs, panel** (`ServiceProofs`). The expiry and the age of a session
  sum up to no more than the clock, the timeout and what the clock was set back:
  each of renewing, waiting and setting the clock moves both sides alike. Of a PIN
  one of the two salts in use is that of the hash in force at every cut.
- **The key** (`ServiceProofs`). `KeyOrder`: since T8 found Q2 empty there stand
  in it repeats of the press before, then its release and the next press, and with
  a Q2 that holds more than comes while T8 is behind a release gives way to
  repeats only when T8's time is up. `KeyPress`: a press that T8 times is as old
  as the hand's, to within the time T8 is behind, and so is its last sign of life.
- **Bus, sensors, laws** (`ServiceProofs`). What is on the bus or in the buffer is of
  the request that holds the lock; the polls of a silent sensor are counted; a
  decision leaves a memory on which the same readings decide the same.

Model-checked only:

- **Liveness**, which is beyond this prover, with its fairness and ENABLED:
  `AlarmRaised`, `DrivesEnd`, `WindCloses`, `RunsComeToTheirEnd`,
  `WhatLastsIsFollowed`, `NetworkHeals`, `TimeIsKept`, and of `UpdatesEnd` and
  `LawComesToRest` the part that is not `GoodImagesStay` or `AnswersAreSteady`.
- The six violations: they are counterexamples of a small instance, and need no more.

## 6. Not modelled

- The learned lead and the projection of a reading (`m3_lead_x10`,
  `m3_ahead_x10`): any lead may occur, and a fresh reading is where the leaf is.
- The arithmetic of `windowPos` and `m3Char`: filters and fits over samples.
  `PositionGate` and `Characterise` take any of their verdicts.
- T3's judgement of the wind's direction; its judgement of the speed is in
  `Sensing`, and in `VentControl` any verdict may come.
- What a log row says, the counters of wrong PINs and their lockouts, the
  contents of pages, posts, manifests and screens.
- The 2 s time-out of T4's STANDBY lock, after which a transition goes on
  unserialised (that of commissioning's hold lock is in `Commission`), and the CMD_RECALIBRATE that a full Q1 drops: both are hazards
  with a note.
- The supervisor T15, which does not compile (`#error`) and is not built; MQTT
  (T12), which has no code; the bench tools; device drivers other than the bus,
  which are register I/O.

## 7. What would come next

`RelayController` with `Standby`, so that the recalibration at the end of a pause
and a full Q1 meet; the lockouts of `pin_auth.cpp`; that `Teach` and `Characterise`
refine what `Commission` says of their starts and ends; and a proof of the loop for
`VentControl` with pulses.
