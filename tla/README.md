# A TLA+ model of Entity Guard

Entity Guard is a Home Assistant integration (`custom_components/entity_guard`).
A *rule* watches target entities and drives them back to a desired state whenever
they leave it, after an optional delay, at a limited rate, unless a switch, a flag
or a suppression says otherwise. This directory models the program in TLA+, checks
the models with TLC and proves the most important results with TLAPS.

File and line references are to `custom_components/entity_guard/` at the modelled
commit, `rule_engine.py` where no file is named.

## 1. The system

Everything runs on Home Assistant's single event loop. A callback, and a coroutine
until its first real suspension, runs to completion; what can go wrong is therefore
not a torn write but *another handler running while this one is suspended*, or a
timer, a done-callback or an event arriving in an order nobody thought of.

| Component | State it keeps | Operations | Properties that make it correct |
|---|---|---|---|
| **Rule engine** (`rule_engine.py`, class `RuleEngine`) | enabled, startup-complete and unloaded flags; suppression end and its timer; one delayed-enforcement handle per target; one evaluation task per target; `reentrance_lock`; cooldown ends and their repaint timers; rate-limit window; consecutive failures and successes; displayed status | state events of targets, flags and the source entity; grace end, midnight; delay, cooldown and suppression timers; `set_enabled`, master change, suppress, unsuppress, reset cooldowns, clear history, unload, the force button; the service call and its outcomes, a cancelled call among them | an enforceable violation is attended to and never dropped; nothing is scheduled that is not justified; the limiter holds for all but presses; every suppression ends; the status tells the truth; work always drains |
| **Verify-after-enforce** (same class, `_arm_verify` … `_cancel_verify`) | one verification handle per target, attempt counters, self-heal streak, unreachable latch, forced marks | arm after the call, confirm on the event or at the deadline, corrective re-send, exhaustion, self-heal re-enforce, drop | every cycle resolves to exactly one verdict; attempts and self-heals are bounded; no verdict for a target that vanished |
| **Forced pass** (`async_test_enforce`) | generation counter | several presses of the button over several targets | the latest press wins and comes to every target |
| **Verdict pulses** (`_arm_recently_enforced*`) | four 30 s flags with their reset timers | arm, clear | verified, unreachable and cancelled exclude each other; every pulse ends |
| **Trigger decisions, colours, service maps** (`_trigger_decision` …, `const.py`) | none | pure functions of live states | a target is never both compliant and violating; the service sent brings about the state asked for |
| **Store** (`storage.py`) | one blob per rule in memory, one file, a 10 s debounced save | set, get, delete, save now, load with per-rule repair | what a user switched off stays off after a restart; one corrupt rule harms no other |
| **Entry setup, reload, hub** (`__init__.py`) | the engines of the loaded entries, `hub_master_enabled`, skip-reload marks | set up, unload, remove, migrate v1→v2, options listener, hub re-creation | one live engine per entry; a reload loses nothing; the hub outlives the rules |
| **Sliders and switches** (`number.py`, `switch.py`) | 2 s coalesced options writes per entry, the skip-reload mark | slide, flush, flush at removal, toggle | a slider change survives and never reloads; any other change does reload |
| **Services** (`services.py`) | none | suppress, unsuppress, clear history, list, panic stop | panic stop leaves every rule it could reach disabled, even when some fail |
| **Config and options flow** (`config_flow.py`, `models.py`) | the wizard's form data | steps, validation, option merge | bounds hold whatever was stored |
| **Entities, triggers, logbook, diagnostics, repair issues, card** | read-only views | forward and format | – |

*How they interact.* Setup builds an engine per rule entry from `parse_rule_config`
and the blob in the store; the engine registers listeners and timers with Home
Assistant, calls services on the targets, writes its blob back through
`_persist`, and announces status changes on a dispatcher signal that the entities
listen to. The master switch is shared memory (`hub_master_enabled`) plus a signal
on which every engine re-derives its status and re-evaluates. Sliders and the
debounce switch write the engine's configuration in place and mark the entry so
that the options listener does not reload it; every other option change unloads
the engine and builds a new one.

*What is hard.* (a) An enforcement waits for `reentrance_lock`, or for its service
call, and anything may happen meanwhile. (b) Handles of tasks and timers are
replaced while the task they point at still runs. (c) A suppression ends in three
ways (timer, service, an event that finds it elapsed) and each must re-evaluate
everything that was missed. (d) Two status derivations, one that knows ERROR and
the switches and one that does not, are used side by side. (e) A verification
deadline, the event that confirms it and the next enforcement race each other.
(f) A reload replaces an engine whose enforcement is still out. The list with
line numbers is `hazards` in `PROJECT.json`.

## 2. Plan

| # | Module | Status | Subject |
|---|---|---|---|
| 1 | `RuleEngine` (+ `MCRuleEngine`) | done | one rule without verify: events, delay, lock, call, limiter, suppression, switches, timers, status, and a pass of the force button between them |
| 2 | `RuleEngineProofs` | done | every safety property of `RuleEngine`, for every configuration |
| 3 | `VerifyContract`, `VerifyCycle` (+ `MCVerifyCycle`), `VerifyCycleProofs` | done | what a verify cycle promises (opened by a command, ended with at most one verdict) and the cycle itself; `VerifyCycle` refines `VerifyContract`, which is proved for any targets and limits |
| 4 | `VerdictPulses`, `ForcePass` (+ `MCForcePass`), `ForcePassProofs` | done | the four 30 s pulses with their timers and sensors; several presses of the force button on the engine's lock. `ForcePass` extends `VerdictPulses` |
| 5 | `RuleStore` (+ `MCRuleStore`), `RuleStoreProofs` | done | what is remembered: memory copy, delayed file write, reloads, panic stop, crash, shutdown, damage; proofs for any number of rules |
| 6 | `OptionsWrites` (+ `MCOptionsWrites`), `OptionsWritesProofs` | done | sliders, switches and the dialog writing the options of one entry, and the listener that reloads it |
| 7 | `HubLifecycle` (+ `MCHubLifecycle`), `HubLifecycleProofs` | done | rule and hub entries, the master's two copies, the services' lifetime; proofs for any number of rules |
| 8 | `GuardLoop` (+ `MCGuardLoop`), `GuardLoopProofs` | done | the decision and the command of each mode, and the loop they close with a device |
| 9 | `RuleWizard` (+ `MCRuleWizard`), `RuleWizardProofs` | done | which rules the wizard, the dialog and the migration let through |
| 10 | further proofs | planned | every safety property of the runs is proved; what is left is to bound how long the liveness properties can take (a measure that each task decreases), since their fairness is out of the prover's reach |

The order follows the risk: the engine first, then the verify cycle that shares its
lock and handles, then what surrounds it.

## 3. `RuleEngine`

### State

`dev[t]` is what `_trigger_decision` says of target `t` (752): `good`, `bad`, or
`skip` (offline, or a decision with a skip reason). `flag` is `_flags_match`,
`master` the hub's switch. `eng` is one record with the engine's own state; each
field's comment names its Python counterpart. Three groups of fields deserve a
word:

* `pend[t]` is the entry of `_pending_enforcements`: `armed` while the countdown
  runs, `firing` while its `_fire` task enforces (the code keeps the handle until
  the task's `finally`, 1110–1128).
* An enforcing task waits for the lock (`parked`, `lost`) or holds it (`callOn`).
  It is *owned* while a handle points at it, and *lost* once its handle was popped:
  a lost task can be cancelled by nobody and still enforces. `due[t]` says that the
  done-callback of an evaluation task is queued; it pops whatever handle it finds
  (431).
* A pass of the force button waits for the lock with one target (`turn`), has others
  to come (`todo`), remembers whether the rule was off at the press (`wasOff`, 2285),
  and holds the lock as `forced`. It is no task of the automatic path: no handle points
  at it and nothing cancels it.

`unpainted` is history: the last call was itself cancelled, in a task that repaints for
nobody.

### Actions

One action per callback, per handler, and per segment of a coroutine between two
suspensions. An enforcement suspends at the lock and at the service call only:
`Acquire`/`Enter` run from the caller to the lock or to the call,
`OwnerGranted`/`LostGranted`/`TurnGranted` from the lock to the call, `CallEnds` from
the end of the call to the end of the task. A call ends in four ways: it succeeds, it
fails, it is forgiven (a dead member of a group), or it is itself cancelled by the
integration that serves it (`CallAborts`, 1708–1711): then `_enforce` raises, with no
tail and no repaint, and takes the rest of a pass with it. `Press` starts a pass,
`TurnEnds` is the loop of `async_test_enforce` between two targets. Operators such as
`Idle`, `CancelPending`, `LoopProtection` or `Evaluate` map an engine to the engine a method leaves behind,
so that an action contains every call its handler makes. They read the world
*primed*, because a handler runs after the event that woke it.

`Evaluate` returns a *set* of engines: a sweep walks the targets in configuration
order, which the model leaves open.

### Abstractions

* Home Assistant hands the lock over in FIFO order; the model lets any waiter be
  next (more behaviours; the liveness run assumes strong fairness of each waiter,
  which FIFO implies).
* Time: a suppression, cooldown or rate-window entry ends by an action of its own at
  any moment. A cooldown is counted from before the wait for the lock, so a success
  may set one that is over already (`live = FALSE`).
* The rate window is a count, not kept when the limiter is off (`Limit = 0`). It starts
  anywhere up to one above `Limit`, because the slider may be lowered under it, and a
  press counts in it without asking it (1538, 1760). Failures are counted up to
  `ErrorThreshold`.
* A pass comes to its targets in any order and takes even a free lock in a step of its
  own. Several passes at once are in `ForcePass`.
* `Delay`, `Debounce`, `Limit` are constants of an engine. The sliders can change
  them in a running engine, which is `OptionsWrites`' subject. A `dynamic_state` rule
  with a delay in one direction only is not modelled (both or none).
* A target or flag is one entity with one role; an entity that is both is not
  modelled.
* Modelled elsewhere: verify-after-enforce (`VerifyCycle`), several presses at a time
  and the pulses (`ForcePass`), the decision itself (`GuardLoop`), what is persisted
  (`RuleStore`). Left out: counters, per-target outcomes, bus events, a rule whose
  target has no service (a failure without a call).

### Bounds

`MaxLost` bounds, in the guard of `Next`, how many unowned tasks of one target may
wait for the lock at once (the code has no bound). One is enough for every
hazard listed: the successor of an orphan is then a second waiter of its target.
`engine_errors` has
`MaxLost = 0`: its one target still has a replaced task in its call while its successor
waits, and a pass beside them. `Press` is bounded to one pass
at a time and to a window that is not over the limit. A pass of several targets is checked
in `pulses`, where the queue is what matters, and covered by the proofs of section 12.
Two targets give every interleaving of two queues. `Limit = 1` makes
the limiter trip on the task that waits behind another; cooldowns are in `engine_delayed`;
thresholds of 1 and 2 reach ERROR and its recovery.

### Runs

| Run | Checks | Instance |
|---|---|---|
| `engine_immediate` | `OnsetIsAttended`, `BacklogOnlyDrains` | two symmetric targets, no delay, source entity, limiter 1 |
| `engine_delayed` | `CountdownJustified`, `TransientStatusIsLive`, `AttentionIsKept`, `ComesToRest` | two targets, delay, debounce, limiter 1, reset, fairness |
| `engine_errors` | `TypeOK`, `SuppressionEndWatched`, `OnlyPressesExceedLimit`, `OffIsKept` | one target, failures, a dead member of a group, recovery, reset, clear, presses |

Calls may be cancelled in every run.

*What they show.* A violation the rule may act on is always attended to, and attention
is handed on, never dropped, whatever replaces, cancels or orphans its task. The
automatic path of a rule that may not act begins nothing new: `BacklogOnlyDrains` allows
for the enforcements that wait for the lock already, which are still sent (see *Other
divergences*), and nothing else. A press is not bound by that: it begins its calls on a
rule that is suppressed, off or unsatisfied in its flags. What it may do beside them is
paint over DISABLED for the time of its calls; `OffIsKept` says that nothing but begun
work and presses paints over it, and that each command of a press on a rule that is off
leaves DISABLED behind. The window exceeds the limit by presses only
(`OnlyPressesExceedLimit`): the successes of the automatic path stay under it however they
queue. `TransientStatusIsLive` names the one way ENFORCING stays on display with no call
out, a call that was itself cancelled.

*Fairness.* `SF` on the grant of the lock to each waiter and to the pass (asyncio's
FIFO), `WF` on `CallEnds` (`wait_for` ends each call, 1687) and on each countdown (Home Assistant's
timers fire). Nothing is assumed of users, devices or flags: `ComesToRest` says that
once they leave the rule alone, it drains. It also assumes that no suppression ends
for ever: loop protection ends a violation's enforcement by suppressing the rule, and
the end of that suppression starts it again, which is what the code is meant to do.
Deadlock is checked in every run.

## 4. `VerifyCycle` and `VerifyContract`

After a successful first command the engine arms a deadline for the target. Until
then the target's own event may confirm it; at the deadline it is verified, corrected
again, or given up, which re-enters the enforcing path (self-heal) until a streak of
exhaustions suppresses the rule. `VerifyContract` is the promise that the comment at
1290–1322 makes to automations, in terms of *open cycles* and *messages on the bus*:
a cycle opens only with a command, ends with at most one verdict, and no verdict is
announced without a cycle. `ContractKept` is the refinement: a cycle of `t` is open
while its deadline is armed and while its corrective waits for the lock or is out
(the code has no handle for it then, 1482–1497).

### State

`vc` is one record; each field names its Python counterpart. `queue` and `call` hold
the enforcements that wait for `reentrance_lock` or hold it, by the four ways to get
there: an evaluation, a delayed `_fire` (with its handle or without), a press of the
force button (which remembers whether the rule was off, 2285), a corrective (which
remembers `is_forced`). `mark` is `_forced_verifications`: the cycle is judged by the
rule's switches alone, not by suppression and flags. `said` is what the step fired on
the event bus.

### Abstractions

* `RuleEngine` has the automatic path in detail. Here there is no cooldown, no ERROR,
  and no suppression that has elapsed unnoticed; the limiter trips whenever it likes
  when it is on; the rule is past its startup grace and its `state` mode is verified.
* An evaluation task that was replaced while it waited is gone (the orphans of
  `RuleEngine` enforce as the one that replaced them would).
* A pass of the button (`async_test_enforce`) reaches one target at a time, in any
  order, while the rule is loaded; the generation counter belongs to `ForcePass`.
* `_unreachable` is cleared in several places and filled in none, and is left out.
* The source of a dynamic rule is always online; its change turns good targets bad
  and bad ones good. An enforcement always finds a command to send: the skips of
  `_enforce` (1552–1615) are in `GuardLoop` and `ForcePass`.
* A call that is itself cancelled (1708–1711) raises past the tail and past the re-arm of
  a corrective (1486–1493); `aborted` is the history variable that says so.
* Any waiter may get the lock, as in `RuleEngine`.
* `streak` saturates at `MaxStreak`: beyond the limit the code does the same thing.

### Bounds

At most one waiting press or corrective of each kind per target, in the guards of
`Press`, `CountdownFires` and `Deadline`. `MaxAttempts = 1` (the code: 2) and
`MaxStreak = 2` (the code: 5) give a corrective before exhaustion and a self-heal
before the give-up. `verify_one` has every operation on one target; `verify_two`
gives up most of them for the queue that two targets make.

### Runs

| Run | Checks | Instance |
|---|---|---|
| `verify_one` | `VerifiedIsPermitted`, `VerifyingIsLive`, `ContractKept`, `SilentEndsAreExcused`, `AutoCycleIsUnforced` | one target, no delay, limiter, source entity, every operation |
| `verify_two` | `DeadTargetIsGivenUp` | two delayed targets, master switch, no limiter: the streak alone must end the loop |

*What they show.* The event, the deadline and the tail of the call each resolve a
cycle by removing its handle first, so no cycle gets two verdicts, with presses and
correctives interleaved as they like. A cycle does end in silence in more ways than
the contract's comment grants ("unloaded drops silently"): `SilentEndsAreExcused`
lists them all, a corrective whose call is itself cancelled among them, and TLC confirms
that the list is complete.

*Fairness.* Timers fire and `wait_for` ends a call (`WF`); a waiter that keeps
waiting gets a lock that keeps being released (`SF`, asyncio's FIFO).
`DeadTargetIsGivenUp` assumes that the world goes quiet *and that no suppression ends any
more*. The second is no small print: the engine's own expiry timer ends the suppression
that loop protection began, the sweep that follows enforces the dead target again, and
the loop starts anew. What is bounded is the work between two ends of suppression; over
all of them a dead target is commanded for ever.

## 5. `VerdictPulses` and `ForcePass`

`VerdictPulses` is the state of the four binary sensors "recently enforced": the flags,
their reset timers in ticks, what the sensors last showed, and the suspension of
`async_clear_history` at its save. `ForcePass` extends it with what arms the base flag:
presses of the force button. Each press starts a pass (`at`, `ended`) that enforces
target after target; every enforcement stands in the FIFO queue of the engine's lock
(`waiters`, `holder`), which automatic enforcements use too. `force_generation` is the
number of the newest pass.

*Abstractions.* A verdict may arrive at any moment (when exactly is `VerifyCycle`'s
subject). The window of 30 s is `Window` ticks; between two ticks anything may happen,
and a due timer fires before time goes on. One automatic enforcement at a time. Whether a
turn at the lock sends a command is left open (`TakesTurns`): `_enforce` skips a target
whose colour it cannot show, whose source is offline or has no value, or whose domain has
no service (1552–1615), and leaves the lock in the same step. A call that is itself
cancelled raises through the loop of the pass (`Raises`): the other targets are not
reached and the suppression timer is not re-armed; `aborted` remembers such passes.

| Run | Checks | Instance |
|---|---|---|
| `pulses` | `PulsesAreTimed`, `SensorsAreCurrent`, `NoPulseIsCutShort`, `OldNeverFollowsNew`, `PressIsCarriedOut` | two presses, two targets, a window of two ticks, fairness |

*What it shows.* Each pulse lasts for its own window, whatever was armed before and
whichever sibling it replaces. A superseded pass that already waits for the lock still
sends one command, but FIFO puts it before every command of the newer pass, so the last
press is also the last to reach the devices. It comes to its turn at every target, unless
a call is cancelled under it. Two ticks are the least window in which a
second arming falls between arming and reset; two presses are the least with one that is
superseded, and more of them are the subject of the theorem `LatestWins`. *Fairness*: the lock is handed on and
calls end (`WF`).

## 6. `RuleStore`

What a set-up reads back. `eng[r]` is the persisted part of the runtime state (enabled,
a suppression that is ahead, counters cleared or not), `mem` the blobs in
`EntityGuardStore._data`, `disk` the file, `dirty` and `writing` the two halves of Home
Assistant's `Store`: a write that is owed (by the 10 s delay or by a `save_now` that
waits) and one that runs. A reload goes through `run`: platforms unload, the engine
leaves the map and flushes, the new engine is set up from `mem`. `late[r]` is a service
call that outlives its engine, because it is shielded (1713). A set-up may raise
(`__init__.py`:247–254): `run` is then `failed`, with no engine, until the rule is
reloaded or the process starts again.

History variables: `want[r]` is what the engine in charge stood for last, `hurt` the
rules for which a *named* event made the store wrong, `cleared[r]` how far the save of
a `clear_history` has come. `hurt` is filled by three actions only: `Crash` (if a write
was owed or running), `Damage` and the tail of an old engine's call (`LateTail`, see
*Other divergences*).

| Run | Checks | Instance |
|---|---|---|
| `store` | `NothingIsForgotten`, `ClearIsDurable`, `IdleFileIsCurrent`, `ReloadCompletes` | two rules, one in use, crashes and damage |

*Bounds.* `Busy` are the rules that users and enforcements touch; the other rule is
there to be harmed by a panic stop, a crash or the first rule's damage. One late call
per rule. *Fairness*: calls end, an unload that began goes on, writes make progress
(`WF` on `LateTail`, `UnloadEngine`, `SetUp`, `WriteStarts`, `WriteEnds`). A set-up that
failed is tried again by nobody, so `ReloadCompletes` ends in `loaded` or in `failed`.

*Abstractions.* Home Assistant's `Store` is external and modelled from its use: a save
takes the latest data, one at a time, and replaces the file in one piece; a stop makes
the final write. Damage comes only while the program is down and the store is sound.

## 7. `OptionsWrites`

The options of one entry have four writers: sliders (live at once, written from a queue
that the entry's sliders share), the debounce switch (live and written at once), the
verify switch and the dialog (written at once, live by a reload). The first two set the
skip mark, which the update listener spends. `phase` follows the entry through a
reload; in `starting` the entities are up and the listener is not. A set-up may raise
(`failed`): the entry is then without entities and listener until it is reloaded.

History variables: `wish[k]` is the last value a user chose, `missed` the keys whose
change fell where no reload applies it, `lost` those that another write put back. Both
exceptions are real and listed under *Other divergences*; the invariants say that there
are no others.

| Run | Checks | Instance |
|---|---|---|
| `options` | `OptionsAreLive`, `LastChoiceWins`, `SkipMarkIsSpent`, `ReloadHappens` | one slider, one live switch, one restarting switch, two dialog pages, two values |

One key per kind of writer is enough, since writers of one kind differ in the key only;
of the dialog's pages, the two extremes: one that submits nothing of its own and one that
submits every key. *Fairness*: the
event loop finishes a reload it began (`WF` on `Unload`, `Unloaded`, `SetUp`), unless the
set-up raises, after which nothing in the program tries again.

## 8. `HubLifecycle`

Rule entries and the hub entry come, go, reload and restart. The master lives twice: in
`hass.data` (`flag`), which every engine reads, and in the hub entry's options (`opt`).
A hub that is removed while rules exist is imported again by a task (`imports`), which may
fail (`__init__.py`:466, logged and not tried again before the next rule set-up). Entries
can be removed whether or not they are set up, as Home Assistant does with a disabled or
failed one. The services are registered once and taken away by the last rule entry to go.

History variables: `wish` is the last word on the master, `reborn` says that the entry
which kept the word is gone and its successor came up with the default, `unaware` are
the engines behind whose back a hub set-up changed the flag, `failed` that the last import
under way has failed.

| Run | Checks | Instance |
|---|---|---|
| `hub` | `MasterIsObeyed`, `EnginesSeeMaster`, `LoadedRuleHasServices`, `HubComesBack` | three rules, three imports at once |

Three rules let one be loaded while one reloads and one is removed. *Fairness*:
tasks that were created run (`WF` on `Import`). `HubComesBack` promises the hub *entry*:
whether a user has disabled it is not the program's affair, and no fairness is
assumed of its set-up. `TypeOK` is not checked but proved (section 12).

## 9. `GuardLoop`

The four modes' decisions (`_trigger_decision`, 752), the colour guard and the command
(`_resolve_service`) as operators, and the loop that they close: an evaluation decides,
the enforcement becomes due, reads the source *again*, and the command takes effect
later, while target and source move at every point. The initial states range over
*every* rule that the dialogs accept for five domains that stand for the five ways a
state is driven (`light`, `siren`, `lock`, `climate`, `input_select`). The device is
external: it obeys the services its domain has, rejects values out of range, and
reports colours that are off by at most the tolerance.

| Run | Checks | Instance |
|---|---|---|
| `guard` | `Converges`, `StuckStaysStuck`, `OneCommandSuffices` | all modes, all domains, numbers up to 4, tolerance 1 |
| `guard_off` | finding `ActsOnlyWhileOn` | a light that follows a brightness |

`Converges` is the promise of a guard: left alone with its device, the target comes to
comply, or the rule is `Stuck`, that is, one no command can satisfy; and
`StuckStaysStuck` checks that the list of stuck rules is exact rather than generous.
`OneCommandSuffices` is the step behind `Converges`: any other violation resolves to a
command, and one that is still right when the device carries it out ends the violation.
*Fairness*: violations are evaluated, due enforcements run and calls end (`WF`).

The finding: README.md says of dynamic attribute rules that "the rule acts only while
the target is on". `_dynamic_attribute_trigger_decision` (902) looks at no such thing; a
light that is off has no brightness, a missing value never matches, and
`light.turn_on` with that brightness turns it on.

## 10. `RuleWizard`

One action per page of the wizard and of the options dialog, with its validation and
its successor page; the migration of version 1 gives initial states; `others` are the
names that other flows take and release meanwhile. The configuration is reduced to what
the pages check against each other. History: `retargeted` (the targets were edited
after source and attribute had been checked against them) and `raced` (the name was
written by a flow that was open when another one took it).

| Run | Checks | Instance |
|---|---|---|
| `wizard` | `NamesClashOnlyInRace`, `SafetyIsAcknowledged`, `FollowIsComplete`, `HolesComeFromRetargeting` | a light, a climate, a sensor, two names, two states |

A light (colours, no safety), a climate (safety, numbers) and a sensor (a source only)
are the kinds of entities the pages tell apart; two names suffice for a clash.

## 11. Other divergences

Met while modelling and confirmed with TLC or by the guards of the models; one more is
kept as a run (section 9). "The text" is a comment, docstring or document; where it is missing, the row is a
behaviour that a reader of the code should know of.

| Where | The text | The code |
|---|---|---|
| 1764 | README.md:273, ERROR "auto-clears on next success" | three successes are needed |
| 675 | 2658, "STATUS_ERROR sticky" | the event of any compliant target paints ARMED over ERROR |
| 1904 | README.md:273, ERROR is "3+ consecutive enforcement failures" | `was_in_error` is read before the call: a `clear_history` during it is followed by ERROR with no failure counted |
| 431 | 422, "cancelling any prior pending task" | the done-callback of a replaced task pops its successor's handle; two tasks of one target may wait for the lock |
| 1532 | BEHAVIOR_REFERENCE.md:170, "Suppression catches a rule at any point in its act-and-verify cycle", but for "a command already on the wire" | an enforcement that waits for the lock is sent although the rule was suppressed, disabled or unloaded meanwhile |
| 2300 | 2297–2299, the restore is there "so intermediate ENFORCING/ARMED/COOLDOWN transitions never appear in HA history" | a press on a rule that is off paints ENFORCING (1550) for as long as its call takes, and DISABLED only after it |
| 1711 | README.md:277, `enforcing` is "service call currently in flight (transient)" | a call that is itself cancelled leaves ENFORCING on display, until something else repaints |
| 1760 | BEHAVIOR_REFERENCE.md:49, "Counted = real triggers + self-heal re-enters" | a press skips the limiter (1538) and counts in its window: presses of a minute can make the next automatic violation suppress the rule |
| 2293 | – | a press enforces a rule that is suppressed or whose flags do not match; only its switches are looked at, and only for the status |
| 1711 | – | a call that is itself cancelled ends a pass before its other targets and before the suppression timer is re-armed, and ends a verify cycle without a verdict, its attempts still counted (1486–1493) |
| 3085 | BEHAVIOR_REFERENCE.md:50, "Dead-device kill-switch" | its suppression ends by the engine's own timer, and the sweep that follows commands the dead target again, without end |
| `__init__.py`:466 | – | an import of the hub that fails is logged and not tried again before the next rule set-up |
| 1672 | 1916, the tail "must honour the now-off enabled/master flag" | a call that fails after a disable paints ARMED over it |
| 1001 | its docstring: the timer is armed so that the card does not stay "stuck on COOLDOWN" | after a restart, or a re-enable into another status, COOLDOWN is shown with no timer to end it |
| 2339 | 2311, a pending window "still fires its expiry callback after this reset" | a reset between the end of a suppression and its callback drops the callback |
| 358 | 1291, a cycle "resolves to exactly one of" three verdicts | an offline target, or a switch turned off around a corrective, ends it with none |
| 1841 | 1297, "MANUAL force → FULL verify ALWAYS" | a press while an automatic cycle is armed shares that cycle, which suppression and flags may drop |
| 365 | BEHAVIOR_REFERENCE.md:211, "a real recovery resets the streak" | only an event of the target does, not a change of the source's mind |
| 1879 | 330, "we never confirm on a vanished target" | a target that goes offline during the call is announced as verified |
| 1177 | its docstring, "live state now matches the rule's desired state" | any state that is no trigger counts as reached |
| 1861 | 1889, at fast-confirm "attempts is always 0" | a cycle armed around a waiting corrective starts with its attempts |
| 307 | services.py:186, the store "is the single owner" of the enabled flag | the tail of an unloaded engine's call writes its old enabled flag over a newer disable |
| `storage.py`:114 | – | the corrupt blob of a disabled rule comes back enabled; a root whose `rules` is no dictionary fails the load |
| `services.py`:171 | – | `panic_stop` misses a rule that is being reloaded; without a hub entry its master-off is lost at the next restart |
| `storage.py` | – | `delete_rule_state` is never called: the blob of a removed rule stays |
| `__init__.py`:372 | its docstring (354–371) | a skip mark left in the set-up window swallows the next reload; a change by reload written in that window gets none |
| `config_flow.py`:1442 | its docstring (1422), "preserves any slider/switch value the user did not edit" | the dialog saves its snapshot over what sliders and switches wrote meanwhile; a queued slider value overwrites what the dialog saved for that key, and is not in its snapshot |
| `__init__.py`:237 | – | a hub set-up changes the flag without a signal; a hub removed while off is re-created with the master on |
| `__init__.py`:398 | – | the reload of the only rule removes the services for a while |
| 2467 | – | an arming during the save of `clear_history` keeps its flag but shows no new rising edge |
| `const.py` | README.md:140 | "heat" is no on-state: a follower of a climate is never turned off and re-commanded for ever; a follower of a lock, cover or valve sends `homeassistant.turn_on`, which those domains lack |
| `config_flow.py`:1487 | – | editing the targets checks neither the source against them nor the attribute; a clamp whose own value violates it is accepted; two flows may give one name twice |

## 12. Proofs

Every safety property of the passing runs is a theorem, for every value of the constants
that the named `ASSUME`s admit:

| Module | Holds for | Assumptions |
|---|---|---|
| `RuleEngineProofs` | any set of targets, any limit and thresholds, with or without delay, debounce and source | `TargetsAssumption`, `ConfigAssumption`, `ThresholdAssumption`, `WorldAssumption` |
| `VerifyCycleProofs` | any set of targets, any attempt limit and streak | `CycleAssumption`, `TaskAssumption` |
| `ForcePassProofs` | any number of targets and of presses, any length of the window | `ForceAssumption`, `WindowAssumption` |
| `RuleStoreProofs` | any set of rules, any of them in use, with or without crashes and damage | `RulesAssumption`, `FaultsAssumption`, `MarkersAssumption` |
| `OptionsWritesProofs` | any keys, pages, sliders, switches and values | `PagesAssumption`, `ValuesAssumption`, `SlidersAssumption`, `DialogAssumption` |
| `HubLifecycleProofs` | any set of rules, any bound on the imports | `ImportsAssumption` |
| `GuardLoopProofs` | any of the five domains and four modes, numbers of any size | `LoopAssumption` |
| `RuleWizardProofs` | any entities, attributes, states and names | `WizardAssumption` |

Most assumptions give the constants their types. Those of the form "the marker is no
such value" (`NoTarget`, `NoTask`, `NoDialog`, ...) stand for Python's `None`.
`SlidersAssumption` says that a number entity and a switch never write the same key,
which `number.py` and `switch.py` fix.

### `RuleEngineProofs`

The base is `IInv`: the world has its type and the engine is `Sound`, that is

* `eng \in EngineType`;
* `Capped`: while a call of the automatic path is out, the window holds fewer entries than
  `Limit`, and a pass that holds the lock has a call out. The check is made when the task
  gets the lock, the append when the call returns; what carries the bound from one to the
  other is this free slot, which no press can take, because a press needs the lock too;
* `Watched`: a suppression that is ahead, of a loaded and enabled rule, has its
  timer, and an unloaded engine has none.

One lemma per operator says that it preserves `Sound`; one step per action applies
them. From it follow `TypeCorrect` and `SuppressionEnds`. The other
theorems repeat that structure for a relation of their own between the engine before and
after an operator:

* `CountdownsAreJustified` relates countdowns to all of the rule's switches, its flags
  and the live state of the target. Every operator either drops all countdowns or starts
  none and keeps the switches (`Tame`); `EvaluateDelayed` alone starts countdowns, and
  its guards are the justification. The lemma on evaluation excepts the targets under
  evaluation (`Warranted(e, S)`), because the event has already moved them.
* `RateLimitHolds`: nothing but the end of a call counts a success (`Framed`), at most one
  each; unless it ends a press, the free slot of `Capped` is there.
* `StatusIsNeverStale`: `TransientStatusIsLive` is not inductive, since nothing in it
  stops a rule without a delay from having the handle of a countdown that would be
  dropped without a repaint. `Lit` adds that there are none (`NoStray`).
* `OffStaysShown` needs no more than `IInv`: every method but the tails of a call
  preserves the switches (`Steady`), and what it paints over a rule that is off says so
  (`IdleOff`). That a press restores the status is `PassRestores`: only the end of a call
  releases the lock, and what a pass does between two targets (`TurnEndsLeaves`) begins
  with the repaint.
* `BacklogDrains`: a step either lets the begun work of the automatic path only fall (`Drains`) or leaves a rule
  that is `Licensed`. The one action that begins work without an evaluation is a
  countdown that fires, so this theorem rests on `CountdownsAreJustified`.
* `EveryOnsetIsAttended` and `AttentionIsNeverDropped` are two readings of one lemma: for
  a target that the step leaves enforceable (`Ready`) and that was not in its cooldown
  before, an enforcement exists after the step, unless it could be enforced before and
  none was due (`Answered`). The dangerous steps are the ends of tasks, whose
  done-callbacks pop a handle from `pend` by the target's name. `Owned` says that a task
  that still owns its handle finds it `"firing"`, so that what it pops is never the
  countdown of a later violation.

### `VerifyCycleProofs`

`ContractIsKept` is the refinement: a cycle is counted wherever it lives, as a deadline,
a running corrective or a waiting one (`Count`), and every step changes the count of a
target by at most one, in the way `VerifyContract` allows: up with a sent command, down
with one verdict or with one of the six excuses, the aborted corrective among them
(`Effect`). The operators are cut along the *books*
(deadlines, marks, correctives, announcements): most of them leave the books alone
(`Kept`), and each judgement path changes them once. The invariant is the type,
`VerifiedIsPermitted` (a statement on the messages of the last step) and `LoadedLit`, which
is `VerifyingIsLive` as a statement about an engine, so that it can be carried from
operator to operator. `VerifyingIsAlwaysLive`, `SilentEndsAlwaysExcused` and
`AutoCyclesAreUnforced` come from the same lemmas, one per action (`StepOK`).

### `OptionsWritesProofs`

`OptionsAreLive` says nothing while the entry is down, being set up or waiting for a
reload. `Live` extends it to the set-up window, whose engine must not have missed what was
written before it listens; `Parked` says that no slider value waits while no slider
exists, since a removal writes the queue. `LastChoiceWins` needs `Fresh`: a dialog's
snapshot is old only for the keys written since it was opened (`touched`), so that saving
it loses no other choice.

### `RuleWizardProofs`

The four invariants speak of stored rules; what decides them are the pages before the
save. `FlowSound` says of an open flow what its page has already established: the branch
of its mode, the source before the attribute is picked, the acknowledgement from the
preview on (`SafeOn`), and that a name which others have was taken after this flow
checked it (`Named`). Every page is shown to lead to a page that may rely on it; a save
needs `Savable`.

### `GuardLoopProofs`

The inductive invariant is small (rule, target and source are what the model takes them
from, and a call that is out has a service); the work is in the operators.
`StuckEffect` and `HelpfulEffect` go through the four modes and show that the decision
(`Triggered`), the service tables (`StateCall`, `Resolved`) and the device (`Effect`)
agree: in the situations of `NoCommandHelps` every command leaves the violation in
place, in all others one command ends it, colour tolerances and clamps included.

### The other modules

`HubLifecycleProofs` — the services need nothing but types: the step that takes them
looks at every other entry, whatever its phase. For the engines' view, `Stopped` is
added: while the process is down the hub is not set up and no engine runs, so that no
engine carries an old view over a restart. For the master,
`MasterIsObeyed` is silent while the hub is not set up, and therefore not inductive:
what survives a stop, and what a set-up copies into the flag, is the hub entry's option.
`KeptWord` says that this option is the user's last word as long as there is a hub
entry. The word is lost with a hub entry that is removed before the flag follows it, by a restart
without a hub entry, or by an import that creates a new one with the default; the history
variable `reborn` marks exactly these cases, and is reset by the next word.

`RuleStoreProofs` — what a rule must remember passes through five places: the engine,
the store's memory copy, a write that runs, the file, and the next engine.
`NothingIsForgotten` says nothing while no engine is in charge, and is therefore not
inductive: a reload could lose the word there unnoticed. The invariant adds the way of
the word: `Owned` (a call that is out belongs to an engine in charge, so that an old engine's
answer is told apart), `Written` (once no write is owed, the running write carries the
memory copy, or the file does),
`Remembered` (what the next set-up will read is what was asked for, unless a fault of the
named kinds lost it) and `Down` (a process that is down runs nothing). For
`ClearIsDurable`, `ZeroOf` follows the cleared counter through the same places.

`ForcePassProofs` — for the pulses, the three properties of the flags together are
inductive. For the force button, "no command of an older press follows one of a newer" is
a fact about two moments; what carries it is the queue: `Ordered` (older passes wait
before newer ones, and the lock's holder is older than all who wait) and `Latest` (nobody
newer than a waiting or holding pass has sent anything). Both survive the loop over the
targets, which puts a pass at the end of the queue again, only because a pass goes on
only while it is the newest: everyone behind it is then an automatic enforcement.
A pass may run past targets it skips without leaving the lock; `Behind` says of the queue
at that moment that only newer passes stand in it, and the lemmas on a turn
(`TurnsQueue`) and on the loop (`ContinueQueue`) carry it over.

### Only model-checked

Liveness (`ComesToRest`, `DeadTargetIsGivenUp`, `PressIsCarriedOut`, `ReloadCompletes`,
`ReloadHappens`, `HubComesBack`, `Converges`), which rests on fairness and `ENABLED`, out
of the prover's reach. `OneCommandEndsIt` and `BacklogDrains` are the steps those
arguments turn on.

## 13. Not modelled

* Entities (`sensor.py`, `binary_sensor.py`, `button.py`): read-only views that re-read
  the engine on its dispatches. `VerdictPulses` has this for the four pulse sensors; the
  others, with their attributes and texts, are left out. The buttons call modelled
  operations.
* Repair issues, event and device triggers, logbook, diagnostics: registry calls,
  forwarding and formatting without a protocol state. (The migration issue is part of
  `RuleWizard`.)
* The dashboard card: rendering. Its installation (`__init__.py`) is file I/O.
* The clamping of numbers to their bounds (`models.py`), today's and total counters,
  per-target outcomes, the texts of events.
* `scripts/`: smoke tests that drive a live Home Assistant from outside.

## 14. Running

    tlc -workers 2 -config engine_immediate.cfg MCRuleEngine.tla
    tlapm RuleEngineProofs.tla

Each run ends within three minutes on two cores; the proofs take about a quarter of an
hour in all.
