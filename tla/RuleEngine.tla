----------------------------- MODULE RuleEngine -----------------------------
(***************************************************************************)
(* One Entity Guard rule at run time: the RuleEngine class of              *)
(* custom_components/entity_guard/rule_engine.py, for a rule without       *)
(* verify-after-enforce (VerifyCycle models that part).                    *)
(*                                                                         *)
(* Home Assistant runs everything on one event loop.  A callback, and a    *)
(* task until its first await, runs to completion, so each of them is one  *)
(* action.  An enforcement gives the loop back in two places only: while   *)
(* it waits for the rule's reentrance_lock and while its service call is   *)
(* out.  Both are states of the model, and everything else may happen      *)
(* there.                                                                  *)
(*                                                                         *)
(* Two kinds of enforcement meet at the lock: the tasks of the automatic   *)
(* path, and the pass of the force button over the targets, which asks     *)
(* neither the limiter nor whether the rule is on.  One pass runs at a     *)
(* time here; ForcePass has several, and the verdict pulses.               *)
(*                                                                         *)
(* The options (delay, debounce, limit) are constants: they are what they  *)
(* are when the code reads them.  OptionsWrites models how they change.    *)
(*                                                                         *)
(* The world is dev, flag and master; eng is the engine's own state.  The  *)
(* operators of the middle sections map an engine to the engine that a     *)
(* method leaves behind.  They read the world primed, because a handler    *)
(* runs after the event that woke it.                                      *)
(***************************************************************************)
EXTENDS Naturals

CONSTANTS
    Targets,            \* the rule's target entities
    NoTarget,           \* "no service call is out"
    Delay,              \* delay_seconds > 0
    Debounce,           \* debounce_enabled and debounce_seconds > 0
    Dynamic,            \* a mode whose desired state follows a source entity
    Limit,              \* max_enforcements_per_minute; 0 disables the limiter
    ErrorThreshold,     \* failures in a row that put the rule in ERROR
    RecoveryThreshold,  \* successes in a row that take it out again
    DeviceStates,       \* verdicts of _trigger_decision a target may show
    CallResults,        \* outcomes a service call may have
    UserOps,            \* operations the environment may request
    MaxLost             \* bound: unowned enforcements of one target in the queue

ASSUME TargetsAssumption   == NoTarget \notin Targets
ASSUME ConfigAssumption    == /\ Delay \in BOOLEAN
                              /\ Debounce \in BOOLEAN
                              /\ Dynamic \in BOOLEAN
                              /\ Limit \in Nat
ASSUME ThresholdAssumption == /\ ErrorThreshold \in Nat \ {0}
                              /\ RecoveryThreshold \in Nat \ {0}
ASSUME WorldAssumption     == /\ DeviceStates \subseteq {"good", "bad", "skip"}
                              /\ CallResults \subseteq {"ok", "fail", "dead_member", "abort"}

VARIABLES
    dev,     \* dev[t]: what _trigger_decision says of t's live state
    flag,    \* every conditional flag matches (_flags_match)
    master,  \* the hub's master switch
    eng      \* the engine, see EngineType

vars == <<dev, flag, master, eng>>

Status == {"starting", "armed", "enforcing", "cooldown", "pending", "conditional",
           "suppressed", "error", "disabled", "master_disabled"}

\* The engine's state.  A task that enforces t is the one its handle points at
\* (t in parked, or callOwn), or nobody's: cancelling by handle misses the latter.
EngineType ==
    [ enabled   : BOOLEAN,            \* RuleRuntimeState.enabled
      started   : BOOLEAN,            \* _startup_complete
      loaded    : BOOLEAN,            \* ~_is_unloaded
      sup       : {"none", "active", "elapsed"},  \* suppressed_until: unset, ahead, past
      supTimer  : BOOLEAN,            \* _suppression_timer_unsub is set
      pend      : [Targets -> {"none", "armed", "firing"}],  \* _pending_enforcements
      parked    : SUBSET Targets,     \* handle owners that wait for reentrance_lock
      lost      : [Targets -> Nat],   \* waiting tasks no handle points at
      callOn    : Targets \cup {NoTarget},  \* the lock holder's target
      callOwn   : BOOLEAN,            \* the lock holder still owns its handle
      forced    : BOOLEAN,            \* the lock holder is a pass of the force button
      turn      : Targets \cup {NoTarget},  \* the target that pass waits for the lock with
      todo      : SUBSET Targets,     \* the targets it has yet to come to
      wasOff    : BOOLEAN,            \* "disabled" of the pass: what it saw at the press
      wasErr    : BOOLEAN,            \* the lock holder's was_in_error
      due       : [Targets -> BOOLEAN],  \* a done-callback of an eval task is queued
      cool      : [Targets -> BOOLEAN],  \* the cooldown end of t is in the future
      coolTimer : [Targets -> BOOLEAN],  \* _cooldown_broadcast_unsubs
      window    : Nat,                \* len(rate_limit_window)
      errs      : Nat,                \* consecutive_errors, up to ErrorThreshold
      succs     : Nat,                \* consecutive_success_count
      clearing  : BOOLEAN,            \* async_clear_history awaits its save
      unpainted : BOOLEAN,            \* history: the last call was aborted, in a task that
                                      \* repaints for nobody
      status    : Status ]            \* _current_status

-----------------------------------------------------------------------------
(* Status derivation and repaint.                                          *)

Inactive(e) == ~e.enabled \/ ~master'

HasPending(e) == \E t \in Targets : e.pend[t] # "none"

\* _derive_armed_or_cooldown
ArmedOrCooldownOrNothing(e) ==  \* mutant: no return after the last branch, so None
    IF HasPending(e) THEN "pending"
    ELSE IF \E t \in Targets : e.cool[t] THEN "cooldown" ELSE "none"

ArmedOrCooldown(e) ==
    IF HasPending(e) THEN "pending"
    ELSE IF \E t \in Targets : e.cool[t] THEN "cooldown" ELSE "armed"

\* _derive_idle_status
IdleStatus(e) ==
    IF ~master' THEN "master_disabled"
    ELSE IF ~e.enabled THEN "disabled"
    ELSE IF e.status = "error" THEN "error"
    ELSE IF e.sup = "active" THEN "suppressed"
    ELSE IF HasPending(e) THEN "pending"
    ELSE IF ~flag' THEN "conditional"
    ELSE ArmedOrCooldown(e)

\* _cancel_pending: drops the handles of D.  A countdown dies with its handle; a
\* _fire task that already waits for the lock, or holds it, only stops owning it.
CancelPending(e, D) ==
    [e EXCEPT !.pend    = [t \in Targets |-> IF t \in D THEN "none" ELSE e.pend[t]],
              !.parked  = IF Delay THEN e.parked \ D ELSE e.parked,
              !.lost    = [t \in Targets |->
                             IF Delay /\ t \in D /\ t \in e.parked
                             THEN e.lost[t] + 1 ELSE e.lost[t]],
              !.callOwn = e.callOwn /\ ~(Delay /\ e.callOn \in D)]

\* _apply_idle_status
Idle(e) ==
    IF Inactive(e)
    THEN [CancelPending(e, Targets) EXCEPT !.coolTimer = [t \in Targets |-> FALSE],
                                           !.status = IdleStatus(e)]
    ELSE [e EXCEPT !.status = IdleStatus(e)]

\* _clear_suppression_state
ClearSuppression(e) == [e EXCEPT !.sup = "none", !.supTimer = FALSE]

\* _schedule_suppression_timer: cancel, then arm only for an end that is ahead
ScheduleSuppressionTimer(e) == [e EXCEPT !.supTimer = e.loaded /\ e.sup = "active"]

\* _rearm_cooldown_broadcasts
RearmCooldownBroadcasts(e) ==
    [e EXCEPT !.coolTimer = [t \in Targets |-> e.coolTimer[t] \/ e.cool[t]]]

-----------------------------------------------------------------------------
(* Enforcement.                                                            *)

\* _trigger_loop_protection
LoopProtectionUntimed(e) ==  \* mutant: sets the suppression and no timer
    [CancelPending([e EXCEPT !.sup = "active"], Targets) EXCEPT !.status = "suppressed"]

LoopProtection(e) ==
    LET paused == ScheduleSuppressionTimer([e EXCEPT !.sup = "active"])
    IN  [CancelPending(paused, Targets) EXCEPT !.status = "suppressed"]

\* The limiter's verdict (0 disables it)
RateLimitedLate(e) == Limit > 0 /\ e.window > Limit  \* mutant: off by one
RateLimited(e) == Limit > 0 /\ e.window >= Limit

\* What an enforcing task still does once _enforce has returned: the delayed
\* _fire pops a handle it still owns and repaints, an evaluation task's
\* done-callback is put on the loop's queue.
EndTaskUnowned(e, t, own) ==      \* mutant: pops the handle, whoever owns it
    IF ~Delay THEN [e EXCEPT !.due[t] = TRUE] ELSE Idle([e EXCEPT !.pend[t] = "none"])

EndTaskUnpainted(e, t, own) ==    \* mutant: pops and does not repaint
    IF ~Delay THEN [e EXCEPT !.due[t] = TRUE]
    ELSE IF own THEN [e EXCEPT !.pend[t] = "none"] ELSE e

EndTaskKeepsHandle(e, t, own) ==  \* mutant: no finally
    IF ~Delay THEN [e EXCEPT !.due[t] = TRUE] ELSE e

EndTask(e, t, own) ==
    IF ~Delay THEN [e EXCEPT !.due[t] = TRUE]
    ELSE IF own THEN Idle([e EXCEPT !.pend[t] = "none"])
    ELSE e

\* _enforce from the lock to the service call
Enter(e, t, own) ==
    IF RateLimited(e) THEN EndTask(LoopProtection(e), t, FALSE)
    ELSE IF dev'[t] = "skip" THEN EndTask([e EXCEPT !.status = ArmedOrCooldown(e)], t, own)
    ELSE [e EXCEPT !.callOn = t, !.callOwn = own, !.forced = FALSE, !.unpainted = FALSE,
                   !.wasErr = (e.status = "error"), !.status = "enforcing"]

LockIdle(e) == /\ e.callOn = NoTarget
               /\ e.parked = {}
               /\ e.turn = NoTarget
               /\ \A t \in Targets : e.lost[t] = 0

\* One target of a pass is done: the status of a rule that was off at the press is
\* restored, and the next target takes its place at the lock.  (A free lock is taken in
\* a step of its own, and the order of the targets is left open.)
TurnEndsUnrestored(e) ==  \* mutant: leaves the status that the command painted
    IF e.todo = {} THEN {[ScheduleSuppressionTimer(e) EXCEPT !.wasOff = FALSE]}
    ELSE {[e EXCEPT !.turn = t, !.todo = @ \ {t}] : t \in e.todo}

TurnEnds(e) ==
    LET restored == IF e.wasOff THEN Idle(e) ELSE e
    IN  IF e.todo = {} THEN {[ScheduleSuppressionTimer(restored) EXCEPT !.wasOff = FALSE]}
        ELSE {[restored EXCEPT !.turn = t, !.todo = @ \ {t}] : t \in e.todo}

\* _enforce up to its first suspension
Acquire(e, t) ==
    IF LockIdle(e) THEN Enter(e, t, TRUE) ELSE [e EXCEPT !.parked = @ \cup {t}]

-----------------------------------------------------------------------------
(* Evaluation.  A handler evaluates one target or sweeps several.  A sweep *)
(* runs target after target in the order of the configuration, which the   *)
(* model leaves open: EvaluateLive yields one engine per status that the   *)
(* last target to write one may leave, and per target that is first to     *)
(* reach a free lock.                                                      *)

\* _schedule_eval_task, first half: cancel the task the handle points at.  One
\* that waits for the lock dies (and queues its done-callback); one in its service
\* call defers the cancel to its end, and is now without a handle.  With a delay no
\* evaluation task ever waits.
ReplaceTasks(e, S) ==
    IF Delay THEN e
    ELSE [e EXCEPT !.due     = [t \in Targets |-> e.due[t] \/ t \in S \cap e.parked],
                   !.parked  = e.parked \ S,
                   !.callOwn = e.callOwn /\ e.callOn \notin S]

\* _schedule_eval_task, second half: a task of S that ended in the call that
\* started it has queued its done-callback as well.
Started(e, S) ==
    IF Delay THEN e
    ELSE [e EXCEPT !.due = [t \in Targets |->
                              \/ e.due[t]
                              \/ t \in S \ e.parked /\ ~(e.callOn = t /\ e.callOwn)]]

\* The targets of S to enforce, and those to leave alone.  The rest of S violates
\* the rule and is in its cooldown.
Acting(e, S) == {t \in S : dev'[t] = "bad" /\ ~e.cool[t]}
Quiet(S) == {t \in S : dev'[t] # "bad"}

\* What the evaluations of S paint, and what the last of them leaves
Painted(e, S) ==
    {ArmedOrCooldown(e) : t \in Quiet(S)}
       \cup {"cooldown" : t \in {c \in S \ Quiet(S) : e.cool[c]}}
       \cup {"pending" : t \in IF Delay THEN Acting(e, S) ELSE {}}

Left(e, S) == IF Painted(e, S) = {} THEN {e.status} ELSE Painted(e, S)

\* async_evaluate past its guards (rule active, not suppressed, flags met) for each
\* target of S: with a delay every countdown starts anew ...
EvaluateDelayed(e, S) ==
    LET base  == CancelPending(e, Acting(e, S) \cup Quiet(S))
        armed == [base EXCEPT !.pend = [t \in Targets |-> IF t \in Acting(e, S) THEN "armed"
                                                          ELSE base.pend[t]]]
    IN  {[armed EXCEPT !.status = st] : st \in Left(armed, S)}

\* ... without one the first target to reach a free lock takes it, unless the limiter
\* stops the rule, and the others queue.
FirstEnters(e, t, S) ==
    LET in == Enter(e, t, TRUE)
    IN  IF in.callOn = t
        THEN {[in EXCEPT !.parked = Acting(e, S) \ {t}, !.status = st] :
                 st \in Painted(e, S) \cup {"enforcing"}}
        ELSE {in}

EvaluateNow(e, S) ==
    LET base == CancelPending(e, Quiet(S))
    IN  IF LockIdle(base) /\ Acting(e, S) # {}
        THEN UNION {UNION {FirstEnters([base EXCEPT !.status = st], t, S) :
                              st \in Painted(base, S) \cup {base.status}} :
                       t \in Acting(e, S)}
        ELSE {[base EXCEPT !.parked = @ \cup Acting(e, S), !.status = st] :
                 st \in Left(base, S)}

EvaluateLive(e, S) == IF Delay THEN EvaluateDelayed(e, S) ELSE EvaluateNow(e, S)

\* The first evaluation that finds the suppression elapsed sweeps the sibling
\* targets too.
EvaluatedUnswept(e, S) == S  \* mutant: no sweep of the siblings
Evaluated(e, S) ==
    IF ~Inactive(e) /\ e.started /\ e.sup = "elapsed" THEN Targets ELSE S

\* async_evaluate for each target of S, called by the listener or by a sweep
Evaluate(e0, S) ==
    LET all == Evaluated(e0, S)
        e   == ReplaceTasks(e0, all)
        c   == IF e.sup = "elapsed" THEN ClearSuppression(e) ELSE e
        outcomes ==
            IF Inactive(e) THEN {Idle(e)}
            ELSE IF ~e.started THEN {e}
            ELSE IF e.sup = "active" THEN {[e EXCEPT !.status = "suppressed"]}
            ELSE IF ~flag' THEN {[CancelPending(c, Targets) EXCEPT !.status = "conditional"]}
            ELSE EvaluateLive(c, all)
    IN  {Started(o, all) : o \in outcomes}

\* async_evaluate for a flag entity, which is no target
EvaluateFlag(e) ==
    LET c == IF e.sup = "elapsed" THEN ClearSuppression(e) ELSE e
        met == [c EXCEPT !.status = ArmedOrCooldown(c)]
        violating == {t \in Targets : dev'[t] = "bad"}
    IN  IF Inactive(e) THEN {Idle(e)}
        ELSE IF e.sup = "active" THEN {[e EXCEPT !.status = "suppressed"]}
        ELSE IF ~flag' THEN {[CancelPending(c, Targets) EXCEPT !.status = "conditional"]}
        ELSE IF violating = {} THEN {met} ELSE Evaluate(met, violating)

\* async_evaluate for the source entity, which is no target either
EvaluateSource(e) ==
    LET c == IF e.sup = "elapsed" THEN ClearSuppression(e) ELSE e
    IN  IF Inactive(e) THEN {Idle(e)}
        ELSE IF ~e.started THEN {e}
        ELSE IF e.sup = "active" THEN {[e EXCEPT !.status = "suppressed"]}
        ELSE IF ~flag' THEN {[CancelPending(c, Targets) EXCEPT !.status = "conditional"]}
        ELSE Evaluate([c EXCEPT !.status = ArmedOrCooldown(c)], Targets)

\* The re-arm sweep that follows every change from inactive to active
SweepNothing(e) == {e}  \* mutant: repaints and sweeps no target
SweepUnchecked(e) ==     \* mutant: enforces without asking async_evaluate
    IF ~Inactive(e) /\ e.started THEN EvaluateLive(e, Targets) ELSE {e}

Sweep(e) == IF ~Inactive(e) /\ e.started THEN Evaluate(e, Targets) ELSE {e}

-----------------------------------------------------------------------------
(* The world, and the callbacks it wakes.                                  *)

World == <<dev, flag, master>>

\* The window may be over the limit, which the slider can lower at any time.
Init ==
    /\ dev \in [Targets -> DeviceStates]
    /\ flag \in BOOLEAN
    /\ master \in BOOLEAN
    /\ \E enabled \in BOOLEAN, sup \in {"none", "active", "elapsed"},
          cool \in [Targets -> IF Debounce THEN BOOLEAN ELSE {FALSE}],
          errs \in 0..ErrorThreshold, window \in 0..Limit + 1 :
         eng = [ enabled |-> enabled, started |-> FALSE, loaded |-> TRUE,
                 sup |-> sup, supTimer |-> (sup = "active"),
                 pend |-> [t \in Targets |-> "none"], parked |-> {},
                 lost |-> [t \in Targets |-> 0],
                 callOn |-> NoTarget, callOwn |-> FALSE, wasErr |-> FALSE,
                 forced |-> FALSE, turn |-> NoTarget, todo |-> {}, wasOff |-> FALSE,
                 due |-> [t \in Targets |-> FALSE],
                 cool |-> cool, coolTimer |-> [t \in Targets |-> FALSE],
                 window |-> window, errs |-> errs, succs |-> 0, clearing |-> FALSE,
                 unpainted |-> FALSE,
                 status |-> IF ~master THEN "master_disabled"
                            ELSE IF ~enabled THEN "disabled" ELSE "starting" ]

\* A target writes its state (the same one again, when only an attribute moved)
DeviceMoves(t) ==
    \E v \in DeviceStates :
        /\ dev' = [dev EXCEPT ![t] = v]
        /\ UNCHANGED <<flag, master>>
        /\ eng' \in IF eng.loaded THEN Evaluate(eng, {t}) ELSE {eng}

FlagMoves ==
    /\ flag' \in BOOLEAN
    /\ UNCHANGED <<dev, master>>
    /\ eng' \in IF eng.loaded THEN EvaluateFlag(eng) ELSE {eng}

\* The source of a dynamic mode moves, and with it the verdict of every target
SourceMoves ==
    /\ Dynamic
    /\ dev' \in [Targets -> DeviceStates]
    /\ UNCHANGED <<flag, master>>
    /\ eng' \in IF eng.loaded THEN EvaluateSource(eng) ELSE {eng}

\* switch.entity_guard_master, and _handle_master_changed
MasterSet(on) ==
    /\ "master" \in UserOps
    /\ master' = on
    /\ UNCHANGED <<dev, flag>>
    /\ LET idle == Idle(eng)
            r    == IF on /\ idle.status = "cooldown"
                    THEN RearmCooldownBroadcasts(idle) ELSE idle
       IN  eng' \in IF eng.loaded THEN Sweep(r) ELSE {eng}

\* _handle_startup_grace_done
GraceDone ==
    /\ eng.loaded /\ ~eng.started
    /\ UNCHANGED World
    /\ eng' \in Sweep(Idle([eng EXCEPT !.started = TRUE]))

\* set_enabled
SetEnabled(on) ==
    /\ "enable" \in UserOps /\ eng.loaded
    /\ UNCHANGED World
    /\ LET e    == [eng EXCEPT !.enabled = on]
            kept == IF e.sup = "elapsed" THEN ClearSuppression(e) ELSE e
            idle == Idle(ScheduleSuppressionTimer(kept))
            r    == IF idle.status = "cooldown" THEN RearmCooldownBroadcasts(idle) ELSE idle
       IN  eng' \in IF on THEN Sweep(r) ELSE {Idle([e EXCEPT !.supTimer = FALSE])}

\* async_suppress
SuppressKeepsCountdowns ==  \* mutant: does not cancel what is pending
    /\ "suppress" \in UserOps /\ eng.loaded
    /\ UNCHANGED World
    /\ LET e == ScheduleSuppressionTimer([eng EXCEPT !.sup = "active"])
       IN  eng' = IF e.status = "error" THEN e ELSE Idle(e)

Suppress ==
    /\ "suppress" \in UserOps /\ eng.loaded
    /\ UNCHANGED World
    /\ LET e == CancelPending(ScheduleSuppressionTimer([eng EXCEPT !.sup = "active"]), Targets)
       IN  eng' = IF e.status = "error" THEN e ELSE Idle(e)

\* async_unsuppress
Unsuppress ==
    /\ "suppress" \in UserOps /\ eng.loaded
    /\ UNCHANGED World
    /\ eng' \in Sweep(Idle(ClearSuppression(eng)))

\* Time passes the suppression's end ...
SuppressionElapses ==
    /\ eng.sup = "active"
    /\ eng' = [eng EXCEPT !.sup = "elapsed"]
    /\ UNCHANGED World

\* ... and _handle_suppression_expired runs, unless its timer was cancelled before
SuppressionTimerFires ==
    /\ eng.supTimer /\ eng.sup = "elapsed"
    /\ UNCHANGED World
    /\ eng' \in Sweep(Idle(ClearSuppression(eng)))

\* async_reset_cooldowns
ResetCooldowns ==
    /\ "reset" \in UserOps /\ eng.loaded
    /\ UNCHANGED World
    /\ eng' = Idle([ScheduleSuppressionTimer(eng) EXCEPT
                        !.cool = [t \in Targets |-> FALSE],
                        !.coolTimer = [t \in Targets |-> FALSE],
                        !.succs = 0])

\* async_clear_history up to the await of its save ...
ClearHistory ==
    /\ "clear" \in UserOps /\ eng.loaded /\ ~eng.clearing
    /\ UNCHANGED World
    /\ eng' = [ScheduleSuppressionTimer(eng) EXCEPT
                   !.cool = [t \in Targets |-> FALSE],
                   !.coolTimer = [t \in Targets |-> FALSE],
                   !.window = 0, !.errs = 0, !.succs = 0, !.clearing = TRUE]

\* ... and from there
ClearHistoryRepaints ==
    /\ eng.clearing
    /\ UNCHANGED World
    /\ eng' = Idle([eng EXCEPT !.clearing = FALSE,
                               !.status = IF @ = "error" THEN "starting" ELSE @])

\* _handle_midnight (its counters are not modelled): a repaint
Midnight ==
    /\ eng.loaded
    /\ UNCHANGED World
    /\ eng' = Idle(eng)

\* A pass is under way.
Pressed(e) == e.turn # NoTarget \/ e.forced

\* async_test_enforce, up to its wait for the lock.  Bounds: one pass at a time, and
\* none while the window is over the limit.
Press ==
    /\ "press" \in UserOps /\ eng.loaded
    /\ ~Pressed(eng) /\ eng.window <= Limit
    /\ UNCHANGED World
    /\ eng' \in {[eng EXCEPT !.wasOff = Inactive(eng), !.turn = t, !.todo = Targets \ {t}] :
                     t \in Targets}

\* async_unload
Unload ==
    /\ "unload" \in UserOps /\ eng.loaded
    /\ UNCHANGED World
    /\ LET e == CancelPending(ReplaceTasks(eng, Targets), Targets)
       IN  eng' = [e EXCEPT !.loaded = FALSE, !.supTimer = FALSE,
                            !.coolTimer = [t \in Targets |-> FALSE]]

-----------------------------------------------------------------------------
(* Timers, the lock, the service call.                                     *)

\* _fire of _schedule_delayed_enforcement, up to its first suspension
DelayTimerFires(t) ==
    /\ eng.pend[t] = "armed"
    /\ UNCHANGED World
    /\ LET dropped == [eng EXCEPT !.pend[t] = "none"]
       IN  eng' = IF Inactive(eng) THEN Idle(eng)
                  ELSE IF eng.sup = "active" THEN Idle(dropped)
                  ELSE IF dev[t] # "bad" \/ ~flag
                       THEN [dropped EXCEPT !.status = ArmedOrCooldown(dropped)]
                  ELSE Acquire([eng EXCEPT !.pend[t] = "firing"], t)

\* reentrance_lock is free and goes to a waiting enforcement of t.  asyncio hands
\* it over in FIFO order; the model lets any waiter be the next.
OwnerGranted(t) ==
    /\ eng.callOn = NoTarget
    /\ t \in eng.parked
    /\ UNCHANGED World
    /\ eng' = Enter([eng EXCEPT !.parked = @ \ {t}], t, TRUE)

LostGranted(t) ==
    /\ eng.callOn = NoTarget
    /\ eng.lost[t] > 0
    /\ UNCHANGED World
    /\ eng' = Enter([eng EXCEPT !.lost[t] = @ - 1], t, FALSE)

\* A pass gets the lock for t: no limiter, but the same skips as every enforcement
TurnGranted(t) ==
    /\ eng.callOn = NoTarget
    /\ eng.turn = t
    /\ UNCHANGED World
    /\ LET e == [eng EXCEPT !.turn = NoTarget]
       IN  eng' \in IF dev[t] = "skip" THEN TurnEnds([e EXCEPT !.status = ArmedOrCooldown(e)])
                    ELSE {[e EXCEPT !.callOn = t, !.callOwn = FALSE, !.forced = TRUE,
                                    !.unpainted = FALSE,
                                    !.wasErr = (e.status = "error"),
                                    !.status = "enforcing"]}

\* The service call is over: the lock is released
Released == [eng EXCEPT !.callOn = NoTarget, !.callOwn = FALSE, !.forced = FALSE,
                        !.wasErr = FALSE]

\* What follows an enforcement of t that has released the lock and painted e
After(e, t) == IF eng.forced THEN TurnEnds(e) ELSE {EndTask(e, t, eng.callOwn)}

\* The call returned and the tail of _enforce runs; a press counts like any other.  The
\* cooldown is counted from before the wait for the lock, so its end may be past already
\* (live = FALSE).
CallSucceeds(t, live) ==
    LET recovering == eng.wasErr /\ eng.succs + 1 < RecoveryThreshold
        counted == [Released EXCEPT
                       !.window  = IF Limit > 0 THEN @ + 1 ELSE @,
                       !.succs   = IF recovering THEN @ + 1 ELSE 0,
                       !.errs    = IF recovering THEN @ ELSE 0,
                       !.cool[t] = IF Debounce THEN live ELSE @]
        painted == [counted EXCEPT
                       !.status = IF recovering THEN "error" ELSE IdleStatus(counted),
                       !.coolTimer[t] = Debounce \/ @]
    IN  /\ "ok" \in CallResults
        /\ eng.callOn = t
        /\ UNCHANGED World
        /\ eng' \in After(painted, t)

\* The call raised or timed out (_record_failure); from ErrorThreshold failures on
\* the count makes no difference and is not kept.
CallFails(t) ==
    LET failures == IF eng.errs < ErrorThreshold THEN eng.errs + 1 ELSE eng.errs
        counted  == [Released EXCEPT !.errs = failures, !.succs = 0]
        painted  == [counted EXCEPT !.status = IF failures = ErrorThreshold THEN "error"
                                               ELSE ArmedOrCooldown(counted)]
    IN  /\ "fail" \in CallResults
        /\ eng.callOn = t
        /\ UNCHANGED World
        /\ eng' \in After(painted, t)

\* The call raised for a dead member of a group that is as desired: a skip
CallSkipsDeadMember(t) ==
    /\ "dead_member" \in CallResults
    /\ eng.callOn = t /\ dev[t] # "bad"
    /\ UNCHANGED World
    /\ eng' \in After([Released EXCEPT !.status = ArmedOrCooldown(Released)], t)

\* The call itself was cancelled, by the integration that served it: CancelledError
\* leaves _enforce with no tail and no repaint, and ends the pass or the task.  Only the
\* "finally" of a delayed _fire that owns its handle repaints.
CallAborts(t) ==
    LET cut == [Released EXCEPT !.unpainted = eng.forced \/ ~(Delay /\ eng.callOwn)]
    IN  /\ "abort" \in CallResults
        /\ eng.callOn = t
        /\ UNCHANGED World
        /\ eng' = IF eng.forced THEN [cut EXCEPT !.todo = {}, !.wasOff = FALSE]
                  ELSE EndTask(cut, t, eng.callOwn)

CallEnds ==
    \E t \in Targets :
        \/ \E live \in IF Debounce THEN BOOLEAN ELSE {FALSE} : CallSucceeds(t, live)
        \/ CallFails(t)
        \/ CallSkipsDeadMember(t)
        \/ CallAborts(t)

\* The done-callback of an evaluation task of t: pops whatever handle t has now
DoneCallback(t) ==
    /\ eng.due[t]
    /\ UNCHANGED World
    /\ eng' = [eng EXCEPT !.due[t] = FALSE,
                          !.parked = @ \ {t},
                          !.lost[t] = IF t \in eng.parked THEN @ + 1 ELSE @,
                          !.callOwn = @ /\ eng.callOn # t]

CooldownElapses(t) ==
    /\ eng.cool[t]
    /\ eng' = [eng EXCEPT !.cool[t] = FALSE]
    /\ UNCHANGED World

\* _broadcast_after_cooldown
CooldownTimerFires(t) ==
    /\ eng.coolTimer[t] /\ ~eng.cool[t]
    /\ UNCHANGED World
    /\ LET e == [eng EXCEPT !.coolTimer[t] = FALSE]
       IN  eng' = IF e.loaded THEN Idle(e) ELSE e

\* An entry of rate_limit_window grows older than 60 s
WindowAges ==
    /\ eng.window > 0
    /\ eng' = [eng EXCEPT !.window = @ - 1]
    /\ UNCHANGED World

-----------------------------------------------------------------------------
(* Specification.                                                          *)

Operations ==
    \/ \E on \in BOOLEAN : MasterSet(on) \/ SetEnabled(on)
    \/ Suppress \/ Unsuppress \/ ResetCooldowns \/ Press
    \/ ClearHistory \/ ClearHistoryRepaints \/ Unload

Clock ==
    \/ GraceDone \/ Midnight \/ SuppressionElapses \/ SuppressionTimerFires \/ WindowAges
    \/ \E t \in Targets : CooldownElapses(t) \/ CooldownTimerFires(t)

Tasks ==
    \/ \E t \in Targets : DelayTimerFires(t) \/ OwnerGranted(t) \/ LostGranted(t)
                             \/ TurnGranted(t) \/ DoneCallback(t)
    \/ CallEnds

\* Bound: the queue holds at most MaxLost unowned enforcements of a target
Next ==
    /\ \/ \E t \in Targets : DeviceMoves(t)
       \/ FlagMoves \/ SourceMoves \/ Operations \/ Clock \/ Tasks
    /\ \A t \in Targets : eng'.lost[t] <= MaxLost

Spec == Init /\ [][Next]_vars

\* asyncio resumes the waiters of a lock in FIFO order, so one that keeps waiting
\* is granted a lock that keeps being released; wait_for ends every call after
\* ENFORCE_TIMEOUT_SECONDS; a countdown that nobody restarts runs out.
Fairness == /\ \A t \in Targets : /\ SF_vars(OwnerGranted(t))
                                   /\ SF_vars(LostGranted(t))
                                   /\ WF_vars(DelayTimerFires(t))
            /\ SF_vars(\E t \in Targets : TurnGranted(t))
            /\ WF_vars(CallEnds)

FairSpec == Spec /\ Fairness

-----------------------------------------------------------------------------
(* Properties.                                                             *)

\* Every variable has its type.
TypeOK == /\ dev \in [Targets -> DeviceStates]
          /\ flag \in BOOLEAN
          /\ master \in BOOLEAN
          /\ eng \in EngineType

\* The rule may act: what async_evaluate checks before it looks at a target.
MayAct == /\ eng.loaded /\ eng.started /\ eng.enabled /\ master
          /\ eng.sup # "active" /\ flag

\* A countdown that still runs belongs to a target that violates a rule that may
\* act: every handler that takes one of the reasons away (an event of the target,
\* a flag, either switch, suppress, loop protection, unload) cancels it.  The
\* checks that the delayed _fire repeats are a second line only.
CountdownJustified ==
    \A t \in Targets : eng.pend[t] = "armed" => MayAct /\ dev[t] = "bad"

\* The limiter holds: however many tasks wait for the lock, no success of the automatic
\* path brings the window over the limit, the check and the append of _enforce being in
\* one critical section of reentrance_lock.  Only a press, which skips the check and
\* counts all the same, does.  (A slider that lowers the limit below the window leaves
\* it there until its entries have aged.)
OnlyPressesExceedLimit ==
    [][Limit > 0 /\ eng'.window > eng.window /\ eng'.window > Limit => eng.forced]_vars

\* The status of a loaded rule never shows PENDING without a handle to show, nor
\* ENFORCING without a call in flight: every path that ends one of them repaints, but
\* for a call that was itself cancelled, in an evaluation task, in a pass, or in a
\* delayed _fire that has lost its handle.
TransientStatusIsLive ==
    eng.loaded => /\ eng.status = "pending" => HasPending(eng)
                  /\ eng.status = "enforcing" => eng.callOn # NoTarget \/ eng.unpainted

\* While an enabled rule is suppressed its expiry timer is armed, through every
\* sequence of suppress, disable, enable, reset, clear and loop protection.
SuppressionEndWatched ==
    eng.loaded /\ eng.enabled /\ eng.sup = "active" => eng.supTimer

\* t violates the rule and nothing excuses the rule from enforcing.
Guardable(t) == /\ MayAct /\ eng.sup = "none"
                /\ dev[t] = "bad" /\ ~eng.cool[t]

\* An enforcement of t is scheduled, waiting or in its call.
Attended(t) == \/ eng.pend[t] # "none"
               \/ t \in eng.parked
               \/ eng.lost[t] > 0
               \/ eng.callOn = t

\* Whenever a violation becomes enforceable, by the target's own event or because
\* the rule comes back (grace, either switch, a flag, the end of a suppression by
\* timer, by service or found late by another target's event), the same step
\* attends to it.  The end of a cooldown is excepted: it only repaints.
OnsetIsAttended ==
    [][\A t \in Targets :
          ~Guardable(t) /\ Guardable(t)' /\ ~eng.cool[t] => Attended(t)']_vars

\* An enforcement that is due for an enforceable violation is never dropped: what
\* cancels or replaces a countdown or a waiting task, or ends another task of the
\* same target, leaves one that will enforce.
AttentionIsKept ==
    [][\A t \in Targets :
          /\ Guardable(t) /\ Guardable(t)'
          /\ eng.pend[t] = "armed" \/ t \in eng.parked \/ eng.lost[t] > 0
          => Attended(t)']_vars

\* Automatic enforcements of t that have begun: waiting for the lock, or in their call.
Begun(e, t) == e.lost[t] + (IF t \in e.parked THEN 1 ELSE 0)
                         + (IF e.callOn = t /\ ~e.forced THEN 1 ELSE 0)

\* The automatic path of a rule that may not act begins nothing: whatever suppressed,
\* disabled, unloaded or gated it, the enforcements that had begun by then are the last
\* ones, and their number only falls.  (They are sent all the same: _enforce re-checks
\* nothing when it gets reentrance_lock.  And a press begins its calls whatever the rule
\* may do.)
BacklogOnlyDrains ==
    [][~MayAct' => \A t \in Targets : Begun(eng', t) <= Begun(eng, t)]_vars

\* A rule that shows DISABLED or MASTER_DISABLED goes on to show it while it is off,
\* through suppress, reset, clear, midnight, timers and events: only an automatic
\* enforcement that had begun before it was switched off, or a pass of the force button,
\* may paint over it.  And a pass that was pressed on a rule that is off shows so again
\* when a command of it is over, unless that call was aborted.
ShownOff(e) == e.status \in {"disabled", "master_disabled"}

OffIsLeft == eng.loaded /\ ShownOff(eng) /\ Inactive(eng') /\ ~ShownOff(eng')

OffIsKept ==
    [][/\ OffIsLeft => Pressed(eng) \/ \E t \in Targets : Begun(eng, t) > 0
       /\ eng.forced /\ ~eng'.forced /\ eng.wasOff /\ Inactive(eng')
            => ShownOff(eng') \/ eng'.unpainted]_vars

\* Once targets, flags and users leave the rule alone and no suppression ends any more
\* (loop protection and the violation it stopped would alternate for ever), every
\* enforcement that is due gets its turn and the rule comes to rest: no task is stuck
\* behind the lock, no handle outlives its task.
AtRest == ~Pressed(eng) /\ \A t \in Targets : ~Attended(t)

QuietClock == \/ Midnight \/ SuppressionTimerFires \/ WindowAges
              \/ \E t \in Targets : CooldownElapses(t) \/ CooldownTimerFires(t)

ComesToRest == <>[][Tasks \/ QuietClock]_vars => <>[]AtRest
=============================================================================
