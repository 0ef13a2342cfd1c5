----------------------------- MODULE VerifyCycle -----------------------------
(***************************************************************************)
(* Verify-after-enforce of one rule: _arm_verify to _cancel_verify of      *)
(* custom_components/entity_guard/rule_engine.py, with everything that     *)
(* arms, confirms, drops, retries or exhausts a cycle.  The rule has       *)
(* verify_enabled and a state mode, and is past its startup grace.         *)
(*                                                                         *)
(* Three kinds of enforcement share reentrance_lock: automatic ones, the   *)
(* user's presses of the force button, and a cycle's own correctives.      *)
(* RuleEngine models the automatic path in detail; here a cooldown, ERROR  *)
(* and an expired suppression nobody noticed yet are left out, and the     *)
(* limiter trips whenever it likes.  _enforce always finds a command to    *)
(* send: its skips (no source value, no mapping) are GuardLoop's and       *)
(* ForcePass's.                                                            *)
(*                                                                         *)
(* Operators map the engine vc to the engine that a method leaves behind   *)
(* and read the world primed, because a handler runs after the event that  *)
(* woke it.                                                                *)
(***************************************************************************)
EXTENDS Naturals, FiniteSets

CONSTANTS
    Targets,      \* the rule's target entities
    NoTask,       \* "reentrance_lock is free"
    Delay,        \* delay_seconds > 0
    Limiter,      \* max_enforcements_per_minute > 0
    Dynamic,      \* mode dynamic_state: a source entity sets the desired state
    MaxAttempts,  \* VERIFY_MAX_ATTEMPTS
    MaxStreak,    \* CONSECUTIVE_EXHAUSTION_LIMIT
    UserOps       \* operations the environment may request

ASSUME CycleAssumption == /\ Delay \in BOOLEAN
                          /\ Limiter \in BOOLEAN
                          /\ Dynamic \in BOOLEAN
                          /\ MaxAttempts \in Nat
                          /\ MaxStreak \in Nat \ {0}

VARIABLES
    dev,     \* dev[t]: "good" (as desired), "bad", "gone" (offline, unknown, missing)
    flag,    \* every conditional flag matches
    master,  \* the hub's master switch
    vc       \* the engine, see CycleType

vars == <<dev, flag, master, vc>>
World == <<dev, flag, master>>

\* An enforcement that waits for the lock or holds it: of an evaluation; of a delayed
\* _fire that owns its handle or lost it; of a press, made while the rule was off or
\* not; a corrective, with its is_forced.
EvalTask  == [kind : {"eval"}, t : Targets]
FireTask  == [kind : {"fire"}, t : Targets, own : BOOLEAN]
PressTask == [kind : {"press"}, t : Targets, inactive : BOOLEAN]
CorrTask  == [kind : {"corr"}, t : Targets, forced : BOOLEAN]
AutoTask  == EvalTask \cup FireTask
Task      == AutoTask \cup PressTask \cup CorrTask

ASSUME TaskAssumption == NoTask \notin Task

Verdicts == {"verified", "unreachable", "cancelled"}
Message  == [t : Targets, kind : Verdicts \cup {"enforced"}, forced : BOOLEAN]

CycleType ==
    [ enabled  : BOOLEAN,                 \* RuleRuntimeState.enabled
      loaded   : BOOLEAN,                 \* ~_is_unloaded
      sup      : BOOLEAN,                 \* suppressed_until is ahead
      pend     : [Targets -> {"none", "armed", "firing"}],  \* _pending_enforcements
      queue    : SUBSET Task,             \* waiting for reentrance_lock
      call     : Task \cup {NoTask},      \* the holder, in its service call
      armed    : [Targets -> BOOLEAN],    \* _pending_verifications
      attempts : [Targets -> 0..MaxAttempts],  \* _verify_attempts
      streak   : [Targets -> 0..MaxStreak],    \* _consecutive_exhaustions, up to the limit
      mark     : [Targets -> BOOLEAN],    \* _forced_verifications
      shown    : BOOLEAN,                 \* _current_status is VERIFYING
      said     : SUBSET Message,          \* what the step fired on the event bus
      aborted  : BOOLEAN ]                \* history: the step aborted a service call

-----------------------------------------------------------------------------
(* Status and countdowns.                                                  *)

Inactive(v) == ~v.enabled \/ ~master'

\* _derive_armed_or_cooldown is VERIFYING ...
Verifying(v) == (\A t \in Targets : v.pend[t] = "none") /\ \E t \in Targets : v.armed[t]

\* ... and so is _derive_idle_status
IdleVerifying(v) == ~Inactive(v) /\ ~v.sup /\ Verifying(v)

\* _cancel_pending: the handles of D are dropped, a _fire that waits or enforces
\* goes on without owning one
CancelPending(v, D) ==
    LET orphan(k) == IF k \in FireTask /\ k.t \in D THEN [k EXCEPT !.own = FALSE] ELSE k
    IN  [v EXCEPT !.pend  = [t \in Targets |-> IF t \in D THEN "none" ELSE v.pend[t]],
                  !.queue = {orphan(k) : k \in v.queue},
                  !.call  = orphan(v.call)]

\* _apply_idle_status
Idle(v) == IF Inactive(v) THEN [CancelPending(v, Targets) EXCEPT !.shown = FALSE]
           ELSE [v EXCEPT !.shown = IdleVerifying(v)]

\* _schedule_delayed_enforcement
Countdown(v, D) ==
    LET w == CancelPending(v, D)
    IN  [w EXCEPT !.pend = [t \in Targets |-> IF t \in D THEN "armed" ELSE w.pend[t]]]

\* _trigger_loop_protection
LoopProtection(v) == [CancelPending(v, Targets) EXCEPT !.sup = TRUE, !.shown = FALSE]

-----------------------------------------------------------------------------
(* The bookkeeping of a cycle.                                             *)

Say(v, t, kind, forced) ==
    [v EXCEPT !.said = @ \cup {[t |-> t, kind |-> kind, forced |-> forced]}]

CancelVerifyForgetsStreak(v, t) ==  \* mutant: resets the self-heal streak too
    [v EXCEPT !.armed[t] = FALSE, !.mark[t] = FALSE, !.streak[t] = 0]

\* _cancel_verify
CancelVerify(v, t) == [v EXCEPT !.armed[t] = FALSE, !.mark[t] = FALSE]

\* _arm_verify: cancels the cycle that is armed, if any
ArmKeepsMark(v, t, forced) ==  \* mutant: does not discard an old mark
    [v EXCEPT !.armed[t] = TRUE, !.mark[t] = @ \/ forced]

Arm(v, t, forced) == [CancelVerify(v, t) EXCEPT !.armed[t] = TRUE, !.mark[t] = forced]

ConfirmUnpainted(v, t, forced) ==  \* mutant: no repaint
    Say([v EXCEPT !.attempts[t] = 0], t, "verified", forced)

\* _confirm_verified, by a caller that has removed the handle
Confirm(v, t, forced) == Idle(Say([v EXCEPT !.attempts[t] = 0], t, "verified", forced))

\* _verify_drop_reason is not None; an unload is its only reason without a message
Dropped(v, t) == ~v.loaded \/ Inactive(v) \/ (~v.mark[t] /\ (v.sup \/ ~flag'))

Drop(v, t) == LET w == CancelVerify(v, t)
              IN  IF v.loaded THEN Say(w, t, "cancelled", v.mark[t]) ELSE w

\* _verify_reached: an offline target reads as reached
Reached(t) == dev'[t] # "bad"

-----------------------------------------------------------------------------
(* Enforcement: to the lock, to the service call, and from there.          *)

\* _enforce from the lock to the service call; only automatic runs meet the limiter
Enter(v, k) ==
    {[v EXCEPT !.call = k, !.shown = FALSE]}
        \cup IF Limiter /\ k \in AutoTask THEN {LoopProtection(v)} ELSE {}

\* Enforcements that start in one step: the first to reach a free lock enters, the
\* others queue, unless the limiter suppressed the rule before their turn
Start(v, tasks) ==
    IF tasks = {} THEN {v}
    ELSE IF v.call # NoTask \/ v.queue # {} THEN {[v EXCEPT !.queue = @ \cup tasks]}
    ELSE UNION {{IF w.call = k THEN [w EXCEPT !.queue = tasks \ {k}] ELSE w :
                    w \in Enter(v, k)} : k \in tasks}

\* _schedule_eval_task: a new evaluation of a target replaces the one that waits
Replace(v, S) == [v EXCEPT !.queue = {k \in @ : ~(k \in EvalTask /\ k.t \in S)}]

\* async_evaluate past its guards for each target of S.  A compliant target paints,
\* and may do so before or after a sibling has taken the lock.
EvaluateLive(v, S) ==
    LET bad   == {t \in S : dev'[t] = "bad"}
        base  == CancelPending(v, S \ bad)
        late  == Countdown(base, bad)
        paint(w) == IF S = bad THEN w ELSE [w EXCEPT !.shown = Verifying(w)]
        tasks == {[kind |-> "eval", t |-> t] : t \in bad}
    IN  IF Delay THEN {[late EXCEPT !.shown = Verifying(late)]}
        ELSE Start(paint(base), tasks) \cup {paint(w) : w \in Start(base, tasks)}

\* async_evaluate for each target of S, called by the listener or by a sweep
Evaluate(v0, S) ==
    LET v == Replace(v0, S)
    IN  IF Inactive(v) THEN {Idle(v)}
        ELSE IF v.sup THEN {[v EXCEPT !.shown = FALSE]}
        ELSE IF ~flag' THEN {[CancelPending(v, Targets) EXCEPT !.shown = FALSE]}
        ELSE EvaluateLive(v, S)

\* async_evaluate for a flag entity, which is no target: only violations are
\* evaluated
EvaluateFlag(v) ==
    LET violating == {t \in Targets : dev'[t] = "bad"}
        met == [v EXCEPT !.shown = Verifying(v)]
    IN  IF ~Inactive(v) /\ ~v.sup /\ flag'
        THEN IF violating = {} THEN {met} ELSE Evaluate(met, violating)
        ELSE Evaluate(v, {})

\* The re-arm sweep that follows every change from inactive to active
Sweep(v) == IF Inactive(v) THEN {v} ELSE Evaluate(v, Targets)

-----------------------------------------------------------------------------
(* The world, and the callbacks it wakes.                                  *)

\* The engine at the start of a step: nothing said yet
Engine == [vc EXCEPT !.said = {}, !.aborted = FALSE]

Init ==
    /\ dev \in [Targets -> {"good", "bad", "gone"}]
    /\ flag \in BOOLEAN
    /\ master \in BOOLEAN
    /\ \E enabled, sup \in BOOLEAN :
         vc = [ enabled |-> enabled, loaded |-> TRUE, sup |-> sup,
                pend |-> [t \in Targets |-> "none"],
                queue |-> {}, call |-> NoTask,
                armed |-> [t \in Targets |-> FALSE],
                attempts |-> [t \in Targets |-> 0],
                streak |-> [t \in Targets |-> 0],
                mark |-> [t \in Targets |-> FALSE],
                shown |-> FALSE, said |-> {}, aborted |-> FALSE ]

\* _handle_state_event on the cycle of t
OnEventUncancelled(v, t) ==  \* mutant: confirms and leaves the deadline armed
    LET moved == [v EXCEPT !.streak[t] = 0]
    IN  IF Reached(t) /\ v.armed[t] THEN Confirm(moved, t, v.mark[t]) ELSE moved

OnEvent(v, t) ==
    LET reached == dev'[t] = "good"
        left    == IF ~reached /\ (dev'[t] = "gone" \/ ~v.armed[t])
                   THEN CancelVerify(v, t) ELSE v
        moved   == [left EXCEPT !.streak[t] = 0]
        given   == [moved EXCEPT !.attempts[t] = 0]
    IN  IF reached /\ v.armed[t] /\ ~Dropped(moved, t)
        THEN Confirm(CancelVerify(moved, t), t, v.mark[t])
        ELSE IF ~v.armed[t] THEN given
        ELSE Idle(IF reached THEN Drop(given, t) ELSE given)

\* A state_changed event of target t, which need not change what the rule reads
DeviceMoves(t) ==
    /\ \E s \in {"good", "bad", "gone"} : dev' = [dev EXCEPT ![t] = s]
    /\ UNCHANGED <<flag, master>>
    /\ IF vc.loaded THEN vc' \in Evaluate(OnEvent(Engine, t), {t}) ELSE vc' = Engine

\* A flag entity changes
FlagMoves ==
    /\ flag' \in BOOLEAN
    /\ UNCHANGED <<dev, master>>
    /\ IF vc.loaded THEN vc' \in EvaluateFlag(Engine) ELSE vc' = Engine

\* The source entity asks for the other state: no target has moved, all are swept
SourceMoves ==
    /\ Dynamic
    /\ dev' = [t \in Targets |-> CASE dev[t] = "good" -> "bad"
                                     [] dev[t] = "bad"  -> "good"
                                     [] OTHER           -> dev[t]]
    /\ UNCHANGED <<flag, master>>
    /\ IF ~vc.loaded THEN vc' = Engine
       ELSE IF ~Inactive(vc) /\ ~vc.sup /\ flag
            THEN vc' \in Evaluate([Engine EXCEPT !.shown = Verifying(vc)], Targets)
            ELSE vc' \in Evaluate(Engine, {})

\* _handle_master_changed
MasterSet(on) ==
    /\ "master" \in UserOps
    /\ master' = on
    /\ UNCHANGED <<dev, flag>>
    /\ IF vc.loaded THEN vc' \in Sweep(Idle(Engine)) ELSE vc' = Engine

-----------------------------------------------------------------------------
(* Operations.                                                             *)

\* The disabled-drop of set_enabled, for every target
DropAllUnsaid(v) ==  \* mutant: looks at the handle after it was cancelled
    [v EXCEPT !.armed = [t \in Targets |-> FALSE], !.mark = [t \in Targets |-> FALSE],
              !.attempts = [t \in Targets |-> 0]]

DropAll(v) ==
    [v EXCEPT !.armed = [t \in Targets |-> FALSE],
              !.mark = [t \in Targets |-> FALSE],
              !.attempts = [t \in Targets |-> 0],
              !.said = @ \cup {[t |-> t, kind |-> "cancelled", forced |-> v.mark[t]] :
                                   t \in {u \in Targets : v.armed[u]}}]

\* set_enabled
SetEnabled(on) ==
    /\ "enable" \in UserOps /\ vc.loaded
    /\ UNCHANGED World
    /\ LET v == [Engine EXCEPT !.enabled = on]
       IN  vc' \in IF on THEN Sweep(Idle(v)) ELSE {Idle(DropAll(v))}

\* async_suppress leaves the cycles alone: each finds out at its own resolution
Suppress ==
    /\ "suppress" \in UserOps /\ vc.loaded
    /\ UNCHANGED World
    /\ vc' = Idle(CancelPending([Engine EXCEPT !.sup = TRUE], Targets))

\* async_unsuppress, and _handle_suppression_expired
SuppressionEnds ==
    /\ vc.sup /\ vc.loaded
    /\ UNCHANGED World
    /\ vc' \in Sweep(Idle([Engine EXCEPT !.sup = FALSE]))

\* The pass of async_test_enforce comes to target t.  Bound: no second press of the
\* same target while one waits.
Press(t) ==
    LET k == [kind |-> "press", t |-> t, inactive |-> Inactive(vc)]
    IN  /\ "press" \in UserOps /\ vc.loaded
        /\ UNCHANGED World
        /\ k \notin vc.queue
        /\ vc' \in Start(Engine, {k})

\* async_unload
Unload ==
    /\ "unload" \in UserOps /\ vc.loaded
    /\ UNCHANGED World
    /\ vc' = [CancelPending(Replace(Engine, Targets), Targets) EXCEPT
                  !.loaded   = FALSE,
                  !.armed    = [t \in Targets |-> FALSE],
                  !.attempts = [t \in Targets |-> 0],
                  !.mark     = [t \in Targets |-> FALSE],
                  !.streak   = [t \in Targets |-> 0]]

-----------------------------------------------------------------------------
(* Timers, the lock, the service call.                                     *)

\* _fire of _schedule_delayed_enforcement, up to its first suspension.  Bound: not
\* while an identical task waits.
CountdownFires(t) ==
    LET k == [kind |-> "fire", t |-> t, own |-> TRUE]
        gone == [Engine EXCEPT !.pend[t] = "none"]
    IN  /\ vc.pend[t] = "armed"
        /\ UNCHANGED World
        /\ vc' \in IF Inactive(vc) THEN {Idle(Engine)}
                   ELSE IF vc.sup THEN {Idle(gone)}
                   ELSE IF dev[t] # "bad" \/ ~flag THEN {[gone EXCEPT !.shown = Verifying(gone)]}
                   ELSE Start([Engine EXCEPT !.pend[t] = "firing"], {k})

OutOfAttempts(v, t) == v.attempts[t] >= MaxAttempts

\* The cycle of t has used up its correctives
Exhaust(v, t) ==
    LET count == IF v.streak[t] < MaxStreak THEN v.streak[t] + 1 ELSE MaxStreak
        spent == [v EXCEPT !.attempts[t] = 0, !.mark[t] = FALSE, !.streak[t] = count]
        told  == IF v.streak[t] = 0 THEN Say(spent, t, "unreachable", v.mark[t]) ELSE spent
    IN  Idle(IF count = MaxStreak THEN LoopProtection(told) ELSE Countdown(told, {t}))

\* _fire of _arm_verify, up to its first suspension.  Bound: not while a corrective of
\* this kind waits already.
Deadline(t) ==
    LET v == [Engine EXCEPT !.armed[t] = FALSE]
        k == [kind |-> "corr", t |-> t, forced |-> vc.mark[t]]
        lapsed == [v EXCEPT !.attempts[t] = 0, !.mark[t] = FALSE]
    IN  /\ vc.armed[t] /\ vc.loaded
        /\ k \notin vc.queue
        /\ UNCHANGED World
        /\ vc' \in IF Dropped(vc, t) THEN {Idle(Say(lapsed, t, "cancelled", vc.mark[t]))}
                   ELSE IF Reached(t)
                        THEN {Confirm([v EXCEPT !.mark[t] = FALSE], t, vc.mark[t])}
                   ELSE IF OutOfAttempts(v, t) THEN {Exhaust(v, t)}
                   ELSE Start([v EXCEPT !.attempts[t] = @ + 1], {k})

\* reentrance_lock is free and goes to a waiting enforcement, to any in the model
Granted(t) ==
    /\ vc.call = NoTask
    /\ UNCHANGED World
    /\ \E k \in vc.queue : k.t = t /\ vc' \in Enter([Engine EXCEPT !.queue = @ \ {k}], k)

\* The rest of an enforcing task, once _enforce has returned: the delayed _fire pops
\* a handle it owns, a press restores the status of an inactive rule, a corrective
\* arms the next deadline.
EndTask(v, k) ==
    IF k \in FireTask /\ k.own THEN Idle([v EXCEPT !.pend[k.t] = "none"])
    ELSE IF k \in PressTask /\ k.inactive THEN Idle(v)
    ELSE IF k \in CorrTask /\ v.loaded /\ ~Inactive(v) THEN Idle(Arm(v, k.t, k.forced))
    ELSE v

\* The tail of _enforce after a successful call: a first command arms a cycle, unless
\* one is armed, and confirms it at once when the target is as desired already
FastConfirmUngated(v, t, forced) ==  \* mutant: confirms whatever has lapsed meanwhile
    IF Reached(t) THEN Confirm(CancelVerify(v, t), t, forced) ELSE v

FastConfirm(v, t, forced) ==
    LET given == [v EXCEPT !.attempts[t] = 0]
    IN  IF ~Reached(t) THEN v
        ELSE IF Dropped(v, t) THEN Drop(given, t)
        ELSE Confirm(CancelVerify(v, t), t, forced)

Tail(v, k) ==
    IF k \in CorrTask \/ Inactive(v) \/ v.armed[k.t] THEN v
    ELSE FastConfirm(Arm(v, k.t, k \in PressTask), k.t, k \in PressTask)

Released == [Engine EXCEPT !.call = NoTask]

CallSucceeds(k) ==
    LET sent == Say(Released, k.t, "enforced", k \in PressTask)
        done == Tail(sent, k)
    IN  vc' = EndTask([done EXCEPT !.shown = IdleVerifying(done)], k)

\* The call raised or timed out (_record_failure)
CallFails(k) == vc' = EndTask([Released EXCEPT !.shown = Verifying(Released)], k)

\* The integration cancelled the call: _enforce raises through its caller, which does
\* no more than its finally, the handle of a delayed _fire.  A corrective leaves its
\* cycle here, with its attempt counted.
CallAborts(k) ==
    LET gone == [Released EXCEPT !.aborted = TRUE]
    IN  vc' = IF k \in FireTask THEN EndTask(gone, k) ELSE gone

CallEnds ==
    /\ vc.call # NoTask
    /\ UNCHANGED World
    /\ CallSucceeds(vc.call) \/ CallFails(vc.call) \/ CallAborts(vc.call)

-----------------------------------------------------------------------------
(* Specification.                                                          *)

Operations ==
    \/ \E on \in BOOLEAN : MasterSet(on) \/ SetEnabled(on)
    \/ Suppress \/ SuppressionEnds \/ Unload
    \/ \E t \in Targets : Press(t)

Tasks ==
    \/ \E t \in Targets : CountdownFires(t) \/ Deadline(t) \/ Granted(t)
    \/ CallEnds

Next == \/ \E t \in Targets : DeviceMoves(t)
        \/ FlagMoves \/ SourceMoves \/ Operations \/ Tasks

Spec == Init /\ [][Next]_vars

\* Timers fire, a lock that keeps being released comes to each waiter in turn (asyncio
\* queues them FIFO), and wait_for ends every call.
Fairness == /\ \A t \in Targets : /\ WF_vars(CountdownFires(t))
                                   /\ WF_vars(Deadline(t))
                                   /\ SF_vars(Granted(t))
            /\ WF_vars(CallEnds)

FairSpec == Spec /\ Fairness

-----------------------------------------------------------------------------
(* Properties.                                                             *)

\* Every variable has its type.
TypeOK == /\ dev \in [Targets -> {"good", "bad", "gone"}]
          /\ flag \in BOOLEAN
          /\ master \in BOOLEAN
          /\ vc \in CycleType

\* A cycle of t is open while its deadline is armed, and while its corrective waits or
\* is out
CallsCorrective(t) == vc.call \in CorrTask /\ vc.call.t = t

OpenCycles ==
    [t \in Targets |-> (IF vc.armed[t] THEN 1 ELSE 0)
                        + (IF CallsCorrective(t) THEN 1 ELSE 0)
                        + Cardinality({k \in vc.queue : k \in CorrTask /\ k.t = t})]

\* The cycle keeps VerifyContract: whichever of the event, the deadline and the
\* enforce tail resolves it, it is resolved once, and nothing but a sent command
\* opens one.
Contract == INSTANCE VerifyContract WITH open <- OpenCycles, said <- vc.said
ContractKept == Contract!Spec

\* The three judgement paths agree: "verified" is announced only by a rule that may
\* act at that moment, a forced cycle being judged by the rule's switches alone.
VerifiedIsPermitted ==
    \A m \in vc.said : m.kind = "verified"
        => vc.loaded /\ vc.enabled /\ master /\ (m.forced \/ (flag /\ ~vc.sup))

\* A cycle ends without a verdict only by unload, with a target that went offline, when
\* the rule was switched off around a corrective or the corrective's call was aborted,
\* in favour of another cycle of the same target, or in a streak whose unreachable
\* verdict is out already.
SilentEnd(t) == OpenCycles'[t] < OpenCycles[t]
                    /\ ~\E m \in vc'.said : m.t = t /\ m.kind \in Verdicts

SilentEndsAreExcused ==
    [][\A t \in Targets : SilentEnd(t) =>
           \/ ~vc'.loaded \/ dev'[t] = "gone" \/ OpenCycles[t] > 1 \/ vc.streak[t] > 0
           \/ /\ CallsCorrective(t) /\ vc'.call = NoTask
              /\ ~vc.enabled \/ ~master \/ vc'.aborted]_vars

\* A cycle that an automatic enforcement arms is not a forced one, whatever is left of
\* an earlier forced cycle: it must respect suppression and flags.
AutoCycleIsUnforced ==
    [][\A t \in Targets :
          vc.call \in AutoTask /\ vc.call.t = t /\ ~vc.armed[t] /\ vc'.armed[t]
              => ~vc'.mark[t]]_vars

\* A loaded rule shows VERIFYING only while a cycle is armed, or its corrective waits
\* for the lock: every path that resolves a cycle repaints.
VerifyingIsLive ==
    vc.loaded /\ vc.shown => \E t \in Targets : OpenCycles[t] > 0

\* Self-healing is bounded: once nothing outside acts any more and no suppression ends,
\* every cycle comes to an end, and so do the enforcements that re-open it.  The engine's
\* own expiry timer is a SuppressionEnds: after loop protection it sweeps the dead target
\* again, so between two ends of suppression the retries are bounded, not for ever.
AtRest == /\ vc.queue = {} /\ vc.call = NoTask
          /\ \A t \in Targets : vc.pend[t] = "none" /\ OpenCycles[t] = 0

DeadTargetIsGivenUp == <>[][Tasks]_vars => <>[]AtRest

=============================================================================
