------------------------- MODULE RuleEngineProofs -------------------------
(***************************************************************************)
(* Theorems about RuleEngine, for every set of targets, delay, debounce,   *)
(* limit and thresholds.  Every part has one lemma per operator and one    *)
(* step per action:                                                        *)
(*   - types, the limiter's count and the watch over a suppression (IInv); *)
(*   - countdowns run only while their reason lasts (Warranted, Tame);     *)
(*   - the status shows nothing that has ended (NoStray, Lit);             *)
(*   - what a method never touches, and that a rule that is off shows it   *)
(*     (IdleOff);                                                          *)
(*   - work begins only by the licence of the rule (Drains);               *)
(*   - whose handle a task pops (Owned);                                   *)
(*   - every onset is attended to and none is dropped (Ready, Answered).   *)
(***************************************************************************)
EXTENDS RuleEngine, TLAPS

\* The slot that an automatic call in flight will take; a pass holds the lock in a call.
Capped(e) == /\ Limit > 0 /\ e.callOn # NoTarget /\ ~e.forced => e.window < Limit
             /\ e.forced => e.callOn # NoTarget

\* The end of a suppression of e has its timer, and an unloaded e has none.
Watched(e) == /\ e.loaded /\ e.enabled /\ e.sup = "active" => e.supTimer
              /\ e.supTimer => e.loaded

\* What every operator from engine to engine preserves.
Sound(e) == e \in EngineType /\ Capped(e) /\ Watched(e)

-----------------------------------------------------------------------------
(* One lemma per operator.                                                 *)

LEMMA StatusType ==
  ASSUME NEW e PROVE IdleStatus(e) \in Status /\ ArmedOrCooldown(e) \in Status
BY DEF IdleStatus, ArmedOrCooldown, Status

\* e shows no call, and PENDING with a handle only: what a status derivation leaves.
Repainted(e) == e.status # "enforcing" /\ (e.status = "pending" => HasPending(e))

LEMMA StatusDerived ==
  ASSUME NEW e
  PROVE  /\ IdleStatus(e) # "enforcing" /\ ArmedOrCooldown(e) # "enforcing"
         /\ IdleStatus(e) = "pending" => HasPending(e)
         /\ ArmedOrCooldown(e) = "pending" => HasPending(e)
BY DEF IdleStatus, ArmedOrCooldown

LEMMA StatusRepaints ==
  ASSUME NEW e \in EngineType, NEW st \in {IdleStatus(e), ArmedOrCooldown(e)}
  PROVE  Repainted([e EXCEPT !.status = st])
<1>1. /\ [e EXCEPT !.status = st].status = st
      /\ [e EXCEPT !.status = st].pend = e.pend
  BY DEF EngineType
<1> QED BY <1>1, StatusDerived DEF Repainted, HasPending

LEMMA CancelPendingSound ==
  ASSUME NEW e, Sound(e), NEW D PROVE Sound(CancelPending(e, D))
<1> DEFINE pend   == [t \in Targets |-> IF t \in D THEN "none" ELSE e.pend[t]]
           parked == IF Delay THEN e.parked \ D ELSE e.parked
           lost   == [t \in Targets |-> IF Delay /\ t \in D /\ t \in e.parked
                                        THEN e.lost[t] + 1 ELSE e.lost[t]]
           own    == e.callOwn /\ ~(Delay /\ e.callOn \in D)
<1> e \in EngineType
  BY DEF Sound
<1>1. /\ pend \in [Targets -> {"none", "armed", "firing"}]
      /\ parked \in SUBSET Targets
      /\ lost \in [Targets -> Nat]
      /\ own \in BOOLEAN
  BY DEF EngineType
<1>2. CancelPending(e, D) =
        [e EXCEPT !.pend = pend, !.parked = parked, !.lost = lost, !.callOwn = own]
  BY DEF CancelPending
<1> HIDE DEF pend, parked, lost, own
<1>4. CancelPending(e, D) \in EngineType
  BY <1>1, <1>2 DEF EngineType
<1>5. /\ CancelPending(e, D).window = e.window
      /\ CancelPending(e, D).callOn = e.callOn
      /\ CancelPending(e, D).forced = e.forced
  BY DEF CancelPending, EngineType
<1>6. /\ CancelPending(e, D).loaded = e.loaded
      /\ CancelPending(e, D).enabled = e.enabled
      /\ CancelPending(e, D).sup = e.sup
      /\ CancelPending(e, D).supTimer = e.supTimer
  BY DEF CancelPending, EngineType
<1> QED BY <1>4, <1>5, <1>6 DEF Sound, Capped, Watched

LEMMA IdleSound ==
  ASSUME NEW e, Sound(e) PROVE Sound(Idle(e))
<1>1. Sound([e EXCEPT !.status = IdleStatus(e)])
  BY StatusType DEF Sound, Capped, Watched, EngineType
<1>2. Sound(CancelPending(e, Targets))
  BY CancelPendingSound
<1>3. Sound([CancelPending(e, Targets) EXCEPT !.coolTimer = [t \in Targets |-> FALSE],
                                              !.status = IdleStatus(e)])
  BY <1>2, StatusType DEF Sound, Capped, Watched, EngineType
<1> QED BY <1>1, <1>3 DEF Idle

LEMMA ClearSuppressionSound ==
  ASSUME NEW e \in EngineType, Capped(e) PROVE Sound(ClearSuppression(e))
BY DEF Sound, Capped, Watched, EngineType, ClearSuppression

LEMMA ScheduleSuppressionTimerSound ==
  ASSUME NEW e \in EngineType, Capped(e) PROVE Sound(ScheduleSuppressionTimer(e))
<1>1. (e.loaded /\ e.sup = "active") \in BOOLEAN
  OBVIOUS
<1> QED BY <1>1 DEF Sound, Capped, Watched, EngineType, ScheduleSuppressionTimer

LEMMA RearmCooldownBroadcastsSound ==
  ASSUME NEW e, Sound(e) PROVE Sound(RearmCooldownBroadcasts(e))
<1>1. [t \in Targets |-> e.coolTimer[t] \/ e.cool[t]] \in [Targets -> BOOLEAN]
  OBVIOUS
<1> QED BY <1>1 DEF Sound, Capped, Watched, EngineType, RearmCooldownBroadcasts

LEMMA LoopProtectionSound ==
  ASSUME NEW e, Sound(e) PROVE Sound(LoopProtection(e))
<1> DEFINE hit == [e EXCEPT !.sup = "active"]
           paused == ScheduleSuppressionTimer(hit)
<1>1. hit \in EngineType /\ Capped(hit)
  BY DEF Sound, Capped, EngineType
<1> HIDE DEF hit
<1>2. Sound(CancelPending(paused, Targets))
  BY <1>1, ScheduleSuppressionTimerSound, CancelPendingSound
<1>3. Sound([CancelPending(paused, Targets) EXCEPT !.status = "suppressed"])
  BY <1>2 DEF Sound, Capped, Watched, EngineType, Status
<1> QED BY <1>3 DEF LoopProtection, hit

LEMMA EndTaskSound ==
  ASSUME NEW e, Sound(e), NEW t \in Targets, NEW own PROVE Sound(EndTask(e, t, own))
<1>1. Sound([e EXCEPT !.due[t] = TRUE])
  BY DEF Sound, Capped, Watched, EngineType
<1>2. Sound([e EXCEPT !.pend[t] = "none"])
  BY DEF Sound, Capped, Watched, EngineType
<1> QED BY <1>1, <1>2, IdleSound DEF EndTask

LEMMA EnterSound ==
  ASSUME NEW e, Sound(e), NEW t \in Targets, NEW own \in BOOLEAN
  PROVE  Sound(Enter(e, t, own))
<1>1. CASE RateLimited(e)
  BY <1>1, LoopProtectionSound, EndTaskSound DEF Enter
<1>2. CASE ~RateLimited(e) /\ dev'[t] = "skip"
  <2>1. Sound([e EXCEPT !.status = ArmedOrCooldown(e)])
    BY StatusType DEF Sound, Capped, Watched, EngineType
  <2> QED BY <1>2, <2>1, EndTaskSound DEF Enter
<1>3. CASE ~RateLimited(e) /\ dev'[t] # "skip"
  <2> DEFINE in == [e EXCEPT !.callOn = t, !.callOwn = own, !.forced = FALSE,
                             !.unpainted = FALSE,
                             !.wasErr = (e.status = "error"), !.status = "enforcing"]
  <2> DEFINE err == e.status = "error"
             st  == "enforcing"
  <2>0. err \in BOOLEAN /\ st \in Status
    BY DEF Status
  <2>1. in \in EngineType
    <3> HIDE DEF err, st
    <3>1. e \in EngineType
      BY DEF Sound
    <3>2. [e EXCEPT !.callOn = t, !.callOwn = own, !.forced = FALSE, !.unpainted = FALSE,
                    !.wasErr = err, !.status = st] \in EngineType
      BY <2>0, <3>1 DEF EngineType
    <3> QED BY <3>2 DEF err, st
  <2>2. Capped(in)
    BY <1>3, ConfigAssumption DEF RateLimited, Sound, Capped, EngineType
  <2>3. Watched(in)
    BY DEF Sound, Watched, EngineType
  <2>4. Enter(e, t, own) = in
    BY <1>3 DEF Enter
  <2> HIDE DEF in
  <2> QED BY <2>1, <2>2, <2>3, <2>4 DEF Sound
<1> QED BY <1>1, <1>2, <1>3

\* x is e but for the status, the pass of the force button, and the timer it re-arms.
Kept(e, x) ==
    /\ x.loaded = e.loaded /\ x.started = e.started /\ x.enabled = e.enabled
    /\ x.sup = e.sup /\ x.pend = e.pend /\ x.parked = e.parked /\ x.lost = e.lost
    /\ x.callOn = e.callOn /\ x.callOwn = e.callOwn /\ x.forced = e.forced
    /\ x.cool = e.cool /\ x.window = e.window /\ x.due = e.due

PassOnly(e, x) == Kept(e, x) /\ x.status = e.status /\ x.unpainted = e.unpainted

LEMMA TurnEndsLeaves ==
  ASSUME NEW e, Sound(e), NEW x \in TurnEnds(e)
  PROVE  Sound(x) /\ PassOnly(IF e.wasOff THEN Idle(e) ELSE e, x)
<1> DEFINE r == IF e.wasOff THEN Idle(e) ELSE e
           end == ScheduleSuppressionTimer(r)
<1>1. Sound(r)
  BY IdleSound
<1>2. x \in IF e.todo = {} THEN {[end EXCEPT !.wasOff = FALSE]}
            ELSE {[r EXCEPT !.turn = n, !.todo = @ \ {n}] : n \in e.todo}
  BY Zenon DEF TurnEnds
<1>3. e.todo \in SUBSET Targets
  BY DEF Sound, EngineType
<1>4. Sound(end) /\ PassOnly(r, end)
  <2> HIDE DEF r
  <2>1. Sound(end)
    BY <1>1, ScheduleSuppressionTimerSound DEF Sound
  <2>2. PassOnly(r, end)
    BY <1>1 DEF ScheduleSuppressionTimer, Kept, PassOnly, Sound, EngineType
  <2> QED BY <2>1, <2>2
<1>5. Sound([end EXCEPT !.wasOff = FALSE]) /\ PassOnly(r, [end EXCEPT !.wasOff = FALSE])
  <2> HIDE DEF end, r
  <2> DEFINE last == [end EXCEPT !.wasOff = FALSE]
  <2>1. last \in EngineType
    BY <1>4 DEF Sound, EngineType
  <2>2. PassOnly(end, last) /\ last.supTimer = end.supTimer
    BY <1>4 DEF Kept, PassOnly, Sound, EngineType
  <2> HIDE DEF last
  <2>3. Sound(last)
    BY <1>4, <2>1, <2>2 DEF Kept, PassOnly, Sound, Capped, Watched
  <2>4. PassOnly(r, last)
    BY <1>4, <2>2 DEF Kept, PassOnly
  <2> QED BY <2>3, <2>4 DEF last
<1>6. ASSUME NEW n \in e.todo, x = [r EXCEPT !.turn = n, !.todo = @ \ {n}]
      PROVE  Sound(x) /\ PassOnly(r, x)
  <2> HIDE DEF r
  <2>1. n \in Targets
    BY <1>3
  <2>2. x \in EngineType
    BY <1>1, <1>6, <2>1 DEF Sound, EngineType
  <2>3. PassOnly(r, x) /\ x.supTimer = r.supTimer
    BY <1>1, <1>6 DEF Kept, PassOnly, Sound, EngineType
  <2> QED BY <1>1, <2>2, <2>3 DEF Kept, PassOnly, Sound, Capped, Watched
<1> HIDE DEF end
<1>7. Sound(x) /\ PassOnly(r, x)
  BY <1>2, <1>5, <1>6
<1> QED BY <1>7

\* A pass has the lock for t.
ForcedCall(e, t) ==
    [e EXCEPT !.callOn = t, !.callOwn = FALSE, !.forced = TRUE, !.unpainted = FALSE,
              !.wasErr = (e.status = "error"), !.status = "enforcing"]

LEMMA ForcedCallSound ==
  ASSUME NEW e, Sound(e), NEW t \in Targets PROVE Sound(ForcedCall(e, t))
<1> DEFINE err == e.status = "error"
           st  == "enforcing"
           in  == [e EXCEPT !.callOn = t, !.callOwn = FALSE, !.forced = TRUE,
                            !.unpainted = FALSE, !.wasErr = err, !.status = st]
<1> e \in EngineType
  BY DEF Sound
<1>1. err \in BOOLEAN /\ st \in Status
  BY DEF Status
<1>2. ForcedCall(e, t) = in
  BY DEF ForcedCall
<1> HIDE DEF err, st
<1>3. in \in EngineType
  BY <1>1 DEF EngineType
<1>4. /\ in.forced /\ in.callOn = t /\ in.loaded = e.loaded /\ in.enabled = e.enabled
      /\ in.sup = e.sup /\ in.supTimer = e.supTimer
  BY DEF EngineType
<1> HIDE DEF in
<1> QED BY <1>2, <1>3, <1>4, TargetsAssumption DEF Sound, Capped, Watched

LEMMA AcquireSound ==
  ASSUME NEW e, Sound(e), NEW t \in Targets PROVE Sound(Acquire(e, t))
<1>1. Sound([e EXCEPT !.parked = @ \cup {t}])
  BY DEF Sound, Capped, Watched, EngineType
<1> QED BY <1>1, EnterSound DEF Acquire

LEMMA ReplaceTasksSound ==
  ASSUME NEW e, Sound(e), NEW S PROVE Sound(ReplaceTasks(e, S))
<1> DEFINE due    == [t \in Targets |-> e.due[t] \/ t \in S \cap e.parked]
           parked == e.parked \ S
           own    == e.callOwn /\ e.callOn \notin S
<1> e \in EngineType
  BY DEF Sound
<1>1. due \in [Targets -> BOOLEAN] /\ parked \in SUBSET Targets /\ own \in BOOLEAN
  BY DEF EngineType
<1>2. ReplaceTasks(e, S) =
        IF Delay THEN e ELSE [e EXCEPT !.due = due, !.parked = parked, !.callOwn = own]
  BY DEF ReplaceTasks
<1>3. ReplaceTasks(e, S) \in EngineType
  <2> HIDE DEF due, parked, own
  <2>1. [e EXCEPT !.due = due, !.parked = parked, !.callOwn = own] \in EngineType
    BY <1>1 DEF EngineType
  <2> QED BY <1>2, <2>1
<1>4. Capped(ReplaceTasks(e, S)) /\ Watched(ReplaceTasks(e, S))
  BY DEF Sound, Capped, Watched, EngineType, ReplaceTasks
<1> QED BY <1>3, <1>4 DEF Sound

LEMMA StartedSound ==
  ASSUME NEW e, Sound(e), NEW S PROVE Sound(Started(e, S))
<1> DEFINE due == [t \in Targets |->
                     \/ e.due[t]
                     \/ t \in S \ e.parked /\ ~(e.callOn = t /\ e.callOwn)]
<1>1. due \in [Targets -> BOOLEAN]
  OBVIOUS
<1>2. Started(e, S) = IF Delay THEN e ELSE [e EXCEPT !.due = due]
  BY DEF Started
<1> HIDE DEF due
<1>3. Sound([e EXCEPT !.due = due])
  BY <1>1 DEF Sound, Capped, Watched, EngineType
<1> QED BY <1>2, <1>3

LEMMA StatusSound ==
  ASSUME NEW e, Sound(e), NEW st \in Status PROVE Sound([e EXCEPT !.status = st])
BY DEF Sound, Capped, Watched, EngineType

LEMMA PaintedStatus ==
  ASSUME NEW e, NEW S PROVE Painted(e, S) \subseteq Status
<1>1. "cooldown" \in Status /\ "pending" \in Status
  BY DEF Status
<1> QED BY <1>1, StatusType DEF Painted

LEMMA LeftStatus ==
  ASSUME NEW e, Sound(e), NEW S PROVE Left(e, S) \subseteq Status
BY PaintedStatus DEF Left, Sound, EngineType

LEMMA EvaluateDelayedSound ==
  ASSUME NEW e, Sound(e), NEW S \in SUBSET Targets, NEW x \in EvaluateDelayed(e, S)
  PROVE  Sound(x)
<1> DEFINE base  == CancelPending(e, Acting(e, S) \cup Quiet(S))
           armed == [base EXCEPT !.pend = [t \in Targets |->
                                             IF t \in Acting(e, S) THEN "armed"
                                             ELSE base.pend[t]]]
<1>1. PICK st \in Left(armed, S) : x = [armed EXCEPT !.status = st]
  BY DEF EvaluateDelayed
<1>2. Sound(base)
  BY CancelPendingSound
<1>3. Sound(armed)
  <2> HIDE DEF base
  <2>1. [t \in Targets |-> IF t \in Acting(e, S) THEN "armed" ELSE base.pend[t]]
          \in [Targets -> {"none", "armed", "firing"}]
    BY <1>2 DEF Sound, EngineType
  <2> QED BY <1>2, <2>1 DEF Sound, Capped, Watched, EngineType
<1> QED BY <1>1, <1>3, LeftStatus, StatusSound

LEMMA FirstEntersSound ==
  ASSUME NEW e, Sound(e), NEW S \in SUBSET Targets, NEW t \in Targets,
         NEW x \in FirstEnters(e, t, S)
  PROVE  Sound(x)
<1> DEFINE in == Enter(e, t, TRUE)
<1>1. Sound(in)
  BY EnterSound
<1>2. Acting(e, S) \ {t} \in SUBSET Targets
  BY DEF Acting
<1>3. ASSUME NEW st \in Painted(e, S) \cup {"enforcing"},
             x = [in EXCEPT !.parked = Acting(e, S) \ {t}, !.status = st]
      PROVE  Sound(x)
  <2>1. st \in Status
    BY PaintedStatus DEF Status
  <2> HIDE DEF in
  <2> QED BY <1>1, <1>2, <1>3, <2>1 DEF Sound, Capped, Watched, EngineType
<1> QED BY <1>1, <1>3 DEF FirstEnters

LEMMA EvaluateNowSound ==
  ASSUME NEW e, Sound(e), NEW S \in SUBSET Targets, NEW x \in EvaluateNow(e, S)
  PROVE  Sound(x)
<1> DEFINE base == CancelPending(e, Quiet(S))
<1>1. Sound(base)
  BY CancelPendingSound
<1>2. Acting(e, S) \in SUBSET Targets
  BY DEF Acting
<1>3. ASSUME NEW st \in Painted(base, S) \cup {base.status}, NEW t \in Acting(e, S),
             x \in FirstEnters([base EXCEPT !.status = st], t, S)
      PROVE  Sound(x)
  <2>1. st \in Status
    BY <1>1, PaintedStatus DEF Sound, EngineType
  <2> HIDE DEF base
  <2> QED BY <1>1, <1>2, <1>3, <2>1, StatusSound, FirstEntersSound
<1>4. ASSUME NEW st \in Left(base, S),
             x = [base EXCEPT !.parked = @ \cup Acting(e, S), !.status = st]
      PROVE  Sound(x)
  <2>1. st \in Status
    BY <1>1, LeftStatus
  <2> HIDE DEF base
  <2> QED BY <1>1, <1>2, <1>4, <2>1 DEF Sound, Capped, Watched, EngineType
<1> DEFINE first(t, st) == FirstEnters([base EXCEPT !.status = st], t, S)
           queued(st) == [base EXCEPT !.parked = @ \cup Acting(e, S), !.status = st]
           before == Painted(base, S) \cup {base.status}
<1>5. x \in IF LockIdle(base) /\ Acting(e, S) # {}
            THEN UNION {UNION {first(t, st) : st \in before} : t \in Acting(e, S)}
            ELSE {queued(st) : st \in Left(base, S)}
  BY Zenon DEF EvaluateNow
<1>6. \A st \in before, t \in Acting(e, S) : x \in first(t, st) => Sound(x)
  BY <1>3
<1>7. \A st \in Left(base, S) : x = queued(st) => Sound(x)
  BY <1>4
<1> HIDE DEF first, queued, before
<1> QED BY <1>5, <1>6, <1>7

LEMMA EvaluateLiveSound ==
  ASSUME NEW e, Sound(e), NEW S \in SUBSET Targets, NEW x \in EvaluateLive(e, S)
  PROVE  Sound(x)
BY EvaluateDelayedSound, EvaluateNowSound DEF EvaluateLive

LEMMA EvaluatedTargets ==
  ASSUME NEW e, NEW S \in SUBSET Targets PROVE Evaluated(e, S) \in SUBSET Targets
BY DEF Evaluated

LEMMA EvaluateSound ==
  ASSUME NEW e, Sound(e), NEW S \in SUBSET Targets, NEW x \in Evaluate(e, S)
  PROVE  Sound(x)
<1> DEFINE all == Evaluated(e, S)
           r   == ReplaceTasks(e, all)
           c   == IF r.sup = "elapsed" THEN ClearSuppression(r) ELSE r
           outcomes ==
             IF Inactive(r) THEN {Idle(r)}
             ELSE IF ~r.started THEN {r}
             ELSE IF r.sup = "active" THEN {[r EXCEPT !.status = "suppressed"]}
             ELSE IF ~flag' THEN {[CancelPending(c, Targets) EXCEPT !.status = "conditional"]}
             ELSE EvaluateLive(c, all)
<1>1. PICK o \in outcomes : x = Started(o, all)
  BY DEF Evaluate
<1>2. Sound(r)
  BY ReplaceTasksSound
<1> HIDE DEF r
<1>3. Sound(c)
  BY <1>2, ClearSuppressionSound DEF Sound
<1>4. all \in SUBSET Targets
  BY EvaluatedTargets
<1> HIDE DEF c, all
<1>5. "suppressed" \in Status /\ "conditional" \in Status
  BY DEF Status
<1>6. Sound(o)
  BY <1>2, <1>3, <1>4, <1>5, IdleSound, StatusSound, CancelPendingSound, EvaluateLiveSound
<1> QED BY <1>1, <1>6, StartedSound

LEMMA EvaluateFlagSound ==
  ASSUME NEW e, Sound(e), NEW x \in EvaluateFlag(e) PROVE Sound(x)
<1> DEFINE c == IF e.sup = "elapsed" THEN ClearSuppression(e) ELSE e
           met == [c EXCEPT !.status = ArmedOrCooldown(c)]
           violating == {t \in Targets : dev'[t] = "bad"}
<1>1. Sound(c)
  BY ClearSuppressionSound DEF Sound
<1> HIDE DEF c
<1>2. Sound(met)
  BY <1>1, StatusType, StatusSound
<1> HIDE DEF met
<1>3. "suppressed" \in Status /\ "conditional" \in Status
  BY DEF Status
<1>4. x \in IF Inactive(e) THEN {Idle(e)}
            ELSE IF e.sup = "active" THEN {[e EXCEPT !.status = "suppressed"]}
            ELSE IF ~flag' THEN {[CancelPending(c, Targets) EXCEPT !.status = "conditional"]}
            ELSE IF violating = {} THEN {met} ELSE Evaluate(met, violating)
  BY DEF EvaluateFlag, c, met
<1> QED BY <1>1, <1>2, <1>3, <1>4, IdleSound, StatusSound, CancelPendingSound, EvaluateSound

LEMMA EvaluateSourceSound ==
  ASSUME NEW e, Sound(e), NEW x \in EvaluateSource(e) PROVE Sound(x)
<1> DEFINE c == IF e.sup = "elapsed" THEN ClearSuppression(e) ELSE e
           met == [c EXCEPT !.status = ArmedOrCooldown(c)]
<1>1. Sound(c)
  BY ClearSuppressionSound DEF Sound
<1> HIDE DEF c
<1>2. Sound(met)
  BY <1>1, StatusType, StatusSound
<1> HIDE DEF met
<1>3. "suppressed" \in Status /\ "conditional" \in Status
  BY DEF Status
<1>4. x \in IF Inactive(e) THEN {Idle(e)}
            ELSE IF ~e.started THEN {e}
            ELSE IF e.sup = "active" THEN {[e EXCEPT !.status = "suppressed"]}
            ELSE IF ~flag' THEN {[CancelPending(c, Targets) EXCEPT !.status = "conditional"]}
            ELSE Evaluate(met, Targets)
  BY DEF EvaluateSource, c, met
<1> QED BY <1>1, <1>2, <1>3, <1>4, IdleSound, StatusSound, CancelPendingSound, EvaluateSound

LEMMA SweepSound ==
  ASSUME NEW e, Sound(e), NEW x \in Sweep(e) PROVE Sound(x)
BY EvaluateSound DEF Sweep

-----------------------------------------------------------------------------
(* The inductive invariant: types, and the limiter's count with its slot.  *)

WorldOK == /\ dev \in [Targets -> DeviceStates]
           /\ flag \in BOOLEAN
           /\ master \in BOOLEAN

IInv == WorldOK /\ Sound(eng)

LEMMA InitSound == ASSUME Init PROVE IInv /\ \A t \in Targets : eng.pend[t] = "none"
<1>1. PICK enabled \in BOOLEAN, sup \in {"none", "active", "elapsed"},
           cool \in [Targets -> IF Debounce THEN BOOLEAN ELSE {FALSE}],
           errs \in 0..ErrorThreshold, window \in 0..Limit + 1 :
         eng = [ enabled |-> enabled, started |-> FALSE, loaded |-> TRUE,
                 sup |-> sup, supTimer |-> (sup = "active"),
                 pend |-> [t \in Targets |-> "none"], parked |-> {},
                 lost |-> [t \in Targets |-> 0],
                 callOn |-> NoTarget, callOwn |-> FALSE, wasErr |-> FALSE,
                 forced |-> FALSE, turn |-> NoTarget, todo |-> {}, wasOff |-> FALSE,
                 due |-> [t \in Targets |-> FALSE],
                 cool |-> cool, coolTimer |-> [t \in Targets |-> FALSE],
                 window |-> window, errs |-> errs, succs |-> 0, clearing |-> FALSE,
                 unpainted |-> FALSE,
                 status |-> IF ~master THEN "master_disabled"
                            ELSE IF ~enabled THEN "disabled" ELSE "starting" ]
  BY DEF Init
<1>2. cool \in [Targets -> BOOLEAN]
  OBVIOUS
<1>3. window \in Nat /\ errs \in Nat
  BY ConfigAssumption, ThresholdAssumption
<1>4. (IF ~master THEN "master_disabled" ELSE IF ~enabled THEN "disabled" ELSE "starting")
        \in Status
  BY DEF Status
<1>5. eng \in EngineType
  BY <1>1, <1>2, <1>3, <1>4 DEF EngineType
<1>6. Capped(eng) /\ Watched(eng)
  BY <1>1, <1>3 DEF Capped, Watched
<1>7. WorldOK
  BY DEF Init, WorldOK
<1>8. eng.pend = [t \in Targets |-> "none"]
  BY <1>1
<1> QED BY <1>5, <1>6, <1>7, <1>8 DEF IInv, Sound

LEMMA ResetSound ==
  ASSUME NEW e, Sound(e)
  PROVE  Sound([e EXCEPT !.cool = [t \in Targets |-> FALSE],
                         !.coolTimer = [t \in Targets |-> FALSE], !.succs = 0])
BY DEF Sound, Capped, Watched, EngineType

LEMMA HistoryClearedSound ==
  ASSUME NEW e, Sound(e)
  PROVE  Sound([e EXCEPT !.clearing = FALSE,
                         !.status = IF @ = "error" THEN "starting" ELSE @])
<1> DEFINE st == IF e.status = "error" THEN "starting" ELSE e.status
<1>1. st \in Status
  BY DEF Sound, EngineType, Status
<1> HIDE DEF st
<1>2. Sound([e EXCEPT !.clearing = FALSE, !.status = st])
  BY <1>1 DEF Sound, Capped, Watched, EngineType
<1> QED BY <1>2 DEF st

\* A press queues and touches nothing else.
LEMMA PressLeaves ==
  ASSUME Sound(eng), Press PROVE Sound(eng') /\ PassOnly(eng, eng') /\ UNCHANGED World
<1>1. PICK t \in Targets :
        eng' = [eng EXCEPT !.wasOff = Inactive(eng), !.turn = t, !.todo = Targets \ {t}]
  BY DEF Press
<1>2. Inactive(eng) \in BOOLEAN
  BY DEF Inactive
<1>3. eng' \in EngineType
  BY <1>1, <1>2 DEF Sound, EngineType
<1>4. PassOnly(eng, eng') /\ eng'.supTimer = eng.supTimer
  BY <1>1 DEF Kept, PassOnly, Sound, EngineType
<1>5. Sound(eng')
  BY <1>3, <1>4 DEF Kept, PassOnly, Sound, Capped, Watched
<1> QED BY <1>4, <1>5 DEF Press

LEMMA OperationsSound == ASSUME IInv, Operations PROVE IInv'
<1> Sound(eng) /\ WorldOK
  BY DEF IInv
<1>0. ASSUME UNCHANGED World PROVE WorldOK'
  BY <1>0 DEF World, WorldOK
<1>1. ASSUME NEW on \in BOOLEAN, MasterSet(on) PROVE IInv'
  <2> DEFINE idle == Idle(eng)
             r == IF on /\ idle.status = "cooldown" THEN RearmCooldownBroadcasts(idle) ELSE idle
  <2>1. Sound(r)
    BY IdleSound, RearmCooldownBroadcastsSound
  <2>2. eng' \in IF eng.loaded THEN Sweep(r) ELSE {eng}
    BY <1>1 DEF MasterSet
  <2>3. WorldOK'
    BY <1>1 DEF MasterSet, WorldOK
  <2> HIDE DEF r
  <2>4. Sound(eng')
    BY <2>1, <2>2, SweepSound
  <2> QED BY <2>3, <2>4 DEF IInv, Sound, Capped, Watched
<1>2. ASSUME NEW on \in BOOLEAN, SetEnabled(on) PROVE IInv'
  <2> DEFINE e    == [eng EXCEPT !.enabled = on]
             kept == IF e.sup = "elapsed" THEN ClearSuppression(e) ELSE e
             idle == Idle(ScheduleSuppressionTimer(kept))
             r    == IF idle.status = "cooldown" THEN RearmCooldownBroadcasts(idle) ELSE idle
             off  == [e EXCEPT !.supTimer = FALSE]
  <2>1. eng' \in IF on THEN Sweep(r) ELSE {Idle(off)}
    BY <1>2, Zenon DEF SetEnabled
  <2>2. e \in EngineType /\ Capped(e) /\ (~on => Sound(off))
    BY DEF Sound, Capped, Watched, EngineType
  <2> HIDE DEF e, off
  <2>3. kept \in EngineType /\ Capped(kept)
    BY <2>2, ClearSuppressionSound DEF Sound
  <2> HIDE DEF kept
  <2>4. Sound(r)
    BY <2>3, ScheduleSuppressionTimerSound, IdleSound, RearmCooldownBroadcastsSound
  <2> HIDE DEF r
  <2>5. Sound(eng')
    BY <2>1, <2>2, <2>4, SweepSound, IdleSound
  <2> QED BY <1>0, <1>2, <2>5 DEF SetEnabled, IInv, Sound, Capped, Watched
<1>3. ASSUME Suppress PROVE IInv'
  <2> DEFINE hit == [eng EXCEPT !.sup = "active"]
             e == CancelPending(ScheduleSuppressionTimer(hit), Targets)
  <2>1. hit \in EngineType /\ Capped(hit)
    BY DEF Sound, Capped, EngineType
  <2>2. Sound(e)
    <3> HIDE DEF hit
    <3> QED BY <2>1, ScheduleSuppressionTimerSound, CancelPendingSound
  <2>3. eng' = IF e.status = "error" THEN e ELSE Idle(e)
    BY <1>3 DEF Suppress
  <2> HIDE DEF e, hit
  <2>4. Sound(eng')
    BY <2>2, <2>3, IdleSound
  <2> QED BY <1>0, <1>3, <2>4 DEF Suppress, IInv, Sound, Capped, Watched
<1>4. ASSUME Unsuppress PROVE IInv'
  <2>1. Sound(eng')
    BY <1>4, ClearSuppressionSound, IdleSound, SweepSound DEF Unsuppress, Sound
  <2> QED BY <1>0, <1>4, <2>1 DEF Unsuppress, IInv, Sound, Capped, Watched
<1>5. ASSUME ResetCooldowns PROVE IInv'
  <2> DEFINE e == [ScheduleSuppressionTimer(eng) EXCEPT
                        !.cool = [t \in Targets |-> FALSE],
                        !.coolTimer = [t \in Targets |-> FALSE],
                        !.succs = 0]
  <2>1. Sound(e)
    BY ScheduleSuppressionTimerSound DEF Sound, Capped, Watched, EngineType
  <2>2. Sound(eng')
    BY <1>5, <2>1, IdleSound DEF ResetCooldowns
  <2> QED BY <1>0, <1>5, <2>2 DEF ResetCooldowns, IInv, Sound, Capped, Watched
<1>6. ASSUME ClearHistory PROVE IInv'
  <2>1. Sound(ScheduleSuppressionTimer(eng))
    BY ScheduleSuppressionTimerSound DEF Sound
  <2>2. eng' \in EngineType /\ Watched(eng')
    BY <1>6, <2>1 DEF ClearHistory, Sound, Watched, EngineType
  <2>3. eng'.window = 0 /\ eng'.forced = eng.forced /\ eng'.callOn = eng.callOn
    BY <1>6, <2>1 DEF ClearHistory, ScheduleSuppressionTimer, Sound, EngineType
  <2>4. Capped(eng')
    BY <2>3, ConfigAssumption DEF Capped, Sound
  <2> QED BY <1>0, <1>6, <2>2, <2>4 DEF ClearHistory, IInv, Sound, Capped, Watched
<1>7. ASSUME ClearHistoryRepaints PROVE IInv'
  <2> DEFINE e == [eng EXCEPT !.clearing = FALSE,
                              !.status = IF @ = "error" THEN "starting" ELSE @]
  <2>1. Sound(e)
    BY HistoryClearedSound
  <2>2. Sound(eng')
    BY <1>7, <2>1, IdleSound DEF ClearHistoryRepaints
  <2> QED BY <1>0, <1>7, <2>2 DEF ClearHistoryRepaints, IInv, Sound, Capped, Watched
<1>8. ASSUME Unload PROVE IInv'
  <2> DEFINE e == CancelPending(ReplaceTasks(eng, Targets), Targets)
  <2>1. Sound(e)
    BY ReplaceTasksSound, CancelPendingSound
  <2>2. eng' = [e EXCEPT !.loaded = FALSE, !.supTimer = FALSE,
                         !.coolTimer = [t \in Targets |-> FALSE]]
    BY <1>8 DEF Unload
  <2> HIDE DEF e
  <2>3. eng' \in EngineType /\ Watched(eng')
    BY <2>1, <2>2 DEF Sound, Watched, EngineType
  <2>4. Capped(eng')
    BY <2>1, <2>2 DEF Sound, Capped, Watched, EngineType
  <2> QED BY <1>0, <1>8, <2>3, <2>4 DEF Unload, IInv, Sound, Capped, Watched
<1>9. ASSUME Press PROVE IInv'
  <2>1. Sound(eng')
    BY <1>9, PressLeaves
  <2> QED BY <1>0, <1>9, <2>1 DEF Press, IInv, Sound, Capped, Watched
<1> QED BY <1>1, <1>2, <1>3, <1>4, <1>5, <1>6, <1>7, <1>8, <1>9 DEF Operations

LEMMA WorldMovesSound ==
  ASSUME IInv, FlagMoves \/ SourceMoves \/ \E t \in Targets : DeviceMoves(t) PROVE IInv'
<1> Sound(eng) /\ WorldOK
  BY DEF IInv
<1>1. ASSUME NEW t \in Targets, DeviceMoves(t) PROVE IInv'
  <2>1. WorldOK'
    BY <1>1 DEF DeviceMoves, WorldOK
  <2>2. Sound(eng')
    BY <1>1, EvaluateSound DEF DeviceMoves
  <2> QED BY <2>1, <2>2 DEF IInv, Sound, Capped, Watched
<1>2. ASSUME FlagMoves PROVE IInv'
  <2>1. WorldOK'
    BY <1>2 DEF FlagMoves, WorldOK
  <2>2. Sound(eng')
    BY <1>2, EvaluateFlagSound DEF FlagMoves
  <2> QED BY <2>1, <2>2 DEF IInv, Sound, Capped, Watched
<1>3. ASSUME SourceMoves PROVE IInv'
  <2>1. WorldOK'
    BY <1>3 DEF SourceMoves, WorldOK
  <2>2. Sound(eng')
    BY <1>3, EvaluateSourceSound DEF SourceMoves
  <2> QED BY <2>1, <2>2 DEF IInv, Sound, Capped, Watched
<1> QED BY <1>1, <1>2, <1>3

LEMMA ClockSound == ASSUME IInv, Clock PROVE IInv'
<1> Sound(eng) /\ WorldOK
  BY DEF IInv
<1>0. ASSUME UNCHANGED World, Sound(eng') PROVE IInv'
  BY <1>0 DEF World, WorldOK, IInv, Sound, Capped, Watched
<1>1. ASSUME GraceDone PROVE IInv'
  <2>1. Sound([eng EXCEPT !.started = TRUE])
    BY DEF Sound, Capped, Watched, EngineType
  <2>2. Sound(eng')
    BY <1>1, <2>1, IdleSound, SweepSound DEF GraceDone
  <2> QED BY <1>0, <1>1, <2>2 DEF GraceDone
<1>2. ASSUME Midnight PROVE IInv'
  BY <1>0, <1>2, IdleSound DEF Midnight
<1>3. ASSUME SuppressionElapses PROVE IInv'
  <2>1. Sound([eng EXCEPT !.sup = "elapsed"])
    BY DEF Sound, Capped, Watched, EngineType
  <2> QED BY <1>0, <1>3, <2>1 DEF SuppressionElapses
<1>4. ASSUME SuppressionTimerFires PROVE IInv'
  <2>1. Sound(eng')
    BY <1>4, ClearSuppressionSound, IdleSound, SweepSound DEF SuppressionTimerFires, Sound
  <2> QED BY <1>0, <1>4, <2>1 DEF SuppressionTimerFires
<1>5. ASSUME WindowAges PROVE IInv'
  <2>1. Sound([eng EXCEPT !.window = @ - 1])
    BY <1>5, ConfigAssumption DEF WindowAges, Sound, Capped, Watched, EngineType
  <2> QED BY <1>0, <1>5, <2>1 DEF WindowAges
<1>6. ASSUME NEW t \in Targets, CooldownElapses(t) PROVE IInv'
  <2>1. Sound([eng EXCEPT !.cool[t] = FALSE])
    BY DEF Sound, Capped, Watched, EngineType
  <2> QED BY <1>0, <1>6, <2>1 DEF CooldownElapses
<1>7. ASSUME NEW t \in Targets, CooldownTimerFires(t) PROVE IInv'
  <2> DEFINE e == [eng EXCEPT !.coolTimer[t] = FALSE]
  <2>1. Sound(e)
    BY DEF Sound, Capped, Watched, EngineType
  <2>2. eng' = IF e.loaded THEN Idle(e) ELSE e
    BY <1>7 DEF CooldownTimerFires
  <2> HIDE DEF e
  <2>3. Sound(eng')
    BY <2>1, <2>2, IdleSound
  <2> QED BY <1>0, <1>7, <2>3 DEF CooldownTimerFires
<1> QED BY <1>1, <1>2, <1>3, <1>4, <1>5, <1>6, <1>7 DEF Clock

\* The slot: while a call is in flight the window has room for its success.
LEMMA ReleasedSound ==
  ASSUME Sound(eng)
  PROVE  Sound(Released) /\ Released.callOn = NoTarget /\ Released.window = eng.window
BY DEF Released, Sound, Capped, Watched, EngineType

\* p is e after its call, and differs in counters, cooldowns and status only.
SameWork(e, p) == /\ p.loaded = e.loaded /\ p.started = e.started /\ p.enabled = e.enabled
                  /\ p.sup = e.sup /\ p.pend = e.pend
                  /\ p.parked = e.parked /\ p.lost = e.lost
                  /\ p.callOn = NoTarget /\ ~p.callOwn /\ ~p.forced
                  /\ p.wasOff = e.wasOff /\ p.due = e.due

LEMMA AfterSound ==
  ASSUME NEW e, Sound(e), NEW t \in Targets, NEW x \in After(e, t) PROVE Sound(x)
BY EndTaskSound, TurnEndsLeaves DEF After

\* The call for t is over: p is what it left, eng' what followed.
Ended(t, p) ==
    /\ eng.callOn = t /\ Sound(p) /\ SameWork(eng, p)
    /\ p.window \in {eng.window, eng.window + 1}
    /\ \/ Repainted(p)
       \/ /\ p.status = eng.status /\ p.cool = eng.cool
          /\ p.unpainted = (eng.forced \/ ~(Delay /\ eng.callOwn))
    /\ IF eng.forced
       THEN \/ PassOnly(IF p.wasOff THEN Idle(p) ELSE p, eng')
            \/ PassOnly(p, eng') /\ p.unpainted
       ELSE eng' = EndTask(p, t, eng.callOwn)

LEMMA AfterEnded ==
  ASSUME NEW t \in Targets, NEW p, Sound(p), NEW x \in After(p, t)
  PROVE  IF eng.forced THEN PassOnly(IF p.wasOff THEN Idle(p) ELSE p, x)
         ELSE x = EndTask(p, t, eng.callOwn)
BY TurnEndsLeaves DEF After

LEMMA CallSucceedsSound ==
  ASSUME IInv, NEW t \in Targets, NEW live \in BOOLEAN, CallSucceeds(t, live)
  PROVE  IInv' /\ UNCHANGED World /\ \E p : Ended(t, p)
<1> DEFINE recovering == eng.wasErr /\ eng.succs + 1 < RecoveryThreshold
           counted == [Released EXCEPT
                       !.window  = IF Limit > 0 THEN @ + 1 ELSE @,
                       !.succs   = IF recovering THEN @ + 1 ELSE 0,
                       !.errs    = IF recovering THEN @ ELSE 0,
                       !.cool[t] = IF Debounce THEN live ELSE @]
           painted == [counted EXCEPT
                       !.status = IF recovering THEN "error" ELSE IdleStatus(counted),
                       !.coolTimer[t] = Debounce \/ @]
<1> Sound(eng) /\ WorldOK
  BY DEF IInv
<1>1. eng.callOn = t /\ UNCHANGED World /\ eng' \in After(painted, t)
  BY Zenon DEF CallSucceeds
<1>2. eng.callOn # NoTarget
  BY <1>1, TargetsAssumption
<1>3. Released.window \in Nat /\ Released.callOn = NoTarget
  BY ReleasedSound DEF Sound, EngineType
<1>5. counted \in EngineType
  <2> HIDE DEF recovering
  <2>1. Released \in EngineType
    BY ReleasedSound DEF Sound
  <2>2. (IF Debounce THEN live ELSE Released.cool[t]) \in BOOLEAN
    BY <2>1 DEF EngineType
  <2>3. (IF Limit > 0 THEN Released.window + 1 ELSE Released.window) \in Nat
    BY <2>1 DEF EngineType
  <2>4. (IF recovering THEN Released.succs + 1 ELSE 0) \in Nat
    BY <2>1 DEF EngineType
  <2>5. (IF recovering THEN Released.errs ELSE 0) \in Nat
    BY <2>1 DEF EngineType
  <2> QED BY <2>1, <2>2, <2>3, <2>4, <2>5 DEF EngineType
<1>6. Capped(counted)
  <2>1. Released \in EngineType
    BY ReleasedSound DEF Sound
  <2>2. counted.callOn = NoTarget /\ ~counted.forced
    BY <1>3, <2>1 DEF Released, Sound, EngineType
  <2> QED BY <2>2 DEF Capped
<1>6a. Watched(counted)
  BY ReleasedSound DEF Sound, Watched, EngineType
<1>6b. SameWork(eng, counted)
  BY DEF SameWork, Released, Sound, EngineType
<1>6c. counted.window \in {eng.window, eng.window + 1}
  BY ReleasedSound DEF Sound, EngineType
<1> HIDE DEF counted, recovering
<1>7. painted \in EngineType
  <2>1. (Debounce \/ counted.coolTimer[t]) \in BOOLEAN
    OBVIOUS
  <2>2. (IF recovering THEN "error" ELSE IdleStatus(counted)) \in Status
    BY StatusType DEF Status
  <2> QED BY <1>5, <2>1, <2>2 DEF EngineType
<1>8. Sound(painted)
  BY <1>5, <1>6, <1>6a, <1>7 DEF Sound, Capped, Watched, EngineType
<1>8a. SameWork(eng, painted) /\ painted.window = counted.window
  BY <1>5, <1>6b DEF SameWork, EngineType
<1>8b. Repainted(painted)
  <2>1. /\ painted.status = (IF recovering THEN "error" ELSE IdleStatus(counted))
        /\ painted.pend = counted.pend
    BY <1>5 DEF EngineType
  <2> HIDE DEF painted
  <2> QED BY <2>1, StatusDerived DEF Repainted, HasPending
<1> HIDE DEF painted
<1>9. Sound(eng')
  BY <1>1, <1>8, AfterSound
<1>10. IInv'
  BY <1>1, <1>9 DEF World, WorldOK, IInv, Sound, Capped, Watched
<1>11. Ended(t, painted)
  BY <1>1, <1>6c, <1>8, <1>8a, <1>8b, AfterEnded DEF Ended
<1> QED BY <1>1, <1>10, <1>11

LEMMA CallFailsSound ==
  ASSUME IInv, NEW t \in Targets, CallFails(t)
  PROVE  IInv' /\ UNCHANGED World /\ \E p : Ended(t, p)
<1> DEFINE failures == IF eng.errs < ErrorThreshold THEN eng.errs + 1 ELSE eng.errs
           counted  == [Released EXCEPT !.errs = failures, !.succs = 0]
           painted  == [counted EXCEPT !.status = IF failures = ErrorThreshold THEN "error"
                                                  ELSE ArmedOrCooldown(counted)]
<1> Sound(eng) /\ WorldOK
  BY DEF IInv
<1>1. UNCHANGED World /\ eng.callOn = t /\ eng' \in After(painted, t)
  BY Zenon DEF CallFails
<1>2. failures \in Nat
  BY DEF Sound, EngineType
<1> HIDE DEF failures
<1>3. Sound(counted)
  BY <1>2, ReleasedSound DEF Sound, Capped, Watched, EngineType
<1>3a. SameWork(eng, counted) /\ counted.window = eng.window
  BY ReleasedSound DEF SameWork, Released, Sound, EngineType
<1> HIDE DEF counted
<1>4. (IF failures = ErrorThreshold THEN "error" ELSE ArmedOrCooldown(counted)) \in Status
  BY StatusType DEF Status
<1>5. Sound(painted)
  BY <1>3, <1>4, StatusSound
<1>5a. SameWork(eng, painted) /\ painted.window = eng.window
  BY <1>3, <1>3a DEF SameWork, Sound, EngineType
<1>5b. Repainted(painted)
  <2>1. /\ painted.status = (IF failures = ErrorThreshold THEN "error"
                             ELSE ArmedOrCooldown(counted))
        /\ painted.pend = counted.pend
    BY <1>3 DEF Sound, EngineType
  <2> HIDE DEF painted
  <2> QED BY <2>1, StatusDerived DEF Repainted, HasPending
<1> HIDE DEF painted
<1>6. Sound(eng')
  BY <1>1, <1>5, AfterSound
<1>7. IInv'
  BY <1>1, <1>6 DEF World, WorldOK, IInv, Sound, Capped, Watched
<1>8. Ended(t, painted)
  BY <1>1, <1>5, <1>5a, <1>5b, AfterEnded DEF Ended
<1> QED BY <1>1, <1>7, <1>8

LEMMA CallSkipsSound ==
  ASSUME IInv, NEW t \in Targets, CallSkipsDeadMember(t)
  PROVE  IInv' /\ UNCHANGED World /\ \E p : Ended(t, p)
<1> DEFINE painted == [Released EXCEPT !.status = ArmedOrCooldown(Released)]
<1> Sound(eng) /\ WorldOK
  BY DEF IInv
<1>1. UNCHANGED World /\ eng.callOn = t /\ eng' \in After(painted, t)
  BY Zenon DEF CallSkipsDeadMember
<1>2. Sound(Released) /\ SameWork(eng, Released) /\ Released.window = eng.window
  BY ReleasedSound DEF SameWork, Released, Sound, EngineType
<1>3. Sound(painted)
  BY <1>2, StatusType, StatusSound
<1>4. SameWork(eng, painted) /\ painted.window = eng.window
  BY <1>2 DEF SameWork, Sound, EngineType
<1>5. Repainted(painted)
  BY <1>2, StatusRepaints DEF Sound
<1> HIDE DEF painted
<1>6. Sound(eng')
  BY <1>1, <1>3, AfterSound
<1>7. IInv'
  BY <1>1, <1>6 DEF World, WorldOK, IInv, Sound, Capped, Watched
<1>8. Ended(t, painted)
  BY <1>1, <1>3, <1>4, <1>5, AfterEnded DEF Ended
<1> QED BY <1>1, <1>7, <1>8

\* An aborted call leaves the status alone, except in a delayed task with a handle.
LEMMA CallAbortsSound ==
  ASSUME IInv, NEW t \in Targets, CallAborts(t)
  PROVE  IInv' /\ UNCHANGED World /\ \E p : Ended(t, p)
<1> DEFINE unpainted == eng.forced \/ ~(Delay /\ eng.callOwn)
           cut  == [Released EXCEPT !.unpainted = unpainted]
           left == [cut EXCEPT !.todo = {}, !.wasOff = FALSE]
<1> Sound(eng) /\ WorldOK
  BY DEF IInv
<1>1. /\ UNCHANGED World /\ eng.callOn = t
      /\ eng' = IF eng.forced THEN left ELSE EndTask(cut, t, eng.callOwn)
  BY Zenon DEF CallAborts
<1>2. Sound(Released) /\ SameWork(eng, Released) /\ Released.status = eng.status
      /\ Released.cool = eng.cool /\ Released.window = eng.window
  BY ReleasedSound DEF SameWork, Released, Sound, EngineType
<1>3. unpainted \in BOOLEAN /\ (eng.forced => unpainted)
  BY DEF Sound, EngineType
<1>3a. unpainted = (eng.forced \/ ~(Delay /\ eng.callOwn))
  OBVIOUS
<1> HIDE DEF unpainted
<1>4. cut \in EngineType
  BY <1>2, <1>3 DEF Sound, EngineType
<1>5. /\ SameWork(eng, cut) /\ cut.status = eng.status /\ cut.unpainted = unpainted
      /\ cut.cool = eng.cool /\ cut.window = eng.window
  BY <1>2 DEF SameWork, Sound, EngineType
<1>5a. /\ cut.callOn = Released.callOn /\ cut.forced = Released.forced
       /\ cut.window = Released.window /\ cut.loaded = Released.loaded
       /\ cut.enabled = Released.enabled /\ cut.sup = Released.sup
       /\ cut.supTimer = Released.supTimer
  BY <1>2 DEF Sound, EngineType
<1> HIDE DEF cut
<1>5b. Sound(cut)
  BY <1>2, <1>4, <1>5a DEF Sound, Capped, Watched
<1>6. Sound(left) /\ PassOnly(cut, left)
  <2>1. left \in EngineType
    BY <1>4 DEF EngineType
  <2>2. PassOnly(cut, left) /\ left.supTimer = cut.supTimer
    BY <1>4 DEF Kept, PassOnly, EngineType
  <2> HIDE DEF left
  <2> QED BY <1>5b, <2>1, <2>2 DEF Kept, PassOnly, Sound, Capped, Watched
<1> HIDE DEF left
<1>7. Sound(eng')
  BY <1>1, <1>5b, <1>6, EndTaskSound
<1>8. IInv'
  BY <1>1, <1>7 DEF World, WorldOK, IInv, Sound, Capped, Watched
<1>9. Ended(t, cut)
  BY <1>1, <1>3, <1>3a, <1>5, <1>5b, <1>6 DEF Ended
<1> QED BY <1>1, <1>8, <1>9

LEMMA CallEndsSound ==
  ASSUME IInv, CallEnds
  PROVE  IInv' /\ UNCHANGED World /\ \E t \in Targets : \E p : Ended(t, p)
<1>1. PICK t \in Targets :
        \/ \E live \in IF Debounce THEN BOOLEAN ELSE {FALSE} : CallSucceeds(t, live)
        \/ CallFails(t)
        \/ CallSkipsDeadMember(t)
        \/ CallAborts(t)
  BY DEF CallEnds
<1>2. ASSUME NEW live \in IF Debounce THEN BOOLEAN ELSE {FALSE}, CallSucceeds(t, live)
      PROVE  IInv' /\ UNCHANGED World /\ \E p : Ended(t, p)
  <2>1. live \in BOOLEAN
    OBVIOUS
  <2> QED BY <1>2, <2>1, CallSucceedsSound
<1> QED BY <1>1, <1>2, CallFailsSound, CallSkipsSound, CallAbortsSound

\* The turn of a pass: in its call, or skipped (s, which r repaints) and over.
Called(t) == /\ eng'.callOn = t /\ ~eng'.callOwn /\ eng'.forced
             /\ eng'.status = "enforcing" /\ ~eng'.unpainted
             /\ eng'.loaded = eng.loaded /\ eng'.started = eng.started
             /\ eng'.enabled = eng.enabled /\ eng'.sup = eng.sup
             /\ eng'.pend = eng.pend /\ eng'.parked = eng.parked /\ eng'.lost = eng.lost
             /\ eng'.cool = eng.cool /\ eng'.window = eng.window /\ eng'.due = eng.due

Skipped(s, r) == /\ Sound(s) /\ Kept(eng, s) /\ Repainted(s)
                 /\ r \in {s, Idle(s)} /\ PassOnly(r, eng')

LEMMA TurnLeaves ==
  ASSUME Sound(eng), NEW t \in Targets, TurnGranted(t)
  PROVE  /\ Sound(eng') /\ UNCHANGED World /\ eng.callOn = NoTarget /\ eng.turn = t
         /\ Called(t) \/ \E s, r : Skipped(s, r)
<1> DEFINE e == [eng EXCEPT !.turn = NoTarget]
           s == [e EXCEPT !.status = ArmedOrCooldown(e)]
<1>1. eng' \in IF dev[t] = "skip" THEN TurnEnds(s) ELSE {ForcedCall(e, t)}
  BY Zenon DEF TurnGranted, ForcedCall
<1>2. Sound(e) /\ Kept(eng, e)
  <2>1. e \in EngineType
    BY DEF Sound, EngineType
  <2>2. Kept(eng, e) /\ e.supTimer = eng.supTimer
    BY DEF Kept, Sound, EngineType
  <2> HIDE DEF e
  <2> QED BY <2>1, <2>2 DEF Kept, Sound, Capped, Watched
<1>3. UNCHANGED World /\ eng.callOn = NoTarget /\ eng.turn = t
  BY DEF TurnGranted
<1> HIDE DEF e
<1>4. Sound(s) /\ Repainted(s) /\ Kept(e, s)
  <2>1. Sound(s) /\ Repainted(s)
    BY <1>2, StatusType, StatusSound, StatusRepaints DEF Sound
  <2>2. Kept(e, s)
    BY <1>2 DEF Kept, Sound, EngineType
  <2> QED BY <2>1, <2>2
<1> HIDE DEF s
<1>5. CASE dev[t] = "skip"
  <2> DEFINE r == IF s.wasOff THEN Idle(s) ELSE s
  <2>1. Sound(eng') /\ PassOnly(r, eng')
    BY <1>1, <1>4, <1>5, TurnEndsLeaves
  <2>2. r \in {s, Idle(s)}
    OBVIOUS
  <2>3. Kept(eng, s)
    BY <1>2, <1>4 DEF Kept
  <2> HIDE DEF r
  <2>4. Skipped(s, r)
    BY <1>4, <2>1, <2>2, <2>3 DEF Skipped
  <2> QED BY <1>3, <2>1, <2>4
<1>6. CASE dev[t] # "skip"
  <2>1. eng' = ForcedCall(e, t)
    BY <1>1, <1>6
  <2>2. Sound(eng')
    BY <1>2, <2>1, ForcedCallSound
  <2>3. /\ eng'.callOn = t /\ ~eng'.callOwn /\ eng'.forced
        /\ eng'.status = "enforcing" /\ ~eng'.unpainted
        /\ eng'.loaded = e.loaded /\ eng'.started = e.started /\ eng'.enabled = e.enabled
        /\ eng'.sup = e.sup /\ eng'.pend = e.pend /\ eng'.parked = e.parked
        /\ eng'.lost = e.lost /\ eng'.cool = e.cool /\ eng'.window = e.window
        /\ eng'.due = e.due
    BY <1>2, <2>1 DEF ForcedCall, Sound, EngineType
  <2>4. Called(t)
    BY <1>2, <2>3 DEF Called, Kept
  <2> QED BY <1>3, <2>2, <2>4
<1> QED BY <1>5, <1>6

LEMMA TasksSound == ASSUME IInv, Tasks PROVE IInv'
<1> Sound(eng) /\ WorldOK
  BY DEF IInv
<1>0. ASSUME UNCHANGED World, Sound(eng') PROVE IInv'
  BY <1>0 DEF World, WorldOK, IInv, Sound, Capped, Watched
<1>1. ASSUME NEW t \in Targets, DelayTimerFires(t) PROVE IInv'
  <2> DEFINE dropped == [eng EXCEPT !.pend[t] = "none"]
             firing  == [eng EXCEPT !.pend[t] = "firing"]
  <2>1. Sound(dropped) /\ Sound(firing)
    BY DEF Sound, Capped, Watched, EngineType
  <2>2. eng' = IF Inactive(eng) THEN Idle(eng)
               ELSE IF eng.sup = "active" THEN Idle(dropped)
               ELSE IF dev[t] # "bad" \/ ~flag
                    THEN [dropped EXCEPT !.status = ArmedOrCooldown(dropped)]
               ELSE Acquire(firing, t)
    BY <1>1, Zenon DEF DelayTimerFires
  <2> HIDE DEF dropped, firing
  <2>3. Sound(eng')
    BY <2>1, <2>2, IdleSound, StatusSound, StatusType, AcquireSound
  <2> QED BY <1>0, <1>1, <2>3 DEF DelayTimerFires
<1>2. ASSUME NEW t \in Targets, OwnerGranted(t) PROVE IInv'
  <2>1. Sound([eng EXCEPT !.parked = @ \ {t}])
    BY DEF Sound, Capped, Watched, EngineType
  <2>2. Sound(eng')
    BY <1>2, <2>1, EnterSound DEF OwnerGranted
  <2> QED BY <1>0, <1>2, <2>2 DEF OwnerGranted
<1>3. ASSUME NEW t \in Targets, LostGranted(t) PROVE IInv'
  <2>1. Sound([eng EXCEPT !.lost[t] = @ - 1])
    BY <1>3 DEF LostGranted, Sound, Capped, Watched, EngineType
  <2>2. Sound(eng')
    BY <1>3, <2>1, EnterSound DEF LostGranted
  <2> QED BY <1>0, <1>3, <2>2 DEF LostGranted
<1>4. ASSUME NEW t \in Targets, DoneCallback(t) PROVE IInv'
  <2>1. (eng.callOwn /\ eng.callOn # t) \in BOOLEAN
    OBVIOUS
  <2>2. (IF t \in eng.parked THEN eng.lost[t] + 1 ELSE eng.lost[t]) \in Nat
    BY DEF Sound, EngineType
  <2>3. Sound(eng')
    BY <1>4, <2>1, <2>2 DEF DoneCallback, Sound, Capped, Watched, EngineType
  <2> QED BY <1>0, <1>4, <2>3 DEF DoneCallback
<1>5. ASSUME NEW t \in Targets, TurnGranted(t) PROVE IInv'
  BY <1>0, <1>5, TurnLeaves
<1>6. ASSUME CallEnds PROVE IInv'
  BY <1>6, CallEndsSound
<1> QED BY <1>1, <1>2, <1>3, <1>4, <1>5, <1>6 DEF Tasks

LEMMA StepSound == ASSUME IInv, [Next]_vars PROVE IInv'
<1>1. CASE Next
  BY <1>1, WorldMovesSound, OperationsSound, ClockSound, TasksSound DEF Next
<1>2. CASE UNCHANGED vars
  BY <1>2 DEF vars, IInv, WorldOK, Sound, Capped, Watched
<1> QED BY <1>1, <1>2

LEMMA Invariance == Spec => []IInv
BY InitSound, StepSound, PTL DEF Spec

-----------------------------------------------------------------------------
(* Theorems.                                                               *)

\* Every variable keeps its type, whatever the rule's targets and configuration.
THEOREM TypeCorrect == Spec => []TypeOK
<1>1. IInv => TypeOK
  BY DEF IInv, WorldOK, Sound, TypeOK
<1> QED BY <1>1, Invariance, PTL

\* A suppressed rule never loses the timer that ends its suppression, whatever
\* sequence of switches, resets and loop protections it goes through.
THEOREM SuppressionEnds == Spec => []SuppressionEndWatched
<1>1. IInv => SuppressionEndWatched
  BY DEF IInv, Sound, Watched, SuppressionEndWatched
<1> QED BY <1>1, Invariance, PTL

-----------------------------------------------------------------------------
(* Countdowns.  An operator either drops every countdown or starts none and   *)
(* keeps what justifies the others (Tame); only EvaluateDelayed starts one,   *)
(* and its guards are the justification.                                      *)


\* What justifies a countdown of t, but for what t itself shows
Licensed(e) == /\ e.loaded /\ e.started /\ e.enabled /\ master'
               /\ e.sup # "active" /\ flag'

\* Every countdown of e is justified in the world after the step, except that the
\* targets of S may have changed since.
Warranted(e, S) ==
    \A t \in Targets : e.pend[t] = "armed" => Licensed(e) /\ (t \notin S => dev'[t] = "bad")

NoneArmed(e) == \A t \in Targets : e.pend[t] # "armed"

\* x has no countdown that e had not, and keeps the switches of e.
Within(e, x) ==
    /\ x.loaded = e.loaded /\ x.started = e.started /\ x.enabled = e.enabled
    /\ x.sup = "active" => e.sup = "active"
    /\ \A t \in Targets : x.pend[t] = "armed" => e.pend[t] = "armed"

Tame(e, x) == NoneArmed(x) \/ Within(e, x)

LEMMA TameWarranted ==
  ASSUME NEW e, NEW x, NEW S, Tame(e, x), Warranted(e, S) PROVE Warranted(x, S)
BY DEF Tame, NoneArmed, Within, Warranted, Licensed

LEMMA TameChain ==
  ASSUME NEW e, NEW x, NEW y, Tame(e, x), Tame(x, y) PROVE Tame(e, y)
BY DEF Tame, NoneArmed, Within

LEMMA WithinChain ==
  ASSUME NEW e, NEW x, NEW y, Within(e, x), Within(x, y) PROVE Within(e, y)
BY DEF Within

LEMMA NoneArmedWarranted ==
  ASSUME NEW e, NEW x, NEW S, NoneArmed(e), Within(e, x) PROVE Warranted(x, S)
BY DEF NoneArmed, Within, Warranted

-----------------------------------------------------------------------------
(* One lemma per operator that starts no countdown.                        *)

LEMMA CancelPendingWithin ==
  ASSUME NEW e \in EngineType, NEW D
  PROVE  /\ Within(e, CancelPending(e, D))
         /\ \A t \in Targets \cap D : CancelPending(e, D).pend[t] = "none"
BY DEF Within, CancelPending, EngineType

LEMMA StatusWithin ==
  ASSUME NEW e \in EngineType, NEW st PROVE Within(e, [e EXCEPT !.status = st])
BY DEF Within, EngineType

LEMMA IdleWithin ==
  ASSUME NEW e, Sound(e)
  PROVE  Within(e, Idle(e)) /\ (Inactive(e) => NoneArmed(Idle(e)))
<1> DEFINE c == CancelPending(e, Targets)
           p == [c EXCEPT !.coolTimer = [t \in Targets |-> FALSE], !.status = IdleStatus(e)]
<1>1. Within(e, c) /\ NoneArmed(c) /\ c \in EngineType
  BY CancelPendingWithin, CancelPendingSound DEF Sound, NoneArmed
<1>2. Idle(e) = IF Inactive(e) THEN p ELSE [e EXCEPT !.status = IdleStatus(e)]
  BY DEF Idle
<1> HIDE DEF c
<1>3. Within(c, p) /\ NoneArmed(p)
  BY <1>1 DEF Within, NoneArmed, EngineType
<1> HIDE DEF p
<1> QED BY <1>1, <1>2, <1>3, WithinChain, StatusWithin DEF Sound

LEMMA ClearSuppressionWithin ==
  ASSUME NEW e \in EngineType
  PROVE  Within(e, ClearSuppression(e)) /\ ClearSuppression(e).sup = "none"
BY DEF Within, ClearSuppression, EngineType

LEMMA ScheduleSuppressionTimerWithin ==
  ASSUME NEW e \in EngineType PROVE Within(e, ScheduleSuppressionTimer(e))
BY DEF Within, ScheduleSuppressionTimer, EngineType

LEMMA RearmCooldownBroadcastsWithin ==
  ASSUME NEW e \in EngineType PROVE Within(e, RearmCooldownBroadcasts(e))
BY DEF Within, RearmCooldownBroadcasts, EngineType

LEMMA ReplaceTasksWithin ==
  ASSUME NEW e \in EngineType, NEW S PROVE Within(e, ReplaceTasks(e, S))
BY DEF Within, ReplaceTasks, EngineType

LEMMA StartedWithin ==
  ASSUME NEW e \in EngineType, NEW S PROVE Within(e, Started(e, S))
BY DEF Within, Started, EngineType

LEMMA LoopProtectionDisarms ==
  ASSUME NEW e, Sound(e) PROVE NoneArmed(LoopProtection(e))
<1> DEFINE hit == [e EXCEPT !.sup = "active"]
           c == CancelPending(ScheduleSuppressionTimer(hit), Targets)
<1>1. hit \in EngineType /\ Capped(hit)
  BY DEF Sound, Capped, EngineType
<1> HIDE DEF hit
<1>2. c \in EngineType /\ NoneArmed(c)
  BY <1>1, ScheduleSuppressionTimerSound, CancelPendingSound, CancelPendingWithin
     DEF Sound, NoneArmed
<1> HIDE DEF c
<1>3. NoneArmed([c EXCEPT !.status = "suppressed"])
  BY <1>2 DEF NoneArmed, EngineType
<1> QED BY <1>3 DEF LoopProtection, c, hit

LEMMA EndTaskTame ==
  ASSUME NEW e, Sound(e), NEW t \in Targets, NEW own PROVE Tame(e, EndTask(e, t, own))
<1> DEFINE d == [e EXCEPT !.due[t] = TRUE]
           p == [e EXCEPT !.pend[t] = "none"]
<1>1. Within(e, d) /\ Within(e, p)
  BY DEF Within, Sound, EngineType
<1>2. Sound(p)
  BY DEF Sound, Capped, Watched, EngineType
<1>3. EndTask(e, t, own) = IF ~Delay THEN d ELSE IF own THEN Idle(p) ELSE e
  BY DEF EndTask
<1> HIDE DEF d, p
<1>4. Within(e, e)
  BY DEF Within
<1> QED BY <1>1, <1>2, <1>3, <1>4, IdleWithin, WithinChain DEF Tame

LEMMA EnterTame ==
  ASSUME NEW e, Sound(e), NEW t \in Targets, NEW own \in BOOLEAN
  PROVE  Tame(e, Enter(e, t, own))
<1>1. CASE RateLimited(e)
  <2>1. Tame(e, LoopProtection(e))
    BY LoopProtectionDisarms DEF Tame
  <2> QED BY <1>1, <2>1, LoopProtectionSound, EndTaskTame, TameChain DEF Enter
<1>2. CASE ~RateLimited(e) /\ dev'[t] = "skip"
  <2> DEFINE p == [e EXCEPT !.status = ArmedOrCooldown(e)]
  <2>1. Sound(p) /\ Tame(e, p)
    BY StatusSound, StatusWithin, StatusType DEF Sound, Tame
  <2>2. Enter(e, t, own) = EndTask(p, t, own)
    BY <1>2 DEF Enter
  <2> HIDE DEF p
  <2> QED BY <2>1, <2>2, EndTaskTame, TameChain
<1>3. CASE ~RateLimited(e) /\ dev'[t] # "skip"
  <2>1. Within(e, [e EXCEPT !.callOn = t, !.callOwn = own, !.forced = FALSE,
                            !.unpainted = FALSE, !.wasErr = (e.status = "error"), !.status = "enforcing"])
    BY DEF Within, Sound, EngineType
  <2> QED BY <1>3, <2>1 DEF Enter, Tame
<1> QED BY <1>1, <1>2, <1>3

LEMMA AcquireTame ==
  ASSUME NEW e, Sound(e), NEW t \in Targets PROVE Tame(e, Acquire(e, t))
<1>1. Within(e, [e EXCEPT !.parked = @ \cup {t}])
  BY DEF Within, Sound, EngineType
<1> QED BY <1>1, EnterTame DEF Acquire, Tame

-----------------------------------------------------------------------------
(* Evaluation: what it starts or keeps is justified.                       *)

LEMMA EvaluateDelayedWarranted ==
  ASSUME NEW e, Sound(e), Licensed(e), NEW S \in SUBSET Targets, Warranted(e, S),
         NEW x \in EvaluateDelayed(e, S)
  PROVE  Warranted(x, {})
<1> DEFINE base  == CancelPending(e, Acting(e, S) \cup Quiet(S))
           armed == [base EXCEPT !.pend = [t \in Targets |->
                                             IF t \in Acting(e, S) THEN "armed"
                                             ELSE base.pend[t]]]
<1>1. PICK st \in Left(armed, S) : x = [armed EXCEPT !.status = st]
  BY DEF EvaluateDelayed
<1>2. base \in EngineType /\ Within(e, base)
  BY CancelPendingSound, CancelPendingWithin DEF Sound
<1>3. \A t \in Quiet(S) : base.pend[t] = "none"
  BY CancelPendingWithin DEF Quiet, Sound
<1> HIDE DEF base
<1>4. /\ x.loaded = base.loaded /\ x.started = base.started /\ x.enabled = base.enabled
      /\ x.sup = base.sup
      /\ \A t \in Targets : x.pend[t] = IF t \in Acting(e, S) THEN "armed" ELSE base.pend[t]
  BY <1>1, <1>2 DEF EngineType
<1>5. Licensed(x)
  BY <1>2, <1>4 DEF Within, Licensed
<1>6. ASSUME NEW t \in Targets, x.pend[t] = "armed" PROVE dev'[t] = "bad"
  <2>1. CASE t \in Acting(e, S)
    BY <2>1 DEF Acting
  <2>2. CASE t \notin Acting(e, S)
    <3>1. base.pend[t] = "armed" /\ e.pend[t] = "armed"
      BY <1>2, <1>4, <1>6, <2>2 DEF Within
    <3> QED BY <1>3, <3>1 DEF Warranted, Quiet
  <2> QED BY <2>1, <2>2
<1> QED BY <1>5, <1>6 DEF Warranted

LEMMA FirstEntersTame ==
  ASSUME NEW e, Sound(e), NEW S \in SUBSET Targets, NEW t \in Targets,
         NEW x \in FirstEnters(e, t, S)
  PROVE  Tame(e, x)
<1> DEFINE in == Enter(e, t, TRUE)
<1>1. in \in EngineType /\ Tame(e, in)
  BY EnterSound, EnterTame DEF Sound
<1>2. ASSUME NEW st, x = [in EXCEPT !.parked = Acting(e, S) \ {t}, !.status = st]
      PROVE  Tame(e, x)
  <2> HIDE DEF in
  <2>1. Tame(in, x)
    BY <1>1, <1>2 DEF Tame, Within, EngineType
  <2> QED BY <1>1, <2>1, TameChain
<1> QED BY <1>1, <1>2 DEF FirstEnters

LEMMA EvaluateNowWarranted ==
  ASSUME NEW e, Sound(e), Licensed(e), NEW S \in SUBSET Targets, Warranted(e, S),
         NEW x \in EvaluateNow(e, S)
  PROVE  Warranted(x, {})
<1> DEFINE base == CancelPending(e, Quiet(S))
<1>1. Sound(base) /\ base \in EngineType /\ Within(e, base)
  BY CancelPendingSound, CancelPendingWithin DEF Sound
<1>2. \A t \in Quiet(S) : base.pend[t] = "none"
  BY CancelPendingWithin DEF Quiet, Sound
<1> DEFINE first(t, st) == FirstEnters([base EXCEPT !.status = st], t, S)
           queued(st) == [base EXCEPT !.parked = @ \cup Acting(e, S), !.status = st]
           before == Painted(base, S) \cup {base.status}
<1>3. x \in IF LockIdle(base) /\ Acting(e, S) # {}
            THEN UNION {UNION {first(t, st) : st \in before} : t \in Acting(e, S)}
            ELSE {queued(st) : st \in Left(base, S)}
  BY Zenon DEF EvaluateNow
<1> HIDE DEF base
<1>4. Warranted(base, {})
  BY <1>1, <1>2 DEF Warranted, Within, Licensed, Quiet
<1>5. \A st \in before, t \in Acting(e, S) : x \in first(t, st) => Tame(base, x)
  <2> SUFFICES ASSUME NEW st \in before, NEW t \in Acting(e, S), x \in first(t, st)
               PROVE  Tame(base, x)
    OBVIOUS
  <2> DEFINE p == [base EXCEPT !.status = st]
  <2>1. st \in Status
    BY <1>1, PaintedStatus DEF EngineType
  <2>2. Sound(p) /\ Tame(base, p)
    BY <1>1, <2>1, StatusSound, StatusWithin DEF Tame
  <2>3. t \in Targets
    BY DEF Acting
  <2> HIDE DEF p
  <2>4. x \in FirstEnters(p, t, S)
    BY DEF p
  <2> QED BY <2>2, <2>3, <2>4, FirstEntersTame, TameChain
<1>6. \A st \in Left(base, S) : x = queued(st) => Tame(base, x)
  BY <1>1 DEF Tame, Within, EngineType
<1> HIDE DEF first, queued, before
<1>7. Tame(base, x)
  BY <1>3, <1>5, <1>6
<1> QED BY <1>4, <1>7, TameWarranted

LEMMA ElapsedCleared ==
  ASSUME NEW e, Sound(e)
  PROVE  LET c == IF e.sup = "elapsed" THEN ClearSuppression(e) ELSE e
         IN  Sound(c) /\ Within(e, c)
<1>1. Within(e, e) /\ Within(e, ClearSuppression(e))
  BY ClearSuppressionWithin DEF Within, Sound
<1>2. Capped(e) /\ Sound(ClearSuppression(e))
  BY ClearSuppressionSound DEF Sound
<1> QED BY <1>1, <1>2

LEMMA EvaluateWarranted ==
  ASSUME NEW e, Sound(e), e.loaded, NEW S \in SUBSET Targets, Warranted(e, S),
         NEW x \in Evaluate(e, S)
  PROVE  Warranted(x, {})
<1> DEFINE all == Evaluated(e, S)
           r   == ReplaceTasks(e, all)
           c   == IF r.sup = "elapsed" THEN ClearSuppression(r) ELSE r
           outcomes ==
             IF Inactive(r) THEN {Idle(r)}
             ELSE IF ~r.started THEN {r}
             ELSE IF r.sup = "active" THEN {[r EXCEPT !.status = "suppressed"]}
             ELSE IF ~flag' THEN {[CancelPending(c, Targets) EXCEPT !.status = "conditional"]}
             ELSE EvaluateLive(c, all)
<1>1. PICK o \in outcomes : x = Started(o, all)
  BY DEF Evaluate
<1>2. all \in SUBSET Targets /\ S \subseteq all
  BY EvaluatedTargets DEF Evaluated
<1>3. Sound(r) /\ r \in EngineType /\ Within(e, r)
  BY ReplaceTasksSound, ReplaceTasksWithin DEF Sound
<1> HIDE DEF r, all
<1>4. Warranted(r, all) /\ r.loaded
  BY <1>2, <1>3 DEF Warranted, Within, Licensed
<1>5. Sound(c) /\ c \in EngineType /\ Within(r, c)
  BY <1>3, ElapsedCleared DEF Sound
<1>6. r.sup # "active" => c.sup # "active"
  BY <1>5 DEF Within
<1> HIDE DEF c
<1>7. Warranted(c, all) /\ c.loaded
  BY <1>4, <1>5, TameWarranted DEF Tame, Within
<1>8. Warranted(o, {}) /\ o \in EngineType
  <2>1. CASE Inactive(r)
    <3>1. o = Idle(r)
      BY <2>1
    <3> QED BY <1>3, <2>1, <3>1, IdleSound, IdleWithin DEF Sound, Warranted, NoneArmed
  <2>2. CASE ~Inactive(r) /\ ~r.started
    <3>1. o = r
      BY <2>2
    <3> QED BY <1>3, <1>4, <2>2, <3>1 DEF Warranted, Licensed
  <2>3. CASE ~Inactive(r) /\ r.started /\ r.sup = "active"
    <3>1. o = [r EXCEPT !.status = "suppressed"]
      BY <2>3
    <3>2. "suppressed" \in Status
      BY DEF Status
    <3> QED BY <1>3, <1>4, <2>3, <3>1, <3>2, StatusSound, StatusWithin
            DEF Sound, Within, Warranted, Licensed
  <2>4. CASE ~Inactive(r) /\ r.started /\ r.sup # "active" /\ ~flag'
    <3> DEFINE k == CancelPending(c, Targets)
    <3>1. o = [k EXCEPT !.status = "conditional"]
      BY <2>4
    <3>2. Sound(k) /\ k \in EngineType /\ NoneArmed(k)
      BY <1>5, CancelPendingSound, CancelPendingWithin DEF Sound, NoneArmed
    <3>3. "conditional" \in Status
      BY DEF Status
    <3> HIDE DEF k
    <3> QED BY <3>1, <3>2, <3>3, StatusSound, StatusWithin
            DEF Sound, Within, Warranted, NoneArmed
  <2>5. CASE ~Inactive(r) /\ r.started /\ r.sup # "active" /\ flag'
    <3>1. o \in EvaluateLive(c, all)
      BY <2>5
    <3>2. Licensed(c)
      BY <1>5, <1>6, <1>7, <2>5 DEF Licensed, Within, Inactive
    <3>3. o \in EngineType
      BY <1>2, <1>5, <3>1, EvaluateLiveSound DEF Sound
    <3> QED BY <1>2, <1>5, <1>7, <3>1, <3>2, <3>3,
               EvaluateDelayedWarranted, EvaluateNowWarranted DEF EvaluateLive
  <2> QED BY <2>1, <2>2, <2>3, <2>4, <2>5
<1> QED BY <1>1, <1>8, StartedWithin, TameWarranted DEF Tame

\* What a watched entity that is no target leaves: nothing armed, or the countdowns of
\* a rule that may still act.
LEMMA EvaluateFlagWarranted ==
  ASSUME NEW e, Sound(e), e.loaded, flag' => Warranted(e, {}),
         e.sup = "active" => NoneArmed(e), NEW x \in EvaluateFlag(e)
  PROVE  Warranted(x, {})
<1> DEFINE c == IF e.sup = "elapsed" THEN ClearSuppression(e) ELSE e
           met == [c EXCEPT !.status = ArmedOrCooldown(c)]
           k == CancelPending(c, Targets)
           violating == {t \in Targets : dev'[t] = "bad"}
<1>1. x \in IF Inactive(e) THEN {Idle(e)}
            ELSE IF e.sup = "active" THEN {[e EXCEPT !.status = "suppressed"]}
            ELSE IF ~flag' THEN {[k EXCEPT !.status = "conditional"]}
            ELSE IF violating = {} THEN {met} ELSE Evaluate(met, violating)
  BY DEF EvaluateFlag
<1>2. Sound(c) /\ c \in EngineType /\ Within(e, c)
  BY ElapsedCleared DEF Sound
<1> HIDE DEF c
<1>3. k \in EngineType /\ NoneArmed(k)
  BY <1>2, CancelPendingSound, CancelPendingWithin DEF Sound, NoneArmed
<1>4. Sound(met) /\ Within(c, met)
  BY <1>2, StatusType, StatusSound, StatusWithin
<1> HIDE DEF k, met
<1>5. CASE Inactive(e)
  BY <1>1, <1>5, IdleWithin DEF NoneArmed, Warranted
<1>6. CASE ~Inactive(e) /\ e.sup = "active"
  <2>1. x = [e EXCEPT !.status = "suppressed"]
    BY <1>1, <1>6
  <2>2. Within(e, x)
    BY <2>1, StatusWithin DEF Sound
  <2> QED BY <1>6, <2>2, NoneArmedWarranted
<1>7. CASE ~Inactive(e) /\ e.sup # "active" /\ ~flag'
  <2>1. x = [k EXCEPT !.status = "conditional"]
    BY <1>1, <1>7
  <2> QED BY <1>3, <2>1, StatusWithin, NoneArmedWarranted
<1>8. CASE ~Inactive(e) /\ e.sup # "active" /\ flag'
  <2>1. Within(e, met)
    BY <1>2, <1>4, WithinChain
  <2>2. Warranted(met, {}) /\ met.loaded
    BY <1>8, <2>1 DEF Within, Warranted, Licensed
  <2>3. Warranted(met, violating)
    BY <2>2 DEF Warranted
  <2> HIDE DEF violating
  <2>4. x = met \/ x \in Evaluate(met, violating)
    BY <1>1, <1>8
  <2>5. violating \in SUBSET Targets
    BY DEF violating
  <2> QED BY <1>4, <2>2, <2>3, <2>4, <2>5, EvaluateWarranted
<1> QED BY <1>5, <1>6, <1>7, <1>8

LEMMA EvaluateSourceWarranted ==
  ASSUME NEW e, Sound(e), e.loaded, Warranted(e, Targets), NEW x \in EvaluateSource(e)
  PROVE  Warranted(x, {})
<1> DEFINE c == IF e.sup = "elapsed" THEN ClearSuppression(e) ELSE e
           met == [c EXCEPT !.status = ArmedOrCooldown(c)]
           k == CancelPending(c, Targets)
<1>1. x \in IF Inactive(e) THEN {Idle(e)}
            ELSE IF ~e.started THEN {e}
            ELSE IF e.sup = "active" THEN {[e EXCEPT !.status = "suppressed"]}
            ELSE IF ~flag' THEN {[k EXCEPT !.status = "conditional"]}
            ELSE Evaluate(met, Targets)
  BY DEF EvaluateSource
<1>2. Sound(c) /\ c \in EngineType /\ Within(e, c)
  BY ElapsedCleared DEF Sound
<1> HIDE DEF c
<1>3. k \in EngineType /\ NoneArmed(k)
  BY <1>2, CancelPendingSound, CancelPendingWithin DEF Sound, NoneArmed
<1>4. Sound(met) /\ Within(c, met)
  BY <1>2, StatusType, StatusSound, StatusWithin
<1> HIDE DEF k, met
<1>5. CASE Inactive(e)
  BY <1>1, <1>5, IdleWithin DEF NoneArmed, Warranted
<1>6. CASE ~Inactive(e) /\ (~e.started \/ e.sup = "active")
  <2>1. NoneArmed(e)
    BY <1>6 DEF NoneArmed, Warranted, Licensed
  <2>2. x = e \/ x = [e EXCEPT !.status = "suppressed"]
    BY <1>1, <1>6
  <2>3. Within(e, e)
    BY DEF Within
  <2>4. Within(e, [e EXCEPT !.status = "suppressed"])
    BY StatusWithin DEF Sound
  <2> QED BY <2>1, <2>2, <2>3, <2>4, NoneArmedWarranted
<1>7. CASE ~Inactive(e) /\ e.started /\ e.sup # "active" /\ ~flag'
  <2>1. x = [k EXCEPT !.status = "conditional"]
    BY <1>1, <1>7
  <2> QED BY <1>3, <2>1, StatusWithin, NoneArmedWarranted
<1>8. CASE ~Inactive(e) /\ e.started /\ e.sup # "active" /\ flag'
  <2>1. Within(e, met)
    BY <1>2, <1>4, WithinChain
  <2>2. Warranted(met, Targets) /\ met.loaded
    BY <2>1 DEF Within, Warranted, Licensed
  <2> QED BY <1>1, <1>4, <1>8, <2>2, EvaluateWarranted
<1> QED BY <1>5, <1>6, <1>7, <1>8

LEMMA SweepWarranted ==
  ASSUME NEW e, Sound(e), e.loaded, Warranted(e, {}), NEW x \in Sweep(e)
  PROVE  Warranted(x, {})
<1>1. Warranted(e, Targets)
  BY DEF Warranted
<1> QED BY <1>1, EvaluateWarranted DEF Sweep

-----------------------------------------------------------------------------
(* One step per action.                                                    *)

\* In a step that leaves the world alone, the invariant is Warranted(eng, {}).
LEMMA Transfer ==
  /\ CountdownJustified /\ UNCHANGED World => Warranted(eng, {})
  /\ Warranted(eng', {}) => CountdownJustified'
BY DEF CountdownJustified, MayAct, World, Warranted, Licensed

LEMMA WorldMovesWarranted ==
  ASSUME IInv, CountdownJustified, FlagMoves \/ SourceMoves \/ \E t \in Targets : DeviceMoves(t)
  PROVE  CountdownJustified'
<1> Sound(eng) /\ WorldOK
  BY DEF IInv
<1>0. ~eng.loaded => NoneArmed(eng)
  BY DEF CountdownJustified, MayAct, NoneArmed
<1>1. ASSUME NEW t \in Targets, DeviceMoves(t) PROVE CountdownJustified'
  <2>1. Warranted(eng, {t})
    BY <1>1 DEF DeviceMoves, CountdownJustified, MayAct, Warranted, Licensed, WorldOK
  <2>2. Warranted(eng', {})
    BY <1>0, <1>1, <2>1, EvaluateWarranted DEF DeviceMoves, Warranted, NoneArmed
  <2> QED BY <2>2, Transfer
<1>2. ASSUME FlagMoves PROVE CountdownJustified'
  <2>1. flag' => Warranted(eng, {})
    BY <1>2 DEF FlagMoves, CountdownJustified, MayAct, Warranted, Licensed
  <2>2. eng.sup = "active" => NoneArmed(eng)
    BY DEF CountdownJustified, MayAct, NoneArmed
  <2>3. Warranted(eng', {})
    BY <1>0, <1>2, <2>1, <2>2, EvaluateFlagWarranted DEF FlagMoves, Warranted, NoneArmed
  <2> QED BY <2>3, Transfer
<1>3. ASSUME SourceMoves PROVE CountdownJustified'
  <2>1. Warranted(eng, Targets)
    BY <1>3 DEF SourceMoves, CountdownJustified, MayAct, Warranted, Licensed
  <2>2. Warranted(eng', {})
    BY <1>0, <1>3, <2>1, EvaluateSourceWarranted DEF SourceMoves, Warranted, NoneArmed
  <2> QED BY <2>2, Transfer
<1> QED BY <1>1, <1>2, <1>3

\* The end of a suppression, by service or by timer
LEMMA ResumeWarranted ==
  ASSUME NEW e, Sound(e), e.loaded, Warranted(e, {}),
         NEW x \in Sweep(Idle(ClearSuppression(e)))
  PROVE  Warranted(x, {})
<1> DEFINE c == ClearSuppression(e)
<1>1. Sound(c) /\ Within(e, c)
  BY ClearSuppressionSound, ClearSuppressionWithin DEF Sound
<1> HIDE DEF c
<1>2. Sound(Idle(c)) /\ Within(c, Idle(c))
  BY <1>1, IdleSound, IdleWithin
<1>3. Within(e, Idle(c))
  BY <1>1, <1>2, WithinChain
<1>4. Warranted(Idle(c), {})
  BY <1>3, TameWarranted DEF Tame
<1>5. Idle(c).loaded
  BY <1>3 DEF Within
<1>6. x \in Sweep(Idle(c))
  BY DEF c
<1> QED BY <1>2, <1>4, <1>5, <1>6, SweepWarranted

LEMMA OperationsWarranted ==
  ASSUME IInv, CountdownJustified, Operations PROVE CountdownJustified'
<1> Sound(eng) /\ eng \in EngineType
  BY DEF IInv, Sound
<1>0. ASSUME UNCHANGED World PROVE Warranted(eng, {})
  BY <1>0, Transfer
<1>1. ASSUME NEW on \in BOOLEAN, MasterSet(on) PROVE CountdownJustified'
  <2> DEFINE idle == Idle(eng)
             r == IF on /\ idle.status = "cooldown" THEN RearmCooldownBroadcasts(idle) ELSE idle
  <2>1. eng' \in IF eng.loaded THEN Sweep(r) ELSE {eng}
    BY <1>1 DEF MasterSet
  <2>2. Sound(idle) /\ idle \in EngineType /\ Within(eng, idle)
    BY IdleSound, IdleWithin DEF Sound
  <2>3. Warranted(idle, {})
    <3>1. CASE Inactive(eng)
      BY <3>1, IdleWithin DEF NoneArmed, Warranted
    <3>2. CASE ~Inactive(eng)
      <4>1. Warranted(eng, {})
        BY <1>1, <3>2 DEF MasterSet, Inactive, CountdownJustified, MayAct, Warranted, Licensed
      <4> QED BY <2>2, <4>1, TameWarranted DEF Tame
    <3> QED BY <3>1, <3>2
  <2> HIDE DEF idle
  <2>4. Sound(r) /\ Within(idle, r)
    <3>1. Within(idle, idle)
      BY DEF Within
    <3> QED BY <2>2, <3>1, RearmCooldownBroadcastsSound, RearmCooldownBroadcastsWithin
  <2> HIDE DEF r
  <2>5. Warranted(r, {}) /\ (eng.loaded => r.loaded)
    BY <2>2, <2>3, <2>4, TameWarranted, WithinChain DEF Tame, Within
  <2>6. CASE eng.loaded
    BY <2>1, <2>4, <2>5, <2>6, SweepWarranted, Transfer
  <2>7. CASE ~eng.loaded
    BY <2>1, <2>7 DEF CountdownJustified, MayAct
  <2> QED BY <2>6, <2>7
<1>2. ASSUME NEW on \in BOOLEAN, SetEnabled(on) PROVE CountdownJustified'
  <2> DEFINE e    == [eng EXCEPT !.enabled = on]
             kept == IF e.sup = "elapsed" THEN ClearSuppression(e) ELSE e
             tmr  == ScheduleSuppressionTimer(kept)
             idle == Idle(tmr)
             r    == IF idle.status = "cooldown" THEN RearmCooldownBroadcasts(idle) ELSE idle
             off  == [e EXCEPT !.supTimer = FALSE]
  <2>1. eng' \in IF on THEN Sweep(r) ELSE {Idle(off)}
    BY <1>2, Zenon DEF SetEnabled
  <2>2. UNCHANGED World /\ eng.loaded
    BY <1>2 DEF SetEnabled
  <2>3. /\ e \in EngineType /\ Capped(e) /\ (~on => Sound(off) /\ ~off.enabled)
        /\ e.loaded /\ (on => Warranted(e, {}))
    BY <1>0, <2>2 DEF Sound, Capped, Watched, EngineType, Warranted, Licensed
  <2>4. CASE ~on
    <3> HIDE DEF off
    <3>1. eng' = Idle(off) /\ Inactive(off) /\ Sound(off)
      BY <2>1, <2>3, <2>4 DEF Inactive
    <3>2. Warranted(eng', {})
      BY <3>1, IdleWithin DEF NoneArmed, Warranted
    <3> QED BY <3>2, Transfer
  <2>5. CASE on
    <3> HIDE DEF e
    <3>1. kept \in EngineType /\ Capped(kept) /\ Within(e, kept)
      <4>1. Within(e, e) /\ Within(e, ClearSuppression(e)) /\ Sound(ClearSuppression(e))
        BY <2>3, ClearSuppressionWithin, ClearSuppressionSound DEF Within
      <4> QED BY <2>3, <4>1 DEF Sound
    <3> HIDE DEF kept
    <3>2. Sound(tmr) /\ Within(kept, tmr)
      BY <3>1, ScheduleSuppressionTimerSound, ScheduleSuppressionTimerWithin
    <3> HIDE DEF tmr
    <3>3. Sound(idle) /\ idle \in EngineType /\ Within(tmr, idle)
      BY <3>2, IdleSound, IdleWithin DEF Sound
    <3> HIDE DEF idle
    <3>4. Sound(r) /\ Within(idle, r)
      <4>1. Within(idle, idle)
        BY DEF Within
      <4> QED BY <3>3, <4>1, RearmCooldownBroadcastsSound, RearmCooldownBroadcastsWithin
    <3> HIDE DEF r
    <3>5. Within(e, r)
      BY <3>1, <3>2, <3>3, <3>4, WithinChain
    <3>6. Warranted(r, {}) /\ r.loaded
      BY <2>3, <2>5, <3>5, TameWarranted DEF Tame, Within
    <3> QED BY <2>1, <2>5, <3>4, <3>6, SweepWarranted, Transfer
  <2> QED BY <2>4, <2>5
<1>3. ASSUME Suppress PROVE CountdownJustified'
  <2> DEFINE hit == [eng EXCEPT !.sup = "active"]
             e == CancelPending(ScheduleSuppressionTimer(hit), Targets)
  <2>1. hit \in EngineType /\ Capped(hit)
    BY DEF Sound, Capped, EngineType
  <2>2. eng' = IF e.status = "error" THEN e ELSE Idle(e)
    BY <1>3 DEF Suppress
  <2> HIDE DEF hit
  <2>3. Sound(e) /\ NoneArmed(e)
    BY <2>1, ScheduleSuppressionTimerSound, CancelPendingSound, CancelPendingWithin
       DEF Sound, NoneArmed
  <2> HIDE DEF e
  <2>4. Within(e, e)
    BY DEF Within
  <2>5. Warranted(eng', {})
    BY <2>2, <2>3, <2>4, IdleWithin, NoneArmedWarranted
  <2> QED BY <2>5, Transfer
<1>4. ASSUME Unsuppress PROVE CountdownJustified'
  <2>1. UNCHANGED World /\ eng.loaded /\ eng' \in Sweep(Idle(ClearSuppression(eng)))
    BY <1>4 DEF Unsuppress
  <2>2. Warranted(eng', {})
    BY <1>0, <2>1, ResumeWarranted
  <2> QED BY <2>2, Transfer
<1>5. ASSUME ResetCooldowns PROVE CountdownJustified'
  <2> DEFINE tmr == ScheduleSuppressionTimer(eng)
             e == [tmr EXCEPT !.cool = [t \in Targets |-> FALSE],
                              !.coolTimer = [t \in Targets |-> FALSE], !.succs = 0]
  <2>1. Sound(tmr) /\ tmr \in EngineType /\ Within(eng, tmr)
    BY ScheduleSuppressionTimerSound, ScheduleSuppressionTimerWithin DEF Sound
  <2>2. UNCHANGED World /\ eng' = Idle(e)
    BY <1>5 DEF ResetCooldowns
  <2> HIDE DEF tmr
  <2>3. Sound(e) /\ Within(tmr, e)
    <3>1. Within(tmr, e)
      BY <2>1 DEF Within, EngineType
    <3> QED BY <2>1, <3>1, ResetSound
  <2> HIDE DEF e
  <2>4. Within(eng, eng')
    BY <2>1, <2>2, <2>3, IdleWithin, WithinChain
  <2> QED BY <1>0, <2>2, <2>4, TameWarranted, Transfer DEF Tame
<1>6. ASSUME ClearHistory PROVE CountdownJustified'
  <2> DEFINE tmr == ScheduleSuppressionTimer(eng)
  <2>1. tmr \in EngineType /\ Within(eng, tmr)
    BY ScheduleSuppressionTimerSound, ScheduleSuppressionTimerWithin DEF Sound
  <2>2. UNCHANGED World /\ eng' = [tmr EXCEPT !.cool = [t \in Targets |-> FALSE],
                   !.coolTimer = [t \in Targets |-> FALSE],
                   !.window = 0, !.errs = 0, !.succs = 0, !.clearing = TRUE]
    BY <1>6 DEF ClearHistory
  <2> HIDE DEF tmr
  <2>3. Within(tmr, eng')
    BY <2>1, <2>2 DEF Within, EngineType
  <2>4. Within(eng, eng')
    BY <2>1, <2>3, WithinChain
  <2> QED BY <1>0, <2>2, <2>4, TameWarranted, Transfer DEF Tame
<1>7. ASSUME ClearHistoryRepaints PROVE CountdownJustified'
  <2> DEFINE e == [eng EXCEPT !.clearing = FALSE,
                              !.status = IF @ = "error" THEN "starting" ELSE @]
  <2>1. Sound(e) /\ Within(eng, e)
    <3>1. Within(eng, e)
      BY DEF Within, EngineType
    <3> QED BY <3>1, HistoryClearedSound
  <2>2. UNCHANGED World /\ eng' = Idle(e)
    BY <1>7 DEF ClearHistoryRepaints
  <2> HIDE DEF e
  <2>3. Within(eng, eng')
    BY <2>1, <2>2, IdleWithin, WithinChain
  <2> QED BY <1>0, <2>2, <2>3, TameWarranted, Transfer DEF Tame
<1>8. ASSUME Unload PROVE CountdownJustified'
  <2> DEFINE r == ReplaceTasks(eng, Targets)
             e == CancelPending(r, Targets)
  <2>1. r \in EngineType
    BY ReplaceTasksSound DEF Sound
  <2>2. e \in EngineType /\ NoneArmed(e)
    BY <2>1, ReplaceTasksSound, CancelPendingSound, CancelPendingWithin DEF Sound, NoneArmed
  <2>3. eng' = [e EXCEPT !.loaded = FALSE, !.supTimer = FALSE,
                         !.coolTimer = [t \in Targets |-> FALSE]]
    BY <1>8 DEF Unload
  <2> HIDE DEF e
  <2>4. Warranted(eng', {})
    BY <2>2, <2>3 DEF NoneArmed, Warranted, EngineType
  <2> QED BY <2>4, Transfer
<1>9. ASSUME Press PROVE CountdownJustified'
  <2>1. UNCHANGED World /\ Within(eng, eng')
    BY <1>9, PressLeaves DEF PassOnly, Kept, Within
  <2> QED BY <1>0, <2>1, TameWarranted, Transfer DEF Tame
<1> QED BY <1>1, <1>2, <1>3, <1>4, <1>5, <1>6, <1>7, <1>8, <1>9 DEF Operations

LEMMA ClockWarranted ==
  ASSUME IInv, CountdownJustified, Clock PROVE CountdownJustified'
<1> Sound(eng) /\ eng \in EngineType
  BY DEF IInv, Sound
<1>0. ASSUME UNCHANGED World, Within(eng, eng') PROVE CountdownJustified'
  BY <1>0, Transfer, TameWarranted DEF Tame
<1>1. ASSUME GraceDone PROVE CountdownJustified'
  <2> DEFINE e == [eng EXCEPT !.started = TRUE]
  <2>1. UNCHANGED World /\ eng.loaded /\ eng' \in Sweep(Idle(e))
    BY <1>1 DEF GraceDone
  <2>2. Sound(e) /\ e.loaded
    BY <2>1 DEF Sound, Capped, Watched, EngineType
  <2>3. Warranted(eng, {})
    BY <2>1, Transfer
  <2>4. Warranted(e, {})
    BY <2>3 DEF Warranted, Licensed, EngineType
  <2> HIDE DEF e
  <2>5. Sound(Idle(e)) /\ Within(e, Idle(e))
    BY <2>2, IdleSound, IdleWithin
  <2>6. Warranted(Idle(e), {})
    BY <2>4, <2>5, TameWarranted DEF Tame
  <2>7. Idle(e).loaded
    BY <2>2, <2>5 DEF Within
  <2> QED BY <2>1, <2>5, <2>6, <2>7, SweepWarranted, Transfer
<1>2. ASSUME Midnight PROVE CountdownJustified'
  BY <1>0, <1>2, IdleWithin DEF Midnight
<1>3. ASSUME SuppressionElapses PROVE CountdownJustified'
  <2>1. Within(eng, eng')
    BY <1>3 DEF SuppressionElapses, Within, EngineType
  <2> QED BY <1>0, <1>3, <2>1 DEF SuppressionElapses
<1>4. ASSUME SuppressionTimerFires PROVE CountdownJustified'
  <2>1. UNCHANGED World /\ eng' \in Sweep(Idle(ClearSuppression(eng)))
    BY <1>4 DEF SuppressionTimerFires
  <2>2. Warranted(eng, {})
    BY <2>1, Transfer
  <2>3. eng.loaded
    BY <1>4 DEF SuppressionTimerFires, Sound, Watched
  <2> QED BY <2>1, <2>2, <2>3, ResumeWarranted, Transfer
<1>5. ASSUME WindowAges PROVE CountdownJustified'
  <2>1. Within(eng, eng')
    BY <1>5 DEF WindowAges, Within, EngineType
  <2> QED BY <1>0, <1>5, <2>1 DEF WindowAges
<1>6. ASSUME NEW t \in Targets, CooldownElapses(t) PROVE CountdownJustified'
  <2>1. Within(eng, eng')
    BY <1>6 DEF CooldownElapses, Within, EngineType
  <2> QED BY <1>0, <1>6, <2>1 DEF CooldownElapses
<1>7. ASSUME NEW t \in Targets, CooldownTimerFires(t) PROVE CountdownJustified'
  <2> DEFINE e == [eng EXCEPT !.coolTimer[t] = FALSE]
  <2>1. Sound(e) /\ Within(eng, e)
    BY DEF Sound, Capped, Watched, Within, EngineType
  <2>2. UNCHANGED World /\ eng' = IF e.loaded THEN Idle(e) ELSE e
    BY <1>7 DEF CooldownTimerFires
  <2> HIDE DEF e
  <2>3. Within(eng, eng')
    BY <2>1, <2>2, IdleWithin, WithinChain
  <2> QED BY <1>0, <2>2, <2>3
<1> QED BY <1>1, <1>2, <1>3, <1>4, <1>5, <1>6, <1>7 DEF Clock

LEMMA TasksWarranted ==
  ASSUME IInv, CountdownJustified, Tasks PROVE CountdownJustified'
<1> Sound(eng) /\ eng \in EngineType
  BY DEF IInv, Sound
<1>0. ASSUME UNCHANGED World, NEW e, Tame(eng, e), Tame(e, eng') PROVE CountdownJustified'
  BY <1>0, TameChain, TameWarranted, Transfer
<1>1. ASSUME NEW t \in Targets, DelayTimerFires(t) PROVE CountdownJustified'
  <2> DEFINE dropped == [eng EXCEPT !.pend[t] = "none"]
             firing  == [eng EXCEPT !.pend[t] = "firing"]
             blocked == [dropped EXCEPT !.status = ArmedOrCooldown(dropped)]
  <2>1. UNCHANGED World /\ eng' = IF Inactive(eng) THEN Idle(eng)
               ELSE IF eng.sup = "active" THEN Idle(dropped)
               ELSE IF dev[t] # "bad" \/ ~flag THEN blocked
               ELSE Acquire(firing, t)
    BY <1>1, Zenon DEF DelayTimerFires
  <2>2. Sound(dropped) /\ Sound(firing)
    BY DEF Sound, Capped, Watched, EngineType
  <2>3. Tame(eng, dropped) /\ Tame(eng, firing) /\ Tame(eng, eng)
    BY DEF Tame, Within, EngineType
  <2> HIDE DEF dropped, firing
  <2>4. Tame(dropped, blocked)
    BY <2>2, StatusWithin DEF Tame, Sound
  <2> HIDE DEF blocked
  <2>5. Tame(eng, Idle(eng)) /\ Tame(dropped, Idle(dropped)) /\ Tame(firing, Acquire(firing, t))
    BY <2>2, IdleWithin, AcquireTame DEF Tame
  <2> QED BY <1>0, <2>1, <2>3, <2>4, <2>5
<1>2. ASSUME NEW t \in Targets, OwnerGranted(t) PROVE CountdownJustified'
  <2> DEFINE e == [eng EXCEPT !.parked = @ \ {t}]
  <2>1. UNCHANGED World /\ eng' = Enter(e, t, TRUE)
    BY <1>2 DEF OwnerGranted
  <2>2. Sound(e) /\ Tame(eng, e)
    BY DEF Sound, Capped, Watched, Tame, Within, EngineType
  <2> HIDE DEF e
  <2> QED BY <1>0, <2>1, <2>2, EnterTame
<1>3. ASSUME NEW t \in Targets, LostGranted(t) PROVE CountdownJustified'
  <2> DEFINE e == [eng EXCEPT !.lost[t] = @ - 1]
  <2>1. UNCHANGED World /\ eng' = Enter(e, t, FALSE)
    BY <1>3 DEF LostGranted
  <2>2. Sound(e) /\ Tame(eng, e)
    BY <1>3 DEF LostGranted, Sound, Capped, Watched, Tame, Within, EngineType
  <2> HIDE DEF e
  <2> QED BY <1>0, <2>1, <2>2, EnterTame
<1>4. ASSUME NEW t \in Targets, DoneCallback(t) PROVE CountdownJustified'
  <2>1. Tame(eng, eng) /\ Tame(eng, eng')
    BY <1>4 DEF DoneCallback, Tame, Within, EngineType
  <2> QED BY <1>0, <1>4, <2>1 DEF DoneCallback
<1>5. ASSUME NEW t \in Targets, TurnGranted(t) PROVE CountdownJustified'
  <2>1. CASE Called(t)
    <3>1. Tame(eng, eng) /\ Tame(eng, eng')
      BY <2>1 DEF Called, Tame, Within
    <3> QED BY <1>0, <1>5, <3>1, TurnLeaves
  <2>2. ASSUME NEW s, NEW r, Skipped(s, r) PROVE CountdownJustified'
    <3>1. Sound(s) /\ Tame(eng, s) /\ Tame(s, s) /\ Tame(r, eng')
      BY <2>2 DEF Skipped, Kept, PassOnly, Tame, Within
    <3>2. Tame(s, Idle(s))
      BY <3>1, IdleWithin DEF Tame
    <3>3. Tame(s, r)
      BY <2>2, <3>1, <3>2 DEF Skipped
    <3> QED BY <1>0, <1>5, <3>1, <3>3, TameChain, TurnLeaves
  <2> QED BY <1>5, <2>1, <2>2, TurnLeaves
<1>6. ASSUME CallEnds PROVE CountdownJustified'
  <2>1. PICK t \in Targets : \E p : Ended(t, p)
    BY <1>6, CallEndsSound
  <2>2. PICK p : Ended(t, p)
    BY <2>1
  <2>3. UNCHANGED World
    BY <1>6, CallEndsSound
  <2>4. Sound(p) /\ Tame(eng, p) /\ Tame(p, p)
    BY <2>2 DEF Ended, SameWork, Tame, Within
  <2>5. Tame(p, Idle(p)) /\ Tame(p, EndTask(p, t, eng.callOwn))
    BY <2>4, IdleWithin, EndTaskTame DEF Tame
  <2>6. CASE ~eng.forced
    BY <1>0, <2>2, <2>3, <2>4, <2>5, <2>6 DEF Ended
  <2>7. CASE eng.forced
    <3>1. PICK r \in {p, Idle(p)} : PassOnly(r, eng')
      BY <2>2, <2>7 DEF Ended
    <3>2. Tame(r, eng')
      BY <3>1 DEF PassOnly, Kept, Tame, Within
    <3>3. Tame(eng, r)
      BY <2>4, <2>5, TameChain
    <3> QED BY <1>0, <2>3, <3>2, <3>3
  <2> QED BY <2>6, <2>7
<1> QED BY <1>1, <1>2, <1>3, <1>4, <1>5, <1>6 DEF Tasks

\* In every reachable state of every rule, each countdown that runs is for a target
\* that violates the rule, while the rule is loaded, past its grace, switched on and
\* not suppressed and its flags match: whatever takes a reason away cancels it.
THEOREM CountdownsAreJustified == Spec => []CountdownJustified
<1>1. Init => CountdownJustified
  <2> SUFFICES ASSUME Init PROVE CountdownJustified
    OBVIOUS
  <2>1. \A t \in Targets : eng.pend[t] = "none"
    BY InitSound
  <2> QED BY <2>1 DEF CountdownJustified
<1>2. IInv /\ CountdownJustified /\ [Next]_vars => CountdownJustified'
  <2>1. CASE Next
    BY <2>1, WorldMovesWarranted, OperationsWarranted, ClockWarranted, TasksWarranted DEF Next
  <2>2. CASE UNCHANGED vars
    BY <2>2 DEF vars, CountdownJustified, MayAct
  <2> QED BY <2>1, <2>2
<1> QED BY <1>1, <1>2, Invariance, PTL DEF Spec

-----------------------------------------------------------------------------
(* What the status shows.  Without a delay no handle of a countdown exists *)
(* at all (NoStray); with that, every operator leaves a status that is     *)
(* live (Lit), and those that paint it do so whatever they find.           *)

NoStray(e) == ~Delay => \A t \in Targets : e.pend[t] = "none"

Shown(e) == /\ e.status = "pending" => HasPending(e)
            /\ e.status = "enforcing" => e.callOn # NoTarget \/ e.unpainted

Lit(e) == NoStray(e) /\ (e.loaded => Shown(e))

\* x shows the same status as e, and still has what it stands for.
Same(e, x) == /\ x.status = e.status /\ x.callOn = e.callOn /\ x.pend = e.pend
              /\ x.loaded = e.loaded /\ x.unpainted = e.unpainted

LEMMA SameLit ==
  ASSUME NEW e, NEW x, Same(e, x), Lit(e) PROVE Lit(x)
BY DEF Same, Lit, NoStray, Shown, HasPending

LEMMA SameStray ==
  ASSUME NEW e, NEW x, x.pend = e.pend, NoStray(e) PROVE NoStray(x)
BY DEF NoStray

LEMMA RepaintedLit ==
  ASSUME NEW e, NoStray(e), Repainted(e) PROVE Lit(e)
BY DEF Lit, Shown, Repainted

LEMMA CancelPendingStray ==
  ASSUME NEW e \in EngineType, NoStray(e), NEW D
  PROVE  NoStray(CancelPending(e, D))
<1>1. CancelPending(e, D).pend = [t \in Targets |-> IF t \in D THEN "none" ELSE e.pend[t]]
  BY DEF CancelPending, EngineType
<1> QED BY <1>1 DEF NoStray

\* A status that stands for nothing is live, and so is one that was derived.
LEMMA PlainStatusLit ==
  ASSUME NEW e \in EngineType, NoStray(e), NEW st, st \notin {"pending", "enforcing"}
  PROVE  Lit([e EXCEPT !.status = st])
<1>1. /\ [e EXCEPT !.status = st].status = st
      /\ [e EXCEPT !.status = st].pend = e.pend
  BY DEF EngineType
<1> QED BY <1>1, SameStray DEF Lit, Shown

LEMMA DerivedStatusLit ==
  ASSUME NEW e \in EngineType, NoStray(e), NEW st \in {IdleStatus(e), ArmedOrCooldown(e)}
  PROVE  Lit([e EXCEPT !.status = st])
<1>1. [e EXCEPT !.status = st].pend = e.pend
  BY DEF EngineType
<1> QED BY <1>1, StatusRepaints, SameStray, RepaintedLit

LEMMA IdleLit ==
  ASSUME NEW e \in EngineType, NoStray(e) PROVE Lit(Idle(e))
<1>1. CASE ~Inactive(e)
  BY <1>1, DerivedStatusLit DEF Idle
<1>2. CASE Inactive(e)
  <2> DEFINE c == CancelPending(e, Targets)
             x == [c EXCEPT !.coolTimer = [t \in Targets |-> FALSE], !.status = IdleStatus(e)]
  <2>1. Idle(e) = x
    BY <1>2 DEF Idle
  <2>2. x.pend = c.pend /\ x.status = IdleStatus(e)
    BY DEF CancelPending, EngineType
  <2>3. IdleStatus(e) \in {"master_disabled", "disabled"}
    BY <1>2 DEF Inactive, IdleStatus
  <2> HIDE DEF x
  <2>4. NoStray(x)
    BY <2>2, CancelPendingStray, SameStray
  <2> QED BY <2>1, <2>2, <2>3, <2>4 DEF Lit, Shown
<1> QED BY <1>1, <1>2

LEMMA ClearSuppressionSame ==
  ASSUME NEW e \in EngineType PROVE Same(e, ClearSuppression(e))
BY DEF Same, ClearSuppression, EngineType

LEMMA ScheduleSuppressionTimerSame ==
  ASSUME NEW e \in EngineType PROVE Same(e, ScheduleSuppressionTimer(e))
BY DEF Same, ScheduleSuppressionTimer, EngineType

LEMMA RearmCooldownBroadcastsSame ==
  ASSUME NEW e \in EngineType PROVE Same(e, RearmCooldownBroadcasts(e))
BY DEF Same, RearmCooldownBroadcasts, EngineType

LEMMA LoopProtectionLit ==
  ASSUME NEW e, Sound(e), NoStray(e) PROVE Lit(LoopProtection(e))
<1> DEFINE hit == [e EXCEPT !.sup = "active"]
           paused == ScheduleSuppressionTimer(hit)
           c == CancelPending(paused, Targets)
<1>1. hit \in EngineType /\ Capped(hit) /\ hit.pend = e.pend
  BY DEF Sound, Capped, EngineType
<1> HIDE DEF hit
<1>2. Sound(paused) /\ NoStray(paused)
  BY <1>1, ScheduleSuppressionTimerSound, ScheduleSuppressionTimerSame, SameStray DEF Same
<1> HIDE DEF paused
<1>3. Sound(c) /\ NoStray(c)
  BY <1>2, CancelPendingSound, CancelPendingStray DEF Sound
<1>4. LoopProtection(e) = [c EXCEPT !.status = "suppressed"]
  BY DEF LoopProtection, c, paused, hit
<1> HIDE DEF c
<1> QED BY <1>3, <1>4, PlainStatusLit DEF Sound

LEMMA EndTaskLit ==
  ASSUME NEW e, Sound(e), Lit(e), NEW t \in Targets, NEW own PROVE Lit(EndTask(e, t, own))
<1> DEFINE due == [e EXCEPT !.due[t] = TRUE]
           popped == [e EXCEPT !.pend[t] = "none"]
<1>1. Same(e, due)
  BY DEF Same, Sound, EngineType
<1>2. popped \in EngineType
  BY DEF Sound, EngineType
<1>3. \A s \in Targets : popped.pend[s] = "none" \/ popped.pend[s] = e.pend[s]
  BY DEF Sound, EngineType
<1>4. EndTask(e, t, own) \in {due, Idle(popped), e}
  BY DEF EndTask
<1> HIDE DEF due, popped
<1>5. NoStray(popped)
  BY <1>3 DEF Lit, NoStray
<1> QED BY <1>1, <1>2, <1>4, <1>5, SameLit, IdleLit

LEMMA EnterLit ==
  ASSUME NEW e, Sound(e), NoStray(e), NEW t \in Targets, NEW own
  PROVE  Lit(Enter(e, t, own))
<1>1. CASE RateLimited(e)
  BY <1>1, LoopProtectionSound, LoopProtectionLit, EndTaskLit DEF Enter
<1>2. CASE ~RateLimited(e) /\ dev'[t] = "skip"
  <2>1. Lit([e EXCEPT !.status = ArmedOrCooldown(e)])
    BY DerivedStatusLit DEF Sound
  <2>2. Sound([e EXCEPT !.status = ArmedOrCooldown(e)])
    BY StatusType, StatusSound
  <2> QED BY <1>2, <2>1, <2>2, EndTaskLit DEF Enter
<1>3. CASE ~RateLimited(e) /\ dev'[t] # "skip"
  <2> DEFINE x == [e EXCEPT !.callOn = t, !.callOwn = own, !.forced = FALSE,
                            !.unpainted = FALSE, !.wasErr = (e.status = "error"), !.status = "enforcing"]
  <2>1. x.callOn = t /\ x.status = "enforcing" /\ x.pend = e.pend
    BY DEF Sound, EngineType
  <2>2. Enter(e, t, own) = x
    BY <1>3 DEF Enter
  <2> HIDE DEF x
  <2> QED BY <2>1, <2>2, SameStray, TargetsAssumption DEF Lit, Shown
<1> QED BY <1>1, <1>2, <1>3

LEMMA AcquireLit ==
  ASSUME NEW e, Sound(e), Lit(e), NEW t \in Targets PROVE Lit(Acquire(e, t))
<1>1. Same(e, [e EXCEPT !.parked = @ \cup {t}])
  BY DEF Same, Sound, EngineType
<1>2. NoStray(e)
  BY DEF Lit
<1> QED BY <1>1, <1>2, EnterLit, SameLit DEF Acquire

LEMMA ReplaceTasksSame ==
  ASSUME NEW e \in EngineType, NEW S PROVE Same(e, ReplaceTasks(e, S))
BY DEF Same, ReplaceTasks, EngineType

LEMMA StartedSame ==
  ASSUME NEW e \in EngineType, NEW S PROVE Same(e, Started(e, S))
BY DEF Same, Started, EngineType

\* What an evaluation paints: PENDING only over a handle that was there or, with a
\* delay, over the one it is about to leave.
LEMMA PaintedLive ==
  ASSUME NEW e, NEW S, NEW st \in Painted(e, S)
  PROVE  /\ st # "enforcing"
         /\ st = "pending" => HasPending(e) \/ (Delay /\ Acting(e, S) # {})
BY StatusDerived DEF Painted

LEMMA EvaluateDelayedLit ==
  ASSUME NEW e, Sound(e), Lit(e), Delay, NEW S \in SUBSET Targets,
         NEW x \in EvaluateDelayed(e, S)
  PROVE  Lit(x)
<1> DEFINE base  == CancelPending(e, Acting(e, S) \cup Quiet(S))
           pend  == [t \in Targets |-> IF t \in Acting(e, S) THEN "armed" ELSE base.pend[t]]
           armed == [base EXCEPT !.pend = pend]
<1>1. PICK st \in Left(armed, S) : x = [armed EXCEPT !.status = st]
  BY DEF EvaluateDelayed
<1>2. /\ base \in EngineType /\ base.status = e.status /\ base.callOn = e.callOn
      /\ base.loaded = e.loaded /\ base.cool = e.cool /\ base.unpainted = e.unpainted
  <2>1. base \in EngineType
    BY CancelPendingSound DEF Sound
  <2>2. /\ base.status = e.status /\ base.callOn = e.callOn
        /\ base.loaded = e.loaded /\ base.cool = e.cool /\ base.unpainted = e.unpainted
    BY DEF CancelPending, Sound, EngineType
  <2> QED BY <2>1, <2>2
<1>3. base.pend = [t \in Targets |-> IF t \in Acting(e, S) \cup Quiet(S) THEN "none"
                                     ELSE e.pend[t]]
  BY DEF CancelPending, Sound, EngineType
<1> HIDE DEF base
<1>4. /\ armed.pend = pend /\ armed.status = e.status /\ armed.callOn = e.callOn
      /\ armed.loaded = e.loaded /\ armed.cool = e.cool
      /\ x.pend = pend /\ x.status = st /\ x.callOn = e.callOn /\ x.loaded = e.loaded
      /\ x.unpainted = e.unpainted
  <2> HIDE DEF pend
  <2> QED BY <1>1, <1>2 DEF EngineType
<1> HIDE DEF armed
<1>5. Acting(armed, S) = Acting(e, S) /\ Acting(e, S) \subseteq Targets
  BY <1>4 DEF Acting
<1>6. Acting(e, S) # {} => HasPending(x)
  BY <1>4, <1>5 DEF HasPending
<1>7. HasPending(armed) <=> HasPending(x)
  BY <1>4 DEF HasPending
<1>8. CASE Painted(armed, S) # {}
  <2>1. st \in Painted(armed, S)
    BY <1>8 DEF Left
  <2> QED BY <1>4, <1>5, <1>6, <1>7, <2>1, PaintedLive DEF Lit, NoStray, Shown
<1>9. CASE Painted(armed, S) = {}
  <2>1. st = e.status
    BY <1>4, <1>9 DEF Left
  <2>2. Acting(e, S) = {} /\ Quiet(S) = {}
    BY <1>5, <1>9 DEF Painted
  <2>3. HasPending(e) => HasPending(x)
    BY <1>3, <1>4, <2>2 DEF HasPending
  <2> QED BY <1>4, <2>1, <2>3 DEF Lit, NoStray, Shown
<1> QED BY <1>8, <1>9

LEMMA FirstEntersLit ==
  ASSUME NEW e, Sound(e), NoStray(e), ~Delay, NEW S \in SUBSET Targets,
         NEW t \in Targets, NEW x \in FirstEnters(e, t, S)
  PROVE  Lit(x)
<1> DEFINE in == Enter(e, t, TRUE)
<1>1. Sound(in) /\ Lit(in)
  BY EnterSound, EnterLit
<1>2. ASSUME NEW st \in Painted(e, S) \cup {"enforcing"}, in.callOn = t,
             x = [in EXCEPT !.parked = Acting(e, S) \ {t}, !.status = st]
      PROVE  Lit(x)
  <2> HIDE DEF in
  <2>1. x.status = st /\ x.callOn = t /\ x.pend = in.pend
    BY <1>1, <1>2 DEF Sound, EngineType
  <2>2. ~HasPending(e)
    BY DEF NoStray, HasPending
  <2>3. st # "pending"
    BY <2>2, PaintedLive
  <2> QED BY <1>1, <2>1, <2>3, SameStray, TargetsAssumption DEF Lit, Shown
<1>3. x \in IF in.callOn = t
            THEN {[in EXCEPT !.parked = Acting(e, S) \ {t}, !.status = st] :
                     st \in Painted(e, S) \cup {"enforcing"}}
            ELSE {in}
  BY DEF FirstEnters
<1> HIDE DEF in
<1> QED BY <1>1, <1>2, <1>3

LEMMA EvaluateNowLit ==
  ASSUME NEW e, Sound(e), Lit(e), ~Delay, NEW S \in SUBSET Targets,
         NEW x \in EvaluateNow(e, S)
  PROVE  Lit(x)
<1> DEFINE base == CancelPending(e, Quiet(S))
<1>1. Sound(base) /\ NoStray(base)
  BY CancelPendingSound, CancelPendingStray DEF Lit, Sound
<1>2. /\ base.status = e.status /\ base.callOn = e.callOn /\ base.loaded = e.loaded
      /\ base.unpainted = e.unpainted
  BY DEF CancelPending, Sound, EngineType
<1>3. Lit(base)
  <2> HIDE DEF base
  <2>1. ~HasPending(e)
    BY DEF Lit, NoStray, HasPending
  <2> QED BY <1>1, <1>2, <2>1 DEF Lit, Shown
<1>4. Acting(e, S) \in SUBSET Targets
  BY DEF Acting
<1>5. ASSUME NEW st \in Painted(base, S) \cup {base.status}, NEW t \in Acting(e, S),
             x \in FirstEnters([base EXCEPT !.status = st], t, S)
      PROVE  Lit(x)
  <2> DEFINE b == [base EXCEPT !.status = st]
  <2>1. st \in Status
    BY <1>1, PaintedStatus DEF Sound, EngineType
  <2> HIDE DEF base
  <2>2. Sound(b) /\ b.pend = base.pend
    BY <1>1, <2>1, StatusSound DEF Sound, EngineType
  <2> HIDE DEF b
  <2>3. NoStray(b)
    BY <1>1, <2>2, SameStray
  <2> QED BY <1>4, <1>5, <2>2, <2>3, FirstEntersLit DEF b
<1>6. ASSUME NEW st \in Left(base, S),
             x = [base EXCEPT !.parked = @ \cup Acting(e, S), !.status = st]
      PROVE  Lit(x)
  <2> HIDE DEF base
  <2>1. x.status = st /\ x.callOn = base.callOn /\ x.pend = base.pend
        /\ x.loaded = base.loaded /\ x.unpainted = base.unpainted
    BY <1>1, <1>6 DEF Sound, EngineType
  <2>2. ~HasPending(base)
    BY <1>1 DEF NoStray, HasPending
  <2>3. st = base.status \/ st \in Painted(base, S)
    BY DEF Left
  <2>4. NoStray(x)
    BY <1>1, <2>1, SameStray
  <2>5. st \in Painted(base, S) => st \notin {"pending", "enforcing"}
    BY <2>2, PaintedLive
  <2> QED BY <1>3, <2>1, <2>2, <2>3, <2>4, <2>5 DEF Lit, Shown
<1> DEFINE first(t, st) == FirstEnters([base EXCEPT !.status = st], t, S)
           queued(st) == [base EXCEPT !.parked = @ \cup Acting(e, S), !.status = st]
           before == Painted(base, S) \cup {base.status}
<1>7. x \in IF LockIdle(base) /\ Acting(e, S) # {}
            THEN UNION {UNION {first(t, st) : st \in before} : t \in Acting(e, S)}
            ELSE {queued(st) : st \in Left(base, S)}
  BY Zenon DEF EvaluateNow
<1>8. \A st \in before, t \in Acting(e, S) : x \in first(t, st) => Lit(x)
  BY <1>5
<1>9. \A st \in Left(base, S) : x = queued(st) => Lit(x)
  BY <1>6
<1> HIDE DEF first, queued, before
<1> QED BY <1>7, <1>8, <1>9

LEMMA EvaluateLiveLit ==
  ASSUME NEW e, Sound(e), Lit(e), NEW S \in SUBSET Targets, NEW x \in EvaluateLive(e, S)
  PROVE  Lit(x)
BY EvaluateDelayedLit, EvaluateNowLit DEF EvaluateLive

LEMMA SuppressedStatusLit ==
  ASSUME NEW e, Sound(e), NoStray(e)
  PROVE  /\ Lit([e EXCEPT !.status = "suppressed"])
         /\ Lit([CancelPending(e, Targets) EXCEPT !.status = "conditional"])
BY PlainStatusLit, CancelPendingStray, CancelPendingSound DEF Sound

LEMMA ClearedLit ==
  ASSUME NEW e, Sound(e), Lit(e), NEW c,
         c = IF e.sup = "elapsed" THEN ClearSuppression(e) ELSE e
  PROVE  Sound(c) /\ Lit(c)
BY ClearSuppressionSound, ClearSuppressionSame, SameLit DEF Sound

LEMMA EvaluateLit ==
  ASSUME NEW e, Sound(e), Lit(e), NEW S \in SUBSET Targets, NEW x \in Evaluate(e, S)
  PROVE  Lit(x)
<1> DEFINE all == Evaluated(e, S)
           r   == ReplaceTasks(e, all)
           c   == IF r.sup = "elapsed" THEN ClearSuppression(r) ELSE r
           outcomes ==
             IF Inactive(r) THEN {Idle(r)}
             ELSE IF ~r.started THEN {r}
             ELSE IF r.sup = "active" THEN {[r EXCEPT !.status = "suppressed"]}
             ELSE IF ~flag' THEN {[CancelPending(c, Targets) EXCEPT !.status = "conditional"]}
             ELSE EvaluateLive(c, all)
<1>1. PICK o \in outcomes : x = Started(o, all)
  BY DEF Evaluate
<1>2. Sound(r) /\ Lit(r)
  BY ReplaceTasksSound, ReplaceTasksSame, SameLit DEF Sound
<1> HIDE DEF r
<1>3. Sound(c) /\ Lit(c)
  BY <1>2, ClearedLit
<1>4. all \in SUBSET Targets
  BY EvaluatedTargets
<1> HIDE DEF c, all
<1>5. "suppressed" \in Status /\ "conditional" \in Status
  BY DEF Status
<1>6. Sound(o)
  BY <1>2, <1>3, <1>4, <1>5, IdleSound, StatusSound, CancelPendingSound, EvaluateLiveSound
<1>7. NoStray(r) /\ NoStray(c)
  BY <1>2, <1>3 DEF Lit
<1>8. Lit(o)
  <2>1. Lit(Idle(r))
    BY <1>2, <1>7, IdleLit DEF Sound
  <2>2. Lit([r EXCEPT !.status = "suppressed"])
    BY <1>2, <1>7, SuppressedStatusLit
  <2>3. Lit([CancelPending(c, Targets) EXCEPT !.status = "conditional"])
    BY <1>3, <1>7, SuppressedStatusLit
  <2>4. \A y \in EvaluateLive(c, all) : Lit(y)
    BY <1>3, <1>4, EvaluateLiveLit
  <2> QED BY <1>2, <2>1, <2>2, <2>3, <2>4
<1>9. Same(o, x)
  BY <1>1, <1>6, StartedSame DEF Sound
<1> QED BY <1>8, <1>9, SameLit

LEMMA EvaluateFlagLit ==
  ASSUME NEW e, Sound(e), Lit(e), NEW x \in EvaluateFlag(e) PROVE Lit(x)
<1> DEFINE c == IF e.sup = "elapsed" THEN ClearSuppression(e) ELSE e
           met == [c EXCEPT !.status = ArmedOrCooldown(c)]
           violating == {t \in Targets : dev'[t] = "bad"}
<1>1. Sound(c) /\ Lit(c) /\ NoStray(c) /\ NoStray(e)
  BY ClearedLit DEF Lit
<1> HIDE DEF c
<1>2. Sound(met) /\ Lit(met)
  BY <1>1, StatusType, StatusSound, DerivedStatusLit DEF Sound
<1> HIDE DEF met
<1>3. x \in IF Inactive(e) THEN {Idle(e)}
            ELSE IF e.sup = "active" THEN {[e EXCEPT !.status = "suppressed"]}
            ELSE IF ~flag' THEN {[CancelPending(c, Targets) EXCEPT !.status = "conditional"]}
            ELSE IF violating = {} THEN {met} ELSE Evaluate(met, violating)
  BY DEF EvaluateFlag, c, met
<1>4. Lit(Idle(e)) /\ Lit([e EXCEPT !.status = "suppressed"])
  BY <1>1, IdleLit, SuppressedStatusLit DEF Sound
<1>5. Lit([CancelPending(c, Targets) EXCEPT !.status = "conditional"])
  BY <1>1, SuppressedStatusLit
<1>6. \A y \in Evaluate(met, violating) : Lit(y)
  BY <1>2, EvaluateLit
<1> QED BY <1>2, <1>3, <1>4, <1>5, <1>6

LEMMA EvaluateSourceLit ==
  ASSUME NEW e, Sound(e), Lit(e), NEW x \in EvaluateSource(e) PROVE Lit(x)
<1> DEFINE c == IF e.sup = "elapsed" THEN ClearSuppression(e) ELSE e
           met == [c EXCEPT !.status = ArmedOrCooldown(c)]
<1>1. Sound(c) /\ Lit(c) /\ NoStray(c) /\ NoStray(e)
  BY ClearedLit DEF Lit
<1> HIDE DEF c
<1>2. Sound(met) /\ Lit(met)
  BY <1>1, StatusType, StatusSound, DerivedStatusLit DEF Sound
<1> HIDE DEF met
<1>3. x \in IF Inactive(e) THEN {Idle(e)}
            ELSE IF ~e.started THEN {e}
            ELSE IF e.sup = "active" THEN {[e EXCEPT !.status = "suppressed"]}
            ELSE IF ~flag' THEN {[CancelPending(c, Targets) EXCEPT !.status = "conditional"]}
            ELSE Evaluate(met, Targets)
  BY DEF EvaluateSource, c, met
<1>4. Lit(Idle(e)) /\ Lit([e EXCEPT !.status = "suppressed"])
  BY <1>1, IdleLit, SuppressedStatusLit DEF Sound
<1>5. Lit([CancelPending(c, Targets) EXCEPT !.status = "conditional"])
  BY <1>1, SuppressedStatusLit
<1>6. \A y \in Evaluate(met, Targets) : Lit(y)
  BY <1>2, EvaluateLit
<1> QED BY <1>3, <1>4, <1>5, <1>6

LEMMA SweepLit ==
  ASSUME NEW e, Sound(e), Lit(e), NEW x \in Sweep(e) PROVE Lit(x)
BY EvaluateLit DEF Sweep

\* What resumes a rule repaints it and sweeps its targets.
LEMMA ResumeLit ==
  ASSUME NEW e, Sound(e), NoStray(e), NEW x \in Sweep(Idle(e)) PROVE Lit(x)
BY IdleSound, IdleLit, SweepLit DEF Sound

-----------------------------------------------------------------------------
(* One lemma per group of actions.                                         *)

LEMMA WorldMovesLit ==
  ASSUME IInv, Lit(eng), FlagMoves \/ SourceMoves \/ \E t \in Targets : DeviceMoves(t)
  PROVE  Lit(eng')
<1> Sound(eng)
  BY DEF IInv
<1>1. ASSUME NEW t \in Targets, DeviceMoves(t) PROVE Lit(eng')
  BY <1>1, EvaluateLit DEF DeviceMoves
<1>2. ASSUME FlagMoves PROVE Lit(eng')
  BY <1>2, EvaluateFlagLit DEF FlagMoves
<1>3. ASSUME SourceMoves PROVE Lit(eng')
  BY <1>3, EvaluateSourceLit DEF SourceMoves
<1> QED BY <1>1, <1>2, <1>3

LEMMA OperationsLit ==
  ASSUME IInv, Lit(eng), Operations PROVE Lit(eng')
<1> Sound(eng) /\ eng \in EngineType /\ NoStray(eng)
  BY DEF IInv, Sound, Lit
<1>1. ASSUME NEW on \in BOOLEAN, MasterSet(on) PROVE Lit(eng')
  <2> DEFINE idle == Idle(eng)
             r == IF on /\ idle.status = "cooldown" THEN RearmCooldownBroadcasts(idle) ELSE idle
  <2>1. Sound(idle) /\ Lit(idle) /\ idle \in EngineType
    BY IdleSound, IdleLit DEF Sound
  <2>2. eng' \in IF eng.loaded THEN Sweep(r) ELSE {eng}
    BY <1>1 DEF MasterSet
  <2> HIDE DEF idle
  <2>3. Sound(r) /\ Lit(r)
    BY <2>1, RearmCooldownBroadcastsSound, RearmCooldownBroadcastsSame, SameLit
  <2> HIDE DEF r
  <2> QED BY <2>2, <2>3, SweepLit
<1>2. ASSUME NEW on \in BOOLEAN, SetEnabled(on) PROVE Lit(eng')
  <2> DEFINE e    == [eng EXCEPT !.enabled = on]
             kept == IF e.sup = "elapsed" THEN ClearSuppression(e) ELSE e
             sched == ScheduleSuppressionTimer(kept)
             idle == Idle(sched)
             r    == IF idle.status = "cooldown" THEN RearmCooldownBroadcasts(idle) ELSE idle
             off  == [e EXCEPT !.supTimer = FALSE]
  <2>1. eng' \in IF on THEN Sweep(r) ELSE {Idle(off)}
    BY <1>2, Zenon DEF SetEnabled
  <2>2. /\ e \in EngineType /\ Capped(e) /\ e.pend = eng.pend
        /\ off \in EngineType /\ off.pend = eng.pend
    BY DEF Sound, Capped, EngineType
  <2> HIDE DEF e, off
  <2>3. kept \in EngineType /\ Capped(kept) /\ kept.pend = eng.pend
    BY <2>2, ClearSuppressionSound, ClearSuppressionSame DEF Sound, Same
  <2> HIDE DEF kept
  <2>4. Sound(sched) /\ sched.pend = eng.pend
    BY <2>3, ScheduleSuppressionTimerSound, ScheduleSuppressionTimerSame DEF Same
  <2> HIDE DEF sched
  <2>5. Sound(idle) /\ Lit(idle) /\ idle \in EngineType
    BY <2>4, SameStray, IdleSound, IdleLit DEF Sound
  <2> HIDE DEF idle
  <2>6. Sound(r) /\ Lit(r)
    BY <2>5, RearmCooldownBroadcastsSound, RearmCooldownBroadcastsSame, SameLit
  <2> HIDE DEF r
  <2>7. Lit(Idle(off))
    BY <2>2, SameStray, IdleLit
  <2> QED BY <2>1, <2>6, <2>7, SweepLit
<1>3. ASSUME Suppress PROVE Lit(eng')
  <2> DEFINE hit == [eng EXCEPT !.sup = "active"]
             sched == ScheduleSuppressionTimer(hit)
             e == CancelPending(sched, Targets)
  <2>1. hit \in EngineType /\ hit.pend = eng.pend /\ Capped(hit)
    BY DEF Sound, Capped, EngineType
  <2> HIDE DEF hit
  <2>2. Sound(sched) /\ sched.pend = eng.pend
    BY <2>1, ScheduleSuppressionTimerSound, ScheduleSuppressionTimerSame DEF Same
  <2> HIDE DEF sched
  <2>3. e \in EngineType /\ NoStray(e)
    BY <2>2, SameStray, CancelPendingSound, CancelPendingStray DEF Sound
  <2>4. eng' = IF e.status = "error" THEN e ELSE Idle(e)
    BY <1>3 DEF Suppress, e, sched, hit
  <2> HIDE DEF e
  <2>5. e.status = "error" => Lit(e)
    BY <2>3 DEF Lit, Shown
  <2> QED BY <2>3, <2>4, <2>5, IdleLit
<1>4. ASSUME Unsuppress PROVE Lit(eng')
  <2>1. Sound(ClearSuppression(eng)) /\ NoStray(ClearSuppression(eng))
    BY ClearSuppressionSound, ClearSuppressionSame, SameStray DEF Sound, Same
  <2> QED BY <1>4, <2>1, ResumeLit DEF Unsuppress
<1>5. ASSUME ResetCooldowns PROVE Lit(eng')
  <2> DEFINE s == ScheduleSuppressionTimer(eng)
             e == [s EXCEPT !.cool = [t \in Targets |-> FALSE],
                            !.coolTimer = [t \in Targets |-> FALSE],
                            !.succs = 0]
  <2>1. s \in EngineType /\ s.pend = eng.pend
    BY ScheduleSuppressionTimerSound, ScheduleSuppressionTimerSame DEF Sound, Same
  <2>2. eng' = Idle(e)
    BY <1>5 DEF ResetCooldowns
  <2> HIDE DEF s
  <2>3. e \in EngineType /\ e.pend = eng.pend
    BY <2>1 DEF EngineType
  <2> HIDE DEF e
  <2> QED BY <2>2, <2>3, SameStray, IdleLit
<1>6. ASSUME ClearHistory PROVE Lit(eng')
  <2> DEFINE s == ScheduleSuppressionTimer(eng)
  <2>1. s \in EngineType /\ Same(eng, s)
    BY ScheduleSuppressionTimerSound, ScheduleSuppressionTimerSame DEF Sound
  <2>2. eng' = [s EXCEPT !.cool = [t \in Targets |-> FALSE],
                         !.coolTimer = [t \in Targets |-> FALSE],
                         !.window = 0, !.errs = 0, !.succs = 0, !.clearing = TRUE]
    BY <1>6 DEF ClearHistory
  <2> HIDE DEF s
  <2>3. Same(s, eng')
    BY <2>1, <2>2 DEF Same, EngineType
  <2> QED BY <2>1, <2>3, SameLit
<1>7. ASSUME ClearHistoryRepaints PROVE Lit(eng')
  <2> DEFINE e == [eng EXCEPT !.clearing = FALSE,
                              !.status = IF @ = "error" THEN "starting" ELSE @]
  <2>1. e \in EngineType /\ e.pend = eng.pend
    <3>1. e.pend = eng.pend
      BY DEF EngineType
    <3> QED BY <3>1, HistoryClearedSound DEF Sound
  <2>2. eng' = Idle(e)
    BY <1>7 DEF ClearHistoryRepaints
  <2> HIDE DEF e
  <2> QED BY <2>1, <2>2, SameStray, IdleLit
<1>8. ASSUME Unload PROVE Lit(eng')
  <2> DEFINE r == ReplaceTasks(eng, Targets)
             e == CancelPending(r, Targets)
  <2>1. r \in EngineType /\ NoStray(r)
    BY ReplaceTasksSound, ReplaceTasksSame, SameStray DEF Sound, Same
  <2> HIDE DEF r
  <2>2. NoStray(e)
    BY <2>1, CancelPendingStray
  <2>3. Sound(e)
    BY ReplaceTasksSound, CancelPendingSound DEF r
  <2>4. eng' = [e EXCEPT !.loaded = FALSE, !.supTimer = FALSE,
                         !.coolTimer = [t \in Targets |-> FALSE]]
    BY <1>8 DEF Unload, r
  <2> HIDE DEF e
  <2>5. eng'.pend = e.pend /\ ~eng'.loaded
    BY <2>3, <2>4 DEF Sound, EngineType
  <2> QED BY <2>2, <2>5, SameStray DEF Lit
<1>9. ASSUME Press PROVE Lit(eng')
  <2>1. Same(eng, eng')
    BY <1>9, PressLeaves DEF PassOnly, Kept, Same
  <2> QED BY <2>1, SameLit
<1> QED BY <1>1, <1>2, <1>3, <1>4, <1>5, <1>6, <1>7, <1>8, <1>9 DEF Operations

LEMMA ClockLit ==
  ASSUME IInv, Lit(eng), Clock PROVE Lit(eng')
<1> Sound(eng) /\ eng \in EngineType /\ NoStray(eng)
  BY DEF IInv, Sound, Lit
<1>1. ASSUME GraceDone PROVE Lit(eng')
  <2> DEFINE e == [eng EXCEPT !.started = TRUE]
  <2>1. Sound(e) /\ e.pend = eng.pend
    BY DEF Sound, Capped, Watched, EngineType
  <2>2. eng' \in Sweep(Idle(e))
    BY <1>1 DEF GraceDone
  <2> HIDE DEF e
  <2> QED BY <2>1, <2>2, SameStray, ResumeLit
<1>2. ASSUME Midnight PROVE Lit(eng')
  BY <1>2, IdleLit DEF Midnight
<1>3. ASSUME SuppressionElapses PROVE Lit(eng')
  <2>1. Same(eng, eng')
    BY <1>3 DEF SuppressionElapses, Same, EngineType
  <2> QED BY <2>1, SameLit
<1>4. ASSUME SuppressionTimerFires PROVE Lit(eng')
  <2>1. Sound(ClearSuppression(eng)) /\ NoStray(ClearSuppression(eng))
    BY ClearSuppressionSound, ClearSuppressionSame, SameStray DEF Sound, Same
  <2> QED BY <1>4, <2>1, ResumeLit DEF SuppressionTimerFires
<1>5. ASSUME WindowAges PROVE Lit(eng')
  <2>1. Same(eng, eng')
    BY <1>5 DEF WindowAges, Same, EngineType
  <2> QED BY <2>1, SameLit
<1>6. ASSUME NEW t \in Targets, CooldownElapses(t) PROVE Lit(eng')
  <2>1. Same(eng, eng')
    BY <1>6 DEF CooldownElapses, Same, EngineType
  <2> QED BY <2>1, SameLit
<1>7. ASSUME NEW t \in Targets, CooldownTimerFires(t) PROVE Lit(eng')
  <2> DEFINE e == [eng EXCEPT !.coolTimer[t] = FALSE]
  <2>1. e \in EngineType /\ Same(eng, e)
    BY DEF Same, EngineType
  <2>2. eng' = IF e.loaded THEN Idle(e) ELSE e
    BY <1>7 DEF CooldownTimerFires
  <2> HIDE DEF e
  <2>3. NoStray(e) /\ Lit(e)
    BY <2>1, SameLit DEF Lit
  <2> QED BY <2>1, <2>2, <2>3, IdleLit
<1> QED BY <1>1, <1>2, <1>3, <1>4, <1>5, <1>6, <1>7 DEF Clock

LEMMA TasksLit ==
  ASSUME IInv, Lit(eng), Tasks PROVE Lit(eng')
<1> Sound(eng) /\ eng \in EngineType /\ NoStray(eng)
  BY DEF IInv, Sound, Lit
<1>1. ASSUME NEW t \in Targets, DelayTimerFires(t) PROVE Lit(eng')
  <2> DEFINE dropped == [eng EXCEPT !.pend[t] = "none"]
             firing  == [eng EXCEPT !.pend[t] = "firing"]
             blocked == [dropped EXCEPT !.status = ArmedOrCooldown(dropped)]
  <2>1. /\ eng' = IF Inactive(eng) THEN Idle(eng)
                  ELSE IF eng.sup = "active" THEN Idle(dropped)
                  ELSE IF dev[t] # "bad" \/ ~flag THEN blocked
                  ELSE Acquire(firing, t)
        /\ eng.pend[t] = "armed"
    BY <1>1, Zenon DEF DelayTimerFires
  <2>2. Delay
    BY <2>1 DEF NoStray
  <2>3. Sound(dropped) /\ Sound(firing)
    BY DEF Sound, Capped, Watched, EngineType
  <2>4. /\ firing.pend[t] = "firing" /\ firing.callOn = eng.callOn
        /\ firing.status = eng.status /\ firing.loaded = eng.loaded
        /\ firing.unpainted = eng.unpainted
    BY DEF EngineType
  <2> HIDE DEF dropped, firing
  <2>5. HasPending(firing)
    BY <2>4 DEF HasPending
  <2>6. NoStray(dropped) /\ NoStray(firing)
    BY <2>2 DEF NoStray
  <2>7. Lit(firing)
    BY <2>4, <2>5, <2>6 DEF Lit, Shown
  <2>8. Lit(Idle(eng)) /\ Lit(Idle(dropped)) /\ Lit(blocked)
    BY <2>3, <2>6, IdleLit, DerivedStatusLit DEF Sound
  <2>9. Lit(Acquire(firing, t))
    BY <2>3, <2>7, AcquireLit
  <2> HIDE DEF blocked
  <2> QED BY <2>1, <2>8, <2>9
<1>2. ASSUME NEW t \in Targets, OwnerGranted(t) PROVE Lit(eng')
  <2> DEFINE e == [eng EXCEPT !.parked = @ \ {t}]
  <2>1. Sound(e) /\ e.pend = eng.pend
    BY DEF Sound, Capped, Watched, EngineType
  <2>2. eng' = Enter(e, t, TRUE)
    BY <1>2 DEF OwnerGranted
  <2> HIDE DEF e
  <2> QED BY <2>1, <2>2, SameStray, EnterLit
<1>3. ASSUME NEW t \in Targets, LostGranted(t) PROVE Lit(eng')
  <2> DEFINE e == [eng EXCEPT !.lost[t] = @ - 1]
  <2>1. Sound(e) /\ e.pend = eng.pend
    BY <1>3 DEF LostGranted, Sound, Capped, Watched, EngineType
  <2>2. eng' = Enter(e, t, FALSE)
    BY <1>3 DEF LostGranted
  <2> HIDE DEF e
  <2> QED BY <2>1, <2>2, SameStray, EnterLit
<1>4. ASSUME NEW t \in Targets, DoneCallback(t) PROVE Lit(eng')
  <2>1. Same(eng, eng')
    BY <1>4 DEF DoneCallback, Same, EngineType
  <2> QED BY <2>1, SameLit
<1>5. ASSUME NEW t \in Targets, TurnGranted(t) PROVE Lit(eng')
  <2>1. CASE Called(t)
    BY <2>1, SameStray, TargetsAssumption DEF Called, Lit, Shown
  <2>2. ASSUME NEW s, NEW r, Skipped(s, r) PROVE Lit(eng')
    <3>1. Sound(s) /\ NoStray(s) /\ Repainted(s)
      BY <2>2, SameStray DEF Skipped, Kept
    <3>2. Lit(s) /\ Lit(Idle(s))
      BY <3>1, RepaintedLit, IdleLit DEF Sound
    <3>3. Same(r, eng')
      BY <2>2 DEF Skipped, PassOnly, Kept, Same
    <3> QED BY <2>2, <3>2, <3>3, SameLit DEF Skipped
  <2> QED BY <1>5, <2>1, <2>2, TurnLeaves
<1>6. ASSUME CallEnds PROVE Lit(eng')
  <2>1. PICK t \in Targets : \E p : Ended(t, p)
    BY <1>6, CallEndsSound
  <2>2. PICK p : Ended(t, p)
    BY <2>1
  <2>3. Sound(p) /\ NoStray(p)
    BY <2>2, SameStray DEF Ended, SameWork
  <2>4. Lit(Idle(p))
    BY <2>3, IdleLit DEF Sound
  <2>5. CASE Repainted(p)
    <3>1. Lit(p)
      BY <2>3, <2>5, RepaintedLit
    <3>2. CASE ~eng.forced
      BY <2>2, <2>3, <3>1, <3>2, EndTaskLit DEF Ended
    <3>3. CASE eng.forced
      <4>1. PICK r \in {p, Idle(p)} : PassOnly(r, eng')
        BY <2>2, <3>3 DEF Ended
      <4>2. Same(r, eng')
        BY <4>1 DEF PassOnly, Kept, Same
      <4> QED BY <2>4, <3>1, <4>2, SameLit
    <3> QED BY <3>2, <3>3
  <2>6. CASE ~Repainted(p)
    <3>1. p.status = eng.status /\ p.unpainted = (eng.forced \/ ~(Delay /\ eng.callOwn))
      BY <2>2, <2>6 DEF Ended
    <3>2. p.pend = eng.pend /\ p.loaded = eng.loaded
      BY <2>2 DEF Ended, SameWork
    <3>3. p.unpainted => Lit(p)
      BY <2>3, <3>1, <3>2 DEF Lit, Shown, HasPending
    <3>4. CASE eng.forced
      <4>1. PICK r \in {p, Idle(p)} : PassOnly(r, eng')
        BY <2>2, <3>4 DEF Ended
      <4>2. Same(r, eng')
        BY <4>1 DEF PassOnly, Kept, Same
      <4> QED BY <2>4, <3>1, <3>3, <3>4, <4>2, SameLit
    <3>5. CASE ~eng.forced /\ ~(Delay /\ eng.callOwn)
      BY <2>2, <2>3, <3>1, <3>3, <3>5, EndTaskLit DEF Ended
    <3>6. CASE ~eng.forced /\ Delay /\ eng.callOwn
      <4> DEFINE popped == [p EXCEPT !.pend[t] = "none"]
      <4>1. eng' = Idle(popped)
        BY <2>2, <3>6 DEF Ended, EndTask
      <4>2. popped \in EngineType
        BY <2>3 DEF Sound, EngineType
      <4>3. NoStray(popped)
        BY <3>6 DEF NoStray
      <4> HIDE DEF popped
      <4> QED BY <4>1, <4>2, <4>3, IdleLit
    <3> QED BY <3>4, <3>5, <3>6
  <2> QED BY <2>5, <2>6
<1> QED BY <1>1, <1>2, <1>3, <1>4, <1>5, <1>6 DEF Tasks

LEMMA LitInvariance == Spec => []Lit(eng)
<1>1. Init => Lit(eng)
  <2> SUFFICES ASSUME Init PROVE Lit(eng)
    OBVIOUS
  <2>1. \A t \in Targets : eng.pend[t] = "none"
    BY InitSound
  <2>2. eng.status \in {"master_disabled", "disabled", "starting"}
    BY DEF Init
  <2> QED BY <2>1, <2>2 DEF Lit, NoStray, Shown
<1>2. IInv /\ Lit(eng) /\ [Next]_vars => Lit(eng)'
  <2> SUFFICES ASSUME IInv, Lit(eng), [Next]_vars PROVE Lit(eng')
    BY DEF Lit, NoStray, Shown, HasPending
  <2>1. CASE Next
    BY <2>1, WorldMovesLit, OperationsLit, ClockLit, TasksLit DEF Next
  <2>2. CASE UNCHANGED vars
    BY <2>2 DEF vars
  <2> QED BY <2>1, <2>2
<1> QED BY <1>1, <1>2, Invariance, PTL DEF Spec

\* What a rule shows is never a leftover: in every reachable state of every rule,
\* PENDING has a handle behind it, and ENFORCING a service call that is out or that was
\* aborted where nothing repaints.
THEOREM StatusIsNeverStale == Spec => []TransientStatusIsLive
<1>1. Lit(eng) => TransientStatusIsLive
  BY DEF Lit, Shown, TransientStatusIsLive
<1> QED BY <1>1, LitInvariance, PTL

-----------------------------------------------------------------------------
(* What a method of the engine never touches.                              *)

\* x is past the same switches and cooldowns as e and has counted the same successes,
\* a call that was out still is, and e is unsuppressed in x only if its suppression was
\* past already.
Steady(e, x) ==
    /\ x.loaded = e.loaded /\ x.started = e.started /\ x.enabled = e.enabled
    /\ x.cool = e.cool /\ x.window = e.window
    /\ e.callOn # NoTarget => x.callOn = e.callOn /\ x.forced = e.forced
    /\ \/ x.sup \in {e.sup, "active"}
       \/ e.sup = "elapsed" /\ x.sup = "none"

LEMMA SteadyChain ==
  ASSUME NEW e, NEW x, NEW y, Steady(e, x), Steady(x, y) PROVE Steady(e, y)
BY DEF Steady

LEMMA SimpleSteady ==
  ASSUME NEW e \in EngineType, NEW D, NEW st, NEW p
  PROVE  /\ Steady(e, e)
         /\ Steady(e, [e EXCEPT !.status = st])
         /\ Steady(e, CancelPending(e, D))
         /\ Steady(e, ReplaceTasks(e, D))
         /\ Steady(e, Started(e, D))
         /\ Steady(e, [e EXCEPT !.pend = p])
         /\ Steady(e, [e EXCEPT !.parked = p])
<1>1. Steady(e, e) /\ Steady(e, [e EXCEPT !.status = st])
  BY DEF Steady, EngineType
<1>2. Steady(e, CancelPending(e, D))
  BY DEF Steady, EngineType, CancelPending
<1>3. Steady(e, ReplaceTasks(e, D))
  BY DEF Steady, EngineType, ReplaceTasks
<1>4. Steady(e, Started(e, D))
  BY DEF Steady, EngineType, Started
<1>5. Steady(e, [e EXCEPT !.pend = p]) /\ Steady(e, [e EXCEPT !.parked = p])
  BY DEF Steady, EngineType
<1> QED BY <1>1, <1>2, <1>3, <1>4, <1>5

LEMMA IdleSteady ==
  ASSUME NEW e \in EngineType PROVE Steady(e, Idle(e))
<1> DEFINE c == CancelPending(e, Targets)
           x == [c EXCEPT !.coolTimer = [t \in Targets |-> FALSE], !.status = IdleStatus(e)]
<1>1. Idle(e) \in {x, [e EXCEPT !.status = IdleStatus(e)]}
  BY DEF Idle
<1>2. Steady(e, x)
  BY DEF Steady, EngineType, CancelPending
<1> HIDE DEF x
<1> QED BY <1>1, <1>2, SimpleSteady

LEMMA ClearedSteady ==
  ASSUME NEW e \in EngineType
  PROVE  Steady(e, IF e.sup = "elapsed" THEN ClearSuppression(e) ELSE e)
BY DEF Steady, EngineType, ClearSuppression

LEMMA LoopProtectionSteady ==
  ASSUME NEW e \in EngineType
  PROVE  Steady(e, LoopProtection(e)) /\ LoopProtection(e).sup = "active"
BY DEF Steady, EngineType, LoopProtection, ScheduleSuppressionTimer, CancelPending

LEMMA EndTaskSteady ==
  ASSUME NEW e \in EngineType, NEW t \in Targets, NEW own
  PROVE  Steady(e, EndTask(e, t, own))
<1> DEFINE due == [e EXCEPT !.due[t] = TRUE]
           popped == [e EXCEPT !.pend[t] = "none"]
<1>1. Steady(e, due) /\ Steady(e, popped) /\ Steady(e, e) /\ popped \in EngineType
  BY DEF Steady, EngineType
<1>2. EndTask(e, t, own) \in {due, Idle(popped), e}
  BY DEF EndTask
<1> HIDE DEF due, popped
<1> QED BY <1>1, <1>2, IdleSteady, SteadyChain

LEMMA EnterSteady ==
  ASSUME NEW e, Sound(e), NEW t \in Targets, NEW own
  PROVE  /\ e.callOn = NoTarget => Steady(e, Enter(e, t, own))
         /\ RateLimited(e) => Enter(e, t, own).sup = "active"
<1> e \in EngineType
  BY DEF Sound
<1>1. CASE RateLimited(e)
  <2> DEFINE p == LoopProtection(e)
  <2>1. p \in EngineType /\ Steady(e, p) /\ p.sup = "active"
    BY LoopProtectionSound, LoopProtectionSteady DEF Sound
  <2>2. Enter(e, t, own) = EndTask(p, t, FALSE)
    BY <1>1 DEF Enter
  <2> HIDE DEF p
  <2>3. Steady(p, EndTask(p, t, FALSE))
    BY <2>1, EndTaskSteady
  <2>4. EndTask(p, t, FALSE).sup = "active"
    BY <2>1, <2>3 DEF Steady
  <2> QED BY <2>1, <2>2, <2>3, <2>4, SteadyChain
<1>2. CASE ~RateLimited(e) /\ dev'[t] = "skip"
  <2> DEFINE p == [e EXCEPT !.status = ArmedOrCooldown(e)]
  <2>1. p \in EngineType /\ Steady(e, p)
    BY StatusType, StatusSound, SimpleSteady DEF Sound
  <2>2. Enter(e, t, own) = EndTask(p, t, own)
    BY <1>2 DEF Enter
  <2> HIDE DEF p
  <2> QED BY <1>2, <2>1, <2>2, EndTaskSteady, SteadyChain
<1>3. CASE ~RateLimited(e) /\ dev'[t] # "skip"
  <2> DEFINE x == [e EXCEPT !.callOn = t, !.callOwn = own, !.forced = FALSE,
                            !.unpainted = FALSE, !.wasErr = (e.status = "error"), !.status = "enforcing"]
  <2>1. e.callOn = NoTarget => Steady(e, x)
    BY DEF Steady, EngineType
  <2>2. Enter(e, t, own) = x
    BY <1>3 DEF Enter
  <2> HIDE DEF x
  <2> QED BY <1>3, <2>1, <2>2
<1> QED BY <1>1, <1>2, <1>3

LEMMA AcquireSteady ==
  ASSUME NEW e, Sound(e), NEW t \in Targets PROVE Steady(e, Acquire(e, t))
BY EnterSteady, SimpleSteady DEF Acquire, LockIdle, Sound

LEMMA EvaluateDelayedSteady ==
  ASSUME NEW e, Sound(e), NEW S \in SUBSET Targets, NEW x \in EvaluateDelayed(e, S)
  PROVE  Steady(e, x)
<1> DEFINE base  == CancelPending(e, Acting(e, S) \cup Quiet(S))
           pend  == [t \in Targets |-> IF t \in Acting(e, S) THEN "armed" ELSE base.pend[t]]
           armed == [base EXCEPT !.pend = pend]
<1>1. PICK st \in Left(armed, S) : x = [armed EXCEPT !.status = st]
  BY DEF EvaluateDelayed
<1>2. Sound(base) /\ Steady(e, base) /\ base \in EngineType
  BY CancelPendingSound, SimpleSteady DEF Sound
<1>3. pend \in [Targets -> {"none", "armed", "firing"}]
  <2> HIDE DEF base
  <2> QED BY <1>2 DEF EngineType
<1> HIDE DEF base, pend
<1>4. armed \in EngineType /\ Steady(base, armed)
  BY <1>2, <1>3, SimpleSteady DEF EngineType
<1> HIDE DEF armed
<1>5. Steady(armed, x)
  BY <1>1, <1>4, SimpleSteady
<1> QED BY <1>2, <1>4, <1>5, SteadyChain

LEMMA FirstEntersSteady ==
  ASSUME NEW e, Sound(e), e.callOn = NoTarget, NEW S \in SUBSET Targets, NEW t \in Targets,
         NEW x \in FirstEnters(e, t, S)
  PROVE  Steady(e, x)
<1> DEFINE in == Enter(e, t, TRUE)
<1>1. in \in EngineType /\ Steady(e, in)
  BY EnterSound, EnterSteady DEF Sound
<1>2. ASSUME NEW st, NEW p, x = [in EXCEPT !.parked = p, !.status = st]
      PROVE  Steady(e, x)
  <2> HIDE DEF in
  <2>1. Steady(in, x)
    BY <1>1, <1>2 DEF Steady, EngineType
  <2> QED BY <1>1, <2>1, SteadyChain
<1> QED BY <1>1, <1>2 DEF FirstEnters

LEMMA EvaluateNowSteady ==
  ASSUME NEW e, Sound(e), NEW S \in SUBSET Targets, NEW x \in EvaluateNow(e, S)
  PROVE  Steady(e, x)
<1> DEFINE base == CancelPending(e, Quiet(S))
           first(t, st) == FirstEnters([base EXCEPT !.status = st], t, S)
           queued(st) == [base EXCEPT !.parked = @ \cup Acting(e, S), !.status = st]
           before == Painted(base, S) \cup {base.status}
<1>1. Sound(base) /\ Steady(e, base) /\ base \in EngineType
  BY CancelPendingSound, SimpleSteady DEF Sound
<1>2. Acting(e, S) \in SUBSET Targets
  BY DEF Acting
<1>3. ASSUME base.callOn = NoTarget,
             NEW st \in before, NEW t \in Acting(e, S), x \in first(t, st)
      PROVE  Steady(e, x)
  <2>1. st \in Status
    BY <1>1, PaintedStatus DEF EngineType
  <2> HIDE DEF base
  <2>2. /\ Sound([base EXCEPT !.status = st]) /\ Steady(base, [base EXCEPT !.status = st])
        /\ [base EXCEPT !.status = st].callOn = NoTarget
    BY <1>1, <1>3, <2>1, StatusSound, SimpleSteady DEF EngineType
  <2> QED BY <1>1, <1>2, <1>3, <2>2, FirstEntersSteady, SteadyChain
<1>4. ASSUME NEW st, x = queued(st) PROVE Steady(e, x)
  <2> HIDE DEF base
  <2>1. Steady(base, x)
    BY <1>1, <1>4 DEF Steady, EngineType
  <2> QED BY <1>1, <2>1, SteadyChain
<1>4a. LockIdle(base) => base.callOn = NoTarget
  BY DEF LockIdle
<1>5. x \in IF LockIdle(base) /\ Acting(e, S) # {}
            THEN UNION {UNION {first(t, st) : st \in before} : t \in Acting(e, S)}
            ELSE {queued(st) : st \in Left(base, S)}
  BY Zenon DEF EvaluateNow
<1> HIDE DEF first, queued, before
<1> QED BY <1>3, <1>4, <1>4a, <1>5

LEMMA EvaluateLiveSteady ==
  ASSUME NEW e, Sound(e), NEW S \in SUBSET Targets, NEW x \in EvaluateLive(e, S)
  PROVE  Steady(e, x)
BY EvaluateDelayedSteady, EvaluateNowSteady DEF EvaluateLive

LEMMA EvaluateSteady ==
  ASSUME NEW e, Sound(e), NEW S \in SUBSET Targets, NEW x \in Evaluate(e, S)
  PROVE  Steady(e, x)
<1> DEFINE all == Evaluated(e, S)
           r   == ReplaceTasks(e, all)
           c   == IF r.sup = "elapsed" THEN ClearSuppression(r) ELSE r
           outcomes ==
             IF Inactive(r) THEN {Idle(r)}
             ELSE IF ~r.started THEN {r}
             ELSE IF r.sup = "active" THEN {[r EXCEPT !.status = "suppressed"]}
             ELSE IF ~flag' THEN {[CancelPending(c, Targets) EXCEPT !.status = "conditional"]}
             ELSE EvaluateLive(c, all)
<1>1. PICK o \in outcomes : x = Started(o, all)
  BY DEF Evaluate
<1>2. Sound(r) /\ r \in EngineType /\ Steady(e, r)
  BY ReplaceTasksSound, SimpleSteady DEF Sound
<1> HIDE DEF r
<1>3. Sound(c) /\ c \in EngineType /\ Steady(r, c)
  BY <1>2, ClearSuppressionSound, ClearedSteady DEF Sound
<1>4. all \in SUBSET Targets
  BY EvaluatedTargets
<1> HIDE DEF c, all
<1>5. "suppressed" \in Status /\ "conditional" \in Status
  BY DEF Status
<1>6. o \in EngineType
  BY <1>2, <1>3, <1>4, <1>5, IdleSound, StatusSound, CancelPendingSound, EvaluateLiveSound
     DEF Sound
<1>7. Steady(r, Idle(r)) /\ Steady(r, r) /\ Steady(r, [r EXCEPT !.status = "suppressed"])
  BY <1>2, IdleSteady, SimpleSteady
<1>8. Steady(c, [CancelPending(c, Targets) EXCEPT !.status = "conditional"])
  <2>1. CancelPending(c, Targets) \in EngineType /\ Steady(c, CancelPending(c, Targets))
    BY <1>3, CancelPendingSound, SimpleSteady DEF Sound
  <2> QED BY <2>1, SimpleSteady, SteadyChain
<1>9. \A y \in EvaluateLive(c, all) : Steady(c, y)
  BY <1>3, <1>4, EvaluateLiveSteady
<1>10. Steady(r, o)
  BY <1>3, <1>7, <1>8, <1>9, SteadyChain
<1>11. Steady(o, x)
  BY <1>1, <1>6, SimpleSteady
<1> QED BY <1>2, <1>10, <1>11, SteadyChain

LEMMA SweepSteady ==
  ASSUME NEW e, Sound(e), NEW x \in Sweep(e) PROVE Steady(e, x)
BY EvaluateSteady, SimpleSteady DEF Sweep, Sound

LEMMA EvaluateFlagSteady ==
  ASSUME NEW e, Sound(e), NEW x \in EvaluateFlag(e) PROVE Steady(e, x)
<1> DEFINE c == IF e.sup = "elapsed" THEN ClearSuppression(e) ELSE e
           met == [c EXCEPT !.status = ArmedOrCooldown(c)]
           violating == {t \in Targets : dev'[t] = "bad"}
           gated == [CancelPending(c, Targets) EXCEPT !.status = "conditional"]
<1>1. Sound(c) /\ Steady(e, c) /\ c \in EngineType /\ e \in EngineType
  BY ClearSuppressionSound, ClearedSteady DEF Sound
<1> HIDE DEF c
<1>2. Sound(met) /\ Steady(e, met)
  BY <1>1, StatusType, StatusSound, SimpleSteady, SteadyChain
<1>3. Steady(e, gated)
  <2>1. CancelPending(c, Targets) \in EngineType /\ Steady(c, CancelPending(c, Targets))
    BY <1>1, CancelPendingSound, SimpleSteady DEF Sound
  <2>2. Steady(CancelPending(c, Targets), gated)
    BY <2>1, SimpleSteady
  <2> QED BY <1>1, <2>1, <2>2, SteadyChain
<1>4. x \in IF Inactive(e) THEN {Idle(e)}
            ELSE IF e.sup = "active" THEN {[e EXCEPT !.status = "suppressed"]}
            ELSE IF ~flag' THEN {gated}
            ELSE IF violating = {} THEN {met} ELSE Evaluate(met, violating)
  BY DEF EvaluateFlag, c, met
<1> HIDE DEF met, gated
<1>5. \A y \in Evaluate(met, violating) : Steady(e, y)
  BY <1>2, EvaluateSteady, SteadyChain
<1> QED BY <1>1, <1>2, <1>3, <1>4, <1>5, IdleSteady, SimpleSteady

LEMMA EvaluateSourceSteady ==
  ASSUME NEW e, Sound(e), NEW x \in EvaluateSource(e) PROVE Steady(e, x)
<1> DEFINE c == IF e.sup = "elapsed" THEN ClearSuppression(e) ELSE e
           met == [c EXCEPT !.status = ArmedOrCooldown(c)]
           gated == [CancelPending(c, Targets) EXCEPT !.status = "conditional"]
<1>1. Sound(c) /\ Steady(e, c) /\ c \in EngineType /\ e \in EngineType
  BY ClearSuppressionSound, ClearedSteady DEF Sound
<1> HIDE DEF c
<1>2. Sound(met) /\ Steady(e, met)
  BY <1>1, StatusType, StatusSound, SimpleSteady, SteadyChain
<1>3. Steady(e, gated)
  <2>1. CancelPending(c, Targets) \in EngineType /\ Steady(c, CancelPending(c, Targets))
    BY <1>1, CancelPendingSound, SimpleSteady DEF Sound
  <2>2. Steady(CancelPending(c, Targets), gated)
    BY <2>1, SimpleSteady
  <2> QED BY <1>1, <2>1, <2>2, SteadyChain
<1>4. x \in IF Inactive(e) THEN {Idle(e)}
            ELSE IF ~e.started THEN {e}
            ELSE IF e.sup = "active" THEN {[e EXCEPT !.status = "suppressed"]}
            ELSE IF ~flag' THEN {gated}
            ELSE Evaluate(met, Targets)
  BY DEF EvaluateSource, c, met
<1> HIDE DEF met, gated
<1>5. \A y \in Evaluate(met, Targets) : Steady(e, y)
  BY <1>2, EvaluateSteady, SteadyChain
<1> QED BY <1>1, <1>3, <1>4, <1>5, IdleSteady, SimpleSteady

-----------------------------------------------------------------------------
(* Only the end of a call counts a success.                                *)

\* x has counted nothing since the step began, and the call that was out still is.
Framed(x) == /\ x.window <= eng.window
             /\ eng.callOn # NoTarget => x.callOn = eng.callOn /\ x.forced = eng.forced

LEMMA SteadyFramed ==
  ASSUME NEW e, Framed(e), NEW x, Steady(e, x) PROVE Framed(x)
BY DEF Framed, Steady

LEMMA SimpleFramed ==
  ASSUME NEW e \in EngineType, Framed(e)
  PROVE  /\ Framed(ScheduleSuppressionTimer(e)) /\ Framed(ClearSuppression(e))
         /\ Framed(RearmCooldownBroadcasts(e))
<1>1. /\ ScheduleSuppressionTimer(e).window = e.window
      /\ ScheduleSuppressionTimer(e).callOn = e.callOn
      /\ ScheduleSuppressionTimer(e).forced = e.forced
  BY DEF ScheduleSuppressionTimer, EngineType
<1>2. /\ ClearSuppression(e).window = e.window
      /\ ClearSuppression(e).callOn = e.callOn
      /\ ClearSuppression(e).forced = e.forced
  BY DEF ClearSuppression, EngineType
<1>3. /\ RearmCooldownBroadcasts(e).window = e.window
      /\ RearmCooldownBroadcasts(e).callOn = e.callOn
      /\ RearmCooldownBroadcasts(e).forced = e.forced
  BY DEF RearmCooldownBroadcasts, EngineType
<1> QED BY <1>1, <1>2, <1>3 DEF Framed

LEMMA ResumeFramed ==
  ASSUME NEW e, Sound(e), Framed(e), NEW x \in Sweep(Idle(e)) PROVE Framed(x)
BY IdleSound, IdleSteady, SweepSteady, SteadyFramed DEF Sound

LEMMA OperationsFramed == ASSUME IInv, Operations PROVE Framed(eng')
<1> Sound(eng) /\ eng \in EngineType /\ Framed(eng)
  BY DEF IInv, Sound, Framed, EngineType
<1>1. ASSUME NEW on \in BOOLEAN, MasterSet(on) PROVE Framed(eng')
  <2> DEFINE idle == Idle(eng)
             r == IF on /\ idle.status = "cooldown" THEN RearmCooldownBroadcasts(idle) ELSE idle
  <2>1. eng' \in IF eng.loaded THEN Sweep(r) ELSE {eng}
    BY <1>1 DEF MasterSet
  <2>2. Sound(idle) /\ Framed(idle)
    BY IdleSound, IdleSteady, SteadyFramed
  <2> HIDE DEF idle
  <2>3. Sound(r) /\ Framed(r)
    BY <2>2, RearmCooldownBroadcastsSound, SimpleFramed DEF Sound
  <2> HIDE DEF r
  <2> QED BY <2>1, <2>3, SweepSteady, SteadyFramed
<1>2. ASSUME NEW on \in BOOLEAN, SetEnabled(on) PROVE Framed(eng')
  <2> DEFINE e    == [eng EXCEPT !.enabled = on]
             kept == IF e.sup = "elapsed" THEN ClearSuppression(e) ELSE e
             sched == ScheduleSuppressionTimer(kept)
             idle == Idle(sched)
             r    == IF idle.status = "cooldown" THEN RearmCooldownBroadcasts(idle) ELSE idle
             off  == [e EXCEPT !.supTimer = FALSE]
  <2>1. eng' \in IF on THEN Sweep(r) ELSE {Idle(off)}
    BY <1>2, Zenon DEF SetEnabled
  <2>2. /\ e \in EngineType /\ Capped(e) /\ off \in EngineType
        /\ e.window = eng.window /\ e.callOn = eng.callOn /\ e.forced = eng.forced
        /\ off.window = eng.window /\ off.callOn = eng.callOn /\ off.forced = eng.forced
    BY DEF Sound, Capped, EngineType
  <2> HIDE DEF e, off
  <2>2a. Framed(e) /\ Framed(off)
    BY <2>2 DEF Framed
  <2>3. kept \in EngineType /\ Capped(kept) /\ Framed(kept)
    BY <2>2, <2>2a, ClearSuppressionSound, SimpleFramed DEF Sound
  <2> HIDE DEF kept
  <2>4. Sound(sched) /\ Framed(sched)
    BY <2>3, ScheduleSuppressionTimerSound, SimpleFramed
  <2> HIDE DEF sched
  <2>5. Sound(idle) /\ Framed(idle) /\ idle \in EngineType
    BY <2>4, IdleSound, IdleSteady, SteadyFramed DEF Sound
  <2> HIDE DEF idle
  <2>6. Sound(r) /\ Framed(r)
    BY <2>5, RearmCooldownBroadcastsSound, SimpleFramed
  <2> HIDE DEF r
  <2>7. Framed(Idle(off))
    BY <2>2, <2>2a, IdleSteady, SteadyFramed
  <2> QED BY <2>1, <2>6, <2>7, SweepSteady, SteadyFramed
<1>3. ASSUME Suppress PROVE Framed(eng')
  <2> DEFINE hit == [eng EXCEPT !.sup = "active"]
             sched == ScheduleSuppressionTimer(hit)
             e == CancelPending(sched, Targets)
  <2>1. /\ hit \in EngineType /\ Capped(hit)
        /\ hit.window = eng.window /\ hit.callOn = eng.callOn /\ hit.forced = eng.forced
    BY DEF Sound, Capped, EngineType
  <2> HIDE DEF hit
  <2>2. Sound(sched) /\ Framed(sched)
    BY <2>1, ScheduleSuppressionTimerSound, SimpleFramed DEF Framed
  <2>3. eng' = IF e.status = "error" THEN e ELSE Idle(e)
    BY <1>3 DEF Suppress, e, sched, hit
  <2> HIDE DEF sched
  <2>4. e \in EngineType /\ Framed(e)
    BY <2>2, CancelPendingSound, SimpleSteady, SteadyFramed DEF Sound
  <2> HIDE DEF e
  <2> QED BY <2>3, <2>4, IdleSteady, SteadyFramed
<1>4. ASSUME Unsuppress PROVE Framed(eng')
  <2>1. Sound(ClearSuppression(eng)) /\ Framed(ClearSuppression(eng))
    BY ClearSuppressionSound, SimpleFramed DEF Sound
  <2> QED BY <1>4, <2>1, ResumeFramed DEF Unsuppress
<1>5. ASSUME ResetCooldowns PROVE Framed(eng')
  <2> DEFINE s == ScheduleSuppressionTimer(eng)
             e == [s EXCEPT !.cool = [t \in Targets |-> FALSE],
                            !.coolTimer = [t \in Targets |-> FALSE], !.succs = 0]
  <2>1. s \in EngineType /\ Sound(s) /\ Framed(s)
    BY ScheduleSuppressionTimerSound, SimpleFramed DEF Sound
  <2>2. eng' = Idle(e)
    BY <1>5 DEF ResetCooldowns
  <2> HIDE DEF s
  <2>3. e.window = s.window /\ e.callOn = s.callOn /\ e.forced = s.forced
    BY <2>1 DEF EngineType
  <2>4. e \in EngineType
    BY <2>1, ResetSound DEF Sound
  <2> HIDE DEF e
  <2>5. Framed(e)
    BY <2>1, <2>3 DEF Framed
  <2> QED BY <2>2, <2>4, <2>5, IdleSteady, SteadyFramed
<1>6. ASSUME ClearHistory PROVE Framed(eng')
  <2> DEFINE s == ScheduleSuppressionTimer(eng)
  <2>1. s \in EngineType /\ Framed(s)
    BY ScheduleSuppressionTimerSound, SimpleFramed DEF Sound
  <2>2. eng' = [s EXCEPT !.cool = [t \in Targets |-> FALSE],
                         !.coolTimer = [t \in Targets |-> FALSE],
                         !.window = 0, !.errs = 0, !.succs = 0, !.clearing = TRUE]
    BY <1>6 DEF ClearHistory
  <2> HIDE DEF s
  <2>3. eng'.window = 0 /\ eng'.callOn = s.callOn /\ eng'.forced = s.forced
    BY <2>1, <2>2 DEF EngineType
  <2>4. 0 <= eng.window
    BY DEF EngineType
  <2> QED BY <2>1, <2>3, <2>4 DEF Framed
<1>7. ASSUME ClearHistoryRepaints PROVE Framed(eng')
  <2> DEFINE e == [eng EXCEPT !.clearing = FALSE,
                              !.status = IF @ = "error" THEN "starting" ELSE @]
  <2>1. e.window = eng.window /\ e.callOn = eng.callOn /\ e.forced = eng.forced
    BY DEF EngineType
  <2>2. e \in EngineType
    BY HistoryClearedSound DEF Sound
  <2>3. eng' = Idle(e)
    BY <1>7 DEF ClearHistoryRepaints
  <2> HIDE DEF e
  <2>4. Framed(e)
    BY <2>1 DEF Framed
  <2> QED BY <2>2, <2>3, <2>4, IdleSteady, SteadyFramed
<1>8. ASSUME Unload PROVE Framed(eng')
  <2> DEFINE r == ReplaceTasks(eng, Targets)
             e == CancelPending(r, Targets)
  <2>1. r \in EngineType /\ Framed(r) /\ Sound(r)
    BY ReplaceTasksSound, SimpleSteady, SteadyFramed DEF Sound
  <2>2. eng' = [e EXCEPT !.loaded = FALSE, !.supTimer = FALSE,
                         !.coolTimer = [t \in Targets |-> FALSE]]
    BY <1>8 DEF Unload, r
  <2> HIDE DEF r
  <2>3. e \in EngineType /\ Framed(e)
    BY <2>1, CancelPendingSound, SimpleSteady, SteadyFramed DEF Sound
  <2> HIDE DEF e
  <2>4. eng'.window = e.window /\ eng'.callOn = e.callOn /\ eng'.forced = e.forced
    BY <2>2, <2>3 DEF EngineType
  <2> QED BY <2>3, <2>4 DEF Framed
<1>9. ASSUME Press PROVE Framed(eng')
  BY <1>9, PressLeaves DEF PassOnly, Kept, Framed
<1> QED BY <1>1, <1>2, <1>3, <1>4, <1>5, <1>6, <1>7, <1>8, <1>9 DEF Operations

LEMMA CallbacksFramed ==
  ASSUME IInv, FlagMoves \/ SourceMoves \/ Clock \/ \E t \in Targets : DeviceMoves(t)
  PROVE  Framed(eng')
<1> Sound(eng) /\ eng \in EngineType /\ Framed(eng)
  BY DEF IInv, Sound, Framed, EngineType
<1>1. ASSUME NEW t \in Targets, DeviceMoves(t) PROVE Framed(eng')
  BY <1>1, EvaluateSteady, SteadyFramed DEF DeviceMoves
<1>2. ASSUME FlagMoves PROVE Framed(eng')
  BY <1>2, EvaluateFlagSteady, SteadyFramed DEF FlagMoves
<1>3. ASSUME SourceMoves PROVE Framed(eng')
  BY <1>3, EvaluateSourceSteady, SteadyFramed DEF SourceMoves
<1>4. ASSUME GraceDone PROVE Framed(eng')
  <2> DEFINE e == [eng EXCEPT !.started = TRUE]
  <2>1. Sound(e) /\ e.window = eng.window /\ e.callOn = eng.callOn /\ e.forced = eng.forced
    BY DEF Sound, Capped, Watched, EngineType
  <2>2. eng' \in Sweep(Idle(e))
    BY <1>4 DEF GraceDone
  <2> HIDE DEF e
  <2>3. Framed(e)
    BY <2>1 DEF Framed
  <2> QED BY <2>1, <2>2, <2>3, ResumeFramed
<1>5. ASSUME Midnight PROVE Framed(eng')
  BY <1>5, IdleSteady, SteadyFramed DEF Midnight
<1>6. ASSUME SuppressionTimerFires PROVE Framed(eng')
  <2>1. Sound(ClearSuppression(eng)) /\ Framed(ClearSuppression(eng))
    BY ClearSuppressionSound, SimpleFramed DEF Sound
  <2> QED BY <1>6, <2>1, ResumeFramed DEF SuppressionTimerFires
<1>7. ASSUME SuppressionElapses \/ \E t \in Targets : CooldownElapses(t) PROVE Framed(eng')
  <2>1. eng'.window = eng.window /\ eng'.callOn = eng.callOn /\ eng'.forced = eng.forced
    BY <1>7 DEF SuppressionElapses, CooldownElapses, EngineType
  <2> QED BY <2>1 DEF Framed
<1>8. ASSUME WindowAges PROVE Framed(eng')
  <2>1. /\ eng'.window = eng.window - 1
        /\ eng'.callOn = eng.callOn /\ eng'.forced = eng.forced
    BY <1>8 DEF WindowAges, EngineType
  <2>2. eng.window \in Nat
    BY DEF EngineType
  <2> QED BY <2>1, <2>2 DEF Framed
<1>9. ASSUME NEW t \in Targets, CooldownTimerFires(t) PROVE Framed(eng')
  <2> DEFINE e == [eng EXCEPT !.coolTimer[t] = FALSE]
  <2>1. /\ e \in EngineType /\ e.window = eng.window /\ e.callOn = eng.callOn
        /\ e.forced = eng.forced
    BY DEF EngineType
  <2>2. eng' = IF e.loaded THEN Idle(e) ELSE e
    BY <1>9 DEF CooldownTimerFires
  <2> HIDE DEF e
  <2>3. Framed(e)
    BY <2>1 DEF Framed
  <2> QED BY <2>1, <2>2, <2>3, IdleSteady, SteadyFramed
<1> QED BY <1>1, <1>2, <1>3, <1>4, <1>5, <1>6, <1>7, <1>8, <1>9 DEF Clock

LEMMA TasksFramed ==
  ASSUME IInv,
         NEW t \in Targets,
         DelayTimerFires(t) \/ OwnerGranted(t) \/ LostGranted(t) \/ DoneCallback(t)
  PROVE  Framed(eng')
<1> Sound(eng) /\ eng \in EngineType /\ Framed(eng)
  BY DEF IInv, Sound, Framed, EngineType
<1>1. ASSUME DelayTimerFires(t) PROVE Framed(eng')
  <2> DEFINE dropped == [eng EXCEPT !.pend[t] = "none"]
             firing  == [eng EXCEPT !.pend[t] = "firing"]
             blocked == [dropped EXCEPT !.status = ArmedOrCooldown(dropped)]
  <2>1. eng' = IF Inactive(eng) THEN Idle(eng)
               ELSE IF eng.sup = "active" THEN Idle(dropped)
               ELSE IF dev[t] # "bad" \/ ~flag THEN blocked
               ELSE Acquire(firing, t)
    BY <1>1, Zenon DEF DelayTimerFires
  <2>2. Sound(dropped) /\ Sound(firing) /\ Steady(eng, dropped) /\ Steady(eng, firing)
    BY DEF Sound, Capped, Watched, EngineType, Steady
  <2> HIDE DEF dropped, firing
  <2>3. Steady(dropped, Idle(dropped)) /\ Steady(dropped, blocked)
        /\ Steady(firing, Acquire(firing, t)) /\ Steady(eng, Idle(eng))
    BY <2>2, IdleSteady, AcquireSteady, SimpleSteady DEF Sound
  <2> HIDE DEF blocked
  <2> QED BY <2>1, <2>2, <2>3, SteadyFramed
<1>2. ASSUME OwnerGranted(t) PROVE Framed(eng')
  <2> DEFINE e == [eng EXCEPT !.parked = @ \ {t}]
  <2>1. eng' = Enter(e, t, TRUE) /\ eng.callOn = NoTarget
    BY <1>2 DEF OwnerGranted
  <2>2. Sound(e) /\ e.callOn = eng.callOn /\ Steady(eng, e)
    BY DEF Sound, Capped, Watched, EngineType, Steady
  <2> HIDE DEF e
  <2> QED BY <2>1, <2>2, EnterSteady, SteadyFramed
<1>3. ASSUME LostGranted(t) PROVE Framed(eng')
  <2> DEFINE e == [eng EXCEPT !.lost[t] = @ - 1]
  <2>1. eng' = Enter(e, t, FALSE) /\ eng.callOn = NoTarget
    BY <1>3 DEF LostGranted
  <2>2. Sound(e) /\ e.callOn = eng.callOn /\ Steady(eng, e)
    BY <1>3 DEF LostGranted, Sound, Capped, Watched, EngineType, Steady
  <2> HIDE DEF e
  <2> QED BY <2>1, <2>2, EnterSteady, SteadyFramed
<1>4. ASSUME DoneCallback(t) PROVE Framed(eng')
  <2>1. eng'.window = eng.window /\ eng'.callOn = eng.callOn /\ eng'.forced = eng.forced
    BY <1>4 DEF DoneCallback, EngineType
  <2> QED BY <2>1 DEF Framed
<1> QED BY <1>1, <1>2, <1>3, <1>4

\* What a pass leaves at its turn, and what follows a call, count nothing more.
LEMMA TurnFramed ==
  ASSUME Sound(eng), NEW t \in Targets, TurnGranted(t)
  PROVE  eng'.window = eng.window /\ ~eng.forced
<1>1. CASE Called(t)
  BY <1>1, TurnLeaves DEF Called, Sound, Capped
<1>2. ASSUME NEW s, NEW r, Skipped(s, r) PROVE eng'.window = eng.window /\ ~eng.forced
  <2>1. Sound(s) /\ s.window = eng.window /\ s \in EngineType
    BY <1>2 DEF Skipped, Kept, Sound
  <2>2. r.window = s.window
    BY <1>2, <2>1, IdleSteady DEF Skipped, Steady
  <2> QED BY <1>2, <2>1, <2>2, TurnLeaves DEF Skipped, PassOnly, Kept, Sound, Capped
<1> QED BY <1>1, <1>2, TurnLeaves

LEMMA EndedCounts ==
  ASSUME NEW t \in Targets, NEW p, Ended(t, p) PROVE eng'.window = p.window
<1>1. Sound(p) /\ p \in EngineType
  BY DEF Ended, Sound
<1>2. Idle(p).window = p.window /\ EndTask(p, t, eng.callOwn).window = p.window
  BY <1>1, IdleSteady, EndTaskSteady DEF Steady
<1> QED BY <1>2 DEF Ended, PassOnly, Kept

\* For every set of targets and every limit: a step that leaves more successes of the
\* last minute than the limit allows is the end of a press's call, however the
\* enforcements of the automatic path overlap.
THEOREM RateLimitHolds == Spec => OnlyPressesExceedLimit
<1>1. IInv /\ [Next]_vars
        => [Limit > 0 /\ eng'.window > eng.window /\ eng'.window > Limit => eng.forced]_vars
  <2> SUFFICES ASSUME IInv, Next, Limit > 0, eng'.window > eng.window, eng'.window > Limit,
                      ~eng.forced
               PROVE  FALSE
    OBVIOUS
  <2> Sound(eng) /\ eng.window \in Nat /\ Limit \in Nat
    BY ConfigAssumption DEF IInv, Sound, EngineType
  <2>0. IInv' /\ eng'.window \in Nat
    BY StepSound DEF IInv, Sound, EngineType
  <2>1. ~Framed(eng')
    BY <2>0 DEF Framed
  <2>2. Tasks
    BY <2>1, OperationsFramed, CallbacksFramed DEF Next
  <2>3. CallEnds
    <3>1. \A t \in Targets : ~TurnGranted(t)
      BY TurnFramed
    <3> QED BY <2>1, <2>2, <3>1, TasksFramed DEF Tasks
  <2>4. PICK t \in Targets : \E p : Ended(t, p)
    BY <2>3, CallEndsSound
  <2>5. PICK p : Ended(t, p)
    BY <2>4
  <2>6. eng'.window \in {eng.window, eng.window + 1}
    BY <2>5, EndedCounts DEF Ended
  <2>7. eng.window < Limit
    BY <2>5, TargetsAssumption DEF Ended, Sound, Capped
  <2> QED BY <2>6, <2>7
<1> QED BY <1>1, Invariance, PTL DEF Spec, OnlyPressesExceedLimit

-----------------------------------------------------------------------------
(* A rule that is off goes on showing it.                                  *)

LEMMA IdleOff ==
  ASSUME NEW e \in EngineType, Inactive(Idle(e)) PROVE ShownOff(Idle(e))
<1>1. Inactive(e)
  BY IdleSteady DEF Steady, Inactive
<1>2. IdleStatus(e) \in {"master_disabled", "disabled"}
  BY <1>1 DEF Inactive, IdleStatus
<1>3. Idle(e).status = IdleStatus(e)
  BY <1>1 DEF Idle, CancelPending, EngineType
<1> QED BY <1>2, <1>3 DEF ShownOff

LEMMA EvaluateOff ==
  ASSUME NEW e, Sound(e), NEW S \in SUBSET Targets, NEW x \in Evaluate(e, S), Inactive(x)
  PROVE  ShownOff(x)
<1> DEFINE all == Evaluated(e, S)
           r   == ReplaceTasks(e, all)
<1>1. Sound(r) /\ Steady(e, r) /\ r \in EngineType
  BY ReplaceTasksSound, SimpleSteady DEF Sound
<1>2. Inactive(r)
  BY <1>1, EvaluateSteady DEF Steady, Inactive
<1>3. x = Started(Idle(r), all)
  BY <1>2 DEF Evaluate
<1> HIDE DEF r, all
<1>4. Idle(r) \in EngineType /\ Same(Idle(r), x) /\ Inactive(Idle(r))
  BY <1>1, <1>2, <1>3, IdleSound, IdleSteady, StartedSame DEF Sound, Steady, Inactive
<1> QED BY <1>1, <1>4, IdleOff DEF Same, ShownOff

LEMMA SweepOff ==
  ASSUME NEW e, Sound(e), ShownOff(e), NEW x \in Sweep(e), Inactive(x) PROVE ShownOff(x)
BY EvaluateOff DEF Sweep

LEMMA ResumeOff ==
  ASSUME NEW e, Sound(e), NEW x \in Sweep(Idle(e)), Inactive(x) PROVE ShownOff(x)
<1>1. Sound(Idle(e)) /\ Inactive(Idle(e))
  BY IdleSound, SweepSteady DEF Steady, Inactive
<1> QED BY <1>1, IdleOff, SweepOff DEF Sound

LEMMA OperationsOff ==
  ASSUME IInv, eng.loaded, ShownOff(eng), Operations, Inactive(eng') PROVE ShownOff(eng')
<1> Sound(eng) /\ eng \in EngineType
  BY DEF IInv, Sound
<1>1. ASSUME NEW idle, Sound(idle), Inactive(idle) => ShownOff(idle),
             NEW on \in BOOLEAN,
             eng' \in Sweep(IF on /\ idle.status = "cooldown"
                            THEN RearmCooldownBroadcasts(idle) ELSE idle)
      PROVE  ShownOff(eng')
  <2> DEFINE r == IF on /\ idle.status = "cooldown"
                  THEN RearmCooldownBroadcasts(idle) ELSE idle
  <2>1. Sound(r) /\ r.enabled = idle.enabled
    BY <1>1, RearmCooldownBroadcastsSound DEF RearmCooldownBroadcasts, Sound, EngineType
  <2>2. Inactive(r) /\ Inactive(idle)
    <3> HIDE DEF r
    <3>1. Steady(r, eng')
      BY <1>1, <2>1, SweepSteady DEF r
    <3> QED BY <2>1, <3>1 DEF Steady, Inactive
  <2>3. r = idle
    BY <1>1, <2>2 DEF ShownOff
  <2> HIDE DEF r
  <2> QED BY <1>1, <2>1, <2>2, <2>3, SweepOff DEF r
<1>2. ASSUME NEW on \in BOOLEAN, MasterSet(on) PROVE ShownOff(eng')
  <2>1. eng' \in Sweep(IF on /\ Idle(eng).status = "cooldown"
                       THEN RearmCooldownBroadcasts(Idle(eng)) ELSE Idle(eng))
    BY <1>2, Zenon DEF MasterSet
  <2>2. Sound(Idle(eng)) /\ (Inactive(Idle(eng)) => ShownOff(Idle(eng)))
    BY IdleSound, IdleOff
  <2> QED BY <1>1, <2>1, <2>2
<1>3. ASSUME NEW on \in BOOLEAN, SetEnabled(on) PROVE ShownOff(eng')
  <2> DEFINE e    == [eng EXCEPT !.enabled = on]
             kept == IF e.sup = "elapsed" THEN ClearSuppression(e) ELSE e
             sched == ScheduleSuppressionTimer(kept)
             idle == Idle(sched)
             off  == [e EXCEPT !.supTimer = FALSE]
  <2>1. eng' \in IF on THEN Sweep(IF idle.status = "cooldown"
                                  THEN RearmCooldownBroadcasts(idle) ELSE idle)
                 ELSE {Idle(off)}
    BY <1>3, Zenon DEF SetEnabled
  <2>2. e \in EngineType /\ Capped(e) /\ off \in EngineType
    BY DEF Sound, Capped, EngineType
  <2> HIDE DEF e, off
  <2>3. kept \in EngineType /\ Capped(kept)
    BY <2>2, ClearSuppressionSound DEF Sound
  <2> HIDE DEF kept
  <2>4. Sound(sched)
    BY <2>3, ScheduleSuppressionTimerSound
  <2> HIDE DEF sched
  <2>5. Sound(idle) /\ (Inactive(idle) => ShownOff(idle))
    BY <2>4, IdleSound, IdleOff DEF Sound
  <2> HIDE DEF idle
  <2>6. CASE on
    <3>1. eng' \in Sweep(IF TRUE /\ idle.status = "cooldown"
                         THEN RearmCooldownBroadcasts(idle) ELSE idle)
      BY <2>1, <2>6
    <3> QED BY <1>1, <2>5, <3>1
  <2>7. CASE ~on
    BY <2>1, <2>2, <2>7, IdleOff
  <2> QED BY <2>6, <2>7
<1>4. ASSUME Suppress PROVE ShownOff(eng')
  <2> DEFINE hit == [eng EXCEPT !.sup = "active"]
             sched == ScheduleSuppressionTimer(hit)
             e == CancelPending(sched, Targets)
  <2>1. hit \in EngineType /\ hit.status = eng.status /\ Capped(hit)
    BY DEF Sound, Capped, EngineType
  <2> HIDE DEF hit
  <2>2. Sound(sched) /\ sched.status = eng.status
    BY <2>1, ScheduleSuppressionTimerSound, ScheduleSuppressionTimerSame DEF Same
  <2> HIDE DEF sched
  <2>3. e \in EngineType /\ e.status = eng.status
    <3>1. e \in EngineType
      BY <2>2, CancelPendingSound DEF Sound
    <3>2. e.status = sched.status
      BY <2>2 DEF Sound, CancelPending, EngineType
    <3> QED BY <2>2, <3>1, <3>2
  <2>4. eng' = IF e.status = "error" THEN e ELSE Idle(e)
    BY <1>4 DEF Suppress, e, sched, hit
  <2> HIDE DEF e
  <2> QED BY <2>3, <2>4, IdleOff DEF ShownOff
<1>5. ASSUME Unsuppress PROVE ShownOff(eng')
  <2>1. Sound(ClearSuppression(eng))
    BY ClearSuppressionSound DEF Sound
  <2> QED BY <1>5, <2>1, ResumeOff DEF Unsuppress
<1>6. ASSUME ResetCooldowns PROVE ShownOff(eng')
  <2> DEFINE s == ScheduleSuppressionTimer(eng)
             e == [s EXCEPT !.cool = [t \in Targets |-> FALSE],
                            !.coolTimer = [t \in Targets |-> FALSE],
                            !.succs = 0]
  <2>1. s \in EngineType
    BY ScheduleSuppressionTimerSound DEF Sound
  <2>2. eng' = Idle(e)
    BY <1>6 DEF ResetCooldowns
  <2> HIDE DEF s
  <2>3. e \in EngineType
    BY <2>1 DEF EngineType
  <2> HIDE DEF e
  <2> QED BY <2>2, <2>3, IdleOff
<1>7. ASSUME ClearHistory PROVE ShownOff(eng')
  <2>1. ScheduleSuppressionTimer(eng).status = eng.status
    BY ScheduleSuppressionTimerSame DEF Same
  <2>2. ScheduleSuppressionTimer(eng) \in EngineType
    BY ScheduleSuppressionTimerSound DEF Sound
  <2>3. eng'.status = eng.status
    BY <1>7, <2>1, <2>2 DEF ClearHistory, EngineType
  <2> QED BY <2>3 DEF ShownOff
<1>8. ASSUME ClearHistoryRepaints PROVE ShownOff(eng')
  <2> DEFINE e == [eng EXCEPT !.clearing = FALSE,
                              !.status = IF @ = "error" THEN "starting" ELSE @]
  <2>1. e \in EngineType
    BY HistoryClearedSound DEF Sound
  <2>2. eng' = Idle(e)
    BY <1>8 DEF ClearHistoryRepaints
  <2> HIDE DEF e
  <2> QED BY <2>1, <2>2, IdleOff
<1>9. ASSUME Unload PROVE ShownOff(eng')
  <2> DEFINE r == ReplaceTasks(eng, Targets)
             e == CancelPending(r, Targets)
  <2>1. r \in EngineType /\ r.status = eng.status
    BY ReplaceTasksSound, ReplaceTasksSame DEF Sound, Same
  <2> HIDE DEF r
  <2>2. e.status = eng.status
    BY <2>1 DEF CancelPending, EngineType
  <2>3. Sound(e)
    BY ReplaceTasksSound, CancelPendingSound DEF r
  <2>4. eng' = [e EXCEPT !.loaded = FALSE, !.supTimer = FALSE,
                         !.coolTimer = [t \in Targets |-> FALSE]]
    BY <1>9 DEF Unload, r
  <2> HIDE DEF e
  <2>5. eng'.status = e.status
    BY <2>3, <2>4 DEF Sound, EngineType
  <2> QED BY <2>2, <2>5 DEF ShownOff
<1>10. ASSUME Press PROVE ShownOff(eng')
  BY <1>10, PressLeaves DEF PassOnly, ShownOff
<1> QED BY <1>2, <1>3, <1>4, <1>5, <1>6, <1>7, <1>8, <1>9, <1>10 DEF Operations

LEMMA CallbacksOff ==
  ASSUME IInv, eng.loaded, ShownOff(eng), Inactive(eng'),
         FlagMoves \/ SourceMoves \/ Clock \/ \E t \in Targets : DeviceMoves(t)
  PROVE  ShownOff(eng')
<1> Sound(eng) /\ eng \in EngineType
  BY DEF IInv, Sound
<1>1. ASSUME NEW t \in Targets, DeviceMoves(t) PROVE ShownOff(eng')
  BY <1>1, EvaluateOff DEF DeviceMoves
<1>2. ASSUME FlagMoves PROVE ShownOff(eng')
  <2>1. eng' \in EvaluateFlag(eng)
    BY <1>2 DEF FlagMoves
  <2>2. Inactive(eng)
    BY <2>1, EvaluateFlagSteady DEF Steady, Inactive
  <2> QED BY <2>1, <2>2, IdleOff DEF EvaluateFlag
<1>3. ASSUME SourceMoves PROVE ShownOff(eng')
  <2>1. eng' \in EvaluateSource(eng)
    BY <1>3 DEF SourceMoves
  <2>2. Inactive(eng)
    BY <2>1, EvaluateSourceSteady DEF Steady, Inactive
  <2> QED BY <2>1, <2>2, IdleOff DEF EvaluateSource
<1>4. ASSUME GraceDone PROVE ShownOff(eng')
  <2>1. Sound([eng EXCEPT !.started = TRUE])
    BY DEF Sound, Capped, Watched, EngineType
  <2> QED BY <1>4, <2>1, ResumeOff DEF GraceDone
<1>5. ASSUME Midnight PROVE ShownOff(eng')
  BY <1>5, IdleOff DEF Midnight
<1>6. ASSUME SuppressionTimerFires PROVE ShownOff(eng')
  <2>1. Sound(ClearSuppression(eng))
    BY ClearSuppressionSound DEF Sound
  <2> QED BY <1>6, <2>1, ResumeOff DEF SuppressionTimerFires
<1>7. ASSUME SuppressionElapses \/ WindowAges \/ \E t \in Targets : CooldownElapses(t)
      PROVE  ShownOff(eng')
  <2>1. eng'.status = eng.status
    BY <1>7 DEF SuppressionElapses, WindowAges, CooldownElapses, EngineType
  <2> QED BY <2>1 DEF ShownOff
<1>8. ASSUME NEW t \in Targets, CooldownTimerFires(t) PROVE ShownOff(eng')
  <2> DEFINE e == [eng EXCEPT !.coolTimer[t] = FALSE]
  <2>1. e \in EngineType /\ e.status = eng.status
    BY DEF EngineType
  <2>2. eng' = IF e.loaded THEN Idle(e) ELSE e
    BY <1>8 DEF CooldownTimerFires
  <2> HIDE DEF e
  <2> QED BY <2>1, <2>2, IdleOff DEF ShownOff
<1> QED BY <1>1, <1>2, <1>3, <1>4, <1>5, <1>6, <1>7, <1>8 DEF Clock

LEMMA TasksOff ==
  ASSUME IInv, eng.loaded, ShownOff(eng), Tasks, Inactive(eng'), ~Pressed(eng),
         \A t \in Targets : ~(Begun(eng, t) > 0)
  PROVE  ShownOff(eng')
<1> Sound(eng) /\ eng \in EngineType
  BY DEF IInv, Sound
<1>0. ~eng.forced /\ \A t \in Targets : eng.turn # t
  BY TargetsAssumption DEF Pressed
<1>1. \A t \in Targets : eng.lost[t] = 0 /\ t \notin eng.parked /\ eng.callOn # t
  BY <1>0 DEF Begun, EngineType
<1>2. ASSUME NEW t \in Targets, DelayTimerFires(t) PROVE ShownOff(eng')
  <2> DEFINE dropped == [eng EXCEPT !.pend[t] = "none"]
             firing  == [eng EXCEPT !.pend[t] = "firing"]
             blocked == [dropped EXCEPT !.status = ArmedOrCooldown(dropped)]
  <2>1. eng' = IF Inactive(eng) THEN Idle(eng)
               ELSE IF eng.sup = "active" THEN Idle(dropped)
               ELSE IF dev[t] # "bad" \/ ~flag THEN blocked
               ELSE Acquire(firing, t)
    BY <1>2, Zenon DEF DelayTimerFires
  <2>2. Sound(dropped) /\ Sound(firing) /\ Steady(eng, dropped) /\ Steady(eng, firing)
    BY DEF Sound, Capped, Watched, EngineType, Steady
  <2> HIDE DEF dropped, firing
  <2>3. Steady(dropped, Idle(dropped)) /\ Steady(dropped, blocked)
        /\ Steady(firing, Acquire(firing, t)) /\ Steady(eng, Idle(eng))
    BY <2>2, IdleSteady, AcquireSteady, SimpleSteady DEF Sound
  <2> HIDE DEF blocked
  <2>4. Inactive(eng)
    BY <2>1, <2>2, <2>3 DEF Steady, Inactive
  <2> QED BY <2>1, <2>4, IdleOff
<1>3. ASSUME NEW t \in Targets, OwnerGranted(t) \/ LostGranted(t) PROVE FALSE
  <2>1. t \in eng.parked \/ eng.lost[t] > 0
    BY <1>3 DEF OwnerGranted, LostGranted
  <2>2. eng.lost[t] = 0 /\ t \notin eng.parked
    BY <1>1
  <2> QED BY <2>1, <2>2
<1>4. ASSUME NEW t \in Targets, DoneCallback(t) PROVE ShownOff(eng')
  <2>1. eng'.status = eng.status
    BY <1>4 DEF DoneCallback, EngineType
  <2> QED BY <2>1 DEF ShownOff
<1>5. ASSUME CallEnds PROVE FALSE
  BY <1>1, <1>5, CallEndsSound DEF Ended
<1>6. ASSUME NEW t \in Targets, TurnGranted(t) PROVE FALSE
  BY <1>0, <1>6 DEF TurnGranted
<1> QED BY <1>2, <1>3, <1>4, <1>5, <1>6 DEF Tasks

\* The end of a call of a pass that was pressed on a rule that is off.
LEMMA PassRestores ==
  ASSUME IInv, Next, eng.forced, ~eng'.forced, eng.wasOff, Inactive(eng'), ~eng'.unpainted
  PROVE  ShownOff(eng')
<1> Sound(eng)
  BY DEF IInv
<1>1. eng.callOn # NoTarget
  BY DEF Sound, Capped
<1>2. ~Framed(eng')
  BY <1>1 DEF Framed
<1>3. \A t \in Targets : ~TurnGranted(t)
  BY TurnFramed
<1>4. CallEnds
  BY <1>2, <1>3, OperationsFramed, CallbacksFramed, TasksFramed DEF Next, Tasks
<1>5. PICK t \in Targets : \E p : Ended(t, p)
  BY <1>4, CallEndsSound
<1>6. PICK p : Ended(t, p)
  BY <1>5
<1>7. Sound(p) /\ p \in EngineType /\ p.wasOff
  BY <1>6 DEF Ended, SameWork, Sound
<1>8. PassOnly(Idle(p), eng')
  <2>1. PassOnly(p, eng') => ~p.unpainted
    BY DEF PassOnly
  <2> QED BY <1>6, <1>7, <2>1 DEF Ended
<1>9. Inactive(Idle(p)) /\ eng'.status = Idle(p).status
  BY <1>8 DEF PassOnly, Kept, Inactive
<1> QED BY <1>7, <1>9, IdleOff DEF ShownOff

\* A rule that shows that it is off shows it until it is switched on again: no timer,
\* event, reset or suppression paints over it, but an enforcement that had begun or a
\* pass of the force button may; and a pass that was pressed on a rule that is off
\* restores what it shows when a command of it is over, unless the call was aborted.
THEOREM OffStaysShown == Spec => OffIsKept
<1>1. ASSUME IInv, Next, OffIsLeft, ~Pressed(eng), \A t \in Targets : ~(Begun(eng, t) > 0)
      PROVE  FALSE
  BY <1>1, OperationsOff, CallbacksOff, TasksOff DEF Next, OffIsLeft
<1>2. IInv /\ [Next]_vars
        => [/\ OffIsLeft => Pressed(eng) \/ \E t \in Targets : Begun(eng, t) > 0
            /\ eng.forced /\ ~eng'.forced /\ eng.wasOff /\ Inactive(eng')
                 => ShownOff(eng') \/ eng'.unpainted]_vars
  <2> SUFFICES ASSUME IInv, Next
               PROVE  /\ OffIsLeft => Pressed(eng) \/ \E t \in Targets : Begun(eng, t) > 0
                      /\ eng.forced /\ ~eng'.forced /\ eng.wasOff /\ Inactive(eng')
                           => ShownOff(eng') \/ eng'.unpainted
    OBVIOUS
  <2>1. OffIsLeft => Pressed(eng) \/ \E t \in Targets : Begun(eng, t) > 0
    BY <1>1
  <2>2. eng.forced /\ ~eng'.forced /\ eng.wasOff /\ Inactive(eng')
          => ShownOff(eng') \/ eng'.unpainted
    BY PassRestores
  <2> QED BY <2>1, <2>2
<1> QED BY <1>2, Invariance, PTL DEF Spec, OffIsKept

-----------------------------------------------------------------------------
(* What has begun.  Only an evaluation of a rule that may act, or a         *)
(* countdown that ran out, begins an enforcement; all else drains.         *)

Drains(e, x) == \A t \in Targets : Begun(x, t) <= Begun(e, t)

\* The begun work of x is that of e.
SameBegun(e, x) == /\ x.lost = e.lost /\ x.parked = e.parked
                   /\ x.callOn = e.callOn /\ x.forced = e.forced

LEMMA BegunType ==
  ASSUME NEW e \in EngineType, NEW t \in Targets PROVE Begun(e, t) \in Nat
<1>1. e.lost[t] \in Nat
  BY DEF EngineType
<1> QED BY <1>1 DEF Begun

LEMMA DrainsChain ==
  ASSUME NEW e \in EngineType, NEW x \in EngineType, NEW y \in EngineType,
         Drains(e, x), Drains(x, y)
  PROVE  Drains(e, y)
<1> SUFFICES ASSUME NEW t \in Targets PROVE Begun(y, t) <= Begun(e, t)
  BY DEF Drains
<1>1. Begun(y, t) <= Begun(x, t) /\ Begun(x, t) <= Begun(e, t)
  BY DEF Drains
<1> QED BY <1>1, BegunType

LEMMA SameDrains ==
  ASSUME NEW e \in EngineType, NEW x, SameBegun(e, x) PROVE Drains(e, x)
<1> SUFFICES ASSUME NEW t \in Targets PROVE Begun(x, t) <= Begun(e, t)
  BY DEF Drains
<1>1. Begun(x, t) = Begun(e, t)
  BY DEF SameBegun, Begun
<1> QED BY <1>1, BegunType

LEMMA CancelPendingDrains ==
  ASSUME NEW e \in EngineType, NEW D PROVE Drains(e, CancelPending(e, D))
<1> SUFFICES ASSUME NEW t \in Targets PROVE Begun(CancelPending(e, D), t) <= Begun(e, t)
  BY DEF Drains
<1> DEFINE c == CancelPending(e, D)
<1>1. /\ c.callOn = e.callOn /\ c.forced = e.forced
      /\ c.parked = IF Delay THEN e.parked \ D ELSE e.parked
      /\ c.lost = [s \in Targets |-> IF Delay /\ s \in D /\ s \in e.parked
                                     THEN e.lost[s] + 1 ELSE e.lost[s]]
  BY DEF CancelPending, EngineType
<1>2. e.lost[t] \in Nat
  BY DEF EngineType
<1> HIDE DEF c
<1>3. c.lost[t] = IF Delay /\ t \in D /\ t \in e.parked THEN e.lost[t] + 1 ELSE e.lost[t]
  BY <1>1
<1>4. CASE Delay /\ t \in D /\ t \in e.parked
  <2>1. t \notin c.parked /\ c.lost[t] = e.lost[t] + 1
    BY <1>1, <1>3, <1>4
  <2> QED BY <1>1, <1>2, <1>4, <2>1 DEF Begun, c
<1>5. CASE ~(Delay /\ t \in D /\ t \in e.parked)
  <2>1. c.lost[t] = e.lost[t] /\ (t \in c.parked <=> t \in e.parked)
    BY <1>1, <1>3, <1>5
  <2> QED BY <1>1, <1>2, <2>1 DEF Begun, c
<1> QED BY <1>4, <1>5

LEMMA IdleDrains ==
  ASSUME NEW e, Sound(e) PROVE Drains(e, Idle(e))
<1> DEFINE c == CancelPending(e, Targets)
           x == [c EXCEPT !.coolTimer = [t \in Targets |-> FALSE], !.status = IdleStatus(e)]
           p == [e EXCEPT !.status = IdleStatus(e)]
<1>1. Idle(e) = IF Inactive(e) THEN x ELSE p
  BY DEF Idle
<1>2. c \in EngineType /\ e \in EngineType
  BY CancelPendingSound DEF Sound
<1>3. SameBegun(e, p)
  BY DEF SameBegun, Sound, EngineType
<1>4. Drains(e, c)
  BY <1>2, CancelPendingDrains
<1> HIDE DEF c, p
<1>5. SameBegun(c, x)
  BY <1>2 DEF SameBegun, EngineType
<1> HIDE DEF x
<1>6. Idle(e) \in EngineType
  BY IdleSound DEF Sound
<1>7. CASE Inactive(e)
  BY <1>1, <1>2, <1>4, <1>5, <1>6, <1>7, SameDrains, DrainsChain
<1>8. CASE ~Inactive(e)
  BY <1>1, <1>2, <1>3, <1>8, SameDrains
<1> QED BY <1>7, <1>8

LEMMA EndTaskDrains ==
  ASSUME NEW e, Sound(e), NEW t \in Targets, NEW own PROVE Drains(e, EndTask(e, t, own))
<1> DEFINE due == [e EXCEPT !.due[t] = TRUE]
           popped == [e EXCEPT !.pend[t] = "none"]
<1>1. SameBegun(e, due) /\ SameBegun(e, popped) /\ SameBegun(e, e)
  BY DEF SameBegun, Sound, EngineType
<1>2. Sound(popped)
  BY DEF Sound, Capped, Watched, EngineType
<1>3. EndTask(e, t, own) \in {due, Idle(popped), e}
  BY DEF EndTask
<1> HIDE DEF due, popped
<1>4. /\ e \in EngineType /\ popped \in EngineType /\ Idle(popped) \in EngineType
      /\ Drains(e, popped) /\ Drains(popped, Idle(popped))
  BY <1>1, <1>2, SameDrains, IdleDrains, IdleSound DEF Sound
<1>5. Drains(e, Idle(popped)) /\ Drains(e, e) /\ Drains(e, due)
  BY <1>1, <1>4, DrainsChain, SameDrains
<1> QED BY <1>3, <1>5

LEMMA LoopProtectionDrains ==
  ASSUME NEW e, Sound(e)
  PROVE  Drains(e, LoopProtection(e)) /\ LoopProtection(e).callOn = e.callOn
<1> DEFINE hit == [e EXCEPT !.sup = "active"]
           paused == ScheduleSuppressionTimer(hit)
           c == CancelPending(paused, Targets)
<1>1. hit \in EngineType /\ Capped(hit) /\ SameBegun(e, hit)
  BY DEF Sound, Capped, EngineType, SameBegun
<1> HIDE DEF hit
<1>2. Sound(paused) /\ paused \in EngineType /\ SameBegun(hit, paused)
  <2>1. SameBegun(hit, paused)
    BY <1>1 DEF SameBegun, ScheduleSuppressionTimer, EngineType
  <2> QED BY <1>1, <2>1, ScheduleSuppressionTimerSound DEF Sound
<1>3. SameBegun(e, paused)
  BY <1>1, <1>2 DEF SameBegun
<1> HIDE DEF paused
<1>4. c \in EngineType /\ Drains(paused, c)
  BY <1>2, CancelPendingSound, CancelPendingDrains DEF Sound
<1>4a. c.callOn = paused.callOn
  BY <1>2 DEF CancelPending, EngineType
<1>5. LoopProtection(e) = [c EXCEPT !.status = "suppressed"]
  BY DEF LoopProtection, c, paused, hit
<1> HIDE DEF c
<1>6. SameBegun(c, LoopProtection(e)) /\ LoopProtection(e) \in EngineType
  BY <1>4, <1>5, LoopProtectionSound DEF SameBegun, EngineType, Sound
<1>7. e \in EngineType /\ Drains(e, paused)
  BY <1>3, SameDrains DEF Sound
<1>8. Drains(e, c)
  BY <1>2, <1>4, <1>7, DrainsChain
<1>9. Drains(c, LoopProtection(e))
  BY <1>4, <1>6, SameDrains
<1> QED BY <1>3, <1>4, <1>4a, <1>6, <1>7, <1>8, <1>9, DrainsChain DEF SameBegun

LEMMA ReplaceTasksDrains ==
  ASSUME NEW e \in EngineType, NEW S PROVE Drains(e, ReplaceTasks(e, S))
<1> SUFFICES ASSUME NEW t \in Targets PROVE Begun(ReplaceTasks(e, S), t) <= Begun(e, t)
  BY DEF Drains
<1> DEFINE r == ReplaceTasks(e, S)
<1>1. /\ r.lost = e.lost /\ r.callOn = e.callOn /\ r.forced = e.forced
      /\ r.parked \subseteq e.parked
  BY DEF ReplaceTasks, EngineType
<1>2. e.lost[t] \in Nat
  BY DEF EngineType
<1> HIDE DEF r
<1>3. CASE t \in r.parked
  BY <1>1, <1>2, <1>3 DEF Begun, r
<1>4. CASE t \notin r.parked
  BY <1>1, <1>2, <1>4 DEF Begun, r
<1> QED BY <1>3, <1>4

LEMMA StartedBegun ==
  ASSUME NEW e \in EngineType, NEW S PROVE SameBegun(e, Started(e, S))
BY DEF SameBegun, Started, EngineType

\* The lock's next holder either begins its call, or backs off and begins nothing.
LEMMA EnterBegins ==
  ASSUME NEW e, Sound(e), NEW t \in Targets, NEW own \in BOOLEAN, NEW x, x = Enter(e, t, own)
  PROVE  \/ Drains(e, x) /\ x.callOn = e.callOn /\ (dev'[t] = "skip" \/ x.sup = "active")
         \/ /\ x.callOn = t /\ x.parked = e.parked /\ x.lost = e.lost
            /\ x.pend = e.pend /\ x.sup = e.sup
<1> e \in EngineType
  BY DEF Sound
<1>1. CASE RateLimited(e)
  <2> DEFINE p == LoopProtection(e)
  <2>1. Sound(p) /\ p \in EngineType /\ Drains(e, p) /\ p.callOn = e.callOn
    BY LoopProtectionSound, LoopProtectionDrains DEF Sound
  <2>2. x = EndTask(p, t, FALSE)
    BY <1>1 DEF Enter
  <2>3. x.sup = "active"
    BY <1>1, EnterSteady
  <2> HIDE DEF p
  <2>4. Drains(p, x) /\ x \in EngineType
    BY <2>1, <2>2, EndTaskDrains, EndTaskSound DEF Sound
  <2>5. x.callOn = p.callOn
    BY <2>1, <2>2 DEF EndTask, EngineType
  <2> QED BY <2>1, <2>3, <2>4, <2>5, DrainsChain
<1>2. CASE ~RateLimited(e) /\ dev'[t] = "skip"
  <2> DEFINE p == [e EXCEPT !.status = ArmedOrCooldown(e)]
             popped == [p EXCEPT !.pend[t] = "none"]
  <2>1. Sound(p) /\ p \in EngineType /\ p.callOn = e.callOn /\ SameBegun(e, p)
    BY StatusType, StatusSound DEF Sound, EngineType, SameBegun
  <2>2. x = EndTask(p, t, own)
    BY <1>2 DEF Enter
  <2> HIDE DEF p
  <2>3. Drains(p, x) /\ x \in EngineType
    BY <2>1, <2>2, EndTaskDrains, EndTaskSound DEF Sound
  <2>4. popped \in EngineType /\ popped.callOn = p.callOn
    BY <2>1 DEF EngineType
  <2> HIDE DEF popped
  <2>5. Idle(popped).callOn = popped.callOn
    BY <2>4 DEF Idle, CancelPending, EngineType
  <2>6. x.callOn = p.callOn
    <3>1. [p EXCEPT !.due[t] = TRUE].callOn = p.callOn
      BY <2>1 DEF EngineType
    <3>2. x \in {[p EXCEPT !.due[t] = TRUE], Idle(popped), p}
      BY <2>2 DEF EndTask, popped
    <3> QED BY <2>4, <2>5, <3>1, <3>2
  <2>7. Drains(e, x)
    BY <2>1, <2>3, SameDrains, DrainsChain
  <2> QED BY <1>2, <2>1, <2>6, <2>7
<1>3. CASE ~RateLimited(e) /\ dev'[t] # "skip"
  <2> DEFINE y == [e EXCEPT !.callOn = t, !.callOwn = own, !.forced = FALSE,
                            !.unpainted = FALSE, !.wasErr = (e.status = "error"), !.status = "enforcing"]
  <2>1. /\ y.callOn = t /\ (y.callOwn <=> own) /\ y.parked = e.parked /\ y.lost = e.lost
        /\ y.pend = e.pend /\ y.sup = e.sup
    BY DEF EngineType
  <2>2. x = y
    BY <1>3 DEF Enter
  <2> HIDE DEF y
  <2> QED BY <2>1, <2>2
<1> QED BY <1>1, <1>2, <1>3

LEMMA OwnerEnterBegins ==
  ASSUME NEW e, Sound(e), NEW t \in Targets, NEW x, x = Enter(e, t, TRUE)
  PROVE  \/ Drains(e, x) /\ x.callOn = e.callOn
         \/ x.callOn = t /\ x.sup = e.sup
<1> DEFINE own == TRUE
<1>1. own \in BOOLEAN /\ x = Enter(e, t, own)
  OBVIOUS
<1> HIDE DEF own
<1> QED BY ONLY <1>1, Sound(e), t \in Targets, EnterBegins

LEMMA OwnerEnterStops ==
  ASSUME NEW e, Sound(e), NEW t \in Targets, NEW x, x = Enter(e, t, TRUE), dev'[t] = "bad"
  PROVE  x.sup = "active" \/ x.callOn = t
<1> DEFINE own == TRUE
<1>1. own \in BOOLEAN /\ x = Enter(e, t, own)
  OBVIOUS
<1> HIDE DEF own
<1>2. (dev'[t] = "skip" \/ x.sup = "active") \/ x.callOn = t
  BY ONLY <1>1, Sound(e), t \in Targets, EnterBegins
<1> QED BY <1>2

LEMMA LicensedSteady ==
  ASSUME NEW e, NEW x, Licensed(e), Steady(e, x), x.sup # "active" PROVE Licensed(x)
BY DEF Licensed, Steady

LEMMA EvaluateDelayedDrains ==
  ASSUME NEW e, Sound(e), NEW S \in SUBSET Targets, NEW x \in EvaluateDelayed(e, S)
  PROVE  Drains(e, x)
<1> DEFINE base  == CancelPending(e, Acting(e, S) \cup Quiet(S))
           pend  == [t \in Targets |-> IF t \in Acting(e, S) THEN "armed" ELSE base.pend[t]]
           armed == [base EXCEPT !.pend = pend]
<1>1. PICK st \in Left(armed, S) : x = [armed EXCEPT !.status = st]
  BY DEF EvaluateDelayed
<1>2. base \in EngineType /\ e \in EngineType /\ x \in EngineType
  BY CancelPendingSound, EvaluateDelayedSound DEF Sound
<1>3. Drains(e, base)
  BY <1>2, CancelPendingDrains
<1> HIDE DEF base
<1>4. SameBegun(base, x)
  <2> HIDE DEF pend
  <2> QED BY <1>1, <1>2 DEF SameBegun, EngineType
<1> QED BY <1>2, <1>3, <1>4, SameDrains, DrainsChain

LEMMA FirstEntersBegins ==
  ASSUME NEW e, Sound(e), Licensed(e), e.callOn = NoTarget, NEW S \in SUBSET Targets,
         NEW t \in Targets, NEW x \in FirstEnters(e, t, S)
  PROVE  Drains(e, x) \/ Licensed(x)
<1> DEFINE in == Enter(e, t, TRUE)
<1>1. \/ Drains(e, in) /\ in.callOn = e.callOn
      \/ in.callOn = t /\ in.sup = e.sup
  <2>1. in = Enter(e, t, TRUE)
    OBVIOUS
  <2> HIDE DEF in
  <2> QED BY <2>1, OwnerEnterBegins
<1>2. Steady(e, x) /\ in \in EngineType /\ Steady(e, in)
  BY FirstEntersSteady, EnterSound, EnterSteady DEF Sound
<1>3. ASSUME NEW st, x = [in EXCEPT !.parked = Acting(e, S) \ {t}, !.status = st],
             in.callOn = t
      PROVE  Licensed(x)
  <2>1. in.sup = e.sup
    BY <1>1, <1>3, TargetsAssumption
  <2> HIDE DEF in
  <2>2. x.sup = e.sup
    BY <1>2, <1>3, <2>1 DEF EngineType
  <2> QED BY <1>2, <2>2, LicensedSteady DEF Licensed
<1>4. x \in IF in.callOn = t
            THEN {[in EXCEPT !.parked = Acting(e, S) \ {t}, !.status = st] :
                     st \in Painted(e, S) \cup {"enforcing"}}
            ELSE {in}
  BY DEF FirstEnters
<1> HIDE DEF in
<1>5. CASE in.callOn = t
  BY <1>3, <1>4, <1>5
<1>6. CASE in.callOn # t
  BY <1>1, <1>4, <1>6
<1> QED BY <1>5, <1>6

LEMMA EvaluateNowBegins ==
  ASSUME NEW e, Sound(e), Licensed(e), NEW S \in SUBSET Targets, NEW x \in EvaluateNow(e, S)
  PROVE  Drains(e, x) \/ Licensed(x)
<1> DEFINE base == CancelPending(e, Quiet(S))
           first(t, st) == FirstEnters([base EXCEPT !.status = st], t, S)
           queued(st) == [base EXCEPT !.parked = @ \cup Acting(e, S), !.status = st]
           before == Painted(base, S) \cup {base.status}
<1>1. Sound(base) /\ base \in EngineType /\ Steady(e, base) /\ e \in EngineType
  BY CancelPendingSound, SimpleSteady DEF Sound
<1>2. Drains(e, base)
  BY <1>1, CancelPendingDrains
<1>3. Licensed(base)
  <2>1. base.sup = e.sup
    BY DEF CancelPending, Sound, EngineType
  <2> QED BY <1>1, <2>1, LicensedSteady DEF Licensed
<1>4. Acting(e, S) \in SUBSET Targets
  BY DEF Acting
<1>5. ASSUME NEW st \in before, NEW t \in Acting(e, S), x \in first(t, st), LockIdle(base)
      PROVE  Drains(e, x) \/ Licensed(x)
  <2> DEFINE b == [base EXCEPT !.status = st]
  <2>1. st \in Status
    BY <1>1, PaintedStatus DEF EngineType
  <2> HIDE DEF base
  <2>2. Sound(b) /\ b \in EngineType /\ SameBegun(base, b) /\ Licensed(b)
    <3>1. SameBegun(base, b) /\ Licensed(b)
      BY <1>1, <1>3 DEF SameBegun, Licensed, EngineType
    <3> QED BY <1>1, <2>1, <3>1, StatusSound DEF Sound
  <2>3. b.callOn = NoTarget
    BY <1>5, <2>2 DEF LockIdle, SameBegun
  <2>4. x \in FirstEnters(b, t, S)
    BY <1>5
  <2> HIDE DEF b
  <2>5. Drains(b, x) \/ Licensed(x)
    BY <1>4, <2>2, <2>3, <2>4, FirstEntersBegins
  <2>6. x \in EngineType
    BY <1>4, <2>2, <2>4, FirstEntersSound DEF Sound
  <2>7. Drains(e, b)
    BY <1>1, <1>2, <2>2, SameDrains, DrainsChain
  <2> QED BY <1>1, <2>2, <2>5, <2>6, <2>7, DrainsChain
<1>6. ASSUME NEW st, x = queued(st) PROVE Licensed(x)
  <2> HIDE DEF base
  <2> QED BY <1>1, <1>3, <1>6 DEF Licensed, EngineType
<1>7. x \in IF LockIdle(base) /\ Acting(e, S) # {}
            THEN UNION {UNION {first(t, st) : st \in before} : t \in Acting(e, S)}
            ELSE {queued(st) : st \in Left(base, S)}
  BY Zenon DEF EvaluateNow
<1> HIDE DEF first, queued, before
<1> QED BY <1>5, <1>6, <1>7

LEMMA EvaluateLiveBegins ==
  ASSUME NEW e, Sound(e), Licensed(e), NEW S \in SUBSET Targets, NEW x \in EvaluateLive(e, S)
  PROVE  Drains(e, x) \/ Licensed(x)
BY EvaluateDelayedDrains, EvaluateNowBegins DEF EvaluateLive

LEMMA ClearedDrains ==
  ASSUME NEW e, Sound(e), NEW c, c = IF e.sup = "elapsed" THEN ClearSuppression(e) ELSE e
  PROVE  Sound(c) /\ c \in EngineType /\ Drains(e, c)
         /\ (e.sup # "active" => c.sup # "active")
<1>1. Sound(c) /\ c \in EngineType
  BY ClearSuppressionSound DEF Sound
<1>2. SameBegun(e, c) /\ (e.sup # "active" => c.sup # "active")
  BY DEF SameBegun, ClearSuppression, Sound, EngineType
<1> QED BY <1>1, <1>2, SameDrains DEF Sound

\* A flag that does not match cancels what is pending.
LEMMA GatedDrains ==
  ASSUME NEW c, Sound(c), NEW x, x = [CancelPending(c, Targets) EXCEPT !.status = "conditional"]
  PROVE  Drains(c, x) /\ x \in EngineType
<1>1. Sound(CancelPending(c, Targets)) /\ Drains(c, CancelPending(c, Targets))
  BY CancelPendingSound, CancelPendingDrains DEF Sound
<1> DEFINE p == CancelPending(c, Targets)
<1> HIDE DEF p
<1>2. "conditional" \in Status
  BY DEF Status
<1>3. SameBegun(p, x) /\ x \in EngineType
  BY <1>1, <1>2 DEF p, SameBegun, Sound, EngineType
<1> QED BY <1>1, <1>3, SameDrains, DrainsChain DEF p, Sound

LEMMA StatusBegun ==
  ASSUME NEW e \in EngineType, NEW st PROVE SameBegun(e, [e EXCEPT !.status = st])
BY DEF SameBegun, EngineType

LEMMA EvaluateBegins ==
  ASSUME NEW e, Sound(e), e.loaded, NEW S \in SUBSET Targets, NEW x \in Evaluate(e, S)
  PROVE  Drains(e, x) \/ Licensed(x)
<1> DEFINE all == Evaluated(e, S)
           r   == ReplaceTasks(e, all)
           c   == IF r.sup = "elapsed" THEN ClearSuppression(r) ELSE r
           held == [r EXCEPT !.status = "suppressed"]
           gated == [CancelPending(c, Targets) EXCEPT !.status = "conditional"]
<1>1. PICK o \in IF Inactive(r) THEN {Idle(r)}
                 ELSE IF ~r.started THEN {r}
                 ELSE IF r.sup = "active" THEN {held}
                 ELSE IF ~flag' THEN {gated}
                 ELSE EvaluateLive(c, all) : x = Started(o, all)
  BY DEF Evaluate
<1>2. Sound(r) /\ r \in EngineType /\ Steady(e, r) /\ e \in EngineType /\ Drains(e, r)
  BY ReplaceTasksSound, ReplaceTasksDrains, SimpleSteady DEF Sound
<1> HIDE DEF r
<1>3. Sound(c) /\ Steady(r, c) /\ c \in EngineType /\ Drains(r, c)
      /\ (r.sup # "active" => c.sup # "active")
  BY <1>2, ClearedDrains, ClearedSteady
<1>4. all \in SUBSET Targets
  BY EvaluatedTargets
<1> HIDE DEF c, all
<1>5. "suppressed" \in Status
  BY DEF Status
<1>6. /\ Idle(r) \in EngineType /\ Drains(r, Idle(r))
      /\ held \in EngineType /\ Drains(r, held) /\ Drains(r, r)
  BY <1>2, <1>5, IdleSound, IdleDrains, StatusSound, StatusBegun, SameDrains DEF Sound, SameBegun
<1>7. gated \in EngineType /\ Drains(r, gated)
  BY <1>2, <1>3, GatedDrains, DrainsChain
<1> HIDE DEF held, gated
<1>8. ASSUME ~Inactive(r), r.started, r.sup # "active", flag', NEW y \in EvaluateLive(c, all)
      PROVE  y \in EngineType /\ (Drains(r, y) \/ Licensed(y))
  <2>1. Licensed(c)
    BY <1>2, <1>3, <1>8 DEF Licensed, Steady, Inactive
  <2>2. y \in EngineType /\ (Drains(c, y) \/ Licensed(y))
    BY <1>3, <1>4, <1>8, <2>1, EvaluateLiveBegins, EvaluateLiveSound DEF Sound
  <2> QED BY <1>2, <1>3, <2>2, DrainsChain
<1>9. o \in EngineType /\ (Drains(r, o) \/ Licensed(o))
  BY <1>1, <1>2, <1>6, <1>7, <1>8
<1>10. SameBegun(o, x) /\ Steady(o, x) /\ x.sup = o.sup /\ x \in EngineType
  <2>1. SameBegun(o, x) /\ Steady(o, x)
    BY <1>1, <1>9, StartedBegun, SimpleSteady
  <2>2. x.sup = o.sup
    BY <1>1, <1>9 DEF Started, EngineType
  <2>3. x \in EngineType
    BY EvaluateSound DEF Sound
  <2> QED BY <2>1, <2>2, <2>3
<1>11. Licensed(o) => Licensed(x)
  BY <1>10, LicensedSteady DEF Licensed
<1>12. Drains(r, o) => Drains(e, x)
  BY <1>2, <1>9, <1>10, SameDrains, DrainsChain
<1> QED BY <1>9, <1>11, <1>12

LEMMA SweepBegins ==
  ASSUME NEW e, Sound(e), e.loaded, NEW x \in Sweep(e) PROVE Drains(e, x) \/ Licensed(x)
<1>1. Drains(e, e)
  BY SameDrains DEF SameBegun, Sound
<1> QED BY <1>1, EvaluateBegins DEF Sweep

LEMMA EvaluateFlagBegins ==
  ASSUME NEW e, Sound(e), e.loaded, NEW x \in EvaluateFlag(e)
  PROVE  Drains(e, x) \/ Licensed(x)
<1> DEFINE c == IF e.sup = "elapsed" THEN ClearSuppression(e) ELSE e
           met == [c EXCEPT !.status = ArmedOrCooldown(c)]
           violating == {t \in Targets : dev'[t] = "bad"}
           gated == [CancelPending(c, Targets) EXCEPT !.status = "conditional"]
           held == [e EXCEPT !.status = "suppressed"]
<1>1. Sound(c) /\ Steady(e, c) /\ c \in EngineType /\ e \in EngineType /\ Drains(e, c)
  BY ClearedDrains, ClearedSteady DEF Sound
<1> HIDE DEF c
<1>2. Sound(met) /\ Steady(c, met) /\ SameBegun(c, met) /\ met \in EngineType
  BY <1>1, StatusType, StatusSound, SimpleSteady, StatusBegun DEF Sound
<1>3. gated \in EngineType /\ Drains(e, gated)
  BY <1>1, GatedDrains, DrainsChain
<1>4. x \in IF Inactive(e) THEN {Idle(e)}
            ELSE IF e.sup = "active" THEN {held}
            ELSE IF ~flag' THEN {gated}
            ELSE IF violating = {} THEN {met} ELSE Evaluate(met, violating)
  BY DEF EvaluateFlag, c, met
<1>5. Drains(e, Idle(e)) /\ Drains(e, held)
  BY <1>1, IdleDrains, StatusBegun, SameDrains
<1> HIDE DEF met, gated, held
<1>6. Drains(e, met)
  BY <1>1, <1>2, SameDrains, DrainsChain
<1>7. \A y \in Evaluate(met, violating) : Drains(e, y) \/ Licensed(y)
  <2> SUFFICES ASSUME NEW y \in Evaluate(met, violating) PROVE Drains(e, y) \/ Licensed(y)
    OBVIOUS
  <2>1. met.loaded
    BY <1>1, <1>2 DEF Steady
  <2>2. Drains(met, y) \/ Licensed(y)
    BY <1>2, <2>1, EvaluateBegins
  <2>3. y \in EngineType
    BY <1>2, EvaluateSound DEF Sound
  <2> QED BY <1>1, <1>2, <1>6, <2>2, <2>3, DrainsChain
<1> QED BY <1>3, <1>4, <1>5, <1>6, <1>7

LEMMA EvaluateSourceBegins ==
  ASSUME NEW e, Sound(e), e.loaded, NEW x \in EvaluateSource(e)
  PROVE  Drains(e, x) \/ Licensed(x)
<1> DEFINE c == IF e.sup = "elapsed" THEN ClearSuppression(e) ELSE e
           met == [c EXCEPT !.status = ArmedOrCooldown(c)]
           gated == [CancelPending(c, Targets) EXCEPT !.status = "conditional"]
           held == [e EXCEPT !.status = "suppressed"]
<1>1. Sound(c) /\ Steady(e, c) /\ c \in EngineType /\ e \in EngineType /\ Drains(e, c)
  BY ClearedDrains, ClearedSteady DEF Sound
<1> HIDE DEF c
<1>2. Sound(met) /\ Steady(c, met) /\ SameBegun(c, met) /\ met \in EngineType
  BY <1>1, StatusType, StatusSound, SimpleSteady, StatusBegun DEF Sound
<1>3. gated \in EngineType /\ Drains(e, gated)
  BY <1>1, GatedDrains, DrainsChain
<1>4. x \in IF Inactive(e) THEN {Idle(e)}
            ELSE IF ~e.started THEN {e}
            ELSE IF e.sup = "active" THEN {held}
            ELSE IF ~flag' THEN {gated}
            ELSE Evaluate(met, Targets)
  BY DEF EvaluateSource, c, met
<1>5. Drains(e, Idle(e)) /\ Drains(e, held) /\ Drains(e, e)
  BY <1>1, IdleDrains, StatusBegun, SameDrains DEF SameBegun
<1> HIDE DEF met, gated, held
<1>6. Drains(e, met)
  BY <1>1, <1>2, SameDrains, DrainsChain
<1>7. \A y \in Evaluate(met, Targets) : Drains(e, y) \/ Licensed(y)
  <2> SUFFICES ASSUME NEW y \in Evaluate(met, Targets) PROVE Drains(e, y) \/ Licensed(y)
    OBVIOUS
  <2>1. met.loaded
    BY <1>1, <1>2 DEF Steady
  <2>2. Drains(met, y) \/ Licensed(y)
    BY <1>2, <2>1, EvaluateBegins
  <2>3. y \in EngineType
    BY <1>2, EvaluateSound DEF Sound
  <2> QED BY <1>1, <1>2, <1>6, <2>2, <2>3, DrainsChain
<1> QED BY <1>3, <1>4, <1>5, <1>7

\* What resumes a rule repaints it and sweeps its targets.
LEMMA ResumeBegins ==
  ASSUME NEW e, NEW y, e \in EngineType, SameBegun(e, y), Sound(y), y.loaded,
         NEW x \in Sweep(Idle(y))
  PROVE  Drains(e, x) \/ Licensed(x)
<1>1. Sound(Idle(y)) /\ Steady(y, Idle(y)) /\ Drains(y, Idle(y)) /\ y \in EngineType
      /\ Idle(y) \in EngineType
  BY IdleSound, IdleSteady, IdleDrains DEF Sound
<1>2. Drains(Idle(y), x) \/ Licensed(x)
  BY <1>1, SweepBegins DEF Steady
<1>3. x \in EngineType
  BY <1>1, SweepSound DEF Sound
<1>4. Drains(e, Idle(y))
  BY <1>1, SameDrains, DrainsChain
<1> QED BY <1>1, <1>2, <1>3, <1>4, DrainsChain

\* A switch repaints, re-arms the broadcasts that the repaint calls for, and sweeps.
LEMMA SwitchBegins ==
  ASSUME NEW e \in EngineType, NEW y, SameBegun(e, y), Sound(y), y.loaded, NEW on \in BOOLEAN,
         NEW x \in Sweep(IF on /\ Idle(y).status = "cooldown"
                         THEN RearmCooldownBroadcasts(Idle(y)) ELSE Idle(y))
  PROVE  Drains(e, x) \/ Licensed(x)
<1> DEFINE idle == Idle(y)
           r == IF on /\ idle.status = "cooldown" THEN RearmCooldownBroadcasts(idle) ELSE idle
<1>1. /\ Sound(idle) /\ Steady(y, idle) /\ Drains(y, idle) /\ y \in EngineType
      /\ idle \in EngineType
  BY IdleSound, IdleSteady, IdleDrains DEF Sound
<1>2. Drains(e, idle) /\ idle.loaded
  BY <1>1, SameDrains, DrainsChain DEF Steady
<1>3. x \in Sweep(r)
  OBVIOUS
<1> HIDE DEF idle
<1>4. Sound(r) /\ r.loaded /\ SameBegun(idle, r)
  <2>1. LET a == RearmCooldownBroadcasts(idle)
        IN  Sound(a) /\ a.loaded = idle.loaded /\ SameBegun(idle, a)
    BY <1>1, RearmCooldownBroadcastsSound DEF RearmCooldownBroadcasts, SameBegun, EngineType
  <2> QED BY <1>1, <1>2, <2>1 DEF SameBegun
<1> HIDE DEF r
<1>5. Drains(r, x) \/ Licensed(x)
  BY <1>3, <1>4, SweepBegins
<1>6. x \in EngineType /\ r \in EngineType
  BY <1>3, <1>4, SweepSound DEF Sound
<1>7. Drains(e, r)
  BY <1>1, <1>2, <1>4, <1>6, SameDrains, DrainsChain
<1> QED BY <1>5, <1>6, <1>7, DrainsChain

LEMMA OperationsBegin ==
  ASSUME IInv, Operations PROVE Drains(eng, eng') \/ Licensed(eng')
<1> Sound(eng) /\ eng \in EngineType
  BY DEF IInv, Sound
<1> SameBegun(eng, eng) /\ Drains(eng, eng)
  BY SameDrains DEF SameBegun
<1>1. ASSUME NEW on \in BOOLEAN, MasterSet(on) PROVE Drains(eng, eng') \/ Licensed(eng')
  <2>1. eng' \in IF eng.loaded
                 THEN Sweep(IF on /\ Idle(eng).status = "cooldown"
                            THEN RearmCooldownBroadcasts(Idle(eng)) ELSE Idle(eng))
                 ELSE {eng}
    BY <1>1, Zenon DEF MasterSet
  <2> QED BY <2>1, SwitchBegins
<1>2. ASSUME NEW on \in BOOLEAN, SetEnabled(on) PROVE Drains(eng, eng') \/ Licensed(eng')
  <2> DEFINE e    == [eng EXCEPT !.enabled = on]
             kept == IF e.sup = "elapsed" THEN ClearSuppression(e) ELSE e
             sched == ScheduleSuppressionTimer(kept)
             idle == Idle(sched)
             off  == [e EXCEPT !.supTimer = FALSE]
  <2>1. eng.loaded /\ eng' \in IF on THEN Sweep(IF idle.status = "cooldown"
                                  THEN RearmCooldownBroadcasts(idle) ELSE idle)
                               ELSE {Idle(off)}
    BY <1>2, Zenon DEF SetEnabled
  <2>2. e \in EngineType /\ Capped(e) /\ SameBegun(eng, e) /\ e.loaded = eng.loaded
    BY DEF Sound, Capped, EngineType, SameBegun
  <2>2a. ~on => Sound(off) /\ SameBegun(eng, off)
    BY DEF Sound, Capped, Watched, EngineType, SameBegun
  <2> HIDE DEF e, off
  <2>3. kept \in EngineType /\ Capped(kept) /\ SameBegun(e, kept) /\ kept.loaded = e.loaded
    <3>1. LET k == ClearSuppression(e) IN SameBegun(e, k) /\ k.loaded = e.loaded
      BY <2>2 DEF ClearSuppression, SameBegun, EngineType
    <3> QED BY <2>2, <3>1, ClearSuppressionSound DEF Sound, SameBegun
  <2> HIDE DEF kept
  <2>4. Sound(sched) /\ SameBegun(kept, sched) /\ sched.loaded = kept.loaded
    <3>1. SameBegun(kept, sched) /\ sched.loaded = kept.loaded
      BY <2>3 DEF ScheduleSuppressionTimer, SameBegun, EngineType
    <3> QED BY <2>3, <3>1, ScheduleSuppressionTimerSound
  <2> HIDE DEF sched
  <2>5. SameBegun(eng, sched)
    BY <2>2, <2>3, <2>4 DEF SameBegun
  <2>6. CASE on
    <3>1. eng' \in Sweep(IF TRUE /\ Idle(sched).status = "cooldown"
                         THEN RearmCooldownBroadcasts(Idle(sched)) ELSE Idle(sched))
      BY <2>1, <2>6
    <3> QED BY <2>1, <2>2, <2>3, <2>4, <2>5, <3>1, SwitchBegins
  <2>7. CASE ~on
    <3>1. Sound(off) /\ off \in EngineType /\ Drains(eng, off) /\ Idle(off) \in EngineType
      BY <2>2a, <2>7, SameDrains, IdleSound DEF Sound
    <3> QED BY <2>1, <2>7, <3>1, IdleDrains, DrainsChain
  <2> QED BY <2>6, <2>7
<1>3. ASSUME Suppress PROVE Drains(eng, eng') \/ Licensed(eng')
  <2> DEFINE hit == [eng EXCEPT !.sup = "active"]
             sched == ScheduleSuppressionTimer(hit)
             e == CancelPending(sched, Targets)
  <2>1. hit \in EngineType /\ SameBegun(eng, hit) /\ Capped(hit)
    BY DEF Sound, Capped, EngineType, SameBegun
  <2> HIDE DEF hit
  <2>2. Sound(sched) /\ sched \in EngineType /\ SameBegun(hit, sched)
    <3>1. SameBegun(hit, sched)
      BY <2>1 DEF ScheduleSuppressionTimer, SameBegun, EngineType
    <3> QED BY <2>1, <3>1, ScheduleSuppressionTimerSound DEF Sound
  <2>3. Drains(eng, sched)
    BY <2>1, <2>2, SameDrains, DrainsChain
  <2> HIDE DEF sched
  <2>4. Sound(e) /\ e \in EngineType /\ Drains(eng, e)
    BY <2>2, <2>3, CancelPendingSound, CancelPendingDrains, DrainsChain DEF Sound
  <2>5. eng' = IF e.status = "error" THEN e ELSE Idle(e)
    BY <1>3 DEF Suppress, e, sched, hit
  <2> HIDE DEF e
  <2>6. Drains(eng, Idle(e))
    BY <2>4, IdleSound, IdleDrains, DrainsChain DEF Sound
  <2> QED BY <2>4, <2>5, <2>6
<1>4. ASSUME Unsuppress PROVE Drains(eng, eng') \/ Licensed(eng')
  <2> DEFINE y == ClearSuppression(eng)
  <2>1. Sound(y) /\ SameBegun(eng, y) /\ y.loaded = eng.loaded
    <3>1. SameBegun(eng, y) /\ y.loaded = eng.loaded
      BY DEF ClearSuppression, SameBegun, EngineType
    <3> QED BY <3>1, ClearSuppressionSound DEF Sound
  <2>2. eng.loaded /\ eng' \in Sweep(Idle(y))
    BY <1>4 DEF Unsuppress
  <2> HIDE DEF y
  <2> QED BY <2>1, <2>2, ResumeBegins
<1>5. ASSUME ResetCooldowns PROVE Drains(eng, eng') \/ Licensed(eng')
  <2> DEFINE s == ScheduleSuppressionTimer(eng)
             e == [s EXCEPT !.cool = [t \in Targets |-> FALSE],
                            !.coolTimer = [t \in Targets |-> FALSE],
                            !.succs = 0]
  <2>1. Sound(s) /\ SameBegun(eng, s)
    <3>1. SameBegun(eng, s)
      BY DEF ScheduleSuppressionTimer, SameBegun, EngineType
    <3> QED BY <3>1, ScheduleSuppressionTimerSound DEF Sound
  <2>2. eng' = Idle(e)
    BY <1>5 DEF ResetCooldowns
  <2> HIDE DEF s
  <2>3. Sound(e) /\ SameBegun(s, e)
    <3>1. SameBegun(s, e)
      BY <2>1 DEF Sound, EngineType, SameBegun
    <3> QED BY <2>1, <3>1, ResetSound
  <2> HIDE DEF e
  <2>4. e \in EngineType /\ Idle(e) \in EngineType /\ Drains(e, Idle(e)) /\ Drains(eng, e)
    BY <2>1, <2>3, IdleSound, IdleDrains, SameDrains DEF Sound, SameBegun
  <2> QED BY <2>2, <2>4, DrainsChain
<1>6. ASSUME ClearHistory PROVE Drains(eng, eng') \/ Licensed(eng')
  <2> DEFINE s == ScheduleSuppressionTimer(eng)
  <2>1. s \in EngineType
    BY ScheduleSuppressionTimerSound DEF Sound
  <2>2. SameBegun(eng, s)
    BY DEF ScheduleSuppressionTimer, SameBegun, EngineType
  <2>3. eng' = [s EXCEPT !.cool = [t \in Targets |-> FALSE],
                         !.coolTimer = [t \in Targets |-> FALSE],
                         !.window = 0, !.errs = 0, !.succs = 0, !.clearing = TRUE]
    BY <1>6 DEF ClearHistory
  <2> HIDE DEF s
  <2>4. SameBegun(s, eng')
    BY <2>1, <2>3 DEF SameBegun, EngineType
  <2> QED BY <2>2, <2>4, SameDrains DEF SameBegun
<1>7. ASSUME ClearHistoryRepaints PROVE Drains(eng, eng') \/ Licensed(eng')
  <2> DEFINE e == [eng EXCEPT !.clearing = FALSE,
                              !.status = IF @ = "error" THEN "starting" ELSE @]
  <2>1. Sound(e) /\ SameBegun(eng, e)
    <3>1. SameBegun(eng, e)
      BY DEF EngineType, SameBegun
    <3> QED BY <3>1, HistoryClearedSound
  <2>2. eng' = Idle(e)
    BY <1>7 DEF ClearHistoryRepaints
  <2> HIDE DEF e
  <2>3. e \in EngineType /\ Idle(e) \in EngineType /\ Drains(e, Idle(e)) /\ Drains(eng, e)
    BY <2>1, IdleSound, IdleDrains, SameDrains DEF Sound
  <2> QED BY <2>2, <2>3, DrainsChain
<1>8. ASSUME Unload PROVE Drains(eng, eng') \/ Licensed(eng')
  <2> DEFINE r == ReplaceTasks(eng, Targets)
             e == CancelPending(r, Targets)
  <2>1. Sound(r) /\ r \in EngineType /\ Drains(eng, r)
    BY ReplaceTasksSound, ReplaceTasksDrains DEF Sound
  <2> HIDE DEF r
  <2>2. e \in EngineType /\ Drains(eng, e)
    BY <2>1, CancelPendingSound, CancelPendingDrains, DrainsChain DEF Sound
  <2>3. eng' = [e EXCEPT !.loaded = FALSE, !.supTimer = FALSE,
                         !.coolTimer = [t \in Targets |-> FALSE]]
    BY <1>8 DEF Unload, r
  <2> HIDE DEF e
  <2>4. SameBegun(e, eng') /\ eng' \in EngineType
    BY <2>2, <2>3 DEF SameBegun, EngineType
  <2> QED BY <2>2, <2>4, SameDrains, DrainsChain
<1>9. ASSUME Press PROVE Drains(eng, eng') \/ Licensed(eng')
  <2>1. SameBegun(eng, eng')
    BY <1>9, PressLeaves DEF PassOnly, Kept, SameBegun
  <2> QED BY <2>1, SameDrains
<1> QED BY <1>1, <1>2, <1>3, <1>4, <1>5, <1>6, <1>7, <1>8, <1>9 DEF Operations

LEMMA CallbacksBegin ==
  ASSUME IInv, FlagMoves \/ SourceMoves \/ Clock \/ \E t \in Targets : DeviceMoves(t)
  PROVE  Drains(eng, eng') \/ Licensed(eng')
<1> Sound(eng) /\ eng \in EngineType
  BY DEF IInv, Sound
<1> SameBegun(eng, eng) /\ Drains(eng, eng)
  BY SameDrains DEF SameBegun
<1>1. ASSUME NEW t \in Targets, DeviceMoves(t) PROVE Drains(eng, eng') \/ Licensed(eng')
  BY <1>1, EvaluateBegins DEF DeviceMoves
<1>2. ASSUME FlagMoves PROVE Drains(eng, eng') \/ Licensed(eng')
  BY <1>2, EvaluateFlagBegins DEF FlagMoves
<1>3. ASSUME SourceMoves PROVE Drains(eng, eng') \/ Licensed(eng')
  BY <1>3, EvaluateSourceBegins DEF SourceMoves
<1>4. ASSUME GraceDone PROVE Drains(eng, eng') \/ Licensed(eng')
  <2> DEFINE y == [eng EXCEPT !.started = TRUE]
  <2>1. Sound(y) /\ SameBegun(eng, y) /\ y.loaded = eng.loaded
    BY DEF Sound, Capped, Watched, EngineType, SameBegun
  <2>2. eng.loaded /\ eng' \in Sweep(Idle(y))
    BY <1>4 DEF GraceDone
  <2> HIDE DEF y
  <2> QED BY <2>1, <2>2, ResumeBegins
<1>5. ASSUME Midnight PROVE Drains(eng, eng') \/ Licensed(eng')
  BY <1>5, IdleDrains DEF Midnight
<1>6. ASSUME SuppressionTimerFires PROVE Drains(eng, eng') \/ Licensed(eng')
  <2> DEFINE y == ClearSuppression(eng)
  <2>1. Sound(y) /\ SameBegun(eng, y) /\ y.loaded = eng.loaded
    <3>1. SameBegun(eng, y) /\ y.loaded = eng.loaded
      BY DEF ClearSuppression, SameBegun, EngineType
    <3> QED BY <3>1, ClearSuppressionSound DEF Sound
  <2>2. eng.loaded /\ eng' \in Sweep(Idle(y))
    BY <1>6 DEF SuppressionTimerFires, Sound, Watched
  <2> HIDE DEF y
  <2> QED BY <2>1, <2>2, ResumeBegins
<1>7. ASSUME SuppressionElapses \/ WindowAges \/ \E t \in Targets : CooldownElapses(t)
      PROVE  Drains(eng, eng') \/ Licensed(eng')
  <2>1. SameBegun(eng, eng')
    BY <1>7 DEF SuppressionElapses, WindowAges, CooldownElapses, SameBegun, EngineType
  <2> QED BY <2>1, SameDrains
<1>8. ASSUME NEW t \in Targets, CooldownTimerFires(t) PROVE Drains(eng, eng') \/ Licensed(eng')
  <2> DEFINE e == [eng EXCEPT !.coolTimer[t] = FALSE]
  <2>1. Sound(e) /\ SameBegun(eng, e)
    BY DEF Sound, Capped, Watched, EngineType, SameBegun
  <2>2. eng' = IF e.loaded THEN Idle(e) ELSE e
    BY <1>8 DEF CooldownTimerFires
  <2> HIDE DEF e
  <2>3. e \in EngineType /\ Idle(e) \in EngineType /\ Drains(e, Idle(e)) /\ Drains(eng, e)
    BY <2>1, IdleSound, IdleDrains, SameDrains DEF Sound
  <2> QED BY <2>2, <2>3, DrainsChain
<1> QED BY <1>1, <1>2, <1>3, <1>4, <1>5, <1>6, <1>7, <1>8 DEF Clock

LEMMA TasksBegin ==
  ASSUME IInv, CountdownJustified, Tasks PROVE Drains(eng, eng') \/ Licensed(eng')
<1> Sound(eng) /\ eng \in EngineType
  BY DEF IInv, Sound
<1>1. ASSUME NEW t \in Targets, DelayTimerFires(t) PROVE Drains(eng, eng') \/ Licensed(eng')
  <2> DEFINE dropped == [eng EXCEPT !.pend[t] = "none"]
             firing  == [eng EXCEPT !.pend[t] = "firing"]
             blocked == [dropped EXCEPT !.status = ArmedOrCooldown(dropped)]
             queued  == [firing EXCEPT !.parked = @ \cup {t}]
  <2>1. /\ eng' = IF Inactive(eng) THEN Idle(eng)
                  ELSE IF eng.sup = "active" THEN Idle(dropped)
                  ELSE IF dev[t] # "bad" \/ ~flag THEN blocked
                  ELSE Acquire(firing, t)
        /\ UNCHANGED World /\ eng.pend[t] = "armed"
    BY <1>1, Zenon DEF DelayTimerFires
  <2>2. Licensed(eng)
    BY <2>1 DEF CountdownJustified, MayAct, Licensed, World
  <2>3. /\ Sound(dropped) /\ SameBegun(eng, dropped)
        /\ Sound(firing) /\ SameBegun(eng, firing) /\ Steady(eng, firing) /\ firing.sup = eng.sup
    BY DEF Sound, Capped, Watched, EngineType, SameBegun, Steady
  <2> HIDE DEF dropped, firing
  <2>4. Licensed(firing)
    BY <2>2, <2>3, LicensedSteady DEF Licensed
  <2>5. Drains(eng, Idle(eng)) /\ Drains(eng, Idle(dropped)) /\ Drains(eng, blocked)
    <3>1. dropped \in EngineType /\ Idle(dropped) \in EngineType /\ Drains(eng, dropped)
          /\ Drains(dropped, Idle(dropped))
      BY <2>3, IdleSound, IdleDrains, SameDrains DEF Sound
    <3>2. SameBegun(eng, blocked)
      BY <2>3, <3>1, StatusBegun DEF SameBegun
    <3> QED BY <3>1, <3>2, IdleDrains, SameDrains, DrainsChain
  <2>6. Licensed(queued)
    BY <2>3, <2>4 DEF Licensed, Sound, EngineType
  <2>7. ASSUME NEW x, x = Enter(firing, t, TRUE), firing.callOn = NoTarget
        PROVE  Drains(eng, x) \/ Licensed(x)
    <3>1. Drains(firing, x) \/ x.sup = firing.sup
      <4>1. Sound(firing)
        BY <2>3
      <4> QED BY ONLY <2>7, <4>1, t \in Targets, EnterBegins
    <3>2. Steady(firing, x) /\ x \in EngineType /\ firing \in EngineType /\ Drains(eng, firing)
      BY <2>3, <2>7, EnterSteady, EnterSound, SameDrains DEF Sound
    <3>3. x.sup = firing.sup => Licensed(x)
      BY <2>4, <3>2, LicensedSteady DEF Licensed
    <3> QED BY <3>1, <3>2, <3>3, DrainsChain
  <2>8. \/ firing.callOn = NoTarget /\ Acquire(firing, t) = Enter(firing, t, TRUE)
        \/ Acquire(firing, t) = queued
    BY DEF Acquire, LockIdle
  <2> HIDE DEF blocked, queued
  <2> QED BY <2>1, <2>5, <2>6, <2>7, <2>8
\* A waiting enforcement of t that is granted the lock leaves the queue for the call.
<1>2. ASSUME NEW e, Sound(e), NEW t \in Targets, NEW own \in BOOLEAN, eng' = Enter(e, t, own),
             e.callOn = NoTarget, Drains(eng, e), Begun(e, t) + 1 <= Begun(eng, t)
      PROVE  Drains(eng, eng')
  <2>1. e \in EngineType /\ eng' \in EngineType
    BY <1>2, EnterSound DEF Sound
  <2>2. CASE Drains(e, eng')
    BY <1>2, <2>1, <2>2, DrainsChain
  <2>3. CASE eng'.callOn = t /\ eng'.parked = e.parked /\ eng'.lost = e.lost
    <3> SUFFICES ASSUME NEW s \in Targets PROVE Begun(eng', s) <= Begun(eng, s)
      BY DEF Drains
    <3>1. CASE s = t
      <4>1. Begun(eng', t) <= Begun(e, t) + 1
        <5>1. e.lost[t] \in Nat
          BY <2>1 DEF EngineType
        <5> QED BY <2>3, <5>1 DEF Begun
      <4> QED BY <1>2, <2>1, <3>1, <4>1, BegunType
    <3>2. CASE s # t
      <4>1. Begun(eng', s) <= Begun(e, s)
        <5>1. e.lost[s] \in Nat /\ e.callOn # s
          BY <1>2, <2>1, TargetsAssumption DEF EngineType
        <5> QED BY <2>3, <3>2, <5>1 DEF Begun
      <4>2. Begun(e, s) <= Begun(eng, s)
        BY <1>2 DEF Drains
      <4> QED BY <2>1, <4>1, <4>2, BegunType
    <3> QED BY <3>1, <3>2
  <2> QED BY <1>2, <2>2, <2>3, EnterBegins
<1>3. ASSUME NEW t \in Targets, OwnerGranted(t) PROVE Drains(eng, eng')
  <2> DEFINE e == [eng EXCEPT !.parked = @ \ {t}]
  <2>1. /\ Sound(e) /\ e.lost = eng.lost /\ e.callOn = eng.callOn /\ e.forced = eng.forced
        /\ e.parked = eng.parked \ {t}
    BY DEF Sound, Capped, Watched, EngineType
  <2>2. eng' = Enter(e, t, TRUE) /\ eng.callOn = NoTarget /\ t \in eng.parked
    BY <1>3 DEF OwnerGranted
  <2> HIDE DEF e
  <2>3. Begun(e, t) + 1 <= Begun(eng, t)
    <3>1. eng.lost[t] \in Nat
      BY DEF EngineType
    <3> QED BY <2>1, <2>2, <3>1 DEF Begun
  <2>4. Drains(eng, e)
    <3> SUFFICES ASSUME NEW s \in Targets PROVE Begun(e, s) <= Begun(eng, s)
      BY DEF Drains
    <3>1. eng.lost[s] \in Nat
      BY DEF EngineType
    <3>2. CASE s = t
      BY <2>1, <2>2, <3>1, <3>2 DEF Begun
    <3>3. CASE s # t
      BY <2>1, <3>1, <3>3 DEF Begun
    <3> QED BY <3>2, <3>3
  <2> QED BY <1>2, <2>1, <2>2, <2>3, <2>4
<1>4. ASSUME NEW t \in Targets, LostGranted(t) PROVE Drains(eng, eng')
  <2> DEFINE e == [eng EXCEPT !.lost[t] = @ - 1]
  <2>1. eng' = Enter(e, t, FALSE) /\ eng.callOn = NoTarget /\ eng.lost[t] > 0
    BY <1>4 DEF LostGranted
  <2>2. /\ Sound(e) /\ e.parked = eng.parked /\ e.callOn = eng.callOn
        /\ e.forced = eng.forced /\ e.lost = [eng.lost EXCEPT ![t] = @ - 1]
    BY <2>1 DEF Sound, Capped, Watched, EngineType
  <2> HIDE DEF e
  <2>3. eng.lost \in [Targets -> Nat]
    BY DEF EngineType
  <2>4. Begun(e, t) + 1 <= Begun(eng, t)
    BY <2>1, <2>2, <2>3 DEF Begun
  <2>5. Drains(eng, e)
    <3> SUFFICES ASSUME NEW s \in Targets PROVE Begun(e, s) <= Begun(eng, s)
      BY DEF Drains
    <3>1. CASE s = t
      BY <2>1, <2>2, <2>3, <3>1 DEF Begun
    <3>2. CASE s # t
      BY <2>2, <2>3, <3>2 DEF Begun
    <3> QED BY <3>1, <3>2
  <2> QED BY <1>2, <2>1, <2>2, <2>4, <2>5
<1>5. ASSUME NEW t \in Targets, DoneCallback(t) PROVE Drains(eng, eng')
  <2>1. /\ eng'.parked = eng.parked \ {t} /\ eng'.callOn = eng.callOn
        /\ eng'.forced = eng.forced
        /\ eng'.lost = [eng.lost EXCEPT ![t] = IF t \in eng.parked THEN @ + 1 ELSE @]
    BY <1>5 DEF DoneCallback, EngineType
  <2>2. eng.lost \in [Targets -> Nat]
    BY DEF EngineType
  <2> SUFFICES ASSUME NEW s \in Targets PROVE Begun(eng', s) <= Begun(eng, s)
    BY DEF Drains
  <2>3. CASE s = t /\ t \in eng.parked
    BY <2>1, <2>2, <2>3 DEF Begun
  <2>4. CASE s # t \/ t \notin eng.parked
    BY <2>1, <2>2, <2>4 DEF Begun
  <2> QED BY <2>3, <2>4
<1>6. ASSUME NEW t \in Targets, TurnGranted(t) PROVE Drains(eng, eng')
  <2>1. eng' \in EngineType /\ eng.callOn = NoTarget
    BY <1>6, TurnLeaves DEF Sound
  <2>2. CASE Called(t)
    <3> SUFFICES ASSUME NEW s \in Targets PROVE Begun(eng', s) <= Begun(eng, s)
      BY DEF Drains
    <3>1. eng.lost[s] \in Nat /\ eng.callOn # s
      BY <2>1, TargetsAssumption DEF EngineType
    <3> QED BY <2>2, <3>1 DEF Begun, Called
  <2>3. ASSUME NEW s, NEW r, Skipped(s, r) PROVE Drains(eng, eng')
    <3>1. Sound(s) /\ s \in EngineType /\ SameBegun(eng, s) /\ SameBegun(r, eng')
      BY <2>3 DEF Skipped, PassOnly, Kept, SameBegun, Sound
    <3>2. Drains(eng, s) /\ Drains(s, s) /\ Drains(s, Idle(s)) /\ Idle(s) \in EngineType
      BY <3>1, SameDrains, IdleDrains, IdleSound DEF Sound, SameBegun
    <3>3. Drains(s, r) /\ r \in EngineType
      BY <2>3, <3>1, <3>2 DEF Skipped
    <3> QED BY <2>1, <3>1, <3>2, <3>3, SameDrains, DrainsChain
  <2> QED BY <1>6, <2>2, <2>3, TurnLeaves
<1>7. ASSUME CallEnds PROVE Drains(eng, eng')
  <2>1. PICK t \in Targets : \E p : Ended(t, p)
    BY <1>7, CallEndsSound
  <2>2. PICK p : Ended(t, p)
    BY <2>1
  <2>3. /\ Sound(p) /\ p \in EngineType /\ p.parked = eng.parked /\ p.lost = eng.lost
        /\ p.callOn = NoTarget
    BY <2>2 DEF Ended, SameWork, Sound
  <2>4. eng' \in EngineType
    BY <1>7, CallEndsSound DEF IInv, Sound
  <2>5. Drains(eng, p)
    <3> SUFFICES ASSUME NEW s \in Targets PROVE Begun(p, s) <= Begun(eng, s)
      BY DEF Drains
    <3>1. eng.lost[s] \in Nat /\ p.callOn # s
      BY <2>3, TargetsAssumption DEF EngineType
    <3> QED BY <2>3, <3>1 DEF Begun
  <2>6. /\ Drains(p, p) /\ Drains(p, Idle(p)) /\ Idle(p) \in EngineType
        /\ Drains(p, EndTask(p, t, eng.callOwn))
    BY <2>3, SameDrains, IdleDrains, IdleSound, EndTaskDrains DEF Sound, SameBegun
  <2>7. ASSUME NEW r \in {p, Idle(p)}, PassOnly(r, eng') PROVE Drains(p, eng')
    <3>1. SameBegun(r, eng') /\ r \in EngineType /\ Drains(p, r)
      BY <2>3, <2>6, <2>7 DEF PassOnly, Kept, SameBegun
    <3> QED BY <2>3, <2>4, <3>1, SameDrains, DrainsChain
  <2>8. Drains(p, eng')
    BY <2>2, <2>6, <2>7 DEF Ended
  <2> QED BY <2>3, <2>4, <2>5, <2>8, DrainsChain
<1> QED BY <1>1, <1>3, <1>4, <1>5, <1>6, <1>7 DEF Tasks

\* Once a rule may not act, whatever took its licence away, its automatic path begins
\* nothing more: the number of waiting and running enforcements of each target can only
\* fall.
THEOREM BacklogDrains == Spec => BacklogOnlyDrains
<1>1. IInv /\ CountdownJustified /\ [Next]_vars
        => [~MayAct' => \A t \in Targets : Begun(eng', t) <= Begun(eng, t)]_vars
  <2> SUFFICES ASSUME IInv, CountdownJustified, Next, ~MayAct'
               PROVE  \A t \in Targets : Begun(eng', t) <= Begun(eng, t)
    OBVIOUS
  <2>1. Drains(eng, eng') \/ Licensed(eng')
    BY OperationsBegin, CallbacksBegin, TasksBegin DEF Next
  <2>2. ~Licensed(eng')
    BY DEF Licensed, MayAct
  <2> QED BY <2>1, <2>2 DEF Drains
<1> QED BY <1>1, Invariance, CountdownsAreJustified, PTL DEF Spec, BacklogOnlyDrains

-----------------------------------------------------------------------------
(* The handles of delayed enforcements.  A task that owns its handle keeps *)
(* it "firing" until it ends; so what a task pops is its own handle and    *)
(* never the countdown of a later violation.                               *)

Owned(e) == Delay => /\ \A t \in e.parked : e.pend[t] = "firing"
                     /\ e.callOwn => /\ e.callOn \in Targets \ e.parked
                                     /\ e.pend[e.callOn] = "firing"

SameHandles(e, x) == /\ x.pend = e.pend /\ x.parked = e.parked
                     /\ x.callOn = e.callOn /\ x.callOwn = e.callOwn

LEMMA SameOwned ==
  ASSUME NEW e, NEW x, SameHandles(e, x), Owned(e) PROVE Owned(x)
BY DEF SameHandles, Owned

LEMMA StatusHandles ==
  ASSUME NEW e \in EngineType, NEW st PROVE SameHandles(e, [e EXCEPT !.status = st])
BY DEF SameHandles, EngineType

LEMMA ClearedHandles ==
  ASSUME NEW e \in EngineType
  PROVE  /\ SameHandles(e, ClearSuppression(e))
         /\ SameHandles(e, ScheduleSuppressionTimer(e))
         /\ SameHandles(e, RearmCooldownBroadcasts(e))
BY DEF SameHandles, ClearSuppression, ScheduleSuppressionTimer, RearmCooldownBroadcasts,
       EngineType

LEMMA CancelPendingOwned ==
  ASSUME NEW e \in EngineType, Owned(e), NEW D PROVE Owned(CancelPending(e, D))
<1> SUFFICES ASSUME Delay
    PROVE  LET c == CancelPending(e, D)
           IN  /\ \A t \in c.parked : c.pend[t] = "firing"
               /\ c.callOwn => /\ c.callOn \in Targets \ c.parked
                               /\ c.pend[c.callOn] = "firing"
  BY DEF Owned
<1> DEFINE c == CancelPending(e, D)
<1>1. /\ c.pend = [t \in Targets |-> IF t \in D THEN "none" ELSE e.pend[t]]
      /\ c.parked = e.parked \ D /\ c.callOn = e.callOn
      /\ c.callOwn = (e.callOwn /\ ~(Delay /\ e.callOn \in D))
  BY DEF CancelPending, EngineType
<1>2. e.parked \subseteq Targets
  BY DEF EngineType
<1> HIDE DEF c
<1> QED BY <1>1, <1>2 DEF Owned, c

LEMMA IdleOwned ==
  ASSUME NEW e, Sound(e), Owned(e) PROVE Owned(Idle(e))
<1> DEFINE c == CancelPending(e, Targets)
           x == [c EXCEPT !.coolTimer = [t \in Targets |-> FALSE], !.status = IdleStatus(e)]
<1>1. Idle(e) \in {x, [e EXCEPT !.status = IdleStatus(e)]}
  BY DEF Idle
<1>2. c \in EngineType /\ Owned(c) /\ e \in EngineType
  BY CancelPendingSound, CancelPendingOwned DEF Sound
<1> HIDE DEF c
<1>3. SameHandles(c, x)
  BY <1>2 DEF SameHandles, EngineType
<1> HIDE DEF x
<1> QED BY <1>1, <1>2, <1>3, StatusHandles, SameOwned

LEMMA LoopProtectionOwned ==
  ASSUME NEW e, Sound(e), Owned(e) PROVE Owned(LoopProtection(e))
<1> DEFINE hit == [e EXCEPT !.sup = "active"]
           paused == ScheduleSuppressionTimer(hit)
           c == CancelPending(paused, Targets)
<1>1. hit \in EngineType /\ Capped(hit) /\ SameHandles(e, hit)
  BY DEF Sound, Capped, EngineType, SameHandles
<1> HIDE DEF hit
<1>2. Sound(paused) /\ Owned(paused)
  BY <1>1, ScheduleSuppressionTimerSound, ClearedHandles, SameOwned
<1> HIDE DEF paused
<1>3. c \in EngineType /\ Owned(c)
  BY <1>2, CancelPendingSound, CancelPendingOwned DEF Sound
<1>4. LoopProtection(e) = [c EXCEPT !.status = "suppressed"]
  BY DEF LoopProtection, c, paused, hit
<1> HIDE DEF c
<1> QED BY <1>3, <1>4, StatusHandles, SameOwned

LEMMA EndTaskOwned ==
  ASSUME NEW e, Sound(e), Owned(e), NEW t \in Targets, NEW own,
         own => t \notin e.parked /\ ~(e.callOwn /\ e.callOn = t)
  PROVE  Owned(EndTask(e, t, own))
<1>1. CASE ~Delay
  BY <1>1 DEF Owned
<1>2. CASE Delay /\ ~own
  BY <1>2 DEF EndTask
<1>3. CASE Delay /\ own
  <2> DEFINE popped == [e EXCEPT !.pend[t] = "none"]
  <2>1. Sound(popped)
    BY DEF Sound, Capped, Watched, EngineType
  <2>2. /\ popped.parked = e.parked /\ popped.callOn = e.callOn /\ popped.callOwn = e.callOwn
        /\ popped.pend = [e.pend EXCEPT ![t] = "none"] /\ e.parked \subseteq Targets
        /\ e.pend \in [Targets -> {"none", "armed", "firing"}]
    BY DEF Sound, EngineType
  <2>3. EndTask(e, t, own) = Idle(popped)
    BY <1>3 DEF EndTask
  <2> HIDE DEF popped
  <2>4. Owned(popped)
    BY <1>3, <2>2 DEF Owned
  <2> QED BY <2>1, <2>3, <2>4, IdleOwned
<1> QED BY <1>1, <1>2, <1>3

LEMMA EnterOwned ==
  ASSUME NEW e, Sound(e), Owned(e), e.callOn = NoTarget, NEW t \in Targets,
         NEW own \in BOOLEAN, own /\ Delay => t \notin e.parked /\ e.pend[t] = "firing"
  PROVE  Owned(Enter(e, t, own))
<1> SUFFICES ASSUME Delay PROVE Owned(Enter(e, t, own))
  BY DEF Owned
<1>0. ~e.callOwn
  BY TargetsAssumption DEF Owned
<1>1. CASE RateLimited(e)
  <2>1. Sound(LoopProtection(e)) /\ Owned(LoopProtection(e))
    BY LoopProtectionSound, LoopProtectionOwned
  <2>2. EndTask(LoopProtection(e), t, FALSE) = LoopProtection(e)
    BY DEF EndTask
  <2> QED BY <1>1, <2>1, <2>2 DEF Enter
<1>2. CASE ~RateLimited(e) /\ dev'[t] = "skip"
  <2> DEFINE p == [e EXCEPT !.status = ArmedOrCooldown(e)]
  <2>1. Sound(p) /\ SameHandles(e, p)
    BY StatusType, StatusSound, StatusHandles DEF Sound
  <2>2. Enter(e, t, own) = EndTask(p, t, own)
    BY <1>2 DEF Enter
  <2> HIDE DEF p
  <2>3. Owned(p) /\ ~p.callOwn /\ (own => t \notin p.parked)
    BY <1>0, <2>1, SameOwned DEF SameHandles
  <2> QED BY <2>1, <2>2, <2>3, EndTaskOwned
<1>3. CASE ~RateLimited(e) /\ dev'[t] # "skip"
  <2> DEFINE x == [e EXCEPT !.callOn = t, !.callOwn = own, !.forced = FALSE,
                            !.unpainted = FALSE, !.wasErr = (e.status = "error"), !.status = "enforcing"]
  <2>1. x.callOn = t /\ (x.callOwn <=> own) /\ x.pend = e.pend /\ x.parked = e.parked
    BY DEF Sound, EngineType
  <2>2. Enter(e, t, own) = x
    BY <1>3 DEF Enter
  <2> HIDE DEF x
  <2> QED BY <2>1, <2>2 DEF Owned
<1> QED BY <1>1, <1>2, <1>3

LEMMA EvaluateDelayedOwned ==
  ASSUME NEW e, Sound(e), Owned(e), Delay, NEW S \in SUBSET Targets,
         NEW x \in EvaluateDelayed(e, S)
  PROVE  Owned(x)
<1> DEFINE D     == Acting(e, S) \cup Quiet(S)
           base  == CancelPending(e, D)
           pend  == [t \in Targets |-> IF t \in Acting(e, S) THEN "armed" ELSE base.pend[t]]
           armed == [base EXCEPT !.pend = pend]
<1>1. PICK st \in Left(armed, S) : x = [armed EXCEPT !.status = st]
  BY DEF EvaluateDelayed
<1>2. base \in EngineType /\ e \in EngineType /\ Owned(base)
  BY CancelPendingSound, CancelPendingOwned DEF Sound
<1>3. base.parked = e.parked \ D /\ (base.callOwn => base.callOn \notin D)
      /\ e.parked \subseteq Targets
  BY DEF CancelPending, Sound, EngineType
<1> HIDE DEF base
<1>4. /\ x.pend = pend /\ x.parked = base.parked /\ x.callOn = base.callOn
      /\ x.callOwn = base.callOwn
  <2> HIDE DEF pend
  <2> QED BY <1>1, <1>2 DEF EngineType
<1> QED BY <1>2, <1>3, <1>4 DEF Owned

LEMMA EvaluateOwned ==
  ASSUME NEW e, Sound(e), Owned(e), NEW S \in SUBSET Targets, NEW x \in Evaluate(e, S)
  PROVE  Owned(x)
<1> SUFFICES ASSUME Delay PROVE Owned(x)
  BY DEF Owned
<1> DEFINE all == Evaluated(e, S)
           c   == IF e.sup = "elapsed" THEN ClearSuppression(e) ELSE e
           held == [e EXCEPT !.status = "suppressed"]
           gated == [CancelPending(c, Targets) EXCEPT !.status = "conditional"]
<1>1. x \in IF Inactive(e) THEN {Idle(e)}
            ELSE IF ~e.started THEN {e}
            ELSE IF e.sup = "active" THEN {held}
            ELSE IF ~flag' THEN {gated}
            ELSE EvaluateDelayed(c, all)
  BY DEF Evaluate, ReplaceTasks, Started, EvaluateLive
<1>2. e \in EngineType /\ Sound(c) /\ Owned(c)
  BY ClearSuppressionSound, ClearedHandles, SameOwned DEF Sound
<1> HIDE DEF c
<1>3. Owned(gated)
  BY <1>2, CancelPendingSound, CancelPendingOwned, StatusHandles, SameOwned DEF Sound
<1>4. Owned(held) /\ Owned(Idle(e))
  BY <1>2, StatusHandles, SameOwned, IdleOwned
<1>5. all \in SUBSET Targets
  BY EvaluatedTargets
<1> HIDE DEF all, held, gated
<1>6. \A y \in EvaluateDelayed(c, all) : Owned(y)
  BY <1>2, <1>5, EvaluateDelayedOwned
<1> QED BY <1>1, <1>3, <1>4, <1>6

LEMMA EvaluateFlagOwned ==
  ASSUME NEW e, Sound(e), Owned(e), NEW x \in EvaluateFlag(e) PROVE Owned(x)
<1> DEFINE c == IF e.sup = "elapsed" THEN ClearSuppression(e) ELSE e
           met == [c EXCEPT !.status = ArmedOrCooldown(c)]
           violating == {t \in Targets : dev'[t] = "bad"}
           gated == [CancelPending(c, Targets) EXCEPT !.status = "conditional"]
           held == [e EXCEPT !.status = "suppressed"]
<1>1. x \in IF Inactive(e) THEN {Idle(e)}
            ELSE IF e.sup = "active" THEN {held}
            ELSE IF ~flag' THEN {gated}
            ELSE IF violating = {} THEN {met} ELSE Evaluate(met, violating)
  BY DEF EvaluateFlag
<1>2. e \in EngineType /\ Sound(c) /\ c \in EngineType /\ Owned(c)
  BY ClearSuppressionSound, ClearedHandles, SameOwned DEF Sound
<1> HIDE DEF c
<1>3. Owned(gated)
  BY <1>2, CancelPendingSound, CancelPendingOwned, StatusHandles, SameOwned DEF Sound
<1>4. Owned(held) /\ Owned(Idle(e))
  BY <1>2, StatusHandles, SameOwned, IdleOwned
<1>5. Sound(met) /\ Owned(met)
  BY <1>2, StatusType, StatusSound, StatusHandles, SameOwned
<1> HIDE DEF met, held, gated
<1>6. \A y \in Evaluate(met, violating) : Owned(y)
  BY <1>5, EvaluateOwned
<1> QED BY <1>1, <1>3, <1>4, <1>5, <1>6

LEMMA EvaluateSourceOwned ==
  ASSUME NEW e, Sound(e), Owned(e), NEW x \in EvaluateSource(e) PROVE Owned(x)
<1> DEFINE c == IF e.sup = "elapsed" THEN ClearSuppression(e) ELSE e
           met == [c EXCEPT !.status = ArmedOrCooldown(c)]
           gated == [CancelPending(c, Targets) EXCEPT !.status = "conditional"]
           held == [e EXCEPT !.status = "suppressed"]
<1>1. x \in IF Inactive(e) THEN {Idle(e)}
            ELSE IF ~e.started THEN {e}
            ELSE IF e.sup = "active" THEN {held}
            ELSE IF ~flag' THEN {gated}
            ELSE Evaluate(met, Targets)
  BY DEF EvaluateSource
<1>2. e \in EngineType /\ Sound(c) /\ c \in EngineType /\ Owned(c)
  BY ClearSuppressionSound, ClearedHandles, SameOwned DEF Sound
<1> HIDE DEF c
<1>3. Owned(gated)
  BY <1>2, CancelPendingSound, CancelPendingOwned, StatusHandles, SameOwned DEF Sound
<1>4. Owned(held) /\ Owned(Idle(e))
  BY <1>2, StatusHandles, SameOwned, IdleOwned
<1>5. Sound(met) /\ Owned(met)
  BY <1>2, StatusType, StatusSound, StatusHandles, SameOwned
<1> HIDE DEF met, held, gated
<1>6. \A y \in Evaluate(met, Targets) : Owned(y)
  BY <1>5, EvaluateOwned
<1> QED BY <1>1, <1>3, <1>4, <1>6

LEMMA SweepOwned ==
  ASSUME NEW e, Sound(e), Owned(e), NEW x \in Sweep(e) PROVE Owned(x)
BY EvaluateOwned DEF Sweep

LEMMA ResumeOwned ==
  ASSUME NEW e, Sound(e), Owned(e), NEW x \in Sweep(Idle(e)) PROVE Owned(x)
BY IdleSound, IdleOwned, SweepOwned

LEMMA OperationsOwned == ASSUME IInv, Owned(eng), Operations PROVE Owned(eng')
<1> Sound(eng) /\ eng \in EngineType
  BY DEF IInv, Sound
<1>1. ASSUME NEW y, Sound(y), Owned(y), NEW on \in BOOLEAN,
             eng' \in Sweep(IF on /\ Idle(y).status = "cooldown"
                            THEN RearmCooldownBroadcasts(Idle(y)) ELSE Idle(y))
      PROVE  Owned(eng')
  <2>1. Sound(Idle(y)) /\ Owned(Idle(y)) /\ Idle(y) \in EngineType
    BY <1>1, IdleSound, IdleOwned DEF Sound
  <2>2. Sound(RearmCooldownBroadcasts(Idle(y))) /\ Owned(RearmCooldownBroadcasts(Idle(y)))
    BY <2>1, RearmCooldownBroadcastsSound, ClearedHandles, SameOwned
  <2> QED BY <1>1, <2>1, <2>2, SweepOwned
<1>2. ASSUME NEW on \in BOOLEAN, MasterSet(on) PROVE Owned(eng')
  <2>1. eng' \in IF eng.loaded
                 THEN Sweep(IF on /\ Idle(eng).status = "cooldown"
                            THEN RearmCooldownBroadcasts(Idle(eng)) ELSE Idle(eng))
                 ELSE {eng}
    BY <1>2, Zenon DEF MasterSet
  <2> QED BY <1>1, <2>1
<1>3. ASSUME NEW on \in BOOLEAN, SetEnabled(on) PROVE Owned(eng')
  <2> DEFINE e    == [eng EXCEPT !.enabled = on]
             kept == IF e.sup = "elapsed" THEN ClearSuppression(e) ELSE e
             sched == ScheduleSuppressionTimer(kept)
             idle == Idle(sched)
             off  == [e EXCEPT !.supTimer = FALSE]
  <2>1. eng' \in IF on THEN Sweep(IF idle.status = "cooldown"
                                  THEN RearmCooldownBroadcasts(idle) ELSE idle)
                 ELSE {Idle(off)}
    BY <1>3, Zenon DEF SetEnabled
  <2>2. e \in EngineType /\ Capped(e) /\ SameHandles(eng, e)
    BY DEF Sound, Capped, EngineType, SameHandles
  <2>3. ~on => Sound(off) /\ SameHandles(eng, off)
    BY DEF Sound, Capped, Watched, EngineType, SameHandles
  <2> HIDE DEF e, off
  <2>4. kept \in EngineType /\ Capped(kept) /\ Owned(kept)
    BY <2>2, ClearSuppressionSound, ClearedHandles, SameOwned DEF Sound
  <2> HIDE DEF kept
  <2>5. Sound(sched) /\ Owned(sched)
    BY <2>4, ScheduleSuppressionTimerSound, ClearedHandles, SameOwned
  <2> HIDE DEF sched
  <2>6. CASE on
    <3>1. eng' \in Sweep(IF TRUE /\ Idle(sched).status = "cooldown"
                         THEN RearmCooldownBroadcasts(Idle(sched)) ELSE Idle(sched))
      BY <2>1, <2>6
    <3> QED BY <1>1, <2>5, <3>1
  <2>7. CASE ~on
    BY <2>1, <2>3, <2>7, SameOwned, IdleOwned
  <2> QED BY <2>6, <2>7
<1>4. ASSUME Suppress PROVE Owned(eng')
  <2> DEFINE hit == [eng EXCEPT !.sup = "active"]
             sched == ScheduleSuppressionTimer(hit)
             e == CancelPending(sched, Targets)
  <2>1. hit \in EngineType /\ SameHandles(eng, hit) /\ Capped(hit)
    BY DEF Sound, Capped, EngineType, SameHandles
  <2> HIDE DEF hit
  <2>2. Sound(sched) /\ Owned(sched)
    BY <2>1, ScheduleSuppressionTimerSound, ClearedHandles, SameOwned
  <2> HIDE DEF sched
  <2>3. Sound(e) /\ Owned(e)
    BY <2>2, CancelPendingSound, CancelPendingOwned DEF Sound
  <2>4. eng' = IF e.status = "error" THEN e ELSE Idle(e)
    BY <1>4 DEF Suppress, e, sched, hit
  <2> HIDE DEF e
  <2> QED BY <2>3, <2>4, IdleOwned
<1>5. ASSUME Unsuppress PROVE Owned(eng')
  <2>1. Sound(ClearSuppression(eng)) /\ Owned(ClearSuppression(eng))
    BY ClearSuppressionSound, ClearedHandles, SameOwned DEF Sound
  <2> QED BY <1>5, <2>1, ResumeOwned DEF Unsuppress
<1>6. ASSUME ResetCooldowns PROVE Owned(eng')
  <2> DEFINE s == ScheduleSuppressionTimer(eng)
             e == [s EXCEPT !.cool = [t \in Targets |-> FALSE],
                            !.coolTimer = [t \in Targets |-> FALSE],
                            !.succs = 0]
  <2>1. Sound(s) /\ Owned(s)
    BY ScheduleSuppressionTimerSound, ClearedHandles, SameOwned DEF Sound
  <2>2. eng' = Idle(e)
    BY <1>6 DEF ResetCooldowns
  <2> HIDE DEF s
  <2>3. Sound(e) /\ SameHandles(s, e)
    <3>1. SameHandles(s, e)
      BY <2>1 DEF Sound, EngineType, SameHandles
    <3> QED BY <2>1, <3>1, ResetSound
  <2> HIDE DEF e
  <2> QED BY <2>1, <2>2, <2>3, SameOwned, IdleOwned
<1>7. ASSUME ClearHistory PROVE Owned(eng')
  <2> DEFINE s == ScheduleSuppressionTimer(eng)
  <2>1. s \in EngineType /\ Owned(s)
    BY ScheduleSuppressionTimerSound, ClearedHandles, SameOwned DEF Sound
  <2>2. eng' = [s EXCEPT !.cool = [t \in Targets |-> FALSE],
                         !.coolTimer = [t \in Targets |-> FALSE],
                         !.window = 0, !.errs = 0, !.succs = 0, !.clearing = TRUE]
    BY <1>7 DEF ClearHistory
  <2> HIDE DEF s
  <2>3. SameHandles(s, eng')
    BY <2>1, <2>2 DEF SameHandles, EngineType
  <2> QED BY <2>1, <2>3, SameOwned
<1>8. ASSUME ClearHistoryRepaints PROVE Owned(eng')
  <2> DEFINE e == [eng EXCEPT !.clearing = FALSE,
                              !.status = IF @ = "error" THEN "starting" ELSE @]
  <2>1. Sound(e) /\ SameHandles(eng, e)
    <3>1. SameHandles(eng, e)
      BY DEF EngineType, SameHandles
    <3> QED BY <3>1, HistoryClearedSound
  <2>2. eng' = Idle(e)
    BY <1>8 DEF ClearHistoryRepaints
  <2> HIDE DEF e
  <2> QED BY <2>1, <2>2, SameOwned, IdleOwned
<1>9. ASSUME Unload PROVE Owned(eng')
  <2> DEFINE r == ReplaceTasks(eng, Targets)
             e == CancelPending(r, Targets)
  <2>1. r \in EngineType /\ Owned(r)
    BY ReplaceTasksSound DEF Sound, ReplaceTasks, Owned
  <2> HIDE DEF r
  <2>2. e \in EngineType /\ Owned(e)
    BY <2>1, ReplaceTasksSound, CancelPendingSound, CancelPendingOwned DEF Sound, r
  <2>3. eng' = [e EXCEPT !.loaded = FALSE, !.supTimer = FALSE,
                         !.coolTimer = [t \in Targets |-> FALSE]]
    BY <1>9 DEF Unload, r
  <2> HIDE DEF e
  <2>4. SameHandles(e, eng')
    BY <2>2, <2>3 DEF SameHandles, EngineType
  <2> QED BY <2>2, <2>4, SameOwned
<1>10. ASSUME Press PROVE Owned(eng')
  <2>1. SameHandles(eng, eng')
    BY <1>10, PressLeaves DEF PassOnly, Kept, SameHandles
  <2> QED BY <2>1, SameOwned
<1> QED BY <1>2, <1>3, <1>4, <1>5, <1>6, <1>7, <1>8, <1>9, <1>10 DEF Operations

LEMMA CallbacksOwned ==
  ASSUME IInv, Owned(eng),
         FlagMoves \/ SourceMoves \/ Clock \/ \E t \in Targets : DeviceMoves(t)
  PROVE  Owned(eng')
<1> Sound(eng) /\ eng \in EngineType
  BY DEF IInv, Sound
<1>1. ASSUME NEW t \in Targets, DeviceMoves(t) PROVE Owned(eng')
  BY <1>1, EvaluateOwned DEF DeviceMoves
<1>2. ASSUME FlagMoves PROVE Owned(eng')
  BY <1>2, EvaluateFlagOwned DEF FlagMoves
<1>3. ASSUME SourceMoves PROVE Owned(eng')
  BY <1>3, EvaluateSourceOwned DEF SourceMoves
<1>4. ASSUME GraceDone PROVE Owned(eng')
  <2> DEFINE y == [eng EXCEPT !.started = TRUE]
  <2>1. Sound(y) /\ SameHandles(eng, y)
    BY DEF Sound, Capped, Watched, EngineType, SameHandles
  <2>2. eng' \in Sweep(Idle(y))
    BY <1>4 DEF GraceDone
  <2> HIDE DEF y
  <2> QED BY <2>1, <2>2, SameOwned, ResumeOwned
<1>5. ASSUME Midnight PROVE Owned(eng')
  BY <1>5, IdleOwned DEF Midnight
<1>6. ASSUME SuppressionTimerFires PROVE Owned(eng')
  <2>1. Sound(ClearSuppression(eng)) /\ Owned(ClearSuppression(eng))
    BY ClearSuppressionSound, ClearedHandles, SameOwned DEF Sound
  <2> QED BY <1>6, <2>1, ResumeOwned DEF SuppressionTimerFires
<1>7. ASSUME SuppressionElapses \/ WindowAges \/ \E t \in Targets : CooldownElapses(t)
      PROVE  Owned(eng')
  <2>1. SameHandles(eng, eng')
    BY <1>7 DEF SuppressionElapses, WindowAges, CooldownElapses, SameHandles, EngineType
  <2> QED BY <2>1, SameOwned
<1>8. ASSUME NEW t \in Targets, CooldownTimerFires(t) PROVE Owned(eng')
  <2> DEFINE e == [eng EXCEPT !.coolTimer[t] = FALSE]
  <2>1. Sound(e) /\ SameHandles(eng, e)
    BY DEF Sound, Capped, Watched, EngineType, SameHandles
  <2>2. eng' = IF e.loaded THEN Idle(e) ELSE e
    BY <1>8 DEF CooldownTimerFires
  <2> HIDE DEF e
  <2> QED BY <2>1, <2>2, SameOwned, IdleOwned
<1> QED BY <1>1, <1>2, <1>3, <1>4, <1>5, <1>6, <1>7, <1>8 DEF Clock

LEMMA TasksOwned == ASSUME IInv, Owned(eng), Tasks PROVE Owned(eng')
<1> Sound(eng) /\ eng \in EngineType
  BY DEF IInv, Sound
<1>0. eng.parked \subseteq Targets /\ eng.pend \in [Targets -> {"none", "armed", "firing"}]
  BY DEF EngineType
<1>1. ASSUME NEW t \in Targets, DelayTimerFires(t) PROVE Owned(eng')
  <2> DEFINE dropped == [eng EXCEPT !.pend[t] = "none"]
             firing  == [eng EXCEPT !.pend[t] = "firing"]
             blocked == [dropped EXCEPT !.status = ArmedOrCooldown(dropped)]
             queued  == [firing EXCEPT !.parked = @ \cup {t}]
  <2>1. /\ eng' = IF Inactive(eng) THEN Idle(eng)
                  ELSE IF eng.sup = "active" THEN Idle(dropped)
                  ELSE IF dev[t] # "bad" \/ ~flag THEN blocked
                  ELSE Acquire(firing, t)
        /\ eng.pend[t] = "armed"
    BY <1>1, Zenon DEF DelayTimerFires
  <2>2. /\ Sound(dropped) /\ Sound(firing)
        /\ dropped.pend = [eng.pend EXCEPT ![t] = "none"]
        /\ firing.pend = [eng.pend EXCEPT ![t] = "firing"]
    BY DEF Sound, Capped, Watched, EngineType
  <2>3. /\ dropped.parked = eng.parked /\ firing.parked = eng.parked
        /\ dropped.callOn = eng.callOn /\ firing.callOn = eng.callOn
        /\ dropped.callOwn = eng.callOwn /\ firing.callOwn = eng.callOwn
    BY DEF EngineType
  <2> HIDE DEF dropped, firing
  <2>4. /\ queued.pend = firing.pend /\ queued.parked = firing.parked \cup {t}
        /\ queued.callOn = firing.callOn /\ queued.callOwn = firing.callOwn
    BY <2>2 DEF Sound, EngineType
  <2>5. Owned(dropped) /\ Owned(firing)
    BY <1>0, <2>1, <2>2, <2>3 DEF Owned
  <2>6. Owned(queued)
    <3> HIDE DEF queued
    <3> QED BY <1>0, <2>1, <2>2, <2>3, <2>4 DEF Owned
  <2>7. Owned(blocked) /\ Owned(Idle(dropped)) /\ Owned(Idle(eng))
    BY <2>2, <2>5, IdleOwned, StatusHandles, SameOwned DEF Sound
  <2>8. LockIdle(firing) => Owned(Enter(firing, t, TRUE))
    <3> SUFFICES ASSUME LockIdle(firing) PROVE Owned(Enter(firing, t, TRUE))
      OBVIOUS
    <3>1. firing.callOn = NoTarget /\ t \notin firing.parked /\ firing.pend[t] = "firing"
      BY <1>0, <2>2 DEF LockIdle
    <3> QED BY <2>2, <2>5, <3>1, EnterOwned
  <2>9. Acquire(firing, t) = IF LockIdle(firing) THEN Enter(firing, t, TRUE) ELSE queued
    BY DEF Acquire
  <2> HIDE DEF blocked, queued
  <2> QED BY <2>1, <2>6, <2>7, <2>8, <2>9
<1>2. ASSUME NEW t \in Targets, OwnerGranted(t) PROVE Owned(eng')
  <2> DEFINE e == [eng EXCEPT !.parked = @ \ {t}]
  <2>1. Sound(e) /\ e.pend = eng.pend /\ e.callOn = eng.callOn /\ e.callOwn = eng.callOwn
        /\ e.parked = eng.parked \ {t}
    BY DEF Sound, Capped, Watched, EngineType
  <2>2. eng' = Enter(e, t, TRUE) /\ eng.callOn = NoTarget /\ t \in eng.parked
    BY <1>2 DEF OwnerGranted
  <2> HIDE DEF e
  <2>3. Owned(e)
    BY <2>1 DEF Owned
  <2>4. Delay => t \notin e.parked /\ e.pend[t] = "firing"
    BY <2>1, <2>2 DEF Owned
  <2> QED BY <2>1, <2>2, <2>3, <2>4, EnterOwned
<1>3. ASSUME NEW t \in Targets, LostGranted(t) PROVE Owned(eng')
  <2> DEFINE e == [eng EXCEPT !.lost[t] = @ - 1]
  <2>1. Sound(e) /\ SameHandles(eng, e)
    BY <1>3 DEF LostGranted, Sound, Capped, Watched, EngineType, SameHandles
  <2>2. eng' = Enter(e, t, FALSE) /\ eng.callOn = NoTarget
    BY <1>3 DEF LostGranted
  <2> HIDE DEF e
  <2>3. Owned(e) /\ e.callOn = NoTarget
    BY <2>1, <2>2, SameOwned DEF SameHandles
  <2> QED BY <2>1, <2>2, <2>3, EnterOwned
<1>4. ASSUME NEW t \in Targets, DoneCallback(t) PROVE Owned(eng')
  <2>1. /\ eng'.parked = eng.parked \ {t} /\ eng'.callOn = eng.callOn
        /\ eng'.pend = eng.pend /\ eng'.callOwn = (eng.callOwn /\ eng.callOn # t)
    BY <1>4 DEF DoneCallback, EngineType
  <2> QED BY <2>1 DEF Owned
<1>5. ASSUME NEW e, Sound(e), NEW t \in Targets, e.pend = eng.pend, e.parked = eng.parked,
             ~e.callOwn, eng.callOn = t, eng' = EndTask(e, t, eng.callOwn)
      PROVE  Owned(eng')
  <2> SUFFICES ASSUME Delay PROVE Owned(eng')
    BY DEF Owned
  <2>1. Owned(e) /\ (eng.callOwn => t \notin e.parked)
    BY <1>5 DEF Owned
  <2> QED BY <1>5, <2>1, EndTaskOwned
<1>6. ASSUME NEW e, Sound(e), Owned(e), NEW r \in {e, Idle(e)}, PassOnly(r, eng')
      PROVE  Owned(eng')
  <2>1. Owned(r)
    BY <1>6, IdleOwned
  <2>2. SameHandles(r, eng')
    BY <1>6 DEF PassOnly, Kept, SameHandles
  <2> QED BY <2>1, <2>2, SameOwned
<1>7. ASSUME CallEnds PROVE Owned(eng')
  <2>1. PICK t \in Targets : \E p : Ended(t, p)
    BY <1>7, CallEndsSound
  <2>2. PICK p : Ended(t, p)
    BY <2>1
  <2>3. /\ Sound(p) /\ p.pend = eng.pend /\ p.parked = eng.parked /\ ~p.callOwn
        /\ eng.callOn = t
    BY <2>2 DEF Ended, SameWork
  <2>4. CASE eng.forced
    <3>1. Owned(p)
      BY <2>3 DEF Owned
    <3> QED BY <1>6, <2>2, <2>3, <2>4, <3>1 DEF Ended
  <2>5. CASE ~eng.forced
    BY <1>5, <2>2, <2>3, <2>5 DEF Ended
  <2> QED BY <2>4, <2>5
<1>8. ASSUME NEW t \in Targets, TurnGranted(t) PROVE Owned(eng')
  <2>1. CASE Called(t)
    BY <2>1 DEF Called, Owned
  <2>2. ASSUME NEW s, NEW r, Skipped(s, r) PROVE Owned(eng')
    <3>1. Sound(s) /\ SameHandles(eng, s) /\ r \in {s, Idle(s)} /\ PassOnly(r, eng')
      BY <2>2 DEF Skipped, Kept, SameHandles
    <3> QED BY <1>6, <3>1, SameOwned
  <2> QED BY <1>8, <2>1, <2>2, TurnLeaves
<1> QED BY <1>1, <1>2, <1>3, <1>4, <1>7, <1>8 DEF Tasks

LEMMA HandlesInvariance == Spec => []Owned(eng)
<1>1. Init => Owned(eng)
  <2> SUFFICES ASSUME Init PROVE Owned(eng)
    OBVIOUS
  <2>1. eng.parked = {} /\ eng.callOwn = FALSE
    BY DEF Init
  <2> QED BY <2>1 DEF Owned
<1>2. IInv /\ Owned(eng) /\ [Next]_vars => Owned(eng)'
  <2> SUFFICES ASSUME IInv, Owned(eng), [Next]_vars PROVE Owned(eng')
    BY DEF Owned
  <2>1. CASE Next
    BY <2>1, OperationsOwned, CallbacksOwned, TasksOwned DEF Next
  <2>2. CASE UNCHANGED vars
    BY <2>2 DEF vars
  <2> QED BY <2>1, <2>2
<1> QED BY <1>1, <1>2, Invariance, PTL DEF Spec

-----------------------------------------------------------------------------
(* Attention.  An evaluation of a rule that may act attends to each target *)
(* it finds violating and out of cooldown; every other method keeps an     *)
(* enforcement that is due, unless it takes the rule's licence away.       *)

Due(e, t) == e.pend[t] = "armed" \/ t \in e.parked \/ e.lost[t] > 0

Att(e, t) == e.pend[t] # "none" \/ t \in e.parked \/ e.lost[t] > 0 \/ e.callOn = t

\* t is one that an evaluation of e would enforce.
Wanted(e, t) == t \in Targets /\ dev'[t] = "bad" /\ ~e.cool[t]

LEMMA EvaluateDelayedAttends ==
  ASSUME NEW e, Sound(e), NEW S \in SUBSET Targets, NEW x \in EvaluateDelayed(e, S),
         NEW t \in S, Wanted(e, t)
  PROVE  Att(x, t)
<1> DEFINE base  == CancelPending(e, Acting(e, S) \cup Quiet(S))
           pend  == [s \in Targets |-> IF s \in Acting(e, S) THEN "armed" ELSE base.pend[s]]
           armed == [base EXCEPT !.pend = pend]
<1>1. PICK st \in Left(armed, S) : x = [armed EXCEPT !.status = st]
  BY DEF EvaluateDelayed
<1>2. base \in EngineType
  BY CancelPendingSound DEF Sound
<1> HIDE DEF base
<1>3. x.pend = pend
  <2> HIDE DEF pend
  <2> QED BY <1>1, <1>2 DEF EngineType
<1>4. t \in Acting(e, S) /\ t \in Targets
  BY DEF Acting, Wanted
<1> QED BY <1>3, <1>4 DEF Att

LEMMA FirstEntersAttends ==
  ASSUME NEW e, Sound(e), e.callOn = NoTarget, NEW S \in SUBSET Targets,
         NEW s \in Acting(e, S), NEW x \in FirstEnters(e, s, S), x.sup # "active",
         NEW t \in S, Wanted(e, t)
  PROVE  Att(x, t)
<1> DEFINE in == Enter(e, s, TRUE)
<1>1. s \in Targets /\ dev'[s] = "bad" /\ t \in Acting(e, S)
  BY DEF Acting, Wanted
<1>2. \/ in.callOn = e.callOn /\ in.sup = "active"
      \/ in.callOn = s
  <2>1. in = Enter(e, s, TRUE)
    OBVIOUS
  <2> HIDE DEF in
  <2>2. in.callOn = e.callOn \/ in.callOn = s
    BY ONLY <1>1, <2>1, Sound(e), OwnerEnterBegins
  <2>3. in.sup = "active" \/ in.callOn = s
    BY ONLY <1>1, <2>1, Sound(e), OwnerEnterStops
  <2> QED BY <1>1, <2>2, <2>3
<1>3. in \in EngineType
  BY <1>1, EnterSound DEF Sound
<1>4. x \in IF in.callOn = s
            THEN {[in EXCEPT !.parked = Acting(e, S) \ {s}, !.status = st] :
                     st \in Painted(e, S) \cup {"enforcing"}}
            ELSE {in}
  BY DEF FirstEnters
<1> HIDE DEF in
<1>5. CASE in.callOn = s
  <2>1. PICK st : x = [in EXCEPT !.parked = Acting(e, S) \ {s}, !.status = st]
    BY <1>4, <1>5
  <2>2. x.parked = Acting(e, S) \ {s} /\ x.callOn = s
    BY <1>3, <1>5, <2>1 DEF EngineType
  <2> QED BY <1>1, <2>2 DEF Att
<1>6. CASE in.callOn # s
  BY <1>2, <1>4, <1>6
<1> QED BY <1>5, <1>6

LEMMA EvaluateNowAttends ==
  ASSUME NEW e, Sound(e), NEW S \in SUBSET Targets, NEW x \in EvaluateNow(e, S),
         x.sup # "active", NEW t \in S, Wanted(e, t)
  PROVE  Att(x, t)
<1> DEFINE base == CancelPending(e, Quiet(S))
           first(s, st) == FirstEnters([base EXCEPT !.status = st], s, S)
           queued(st) == [base EXCEPT !.parked = @ \cup Acting(e, S), !.status = st]
           before == Painted(base, S) \cup {base.status}
<1>1. Sound(base) /\ base \in EngineType /\ base.cool = e.cool
  BY CancelPendingSound, SimpleSteady DEF Sound, Steady
<1>2. t \in Acting(e, S)
  BY DEF Acting, Wanted
<1>3. ASSUME NEW st \in before, NEW s \in Acting(e, S), x \in first(s, st), LockIdle(base)
      PROVE  Att(x, t)
  <2> DEFINE b == [base EXCEPT !.status = st]
  <2>1. st \in Status
    BY <1>1, PaintedStatus DEF EngineType
  <2> HIDE DEF base
  <2>2. Sound(b) /\ b.callOn = base.callOn /\ b.cool = base.cool
    BY <1>1, <2>1, StatusSound DEF EngineType
  <2>3. x \in FirstEnters(b, s, S)
    BY <1>3
  <2> HIDE DEF b
  <2>4. b.callOn = NoTarget /\ s \in Acting(b, S) /\ Wanted(b, t)
    BY <1>1, <1>3, <2>2 DEF LockIdle, Acting, Wanted
  <2> QED BY <2>2, <2>3, <2>4, FirstEntersAttends
<1>4. ASSUME NEW st, x = queued(st) PROVE Att(x, t)
  <2> HIDE DEF base
  <2>1. x.parked = base.parked \cup Acting(e, S)
    BY <1>1, <1>4 DEF EngineType
  <2> QED BY <1>2, <2>1 DEF Att
<1>5. x \in IF LockIdle(base) /\ Acting(e, S) # {}
            THEN UNION {UNION {first(s, st) : st \in before} : s \in Acting(e, S)}
            ELSE {queued(st) : st \in Left(base, S)}
  BY Zenon DEF EvaluateNow
<1> HIDE DEF first, queued, before
<1> QED BY <1>3, <1>4, <1>5

LEMMA EvaluateLiveAttends ==
  ASSUME NEW e, Sound(e), NEW S \in SUBSET Targets, NEW x \in EvaluateLive(e, S),
         x.sup # "active", NEW t \in S, Wanted(e, t)
  PROVE  Att(x, t)
BY EvaluateDelayedAttends, EvaluateNowAttends DEF EvaluateLive

LEMMA StartedAtt ==
  ASSUME NEW e \in EngineType, NEW S, NEW t, Att(e, t) PROVE Att(Started(e, S), t)
BY DEF Att, Started, EngineType

\* The evaluation of a rule that may act when it is over was not turned away.
LEMMA EvaluateReaches ==
  ASSUME NEW e, Sound(e), NEW S \in SUBSET Targets, NEW x \in Evaluate(e, S), Licensed(x)
  PROVE  LET all == Evaluated(e, S)
             r   == ReplaceTasks(e, all)
             c   == IF r.sup = "elapsed" THEN ClearSuppression(r) ELSE r
         IN  \E o \in EvaluateLive(c, all) :
                o.sup # "active" /\ o \in EngineType /\ x = Started(o, all)
<1> DEFINE all == Evaluated(e, S)
           r   == ReplaceTasks(e, all)
           c   == IF r.sup = "elapsed" THEN ClearSuppression(r) ELSE r
           held == [r EXCEPT !.status = "suppressed"]
           gated == [CancelPending(c, Targets) EXCEPT !.status = "conditional"]
<1>1. PICK o \in IF Inactive(r) THEN {Idle(r)}
                 ELSE IF ~r.started THEN {r}
                 ELSE IF r.sup = "active" THEN {held}
                 ELSE IF ~flag' THEN {gated}
                 ELSE EvaluateLive(c, all) : x = Started(o, all)
  BY DEF Evaluate
<1>2. Steady(e, x) /\ Steady(e, r) /\ r.sup = e.sup /\ Sound(r)
  <2>1. e \in EngineType /\ Sound(r) /\ Steady(e, x)
    BY EvaluateSteady, ReplaceTasksSound DEF Sound
  <2>2. Steady(e, r)
    BY <2>1, SimpleSteady
  <2>3. r.sup = e.sup
    BY <2>1 DEF ReplaceTasks, EngineType
  <2> QED BY <2>1, <2>2, <2>3
<1> HIDE DEF r
<1>3. ~Inactive(r) /\ r.started /\ r.sup # "active" /\ flag'
  BY <1>2 DEF Licensed, Steady, Inactive
<1>4. o \in EvaluateLive(c, all)
  BY <1>1, <1>3
<1>5. Sound(c) /\ all \in SUBSET Targets
  BY <1>2, ClearedDrains, EvaluatedTargets
<1>6. o \in EngineType
  BY <1>4, <1>5, EvaluateLiveSound DEF Sound
<1>7. o.sup = x.sup
  BY <1>1, <1>6 DEF Started, EngineType
<1>8. o.sup # "active"
  BY <1>7 DEF Licensed
<1> QED BY <1>1, <1>4, <1>6, <1>8 DEF r

LEMMA EvaluateAttends ==
  ASSUME NEW e, Sound(e), NEW S \in SUBSET Targets, NEW x \in Evaluate(e, S), Licensed(x),
         NEW t \in Evaluated(e, S), Wanted(e, t)
  PROVE  Att(x, t)
<1> DEFINE all == Evaluated(e, S)
           r   == ReplaceTasks(e, all)
           c   == IF r.sup = "elapsed" THEN ClearSuppression(r) ELSE r
<1>1. PICK o \in EvaluateLive(c, all) :
         o.sup # "active" /\ o \in EngineType /\ x = Started(o, all)
  BY EvaluateReaches
<1>2. Sound(r) /\ r \in EngineType /\ r.cool = e.cool
  BY ReplaceTasksSound, SimpleSteady DEF Sound, Steady
<1> HIDE DEF r
<1>3. Sound(c) /\ c.cool = e.cool
  BY <1>2, ClearedDrains, ClearedSteady DEF Steady
<1>4. all \in SUBSET Targets
  BY EvaluatedTargets
<1> HIDE DEF c, all
<1>5. Wanted(c, t)
  BY <1>3 DEF Wanted
<1>6. Att(o, t)
  BY <1>1, <1>3, <1>4, <1>5, EvaluateLiveAttends DEF all
<1> QED BY <1>1, <1>6, StartedAtt

LEMMA SweepAttends ==
  ASSUME NEW e, Sound(e), NEW x \in Sweep(e), Licensed(x), NEW t, Wanted(e, t)
  PROVE  Att(x, t)
<1>1. Steady(e, x)
  BY SweepSteady
<1>2. x \in Evaluate(e, Targets)
  BY <1>1 DEF Sweep, Licensed, Steady, Inactive
<1>3. t \in Evaluated(e, Targets)
  BY DEF Evaluated, Wanted
<1> QED BY <1>2, <1>3, EvaluateAttends

LEMMA ResumeAttends ==
  ASSUME NEW e, Sound(e), NEW x \in Sweep(Idle(e)), Licensed(x), NEW t, Wanted(e, t)
  PROVE  Att(x, t)
<1>1. Sound(Idle(e)) /\ Wanted(Idle(e), t)
  BY IdleSound, IdleSteady DEF Sound, Steady, Wanted
<1> QED BY <1>1, SweepAttends

\* A switch of the rule or of the hub.
LEMMA SwitchAttends ==
  ASSUME NEW y, Sound(y), NEW on \in BOOLEAN,
         NEW x \in Sweep(IF on /\ Idle(y).status = "cooldown"
                         THEN RearmCooldownBroadcasts(Idle(y)) ELSE Idle(y)),
         Licensed(x), NEW t, Wanted(y, t)
  PROVE  Att(x, t)
<1> DEFINE idle == Idle(y)
           r == IF on /\ idle.status = "cooldown" THEN RearmCooldownBroadcasts(idle) ELSE idle
<1>1. Sound(idle) /\ idle \in EngineType /\ Wanted(idle, t)
  BY IdleSound, IdleSteady DEF Sound, Steady, Wanted
<1>2. x \in Sweep(r)
  OBVIOUS
<1> HIDE DEF idle
<1>3. LET a == RearmCooldownBroadcasts(idle) IN Sound(a) /\ a.cool = idle.cool
  BY <1>1, RearmCooldownBroadcastsSound DEF RearmCooldownBroadcasts, EngineType
<1>4. Sound(r) /\ Wanted(r, t)
  BY <1>1, <1>3 DEF Wanted
<1> HIDE DEF r
<1> QED BY <1>2, <1>4, SweepAttends

LEMMA EvaluateFlagAttends ==
  ASSUME NEW e, Sound(e), NEW x \in EvaluateFlag(e), Licensed(x), NEW t, Wanted(e, t)
  PROVE  Att(x, t)
<1> DEFINE c == IF e.sup = "elapsed" THEN ClearSuppression(e) ELSE e
           met == [c EXCEPT !.status = ArmedOrCooldown(c)]
           violating == {s \in Targets : dev'[s] = "bad"}
           gated == [CancelPending(c, Targets) EXCEPT !.status = "conditional"]
           held == [e EXCEPT !.status = "suppressed"]
<1>1. Sound(c) /\ Steady(e, c) /\ c \in EngineType /\ e \in EngineType
  BY ClearedDrains, ClearedSteady DEF Sound
<1> HIDE DEF c
<1>2. Sound(met) /\ Steady(c, met)
  BY <1>1, StatusType, StatusSound, SimpleSteady DEF Sound
<1>3. x \in IF Inactive(e) THEN {Idle(e)}
            ELSE IF e.sup = "active" THEN {held}
            ELSE IF ~flag' THEN {gated}
            ELSE IF violating = {} THEN {met} ELSE Evaluate(met, violating)
  BY DEF EvaluateFlag, c, met
<1>4. Steady(e, x) /\ held.sup = e.sup
  BY <1>1, EvaluateFlagSteady DEF EngineType
<1> HIDE DEF met, gated, held
<1>5. ~Inactive(e) /\ e.sup # "active" /\ flag'
  <2>1. ~Inactive(e) /\ flag'
    BY <1>4 DEF Licensed, Steady, Inactive
  <2> QED BY <1>3, <1>4, <2>1 DEF Licensed
<1>6. t \in violating
  BY DEF Wanted
<1>7. x \in Evaluate(met, violating) /\ violating \in SUBSET Targets
  BY <1>3, <1>5, <1>6
<1>8. t \in Evaluated(met, violating) /\ Wanted(met, t)
  BY <1>1, <1>2, <1>6 DEF Evaluated, Wanted, Steady
<1> HIDE DEF violating
<1> QED BY <1>2, <1>7, <1>8, EvaluateAttends

LEMMA EvaluateSourceAttends ==
  ASSUME NEW e, Sound(e), NEW x \in EvaluateSource(e), Licensed(x), NEW t, Wanted(e, t)
  PROVE  Att(x, t)
<1> DEFINE c == IF e.sup = "elapsed" THEN ClearSuppression(e) ELSE e
           met == [c EXCEPT !.status = ArmedOrCooldown(c)]
           gated == [CancelPending(c, Targets) EXCEPT !.status = "conditional"]
           held == [e EXCEPT !.status = "suppressed"]
<1>1. Sound(c) /\ Steady(e, c) /\ c \in EngineType /\ e \in EngineType
  BY ClearedDrains, ClearedSteady DEF Sound
<1> HIDE DEF c
<1>2. Sound(met) /\ Steady(c, met)
  BY <1>1, StatusType, StatusSound, SimpleSteady DEF Sound
<1>3. x \in IF Inactive(e) THEN {Idle(e)}
            ELSE IF ~e.started THEN {e}
            ELSE IF e.sup = "active" THEN {held}
            ELSE IF ~flag' THEN {gated}
            ELSE Evaluate(met, Targets)
  BY DEF EvaluateSource, c, met
<1>4. Steady(e, x) /\ held.sup = e.sup
  BY <1>1, EvaluateSourceSteady DEF EngineType
<1> HIDE DEF met, gated, held
<1>5. ~Inactive(e) /\ e.started /\ e.sup # "active" /\ flag'
  <2>1. ~Inactive(e) /\ e.started /\ flag'
    BY <1>4 DEF Licensed, Steady, Inactive
  <2> QED BY <1>3, <1>4, <2>1 DEF Licensed
<1>6. x \in Evaluate(met, Targets)
  BY <1>3, <1>5
<1>7. t \in Evaluated(met, Targets) /\ Wanted(met, t)
  BY <1>1, <1>2 DEF Evaluated, Wanted, Steady
<1> QED BY <1>2, <1>6, <1>7, EvaluateAttends

\* The methods that evaluate nothing: x may act only if e might, and has what was due.
SameLicence(e, x) == /\ x.loaded = e.loaded /\ x.started = e.started /\ x.enabled = e.enabled
                     /\ x.sup \in {e.sup, "active"}

SameDue(e, x) == x.pend = e.pend /\ x.parked = e.parked /\ x.lost = e.lost

LEMMA LicenceChain ==
  ASSUME NEW e, NEW x, NEW y, SameLicence(e, x), SameLicence(x, y) PROVE SameLicence(e, y)
BY DEF SameLicence

LEMMA SameDueKeeps ==
  ASSUME NEW e, NEW x, SameDue(e, x), NEW t, Due(e, t) PROVE Due(x, t) /\ Att(x, t)
BY DEF SameDue, Due, Att

LEMMA DueAtt == ASSUME NEW e, NEW t, Due(e, t) PROVE Att(e, t)
BY DEF Due, Att

LEMMA StatusKeeps ==
  ASSUME NEW e \in EngineType, NEW st
  PROVE  SameLicence(e, [e EXCEPT !.status = st]) /\ SameDue(e, [e EXCEPT !.status = st])
BY DEF SameLicence, SameDue, EngineType

LEMMA IdleKeeps ==
  ASSUME NEW e \in EngineType
  PROVE  SameLicence(e, Idle(e)) /\ (~Inactive(e) => SameDue(e, Idle(e)))
<1> DEFINE c == CancelPending(e, Targets)
           x == [c EXCEPT !.coolTimer = [t \in Targets |-> FALSE], !.status = IdleStatus(e)]
<1>1. Idle(e) = IF Inactive(e) THEN x ELSE [e EXCEPT !.status = IdleStatus(e)]
  BY DEF Idle
<1>2. SameLicence(e, x)
  BY DEF SameLicence, EngineType, CancelPending
<1> HIDE DEF x
<1> QED BY <1>1, <1>2, StatusKeeps

\* The end of a task of s drops no enforcement of another target, and none of s but the
\* one whose handle it owns.
LEMMA EndTaskKeeps ==
  ASSUME NEW e, Sound(e), NEW s \in Targets, NEW own
  PROVE  LET x == EndTask(e, s, own)
         IN  /\ SameLicence(e, x)
             /\ ~Inactive(e) => \A t \in Targets :
                  Due(e, t) /\ (t = s /\ Delay /\ own => e.lost[t] > 0 \/ t \in e.parked)
                     => Due(x, t)
<1> DEFINE x      == EndTask(e, s, own)
           queued == [e EXCEPT !.due[s] = TRUE]
           popped == [e EXCEPT !.pend[s] = "none"]
<1>1. e \in EngineType /\ popped \in EngineType
  BY DEF Sound, EngineType
<1>2. SameLicence(e, queued) /\ SameDue(e, queued) /\ SameLicence(e, e)
  BY <1>1 DEF SameLicence, SameDue, EngineType
<1>3. /\ SameLicence(e, popped) /\ popped.parked = e.parked /\ popped.lost = e.lost
      /\ \A t \in Targets \ {s} : popped.pend[t] = e.pend[t]
      /\ Inactive(e) <=> Inactive(popped)
  BY <1>1 DEF SameLicence, EngineType, Inactive
<1>4. x = IF ~Delay THEN queued ELSE IF own THEN Idle(popped) ELSE e
  BY Zenon DEF EndTask
<1> HIDE DEF queued, popped, x
<1>5. SameLicence(popped, Idle(popped)) /\ (~Inactive(e) => SameDue(popped, Idle(popped)))
  BY <1>1, <1>3, IdleKeeps
<1>6. SameLicence(e, x)
  BY <1>2, <1>3, <1>4, <1>5, LicenceChain
<1>7. ASSUME ~Inactive(e), NEW t \in Targets, Due(e, t),
             t = s /\ Delay /\ own => e.lost[t] > 0 \/ t \in e.parked
      PROVE  Due(x, t)
  <2>1. CASE ~Delay \/ ~own
    BY <1>2, <1>4, <1>7, <2>1, SameDueKeeps
  <2>2. CASE Delay /\ own
    <3>1. Due(popped, t)
      BY <1>3, <1>7, <2>2 DEF Due
    <3> QED BY <1>4, <1>5, <1>7, <2>2, <3>1, SameDueKeeps
  <2> QED BY <2>1, <2>2
<1> QED BY <1>6, <1>7 DEF x

LEMMA EnterKeeps ==
  ASSUME NEW e, Sound(e), e.callOn = NoTarget, NEW s \in Targets, NEW own \in BOOLEAN,
         NEW x, x = Enter(e, s, own)
  PROVE  /\ SameLicence(e, x)
         /\ ~Inactive(e) /\ x.sup # "active" => \A t \in Targets \ {s} : Due(e, t) => Due(x, t)
         /\ dev'[s] = "bad" /\ x.sup # "active" => x.callOn = s
<1> e \in EngineType
  BY DEF Sound
<1>1. CASE RateLimited(e)
  <2>1. Steady(e, x) /\ x.sup = "active"
    BY <1>1, EnterSteady
  <2> QED BY <2>1 DEF SameLicence, Steady
<1>2. CASE ~RateLimited(e) /\ dev'[s] = "skip"
  <2> DEFINE p == [e EXCEPT !.status = ArmedOrCooldown(e)]
  <2>1. Sound(p) /\ SameLicence(e, p) /\ SameDue(e, p)
    BY StatusType, StatusSound, StatusKeeps
  <2>2. x = EndTask(p, s, own)
    BY <1>2 DEF Enter
  <2> HIDE DEF p
  <2>3. /\ SameLicence(p, x)
        /\ ~Inactive(p) => \A t \in Targets \ {s} : Due(p, t) => Due(x, t)
    BY <2>1, <2>2, EndTaskKeeps
  <2>4. Inactive(p) <=> Inactive(e)
    BY <2>1 DEF SameLicence, Inactive
  <2>5. \A t \in Targets \ {s} : Due(e, t) => Due(p, t)
    BY <2>1 DEF SameDue, Due
  <2>6. SameLicence(e, x)
    BY <2>1, <2>3, LicenceChain
  <2>7. dev'[s] # "bad"
    BY <1>2
  <2> QED BY <2>3, <2>4, <2>5, <2>6, <2>7
<1>3. CASE ~RateLimited(e) /\ dev'[s] # "skip"
  <2>1. x = [e EXCEPT !.callOn = s, !.callOwn = own, !.forced = FALSE, !.unpainted = FALSE,
                      !.wasErr = (e.status = "error"), !.status = "enforcing"]
    BY <1>3 DEF Enter
  <2>2. SameLicence(e, x) /\ SameDue(e, x) /\ x.callOn = s
    BY <2>1 DEF SameLicence, SameDue, EngineType
  <2> QED BY <2>2, SameDueKeeps
<1> QED BY <1>1, <1>2, <1>3

\* Evaluating S leaves the enforcements of the other targets alone.
LEMMA CancelPendingKeeps ==
  ASSUME NEW e \in EngineType, NEW D, NEW t \in Targets, NEW c, c = CancelPending(e, D)
  PROVE  /\ t \notin D => c.pend[t] = e.pend[t] /\ c.lost[t] = e.lost[t]
         /\ c.parked = IF Delay THEN e.parked \ D ELSE e.parked
         /\ ~Delay => c.lost[t] = e.lost[t]
<1>1. /\ c.pend = [s \in Targets |-> IF s \in D THEN "none" ELSE e.pend[s]]
      /\ c.lost = [s \in Targets |-> IF Delay /\ s \in D /\ s \in e.parked
                                     THEN e.lost[s] + 1 ELSE e.lost[s]]
      /\ c.parked = IF Delay THEN e.parked \ D ELSE e.parked
  BY DEF CancelPending, EngineType
<1> QED BY <1>1

LEMMA EvaluateLiveKeeps ==
  ASSUME NEW e, Sound(e), NoStray(e), NEW S \in SUBSET Targets, NEW x \in EvaluateLive(e, S),
         NEW t \in Targets \ S, Due(e, t)
  PROVE  Att(x, t)
<1> e \in EngineType
  BY DEF Sound
<1>1. CASE Delay
  <2> DEFINE base  == CancelPending(e, Acting(e, S) \cup Quiet(S))
             pend  == [s \in Targets |-> IF s \in Acting(e, S) THEN "armed" ELSE base.pend[s]]
             armed == [base EXCEPT !.pend = pend]
  <2>1. PICK st \in Left(armed, S) : x = [armed EXCEPT !.status = st]
    BY <1>1 DEF EvaluateLive, EvaluateDelayed
  <2>2. t \notin Acting(e, S) \cup Quiet(S)
    BY DEF Acting, Quiet
  <2>3. /\ base \in EngineType /\ base.pend[t] = e.pend[t]
        /\ base.parked = e.parked \ (Acting(e, S) \cup Quiet(S)) /\ base.lost[t] = e.lost[t]
    <3>1. base \in EngineType
      BY CancelPendingSound DEF Sound
    <3> QED BY <1>1, <2>2, <3>1, CancelPendingKeeps
  <2> HIDE DEF base
  <2>4. x.parked = base.parked /\ x.lost = base.lost /\ x.pend[t] = base.pend[t]
    BY <2>1, <2>2, <2>3 DEF EngineType
  <2> QED BY <2>2, <2>3, <2>4 DEF Due, Att
<1>2. CASE ~Delay
  <2> DEFINE base == CancelPending(e, Quiet(S))
             first(s, st) == FirstEnters([base EXCEPT !.status = st], s, S)
             queued(st) == [base EXCEPT !.parked = @ \cup Acting(e, S), !.status = st]
             before == Painted(base, S) \cup {base.status}
  <2>1. x \in IF LockIdle(base) /\ Acting(e, S) # {}
              THEN UNION {UNION {first(s, st) : st \in before} : s \in Acting(e, S)}
              ELSE {queued(st) : st \in Left(base, S)}
    BY <1>2, Zenon DEF EvaluateLive, EvaluateNow
  <2>2. base \in EngineType /\ base.parked = e.parked /\ base.lost[t] = e.lost[t]
    <3>1. base \in EngineType
      BY CancelPendingSound DEF Sound
    <3> QED BY <1>2, <3>1, CancelPendingKeeps
  <2>3. t \in e.parked \/ e.lost[t] > 0
    BY <1>2 DEF NoStray, Due
  <2>4. ~LockIdle(base)
    BY <2>2, <2>3 DEF LockIdle
  <2> HIDE DEF base, first
  <2>5. PICK st : x = queued(st)
    BY <2>1, <2>4
  <2>6. x.parked = base.parked \cup Acting(e, S) /\ x.lost = base.lost
    BY <2>2, <2>5 DEF EngineType
  <2> QED BY <2>2, <2>3, <2>6 DEF Att
<1> QED BY <1>1, <1>2

LEMMA EvaluateKeeps ==
  ASSUME NEW e, Sound(e), NoStray(e), e.sup = "none", NEW S \in SUBSET Targets,
         NEW x \in Evaluate(e, S), Licensed(x), NEW t \in Targets \ S, Due(e, t)
  PROVE  Att(x, t)
<1> DEFINE r == ReplaceTasks(e, S)
           c == IF r.sup = "elapsed" THEN ClearSuppression(r) ELSE r
<1>1. Evaluated(e, S) = S
  BY DEF Evaluated
<1>2. PICK o \in EvaluateLive(c, S) : o \in EngineType /\ x = Started(o, S)
  BY <1>1, EvaluateReaches
<1>3. /\ Sound(r) /\ r.sup = e.sup /\ r.pend = e.pend /\ r.lost = e.lost
      /\ t \in e.parked => t \in r.parked
  <2>1. Sound(r)
    BY ReplaceTasksSound
  <2>2. CASE Delay
    BY <2>1, <2>2 DEF ReplaceTasks
  <2>3. CASE ~Delay
    <3>1. r = [e EXCEPT !.due     = [s \in Targets |-> e.due[s] \/ s \in S \cap e.parked],
                        !.parked  = e.parked \ S,
                        !.callOwn = e.callOwn /\ e.callOn \notin S]
      BY <2>3 DEF ReplaceTasks
    <3> HIDE DEF r
    <3>2. r.sup = e.sup /\ r.pend = e.pend /\ r.lost = e.lost /\ r.parked = e.parked \ S
      BY <3>1 DEF Sound, EngineType
    <3> QED BY <2>1, <3>2
  <2> QED BY <2>2, <2>3
<1> HIDE DEF r
<1>4. c = r
  BY <1>3
<1>5. NoStray(r) /\ Due(r, t)
  BY <1>3 DEF NoStray, Due
<1>6. Att(o, t)
  BY <1>2, <1>3, <1>4, <1>5, EvaluateLiveKeeps
<1> QED BY <1>2, <1>6, StartedAtt

-----------------------------------------------------------------------------
(* The actions.  What a step leaves enforceable, and what was not in its   *)
(* cooldown before, is attended to after the step, unless it could be      *)
(* enforced before and no enforcement was due.                             *)

Ready(x, t) == /\ t \in Targets /\ Licensed(x) /\ x.sup = "none"
               /\ dev'[t] = "bad" /\ ~x.cool[t]

Answered(x, t) == Att(x, t) \/ (Guardable(t) /\ ~Due(eng, t))

\* A step that evaluates nothing loses nothing that is due.
LEMMA CalmAnswers ==
  ASSUME NEW t \in Targets, UNCHANGED World, ~eng.cool[t], Ready(eng', t),
         SameLicence(eng, eng'), Due(eng, t) => Att(eng', t)
  PROVE  Answered(eng', t)
<1>1. dev = dev' /\ flag = flag' /\ master = master'
  BY DEF World
<1>2. eng.sup = "none"
  BY DEF SameLicence, Ready
<1>3. eng.loaded /\ eng.started /\ eng.enabled
  BY DEF SameLicence, Ready, Licensed
<1>4. Guardable(t)
  BY <1>1, <1>2, <1>3 DEF Guardable, MayAct, Ready, Licensed
<1> QED BY <1>4 DEF Answered

LEMMA RepaintAnswers ==
  ASSUME NEW t \in Targets, UNCHANGED World, ~eng.cool[t], Ready(eng', t),
         NEW e \in EngineType, SameLicence(eng, e), SameDue(eng, e), eng' = Idle(e)
  PROVE  Answered(eng', t)
<1>1. SameLicence(e, eng') /\ (~Inactive(e) => SameDue(e, eng'))
  BY IdleKeeps
<1>2. ~Inactive(e)
  BY <1>1 DEF SameLicence, Ready, Licensed, Inactive
<1>3. Due(eng, t) => Att(eng', t)
  BY <1>1, <1>2, SameDueKeeps
<1>4. SameLicence(eng, eng')
  BY <1>1, LicenceChain
<1> QED BY <1>3, <1>4, CalmAnswers

LEMMA OperationsAnswer ==
  ASSUME IInv, Operations, NEW t \in Targets, ~eng.cool[t], Ready(eng', t)
  PROVE  Answered(eng', t)
<1> Sound(eng) /\ eng \in EngineType
  BY DEF IInv, Sound
<1>0. Licensed(eng') /\ dev'[t] = "bad"
  BY DEF Ready
<1>1. ASSUME NEW on \in BOOLEAN, MasterSet(on) PROVE Answered(eng', t)
  <2>1. eng' \in IF eng.loaded
                 THEN Sweep(IF on /\ Idle(eng).status = "cooldown"
                            THEN RearmCooldownBroadcasts(Idle(eng)) ELSE Idle(eng))
                 ELSE {eng}
    BY <1>1, Zenon DEF MasterSet
  <2>2. eng.loaded
    BY <1>0, <2>1 DEF Licensed
  <2>3. Wanted(eng, t)
    BY <1>0 DEF Wanted
  <2> QED BY <1>0, <2>1, <2>2, <2>3, SwitchAttends DEF Answered
<1>2. ASSUME NEW on \in BOOLEAN, SetEnabled(on) PROVE Answered(eng', t)
  <2> DEFINE e    == [eng EXCEPT !.enabled = on]
             kept == IF e.sup = "elapsed" THEN ClearSuppression(e) ELSE e
             sched == ScheduleSuppressionTimer(kept)
             idle == Idle(sched)
             off  == [e EXCEPT !.supTimer = FALSE]
  <2>1. eng' \in IF on THEN Sweep(IF idle.status = "cooldown"
                                  THEN RearmCooldownBroadcasts(idle) ELSE idle)
                 ELSE {Idle(off)}
    BY <1>2, Zenon DEF SetEnabled
  <2>2. e \in EngineType /\ Capped(e) /\ e.cool = eng.cool
    BY DEF Sound, Capped, EngineType
  <2>3. ~on => off \in EngineType /\ ~off.enabled
    BY DEF EngineType
  <2> HIDE DEF e, off
  <2>4. kept \in EngineType /\ Capped(kept) /\ kept.cool = e.cool
    BY <2>2, ClearSuppressionSound, ClearedSteady DEF Sound, Steady
  <2> HIDE DEF kept
  <2>5. Sound(sched) /\ sched.cool = kept.cool
    BY <2>4, ScheduleSuppressionTimerSound DEF ScheduleSuppressionTimer, EngineType
  <2> HIDE DEF sched
  <2>6. CASE on
    <3>1. eng' \in Sweep(IF TRUE /\ Idle(sched).status = "cooldown"
                         THEN RearmCooldownBroadcasts(Idle(sched)) ELSE Idle(sched))
      BY <2>1, <2>6
    <3>2. Wanted(sched, t)
      BY <1>0, <2>2, <2>4, <2>5 DEF Wanted
    <3> QED BY <1>0, <2>5, <3>1, <3>2, SwitchAttends DEF Answered
  <2>7. CASE ~on
    BY <1>0, <2>1, <2>3, <2>7, IdleSteady DEF Licensed, Steady
  <2> QED BY <2>6, <2>7
<1>3. ASSUME Suppress PROVE Answered(eng', t)
  <2> DEFINE hit == [eng EXCEPT !.sup = "active"]
             sched == ScheduleSuppressionTimer(hit)
             e == CancelPending(sched, Targets)
  <2>1. hit \in EngineType /\ hit.sup = "active"
    BY DEF EngineType
  <2> HIDE DEF hit
  <2>2. sched \in EngineType /\ sched.sup = "active"
    BY <2>1 DEF ScheduleSuppressionTimer, EngineType
  <2> HIDE DEF sched
  <2>3. e \in EngineType /\ e.sup = "active"
    <3>1. Sound(sched)
      BY <2>1, ScheduleSuppressionTimerSound DEF sched, hit, Sound, Capped, EngineType
    <3>2. Sound(e) /\ Steady(sched, e)
      BY <2>2, <3>1, CancelPendingSound, SimpleSteady
    <3> QED BY <2>2, <3>2 DEF Sound, Steady
  <2>4. eng' = IF e.status = "error" THEN e ELSE Idle(e)
    BY <1>3 DEF Suppress, e, sched, hit
  <2> HIDE DEF e
  <2>5. eng'.sup = "active"
    BY <2>3, <2>4, IdleKeeps DEF SameLicence
  <2> QED BY <1>0, <2>5 DEF Licensed
<1>4. ASSUME Unsuppress PROVE Answered(eng', t)
  <2>1. Sound(ClearSuppression(eng)) /\ Wanted(ClearSuppression(eng), t)
    BY <1>0, ClearSuppressionSound DEF Sound, Wanted, ClearSuppression, EngineType
  <2> QED BY <1>0, <1>4, <2>1, ResumeAttends DEF Unsuppress, Answered
<1>5. ASSUME ResetCooldowns PROVE Answered(eng', t)
  <2> DEFINE e == [ScheduleSuppressionTimer(eng) EXCEPT
                       !.cool = [s \in Targets |-> FALSE],
                       !.coolTimer = [s \in Targets |-> FALSE],
                       !.succs = 0]
  <2>1. e \in EngineType /\ SameLicence(eng, e) /\ SameDue(eng, e)
    <3>1. e \in EngineType
      BY ScheduleSuppressionTimerSound, ResetSound DEF Sound
    <3>2. SameLicence(eng, e) /\ SameDue(eng, e)
      BY DEF EngineType, ScheduleSuppressionTimer, SameLicence, SameDue
    <3> QED BY <3>1, <3>2
  <2>2. eng' = Idle(e) /\ UNCHANGED World
    BY <1>5 DEF ResetCooldowns
  <2> HIDE DEF e
  <2> QED BY <2>1, <2>2, RepaintAnswers
<1>6. ASSUME ClearHistory PROVE Answered(eng', t)
  <2>1. UNCHANGED World /\ SameLicence(eng, eng') /\ SameDue(eng, eng')
    BY <1>6 DEF ClearHistory, ScheduleSuppressionTimer, SameLicence, SameDue, EngineType
  <2> QED BY <2>1, SameDueKeeps, CalmAnswers
<1>7. ASSUME ClearHistoryRepaints PROVE Answered(eng', t)
  <2> DEFINE e == [eng EXCEPT !.clearing = FALSE,
                              !.status = IF @ = "error" THEN "starting" ELSE @]
  <2>1. e \in EngineType /\ SameLicence(eng, e) /\ SameDue(eng, e)
    <3>1. e \in EngineType
      BY HistoryClearedSound DEF Sound
    <3>2. SameLicence(eng, e) /\ SameDue(eng, e)
      BY DEF EngineType, SameLicence, SameDue
    <3> QED BY <3>1, <3>2
  <2>2. eng' = Idle(e) /\ UNCHANGED World
    BY <1>7 DEF ClearHistoryRepaints
  <2> HIDE DEF e
  <2> QED BY <2>1, <2>2, RepaintAnswers
<1>8. ASSUME Unload PROVE Answered(eng', t)
  <2> DEFINE e == CancelPending(ReplaceTasks(eng, Targets), Targets)
  <2>1. e \in EngineType
    BY ReplaceTasksSound, CancelPendingSound DEF Sound
  <2>2. eng' = [e EXCEPT !.loaded = FALSE, !.supTimer = FALSE,
                         !.coolTimer = [s \in Targets |-> FALSE]]
    BY <1>8 DEF Unload
  <2> HIDE DEF e
  <2> QED BY <1>0, <2>1, <2>2 DEF Licensed, EngineType
<1>9. ASSUME Press PROVE Answered(eng', t)
  <2>1. UNCHANGED World /\ SameLicence(eng, eng') /\ SameDue(eng, eng')
    BY <1>9, PressLeaves DEF PassOnly, Kept, SameLicence, SameDue
  <2> QED BY <2>1, SameDueKeeps, CalmAnswers
<1> QED BY <1>1, <1>2, <1>3, <1>4, <1>5, <1>6, <1>7, <1>8, <1>9 DEF Operations

LEMMA CallbacksAnswer ==
  ASSUME IInv, NoStray(eng),
         FlagMoves \/ SourceMoves \/ Clock \/ \E s \in Targets : DeviceMoves(s),
         NEW t \in Targets, ~eng.cool[t], Ready(eng', t)
  PROVE  Answered(eng', t)
<1> Sound(eng) /\ eng \in EngineType
  BY DEF IInv, Sound
<1>0. Licensed(eng') /\ Wanted(eng, t) /\ eng'.sup = "none" /\ dev'[t] = "bad"
  BY DEF Ready, Wanted
<1>1. ASSUME NEW s \in Targets, DeviceMoves(s) PROVE Answered(eng', t)
  <2>1. PICK v : dev' = [dev EXCEPT ![s] = v]
    BY <1>1 DEF DeviceMoves
  <2>2. /\ eng' \in IF eng.loaded THEN Evaluate(eng, {s}) ELSE {eng}
        /\ UNCHANGED <<flag, master>>
    BY <1>1 DEF DeviceMoves
  <2>3. eng.loaded /\ eng' \in Evaluate(eng, {s})
    BY <1>0, <2>2 DEF Licensed
  <2>4. Steady(eng, eng')
    BY <2>3, EvaluateSteady
  <2>5. CASE t \in Evaluated(eng, {s})
    BY <1>0, <2>3, <2>5, EvaluateAttends DEF Answered
  <2>6. CASE t \notin Evaluated(eng, {s})
    <3>1. t # s
      BY <2>6 DEF Evaluated
    <3>2. ~Inactive(eng) /\ eng.started /\ master /\ flag
      BY <1>0, <2>2, <2>4 DEF Licensed, Steady, Inactive
    <3>3. eng.sup = "none"
      <4>1. eng.sup # "elapsed"
        BY <2>6, <3>2 DEF Evaluated
      <4> QED BY <1>0, <2>4, <4>1 DEF Steady
    <3>4. dev[t] = "bad"
      BY <1>0, <2>1, <3>1 DEF IInv, WorldOK
    <3>5. Guardable(t)
      BY <2>3, <3>2, <3>3, <3>4 DEF Guardable, MayAct, Inactive
    <3>6. Due(eng, t) => Att(eng', t)
      BY <1>0, <2>3, <3>1, <3>3, EvaluateKeeps
    <3> QED BY <3>5, <3>6 DEF Answered
  <2> QED BY <2>5, <2>6
<1>2. ASSUME FlagMoves PROVE Answered(eng', t)
  <2>1. eng' \in EvaluateFlag(eng)
    BY <1>0, <1>2 DEF FlagMoves, Licensed
  <2> QED BY <1>0, <2>1, EvaluateFlagAttends DEF Answered
<1>3. ASSUME SourceMoves PROVE Answered(eng', t)
  <2>1. eng' \in EvaluateSource(eng)
    BY <1>0, <1>3 DEF SourceMoves, Licensed
  <2> QED BY <1>0, <2>1, EvaluateSourceAttends DEF Answered
<1>4. ASSUME GraceDone PROVE Answered(eng', t)
  <2> DEFINE y == [eng EXCEPT !.started = TRUE]
  <2>1. Sound(y) /\ y.cool = eng.cool
    BY DEF Sound, Capped, Watched, EngineType
  <2>2. eng' \in Sweep(Idle(y))
    BY <1>4 DEF GraceDone
  <2> HIDE DEF y
  <2>3. Wanted(y, t)
    BY <1>0, <2>1 DEF Wanted
  <2> QED BY <1>0, <2>1, <2>2, <2>3, ResumeAttends DEF Answered
<1>5. ASSUME Midnight PROVE Answered(eng', t)
  <2>1. eng' = Idle(eng) /\ UNCHANGED World
    BY <1>5 DEF Midnight
  <2>2. SameLicence(eng, eng) /\ SameDue(eng, eng)
    BY DEF SameLicence, SameDue
  <2> QED BY <2>1, <2>2, RepaintAnswers
<1>6. ASSUME SuppressionTimerFires PROVE Answered(eng', t)
  <2>1. Sound(ClearSuppression(eng)) /\ Wanted(ClearSuppression(eng), t)
    BY <1>0, ClearSuppressionSound DEF Sound, Wanted, ClearSuppression, EngineType
  <2> QED BY <1>0, <1>6, <2>1, ResumeAttends DEF SuppressionTimerFires, Answered
<1>7. ASSUME SuppressionElapses PROVE Answered(eng', t)
  BY <1>0, <1>7 DEF SuppressionElapses, EngineType
<1>8. ASSUME WindowAges \/ \E s \in Targets : CooldownElapses(s) PROVE Answered(eng', t)
  <2>1. UNCHANGED World /\ SameLicence(eng, eng') /\ SameDue(eng, eng')
    BY <1>8 DEF WindowAges, CooldownElapses, SameLicence, SameDue, EngineType
  <2> QED BY <2>1, SameDueKeeps, CalmAnswers
<1>9. ASSUME NEW s \in Targets, CooldownTimerFires(s) PROVE Answered(eng', t)
  <2> DEFINE e == [eng EXCEPT !.coolTimer[s] = FALSE]
  <2>1. e \in EngineType /\ SameLicence(eng, e) /\ SameDue(eng, e)
    BY DEF EngineType, SameLicence, SameDue
  <2>2. eng' = (IF e.loaded THEN Idle(e) ELSE e) /\ UNCHANGED World
    BY <1>9 DEF CooldownTimerFires
  <2> HIDE DEF e
  <2>3. eng' = Idle(e)
    BY <1>0, <2>2 DEF Licensed
  <2> QED BY <2>1, <2>2, <2>3, RepaintAnswers
<1> QED BY <1>1, <1>2, <1>3, <1>4, <1>5, <1>6, <1>7, <1>8, <1>9 DEF Clock

LEMMA TasksAnswer ==
  ASSUME IInv, Owned(eng), Tasks, NEW t \in Targets, ~eng.cool[t], Ready(eng', t)
  PROVE  Answered(eng', t)
<1> Sound(eng) /\ eng \in EngineType
  BY DEF IInv, Sound
<1>0. eng'.sup # "active" /\ dev'[t] = "bad" /\ Licensed(eng')
  BY DEF Ready
\* A waiting enforcement of s that gets the lock, for the three ways to get it.
<1>1. ASSUME NEW e, Sound(e), NEW s \in Targets, NEW own \in BOOLEAN, eng' = Enter(e, s, own),
             SameLicence(eng, e), \A u \in Targets \ {s} : Due(eng, u) => Due(e, u),
             e.callOn = NoTarget, UNCHANGED World
      PROVE  Answered(eng', t)
  <2>1. /\ SameLicence(e, eng')
        /\ ~Inactive(e) /\ eng'.sup # "active" =>
             \A u \in Targets \ {s} : Due(e, u) => Due(eng', u)
        /\ dev'[s] = "bad" /\ eng'.sup # "active" => eng'.callOn = s
    BY <1>1, EnterKeeps
  <2>2. ~Inactive(e)
    BY <1>0, <2>1 DEF SameLicence, Licensed, Inactive
  <2>3. Due(eng, t) => Att(eng', t)
    <3>1. CASE t = s
      BY <1>0, <2>1, <3>1 DEF Att
    <3>2. CASE t # s
      BY <1>0, <1>1, <2>1, <2>2, <3>2, DueAtt
    <3> QED BY <3>1, <3>2
  <2>4. SameLicence(eng, eng')
    BY <1>1, <2>1, LicenceChain
  <2> QED BY <1>1, <2>3, <2>4, CalmAnswers
<1>2. ASSUME NEW s \in Targets, DelayTimerFires(s) PROVE Answered(eng', t)
  <2> DEFINE dropped == [eng EXCEPT !.pend[s] = "none"]
             firing  == [eng EXCEPT !.pend[s] = "firing"]
             blocked == [dropped EXCEPT !.status = ArmedOrCooldown(dropped)]
             queued  == [firing EXCEPT !.parked = @ \cup {s}]
  <2>1. /\ eng' = IF Inactive(eng) THEN Idle(eng)
                  ELSE IF eng.sup = "active" THEN Idle(dropped)
                  ELSE IF dev[s] # "bad" \/ ~flag THEN blocked
                  ELSE Acquire(firing, s)
        /\ UNCHANGED World
    BY <1>2, Zenon DEF DelayTimerFires
  <2>2. /\ Sound(dropped) /\ Sound(firing)
        /\ SameLicence(eng, dropped) /\ SameLicence(eng, firing) /\ dropped.sup = eng.sup
        /\ dropped.parked = eng.parked /\ firing.parked = eng.parked
        /\ dropped.lost = eng.lost /\ firing.lost = eng.lost
    BY DEF Sound, Capped, Watched, EngineType, SameLicence
  <2>3. \A u \in Targets \ {s} : dropped.pend[u] = eng.pend[u] /\ firing.pend[u] = eng.pend[u]
    BY DEF EngineType
  <2> HIDE DEF dropped, firing
  <2>4. \A u \in Targets \ {s} : (Due(eng, u) => Due(dropped, u)) /\ (Due(eng, u) => Due(firing, u))
    BY <2>2, <2>3 DEF Due
  <2>5. ~Inactive(eng)
    <3>1. SameLicence(eng, Idle(eng))
      BY IdleKeeps
    <3> QED BY <1>0, <2>1, <3>1 DEF SameLicence, Licensed, Inactive
  <2>6. eng.sup # "active"
    <3>1. SameLicence(dropped, Idle(dropped))
      BY <2>2, IdleKeeps DEF Sound
    <3> QED BY <1>0, <2>1, <2>2, <2>5, <3>1 DEF SameLicence
  <2>7. CASE eng' = blocked
    <3>1. SameLicence(dropped, eng') /\ SameDue(dropped, eng')
      BY <2>2, <2>7, StatusKeeps DEF Sound
    <3>2. SameLicence(eng, eng')
      BY <2>2, <3>1, LicenceChain
    <3>3. CASE t # s
      <4>1. Due(eng, t) => Att(eng', t)
        BY <2>4, <3>1, <3>3, SameDueKeeps
      <4> QED BY <2>1, <3>2, <4>1, CalmAnswers
    <3>4. CASE t = s /\ (dev[s] # "bad" \/ ~flag)
      BY <1>0, <2>1, <3>4 DEF World, Licensed
    <3>5. CASE t = s /\ dev[s] = "bad" /\ flag
      <4>1. eng' = Acquire(firing, s)
        BY <2>1, <2>5, <2>6, <3>5
      <4>2. \/ eng' = Enter(firing, s, TRUE) /\ firing.callOn = NoTarget
            \/ eng' = queued
        BY <4>1 DEF Acquire, LockIdle
      <4>3. ASSUME eng' = queued PROVE Answered(eng', t)
        <5>1. eng'.parked = firing.parked \cup {s}
          BY <2>2, <4>3 DEF Sound, EngineType
        <5> QED BY <3>5, <5>1 DEF Answered, Att
      <4> QED BY <1>1, <2>1, <2>2, <2>4, <4>2, <4>3
    <3> QED BY <3>3, <3>4, <3>5
  <2>8. CASE eng' = Acquire(firing, s)
    <3>1. \/ eng' = Enter(firing, s, TRUE) /\ firing.callOn = NoTarget
          \/ eng' = queued
      BY <2>8 DEF Acquire, LockIdle
    <3>2. ASSUME eng' = queued PROVE Answered(eng', t)
      <4>1. /\ eng'.parked = firing.parked \cup {s} /\ eng'.lost = firing.lost
            /\ eng'.pend = firing.pend /\ SameLicence(firing, eng')
        BY <2>2, <3>2 DEF Sound, EngineType, SameLicence
      <4>2. Due(eng, t) => Att(eng', t)
        <5>1. CASE t = s
          BY <4>1, <5>1 DEF Att
        <5>2. CASE t # s
          BY <2>4, <4>1, <5>2 DEF Due, Att
        <5> QED BY <5>1, <5>2
      <4>3. SameLicence(eng, eng')
        BY <2>2, <4>1, LicenceChain
      <4> QED BY <2>1, <4>2, <4>3, CalmAnswers
    <3>3. ASSUME eng' = Enter(firing, s, TRUE), firing.callOn = NoTarget
          PROVE  Answered(eng', t)
      BY <1>1, <2>1, <2>2, <2>4, <3>3
    <3> QED BY <3>1, <3>2, <3>3
  <2> HIDE DEF blocked
  <2> QED BY <2>1, <2>5, <2>6, <2>7, <2>8
<1>3. ASSUME NEW s \in Targets, OwnerGranted(s) PROVE Answered(eng', t)
  <2> DEFINE e == [eng EXCEPT !.parked = @ \ {s}]
  <2>1. /\ Sound(e) /\ SameLicence(eng, e) /\ e.pend = eng.pend /\ e.lost = eng.lost
        /\ e.parked = eng.parked \ {s} /\ e.callOn = eng.callOn
    BY DEF Sound, Capped, Watched, EngineType, SameLicence
  <2>2. eng' = Enter(e, s, TRUE) /\ UNCHANGED World /\ eng.callOn = NoTarget
    BY <1>3 DEF OwnerGranted
  <2> HIDE DEF e
  <2>3. \A u \in Targets \ {s} : Due(eng, u) => Due(e, u)
    BY <2>1 DEF Due
  <2> QED BY <1>1, <2>1, <2>2, <2>3
<1>4. ASSUME NEW s \in Targets, LostGranted(s) PROVE Answered(eng', t)
  <2> DEFINE e == [eng EXCEPT !.lost[s] = @ - 1]
  <2>1. /\ Sound(e) /\ SameLicence(eng, e) /\ e.pend = eng.pend /\ e.parked = eng.parked
        /\ \A u \in Targets \ {s} : e.lost[u] = eng.lost[u]
        /\ e.callOn = eng.callOn
    BY <1>4 DEF LostGranted, Sound, Capped, Watched, EngineType, SameLicence
  <2>2. eng' = Enter(e, s, FALSE) /\ UNCHANGED World /\ eng.callOn = NoTarget
    BY <1>4 DEF LostGranted
  <2> HIDE DEF e
  <2>3. \A u \in Targets \ {s} : Due(eng, u) => Due(e, u)
    BY <2>1 DEF Due
  <2> QED BY <1>1, <2>1, <2>2, <2>3
<1>5. ASSUME NEW s \in Targets, DoneCallback(s) PROVE Answered(eng', t)
  <2>1. /\ UNCHANGED World /\ SameLicence(eng, eng')
        /\ eng'.pend = eng.pend /\ eng'.parked = eng.parked \ {s}
    BY <1>5 DEF DoneCallback, EngineType, SameLicence
  <2>2. eng'.lost = [eng.lost EXCEPT ![s] = IF s \in eng.parked THEN @ + 1 ELSE @]
    BY <1>5 DEF DoneCallback, EngineType
  <2>3. eng.lost \in [Targets -> Nat]
    BY DEF EngineType
  <2>4. Due(eng, t) => Att(eng', t)
    BY <2>1, <2>2, <2>3 DEF Due, Att
  <2> QED BY <2>1, <2>4, CalmAnswers
\* The end of a call: a handle that is popped belongs to a countdown that has fired.
<1>6. ASSUME NEW p, Sound(p), NEW s \in Targets, SameLicence(eng, p), SameDue(eng, p),
             eng.callOn = s, eng' = EndTask(p, s, eng.callOwn), UNCHANGED World
      PROVE  Answered(eng', t)
  <2>1. /\ SameLicence(p, eng')
        /\ ~Inactive(p) =>
             (Due(p, t) /\ (t = s /\ Delay /\ eng.callOwn => p.lost[t] > 0 \/ t \in p.parked)
                => Due(eng', t))
    BY <1>6, EndTaskKeeps
  <2>2. ~Inactive(p)
    BY <1>0, <2>1 DEF SameLicence, Licensed, Inactive
  <2>3. ASSUME Due(eng, t) PROVE Att(eng', t)
    <3>1. Due(p, t)
      BY <1>6, <2>3, SameDueKeeps
    <3>2. t = s /\ Delay /\ eng.callOwn => p.lost[t] > 0 \/ t \in p.parked
      BY <1>6, <2>3 DEF Owned, Due, SameDue
    <3> QED BY <2>1, <2>2, <3>1, <3>2, DueAtt
  <2>4. SameLicence(eng, eng')
    BY <1>6, <2>1, LicenceChain
  <2> QED BY <1>6, <2>3, <2>4, CalmAnswers
<1>7. ASSUME NEW p, SameWork(eng, p) PROVE SameLicence(eng, p) /\ SameDue(eng, p)
  BY <1>7 DEF SameWork, SameLicence, SameDue
\* What a pass leaves, repainted or not.
<1>8. ASSUME NEW p, Sound(p), SameLicence(eng, p), SameDue(eng, p), NEW r \in {p, Idle(p)},
             PassOnly(r, eng'), UNCHANGED World
      PROVE  Answered(eng', t)
  <2>1. SameLicence(r, eng') /\ SameDue(r, eng')
    BY <1>8 DEF PassOnly, Kept, SameLicence, SameDue
  <2>2. SameLicence(p, r) /\ (~Inactive(p) => SameDue(p, r))
    BY <1>8, IdleKeeps DEF Sound, SameLicence, SameDue
  <2>3. ~Inactive(p)
    BY <1>0, <2>1, <2>2 DEF SameLicence, Licensed, Inactive
  <2>4. SameLicence(eng, eng') /\ SameDue(eng, eng')
    BY <1>8, <2>1, <2>2, <2>3, LicenceChain DEF SameDue
  <2> QED BY <1>8, <2>4, SameDueKeeps, CalmAnswers
<1>9. ASSUME CallEnds PROVE Answered(eng', t)
  <2>1. PICK s \in Targets : \E p : Ended(s, p)
    BY <1>9, CallEndsSound
  <2>2. PICK p : Ended(s, p)
    BY <2>1
  <2>3. /\ Sound(p) /\ SameLicence(eng, p) /\ SameDue(eng, p) /\ eng.callOn = s
        /\ UNCHANGED World
    BY <1>7, <1>9, <2>2, CallEndsSound DEF Ended
  <2>4. CASE eng.forced
    BY <1>8, <2>2, <2>3, <2>4 DEF Ended
  <2>5. CASE ~eng.forced
    BY <1>6, <2>2, <2>3, <2>5 DEF Ended
  <2> QED BY <2>4, <2>5
<1>10. ASSUME NEW s \in Targets, TurnGranted(s) PROVE Answered(eng', t)
  <2>1. UNCHANGED World
    BY <1>10, TurnLeaves
  <2>2. CASE Called(s)
    <3>1. SameLicence(eng, eng') /\ SameDue(eng, eng')
      BY <2>2 DEF Called, SameLicence, SameDue
    <3> QED BY <2>1, <3>1, SameDueKeeps, CalmAnswers
  <2>3. ASSUME NEW p, NEW r, Skipped(p, r) PROVE Answered(eng', t)
    <3>1. Sound(p) /\ SameLicence(eng, p) /\ SameDue(eng, p) /\ r \in {p, Idle(p)}
          /\ PassOnly(r, eng')
      BY <2>3 DEF Skipped, Kept, SameLicence, SameDue
    <3> QED BY <1>8, <2>1, <3>1
  <2> QED BY <1>10, <2>2, <2>3, TurnLeaves
<1> QED BY <1>2, <1>3, <1>4, <1>5, <1>9, <1>10 DEF Tasks

LEMMA StepsAnswer ==
  ASSUME IInv, Lit(eng), Owned(eng), Next, NEW t \in Targets, ~eng.cool[t], Guardable(t)'
  PROVE  Answered(eng', t)
<1>1. Ready(eng', t)
  BY DEF Guardable, MayAct, Ready, Licensed
<1>2. NoStray(eng)
  BY DEF Lit
<1> QED BY <1>1, <1>2, OperationsAnswer, CallbacksAnswer, TasksAnswer DEF Next

\* A violation that becomes enforceable, for whatever reason but the end of a cooldown,
\* is scheduled, queued or in its call when the handler that noticed returns.
THEOREM EveryOnsetIsAttended == Spec => OnsetIsAttended
<1>1. IInv /\ Lit(eng) /\ Owned(eng) /\ [Next]_vars
        => [\A t \in Targets :
              ~Guardable(t) /\ Guardable(t)' /\ ~eng.cool[t] => Attended(t)']_vars
  <2> SUFFICES ASSUME IInv, Lit(eng), Owned(eng), Next, NEW t \in Targets,
                      ~Guardable(t), Guardable(t)', ~eng.cool[t]
               PROVE  Attended(t)'
    OBVIOUS
  <2>1. Answered(eng', t)
    BY StepsAnswer
  <2>2. Att(eng', t)
    BY <2>1 DEF Answered
  <2> QED BY <2>2 DEF Att, Attended
<1> QED BY <1>1, Invariance, LitInvariance, HandlesInvariance, PTL DEF Spec, OnsetIsAttended

\* An enforcement that is due for a violation that stays enforceable is not dropped:
\* every step leaves the target attended, whatever it cancels, replaces or ends.
THEOREM AttentionIsNeverDropped == Spec => AttentionIsKept
<1>1. IInv /\ Lit(eng) /\ Owned(eng) /\ [Next]_vars
        => [\A t \in Targets :
              /\ Guardable(t) /\ Guardable(t)'
              /\ eng.pend[t] = "armed" \/ t \in eng.parked \/ eng.lost[t] > 0
              => Attended(t)']_vars
  <2> SUFFICES ASSUME IInv, Lit(eng), Owned(eng), Next, NEW t \in Targets,
                      Guardable(t), Guardable(t)',
                      eng.pend[t] = "armed" \/ t \in eng.parked \/ eng.lost[t] > 0
               PROVE  Attended(t)'
    OBVIOUS
  <2>1. ~eng.cool[t] /\ Due(eng, t)
    BY DEF Guardable, Due
  <2>2. Answered(eng', t)
    BY <2>1, StepsAnswer
  <2>3. Att(eng', t)
    BY <2>1, <2>2 DEF Answered
  <2> QED BY <2>3 DEF Att, Attended
<1> QED BY <1>1, Invariance, LitInvariance, HandlesInvariance, PTL DEF Spec, AttentionIsKept

=============================================================================
