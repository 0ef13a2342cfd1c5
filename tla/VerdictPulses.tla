---------------------------- MODULE VerdictPulses ----------------------------
(***************************************************************************)
(* The four "recently enforced" flags of a rule engine (rule_engine.py):   *)
(* one for a command that was sent, and three for the verdict of a verify  *)
(* cycle, which exclude each other.  Each is a pulse: it goes on with a    *)
(* timer that turns it off again, and a second arming inside the window    *)
(* turns it off and on so that automations see another rising edge.        *)
(*                                                                         *)
(* Binary sensors show the flags; they re-read them on the dispatches of   *)
(* the engine only, which shown models.  since is history: the time since  *)
(* the last arming.                                                        *)
(***************************************************************************)
EXTENDS Naturals

CONSTANTS
    Window,  \* RECENTLY_ENFORCED_WINDOW_SECONDS, in ticks
    NoTimer  \* no reset timer is armed

ASSUME WindowAssumption == Window \in Nat \ {0} /\ NoTimer \notin Nat

Verdicts == {"verified", "unreachable", "cancelled"}
Pulses   == Verdicts \cup {"enforced"}

VARIABLES
    on,        \* on[p]: the flag _recently_enforced, _recently_enforced_verified, ...
    timer,     \* timer[p]: what is left of the reset timer of p
    shown,     \* shown[p]: the sensor of p as last written
    clearing,  \* async_clear_history waits for its save
    loaded,    \* ~_is_unloaded
    since

pulseVars == <<on, timer, shown, clearing, loaded, since>>

Off == [p \in Pulses |-> FALSE]

PulseInit ==
    /\ on = Off
    /\ timer = [p \in Pulses |-> NoTimer]
    /\ shown = Off
    /\ clearing = FALSE
    /\ loaded = TRUE
    /\ since = [p \in Pulses |-> 0]

-----------------------------------------------------------------------------
\* _clear_other_verdicts: the verdicts that an arming of p turns off; the base flag
\* is not in the group
OthersIncludingBase(p) ==  \* mutant: the base flag is treated as a verdict
    IF p \in Verdicts THEN {q \in Pulses \ {p} : on[q]} ELSE {}

Others(p) == IF p \in Verdicts THEN {q \in Verdicts \ {p} : on[q]} ELSE {}

\* A dispatch of the engine: every sensor of the rule reads its flag again
Repainted == shown' = on'

\* _arm_recently_enforced and its three twins.
ArmKeepsFirstTimer(p) ==  \* mutant: a timer that runs already is left alone
    /\ on' = [q \in Pulses |-> q = p \/ (on[q] /\ q \notin Others(p))]
    /\ timer' = [q \in Pulses |-> IF q = p /\ timer[p] = NoTimer THEN Window
                                  ELSE IF q \in Others(p) THEN NoTimer ELSE timer[q]]
    /\ Repainted
    /\ since' = [since EXCEPT ![p] = 0]
    /\ UNCHANGED <<clearing, loaded>>

Arm(p) ==
    /\ on' = [q \in Pulses |-> q = p \/ (on[q] /\ q \notin Others(p))]
    /\ timer' = [q \in Pulses |-> IF q = p THEN Window
                                  ELSE IF q \in Others(p) THEN NoTimer ELSE timer[q]]
    /\ Repainted
    /\ since' = [since EXCEPT ![p] = 0]
    /\ UNCHANGED <<clearing, loaded>>

\* _clear, the callback of the reset timer
TimerFires(p) ==
    /\ timer[p] = 0
    /\ timer' = [timer EXCEPT ![p] = NoTimer]
    /\ on' = [on EXCEPT ![p] = @ /\ ~loaded]
    /\ IF loaded THEN Repainted ELSE UNCHANGED shown
    /\ UNCHANGED <<clearing, loaded, since>>

\* Time passes while no timer is due
Tick ==
    /\ \A p \in Pulses : timer[p] # 0
    /\ timer' = [p \in Pulses |-> IF timer[p] = NoTimer THEN NoTimer ELSE timer[p] - 1]
    /\ since' = [p \in Pulses |-> IF since[p] < Window THEN since[p] + 1 ELSE Window]
    /\ UNCHANGED <<on, shown, clearing, loaded>>

\* async_reset_cooldowns: all four go, with a broadcast if one of them was on
ResetSilent ==  \* mutant: no broadcast when the status stays as it is
    /\ on' = Off
    /\ timer' = [p \in Pulses |-> NoTimer]
    /\ UNCHANGED <<shown, clearing, loaded, since>>

Reset ==
    /\ on' = Off
    /\ timer' = [p \in Pulses |-> NoTimer]
    /\ Repainted \/ (on = Off /\ UNCHANGED shown)
    /\ UNCHANGED <<clearing, loaded, since>>

\* async_clear_history: the same, and the broadcast after the await of the save
ClearHistory ==
    /\ ~clearing
    /\ on' = Off
    /\ timer' = [p \in Pulses |-> NoTimer]
    /\ clearing' = TRUE
    /\ UNCHANGED <<shown, loaded, since>>

ClearHistoryRepaints ==
    /\ clearing
    /\ clearing' = FALSE
    /\ UNCHANGED <<on, timer, loaded, since>>
    /\ Repainted

\* async_unload cancels the four timers and leaves the flags
Unload ==
    /\ loaded
    /\ loaded' = FALSE
    /\ timer' = [p \in Pulses |-> NoTimer]
    /\ UNCHANGED <<on, shown, clearing, since>>

PulseNext ==
    \/ \E p \in Verdicts : loaded /\ Arm(p)
    \/ \E p \in Pulses : TimerFires(p)
    \/ Tick
    \/ loaded /\ Reset
    \/ loaded /\ ClearHistory
    \/ ClearHistoryRepaints
    \/ Unload

-----------------------------------------------------------------------------
(* Properties.                                                             *)

\* Every variable has its type.
PulseTypeOK ==
    /\ on \in [Pulses -> BOOLEAN]
    /\ timer \in [Pulses -> 0 .. Window \cup {NoTimer}]
    /\ shown \in [Pulses -> BOOLEAN]
    /\ clearing \in BOOLEAN
    /\ loaded \in BOOLEAN
    /\ since \in [Pulses -> 0 .. Window]

\* A cycle has one verdict: the three verdict flags are never on together, and a flag
\* that is on has the timer that ends it exactly Window after its last arming.
PulsesAreTimed ==
    /\ \A p, q \in Verdicts : on[p] /\ on[q] => p = q
    /\ \A p \in Pulses : on[p] /\ loaded => /\ timer[p] # NoTimer
                                            /\ timer[p] + since[p] = Window

\* No pulse is cut short by the timer of an earlier arming or by its siblings: a flag
\* goes off at the end of its own window, by a reset or clear, or, for a verdict, as
\* another verdict goes on.  The base flag is not a verdict and outlives them.
NoPulseIsCutShort ==
    [][\A p \in Pulses : on[p] /\ ~on'[p] =>
         \/ since[p] = Window
         \/ on' = Off
         \/ p \in Verdicts /\ \E q \in Verdicts : on'[q] /\ ~on[q]]_pulseVars

\* The sensors never show a flag that is gone, except while a clear_history waits for
\* its save with nothing repainted since.
SensorsAreCurrent == ~clearing => shown = on
=============================================================================
