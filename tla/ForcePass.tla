------------------------------ MODULE ForcePass ------------------------------
(***************************************************************************)
(* The force button: async_test_enforce of rule_engine.py over several     *)
(* targets, with the enforced flag's pulse (VerdictPulses) that each       *)
(* command arms.                                                           *)
(*                                                                         *)
(* Every press starts a pass over all targets; each _enforce of a pass     *)
(* waits for the engine's reentrance_lock, which is served first come,     *)
(* first served, and which automatic enforcements take too.  The latest    *)
(* press wins: a pass looks at force_generation before each target.        *)
(*                                                                         *)
(* A turn at the lock sends a command or skips its target: a colour the    *)
(* light cannot show, a source offline or without a value, no service for  *)
(* the state; an automatic one may also be stopped by the limiter.  Which  *)
(* it is, is left open.  A skip has no await: the task leaves the lock in  *)
(* the step that took it.                                                  *)
(*                                                                         *)
(* ended, aborted and lastGen are history: the passes that are over, those *)
(* that a cancelled service call cut short, and the newest pass that has   *)
(* sent a command.                                                         *)
(***************************************************************************)
EXTENDS VerdictPulses, Sequences

CONSTANTS
    TargetCount,  \* number of target entities
    MaxPresses    \* bound: presses of the button

ASSUME ForceAssumption == TargetCount \in Nat \ {0} /\ MaxPresses \in Nat \ {0}

Passes == 1 .. MaxPresses

Automatic == 0  \* an automatic enforcement, among the waiters of the lock

VARIABLES
    generation,  \* force_generation, which is also the newest pass
    at,          \* at[i]: the target, counted from 1, that pass i is at
    ended,       \* the passes that have returned or raised
    aborted,     \* those that raised
    holder,      \* who holds the lock with its service call out, or Free
    waiters,     \* who waits for the lock, in order
    rearmed,     \* the passes that re-armed the suppression timer
    lastGen

forceVars == <<generation, at, ended, aborted, holder, waiters, rearmed, lastGen>>
vars == <<pulseVars, forceVars>>

Free == MaxPresses + 1

Init ==
    /\ PulseInit
    /\ generation = 0
    /\ at = [i \in Passes |-> 1]
    /\ ended = {}
    /\ aborted = {}
    /\ holder = Free
    /\ waiters = <<>>
    /\ rearmed = {}
    /\ lastGen = 0

-----------------------------------------------------------------------------
\* A command of x leaves
Sends(x) == lastGen' = IF x > lastGen THEN x ELSE lastGen

\* Pass i is over; only the newest re-arms the suppression timer
Returns(i) ==
    /\ ended' = ended \cup {i}
    /\ rearmed' = IF generation' = i THEN rearmed \cup {i} ELSE rearmed
    /\ holder' = Free

\* Pass i gets the lock for target t while q waits: it sends its command for t, or skips
\* t and goes on.  Past targets it skips it keeps going as long as nobody waits and no
\* newer press superseded it: u is where it stops.
TakesTurns(i, t, q) ==
    \E u \in t .. TargetCount :
        /\ u > t => q = <<>> /\ generation' = i
        /\ \/ /\ holder' = i /\ Sends(i)
              /\ at' = [at EXCEPT ![i] = u]
              /\ waiters' = q
              /\ UNCHANGED <<ended, rearmed>>
           \/ /\ u < TargetCount /\ generation' = i /\ q # <<>>
              /\ at' = [at EXCEPT ![i] = u + 1]
              /\ waiters' = Append(q, i)
              /\ holder' = Free
              /\ UNCHANGED <<ended, rearmed, lastGen>>
           \/ /\ u = TargetCount \/ generation' # i
              /\ Returns(i)
              /\ at' = [at EXCEPT ![i] = u]
              /\ waiters' = q
              /\ UNCHANGED lastGen

\* An automatic enforcement gets the lock while q waits
TakesTurn(q) ==
    /\ waiters' = q
    /\ \/ holder' = Automatic /\ Sends(Automatic)
       \/ holder' = Free /\ UNCHANGED lastGen
    /\ UNCHANGED <<at, ended, rearmed>>

\* x waits for a lock that is taken or awaited
Waits(x) ==
    /\ waiters' = Append(waiters, x)
    /\ UNCHANGED <<at, ended, holder, rearmed, lastGen>>

LockIsFree == holder = Free /\ waiters = <<>>

\* asyncio wakes the first waiter
LockGranted ==
    /\ holder = Free
    /\ waiters # <<>>
    /\ UNCHANGED <<pulseVars, generation, aborted>>
    /\ LET x == Head(waiters)
       IN  IF x = Automatic THEN TakesTurn(Tail(waiters))
           ELSE TakesTurns(x, at[x], Tail(waiters))

\* async_test_enforce up to its first await
Press ==
    /\ loaded
    /\ generation < MaxPresses
    /\ generation' = generation + 1
    /\ UNCHANGED <<pulseVars, aborted>>
    /\ IF LockIsFree THEN TakesTurns(generation + 1, 1, <<>>) ELSE Waits(generation + 1)

\* A task of the automatic path.  Bound: one at a time.
AutoEnforces ==
    /\ loaded
    /\ holder # Automatic
    /\ \A k \in 1 .. Len(waiters) : waiters[k] # Automatic
    /\ UNCHANGED <<pulseVars, generation, aborted>>
    /\ IF LockIsFree THEN TakesTurn(<<>>) ELSE Waits(Automatic)

\* The pass goes on to its next target: it takes the lock, or its place in the queue
GoesOn(i) ==
    IF waiters = <<>> THEN TakesTurns(i, at[i] + 1, <<>>)
    ELSE /\ at' = [at EXCEPT ![i] = @ + 1]
         /\ holder' = Free
         /\ waiters' = Append(waiters, i)
         /\ UNCHANGED <<ended, rearmed, lastGen>>

Leaves(i) == Returns(i) /\ UNCHANGED <<at, waiters, lastGen>>

\* After a target: the pass leaves when a newer press superseded it or it has finished
ContinueUnchecked(i) ==  \* mutant: no look at force_generation in the loop
    IF at[i] < TargetCount THEN GoesOn(i) ELSE Leaves(i)

ContinueSuperseded(i) == Leaves(i)  \* mutant: the newest pass takes itself for superseded

Continue(i) ==
    IF at[i] < TargetCount /\ generation = i THEN GoesOn(i) ELSE Leaves(i)

\* A cancelled call raises through _enforce and the loop of the pass: no tail, no further
\* target, no timer
Raises ==
    /\ holder' = Free
    /\ IF holder = Automatic THEN UNCHANGED <<ended, aborted>>
       ELSE ended' = ended \cup {holder} /\ aborted' = aborted \cup {holder}
    /\ UNCHANGED <<pulseVars, at, waiters, rearmed, lastGen>>

\* The service call ends, the tail of _enforce arms the pulse if it succeeded
CallEnds(how) ==
    /\ holder # Free
    /\ UNCHANGED generation
    /\ IF how = "aborted" THEN Raises
       ELSE /\ UNCHANGED aborted
            /\ IF how = "succeeded" THEN Arm("enforced") ELSE UNCHANGED pulseVars
            /\ IF holder = Automatic
               THEN holder' = Free /\ UNCHANGED <<at, ended, waiters, rearmed, lastGen>>
               ELSE Continue(holder)

SomeCallEnds == \E how \in {"succeeded", "failed", "aborted"} : CallEnds(how)

Next ==
    \/ PulseNext /\ UNCHANGED forceVars
    \/ Press
    \/ AutoEnforces
    \/ LockGranted
    \/ SomeCallEnds

Spec == Init /\ [][Next]_vars

\* Calls end (they time out) and the lock is handed on.
FairSpec == Spec /\ WF_vars(LockGranted) /\ WF_vars(SomeCallEnds)

-----------------------------------------------------------------------------
(* Properties.                                                             *)

\* Every variable has its type.
TypeOK ==
    /\ PulseTypeOK
    /\ generation \in 0 .. MaxPresses
    /\ at \in [Passes -> 1 .. TargetCount]
    /\ ended \subseteq Passes
    /\ aborted \subseteq ended
    /\ holder \in Passes \cup {Automatic, Free}
    /\ waiters \in Seq(Passes \cup {Automatic})
    /\ rearmed \subseteq Passes
    /\ lastGen \in 0 .. MaxPresses

\* Pass i takes the lock with a command for the target it is at
Commands(i) == holder' = i /\ (holder # i \/ at'[i] # at[i])

\* Latest wins: once a press has sent a command, no command of an earlier press
\* follows it.  (A superseded pass that already waits for the lock still sends one,
\* but it stands in the queue before the newer pass.)
OldNeverFollowsNew ==
    [][\A i \in Passes : Commands(i) => i >= lastGen]_vars

\* The newest press comes to its turn at every target, and returns, whatever else is
\* queued on the lock and whichever targets it skips; only a cancelled service call cuts
\* it short.
PressIsCarriedOut ==
    \A i \in Passes : generation = i ~> \/ i \in ended /\ at[i] = TargetCount
                                        \/ i \in aborted \/ generation > i
=============================================================================
