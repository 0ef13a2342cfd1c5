-------------------------- MODULE ForcePassProofs --------------------------
(***************************************************************************)
(* What the force button and the four pulses guarantee for every number of *)
(* targets, every number of presses and every length of the window.        *)
(***************************************************************************)
EXTENDS ForcePass, SequenceTheorems, TLAPS

-----------------------------------------------------------------------------
(* The pulses.                                                             *)

PulsesSound == PulseTypeOK /\ PulsesAreTimed /\ SensorsAreCurrent

\* The flags are sound initially.
LEMMA PulsesInit == PulseInit => PulsesSound
  <1> SUFFICES ASSUME PulseInit PROVE PulsesSound
    OBVIOUS
  <1> USE DEF PulseInit, Off
  <1>1. PulseTypeOK
    <2>1. on \in [Pulses -> BOOLEAN] /\ shown \in [Pulses -> BOOLEAN]
      BY Zenon
    <2>2. timer \in [Pulses -> 0 .. Window \cup {NoTimer}]
      OBVIOUS
    <2>3. since \in [Pulses -> 0 .. Window]
      BY WindowAssumption
    <2>4. clearing \in BOOLEAN /\ loaded \in BOOLEAN
      BY Zenon
    <2> QED
      BY <2>1, <2>2, <2>3, <2>4 DEF PulseTypeOK
  <1>2. \A p \in Pulses : ~on[p]
    OBVIOUS
  <1>3. PulsesAreTimed
    BY <1>2 DEF PulsesAreTimed, Pulses
  <1>4. SensorsAreCurrent
    BY DEF SensorsAreCurrent
  <1> QED
    BY <1>1, <1>3, <1>4 DEF PulsesSound

\* Arming a flag, which a command does even when the engine was unloaded meanwhile.
LEMMA ArmSound ==
    ASSUME PulsesSound, NEW p \in Pulses, Arm(p)
    PROVE  PulsesSound'
  <1> USE DEF PulsesSound
  <1>1. PulseTypeOK'
    BY WindowAssumption DEF Arm, PulseTypeOK, Repainted, Others
  <1>2. PulsesAreTimed'
    <2>1. ASSUME NEW q \in Verdicts, NEW r \in Verdicts, on'[q], on'[r]
          PROVE  q = r
      BY <2>1 DEF Arm, PulseTypeOK, PulsesAreTimed, Others, Pulses
    <2>2. ASSUME NEW q \in Pulses, on'[q], loaded'
          PROVE  timer'[q] # NoTimer /\ timer'[q] + since'[q] = Window
      <3>1. CASE q = p
        BY <2>2, <3>1, WindowAssumption DEF Arm, PulseTypeOK
      <3>2. CASE q # p
        BY <2>2, <3>2 DEF Arm, PulseTypeOK, PulsesAreTimed
      <3> QED BY <3>1, <3>2
    <2> QED BY <2>1, <2>2 DEF PulsesAreTimed
  <1>3. SensorsAreCurrent'
    BY DEF Arm, Repainted, SensorsAreCurrent
  <1> QED BY <1>1, <1>2, <1>3

\* The end of a window.
LEMMA TimerFiresSound ==
    ASSUME PulsesSound, NEW p \in Pulses, TimerFires(p)
    PROVE  PulsesSound'
  <1> USE DEF PulsesSound, TimerFires
  <1>1. PulseTypeOK'
    BY DEF PulseTypeOK, Repainted
  <1>2. PulsesAreTimed'
    BY DEF PulseTypeOK, PulsesAreTimed, Pulses
  <1>3. SensorsAreCurrent'
    BY DEF PulseTypeOK, Repainted, SensorsAreCurrent
  <1> QED BY <1>1, <1>2, <1>3

\* A tick of the clock.
LEMMA TickSound ==
    ASSUME PulsesSound, Tick
    PROVE  PulsesSound'
  <1> USE DEF PulsesSound, Tick
  <1>1. PulseTypeOK'
    BY WindowAssumption DEF PulseTypeOK
  <1>2. PulsesAreTimed'
    <2>1. ASSUME NEW q \in Pulses, on'[q], loaded'
          PROVE  timer'[q] # NoTimer /\ timer'[q] + since'[q] = Window
      <3>1. /\ timer[q] \in 1 .. Window
            /\ since[q] \in 0 .. Window
            /\ timer[q] + since[q] = Window
        BY <2>1, WindowAssumption DEF PulseTypeOK, PulsesAreTimed
      <3>2. timer'[q] = timer[q] - 1 /\ since'[q] = since[q] + 1
        BY <3>1, WindowAssumption
      <3> QED BY <3>1, <3>2, WindowAssumption
    <2> QED BY <2>1 DEF PulsesAreTimed
  <1>3. SensorsAreCurrent'
    BY DEF SensorsAreCurrent
  <1> QED BY <1>1, <1>2, <1>3

\* Reset, clear, its repaint, and unload.
LEMMA ClearsSound ==
    ASSUME PulsesSound, Reset \/ ClearHistory \/ ClearHistoryRepaints \/ Unload
    PROVE  PulsesSound'
  <1>1. CASE Reset
    BY <1>1 DEF Reset, PulsesSound, PulseTypeOK, PulsesAreTimed, SensorsAreCurrent,
                Repainted, Off, Pulses
  <1>2. CASE ClearHistory
    BY <1>2 DEF ClearHistory, PulsesSound, PulseTypeOK, PulsesAreTimed, SensorsAreCurrent,
                Off, Pulses
  <1>3. CASE ClearHistoryRepaints
    BY <1>3 DEF ClearHistoryRepaints, PulsesSound, PulseTypeOK, PulsesAreTimed,
                SensorsAreCurrent, Repainted
  <1>4. CASE Unload
    BY <1>4 DEF Unload, PulsesSound, PulseTypeOK, PulsesAreTimed, SensorsAreCurrent
  <1> QED BY <1>1, <1>2, <1>3, <1>4

\* Every step of the pulses keeps them sound.
LEMMA PulseStep ==
    ASSUME PulsesSound, PulseNext \/ UNCHANGED pulseVars
    PROVE  PulsesSound'
  <1>1. CASE \E p \in Verdicts : loaded /\ Arm(p)
    BY <1>1, ArmSound DEF Pulses
  <1>2. CASE \E p \in Pulses : TimerFires(p)
    BY <1>2, TimerFiresSound
  <1>3. CASE UNCHANGED pulseVars
    BY <1>3 DEF pulseVars, PulsesSound, PulseTypeOK, PulsesAreTimed, SensorsAreCurrent
  <1> QED BY <1>1, <1>2, <1>3, TickSound, ClearsSound DEF PulseNext

-----------------------------------------------------------------------------
(* The passes.                                                             *)

\* The types of the passes.
Typed ==
    /\ generation \in 0 .. MaxPresses
    /\ at \in [Passes -> 1 .. TargetCount]
    /\ ended \subseteq Passes
    /\ aborted \subseteq ended
    /\ holder \in Passes \cup {Automatic, Free}
    /\ waiters \in Seq(Passes \cup {Automatic})
    /\ rearmed \subseteq Passes
    /\ lastGen \in 0 .. MaxPresses

\* Older passes stand before newer ones, the lock's holder before all of them.
Ordered ==
    /\ \A j, k \in 1 .. Len(waiters) : j < k /\ waiters[j] # Automatic /\ waiters[k] # Automatic
                                         => waiters[j] < waiters[k]
    /\ \A k \in 1 .. Len(waiters) : holder \in Passes /\ waiters[k] # Automatic
                                      => holder < waiters[k]

\* Who waits or holds the lock was pressed, and nobody newer has sent a command.
Latest ==
    /\ lastGen <= generation
    /\ \A k \in 1 .. Len(waiters) : waiters[k] # Automatic
                                      => waiters[k] <= generation /\ lastGen <= waiters[k]
    /\ holder \in Passes => holder <= generation /\ lastGen <= holder

Queue == Typed /\ Ordered /\ Latest

\* The bounds of the passes.
LEMMA Bounds == /\ Passes \subseteq Nat \ {0}
                /\ Automatic \notin Passes /\ Free \notin Passes /\ Free # Automatic
                /\ \A i \in Passes : i <= MaxPresses
                /\ 0 \in 0 .. MaxPresses /\ 1 \in 1 .. TargetCount
  <1>1. MaxPresses \in Nat \ {0} /\ TargetCount \in Nat \ {0}
    BY ForceAssumption
  <1> QED
    BY <1>1 DEF Passes, Automatic, Free

\* q is a queue of waiters in which every pass is newer than i, up to the newest one g.
Behind(i, q, g) ==
    /\ q \in Seq(Passes \cup {Automatic})
    /\ \A j, k \in 1 .. Len(q) : j < k /\ q[j] # Automatic /\ q[k] # Automatic => q[j] < q[k]
    /\ \A k \in 1 .. Len(q) : q[k] # Automatic => q[k] \in Nat /\ i < q[k] /\ q[k] <= g

\* No command of a step is older than the newest before it.
NoneIsOlder == \A i \in Passes : Commands(i) => i >= lastGen

\* What joins the end of the queue.
LEMMA Joins ==
    ASSUME NEW q \in Seq(Passes \cup {Automatic}), NEW x \in Passes \cup {Automatic},
           NEW r, r = Append(q, x)
    PROVE  /\ r \in Seq(Passes \cup {Automatic})
           /\ Len(q) \in Nat
           /\ Len(r) = Len(q) + 1
           /\ \A k \in 1 .. Len(q) : r[k] = q[k]
           /\ r[Len(q) + 1] = x
  BY AppendProperties, LenProperties

\* What its head leaves behind.
LEMMA Leaving ==
    ASSUME NEW q \in Seq(Passes \cup {Automatic}), q # <<>>, NEW r, r = Tail(q)
    PROVE  /\ r \in Seq(Passes \cup {Automatic})
           /\ Head(q) = q[1] /\ q[1] \in Passes \cup {Automatic}
           /\ Len(q) \in Nat \ {0}
           /\ Len(r) = Len(q) - 1
           /\ \A k \in 1 .. Len(r) : r[k] = q[k + 1]
  <1>1. /\ Head(q) \in Passes \cup {Automatic}
        /\ r \in Seq(Passes \cup {Automatic})
        /\ Len(r) = Len(q) - 1
        /\ \A k \in 1 .. Len(r) : r[k] = q[k + 1]
    BY HeadTailProperties
  <1>2. Head(q) = q[1]
    OBVIOUS
  <1>3. Len(q) \in Nat \ {0}
    BY EmptySeq, LenProperties
  <1> QED
    BY <1>1, <1>2, <1>3

\* A pass in a queue is a number.
LEMMA PassIsNat ==
    ASSUME NEW q \in Seq(Passes \cup {Automatic}), NEW k \in 1 .. Len(q), q[k] # Automatic
    PROVE  q[k] \in Passes /\ q[k] \in Nat
  <1>1. q[k] \in Passes \cup {Automatic}
    BY ElementOfSeq
  <1> QED
    BY <1>1, Bounds

\* The queue initially.
LEMMA QueueInit == Init => Queue
  <1> SUFFICES ASSUME Init PROVE Queue
    OBVIOUS
  <1>1. Typed
    BY Bounds DEF Init, Typed
  <1>2. Len(waiters) = 0 /\ holder \notin Passes
    BY Bounds DEF Init
  <1>3. Ordered /\ Latest
    BY <1>2 DEF Init, Ordered, Latest
  <1> QED
    BY <1>1, <1>3 DEF Queue

\* Nobody but pass i has moved, and only newer passes are left behind it.
LEMMA AloneQueue ==
    ASSUME Queue, NEW i \in Passes, NEW q, Behind(i, q, generation'),
           generation' \in 0 .. MaxPresses, i <= generation', lastGen <= i,
           at' \in [Passes -> 1 .. TargetCount], ended' \subseteq Passes, aborted' \subseteq ended',
           rearmed' \subseteq Passes, waiters' = q,
           \/ holder' = i /\ lastGen' = i
           \/ holder' \in {Free, Automatic} /\ lastGen' = lastGen
    PROVE  Queue'
  <1>1. /\ i \in Nat \ {0} /\ i <= MaxPresses /\ i # Automatic /\ lastGen \in 0 .. MaxPresses
        /\ generation' \in Nat /\ MaxPresses \in Nat
        /\ Automatic \notin Passes /\ Free \notin Passes
    BY Bounds, ForceAssumption DEF Queue, Typed
  <1>2. Typed'
    BY <1>1 DEF Typed, Behind
  <1>3. Ordered'
    BY <1>1 DEF Ordered, Behind
  <1>4. lastGen' \in Nat /\ lastGen' <= i
    BY <1>1
  <1>5. Latest'
    <2>1. lastGen' <= generation'
      BY <1>1, <1>4
    <2>2. ASSUME NEW k \in 1 .. Len(waiters'), waiters'[k] # Automatic
          PROVE  waiters'[k] <= generation' /\ lastGen' <= waiters'[k]
      BY <1>1, <1>4, <2>2 DEF Behind
    <2>3. holder' \in Passes => holder' = i
      BY <1>1
    <2> QED
      BY <1>4, <2>1, <2>2, <2>3 DEF Latest
  <1> QED
    BY <1>2, <1>3, <1>5 DEF Queue

\* The newest pass waits behind automatic enforcements only.
LEMMA WaitsBehind ==
    ASSUME Queue, NEW i \in Passes, NEW q, Behind(i, q, generation'), generation' = i,
           lastGen <= i, at' \in [Passes -> 1 .. TargetCount], ended' = ended,
           aborted' = aborted, rearmed' = rearmed, holder' = Free, lastGen' = lastGen,
           waiters' = Append(q, i)
    PROVE  Queue'
  <1>1. /\ i \in Nat \ {0} /\ i <= MaxPresses /\ i # Automatic /\ lastGen \in 0 .. MaxPresses
        /\ MaxPresses \in Nat /\ Free \notin Passes
    BY Bounds, ForceAssumption DEF Queue, Typed
  <1>2. \A k \in 1 .. Len(q) : q[k] = Automatic
    BY <1>1 DEF Behind
  <1>3. /\ waiters' \in Seq(Passes \cup {Automatic})
        /\ Len(q) \in Nat
        /\ Len(waiters') = Len(q) + 1
        /\ \A k \in 1 .. Len(q) : waiters'[k] = q[k]
        /\ waiters'[Len(q) + 1] = i
    BY Joins DEF Behind
  <1>4. \A k \in 1 .. Len(waiters') : waiters'[k] # Automatic
                                      => k = Len(q) + 1 /\ waiters'[k] = i
    BY <1>2, <1>3
  <1>5. Typed'
    BY <1>1, <1>3 DEF Queue, Typed
  <1>6. Ordered'
    BY <1>1, <1>3, <1>4 DEF Ordered
  <1>7. Latest'
    BY <1>1, <1>4 DEF Latest
  <1> QED
    BY <1>5, <1>6, <1>7 DEF Queue

\* A pass that gets the lock, with its command or after skips, stays in order.
LEMMA TurnsQueue ==
    ASSUME Queue, NEW i \in Passes, NEW t \in 1 .. TargetCount, NEW q,
           Behind(i, q, generation'), generation' \in 0 .. MaxPresses, i <= generation',
           lastGen <= i, aborted' = aborted, TakesTurns(i, t, q)
    PROVE  Queue' /\ NoneIsOlder
  <1>1. /\ i \in Nat \ {0} /\ i <= MaxPresses /\ i # Automatic /\ lastGen \in Nat
        /\ TargetCount \in Nat \ {0} /\ Free \notin Passes
        /\ at \in [Passes -> 1 .. TargetCount] /\ ended \subseteq Passes
        /\ aborted \subseteq ended /\ rearmed \subseteq Passes
    BY Bounds, ForceAssumption DEF Queue, Typed
  <1>2. PICK u \in t .. TargetCount :
          \/ /\ holder' = i /\ Sends(i)
             /\ at' = [at EXCEPT ![i] = u]
             /\ waiters' = q
             /\ UNCHANGED <<ended, rearmed>>
          \/ /\ u < TargetCount /\ generation' = i /\ q # <<>>
             /\ at' = [at EXCEPT ![i] = u + 1]
             /\ waiters' = Append(q, i)
             /\ holder' = Free
             /\ UNCHANGED <<ended, rearmed, lastGen>>
          \/ /\ Returns(i)
             /\ at' = [at EXCEPT ![i] = u]
             /\ waiters' = q
             /\ UNCHANGED lastGen
    BY DEF TakesTurns
  <1>3. u \in 1 .. TargetCount
    BY <1>1
  <1>4. CASE /\ holder' = i /\ Sends(i) /\ at' = [at EXCEPT ![i] = u] /\ waiters' = q
             /\ UNCHANGED <<ended, rearmed>>
    <2>1. lastGen' = i
      BY <1>1, <1>4 DEF Sends
    <2>2. at' \in [Passes -> 1 .. TargetCount]
      BY <1>1, <1>3, <1>4
    <2>3. Queue'
      BY <1>1, <1>4, <2>1, <2>2, AloneQueue
    <2>4. NoneIsOlder
      BY <1>1, <1>4 DEF NoneIsOlder, Commands
    <2> QED
      BY <2>3, <2>4
  <1>5. CASE /\ u < TargetCount /\ generation' = i /\ at' = [at EXCEPT ![i] = u + 1]
             /\ waiters' = Append(q, i) /\ holder' = Free
             /\ UNCHANGED <<ended, rearmed, lastGen>>
    <2>1. at' \in [Passes -> 1 .. TargetCount]
      BY <1>1, <1>3, <1>5
    <2>2. Queue'
      BY <1>1, <1>5, <2>1, WaitsBehind
    <2>3. NoneIsOlder
      BY <1>1, <1>5 DEF NoneIsOlder, Commands
    <2> QED
      BY <2>2, <2>3
  <1>6. CASE /\ Returns(i) /\ at' = [at EXCEPT ![i] = u] /\ waiters' = q /\ UNCHANGED lastGen
    <2>1. /\ holder' = Free /\ ended' = ended \cup {i}
          /\ rearmed' \subseteq Passes
      BY <1>1, <1>6 DEF Returns
    <2>2. at' \in [Passes -> 1 .. TargetCount]
      BY <1>1, <1>3, <1>6
    <2>3. Queue'
      BY <1>1, <1>6, <2>1, <2>2, AloneQueue
    <2>4. NoneIsOlder
      BY <1>1, <2>1 DEF NoneIsOlder, Commands
    <2> QED
      BY <2>3, <2>4
  <1> QED
    BY <1>2, <1>4, <1>5, <1>6

\* An automatic enforcement has no place in the order, wherever the queue was cut.
LEMMA TurnQueue ==
    ASSUME Queue, NEW q, Behind(lastGen - 1, q, generation), generation' = generation,
           aborted' = aborted, TakesTurn(q)
    PROVE  Queue' /\ NoneIsOlder
  <1>1. /\ waiters' = q /\ lastGen' = lastGen /\ at' = at /\ ended' = ended
        /\ rearmed' = rearmed /\ holder' \in {Free, Automatic}
    BY DEF TakesTurn, Sends, Automatic, Queue, Typed
  <1>2. holder' \notin Passes /\ lastGen \in Nat
    BY <1>1, Bounds DEF Queue, Typed
  <1>3. Typed'
    BY <1>1 DEF Queue, Typed, Behind
  <1>4. Ordered'
    BY <1>1, <1>2 DEF Ordered, Behind
  <1>5. Latest'
    BY <1>1, <1>2 DEF Queue, Latest, Behind
  <1>6. NoneIsOlder
    BY <1>2 DEF NoneIsOlder, Commands
  <1> QED
    BY <1>3, <1>4, <1>5, <1>6 DEF Queue

\* A press, or an automatic enforcement, joins the queue behind every older pass.
LEMMA WaitsQueue ==
    ASSUME Queue, NEW x \in Passes \cup {Automatic}, Waits(x), aborted' = aborted,
           generation' \in 0 .. MaxPresses, generation <= generation',
           x = Automatic \/ (x = generation' /\ x = generation + 1)
    PROVE  Queue' /\ NoneIsOlder
  <1>1. /\ waiters' = Append(waiters, x) /\ at' = at /\ ended' = ended /\ holder' = holder
        /\ rearmed' = rearmed /\ lastGen' = lastGen
    BY DEF Waits
  <1>2. /\ waiters' \in Seq(Passes \cup {Automatic})
        /\ Len(waiters) \in Nat
        /\ Len(waiters') = Len(waiters) + 1
        /\ \A k \in 1 .. Len(waiters) : waiters'[k] = waiters[k]
        /\ waiters'[Len(waiters) + 1] = x
    BY <1>1, Joins DEF Queue, Typed
  <1>3. /\ generation \in Nat /\ generation' \in Nat /\ lastGen \in Nat /\ lastGen <= generation
        /\ holder \in Passes => holder \in Nat /\ holder <= generation /\ lastGen <= holder
    BY Bounds, ForceAssumption DEF Queue, Typed, Latest
  <1>4. ASSUME NEW k \in 1 .. Len(waiters), waiters[k] # Automatic
        PROVE  waiters[k] \in Nat /\ waiters[k] <= generation /\ lastGen <= waiters[k]
    BY <1>4, PassIsNat DEF Queue, Typed, Latest
  <1>5. Typed'
    BY <1>1, <1>2 DEF Queue, Typed
  <1>6. \A k \in 1 .. Len(waiters') : waiters'[k] # Automatic =>
          \/ k = Len(waiters) + 1 /\ waiters'[k] = generation + 1 /\ generation' = generation + 1
          \/ k \in 1 .. Len(waiters) /\ waiters'[k] = waiters[k] /\ waiters[k] # Automatic
    BY <1>2
  <1>7. Ordered'
    <2>1. \A j, k \in 1 .. Len(waiters') :
            j < k /\ waiters'[j] # Automatic /\ waiters'[k] # Automatic
              => waiters'[j] < waiters'[k]
      <3> SUFFICES ASSUME NEW j \in 1 .. Len(waiters'), NEW k \in 1 .. Len(waiters'), j < k,
                          waiters'[j] # Automatic, waiters'[k] # Automatic
                   PROVE  waiters'[j] < waiters'[k]
        OBVIOUS
      <3>1. j \in 1 .. Len(waiters) /\ waiters'[j] = waiters[j] /\ waiters[j] # Automatic
        BY <1>2, <1>6
      <3>2. waiters[j] \in Nat /\ waiters[j] <= generation
        BY <1>4, <3>1
      <3>3. CASE waiters'[k] = generation + 1
        BY <1>3, <3>1, <3>2, <3>3
      <3>4. CASE k \in 1 .. Len(waiters) /\ waiters'[k] = waiters[k] /\ waiters[k] # Automatic
        BY <3>1, <3>4 DEF Queue, Ordered
      <3> QED
        BY <1>6, <3>3, <3>4
    <2>2. \A k \in 1 .. Len(waiters') :
            holder' \in Passes /\ waiters'[k] # Automatic => holder' < waiters'[k]
      BY <1>1, <1>3, <1>6 DEF Queue, Ordered
    <2> QED
      BY <2>1, <2>2 DEF Ordered
  <1>8. Latest'
    <2>1. ASSUME NEW k \in 1 .. Len(waiters'), waiters'[k] # Automatic
          PROVE  waiters'[k] <= generation' /\ lastGen <= waiters'[k]
      BY <1>3, <1>4, <1>6, <2>1
    <2>2. holder \in Passes => holder <= generation' /\ lastGen <= holder
      BY <1>3
    <2> QED
      BY <1>1, <1>3, <2>1, <2>2 DEF Latest
  <1>9. NoneIsOlder
    BY <1>1 DEF NoneIsOlder, Commands
  <1> QED
    BY <1>5, <1>7, <1>8, <1>9 DEF Queue

\* The newest press, or an automatic enforcement, at a lock that nobody holds or awaits.
LEMMA PressQueue ==
    ASSUME Queue, Press
    PROVE  Queue' /\ NoneIsOlder
  <1> DEFINE x == generation + 1
  <1>1. /\ x \in Passes /\ generation' = x /\ generation' \in 0 .. MaxPresses
        /\ generation \in Nat /\ lastGen \in Nat /\ lastGen <= x /\ aborted' = aborted
        /\ 1 \in 1 .. TargetCount
    BY Bounds, ForceAssumption DEF Press, Queue, Typed, Latest, Passes
  <1>2. CASE LockIsFree
    <2>1. TakesTurns(x, 1, <<>>)
      BY <1>2 DEF Press
    <2>2. Behind(x, <<>>, generation')
      BY DEF Behind
    <2> HIDE DEF x
    <2> QED
      BY <1>1, <2>1, <2>2, TurnsQueue
  <1>3. CASE ~LockIsFree
    <2>1. Waits(x)
      BY <1>3 DEF Press
    <2> QED
      BY <1>1, <2>1, WaitsQueue
  <1> QED
    BY <1>2, <1>3

LEMMA AutomaticQueue ==
    ASSUME Queue, AutoEnforces
    PROVE  Queue' /\ NoneIsOlder
  <1>1. generation' = generation /\ aborted' = aborted /\ generation \in 0 .. MaxPresses
    BY DEF AutoEnforces, Queue, Typed
  <1>2. CASE LockIsFree
    <2>1. TakesTurn(<<>>)
      BY <1>2 DEF AutoEnforces
    <2>2. Behind(lastGen - 1, <<>>, generation)
      BY DEF Behind
    <2> QED
      BY <1>1, <2>1, <2>2, TurnQueue
  <1>3. CASE ~LockIsFree
    <2>1. Waits(Automatic)
      BY <1>3 DEF AutoEnforces
    <2>2. generation <= generation'
      BY <1>1, ForceAssumption
    <2> QED
      BY <1>1, <2>1, <2>2, WaitsQueue
  <1> QED
    BY <1>2, <1>3

\* The first waiter gets the lock; whoever waits behind it is newer.
LEMMA GrantedQueue ==
    ASSUME Queue, LockGranted
    PROVE  Queue' /\ NoneIsOlder
  <1> DEFINE x == Head(waiters)
             q == Tail(waiters)
  <1>1. /\ waiters # <<>> /\ generation' = generation /\ aborted' = aborted
        /\ x = Automatic => TakesTurn(q)
        /\ x # Automatic => TakesTurns(x, at[x], q)
    BY DEF LockGranted
  <1>2. /\ q \in Seq(Passes \cup {Automatic})
        /\ x = waiters[1] /\ x \in Passes \cup {Automatic}
        /\ Len(waiters) \in Nat \ {0}
        /\ Len(q) = Len(waiters) - 1
        /\ \A k \in 1 .. Len(q) : q[k] = waiters[k + 1]
    BY <1>1, Leaving DEF Queue, Typed
  <1> HIDE DEF x, q
  <1>3. /\ generation \in 0 .. MaxPresses /\ lastGen \in Nat /\ generation \in Nat
        /\ lastGen <= generation
    BY DEF Queue, Typed, Latest
  <1>4. \A j, k \in 1 .. Len(q) :
          j < k /\ q[j] # Automatic /\ q[k] # Automatic => q[j] < q[k]
    BY <1>2 DEF Queue, Ordered
  <1>5. ASSUME NEW k \in 1 .. Len(q), q[k] # Automatic
        PROVE  /\ q[k] \in Nat /\ q[k] <= generation /\ lastGen <= q[k]
               /\ x # Automatic => x < q[k]
    <2>1. k + 1 \in 1 .. Len(waiters) /\ waiters[k + 1] = q[k] /\ 1 < k + 1
      BY <1>2
    <2>2. 1 \in 1 .. Len(waiters)
      BY <1>2
    <2>3. q[k] \in Nat
      BY <1>2, <1>5, PassIsNat
    <2> QED
      BY <1>2, <1>5, <2>1, <2>2, <2>3 DEF Queue, Ordered, Latest
  <1>6. CASE x = Automatic
    <2>1. Behind(lastGen - 1, q, generation)
      BY <1>2, <1>3, <1>4, <1>5 DEF Behind
    <2> QED
      BY <1>1, <1>6, <2>1, TurnQueue
  <1>7. CASE x # Automatic
    <2>1. x \in Passes /\ at[x] \in 1 .. TargetCount
      BY <1>2, <1>7 DEF Queue, Typed
    <2>2. 1 \in 1 .. Len(waiters) /\ x <= generation /\ lastGen <= x
      BY <1>2, <1>7 DEF Queue, Latest
    <2>3. Behind(x, q, generation')
      BY <1>1, <1>2, <1>4, <1>5, <1>7 DEF Behind
    <2> QED
      BY <1>1, <1>3, <1>7, <2>1, <2>2, <2>3, TurnsQueue
  <1> QED
    BY <1>6, <1>7

\* The lock's holder leaves it.
LEMMA FreedQueue ==
    ASSUME Queue, holder' = Free, generation' = generation, at' = at, waiters' = waiters,
           lastGen' = lastGen, ended' \subseteq Passes, aborted' \subseteq ended',
           rearmed' \subseteq Passes
    PROVE  Queue' /\ NoneIsOlder
  <1>1. holder' \notin Passes
    BY Bounds
  <1>2. Queue'
    BY <1>1 DEF Queue, Typed, Ordered, Latest
  <1> QED
    BY <1>1, <1>2 DEF NoneIsOlder, Commands

\* A pass that goes on is the newest, so that only automatic enforcements wait before
\* its next target; any other leaves.
LEMMA ContinueQueue ==
    ASSUME Queue, holder \in Passes, Continue(holder), generation' = generation,
           aborted' = aborted
    PROVE  Queue' /\ NoneIsOlder
  <1> DEFINE h == holder
  <1>1. /\ h \in Passes /\ h <= generation /\ lastGen <= h
        /\ at[h] \in 1 .. TargetCount /\ generation \in 0 .. MaxPresses
        /\ TargetCount \in Nat /\ at \in [Passes -> 1 .. TargetCount]
        /\ Free \notin Passes
    BY Bounds, ForceAssumption DEF Queue, Typed, Latest
  <1>2. CASE at[h] < TargetCount /\ generation = h
    <2>1. GoesOn(h)
      BY <1>2 DEF Continue
    <2>2. at[h] + 1 \in 1 .. TargetCount
      BY <1>1, <1>2
    <2>3. CASE waiters = <<>>
      <3>1. TakesTurns(h, at[h] + 1, <<>>)
        BY <2>1, <2>3 DEF GoesOn
      <3>2. Behind(h, <<>>, generation')
        BY DEF Behind
      <3> HIDE DEF h
      <3> QED
        BY <1>1, <2>2, <3>1, <3>2, TurnsQueue
    <2>4. CASE waiters # <<>>
      <3>1. /\ at' = [at EXCEPT ![h] = @ + 1] /\ holder' = Free
            /\ waiters' = Append(waiters, h)
            /\ ended' = ended /\ rearmed' = rearmed /\ lastGen' = lastGen
        BY <2>1, <2>4 DEF GoesOn
      <3>2. Behind(h, waiters, generation')
        <4>1. \A k \in 1 .. Len(waiters) : waiters[k] # Automatic
                => waiters[k] \in Nat /\ h < waiters[k] /\ waiters[k] <= generation'
          BY <1>1, PassIsNat DEF Queue, Typed, Ordered, Latest
        <4> QED
          BY <4>1 DEF Behind, Queue, Typed, Ordered
      <3>3. at' \in [Passes -> 1 .. TargetCount]
        BY <1>1, <2>2, <3>1
      <3> HIDE DEF h
      <3>4. Queue'
        BY <1>1, <1>2, <3>1, <3>2, <3>3, WaitsBehind
      <3> QED
        BY <1>1, <3>1, <3>4 DEF NoneIsOlder, Commands
    <2> QED
      BY <2>3, <2>4
  <1>3. CASE ~(at[h] < TargetCount /\ generation = h)
    <2>1. Leaves(h)
      BY <1>3 DEF Continue
    <2>2. /\ ended' = ended \cup {h} /\ rearmed' \subseteq Passes /\ holder' = Free
          /\ at' = at /\ waiters' = waiters /\ lastGen' = lastGen
      BY <1>1, <2>1 DEF Leaves, Returns, Queue, Typed
    <2>3. ended' \subseteq Passes /\ aborted' \subseteq ended'
      BY <1>1, <2>2 DEF Queue, Typed
    <2> QED
      BY <2>2, <2>3, FreedQueue
  <1> QED
    BY <1>2, <1>3

\* The end of a call: the pass goes on, or raises.
LEMMA CallEndsQueue ==
    ASSUME Queue, NEW how, CallEnds(how)
    PROVE  Queue' /\ NoneIsOlder
  <1>1. holder # Free /\ generation' = generation
    BY DEF CallEnds
  <1>2. CASE how = "aborted"
    <2>1. /\ holder' = Free /\ at' = at /\ waiters' = waiters /\ rearmed' = rearmed
          /\ lastGen' = lastGen
          /\ \/ ended' = ended /\ aborted' = aborted
             \/ /\ holder \in Passes
                /\ ended' = ended \cup {holder} /\ aborted' = aborted \cup {holder}
      BY <1>1, <1>2 DEF CallEnds, Raises, Queue, Typed
    <2>2. ended' \subseteq Passes /\ aborted' \subseteq ended' /\ rearmed' \subseteq Passes
      BY <2>1 DEF Queue, Typed
    <2> QED
      BY <1>1, <2>1, <2>2, FreedQueue
  <1>3. CASE how # "aborted" /\ holder = Automatic
    <2>1. /\ holder' = Free /\ at' = at /\ waiters' = waiters /\ rearmed' = rearmed
          /\ lastGen' = lastGen /\ ended' = ended /\ aborted' = aborted
      BY <1>3 DEF CallEnds
    <2>2. ended' \subseteq Passes /\ aborted' \subseteq ended' /\ rearmed' \subseteq Passes
      BY <2>1 DEF Queue, Typed
    <2> QED
      BY <1>1, <2>1, <2>2, FreedQueue
  <1>4. CASE how # "aborted" /\ holder # Automatic
    <2>1. holder \in Passes /\ Continue(holder) /\ aborted' = aborted
      BY <1>1, <1>4 DEF CallEnds, Queue, Typed
    <2> QED
      BY <1>1, <2>1, ContinueQueue
  <1> QED
    BY <1>2, <1>3, <1>4

\* The step of the whole system: the queue stays sound, and no old pass sends.
LEMMA QueueStep ==
    ASSUME Queue, [Next]_vars
    PROVE  Queue' /\ NoneIsOlder
  <1>1. CASE UNCHANGED forceVars
    BY <1>1 DEF forceVars, Queue, Typed, Ordered, Latest, NoneIsOlder, Commands
  <1>2. UNCHANGED forceVars \/ Press \/ AutoEnforces \/ LockGranted \/ SomeCallEnds
    BY DEF Next, vars
  <1> QED
    BY <1>1, <1>2, PressQueue, AutomaticQueue, GrantedQueue, CallEndsQueue DEF SomeCallEnds

\* A step of the whole system is for the pulses a step of theirs, an arming by a
\* command, or none.
LEMMA PulseView ==
    ASSUME [Next]_vars
    PROVE  PulseNext \/ Arm("enforced") \/ UNCHANGED pulseVars
  BY DEF Next, vars, Press, AutoEnforces, LockGranted, SomeCallEnds, CallEnds, Raises

\* The pulses stay sound whatever the passes do.
LEMMA PulsesStep ==
    ASSUME PulsesSound, [Next]_vars
    PROVE  PulsesSound'
  <1>1. "enforced" \in Pulses
    BY DEF Pulses
  <1> QED
    BY <1>1, PulseView, PulseStep, ArmSound

\* A flag goes off for one of the three reasons.
LEMMA OffForAReason ==
    ASSUME PulsesSound, [Next]_vars, NEW p \in Pulses, on[p], ~on'[p]
    PROVE  \/ since[p] = Window
           \/ on' = Off
           \/ p \in Verdicts /\ \E q \in Verdicts : on'[q] /\ ~on[q]
  <1>1. ASSUME NEW x \in Pulses, Arm(x)
        PROVE  p \in Verdicts /\ \E q \in Verdicts : on'[q] /\ ~on[q]
    <2>1. p # x /\ p \in Others(x) /\ on'[x]
      BY <1>1 DEF Arm
    <2>2. x \in Verdicts /\ p \in Verdicts
      BY <2>1 DEF Others
    <2>3. ~on[x]
      BY <2>1, <2>2 DEF PulsesSound, PulsesAreTimed
    <2> QED
      BY <2>1, <2>2, <2>3
  <1>2. ASSUME NEW x \in Pulses, TimerFires(x)
        PROVE  since[p] = Window
    <2>1. p = x /\ loaded
      BY <1>2 DEF TimerFires, PulsesSound, PulseTypeOK
    <2>2. timer[p] = 0 /\ timer[p] + since[p] = Window /\ since[p] \in 0 .. Window
      BY <1>2, <2>1 DEF TimerFires, PulsesSound, PulseTypeOK, PulsesAreTimed
    <2> QED
      BY <2>2, WindowAssumption
  <1>3. CASE Tick \/ ClearHistoryRepaints \/ Unload \/ UNCHANGED pulseVars
    BY <1>3 DEF Tick, ClearHistoryRepaints, Unload, pulseVars
  <1>4. CASE Reset \/ ClearHistory
    BY <1>4 DEF Reset, ClearHistory
  <1>5. "enforced" \in Pulses /\ Verdicts \subseteq Pulses
    BY DEF Pulses
  <1> QED
    BY <1>1, <1>2, <1>3, <1>4, <1>5, PulseView DEF PulseNext

-----------------------------------------------------------------------------
(* Theorems.                                                               *)

\* Every variable has its type: a pass stays within its targets, however many it skips,
\* and only passes that are over were cut short.
THEOREM TypeCorrect == Spec => []TypeOK
  <1> DEFINE Inv == PulsesSound /\ Queue
  <1>1. Init => Inv
    BY PulsesInit, QueueInit DEF Init
  <1>2. Inv /\ [Next]_vars => Inv'
    BY PulsesStep, QueueStep
  <1>3. Inv => TypeOK
    BY DEF PulsesSound, Queue, Typed, TypeOK
  <1> QED
    BY <1>1, <1>2, <1>3, PTL DEF Spec

\* One verdict at a time, and each flag that is on has the timer that ends it, due one
\* window after the last arming.
THEOREM PulsesAreTimedAlways == Spec => []PulsesAreTimed
  <1>1. Init => PulsesSound
    BY PulsesInit DEF Init
  <1>2. PulsesSound /\ [Next]_vars => PulsesSound'
    BY PulsesStep
  <1>3. PulsesSound => PulsesAreTimed
    BY DEF PulsesSound
  <1> QED
    BY <1>1, <1>2, <1>3, PTL DEF Spec

\* The sensors show the flags as they are, but for the save of a clear.
THEOREM SensorsAreCurrentAlways == Spec => []SensorsAreCurrent
  <1>1. Init => PulsesSound
    BY PulsesInit DEF Init
  <1>2. PulsesSound /\ [Next]_vars => PulsesSound'
    BY PulsesStep
  <1>3. PulsesSound => SensorsAreCurrent
    BY DEF PulsesSound
  <1> QED
    BY <1>1, <1>2, <1>3, PTL DEF Spec

\* No pulse is cut short by the timer of an earlier arming.
THEOREM WindowsAreWhole == Spec => NoPulseIsCutShort
  <1> DEFINE Whole == \A p \in Pulses : on[p] /\ ~on'[p] =>
                        \/ since[p] = Window
                        \/ on' = Off
                        \/ p \in Verdicts /\ \E q \in Verdicts : on'[q] /\ ~on[q]
  <1>1. Init => PulsesSound
    BY PulsesInit DEF Init
  <1>2. PulsesSound /\ [Next]_vars => PulsesSound'
    BY PulsesStep
  <1>3. PulsesSound /\ [Next]_vars => [Whole]_pulseVars
    BY OffForAReason
  <1> QED
    BY <1>1, <1>2, <1>3, PTL DEF Spec, NoPulseIsCutShort

\* Latest wins, for any number of presses and targets.
THEOREM LatestWins == Spec => OldNeverFollowsNew
  <1>1. Init => Queue
    BY QueueInit
  <1>2. Queue /\ [Next]_vars => Queue'
    BY QueueStep
  <1>3. Queue /\ [Next]_vars => [\A i \in Passes : Commands(i) => i >= lastGen]_vars
    BY QueueStep DEF NoneIsOlder
  <1> QED
    BY <1>1, <1>2, <1>3, PTL DEF Spec, OldNeverFollowsNew
=============================================================================
