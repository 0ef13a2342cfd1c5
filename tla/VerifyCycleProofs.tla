--------------------------- MODULE VerifyCycleProofs ---------------------------
(***************************************************************************)
(* The verification cycle, for any targets, attempt limits and streaks: it *)
(* implements VerifyContract, ends silently only when excused, confirms    *)
(* only what the rule may act on, and repaints whenever it ends.           *)
(***************************************************************************)
EXTENDS VerifyCycle, FiniteSetTheorems, TLAPS

-----------------------------------------------------------------------------
(* The books of a cycle.                                                   *)

\* v and w agree on every cycle: on the deadlines, the marks, the correctives, and on
\* what the step has announced.
Books(v, w) ==
    /\ w.armed = v.armed /\ w.mark = v.mark /\ w.said = v.said
    /\ w.loaded = v.loaded /\ w.enabled = v.enabled
    /\ \A k \in CorrTask : (k \in w.queue <=> k \in v.queue) /\ (w.call = k <=> v.call = k)

\* The lock is taken in both or free in both, and nobody suppressed the rule.
Quiet(v, w) == w.sup = v.sup /\ (w.call = NoTask <=> v.call = NoTask)

\* A deadline is armed or a corrective waits; VERIFYING is shown only then.  A corrective
\* in its call does not count: it painted ENFORCING, and an abort leaves what is shown.
Live(v) == \/ \E t \in Targets : v.armed[t]
           \/ \E k \in CorrTask : k \in v.queue
Lit(v)  == v.shown => Live(v)

LEMMA BooksTransitive ==
    ASSUME NEW u, NEW v, NEW w, Books(u, v), Books(v, w)
    PROVE  Books(u, w)
  BY DEF Books

LEMMA BooksLive ==
    ASSUME NEW v, NEW w, Books(v, w)
    PROVE  Live(v) <=> Live(w)
  BY DEF Books, Live

\* The number of open cycles of t, term by term: at most two of its correctives wait.
Corr(t, forced) == [kind |-> "corr", t |-> t, forced |-> forced]
Watched(v, t)    == IF v.armed[t] THEN 1 ELSE 0
Calling(v, t)    == IF v.call \in CorrTask /\ v.call.t = t THEN 1 ELSE 0
Waiting(v, t, f) == IF Corr(t, f) \in v.queue THEN 1 ELSE 0
Count(v, t) == Watched(v, t) + Calling(v, t) + (Waiting(v, t, TRUE) + Waiting(v, t, FALSE))

LEMMA Terms ==
    ASSUME NEW v, NEW t
    PROVE  /\ Watched(v, t) \in {0, 1} /\ (Watched(v, t) = 1 <=> v.armed[t])
           /\ Calling(v, t) \in {0, 1}
           /\ Calling(v, t) = 1 <=> v.call \in CorrTask /\ v.call.t = t
           /\ \A f \in BOOLEAN : /\ Waiting(v, t, f) \in {0, 1}
                                 /\ Waiting(v, t, f) = 1 <=> Corr(t, f) \in v.queue
  BY DEF Watched, Calling, Waiting

LEMMA CorrIsTask ==
    ASSUME NEW t \in Targets, NEW f \in BOOLEAN
    PROVE  /\ Corr(t, f) \in CorrTask /\ Corr(t, f).t = t /\ Corr(t, f).forced = f
           /\ Corr(t, f) # NoTask
  <1>1. Corr(t, f) \in CorrTask /\ Corr(t, f).t = t /\ Corr(t, f).forced = f
    BY DEF Corr, CorrTask
  <1> QED
    BY <1>1, TaskAssumption DEF Task

LEMMA CorrsAreTwo ==
    ASSUME NEW k \in CorrTask
    PROVE  k = Corr(k.t, TRUE) \/ k = Corr(k.t, FALSE)
  BY DEF Corr, CorrTask

LEMMA QueueCount ==
    ASSUME NEW v, NEW t \in Targets
    PROVE  Cardinality({k \in v.queue : k \in CorrTask /\ k.t = t})
               = Waiting(v, t, TRUE) + Waiting(v, t, FALSE)
  <1> DEFINE S == {k \in v.queue : k \in CorrTask /\ k.t = t}
             a == Corr(t, TRUE)
             b == Corr(t, FALSE)
             m == Waiting(v, t, TRUE)
             n == Waiting(v, t, FALSE)
  <1>1. /\ a \in CorrTask /\ a.t = t /\ b \in CorrTask /\ b.t = t /\ a # b
    BY CorrIsTask
  <1>2. \A k \in S : k = a \/ k = b
    BY CorrsAreTwo
  <1>3. (a \in S <=> a \in v.queue) /\ (b \in S <=> b \in v.queue)
    BY <1>1
  <1>4. /\ m \in {0, 1} /\ (m = 1 <=> a \in S)
        /\ n \in {0, 1} /\ (n = 1 <=> b \in S)
    BY <1>3, Terms
  <1> HIDE DEF S, a, b, m, n
  <1>5. Cardinality(S) = m + n
    <2>1. CASE a \in S /\ b \in S
      <3>1. S = {a} \cup {b}
        BY <1>2, <2>1
      <3>2. IsFiniteSet({a}) /\ Cardinality({a}) = 1 /\ b \notin {a}
        BY <1>1, FS_Singleton
      <3>3. Cardinality({a} \cup {b}) = Cardinality({a}) + 1
        BY <3>2, FS_AddElement
      <3>4. m = 1 /\ n = 1
        BY <1>4, <2>1
      <3> QED
        BY <3>1, <3>2, <3>3, <3>4
    <2>2. CASE a \in S /\ b \notin S
      <3>1. S = {a} /\ m = 1 /\ n = 0
        BY <1>2, <1>4, <2>2
      <3>2. Cardinality({a}) = 1
        BY FS_Singleton
      <3> QED
        BY <3>1, <3>2
    <2>3. CASE a \notin S /\ b \in S
      <3>1. S = {b} /\ m = 0 /\ n = 1
        BY <1>2, <1>4, <2>3
      <3>2. Cardinality({b}) = 1
        BY FS_Singleton
      <3> QED
        BY <3>1, <3>2
    <2>4. CASE a \notin S /\ b \notin S
      <3>1. S = {} /\ m = 0 /\ n = 0
        BY <1>2, <1>4, <2>4
      <3>2. Cardinality({}) = 0
        BY FS_EmptySet
      <3> QED
        BY <3>1, <3>2
    <2> QED
      BY <2>1, <2>2, <2>3, <2>4
  <1> QED
    BY <1>5 DEF S, m, n

\* OpenCycles counts term by term, in either state of a step.
LEMMA OpenCount == OpenCycles = [t \in Targets |-> Count(vc, t)]
  <1>1. ASSUME NEW t \in Targets
        PROVE  (IF vc.armed[t] THEN 1 ELSE 0) + (IF CallsCorrective(t) THEN 1 ELSE 0)
                  + Cardinality({k \in vc.queue : k \in CorrTask /\ k.t = t}) = Count(vc, t)
    BY QueueCount DEF Count, Watched, Calling, CallsCorrective
  <1> QED
    BY <1>1 DEF OpenCycles

LEMMA OpenCountPrime == OpenCycles' = [t \in Targets |-> Count(vc', t)]
  <1>1. ASSUME NEW t \in Targets
        PROVE  (IF vc'.armed[t] THEN 1 ELSE 0)
                  + (IF vc'.call \in CorrTask /\ vc'.call.t = t THEN 1 ELSE 0)
                  + Cardinality({k \in vc'.queue : k \in CorrTask /\ k.t = t}) = Count(vc', t)
    BY QueueCount DEF Count, Watched, Calling
  <1> QED
    BY <1>1 DEF OpenCycles, CallsCorrective

LEMMA Sums ==
    ASSUME NEW a \in {0, 1}, NEW b \in {0, 1}, NEW c \in {0, 1}, NEW d \in {0, 1}
    PROVE  /\ a + b + (c + d) \in Nat
           /\ a + b + (c + d) > 0 <=> a = 1 \/ b = 1 \/ c = 1 \/ d = 1
  OBVIOUS

LEMMA CountIsNat ==
    ASSUME NEW v, NEW t
    PROVE  /\ Count(v, t) \in Nat
           /\ Count(v, t) > 0 <=> \/ Watched(v, t) = 1 \/ Calling(v, t) = 1
                                 \/ Waiting(v, t, TRUE) = 1 \/ Waiting(v, t, FALSE) = 1
  <1>1. /\ Watched(v, t) \in {0, 1} /\ Calling(v, t) \in {0, 1}
        /\ Waiting(v, t, TRUE) \in {0, 1} /\ Waiting(v, t, FALSE) \in {0, 1}
    BY Terms
  <1> QED
    BY <1>1, Sums DEF Count

LEMMA BooksCount ==
    ASSUME NEW v, NEW w, Books(v, w), NEW t \in Targets
    PROVE  Count(w, t) = Count(v, t)
  <1>1. Calling(w, t) = Calling(v, t)
    BY Terms DEF Books
  <1>2. \A f \in BOOLEAN : Waiting(w, t, f) = Waiting(v, t, f)
    BY Terms, CorrIsTask DEF Books
  <1>3. Watched(w, t) = Watched(v, t)
    BY DEF Books, Watched
  <1> QED
    BY <1>1, <1>2, <1>3 DEF Count

LEMMA CountIsLive ==
    ASSUME NEW v
    PROVE  Live(v) => \E t \in Targets : Count(v, t) > 0
  <1>1. ASSUME NEW t \in Targets
        PROVE  Count(v, t) > 0 <=> \/ v.armed[t]
                                   \/ v.call \in CorrTask /\ v.call.t = t
                                   \/ Corr(t, TRUE) \in v.queue
                                   \/ Corr(t, FALSE) \in v.queue
    <2>1. /\ Watched(v, t) = 1 <=> v.armed[t]
          /\ Calling(v, t) = 1 <=> v.call \in CorrTask /\ v.call.t = t
          /\ Waiting(v, t, TRUE) = 1 <=> Corr(t, TRUE) \in v.queue
          /\ Waiting(v, t, FALSE) = 1 <=> Corr(t, FALSE) \in v.queue
      BY Terms
    <2> QED
      BY <2>1, CountIsNat
  <1>2. ASSUME NEW k \in CorrTask
        PROVE  k.t \in Targets
    BY DEF CorrTask
  <1> QED
    BY <1>1, <1>2, CorrIsTask, CorrsAreTwo DEF Live

-----------------------------------------------------------------------------
(* Countdowns, painting and loop protection leave the books alone.         *)

\* Tasks of different kinds differ.
LEMMA Kinds ==
    ASSUME NEW k
    PROVE  /\ k \in CorrTask => k \in Task /\ k \notin AutoTask /\ k \notin PressTask
                                /\ k \notin FireTask /\ k \notin EvalTask
           /\ k \in AutoTask => k \in Task /\ k \notin PressTask
           /\ k \in FireTask => k \in AutoTask
           /\ k \in EvalTask => k \in AutoTask
           /\ k \in PressTask => k \in Task
           /\ k \in Task => k # NoTask /\ k.t \in Targets
           /\ k \in Task => k \in AutoTask \/ k \in PressTask \/ k \in CorrTask
  <1>1. k \in CorrTask => k.kind = "corr" /\ k.t \in Targets
    BY DEF CorrTask
  <1>2. k \in PressTask => k.kind = "press" /\ k.t \in Targets
    BY DEF PressTask
  <1>3. k \in FireTask => k.kind = "fire" /\ k.t \in Targets
    BY DEF FireTask
  <1>4. k \in EvalTask => k.kind = "eval" /\ k.t \in Targets
    BY DEF EvalTask
  <1> QED
    BY <1>1, <1>2, <1>3, <1>4, TaskAssumption DEF Task, AutoTask

Orphan(D, k) == IF k \in FireTask /\ k.t \in D THEN [k EXCEPT !.own = FALSE] ELSE k

LEMMA Orphaned ==
    ASSUME NEW D, NEW k
    PROVE  /\ k \in Task => Orphan(D, k) \in Task
           /\ k \in CorrTask => Orphan(D, k) = k
           /\ Orphan(D, k) \in CorrTask => Orphan(D, k) = k
           /\ Orphan(D, NoTask) = NoTask
  <1>1. k \in FireTask => [k EXCEPT !.own = FALSE] \in FireTask
    BY DEF FireTask
  <1>2. NoTask \notin FireTask
    BY Kinds
  <1>3. CASE k \in FireTask /\ k.t \in D
    BY <1>1, <1>2, <1>3, Kinds DEF Orphan
  <1>4. CASE ~(k \in FireTask /\ k.t \in D)
    BY <1>2, <1>4 DEF Orphan
  <1> QED
    BY <1>3, <1>4

LEMMA CancelPendingEffect ==
    ASSUME NEW v \in CycleType, NEW D \in SUBSET Targets, NEW w, w = CancelPending(v, D)
    PROVE  w \in CycleType /\ Books(v, w) /\ Quiet(v, w) /\ w.shown = v.shown
  <1> DEFINE pend  == [t \in Targets |-> IF t \in D THEN "none" ELSE v.pend[t]]
             queue == {Orphan(D, k) : k \in v.queue}
             call  == Orphan(D, v.call)
  <1>1. w = [v EXCEPT !.pend = pend, !.queue = queue, !.call = call]
    BY DEF CancelPending, Orphan
  <1>2. /\ v.queue \subseteq Task /\ v.call \in Task \cup {NoTask}
        /\ v.pend \in [Targets -> {"none", "armed", "firing"}]
    BY DEF CycleType
  <1>3. pend \in [Targets -> {"none", "armed", "firing"}]
    BY <1>2
  <1>4. queue \subseteq Task
    BY <1>2, Orphaned
  <1>5. call \in Task \cup {NoTask} /\ (call = NoTask <=> v.call = NoTask)
    BY <1>2, Orphaned, Kinds
  <1>6. \A k \in CorrTask : (k \in queue <=> k \in v.queue) /\ (call = k <=> v.call = k)
    BY Orphaned
  <1> HIDE DEF pend, queue, call
  <1>7. w \in CycleType
    BY <1>1, <1>3, <1>4, <1>5 DEF CycleType
  <1>8. /\ w.queue = queue /\ w.call = call /\ w.armed = v.armed /\ w.mark = v.mark
        /\ w.said = v.said /\ w.loaded = v.loaded /\ w.enabled = v.enabled
        /\ w.sup = v.sup /\ w.shown = v.shown
    BY <1>1 DEF CycleType
  <1> QED
    BY <1>5, <1>6, <1>7, <1>8 DEF Books, Quiet

\* Painting a status is the business of nobody else.
LEMMA ShownEffect ==
    ASSUME NEW v \in CycleType, NEW b \in BOOLEAN, NEW w, w = [v EXCEPT !.shown = b]
    PROVE  w \in CycleType /\ Books(v, w) /\ Quiet(v, w) /\ w.shown = b
  BY DEF CycleType, Books, Quiet

LEMMA VerifyingIsLit ==
    ASSUME NEW v \in CycleType
    PROVE  /\ Verifying(v) \in BOOLEAN /\ IdleVerifying(v) \in BOOLEAN
           /\ Verifying(v) \/ IdleVerifying(v) => Live(v)
  BY DEF Verifying, IdleVerifying, Live

LEMMA IdleEffect ==
    ASSUME NEW v \in CycleType, NEW w, w = Idle(v)
    PROVE  w \in CycleType /\ Books(v, w) /\ Quiet(v, w) /\ Lit(w)
  <1>1. CASE Inactive(v)
    <2> DEFINE u == CancelPending(v, Targets)
    <2>1. u \in CycleType /\ Books(v, u) /\ Quiet(v, u)
      BY CancelPendingEffect
    <2>2. w = [u EXCEPT !.shown = FALSE]
      BY <1>1 DEF Idle
    <2> HIDE DEF u
    <2>3. w \in CycleType /\ Books(u, w) /\ Quiet(u, w) /\ w.shown = FALSE
      BY <2>1, <2>2, ShownEffect
    <2> QED
      BY <2>1, <2>3, BooksTransitive DEF Quiet, Lit
  <1>2. CASE ~Inactive(v)
    <2>1. w = [v EXCEPT !.shown = IdleVerifying(v)]
      BY <1>2 DEF Idle
    <2>2. /\ w \in CycleType /\ Books(v, w) /\ Quiet(v, w) 
          /\ w.shown = IdleVerifying(v)
      BY <2>1, VerifyingIsLit, ShownEffect
    <2> QED
      BY <2>2, VerifyingIsLit, BooksLive DEF Lit
  <1> QED
    BY <1>1, <1>2

LEMMA CountdownEffect ==
    ASSUME NEW v \in CycleType, NEW D \in SUBSET Targets, NEW w, w = Countdown(v, D)
    PROVE  w \in CycleType /\ Books(v, w) /\ Quiet(v, w) /\ w.shown = v.shown
  <1> DEFINE u    == CancelPending(v, D)
             pend == [t \in Targets |-> IF t \in D THEN "armed" ELSE u.pend[t]]
  <1>1. u \in CycleType /\ Books(v, u) /\ Quiet(v, u) /\ u.shown = v.shown
    BY CancelPendingEffect
  <1>2. w = [u EXCEPT !.pend = pend]
    BY DEF Countdown
  <1> HIDE DEF u
  <1>3. pend \in [Targets -> {"none", "armed", "firing"}]
    BY <1>1 DEF CycleType
  <1> HIDE DEF pend
  <1>4. w \in CycleType /\ Books(u, w) /\ Quiet(u, w) /\ w.shown = u.shown
    BY <1>1, <1>2, <1>3 DEF CycleType, Books, Quiet
  <1> QED
    BY <1>1, <1>4, BooksTransitive DEF Quiet

LEMMA LoopProtectionEffect ==
    ASSUME NEW v \in CycleType, NEW w, w = LoopProtection(v)
    PROVE  /\ w \in CycleType /\ Books(v, w) /\ w.shown = FALSE
           /\ (w.call = NoTask <=> v.call = NoTask)
  <1> DEFINE u == CancelPending(v, Targets)
  <1>1. u \in CycleType /\ Books(v, u) /\ Quiet(v, u)
    BY CancelPendingEffect
  <1>2. w = [u EXCEPT !.sup = TRUE, !.shown = FALSE]
    BY DEF LoopProtection
  <1> HIDE DEF u
  <1>3. w \in CycleType /\ Books(u, w) /\ w.call = u.call /\ w.shown = FALSE
    BY <1>1, <1>2 DEF CycleType, Books
  <1> QED
    BY <1>1, <1>3, BooksTransitive DEF Quiet

-----------------------------------------------------------------------------
(* Enforcements that are no correctives, and evaluations.                  *)

LEMMA EnterEffect ==
    ASSUME NEW v \in CycleType, v.call = NoTask, NEW k \in Task, NEW w \in Enter(v, k)
    PROVE  /\ w \in CycleType /\ w.shown = FALSE
           /\ k \notin CorrTask => Books(v, w)
           /\ k \notin AutoTask => w = [v EXCEPT !.call = k, !.shown = FALSE]
  <1>1. CASE w = [v EXCEPT !.call = k, !.shown = FALSE]
    <2>1. w \in CycleType /\ w.shown = FALSE
      BY <1>1 DEF CycleType
    <2>2. k \notin CorrTask => Books(v, w)
      <3>1. /\ w.call = k /\ w.queue = v.queue /\ w.armed = v.armed /\ w.mark = v.mark
            /\ w.said = v.said /\ w.loaded = v.loaded /\ w.enabled = v.enabled
        BY <1>1 DEF CycleType
      <3> QED
        BY <3>1, Kinds DEF Books
    <2> QED
      BY <1>1, <2>1, <2>2
  <1>2. CASE w = LoopProtection(v) /\ k \in AutoTask
    BY <1>2, LoopProtectionEffect
  <1> QED
    BY <1>1, <1>2 DEF Enter

LEMMA QueueEffect ==
    ASSUME NEW v \in CycleType, NEW tasks \in SUBSET Task, tasks \cap CorrTask = {},
           NEW w, w = [v EXCEPT !.queue = @ \cup tasks]
    PROVE  w \in CycleType /\ Books(v, w) /\ Quiet(v, w) /\ w.shown = v.shown
  <1> DEFINE queue == v.queue \cup tasks
  <1>1. queue \in SUBSET Task /\ \A k \in CorrTask : k \in queue <=> k \in v.queue
    BY DEF CycleType
  <1>2. w = [v EXCEPT !.queue = queue]
    OBVIOUS
  <1> HIDE DEF queue
  <1>3. w \in CycleType
    BY <1>1, <1>2 DEF CycleType
  <1> QED
    BY <1>1, <1>2, <1>3 DEF CycleType, Books, Quiet

LEMMA StartEffect ==
    ASSUME NEW v \in CycleType, NEW tasks \in SUBSET Task, tasks \cap CorrTask = {},
           NEW w \in Start(v, tasks)
    PROVE  /\ w \in CycleType /\ Books(v, w) /\ (w.shown => v.shown)
           /\ tasks = {} => w = v
  <1>1. CASE tasks = {}
    BY <1>1 DEF Start, Books
  <1>2. CASE tasks # {} /\ (v.call # NoTask \/ v.queue # {})
    <2>1. w = [v EXCEPT !.queue = @ \cup tasks]
      BY <1>2 DEF Start
    <2> QED
      BY <1>2, <2>1, QueueEffect
  <1>3. CASE tasks # {} /\ v.call = NoTask /\ v.queue = {}
    <2> DEFINE after(u, k) == IF u.call = k THEN [u EXCEPT !.queue = tasks \ {k}] ELSE u
    <2>1. PICK k \in tasks : \E u \in Enter(v, k) : w = after(u, k)
      BY <1>3 DEF Start
    <2>2. PICK u \in Enter(v, k) : w = after(u, k)
      BY <2>1
    <2>3. u \in CycleType /\ u.shown = FALSE /\ Books(v, u)
      BY <1>3, <2>2, EnterEffect
    <2>4. CASE w = u
      BY <1>3, <2>3, <2>4
    <2>5. CASE w = [u EXCEPT !.queue = tasks \ {k}]
      <3> DEFINE queue == tasks \ {k}
      <3>1. /\ queue \in SUBSET Task
            /\ \A c \in CorrTask : c \notin queue /\ c \notin u.queue
        BY <1>3, <2>3 DEF Books
      <3>2. w = [u EXCEPT !.queue = queue]
        BY <2>5
      <3> HIDE DEF queue
      <3>3. w \in CycleType /\ w.shown = FALSE
        BY <2>3, <3>1, <3>2 DEF CycleType
      <3>4. Books(u, w)
        BY <2>3, <3>1, <3>2 DEF CycleType, Books
      <3> QED
        BY <1>3, <2>3, <3>3, <3>4, BooksTransitive
    <2> QED
      BY <2>2, <2>4, <2>5
  <1> QED
    BY <1>1, <1>2, <1>3

LEMMA ReplaceEffect ==
    ASSUME NEW v \in CycleType, NEW S \in SUBSET Targets, NEW w, w = Replace(v, S)
    PROVE  w \in CycleType /\ Books(v, w) /\ Quiet(v, w) /\ w.shown = v.shown
  <1> DEFINE queue == {k \in v.queue : ~(k \in EvalTask /\ k.t \in S)}
  <1>1. queue \in SUBSET Task /\ \A k \in CorrTask : k \in queue <=> k \in v.queue
    BY Kinds DEF CycleType
  <1>2. w = [v EXCEPT !.queue = queue]
    BY DEF Replace
  <1> HIDE DEF queue
  <1>3. w \in CycleType
    BY <1>1, <1>2 DEF CycleType
  <1> QED
    BY <1>1, <1>2, <1>3 DEF CycleType, Books, Quiet

\* An evaluation keeps the books, and shows VERIFYING only where a cycle is open; only
\* an enforcement it starts can suppress the rule.
Kept(v, w, S) == /\ w \in CycleType /\ Books(v, w)
                 /\ Lit(v) => Lit(w)
                 /\ (\A t \in S : dev'[t] # "bad") => w.sup = v.sup

LEMMA PaintEffect ==
    ASSUME NEW v \in CycleType, NEW w, w = [v EXCEPT !.shown = Verifying(v)]
    PROVE  w \in CycleType /\ Books(v, w) /\ Quiet(v, w) /\ Lit(w)
  <1>1. /\ w \in CycleType /\ Books(v, w) /\ Quiet(v, w)
        /\ w.shown = Verifying(v)
    BY VerifyingIsLit, ShownEffect
  <1> QED
    BY <1>1, VerifyingIsLit, BooksLive DEF Lit

LEMMA EvaluateLiveEffect ==
    ASSUME NEW v \in CycleType, NEW S \in SUBSET Targets, NEW w \in EvaluateLive(v, S)
    PROVE  Kept(v, w, S)
  <1> DEFINE bad   == {t \in S : dev'[t] = "bad"}
             base  == CancelPending(v, S \ bad)
             late  == Countdown(base, bad)
             paint(x) == IF S = bad THEN x ELSE [x EXCEPT !.shown = Verifying(x)]
             tasks == {[kind |-> "eval", t |-> t] : t \in bad}
  <1>1. base \in CycleType /\ Books(v, base) /\ Quiet(v, base) /\ base.shown = v.shown
    BY CancelPendingEffect
  <1>2. tasks \in SUBSET Task /\ tasks \cap CorrTask = {} 
    <2>1. \A t \in Targets : [kind |-> "eval", t |-> t] \in EvalTask
      BY DEF EvalTask
    <2> QED
      BY <2>1, Kinds
  <1>3. (\A t \in S : dev'[t] # "bad") => bad = {} /\ tasks = {}
    OBVIOUS
  <1>4. bad \in SUBSET Targets
    OBVIOUS
  <1>5. /\ Delay => w = [late EXCEPT !.shown = Verifying(late)]
        /\ ~Delay => \/ w \in Start(paint(base), tasks)
                     \/ \E x \in Start(base, tasks) : w = paint(x)
    BY DEF EvaluateLive
  <1>6. late \in CycleType /\ Books(base, late) /\ Quiet(base, late)
    BY <1>1, <1>4, CountdownEffect
  <1>7. ASSUME NEW x \in CycleType
        PROVE  /\ paint(x) \in CycleType /\ Books(x, paint(x)) /\ paint(x).sup = x.sup
               /\ Lit(x) => Lit(paint(x))
    <2>1. CASE S = bad
      BY <1>7, <2>1 DEF Books
    <2>2. CASE S # bad
      <3>1. paint(x) = [x EXCEPT !.shown = Verifying(x)]
        BY <2>2
      <3> QED
        BY <1>7, <3>1, PaintEffect DEF Quiet
    <2> QED
      BY <2>1, <2>2
  <1> HIDE DEF bad, base, late, paint, tasks
  <1>8. CASE Delay
    <2>1. w \in CycleType /\ Books(late, w) /\ Quiet(late, w) /\ Lit(w)
      BY <1>5, <1>6, <1>8, PaintEffect
    <2>2. Books(v, w)
      BY <1>1, <1>6, <2>1, BooksTransitive
    <2> QED
      BY <1>1, <1>6, <2>1, <2>2 DEF Kept, Quiet
  <1>9. CASE ~Delay /\ w \in Start(paint(base), tasks)
    <2>1. /\ w \in CycleType /\ Books(paint(base), w) /\ (w.shown => paint(base).shown)
          /\ tasks = {} => w = paint(base)
      BY <1>1, <1>2, <1>7, <1>9, StartEffect
    <2>2. /\ paint(base) \in CycleType /\ Books(base, paint(base))
          /\ paint(base).sup = base.sup /\ (Lit(base) => Lit(paint(base)))
      BY <1>1, <1>7
    <2>3. Books(v, w)
      BY <1>1, <2>1, <2>2, BooksTransitive
    <2>4. Lit(v) => Lit(w)
      BY <1>1, <2>1, <2>2, BooksLive DEF Lit
    <2> QED
      BY <1>1, <1>3, <2>1, <2>2, <2>3, <2>4 DEF Kept, Quiet
  <1>10. CASE ~Delay /\ \E x \in Start(base, tasks) : w = paint(x)
    <2>1. PICK x \in Start(base, tasks) : w = paint(x)
      BY <1>10
    <2>2. /\ x \in CycleType /\ Books(base, x) /\ (x.shown => base.shown)
          /\ tasks = {} => x = base
      BY <1>1, <1>2, <2>1, StartEffect
    <2>3. w \in CycleType /\ Books(x, w) /\ w.sup = x.sup /\ (Lit(x) => Lit(w))
      BY <1>7, <2>1, <2>2
    <2>4. Books(v, w)
      BY <1>1, <2>2, <2>3, BooksTransitive
    <2>5. Lit(v) => Lit(w)
      BY <1>1, <2>2, <2>3, BooksLive DEF Lit
    <2> QED
      BY <1>1, <1>3, <2>2, <2>3, <2>4, <2>5 DEF Kept, Quiet
  <1> QED
    BY <1>5, <1>8, <1>9, <1>10, CycleAssumption

LEMMA EvaluateEffect ==
    ASSUME NEW v0 \in CycleType, NEW S \in SUBSET Targets, NEW w \in Evaluate(v0, S)
    PROVE  Kept(v0, w, S)
  <1> DEFINE v == Replace(v0, S)
             u == CancelPending(v, Targets)
  <1>1. v \in CycleType /\ Books(v0, v) /\ Quiet(v0, v) /\ v.shown = v0.shown
    BY ReplaceEffect
  <1>2. u \in CycleType /\ Books(v, u) /\ Quiet(v, u) /\ u.shown = v.shown
    BY <1>1, CancelPendingEffect
  <1>3. \/ w = Idle(v) \/ w = [v EXCEPT !.shown = FALSE] \/ w = [u EXCEPT !.shown = FALSE]
        \/ w \in EvaluateLive(v, S)
    BY DEF Evaluate
  <1> HIDE DEF v, u
  <1>4. CASE w = Idle(v)
    <2>1. w \in CycleType /\ Books(v, w) /\ Quiet(v, w) /\ Lit(w)
      BY <1>1, <1>4, IdleEffect
    <2> QED
      BY <1>1, <2>1, BooksTransitive DEF Kept, Quiet
  <1>5. CASE w = [v EXCEPT !.shown = FALSE]
    <2>1. w \in CycleType /\ Books(v, w) /\ Quiet(v, w) /\ w.shown = FALSE
      BY <1>1, <1>5, ShownEffect
    <2> QED
      BY <1>1, <2>1, BooksTransitive DEF Kept, Quiet, Lit
  <1>6. CASE w = [u EXCEPT !.shown = FALSE]
    <2>1. w \in CycleType /\ Books(u, w) /\ Quiet(u, w) /\ w.shown = FALSE
      BY <1>2, <1>6, ShownEffect
    <2>2. Books(v0, w)
      BY <1>1, <1>2, <2>1, BooksTransitive
    <2> QED
      BY <1>1, <1>2, <2>1, <2>2 DEF Kept, Quiet, Lit
  <1>7. CASE w \in EvaluateLive(v, S)
    <2>1. Kept(v, w, S)
      BY <1>1, <1>7, EvaluateLiveEffect
    <2>2. Lit(v0) => Lit(v)
      BY <1>1, BooksLive DEF Lit
    <2>3. Books(v0, w)
      BY <1>1, <2>1, BooksTransitive DEF Kept
    <2> QED
      BY <1>1, <2>1, <2>2, <2>3 DEF Kept, Quiet
  <1> QED
    BY <1>3, <1>4, <1>5, <1>6, <1>7

LEMMA EvaluateFlagEffect ==
    ASSUME NEW v \in CycleType, NEW w \in EvaluateFlag(v)
    PROVE  w \in CycleType /\ Books(v, w) /\ (Lit(v) => Lit(w))
  <1> DEFINE violating == {t \in Targets : dev'[t] = "bad"}
             met == [v EXCEPT !.shown = Verifying(v)]
  <1>1. met \in CycleType /\ Books(v, met) /\ Lit(met)
    BY PaintEffect
  <1>2. w = met \/ w \in Evaluate(met, violating) \/ w \in Evaluate(v, {})
    BY DEF EvaluateFlag
  <1>3. violating \in SUBSET Targets /\ {} \in SUBSET Targets
    OBVIOUS
  <1> HIDE DEF met, violating
  <1>4. CASE w = met
    BY <1>1, <1>4
  <1>5. CASE w \in Evaluate(met, violating)
    <2>1. Kept(met, w, violating)
      BY <1>1, <1>3, <1>5, EvaluateEffect
    <2> QED
      BY <1>1, <2>1, BooksTransitive DEF Kept
  <1>6. CASE w \in Evaluate(v, {})
    <2>1. Kept(v, w, {})
      BY <1>3, <1>6, EvaluateEffect
    <2> QED
      BY <2>1 DEF Kept
  <1> QED
    BY <1>2, <1>4, <1>5, <1>6

LEMMA SweepEffect ==
    ASSUME NEW v \in CycleType, NEW w \in Sweep(v)
    PROVE  w \in CycleType /\ Books(v, w) /\ (Lit(v) => Lit(w))
  <1>1. CASE w = v
    BY <1>1 DEF Books
  <1>2. CASE w \in Evaluate(v, Targets)
    <2>1. Kept(v, w, Targets)
      BY <1>2, EvaluateEffect
    <2> QED
      BY <2>1 DEF Kept
  <1> QED
    BY <1>1, <1>2 DEF Sweep

-----------------------------------------------------------------------------
(* What a step may do.                                                     *)

WorldOK == /\ dev \in [Targets -> {"good", "bad", "gone"}]
           /\ flag \in BOOLEAN /\ master \in BOOLEAN

VerdictsOf(u, messages) == {m \in messages : m.t = u /\ m.kind \in Verdicts}
SentTo(u, messages)     == \E m \in messages : m.t = u /\ m.kind = "enforced"

Silently(u)   == VerdictsOf(u, vc'.said) = {}
WithOne(u)    == \E m : VerdictsOf(u, vc'.said) = {m}
Excused(u)    == \/ ~vc'.loaded \/ dev'[u] = "gone" \/ Count(vc, u) > 1 \/ vc.streak[u] > 0
                 \/ /\ vc.call \in CorrTask /\ vc.call.t = u /\ vc'.call = NoTask
                    /\ ~vc.enabled \/ ~master \/ vc'.aborted

\* A cycle of u opens; ends with its verdict; does both; or at most lapses with an excuse.
Effect(u) ==
    \/ Silently(u) /\ SentTo(u, vc'.said) /\ Count(vc', u) = Count(vc, u) + 1
    \/ WithOne(u) /\ Count(vc, u) > 0 /\ Count(vc', u) = Count(vc, u) - 1
    \/ WithOne(u) /\ SentTo(u, vc'.said) /\ Count(vc', u) = Count(vc, u)
    \/ /\ Silently(u) /\ Count(vc', u) <= Count(vc, u)
       /\ Count(vc', u) < Count(vc, u) => Excused(u)

AutoUnforced(u) ==
    vc.call \in AutoTask /\ vc.call.t = u /\ ~vc.armed[u] /\ vc'.armed[u] => ~vc'.mark[u]

LoadedLit == vc.loaded => Lit(vc)

StepOK == /\ TypeOK' /\ VerifiedIsPermitted' /\ (LoadedLit => LoadedLit')
          /\ \A u \in Targets : Effect(u) /\ AutoUnforced(u)

\* The engine at the start of a step, but for switches, countdowns and suppression.
Bare(v) == /\ v \in CycleType /\ v.said = {} /\ v.armed = vc.armed
           /\ v.queue = vc.queue /\ v.call = vc.call /\ v.loaded = vc.loaded
           /\ v.shown = vc.shown

LEMMA BareEngine ==
    ASSUME TypeOK
    PROVE  /\ Bare(Engine) /\ Engine.enabled = vc.enabled /\ Engine.sup = vc.sup
           /\ Engine.streak = vc.streak /\ Engine.attempts = vc.attempts
           /\ Engine.mark = vc.mark
           /\ Engine.pend = vc.pend
  BY DEF TypeOK, Bare, Engine, CycleType

LEMMA BareCount ==
    ASSUME NEW v, Bare(v)
    PROVE  /\ \A u \in Targets : Count(v, u) = Count(vc, u)
           /\ Live(v) <=> Live(vc)
           /\ Lit(v) <=> Lit(vc)
  BY DEF Bare, Count, Watched, Calling, Waiting, Live, Lit

\* A step that keeps the books changes no cycle.
LEMMA BareStep ==
    ASSUME TypeOK, WorldOK', NEW v, Bare(v), vc' \in CycleType, Books(v, vc'),
           Lit(v) => Lit(vc')
    PROVE  StepOK
  <1>1. /\ vc'.said = {} /\ vc'.loaded = vc.loaded /\ vc'.armed = vc.armed
    BY DEF Bare, Books
  <1>2. TypeOK'
    BY DEF TypeOK, WorldOK
  <1>3. VerifiedIsPermitted'
    BY <1>1 DEF VerifiedIsPermitted
  <1>4. LoadedLit => LoadedLit'
    BY <1>1, BareCount DEF LoadedLit, Lit, Live
  <1>5. ASSUME NEW u \in Targets
        PROVE  Effect(u) /\ AutoUnforced(u)
    <2>1. Count(vc', u) = Count(vc, u) /\ Count(vc, u) \in Nat
      BY BooksCount, BareCount, CountIsNat
    <2>2. Silently(u)
      BY <1>1 DEF Silently, VerdictsOf
    <2>3. Effect(u)
      BY <2>1, <2>2 DEF Effect
    <2>4. AutoUnforced(u)
      BY <1>1 DEF AutoUnforced
    <2> QED
      BY <2>3, <2>4
  <1> QED
    BY <1>2, <1>3, <1>4, <1>5 DEF StepOK

\* Leaving the world alone.
LEMMA WorldKept ==
    ASSUME TypeOK, UNCHANGED World
    PROVE  WorldOK' /\ dev' = dev /\ flag' = flag /\ master' = master
  BY DEF TypeOK, World, WorldOK

-----------------------------------------------------------------------------
(* Steps that keep the books.                                              *)

LEMMA FlagMovesStep ==
    ASSUME TypeOK, FlagMoves
    PROVE  StepOK
  <1>1. WorldOK'
    BY DEF TypeOK, FlagMoves, WorldOK
  <1>2. CASE vc.loaded
    <2>1. vc' \in EvaluateFlag(Engine)
      BY <1>2 DEF FlagMoves
    <2>2. vc' \in CycleType /\ Books(Engine, vc') /\ (Lit(Engine) => Lit(vc'))
      BY <2>1, BareEngine, EvaluateFlagEffect DEF Bare
    <2> QED
      BY <1>1, <2>2, BareEngine, BareStep
  <1>3. CASE ~vc.loaded
    <2>1. vc' = Engine
      BY <1>3 DEF FlagMoves
    <2> QED
      BY <1>1, <2>1, BareEngine, BareStep DEF Bare, Books
  <1> QED
    BY <1>2, <1>3

LEMMA SourceMovesStep ==
    ASSUME TypeOK, SourceMoves
    PROVE  StepOK
  <1>1. WorldOK'
    BY DEF TypeOK, SourceMoves, WorldOK
  <1> DEFINE painted == [Engine EXCEPT !.shown = Verifying(vc)]
  <1>2. painted = [Engine EXCEPT !.shown = Verifying(Engine)]
    BY BareEngine DEF Bare, Verifying
  <1>3. painted \in CycleType /\ Books(Engine, painted) /\ Lit(painted)
    BY <1>2, BareEngine, PaintEffect DEF Bare
  <1>4. vc' = Engine \/ vc' \in Evaluate(painted, Targets) \/ vc' \in Evaluate(Engine, {})
    BY DEF SourceMoves
  <1> HIDE DEF painted
  <1>5. CASE vc' = Engine
    BY <1>1, <1>5, BareEngine, BareStep DEF Bare, Books
  <1>6. CASE vc' \in Evaluate(painted, Targets)
    <2>1. Kept(painted, vc', Targets)
      BY <1>3, <1>6, EvaluateEffect
    <2>2. Books(Engine, vc')
      BY <1>3, <2>1, BooksTransitive DEF Kept
    <2> QED
      BY <1>1, <1>3, <2>1, <2>2, BareEngine, BareStep DEF Kept
  <1>7. CASE vc' \in Evaluate(Engine, {})
    <2>1. Kept(Engine, vc', {})
      BY <1>7, BareEngine, EvaluateEffect DEF Bare
    <2> QED
      BY <1>1, <2>1, BareEngine, BareStep DEF Kept
  <1> QED
    BY <1>4, <1>5, <1>6, <1>7

\* A sweep after the status was derived afresh.
LEMMA SweepStep ==
    ASSUME TypeOK, WorldOK', NEW v, Bare(v), vc' \in Sweep(Idle(v))
    PROVE  StepOK
  <1>1. Idle(v) \in CycleType /\ Books(v, Idle(v)) /\ Lit(Idle(v))
    BY IdleEffect DEF Bare
  <1>2. vc' \in CycleType /\ Books(Idle(v), vc') /\ Lit(vc')
    BY <1>1, SweepEffect
  <1> QED
    BY <1>1, <1>2, BooksTransitive, BareStep

LEMMA MasterSetStep ==
    ASSUME TypeOK, NEW on \in BOOLEAN, MasterSet(on)
    PROVE  StepOK
  <1>1. WorldOK'
    BY DEF TypeOK, MasterSet, WorldOK
  <1>2. vc' \in Sweep(Idle(Engine)) \/ vc' = Engine
    BY DEF MasterSet
  <1>3. CASE vc' = Engine
    BY <1>1, <1>3, BareEngine, BareStep DEF Bare, Books
  <1> QED
    BY <1>1, <1>2, <1>3, BareEngine, SweepStep

LEMMA SuppressStep ==
    ASSUME TypeOK, Suppress
    PROVE  StepOK
  <1> DEFINE v == [Engine EXCEPT !.sup = TRUE]
             w == CancelPending(v, Targets)
  <1>1. vc' = Idle(w) /\ WorldOK'
    BY WorldKept DEF Suppress
  <1>2. Bare(v)
    BY BareEngine DEF Bare, CycleType
  <1> HIDE DEF v
  <1>3. w \in CycleType /\ Books(v, w)
    BY <1>2, CancelPendingEffect DEF Bare
  <1> HIDE DEF w
  <1>4. vc' \in CycleType /\ Books(w, vc') /\ Lit(vc')
    BY <1>1, <1>3, IdleEffect
  <1> QED
    BY <1>1, <1>2, <1>3, <1>4, BooksTransitive, BareStep

LEMMA SuppressionEndsStep ==
    ASSUME TypeOK, SuppressionEnds
    PROVE  StepOK
  <1> DEFINE v == [Engine EXCEPT !.sup = FALSE]
  <1>1. vc' \in Sweep(Idle(v)) /\ WorldOK'
    BY WorldKept DEF SuppressionEnds
  <1>2. Bare(v)
    BY BareEngine DEF Bare, CycleType
  <1> HIDE DEF v
  <1> QED
    BY <1>1, <1>2, SweepStep

LEMMA PressStep ==
    ASSUME TypeOK, NEW t \in Targets, Press(t)
    PROVE  StepOK
  <1> DEFINE b == Inactive(vc)
             k == [kind |-> "press", t |-> t, inactive |-> b]
  <1>1. vc' \in Start(Engine, {k}) /\ WorldOK'
    BY WorldKept DEF Press
  <1>2. b \in BOOLEAN
    BY DEF Inactive
  <1> HIDE DEF b
  <1>3. k \in PressTask
    BY <1>2 DEF PressTask
  <1> HIDE DEF k
  <1>4. {k} \in SUBSET Task /\ {k} \cap CorrTask = {}
    BY <1>3, Kinds
  <1>5. vc' \in CycleType /\ Books(Engine, vc') /\ (vc'.shown => Engine.shown)
    BY <1>1, <1>4, BareEngine, StartEffect DEF Bare
  <1>6. Lit(Engine) => Lit(vc')
    BY <1>5, BooksLive DEF Lit
  <1> QED
    BY <1>1, <1>5, <1>6, BareEngine, BareStep

LEMMA CountdownFiresStep ==
    ASSUME TypeOK, NEW t \in Targets, CountdownFires(t)
    PROVE  StepOK
  <1> DEFINE k      == [kind |-> "fire", t |-> t, own |-> TRUE]
             gone   == [Engine EXCEPT !.pend[t] = "none"]
             firing == [Engine EXCEPT !.pend[t] = "firing"]
  <1>1. /\ WorldOK'
        /\ \/ vc' = Idle(Engine) \/ vc' = Idle(gone)
           \/ vc' = [gone EXCEPT !.shown = Verifying(gone)]
           \/ vc' \in Start(firing, {k})
    BY WorldKept DEF CountdownFires
  <1>2. Bare(Engine) /\ Engine.pend \in [Targets -> {"none", "armed", "firing"}]
    BY BareEngine DEF Bare, CycleType
  <1>3. Bare(gone) /\ Bare(firing)
    BY <1>2 DEF Bare, CycleType
  <1>4. k \in FireTask
    BY DEF FireTask
  <1>5. {k} \in SUBSET Task /\ {k} \cap CorrTask = {}
    BY <1>4, Kinds
  <1> HIDE DEF k, gone, firing
  <1>6. ASSUME NEW v, Bare(v), vc' = Idle(v)
        PROVE  StepOK
    BY <1>1, <1>6, IdleEffect, BareStep DEF Bare
  <1>7. CASE vc' = [gone EXCEPT !.shown = Verifying(gone)]
    BY <1>1, <1>3, <1>7, PaintEffect, BareStep DEF Bare
  <1>8. CASE vc' \in Start(firing, {k})
    <2>1. vc' \in CycleType /\ Books(firing, vc') /\ (vc'.shown => firing.shown)
      BY <1>3, <1>5, <1>8, StartEffect DEF Bare
    <2>2. Lit(firing) => Lit(vc')
      BY <2>1, BooksLive DEF Lit
    <2> QED
      BY <1>1, <1>3, <2>1, <2>2, BareStep
  <1> QED
    BY <1>1, <1>2, <1>3, <1>6, <1>7, <1>8

-----------------------------------------------------------------------------
(* How steps that touch a cycle change the count.                          *)

SameCorrs(v, w) ==
    \A k \in CorrTask : (k \in w.queue <=> k \in v.queue) /\ (w.call = k <=> v.call = k)

LEMMA TermsOf ==
    ASSUME NEW v, NEW u
    PROVE  /\ Watched(v, u) \in {0, 1} /\ Calling(v, u) \in {0, 1}
           /\ Waiting(v, u, TRUE) \in {0, 1} /\ Waiting(v, u, FALSE) \in {0, 1}
           /\ Watched(v, u) = 1 <=> v.armed[u]
           /\ Calling(v, u) = 1 <=> v.call \in CorrTask /\ v.call.t = u
           /\ Waiting(v, u, TRUE) = 1 <=> Corr(u, TRUE) \in v.queue
           /\ Waiting(v, u, FALSE) = 1 <=> Corr(u, FALSE) \in v.queue
  <1>1. /\ Watched(v, u) \in {0, 1} /\ Calling(v, u) \in {0, 1}
        /\ Waiting(v, u, TRUE) \in {0, 1} /\ Waiting(v, u, FALSE) \in {0, 1}
    BY DEF Watched, Calling, Waiting
  <1>2. Watched(v, u) = 1 <=> v.armed[u]
    BY DEF Watched
  <1>3. Calling(v, u) = 1 <=> v.call \in CorrTask /\ v.call.t = u
    BY DEF Calling
  <1>4. \A f \in BOOLEAN : Waiting(v, u, f) = 1 <=> Corr(u, f) \in v.queue
    BY DEF Waiting
  <1> QED
    BY <1>1, <1>2, <1>3, <1>4, Zenon

LEMMA BothCorrs ==
    ASSUME NEW u \in Targets
    PROVE  /\ Corr(u, TRUE) \in CorrTask /\ Corr(u, TRUE).t = u
           /\ Corr(u, FALSE) \in CorrTask /\ Corr(u, FALSE).t = u
           /\ Corr(u, TRUE) # Corr(u, FALSE)
           /\ \A k \in CorrTask : k.t = u => k = Corr(u, TRUE) \/ k = Corr(u, FALSE)
           /\ NoTask \notin CorrTask
  <1>1. /\ Corr(u, TRUE) \in CorrTask /\ Corr(u, TRUE).t = u
        /\ Corr(u, FALSE) \in CorrTask /\ Corr(u, FALSE).t = u
    BY CorrIsTask
  <1>2. Corr(u, TRUE) # Corr(u, FALSE)
    BY DEF Corr
  <1> QED
    BY <1>1, <1>2, CorrsAreTwo, Kinds

LEMMA ArmedCount ==
    ASSUME NEW v, NEW w, NEW u \in Targets, SameCorrs(v, w)
    PROVE  /\ (w.armed[u] <=> v.armed[u]) => Count(w, u) = Count(v, u)
           /\ v.armed[u] /\ ~w.armed[u] => Count(v, u) > 0 /\ Count(w, u) = Count(v, u) - 1
           /\ ~v.armed[u] /\ w.armed[u] => Count(w, u) = Count(v, u) + 1
  <1>1. /\ w.call \in CorrTask /\ w.call.t = u <=> v.call \in CorrTask /\ v.call.t = u
        /\ Corr(u, TRUE) \in w.queue <=> Corr(u, TRUE) \in v.queue
        /\ Corr(u, FALSE) \in w.queue <=> Corr(u, FALSE) \in v.queue
    BY BothCorrs DEF SameCorrs
  <1> DEFINE a == Watched(v, u)
             b == Calling(v, u)
             c == Waiting(v, u, TRUE)
             d == Waiting(v, u, FALSE)
             e == Watched(w, u)
             f == Calling(w, u)
             g == Waiting(w, u, TRUE)
             h == Waiting(w, u, FALSE)
  <1>8. /\ a \in {0, 1} /\ b \in {0, 1} /\ c \in {0, 1} /\ d \in {0, 1}
        /\ e \in {0, 1} /\ f \in {0, 1} /\ g \in {0, 1} /\ h \in {0, 1}
    BY TermsOf, Zenon
  <1>10. /\ (a = 1 <=> v.armed[u]) /\ (b = 1 <=> v.call \in CorrTask /\ v.call.t = u)
        /\ (c = 1 <=> Corr(u, TRUE) \in v.queue) /\ (d = 1 <=> Corr(u, FALSE) \in v.queue)
    BY TermsOf, Zenon
  <1>6. /\ (e = 1 <=> w.armed[u]) /\ (f = 1 <=> w.call \in CorrTask /\ w.call.t = u)
        /\ (g = 1 <=> Corr(u, TRUE) \in w.queue) /\ (h = 1 <=> Corr(u, FALSE) \in w.queue)
    BY TermsOf, Zenon
  <1>7. Count(v, u) = a + b + (c + d) /\ Count(w, u) = e + f + (g + h)
    BY DEF Count
  <1> HIDE DEF a, b, c, d, e, f, g, h
  <1>9. /\ f = b /\ g = c /\ h = d
        /\ (a = 1 <=> v.armed[u]) /\ (e = 1 <=> w.armed[u])
    BY <1>1, <1>10, <1>6, <1>8
  <1> QED
    BY <1>7, <1>8, <1>9

\* The lock goes to a corrective that waited.
LEMMA MovedCount ==
    ASSUME NEW v, NEW w, NEW u \in Targets, NEW k \in CorrTask, w.armed[u] <=> v.armed[u],
           k \in v.queue, w.queue = v.queue \ {k}, v.call = NoTask, w.call = k
    PROVE  Count(w, u) = Count(v, u)
  <1>1. /\ ~(v.call \in CorrTask /\ v.call.t = u)
        /\ w.call \in CorrTask /\ w.call.t = u <=> k.t = u
    BY BothCorrs
  <1>2. /\ Corr(u, TRUE) \in w.queue <=> Corr(u, TRUE) \in v.queue /\ k # Corr(u, TRUE)
        /\ Corr(u, FALSE) \in w.queue <=> Corr(u, FALSE) \in v.queue /\ k # Corr(u, FALSE)
    OBVIOUS
  <1>3. \/ k.t # u /\ k # Corr(u, TRUE) /\ k # Corr(u, FALSE)
        \/ k.t = u /\ k = Corr(u, TRUE) /\ k # Corr(u, FALSE)
        \/ k.t = u /\ k # Corr(u, TRUE) /\ k = Corr(u, FALSE)
    BY BothCorrs
  <1>4. k = Corr(u, TRUE) => Corr(u, TRUE) \in v.queue
    OBVIOUS
  <1>5. k = Corr(u, FALSE) => Corr(u, FALSE) \in v.queue
    OBVIOUS
  <1> DEFINE a == Watched(v, u)
             b == Calling(v, u)
             c == Waiting(v, u, TRUE)
             d == Waiting(v, u, FALSE)
             e == Watched(w, u)
             f == Calling(w, u)
             g == Waiting(w, u, TRUE)
             h == Waiting(w, u, FALSE)
  <1>8. /\ a \in {0, 1} /\ b \in {0, 1} /\ c \in {0, 1} /\ d \in {0, 1}
        /\ e \in {0, 1} /\ f \in {0, 1} /\ g \in {0, 1} /\ h \in {0, 1}
    BY TermsOf, Zenon
  <1>10. /\ (a = 1 <=> v.armed[u]) /\ (b = 1 <=> v.call \in CorrTask /\ v.call.t = u)
        /\ (c = 1 <=> Corr(u, TRUE) \in v.queue) /\ (d = 1 <=> Corr(u, FALSE) \in v.queue)
    BY TermsOf, Zenon
  <1>6. /\ (e = 1 <=> w.armed[u]) /\ (f = 1 <=> w.call \in CorrTask /\ w.call.t = u)
        /\ (g = 1 <=> Corr(u, TRUE) \in w.queue) /\ (h = 1 <=> Corr(u, FALSE) \in w.queue)
    BY TermsOf, Zenon
  <1>7. Count(v, u) = a + b + (c + d) /\ Count(w, u) = e + f + (g + h)
    BY DEF Count
  <1> HIDE DEF a, b, c, d, e, f, g, h
  <1>9. /\ e = a /\ b = 0 /\ (f = 1 <=> k.t = u)
        /\ \/ k.t # u /\ g = c /\ h = d
           \/ k.t = u /\ c = 1 /\ g = 0 /\ h = d
           \/ k.t = u /\ d = 1 /\ h = 0 /\ g = c
    BY <1>1, <1>2, <1>3, <1>4, <1>5, <1>10, <1>6, <1>8
  <1> QED
    BY <1>7, <1>8, <1>9

\* A deadline turns into a corrective that waits ...
LEMMA QueuedCount ==
    ASSUME NEW v, NEW w, NEW u \in Targets, NEW k \in CorrTask, w.armed[u] <=> v.armed[u],
           k \notin v.queue,
           \A x \in CorrTask : /\ x \in w.queue <=> x \in v.queue \/ x = k
                               /\ w.call = x <=> v.call = x
    PROVE  Count(w, u) = IF k.t = u THEN Count(v, u) + 1 ELSE Count(v, u)
  <1>1. /\ Corr(u, TRUE) \in w.queue <=> Corr(u, TRUE) \in v.queue \/ k = Corr(u, TRUE)
        /\ Corr(u, FALSE) \in w.queue <=> Corr(u, FALSE) \in v.queue \/ k = Corr(u, FALSE)
    BY BothCorrs
  <1>2. \/ k.t # u /\ k # Corr(u, TRUE) /\ k # Corr(u, FALSE)
        \/ k.t = u /\ k = Corr(u, TRUE) /\ k # Corr(u, FALSE)
        \/ k.t = u /\ k # Corr(u, TRUE) /\ k = Corr(u, FALSE)
    BY BothCorrs
  <1>3. (k = Corr(u, TRUE) => Corr(u, TRUE) \notin v.queue)
        /\ (k = Corr(u, FALSE) => Corr(u, FALSE) \notin v.queue)
    OBVIOUS
  <1>4. w.call \in CorrTask /\ w.call.t = u <=> v.call \in CorrTask /\ v.call.t = u
    OBVIOUS
  <1> DEFINE a == Watched(v, u)
             b == Calling(v, u)
             c == Waiting(v, u, TRUE)
             d == Waiting(v, u, FALSE)
             e == Watched(w, u)
             f == Calling(w, u)
             g == Waiting(w, u, TRUE)
             h == Waiting(w, u, FALSE)
  <1>8. /\ a \in {0, 1} /\ b \in {0, 1} /\ c \in {0, 1} /\ d \in {0, 1}
        /\ e \in {0, 1} /\ f \in {0, 1} /\ g \in {0, 1} /\ h \in {0, 1}
    BY TermsOf, Zenon
  <1>10. /\ (a = 1 <=> v.armed[u]) /\ (b = 1 <=> v.call \in CorrTask /\ v.call.t = u)
        /\ (c = 1 <=> Corr(u, TRUE) \in v.queue) /\ (d = 1 <=> Corr(u, FALSE) \in v.queue)
    BY ONLY TermsOf, Zenon DEF a, b, c, d
  <1>6. /\ (e = 1 <=> w.armed[u]) /\ (f = 1 <=> w.call \in CorrTask /\ w.call.t = u)
        /\ (g = 1 <=> Corr(u, TRUE) \in w.queue) /\ (h = 1 <=> Corr(u, FALSE) \in w.queue)
    BY ONLY TermsOf, Zenon DEF e, f, g, h
  <1>7. Count(v, u) = a + b + (c + d) /\ Count(w, u) = e + f + (g + h)
    BY DEF Count
  <1> HIDE DEF a, b, c, d, e, f, g, h
  <1>9. /\ e = a /\ f = b
        /\ \/ k.t # u /\ g = c /\ h = d
           \/ k.t = u /\ c = 0 /\ g = 1 /\ h = d
           \/ k.t = u /\ d = 0 /\ h = 1 /\ g = c
    BY <1>1, <1>2, <1>3, <1>4, <1>10, <1>6, <1>8
  <1> QED
    BY <1>7, <1>8, <1>9

\* ... or that takes a free lock.
LEMMA TakenCount ==
    ASSUME NEW v, NEW w, NEW u \in Targets, NEW k \in CorrTask, w.armed[u] <=> v.armed[u],
           w.queue = v.queue, v.call = NoTask, w.call = k
    PROVE  Count(w, u) = IF k.t = u THEN Count(v, u) + 1 ELSE Count(v, u)
  <1>1. /\ ~(v.call \in CorrTask /\ v.call.t = u)
        /\ w.call \in CorrTask /\ w.call.t = u <=> k.t = u
    BY BothCorrs
  <1>2. /\ Corr(u, TRUE) \in w.queue <=> Corr(u, TRUE) \in v.queue
        /\ Corr(u, FALSE) \in w.queue <=> Corr(u, FALSE) \in v.queue
    OBVIOUS
  <1> DEFINE a == Watched(v, u)
             b == Calling(v, u)
             c == Waiting(v, u, TRUE)
             d == Waiting(v, u, FALSE)
             e == Watched(w, u)
             f == Calling(w, u)
             g == Waiting(w, u, TRUE)
             h == Waiting(w, u, FALSE)
  <1>8. /\ a \in {0, 1} /\ b \in {0, 1} /\ c \in {0, 1} /\ d \in {0, 1}
        /\ e \in {0, 1} /\ f \in {0, 1} /\ g \in {0, 1} /\ h \in {0, 1}
    BY TermsOf, Zenon
  <1>10. /\ (a = 1 <=> v.armed[u]) /\ (b = 1 <=> v.call \in CorrTask /\ v.call.t = u)
        /\ (c = 1 <=> Corr(u, TRUE) \in v.queue) /\ (d = 1 <=> Corr(u, FALSE) \in v.queue)
    BY TermsOf, Zenon
  <1>6. /\ (e = 1 <=> w.armed[u]) /\ (f = 1 <=> w.call \in CorrTask /\ w.call.t = u)
        /\ (g = 1 <=> Corr(u, TRUE) \in w.queue) /\ (h = 1 <=> Corr(u, FALSE) \in w.queue)
    BY TermsOf, Zenon
  <1>7. Count(v, u) = a + b + (c + d) /\ Count(w, u) = e + f + (g + h)
    BY DEF Count
  <1> HIDE DEF a, b, c, d, e, f, g, h
  <1>9. /\ e = a /\ b = 0 /\ (f = 1 <=> k.t = u) /\ g = c /\ h = d
    BY <1>1, <1>2, <1>10, <1>6, <1>8
  <1> QED
    BY <1>7, <1>8, <1>9

\* The call of an enforcement is over.
LEMMA ReleasedCount ==
    ASSUME NEW v, NEW w, NEW u \in Targets, w.armed[u] <=> v.armed[u], w.queue = v.queue,
           w.call = NoTask
    PROVE  Count(w, u) = IF v.call \in CorrTask /\ v.call.t = u THEN Count(v, u) - 1
                         ELSE Count(v, u)
  <1>1. ~(w.call \in CorrTask /\ w.call.t = u)
    BY BothCorrs
  <1>2. /\ Corr(u, TRUE) \in w.queue <=> Corr(u, TRUE) \in v.queue
        /\ Corr(u, FALSE) \in w.queue <=> Corr(u, FALSE) \in v.queue
    OBVIOUS
  <1> DEFINE a == Watched(v, u)
             b == Calling(v, u)
             c == Waiting(v, u, TRUE)
             d == Waiting(v, u, FALSE)
             e == Watched(w, u)
             f == Calling(w, u)
             g == Waiting(w, u, TRUE)
             h == Waiting(w, u, FALSE)
  <1>8. /\ a \in {0, 1} /\ b \in {0, 1} /\ c \in {0, 1} /\ d \in {0, 1}
        /\ e \in {0, 1} /\ f \in {0, 1} /\ g \in {0, 1} /\ h \in {0, 1}
    BY TermsOf, Zenon
  <1>10. /\ (a = 1 <=> v.armed[u]) /\ (b = 1 <=> v.call \in CorrTask /\ v.call.t = u)
        /\ (c = 1 <=> Corr(u, TRUE) \in v.queue) /\ (d = 1 <=> Corr(u, FALSE) \in v.queue)
    BY TermsOf, Zenon
  <1>6. /\ (e = 1 <=> w.armed[u]) /\ (f = 1 <=> w.call \in CorrTask /\ w.call.t = u)
        /\ (g = 1 <=> Corr(u, TRUE) \in w.queue) /\ (h = 1 <=> Corr(u, FALSE) \in w.queue)
    BY TermsOf, Zenon
  <1>7. Count(v, u) = a + b + (c + d) /\ Count(w, u) = e + f + (g + h)
    BY DEF Count
  <1> HIDE DEF a, b, c, d, e, f, g, h
  <1>9. /\ e = a /\ f = 0 /\ g = c /\ h = d
        /\ b = 1 <=> v.call \in CorrTask /\ v.call.t = u
    BY <1>1, <1>2, <1>10, <1>6, <1>8
  <1> QED
    BY <1>7, <1>8, <1>9

-----------------------------------------------------------------------------
(* Steps that end cycles.                                                  *)

\* Nothing is announced: what ends is excused.
LEMMA SilentStep ==
    ASSUME TypeOK, WorldOK', vc' \in CycleType, vc'.said = {},
           vc'.loaded => vc.loaded /\ (Lit(vc) => Lit(vc')),
           \A u \in Targets : /\ Count(vc', u) <= Count(vc, u)
                              /\ Count(vc', u) < Count(vc, u) => Excused(u)
                              /\ vc'.armed[u] => vc.armed[u] \/ vc.call \notin AutoTask
    PROVE  StepOK
  <1>1. TypeOK'
    BY DEF TypeOK, WorldOK
  <1>2. VerifiedIsPermitted'
    BY DEF VerifiedIsPermitted
  <1>3. LoadedLit => LoadedLit'
    BY DEF LoadedLit, Lit, Live
  <1>4. ASSUME NEW u \in Targets
        PROVE  Effect(u) /\ AutoUnforced(u)
    <2>1. Silently(u)
      BY DEF Silently, VerdictsOf
    <2> QED
      BY <2>1 DEF Effect, AutoUnforced
  <1> QED
    BY <1>1, <1>2, <1>3, <1>4 DEF StepOK

\* The cycle of t ends with the verdict m, and the step does no more to the books.
LEMMA VerdictStep ==
    ASSUME TypeOK, WorldOK', NEW t \in Targets, NEW m \in Message,
           vc.armed[t], m.t = t, m.kind \in Verdicts, vc' \in CycleType, vc'.said = {m},
           vc'.armed = [vc.armed EXCEPT ![t] = FALSE], SameCorrs(vc, vc'),
           vc'.loaded = vc.loaded, Lit(vc'),
           m.kind = "verified" => /\ vc'.loaded /\ vc'.enabled /\ master'
                                  /\ m.forced \/ (flag' /\ ~vc'.sup)
    PROVE  StepOK
  <1>1. /\ vc'.said = {m} /\ vc'.armed = [vc.armed EXCEPT ![t] = FALSE]
        /\ SameCorrs(vc, vc') /\ vc'.loaded = vc.loaded
    OBVIOUS
  <1>2. vc.armed \in [Targets -> BOOLEAN]
    BY DEF TypeOK, CycleType
  <1>3. TypeOK'
    BY DEF TypeOK, WorldOK
  <1>4. VerifiedIsPermitted'
    BY <1>1 DEF VerifiedIsPermitted
  <1>5. LoadedLit'
    BY DEF LoadedLit, Lit, Live
  <1>6. ASSUME NEW u \in Targets
        PROVE  Effect(u) /\ AutoUnforced(u)
    <2>1. CASE u = t
      <3>1. Count(vc, u) > 0 /\ Count(vc', u) = Count(vc, u) - 1
        BY <1>1, <1>2, <2>1, ArmedCount
      <3>2. WithOne(u)
        <4>1. VerdictsOf(u, vc'.said) = {m}
          BY <1>1, <2>1 DEF VerdictsOf
        <4> QED
          BY <4>1 DEF WithOne
      <3>3. ~vc'.armed[u]
        BY <1>1, <1>2, <2>1
      <3> QED
        BY <3>1, <3>2, <3>3 DEF Effect, AutoUnforced
    <2>2. CASE u # t
      <3>1. vc'.armed[u] = vc.armed[u]
        BY <1>1, <1>2, <2>2
      <3>2. Count(vc', u) = Count(vc, u) /\ Count(vc, u) \in Nat
        <4>1. vc'.armed[u] <=> vc.armed[u]
          BY <3>1
        <4>2. SameCorrs(vc, vc')
          BY <1>1
        <4> QED
          BY ONLY <4>1, <4>2, u \in Targets, ArmedCount, CountIsNat
      <3>3. Silently(u)
        BY <1>1, <2>2 DEF Silently, VerdictsOf
      <3> QED
        BY <3>1, <3>2, <3>3 DEF Effect, AutoUnforced
    <2> QED
      BY <2>1, <2>2
  <1> QED
    BY <1>3, <1>4, <1>5, <1>6 DEF StepOK

\* A message of the given contents.
LEMMA MessageOf ==
    ASSUME NEW t \in Targets, NEW kind \in Verdicts \cup {"enforced"}, NEW f \in BOOLEAN
    PROVE  LET m == [t |-> t, kind |-> kind, forced |-> f]
           IN  m \in Message /\ m.t = t /\ m.kind = kind /\ m.forced = f
  BY DEF Message

LEMMA SayEffect ==
    ASSUME NEW v \in CycleType, NEW t \in Targets, NEW kind \in Verdicts \cup {"enforced"},
           NEW f \in BOOLEAN, NEW w, w = Say(v, t, kind, f)
    PROVE  /\ w \in CycleType /\ SameCorrs(v, w) /\ w.queue = v.queue /\ w.call = v.call
           /\ w.said = v.said \cup {[t |-> t, kind |-> kind, forced |-> f]}
           /\ w.armed = v.armed /\ w.mark = v.mark /\ w.loaded = v.loaded
           /\ w.enabled = v.enabled /\ w.sup = v.sup /\ w.shown = v.shown
  <1> DEFINE said == v.said \cup {[t |-> t, kind |-> kind, forced |-> f]}
  <1>1. said \in SUBSET Message
    BY DEF CycleType, Message
  <1>2. w = [v EXCEPT !.said = said]
    BY DEF Say
  <1> HIDE DEF said
  <1>3. /\ w \in CycleType /\ w.queue = v.queue /\ w.call = v.call /\ w.said = said
        /\ w.armed = v.armed /\ w.mark = v.mark /\ w.loaded = v.loaded
        /\ w.enabled = v.enabled /\ w.sup = v.sup /\ w.shown = v.shown
    BY <1>1, <1>2 DEF CycleType
  <1> QED
    BY <1>3 DEF SameCorrs, said

LEMMA SetEnabledStep ==
    ASSUME TypeOK, NEW on \in BOOLEAN, SetEnabled(on)
    PROVE  StepOK
  <1> DEFINE v == [Engine EXCEPT !.enabled = on]
             w == DropAll(v)
             told(t) == [t |-> t, kind |-> "cancelled", forced |-> v.mark[t]]
             said == {told(t) : t \in {u \in Targets : v.armed[u]}}
  <1>1. /\ WorldOK' /\ vc.loaded
        /\ on => vc' \in Sweep(Idle(v))
        /\ ~on => vc' = Idle(w)
    BY WorldKept DEF SetEnabled
  <1>2. Bare(v)
    BY BareEngine DEF Bare, CycleType
  <1>3. v.mark \in [Targets -> BOOLEAN] /\ v.said = {}
    BY <1>2 DEF Bare, CycleType
  <1>4. CASE on
    BY <1>1, <1>2, <1>4, SweepStep
  <1>5. CASE ~on
    <2>1. w = [v EXCEPT !.armed = [t \in Targets |-> FALSE], !.mark = [t \in Targets |-> FALSE],
                        !.attempts = [t \in Targets |-> 0], !.said = @ \cup said]
      BY DEF DropAll
    <2>2. \A t \in Targets : /\ told(t) \in Message /\ told(t).t = t
                             /\ told(t).kind = "cancelled"
      BY <1>3 DEF Message, Verdicts
    <2>3. \A m \in said : m.kind = "cancelled" /\ m.kind \in Verdicts
      BY <2>2 DEF Verdicts
    <2>4. \A t \in Targets : IF vc.armed[t] THEN VerdictsOf(t, said) = {told(t)}
                             ELSE VerdictsOf(t, said) = {}
      BY <1>2, <2>2, <2>3 DEF VerdictsOf, Bare
    <2>5. said \in SUBSET Message
      BY <2>2
    <2> HIDE DEF v, said, told
    <2>6. /\ w \in CycleType /\ w.said = said /\ w.queue = v.queue /\ w.call = v.call
          /\ w.armed = [t \in Targets |-> FALSE]
      <3>1. {} \cup said = said
        OBVIOUS
      <3>2. w = [v EXCEPT !.armed = [t \in Targets |-> FALSE],
                          !.mark = [t \in Targets |-> FALSE],
                          !.attempts = [t \in Targets |-> 0], !.said = said]
        BY <1>3, <2>1, <3>1
      <3>3. [t \in Targets |-> 0] \in [Targets -> 0..MaxAttempts]
        BY CycleAssumption
      <3> HIDE DEF w
      <3> QED
        BY <1>2, <2>5, <3>2, <3>3 DEF Bare, CycleType
    <2> HIDE DEF w
    <2>7. vc' \in CycleType /\ Books(w, vc') /\ Lit(vc')
      BY <1>1, <1>5, <2>6, IdleEffect
    <2>8. /\ vc'.said = said /\ vc'.armed = [t \in Targets |-> FALSE] /\ SameCorrs(vc, vc')
      BY <1>2, <2>6, <2>7 DEF Bare, Books, SameCorrs
    <2>9. TypeOK'
      BY <1>1, <2>7 DEF TypeOK, WorldOK
    <2>10. VerifiedIsPermitted'
      BY <2>3, <2>8 DEF VerifiedIsPermitted
    <2>11. LoadedLit'
      BY <2>7 DEF LoadedLit, Lit, Live
    <2>12. ASSUME NEW u \in Targets
           PROVE  Effect(u) /\ AutoUnforced(u)
      <3>1. CASE vc.armed[u]
        <4>1. Count(vc, u) > 0 /\ Count(vc', u) = Count(vc, u) - 1
          BY <2>8, <3>1, ArmedCount
        <4>2. WithOne(u)
          BY <2>4, <2>8, <3>1 DEF WithOne
        <4> QED
          BY <2>8, <4>1, <4>2 DEF Effect, AutoUnforced
      <3>2. CASE ~vc.armed[u]
        <4>1. Count(vc', u) = Count(vc, u) /\ Count(vc, u) \in Nat
          BY <2>8, <3>2, ArmedCount, CountIsNat
        <4>2. Silently(u)
          BY <2>4, <2>8, <3>2 DEF Silently
        <4> QED
          BY <2>8, <4>1, <4>2 DEF Effect, AutoUnforced
      <3> QED
        BY <3>1, <3>2
    <2> QED
      BY <2>9, <2>10, <2>11, <2>12 DEF StepOK
  <1> QED
    BY <1>4, <1>5

LEMMA UnloadStep ==
    ASSUME TypeOK, Unload
    PROVE  StepOK
  <1> DEFINE u == Replace(Engine, Targets)
             v == CancelPending(u, Targets)
  <1>1. /\ WorldOK'
        /\ vc' = [v EXCEPT !.loaded   = FALSE,
                           !.armed    = [t \in Targets |-> FALSE],
                           !.attempts = [t \in Targets |-> 0],
                           !.mark     = [t \in Targets |-> FALSE],
                           !.streak   = [t \in Targets |-> 0]]
    BY WorldKept DEF Unload
  <1>2. u \in CycleType /\ Books(Engine, u)
    BY BareEngine, ReplaceEffect DEF Bare
  <1> HIDE DEF u
  <1>3. v \in CycleType /\ Books(u, v)
    BY <1>2, CancelPendingEffect
  <1> HIDE DEF v
  <1>4. /\ [t \in Targets |-> 0] \in [Targets -> 0..MaxAttempts]
        /\ [t \in Targets |-> 0] \in [Targets -> 0..MaxStreak]
    BY CycleAssumption
  <1>5. /\ vc' \in CycleType /\ vc'.loaded = FALSE /\ vc'.armed = [t \in Targets |-> FALSE]
        /\ vc'.said = v.said /\ vc'.queue = v.queue /\ vc'.call = v.call
    BY <1>1, <1>3, <1>4 DEF CycleType
  <1>6. vc'.said = {} /\ SameCorrs(vc, vc')
    BY <1>2, <1>3, <1>5, BareEngine DEF Bare, Books, SameCorrs
  <1>7. ASSUME NEW t \in Targets
        PROVE  /\ Count(vc', t) <= Count(vc, t)
               /\ Count(vc', t) < Count(vc, t) => Excused(t)
               /\ vc'.armed[t] => vc.armed[t] \/ vc.call \notin AutoTask
    <2>1. ~vc'.armed[t]
      BY <1>5
    <2>2. Count(vc, t) \in Nat /\ Count(vc', t) \in Nat
      BY CountIsNat
    <2>3. Count(vc', t) = Count(vc, t) \/ Count(vc', t) = Count(vc, t) - 1
      BY <1>6, <2>1, ArmedCount
    <2> QED
      BY <1>5, <2>1, <2>2, <2>3 DEF Excused
  <1> QED
    BY <1>1, <1>5, <1>6, <1>7, SilentStep

LEMMA GrantedStep ==
    ASSUME TypeOK, NEW t \in Targets, Granted(t)
    PROVE  StepOK
  <1>1. vc.call = NoTask /\ WorldOK'
    BY WorldKept DEF Granted
  <1>2. PICK k \in vc.queue : vc' \in Enter([Engine EXCEPT !.queue = @ \ {k}], k)
    BY DEF Granted
  <1> DEFINE queue == vc.queue \ {k}
             v     == [Engine EXCEPT !.queue = queue]
  <1>3. vc' \in Enter(v, k)
    BY <1>2, BareEngine DEF Bare
  <1>4. queue \in SUBSET Task /\ k \in Task
    BY <1>2 DEF TypeOK, CycleType
  <1> HIDE DEF queue
  <1>5. /\ v \in CycleType /\ v.queue = queue /\ v.said = {} /\ v.armed = vc.armed
        /\ v.call = NoTask /\ v.loaded = vc.loaded /\ v.mark = Engine.mark
        /\ v.enabled = Engine.enabled
    BY <1>1, <1>4, BareEngine DEF Bare, CycleType
  <1> HIDE DEF v
  <1>6. vc' \in CycleType /\ vc'.shown = FALSE
    BY <1>3, <1>4, <1>5, EnterEffect
  <1>7. CASE k \notin CorrTask
    <2>1. Books(v, vc')
      BY <1>3, <1>4, <1>5, <1>7, EnterEffect
    <2>2. Books(Engine, v)
      BY <1>1, <1>5, <1>7, BareEngine DEF Books, Bare, queue
    <2> QED
      BY <1>1, <1>6, <2>1, <2>2, BareEngine, BooksTransitive, BareStep DEF Lit
  <1>8. CASE k \in CorrTask
    <2>1. vc' = [v EXCEPT !.call = k, !.shown = FALSE]
      BY <1>3, <1>4, <1>5, <1>8, EnterEffect, Kinds
    <2>2. /\ vc'.call = k /\ vc'.queue = vc.queue \ {k} /\ vc'.armed = vc.armed
          /\ vc'.said = {} /\ vc'.loaded = vc.loaded
      BY <1>5, <2>1 DEF CycleType, queue
    <2>3. ASSUME NEW u \in Targets
          PROVE  Count(vc', u) = Count(vc, u) /\ Count(vc, u) \in Nat
      BY <1>1, <1>2, <1>8, <2>2, MovedCount, CountIsNat
    <2> QED
      BY <1>1, <1>6, <2>2, <2>3, SilentStep DEF Lit
  <1> QED
    BY <1>7, <1>8

-----------------------------------------------------------------------------
(* The deadline.                                                           *)

\* A verdict is announced and the status derived afresh.
LEMMA IdleSayEffect ==
    ASSUME NEW v \in CycleType, NEW t \in Targets, NEW kind \in Verdicts,
           NEW f \in BOOLEAN, NEW w, w = Idle(Say(v, t, kind, f))
    PROVE  /\ w \in CycleType /\ Lit(w) /\ SameCorrs(v, w)
           /\ w.said = v.said \cup {[t |-> t, kind |-> kind, forced |-> f]}
           /\ w.armed = v.armed /\ w.mark = v.mark /\ w.loaded = v.loaded
           /\ w.enabled = v.enabled /\ w.sup = v.sup
           /\ (w.call = NoTask <=> v.call = NoTask)
  <1> DEFINE s == Say(v, t, kind, f)
  <1>1. /\ s \in CycleType /\ SameCorrs(v, s) /\ s.call = v.call
        /\ s.said = v.said \cup {[t |-> t, kind |-> kind, forced |-> f]}
        /\ s.armed = v.armed /\ s.mark = v.mark /\ s.loaded = v.loaded
        /\ s.enabled = v.enabled /\ s.sup = v.sup
    BY SayEffect
  <1> HIDE DEF s
  <1>2. w \in CycleType /\ Books(s, w) /\ Quiet(s, w) /\ Lit(w)
    BY <1>1, IdleEffect DEF s
  <1> QED
    BY <1>1, <1>2 DEF Books, Quiet, SameCorrs

\* The books of t that a handler clears.
LEMMA ClearEffect ==
    ASSUME NEW v \in CycleType, NEW t \in Targets
    PROVE  /\ [v EXCEPT !.armed[t] = FALSE] \in CycleType
           /\ [v EXCEPT !.attempts[t] = 0] \in CycleType
           /\ [v EXCEPT !.mark[t] = FALSE] \in CycleType
           /\ [v EXCEPT !.streak[t] = 0] \in CycleType
           /\ CancelVerify(v, t) \in CycleType
  <1>1. 0 \in 0..MaxAttempts /\ 0 \in 0..MaxStreak
    BY CycleAssumption
  <1> QED
    BY <1>1 DEF CycleType, CancelVerify

\* The engine after its books were written, field by field.
Written(v, a, n, m, s) ==
    [v EXCEPT !.armed = a, !.attempts = n, !.mark = m, !.streak = s]

LEMMA WrittenEffect ==
    ASSUME NEW v \in CycleType, NEW a \in [Targets -> BOOLEAN],
           NEW n \in [Targets -> 0..MaxAttempts], NEW m \in [Targets -> BOOLEAN],
           NEW s \in [Targets -> 0..MaxStreak], NEW w, w = Written(v, a, n, m, s)
    PROVE  /\ w \in CycleType
           /\ w.armed = a /\ w.attempts = n /\ w.mark = m /\ w.streak = s
           /\ w.queue = v.queue /\ w.call = v.call /\ w.said = v.said /\ w.shown = v.shown
           /\ w.loaded = v.loaded /\ w.enabled = v.enabled /\ w.sup = v.sup
  <1>1. w \in CycleType
    BY DEF CycleType, Written
  <1> QED
    BY <1>1 DEF CycleType, Written

\* The fields that a handler of t writes.
LEMMA BooksTyped ==
    ASSUME NEW v \in CycleType, NEW t \in Targets
    PROVE  /\ v.armed \in [Targets -> BOOLEAN] /\ v.mark \in [Targets -> BOOLEAN]
           /\ v.attempts \in [Targets -> 0..MaxAttempts]
           /\ v.streak \in [Targets -> 0..MaxStreak]
           /\ [v.armed EXCEPT ![t] = FALSE] \in [Targets -> BOOLEAN]
           /\ [v.mark EXCEPT ![t] = FALSE] \in [Targets -> BOOLEAN]
           /\ [v.attempts EXCEPT ![t] = 0] \in [Targets -> 0..MaxAttempts]
           /\ [v.streak EXCEPT ![t] = 0] \in [Targets -> 0..MaxStreak]
  <1>1. /\ v.armed \in [Targets -> BOOLEAN] /\ v.mark \in [Targets -> BOOLEAN]
        /\ v.attempts \in [Targets -> 0..MaxAttempts]
        /\ v.streak \in [Targets -> 0..MaxStreak]
    BY DEF CycleType
  <1>2. 0 \in 0..MaxAttempts /\ 0 \in 0..MaxStreak
    BY CycleAssumption
  <1> QED
    BY <1>1, <1>2

\* The attempts and the mark of t are cleared.
Lapsed(v, t, s) ==
    Written(v, v.armed, [v.attempts EXCEPT ![t] = 0], [v.mark EXCEPT ![t] = FALSE], s)

LEMMA LapsedEffect ==
    ASSUME NEW v \in CycleType, NEW t \in Targets, NEW s \in [Targets -> 0..MaxStreak],
           NEW w, w = Lapsed(v, t, s)
    PROVE  /\ w \in CycleType /\ w.armed = v.armed
           /\ w.queue = v.queue /\ w.call = v.call /\ w.said = v.said /\ w.shown = v.shown
           /\ w.loaded = v.loaded /\ w.enabled = v.enabled /\ w.sup = v.sup
  <1> DEFINE a == v.armed
             n == [v.attempts EXCEPT ![t] = 0]
             m == [v.mark EXCEPT ![t] = FALSE]
  <1>1. /\ a \in [Targets -> BOOLEAN] /\ n \in [Targets -> 0..MaxAttempts]
        /\ m \in [Targets -> BOOLEAN] /\ a = v.armed
    BY BooksTyped
  <1>2. w = Written(v, a, n, m, s)
    BY DEF Lapsed
  <1> HIDE DEF a, n, m
  <1> QED
    BY <1>1, <1>2, WrittenEffect

LEMMA ExhaustEffect ==
    ASSUME NEW v \in CycleType, NEW t \in Targets, NEW w, w = Exhaust(v, t)
    PROVE  /\ w \in CycleType /\ Lit(w) /\ SameCorrs(v, w)
           /\ w.armed = v.armed /\ w.loaded = v.loaded
           /\ v.streak[t] = 0
                 => w.said = v.said \cup {[t |-> t, kind |-> "unreachable", forced |-> v.mark[t]]}
           /\ v.streak[t] # 0 => w.said = v.said
  <1> DEFINE count == IF v.streak[t] < MaxStreak THEN v.streak[t] + 1 ELSE MaxStreak
             spent == [v EXCEPT !.attempts[t] = 0, !.mark[t] = FALSE, !.streak[t] = count]
             told  == IF v.streak[t] = 0 THEN Say(spent, t, "unreachable", v.mark[t]) ELSE spent
             then  == IF count = MaxStreak THEN LoopProtection(told) ELSE Countdown(told, {t})
  <1>1. w = Idle(then)
    BY DEF Exhaust
  <1>2. count \in 0..MaxStreak
    BY CycleAssumption DEF CycleType
  <1> HIDE DEF count
  <1>3. /\ spent \in CycleType /\ spent.armed = v.armed /\ spent.queue = v.queue
        /\ spent.call = v.call /\ spent.said = v.said /\ spent.loaded = v.loaded
    <2>1. [v.streak EXCEPT ![t] = count] \in [Targets -> 0..MaxStreak]
      BY <1>2, BooksTyped
    <2> DEFINE s == [v.streak EXCEPT ![t] = count]
    <2>2. spent = Lapsed(v, t, s)
      BY DEF Lapsed, Written, CycleType
    <2> HIDE DEF spent, s
    <2> QED
      BY <2>1, <2>2, LapsedEffect DEF s
  <1>4. v.mark[t] \in BOOLEAN /\ "unreachable" \in Verdicts \cup {"enforced"}
    BY DEF CycleType, Verdicts
  <1> HIDE DEF spent
  <1>5. /\ told \in CycleType /\ told.armed = v.armed /\ told.queue = v.queue
        /\ told.call = v.call /\ told.loaded = v.loaded
        /\ v.streak[t] = 0
              => told.said = v.said \cup {[t |-> t, kind |-> "unreachable", forced |-> v.mark[t]]}
        /\ v.streak[t] # 0 => told.said = v.said
    <2>1. CASE v.streak[t] = 0
      <3>1. told = Say(spent, t, "unreachable", v.mark[t])
        BY <2>1
      <3> HIDE DEF told
      <3> QED
        BY <1>3, <1>4, <2>1, <3>1, SayEffect
    <2>2. CASE v.streak[t] # 0
      BY <1>3, <2>2
    <2> QED
      BY <2>1, <2>2
  <1> HIDE DEF told
  <1>6. then \in CycleType /\ Books(told, then)
    BY <1>5, LoopProtectionEffect, CountdownEffect
  <1> HIDE DEF then
  <1>7. w \in CycleType /\ Books(then, w) /\ Lit(w)
    BY <1>1, <1>6, IdleEffect
  <1>8. Books(told, w)
    BY <1>6, <1>7, BooksTransitive
  <1> QED
    BY <1>5, <1>7, <1>8 DEF Books, SameCorrs

LEMMA DeadlineStep ==
    ASSUME TypeOK, NEW t \in Targets, Deadline(t)
    PROVE  StepOK
  <1> DEFINE f      == vc.mark[t]
             k      == [kind |-> "corr", t |-> t, forced |-> f]
             v      == [Engine EXCEPT !.armed[t] = FALSE]
             lapsed == [v EXCEPT !.attempts[t] = 0, !.mark[t] = FALSE]
             clear  == [v EXCEPT !.mark[t] = FALSE]
             next   == [v EXCEPT !.attempts[t] = @ + 1]
  <1>1. /\ vc.armed[t] /\ vc.loaded /\ k \notin vc.queue /\ WorldOK'
        /\ dev' = dev /\ flag' = flag /\ master' = master
    BY WorldKept DEF Deadline
  <1>2. \/ Dropped(vc, t) /\ vc' = Idle(Say(lapsed, t, "cancelled", f))
        \/ ~Dropped(vc, t) /\ vc' = Confirm(clear, t, f)
        \/ ~OutOfAttempts(v, t) /\ vc' \in Start(next, {k})
        \/ vc' = Exhaust(v, t)
    BY DEF Deadline
  <1>3. f \in BOOLEAN /\ vc.armed \in [Targets -> BOOLEAN]
    BY DEF TypeOK, CycleType
  <1>4. k = Corr(t, f) /\ k \in CorrTask /\ k.t = t
    BY <1>3, CorrIsTask DEF Corr
  <1> HIDE DEF f, k
  <1>5. /\ v \in CycleType /\ v.said = {} /\ v.queue = vc.queue /\ v.call = vc.call
        /\ v.armed = [vc.armed EXCEPT ![t] = FALSE] /\ v.loaded = vc.loaded
        /\ v.enabled = vc.enabled /\ v.sup = vc.sup /\ v.streak = vc.streak
        /\ v.mark = vc.mark /\ v.attempts = vc.attempts
    BY BareEngine, ClearEffect DEF Bare, CycleType
  <1> HIDE DEF v
  <1>6. CASE Dropped(vc, t) /\ vc' = Idle(Say(lapsed, t, "cancelled", f))
    <2>1. /\ lapsed \in CycleType /\ lapsed.said = {} /\ lapsed.queue = vc.queue
          /\ lapsed.call = vc.call /\ lapsed.armed = v.armed /\ lapsed.loaded = vc.loaded
      <3>1. lapsed = Lapsed(v, t, v.streak)
        BY <1>5 DEF Lapsed, Written, CycleType
      <3>2. v.streak \in [Targets -> 0..MaxStreak]
        BY <1>5, BooksTyped
      <3> HIDE DEF lapsed
      <3> QED
        BY <1>5, <3>1, <3>2, LapsedEffect
    <2> HIDE DEF lapsed
    <2>2. "cancelled" \in Verdicts /\ "cancelled" # "verified"
      BY DEF Verdicts
    <2> DEFINE m == [t |-> t, kind |-> "cancelled", forced |-> f]
    <2>3. /\ vc' \in CycleType /\ Lit(vc') /\ SameCorrs(lapsed, vc')
          /\ vc'.said = {} \cup {m} /\ vc'.armed = v.armed /\ vc'.loaded = vc.loaded
      BY <1>3, <1>6, <2>1, <2>2, IdleSayEffect
    <2>4. m \in Message /\ m.t = t /\ m.kind = "cancelled"
      BY <1>3, <2>2, MessageOf
    <2> HIDE DEF m
    <2>5. SameCorrs(vc, vc') /\ vc'.said = {m}
      BY <2>1, <2>3 DEF SameCorrs
    <2> QED
      BY <1>1, <1>5, <2>2, <2>3, <2>4, <2>5, VerdictStep
  <1>7. CASE ~Dropped(vc, t) /\ vc' = Confirm(clear, t, f)
    <2> DEFINE given == [clear EXCEPT !.attempts[t] = 0]
    <2>1. /\ given \in CycleType /\ given.said = {} /\ given.queue = vc.queue
          /\ given.call = vc.call /\ given.armed = v.armed /\ given.loaded = vc.loaded
          /\ given.enabled = vc.enabled /\ given.sup = vc.sup
      <3>1. given = Lapsed(v, t, v.streak)
        BY <1>5 DEF Lapsed, Written, CycleType
      <3>2. v.streak \in [Targets -> 0..MaxStreak]
        BY <1>5, BooksTyped
      <3> HIDE DEF given
      <3> QED
        BY <1>5, <3>1, <3>2, LapsedEffect
    <2>2. vc' = Idle(Say(given, t, "verified", f))
      BY <1>7 DEF Confirm
    <2> HIDE DEF given
    <2>3. "verified" \in Verdicts
      BY DEF Verdicts
    <2> DEFINE m == [t |-> t, kind |-> "verified", forced |-> f]
    <2>4. /\ vc' \in CycleType /\ Lit(vc') /\ SameCorrs(given, vc')
          /\ vc'.said = {} \cup {m} /\ vc'.armed = v.armed /\ vc'.loaded = vc.loaded
          /\ vc'.enabled = vc.enabled /\ vc'.sup = vc.sup
      BY <1>3, <2>1, <2>2, <2>3, IdleSayEffect
    <2>5. m \in Message /\ m.t = t /\ m.kind = "verified" /\ m.forced = f
      BY <1>3, <2>3, MessageOf
    <2> HIDE DEF m
    <2>6. SameCorrs(vc, vc') /\ vc'.said = {m}
      BY <2>1, <2>4 DEF SameCorrs
    <2>7. vc.loaded /\ vc.enabled /\ master' /\ (f \/ (flag' /\ ~vc.sup))
      BY <1>7 DEF Dropped, Inactive, f
    <2> QED
      BY <1>1, <1>5, <2>3, <2>4, <2>5, <2>6, <2>7, VerdictStep
  <1>8. CASE vc' = Exhaust(v, t)
    <2>1. /\ vc' \in CycleType /\ Lit(vc') /\ SameCorrs(v, vc')
          /\ vc'.armed = v.armed /\ vc'.loaded = v.loaded
          /\ v.streak[t] = 0
                => vc'.said = v.said \cup {[t |-> t, kind |-> "unreachable", forced |-> f]}
          /\ v.streak[t] # 0 => vc'.said = v.said
      BY <1>5, <1>8, ExhaustEffect DEF f
    <2>2. SameCorrs(vc, vc')
      BY <1>5, <2>1 DEF SameCorrs
    <2>3. CASE vc.streak[t] = 0
      <3>1. "unreachable" \in Verdicts /\ "unreachable" # "verified"
        BY DEF Verdicts
      <3> DEFINE m == [t |-> t, kind |-> "unreachable", forced |-> f]
      <3>2. m \in Message /\ m.t = t /\ m.kind = "unreachable"
        BY <1>3, <3>1, MessageOf
      <3>3. vc'.said = {m}
        BY <1>5, <2>1, <2>3
      <3> HIDE DEF m
      <3> QED
        BY <1>1, <1>5, <2>1, <2>2, <3>1, <3>2, <3>3, VerdictStep
    <2>4. CASE vc.streak[t] # 0
      <3>1. vc.streak[t] > 0 /\ vc'.said = {}
        BY <1>5, <2>1, <2>4, CycleAssumption DEF TypeOK, CycleType
      <3>2. ASSUME NEW u \in Targets
            PROVE  /\ Count(vc', u) <= Count(vc, u)
                   /\ Count(vc', u) < Count(vc, u) => Excused(u)
                   /\ vc'.armed[u] => vc.armed[u] \/ vc.call \notin AutoTask
        <4>1. Count(vc, u) \in Nat /\ Count(vc', u) \in Nat
          BY CountIsNat
        <4>2. CASE u = t
          <5>1. ~vc'.armed[u] /\ vc.armed[u]
            BY <1>1, <1>3, <1>5, <2>1, <4>2
          <5>2. Count(vc', u) = Count(vc, u) - 1
            BY <2>2, <5>1, ArmedCount
          <5> QED
            BY <3>1, <4>1, <4>2, <5>1, <5>2 DEF Excused
        <4>3. CASE u # t
          <5>1. vc'.armed[u] <=> vc.armed[u]
            BY <1>3, <1>5, <2>1, <4>3
          <5>2. Count(vc', u) = Count(vc, u)
            BY ONLY <2>2, <5>1, u \in Targets, ArmedCount
          <5> QED
            BY <4>1, <5>1, <5>2
        <4> QED
          BY <4>2, <4>3
      <3> QED
        BY <1>1, <2>1, <3>1, <3>2, SilentStep
    <2> QED
      BY <2>3, <2>4
  <1>9. CASE ~OutOfAttempts(v, t) /\ vc' \in Start(next, {k})
    <2>1. v.attempts[t] + 1 \in 0..MaxAttempts
      BY <1>5, <1>9, CycleAssumption DEF OutOfAttempts, CycleType
    <2>2. /\ next \in CycleType /\ next.said = {} /\ next.queue = vc.queue
          /\ next.call = vc.call /\ next.armed = v.armed /\ next.loaded = vc.loaded
      BY <1>5, <2>1 DEF CycleType
    <2> HIDE DEF next
    <2>3. ASSUME NEW u \in Targets
          PROVE  /\ Count(vc, u) \in Nat
                 /\ (next.armed[u] => vc.armed[u])
                 /\ Count(vc, u) = IF k.t = u THEN Count(next, u) + 1 ELSE Count(next, u)
      <3>1. SameCorrs(vc, next)
        BY <2>2 DEF SameCorrs
      <3>2. CASE u = t
        <4>1. ~next.armed[u] /\ vc.armed[u]
          BY <1>1, <1>3, <1>5, <2>2, <3>2
        <4>2. Count(next, u) = Count(vc, u) - 1 /\ Count(vc, u) \in Nat
          BY <3>1, <4>1, ArmedCount, CountIsNat
        <4>3. Count(vc, u) = Count(next, u) + 1
          BY <4>2
        <4> QED
          BY <1>4, <3>2, <4>1, <4>2, <4>3
      <3>3. CASE u # t
        <4>1. next.armed[u] <=> vc.armed[u]
          BY <1>3, <1>5, <2>2, <3>3
        <4>2. Count(next, u) = Count(vc, u)
          BY ONLY <3>1, <4>1, u \in Targets, ArmedCount
        <4>3. Count(vc, u) \in Nat /\ k.t # u
          BY <1>4, <3>3, CountIsNat
        <4> QED
          BY <4>1, <4>2, <4>3
      <3> QED
        BY <3>2, <3>3
    <2>4. CASE next.call # NoTask \/ next.queue # {}
      <3>1. vc' = [next EXCEPT !.queue = @ \cup {k}]
        BY <1>9, <2>4 DEF Start
      <3>2. /\ vc' \in CycleType /\ vc'.queue = next.queue \cup {k} /\ vc'.call = next.call
            /\ vc'.armed = next.armed /\ vc'.said = {} /\ vc'.loaded = vc.loaded
        BY <1>4, <2>2, <3>1, Kinds DEF CycleType
      <3>3. Lit(vc')
        BY <1>4, <3>2 DEF Lit, Live
      <3>4. ASSUME NEW u \in Targets
            PROVE  Count(vc', u) = Count(vc, u)
        <4>1. Count(vc', u) = IF k.t = u THEN Count(next, u) + 1 ELSE Count(next, u)
          BY <1>1, <1>4, <2>2, <3>2, QueuedCount
        <4> QED
          BY <2>3, <4>1
      <3> QED
        BY <1>1, <2>3, <3>2, <3>3, <3>4, SilentStep
    <2>5. CASE next.call = NoTask /\ next.queue = {}
      <3> DEFINE after(x, c) == IF x.call = c THEN [x EXCEPT !.queue = {k} \ {c}] ELSE x
      <3>1. \E c \in {k} : \E x \in Enter(next, c) : vc' = after(x, c)
        BY <1>9, <2>5 DEF Start
      <3>2. PICK x \in Enter(next, k) : vc' = after(x, k)
        BY <3>1
      <3>3. x = [next EXCEPT !.call = k, !.shown = FALSE]
        <4>1. k \in Task /\ k \notin AutoTask
          BY <1>4, Kinds
        <4> QED
          BY <2>2, <2>5, <3>2, <4>1, EnterEffect
      <3>4. /\ x \in CycleType /\ x.call = k /\ x.armed = next.armed /\ x.said = {}
            /\ x.loaded = vc.loaded /\ x.shown = FALSE
        BY <1>4, <2>2, <3>3, Kinds DEF CycleType
      <3>5. vc' = [x EXCEPT !.queue = {}]
        BY <3>2, <3>4
      <3>6. /\ vc' \in CycleType /\ vc'.queue = next.queue /\ vc'.call = k
            /\ vc'.armed = next.armed /\ vc'.said = {} /\ vc'.loaded = vc.loaded
            /\ vc'.shown = FALSE
        BY <2>5, <3>4, <3>5 DEF CycleType
      <3>7. ASSUME NEW u \in Targets
            PROVE  Count(vc', u) = Count(vc, u)
        <4>1. Count(vc', u) = IF k.t = u THEN Count(next, u) + 1 ELSE Count(next, u)
          BY <1>4, <2>5, <3>6, TakenCount
        <4> QED
          BY <2>3, <4>1
      <3> QED
        BY <1>1, <2>3, <3>6, <3>7, SilentStep DEF Lit
    <2> QED
      BY <2>4, <2>5
  <1> QED
    BY <1>2, <1>6, <1>7, <1>8, <1>9

-----------------------------------------------------------------------------
(* The event of a target.                                                  *)

\* What _handle_state_event clears for t: the deadline too, when the cycle is over.
EventClears(t, over) ==
    Written(Engine, IF over THEN [Engine.armed EXCEPT ![t] = FALSE] ELSE Engine.armed,
                    [Engine.attempts EXCEPT ![t] = 0],
                    IF over THEN [Engine.mark EXCEPT ![t] = FALSE] ELSE Engine.mark,
                    [Engine.streak EXCEPT ![t] = 0])

LEMMA EventClearsEffect ==
    ASSUME TypeOK, NEW t \in Targets, NEW over \in BOOLEAN, NEW w, w = EventClears(t, over)
    PROVE  /\ w \in CycleType /\ w.said = {} /\ w.queue = vc.queue /\ w.call = vc.call
           /\ w.loaded = vc.loaded /\ w.enabled = vc.enabled /\ w.sup = vc.sup
           /\ w.shown = vc.shown
           /\ w.armed = IF over THEN [vc.armed EXCEPT ![t] = FALSE] ELSE vc.armed
           /\ w.mark = IF over THEN [vc.mark EXCEPT ![t] = FALSE] ELSE vc.mark
  <1> DEFINE v == Engine
             a == IF over THEN [v.armed EXCEPT ![t] = FALSE] ELSE v.armed
             n == [v.attempts EXCEPT ![t] = 0]
             m == IF over THEN [v.mark EXCEPT ![t] = FALSE] ELSE v.mark
             s == [v.streak EXCEPT ![t] = 0]
  <1>1. w = Written(v, a, n, m, s)
    BY DEF EventClears
  <1>2. /\ v \in CycleType /\ v.said = {} /\ v.queue = vc.queue /\ v.call = vc.call
        /\ v.loaded = vc.loaded /\ v.enabled = vc.enabled /\ v.sup = vc.sup
        /\ v.shown = vc.shown /\ v.armed = vc.armed /\ v.mark = vc.mark
    BY BareEngine DEF Bare
  <1> HIDE DEF v
  <1>3. /\ a \in [Targets -> BOOLEAN] /\ n \in [Targets -> 0..MaxAttempts]
        /\ m \in [Targets -> BOOLEAN] /\ s \in [Targets -> 0..MaxStreak]
    BY <1>2, BooksTyped
  <1>4. /\ a = IF over THEN [vc.armed EXCEPT ![t] = FALSE] ELSE vc.armed
        /\ m = IF over THEN [vc.mark EXCEPT ![t] = FALSE] ELSE vc.mark
    BY <1>2
  <1> HIDE DEF a, n, m, s
  <1>5. /\ w \in CycleType /\ w.armed = a /\ w.mark = m
        /\ w.queue = v.queue /\ w.call = v.call /\ w.said = v.said /\ w.shown = v.shown
        /\ w.loaded = v.loaded /\ w.enabled = v.enabled /\ w.sup = v.sup
    BY <1>1, <1>2, <1>3, WrittenEffect
  <1> QED
    BY <1>2, <1>4, <1>5

\* The order in which the fields are written does not matter.
LEMMA WrittenInOrder ==
    ASSUME NEW v \in CycleType, NEW t \in Targets
    PROVE  LET a == [v.armed EXCEPT ![t] = FALSE]
               n == [v.attempts EXCEPT ![t] = 0]
               m == [v.mark EXCEPT ![t] = FALSE]
               s == [v.streak EXCEPT ![t] = 0]
               moved == [v EXCEPT !.streak[t] = 0]
               given == [moved EXCEPT !.attempts[t] = 0]
           IN  /\ given = Written(v, v.armed, n, v.mark, s)
               /\ [[CancelVerify(v, t) EXCEPT !.streak[t] = 0] EXCEPT !.attempts[t] = 0]
                      = Written(v, a, n, m, s)
               /\ CancelVerify(given, t) = Written(v, a, n, m, s)
               /\ [CancelVerify(moved, t) EXCEPT !.attempts[t] = 0] = Written(v, a, n, m, s)
  <1> DEFINE a == [v.armed EXCEPT ![t] = FALSE]
             n == [v.attempts EXCEPT ![t] = 0]
             m == [v.mark EXCEPT ![t] = FALSE]
             s == [v.streak EXCEPT ![t] = 0]
             moved == [v EXCEPT !.streak[t] = 0]
             given == [moved EXCEPT !.attempts[t] = 0]
             over  == CancelVerify(v, t)
  <1>1. moved = [v EXCEPT !.streak = s]
    BY DEF CycleType
  <1>2. given = [moved EXCEPT !.attempts = n]
    BY DEF CycleType
  <1>3. over = [v EXCEPT !.armed = a, !.mark = m]
    BY DEF CancelVerify, CycleType
  <1>4. [over EXCEPT !.streak[t] = 0] = [over EXCEPT !.streak = s]
    BY DEF CancelVerify, CycleType
  <1>5. [[over EXCEPT !.streak[t] = 0] EXCEPT !.attempts[t] = 0]
            = [[over EXCEPT !.streak = s] EXCEPT !.attempts = n]
    BY <1>4 DEF CancelVerify, CycleType
  <1>6. CancelVerify(given, t) = [given EXCEPT !.armed = a, !.mark = m]
    BY DEF CancelVerify, CycleType
  <1>7. [CancelVerify(moved, t) EXCEPT !.attempts[t] = 0]
            = [moved EXCEPT !.armed = a, !.mark = m, !.attempts = n]
    BY DEF CancelVerify, CycleType
  <1> HIDE DEF a, n, m, s, moved, given, over
  <1>8. given = Written(v, v.armed, n, v.mark, s)
    BY <1>1, <1>2 DEF Written, CycleType
  <1>9. [[over EXCEPT !.streak = s] EXCEPT !.attempts = n] = Written(v, a, n, m, s)
    BY <1>3 DEF Written, CycleType
  <1>10. [given EXCEPT !.armed = a, !.mark = m] = Written(v, a, n, m, s)
    BY <1>1, <1>2 DEF Written, CycleType
  <1>11. [moved EXCEPT !.armed = a, !.mark = m, !.attempts = n] = Written(v, a, n, m, s)
    BY <1>1 DEF Written, CycleType
  <1>12. /\ given = Written(v, v.armed, n, v.mark, s)
         /\ [[over EXCEPT !.streak[t] = 0] EXCEPT !.attempts[t] = 0] = Written(v, a, n, m, s)
         /\ CancelVerify(given, t) = Written(v, a, n, m, s)
         /\ [CancelVerify(moved, t) EXCEPT !.attempts[t] = 0] = Written(v, a, n, m, s)
    BY <1>5, <1>6, <1>7, <1>8, <1>9, <1>10, <1>11
  <1> QED
    BY <1>12 DEF a, n, m, s, moved, given, over

\* What OnEvent makes of a cycle that is armed, and of one that is not.
LEMMA OnEventIs ==
    ASSUME TypeOK, vc.loaded, NEW t \in Targets
    PROVE  LET e == OnEvent(Engine, t)
               f == vc.mark[t]
           IN  /\ ~vc.armed[t] => e = EventClears(t, TRUE) \/ e = EventClears(t, FALSE)
               /\ vc.armed[t] /\ dev'[t] = "good" =>
                    \/ e = Idle(Say(EventClears(t, TRUE), t, "cancelled", f))
                    \/ /\ e = Idle(Say(EventClears(t, TRUE), t, "verified", f))
                       /\ vc.enabled /\ master' /\ (f \/ (flag' /\ ~vc.sup))
               /\ vc.armed[t] /\ dev'[t] = "gone" => e = Idle(EventClears(t, TRUE))
               /\ vc.armed[t] /\ dev'[t] \notin {"good", "gone"}
                    => e = Idle(EventClears(t, FALSE))
  <1> DEFINE e       == OnEvent(Engine, t)
             f       == vc.mark[t]
             reached == dev'[t] = "good"
             over    == ~reached /\ (dev'[t] = "gone" \/ ~Engine.armed[t])
             left    == IF over THEN CancelVerify(Engine, t) ELSE Engine
             moved   == [left EXCEPT !.streak[t] = 0]
             given   == [moved EXCEPT !.attempts[t] = 0]
  <1>1. e = IF reached /\ Engine.armed[t] /\ ~Dropped(moved, t)
            THEN Confirm(CancelVerify(moved, t), t, Engine.mark[t])
            ELSE IF ~Engine.armed[t] THEN given
            ELSE Idle(IF reached THEN Drop(given, t) ELSE given)
    BY DEF OnEvent
  <1>2. Engine \in CycleType /\ Engine.armed = vc.armed /\ Engine.mark = vc.mark
        /\ Engine.loaded = vc.loaded /\ Engine.enabled = vc.enabled /\ Engine.sup = vc.sup
    BY BareEngine DEF Bare
  <1>3. given = EventClears(t, over)
    <2>1. CASE over
      <3>1. given = [[CancelVerify(Engine, t) EXCEPT !.streak[t] = 0] EXCEPT !.attempts[t] = 0]
        BY <2>1
      <3>2. EventClears(t, over) = Written(Engine, [Engine.armed EXCEPT ![t] = FALSE],
                                          [Engine.attempts EXCEPT ![t] = 0],
                                          [Engine.mark EXCEPT ![t] = FALSE],
                                          [Engine.streak EXCEPT ![t] = 0])
        BY <2>1 DEF EventClears
      <3> HIDE DEF given, over
      <3> QED
        BY <1>2, <3>1, <3>2, WrittenInOrder
    <2>2. CASE ~over
      <3>1. EventClears(t, over) = Written(Engine, Engine.armed,
                                          [Engine.attempts EXCEPT ![t] = 0], Engine.mark,
                                          [Engine.streak EXCEPT ![t] = 0])
        BY <2>2 DEF EventClears
      <3> QED
        BY <1>2, <2>2, <3>1 DEF Written, CycleType
    <2> QED
      BY <2>1, <2>2
  <1>4. over \in BOOLEAN
    OBVIOUS
  <1>5. CASE ~vc.armed[t]
    <2>1. e = EventClears(t, over)
      BY <1>1, <1>2, <1>3, <1>5
    <2> HIDE DEF e, over
    <2>2. e = EventClears(t, TRUE) \/ e = EventClears(t, FALSE)
      BY <1>4, <2>1
    <2> QED
      BY <1>5, <2>2 DEF e
  <1>6. CASE vc.armed[t] /\ ~reached
    <2>1. e = Idle(EventClears(t, over)) /\ (over <=> dev'[t] = "gone")
      BY <1>1, <1>2, <1>3, <1>6
    <2>2. (dev'[t] = "gone" => over = TRUE) /\ (dev'[t] # "gone" => over = FALSE)
      BY <1>4, <2>1
    <2> HIDE DEF e, over
    <2> QED
      BY <1>6, <2>1, <2>2 DEF e
  <1>7. CASE vc.armed[t] /\ reached
    <2>1. left = Engine /\ moved = [Engine EXCEPT !.streak[t] = 0]
          /\ given = [[Engine EXCEPT !.streak[t] = 0] EXCEPT !.attempts[t] = 0]
      BY <1>7
    <2>2. /\ moved.mark = vc.mark /\ moved.loaded = vc.loaded
          /\ moved.enabled = vc.enabled /\ moved.sup = vc.sup
          /\ given.mark = vc.mark /\ given.loaded = vc.loaded
      BY <1>2, <2>1 DEF CycleType
    <2>3. EventClears(t, TRUE) = Written(Engine, [Engine.armed EXCEPT ![t] = FALSE],
                                        [Engine.attempts EXCEPT ![t] = 0],
                                        [Engine.mark EXCEPT ![t] = FALSE],
                                        [Engine.streak EXCEPT ![t] = 0])
      BY DEF EventClears
    <2> DEFINE plain   == [Engine EXCEPT !.streak[t] = 0]
               cleared == [plain EXCEPT !.attempts[t] = 0]
    <2>8. /\ CancelVerify(cleared, t) = EventClears(t, TRUE)
          /\ [CancelVerify(plain, t) EXCEPT !.attempts[t] = 0] = EventClears(t, TRUE)
      BY <1>2, <2>3, WrittenInOrder
    <2>9. moved = plain /\ given = cleared
      BY <2>1
    <2> HIDE DEF e, moved, given, plain, cleared
    <2>4. CancelVerify(given, t) = EventClears(t, TRUE)
      BY <2>8, <2>9
    <2>5. [CancelVerify(moved, t) EXCEPT !.attempts[t] = 0] = EventClears(t, TRUE)
      BY <2>8, <2>9
    <2>6. CASE Dropped(moved, t)
      <3>1. e = Idle(Drop(given, t))
        BY <1>1, <1>2, <1>7, <2>6
      <3>2. Drop(given, t) = Say(EventClears(t, TRUE), t, "cancelled", f)
        BY <2>2, <2>4 DEF Drop
      <3> QED
        BY <1>7, <3>1, <3>2 DEF e
    <2>7. CASE ~Dropped(moved, t)
      <3>1. e = Confirm(CancelVerify(moved, t), t, f)
        BY <1>1, <1>2, <1>7, <2>7
      <3>2. e = Idle(Say(EventClears(t, TRUE), t, "verified", f))
        BY <2>5, <3>1 DEF Confirm
      <3>3. vc.enabled /\ master' /\ (f \/ (flag' /\ ~vc.sup))
        BY <2>2, <2>7 DEF Dropped, Inactive
      <3> QED
        BY <1>7, <3>2, <3>3 DEF e
    <2> QED
      BY <2>6, <2>7
  <1> QED
    BY <1>5, <1>6, <1>7

\* The event resolves the cycle with a verdict; the evaluation that follows sees a
\* compliant target.
LEMMA EventVerdict ==
    ASSUME TypeOK, WorldOK', NEW t \in Targets, NEW kind \in Verdicts, vc.loaded, vc.armed[t],
           dev'[t] # "bad",
           NEW e, e = Idle(Say(EventClears(t, TRUE), t, kind, vc.mark[t])),
           vc' \in Evaluate(e, {t}),
           kind = "verified" => vc.enabled /\ master' /\ (vc.mark[t] \/ (flag' /\ ~vc.sup))
    PROVE  StepOK
  <1> DEFINE f == vc.mark[t]
             x == EventClears(t, TRUE)
             m == [t |-> t, kind |-> kind, forced |-> f]
  <1>1. /\ x \in CycleType /\ x.said = {} /\ x.queue = vc.queue /\ x.call = vc.call
        /\ x.loaded = vc.loaded /\ x.enabled = vc.enabled /\ x.sup = vc.sup
        /\ x.armed = [vc.armed EXCEPT ![t] = FALSE]
    <2>1. x = EventClears(t, TRUE) /\ TRUE \in BOOLEAN
      OBVIOUS
    <2> HIDE DEF x
    <2>2. x.armed = IF TRUE THEN [vc.armed EXCEPT ![t] = FALSE] ELSE vc.armed
      BY ONLY TypeOK, t \in Targets, <2>1, EventClearsEffect
    <2>3. /\ x \in CycleType /\ x.said = {} /\ x.queue = vc.queue /\ x.call = vc.call
          /\ x.loaded = vc.loaded /\ x.enabled = vc.enabled /\ x.sup = vc.sup
      BY ONLY TypeOK, t \in Targets, <2>1, EventClearsEffect
    <2> QED
      BY ONLY <2>2, <2>3
  <1>2. f \in BOOLEAN
    BY DEF TypeOK, CycleType
  <1>3. m \in Message /\ m.t = t /\ m.kind = kind /\ m.forced = f
    BY <1>2, MessageOf
  <1>4. e = Idle(Say(x, t, kind, f))
    OBVIOUS
  <1>10. f <=> vc.mark[t]
    OBVIOUS
  <1> HIDE DEF f, x
  <1>5. /\ e \in CycleType /\ Lit(e) /\ SameCorrs(x, e) /\ e.said = x.said \cup {m}
        /\ e.armed = x.armed /\ e.loaded = x.loaded /\ e.enabled = x.enabled
        /\ e.sup = x.sup
    BY ONLY <1>1, <1>2, <1>4, t \in Targets, kind \in Verdicts, IdleSayEffect DEF m
  <1> HIDE DEF m
  <1>6. {t} \in SUBSET Targets
    OBVIOUS
  <1>7. Kept(e, vc', {t})
    BY <1>5, <1>6, EvaluateEffect
  <1>8. /\ vc' \in CycleType /\ Books(e, vc') /\ Lit(vc') /\ vc'.sup = e.sup
    BY <1>5, <1>7 DEF Kept
  <1>9. /\ vc'.said = {m} /\ vc'.armed = [vc.armed EXCEPT ![t] = FALSE]
        /\ vc'.loaded = vc.loaded /\ vc'.enabled = vc.enabled /\ vc'.sup = vc.sup
        /\ SameCorrs(vc, vc')
    BY <1>1, <1>5, <1>8 DEF Books, SameCorrs
  <1> QED
    BY <1>3, <1>8, <1>9, <1>10, VerdictStep

LEMMA DeviceMovesStep ==
    ASSUME TypeOK, NEW t \in Targets, DeviceMoves(t)
    PROVE  StepOK
  <1>1. WorldOK'
    BY DEF TypeOK, DeviceMoves, WorldOK
  <1>2. CASE ~vc.loaded
    <2>1. vc' = Engine
      BY <1>2 DEF DeviceMoves
    <2> QED
      BY <1>1, <2>1, BareEngine, BareStep DEF Bare, Books
  <1>3. CASE vc.loaded
    <2> DEFINE e == OnEvent(Engine, t)
    <2>1. vc' \in Evaluate(e, {t}) /\ {t} \in SUBSET Targets
      BY <1>3 DEF DeviceMoves
    <2>2. /\ ~vc.armed[t] => e = EventClears(t, TRUE) \/ e = EventClears(t, FALSE)
          /\ vc.armed[t] /\ dev'[t] = "good" =>
               \/ e = Idle(Say(EventClears(t, TRUE), t, "cancelled", vc.mark[t]))
               \/ /\ e = Idle(Say(EventClears(t, TRUE), t, "verified", vc.mark[t]))
                  /\ vc.enabled /\ master' /\ (vc.mark[t] \/ (flag' /\ ~vc.sup))
          /\ vc.armed[t] /\ dev'[t] = "gone" => e = Idle(EventClears(t, TRUE))
          /\ vc.armed[t] /\ dev'[t] \notin {"good", "gone"}
               => e = Idle(EventClears(t, FALSE))
      BY <1>3, OnEventIs
    <2> HIDE DEF e
    <2>3. vc.armed \in [Targets -> BOOLEAN]
      BY DEF TypeOK, CycleType
    <2>4. CASE ~vc.armed[t]
      <3>1. e = EventClears(t, TRUE) \/ e = EventClears(t, FALSE)
        BY <2>2, <2>4
      <3>2. vc.armed = [vc.armed EXCEPT ![t] = FALSE]
        BY <2>3, <2>4
      <3>4. /\ e \in CycleType /\ e.said = {} /\ e.queue = vc.queue /\ e.call = vc.call
            /\ e.loaded = vc.loaded /\ e.shown = vc.shown
        <4>1. CASE e = EventClears(t, TRUE)
          BY ONLY TypeOK, t \in Targets, <4>1, EventClearsEffect
        <4>2. CASE e = EventClears(t, FALSE)
          BY ONLY TypeOK, t \in Targets, <4>2, EventClearsEffect
        <4> QED
          BY <3>1, <4>1, <4>2
      <3>5. e.armed = vc.armed \/ e.armed = [vc.armed EXCEPT ![t] = FALSE]
        BY <3>1, EventClearsEffect
      <3>3. Bare(e)
        BY <3>2, <3>4, <3>5 DEF Bare
      <3>6. Kept(e, vc', {t})
        BY <2>1, <3>3, EvaluateEffect DEF Bare
      <3> QED
        BY <1>1, <3>3, <3>6, BareStep DEF Kept
    <2>5. CASE vc.armed[t] /\ dev'[t] = "good"
      <3>1. "cancelled" \in Verdicts /\ "verified" \in Verdicts /\ "cancelled" # "verified"
        BY DEF Verdicts
      <3> QED
        BY <1>1, <1>3, <2>1, <2>2, <2>5, <3>1, EventVerdict
    <2>6. CASE vc.armed[t] /\ dev'[t] = "gone"
      <3> DEFINE x == EventClears(t, TRUE)
      <3>1. /\ x \in CycleType /\ x.said = {} /\ x.queue = vc.queue /\ x.call = vc.call
            /\ x.loaded = vc.loaded /\ x.armed = [vc.armed EXCEPT ![t] = FALSE]
        BY EventClearsEffect
      <3>2. e = Idle(x)
        BY <2>2, <2>6
      <3> HIDE DEF x
      <3>3. e \in CycleType /\ Books(x, e) /\ Lit(e)
        BY <3>1, <3>2, IdleEffect
      <3>4. Kept(e, vc', {t})
        BY <2>1, <3>3, EvaluateEffect
      <3>5. vc' \in CycleType /\ Books(x, vc') /\ Lit(vc')
        BY <3>3, <3>4, BooksTransitive DEF Kept
      <3>6. /\ vc'.said = {} /\ vc'.loaded = vc.loaded /\ SameCorrs(vc, vc')
            /\ vc'.armed = [vc.armed EXCEPT ![t] = FALSE]
        BY <3>1, <3>5 DEF Books, SameCorrs
      <3>7. ASSUME NEW u \in Targets
            PROVE  /\ Count(vc', u) <= Count(vc, u)
                   /\ Count(vc', u) < Count(vc, u) => Excused(u)
                   /\ vc'.armed[u] => vc.armed[u] \/ vc.call \notin AutoTask
        <4>1. Count(vc, u) \in Nat /\ Count(vc', u) \in Nat
          BY CountIsNat
        <4>2. CASE u = t
          <5>1. ~vc'.armed[u] /\ vc.armed[u]
            BY <2>3, <2>6, <3>6, <4>2
          <5>2. Count(vc', u) = Count(vc, u) - 1
            BY <3>6, <5>1, ArmedCount
          <5> QED
            BY <2>6, <3>6, <4>1, <4>2, <5>1, <5>2 DEF Excused
        <4>3. CASE u # t
          <5>1. vc'.armed[u] <=> vc.armed[u]
            BY <2>3, <3>6, <4>3
          <5>2. SameCorrs(vc, vc')
            BY <3>6
          <5>3. Count(vc', u) = Count(vc, u)
            BY ONLY <5>1, <5>2, u \in Targets, ArmedCount
          <5> QED
            BY <4>1, <5>1, <5>3
        <4> QED
          BY <4>2, <4>3
      <3> QED
        BY <1>1, <3>5, <3>6, <3>7, SilentStep
    <2>7. CASE vc.armed[t] /\ dev'[t] \notin {"good", "gone"}
      <3> DEFINE x == EventClears(t, FALSE)
      <3>1. Bare(x)
        BY EventClearsEffect DEF Bare
      <3>2. e = Idle(x)
        BY <2>2, <2>7
      <3> HIDE DEF x
      <3>3. e \in CycleType /\ Books(x, e) /\ Lit(e)
        BY <3>1, <3>2, IdleEffect DEF Bare
      <3>4. Kept(e, vc', {t})
        BY <2>1, <3>3, EvaluateEffect
      <3>5. vc' \in CycleType /\ Books(x, vc') /\ Lit(vc')
        BY <3>3, <3>4, BooksTransitive DEF Kept
      <3> QED
        BY <1>1, <3>1, <3>5, BareStep
    <2> QED
      BY <2>4, <2>5, <2>6, <2>7
  <1> QED
    BY <1>2, <1>3

-----------------------------------------------------------------------------
(* The end of a service call.                                              *)

\* At most commands are announced: what ends is excused.
LEMMA SendStep ==
    ASSUME TypeOK, WorldOK', vc' \in CycleType, \A m \in vc'.said : m.kind = "enforced",
           Lit(vc'),
           \A u \in Targets : /\ Count(vc', u) <= Count(vc, u)
                              /\ Count(vc', u) < Count(vc, u) => Excused(u)
                              /\ vc'.armed[u] => vc.armed[u] \/ vc.call \notin AutoTask
    PROVE  StepOK
  <1>1. TypeOK'
    BY DEF TypeOK, WorldOK
  <1>2. VerifiedIsPermitted'
    BY DEF VerifiedIsPermitted
  <1>3. LoadedLit'
    BY DEF LoadedLit, Lit, Live
  <1>4. ASSUME NEW u \in Targets
        PROVE  Effect(u) /\ AutoUnforced(u)
    <2>1. Silently(u)
      BY DEF Silently, VerdictsOf, Verdicts
    <2> QED
      BY <2>1 DEF Effect, AutoUnforced
  <1> QED
    BY <1>1, <1>2, <1>3, <1>4 DEF StepOK

\* A command to t was sent, and opens a cycle.
LEMMA OpenStep ==
    ASSUME TypeOK, WorldOK', NEW t \in Targets, NEW m, m.t = t, m.kind = "enforced",
           vc' \in CycleType, vc'.said = {m}, Lit(vc'), SameCorrs(vc, vc'),
           ~vc.armed[t], vc'.armed = [vc.armed EXCEPT ![t] = TRUE],
           vc.call \in AutoTask => ~vc'.mark[t]
    PROVE  StepOK
  <1>1. /\ vc'.said = {m} /\ SameCorrs(vc, vc')
        /\ vc'.armed = [vc.armed EXCEPT ![t] = TRUE]
    OBVIOUS
  <1>2. vc.armed \in [Targets -> BOOLEAN]
    BY DEF TypeOK, CycleType
  <1>3. TypeOK'
    BY DEF TypeOK, WorldOK
  <1>4. VerifiedIsPermitted'
    BY <1>1 DEF VerifiedIsPermitted
  <1>5. LoadedLit'
    BY DEF LoadedLit, Lit, Live
  <1>6. ASSUME NEW u \in Targets
        PROVE  Effect(u) /\ AutoUnforced(u)
    <2>1. Silently(u)
      BY <1>1 DEF Silently, VerdictsOf, Verdicts
    <2>2. CASE u = t
      <3>1. Count(vc', u) = Count(vc, u) + 1
        BY <1>1, <1>2, <2>2, ArmedCount
      <3>2. SentTo(u, vc'.said)
        BY <1>1, <2>2 DEF SentTo
      <3>3. AutoUnforced(u)
        BY <2>2 DEF AutoUnforced
      <3> QED
        BY <2>1, <3>1, <3>2, <3>3 DEF Effect
    <2>3. CASE u # t
      <3>1. vc'.armed[u] <=> vc.armed[u]
        BY <1>1, <1>2, <2>3
      <3>2. SameCorrs(vc, vc')
        BY <1>1
      <3>3. Count(vc', u) = Count(vc, u) /\ Count(vc, u) \in Nat
        BY ONLY <3>1, <3>2, u \in Targets, ArmedCount, CountIsNat
      <3> QED
        BY <2>1, <3>1, <3>3 DEF Effect, AutoUnforced
    <2> QED
      BY <2>2, <2>3
  <1> QED
    BY <1>3, <1>4, <1>5, <1>6 DEF StepOK

\* A command to t was sent, and its cycle ends at once with the verdict n.
LEMMA AtOnceStep ==
    ASSUME TypeOK, WorldOK', NEW t \in Targets, NEW m, m.t = t, m.kind = "enforced",
           NEW n, n.t = t, n.kind \in Verdicts,
           vc' \in CycleType, vc'.said = {m, n}, Lit(vc'), SameCorrs(vc, vc'),
           vc'.armed = vc.armed,
           n.kind = "verified" => /\ vc'.loaded /\ vc'.enabled /\ master'
                                  /\ n.forced \/ (flag' /\ ~vc'.sup)
    PROVE  StepOK
  <1>1. /\ vc'.said = {m, n} /\ SameCorrs(vc, vc') /\ vc'.armed = vc.armed
    OBVIOUS
  <1>2. "enforced" \notin Verdicts /\ "enforced" # "verified"
    BY DEF Verdicts
  <1>3. TypeOK'
    BY DEF TypeOK, WorldOK
  <1>4. VerifiedIsPermitted'
    BY <1>1, <1>2 DEF VerifiedIsPermitted
  <1>5. LoadedLit'
    BY DEF LoadedLit, Lit, Live
  <1>6. ASSUME NEW u \in Targets
        PROVE  Effect(u) /\ AutoUnforced(u)
    <2>1. vc'.armed[u] <=> vc.armed[u]
      BY <1>1
    <2>2. SameCorrs(vc, vc')
      BY <1>1
    <2>3. Count(vc', u) = Count(vc, u) /\ Count(vc, u) \in Nat
      BY ONLY <2>1, <2>2, u \in Targets, ArmedCount, CountIsNat
    <2>4. CASE u = t
      <3>1. VerdictsOf(u, vc'.said) = {n}
        BY <1>1, <1>2, <2>4 DEF VerdictsOf
      <3>2. WithOne(u)
        BY <3>1 DEF WithOne
      <3>3. SentTo(u, vc'.said)
        BY <1>1, <2>4 DEF SentTo
      <3> QED
        BY <2>1, <2>3, <3>2, <3>3 DEF Effect, AutoUnforced
    <2>5. CASE u # t
      <3>1. Silently(u)
        BY <1>1, <2>5 DEF Silently, VerdictsOf
      <3> QED
        BY <2>1, <2>3, <3>1 DEF Effect, AutoUnforced
    <2> QED
      BY <2>4, <2>5
  <1> QED
    BY <1>3, <1>4, <1>5, <1>6 DEF StepOK

\* _cancel_verify, _arm_verify, and fresh attempts, field by field.
LEMMA CancelVerifyEffect ==
    ASSUME NEW v \in CycleType, NEW t \in Targets, NEW w, w = CancelVerify(v, t)
    PROVE  /\ w \in CycleType /\ w.armed = [v.armed EXCEPT ![t] = FALSE]
           /\ w.queue = v.queue /\ w.call = v.call /\ w.said = v.said
           /\ w.loaded = v.loaded /\ w.enabled = v.enabled /\ w.sup = v.sup
  <1> DEFINE a == [v.armed EXCEPT ![t] = FALSE]
             m == [v.mark EXCEPT ![t] = FALSE]
  <1>1. a \in [Targets -> BOOLEAN] /\ m \in [Targets -> BOOLEAN]
    BY BooksTyped
  <1>2. w = Written(v, a, v.attempts, m, v.streak)
    BY DEF CancelVerify, Written, CycleType
  <1>3. v.attempts \in [Targets -> 0..MaxAttempts] /\ v.streak \in [Targets -> 0..MaxStreak]
    BY BooksTyped
  <1> HIDE DEF a, m
  <1>4. /\ w \in CycleType /\ w.armed = a
        /\ w.queue = v.queue /\ w.call = v.call /\ w.said = v.said
        /\ w.loaded = v.loaded /\ w.enabled = v.enabled /\ w.sup = v.sup
    BY ONLY v \in CycleType, <1>1, <1>2, <1>3, WrittenEffect
  <1> QED
    BY <1>4 DEF a

LEMMA ArmEffect ==
    ASSUME NEW v \in CycleType, NEW t \in Targets, NEW f \in BOOLEAN,
           NEW w, w = Arm(v, t, f)
    PROVE  /\ w \in CycleType /\ w.armed = [v.armed EXCEPT ![t] = TRUE] /\ w.mark[t] = f
           /\ w.queue = v.queue /\ w.call = v.call /\ w.said = v.said
           /\ w.loaded = v.loaded /\ w.enabled = v.enabled /\ w.sup = v.sup
  <1> DEFINE a == [v.armed EXCEPT ![t] = TRUE]
             m == [v.mark EXCEPT ![t] = f]
  <1>1. v.armed \in [Targets -> BOOLEAN] /\ v.mark \in [Targets -> BOOLEAN]
    BY BooksTyped
  <1>2. a \in [Targets -> BOOLEAN] /\ m \in [Targets -> BOOLEAN] /\ m[t] = f
    BY <1>1
  <1>3. /\ [[v.armed EXCEPT ![t] = FALSE] EXCEPT ![t] = TRUE] = a
        /\ [[v.mark EXCEPT ![t] = FALSE] EXCEPT ![t] = f] = m
    BY <1>1
  <1>4. w = [v EXCEPT !.armed = [[v.armed EXCEPT ![t] = FALSE] EXCEPT ![t] = TRUE],
                      !.mark = [[v.mark EXCEPT ![t] = FALSE] EXCEPT ![t] = f]]
    BY DEF Arm, CancelVerify, CycleType
  <1>5. w = [v EXCEPT !.armed = a, !.mark = m]
    BY <1>3, <1>4
  <1> HIDE DEF a, m
  <1>6. w = Written(v, a, v.attempts, m, v.streak)
    BY <1>5 DEF Written, CycleType
  <1>7. v.attempts \in [Targets -> 0..MaxAttempts] /\ v.streak \in [Targets -> 0..MaxStreak]
    BY BooksTyped
  <1>8. /\ w \in CycleType /\ w.armed = a /\ w.mark = m
        /\ w.queue = v.queue /\ w.call = v.call /\ w.said = v.said
        /\ w.loaded = v.loaded /\ w.enabled = v.enabled /\ w.sup = v.sup
    BY ONLY v \in CycleType, <1>2, <1>6, <1>7, WrittenEffect
  <1> QED
    BY <1>2, <1>8 DEF a

LEMMA GivenEffect ==
    ASSUME NEW v \in CycleType, NEW t \in Targets, NEW w, w = [v EXCEPT !.attempts[t] = 0]
    PROVE  /\ w \in CycleType /\ w.armed = v.armed /\ w.mark = v.mark
           /\ w.queue = v.queue /\ w.call = v.call /\ w.said = v.said
           /\ w.loaded = v.loaded /\ w.enabled = v.enabled /\ w.sup = v.sup
  <1>1. w \in CycleType
    BY ClearEffect
  <1> QED
    BY <1>1 DEF CycleType

\* The switches are those of v, and so are the waiting and the running correctives.
SameRule(v, w) == /\ w \in CycleType /\ SameCorrs(v, w)
                  /\ w.loaded = v.loaded /\ w.enabled = v.enabled /\ w.sup = v.sup

LEMMA SameRuleTransitive ==
    ASSUME NEW u, NEW v, NEW w, SameRule(u, v), SameRule(v, w)
    PROVE  SameRule(u, w)
  BY DEF SameRule, SameCorrs

\* The tail of _enforce leaves the cycles as they are, opens the one of t, or lets it
\* end where it began.
LEMMA TailEffect ==
    ASSUME NEW v \in CycleType, NEW k \in Task, NEW t \in Targets, k.t = t,
           NEW w, w = Tail(v, k), NEW p \in BOOLEAN, p <=> k \in PressTask
    PROVE  /\ SameRule(v, w)
           /\ k \in CorrTask => w = v
           /\ \/ w.armed = v.armed /\ w.said = v.said
              \/ /\ ~v.armed[t] /\ w.armed = [v.armed EXCEPT ![t] = TRUE]
                 /\ w.said = v.said /\ w.mark[t] = p
              \/ /\ w.armed = v.armed
                 /\ w.said = v.said \cup {[t |-> t, kind |-> "cancelled", forced |-> p]}
              \/ /\ w.armed = v.armed
                 /\ w.said = v.said \cup {[t |-> t, kind |-> "verified", forced |-> p]}
                 /\ v.loaded /\ v.enabled /\ master' /\ (p \/ (flag' /\ ~v.sup))
  <1>1. CASE k \in CorrTask \/ Inactive(v) \/ v.armed[t]
    <2>1. w = v
      BY <1>1 DEF Tail
    <2> QED
      BY <2>1 DEF SameRule, SameCorrs
  <1>2. CASE ~(k \in CorrTask \/ Inactive(v) \/ v.armed[t])
    <2> DEFINE a     == Arm(v, t, p)
               given == [a EXCEPT !.attempts[t] = 0]
    <2>1. w = IF ~Reached(t) THEN a
              ELSE IF Dropped(a, t) THEN Drop(given, t)
              ELSE Confirm(CancelVerify(a, t), t, p)
      <3>1. (k \in PressTask) = p
        OBVIOUS
      <3>2. w = FastConfirm(Arm(v, t, k \in PressTask), t, k \in PressTask)
        BY <1>2 DEF Tail
      <3>3. w = FastConfirm(Arm(v, t, p), t, p)
        BY <3>1, <3>2
      <3> QED
        BY <3>3 DEF FastConfirm
    <2>2. /\ a \in CycleType /\ a.armed = [v.armed EXCEPT ![t] = TRUE] /\ a.mark[t] = p
          /\ a.queue = v.queue /\ a.call = v.call /\ a.said = v.said
          /\ a.loaded = v.loaded /\ a.enabled = v.enabled /\ a.sup = v.sup
      BY ArmEffect
    <2> HIDE DEF a
    <2>3. /\ given \in CycleType /\ given.armed = a.armed /\ given.mark = a.mark
          /\ given.queue = a.queue /\ given.call = a.call /\ given.said = a.said
          /\ given.loaded = a.loaded /\ given.enabled = a.enabled /\ given.sup = a.sup
      BY <2>2, GivenEffect
    <2> HIDE DEF given
    <2>4. v.armed \in [Targets -> BOOLEAN]
      BY BooksTyped
    <2>5. [[v.armed EXCEPT ![t] = TRUE] EXCEPT ![t] = FALSE] = v.armed
      BY <1>2, <2>4
    <2>6. k \notin CorrTask /\ ~v.armed[t]
      BY <1>2
    <2>7. CASE ~Reached(t)
      BY <2>1, <2>2, <2>6, <2>7 DEF SameRule, SameCorrs
    <2>8. CASE Reached(t) /\ Dropped(a, t)
      <3> DEFINE x == CancelVerify(given, t)
      <3>1. /\ x \in CycleType /\ x.armed = [given.armed EXCEPT ![t] = FALSE]
            /\ x.queue = given.queue /\ x.call = given.call /\ x.said = given.said
            /\ x.loaded = given.loaded /\ x.enabled = given.enabled /\ x.sup = given.sup
        BY <2>3, CancelVerifyEffect
      <3>2. w = IF given.loaded THEN Say(x, t, "cancelled", given.mark[t]) ELSE x
        BY <2>1, <2>8 DEF Drop
      <3>3. given.mark[t] = p /\ "cancelled" \in Verdicts \cup {"enforced"}
        BY <2>2, <2>3 DEF Verdicts
      <3> HIDE DEF x
      <3>4. x.armed = v.armed /\ SameRule(v, x) /\ x.said = v.said
        BY <2>2, <2>3, <2>5, <3>1 DEF SameRule, SameCorrs
      <3>5. CASE given.loaded
        <4>1. w = Say(x, t, "cancelled", p)
          BY <3>2, <3>3, <3>5
        <4>2. /\ w \in CycleType /\ SameCorrs(x, w) /\ w.armed = x.armed
              /\ w.said = x.said \cup {[t |-> t, kind |-> "cancelled", forced |-> p]}
              /\ w.loaded = x.loaded /\ w.enabled = x.enabled /\ w.sup = x.sup
          BY ONLY <3>1, <3>3, <4>1, t \in Targets, p \in BOOLEAN, SayEffect
        <4>3. SameRule(x, w)
          BY <4>2 DEF SameRule
        <4>4. SameRule(v, w)
          BY <3>4, <4>3, SameRuleTransitive
        <4> QED
          BY <2>6, <3>4, <4>2, <4>4
      <3>6. CASE ~given.loaded
        <4>1. w = x
          BY <3>2, <3>6
        <4> QED
          BY <2>6, <3>4, <4>1
      <3> QED
        BY <3>5, <3>6
    <2>9. CASE Reached(t) /\ ~Dropped(a, t)
      <3> DEFINE c == CancelVerify(a, t)
                 x == [c EXCEPT !.attempts[t] = 0]
      <3>1. w = Idle(Say(x, t, "verified", p))
        BY <2>1, <2>9 DEF Confirm
      <3>2. /\ c \in CycleType /\ c.armed = [a.armed EXCEPT ![t] = FALSE]
            /\ c.queue = a.queue /\ c.call = a.call /\ c.said = a.said
            /\ c.loaded = a.loaded /\ c.enabled = a.enabled /\ c.sup = a.sup
        BY <2>2, CancelVerifyEffect
      <3> HIDE DEF c
      <3>3. /\ x \in CycleType /\ x.armed = c.armed
            /\ x.queue = c.queue /\ x.call = c.call /\ x.said = c.said
            /\ x.loaded = c.loaded /\ x.enabled = c.enabled /\ x.sup = c.sup
        BY <3>2, GivenEffect
      <3> HIDE DEF x
      <3>4. x.armed = v.armed /\ SameRule(v, x) /\ x.said = v.said
        BY <2>2, <2>5, <3>2, <3>3 DEF SameRule, SameCorrs
      <3>5. "verified" \in Verdicts
        BY DEF Verdicts
      <3>6. /\ w \in CycleType /\ SameCorrs(x, w) /\ w.armed = x.armed
            /\ w.said = x.said \cup {[t |-> t, kind |-> "verified", forced |-> p]}
            /\ w.loaded = x.loaded /\ w.enabled = x.enabled /\ w.sup = x.sup
        BY ONLY <3>1, <3>3, <3>5, t \in Targets, p \in BOOLEAN, IdleSayEffect
      <3>7. SameRule(x, w)
        BY <3>6 DEF SameRule
      <3>8. SameRule(v, w)
        BY <3>4, <3>7, SameRuleTransitive
      <3>9. v.loaded /\ v.enabled /\ master' /\ (p \/ (flag' /\ ~v.sup))
        BY <2>2, <2>9 DEF Dropped, Inactive
      <3> QED
        BY <2>6, <3>4, <3>6, <3>8, <3>9
    <2> QED
      BY <2>7, <2>8, <2>9
  <1> QED
    BY <1>1, <1>2

\* The rest of a task that is no corrective leaves the books alone.
LEMMA EndTaskEffect ==
    ASSUME NEW v \in CycleType, NEW k \in Task, k \notin CorrTask, Lit(v),
           NEW w, w = EndTask(v, k)
    PROVE  w \in CycleType /\ Books(v, w) /\ Quiet(v, w) /\ Lit(w)
  <1>1. k.t \in Targets
    BY Kinds
  <1> DEFINE x == [v EXCEPT !.pend[k.t] = "none"]
  <1>2. w = Idle(x) \/ w = Idle(v) \/ w = v
    BY DEF EndTask
  <1>3. x \in CycleType /\ Books(v, x) /\ Quiet(v, x)
    BY <1>1 DEF CycleType, Books, Quiet
  <1> HIDE DEF x
  <1>4. CASE w = Idle(x)
    <2>1. w \in CycleType /\ Books(x, w) /\ Quiet(x, w) /\ Lit(w)
      BY <1>3, <1>4, IdleEffect
    <2> QED
      BY <1>3, <2>1, BooksTransitive DEF Quiet
  <1>5. CASE w = Idle(v)
    BY <1>5, IdleEffect
  <1>6. CASE w = v
    BY <1>6 DEF Books, Quiet
  <1> QED
    BY <1>2, <1>4, <1>5, <1>6

\* A call that is no corrective ends and no cycle changes.
LEMMA PlainEnd ==
    ASSUME TypeOK, WorldOK', vc.call \in Task, vc.call \notin CorrTask, NEW v, SameRule(vc, v),
           Lit(v), v.armed = vc.armed, \A m \in v.said : m.kind = "enforced",
           vc' = EndTask(v, vc.call)
    PROVE  StepOK
  <1>1. vc' \in CycleType /\ Books(v, vc') /\ Lit(vc')
    BY EndTaskEffect DEF SameRule
  <1>2. /\ vc'.armed = vc.armed /\ SameCorrs(vc, vc')
        /\ \A m \in vc'.said : m.kind = "enforced"
    BY <1>1 DEF Books, SameRule, SameCorrs
  <1>3. ASSUME NEW u \in Targets
        PROVE  /\ Count(vc', u) <= Count(vc, u)
               /\ Count(vc', u) < Count(vc, u) => Excused(u)
               /\ vc'.armed[u] => vc.armed[u] \/ vc.call \notin AutoTask
    <2>1. vc'.armed[u] <=> vc.armed[u]
      BY <1>2
    <2>2. SameCorrs(vc, vc')
      BY <1>2
    <2>3. Count(vc', u) = Count(vc, u) /\ Count(vc, u) \in Nat
      BY ONLY <2>1, <2>2, u \in Targets, ArmedCount, CountIsNat
    <2> QED
      BY <2>1, <2>3
  <1> QED
    BY <1>1, <1>2, <1>3, SendStep

\* A corrective ends: it arms the next deadline, or its cycle ends with an excuse.
LEMMA CorrEnd ==
    ASSUME TypeOK, WorldOK', master' = master, vc.call \in CorrTask,
           NEW v \in CycleType, Lit(v), v.armed = vc.armed, v.queue = vc.queue,
           v.call = NoTask, v.loaded = vc.loaded, v.enabled = vc.enabled,
           \A m \in v.said : m.kind = "enforced",
           vc' = EndTask(v, vc.call)
    PROVE  StepOK
  <1> DEFINE k == vc.call
             t == k.t
             f == k.forced
  <1>1. t \in Targets /\ f \in BOOLEAN /\ vc.armed \in [Targets -> BOOLEAN]
    BY DEF CorrTask, TypeOK, CycleType
  <1>2. /\ v.armed = vc.armed /\ v.queue = vc.queue /\ v.call = NoTask
        /\ v.loaded = vc.loaded /\ v.enabled = vc.enabled /\ v \in CycleType
        /\ \A m \in v.said : m.kind = "enforced"
    OBVIOUS
  <1>3. k \in CorrTask /\ k \notin FireTask /\ k \notin PressTask /\ k \notin AutoTask
    BY Kinds
  <1>4. \/ v.loaded /\ ~Inactive(v) /\ vc' = Idle(Arm(v, t, f))
        \/ (~v.loaded \/ Inactive(v)) /\ vc' = v
    BY <1>3 DEF EndTask
  <1>5. ASSUME NEW u \in Targets
        PROVE  /\ Count(vc, u) \in Nat
               /\ Count(v, u) = IF t = u THEN Count(vc, u) - 1 ELSE Count(vc, u)
               /\ v.armed[u] => Count(v, u) > 0
    <2>1. v.armed[u] <=> vc.armed[u]
      BY <1>2
    <2>2. Count(v, u) = IF vc.call \in CorrTask /\ vc.call.t = u THEN Count(vc, u) - 1
                        ELSE Count(vc, u)
      BY ONLY <2>1, <1>2, u \in Targets, ReleasedCount
    <2>3. v.armed[u] => Watched(v, u) = 1
      BY DEF Watched
    <2>4. v.armed[u] => Count(v, u) > 0
      BY <2>3, CountIsNat
    <2>5. Count(vc, u) \in Nat
      BY CountIsNat
    <2> QED
      BY <1>3, <2>2, <2>4, <2>5
  <1> HIDE DEF k, t, f
  <1>6. CASE (~v.loaded \/ Inactive(v)) /\ vc' = v
    <2>1. ASSUME NEW u \in Targets
          PROVE  /\ Count(vc', u) <= Count(vc, u)
                 /\ Count(vc', u) < Count(vc, u) => Excused(u)
                 /\ vc'.armed[u] => vc.armed[u] \/ vc.call \notin AutoTask
      <3>1. Count(vc', u) <= Count(vc, u) /\ (t # u => Count(vc', u) = Count(vc, u))
        BY <1>5, <1>6
      <3>2. t = u => Excused(u)
        BY <1>2, <1>3, <1>6 DEF Excused, Inactive, k, t
      <3>3. Count(vc, u) \in Nat
        BY <1>5
      <3> QED
        BY <1>2, <1>6, <3>1, <3>2, <3>3
    <2> QED
      BY <1>2, <1>6, <2>1, SendStep
  <1>7. CASE v.loaded /\ ~Inactive(v) /\ vc' = Idle(Arm(v, t, f))
    <2> DEFINE a == Arm(v, t, f)
    <2>1. /\ a \in CycleType /\ a.armed = [v.armed EXCEPT ![t] = TRUE]
          /\ a.queue = v.queue /\ a.call = v.call /\ a.said = v.said
      BY <1>1, <1>2, ArmEffect
    <2>2. vc' = Idle(a)
      BY <1>7
    <2> HIDE DEF a
    <2>3. vc' \in CycleType /\ Books(a, vc') /\ Lit(vc')
      BY <2>1, <2>2, IdleEffect
    <2>4. /\ vc'.armed = [vc.armed EXCEPT ![t] = TRUE] /\ SameCorrs(v, vc')
          /\ \A m \in vc'.said : m.kind = "enforced"
      BY <1>2, <2>1, <2>3 DEF Books, SameCorrs
    <2>5. ASSUME NEW u \in Targets
          PROVE  /\ Count(vc', u) <= Count(vc, u)
                 /\ Count(vc', u) < Count(vc, u) => Excused(u)
                 /\ vc'.armed[u] => vc.armed[u] \/ vc.call \notin AutoTask
      <3>1. SameCorrs(v, vc')
        BY <2>4
      <3>2. vc.call \notin AutoTask
        BY <1>3 DEF k
      <3>3. CASE u = t /\ ~v.armed[u]
        <4>1. vc'.armed[u]
          BY <1>1, <2>4, <3>3
        <4>2. Count(vc', u) = Count(v, u) + 1
          BY ONLY <3>1, <3>3, <4>1, u \in Targets, ArmedCount
        <4>3. Count(v, u) = Count(vc, u) - 1 /\ Count(vc, u) \in Nat
          BY <1>5, <3>3
        <4> QED
          BY <3>2, <4>2, <4>3
      <3>4. CASE u = t /\ v.armed[u]
        <4>1. vc'.armed[u] <=> v.armed[u]
          BY <1>1, <2>4, <3>4
        <4>2. Count(vc', u) = Count(v, u)
          BY ONLY <3>1, <4>1, u \in Targets, ArmedCount
        <4>3. /\ Count(v, u) = Count(vc, u) - 1 /\ Count(vc, u) \in Nat
              /\ Count(v, u) > 0
          BY <1>5, <3>4
        <4>4. Count(vc, u) > 1
          BY <4>3
        <4> QED
          BY <3>2, <4>2, <4>3, <4>4 DEF Excused
      <3>5. CASE u # t
        <4>1. vc'.armed[u] <=> v.armed[u]
          BY <1>1, <1>2, <2>4, <3>5
        <4>2. Count(vc', u) = Count(v, u)
          BY ONLY <3>1, <4>1, u \in Targets, ArmedCount
        <4>3. Count(v, u) = Count(vc, u) /\ Count(vc, u) \in Nat
          BY <1>5, <3>5
        <4> QED
          BY <3>2, <4>2, <4>3
      <3> QED
        BY <3>3, <3>4, <3>5
    <2> QED
      BY <2>3, <2>4, <2>5, SendStep
  <1> QED
    BY <1>4, <1>6, <1>7

LEMMA ReleasedEffect ==
    ASSUME TypeOK, vc.call # NoTask
    PROVE  /\ vc.call \in Task /\ Released \in CycleType /\ Released.call = NoTask
           /\ Released.armed = vc.armed /\ Released.queue = vc.queue /\ Released.said = {}
           /\ Released.loaded = vc.loaded /\ Released.enabled = vc.enabled
           /\ Released.sup = vc.sup
           /\ vc.call \notin CorrTask => SameRule(vc, Released)
  <1>1. vc.call \in Task
    BY DEF TypeOK, CycleType
  <1>2. /\ Released \in CycleType /\ Released.call = NoTask
        /\ Released.armed = vc.armed /\ Released.queue = vc.queue /\ Released.said = {}
        /\ Released.loaded = vc.loaded /\ Released.enabled = vc.enabled
        /\ Released.sup = vc.sup
    BY BareEngine DEF Bare, Released, CycleType
  <1>3. NoTask \notin CorrTask
    BY Kinds
  <1> QED
    BY <1>1, <1>2, <1>3 DEF SameRule, SameCorrs

LEMMA CallFailsStep ==
    ASSUME TypeOK, UNCHANGED World, vc.call # NoTask, CallFails(vc.call)
    PROVE  StepOK
  <1> DEFINE v == [Released EXCEPT !.shown = Verifying(Released)]
  <1>1. WorldOK' /\ master' = master
    BY WorldKept
  <1>2. vc' = EndTask(v, vc.call)
    BY DEF CallFails
  <1>3. v \in CycleType /\ Books(Released, v) /\ Quiet(Released, v) /\ Lit(v)
    BY ReleasedEffect, PaintEffect
  <1>4. v.queue = Released.queue /\ v.call = Released.call
    BY ReleasedEffect DEF CycleType
  <1> HIDE DEF v
  <1>5. /\ v.armed = vc.armed /\ v.queue = vc.queue /\ v.call = NoTask /\ v.said = {}
        /\ v.loaded = vc.loaded /\ v.enabled = vc.enabled /\ v.sup = vc.sup
    BY <1>3, <1>4, ReleasedEffect DEF Books, Quiet
  <1>6. CASE vc.call \in CorrTask
    BY <1>1, <1>2, <1>3, <1>5, <1>6, CorrEnd
  <1>7. CASE vc.call \notin CorrTask
    <2>1. SameRule(vc, v)
      BY <1>3, <1>5, <1>7, ReleasedEffect DEF SameRule, SameCorrs
    <2> QED
      BY <1>1, <1>2, <1>3, <1>5, <1>7, <2>1, ReleasedEffect, PlainEnd
  <1> QED
    BY <1>6, <1>7

LEMMA CallSucceedsStep ==
    ASSUME TypeOK, UNCHANGED World, vc.call # NoTask, CallSucceeds(vc.call)
    PROVE  StepOK
  <1> DEFINE k    == vc.call
             t    == k.t
             p    == k \in PressTask
             m    == [t |-> t, kind |-> "enforced", forced |-> p]
             sent == Say(Released, t, "enforced", p)
             done == Tail(sent, k)
             v    == [done EXCEPT !.shown = IdleVerifying(done)]
  <1>1. WorldOK' /\ master' = master
    BY WorldKept
  <1>2. vc' = EndTask(v, k)
    BY DEF CallSucceeds
  <1>3. k \in Task /\ t \in Targets /\ p \in BOOLEAN
    BY ReleasedEffect, Kinds
  <1>4. "enforced" \in Verdicts \cup {"enforced"}
    OBVIOUS
  <1>5. (p <=> k \in PressTask) /\ (k \in AutoTask => ~p) /\ k.t = t
    BY Kinds
  <1> HIDE DEF p
  <1>6. m.t = t /\ m.kind = "enforced"
    OBVIOUS
  <1>7. /\ Released \in CycleType /\ Released.call = NoTask
        /\ Released.armed = vc.armed /\ Released.queue = vc.queue /\ Released.said = {}
        /\ Released.loaded = vc.loaded /\ Released.enabled = vc.enabled
        /\ Released.sup = vc.sup
        /\ k \notin CorrTask => SameRule(vc, Released)
    BY ReleasedEffect
  <1> HIDE DEF t
  <1>8. /\ sent \in CycleType /\ SameCorrs(Released, sent) /\ sent.queue = Released.queue
        /\ sent.call = Released.call
        /\ sent.said = Released.said \cup {m}
        /\ sent.armed = Released.armed /\ sent.loaded = Released.loaded
        /\ sent.enabled = Released.enabled /\ sent.sup = Released.sup
    <2>1. sent = Say(Released, t, "enforced", p)
      OBVIOUS
    <2>2. Released \in CycleType /\ t \in Targets /\ p \in BOOLEAN
      BY <1>3, <1>7
    <2> HIDE DEF sent
    <2>3. /\ sent \in CycleType /\ SameCorrs(Released, sent)
          /\ sent.queue = Released.queue /\ sent.call = Released.call
          /\ sent.armed = Released.armed /\ sent.loaded = Released.loaded
      BY ONLY <1>4, <2>1, <2>2, SayEffect
    <2>4. sent.enabled = Released.enabled /\ sent.sup = Released.sup
      BY ONLY <1>4, <2>1, <2>2, SayEffect
    <2>5. sent.said = Released.said \cup {[t |-> t, kind |-> "enforced", forced |-> p]}
      BY ONLY <1>4, <2>1, <2>2, SayEffect
    <2> QED
      BY <2>3, <2>4, <2>5
  <1> HIDE DEF sent, m, k
  <1>9. /\ sent.said = {m} /\ sent.armed = vc.armed /\ sent.queue = vc.queue
        /\ sent.call = NoTask /\ sent.loaded = vc.loaded /\ sent.enabled = vc.enabled
        /\ sent.sup = vc.sup
    BY <1>7, <1>8
  <1>10. SameRule(Released, sent)
    BY <1>8 DEF SameRule
  <1>11. /\ SameRule(sent, done)
         /\ k \in CorrTask => done = sent
         /\ \/ done.armed = sent.armed /\ done.said = sent.said
            \/ /\ ~sent.armed[t] /\ done.armed = [sent.armed EXCEPT ![t] = TRUE]
               /\ done.said = sent.said /\ done.mark[t] = p
            \/ /\ done.armed = sent.armed
               /\ done.said = sent.said \cup {[t |-> t, kind |-> "cancelled", forced |-> p]}
            \/ /\ done.armed = sent.armed
               /\ done.said = sent.said \cup {[t |-> t, kind |-> "verified", forced |-> p]}
               /\ sent.loaded /\ sent.enabled /\ master' /\ (p \/ (flag' /\ ~sent.sup))
    BY ONLY <1>3, <1>5, <1>8, TailEffect
  <1> HIDE DEF done
  <1>12. done \in CycleType
    BY <1>11 DEF SameRule
  <1>13. v \in CycleType /\ Books(done, v) /\ Quiet(done, v) /\ Lit(v)
    <2>1. /\ v \in CycleType /\ Books(done, v) /\ Quiet(done, v)
          /\ v.shown = IdleVerifying(done)
      BY <1>12, VerifyingIsLit, ShownEffect
    <2> QED
      BY <1>12, <2>1, VerifyingIsLit, BooksLive DEF Lit
  <1>14. v.queue = done.queue /\ v.call = done.call
    BY <1>12 DEF CycleType
  <1> HIDE DEF v
  <1>15. CASE k \in CorrTask
    <2>1. done = sent
      BY <1>11, <1>15
    <2>2. /\ v.armed = vc.armed /\ v.queue = vc.queue /\ v.call = NoTask
          /\ v.loaded = vc.loaded /\ v.enabled = vc.enabled /\ v.said = {m}
      BY <1>9, <1>13, <1>14, <2>1 DEF Books
    <2>3. \A x \in v.said : x.kind = "enforced"
      BY <1>6, <2>2
    <2>4. vc.call \in CorrTask /\ vc' = EndTask(v, vc.call)
      BY <1>2, <1>15 DEF k
    <2> QED
      BY <1>1, <1>13, <2>2, <2>3, <2>4, CorrEnd
  <1>16. CASE k \notin CorrTask
    <2>1. SameRule(vc, done)
      BY <1>7, <1>10, <1>11, <1>16, SameRuleTransitive
    <2>2. SameRule(done, v)
      BY <1>13 DEF SameRule, SameCorrs, Books, Quiet
    <2>3. SameRule(vc, v)
      BY <2>1, <2>2, SameRuleTransitive
    <2>4. vc' \in CycleType /\ Books(v, vc') /\ Quiet(v, vc') /\ Lit(vc')
      BY <1>2, <1>3, <1>13, <1>16, EndTaskEffect
    <2>5. /\ vc'.armed = done.armed /\ vc'.mark = done.mark /\ vc'.said = done.said
          /\ SameCorrs(vc, vc') /\ vc'.loaded = vc.loaded /\ vc'.enabled = vc.enabled
          /\ vc'.sup = vc.sup
      BY <1>13, <2>3, <2>4 DEF Books, Quiet, SameRule, SameCorrs
    <2>6. CASE done.armed = sent.armed /\ done.said = sent.said
      <3>1. v.armed = vc.armed /\ \A x \in v.said : x.kind = "enforced"
        BY <1>6, <1>9, <1>13, <2>6 DEF Books
      <3>2. vc.call \in Task /\ vc.call \notin CorrTask /\ vc' = EndTask(v, vc.call)
        BY <1>2, <1>3, <1>16 DEF k
      <3> QED
        BY <1>1, <1>13, <2>3, <3>1, <3>2, PlainEnd
    <2>7. CASE /\ ~sent.armed[t] /\ done.armed = [sent.armed EXCEPT ![t] = TRUE]
               /\ done.said = sent.said /\ done.mark[t] = p
      <3>1. /\ ~vc.armed[t] /\ vc'.armed = [vc.armed EXCEPT ![t] = TRUE]
            /\ vc'.said = {m} /\ vc'.mark[t] = p
        BY <1>9, <2>5, <2>7
      <3>2. vc.call \in AutoTask => ~vc'.mark[t]
        BY <1>5, <3>1 DEF k
      <3> QED
        BY <1>1, <1>3, <1>6, <2>4, <2>5, <3>1, <3>2, OpenStep
    <2>8. CASE /\ done.armed = sent.armed
               /\ done.said = sent.said \cup {[t |-> t, kind |-> "cancelled", forced |-> p]}
      <3> DEFINE n == [t |-> t, kind |-> "cancelled", forced |-> p]
      <3>1. n.t = t /\ n.kind \in Verdicts /\ n.kind # "verified"
        BY DEF Verdicts
      <3>2. vc'.said = {m, n} /\ vc'.armed = vc.armed
        BY <1>9, <2>5, <2>8
      <3> HIDE DEF n
      <3> QED
        BY <1>1, <1>3, <1>6, <2>4, <2>5, <3>1, <3>2, AtOnceStep
    <2>9. CASE /\ done.armed = sent.armed
               /\ done.said = sent.said \cup {[t |-> t, kind |-> "verified", forced |-> p]}
               /\ sent.loaded /\ sent.enabled /\ master' /\ (p \/ (flag' /\ ~sent.sup))
      <3> DEFINE n == [t |-> t, kind |-> "verified", forced |-> p]
      <3>1. n.t = t /\ n.kind \in Verdicts /\ n.forced = p
        BY DEF Verdicts
      <3>2. vc'.said = {m, n} /\ vc'.armed = vc.armed
        BY <1>9, <2>5, <2>9
      <3>3. /\ vc'.loaded /\ vc'.enabled /\ master' /\ (p \/ (flag' /\ ~vc'.sup))
        BY <1>9, <2>5, <2>9
      <3> HIDE DEF n
      <3> QED
        BY <1>1, <1>3, <1>6, <2>4, <2>5, <3>1, <3>2, <3>3, AtOnceStep
    <2> QED
      BY <1>11, <2>6, <2>7, <2>8, <2>9
  <1> QED
    BY <1>15, <1>16

\* An abort keeps every book but that of a corrective's own cycle, which it ends.
LEMMA CallAbortsStep ==
    ASSUME TypeOK, UNCHANGED World, vc.call # NoTask, CallAborts(vc.call)
    PROVE  StepOK
  <1> DEFINE v == [Released EXCEPT !.aborted = TRUE]
  <1>1. WorldOK'
    BY WorldKept
  <1>2. /\ vc.call \in FireTask => vc' = EndTask(v, vc.call)
        /\ vc.call \notin FireTask => vc' = v
    BY DEF CallAborts
  <1>3. /\ v \in CycleType /\ v.armed = vc.armed /\ v.queue = vc.queue /\ v.call = NoTask
        /\ v.said = {} /\ v.loaded = vc.loaded /\ v.enabled = vc.enabled
        /\ v.sup = vc.sup /\ v.shown = vc.shown /\ v.aborted = TRUE
    BY BareEngine DEF Bare, Released, CycleType
  <1> HIDE DEF v
  <1>4. Lit(vc) => Lit(v)
    BY <1>3 DEF Lit, Live
  <1>5. /\ vc' \in CycleType /\ Books(v, vc') /\ (Lit(v) => Lit(vc'))
        /\ vc.call \in CorrTask => vc' = v
    <2> DEFINE x == [v EXCEPT !.pend[vc.call.t] = "none"]
    <2>1. vc.call \in CorrTask => vc.call \notin FireTask
      BY Kinds
    <2>2. CASE vc' = v
      BY <1>3, <2>2 DEF Books
    <2>3. CASE vc.call \in FireTask /\ vc' = Idle(x)
      <3>1. vc.call.t \in Targets
        BY <2>3, Kinds
      <3>2. x \in CycleType /\ Books(v, x)
        BY <1>3, <3>1 DEF CycleType, Books
      <3> HIDE DEF x
      <3>3. vc' \in CycleType /\ Books(x, vc') /\ Lit(vc')
        BY <2>3, <3>2, IdleEffect
      <3> QED
        BY <2>1, <2>3, <3>2, <3>3, BooksTransitive
    <2>4. vc.call \in FireTask => vc.call \notin PressTask /\ vc.call \notin CorrTask
      BY Kinds
    <2>5. vc' = v \/ (vc.call \in FireTask /\ vc' = Idle(x))
      BY <1>2, <2>4 DEF EndTask
    <2> QED
      BY <2>2, <2>3, <2>5
  <1>6. ASSUME NEW u \in Targets
        PROVE  /\ Count(vc', u) <= Count(vc, u)
               /\ Count(vc', u) < Count(vc, u) => Excused(u)
               /\ vc'.armed[u] => vc.armed[u] \/ vc.call \notin AutoTask
    <2>1. Count(vc', u) = Count(v, u)
      BY <1>5, BooksCount
    <2>2. Count(v, u) = IF vc.call \in CorrTask /\ vc.call.t = u THEN Count(vc, u) - 1
                        ELSE Count(vc, u)
      BY <1>3, ReleasedCount
    <2>3. Count(vc, u) \in Nat
      BY CountIsNat
    <2>4. vc.call \in CorrTask /\ vc.call.t = u => Excused(u)
      BY <1>3, <1>5 DEF Excused
    <2>5. vc'.armed = vc.armed
      BY <1>3, <1>5 DEF Books
    <2> QED
      BY <2>1, <2>2, <2>3, <2>4, <2>5
  <1>7. vc'.said = {} /\ vc'.loaded = vc.loaded
    BY <1>3, <1>5 DEF Books
  <1> QED
    BY <1>1, <1>4, <1>5, <1>6, <1>7, SilentStep

LEMMA CallEndsStep ==
    ASSUME TypeOK, CallEnds
    PROVE  StepOK
  BY CallSucceedsStep, CallFailsStep, CallAbortsStep DEF CallEnds

-----------------------------------------------------------------------------
(* Every step.                                                             *)

LEMMA NextStep ==
    ASSUME TypeOK, Next
    PROVE  StepOK
  <1>1. CASE \E t \in Targets : DeviceMoves(t)
    BY <1>1, DeviceMovesStep
  <1>2. CASE FlagMoves
    BY <1>2, FlagMovesStep
  <1>3. CASE SourceMoves
    BY <1>3, SourceMovesStep
  <1>4. CASE Operations
    <2>1. ASSUME NEW on \in BOOLEAN, MasterSet(on) \/ SetEnabled(on)
          PROVE  StepOK
      BY <2>1, MasterSetStep, SetEnabledStep
    <2>2. ASSUME NEW t \in Targets, Press(t)
          PROVE  StepOK
      BY <2>2, PressStep
    <2> QED
      BY <1>4, <2>1, <2>2, SuppressStep, SuppressionEndsStep, UnloadStep DEF Operations
  <1>5. CASE Tasks
    <2>1. ASSUME NEW t \in Targets, CountdownFires(t) \/ Deadline(t) \/ Granted(t)
          PROVE  StepOK
      BY <2>1, CountdownFiresStep, DeadlineStep, GrantedStep
    <2> QED
      BY <1>5, <2>1, CallEndsStep DEF Tasks
  <1> QED
    BY <1>1, <1>2, <1>3, <1>4, <1>5 DEF Next

-----------------------------------------------------------------------------
(* The theorems.  Nothing that a step promises needs more of the past than *)
(* the types; VERIFYING needs LoadedLit, which follows it into the steps   *)
(* of a rule that is loaded.                                               *)

IInv == TypeOK /\ VerifiedIsPermitted /\ LoadedLit

LEMMA InitIInv == Init => IInv
  <1> SUFFICES ASSUME Init PROVE IInv
    OBVIOUS
  <1>1. PICK enabled \in BOOLEAN : \E sup \in BOOLEAN :
            vc = [ enabled |-> enabled, loaded |-> TRUE, sup |-> sup,
                   pend |-> [t \in Targets |-> "none"],
                   queue |-> {}, call |-> NoTask,
                   armed |-> [t \in Targets |-> FALSE],
                   attempts |-> [t \in Targets |-> 0],
                   streak |-> [t \in Targets |-> 0],
                   mark |-> [t \in Targets |-> FALSE],
                   shown |-> FALSE, said |-> {}, aborted |-> FALSE ]
    BY DEF Init
  <1>2. PICK sup \in BOOLEAN :
            vc = [ enabled |-> enabled, loaded |-> TRUE, sup |-> sup,
                   pend |-> [t \in Targets |-> "none"],
                   queue |-> {}, call |-> NoTask,
                   armed |-> [t \in Targets |-> FALSE],
                   attempts |-> [t \in Targets |-> 0],
                   streak |-> [t \in Targets |-> 0],
                   mark |-> [t \in Targets |-> FALSE],
                   shown |-> FALSE, said |-> {}, aborted |-> FALSE ]
    BY <1>1
  <1>3. /\ [t \in Targets |-> 0] \in [Targets -> 0..MaxAttempts]
        /\ [t \in Targets |-> 0] \in [Targets -> 0..MaxStreak]
    BY CycleAssumption
  <1>4. vc \in CycleType
    BY <1>2, <1>3 DEF CycleType
  <1>5. TypeOK
    BY <1>4 DEF Init, TypeOK
  <1>6. vc.said = {} /\ vc.shown = FALSE
    BY <1>2
  <1> QED
    BY <1>5, <1>6 DEF IInv, VerifiedIsPermitted, LoadedLit, Lit

LEMMA StepIInv == IInv /\ [Next]_vars => IInv'
  <1> SUFFICES ASSUME IInv, [Next]_vars PROVE IInv'
    OBVIOUS
  <1>1. CASE Next
    BY <1>1, NextStep DEF IInv, StepOK
  <1>2. CASE UNCHANGED vars
    BY <1>2 DEF vars, IInv, TypeOK, VerifiedIsPermitted, LoadedLit, Lit, Live
  <1> QED
    BY <1>1, <1>2

LEMMA IInvHolds == Spec => []IInv
  BY InitIInv, StepIInv, PTL DEF Spec

\* The engine keeps its types: attempts and streaks stay within their limits, whatever
\* of the event, the deadline and the enforce tail resolves the cycles.
THEOREM TypeCorrect == Spec => []TypeOK
  <1>1. IInv => TypeOK
    BY DEF IInv
  <1> QED
    BY <1>1, IInvHolds, PTL

\* The three judgement paths agree: whatever confirms a target, the rule may act at
\* that moment, or the cycle is forced and its switches are on.
THEOREM VerifiedIsAlwaysPermitted == Spec => []VerifiedIsPermitted
  <1>1. IInv => VerifiedIsPermitted
    BY DEF IInv
  <1> QED
    BY <1>1, IInvHolds, PTL

\* A loaded rule shows VERIFYING only while it has an open cycle.
THEOREM VerifyingIsAlwaysLive == Spec => []VerifyingIsLive
  <1>1. IInv => VerifyingIsLive
    BY OpenCount, CountIsLive DEF IInv, LoadedLit, Lit, VerifyingIsLive
  <1> QED
    BY <1>1, IInvHolds, PTL

\* A cycle that ends without a verdict has one of the six excuses.
THEOREM SilentEndsAlwaysExcused == Spec => SilentEndsAreExcused
  <1>1. IInv /\ [Next]_vars =>
            [\A t \in Targets : SilentEnd(t) =>
                \/ ~vc'.loaded \/ dev'[t] = "gone" \/ OpenCycles[t] > 1 \/ vc.streak[t] > 0
                \/ /\ CallsCorrective(t) /\ vc'.call = NoTask
                   /\ ~vc.enabled \/ ~master \/ vc'.aborted]_vars
    <2> SUFFICES ASSUME IInv, Next, NEW t \in Targets, SilentEnd(t)
                 PROVE  \/ ~vc'.loaded \/ dev'[t] = "gone" \/ OpenCycles[t] > 1
                        \/ vc.streak[t] > 0
                        \/ /\ CallsCorrective(t) /\ vc'.call = NoTask
                           /\ ~vc.enabled \/ ~master \/ vc'.aborted
      OBVIOUS
    <2>1. Effect(t)
      BY NextStep DEF IInv, StepOK
    <2>2. OpenCycles[t] = Count(vc, t) /\ OpenCycles'[t] = Count(vc', t)
      BY OpenCount, OpenCountPrime
    <2>3. Count(vc, t) \in Nat /\ Count(vc', t) \in Nat /\ Count(vc', t) < Count(vc, t)
      BY <2>2, CountIsNat DEF SilentEnd
    <2>4. ~\E m \in vc'.said : m.t = t /\ m.kind \in Verdicts
      BY DEF SilentEnd
    <2>5. ~WithOne(t)
      BY <2>4 DEF WithOne, VerdictsOf
    <2>6. Excused(t)
      BY <2>1, <2>3, <2>5 DEF Effect
    <2> QED
      BY <2>2, <2>6 DEF Excused, CallsCorrective
  <1> QED
    BY <1>1, IInvHolds, PTL DEF Spec, SilentEndsAreExcused

\* A cycle that an automatic enforcement arms is not forced, whatever mark an earlier
\* forced cycle left.
THEOREM AutoCyclesAreUnforced == Spec => AutoCycleIsUnforced
  <1>1. IInv /\ [Next]_vars =>
            [\A t \in Targets :
                vc.call \in AutoTask /\ vc.call.t = t /\ ~vc.armed[t] /\ vc'.armed[t]
                    => ~vc'.mark[t]]_vars
    BY NextStep DEF IInv, StepOK, AutoUnforced
  <1> QED
    BY <1>1, IInvHolds, PTL DEF Spec, AutoCycleIsUnforced

-----------------------------------------------------------------------------
(* The contract.                                                           *)

LEMMA ContractInit == Init => Contract!Init
  <1> SUFFICES ASSUME Init PROVE Contract!Init
    OBVIOUS
  <1>1. vc.said = {} /\ vc.queue = {} /\ vc.call = NoTask /\ vc.armed = [t \in Targets |-> FALSE]
    BY DEF Init
  <1>2. NoTask \notin CorrTask
    BY Kinds
  <1>3. ASSUME NEW t \in Targets
        PROVE  Count(vc, t) = 0
    BY <1>1, <1>2 DEF Count, Watched, Calling, Waiting
  <1>4. OpenCycles = [t \in Targets |-> 0]
    BY <1>3, OpenCount
  <1> QED
    BY <1>1, <1>4 DEF Contract!Init

\* Every step opens, resolves or lapses the cycles of each target, or stutters.
LEMMA ContractStep ==
    ASSUME IInv, Next
    PROVE  Contract!Next
  <1>1. /\ \A t \in Targets : Effect(t)
        /\ TypeOK'
    BY NextStep DEF IInv, StepOK
  <1>2. OpenCycles' \in [Targets -> Nat]
    BY OpenCountPrime, CountIsNat
  <1>3. vc'.said \subseteq Contract!Message
    BY <1>1 DEF TypeOK, CycleType, Message, Contract!Message, Verdicts, Contract!Verdicts
  <1>4. ASSUME NEW t \in Targets
        PROVE  \/ Contract!Opens(t) \/ Contract!Resolves(t)
               \/ Contract!ResolvesAtOnce(t) \/ Contract!Lapses(t)
    <2>1. OpenCycles[t] = Count(vc, t) /\ OpenCycles'[t] = Count(vc', t)
      BY OpenCount, OpenCountPrime
    <2>2. Contract!VerdictsOf(t, vc'.said) = VerdictsOf(t, vc'.said)
      BY DEF Contract!VerdictsOf, VerdictsOf, Contract!Verdicts, Verdicts
    <2>3. Contract!SentTo(t, vc'.said) <=> SentTo(t, vc'.said)
      BY DEF Contract!SentTo, SentTo
    <2>4. Silently(t) => Contract!Silent(t)
      BY <2>2 DEF Silently, Contract!Silent
    <2>5. WithOne(t) => Contract!Speaks(t)
      <3> SUFFICES ASSUME WithOne(t) PROVE Contract!Speaks(t)
        OBVIOUS
      <3>1. PICK m : VerdictsOf(t, vc'.said) = {m}
        BY DEF WithOne
      <3>2. Contract!VerdictsOf(t, vc'.said) = {m} /\ Cardinality({m}) = 1
        BY <2>2, <3>1, FS_Singleton
      <3>3. Cardinality(Contract!VerdictsOf(t, vc'.said)) = 1
        BY ONLY <3>2
      <3>4. Contract!Cardinality(Contract!VerdictsOf(t, vc'.said))
                = Cardinality(Contract!VerdictsOf(t, vc'.said))
        BY DEF Cardinality, Contract!Cardinality
      <3> QED
        BY <3>3, <3>4 DEF Contract!Speaks
    <2>6. Effect(t)
      BY <1>1
    <2> QED
      BY <2>1, <2>3, <2>4, <2>5, <2>6
      DEF Effect, Contract!Opens, Contract!Resolves, Contract!ResolvesAtOnce,
          Contract!Lapses
  <1> QED
    BY <1>2, <1>3, <1>4 DEF Contract!Next

\* The cycle implements its contract: resolved once, by whichever path comes first, and
\* opened by a sent command only.
THEOREM ContractIsKept == Spec => ContractKept
  <1>1. Init => Contract!Init
    BY ContractInit
  <1>2. IInv /\ [Next]_vars => [Contract!Next]_<<OpenCycles, vc.said>>
    <2> SUFFICES ASSUME IInv, [Next]_vars
                 PROVE  Contract!Next \/ UNCHANGED <<OpenCycles, vc.said>>
      OBVIOUS
    <2>1. CASE Next
      BY <2>1, ContractStep
    <2>2. CASE UNCHANGED vars
      <3>1. vc' = vc
        BY <2>2 DEF vars
      <3>2. OpenCycles' = OpenCycles
        BY <3>1, OpenCount, OpenCountPrime
      <3> QED
        BY <3>1, <3>2
    <2> QED
      BY <2>1, <2>2
  <1> QED
    BY <1>1, <1>2, IInvHolds, PTL DEF Spec, ContractKept, Contract!Spec

=============================================================================
