--------------------------- MODULE RuleStoreProofs ---------------------------
(***************************************************************************)
(* What RuleStore promises, for any number of rules in use and any faults. *)
(***************************************************************************)
EXTENDS RuleStore, TLAPS

-----------------------------------------------------------------------------
(* Types.                                                                  *)

\* The blobs and their updates.
LEMMA BlobTypes ==
    /\ Default \in Blob
    /\ \A b \in Blob : /\ [b EXCEPT !.sup = TRUE] \in Blob
                       /\ [b EXCEPT !.sup = FALSE] \in Blob
                       /\ [b EXCEPT !.total = 0] \in Blob
                       /\ [b EXCEPT !.total = 1] \in Blob
                       /\ [b EXCEPT !.enabled = ~@] \in Blob
  BY DEF Blob, Default

\* What a panic stop makes of a blob.
LEMMA PanicType ==
    ASSUME NEW b \in Blob, NEW kept \in BOOLEAN
    PROVE  [b EXCEPT !.enabled = FALSE, !.sup = @ \/ kept] \in Blob
  <1>1. b.sup \in BOOLEAN
    BY DEF Blob
  <1>2. (b.sup \/ kept) \in BOOLEAN
    OBVIOUS
  <1> QED
    BY <1>1, <1>2 DEF Blob

\* The outcomes of a call.
LEMMA TailTypes ==
    ASSUME NEW b \in Blob
    PROVE  Tails(b) \subseteq Blob
  BY BlobTypes DEF Tails

\* Persisting blobs keeps the types of what it writes.
LEMMA PersistTyped ==
    ASSUME TypeOK, NEW D \in SUBSET Rules, NEW s, \A r \in D : s[r] \in Blob, Persist(D, s)
    PROVE  /\ eng' \in [Rules -> Blob]
           /\ mem' \in [Rules -> Blob]
           /\ want' \in [Rules -> Blob]
           /\ hurt' \subseteq Rules
           /\ dirty' \in BOOLEAN
  BY DEF Persist, TypeOK

\* A single rule's blob.
LEMMA PersistOneTyped ==
    ASSUME TypeOK, NEW r \in Rules, NEW b \in Blob, PersistOne(r, b)
    PROVE  /\ eng' \in [Rules -> Blob]
           /\ mem' \in [Rules -> Blob]
           /\ want' \in [Rules -> Blob]
           /\ hurt' \subseteq Rules
           /\ dirty' \in BOOLEAN
  BY DEF PersistOne, Persist, TypeOK

\* The initial state has its type.
LEMMA InitTyped == Init => TypeOK
  <1> SUFFICES ASSUME Init PROVE TypeOK
    OBVIOUS
  <1>1. Default \in Blob
    BY BlobTypes
  <1>2. /\ disk \in [Rules -> Blob \cup {Corrupt}] /\ mem \in [Rules -> Blob]
        /\ eng \in [Rules -> Blob] /\ want \in [Rules -> Blob]
    BY <1>1 DEF Init
  <1>3. /\ run \in [Rules -> {"down", "failed", "loaded", "unloading", "flushing", "saving"}]
        /\ cleared \in [Rules -> {"no", "waits", "writes", "durable"}]
        /\ call \in [Rules -> BOOLEAN]
        /\ late \in [Rules -> [blob : Blob, old : BOOLEAN] \cup {NoCall}]
    BY DEF Init
  <1>4. up \in BOOLEAN /\ dirty \in BOOLEAN /\ hurt \subseteq Rules
        /\ writing \in [Rules -> Blob] \cup {NoWrite}
    BY DEF Init
  <1> QED
    BY <1>2, <1>3, <1>4 DEF TypeOK

\* Users and the engine of one rule keep the types.
LEMMA RuleStepTyped ==
    ASSUME TypeOK, NEW r \in Rules, UserStep(r) \/ EngineStep(r)
    PROVE  TypeOK'
  <1> USE DEF TypeOK
  <1>0. eng[r] \in Blob
    OBVIOUS
  <1>1. CASE SetEnabled(r)
    <2>1. PersistOne(r, [eng[r] EXCEPT !.enabled = ~@]) /\ [eng[r] EXCEPT !.enabled = ~@] \in Blob
      BY <1>1, <1>0, BlobTypes DEF SetEnabled
    <2> QED
      BY <1>1, <2>1, PersistOneTyped DEF SetEnabled
  <1>2. CASE Suppress(r)
    <2>1. PersistOne(r, [eng[r] EXCEPT !.sup = TRUE]) /\ [eng[r] EXCEPT !.sup = TRUE] \in Blob
      BY <1>2, <1>0, BlobTypes DEF Suppress
    <2> QED
      BY <1>2, <2>1, PersistOneTyped DEF Suppress
  <1>3. CASE SuppressionEnds(r)
    <2>1. PersistOne(r, [eng[r] EXCEPT !.sup = FALSE]) /\ [eng[r] EXCEPT !.sup = FALSE] \in Blob
      BY <1>3, <1>0, BlobTypes DEF SuppressionEnds
    <2> QED
      BY <1>3, <2>1, PersistOneTyped DEF SuppressionEnds
  <1>4. CASE ClearHistory(r)
    <2>1. PersistOne(r, [eng[r] EXCEPT !.total = 0]) /\ [eng[r] EXCEPT !.total = 0] \in Blob
      BY <1>4, <1>0, BlobTypes DEF ClearHistory
    <2> QED
      BY <1>4, <2>1, PersistOneTyped DEF ClearHistory
  <1>5. CASE BeginReload(r)
    BY <1>5 DEF BeginReload
  <1>6. CASE CallStarts(r)
    BY <1>6 DEF CallStarts
  <1>7. CASE CallEnds(r)
    <2>1. PICK b \in Tails(eng[r]) :
              /\ PersistOne(r, b)
              /\ cleared' = [cleared EXCEPT ![r] = IF b.total = 1 THEN "no" ELSE @]
      BY <1>7 DEF CallEnds
    <2>2. b \in Blob
      BY <1>0, TailTypes
    <2> QED
      BY <1>7, <2>1, <2>2, PersistOneTyped DEF CallEnds
  <1>8. CASE LateTail(r)
    <2>1. late[r].blob \in Blob
      BY <1>8 DEF LateTail
    <2>2. PICK b \in Tails(late[r].blob) :
              /\ mem' = [mem EXCEPT ![r] = b]
              /\ cleared' = [cleared EXCEPT ![r] = IF b.total = 1 THEN "no" ELSE @]
              /\ IF late[r].old
                 THEN /\ hurt' = hurt \cup {r}
                      /\ UNCHANGED <<eng, want>>
                 ELSE /\ eng' = [eng EXCEPT ![r] = b]
                      /\ want' = [want EXCEPT ![r] = b]
                      /\ hurt' = hurt \ {r}
      BY <1>8 DEF LateTail
    <2>3. b \in Blob
      BY <2>1, TailTypes
    <2> QED
      BY <1>8, <2>2, <2>3 DEF LateTail
  <1>9. CASE UnloadEngine(r)
    <2>1. PersistOne(r, eng[r])
      BY <1>9 DEF UnloadEngine
    <2>2. late' \in [Rules -> [blob : Blob, old : BOOLEAN] \cup {NoCall}]
      BY <1>9 DEF UnloadEngine
    <2> QED
      BY <1>9, <1>0, <2>1, <2>2, PersistOneTyped DEF UnloadEngine
  <1> QED
    BY <1>1, <1>2, <1>3, <1>4, <1>5, <1>6, <1>7, <1>8, <1>9 DEF UserStep, EngineStep

\* The panic stop hands in blobs of engines.
LEMMA PanicStopTyped ==
    ASSUME TypeOK, NEW broken, PanicStop(broken)
    PROVE  TypeOK'
  <1> DEFINE engines == {r \in Rules : InCharge(r)}
             stopped == [r \in Rules |-> [eng[r] EXCEPT !.enabled = FALSE,
                                                       !.sup = @ \/ r \notin broken]]
  <1>1. Persist(engines, stopped)
    BY DEF PanicStop
  <1>2. ASSUME NEW r \in Rules PROVE stopped[r] \in Blob
    <2>1. eng[r] \in Blob /\ (r \notin broken) \in BOOLEAN
      BY DEF TypeOK
    <2> QED
      BY <2>1, PanicType
  <1>3. engines \in SUBSET Rules
    OBVIOUS
  <1> HIDE DEF engines, stopped
  <1>4. /\ eng' \in [Rules -> Blob]
        /\ mem' \in [Rules -> Blob]
        /\ want' \in [Rules -> Blob]
        /\ hurt' \subseteq Rules
        /\ dirty' \in BOOLEAN
    BY <1>1, <1>2, <1>3, PersistTyped
  <1> QED
    BY <1>4 DEF PanicStop, TypeOK

\* Set-ups, the store and the process keep the types.
LEMMA StepTyped ==
    ASSUME TypeOK, [Next]_vars
    PROVE  TypeOK'
  <1>1. ASSUME NEW r \in Rules, SetUp(r) PROVE TypeOK'
    <2>1. late' \in [Rules -> [blob : Blob, old : BOOLEAN] \cup {NoCall}]
      BY <1>1 DEF SetUp, TypeOK
    <2> QED
      BY <1>1, <2>1 DEF SetUp, TypeOK
  <1>2. CASE WriteStarts
    BY <1>2 DEF WriteStarts, TypeOK
  <1>3. CASE WriteEnds
    <2>1. writing \in [Rules -> Blob]
      BY <1>3 DEF WriteEnds, TypeOK
    <2> QED
      BY <1>3, <2>1 DEF WriteEnds, TypeOK
  <1>4. ASSUME Ends PROVE /\ up' \in BOOLEAN /\ dirty' \in BOOLEAN /\ writing' = NoWrite
                          /\ run' = [r \in Rules |-> "down"]
                          /\ mem' \in [Rules -> Blob] /\ eng' \in [Rules -> Blob]
                          /\ call' \in [Rules -> BOOLEAN]
                          /\ late' = [r \in Rules |-> NoCall]
                          /\ want' \in [Rules -> Blob]
    BY <1>4, BlobTypes DEF Ends, TypeOK
  <1>5. CASE Shutdown
    <2>1. disk' \in [Rules -> Blob \cup {Corrupt}]
      BY <1>5 DEF Shutdown, TypeOK
    <2> QED
      BY <1>5, <1>4, <2>1 DEF Shutdown, TypeOK
  <1>6. CASE Crash
    <2>1. disk' \in [Rules -> Blob \cup {Corrupt}]
      BY <1>6 DEF Crash, TypeOK
    <2>2. hurt' \subseteq Rules
      BY <1>6 DEF Crash, TypeOK
    <2> QED
      BY <1>6, <1>4, <2>1, <2>2 DEF Crash, TypeOK
  <1>7. CASE Start
    BY <1>7, BlobTypes DEF Start, Loaded, TypeOK
  <1>8. ASSUME NEW r \in Rules, Damage(r) PROVE TypeOK'
    BY <1>8 DEF Damage, TypeOK
  <1>9. CASE UNCHANGED vars
    BY <1>9 DEF vars, TypeOK
  <1>10. ASSUME NEW r \in Rules, SetUpFails(r) PROVE TypeOK'
    BY <1>10 DEF SetUpFails, TypeOK
  <1> QED
    BY <1>1, <1>2, <1>3, <1>5, <1>6, <1>7, <1>8, <1>9, <1>10, RuleStepTyped, PanicStopTyped,
       RulesAssumption DEF Next

\* Every variable of the store and of its engines keeps its type.
THEOREM TypeCorrect == Spec => []TypeOK
  BY InitTyped, StepTyped, PTL DEF Spec


-----------------------------------------------------------------------------
(* Nothing is forgotten.  NothingIsForgotten alone says nothing of the time *)
(* in which no engine is in charge.  What carries the last state over it is *)
(* the memory copy, then the running write, then the file: Written says     *)
(* that the three agree as soon as no write is owed, Remembered that the    *)
(* one in charge has what the rule's last engine stood for.                 *)

\* A process that is down has nothing going on.
Down == ~up => /\ ~dirty
               /\ writing = NoWrite
               /\ \A r \in Rules : run[r] = "down" /\ ~call[r] /\ late[r] = NoCall

\* A call is out on behalf of an engine in charge.
Owned == \A r \in Rules : call[r] => InCharge(r)

\* A write that is not owed any more has brought or is bringing the memory copy.
Written == up /\ ~dirty => IF writing = NoWrite THEN mem = Loaded(disk) ELSE writing = mem

\* What the next set-up reads, as things are.
Remembered == \A r \in Rules \ hurt : IF up THEN mem[r] = want[r] ELSE Loaded(disk)[r] = want[r]

Kept == TypeOK /\ Down /\ Owned /\ Written /\ Remembered /\ NothingIsForgotten

\* A file of proper blobs is loaded as it is.
LEMMA LoadedAsIs ==
    ASSUME NEW f \in [Rules -> Blob]
    PROVE  Loaded(f) = f
  BY MarkersAssumption DEF Loaded

\* The parts of the invariant hold initially.
LEMMA InitKept == Init => Kept
  <1> SUFFICES ASSUME Init PROVE Kept
    OBVIOUS
  <1>1. Default # Corrupt
    BY MarkersAssumption, BlobTypes
  <1>2. Loaded(disk) = [r \in Rules |-> Default]
    BY <1>1 DEF Init, Loaded
  <1> QED
    BY <1>2, InitTyped
       DEF Init, Kept, Down, Owned, Written, Remembered, NothingIsForgotten, InCharge

\* Engines that are in charge, or that leave, hand in what they stand for.
LEMMA PersistKept ==
    ASSUME Kept, up, NEW D \in SUBSET Rules, NEW s, \A r \in D : s[r] \in Blob,
           Persist(D, s), UNCHANGED <<up, disk, writing>>,
           \A r \in Rules : InCharge(r)' => InCharge(r)
    PROVE  Written' /\ Remembered' /\ NothingIsForgotten'
  <1>1. CASE D = {}
    <2>1. UNCHANGED <<eng, mem, want, hurt, dirty>>
      BY <1>1 DEF Persist, Kept, TypeOK
    <2> QED
      BY <2>1 DEF Kept, Written, Remembered, NothingIsForgotten, Loaded
  <1>2. CASE D # {}
    <2>1. dirty'
      BY <1>2 DEF Persist
    <2>2. \A r \in Rules : (r \in D /\ mem'[r] = want'[r]) \/ (r \notin D /\ mem'[r] = mem[r] /\ want'[r] = want[r])
      BY DEF Persist
    <2>3. Remembered'
      BY <2>2 DEF Persist, Kept, Remembered
    <2>4. NothingIsForgotten'
      BY DEF Persist, Kept, NothingIsForgotten
    <2> QED
      BY <2>1, <2>3, <2>4 DEF Written
  <1> QED
    BY <1>1, <1>2


\* Engines in charge belong to a process that is up; a blob of theirs is persisted.
LEMMA OneKept ==
    ASSUME Kept, up, NEW r \in Rules, NEW b \in Blob, PersistOne(r, b),
           UNCHANGED <<up, disk, writing>>, \A x \in Rules : InCharge(x)' => InCharge(x)
    PROVE  Written' /\ Remembered' /\ NothingIsForgotten'
  BY PersistKept DEF PersistOne

\* A step that leaves the store, and who is in charge, alone.
LEMMA IdleKept ==
    ASSUME Kept, UNCHANGED <<up, disk, mem, dirty, writing, eng, want, hurt>>,
           \A x \in Rules : InCharge(x)' => InCharge(x)
    PROVE  Written' /\ Remembered' /\ NothingIsForgotten'
  BY DEF Kept, Written, Remembered, NothingIsForgotten, Loaded

\* Users and the engine of one rule.
LEMMA RuleStepKept ==
    ASSUME Kept, NEW r \in Rules, UserStep(r) \/ EngineStep(r)
    PROVE  Kept'
  <1>0. TypeOK' /\ TypeOK /\ eng[r] \in Blob
    BY RuleStepTyped DEF Kept, TypeOK
  <1> SUFFICES up /\ Down' /\ Owned' /\ Written' /\ Remembered' /\ NothingIsForgotten'
    BY <1>0 DEF Kept
  <1>1. CASE SetEnabled(r)
    <2>1. up /\ Down' /\ Owned'
      BY <1>1, <1>0 DEF SetEnabled, Kept, Down, Owned, InCharge
    <2>2. PersistOne(r, [eng[r] EXCEPT !.enabled = ~@]) /\ [eng[r] EXCEPT !.enabled = ~@] \in Blob
      BY <1>1, <1>0, BlobTypes DEF SetEnabled
    <2> QED
      BY <1>1, <2>1, <2>2, OneKept DEF SetEnabled, InCharge
  <1>2. CASE Suppress(r)
    <2>1. up /\ Down' /\ Owned'
      BY <1>2, <1>0 DEF Suppress, Kept, Down, Owned, InCharge
    <2>2. PersistOne(r, [eng[r] EXCEPT !.sup = TRUE]) /\ [eng[r] EXCEPT !.sup = TRUE] \in Blob
      BY <1>2, <1>0, BlobTypes DEF Suppress
    <2> QED
      BY <1>2, <2>1, <2>2, OneKept DEF Suppress, InCharge
  <1>3. CASE SuppressionEnds(r)
    <2>1. up /\ Down' /\ Owned'
      BY <1>3, <1>0 DEF SuppressionEnds, Kept, Down, Owned, InCharge
    <2>2. PersistOne(r, [eng[r] EXCEPT !.sup = FALSE]) /\ [eng[r] EXCEPT !.sup = FALSE] \in Blob
      BY <1>3, <1>0, BlobTypes DEF SuppressionEnds
    <2> QED
      BY <1>3, <2>1, <2>2, OneKept DEF SuppressionEnds, InCharge
  <1>4. CASE ClearHistory(r)
    <2>1. up /\ Down' /\ Owned'
      BY <1>4, <1>0 DEF ClearHistory, Kept, Down, Owned, InCharge
    <2>2. PersistOne(r, [eng[r] EXCEPT !.total = 0]) /\ [eng[r] EXCEPT !.total = 0] \in Blob
      BY <1>4, <1>0, BlobTypes DEF ClearHistory
    <2> QED
      BY <1>4, <2>1, <2>2, OneKept DEF ClearHistory, InCharge
  <1>5. CASE BeginReload(r)
    <2>1. up /\ Down' /\ Owned'
      BY <1>5, <1>0 DEF BeginReload, Kept, Down, Owned, InCharge, TypeOK
    <2>2. \A x \in Rules : InCharge(x)' => InCharge(x)
      BY <1>5, <1>0 DEF BeginReload, InCharge, TypeOK
    <2> QED
      BY <1>5, <2>1, <2>2, IdleKept DEF BeginReload
  <1>6. CASE CallStarts(r)
    <2>1. up /\ Down' /\ Owned'
      BY <1>6, <1>0 DEF CallStarts, Kept, Down, Owned, InCharge, TypeOK
    <2> QED
      BY <1>6, <2>1, IdleKept DEF CallStarts, InCharge
  <1>7. CASE CallEnds(r)
    <2>1. up /\ Down' /\ Owned'
      BY <1>7, <1>0 DEF CallEnds, PersistOne, Persist, Kept, Down, Owned, InCharge, TypeOK
    <2>2. PICK b \in Tails(eng[r]) : PersistOne(r, b)
      BY <1>7 DEF CallEnds
    <2>3. b \in Blob
      BY <1>0, TailTypes
    <2> QED
      BY <1>7, <2>1, <2>2, <2>3, OneKept DEF CallEnds, InCharge
  <1>8. CASE LateTail(r)
    <2>1. up /\ Down' /\ Owned'
      BY <1>8, <1>0 DEF LateTail, Kept, Down, Owned, InCharge, TypeOK
    <2>2. PICK b \in Tails(late[r].blob) :
              /\ mem' = [mem EXCEPT ![r] = b]
              /\ IF late[r].old
                 THEN hurt' = hurt \cup {r} /\ UNCHANGED <<eng, want>>
                 ELSE /\ eng' = [eng EXCEPT ![r] = b]
                      /\ want' = [want EXCEPT ![r] = b]
                      /\ hurt' = hurt \ {r}
      BY <1>8 DEF LateTail
    <2>3. dirty' /\ UNCHANGED <<up, disk, run>>
      BY <1>8 DEF LateTail
    <2>4. Written'
      BY <2>3 DEF Written
    <2>5. Remembered'
      BY <1>0, <2>1, <2>2, <2>3 DEF Remembered, Kept, TypeOK
    <2>6. NothingIsForgotten'
      BY <1>0, <2>2, <2>3 DEF NothingIsForgotten, Kept, TypeOK, InCharge
    <2> QED
      BY <2>1, <2>4, <2>5, <2>6
  <1>9. CASE UnloadEngine(r)
    <2>1. up /\ Down' /\ Owned'
      BY <1>9, <1>0 DEF UnloadEngine, PersistOne, Persist, Kept, Down, Owned, InCharge, TypeOK
    <2>2. \A x \in Rules : InCharge(x)' => InCharge(x)
      BY <1>9, <1>0 DEF UnloadEngine, InCharge, TypeOK
    <2>3. PersistOne(r, eng[r])
      BY <1>9 DEF UnloadEngine
    <2> QED
      BY <1>9, <1>0, <2>1, <2>2, <2>3, OneKept DEF UnloadEngine
  <1> QED
    BY <1>1, <1>2, <1>3, <1>4, <1>5, <1>6, <1>7, <1>8, <1>9 DEF UserStep, EngineStep

\* A panic stop, whichever engines it fails on.
LEMMA PanicStopKept ==
    ASSUME Kept, NEW broken, PanicStop(broken)
    PROVE  Kept'
  <1> DEFINE engines == {r \in Rules : InCharge(r)}
             stopped == [r \in Rules |-> [eng[r] EXCEPT !.enabled = FALSE,
                                                       !.sup = @ \/ r \notin broken]]
  <1>1. Persist(engines, stopped)
    BY DEF PanicStop
  <1>2. ASSUME NEW r \in Rules PROVE stopped[r] \in Blob
    <2>1. eng[r] \in Blob /\ (r \notin broken) \in BOOLEAN
      BY DEF TypeOK, Kept
    <2> QED
      BY <2>1, PanicType
  <1>3. engines \in SUBSET Rules
    OBVIOUS
  <1>4. up /\ Down' /\ Owned'
    BY DEF PanicStop, Kept, Down, Owned, InCharge
  <1>5. TypeOK'
    BY PanicStopTyped DEF Kept
  <1> HIDE DEF engines, stopped
  <1>6. Written' /\ Remembered' /\ NothingIsForgotten'
    BY <1>1, <1>2, <1>3, <1>4, PersistKept DEF PanicStop, InCharge
  <1> QED
    BY <1>4, <1>5, <1>6 DEF Kept

\* Set-ups, the store and the process.
LEMMA StepKept ==
    ASSUME Kept, [Next]_vars
    PROVE  Kept'
  <1>0. TypeOK /\ TypeOK'
    BY StepTyped DEF Kept
  <1>1. ASSUME NEW r \in Rules, SetUp(r) PROVE Kept'
    <2>1. Down' /\ Owned'
      BY <1>1, <1>0 DEF SetUp, Kept, Down, Owned, InCharge, TypeOK
    <2>2. Written'
      BY <1>1 DEF SetUp, Kept, Written, Loaded
    <2>3. Remembered'
      BY <1>1, <1>0 DEF SetUp, Kept, Remembered, TypeOK
    <2>4. mem[r] = want'[r] /\ eng'[r] = mem[r]
      BY <1>1, <1>0 DEF SetUp, Kept, Remembered, TypeOK
    <2>5. \A x \in Rules \ {r} : eng'[x] = eng[x] /\ want'[x] = want[x] /\ run'[x] = run[x]
      BY <1>1, <1>0 DEF SetUp, TypeOK
    <2>6. NothingIsForgotten'
      BY <2>4, <2>5 DEF Kept, NothingIsForgotten, InCharge
    <2> QED
      BY <1>0, <2>1, <2>2, <2>3, <2>6 DEF Kept
  <1>2. CASE WriteStarts
    <2>1. mem # NoWrite
      BY <1>0, MarkersAssumption DEF TypeOK
    <2>2. Down' /\ Owned'
      BY <1>2, <1>0 DEF WriteStarts, Kept, Down, Owned, InCharge, TypeOK
    <2>3. Written' /\ Remembered'
      BY <1>2, <2>1 DEF WriteStarts, Kept, Written, Remembered, Loaded
    <2>4. NothingIsForgotten'
      BY <1>2, <1>0 DEF WriteStarts, Kept, NothingIsForgotten, InCharge, TypeOK
    <2> QED
      BY <1>0, <2>2, <2>3, <2>4 DEF Kept
  <1>3. CASE WriteEnds
    <2>1. up /\ writing \in [Rules -> Blob]
      BY <1>3, <1>0 DEF WriteEnds, Kept, Down, TypeOK
    <2>2. Down' /\ Owned'
      BY <1>3, <1>0, <2>1 DEF WriteEnds, Kept, Down, Owned, InCharge, TypeOK
    <2>3. Loaded(disk') = writing
      BY <1>3, <2>1, LoadedAsIs DEF WriteEnds
    <2>4. Loaded(disk)' = Loaded(disk')
      BY DEF Loaded
    <2>5. Written' /\ Remembered'
      BY <1>3, <2>1, <2>3, <2>4 DEF WriteEnds, Kept, Written, Remembered
    <2>6. NothingIsForgotten'
      BY <1>3, <1>0 DEF WriteEnds, Kept, NothingIsForgotten, InCharge, TypeOK
    <2> QED
      BY <1>0, <2>2, <2>5, <2>6 DEF Kept
  <1>4. ASSUME Ends, \A r \in Rules \ hurt' : Loaded(disk')[r] = want[r] PROVE Kept'
    <2>1. Down' /\ Owned'
      BY <1>4 DEF Ends, Down, Owned
    <2>2. Written' /\ NothingIsForgotten'
      BY <1>4 DEF Ends, Written, NothingIsForgotten, InCharge
    <2>3. Remembered'
      BY <1>4 DEF Ends, Remembered, Loaded
    <2> QED
      BY <1>0, <2>1, <2>2, <2>3 DEF Kept
  <1>5. CASE Shutdown
    <2>1. Ends /\ hurt' = hurt /\ up
      BY <1>5 DEF Shutdown, Ends
    <2>2. Loaded(disk') = mem
      <3>1. mem \in [Rules -> Blob]
        BY <1>0 DEF TypeOK
      <3>2. CASE dirty \/ writing # NoWrite
        BY <1>5, <2>1, <3>1, <3>2, LoadedAsIs DEF Shutdown, Kept, Written
      <3>3. CASE ~dirty /\ writing = NoWrite
        BY <1>5, <2>1, <3>3 DEF Shutdown, Kept, Written
      <3> QED
        BY <3>2, <3>3
    <2> QED
      BY <1>4, <2>1, <2>2 DEF Kept, Remembered
  <1>6. CASE Crash
    <2>1. Ends /\ up
      BY <1>6 DEF Crash, Ends
    <2>2. CASE dirty \/ writing # NoWrite
      <3>1. \A r \in Rules \ hurt' : disk'[r] = want[r] /\ want[r] # Corrupt
        BY <1>6, <1>0, <2>2, MarkersAssumption DEF Crash, TypeOK
      <3> QED
        BY <1>4, <2>1, <3>1 DEF Loaded
    <2>3. CASE ~dirty /\ writing = NoWrite
      <3>1. disk' = disk /\ hurt' = hurt
        BY <1>6, <2>3 DEF Crash
      <3> QED
        BY <1>4, <2>1, <2>3, <3>1 DEF Kept, Written, Remembered
    <2> QED
      BY <2>2, <2>3
  <1>7. CASE Start
    <2>1. Down' /\ Owned' /\ NothingIsForgotten'
      BY <1>7 DEF Start, Kept, Down, Owned, NothingIsForgotten, InCharge
    <2>2. Written' /\ Remembered'
      BY <1>7 DEF Start, Kept, Down, Written, Remembered, Loaded
    <2> QED
      BY <1>0, <2>1, <2>2 DEF Kept
  <1>8. ASSUME NEW r \in Rules, Damage(r) PROVE Kept'
    <2>1. Down' /\ Owned' /\ NothingIsForgotten' /\ Written'
      BY <1>8 DEF Damage, Kept, Down, Owned, NothingIsForgotten, InCharge, Written
    <2>2. Remembered'
      BY <1>8, <1>0 DEF Damage, Kept, Remembered, Loaded, TypeOK
    <2> QED
      BY <1>0, <2>1, <2>2 DEF Kept
  <1>9. CASE UNCHANGED vars
    BY <1>9, <1>0 DEF vars, Kept, Down, Owned, Written, Remembered, NothingIsForgotten,
                      InCharge, Loaded
  <1>10. ASSUME NEW r \in Rules, SetUpFails(r) PROVE Kept'
    <2>1. \A x \in Rules : ~InCharge(r) /\ (x # r => run'[x] = run[x]) /\ run'[r] = "failed"
      BY <1>10, <1>0 DEF SetUpFails, InCharge, TypeOK
    <2>2. Down' /\ Owned' /\ NothingIsForgotten'
      BY <1>10, <2>1 DEF SetUpFails, Kept, Down, Owned, InCharge, NothingIsForgotten
    <2>3. Written' /\ Remembered'
      BY <1>10 DEF SetUpFails, Kept, Written, Remembered, Loaded
    <2> QED
      BY <1>0, <2>2, <2>3 DEF Kept
  <1> QED
    BY <1>1, <1>2, <1>3, <1>5, <1>6, <1>7, <1>8, <1>9, <1>10, RuleStepKept, PanicStopKept,
       RulesAssumption DEF Next

\* A rule in charge is what its users and its enforcements left it, across reloads,
\* shutdowns and crashes, but for the events that hurt the store.
THEOREM NothingIsForgottenEver == Spec => []NothingIsForgotten
  <1>1. Kept /\ [Next]_vars => Kept'
    BY StepKept
  <1>2. Kept => NothingIsForgotten
    BY DEF Kept
  <1> QED
    BY <1>1, <1>2, InitKept, PTL DEF Spec

\* With no write owed or running, the file has what the engines in charge stand for.
THEOREM IdleFileIsCurrentAlways == Spec => []IdleFileIsCurrent
  <1>1. Kept /\ [Next]_vars => Kept'
    BY StepKept
  <1>2. Kept => IdleFileIsCurrent
    BY DEF Kept, IdleFileIsCurrent, Written, Remembered, Loaded
  <1> QED
    BY <1>1, <1>2, InitKept, PTL DEF Spec


-----------------------------------------------------------------------------
(* A cleared counter.  ClearIsDurable looks at the file only; the old count *)
(* could come back from an engine, from the memory copy or from a write     *)
(* that runs, so that the invariant follows the zero through all of them.   *)

\* Where the cleared counter of r has arrived.
ZeroOf(r) ==
    cleared[r] # "no" =>
        /\ up => mem[r].total = 0
        /\ InCharge(r) => eng[r].total = 0
        /\ cleared[r] = "waits" => up /\ dirty
        /\ cleared[r] = "writes" => writing # NoWrite
        /\ cleared[r] # "waits" /\ writing # NoWrite => writing[r].total = 0
        /\ cleared[r] = "durable" => disk[r] # Corrupt /\ disk[r].total = 0

Zero == TypeOK /\ Down /\ Owned /\ \A r \in Rules : ZeroOf(r)

\* Nobody has cleared anything initially.
LEMMA InitZero == Init => Zero
  <1> SUFFICES ASSUME Init PROVE Zero
    OBVIOUS
  <1>1. Kept
    BY InitKept
  <1> QED
    BY <1>1 DEF Init, Zero, Kept, ZeroOf

\* A persisted blob of r that keeps a cleared counter.
LEMMA OneZero ==
    ASSUME Zero, NEW r \in Rules, NEW b \in Blob, PersistOne(r, b), up,
           UNCHANGED <<up, disk, writing>>,
           cleared' = cleared \/ cleared' = [cleared EXCEPT ![r] = "no"]
                              \/ (b.total = 0 /\ cleared' = [cleared EXCEPT ![r] = "waits"]),
           cleared'[r] # "no" => b.total = 0,
           \A x \in Rules : InCharge(x)' => InCharge(x)
    PROVE  \A x \in Rules : ZeroOf(x)'
  <1> TAKE x \in Rules
  <1>1. dirty'
    BY DEF PersistOne, Persist
  <1>2. CASE x = r
    <2>1. mem'[r] = b /\ eng'[r] = b
      BY DEF PersistOne, Persist
    <2>2. cleared'[r] = cleared[r] \/ cleared'[r] \in {"no", "waits"}
      BY DEF Zero, TypeOK
    <2> QED
      BY <1>1, <1>2, <2>1, <2>2 DEF Zero, ZeroOf
  <1>3. CASE x # r
    <2>1. mem'[x] = mem[x] /\ eng'[x] = eng[x] /\ cleared'[x] = cleared[x]
      BY <1>3 DEF PersistOne, Persist, Zero, TypeOK
    <2> QED
      BY <1>1, <2>1 DEF Zero, ZeroOf
  <1> QED
    BY <1>2, <1>3

\* What users and engines do to a blob keeps its counter, or counts.
LEMMA BlobCounters ==
    /\ \A b \in Blob : /\ [b EXCEPT !.sup = TRUE].total = b.total
                       /\ [b EXCEPT !.sup = FALSE].total = b.total
                       /\ [b EXCEPT !.total = 0].total = 0
                       /\ [b EXCEPT !.enabled = ~@].total = b.total
    /\ \A b \in Blob : \A c \in Tails(b) : c.total = 1 \/ c.total = b.total
  BY DEF Blob, Tails

\* Users and the engine of one rule.
LEMMA RuleStepZero ==
    ASSUME Zero, NEW r \in Rules, UserStep(r) \/ EngineStep(r)
    PROVE  \A x \in Rules : ZeroOf(x)'
  <1>0. TypeOK /\ eng[r] \in Blob
    BY DEF Zero, TypeOK
  <1>a. InCharge(r) => up /\ (cleared[r] # "no" => eng[r].total = 0)
    BY DEF Zero, Down, InCharge, ZeroOf
  <1>1. CASE SetEnabled(r)
    <2>1. PersistOne(r, [eng[r] EXCEPT !.enabled = ~@]) /\ [eng[r] EXCEPT !.enabled = ~@] \in Blob
      BY <1>1, <1>0, BlobTypes DEF SetEnabled
    <2> QED
      BY <1>1, <1>0, <1>a, <2>1, OneZero, BlobCounters DEF SetEnabled, InCharge
  <1>2. CASE Suppress(r)
    <2>1. PersistOne(r, [eng[r] EXCEPT !.sup = TRUE]) /\ [eng[r] EXCEPT !.sup = TRUE] \in Blob
      BY <1>2, <1>0, BlobTypes DEF Suppress
    <2> QED
      BY <1>2, <1>0, <1>a, <2>1, OneZero, BlobCounters DEF Suppress, InCharge
  <1>3. CASE SuppressionEnds(r)
    <2>1. PersistOne(r, [eng[r] EXCEPT !.sup = FALSE]) /\ [eng[r] EXCEPT !.sup = FALSE] \in Blob
      BY <1>3, <1>0, BlobTypes DEF SuppressionEnds
    <2> QED
      BY <1>3, <1>0, <1>a, <2>1, OneZero, BlobCounters DEF SuppressionEnds, InCharge
  <1>4. CASE ClearHistory(r)
    <2>1. PersistOne(r, [eng[r] EXCEPT !.total = 0]) /\ [eng[r] EXCEPT !.total = 0] \in Blob
      BY <1>4, <1>0, BlobTypes DEF ClearHistory
    <2> QED
      BY <1>4, <1>0, <1>a, <2>1, OneZero, BlobCounters DEF ClearHistory, InCharge
  <1>5. CASE BeginReload(r)
    <2>1. \A x \in Rules : InCharge(x)' => InCharge(x)
      BY <1>5, <1>0 DEF BeginReload, InCharge, TypeOK
    <2> QED
      BY <1>5, <2>1 DEF BeginReload, Zero, ZeroOf
  <1>6. CASE CallStarts(r)
    BY <1>6 DEF CallStarts, Zero, ZeroOf, InCharge
  <1>7. CASE CallEnds(r)
    <2>1. PICK b \in Tails(eng[r]) :
              /\ PersistOne(r, b)
              /\ cleared' = [cleared EXCEPT ![r] = IF b.total = 1 THEN "no" ELSE @]
      BY <1>7 DEF CallEnds
    <2>2. b \in Blob /\ (b.total = 1 \/ b.total = eng[r].total)
      BY <1>0, TailTypes, BlobCounters
    <2>3. InCharge(r)
      BY <1>7 DEF CallEnds, Zero, Owned
    <2>4. cleared' = cleared \/ cleared' = [cleared EXCEPT ![r] = "no"]
      BY <2>1, <1>0 DEF TypeOK
    <2>5. cleared'[r] # "no" => b.total = 0
      BY <1>a, <1>0, <2>1, <2>2, <2>3 DEF TypeOK
    <2>6. UNCHANGED <<up, disk, writing, run>>
      BY <1>7 DEF CallEnds
    <2> QED
      BY <1>a, <2>1, <2>2, <2>3, <2>4, <2>5, <2>6, OneZero DEF InCharge
  <1>8. CASE LateTail(r)
    <2>1. late[r].blob \in Blob /\ up
      BY <1>8, <1>0 DEF LateTail, TypeOK, Zero, Down
    <2>2. PICK b \in Tails(late[r].blob) :
              /\ mem' = [mem EXCEPT ![r] = b]
              /\ cleared' = [cleared EXCEPT ![r] = IF b.total = 1 THEN "no" ELSE @]
              /\ UNCHANGED eng \/ eng' = [eng EXCEPT ![r] = b]
      BY <1>8 DEF LateTail
    <2>3. b \in Blob /\ b.total \in {0, 1}
      BY <2>1, TailTypes DEF Blob
    <2>4. dirty' /\ UNCHANGED <<up, disk, run, writing>>
      BY <1>8 DEF LateTail
    <2>5. SUFFICES ASSUME NEW x \in Rules PROVE ZeroOf(x)'
      OBVIOUS
    <2>6. CASE x = r
      <3>1. cleared'[r] # "no" => b.total = 0 /\ cleared'[r] = cleared[r]
        BY <1>0, <2>2, <2>3 DEF TypeOK
      <3>2. mem'[r] = b /\ eng'[r] \in {b, eng[r]}
        BY <1>0, <2>2 DEF TypeOK
      <3> QED
        BY <2>1, <2>4, <2>6, <3>1, <3>2 DEF Zero, ZeroOf, InCharge
    <2>7. CASE x # r
      <3>1. mem'[x] = mem[x] /\ eng'[x] = eng[x] /\ cleared'[x] = cleared[x]
        BY <1>0, <2>2, <2>7 DEF TypeOK
      <3> QED
        BY <2>4, <3>1 DEF Zero, ZeroOf, InCharge
    <2> QED
      BY <2>6, <2>7
  <1>9. CASE UnloadEngine(r)
    <2>1. PersistOne(r, eng[r])
      BY <1>9 DEF UnloadEngine
    <2>2. \A x \in Rules : InCharge(x)' => InCharge(x)
      BY <1>9, <1>0 DEF UnloadEngine, InCharge, TypeOK
    <2>3. InCharge(r)
      BY <1>9 DEF UnloadEngine, InCharge
    <2> QED
      BY <1>9, <1>0, <1>a, <2>1, <2>2, <2>3, OneZero DEF UnloadEngine
  <1> QED
    BY <1>1, <1>2, <1>3, <1>4, <1>5, <1>6, <1>7, <1>8, <1>9 DEF UserStep, EngineStep

\* A panic stop counts nothing.
LEMMA PanicStopZero ==
    ASSUME Zero, NEW broken, PanicStop(broken)
    PROVE  \A x \in Rules : ZeroOf(x)'
  <1> TAKE x \in Rules
  <1>1. up /\ dirty'
    BY DEF PanicStop, Persist, Zero, Down, InCharge
  <1>2. CASE InCharge(x)
    <2>1. eng[x] \in Blob
      BY DEF Zero, TypeOK
    <2>2. mem'[x] = [eng[x] EXCEPT !.enabled = FALSE, !.sup = @ \/ x \notin broken]
          /\ eng'[x] = mem'[x]
      BY <1>2 DEF PanicStop, Persist
    <2>3. mem'[x].total = eng[x].total
      BY <2>1, <2>2 DEF Blob
    <2> QED
      BY <1>1, <1>2, <2>2, <2>3 DEF PanicStop, Zero, ZeroOf, InCharge
  <1>3. CASE ~InCharge(x)
    <2>1. mem'[x] = mem[x] /\ eng'[x] = eng[x]
      BY <1>3 DEF PanicStop, Persist
    <2> QED
      BY <1>1, <1>3, <2>1 DEF PanicStop, Zero, ZeroOf, InCharge
  <1> QED
    BY <1>2, <1>3

\* Set-ups, the store and the process.
LEMMA StepZero ==
    ASSUME Zero, [Next]_vars
    PROVE  \A x \in Rules : ZeroOf(x)'
  <1>0. TypeOK
    BY DEF Zero
  <1>1. ASSUME NEW r \in Rules, SetUp(r) PROVE \A x \in Rules : ZeroOf(x)'
    <2> TAKE x \in Rules
    <2>1. up /\ eng'[x] = (IF x = r THEN mem[x] ELSE eng[x]) /\ (x # r => run'[x] = run[x])
      BY <1>1, <1>0 DEF SetUp, TypeOK
    <2> QED
      BY <1>1, <2>1 DEF SetUp, Zero, ZeroOf, InCharge
  <1>2. CASE WriteStarts
    <2> TAKE x \in Rules
    <2>1. cleared'[x] = IF cleared[x] = "waits" THEN "writes" ELSE cleared[x]
      BY <1>2 DEF WriteStarts
    <2>2. InCharge(x)' => InCharge(x)
      BY <1>2, <1>0 DEF WriteStarts, InCharge, TypeOK
    <2>3. mem # NoWrite
      BY <1>0, MarkersAssumption DEF TypeOK
    <2> QED
      BY <1>2, <2>1, <2>2, <2>3 DEF WriteStarts, Zero, ZeroOf
  <1>3. CASE WriteEnds
    <2> TAKE x \in Rules
    <2>1. cleared'[x] = IF cleared[x] = "writes" THEN "durable" ELSE cleared[x]
      BY <1>3 DEF WriteEnds
    <2>2. InCharge(x)' => InCharge(x)
      BY <1>3, <1>0 DEF WriteEnds, InCharge, TypeOK
    <2>3. writing[x] # Corrupt
      BY <1>3, <1>0, MarkersAssumption DEF WriteEnds, TypeOK
    <2> QED
      BY <1>3, <2>1, <2>2, <2>3 DEF WriteEnds, Zero, ZeroOf
  <1>4. ASSUME Ends, NEW x \in Rules, cleared'[x] \in {"no", "durable"},
               cleared'[x] = "durable" => disk'[x] # Corrupt /\ disk'[x].total = 0
        PROVE  ZeroOf(x)'
    BY <1>4 DEF Ends, ZeroOf, InCharge
  <1>5. CASE Shutdown
    <2> TAKE x \in Rules
    <2>1. Ends /\ up
      BY <1>5 DEF Shutdown, Ends
    <2>2. cleared'[x] = (IF cleared[x] = "no" THEN "no" ELSE "durable")
      BY <1>5, <1>0 DEF Shutdown, TypeOK
    <2>3. mem[x] # Corrupt /\ (writing # NoWrite => writing[x] # Corrupt)
      BY <1>0, MarkersAssumption DEF TypeOK
    <2>4. cleared[x] # "no" => disk'[x] # Corrupt /\ disk'[x].total = 0
      <3> SUFFICES ASSUME cleared[x] # "no" PROVE disk'[x] # Corrupt /\ disk'[x].total = 0
        OBVIOUS
      <3>1. ZeroOf(x) /\ cleared[x] \in {"waits", "writes", "durable"}
        BY <1>0 DEF Zero, TypeOK
      <3>2. CASE dirty
        BY <1>5, <2>1, <2>3, <3>1, <3>2 DEF Shutdown, ZeroOf
      <3>3. CASE ~dirty /\ writing # NoWrite
        BY <1>5, <2>1, <2>3, <3>1, <3>3 DEF Shutdown, ZeroOf
      <3>4. CASE ~dirty /\ writing = NoWrite
        BY <1>5, <2>1, <3>1, <3>4 DEF Shutdown, ZeroOf
      <3> QED
        BY <3>2, <3>3, <3>4
    <2> QED
      BY <1>4, <2>1, <2>2, <2>4
  <1>6. CASE Crash
    <2> TAKE x \in Rules
    <2>1. Ends
      BY <1>6 DEF Crash
    <2>2. cleared'[x] = (IF cleared[x] = "durable" THEN "durable" ELSE "no")
      BY <1>6, <1>0 DEF Crash, TypeOK
    <2>3. writing # NoWrite => writing[x] # Corrupt
      BY <1>0, MarkersAssumption DEF TypeOK
    <2>4. cleared[x] = "durable" => disk'[x] # Corrupt /\ disk'[x].total = 0
      BY <1>6, <2>3 DEF Crash, Zero, ZeroOf
    <2> QED
      BY <1>4, <2>1, <2>2, <2>4
  <1>7. CASE Start
    <2> TAKE x \in Rules
    <2>1. mem'[x] = IF disk[x] = Corrupt THEN Default ELSE disk[x]
      BY <1>7 DEF Start, Loaded
    <2>2. writing = NoWrite /\ cleared[x] \in {"no", "durable"}
      BY <1>7, <1>0 DEF Start, Zero, Down, ZeroOf, TypeOK
    <2> QED
      BY <1>7, <2>1, <2>2 DEF Start, Zero, ZeroOf, InCharge
  <1>8. ASSUME NEW r \in Rules, Damage(r) PROVE \A x \in Rules : ZeroOf(x)'
    <2> TAKE x \in Rules
    <2>1. cleared'[x] = (IF x = r THEN "no" ELSE cleared[x]) /\ (x # r => disk'[x] = disk[x])
      BY <1>8, <1>0 DEF Damage, TypeOK
    <2> QED
      BY <1>8, <2>1 DEF Damage, Zero, ZeroOf, InCharge
  <1>9. CASE UNCHANGED vars
    BY <1>9 DEF vars, Zero, ZeroOf, InCharge
  <1>10. ASSUME NEW r \in Rules, SetUpFails(r) PROVE \A x \in Rules : ZeroOf(x)'
    <2> TAKE x \in Rules
    <2>1. InCharge(x)' => InCharge(x)
      BY <1>10, <1>0 DEF SetUpFails, InCharge, TypeOK
    <2> QED
      BY <1>10, <2>1 DEF SetUpFails, Zero, ZeroOf
  <1> QED
    BY <1>1, <1>2, <1>3, <1>5, <1>6, <1>7, <1>8, <1>9, <1>10, RuleStepZero, PanicStopZero,
       RulesAssumption DEF Next

\* Once clear_history has returned, no crash, reload or late write brings the old
\* counters back.
THEOREM ClearIsDurableAlways == Spec => []ClearIsDurable
  <1> DEFINE Inv == Kept /\ Zero
  <1>1. Init => Inv
    BY InitKept, InitZero
  <1>2. Inv /\ [Next]_vars => Inv'
    BY StepKept, StepZero DEF Zero, Kept
  <1>3. Inv => ClearIsDurable
    BY DEF Zero, ZeroOf, ClearIsDurable
  <1> QED
    BY <1>1, <1>2, <1>3, PTL DEF Spec

=============================================================================
