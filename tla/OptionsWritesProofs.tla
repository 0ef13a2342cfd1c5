------------------------ MODULE OptionsWritesProofs ------------------------
(***************************************************************************)
(* What the writers of one entry's options guarantee, for any sets of      *)
(* keys, any pages of the dialog and any values.                           *)
(***************************************************************************)
EXTENDS OptionsWrites, TLAPS

-----------------------------------------------------------------------------
(* Dictionaries.                                                           *)

\* {**f, **g} of two dictionaries.
LEMMA OverDict ==
    ASSUME NEW K \in {Keys, Sliders}, NEW f \in Dict(K), NEW g \in Dict(K)
    PROVE  /\ Over(f, g) \in Dict(K)
           /\ DOMAIN Over(f, g) = DOMAIN f \cup DOMAIN g
           /\ \A k \in DOMAIN g : Over(f, g)[k] = g[k]
           /\ \A k \in DOMAIN f \ DOMAIN g : Over(f, g)[k] = f[k]
  <1>1. /\ DOMAIN f \subseteq K /\ \A k \in DOMAIN f : f[k] \in Values
        /\ DOMAIN g \subseteq K /\ \A k \in DOMAIN g : g[k] \in Values
    BY DEF Dict
  <1>2. /\ DOMAIN Over(f, g) = DOMAIN f \cup DOMAIN g
        /\ \A k \in DOMAIN f \cup DOMAIN g :
               Over(f, g)[k] = IF k \in DOMAIN g THEN g[k] ELSE f[k]
        /\ Over(f, g) \in [DOMAIN f \cup DOMAIN g -> Values]
    BY <1>1 DEF Over
  <1> QED
    BY <1>1, <1>2 DEF Dict

\* A dictionary laid over a complete one.
LEMMA OverTotal ==
    ASSUME NEW f \in [Keys -> Values], NEW g \in Dict(Keys)
    PROVE  /\ Over(f, g) \in [Keys -> Values]
           /\ \A k \in Keys : Over(f, g)[k] = IF k \in DOMAIN g THEN g[k] ELSE f[k]
  <1>1. DOMAIN g \subseteq Keys /\ \A k \in DOMAIN g : g[k] \in Values
    BY DEF Dict
  <1>2. DOMAIN f \cup DOMAIN g = Keys
    BY <1>1
  <1> QED
    BY <1>1, <1>2 DEF Over

\* The dictionaries that the writers build.
LEMMA SmallDicts ==
    /\ Empty \in Dict(Keys) /\ Empty \in Dict(Sliders) /\ DOMAIN Empty = {}
    /\ Dict(Sliders) \subseteq Dict(Keys)
    /\ [Keys -> Values] \subseteq Dict(Keys)
    /\ \A k, v : v \in Values => /\ \A K : k \in K => [x \in {k} |-> v] \in Dict(K)
                                 /\ DOMAIN [x \in {k} |-> v] = {k}
                                 /\ [x \in {k} |-> v][k] = v
  <1>1. Empty \in Dict(Keys) /\ Empty \in Dict(Sliders) /\ DOMAIN Empty = {}
    BY DEF Empty, Dict
  <1>2. Dict(Sliders) \subseteq Dict(Keys)
    BY DEF Dict, Keys
  <1>3. [Keys -> Values] \subseteq Dict(Keys)
    BY DEF Dict
  <1>4. ASSUME NEW k, NEW v \in Values
        PROVE  /\ \A K : k \in K => [x \in {k} |-> v] \in Dict(K)
               /\ DOMAIN [x \in {k} |-> v] = {k}
               /\ [x \in {k} |-> v][k] = v
    <2>1. \A K : k \in K => [x \in {k} |-> v] \in Dict(K)
      <3> TAKE K
      <3> HAVE k \in K
      <3>1. [x \in {k} |-> v] \in [{k} -> Values] /\ {k} \in SUBSET K
        OBVIOUS
      <3> QED
        BY <3>1 DEF Dict
    <2> QED
      BY <2>1
  <1> QED
    BY <1>1, <1>2, <1>3, <1>4

\* What the entry holds for a key.
LEMMA MergedTotal ==
    ASSUME NEW o \in Dict(Keys)
    PROVE  /\ Merged(o) \in [Keys -> Values]
           /\ \A k \in Keys : Merged(o)[k] = IF k \in DOMAIN o THEN o[k] ELSE Initial
  <1>1. [k \in Keys |-> Initial] \in [Keys -> Values]
    BY ValuesAssumption
  <1> QED
    BY <1>1, OverTotal DEF Merged

\* What the entry comes to for a key, under a queue q.
LEMMA EffectiveIs ==
    ASSUME NEW o \in Dict(Keys), NEW q \in Dict(Sliders)
    PROVE  /\ Over(Merged(o), q) \in [Keys -> Values]
           /\ DOMAIN q \subseteq Sliders
           /\ \A k \in Keys : Over(Merged(o), q)[k] = IF k \in DOMAIN q THEN q[k]
                                                     ELSE Merged(o)[k]
  <1>1. q \in Dict(Keys) /\ Merged(o) \in [Keys -> Values]
    BY SmallDicts, MergedTotal
  <1>2. DOMAIN q \subseteq Sliders
    BY DEF Dict
  <1> QED
    BY <1>1, <1>2, OverTotal

-----------------------------------------------------------------------------
(* The invariant.                                                          *)

\* Nothing waits to be written while no slider exists.
Parked == phase \in {"down", "failed"} => queue = Empty

\* An engine that was set up and waits for no reload runs what the entry comes to.
Live == phase = "starting" \/ (phase = "running" /\ ~reload)
            => \A k \in Keys \ missed : live[k] = Effective[k]

\* The snapshot of the dialog is old for the keys written since only.
Fresh == dialog # NoDialog
            => \A k \in Keys \ dialog.touched : dialog.working[k] = Merged(options)[k]

IInv == TypeOK /\ Parked /\ Live /\ Fresh /\ LastChoiceWins

\* The invariant holds initially.
LEMMA InitIInv == Init => IInv
  <1> SUFFICES ASSUME Init PROVE IInv
    OBVIOUS
  <1>1. /\ Empty \in Dict(Keys) /\ Empty \in Dict(Sliders) /\ DOMAIN Empty = {}
        /\ Merged(Empty) \in [Keys -> Values]
    BY SmallDicts, MergedTotal
  <1>2. \A k \in Keys : Effective[k] = Merged(Empty)[k]
    BY <1>1, EffectiveIs DEF Init, Effective
  <1>3. TypeOK
    BY <1>1 DEF Init, TypeOK
  <1> QED
    BY <1>2, <1>3 DEF Init, IInv, Parked, Live, Fresh, LastChoiceWins

-----------------------------------------------------------------------------
(* The update of the entry.                                                *)

\* The keys of which an update changes the value
Changed(o) == {k \in Keys : Merged(o)[k] # Merged(options)[k]}

\* async_update_entry with its listener.
LEMMA Updates ==
    ASSUME TypeOK, Fresh, NEW o \in Dict(Keys), NEW marked \in BOOLEAN,
           UpdateEntry(o, marked)
    PROVE  /\ options' = o
           /\ mark' \in BOOLEAN /\ reload' \in BOOLEAN /\ missed' \subseteq Keys
           /\ missed \subseteq missed'
           /\ dialog' \in [working : [Keys -> Values], touched : SUBSET Keys] \cup {NoDialog}
           /\ Fresh'
           /\ ~marked /\ phase = "starting" => Changed(o) \subseteq missed'
           /\ ~marked /\ phase = "running" /\ ~reload' => Changed(o) \subseteq missed'
           /\ reload => reload'
           /\ mark' /\ ~mark => ~HasListener
  <1>1. /\ options' = o
        /\ mark' = IF o = options THEN mark ELSE (marked \/ mark) /\ ~HasListener
        /\ reload' = (reload \/ (o # options /\ HasListener /\ ~marked /\ ~mark))
        /\ missed' = IF o # options /\ ~marked /\ (phase = "starting" \/ (HasListener /\ mark))
                     THEN missed \cup Changed(o) ELSE missed
        /\ dialog' = IF dialog = NoDialog THEN dialog
                     ELSE [dialog EXCEPT !.touched = @ \cup Changed(o)]
    BY DEF UpdateEntry, Changed
  <1>2. /\ Changed(o) \subseteq Keys
        /\ o = options => Changed(o) = {}
        /\ mark \in BOOLEAN /\ reload \in BOOLEAN
    BY DEF Changed, TypeOK
  <1>3. mark' \in BOOLEAN /\ (mark' /\ ~mark => ~HasListener)
    BY <1>1, <1>2 DEF HasListener
  <1>4. reload' \in BOOLEAN /\ (reload => reload')
    BY <1>1, <1>2 DEF HasListener
  <1>5. missed' \subseteq Keys /\ missed \subseteq missed'
    BY <1>1, <1>2 DEF TypeOK
  <1>6. ~marked /\ phase = "starting" => Changed(o) \subseteq missed'
    BY <1>1, <1>2
  <1>7. ~marked /\ phase = "running" /\ ~reload' => Changed(o) \subseteq missed'
    BY <1>1, <1>2 DEF HasListener
  <1>8. CASE dialog = NoDialog
    BY <1>1, <1>3, <1>4, <1>5, <1>6, <1>7, <1>8 DEF Fresh
  <1>9. CASE dialog # NoDialog
    <2>1. /\ dialog \in [working : [Keys -> Values], touched : SUBSET Keys]
          /\ dialog' = [dialog EXCEPT !.touched = @ \cup Changed(o)]
      BY <1>1, <1>9 DEF TypeOK
    <2>2. /\ dialog' \in [working : [Keys -> Values], touched : SUBSET Keys]
          /\ dialog'.working = dialog.working
          /\ dialog'.touched = dialog.touched \cup Changed(o)
      BY <1>2, <2>1
    <2>3. Fresh'
      BY <1>1, <1>9, <2>2 DEF Fresh, Changed
    <2> QED
      BY <1>1, <1>3, <1>4, <1>5, <1>6, <1>7, <2>2, <2>3
  <1> QED
    BY <1>8, <1>9

-----------------------------------------------------------------------------
(* The steps.                                                              *)

\* What the writers of single keys need of the state.
LEMMA Here ==
    ASSUME IInv
    PROVE  /\ options \in Dict(Keys) /\ queue \in Dict(Sliders)
           /\ live \in [Keys -> Values] /\ wish \in [Keys -> Values]
           /\ DOMAIN queue \subseteq Sliders /\ DOMAIN options \subseteq Keys
           /\ \A k \in Keys : Effective[k] = IF k \in DOMAIN queue THEN queue[k]
                                             ELSE Merged(options)[k]
           /\ Merged(options) \in [Keys -> Values]
           /\ \A k \in Keys : Merged(options)[k] = IF k \in DOMAIN options THEN options[k]
                                                   ELSE Initial
           /\ missed \subseteq Keys /\ lost \subseteq Keys
  <1>1. options \in Dict(Keys) /\ queue \in Dict(Sliders) /\ DOMAIN options \subseteq Keys
    BY DEF IInv, TypeOK, Dict
  <1> QED
    BY <1>1, EffectiveIs, MergedTotal DEF IInv, TypeOK, Effective

\* A slider is moved: live and queue take the value, the entry comes to it.
LEMMA MoveSliderIInv ==
    ASSUME IInv, NEW k \in Sliders, NEW v \in Values, MoveSlider(k, v)
    PROVE  IInv'
  <1> DEFINE one == [x \in {k} |-> v]
  <1>1. /\ phase \notin {"down", "failed"} /\ live' = [live EXCEPT ![k] = v] /\ queue' = Over(queue, one)
        /\ wish' = [wish EXCEPT ![k] = v] /\ lost' = lost \ {k} /\ missed' = missed \ {k}
        /\ options' = options /\ mark' = mark /\ phase' = phase /\ reload' = reload
        /\ dialog' = dialog
    BY DEF MoveSlider, EntitiesUp, Chosen
  <1>2. one \in Dict(Sliders) /\ DOMAIN one = {k} /\ one[k] = v
    BY SmallDicts
  <1> HIDE DEF one
  <1>3. /\ queue' \in Dict(Sliders)
        /\ DOMAIN queue' = DOMAIN queue \cup {k}
        /\ queue'[k] = v
        /\ \A x \in DOMAIN queue \ {k} : queue'[x] = queue[x]
    <2>1. queue \in Dict(Sliders)
      BY Here
    <2>2. /\ Over(queue, one) \in Dict(Sliders)
          /\ DOMAIN Over(queue, one) = DOMAIN queue \cup DOMAIN one
          /\ \A x \in DOMAIN one : Over(queue, one)[x] = one[x]
          /\ \A x \in DOMAIN queue \ DOMAIN one : Over(queue, one)[x] = queue[x]
      BY <1>2, <2>1, OverDict
    <2> QED
      BY <1>1, <1>2, <2>2
  <1>4. /\ Effective' \in [Keys -> Values]
        /\ \A x \in Keys : Effective'[x] = IF x = k THEN v ELSE Effective[x]
    <2>1. \A x \in Keys : Effective'[x] = IF x \in DOMAIN queue' THEN queue'[x]
                                         ELSE Merged(options')[x]
      BY <1>1, <1>3, Here, EffectiveIs DEF Effective
    <2>2. Effective' \in [Keys -> Values]
      BY <1>1, <1>3, Here, EffectiveIs DEF Effective
    <2> QED
      BY <1>1, <1>3, <2>1, <2>2, Here
  <1>5. k \in Keys
    BY DEF Keys
  <1>6. TypeOK'
    BY <1>1, <1>3, <1>5, Here DEF IInv, TypeOK
  <1>7. Parked' /\ Fresh'
    BY <1>1 DEF IInv, Parked, Fresh
  <1>8. Live'
    BY <1>1, <1>4, Here DEF IInv, Live
  <1>9. LastChoiceWins'
    BY <1>1, <1>4, <1>5, Here DEF IInv, LastChoiceWins
  <1> QED
    BY <1>6, <1>7, <1>8, <1>9 DEF IInv

\* The queue is written: the entry comes to the same.
LEMMA FlushKeeps ==
    ASSUME IInv, FlushPending
    PROVE  /\ options' \in Dict(Keys) /\ queue' = Empty
           /\ \A k \in Keys : Effective'[k] = Effective[k]
           /\ mark' \in BOOLEAN /\ reload' \in BOOLEAN /\ missed' \subseteq Keys
           /\ missed \subseteq missed' /\ (reload => reload')
           /\ dialog' \in [working : [Keys -> Values], touched : SUBSET Keys] \cup {NoDialog}
           /\ Fresh'
           /\ mark' /\ ~mark => ~HasListener
  <1> DEFINE o == Over(options, queue)
  <1>1. queue' = Empty /\ UpdateEntry(o, TRUE)
    BY DEF FlushPending
  <1>2. /\ o \in Dict(Keys)
        /\ DOMAIN o = DOMAIN options \cup DOMAIN queue
        /\ \A k \in DOMAIN queue : o[k] = queue[k]
        /\ \A k \in DOMAIN options \ DOMAIN queue : o[k] = options[k]
    <2>1. options \in Dict(Keys) /\ queue \in Dict(Keys)
      BY Here, SmallDicts
    <2> QED
      BY <2>1, OverDict
  <1> HIDE DEF o
  <1>3. options' = o
    BY <1>1 DEF UpdateEntry
  <1>4. \A k \in Keys : Effective'[k] = Effective[k]
    <2>1. \A k \in Keys : Effective'[k] = Merged(o)[k]
      BY <1>1, <1>2, <1>3, EffectiveIs, SmallDicts DEF Effective
    <2> QED
      BY <1>2, <2>1, Here, MergedTotal
  <1> QED
    BY <1>1, <1>2, <1>3, <1>4, Updates DEF IInv

\* Both occasions of a flush.
LEMMA FlushIInv ==
    ASSUME IInv, TimerFires \/ Unloaded
    PROVE  IInv'
  <1>1. /\ FlushPending /\ live' = live /\ wish' = wish /\ lost' = lost
        /\ phase' = phase \/ phase' = "down"
    BY DEF TimerFires, Unloaded
  <1>2. TypeOK'
    BY <1>1, FlushKeeps, SmallDicts DEF IInv, TypeOK
  <1>3. Parked' /\ Fresh'
    BY <1>1, FlushKeeps DEF Parked
  <1>4. Live'
    BY <1>1, FlushKeeps DEF IInv, TypeOK, Live
  <1>5. LastChoiceWins'
    BY <1>1, FlushKeeps DEF IInv, LastChoiceWins
  <1> QED
    BY <1>2, <1>3, <1>4, <1>5 DEF IInv

\* A switch writes its key.
LEMMA WritesKey ==
    ASSUME IInv, NEW k \in Toggles \cup Restarts, NEW v \in Values, NEW marked \in BOOLEAN,
           UpdateEntry(Over(options, [x \in {k} |-> v]), marked), queue' = queue
    PROVE  /\ options' \in Dict(Keys)
           /\ \A x \in Keys : Effective'[x] = IF x = k THEN v ELSE Effective[x]
           /\ \A x \in Keys \ Changed(options') : Effective'[x] = Effective[x]
           /\ k \in Keys
           /\ UpdateEntry(options', marked)
  <1> DEFINE one == [x \in {k} |-> v]
             o   == Over(options, one)
  <1>1. k \in Keys /\ k \notin DOMAIN queue
    BY Here, SlidersAssumption DEF Keys
  <1>2. one \in Dict(Keys) /\ DOMAIN one = {k} /\ one[k] = v
    BY <1>1, SmallDicts
  <1> HIDE DEF one
  <1>3. /\ o \in Dict(Keys) /\ DOMAIN o = DOMAIN options \cup {k} /\ o[k] = v
        /\ \A x \in DOMAIN options \ {k} : o[x] = options[x]
    <2>1. options \in Dict(Keys)
      BY Here
    <2>2. /\ o \in Dict(Keys) /\ DOMAIN o = DOMAIN options \cup DOMAIN one
          /\ \A x \in DOMAIN one : o[x] = one[x]
          /\ \A x \in DOMAIN options \ DOMAIN one : o[x] = options[x]
      BY <1>2, <2>1, OverDict
    <2> QED
      BY <1>2, <2>2
  <1>4. options' = o
    BY DEF UpdateEntry, one
  <1> HIDE DEF o
  <1>5. \A x \in Keys : Effective'[x] = IF x \in DOMAIN queue THEN queue[x] ELSE Merged(o)[x]
    BY <1>3, <1>4, Here, EffectiveIs DEF Effective
  <1>6. \A x \in Keys : Merged(o)[x] = IF x = k THEN v ELSE Merged(options)[x]
    BY <1>3, Here, MergedTotal
  <1>7. \A x \in Keys : Effective'[x] = IF x = k THEN v ELSE Effective[x]
    BY <1>1, <1>5, <1>6, Here
  <1>8. \A x \in Keys \ Changed(o) : Effective'[x] = Effective[x]
    BY <1>5, Here DEF Changed
  <1>9. UpdateEntry(o, marked)
    BY DEF o, one
  <1> QED
    BY <1>1, <1>3, <1>4, <1>7, <1>8, <1>9

\* The debounce switch, which is live at once.
LEMMA ToggleIInv ==
    ASSUME IInv, NEW k \in Toggles, NEW v \in Values, Toggle(k, v)
    PROVE  IInv'
  <1>1. /\ phase \notin {"down", "failed"} /\ live' = [live EXCEPT ![k] = v] /\ queue' = queue
        /\ wish' = [wish EXCEPT ![k] = v] /\ lost' = lost \ {k} /\ phase' = phase
        /\ UpdateEntry(Over(options, [x \in {k} |-> v]), TRUE)
    BY DEF Toggle, EntitiesUp, Chosen
  <1>2. /\ options' \in Dict(Keys) /\ k \in Keys /\ UpdateEntry(options', TRUE)
        /\ \A x \in Keys : Effective'[x] = IF x = k THEN v ELSE Effective[x]
    BY <1>1, WritesKey
  <1>3. /\ mark' \in BOOLEAN /\ reload' \in BOOLEAN /\ missed' \subseteq Keys
        /\ missed \subseteq missed' /\ Fresh' /\ (reload => reload')
        /\ dialog' \in [working : [Keys -> Values], touched : SUBSET Keys] \cup {NoDialog}
    BY <1>2, Updates DEF IInv
  <1>4. TypeOK'
    BY <1>1, <1>2, <1>3, Here DEF IInv, TypeOK
  <1>5. Parked'
    BY <1>1 DEF Parked
  <1>6. Live'
    BY <1>1, <1>2, <1>3, Here DEF IInv, Live
  <1>7. LastChoiceWins'
    BY <1>1, <1>2, Here DEF IInv, LastChoiceWins
  <1> QED
    BY <1>3, <1>4, <1>5, <1>6, <1>7 DEF IInv

\* The verify switch, which is live by a reload.
LEMMA ToggleRestartIInv ==
    ASSUME IInv, NEW k \in Restarts, NEW v \in Values, ToggleRestart(k, v)
    PROVE  IInv'
  <1>1. /\ phase \notin {"down", "failed"} /\ live' = live /\ queue' = queue
        /\ wish' = [wish EXCEPT ![k] = v] /\ lost' = lost \ {k} /\ phase' = phase
        /\ UpdateEntry(Over(options, [x \in {k} |-> v]), FALSE)
    BY DEF ToggleRestart, EntitiesUp, Chosen
  <1>2. /\ options' \in Dict(Keys) /\ k \in Keys /\ UpdateEntry(options', FALSE)
        /\ \A x \in Keys : Effective'[x] = IF x = k THEN v ELSE Effective[x]
        /\ \A x \in Keys \ Changed(options') : Effective'[x] = Effective[x]
    BY <1>1, WritesKey
  <1>3. /\ mark' \in BOOLEAN /\ reload' \in BOOLEAN /\ missed' \subseteq Keys
        /\ missed \subseteq missed' /\ Fresh' /\ (reload => reload')
        /\ dialog' \in [working : [Keys -> Values], touched : SUBSET Keys] \cup {NoDialog}
        /\ phase = "starting" => Changed(options') \subseteq missed'
        /\ phase = "running" /\ ~reload' => Changed(options') \subseteq missed'
    BY <1>2, Updates DEF IInv
  <1>4. TypeOK'
    BY <1>1, <1>2, <1>3, Here DEF IInv, TypeOK
  <1>5. Parked'
    BY <1>1 DEF Parked
  <1>6. Live'
    BY <1>1, <1>2, <1>3 DEF IInv, Live
  <1>7. LastChoiceWins'
    BY <1>1, <1>2, Here DEF IInv, LastChoiceWins
  <1> QED
    BY <1>3, <1>4, <1>5, <1>6, <1>7 DEF IInv

\* A page of the dialog is saved, with the whole working copy.
LEMMA SaveDialogIInv ==
    ASSUME IInv, NEW page \in Pages, NEW input \in [page -> Values], SaveDialog(page, input)
    PROVE  IInv'
  <1> DEFINE working == Over(dialog.working, input)
             edited  == {k \in page : input[k] # dialog.working[k]}
             typed   == [k \in edited |-> input[k]]
  <1>1. /\ dialog # NoDialog /\ options' = working /\ dialog' = NoDialog
        /\ mark' = IF working = options THEN mark ELSE mark /\ ~HasListener
        /\ reload' = (reload \/ (working # options /\ HasListener /\ ~mark))
        /\ missed' = IF working # options /\ (phase = "starting" \/ (HasListener /\ mark))
                     THEN missed \cup {k \in Keys : working[k] # Merged(options)[k]}
                     ELSE missed
        /\ wish' = Over(wish, typed)
        /\ lost' = (lost \ edited) \cup (dialog.touched \ (edited \cup DOMAIN queue))
                                   \cup (edited \cap DOMAIN queue)
        /\ live' = live /\ queue' = queue /\ phase' = phase
    BY DEF SaveDialog
  <1>2. /\ page \subseteq Keys /\ dialog.working \in [Keys -> Values]
        /\ dialog.touched \subseteq Keys
    BY <1>1, PagesAssumption DEF IInv, TypeOK
  <1>3. input \in Dict(Keys) /\ DOMAIN input = page
    BY <1>2 DEF Dict
  <1>4. /\ working \in [Keys -> Values]
        /\ \A k \in Keys : working[k] = IF k \in page THEN input[k] ELSE dialog.working[k]
    BY <1>2, <1>3, OverTotal
  <1>5. edited \subseteq page
    OBVIOUS
  <1>6. typed \in Dict(Keys) /\ DOMAIN typed = edited /\ \A k \in edited : typed[k] = input[k]
    <2>1. \A k \in edited : input[k] \in Values
      BY <1>5
    <2>2. DOMAIN typed = edited /\ \A k \in edited : typed[k] = input[k]
      OBVIOUS
    <2> HIDE DEF edited
    <2>3. typed \in [edited -> Values] /\ edited \in SUBSET Keys
      BY <1>2, <1>5, <2>1
    <2> HIDE DEF typed
    <2> QED
      BY <2>2, <2>3 DEF Dict
  <1>7. \A k \in Keys \ edited : working[k] = dialog.working[k]
    BY <1>4
  <1>8. \A k \in edited : working[k] = input[k]
    BY <1>2, <1>4
  <1> HIDE DEF working, edited, typed
  <1>9. /\ wish' \in [Keys -> Values]
        /\ \A k \in Keys : wish'[k] = IF k \in edited THEN input[k] ELSE wish[k]
    <2>1. wish \in [Keys -> Values]
      BY Here
    <2>2. /\ Over(wish, typed) \in [Keys -> Values]
          /\ \A k \in Keys : Over(wish, typed)[k] = IF k \in DOMAIN typed THEN typed[k] ELSE wish[k]
      BY <1>6, <2>1, OverTotal
    <2> QED
      BY <1>1, <1>6, <2>2
  <1>10. /\ options' \in Dict(Keys)
         /\ \A k \in Keys : Merged(options')[k] = working[k]
    <2>1. working \in Dict(Keys) /\ DOMAIN working = Keys
      BY <1>4, SmallDicts
    <2> QED
      BY <1>1, <2>1, MergedTotal
  <1>11. \A k \in Keys : Effective'[k] = IF k \in DOMAIN queue THEN queue[k] ELSE working[k]
    BY <1>1, <1>10, Here, EffectiveIs DEF Effective
  <1>12. TypeOK'
    <2>1. mark' \in BOOLEAN /\ reload' \in BOOLEAN
      BY <1>1 DEF IInv, TypeOK, HasListener
    <2>2. missed' \subseteq Keys /\ lost' \subseteq Keys
      BY <1>1, <1>2, <1>5, Here
    <2> QED
      BY <1>1, <1>9, <1>10, <2>1, <2>2 DEF IInv, TypeOK
  <1>13. Parked' /\ Fresh'
    BY <1>1 DEF IInv, Parked, Fresh
  <1>14. Live'
    <2> SUFFICES ASSUME phase = "starting" \/ (phase = "running" /\ ~reload'),
                        NEW k \in Keys \ missed'
                 PROVE  live[k] = Effective'[k]
      BY <1>1 DEF Live
    <2>1. k \notin missed /\ live[k] = Effective[k]
      BY <1>1 DEF IInv, Live, TypeOK
    <2>2. k \in DOMAIN queue \/ working[k] = Merged(options)[k]
      <3>1. CASE working = options
        BY <1>4, <3>1, Here
      <3>2. CASE working # options
        BY <1>1, <3>2 DEF HasListener
      <3> QED
        BY <3>1, <3>2
    <2> QED
      BY <1>11, <2>1, <2>2, Here
  <1>15. LastChoiceWins'
    <2> SUFFICES ASSUME NEW k \in Keys \ lost' PROVE Effective'[k] = wish'[k]
      BY DEF LastChoiceWins
    <2>1. CASE k \in edited
      BY <1>1, <1>8, <1>9, <1>11, <2>1
    <2>2. CASE k \notin edited
      <3>1. Effective[k] = wish[k] /\ wish'[k] = wish[k]
        BY <1>1, <1>9, <2>2 DEF IInv, LastChoiceWins
      <3>2. k \in DOMAIN queue \/ working[k] = Merged(options)[k]
        BY <1>1, <1>7, <2>2 DEF IInv, Fresh
      <3> QED
        BY <1>11, <3>1, <3>2, Here
    <2> QED
      BY <2>1, <2>2
  <1> QED
    BY <1>12, <1>13, <1>14, <1>15 DEF IInv

\* A reload and the opening of the dialog.
LEMMA ReloadIInv ==
    ASSUME IInv, OpenDialog \/ Unload \/ SetUp \/ SetUpFails \/ AddListener
    PROVE  IInv'
  <1>1. options' = options /\ queue' = queue /\ wish' = wish /\ lost' = lost /\ mark' = mark
    BY DEF OpenDialog, Unload, SetUp, SetUpFails, AddListener
  <1>2. Effective' = Effective /\ LastChoiceWins'
    BY <1>1 DEF Effective, IInv, LastChoiceWins
  <1>3. CASE OpenDialog
    <2>1. dialog'.working = Merged(options) /\ dialog'.touched = {}
      BY <1>3 DEF OpenDialog
    <2>2. dialog' \in [working : [Keys -> Values], touched : SUBSET Keys]
      BY <1>3, Here DEF OpenDialog
    <2>3. TypeOK'
      BY <1>1, <1>3, <2>2 DEF OpenDialog, IInv, TypeOK
    <2>4. Fresh'
      BY <1>1, <2>1 DEF Fresh
    <2> QED
      BY <1>1, <1>2, <1>3, <2>3, <2>4 DEF OpenDialog, IInv, Parked, Live
  <1>4. CASE Unload
    BY <1>1, <1>2, <1>4 DEF Unload, IInv, TypeOK, Parked, Live, Fresh
  <1>5. CASE SetUp
    <2>1. \A k \in Keys : Effective[k] = Merged(options)[k]
      BY <1>5, Here, SmallDicts DEF SetUp, IInv, Parked
    <2>2. TypeOK'
      BY <1>1, <1>5, Here DEF SetUp, IInv, TypeOK
    <2> QED
      BY <1>1, <1>2, <1>5, <2>1, <2>2 DEF SetUp, IInv, Parked, Live, Fresh
  <1>6. CASE AddListener
    BY <1>1, <1>2, <1>6 DEF AddListener, IInv, TypeOK, Parked, Live, Fresh
  <1>7. CASE SetUpFails
    BY <1>1, <1>2, <1>7 DEF SetUpFails, IInv, TypeOK, Parked, Live, Fresh
  <1> QED
    BY <1>3, <1>4, <1>5, <1>6, <1>7

\* Every step keeps the invariant.
LEMMA StepIInv == IInv /\ [Next]_vars => IInv'
  <1> SUFFICES ASSUME IInv, [Next]_vars PROVE IInv'
    OBVIOUS
  <1>1. CASE UNCHANGED vars
    BY <1>1 DEF vars, IInv, TypeOK, Parked, Live, Fresh, LastChoiceWins, Effective
  <1> QED
    BY <1>1, MoveSliderIInv, FlushIInv, ToggleIInv, ToggleRestartIInv, SaveDialogIInv,
       ReloadIInv DEF Next

\* A mark appears in the set-up window only.
LEMMA MarkAppears ==
    ASSUME IInv, [Next]_vars, mark', ~mark
    PROVE  phase = "starting"
  <1>1. phase \in {"starting", "running", "unloading", "down", "failed"}
    BY DEF IInv, TypeOK
  <1>2. CASE TimerFires \/ Unloaded
    <2>1. FlushPending /\ (queue # Empty \/ phase = "unloading")
      BY <1>2 DEF TimerFires, Unloaded
    <2> QED
      BY <1>1, <2>1, FlushKeeps DEF IInv, Parked, HasListener
  <1>3. ASSUME NEW k \in Toggles, NEW v \in Values, Toggle(k, v)
        PROVE  phase = "starting"
    BY <1>1, <1>3 DEF Toggle, EntitiesUp, UpdateEntry, HasListener
  <1>4. ASSUME NEW k \in Restarts, NEW v \in Values, ToggleRestart(k, v)
        PROVE  phase = "starting"
    BY <1>4 DEF ToggleRestart, UpdateEntry
  <1>5. ASSUME NEW page \in Pages, NEW input \in [page -> Values], SaveDialog(page, input)
        PROVE  FALSE
    BY <1>5 DEF SaveDialog
  <1>6. ~(OpenDialog \/ Unload \/ SetUp \/ SetUpFails \/ AddListener \/ UNCHANGED vars)
    BY DEF OpenDialog, Unload, SetUp, SetUpFails, AddListener, vars
  <1>7. \A k \in Sliders, v \in Values : ~MoveSlider(k, v)
    BY DEF MoveSlider
  <1> QED
    BY <1>2, <1>3, <1>4, <1>5, <1>6, <1>7 DEF Next

-----------------------------------------------------------------------------
(* Theorems.                                                               *)

\* Every variable has its type.
THEOREM TypeCorrect == Spec => []TypeOK
  <1>1. IInv => TypeOK
    BY DEF IInv
  <1> QED
    BY <1>1, InitIInv, StepIInv, PTL DEF Spec

\* The engine runs what the entry says, for any keys, values and pages.
THEOREM OptionsAreLiveAlways == Spec => []OptionsAreLive
  <1>1. IInv => OptionsAreLive
    BY DEF IInv, Live, OptionsAreLive
  <1> QED
    BY <1>1, InitIInv, StepIInv, PTL DEF Spec

\* The last choice of a user is what the entry comes to.
THEOREM LastChoiceWinsAlways == Spec => []LastChoiceWins
  <1>1. IInv => LastChoiceWins
    BY DEF IInv
  <1> QED
    BY <1>1, InitIInv, StepIInv, PTL DEF Spec

\* A mark that is not spent at once comes from the set-up window.
THEOREM MarksAreSpent == Spec => SkipMarkIsSpent
  <1>1. IInv /\ [Next]_vars => [mark' /\ ~mark => phase = "starting"]_vars
    BY MarkAppears
  <1> QED
    BY <1>1, InitIInv, StepIInv, PTL DEF Spec, SkipMarkIsSpent
=============================================================================
