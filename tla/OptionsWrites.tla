---------------------------- MODULE OptionsWrites ----------------------------
(***************************************************************************)
(* The options of one rule entry and the three kinds of writers they have: *)
(*   - sliders (number.py): live at once, written after a 2 s debounce     *)
(*     from a queue that the entry's sliders share;                        *)
(*   - the debounce switch (switch.py): live and written at once;          *)
(*   - the verify switch and the options dialog (switch.py,                *)
(*     config_flow.py): written at once, live by the reload that the       *)
(*     entry's update listener (__init__.py) starts.                       *)
(* The first two mark the entry so that the listener skips the reload.     *)
(* The listener exists from the end of a set-up to the end of the next     *)
(* unload, the entities from before the former to before the latter.       *)
(*                                                                         *)
(* wish, missed and lost are history: the last value a user chose, the     *)
(* keys whose change no reload applies, and the keys a later write put     *)
(* back, with the reason in the action that adds them.                     *)
(***************************************************************************)
EXTENDS Naturals

CONSTANTS
    Sliders,    \* keys of the number entities
    Toggles,    \* keys of switches that apply live (debounce_enabled)
    Restarts,   \* keys that apply by a reload (verify_enabled)
    Pages,      \* the sets of keys that a page of the dialog submits
    Values,     \* the values a key may take
    Initial,    \* the value of every key in entry.data
    NoDialog    \* no options dialog is open

Keys == Sliders \cup Toggles \cup Restarts

ASSUME PagesAssumption  == \A p \in Pages : p \subseteq Keys
ASSUME ValuesAssumption == Initial \in Values

\* Each number entity has a key of its own
ASSUME SlidersAssumption == Sliders \cap (Toggles \cup Restarts) = {}

\* A dictionary: some of the keys of K, each with a value
Dict(K) == UNION {[D -> Values] : D \in SUBSET K}

\* {**f, **g}
Over(f, g) == [k \in DOMAIN f \cup DOMAIN g |-> IF k \in DOMAIN g THEN g[k] ELSE f[k]]

ASSUME DialogAssumption ==
    NoDialog \notin [working : [Keys -> Values], touched : SUBSET Keys]

VARIABLES
    options,  \* entry.options
    live,     \* the config of the running engine
    queue,    \* the slider values that wait for the debounce timer
    mark,     \* the entry is in SKIP_RELOAD_KEY
    phase,    \* "starting": entities are up and the listener is not; "running";
              \* "unloading": the listener still is; "down"; "failed": a set-up raised
    reload,   \* the listener has asked for a reload
    dialog,   \* the open dialog: its snapshot, and the keys written since it was taken
    wish, missed, lost

vars == <<options, live, queue, mark, phase, reload, dialog, wish, missed, lost>>

\* parse_rule_config: options over data
Merged(o) == Over([k \in Keys |-> Initial], o)

\* What the entry comes to once the queue is written
Effective == Over(Merged(options), queue)

Empty == [k \in {} |-> Initial]

Init ==
    /\ options = Empty
    /\ live = Merged(Empty)
    /\ queue = Empty
    /\ mark = FALSE
    /\ phase = "running"
    /\ reload = FALSE
    /\ dialog = NoDialog
    /\ wish = Merged(Empty)
    /\ missed = {}
    /\ lost = {}

-----------------------------------------------------------------------------
(* Writing the entry.                                                      *)

HasListener == phase \in {"running", "unloading"}

\* async_update_entry, with the skip mark of the writer, and the update listener,
\* which runs in the same step: it spends a mark or asks for a reload.  An update that
\* changes nothing reaches neither.  missed: a change to apply by reload meets no
\* listener in the set-up window, or a mark that another write left there.
UpdateEntryMarksFirst(o, marked) ==  \* mutant: the mark is set before the no-op check
    /\ options' = o
    /\ mark' = ((marked \/ mark) /\ (o = options \/ ~HasListener))
    /\ reload' = (reload \/ (o # options /\ HasListener /\ ~marked /\ ~mark))
    /\ missed' = IF o # options /\ ~marked /\ (phase = "starting" \/ (HasListener /\ mark))
                 THEN missed \cup {k \in Keys : Merged(o)[k] # Merged(options)[k]}
                 ELSE missed
    /\ dialog' = IF dialog = NoDialog THEN dialog
                 ELSE [dialog EXCEPT !.touched =
                         @ \cup {k \in Keys : Merged(o)[k] # Merged(options)[k]}]

UpdateEntry(o, marked) ==
    /\ options' = o
    /\ mark' = IF o = options THEN mark ELSE (marked \/ mark) /\ ~HasListener
    /\ reload' = (reload \/ (o # options /\ HasListener /\ ~marked /\ ~mark))
    /\ missed' = IF o # options /\ ~marked /\ (phase = "starting" \/ (HasListener /\ mark))
                 THEN missed \cup {k \in Keys : Merged(o)[k] # Merged(options)[k]}
                 ELSE missed
    /\ dialog' = IF dialog = NoDialog THEN dialog
                 ELSE [dialog EXCEPT !.touched =
                         @ \cup {k \in Keys : Merged(o)[k] # Merged(options)[k]}]

EntitiesUp == phase \notin {"down", "failed"}

Chosen(k, v) ==
    /\ wish' = [wish EXCEPT ![k] = v]
    /\ lost' = lost \ {k}

\* async_set_native_value
MoveSlider(k, v) ==
    /\ EntitiesUp
    /\ live' = [live EXCEPT ![k] = v]
    /\ queue' = Over(queue, [x \in {k} |-> v])
    /\ Chosen(k, v)
    /\ missed' = missed \ {k}
    /\ UNCHANGED <<options, mark, phase, reload, dialog>>

\* _flush_pending_now: by the timer, or as a slider is removed
FlushPending ==
    /\ queue' = Empty
    /\ UpdateEntry(Over(options, queue), TRUE)

TimerFires ==
    /\ queue # Empty
    /\ FlushPending
    /\ UNCHANGED <<live, phase, wish, lost>>

\* _set_debounce
ToggleUnapplied(k, v) ==  \* mutant: writes and marks, and leaves the engine's config be
    /\ EntitiesUp
    /\ UpdateEntry(Over(options, [x \in {k} |-> v]), TRUE)
    /\ Chosen(k, v)
    /\ UNCHANGED <<live, queue, phase>>

Toggle(k, v) ==
    /\ EntitiesUp
    /\ live' = [live EXCEPT ![k] = v]
    /\ UpdateEntry(Over(options, [x \in {k} |-> v]), TRUE)
    /\ Chosen(k, v)
    /\ UNCHANGED <<queue, phase>>

\* _set_verify
ToggleRestart(k, v) ==
    /\ EntitiesUp
    /\ UpdateEntry(Over(options, [x \in {k} |-> v]), FALSE)
    /\ Chosen(k, v)
    /\ UNCHANGED <<live, queue, phase>>

-----------------------------------------------------------------------------
(* The options dialog.                                                     *)

\* async_step_init: _working is a snapshot of data and options
OpenDialog ==
    /\ dialog = NoDialog
    /\ dialog' = [working |-> Merged(options), touched |-> {}]
    /\ UNCHANGED <<options, live, queue, mark, phase, reload, wish, missed, lost>>

\* A page is submitted and _save writes the whole working copy.  It puts back what
\* was written since the snapshot, and a slider value that still waits in the queue
\* will overwrite what the page set for the same key.
SaveDialog(page, input) ==
    LET working == Over(dialog.working, input)
        edited  == {k \in page : input[k] # dialog.working[k]}
    IN  /\ dialog # NoDialog
        /\ options' = working
        /\ mark' = IF working = options THEN mark ELSE mark /\ ~HasListener
        /\ reload' = (reload \/ (working # options /\ HasListener /\ ~mark))
        /\ missed' = IF working # options /\ (phase = "starting" \/ (HasListener /\ mark))
                     THEN missed \cup {k \in Keys : working[k] # Merged(options)[k]}
                     ELSE missed
        /\ dialog' = NoDialog
        /\ wish' = Over(wish, [k \in edited |-> input[k]])
        /\ lost' = (lost \ edited) \cup (dialog.touched \ (edited \cup DOMAIN queue))
                                   \cup (edited \cap DOMAIN queue)
        /\ UNCHANGED <<live, queue, phase>>

-----------------------------------------------------------------------------
(* Reload of the entry.                                                    *)

UnloadRefused ==  \* mutant: no unload while a slider value is queued
    /\ phase = "running"
    /\ reload
    /\ queue = Empty
    /\ phase' = "unloading"
    /\ reload' = FALSE
    /\ UNCHANGED <<options, live, queue, mark, dialog, wish, missed, lost>>

Unload ==
    /\ phase = "running"
    /\ reload
    /\ phase' = "unloading"
    /\ reload' = FALSE
    /\ UNCHANGED <<options, live, queue, mark, dialog, wish, missed, lost>>

\* The entities are removed (_cancel_pending_write flushes), then the listener
UnloadedDropsQueue ==  \* mutant: removal cancels the timer and drops the queue
    /\ phase = "unloading"
    /\ phase' = "down"
    /\ queue' = Empty
    /\ UNCHANGED <<options, mark, reload, missed, dialog, live, wish, lost>>

Unloaded ==
    /\ phase = "unloading"
    /\ phase' = "down"
    /\ FlushPending
    /\ UNCHANGED <<live, wish, lost>>

\* async_setup_entry up to the platforms: of a reload, or of an entry that failed and that
\* a user reloads
SetUp ==
    /\ phase \in {"down", "failed"}
    /\ phase' = "starting"
    /\ live' = Merged(options)
    /\ missed' = {}
    /\ UNCHANGED <<options, queue, mark, reload, dialog, wish, lost>>

\* async_setup raised: the entry stays not loaded, and nothing tries again by itself
SetUpFails ==
    /\ phase = "down"
    /\ phase' = "failed"
    /\ UNCHANGED <<options, live, queue, mark, reload, dialog, wish, missed, lost>>

\* add_update_listener, after the platforms and the entity checks
AddListener ==
    /\ phase = "starting"
    /\ phase' = "running"
    /\ UNCHANGED <<options, live, queue, mark, reload, dialog, wish, missed, lost>>

Next ==
    \/ \E k \in Sliders, v \in Values : MoveSlider(k, v)
    \/ TimerFires
    \/ \E k \in Toggles, v \in Values : Toggle(k, v)
    \/ \E k \in Restarts, v \in Values : ToggleRestart(k, v)
    \/ OpenDialog
    \/ \E page \in Pages : \E input \in [page -> Values] : SaveDialog(page, input)
    \/ Unload
    \/ Unloaded
    \/ SetUp
    \/ SetUpFails
    \/ AddListener

Spec == Init /\ [][Next]_vars

\* A reload that was asked for is run to its end by the event loop.
FairSpec == Spec /\ WF_vars(Unload) /\ WF_vars(Unloaded) /\ WF_vars(phase = "down" /\ SetUp)

-----------------------------------------------------------------------------
(* Properties.                                                             *)

\* Every variable has its type.
TypeOK ==
    /\ options \in Dict(Keys)
    /\ live \in [Keys -> Values]
    /\ queue \in Dict(Sliders)
    /\ mark \in BOOLEAN
    /\ phase \in {"starting", "running", "unloading", "down", "failed"}
    /\ reload \in BOOLEAN
    /\ dialog \in [working : [Keys -> Values], touched : SUBSET Keys] \cup {NoDialog}
    /\ wish \in [Keys -> Values]
    /\ missed \subseteq Keys
    /\ lost \subseteq Keys

\* A running engine that waits for no reload runs exactly what the entry says, queued
\* slider values included.  The only way out is a change to be applied by a reload that
\* fell into the set-up window or met the mark a live write left there.
OptionsAreLive ==
    phase = "running" /\ ~reload => \A k \in Keys \ missed : live[k] = Effective[k]

\* The value a user chose last is the one the entry comes to, through every debounce,
\* removal and reload, except for a key that a dialog with an older snapshot put back,
\* or that a dialog set while a slider value for it was queued.
LastChoiceWins == \A k \in Keys \ lost : Effective[k] = wish[k]

\* A skip mark is spent by the write that sets it (docstring of _async_update_listener):
\* it survives a step only in the set-up window, where no listener takes it.
SkipMarkIsSpent == [][mark' /\ ~mark => phase = "starting"]_vars

\* A reload that was asked for sets the entry up again, whatever is written meanwhile,
\* unless the set-up itself raises.
ReloadHappens == reload ~> phase \in {"starting", "failed"}
=============================================================================
