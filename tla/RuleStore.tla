------------------------------ MODULE RuleStore ------------------------------
(***************************************************************************)
(* What Entity Guard remembers of its rules: EntityGuardStore of           *)
(* storage.py, the rule engines that read it when they are set up and      *)
(* write it whenever they change, the panic_stop service, and Home         *)
(* Assistant's Store behind it, which writes the file a few seconds later. *)
(*                                                                         *)
(* A rule is reloaded by unloading its platforms (an await), taking its    *)
(* engine out of the map, saving at once (an await) and setting up a new   *)
(* engine from the memory copy.  A service call that is still out when the *)
(* engine goes is shielded: its tail runs later, on the old engine's       *)
(* state, and persists it.                                                 *)
(*                                                                         *)
(* want, hurt and cleared are history: what the rule's last engine in      *)
(* charge stood for, which rules a named event made the store wrong about, *)
(* and how far the save of the last clear_history has come.                *)
(***************************************************************************)
EXTENDS Naturals

CONSTANTS
    Rules,    \* the rule entries
    Busy,     \* bound: the rules that users and enforcements touch one by one, and
              \* those whose part of a panic_stop may fail
    Faults,   \* "crash": HA dies; "damage": a blob of the file is damaged
    NoWrite,  \* "no write of the file is running"
    NoCall,   \* "no call of an unloaded engine is out"
    Corrupt   \* a blob that _validate_blob refuses

ASSUME RulesAssumption  == Busy \subseteq Rules
ASSUME FaultsAssumption == Faults \subseteq {"crash", "damage"}

\* The persisted part of RuleRuntimeState: the enabled flag, a suppression that is
\* ahead, and whether an enforcement was counted since the last clear_history.
Blob == [enabled : BOOLEAN, sup : BOOLEAN, total : {0, 1}]

Default == [enabled |-> TRUE, sup |-> FALSE, total |-> 0]

ASSUME MarkersAssumption == /\ Corrupt \notin Blob
                            /\ NoCall \notin [blob : Blob, old : BOOLEAN]
                            /\ NoWrite \notin [Rules -> Blob]

VARIABLES
    up,       \* Home Assistant runs
    disk,     \* disk[r]: r's blob in the file
    mem,      \* mem[r]: r's blob in EntityGuardStore._data
    dirty,    \* the Store owes a write: a delayed save or a save_now that waits
    writing,  \* the snapshot that is being written
    run,      \* run[r]: "down", "loaded", "unloading" its platforms, "flushing" until a
              \* write starts, "saving" until it ends, "failed" in its set-up
    eng,      \* eng[r]: the runtime state of r's latest engine
    call,     \* call[r]: the engine in charge has a service call out
    late,     \* late[r]: the state of an unloaded engine whose call is still out
    want, hurt, cleared

vars == <<up, disk, mem, dirty, writing, run, eng, call, late, want, hurt, cleared>>

InCharge(r) == run[r] \in {"loaded", "unloading"}

Init ==
    /\ up = FALSE
    /\ disk = [r \in Rules |-> Default]
    /\ mem = [r \in Rules |-> Default]
    /\ dirty = FALSE
    /\ writing = NoWrite
    /\ run = [r \in Rules |-> "down"]
    /\ eng = [r \in Rules |-> Default]
    /\ call = [r \in Rules |-> FALSE]
    /\ late = [r \in Rules |-> NoCall]
    /\ want = [r \in Rules |-> Default]
    /\ hurt = {}
    /\ cleared = [r \in Rules |-> "no"]

-----------------------------------------------------------------------------
(* The rule engines.                                                       *)

\* _persist and set_rule_state: the engines of D hand in the states s
PersistUnscheduled(D, s) ==  \* mutant: the blob changes and no save is scheduled
    /\ eng' = [r \in Rules |-> IF r \in D THEN s[r] ELSE eng[r]]
    /\ mem' = [r \in Rules |-> IF r \in D THEN s[r] ELSE mem[r]]
    /\ want' = [r \in Rules |-> IF r \in D THEN s[r] ELSE want[r]]
    /\ hurt' = hurt \ D
    /\ UNCHANGED dirty

Persist(D, s) ==
    /\ eng' = [r \in Rules |-> IF r \in D THEN s[r] ELSE eng[r]]
    /\ mem' = [r \in Rules |-> IF r \in D THEN s[r] ELSE mem[r]]
    /\ want' = [r \in Rules |-> IF r \in D THEN s[r] ELSE want[r]]
    /\ hurt' = hurt \ D
    /\ dirty' = (dirty \/ D # {})

PersistOne(r, b) == Persist({r}, [x \in Rules |-> b])

\* set_enabled, from the switch of the rule
SetEnabled(r) ==
    /\ InCharge(r)
    /\ PersistOne(r, [eng[r] EXCEPT !.enabled = ~@])
    /\ UNCHANGED <<up, disk, writing, run, call, late, cleared>>

\* async_suppress
Suppress(r) ==
    /\ InCharge(r)
    /\ PersistOne(r, [eng[r] EXCEPT !.sup = TRUE])
    /\ UNCHANGED <<up, disk, writing, run, call, late, cleared>>

\* async_unsuppress, or the window elapses: _clear_suppression_state
SuppressionEnds(r) ==
    /\ InCharge(r)
    /\ eng[r].sup
    /\ PersistOne(r, [eng[r] EXCEPT !.sup = FALSE])
    /\ UNCHANGED <<up, disk, writing, run, call, late, cleared>>

\* async_clear_history, up to the end of its save_now (cleared follows the save)
ClearHistoryUnpersisted(r) ==  \* mutant: saves before it hands in the cleared counters
    /\ InCharge(r)
    /\ eng' = [eng EXCEPT ![r].total = 0]
    /\ want' = [want EXCEPT ![r].total = 0]
    /\ dirty' = TRUE
    /\ cleared' = [cleared EXCEPT ![r] = "waits"]
    /\ UNCHANGED <<up, disk, mem, writing, run, call, late, hurt>>

ClearHistory(r) ==
    /\ InCharge(r)
    /\ PersistOne(r, [eng[r] EXCEPT !.total = 0])
    /\ cleared' = [cleared EXCEPT ![r] = "waits"]
    /\ UNCHANGED <<up, disk, writing, run, call, late>>

CallStarts(r) ==
    /\ InCharge(r)
    /\ ~call[r]
    /\ eng[r].enabled
    /\ ~eng[r].sup
    /\ call' = [call EXCEPT ![r] = TRUE]
    /\ UNCHANGED <<up, disk, mem, dirty, writing, run, eng, late, want, hurt, cleared>>

\* What the tail of _enforce does to the state it persists: an enforcement is
\* counted, loop protection suppresses the rule, or a failure leaves all three be.
Tails(b) == {b, [b EXCEPT !.total = 1], [b EXCEPT !.sup = TRUE]}

CallEnds(r) ==
    /\ call[r]
    /\ call' = [call EXCEPT ![r] = FALSE]
    /\ \E b \in Tails(eng[r]) :
         /\ PersistOne(r, b)
         /\ cleared' = [cleared EXCEPT ![r] = IF b.total = 1 THEN "no" ELSE @]
    /\ UNCHANGED <<up, disk, writing, run, late>>

\* The tail of a call that outlived its engine: it persists the old engine's state,
\* whether or not a new engine has been set up since (late[r].old)
LateTail(r) ==
    /\ late[r] # NoCall
    /\ late' = [late EXCEPT ![r] = NoCall]
    /\ \E b \in Tails(late[r].blob) :
         /\ mem' = [mem EXCEPT ![r] = b]
         /\ cleared' = [cleared EXCEPT ![r] = IF b.total = 1 THEN "no" ELSE @]
         /\ IF late[r].old
            THEN /\ hurt' = hurt \cup {r}
                 /\ UNCHANGED <<eng, want>>
            ELSE /\ eng' = [eng EXCEPT ![r] = b]
                 /\ want' = [want EXCEPT ![r] = b]
                 /\ hurt' = hurt \ {r}
    /\ dirty' = TRUE
    /\ UNCHANGED <<up, disk, writing, run, call>>

\* handle_panic_stop over the engines of the map; one whose reset or suppress raises
\* (broken) has been disabled by then, and the loop goes on with the others
PanicStop(broken) ==
    LET engines == {r \in Rules : InCharge(r)}
    IN  /\ engines # {}
        /\ broken \subseteq engines
        /\ Persist(engines, [r \in Rules |-> [eng[r] EXCEPT !.enabled = FALSE,
                                                           !.sup = @ \/ r \notin broken]])
        /\ UNCHANGED <<up, disk, writing, run, call, late, cleared>>

-----------------------------------------------------------------------------
(* Reload of a rule entry.                                                 *)

BeginReload(r) ==
    /\ run[r] = "loaded"
    /\ run' = [run EXCEPT ![r] = "unloading"]
    /\ UNCHANGED <<up, disk, mem, dirty, writing, eng, call, late, want, hurt, cleared>>

UnloadEngineUnsaved(r) ==  \* mutant: waits for the next write without asking for one
    /\ run[r] = "unloading"
    /\ call[r] => late[r] = NoCall
    /\ run' = [run EXCEPT ![r] = "flushing"]
    /\ call' = [call EXCEPT ![r] = FALSE]
    /\ late' = [late EXCEPT ![r] = IF call[r] THEN [blob |-> eng[r], old |-> FALSE] ELSE @]
    /\ UNCHANGED <<up, disk, mem, dirty, writing, eng, want, hurt, cleared>>

\* The engine leaves the map; async_unload persists and asks for save_now.
\* Bound: at most one call of an unloaded engine is out per rule.
UnloadEngine(r) ==
    /\ run[r] = "unloading"
    /\ call[r] => late[r] = NoCall
    /\ run' = [run EXCEPT ![r] = "flushing"]
    /\ call' = [call EXCEPT ![r] = FALSE]
    /\ late' = [late EXCEPT ![r] = IF call[r] THEN [blob |-> eng[r], old |-> FALSE] ELSE @]
    /\ PersistOne(r, eng[r])
    /\ UNCHANGED <<up, disk, writing, cleared>>

\* RuleEngine.async_setup on the memory copy: after the flush, at a start, or as a user
\* reloads an entry that failed
SetUp(r) ==
    /\ up
    /\ run[r] \in {"down", "failed"}
    /\ run' = [run EXCEPT ![r] = "loaded"]
    /\ eng' = [eng EXCEPT ![r] = mem[r]]
    /\ late' = [late EXCEPT ![r] = IF @ = NoCall THEN @ ELSE [@ EXCEPT !.old = TRUE]]
    /\ want' = [want EXCEPT ![r] = IF r \in hurt THEN mem[r] ELSE @]
    /\ hurt' = hurt \ {r}
    /\ UNCHANGED <<up, disk, mem, dirty, writing, call, cleared>>

\* async_setup raised: no engine joins the map, and nothing tries again by itself
SetUpFails(r) ==
    /\ up
    /\ run[r] = "down"
    /\ run' = [run EXCEPT ![r] = "failed"]
    /\ UNCHANGED <<up, disk, mem, dirty, writing, eng, call, late, want, hurt, cleared>>

-----------------------------------------------------------------------------
(* Home Assistant's Store, and the process itself.                         *)

\* A save that is due takes the latest data; the write lock admits one at a time
WriteStarts ==
    /\ up
    /\ dirty
    /\ writing = NoWrite
    /\ writing' = mem
    /\ dirty' = FALSE
    /\ run' = [r \in Rules |-> IF run[r] = "flushing" THEN "saving" ELSE run[r]]
    /\ cleared' = [r \in Rules |-> IF cleared[r] = "waits" THEN "writes" ELSE cleared[r]]
    /\ UNCHANGED <<up, disk, mem, eng, call, late, want, hurt>>

\* The file is replaced in one piece; whoever waited for this write goes on
WriteEnds ==
    /\ writing # NoWrite
    /\ disk' = writing
    /\ writing' = NoWrite
    /\ run' = [r \in Rules |-> IF run[r] = "saving" THEN "down" ELSE run[r]]
    /\ cleared' = [r \in Rules |-> IF cleared[r] = "writes" THEN "durable" ELSE cleared[r]]
    /\ UNCHANGED <<up, mem, dirty, eng, call, late, want, hurt>>

\* The process is gone: engines, calls and the memory copy with it
Ends ==
    /\ up
    /\ up' = FALSE
    /\ dirty' = FALSE
    /\ writing' = NoWrite
    /\ run' = [r \in Rules |-> "down"]
    /\ mem' = [r \in Rules |-> Default]
    /\ eng' = [r \in Rules |-> Default]
    /\ call' = [r \in Rules |-> FALSE]
    /\ late' = [r \in Rules |-> NoCall]
    /\ UNCHANGED want

\* A stop waits for a running write and makes the one that is owed (final write)
Shutdown ==
    /\ Ends
    /\ disk' = IF dirty THEN mem ELSE IF writing # NoWrite THEN writing ELSE disk
    /\ cleared' = [r \in Rules |-> IF cleared[r] \in {"waits", "writes"}
                                   THEN "durable" ELSE cleared[r]]
    /\ UNCHANGED hurt

\* A crash leaves the file as it was or as the running write makes it.  What it may
\* hurt is what a write still owed or running would have brought.
Crash ==
    /\ "crash" \in Faults
    /\ Ends
    /\ disk' = disk \/ (writing # NoWrite /\ disk' = writing)
    /\ hurt' = IF dirty \/ writing # NoWrite
               THEN hurt \cup {r \in Rules : disk'[r] # want[r]} ELSE hurt
    /\ cleared' = [r \in Rules |-> IF cleared[r] \in {"waits", "writes"}
                                   THEN "no" ELSE cleared[r]]

\* Bound: the file is damaged only while nothing else has hurt it.
Damage(r) ==
    /\ "damage" \in Faults
    /\ ~up
    /\ hurt = {}
    /\ disk' = [disk EXCEPT ![r] = Corrupt]
    /\ hurt' = hurt \cup {r}
    /\ cleared' = [cleared EXCEPT ![r] = "no"]
    /\ UNCHANGED <<up, mem, dirty, writing, run, eng, call, late, want>>

\* async_load with _validate_blob: a refused blob is replaced by the default one
LoadedOrReset(file) ==  \* mutant: one refused blob resets every rule
    [r \in Rules |-> IF \E x \in Rules : file[x] = Corrupt THEN Default ELSE file[r]]

Loaded(file) == [r \in Rules |-> IF file[r] = Corrupt THEN Default ELSE file[r]]

Start ==
    /\ ~up
    /\ up' = TRUE
    /\ mem' = Loaded(disk)
    /\ UNCHANGED <<disk, dirty, writing, run, eng, call, late, want, hurt, cleared>>

-----------------------------------------------------------------------------
UserStep(r) ==
    \/ SetEnabled(r)
    \/ Suppress(r)
    \/ SuppressionEnds(r)
    \/ ClearHistory(r)
    \/ BeginReload(r)

EngineStep(r) ==
    \/ CallStarts(r)
    \/ CallEnds(r)
    \/ LateTail(r)
    \/ UnloadEngine(r)

Next ==
    \/ \E r \in Busy : UserStep(r) \/ EngineStep(r)
    \/ \E r \in Rules : SetUp(r) \/ SetUpFails(r)
    \/ \E broken \in SUBSET Busy : PanicStop(broken)
    \/ WriteStarts
    \/ WriteEnds
    \/ Shutdown
    \/ Crash
    \/ Start
    \/ \E r \in Rules : Damage(r)

Spec == Init /\ [][Next]_vars

\* A call ends (it times out), the loop runs what is ready, a write makes progress.
Fairness ==
    /\ \A r \in Busy : /\ WF_vars(LateTail(r))
                       /\ WF_vars(UnloadEngine(r))
                       /\ WF_vars(run[r] = "down" /\ SetUp(r))
    /\ WF_vars(WriteStarts)
    /\ WF_vars(WriteEnds)

FairSpec == Spec /\ Fairness

-----------------------------------------------------------------------------
(* Properties.                                                             *)

\* Every variable has its type.
TypeOK ==
    /\ up \in BOOLEAN
    /\ disk \in [Rules -> Blob \cup {Corrupt}]
    /\ mem \in [Rules -> Blob]
    /\ dirty \in BOOLEAN
    /\ writing \in [Rules -> Blob] \cup {NoWrite}
    /\ run \in [Rules -> {"down", "failed", "loaded", "unloading", "flushing", "saving"}]
    /\ eng \in [Rules -> Blob]
    /\ call \in [Rules -> BOOLEAN]
    /\ late \in [Rules -> [blob : Blob, old : BOOLEAN] \cup {NoCall}]
    /\ want \in [Rules -> Blob]
    /\ hurt \subseteq Rules
    /\ cleared \in [Rules -> {"no", "waits", "writes", "durable"}]

\* A rule that is guarding is enabled, suppressed and counted as its users and its
\* own enforcements left it, across reloads, shutdowns and crashes: a set-up reads
\* back the last state, unless a crash met a write that was owed, the rule's own blob
\* was damaged, or the tail of an unloaded engine's call wrote over it.
NothingIsForgotten == \A r \in Rules : InCharge(r) => eng[r] = want[r]

\* Once clear_history has returned, the cleared counters are in the file: no crash
\* brings the old ones back ("survives an immediate HA crash"), until an enforcement
\* is counted again.
ClearIsDurable ==
    \A r \in Rules : cleared[r] = "durable" /\ disk[r] # Corrupt => disk[r].total = 0

\* The file itself is never behind an idle store: with no write owed or running, what
\* a restart would read is what the engines stand for.
IdleFileIsCurrent ==
    \A r \in Rules : up /\ ~dirty /\ writing = NoWrite /\ InCharge(r) /\ r \notin hurt
                     => disk[r] \in {want[r], Corrupt}

\* A rule that is being reloaded comes back, or its set-up raises: the save it waits for
\* is made, however many others are asked for meanwhile.
ReloadCompletes ==
    \A r \in Busy : run[r] = "unloading" ~> (run[r] \in {"loaded", "failed"} \/ ~up)
=============================================================================
