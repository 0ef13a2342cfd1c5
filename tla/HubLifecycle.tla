---------------------------- MODULE HubLifecycle ----------------------------
(***************************************************************************)
(* The config entries of Entity Guard: rules, and the one hub that carries *)
(* the master switch (__init__.py, the import and preview steps of         *)
(* config_flow.py, the master part of switch.py and services.py).          *)
(*                                                                         *)
(* The master's value lives twice, in hass.data (flag), which the engines  *)
(* read, and in the hub entry's options (opt), which survive a restart.    *)
(* A hub that is removed while rules exist is imported again by a task.    *)
(* The services belong to no entry: the last rule entry to go takes them.  *)
(*                                                                         *)
(* wish, reborn, unaware and failed are history: the last word a user had  *)
(* on the master, that the entry which kept it is gone, the engines behind *)
(* whose back a hub set-up changed the flag, and that the last import under*)
(* way has failed (which is logged, and tried again by nobody).            *)
(***************************************************************************)
EXTENDS Integers

CONSTANTS
    Rules,      \* the rules that may be created
    MaxImports  \* bound: hub imports that are under way at once

ASSUME ImportsAssumption == MaxImports \in Nat \ {0}

VARIABLES
    up,        \* Home Assistant runs
    hub,       \* the hub entry: "none", "entry" (not set up) or "loaded"
    opt,       \* its option master_enabled
    flag,      \* hass.data: hub_master_enabled
    imports,   \* tasks that will run the import flow
    rule,      \* rule[r]: "absent", "entry" (not set up), "starting" (its engine runs),
               \* "loaded", "reloading" or "removing" (its engine is being flushed)
    seen,      \* seen[r]: the master as r's engine last painted it
    services,  \* the services are registered
    wish, reborn, unaware, failed

vars == <<up, hub, opt, flag, imports, rule, seen, services, wish, reborn, unaware,
          failed>>

\* The engines of hass.data and the rule entries of the registry
Engines == {r \in Rules : rule[r] \in {"starting", "loaded"}}
Entries == {r \in Rules : rule[r] # "absent"}

Init ==
    /\ up = TRUE
    /\ hub = "none"
    /\ opt = TRUE
    /\ flag = TRUE
    /\ imports = 0
    /\ rule = [r \in Rules |-> "absent"]
    /\ seen = [r \in Rules |-> TRUE]
    /\ services = TRUE
    /\ wish = TRUE
    /\ reborn = FALSE
    /\ unaware = {}
    /\ failed = FALSE

-----------------------------------------------------------------------------
(* The hub.                                                                *)

\* _async_ensure_hub, of __init__ and of the wizard
EnsureHub(missing) ==
    /\ imports' = IF missing THEN imports + 1 ELSE imports
    /\ imports' <= MaxImports
    /\ failed' = (failed /\ ~missing)

\* async_step_import: the entry of a second import is refused; a new entry has no
\* options, so its master is on
Import ==
    /\ up
    /\ imports > 0
    /\ imports' = imports - 1
    /\ hub' = IF hub = "none" THEN "entry" ELSE hub
    /\ opt' = IF hub = "none" THEN TRUE ELSE opt
    /\ reborn' = (reborn \/ (hub = "none" /\ ~wish))
    /\ UNCHANGED <<up, flag, rule, seen, services, wish, unaware, failed>>

\* _create_hub logs an import that raises
ImportFails ==
    /\ up
    /\ imports > 0
    /\ imports' = imports - 1
    /\ failed' = (imports = 1 /\ hub = "none")
    /\ UNCHANGED <<up, hub, opt, flag, rule, seen, services, wish, reborn, unaware>>

\* async_setup_entry of the hub: the flag follows the option, and no engine is told
SetUpHubKeepsFlag ==  \* mutant: keeps the flag that hass.data has already
    /\ up
    /\ hub = "entry"
    /\ hub' = "loaded"
    /\ services' = TRUE
    /\ UNCHANGED <<up, opt, flag, imports, rule, seen, wish, reborn, unaware, failed>>

SetUpHub ==
    /\ up
    /\ hub = "entry"
    /\ hub' = "loaded"
    /\ flag' = opt
    /\ unaware' = IF flag = opt THEN unaware ELSE unaware \cup Engines
    /\ services' = TRUE
    /\ UNCHANGED <<up, opt, imports, rule, seen, wish, reborn, failed>>

\* async_unload_entry takes the services with the last entry, of whatever type
ServicesWithout(r) == services /\ (Engines \ {r} # {} \/ Entries \ {r} # {})

UnloadHub ==
    /\ up
    /\ hub = "loaded"
    /\ hub' = "entry"
    /\ services' = (services /\ Entries # {})
    /\ UNCHANGED <<up, opt, flag, imports, rule, seen, wish, reborn, unaware, failed>>

\* Unload (of a hub that is loaded) and async_remove_entry: the hub is imported again
\* if rules are left.  A hub that was not set up may take an option with it that the
\* flag does not have.
RemoveHub ==
    /\ up
    /\ hub # "none"
    /\ hub' = "none"
    /\ opt' = TRUE
    /\ EnsureHub(Entries # {})
    /\ services' = (services /\ (hub = "loaded" => Entries # {}))
    /\ reborn' = (reborn \/ flag # wish)
    /\ UNCHANGED <<up, flag, rule, seen, wish, unaware>>

\* signal_master_update: every engine repaints
Told(v) ==
    /\ flag' = v
    /\ seen' = [r \in Rules |-> IF r \in Engines THEN v ELSE seen[r]]
    /\ unaware' = {}
    /\ wish' = v

\* _set_master, from the hub's switch
SetMasterUntold(v) ==  \* mutant: the switch sends no signal
    /\ up
    /\ hub = "loaded"
    /\ opt' = v
    /\ flag' = v
    /\ wish' = v
    /\ UNCHANGED <<up, hub, imports, rule, seen, services, reborn, unaware, failed>>

SetMaster(v) ==
    /\ up
    /\ hub = "loaded"
    /\ opt' = v
    /\ Told(v)
    /\ reborn' = FALSE
    /\ UNCHANGED <<up, hub, imports, rule, services, failed>>

\* handle_panic_stop, its last part: with no hub entry only the flag knows
PanicStop ==
    /\ up
    /\ services
    /\ opt' = (opt /\ hub = "none")
    /\ Told(FALSE)
    /\ reborn' = FALSE
    /\ UNCHANGED <<up, hub, imports, rule, services, failed>>

-----------------------------------------------------------------------------
(* Rule entries.                                                           *)

\* async_step_preview: ensure the hub, create the entry
CreateRule(r) ==
    /\ up
    /\ rule[r] = "absent"
    /\ EnsureHub(hub = "none")
    /\ rule' = [rule EXCEPT ![r] = "entry"]
    /\ UNCHANGED <<up, hub, opt, flag, seen, services, wish, reborn, unaware>>

\* async_setup_entry: the engine is set up and paints; the platforms follow (await).  An
\* engine that raises leaves the entry as it was.
SetUpRule(r) ==
    /\ up
    /\ rule[r] = "entry"
    /\ rule' = [rule EXCEPT ![r] = "starting"]
    /\ seen' = [seen EXCEPT ![r] = flag]
    /\ unaware' = unaware \ {r}
    /\ UNCHANGED <<up, hub, opt, flag, imports, services, wish, reborn, failed>>

\* async_setup_entry after the platforms
RuleReadyAlone(r) ==  \* mutant: does not look for the hub
    /\ up
    /\ rule[r] = "starting"
    /\ rule' = [rule EXCEPT ![r] = "loaded"]
    /\ services' = TRUE
    /\ UNCHANGED <<up, hub, opt, flag, imports, seen, wish, reborn, unaware, failed>>

RuleReady(r) ==
    /\ up
    /\ rule[r] = "starting"
    /\ EnsureHub(hub = "none")
    /\ rule' = [rule EXCEPT ![r] = "loaded"]
    /\ services' = TRUE
    /\ UNCHANGED <<up, hub, opt, flag, seen, wish, reborn, unaware>>

\* The end of the grace period, midnight, an event: _apply_idle_status
Repaint(r) ==
    /\ up
    /\ r \in Engines
    /\ seen' = [seen EXCEPT ![r] = flag]
    /\ unaware' = unaware \ {r}
    /\ UNCHANGED <<up, hub, opt, flag, imports, rule, services, wish, reborn, failed>>

\* async_unload_entry: the engine leaves the map and flushes (await)
UnloadRule(r, next) ==
    /\ up
    /\ rule[r] = "loaded"
    /\ rule' = [rule EXCEPT ![r] = next]
    /\ unaware' = unaware \ {r}
    /\ UNCHANGED <<up, hub, opt, flag, imports, seen, services, wish, reborn, failed>>

\* The rest of async_unload_entry, and the removal of the entry
UnloadedTakesServices(r) ==  \* mutant: removes the services with any rule
    /\ up
    /\ rule[r] \in {"reloading", "removing"}
    /\ services' = FALSE
    /\ rule' = [rule EXCEPT ![r] = IF @ = "removing" THEN "absent" ELSE "entry"]
    /\ UNCHANGED <<up, hub, opt, flag, imports, seen, wish, reborn, unaware, failed>>

Unloaded(r) ==
    /\ up
    /\ rule[r] \in {"reloading", "removing"}
    /\ services' = ServicesWithout(r)
    /\ rule' = [rule EXCEPT ![r] = IF @ = "removing" THEN "absent" ELSE "entry"]
    /\ UNCHANGED <<up, hub, opt, flag, imports, seen, wish, reborn, unaware, failed>>

\* The removal of an entry that is not set up: there is nothing to unload
DropRule(r) ==
    /\ up
    /\ rule[r] = "entry"
    /\ rule' = [rule EXCEPT ![r] = "absent"]
    /\ UNCHANGED <<up, hub, opt, flag, imports, seen, services, wish, reborn, unaware,
                   failed>>

-----------------------------------------------------------------------------
(* The process.                                                            *)

Stop ==
    /\ up
    /\ up' = FALSE
    /\ hub' = IF hub = "none" THEN "none" ELSE "entry"
    /\ rule' = [r \in Rules |-> IF rule[r] = "absent" THEN "absent" ELSE "entry"]
    /\ imports' = 0
    /\ services' = FALSE
    /\ unaware' = {}
    /\ failed' = FALSE
    /\ UNCHANGED <<opt, flag, seen, wish, reborn>>

\* async_setup: setdefault("hub_master_enabled", True), and the services
Start ==
    /\ ~up
    /\ up' = TRUE
    /\ flag' = TRUE
    /\ services' = TRUE
    /\ reborn' = (reborn \/ (hub = "none" /\ ~wish))
    /\ UNCHANGED <<hub, opt, imports, rule, seen, wish, unaware, failed>>

Next ==
    \/ Import
    \/ ImportFails
    \/ SetUpHub
    \/ UnloadHub
    \/ RemoveHub
    \/ \E v \in BOOLEAN : SetMaster(v)
    \/ PanicStop
    \/ \E r \in Rules : \/ CreateRule(r)
                        \/ SetUpRule(r)
                        \/ RuleReady(r)
                        \/ Repaint(r)
                        \/ UnloadRule(r, "reloading")
                        \/ UnloadRule(r, "removing")
                        \/ Unloaded(r)
                        \/ DropRule(r)
    \/ Stop
    \/ Start

Spec == Init /\ [][Next]_vars

\* The import task is run by the event loop.
FairSpec == Spec /\ WF_vars(Import)

-----------------------------------------------------------------------------
(* Properties.                                                             *)

\* Every variable has its type.
TypeOK ==
    /\ up \in BOOLEAN
    /\ hub \in {"none", "entry", "loaded"}
    /\ opt \in BOOLEAN
    /\ flag \in BOOLEAN
    /\ imports \in 0 .. MaxImports
    /\ rule \in [Rules -> {"absent", "entry", "starting", "loaded", "reloading", "removing"}]
    /\ seen \in [Rules -> BOOLEAN]
    /\ services \in BOOLEAN
    /\ wish \in BOOLEAN
    /\ reborn \in BOOLEAN
    /\ unaware \subseteq Rules
    /\ failed \in BOOLEAN

\* The master the engines obey is the one a user asked for last, through panic stops,
\* reloads and restarts: unless the hub entry that kept the word is gone (and the
\* flag or a new entry has the master on), or the hub entry is still to be set up.
MasterIsObeyed == up /\ hub # "entry" /\ ~reborn => flag = wish

\* An engine shows the master it obeys, whatever the order in which hub and rules are
\* set up, reloaded, told and removed; only a hub set-up may change the flag unseen.
EnginesSeeMaster == up => \A r \in Engines \ unaware : seen[r] = flag

\* While a rule is loaded, its services exist, panic_stop among them: no unload of
\* another entry takes them away.
LoadedRuleHasServices == up /\ (\E r \in Rules : rule[r] = "loaded") => services

\* Rules never stay without a hub: whoever removes it, creates the first rule, or loses
\* the import task by a restart, a hub entry is there again, unless the last import that
\* is under way fails: then nothing tries until a rule is set up or created.
HubComesBack ==
    (up /\ hub = "none" /\ \E r \in Rules : rule[r] = "loaded")
        ~> (hub # "none" \/ ~up \/ failed)
=============================================================================
