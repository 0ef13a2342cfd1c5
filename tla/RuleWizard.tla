----------------------------- MODULE RuleWizard -----------------------------
(* How a rule comes to its configuration: the pages of the wizard that        *)
(* creates it, of the dialog that edits it, and the migration of rules of     *)
(* schema version 1 (config_flow.py, async_migrate_entry).  A page checks     *)
(* what it collects when it is submitted; what is saved at the end was        *)
(* checked page by page, against what other flows have since changed.         *)
(* Delays, rates and conditions are not followed: no later page depends on    *)
(* them.  A form refused for its input is shown again and changes nothing.    *)
EXTENDS FiniteSets

CONSTANTS
    Names,          \* rule names
    Targetable,     \* entities of a domain the target picker offers
    Sensors,        \* entities that can only be followed
    Safety,         \* entities of SAFETY_DOMAINS
    Offers,         \* [Targetable -> SUBSET Attributes], ATTRIBUTES_BY_DOMAIN
    Colors,         \* the color attributes
    States,         \* states to trigger on and to enforce
    NoEntity        \* no source

ASSUME WizardAssumption ==
    /\ Safety \subseteq Targetable /\ DOMAIN Offers = Targetable
    /\ NoEntity \notin Targetable \cup Sensors

VARIABLES
    rule,       \* the stored configuration of one rule, or NoRule
    flow,       \* the page a user is at, and what the flow has collected
    others,     \* the names of all other rules
    late,       \* the names others took while the flow was open
    issue       \* the repair issue "migrated without a source"

vars == <<rule, flow, others, late, issue>>

-----------------------------------------------------------------------------
(* A configuration: entry.data overlaid by entry.options.  "born" is the name  *)
(* that stays in entry.data.  Two fields are history: "retargeted", the targets *)
(* were edited after the source and the attribute were checked against them;   *)
(* "raced", the name was written by a flow that was open when others took it.  *)

Attributes == UNION {Offers[e] : e \in Targetable}
StateModes == {"fixed_state", "dynamic_state"}
DynamicModes == {"dynamic_state", "dynamic_attribute"}

Blank == [name |-> "none", born |-> "none", mode |-> "none", targets |-> {},
          trigger |-> "none", to |-> "none", attribute |-> "none", clamps |-> FALSE,
          source |-> NoEntity, from |-> "state", picked |-> FALSE,
          verify |-> FALSE, acked |-> FALSE, retargeted |-> FALSE, raced |-> FALSE]
NoRule == Blank
Exists(r) == r.mode # "none"

\* _attributes_for_entities (a domain without any falls back to the numeric ones)
Offered(T) == LET own == UNION {Offers[e] : e \in T}
              IN  IF own = {} THEN Attributes \ Colors ELSE own

\* has_safety_target
HasSafety(T) == T \cap Safety # {}

\* _rule_name_taken: the merged name of each rule other than r
TakenByData(n, r) == n \in others \/ (Exists(r) /\ r.born = n)  \* mutant: entry.data only
Taken(n, r) == n \in others \/ (Exists(r) /\ r.name = n)

-----------------------------------------------------------------------------
(* What the pages validate and collect; wizard and dialog share these.         *)

WithStates(d, w, v) == [d EXCEPT !.trigger = w, !.to = v]
StatesOk(w, v) == w # v     \* target_in_triggers

\* _validate_source_target, _validate_dynamic_attribute
SourceOk(d, s) == s \notin d.targets
AttributeOk(d, a) == a \in Offered(d.targets)

\* A followed attribute is collected on the next page; a followed state has none
WithSource(d, s, from) ==
    [d EXCEPT !.source = s, !.from = from, !.picked = @ /\ from = "attribute",
              !.retargeted = FALSE]

FormsUnchecked(d) ==  \* mutant: the source may be one of the targets
    {WithSource(d, s, f) : s \in Targetable \cup Sensors, f \in {"state", "attribute"}}

Forms(d) ==
    CASE d.mode = "dynamic_state" ->
            {WithSource(d, s, f) : s \in {e \in Targetable \cup Sensors : SourceOk(d, e)},
                                    f \in {"state", "attribute"}}
      [] d.mode = "dynamic_attribute" ->
            {[WithSource(d, s, f) EXCEPT !.attribute = a] :
                s \in {e \in Targetable \cup Sensors : SourceOk(d, e)},
                a \in {b \in Attributes : AttributeOk(d, b)}, f \in {"state", "attribute"}}
      [] OTHER -> {}

\* async_step_attribute_params: colors are matched, numbers clamped
WithParams(d) == [d EXCEPT !.clamps = d.attribute \notin Colors]

-----------------------------------------------------------------------------
(* Flows.                                                                      *)

Closed == [page |-> "closed", data |-> Blank, advanced |-> FALSE]
At(page, d) == [flow EXCEPT !.page = page, !.data = d]

Goto(page, d) == /\ flow' = At(page, d)
                 /\ UNCHANGED <<rule, others, late, issue>>

Close == /\ flow.page # "closed"
         /\ flow' = Closed
         /\ UNCHANGED <<rule, others, late, issue>>

\* The wizard.  async_step_rule checks name and targets, and the mode picks the branch.
StepRule(n, T, m) ==
    /\ flow.page = "closed" /\ ~Exists(rule) /\ ~Taken(n, rule) /\ T # {}
    /\ flow' = [page |-> CASE m = "fixed_state" -> "state"
                            [] m = "fixed_attribute" -> "attribute"
                            [] OTHER -> "dynamic_params",
                data |-> [Blank EXCEPT !.name = n, !.born = n, !.targets = T, !.mode = m],
                advanced |-> FALSE]
    /\ late' = {}
    /\ UNCHANGED <<rule, others, issue>>

StepState(w, v) == /\ flow.page = "state" /\ StatesOk(w, v)
                   /\ Goto("extras", WithStates(flow.data, w, v))

StepAttribute(a) == /\ flow.page = "attribute" /\ AttributeOk(flow.data, a)
                    /\ Goto("attribute_params", [flow.data EXCEPT !.attribute = a])

StepAttributeParams == /\ flow.page = "attribute_params"
                       /\ Goto("extras", WithParams(flow.data))

StepDynamicParams == /\ flow.page = "dynamic_params"
                     /\ \E d \in Forms(flow.data) :
                            Goto(IF d.from = "attribute" THEN "pick" ELSE "extras", d)

StepPick == /\ flow.page = "pick"
            /\ Goto("extras", [flow.data EXCEPT !.picked = TRUE])

\* _after_flags and _after_advanced
AfterAdvanced(d) == IF HasSafety(d.targets) THEN "safety" ELSE "preview"
AfterFlags(d, advanced) == IF advanced THEN "advanced" ELSE AfterAdvanced(d)

\* The verify toggle is shown, and honored, in the state modes only
StepExtras(verify, flags, advanced) ==
    /\ flow.page = "extras"
    /\ LET d == [flow.data EXCEPT !.verify = verify /\ flow.data.mode \in StateModes]
       IN  flow' = [page |-> IF flags THEN "flags" ELSE AfterFlags(d, advanced),
                    data |-> d, advanced |-> advanced]
    /\ UNCHANGED <<rule, others, late, issue>>

StepFlags == flow.page = "flags" /\ Goto(AfterFlags(flow.data, flow.advanced), flow.data)

StepAdvanced == flow.page = "advanced" /\ Goto(AfterAdvanced(flow.data), flow.data)

StepSafety == flow.page = "safety" /\ Goto("preview", [flow.data EXCEPT !.acked = TRUE])

\* The entry is written; a source clears the repair issue (_async_update_listener)
Save(d) == /\ rule' = [d EXCEPT !.raced = @ \/ d.name \in late]
           /\ issue' = (issue /\ d.source = NoEntity)
           /\ flow' = Closed
           /\ UNCHANGED <<others, late>>

StepPreview == flow.page = "preview" /\ Save(flow.data)

\* The dialog works on a copy of the stored configuration and saves all of it
OpenDialog == /\ flow.page = "closed" /\ Exists(rule)
              /\ flow' = At("menu", rule) /\ late' = {}
              /\ UNCHANGED <<rule, others, issue>>

Menu == flow.page = "menu"
Working == flow.data

EditBasics(n) ==
    Menu /\ n \notin others /\ Save([Working EXCEPT !.name = n, !.raced = FALSE])

\* Only the safety of the new targets is looked at
EditEntitiesOldSafety(T) ==  \* mutant: looks at the targets it replaces
    /\ Menu /\ T # {}
    /\ LET d == [Working EXCEPT !.targets = T, !.retargeted = TRUE]
       IN  IF HasSafety(Working.targets) /\ ~d.acked THEN Goto("edit_safety", d) ELSE Save(d)

EditEntities(T) ==
    /\ Menu /\ T # {}
    /\ LET d == [Working EXCEPT !.targets = T, !.retargeted = TRUE]
       IN  IF HasSafety(T) /\ ~d.acked THEN Goto("edit_safety", d) ELSE Save(d)

EditSafety == flow.page = "edit_safety" /\ Save([Working EXCEPT !.acked = TRUE])

EditState(w, v) == /\ Menu /\ Working.mode = "fixed_state" /\ StatesOk(w, v)
                   /\ Save(WithStates(Working, w, v))

EditDynamicParamsAtOnce ==  \* mutant: saved before the attribute is picked
    /\ Menu /\ Working.mode \in DynamicModes
    /\ \E d \in Forms(Working) : Save(d)

EditDynamicParams ==
    /\ Menu /\ Working.mode \in DynamicModes
    /\ \E d \in Forms(Working) : IF d.from = "attribute" THEN Goto("edit_pick", d) ELSE Save(d)

EditPick == flow.page = "edit_pick" /\ Save([Working EXCEPT !.picked = TRUE])

\* The stored attribute stays in the list, even where it suits no target any more
EditAttribute(a) ==
    /\ Menu /\ Working.mode = "fixed_attribute"
    /\ AttributeOk(Working, a) \/ a = Working.attribute
    /\ Goto("edit_attribute_params",
            [Working EXCEPT !.attribute = a, !.retargeted = @ /\ ~AttributeOk(Working, a)])

EditAttributeParams == flow.page = "edit_attribute_params" /\ Save(WithParams(Working))

EditFlags == Menu /\ Save(Working)

EditAdvanced(verify) ==
    Menu /\ Save([Working EXCEPT !.verify = IF Working.mode \in StateModes THEN verify ELSE @])

-----------------------------------------------------------------------------
(* Other users.                                                                *)

\* Another wizard or dialog writes a name it has checked just now
OthersTake(n) == /\ ~Taken(n, rule)
                 /\ others' = others \cup {n} /\ late' = late \cup {n}
                 /\ UNCHANGED <<rule, flow, issue>>

OthersRelease(n) == /\ n \in others
                    /\ others' = others \ {n}
                    /\ UNCHANGED <<rule, flow, late, issue>>

\* Another dialog renames this rule
Renamed(n) == /\ Exists(rule) /\ n \notin others
              /\ rule' = [rule EXCEPT !.name = n, !.raced = FALSE]
              /\ UNCHANGED <<flow, others, late, issue>>

\* The rule is deleted, while no dialog edits it
Removed == /\ Exists(rule) /\ flow.page = "closed"
           /\ rule' = NoRule /\ issue' = FALSE
           /\ UNCHANGED <<flow, others, late>>

-----------------------------------------------------------------------------
(* Specification.                                                              *)

\* Rules of version 1; a follow rule kept no source, but possibly an attribute
OfVersion1(n, e) == [Blank EXCEPT !.name = n, !.born = n, !.targets = {e}, !.acked = e \in Safety]
StateRule(n, e, w, v) == [OfVersion1(n, e) EXCEPT !.mode = "state", !.trigger = w, !.to = v]
AttributeRule(n, e, m, a) ==
    [OfVersion1(n, e) EXCEPT !.mode = m, !.attribute = a, !.clamps = a \notin Colors]

Version1(n) ==
    UNION {{StateRule(n, e, p[1], p[2]) : p \in {q \in States \X States : StatesOk(q[1], q[2])}}
           \cup {AttributeRule(n, e, m, a) : m \in {"attribute", "follow"}, a \in Offers[e]} :
               e \in Targetable}

\* async_migrate_entry: renames the mode and drops what a follow rule had added
Migrated(r) ==
    CASE r.mode = "state" -> [r EXCEPT !.mode = "fixed_state"]
      [] r.mode = "attribute" -> [r EXCEPT !.mode = "fixed_attribute"]
      [] r.mode = "follow" -> [r EXCEPT !.mode = "dynamic_state", !.attribute = "none",
                                        !.clamps = FALSE]
MigrationIssue(r) == r.mode = "dynamic_state" /\ r.source = NoEntity

Init == /\ rule \in {NoRule} \cup {Migrated(r) : r \in UNION {Version1(n) : n \in Names}}
        /\ issue = MigrationIssue(rule)
        /\ flow = Closed /\ others = {} /\ late = {}

Modes == StateModes \cup DynamicModes \cup {"fixed_attribute"}

Wizard ==
    \/ \E n \in Names, T \in SUBSET Targetable, m \in Modes : StepRule(n, T, m)
    \/ \E w, v \in States : StepState(w, v)
    \/ \E a \in Attributes : StepAttribute(a)
    \/ StepAttributeParams \/ StepDynamicParams \/ StepPick
    \/ \E verify, flags, advanced \in BOOLEAN : StepExtras(verify, flags, advanced)
    \/ StepFlags \/ StepAdvanced \/ StepSafety \/ StepPreview

Dialog ==
    \/ OpenDialog
    \/ \E n \in Names : EditBasics(n)
    \/ \E T \in SUBSET Targetable : EditEntities(T)
    \/ \E w, v \in States : EditState(w, v)
    \/ \E a \in Attributes : EditAttribute(a)
    \/ \E verify \in BOOLEAN : EditAdvanced(verify)
    \/ EditSafety \/ EditDynamicParams \/ EditPick \/ EditAttributeParams \/ EditFlags

OtherUsers == \/ \E n \in Names : OthersTake(n) \/ OthersRelease(n) \/ Renamed(n)
              \/ Removed

Next == Wizard \/ Dialog \/ Close \/ OtherUsers

Spec == Init /\ [][Next]_vars

-----------------------------------------------------------------------------
(* Properties.                                                                 *)

\* Two rules share a name only if one of them got it from a flow that was open when
\* the other took it: the wizard checks the name on its first page and writes it on
\* its last, and a dialog writes back the name it opened with.  No sequence of
\* renames defeats the check otherwise.
NamesClashOnlyInRace == Exists(rule) /\ rule.name \in others => rule.raced

\* Whatever pages the rule went through, it never guards a cover, lock, climate or
\* valve that nobody acknowledged.
SafetyIsAcknowledged == Exists(rule) /\ HasSafety(rule.targets) => rule.acked

\* A stored dynamic rule is complete: it has a source, or the repair issue says that
\* it has none, and the name of the source's attribute exactly if it follows one;
\* a two-page edit that is abandoned leaves nothing of its first page behind.
FollowIsComplete ==
    rule.mode \in DynamicModes => /\ (rule.source = NoEntity) <=> issue
                                  /\ (rule.from = "attribute") <=> rule.picked

\* A stored rule follows one of its own targets, or enforces an attribute that none
\* of them has, only after its targets were edited: that page alone checks neither.
HolesComeFromRetargeting ==
    Exists(rule) /\ ~rule.retargeted
        => /\ rule.source \notin rule.targets
           /\ rule.attribute # "none" => rule.attribute \in Offered(rule.targets)

=============================================================================
