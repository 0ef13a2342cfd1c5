-------------------------- MODULE RuleWizardProofs --------------------------
(***************************************************************************)
(* Which rules the wizard, the dialog and the migration let through, for   *)
(* any entities, attributes, states and names.                             *)
(***************************************************************************)
EXTENDS RuleWizard, TLAPS

-----------------------------------------------------------------------------
(* The invariant.                                                          *)

Config == [name : Names \cup {"none"}, born : Names \cup {"none"}, mode : Modes \cup {"none"},
           targets : SUBSET Targetable, trigger : States \cup {"none"},
           to : States \cup {"none"}, attribute : Attributes \cup {"none"},
           clamps : BOOLEAN, source : Targetable \cup Sensors \cup {NoEntity},
           from : {"state", "attribute"}, picked : BOOLEAN, verify : BOOLEAN,
           acked : BOOLEAN, retargeted : BOOLEAN, raced : BOOLEAN]

\* Pages on which the wizard's collected data is complete but for flags, those whose
\* next page asks for the source's attribute, and those of the dialog
Late    == {"extras", "flags", "advanced", "safety", "preview"}
Picking == {"pick", "edit_pick"}
Editing == {"menu", "edit_safety", "edit_attribute_params"}
Pages   == {"closed", "state", "attribute", "attribute_params", "dynamic_params"}
             \cup Late \cup Picking \cup Editing

Typed == /\ rule \in Config
         /\ flow \in [page : Pages, data : Config, advanced : BOOLEAN]
         /\ others \subseteq Names /\ late \subseteq Names
         /\ issue \in BOOLEAN

\* A configuration has the fields of its mode only, and fits its targets unless they
\* were edited.
Fits(d) == ~d.retargeted => /\ d.source \notin d.targets
                            /\ d.attribute # "none" => d.attribute \in Offered(d.targets)
Shaped(d) == /\ d.mode \notin DynamicModes => d.source = NoEntity
             /\ d.mode \notin {"fixed_attribute", "dynamic_attribute"} => d.attribute = "none"
             /\ Fits(d)

\* The pages that belong to one branch of the modes
Branch(page, d) ==
    /\ page = "state" => d.mode = "fixed_state"
    /\ page \in {"attribute", "attribute_params", "edit_attribute_params"}
           => d.mode = "fixed_attribute"
    /\ page \in {"dynamic_params"} \cup Picking => d.mode \in DynamicModes

\* The source is there, and the name of its attribute if it is the attribute that counts
Follows(d)   == d.source # NoEntity /\ (d.from = "attribute" <=> d.picked)
Complete(d, i) == d.mode \in DynamicModes => /\ (d.source = NoEntity) <=> i
                                             /\ (d.from = "attribute") <=> d.picked
SourceKnown(page, d, i) ==
    /\ page \in Late /\ d.mode \in DynamicModes => Follows(d)
    /\ page \in Picking => d.source # NoEntity /\ d.from = "attribute"
    /\ page \in Editing => Complete(d, i)

\* On the last page before it is saved, a configuration is acknowledged if need be.
Safe(d) == HasSafety(d.targets) => d.acked
SafeOn(page, d) == page \in {"preview", "edit_pick", "edit_attribute_params", "menu"} => Safe(d)

\* A name that others have was taken while this flow was open.
Named(page, d) == page # "closed" /\ d.name \in others => d.name \in late \/ d.raced

RuleSound == /\ Shaped(rule) /\ Safe(rule) /\ Complete(rule, issue)
             /\ NamesClashOnlyInRace
FlowSound == /\ Shaped(flow.data) /\ Branch(flow.page, flow.data)
             /\ SourceKnown(flow.page, flow.data, issue)
             /\ SafeOn(flow.page, flow.data) /\ Named(flow.page, flow.data)

IInv == Typed /\ RuleSound /\ FlowSound

-----------------------------------------------------------------------------
(* The two ways a flow goes on: to another page, or into the entry.        *)

\* What must hold of a configuration that is saved.
Savable(d) ==
    /\ Shaped(d) /\ Safe(d)
    /\ d.mode \in DynamicModes => /\ d.source = NoEntity => issue
                                  /\ (d.from = "attribute") <=> d.picked
    /\ d.name \in others => d.name \in late \/ d.raced

\* A flow that is closed keeps no promise.
LEMMA ClosedSound ==
    ASSUME NEW i, NEW x
    PROVE  /\ Blank \in Config /\ Shaped(Blank) /\ Safe(Blank)
           /\ Closed \in [page : Pages, data : Config, advanced : BOOLEAN]
           /\ Closed.page = "closed" /\ Closed.data = Blank
           /\ Branch("closed", Blank) /\ SourceKnown("closed", Blank, i)
           /\ SafeOn("closed", Blank) /\ Named("closed", Blank)
           /\ ~Exists(Blank) /\ Complete(Blank, i)
  <1>1. Blank \in Config
    BY DEF Blank, Config
  <1>2. /\ Blank.mode = "none" /\ Blank.targets = {} /\ Blank.attribute = "none"
        /\ Blank.source = NoEntity
    BY DEF Blank
  <1>3. "none" \notin DynamicModes
    BY DEF DynamicModes
  <1>4. Shaped(Blank) /\ Safe(Blank) /\ ~Exists(Blank) /\ Complete(Blank, i)
    BY <1>2, <1>3 DEF Shaped, Fits, Safe, HasSafety, Exists, Complete
  <1>5. /\ Closed \in [page : Pages, data : Config, advanced : BOOLEAN]
        /\ Closed.page = "closed" /\ Closed.data = Blank
    BY <1>1 DEF Closed, Pages
  <1>6. "closed" \notin Late \cup Picking \cup Editing
    BY DEF Late, Picking, Editing
  <1> QED
    BY <1>1, <1>4, <1>5, <1>6 DEF Branch, SourceKnown, SafeOn, Named

\* Saving.
LEMMA SaveSound ==
    ASSUME Typed, NEW d \in Config, Savable(d), Save(d)
    PROVE  IInv'
  <1> DEFINE raced == d.raced \/ d.name \in late
  <1>1. /\ rule' = [d EXCEPT !.raced = raced] /\ flow' = Closed
        /\ issue' = (issue /\ d.source = NoEntity) /\ others' = others /\ late' = late
    BY DEF Save
  <1>2. d.raced \in BOOLEAN /\ raced \in BOOLEAN
    BY DEF Config
  <1> HIDE DEF raced
  <1>3. /\ rule' \in Config /\ rule'.raced = raced
        /\ rule'.name = d.name /\ rule'.mode = d.mode /\ rule'.targets = d.targets
        /\ rule'.source = d.source /\ rule'.attribute = d.attribute /\ rule'.acked = d.acked
        /\ rule'.retargeted = d.retargeted /\ rule'.from = d.from /\ rule'.picked = d.picked
    BY <1>1, <1>2 DEF Config
  <1>4. Typed'
    BY <1>1, <1>3, ClosedSound DEF Typed
  <1>5. Shaped(rule') /\ Safe(rule')
    BY <1>3 DEF Savable, Shaped, Fits, Safe
  <1>6. Complete(rule', issue')
    BY <1>1, <1>3 DEF Savable, Complete, Typed
  <1>7. NamesClashOnlyInRace'
    <2>1. rule'.name \in others' => raced
      BY <1>1, <1>3 DEF Savable, raced
    <2> QED
      BY <1>3, <2>1 DEF NamesClashOnlyInRace
  <1>8. RuleSound'
    BY <1>5, <1>6, <1>7 DEF RuleSound, Shaped, Fits, Safe, Complete
  <1>9. flow'.page = "closed" /\ flow'.data = Blank
    BY <1>1, ClosedSound
  <1>10. FlowSound'
    BY <1>1, <1>9, ClosedSound DEF FlowSound, Shaped, Fits, Branch, SourceKnown, SafeOn, Named,
       Late, Picking, Editing
  <1> QED
    BY <1>4, <1>8, <1>10 DEF IInv

\* Going to another page.
LEMMA GotoSound ==
    ASSUME IInv, NEW d \in Config, NEW page \in Pages, Goto(page, d),
           Shaped(d), Branch(page, d), SourceKnown(page, d, issue), SafeOn(page, d),
           Named(page, d)
    PROVE  IInv'
  <1>1. /\ flow' = [flow EXCEPT !.page = page, !.data = d]
        /\ rule' = rule /\ others' = others /\ late' = late /\ issue' = issue
    BY DEF Goto, At
  <1>2. /\ flow' \in [page : Pages, data : Config, advanced : BOOLEAN]
        /\ flow'.page = page /\ flow'.data = d
    BY <1>1 DEF IInv, Typed
  <1>3. Typed'
    BY <1>1, <1>2 DEF IInv, Typed
  <1>4. RuleSound'
    BY <1>1 DEF IInv, RuleSound, NamesClashOnlyInRace
  <1>5. FlowSound'
    BY <1>1, <1>2 DEF FlowSound, Named
  <1> QED
    BY <1>3, <1>4, <1>5 DEF IInv

-----------------------------------------------------------------------------
(* The migration and the initial states.                                   *)

\* Membership as a truth value.
LEMMA Membership ==
    ASSUME NEW e, NEW S
    PROVE  \E k \in BOOLEAN : k = (e \in S)
  <1>1. (e \in S) \in BOOLEAN
    OBVIOUS
  <1> WITNESS (e \in S) \in BOOLEAN
  <1> QED
    OBVIOUS

\* A migrated rule is shaped by its mode, acknowledged, and complete but for the issue.
LEMMA MigratedSound ==
    ASSUME NEW n \in Names, NEW r \in Version1(n), NEW m, m = Migrated(r)
    PROVE  m \in Config /\ Shaped(m) /\ Safe(m) /\ Complete(m, MigrationIssue(m))
  <1>1. \A e \in Targetable : e # NoEntity /\ Offers[e] \subseteq Attributes
    BY WizardAssumption DEF Attributes
  <1>2. \A e \in Targetable : \A a \in Offers[e] : a \in Offered({e})
    BY DEF Offered
  <1>7. n \in Names /\ \A e \in Targetable : {e} \subseteq Targetable
    OBVIOUS
  <1>3. ASSUME NEW e \in Targetable, NEW w \in States, NEW v \in States, NEW k \in BOOLEAN,
               k = (e \in Safety),
               r = [Blank EXCEPT !.name = n, !.born = n, !.targets = {e}, !.acked = k,
                                 !.mode = "state", !.trigger = w, !.to = v]
        PROVE  m \in Config /\ Shaped(m) /\ Safe(m) /\ Complete(m, MigrationIssue(m))
    <2>1. m = [r EXCEPT !.mode = "fixed_state"]
      BY <1>3 DEF Migrated, Blank
    <2>a. m = [name |-> n, born |-> n, mode |-> "fixed_state", targets |-> {e},
              trigger |-> w, to |-> v, attribute |-> "none", clamps |-> FALSE,
              source |-> NoEntity, from |-> "state", picked |-> FALSE, verify |-> FALSE,
              acked |-> k, retargeted |-> FALSE, raced |-> FALSE]
      BY <1>3, <2>1 DEF Blank
    <2>2. /\ m.mode = "fixed_state" /\ m.targets = {e} /\ m.attribute = "none"
          /\ m.source = NoEntity /\ m.acked = k /\ m \in Config
      BY <1>7, <2>a DEF Config, Modes, StateModes, DynamicModes
    <2>3. Shaped(m) /\ Complete(m, MigrationIssue(m))
      BY <1>1, <2>2 DEF Shaped, Fits, Complete, DynamicModes
    <2>4. Safe(m)
      BY <1>3, <2>2 DEF Safe, HasSafety
    <2> QED
      BY <2>2, <2>3, <2>4
  <1>4. ASSUME NEW e \in Targetable, NEW a, a \in Offers[e], NEW k \in BOOLEAN,
               k = (e \in Safety), NEW c \in BOOLEAN, NEW old \in {"attribute", "follow"},
               r = [Blank EXCEPT !.name = n, !.born = n, !.targets = {e}, !.acked = k,
                                 !.mode = old, !.attribute = a, !.clamps = c]
        PROVE  m \in Config /\ Shaped(m) /\ Safe(m) /\ Complete(m, MigrationIssue(m))
    <2>1. a \in Attributes /\ a \in Offered({e})
      BY <1>1, <1>2, <1>4
    <2>2. CASE old = "attribute"
      <3>1. m = [r EXCEPT !.mode = "fixed_attribute"]
        BY <1>4, <2>2 DEF Migrated, Blank
      <3>a. m = [name |-> n, born |-> n, mode |-> "fixed_attribute", targets |-> {e},
                trigger |-> "none", to |-> "none", attribute |-> a, clamps |-> c,
                source |-> NoEntity, from |-> "state", picked |-> FALSE, verify |-> FALSE,
                acked |-> k, retargeted |-> FALSE, raced |-> FALSE]
        BY <1>4, <2>2, <3>1 DEF Blank
      <3>2. /\ m.mode = "fixed_attribute" /\ m.targets = {e} /\ m.attribute = a
            /\ m.source = NoEntity /\ m.acked = k /\ m \in Config
        BY <1>7, <3>a, <2>1 DEF Config, Modes, StateModes, DynamicModes
      <3>3. Shaped(m) /\ Complete(m, MigrationIssue(m))
        BY <1>1, <2>1, <3>2 DEF Shaped, Fits, Complete, DynamicModes
      <3>4. Safe(m)
        BY <1>4, <3>2 DEF Safe, HasSafety
      <3> QED
        BY <3>2, <3>3, <3>4
    <2>3. CASE old = "follow"
      <3>1. m = [r EXCEPT !.mode = "dynamic_state", !.attribute = "none", !.clamps = FALSE]
        BY <1>4, <2>3 DEF Migrated, Blank
      <3>a. m = [name |-> n, born |-> n, mode |-> "dynamic_state", targets |-> {e},
                trigger |-> "none", to |-> "none", attribute |-> "none", clamps |-> FALSE,
                source |-> NoEntity, from |-> "state", picked |-> FALSE, verify |-> FALSE,
                acked |-> k, retargeted |-> FALSE, raced |-> FALSE]
        BY <1>4, <2>3, <3>1 DEF Blank
      <3>2. /\ m.mode = "dynamic_state" /\ m.targets = {e} /\ m.attribute = "none"
            /\ m.source = NoEntity /\ m.acked = k /\ m \in Config
            /\ m.from = "state" /\ m.picked = FALSE
        BY <1>7, <3>a DEF Config, Modes, StateModes, DynamicModes
      <3>3. Shaped(m) /\ Complete(m, MigrationIssue(m))
        BY <1>1, <3>2 DEF Shaped, Fits, Complete, DynamicModes, MigrationIssue
      <3>4. Safe(m)
        BY <1>4, <3>2 DEF Safe, HasSafety
      <3> QED
        BY <3>2, <3>3, <3>4
    <2> QED
      BY <2>2, <2>3, <1>4
  <1>5. ASSUME NEW e \in Targetable, NEW w \in States, NEW v \in States,
               r = StateRule(n, e, w, v)
        PROVE  m \in Config /\ Shaped(m) /\ Safe(m) /\ Complete(m, MigrationIssue(m))
    <2>1. PICK k \in BOOLEAN : k = (e \in Safety)
      BY Membership
    <2>2. r = [Blank EXCEPT !.name = n, !.born = n, !.targets = {e}, !.acked = k,
                            !.mode = "state", !.trigger = w, !.to = v]
      <3>1. OfVersion1(n, e)
              = [Blank EXCEPT !.name = n, !.born = n, !.targets = {e}, !.acked = k]
        BY <2>1, Zenon DEF OfVersion1
      <3> QED
        BY <1>5, <3>1 DEF StateRule, Blank
    <2> QED
      BY <1>3, <2>1, <2>2
  <1>6. ASSUME NEW e \in Targetable, NEW a, a \in Offers[e], NEW old \in {"attribute", "follow"},
               r = AttributeRule(n, e, old, a)
        PROVE  m \in Config /\ Shaped(m) /\ Safe(m) /\ Complete(m, MigrationIssue(m))
    <2>1. PICK k \in BOOLEAN : k = (e \in Safety)
      BY Membership
    <2>2. PICK b \in BOOLEAN : b = (a \in Colors)
      BY Membership
    <2> DEFINE c == ~b
    <2>3. r = [Blank EXCEPT !.name = n, !.born = n, !.targets = {e}, !.acked = k,
                            !.mode = old, !.attribute = a, !.clamps = c]
      <3>1. OfVersion1(n, e)
              = [Blank EXCEPT !.name = n, !.born = n, !.targets = {e}, !.acked = k]
        BY <2>1, Zenon DEF OfVersion1
      <3>2. AttributeRule(n, e, old, a)
              = [OfVersion1(n, e) EXCEPT !.mode = old, !.attribute = a, !.clamps = ~b]
        BY <2>2, Zenon DEF AttributeRule
      <3> QED
        BY <1>6, <3>1, <3>2 DEF Blank
    <2>4. c \in BOOLEAN
      OBVIOUS
    <2> HIDE DEF c
    <2> QED
      BY <1>4, <1>6, <2>1, <2>3, <2>4
  <1>8. PICK e \in Targetable :
           \/ \E p \in States \X States : r = StateRule(n, e, p[1], p[2])
           \/ \E old \in {"attribute", "follow"} : \E a \in Offers[e] :
                  r = AttributeRule(n, e, old, a)
    BY DEF Version1
  <1> QED
    BY <1>5, <1>6, <1>8

\* The invariant holds initially.
LEMMA InitIInv == Init => IInv
  <1> SUFFICES ASSUME Init PROVE IInv
    OBVIOUS
  <1>1. /\ issue = MigrationIssue(rule) /\ flow = Closed /\ others = {} /\ late = {}
    BY DEF Init
  <1>2. rule \in Config /\ Shaped(rule) /\ Safe(rule) /\ Complete(rule, issue)
    <2>1. CASE rule = NoRule
      BY <2>1, ClosedSound DEF NoRule
    <2>2. ASSUME NEW n \in Names, NEW r \in Version1(n), rule = Migrated(r)
          PROVE  rule \in Config /\ Shaped(rule) /\ Safe(rule) /\ Complete(rule, issue)
      BY <1>1, <2>2, MigratedSound
    <2> QED
      BY <2>1, <2>2 DEF Init
  <1>3. issue \in BOOLEAN
    BY <1>1 DEF MigrationIssue
  <1>4. Typed
    BY <1>1, <1>2, <1>3, ClosedSound DEF Typed
  <1>5. RuleSound
    BY <1>1, <1>2 DEF RuleSound, NamesClashOnlyInRace
  <1>6. FlowSound
    BY <1>1, ClosedSound DEF FlowSound
  <1> QED
    BY <1>4, <1>5, <1>6 DEF IInv
-----------------------------------------------------------------------------
(* What the pages do to a configuration.                                   *)

\* The fields the invariant reads are the same in both.
Kin(x, d)  == /\ x.mode = d.mode /\ x.targets = d.targets /\ x.source = d.source
              /\ x.attribute = d.attribute /\ x.acked = d.acked
              /\ x.retargeted = d.retargeted /\ x.from = d.from /\ x.picked = d.picked
Twin(x, d) == Kin(x, d) /\ x.name = d.name /\ x.raced = d.raced

LEMMA KinSound ==
    ASSUME NEW x, NEW d, Kin(x, d), NEW page, NEW i
    PROVE  /\ Shaped(d) => Shaped(x)
           /\ Safe(d) => Safe(x)
           /\ Complete(d, i) => Complete(x, i)
           /\ Follows(d) => Follows(x)
           /\ Branch(page, d) => Branch(page, x)
           /\ SourceKnown(page, d, i) => SourceKnown(page, x, i)
           /\ SafeOn(page, d) => SafeOn(page, x)
  BY DEF Kin, Shaped, Fits, Safe, Complete, Follows, Branch, SourceKnown, SafeOn

LEMMA TwinSavable ==
    ASSUME NEW x, NEW d, Twin(x, d), Savable(d)
    PROVE  Savable(x)
  <1>1. Shaped(x) /\ Safe(x)
    BY KinSound DEF Twin, Savable
  <1> QED
    BY <1>1 DEF Twin, Kin, Savable

LEMMA StatesTwin ==
    ASSUME NEW d \in Config, NEW w \in States, NEW v \in States
    PROVE  WithStates(d, w, v) \in Config /\ Twin(WithStates(d, w, v), d)
  BY DEF WithStates, Config, Twin, Kin

LEMMA VerifyTwin ==
    ASSUME NEW d \in Config, NEW b \in BOOLEAN
    PROVE  [d EXCEPT !.verify = b] \in Config /\ Twin([d EXCEPT !.verify = b], d)
  BY DEF Config, Twin, Kin

LEMMA ParamsTwin ==
    ASSUME NEW d \in Config
    PROVE  WithParams(d) \in Config /\ Twin(WithParams(d), d)
  <1>1. PICK b \in BOOLEAN : b = (d.attribute \in Colors)
    BY Membership
  <1> DEFINE c == ~b
  <1>2. WithParams(d) = [d EXCEPT !.clamps = c]
    BY <1>1, Zenon DEF WithParams
  <1>3. c \in BOOLEAN
    OBVIOUS
  <1> HIDE DEF c
  <1> QED
    BY <1>2, <1>3 DEF Config, Twin, Kin

\* A source is collected: it is no target, and its attribute is still to be picked.
LEMMA FormsSound ==
    ASSUME NEW x \in Config, Shaped(x), x.mode \in DynamicModes, NEW d \in Forms(x)
    PROVE  /\ d \in Config /\ Shaped(d) /\ d.source # NoEntity
           /\ d.mode = x.mode /\ d.targets = x.targets /\ d.acked = x.acked
           /\ d.name = x.name /\ d.raced = x.raced
           /\ d.from = "state" => ~d.picked
  <1> DEFINE Sourced(s, f) == WithSource(x, s, f)
  <1>1. ASSUME NEW s \in Targetable \cup Sensors, NEW f \in {"state", "attribute"}
        PROVE  /\ Sourced(s, f) \in Config /\ Sourced(s, f).source = s
               /\ Sourced(s, f).mode = x.mode /\ Sourced(s, f).targets = x.targets
               /\ Sourced(s, f).acked = x.acked /\ Sourced(s, f).name = x.name
               /\ Sourced(s, f).raced = x.raced /\ Sourced(s, f).from = f
               /\ Sourced(s, f).attribute = x.attribute
               /\ f = "state" => ~Sourced(s, f).picked
    <2> DEFINE c == x.picked /\ f = "attribute"
    <2>1. Sourced(s, f) = [x EXCEPT !.source = s, !.from = f, !.picked = c,
                                    !.retargeted = FALSE]
      BY DEF WithSource
    <2>2. c \in BOOLEAN /\ (f = "state" => ~c)
      BY DEF Config
    <2> HIDE DEF c
    <2> QED
      BY <2>1, <2>2 DEF Config
  <1>2. NoEntity \notin Targetable \cup Sensors
    BY WizardAssumption
  <1>3. CASE x.mode = "dynamic_state"
    <2>1. PICK s \in Targetable \cup Sensors, f \in {"state", "attribute"} :
             SourceOk(x, s) /\ d = Sourced(s, f)
      BY <1>3 DEF Forms
    <2> HIDE DEF Sourced
    <2>2. x.attribute = "none"
      BY <1>3 DEF Shaped
    <2>3. Shaped(d)
      BY <1>1, <1>3, <2>1, <2>2 DEF Shaped, Fits, SourceOk, DynamicModes
    <2> QED
      BY <1>1, <1>2, <2>1, <2>3
  <1>4. CASE x.mode = "dynamic_attribute"
    <2>1. PICK s \in Targetable \cup Sensors, a \in Attributes, f \in {"state", "attribute"} :
             SourceOk(x, s) /\ AttributeOk(x, a) /\ d = [Sourced(s, f) EXCEPT !.attribute = a]
      BY <1>4 DEF Forms
    <2> HIDE DEF Sourced
    <2>2. /\ d \in Config /\ d.attribute = a /\ d.source = s
          /\ d.mode = x.mode /\ d.targets = x.targets /\ d.acked = x.acked
          /\ d.name = x.name /\ d.raced = x.raced /\ d.from = f
          /\ f = "state" => ~d.picked
      BY <1>1, <2>1 DEF Config
    <2>3. Shaped(d)
      BY <1>4, <2>1, <2>2 DEF Shaped, Fits, SourceOk, AttributeOk, DynamicModes
    <2> QED
      BY <1>2, <2>2, <2>3
  <1> QED
    BY <1>3, <1>4 DEF DynamicModes

-----------------------------------------------------------------------------
(* What a flow knows at the page it has reached.                           *)

LEMMA AtPage ==
    ASSUME IInv
    PROVE  /\ flow.page \in Pages /\ flow.data \in Config /\ flow.advanced \in BOOLEAN
           /\ Shaped(flow.data) /\ Branch(flow.page, flow.data)
           /\ SourceKnown(flow.page, flow.data, issue)
           /\ SafeOn(flow.page, flow.data) /\ Named(flow.page, flow.data)
  BY DEF IInv, Typed, FlowSound

\* The pages that save the configuration as it is have checked all of it.
LEMMA FlowSavable ==
    ASSUME IInv, flow.page \in {"preview", "menu", "edit_attribute_params"}
    PROVE  Savable(flow.data)
  <1>1. flow.page # "closed" /\ Safe(flow.data)
    BY AtPage DEF SafeOn
  <1>2. flow.data.mode \in DynamicModes
            => /\ flow.data.source = NoEntity => issue
               /\ (flow.data.from = "attribute") <=> flow.data.picked
    BY AtPage DEF SourceKnown, Complete, Follows, Late, Editing
  <1> QED
    BY <1>1, <1>2, AtPage DEF Savable, Named

\* From here on the page shown is one of the last of the wizard.
LEMMA AfterFlagsSound ==
    ASSUME NEW d, NEW b \in BOOLEAN
    PROVE  /\ AfterFlags(d, b) \in Late \ {"extras", "flags"}
           /\ AfterAdvanced(d) \in Late \ {"extras", "flags", "advanced"}
           /\ SafeOn(AfterFlags(d, b), d) /\ SafeOn(AfterAdvanced(d), d)
  BY DEF AfterFlags, AfterAdvanced, Late, SafeOn, Safe

\* Between pages of the end of the wizard nothing has to be checked but what is guarded.
LEMMA LateBranch ==
    ASSUME NEW page \in Late, NEW d, NEW i
    PROVE  /\ page \in Pages /\ page # "closed" /\ Branch(page, d)
           /\ SourceKnown(page, d, i) <=> (d.mode \in DynamicModes => Follows(d))
  BY DEF Late, Picking, Editing, Pages, Branch, SourceKnown

-----------------------------------------------------------------------------
(* The wizard.                                                             *)

LEMMA StepRuleSound ==
    ASSUME IInv, NEW n \in Names, NEW T \in SUBSET Targetable, NEW m \in Modes,
           StepRule(n, T, m)
    PROVE  IInv'
  <1> DEFINE d    == [Blank EXCEPT !.name = n, !.born = n, !.targets = T, !.mode = m]
             page == CASE m = "fixed_state" -> "state"
                       [] m = "fixed_attribute" -> "attribute"
                       [] OTHER -> "dynamic_params"
  <1>1. /\ flow' = [page |-> page, data |-> d, advanced |-> FALSE]
        /\ late' = {} /\ rule' = rule /\ others' = others /\ issue' = issue /\ n \notin others
    BY DEF StepRule, Taken
  <1>2. /\ d \in Config /\ d.name = n /\ d.targets = T /\ d.mode = m
        /\ d.source = NoEntity /\ d.attribute = "none"
    BY DEF Blank, Config
  <1>3. /\ page \in {"state", "attribute", "dynamic_params"} /\ page \in Pages
        /\ page = "state" => m = "fixed_state"
        /\ page = "attribute" => m = "fixed_attribute"
        /\ page = "dynamic_params" => m \in DynamicModes
    BY DEF Pages, Modes, StateModes, DynamicModes
  <1> HIDE DEF d, page
  <1>4. flow' \in [page : Pages, data : Config, advanced : BOOLEAN]
    BY <1>1, <1>2, <1>3
  <1>5. flow'.page = page /\ flow'.data = d
    BY <1>1
  <1>6. Typed'
    BY <1>1, <1>4 DEF IInv, Typed
  <1>7. RuleSound'
    BY <1>1 DEF IInv, RuleSound, NamesClashOnlyInRace
  <1>8. Shaped(d)
    <2>1. NoEntity \notin T
      BY WizardAssumption
    <2> QED
      BY <1>2, <2>1 DEF Shaped, Fits
  <1>9. Branch(page, d) /\ SourceKnown(page, d, issue) /\ SafeOn(page, d)
    BY <1>2, <1>3 DEF Branch, SourceKnown, SafeOn, Late, Picking, Editing
  <1>10. FlowSound'
    BY <1>1, <1>2, <1>5, <1>8, <1>9 DEF FlowSound, Named
  <1> QED
    BY <1>6, <1>7, <1>10 DEF IInv

LEMMA StepStateSound ==
    ASSUME IInv, NEW w \in States, NEW v \in States, StepState(w, v)
    PROVE  IInv'
  <1> DEFINE d == WithStates(flow.data, w, v)
  <1>1. flow.page = "state" /\ Goto("extras", d)
    BY DEF StepState
  <1>2. d \in Config /\ Twin(d, flow.data)
    BY AtPage, StatesTwin
  <1> HIDE DEF d
  <1>3. flow.data.mode = "fixed_state"
    BY <1>1, AtPage DEF Branch
  <1>4. Shaped(d) /\ Named("extras", d)
    BY <1>1, <1>2, AtPage, KinSound DEF Twin, Named
  <1>5. Branch("extras", d) /\ SourceKnown("extras", d, issue) /\ SafeOn("extras", d)
        /\ "extras" \in Pages
    BY <1>2, <1>3, LateBranch DEF Late, Twin, Kin, SafeOn, DynamicModes
  <1> QED
    BY <1>1, <1>2, <1>4, <1>5, GotoSound

LEMMA StepAttributeSound ==
    ASSUME IInv, NEW a \in Attributes, StepAttribute(a)
    PROVE  IInv'
  <1> DEFINE d == [flow.data EXCEPT !.attribute = a]
  <1>1. /\ flow.page = "attribute" /\ AttributeOk(flow.data, a)
        /\ Goto("attribute_params", d)
    BY DEF StepAttribute
  <1>2. /\ d \in Config /\ d.attribute = a /\ d.mode = flow.data.mode
        /\ d.source = flow.data.source /\ d.targets = flow.data.targets
        /\ d.name = flow.data.name /\ d.raced = flow.data.raced
    BY AtPage DEF Config
  <1> HIDE DEF d
  <1>3. d.mode = "fixed_attribute" /\ d.source = NoEntity
    BY <1>1, <1>2, AtPage DEF Branch, Shaped, DynamicModes
  <1>4. d.targets \subseteq Targetable
    BY <1>2 DEF Config
  <1>5. Shaped(d)
    BY <1>1, <1>2, <1>3, <1>4, WizardAssumption DEF Shaped, Fits, AttributeOk
  <1>6. /\ Branch("attribute_params", d) /\ SourceKnown("attribute_params", d, issue)
        /\ SafeOn("attribute_params", d) /\ "attribute_params" \in Pages
    BY <1>3 DEF Branch, SourceKnown, SafeOn, Late, Picking, Editing, Pages
  <1>7. Named("attribute_params", d)
    BY <1>1, <1>2, AtPage DEF Named
  <1> QED
    BY <1>1, <1>2, <1>5, <1>6, <1>7, GotoSound

LEMMA StepAttributeParamsSound ==
    ASSUME IInv, StepAttributeParams
    PROVE  IInv'
  <1> DEFINE d == WithParams(flow.data)
  <1>1. flow.page = "attribute_params" /\ Goto("extras", d)
    BY DEF StepAttributeParams
  <1>2. d \in Config /\ Twin(d, flow.data)
    BY AtPage, ParamsTwin
  <1> HIDE DEF d
  <1>3. flow.data.mode = "fixed_attribute"
    BY <1>1, AtPage DEF Branch
  <1>4. Shaped(d) /\ Named("extras", d)
    BY <1>1, <1>2, AtPage, KinSound DEF Twin, Named
  <1>5. Branch("extras", d) /\ SourceKnown("extras", d, issue) /\ SafeOn("extras", d)
        /\ "extras" \in Pages
    BY <1>2, <1>3, LateBranch DEF Late, Twin, Kin, SafeOn, DynamicModes
  <1> QED
    BY <1>1, <1>2, <1>4, <1>5, GotoSound

LEMMA StepDynamicParamsSound ==
    ASSUME IInv, StepDynamicParams
    PROVE  IInv'
  <1>1. flow.page = "dynamic_params" /\ flow.data.mode \in DynamicModes
    BY AtPage DEF StepDynamicParams, Branch
  <1>2. PICK d \in Forms(flow.data) :
           Goto(IF d.from = "attribute" THEN "pick" ELSE "extras", d)
    BY DEF StepDynamicParams
  <1>3. /\ d \in Config /\ Shaped(d) /\ d.source # NoEntity /\ d.mode = flow.data.mode
        /\ d.name = flow.data.name /\ d.raced = flow.data.raced
        /\ d.from = "state" => ~d.picked
    BY <1>1, AtPage, FormsSound
  <1>4. d.from \in {"state", "attribute"}
    BY <1>3 DEF Config
  <1>5. CASE d.from = "attribute"
    <2>1. /\ Branch("pick", d) /\ SourceKnown("pick", d, issue) /\ SafeOn("pick", d)
          /\ Named("pick", d) /\ "pick" \in Pages
      BY <1>1, <1>3, <1>5, AtPage
         DEF Branch, SourceKnown, SafeOn, Named, Late, Picking, Editing, Pages
    <2> QED
      BY <1>2, <1>3, <1>5, <2>1, GotoSound
  <1>6. CASE d.from = "state"
    <2>1. "extras" \in Late /\ SafeOn("extras", d)
      BY DEF Late, SafeOn
    <2>2. /\ Branch("extras", d) /\ SourceKnown("extras", d, issue)
          /\ Named("extras", d) /\ "extras" \in Pages
      BY <1>1, <1>3, <1>6, <2>1, AtPage, LateBranch DEF Named, Follows
    <2> QED
      BY <1>2, <1>3, <1>6, <2>1, <2>2, GotoSound
  <1> QED
    BY <1>4, <1>5, <1>6

\* Picking the source's attribute completes what the form before it began.
LEMMA PickSound ==
    ASSUME IInv, flow.page \in Picking, NEW d, d = [flow.data EXCEPT !.picked = TRUE]
    PROVE  /\ d \in Config /\ Shaped(d) /\ Follows(d)
           /\ d.name = flow.data.name /\ d.raced = flow.data.raced
           /\ d.targets = flow.data.targets /\ d.acked = flow.data.acked
  <1>1. /\ d \in Config /\ d.mode = flow.data.mode /\ d.targets = flow.data.targets
        /\ d.source = flow.data.source /\ d.attribute = flow.data.attribute
        /\ d.retargeted = flow.data.retargeted /\ d.from = flow.data.from /\ d.picked = TRUE
        /\ d.name = flow.data.name /\ d.raced = flow.data.raced /\ d.acked = flow.data.acked
    BY AtPage DEF Config
  <1>2. d.source # NoEntity /\ d.from = "attribute"
    BY <1>1, AtPage DEF SourceKnown
  <1>3. Shaped(d)
    BY <1>1, AtPage DEF Shaped, Fits
  <1> QED
    BY <1>1, <1>2, <1>3 DEF Follows

LEMMA StepPickSound ==
    ASSUME IInv, StepPick
    PROVE  IInv'
  <1> DEFINE d == [flow.data EXCEPT !.picked = TRUE]
  <1>1. flow.page = "pick" /\ flow.page \in Picking /\ Goto("extras", d)
    BY DEF StepPick, Picking
  <1>2. /\ d \in Config /\ Shaped(d) /\ Follows(d)
        /\ d.name = flow.data.name /\ d.raced = flow.data.raced
    BY <1>1, PickSound
  <1> HIDE DEF d
  <1>3. "extras" \in Late /\ SafeOn("extras", d)
    BY DEF Late, SafeOn
  <1>4. /\ Branch("extras", d) /\ SourceKnown("extras", d, issue)
        /\ Named("extras", d) /\ "extras" \in Pages
    BY <1>1, <1>2, <1>3, AtPage, LateBranch DEF Named
  <1> QED
    BY <1>1, <1>2, <1>3, <1>4, GotoSound

LEMMA StepExtrasSound ==
    ASSUME IInv, NEW verify \in BOOLEAN, NEW flags \in BOOLEAN, NEW advanced \in BOOLEAN,
           StepExtras(verify, flags, advanced)
    PROVE  IInv'
  <1> DEFINE b    == verify /\ flow.data.mode \in StateModes
             d    == [flow.data EXCEPT !.verify = b]
             page == IF flags THEN "flags" ELSE AfterFlags(d, advanced)
  <1>1. /\ flow.page = "extras" /\ flow' = [page |-> page, data |-> d, advanced |-> advanced]
        /\ rule' = rule /\ others' = others /\ late' = late /\ issue' = issue
    BY DEF StepExtras
  <1>2. b \in BOOLEAN
    OBVIOUS
  <1> HIDE DEF b
  <1>3. d \in Config /\ Twin(d, flow.data)
    BY <1>2, AtPage, VerifyTwin
  <1> HIDE DEF d
  <1>4. page \in Late /\ SafeOn(page, d)
    BY AfterFlagsSound DEF Late, SafeOn
  <1> HIDE DEF page
  <1>5. /\ page \in Pages /\ page # "closed" /\ Branch(page, d)
    BY <1>4, LateBranch
  <1>6. Shaped(d)
    BY <1>3, AtPage, KinSound DEF Twin
  <1>7. SourceKnown(page, d, issue)
    <2>1. flow.page \in Late
      BY <1>1 DEF Late
    <2>2. flow.data.mode \in DynamicModes => Follows(flow.data)
      BY <2>1, AtPage, LateBranch
    <2>3. d.mode \in DynamicModes => Follows(d)
      BY <1>3, <2>2 DEF Follows, Twin, Kin
    <2> QED
      BY <1>4, <2>3, LateBranch
  <1>8. Named(page, d)
    BY <1>1, <1>3, AtPage DEF Named, Twin
  <1>9. /\ flow' \in [page : Pages, data : Config, advanced : BOOLEAN]
        /\ flow'.page = page /\ flow'.data = d
    BY <1>1, <1>3, <1>5
  <1>10. Typed'
    BY <1>1, <1>9 DEF IInv, Typed
  <1>11. RuleSound'
    BY <1>1 DEF IInv, RuleSound, NamesClashOnlyInRace
  <1>12. FlowSound'
    BY <1>1, <1>4, <1>5, <1>6, <1>7, <1>8, <1>9 DEF FlowSound, Named
  <1> QED
    BY <1>10, <1>11, <1>12 DEF IInv

\* Among the last pages only the configuration's safety is looked at.
LEMMA LateSound ==
    ASSUME IInv, flow.page \in Late, NEW page \in Late, NEW d \in Config,
           Goto(page, d), d = flow.data \/ d = [flow.data EXCEPT !.acked = TRUE],
           SafeOn(page, d)
    PROVE  IInv'
  <1>1. /\ d.mode = flow.data.mode /\ d.targets = flow.data.targets
        /\ d.source = flow.data.source /\ d.attribute = flow.data.attribute
        /\ d.retargeted = flow.data.retargeted /\ d.from = flow.data.from
        /\ d.picked = flow.data.picked /\ d.name = flow.data.name /\ d.raced = flow.data.raced
    BY AtPage DEF Config
  <1>2. Shaped(d)
    BY <1>1, AtPage DEF Shaped, Fits
  <1>3. flow.data.mode \in DynamicModes => Follows(flow.data)
    BY AtPage, LateBranch
  <1>4. Branch(page, d) /\ SourceKnown(page, d, issue) /\ page \in Pages
    BY <1>1, <1>3, LateBranch DEF Follows
  <1>5. Named(page, d)
    BY <1>1, AtPage, LateBranch DEF Named
  <1> QED
    BY <1>2, <1>4, <1>5, GotoSound

LEMMA StepFlagsSound ==
    ASSUME IInv, StepFlags
    PROVE  IInv'
  <1>1. flow.page \in Late /\ Goto(AfterFlags(flow.data, flow.advanced), flow.data)
    BY DEF StepFlags, Late
  <1> QED
    BY <1>1, AtPage, AfterFlagsSound, LateSound

LEMMA StepAdvancedSound ==
    ASSUME IInv, StepAdvanced
    PROVE  IInv'
  <1>1. flow.page \in Late /\ Goto(AfterAdvanced(flow.data), flow.data)
    BY DEF StepAdvanced, Late
  <1> QED
    BY <1>1, AtPage, AfterFlagsSound, LateSound

LEMMA StepSafetySound ==
    ASSUME IInv, StepSafety
    PROVE  IInv'
  <1> DEFINE d == [flow.data EXCEPT !.acked = TRUE]
  <1>1. flow.page \in Late /\ "preview" \in Late /\ Goto("preview", d)
    BY DEF StepSafety, Late
  <1>2. d \in Config /\ d.acked = TRUE
    BY AtPage DEF Config
  <1>3. SafeOn("preview", d)
    BY <1>2 DEF SafeOn, Safe
  <1> QED
    BY <1>1, <1>2, <1>3, LateSound

LEMMA StepPreviewSound ==
    ASSUME IInv, StepPreview
    PROVE  IInv'
  BY AtPage, FlowSavable, SaveSound DEF StepPreview, IInv

-----------------------------------------------------------------------------
(* The dialog.                                                             *)

LEMMA OpenDialogSound ==
    ASSUME IInv, OpenDialog
    PROVE  IInv'
  <1>1. /\ Exists(rule) /\ flow' = [flow EXCEPT !.page = "menu", !.data = rule]
        /\ late' = {} /\ rule' = rule /\ others' = others /\ issue' = issue
    BY DEF OpenDialog, At
  <1>2. "menu" \in Pages /\ "menu" \in Editing
    BY DEF Pages, Editing
  <1>3. /\ flow' \in [page : Pages, data : Config, advanced : BOOLEAN]
        /\ flow'.page = "menu" /\ flow'.data = rule
    BY <1>1, <1>2 DEF IInv, Typed
  <1>4. Typed'
    BY <1>1, <1>3 DEF IInv, Typed
  <1>5. RuleSound'
    BY <1>1 DEF IInv, RuleSound, NamesClashOnlyInRace
  <1>6. /\ Shaped(rule) /\ Safe(rule) /\ Complete(rule, issue)
        /\ rule.name \in others => rule.raced
    BY <1>1 DEF IInv, RuleSound, NamesClashOnlyInRace
  <1>7. Branch("menu", rule) /\ SourceKnown("menu", rule, issue)
    BY <1>6 DEF Branch, SourceKnown, Late, Picking
  <1>8. FlowSound'
    BY <1>1, <1>3, <1>6, <1>7 DEF FlowSound, SafeOn, Named
  <1> QED
    BY <1>4, <1>5, <1>8 DEF IInv

LEMMA EditBasicsSound ==
    ASSUME IInv, NEW n \in Names, EditBasics(n)
    PROVE  IInv'
  <1> DEFINE d == [flow.data EXCEPT !.name = n, !.raced = FALSE]
  <1>1. flow.page = "menu" /\ n \notin others /\ Save(d)
    BY DEF EditBasics, Menu, Working
  <1>2. d \in Config /\ Kin(d, flow.data) /\ d.name = n
    BY AtPage DEF Config, Kin
  <1> HIDE DEF d
  <1>3. Savable(flow.data)
    BY <1>1, FlowSavable
  <1>4. Shaped(d) /\ Safe(d)
    BY <1>2, <1>3, KinSound DEF Savable
  <1>5. Savable(d)
    BY <1>1, <1>2, <1>3, <1>4 DEF Savable, Kin
  <1> QED
    BY <1>1, <1>2, <1>5, SaveSound DEF IInv

LEMMA EditEntitiesSound ==
    ASSUME IInv, NEW T \in SUBSET Targetable, EditEntities(T)
    PROVE  IInv'
  <1> DEFINE d == [flow.data EXCEPT !.targets = T, !.retargeted = TRUE]
  <1>1. /\ flow.page = "menu"
        /\ IF HasSafety(T) /\ ~d.acked THEN Goto("edit_safety", d) ELSE Save(d)
    BY DEF EditEntities, Menu, Working
  <1>2. /\ d \in Config /\ d.targets = T /\ d.retargeted = TRUE /\ d.mode = flow.data.mode
        /\ d.source = flow.data.source /\ d.attribute = flow.data.attribute
        /\ d.from = flow.data.from /\ d.picked = flow.data.picked
        /\ d.acked = flow.data.acked /\ d.name = flow.data.name /\ d.raced = flow.data.raced
    BY AtPage DEF Config
  <1> HIDE DEF d
  <1>3. Shaped(d)
    BY <1>2, AtPage DEF Shaped, Fits
  <1>4. Complete(flow.data, issue)
    BY <1>1, AtPage DEF SourceKnown, Editing
  <1>5. CASE HasSafety(T) /\ ~d.acked
    <2>1. /\ Branch("edit_safety", d) /\ SourceKnown("edit_safety", d, issue)
          /\ SafeOn("edit_safety", d) /\ Named("edit_safety", d) /\ "edit_safety" \in Pages
      BY <1>1, <1>2, <1>4, AtPage
         DEF Branch, SourceKnown, Complete, SafeOn, Named, Late, Picking, Editing, Pages
    <2> QED
      BY <1>1, <1>2, <1>3, <1>5, <2>1, GotoSound
  <1>6. CASE ~(HasSafety(T) /\ ~d.acked)
    <2>1. Savable(d)
      BY <1>1, <1>2, <1>3, <1>4, <1>6, AtPage DEF Savable, Safe, Complete, Named
    <2> QED
      BY <1>1, <1>2, <1>6, <2>1, SaveSound DEF IInv
  <1> QED
    BY <1>5, <1>6

LEMMA EditSafetySound ==
    ASSUME IInv, EditSafety
    PROVE  IInv'
  <1> DEFINE d == [flow.data EXCEPT !.acked = TRUE]
  <1>1. flow.page = "edit_safety" /\ Save(d)
    BY DEF EditSafety, Working
  <1>2. /\ d \in Config /\ d.mode = flow.data.mode /\ d.targets = flow.data.targets
        /\ d.source = flow.data.source /\ d.attribute = flow.data.attribute
        /\ d.retargeted = flow.data.retargeted /\ d.from = flow.data.from
        /\ d.picked = flow.data.picked /\ d.acked = TRUE
        /\ d.name = flow.data.name /\ d.raced = flow.data.raced
    BY AtPage DEF Config
  <1> HIDE DEF d
  <1>3. Complete(flow.data, issue)
    BY <1>1, AtPage DEF SourceKnown, Editing
  <1>4. Shaped(d) /\ Safe(d)
    BY <1>2, AtPage DEF Shaped, Fits, Safe
  <1>5. Savable(d)
    BY <1>1, <1>2, <1>3, <1>4, AtPage DEF Savable, Complete, Named
  <1> QED
    BY <1>1, <1>2, <1>5, SaveSound DEF IInv

LEMMA EditStateSound ==
    ASSUME IInv, NEW w \in States, NEW v \in States, EditState(w, v)
    PROVE  IInv'
  <1>1. flow.page = "menu" /\ Save(WithStates(flow.data, w, v))
    BY DEF EditState, Menu, Working
  <1>2. WithStates(flow.data, w, v) \in Config /\ Twin(WithStates(flow.data, w, v), flow.data)
    BY AtPage, StatesTwin
  <1>3. Savable(flow.data)
    BY <1>1, FlowSavable
  <1> QED
    BY <1>1, <1>2, <1>3, TwinSavable, SaveSound DEF IInv

LEMMA EditDynamicParamsSound ==
    ASSUME IInv, EditDynamicParams
    PROVE  IInv'
  <1>1. flow.page = "menu" /\ flow.data.mode \in DynamicModes
    BY DEF EditDynamicParams, Menu, Working
  <1>2. PICK d \in Forms(flow.data) :
           IF d.from = "attribute" THEN Goto("edit_pick", d) ELSE Save(d)
    BY DEF EditDynamicParams, Working
  <1>3. /\ d \in Config /\ Shaped(d) /\ d.source # NoEntity /\ d.mode = flow.data.mode
        /\ d.targets = flow.data.targets /\ d.acked = flow.data.acked
        /\ d.name = flow.data.name /\ d.raced = flow.data.raced
        /\ d.from = "state" => ~d.picked
    BY <1>1, AtPage, FormsSound
  <1>4. Safe(d)
    BY <1>1, <1>3, AtPage DEF SafeOn, Safe
  <1>5. CASE d.from = "attribute"
    <2>1. /\ Branch("edit_pick", d) /\ SourceKnown("edit_pick", d, issue)
          /\ SafeOn("edit_pick", d) /\ Named("edit_pick", d) /\ "edit_pick" \in Pages
      BY <1>1, <1>3, <1>4, <1>5, AtPage
         DEF Branch, SourceKnown, SafeOn, Named, Late, Picking, Editing, Pages
    <2> QED
      BY <1>2, <1>3, <1>5, <2>1, GotoSound
  <1>6. CASE d.from # "attribute"
    <2>1. d.from = "state"
      BY <1>3, <1>6 DEF Config
    <2>2. Savable(d)
      BY <1>1, <1>3, <1>4, <2>1, AtPage DEF Savable, Named
    <2> QED
      BY <1>2, <1>3, <1>6, <2>2, SaveSound DEF IInv
  <1> QED
    BY <1>5, <1>6

LEMMA EditPickSound ==
    ASSUME IInv, EditPick
    PROVE  IInv'
  <1> DEFINE d == [flow.data EXCEPT !.picked = TRUE]
  <1>1. flow.page = "edit_pick" /\ flow.page \in Picking /\ Save(d)
    BY DEF EditPick, Working, Picking
  <1>2. /\ d \in Config /\ Shaped(d) /\ Follows(d)
        /\ d.name = flow.data.name /\ d.raced = flow.data.raced
        /\ d.targets = flow.data.targets /\ d.acked = flow.data.acked
    BY <1>1, PickSound
  <1> HIDE DEF d
  <1>3. Savable(d)
    BY <1>1, <1>2, AtPage DEF Savable, SafeOn, Safe, Follows, Named
  <1> QED
    BY <1>1, <1>2, <1>3, SaveSound DEF IInv

\* The stored attribute may have stopped to suit the targets only if those were edited.
LEMMA EditAttributeSound ==
    ASSUME IInv, NEW a \in Attributes, EditAttribute(a)
    PROVE  IInv'
  <1> DEFINE b == flow.data.retargeted /\ ~AttributeOk(flow.data, a)
             d == [flow.data EXCEPT !.attribute = a, !.retargeted = b]
  <1>1. /\ flow.page = "menu" /\ flow.data.mode = "fixed_attribute"
        /\ AttributeOk(flow.data, a) \/ a = flow.data.attribute
    BY DEF EditAttribute, Menu, Working
  <1>2. Goto("edit_attribute_params", d)
    BY DEF EditAttribute, Working
  <1>3. b \in BOOLEAN /\ (b <=> flow.data.retargeted /\ ~AttributeOk(flow.data, a))
    BY AtPage DEF Config
  <1> HIDE DEF b
  <1>4. /\ d \in Config /\ d.mode = "fixed_attribute" /\ d.targets = flow.data.targets
        /\ d.source = flow.data.source /\ d.attribute = a /\ d.retargeted = b
        /\ d.acked = flow.data.acked /\ d.name = flow.data.name /\ d.raced = flow.data.raced
    BY <1>1, <1>3, AtPage DEF Config
  <1> HIDE DEF d
  <1>5. Shaped(d)
    <2>1. d.source = NoEntity /\ d.source \notin d.targets
      <3>1. d.targets \subseteq Targetable
        BY <1>4 DEF Config
      <3> QED
        BY <1>1, <1>4, <3>1, AtPage, WizardAssumption DEF Shaped, DynamicModes
    <2>2. ~b /\ a # "none" => a \in Offered(d.targets)
      <3>1. CASE AttributeOk(flow.data, a)
        BY <1>4, <3>1 DEF AttributeOk
      <3>2. CASE ~AttributeOk(flow.data, a)
        <4>1. ~b => ~flow.data.retargeted /\ a = flow.data.attribute
          BY <1>1, <1>3, <3>2
        <4> QED
          BY <1>4, <4>1, AtPage DEF Shaped, Fits
      <3> QED
        BY <3>1, <3>2
    <2> QED
      BY <1>4, <2>1, <2>2 DEF Shaped, Fits
  <1>6. /\ Branch("edit_attribute_params", d)
        /\ SourceKnown("edit_attribute_params", d, issue)
        /\ "edit_attribute_params" \in Pages
    BY <1>4 DEF Branch, SourceKnown, Complete, DynamicModes, Late, Picking, Editing, Pages
  <1>7. SafeOn("edit_attribute_params", d) /\ Named("edit_attribute_params", d)
    BY <1>1, <1>4, AtPage DEF SafeOn, Safe, Named
  <1> QED
    BY <1>2, <1>4, <1>5, <1>6, <1>7, GotoSound

LEMMA EditAttributeParamsSound ==
    ASSUME IInv, EditAttributeParams
    PROVE  IInv'
  <1>1. flow.page = "edit_attribute_params" /\ Save(WithParams(flow.data))
    BY DEF EditAttributeParams, Working
  <1>2. WithParams(flow.data) \in Config /\ Twin(WithParams(flow.data), flow.data)
    BY AtPage, ParamsTwin
  <1>3. Savable(flow.data)
    BY <1>1, FlowSavable
  <1> QED
    BY <1>1, <1>2, <1>3, TwinSavable, SaveSound DEF IInv

LEMMA EditFlagsSound ==
    ASSUME IInv, EditFlags
    PROVE  IInv'
  BY AtPage, FlowSavable, SaveSound DEF EditFlags, Menu, Working, IInv

LEMMA EditAdvancedSound ==
    ASSUME IInv, NEW verify \in BOOLEAN, EditAdvanced(verify)
    PROVE  IInv'
  <1> DEFINE b == IF flow.data.mode \in StateModes THEN verify ELSE flow.data.verify
             d == [flow.data EXCEPT !.verify = b]
  <1>1. flow.page = "menu" /\ Save(d)
    BY DEF EditAdvanced, Menu, Working
  <1>2. b \in BOOLEAN
    BY AtPage DEF Config
  <1> HIDE DEF b
  <1>3. d \in Config /\ Twin(d, flow.data)
    BY <1>2, AtPage, VerifyTwin
  <1> HIDE DEF d
  <1>4. Savable(flow.data)
    BY <1>1, FlowSavable
  <1> QED
    BY <1>1, <1>3, <1>4, TwinSavable, SaveSound DEF IInv

-----------------------------------------------------------------------------
(* Leaving, and other users.                                               *)

LEMMA CloseSound ==
    ASSUME IInv, Close
    PROVE  IInv'
  <1>1. /\ flow' = Closed /\ rule' = rule /\ others' = others /\ late' = late
        /\ issue' = issue
    BY DEF Close
  <1>2. flow'.page = "closed" /\ flow'.data = Blank
    BY <1>1, ClosedSound
  <1>3. Typed'
    BY <1>1, ClosedSound DEF IInv, Typed
  <1>4. RuleSound'
    BY <1>1 DEF IInv, RuleSound, NamesClashOnlyInRace
  <1>5. FlowSound'
    BY <1>1, <1>2, ClosedSound DEF FlowSound, Named
  <1> QED
    BY <1>3, <1>4, <1>5 DEF IInv

LEMMA OthersTakeSound ==
    ASSUME IInv, NEW n \in Names, OthersTake(n)
    PROVE  IInv'
  <1>1. /\ others' = others \cup {n} /\ late' = late \cup {n}
        /\ rule' = rule /\ flow' = flow /\ issue' = issue
        /\ Exists(rule) => rule.name # n
    BY DEF OthersTake, Taken
  <1>2. Typed'
    BY <1>1 DEF IInv, Typed
  <1>3. RuleSound'
    BY <1>1 DEF IInv, RuleSound, NamesClashOnlyInRace
  <1>4. FlowSound'
    BY <1>1 DEF IInv, FlowSound, Named
  <1> QED
    BY <1>2, <1>3, <1>4 DEF IInv

LEMMA OthersReleaseSound ==
    ASSUME IInv, NEW n \in Names, OthersRelease(n)
    PROVE  IInv'
  <1>1. /\ others' = others \ {n} /\ late' = late
        /\ rule' = rule /\ flow' = flow /\ issue' = issue
    BY DEF OthersRelease
  <1>2. Typed'
    BY <1>1 DEF IInv, Typed
  <1>3. RuleSound'
    BY <1>1 DEF IInv, RuleSound, NamesClashOnlyInRace
  <1>4. FlowSound'
    BY <1>1 DEF IInv, FlowSound, Named
  <1> QED
    BY <1>2, <1>3, <1>4 DEF IInv

LEMMA RenamedSound ==
    ASSUME IInv, NEW n \in Names, Renamed(n)
    PROVE  IInv'
  <1>1. /\ rule' = [rule EXCEPT !.name = n, !.raced = FALSE] /\ n \notin others
        /\ flow' = flow /\ others' = others /\ late' = late /\ issue' = issue
    BY DEF Renamed
  <1>2. rule' \in Config /\ Kin(rule', rule) /\ rule'.name = n
    BY <1>1 DEF IInv, Typed, Config, Kin
  <1>3. Typed'
    BY <1>1, <1>2 DEF IInv, Typed
  <1>4. Shaped(rule') /\ Safe(rule') /\ Complete(rule', issue')
    BY <1>1, <1>2, KinSound DEF IInv, RuleSound
  <1>5. NamesClashOnlyInRace'
    BY <1>1, <1>2 DEF NamesClashOnlyInRace
  <1>6. RuleSound'
    BY <1>4, <1>5 DEF RuleSound, Shaped, Fits, Safe, Complete
  <1>7. FlowSound'
    BY <1>1 DEF IInv, FlowSound, Named
  <1> QED
    BY <1>3, <1>6, <1>7 DEF IInv

LEMMA RemovedSound ==
    ASSUME IInv, Removed
    PROVE  IInv'
  <1>1. /\ rule' = Blank /\ issue' = FALSE /\ flow.page = "closed"
        /\ flow' = flow /\ others' = others /\ late' = late
    BY DEF Removed, NoRule
  <1>2. Typed'
    BY <1>1, ClosedSound DEF IInv, Typed
  <1>3. RuleSound'
    <2>1. Shaped(rule') /\ Safe(rule') /\ Complete(rule', issue') /\ ~Exists(rule')
      BY <1>1, ClosedSound
    <2> QED
      BY <2>1 DEF RuleSound, Shaped, Fits, Safe, Complete, Exists, NamesClashOnlyInRace
  <1>4. FlowSound'
    BY <1>1 DEF IInv, FlowSound, Named, SourceKnown, Late, Picking, Editing
  <1> QED
    BY <1>2, <1>3, <1>4 DEF IInv

-----------------------------------------------------------------------------
(* Every step.                                                             *)

LEMMA StepIInv == IInv /\ [Next]_vars => IInv'
  <1> SUFFICES ASSUME IInv, [Next]_vars PROVE IInv'
    OBVIOUS
  <1>1. CASE Wizard
    BY <1>1, StepRuleSound, StepStateSound, StepAttributeSound, StepAttributeParamsSound,
       StepDynamicParamsSound, StepPickSound, StepExtrasSound, StepFlagsSound,
       StepAdvancedSound, StepSafetySound, StepPreviewSound DEF Wizard
  <1>2. CASE Dialog
    BY <1>2, OpenDialogSound, EditBasicsSound, EditEntitiesSound, EditStateSound,
       EditAttributeSound, EditAdvancedSound, EditSafetySound, EditDynamicParamsSound,
       EditPickSound, EditAttributeParamsSound, EditFlagsSound DEF Dialog
  <1>3. CASE Close
    BY <1>3, CloseSound
  <1>4. CASE OtherUsers
    BY <1>4, OthersTakeSound, OthersReleaseSound, RenamedSound, RemovedSound DEF OtherUsers
  <1>5. CASE UNCHANGED vars
    BY <1>5 DEF vars, IInv, Typed, RuleSound, FlowSound, NamesClashOnlyInRace, Named
  <1> QED
    BY <1>1, <1>2, <1>3, <1>4, <1>5 DEF Next

\* What the invariant says of the stored rule is what the checks promise.
LEMMA IInvPromises ==
    ASSUME IInv
    PROVE  /\ NamesClashOnlyInRace /\ SafetyIsAcknowledged
           /\ FollowIsComplete /\ HolesComeFromRetargeting
  <1>1. NamesClashOnlyInRace /\ FollowIsComplete
    BY DEF IInv, RuleSound, FollowIsComplete, Complete
  <1>2. SafetyIsAcknowledged /\ HolesComeFromRetargeting
    BY DEF IInv, RuleSound, SafetyIsAcknowledged, Safe, HolesComeFromRetargeting, Shaped, Fits
  <1> QED
    BY <1>1, <1>2

LEMMA InvariantHolds == Spec => []IInv
  BY InitIInv, StepIInv, PTL DEF Spec

-----------------------------------------------------------------------------
(* The theorems.                                                           *)

\* However wizards, dialogs and renames interleave, two rules share a name only if one
\* of them was named by a flow that was open when the other took it.
THEOREM ClashesAreRaces == Spec => []NamesClashOnlyInRace
  BY InvariantHolds, IInvPromises, PTL

\* No sequence of pages, edits or migration leaves a rule that guards a cover, lock,
\* climate or valve unacknowledged.
THEOREM SafetyAlwaysAcknowledged == Spec => []SafetyIsAcknowledged
  BY InvariantHolds, IInvPromises, PTL

\* A stored dynamic rule has its source or the repair issue, and the name of the source's
\* attribute exactly if it follows one.
THEOREM FollowAlwaysComplete == Spec => []FollowIsComplete
  BY InvariantHolds, IInvPromises, PTL

\* Editing the targets is the only way to a rule that follows its own target or enforces
\* an attribute none of its targets has.
THEOREM OnlyRetargetingLeavesHoles == Spec => []HolesComeFromRetargeting
  BY InvariantHolds, IInvPromises, PTL

=============================================================================
