------------------------------ MODULE GuardLoop ------------------------------
(* What a rule decides about one of its targets, the service it resolves and  *)
(* what the device then does: the loop a guard closes with its device.        *)
(* rule_engine.py decides from the live states of the target and the source   *)
(* (_trigger_decision), waits (for the delay or for the lock), reads the      *)
(* source again and resolves the command (_enforce, _resolve_service); the    *)
(* command takes its time, and target and source may move at every point.     *)
(* Delays, limits and failures of the call are RuleEngine's subject.          *)
EXTENDS Integers

CONSTANTS
    Domains,    \* the domains the target is taken from
    Modes,      \* the modes of the rules looked at
    MaxValue    \* numbers are 0 .. MaxValue

VARIABLES
    rule,       \* the rule's configuration, which does not change here
    target,     \* the live state of the target
    source,     \* the live state of the entity a dynamic rule follows
    phase,      \* "idle"; "due" from the decision to the command; "out" until it ends
    command     \* the service call that is out

vars == <<rule, target, source, phase, command>>

-----------------------------------------------------------------------------
(* Tables of const.py, for five domains that stand for the five ways a state   *)
(* is driven.  "other" is a state the dropdowns do not offer.                  *)

Options == [light |-> {"on", "off"}, siren |-> {"on", "off"},
            lock |-> {"locked", "unlocked"}, climate |-> {"off", "heat", "cool"},
            input_select |-> {"on", "eco"}]
Words(d) == Options[d] \cup {"other"}

ASSUME LoopAssumption == Domains \subseteq DOMAIN Options /\ MaxValue \in Nat

\* DOMAIN_SERVICE_MAP: the states with a service of their own
OwnService == [light |-> {"on", "off"}, siren |-> {}, lock |-> {"locked", "unlocked"},
               climate |-> {"off"}, input_select |-> {}]

\* DOMAIN_MODE_SERVICE_MAP: the domains with one service that takes the state
ModeDomains == {"climate", "input_select"}

FollowOnStates == {"on", "unlocked"}

\* ATTRIBUTE_SERVICE_MAP, by the domain of the service
AttributeDomain == [brightness |-> "light", rgb_color |-> "light", temperature |-> "climate"]
Attributes == DOMAIN AttributeDomain
ColorAttributes == {"rgb_color"}
Operators == {"<", "<=", ">", ">="}

Values == 1 .. MaxValue
Missing == -1

\* A value read live: a word, a number, or nothing
Word(w) == [word |-> w, number |-> Missing]
Number(n) == [word |-> "number", number |-> n]
Nothing == Word("none")
LiveValues == {Word("on"), Word("idle"), Nothing} \cup {Number(n) : n \in {0} \cup Values}

-----------------------------------------------------------------------------
(* Rules as the dialogs accept them.                                           *)

Blank == [mode |-> "fixed_state", domain |-> "light", triggers |-> {}, to |-> "none",
          attribute |-> "none", operator |-> "none", threshold |-> Missing,
          value |-> Missing, from |-> "state", invert |-> FALSE]

\* async_step_state refuses a target state that is also a trigger
FixedState(d, T, w) == [Blank EXCEPT !.domain = d, !.triggers = T, !.to = w]

FixedStateRules(d) ==
    UNION {{FixedState(d, T, w) : w \in Words(d) \ T} : T \in SUBSET Words(d) \ {{}}}

\* An attribute need only suit one of the rule's targets, which may not be this one
FixedColor(d, a, v) ==
    [Blank EXCEPT !.mode = "fixed_attribute", !.domain = d, !.attribute = a, !.value = v]
FixedNumber(d, a, o, h, v) ==
    [FixedColor(d, a, v) EXCEPT !.operator = o, !.threshold = h]

FixedAttributeRules(d) ==
    {FixedNumber(d, a, o, h, v) :
        a \in Attributes \ ColorAttributes, o \in Operators, h \in Values, v \in Values}
    \cup {FixedColor(d, a, v) : a \in ColorAttributes, v \in Values}

Sides == {"state", "attribute"}

DynamicState(d, f, i) ==
    [Blank EXCEPT !.mode = "dynamic_state", !.domain = d, !.from = f, !.invert = i]
DynamicStateRules(d) == {DynamicState(d, f, i) : f \in Sides, i \in BOOLEAN}

DynamicAttribute(d, a, f) ==
    [Blank EXCEPT !.mode = "dynamic_attribute", !.domain = d, !.attribute = a, !.from = f]
DynamicAttributeRules(d) == {DynamicAttribute(d, a, f) : a \in Attributes, f \in Sides}

Rules == {r \in UNION {FixedStateRules(d) \cup FixedAttributeRules(d)
                           \cup DynamicStateRules(d) \cup DynamicAttributeRules(d) : d \in Domains} :
              r.mode \in Modes}

IsDynamic(r) == r.mode \in {"dynamic_state", "dynamic_attribute"}
InAttributeMode(r) == r.mode \in {"fixed_attribute", "dynamic_attribute"}
Suits(r) == InAttributeMode(r) /\ AttributeDomain[r.attribute] = r.domain
IsColor(r) == InAttributeMode(r) /\ r.attribute \in ColorAttributes

\* The states the target can be in: a light reports its attributes only while it is
\* on, and not each of them in every color mode
LiveWords(d) == IF d \in {"light", "siren"} THEN Options[d] ELSE Words(d)

TargetStates(r) ==
    {[state |-> "gone", value |-> Missing]} \cup
    {t \in [state : LiveWords(r.domain), value : Values \cup {Missing}] :
        /\ ~Suits(r) \/ (r.domain = "light" /\ t.state # "on") => t.value = Missing
        /\ Suits(r) /\ r.domain = "climate" => t.value # Missing}

\* A source whose state is "none" is unavailable, unknown or gone
SourceStates(r) ==
    IF ~IsDynamic(r) THEN {[state |-> Nothing, attribute |-> Nothing]}
    ELSE IF r.from = "state" THEN {[state |-> v, attribute |-> Nothing] : v \in LiveValues}
    ELSE [state : {Word("idle"), Nothing}, attribute : LiveValues]

-----------------------------------------------------------------------------
(* The decision (_trigger_decision and its helpers).                           *)

Gone(t) == t.state = "gone"

Compare(v, op, h) == CASE op = "<"  -> v < h
                       [] op = "<=" -> v <= h
                       [] op = ">"  -> v > h
                       [] op = ">=" -> v >= h

\* COLOR_RGB_TOLERANCE and COLOR_TEMP_KELVIN_TOLERANCE, in the unit of the numbers
Tolerance == 1
NearStrict(v, w) == v - w < Tolerance /\ w - v < Tolerance  \* mutant: < for <=
Near(v, w) == v - w <= Tolerance /\ w - v <= Tolerance

\* _dynamic_source_value, and the reading half of _follow_desired_on
Followed(r, s) == IF s.state = Nothing \/ r.from = "state" THEN s.state ELSE s.attribute

\* A state is on by its word ("1" is one of the on-states), an attribute by its word
\* or by being a number other than 0 (_value_is_on)
IsOn(r, v) == v.word \in FollowOnStates
                \/ IF r.from = "state" THEN v = Number(1) ELSE v.number \notin {0, Missing}

\* _follow_desired_on
Desired(r, s) == IF Followed(r, s) = Nothing THEN "none"
                 ELSE IF IsOn(r, Followed(r, s)) # r.invert THEN "on" ELSE "off"

\* _attr_values_match: colors within the tolerance, numbers exactly; a number never
\* matches a word or a missing value
Matches(r, v, now) == /\ v.number # Missing /\ now # Missing
                      /\ IF IsColor(r) THEN Near(v.number, now) ELSE v.number = now

\* _color_trigger_decision: a light that is on and shows a color other than the rule's
ColorTriggered(r, t) == t.state = "on" /\ t.value # Missing /\ ~Near(t.value, r.value)

\* _dynamic_state_trigger_decision: the target's on or off against what is followed
StateTriggered(r, t, s) == /\ ~Gone(t) /\ Desired(r, s) # "none"
                           /\ (t.state \in FollowOnStates) # (Desired(r, s) = "on")

\* _dynamic_attribute_trigger_decision: the target's value against the copied one
ValueTriggered(r, t, s) == /\ ~Gone(t) /\ Followed(r, s) # Nothing
                           /\ ~Matches(r, Followed(r, s), t.value)

Triggered(r, t, s) ==
    \/ r.mode = "fixed_state" /\ t.state \in r.triggers
    \/ /\ r.mode = "fixed_attribute" /\ ~IsColor(r) /\ t.value # Missing
       /\ Compare(t.value, r.operator, r.threshold)
    \/ r.mode = "fixed_attribute" /\ IsColor(r) /\ ColorTriggered(r, t)
    \/ r.mode = "dynamic_state" /\ StateTriggered(r, t, s)
    \/ r.mode = "dynamic_attribute" /\ ValueTriggered(r, t, s)

-----------------------------------------------------------------------------
(* The command (_resolve_service).                                             *)

Call(service, to, value) == [service |-> service, to |-> to, value |-> value]
NoCall == Call("none", "none", Nothing)

StateCallGeneric(r, t, w) ==  \* mutant: a state's own service is not looked up
    IF w \in {"on", "off"} /\ r.domain # "input_select" THEN Call("turn", w, Nothing)
    ELSE IF r.domain \in ModeDomains /\ (Gone(t) \/ w \in Options[r.domain])
         THEN Call("mode", w, Nothing)
    ELSE NoCall

\* _resolve_state_service: the state's own service, the generic turn_on and turn_off,
\* the domain's mode service for a state the device says it accepts
StateCall(r, t, w) ==
    IF w \in OwnService[r.domain] THEN Call("own", w, Nothing)
    ELSE IF w \in {"on", "off"} /\ r.domain # "input_select" THEN Call("turn", w, Nothing)
    ELSE IF r.domain \in ModeDomains /\ (Gone(t) \/ w \in Options[r.domain])
         THEN Call("mode", w, Nothing)
    ELSE NoCall

ValueCall(v) == Call("value", "none", v)

\* The color guard of _enforce: _color_trigger_decision gives a reason to skip.  A
\* dynamic rule has no configured color, so that a missing one is no reason.
ColorGuardFixedOnly(r, t) ==  \* mutant: dynamic rules are not guarded
    r.mode = "fixed_attribute" /\ IsColor(r) /\ (t.state # "on" \/ t.value = Missing)
ColorGuard(r, t) ==
    IsColor(r) /\ (t.state # "on" \/ (r.mode = "fixed_attribute" /\ t.value = Missing))

\* What _enforce sends: the source is read again now
Resolved(r, t, s) ==
    CASE ColorGuard(r, t) -> NoCall
      [] r.mode = "fixed_state" -> StateCall(r, t, r.to)
      [] r.mode = "dynamic_state" /\ Desired(r, s) = "none" -> NoCall
      [] r.mode = "dynamic_state" /\ Desired(r, s) # "none" -> StateCall(r, t, Desired(r, s))
      [] r.mode = "fixed_attribute" /\ ~ColorGuard(r, t) -> ValueCall(Number(r.value))
      [] r.mode = "dynamic_attribute" /\ ~ColorGuard(r, t) ->
             IF Followed(r, s) = Nothing THEN NoCall ELSE ValueCall(Followed(r, s))

\* The device, external: it obeys the services its domain has, rejects words and
\* numbers out of its range (0), and is lossy in colors.
Switchable == {"light", "siren", "climate"}

Effect(r, t, c) ==
    LET becomes(w) == [state |-> w, value |-> IF w = "off" /\ r.domain = "light" THEN Missing
                                              ELSE t.value]
    IN  CASE Gone(t) -> {t}
          [] c.service = "value" /\ ~Gone(t) ->
                 IF ~Suits(r) \/ c.value.number \in {0, Missing} THEN {t}
                 ELSE {[state |-> IF r.domain = "light" THEN "on" ELSE t.state, value |-> v] :
                          v \in {v \in Values : IF IsColor(r) THEN v - c.value.number \in -1 .. 1
                                                 ELSE v = c.value.number}}
          [] c.service \in {"own", "mode"} /\ ~Gone(t) ->
                 IF c.to \in LiveWords(r.domain) THEN {becomes(c.to)} ELSE {t}
          [] c.service = "turn" /\ ~Gone(t) ->
                 IF r.domain \notin Switchable THEN {t}
                 ELSE IF c.to = "off" THEN {becomes("off")}
                 ELSE IF r.domain # "climate" THEN {becomes("on")}
                 ELSE {becomes(w) : w \in IF t.state = "off" THEN {"heat", "cool"} ELSE {t.state}}

-----------------------------------------------------------------------------
(* Specification.                                                              *)

Init == /\ rule \in Rules
        /\ target \in TargetStates(rule)
        /\ source \in SourceStates(rule)
        /\ phase = "idle" /\ command = NoCall

TargetMoves == /\ target' \in TargetStates(rule) \ {target}
               /\ UNCHANGED <<rule, source, phase, command>>

SourceMoves == /\ source' \in SourceStates(rule) \ {source}
               /\ UNCHANGED <<rule, target, phase, command>>

\* An evaluation finds the target in violation
Decide == /\ phase = "idle" /\ Triggered(rule, target, source)
          /\ phase' = "due"
          /\ UNCHANGED <<rule, target, source, command>>

\* A countdown ends over a target that complies by then.  An enforcement that waited
\* for the lock does not look again: Send may follow as well.
Lapse == /\ phase = "due" /\ ~Triggered(rule, target, source)
         /\ phase' = "idle"
         /\ UNCHANGED <<rule, target, source, command>>

Send == /\ phase = "due"
        /\ command' = Resolved(rule, target, source)
        /\ phase' = IF command' = NoCall THEN "idle" ELSE "out"
        /\ UNCHANGED <<rule, target, source>>

CallEnds == /\ phase = "out"
            /\ target' \in Effect(rule, target, command)
            /\ phase' = "idle" /\ command' = NoCall
            /\ UNCHANGED <<rule, source>>

Guarding == Decide \/ Lapse \/ Send \/ CallEnds
Next == Guarding \/ TargetMoves \/ SourceMoves

\* Every change of target and source is evaluated, a due enforcement gets its turn,
\* and calls end.
Spec == Init /\ [][Next]_vars /\ WF_vars(Decide) /\ WF_vars(Send) /\ WF_vars(CallEnds)

-----------------------------------------------------------------------------
(* Properties.                                                                 *)

Turns(d, w) == IF d = "input_select" THEN w \in Options[d] ELSE d \in {"light", "siren"}

\* No command of the rule makes the target comply:
\*   - a fixed state that is not offered for the domain has no service;
\*   - the value a clamp sets violates the clamp;
\*   - a follower of a domain without on and off, or whose running states are not
\*     on-states (a heating climate);
\*   - a dynamic attribute the target does not have, a source value the device
\*     rejects, or a color for a light that is off.
NoCommandHelps(r, t, s) ==
    CASE r.mode = "fixed_state" -> r.to \notin Options[r.domain]
      [] r.mode = "fixed_attribute" -> ~IsColor(r)
              /\ \/ r.value < r.threshold /\ r.operator \in {"<", "<="}
                 \/ r.value > r.threshold /\ r.operator \in {">", ">="}
                 \/ r.value = r.threshold /\ r.operator \in {"<=", ">="}
      [] r.mode = "dynamic_state" -> ~Turns(r.domain, Desired(r, s))
      [] r.mode = "dynamic_attribute" ->
              \/ ~Suits(r) \/ Followed(r, s).number \in {0, Missing}
              \/ IsColor(r) /\ t.state # "on"

Stuck == Triggered(rule, target, source) /\ NoCommandHelps(rule, target, source)

\* However target, source and commands interleaved before, a rule that is left alone
\* with its device brings it to comply, unless the rule is stuck: the value a device
\* settles on is never one the rule fights, and a command resolved for a source that
\* has moved on is followed by the right one.
Converges ==
    <>[][Guarding]_vars => <>[](~Triggered(rule, target, source) \/ Stuck)

\* The exceptions of Converges are exact: once stuck, no command that the rule can
\* send helps.
StuckStaysStuck ==
    [][Guarding /\ Stuck /\ (phase = "out" => command = Resolved(rule, target, source))
       => Stuck']_vars

\* A violation of a rule that is not stuck always resolves to a command, and a command
\* that is still the right one when the device carries it out ends the violation.
OneCommandSuffices ==
    [][Triggered(rule, target, source) /\ ~Stuck
       => /\ Send => phase' = "out"
          /\ CallEnds /\ command = Resolved(rule, target, source)
               => ~Triggered(rule, target', source)]_vars

\* "The rule acts only while the target is on" (README.md, Dynamic Attribute Mode).
\* The color guard keeps to it; a brightness sent to a light that is off turns it on.
ActsOnlyWhileOn ==
    [][phase = "due" /\ phase' = "out" /\ rule.mode = "dynamic_attribute"
       => target.state # "off"]_vars

=============================================================================
