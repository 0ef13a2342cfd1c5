-------------------------- MODULE GuardLoopProofs --------------------------
(* Theorems about GuardLoop, for every rule that the dialogs accept over any  *)
(* of its domains and modes, and for numbers of any size.                     *)
EXTENDS GuardLoop, TLAPS

DomainsKnown == {"light", "siren", "lock", "climate", "input_select"}

LEMMA KnownDomains == Domains \subseteq DomainsKnown
BY LoopAssumption DEF Options, DomainsKnown

LEMMA KnownAttributes == Attributes = {"brightness", "rgb_color", "temperature"}
BY DEF Attributes, AttributeDomain

\* What the dialogs guarantee of a rule.
Shaped(r) ==
    /\ r.domain \in DomainsKnown
    /\ r.mode \in {"fixed_state", "fixed_attribute", "dynamic_state", "dynamic_attribute"}
    /\ r.mode = "fixed_state" => /\ r.to \in Words(r.domain) \ r.triggers
                                 /\ r.triggers \subseteq Words(r.domain)
    /\ r.mode = "fixed_attribute" =>
         /\ r.attribute \in Attributes /\ r.value \in Values
         /\ ~IsColor(r) => r.operator \in Operators /\ r.threshold \in Values
    /\ r.mode = "dynamic_attribute" => r.attribute \in Attributes

LEMMA RulesShaped == ASSUME NEW r \in Rules PROVE Shaped(r)
<1>1. PICK d \in Domains : r \in FixedStateRules(d) \cup FixedAttributeRules(d)
                                   \cup DynamicStateRules(d) \cup DynamicAttributeRules(d)
  BY DEF Rules
<1>2. d \in DomainsKnown
  BY KnownDomains
<1>3. CASE r \in FixedStateRules(d)
  <2>1. PICK T \in SUBSET Words(d), w \in Words(d) : w \notin T /\ r = FixedState(d, T, w)
    BY <1>3 DEF FixedStateRules
  <2>2. r.domain = d /\ r.mode = "fixed_state" /\ r.triggers = T /\ r.to = w
    BY <2>1 DEF FixedState, Blank
  <2> QED BY <1>2, <2>1, <2>2 DEF Shaped
<1>4. CASE r \in FixedAttributeRules(d)
  <2>1. ASSUME NEW a \in Attributes \ ColorAttributes, NEW o \in Operators, NEW h \in Values,
               NEW v \in Values, r = FixedNumber(d, a, o, h, v)
        PROVE  Shaped(r)
    <3>1. /\ r.domain = d /\ r.mode = "fixed_attribute" /\ r.attribute = a
          /\ r.operator = o /\ r.threshold = h /\ r.value = v
      BY <2>1 DEF FixedNumber, FixedColor, Blank
    <3> QED BY <1>2, <3>1 DEF Shaped
  <2>2. ASSUME NEW a \in ColorAttributes, NEW v \in Values, r = FixedColor(d, a, v)
        PROVE  Shaped(r)
    <3>1. r.domain = d /\ r.mode = "fixed_attribute" /\ r.attribute = a /\ r.value = v
      BY <2>2 DEF FixedColor, Blank
    <3>2. a \in Attributes /\ IsColor(r)
      BY <3>1, KnownAttributes DEF ColorAttributes, IsColor, InAttributeMode
    <3> QED BY <1>2, <3>1, <3>2 DEF Shaped
  <2> QED BY <1>4, <2>1, <2>2 DEF FixedAttributeRules
<1>5. CASE r \in DynamicStateRules(d)
  <2>1. PICK f \in Sides, i \in BOOLEAN : r = DynamicState(d, f, i)
    BY <1>5 DEF DynamicStateRules
  <2>2. r.domain = d /\ r.mode = "dynamic_state"
    BY <2>1 DEF DynamicState, Blank
  <2> QED BY <1>2, <2>2 DEF Shaped
<1>6. CASE r \in DynamicAttributeRules(d)
  <2>1. PICK a \in Attributes, f \in Sides : r = DynamicAttribute(d, a, f)
    BY <1>6 DEF DynamicAttributeRules
  <2>2. r.domain = d /\ r.mode = "dynamic_attribute" /\ r.attribute = a
    BY <2>1 DEF DynamicAttribute, Blank
  <2> QED BY <1>2, <2>2 DEF Shaped
<1> QED BY <1>1, <1>3, <1>4, <1>5, <1>6

-----------------------------------------------------------------------------
(* The operators, mode by mode and service by service.                        *)

LEMMA ResolvedBy ==
  ASSUME NEW r, Shaped(r), NEW t, NEW s
  PROVE  /\ r.mode = "fixed_state" => Resolved(r, t, s) = StateCall(r, t, r.to)
         /\ r.mode = "dynamic_state" =>
              Resolved(r, t, s) = IF Desired(r, s) = "none" THEN NoCall
                                  ELSE StateCall(r, t, Desired(r, s))
         /\ r.mode = "fixed_attribute" =>
              Resolved(r, t, s) = IF ColorGuard(r, t) THEN NoCall ELSE ValueCall(Number(r.value))
         /\ r.mode = "dynamic_attribute" =>
              Resolved(r, t, s) = IF ColorGuard(r, t) \/ Followed(r, s) = Nothing THEN NoCall
                                  ELSE ValueCall(Followed(r, s))
<1>1. r.mode \in {"fixed_state", "dynamic_state"} => ~ColorGuard(r, t)
  BY DEF ColorGuard, IsColor, InAttributeMode
<1> HIDE DEF ColorGuard
<1> QED BY <1>1 DEF Resolved

LEMMA TriggeredBy ==
  ASSUME NEW r, Shaped(r), NEW t, NEW s
  PROVE  /\ r.mode = "fixed_state" => (Triggered(r, t, s) <=> t.state \in r.triggers)
         /\ r.mode = "dynamic_state" => (Triggered(r, t, s) <=> StateTriggered(r, t, s))
         /\ r.mode = "fixed_attribute" =>
              (Triggered(r, t, s) <=>
                 IF IsColor(r) THEN ColorTriggered(r, t)
                 ELSE t.value # Missing /\ Compare(t.value, r.operator, r.threshold))
         /\ r.mode = "dynamic_attribute" => (Triggered(r, t, s) <=> ValueTriggered(r, t, s))
BY DEF Triggered

LEMMA StateCalls ==
  ASSUME NEW r, Shaped(r), NEW t, NEW w
  PROVE  /\ StateCall(r, t, w) \in {Call("own", w, Nothing), Call("turn", w, Nothing),
                                    Call("mode", w, Nothing), NoCall}
         /\ r.domain \in {"light", "siren"} /\ w \in {"on", "off"} =>
              StateCall(r, t, w) \in {Call("own", w, Nothing), Call("turn", w, Nothing)}
         /\ r.domain = "lock" =>
              StateCall(r, t, w) = IF w \in {"locked", "unlocked"} THEN Call("own", w, Nothing)
                                   ELSE IF w \in {"on", "off"} THEN Call("turn", w, Nothing)
                                   ELSE NoCall
         /\ r.domain = "climate" /\ ~Gone(t) =>
              StateCall(r, t, w) = IF w = "off" THEN Call("own", w, Nothing)
                                   ELSE IF w = "on" THEN Call("turn", w, Nothing)
                                   ELSE IF w \in {"heat", "cool"} THEN Call("mode", w, Nothing)
                                   ELSE NoCall
         /\ r.domain = "input_select" /\ ~Gone(t) =>
              StateCall(r, t, w) = IF w \in {"on", "eco"} THEN Call("mode", w, Nothing)
                                   ELSE NoCall
         /\ r.domain \in {"light", "siren"} /\ w \notin {"on", "off"} => StateCall(r, t, w) = NoCall
<1>1. /\ r.domain = "light" => OwnService[r.domain] = {"on", "off"}
      /\ r.domain = "siren" => OwnService[r.domain] = {}
      /\ r.domain = "lock" => OwnService[r.domain] = {"locked", "unlocked"}
      /\ r.domain = "climate" => OwnService[r.domain] = {"off"}
      /\ r.domain = "input_select" => OwnService[r.domain] = {}
  BY DEF OwnService
<1>2. /\ r.domain = "climate" => Options[r.domain] = {"off", "heat", "cool"}
      /\ r.domain = "input_select" => Options[r.domain] = {"on", "eco"}
  BY DEF Options
<1> DEFINE own == OwnService[r.domain]
           opt == Options[r.domain]
           call == StateCall(r, t, w)
<1>3. call = IF w \in own THEN Call("own", w, Nothing)
             ELSE IF w \in {"on", "off"} /\ r.domain # "input_select"
                  THEN Call("turn", w, Nothing)
             ELSE IF r.domain \in {"climate", "input_select"} /\ (Gone(t) \/ w \in opt)
                  THEN Call("mode", w, Nothing)
             ELSE NoCall
  BY DEF StateCall, ModeDomains
<1> HIDE DEF own, opt, call
<1>4. call \in {Call("own", w, Nothing), Call("turn", w, Nothing),
                Call("mode", w, Nothing), NoCall}
  BY <1>3
<1>5. CASE r.domain \in {"light", "siren"}
  BY <1>1, <1>3, <1>4, <1>5 DEF own, call
<1>6. CASE r.domain = "lock"
  BY <1>1, <1>3, <1>4, <1>6 DEF own, call
<1>7. CASE r.domain = "climate"
  BY <1>1, <1>2, <1>3, <1>4, <1>7 DEF own, opt, call
<1>8. CASE r.domain = "input_select"
  BY <1>1, <1>2, <1>3, <1>4, <1>8 DEF own, opt, call
<1> QED BY <1>5, <1>6, <1>7, <1>8 DEF Shaped, DomainsKnown

LEMMA CallParts ==
  ASSUME NEW x, NEW w, NEW v
  PROVE  /\ Call(x, w, v).service = x /\ Call(x, w, v).to = w /\ Call(x, w, v).value = v
         /\ NoCall.service = "none"
BY DEF Call, NoCall

Services == {"own", "turn", "mode", "value"}

LEMMA ResolvedServices ==
  ASSUME NEW r, Shaped(r), NEW t, NEW s, Resolved(r, t, s) # NoCall
  PROVE  Resolved(r, t, s).service \in Services
<1>1. CASE r.mode \in {"fixed_state", "dynamic_state"}
  <2>1. PICK w : Resolved(r, t, s) = StateCall(r, t, w)
    BY <1>1, ResolvedBy
  <2>2. Resolved(r, t, s) \in {Call("own", w, Nothing), Call("turn", w, Nothing),
                               Call("mode", w, Nothing)}
    BY <2>1, StateCalls
  <2> QED BY <2>2, CallParts DEF Services
<1>2. CASE r.mode \in {"fixed_attribute", "dynamic_attribute"}
  <2>1. PICK v : Resolved(r, t, s) = ValueCall(v)
    BY <1>2, ResolvedBy
  <2> QED BY <2>1, CallParts DEF Services, ValueCall
<1> QED BY <1>1, <1>2 DEF Shaped

\* The device after the service brought the word w about.
Becomes(r, t, w) ==
    [state |-> w, value |-> IF w = "off" /\ r.domain = "light" THEN Missing ELSE t.value]

LEMMA EffectBy ==
  ASSUME NEW r, NEW t, NEW c, c.service \in Services, NEW u \in Effect(r, t, c)
  PROVE  /\ Gone(t) => u = t
         /\ ~Gone(t) /\ c.service = "value" =>
              IF ~Suits(r) \/ c.value.number \in {0, Missing} THEN u = t
              ELSE \E v \in Values :
                     /\ IF IsColor(r) THEN v - c.value.number \in -1 .. 1 ELSE v = c.value.number
                     /\ u = [state |-> IF r.domain = "light" THEN "on" ELSE t.state,
                             value |-> v]
         /\ ~Gone(t) /\ c.service \in {"own", "mode"} =>
              u = IF c.to \in LiveWords(r.domain) THEN Becomes(r, t, c.to) ELSE t
         /\ ~Gone(t) /\ c.service = "turn" =>
              IF r.domain \notin Switchable THEN u = t
              ELSE IF c.to = "off" THEN u = Becomes(r, t, "off")
              ELSE IF r.domain # "climate" THEN u = Becomes(r, t, "on")
              ELSE \E w \in IF t.state = "off" THEN {"heat", "cool"} ELSE {t.state} :
                     u = Becomes(r, t, w)
<1>1. CASE Gone(t)
  BY <1>1 DEF Effect
<1>2. CASE ~Gone(t) /\ c.service = "value"
  BY <1>2 DEF Effect
<1>3. CASE ~Gone(t) /\ c.service \in {"own", "mode"}
  BY <1>3 DEF Effect, Becomes
<1>4. CASE ~Gone(t) /\ c.service = "turn"
  BY <1>4 DEF Effect, Becomes
<1> QED BY <1>1, <1>2, <1>3, <1>4 DEF Services

LEMMA BecomesParts ==
  ASSUME NEW r, NEW t, NEW w
  PROVE  /\ Becomes(r, t, w).state = w
         /\ w # "off" \/ r.domain # "light" => Becomes(r, t, w).value = t.value
         /\ w = "off" /\ r.domain = "light" => Becomes(r, t, w).value = Missing
BY DEF Becomes

\* What a target can be.
LEMMA TargetShape ==
  ASSUME NEW r, Shaped(r), NEW t \in TargetStates(r)
  PROVE  \/ t = [state |-> "gone", value |-> Missing]
         \/ /\ t = [state |-> t.state, value |-> t.value]
            /\ t.state \in LiveWords(r.domain) /\ t.value \in Values \cup {Missing}
            /\ ~Gone(t)
            /\ ~Suits(r) => t.value = Missing
<1>1. "gone" \notin LiveWords(r.domain)
  BY DEF LiveWords, Words, Options, Shaped, DomainsKnown
<1>2. CASE t = [state |-> "gone", value |-> Missing]
  BY <1>2
<1>3. CASE t \in {u \in [state : LiveWords(r.domain), value : Values \cup {Missing}] :
                    /\ ~Suits(r) \/ (r.domain = "light" /\ u.state # "on") => u.value = Missing
                    /\ Suits(r) /\ r.domain = "climate" => u.value # Missing}
  BY <1>1, <1>3 DEF Gone
<1> QED BY <1>2, <1>3 DEF TargetStates

LEMMA TargetClosed ==
  ASSUME NEW r, Shaped(r), NEW x \in LiveWords(r.domain), NEW v \in Values \cup {Missing},
         ~Suits(r) \/ (r.domain = "light" /\ x # "on") => v = Missing,
         Suits(r) /\ r.domain = "climate" => v # Missing
  PROVE  [state |-> x, value |-> v] \in TargetStates(r)
BY DEF TargetStates

LEMMA EffectType ==
  ASSUME NEW r, Shaped(r), NEW t \in TargetStates(r), NEW c, c.service \in Services,
         NEW u \in Effect(r, t, c)
  PROVE  u \in TargetStates(r)
<1>1. CASE Gone(t)
  BY <1>1, EffectBy
<1> SUFFICES ASSUME ~Gone(t) PROVE u \in TargetStates(r)
  BY <1>1
<1>2. /\ t = [state |-> t.state, value |-> t.value]
      /\ t.state \in LiveWords(r.domain) /\ t.value \in Values \cup {Missing}
      /\ ~Suits(r) \/ (r.domain = "light" /\ t.state # "on") => t.value = Missing
      /\ Suits(r) /\ r.domain = "climate" => t.value # Missing
  BY DEF TargetStates, Gone
<1>3. ASSUME NEW w \in LiveWords(r.domain), u = Becomes(r, t, w),
             (r.domain = "light" /\ w = "on") \/ r.domain # "light" \/ w = "off"
      PROVE  u \in TargetStates(r)
  <2>1. u = [state |-> w, value |-> IF w = "off" /\ r.domain = "light" THEN Missing ELSE t.value]
    BY <1>3 DEF Becomes
  <2>2. ~Suits(r) => t.value = Missing
    BY <1>2
  <2> DEFINE v == IF w = "off" /\ r.domain = "light" THEN Missing ELSE t.value
  <2>3. v \in Values \cup {Missing}
    BY <1>2
  <2>4. ~Suits(r) \/ (r.domain = "light" /\ w # "on") => v = Missing
    BY <1>3, <2>2
  <2>5. Suits(r) /\ r.domain = "climate" => v # Missing
    BY <1>2
  <2> QED BY <1>3, <2>1, <2>3, <2>4, <2>5, TargetClosed
<1>4. CASE c.service \in {"own", "mode"}
  <2>1. r.domain = "light" => LiveWords(r.domain) = {"on", "off"}
    BY DEF LiveWords, Options
  <2> QED BY <1>3, <1>4, <2>1, EffectBy
<1>5. CASE c.service = "turn"
  <2>1. /\ r.domain \in {"light", "siren"} => {"on", "off"} \subseteq LiveWords(r.domain)
        /\ r.domain = "climate" => {"off", "heat", "cool"} \subseteq LiveWords(r.domain)
    BY DEF LiveWords, Words, Options
  <2>2. r.domain \notin Switchable => u = t
    BY <1>5, EffectBy
  <2>3. r.domain \in {"light", "siren"} => u = Becomes(r, t, "off") \/ u = Becomes(r, t, "on")
    BY <1>5, EffectBy DEF Switchable
  <2>4. r.domain = "climate" => \E w \in {"off", "heat", "cool", t.state} : u = Becomes(r, t, w)
    BY <1>5, EffectBy DEF Switchable
  <2>5. ASSUME r.domain \in {"light", "siren"} PROVE u \in TargetStates(r)
    BY <1>3, <2>1, <2>3, <2>5
  <2>6. ASSUME r.domain = "climate" PROVE u \in TargetStates(r)
    BY <1>2, <1>3, <2>1, <2>4, <2>6
  <2> QED BY <2>2, <2>5, <2>6 DEF Switchable
<1>6. CASE c.service = "value"
  <2>1. CASE ~Suits(r) \/ c.value.number \in {0, Missing}
    BY <1>6, <2>1, EffectBy
  <2>2. CASE Suits(r) /\ c.value.number \notin {0, Missing}
    <3>1. PICK v \in Values : u = [state |-> IF r.domain = "light" THEN "on" ELSE t.state,
                                   value |-> v]
      BY <1>6, <2>2, EffectBy
    <3>2. v # Missing
      BY LoopAssumption DEF Values, Missing
    <3>3. r.domain = "light" => "on" \in LiveWords(r.domain)
      BY DEF LiveWords, Options
    <3> DEFINE x == IF r.domain = "light" THEN "on" ELSE t.state
    <3>4. x \in LiveWords(r.domain) /\ (r.domain = "light" => x = "on")
      BY <1>2, <3>3
    <3> HIDE DEF x
    <3> QED BY <2>2, <3>1, <3>2, <3>4, TargetClosed DEF x
  <2> QED BY <2>1, <2>2
<1> QED BY <1>4, <1>5, <1>6 DEF Services

-----------------------------------------------------------------------------
(* The inductive invariant: the target is one its rule can have, and the      *)
(* command that is out is a real one.                                         *)

IInv == /\ rule \in Rules /\ target \in TargetStates(rule) /\ source \in SourceStates(rule)
        /\ phase \in {"idle", "due", "out"}
        /\ phase = "out" => command.service \in Services

\* IInv holds at every moment.
LEMMA Invariance == Spec => []IInv
<1>1. Init => IInv
  BY DEF Init, IInv
<1>2. IInv /\ [Next]_vars => IInv'
  <2> SUFFICES ASSUME IInv, [Next]_vars PROVE IInv'
    OBVIOUS
  <2>1. Shaped(rule)
    BY RulesShaped DEF IInv
  <2>2. CASE Decide
    BY <2>2 DEF IInv, Decide
  <2>3. CASE Lapse
    BY <2>3 DEF IInv, Lapse
  <2>4. CASE Send
    <3>1. command' # NoCall => command'.service \in Services
      BY <2>1, <2>4, ResolvedServices DEF Send
    <3> QED BY <2>4, <3>1 DEF IInv, Send
  <2>5. CASE CallEnds
    <3>1. target' \in TargetStates(rule)
      BY <2>1, <2>5, EffectType DEF IInv, CallEnds
    <3> QED BY <2>5, <3>1 DEF IInv, CallEnds
  <2>6. CASE TargetMoves
    BY <2>6 DEF IInv, TargetMoves
  <2>7. CASE SourceMoves
    BY <2>7 DEF IInv, SourceMoves
  <2>8. CASE UNCHANGED vars
    BY <2>8 DEF IInv, vars
  <2> QED BY <2>2, <2>3, <2>4, <2>5, <2>6, <2>7, <2>8 DEF Next, Guarding
<1> QED BY <1>1, <1>2, PTL DEF Spec

-----------------------------------------------------------------------------
(* A stuck rule.                                                              *)

LEMMA NoCommandHelpsBy ==
  ASSUME NEW r, Shaped(r), NEW t, NEW s
  PROVE  /\ r.mode = "fixed_state" => (NoCommandHelps(r, t, s) <=> r.to \notin Options[r.domain])
         /\ r.mode = "fixed_attribute" =>
              (NoCommandHelps(r, t, s) <=>
                 /\ ~IsColor(r)
                 /\ \/ r.value < r.threshold /\ r.operator \in {"<", "<="}
                    \/ r.value > r.threshold /\ r.operator \in {">", ">="}
                    \/ r.value = r.threshold /\ r.operator \in {"<=", ">="})
         /\ r.mode = "dynamic_state" =>
              (NoCommandHelps(r, t, s) <=> ~Turns(r.domain, Desired(r, s)))
         /\ r.mode = "dynamic_attribute" =>
              (NoCommandHelps(r, t, s) <=>
                 \/ ~Suits(r) \/ Followed(r, s).number \in {0, Missing}
                 \/ IsColor(r) /\ t.state # "on")
<1>1. CASE r.mode = "fixed_state"
  BY <1>1 DEF NoCommandHelps
<1>2. CASE r.mode = "fixed_attribute"
  BY <1>2 DEF NoCommandHelps
<1>3. CASE r.mode = "dynamic_state"
  BY <1>3 DEF NoCommandHelps
<1>4. CASE r.mode = "dynamic_attribute"
  BY <1>4 DEF NoCommandHelps
<1> QED BY <1>1, <1>2, <1>3, <1>4 DEF Shaped

\* A target that is gone violates nothing.
LEMMA TriggeredIsThere ==
  ASSUME NEW r, Shaped(r), NEW t \in TargetStates(r), NEW s, Triggered(r, t, s)
  PROVE  ~Gone(t)
<1> SUFFICES ASSUME Gone(t) PROVE FALSE
  OBVIOUS
<1>1. t.state = "gone" /\ t.value = Missing
  BY TargetShape DEF Gone
<1>2. "gone" \notin Words(r.domain)
  BY DEF Words, Options, Shaped, DomainsKnown
<1>3. CASE r.mode = "fixed_state"
  BY <1>1, <1>2, <1>3, TriggeredBy DEF Shaped
<1>4. CASE r.mode = "fixed_attribute"
  BY <1>1, <1>4, TriggeredBy DEF ColorTriggered
<1>5. CASE r.mode = "dynamic_state"
  BY <1>5, TriggeredBy DEF StateTriggered
<1>6. CASE r.mode = "dynamic_attribute"
  BY <1>6, TriggeredBy DEF ValueTriggered
<1> QED BY <1>3, <1>4, <1>5, <1>6 DEF Shaped

LEMMA CompareBy ==
  ASSUME NEW v \in Int, NEW h \in Int, NEW op \in Operators
  PROVE  Compare(v, op, h) <=> \/ v < h /\ op \in {"<", "<="}
                               \/ v > h /\ op \in {">", ">="}
                               \/ v = h /\ op \in {"<=", ">="}
<1>1. CASE op = "<"
  BY <1>1 DEF Compare
<1>2. CASE op = "<="
  BY <1>2 DEF Compare
<1>3. CASE op = ">"
  BY <1>3 DEF Compare
<1>4. CASE op = ">="
  BY <1>4 DEF Compare
<1> QED BY <1>1, <1>2, <1>3, <1>4 DEF Operators

LEMMA DesiredWords ==
  ASSUME NEW r, NEW s
  PROVE  Desired(r, s) \in {"none", "on", "off"}
BY DEF Desired

\* Whatever a stuck rule sends, its device ends up in a violation that no command helps.
LEMMA StuckEffect ==
  ASSUME NEW r, Shaped(r), NEW t \in TargetStates(r), NEW s, NEW u \in Effect(r, t, Resolved(r, t, s)),
         Resolved(r, t, s).service \in Services,
         Triggered(r, t, s), NoCommandHelps(r, t, s)
  PROVE  Triggered(r, u, s) /\ NoCommandHelps(r, u, s)
<1> DEFINE c == Resolved(r, t, s)
<1>1. ~Gone(t)
  BY TriggeredIsThere
<1>2. c # NoCall
  BY CallParts DEF Services
<1>3. r.domain \in DomainsKnown
  BY DEF Shaped
<1>4. u \in Effect(r, t, c) /\ c.service \in Services
  OBVIOUS
<1>5. CASE r.mode = "fixed_state"
  <2>1. c = StateCall(r, t, r.to) /\ r.to \notin Options[r.domain]
    BY <1>5, ResolvedBy, NoCommandHelpsBy
  <2> HIDE DEF c
  <2>2. CASE r.domain \in {"light", "siren"}
    BY <1>2, <2>1, <2>2, StateCalls DEF Options
  <2>3. r.domain \in {"lock", "climate", "input_select"} => r.to = "other"
    BY <1>5, <2>1 DEF Shaped, Words
  <2>4. r.domain \in {"lock", "climate", "input_select"} => c = NoCall
    BY <1>1, <2>1, <2>3, StateCalls
  <2> QED BY <1>2, <1>3, <2>2, <2>4 DEF DomainsKnown
<1>6. CASE r.mode = "fixed_attribute"
  <2>1. ~IsColor(r) /\ c = ValueCall(Number(r.value))
    BY <1>2, <1>6, ResolvedBy, NoCommandHelpsBy DEF ColorGuard
  <2>2. c.service = "value" /\ c.value.number = r.value
    BY <2>1, CallParts DEF ValueCall, Number
  <2>3. /\ r.value \in Int /\ r.value # Missing /\ r.threshold \in Int
        /\ r.operator \in Operators /\ r.value # 0
    BY <1>6, <2>1, LoopAssumption DEF Shaped, Values, Missing
  <2> HIDE DEF c
  <2>4. u.value \in {t.value, r.value}
    BY <1>1, <1>4, <2>1, <2>2, EffectBy
  <2>5. Compare(r.value, r.operator, r.threshold)
    BY <1>6, <2>3, NoCommandHelpsBy, CompareBy
  <2>6. u.value # Missing /\ Compare(u.value, r.operator, r.threshold)
    BY <1>6, <2>1, <2>3, <2>4, <2>5, TriggeredBy
  <2>7. Triggered(r, u, s)
    BY <1>6, <2>1, <2>6, TriggeredBy
  <2>8. NoCommandHelps(r, u, s)
    BY <1>6, NoCommandHelpsBy
  <2> QED BY <2>7, <2>8
<1>7. CASE r.mode = "dynamic_state"
  <2> DEFINE w == Desired(r, s)
  <2>1. /\ w \in {"on", "off"} /\ (t.state \in FollowOnStates) # (w = "on")
        /\ ~Turns(r.domain, w)
    BY <1>7, TriggeredBy, NoCommandHelpsBy, DesiredWords DEF StateTriggered
  <2>2. c = StateCall(r, t, w)
    BY <1>7, <2>1, ResolvedBy
  <2>3. NoCommandHelps(r, u, s)
    BY <1>7, NoCommandHelpsBy
  <2>4. Triggered(r, u, s) <=> ~Gone(u) /\ (u.state \in FollowOnStates) # (w = "on")
    BY <1>7, <2>1, TriggeredBy DEF StateTriggered
  <2> HIDE DEF c, w
  <2>5. r.domain \in {"lock", "climate", "input_select"}
    BY <1>3, <2>1 DEF Turns, DomainsKnown
  <2>6. CASE r.domain = "lock"
    <3>1. c = Call("turn", w, Nothing)
      BY <2>1, <2>2, <2>6, StateCalls
    <3>2. u = t
      BY <1>1, <1>4, <2>6, <3>1, EffectBy, CallParts DEF Switchable
    <3> QED BY <2>3, <3>2
  <2>7. CASE r.domain = "climate"
    <3>0. LiveWords(r.domain) = {"off", "heat", "cool", "other"}
      BY <2>7 DEF LiveWords, Words, Options
    <3>1. t.state \in {"off", "heat", "cool", "other"}
      BY <1>1, <3>0, TargetShape DEF Gone
    <3>2. w = "on"
      BY <2>1, <3>1 DEF FollowOnStates
    <3>3. c = Call("turn", w, Nothing)
      BY <1>1, <2>2, <2>7, <3>2, StateCalls
    <3>4. PICK x \in {"heat", "cool", "off", t.state} : u = Becomes(r, t, x) /\ x # "off"
      BY <1>1, <1>4, <2>7, <3>2, <3>3, EffectBy, CallParts DEF Switchable
    <3>5. u.state \in {"heat", "cool", "other"}
      BY <3>1, <3>4, BecomesParts
    <3> QED BY <2>3, <2>4, <3>2, <3>5 DEF Gone, FollowOnStates
  <2>8. CASE r.domain = "input_select"
    <3>1. w = "off"
      BY <2>1, <2>8 DEF Turns, Options
    <3>2. c = NoCall
      BY <1>1, <2>2, <2>8, <3>1, StateCalls
    <3> QED BY <1>2, <3>2
  <2> QED BY <2>5, <2>6, <2>7, <2>8
<1>8. CASE r.mode = "dynamic_attribute"
  <2>1. c = ValueCall(Followed(r, s)) /\ ~ColorGuard(r, t)
    BY <1>2, <1>8, ResolvedBy
  <2>2. c.service = "value" /\ c.value = Followed(r, s)
    BY <2>1, CallParts DEF ValueCall
  <2>3. ~(IsColor(r) /\ t.state # "on")
    BY <2>1 DEF ColorGuard
  <2>4. ~Suits(r) \/ c.value.number \in {0, Missing}
    BY <1>8, <2>2, <2>3, NoCommandHelpsBy
  <2> HIDE DEF c
  <2>5. u = t
    BY <1>1, <1>4, <2>2, <2>4, EffectBy
  <2> QED BY <2>5
<1> QED BY <1>5, <1>6, <1>7, <1>8 DEF Shaped

-----------------------------------------------------------------------------
(* A rule that is not stuck.                                                  *)

\* The service of a state that the dropdowns offer brings the state about.
LEMMA StateCallWorks ==
  ASSUME NEW r, Shaped(r), NEW t \in TargetStates(r), ~Gone(t), NEW w \in Options[r.domain]
  PROVE  /\ StateCall(r, t, w).service \in Services
         /\ \A u \in Effect(r, t, StateCall(r, t, w)) : u.state = w
<1> DEFINE c == StateCall(r, t, w)
<1>1. r.domain \in DomainsKnown
  BY DEF Shaped
<1>2. w \in LiveWords(r.domain)
  BY <1>1 DEF LiveWords, Words
<1>3. \/ c \in {Call("own", w, Nothing), Call("mode", w, Nothing)}
      \/ /\ c = Call("turn", w, Nothing) /\ w \in {"on", "off"}
         /\ r.domain \in {"light", "siren"}
  <2>1. CASE r.domain \in {"light", "siren"}
    <3>1. w \in {"on", "off"}
      BY <2>1 DEF Options
    <3> QED BY <2>1, <3>1, StateCalls
  <2>2. CASE r.domain = "lock"
    <3>1. w \in {"locked", "unlocked"}
      BY <2>2 DEF Options
    <3> QED BY <2>2, <3>1, StateCalls
  <2>3. CASE r.domain = "climate"
    <3>1. w \in {"off", "heat", "cool"}
      BY <2>3 DEF Options
    <3>2. c = IF w = "off" THEN Call("own", w, Nothing)
              ELSE IF w = "on" THEN Call("turn", w, Nothing)
              ELSE IF w \in {"heat", "cool"} THEN Call("mode", w, Nothing)
              ELSE NoCall
      BY <2>3, StateCalls
    <3> HIDE DEF c
    <3> QED BY <3>1, <3>2
  <2>4. CASE r.domain = "input_select"
    <3>1. w \in {"on", "eco"}
      BY <2>4 DEF Options
    <3> QED BY <2>4, <3>1, StateCalls
  <2> QED BY <1>1, <2>1, <2>2, <2>3, <2>4 DEF DomainsKnown
<1> HIDE DEF c
<1>4. c.service \in Services
  BY <1>3, CallParts DEF Services
<1>5. ASSUME NEW u \in Effect(r, t, c) PROVE u.state = w
  <2>1. CASE c \in {Call("own", w, Nothing), Call("mode", w, Nothing)}
    <3>1. c.service \in {"own", "mode"} /\ c.to = w
      BY <2>1, CallParts
    <3>2. u = Becomes(r, t, w)
      BY <1>2, <1>4, <3>1, EffectBy
    <3> QED BY <3>2, BecomesParts
  <2>2. CASE /\ c = Call("turn", w, Nothing) /\ w \in {"on", "off"}
             /\ r.domain \in {"light", "siren"}
    <3>1. c.service = "turn" /\ c.to = w
      BY <2>2, CallParts
    <3>2. u = Becomes(r, t, w)
      BY <1>4, <2>2, <3>1, EffectBy DEF Switchable
    <3> QED BY <3>2, BecomesParts
  <2> QED BY <1>3, <2>1, <2>2
<1> QED BY <1>4, <1>5 DEF c

LEMMA FollowedNumber ==
  ASSUME NEW r, NEW s \in SourceStates(r)
  PROVE  Followed(r, s).number \in Int
<1>1. \A w : Word(w).number = Missing
  BY DEF Word
<1>2. \A n : Number(n).number = n
  BY DEF Number
<1>3. \A v \in LiveValues \cup {Word("idle"), Nothing} : v.number \in Int
  BY <1>1, <1>2, LoopAssumption DEF LiveValues, Nothing, Missing, Values
<1>4. s.state \in LiveValues \cup {Word("idle"), Nothing}
      /\ s.attribute \in LiveValues \cup {Word("idle"), Nothing}
  <2>1. CASE ~IsDynamic(r)
    BY <2>1 DEF SourceStates
  <2>2. CASE IsDynamic(r) /\ r.from = "state"
    BY <2>2 DEF SourceStates
  <2>3. CASE IsDynamic(r) /\ r.from # "state"
    BY <2>3 DEF SourceStates
  <2> QED BY <2>1, <2>2, <2>3
<1> QED BY <1>3, <1>4 DEF Followed

\* A violation of a rule that is not stuck resolves to a command that ends it.
LEMMA HelpfulEffect ==
  ASSUME NEW r, Shaped(r), NEW t \in TargetStates(r), NEW s \in SourceStates(r),
         Triggered(r, t, s), ~NoCommandHelps(r, t, s)
  PROVE  /\ Resolved(r, t, s).service \in Services
         /\ \A u \in Effect(r, t, Resolved(r, t, s)) : ~Triggered(r, u, s)
<1> DEFINE c == Resolved(r, t, s)
<1>1. ~Gone(t)
  BY TriggeredIsThere
<1>2. r.domain \in DomainsKnown
  BY DEF Shaped
<1>3. CASE r.mode = "fixed_state"
  <2>1. c = StateCall(r, t, r.to) /\ r.to \in Options[r.domain]
    BY <1>3, ResolvedBy, NoCommandHelpsBy
  <2>2. r.to \notin r.triggers
    BY <1>3 DEF Shaped
  <2> HIDE DEF c
  <2>3. ASSUME NEW u \in Effect(r, t, c) PROVE ~Triggered(r, u, s)
    <3>1. u.state = r.to
      BY <1>1, <2>1, StateCallWorks
    <3> QED BY <1>3, <2>2, <3>1, TriggeredBy
  <2> QED BY <1>1, <2>1, <2>3, StateCallWorks DEF c
<1>4. CASE r.mode = "dynamic_state"
  <2> DEFINE w == Desired(r, s)
  <2>1. w \in {"on", "off"} /\ Turns(r.domain, w)
    BY <1>4, TriggeredBy, NoCommandHelpsBy, DesiredWords DEF StateTriggered
  <2>2. c = StateCall(r, t, w)
    BY <1>4, <2>1, ResolvedBy
  <2>3. \A u : Triggered(r, u, s) => (u.state \in FollowOnStates) # (w = "on")
    BY <1>4, TriggeredBy DEF StateTriggered
  <2> HIDE DEF c, w
  <2>4. w \in Options[r.domain]
    BY <1>2, <2>1 DEF Turns, Options, DomainsKnown
  <2>5. ASSUME NEW u \in Effect(r, t, c) PROVE ~Triggered(r, u, s)
    <3>1. u.state = w
      BY <1>1, <2>2, <2>4, StateCallWorks
    <3> QED BY <2>1, <2>3, <3>1 DEF FollowOnStates
  <2> QED BY <1>1, <2>2, <2>4, <2>5, StateCallWorks DEF c
<1>5. CASE r.mode = "fixed_attribute"
  <2>1. t.value # Missing /\ (IsColor(r) => t.state = "on")
    BY <1>5, TriggeredBy DEF ColorTriggered
  <2>2. Suits(r)
    BY <1>1, <2>1, TargetShape DEF Gone
  <2>3. c = ValueCall(Number(r.value))
    BY <1>5, <2>1, ResolvedBy DEF ColorGuard
  <2>4. c.service = "value" /\ c.value.number = r.value
    BY <2>3, CallParts DEF ValueCall, Number
  <2>5. r.value \in Int /\ r.value # Missing /\ r.value # 0
    BY <1>5, LoopAssumption DEF Shaped, Values, Missing
  <2> HIDE DEF c
  <2>6. c.service \in Services
    BY <2>4 DEF Services
  <2>7. ASSUME NEW u \in Effect(r, t, c) PROVE ~Triggered(r, u, s)
    <3>1. PICK v \in Values :
            /\ IF IsColor(r) THEN v - r.value \in -1 .. 1 ELSE v = r.value
            /\ u.value = v
      BY <1>1, <2>2, <2>4, <2>5, <2>6, EffectBy
    <3>2. v \in Int
      BY LoopAssumption DEF Values
    <3>3. CASE IsColor(r)
      <4>1. v - r.value <= 1 /\ r.value - v <= 1
        BY <2>5, <3>1, <3>2, <3>3
      <4>2. Near(u.value, r.value)
        BY <3>1, <4>1 DEF Near, Tolerance
      <4> QED BY <1>5, <3>3, <4>2, TriggeredBy DEF ColorTriggered
    <3>4. CASE ~IsColor(r)
      <4>1. r.threshold \in Int /\ r.operator \in Operators
        BY <1>5, <3>4, LoopAssumption DEF Shaped, Values
      <4>2. ~Compare(r.value, r.operator, r.threshold)
        BY <1>5, <2>5, <3>4, <4>1, CompareBy, NoCommandHelpsBy
      <4> QED BY <1>5, <3>1, <3>4, <4>2, TriggeredBy
    <3> QED BY <3>3, <3>4
  <2> QED BY <2>6, <2>7 DEF c
<1>6. CASE r.mode = "dynamic_attribute"
  <2> DEFINE f == Followed(r, s)
  <2>1. Suits(r) /\ f.number \notin {0, Missing} /\ (IsColor(r) => t.state = "on")
    BY <1>6, NoCommandHelpsBy
  <2>2. c = ValueCall(f)
    <3>1. f # Nothing
      BY <1>6, TriggeredBy DEF ValueTriggered
    <3> QED BY <1>6, <2>1, <3>1, ResolvedBy DEF ColorGuard
  <2>3. c.service = "value" /\ c.value = f
    BY <2>2, CallParts DEF ValueCall
  <2>4. f.number \in Int
    BY FollowedNumber
  <2>5. \A u : Triggered(r, u, s) => ~Matches(r, f, u.value)
    BY <1>6, TriggeredBy DEF ValueTriggered
  <2> HIDE DEF c, f
  <2>6. c.service \in Services
    BY <2>3 DEF Services
  <2>7. ASSUME NEW u \in Effect(r, t, c) PROVE ~Triggered(r, u, s)
    <3>1. PICK v \in Values :
            /\ IF IsColor(r) THEN v - f.number \in -1 .. 1 ELSE v = f.number
            /\ u.value = v
      BY <1>1, <2>1, <2>3, <2>6, EffectBy
    <3>2. v \in Int /\ v # Missing
      BY LoopAssumption DEF Values, Missing
    <3>3. CASE IsColor(r)
      <4>1. v - f.number <= 1 /\ f.number - v <= 1
        BY <2>4, <3>1, <3>2, <3>3
      <4>2. Near(f.number, v)
        BY <4>1 DEF Near, Tolerance
      <4> QED BY <2>1, <2>5, <3>1, <3>2, <3>3, <4>2 DEF Matches
    <3>4. CASE ~IsColor(r)
      BY <2>1, <2>5, <3>1, <3>2, <3>4 DEF Matches
    <3> QED BY <3>3, <3>4
  <2> QED BY <2>6, <2>7 DEF c
<1> QED BY <1>3, <1>4, <1>5, <1>6 DEF Shaped

-----------------------------------------------------------------------------
(* The theorems.                                                              *)

\* The exceptions of Converges are exact, for every rule the dialogs accept: once
\* a rule is stuck, no command that it can send helps (_trigger_decision against
\* _resolve_service).
THEOREM StuckRulesStayStuck == Spec => StuckStaysStuck
<1>1. IInv /\ [Next]_vars =>
        [Guarding /\ Stuck /\ (phase = "out" => command = Resolved(rule, target, source))
           => Stuck']_vars
  <2> SUFFICES ASSUME IInv, Guarding, Stuck,
                      phase = "out" => command = Resolved(rule, target, source)
               PROVE  Stuck'
    OBVIOUS
  <2>1. CASE Decide \/ Lapse \/ Send
    <3>1. rule' = rule /\ target' = target /\ source' = source
      BY <2>1 DEF Decide, Lapse, Send
    <3> QED BY <3>1 DEF Stuck
  <2>2. CASE CallEnds
    <3>1. rule' = rule /\ source' = source
      BY <2>2 DEF CallEnds
    <3>2. Shaped(rule) /\ target \in TargetStates(rule)
      BY RulesShaped DEF IInv
    <3>3. /\ command = Resolved(rule, target, source) /\ command.service \in Services
          /\ target' \in Effect(rule, target, command)
      BY <2>2 DEF CallEnds, IInv
    <3>4. Triggered(rule, target', source) /\ NoCommandHelps(rule, target', source)
      BY <3>2, <3>3, StuckEffect DEF Stuck
    <3> QED BY <3>1, <3>4 DEF Stuck
  <2> QED BY <2>1, <2>2 DEF Guarding
<1> QED BY <1>1, Invariance, PTL DEF Spec, StuckStaysStuck

\* For every rule the dialogs accept: a violation of a rule that is not stuck
\* resolves to a command (_resolve_service), and a command that is still the right
\* one when it takes effect ends the violation (_trigger_decision).
THEOREM OneCommandEndsIt == Spec => OneCommandSuffices
<1>1. IInv /\ [Next]_vars =>
        [Triggered(rule, target, source) /\ ~Stuck
           => /\ Send => phase' = "out"
              /\ CallEnds /\ command = Resolved(rule, target, source)
                   => ~Triggered(rule, target', source)]_vars
  <2> SUFFICES ASSUME IInv, Triggered(rule, target, source), ~Stuck
               PROVE  /\ Send => phase' = "out"
                      /\ CallEnds /\ command = Resolved(rule, target, source)
                           => ~Triggered(rule, target', source)
    OBVIOUS
  <2>1. /\ Resolved(rule, target, source).service \in Services
        /\ \A u \in Effect(rule, target, Resolved(rule, target, source)) :
             ~Triggered(rule, u, source)
    BY RulesShaped, HelpfulEffect DEF IInv, Stuck
  <2>2. Resolved(rule, target, source) # NoCall
    BY <2>1, CallParts DEF Services
  <2>3. Send => phase' = "out"
    BY <2>2 DEF Send
  <2>4. CallEnds /\ command = Resolved(rule, target, source)
          => ~Triggered(rule, target', source)
    BY <2>1 DEF CallEnds
  <2> QED BY <2>3, <2>4
<1> QED BY <1>1, Invariance, PTL DEF Spec, OneCommandSuffices

=============================================================================
