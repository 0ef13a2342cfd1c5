------------------------- MODULE HubLifecycleProofs -------------------------
(***************************************************************************)
(* Proofs about HubLifecycle, for any rules and any number of imports that *)
(* are under way at once.                                                  *)
(*                                                                         *)
(* Types are inductive as they stand, and so are the services.  The master *)
(* needs to know where else its value may come from: the option of a hub   *)
(* entry, which a set-up copies (KeptWord), and that nothing of a stopped  *)
(* process is left when the next one begins (Stopped).                     *)
(***************************************************************************)
EXTENDS HubLifecycle, TLAPS

\* One of the steps by which the rules change, for the case split of every proof
RuleStep(r) == \/ CreateRule(r)
               \/ SetUpRule(r)
               \/ RuleReady(r)
               \/ Repaint(r)
               \/ UnloadRule(r, "reloading")
               \/ UnloadRule(r, "removing")
               \/ Unloaded(r)
               \/ DropRule(r)

\* No module of a stopped process is left: engines and a loaded hub need one that runs.
Stopped == ~up => hub # "loaded" /\ Engines = {}

\* A hub entry keeps the last word on the master in its options.
KeptWord == hub # "none" /\ ~reborn => opt = wish

MasterInv == TypeOK /\ Stopped /\ KeptWord /\ MasterIsObeyed

-----------------------------------------------------------------------------
(* Types.                                                                  *)

\* Initially every variable has its type.
LEMMA InitTyped == Init => TypeOK
  <1> SUFFICES ASSUME Init PROVE TypeOK
    OBVIOUS
  <1>1. imports \in 0 .. MaxImports
    BY ImportsAssumption DEF Init
  <1>2. /\ rule \in [Rules -> {"absent", "entry", "starting", "loaded", "reloading",
                              "removing"}]
        /\ seen \in [Rules -> BOOLEAN]
    BY DEF Init
  <1> QED
    BY <1>1, <1>2 DEF Init, TypeOK

\* Every step keeps the types.
LEMMA StepTyped == ASSUME TypeOK, [Next]_vars PROVE TypeOK'
  <1> USE ImportsAssumption DEF TypeOK
  <1>1. CASE Import
    <2>1. imports' \in 0 .. MaxImports
      BY <1>1 DEF Import
    <2>2. reborn' \in BOOLEAN
      BY <1>1 DEF Import
    <2> QED
      BY <1>1, <2>1, <2>2 DEF Import
  <1>2. CASE SetUpHub
    BY <1>2 DEF SetUpHub, Engines
  <1>3. CASE UnloadHub
    BY <1>3 DEF UnloadHub
  <1>4. CASE RemoveHub
    BY <1>4 DEF RemoveHub, EnsureHub
  <1>5. ASSUME NEW v \in BOOLEAN, SetMaster(v) PROVE TypeOK'
    BY <1>5 DEF SetMaster, Told
  <1>6. CASE PanicStop
    BY <1>6 DEF PanicStop, Told
  <1>7. ASSUME NEW r \in Rules, CreateRule(r) PROVE TypeOK'
    BY <1>7 DEF CreateRule, EnsureHub
  <1>8. ASSUME NEW r \in Rules, SetUpRule(r) PROVE TypeOK'
    BY <1>8 DEF SetUpRule
  <1>9. ASSUME NEW r \in Rules, RuleReady(r) PROVE TypeOK'
    BY <1>9 DEF RuleReady, EnsureHub
  <1>10. ASSUME NEW r \in Rules, Repaint(r) PROVE TypeOK'
    BY <1>10 DEF Repaint
  <1>11. ASSUME NEW r \in Rules, NEW next \in {"reloading", "removing"}, UnloadRule(r, next)
         PROVE  TypeOK'
    BY <1>11 DEF UnloadRule
  <1>12. ASSUME NEW r \in Rules, Unloaded(r) PROVE TypeOK'
    BY <1>12 DEF Unloaded, ServicesWithout
  <1>13. CASE Stop
    <2>1. imports' \in 0 .. MaxImports
      BY <1>13 DEF Stop
    <2>2. rule' \in [Rules -> {"absent", "entry", "starting", "loaded", "reloading",
                               "removing"}]
      BY <1>13 DEF Stop
    <2> QED
      BY <1>13, <2>1, <2>2 DEF Stop
  <1>14. CASE Start
    BY <1>14 DEF Start
  <1>15. CASE UNCHANGED vars
    BY <1>15 DEF vars
  <1>16. CASE ImportFails
    BY <1>16 DEF ImportFails
  <1>17. ASSUME NEW r \in Rules, DropRule(r) PROVE TypeOK'
    BY <1>17 DEF DropRule
  <1> QED
    BY <1>1, <1>2, <1>3, <1>4, <1>5, <1>6, <1>7, <1>8, <1>9, <1>10, <1>11, <1>12, <1>13,
       <1>14, <1>15, <1>16, <1>17 DEF Next

\* Every variable keeps its type, and no more than MaxImports imports are under way.
THEOREM TypeCorrect == Spec => []TypeOK
  BY InitTyped, StepTyped, PTL DEF Spec

-----------------------------------------------------------------------------
(* The master.                                                             *)

\* The parts of the invariant hold initially.
LEMMA InitMaster == Init => MasterInv
  <1> SUFFICES ASSUME Init PROVE MasterInv
    OBVIOUS
  <1>1. TypeOK
    BY InitTyped
  <1> QED
    BY <1>1 DEF MasterInv, Stopped, KeptWord, MasterIsObeyed, Init, Engines

\* Every step keeps a stopped process empty.
LEMMA StepStopped == ASSUME TypeOK, Stopped, [Next]_vars PROVE Stopped'
  <1> USE DEF Stopped, Engines, TypeOK
  <1>1. CASE Stop
    BY <1>1 DEF Stop
  <1>2. CASE Start
    BY <1>2 DEF Start
  <1>3. CASE Import \/ ImportFails \/ SetUpHub \/ UnloadHub \/ RemoveHub \/ PanicStop
    BY <1>3 DEF Import, ImportFails, SetUpHub, UnloadHub, RemoveHub, PanicStop
  <1>4. ASSUME NEW v \in BOOLEAN, SetMaster(v) PROVE Stopped'
    BY <1>4 DEF SetMaster
  <1>5. ASSUME NEW r \in Rules, RuleStep(r) PROVE Stopped'
    BY <1>5 DEF RuleStep, CreateRule, SetUpRule, RuleReady, Repaint, UnloadRule, Unloaded,
                     DropRule
  <1>6. CASE UNCHANGED vars
    BY <1>6 DEF vars
  <1> QED
    BY <1>1, <1>2, <1>3, <1>4, <1>5, <1>6 DEF Next, RuleStep

\* Every step keeps the entry's option and the flag at the user's last word.
LEMMA StepMaster ==
    ASSUME TypeOK, Stopped, KeptWord, MasterIsObeyed, [Next]_vars
    PROVE  KeptWord' /\ MasterIsObeyed'
  <1> USE DEF KeptWord, MasterIsObeyed, TypeOK
  <1>1. CASE Import
    BY <1>1 DEF Import
  <1>2. CASE SetUpHub
    BY <1>2 DEF SetUpHub
  <1>3. CASE UnloadHub
    BY <1>3 DEF UnloadHub
  <1>4. CASE RemoveHub
    BY <1>4 DEF RemoveHub
  <1>5. ASSUME NEW v \in BOOLEAN, SetMaster(v) PROVE KeptWord' /\ MasterIsObeyed'
    BY <1>5 DEF SetMaster, Told
  <1>6. CASE PanicStop
    BY <1>6 DEF PanicStop, Told
  <1>7. CASE Stop
    BY <1>7 DEF Stop
  <1>8. CASE Start
    BY <1>8 DEF Start, Stopped
  <1>9. ASSUME NEW r \in Rules, RuleStep(r) PROVE KeptWord' /\ MasterIsObeyed'
    BY <1>9 DEF RuleStep, CreateRule, SetUpRule, RuleReady, Repaint, UnloadRule, Unloaded,
                     DropRule
  <1>10. CASE UNCHANGED vars
    BY <1>10 DEF vars
  <1>11. CASE ImportFails
    BY <1>11 DEF ImportFails
  <1> QED
    BY <1>1, <1>2, <1>3, <1>4, <1>5, <1>6, <1>7, <1>8, <1>9, <1>10, <1>11 DEF Next, RuleStep

\* The engines obey the master a user asked for last, unless the entry that kept the
\* word is gone or still to be set up.
THEOREM MasterIsObeyedAlways == Spec => []MasterIsObeyed
  <1>1. MasterInv /\ [Next]_vars => MasterInv'
    BY StepTyped, StepStopped, StepMaster DEF MasterInv
  <1> QED
    BY <1>1, InitMaster, PTL DEF Spec, MasterInv

-----------------------------------------------------------------------------
(* What the engines show.                                                  *)

\* Every step that changes the flag tells the engines, or marks them as unaware.
LEMMA StepSeen ==
    ASSUME TypeOK, Stopped, EnginesSeeMaster, [Next]_vars
    PROVE  EnginesSeeMaster'
  <1> USE DEF EnginesSeeMaster, Engines, TypeOK
  <1>1. CASE Import \/ ImportFails
    BY <1>1 DEF Import, ImportFails
  <1>2. CASE SetUpHub
    BY <1>2 DEF SetUpHub
  <1>3. CASE UnloadHub \/ RemoveHub
    BY <1>3 DEF UnloadHub, RemoveHub
  <1>4. ASSUME NEW v \in BOOLEAN, SetMaster(v) PROVE EnginesSeeMaster'
    BY <1>4 DEF SetMaster, Told
  <1>5. CASE PanicStop
    BY <1>5 DEF PanicStop, Told
  <1>6. ASSUME NEW r \in Rules, CreateRule(r) PROVE EnginesSeeMaster'
    BY <1>6 DEF CreateRule
  <1>7. ASSUME NEW r \in Rules, SetUpRule(r) PROVE EnginesSeeMaster'
    BY <1>7 DEF SetUpRule
  <1>8. ASSUME NEW r \in Rules, RuleReady(r) PROVE EnginesSeeMaster'
    BY <1>8 DEF RuleReady
  <1>9. ASSUME NEW r \in Rules, Repaint(r) PROVE EnginesSeeMaster'
    BY <1>9 DEF Repaint
  <1>10. ASSUME NEW r \in Rules, NEW next \in {"reloading", "removing"}, UnloadRule(r, next)
         PROVE  EnginesSeeMaster'
    BY <1>10 DEF UnloadRule
  <1>11. ASSUME NEW r \in Rules, Unloaded(r) PROVE EnginesSeeMaster'
    BY <1>11 DEF Unloaded
  <1>12. CASE Stop
    BY <1>12 DEF Stop
  <1>13. CASE Start
    BY <1>13 DEF Start, Stopped
  <1>14. CASE UNCHANGED vars
    BY <1>14 DEF vars
  <1>15. ASSUME NEW r \in Rules, DropRule(r) PROVE EnginesSeeMaster'
    BY <1>15 DEF DropRule
  <1> QED
    BY <1>1, <1>2, <1>3, <1>4, <1>5, <1>6, <1>7, <1>8, <1>9, <1>10, <1>11, <1>12, <1>13,
       <1>14, <1>15 DEF Next

\* An engine shows the master it obeys, unless a hub set-up changed it unseen.
THEOREM EnginesSeeMasterAlways == Spec => []EnginesSeeMaster
  <1> DEFINE Inv == TypeOK /\ Stopped /\ EnginesSeeMaster
  <1>1. Init => Inv
    BY InitTyped DEF Init, Stopped, EnginesSeeMaster, Engines
  <1>2. Inv /\ [Next]_vars => Inv'
    BY StepTyped, StepStopped, StepSeen
  <1> QED
    BY <1>1, <1>2, PTL DEF Spec

-----------------------------------------------------------------------------
(* The services.                                                           *)

\* No step takes the services while a rule is loaded.
LEMMA StepServices ==
    ASSUME TypeOK, LoadedRuleHasServices, [Next]_vars
    PROVE  LoadedRuleHasServices'
  <1> USE DEF LoadedRuleHasServices, TypeOK
  <1>1. CASE Import \/ ImportFails \/ SetUpHub \/ PanicStop \/ Stop \/ Start
    BY <1>1 DEF Import, ImportFails, SetUpHub, PanicStop, Stop, Start
  <1>2. CASE UnloadHub \/ RemoveHub
    BY <1>2 DEF UnloadHub, RemoveHub, Entries
  <1>3. ASSUME NEW v \in BOOLEAN, SetMaster(v) PROVE LoadedRuleHasServices'
    BY <1>3 DEF SetMaster
  <1>4. ASSUME NEW r \in Rules, Unloaded(r) PROVE LoadedRuleHasServices'
    <2>1. ASSUME NEW s \in Rules, rule'[s] = "loaded" PROVE s # r /\ rule[s] = "loaded"
      BY <1>4, <2>1 DEF Unloaded
    <2>2. ASSUME NEW s \in Rules, rule'[s] = "loaded" PROVE s \in Entries \ {r}
      BY <2>1, <2>2 DEF Entries
    <2> QED
      BY <1>4, <2>1, <2>2 DEF Unloaded, ServicesWithout
  <1>5. ASSUME NEW r \in Rules,
               \/ CreateRule(r) \/ SetUpRule(r) \/ RuleReady(r) \/ Repaint(r)
               \/ UnloadRule(r, "reloading") \/ UnloadRule(r, "removing") \/ DropRule(r)
        PROVE  LoadedRuleHasServices'
    BY <1>5 DEF CreateRule, SetUpRule, RuleReady, Repaint, UnloadRule, DropRule
  <1>6. CASE UNCHANGED vars
    BY <1>6 DEF vars
  <1> QED
    BY <1>1, <1>2, <1>3, <1>4, <1>5, <1>6 DEF Next

\* While a rule is loaded, its services exist.
THEOREM LoadedRulesHaveServices == Spec => []LoadedRuleHasServices
  <1> DEFINE Inv == TypeOK /\ LoadedRuleHasServices
  <1>1. Init => Inv
    BY InitTyped DEF Init, LoadedRuleHasServices
  <1>2. Inv /\ [Next]_vars => Inv'
    BY StepTyped, StepServices
  <1> QED
    BY <1>1, <1>2, PTL DEF Spec

=============================================================================
