\* Three rules that come and go, three imports at once.
CONSTANTS
    r1 = r1
    r2 = r2
    r3 = r3
    Rules = {r1, r2, r3}
    MaxImports = 3
SPECIFICATION FairSpec
INVARIANTS
    MasterIsObeyed
    EnginesSeeMaster
    LoadedRuleHasServices
PROPERTY
    HubComesBack
