\* Every mode on five domains; numbers up to four.
CONSTANTS
    Domains = {"light", "siren", "lock", "climate", "input_select"}
    Modes = {"fixed_state", "fixed_attribute", "dynamic_state", "dynamic_attribute"}
    MaxValue = 4
SPECIFICATION Spec
PROPERTIES
    Converges
    StuckStaysStuck
    OneCommandSuffices
