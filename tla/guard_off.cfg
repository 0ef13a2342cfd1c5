\* A light that is off follows a brightness.
CONSTANTS
    Domains = {"light"}
    Modes = {"dynamic_attribute"}
    MaxValue = 2
SPECIFICATION Spec
PROPERTY
    ActsOnlyWhileOn
