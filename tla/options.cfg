\* One key of each kind of writer, two values, two pages of the dialog.
CONSTANTS
    Sliders = {"delay_seconds"}
    Toggles = {"debounce_enabled"}
    Restarts = {"verify_enabled"}
    Pages <- DialogPages
    Values = {0, 1}
    Initial = 0
    NoDialog = NoDialog
SPECIFICATION FairSpec
INVARIANTS
    OptionsAreLive
    LastChoiceWins
PROPERTIES
    SkipMarkIsSpent
    ReloadHappens
