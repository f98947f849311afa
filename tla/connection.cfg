CONSTANTS
    CountLimit = 5
    Options = {TRUE, FALSE}
    MaxClicks = 3
    MaxCloses = 4
    MaxWarnings = 1

SPECIFICATION MCSpec

INVARIANTS
    ConnectedIsAuthenticated
    SettledStateIsShown

PROPERTIES
    ImplementsSession
    ButtonComesBack

CHECK_DEADLOCK FALSE
