CONSTANTS
    Passwords <- MCPasswords
    NoPassword <- MCNoPassword
    Buttons <- DeviceButtons
    Faults <- DeviceFaults
    ConnectedAtStart = FALSE
    SeededAtStart = {TRUE}
    MaxDialogs = 3
    MaxCommands = 2
SPECIFICATION Spec
INVARIANTS
    SingleCommand
    FlagMeansCommand
    BoundedNesting
    RestoresRightPassword
PROPERTY
    BusyEnds
