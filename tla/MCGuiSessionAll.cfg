CONSTANTS
    Passwords <- OnePassword
    NoPassword <- MCNoPassword
    Buttons <- ClientButtons
    Faults = {"touch", "reset"}
    ConnectedAtStart = TRUE
    SeededAtStart = {TRUE, FALSE}
    MaxDialogs = 2
    MaxCommands = 2
SPECIFICATION SafeSpec
INVARIANT
    TypeOK
PROPERTY
    CopyOnlyWithCommand
