CONSTANTS
    Passwords <- MCPasswords
    NoPassword <- MCNoPassword
    Buttons = {"led", "join"}
    Faults = {}
    ConnectedAtStart = FALSE
    SeededAtStart = {TRUE}
    MaxDialogs = 1
    MaxCommands = 2
SPECIFICATION SafeSpec
INVARIANT
    SingleCommand
