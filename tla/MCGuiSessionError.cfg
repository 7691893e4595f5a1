CONSTANTS
    Passwords <- MCPasswords
    NoPassword <- MCNoPassword
    Buttons = {"password"}
    Faults = {"error", "transport"}
    ConnectedAtStart = FALSE
    SeededAtStart = {TRUE}
    MaxDialogs = 2
    MaxCommands = 2
SPECIFICATION SafeSpec
PROPERTY
    ErrorRestoresPassword
