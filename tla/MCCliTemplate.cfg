CONSTANTS
    Values <- MCValues
    Passwords <- MCPasswords
SPECIFICATION Spec
INVARIANTS
    TypeOK
    SendsWhatWasAsked
    RefusesOnlyIncomplete
    HelpIsComplete
