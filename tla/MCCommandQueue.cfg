CONSTANTS
    gui = gui
    http = http
    r1 = r1
    r2 = r2
    r3 = r3
    Worker = Worker
    Nobody = Nobody
    NoRequest = NoRequest
    NoReply = NoReply
    Callers <- MCCallers
    Requests <- MCRequests
    Encrypted <- MCEncrypted
SPECIFICATION Spec
INVARIANTS
    TypeOK
    NoLostWakeup
    ExecutesFront
PROPERTIES
    EveryCommandAnswered
    CallersReturn
    ImplementsService
