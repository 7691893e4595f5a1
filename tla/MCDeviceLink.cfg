CONSTANTS
    MaxPlugs = 3
    MaxSignals = 2
    Reports = 2
SPECIFICATION Spec
INVARIANTS
    TypeOK
    AnswerFromAddressee
    UndisturbedCommandSucceeds
PROPERTIES
    OpenMeansOpenIfCalm
    WindowLearnsConnection
    WindowLearnsDisconnect
    CommandEnds
