CONSTANTS
    Block = 4
    Keys = {7, 8}
    IVs <- MCIVs
    Commands <- MCCommands
    Answers <- MCAnswers
    Members <- MCMembers
SPECIFICATION Spec
INVARIANTS
    TypeOK
    DeviceReadsCommand
    AnswerIsDelivered
    StatusTellsText
    OnlyGarbageOverreads
