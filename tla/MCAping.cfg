SPECIFICATION Spec
CONSTANTS
    Concurrent = 3
    Iterations = 2
    UlongMax = 7
    TpVersions <- MCTpVersions
CHECK_DEADLOCK FALSE
INVARIANTS RoundReceived EchoMatches NoVerbRejected NoConfirmToOldPartner
PROPERTIES BothEnd
