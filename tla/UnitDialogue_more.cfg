SPECIFICATION DialogueSpec
CONSTANTS
    self = self
    refused = refused
    stubs = stubs
    written = written
    text = text
    Clients = {self}
    Answers <- Dialogue
    Fate <- Fates
    Texts = {text}
    Keys <- DialogueKeys
    Limits = {1, 2, 3}
    ModelOf <- OneModel
    MaxRuns = 3
    MaxPaid = 2
    MaxStops = 0
    MayCut = FALSE
INVARIANT
    MoreAttemptsAskAgain
CHECK_DEADLOCK FALSE
