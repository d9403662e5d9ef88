SPECIFICATION DialogueSpec
CONSTANTS
    self = self
    refused = refused
    stubs = stubs
    written = written
    text = text
    Clients = {self}
    Answers <- Dialogue
    Fate <- Fates
    Texts = {text}
    Keys <- DialogueKeys
    Limits = {2}
    ModelOf <- TwoModels
    MaxRuns = 2
    MaxPaid = 1
    MaxStops = 0
    MayCut = FALSE
INVARIANT
    RetryAsksTheLLM
CHECK_DEADLOCK FALSE
