SPECIFICATION PersistentSpec
CONSTANTS
    Missing = Missing
    Nothing = Nothing
    Torn = Torn
    one = one
    two = two
    time = time
    fetch = fetch
    Does <- MCDoes
    Said <- MCSaid
    Sessions = {one, two}
    Services = {time, fetch}
    Questions = {args, schemas}
    Answers = {yes}
    Given <- MCGiven
    Ports <- MCPorts
    HashPort <- MCHashPort
    Persistent = one
    Wanted = time
    MaxDrafts = 2
    MaxTrouble = 1
INVARIANT TypeOK
INVARIANT AnswersKept
PROPERTY SentAsApproved
PROPERTY PersistenceApplies
CHECK_DEADLOCK FALSE
