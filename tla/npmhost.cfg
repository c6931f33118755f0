SPECIFICATION Spec
CONSTANTS
    Nothing = Nothing
    Torn = Torn
    one = one
    two = two
    time = time
    memory = memory
    fetch = fetch
    v1 = v1
    v2 = v2
    Runs = {one, two}
    Services = {time, memory, fetch}
    Versions = {v1, v2}
    Commands <- MCCommands
    Ports = {1, 2}
    PortOf <- MCPortOf
    Pids <- MCPids
    Limit <- MCLimit
INVARIANT TypeOK
INVARIANT BridgesAccounted
INVARIANT OneGatewayPerPort
PROPERTY FailureRestores
PROPERTY SuccessIsWhole
PROPERTY DeleteIsClean
CHECK_DEADLOCK FALSE
SYMMETRY Alike
