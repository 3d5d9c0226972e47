SPECIFICATION Spec
CONSTANTS
    g1 = g1
    g2 = g2
    p1 = p1
    p2 = p2
    Callers <- MCCallers
    Paths <- MCPaths
    MaxCalls <- MCMaxCalls
CHECK_DEADLOCK FALSE
INVARIANT
    SolcFollowsPath
