CONSTANTS
    a1 = a1
    a2 = a2
    NoAgent = NoAgent
    Agents <- MCAgents
    Callers <- MCCallers
    AgentOf <- MCAgentOf
    TTL = 2
    Period = 2
    Limits <- MCLimits
    MaxTime = 3
    MaxSpawn = 2
    Mortal <- MCMortal
    MaxCrashes = 1
SPECIFICATION Spec
INVARIANTS OneProbe ProbeRowsHidden FreshIsBounded LimitIsReported
PROPERTY UsageReturns
CHECK_DEADLOCK FALSE
