\* Two reports of up to two results and two deletions at a time, on two connections.
CONSTANTS
    A = A
    SpaceA = SpaceA
    a1 = a1
    s1 = s1
    Agents <- MCAgents
    Series <- MCSeries
    AgentOf <- MCAgentOf
    Trimmed <- MCTrimmed
    Reporters = {r1, r2}
    Deleters = {d1, d2}
    NoOne = NoOne
    NoKey = NoKey
    MaxConns = 2
    MaxId = 2
    MaxBatch = 2
    MaxFaults = 1
SPECIFICATION Spec
SYMMETRY Symmetry
INVARIANTS
    TypeOK
    TablesConsistent
    EveryAgentListed
    AttributedUnlessDisturbed
PROPERTY
    RowsLeaveWithAgent
