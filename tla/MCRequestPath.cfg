CONSTANTS
    c1 = c1
    c2 = c2
    rest = rest
    mcp = mcp
    store = store
    None = None
    Workspaces <- MCWorkspaces
    Names <- MCNames
    Connections <- MCConnections
    Sessions <- MCSessions
    Sends <- MCSends
    Issues <- MCIssues
    Policies <- MCPolicies
    Seed <- MCSeed

SPECIFICATION Spec

INVARIANT TypeOK
INVARIANT TenantIsolation
INVARIANT PoolIsClean
INVARIANT AnswersTellTheTruth
INVARIANT TransportsAgree
PROPERTY TenantsSeeTheirRows
PROPERTY EveryRequestIsAnswered
