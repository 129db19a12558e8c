CONSTANTS
    k1 = k1
    k2 = k2
    a1 = a1
    a2 = a2
    None = None
    Keys <- TwoKeys
    Attempts <- TwoAttempts
    Bodies <- MCBodies
    Projects <- MCProjects
    ProjectOf <- MCProjectOf
    Milestones <- MCMilestones
    MilestoneOf <- MCMilestoneOf
    MilestoneProject <- MCMilestoneProject
    LegacyText <- MCLegacyText
    Legacy <- MCLegacy
    KeepFor = 1
    Retention = 1
    MaxClock = 3

SPECIFICATION Spec
CHECK_DEADLOCK FALSE

INVARIANT TypeOK
INVARIANT CreationIsAtomic
INVARIANT RecordsAreFinal
INVARIANT ReplaysAreFaithful
INVARIANT OneIssuePerKey
PROPERTY CreatesOnce
PROPERTY EveryAttemptIsAnswered
