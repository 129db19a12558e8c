CONSTANTS
    None = None
    Types <- MCTypes
    Handlers <- MCHandlers
    EventType <- MCEventType
    SchemaVersion <- MCSchemaVersion
    Messages <- MCMessages
    MaxVersion = 5
    MaxHandlers = 5

SPECIFICATION Spec
CHECK_DEADLOCK FALSE

INVARIANT RoutesToNewestKnown
