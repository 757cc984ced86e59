\* Violation: EventsNeverDropped, checked on the composed event path.
CONSTANTS
    c1 = c1
    Nobody = Nobody
    UI = UI
    NoId = NoId
    Callers <- MCCallers1
    MaxSpawns = 2
    MaxPush = 1
    PipeCap <- MCPipeCap
SPECIFICATION EvSpec
INVARIANT EventsNeverDropped
