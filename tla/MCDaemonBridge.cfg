\* Safety of the bridge and its refinement of Correlator: two callers, two
\* daemon generations, one push.
CONSTANTS
    c1 = c1
    c2 = c2
    Nobody = Nobody
    UI = UI
    NoId = NoId
    Callers <- MCCallers2
    MaxSpawns = 2
    MaxPush = 1
    PipeCap <- MCPipeCap
SPECIFICATION Spec
INVARIANT SingleSupervisedDaemon
INVARIANT OwnReply
INVARIANT PendingTracksWaiters
PROPERTY ImplementsCorrelator
