\* Liveness of send_command_async under the fairness of tokio's locks,
\* the timer and the reader threads; no symmetry (unsound with liveness).
CONSTANTS
    c1 = c1
    c2 = c2
    Nobody = Nobody
    UI = UI
    NoId = NoId
    Callers <- MCCallers2
    MaxSpawns = 1
    MaxPush = 0
    PipeCap <- MCPipeCap
SPECIFICATION FairSpec
PROPERTY EveryRequestCompletes
