\* Violation run: StoppedWaitersFailed, a property spec.md states of the bridge.
CONSTANTS
    c1 = c1
    c2 = c2
    Nobody = Nobody
    UI = UI
    NoId = NoId
    Callers <- MCCallers2
    MaxSpawns = 2
    MaxPush = 1
    PipeCap <- MCPipeCap
SPECIFICATION Spec
INVARIANT StoppedWaitersFailed
