\* Liveness of the event path under fair reader threads and forwarder tasks:
\* one caller, two generations, no push (replies are the events).
CONSTANTS
    c1 = c1
    Nobody = Nobody
    UI = UI
    NoId = NoId
    Callers <- MCCallers1
    MaxSpawns = 2
    MaxPush = 0
    PipeCap <- MCPipeCap
SPECIFICATION EvFairSpec
PROPERTY StaleForwarderExits
