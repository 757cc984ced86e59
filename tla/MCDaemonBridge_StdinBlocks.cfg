\* A daemon that stays alive but stops reading its stdin, and a pipe that
\* holds one unread line: does every send_command_async still return?
CONSTANTS
    c1 = c1
    c2 = c2
    Nobody = Nobody
    UI = UI
    NoId = NoId
    Callers <- MCCallers2
    MaxSpawns = 1
    MaxPush = 0
    PipeCap = 1
SPECIFICATION FairSpec
PROPERTY EveryRequestCompletes
