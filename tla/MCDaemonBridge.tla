--------------------------- MODULE MCDaemonBridge ---------------------------
(* DaemonBridge instantiated for TLC: callers and sentinels are model      *)
(* values, fixed in the .cfg files.                                        *)
EXTENDS CorrelatorRefinement

CONSTANTS c1, c2

MCCallers2 == {c1, c2}

\* A pipe that holds every line one generation can be sent (one command per
\* caller and one shutdown), so no write blocks: the runs with this value
\* check a daemon that may be slow but whose stdin never fills.
MCPipeCap == Cardinality(MCCallers2) + 1

=============================================================================
