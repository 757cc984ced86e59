--------------------------- MODULE MCBridgeEvents ---------------------------
(* BridgeEvents instantiated for TLC: one caller, model values for the     *)
(* sentinels, fixed in the .cfg files.                                     *)
EXTENDS BridgeEvents

CONSTANTS c1

MCCallers1 == {c1}

\* A pipe that holds every line one generation can be sent (one command per
\* caller and one shutdown), so no write blocks: the runs with this value
\* check a daemon that may be slow but whose stdin never fills.
MCPipeCap == Cardinality(MCCallers1) + 1

=============================================================================
