------------------------ MODULE CorrelatorRefinement ------------------------
(***************************************************************************)
(* DaemonBridge implements Correlator: the phase of each caller in         *)
(* send_command_async maps to the state of its call, its oneshot receiver  *)
(* to the call's channel, and its result to the call's outcome.           *)
(***************************************************************************)
EXTENDS DaemonBridge

\* The state of the call in each phase of send_command_async: open while
\* the receiver is alive (RxAlive), expired from the timeout to the
\* removal of its entry, done once a result is returned.
StateOfPc ==
    [idle |-> "idle",
     lock_bridge |-> "open", lock_pending |-> "open", insert |-> "open",
     send |-> "open", wait |-> "open",
     t_lock_bridge |-> "expired", t_lock_pending |-> "expired",
     t_remove |-> "expired",
     done |-> "done"]

CallState(c) == StateOfPc[pc[c]]

Abs == INSTANCE Correlator
         WITH st <- [c \in Callers |-> CallState(c)],
              mbox <- inbox,
              outcome <- res

\* Every behaviour of the bridge is a behaviour of Correlator: each caller's
\* receiver gets at most one value and only its own reply, a timeout never
\* fires on a receiver that holds a value, and every call returns once with
\* the result send_command_async computes from what it received.
ImplementsCorrelator == Abs!Spec

=============================================================================
