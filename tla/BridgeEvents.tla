---------------------------- MODULE BridgeEvents ----------------------------
(***************************************************************************)
(* The event path of the desktop app composed with the daemon bridge.      *)
(*                                                                         *)
(* start_daemon creates an mpsc channel per attempt, stores its receiver   *)
(* in the global slot EVENT_RECEIVER (replacing, and so dropping, whatever *)
(* receiver is still there), hands the sender to spawn(), and on success   *)
(* starts a forward_daemon_events task, which takes whatever receiver is   *)
(* in the slot and emits every event to the frontend until the channel    *)
(* has no sender left.  The senders of generation g's channel are the     *)
(* stdout reader of g and the bridge's event_tx, which only the next       *)
(* successful spawn replaces.  The stdout reader stops at the first send   *)
(* that fails.                                                             *)
(*                                                                         *)
(* The channel of generation g is named g; DeadRx names the receiver of a  *)
(* start attempt whose spawn failed (its sender is dropped at once).       *)
(***************************************************************************)
EXTENDS DaemonBridge, Integers

VARIABLES
    slot,     \* EVENT_RECEIVER: NoRx (None), DeadRx, or channel g
    evTx,     \* the channel of DaemonBridge.event_tx (0: None)
    chq,      \* chq[g]: events buffered in channel g
    fwd,      \* fwd[t]: the forwarder task spawned by the start of generation t
    fwdRx,    \* fwdRx[t]: the receiver that task took
    lost      \* events dropped: buffered in a dropped receiver, or refused by a send

evVars == <<slot, evTx, chq, fwd, fwdRx, lost>>
allVars == <<vars, evVars>>

NoRx == -1
DeadRx == 0
Receivers == {NoRx, DeadRx} \cup Gens

\* A send on channel ch succeeds while its receiver exists: in the slot or
\* held by a running forwarder.
SinkOpen(ch) ==
    \/ slot = ch
    \/ \E t \in Gens : fwd[t] = "run" /\ fwdRx[t] = ch

\* *receiver.lock().await = Some(rx): the receiver still in the slot is
\* dropped with the events buffered in it.
StoreRx(ch) ==
    /\ slot' = ch
    /\ IF slot \in Gens
         THEN /\ lost' = lost + chq[slot]
              /\ chq' = [chq EXCEPT ![slot] = 0]
         ELSE UNCHANGED <<lost, chq>>

-----------------------------------------------------------------------------
(* start_daemon *)

\* is_running() true, or find_daemon_binary failing: the slot is untouched.
EvStartRefused ==
    /\ StartFails
    /\ UNCHANGED evVars

\* is_running() false, the binary found, the receiver stored, and spawn()
\* failing (AlreadyRunning or SpawnError): the sender is dropped.
EvStartSpawnFails ==
    /\ StartFails
    /\ \E r \in IsRunning : ~r.running /\ ApplyPoll(r)
    /\ StoreRx(DeadRx)
    /\ UNCHANGED <<evTx, fwd, fwdRx>>

\* The receiver stored, spawn() succeeding (it keeps the sender as
\* event_tx), and the forwarder task spawned.
EvStartSpawns ==
    /\ StartSpawns
    /\ StoreRx(gen + 1)
    /\ evTx' = gen + 1
    /\ fwd' = [fwd EXCEPT ![gen + 1] = "spawned"]
    /\ UNCHANGED fwdRx

-----------------------------------------------------------------------------
(* read_stdout's event_tx.send(event) *)

\* The send succeeds: the event is buffered in the channel.
EvReadLine(g) ==
    /\ ReadLine(g)
    /\ SinkOpen(g)
    /\ chq' = [chq EXCEPT ![g] = @ + 1]
    /\ UNCHANGED <<slot, evTx, fwd, fwdRx, lost>>

\* The send fails ("Event channel closed"): the event is lost and the
\* reader breaks out of its loop.
EvReadLineClosed(g) ==
    /\ ResolveLine(g)
    /\ ~SinkOpen(g)
    /\ reader' = [reader EXCEPT ![g] = "exit"]
    /\ lost' = lost + 1
    /\ UNCHANGED <<monitor, slot, evTx, chq, fwd, fwdRx>>

-----------------------------------------------------------------------------
(* forward_daemon_events, the task spawned by the start of generation t *)

\* receiver.lock().await.take(): None ends the task at once.
FwdTake(t) ==
    /\ fwd[t] = "spawned"
    /\ slot' = NoRx
    /\ \/ /\ slot = NoRx
          /\ fwd' = [fwd EXCEPT ![t] = "exit"]
          /\ UNCHANGED fwdRx
       \/ /\ slot # NoRx
          /\ fwd' = [fwd EXCEPT ![t] = "run"]
          /\ fwdRx' = [fwdRx EXCEPT ![t] = slot]
    /\ UNCHANGED <<evTx, chq, lost>>

\* rx.recv() yields an event; both app.emit calls ignore their errors.
FwdEmit(t) ==
    /\ fwd[t] = "run"
    /\ fwdRx[t] \in Gens
    /\ chq[fwdRx[t]] > 0
    /\ chq' = [chq EXCEPT ![fwdRx[t]] = @ - 1]
    /\ UNCHANGED <<slot, evTx, fwd, fwdRx, lost>>

\* Every sender of channel ch is gone: the reader's clone (the thread has
\* ended) and the bridge's event_tx (replaced by a later spawn).  DeadRx
\* never had a live sender.
SendersGone(ch) ==
    ch \in Gens => reader[ch] # "run" /\ evTx # ch

\* rx.recv() returns None only once the buffer is empty and no sender is
\* left; the task ends.
FwdExit(t) ==
    /\ fwd[t] = "run"
    /\ fwdRx[t] \in Gens => chq[fwdRx[t]] = 0
    /\ SendersGone(fwdRx[t])
    /\ fwd' = [fwd EXCEPT ![t] = "exit"]
    /\ UNCHANGED <<slot, evTx, chq, fwdRx, lost>>

-----------------------------------------------------------------------------

\* main(): EVENT_RECEIVER set to Some(Mutex::new(None)).
EvInit ==
    /\ Init
    /\ slot = NoRx
    /\ evTx = 0
    /\ chq = [g \in Gens |-> 0]
    /\ fwd = [t \in Gens |-> "idle"]
    /\ fwdRx = [t \in Gens |-> NoRx]
    /\ lost = 0

EvThreadStep(g) ==
    \/ EvReadLine(g)
    \/ EvReadLineClosed(g)
    \/ (ReadEof(g) \/ MonitorRun(g)) /\ UNCHANGED evVars

FwdStep(t) == (FwdTake(t) \/ FwdEmit(t) \/ FwdExit(t)) /\ UNCHANGED vars

EvNext ==
    \/ \E c \in Callers : CallerStep(c) /\ UNCHANGED evVars
    \/ \E g \in Gens : EvThreadStep(g)
    \/ DaemonStep /\ UNCHANGED evVars
    \/ (DaemonStatus \/ StopDaemon \/ StopFinish) /\ UNCHANGED evVars
    \/ EvStartRefused \/ EvStartSpawnFails \/ EvStartSpawns
    \/ \E t \in Gens : FwdStep(t)

\* The reader threads and the forwarder tasks run whenever they can (WF);
\* so does the end of stop()'s sleep.  The user and the daemon get none.
EvFairness ==
    /\ \A g \in Gens : WF_allVars(EvThreadStep(g)) /\ WF_allVars(FwdStep(g))
    /\ WF_allVars(StopFinish /\ UNCHANGED evVars)

EvSpec == EvInit /\ [][EvNext]_allVars
EvFairSpec == EvSpec /\ EvFairness

-----------------------------------------------------------------------------
(* Properties *)

EvTypeOK ==
    /\ TypeOK
    /\ slot \in Receivers
    /\ evTx \in 0..MaxSpawns
    /\ chq \in [Gens -> Nat]
    /\ fwd \in [Gens -> {"idle", "spawned", "run", "exit"}]
    /\ fwdRx \in [Gens -> Receivers]
    /\ lost \in Nat

\* A forwarder task whose channel is no longer the bridge's event_tx (a
\* later spawn replaced it, or its spawn failed) ends: its reader reaches
\* the end of the dead daemon's stdout and the buffer drains.
StaleForwarderExits ==
    \A t \in Gens :
        (fwd[t] = "run" /\ fwdRx[t] # evTx) ~> fwd[t] = "exit"

-----------------------------------------------------------------------------
(* Properties the spec states and the code does not keep (violation runs) *)

\* spec 5: every decoded event is also forwarded to the Event Sink, so the
\* frontend can rebuild its state from the event stream; none is dropped.
EventsNeverDropped == lost = 0

\* spec 5: the output reader loop ends at the end of the stream (or when
\* the sink is closed, which a live daemon's sink never should be): the
\* reader of a running daemon keeps resolving its replies.
ReaderLivesWithDaemon ==
    \A g \in Gens : proc[g] = "alive" => reader[g] = "run"

=============================================================================
