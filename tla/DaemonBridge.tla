---------------------------- MODULE DaemonBridge ----------------------------
(***************************************************************************)
(* The daemon bridge of src/bus/src-tauri: the supervision of the daemon   *)
(* child process and the JSON-over-stdio request/response correlation.     *)
(*                                                                         *)
(* Actors and the code they stand for:                                     *)
(*  - callers c \in Callers: one Tauri command handler each (start_server, *)
(*    dial, send_message, list_sessions, close_session in main.rs) running *)
(*    DaemonBridge::send_command_async for one DaemonCommand;              *)
(*  - the facade operations start_daemon, stop_daemon, daemon_status, each *)
(*    under the bridge Mutex (SharedDaemonBridge = Arc<Mutex<..>>);        *)
(*  - per daemon generation g (the g-th successful spawn): its stdout      *)
(*    reader thread (read_stdout) and its "shutdown monitor" thread;       *)
(*  - the daemon process of generation g, an opaque collaborator that      *)
(*    reads commands, replies to them in any order, pushes events, exits.  *)
(*                                                                         *)
(* Data is abstracted: a command is its id and the caller that sent it (a  *)
(* ghost field the daemon echoes in its reply); a uuid is the caller's     *)
(* name (NewId), so ids are unique as Uuid::new_v4 makes them.             *)
(***************************************************************************)
EXTENDS Naturals, Sequences, FiniteSets

CONSTANTS
    Callers,     \* the concurrent send_command_async invocations
    MaxSpawns,   \* bound on the number of successful spawns (generations)
    MaxPush,     \* bound on the push events one daemon generation emits
    Nobody,      \* "no holder" of a lock, "no sender" in the pending table
    UI,          \* the facade operation holding the bridge Mutex in stop()
    NoId,        \* the id of an event without id (None or "")
    PipeCap      \* the lines the child's stdin pipe holds unread

ASSUME ConstAssumption ==
    /\ IsFiniteSet(Callers)
    /\ MaxSpawns \in Nat \ {0}
    /\ MaxPush \in Nat
    /\ Nobody \notin Callers /\ UI \notin Callers /\ UI # Nobody
    /\ NoId \notin Callers
    /\ PipeCap \in Nat \ {0}

Gens == 1..MaxSpawns
Ids == Callers                 \* request ids of the callers' commands

\* Mutant of NewId: an id that is not fresh per command (one id for all).
NewIdReused(c) == CHOOSE x \in Callers : TRUE

\* DaemonCommand::new: a fresh uuid per command.
NewId(c) == c

Cmd == [cmd : {"req", "shutdown"}, id : Ids \cup {NoId}, src : Callers \cup {Nobody}]
Event == [id : Ids \cup {NoId}, src : Callers \cup {Nobody}]
\* What a caller's oneshot receiver holds: nothing yet, Ok(event),
\* Err(NotRunning), or the sender dropped unsent ("Closed").
Msg == [kind : {"None", "Ok", "NotRunning", "Closed"}, src : Callers \cup {Nobody}]
NoMsg == [kind |-> "None", src |-> Nobody]
ResultKinds == {"Pending", "Ok", "NotRunning", "SendError", "Timeout"}

CallerPcs == {"idle", "lock_bridge", "lock_pending", "insert", "send", "wait",
              "t_lock_bridge", "t_lock_pending", "t_remove", "done"}

VARIABLES
    hasChild,   \* DaemonBridge.child is Some
    stdin,      \* DaemonBridge.stdin is Some
    gen,        \* number of successful spawns; the current child is gen's
    proc,       \* proc[g]: OS state of generation g's process
    toDaemon,   \* commands written to the current child's stdin, unread
    owed,       \* commands the current daemon has read and not answered
    pushed,     \* push events the current daemon has emitted
    out,        \* out[g]: lines in generation g's stdout pipe, unread
    reader,     \* reader[g]: state of generation g's read_stdout thread
    monitor,    \* monitor[g]: state of generation g's shutdown monitor
    pending,    \* pending_responses: id -> owner of the sender, or Nobody
    pwriter,    \* holder of the pending_responses write lock
    bmutex,     \* holder of the bridge Mutex
    pc,         \* pc[c]: where caller c is in send_command_async
    inbox,      \* inbox[c]: what c's oneshot receiver holds
    res,        \* res[c]: what send_command_async returned to c
    sentTo      \* sentTo[c]: generation c's command was written to (0: none)

bridgeVars == <<hasChild, stdin, gen, proc, pending, pwriter, bmutex>>
daemonVars == <<toDaemon, owed, pushed, out>>
threadVars == <<reader, monitor>>
callerVars == <<pc, inbox, res, sentTo>>
vars == <<bridgeVars, daemonVars, threadVars, callerVars>>

-----------------------------------------------------------------------------
(* Helpers *)

\* The receiver of c exists from the oneshot::channel() call until it is
\* consumed, timed out, or dropped by an early return.
RxAlive(c) == pc[c] \in {"lock_bridge", "lock_pending", "insert", "send", "wait"}

\* oneshot::Sender::send: the value reaches c only if c still listens.
Deliver(c, m) == IF RxAlive(c) THEN m ELSE inbox[c]

\* HashMap::insert(id, tx of c): a sender already under id is dropped,
\* closing its receiver.
Insert(id, c) ==
    /\ pending' = [pending EXCEPT ![id] = c]
    /\ inbox' = IF pending[id] \in Callers /\ pending[id] # c
                THEN [inbox EXCEPT ![pending[id]] =
                        Deliver(pending[id], [kind |-> "Closed", src |-> Nobody])]
                ELSE inbox

\* is_running(): the possible outcomes of child.try_wait(), as the value
\* returned and whether child and stdin are cleared.
IsRunning ==
    IF ~hasChild THEN {[running |-> FALSE, clear |-> FALSE]}
    ELSE {[running |-> proc[gen] = "alive", clear |-> proc[gen] = "dead"],
          [running |-> FALSE, clear |-> FALSE]}      \* Err(_) => false

ApplyPoll(r) ==
    /\ hasChild' = (hasChild /\ ~r.clear)
    /\ stdin' = (stdin /\ ~r.clear)

-----------------------------------------------------------------------------
(* Callers: send_command_async *)

\* A Tauri handler builds a DaemonCommand and calls send_command_async,
\* which creates the oneshot channel.
Invoke(c) ==
    /\ pc[c] = "idle"
    /\ pc' = [pc EXCEPT ![c] = "lock_bridge"]
    /\ UNCHANGED <<bridgeVars, daemonVars, threadVars, inbox, res, sentTo>>

\* bridge.lock().await
LockBridge(c) ==
    /\ pc[c] = "lock_bridge"
    /\ bmutex = Nobody
    /\ bmutex' = c
    /\ pc' = [pc EXCEPT ![c] = "lock_pending"]
    /\ UNCHANGED <<hasChild, stdin, gen, proc, pending, pwriter>>
    /\ UNCHANGED <<daemonVars, threadVars, inbox, res, sentTo>>

\* pending_responses.write().await
LockPending(c) ==
    /\ pc[c] = "lock_pending"
    /\ pwriter = Nobody
    /\ pwriter' = c
    /\ pc' = [pc EXCEPT ![c] = "insert"]
    /\ UNCHANGED <<hasChild, stdin, gen, proc, pending, bmutex>>
    /\ UNCHANGED <<daemonVars, threadVars, inbox, res, sentTo>>

\* pending.insert(cmd_id, tx); the write guard is dropped.
Register(c) ==
    /\ pc[c] = "insert"
    /\ Insert(NewId(c), c)
    /\ pwriter' = Nobody
    /\ pc' = [pc EXCEPT ![c] = "send"]
    /\ UNCHANGED <<hasChild, stdin, gen, proc, bmutex>>
    /\ UNCHANGED <<daemonVars, threadVars, res, sentTo>>

\* bridge_guard.send_command(command)?, then the bridge guard is dropped.
\* No stdin: NotRunning.  A dead child: writeln! fails (EPIPE), SendError.
\* Either error returns early and leaves the pending entry in place.  To a
\* live child, writeln! blocks while the pipe holds PipeCap unread lines:
\* the caller stays here, holding the bridge mutex, outside the timeout.
SendCommand(c) ==
    /\ pc[c] = "send"
    /\ bmutex' = Nobody
    /\ \/ /\ ~stdin
          /\ res' = [res EXCEPT ![c] = "NotRunning"]
          /\ pc' = [pc EXCEPT ![c] = "done"]
          /\ UNCHANGED <<toDaemon, sentTo>>
       \/ /\ stdin /\ proc[gen] = "dead"
          /\ res' = [res EXCEPT ![c] = "SendError"]
          /\ pc' = [pc EXCEPT ![c] = "done"]
          /\ UNCHANGED <<toDaemon, sentTo>>
       \/ /\ stdin /\ proc[gen] = "alive"
          /\ Len(toDaemon) < PipeCap        \* writeln! blocks on a full pipe
          /\ toDaemon' = Append(toDaemon, [cmd |-> "req", id |-> NewId(c), src |-> c])
          /\ sentTo' = [sentTo EXCEPT ![c] = gen]
          /\ pc' = [pc EXCEPT ![c] = "wait"]
          /\ UNCHANGED res
    /\ UNCHANGED <<hasChild, stdin, gen, proc, pending, pwriter>>
    /\ UNCHANGED <<owed, pushed, out, threadVars, inbox>>

\* timeout(30s, rx) yields the receiver's value: Ok(result) => result,
\* Err(_) (sender dropped) => SendError("response channel closed").
Receive(c) ==
    /\ pc[c] = "wait"
    /\ inbox[c].kind # "None"
    /\ res' = [res EXCEPT ![c] = CASE inbox[c].kind = "Ok" -> "Ok"
                                   [] inbox[c].kind = "NotRunning" -> "NotRunning"
                                   [] OTHER -> "SendError"]
    /\ pc' = [pc EXCEPT ![c] = "done"]
    /\ UNCHANGED <<bridgeVars, daemonVars, threadVars, inbox, sentTo>>

\* Mutant of Timeout: rx awaited without tokio::time::timeout.
TimeoutNever(c) == pc[c] = "wait" /\ FALSE /\ UNCHANGED vars

\* Mutant of Timeout: the timer wins although the receiver holds a value.
TimeoutRacing(c) ==
    /\ pc[c] = "wait"
    /\ pc' = [pc EXCEPT ![c] = "t_lock_bridge"]
    /\ UNCHANGED <<bridgeVars, daemonVars, threadVars, inbox, res, sentTo>>

\* The 30 s timer elapses while the receiver is still empty; rx is dropped.
Timeout(c) ==
    /\ pc[c] = "wait"
    /\ inbox[c].kind = "None"
    /\ pc' = [pc EXCEPT ![c] = "t_lock_bridge"]
    /\ UNCHANGED <<bridgeVars, daemonVars, threadVars, inbox, res, sentTo>>

\* Err(_) arm: bridge.lock().await
TimeoutLockBridge(c) ==
    /\ pc[c] = "t_lock_bridge"
    /\ bmutex = Nobody
    /\ bmutex' = c
    /\ pc' = [pc EXCEPT ![c] = "t_lock_pending"]
    /\ UNCHANGED <<hasChild, stdin, gen, proc, pending, pwriter>>
    /\ UNCHANGED <<daemonVars, threadVars, inbox, res, sentTo>>

\* Err(_) arm: pending_responses.write().await
TimeoutLockPending(c) ==
    /\ pc[c] = "t_lock_pending"
    /\ pwriter = Nobody
    /\ pwriter' = c
    /\ pc' = [pc EXCEPT ![c] = "t_remove"]
    /\ UNCHANGED <<hasChild, stdin, gen, proc, pending, bmutex>>
    /\ UNCHANGED <<daemonVars, threadVars, inbox, res, sentTo>>

\* pending.remove(&cmd_id); both guards dropped; Err(Timeout).
TimeoutRemove(c) ==
    /\ pc[c] = "t_remove"
    /\ pending' = [pending EXCEPT ![NewId(c)] = Nobody]
    /\ pwriter' = Nobody
    /\ bmutex' = Nobody
    /\ res' = [res EXCEPT ![c] = "Timeout"]
    /\ pc' = [pc EXCEPT ![c] = "done"]
    /\ UNCHANGED <<hasChild, stdin, gen, proc, daemonVars, threadVars, inbox, sentTo>>


-----------------------------------------------------------------------------
(* The threads spawn() starts for generation g *)

\* read_stdout's resolve: try_write() succeeded and pending.remove(id)
\* returned a sender, which receives Ok(event).
CanResolve(e) ==
    /\ e.id \in Ids
    /\ pwriter = Nobody
    /\ pending[e.id] \in Callers

\* One non-empty line of generation g's stdout, decoded to event e.  An
\* event with an id tries to resolve it; with try_write() failing (the lock
\* is held) or no entry, nothing is resolved.  The event is then forwarded
\* to the event channel (ReadLine: the send is not examined here; the
\* composition with the event forwarder, BridgeEvents, examines it).
ResolveLine(g) ==
    /\ reader[g] = "run"
    /\ out[g] # <<>>
    /\ out' = [out EXCEPT ![g] = Tail(@)]
    /\ LET e == Head(out[g]) IN
         \/ /\ CanResolve(e)
            /\ pending' = [pending EXCEPT ![e.id] = Nobody]
            /\ inbox' = [inbox EXCEPT ![pending[e.id]] =
                           Deliver(pending[e.id], [kind |-> "Ok", src |-> e.src])]
         \/ /\ ~CanResolve(e)
            /\ UNCHANGED <<pending, inbox>>
    /\ UNCHANGED <<hasChild, stdin, gen, proc, pwriter, bmutex>>
    /\ UNCHANGED <<toDaemon, owed, pushed, pc, res, sentTo>>

ReadLine(g) == ResolveLine(g) /\ UNCHANGED threadVars

\* Mutant of ReadEof: lines() never reports the end of the stream.
ReadEofNever(g) == FALSE /\ reader[g] = "run" /\ UNCHANGED vars

\* reader.lines() ends: the pipe is drained and its writer (the process)
\* is gone; "Daemon stdout reader exiting".
ReadEof(g) ==
    /\ reader[g] = "run"
    /\ out[g] = <<>>
    /\ proc[g] = "dead"
    /\ reader' = [reader EXCEPT ![g] = "exit"]
    /\ UNCHANGED <<bridgeVars, daemonVars, monitor, callerVars>>

\* The "shutdown monitor": it never waits on shutdown_rx, so it runs once,
\* whenever its thread is scheduled; if try_write() succeeds it drains the
\* table, sending Err(NotRunning) to every sender.
MonitorRun(g) ==
    /\ monitor[g] = "armed"
    /\ monitor' = [monitor EXCEPT ![g] = "done"]
    /\ \/ /\ pwriter = Nobody
          /\ pending' = [i \in Ids |-> Nobody]
          /\ inbox' = [o \in Callers |->
                         IF \E i \in Ids : pending[i] = o
                         THEN Deliver(o, [kind |-> "NotRunning", src |-> Nobody])
                         ELSE inbox[o]]
       \/ /\ pwriter # Nobody
          /\ UNCHANGED <<pending, inbox>>
    /\ UNCHANGED <<hasChild, stdin, gen, proc, pwriter, bmutex>>
    /\ UNCHANGED <<daemonVars, reader, pc, res, sentTo>>

-----------------------------------------------------------------------------
(* The daemon of the current generation (outside this repository's code) *)

\* It reads the next line of its stdin; "shutdown" makes it exit.
DaemonReadCmd ==
    /\ gen \in Gens /\ proc[gen] = "alive"
    /\ toDaemon # <<>>
    /\ toDaemon' = Tail(toDaemon)
    /\ \/ /\ Head(toDaemon).cmd = "req"
          /\ owed' = owed \cup {Head(toDaemon)}
          /\ UNCHANGED proc
       \/ /\ Head(toDaemon).cmd = "shutdown"
          /\ proc' = [proc EXCEPT ![gen] = "dead"]
          /\ UNCHANGED owed
    /\ UNCHANGED <<hasChild, stdin, gen, pending, pwriter, bmutex>>
    /\ UNCHANGED <<pushed, out, threadVars, callerVars>>

\* It answers one command it has read, echoing the command's id.
DaemonReply ==
    /\ gen \in Gens /\ proc[gen] = "alive"
    /\ \E m \in owed :
         /\ out' = [out EXCEPT ![gen] = Append(@, [id |-> m.id, src |-> m.src])]
         /\ owed' = owed \ {m}
    /\ UNCHANGED <<bridgeVars, toDaemon, pushed, threadVars, callerVars>>

\* It emits an event without id.
DaemonPush ==
    /\ gen \in Gens /\ proc[gen] = "alive"
    /\ pushed < MaxPush
    /\ pushed' = pushed + 1
    /\ out' = [out EXCEPT ![gen] = Append(@, [id |-> NoId, src |-> Nobody])]
    /\ UNCHANGED <<bridgeVars, toDaemon, owed, threadVars, callerVars>>

\* It exits or crashes on its own.
DaemonExit ==
    /\ gen \in Gens /\ proc[gen] = "alive"
    /\ proc' = [proc EXCEPT ![gen] = "dead"]
    /\ UNCHANGED <<hasChild, stdin, gen, pending, pwriter, bmutex>>
    /\ UNCHANGED <<daemonVars, threadVars, callerVars>>

-----------------------------------------------------------------------------
(* The facade: start_daemon, stop_daemon, daemon_status *)

\* daemon_status: is_running() under the bridge lock.
DaemonStatus ==
    /\ bmutex = Nobody
    /\ \E r \in IsRunning : ApplyPoll(r)
    /\ UNCHANGED <<gen, proc, pending, pwriter, bmutex>>
    /\ UNCHANGED <<daemonVars, threadVars, callerVars>>

\* start_daemon returning an error: "already running", the binary not
\* found, spawn() failing with SpawnError, or spawn() refusing with
\* AlreadyRunning because is_running() hit Err(_) with the child still set.
StartFails ==
    /\ bmutex = Nobody
    /\ \E r \in IsRunning : ApplyPoll(r)
    /\ UNCHANGED <<gen, proc, pending, pwriter, bmutex>>
    /\ UNCHANGED <<daemonVars, threadVars, callerVars>>

\* start_daemon when is_running() is false and spawn() succeeds: the child
\* and its stdin are stored, and the stdout reader and the shutdown monitor
\* of the new generation start.
StartSpawns ==
    /\ bmutex = Nobody
    /\ gen < MaxSpawns
    /\ \E r \in IsRunning :
         /\ ~r.running
         /\ ~(hasChild /\ ~r.clear)          \* spawn(): child.is_some() refused
         /\ hasChild' = TRUE
         /\ stdin' = TRUE
         /\ gen' = gen + 1
         /\ proc' = [proc EXCEPT ![gen + 1] = "alive"]
         /\ toDaemon' = <<>>
         /\ owed' = {}
         /\ pushed' = 0
         /\ reader' = [reader EXCEPT ![gen + 1] = "run"]
         /\ monitor' = [monitor EXCEPT ![gen + 1] = "armed"]
    /\ UNCHANGED <<pending, pwriter, bmutex, out, callerVars>>

\* stop_daemon: is_running() false returns "Daemon is not running";
\* otherwise stop() writes the shutdown command (its result ignored) and
\* sleeps 500 ms holding the bridge lock.  Its shutdown write blocks on a
\* full pipe like a caller's; the model lets stop_daemon start only once
\* the write fits (the bridge lock it would hold while blocked stays free).
StopDaemon ==
    /\ bmutex = Nobody
    /\ \E r \in IsRunning :
         \/ /\ ~r.running
            /\ ApplyPoll(r)
            /\ UNCHANGED <<bmutex, toDaemon>>
         \/ /\ r.running
            /\ Len(toDaemon) < PipeCap
            /\ bmutex' = UI
            /\ toDaemon' = Append(toDaemon, [cmd |-> "shutdown", id |-> NoId, src |-> Nobody])
            /\ UNCHANGED <<hasChild, stdin>>
    /\ UNCHANGED <<gen, proc, pending, pwriter, owed, pushed, out, threadVars, callerVars>>

\* Mutant of StopFinish: the child handle dropped without kill().
StopFinishNoKill ==
    /\ bmutex = UI
    /\ hasChild' = FALSE /\ stdin' = FALSE /\ bmutex' = Nobody
    /\ UNCHANGED <<gen, proc, pending, pwriter, daemonVars, threadVars, callerVars>>

\* The rest of stop(): kill() and wait() the child, clear child, stdin and
\* shutdown_tx, release the bridge lock.  The pending table is untouched.
StopFinish ==
    /\ bmutex = UI
    /\ proc' = [proc EXCEPT ![gen] = "dead"]
    /\ hasChild' = FALSE
    /\ stdin' = FALSE
    /\ bmutex' = Nobody
    /\ UNCHANGED <<gen, pending, pwriter, daemonVars, threadVars, callerVars>>

-----------------------------------------------------------------------------

Init ==
    /\ hasChild = FALSE
    /\ stdin = FALSE
    /\ gen = 0
    /\ proc = [g \in Gens |-> "none"]
    /\ toDaemon = <<>>
    /\ owed = {}
    /\ pushed = 0
    /\ out = [g \in Gens |-> <<>>]
    /\ reader = [g \in Gens |-> "idle"]
    /\ monitor = [g \in Gens |-> "idle"]
    /\ pending = [i \in Ids |-> Nobody]
    /\ pwriter = Nobody
    /\ bmutex = Nobody
    /\ pc = [c \in Callers |-> "idle"]
    /\ inbox = [c \in Callers |-> NoMsg]
    /\ res = [c \in Callers |-> "Pending"]
    /\ sentTo = [c \in Callers |-> 0]

CallerStep(c) ==
    \/ Invoke(c) \/ LockBridge(c) \/ LockPending(c) \/ Register(c)
    \/ SendCommand(c) \/ Receive(c) \/ Timeout(c)
    \/ TimeoutLockBridge(c) \/ TimeoutLockPending(c) \/ TimeoutRemove(c)

ThreadStep(g) == ReadLine(g) \/ ReadEof(g) \/ MonitorRun(g)

DaemonStep == DaemonReadCmd \/ DaemonReply \/ DaemonPush \/ DaemonExit

FacadeStep == DaemonStatus \/ StartFails \/ StartSpawns \/ StopDaemon \/ StopFinish

Next ==
    \/ \E c \in Callers : CallerStep(c)
    \/ \E g \in Gens : ThreadStep(g)
    \/ DaemonStep
    \/ FacadeStep

\* tokio's Mutex and RwLock queue waiters fairly, so an acquisition that is
\* enabled infinitely often happens (SF).  A running task or thread, the
\* 30 s timer and the 500 ms sleep of stop() eventually take their step
\* (WF).  The daemon, the user and the handlers' invocation get none.
Fairness ==
    /\ \A c \in Callers :
         /\ SF_vars(LockBridge(c)) /\ SF_vars(LockPending(c))
         /\ SF_vars(TimeoutLockBridge(c)) /\ SF_vars(TimeoutLockPending(c))
         /\ WF_vars(Register(c)) /\ WF_vars(SendCommand(c))
         /\ WF_vars(Receive(c)) /\ WF_vars(Timeout(c)) /\ WF_vars(TimeoutRemove(c))
    /\ \A g \in Gens : WF_vars(ThreadStep(g))
    /\ WF_vars(StopFinish)

Spec == Init /\ [][Next]_vars
FairSpec == Spec /\ Fairness


-----------------------------------------------------------------------------
(* Properties *)

TypeOK ==
    /\ hasChild \in BOOLEAN /\ stdin \in BOOLEAN
    /\ gen \in 0..MaxSpawns
    /\ proc \in [Gens -> {"none", "alive", "dead"}]
    /\ toDaemon \in Seq(Cmd)
    /\ owed \subseteq Cmd
    /\ pushed \in 0..MaxPush
    /\ out \in [Gens -> Seq(Event)]
    /\ reader \in [Gens -> {"idle", "run", "exit"}]
    /\ monitor \in [Gens -> {"idle", "armed", "done"}]
    /\ pending \in [Ids -> Callers \cup {Nobody}]
    /\ pwriter \in Callers \cup {Nobody}
    /\ bmutex \in Callers \cup {Nobody, UI}
    /\ pc \in [Callers -> CallerPcs]
    /\ inbox \in [Callers -> Msg]
    /\ res \in [Callers -> ResultKinds]
    /\ sentTo \in [Callers -> 0..MaxSpawns]

\* At most one daemon process is alive, and it is the bridge's current
\* child: start_daemon never spawns a second daemon (is_running() and the
\* child.is_some() guard of spawn()), and stop() never leaves one orphaned.
SingleSupervisedDaemon ==
    \A g \in Gens : proc[g] = "alive" => g = gen /\ hasChild

\* A caller of send_command_async that is answered Ok is answered with the
\* reply to its own command, never another caller's (the correlation by
\* uuid in pending_responses and read_stdout).
OwnReply ==
    \A c \in Callers : inbox[c].kind = "Ok" => inbox[c].src = c

\* A caller that has registered and not yet been answered is still in the
\* pending table under its own id, so a reply the daemon sends can reach it:
\* nothing (a drain, an insert, another caller's timeout) silently drops a
\* live sender.
PendingTracksWaiters ==
    \A c \in Callers :
        pc[c] \in {"send", "wait"} /\ inbox[c].kind = "None"
            => pending[NewId(c)] = c

\* Every call of send_command_async returns (Ok, an error or Timeout): the
\* lock order bridge-then-pending and the 30 s timeout leave no caller
\* waiting forever, whatever the daemon does.
EveryRequestCompletes ==
    \A c \in Callers : pc[c] = "lock_bridge" ~> pc[c] = "done"

-----------------------------------------------------------------------------
(* Properties the spec states and the code does not keep (violation runs) *)

\* spec 4.2/8: stop() fails every outstanding request with NotRunning; so
\* once the child is gone no caller still waits with nothing delivered.
StoppedWaitersFailed ==
    ~hasChild => \A c \in Callers : pc[c] = "wait" => inbox[c].kind # "None"

\* spec 5 and 8: the reply to a caller that is still waiting for it is
\* delivered to it; read_stdout never drops it and leaves the caller to
\* time out (a reply racing the caller's own timeout may lose).
ReplyResolves ==
    [][\A g \in Gens :
         (/\ ReadLine(g)
          /\ Head(out[g]).id \in Ids
          /\ pending[Head(out[g]).id] \in Callers
          /\ pc[pending[Head(out[g]).id]] = "wait")
            => inbox'[pending[Head(out[g]).id]].kind = "Ok"]_vars

\* spec 4.3: fail_all(NotRunning) is a teardown; a caller is told
\* NotRunning only when the daemon it wrote to is no longer alive.
NotRunningOnlyWhenDown ==
    \A c \in Callers :
        inbox[c].kind = "NotRunning" /\ sentTo[c] \in Gens
            => proc[sentTo[c]] # "alive"

\* spec 3: an entry of the pending table is removed when its reply comes,
\* on teardown or on timeout; none outlives the call that made it.
NoLeakedEntries ==
    \A i \in Ids : pending[i] \in Callers => pc[pending[i]] # "done"

=============================================================================
