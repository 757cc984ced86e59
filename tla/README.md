# TLA+ models of the Kamune desktop daemon bridge

The desktop app (`src/bus/src-tauri`) runs the Kamune daemon as a child
process. It talks to it with JSON lines over stdin and stdout.
`daemon_bridge.rs` holds the bridge and `main.rs` the Tauri commands that
use it. This directory models the bridge's concurrency, the event path to the
frontend and the lookup of the daemon binary, checks them with TLC, and
proves with TLAPS the bridge's main invariants, its refinement of an
abstract request/reply correlator, and the typing of the event path.

## The system and its parts

| Part | Code | Modelled in |
|---|---|---|
| Process supervisor: `spawn`, `is_running`, `stop` | daemon_bridge.rs 168-226, 357-398 | `DaemonBridge` |
| Response correlator: `pending_responses`, `send_command`, `send_command_async` | daemon_bridge.rs 306-354 | `DaemonBridge` |
| Stream threads: stdout reader, shutdown monitor, stderr reader | daemon_bridge.rs 202-222, 228-303 | `DaemonBridge`, `BridgeEvents` (stderr left out: it only logs) |
| Tauri facade: `start_daemon`, `stop_daemon`, `daemon_status`, five request handlers | main.rs 63-287 | `DaemonBridge`, `BridgeEvents` |
| Event forwarder: `EVENT_RECEIVER`, `forward_daemon_events` | main.rs 26-27, 85-106, 290-324, 337-344 | `BridgeEvents` |
| Binary resolution: `find_daemon_binary`, `get_binary_candidates` | daemon_bridge.rs 93-165 | `BinaryResolve` |
| What a call promises (abstract) | daemon_bridge.rs 322-353 | `Correlator`, `CorrelatorRefinement` |
| Wire codec: `DaemonCommand`, `DaemonEvent`, serde | daemon_bridge.rs 36-66 | records `[cmd, id, src]`, `[id, src]` |

How they interact:

- A request handler calls `send_command_async`. That function takes the
  tokio `Mutex` of the bridge and then the tokio `RwLock` of the pending
  table. It inserts a oneshot sender under the command's uuid, writes the
  command to the child's stdin, releases both locks, and waits 30 s on the
  receiver.
- `spawn` starts three std threads per daemon generation:
  - a stdout reader, which resolves replies by id with `try_write` and
    forwards every event;
  - a stderr logger;
  - a "shutdown monitor", which drains the pending table with `NotRunning`.
- `start_daemon`, `stop_daemon` and `daemon_status` each run under the
  bridge mutex. `stop` writes `shutdown`, sleeps 500 ms holding the mutex,
  kills the child and clears the handles.
- `start_daemon` looks up the binary, creates an mpsc channel, stores its
  receiver in the global `EVENT_RECEIVER` slot, and hands the sender to
  `spawn`. After a successful spawn it starts a `forward_daemon_events` task.
  That task takes whatever receiver is in the slot and emits every event to
  the frontend until the channel has no sender left.

## The module `DaemonBridge.tla`

**State.**

- `hasChild` and `stdin` stand for `child` and `stdin` being `Some`.
- `gen` is the number of successful spawns. `proc[g]` is the OS state of
  generation `g`'s process.
- `toDaemon` is the stdin pipe, which holds at most `PipeCap` unread
  lines (a constant). `owed` holds the commands the daemon has
  read and not yet answered. `out[g]` is the stdout pipe of generation `g`.
- `reader[g]` and `monitor[g]` are the two threads of generation `g`.
- `pending` is the HashMap from id to the caller whose sender is stored.
- `pwriter` and `bmutex` are the holders of the RwLock write guard and of
  the bridge mutex. `UI` is a facade command.
- `pc[c]` is caller `c`'s point in `send_command_async`.
- `inbox[c]` is the value in its oneshot receiver, and `res[c]` its result.
- `sentTo[c]` is the generation that `c` wrote to.

**Caller actions.** Each has the guards and early returns of the code.

- `Invoke`, `LockBridge`, `LockPending`, `Register`.
  - `Register` uses `Insert`. When `HashMap::insert` replaces a sender,
    that sender is dropped and its receiver closes.
- `SendCommand` covers all of `send_command`:
  - no stdin gives `NotRunning`;
  - a dead child gives a write error, `SendError`;
  - otherwise the line is written, once the pipe has room. While the pipe
    is full and the daemon alive, `writeln!` blocks: the caller stays at
    `send`, holding the bridge mutex, and its 30 s timeout has not started.
  - In every case the bridge guard is dropped, and the pending entry stays.
- `Receive` maps the receiver's value:
  - `Ok(Ok)` gives Ok;
  - `Ok(Err)` gives that error;
  - a dropped sender gives `SendError("response channel closed")`.
- `Timeout`, `TimeoutLockBridge`, `TimeoutLockPending`, `TimeoutRemove`:
  the `Err(_)` arm, which takes both locks again and removes the entry.

**Thread actions.**

- `ReadLine(g)`: one event. `ResolveLine(g)` resolves the reply only if the
  event has an id, `try_write` succeeds (nobody holds the write guard) and
  an entry exists. Otherwise the reply is dropped. `ReadLine` leaves the
  send on `event_tx` to `BridgeEvents`.
- `ReadEof(g)`: end of stream.
- `MonitorRun(g)`: a single `try_write` drain, which can run at any time
  after spawn. The code binds `shutdown_rx` and never awaits it.

**Facade actions.**

- `DaemonStatus` and `StartFails` both run `is_running()` under the lock.
  `StartFails` also stands for a missing binary and for `spawn` errors.
- `StartSpawns`.
- `StopDaemon`: the not-running branch, or the shutdown write followed by
  the sleep. The write needs room in the pipe. A `stop()` blocked on a full
  pipe is modelled as `stop_daemon` not started yet, so the bridge lock it
  would hold stays free in the model. That only leaves out hangs.
- `StopFinish`: kill, clear, unlock.
- `IsRunning` enumerates the outcomes of `try_wait`, including `Err(_)`,
  which returns false and keeps the child.

**The daemon** is the Go program and is not in this repository. Its actions
are written from the protocol and marked `spec_modelled`:

- `DaemonReadCmd` reads a command; `shutdown` makes it exit.
- `DaemonReply` echoes a command's id.
- `DaemonPush` sends an event with no id.
- `DaemonExit` is a crash.

**Data abstraction.**

- A uuid is `NewId(c)`, one id per caller. A caller makes one request, so
  ids are fresh, as `Uuid::new_v4` makes them.
- An event carries only its id and the caller whose command it answers.
  That is all the properties tell apart.


## The module `BridgeEvents.tla`

It extends `DaemonBridge` with the event path.

**State.**

- `slot` is `EVENT_RECEIVER`: `NoRx` (None), `DeadRx` (the receiver of an
  attempt whose spawn failed), or channel `g`, the channel created for
  generation `g`.
- `evTx` is the channel of `bridge.event_tx`. `chq[g]` counts the events
  buffered in channel `g`.
- `fwd[t]` and `fwdRx[t]` are the forwarder task started by the `t`-th
  spawn and the receiver it took.
- `lost` counts dropped events: those left in a dropped receiver, and those
  refused by a failed send.

**Actions.**

- `EvStartRefused`: `is_running()` true, or the binary not found. The slot
  is not touched.
- `EvStartSpawnFails`: the receiver is stored (`StoreRx`, which drops the
  previous one with its events), then `spawn` fails. This is
  `AlreadyRunning` after a `try_wait` error, or `SpawnError`.
- `EvStartSpawns`: the receiver is stored, `event_tx` is replaced, and the
  forwarder task is spawned.
- `EvReadLine` / `EvReadLineClosed`: the reader's `event_tx.send`.
  - It succeeds while the channel's receiver exists (`SinkOpen`).
  - Otherwise the event is lost and the reader breaks out of its loop.
- `FwdTake`, `FwdEmit`, `FwdExit`: `take()`, `recv()` yielding an event,
  and `recv()` yielding None. None comes only once the buffer is empty and
  both senders are gone (`SendersGone`).

## The module `BinaryResolve.tla`

- `Candidates` is the list `get_binary_candidates` builds:
  - the resource directory and its `binaries/`, each with the bare and the
    arch name;
  - the executable's directory;
  - the working directory;
  - three `dist` directories with the arch name.
- On an unknown platform the arch name falls back to the bare name, which
  puts duplicates in the list.
- `FindDaemonBinary` is the loop, written as a recursive function. It
  returns the first candidate for which `path.exists()` holds (`Exists`),
  which is true for a regular file and for a directory.
- `Init` enumerates every combination of resource directory, executable
  directory, platform, regular files and one directory among the
  candidates.

## The abstract correlator (`Correlator.tla`, `CorrelatorRefinement.tla`)

- `Correlator` says what `send_command_async` promises, with the locks,
  pipes, threads and the daemon abstracted away.
  - A call opens a channel.
  - The channel receives at most one value, and only while the call is
    open. The value is the call's own Ok reply, a teardown's `NotRunning`,
    or `Closed`.
  - The call returns once: with that value's result, with a send error, or
    with `Timeout` after it expired empty.
- `CorrelatorRefinement` maps `DaemonBridge` onto it:
  - the state of a call is `StateOfPc[pc[c]]`;
  - the channel is `inbox`, and the outcome is `res`.
- `ImplementsCorrelator` is `Abs!Spec`.
- The bridge's steps map to Correlator steps:

  | Bridge step | Correlator step |
  |---|---|
  | `Invoke` | `Call` |
  | a failed `SendCommand` | `FailSend` |
  | `Receive` | `Return` |
  | `Timeout` | `Expire` |
  | `TimeoutRemove` | `ReturnTimeout` |
  | a resolving `ReadLine` | `Deliver` |
  | a draining `MonitorRun` | `FailAll` |
  | any other step | a stutter |

## Runs

`MCDaemonBridge.tla` gives the constants model values: callers `c1`, `c2`,
and `Nobody`, `UI`, `NoId`. `MCBridgeEvents.tla` does the same with the
single caller `c1`. `BinaryResolve` needs no constants. Every run but
stdin_blocks sets `PipeCap` to `MCPipeCap`, the number of callers plus one.
A generation's pipe never holds more than that (one command per caller and
one shutdown), so no write blocks in those runs. They check a daemon that
may be slow, but whose stdin never fills.

| Run | cfg | Checks | Result |
|---|---|---|---|
| safety | MCDaemonBridge.cfg | `SingleSupervisedDaemon`, `OwnReply`, `PendingTracksWaiters`, `ImplementsCorrelator` | pass, about 1.08 M states, under a minute |
| liveness | MCDaemonBridgeLive.cfg | `EveryRequestCompletes` under `FairSpec` | pass |
| stop_leaves_waiters | MCDaemonBridge_StoppedWaitersFailed.cfg | `StoppedWaitersFailed` | violated |
| reply_dropped | MCDaemonBridge_ReplyResolves.cfg | `ReplyResolves` (action property) | violated |
| monitor_drains_live | MCDaemonBridge_NotRunningOnlyWhenDown.cfg | `NotRunningOnlyWhenDown` | violated |
| leaked_entry | MCDaemonBridge_NoLeakedEntries.cfg | `NoLeakedEntries` | violated |
| events_liveness | MCBridgeEventsLive.cfg | `StaleForwarderExits` under `EvFairSpec` | pass, about 285 k states |
| events_dropped | MCBridgeEvents_EventsNeverDropped.cfg | `EventsNeverDropped` | violated |
| live_reader_killed | MCBridgeEvents_ReaderLivesWithDaemon.cfg | `ReaderLivesWithDaemon` | violated |
| directory_shadows_binary | MCBinaryResolve_RegularFile.cfg | `ResolvesFirstRegularFile` | violated |
| stdin_blocks | MCDaemonBridge_StdinBlocks.cfg | `EveryRequestCompletes` under `FairSpec`, `PipeCap = 1` | violated |

What the passing properties say:

- **`SingleSupervisedDaemon`.** Every live process is the current
  generation, and the bridge holds it as its child. No orphan is left by
  `stop`, and `start` never starts a second daemon. This includes the
  `try_wait` `Err(_)` outcome.
- **`OwnReply`.** A caller answered Ok got the reply to its own command.
- **`PendingTracksWaiters`.** A caller that registered and has not been
  answered still has its sender under its id. The other caller's insert,
  its timeout cleanup, and the readers do not remove it.
- **`EveryRequestCompletes`.** Every `send_command_async` returns. This
  rests on the lock order and the 30 s timeout.
- **`ImplementsCorrelator`.** The bridge refines `Correlator`:
  - a receiver gets at most one value;
  - a timeout never fires on a receiver that holds a value;
  - every call returns exactly the result its value calls for.
- **`StaleForwarderExits`.** A forwarder whose channel is no longer
  `event_tx` ends. Its reader sees EOF once the old daemon is dead, and the
  buffer drains.

The type invariants `TypeOK` and `EvTypeOK` are not run properties: no
plausible bug in this code breaks one without breaking a property above.
They are proved (below) as the base of the other proofs.

The violations are the findings in `PROJECT.json`:

- `stop()` never fails the pending requests: they wait the full 30 s.
- The reader's `try_write` drops the reply of a waiting caller whenever
  another caller is registering.
- The shutdown monitor drains the table right after spawn, not at shutdown.
  Live requests get `NotRunning`.
- A failed `send_command` leaks its pending entry.
- A second `start_daemon` before the first forwarder took its receiver
  replaces the receiver in `EVENT_RECEIVER`. The events buffered in it are
  lost, and the old reader breaks out of its loop.
- `try_wait` failing makes `is_running()` false while the child is kept.
  `start_daemon` then stores a fresh receiver before `spawn` refuses with
  `AlreadyRunning`. The live daemon's reader loses its channel and ends, so
  every later reply of that daemon goes unread and its caller times out.
- `path.exists()` accepts a directory named like the binary. The trace has
  a directory `cwd/daemon` and a regular file `../../dist/daemon`. The
  lookup returns the directory (`spawn` then fails on it), and the regular
  file is never tried. The spec says "exists as a regular file".
- `send_command` writes to the child's stdin with the blocking `writeln!`.
  It does so holding the bridge mutex, before the 30 s timeout starts. The
  trace:
  - `c1` writes its command; the pipe is now full, and the daemon, alive,
    reads no more;
  - `c1` times out;
  - `c2` takes the bridge mutex and blocks in the write;
  - `c1`'s timeout cleanup needs the bridge mutex too, so neither call ever
    returns, and `stop_daemon` would wait behind them.
  
  The spec says a call waits at most its timeout, and outstanding requests
  fail rather than hang. `PipeCap = 1` stands for a full pipe of any size:
  the real pipe holds many more lines, and a daemon that stops reading
  fills it.

**Bounds.**

- Two callers are enough for every two-party race in the code: an insert
  against a resolve, and a timeout against a register.
- Two spawns give an old generation's reader and monitor racing the new
  one.
- One push gives a reply-less event on the reader.
- The liveness run uses one spawn and no push, to keep the fair check under
  a minute. Liveness does not depend on the daemon, which gets no fairness.
- A run with three callers under symmetry took about 3 minutes, too long
  for a regular run, so it is not kept.
- The event runs use one caller. The event path does not depend on how
  many callers there are, and the caller steps only multiply the
  interleavings. Two spawns and one push give:
  - a restart racing the first forwarder's `take()`;
  - an old reader whose receiver was dropped;
  - a forwarder taking a newer generation's receiver.
- The event liveness run uses no push. The replies of the one caller's
  request still give events.
- stdin_blocks uses the liveness run's instance with a one-line pipe, the
  smallest that lets one caller's write succeed and the next one block.
- `BinaryResolve` enumerates every environment outright: both resource
  directory options, both executable directory options, both platform
  kinds, every set of regular files among the candidates, and one
  directory.

**Fairness.**

- The tokio `Mutex` and `RwLock` queue their waiters FIFO, so the lock
  acquisitions are strongly fair.
- The remaining steps are weakly fair:
  - the task steps of a caller;
  - the timer, since tokio's timer fires;
  - the std threads;
  - the end of `stop()`'s sleep.
- The daemon, the user (start/stop/status) and the invocation of a handler
  get no fairness.
- In `BridgeEvents`, the reader threads and the forwarder tasks are weakly
  fair. They are a std thread and a tokio task that run whenever they can
  make progress. The end of `stop()`'s sleep is weakly fair as well.

## Proofs (`DaemonBridgeProofs.tla`, TLAPS)

The proofs hold for every finite set of callers, every `MaxSpawns >= 1`,
every `MaxPush` and every `PipeCap >= 1`. These assumptions are `ConstAssumption`.

- **`TypeCorrect`: `Spec => []TypeOK`.**
  - `InitTypeOK` and `NextTypeOK` give the two steps of the induction.
  - `NextTypeOK` has one step per action. Actions with alternatives are
    proved by cases: `SendCommand`'s three outcomes, whether `ReadLine`
    resolves, the monitor's `try_write`, and the two branches of
    `stop_daemon`.
- **`SupervisedDaemon`: `Spec => []SingleSupervisedDaemon`.**
  - The inductive invariant is `TypeOK /\ SingleSupervisedDaemon`. The
    typing is needed so that `IsRunning` has only its two records.
  - The lemmas:
    - `FrameSSD`: a step that changes neither the child, the generation nor
      a process keeps the invariant.
    - `KillSSD`: killing a process keeps it.
    - `PollSSD`: `is_running` clears the child only on `try_wait`'s
      `Ok(Some)`, so never while a process is alive.
    - `StartSpawns` case: spawn is reached only when `is_running()` was
      false and `spawn`'s `child.is_some()` check passed. By the invariant,
      no process is alive then.
- `ResolveLineTypeOK`: one line of a stdout pipe keeps `TypeOK`, whatever
  the step does to the reader thread. `NextTypeOK` uses it for `ReadLine`,
  and `EventsProofs` uses it for `EvReadLineClosed`, where the reader ends.

## Proofs (`CorrelatorProofs.tla`, TLAPS)

The proofs hold for every finite set of callers and every bound.

- **`RepliesReachOwner`: `Spec => []OwnReply`.**
- **`WaitersTracked`: `Spec => []PendingTracksWaiters`.**
- Neither property is inductive alone. The inductive invariant `IInv`
  adds:
  - `MsgsTagged`: every command in the stdin pipe, every command the daemon
    holds, and every line in a stdout pipe that carries a request id
    belongs to that id's caller;
  - `PendingOwned`: the sender stored under an id is the sender of that
    id's caller.
- With these, the reply `read_stdout` resolves goes to the caller whose id
  it carries. `NextCorr` has one step per action, and the lemmas
  `FrameCorr`, `PhaseCorr` and `PipesCorr` cover the steps that only move
  a caller, or only move the pipes.
- **`Refinement`: `Spec => ImplementsCorrelator`.**
  - `InitRefines`: the initial state maps to `Correlator`'s initial state.
  - `StepRefines`: every step maps to a `Correlator` step or a stutter,
    under `RInv`. `RInv` is `IInv` plus:
    - `Unregistered`: before it registers, a caller has no entry and an
      empty receiver;
    - `EntryEmpty`: while its entry is in the table, a caller's receiver is
      empty;
    - `EmptyIsNoMsg`.
  - These make a delivery land on an open, empty channel, as
    `Correlator`'s `Deliver` and `FailAll` require. A timeout only fires on
    an empty channel, which is `Expire`.

## Proofs (`EventsProofs.tla`, TLAPS)

`EventsProofs` extends `BridgeEvents` and `DaemonBridgeProofs`. `BridgePart`
shows that every step of the composition except `EvReadLineClosed` is, on
the bridge's variables, a step of `DaemonBridge`. The bridge lemmas
therefore carry over.

- **`EvTypeCorrect`: `EvSpec => []EvTypeOK`.**
  - `EvNextTypeOK` has one step per event action.
  - `StoreRxTypeOK` covers the drop of the slot's previous receiver.
  - The spawn case uses `StartSpawns`' bound `gen < MaxSpawns` for the new
    channel `gen + 1`.

TLC only checks these:

- `EveryRequestCompletes` and `StaleForwarderExits`: liveness is out of
  the prover's reach.
- `BinaryResolve` has only a violation run. Its model unfolds the recursive
  function `FindDaemonBinary`, and what such a function computes for every
  input needs an induction theorem that takes an operator as a parameter,
  which the installed provers cannot instantiate.
- The violated properties: they state what the spec says and the code
  does not keep, so there is nothing to prove.

## Not modelled

- `Drop for DaemonBridge`: it never runs, since the bridge lives in a
  static `OnceCell`.
- The stderr reader: it only logs.
- JSON text, parse failures and empty lines: they only skip a line.

## Plan for the next steps

1. A fair event run with two callers, once a faster machine keeps it under
   five minutes.
