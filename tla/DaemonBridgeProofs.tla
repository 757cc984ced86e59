------------------------- MODULE DaemonBridgeProofs -------------------------
(***************************************************************************)
(* Machine-checked proofs about DaemonBridge, for every value of the       *)
(* constants that ConstAssumption allows.                                  *)
(***************************************************************************)
EXTENDS DaemonBridge, TLAPS

USE ConstAssumption

-----------------------------------------------------------------------------
(* Type correctness *)

LEMMA InitTypeOK == Init => TypeOK
<1> SUFFICES ASSUME Init PROVE TypeOK
  OBVIOUS
<1>1. hasChild \in BOOLEAN /\ stdin \in BOOLEAN
  <2>1. hasChild = FALSE /\ stdin = FALSE
    BY DEF Init
  <2>2. QED
    BY <2>1, Zenon
<1>2. gen \in 0..MaxSpawns /\ pushed \in 0..MaxPush
  <2>1. gen = 0 /\ pushed = 0
    BY DEF Init
  <2>2. QED
    BY <2>1
<1>3. toDaemon \in Seq(Cmd) /\ owed \subseteq Cmd
  BY DEF Init
<1>4. pwriter \in Callers \cup {Nobody} /\ bmutex \in Callers \cup {Nobody, UI}
  BY DEF Init
<1>5. proc \in [Gens -> {"none", "alive", "dead"}]
  BY DEF Init
<1>6. out \in [Gens -> Seq(Event)]
  BY DEF Init
<1>7. reader \in [Gens -> {"idle", "run", "exit"}]
      /\ monitor \in [Gens -> {"idle", "armed", "done"}]
  BY DEF Init
<1>8. pending \in [Ids -> Callers \cup {Nobody}]
  BY DEF Init
<1>9. pc \in [Callers -> CallerPcs] /\ res \in [Callers -> ResultKinds]
  BY DEF Init, CallerPcs, ResultKinds
<1>10. sentTo \in [Callers -> 0..MaxSpawns]
  BY DEF Init
<1>11. inbox \in [Callers -> Msg]
  <2>1. NoMsg \in Msg
    BY DEF NoMsg, Msg
  <2>2. QED
    BY <2>1 DEF Init
<1>12. QED
  BY <1>1, <1>2, <1>3, <1>4, <1>5, <1>6, <1>7, <1>8, <1>9, <1>10, <1>11
  DEF TypeOK

\* One line of generation g's stdout keeps the bridge well typed, whatever
\* the step does to the reader and monitor threads (ReadLine leaves them
\* alone; BridgeEvents' EvReadLineClosed ends the reader).
LEMMA ResolveLineTypeOK ==
  ASSUME TypeOK, NEW g \in Gens, ResolveLine(g),
         reader' \in [Gens -> {"idle", "run", "exit"}],
         monitor' \in [Gens -> {"idle", "armed", "done"}]
  PROVE  TypeOK'
<1> USE DEF TypeOK
<1>0. ResolveLine(g)
  OBVIOUS
<1> DEFINE e == Head(out[g])
<1>1. /\ UNCHANGED <<hasChild, stdin, gen, proc, pwriter, bmutex>>
      /\ UNCHANGED <<toDaemon, owed, pushed, pc, res, sentTo>>
      /\ out' = [out EXCEPT ![g] = Tail(out[g])]
  BY <1>0 DEF ResolveLine
<1>2. out[g] \in Seq(Event) /\ out[g] # <<>>
  BY <1>0 DEF ResolveLine
<1>3. e \in Event /\ Tail(out[g]) \in Seq(Event)
  BY <1>2
<1>4. out' \in [Gens -> Seq(Event)]
  BY <1>1, <1>3
<1>5. pending' \in [Ids -> Callers \cup {Nobody}] /\ inbox' \in [Callers -> Msg]
  <2>1. CASE CanResolve(e)
    <3>1. /\ pending' = [pending EXCEPT ![e.id] = Nobody]
          /\ inbox' = [inbox EXCEPT ![pending[e.id]] =
                          Deliver(pending[e.id], [kind |-> "Ok", src |-> e.src])]
      BY <1>0, <2>1 DEF ResolveLine
    <3>2. pending[e.id] \in Callers /\ e.id \in Ids
      BY <2>1 DEF CanResolve
    <3>3. [kind |-> "Ok", src |-> e.src] \in Msg
      BY <1>3 DEF Event, Msg
    <3>4. Deliver(pending[e.id], [kind |-> "Ok", src |-> e.src]) \in Msg
      BY <3>2, <3>3 DEF Deliver
    <3>5. QED
      BY <3>1, <3>2, <3>4
  <2>2. CASE ~CanResolve(e)
    <3>1. pending' = pending /\ inbox' = inbox
      BY <1>0, <2>2 DEF ResolveLine
    <3>2. QED
      BY <3>1
  <2>3. QED
    BY <2>1, <2>2
<1>6. QED
  BY <1>1, <1>4, <1>5

LEMMA NextTypeOK == TypeOK /\ [Next]_vars => TypeOK'
<1> SUFFICES ASSUME TypeOK, [Next]_vars PROVE TypeOK'
  OBVIOUS
<1> USE DEF TypeOK
<1>1. ASSUME NEW c \in Callers, Invoke(c) PROVE TypeOK'
  BY <1>1 DEF Invoke, CallerPcs, bridgeVars, daemonVars, threadVars
<1>2. ASSUME NEW c \in Callers, LockBridge(c) PROVE TypeOK'
  BY <1>2 DEF LockBridge, CallerPcs, daemonVars, threadVars
<1>3. ASSUME NEW c \in Callers, LockPending(c) PROVE TypeOK'
  BY <1>3 DEF LockPending, CallerPcs, daemonVars, threadVars
<1>4. ASSUME NEW c \in Callers, Register(c) PROVE TypeOK'
  BY <1>4 DEF Register, Insert, Deliver, RxAlive, NewId, Ids, Msg, CallerPcs,
              daemonVars, threadVars
<1>5. ASSUME NEW c \in Callers, SendCommand(c) PROVE TypeOK'
  <2>1. [cmd |-> "req", id |-> NewId(c), src |-> c] \in Cmd
    BY DEF Cmd, NewId, Ids
  <2>2. CASE ~stdin
    BY <1>5, <2>2 DEF SendCommand, ResultKinds, CallerPcs, daemonVars, threadVars
  <2>3. CASE stdin /\ proc[gen] = "dead"
    BY <1>5, <2>3 DEF SendCommand, ResultKinds, CallerPcs, daemonVars, threadVars
  <2>4. CASE stdin /\ proc[gen] = "alive"
    <3>0. toDaemon' = Append(toDaemon, [cmd |-> "req", id |-> NewId(c), src |-> c])
      BY <1>5, <2>4 DEF SendCommand
    <3>1. toDaemon' \in Seq(Cmd)
      BY <3>0, <2>1
    <3>2. pc' \in [Callers -> CallerPcs] /\ sentTo' \in [Callers -> 0..MaxSpawns]
      <4>1. pc' = [pc EXCEPT ![c] = "wait"] /\ sentTo' = [sentTo EXCEPT ![c] = gen]
        BY <1>5, <2>4 DEF SendCommand
      <4>2. "wait" \in CallerPcs /\ gen \in 0..MaxSpawns
        BY DEF CallerPcs
      <4>3. QED
        BY <4>1, <4>2
    <3>3. QED
      BY <1>5, <2>4, <3>1, <3>2 DEF SendCommand, daemonVars, threadVars
  <2>5. QED
    BY <2>2, <2>3, <2>4, <1>5 DEF SendCommand
<1>6. ASSUME NEW c \in Callers, Receive(c) PROVE TypeOK'
  BY <1>6 DEF Receive, ResultKinds, CallerPcs, bridgeVars, daemonVars, threadVars
<1>7. ASSUME NEW c \in Callers, Timeout(c) PROVE TypeOK'
  BY <1>7 DEF Timeout, CallerPcs, bridgeVars, daemonVars, threadVars
<1>8. ASSUME NEW c \in Callers, TimeoutLockBridge(c) PROVE TypeOK'
  BY <1>8 DEF TimeoutLockBridge, CallerPcs, daemonVars, threadVars
<1>9. ASSUME NEW c \in Callers, TimeoutLockPending(c) PROVE TypeOK'
  BY <1>9 DEF TimeoutLockPending, CallerPcs, daemonVars, threadVars
<1>10. ASSUME NEW c \in Callers, TimeoutRemove(c) PROVE TypeOK'
  BY <1>10 DEF TimeoutRemove, NewId, Ids, ResultKinds, CallerPcs,
               daemonVars, threadVars
<1>11. ASSUME NEW g \in Gens, ReadLine(g) PROVE TypeOK'
  BY <1>11, ResolveLineTypeOK DEF ReadLine, threadVars
<1>12. ASSUME NEW g \in Gens, ReadEof(g) PROVE TypeOK'
  BY <1>12 DEF ReadEof, bridgeVars, daemonVars, callerVars
<1>13. ASSUME NEW g \in Gens, MonitorRun(g) PROVE TypeOK'
  <2>1. /\ UNCHANGED <<hasChild, stdin, gen, proc, pwriter, bmutex>>
        /\ UNCHANGED <<toDaemon, owed, pushed, out, reader, pc, res, sentTo>>
        /\ monitor' = [monitor EXCEPT ![g] = "done"]
    BY <1>13 DEF MonitorRun, daemonVars
  <2>2. [kind |-> "NotRunning", src |-> Nobody] \in Msg
    BY DEF Msg
  <2>3. pending' \in [Ids -> Callers \cup {Nobody}] /\ inbox' \in [Callers -> Msg]
    <3>1. CASE pwriter = Nobody
      <4>1. /\ pending' = [i \in Ids |-> Nobody]
            /\ inbox' = [o \in Callers |->
                           IF \E i \in Ids : pending[i] = o
                           THEN Deliver(o, [kind |-> "NotRunning", src |-> Nobody])
                           ELSE inbox[o]]
        BY <1>13, <3>1 DEF MonitorRun
      <4>2. \A o \in Callers : Deliver(o, [kind |-> "NotRunning", src |-> Nobody]) \in Msg
        BY <2>2 DEF Deliver
      <4>3. QED
        BY <4>1, <4>2
    <3>2. CASE pwriter # Nobody
      <4>1. pending' = pending /\ inbox' = inbox
        BY <1>13, <3>2 DEF MonitorRun
      <4>2. QED
        BY <4>1
    <3>3. QED
      BY <3>1, <3>2
  <2>4. QED
    BY <2>1, <2>3
<1>14. CASE DaemonReadCmd
  <2>1. Head(toDaemon) \in Cmd /\ Tail(toDaemon) \in Seq(Cmd)
    BY <1>14 DEF DaemonReadCmd
  <2>2. QED
    BY <1>14, <2>1 DEF DaemonReadCmd, threadVars, callerVars
<1>15. CASE DaemonReply
  <2>1. PICK m \in owed : /\ out' = [out EXCEPT ![gen] = Append(@, [id |-> m.id, src |-> m.src])]
                          /\ owed' = owed \ {m}
    BY <1>15 DEF DaemonReply
  <2>2. [id |-> m.id, src |-> m.src] \in Event
    BY DEF Cmd, Event
  <2>3. out' \in [Gens -> Seq(Event)] /\ owed' \subseteq Cmd
    BY <1>15, <2>1, <2>2 DEF DaemonReply
  <2>4. QED
    BY <1>15, <2>3 DEF DaemonReply, bridgeVars, threadVars, callerVars
<1>16. CASE DaemonPush
  <2>1. [id |-> NoId, src |-> Nobody] \in Event
    BY DEF Event
  <2>2. out' \in [Gens -> Seq(Event)]
    BY <1>16, <2>1 DEF DaemonPush
  <2>3. pushed' \in 0..MaxPush
    BY <1>16 DEF DaemonPush
  <2>4. QED
    BY <1>16, <2>2, <2>3 DEF DaemonPush, bridgeVars, threadVars, callerVars
<1>17. CASE DaemonExit
  BY <1>17 DEF DaemonExit, daemonVars, threadVars, callerVars
<1>18. CASE DaemonStatus \/ StartFails
  BY <1>18 DEF DaemonStatus, StartFails, IsRunning, ApplyPoll,
               daemonVars, threadVars, callerVars
<1>19. CASE StartSpawns
  <2>1. gen + 1 \in Gens /\ gen' = gen + 1
    BY <1>19 DEF StartSpawns, Gens
  <2>2. /\ proc' \in [Gens -> {"none", "alive", "dead"}]
        /\ reader' \in [Gens -> {"idle", "run", "exit"}]
        /\ monitor' \in [Gens -> {"idle", "armed", "done"}]
    BY <1>19 DEF StartSpawns
  <2>3. hasChild' = TRUE /\ stdin' = TRUE
    BY <1>19 DEF StartSpawns
  <2>4. toDaemon' = <<>> /\ owed' = {} /\ pushed' = 0
    BY <1>19 DEF StartSpawns
  <2>5. QED
    BY <1>19, <2>1, <2>2, <2>3, <2>4 DEF StartSpawns, Gens, callerVars
<1>20. CASE StopDaemon
  <2>1. UNCHANGED <<gen, proc, pending, pwriter, owed, pushed, out, reader, monitor,
                    pc, inbox, res, sentTo>>
    BY <1>20 DEF StopDaemon, threadVars, callerVars
  <2>2. PICK r \in IsRunning :
          \/ /\ ~r.running
             /\ ApplyPoll(r)
             /\ UNCHANGED <<bmutex, toDaemon>>
          \/ /\ r.running
             /\ bmutex' = UI
             /\ toDaemon' = Append(toDaemon, [cmd |-> "shutdown", id |-> NoId, src |-> Nobody])
             /\ UNCHANGED <<hasChild, stdin>>
    BY <1>20 DEF StopDaemon
  <2>3. [cmd |-> "shutdown", id |-> NoId, src |-> Nobody] \in Cmd
    BY DEF Cmd
  <2>4. CASE ~r.running
    <3>1. ApplyPoll(r) /\ UNCHANGED <<bmutex, toDaemon>>
      BY <2>2, <2>4
    <3>2. hasChild' \in BOOLEAN /\ stdin' \in BOOLEAN
      BY <3>1, Zenon DEF ApplyPoll
    <3>3. QED
      BY <2>1, <3>1, <3>2
  <2>5. CASE r.running
    <3>1. /\ bmutex' = UI
          /\ toDaemon' = Append(toDaemon, [cmd |-> "shutdown", id |-> NoId, src |-> Nobody])
          /\ UNCHANGED <<hasChild, stdin>>
      BY <2>2, <2>5
    <3>2. toDaemon' \in Seq(Cmd)
      BY <3>1, <2>3
    <3>3. QED
      BY <2>1, <3>1, <3>2
  <2>6. QED
    BY <2>4, <2>5
<1>21. CASE StopFinish
  BY <1>21 DEF StopFinish, daemonVars, threadVars, callerVars
<1>22. CASE UNCHANGED vars
  BY <1>22 DEF vars, bridgeVars, daemonVars, threadVars, callerVars
<1>23. QED
  BY <1>1, <1>2, <1>3, <1>4, <1>5, <1>6, <1>7, <1>8, <1>9, <1>10, <1>11,
     <1>12, <1>13, <1>14, <1>15, <1>16, <1>17, <1>18, <1>19, <1>20, <1>21,
     <1>22
     DEF Next, CallerStep, ThreadStep, DaemonStep, FacadeStep

\* Every reachable state is well typed: TypeOK is an inductive invariant of
\* the bridge (pending table, locks, pipes, threads and callers).
THEOREM TypeCorrect == Spec => []TypeOK
  BY InitTypeOK, NextTypeOK, PTL DEF Spec

-----------------------------------------------------------------------------
(* One supervised daemon *)

\* A step that changes neither the child handle, the generation nor any
\* process state keeps SingleSupervisedDaemon.
LEMMA FrameSSD ==
  ASSUME SingleSupervisedDaemon, UNCHANGED <<hasChild, gen, proc>>
  PROVE  SingleSupervisedDaemon'
  BY DEF SingleSupervisedDaemon

\* is_running() clears the child only when try_wait() reported the current
\* generation's exit, so no live process is left unsupervised.
LEMMA PollSSD ==
  ASSUME TypeOK, SingleSupervisedDaemon, NEW r \in IsRunning, ApplyPoll(r),
         UNCHANGED <<gen, proc>>
  PROVE  SingleSupervisedDaemon'
<1> SUFFICES ASSUME NEW g \in Gens, proc'[g] = "alive" PROVE g = gen' /\ hasChild'
  BY DEF SingleSupervisedDaemon
<1>1. g = gen /\ hasChild
  BY DEF SingleSupervisedDaemon
<1>2. ~r.clear
  <2>1. r = [running |-> proc[gen] = "alive", clear |-> proc[gen] = "dead"]
        \/ r = [running |-> FALSE, clear |-> FALSE]
    BY <1>1 DEF IsRunning
  <2>2. proc[gen] = "alive"
    BY <1>1
  <2>3. CASE r = [running |-> proc[gen] = "alive", clear |-> proc[gen] = "dead"]
    <3>1. r.clear = (proc[gen] = "dead")
      BY <2>3
    <3>2. QED
      BY <2>2, <3>1, Zenon
  <2>4. CASE r = [running |-> FALSE, clear |-> FALSE]
    <3>1. r.clear = FALSE
      BY <2>4
    <3>2. QED
      BY <3>1, Zenon
  <2>5. QED
    BY <2>1, <2>3, <2>4
<1>3. hasChild'
  BY <1>1, <1>2, Zenon DEF ApplyPoll
<1>4. QED
  BY <1>1, <1>3

\* A daemon process that dies (shutdown read, crash or kill) keeps the
\* invariant: killing never makes a process alive.
LEMMA KillSSD ==
  ASSUME SingleSupervisedDaemon, TypeOK, NEW k,
         proc' = [proc EXCEPT ![k] = "dead"], UNCHANGED <<gen, hasChild>>
  PROVE  SingleSupervisedDaemon'
  BY DEF SingleSupervisedDaemon, TypeOK

LEMMA InitSSD == Init => SingleSupervisedDaemon
  BY DEF Init, SingleSupervisedDaemon

LEMMA NextSSD ==
  ASSUME TypeOK, SingleSupervisedDaemon, [Next]_vars
  PROVE  SingleSupervisedDaemon'
<1>1. ASSUME NEW c \in Callers, CallerStep(c) PROVE SingleSupervisedDaemon'
  <2>1. UNCHANGED <<hasChild, gen, proc>>
    BY <1>1 DEF CallerStep, Invoke, LockBridge, LockPending, Register, SendCommand,
               Receive, Timeout, TimeoutLockBridge, TimeoutLockPending,
               TimeoutRemove, daemonVars, threadVars, bridgeVars
  <2>2. QED
    BY <2>1, FrameSSD
<1>2. ASSUME NEW g \in Gens, ThreadStep(g) PROVE SingleSupervisedDaemon'
  <2>1. UNCHANGED <<hasChild, gen, proc>>
    BY <1>2 DEF ThreadStep, ReadLine, ResolveLine, ReadEof, MonitorRun, bridgeVars
  <2>2. QED
    BY <2>1, FrameSSD
<1>3. CASE DaemonReadCmd
  <2>1. UNCHANGED <<gen, hasChild>>
    BY <1>3 DEF DaemonReadCmd
  <2>2. CASE UNCHANGED proc
    BY <2>1, <2>2, FrameSSD
  <2>3. CASE proc' = [proc EXCEPT ![gen] = "dead"]
    BY <2>1, <2>3, KillSSD
  <2>4. QED
    BY <1>3, <2>2, <2>3 DEF DaemonReadCmd
<1>4. CASE DaemonReply \/ DaemonPush
  <2>1. UNCHANGED <<hasChild, gen, proc>>
    BY <1>4 DEF DaemonReply, DaemonPush, bridgeVars
  <2>2. QED
    BY <2>1, FrameSSD
<1>5. CASE DaemonExit
  BY <1>5, KillSSD DEF DaemonExit
<1>6. CASE DaemonStatus \/ StartFails
  <2>1. PICK r \in IsRunning : ApplyPoll(r)
    BY <1>6 DEF DaemonStatus, StartFails
  <2>2. UNCHANGED <<gen, proc>>
    BY <1>6 DEF DaemonStatus, StartFails
  <2>3. QED
    BY <2>1, <2>2, PollSSD
<1>7. CASE StartSpawns
  <2>1. PICK r \in IsRunning :
          /\ ~r.running
          /\ ~(hasChild /\ ~r.clear)
          /\ hasChild' = TRUE
          /\ gen' = gen + 1
          /\ proc' = [proc EXCEPT ![gen + 1] = "alive"]
    BY <1>7 DEF StartSpawns
  <2>2. gen + 1 \in Gens
    BY <1>7 DEF StartSpawns, TypeOK, Gens
  \* No process of an earlier generation is alive when spawn() runs.
  <2>3. \A g \in Gens : proc[g] # "alive"
    <3> SUFFICES ASSUME NEW g \in Gens, proc[g] = "alive" PROVE FALSE
      OBVIOUS
    <3>1. g = gen /\ hasChild
      BY DEF SingleSupervisedDaemon
    <3>2. r = [running |-> proc[gen] = "alive", clear |-> proc[gen] = "dead"]
          \/ r = [running |-> FALSE, clear |-> FALSE]
      BY <3>1 DEF IsRunning
    <3>3. CASE r = [running |-> proc[gen] = "alive", clear |-> proc[gen] = "dead"]
      <4>1. r.running = (proc[gen] = "alive")
        BY <3>3
      <4>2. QED
        BY <2>1, <3>1, <4>1, Zenon
    <3>4. CASE r = [running |-> FALSE, clear |-> FALSE]
      <4>1. r.clear = FALSE
        BY <3>4
      <4>2. QED
        BY <2>1, <3>1, <4>1, Zenon
    <3>5. QED
      BY <3>2, <3>3, <3>4
  <2>4. QED
    BY <2>1, <2>2, <2>3 DEF SingleSupervisedDaemon, TypeOK
<1>8. CASE StopDaemon
  <2>1. UNCHANGED <<gen, proc>>
    BY <1>8 DEF StopDaemon
  <2>2. PICK r \in IsRunning :
          \/ ~r.running /\ ApplyPoll(r)
          \/ UNCHANGED <<hasChild>>
    BY <1>8 DEF StopDaemon
  <2>3. CASE ~r.running /\ ApplyPoll(r)
    BY <2>1, <2>3, PollSSD
  <2>4. CASE UNCHANGED hasChild
    BY <2>1, <2>4, FrameSSD
  <2>5. QED
    BY <2>2, <2>3, <2>4
<1>9. CASE StopFinish
  <2>1. proc' = [proc EXCEPT ![gen] = "dead"] /\ ~hasChild' /\ UNCHANGED gen
    BY <1>9 DEF StopFinish
  <2>2. QED
    BY <2>1 DEF SingleSupervisedDaemon, TypeOK
<1>10. CASE UNCHANGED vars
  BY <1>10, FrameSSD DEF vars, bridgeVars
<1>11. QED
  BY <1>1, <1>2, <1>3, <1>4, <1>5, <1>6, <1>7, <1>8, <1>9, <1>10
     DEF Next, DaemonStep, FacadeStep

\* At most one daemon process is ever alive, and it is the one the bridge
\* holds as its child: start_daemon never spawns while is_running() may be
\* true, and stop()/is_running() drop the child only once it is dead.
THEOREM SupervisedDaemon == Spec => []SingleSupervisedDaemon
<1>1. Init => TypeOK /\ SingleSupervisedDaemon
  BY InitTypeOK, InitSSD
<1>2. TypeOK /\ SingleSupervisedDaemon /\ [Next]_vars
        => (TypeOK /\ SingleSupervisedDaemon)'
  BY NextTypeOK, NextSSD
<1>3. QED
  BY <1>1, <1>2, PTL DEF Spec

=============================================================================
