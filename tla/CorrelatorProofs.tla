--------------------------- MODULE CorrelatorProofs ---------------------------
(***************************************************************************)
(* Proofs that the correlation of replies in send_command_async and        *)
(* read_stdout is right for every finite set of callers and every spawn   *)
(* and push bound: a caller answered Ok gets its own reply (OwnReply), and *)
(* a registered caller still waiting keeps its sender in pending_responses *)
(* (PendingTracksWaiters).                                                 *)
(*                                                                         *)
(* Neither is inductive alone.  The reply read_stdout delivers is          *)
(* addressed through the id of the event, so the proof needs that every    *)
(* line in the pipes and every command the daemon holds carries the id of  *)
(* the caller it belongs to (MsgsTagged), and that the sender stored under *)
(* an id is the sender of that id's caller (PendingOwned).                 *)
(***************************************************************************)
EXTENDS DaemonBridgeProofs, CorrelatorRefinement

USE ConstAssumption

\* A command or an event that carries a request id belongs to that id's
\* caller (the daemon echoes the id of the command it answers).
Tagged(m) == m.id \in Ids => m.src = m.id

MsgsTagged ==
    /\ \A k \in 1..Len(toDaemon) : Tagged(toDaemon[k])
    /\ \A m \in owed : Tagged(m)
    /\ \A g \in Gens : \A k \in 1..Len(out[g]) : Tagged(out[g][k])

\* The sender stored under an id is the sender of the caller that made it.
PendingOwned == \A i \in Ids : pending[i] \in Callers => pending[i] = i

Corr == MsgsTagged /\ PendingOwned /\ OwnReply /\ PendingTracksWaiters

IInv == TypeOK /\ Corr

-----------------------------------------------------------------------------
(* Lemmas on tagged sequences *)

LEMMA AppendTagged ==
  ASSUME NEW S, NEW s \in Seq(S), NEW x \in S,
         \A k \in 1..Len(s) : Tagged(s[k]), Tagged(x)
  PROVE  \A k \in 1..Len(Append(s, x)) : Tagged(Append(s, x)[k])
  OBVIOUS

LEMMA TailTagged ==
  ASSUME NEW S, NEW s \in Seq(S), s # << >>,
         \A k \in 1..Len(s) : Tagged(s[k])
  PROVE  /\ \A k \in 1..Len(Tail(s)) : Tagged(Tail(s)[k])
         /\ Tagged(Head(s))
  OBVIOUS

-----------------------------------------------------------------------------
(* The invariant holds initially *)

LEMMA InitIInv == Init => IInv
<1> SUFFICES ASSUME Init PROVE IInv
  OBVIOUS
<1>1. TypeOK
  BY InitTypeOK
<1>2. MsgsTagged
  BY DEF Init, MsgsTagged
<1>3. PendingOwned
  BY DEF Init, PendingOwned
<1>4. OwnReply /\ PendingTracksWaiters
  BY DEF Init, OwnReply, PendingTracksWaiters, NoMsg
<1>5. QED
  BY <1>1, <1>2, <1>3, <1>4 DEF IInv, Corr


-----------------------------------------------------------------------------
(* Frame lemmas *)

\* A step that leaves the pipes, the daemon's commands, the pending table
\* and the receivers alone, and moves no caller into "send" or "wait",
\* keeps Corr.
LEMMA FrameCorr ==
  ASSUME TypeOK, Corr,
         UNCHANGED <<toDaemon, owed, out, pending, inbox>>,
         pc' \in [Callers -> CallerPcs],
         \A c \in Callers : pc'[c] \in {"send", "wait"} => pc[c] = pc'[c]
  PROVE  Corr'
  BY DEF Corr, MsgsTagged, PendingOwned, OwnReply, PendingTracksWaiters

\* The same with the caller phases unchanged as well.
LEMMA StillCorr ==
  ASSUME TypeOK, Corr, UNCHANGED <<toDaemon, owed, out, pending, inbox, pc>>
  PROVE  Corr'
  BY DEF Corr, MsgsTagged, PendingOwned, OwnReply, PendingTracksWaiters

\* A step that changes only the pipes and the daemon's commands keeps the
\* correlation facts about the table and the receivers.
LEMMA PipesCorr ==
  ASSUME TypeOK, Corr, MsgsTagged', UNCHANGED <<pending, inbox, pc>>
  PROVE  Corr'
  BY DEF Corr, PendingOwned, OwnReply, PendingTracksWaiters

-----------------------------------------------------------------------------
(* The induction step *)

\* A caller step that only moves the caller to a phase other than "send"
\* and "wait" keeps Corr.
LEMMA PhaseCorr ==
  ASSUME TypeOK, Corr, TypeOK', NEW c \in Callers, NEW p,
         p \notin {"send", "wait"},
         pc' = [pc EXCEPT ![c] = p],
         UNCHANGED <<toDaemon, owed, out, pending, inbox>>
  PROVE  Corr'
<1>1. \A d \in Callers : pc'[d] \in {"send", "wait"} => pc[d] = pc'[d]
  BY DEF TypeOK
<1>2. QED
  BY <1>1, FrameCorr DEF TypeOK

LEMMA NextCorr == TypeOK /\ Corr /\ [Next]_vars => Corr'
<1> SUFFICES ASSUME TypeOK, Corr, [Next]_vars PROVE Corr'
  OBVIOUS
<1>0. TypeOK'
  BY NextTypeOK
<1>1. ASSUME NEW c \in Callers, Invoke(c) PROVE Corr'
  BY <1>0, <1>1, PhaseCorr DEF Invoke, daemonVars, bridgeVars
<1>2. ASSUME NEW c \in Callers, LockBridge(c) PROVE Corr'
  BY <1>0, <1>2, PhaseCorr DEF LockBridge, daemonVars
<1>3. ASSUME NEW c \in Callers, LockPending(c) PROVE Corr'
  BY <1>0, <1>3, PhaseCorr DEF LockPending, daemonVars
<1>6. ASSUME NEW c \in Callers, Receive(c) PROVE Corr'
  BY <1>0, <1>6, PhaseCorr DEF Receive, daemonVars, bridgeVars
<1>7. ASSUME NEW c \in Callers, Timeout(c) PROVE Corr'
  BY <1>0, <1>7, PhaseCorr DEF Timeout, daemonVars, bridgeVars
<1>8. ASSUME NEW c \in Callers, TimeoutLockBridge(c) PROVE Corr'
  BY <1>0, <1>8, PhaseCorr DEF TimeoutLockBridge, daemonVars
<1>9. ASSUME NEW c \in Callers, TimeoutLockPending(c) PROVE Corr'
  BY <1>0, <1>9, PhaseCorr DEF TimeoutLockPending, daemonVars
<1>4. ASSUME NEW c \in Callers, Register(c) PROVE Corr'
  <2>1. /\ pending' = [pending EXCEPT ![c] = c]
        /\ pc' = [pc EXCEPT ![c] = "send"]
        /\ UNCHANGED <<toDaemon, owed, out>>
    BY <1>4 DEF Register, Insert, NewId, daemonVars
  <2>2. inbox' = inbox
    BY <1>4 DEF Register, Insert, NewId, PendingOwned, Corr, Ids
  <2>3. PendingOwned'
    BY <2>1 DEF PendingOwned, Corr, TypeOK, Ids
  <2>4. PendingTracksWaiters'
    BY <2>1, <2>2 DEF PendingTracksWaiters, Corr, TypeOK, NewId, Ids
  <2>5. QED
    BY <2>1, <2>2, <2>3, <2>4 DEF Corr, MsgsTagged, OwnReply
<1>5. ASSUME NEW c \in Callers, SendCommand(c) PROVE Corr'
  <2>1. UNCHANGED <<owed, out, pending, inbox>> /\ pc[c] = "send"
    BY <1>5 DEF SendCommand
  <2>2. CASE ~stdin \/ (stdin /\ proc[gen] = "dead")
    <3>1. pc' = [pc EXCEPT ![c] = "done"] /\ UNCHANGED toDaemon
      BY <1>5, <2>2 DEF SendCommand
    <3>2. QED
      BY <1>0, <2>1, <3>1, PhaseCorr
  <2>3. CASE stdin /\ proc[gen] = "alive"
    <3>1. /\ toDaemon' = Append(toDaemon, [cmd |-> "req", id |-> NewId(c), src |-> c])
          /\ pc' = [pc EXCEPT ![c] = "wait"]
      BY <1>5, <2>3 DEF SendCommand
    <3>2. [cmd |-> "req", id |-> NewId(c), src |-> c] \in Cmd
      BY DEF Cmd, NewId, Ids
    <3>3. Tagged([cmd |-> "req", id |-> NewId(c), src |-> c])
      BY DEF Tagged, NewId
    <3>4. \A k \in 1..Len(toDaemon') : Tagged(toDaemon'[k])
      BY <3>1, <3>2, <3>3, AppendTagged DEF TypeOK, Corr, MsgsTagged
    <3>5. MsgsTagged'
      BY <2>1, <3>4 DEF Corr, MsgsTagged
    <3>6. PendingTracksWaiters'
      BY <2>1, <3>1 DEF Corr, PendingTracksWaiters, TypeOK
    <3>7. QED
      BY <2>1, <3>5, <3>6 DEF Corr, PendingOwned, OwnReply
  <2>4. ~stdin \/ (stdin /\ proc[gen] = "dead") \/ (stdin /\ proc[gen] = "alive")
    BY <1>5 DEF SendCommand
  <2>5. QED
    BY <2>2, <2>3, <2>4
<1>10. ASSUME NEW c \in Callers, TimeoutRemove(c) PROVE Corr'
  <2>1. /\ pending' = [pending EXCEPT ![c] = Nobody]
        /\ pc' = [pc EXCEPT ![c] = "done"]
        /\ UNCHANGED <<toDaemon, owed, out, inbox>>
    BY <1>10 DEF TimeoutRemove, NewId, daemonVars
  <2>2. PendingOwned'
    BY <2>1 DEF PendingOwned, Corr, TypeOK, Ids
  <2>3. PendingTracksWaiters'
    BY <2>1 DEF PendingTracksWaiters, Corr, TypeOK, NewId, Ids
  <2>4. QED
    BY <2>1, <2>2, <2>3 DEF Corr, MsgsTagged, OwnReply
<1>11. ASSUME NEW g \in Gens, ReadLine(g) PROVE Corr'
  <2> DEFINE e == Head(out[g])
  <2> DEFINE o == pending[e.id]
  <2>1. /\ UNCHANGED <<toDaemon, owed, pc>>
        /\ out' = [out EXCEPT ![g] = Tail(out[g])]
        /\ out[g] # << >>
    BY <1>11 DEF ReadLine, ResolveLine
  <2>2. /\ \A k \in 1..Len(Tail(out[g])) : Tagged(Tail(out[g])[k])
        /\ Tagged(e)
        /\ e \in Event
    <3>1. out[g] \in Seq(Event) /\ \A k \in 1..Len(out[g]) : Tagged(out[g][k])
      BY DEF TypeOK, Corr, MsgsTagged
    <3>2. QED
      BY <2>1, <3>1, TailTagged
  <2>3. MsgsTagged'
    BY <2>1, <2>2 DEF Corr, MsgsTagged, TypeOK
  <2>4. CASE CanResolve(e)
    <3>1. /\ pending' = [pending EXCEPT ![e.id] = Nobody]
          /\ inbox' = [inbox EXCEPT ![o] = Deliver(o, [kind |-> "Ok", src |-> e.src])]
      BY <1>11, <2>4 DEF ReadLine, ResolveLine
    <3>2. e.id \in Ids /\ o \in Callers /\ o = e.id /\ e.src = e.id
      BY <2>2, <2>4 DEF CanResolve, Corr, PendingOwned, Tagged
    <3>3. PendingOwned'
      BY <3>1 DEF Corr, PendingOwned, TypeOK
    <3>4. OwnReply'
      BY <3>1, <3>2 DEF Corr, OwnReply, TypeOK, Deliver
    <3>5. PendingTracksWaiters'
      <4>1. RxAlive(o) => inbox'[o].kind = "Ok"
        BY <3>1, <3>2 DEF TypeOK, Deliver
      <4>2. QED
        BY <2>1, <3>1, <3>2, <4>1 DEF Corr, PendingTracksWaiters, TypeOK, RxAlive,
                                      NewId, Ids
    <3>6. QED
      BY <2>3, <3>3, <3>4, <3>5 DEF Corr
  <2>5. CASE ~CanResolve(e)
    <3>1. UNCHANGED <<pending, inbox>>
      BY <1>11, <2>5 DEF ReadLine, ResolveLine
    <3>2. QED
      BY <2>1, <2>3, <3>1, PipesCorr
  <2>6. QED
    BY <2>4, <2>5
<1>12. ASSUME NEW g \in Gens, ReadEof(g) PROVE Corr'
  <2>1. UNCHANGED <<toDaemon, owed, out, pending, inbox, pc>>
    BY <1>12 DEF ReadEof, bridgeVars, daemonVars, callerVars
  <2>2. QED
    BY <2>1, StillCorr
<1>13. ASSUME NEW g \in Gens, MonitorRun(g) PROVE Corr'
  <2>1. UNCHANGED <<toDaemon, owed, out, pc>>
    BY <1>13 DEF MonitorRun, daemonVars
  <2>2. CASE pwriter = Nobody
    <3> DEFINE Held(x) == \E i \in Ids : pending[i] = x
    <3>1. /\ pending' = [i \in Ids |-> Nobody]
          /\ inbox' = [x \in Callers |->
                         IF Held(x)
                         THEN Deliver(x, [kind |-> "NotRunning", src |-> Nobody])
                         ELSE inbox[x]]
      BY <1>13, <2>2 DEF MonitorRun
    <3>2. PendingOwned'
      BY <3>1 DEF PendingOwned, Corr
    <3>3. OwnReply'
      BY <3>1 DEF Corr, OwnReply, TypeOK, Deliver
    <3>4. PendingTracksWaiters'
      <4> SUFFICES ASSUME NEW c \in Callers, pc'[c] \in {"send", "wait"},
                          inbox'[c].kind = "None"
                   PROVE  FALSE
        BY DEF PendingTracksWaiters
      <4>1. pc[c] \in {"send", "wait"} /\ RxAlive(c)
        BY <2>1 DEF RxAlive
      <4>2. CASE inbox[c].kind = "None"
        <5>1. Held(c)
          BY <4>1, <4>2 DEF Corr, PendingTracksWaiters, NewId, Ids
        <5>2. inbox'[c].kind = "NotRunning"
          BY <3>1, <4>1, <5>1 DEF Deliver
        <5>3. QED
          BY <5>2
      <4>3. CASE inbox[c].kind # "None"
        BY <3>1, <4>3 DEF Deliver
      <4>4. QED
        BY <4>2, <4>3
    <3>5. QED
      BY <2>1, <3>2, <3>3, <3>4 DEF Corr, MsgsTagged
  <2>3. CASE pwriter # Nobody
    BY <1>13, <2>1, <2>3, StillCorr DEF MonitorRun
  <2>4. QED
    BY <2>2, <2>3
<1>14. CASE DaemonReadCmd
  <2>1. /\ toDaemon # << >>
        /\ toDaemon' = Tail(toDaemon)
        /\ owed' \in {owed, owed \cup {Head(toDaemon)}}
        /\ UNCHANGED <<out, pending, inbox, pc>>
    BY <1>14 DEF DaemonReadCmd, callerVars
  <2>2. /\ \A k \in 1..Len(Tail(toDaemon)) : Tagged(Tail(toDaemon)[k])
        /\ Tagged(Head(toDaemon))
    BY <2>1, TailTagged DEF TypeOK, Corr, MsgsTagged
  <2>3. MsgsTagged'
    BY <2>1, <2>2 DEF Corr, MsgsTagged
  <2>4. QED
    BY <2>1, <2>3, PipesCorr
<1>15. CASE DaemonReply
  <2>1. PICK m \in owed :
          /\ out' = [out EXCEPT ![gen] = Append(out[gen], [id |-> m.id, src |-> m.src])]
          /\ owed' = owed \ {m}
    BY <1>15 DEF DaemonReply
  <2>2. /\ gen \in Gens
        /\ UNCHANGED <<toDaemon, pending, inbox, pc>>
    BY <1>15 DEF DaemonReply, bridgeVars, callerVars
  <2>3. /\ [id |-> m.id, src |-> m.src] \in Event
        /\ Tagged([id |-> m.id, src |-> m.src])
    BY DEF TypeOK, Cmd, Event, Corr, MsgsTagged, Tagged
  <2>4. \A k \in 1..Len(out'[gen]) : Tagged(out'[gen][k])
    BY <2>1, <2>2, <2>3, AppendTagged DEF TypeOK, Corr, MsgsTagged
  <2>5. MsgsTagged'
    BY <2>1, <2>2, <2>4 DEF Corr, MsgsTagged, TypeOK
  <2>6. QED
    BY <2>2, <2>5, PipesCorr
<1>16. CASE DaemonPush
  <2>1. /\ gen \in Gens
        /\ out' = [out EXCEPT ![gen] = Append(out[gen], [id |-> NoId, src |-> Nobody])]
        /\ UNCHANGED <<toDaemon, owed, pending, inbox, pc>>
    BY <1>16 DEF DaemonPush, bridgeVars, callerVars
  <2>2. /\ [id |-> NoId, src |-> Nobody] \in Event
        /\ Tagged([id |-> NoId, src |-> Nobody])
    BY DEF Event, Tagged, Ids
  <2>3. \A k \in 1..Len(out'[gen]) : Tagged(out'[gen][k])
    BY <2>1, <2>2, AppendTagged DEF TypeOK, Corr, MsgsTagged
  <2>4. MsgsTagged'
    BY <2>1, <2>3 DEF Corr, MsgsTagged, TypeOK
  <2>5. QED
    BY <2>1, <2>4, PipesCorr
<1>17. CASE DaemonExit \/ DaemonStatus \/ StartFails \/ StopFinish
  <2>1. UNCHANGED <<toDaemon, owed, out, pending, inbox, pc>>
    BY <1>17 DEF DaemonExit, DaemonStatus, StartFails, StopFinish, daemonVars,
                 callerVars
  <2>2. QED
    BY <2>1, StillCorr
<1>18. CASE StartSpawns
  <2>1. /\ toDaemon' = << >> /\ owed' = {}
        /\ UNCHANGED <<out, pending, inbox, pc>>
    BY <1>18 DEF StartSpawns, callerVars
  <2>2. MsgsTagged'
    BY <2>1 DEF Corr, MsgsTagged
  <2>3. QED
    BY <2>1, <2>2, PipesCorr
<1>19. CASE StopDaemon
  <2>1. UNCHANGED <<owed, out, pending, inbox, pc>>
    BY <1>19 DEF StopDaemon, callerVars
  <2>2. toDaemon' \in {toDaemon,
                       Append(toDaemon, [cmd |-> "shutdown", id |-> NoId, src |-> Nobody])}
    BY <1>19 DEF StopDaemon
  <2>3. /\ [cmd |-> "shutdown", id |-> NoId, src |-> Nobody] \in Cmd
        /\ Tagged([cmd |-> "shutdown", id |-> NoId, src |-> Nobody])
    BY DEF Cmd, Tagged, Ids
  <2>4. \A k \in 1..Len(toDaemon') : Tagged(toDaemon'[k])
    BY <2>2, <2>3, AppendTagged DEF TypeOK, Corr, MsgsTagged
  <2>5. MsgsTagged'
    BY <2>1, <2>4 DEF Corr, MsgsTagged
  <2>6. QED
    BY <2>1, <2>5, PipesCorr
<1>20. CASE UNCHANGED vars
  <2>1. UNCHANGED <<toDaemon, owed, out, pending, inbox, pc>>
    BY <1>20 DEF vars, bridgeVars, daemonVars, callerVars
  <2>2. QED
    BY <2>1, StillCorr
<1>21. QED
  BY <1>1, <1>2, <1>3, <1>4, <1>5, <1>6, <1>7, <1>8, <1>9, <1>10, <1>11,
     <1>12, <1>13, <1>14, <1>15, <1>16, <1>17, <1>18, <1>19, <1>20
     DEF Next, CallerStep, ThreadStep, DaemonStep, FacadeStep

\* Every reachable state satisfies IInv.
THEOREM CorrInvariant == Spec => []IInv
<1>1. Init => IInv
  BY InitIInv
<1>2. IInv /\ [Next]_vars => IInv'
  BY NextTypeOK, NextCorr DEF IInv
<1>3. QED
  BY <1>1, <1>2, PTL DEF Spec

\* A caller of send_command_async answered Ok is answered with the reply to
\* its own command (read_stdout's pending.remove(id) and sender.send), for
\* every set of callers and every number of spawns and pushes.
THEOREM RepliesReachOwner == Spec => []OwnReply
  BY CorrInvariant, PTL DEF IInv, Corr

\* A registered caller still waiting keeps its sender in pending_responses
\* under its own id: no insert, drain, resolve or timeout of another caller
\* takes it away.
THEOREM WaitersTracked == Spec => []PendingTracksWaiters
  BY CorrInvariant, PTL DEF IInv, Corr

-----------------------------------------------------------------------------
(* The refinement of Correlator *)

\* Before it registers, a caller has no entry and nothing in its receiver.
Unregistered ==
    \A c \in Callers :
        pc[c] \in {"idle", "lock_bridge", "lock_pending", "insert"}
            => pending[c] = Nobody /\ inbox[c] = NoMsg

\* While its entry is in the table, a caller's receiver is empty: a value
\* reaches a receiver only with the removal of its entry.
EntryEmpty == \A c \in Callers : pending[c] = c => inbox[c] = NoMsg

\* An empty receiver is NoMsg (Correlator's Empty).
EmptyIsNoMsg == \A c \in Callers : inbox[c].kind = "None" => inbox[c] = NoMsg

RInv == IInv /\ Unregistered /\ EntryEmpty /\ EmptyIsNoMsg

Extra == Unregistered /\ EntryEmpty /\ EmptyIsNoMsg

PreReg == {"idle", "lock_bridge", "lock_pending", "insert"}

\* A step that leaves the table and the receivers alone and moves no
\* caller back into the phases before registration keeps Extra.
LEMMA FrameExtra ==
  ASSUME TypeOK, Extra, UNCHANGED <<pending, inbox>>,
         \A c \in Callers : pc'[c] \in PreReg => pc[c] \in PreReg
  PROVE  Extra'
  BY DEF Extra, Unregistered, EntryEmpty, EmptyIsNoMsg, PreReg

\* A caller step that only moves the caller forward, never into a phase
\* before registration, keeps Extra.
LEMMA PhaseExtra ==
  ASSUME TypeOK, Extra, NEW c \in Callers, NEW p,
         pc' = [pc EXCEPT ![c] = p],
         pc[c] \in PreReg \/ p \notin PreReg,
         UNCHANGED <<pending, inbox>>
  PROVE  Extra'
  BY FrameExtra DEF TypeOK

LEMMA NextExtra == TypeOK /\ Corr /\ Extra /\ [Next]_vars => Extra'
<1> SUFFICES ASSUME TypeOK, Corr, Extra, [Next]_vars PROVE Extra'
  OBVIOUS
<1>0. TypeOK'
  BY NextTypeOK
<1>2. ASSUME NEW c \in Callers,
             Invoke(c) \/ LockBridge(c) \/ LockPending(c) \/ Receive(c) \/ Timeout(c)
             \/ TimeoutLockBridge(c) \/ TimeoutLockPending(c) \/ SendCommand(c)
      PROVE  Extra'
  <2>1. CASE Invoke(c)
    BY <2>1, PhaseExtra DEF Invoke, PreReg, bridgeVars
  <2>2. CASE LockBridge(c)
    BY <2>2, PhaseExtra DEF LockBridge, PreReg, bridgeVars
  <2>3. CASE LockPending(c)
    BY <2>3, PhaseExtra DEF LockPending, PreReg, bridgeVars
  <2>4. CASE Receive(c)
    BY <2>4, PhaseExtra DEF Receive, PreReg, bridgeVars
  <2>5. CASE Timeout(c)
    BY <2>5, PhaseExtra DEF Timeout, PreReg, bridgeVars
  <2>6. CASE TimeoutLockBridge(c)
    BY <2>6, PhaseExtra DEF TimeoutLockBridge, PreReg, bridgeVars
  <2>7. CASE TimeoutLockPending(c)
    BY <2>7, PhaseExtra DEF TimeoutLockPending, PreReg, bridgeVars
  <2>8. CASE SendCommand(c)
    <3>1. UNCHANGED <<pending, inbox>> /\ pc[c] = "send"
      BY <2>8 DEF SendCommand
    <3>2. \E p \in {"done", "wait"} : pc' = [pc EXCEPT ![c] = p]
      BY <2>8 DEF SendCommand
    <3>3. QED
      BY <3>1, <3>2, PhaseExtra DEF PreReg
  <2>9. QED
    BY <1>2, <2>1, <2>2, <2>3, <2>4, <2>5, <2>6, <2>7, <2>8
<1>3. ASSUME NEW c \in Callers, Register(c) PROVE Extra'
  <2>1. /\ pending' = [pending EXCEPT ![c] = c]
        /\ pc' = [pc EXCEPT ![c] = "send"]
        /\ pc[c] = "insert"
    BY <1>3 DEF Register, Insert, NewId
  <2>2. inbox' = inbox
    BY <1>3 DEF Register, Insert, NewId, PendingOwned, Corr, Ids
  <2>3. inbox[c] = NoMsg
    BY <2>1 DEF Extra, Unregistered
  <2>4. QED
    BY <2>1, <2>2, <2>3 DEF Extra, Unregistered, EntryEmpty, EmptyIsNoMsg, TypeOK
<1>4. ASSUME NEW c \in Callers, TimeoutRemove(c) PROVE Extra'
  <2>1. /\ pending' = [pending EXCEPT ![c] = Nobody]
        /\ pc' = [pc EXCEPT ![c] = "done"]
        /\ inbox' = inbox
    BY <1>4 DEF TimeoutRemove, NewId
  <2>2. QED
    BY <2>1 DEF Extra, Unregistered, EntryEmpty, EmptyIsNoMsg, TypeOK
<1>5. ASSUME NEW g \in Gens, ReadLine(g) PROVE Extra'
  <2> DEFINE e == Head(out[g])
  <2> DEFINE o == pending[e.id]
  <2>1. UNCHANGED pc
    BY <1>5 DEF ReadLine, ResolveLine
  <2>2. CASE CanResolve(e)
    <3>1. /\ pending' = [pending EXCEPT ![e.id] = Nobody]
          /\ inbox' = [inbox EXCEPT ![o] = Deliver(o, [kind |-> "Ok", src |-> e.src])]
      BY <1>5, <2>2 DEF ReadLine, ResolveLine
    <3>2. e.id \in Ids /\ o \in Callers /\ o = e.id
      BY <2>2 DEF CanResolve, Corr, PendingOwned
    <3>3. pc[o] \notin PreReg
      BY <3>2 DEF Extra, Unregistered, PreReg, Ids
    <3>4. inbox'[o] = inbox[o] \/ inbox'[o].kind = "Ok"
      BY <3>1, <3>2 DEF TypeOK, Deliver
    <3>5. QED
      BY <2>1, <3>1, <3>2, <3>3, <3>4
         DEF Extra, Unregistered, EntryEmpty, EmptyIsNoMsg, TypeOK, PreReg, Ids
  <2>3. CASE ~CanResolve(e)
    <3>1. UNCHANGED <<pending, inbox>>
      BY <1>5, <2>3 DEF ReadLine, ResolveLine
    <3>2. QED
      BY <2>1, <3>1, FrameExtra
  <2>4. QED
    BY <2>2, <2>3
<1>6. ASSUME NEW g \in Gens, MonitorRun(g) PROVE Extra'
  <2>1. UNCHANGED pc
    BY <1>6 DEF MonitorRun
  <2>2. CASE pwriter = Nobody
    <3> DEFINE Held(x) == \E i \in Ids : pending[i] = x
    <3>1. /\ pending' = [i \in Ids |-> Nobody]
          /\ inbox' = [x \in Callers |->
                         IF Held(x)
                         THEN Deliver(x, [kind |-> "NotRunning", src |-> Nobody])
                         ELSE inbox[x]]
      BY <1>6, <2>2 DEF MonitorRun
    <3>2. \A x \in Callers : Held(x) => pc[x] \notin PreReg
      BY DEF Corr, PendingOwned, Extra, Unregistered, PreReg, Ids
    <3>3. \A x \in Callers : inbox'[x] = inbox[x] \/ inbox'[x].kind = "NotRunning"
      BY <3>1 DEF Deliver
    <3>4. QED
      BY <2>1, <3>1, <3>2, <3>3
         DEF Extra, Unregistered, EntryEmpty, EmptyIsNoMsg, TypeOK, PreReg, Ids
  <2>3. CASE pwriter # Nobody
    BY <1>6, <2>1, <2>3, FrameExtra DEF MonitorRun
  <2>4. QED
    BY <2>2, <2>3
<1>7. CASE UNCHANGED <<pending, inbox, pc>>
  BY <1>7, FrameExtra
<1>8. DaemonStep \/ FacadeStep \/ (\E g \in Gens : ReadEof(g)) \/ UNCHANGED vars
        => UNCHANGED <<pending, inbox, pc>>
  BY DEF DaemonStep, FacadeStep, ReadEof, DaemonReadCmd, DaemonReply, DaemonPush,
         DaemonExit, DaemonStatus, StartFails, StartSpawns, StopDaemon,
         StopFinish, vars, bridgeVars, callerVars
<1>9. QED
  BY <1>2, <1>3, <1>4, <1>5, <1>6, <1>7, <1>8
     DEF Next, CallerStep, ThreadStep

THEOREM RInvariant == Spec => []RInv
<1>1. Init => RInv
  BY InitIInv DEF Init, RInv, Unregistered, EntryEmpty, EmptyIsNoMsg, NoMsg, Ids
<1>2. RInv /\ [Next]_vars => RInv'
  BY NextTypeOK, NextCorr, NextExtra DEF RInv, IInv, Extra
<1>3. QED
  BY <1>1, <1>2, PTL DEF Spec

AbsSt == [c \in Callers |-> CallState(c)]

\* The state of every call after a step that moves caller c to phase p.
LEMMA StAfter ==
  ASSUME TypeOK, NEW c \in Callers, NEW p, pc' = [pc EXCEPT ![c] = p]
  PROVE  AbsSt' = [AbsSt EXCEPT ![c] = StateOfPc[p]]
  BY DEF AbsSt, CallState, TypeOK

\* A step that leaves every phase, receiver and result alone is a stutter
\* of Correlator.
LEMMA StutterAbs ==
  ASSUME UNCHANGED <<pc, inbox, res>>
  PROVE  UNCHANGED <<AbsSt, inbox, res>>
  BY DEF AbsSt, CallState


\* A caller step between two phases of the same call state is a stutter.
LEMMA SamePhaseStutter ==
  ASSUME TypeOK, NEW c \in Callers, NEW p, pc' = [pc EXCEPT ![c] = p],
         StateOfPc[p] = StateOfPc[pc[c]], UNCHANGED <<inbox, res>>
  PROVE  UNCHANGED <<AbsSt, inbox, res>>
<1>1. AbsSt' = [AbsSt EXCEPT ![c] = StateOfPc[p]]
  BY StAfter
<1>2. AbsSt[c] = StateOfPc[p]
  BY DEF AbsSt, CallState
<1>3. QED
  BY <1>1, <1>2 DEF AbsSt

\* A live receiver belongs to an open call.
LEMMA AliveOpen ==
  ASSUME TypeOK, NEW c \in Callers, RxAlive(c)
  PROVE  AbsSt[c] = "open"
  BY DEF AbsSt, CallState, StateOfPc, RxAlive

LEMMA StateOfPcValues ==
  /\ StateOfPc["idle"] = "idle"
  /\ StateOfPc["lock_bridge"] = "open" /\ StateOfPc["lock_pending"] = "open"
  /\ StateOfPc["insert"] = "open" /\ StateOfPc["send"] = "open"
  /\ StateOfPc["wait"] = "open"
  /\ StateOfPc["t_lock_bridge"] = "expired"
  /\ StateOfPc["t_lock_pending"] = "expired"
  /\ StateOfPc["t_remove"] = "expired"
  /\ StateOfPc["done"] = "done"
  BY DEF StateOfPc

LEMMA InitRefines == Init => Abs!Init
<1> SUFFICES ASSUME Init PROVE Abs!Init
  OBVIOUS
<1>1. \A c \in Callers : pc[c] = "idle"
  BY DEF Init
<1>2. AbsSt = [c \in Callers |-> "idle"]
  BY <1>1, StateOfPcValues DEF AbsSt, CallState
<1>3. inbox = [c \in Callers |-> Abs!Empty] /\ res = [c \in Callers |-> "Pending"]
  BY DEF Init, NoMsg, Abs!Empty
<1>4. QED
  BY <1>2, <1>3 DEF Abs!Init, AbsSt

LEMMA StepRefines == RInv /\ [Next]_vars => [Abs!Next]_<<AbsSt, inbox, res>>
<1> SUFFICES ASSUME RInv, [Next]_vars PROVE [Abs!Next]_<<AbsSt, inbox, res>>
  OBVIOUS
<1>0. TypeOK /\ Corr /\ EntryEmpty /\ EmptyIsNoMsg
  BY DEF RInv, IInv
<1>1. ASSUME NEW c \in Callers, Invoke(c) PROVE [Abs!Next]_<<AbsSt, inbox, res>>
  <2>1. pc' = [pc EXCEPT ![c] = "lock_bridge"] /\ pc[c] = "idle" /\ UNCHANGED <<inbox, res>>
    BY <1>1 DEF Invoke
  <2>2. AbsSt' = [AbsSt EXCEPT ![c] = StateOfPc["lock_bridge"]]
    BY <2>1, <1>0, StAfter
  <2>3. AbsSt[c] = "idle"
    BY <2>1, <1>0, StateOfPcValues DEF AbsSt, CallState
  <2>4. Abs!Call(c)
    BY <2>1, <2>2, <2>3, StateOfPcValues DEF Abs!Call, AbsSt
  <2>5. QED
    BY <2>4 DEF Abs!Next
<1>2. ASSUME NEW c \in Callers,
             LockBridge(c) \/ LockPending(c) \/ TimeoutLockBridge(c) \/ TimeoutLockPending(c)
      PROVE  UNCHANGED <<AbsSt, inbox, res>>
  <2>1. CASE LockBridge(c)
    BY <2>1, <1>0, SamePhaseStutter, StateOfPcValues DEF LockBridge
  <2>2. CASE LockPending(c)
    BY <2>2, <1>0, SamePhaseStutter, StateOfPcValues DEF LockPending
  <2>3. CASE TimeoutLockBridge(c)
    BY <2>3, <1>0, SamePhaseStutter, StateOfPcValues DEF TimeoutLockBridge
  <2>4. CASE TimeoutLockPending(c)
    BY <2>4, <1>0, SamePhaseStutter, StateOfPcValues DEF TimeoutLockPending
  <2>5. QED
    BY <1>2, <2>1, <2>2, <2>3, <2>4
<1>3. ASSUME NEW c \in Callers, Register(c) PROVE UNCHANGED <<AbsSt, inbox, res>>
  <2>1. pc' = [pc EXCEPT ![c] = "send"] /\ pc[c] = "insert" /\ UNCHANGED res
    BY <1>3 DEF Register
  <2>2. inbox' = inbox
    BY <1>0, <1>3 DEF Register, Insert, NewId, PendingOwned, Corr, Ids
  <2>3. QED
    BY <2>1, <2>2, <1>0, SamePhaseStutter, StateOfPcValues

<1>4. ASSUME NEW c \in Callers, SendCommand(c) PROVE [Abs!Next]_<<AbsSt, inbox, res>>
  <2>1. UNCHANGED inbox /\ pc[c] = "send"
    BY <1>4 DEF SendCommand
  <2>2. CASE ~stdin \/ (stdin /\ proc[gen] = "dead")
    <3>1. /\ pc' = [pc EXCEPT ![c] = "done"]
          /\ \E r \in {"NotRunning", "SendError"} : res' = [res EXCEPT ![c] = r]
      BY <1>4, <2>2 DEF SendCommand
    <3>2. AbsSt' = [AbsSt EXCEPT ![c] = "done"] /\ AbsSt[c] = "open"
      <4>1. AbsSt' = [AbsSt EXCEPT ![c] = StateOfPc[pc'[c]]]
        BY <2>1, <3>1, <1>0, StAfter DEF TypeOK
      <4>2. QED
        BY <4>1, <2>1, <3>1, <1>0, StateOfPcValues DEF AbsSt, CallState, TypeOK
    <3>3. Abs!FailSend(c)
      BY <2>1, <3>1, <3>2 DEF Abs!FailSend, AbsSt
    <3>4. QED
      BY <3>3 DEF Abs!Next
  <2>3. CASE stdin /\ proc[gen] = "alive"
    <3>1. pc' = [pc EXCEPT ![c] = "wait"] /\ UNCHANGED res
      BY <1>4, <2>3 DEF SendCommand
    <3>2. QED
      BY <2>1, <3>1, <1>0, SamePhaseStutter, StateOfPcValues
  <2>4. ~stdin \/ (stdin /\ proc[gen] = "dead") \/ (stdin /\ proc[gen] = "alive")
    BY <1>4 DEF SendCommand
  <2>5. QED
    BY <2>2, <2>3, <2>4
<1>5. ASSUME NEW c \in Callers, Receive(c) PROVE [Abs!Next]_<<AbsSt, inbox, res>>
  <2>1. /\ pc' = [pc EXCEPT ![c] = "done"] /\ pc[c] = "wait"
        /\ inbox[c].kind # "None" /\ UNCHANGED inbox
    BY <1>5 DEF Receive
  <2>2. res' = [res EXCEPT ![c] = Abs!ResultOf(inbox[c])]
    BY <1>5, Zenon DEF Receive, Abs!ResultOf
  <2>3. AbsSt' = [AbsSt EXCEPT ![c] = "done"] /\ AbsSt[c] = "open"
    <3>1. AbsSt' = [AbsSt EXCEPT ![c] = StateOfPc[pc'[c]]]
      BY <2>1, <1>0, StAfter DEF TypeOK
    <3>2. QED
      BY <3>1, <2>1, <1>0, StateOfPcValues DEF AbsSt, CallState, TypeOK
  <2>4. inbox[c] # Abs!Empty
    BY <2>1 DEF Abs!Empty
  <2>5. Abs!Return(c)
    BY <2>1, <2>2, <2>3, <2>4 DEF Abs!Return, AbsSt
  <2>6. QED
    BY <2>5 DEF Abs!Next
<1>6. ASSUME NEW c \in Callers, Timeout(c) PROVE [Abs!Next]_<<AbsSt, inbox, res>>
  <2>1. /\ pc' = [pc EXCEPT ![c] = "t_lock_bridge"] /\ pc[c] = "wait"
        /\ inbox[c].kind = "None" /\ UNCHANGED <<inbox, res>>
    BY <1>6 DEF Timeout
  <2>2. inbox[c] = Abs!Empty
    BY <1>0, <2>1 DEF EmptyIsNoMsg, NoMsg, Abs!Empty
  <2>3. AbsSt' = [AbsSt EXCEPT ![c] = "expired"] /\ AbsSt[c] = "open"
    <3>1. AbsSt' = [AbsSt EXCEPT ![c] = StateOfPc[pc'[c]]]
      BY <2>1, <1>0, StAfter DEF TypeOK
    <3>2. QED
      BY <3>1, <2>1, <1>0, StateOfPcValues DEF AbsSt, CallState, TypeOK
  <2>4. Abs!Expire(c)
    BY <2>1, <2>2, <2>3 DEF Abs!Expire, AbsSt
  <2>5. QED
    BY <2>4 DEF Abs!Next
<1>7. ASSUME NEW c \in Callers, TimeoutRemove(c) PROVE [Abs!Next]_<<AbsSt, inbox, res>>
  <2>1. /\ pc' = [pc EXCEPT ![c] = "done"] /\ pc[c] = "t_remove"
        /\ res' = [res EXCEPT ![c] = "Timeout"] /\ UNCHANGED inbox
    BY <1>7 DEF TimeoutRemove
  <2>2. AbsSt' = [AbsSt EXCEPT ![c] = "done"] /\ AbsSt[c] = "expired"
    <3>1. AbsSt' = [AbsSt EXCEPT ![c] = StateOfPc[pc'[c]]]
      BY <2>1, <1>0, StAfter DEF TypeOK
    <3>2. QED
      BY <3>1, <2>1, <1>0, StateOfPcValues DEF AbsSt, CallState, TypeOK
  <2>3. Abs!ReturnTimeout(c)
    BY <2>1, <2>2 DEF Abs!ReturnTimeout, AbsSt
  <2>4. QED
    BY <2>3 DEF Abs!Next
<1>8. ASSUME NEW g \in Gens, ReadLine(g) PROVE [Abs!Next]_<<AbsSt, inbox, res>>
  <2> DEFINE e == Head(out[g])
  <2> DEFINE o == pending[e.id]
  <2> DEFINE m == [kind |-> "Ok", src |-> e.src]
  <2>1. UNCHANGED <<pc, res>>
    BY <1>8 DEF ReadLine, ResolveLine
  <2>2. UNCHANGED AbsSt
    BY <2>1 DEF AbsSt, CallState
  <2>3. CASE CanResolve(e)
    <3>1. inbox' = [inbox EXCEPT ![o] = Deliver(o, m)]
      BY <1>8, <2>3 DEF ReadLine, ResolveLine
    <3>2. e.id \in Ids /\ o \in Callers /\ o = e.id /\ e.src = e.id
      <4>1. out[g] \in Seq(Event) /\ out[g] # << >>
            /\ \A k \in 1..Len(out[g]) : Tagged(out[g][k])
        BY <1>0, <1>8 DEF TypeOK, Corr, MsgsTagged, ReadLine, ResolveLine
      <4>2. Tagged(e)
        BY <4>1, TailTagged
      <4>3. QED
        BY <2>3, <4>2, <1>0 DEF CanResolve, Corr, PendingOwned, Tagged
    <3>3. CASE RxAlive(o)
      <4>1. inbox' = [inbox EXCEPT ![o] = m]
        BY <3>1, <3>3 DEF Deliver
      <4>2. AbsSt[o] = "open" /\ inbox[o] = Abs!Empty
        BY <3>2, <3>3, <1>0, AliveOpen DEF EntryEmpty, NoMsg, Abs!Empty
      <4>3. m \in Abs!Values(o)
        BY <3>2 DEF Abs!Values
      <4>4. Abs!Deliver(o)
        BY <2>1, <2>2, <4>1, <4>2, <4>3 DEF Abs!Deliver, AbsSt
      <4>5. QED
        BY <3>2, <4>4 DEF Abs!Next
    <3>4. CASE ~RxAlive(o)
      <4>1. inbox' = inbox
        BY <3>1, <3>2, <3>4, <1>0 DEF Deliver, TypeOK
      <4>2. QED
        BY <2>1, <2>2, <4>1
    <3>5. QED
      BY <3>3, <3>4
  <2>4. CASE ~CanResolve(e)
    BY <1>8, <2>4, <2>1, <2>2 DEF ReadLine, ResolveLine
  <2>5. QED
    BY <2>3, <2>4
<1>9. ASSUME NEW g \in Gens, MonitorRun(g) PROVE [Abs!Next]_<<AbsSt, inbox, res>>
  <2>1. UNCHANGED <<pc, res>>
    BY <1>9 DEF MonitorRun
  <2>2. UNCHANGED AbsSt
    BY <2>1 DEF AbsSt, CallState
  <2>3. CASE pwriter = Nobody
    <3> DEFINE Held(x) == \E i \in Ids : pending[i] = x
    <3> DEFINE NR == [kind |-> "NotRunning", src |-> Nobody]
    <3> DEFINE S == {x \in Callers : Held(x) /\ RxAlive(x)}
    <3>1. inbox' = [x \in Callers |-> IF Held(x) THEN Deliver(x, NR) ELSE inbox[x]]
      BY <1>9, <2>3 DEF MonitorRun
    <3>2. inbox' = [x \in Callers |-> IF x \in S THEN NR ELSE inbox[x]]
      BY <3>1, <1>0 DEF Deliver, TypeOK
    <3>3. CASE S = {}
      <4>1. inbox' = inbox
        BY <3>2, <3>3, <1>0 DEF TypeOK
      <4>2. QED
        BY <2>1, <2>2, <4>1
    <3>4. CASE S # {}
      <4>1. \A x \in S : AbsSt[x] = "open" /\ inbox[x] = Abs!Empty
        <5> SUFFICES ASSUME NEW x \in S PROVE AbsSt[x] = "open" /\ inbox[x] = Abs!Empty
          OBVIOUS
        <5>1. pending[x] = x
          BY <1>0 DEF Corr, PendingOwned, Ids
        <5>2. QED
          BY <5>1, <1>0, AliveOpen DEF EntryEmpty, NoMsg, Abs!Empty
      <4>2. Abs!FailAll(S)
        BY <2>1, <2>2, <3>2, <3>4, <4>1 DEF Abs!FailAll, AbsSt
      <4>3. QED
        BY <4>2 DEF Abs!Next
    <3>5. QED
      BY <3>3, <3>4
  <2>4. CASE pwriter # Nobody
    BY <1>9, <2>1, <2>2, <2>4 DEF MonitorRun
  <2>5. QED
    BY <2>3, <2>4
<1>10. CASE (\E g \in Gens : ReadEof(g)) \/ DaemonStep \/ FacadeStep \/ UNCHANGED vars
  <2>1. UNCHANGED <<pc, inbox, res>>
    BY <1>10 DEF DaemonStep, FacadeStep, ReadEof, DaemonReadCmd, DaemonReply,
                 DaemonPush, DaemonExit, DaemonStatus, StartFails, StartSpawns,
                 StopDaemon, StopFinish, vars, bridgeVars, callerVars
  <2>2. QED
    BY <2>1, StutterAbs
<1>11. QED
  BY <1>1, <1>2, <1>3, <1>4, <1>5, <1>6, <1>7, <1>8, <1>9, <1>10
     DEF Next, CallerStep, ThreadStep

\* The bridge implements the abstract correlator: every behaviour of
\* send_command_async, read_stdout, the shutdown monitor and the facade is
\* a behaviour of Correlator, for every set of callers and every bound.
THEOREM Refinement == Spec => ImplementsCorrelator
<1>1. Init => Abs!Init
  BY InitRefines
<1>2. RInv /\ [Next]_vars => [Abs!Next]_<<AbsSt, inbox, res>>
  BY StepRefines
<1>3. QED
  BY <1>1, <1>2, RInvariant, PTL DEF Spec, ImplementsCorrelator, Abs!Spec, AbsSt

=============================================================================
