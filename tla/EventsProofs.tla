---------------------------- MODULE EventsProofs ----------------------------
(***************************************************************************)
(* Machine-checked proofs about BridgeEvents, the event path composed with *)
(* the daemon bridge, for every value of the constants that ConstAssumption *)
(* allows.  The bridge's own steps are discharged with the lemmas of       *)
(* DaemonBridgeProofs.                                                     *)
(***************************************************************************)
EXTENDS BridgeEvents, DaemonBridgeProofs

USE ConstAssumption

-----------------------------------------------------------------------------
(* Type correctness *)

\* Every step of the composition except EvReadLineClosed is, on the
\* bridge's variables, a step of DaemonBridge.
LEMMA BridgePart ==
  ASSUME [EvNext]_allVars
  PROVE  \/ [Next]_vars
         \/ \E g \in Gens : EvReadLineClosed(g)
<1>1. ASSUME NEW g \in Gens, EvThreadStep(g)
      PROVE  [Next]_vars \/ EvReadLineClosed(g)
  BY <1>1 DEF EvThreadStep, EvReadLine, Next, ThreadStep
<1>2. EvStartRefused \/ EvStartSpawnFails \/ EvStartSpawns => [Next]_vars
  BY DEF EvStartRefused, EvStartSpawnFails, EvStartSpawns, Next, FacadeStep
<1>3. ASSUME NEW t \in Gens, FwdStep(t) PROVE UNCHANGED vars
  BY <1>3 DEF FwdStep
<1>4. QED
  BY <1>1, <1>2, <1>3 DEF EvNext, Next, FacadeStep, allVars

\* Storing a receiver in the slot drops the one it held, with its events.
LEMMA StoreRxTypeOK ==
  ASSUME EvTypeOK, NEW ch \in Receivers, StoreRx(ch)
  PROVE  slot' \in Receivers /\ chq' \in [Gens -> Nat] /\ lost' \in Nat
  BY DEF StoreRx, EvTypeOK

LEMMA EvInitTypeOK == EvInit => EvTypeOK
  BY InitTypeOK DEF EvInit, EvTypeOK, Receivers, NoRx

LEMMA EvNextTypeOK == EvTypeOK /\ [EvNext]_allVars => EvTypeOK'
<1> SUFFICES ASSUME EvTypeOK, [EvNext]_allVars PROVE EvTypeOK'
  OBVIOUS
<1>0. TypeOK
  BY DEF EvTypeOK
<1>1. TypeOK'
  <2>1. CASE [Next]_vars
    BY <1>0, <2>1, NextTypeOK
  <2>2. ASSUME NEW g \in Gens, EvReadLineClosed(g) PROVE TypeOK'
    <3>1. reader' \in [Gens -> {"idle", "run", "exit"}] /\ monitor' = monitor
      BY <1>0, <2>2 DEF EvReadLineClosed, TypeOK
    <3>2. QED
      BY <1>0, <2>2, <3>1, ResolveLineTypeOK DEF EvReadLineClosed, TypeOK
  <2>3. QED
    BY <2>1, <2>2, BridgePart
<1>2. CASE UNCHANGED evVars
  BY <1>1, <1>2 DEF EvTypeOK, evVars
<1>3. ASSUME NEW g \in Gens, EvReadLine(g) PROVE EvTypeOK'
  BY <1>1, <1>3 DEF EvReadLine, EvTypeOK
<1>4. ASSUME NEW g \in Gens, EvReadLineClosed(g) PROVE EvTypeOK'
  BY <1>1, <1>4 DEF EvReadLineClosed, EvTypeOK
<1>5. CASE EvStartSpawnFails
  <2>1. DeadRx \in Receivers
    BY DEF Receivers
  <2>2. QED
    BY <1>1, <1>5, <2>1, StoreRxTypeOK DEF EvStartSpawnFails, EvTypeOK
<1>6. CASE EvStartSpawns
  <2>1. gen \in 0..MaxSpawns - 1 /\ gen + 1 \in Gens
    BY <1>0, <1>6 DEF EvStartSpawns, StartSpawns, TypeOK, Gens
  <2>2. gen + 1 \in Receivers
    BY <2>1 DEF Receivers
  <2>3. /\ slot' \in Receivers /\ chq' \in [Gens -> Nat] /\ lost' \in Nat
    BY <1>6, <2>2, StoreRxTypeOK DEF EvStartSpawns
  <2>4. /\ evTx' = gen + 1
        /\ fwd' = [fwd EXCEPT ![gen + 1] = "spawned"]
        /\ fwdRx' = fwdRx
    BY <1>6 DEF EvStartSpawns
  <2>5. QED
    BY <1>1, <2>1, <2>3, <2>4 DEF EvTypeOK
<1>7. ASSUME NEW t \in Gens, FwdTake(t) PROVE EvTypeOK'
  BY <1>1, <1>7 DEF FwdTake, EvTypeOK, Receivers, NoRx
<1>8. ASSUME NEW t \in Gens, FwdEmit(t) PROVE EvTypeOK'
  BY <1>1, <1>8 DEF FwdEmit, EvTypeOK
<1>9. ASSUME NEW t \in Gens, FwdExit(t) PROVE EvTypeOK'
  BY <1>1, <1>9 DEF FwdExit, EvTypeOK
<1>10. QED
  BY <1>2, <1>3, <1>4, <1>5, <1>6, <1>7, <1>8, <1>9
  DEF EvNext, EvThreadStep, EvStartRefused, FwdStep, allVars, evVars

\* Every reachable state of the composition is well typed: the slot, the
\* bridge's event_tx, the channel buffers, the forwarder tasks and the count
\* of dropped events, besides the bridge itself.
THEOREM EvTypeCorrect == EvSpec => []EvTypeOK
  BY EvInitTypeOK, EvNextTypeOK, PTL DEF EvSpec

=============================================================================
