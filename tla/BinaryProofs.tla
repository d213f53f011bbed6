---------------------------- MODULE BinaryProofs ----------------------------
(***************************************************************************)
(* Proofs about BinaryOperations, for any number of operations, any plugin *)
(* set and any limits.                                                     *)
(***************************************************************************)
EXTENDS BinaryOperations, EngineProofs

(***************************************************************************)
(* Type correctness.                                                       *)
(***************************************************************************)

\* Every step keeps the state well typed.
LEMMA TypeStep == TypeOK /\ [Next]_vars => TypeOK'
  <1> SUFFICES ASSUME TypeOK, [Next]_vars PROVE TypeOK'
    OBVIOUS
  <1> USE DEF TypeOK
  <1>0. /\ {"live", "expired", "aborted"} = Signals
        /\ {"idle", "retry", "awaiting", "resolved", "rejected", "delay", "finish",
            "auditing", "audited", "failing", "refused", "ok", "failed"} \subseteq PCs
    BY DEF PCs, Running, Settling, Signals
  <1>g. ASSUME NEW o \in Requests, NEW to \in PCs, Goto(o, to)
        PROVE  pc' \in [Requests -> PCs]
    BY <1>g DEF Goto
  <1>1. CASE UNCHANGED vars
    BY <1>1, SameTableType DEF vars, opVars
  <1>2. CASE Configure
    BY <1>2, ReconfigureType DEF Configure, Reconfigure, opVars
  <1>3. ASSUME NEW o \in Requests, NEW m \in {"process", "reverse"}, Refuse(o, m)
        PROVE TypeOK'
    BY <1>0, <1>3, <1>g, SameTableType DEF Refuse
  <1>4. ASSUME NEW o \in Requests, NEW m \in {"process", "reverse"}, Call(o, m)
        PROVE TypeOK'
    <2>1. EngineTypeOK'
      BY <1>4, StartType DEF Call
    <2>2. plugins \in Seq(PluginIds) /\ limits.maxRetryAttempts \in Nat
      BY EngineAssumption DEF EngineTypeOK
    <2>3. pc' \in [Requests -> PCs]
      BY <1>0, <1>4, <1>g DEF Call
    <2>4. QED
      BY <1>4, <2>1, <2>2, <2>3 DEF Call
  <1>5. ASSUME NEW o \in Requests, Attempt(o) PROVE TypeOK'
    <2>1. EngineTypeOK'
      <3>1. CASE UNCHANGED tableVars
        BY <1>5, <3>1, SameTableType DEF Attempt, engineVars, configVars, tableVars
      <3>2. CASE TrackWork(o, started[o] + 1)
        BY <1>5, <3>2, TrackType DEF Attempt
      <3>3. QED
        BY <1>5, <3>1, <3>2 DEF Attempt
    <2>2. pc' \in [Requests -> PCs]
      BY <1>0, <1>5, <1>g DEF Attempt
    <2>3. started' \in [Requests -> Nat]
      <3>1. started' = started \/ started' = [started EXCEPT ![o] = @ + 1]
        BY <1>5 DEF Attempt
      <3>2. [started EXCEPT ![o] = @ + 1] \in [Requests -> Nat]
        OBVIOUS
      <3>3. QED
        BY <3>1, <3>2
    <2>4. QED
      BY <1>5, <2>1, <2>2, <2>3 DEF Attempt
  <1>6. ASSUME NEW o \in Requests, Rejected(o) PROVE TypeOK'
    <2>1. EngineTypeOK'
      BY <1>6, SameTableType DEF Rejected
    <2>2. pc' \in [Requests -> PCs]
      BY <1>0, <1>6, <1>g DEF Rejected
    <2>3. attempt' \in [Requests -> Nat]
      <3>1. attempt' = attempt \/ attempt' = [attempt EXCEPT ![o] = @ + 1]
        BY <1>6, Zenon DEF Rejected
      <3>2. [attempt EXCEPT ![o] = @ + 1] \in [Requests -> Nat]
        OBVIOUS
      <3>3. QED
        BY <3>1, <3>2
    <2>4. QED
      BY <1>6, <2>1, <2>2, <2>3 DEF Rejected
  <1>7. ASSUME NEW o \in Requests, DelayElapsed(o) PROVE TypeOK'
    BY <1>0, <1>7, <1>g, SameTableType DEF DelayElapsed
  <1>8. ASSUME NEW o \in Requests, Resolved(o) PROVE TypeOK'
    <2>1. EngineTypeOK'
      BY <1>8, SameTableType DEF Resolved
    <2>2. pc' \in [Requests -> PCs]
      BY <1>0, <1>8, <1>g DEF Resolved
    <2>3. step' \in [Requests -> Nat \ {0}] /\ attempt' \in [Requests -> Nat]
      <3>1. \/ step' = step /\ attempt' = attempt
            \/ /\ step' = [step EXCEPT ![o] = @ + 1]
               /\ attempt' = [attempt EXCEPT ![o] = 0]
        BY <1>8 DEF Resolved
      <3>2. /\ [step EXCEPT ![o] = @ + 1] \in [Requests -> Nat \ {0}]
            /\ [attempt EXCEPT ![o] = 0] \in [Requests -> Nat]
        OBVIOUS
      <3>3. QED
        BY <3>1, <3>2
    <2>4. QED
      BY <1>8, <2>1, <2>2, <2>3 DEF Resolved
  <1>9. ASSUME NEW o \in Requests, Audit(o) PROVE TypeOK'
    <2>1. EngineTypeOK'
      <3>1. CASE UNCHANGED tableVars
        BY <1>9, <3>1, SameTableType DEF Audit, engineVars, configVars, tableVars
      <3>2. CASE TrackWork(o, started[o] + 1)
        BY <1>9, <3>2, TrackType DEF Audit
      <3>3. QED
        BY <1>9, <3>1, <3>2 DEF Audit
    <2>2. pc' \in [Requests -> PCs]
      BY <1>0, <1>9, <1>g DEF Audit
    <2>3. audit' \in [Requests -> SUBSET Seq(PluginIds)]
      <3>1. \A record \in {{}, {AuditChain(o)}} : record \in SUBSET Seq(PluginIds)
        BY AuditChainType
      <3>2. QED
        BY <1>9, <3>1 DEF Audit
    <2>4. started' \in [Requests -> Nat]
      BY <1>9 DEF Audit
    <2>5. QED
      BY <1>9, <2>1, <2>2, <2>3, <2>4 DEF Audit
  <1>10. ASSUME NEW o \in Requests, Complete(o) PROVE TypeOK'
    <2>1. EngineTypeOK'
      <3>1. CASE UNCHANGED tableVars
        BY <1>10, <3>1, SameTableType DEF Complete, engineVars, configVars, tableVars
      <3>2. CASE ReleaseRequest(o)
        BY <1>10, <3>2, ReleaseType DEF Complete
      <3>3. QED
        BY <1>10, <3>1, <3>2 DEF Complete
    <2>2. pc' \in [Requests -> PCs]
      BY <1>0, <1>10, <1>g DEF Complete
    <2>3. QED
      BY <1>10, <2>1, <2>2 DEF Complete
  <1>11. ASSUME NEW o \in Requests, Fail(o) PROVE TypeOK'
    BY <1>0, <1>11, <1>g, ReleaseType DEF Fail
  <1>r. ASSUME NEW o \in Requests, OnReject(o) PROVE pc' \in [Requests -> PCs]
    BY <1>0, <1>r, <1>g DEF OnReject
  <1>12. ASSUME NEW o \in Requests, Abort(o) PROVE TypeOK'
    BY <1>0, <1>12, <1>r, SameTableType DEF Abort
  <1>13. ASSUME NEW o \in Requests, Expire(o) PROVE TypeOK'
    BY <1>0, <1>13, SameTableType DEF Expire
  <1>14. ASSUME NEW o \in Requests, DeadlineTimer(o) PROVE TypeOK'
    BY <1>14, <1>r, SameTableType DEF DeadlineTimer
  <1>15. ASSUME NEW o \in Requests, NEW w \in pending[o], NEW fulfilled \in BOOLEAN,
                PromiseSettles(o, w, fulfilled)
         PROVE TypeOK'
    <2>1. EngineTypeOK'
      BY <1>15, SettledType DEF PromiseSettles
    <2>2. pc' \in [Requests -> PCs]
      BY <1>0, <1>15, <1>g, <1>r DEF PromiseSettles
    <2>3. QED
      BY <1>15, <2>1, <2>2 DEF PromiseSettles
  <1>16. QED
    BY <1>1, <1>2, <1>3, <1>4, <1>5, <1>6, <1>7, <1>8, <1>9, <1>10, <1>11, <1>12,
       <1>13, <1>14, <1>15 DEF Next, Advance

\* The state of the engine and of its binary operations is always well typed.
THEOREM TypeCorrect == Spec => []TypeOK
  <1>1. Init => TypeOK
    BY EngineAssumption DEF Init, EngineInit, TypeOK, EngineTypeOK, PCs, Signals
  <1>2. QED
    BY <1>1, TypeStep, PTL DEF Spec
(***************************************************************************)
(* The inductive invariant.  None of the safety properties is inductive:   *)
(* that pending work keeps its capacity depends on where the operation is, *)
(* on which promise it started last, and on a rejected attempt being       *)
(* retried only when its promise has really settled.                       *)
(***************************************************************************)

\* Capacity is held exactly by running operations and by answered ones whose
\* work has not settled; the latter are the finished requests.
Holding(o) ==
    /\ o \in active <=> pc[o] \in Running \/ (pc[o] \in Settling /\ pending[o] # {})
    /\ o \in finished <=> pc[o] \in Settling /\ pending[o] # {}

\* Only the last promise an operation started can be pending, and only where
\* the operation waits for it or has given up waiting for it.
OwnWork(o) ==
    /\ pending[o] \subseteq {started[o]}
    /\ pc[o] \in {"idle", "refused", "retry", "delay", "resolved", "finish", "audited", "ok"}
          => pending[o] = {}
    /\ pc[o] = "rejected" /\ Live(o) => pending[o] = {}

\* The plugins are executed one after the other, and an audit record is
\* written only after the last one.
Executed(o) ==
    /\ pc[o] = "idle" => step[o] = 1
    /\ pc[o] \in {"retry", "awaiting", "resolved", "rejected", "delay"}
          => step[o] <= Len(chain[o])
    /\ pc[o] \in {"finish", "auditing", "audited", "ok"} => step[o] = Len(chain[o]) + 1
    /\ audit[o] # {} => pc[o] \in {"auditing", "audited", "failing", "ok", "failed"}
    /\ \A c \in audit[o] : c = chain[o] /\ step[o] = Len(c) + 1

\* The pipeline remembered for a request is the one it executes.
Snapshot(o) ==
    /\ o \in DOMAIN requestPipelines <=> o \in active
    /\ o \in active => requestPipelines[o] = chain[o]

OpInv(o) == Holding(o) /\ OwnWork(o) /\ Executed(o) /\ Snapshot(o)

IInv ==
    /\ TypeOK
    /\ CapacityBound
    /\ \A o \in Requests : OpInv(o)
\* What a step leaves alone of an operation that does not take it.
Same(q) ==
    /\ pc'[q] = pc[q] /\ chain'[q] = chain[q] /\ step'[q] = step[q]
    /\ started'[q] = started[q] /\ signal'[q] = signal[q] /\ audit'[q] = audit[q]
    /\ SameRequest(q)

\* The invariant of an operation survives the steps of the others.
LEMMA Frame ==
    ASSUME NEW q \in Requests, OpInv(q), Same(q)
    PROVE  OpInv(q)'
  <1>1. Holding(q)'
    BY DEF OpInv, Holding, Same, SameRequest
  <1>2. OwnWork(q)'
    BY DEF OpInv, OwnWork, Same, SameRequest, Live
  <1>3. Executed(q)'
    BY DEF OpInv, Executed, Same
  <1>4. Snapshot(q)'
    BY DEF OpInv, Snapshot, Same, SameRequest
  <1>5. QED
    BY <1>1, <1>2, <1>3, <1>4 DEF OpInv

\* A step of one operation preserves the invariant of all when it preserves
\* its own and leaves the others alone.
LEMMA Local ==
    ASSUME \A q \in Requests : OpInv(q), NEW o \in Requests, OpInv(o)',
           \A q \in Requests \ {o} : Same(q)
    PROVE  \A q \in Requests : OpInv(q)'
  BY Frame

\* A step of an operation: a call, a continuation, an abort, the clock, the
\* deadline timer, or one of its promises.
StepOf(o) ==
    \/ \E m \in {"process", "reverse"} : Refuse(o, m) \/ Call(o, m)
    \/ Advance(o) \/ Abort(o) \/ Expire(o) \/ DeadlineTimer(o)
    \/ \E w \in pending[o], fulfilled \in BOOLEAN : PromiseSettles(o, w, fulfilled)

\* An operation changes the table only through the engine methods, for itself.
LEMMA StepOnTable ==
    ASSUME TypeOK, NEW o \in Requests, StepOf(o)
    PROVE  TableStep(o)
  <1>1. started[o] + 1 \in Nat \ {0} /\ pending[o] \subseteq Nat \ {0}
    BY DEF TypeOK, EngineTypeOK
  <1>2. QED
    BY <1>1 DEF StepOf, TableStep, Refuse, Call, Advance, Attempt, Rejected, DelayElapsed,
                Resolved, Audit, Complete, Fail, Abort, Expire, DeadlineTimer,
                PromiseSettles, engineVars, tableVars

\* Every step of an operation leaves the other operations alone.
LEMMA OthersSame ==
    ASSUME TypeOK, NEW o \in Requests, NEW q \in Requests \ {o},
           StepOf(o)
    PROVE  Same(q)
  <1> DEFINE SameOp == /\ pc'[q] = pc[q] /\ chain'[q] = chain[q] /\ step'[q] = step[q]
                       /\ started'[q] = started[q] /\ signal'[q] = signal[q]
                       /\ audit'[q] = audit[q]
  <1> USE DEF TypeOK, Goto
  <1>1. SameOp
    <2>1. ASSUME NEW m, Refuse(o, m) PROVE SameOp
      BY <2>1 DEF Refuse
    <2>2. ASSUME NEW m, Call(o, m) PROVE SameOp
      BY <2>2 DEF Call
    <2>3. CASE Attempt(o)
      BY <2>3 DEF Attempt
    <2>4. CASE Rejected(o)
      BY <2>4 DEF Rejected
    <2>5. CASE DelayElapsed(o)
      BY <2>5 DEF DelayElapsed
    <2>6. CASE Resolved(o)
      BY <2>6 DEF Resolved
    <2>7. CASE Audit(o)
      BY <2>7 DEF Audit
    <2>8. CASE Complete(o)
      BY <2>8 DEF Complete
    <2>9. CASE Fail(o)
      BY <2>9 DEF Fail
    <2>10. CASE Abort(o)
      BY <2>10 DEF Abort, OnReject
    <2>11. CASE Expire(o)
      BY <2>11 DEF Expire
    <2>12. CASE DeadlineTimer(o)
      BY <2>12 DEF DeadlineTimer, OnReject
    <2>13. ASSUME NEW w, NEW fulfilled, PromiseSettles(o, w, fulfilled) PROVE SameOp
      BY <2>13 DEF PromiseSettles, OnReject
    <2>14. QED
      BY <2>1, <2>2, <2>3, <2>4, <2>5, <2>6, <2>7, <2>8, <2>9, <2>10, <2>11, <2>12,
         <2>13 DEF Advance, StepOf
  <1>2. SameRequest(q)
    <2>1. TableStep(o)
      BY StepOnTable
    <2>2. QED
      BY <2>1, OtherRequests
  <1>3. QED
    BY <1>1, <1>2 DEF Same

\* Every step of an operation preserves its own part of the invariant.
LEMMA OwnStep ==
    ASSUME TypeOK, NEW o \in Requests, OpInv(o),
           StepOf(o)
    PROVE  OpInv(o)'
  <1> USE DEF TypeOK, EngineTypeOK, OpInv, Goto, Live, Running, Settling
  <1>1. ASSUME NEW m \in {"process", "reverse"}, Refuse(o, m) PROVE OpInv(o)'
    <2>1. Holding(o)'
      BY <1>1 DEF Holding, OwnWork, Refuse, engineVars
    <2>2. OwnWork(o)'
      BY <1>1 DEF OwnWork, Refuse, engineVars
    <2>3. Executed(o)'
      BY <1>1 DEF Executed, Holding, Snapshot, Refuse, engineVars
    <2>4. Snapshot(o)'
      BY <1>1 DEF Holding, OwnWork, Snapshot, Refuse, engineVars
    <2>5. QED
      BY <2>1, <2>2, <2>3, <2>4
  <1>2. ASSUME NEW m \in {"process", "reverse"}, Call(o, m) PROVE OpInv(o)'
    <2>1. Holding(o)'
      BY <1>2 DEF Holding, OwnWork, Call, StartRequest
    <2>2. OwnWork(o)'
      BY <1>2 DEF OwnWork, Call, StartRequest
    <2>3. Executed(o)'
      BY <1>2 DEF Executed, Holding, Snapshot, Call, StartRequest
    <2>4. Snapshot(o)'
      BY <1>2 DEF Holding, OwnWork, Snapshot, Call, StartRequest
    <2>5. QED
      BY <2>1, <2>2, <2>3, <2>4
  <1>3. ASSUME Attempt(o) PROVE OpInv(o)'
    <2>1. Holding(o)'
      BY <1>3 DEF Holding, OwnWork, Attempt, TrackWork, tableVars
    <2>2. OwnWork(o)'
      BY <1>3 DEF OwnWork, Attempt, TrackWork, tableVars
    <2>3. Executed(o)'
      BY <1>3 DEF Executed, Holding, Snapshot, Attempt, TrackWork, tableVars
    <2>4. Snapshot(o)'
      BY <1>3 DEF Holding, OwnWork, Snapshot, Attempt, TrackWork, tableVars
    <2>5. QED
      BY <2>1, <2>2, <2>3, <2>4
  <1>4. ASSUME Rejected(o) PROVE OpInv(o)'
    <2>1. Holding(o)'
      BY <1>4 DEF Holding, OwnWork, Rejected, engineVars
    <2>2. OwnWork(o)'
      BY <1>4 DEF OwnWork, Rejected, engineVars
    <2>3. Executed(o)'
      BY <1>4 DEF Executed, Holding, Snapshot, Rejected, engineVars
    <2>4. Snapshot(o)'
      BY <1>4 DEF Holding, OwnWork, Snapshot, Rejected, engineVars
    <2>5. QED
      BY <2>1, <2>2, <2>3, <2>4
  <1>5. ASSUME DelayElapsed(o) PROVE OpInv(o)'
    <2>1. Holding(o)'
      BY <1>5 DEF Holding, OwnWork, DelayElapsed, engineVars
    <2>2. OwnWork(o)'
      BY <1>5 DEF OwnWork, DelayElapsed, engineVars
    <2>3. Executed(o)'
      BY <1>5 DEF Executed, Holding, Snapshot, DelayElapsed, engineVars
    <2>4. Snapshot(o)'
      BY <1>5 DEF Holding, OwnWork, Snapshot, DelayElapsed, engineVars
    <2>5. QED
      BY <2>1, <2>2, <2>3, <2>4
  <1>6. ASSUME Resolved(o) PROVE OpInv(o)'
    <2>1. Holding(o)'
      BY <1>6 DEF Holding, OwnWork, Resolved, engineVars
    <2>2. OwnWork(o)'
      BY <1>6 DEF OwnWork, Resolved, engineVars
    <2>3. Executed(o)'
      <3>1. Len(chain[o]) \in Nat /\ step[o] \in Nat
        OBVIOUS
      <3>2. QED
        BY <1>6, <3>1 DEF Executed, Resolved
    <2>4. Snapshot(o)'
      BY <1>6 DEF Holding, OwnWork, Snapshot, Resolved, engineVars
    <2>5. QED
      BY <2>1, <2>2, <2>3, <2>4
  <1>7. ASSUME Audit(o) PROVE OpInv(o)'
    <2>1. Holding(o)'
      BY <1>7 DEF Holding, OwnWork, Audit, TrackWork, tableVars, AuditChain
    <2>2. OwnWork(o)'
      BY <1>7 DEF OwnWork, Audit, TrackWork, tableVars, AuditChain
    <2>3. Executed(o)'
      BY <1>7 DEF Executed, Holding, Snapshot, Audit, TrackWork, tableVars, AuditChain
    <2>4. Snapshot(o)'
      BY <1>7 DEF Holding, OwnWork, Snapshot, Audit, TrackWork, tableVars, AuditChain
    <2>5. QED
      BY <2>1, <2>2, <2>3, <2>4
  <1>8. ASSUME Complete(o) PROVE OpInv(o)'
    <2>1. Holding(o)'
      BY <1>8 DEF Holding, OwnWork, Complete, ReleaseRequest, Forget, tableVars
    <2>2. OwnWork(o)'
      BY <1>8 DEF OwnWork, Complete, ReleaseRequest, Forget, tableVars
    <2>3. Executed(o)'
      BY <1>8 DEF Executed, Holding, Snapshot, Complete, ReleaseRequest, Forget, tableVars
    <2>4. Snapshot(o)'
      BY <1>8 DEF Holding, OwnWork, Snapshot, Complete, ReleaseRequest, Forget, tableVars
    <2>5. QED
      BY <2>1, <2>2, <2>3, <2>4
  <1>9. ASSUME Fail(o) PROVE OpInv(o)'
    <2>1. Holding(o)'
      BY <1>9 DEF Holding, OwnWork, Fail, ReleaseRequest, Forget
    <2>2. OwnWork(o)'
      BY <1>9 DEF OwnWork, Fail, ReleaseRequest, Forget
    <2>3. Executed(o)'
      BY <1>9 DEF Executed, Holding, Snapshot, Fail, ReleaseRequest, Forget
    <2>4. Snapshot(o)'
      BY <1>9 DEF Holding, OwnWork, Snapshot, Fail, ReleaseRequest, Forget
    <2>5. QED
      BY <2>1, <2>2, <2>3, <2>4
  <1>10. ASSUME Abort(o) PROVE OpInv(o)'
    <2>1. Holding(o)'
      BY <1>10 DEF Holding, OwnWork, Abort, OnReject, engineVars
    <2>2. OwnWork(o)'
      BY <1>10 DEF OwnWork, Abort, OnReject, engineVars
    <2>3. Executed(o)'
      BY <1>10 DEF Executed, Holding, Snapshot, Abort, OnReject, engineVars
    <2>4. Snapshot(o)'
      BY <1>10 DEF Holding, OwnWork, Snapshot, Abort, OnReject, engineVars
    <2>5. QED
      BY <2>1, <2>2, <2>3, <2>4
  <1>11. ASSUME Expire(o) PROVE OpInv(o)'
    <2>1. Holding(o)'
      BY <1>11 DEF Holding, OwnWork, Expire, engineVars
    <2>2. OwnWork(o)'
      BY <1>11 DEF OwnWork, Expire, engineVars
    <2>3. Executed(o)'
      BY <1>11 DEF Executed, Holding, Snapshot, Expire, engineVars
    <2>4. Snapshot(o)'
      BY <1>11 DEF Holding, OwnWork, Snapshot, Expire, engineVars
    <2>5. QED
      BY <2>1, <2>2, <2>3, <2>4
  <1>12. ASSUME DeadlineTimer(o) PROVE OpInv(o)'
    <2>1. Holding(o)'
      BY <1>12 DEF Holding, OwnWork, DeadlineTimer, OnReject, engineVars
    <2>2. OwnWork(o)'
      BY <1>12 DEF OwnWork, DeadlineTimer, OnReject, engineVars
    <2>3. Executed(o)'
      BY <1>12 DEF Executed, Holding, Snapshot, DeadlineTimer, OnReject, engineVars
    <2>4. Snapshot(o)'
      BY <1>12 DEF Holding, OwnWork, Snapshot, DeadlineTimer, OnReject, engineVars
    <2>5. QED
      BY <2>1, <2>2, <2>3, <2>4
  <1>13. ASSUME NEW w \in pending[o], NEW fulfilled \in BOOLEAN, PromiseSettles(o, w, fulfilled) PROVE OpInv(o)'
    <2>1. Holding(o)'
      BY <1>13 DEF Holding, OwnWork, PromiseSettles, Settled, Forget, OnReject
    <2>2. OwnWork(o)'
      BY <1>13 DEF OwnWork, PromiseSettles, Settled, Forget, OnReject
    <2>3. Executed(o)'
      BY <1>13 DEF Executed, Holding, Snapshot, PromiseSettles, Settled, Forget, OnReject
    <2>4. Snapshot(o)'
      BY <1>13 DEF Holding, OwnWork, Snapshot, PromiseSettles, Settled, Forget, OnReject
    <2>5. QED
      BY <2>1, <2>2, <2>3, <2>4
  <1>14. QED
    BY <1>1, <1>2, <1>3, <1>4, <1>5, <1>6, <1>7, <1>8, <1>9, <1>10, <1>11, <1>12, <1>13 DEF Advance, StepOf
\* use and setLimits run while nobody holds capacity and touch no operation.
LEMMA ConfigureSame ==
    ASSUME Configure, NEW q \in Requests
    PROVE  Same(q)
  <1>1. UNCHANGED tableVars
    BY ReconfigureSame DEF Configure, Reconfigure
  <1>2. QED
    BY <1>1 DEF Configure, tableVars, opVars, Same, SameRequest

\* No step lets more requests hold capacity than the limit admits.
LEMMA CapacityStep ==
    ASSUME TypeOK, CapacityBound, [Next]_vars
    PROVE  CapacityBound'
  <1>1. CASE UNCHANGED vars
    BY <1>1 DEF vars, engineVars, CapacityBound
  <1>2. CASE Configure
    BY <1>2, CapacityReconfigured DEF Configure, Reconfigure, TypeOK
  <1>3. ASSUME NEW o \in Requests, StepOf(o) PROVE CapacityBound'
    <2>1. TableStep(o)
      BY <1>3, StepOnTable
    <2>2. UNCHANGED configVars
      BY <1>3 DEF StepOf, Refuse, Call, Advance, Attempt, Rejected, DelayElapsed, Resolved,
                  Audit, Complete, Fail, Abort, Expire, DeadlineTimer, PromiseSettles,
                  engineVars, configVars
    <2>3. MayStart \/ active' \subseteq active
      BY <1>3 DEF StepOf, Refuse, Call, Advance, Attempt, Rejected, DelayElapsed, Resolved,
                  Audit, Complete, Fail, Abort, Expire, DeadlineTimer, PromiseSettles,
                  engineVars, tableVars, TrackWork, ReleaseRequest, Settled, Forget
    <2>4. QED
      BY <2>1, <2>2, <2>3, CapacityKept DEF TypeOK
  <1>4. QED
    BY <1>1, <1>2, <1>3 DEF Next, StepOf

\* The inductive invariant holds in every reachable state: for any number of
\* operations, any pipeline, any retry settings and any limits.
THEOREM Invariance == Spec => []IInv
  <1>1. Init => IInv
    <2> SUFFICES ASSUME Init PROVE IInv
      OBVIOUS
    <2>1. TypeOK
      BY EngineAssumption DEF Init, EngineInit, TypeOK, EngineTypeOK, PCs, Signals
    <2>2. CapacityBound
      BY CapacityInit DEF Init
    <2>3. \A o \in Requests : OpInv(o)
      BY DEF Init, EngineInit, OpInv, Holding, OwnWork, Executed, Snapshot, Running, Settling
    <2>4. QED
      BY <2>1, <2>2, <2>3 DEF IInv
  <1>2. IInv /\ [Next]_vars => IInv'
    <2> SUFFICES ASSUME IInv, [Next]_vars PROVE IInv'
      OBVIOUS
    <2>1. TypeOK' /\ CapacityBound'
      BY TypeStep, CapacityStep DEF IInv
    <2>2. \A q \in Requests : OpInv(q)'
      <3>1. CASE UNCHANGED vars
        <4>1. \A q \in Requests : Same(q)
          BY <3>1 DEF vars, engineVars, opVars, Same, SameRequest
        <4>2. QED
          BY <4>1, Frame DEF IInv
      <3>2. CASE Configure
        BY <3>2, ConfigureSame, Frame DEF IInv
      <3>3. ASSUME NEW o \in Requests, StepOf(o)
            PROVE  \A q \in Requests : OpInv(q)'
        <4>1. OpInv(o)'
          BY <3>3, OwnStep DEF IInv
        <4>2. \A q \in Requests \ {o} : Same(q)
          BY <3>3, OthersSame DEF IInv
        <4>3. QED
          BY <4>1, <4>2, Local DEF IInv
      <3>4. QED
        BY <3>1, <3>2, <3>3 DEF Next, StepOf
    <2>3. QED
      BY <2>1, <2>2 DEF IInv
  <1>3. QED
    BY <1>1, <1>2, PTL DEF Spec

\* startRequest and setLimits together keep the number of requests that hold
\* capacity within the configured limit.
THEOREM CapacityIsBounded == Spec => []CapacityBound
  <1>1. IInv => CapacityBound
    BY DEF IInv
  <1>2. QED
    BY <1>1, Invariance, PTL

\* A promise that has not settled keeps the capacity of its request, also when
\* the operation was answered before (trackWork).
THEOREM WorkIsAccounted == Spec => []WorkHoldsCapacity
  <1>1. IInv => WorkHoldsCapacity
    <2> SUFFICES ASSUME IInv, NEW o \in Requests, pending[o] # {} PROVE o \in active
      BY DEF WorkHoldsCapacity
    <2>1. OpInv(o) /\ pc[o] \in PCs
      BY DEF IInv, TypeOK
    <2>2. QED
      BY <2>1 DEF OpInv, Holding, OwnWork, PCs
  <1>2. QED
    BY <1>1, Invariance, PTL

\* No capacity is kept without a reason: its holder runs, or was answered
\* while a promise of its is unsettled (releaseRequest).
THEOREM CapacityIsAccounted == Spec => []CapacityAccounted
  <1>1. IInv => CapacityAccounted
    BY DEF IInv, TypeOK, EngineTypeOK, OpInv, Holding, CapacityAccounted
  <1>2. QED
    BY <1>1, Invariance, PTL

\* The attempts of an operation never overlap.
THEOREM AttemptsNeverOverlap == Spec => []NoOverlap
  <1>1. IInv => NoOverlap
    <2> SUFFICES ASSUME IInv, NEW o \in Requests PROVE Cardinality(pending[o]) <= 1
      BY DEF NoOverlap
    <2>1. pending[o] = {} \/ pending[o] = {started[o]}
      BY DEF IInv, OpInv, OwnWork
    <2>2. Cardinality(pending[o]) \in {0, 1}
      <3>1. Cardinality({}) = 0 /\ Cardinality({started[o]}) = 1
        BY FS_EmptySet, FS_Singleton
      <3>2. QED
        BY <2>1, <3>1
    <2>3. QED
      BY <2>2
  <1>2. QED
    BY <1>1, Invariance, PTL

\* An audit record names the chain that was executed, all of it.
THEOREM AuditNamesExecution == Spec => []AuditIsExecution
  <1>1. IInv => AuditIsExecution
    BY DEF IInv, OpInv, Executed, AuditIsExecution
  <1>2. QED
    BY <1>1, Invariance, PTL

\* An operation that succeeds has run every plugin and holds nothing.
THEOREM SuccessLeavesNothing == Spec => []SuccessIsClean
  <1>1. IInv => SuccessIsClean
    BY DEF IInv, OpInv, Executed, Holding, OwnWork, SuccessIsClean, Running, Settling
  <1>2. QED
    BY <1>1, Invariance, PTL

\* Every step of run and undo is a step of the capacity contract or leaves
\* the contract's state alone.
LEMMA ContractStep ==
    ASSUME IInv, [Next]_vars
    PROVE  [Capacity!Next]_(Capacity!capVars)
  <1>0. TypeOK /\ EngineTypeOK /\ \A o \in Requests : OpInv(o)
    BY DEF IInv, TypeOK
  <1>1. CASE UNCHANGED vars
    BY <1>1, ContractQuiet DEF vars
  <1>2. CASE Configure
    BY <1>0, <1>2, ContractReconfigured DEF Configure, Reconfigure
  <1>3. ASSUME NEW o \in Requests, StepOf(o) PROVE [Capacity!Next]_(Capacity!capVars)
    <2>1. UNCHANGED configVars
      BY <1>3 DEF StepOf, Refuse, Call, Advance, Attempt, Rejected, DelayElapsed, Resolved, Audit,
                  Complete, Fail, Abort, Expire, DeadlineTimer, PromiseSettles, engineVars, configVars
    <2>2. AccountedStep(o)
      <3>0. started[o] + 1 \in Nat \ {0} /\ OpInv(o)
        BY <1>0, <1>3 DEF TypeOK
      <3>1. pc[o] \in Running => o \in active
        BY <3>0 DEF OpInv, Holding
      <3>2. pc[o] = "idle" => o \notin active
        BY <3>0 DEF OpInv, Holding, Running, Settling
      <3>3. ASSUME NEW m, Refuse(o, m) \/ Call(o, m) PROVE AccountedStep(o)
        BY <3>2, <3>3 DEF AccountedStep, Refuse, Call, engineVars, tableVars
      <3>4. CASE Attempt(o) \/ Audit(o)
        BY <3>0, <3>1, <3>4 DEF AccountedStep, Attempt, Audit, Running
      <3>5. CASE Complete(o) \/ Fail(o)
        BY <3>1, <3>5 DEF AccountedStep, Complete, Fail, Running
      <3>6. CASE \/ Rejected(o) \/ DelayElapsed(o) \/ Resolved(o)
                 \/ Abort(o) \/ Expire(o) \/ DeadlineTimer(o)
        BY <3>6 DEF AccountedStep, Rejected, DelayElapsed, Resolved, Abort, Expire,
                    DeadlineTimer, engineVars, tableVars
      <3>7. ASSUME NEW w \in pending[o], NEW fulfilled, PromiseSettles(o, w, fulfilled)
            PROVE  AccountedStep(o)
        BY <3>7 DEF AccountedStep, PromiseSettles
      <3>8. QED
        BY <1>3, <3>3, <3>4, <3>5, <3>6, <3>7 DEF StepOf, Advance
    <2>3. QED
      BY <1>0, <1>3, <2>1, <2>2, ContractKept
  <1>4. QED
    BY <1>1, <1>2, <1>3 DEF Next, StepOf

\* The binary operations implement the capacity contract, for any number of
\* operations: work starts only for a request that holds capacity, capacity
\* is returned only without pending work, and the pipeline and the limits
\* change only while nobody holds capacity.
THEOREM ImplementsCapacity == Spec => CapacityContract
  <1>1. Init => Capacity!Init
    BY ContractInit DEF Init
  <1>2. IInv /\ [Next]_vars => [Capacity!Next]_(Capacity!capVars)
    BY ContractStep
  <1>3. QED
    BY <1>1, <1>2, Invariance, PTL DEF Spec, CapacityContract, Capacity!Spec
=============================================================================
