---------------------------- MODULE StreamProofs ----------------------------
(***************************************************************************)
(* Proofs about StreamOperations, for any number of operations, plugins,   *)
(* attempts and chunks.                                                    *)
(***************************************************************************)
EXTENDS StreamOperations, EngineProofs

(***************************************************************************)
(* The inductive invariant.  The stages of one operation run concurrently, *)
(* outlive its answer and share its pending promises; what has to be       *)
(* known is which stage still waits for which promise.                     *)
(***************************************************************************)

\* A stage that is neither waiting for a chunk nor destroyed works on one.
Busy == Stages \ {"waiting", "dead"}

\* Capacity is held by running operations, and by answered ones whose release
\* was postponed.
Holding(o) ==
    /\ pc[o] \in Running => o \in active
    /\ o \in active => pc[o] \in Running \cup Settling
    /\ o \in active /\ pc[o] \in Settling => o \in finished
    /\ o \in finished => o \in active /\ pc[o] \in Settling /\ pending[o] # {}

\* The chain fits its slots, and promises are numbered as they start.
Shape(o) ==
    /\ Len(chain[o]) <= MaxPlugins
    /\ pc[o] \in {"idle", "refused"} => chain[o] = <<>>
    /\ \A w \in pending[o] : w <= started[o]

\* Unsettled promises are those the stages started last; once every stage has
\* passed everything on, only the audit promise can be unsettled.
Work(o) ==
    \/ pending[o] \subseteq {task[o][k] : k \in StagesOf(o)}
    \/ /\ pc[o] \in Running \cup {"ok", "failed"}
       /\ pc[o] # "streaming"
       /\ \A k \in StagesOf(o) : stage[o][k] = "waiting"
       /\ pending[o] \subseteq {started[o]}

\* An operation whose pipeline resolved has passed everything on.
Through(o) ==
    /\ pc[o] \in {"finish", "auditing", "audited", "ok"} =>
          \A k \in StagesOf(o) : stage[o][k] = "waiting" /\ out[o][k] = Chunks
    /\ pc[o] \in {"finish", "audited", "ok"} => pending[o] = {}

\* A stage starts an attempt only after its previous one has settled.
StageWork(o, k) ==
    /\ task[o][k] <= started[o]
    /\ stage[o][k] \in {"waiting", "resolved", "delay"} => task[o][k] \notin pending[o]
    /\ stage[o][k] = "rejected" /\ Live(o) => task[o][k] \notin pending[o]

\* Only stages of the chain are busy, with a chunk that is there; only wrapped
\* ones back off, catch and divert, and a stage that diverted its chunk waits
\* for the sink or is destroyed.
StageFlow(o, k) ==
    /\ stage[o][k] # "waiting" => k \in StagesOf(o)
    /\ stage[o][k] \in {"delay", "caught", "drain"} => ~IsNative(o, k)
    /\ stage[o][k] \in Busy /\ pc[o] = "streaming" => Available(o, k)
    /\ k \in diverted[o] => stage[o][k] \in {"drain", "dead"}

OpInv(o) ==
    /\ Holding(o) /\ Shape(o) /\ Work(o) /\ Through(o)
    /\ \A k \in Slots : StageWork(o, k) /\ StageFlow(o, k)

IInv ==
    /\ TypeOK
    /\ CapacityBound
    /\ \A o \in Requests : OpInv(o)

(***************************************************************************)
(* Steps of one operation.                                                 *)
(***************************************************************************)

\* A step of an operation: a call, a continuation, a failing endpoint, an
\* abort, the clock, one of its stages, or one of its promises.
StepOf(o) ==
    \/ \E hasSchema \in BOOLEAN : Refuse(o, hasSchema)
    \/ \E m \in {"process", "reverse"} : Call(o, m)
    \/ Advance(o) \/ EndpointFails(o) \/ Abort(o) \/ Expire(o)
    \/ \E k \in StagesOf(o) : StageStep(o, k) \/ StageTimer(o, k)
    \/ \E w \in pending[o], fulfilled \in BOOLEAN : PromiseSettles(o, w, fulfilled)

\* The stages of a chain have slots.
LEMMA StagesAreSlots ==
    ASSUME TypeOK, NEW o \in Requests, Shape(o), NEW k \in StagesOf(o)
    PROVE  /\ k \in Slots /\ k \in Nat \ {0} /\ chain[o][k] \in PluginIds
           /\ k # 1 => k - 1 \in StagesOf(o) /\ k - 1 \in Slots
  <1>1. chain[o] \in Seq(PluginIds) /\ Len(chain[o]) \in Nat
    BY DEF TypeOK
  <1>2. QED
    BY <1>1, EngineAssumption DEF Shape, StagesOf, Slots

\* An operation changes the table only through the engine methods, for itself.
LEMMA StepOnTable ==
    ASSUME TypeOK, NEW o \in Requests, StepOf(o)
    PROVE  TableStep(o) /\ UNCHANGED configVars
  <1> USE DEF TableStep, tableVars, configVars, engineVars
  <1>1. started[o] + 1 \in Nat \ {0} /\ pending[o] \subseteq Nat \ {0}
    BY DEF TypeOK, EngineTypeOK
  <1>2. ASSUME NEW k \in StagesOf(o), StageStep(o, k) PROVE TableStep(o) /\ UNCHANGED configVars
    BY <1>1, <1>2 DEF StageStep, NativeStep, NativeCalls, NativeFails, TakeChunk, StageRejected,
                      StageDelayElapsed, StageResolved, StageCaught, StartAttempt, StartTask
  <1>3. CASE Advance(o)
    BY <1>1, <1>3 DEF Advance, PipelineResolves, Audit, Complete, Fail
  <1>4. QED
    BY <1>1, <1>2, <1>3 DEF StepOf, Refuse, Call, EndpointFails, Abort, Expire, StageTimer,
                            PromiseSettles

\* The pipeline of an operation is well typed and has its slots.
LEMMA OrderedType ==
    ASSUME EngineTypeOK, NEW m
    PROVE  Ordered(m) \in Seq(PluginIds) /\ Len(Ordered(m)) <= MaxPlugins
  <1>1. plugins \in Seq(PluginIds) /\ Len(plugins) \in Nat /\ Len(plugins) <= MaxPlugins
    BY DEF EngineTypeOK
  <1>2. CASE m = "process"
    BY <1>1, <1>2 DEF Ordered
  <1>3. CASE m # "process"
    <2> DEFINE r == [k \in 1 .. Len(plugins) |-> plugins[Len(plugins) + 1 - k]]
    <2>1. \A k \in 1 .. Len(plugins) : plugins[Len(plugins) + 1 - k] \in PluginIds
      BY <1>1
    <2>2. r \in Seq(PluginIds) /\ Len(r) = Len(plugins)
      BY <1>1, <2>1
    <2>3. QED
      BY <1>1, <1>3, <2>2 DEF Ordered
  <1>4. QED
    BY <1>2, <1>3

\* Destroying the stages that wait for the sink keeps their type.
LEMMA ClosedType ==
    ASSUME NEW s \in [Slots -> Stages]
    PROVE  Closed(s) \in [Slots -> Stages]
  BY DEF Closed, Stages

(***************************************************************************)
(* Type correctness.  Only the number of emitted chunks needs more than    *)
(* the types: a stage emits what it was given.                             *)
(***************************************************************************)

\* The types of what belongs to the operations alone.
StreamTypeOK ==
    /\ pc       \in [Requests -> {"idle"} \cup Running \cup Settling]
    /\ chain    \in [Requests -> Seq(PluginIds)]
    /\ signal   \in [Requests -> {"live", "expired", "aborted"}]
    /\ started  \in [Requests -> Nat]
    /\ stage    \in [Requests -> [Slots -> Stages]]
    /\ tries    \in [Requests -> [Slots -> Nat]]
    /\ task     \in [Requests -> [Slots -> Nat]]
    /\ out      \in [Requests -> [Slots -> 0 .. Chunks]]
    /\ diverted \in [Requests -> SUBSET Slots]
    /\ sink     \in {"none", "ready", "blocked", "errored", "closed"}

\* A step of a stage keeps the state well typed.
LEMMA StageTypeStep ==
    ASSUME TypeOK, NEW o \in Requests, OpInv(o), NEW k \in StagesOf(o),
           StageStep(o, k) \/ StageTimer(o, k)
    PROVE  StreamTypeOK'
  <1>0. k \in Slots
    BY StagesAreSlots DEF OpInv
  <1> USE DEF TypeOK, StreamTypeOK
  <1>1. ASSUME NEW to \in Stages, SetStage(o, k, to) PROVE stage' \in [Requests -> [Slots -> Stages]]
    <2>1. [stage[o] EXCEPT ![k] = to] \in [Slots -> Stages]
      BY <1>0
    <2>2. stage' = [stage EXCEPT ![o] = [stage[o] EXCEPT ![k] = to]]
      BY <1>1 DEF SetStage
    <2>3. QED
      BY <2>1, <2>2
  <1>2. ASSUME Report(o, k)
        PROVE  /\ pc' \in [Requests -> {"idle"} \cup Running \cup Settling]
               /\ stage' \in [Requests -> [Slots -> Stages]]
    <2>1. CASE pc[o] = "streaming"
      <3>1. Closed(stage[o]) \in [Slots -> Stages]
        BY ClosedType
      <3>2. [Closed(stage[o]) EXCEPT ![k] = "dead"] \in [Slots -> Stages]
        BY <1>0, <3>1 DEF Stages
      <3>3. QED
        BY <1>2, <2>1, <3>2 DEF Report, Goto, Running
    <2>2. CASE pc[o] # "streaming"
      BY <1>1, <1>2, <2>2 DEF Report, Stages
    <2>3. QED
      BY <2>1, <2>2
  <1>c. ASSUME StartTask(o, k)
        PROVE  /\ stage' \in [Requests -> [Slots -> Stages]]
               /\ started' \in [Requests -> Nat]
               /\ task' \in [Requests -> [Slots -> Nat]]
    <2>1. /\ started' = [started EXCEPT ![o] = started[o] + 1]
          /\ task' = [task EXCEPT ![o] = [task[o] EXCEPT ![k] = started[o] + 1]]
          /\ SetStage(o, k, "awaiting")
      BY <1>c DEF StartTask
    <2>2. started[o] + 1 \in Nat
      OBVIOUS
    <2>3. [task[o] EXCEPT ![k] = started[o] + 1] \in [Slots -> Nat]
      BY <1>0, <2>2
    <2>4. started' \in [Requests -> Nat] /\ task' \in [Requests -> [Slots -> Nat]]
      BY <2>1, <2>2, <2>3
    <2>5. QED
      BY <1>1, <2>1, <2>4 DEF Stages
  <1>3. ASSUME StartAttempt(o, k)
        PROVE  /\ stage' \in [Requests -> [Slots -> Stages]]
               /\ started' \in [Requests -> Nat]
               /\ task' \in [Requests -> [Slots -> Nat]]
    <2>1. CASE Live(o)
      BY <1>3, <1>c, <2>1 DEF StartAttempt
    <2>2. CASE ~Live(o)
      BY <1>1, <1>3, <2>2 DEF StartAttempt, Stages
    <2>3. QED
      BY <2>1, <2>2
  <1>4. ASSUME out' = [out EXCEPT ![o][k] = @ + 1], Available(o, k)
        PROVE  out' \in [Requests -> [Slots -> 0 .. Chunks]]
    <2>1. out[o][k] < Chunks /\ out[o][k] \in 0 .. Chunks
      <3>1. CASE k = 1
        BY <1>0, <1>4, <3>1, StreamAssumption DEF Available
      <3>2. CASE k # 1
        <4>1. k - 1 \in Slots
          BY <3>2, StagesAreSlots DEF OpInv
        <4>2. out[o][k - 1] \in 0 .. Chunks
          BY <4>1
        <4>3. QED
          BY <1>0, <1>4, <3>2, <4>2, StreamAssumption DEF Available
      <3>3. QED
        BY <3>1, <3>2
    <2>2. out[o][k] + 1 \in 0 .. Chunks
      BY <2>1, StreamAssumption
    <2>3. QED
      BY <1>0, <1>4, <2>2
  <1>5. CASE NativeStep(o, k)
    <2>1. Available(o, k)
      BY <1>0, <1>5 DEF NativeStep, OpInv, StageFlow, Busy, Stages
    <2>2. QED
      BY <1>1, <1>2, <1>4, <1>5, <2>1 DEF NativeStep, Stages
  <1>d. CASE NativeCalls(o, k)
    <2>1. tries' \in [Requests -> [Slots -> Nat]]
      <3>1. /\ [tries EXCEPT ![o][k] = 1] \in [Requests -> [Slots -> Nat]]
            /\ [tries EXCEPT ![o][k] = @ + 1] \in [Requests -> [Slots -> Nat]]
        BY <1>0
      <3>2. QED
        BY <1>d, <3>1 DEF NativeCalls
    <2>2. QED
      BY <1>c, <1>d, <2>1 DEF NativeCalls
  <1>e. CASE NativeFails(o, k)
    BY <1>2, <1>e DEF NativeFails
  <1>6. CASE TakeChunk(o, k)
    <2>1. tries' \in [Requests -> [Slots -> Nat]]
      BY <1>0, <1>6 DEF TakeChunk
    <2>2. /\ stage' \in [Requests -> [Slots -> Stages]]
          /\ started' \in [Requests -> Nat]
          /\ task' \in [Requests -> [Slots -> Nat]]
      BY <1>1, <1>3, <1>6 DEF TakeChunk, Stages
    <2>3. QED
      BY <1>6, <2>1, <2>2 DEF TakeChunk
  <1>7. CASE StageRejected(o, k)
    <2>1. tries' \in [Requests -> [Slots -> Nat]]
      <3>1. [tries EXCEPT ![o][k] = @ + 1] \in [Requests -> [Slots -> Nat]]
        BY <1>0
      <3>2. QED
        BY <1>7, <3>1 DEF StageRejected
    <2>2. /\ stage' \in [Requests -> [Slots -> Stages]]
          /\ started' \in [Requests -> Nat]
          /\ task' \in [Requests -> [Slots -> Nat]]
      BY <1>1, <1>3, <1>7 DEF StageRejected, Stages
    <2>3. QED
      BY <1>7, <2>1, <2>2 DEF StageRejected
  <1>8. CASE StageDelayElapsed(o, k)
    BY <1>3, <1>8 DEF StageDelayElapsed
  <1>9. CASE StageResolved(o, k)
    <2>1. pc[o] = "streaming" => Available(o, k)
      BY <1>0, <1>9 DEF StageResolved, OpInv, StageFlow, Busy, Stages
    <2>2. out' \in [Requests -> [Slots -> 0 .. Chunks]]
      BY <1>4, <1>9, <2>1 DEF StageResolved
    <2>3. stage' \in [Requests -> [Slots -> Stages]]
      BY <1>1, <1>9 DEF StageResolved, Stages
    <2>4. QED
      BY <1>9, <2>2, <2>3 DEF StageResolved
  <1>10. CASE StageCaught(o, k)
    <2>1. /\ pc' \in [Requests -> {"idle"} \cup Running \cup Settling]
          /\ stage' \in [Requests -> [Slots -> Stages]]
      BY <1>1, <1>2, <1>10 DEF StageCaught, Stages
    <2>2. /\ diverted' \in [Requests -> SUBSET Slots]
          /\ sink' \in {"none", "ready", "blocked", "errored", "closed"}
      <3>1. [diverted EXCEPT ![o] = @ \cup {k}] \in [Requests -> SUBSET Slots]
        BY <1>0
      <3>2. diverted' = diverted \/ diverted' = [diverted EXCEPT ![o] = @ \cup {k}]
        BY <1>10 DEF StageCaught
      <3>3. sink' = sink \/ sink' = "blocked"
        BY <1>10 DEF StageCaught
      <3>4. QED
        BY <3>1, <3>2, <3>3
    <2>3. QED
      BY <1>10, <2>1, <2>2 DEF StageCaught
  <1>11. CASE StageTimer(o, k)
    BY <1>1, <1>11 DEF StageTimer, Stages
  <1>12. QED
    BY <1>5, <1>6, <1>7, <1>8, <1>9, <1>10, <1>11, <1>d, <1>e DEF StageStep

\* Every other step of an operation keeps the state well typed.
LEMMA OperationTypeStep ==
    ASSUME TypeOK, NEW o \in Requests, StepOf(o),
           ~\E k \in StagesOf(o) : StageStep(o, k) \/ StageTimer(o, k)
    PROVE  StreamTypeOK'
  <1> USE DEF TypeOK, StreamTypeOK
  <1>g. ASSUME NEW to \in {"idle"} \cup Running \cup Settling, Goto(o, to)
        PROVE  pc' \in [Requests -> {"idle"} \cup Running \cup Settling]
    BY <1>g DEF Goto
  <1>0. {"refused", "failing", "streaming", "finish", "auditing", "audited", "ok", "failed"}
            \subseteq Running \cup Settling
    BY DEF Running, Settling
  <1>1. ASSUME NEW hasSchema, Refuse(o, hasSchema) PROVE StreamTypeOK'
    BY <1>0, <1>1, <1>g DEF Refuse, stageVars
  <1>2. ASSUME NEW m, Call(o, m) PROVE StreamTypeOK'
    <2>1. Ordered(m) \in Seq(PluginIds)
      BY OrderedType
    <2>2. pc' \in [Requests -> {"idle"} \cup Running \cup Settling]
      BY <1>0, <1>2, <1>g DEF Call
    <2>3. QED
      BY <1>2, <2>1, <2>2 DEF Call, stageVars
  <1>3. CASE PipelineResolves(o)
    BY <1>0, <1>3, <1>g DEF PipelineResolves, stageVars
  <1>4. CASE Audit(o)
    <2>1. pc' \in [Requests -> {"idle"} \cup Running \cup Settling]
      BY <1>0, <1>4, <1>g DEF Audit
    <2>2. started' \in [Requests -> Nat]
      BY <1>4 DEF Audit
    <2>3. QED
      BY <1>4, <2>1, <2>2 DEF Audit, stageVars
  <1>5. CASE Complete(o)
    <2>1. pc' \in [Requests -> {"idle"} \cup Running \cup Settling]
      BY <1>0, <1>5, <1>g DEF Complete
    <2>2. QED
      BY <1>5, <2>1 DEF Complete, stageVars
  <1>6. CASE Fail(o)
    BY <1>0, <1>6, <1>g DEF Fail, stageVars
  <1>7. CASE EndpointFails(o)
    BY <1>0, <1>7, <1>g, ClosedType DEF EndpointFails
  <1>8. CASE Abort(o)
    <2>1. pc' \in [Requests -> {"idle"} \cup Running \cup Settling]
      BY <1>0, <1>8 DEF Abort
    <2>2. stage' \in [Requests -> [Slots -> Stages]]
      BY <1>8 DEF Abort, Stages
    <2>3. signal' \in [Requests -> {"live", "expired", "aborted"}]
      BY <1>8 DEF Abort
    <2>4. QED
      BY <1>8, <2>1, <2>2, <2>3 DEF Abort
  <1>9. CASE Expire(o)
    BY <1>9 DEF Expire, stageVars
  <1>10. ASSUME NEW w, NEW fulfilled, PromiseSettles(o, w, fulfilled) PROVE StreamTypeOK'
    <2>1. pc' \in [Requests -> {"idle"} \cup Running \cup Settling]
      BY <1>0, <1>10, <1>g DEF PromiseSettles
    <2>2. stage' \in [Requests -> [Slots -> Stages]]
      <3>1. CASE UNCHANGED stage
        BY <3>1
      <3>2. CASE stage' # stage
        <4> DEFINE to(k) == IF stage[o][k] = "awaiting" /\ task[o][k] = w
                            THEN IF fulfilled /\ (Live(o) \/ IsNative(o, k))
                                 THEN "resolved" ELSE "rejected"
                            ELSE stage[o][k]
        <4>1. stage' = [stage EXCEPT ![o] = [k \in Slots |-> to(k)]]
          BY <1>10, <3>2 DEF PromiseSettles
        <4>2. \A k \in Slots : to(k) \in Stages
          BY DEF Stages
        <4>3. [k \in Slots |-> to(k)] \in [Slots -> Stages]
          BY <4>2
        <4> HIDE DEF to
        <4>4. QED
          BY <4>1, <4>3
      <3>3. QED
        BY <3>1, <3>2
    <2>3. QED
      BY <1>10, <2>1, <2>2 DEF PromiseSettles
  <1>11. QED
    BY <1>1, <1>2, <1>3, <1>4, <1>5, <1>6, <1>7, <1>8, <1>9, <1>10 DEF StepOf, Advance

(***************************************************************************)
(* The steps of a stage.                                                   *)
(***************************************************************************)

\* A stage hands the promise of a new call to trackWork; one that was
\* rejected does so only for a live signal.
Starts(o, k) ==
    /\ stage[o][k] \in {"waiting", "resolved", "rejected", "delay"}
    /\ stage[o][k] = "rejected" => Live(o)
    /\ stage'[o][k] = "awaiting"
    /\ started'[o] = started[o] + 1
    /\ pending'[o] = pending[o] \cup {started[o] + 1}
    /\ task'[o] = [task[o] EXCEPT ![k] = started[o] + 1]

\* What a step of the k-th stage may do to its operation and to the stages
\* beside it.
StageEffect(o, k) ==
    /\ stage[o][k] = "waiting" => pc[o] = "streaming"
    /\ pc'[o] = pc[o] \/ (pc[o] = "streaming" /\ pc'[o] = "failing")
    /\ UNCHANGED <<active, finished, chain, signal>>
    /\ (pending'[o] = pending[o] /\ started'[o] = started[o] /\ task'[o] = task[o]) \/ Starts(o, k)
    /\ \A j \in Slots \ {k} :
          /\ stage'[o][j] = stage[o][j] \/ (stage[o][j] = "drain" /\ stage'[o][j] = "dead")
          /\ out'[o][j] = out[o][j]
          /\ j \in diverted'[o] <=> j \in diverted[o]
    /\ out'[o][k] = out[o][k] \/ out'[o][k] = out[o][k] + 1

\* Reporting an error destroys the stages that wait for the sink and, if the
\* pipeline was still running, the pipeline.
LEMMA ReportEffect ==
    ASSUME TypeOK, NEW o \in Requests, NEW k \in Slots, Report(o, k)
    PROVE  /\ stage'[o][k] = "dead"
           /\ \A j \in Slots \ {k} :
                 stage'[o][j] = stage[o][j] \/ (stage[o][j] = "drain" /\ stage'[o][j] = "dead")
           /\ pc'[o] = pc[o] \/ (pc[o] = "streaming" /\ pc'[o] = "failing")
           /\ pc'[o] # "streaming"
  <1>1. CASE pc[o] = "streaming"
    <2>1. stage'[o] = [Closed(stage[o]) EXCEPT ![k] = "dead"] /\ pc'[o] = "failing"
      BY <1>1 DEF Report, Goto, TypeOK
    <2>2. Closed(stage[o]) = [j \in Slots |-> IF stage[o][j] = "drain" THEN "dead" ELSE stage[o][j]]
      BY DEF Closed
    <2>3. QED
      BY <1>1, <2>1, <2>2
  <1>2. CASE pc[o] # "streaming"
    <2>1. stage'[o] = [stage[o] EXCEPT ![k] = "dead"] /\ pc' = pc
      BY <1>2 DEF Report, SetStage, TypeOK
    <2>2. stage[o] \in [Slots -> Stages]
      BY DEF TypeOK
    <2>3. QED
      BY <1>2, <2>1, <2>2
  <1>3. QED
    BY <1>1, <1>2

\* Setting the state of a stage touches no other stage.
LEMMA SetStageEffect ==
    ASSUME TypeOK, NEW o \in Requests, NEW k \in Slots, NEW to, SetStage(o, k, to)
    PROVE  stage'[o][k] = to /\ \A j \in Slots \ {k} : stage'[o][j] = stage[o][j]
  <1>1. stage'[o] = [stage[o] EXCEPT ![k] = to] /\ stage[o] \in [Slots -> Stages]
    BY DEF SetStage, TypeOK
  <1>2. QED
    BY <1>1

\* A call has the effect of a start.
LEMMA TaskEffect ==
    ASSUME TypeOK, NEW o \in Requests, NEW k \in Slots, StartTask(o, k),
           stage[o][k] \in {"waiting", "resolved", "rejected", "delay"},
           stage[o][k] = "rejected" => Live(o)
    PROVE  /\ Starts(o, k)
           /\ \A j \in Slots \ {k} : stage'[o][j] = stage[o][j]
           /\ UNCHANGED <<active, finished>>
  <1>1. SetStage(o, k, "awaiting") /\ TrackWork(o, started[o] + 1)
    BY DEF StartTask
  <1>2. /\ started'[o] = started[o] + 1
        /\ task'[o] = [task[o] EXCEPT ![k] = started[o] + 1]
        /\ pending'[o] = pending[o] \cup {started[o] + 1}
    BY DEF StartTask, TrackWork, TypeOK, EngineTypeOK
  <1>3. QED
    BY <1>1, <1>2, SetStageEffect DEF Starts, TrackWork

\* The top of the retry loop starts an attempt only for a live signal.
LEMMA AttemptEffect ==
    ASSUME TypeOK, NEW o \in Requests, NEW k \in Slots, StartAttempt(o, k),
           stage[o][k] \in {"waiting", "rejected", "delay"}
    PROVE  /\ \/ Starts(o, k)
              \/ ~Live(o) /\ stage'[o][k] = "caught" /\ UNCHANGED <<pending, started, task>>
           /\ \A j \in Slots \ {k} : stage'[o][j] = stage[o][j]
           /\ UNCHANGED <<active, finished>>
  <1>1. CASE Live(o)
    BY <1>1, TaskEffect DEF StartAttempt
  <1>2. CASE ~Live(o)
    BY <1>2, SetStageEffect DEF StartAttempt, tableVars
  <1>3. QED
    BY <1>1, <1>2

\* A stage emits at most one chunk and touches no count but its own.
LEMMA EmitEffect ==
    ASSUME TypeOK, NEW o \in Requests, NEW k \in Slots,
           out' = out \/ out' = [out EXCEPT ![o][k] = @ + 1]
    PROVE  /\ \A j \in Slots \ {k} : out'[o][j] = out[o][j]
           /\ out'[o][k] = out[o][k] \/ out'[o][k] = out[o][k] + 1
  <1>1. out'[o] = out[o] \/ out'[o] = [out[o] EXCEPT ![k] = out[o][k] + 1]
    BY DEF TypeOK
  <1>2. out[o] \in [Slots -> 0 .. Chunks]
    BY DEF TypeOK
  <1>3. QED
    BY <1>1, <1>2

\* A busy stage keeps its chunk while it emits nothing.
LEMMA StillAvailable ==
    ASSUME TypeOK, NEW o \in Requests, NEW k \in Slots, Available(o, k),
           \A j \in Slots : out'[o][j] = out[o][j]
    PROVE  Available(o, k)'
  <1>1. k = 1 \/ k - 1 \in Slots
    BY EngineAssumption DEF Slots
  <1>2. QED
    BY <1>1 DEF Available

\* Every step of a stage has the effect of a stage's step, and preserves the
\* invariant of that stage.
LEMMA StageStepEffect ==
    ASSUME TypeOK, NEW o \in Requests, OpInv(o), NEW k \in StagesOf(o),
           StageStep(o, k) \/ StageTimer(o, k)
    PROVE  StageEffect(o, k) /\ StageWork(o, k)' /\ StageFlow(o, k)'
  <1> DEFINE Goal == StageEffect(o, k) /\ StageWork(o, k)' /\ StageFlow(o, k)'
  <1>0. k \in Slots /\ k \in Nat /\ StageWork(o, k) /\ StageFlow(o, k)
    BY StagesAreSlots DEF OpInv
  <1>t. /\ started[o] \in Nat /\ task[o] \in [Slots -> Nat] /\ task[o][k] \in Nat
        /\ stage[o][k] \in Stages
    BY <1>0 DEF TypeOK
  <1>r. ASSUME Report(o, k), stage[o][k] \in Busy \cup {"waiting"},
               stage[o][k] = "waiting" => pc[o] = "streaming",
               UNCHANGED <<active, finished, pending, chain, signal, started, task, out>>,
               \A j \in Slots \ {k} : j \in diverted'[o] <=> j \in diverted[o]
        PROVE  Goal
    <2>1. /\ stage'[o][k] = "dead"
          /\ \A j \in Slots \ {k} :
                stage'[o][j] = stage[o][j] \/ (stage[o][j] = "drain" /\ stage'[o][j] = "dead")
          /\ pc'[o] = pc[o] \/ (pc[o] = "streaming" /\ pc'[o] = "failing")
      BY <1>0, <1>r, ReportEffect
    <2>2. StageEffect(o, k)
      BY <1>r, <2>1 DEF StageEffect
    <2>3. QED
      BY <1>0, <1>r, <2>1, <2>2 DEF StageWork, StageFlow, StagesOf, Busy
  <1>w. ASSUME SetStage(o, k, "waiting"), out' = out \/ out' = [out EXCEPT ![o][k] = @ + 1],
               stage[o][k] = "resolved" \/ (stage[o][k] = "waiting" /\ pc[o] = "streaming"),
               UNCHANGED <<active, finished, pending, pc, chain, signal, started, task, diverted>>
        PROVE  Goal
    <2>1. stage'[o][k] = "waiting" /\ \A j \in Slots \ {k} : stage'[o][j] = stage[o][j]
      BY <1>0, <1>w, SetStageEffect
    <2>2. StageEffect(o, k)
      BY <1>0, <1>w, <2>1, EmitEffect DEF StageEffect
    <2>3. StageWork(o, k)'
      BY <1>0, <1>w, <2>1 DEF StageWork
    <2>4. StageFlow(o, k)'
      BY <1>0, <1>w, <2>1 DEF StageFlow, Busy
    <2>5. QED
      BY <2>2, <2>3, <2>4
  <1>1. CASE NativeStep(o, k)
    <2>1. /\ pc[o] = "streaming" /\ stage[o][k] \in {"resolved", "waiting"}
          /\ UNCHANGED <<active, finished, pending, chain, signal, started, task, diverted>>
      BY <1>1 DEF NativeStep, engineVars
    <2>2. CASE out' = [out EXCEPT ![o][k] = @ + 1] /\ SetStage(o, k, "waiting") /\ UNCHANGED pc
      BY <1>w, <2>1, <2>2
    <2>3. CASE Report(o, k) /\ UNCHANGED out
      BY <1>r, <2>1, <2>3 DEF Busy, Stages
    <2>4. QED
      BY <1>1, <2>2, <2>3 DEF NativeStep
  <1>9. CASE NativeCalls(o, k)
    <2>1. /\ StartTask(o, k) /\ pc[o] = "streaming" /\ IsNative(o, k)
          /\ stage[o][k] \in {"waiting", "resolved"}
          /\ stage[o][k] = "waiting" => Available(o, k)
          /\ UNCHANGED <<pc, chain, signal, out, diverted>>
      BY <1>9 DEF NativeCalls
    <2>2. /\ Starts(o, k) /\ UNCHANGED <<active, finished>>
          /\ \A j \in Slots \ {k} : stage'[o][j] = stage[o][j]
      BY <1>0, <2>1, TaskEffect
    <2>3. stage'[o][k] = "awaiting" /\ task'[o][k] = started[o] + 1 /\ started'[o] = started[o] + 1
      BY <1>0, <1>t, <2>2 DEF Starts
    <2>4. StageEffect(o, k)
      BY <2>1, <2>2 DEF StageEffect
    <2>5. Available(o, k)'
      BY <1>0, <2>1, StillAvailable DEF StageFlow, Busy, Stages
    <2>6. StageWork(o, k)' /\ StageFlow(o, k)'
      BY <1>0, <1>t, <2>1, <2>3, <2>5 DEF StageWork, StageFlow, StagesOf
    <2>7. QED
      BY <2>4, <2>6
  <1>10. CASE NativeFails(o, k)
    <2>1. stage[o][k] \in {"rejected", "resolved"} /\ Report(o, k)
          /\ UNCHANGED <<active, finished, pending, chain, signal, started, task, out, diverted>>
      BY <1>10 DEF NativeFails, engineVars
    <2>2. QED
      BY <1>r, <2>1 DEF Busy, Stages
  <1>a. ASSUME StartAttempt(o, k), stage[o][k] \in {"waiting", "rejected", "delay"},
               stage[o][k] = "waiting" => pc[o] = "streaming" /\ Available(o, k),
               ~IsNative(o, k), UNCHANGED <<pc, chain, signal, out, diverted>>
        PROVE  Goal
    <2>1. StageEffect(o, k)
      BY <1>0, <1>a, AttemptEffect DEF StageEffect
    <2>2. pc[o] = "streaming" => Available(o, k)'
      BY <1>0, <1>a, StillAvailable DEF StageFlow, Busy, Stages
    <2>3. CASE Starts(o, k)
      <3>1. stage'[o][k] = "awaiting" /\ task'[o][k] = started[o] + 1 /\ started'[o] = started[o] + 1
        BY <1>0, <1>t, <2>3 DEF Starts
      <3>2. k \notin diverted[o]
        BY <1>0, <1>a DEF StageFlow
      <3>3. StageWork(o, k)'
        BY <1>t, <3>1 DEF StageWork
      <3>4. StageFlow(o, k)'
        BY <1>a, <2>2, <3>1, <3>2 DEF StageFlow, StagesOf, IsNative
      <3>5. QED
        BY <2>1, <3>3, <3>4
    <2>4. CASE ~Live(o) /\ stage'[o][k] = "caught" /\ UNCHANGED <<pending, started, task>>
      <3>1. k \notin diverted[o]
        BY <1>0, <1>a DEF StageFlow
      <3>2. StageWork(o, k)'
        BY <1>0, <2>4 DEF StageWork
      <3>3. StageFlow(o, k)'
        BY <1>a, <2>2, <2>4, <3>1 DEF StageFlow, IsNative, StagesOf
      <3>4. QED
        BY <2>1, <3>2, <3>3
    <2>5. QED
      BY <1>0, <1>a, <2>3, <2>4, AttemptEffect
  <1>b. ASSUME NEW to \in {"caught", "delay", "rejected"}, SetStage(o, k, to),
               stage[o][k] \in {"waiting", "awaiting", "resolved", "rejected"},
               stage[o][k] = "waiting" => pc[o] = "streaming" /\ Available(o, k),
               ~IsNative(o, k),
               to = "delay" => Live(o) /\ stage[o][k] = "rejected",
               to = "rejected" => ~Live(o),
               UNCHANGED <<pc, chain, signal, out, diverted, started, task, active, pending, finished>>
        PROVE  Goal
    <2>1. stage'[o][k] = to /\ \A j \in Slots \ {k} : stage'[o][j] = stage[o][j]
      BY <1>0, <1>b, SetStageEffect
    <2>2. StageEffect(o, k)
      BY <1>b, <2>1 DEF StageEffect
    <2>3. pc[o] = "streaming" => Available(o, k)'
      BY <1>0, <1>b, StillAvailable DEF StageFlow, Busy, Stages
    <2>4. StageWork(o, k)'
      BY <1>0, <1>b, <2>1 DEF StageWork, Live
    <2>5. StageFlow(o, k)'
      BY <1>0, <1>b, <2>1, <2>3 DEF StageFlow, IsNative, StagesOf
    <2>6. QED
      BY <2>2, <2>4, <2>5
  <1>2. CASE TakeChunk(o, k)
    BY <1>2, <1>a, <1>b DEF TakeChunk, tableVars
  <1>3. CASE StageRejected(o, k)
    <2>1. stage[o][k] = "rejected" /\ ~IsNative(o, k)
          /\ UNCHANGED <<pc, chain, signal, out, diverted>>
      BY <1>3 DEF StageRejected
    <2>2. \/ StartAttempt(o, k)
          \/ SetStage(o, k, "caught") /\ UNCHANGED <<tableVars, started, task>>
          \/ Live(o) /\ SetStage(o, k, "delay") /\ UNCHANGED <<tableVars, started, task>>
      BY <1>3 DEF StageRejected
    <2>3. QED
      BY <1>a, <1>b, <2>1, <2>2 DEF tableVars
  <1>4. CASE StageDelayElapsed(o, k)
    <2>1. stage[o][k] = "delay" /\ ~IsNative(o, k)
      BY <1>0, <1>4 DEF StageDelayElapsed, StageFlow, Busy, Stages
    <2>2. QED
      BY <1>4, <1>a, <2>1 DEF StageDelayElapsed
  <1>5. CASE StageResolved(o, k)
    <2>1. /\ stage[o][k] = "resolved" /\ ~IsNative(o, k)
          /\ UNCHANGED <<active, finished, pending, pc, chain, signal, started, task, diverted>>
      BY <1>5 DEF StageResolved, engineVars
    <2>2. CASE SetStage(o, k, "caught") /\ UNCHANGED out
      BY <1>b, <2>1, <2>2
    <2>3. CASE SetStage(o, k, "waiting") /\ (out' = out \/ out' = [out EXCEPT ![o][k] = @ + 1])
      BY <1>w, <2>1, <2>3
    <2>4. QED
      BY <1>5, <2>2, <2>3 DEF StageResolved
  <1>6. CASE StageCaught(o, k)
    <2>1. /\ stage[o][k] = "caught" /\ ~IsNative(o, k)
          /\ UNCHANGED <<active, finished, pending, chain, signal, started, task, out>>
      BY <1>0, <1>6 DEF StageCaught, StageFlow, Busy, Stages, engineVars
    <2>2. \A j \in Slots \ {k} : j \in diverted'[o] <=> j \in diverted[o]
      BY <1>6 DEF StageCaught, TypeOK
    <2>3. CASE Report(o, k)
      BY <1>r, <2>1, <2>2, <2>3 DEF Busy, Stages
    <2>4. CASE SetStage(o, k, "drain") /\ UNCHANGED pc
      <3>1. stage'[o][k] = "drain" /\ \A j \in Slots \ {k} : stage'[o][j] = stage[o][j]
        BY <1>0, <2>4, SetStageEffect
      <3>2. StageEffect(o, k)
        BY <1>0, <2>1, <2>2, <2>4, <3>1 DEF StageEffect
      <3>3. pc[o] = "streaming" => Available(o, k)'
        BY <1>0, <2>1, StillAvailable DEF StageFlow, Busy, Stages
      <3>4. QED
        BY <1>0, <2>1, <2>4, <3>1, <3>2, <3>3 DEF StageWork, StageFlow, IsNative, StagesOf
    <2>5. QED
      BY <1>6, <2>3, <2>4 DEF StageCaught
  <1>7. CASE StageTimer(o, k)
    <2>1. stage[o][k] = "awaiting" /\ ~IsNative(o, k) /\ ~Live(o)
      BY <1>7 DEF StageTimer, Live
    <2>2. QED
      BY <1>7, <1>b, <2>1 DEF StageTimer, engineVars
  <1>8. QED
    BY <1>1, <1>2, <1>3, <1>4, <1>5, <1>6, <1>7, <1>9, <1>10 DEF StageStep

\* A step of one stage preserves the invariant of its operation: the stages
\* beside it keep their promises, and a new attempt replaces the promise that
\* had settled.
LEMMA StageOwnStep ==
    ASSUME TypeOK, NEW o \in Requests, OpInv(o), NEW k \in StagesOf(o),
           StageStep(o, k) \/ StageTimer(o, k)
    PROVE  OpInv(o)'
  <1>0. k \in Slots /\ StageEffect(o, k) /\ StageWork(o, k)' /\ StageFlow(o, k)'
    BY StagesAreSlots, StageStepEffect DEF OpInv
  <1>t. /\ started[o] \in Nat /\ task[o] \in [Slots -> Nat]
        /\ pending[o] \subseteq Nat /\ Slots \subseteq Nat
        /\ \A j \in Slots : out[o][j] \in Nat
        /\ StagesOf(o)' = StagesOf(o) /\ StagesOf(o) \subseteq Slots
        /\ pc[o] \in {"idle"} \cup Running \cup Settling
    <2>1. StagesOf(o)' = StagesOf(o)
      BY <1>0 DEF StageEffect, StagesOf
    <2>2. StagesOf(o) \subseteq Slots
      BY StagesAreSlots DEF OpInv
    <2>3. Slots \subseteq Nat /\ 0 .. Chunks \subseteq Nat
      BY DEF Slots
    <2>4. pending[o] \subseteq Nat
      BY DEF TypeOK, EngineTypeOK
    <2>5. QED
      BY <2>1, <2>2, <2>3, <2>4 DEF TypeOK
  <1>1. Holding(o)'
    BY <1>0, <1>t DEF OpInv, Holding, StageEffect, Starts, Running, Settling
  <1>2. Shape(o)'
    <2>1. \A w \in pending'[o] : w <= started'[o]
      <3>1. \A w \in pending[o] : w <= started[o] /\ w \in Nat
        BY <1>t DEF OpInv, Shape
      <3>2. CASE pending'[o] = pending[o] /\ started'[o] = started[o]
        BY <3>1, <3>2
      <3>3. CASE Starts(o, k)
        BY <1>t, <3>1, <3>3 DEF Starts
      <3>4. QED
        BY <1>0, <3>2, <3>3 DEF StageEffect
    <2>2. pc'[o] \in {"idle", "refused"} => pc[o] \in {"idle", "refused"}
      BY <1>0 DEF StageEffect
    <2>3. QED
      BY <1>0, <2>1, <2>2 DEF OpInv, Shape, StageEffect
  <1>3. pending[o] \subseteq {task[o][j] : j \in StagesOf(o)}
    BY <1>0 DEF OpInv, Work, StageEffect
  <1>4. Work(o)'
    <2>1. CASE pending'[o] = pending[o] /\ task'[o] = task[o]
      BY <1>3, <1>t, <2>1 DEF Work
    <2>2. CASE Starts(o, k)
      <3>1. task[o][k] \notin pending[o]
        BY <1>0, <2>2 DEF OpInv, StageWork, Starts
      <3>2. task'[o] = [task[o] EXCEPT ![k] = started[o] + 1]
            /\ pending'[o] = pending[o] \cup {started[o] + 1}
        BY <2>2 DEF Starts
      <3>3. \A w \in pending'[o] : \E j \in StagesOf(o) : w = task'[o][j]
        <4>1. SUFFICES ASSUME NEW w \in pending'[o] PROVE \E j \in StagesOf(o) : w = task'[o][j]
          OBVIOUS
        <4>2. CASE w = started[o] + 1
          BY <1>0, <1>t, <3>2, <4>2
        <4>3. CASE w \in pending[o]
          <5>1. PICK j \in StagesOf(o) : w = task[o][j]
            BY <1>3, <4>3
          <5>2. j # k
            BY <3>1, <4>3, <5>1
          <5>3. QED
            BY <1>t, <3>2, <5>1, <5>2
        <4>4. QED
          BY <3>2, <4>2, <4>3
      <3>4. QED
        BY <1>t, <3>3 DEF Work
    <2>3. QED
      BY <1>0, <2>1, <2>2 DEF StageEffect
  <1>5. Through(o)'
    <2>1. pc[o] \notin {"finish", "auditing", "audited", "ok"}
      BY <1>0 DEF OpInv, Through, StageEffect
    <2>2. QED
      BY <1>0, <2>1 DEF StageEffect, Through
  <1>6. ASSUME NEW j \in Slots \ {k} PROVE StageWork(o, j)' /\ StageFlow(o, j)'
    <2>1. /\ stage'[o][j] = stage[o][j] \/ (stage[o][j] = "drain" /\ stage'[o][j] = "dead")
          /\ out'[o][j] = out[o][j]
          /\ j \in diverted'[o] <=> j \in diverted[o]
          /\ chain' = chain /\ signal' = signal
          /\ pc'[o] = "streaming" => pc[o] = "streaming"
      BY <1>0, <1>6 DEF StageEffect
    <2>2. /\ task'[o][j] = task[o][j] /\ started'[o] >= started[o] /\ started'[o] \in Nat
          /\ task[o][j] \in pending'[o] => task[o][j] \in pending[o]
      <3>1. task[o][j] <= started[o] /\ task[o][j] \in Nat
        BY <1>6, <1>t DEF OpInv, StageWork
      <3>2. CASE pending'[o] = pending[o] /\ started'[o] = started[o] /\ task'[o] = task[o]
        BY <1>t, <3>2
      <3>3. CASE Starts(o, k)
        BY <1>6, <1>t, <3>1, <3>3 DEF Starts
      <3>4. QED
        BY <1>0, <3>2, <3>3 DEF StageEffect
    <2>3. StageWork(o, j)'
      <3>1. StageWork(o, j) /\ task[o][j] \in Nat
        BY <1>6, <1>t DEF OpInv
      <3>2. Live(o)' => Live(o)
        BY <2>1 DEF Live
      <3>3. QED
        BY <1>t, <2>1, <2>2, <3>1, <3>2 DEF StageWork
    <2>4. Available(o, j) => Available(o, j)'
      <3>1. j = 1 \/ j - 1 \in Slots
        BY <1>6, EngineAssumption DEF Slots
      <3>2. \A i \in Slots : out'[o][i] >= out[o][i] /\ out'[o][i] \in Nat
        BY <1>0, <1>t DEF StageEffect
      <3>3. QED
        BY <1>6, <1>t, <2>1, <3>1, <3>2 DEF Available
    <2>5. StageFlow(o, j)'
      BY <1>6, <1>t, <2>1, <2>4 DEF OpInv, StageFlow, IsNative, Busy
    <2>6. QED
      BY <2>3, <2>5
  <1>7. QED
    BY <1>0, <1>1, <1>2, <1>4, <1>5, <1>6 DEF OpInv

(***************************************************************************)
(* The other steps of an operation.                                        *)
(***************************************************************************)

\* The stages keep their invariant in a step that only destroys stages that
\* wait for the sink, or settles or adds promises of nobody's task.
LEMMA StagesKept ==
    ASSUME TypeOK, NEW o \in Requests, OpInv(o),
           task'[o] = task[o], out'[o] = out[o], chain'[o] = chain[o], diverted'[o] = diverted[o],
           started'[o] = started[o] \/ started'[o] = started[o] + 1,
           \A j \in Slots : stage'[o][j] = stage[o][j] \/ (stage[o][j] = "drain" /\ stage'[o][j] = "dead"),
           \A j \in Slots : task[o][j] \in pending'[o] => task[o][j] \in pending[o],
           Live(o)' => Live(o), pc'[o] = "streaming" => pc[o] = "streaming"
    PROVE  \A j \in Slots : StageWork(o, j)' /\ StageFlow(o, j)'
  <1> SUFFICES ASSUME NEW j \in Slots PROVE StageWork(o, j)' /\ StageFlow(o, j)'
    OBVIOUS
  <1>1. /\ StageWork(o, j) /\ StageFlow(o, j)
        /\ task[o][j] \in Nat /\ started[o] \in Nat
    BY DEF OpInv, TypeOK
  <1>2. StageWork(o, j)'
    BY <1>1 DEF StageWork
  <1>3. Available(o, j)' <=> Available(o, j)
    BY DEF Available
  <1>4. StagesOf(o)' = StagesOf(o)
    BY DEF StagesOf
  <1>5. StageFlow(o, j)'
    BY <1>1, <1>3, <1>4 DEF StageFlow, IsNative, Busy
  <1>6. QED
    BY <1>2, <1>5

\* An operation that is refused or started.
LEMMA EntryStep ==
    ASSUME TypeOK, NEW o \in Requests, OpInv(o),
           \/ \E hasSchema \in BOOLEAN : Refuse(o, hasSchema)
           \/ \E m \in {"process", "reverse"} : Call(o, m)
    PROVE  OpInv(o)'
  <1>0. pc[o] = "idle" /\ chain[o] = <<>> /\ StagesOf(o) = {} /\ pending[o] = {}
    <2>1. pc[o] = "idle" /\ chain[o] = <<>>
      BY DEF Refuse, Call, OpInv, Shape
    <2>2. StagesOf(o) = {}
      BY <2>1 DEF StagesOf
    <2>3. QED
      BY <2>1, <2>2 DEF OpInv, Work, Running
  <1>1. ASSUME NEW hasSchema, Refuse(o, hasSchema) PROVE OpInv(o)'
    <2>1. /\ pc'[o] = "refused"
          /\ UNCHANGED <<engineVars, chain, signal, started, stageVars>>
      BY <1>1 DEF Refuse, Goto, TypeOK
    <2>2. UNCHANGED <<active, finished, pending, chain, signal, started, stage, task, out, diverted>>
      BY <2>1 DEF engineVars, stageVars
    <2>3. \A j \in Slots : StageWork(o, j)' /\ StageFlow(o, j)'
      BY <2>1, <2>2, StagesKept DEF Live
    <2>4. Holding(o)' /\ Shape(o)' /\ Work(o)' /\ Through(o)'
      BY <1>0, <2>1, <2>2 DEF OpInv, Holding, Shape, Work, Through, Running, Settling, StagesOf
    <2>5. QED
      BY <2>3, <2>4 DEF OpInv
  <1>2. ASSUME NEW m, Call(o, m) PROVE OpInv(o)'
    <2>1. /\ pc'[o] \in {"streaming", "failing"}
          /\ active' = active \cup {o}
          /\ chain'[o] = Ordered(m)
          /\ UNCHANGED <<pending, finished, signal, started, stage, task, out, diverted>>
      BY <1>2 DEF Call, Goto, StartRequest, TypeOK, stageVars
    <2>2. Len(chain'[o]) <= MaxPlugins
      BY <2>1, OrderedType DEF TypeOK
    <2>3. \A j \in Slots : StageWork(o, j)' /\ StageFlow(o, j)'
      BY <1>0, <2>1 DEF OpInv, StageWork, StageFlow, Busy, Live
    <2>4. Holding(o)'
      BY <1>0, <2>1 DEF OpInv, Holding, Running, Settling
    <2>5. Shape(o)' /\ Work(o)' /\ Through(o)'
      BY <1>0, <2>1, <2>2 DEF OpInv, Shape, Work, Through
    <2>6. QED
      BY <2>3, <2>4, <2>5 DEF OpInv
  <1>3. QED
    BY <1>1, <1>2

\* The continuations of the operation: the pipeline resolves, the audit record
\* is handed over, the operation completes or fails.
LEMMA AdvanceStep ==
    ASSUME TypeOK, NEW o \in Requests, OpInv(o), Advance(o)
    PROVE  OpInv(o)'
  <1>0. /\ started[o] \in Nat /\ pending[o] \subseteq Nat /\ StagesOf(o) \subseteq Slots
        /\ StagesOf(o)' = StagesOf(o)
    <2>1. chain' = chain
      BY DEF Advance, PipelineResolves, Audit, Complete, Fail
    <2>2. StagesOf(o) \subseteq Slots
      BY StagesAreSlots DEF OpInv
    <2>3. QED
      BY <2>1, <2>2 DEF TypeOK, EngineTypeOK, StagesOf
  <1>1. CASE PipelineResolves(o)
    <2>1. /\ pc[o] = "streaming" /\ pc'[o] = "finish"
          /\ \A k \in StagesOf(o) : out[o][k] = Chunks /\ stage[o][k] = "waiting"
          /\ UNCHANGED <<active, finished, pending, chain, signal, started, stage, task, out, diverted>>
      BY <1>1 DEF PipelineResolves, Goto, TypeOK, engineVars, stageVars
    <2>2. pending[o] = {}
      <3>1. \A k \in StagesOf(o) : task[o][k] \notin pending[o]
        BY <1>0, <2>1 DEF OpInv, StageWork
      <3>2. QED
        BY <2>1, <3>1 DEF OpInv, Work
    <2>3. \A j \in Slots : StageWork(o, j)' /\ StageFlow(o, j)'
      BY <2>1, StagesKept DEF Live
    <2>4. Holding(o)' /\ Shape(o)' /\ Work(o)' /\ Through(o)'
      BY <1>0, <2>1, <2>2 DEF OpInv, Holding, Shape, Work, Through, Running, Settling
    <2>5. QED
      BY <2>3, <2>4 DEF OpInv
  <1>2. CASE Audit(o)
    <2>1. /\ pc[o] = "finish" /\ pc'[o] \in {"auditing", "failing"}
          /\ started'[o] = started[o] + 1
          /\ pending'[o] = pending[o] \cup {started[o] + 1}
          /\ UNCHANGED <<active, finished, chain, signal, stage, task, out, diverted>>
      BY <1>2 DEF Audit, Goto, TrackWork, TypeOK, EngineTypeOK, stageVars
    <2>2. pending[o] = {} /\ \A k \in StagesOf(o) : stage[o][k] = "waiting" /\ out[o][k] = Chunks
      BY <2>1 DEF OpInv, Through
    <2>3. \A j \in Slots : task[o][j] \in pending'[o] => task[o][j] \in pending[o]
      <3>1. \A j \in Slots : task[o][j] \in Nat /\ task[o][j] <= started[o]
        BY DEF OpInv, StageWork, TypeOK
      <3>2. QED
        BY <1>0, <2>1, <3>1
    <2>4. \A j \in Slots : StageWork(o, j)' /\ StageFlow(o, j)'
      BY <2>1, <2>3, StagesKept DEF Live
    <2>5. Holding(o)'
      BY <2>1 DEF OpInv, Holding, Running, Settling
    <2>6. Shape(o)' /\ Through(o)'
      BY <1>0, <2>1, <2>2 DEF OpInv, Shape, Through
    <2>7. Work(o)'
      BY <1>0, <2>1, <2>2 DEF Work, Running
    <2>8. QED
      BY <2>4, <2>5, <2>6, <2>7 DEF OpInv
  <1>r. ASSUME ReleaseRequest(o), pc[o] \in Running, pc'[o] \in {"ok", "failed"},
               pc'[o] = "ok" => pc[o] = "audited", pc[o] # "streaming",
               UNCHANGED <<chain, signal, started, stage, task, out, diverted>>
        PROVE  OpInv(o)'
    <2>1. /\ pending' = pending
          /\ o \in active' <=> o \in active /\ pending[o] # {}
          /\ o \in finished' <=> pending[o] # {}
      BY <1>r DEF ReleaseRequest, Forget
    <2>2. \A j \in Slots : StageWork(o, j)' /\ StageFlow(o, j)'
      BY <1>r, <2>1, StagesKept DEF Live
    <2>3. Holding(o)'
      BY <1>r, <2>1 DEF OpInv, Holding, Running, Settling
    <2>4. Shape(o)' /\ Through(o)'
      BY <1>0, <1>r, <2>1 DEF OpInv, Shape, Through, Running
    <2>5. Work(o)'
      BY <1>0, <1>r, <2>1 DEF OpInv, Work, Running
    <2>6. QED
      BY <2>2, <2>3, <2>4, <2>5 DEF OpInv
  <1>3. CASE Complete(o)
    <2>1. /\ pc[o] = "audited"
          /\ UNCHANGED <<chain, signal, started, stage, task, out, diverted>>
      BY <1>3 DEF Complete, stageVars
    <2>2. CASE ReleaseRequest(o) /\ pc'[o] = "ok"
      BY <1>r, <2>1, <2>2 DEF Running
    <2>3. CASE pc'[o] = "failing" /\ UNCHANGED tableVars
      <3>1. UNCHANGED <<active, finished, pending>>
        BY <2>3 DEF tableVars
      <3>2. \A j \in Slots : StageWork(o, j)' /\ StageFlow(o, j)'
        BY <2>1, <2>3, <3>1, StagesKept DEF Live
      <3>3. Holding(o)' /\ Shape(o)' /\ Through(o)'
        BY <2>1, <2>3, <3>1 DEF OpInv, Holding, Shape, Through, Running, Settling
      <3>4. Work(o)'
        BY <1>0, <2>1, <2>3, <3>1 DEF OpInv, Work, Running
      <3>5. QED
        BY <3>2, <3>3, <3>4 DEF OpInv
    <2>4. QED
      BY <1>3, <2>2, <2>3 DEF Complete, Goto, TypeOK
  <1>4. CASE Fail(o)
    BY <1>4, <1>r DEF Fail, Goto, TypeOK, Running, stageVars
  <1>5. QED
    BY <1>1, <1>2, <1>3, <1>4 DEF Advance

\* A failing source or destination, an abort, or the clock: nobody's promise
\* settles, and a stage that gave up its wait is known to be aborted.
LEMMA InterruptStep ==
    ASSUME TypeOK, NEW o \in Requests, OpInv(o), EndpointFails(o) \/ Abort(o) \/ Expire(o)
    PROVE  OpInv(o)'
  <1>0. /\ StagesOf(o)' = StagesOf(o) /\ StagesOf(o) \subseteq Slots
        /\ UNCHANGED <<active, finished, pending, chain, started, task, out, diverted>>
    <2>1. UNCHANGED <<active, finished, pending, chain, started, task, out, diverted>>
      BY DEF EndpointFails, Abort, Expire, engineVars, stageVars
    <2>2. StagesOf(o) \subseteq Slots
      BY StagesAreSlots DEF OpInv
    <2>3. QED
      BY <2>1, <2>2 DEF StagesOf
  <1>1. CASE EndpointFails(o)
    <2>1. pc[o] = "streaming" /\ pc'[o] = "failing" /\ signal' = signal
      BY <1>1 DEF EndpointFails, Goto, TypeOK
    <2>2. \A j \in Slots : stage'[o][j] = stage[o][j] \/ (stage[o][j] = "drain" /\ stage'[o][j] = "dead")
      BY <1>1 DEF EndpointFails, Closed, TypeOK
    <2>3. \A j \in Slots : StageWork(o, j)' /\ StageFlow(o, j)'
      BY <1>0, <2>1, <2>2, StagesKept DEF Live
    <2>4. Holding(o)' /\ Shape(o)' /\ Work(o)' /\ Through(o)'
      BY <1>0, <2>1 DEF OpInv, Holding, Shape, Work, Through, Running, Settling
    <2>5. QED
      BY <2>3, <2>4 DEF OpInv
  <1>2. CASE Abort(o)
    <2>1. /\ pc'[o] = IF pc[o] \in {"streaming", "auditing"} THEN "failing" ELSE pc[o]
          /\ signal'[o] = "aborted"
      BY <1>2 DEF Abort, TypeOK
    <2>2. \A j \in Slots : stage'[o][j] = CASE stage[o][j] = "awaiting" /\ ~IsNative(o, j) -> "rejected"
                                         [] stage[o][j] = "delay"    -> "caught"
                                         [] stage[o][j] = "drain"    -> "dead"
                                         [] OTHER                    -> stage[o][j]
      BY <1>2 DEF Abort, TypeOK
    <2>3. ASSUME NEW j \in Slots PROVE StageWork(o, j)' /\ StageFlow(o, j)'
      <3>1. StageWork(o, j) /\ StageFlow(o, j)
        BY <2>3 DEF OpInv
      <3>2. StageWork(o, j)'
        BY <1>0, <2>1, <2>2, <2>3, <3>1 DEF StageWork, Live
      <3>3. StageFlow(o, j)'
        BY <1>0, <2>1, <2>2, <2>3, <3>1 DEF StageFlow, IsNative, Busy, Stages
      <3>4. QED
        BY <3>2, <3>3
    <2>4. Holding(o)' /\ Shape(o)'
      BY <1>0, <2>1 DEF OpInv, Holding, Shape, Running, Settling
    <2>5. \A j \in StagesOf(o) : stage[o][j] = "waiting" => stage'[o][j] = "waiting"
      BY <1>0, <2>2
    <2>6. Work(o)' /\ Through(o)'
      BY <1>0, <2>1, <2>5 DEF OpInv, Work, Through, Running
    <2>7. QED
      BY <2>3, <2>4, <2>6 DEF OpInv
  <1>3. CASE Expire(o)
    <2>1. UNCHANGED <<pc, stage>> /\ Live(o)
      BY <1>3 DEF Expire, stageVars
    <2>2. \A j \in Slots : StageWork(o, j)' /\ StageFlow(o, j)'
      BY <1>0, <2>1, StagesKept
    <2>3. Holding(o)' /\ Shape(o)' /\ Work(o)' /\ Through(o)'
      BY <1>0, <2>1 DEF OpInv, Holding, Shape, Work, Through
    <2>4. QED
      BY <2>2, <2>3 DEF OpInv
  <1>4. QED
    BY <1>1, <1>2, <1>3

\* A promise settles: the stage that waits for it continues, and the last one
\* of an answered operation performs the postponed release.
LEMMA SettleStep ==
    ASSUME TypeOK, NEW o \in Requests, OpInv(o), NEW w \in pending[o],
           NEW fulfilled \in BOOLEAN, PromiseSettles(o, w, fulfilled)
    PROVE  OpInv(o)'
  <1>0. /\ StagesOf(o)' = StagesOf(o) /\ StagesOf(o) \subseteq Slots
        /\ UNCHANGED <<chain, signal, started, task, out, diverted>>
        /\ pending'[o] = pending[o] \ {w}
    <2>1. UNCHANGED <<chain, signal, started, task, out, diverted>>
      BY DEF PromiseSettles
    <2>2. StagesOf(o) \subseteq Slots
      BY StagesAreSlots DEF OpInv
    <2>3. pending'[o] = pending[o] \ {w}
      BY DEF PromiseSettles, Settled, TypeOK, EngineTypeOK
    <2>4. QED
      BY <2>1, <2>2, <2>3 DEF StagesOf
  <1>1. /\ o \in active' <=> o \in active /\ ~(pending[o] = {w} /\ o \in finished)
        /\ o \in finished' <=> o \in finished /\ pending[o] # {w}
    BY DEF PromiseSettles, Settled, Forget
  <1>2. Shape(o)'
    <2>1. pc'[o] \in {"idle", "refused"} => pc[o] \in {"idle", "refused"}
      BY DEF PromiseSettles, Goto, TypeOK
    <2>2. QED
      BY <1>0, <2>1 DEF OpInv, Shape
  <1>3. CASE pc[o] = "auditing" /\ w = started[o]
    <2>1. pc'[o] \in {"audited", "failing"} /\ stage' = stage
      BY <1>3 DEF PromiseSettles, Goto, TypeOK
    <2>2. /\ \A k \in StagesOf(o) : stage[o][k] = "waiting" /\ out[o][k] = Chunks
          /\ pending'[o] = {}
      <3>1. \A k \in StagesOf(o) : stage[o][k] = "waiting" /\ out[o][k] = Chunks
        BY <1>3 DEF OpInv, Through
      <3>2. \A k \in StagesOf(o) : task[o][k] \notin pending[o]
        BY <1>0, <3>1 DEF OpInv, StageWork
      <3>3. pending[o] \subseteq {started[o]}
        BY <3>2 DEF OpInv, Work
      <3>4. QED
        BY <1>0, <1>3, <3>1, <3>3
    <2>3. \A j \in Slots : StageWork(o, j)' /\ StageFlow(o, j)'
      BY <1>0, <1>3, <2>1, StagesKept DEF Live
    <2>4. Holding(o)'
      BY <1>1, <1>3, <2>1, <2>2 DEF OpInv, Holding, Running, Settling
    <2>5. Work(o)' /\ Through(o)'
      BY <1>0, <2>1, <2>2 DEF Work, Through
    <2>6. QED
      BY <1>2, <2>3, <2>4, <2>5 DEF OpInv
  <1>4. CASE ~(pc[o] = "auditing" /\ w = started[o])
    <2>1. pc' = pc
      BY <1>4 DEF PromiseSettles
    <2>2. \A j \in Slots : stage'[o][j] = IF stage[o][j] = "awaiting" /\ task[o][j] = w
                                         THEN IF fulfilled /\ (Live(o) \/ IsNative(o, j))
                                              THEN "resolved" ELSE "rejected"
                                         ELSE stage[o][j]
      BY <1>4 DEF PromiseSettles, TypeOK
    <2>3. ASSUME NEW j \in Slots PROVE StageWork(o, j)' /\ StageFlow(o, j)'
      <3>1. StageWork(o, j) /\ StageFlow(o, j)
        BY <2>3 DEF OpInv
      <3>2. StageWork(o, j)'
        BY <1>0, <2>2, <2>3, <3>1 DEF StageWork, Live
      <3>3. Available(o, j)' <=> Available(o, j)
        BY <1>0 DEF Available
      <3>4. StageFlow(o, j)'
        BY <1>0, <2>1, <2>2, <2>3, <3>1, <3>3 DEF StageFlow, IsNative, Busy, Stages
      <3>5. QED
        BY <3>2, <3>4
    <2>4. Holding(o)'
      BY <1>0, <1>1, <2>1 DEF OpInv, Holding, Running, Settling
    <2>5. \A j \in StagesOf(o) : stage[o][j] = "waiting" => stage'[o][j] = "waiting"
      BY <1>0, <2>2
    <2>6. Work(o)' /\ Through(o)'
      BY <1>0, <2>1, <2>5 DEF OpInv, Work, Through
    <2>7. QED
      BY <1>2, <2>3, <2>4, <2>6 DEF OpInv
  <1>5. QED
    BY <1>3, <1>4

(***************************************************************************)
(* Operations do not disturb each other, except through the sink.          *)
(***************************************************************************)

\* The step leaves everything that belongs to operation q alone.
Same(q) ==
    /\ SameRequest(q)
    /\ pc'[q] = pc[q] /\ chain'[q] = chain[q] /\ signal'[q] = signal[q]
    /\ started'[q] = started[q] /\ stage'[q] = stage[q] /\ task'[q] = task[q]
    /\ out'[q] = out[q] /\ diverted'[q] = diverted[q]

\* The invariant of an operation survives what leaves the operation alone.
LEMMA Frame ==
    ASSUME TypeOK, NEW q \in Requests, OpInv(q), Same(q)
    PROVE  OpInv(q)'
  <1>1. \A j \in Slots : StageWork(q, j)' /\ StageFlow(q, j)'
    BY StagesKept DEF Same, SameRequest, Live
  <1>2. StagesOf(q)' = StagesOf(q)
    BY DEF Same, StagesOf
  <1>3. Holding(q)' /\ Shape(q)' /\ Work(q)' /\ Through(q)'
    BY <1>2 DEF Same, SameRequest, OpInv, Holding, Shape, Work, Through
  <1>4. QED
    BY <1>1, <1>3 DEF OpInv

\* A step of one operation leaves the others alone.
LEMMA OthersSame ==
    ASSUME TypeOK, NEW o \in Requests, NEW q \in Requests \ {o}, StepOf(o)
    PROVE  Same(q)
  <1>1. SameRequest(q)
    BY StepOnTable, OtherRequests DEF TypeOK
  <1> DEFINE Rest == /\ pc'[q] = pc[q] /\ chain'[q] = chain[q] /\ signal'[q] = signal[q]
                     /\ started'[q] = started[q] /\ stage'[q] = stage[q] /\ task'[q] = task[q]
                     /\ out'[q] = out[q] /\ diverted'[q] = diverted[q]
  <1>2. ASSUME NEW hasSchema, Refuse(o, hasSchema) PROVE Rest
    BY <1>2 DEF Refuse, Goto, TypeOK, stageVars
  <1>3. ASSUME NEW m, Call(o, m) PROVE Rest
    BY <1>3 DEF Call, Goto, TypeOK, stageVars
  <1>4. ASSUME Advance(o) PROVE Rest
    BY <1>4 DEF Advance, PipelineResolves, Audit, Complete, Fail, Goto, TypeOK, stageVars
  <1>5. ASSUME EndpointFails(o) \/ Abort(o) \/ Expire(o) PROVE Rest
    BY <1>5 DEF EndpointFails, Abort, Expire, Goto, TypeOK, stageVars
  <1>6. ASSUME NEW w, NEW fulfilled, PromiseSettles(o, w, fulfilled) PROVE Rest
    BY <1>6 DEF PromiseSettles, Goto, TypeOK
  <1>7. ASSUME NEW k, StageStep(o, k) \/ StageTimer(o, k) PROVE Rest
    <2>1. ASSUME Report(o, k) PROVE pc'[q] = pc[q] /\ stage'[q] = stage[q]
      BY <2>1 DEF Report, SetStage, Goto, TypeOK
    <2>2. ASSUME StartAttempt(o, k)
          PROVE  stage'[q] = stage[q] /\ started'[q] = started[q] /\ task'[q] = task[q]
      BY <2>2 DEF StartAttempt, StartTask, SetStage, TypeOK
    <2>3. ASSUME NEW to, SetStage(o, k, to) PROVE stage'[q] = stage[q]
      BY <2>3 DEF SetStage, TypeOK
    <2>4. CASE NativeStep(o, k) \/ NativeFails(o, k)
      BY <2>1, <2>3, <2>4 DEF NativeStep, NativeFails, TypeOK
    <2>10. CASE NativeCalls(o, k)
      BY <2>10 DEF NativeCalls, StartTask, SetStage, TypeOK
    <2>5. CASE TakeChunk(o, k) \/ StageRejected(o, k) \/ StageDelayElapsed(o, k)
      BY <2>2, <2>3, <2>5 DEF TakeChunk, StageRejected, StageDelayElapsed
    <2>6. CASE StageResolved(o, k)
      BY <2>3, <2>6 DEF StageResolved, TypeOK
    <2>7. CASE StageCaught(o, k)
      BY <2>1, <2>3, <2>7 DEF StageCaught, TypeOK
    <2>8. CASE StageTimer(o, k)
      BY <2>3, <2>8 DEF StageTimer
    <2>9. QED
      BY <1>7, <2>4, <2>5, <2>6, <2>7, <2>8, <2>10 DEF StageStep
  <1>8. Rest
    BY <1>2, <1>3, <1>4, <1>5, <1>6, <1>7 DEF StepOf
  <1>9. QED
    BY <1>1, <1>8 DEF Same

\* A step of an operation preserves its own invariant.
LEMMA OwnStep ==
    ASSUME TypeOK, NEW o \in Requests, OpInv(o), StepOf(o)
    PROVE  OpInv(o)'
  BY EntryStep, AdvanceStep, InterruptStep, SettleStep, StageOwnStep DEF StepOf

\* The events of the failure sink.
SinkStep == SinkDrains \/ SinkFails \/ SinkCloses

\* The sink releases every stage that waits for it, of whatever operation, and
\* touches no promise and no request.
LEMMA SinkInv ==
    ASSUME TypeOK, \A o \in Requests : OpInv(o), SinkStep
    PROVE  StreamTypeOK' /\ UNCHANGED engineVars /\ \A o \in Requests : OpInv(o)'
  <1>1. CASE SinkCloses
    <2>1. StreamTypeOK' /\ UNCHANGED engineVars
      BY <1>1 DEF SinkCloses, StreamTypeOK, TypeOK, stageVars
    <2>2. \A q \in Requests : Same(q)
      BY <1>1 DEF SinkCloses, Same, SameRequest, engineVars, stageVars
    <2>3. QED
      BY <2>1, <2>2, Frame
  <1>2. ASSUME NEW to \in {"ready", "errored"}, SinkReleases(to)
        PROVE  StreamTypeOK' /\ UNCHANGED engineVars /\ \A o \in Requests : OpInv(o)'
    <2>1. \A q \in Requests : Closed(stage[q]) \in [Slots -> Stages]
      BY ClosedType DEF TypeOK
    <2>2. stage' \in [Requests -> [Slots -> Stages]]
      BY <1>2, <2>1 DEF SinkReleases
    <2>3. pc' \in [Requests -> {"idle"} \cup Running \cup Settling]
      BY <1>2 DEF SinkReleases, TypeOK, Running
    <2>4. StreamTypeOK' /\ UNCHANGED engineVars
      BY <1>2, <2>2, <2>3 DEF SinkReleases, StreamTypeOK, TypeOK
    <2>5. ASSUME NEW q \in Requests PROVE OpInv(q)'
      <3>0. UNCHANGED <<active, finished, pending, chain, signal, started, task, out, diverted>>
        BY <1>2 DEF SinkReleases, engineVars
      <3>1. pc'[q] = pc[q] \/ (pc[q] = "streaming" /\ pc'[q] = "failing")
        BY <1>2, <2>5 DEF SinkReleases
      <3>2. \A j \in Slots : stage'[q][j] = stage[q][j] \/ (stage[q][j] = "drain" /\ stage'[q][j] = "dead")
        BY <1>2, <2>5 DEF SinkReleases, Closed
      <3>3. StagesOf(q)' = StagesOf(q) /\ StagesOf(q) \subseteq Slots
        <4>1. StagesOf(q) \subseteq Slots
          BY <2>5, StagesAreSlots DEF OpInv
        <4>2. QED
          BY <3>0, <4>1 DEF StagesOf
      <3>4. \A j \in Slots : StageWork(q, j)' /\ StageFlow(q, j)'
        BY <2>5, <3>0, <3>1, <3>2, StagesKept DEF Live
      <3>5. Holding(q)' /\ Shape(q)'
        BY <2>5, <3>0, <3>1 DEF OpInv, Holding, Shape, Running, Settling
      <3>6. \A j \in StagesOf(q) : stage[q][j] = "waiting" => stage'[q][j] = "waiting"
        BY <3>2, <3>3
      <3>7. Work(q)' /\ Through(q)'
        BY <2>5, <3>0, <3>1, <3>3, <3>6 DEF OpInv, Work, Through, Running
      <3>8. QED
        BY <3>4, <3>5, <3>7 DEF OpInv
    <2>6. QED
      BY <2>4, <2>5
  <1>3. QED
    BY <1>1, <1>2 DEF SinkStep, SinkDrains, SinkFails

(***************************************************************************)
(* The invariant is inductive.                                             *)
(***************************************************************************)

\* The initial state satisfies the invariant.
LEMMA InvariantInit ==
    Init => IInv
  <1> SUFFICES ASSUME Init PROVE IInv
    OBVIOUS
  <1>1. EngineTypeOK /\ CapacityBound /\ active = {} /\ finished = {}
        /\ \A r \in Requests : pending[r] = {}
    BY EngineInitType, CapacityInit DEF Init
  <1>2. TypeOK
    <2>1. /\ chain \in [Requests -> Seq(PluginIds)] /\ 0 \in 0 .. Chunks
      BY StreamAssumption DEF Init
    <2>2. QED
      BY <1>1, <2>1, StreamAssumption DEF Init, TypeOK, Stages
  <1>3. ASSUME NEW o \in Requests PROVE OpInv(o)
    <2>1. /\ pc[o] = "idle" /\ chain[o] = <<>> /\ diverted[o] = {} /\ started[o] = 0
          /\ \A k \in Slots : stage[o][k] = "waiting" /\ task[o][k] = 0
      BY <1>3 DEF Init
    <2>2. Holding(o) /\ Shape(o)
      BY <1>1, <1>3, <2>1, EngineAssumption DEF Holding, Shape, Running, Settling
    <2>3. Work(o) /\ Through(o)
      BY <1>1, <1>3, <2>1 DEF Work, Through
    <2>4. \A k \in Slots : StageWork(o, k) /\ StageFlow(o, k)
      BY <1>1, <1>3, <2>1 DEF StageWork, StageFlow, Busy
    <2>5. QED
      BY <2>2, <2>3, <2>4 DEF OpInv
  <1>4. QED
    BY <1>1, <1>2, <1>3 DEF IInv

\* The next-state relation, by who takes the step.
LEMMA NextCases ==
    Next <=> Configure \/ (\E o \in Requests : StepOf(o)) \/ SinkStep
  BY DEF Next, StepOf, SinkStep

\* Every step of the system preserves the invariant.
LEMMA InvariantStep ==
    IInv /\ [Next]_vars => IInv'
  <1> SUFFICES ASSUME IInv, [Next]_vars PROVE IInv'
    OBVIOUS
  <1>t. ASSUME EngineTypeOK', StreamTypeOK' PROVE TypeOK'
    BY <1>t DEF TypeOK, StreamTypeOK
  <1>0. /\ TypeOK /\ EngineTypeOK /\ CapacityBound /\ StreamTypeOK
        /\ \A o \in Requests : OpInv(o)
    BY DEF IInv, TypeOK, StreamTypeOK
  <1>s. ASSUME UNCHANGED streamVars, UNCHANGED tableVars
        PROVE  StreamTypeOK' /\ \A q \in Requests : OpInv(q)'
    <2>1. StreamTypeOK'
      BY <1>0, <1>s DEF StreamTypeOK, streamVars, stageVars
    <2>2. \A q \in Requests : Same(q)
      BY <1>s DEF Same, SameRequest, streamVars, stageVars, tableVars
    <2>3. QED
      BY <1>0, <2>1, <2>2, Frame
  <1>1. CASE Configure
    <2>1. Reconfigure /\ UNCHANGED streamVars
      BY <1>1 DEF Configure, Reconfigure
    <2>2. EngineTypeOK' /\ CapacityBound' /\ UNCHANGED tableVars
      BY <1>0, <2>1, ReconfigureType, CapacityReconfigured, ReconfigureSame
    <2>3. QED
      BY <1>s, <1>t, <2>1, <2>2 DEF IInv
  <1>2. ASSUME NEW o \in Requests, StepOf(o) PROVE IInv'
    <2>1. TableStep(o) /\ UNCHANGED configVars
      BY <1>0, <1>2, StepOnTable
    <2>2. EngineTypeOK'
      BY <1>0, <1>2, <2>1, TableStepType
    <2>3. StreamTypeOK'
      BY <1>0, <1>2, StageTypeStep, OperationTypeStep
    <2>4. CapacityBound'
      <3>1. MayStart \/ active' \subseteq active
        <4>1. CASE \E m \in {"process", "reverse"} : Call(o, m)
          BY <4>1 DEF Call
        <4>2. CASE ~StartRequest(o)
          BY <2>1, <4>2 DEF TableStep, TrackWork, ReleaseRequest, Settled, Forget, tableVars
        <4>3. CASE StartRequest(o) /\ ~\E m \in {"process", "reverse"} : Call(o, m)
          <5>1. active' = active \/ active' \subseteq active
            BY <1>2, <4>3 DEF StepOf, Refuse, Advance, PipelineResolves, Audit, Complete, Fail,
                EndpointFails, Abort, Expire, StageStep, NativeStep, NativeCalls, NativeFails, TakeChunk,
                StageRejected, StageDelayElapsed, StageResolved, StageCaught, StageTimer, StartAttempt, StartTask,
                PromiseSettles, TrackWork, ReleaseRequest, Settled, Forget, engineVars, tableVars
          <5>2. QED
            BY <5>1
        <4>4. QED
          BY <4>1, <4>2, <4>3
      <3>2. QED
        BY <1>0, <1>2, <2>1, <3>1, CapacityKept
    <2>5. ASSUME NEW q \in Requests PROVE OpInv(q)'
      <3>1. CASE q = o
        BY <1>0, <1>2, <3>1, OwnStep
      <3>2. CASE q # o
        BY <1>0, <1>2, <2>5, <3>2, OthersSame, Frame
      <3>3. QED
        BY <3>1, <3>2
    <2>6. QED
      BY <1>t, <2>2, <2>3, <2>4, <2>5 DEF IInv
  <1>3. CASE SinkStep
    <2>1. StreamTypeOK' /\ UNCHANGED engineVars /\ \A q \in Requests : OpInv(q)'
      BY <1>0, <1>3, SinkInv
    <2>2. EngineTypeOK' /\ CapacityBound'
      BY <1>0, <2>1, SameTableType DEF CapacityBound, engineVars
    <2>3. QED
      BY <1>t, <2>1, <2>2 DEF IInv
  <1>4. CASE UNCHANGED vars
    <2>1. UNCHANGED streamVars /\ UNCHANGED tableVars /\ UNCHANGED engineVars
      BY <1>4 DEF vars, engineVars, tableVars
    <2>2. EngineTypeOK' /\ CapacityBound'
      BY <1>0, <2>1, SameTableType DEF CapacityBound, engineVars
    <2>3. QED
      BY <1>s, <1>t, <2>1, <2>2 DEF IInv
  <1>5. QED
    BY <1>1, <1>2, <1>3, <1>4, NextCases

\* The invariant holds in every reachable state.
THEOREM Invariance == Spec => []IInv
  BY InvariantInit, InvariantStep, PTL DEF Spec

(***************************************************************************)
(* What follows for the properties.                                        *)
(***************************************************************************)

\* The state stays well typed; in particular no stage emits more chunks than
\* it was given, in whatever order the stages work, fail or are destroyed.
THEOREM TypeCorrect == Spec => []TypeOK
  BY Invariance, PTL DEF IInv

\* No image of n slots has more than n elements.
LEMMA ImageBound ==
    ASSUME NEW n \in Nat, NEW f, NEW S, S \subseteq {f[k] : k \in 1 .. n}
    PROVE  IsFiniteSet(S) /\ Cardinality(S) <= n
  <1> DEFINE T == {f[k] : k \in 1 .. n}
             g == [k \in 1 .. n |-> f[k]]
  <1>1. IsFiniteSet(1 .. n) /\ Cardinality(1 .. n) = n
    <2>1. IsFiniteSet(1 .. n) /\ Cardinality(1 .. n) = IF 1 > n THEN 0 ELSE n - 1 + 1
      <3>1. 1 \in Int /\ n \in Int
        OBVIOUS
      <3>2. QED
        BY <3>1, FS_Interval, Zenon
    <2>2. QED
      BY <2>1
  <1>2. g \in Surjection(1 .. n, T)
    BY DEF Surjection
  <1>3. IsFiniteSet(T) /\ Cardinality(T) <= n
    BY <1>1, <1>2, FS_Surjection
  <1>4. IsFiniteSet(S) /\ Cardinality(S) <= Cardinality(T)
    BY <1>3, FS_Subset
  <1>5. Cardinality(S) \in Nat /\ Cardinality(T) \in Nat
    BY <1>3, <1>4, FS_CardinalityType
  <1>6. QED
    BY <1>3, <1>4, <1>5

\* The invariant implies the accounting of capacity, the bound on unsettled
\* promises, and that a diverted chunk spoils its operation.
LEMMA InvariantImplies ==
    IInv => CapacityAccounted /\ OnePromisePerStage /\ DivertedNeverSucceeds
  <1> SUFFICES ASSUME IInv PROVE CapacityAccounted /\ OnePromisePerStage /\ DivertedNeverSucceeds
    OBVIOUS
  <1>0. TypeOK /\ \A o \in Requests : OpInv(o)
    BY DEF IInv
  <1>1. CapacityAccounted
    BY <1>0 DEF TypeOK, EngineTypeOK, OpInv, Holding, CapacityAccounted
  <1>2. OnePromisePerStage
    <2>1. SUFFICES ASSUME NEW o \in Requests
                   PROVE  Cardinality(pending[o]) <= IF chain[o] = <<>> THEN 1 ELSE Len(chain[o])
      BY DEF OnePromisePerStage
    <2>2. /\ Len(chain[o]) \in Nat
          /\ chain[o] = <<>> => Len(chain[o]) = 0
          /\ chain[o] # <<>> => Len(chain[o]) >= 1
      BY <1>0, <2>1 DEF TypeOK
    <2>3. CASE pending[o] \subseteq {task[o][k] : k \in StagesOf(o)}
      <3>1. IsFiniteSet(pending[o]) /\ Cardinality(pending[o]) <= Len(chain[o])
        BY <2>2, <2>3, ImageBound DEF StagesOf
      <3>2. Cardinality(pending[o]) \in Nat
        BY <3>1, FS_CardinalityType
      <3>3. QED
        BY <2>2, <3>1, <3>2
    <2>4. CASE pending[o] \subseteq {started[o]}
      <3>1. Cardinality({started[o]}) = 1 /\ IsFiniteSet({started[o]})
        BY FS_Singleton
      <3>2. Cardinality(pending[o]) <= 1 /\ IsFiniteSet(pending[o])
        BY <2>4, <3>1, FS_Subset
      <3>3. Cardinality(pending[o]) \in Nat
        BY <3>2, FS_CardinalityType
      <3>4. QED
        BY <2>2, <3>2, <3>3
    <2>5. QED
      BY <1>0, <2>1, <2>3, <2>4 DEF OpInv, Work
  <1>3. DivertedNeverSucceeds
    <2>1. SUFFICES ASSUME NEW o \in Requests, NEW k \in diverted[o]
                   PROVE  pc[o] \notin {"finish", "auditing", "audited", "ok"}
      BY DEF DivertedNeverSucceeds
    <2>2. k \in Slots
      BY <1>0, <2>1 DEF TypeOK
    <2>3. k \in StagesOf(o) /\ stage[o][k] # "waiting"
      BY <1>0, <2>1, <2>2 DEF OpInv, StageFlow
    <2>4. QED
      BY <1>0, <2>1, <2>3 DEF OpInv, Through
  <1>4. QED
    BY <1>1, <1>2, <1>3

\* releaseRequest and trackWork leak no capacity when a pipeline fails while
\* its stages are still at work.
THEOREM CapacityIsAccounted == Spec => []CapacityAccounted
  BY Invariance, InvariantImplies, PTL

\* A stage has at most one unsettled promise, so work that was aborted or
\* timed out does not pile up behind withRetry.
THEOREM PromisesAreBounded == Spec => []OnePromisePerStage
  BY Invariance, InvariantImplies, PTL

\* A chunk that went to the failure sink keeps its operation from succeeding.
THEOREM DivertedChunkFails == Spec => []DivertedNeverSucceeds
  BY Invariance, InvariantImplies, PTL

\* startRequest keeps streams within maxConcurrentOperations.
THEOREM ConcurrencyIsBounded == Spec => []CapacityBound
  BY Invariance, PTL DEF IInv

\* A step that gives a stage a new promise finds its previous one settled.
LEMMA CallsFollowSettling ==
    ASSUME TypeOK, \A q \in Requests : OpInv(q), [Next]_vars,
           NEW o \in Requests, NEW k \in Slots, task'[o][k] # task[o][k]
    PROVE  task[o][k] \notin pending[o]
  <1>1. ~(Configure \/ SinkStep \/ UNCHANGED vars)
    BY DEF Configure, SinkStep, SinkDrains, SinkFails, SinkReleases, SinkCloses, vars,
           streamVars, stageVars
  <1>2. ASSUME NEW q \in Requests, q # o PROVE ~StepOf(q)
    BY <1>2, OthersSame DEF Same
  <1>3. StepOf(o)
    BY <1>1, <1>2, NextCases
  <1>4. PICK j \in StagesOf(o) : StageStep(o, j) \/ StageTimer(o, j)
    BY <1>3 DEF StepOf, Refuse, Call, Advance, PipelineResolves, Audit, Complete, Fail,
                EndpointFails, Abort, Expire, PromiseSettles, stageVars
  <1>5. j \in Slots /\ StageEffect(o, j)
    BY <1>4, StagesAreSlots, StageStepEffect DEF OpInv
  <1>6. Starts(o, j)
    BY <1>5 DEF StageEffect
  <1>7. j = k
    BY <1>6 DEF Starts, TypeOK
  <1>8. StageWork(o, k)
    BY DEF OpInv
  <1>9. QED
    BY <1>6, <1>7, <1>8 DEF Starts, StageWork

\* A timer, an abort or a failed pipeline may abandon a promise, but no stage
\* calls its plugin again before that promise has settled.
THEOREM StageCallsNeverOverlap == Spec => StageNoOverlap
  <1>1. IInv /\ [Next]_vars =>
            [\A o \in Requests, k \in Slots :
                task'[o][k] # task[o][k] => task[o][k] \notin pending[o]]_vars
    BY CallsFollowSettling DEF IInv
  <1>2. QED
    BY <1>1, Invariance, PTL DEF Spec, StageNoOverlap

(***************************************************************************)
(* The capacity contract.  A stage that retries may start work after its   *)
(* request was released, which the contract forbids; retries are the only  *)
(* way to break it.                                                        *)
(***************************************************************************)

\* withRetry is never asked for a second attempt.
NoRetries == \A p \in PluginIds : p \in Native \/ Attempts[p] = 1

\* No stage is in a back-off.
NoDelay == \A o \in Requests, k \in Slots : stage[o][k] # "delay"

\* Without retries a stage neither backs off nor calls its plugin once its
\* pipeline is gone.
LEMMA SingleAttempt ==
    ASSUME NoRetries, TypeOK, NEW o \in Requests, OpInv(o), NoDelay, NEW k \in StagesOf(o),
           StageStep(o, k) \/ StageTimer(o, k)
    PROVE  /\ \A j \in Slots : stage'[o][j] # "delay"
           /\ UNCHANGED tableVars \/ (pc[o] = "streaming" /\ \E w \in Nat \ {0} : TrackWork(o, w))
  <1>0. /\ k \in Slots /\ StageEffect(o, k) /\ chain[o][k] \in PluginIds
        /\ tries[o][k] \in Nat /\ started[o] + 1 \in Nat \ {0} /\ \A j \in Slots : stage[o][j] # "delay"
    <2>1. k \in Slots /\ StageEffect(o, k) /\ chain[o][k] \in PluginIds
      BY StagesAreSlots, StageStepEffect DEF OpInv
    <2>2. tries[o] \in [Slots -> Nat] /\ started[o] \in Nat
      BY DEF TypeOK
    <2>3. QED
      BY <2>1, <2>2 DEF NoDelay
  <1>1. \A j \in Slots \ {k} : stage'[o][j] # "delay"
    BY <1>0 DEF StageEffect
  <1>2. CASE StageRejected(o, k)
    <2>1. ~(tries[o][k] + 1 < Attempts[chain[o][k]])
      BY <1>0, <1>2 DEF NoRetries, StageRejected, IsNative
    <2>2. SetStage(o, k, "caught") /\ UNCHANGED tableVars
      BY <1>2, <2>1 DEF StageRejected
    <2>3. QED
      BY <1>0, <1>1, <2>2, SetStageEffect
  <1>t. ASSUME StartTask(o, k)
        PROVE  stage'[o][k] # "delay" /\ \E w \in Nat \ {0} : TrackWork(o, w)
    <2>1. SetStage(o, k, "awaiting") /\ TrackWork(o, started[o] + 1)
      BY <1>t DEF StartTask
    <2>2. stage'[o][k] = "awaiting"
      BY <1>0, <2>1, SetStageEffect
    <2>3. QED
      BY <1>0, <2>1, <2>2
  <1>c. ASSUME SetStage(o, k, "caught") PROVE stage'[o][k] # "delay"
    BY <1>0, <1>c, SetStageEffect
  <1>3. CASE TakeChunk(o, k)
    <2>1. /\ pc[o] = "streaming"
          /\ StartTask(o, k) \/ (SetStage(o, k, "caught") /\ UNCHANGED tableVars)
      BY <1>3 DEF TakeChunk, StartAttempt
    <2>2. QED
      BY <1>1, <1>c, <1>t, <2>1
  <1>4. CASE NativeCalls(o, k)
    BY <1>1, <1>4, <1>t DEF NativeCalls
  <1>5. CASE StageDelayElapsed(o, k)
    BY <1>0, <1>5 DEF StageDelayElapsed
  <1>6. CASE NativeStep(o, k) \/ NativeFails(o, k) \/ StageResolved(o, k) \/ StageCaught(o, k)
             \/ StageTimer(o, k)
    <2>1. UNCHANGED tableVars
      BY <1>6 DEF NativeStep, NativeFails, StageResolved, StageCaught, StageTimer, engineVars, tableVars
    <2>2. stage'[o][k] # "delay"
      BY <1>0, <1>6, SetStageEffect, ReportEffect
         DEF NativeStep, NativeFails, StageResolved, StageCaught, StageTimer
    <2>3. QED
      BY <1>1, <2>1, <2>2
  <1>7. QED
    BY <1>2, <1>3, <1>4, <1>5, <1>6 DEF StageStep

\* Without retries no stage ever backs off.
LEMMA NoDelayStep ==
    ASSUME NoRetries, IInv, NoDelay, [Next]_vars
    PROVE  NoDelay'
  <1>0. TypeOK /\ \A o \in Requests : OpInv(o)
    BY DEF IInv
  <1>1. CASE Configure \/ UNCHANGED vars
    BY <1>1 DEF Configure, vars, streamVars, stageVars, NoDelay
  <1>2. CASE SinkStep
    BY <1>2 DEF SinkStep, SinkDrains, SinkFails, SinkReleases, SinkCloses, Closed, stageVars, NoDelay
  <1>3. ASSUME NEW o \in Requests, StepOf(o) PROVE NoDelay'
    <2>1. ASSUME NEW q \in Requests \ {o}, NEW k \in Slots PROVE stage'[q][k] # "delay"
      BY <1>0, <1>3, <2>1, OthersSame DEF Same, NoDelay
    <2>2. ASSUME NEW k \in Slots PROVE stage'[o][k] # "delay"
      <3>1. stage[o][k] # "delay" /\ stage \in [Requests -> [Slots -> Stages]]
        BY <1>0, <2>2 DEF NoDelay, TypeOK
      <3>2. CASE \E j \in StagesOf(o) : StageStep(o, j) \/ StageTimer(o, j)
        BY <1>0, <2>2, <3>2, SingleAttempt
      <3>3. CASE EndpointFails(o) \/ Abort(o)
        BY <3>1, <3>3 DEF EndpointFails, Abort, Closed
      <3>4. ASSUME NEW w, NEW fulfilled, PromiseSettles(o, w, fulfilled)
            PROVE  stage'[o][k] # "delay"
        BY <3>1, <3>4 DEF PromiseSettles
      <3>5. CASE UNCHANGED stage
        BY <3>1, <3>5
      <3>6. QED
        BY <1>3, <3>2, <3>3, <3>4, <3>5 DEF StepOf, Refuse, Call, Advance, PipelineResolves, Audit,
                                            Complete, Fail, Expire, stageVars
    <2>3. QED
      BY <2>1, <2>2 DEF NoDelay
  <1>4. QED
    BY <1>1, <1>2, <1>3, NextCases

\* Without retries every step is a step of the capacity contract or leaves the
\* contract's state alone.
LEMMA ContractStep ==
    ASSUME NoRetries, IInv, NoDelay, [Next]_vars
    PROVE  [Capacity!Next]_(Capacity!capVars)
  <1>0. TypeOK /\ EngineTypeOK /\ \A o \in Requests : OpInv(o)
    BY DEF IInv, TypeOK
  <1>1. CASE SinkStep \/ UNCHANGED vars
    BY <1>0, <1>1, SinkInv, ContractQuiet DEF vars
  <1>2. CASE Configure
    BY <1>0, <1>2, ContractReconfigured DEF Configure, Reconfigure
  <1>3. ASSUME NEW o \in Requests, StepOf(o) PROVE [Capacity!Next]_(Capacity!capVars)
    <2>1. UNCHANGED configVars
      BY <1>0, <1>3, StepOnTable
    <2>2. AccountedStep(o)
      <3>0. OpInv(o) /\ started[o] + 1 \in Nat \ {0}
        BY <1>0, <1>3 DEF TypeOK
      <3>1. pc[o] \in Running => o \in active
        BY <3>0 DEF OpInv, Holding
      <3>2. pc[o] = "idle" => o \notin active
        BY <3>0 DEF OpInv, Holding, Running, Settling
      <3>3. ASSUME NEW m, Call(o, m) PROVE AccountedStep(o)
        BY <3>2, <3>3 DEF AccountedStep, Call
      <3>4. CASE Audit(o) \/ Complete(o) \/ Fail(o)
        BY <3>0, <3>1, <3>4 DEF AccountedStep, Audit, Complete, Fail, Running
      <3>5. ASSUME NEW w \in pending[o], NEW fulfilled, PromiseSettles(o, w, fulfilled)
            PROVE  AccountedStep(o)
        BY <3>5 DEF AccountedStep, PromiseSettles
      <3>6. ASSUME NEW k \in StagesOf(o), StageStep(o, k) \/ StageTimer(o, k)
            PROVE  AccountedStep(o)
        BY <1>0, <3>0, <3>1, <3>6, SingleAttempt DEF AccountedStep, Running
      <3>7. CASE UNCHANGED tableVars
        BY <3>7 DEF AccountedStep
      <3>8. QED
        BY <1>3, <3>3, <3>4, <3>5, <3>6, <3>7
           DEF StepOf, Refuse, Advance, PipelineResolves, EndpointFails, Abort, Expire,
               engineVars, tableVars
    <2>3. QED
      BY <1>0, <1>3, <2>1, <2>2, ContractKept
  <1>4. QED
    BY <1>1, <1>2, <1>3, NextCases

\* Streams whose wrapped plugins are not retried implement the capacity
\* contract of the engine, although their stages share one request, outlive
\* the pipeline and are abandoned by timers (trackWork, releaseRequest).
THEOREM StreamsImplementCapacity ==
    ASSUME NoRetries
    PROVE  Spec => CapacityContract
  <1>1. Init => Capacity!Init /\ NoDelay
    <2>1. Init => Capacity!Init
      BY ContractInit DEF Init
    <2>2. Init => NoDelay
      BY DEF Init, NoDelay
    <2>3. QED
      BY <2>1, <2>2
  <1>2. IInv /\ NoDelay /\ [Next]_vars => NoDelay' /\ [Capacity!Next]_(Capacity!capVars)
    BY NoDelayStep, ContractStep
  <1>3. QED
    BY <1>1, <1>2, Invariance, PTL DEF Spec, CapacityContract, Capacity!Spec
=============================================================================
