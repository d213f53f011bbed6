----------------------------- MODULE FileProofs -----------------------------
(***************************************************************************)
(* Proofs about FileOperations, for any number of operations on one output *)
(* path, inputs of any size, short reads and writes, aborts, failures and  *)
(* a crash at any moment.                                                  *)
(***************************************************************************)
EXTENDS FileOperations, EngineProofs

(***************************************************************************)
(* The inductive invariant.                                                *)
(***************************************************************************)

\* The session is open: its temporary file and its descriptors may exist.
InSession == {"streaming", "broken", "ran", "disposing"}

\* Capacity is held by running operations, and by answered ones whose release
\* was postponed.
Holding(o) ==
    /\ pc[o] \in Running => o \in active
    /\ o \in active => pc[o] \in Running \cup Settling
    /\ o \in active /\ pc[o] \in Settling => o \in finished
    /\ o \in finished => o \in active /\ pc[o] \in Settling /\ pending[o] # {}

\* No promise of a stage is left, and none will be made, before the operation
\* starts and once its pipeline has resolved; the audit promise is settled
\* once it was heard.
Work(o) ==
    /\ pc[o] \in {"idle", "refused", "ran", "finish", "auditing", "audited", "ok"} \/ o \in committed =>
          pending[o] \subseteq {AuditWork} /\ retrying[o] = {}
    /\ AuditWork \in pending[o] => pc[o] \in {"auditing", "failing", "failed"}

\* What is written or being written was read before, so a file is complete
\* when the pipeline has resolved, and nothing is written to it any more.
Bytes(o) ==
    /\ size[o] + chunk[o] <= fetched[o]
    /\ o \in eof => fetched[o] = Size
    /\ o \in writing => chunk[o] > 0
    /\ pc[o] = "ran" \/ o \in committed => size[o] = Size

\* Only a session that has ended is committed, and dispose() knows of every
\* native call that is still in flight.
Session(o) ==
    /\ pc[o] \in {"idle", "refused", "streaming", "broken", "ran"} => o \notin committed
    /\ pc[o] \in {"finish", "auditing", "audited", "ok"} => o \in committed
    /\ pc[o] = "disposing" /\ o \in reading => "read" \in waits[o]
    /\ pc[o] = "disposing" /\ o \in writing => "write" \in waits[o]

\* Nothing outlives the session, and native calls need its descriptors.
Resources(o) ==
    /\ o \in handles \cup files \cup dirs => pc[o] \in InSession
    /\ pc[o] \in InSession /\ ~crashed => o \in handles
    /\ o \in reading \cup writing => o \in handles
    /\ o \in committed => o \notin files
    /\ windows => o \notin dirs

OpInv(o) == Holding(o) /\ Work(o) /\ Bytes(o) /\ Session(o) /\ Resources(o)

\* The output path names a file that was committed.
OutputInv == output = Old \/ output \in committed

IInv ==
    /\ TypeOK
    /\ CapacityBound
    /\ OutputInv
    /\ \A o \in Requests : OpInv(o)

(***************************************************************************)
(* Steps of one operation.                                                 *)
(***************************************************************************)

\* A step of an operation: a call, a continuation, a stage, native I/O, an
\* abort, the clock, or the audit promise.
StepOf(o) ==
    \/ \E hasSchema \in BOOLEAN : Call(o, hasSchema)
    \/ Refuse(o) \/ Advance(o) \/ StageFails(o) \/ Read(o) \/ NativeCall(o)
    \/ Abort(o) \/ Expire(o)
    \/ \E bytes \in 1 .. fetched[o] - size[o] : Write(o, bytes)
    \/ \E fulfilled \in BOOLEAN : AuditSettles(o, fulfilled)
    \/ \E k \in StagesOf(o) : StageStep(o, k)

\* The next-state relation, by who takes the step.
LEMMA NextCases ==
    Next => Configure \/ Crash \/ \E o \in Requests : ~crashed /\ StepOf(o)
  BY DEF Next, StepOf

\* The stages of an operation are numbered from 1 and have plugins.
LEMMA StagesArePlugins ==
    ASSUME TypeOK, NEW o \in Requests, NEW k \in StagesOf(o)
    PROVE  k \in Nat \ {0} /\ k + 1 \in Nat \ {0, AuditWork} /\ chain[o][k] \in PluginIds
  <1>1. chain[o] \in Seq(PluginIds) /\ Len(chain[o]) \in Nat
    BY DEF TypeOK
  <1>2. QED
    BY <1>1 DEF StagesOf, AuditWork

\* An operation changes the table only through the engine methods, for itself.
LEMMA StepOnTable ==
    ASSUME TypeOK, NEW o \in Requests, StepOf(o)
    PROVE  TableStep(o) /\ UNCHANGED configVars
  <1> USE DEF TableStep, tableVars, configVars, engineVars
  <1>1. AuditWork \in Nat \ {0} /\ \A k \in StagesOf(o) : k + 1 \in Nat \ {0}
    BY StagesArePlugins DEF AuditWork
  <1>2. CASE Advance(o)
    BY <1>1, <1>2 DEF Advance, PipelineResolves, PipelineRejects, Finish, Cleanup, Audit,
                      Complete, Fail
  <1>3. CASE Read(o) \/ NativeCall(o) \/ \E bytes \in 1 .. fetched[o] - size[o] : Write(o, bytes)
    BY <1>3 DEF Read, NativeCall, ReadDone, WriteDone, Write
  <1>4. ASSUME NEW k \in StagesOf(o), StageStep(o, k) PROVE TableStep(o) /\ UNCHANGED configVars
    BY <1>1, <1>4 DEF StageStep, StageCalls, StageSettles, StageRetries
  <1>5. QED
    BY <1>1, <1>2, <1>3, <1>4 DEF StepOf, Call, Refuse, StageFails, Abort, Expire, AuditSettles

(***************************************************************************)
(* Type correctness.  The size of a file needs the invariant on bytes: a   *)
(* short write is continued with what is left of its chunk.                *)
(***************************************************************************)

\* The types of what belongs to the operations alone.
FileTypeOK ==
    /\ pc \in [Requests -> {"idle"} \cup Running \cup Settling]
    /\ signal \in [Requests -> {"live", "expired", "aborted"}]
    /\ chain \in [Requests -> Seq(PluginIds)]
    /\ retrying \in [Requests -> SUBSET (Nat \ {0})]
    /\ fetched \in [Requests -> 0 .. Size]
    /\ chunk \in [Requests -> 0 .. Size]
    /\ size \in [Requests -> 0 .. Size]
    /\ waits \in [Requests -> SUBSET {"read", "write"}]
    /\ eof \subseteq Requests /\ reading \subseteq Requests /\ writing \subseteq Requests
    /\ handles \subseteq Requests /\ disposed \subseteq Requests /\ committed \subseteq Requests
    /\ dirs \subseteq Requests /\ files \subseteq Requests
    /\ output \in Requests \cup {Old}
    /\ windows \in BOOLEAN
    /\ crashed \in BOOLEAN

\* The type invariant is the type of the table and of the operations.
LEMMA TypeParts ==
    TypeOK <=> EngineTypeOK /\ FileTypeOK
  BY DEF TypeOK, FileTypeOK

\* The numbers of an operation.
LEMMA ByteTypes ==
    ASSUME FileTypeOK, NEW o \in Requests
    PROVE  /\ fetched[o] \in Nat /\ fetched[o] <= Size
           /\ chunk[o] \in Nat /\ size[o] \in Nat /\ Size \in Nat
  BY FileAssumption DEF FileTypeOK

\* A move within the program keeps its type.
LEMMA GotoType ==
    ASSUME FileTypeOK, NEW o \in Requests, NEW to \in {"idle"} \cup Running \cup Settling, Goto(o, to)
    PROVE  /\ pc' \in [Requests -> {"idle"} \cup Running \cup Settling]
           /\ pc'[o] = to /\ \A q \in Requests \ {o} : pc'[q] = pc[q]
  BY DEF FileTypeOK, Goto

\* Continuations, aborts and the clock keep the state well typed.
LEMMA OperationTypeStep ==
    ASSUME TypeOK, FileTypeOK, NEW o \in Requests,
           \/ Refuse(o) \/ StageFails(o) \/ Abort(o) \/ Expire(o) \/ Advance(o)
           \/ \E hasSchema \in BOOLEAN : Call(o, hasSchema)
           \/ \E fulfilled \in BOOLEAN : AuditSettles(o, fulfilled)
    PROVE  FileTypeOK'
  <1>0. {"refused", "streaming", "broken", "ran", "disposing", "finish", "auditing", "audited",
         "failing", "ok", "failed"} \subseteq Running \cup Settling
    BY DEF Running, Settling
  <1> DEFINE PcOK == pc' \in [Requests -> {"idle"} \cup Running \cup Settling]
  <1>p. ASSUME PcOK, UNCHANGED <<signal, pipeVars, sessionVars, diskVars, host>>
        PROVE  FileTypeOK'
    BY <1>p DEF FileTypeOK, pipeVars, stageVars, ioVars, sessionVars, diskVars, host
  <1>d. ASSUME Dispose(o)
        PROVE  /\ PcOK /\ waits' \in [Requests -> SUBSET {"read", "write"}]
               /\ disposed' \subseteq Requests
    <2>1. PcOK
      BY <1>0, <1>d, GotoType DEF Dispose
    <2>2. QED
      BY <1>d, <2>1 DEF Dispose, FileTypeOK
  <1>1. CASE Refuse(o) \/ StageFails(o) \/ PipelineResolves(o) \/ Audit(o) \/ Fail(o)
    <2>1. PcOK
      BY <1>0, <1>1, GotoType DEF Refuse, StageFails, PipelineResolves, Audit, Fail
    <2>2. QED
      BY <1>1, <1>p, <2>1 DEF Refuse, StageFails, PipelineResolves, Audit, Fail
  <1>2. CASE Complete(o)
    <2>1. PcOK
      BY <1>0, <1>2, GotoType DEF Complete
    <2>2. QED
      BY <1>2, <1>p, <2>1 DEF Complete
  <1>3. ASSUME NEW fulfilled, AuditSettles(o, fulfilled) PROVE FileTypeOK'
    <2>1. PcOK
      <3>1. CASE pc[o] = "auditing"
        BY <1>0, <1>3, <3>1, GotoType DEF AuditSettles
      <3>2. CASE pc[o] # "auditing"
        BY <1>3, <3>2 DEF AuditSettles, FileTypeOK
      <3>3. QED
        BY <3>1, <3>2
    <2>2. QED
      BY <1>3, <1>p, <2>1 DEF AuditSettles
  <1>4. CASE Abort(o)
    <2>1. PcOK
      <3>1. pc[o] \in {"idle"} \cup Running \cup Settling
        BY DEF FileTypeOK
      <3>2. QED
        BY <1>0, <1>4, <3>1, GotoType DEF Abort
    <2>2. QED
      BY <1>4, <2>1 DEF Abort, FileTypeOK, pipeVars, stageVars, ioVars, sessionVars, diskVars, host
  <1>5. CASE Expire(o)
    BY <1>5 DEF Expire, FileTypeOK, pipeVars, stageVars, ioVars, sessionVars, diskVars, host
  <1>6. CASE PipelineRejects(o)
    BY <1>6, <1>d DEF PipelineRejects, FileTypeOK, pipeVars, stageVars, ioVars, diskVars, host
  <1>7. CASE Finish(o)
    <2>1. output' \in Requests \cup {Old} /\ files' \subseteq Requests /\ committed' \subseteq Requests
      BY <1>7 DEF Finish, Rename, FileTypeOK
    <2>2. QED
      BY <1>7, <1>d, <2>1 DEF Finish, FileTypeOK, pipeVars, stageVars, ioVars, host
  <1>8. CASE Cleanup(o)
    <2>1. PcOK
      BY <1>0, <1>8, GotoType DEF Cleanup
    <2>2. files' \subseteq Requests /\ dirs' \subseteq Requests /\ handles' \subseteq Requests
      BY <1>8 DEF Cleanup, CleanupWindows, CleanupPosix, FileTypeOK
    <2>3. QED
      BY <1>8, <2>1, <2>2 DEF Cleanup, FileTypeOK, pipeVars, stageVars, ioVars, host
  <1>9. ASSUME NEW hasSchema, Call(o, hasSchema) PROVE FileTypeOK'
    <2>1. PcOK
      BY <1>0, <1>9, GotoType DEF Call, OpenPosix, OpenWindows
    <2>2. files' \subseteq Requests /\ dirs' \subseteq Requests /\ handles' \subseteq Requests
      <3>1. CASE UNCHANGED <<handles, dirs, files>>
        BY <3>1 DEF FileTypeOK
      <3>2. CASE OpenPosix(o)
        BY <3>2 DEF OpenPosix, CleanupPosix, FileTypeOK
      <3>3. CASE OpenWindows(o)
        BY <3>3 DEF OpenWindows, CleanupWindows, FileTypeOK
      <3>4. QED
        BY <1>9, <3>1, <3>2, <3>3 DEF Call
    <2>3. chain' \in [Requests -> Seq(PluginIds)]
      <3>1. PICK stages \in {plugins, <<>>} : chain' = [chain EXCEPT ![o] = stages]
        BY <1>9 DEF Call
      <3>2. stages \in Seq(PluginIds)
        <4>1. <<>> \in Seq(PluginIds) /\ plugins \in Seq(PluginIds)
          BY DEF TypeOK, EngineTypeOK
        <4>2. QED
          BY <3>1, <4>1
      <3>3. QED
        BY <3>1, <3>2 DEF FileTypeOK
    <2>4. QED
      BY <1>9, <2>1, <2>2, <2>3 DEF Call, FileTypeOK, ioVars, host
  <1>10. QED
    BY <1>1, <1>2, <1>3, <1>4, <1>5, <1>6, <1>7, <1>8, <1>9 DEF Advance

\* The promises of the stages keep the state well typed.
LEMMA StageTypeStep ==
    ASSUME TypeOK, FileTypeOK, NEW o \in Requests, NEW k \in StagesOf(o), StageStep(o, k)
    PROVE  FileTypeOK'
  <1>1. k \in Nat \ {0}
    BY StagesArePlugins
  <1>2. ASSUME pc' = pc \/ Break(o) PROVE pc' \in [Requests -> {"idle"} \cup Running \cup Settling]
    BY <1>2 DEF Break, FileTypeOK, Running
  <1>3. CASE StageCalls(o, k)
    BY <1>3 DEF StageCalls, FileTypeOK, pipeVars, stageVars, ioVars, sessionVars, diskVars, host
  <1>4. ASSUME NEW fulfilled, StageSettles(o, k, fulfilled) PROVE FileTypeOK'
    <2>1. retrying' \in [Requests -> SUBSET (Nat \ {0})]
      BY <1>1, <1>4 DEF StageSettles, FileTypeOK
    <2>2. QED
      BY <1>2, <1>4, <2>1 DEF StageSettles, FileTypeOK, ioVars, sessionVars, diskVars, host
  <1>5. CASE StageRetries(o, k)
    <2>1. retrying' \in [Requests -> SUBSET (Nat \ {0})]
      BY <1>5 DEF StageRetries, FileTypeOK
    <2>2. QED
      BY <1>2, <1>5, <2>1 DEF StageRetries, FileTypeOK, ioVars, sessionVars, diskVars, host
  <1>6. QED
    BY <1>3, <1>4, <1>5 DEF StageStep

\* Native reads and writes keep the state well typed.
LEMMA NativeTypeStep ==
    ASSUME FileTypeOK, NEW o \in Requests, Bytes(o),
           \/ Read(o) \/ NativeCall(o)
           \/ \E bytes \in 1 .. fetched[o] - size[o] : Write(o, bytes)
    PROVE  FileTypeOK'
  <1>0. /\ fetched[o] \in Nat /\ fetched[o] <= Size /\ chunk[o] \in Nat /\ size[o] \in Nat
        /\ Size \in Nat /\ size[o] + chunk[o] <= fetched[o]
    BY ByteTypes DEF Bytes
  <1>1. CASE Read(o)
    BY <1>1 DEF Read, FileTypeOK, stageVars, sessionVars, diskVars, host
  <1>b. ASSUME pc' = pc \/ Goto(o, "broken") PROVE pc' \in [Requests -> {"idle"} \cup Running \cup Settling]
    BY <1>b DEF Goto, FileTypeOK, Running
  <1>2. CASE ReadDone(o)
    <2>1. fetched' \in [Requests -> 0 .. Size] /\ eof' \subseteq Requests
      <3>1. CASE UNCHANGED <<fetched, eof>>
        BY <3>1 DEF FileTypeOK
      <3>2. ASSUME NEW count \in 0 .. Size - fetched[o],
                   fetched' = [fetched EXCEPT ![o] = @ + count],
                   eof' = IF count = 0 THEN eof \cup {o} ELSE eof
            PROVE  fetched' \in [Requests -> 0 .. Size] /\ eof' \subseteq Requests
        <4>1. fetched[o] + count \in 0 .. Size
          BY <1>0, <3>2
        <4>2. QED
          BY <3>2, <4>1 DEF FileTypeOK
      <3>3. QED
        BY <1>2, <3>1, <3>2 DEF ReadDone
    <2>2. pc' \in [Requests -> {"idle"} \cup Running \cup Settling]
      BY <1>2, <1>b DEF ReadDone
    <2>3. QED
      BY <1>2, <2>1, <2>2 DEF ReadDone, FileTypeOK, stageVars, sessionVars, diskVars, host
  <1>3. ASSUME NEW bytes \in 1 .. fetched[o] - size[o], Write(o, bytes) PROVE FileTypeOK'
    <2>1. bytes \in 0 .. Size
      BY <1>0, <1>3
    <2>2. chunk' \in [Requests -> 0 .. Size]
      BY <1>3, <2>1 DEF Write, FileTypeOK
    <2>3. QED
      BY <1>3, <2>2 DEF Write, FileTypeOK, stageVars, sessionVars, diskVars, host
  <1>4. CASE WriteDone(o)
    <2>1. /\ size' \in [Requests -> 0 .. Size] /\ chunk' \in [Requests -> 0 .. Size]
          /\ writing' \subseteq Requests
      <3>1. CASE size' = size /\ chunk' = [chunk EXCEPT ![o] = 0] /\ writing' = writing \ {o}
        BY <1>0, <3>1 DEF FileTypeOK
      <3>2. ASSUME NEW count \in 1 .. chunk[o], NEW again \in BOOLEAN,
                   again => count < chunk[o],
                   size' = [size EXCEPT ![o] = @ + count],
                   chunk' = [chunk EXCEPT ![o] = IF again THEN @ - count ELSE 0],
                   writing' = IF again THEN writing ELSE writing \ {o}
            PROVE  /\ size' \in [Requests -> 0 .. Size] /\ chunk' \in [Requests -> 0 .. Size]
                   /\ writing' \subseteq Requests
        <4>1. /\ size[o] + count \in 0 .. Size
              /\ (IF again THEN chunk[o] - count ELSE 0) \in 0 .. Size
          BY <1>0, <3>2
        <4>2. QED
          BY <3>2, <4>1 DEF FileTypeOK
      <3>3. QED
        BY <1>4, <3>1, <3>2 DEF WriteDone
    <2>2. pc' \in [Requests -> {"idle"} \cup Running \cup Settling]
      BY <1>4, <1>b DEF WriteDone
    <2>3. QED
      BY <1>4, <2>1, <2>2 DEF WriteDone, FileTypeOK, stageVars, sessionVars, host
  <1>5. QED
    BY <1>1, <1>2, <1>3, <1>4 DEF NativeCall

(***************************************************************************)
(* The invariant of the operation that takes the step.                     *)
(***************************************************************************)

\* A move that leaves bytes, session and disk alone, and neither enters nor
\* leaves the session.
LEMMA MoveKeepsFile ==
    ASSUME FileTypeOK, NEW o \in Requests, Bytes(o), Session(o), Resources(o),
           UNCHANGED <<ioVars, sessionVars, diskVars, host>>,
           pc'[o] = "ran" => pc[o] = "ran" \/ size[o] = Size,
           pc'[o] \in {"idle", "refused", "streaming", "broken", "ran"} =>
               pc[o] \in {"idle", "refused", "streaming", "broken", "ran"},
           pc'[o] \in {"finish", "auditing", "audited", "ok"} =>
               pc[o] \in {"finish", "auditing", "audited", "ok"},
           pc'[o] = "disposing" => pc[o] = "disposing",
           pc'[o] \in InSession <=> pc[o] \in InSession
    PROVE  Bytes(o)' /\ Session(o)' /\ Resources(o)'
  <1>1. UNCHANGED <<fetched, eof, reading, writing, chunk, handles, committed, waits,
                    dirs, files, size, windows, crashed>>
    BY DEF ioVars, sessionVars, diskVars, host
  <1>2. Bytes(o)'
    BY <1>1 DEF Bytes
  <1>3. Session(o)'
    BY <1>1 DEF Session
  <1>4. Resources(o)'
    BY <1>1 DEF Resources
  <1>5. QED
    BY <1>2, <1>3, <1>4

\* Before the operation starts and once its pipeline has resolved.
Quiet == {"idle", "refused", "ran", "finish", "auditing", "audited", "ok"}

\* A running operation that goes on leaves the table alone.
LEMMA MoveKeepsTable ==
    ASSUME NEW o \in Requests, Holding(o), Work(o),
           UNCHANGED <<active, finished, pending, retrying>>,
           \/ pc[o] \in Running /\ pc'[o] \in Running
           \/ pc'[o] = pc[o]
           \/ pc[o] = "idle" /\ pc'[o] = "refused",
           pc[o] \in {"auditing", "failing", "failed"} => pc'[o] \in {"auditing", "failing", "failed"},
           pc'[o] \in Quiet \/ o \in committed' =>
               \/ pc[o] \in Quiet \/ o \in committed
               \/ pending[o] = {} /\ retrying[o] = {}
    PROVE  Holding(o)' /\ Work(o)'
  <1>1. Holding(o)'
    BY DEF Holding, Running, Settling
  <1>2. Work(o)'
    BY DEF Work, Quiet
  <1>3. QED
    BY <1>1, <1>2

\* Refusals, failing stages, a resolving pipeline, aborts and the clock.
LEMMA MoveStep ==
    ASSUME FileTypeOK, NEW o \in Requests, OpInv(o),
           Refuse(o) \/ StageFails(o) \/ PipelineResolves(o) \/ Abort(o) \/ Expire(o)
    PROVE  OpInv(o)' /\ UNCHANGED <<output, size, committed>>
  <1>1. /\ UNCHANGED <<pipeVars, sessionVars, diskVars, host>>
        /\ UNCHANGED <<active, finished, pending>>
    BY DEF Refuse, StageFails, PipelineResolves, Abort, Expire, engineVars
  <1>2. \/ pc[o] = "idle" /\ pc'[o] = "refused"
        \/ pc[o] = "streaming" /\ pc'[o] = "broken"
        \/ pc[o] = "streaming" /\ pc'[o] = "ran" /\ o \in eof /\ size[o] = fetched[o]
        \/ pc[o] = "auditing" /\ pc'[o] = "failing"
        \/ pc'[o] = pc[o]
    BY DEF Refuse, StageFails, PipelineResolves, Abort, Expire, Goto, FileTypeOK
  <1>3. pc'[o] = "ran" => pc[o] = "ran" \/ size[o] = Size
    BY <1>2 DEF OpInv, Bytes
  <1>4. Bytes(o)' /\ Session(o)' /\ Resources(o)'
    BY <1>1, <1>2, <1>3, MoveKeepsFile DEF OpInv, InSession, pipeVars
  <1>5. Holding(o)' /\ Work(o)'
    <2>1. pc'[o] = "ran" /\ pc[o] = "streaming" => pending[o] = {} /\ retrying[o] = {}
      BY DEF Refuse, StageFails, PipelineResolves, Abort, Expire, Goto, FileTypeOK
    <2>2. UNCHANGED <<retrying, committed>>
      BY <1>1 DEF pipeVars, stageVars, sessionVars
    <2>3. QED
      BY <1>1, <1>2, <2>1, <2>2, MoveKeepsTable DEF OpInv, Running, Quiet
  <1>6. QED
    BY <1>1, <1>4, <1>5 DEF OpInv, sessionVars, diskVars

\* A promise settles: the last one of an answered operation performs the
\* postponed release.
LEMMA SettlingKeepsHolding ==
    ASSUME EngineTypeOK, NEW o \in Requests, Holding(o), NEW w \in pending[o], Settled(o, w),
           \/ pc[o] \in Running /\ pc'[o] \in Running
           \/ pc'[o] = pc[o]
    PROVE  Holding(o)'
  <1>1. pending'[o] = pending[o] \ {w}
    BY DEF Settled, EngineTypeOK
  <1>2. CASE pending[o] = {w} /\ o \in finished
    <2>1. o \notin active' /\ o \notin finished' /\ pc[o] \in Settling
      BY <1>2 DEF Settled, Forget, Holding
    <2>2. pc[o] \notin Running
      BY <2>1 DEF Running, Settling
    <2>3. QED
      BY <2>1, <2>2 DEF Holding
  <1>3. CASE ~(pending[o] = {w} /\ o \in finished)
    <2>1. UNCHANGED <<active, finished>> /\ (o \in finished => pending'[o] # {})
      BY <1>1, <1>3 DEF Settled
    <2>2. \A p \in Running : p \notin Settling
      BY DEF Running, Settling
    <2>3. QED
      BY <2>1, <2>2 DEF Holding
  <1>4. QED
    BY <1>2, <1>3

\* The audit, its promise, and the answer: the only steps that change the
\* table after the start.
LEMMA AnswerStep ==
    ASSUME TypeOK, FileTypeOK, NEW o \in Requests, OpInv(o),
           \/ Audit(o) \/ Complete(o) \/ Fail(o)
           \/ \E fulfilled \in BOOLEAN : AuditSettles(o, fulfilled)
    PROVE  OpInv(o)' /\ UNCHANGED <<output, size, committed>>
  <1>0. EngineTypeOK
    BY DEF TypeOK
  <1>1. UNCHANGED <<ioVars, retrying, sessionVars, diskVars, host>>
    BY DEF Audit, Complete, Fail, AuditSettles, pipeVars, stageVars
  <1>2. \/ pc[o] = "finish" /\ pc'[o] \in {"auditing", "failing"}
        \/ pc[o] = "audited" /\ pc'[o] \in {"ok", "failing"}
        \/ pc[o] = "failing" /\ pc'[o] = "failed"
        \/ pc[o] = "auditing" /\ pc'[o] \in {"audited", "failing"}
        \/ pc'[o] = pc[o]
    BY DEF Audit, Complete, Fail, AuditSettles, Goto, FileTypeOK
  <1>3. Bytes(o)' /\ Session(o)' /\ Resources(o)'
    BY <1>1, <1>2, MoveKeepsFile DEF OpInv, InSession
  <1>r. ASSUME ReleaseRequest(o)
        PROVE  /\ pending' = pending
               /\ o \in active' <=> o \in active /\ pending[o] # {}
               /\ o \in finished' <=> pending[o] # {}
    BY <1>r DEF ReleaseRequest, Forget
  <1>4. CASE Audit(o)
    <2>1. /\ pc[o] = "finish" /\ pc'[o] \in {"auditing", "failing"}
          /\ UNCHANGED <<active, finished>>
      BY <1>4 DEF Audit, TrackWork, Goto, FileTypeOK
    <2>2. pending'[o] = pending[o] \cup {AuditWork}
      BY <1>4 DEF Audit, TrackWork, TypeOK, EngineTypeOK
    <2>3. QED
      BY <1>1, <1>3, <2>1, <2>2 DEF OpInv, Holding, Work, Running, Settling, sessionVars, diskVars
  <1>5. CASE Complete(o)
    <2>1. pc[o] = "audited" /\ pending[o] = {} /\ retrying[o] = {}
      BY <1>5 DEF Complete, OpInv, Work
    <2>2. \/ ReleaseRequest(o) /\ pc'[o] = "ok"
          \/ UNCHANGED <<active, finished, pending>> /\ pc'[o] = "failing"
      BY <1>5 DEF Complete, Goto, FileTypeOK, tableVars
    <2>3. Holding(o)' /\ Work(o)'
      BY <1>1, <1>r, <2>1, <2>2 DEF OpInv, Holding, Work, Running, Settling, sessionVars
    <2>4. QED
      BY <1>1, <1>3, <2>3 DEF OpInv, sessionVars, diskVars
  <1>6. CASE Fail(o)
    <2>1. pc[o] = "failing" /\ pc'[o] = "failed" /\ ReleaseRequest(o)
      BY <1>6 DEF Fail, Goto, FileTypeOK
    <2>2. Holding(o)' /\ Work(o)'
      BY <1>1, <1>r, <2>1 DEF OpInv, Holding, Work, Running, Settling, sessionVars
    <2>3. QED
      BY <1>1, <1>3, <2>2 DEF OpInv, sessionVars, diskVars
  <1>7. ASSUME NEW fulfilled, AuditSettles(o, fulfilled)
        PROVE  OpInv(o)' /\ UNCHANGED <<output, size, committed>>
    <2>1. AuditWork \in pending[o] /\ Settled(o, AuditWork)
      BY <1>7 DEF AuditSettles
    <2>2. pc'[o] = pc[o] \/ (pc[o] = "auditing" /\ pc'[o] \in {"audited", "failing"})
      BY <1>7 DEF AuditSettles, Goto, FileTypeOK
    <2>3. pending'[o] = pending[o] \ {AuditWork}
      BY <2>1 DEF Settled, TypeOK, EngineTypeOK
    <2>4. Holding(o)'
      BY <1>0, <2>1, <2>2, SettlingKeepsHolding DEF OpInv, Running, Settling
    <2>5. Work(o)'
      BY <1>1, <2>1, <2>2, <2>3 DEF OpInv, Work, sessionVars
    <2>6. QED
      BY <1>1, <1>3, <2>4, <2>5 DEF OpInv, sessionVars, diskVars
  <1>8. QED
    BY <1>4, <1>5, <1>6, <1>7

\* The promises of the stages: they may outlive the pipeline, the session and
\* the answer, and a retry may start then, but not once the pipeline resolved.
LEMMA StageWorkStep ==
    ASSUME TypeOK, FileTypeOK, NEW o \in Requests, OpInv(o), NEW k \in StagesOf(o), StageStep(o, k)
    PROVE  OpInv(o)' /\ UNCHANGED <<output, size, committed>>
  <1>0. k \in Nat \ {0} /\ k + 1 # AuditWork /\ EngineTypeOK
    BY StagesArePlugins DEF TypeOK
  <1>1. UNCHANGED <<ioVars, sessionVars, diskVars, host>>
    BY DEF StageStep, StageCalls, StageSettles, StageRetries, pipeVars
  <1>2. pc'[o] = pc[o] \/ (pc[o] = "streaming" /\ pc'[o] = "broken")
    BY DEF StageStep, StageCalls, StageSettles, StageRetries, Break, FileTypeOK
  <1>3. pc[o] \notin Quiet /\ o \notin committed
    <2>1. pc[o] = "streaming" => o \notin committed
      BY DEF OpInv, Session
    <2>2. pc[o] = "streaming" \/ k + 1 \in pending[o] \/ k \in retrying[o]
      BY DEF StageStep, StageCalls, StageSettles, StageRetries
    <2>3. QED
      BY <1>0, <2>1, <2>2 DEF OpInv, Work, Quiet
  <1>4. Bytes(o)' /\ Session(o)' /\ Resources(o)'
    BY <1>1, <1>2, MoveKeepsFile DEF OpInv, InSession
  <1>5. \/ UNCHANGED tableVars
        \/ TrackWork(o, k + 1)
        \/ k + 1 \in pending[o] /\ Settled(o, k + 1)
    BY DEF StageStep, StageCalls, StageSettles, StageRetries
  <1>6. Holding(o)'
    <2>1. CASE UNCHANGED tableVars
      BY <1>2, <2>1 DEF OpInv, Holding, Running, Settling, tableVars
    <2>2. CASE TrackWork(o, k + 1)
      <3>1. UNCHANGED <<active, finished>> /\ pending'[o] = pending[o] \cup {k + 1}
        BY <2>2 DEF TrackWork, TypeOK, EngineTypeOK
      <3>2. QED
        BY <1>2, <3>1 DEF OpInv, Holding, Running, Settling
    <2>3. CASE k + 1 \in pending[o] /\ Settled(o, k + 1)
      BY <1>0, <1>2, <2>3, SettlingKeepsHolding DEF OpInv, Running, Settling
    <2>4. QED
      BY <1>5, <2>1, <2>2, <2>3
  <1>7. Work(o)'
    <2>1. pc'[o] \notin Quiet /\ o \notin committed'
      BY <1>1, <1>2, <1>3 DEF Quiet, sessionVars
    <2>2. AuditWork \in pending'[o] => AuditWork \in pending[o]
      BY <1>0, <1>5 DEF TrackWork, Settled, tableVars, TypeOK, EngineTypeOK
    <2>3. QED
      BY <1>2, <2>1, <2>2 DEF OpInv, Work, Quiet
  <1>8. QED
    BY <1>1, <1>4, <1>6, <1>7 DEF OpInv, sessionVars, diskVars

\* The session opens: whatever of it was created before a failure is gone
\* again when the operation is told.
LEMMA CallStep ==
    ASSUME TypeOK, FileTypeOK, ~crashed, NEW o \in Requests, OpInv(o),
           NEW hasSchema \in BOOLEAN, Call(o, hasSchema)
    PROVE  OpInv(o)' /\ UNCHANGED <<output, size, committed>>
  <1>1. /\ pc[o] = "idle"
        /\ active' = active \cup {o}
        /\ UNCHANGED <<pending, finished, retrying, fetched, eof, reading, writing, chunk, committed,
                       waits, size, output, windows, crashed>>
    BY DEF Call, StartRequest, ioVars, host
  <1>2. o \notin handles \cup files \cup dirs \cup committed \cup reading \cup writing
    BY <1>1 DEF OpInv, Resources, Session, InSession
  <1>3. /\ pc'[o] \in {"failing", "streaming"}
        /\ pc'[o] = "failing" => o \notin handles' \cup files' \cup dirs'
        /\ pc'[o] = "streaming" => o \in handles'
        /\ windows => o \notin dirs'
    <2>1. CASE Goto(o, "failing") /\ UNCHANGED <<handles, dirs, files>>
      BY <1>2, <2>1 DEF Goto, FileTypeOK
    <2>2. CASE OpenPosix(o) /\ ~windows
      <3>1. ASSUME NEW made \in 0 .. 3,
                   CleanupPosix(o, made >= 2, IF made >= 1 THEN dirs \cup {o} ELSE dirs,
                                IF made >= 3 THEN files \cup {o} ELSE files)
            PROVE  o \notin files' \cup dirs'
        BY <1>2, <3>1 DEF CleanupPosix
      <3>2. CASE Goto(o, "streaming") /\ handles' = handles \cup {o}
        BY <2>2, <3>2 DEF Goto, FileTypeOK
      <3>3. CASE Goto(o, "failing") /\ UNCHANGED handles /\ o \notin files' \cup dirs'
        BY <1>2, <2>2, <3>3 DEF Goto, FileTypeOK
      <3>4. QED
        BY <2>2, <3>1, <3>2, <3>3 DEF OpenPosix
    <2>3. CASE OpenWindows(o) /\ windows
      <3>1. o \notin dirs'
        BY <1>2, <2>3 DEF OpenWindows, CleanupWindows
      <3>2. CASE Goto(o, "streaming") /\ handles' = handles \cup {o}
        BY <3>1, <3>2 DEF Goto, FileTypeOK
      <3>3. ASSUME Goto(o, "failing"), UNCHANGED handles, NEW f, CleanupWindows(o, f)
            PROVE  pc'[o] = "failing" /\ o \notin handles' \cup files' \cup dirs'
        BY <1>2, <3>1, <3>3 DEF CleanupWindows, Goto, FileTypeOK
      <3>4. QED
        BY <2>3, <3>1, <3>2, <3>3 DEF OpenWindows
    <2>4. QED
      BY <2>1, <2>2, <2>3 DEF Call
  <1>4. Holding(o)' /\ Work(o)'
    <2>1. Holding(o)'
      BY <1>1, <1>3 DEF OpInv, Holding, Running, Settling
    <2>2. pending[o] \subseteq {AuditWork} /\ AuditWork \notin pending[o] /\ o \notin committed'
      BY <1>1, <1>2 DEF OpInv, Work
    <2>3. Work(o)'
      BY <1>1, <1>3, <2>2 DEF Work
    <2>4. QED
      BY <2>1, <2>3
  <1>5. Bytes(o)' /\ Session(o)'
    BY <1>1, <1>2, <1>3 DEF OpInv, Bytes, Session
  <1>6. Resources(o)'
    BY <1>1, <1>2, <1>3 DEF Resources, InSession
  <1>7. QED
    BY <1>1, <1>4, <1>5, <1>6 DEF OpInv

\* dispose() is entered, after commit() or without it.
LEMMA DisposeStep ==
    ASSUME FileTypeOK, NEW o \in Requests, OpInv(o), PipelineRejects(o) \/ Finish(o)
    PROVE  /\ OpInv(o)'
           /\ size' = size
           /\ \/ UNCHANGED <<output, committed>>
              \/ /\ pc[o] = "ran" /\ output' = o /\ committed' = committed \cup {o}
  <1>1. /\ pc[o] \in {"broken", "ran"} /\ pc'[o] = "disposing"
        /\ UNCHANGED <<active, finished, pending, retrying, fetched, eof, reading, writing, chunk,
                       handles, dirs, size, windows, crashed>>
    BY DEF PipelineRejects, Finish, Dispose, Goto, FileTypeOK, engineVars, pipeVars, stageVars,
           ioVars, diskVars, host
  <1>2. waits'[o] = {call \in {"read", "write"} : o \in IF call = "read" THEN reading ELSE writing}
    BY DEF PipelineRejects, Finish, Dispose, FileTypeOK
  <1>3. \/ UNCHANGED <<output, files, committed>>
        \/ /\ pc[o] = "ran" /\ output' = o /\ files' = files \ {o}
           /\ committed' = committed \cup {o}
    BY DEF PipelineRejects, Finish, Rename, diskVars
  <1>4. Holding(o)' /\ Work(o)'
    BY <1>1, <1>3, MoveKeepsTable DEF OpInv, Running, Quiet
  <1>5. Bytes(o)'
    BY <1>1, <1>3 DEF OpInv, Bytes
  <1>6. Session(o)'
    BY <1>1, <1>2 DEF Session
  <1>7. Resources(o)'
    BY <1>1, <1>3 DEF OpInv, Resources, Session, InSession
  <1>8. QED
    BY <1>1, <1>3, <1>4, <1>5, <1>6, <1>7 DEF OpInv

\* dispose() closes the descriptors once no native call is left, and removes
\* what was not renamed.
LEMMA CleanupStep ==
    ASSUME FileTypeOK, NEW o \in Requests, OpInv(o), Cleanup(o)
    PROVE  OpInv(o)' /\ UNCHANGED <<output, size, committed>>
  <1>1. /\ pc[o] = "disposing"
        /\ pc'[o] = IF o \in committed THEN "finish" ELSE "failing"
        /\ handles' = handles \ {o}
        /\ UNCHANGED <<active, finished, pending, retrying, fetched, eof, reading, writing, chunk,
                       committed, waits, size, output, windows, crashed>>
    BY DEF Cleanup, Goto, FileTypeOK, engineVars, pipeVars, stageVars, ioVars, host
  <1>2. o \notin reading \cup writing
    BY <1>1 DEF Cleanup, OpInv, Session
  <1>3. o \notin files' \cup dirs'
    <2>1. CASE windows
      BY <2>1 DEF Cleanup, CleanupWindows, OpInv, Resources
    <2>2. CASE ~windows
      BY <2>2 DEF Cleanup, CleanupPosix, OpInv, Resources
    <2>3. QED
      BY <2>1, <2>2
  <1>4. Holding(o)' /\ Work(o)'
    BY <1>1, MoveKeepsTable DEF OpInv, Running, Quiet
  <1>5. Bytes(o)' /\ Session(o)'
    BY <1>1, <1>2 DEF OpInv, Bytes, Session
  <1>6. Resources(o)'
    BY <1>1, <1>2, <1>3 DEF OpInv, Resources, InSession
  <1>7. QED
    BY <1>1, <1>4, <1>5, <1>6 DEF OpInv

\* Native reads: a late one finds its stream destroyed and changes nothing.
LEMMA ReadStep ==
    ASSUME FileTypeOK, ~crashed, NEW o \in Requests, OpInv(o), Read(o) \/ ReadDone(o)
    PROVE  OpInv(o)' /\ UNCHANGED <<output, size, committed>>
  <1>0. /\ fetched[o] \in Nat /\ fetched[o] <= Size /\ chunk[o] \in Nat /\ size[o] \in Nat
        /\ Size \in Nat
    BY ByteTypes
  <1>1. UNCHANGED <<active, finished, pending, retrying, writing, chunk, handles, committed,
                    waits, dirs, files, size, output, windows, crashed>>
    BY DEF Read, ReadDone, engineVars, stageVars, sessionVars, diskVars, host
  <1>2. /\ \/ pc'[o] = pc[o]
           \/ pc[o] = "streaming" /\ pc'[o] = "broken"
        /\ o \in reading' => o \in reading \/ pc[o] = "streaming"
        /\ pc[o] = "disposing" /\ o \in reading' => o \in reading
    BY DEF Read, ReadDone, Goto, FileTypeOK
  <1>3. \/ UNCHANGED <<fetched, eof>>
        \/ \E count \in 0 .. Size - fetched[o] :
              /\ fetched'[o] = fetched[o] + count
              /\ o \in eof' => o \in eof \/ fetched[o] = Size
    BY DEF Read, ReadDone, FileTypeOK
  <1>4. Holding(o)' /\ Work(o)'
    BY <1>1, <1>2, MoveKeepsTable DEF OpInv, Running, Quiet
  <1>5. Bytes(o)'
    <2>1. CASE UNCHANGED <<fetched, eof>>
      BY <1>1, <1>2, <2>1 DEF OpInv, Bytes
    <2>2. ASSUME NEW count \in 0 .. Size - fetched[o],
                 fetched'[o] = fetched[o] + count,
                 o \in eof' => o \in eof \/ fetched[o] = Size
          PROVE  Bytes(o)'
      <3>1. fetched'[o] \in Nat /\ fetched'[o] >= fetched[o] /\ fetched'[o] <= Size
        BY <1>0, <2>2
      <3>2. QED
        BY <1>0, <1>1, <1>2, <2>2, <3>1 DEF OpInv, Bytes
    <2>3. QED
      BY <1>3, <2>1, <2>2
  <1>6. Session(o)'
    BY <1>1, <1>2 DEF OpInv, Session
  <1>7. Resources(o)'
    BY <1>1, <1>2 DEF OpInv, Resources, InSession
  <1>8. QED
    BY <1>1, <1>4, <1>5, <1>6, <1>7 DEF OpInv

\* Native writes: one is in flight only while part of its chunk is missing,
\* which is never so once the file is complete.
LEMMA WriteStep ==
    ASSUME FileTypeOK, ~crashed, NEW o \in Requests, OpInv(o),
           WriteDone(o) \/ \E bytes \in 1 .. fetched[o] - size[o] : Write(o, bytes)
    PROVE  /\ OpInv(o)' /\ UNCHANGED <<output, committed>>
           /\ o \in committed => size'[o] = size[o]
  <1>0. /\ fetched[o] \in Nat /\ fetched[o] <= Size /\ chunk[o] \in Nat /\ size[o] \in Nat
        /\ Size \in Nat /\ size[o] + chunk[o] <= fetched[o]
    BY ByteTypes DEF OpInv, Bytes
  <1>1. UNCHANGED <<active, finished, pending, retrying, fetched, eof, reading, handles,
                    committed, waits, dirs, files, output, windows, crashed>>
    BY DEF Write, WriteDone, engineVars, stageVars, sessionVars, diskVars, host
  <1>2. /\ pc'[o] = pc[o] \/ (pc[o] = "streaming" /\ pc'[o] = "broken")
        /\ o \in writing' => o \in writing \/ pc[o] = "streaming"
    BY DEF Write, WriteDone, Goto, FileTypeOK
  <1>3. /\ size'[o] + chunk'[o] <= fetched[o]
        /\ o \in writing' => chunk'[o] > 0
        /\ size[o] = Size => size'[o] = Size
    <2>1. ASSUME NEW bytes \in 1 .. fetched[o] - size[o], Write(o, bytes)
          PROVE  /\ size'[o] + chunk'[o] <= fetched[o] /\ chunk'[o] > 0
                 /\ size' = size
      <3>1. chunk'[o] = bytes /\ size' = size
        BY <2>1 DEF Write, FileTypeOK, diskVars
      <3>2. QED
        BY <1>0, <2>1, <3>1
    <2>2. ASSUME NEW count \in 1 .. chunk[o], o \in writing,
                 LET again == count < chunk[o] /\ o \notin disposed
                 IN  /\ size' = [size EXCEPT ![o] = @ + count]
                     /\ chunk' = [chunk EXCEPT ![o] = IF again THEN @ - count ELSE 0]
                     /\ writing' = IF again THEN writing ELSE writing \ {o}
          PROVE  /\ size'[o] + chunk'[o] <= fetched[o]
                 /\ o \in writing' => chunk'[o] > 0
                 /\ size[o] # Size
      <3>1. /\ size'[o] = size[o] + count
            /\ \/ chunk'[o] = chunk[o] - count /\ count < chunk[o]
               \/ chunk'[o] = 0 /\ o \notin writing'
        BY <2>2 DEF FileTypeOK
      <3>2. QED
        BY <1>0, <2>2, <3>1
    <2>3. ASSUME chunk' = [chunk EXCEPT ![o] = 0], writing' = writing \ {o}, size' = size
          PROVE  /\ size'[o] + chunk'[o] <= fetched[o]
                 /\ o \notin writing'
      <3>1. chunk'[o] = 0
        BY <2>3 DEF FileTypeOK
      <3>2. QED
        BY <1>0, <2>3, <3>1
    <2>4. QED
      BY <2>1, <2>2, <2>3 DEF WriteDone
  <1>4. Holding(o)' /\ Work(o)'
    BY <1>1, <1>2, MoveKeepsTable DEF OpInv, Running, Quiet
  <1>5. Bytes(o)'
    BY <1>1, <1>2, <1>3 DEF OpInv, Bytes
  <1>6. Session(o)'
    BY <1>1, <1>2 DEF OpInv, Session
  <1>7. Resources(o)'
    BY <1>1, <1>2 DEF OpInv, Resources, InSession
  <1>8. o \in committed => size'[o] = size[o]
    BY <1>3 DEF OpInv, Bytes
  <1>9. QED
    BY <1>1, <1>4, <1>5, <1>6, <1>7, <1>8 DEF OpInv

(***************************************************************************)
(* Operations share the output path and nothing else.                      *)
(***************************************************************************)

\* The step leaves everything that belongs to operation q alone.
Same(q) ==
    /\ SameRequest(q)
    /\ pc'[q] = pc[q] /\ fetched'[q] = fetched[q] /\ chunk'[q] = chunk[q]
    /\ size'[q] = size[q] /\ waits'[q] = waits[q]
    /\ chain'[q] = chain[q] /\ retrying'[q] = retrying[q]
    /\ q \in eof' <=> q \in eof
    /\ q \in reading' <=> q \in reading
    /\ q \in writing' <=> q \in writing
    /\ q \in handles' <=> q \in handles
    /\ q \in committed' <=> q \in committed
    /\ q \in dirs' <=> q \in dirs
    /\ q \in files' <=> q \in files

\* The invariant of an operation survives what leaves the operation alone.
LEMMA Frame ==
    ASSUME NEW q \in Requests, OpInv(q), Same(q), UNCHANGED host
    PROVE  OpInv(q)'
  <1>1. Holding(q)' /\ Work(q)'
    BY DEF OpInv, Holding, Work, Same, SameRequest
  <1>2. Bytes(q)' /\ Session(q)'
    BY DEF OpInv, Bytes, Session, Same
  <1>3. Resources(q)'
    BY DEF OpInv, Resources, Same, host
  <1>4. QED
    BY <1>1, <1>2, <1>3 DEF OpInv

\* A step of one operation leaves the others alone.
LEMMA OthersSame ==
    ASSUME TypeOK, FileTypeOK, NEW o \in Requests, NEW q \in Requests \ {o}, StepOf(o)
    PROVE  Same(q) /\ UNCHANGED host
  <1>1. SameRequest(q)
    BY StepOnTable, OtherRequests DEF TypeOK
  <1> DEFINE Rest == /\ pc'[q] = pc[q] /\ fetched'[q] = fetched[q] /\ chunk'[q] = chunk[q]
                     /\ size'[q] = size[q] /\ waits'[q] = waits[q]
                     /\ chain'[q] = chain[q] /\ retrying'[q] = retrying[q]
                     /\ q \in eof' <=> q \in eof
                     /\ q \in reading' <=> q \in reading
                     /\ q \in writing' <=> q \in writing
                     /\ q \in handles' <=> q \in handles
                     /\ q \in committed' <=> q \in committed
                     /\ q \in dirs' <=> q \in dirs
                     /\ q \in files' <=> q \in files
                     /\ UNCHANGED host
  <1>g. ASSUME NEW to, Goto(o, to) PROVE pc'[q] = pc[q]
    BY <1>g DEF Goto, FileTypeOK
  <1>2. ASSUME \/ Refuse(o) \/ StageFails(o) \/ PipelineResolves(o) \/ Audit(o) \/ Complete(o)
               \/ Fail(o) \/ Abort(o) \/ Expire(o)
               \/ \E fulfilled \in BOOLEAN : AuditSettles(o, fulfilled)
        PROVE  Rest
    <2>1. UNCHANGED <<pipeVars, sessionVars, diskVars, host>>
      BY <1>2 DEF Refuse, StageFails, PipelineResolves, Audit, Complete, Fail, Abort, Expire,
                  AuditSettles
    <2>2. pc'[q] = pc[q]
      BY <1>2, <1>g DEF Refuse, StageFails, PipelineResolves, Audit, Complete, Fail, Abort,
                        Expire, AuditSettles
    <2>3. QED
      BY <2>1, <2>2 DEF pipeVars, stageVars, ioVars, sessionVars, diskVars
  <1>3. ASSUME PipelineRejects(o) \/ Finish(o) PROVE Rest
    <2>1. Dispose(o) /\ UNCHANGED <<pipeVars, handles, dirs, size, host>>
      BY <1>3 DEF PipelineRejects, Finish, diskVars
    <2>2. pc'[q] = pc[q] /\ waits'[q] = waits[q]
      BY <1>g, <2>1 DEF Dispose, FileTypeOK
    <2>3. /\ q \in committed' <=> q \in committed
          /\ q \in files' <=> q \in files
      BY <1>3 DEF PipelineRejects, Finish, Rename, diskVars
    <2>4. QED
      BY <2>1, <2>2, <2>3 DEF pipeVars, stageVars, ioVars
  <1>4. ASSUME Cleanup(o) PROVE Rest
    <2>1. /\ q \in files' <=> q \in files
          /\ q \in dirs' <=> q \in dirs
      BY <1>4 DEF Cleanup, CleanupPosix, CleanupWindows
    <2>2. pc'[q] = pc[q]
      BY <1>4, <1>g DEF Cleanup
    <2>3. QED
      BY <1>4, <2>1, <2>2 DEF Cleanup, pipeVars, stageVars, ioVars
  <1>5. ASSUME NEW hasSchema, Call(o, hasSchema) PROVE Rest
    <2>1. /\ q \in files' <=> q \in files
          /\ q \in dirs' <=> q \in dirs
          /\ q \in handles' <=> q \in handles
          /\ pc'[q] = pc[q]
      <3>1. CASE OpenPosix(o)
        BY <1>g, <3>1 DEF OpenPosix, CleanupPosix
      <3>2. CASE OpenWindows(o)
        BY <1>g, <3>2 DEF OpenWindows, CleanupWindows
      <3>3. QED
        BY <1>5, <1>g, <3>1, <3>2 DEF Call
    <2>2. chain'[q] = chain[q]
      BY <1>5 DEF Call, FileTypeOK
    <2>3. QED
      BY <1>5, <2>1, <2>2 DEF Call, ioVars
  <1>6. ASSUME \/ Read(o) \/ ReadDone(o) PROVE Rest
    BY <1>6, <1>g DEF Read, ReadDone, FileTypeOK, stageVars, sessionVars, diskVars
  <1>7. ASSUME WriteDone(o) \/ \E bytes \in 1 .. fetched[o] - size[o] : Write(o, bytes) PROVE Rest
    BY <1>7, <1>g DEF Write, WriteDone, FileTypeOK, stageVars, sessionVars, diskVars
  <1>8. ASSUME NEW k \in StagesOf(o), StageStep(o, k) PROVE Rest
    <2>1. pc'[q] = pc[q] /\ chain'[q] = chain[q] /\ retrying'[q] = retrying[q]
      BY <1>8 DEF StageStep, StageCalls, StageSettles, StageRetries, Break, FileTypeOK, pipeVars,
                  stageVars
    <2>2. UNCHANGED <<ioVars, sessionVars, diskVars, host>>
      BY <1>8 DEF StageStep, StageCalls, StageSettles, StageRetries, pipeVars
    <2>3. QED
      BY <2>1, <2>2 DEF ioVars, sessionVars, diskVars
  <1>9. Rest
    BY <1>2, <1>3, <1>4, <1>5, <1>6, <1>7, <1>8 DEF StepOf, Advance, NativeCall
  <1>10. QED
    BY <1>1, <1>9 DEF Same

\* What a step of an operation does to its own invariant and to the output
\* path: it names the operation only when the operation is committed, which
\* needs a complete file.
LEMMA OwnStep ==
    ASSUME TypeOK, FileTypeOK, ~crashed, NEW o \in Requests, OpInv(o), StepOf(o)
    PROVE  /\ OpInv(o)'
           /\ \/ UNCHANGED <<output, committed>> /\ (o \in committed => size'[o] = size[o])
              \/ /\ pc[o] = "ran" /\ output' = o /\ committed' = committed \cup {o}
                 /\ size' = size
  <1>1. CASE Refuse(o) \/ StageFails(o) \/ PipelineResolves(o) \/ Abort(o) \/ Expire(o)
    BY <1>1, MoveStep
  <1>2. CASE \/ Audit(o) \/ Complete(o) \/ Fail(o)
             \/ \E fulfilled \in BOOLEAN : AuditSettles(o, fulfilled)
    BY <1>2, AnswerStep
  <1>3. CASE PipelineRejects(o) \/ Finish(o)
    BY <1>3, DisposeStep
  <1>4. CASE Cleanup(o)
    BY <1>4, CleanupStep
  <1>5. CASE \E hasSchema \in BOOLEAN : Call(o, hasSchema)
    BY <1>5, CallStep
  <1>6. CASE Read(o) \/ ReadDone(o)
    BY <1>6, ReadStep
  <1>7. CASE WriteDone(o) \/ \E bytes \in 1 .. fetched[o] - size[o] : Write(o, bytes)
    BY <1>7, WriteStep
  <1>8. CASE \E k \in StagesOf(o) : StageStep(o, k)
    BY <1>8, StageWorkStep
  <1>9. QED
    BY <1>1, <1>2, <1>3, <1>4, <1>5, <1>6, <1>7, <1>8 DEF StepOf, Advance, NativeCall

\* The process ends between two steps: the descriptors are closed with all
\* native calls, and the disk stays as it is.
LEMMA CrashStep ==
    ASSUME FileTypeOK, \A o \in Requests : OpInv(o), Crash
    PROVE  FileTypeOK' /\ UNCHANGED <<engineVars, pc, output, size, committed>>
           /\ \A o \in Requests : OpInv(o)'
  <1>1. /\ UNCHANGED <<engineVars, pc, signal, chain, retrying, fetched, eof, chunk, disposed, committed, waits,
                       dirs, files, size, output, windows>>
        /\ handles' = {} /\ reading' = {} /\ writing' = {} /\ crashed' = TRUE
    BY DEF Crash, stageVars, diskVars
  <1>2. FileTypeOK'
    BY <1>1 DEF FileTypeOK
  <1>3. ASSUME NEW o \in Requests PROVE OpInv(o)'
    <2>1. Holding(o)' /\ Work(o)'
      BY <1>1, <1>3 DEF OpInv, Holding, Work, engineVars
    <2>2. Bytes(o)' /\ Session(o)'
      BY <1>1, <1>3 DEF OpInv, Bytes, Session
    <2>3. Resources(o)'
      BY <1>1, <1>3 DEF OpInv, Resources
    <2>4. QED
      BY <2>1, <2>2, <2>3 DEF OpInv
  <1>4. QED
    BY <1>1, <1>2, <1>3

(***************************************************************************)
(* The invariant is inductive.                                             *)
(***************************************************************************)

\* The initial state satisfies the invariant.
LEMMA InvariantInit ==
    Init => IInv
  <1> SUFFICES ASSUME Init PROVE IInv
    OBVIOUS
  <1>1. /\ EngineTypeOK /\ CapacityBound /\ active = {} /\ finished = {}
        /\ \A r \in Requests : pending[r] = {}
    BY EngineInitType, CapacityInit DEF Init
  <1>2. FileTypeOK
    <2>1. 0 \in 0 .. Size
      BY FileAssumption
    <2>2. fetched \in [Requests -> 0 .. Size] /\ chunk \in [Requests -> 0 .. Size]
          /\ size \in [Requests -> 0 .. Size]
      BY <2>1 DEF Init
    <2>3. chain \in [Requests -> Seq(PluginIds)] /\ retrying \in [Requests -> SUBSET (Nat \ {0})]
      <3>1. <<>> \in Seq(PluginIds) /\ {} \in SUBSET (Nat \ {0})
        OBVIOUS
      <3>2. QED
        BY <3>1 DEF Init
    <2>4. QED
      BY <2>2, <2>3 DEF Init, FileTypeOK
  <1>3. ASSUME NEW o \in Requests PROVE OpInv(o)
    <2>1. Holding(o) /\ Work(o)
      BY <1>1, <1>3 DEF Init, Holding, Work, Running, Settling
    <2>2. Bytes(o) /\ Session(o) /\ Resources(o)
      BY <1>3 DEF Init, Bytes, Session, Resources, InSession
    <2>3. QED
      BY <2>1, <2>2 DEF OpInv
  <1>4. OutputInv
    BY DEF Init, OutputInv
  <1>5. QED
    BY <1>1, <1>2, <1>3, <1>4, TypeParts DEF IInv

\* Every step of the system preserves the invariant.
LEMMA InvariantStep ==
    IInv /\ [Next]_vars => IInv'
  <1> SUFFICES ASSUME IInv, [Next]_vars PROVE IInv'
    OBVIOUS
  <1>0. /\ TypeOK /\ EngineTypeOK /\ FileTypeOK /\ CapacityBound /\ OutputInv
        /\ \A o \in Requests : OpInv(o)
    BY TypeParts DEF IInv
  <1>t. ASSUME EngineTypeOK', FileTypeOK' PROVE TypeOK'
    BY <1>t DEF TypeOK, FileTypeOK
  <1>s. ASSUME UNCHANGED fileVars, UNCHANGED tableVars
        PROVE  FileTypeOK' /\ OutputInv' /\ \A q \in Requests : OpInv(q)'
    <2>1. FileTypeOK' /\ OutputInv' /\ UNCHANGED host
      BY <1>0, <1>s DEF FileTypeOK, OutputInv, fileVars, pipeVars, stageVars, ioVars, sessionVars, diskVars, host
    <2>2. \A q \in Requests : Same(q)
      BY <1>s DEF Same, SameRequest, fileVars, pipeVars, stageVars, ioVars, sessionVars, diskVars,
                  tableVars
    <2>3. QED
      BY <1>0, <2>1, <2>2, Frame
  <1>1. CASE Configure
    <2>1. Reconfigure /\ UNCHANGED fileVars
      BY <1>1 DEF Configure, Reconfigure
    <2>2. EngineTypeOK' /\ CapacityBound' /\ UNCHANGED tableVars
      BY <1>0, <2>1, ReconfigureType, CapacityReconfigured, ReconfigureSame
    <2>3. QED
      BY <1>s, <1>t, <2>1, <2>2 DEF IInv
  <1>2. CASE Crash
    <2>1. /\ FileTypeOK' /\ UNCHANGED engineVars /\ UNCHANGED <<output, committed>>
          /\ \A q \in Requests : OpInv(q)'
      BY <1>0, <1>2, CrashStep
    <2>2. EngineTypeOK' /\ CapacityBound' /\ OutputInv'
      BY <1>0, <2>1, SameTableType DEF CapacityBound, OutputInv, engineVars
    <2>3. QED
      BY <1>t, <2>1, <2>2 DEF IInv
  <1>3. ASSUME NEW o \in Requests, ~crashed, StepOf(o) PROVE IInv'
    <2>1. TableStep(o) /\ UNCHANGED configVars
      BY <1>0, <1>3, StepOnTable
    <2>2. EngineTypeOK'
      BY <1>0, <1>3, <2>1, TableStepType
    <2>3. FileTypeOK'
      BY <1>0, <1>3, OperationTypeStep, NativeTypeStep, StageTypeStep DEF StepOf, OpInv
    <2>4. CapacityBound'
      <3>1. MayStart \/ active' \subseteq active
        BY <1>3 DEF StepOf, Call, Refuse, Advance, PipelineResolves, PipelineRejects, Finish,
            Cleanup, Audit, Complete, Fail, StageFails, Read, NativeCall, ReadDone, WriteDone,
            Abort, Expire, Write, AuditSettles, StageStep, StageCalls, StageSettles, StageRetries,
            TrackWork, ReleaseRequest, Settled, Forget, engineVars, tableVars
      <3>2. QED
        BY <1>0, <1>3, <2>1, <3>1, CapacityKept
    <2>5. ASSUME NEW q \in Requests PROVE OpInv(q)'
      <3>1. CASE q = o
        BY <1>0, <1>3, <3>1, OwnStep
      <3>2. CASE q # o
        <4>1. Same(q) /\ UNCHANGED host
          BY <1>0, <1>3, <2>5, <3>2, OthersSame
        <4>2. QED
          BY <1>0, <2>5, <4>1, Frame
      <3>3. QED
        BY <3>1, <3>2
    <2>6. OutputInv'
      <3>1. UNCHANGED <<output, committed>> \/ (output' = o /\ o \in committed')
        BY <1>0, <1>3, OwnStep
      <3>2. QED
        BY <1>0, <3>1 DEF OutputInv
    <2>7. QED
      BY <1>t, <2>2, <2>3, <2>4, <2>5, <2>6 DEF IInv
  <1>4. CASE UNCHANGED vars
    <2>1. UNCHANGED fileVars /\ UNCHANGED tableVars /\ UNCHANGED engineVars
      BY <1>4 DEF vars, engineVars, tableVars
    <2>2. EngineTypeOK' /\ CapacityBound'
      BY <1>0, <2>1, SameTableType DEF CapacityBound, engineVars
    <2>3. QED
      BY <1>s, <1>t, <2>1, <2>2 DEF IInv
  <1>5. QED
    BY <1>1, <1>2, <1>3, <1>4, NextCases

\* The invariant holds in every reachable state.
THEOREM Invariance == Spec => []IInv
  BY InvariantInit, InvariantStep, PTL DEF Spec

(***************************************************************************)
(* What follows for the properties.                                        *)
(***************************************************************************)

\* The state stays well typed; in particular no file grows beyond its input.
THEOREM TypeCorrect == Spec => []TypeOK
  BY Invariance, PTL DEF IInv

\* The invariant implies what a reader of the output path and a caller see.
LEMMA InvariantImplies ==
    IInv => /\ OutputIsWhole /\ NoCallAfterClose /\ NothingLeftBehind
            /\ CapacityAccounted /\ SuccessIsCommitted
  <1> SUFFICES ASSUME IInv
               PROVE  /\ OutputIsWhole /\ NoCallAfterClose /\ NothingLeftBehind
                      /\ CapacityAccounted /\ SuccessIsCommitted
    OBVIOUS
  <1>0. FileTypeOK /\ OutputInv /\ \A o \in Requests : OpInv(o)
    BY TypeParts DEF IInv
  <1>1. OutputIsWhole
    BY <1>0 DEF OutputIsWhole, OutputInv, OpInv, Bytes, FileTypeOK
  <1>2. NoCallAfterClose
    BY <1>0 DEF NoCallAfterClose, OpInv, Resources, FileTypeOK
  <1>3. NothingLeftBehind
    BY <1>0 DEF NothingLeftBehind, OpInv, Resources, InSession, Settling
  <1>4. CapacityAccounted
    <2>1. active \subseteq Requests
      BY DEF IInv, TypeOK, EngineTypeOK
    <2>2. QED
      BY <1>0, <2>1 DEF CapacityAccounted, OpInv, Holding
  <1>5. ASSUME NEW o \in Requests, pc[o] = "ok"
        PROVE  o \in committed /\ size[o] = Size /\ pending[o] = {} /\ o \notin active
    <2>1. o \in committed /\ size[o] = Size
      BY <1>0, <1>5 DEF OpInv, Session, Bytes
    <2>2. pending[o] = {}
      BY <1>0, <1>5 DEF OpInv, Work
    <2>3. o \notin active
      BY <1>0, <1>5, <2>2 DEF OpInv, Holding, Settling
    <2>4. QED
      BY <2>1, <2>2, <2>3
  <1>6. QED
    BY <1>1, <1>2, <1>3, <1>4, <1>5 DEF SuccessIsCommitted

\* commit() and the write loop: a reader of the output path sees the previous
\* file or a complete one, also after a crash.
THEOREM OutputStaysWhole == Spec => []OutputIsWhole
  BY Invariance, InvariantImplies, PTL

\* dispose(): no native call uses a closed descriptor.
THEOREM CallsPrecedeClose == Spec => []NoCallAfterClose
  BY Invariance, InvariantImplies, PTL

\* cleanup(): an answered operation leaves neither descriptors nor temporary
\* entries behind.
THEOREM NothingIsLeftBehind == Spec => []NothingLeftBehind
  BY Invariance, InvariantImplies, PTL

\* An operation that succeeds has its complete result committed and its
\* capacity returned.
THEOREM SuccessMeansCommitted == Spec => []SuccessIsCommitted
  BY Invariance, InvariantImplies, PTL

\* Answered operations hold capacity only while work of theirs, a plugin or
\* the audit, is unsettled.
THEOREM CapacityIsAccounted == Spec => []CapacityAccounted
  BY Invariance, InvariantImplies, PTL

\* startRequest keeps file operations within maxConcurrentOperations.
THEOREM ConcurrencyIsBounded == Spec => []CapacityBound
  BY Invariance, PTL DEF IInv

(***************************************************************************)
(* The capacity contract.  As in StreamOperations, a stage that retries    *)
(* may start work after its request was released; nothing else breaks it.  *)
(***************************************************************************)

\* withRetry is never asked for a second attempt.
NoRetries == \A p \in PluginIds : p \in Native \/ Attempts[p] = 1

\* No stage is about to start its next attempt.
NoneRetrying == \A o \in Requests : retrying[o] = {}

\* Without retries a stage calls its plugin only while the pipeline runs.
LEMMA SingleAttempt ==
    ASSUME NoRetries, TypeOK, NoneRetrying, NEW o \in Requests, NEW k \in StagesOf(o), StageStep(o, k)
    PROVE  /\ retrying' = retrying
           /\ \/ pc[o] = "streaming" /\ TrackWork(o, k + 1)
              \/ k + 1 \in pending[o] /\ Settled(o, k + 1)
  <1>1. chain[o][k] \in PluginIds
    BY StagesArePlugins
  <1>2. CASE StageCalls(o, k)
    BY <1>2 DEF StageCalls, pipeVars, stageVars
  <1>3. ASSUME NEW fulfilled, StageSettles(o, k, fulfilled)
        PROVE  retrying' = retrying /\ k + 1 \in pending[o] /\ Settled(o, k + 1)
    <2>1. ~(~IsNative(o, k) /\ Attempts[chain[o][k]] > 1)
      BY <1>1 DEF NoRetries, IsNative
    <2>2. QED
      BY <1>3, <2>1 DEF StageSettles
  <1>4. ~StageRetries(o, k)
    BY DEF NoneRetrying, StageRetries
  <1>5. QED
    BY <1>2, <1>3, <1>4 DEF StageStep

\* Without retries no stage ever waits for its next attempt.
LEMMA NoneRetryingStep ==
    ASSUME NoRetries, IInv, NoneRetrying, [Next]_vars
    PROVE  NoneRetrying'
  <1>0. TypeOK
    BY DEF IInv
  <1>1. CASE Configure \/ Crash \/ UNCHANGED vars
    BY <1>1 DEF Configure, Crash, vars, fileVars, pipeVars, stageVars, NoneRetrying
  <1>2. ASSUME NEW o \in Requests, StepOf(o) PROVE NoneRetrying'
    <2>1. CASE \E k \in StagesOf(o) : StageStep(o, k)
      BY <1>0, <2>1, SingleAttempt DEF NoneRetrying
    <2>2. CASE UNCHANGED retrying
      BY <2>2 DEF NoneRetrying
    <2>3. QED
      BY <1>2, <2>1, <2>2
         DEF StepOf, Call, Refuse, Advance, PipelineResolves, PipelineRejects, Finish, Cleanup,
             Audit, Complete, Fail, StageFails, Read, NativeCall, ReadDone, WriteDone, Abort,
             Expire, Write, AuditSettles, pipeVars, stageVars
  <1>3. QED
    BY <1>1, <1>2, NextCases

\* Without retries every step is a step of the capacity contract or leaves the
\* contract's state alone.
LEMMA ContractStep ==
    ASSUME NoRetries, IInv, NoneRetrying, [Next]_vars
    PROVE  [Capacity!Next]_(Capacity!capVars)
  <1>0. TypeOK /\ EngineTypeOK /\ \A o \in Requests : OpInv(o)
    BY DEF IInv, TypeOK
  <1>1. CASE Crash \/ UNCHANGED vars
    BY <1>1, ContractQuiet DEF Crash, vars
  <1>2. CASE Configure
    BY <1>0, <1>2, ContractReconfigured DEF Configure, Reconfigure
  <1>3. ASSUME NEW o \in Requests, StepOf(o) PROVE [Capacity!Next]_(Capacity!capVars)
    <2>1. UNCHANGED configVars
      BY <1>0, <1>3, StepOnTable
    <2>2. AccountedStep(o)
      <3>0. OpInv(o) /\ AuditWork \in Nat \ {0}
        BY <1>0, <1>3 DEF AuditWork
      <3>1. pc[o] \in Running => o \in active
        BY <3>0 DEF OpInv, Holding
      <3>2. pc[o] = "idle" => o \notin active
        BY <3>0 DEF OpInv, Holding, Running, Settling
      <3>3. ASSUME NEW hasSchema, Call(o, hasSchema) PROVE AccountedStep(o)
        BY <3>2, <3>3 DEF AccountedStep, Call
      <3>4. CASE Audit(o) \/ Complete(o) \/ Fail(o)
        BY <3>0, <3>1, <3>4 DEF AccountedStep, Audit, Complete, Fail, Running
      <3>5. ASSUME NEW fulfilled, AuditSettles(o, fulfilled) PROVE AccountedStep(o)
        BY <3>5 DEF AccountedStep, AuditSettles
      <3>6. ASSUME NEW k \in StagesOf(o), StageStep(o, k) PROVE AccountedStep(o)
        BY <1>0, <3>1, <3>6, SingleAttempt, StagesArePlugins DEF AccountedStep, Running
      <3>7. CASE UNCHANGED engineVars
        BY <3>7 DEF AccountedStep, engineVars, tableVars
      <3>8. QED
        BY <1>3, <3>3, <3>4, <3>5, <3>6, <3>7
           DEF StepOf, Refuse, Advance, PipelineResolves, PipelineRejects, Finish, Cleanup,
               StageFails, Read, NativeCall, ReadDone, WriteDone, Write, Abort, Expire
    <2>3. QED
      BY <1>0, <1>3, <2>1, <2>2, ContractKept
  <1>4. QED
    BY <1>1, <1>2, <1>3, NextCases

\* File operations whose wrapped plugins are not retried implement the
\* capacity contract of the engine, although plugins that were called may
\* outlive the pipeline, the session and the answer (trackWork, releaseRequest).
THEOREM FilesImplementCapacity ==
    ASSUME NoRetries
    PROVE  Spec => CapacityContract
  <1>1. Init => Capacity!Init /\ NoneRetrying
    <2>1. Init => Capacity!Init
      BY ContractInit DEF Init
    <2>2. Init => NoneRetrying
      BY DEF Init, NoneRetrying
    <2>3. QED
      BY <2>1, <2>2
  <1>2. IInv /\ NoneRetrying /\ [Next]_vars => NoneRetrying' /\ [Capacity!Next]_(Capacity!capVars)
    BY NoneRetryingStep, ContractStep
  <1>3. QED
    BY <1>1, <1>2, Invariance, PTL DEF Spec, CapacityContract, Capacity!Spec

(***************************************************************************)
(* Refinement: file operations replace the output atomically.              *)
(***************************************************************************)

\* The abstract state that a state of the file operations stands for.
Content == IF output = Old THEN Old ELSE <<output, size[output]>>
OpenNow == {o \in Requests : o \notin committed /\ pc[o] \notin {"failing"} \cup Settling}

\* An operation that was answered, or is about to fail, stays so.
LEMMA GivenUp ==
    ASSUME FileTypeOK, NEW o \in Requests, StepOf(o), pc[o] \in {"failing"} \cup Settling
    PROVE  pc'[o] \in {"failing"} \cup Settling
  BY DEF StepOf, Call, Refuse, Advance, PipelineResolves, PipelineRejects, Finish, Cleanup,
         Audit, Complete, Fail, StageFails, Read, NativeCall, ReadDone, WriteDone, Abort,
         Expire, Write, AuditSettles, StageStep, StageCalls, StageSettles, StageRetries, Break,
         Goto, Settling, Running, FileTypeOK

\* A step of an operation replaces the output, gives up, or is not seen.
LEMMA ReplacementStep ==
    ASSUME IInv, ~crashed, NEW o \in Requests, StepOf(o)
    PROVE  \/ o \in OpenNow /\ Content' = <<o, Size>> /\ OpenNow' = OpenNow \ {o}
           \/ o \in OpenNow /\ Content' = Content /\ OpenNow' = OpenNow \ {o}
           \/ Content' = Content /\ OpenNow' = OpenNow
  <1>0. TypeOK /\ FileTypeOK /\ OutputInv /\ \A q \in Requests : OpInv(q)
    BY TypeParts DEF IInv
  <1>1. ASSUME NEW q \in Requests \ {o} PROVE q \in OpenNow' <=> q \in OpenNow
    <2>1. pc'[q] = pc[q] /\ (q \in committed' <=> q \in committed)
      BY <1>0, <1>1, OthersSame DEF Same
    <2>2. QED
      BY <2>1 DEF OpenNow
  <1>2. \/ UNCHANGED <<output, committed>> /\ (o \in committed => size'[o] = size[o])
        \/ /\ pc[o] = "ran" /\ output' = o /\ committed' = committed \cup {o}
           /\ size' = size
    BY <1>0, OwnStep
  <1>3. o \in OpenNow' => o \in OpenNow
    BY <1>0, <1>2, GivenUp DEF OpenNow
  <1>4. OpenNow' = OpenNow \/ (o \in OpenNow /\ OpenNow' = OpenNow \ {o})
    <2>1. OpenNow \subseteq Requests /\ OpenNow' \subseteq Requests
      BY DEF OpenNow
    <2>2. QED
      BY <1>1, <1>3, <2>1
  <1>5. CASE UNCHANGED <<output, committed>> /\ (o \in committed => size'[o] = size[o])
    <2>1. output # Old => output \in Requests /\ size'[output] = size[output]
      <3>1. ASSUME output # Old PROVE output \in Requests /\ output \in committed
        BY <1>0, <3>1 DEF OutputInv, FileTypeOK
      <3>2. \A q \in Requests \ {o} : size'[q] = size[q]
        BY <1>0, OthersSame DEF Same
      <3>3. QED
        BY <1>5, <3>1, <3>2
    <2>2. Content' = Content
      BY <1>5, <2>1 DEF Content
    <2>3. QED
      BY <1>4, <2>2
  <1>6. CASE /\ pc[o] = "ran" /\ output' = o /\ committed' = committed \cup {o}
             /\ size' = size
    <2>1. size[o] = Size /\ o \notin committed
      BY <1>0, <1>6 DEF OpInv, Bytes, Session
    <2>2. Content' = <<o, Size>>
      BY <1>6, <2>1, FileAssumption DEF Content
    <2>3. o \in OpenNow /\ o \notin OpenNow'
      BY <1>6, <2>1 DEF OpenNow, Settling
    <2>4. QED
      BY <1>4, <2>2, <2>3
  <1>7. QED
    BY <1>2, <1>5, <1>6

\* withAtomicOutput implements AtomicReplace: the output shows its old content
\* or one operation's complete result, each operation replaces it at most
\* once, and never after it was given up.
THEOREM FilesReplaceAtomically == Spec => ReplaceContract
  <1>1. Init => Replacement!Init
    BY DEF Init, Replacement!Init, Settling
  <1>2. IInv /\ [Next]_vars => [Replacement!Next]_<<Content, OpenNow>>
    <2> SUFFICES ASSUME IInv, [Next]_vars PROVE [Replacement!Next]_<<Content, OpenNow>>
      OBVIOUS
    <2>1. ASSUME NEW o \in Requests, ~crashed, StepOf(o)
          PROVE  [Replacement!Next]_<<Content, OpenNow>>
      BY <2>1, ReplacementStep
         DEF Replacement!Next, Replacement!Replace, Replacement!GiveUp, Content, OpenNow
    <2>2. CASE Configure \/ Crash \/ UNCHANGED vars
      BY <2>2 DEF Configure, Crash, vars, fileVars, sessionVars, diskVars, Content, OpenNow
    <2>3. QED
      BY <2>1, <2>2, NextCases
  <1>3. QED
    BY <1>1, <1>2, Invariance, PTL DEF Spec, ReplaceContract, Replacement!Spec, Content, OpenNow
=============================================================================
