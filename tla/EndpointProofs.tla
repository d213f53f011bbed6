--------------------------- MODULE EndpointProofs ---------------------------
(***************************************************************************)
(* Proofs about StreamEndpoint: into() restricts the stream operations, so *)
(* their invariant carries over, and on top of it the endpoint is answered *)
(* once and never too early.                                               *)
(***************************************************************************)
EXTENDS StreamEndpoint, StreamProofs

Endpoints == {"none", "open", "writing", "ending", "finished", "errored", "destroyed"}

EndpointTypeOK ==
    /\ endpoint      \in [Requests -> Endpoints]
    /\ finalCallback \in [Requests -> BOOLEAN]
    /\ answers       \in [Requests -> Nat]

\* The callback of final() is kept only by an endpoint that is ending, and an
\* endpoint that is still unsettled has answered nothing; how the endpoint
\* was settled agrees with how the operation was answered.
EndInv(o) ==
    /\ finalCallback[o] = TRUE => endpoint[o] = "ending"
    /\ endpoint[o] \in Unsettled \cup {"none"} => answers[o] = 0
    /\ endpoint[o] = "finished" => pc[o] = "ok"
    /\ pc[o] = "idle" => endpoint[o] = "none"
    /\ pc[o] = "failed" => endpoint[o] \in {"none", "errored", "destroyed"}

EInv == IInv /\ EndpointTypeOK /\ \A o \in Requests : EndInv(o)

(***************************************************************************)
(* The endpoint only restricts the operation.                              *)
(***************************************************************************)

\* A step of the endpoint or of the operation behind it.
EndpointStepOf(o) ==
    \/ \E hasSchema \in BOOLEAN : Refuse(o, hasSchema) /\ UNCHANGED endpointVars
    \/ \E m \in {"process", "reverse"} : Into(o, m)
    \/ Write(o) \/ WriteDone(o) \/ End(o) \/ Destroy(o)
    \/ EndpointAdvance(o) \/ Background(o)
    \/ \E k \in StagesOf(o) : EndpointStage(o, k)

\* The next-state relation, by who takes the step.
LEMMA EndpointCases ==
    EndpointNext <=> \/ Configure /\ UNCHANGED endpointVars
                     \/ \E o \in Requests : EndpointStepOf(o)
  BY DEF EndpointNext, EndpointStepOf

\* A step with an endpoint is a step of the stream operation, or one of the
\* caller that the operation does not see.
LEMMA EndpointStepCases ==
    ASSUME NEW o \in Requests, EndpointStepOf(o)
    PROVE  StepOf(o) \/ UNCHANGED vars
  BY DEF EndpointStepOf, StepOf, Into, Write, WriteDone, End, Destroy, EndpointAdvance,
         EndpointResolves, PrematureClose, EndpointCompletes, EndpointFailed, Advance,
         Background, EndpointStage

\* Every step with endpoints is a step without them, or a stutter.
LEMMA EndpointRestricts ==
    [EndpointNext]_allVars => [Next]_vars
  <1>1. ASSUME NEW o \in Requests, EndpointStepOf(o) PROVE [Next]_vars
    BY <1>1, EndpointStepCases, NextCases
  <1>2. CASE Configure
    BY <1>2, NextCases
  <1>3. CASE UNCHANGED allVars
    BY <1>3 DEF allVars
  <1>4. QED
    BY <1>1, <1>2, <1>3, EndpointCases

\* #into composes the endpoint with the operation of pipe(): the operation
\* behind an endpoint does nothing that a stream operation may not do.
THEOREM EndpointImplementsStream == EndpointSpec => Spec
  <1>1. EndpointInit => Init
    BY DEF EndpointInit
  <1>2. QED
    BY <1>1, EndpointRestricts, PTL DEF EndpointSpec, Spec

(***************************************************************************)
(* Steps.                                                                  *)
(***************************************************************************)

\* The steps of an operation that do not answer it with a failure.
Unfailing(o) ==
    \/ \E hasSchema \in BOOLEAN : Refuse(o, hasSchema)
    \/ PipelineResolves(o) \/ Audit(o) \/ Complete(o)
    \/ EndpointFails(o) \/ Abort(o) \/ Expire(o)
    \/ \E k \in StagesOf(o) : StageStep(o, k) \/ StageTimer(o, k)
    \/ \E w \in pending[o], fulfilled \in BOOLEAN : PromiseSettles(o, w, fulfilled)

\* How an operation may move: it is called once, and an answer is final.
LEMMA OperationMoves ==
    ASSUME TypeOK, NEW o \in Requests, Unfailing(o)
    PROVE  /\ pc'[o] = "idle" => pc[o] = "idle"
           /\ pc[o] = "ok" => pc'[o] = "ok"
           /\ pc'[o] = "failed" => pc[o] = "failed"
  <1>1. ASSUME NEW k, StageStep(o, k) \/ StageTimer(o, k)
        PROVE  pc'[o] = pc[o] \/ (pc[o] = "streaming" /\ pc'[o] = "failing")
    <2>1. ASSUME Report(o, k)
          PROVE  pc'[o] = pc[o] \/ (pc[o] = "streaming" /\ pc'[o] = "failing")
      BY <2>1 DEF Report, Goto, TypeOK
    <2>2. QED
      BY <1>1, <2>1 DEF StageStep, NativeStep, NativeCalls, NativeFails, TakeChunk, StageRejected,
                        StageDelayElapsed, StageResolved, StageCaught, StageTimer
  <1>2. QED
    BY <1>1 DEF Unfailing, Refuse, PipelineResolves, Audit, Complete, EndpointFails, Abort,
                Expire, PromiseSettles, Goto, TypeOK

\* settleEndpoint answers the kept callback, or fails an endpoint that is
\* still in use.
LEMMA SettleEffect ==
    ASSUME EndpointTypeOK, NEW o \in Requests, EndInv(o), NEW failed \in BOOLEAN,
           SettleEndpoint(o, failed)
    PROVE  /\ EndpointTypeOK'
           /\ finalCallback'[o] = FALSE
           /\ endpoint'[o] = IF finalCallback[o] = TRUE
                             THEN IF failed THEN "errored" ELSE "finished"
                             ELSE IF failed /\ endpoint[o] \in Unsettled THEN "errored"
                             ELSE endpoint[o]
           /\ answers'[o] # answers[o] => finalCallback[o] = TRUE
           /\ \A q \in Requests \ {o} :
                 endpoint'[q] = endpoint[q] /\ finalCallback'[q] = finalCallback[q] /\ answers'[q] = answers[q]
  <1> USE DEF EndpointTypeOK
  <1>1. /\ finalCallback' \in [Requests -> BOOLEAN]
        /\ finalCallback'[o] = FALSE
        /\ \A q \in Requests \ {o} : finalCallback'[q] = finalCallback[q]
    BY Zenon DEF SettleEndpoint
  <1>2. /\ answers' \in [Requests -> Nat]
        /\ answers'[o] # answers[o] => finalCallback[o]
        /\ \A q \in Requests \ {o} : answers'[q] = answers[q]
    BY DEF SettleEndpoint
  <1>3. /\ endpoint' \in [Requests -> Endpoints]
        /\ endpoint'[o] = IF finalCallback[o]
                          THEN IF failed THEN "errored" ELSE "finished"
                          ELSE IF failed /\ endpoint[o] \in Unsettled THEN "errored"
                          ELSE endpoint[o]
        /\ \A q \in Requests \ {o} : endpoint'[q] = endpoint[q]
    BY DEF SettleEndpoint, Endpoints
  <1>4. finalCallback[o] \in BOOLEAN
    BY Zenon
  <1>5. finalCallback[o] <=> finalCallback[o] = TRUE
    BY <1>4, Zenon
  <1>6. QED
    BY <1>1, <1>2, <1>3, <1>5

\* What the caller does: the operation does not see it, and nothing is
\* answered.
LEMMA CallerStep ==
    ASSUME EndpointTypeOK, NEW o \in Requests, EndInv(o),
           Write(o) \/ WriteDone(o) \/ End(o) \/ Destroy(o)
    PROVE  /\ EndpointTypeOK' /\ EndInv(o)' /\ UNCHANGED <<vars, answers>>
           /\ \A q \in Requests \ {o} :
                 endpoint'[q] = endpoint[q] /\ finalCallback'[q] = finalCallback[q]
  <1> USE DEF EndpointTypeOK
  <1>1. UNCHANGED <<vars, answers>> /\ endpoint[o] \in Unsettled
    BY DEF Write, WriteDone, End, Destroy, Unsettled
  <1>2. pc' = pc
    BY <1>1 DEF vars, streamVars
  <1>3. ASSUME NEW to \in {"writing", "open", "ending", "errored", "destroyed"},
               endpoint' = [endpoint EXCEPT ![o] = to]
        PROVE  /\ endpoint' \in [Requests -> Endpoints] /\ endpoint'[o] = to
               /\ \A q \in Requests \ {o} : endpoint'[q] = endpoint[q]
    BY <1>3 DEF Endpoints
  <1>4. ASSUME NEW kept \in BOOLEAN, finalCallback' = [finalCallback EXCEPT ![o] = kept]
        PROVE  /\ finalCallback' \in [Requests -> BOOLEAN] /\ finalCallback'[o] = kept
               /\ \A q \in Requests \ {o} : finalCallback'[q] = finalCallback[q]
    BY <1>4, Zenon
  <1>5. CASE Write(o) \/ WriteDone(o)
    <2>1. /\ finalCallback' = finalCallback /\ endpoint[o] \in {"open", "writing"}
          /\ \/ endpoint' = [endpoint EXCEPT ![o] = "writing"] /\ pc[o] = "streaming"
             \/ endpoint' = [endpoint EXCEPT ![o] = "errored"]
             \/ endpoint' = [endpoint EXCEPT ![o] = "open"] /\ pc[o] = "streaming"
      BY <1>5 DEF Write, WriteDone
    <2>2. /\ endpoint' \in [Requests -> Endpoints]
          /\ endpoint'[o] = "errored" \/ (endpoint'[o] \in {"writing", "open"} /\ pc[o] = "streaming")
          /\ \A q \in Requests \ {o} : endpoint'[q] = endpoint[q]
      BY <1>3, <2>1
    <2>3. finalCallback[o] # TRUE
      BY <2>1 DEF EndInv
    <2>4. EndInv(o)'
      BY <1>1, <1>2, <2>1, <2>2, <2>3 DEF EndInv, Unsettled
    <2>5. QED
      BY <1>1, <2>1, <2>2, <2>4
  <1>6. CASE End(o)
    <2>1. /\ endpoint' = [endpoint EXCEPT ![o] = "ending"]
          /\ finalCallback' = [finalCallback EXCEPT ![o] = TRUE]
          /\ endpoint[o] = "open"
      BY <1>6 DEF End
    <2>2. /\ endpoint' \in [Requests -> Endpoints] /\ endpoint'[o] = "ending"
          /\ \A q \in Requests \ {o} : endpoint'[q] = endpoint[q]
      BY <1>3, <2>1
    <2>3. /\ finalCallback' \in [Requests -> BOOLEAN]
          /\ \A q \in Requests \ {o} : finalCallback'[q] = finalCallback[q]
      BY <1>4, <2>1, Zenon
    <2>4. EndInv(o)'
      BY <1>1, <1>2, <2>1, <2>2 DEF EndInv, Unsettled
    <2>5. QED
      BY <1>1, <2>2, <2>3, <2>4
  <1>7. CASE Destroy(o)
    <2>1. /\ endpoint' = [endpoint EXCEPT ![o] = "destroyed"]
          /\ finalCallback' = [finalCallback EXCEPT ![o] = FALSE]
      BY <1>7 DEF Destroy
    <2>2. /\ endpoint' \in [Requests -> Endpoints] /\ endpoint'[o] = "destroyed"
          /\ \A q \in Requests \ {o} : endpoint'[q] = endpoint[q]
      BY <1>3, <2>1
    <2>3. /\ finalCallback' \in [Requests -> BOOLEAN] /\ finalCallback'[o] = FALSE
          /\ \A q \in Requests \ {o} : finalCallback'[q] = finalCallback[q]
      BY <1>4, <2>1, Zenon
    <2>4. pc[o] # "idle"
      BY <1>1 DEF EndInv, Unsettled
    <2>5. EndInv(o)'
      BY <1>1, <1>2, <2>2, <2>3, <2>4 DEF EndInv, Unsettled
    <2>6. QED
      BY <1>1, <2>2, <2>3, <2>5
  <1>8. QED
    BY <1>5, <1>6, <1>7

\* A step of the operation behind the endpoint, including the ones that
\* settle the endpoint.
LEMMA OperationStep ==
    ASSUME TypeOK, EndpointTypeOK, NEW o \in Requests, EndInv(o), EndpointStepOf(o),
           ~(Write(o) \/ WriteDone(o) \/ End(o) \/ Destroy(o))
    PROVE  /\ EndpointTypeOK' /\ EndInv(o)'
           /\ answers'[o] # answers[o] => answers[o] = 0 /\ endpoint[o] = "ending"
           /\ \A q \in Requests \ {o} :
                 /\ endpoint'[q] = endpoint[q] /\ finalCallback'[q] = finalCallback[q]
                 /\ answers'[q] = answers[q] /\ pc'[q] = pc[q]
  <1>0. StepOf(o)
    BY DEF EndpointStepOf, StepOf, Into, EndpointAdvance, EndpointResolves, PrematureClose,
           EndpointCompletes, EndpointFailed, Advance, Background, EndpointStage
  <1>1. \A q \in Requests \ {o} : pc'[q] = pc[q]
    BY <1>0, OthersSame DEF Same
  <1>3. ASSUME UNCHANGED endpointVars, Unfailing(o)
        PROVE  /\ EndpointTypeOK' /\ EndInv(o)' /\ answers' = answers
               /\ \A q \in Requests \ {o} :
                     endpoint'[q] = endpoint[q] /\ finalCallback'[q] = finalCallback[q]
    <2>1. endpoint' = endpoint /\ finalCallback' = finalCallback /\ answers' = answers
      BY <1>3 DEF endpointVars
    <2>2. EndpointTypeOK'
      BY <2>1 DEF EndpointTypeOK
    <2>3. EndInv(o)'
      BY <1>3, <2>1, OperationMoves DEF EndInv
    <2>4. QED
      BY <2>1, <2>2, <2>3
  <1>4. ASSUME NEW m, Into(o, m)
        PROVE  /\ EndpointTypeOK' /\ EndInv(o)' /\ answers' = answers
               /\ \A q \in Requests \ {o} :
                     endpoint'[q] = endpoint[q] /\ finalCallback'[q] = finalCallback[q]
    <2>1. /\ pc[o] = "idle" /\ pc'[o] \in {"failing", "streaming"}
          /\ finalCallback' = finalCallback /\ answers' = answers
      BY <1>4 DEF Into, Call, Goto, TypeOK
    <2>2. /\ endpoint' \in [Requests -> Endpoints]
          /\ endpoint'[o] \in {"open", "none"}
          /\ \A q \in Requests \ {o} : endpoint'[q] = endpoint[q]
      BY <1>4 DEF Into, EndpointTypeOK, Endpoints
    <2>3. EndpointTypeOK'
      BY <2>1, <2>2 DEF EndpointTypeOK
    <2>4. endpoint[o] = "none" /\ finalCallback[o] # TRUE /\ answers[o] = 0
      BY <2>1 DEF EndInv
    <2>5. EndInv(o)'
      BY <2>1, <2>2, <2>4 DEF EndInv, Unsettled
    <2>6. QED
      BY <2>1, <2>2, <2>3, <2>5
  <1>5. ASSUME NEW failed \in BOOLEAN, SettleEndpoint(o, failed),
               pc'[o] = IF failed THEN "failed" ELSE "ok", pc[o] \in Running
        PROVE  /\ EndpointTypeOK' /\ EndInv(o)'
               /\ answers'[o] # answers[o] => answers[o] = 0 /\ endpoint[o] = "ending"
               /\ \A q \in Requests \ {o} :
                     /\ endpoint'[q] = endpoint[q] /\ finalCallback'[q] = finalCallback[q]
                     /\ answers'[q] = answers[q]
    <2>1. /\ EndpointTypeOK'
          /\ finalCallback'[o] = FALSE
          /\ endpoint'[o] = IF finalCallback[o] = TRUE
                            THEN IF failed THEN "errored" ELSE "finished"
                            ELSE IF failed /\ endpoint[o] \in Unsettled THEN "errored"
                            ELSE endpoint[o]
          /\ answers'[o] # answers[o] => finalCallback[o] = TRUE
          /\ \A q \in Requests \ {o} :
                /\ endpoint'[q] = endpoint[q] /\ finalCallback'[q] = finalCallback[q]
                /\ answers'[q] = answers[q]
      BY <1>5, SettleEffect
    <2>2. endpoint[o] \in Endpoints
      BY DEF EndpointTypeOK
    <2>3. endpoint[o] # "finished"
      BY <1>5 DEF EndInv, Running
    <2>4. answers'[o] # answers[o] => answers[o] = 0 /\ endpoint[o] = "ending"
      BY <2>1 DEF EndInv, Unsettled
    <2>5. EndInv(o)'
      <3>1. finalCallback'[o] # TRUE
        BY <2>1
      <3>2. CASE finalCallback[o] = TRUE
        BY <1>5, <2>1, <3>1, <3>2 DEF EndInv, Unsettled
      <3>3. CASE finalCallback[o] # TRUE
        <4>1. answers'[o] = answers[o]
          BY <2>1, <3>3
        <4>2. CASE failed
          BY <1>5, <2>1, <2>2, <2>3, <3>1, <3>3, <4>1, <4>2 DEF EndInv, Unsettled, Endpoints
        <4>3. CASE ~failed
          BY <1>5, <2>1, <2>3, <3>1, <3>3, <4>1, <4>3 DEF EndInv
        <4>4. QED
          BY <4>2, <4>3
      <3>4. QED
        BY <3>2, <3>3
    <2>6. QED
      BY <2>1, <2>4, <2>5
  <1>6. CASE EndpointCompletes(o)
    <2>1. Complete(o) /\ pc[o] = "audited" /\ pc'[o] \in {"ok", "failing"}
      BY <1>6 DEF EndpointCompletes, Complete, Goto, TypeOK
    <2>2. CASE pc'[o] = "ok"
      <3>1. SettleEndpoint(o, FALSE)
        BY <1>6, <2>2 DEF EndpointCompletes
      <3>2. QED
        BY <1>1, <1>5, <2>1, <2>2, <3>1 DEF Running
    <2>3. CASE pc'[o] = "failing"
      <3>1. UNCHANGED endpointVars
        BY <1>6, <2>3 DEF EndpointCompletes
      <3>2. Unfailing(o)
        BY <2>1 DEF Unfailing
      <3>3. QED
        BY <1>1, <1>3, <3>1, <3>2
    <2>4. QED
      BY <2>1, <2>2, <2>3
  <1>7. CASE EndpointFailed(o)
    <2>1. pc[o] = "failing" /\ pc'[o] = "failed" /\ SettleEndpoint(o, TRUE)
      BY <1>7 DEF EndpointFailed, Fail, Goto, TypeOK
    <2>2. QED
      BY <1>1, <1>5, <2>1 DEF Running
  <1>8. CASE UNCHANGED endpointVars /\ Unfailing(o)
    BY <1>1, <1>3, <1>8
  <1>9. \/ UNCHANGED endpointVars /\ Unfailing(o)
        \/ \E m \in {"process", "reverse"} : Into(o, m)
        \/ EndpointCompletes(o) \/ EndpointFailed(o)
    BY DEF EndpointStepOf, EndpointAdvance, EndpointResolves, PrematureClose, Background,
           EndpointStage, Unfailing
  <1>10. QED
    BY <1>1, <1>4, <1>6, <1>7, <1>8, <1>9

(***************************************************************************)
(* The theorems.                                                           *)
(***************************************************************************)

\* An endpoint of an operation that the step does not concern.
LEMMA EndpointFrame ==
    ASSUME NEW q \in Requests, EndInv(q), pc'[q] = pc[q], endpoint'[q] = endpoint[q],
           finalCallback'[q] = finalCallback[q], answers'[q] = answers[q]
    PROVE  EndInv(q)'
  BY DEF EndInv

\* Every step preserves what is known of the endpoints, and answers a callback
\* of final() only when it was not answered before.
LEMMA EndpointStepInv ==
    ASSUME EInv, [EndpointNext]_allVars
    PROVE  /\ EInv'
           /\ \A q \in Requests : answers'[q] # answers[q] => answers[q] = 0 /\ endpoint[q] = "ending"
  <1>0. IInv' /\ TypeOK /\ EndpointTypeOK /\ \A q \in Requests : EndInv(q)
    <2>1. IInv'
      BY EndpointRestricts, InvariantStep DEF EInv
    <2>2. QED
      BY <2>1 DEF EInv, IInv
  <1>1. CASE UNCHANGED <<pc, endpointVars>>
    <2>1. UNCHANGED <<pc, endpoint, finalCallback, answers>>
      BY <1>1 DEF endpointVars
    <2>2. EndpointTypeOK'
      BY <1>0, <2>1 DEF EndpointTypeOK
    <2>3. \A q \in Requests : EndInv(q)'
      BY <1>0, <2>1, EndpointFrame
    <2>4. QED
      BY <1>0, <2>1, <2>2, <2>3 DEF EInv
  <1>2. ASSUME NEW o \in Requests, EndpointStepOf(o)
        PROVE  /\ EndpointTypeOK' /\ EndInv(o)'
               /\ answers'[o] # answers[o] => answers[o] = 0 /\ endpoint[o] = "ending"
               /\ \A q \in Requests \ {o} :
                     /\ endpoint'[q] = endpoint[q] /\ finalCallback'[q] = finalCallback[q]
                     /\ answers'[q] = answers[q] /\ pc'[q] = pc[q]
    <2>1. CASE Write(o) \/ WriteDone(o) \/ End(o) \/ Destroy(o)
      <3>1. /\ EndpointTypeOK' /\ EndInv(o)' /\ UNCHANGED <<vars, answers>>
            /\ \A q \in Requests \ {o} :
                  endpoint'[q] = endpoint[q] /\ finalCallback'[q] = finalCallback[q]
        BY <1>0, <1>2, <2>1, CallerStep
      <3>2. pc' = pc /\ answers' = answers
        BY <3>1 DEF vars, streamVars
      <3>3. QED
        BY <3>1, <3>2
    <2>2. CASE ~(Write(o) \/ WriteDone(o) \/ End(o) \/ Destroy(o))
      BY <1>0, <1>2, <2>2, OperationStep
    <2>3. QED
      BY <2>1, <2>2
  <1>3. ASSUME NEW o \in Requests, EndpointStepOf(o)
        PROVE  /\ EInv'
               /\ \A q \in Requests : answers'[q] # answers[q] => answers[q] = 0 /\ endpoint[q] = "ending"
    <2>1. ASSUME NEW q \in Requests PROVE EndInv(q)'
      <3>1. CASE q = o
        BY <1>2, <1>3, <3>1
      <3>2. CASE q # o
        BY <1>0, <1>2, <1>3, <2>1, <3>2, EndpointFrame
      <3>3. QED
        BY <3>1, <3>2
    <2>2. EInv'
      BY <1>0, <1>2, <1>3, <2>1 DEF EInv
    <2>3. QED
      BY <1>2, <1>3, <2>2
  <1>4. CASE Configure /\ UNCHANGED endpointVars
    BY <1>1, <1>4 DEF Configure, streamVars
  <1>5. CASE UNCHANGED allVars
    BY <1>1, <1>5 DEF allVars, vars, streamVars
  <1>6. QED
    BY <1>3, <1>4, <1>5, EndpointCases

\* The invariant of operations with endpoints.
THEOREM EndpointInvariance == EndpointSpec => []EInv
  <1>1. EndpointInit => EInv
    <2> SUFFICES ASSUME EndpointInit PROVE EInv
      OBVIOUS
    <2>1. IInv
      BY InvariantInit DEF EndpointInit
    <2>2. EndpointTypeOK
      BY DEF EndpointInit, EndpointTypeOK, Endpoints
    <2>3. \A o \in Requests : EndInv(o)
      BY DEF EndpointInit, Init, EndInv, Unsettled
    <2>4. QED
      BY <2>1, <2>2, <2>3 DEF EInv
  <1>2. EInv /\ [EndpointNext]_allVars => EInv'
    BY EndpointStepInv
  <1>3. QED
    BY <1>1, <1>2, PTL DEF EndpointSpec

\* Capacity is accounted for also when streams are driven through endpoints,
\* whatever the callers do.
THEOREM EndpointCapacity == EndpointSpec => []CapacityAccounted
  BY EndpointImplementsStream, CapacityIsAccounted, PTL

\* 'finish' is emitted only when the pipeline, the audit and every stage are
\* done and the capacity has been given back (settleEndpoint after endRequest).
THEOREM FinishIsDone == EndpointSpec => []FinishMeansDone
  <1>1. EInv => FinishMeansDone
    <2> SUFFICES ASSUME EInv, NEW o \in Requests, endpoint[o] = "finished"
                 PROVE  /\ pc[o] = "ok"
                        /\ \A k \in StagesOf(o) : out[o][k] = Chunks
                        /\ pending[o] = {}
                        /\ o \notin active
      BY DEF FinishMeansDone
    <2>1. pc[o] = "ok" /\ OpInv(o)
      BY DEF EInv, EndInv, IInv
    <2>2. QED
      BY <2>1 DEF OpInv, Through, Holding, Settling
  <1>2. QED
    BY <1>1, EndpointInvariance, PTL

\* The failure of an operation reaches its endpoint, whatever the caller was
\* doing with it.
THEOREM FailureIsSeen == EndpointSpec => []FailureReachesCaller
  <1>1. EInv => FailureReachesCaller
    BY DEF EInv, EndInv, FailureReachesCaller
  <1>2. QED
    BY <1>1, EndpointInvariance, PTL

\* The callback of final() is called at most once, and only while the endpoint
\* waits for it.
THEOREM FinalIsAnsweredOnce == EndpointSpec => FinalAnsweredOnce
  <1>1. EInv /\ [EndpointNext]_allVars =>
           [\A o \in Requests : answers'[o] # answers[o] => answers[o] = 0 /\ endpoint[o] = "ending"]_allVars
    BY EndpointStepInv
  <1>2. QED
    BY <1>1, EndpointInvariance, PTL DEF EndpointSpec, FinalAnsweredOnce
=============================================================================
