--------------------------- MODULE StreamEndpoint ---------------------------
(***************************************************************************)
(* engine.stream.into() and reverseInto(): StreamOperations with the       *)
(* Writable the caller is given (StreamController.#into).  The caller      *)
(* writes, ends or destroys the endpoint; what it writes goes to a         *)
(* PassThrough, the source of pipeline().  The endpoint is answered by     *)
(* settleEndpoint, once the operation has been: through the callback of    *)
(* final() when the caller has ended it, otherwise by destroying it.       *)
(*                                                                         *)
(* The chunks of a source are now the ones that were written: every        *)
(* operation is given Chunks of them before it is ended.                   *)
(***************************************************************************)
EXTENDS StreamOperations

VARIABLES
    endpoint,       \* "none", "open", "writing" (a callback of write() is due),
                    \* "ending", "finished", "errored" or "destroyed"
    finalCallback,  \* whether the callback of final() is kept
    answers,        \* how often a callback of final() was called
    source,         \* the PassThrough: "open", "ended" or "closed" (destroyed before its end)
    written         \* number of chunks it was given

endpointVars == <<endpoint, finalCallback, answers, source, written>>
allVars      == <<vars, endpointVars>>

Unsettled == {"open", "writing", "ending"}

EndpointInit ==
    /\ Init
    /\ endpoint      = [o \in Requests |-> "none"]
    /\ finalCallback = [o \in Requests |-> FALSE]
    /\ answers       = [o \in Requests |-> 0]
    /\ source        = [o \in Requests |-> "open"]
    /\ written       = [o \in Requests |-> 0]

\* into() returns an endpoint, or throws when the stages cannot be built.
Into(o, m) ==
    /\ Call(o, m)
    /\ endpoint' = [endpoint EXCEPT ![o] = IF pc'[o] = "streaming" THEN "open" ELSE "none"]
    /\ UNCHANGED <<finalCallback, answers, source, written>>

(***************************************************************************)
(* The caller's side.                                                      *)
(***************************************************************************)

\* write(): pipeline() destroys the source when it fails; a chunk that comes
\* later is answered with the error at once.
Write(o) ==
    /\ endpoint[o] = "open"
    /\ written[o] < Chunks
    /\ IF pc[o] = "streaming"
       THEN /\ endpoint' = [endpoint EXCEPT ![o] = "writing"]
            /\ written' = [written EXCEPT ![o] = @ + 1]
       ELSE /\ endpoint' = [endpoint EXCEPT ![o] = "errored"]
            /\ UNCHANGED written
    /\ UNCHANGED <<vars, finalCallback, answers, source>>

\* The source calls the callback of write(); a source that is destroyed in
\* between may never do so.
WriteDone(o) ==
    /\ endpoint[o] = "writing"
    /\ pc[o] = "streaming"
    /\ endpoint' = [endpoint EXCEPT ![o] = "open"]
    /\ UNCHANGED <<vars, finalCallback, answers, source, written>>

\* final(): the callback is kept and the source ended; ending a source that
\* was destroyed has no effect.
End(o) ==
    /\ endpoint[o] = "open"
    /\ written[o] = Chunks
    /\ endpoint' = [endpoint EXCEPT ![o] = "ending"]
    /\ finalCallback' = [finalCallback EXCEPT ![o] = TRUE]
    /\ source' = [source EXCEPT ![o] = IF pc[o] = "streaming" THEN "ended" ELSE @]
    /\ UNCHANGED <<vars, answers, written>>

DestroyKeepingCallback(o) ==
    /\ endpoint[o] \in Unsettled
    /\ endpoint' = [endpoint EXCEPT ![o] = "destroyed"]
    /\ UNCHANGED <<vars, finalCallback, answers, source, written>>

DestroyKeepingSource(o) ==
    /\ endpoint[o] \in Unsettled
    /\ endpoint' = [endpoint EXCEPT ![o] = "destroyed"]
    /\ finalCallback' = [finalCallback EXCEPT ![o] = FALSE]
    /\ UNCHANGED <<vars, answers, source, written>>

\* destroy(): the source goes with the endpoint, unless it is destroyed already:
\* because the pipeline has settled, or because it was ended and has delivered
\* everything.
Destroy(o) ==
    /\ endpoint[o] \in Unsettled
    /\ endpoint' = [endpoint EXCEPT ![o] = "destroyed"]
    /\ finalCallback' = [finalCallback EXCEPT ![o] = FALSE]
    /\ \/ pc[o] = "streaming" /\ source' = [source EXCEPT ![o] = "closed"]
       \/ (pc[o] = "streaming" => source[o] = "ended") /\ UNCHANGED source
    /\ UNCHANGED <<vars, answers, written>>

(***************************************************************************)
(* The operation's side.                                                   *)
(***************************************************************************)

SettleOnlyFinal(o, failed) ==
    /\ finalCallback' = [finalCallback EXCEPT ![o] = FALSE]
    /\ answers' = IF finalCallback[o] THEN [answers EXCEPT ![o] = @ + 1] ELSE answers
    /\ endpoint' = IF finalCallback[o]
                   THEN [endpoint EXCEPT ![o] = IF failed THEN "errored" ELSE "finished"]
                   ELSE endpoint
    /\ UNCHANGED <<source, written>>

\* settleEndpoint.
SettleEndpoint(o, failed) ==
    /\ finalCallback' = [finalCallback EXCEPT ![o] = FALSE]
    /\ answers' = IF finalCallback[o] THEN [answers EXCEPT ![o] = @ + 1] ELSE answers
    /\ endpoint' = CASE finalCallback[o] ->
                          [endpoint EXCEPT ![o] = IF failed THEN "errored" ELSE "finished"]
                     [] ~finalCallback[o] /\ failed /\ endpoint[o] \in Unsettled ->
                          [endpoint EXCEPT ![o] = "errored"]
                     [] OTHER -> endpoint
    /\ UNCHANGED <<source, written>>

EndpointResolvesAnswered(o) ==
    /\ source[o] = "ended"
    /\ PipelineResolves(o)
    /\ SettleEndpoint(o, FALSE)

\* pipeline() resolves only when its source has ended.
EndpointResolves(o) ==
    /\ source[o] = "ended"
    /\ PipelineResolves(o)
    /\ UNCHANGED endpointVars

\* A source that was destroyed too early fails the pipeline.
PrematureClose(o) == source[o] = "closed" /\ EndpointFails(o) /\ UNCHANGED endpointVars

\* then(): endRequest and settleEndpoint, unless the signal has aborted.
EndpointCompletes(o) ==
    /\ Complete(o)
    /\ IF pc'[o] = "ok" THEN SettleEndpoint(o, FALSE) ELSE UNCHANGED endpointVars

\* catch(): emitError, whose listeners cannot throw, then settleEndpoint.  An
\* into() that throws has no endpoint.
EndpointFailed(o) == Fail(o) /\ SettleEndpoint(o, TRUE)

EndpointAdvance(o) ==
    \/ EndpointResolves(o)
    \/ PrematureClose(o)
    \/ Audit(o) /\ UNCHANGED endpointVars
    \/ EndpointCompletes(o)
    \/ EndpointFailed(o)

\* The first stage works on what was written.
EndpointStage(o, k) ==
    /\ k = 1 /\ stage[o][1] = "waiting" => out[o][1] < written[o]
    /\ StageStep(o, k)
    /\ UNCHANGED endpointVars

Background(o) ==
    /\ \/ EndpointFails(o)
       \/ Abort(o)
       \/ Expire(o)
       \/ \E k \in StagesOf(o) : StageTimer(o, k)
       \/ \E w \in pending[o], fulfilled \in BOOLEAN : PromiseSettles(o, w, fulfilled)
    /\ UNCHANGED endpointVars

EndpointNext ==
    \/ Configure /\ UNCHANGED endpointVars
    \/ \E o \in Requests, hasSchema \in BOOLEAN : Refuse(o, hasSchema) /\ UNCHANGED endpointVars
    \/ \E o \in Requests, m \in {"process", "reverse"} : Into(o, m)
    \/ \E o \in Requests : Write(o) \/ WriteDone(o) \/ End(o) \/ Destroy(o)
    \/ \E o \in Requests : EndpointAdvance(o) \/ Background(o)
    \/ \E o \in Requests : \E k \in StagesOf(o) : EndpointStage(o, k)

\* As in StreamOperations; the caller of the endpoint may do nothing at all.
EndpointFairness ==
    \A o \in Requests :
        /\ WF_allVars(EndpointAdvance(o))
        /\ WF_allVars(Expire(o) /\ UNCHANGED endpointVars)
        /\ WF_allVars(DeadlineFires(o) /\ UNCHANGED endpointVars)
        /\ \A k \in Slots : WF_allVars(k \in StagesOf(o) /\ EndpointStage(o, k))

EndpointSpec == EndpointInit /\ [][EndpointNext]_allVars /\ EndpointFairness

(***************************************************************************)
(* Properties.                                                             *)
(***************************************************************************)

\* docs/architecture.md:30-32, "finish" is "delayed until the destination,
\* internal pipeline, and audit hook have completed": a caller that sees it
\* finds every chunk through every stage, no work left and the capacity free.
FinishMeansDone ==
    \A o \in Requests : endpoint[o] = "finished" =>
        /\ pc[o] = "ok"
        /\ \A k \in StagesOf(o) : out[o][k] = Chunks
        /\ pending[o] = {}
        /\ o \notin active

\* The callback of final() is called once, by an endpoint that still waits
\* for it: never after destroy(), which Node forbids (settleEndpoint, destroy).
FinalAnsweredOnce ==
    [][\A o \in Requests : answers'[o] # answers[o] => answers[o] = 0 /\ endpoint[o] = "ending"]_allVars

\* docs/architecture.md:32-34, errors "reach the calling pipeline() instead of
\* becoming late background failures": an operation that failed leaves no
\* endpoint that still looks usable, whatever the caller was doing.
FailureReachesCaller ==
    \A o \in Requests : pc[o] = "failed" => endpoint[o] \in {"none", "errored", "destroyed"}

\* An operation whose caller destroys the endpoint before its end, or that has
\* a deadline, is answered and its endpoint settled, although plugins and the
\* audit logger never answer and the caller does nothing more.
EndpointSettles ==
    \A o \in Requests :
        ((endpoint[o] = "destroyed" /\ source[o] # "ended") \/ (o \in WithDeadline /\ endpoint[o] # "none"))
            ~> (pc[o] \in Settling /\ endpoint[o] \notin Unsettled)
=============================================================================
