----------------------------- MODULE DataEngine -----------------------------
(***************************************************************************)
(* The request table of DataEngine (src/core/dataEngine.ts): the plugin    *)
(* list, the limits, and the four collections that decide who holds        *)
(* capacity.  The operators below are the engine methods the controllers   *)
(* call; BinaryOperations, StreamOperations and FileOperations extend this *)
(* module and use them inside their own actions.                           *)
(*                                                                         *)
(* A request identifier is a fresh UUID, so an operation and its request   *)
(* are one element of Requests.  A promise handed to trackWork is          *)
(* identified by its number within the request.                            *)
(***************************************************************************)
EXTENDS Naturals, FiniteSets, Sequences

CONSTANTS
    Requests,     \* identifiers of the operations that callers start
    PluginIds,    \* the plugins a caller may register
    MaxPlugins,   \* bound: longest pipeline (256 in the code)
    LimitChoices, \* the limit records a caller may configure
    Attempts,     \* Attempts[p]: retryOptions.attempts of plugin p
    Delayed,      \* plugins whose retryOptions.delayMs is positive
    Irreversible  \* plugins that do not support reverse

ASSUME EngineAssumption ==
    /\ IsFiniteSet(Requests)
    /\ MaxPlugins \in Nat
    /\ LimitChoices \subseteq [maxConcurrentOperations : Nat \ {0},
                               maxRetryAttempts        : Nat \ {0}]
    /\ Attempts \in [PluginIds -> Nat \ {0}]
    /\ Delayed \subseteq PluginIds
    /\ Irreversible \subseteq PluginIds

VARIABLES
    plugins,          \* #plugins / #pluginView: the pipeline, in order
    limits,           \* #limits
    active,           \* #activeRequests
    pending,          \* #pendingWork: pending[r] is {} when r has no entry
    finished,         \* #finishedRequests: answered, work still running
    requestPipelines  \* #requestPipelines: a map with domain = its keys

engineVars == <<plugins, limits, active, pending, finished, requestPipelines>>
configVars == <<plugins, limits>>
tableVars  == <<active, pending, finished, requestPipelines>>

EngineInit ==
    /\ plugins = <<>>
    /\ limits \in LimitChoices
    /\ active = {}
    /\ pending = [r \in Requests |-> {}]
    /\ finished = {}
    /\ requestPipelines = [r \in {} |-> <<>>]

(***************************************************************************)
(* Configuration.                                                          *)
(***************************************************************************)

UseBeyondMaximum(p) ==
    /\ active = {}
    /\ Len(plugins) <= MaxPlugins
    /\ plugins' = Append(plugins, p)
    /\ UNCHANGED <<limits, tableVars>>

UseWhileActive(p) ==
    /\ Len(plugins) < MaxPlugins
    /\ plugins' = Append(plugins, p)
    /\ UNCHANGED <<limits, tableVars>>

\* use(plugin): refused while a request is active or the list is full.
Use(p) ==
    /\ active = {}
    /\ Len(plugins) < MaxPlugins
    /\ plugins' = Append(plugins, p)
    /\ UNCHANGED <<limits, tableVars>>

SetLimitsWhileActive(l) ==
    /\ limits' = l
    /\ UNCHANGED <<plugins, tableVars>>

\* setLimits(limits): refused while a request is active.
SetLimits(l) ==
    /\ active = {}
    /\ limits' = l
    /\ UNCHANGED <<plugins, tableVars>>

(***************************************************************************)
(* Request lifecycle.                                                      *)
(***************************************************************************)

\* startRequest() throws at the configured maximum.
MayStart == Cardinality(active) < limits.maxConcurrentOperations

\* startRequest(): the pipeline is remembered for the audit record.
StartRequest(r) ==
    /\ active' = active \cup {r}
    /\ requestPipelines' = [x \in DOMAIN requestPipelines \cup {r} |->
                              IF x = r THEN plugins ELSE requestPipelines[x]]
    /\ UNCHANGED <<pending, finished>>

\* trackWork(r, w): w is accounted to r whether or not r is still active.
TrackWork(r, w) ==
    /\ pending' = [pending EXCEPT ![r] = @ \cup {w}]
    /\ UNCHANGED <<active, finished, requestPipelines>>

Forget(r) ==
    /\ active' = active \ {r}
    /\ finished' = finished \ {r}
    /\ requestPipelines' = [x \in DOMAIN requestPipelines \ {r} |-> requestPipelines[x]]

ReleaseRequestIgnoringWork(r) ==
    /\ Forget(r)
    /\ UNCHANGED pending

\* releaseRequest(r): postponed while r has pending work.
ReleaseRequest(r) ==
    \/ /\ pending[r] # {}
       /\ finished' = finished \cup {r}
       /\ UNCHANGED <<active, pending, requestPipelines>>
    \/ /\ pending[r] = {}
       /\ Forget(r)
       /\ UNCHANGED pending

SettledWithoutRelease(r, w) ==
    /\ pending' = [pending EXCEPT ![r] = @ \ {w}]
    /\ UNCHANGED <<active, finished, requestPipelines>>

\* The `settled` callback of trackWork: the last promise of a finished
\* request performs the postponed release.
Settled(r, w) ==
    /\ pending' = [pending EXCEPT ![r] = @ \ {w}]
    /\ IF pending[r] = {w} /\ r \in finished
       THEN Forget(r)
       ELSE UNCHANGED <<active, finished, requestPipelines>>

\* The pluginChain of an audit record: the snapshot of the request, or the
\* current pipeline when the request has already been forgotten.
AuditChain(r) ==
    IF r \in DOMAIN requestPipelines THEN requestPipelines[r] ELSE plugins

EngineTypeOK ==
    /\ plugins \in Seq(PluginIds)
    /\ Len(plugins) <= MaxPlugins
    /\ limits \in LimitChoices
    /\ active \subseteq Requests
    /\ pending \in [Requests -> SUBSET (Nat \ {0})]
    /\ finished \subseteq Requests
    /\ DOMAIN requestPipelines \subseteq Requests
    /\ \A r \in DOMAIN requestPipelines : requestPipelines[r] \in Seq(PluginIds)

\* The number of requests that hold capacity never exceeds the configured
\* maxConcurrentOperations, although the limit may be lowered between
\* operations (startRequest, setLimits).
CapacityBound == Cardinality(active) <= limits.maxConcurrentOperations

\* Operations implement the capacity contract of the engine: their work
\* starts, settles and releases capacity only as RequestCapacity allows, and
\* the pipeline and the limits are stable while anyone holds capacity.
Capacity == INSTANCE RequestCapacity WITH
    holders <- active,
    work    <- pending,
    config  <- [limit |-> limits.maxConcurrentOperations, limits |-> limits, plugins |-> plugins]

CapacityContract == Capacity!Spec
=============================================================================
