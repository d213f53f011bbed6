---------------------------- MODULE EngineProofs ----------------------------
(***************************************************************************)
(* Facts about the methods of the request table (DataEngine) that the      *)
(* proofs about binary, stream and file operations share.  They hold for   *)
(* any number of requests, any pipeline and any limits.                    *)
(***************************************************************************)
EXTENDS DataEngine, FiniteSetTheorems, TLAPS

(***************************************************************************)
(* The type of the table.                                                  *)
(***************************************************************************)

\* startRequest keeps the request table well typed.
LEMMA StartType ==
    ASSUME EngineTypeOK, NEW o \in Requests, StartRequest(o), UNCHANGED configVars
    PROVE  EngineTypeOK'
  BY DEF EngineTypeOK, StartRequest, configVars

\* trackWork keeps the request table well typed.
LEMMA TrackType ==
    ASSUME EngineTypeOK, NEW o \in Requests, NEW w \in Nat \ {0}, TrackWork(o, w),
           UNCHANGED configVars
    PROVE  EngineTypeOK'
  BY DEF EngineTypeOK, TrackWork, configVars

\* releaseRequest keeps the request table well typed.
LEMMA ReleaseType ==
    ASSUME EngineTypeOK, NEW o \in Requests, ReleaseRequest(o), UNCHANGED configVars
    PROVE  EngineTypeOK'
  BY DEF EngineTypeOK, ReleaseRequest, Forget, configVars

\* The settled callback keeps the request table well typed.
LEMMA SettledType ==
    ASSUME EngineTypeOK, NEW o \in Requests, NEW w, Settled(o, w), UNCHANGED configVars
    PROVE  EngineTypeOK'
  BY DEF EngineTypeOK, Settled, Forget, configVars

\* A step that leaves the request table alone keeps it well typed.
LEMMA SameTableType ==
    ASSUME EngineTypeOK, UNCHANGED engineVars
    PROVE  EngineTypeOK'
  BY DEF EngineTypeOK, engineVars

\* What the methods of the engine do to the table on behalf of one request.
TableStep(o) ==
    \/ UNCHANGED tableVars
    \/ StartRequest(o)
    \/ \E w \in Nat \ {0} : TrackWork(o, w)
    \/ ReleaseRequest(o)
    \/ \E w \in Nat \ {0} : Settled(o, w)

\* Every step of a request keeps the table well typed.
LEMMA TableStepType ==
    ASSUME EngineTypeOK, NEW o \in Requests, TableStep(o), UNCHANGED configVars
    PROVE  EngineTypeOK'
  <1>1. CASE UNCHANGED tableVars
    BY <1>1, SameTableType DEF engineVars, configVars, tableVars
  <1>2. QED
    BY <1>1, StartType, TrackType, ReleaseType, SettledType DEF TableStep

\* use() or setLimits().
Reconfigure ==
    \/ \E p \in PluginIds : Use(p)
    \/ \E l \in LimitChoices : SetLimits(l)

\* use and setLimits keep the request table well typed.
LEMMA ReconfigureType ==
    ASSUME EngineTypeOK, Reconfigure
    PROVE  EngineTypeOK'
  <1>1. ASSUME NEW p \in PluginIds, Use(p) PROVE EngineTypeOK'
    <2>1. /\ Append(plugins, p) \in Seq(PluginIds)
          /\ Len(Append(plugins, p)) = Len(plugins) + 1
          /\ Len(plugins) \in Nat
      BY DEF EngineTypeOK
    <2>2. Len(plugins') <= MaxPlugins
      BY <1>1, <2>1, EngineAssumption DEF Use
    <2>3. QED
      BY <1>1, <2>1, <2>2 DEF EngineTypeOK, Use, tableVars
  <1>2. ASSUME NEW l \in LimitChoices, SetLimits(l) PROVE EngineTypeOK'
    BY <1>2 DEF EngineTypeOK, SetLimits, tableVars
  <1>3. QED
    BY <1>1, <1>2 DEF Reconfigure

\* An audit record holds a pipeline.
LEMMA AuditChainType ==
    ASSUME EngineTypeOK, NEW o \in Requests
    PROVE  AuditChain(o) \in Seq(PluginIds)
  BY DEF EngineTypeOK, AuditChain

\* The table starts well typed and empty.
LEMMA EngineInitType ==
    ASSUME EngineInit
    PROVE  EngineTypeOK /\ active = {} /\ finished = {} /\ \A r \in Requests : pending[r] = {}
  BY EngineAssumption DEF EngineInit, EngineTypeOK

(***************************************************************************)
(* Requests do not disturb each other.                                     *)
(***************************************************************************)

\* The step leaves the entries of request q alone.
SameRequest(q) ==
    /\ pending'[q] = pending[q]
    /\ q \in active' <=> q \in active
    /\ q \in finished' <=> q \in finished
    /\ q \in DOMAIN requestPipelines' <=> q \in DOMAIN requestPipelines
    /\ q \in DOMAIN requestPipelines => requestPipelines'[q] = requestPipelines[q]

\* A step on behalf of one request leaves the entries of the others alone.
LEMMA OtherRequests ==
    ASSUME EngineTypeOK, NEW o \in Requests, NEW q \in Requests \ {o}, TableStep(o)
    PROVE  SameRequest(q)
  <1> USE DEF SameRequest
  <1>1. CASE UNCHANGED tableVars
    BY <1>1 DEF tableVars
  <1>2. CASE StartRequest(o)
    BY <1>2 DEF StartRequest
  <1>3. ASSUME NEW w, TrackWork(o, w) PROVE SameRequest(q)
    BY <1>3 DEF TrackWork, EngineTypeOK
  <1>4. CASE ReleaseRequest(o)
    BY <1>4 DEF ReleaseRequest, Forget
  <1>5. ASSUME NEW w, Settled(o, w) PROVE SameRequest(q)
    BY <1>5 DEF Settled, Forget, EngineTypeOK
  <1>6. QED
    BY <1>1, <1>2, <1>3, <1>4, <1>5 DEF TableStep

\* use and setLimits run while nobody holds capacity and leave every request alone.
LEMMA ReconfigureSame ==
    ASSUME Reconfigure
    PROVE  active = {} /\ UNCHANGED tableVars
  BY DEF Reconfigure, Use, SetLimits

(***************************************************************************)
(* Capacity.                                                               *)
(***************************************************************************)

\* The requests that hold capacity can be counted.
LEMMA ActiveFinite ==
    ASSUME EngineTypeOK
    PROVE  /\ IsFiniteSet(active)
           /\ Cardinality(active) \in Nat
           /\ limits.maxConcurrentOperations \in Nat \ {0}
  <1>1. IsFiniteSet(active)
    BY EngineAssumption, FS_Subset DEF EngineTypeOK
  <1>2. QED
    BY <1>1, FS_CardinalityType, EngineAssumption DEF EngineTypeOK

\* A request that starts after the check of startRequest, works, is released
\* or settles keeps the number of active requests within the limit.
LEMMA CapacityKept ==
    ASSUME EngineTypeOK, CapacityBound, NEW o \in Requests, TableStep(o),
           MayStart \/ active' \subseteq active, UNCHANGED configVars
    PROVE  CapacityBound'
  <1>0. limits' = limits
    BY DEF configVars
  <1>1. ASSUME active' \subseteq active PROVE CapacityBound'
    <2>1. Cardinality(active') <= Cardinality(active) /\ Cardinality(active') \in Nat
      BY <1>1, ActiveFinite, FS_Subset, FS_CardinalityType
    <2>2. QED
      BY <1>0, <2>1, ActiveFinite DEF CapacityBound
  <1>2. CASE active' = active \cup {o} /\ MayStart
    <2>1. Cardinality(active) < limits.maxConcurrentOperations
      BY <1>2 DEF MayStart
    <2>2. \/ Cardinality(active \cup {o}) = Cardinality(active)
          \/ Cardinality(active \cup {o}) = Cardinality(active) + 1
      BY ActiveFinite, FS_AddElement
    <2>3. QED
      BY <1>0, <1>2, <2>1, <2>2, ActiveFinite DEF CapacityBound
  <1>3. active' = active \cup {o} \/ active' \subseteq active
    BY DEF TableStep, StartRequest, TrackWork, ReleaseRequest, Settled, Forget, tableVars
  <1>4. QED
    BY <1>1, <1>2, <1>3

\* use and setLimits keep the bound, as no request is active.
LEMMA CapacityReconfigured ==
    ASSUME EngineTypeOK, Reconfigure
    PROVE  CapacityBound'
  <1>1. active' = {} /\ limits' \in LimitChoices
    BY DEF Reconfigure, Use, SetLimits, tableVars, EngineTypeOK
  <1>2. Cardinality(active') = 0 /\ limits'.maxConcurrentOperations \in Nat \ {0}
    BY <1>1, FS_EmptySet, EngineAssumption
  <1>3. QED
    BY <1>2 DEF CapacityBound

\* The empty table respects the bound.
LEMMA CapacityInit ==
    ASSUME EngineInit
    PROVE  CapacityBound
  <1>1. Cardinality(active) = 0
    BY FS_EmptySet DEF EngineInit
  <1>2. QED
    BY <1>1, EngineInitType, ActiveFinite DEF CapacityBound

(***************************************************************************)
(* The capacity contract.                                                  *)
(***************************************************************************)

\* A table step that the contract allows: a request starts once and within the
\* limit, and only a request that holds capacity starts work or is released.
AccountedStep(o) ==
    \/ UNCHANGED tableVars
    \/ StartRequest(o) /\ MayStart /\ o \notin active
    \/ o \in active /\ \E w \in Nat \ {0} : TrackWork(o, w)
    \/ o \in active /\ ReleaseRequest(o)
    \/ \E w \in pending[o] : Settled(o, w)

\* Such a step is a step of the contract, or leaves its state alone.
LEMMA ContractKept ==
    ASSUME EngineTypeOK, NEW o \in Requests, AccountedStep(o), UNCHANGED configVars
    PROVE  [Capacity!Next]_(Capacity!capVars)
  <1> USE DEF EngineTypeOK
  <1>c. /\ UNCHANGED [limit |-> limits.maxConcurrentOperations, limits |-> limits, plugins |-> plugins]
        /\ [limit |-> limits.maxConcurrentOperations, limits |-> limits,
            plugins |-> plugins].limit = limits.maxConcurrentOperations
    BY DEF configVars
  <1>q. UNCHANGED <<active, pending>> => [Capacity!Next]_(Capacity!capVars)
    BY DEF Capacity!capVars, configVars
  <1>1. CASE UNCHANGED tableVars
    BY <1>1, <1>q DEF tableVars
  <1>2. CASE StartRequest(o) /\ MayStart /\ o \notin active
    <2>1. Capacity!Cardinality(active) = Cardinality(active)
      BY DEF Cardinality, Capacity!Cardinality, IsFiniteSet, Capacity!IsFiniteSet
    <2>2. /\ active' = active \cup {o} /\ UNCHANGED pending
          /\ Cardinality(active) < limits.maxConcurrentOperations
      BY <1>2 DEF StartRequest, MayStart
    <2>3. Capacity!Admit(o)
      BY <1>2, <1>c, <2>1, <2>2, Zenon DEF Capacity!Admit
    <2>4. QED
      BY <2>3 DEF Capacity!Next
  <1>3. ASSUME NEW w \in Nat \ {0}, o \in active, TrackWork(o, w)
        PROVE  [Capacity!Next]_(Capacity!capVars)
    <2>1. Capacity!Begin(o)
      BY <1>3 DEF TrackWork, configVars, Capacity!Begin
    <2>2. QED
      BY <2>1 DEF Capacity!Next
  <1>4. CASE o \in active /\ ReleaseRequest(o)
    <2>1. CASE pending[o] # {}
      BY <1>4, <1>q, <2>1 DEF ReleaseRequest
    <2>2. CASE pending[o] = {}
      <3>1. Capacity!Retire(o)
        BY <1>4, <2>2 DEF ReleaseRequest, Forget, configVars, Capacity!Retire
      <3>2. QED
        BY <3>1 DEF Capacity!Next
    <2>3. QED
      BY <2>1, <2>2
  <1>5. ASSUME NEW w \in pending[o], Settled(o, w)
        PROVE  [Capacity!Next]_(Capacity!capVars)
    <2>1. Capacity!Settle(o)
      BY <1>5 DEF Settled, Forget, configVars, Capacity!Settle
    <2>2. QED
      BY <2>1 DEF Capacity!Next
  <1>6. QED
    BY <1>1, <1>2, <1>3, <1>4, <1>5 DEF AccountedStep

\* use and setLimits are steps of the contract, as nobody holds capacity.
LEMMA ContractReconfigured ==
    ASSUME EngineTypeOK, Reconfigure
    PROVE  [Capacity!Next]_(Capacity!capVars)
  <1>1. active = {} /\ UNCHANGED <<active, pending>> /\ limits' \in LimitChoices
    BY DEF Reconfigure, Use, SetLimits, tableVars, EngineTypeOK
  <1>2. limits'.maxConcurrentOperations \in Nat \ {0}
    BY <1>1, EngineAssumption
  <1>3. Capacity!Reconfigure
    BY <1>1, <1>2 DEF Capacity!Reconfigure
  <1>4. QED
    BY <1>3 DEF Capacity!Next

\* The empty table is an initial state of the contract.
LEMMA ContractInit ==
    ASSUME EngineInit
    PROVE  Capacity!Init
  <1>1. limits.maxConcurrentOperations \in Nat \ {0}
    BY EngineAssumption DEF EngineInit
  <1>2. QED
    BY <1>1 DEF EngineInit, Capacity!Init

\* A step that leaves the table and the configuration alone is not seen.
LEMMA ContractQuiet ==
    ASSUME UNCHANGED engineVars
    PROVE  [Capacity!Next]_(Capacity!capVars)
  BY DEF engineVars, Capacity!capVars
=============================================================================
