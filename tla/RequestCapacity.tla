--------------------------- MODULE RequestCapacity ---------------------------
(***************************************************************************)
(* What the engine promises about its capacity, independently of how an    *)
(* operation is executed (docs/enterprise.md: "Non-cooperative work still  *)
(* occupies concurrency capacity until its promise settles"):              *)
(*                                                                         *)
(*   - a request is admitted only while fewer than the configured number   *)
(*     of requests hold capacity;                                          *)
(*   - work is started only for a request that holds capacity;             *)
(*   - a request gives its capacity back only when none of its work is     *)
(*     still running;                                                      *)
(*   - the configuration (plugins and limits) changes only while nobody    *)
(*     holds capacity.                                                     *)
(*                                                                         *)
(* BinaryOperations implements it (CapacityContract in DataEngine).        *)
(* StreamOperations and FileOperations do when no wrapped plugin is        *)
(* retried: a stage that retries may start work after its request has      *)
(* given its capacity back.                                                *)
(***************************************************************************)
EXTENDS Naturals, FiniteSets

CONSTANT Requests    \* the request identifiers

VARIABLES holders,   \* the requests that hold capacity
          work,      \* work[r]: the promises of r that have not settled
          config     \* [limit |-> ..., other settings]

capVars == <<holders, work, config>>

Init ==
    /\ holders = {}
    /\ work = [r \in Requests |-> {}]
    /\ config.limit \in Nat \ {0}

Admit(r) ==
    /\ r \notin holders
    /\ Cardinality(holders) < config.limit
    /\ holders' = holders \cup {r}
    /\ UNCHANGED <<work, config>>

Begin(r) ==
    /\ r \in holders
    /\ work[r] \subseteq work'[r]
    /\ work' = [work EXCEPT ![r] = work'[r]]
    /\ UNCHANGED <<holders, config>>

\* The last promise of a request whose caller was already answered gives the
\* capacity back in the same step.
Settle(r) ==
    /\ work'[r] \subseteq work[r]
    /\ work' = [work EXCEPT ![r] = work'[r]]
    /\ \/ UNCHANGED holders
       \/ work'[r] = {} /\ holders' = holders \ {r}
    /\ UNCHANGED config

Retire(r) ==
    /\ r \in holders
    /\ work[r] = {}
    /\ holders' = holders \ {r}
    /\ UNCHANGED <<work, config>>

Reconfigure ==
    /\ holders = {}
    /\ config'.limit \in Nat \ {0}
    /\ UNCHANGED <<holders, work>>

Next ==
    \/ \E r \in Requests : Admit(r) \/ Begin(r) \/ Settle(r) \/ Retire(r)
    \/ Reconfigure

Spec == Init /\ [][Next]_capVars
=============================================================================
