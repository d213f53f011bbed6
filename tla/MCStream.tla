------------------------------ MODULE MCStream ------------------------------
(* Small instances of StreamOperations: plugins wrapped by the fallback    *)
(* transform that are retried once, at once or after a delay (slow), and   *)
(* one with a stream of its own.                                           *)
EXTENDS StreamOperations

CONSTANTS o1, o2, wrapped, slow, native

MCAttempts == [p \in PluginIds |-> IF p \in Native THEN 1 ELSE 2]

\* A budget of one attempt makes withRetry refuse the wrapped plugin.
MCLimits ==
    {[maxConcurrentOperations |-> 2, maxRetryAttempts |-> 2],
     [maxConcurrentOperations |-> 1, maxRetryAttempts |-> 1]}

\* The limits never change: one operation at a time with two attempts.
MCOneLimit == {[maxConcurrentOperations |-> 1, maxRetryAttempts |-> 2]}
=============================================================================
