----------------------------- MODULE MCEndpoint -----------------------------
(* Two endpoints over one engine that admits one or two operations.        *)
EXTENDS StreamEndpoint

CONSTANTS o1, o2, wrapped, native

MCAttempts == [p \in PluginIds |-> 1]

MCLimits ==
    {[maxConcurrentOperations |-> 2, maxRetryAttempts |-> 1],
     [maxConcurrentOperations |-> 1, maxRetryAttempts |-> 1]}
=============================================================================
