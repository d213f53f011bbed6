------------------------------ MODULE MCBinary ------------------------------
(* Small instances of BinaryOperations: a plugin that is retried at once,  *)
(* one that is retried after a delay and cannot be reversed.               *)
EXTENDS BinaryOperations

CONSTANTS o1, o2, retried, delayed

MCAttempts == [p \in PluginIds |-> 2]

\* One or two concurrent operations; a budget below the two attempts makes
\* withRetry refuse the plugin.
MCLimits ==
    {[maxConcurrentOperations |-> 2, maxRetryAttempts |-> 2],
     [maxConcurrentOperations |-> 1, maxRetryAttempts |-> 1]}
=============================================================================
