------------------------------- MODULE MCFile -------------------------------
(* Small instances of FileOperations: operations that replace one output   *)
(* file, so short that few reads and writes fill it, with a plugin wrapped *)
(* by the fallback transform and one with a stream of its own.             *)
EXTENDS FileOperations

CONSTANTS o1, o2, old, wrapped, native

MCAttempts == [p \in PluginIds |-> IF p \in Native THEN 1 ELSE 2]

\* A budget of one attempt makes withRetry refuse the wrapped plugin.
MCLimits == {[maxConcurrentOperations |-> n, maxRetryAttempts |-> n] : n \in {1, 2}}
=============================================================================
