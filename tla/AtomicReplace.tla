--------------------------- MODULE AtomicReplace ---------------------------
(***************************************************************************)
(* What file operations promise about the output file: it holds its old    *)
(* content or the complete result of one operation, an operation replaces  *)
(* it at most once, and one that has been given up never does.             *)
(***************************************************************************)
CONSTANTS Requests, Old, Result(_)

VARIABLES
    content,  \* what a reader of the output path sees
    open      \* operations that may still replace it

Init == content = Old /\ open = Requests

\* The complete result of o appears at once.
Replace(o) ==
    /\ o \in open
    /\ content' = Result(o)
    /\ open' = open \ {o}

\* o ends without a trace in the output file.
GiveUp(o) ==
    /\ o \in open
    /\ open' = open \ {o}
    /\ UNCHANGED content

Next == \E o \in Requests : Replace(o) \/ GiveUp(o)

Spec == Init /\ [][Next]_<<content, open>>
=============================================================================
