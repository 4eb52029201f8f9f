--------------------------- MODULE MCRestoreRun ----------------------------
(* Instances of RestoreRun for TLC: the second backup is the longer one. *)
EXTENDS RestoreRun, TLC

CONSTANTS b1, b2

Stored == {b1, b2}
\* A target that Pull truncates for, or scp; scp with gzip is no different from gzip alone.
GzipOrScp == {[compression |-> "gzip", truncates |-> TRUE],
              [compression |-> "none", truncates |-> FALSE]}
GzipOnly == {[compression |-> "gzip", truncates |-> TRUE]}

OneAndTwo == b1 :> 1 @@ b2 :> 2
============================================================================
