------------------------------ MODULE DumpJob ------------------------------
(***************************************************************************)
(* What database.Dump promises its caller, with the goroutines, the        *)
(* semaphore, the error channel and the connection pool left out: every    *)
(* writer is settled once, as dumped or as failed, and only when all of    *)
(* them are does the call answer, with an error exactly when one failed.   *)
(* DumpPool implements it.                                                 *)
(***************************************************************************)
CONSTANT Writers

VARIABLES
  settled,    \* writer -> "pending", "ok" or "failed"
  verdict     \* "none" while the call runs, then "ok" or "error"

jobVars == <<settled, verdict>>

Init ==
  /\ settled = [w \in Writers |-> "pending"]
  /\ verdict = "none"

\* A writer's dump ends, well or badly.
Settle(w) ==
  /\ settled[w] = "pending"
  /\ verdict = "none"
  /\ \E o \in {"ok", "failed"} : settled' = [settled EXCEPT ![w] = o]
  /\ UNCHANGED verdict

\* The call answers.
Answer ==
  /\ verdict = "none"
  /\ \A w \in Writers : settled[w] # "pending"
  /\ verdict' = IF \E w \in Writers : settled[w] = "failed" THEN "error" ELSE "ok"
  /\ UNCHANGED settled

Next == Answer \/ \E w \in Writers : Settle(w)

Spec == Init /\ [][Next]_jobVars
============================================================================
