--------------------------- MODULE CircuitBreaker ---------------------------
(***************************************************************************)
(* opossum, as createCircuitBreaker of packages/resilience configures it.  *)
(* A breaker is closed, open, half open, or on trial: half open with its   *)
(* one request under way.  The error rate is left to chance: a failure     *)
(* opens a closed breaker or does not.                                     *)
(***************************************************************************)

BreakerStates == {"closed", "open", "halfOpen", "trial"}

\* fire() calls its action, or rejects.
Admits(b) == b \in {"closed", "halfOpen"}

Fired(b) == IF b = "halfOpen" THEN "trial" ELSE b

\* The action resolves in time; any HTTP status does.
Succeeded(b) == IF b \in {"halfOpen", "trial"} THEN "closed" ELSE b

\* The action throws or the timeout of the breaker has passed.
Failed(b) == IF b = "closed" THEN {"closed", "open"} ELSE {"open"}

NeverHalfOpen(b) == b    \* mutant: no resetTimeout

\* resetTimeout has passed.
HalfOpened(b) == IF b = "open" THEN "halfOpen" ELSE b

=============================================================================
