--------------------------- MODULE CircuitBreaker ---------------------------
(***************************************************************************)
(* billingCircuitBreaker: a mutex-protected record, as operators.          *)
(***************************************************************************)
EXTENDS Naturals

CONSTANTS
    Threshold,    \* failureThreshold
    HalfOpen      \* halfOpenRequests

ASSUME BreakerAssumption == Threshold \in Nat \ {0} /\ HalfOpen \in Nat \ {0}

\* elapsed: has resetTimeout passed since openedAt?
BreakerStates ==
    [state: {"closed", "open", "half-open"}, failures: 0 .. Threshold,
     remaining: 0 .. HalfOpen, elapsed: BOOLEAN]

Closed == [state |-> "closed", failures |-> 0, remaining |-> 0, elapsed |-> FALSE]

\* The state in which Allow answers.
Awake(b) ==
    IF b.state = "open" /\ b.elapsed
    THEN [b EXCEPT !.state = "half-open", !.remaining = HalfOpen]
    ELSE b

Allow(b) ==
    \/ Awake(b).state = "closed"
    \/ Awake(b).state = "half-open" /\ Awake(b).remaining > 0

AfterAllow(b) ==
    IF Awake(b).state = "half-open" /\ Awake(b).remaining > 0
    THEN [Awake(b) EXCEPT !.remaining = @ - 1]
    ELSE Awake(b)

Opened(b) == [b EXCEPT !.state = "open", !.remaining = 0, !.elapsed = FALSE]

OnFailure(b) ==
    CASE b.state = "open"      -> b
      [] b.state = "half-open" -> Opened(b)
      [] b.state = "closed"    ->
            LET counted == [b EXCEPT !.failures = @ + 1]
            IN  IF counted.failures >= Threshold THEN Opened(counted) ELSE counted

OnSuccess_KeepsState(b) == [b EXCEPT !.failures = 0]

\* A success closes the breaker in every state, also when the request was let
\* through before the breaker opened.
OnSuccess(b) == Closed
==============================================================================
