------------------------------ MODULE Failover ------------------------------
(***************************************************************************)
(* What a request remembers while it moves from account to account after   *)
(* failures of the upstream (FailoverState).                               *)
(***************************************************************************)
EXTENDS Integers, FiniteSets

CONSTANTS
    Requests,
    Accounts,
    MaxSwitches,          \* MaxSwitches
    MaxSameAccountRetries \* maxSameAccountRetries

ASSUME FailoverAssumption ==
    /\ MaxSwitches \in Nat /\ MaxSameAccountRetries \in Nat
    /\ IsFiniteSet(Accounts)

VARIABLES
    failed,     \* FailedAccountIDs
    retries,    \* SameAccountRetryCount
    switches,   \* SwitchCount
    overloaded  \* LastFailoverErr is a 503

failoverVars == <<failed, retries, switches, overloaded>>

NoRetries == [a \in Accounts |-> 0]

FailoverTypeOK ==
    /\ failed     \in [Requests -> SUBSET Accounts]
    /\ retries    \in [Requests -> [Accounts -> 0 .. MaxSameAccountRetries]]
    /\ switches   \in [Requests -> 0 .. MaxSwitches]
    /\ overloaded \in [Requests -> BOOLEAN]

FailoverInit ==
    /\ failed     = [r \in Requests |-> {}]
    /\ retries    = [r \in Requests |-> NoRetries]
    /\ switches   = [r \in Requests |-> 0]
    /\ overloaded = [r \in Requests |-> FALSE]

NewFailoverState(r) ==
    /\ failed'     = [failed EXCEPT ![r] = {}]
    /\ retries'    = [retries EXCEPT ![r] = NoRetries]
    /\ switches'   = [switches EXCEPT ![r] = 0]
    /\ overloaded' = [overloaded EXCEPT ![r] = FALSE]

-----------------------------------------------------------------------------
RetriesSame(r, a, retryable) ==
    retryable /\ retries[r][a] < MaxSameAccountRetries

\* Does HandleFailoverError return FailoverContinue?
Continues(r, a, retryable) ==
    RetriesSame(r, a, retryable) \/ switches[r] < MaxSwitches

\* Mutant: a switch is not counted.
HandleFailoverError_Uncounted(r, a, retryable, is503) ==
    /\ overloaded' = [overloaded EXCEPT ![r] = is503]
    /\ failed' = [failed EXCEPT ![r] = @ \cup {a}]
    /\ UNCHANGED <<switches, retries>>

HandleFailoverError(r, a, retryable, is503) ==
    /\ overloaded' = [overloaded EXCEPT ![r] = is503]
    /\ IF RetriesSame(r, a, retryable)
       THEN /\ retries' = [retries EXCEPT ![r][a] = @ + 1]
            /\ UNCHANGED <<failed, switches>>
       ELSE /\ failed' = [failed EXCEPT ![r] = @ \cup {a}]
            /\ switches' = [switches EXCEPT ![r] =
                                IF @ < MaxSwitches THEN @ + 1 ELSE @]
            /\ UNCHANGED retries

\* No candidate is left: after a 503 the excluded accounts get another chance.
StartsOver(r) == overloaded[r] /\ switches[r] <= MaxSwitches

HandleSelectionExhausted(r) ==
    /\ StartsOver(r)
    /\ failed' = [failed EXCEPT ![r] = {}]
    /\ UNCHANGED <<retries, switches, overloaded>>

MaxAttempts == MaxSwitches + 1 + MaxSameAccountRetries * Cardinality(Accounts)
==============================================================================
