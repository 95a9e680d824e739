-------------------------- MODULE RestartWithBackoff --------------------------
(***************************************************************************)
(* restartWithBackoff (src/runtime/restart.with.backoff.ts): a port is     *)
(* disconnected, connected and initialized, up to MaxRetries times, with   *)
(* an awaited and capped exponential delay between two attempts.  Each     *)
(* await is a step, so that calls for the same port interleave.            *)
(***************************************************************************)
EXTENDS Integers

CONSTANTS
    Restarts,       \* the calls
    MaxRetries, BackoffBase, BackoffCap
ASSUME BackoffAssumption ==
    MaxRetries \in Nat /\ BackoffBase \in Nat /\ BackoffCap \in Nat

VARIABLES
    link,       \* the inner port: "down", "connected" or "ready"
    at,         \* what each call awaits, or how it ended
    attempt,    \* the loop counter
    delay       \* the delay it waits for, or 0
restartVars == <<link, at, attempt, delay>>

RestartInit ==
    /\ link = "down"
    /\ at = [r \in Restarts |-> "idle"]
    /\ attempt = [r \in Restarts |-> 0]
    /\ delay = [r \in Restarts |-> 0]

\* RETRY_EXPONENTIAL_BASE ** attempt.
PowerOfTwo[a \in Nat] == IF a = 0 THEN 1 ELSE 2 * PowerOfTwo[a - 1]

Backoff(a) ==
    LET raw == BackoffBase * PowerOfTwo[a] IN IF raw < BackoffCap THEN raw ELSE BackoffCap

\* The loop is entered unless no attempt is allowed.
StartRestart(r) ==
    /\ at' = [at EXCEPT ![r] = IF MaxRetries = 0 THEN "gaveUp" ELSE "disconnect"]
    /\ attempt' = [attempt EXCEPT ![r] = IF MaxRetries = 0 THEN 0 ELSE 1]
    /\ UNCHANGED <<link, delay>>

Disconnects(r) ==
    /\ at[r] = "disconnect"
    /\ link' = "down"
    /\ at' = [at EXCEPT ![r] = "connect"]
    /\ UNCHANGED <<attempt, delay>>

Connects(r) ==
    /\ at[r] = "connect"
    /\ link' = IF link = "down" THEN "connected" ELSE link
    /\ at' = [at EXCEPT ![r] = "initialize"]
    /\ UNCHANGED <<attempt, delay>>

\* Another call may have disconnected the port meanwhile: then this one fails.
Initializes(r) ==
    /\ at[r] = "initialize"
    /\ link # "down"
    /\ link' = "ready"
    /\ at' = [at EXCEPT ![r] = "restarted"]
    /\ UNCHANGED <<attempt, delay>>

MayRetry(a) == a < MaxRetries

\* Mutant: the delay is not awaited.
AfterFailureAtOnce(r) ==
    /\ at' = [at EXCEPT ![r] = IF MayRetry(attempt[r]) THEN "disconnect" ELSE "gaveUp"]
    /\ attempt' = [attempt EXCEPT ![r] = IF MayRetry(@) THEN @ + 1 ELSE @]
    /\ UNCHANGED delay
AfterFailure(r) ==
    /\ at' = [at EXCEPT ![r] = IF MayRetry(attempt[r]) THEN "delay" ELSE "gaveUp"]
    /\ delay' = [delay EXCEPT ![r] = IF MayRetry(attempt[r]) THEN Backoff(attempt[r]) ELSE 0]
    /\ UNCHANGED attempt

AttemptFails(r) ==
    /\ at[r] \in {"disconnect", "connect", "initialize"}
    /\ AfterFailure(r)
    /\ link' = IF at[r] = "connect" THEN "down" ELSE link

\* Mutant: the counter stays.
SameAttempt(a) == a
NextAttempt(a) == a + 1

DelayOver(r) ==
    /\ at[r] = "delay"
    /\ at' = [at EXCEPT ![r] = "disconnect"]
    /\ attempt' = [attempt EXCEPT ![r] = NextAttempt(@)]
    /\ delay' = [delay EXCEPT ![r] = 0]
    /\ UNCHANGED link

RestartStep(r) ==
    Disconnects(r) \/ Connects(r) \/ Initializes(r) \/ AttemptFails(r) \/ DelayOver(r)
==============================================================================
