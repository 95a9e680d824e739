---------------------------- MODULE SpawnedCommand ----------------------------
(* What the callers of a one-shot CLI command count on, whichever helper runs *)
(* it (extractHelp, runCursorSpawnedCommand): the promise settles once, an    *)
(* abandoned process is asked to stop and then forced to, and no timer        *)
(* outlives the process it was set for.                                       *)

VARIABLES
    promise,   \* "none", "pending", "resolved" or "rejected"
    child,     \* "none", "running" or "gone"
    signal,    \* the last signal sent: "none", "TERM" or "KILL"
    timers     \* the armed ones of "timeout" and "kill"

vars == <<promise, child, signal, timers>>

Init ==
    /\ promise = "none"
    /\ child = "none"
    /\ signal = "none"
    /\ timers = {}

Start ==
    /\ promise = "none"
    /\ promise' = "pending"
    /\ child' = "running"
    /\ timers' = {"timeout"}
    /\ UNCHANGED signal

Refuse ==
    /\ promise = "none"
    /\ promise' = "rejected"
    /\ UNCHANGED <<child, signal, timers>>

\* The caller is told, and the process is given a grace period.
Abandon ==
    /\ promise = "pending"
    /\ child = "running"
    /\ promise' = "rejected"
    /\ signal' = "TERM"
    /\ timers' = {"kill"}
    /\ UNCHANGED child

Force ==
    /\ timers = {"kill"}
    /\ timers' = {}
    /\ signal' = "KILL"
    /\ UNCHANGED <<promise, child>>

\* The process may end inside the very call that signals it.
End ==
    /\ child = "running"
    /\ child' = "gone"
    /\ timers' = {}
    /\ IF promise = "pending" THEN promise' \in {"resolved", "rejected"} ELSE UNCHANGED promise
    /\ signal' \in {signal, "TERM"}

Next == Start \/ Refuse \/ Abandon \/ Force \/ End

Spec == Init /\ [][Next]_vars
=============================================================================
