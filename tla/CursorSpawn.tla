----------------------------- MODULE CursorSpawn -----------------------------
(***************************************************************************)
(* runCursorSpawnedCommand (src/providers/cursor/cursor.spawn.utils.ts):   *)
(* one child process per command, ended by its own close, by a timeout or  *)
(* by an abort, with a SIGTERM that a SIGKILL follows.  The promise of a   *)
(* command settles once; its reaction is a job (a microtask), and timers   *)
(* and child events (macrotasks) run only when no job is left.             *)
(***************************************************************************)
EXTENDS Integers, Sequences

CONSTANT Commands   \* the invocations, each with a child of its own

VARIABLES
    promise,    \* of each command: "none", "pending", "resolved" or "rejected"
    child,      \* "none", "running" or "gone"
    signal,     \* the last signal the child was sent
    timers,     \* the armed ones of "timeout", "kill" (the one forceKillTimer names) and "lost"
                \* (an earlier one that it named before, which nobody can clear any more)
    listening,  \* whether onAbort is installed on the command's abort signal
    jobs        \* the microtask queue
spawnVars == <<promise, child, signal, timers, listening, jobs>>

Job(what, x) == [does |-> what, of |-> x]

\* The elements of a sequence that are in a set, in order: SelectSeq as a function, which
\* can be proved about.
Keep(seq, set) ==
    LET kept[i \in 0..Len(seq)] ==
            IF i = 0 THEN <<>>
            ELSE IF seq[i] \in set THEN Append(kept[i - 1], seq[i]) ELSE kept[i - 1]
    IN  kept[Len(seq)]

SpawnInit ==
    /\ promise = [c \in Commands |-> "none"]
    /\ child = [c \in Commands |-> "none"]
    /\ signal = [c \in Commands |-> "none"]
    /\ timers = [c \in Commands |-> {}]
    /\ listening = [c \in Commands |-> FALSE]
    /\ jobs = <<>>

Spawn(c) ==
    /\ promise' = [promise EXCEPT ![c] = "pending"]
    /\ child' = [child EXCEPT ![c] = "running"]
    /\ timers' = [timers EXCEPT ![c] = {"timeout"}]
    /\ listening' = [listening EXCEPT ![c] = TRUE]
    /\ UNCHANGED <<signal, jobs>>

\* spawnFn throws: the executor rejects before any handler is installed.
SpawnThrows(c) ==
    /\ promise' = [promise EXCEPT ![c] = "rejected"]
    /\ jobs' = Append(jobs, Job("retire", c))
    /\ UNCHANGED <<child, signal, timers, listening>>

------------------------------------------------------------------------------
\* settleResolve and settleReject, for a set of commands: a promise settles once, and
\* then its reaction is queued.
Settled(cs, how) ==
    [c \in Commands |-> IF c \in cs /\ promise[c] = "pending" THEN how ELSE promise[c]]
Reaction(c) == IF promise[c] = "pending" THEN <<Job("retire", c)>> ELSE <<>>

\* Mutant: killChild only asks.
KillChildPolitely(t) == t
\* killChild: after the SIGTERM the force-kill timer is armed, whether or not one is armed
\* already.  A command is killed twice at most, by its timeout and by one abort.
KillChild(t) == IF "kill" \in t THEN t \cup {"lost"} ELSE t \cup {"kill"}

\* Mutant: the abort handler leaves the promise to the child's close.
RejectsNone(cs) == {}
\* The commands whose promise an abort rejects: all that hear it.
Rejects(cs) == cs

\* Every controller of the ledger is aborted, in insertion order; "more" is
\* what the caller queues after that.
AbortAll(ledger, more) ==
    LET Hit == {ledger[i] : i \in DOMAIN ledger} \cap {c \in Commands : listening[c]}
        reacts == Keep(ledger, {c \in Rejects(Hit) : promise[c] = "pending"})
    IN  /\ promise' = Settled(Rejects(Hit), "rejected")
        /\ jobs' = jobs \o [i \in DOMAIN reacts |-> Job("retire", reacts[i])] \o more
        /\ signal' = [c \in Commands |-> IF c \in Hit THEN "TERM" ELSE signal[c]]
        /\ timers' = [c \in Commands |->
                IF c \in Hit THEN KillChild(timers[c] \ {"timeout"}) ELSE timers[c]]
        /\ listening' = [c \in Commands |-> listening[c] /\ c \notin Hit]
        /\ UNCHANGED child

Timeout(c) ==
    /\ jobs = <<>>
    /\ "timeout" \in timers[c]
    /\ timers' = [timers EXCEPT ![c] = KillChild(@ \ {"timeout"})]
    /\ signal' = [signal EXCEPT ![c] = "TERM"]
    /\ promise' = Settled({c}, "rejected")
    /\ jobs' = Reaction(c)
    /\ UNCHANGED <<child, listening>>

KillTimer(c) ==
    /\ jobs = <<>>
    /\ \E t \in timers[c] \ {"timeout"} : timers' = [timers EXCEPT ![c] = @ \ {t}]
    /\ signal' = [signal EXCEPT ![c] = IF child[c] = "running" THEN "KILL" ELSE @]
    /\ UNCHANGED <<promise, child, listening, jobs>>

\* The child is gone: its close handler, or its error handler when it never ran, clears
\* the timers it has a handle of.
ChildGone(c, how) ==
    /\ jobs = <<>>
    /\ child[c] = "running"
    /\ child' = [child EXCEPT ![c] = "gone"]
    /\ timers' = [timers EXCEPT ![c] = @ \ {"timeout", "kill"}]
    /\ listening' = [listening EXCEPT ![c] = FALSE]
    /\ promise' = Settled({c}, how)
    /\ jobs' = Reaction(c)
    /\ UNCHANGED signal

Close(c) == ChildGone(c, "resolved")
SpawnError(c) == signal[c] = "none" /\ ChildGone(c, "rejected")
==============================================================================
