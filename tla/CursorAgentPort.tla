--------------------------- MODULE CursorAgentPort ---------------------------
(***************************************************************************)
(* CursorAgentPort (src/providers/cursor/cursor.agent.port.ts): connect,   *)
(* newSession and prompt each run a command of their own; disconnect       *)
(* aborts what is in flight, waits for it and reports the port             *)
(* disconnected.  A method runs up to its await in one step and goes on in *)
(* a job.  Code of the client runs as a macrotask of its own, in the       *)
(* listeners of the port, and from then on among the jobs.                 *)
(***************************************************************************)
EXTENDS CursorSpawn

CONSTANTS
    Disconnects,    \* the calls of disconnect()
    Ids,            \* chat ids; a session is named by one
    None
ASSUME NoneIsNone == None \notin Ids \cup Disconnects \cup Commands

VARIABLES
    status,     \* the connection status
    latch,      \* shutdown: the call whose shutdown is running, or None
    inFlight,   \* the ledger, in insertion order
    call,       \* of each command: "new", "awaiting", "returned" or "done"
    op,         \* what it runs: the method, its session and the chat it resumes
    chat,       \* cursorSessionId of each session, None without an entry
    minted,     \* the chats the CLI has made
    joined,     \* the shutdown each call of disconnect() awaits
    phase,      \* how far the shutdown of each call has come
    polling,    \* the shutdown whose poll timer is armed, or None
    client      \* client code has run since the last library macrotask
portVars == <<status, latch, inFlight, call, op, chat, minted, joined, phase, polling, client>>
vars == <<spawnVars, portVars>>

NoOp == [does |-> "none", on |-> None, resume |-> None]
Ops == [does : {"connect", "newSession", "prompt"}, on : Ids \cup {None}, resume : Ids \cup {None}]
Phases == {"none", "draining", "announcing", "stopped", "released", "done"}
Ledger == {inFlight[i] : i \in DOMAIN inFlight}

Init ==
    /\ SpawnInit
    /\ status = "disconnected" /\ latch = None /\ inFlight = <<>>
    /\ call = [c \in Commands |-> "new"] /\ op = [c \in Commands |-> NoOp]
    /\ chat = [s \in Ids |-> None] /\ minted = {}
    /\ joined = [d \in Disconnects |-> None] /\ phase = [d \in Disconnects |-> "none"]
    /\ polling = None /\ client = FALSE

\* A listener of the DISCONNECTED announcement is running.
Announcing == \E d \in Disconnects : phase[d] = "announcing"
ClientMayCall == jobs = <<>> \/ client

------------------------------------------------------------------------------
(* connect, newSession and prompt up to the await of runTracked *)

\* Mutant: the historical process-wide chat id, the last one made.
LastChatOf(s) == IF minted = {} THEN None ELSE CHOOSE i \in minted : TRUE
ChatOf(s) == chat[s]

Requests ==
    {[does |-> m, on |-> None, resume |-> None] : m \in {"connect", "newSession"}}
        \cup {[does |-> "prompt", on |-> s, resume |-> ChatOf(s)] : s \in Ids}

\* Mutant: connect and newSession are not gated.
AdmitsOthers(o) == latch = None \/ o.does # "prompt"
Admits(o) == latch = None

Begin(c, o) ==
    /\ ClientMayCall
    /\ call[c] = "new"
    /\ op' = [op EXCEPT ![c] = o]
    /\ status' = IF o.does = "connect" THEN "connecting" ELSE status
    /\ client' = TRUE
    /\ UNCHANGED <<latch, chat, minted, joined, phase, polling>>

Run(c, o) ==
    /\ Admits(o)
    /\ Begin(c, o)
    /\ call' = [call EXCEPT ![c] = "awaiting"]
    /\ inFlight' = Append(inFlight, c)
    /\ Spawn(c) \/ SpawnThrows(c)

Refuse(c, o) ==
    /\ ~Admits(o)
    /\ Begin(c, o)
    /\ call' = [call EXCEPT ![c] = "returned"]
    /\ promise' = [promise EXCEPT ![c] = "rejected"]
    /\ jobs' = Append(jobs, Job("return", c))
    /\ UNCHANGED <<child, signal, timers, listening, inFlight>>

------------------------------------------------------------------------------
(* The jobs of a command *)

\* The head of the queue runs; a job waits while a listener is on the stack.
Runs(what, x) == ~Announcing /\ jobs # <<>> /\ Head(jobs) = Job(what, x)
Then(what, x) == jobs' = Append(Tail(jobs), Job(what, x))

\* Mutant: the entry is retired on success only.
RetiredIfResolved(c) ==
    IF promise[c] = "resolved" THEN Keep(inFlight, Commands \ {c}) ELSE inFlight
Retired(c) == Keep(inFlight, Commands \ {c})

\* The finally of runTracked.
Retire(c) ==
    /\ Runs("retire", c)
    /\ Then("return", c)
    /\ inFlight' = Retired(c)
    /\ call' = [call EXCEPT ![c] = "returned"]
    /\ UNCHANGED <<promise, child, signal, timers, listening, status, latch, op, chat, minted,
                   joined, phase, polling, client>>

\* The chat a CLI that closed reports: the one it resumed, else a new one, or none.
Reports(c) ==
    IF promise[c] # "resolved" THEN {None}
    ELSE {None} \cup IF op[c].resume # None THEN {op[c].resume} ELSE Ids \ minted

MintedWith(id) == minted \cup ({id} \ {None})

Return(c) ==
    /\ Runs("return", c)
    /\ jobs' = Tail(jobs)
    /\ call' = [call EXCEPT ![c] = "done"]
    /\ client' = TRUE
    /\ \/ /\ op[c].does = "connect"
          /\ status' \in {"error"} \cup IF promise[c] = "resolved" THEN {"connected"} ELSE {}
          /\ UNCHANGED <<chat, minted>>
       \/ /\ op[c].does # "connect"
          /\ \E id \in Reports(c) :
                LET s == IF op[c].does = "newSession" THEN id ELSE op[c].on
                IN  /\ chat' = IF id = None THEN chat ELSE [chat EXCEPT ![s] = id]
                    /\ minted' = MintedWith(id)
          /\ UNCHANGED status
    /\ UNCHANGED <<promise, child, signal, timers, listening, latch, inFlight, op, joined,
                   phase, polling>>

------------------------------------------------------------------------------
(* disconnect *)

\* Mutant: every caller starts a shutdown of its own.
NeverShares == FALSE
Shares == latch # None

\* An overlapping call awaits the running shutdown.
Join(d) ==
    /\ ClientMayCall
    /\ joined[d] = None
    /\ Shares
    /\ joined' = [joined EXCEPT ![d] = latch]
    /\ client' = TRUE
    /\ UNCHANGED <<spawnVars, status, latch, inFlight, call, op, chat, minted, phase, polling>>

\* runShutdown up to the await of waitForInFlight, which polls unless the ledger is empty.
Shutdown(d) ==
    /\ ClientMayCall
    /\ joined[d] = None
    /\ ~Shares
    /\ joined' = [joined EXCEPT ![d] = d]
    /\ phase' = [phase EXCEPT ![d] = "draining"]
    /\ latch' = d
    /\ AbortAll(inFlight, IF inFlight = <<>> THEN <<Job("stop", d)>> ELSE <<>>)
    /\ polling' = IF inFlight = <<>> THEN polling ELSE d
    /\ client' = TRUE
    /\ UNCHANGED <<status, inFlight, call, op, chat, minted>>

\* The poll timer resolves; the wait goes on unless the ledger is empty or the
\* deadline has passed.
Poll(d) ==
    /\ jobs = <<>> /\ ~Announcing
    /\ polling = d
    /\ polling' = None
    /\ jobs' = <<Job("recheck", d)>>
    /\ client' = FALSE
    /\ UNCHANGED <<promise, child, signal, timers, listening, status, latch, inFlight, call,
                   op, chat, minted, joined, phase>>

Recheck(d) ==
    /\ Runs("recheck", d)
    /\ \/ Then("stop", d) /\ UNCHANGED polling
       \/ inFlight # <<>> /\ jobs' = Tail(jobs) /\ polling' = d
    /\ UNCHANGED <<promise, child, signal, timers, listening, status, latch, inFlight, call,
                   op, chat, minted, joined, phase, client>>

\* The end of runShutdown: the status, and its listeners.
Stop(d) ==
    /\ Runs("stop", d)
    /\ jobs' = Tail(jobs)
    /\ status' = "disconnected"
    /\ phase' = [phase EXCEPT ![d] = "announcing"]
    /\ client' = TRUE
    /\ UNCHANGED <<promise, child, signal, timers, listening, latch, inFlight, call, op, chat,
                   minted, joined, polling>>

Announced(d) ==
    /\ phase[d] = "announcing"
    /\ phase' = [phase EXCEPT ![d] = "stopped"]
    /\ jobs' = Append(jobs, Job("release", d))
    /\ UNCHANGED <<promise, child, signal, timers, listening, status, latch, inFlight, call,
                   op, chat, minted, joined, polling, client>>

\* Mutant: the latch is left to the callers.
KeptLatch(d) == latch
FreedLatch(d) == None

\* The finally of the shutdown, which precedes the settling of its promise.
Release(d) ==
    /\ Runs("release", d)
    /\ Then("settle", d)
    /\ latch' = FreedLatch(d)
    /\ phase' = [phase EXCEPT ![d] = "released"]
    /\ UNCHANGED <<promise, child, signal, timers, listening, status, inFlight, call, op, chat,
                   minted, joined, polling, client>>

\* The promise of the shutdown settles, for everyone who joined it.
SettleShutdown(d) ==
    /\ Runs("settle", d)
    /\ jobs' = Tail(jobs)
    /\ phase' = [phase EXCEPT ![d] = "done"]
    /\ client' = TRUE
    /\ UNCHANGED <<promise, child, signal, timers, listening, status, latch, inFlight, call,
                   op, chat, minted, joined, polling>>

------------------------------------------------------------------------------
SpawnEvent(c) ==
    /\ ~Announcing
    /\ Timeout(c) \/ KillTimer(c) \/ Close(c) \/ SpawnError(c)
    /\ client' = FALSE
    /\ UNCHANGED <<status, latch, inFlight, call, op, chat, minted, joined, phase, polling>>

LoopStep ==
    \/ \E c \in Commands : Retire(c) \/ Return(c)
    \/ \E d \in Disconnects :
            Recheck(d) \/ Stop(d) \/ Announced(d) \/ Release(d) \/ SettleShutdown(d)

\* All calls of the bounded run are over and every child has gone.
Finished ==
    /\ jobs = <<>> /\ polling = None
    /\ \A c \in Commands : call[c] = "done" /\ child[c] # "running"
    /\ \A d \in Disconnects : joined[d] # None
    /\ UNCHANGED vars

Next ==
    \/ \E c \in Commands : \/ \E o \in Requests : Run(c, o) \/ Refuse(c, o)
                           \/ SpawnEvent(c)
    \/ \E d \in Disconnects : Join(d) \/ Shutdown(d) \/ Poll(d)
    \/ LoopStep
    \/ Finished

Spec == Init /\ [][Next]_vars

\* A timer that is due fires, a job that is queued runs; a child may ignore SIGTERM and
\* may never end by itself, but it ends after SIGKILL.
Dies(c) == signal[c] = "KILL" /\ SpawnEvent(c) /\ child'[c] = "gone"
TimerFires(c) == timers[c] # {} /\ SpawnEvent(c) /\ timers'[c] # timers[c]
FairSpec ==
    /\ Spec
    /\ WF_vars(LoopStep)
    /\ \A d \in Disconnects : WF_vars(Poll(d))
    /\ \A c \in Commands : WF_vars(TimerFires(c)) /\ WF_vars(Dies(c))
------------------------------------------------------------------------------
TypeOK ==
    /\ promise \in [Commands -> {"none", "pending", "resolved", "rejected"}]
    /\ child \in [Commands -> {"none", "running", "gone"}]
    /\ signal \in [Commands -> {"none", "TERM", "KILL"}]
    /\ timers \in [Commands -> SUBSET {"timeout", "kill", "lost"}]
    /\ listening \in [Commands -> BOOLEAN]
    /\ jobs \in Seq([does : {"retire", "return"}, of : Commands]
                    \cup [does : {"recheck", "stop", "release", "settle"}, of : Disconnects])
    /\ status \in {"disconnected", "connecting", "connected", "error"}
    /\ latch \in Disconnects \cup {None}
    /\ inFlight \in Seq(Commands)
    /\ call \in [Commands -> {"new", "awaiting", "returned", "done"}]
    /\ op \in [Commands -> Ops \cup {NoOp}]
    /\ chat \in [Ids -> Ids \cup {None}]
    /\ minted \subseteq Ids
    /\ joined \in [Disconnects -> Disconnects \cup {None}]
    /\ phase \in [Disconnects -> Phases]
    /\ polling \in Disconnects \cup {None}
    /\ client \in BOOLEAN

\* A child nobody waits for any more has been asked to stop, and a SIGKILL has been
\* sent or is due: no abort or timeout leaves a process behind.
NoChildLeftBehind ==
    \A c \in Commands : child[c] = "running" /\ promise[c] # "pending"
        => signal[c] = "KILL" \/ (signal[c] = "TERM" /\ "kill" \in timers[c])

\* No timer survives the child it was armed for: a late SIGKILL would be sent to nobody,
\* and the timer would keep the process of the client alive.
TimersEndWithChild == \A c \in Commands : child[c] # "running" => timers[c] = {}

Command(c) == INSTANCE SpawnedCommand
              WITH promise <- promise[c], child <- child[c],
                   signal <- signal[c], timers <- timers[c]

\* Every command keeps the promises of a spawned command, whatever the port does to it: it
\* settles once, and no timer outlives its child.  It is killed at most once: a second kill
\* would overwrite the handle of the first force-kill timer, and the "lost" one it leaves is
\* a timer no spawned command has.
EveryCommandKeepsItsPromises ==
    [][\A c \in Commands : [Command(c)!Next]_(Command(c)!vars)]_spawnVars

\* The ledger is complete: a child that still works for a caller can be aborted, and during
\* a shutdown there is none (no call is admitted behind its back).
ShutdownReachesAll ==
    \A c \in Commands : child[c] = "running" /\ promise[c] = "pending"
        => c \in Ledger /\ latch = None

\* At most one shutdown runs, and the latch is its own: it is taken as long as the shutdown
\* runs and is free before any caller of disconnect() resumes.
LatchIsTheShutdown ==
    \A d \in Disconnects : phase[d] \in {"draining", "announcing", "stopped"} <=> latch = d

\* Two sessions never resume the same chat.
ChatsNotShared ==
    \A s, t \in Ids : chat[s] # None /\ chat[s] = chat[t] => s = t

\* A shutdown leaves its wait with an empty ledger: the deadline is never what ends it.
DrainedByAbort ==
    [][\A d \in Disconnects : phase[d] = "draining" /\ phase'[d] # "draining"
            => inFlight = <<>>]_vars

\* A connect() that a disconnect() has overtaken does not report the port connected.
NoResurrection == [][status = "disconnected" => status' # "connected"]_status

\* Every command returns to its caller, and so does every call of disconnect(), without
\* counting on the deadline of its wait.
CallsReturn ==
    /\ \A c \in Commands : call[c] = "awaiting" ~> call[c] = "done"
    /\ \A d \in Disconnects :
        joined[d] # None ~> \E e \in Disconnects : joined[d] = e /\ phase[e] = "done"
==============================================================================
