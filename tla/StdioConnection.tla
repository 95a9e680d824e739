---------------------------- MODULE StdioConnection ----------------------------
(* The transport that owns agent child processes (runtime/stdio.connection.ts). *)
(*                                                                            *)
(* JavaScript runs to completion.  A method body is therefore one step, unless *)
(* it awaits, or emits an event before it has finished: a listener may then   *)
(* call back into the connection from inside the unfinished method.  Only two *)
(* emissions are followed by more work, "state: connecting" in connect() and  *)
(* "exit" in the close handler; frames is the stack of methods suspended in   *)
(* one of them.  Promise continuations are microtasks: they run before the    *)
(* next child event or timer (Quiet), but the caller's own continuations may  *)
(* run before them.                                                           *)
EXTENDS Naturals, Sequences, FiniteSets

CONSTANTS
    Child,      \* the processes that can be spawned: bounds the number of spawns
    Call,       \* the disconnect() calls that can be awaited at the same time
    None,       \* "undefined"
    Overlap,    \* may connect() be called while a disconnect() is awaited?
    Reentrant,  \* emissions whose listeners call back into the connection
    MaxDepth    \* bounds the stack of suspended methods

ASSUME NoneAssumption == None \notin Child \cup Call
ASSUME OverlapAssumption == Overlap \in BOOLEAN
ASSUME ReentrantAssumption == Reentrant \subseteq {"connecting", "exit"}
ASSUME DepthAssumption == MaxDepth \in Nat

VARIABLES
    status,       \* connectionStatus, as last announced
    current,      \* the child of this.current
    intentional,  \* ChildSession.intentional, per child
    bound,        \* the children with error and close handlers bound
    proc,         \* the state of the operating system's process
    signals,      \* the signals each child was sent
    waiting,      \* per disconnect() call: the child it captured
    resolved,     \* calls whose promise is resolved and that have not resumed
    timer,        \* per call: the child its force-kill timer will kill
    frames        \* methods suspended in an emission, innermost last

vars == <<status, current, intentional, bound, proc, signals, waiting,
          resolved, timer, frames>>

procVars == <<intentional, bound, proc, signals>>
callVars == <<waiting, resolved, timer>>

Status == {"disconnected", "connecting", "connected", "error"}
Signal == {"TERM", "KILL"}
Frame  == [at: {"connecting", "exit"}, child: Child \cup {None},
           mine: BOOLEAN, failed: BOOLEAN]

Init ==
    /\ status = "disconnected"
    /\ current = None
    /\ intentional = [c \in Child |-> FALSE]
    /\ bound = {}
    /\ proc = [c \in Child |-> "unborn"]
    /\ signals = [c \in Child |-> {}]
    /\ waiting = [k \in Call |-> None]
    /\ resolved = {}
    /\ timer = [k \in Call |-> None]
    /\ frames = <<>>

-----------------------------------------------------------------------------
(* Who may run                                                               *)

Top == frames[Len(frames)]

\* The code of a caller runs: either nothing is on the stack, or it is a
\* listener of the emission the innermost method is suspended in.
Callable ==
    \/ frames = <<>>
    \/ /\ frames # <<>>
       /\ Top.at \in Reentrant
       /\ Len(frames) < MaxDepth

\* The event loop turns to the next child event or timer.
Quiet == frames = <<>> /\ resolved = {}

Pending == {k \in Call : waiting[k] # None}

Push(f) == frames' = Append(frames, f)
Pop     == frames' = SubSeq(frames, 1, Len(frames) - 1)

Kill(c, s) == signals' = [signals EXCEPT ![c] = @ \cup {s}]

-----------------------------------------------------------------------------
(* connect()                                                                 *)

\* Up to the "connecting" announcement.  A child that is still held (its
\* status was "error") is released with a SIGTERM and not waited for.
ConnectBegin ==
    /\ Callable
    /\ Overlap \/ Pending = {}
    /\ status \notin {"connecting", "connected"}
    /\ \E c \in Child : proc[c] = "unborn"      \* bounds the spawns
    /\ current' = None
    /\ IF current # None
       THEN /\ intentional' = [intentional EXCEPT ![current] = TRUE]
            /\ Kill(current, "TERM")
       ELSE UNCHANGED <<intentional, signals>>
    /\ status' = "connecting"
    /\ Push([at |-> "connecting", child |-> None, mine |-> FALSE, failed |-> FALSE])
    /\ UNCHANGED <<bound, proc, callVars>>

\* After the announcement.
Connecting == frames # <<>> /\ Top.at = "connecting"

\* The spawn and the set-up of the session succeed.
ConnectSpawn(c) ==
    /\ Connecting
    /\ proc[c] = "unborn"
    /\ proc' = [proc EXCEPT ![c] = "running"]
    /\ current' = c
    /\ bound' = bound \cup {c}
    /\ status' = "connected"
    /\ Pop
    /\ UNCHANGED <<intentional, signals, callVars>>

\* A child without usable pipes is sent a SIGTERM and never recorded.
\* Mutant: it is only forgotten.
LeaveUnusable(c) == UNCHANGED signals
StopUnusable(c)  == Kill(c, "TERM")

ConnectSetupThrows(c) ==
    /\ Connecting
    /\ proc[c] = "unborn"
    /\ proc' = [proc EXCEPT ![c] = "running"]
    /\ StopUnusable(c)
    /\ status' = "error"
    /\ Pop
    /\ UNCHANGED <<current, intentional, bound, callVars>>

ConnectSpawnThrows ==
    /\ Connecting
    /\ status' = "error"
    /\ Pop
    /\ UNCHANGED <<current, procVars, callVars>>

-----------------------------------------------------------------------------
(* disconnect()                                                              *)

DisconnectIdle ==
    /\ Callable
    /\ current = None
    /\ status' = "disconnected"
    /\ UNCHANGED <<current, procVars, callVars, frames>>

\* Mutant: no force-kill timer.
ArmNothing == None
ArmTimer   == current

\* Captures the session, asks the child to stop and waits for its close.
DisconnectBegin(k) ==
    /\ Callable
    /\ current # None
    /\ waiting[k] = None
    /\ intentional' = [intentional EXCEPT ![current] = TRUE]
    /\ Kill(current, "TERM")
    /\ waiting' = [waiting EXCEPT ![k] = current]
    /\ timer' = [timer EXCEPT ![k] = ArmTimer]
    /\ UNCHANGED <<status, current, bound, proc, resolved, frames>>

\* Mutants: the callback acts on whichever process is current by then, or
\* repeats the SIGTERM.
KillCurrent(k)  == Kill(IF current # None THEN current ELSE timer[k], "KILL")
TermCaptured(k) == Kill(timer[k], "TERM")
KillCaptured(k) == Kill(timer[k], "KILL")

\* The timer of disconnect() fires before the child has closed.
ForceKill(k) ==
    /\ Quiet
    /\ timer[k] # None
    /\ KillCaptured(k)
    /\ timer' = [timer EXCEPT ![k] = None]
    /\ resolved' = resolved \cup ({k} \cap Pending)
    /\ UNCHANGED <<status, current, intentional, bound, proc, waiting, frames>>

\* The captured session is dropped if it is still the current one.
\* Mutant: it is kept.
KeepCaptured(k) == current
DropCaptured(k) == IF current = waiting[k] THEN None ELSE current

\* The code after the await: the timer is cleared, the captured session
\* dropped, and the status set in any case.
DisconnectResume(k) ==
    /\ frames = <<>>
    /\ k \in resolved
    /\ timer' = [timer EXCEPT ![k] = None]
    /\ current' = DropCaptured(k)
    /\ status' = "disconnected"
    /\ waiting' = [waiting EXCEPT ![k] = None]
    /\ resolved' = resolved \ {k}
    /\ UNCHANGED <<procVars, frames>>

-----------------------------------------------------------------------------
(* Events of the children                                                    *)

\* A child reports an error.  One that is not current is ignored.
ChildError(c) ==
    /\ Quiet
    /\ proc[c] = "running"
    /\ current = c
    /\ status' = "error"
    /\ UNCHANGED <<current, procVars, callVars, frames>>

\* getStream() is cleared before the announcement.  Mutant: it is not.
KeepClosed(c) == current
DropClosed(c) == IF current = c THEN None ELSE current

\* A child closes, cleanly or not; up to the "exit" announcement.
CloseBegin(c) ==
    /\ Quiet
    /\ proc[c] = "running"
    /\ c \in bound
    /\ proc' = [proc EXCEPT ![c] = "closed"]
    /\ current' = DropClosed(c)
    /\ \E badExit \in BOOLEAN :
          Push([at |-> "exit", child |-> c, mine |-> current = c,
                failed |-> badExit /\ ~intentional[c]])
    /\ UNCHANGED <<status, intentional, bound, signals, callVars>>

\* The status after the exit of the current child.
ExitStatus(f) == IF f.failed THEN "error" ELSE "disconnected"

\* The rest of the handler, then the once-listeners of pending disconnects.
CloseFinish ==
    /\ frames # <<>>
    /\ Top.at = "exit"
    /\ status' = IF Top.mine THEN ExitStatus(Top) ELSE status
    /\ resolved' = resolved \cup {k \in Pending : waiting[k] = Top.child}
    /\ Pop
    /\ UNCHANGED <<current, procVars, waiting, timer>>

\* A child whose set-up failed has no handlers: its close is not noticed.
CloseUnbound(c) ==
    /\ Quiet
    /\ proc[c] = "running"
    /\ c \notin bound
    /\ proc' = [proc EXCEPT ![c] = "closed"]
    /\ UNCHANGED <<status, current, intentional, bound, signals, callVars, frames>>

-----------------------------------------------------------------------------
ConnectFinish ==
    \/ \E c \in Child : ConnectSpawn(c) \/ ConnectSetupThrows(c)
    \/ ConnectSpawnThrows

ChildClosed(c) == CloseBegin(c) \/ CloseUnbound(c)

Next ==
    \/ ConnectBegin
    \/ ConnectFinish
    \/ CloseFinish
    \/ DisconnectIdle
    \/ \E k \in Call : DisconnectBegin(k) \/ ForceKill(k) \/ DisconnectResume(k)
    \/ \E c \in Child : ChildError(c) \/ ChildClosed(c)

Spec == Init /\ [][Next]_vars

\* A suspended method finishes, a queued continuation runs, a due timer fires.
\* The caller's code may run any number of times before that, but a listener
\* returns, the queues are first in, first out, and the caller goes back to the
\* event loop, so none of them is passed over for ever: strong fairness.  A
\* child need not obey a SIGTERM; a SIGKILL it cannot survive.
Fairness ==
    /\ SF_vars(ConnectFinish) /\ SF_vars(CloseFinish)
    /\ \A k \in Call : SF_vars(DisconnectResume(k)) /\ SF_vars(ForceKill(k))
    /\ \A c \in Child : SF_vars("KILL" \in signals[c] /\ ChildClosed(c))

FairSpec == Spec /\ Fairness

-----------------------------------------------------------------------------
(* Properties                                                                *)

TypeOK ==
    /\ status \in Status
    /\ current \in Child \cup {None}
    /\ intentional \in [Child -> BOOLEAN]
    /\ bound \subseteq Child
    /\ proc \in [Child -> {"unborn", "running", "closed"}]
    /\ signals \in [Child -> SUBSET Signal]
    /\ waiting \in [Call -> Child \cup {None}]
    /\ resolved \subseteq Call
    /\ timer \in [Call -> Child \cup {None}]
    /\ frames \in Seq(Frame)

\* getStream() never returns the stream of a process that has closed: the
\* close handler clears it first, whoever called back in the meantime.
CurrentIsAlive == current # None => proc[current] = "running" /\ current \in bound

\* A running process is either the one the connection holds, or one that was
\* asked to stop: connect() and disconnect() never lose one.
NoOrphan == \A c \in Child : proc[c] = "running" => current = c \/ "TERM" \in signals[c]

\* Between two turns, with no disconnect() pending, the announced status tells
\* whether there is a child: one that is "disconnected" holds none.
StatusMatchesCurrent ==
    Quiet /\ Pending = {} =>
        /\ status \in {"disconnected", "connected", "error"}
        /\ status = "connected" => current # None
        /\ status = "disconnected" => current = None

\* The continuation of a disconnect() acts on the process it captured: when
\* another process is current by then, its status is left alone.
ResumeActsOnItsOwnChild ==
    [][\A k \in Call :
          DisconnectResume(k) /\ current \notin {None, waiting[k]} => status' = status]_vars

\* A signal only goes to a running process, and a SIGKILL only to one that a
\* disconnect() asked to stop before: never to the child of a later connect().
SignalsReachTheirTarget ==
    [][\A c \in Child : \A s \in signals'[c] \ signals[c] :
          /\ proc'[c] = "running"
          /\ s = "KILL" => intentional[c] /\ "TERM" \in signals[c]]_vars

\* Every awaited disconnect() returns, whatever the child does.
DisconnectReturns ==
    \A k \in Call : waiting[k] # None ~> waiting[k] = None

\* The process a disconnect() was called for ends, even if it ignores SIGTERM.
DisconnectedChildDies ==
    \A c \in Child : (\E k \in Call : waiting[k] = c) ~> proc[c] = "closed"
=============================================================================
