---------------------------- MODULE HelpExtractor ----------------------------
(* extractHelp (cli/help.extractor.ts): a CLI is run with --help, its output  *)
(* is collected chunk by chunk, and the promise settles on its close, on its  *)
(* error or on the timeout, whichever comes first.  Output is counted in      *)
(* chunks; the events of the child arrive in any order the streams allow.     *)
EXTENDS Naturals

CONSTANT MaxChunks          \* bounds the chunks the child writes to a stream

ASSUME MaxChunksAssumption == MaxChunks \in Nat

VARIABLES
    promise, child, signal, timers,   \* as in SpawnedCommand
    wrote,      \* per stream, the chunks the child has written
    captured,   \* per stream, the chunks collected so far
    exit,       \* "none", or how the process ended
    help        \* what the promise resolved to: a number of chunks of a stream

commandVars == <<promise, child, signal, timers>>
vars == <<commandVars, wrote, captured, exit, help>>

Stream == {"stdout", "stderr"}
Exits  == {"zero", "failed", "signalled"}

Init ==
    /\ promise = "none" /\ child = "none" /\ signal = "none" /\ timers = {}
    /\ wrote = [s \in Stream |-> 0]
    /\ captured = [s \in Stream |-> 0]
    /\ exit = "none"
    /\ help = <<>>

-----------------------------------------------------------------------------
(* The call                                                                  *)

Extract ==
    /\ promise = "none"
    /\ promise' = "pending"
    /\ child' = "running"
    /\ timers' = {"timeout"}
    /\ UNCHANGED <<signal, wrote, captured, exit, help>>

\* spawnFn throws inside the executor.
SpawnThrows ==
    /\ promise = "none"
    /\ promise' = "rejected"
    /\ UNCHANGED <<child, signal, timers, wrote, captured, exit, help>>

\* Mutant: a process ended by a signal has no exit code, which passes for success.
NotFailed(how) == how # "failed"
Succeeded(how) == how = "zero"

\* stdout || stderr
Collected(got) ==
    LET s == IF got["stdout"] > 0 THEN "stdout" ELSE "stderr" IN <<s, got[s]>>

\* The close handler, for a process that ended this way.
Closed(how, armed) ==
    /\ child' = "gone"
    /\ timers' = armed
    /\ IF promise # "pending" THEN UNCHANGED <<promise, help>>
       ELSE IF Succeeded(how) THEN promise' = "resolved" /\ help' = Collected(captured)
       ELSE promise' = "rejected" /\ UNCHANGED help

\* The timers that are left when a kill() has emitted close: the force-kill timer is set
\* before the signal is sent, so the handler finds it.  Mutant: it is set afterwards.
ArmedAfter  == {"kill"}
ArmedBefore == {}

\* Mutant: the timeout only asks.
NoForceTimer == {}
ForceTimer   == {"kill"}

\* kill() returns at once, or, with an injected spawnFn, emits close before it does.
Timeout ==
    /\ "timeout" \in timers
    /\ signal' = "TERM"
    /\ \/ /\ timers' = ForceTimer
          /\ promise' = IF promise = "pending" THEN "rejected" ELSE promise
          /\ UNCHANGED <<child, exit, help>>
       \/ /\ exit = "none" /\ captured = wrote
          /\ exit' \in Exits
          /\ Closed(exit', ArmedBefore)
    /\ UNCHANGED <<wrote, captured>>

ForceKill ==
    /\ "kill" \in timers
    /\ timers' = timers \ {"kill"}
    /\ signal' = "KILL"
    /\ UNCHANGED <<promise, child, wrote, captured, exit, help>>

-----------------------------------------------------------------------------
(* The child                                                                 *)

Write(s) ==
    /\ child = "running" /\ exit = "none"
    /\ wrote[s] < MaxChunks
    /\ wrote' = [wrote EXCEPT ![s] = @ + 1]
    /\ UNCHANGED <<commandVars, captured, exit, help>>

Data(s) ==
    /\ captured[s] < wrote[s]
    /\ captured' = [captured EXCEPT ![s] = @ + 1]
    /\ UNCHANGED <<commandVars, wrote, exit, help>>

Exit ==
    /\ child = "running" /\ exit = "none"
    /\ exit' \in Exits
    /\ UNCHANGED <<commandVars, wrote, captured, help>>

\* Mutant: the handler listens for exit, which may precede the last of the output.
OnExit        == TRUE
AllOutputRead == captured = wrote

Close ==
    /\ child = "running" /\ exit # "none"
    /\ AllOutputRead
    /\ Closed(exit, {})
    /\ UNCHANGED <<signal, wrote, captured, exit>>

\* The process never ran.
SpawnError ==
    /\ child = "running" /\ exit = "none" /\ signal = "none"
    /\ \A s \in Stream : wrote[s] = 0
    /\ child' = "gone"
    /\ timers' = {}
    /\ promise' = "rejected"
    /\ UNCHANGED <<signal, wrote, captured, exit, help>>

Done == child = "gone" \/ (child = "none" /\ promise = "rejected")

Next ==
    \/ Extract \/ SpawnThrows \/ Timeout \/ ForceKill
    \/ \E s \in Stream : Write(s) \/ Data(s)
    \/ Exit \/ Close \/ SpawnError
    \/ Done /\ UNCHANGED vars

Spec == Init /\ [][Next]_vars

\* A due timer fires and an event that is due is delivered; the child may ignore SIGTERM
\* and never end by itself, but ends after SIGKILL.
FairSpec ==
    /\ Spec
    /\ WF_vars(Timeout) /\ WF_vars(ForceKill)
    /\ WF_vars(\E s \in Stream : Data(s)) /\ WF_vars(Close)
    /\ WF_vars(signal = "KILL" /\ Exit)

-----------------------------------------------------------------------------
(* Properties                                                                *)

TypeOK ==
    /\ promise \in {"none", "pending", "resolved", "rejected"}
    /\ child \in {"none", "running", "gone"}
    /\ signal \in {"none", "TERM", "KILL"}
    /\ timers \subseteq {"timeout", "kill"}
    /\ wrote \in [Stream -> 0..MaxChunks]
    /\ captured \in [Stream -> 0..MaxChunks]
    /\ exit \in Exits \cup {"none"}
    /\ help \in {<<>>} \cup (Stream \X Nat)

\* A help text is the whole text of a command that succeeded: never what a process that was
\* cut short had printed so far, and never a part of what was printed.
HelpIsComplete ==
    promise = "resolved" => exit = "zero" /\ help = Collected(wrote)

Command == INSTANCE SpawnedCommand
           WITH promise <- promise, child <- child, signal <- signal, timers <- timers

\* The promise settles once, a command that timed out is killed, and no timer is left behind.
ImplementsCommand == Command!Spec

\* The caller hears in the end, and a command that timed out is gone in the end.
SettlesAndEnds ==
    /\ promise = "pending" ~> promise \in {"resolved", "rejected"}
    /\ signal # "none" ~> child = "gone"
=============================================================================
