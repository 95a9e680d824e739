------------------------- MODULE HelpExtractorProofs -------------------------
(* Theorems about HelpExtractor, for any amount of output.                    *)
EXTENDS HelpExtractor, TLAPS

\* A pending promise has a process and its timeout; only a process has a timer; a resolved
\* promise was settled by the close of a process that succeeded.
HelpInv ==
    /\ TypeOK
    /\ promise = "none" => child = "none"
    /\ promise = "pending" => child = "running" /\ timers = {"timeout"}
    /\ timers # {} => child = "running"
    /\ "timeout" \in timers => promise = "pending"
    /\ promise = "resolved" =>
            child = "gone" /\ exit = "zero" /\ captured = wrote /\ help = Collected(wrote)

USE MaxChunksAssumption

LEMMA HelpInvInit == Init => HelpInv
  BY DEF Init, HelpInv, TypeOK, Stream

LEMMA CollectedType ==
    ASSUME NEW got \in [Stream -> 0..MaxChunks]
    PROVE  Collected(got) \in Stream \X Nat
  BY DEF Collected, Stream

LEMMA ClosedKeeps ==
    ASSUME HelpInv, promise = "pending" \/ promise = "rejected", captured = wrote,
           NEW how \in Exits, exit' = how, Closed(how, {}), UNCHANGED <<wrote, captured>>,
           signal' \in {"none", "TERM", "KILL"}
    PROVE  HelpInv'
  <1>1. CASE promise = "pending" /\ Succeeded(how)
    BY <1>1, CollectedType DEF Closed, Succeeded, HelpInv, TypeOK, Exits
  <1>2. CASE promise # "pending" \/ ~Succeeded(how)
    BY <1>2 DEF Closed, Succeeded, HelpInv, TypeOK, Exits
  <1> QED
    BY <1>1, <1>2

LEMMA HelpInvStep ==
    ASSUME HelpInv, [Next]_vars
    PROVE  HelpInv'
  <1>1. CASE Extract \/ SpawnThrows \/ ForceKill
    BY <1>1 DEF Extract, SpawnThrows, ForceKill, HelpInv, TypeOK
  <1>2. ASSUME Timeout PROVE HelpInv'
    <2>1. promise = "pending"
      BY <1>2 DEF Timeout, HelpInv
    <2>2. CASE timers' = ForceTimer /\ promise' = "rejected" /\ UNCHANGED <<child, exit, help>>
      BY <1>2, <2>1, <2>2 DEF Timeout, ForceTimer, HelpInv, TypeOK
    <2>3. CASE exit = "none" /\ captured = wrote /\ exit' \in Exits /\ Closed(exit', ArmedBefore)
      BY <1>2, <2>1, <2>3, ClosedKeeps DEF Timeout, ArmedBefore
    <2> QED
      BY <1>2, <2>1, <2>2, <2>3 DEF Timeout
  <1>3. ASSUME NEW s \in Stream, Write(s) \/ Data(s) PROVE HelpInv'
    <2>1. /\ wrote[s] \in 0..MaxChunks /\ captured[s] \in 0..MaxChunks
          /\ captured[s] < wrote[s] => captured # wrote /\ captured[s] + 1 \in 0..MaxChunks
          /\ wrote[s] < MaxChunks => wrote[s] + 1 \in 0..MaxChunks
      BY <1>3 DEF HelpInv, TypeOK
    <2>2. TypeOK' /\ UNCHANGED commandVars /\ promise # "resolved"
      BY <1>3, <2>1 DEF Write, Data, commandVars, HelpInv, TypeOK
    <2> QED
      BY <1>3, <2>2 DEF Write, Data, commandVars, HelpInv
  <1>4. CASE Exit
    BY <1>4 DEF Exit, commandVars, HelpInv, TypeOK
  <1>5. ASSUME Close PROVE HelpInv'
    <2>1. promise = "pending" \/ promise = "rejected"
      BY <1>5 DEF Close, HelpInv, TypeOK
    <2>2. exit \in Exits /\ signal \in {"none", "TERM", "KILL"}
      BY <1>5 DEF Close, HelpInv, TypeOK
    <2> QED
      BY <1>5, <2>1, <2>2, ClosedKeeps DEF Close, AllOutputRead
  <1>6. CASE SpawnError
    BY <1>6 DEF SpawnError, HelpInv, TypeOK
  <1>7. CASE (Done /\ UNCHANGED vars) \/ UNCHANGED vars
    BY <1>7 DEF vars, commandVars, HelpInv, TypeOK
  <1> QED
    BY <1>1, <1>2, <1>3, <1>4, <1>5, <1>6, <1>7 DEF Next

LEMMA HelpInvAlways == Spec => []HelpInv
  BY HelpInvInit, HelpInvStep, PTL DEF Spec

-----------------------------------------------------------------------------
\* extractHelp returns nothing but the whole output of a command that exited with 0.
THEOREM HelpNeverCutShort == Spec => []HelpIsComplete
  <1>1. HelpInv => HelpIsComplete
    BY DEF HelpInv, HelpIsComplete
  <1> QED
    BY <1>1, HelpInvAlways, PTL

LEMMA StepIsACommandStep ==
    ASSUME HelpInv, [Next]_vars
    PROVE  [Command!Next]_(Command!vars)
  <1> USE DEF HelpInv, TypeOK
  <1>1. CASE Extract
    BY <1>1 DEF Extract, Command!Next, Command!Start
  <1>2. CASE SpawnThrows
    BY <1>2 DEF SpawnThrows, Command!Next, Command!Refuse
  <1>3. ASSUME Timeout PROVE Command!Next
    <2>1. promise = "pending" /\ child = "running"
      BY <1>3 DEF Timeout
    <2>2. CASE timers' = ForceTimer /\ promise' = "rejected" /\ UNCHANGED child
      BY <1>3, <2>1, <2>2 DEF Timeout, ForceTimer, Command!Next, Command!Abandon
    <2>3. CASE Closed(exit', ArmedBefore)
      BY <1>3, <2>1, <2>3 DEF Timeout, Closed, ArmedBefore, Command!Next, Command!End
    <2> QED
      BY <1>3, <2>1, <2>2, <2>3 DEF Timeout
  <1>4. CASE ForceKill
    BY <1>4 DEF ForceKill, Command!Next, Command!Force
  <1>5. CASE Close
    BY <1>5 DEF Close, Closed, Command!Next, Command!End
  <1>6. CASE SpawnError
    BY <1>6 DEF SpawnError, Command!Next, Command!End
  <1>7. ASSUME UNCHANGED commandVars PROVE UNCHANGED Command!vars
    BY <1>7 DEF commandVars, Command!vars
  <1>8. CASE (\E s \in Stream : Write(s) \/ Data(s)) \/ Exit \/ UNCHANGED vars
    BY <1>7, <1>8 DEF Write, Data, Exit, vars
  <1> QED
    BY <1>1, <1>2, <1>3, <1>4, <1>5, <1>6, <1>8 DEF Next, vars

\* Every run of extractHelp is a run of a spawned command.
THEOREM HelpImplementsCommand == Spec => ImplementsCommand
  <1>1. Init => Command!Init
    BY DEF Init, Command!Init
  <1> QED
    BY <1>1, HelpInvAlways, StepIsACommandStep, PTL DEF Spec, Command!Spec, ImplementsCommand
=============================================================================
