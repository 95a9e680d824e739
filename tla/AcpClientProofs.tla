---------------------------- MODULE AcpClientProofs ----------------------------
(* What holds of StdioConnection, and of AcpClient above it, for any number   *)
(* of children, of calls and of suspended connects.  The first half is about  *)
(* the transport alone: its steps, its specification and its invariants.      *)
EXTENDS AcpClient, SequenceTheorems, TLAPS

\* Names of single expressions, expanded everywhere.
USE DEF StopUnusable, ArmTimer, KillCaptured, DropCaptured, DropClosed, ExitStatus

-----------------------------------------------------------------------------
(* The stack of suspended methods                                            *)

\* Suspending a method puts its frame on top and leaves the others.
LEMMA PushFrames ==
    ASSUME frames \in Seq(Frame), NEW f \in Frame, Push(f)
    PROVE  /\ frames' \in Seq(Frame)
           /\ Len(frames') = Len(frames) + 1
           /\ \A i \in 1..Len(frames) : frames'[i] = frames[i]
           /\ frames'[Len(frames) + 1] = f
  BY AppendProperties DEF Push

\* The method on top resumes and the ones below stay suspended as they were.
LEMMA PopFrames ==
    ASSUME frames \in Seq(Frame), frames # <<>>, Pop
    PROVE  /\ frames' \in Seq(Frame)
           /\ Len(frames') = Len(frames) - 1
           /\ \A i \in 1..Len(frames') : i \in 1..Len(frames) /\ frames'[i] = frames[i]
           /\ Len(frames) \in 1..Len(frames)
           /\ Top \in Frame
  <1>1. Len(frames) \in Nat /\ Len(frames) # 0
    BY EmptySeq
  <1>2. /\ Len(frames) \in 1..Len(frames)
        /\ Top \in Frame
    BY <1>1, ElementOfSeq DEF Top
  <1>3. /\ frames' \in Seq(Frame)
        /\ Len(frames') = Len(frames) - 1
        /\ \A i \in 1..Len(frames') : frames'[i] = frames[i]
    <2> DEFINE n == Len(frames) - 1
    <2>1. n \in Nat /\ frames' = SubSeq(frames, 1, n)
      BY <1>1 DEF Pop
    <2>2. \A i \in 1..n : frames[i] \in Frame
      BY <1>1, ElementOfSeq
    <2> HIDE DEF n
    <2>3. /\ SubSeq(frames, 1, n) \in Seq(Frame)
          /\ Len(SubSeq(frames, 1, n)) = IF 1 <= n THEN n - 1 + 1 ELSE 0
          /\ \A i \in 1..(n - 1 + 1) : SubSeq(frames, 1, n)[i] = frames[1 + i - 1]
      BY <2>1, <2>2, SubSeqProperties
    <2>4. /\ frames' \in Seq(Frame)
          /\ Len(frames') = n
          /\ \A i \in 1..n : frames'[i] = frames[i]
      BY <2>1, <2>3
    <2> QED
      BY <2>4 DEF n
  <1> QED
    BY <1>1, <1>2, <1>3

-----------------------------------------------------------------------------
(* Types                                                                     *)

LEMMA TypeInit == Init => TypeOK
  BY NoneAssumption DEF Init, TypeOK, Status

\* Each step preserves the types of all variables.
LEMMA TypeNext == TypeOK /\ [Next]_vars => TypeOK'
  <1> SUFFICES ASSUME TypeOK, [Next]_vars PROVE TypeOK'
    OBVIOUS
  <1> USE DEF TypeOK, Status, Signal, procVars, callVars
  <1>1. CASE ConnectBegin
    <2> DEFINE f == [at |-> "connecting", child |-> None, mine |-> FALSE, failed |-> FALSE]
    <2>1. frames' \in Seq(Frame)
      <3>1. f \in Frame /\ Push(f)
        BY <1>1 DEF ConnectBegin, Frame
      <3> QED
        BY <3>1, PushFrames
    <2>2. intentional' \in [Child -> BOOLEAN] /\ signals' \in [Child -> SUBSET Signal]
      <3>1. CASE current = None
        BY <1>1, <3>1 DEF ConnectBegin
      <3>2. CASE current # None
        <4>1. /\ intentional' = [intentional EXCEPT ![current] = TRUE]
              /\ signals' = [signals EXCEPT ![current] = @ \cup {"TERM"}]
              /\ current \in Child
          BY <1>1, <3>2 DEF ConnectBegin, Kill
        <4> QED
          BY <4>1
      <3> QED
        BY <3>1, <3>2
    <2> QED
      BY <1>1, <2>1, <2>2 DEF ConnectBegin
  <1>2. CASE ConnectFinish
    <2>1. frames' \in Seq(Frame)
      BY <1>2, PopFrames DEF ConnectFinish, ConnectSpawn, ConnectSetupThrows,
                             ConnectSpawnThrows, Connecting
    <2>2. ASSUME NEW c \in Child, ConnectSpawn(c) PROVE TypeOK'
      BY <2>1, <2>2 DEF ConnectSpawn
    <2>3. ASSUME NEW c \in Child, ConnectSetupThrows(c) PROVE TypeOK'
      BY <2>1, <2>3 DEF ConnectSetupThrows, Kill
    <2>4. CASE ConnectSpawnThrows
      BY <2>1, <2>4 DEF ConnectSpawnThrows
    <2> QED
      BY <1>2, <2>2, <2>3, <2>4 DEF ConnectFinish
  <1>3. CASE CloseFinish
    <2>1. frames' \in Seq(Frame)
      BY <1>3, PopFrames DEF CloseFinish
    <2> QED
      BY <1>3, <2>1 DEF CloseFinish, Pending
  <1>4. CASE DisconnectIdle
    BY <1>4 DEF DisconnectIdle
  <1>5. ASSUME NEW k \in Call, DisconnectBegin(k) PROVE TypeOK'
    BY <1>5 DEF DisconnectBegin, Kill
  <1>6. ASSUME NEW k \in Call, ForceKill(k) PROVE TypeOK'
    BY <1>6 DEF ForceKill, Kill, Pending
  <1>7. ASSUME NEW k \in Call, DisconnectResume(k) PROVE TypeOK'
    BY <1>7 DEF DisconnectResume
  <1>8. ASSUME NEW c \in Child, ChildError(c) PROVE TypeOK'
    BY <1>8 DEF ChildError
  <1>9. ASSUME NEW c \in Child, CloseBegin(c) PROVE TypeOK'
    <2>1. PICK b \in BOOLEAN :
             Push([at |-> "exit", child |-> c, mine |-> current = c,
                   failed |-> b /\ ~intentional[c]])
      BY <1>9 DEF CloseBegin
    <2>2. [at |-> "exit", child |-> c, mine |-> current = c,
           failed |-> b /\ ~intentional[c]] \in Frame
      BY DEF Frame
    <2>3. frames' \in Seq(Frame)
      BY <2>1, <2>2, PushFrames
    <2> QED
      BY <1>9, <2>3 DEF CloseBegin
  <1>10. ASSUME NEW c \in Child, CloseUnbound(c) PROVE TypeOK'
    BY <1>10 DEF CloseUnbound
  <1>11. CASE UNCHANGED vars
    BY <1>11 DEF vars
  <1> QED
    BY <1>1, <1>2, <1>3, <1>4, <1>5, <1>6, <1>7, <1>8, <1>9, <1>10, <1>11
       DEF Next, ChildClosed

\* Every variable keeps its type, however calls, child events and timers
\* interleave.
THEOREM TypeCorrect == Spec => []TypeOK
  BY TypeInit, TypeNext, PTL DEF Spec

-----------------------------------------------------------------------------
(* The process a disconnect() waits for                                      *)

\* The session a disconnect() waits for was marked and asked to stop, and its
\* process runs until the close handler has begun; until that handler ends it
\* is suspended, and after it the call is resolved.  The timer is for the same
\* process.
WaitsForItsChild ==
    \A k \in Call :
        /\ timer[k] \in {None, waiting[k]}
        /\ waiting[k] # None =>
              /\ waiting[k] \in bound
              /\ intentional[waiting[k]]
              /\ "TERM" \in signals[waiting[k]]
              /\ \/ proc[waiting[k]] = "running"
                 \/ k \in resolved
                 \/ \E i \in 1..Len(frames) :
                       frames[i].at = "exit" /\ frames[i].child = waiting[k]

Inv == TypeOK /\ CurrentIsAlive /\ WaitsForItsChild

LEMMA InvInit == Init => Inv
  BY TypeInit, NoneAssumption DEF Init, Inv, CurrentIsAlive, WaitsForItsChild

\* The process of getStream() stays a running one with its handlers bound.
LEMMA CurrentNext == TypeOK /\ CurrentIsAlive /\ [Next]_vars => CurrentIsAlive'
  <1> SUFFICES ASSUME TypeOK, CurrentIsAlive, [Next]_vars PROVE CurrentIsAlive'
    OBVIOUS
  <1> USE DEF CurrentIsAlive, TypeOK, procVars
  <1>1. CASE ConnectBegin
    BY <1>1 DEF ConnectBegin
  <1>2. CASE ConnectFinish
    BY <1>2 DEF ConnectFinish, ConnectSpawn, ConnectSetupThrows, ConnectSpawnThrows
  <1>3. CASE CloseFinish
    BY <1>3 DEF CloseFinish
  <1>4. CASE DisconnectIdle
    BY <1>4 DEF DisconnectIdle
  <1>5. ASSUME NEW k \in Call, DisconnectBegin(k) \/ ForceKill(k) \/ DisconnectResume(k)
        PROVE  CurrentIsAlive'
    BY <1>5 DEF DisconnectBegin, ForceKill, DisconnectResume
  <1>6. ASSUME NEW c \in Child, ChildError(c) \/ CloseBegin(c) \/ CloseUnbound(c)
        PROVE  CurrentIsAlive'
    BY <1>6 DEF ChildError, CloseBegin, CloseUnbound
  <1>7. CASE UNCHANGED vars
    BY <1>7 DEF vars
  <1> QED
    BY <1>1, <1>2, <1>3, <1>4, <1>5, <1>6, <1>7 DEF Next, ChildClosed

\* A step that changes no call and lets every process run, the marks and the
\* signals at least as they were, and the suspended close handlers on the
\* stack, keeps what a disconnect() waits for.
LEMMA WaitsKept ==
    ASSUME TypeOK, WaitsForItsChild, waiting' = waiting, timer' = timer,
           resolved \subseteq resolved', bound \subseteq bound',
           \A c \in Child : /\ intentional[c] => intentional'[c]
                            /\ signals[c] \subseteq signals'[c]
                            /\ proc[c] = "running" => proc'[c] = "running",
           \A i \in 1..Len(frames) : frames[i].at = "exit" =>
               \E j \in 1..Len(frames') : /\ frames'[j].at = "exit"
                                         /\ frames'[j].child = frames[i].child
    PROVE  WaitsForItsChild'
  <1> SUFFICES ASSUME NEW k \in Call, waiting[k] # None
               PROVE  /\ waiting[k] \in bound'
                      /\ intentional'[waiting[k]]
                      /\ "TERM" \in signals'[waiting[k]]
                      /\ \/ proc'[waiting[k]] = "running"
                         \/ k \in resolved'
                         \/ \E j \in 1..Len(frames') :
                               frames'[j].at = "exit" /\ frames'[j].child = waiting[k]
    BY DEF WaitsForItsChild
  <1>1. waiting[k] \in Child
    BY DEF TypeOK
  <1> QED
    BY <1>1 DEF WaitsForItsChild

\* What a disconnect() waits for is kept by every step.
LEMMA WaitsNext == Inv /\ [Next]_vars => WaitsForItsChild'
  <1> SUFFICES ASSUME Inv, [Next]_vars PROVE WaitsForItsChild'
    OBVIOUS
  <1> USE DEF Inv, procVars, callVars
  <1>1. CASE ConnectBegin
    <2>1. PICK f \in Frame : Push(f)
      BY <1>1 DEF ConnectBegin, Frame
    <2>2. \A i \in 1..Len(frames) : i \in 1..Len(frames') /\ frames'[i] = frames[i]
      BY <2>1, PushFrames DEF TypeOK
    <2>3. \A c \in Child : /\ intentional[c] => intentional'[c]
                           /\ signals[c] \subseteq signals'[c]
      BY <1>1 DEF ConnectBegin, Kill, TypeOK
    <2> QED
      BY <1>1, <2>2, <2>3, WaitsKept DEF ConnectBegin
  <1>2. CASE ConnectFinish
    <2>1. frames # <<>> /\ Pop /\ Top.at = "connecting"
      BY <1>2 DEF ConnectFinish, ConnectSpawn, ConnectSetupThrows, ConnectSpawnThrows,
                  Connecting
    <2>2. \A i \in 1..Len(frames) :
             frames[i].at = "exit" => i \in 1..Len(frames') /\ frames'[i] = frames[i]
      BY <2>1, PopFrames DEF TypeOK, Top
    <2>3. /\ UNCHANGED <<waiting, timer, resolved, intentional>>
          /\ bound \subseteq bound'
          /\ \A c \in Child : /\ signals[c] \subseteq signals'[c]
                              /\ proc[c] = "running" => proc'[c] = "running"
      BY <1>2 DEF ConnectFinish, ConnectSpawn, ConnectSetupThrows, ConnectSpawnThrows,
                  Kill, TypeOK
    <2> QED
      BY <2>2, <2>3, WaitsKept
  <1>3. CASE CloseFinish
    <2>1. \A i \in 1..Len(frames) : i = Len(frames) \/
             (i \in 1..Len(frames') /\ frames'[i] = frames[i])
      BY <1>3, PopFrames DEF CloseFinish, TypeOK
    <2> SUFFICES ASSUME NEW k \in Call
                 PROVE  /\ timer[k] \in {None, waiting[k]}
                        /\ waiting[k] # None =>
                              /\ waiting[k] \in bound
                              /\ intentional[waiting[k]]
                              /\ "TERM" \in signals[waiting[k]]
                              /\ \/ proc[waiting[k]] = "running"
                                 \/ k \in resolved'
                                 \/ \E i \in 1..Len(frames') :
                                       /\ frames'[i].at = "exit"
                                       /\ frames'[i].child = waiting[k]
      BY <1>3 DEF CloseFinish, WaitsForItsChild
    <2>2. CASE \E i \in 1..Len(frames) :
                 i # Len(frames) /\ frames[i].at = "exit" /\ frames[i].child = waiting[k]
      BY <2>1, <2>2 DEF WaitsForItsChild
    <2>3. CASE waiting[k] # None /\ Top.child = waiting[k]
      BY <1>3, <2>3 DEF CloseFinish, Pending, WaitsForItsChild
    <2>4. CASE waiting[k] = None \/ proc[waiting[k]] = "running" \/ k \in resolved
      BY <1>3, <2>4 DEF CloseFinish, WaitsForItsChild
    <2> QED
      BY <2>2, <2>3, <2>4 DEF WaitsForItsChild, Top
  <1>4. CASE DisconnectIdle
    BY <1>4, WaitsKept DEF DisconnectIdle
  <1>5. ASSUME NEW k \in Call, DisconnectBegin(k) PROVE WaitsForItsChild'
    <2>1. current \in bound /\ current \in Child /\ proc[current] = "running"
      BY <1>5 DEF DisconnectBegin, TypeOK, CurrentIsAlive
    <2>2. /\ intentional'[current] /\ "TERM" \in signals'[current]
          /\ \A c \in Child : /\ intentional[c] => intentional'[c]
                              /\ signals[c] \subseteq signals'[c]
      BY <1>5, <2>1 DEF DisconnectBegin, Kill, TypeOK
    <2>3. /\ UNCHANGED <<bound, proc, resolved, frames>>
          /\ waiting' = [waiting EXCEPT ![k] = current]
          /\ timer' = [timer EXCEPT ![k] = current]
      BY <1>5 DEF DisconnectBegin
    <2> SUFFICES ASSUME NEW m \in Call
                 PROVE  WaitsForItsChild!(m)'
      BY DEF WaitsForItsChild
    <2>4. CASE m = k
      BY <2>1, <2>2, <2>3, <2>4 DEF TypeOK
    <2>5. CASE m # k
      <3>1. waiting'[m] = waiting[m] /\ timer'[m] = timer[m]
        BY <2>3, <2>5 DEF TypeOK
      <3>2. waiting[m] \in Child \cup {None}
        BY DEF TypeOK
      <3> QED
        BY <2>2, <2>3, <3>1, <3>2 DEF WaitsForItsChild
    <2> QED
      BY <2>4, <2>5
  <1>6. ASSUME NEW k \in Call, ForceKill(k) PROVE WaitsForItsChild'
    <2>1. \A c \in Child : signals[c] \subseteq signals'[c]
      BY <1>6 DEF ForceKill, Kill, TypeOK
    <2>2. \A m \in Call : timer'[m] \in {None, timer[m]}
      BY <1>6 DEF ForceKill, TypeOK
    <2>3. UNCHANGED <<waiting, intentional, bound, proc, frames>> /\ resolved \subseteq resolved'
      BY <1>6 DEF ForceKill
    <2> QED
      BY <2>1, <2>2, <2>3 DEF WaitsForItsChild, TypeOK
  <1>7. ASSUME NEW k \in Call, DisconnectResume(k) PROVE WaitsForItsChild'
    <2>1. \A m \in Call : /\ m = k => waiting'[m] = None /\ timer'[m] = None
                          /\ m # k => /\ waiting'[m] = waiting[m]
                                      /\ timer'[m] = timer[m]
                                      /\ m \in resolved => m \in resolved'
      BY <1>7 DEF DisconnectResume, TypeOK
    <2>2. UNCHANGED <<intentional, bound, signals, proc, frames>>
      BY <1>7 DEF DisconnectResume
    <2> QED
      BY <2>1, <2>2 DEF WaitsForItsChild
  <1>8. ASSUME NEW c \in Child, ChildError(c) PROVE WaitsForItsChild'
    BY <1>8, WaitsKept DEF ChildError
  <1>9. ASSUME NEW c \in Child, CloseBegin(c) PROVE WaitsForItsChild'
    <2>1. PICK f \in Frame : Push(f) /\ f.at = "exit" /\ f.child = c
      <3>1. PICK b \in BOOLEAN :
               Push([at |-> "exit", child |-> c, mine |-> current = c,
                     failed |-> b /\ ~intentional[c]])
        BY <1>9 DEF CloseBegin
      <3>2. [at |-> "exit", child |-> c, mine |-> current = c,
             failed |-> b /\ ~intentional[c]] \in Frame
        BY DEF Frame
      <3> QED
        BY <3>1, <3>2
    <2>2. /\ \A i \in 1..Len(frames) : i \in 1..Len(frames') /\ frames'[i] = frames[i]
          /\ \E i \in 1..Len(frames') : frames'[i].at = "exit" /\ frames'[i].child = c
      <3>1. /\ frames' \in Seq(Frame) /\ Len(frames) \in Nat
            /\ Len(frames') = Len(frames) + 1
            /\ \A i \in 1..Len(frames) : frames'[i] = frames[i]
            /\ frames'[Len(frames) + 1] = f
        BY <2>1, PushFrames DEF TypeOK
      <3>2. Len(frames) + 1 \in 1..Len(frames')
        BY <3>1
      <3> QED
        BY <2>1, <3>1, <3>2
    <2>3. \A d \in Child : d # c => proc'[d] = proc[d]
      BY <1>9 DEF CloseBegin, TypeOK
    <2>4. UNCHANGED <<waiting, timer, resolved, intentional, bound, signals>>
      BY <1>9 DEF CloseBegin
    <2> SUFFICES ASSUME NEW k \in Call
                 PROVE  WaitsForItsChild!(k)'
      BY DEF WaitsForItsChild
    <2>5. CASE waiting[k] = c
      BY <2>2, <2>4, <2>5 DEF WaitsForItsChild
    <2>6. CASE waiting[k] # c
      <3>1. waiting[k] \in Child \cup {None}
        BY DEF TypeOK
      <3> QED
        BY <2>2, <2>3, <2>4, <2>6, <3>1 DEF WaitsForItsChild
    <2> QED
      BY <2>5, <2>6
  <1>10. ASSUME NEW c \in Child, CloseUnbound(c) PROVE WaitsForItsChild'
    <2>1. /\ c \notin bound
          /\ \A d \in Child : d # c => proc'[d] = proc[d]
          /\ UNCHANGED <<waiting, timer, resolved, intentional, bound, signals, frames>>
      BY <1>10 DEF CloseUnbound, TypeOK
    <2> QED
      BY <2>1 DEF WaitsForItsChild, TypeOK
  <1>11. CASE UNCHANGED vars
    BY <1>11 DEF vars, WaitsForItsChild
  <1> QED
    BY <1>1, <1>2, <1>3, <1>4, <1>5, <1>6, <1>7, <1>8, <1>9, <1>10, <1>11
       DEF Next, ChildClosed

\* getStream() never returns the stream of a process that has closed, and the
\* process a disconnect() waits for is the one it captured and stopped.
THEOREM CurrentAlwaysAlive == Spec => []CurrentIsAlive
  <1>1. Inv /\ [Next]_vars => Inv'
    BY TypeNext, CurrentNext, WaitsNext DEF Inv
  <1>2. Inv => CurrentIsAlive
    BY DEF Inv
  <1> QED
    BY InvInit, <1>1, <1>2, PTL DEF Spec

\* A step that sends a signal sends it to a running process, and a SIGKILL to
\* one that a disconnect() had marked and asked to stop.
LEMMA SignalsNext ==
    ASSUME Inv, [Next]_vars, NEW c \in Child, NEW s \in signals'[c] \ signals[c]
    PROVE  /\ proc'[c] = "running"
           /\ s = "KILL" => intentional[c] /\ "TERM" \in signals[c]
  <1> USE DEF Inv, TypeOK, procVars, callVars
  <1>1. CASE ConnectBegin
    <2>1. current # None /\ Kill(current, "TERM") /\ UNCHANGED proc
      BY <1>1 DEF ConnectBegin
    <2> QED
      BY <2>1 DEF Kill, CurrentIsAlive
  <1>2. ASSUME NEW d \in Child, ConnectSetupThrows(d)
        PROVE  proc'[c] = "running" /\ s # "KILL"
    BY <1>2 DEF ConnectSetupThrows, Kill
  <1>3. ASSUME NEW k \in Call, DisconnectBegin(k)
        PROVE  proc'[c] = "running" /\ s # "KILL"
    BY <1>3 DEF DisconnectBegin, Kill, CurrentIsAlive
  <1>4. ASSUME NEW k \in Call, ForceKill(k)
        PROVE  proc'[c] = "running" /\ intentional[c] /\ "TERM" \in signals[c]
    <2>1. c = timer[k] /\ waiting[k] = timer[k] /\ waiting[k] # None
      BY <1>4 DEF ForceKill, Kill, WaitsForItsChild
    <2>2. Len(frames) = 0 /\ resolved = {} /\ UNCHANGED proc
      BY <1>4 DEF ForceKill, Quiet
    <2> QED
      BY <2>1, <2>2 DEF WaitsForItsChild
  <1>5. CASE UNCHANGED signals
    BY <1>5
  <1> QED
    BY <1>1, <1>2, <1>3, <1>4, <1>5
       DEF Next, ConnectFinish, ConnectSpawn, ConnectSpawnThrows, CloseFinish,
           DisconnectIdle, DisconnectResume, ChildError, ChildClosed, CloseBegin,
           CloseUnbound, vars

\* A signal only goes to a running process, and a SIGKILL never to one that
\* was not asked to stop.
THEOREM SignalsReach == Spec => SignalsReachTheirTarget
  <1>1. Inv /\ [Next]_vars => Inv'
    BY TypeNext, CurrentNext, WaitsNext DEF Inv
  <1>2. Inv /\ [Next]_vars =>
           [\A c \in Child : \A s \in signals'[c] \ signals[c] :
               /\ proc'[c] = "running"
               /\ s = "KILL" => intentional[c] /\ "TERM" \in signals[c]]_vars
    BY SignalsNext
  <1> QED
    BY InvInit, <1>1, <1>2, PTL DEF Spec, SignalsReachTheirTarget

-----------------------------------------------------------------------------
(* No process is lost, unless a listener of "connecting" calls back           *)

\* A method suspended in "connecting" is the innermost one, and the previous
\* child has been given up: no listener can have connected in the meantime.
ConnectingIsInnermost ==
    \A i \in 1..Len(frames) :
        frames[i].at = "connecting" => i = Len(frames) /\ current = None

OrphanInv == TypeOK /\ ConnectingIsInnermost /\ NoOrphan

LEMMA OrphanInit == Init => OrphanInv
  BY TypeInit DEF Init, OrphanInv, ConnectingIsInnermost, NoOrphan

\* While connect() is suspended nothing but its own continuation runs.
LEMMA InnermostNext ==
    ASSUME "connecting" \notin Reentrant
    PROVE  TypeOK /\ ConnectingIsInnermost /\ [Next]_vars => ConnectingIsInnermost'
  <1> SUFFICES ASSUME TypeOK, ConnectingIsInnermost, [Next]_vars
               PROVE  ConnectingIsInnermost'
    OBVIOUS
  <1> USE DEF ConnectingIsInnermost, procVars, callVars
  <1>a. Len(frames) \in Nat /\ (frames # <<>> => Len(frames) # 0)
    BY EmptySeq DEF TypeOK
  <1>b. Callable => \A i \in 1..Len(frames) : frames[i].at # "connecting"
    BY <1>a DEF Callable, Top
  <1>1. CASE ConnectBegin
    <2>1. PICK f \in Frame : Push(f)
      BY <1>1 DEF ConnectBegin, Frame
    <2>2. /\ Len(frames') = Len(frames) + 1
          /\ \A i \in 1..Len(frames) : frames'[i] = frames[i]
      BY <2>1, PushFrames DEF TypeOK
    <2> QED
      BY <1>1, <1>a, <1>b, <2>2 DEF ConnectBegin
  <1>2. CASE ConnectFinish \/ CloseFinish
    <2>1. frames # <<>> /\ Pop
      BY <1>2 DEF ConnectFinish, ConnectSpawn, ConnectSetupThrows, ConnectSpawnThrows,
                  Connecting, CloseFinish
    <2>2. /\ Len(frames') = Len(frames) - 1
          /\ \A i \in 1..Len(frames') : i \in 1..Len(frames) /\ frames'[i] = frames[i]
      BY <2>1, PopFrames DEF TypeOK
    <2> QED
      BY <1>a, <2>2
  <1>3. CASE DisconnectIdle
    BY <1>3, <1>b DEF DisconnectIdle
  <1>4. ASSUME NEW k \in Call, DisconnectBegin(k) \/ ForceKill(k)
        PROVE  ConnectingIsInnermost'
    BY <1>4 DEF DisconnectBegin, ForceKill
  <1>5. ASSUME NEW k \in Call, DisconnectResume(k) PROVE ConnectingIsInnermost'
    BY <1>5, <1>a DEF DisconnectResume
  <1>6. ASSUME NEW c \in Child, ChildError(c) \/ CloseUnbound(c)
        PROVE  ConnectingIsInnermost'
    BY <1>6 DEF ChildError, CloseUnbound
  <1>7. ASSUME NEW c \in Child, CloseBegin(c) PROVE ConnectingIsInnermost'
    <2>1. PICK b \in BOOLEAN :
             Push([at |-> "exit", child |-> c, mine |-> current = c,
                   failed |-> b /\ ~intentional[c]])
      BY <1>7 DEF CloseBegin
    <2>2. frames = <<>>
      BY <1>7 DEF CloseBegin, Quiet
    <2>3. Len(frames') = 1 /\ frames'[1].at = "exit"
      BY <2>1, <2>2 DEF Push
    <2> QED
      BY <2>3
  <1>8. CASE UNCHANGED vars
    BY <1>8 DEF vars
  <1> QED
    BY <1>1, <1>2, <1>3, <1>4, <1>5, <1>6, <1>7, <1>8 DEF Next, ChildClosed

\* A step that starts a process records it or stops it, and a step that drops
\* the current one has asked it to stop.
LEMMA OrphanNext == Inv /\ OrphanInv /\ [Next]_vars => NoOrphan'
  <1> SUFFICES ASSUME Inv, OrphanInv, [Next]_vars PROVE NoOrphan'
    OBVIOUS
  <1> USE DEF OrphanInv, NoOrphan, TypeOK, procVars, callVars
  <1>1. CASE ConnectBegin
    <2>1. UNCHANGED proc /\ current' = None
      BY <1>1 DEF ConnectBegin
    <2>2. \A c \in Child : /\ signals[c] \subseteq signals'[c]
                           /\ c = current => "TERM" \in signals'[c]
      BY <1>1, NoneAssumption DEF ConnectBegin, Kill
    <2> QED
      BY <2>1, <2>2
  <1>2. ASSUME NEW c \in Child, ConnectSpawn(c) PROVE NoOrphan'
    <2>1. current = None
      <3>1. Len(frames) \in 1..Len(frames)
        BY <1>2, PopFrames DEF ConnectSpawn, Connecting
      <3> QED
        BY <1>2, <3>1 DEF ConnectSpawn, Connecting, Top, ConnectingIsInnermost
    <2> QED
      BY <1>2, <2>1, NoneAssumption DEF ConnectSpawn
  <1>3. ASSUME NEW c \in Child, ConnectSetupThrows(c) PROVE NoOrphan'
    BY <1>3 DEF ConnectSetupThrows, Kill
  <1>4. CASE ConnectSpawnThrows \/ CloseFinish \/ DisconnectIdle
    BY <1>4 DEF ConnectSpawnThrows, CloseFinish, DisconnectIdle
  <1>5. ASSUME NEW k \in Call, DisconnectBegin(k) \/ ForceKill(k) PROVE NoOrphan'
    BY <1>5 DEF DisconnectBegin, ForceKill, Kill
  <1>6. ASSUME NEW k \in Call, DisconnectResume(k) PROVE NoOrphan'
    <2>2. current' = current \/ (current = waiting[k] /\ current' = None)
      BY <1>6 DEF DisconnectResume
    <2>3. waiting[k] # None => "TERM" \in signals[waiting[k]]
      BY DEF Inv, WaitsForItsChild
    <2>4. UNCHANGED <<proc, signals>>
      BY <1>6 DEF DisconnectResume
    <2> QED
      BY <2>2, <2>3, <2>4, NoneAssumption
  <1>7. ASSUME NEW c \in Child, ChildError(c) \/ CloseBegin(c) \/ CloseUnbound(c)
        PROVE  NoOrphan'
    BY <1>7 DEF ChildError, CloseBegin, CloseUnbound
  <1>8. CASE UNCHANGED vars
    BY <1>8 DEF vars
  <1> QED
    BY <1>1, <1>2, <1>3, <1>4, <1>5, <1>6, <1>7, <1>8 DEF Next, ConnectFinish, ChildClosed

\* Every running process is held by the connection or was asked to stop, as
\* long as no listener of "connecting" calls back into it.
THEOREM NothingOrphaned ==
    ASSUME "connecting" \notin Reentrant
    PROVE  Spec => []NoOrphan
  <1>1. Inv /\ [Next]_vars => Inv'
    BY TypeNext, CurrentNext, WaitsNext DEF Inv
  <1>2. Inv /\ OrphanInv /\ [Next]_vars => OrphanInv'
    BY TypeNext, InnermostNext, OrphanNext DEF OrphanInv, Inv
  <1>3. OrphanInv => NoOrphan
    BY DEF OrphanInv
  <1> QED
    BY InvInit, OrphanInit, <1>1, <1>2, <1>3, PTL DEF Spec

-----------------------------------------------------------------------------
(* The client                                                                *)

\* Nothing the client does takes the transport out of its own specification.
LEMMA ClientStepIsTransportStep == ClientNext => [Next]_vars
  <1> SUFFICES ASSUME ClientNext PROVE [Next]_vars
    OBVIOUS
  <1>1. CASE ClientConnect
    BY <1>1 DEF ClientConnect, Next
  <1>2. CASE AttachFails \/ Attach
    BY <1>2 DEF AttachFails, Attach, Next
  <1>3. CASE ClientDisconnect \/ Request
    BY <1>3 DEF ClientDisconnect, Request, Next
  <1>4. CASE TransportFinish \/ TransportClosed
    BY <1>4 DEF TransportFinish, TransportClosed, Next
  <1>5. CASE ChildEvent
    BY <1>5 DEF ChildEvent, Next, ChildClosed
  <1> QED
    BY <1>1, <1>2, <1>3, <1>4, <1>5 DEF ClientNext

\* The client's composition with the transport is the transport, seen from
\* below: what is proved of the transport holds of it under the client.
THEOREM ClientKeepsTransport == ClientSpec => Spec
  <1>1. ClientInit => Init
    BY DEF ClientInit
  <1>2. [ClientNext]_allVars => [Next]_vars
    BY ClientStepIsTransportStep DEF allVars
  <1> QED
    BY <1>1, <1>2, PTL DEF ClientSpec, Spec

------------------------------------------------------------------------------
(* The link *)

\* Only a connect() that has yet to resume can leave the link on another child
\* than the transport's, and it is there as long as its announcement runs.
LinkInv ==
    /\ attaching \in Nat
    /\ attached # None => attached \in bound /\ proc[attached] = "running"
    /\ attaching = 0 =>
          /\ attached \in {None, current}
          /\ \A i \in 1..Len(frames) : frames[i].at # "connecting"

ClientInv == TypeOK /\ CurrentIsAlive /\ LinkInv

LEMMA LinkInit == ClientInit => LinkInv
  BY EmptySeq DEF ClientInit, Init, LinkInv

\* No step ends a child but its close, and none takes its handlers away.
LEMMA OnlyACloseEnds ==
    ASSUME ClientInv, [Next]_vars, \A c \in Child : ~CloseBegin(c)
    PROVE  \A c \in bound : proc[c] = "running" => c \in bound' /\ proc'[c] = "running"
  <1> USE DEF ClientInv, TypeOK, procVars
  <1>1. ASSUME NEW c \in Child, ConnectSpawn(c) \/ ConnectSetupThrows(c)
        PROVE  bound \subseteq bound' /\ proc' = [proc EXCEPT ![c] = "running"]
    BY <1>1 DEF ConnectSpawn, ConnectSetupThrows
  <1>2. ASSUME NEW c \in Child, CloseUnbound(c)
        PROVE  bound' = bound /\ c \notin bound /\ proc' = [proc EXCEPT ![c] = "closed"]
    BY <1>2 DEF CloseUnbound
  <1>3. CASE ConnectBegin \/ ConnectSpawnThrows \/ CloseFinish \/ DisconnectIdle \/ UNCHANGED vars
    BY <1>3 DEF ConnectBegin, ConnectSpawnThrows, CloseFinish, DisconnectIdle, vars
  <1>4. ASSUME NEW k \in Call, DisconnectBegin(k) \/ ForceKill(k) \/ DisconnectResume(k)
        PROVE  UNCHANGED <<bound, proc>>
    BY <1>4 DEF DisconnectBegin, ForceKill, DisconnectResume
  <1>5. ASSUME NEW c \in Child, ChildError(c) PROVE UNCHANGED <<bound, proc>>
    BY <1>5 DEF ChildError
  <1> QED
    BY <1>1, <1>2, <1>3, <1>4, <1>5 DEF Next, ConnectFinish, ChildClosed

\* A step that leaves attaching at zero suspends no connect() and resumes none.
LEMMA OnlyConnectAnnounces ==
    ASSUME ClientInv, [ClientNext]_allVars, attaching' = 0, attaching = 0
    PROVE  /\ ~ConnectFinish /\ ~ClientConnect
           /\ \A i \in 1..Len(frames') : frames'[i].at # "connecting"
  <1> USE DEF ClientInv, TypeOK
  <1>1. ~Connecting
    <2>1. SUFFICES ASSUME frames # <<>> PROVE Top.at # "connecting"
      BY DEF Connecting
    <2>2. Len(frames) \in 1..Len(frames)
      BY <2>1, EmptySeq
    <2> QED
      BY <2>2 DEF LinkInv, Top
  <1>2. ~ConnectFinish
    BY <1>1 DEF ConnectFinish, ConnectSpawn, ConnectSetupThrows, ConnectSpawnThrows
  <1>3. ~ClientConnect /\ ~Resuming
    BY DEF ClientConnect, Resuming
  <1> DEFINE NoneConnecting == \A i \in 1..Len(frames') : frames'[i].at # "connecting"
  <1>4. ASSUME UNCHANGED frames PROVE NoneConnecting
    BY <1>4 DEF LinkInv
  <1>5. ASSUME CloseFinish PROVE NoneConnecting
    BY <1>5, PopFrames DEF CloseFinish, LinkInv
  <1>6. ASSUME NEW c \in Child, CloseBegin(c) PROVE NoneConnecting
    <2>1. PICK b \in BOOLEAN :
             Push([at |-> "exit", child |-> c, mine |-> current = c,
                   failed |-> b /\ ~intentional[c]])
      BY <1>6 DEF CloseBegin
    <2> DEFINE f == [at |-> "exit", child |-> c, mine |-> current = c,
                     failed |-> b /\ ~intentional[c]]
    <2>2. f \in Frame /\ f.at # "connecting"
      BY DEF Frame
    <2> HIDE DEF f
    <2>3. /\ Len(frames') = Len(frames) + 1
          /\ \A i \in 1..Len(frames) : frames'[i] = frames[i]
          /\ frames'[Len(frames) + 1] = f
      BY <2>1, <2>2, PushFrames DEF f
    <2>4. Len(frames) \in Nat
      OBVIOUS
    <2> QED
      BY <2>2, <2>3, <2>4 DEF LinkInv
  <1>7. ASSUME ClientNext, ~CloseFinish, \A c \in Child : ~CloseBegin(c)
        PROVE  UNCHANGED frames
    <2>1. CASE ClientDisconnect
      BY <2>1 DEF ClientDisconnect, DisconnectIdle, DisconnectBegin
    <2>2. CASE Request
      BY <2>2 DEF Request, vars
    <2>3. CASE TransportFinish
      BY <2>3, <1>2 DEF TransportFinish, DisconnectResume
    <2>4. CASE ChildEvent
      BY <2>4, <1>7 DEF ChildEvent, ChildError, CloseUnbound, ForceKill
    <2> QED
      BY <1>3, <1>7, <2>1, <2>2, <2>3, <2>4 DEF ClientNext, AttachFails, Attach, TransportClosed
  <1>8. UNCHANGED allVars => UNCHANGED frames
    BY DEF allVars, vars
  <1> QED
    BY <1>2, <1>3, <1>4, <1>5, <1>6, <1>7, <1>8
LEMMA LinkNext ==
    ASSUME ClientInv, [ClientNext]_allVars, TypeOK', CurrentIsAlive'
    PROVE  LinkInv'
  <1>1. [Next]_vars
    BY ClientStepIsTransportStep DEF allVars
  <1> DEFINE Linked == attached' # None => attached' \in bound' /\ proc'[attached'] = "running"
             NoneConnecting == \A i \in 1..Len(frames') : frames'[i].at # "connecting"
  <1>2. ASSUME \A c \in Child : ~CloseBegin(c), attached' \in {None, attached} PROVE Linked
    BY <1>1, <1>2, OnlyACloseEnds DEF ClientInv, LinkInv
  <1>3. ASSUME attached' \in {None, current'} PROVE Linked
    BY <1>3 DEF CurrentIsAlive
  <1>4. ASSUME UNCHANGED attaching, Linked, attaching = 0 => attached' \in {None, current'}
        PROVE  LinkInv'
    BY <1>4, OnlyConnectAnnounces DEF ClientInv, LinkInv
  <1>5. CASE ClientConnect
    <2>1. \A c \in Child : ~CloseBegin(c)
      BY <1>5 DEF ClientConnect, ConnectBegin, CloseBegin, ClientInv, TypeOK, vars
    <2> QED
      BY <1>2, <1>5, <2>1 DEF ClientConnect, ClientInv, LinkInv
  <1>6. CASE AttachFails \/ Attach
    <2>1. /\ attaching' = attaching - 1 /\ attaching > 0
          /\ frames' = <<>>
          /\ attached' \in {None, current'}
      BY <1>6 DEF AttachFails, Attach, Resuming, DisconnectIdle, vars
    <2>2. NoneConnecting
      BY <2>1, EmptySeq
    <2> QED
      BY <1>3, <2>1, <2>2 DEF ClientInv, LinkInv
  <1>7. CASE ClientDisconnect
    <2>1. attached' = None /\ UNCHANGED attaching
      BY <1>7 DEF ClientDisconnect
    <2> QED
      BY <1>3, <1>4, <2>1
  <1>8. CASE Request \/ UNCHANGED allVars
    <2>1. UNCHANGED <<attached, attaching, current, bound, proc>>
      BY <1>8 DEF Request, allVars, clientVars, vars
    <2> QED
      BY <1>4, <2>1 DEF ClientInv, LinkInv
  <1>9. CASE TransportFinish
    <2>1. UNCHANGED attaching /\ attached' \in {None, attached}
      BY <1>9 DEF TransportFinish, Announced, OnState
    <2>2. \A c \in Child : ~CloseBegin(c)
      BY <1>9 DEF TransportFinish, ConnectFinish, ConnectSpawn, ConnectSetupThrows,
                  ConnectSpawnThrows, DisconnectResume, CloseBegin, Quiet, Connecting
    <2>3. ASSUME NEW k \in Call, DisconnectResume(k), Announced PROVE attached' = None
      BY <2>3 DEF DisconnectResume, Announced, OnState, Dropping
    <2>4. attaching = 0 => attached' = None
      BY <1>9, <2>1, <2>3, OnlyConnectAnnounces DEF TransportFinish
    <2> QED
      BY <1>2, <1>4, <2>1, <2>2, <2>4
  <1>10. CASE TransportClosed
    <2>1. UNCHANGED <<attaching, current>> /\ attached' \in {None, attached}
      BY <1>10 DEF TransportClosed, CloseFinish, Announced, Ignored, OnState
    <2>2. \A c \in Child : ~CloseBegin(c)
      BY <1>10 DEF TransportClosed, CloseFinish, CloseBegin, Quiet
    <2> QED
      BY <1>2, <1>4, <2>1, <2>2 DEF ClientInv, LinkInv
  <1>11. ASSUME NEW c \in Child, CloseBegin(c), OnExit, UNCHANGED attaching PROVE LinkInv'
    BY <1>3, <1>4, <1>11 DEF OnExit
  <1>12. ASSUME NEW c \in Child, ChildError(c) \/ CloseUnbound(c),
                UNCHANGED attaching, attached' \in {None, attached}
         PROVE  LinkInv'
    <2>1. \A d \in Child : ~CloseBegin(d)
      BY <1>12 DEF ChildError, CloseUnbound, CloseBegin, procVars, ClientInv, TypeOK
    <2>2. UNCHANGED current
      BY <1>12 DEF ChildError, CloseUnbound
    <2> QED
      BY <1>2, <1>4, <1>12, <2>1, <2>2 DEF ClientInv, LinkInv
  <1>13. ASSUME NEW k \in Call, ForceKill(k), UNCHANGED <<attached, attaching>> PROVE LinkInv'
    <2>1. UNCHANGED <<current, bound, proc>>
      BY <1>13 DEF ForceKill
    <2> QED
      BY <1>4, <1>13, <2>1 DEF ClientInv, LinkInv
  <1>14. CASE ChildEvent
    BY <1>11, <1>12, <1>13, <1>14 DEF ChildEvent, Announced, Ignored, OnState
  <1> QED
    BY <1>5, <1>6, <1>7, <1>8, <1>9, <1>10, <1>14 DEF ClientNext

LEMMA ClientInvAlways == ClientSpec => []ClientInv
  <1>1. ClientSpec => [](TypeOK /\ CurrentIsAlive)
    BY ClientKeepsTransport, TypeCorrect, CurrentAlwaysAlive, PTL
  <1>2. ClientInv /\ [ClientNext]_allVars /\ TypeOK' /\ CurrentIsAlive' => LinkInv'
    BY LinkNext
  <1> QED
    BY <1>1, <1>2, LinkInit, PTL DEF ClientSpec, ClientInv

\* A request is never written to a process that has closed, and only to the
\* process the transport holds when no connect() has yet to resume.
THEOREM RequestsReach == ClientSpec => []RequestsReachALiveChild
  <1>1. ClientInit => RequestsReachALiveChild
    BY DEF ClientInit, RequestsReachALiveChild
  <1>2. ASSUME ClientInv, [ClientNext]_allVars, RequestsReachALiveChild
        PROVE  RequestsReachALiveChild'
    <2>1. CASE Request
      BY <1>2, <2>1 DEF Request, vars, ClientInv, LinkInv, RequestsReachALiveChild
    <2>2. CASE UNCHANGED allVars
      BY <1>2, <2>2 DEF allVars, vars, clientVars, RequestsReachALiveChild
    <2>3. CASE ClientNext /\ ~Request
      <3>1. written' = None
        BY <2>3 DEF ClientNext, ClientConnect, AttachFails, Attach, ClientDisconnect,
                    TransportFinish, TransportClosed, ChildEvent, Announced, Ignored, Calls,
                    Turns, NoRequest
      <3> QED
        BY <3>1 DEF RequestsReachALiveChild
    <2> QED
      BY <1>2, <2>1, <2>2, <2>3
  <1> QED
    BY <1>1, <1>2, ClientInvAlways, PTL DEF ClientSpec
------------------------------------------------------------------------------
(* While no two calls overlap                                                 *)

\* A stream has a reader only if its child was spawned, and at most one.
Read == \A c \in Child : readers[c] \in {0, 1} /\ (readers[c] > 0 => proc[c] # "unborn")

\* The link to the current stream is up, or the current stream is still unread.
LinkedOrUnread == current # None /\ (attached = current \/ readers[current] = 0)

\* One method at a time is suspended; a connect() and a disconnect() are never
\* in progress together.
OneAtATime ==
    /\ Len(frames) <= 1
    /\ attaching > 0 => Pending = {}
    /\ frames # <<>> => (Top.at = "connecting" <=> attaching > 0)

\* What the status says of the child and of the link, between two calls, while
\* a connect() has yet to resume, and inside either announcement.
StatusTells ==
    /\ frames = <<>> =>
          /\ status # "connecting"
          /\ Pending = {} /\ status = "disconnected" => current = None
          /\ Pending = {} /\ status = "connected" => LinkedOrUnread
          /\ attaching = 0 /\ Pending = {} /\ status = "connected" => attached = current
          /\ attaching > 0 /\ status # "connected" => current = None
    /\ frames # <<>> /\ attaching > 0 => status = "connecting" /\ current = None
    /\ frames # <<>> /\ attaching = 0 =>
          /\ status # "connecting"
          /\ Top.mine => current = None
          /\ ~Top.mine /\ Pending = {} /\ status = "connected" =>
                current # None /\ attached = current
          /\ ~Top.mine /\ Pending = {} /\ status = "disconnected" => current = None
    /\ \A k \in Pending : current \in {None, waiting[k]}

Sequence == Read /\ OneAtATime /\ StatusTells

SequenceInv ==
    /\ resolved \subseteq Pending
    /\ overlapped \in BOOLEAN
    /\ readers \in [Child -> Nat]
    /\ ~overlapped => Sequence

LEMMA SequenceInit == ClientInit => SequenceInv
  <1> SUFFICES ASSUME ClientInit PROVE SequenceInv
    OBVIOUS
  <1>1. Pending = {} /\ frames = <<>> /\ Len(frames) = 0
    BY EmptySeq DEF ClientInit, Init, Pending
  <1>2. Read /\ OneAtATime
    BY <1>1 DEF ClientInit, Read, OneAtATime
  <1>3. StatusTells
    BY <1>1 DEF ClientInit, Init, StatusTells
  <1>4. resolved = {} /\ overlapped = FALSE /\ readers \in [Child -> Nat]
    BY DEF ClientInit, Init
  <1> QED
    BY <1>1, <1>2, <1>3, <1>4 DEF SequenceInv, Sequence

\* The only suspended method resumes, or one is suspended where none was.
LEMMA PopsLast ==
    ASSUME frames \in Seq(Frame), frames # <<>>, Len(frames) <= 1, Pop
    PROVE  frames' = <<>>
  BY PopFrames, EmptySeq

LEMMA PushesFirst ==
    ASSUME frames = <<>>, NEW f \in Frame, Push(f)
    PROVE  frames' # <<>> /\ Len(frames') = 1 /\ Top' = f
  <1>1. frames \in Seq(Frame) /\ Len(frames) = 0
    BY EmptySeq
  <1>2. Len(frames') = 1 /\ frames'[1] = f /\ frames' \in Seq(Frame)
    BY <1>1, PushFrames
  <1> QED
    BY <1>2, EmptySeq DEF Top

\* A call is not counted as overlapping only if it was the first to be made.
LEMMA CallsFirst ==
    ASSUME NEW busy \in BOOLEAN, Calls(busy), ~overlapped'
    PROVE  ~overlapped /\ ~busy /\ frames = <<>>
  BY DEF Calls

Ready == TypeOK /\ CurrentIsAlive /\ SequenceInv /\ attaching \in Nat

\* A call that leaves overlapped false was made while nothing was suspended.
LEMMA ConnectKeepsSequence ==
    ASSUME Ready, ClientConnect, ~overlapped'
    PROVE  Sequence'
  <1> USE DEF Ready, TypeOK, SequenceInv, Sequence
  <1>1. /\ ~overlapped /\ Pending = {} /\ frames = <<>>
        /\ attaching' = attaching + 1 /\ attaching' > 0
        /\ UNCHANGED <<attached, readers>>
    <2>1. Calls(Pending # {}) /\ attaching' = attaching + 1 /\ UNCHANGED <<attached, readers>>
      BY DEF ClientConnect
    <2>2. ~overlapped /\ ~(Pending # {}) /\ frames = <<>>
      BY <2>1, CallsFirst
    <2> QED
      BY <2>1, <2>2
  <1>2. CASE ConnectBegin
    <2> DEFINE f == [at |-> "connecting", child |-> None, mine |-> FALSE, failed |-> FALSE]
    <2>1. /\ current' = None /\ status' = "connecting" /\ Push(f)
          /\ UNCHANGED <<proc, waiting>>
      BY <1>2 DEF ConnectBegin, callVars
    <2>2. f \in Frame /\ f.at = "connecting"
      BY DEF Frame
    <2> HIDE DEF f
    <2>3. frames' # <<>> /\ Len(frames') = 1 /\ Top'.at = "connecting"
      BY <1>1, <2>1, <2>2, PushesFirst
    <2>4. Pending' = {}
      BY <1>1, <2>1 DEF Pending
    <2> QED
      BY <1>1, <2>1, <2>3, <2>4 DEF Read, OneAtATime, StatusTells
  <1>3. CASE UNCHANGED vars /\ status \in {"connecting", "connected"}
    <2>1. UNCHANGED <<status, current, proc, waiting, frames>> /\ Pending' = {}
      BY <1>1, <1>3 DEF vars, Pending
    <2>2. status = "connected" /\ LinkedOrUnread
      BY <1>1, <1>3 DEF StatusTells
    <2>3. LinkedOrUnread'
      BY <1>1, <2>1, <2>2 DEF LinkedOrUnread
    <2> QED
      BY <1>1, <2>1, <2>2, <2>3 DEF Read, OneAtATime, StatusTells
  <1> QED
    BY <1>2, <1>3 DEF ClientConnect

\* A connect() resumes: it links to the current stream, which is unread or its own.
LEMMA AttachKeepsSequence ==
    ASSUME Ready, AttachFails \/ Attach, ~overlapped'
    PROVE  Sequence'
  <1> USE DEF Ready, TypeOK, SequenceInv, Sequence
  <1>1. /\ ~overlapped /\ frames = <<>> /\ frames' = <<>> /\ attaching > 0 /\ Pending = {}
        /\ attaching' = attaching - 1 /\ UNCHANGED <<current, proc, waiting>>
    BY DEF AttachFails, Attach, Turns, Resuming, DisconnectIdle, vars, procVars, callVars, OneAtATime
  <1>2. Pending' = {} /\ Len(frames') = 0
    BY <1>1, EmptySeq DEF Pending
  <1>3. CASE AttachFails
    BY <1>1, <1>2, <1>3 DEF AttachFails, DisconnectIdle, Read, OneAtATime, StatusTells
  <1>4. CASE Attach
    <2>1. attached' = current /\ current # None /\ current \in Child /\ UNCHANGED status
      BY <1>4 DEF Attach, vars
    <2>2. status = "connected" /\ (attached = current \/ readers[current] = 0)
      BY <1>1, <2>1 DEF StatusTells, LinkedOrUnread
    <2>3. proc[current] # "unborn"
      BY <2>1 DEF CurrentIsAlive
    <2>4. Read'
      <3>1. CASE attached = current
        BY <1>1, <1>4, <3>1 DEF Attach, ReadOnce, Read
      <3>2. CASE attached # current
        BY <1>1, <1>4, <2>1, <2>2, <2>3, <3>2 DEF Attach, ReadOnce, ReadAgain, Read
      <3> QED
        BY <3>1, <3>2
    <2>5. LinkedOrUnread'
      BY <1>1, <2>1 DEF LinkedOrUnread
    <2> QED
      BY <1>1, <1>2, <2>1, <2>2, <2>4, <2>5 DEF OneAtATime, StatusTells
  <1> QED
    BY <1>3, <1>4

LEMMA DisconnectKeepsSequence ==
    ASSUME Ready, ClientDisconnect, ~overlapped'
    PROVE  Sequence'
  <1> USE DEF Ready, TypeOK, SequenceInv, Sequence
  <1>1. /\ ~overlapped /\ frames = <<>> /\ attaching = 0
        /\ UNCHANGED <<readers, attaching>> /\ attached' = None
    <2>1. Calls(attaching > 0) /\ UNCHANGED <<readers, attaching>> /\ attached' = None
      BY DEF ClientDisconnect
    <2> DEFINE busy == attaching > 0
    <2>2. busy \in BOOLEAN /\ Calls(busy)
      BY <2>1
    <2> HIDE DEF busy
    <2>3. ~overlapped /\ ~busy /\ frames = <<>>
      BY <2>2, CallsFirst
    <2> QED
      BY <2>1, <2>3 DEF busy
  <1>2. CASE DisconnectIdle
    <2>1. /\ current = None /\ status' = "disconnected"
          /\ UNCHANGED <<current, proc, waiting, frames>>
      BY <1>2 DEF DisconnectIdle, procVars, callVars
    <2>2. Pending' = Pending
      BY <2>1 DEF Pending
    <2> QED
      BY <1>1, <2>1, <2>2, EmptySeq DEF Read, OneAtATime, StatusTells
  <1>3. ASSUME NEW k \in Call, DisconnectBegin(k) PROVE Sequence'
    <2>1. /\ current # None /\ waiting' = [waiting EXCEPT ![k] = current]
          /\ UNCHANGED <<status, current, proc, frames>>
      BY <1>3 DEF DisconnectBegin
    <2>2. Pending' = Pending \cup {k} /\ Pending' # {}
      BY <2>1 DEF Pending
    <2>3. \A l \in Pending' : current' \in {None, waiting'[l]}
      BY <2>1, <2>2, <1>1 DEF StatusTells
    <2> QED
      BY <1>1, <2>1, <2>2, <2>3, EmptySeq DEF Read, OneAtATime, StatusTells
  <1> QED
    BY <1>2, <1>3 DEF ClientDisconnect
\* A suspended connect() or a disconnect() goes on.
LEMMA TransportFinishKeepsSequence ==
    ASSUME Ready, TransportFinish, ~overlapped'
    PROVE  Sequence'
  <1> USE DEF Ready, TypeOK, SequenceInv, Sequence
  <1>1. /\ ~overlapped /\ UNCHANGED <<readers, attaching>>
        /\ attached' = IF status' \in Dropping THEN None ELSE attached
    BY DEF TransportFinish, Announced, OnState, Turns
  <1>2. ASSUME ConnectFinish
        PROVE  /\ attaching > 0 /\ frames' = <<>> /\ Len(frames') = 0
               /\ current = None /\ Pending = {} /\ Pending' = {} /\ UNCHANGED waiting
    <2>1. frames # <<>> /\ Top.at = "connecting" /\ Pop /\ UNCHANGED waiting
      BY <1>2 DEF ConnectFinish, ConnectSpawn, ConnectSetupThrows, ConnectSpawnThrows, Connecting,
                  callVars
    <2>2. frames' = <<>>
      BY <1>1, <2>1, PopsLast DEF OneAtATime
    <2>3. attaching > 0 /\ Pending = {} /\ current = None
      BY <1>1, <2>1 DEF OneAtATime, StatusTells
    <2> QED
      BY <2>1, <2>2, <2>3, EmptySeq DEF Pending
  <1>3. ASSUME NEW c \in Child, ConnectSpawn(c) PROVE Sequence'
    <2>1. /\ proc[c] = "unborn" /\ proc' = [proc EXCEPT ![c] = "running"]
          /\ current' = c /\ status' = "connected"
      BY <1>3 DEF ConnectSpawn
    <2>2. readers[c] = 0
      BY <1>1, <2>1 DEF Read
    <2>3. Read' /\ LinkedOrUnread'
      BY <1>1, <2>1, <2>2, NoneAssumption DEF Read, LinkedOrUnread
    <2> QED
      BY <1>1, <1>2, <1>3, <2>1, <2>3 DEF ConnectFinish, OneAtATime, StatusTells
  <1>4. ASSUME (\E c \in Child : ConnectSetupThrows(c)) \/ ConnectSpawnThrows PROVE Sequence'
    <2>1. /\ status' = "error" /\ current' = current
          /\ \A c \in Child : proc[c] # "unborn" => proc'[c] # "unborn"
      BY <1>4 DEF ConnectSetupThrows, ConnectSpawnThrows, procVars
    <2>2. Read'
      BY <1>1, <2>1 DEF Read
    <2> QED
      BY <1>1, <1>2, <1>4, <2>1, <2>2 DEF ConnectFinish, OneAtATime, StatusTells
  <1>5. ASSUME NEW k \in Call, DisconnectResume(k) PROVE Sequence'
    <2>1. /\ frames = <<>> /\ frames' = <<>> /\ k \in Pending
          /\ status' = "disconnected" /\ UNCHANGED proc
          /\ current' = IF current = waiting[k] THEN None ELSE current
          /\ waiting' = [waiting EXCEPT ![k] = None]
      BY <1>5 DEF DisconnectResume, DropCaptured, procVars
    <2>2. attaching = 0 /\ current' = None
      BY <1>1, <2>1 DEF OneAtATime, StatusTells
    <2>3. Len(frames') = 0
      BY <2>1, EmptySeq
    <2> QED
      BY <1>1, <2>1, <2>2, <2>3 DEF Read, OneAtATime, StatusTells
  <1> QED
    BY <1>3, <1>4, <1>5 DEF TransportFinish, ConnectFinish

\* The close handler of a child goes on after its announcement.
LEMMA TransportClosedKeepsSequence ==
    ASSUME Ready, TransportClosed, ~overlapped'
    PROVE  Sequence'
  <1> USE DEF Ready, TypeOK, SequenceInv, Sequence
  <1>1. /\ ~overlapped /\ UNCHANGED <<readers, attaching, current, proc, waiting>>
        /\ frames # <<>> /\ Top.at = "exit" /\ Pop
        /\ status' = IF Top.mine THEN ExitStatus(Top) ELSE status
    BY DEF TransportClosed, CloseFinish, Announced, Ignored, Turns, procVars
  <1>2. frames' = <<>> /\ Len(frames') = 0 /\ attaching = 0 /\ Pending' = Pending
    BY <1>1, PopsLast, EmptySeq DEF OneAtATime, Pending
  <1>3. CASE Top.mine
    <2>1. status' \in {"error", "disconnected"} /\ current = None
      BY <1>1, <1>2, <1>3 DEF StatusTells, ExitStatus
    <2> QED
      BY <1>1, <1>2, <2>1 DEF Read, OneAtATime, StatusTells
  <1>4. CASE ~Top.mine
    <2>1. UNCHANGED <<status, attached>>
      BY <1>1, <1>4 DEF TransportClosed, Ignored
    <2> QED
      BY <1>1, <1>2, <1>4, <2>1 DEF Read, OneAtATime, StatusTells, LinkedOrUnread
  <1> QED
    BY <1>3, <1>4

LEMMA ChildEventKeepsSequence ==
    ASSUME Ready, ChildEvent, ~overlapped'
    PROVE  Sequence'
  <1> USE DEF Ready, TypeOK, SequenceInv, Sequence
  <1>1. /\ ~overlapped /\ UNCHANGED <<readers, attaching>> /\ attaching = 0 /\ frames = <<>>
        /\ Len(frames) = 0
    BY EmptySeq DEF ChildEvent, Announced, Ignored, Turns, ChildError, CloseBegin, CloseUnbound,
                    ForceKill, Quiet
  <1>2. ASSUME NEW c \in Child, ChildError(c), Announced PROVE Sequence'
    <2>1. /\ status' = "error" /\ UNCHANGED <<current, proc, waiting, frames>>
      BY <1>2 DEF ChildError, procVars, callVars
    <2>2. Pending' = Pending
      BY <2>1 DEF Pending
    <2> QED
      BY <1>1, <2>1, <2>2 DEF Read, OneAtATime, StatusTells
  <1>3. ASSUME NEW c \in Child, CloseBegin(c), OnExit PROVE Sequence'
    <2>1. PICK b \in BOOLEAN :
             Push([at |-> "exit", child |-> c, mine |-> current = c,
                   failed |-> b /\ ~intentional[c]])
      BY <1>3 DEF CloseBegin
    <2> DEFINE f == [at |-> "exit", child |-> c, mine |-> current = c,
                     failed |-> b /\ ~intentional[c]]
    <2>2. f \in Frame /\ f.at = "exit" /\ f.mine = (current = c)
      BY DEF Frame
    <2> HIDE DEF f
    <2>3. frames' # <<>> /\ Len(frames') = 1 /\ Top' = f
      BY <1>1, <2>1, <2>2, PushesFirst DEF f
    <2>4. /\ current' = IF current = c THEN None ELSE current
          /\ proc' = [proc EXCEPT ![c] = "closed"] /\ UNCHANGED <<status, waiting>>
          /\ attached' = IF attached # None /\ current' = attached THEN attached ELSE None
      BY <1>3 DEF CloseBegin, DropClosed, OnExit, callVars
    <2>5. Pending' = Pending
      BY <2>4 DEF Pending
    <2>6. Read' /\ OneAtATime'
      BY <1>1, <2>2, <2>3, <2>4, <2>5 DEF Read, OneAtATime
    <2>7. CASE current = c
      <3>1. current' = None /\ Top.mine'
        BY <2>2, <2>3, <2>4, <2>7
      <3> QED
        BY <1>1, <2>3, <2>4, <2>5, <2>6, <3>1 DEF StatusTells
    <2>8. CASE current # c
      BY <1>1, <2>2, <2>3, <2>4, <2>5, <2>6, <2>8 DEF StatusTells, LinkedOrUnread
    <2> QED
      BY <2>7, <2>8
  <1>4. ASSUME Ignored,
               \/ \E c \in Child : CloseUnbound(c)
               \/ \E k \in Call : ForceKill(k)
        PROVE  Sequence'
    <2>1. /\ UNCHANGED <<status, current, waiting, frames, attached>>
          /\ \A c \in Child : proc[c] # "unborn" => proc'[c] # "unborn"
      BY <1>4 DEF CloseUnbound, ForceKill, callVars, Ignored
    <2>2. Pending' = Pending
      BY <2>1 DEF Pending
    <2> QED
      BY <1>1, <2>1, <2>2 DEF Read, OneAtATime, StatusTells, LinkedOrUnread
  <1> QED
    BY <1>2, <1>3, <1>4 DEF ChildEvent
\* The bookkeeping around the sequence: a disconnect() that has been resolved
\* is still awaited, and a call that overlapped stays remembered.
LEMMA BookkeepingNext ==
    ASSUME Ready, [ClientNext]_allVars
    PROVE  /\ resolved' \subseteq Pending' /\ overlapped' \in BOOLEAN
           /\ readers' \in [Child -> Nat]
           /\ ~overlapped' => ~overlapped
  <1> USE DEF Ready, TypeOK, SequenceInv
  <1>1. resolved' \subseteq Pending'
    <2>1. [Next]_vars
      BY ClientStepIsTransportStep DEF allVars
    <2>2. ASSUME UNCHANGED <<waiting, resolved>> PROVE resolved' \subseteq Pending'
      BY <2>2 DEF Pending
    <2>3. CASE ConnectBegin \/ ConnectFinish \/ DisconnectIdle \/ UNCHANGED vars
      BY <2>2, <2>3 DEF ConnectBegin, ConnectFinish, ConnectSpawn, ConnectSetupThrows,
                        ConnectSpawnThrows, DisconnectIdle, vars, callVars
    <2>4. CASE CloseFinish
      BY <2>4 DEF CloseFinish, Pending
    <2>5. ASSUME NEW k \in Call, DisconnectBegin(k) PROVE resolved' \subseteq Pending'
      BY <2>5, NoneAssumption DEF DisconnectBegin, Pending
    <2>6. ASSUME NEW k \in Call, ForceKill(k) \/ DisconnectResume(k)
          PROVE  resolved' \subseteq Pending'
      BY <2>6 DEF ForceKill, DisconnectResume, Pending
    <2>7. ASSUME NEW c \in Child, ChildError(c) \/ ChildClosed(c)
          PROVE  resolved' \subseteq Pending'
      BY <2>2, <2>7 DEF ChildError, ChildClosed, CloseBegin, CloseUnbound, callVars
    <2> QED
      BY <2>1, <2>3, <2>4, <2>5, <2>6, <2>7 DEF Next
  <1>2. readers' \in [Child -> Nat]
    BY DEF ClientNext, ClientConnect, AttachFails, Attach, ReadOnce, ReadAgain, ClientDisconnect,
           Request, TransportFinish, TransportClosed, ChildEvent, Announced, Ignored, allVars,
           clientVars
  <1>3. \/ UNCHANGED overlapped
        \/ \E busy \in BOOLEAN : Calls(busy)
    <2>1. CASE ClientConnect
      BY <2>1 DEF ClientConnect
    <2>2. CASE ClientDisconnect
      <3> DEFINE busy == attaching > 0
      <3>1. Calls(busy) /\ busy \in BOOLEAN
        BY <2>2 DEF ClientDisconnect
      <3> QED
        BY <3>1
    <2>3. CASE UNCHANGED allVars
      BY <2>3 DEF allVars, clientVars
    <2> QED
      BY <2>1, <2>2, <2>3 DEF ClientNext, AttachFails, Attach, Request, TransportFinish,
                              TransportClosed, ChildEvent, Announced, Ignored, Turns
  <1>4. overlapped' \in BOOLEAN /\ (~overlapped' => ~overlapped)
    BY <1>3, CallsFirst DEF Calls
  <1> QED
    BY <1>1, <1>2, <1>4

LEMMA SequenceNext ==
    ASSUME Ready, [ClientNext]_allVars
    PROVE  SequenceInv'
  <1>1. ASSUME ~overlapped' PROVE Sequence'
    <2>1. Sequence
      BY <1>1, BookkeepingNext DEF Ready, SequenceInv
    <2>2. CASE Request \/ UNCHANGED allVars
      <3>1. UNCHANGED <<status, current, proc, waiting, frames, attached, attaching, readers>>
        BY <2>2 DEF Request, allVars, vars, clientVars
      <3> QED
        BY <2>1, <3>1 DEF Sequence, Read, OneAtATime, StatusTells, LinkedOrUnread, Pending, Top
    <2> QED
      BY <1>1, <2>2, ConnectKeepsSequence, AttachKeepsSequence, DisconnectKeepsSequence,
         TransportFinishKeepsSequence, TransportClosedKeepsSequence, ChildEventKeepsSequence
         DEF ClientNext
  <1> QED
    BY <1>1, BookkeepingNext DEF SequenceInv

LEMMA SequenceAlways == ClientSpec => [](TypeOK /\ SequenceInv)
  <1>1. ClientInv /\ SequenceInv => Ready
    BY DEF ClientInv, LinkInv, Ready
  <1>2. Ready /\ [ClientNext]_allVars => SequenceInv'
    BY SequenceNext
  <1>3. ClientInv => TypeOK
    BY DEF ClientInv
  <1> QED
    BY <1>1, <1>2, <1>3, SequenceInit, ClientInvAlways, PTL DEF ClientSpec

\* As long as no two calls overlapped, no stream is ever read by two loops.
THEOREM OneReaderWithoutOverlap == ClientSpec => []OneReaderInSequence
  <1>1. SequenceInv => OneReaderInSequence
    BY DEF SequenceInv, Sequence, Read, OneReaderInSequence, OneReader
  <1> QED
    BY <1>1, SequenceAlways, PTL

\* As long as no two calls overlapped, the status between two turns tells
\* whether there is a child, and a connected client accepts requests.
THEOREM ConnectedStaysUsable == ClientSpec => []ConnectedIsUsable
  <1>1. ASSUME TypeOK, SequenceInv PROVE ConnectedIsUsable
    <2> SUFFICES ASSUME Settled, ~overlapped
                 PROVE  /\ StatusMatchesCurrent
                        /\ Pending = {} /\ status = "connected" => attached # None
      BY DEF ConnectedIsUsable
    <2>1. frames = <<>> /\ attaching = 0 /\ StatusTells
      BY <1>1 DEF Settled, Quiet, SequenceInv, Sequence
    <2>2. status \in Status /\ status # "connecting"
      BY <1>1, <2>1 DEF TypeOK, StatusTells
    <2> QED
      BY <2>1, <2>2 DEF StatusMatchesCurrent, StatusTells, LinkedOrUnread, Status
  <1> QED
    BY <1>1, SequenceAlways, PTL
=============================================================================
