------------------------- MODULE StreamAgentPortProofs -------------------------
(* What holds of StreamAgentPort for any number of streams, sessions and      *)
(* updates.                                                                   *)
EXTENDS StreamAgentPort, SequenceTheorems, TLAPS

\* A stream that has not begun has no handler; a stream whose consumer has
\* seen its end has a closed queue, or none that its handler could fill.
EndedIsClosed ==
    \A s \in Stream :
        /\ phase[s] \in {"new", "refused"} => s \notin handlers
        /\ phase[s] \in {"failed", "finished", "abandoned"} => s \in closed

Inv == TypeOK /\ InFlightHoldsLock /\ EndedIsClosed

LEMMA InvInit == Init => Inv
  <1> SUFFICES ASSUME Init PROVE Inv
    OBVIOUS
  <1>1. <<>> \in Seq(Update)
    BY EmptySeq
  <1>2. TypeOK
    BY <1>1 DEF Init, TypeOK
  <1> QED
    BY <1>2 DEF Init, Inv, InFlightHoldsLock, EndedIsClosed

------------------------------------------------------------------------------
(* Types                                                                      *)

LEMMA TypeNext == TypeOK /\ [Next]_vars => TypeOK'
  <1> SUFFICES ASSUME TypeOK, [Next]_vars PROVE TypeOK'
    OBVIOUS
  <1> USE DEF TypeOK, Running, Ended, agentVars
  <1>1. CASE Disconnect
    BY <1>1 DEF Disconnect
  <1>2. ASSUME NEW s \in Stream, Refuse(s) \/ BeginThrows(s) \/ Pull(s) PROVE TypeOK'
    BY <1>2 DEF Refuse, BeginThrows, TakeAndGive, Pull
  <1>3. ASSUME NEW s \in Stream, Begin(s) PROVE TypeOK'
    BY <1>3 DEF Begin
  <1>4. ASSUME NEW s \in Stream, Cleanup(s) PROVE TypeOK'
    BY <1>4 DEF Cleanup, Release
  <1>5. ASSUME NEW s \in Stream, Settle(s) PROVE TypeOK'
    BY <1>5 DEF Settle
  <1>6. ASSUME NEW s \in Stream, Abandon(s) \/ Drained(s) \/ Finish(s) PROVE TypeOK'
    BY <1>6 DEF Abandon, Drained, Finish, Outcome
  <1>7. ASSUME NEW s \in Stream, Take(s) PROVE TypeOK'
    <2>1. Head(buffer[s]) \in Update /\ Tail(buffer[s]) \in Seq(Update)
      BY <1>7, HeadTailProperties DEF Take
    <2>2. Append(got[s], Head(buffer[s])) \in Seq(Update)
      BY <2>1, AppendProperties
    <2> QED
      BY <1>7, <2>1, <2>2 DEF Take
  <1>8. ASSUME NEW s \in Stream, AgentUpdate(s) PROVE TypeOK'
    <2>1. PICK id \in {session[s], None} :
            buffer' = [t \in Stream |->
                         IF t \in handlers \ closed /\ Accepts(t, UpdateOf(s, emitted[s] + 1, id))
                         THEN Append(buffer[t], UpdateOf(s, emitted[s] + 1, id)) ELSE buffer[t]]
      BY <1>8 DEF AgentUpdate
    <2>2. UpdateOf(s, emitted[s] + 1, id) \in Update
      BY DEF UpdateOf, Update
    <2>3. \A t \in Stream : Append(buffer[t], UpdateOf(s, emitted[s] + 1, id)) \in Seq(Update)
      BY <2>2, AppendProperties
    <2>4. buffer' \in [Stream -> Seq(Update)]
      BY <2>1, <2>3
    <2>5. emitted' \in [Stream -> Nat]
      BY <1>8 DEF AgentUpdate
    <2> QED
      BY <1>8, <2>4, <2>5 DEF AgentUpdate
  <1>9. CASE UNCHANGED vars
    BY <1>9 DEF vars
  <1> QED
    BY <1>1, <1>2, <1>3, <1>4, <1>5, <1>6, <1>7, <1>8, <1>9 DEF Next, Reader

------------------------------------------------------------------------------
(* The lock and the queues                                                    *)

LEMMA InvNext == Inv /\ [Next]_vars => Inv'
  <1> SUFFICES ASSUME Inv, [Next]_vars PROVE InFlightHoldsLock' /\ EndedIsClosed'
    BY TypeNext DEF Inv
  <1> USE DEF Inv, TypeOK, InFlightHoldsLock, EndedIsClosed, Running, Ended, agentVars
  <1>1. CASE Disconnect
    BY <1>1 DEF Disconnect
  <1>2. ASSUME NEW s \in Stream, Refuse(s) \/ BeginThrows(s) \/ Pull(s)
        PROVE  InFlightHoldsLock' /\ EndedIsClosed'
    BY <1>2 DEF Refuse, BeginThrows, TakeAndGive, Pull
  <1>3. ASSUME NEW s \in Stream, Begin(s) PROVE InFlightHoldsLock' /\ EndedIsClosed'
    BY <1>3, NoneAssumption DEF Begin
  <1>4. ASSUME NEW s \in Stream, Cleanup(s) PROVE InFlightHoldsLock' /\ EndedIsClosed'
    BY <1>4 DEF Cleanup, Release
  <1>5. ASSUME NEW s \in Stream, Settle(s) \/ AgentUpdate(s) \/ Take(s)
        PROVE  InFlightHoldsLock' /\ EndedIsClosed'
    BY <1>5 DEF Settle, AgentUpdate, Take
  <1>6. ASSUME NEW s \in Stream, Abandon(s) \/ Drained(s) \/ Finish(s)
        PROVE  InFlightHoldsLock' /\ EndedIsClosed'
    BY <1>6 DEF Abandon, Drained, Finish, Outcome
  <1>7. CASE UNCHANGED vars
    BY <1>7 DEF vars
  <1> QED
    BY <1>1, <1>2, <1>3, <1>4, <1>5, <1>6, <1>7 DEF Next, Reader

LEMMA InvAlways == Spec => []Inv
  BY InvInit, InvNext, PTL DEF Spec

\* A prompt in flight holds the lock until it settles or the port disconnects,
\* whatever its consumer, other streams and late ends do.
THEOREM LockIsHeld == Spec => []InFlightHoldsLock
  BY InvAlways, PTL DEF Inv

\* No update is buffered for a consumer that has left or seen the end.
THEOREM NothingBufferedAfterTheEnd == Spec => AbandonedStopsBuffering
  <1>1. ASSUME Inv, [Next]_vars, NEW s \in Stream, phase[s] \in Ended
        PROVE  Len(buffer'[s]) <= Len(buffer[s])
    <2> USE DEF Inv, TypeOK, agentVars
    <2>1. Len(buffer[s]) \in Nat
      BY <1>1
    <2>2. ASSUME NEW t \in Stream, AgentUpdate(t) PROVE buffer'[s] = buffer[s]
      <3>1. s \notin handlers \ closed
        BY <1>1 DEF EndedIsClosed, Ended
      <3> QED
        BY <2>2, <3>1 DEF AgentUpdate
    <2>3. ASSUME NEW t \in Stream, Take(t) PROVE buffer'[s] = buffer[s]
      <3>1. s # t
        BY <1>1, <2>3 DEF Take, Ended
      <3> QED
        BY <1>1, <2>3, <3>1 DEF Take
    <2>4. CASE UNCHANGED buffer
      BY <2>1, <2>4
    <2>5. ASSUME Next, \A t \in Stream : ~AgentUpdate(t) /\ ~Take(t) PROVE UNCHANGED buffer
      BY <2>5 DEF Next, Reader, Disconnect, Refuse, Begin, BeginThrows, Settle, Cleanup, Pull,
                  Drained, Finish, Abandon
    <2> QED
      BY <1>1, <2>1, <2>2, <2>3, <2>4, <2>5 DEF vars
  <1>2. Inv /\ [Next]_vars =>
           [\A s \in Stream : phase[s] \in Ended => Len(buffer'[s]) <= Len(buffer[s])]_vars
    BY <1>1
  <1> QED
    BY <1>2, InvAlways, PTL DEF Spec, AbandonedStopsBuffering

------------------------------------------------------------------------------
(* What a consumer receives                                                   *)

LEMMA NothingIsComplete ==
    ASSUME NEW s, NEW id
    PROVE  Complete(<<>>, s, 0, id)
  BY DEF Complete

\* The next update of the prompt, at the end, makes it complete for one more.
LEMMA OwnAppended ==
    ASSUME NEW q \in Seq(Update), NEW s, NEW n \in Nat, NEW id, Complete(q, s, n, id),
           NEW u \in Update, u.stream = s, u.n = n + 1, u.session \in {id, None}
    PROVE  Complete(Append(q, u), s, n + 1, id)
  <1> DEFINE r == Append(q, u)
  <1>1. /\ DOMAIN r = 1..(Len(q) + 1) /\ DOMAIN q = 1..Len(q) /\ Len(q) \in Nat
        /\ \A i \in 1..Len(q) : r[i] = q[i]
        /\ r[Len(q) + 1] = u
    BY AppendProperties, LenProperties
  <1> HIDE DEF r
  <1>2. \A m \in 1..(n + 1) : \E i \in DOMAIN r : r[i].stream = s /\ r[i].n = m
    <2> SUFFICES ASSUME NEW m \in 1..(n + 1)
                 PROVE  \E i \in DOMAIN r : r[i].stream = s /\ r[i].n = m
      OBVIOUS
    <2>1. CASE m = n + 1
      BY <1>1, <2>1
    <2>2. CASE m \in 1..n
      <3>1. PICK i \in DOMAIN q : q[i].stream = s /\ q[i].n = m
        BY <2>2 DEF Complete
      <3> QED
        BY <1>1, <3>1
    <2> QED
      BY <2>1, <2>2
  <1>3. \A i \in DOMAIN r : r[i].stream = s => r[i].n \in 1..(n + 1)
    BY <1>1 DEF Complete
  <1>4. \A i, j \in DOMAIN r : i < j /\ r[i].stream = s /\ r[j].stream = s => r[i].n < r[j].n
    BY <1>1 DEF Complete
  <1>5. id # None => \A i \in DOMAIN r : r[i].session \in {id, None}
    BY <1>1 DEF Complete
  <1> QED
    BY <1>2, <1>3, <1>4, <1>5 DEF Complete, r

\* An update of another prompt makes no difference, if its session is right.
LEMMA OtherAppended ==
    ASSUME NEW q \in Seq(Update), NEW s, NEW n \in Nat, NEW id, Complete(q, s, n, id),
           NEW u \in Update, u.stream # s, id = None \/ u.session \in {id, None}
    PROVE  Complete(Append(q, u), s, n, id)
  <1> DEFINE r == Append(q, u)
  <1>1. /\ DOMAIN r = 1..(Len(q) + 1) /\ DOMAIN q = 1..Len(q) /\ Len(q) \in Nat
        /\ \A i \in 1..Len(q) : r[i] = q[i]
        /\ r[Len(q) + 1] = u
    BY AppendProperties, LenProperties
  <1> HIDE DEF r
  <1>2. \A m \in 1..n : \E i \in DOMAIN r : r[i].stream = s /\ r[i].n = m
    <2> SUFFICES ASSUME NEW m \in 1..n
                 PROVE  \E i \in DOMAIN r : r[i].stream = s /\ r[i].n = m
      OBVIOUS
    <2>1. PICK i \in DOMAIN q : q[i].stream = s /\ q[i].n = m
      BY DEF Complete
    <2> QED
      BY <1>1, <2>1
  <1>3. \A i \in DOMAIN r : r[i].stream = s => i \in DOMAIN q
    BY <1>1
  <1>4. \A i \in DOMAIN r : r[i].stream = s => r[i].n \in 1..n
    BY <1>1, <1>3 DEF Complete
  <1>5. \A i, j \in DOMAIN r : i < j /\ r[i].stream = s /\ r[j].stream = s => r[i].n < r[j].n
    BY <1>1, <1>3 DEF Complete
  <1>6. id # None => \A i \in DOMAIN r : r[i].session \in {id, None}
    BY <1>1 DEF Complete
  <1> QED
    BY <1>2, <1>4, <1>5, <1>6 DEF Complete, r

\* Appending to what is unread appends to what is received and unread.
LEMMA ConcatAppend ==
    ASSUME NEW q \in Seq(Update), NEW b \in Seq(Update), NEW u \in Update
    PROVE  q \o Append(b, u) = Append(q \o b, u)
  <1>1. /\ Append(b, u) \in Seq(Update) /\ Len(Append(b, u)) = Len(b) + 1
        /\ \A i \in 1..Len(b) : Append(b, u)[i] = b[i]
        /\ Append(b, u)[Len(b) + 1] = u
    BY AppendProperties
  <1>2. /\ q \o b \in Seq(Update) /\ Len(q \o b) = Len(q) + Len(b)
        /\ \A i \in 1..(Len(q) + Len(b)) :
              (q \o b)[i] = IF i <= Len(q) THEN q[i] ELSE b[i - Len(q)]
    BY ConcatProperties
  <1>3. /\ Append(q \o b, u) \in Seq(Update)
        /\ Len(Append(q \o b, u)) = Len(q) + Len(b) + 1
        /\ \A i \in 1..(Len(q) + Len(b)) : Append(q \o b, u)[i] = (q \o b)[i]
        /\ Append(q \o b, u)[Len(q) + Len(b) + 1] = u
    BY <1>2, AppendProperties
  <1>4. /\ q \o Append(b, u) \in Seq(Update)
        /\ Len(q \o Append(b, u)) = Len(q) + Len(b) + 1
        /\ \A i \in 1..(Len(q) + Len(b) + 1) :
              (q \o Append(b, u))[i] = IF i <= Len(q) THEN q[i] ELSE Append(b, u)[i - Len(q)]
    <2>1. /\ q \o Append(b, u) \in Seq(Update)
          /\ Len(q \o Append(b, u)) = Len(q) + Len(Append(b, u))
          /\ \A i \in 1..(Len(q) + Len(Append(b, u))) :
                (q \o Append(b, u))[i] = IF i <= Len(q) THEN q[i] ELSE Append(b, u)[i - Len(q)]
      BY <1>1, ConcatProperties
    <2>2. Len(q) + Len(Append(b, u)) = Len(q) + Len(b) + 1
      BY <1>1, LenProperties
    <2> QED
      BY <2>1, <2>2
  <1>5. Len(q) \in Nat /\ Len(b) \in Nat
    BY LenProperties
  <1> DEFINE c == q \o Append(b, u)
             d == Append(q \o b, u)
  <1>6. ASSUME NEW i \in 1..(Len(q) + Len(b) + 1) PROVE c[i] = d[i]
    <2>1. CASE i <= Len(q)
      BY <1>2, <1>3, <1>4, <1>5, <2>1
    <2>2. CASE i > Len(q) /\ i <= Len(q) + Len(b)
      <3>1. i - Len(q) \in 1..Len(b) /\ i \in 1..(Len(q) + Len(b)) /\ ~(i <= Len(q))
        BY <1>5, <2>2
      <3>2. c[i] = b[i - Len(q)]
        BY <1>1, <1>4, <3>1
      <3> QED
        BY <1>2, <1>3, <3>1, <3>2
    <2>3. CASE i = Len(q) + Len(b) + 1
      <3>1. i - Len(q) = Len(b) + 1 /\ ~(i <= Len(q))
        BY <1>5, <2>3
      <3> QED
        BY <1>1, <1>3, <1>4, <2>3, <3>1
    <2> QED
      BY <1>5, <2>1, <2>2, <2>3
  <1>7. c \in Seq(Update) /\ d \in Seq(Update) /\ Len(c) = Len(d) /\ Len(c) = Len(q) + Len(b) + 1
    BY <1>3, <1>4
  <1> HIDE DEF c, d
  <1>8. c = d
    BY <1>6, <1>7, SeqEqual
  <1> QED
    BY <1>8 DEF c, d

\* Reading moves an update from what is unread to what is received.
LEMMA ConcatTake ==
    ASSUME NEW q \in Seq(Update), NEW b \in Seq(Update), b # <<>>
    PROVE  Append(q, Head(b)) \o Tail(b) = q \o b
  <1> DEFINE h == <<Head(b)>>
  <1>1. Head(b) \in Update /\ Tail(b) \in Seq(Update) /\ h \in Seq(Update)
    BY HeadTailProperties
  <1>2. Append(q, Head(b)) = q \o h
    BY <1>1, AppendIsConcat
  <1>3. h \o Tail(b) = b
    BY <1>1, HeadTailProperties
  <1>4. (q \o h) \o Tail(b) = q \o (h \o Tail(b))
    BY <1>1, ConcatAssociative
  <1> QED
    BY <1>2, <1>3, <1>4
All(s) == got[s] \o buffer[s]

\* What a consumer has received and what waits for it are together all that its
\* prompt has produced; its queue is only closed, and its loop only ended,
\* after the prompt has settled.
Flow(s) ==
    /\ phase[s] \in {"new", "refused"} =>
          got[s] = <<>> /\ buffer[s] = <<>> /\ emitted[s] = 0 /\ prompt[s] = "none"
    /\ phase[s] = "new" => s \notin closed
    /\ phase[s] \in Running =>
          /\ Complete(All(s), s, emitted[s], session[s])
          /\ s \in closed => prompt[s] # "pending"
          /\ s \notin closed => s \in handlers
    /\ phase[s] = "settling" => s \in closed /\ buffer[s] = <<>>
    /\ phase[s] \in {"finished", "failed"} =>
          /\ prompt[s] # "pending"
          /\ Complete(got[s], s, emitted[s], session[s])

FlowInv == \A s \in Stream : Flow(s)

LEMMA FlowInit == Init => FlowInv
  BY DEF Init, FlowInv, Flow, Running

\* The agent's update goes to the end of the queue of its own stream, and to
\* those of other streams that accept it.
LEMMA UpdateKeepsFlow ==
    ASSUME Inv, FlowInv, NEW t \in Stream, AgentUpdate(t), NEW s \in Stream
    PROVE  Flow(s)'
  <1> USE DEF Inv, TypeOK, agentVars
  <1>1. PICK id \in {session[t], None} :
          buffer' = [r \in Stream |->
                       IF r \in handlers \ closed /\ Accepts(r, UpdateOf(t, emitted[t] + 1, id))
                       THEN Append(buffer[r], UpdateOf(t, emitted[t] + 1, id)) ELSE buffer[r]]
    BY DEF AgentUpdate
  <1> DEFINE u == UpdateOf(t, emitted[t] + 1, id)
  <1>2. u \in Update /\ u.stream = t /\ u.n = emitted[t] + 1 /\ u.session = id
    BY DEF UpdateOf, Update
  <1>3. buffer'[s] = IF s \in handlers \ closed /\ Accepts(s, u)
                     THEN Append(buffer[s], u) ELSE buffer[s]
    BY <1>1
  <1>4. /\ UNCHANGED <<phase, session, prompt, handlers, closed, got>>
        /\ prompt[t] = "pending"
        /\ emitted'[s] = IF s = t THEN emitted[s] + 1 ELSE emitted[s]
    BY DEF AgentUpdate
  <1>5. got[s] \in Seq(Update) /\ buffer[s] \in Seq(Update) /\ emitted[s] \in Nat /\ Flow(s)
    BY DEF FlowInv
  <1> HIDE DEF u
  <1>6. CASE phase[s] \in Running
    <2>1. All(s) \in Seq(Update)
      BY <1>5, ConcatProperties DEF All
    <2>2. CASE s = t
      <3>1. s \in handlers \ closed
        BY <1>4, <1>5, <1>6, <2>2 DEF Flow
      <3>2. Accepts(s, u)
        BY <1>2, <2>2 DEF Accepts
      <3>3. All(s)' = Append(All(s), u)
        BY <1>2, <1>3, <1>4, <1>5, <3>1, <3>2, ConcatAppend DEF All
      <3>4. u.session \in {session[s], None}
        BY <1>2, <2>2
      <3>5. Complete(All(s), s, emitted[s], session[s])
        BY <1>5, <1>6 DEF Flow
      <3>6. Complete(Append(All(s), u), s, emitted[s] + 1, session[s])
        BY <1>2, <1>5, <2>1, <2>2, <3>4, <3>5, OwnAppended
      <3>7. Complete(All(s)', s, emitted'[s], session'[s])
        BY <1>4, <2>2, <3>3, <3>6
      <3> QED
        BY <1>4, <1>5, <1>6, <3>1, <3>7 DEF Flow, Running
    <2>3. CASE s # t
      <3>1. Complete(All(s), s, emitted[s], session[s])
        BY <1>5, <1>6 DEF Flow
      <3>2. CASE s \in handlers \ closed /\ Accepts(s, u)
        <4>1. All(s)' = Append(All(s), u)
          BY <1>2, <1>3, <1>4, <1>5, <3>2, ConcatAppend DEF All
        <4>2. session[s] = None \/ u.session \in {session[s], None}
          BY <3>2 DEF Accepts
        <4>3. Complete(Append(All(s), u), s, emitted[s], session[s])
          BY <1>2, <1>5, <2>1, <2>3, <3>1, <4>2, OtherAppended
        <4>4. Complete(All(s)', s, emitted'[s], session'[s])
          BY <1>4, <2>3, <4>1, <4>3
        <4> QED
          BY <1>4, <1>5, <1>6, <3>2, <4>4 DEF Flow, Running
      <3>3. CASE ~(s \in handlers \ closed /\ Accepts(s, u))
        <4>1. buffer'[s] = buffer[s] /\ emitted'[s] = emitted[s]
          BY <1>3, <1>4, <2>3, <3>3
        <4> QED
          BY <1>4, <1>5, <4>1 DEF Flow, All
      <3> QED
        BY <3>2, <3>3
    <2> QED
      BY <2>2, <2>3
  <1>7. CASE phase[s] \notin Running
    <2>1. CASE phase[s] \in {"new", "refused"}
      <3>1. s \notin handlers /\ s # t
        BY <1>4, <1>5, <2>1 DEF EndedIsClosed, Flow
      <3> QED
        BY <1>3, <1>4, <1>5, <2>1, <3>1 DEF Flow, Running
    <2>2. CASE phase[s] \in {"finished", "failed"}
      <3>1. s # t
        BY <1>4, <1>5, <2>2 DEF Flow
      <3> QED
        BY <1>4, <1>5, <2>2, <3>1 DEF Flow, Running
    <2>3. CASE phase[s] = "abandoned"
      BY <1>4, <2>3 DEF Flow, Running
    <2> QED
      BY <1>7, <2>1, <2>2, <2>3 DEF Ended
  <1> QED
    BY <1>6, <1>7

\* Every other step of one stream leaves the flow of the others alone.
LEMMA OthersKeepFlow ==
    ASSUME Inv, FlowInv, NEW t \in Stream, NEW s \in Stream, s # t,
           \/ Refuse(t) \/ Begin(t) \/ BeginThrows(t) \/ Settle(t) \/ Cleanup(t)
           \/ Reader(t) \/ Abandon(t)
    PROVE  Flow(s)'
  <1> USE DEF Inv, TypeOK, agentVars
  <1>1. /\ phase'[s] = phase[s] /\ session'[s] = session[s] /\ prompt'[s] = prompt[s]
        /\ buffer'[s] = buffer[s] /\ got'[s] = got[s] /\ emitted'[s] = emitted[s]
        /\ s \in handlers' <=> s \in handlers
        /\ s \in closed' <=> s \in closed
    BY DEF Refuse, Begin, BeginThrows, Settle, Cleanup, Reader, Take, Pull, Drained, Finish, Abandon
  <1> QED
    BY <1>1 DEF FlowInv, Flow, All

LEMMA OwnStepKeepsFlow ==
    ASSUME Inv, FlowInv, NEW s \in Stream,
           \/ Refuse(s) \/ Begin(s) \/ BeginThrows(s) \/ Settle(s) \/ Cleanup(s)
           \/ Reader(s) \/ Abandon(s)
    PROVE  Flow(s)'
  <1> USE DEF Inv, TypeOK, agentVars, Running
  <1>1. got[s] \in Seq(Update) /\ buffer[s] \in Seq(Update) /\ emitted[s] \in Nat /\ Flow(s)
    BY DEF FlowInv
  <1>2. CASE Refuse(s)
    BY <1>1, <1>2 DEF Refuse, Flow
  <1>3. CASE Begin(s)
    <2>1. /\ got'[s] = <<>> /\ buffer'[s] = <<>> /\ emitted'[s] = 0
          /\ phase'[s] = "reading" /\ s \in handlers' /\ s \notin closed'
      BY <1>1, <1>3 DEF Begin, Flow
    <2>2. All(s)' = <<>>
      BY <2>1, ConcatEmptySeq, EmptySeq DEF All
    <2>3. Complete(All(s)', s, emitted'[s], session'[s])
      BY <2>1, <2>2 DEF Complete
    <2> QED
      BY <2>1, <2>3 DEF Flow
  <1>4. CASE BeginThrows(s)
    <2>1. /\ got'[s] = <<>> /\ emitted'[s] = 0 /\ prompt'[s] = "none" /\ phase'[s] = "failed"
      BY <1>1, <1>4 DEF BeginThrows, Flow
    <2>2. Complete(got'[s], s, emitted'[s], session'[s])
      BY <2>1 DEF Complete
    <2> QED
      BY <2>1, <2>2 DEF Flow
  <1>5. CASE Settle(s)
    <2>1. /\ UNCHANGED <<phase, session, handlers, closed, got, buffer, emitted>>
          /\ prompt[s] = "pending" /\ prompt'[s] # "pending"
      BY <1>5 DEF Settle
    <2> QED
      BY <1>1, <2>1 DEF Flow, All
  <1>6. CASE Cleanup(s)
    <2>1. /\ UNCHANGED <<phase, session, prompt, got, buffer, emitted>>
          /\ prompt[s] # "pending" /\ s \in closed' /\ phase[s] # "new"
      BY <1>6 DEF Cleanup, EndedIsClosed
    <2> QED
      BY <1>1, <2>1 DEF Flow, All
  <1>7. CASE Take(s)
    <2>1. /\ UNCHANGED <<session, prompt, handlers, closed, emitted>>
          /\ phase[s] = "reading" /\ phase'[s] \in {"yielded", "reading"}
          /\ buffer[s] # <<>>
          /\ got'[s] = Append(got[s], Head(buffer[s])) /\ buffer'[s] = Tail(buffer[s])
      BY <1>7 DEF Take
    <2>2. All(s)' = All(s)
      BY <1>1, <2>1, ConcatTake DEF All
    <2>3. Complete(All(s)', s, emitted'[s], session'[s])
      BY <1>1, <2>1, <2>2 DEF Flow
    <2> QED
      BY <1>1, <2>1, <2>3 DEF Flow
  <1>8. CASE Pull(s)
    <2>1. /\ UNCHANGED <<session, prompt, handlers, closed, emitted, got, buffer>>
          /\ phase[s] = "yielded" /\ phase'[s] = "reading"
      BY <1>8 DEF Pull
    <2> QED
      BY <1>1, <2>1 DEF Flow, All
  <1>9. CASE Drained(s)
    <2>1. /\ UNCHANGED <<session, prompt, handlers, closed, emitted, got, buffer>>
          /\ phase[s] = "reading" /\ phase'[s] = "settling" /\ s \in closed /\ buffer[s] = <<>>
      BY <1>9 DEF Drained, Ends
    <2> QED
      BY <1>1, <2>1 DEF Flow, All
  <1>10. CASE Finish(s)
    <2>1. /\ UNCHANGED <<session, prompt, emitted, got>>
          /\ prompt[s] # "pending"
          /\ phase[s] = "settling" /\ phase'[s] \in {"finished", "failed"}
      BY <1>10 DEF Finish, Outcome
    <2>2. All(s) = got[s]
      BY <1>1, <2>1, ConcatEmptySeq DEF All, Flow
    <2>3. Complete(got'[s], s, emitted'[s], session'[s])
      BY <1>1, <2>1, <2>2 DEF Flow
    <2> QED
      BY <2>1, <2>3 DEF Flow
  <1>11. CASE Abandon(s)
    BY <1>11 DEF Abandon, Flow
  <1> QED
    BY <1>2, <1>3, <1>4, <1>5, <1>6, <1>7, <1>8, <1>9, <1>10, <1>11 DEF Reader

LEMMA FlowNext == Inv /\ FlowInv /\ [Next]_vars => FlowInv'
  <1> SUFFICES ASSUME Inv, FlowInv, [Next]_vars, NEW s \in Stream PROVE Flow(s)'
    BY DEF FlowInv
  <1>1. CASE Disconnect \/ UNCHANGED vars
    <2>1. UNCHANGED <<phase, session, prompt, handlers, buffer, closed, emitted, got>>
      BY <1>1 DEF Disconnect, vars
    <2> QED
      BY <2>1 DEF FlowInv, Flow, All
  <1>2. ASSUME NEW t \in Stream, AgentUpdate(t) PROVE Flow(s)'
    BY <1>2, UpdateKeepsFlow
  <1>3. ASSUME NEW t \in Stream,
               \/ Refuse(t) \/ Begin(t) \/ BeginThrows(t) \/ Settle(t) \/ Cleanup(t)
               \/ Reader(t) \/ Abandon(t)
        PROVE  Flow(s)'
    BY <1>3, OthersKeepFlow, OwnStepKeepsFlow
  <1> QED
    BY <1>1, <1>2, <1>3 DEF Next

\* A consumer that is told how its prompt ended has received all of its updates
\* before, once each and in order, and none of another session.
THEOREM NothingIsLost == Spec => []NothingLostAtTheEnd
  <1>1. FlowInv => NothingLostAtTheEnd
    BY DEF FlowInv, Flow, NothingLostAtTheEnd
  <1> QED
    BY <1>1, FlowInit, FlowNext, InvAlways, PTL DEF Spec
==============================================================================
