------------------------------ MODULE StreamProofs ------------------------------
(* What holds of the two ends of a stream.  For any updates, any number of    *)
(* them and any compaction threshold its queue implements UpdateChannel, and  *)
(* loses no wake-up; for any streams, modes and stop reasons its consumer is  *)
(* given the envelopes of every update and told why the turn ended.           *)
EXTENDS StreamPromptQueue, StreamEnvelopes, SequenceTheorems, TLAPS

-----------------------------------------------------------------------------
(* The queue                                                                 *)

\* The unread part of the array is the part of the history not received yet.
UnreadIsSuffix ==
    /\ Len(sent) - Len(got) = Len(queue) - readIndex
    /\ \A i \in 1..(Len(queue) - readIndex) :
          queue[readIndex + i] = sent[Len(got) + i]

Inv == TypeOK /\ NoLostWakeUp /\ ReadPrefixBounded /\ UnreadIsSuffix

LEMMA InvInit == Init => Inv
  <1> SUFFICES ASSUME Init PROVE Inv
    OBVIOUS
  <1>1. /\ <<>> \in Seq(Update) /\ Len(<<>>) = 0
        /\ queue = <<>> /\ sent = <<>> /\ got = <<>> /\ readIndex = 0
    BY EmptySeq DEF Init
  <1>2. TypeOK
    <2>1. readIndex \in 0..Len(queue)
      BY <1>1
    <2> QED
      BY <1>1, <2>1 DEF Init, TypeOK
  <1>3. NoLostWakeUp /\ ReadPrefixBounded
    BY <1>1, CompactAtAssumption DEF Init, NoLostWakeUp, ReadPrefixBounded
  <1>4. Len(sent) = 0 /\ Len(got) = 0 /\ Len(queue) = 0 /\ readIndex = 0
    BY <1>1
  <1>5. UnreadIsSuffix
    BY <1>4 DEF UnreadIsSuffix
  <1> QED
    BY <1>2, <1>3, <1>5 DEF Inv

-----------------------------------------------------------------------------
(* The array                                                                 *)

\* A dequeue from array q with an unread entry receives that entry and leaves
\* the entries after it unread, in their order, compacted or not.
LEMMA DequeueReads ==
    ASSUME NEW q \in Seq(Update), readIndex \in Nat, readIndex < Len(q),
           got \in Seq(Update), Dequeue(q)
    PROVE  /\ queue' \in Seq(Update)
           /\ readIndex' \in 0..Len(queue')
           /\ readIndex' <= CompactAt \/ readIndex' * 2 <= Len(queue')
           /\ got' = Append(got, q[readIndex + 1])
           /\ got' \in Seq(Update)
           /\ Len(got') = Len(got) + 1
           /\ Len(queue') - readIndex' = Len(q) - readIndex - 1
           /\ \A i \in 1..(Len(queue') - readIndex') :
                 queue'[readIndex' + i] = q[readIndex + 1 + i]
  <1> DEFINE r == readIndex + 1
  <1>1. r \in 1..Len(q) /\ Len(q) \in Nat /\ q[r] \in Update
    BY ElementOfSeq
  <1>2. got' = Append(got, q[r]) /\ got' \in Seq(Update) /\ Len(got') = Len(got) + 1
    BY <1>1, AppendProperties DEF Dequeue
  <1>3. CASE ~Compacts(r, q)
    <2>1. queue' = q /\ readIndex' = r
      BY <1>3 DEF Dequeue
    <2> QED
      BY <1>1, <1>2, <1>3, <2>1, CompactAtAssumption DEF Compacts
  <1>4. CASE Compacts(r, q)
    <2> DEFINE n == Len(q)
    <2>1. queue' = SubSeq(q, r + 1, n) /\ readIndex' = 0
      BY <1>4 DEF Dequeue, Cut
    <2>2. \A i \in (r + 1)..n : q[i] \in Update
      BY <1>1, ElementOfSeq
    <2>3. r \in Int /\ n \in Int /\ r <= n
      BY <1>1
    <2> HIDE DEF n, r
    <2>4. /\ SubSeq(q, r + 1, n) \in Seq(Update)
          /\ Len(SubSeq(q, r + 1, n)) = IF r + 1 <= n THEN n - (r + 1) + 1 ELSE 0
          /\ \A i \in 1..(n - (r + 1) + 1) : SubSeq(q, r + 1, n)[i] = q[(r + 1) + i - 1]
      BY <2>2, <2>3, SubSeqProperties
    <2>5. /\ queue' \in Seq(Update)
          /\ Len(queue') = n - r
          /\ \A i \in 1..(n - r) : queue'[i] = q[r + i]
      BY <2>1, <2>3, <2>4
    <2> QED
      BY <1>1, <1>2, <2>1, <2>5, CompactAtAssumption DEF n, r
  <1> QED
    BY <1>3, <1>4

\* When the unread part of array q is what is left of history h, one dequeue
\* receives the next update of h and leaves the rest.
LEMMA DequeueInOrder ==
    ASSUME TypeOK, NEW q \in Seq(Update), NEW h \in Seq(Update),
           readIndex < Len(q), Dequeue(q), sent' = h,
           Len(h) - Len(got) = Len(q) - readIndex,
           \A i \in 1..(Len(q) - readIndex) : q[readIndex + i] = h[Len(got) + i]
    PROVE  /\ queue' \in Seq(Update) /\ readIndex' \in 0..Len(queue')
           /\ got' \in Seq(Update)
           /\ got' = Append(got, h[Len(got) + 1])
           /\ ReadPrefixBounded'
           /\ UnreadIsSuffix'
  <1>1. /\ Len(q) \in Nat /\ readIndex \in Nat /\ Len(got) \in Nat /\ Len(h) \in Nat
        /\ got \in Seq(Update)
    BY DEF TypeOK
  <1>2. /\ queue' \in Seq(Update)
        /\ readIndex' \in 0..Len(queue')
        /\ readIndex' <= CompactAt \/ readIndex' * 2 <= Len(queue')
        /\ got' = Append(got, q[readIndex + 1])
        /\ got' \in Seq(Update)
        /\ Len(got') = Len(got) + 1
        /\ Len(queue') - readIndex' = Len(q) - readIndex - 1
        /\ \A i \in 1..(Len(queue') - readIndex') :
              queue'[readIndex' + i] = q[readIndex + 1 + i]
    BY <1>1, DequeueReads
  <1>3. q[readIndex + 1] = h[Len(got) + 1]
    BY <1>1
  <1>4. \A i \in 1..(Len(queue') - readIndex') :
           queue'[readIndex' + i] = h[Len(got) + 1 + i]
    <2> SUFFICES ASSUME NEW i \in 1..(Len(queue') - readIndex')
                 PROVE  queue'[readIndex' + i] = h[Len(got) + 1 + i]
      OBVIOUS
    <2>1. i \in Nat /\ i + 1 \in 1..(Len(q) - readIndex)
      BY <1>1, <1>2
    <2>2. q[readIndex + (i + 1)] = h[Len(got) + (i + 1)]
      BY <2>1
    <2>3. readIndex + (i + 1) = readIndex + 1 + i /\ Len(got) + (i + 1) = Len(got) + 1 + i
      BY <1>1, <2>1
    <2> QED
      BY <1>2, <2>2, <2>3
  <1> QED
    BY <1>1, <1>2, <1>3, <1>4 DEF ReadPrefixBounded, UnreadIsSuffix

-----------------------------------------------------------------------------
(* The steps                                                                 *)

\* A push either stores the update or hands over the next one.
LEMMA PushNext ==
    ASSUME Inv, NEW u \in Update, Push(u)
    PROVE  Inv' /\ Channel!Send(u)
  <1> USE DEF Inv, TypeOK
  <1> DEFINE q == Append(queue, u)
             h == Append(sent, u)
  <1>1. /\ q \in Seq(Update) /\ Len(q) = Len(queue) + 1 /\ q[Len(queue) + 1] = u
        /\ \A i \in 1..Len(queue) : q[i] = queue[i]
        /\ h \in Seq(Update) /\ Len(h) = Len(sent) + 1 /\ h[Len(sent) + 1] = u
        /\ \A i \in 1..Len(sent) : h[i] = sent[i]
    BY AppendProperties
  <1>2. /\ Len(queue) \in Nat /\ Len(sent) \in Nat /\ Len(got) \in Nat
        /\ readIndex \in Nat /\ readIndex <= Len(queue)
    OBVIOUS
  <1>3. /\ sent' = h /\ done = "open" /\ done' = "open" /\ wake' = FALSE
        /\ IF wake THEN Answer(q, "open")
           ELSE queue' = q /\ UNCHANGED <<readIndex, got, outcome>>
    BY DEF Push, Produce
  <1> HIDE DEF q, h
  <1>4. readIndex < Len(q)
    BY <1>1, <1>2
  <1>5. /\ Len(h) - Len(got) = Len(q) - readIndex
        /\ \A i \in 1..(Len(q) - readIndex) : q[readIndex + i] = h[Len(got) + i]
    <2>1. Len(h) - Len(got) = Len(q) - readIndex
      BY <1>1, <1>2 DEF UnreadIsSuffix
    <2> SUFFICES ASSUME NEW i \in 1..(Len(q) - readIndex)
                 PROVE  q[readIndex + i] = h[Len(got) + i]
      BY <2>1
    <2>2. CASE i \in 1..(Len(queue) - readIndex)
      <3>1. readIndex + i \in 1..Len(queue) /\ Len(got) + i \in 1..Len(sent)
        BY <1>2, <2>2 DEF UnreadIsSuffix
      <3> QED
        BY <1>1, <2>2, <3>1 DEF UnreadIsSuffix
    <2>3. CASE i = Len(q) - readIndex
      <3>1. readIndex + i = Len(queue) + 1 /\ Len(got) + i = Len(sent) + 1
        BY <1>1, <1>2, <2>1, <2>3
      <3> QED
        BY <1>1, <3>1
    <2> QED
      BY <1>1, <1>2, <2>2, <2>3
  <1>6. CASE wake
    <2>1. Dequeue(q) /\ UNCHANGED outcome
      BY <1>3, <1>4, <1>6 DEF Answer
    <2>2. /\ queue' \in Seq(Update) /\ readIndex' \in 0..Len(queue')
          /\ got' \in Seq(Update)
          /\ got' = Append(got, h[Len(got) + 1])
          /\ ReadPrefixBounded'
          /\ UnreadIsSuffix'
      BY <1>1, <1>3, <1>4, <1>5, <2>1, DequeueInOrder
    <2>3. Inv'
      BY <1>1, <1>3, <2>1, <2>2 DEF NoLostWakeUp
    <2>4. Channel!Send(u)
      BY <1>3, <2>1, <2>2 DEF Channel!Send, Channel!Receive, h
    <2> QED
      BY <2>3, <2>4
  <1>7. CASE ~wake
    <2>1. queue' = q /\ UNCHANGED <<readIndex, got, outcome>>
      BY <1>3, <1>7
    <2>2. Inv'
      <3>1. TypeOK'
        <4>1. readIndex' \in 0..Len(queue')
          BY <1>1, <1>2, <2>1
        <4>2. sent' \in Seq(Update) /\ got' \in Seq(Update) /\ queue' \in Seq(Update)
          BY <1>1, <1>3, <2>1
        <4> QED
          BY <1>3, <2>1, <4>1, <4>2
      <3>2. NoLostWakeUp'
        BY <1>3 DEF NoLostWakeUp
      <3>3. ReadPrefixBounded'
        BY <1>1, <1>2, <2>1, CompactAtAssumption DEF ReadPrefixBounded
      <3>4. UnreadIsSuffix'
        BY <1>1, <1>2, <1>3, <1>5, <2>1 DEF UnreadIsSuffix
      <3> QED
        BY <3>1, <3>2, <3>3, <3>4
    <2>3. Channel!Send(u)
      BY <1>3, <2>1 DEF Channel!Send, h
    <2> QED
      BY <2>2, <2>3
  <1> QED
    BY <1>6, <1>7

\* The end, or an error, reaches a waiting consumer, which has nothing unread.
LEMMA FinishNext ==
    ASSUME Inv, PushError \/ Close
    PROVE  Inv' /\ Channel!Finish
  <1> USE DEF Inv, TypeOK
  <1>1. PICK d \in {"end", "error"} : Produce(queue, d) /\ done = "open" /\ UNCHANGED sent
    BY DEF PushError, Close
  <1>2. CASE wake
    <2>1. /\ readIndex = Len(queue) /\ outcome = "none"
          /\ outcome' = d /\ done' = d /\ wake' = FALSE
          /\ UNCHANGED <<queue, readIndex, got, sent>>
      BY <1>1, <1>2 DEF NoLostWakeUp, Produce, Answer
    <2>2. Inv'
      BY <2>1 DEF NoLostWakeUp, ReadPrefixBounded, UnreadIsSuffix
    <2>3. ~(Len(got) < Len(sent))
      BY <2>1 DEF UnreadIsSuffix
    <2> QED
      BY <1>1, <2>1, <2>2, <2>3 DEF Channel!Finish, Channel!Unread, Channel!Ending
  <1>3. CASE ~wake
    <2>1. /\ done' = d /\ wake' = FALSE
          /\ UNCHANGED <<queue, readIndex, got, sent, outcome>>
      BY <1>1, <1>3 DEF Produce
    <2>2. Inv'
      BY <2>1 DEF NoLostWakeUp, ReadPrefixBounded, UnreadIsSuffix
    <2> QED
      BY <1>1, <2>1, <2>2 DEF Channel!Finish, Channel!Ending
  <1> QED
    BY <1>2, <1>3

\* next() takes an update, learns the end, or waits.
LEMMA NextPromiseNext ==
    ASSUME Inv, NextPromise
    PROVE  /\ Inv'
           /\ Channel!Take \/ Channel!Conclude \/ UNCHANGED Channel!vars
  <1> USE DEF Inv, TypeOK
  <1>1. /\ ~wake /\ outcome = "none" /\ UNCHANGED <<done, sent>>
        /\ Len(queue) \in Nat /\ Len(sent) \in Nat /\ Len(got) \in Nat
    BY DEF NextPromise
  <1>2. CASE readIndex < Len(queue)
    <2>1. Dequeue(queue) /\ UNCHANGED <<outcome, wake>>
      BY <1>2 DEF NextPromise, Answer
    <2>2. /\ queue' \in Seq(Update) /\ readIndex' \in 0..Len(queue')
          /\ got' \in Seq(Update)
          /\ got' = Append(got, sent[Len(got) + 1])
          /\ ReadPrefixBounded'
          /\ UnreadIsSuffix'
      BY <1>1, <1>2, <2>1, DequeueInOrder DEF UnreadIsSuffix
    <2>3. Inv'
      BY <1>1, <2>1, <2>2 DEF NoLostWakeUp
    <2>4. Len(got) < Len(sent)
      BY <1>1, <1>2 DEF UnreadIsSuffix
    <2> QED
      BY <1>1, <2>1, <2>2, <2>3, <2>4 DEF Channel!Take, Channel!Receive, Channel!Unread
  <1>3. CASE ~(readIndex < Len(queue)) /\ done # "open"
    <2>1. outcome' = done /\ UNCHANGED <<queue, readIndex, got, wake>>
      BY <1>3 DEF NextPromise, Answer
    <2>2. Inv'
      <3>1. TypeOK'
        BY <1>1, <1>3, <2>1
      <3>2. NoLostWakeUp'
        BY <1>1, <2>1 DEF NoLostWakeUp
      <3>3. ReadPrefixBounded' /\ UnreadIsSuffix'
        BY <1>1, <2>1 DEF ReadPrefixBounded, UnreadIsSuffix
      <3> QED
        BY <3>1, <3>2, <3>3
    <2>3. ~(Len(got) < Len(sent))
      BY <1>1, <1>3 DEF UnreadIsSuffix
    <2> QED
      BY <1>1, <1>3, <2>1, <2>2, <2>3 DEF Channel!Conclude, Channel!Unread
  <1>4. CASE ~(readIndex < Len(queue)) /\ done = "open"
    <2>1. wake' = TRUE /\ UNCHANGED <<queue, readIndex, got, outcome>>
      BY <1>4 DEF NextPromise
    <2>2. Inv'
      BY <1>1, <1>4, <2>1 DEF NoLostWakeUp, ReadPrefixBounded, UnreadIsSuffix
    <2> QED
      BY <1>1, <2>1, <2>2 DEF Channel!vars
  <1> QED
    BY <1>2, <1>3, <1>4

\* Every step keeps the invariant and is one of the channel's, or none.
LEMMA StepNext ==
    Inv /\ [Next]_vars => Inv' /\ [Channel!Next]_(Channel!vars)
  <1> SUFFICES ASSUME Inv, [Next]_vars
               PROVE  Inv' /\ [Channel!Next]_(Channel!vars)
    OBVIOUS
  <1>1. ASSUME NEW u \in Update, Push(u) PROVE Inv' /\ Channel!Next
    BY <1>1, PushNext DEF Channel!Next
  <1>2. CASE PushError \/ Close
    BY <1>2, FinishNext DEF Channel!Next
  <1>3. CASE NextPromise
    BY <1>3, NextPromiseNext DEF Channel!Next
  <1>4. CASE UNCHANGED vars
    BY <1>4 DEF vars, Channel!vars, Inv, TypeOK, NoLostWakeUp, ReadPrefixBounded, UnreadIsSuffix
  <1> QED
    BY <1>1, <1>2, <1>3, <1>4 DEF Next

-----------------------------------------------------------------------------
\* Every variable keeps its type.
THEOREM TypeCorrect == Spec => []TypeOK
  <1>1. Inv => TypeOK
    BY DEF Inv
  <1> QED
    BY InvInit, StepNext, <1>1, PTL DEF Spec

\* A consumer never sleeps while there is an update or an end to be seen.
THEOREM WakeUpNeverLost == Spec => []NoLostWakeUp
  <1>1. Inv => NoLostWakeUp
    BY DEF Inv
  <1> QED
    BY InvInit, StepNext, <1>1, PTL DEF Spec

\* The array never retains a read prefix longer than the threshold and than
\* what is still unread.
THEOREM PrefixBounded == Spec => []ReadPrefixBounded
  <1>1. Inv => ReadPrefixBounded
    BY DEF Inv
  <1> QED
    BY InvInit, StepNext, <1>1, PTL DEF Spec

\* The queue implements the channel: every update that was accepted is received
\* once and in order, compactions notwithstanding, and the end after the last.
THEOREM QueueImplementsChannel == Spec => ImplementsChannel
  <1>1. Init => Channel!Init
    BY DEF Init, Channel!Init
  <1> QED
    BY InvInit, StepNext, <1>1, PTL DEF Spec, ImplementsChannel, Channel!Spec

-----------------------------------------------------------------------------
(* The envelopes: the inductive invariant                                    *)

Shows(e) == e.kind # "finish"

\* What waits for the next pull is the chunk of an update whose native envelope was given.
DueInv(s) ==
    due[s] # <<>> =>
        /\ phase[s] \in {"yielded", "abandoned"}
        /\ WantsNative(s) /\ HasChunk(s, taken[s]) /\ taken[s] > 0
        /\ due[s] = <<Chunk(taken[s], due[s][1].id)>> /\ due[s][1].id \in Nat
        /\ \A i \in DOMAIN out[s] : out[s][i].kind = "chunk" => out[s][i].of < taken[s]

\* What was given is in order, and of updates that were read and have such an envelope.
OrderInv(s) ==
    /\ \A i, j \in DOMAIN out[s] :
          i < j /\ Shows(out[s][i]) /\ Shows(out[s][j]) => Precedes(out[s][i], out[s][j])
    /\ \A i \in DOMAIN out[s] : Shows(out[s][i]) => out[s][i].of \in 1..taken[s]
    /\ \A i \in DOMAIN out[s] : out[s][i].kind = "native" => WantsNative(s)
    /\ \A i \in DOMAIN out[s] : out[s][i].kind = "chunk" => HasChunk(s, out[s][i].of)

\* Nothing that was read is missing, but for the chunk that is due.
GivenAs(s, n, kind) == \E i \in DOMAIN out[s] : out[s][i].kind = kind /\ out[s][i].of = n

ContentInv(s) ==
    \A n \in 1..taken[s] :
        /\ WantsNative(s) => GivenAs(s, n, "native")
        /\ HasChunk(s, n) => GivenAs(s, n, "chunk") \/ (n = taken[s] /\ due[s] # <<>>)

\* The loop has ended when everything was read, with its finish chunk as the last envelope.
EndInv(s) ==
    /\ phase[s] \in {"told", "finished", "failed"} =>
          prompt[s] # "pending" /\ taken[s] = Len(fed[s])
    /\ WantsOpenAI(s) /\ phase[s] \in {"told", "finished"} =>
          \E i \in DOMAIN out[s] : out[s][i].kind = "finish"
    /\ \A i \in DOMAIN out[s] : out[s][i].kind = "finish" =>
          /\ i = Len(out[s]) /\ phase[s] \in {"told", "finished"} /\ WantsOpenAI(s)
          /\ prompt[s] = "resolved" /\ out[s][i].reason = ToFinishReason(reason[s])

StreamInv == \A s \in Stream : DueInv(s) /\ OrderInv(s) /\ ContentInv(s) /\ EndInv(s)

\* Ids are taken from below the counter, once each.
NumberedIn(q) == {i \in DOMAIN q : q[i].kind # "native"}

IdsFrom(given, waiting, count) ==
    /\ \A s, t \in Stream : \A i \in NumberedIn(given[s]), j \in NumberedIn(given[t]) :
          given[s][i].id = given[t][j].id => s = t /\ i = j
    /\ \A s \in Stream : \A i \in NumberedIn(given[s]) :
          given[s][i].id \in Nat /\ given[s][i].id <= count
    /\ \A s \in Stream : waiting[s] # <<>> =>
          /\ waiting[s][1].id \in Nat /\ waiting[s][1].id <= count
          /\ \A t \in Stream : \A i \in NumberedIn(given[t]) :
                given[t][i].id # waiting[s][1].id
          /\ \A t \in Stream : t # s /\ waiting[t] # <<>> =>
                waiting[t][1].id # waiting[s][1].id

IdsInv == IdsFrom(out, due, chunkSeq)

EnvelopesInv == EnvelopesTypeOK /\ StreamInv /\ IdsInv

-----------------------------------------------------------------------------
(* Sequences and envelopes                                                   *)

LEMMA Appending ==
    ASSUME NEW S, NEW q \in Seq(S), NEW e \in S
    PROVE  /\ Append(q, e) \in Seq(S)
           /\ Len(q) \in Nat /\ Len(Append(q, e)) = Len(q) + 1
           /\ DOMAIN q = 1..Len(q) /\ DOMAIN Append(q, e) = 1..(Len(q) + 1)
           /\ \A i \in 1..Len(q) : Append(q, e)[i] = q[i]
           /\ Append(q, e)[Len(q) + 1] = e
  OBVIOUS

LEMMA EnvelopeKinds ==
    ASSUME NEW n \in Nat, NEW id \in Nat, NEW r
    PROVE  /\ Native(n) \in Envelope /\ Native(n).kind = "native" /\ Native(n).of = n
           /\ Chunk(n, id) \in Envelope /\ Chunk(n, id).kind = "chunk"
           /\ Chunk(n, id).of = n /\ Chunk(n, id).id = id
           /\ Final(ToFinishReason(r), id) \in Envelope
           /\ Final(ToFinishReason(r), id).kind = "finish"
           /\ Final(ToFinishReason(r), id).reason = ToFinishReason(r)
           /\ Final(ToFinishReason(r), id).id = id
  <1>1. Native(n) \in Envelope /\ Native(n).kind = "native" /\ Native(n).of = n
    BY DEF Native, Envelope
  <1>2. /\ Chunk(n, id) \in Envelope /\ Chunk(n, id).kind = "chunk"
        /\ Chunk(n, id).of = n /\ Chunk(n, id).id = id
    BY DEF Chunk, Envelope
  <1>3. ToFinishReason(r) \in {"stop", "length", "content_filter"}
    BY DEF ToFinishReason, FinishReasonOf
  <1>4. /\ Final(ToFinishReason(r), id) \in Envelope
        /\ Final(ToFinishReason(r), id).kind = "finish"
        /\ Final(ToFinishReason(r), id).reason = ToFinishReason(r)
        /\ Final(ToFinishReason(r), id).id = id
    BY <1>3 DEF Final, Envelope
  <1> QED
    BY <1>1, <1>2, <1>4

\* The kinds are told apart, and the fields are numbers.
LEMMA EnvelopeFields ==
    ASSUME NEW e \in Envelope
    PROVE  /\ e.kind \in {"native", "chunk", "finish"}
           /\ Shows(e) => e.of \in Nat
           /\ e.kind # "native" => e.id \in Nat
  BY DEF Envelope, Shows

LEMMA TypedEnvelopes ==
    ASSUME EnvelopesTypeOK, NEW s \in Stream, NEW i \in DOMAIN out[s]
    PROVE  out[s][i] \in Envelope
  BY DEF EnvelopesTypeOK

\* Short sequences.
LEMMA ShortSequences ==
    ASSUME NEW v, NEW c
    PROVE  /\ <<v>> \o <<c>> = <<v, c>> /\ <<v>> \o <<>> = <<v>>
           /\ <<>> \o <<c>> = <<c>> /\ <<>> \o <<>> = <<>>
           /\ <<v, c>> # <<>> /\ Head(<<v, c>>) = v /\ Tail(<<v, c>>) = <<c>>
           /\ <<v>> # <<>> /\ Head(<<v>>) = v /\ Tail(<<v>>) = <<>>
  <1>1. <<v>> \o <<c>> = <<v, c>> /\ <<v>> \o <<>> = <<v>>
    <2>1. <<v>> \in Seq({v, c}) /\ Len(<<v>>) = 1 /\ <<v>>[1] = v
      OBVIOUS
    <2>2. <<c>> \in Seq({v, c}) /\ Len(<<c>>) = 1 /\ <<c>>[1] = c
      OBVIOUS
    <2>3. <<v, c>> \in Seq({v, c}) /\ Len(<<v, c>>) = 2 /\ <<v, c>>[1] = v /\ <<v, c>>[2] = c
      OBVIOUS
    <2> DEFINE x == <<v>>  y == <<c>>  z == <<v, c>>
    <2> HIDE DEF x, y, z
    <2>4. /\ x \o y \in Seq({v, c}) /\ Len(x \o y) = 2
          /\ (x \o y)[1] = v /\ (x \o y)[2] = c
      <3>1. /\ x \in Seq({v, c}) /\ y \in Seq({v, c}) /\ Len(x) = 1 /\ Len(y) = 1
            /\ x[1] = v /\ y[1] = c
        BY <2>1, <2>2 DEF x, y
      <3> QED
        BY <3>1, ConcatProperties
    <2>5. x \o y = z
      <3>1. z \in Seq({v, c}) /\ Len(z) = 2 /\ z[1] = v /\ z[2] = c
        BY <2>3 DEF z
      <3> QED
        BY <2>4, <3>1, SeqEqual
    <2>6. x \o <<>> = x
      <3>1. x \in Seq({v, c})
        BY <2>1 DEF x
      <3> QED
        BY <3>1, ConcatEmptySeq
    <2> QED
      BY <2>5, <2>6 DEF x, y, z
  <1>2. <<>> \o <<c>> = <<c>> /\ <<>> \o <<>> = <<>>
    OBVIOUS
  <1>3. <<v, c>> # <<>> /\ Head(<<v, c>>) = v /\ Tail(<<v, c>>) = <<c>>
    <2>1. <<v, c>> \in Seq({v, c}) /\ Len(<<v, c>>) = 2 /\ <<v, c>> # <<>>
      OBVIOUS
    <2>2. /\ Tail(<<v, c>>) \in Seq({v, c}) /\ Len(Tail(<<v, c>>)) = 1
          /\ Tail(<<v, c>>)[1] = c
      BY <2>1
    <2>3. <<c>> \in Seq({v, c}) /\ Len(<<c>>) = 1 /\ <<c>>[1] = c
      OBVIOUS
    <2>4. Tail(<<v, c>>) = <<c>>
      BY <2>2, <2>3, SeqEqual
    <2>5. Head(<<v, c>>) = v
      OBVIOUS
    <2> QED
      BY <2>1, <2>4, <2>5
  <1>4. <<v>> # <<>> /\ Head(<<v>>) = v /\ Tail(<<v>>) = <<>>
    OBVIOUS
  <1> QED
    BY <1>1, <1>2, <1>3, <1>4

\* The envelopes of an update: none, one, or its native one and then its chunk.
LEMMA EnvelopesOfUpdate ==
    ASSUME NEW s \in Stream, NEW n \in Nat
    PROVE  /\ WantsNative(s) /\ HasChunk(s, n) =>
                 /\ Envelopes(s, n) # <<>> /\ Head(Envelopes(s, n)) = Native(n)
                 /\ Tail(Envelopes(s, n)) = <<Chunk(n, NextId(s))>>
           /\ WantsNative(s) /\ ~HasChunk(s, n) =>
                 /\ Envelopes(s, n) # <<>> /\ Head(Envelopes(s, n)) = Native(n)
                 /\ Tail(Envelopes(s, n)) = <<>>
           /\ ~WantsNative(s) /\ HasChunk(s, n) =>
                 /\ Envelopes(s, n) # <<>> /\ Head(Envelopes(s, n)) = Chunk(n, NextId(s))
                 /\ Tail(Envelopes(s, n)) = <<>>
           /\ ~WantsNative(s) /\ ~HasChunk(s, n) => Envelopes(s, n) = <<>>
  <1> DEFINE c == Chunk(n, NextId(s))  v == Native(n)  es == Envelopes(s, n)
  <1>1. es = (IF WantsNative(s) THEN <<v>> ELSE <<>>)
                 \o (IF HasChunk(s, n) THEN <<c>> ELSE <<>>)
    BY DEF Envelopes
  <1> HIDE DEF c, v, es
  <1>6. /\ <<v>> \o <<c>> = <<v, c>> /\ <<v>> \o <<>> = <<v>>
        /\ <<>> \o <<c>> = <<c>> /\ <<>> \o <<>> = <<>>
        /\ <<v, c>> # <<>> /\ Head(<<v, c>>) = v /\ Tail(<<v, c>>) = <<c>>
        /\ <<v>> # <<>> /\ Head(<<v>>) = v /\ Tail(<<v>>) = <<>>
        /\ <<c>> # <<>> /\ Head(<<c>>) = c /\ Tail(<<c>>) = <<>>
    BY ShortSequences
  <1>2. ASSUME WantsNative(s), HasChunk(s, n)
        PROVE  es # <<>> /\ Head(es) = v /\ Tail(es) = <<c>>
    <2>1. es = <<v>> \o <<c>>
      BY <1>1, <1>2
    <2> QED
      BY <2>1, <1>6
  <1>3. ASSUME WantsNative(s), ~HasChunk(s, n)
        PROVE  es # <<>> /\ Head(es) = v /\ Tail(es) = <<>>
    <2>1. es = <<v>> \o <<>>
      BY <1>1, <1>3
    <2> QED
      BY <2>1, <1>6
  <1>4. ASSUME ~WantsNative(s), HasChunk(s, n)
        PROVE  es # <<>> /\ Head(es) = c /\ Tail(es) = <<>>
    <2>1. es = <<>> \o <<c>>
      BY <1>1, <1>4
    <2> QED
      BY <2>1, <1>6
  <1>5. ASSUME ~WantsNative(s), ~HasChunk(s, n)
        PROVE  es = <<>>
    <2>1. es = <<>> \o <<>>
      BY <1>1, <1>5
    <2> QED
      BY <2>1, <1>6
  <1> QED
    BY <1>2, <1>3, <1>4, <1>5 DEF c, v, es

\* What reading an update does, by the envelopes it has.
Give(s, e, ds, seq) ==
    /\ phase' = [phase EXCEPT ![s] = "yielded"]
    /\ out' = [out EXCEPT ![s] = Append(out[s], e)]
    /\ due' = [due EXCEPT ![s] = ds]
    /\ chunkSeq' = seq

LEMMA TakeCases ==
    ASSUME EnvelopesTypeOK, NEW s \in Stream, Take(s)
    PROVE  LET n == taken[s] + 1 IN
           /\ phase[s] = "reading" /\ n \in 1..Len(fed[s])
           /\ taken' = [taken EXCEPT ![s] = n] /\ UNCHANGED <<mode, fed, prompt, reason>>
           /\ \/ ~WantsNative(s) /\ ~HasChunk(s, n) /\ UNCHANGED <<phase, due, out, chunkSeq>>
              \/ /\ WantsNative(s) /\ HasChunk(s, n)
                 /\ Give(s, Native(n), <<Chunk(n, chunkSeq + 1)>>, chunkSeq + 1)
              \/ WantsNative(s) /\ ~HasChunk(s, n) /\ Give(s, Native(n), <<>>, chunkSeq)
              \/ /\ ~WantsNative(s) /\ HasChunk(s, n)
                 /\ Give(s, Chunk(n, chunkSeq + 1), <<>>, chunkSeq + 1)
  <1> DEFINE n == taken[s] + 1
  <1>1. taken[s] \in Nat /\ Len(fed[s]) \in Nat /\ taken \in [Stream -> Nat]
    BY DEF EnvelopesTypeOK
  <1>2. /\ phase[s] = "reading" /\ taken[s] < Len(fed[s])
        /\ taken' = [taken EXCEPT ![s] = n] /\ UNCHANGED <<mode, fed, prompt, reason>>
    BY DEF Take
  <1>3. taken'[s] = n /\ n \in Nat /\ n \in 1..Len(fed[s])
    BY <1>1, <1>2
  <1>4. /\ chunkSeq' = IF HasChunk(s, n) THEN chunkSeq + 1 ELSE chunkSeq
        /\ IF Envelopes(s, n) = <<>> THEN UNCHANGED <<phase, due, out>>
           ELSE /\ phase' = [phase EXCEPT ![s] = "yielded"]
                /\ out' = [out EXCEPT ![s] = Append(out[s], Head(Envelopes(s, n)))]
                /\ due' = [due EXCEPT ![s] = Tail(Envelopes(s, n))]
    BY <1>3 DEF Take
  <1> HIDE DEF n
  <1>5. /\ WantsNative(s) /\ HasChunk(s, n) =>
              /\ Envelopes(s, n) # <<>> /\ Head(Envelopes(s, n)) = Native(n)
              /\ Tail(Envelopes(s, n)) = <<Chunk(n, chunkSeq + 1)>>
        /\ WantsNative(s) /\ ~HasChunk(s, n) =>
              /\ Envelopes(s, n) # <<>> /\ Head(Envelopes(s, n)) = Native(n)
              /\ Tail(Envelopes(s, n)) = <<>>
        /\ ~WantsNative(s) /\ HasChunk(s, n) =>
              /\ Envelopes(s, n) # <<>> /\ Head(Envelopes(s, n)) = Chunk(n, chunkSeq + 1)
              /\ Tail(Envelopes(s, n)) = <<>>
        /\ ~WantsNative(s) /\ ~HasChunk(s, n) => Envelopes(s, n) = <<>>
    BY <1>3, EnvelopesOfUpdate DEF NextId
  <1>6. \/ ~WantsNative(s) /\ ~HasChunk(s, n) /\ UNCHANGED <<phase, due, out, chunkSeq>>
        \/ /\ WantsNative(s) /\ HasChunk(s, n)
           /\ Give(s, Native(n), <<Chunk(n, chunkSeq + 1)>>, chunkSeq + 1)
        \/ WantsNative(s) /\ ~HasChunk(s, n) /\ Give(s, Native(n), <<>>, chunkSeq)
        \/ /\ ~WantsNative(s) /\ HasChunk(s, n)
           /\ Give(s, Chunk(n, chunkSeq + 1), <<>>, chunkSeq + 1)
    BY <1>4, <1>5 DEF Give
  <1> QED
    BY <1>2, <1>3, <1>6 DEF n

-----------------------------------------------------------------------------
(* The ids                                                                   *)

\* An envelope more is numbered, or is not; the others are where they were.
LEMMA NumberedOnes ==
    ASSUME EnvelopesTypeOK, NEW s \in Stream, NEW e \in Envelope,
           out' = [out EXCEPT ![s] = Append(out[s], e)]
    PROVE  /\ \A t \in Stream : t # s => out'[t] = out[t]
           /\ e.kind = "native" => NumberedIn(out'[s]) = NumberedIn(out[s])
           /\ e.kind # "native" => NumberedIn(out'[s]) = NumberedIn(out[s]) \cup {Len(out[s]) + 1}
           /\ \A i \in NumberedIn(out[s]) : out'[s][i] = out[s][i]
           /\ out'[s][Len(out[s]) + 1] = e
           /\ Len(out[s]) + 1 \notin NumberedIn(out[s])
  <1>1. out \in [Stream -> Seq(Envelope)] /\ out[s] \in Seq(Envelope)
    BY DEF EnvelopesTypeOK
  <1>2. /\ out'[s] = Append(out[s], e)
        /\ \A t \in Stream : t # s => out'[t] = out[t]
    BY <1>1
  <1>3. /\ Len(out[s]) \in Nat
        /\ DOMAIN out[s] = 1..Len(out[s]) /\ DOMAIN out'[s] = 1..(Len(out[s]) + 1)
        /\ \A i \in 1..Len(out[s]) : out'[s][i] = out[s][i]
        /\ out'[s][Len(out[s]) + 1] = e
    BY <1>1, <1>2, Appending
  <1>5. NumberedIn(out[s]) \subseteq 1..Len(out[s]) /\ Len(out[s]) + 1 \notin NumberedIn(out[s])
    BY <1>3 DEF NumberedIn
  <1>6. /\ e.kind = "native" => NumberedIn(out'[s]) = NumberedIn(out[s])
        /\ e.kind # "native" => NumberedIn(out'[s]) = NumberedIn(out[s]) \cup {Len(out[s]) + 1}
    <2>1. 1..(Len(out[s]) + 1) = (1..Len(out[s])) \cup {Len(out[s]) + 1}
      BY <1>3
    <2> DEFINE l == Len(out[s]) + 1
    <2>2. NumberedIn(out'[s]) = {i \in (1..Len(out[s])) \cup {l} : out'[s][i].kind # "native"}
      BY <1>3, <2>1 DEF NumberedIn
    <2>3. NumberedIn(out[s]) = {i \in 1..Len(out[s]) : out[s][i].kind # "native"}
      BY <1>3 DEF NumberedIn
    <2>4. out'[s][l] = e /\ l \notin 1..Len(out[s])
      BY <1>3
    <2> HIDE DEF l
    <2> QED
      BY <1>3, <2>2, <2>3, <2>4 DEF l
  <1> QED
    BY <1>2, <1>3, <1>5, <1>6

\* A native envelope, with nothing due after it, or with the chunk of its update, which
\* has the next id.
LEMMA IdsKept ==
    ASSUME chunkSeq \in Nat, IdsFrom(out, due, chunkSeq), NEW s \in Stream,
           \A t \in Stream : NumberedIn(out'[t]) = NumberedIn(out[t]),
           \A t \in Stream : \A i \in NumberedIn(out[t]) : out'[t][i] = out[t][i],
           \A t \in Stream : t # s => due'[t] = due[t]
    PROVE  /\ due'[s] = <<>> => IdsFrom(out', due', chunkSeq)
           /\ due'[s] # <<>> /\ due'[s][1].id = chunkSeq + 1 => IdsFrom(out', due', chunkSeq + 1)
  <1>1. \A t, u \in Stream : \A i \in NumberedIn(out'[t]), j \in NumberedIn(out'[u]) :
            out'[t][i].id = out'[u][j].id => t = u /\ i = j
    BY DEF IdsFrom
  <1>2. \A t \in Stream : \A i \in NumberedIn(out'[t]) :
            out'[t][i].id \in Nat /\ out'[t][i].id <= chunkSeq
    BY DEF IdsFrom
  <1>3. \A t \in Stream : t # s /\ due'[t] # <<>> =>
            /\ due'[t][1].id \in Nat /\ due'[t][1].id <= chunkSeq
            /\ \A u \in Stream : \A i \in NumberedIn(out'[u]) : out'[u][i].id # due'[t][1].id
            /\ \A u \in Stream : u # t /\ u # s /\ due'[u] # <<>> => due'[u][1].id # due'[t][1].id
    BY DEF IdsFrom
  <1>4. ASSUME due'[s] = <<>> PROVE IdsFrom(out', due', chunkSeq)
    BY <1>1, <1>2, <1>3, <1>4 DEF IdsFrom
  <1>5. ASSUME due'[s] # <<>>, due'[s][1].id = chunkSeq + 1 PROVE IdsFrom(out', due', chunkSeq + 1)
    <2>1. \A t \in Stream : \A i \in NumberedIn(out'[t]) :
              out'[t][i].id \in Nat /\ out'[t][i].id <= chunkSeq + 1 /\ out'[t][i].id # chunkSeq + 1
      BY <1>2
    <2>2. \A t \in Stream : t # s /\ due'[t] # <<>> =>
              due'[t][1].id <= chunkSeq + 1 /\ due'[t][1].id # chunkSeq + 1
      BY <1>3
    <2>3. ASSUME NEW t \in Stream, due'[t] # <<>>
          PROVE  /\ due'[t][1].id \in Nat /\ due'[t][1].id <= chunkSeq + 1
                 /\ \A u \in Stream : \A i \in NumberedIn(out'[u]) : out'[u][i].id # due'[t][1].id
                 /\ \A u \in Stream : u # t /\ due'[u] # <<>> => due'[u][1].id # due'[t][1].id
      <3>1. CASE t = s
        BY <1>5, <2>1, <2>2, <3>1
      <3>2. CASE t # s
        BY <1>3, <1>5, <2>2, <2>3, <3>2
      <3> QED
        BY <3>1, <3>2
    <2> QED
      BY <1>1, <2>1, <2>3 DEF IdsFrom
  <1> QED
    BY <1>4, <1>5

\* A numbered envelope, with the next id or with the one that was due.
LEMMA IdsTaken ==
    ASSUME chunkSeq \in Nat, IdsFrom(out, due, chunkSeq), NEW s \in Stream,
           NEW l, l \notin NumberedIn(out[s]),
           NumberedIn(out'[s]) = NumberedIn(out[s]) \cup {l},
           \A i \in NumberedIn(out[s]) : out'[s][i] = out[s][i],
           \A t \in Stream : t # s => out'[t] = out[t] /\ due'[t] = due[t],
           due'[s] = <<>>
    PROVE  /\ out'[s][l].id = chunkSeq + 1 => IdsFrom(out', due', chunkSeq + 1)
           /\ due[s] # <<>> /\ out'[s][l].id = due[s][1].id => IdsFrom(out', due', chunkSeq)
  <1>1. \A t \in Stream : \A i \in NumberedIn(out'[t]) :
            \/ i \in NumberedIn(out[t]) /\ out'[t][i] = out[t][i]
            \/ t = s /\ i = l
    OBVIOUS
  <1>2. \A t, u \in Stream : \A i \in NumberedIn(out[t]), j \in NumberedIn(out[u]) :
            out[t][i].id = out[u][j].id => t = u /\ i = j
    BY DEF IdsFrom
  <1>3. \A t \in Stream : \A i \in NumberedIn(out[t]) :
            out[t][i].id \in Nat /\ out[t][i].id <= chunkSeq
    BY DEF IdsFrom
  <1>4. \A t \in Stream : due'[t] # <<>> =>
            /\ t # s /\ due'[t] = due[t]
            /\ due'[t][1].id \in Nat /\ due'[t][1].id <= chunkSeq
            /\ \A u \in Stream : \A i \in NumberedIn(out[u]) : out[u][i].id # due'[t][1].id
            /\ \A u \in Stream : u # t /\ due'[u] # <<>> => due'[u][1].id # due'[t][1].id
    BY DEF IdsFrom
  <1>5. ASSUME \A t \in Stream : \A i \in NumberedIn(out[t]) : out[t][i].id # out'[s][l].id
        PROVE  \A t, u \in Stream : \A i \in NumberedIn(out'[t]), j \in NumberedIn(out'[u]) :
                   out'[t][i].id = out'[u][j].id => t = u /\ i = j
    BY <1>1, <1>2, <1>5
  <1>6. ASSUME out'[s][l].id = chunkSeq + 1 PROVE IdsFrom(out', due', chunkSeq + 1)
    <2>1. \A t \in Stream : \A i \in NumberedIn(out[t]) : out[t][i].id # out'[s][l].id
      BY <1>3, <1>6
    <2>2. \A t \in Stream : \A i \in NumberedIn(out'[t]) :
              out'[t][i].id \in Nat /\ out'[t][i].id <= chunkSeq + 1
      BY <1>1, <1>3, <1>6
    <2>3. \A t \in Stream : due'[t] # <<>> =>
              /\ due'[t][1].id \in Nat /\ due'[t][1].id <= chunkSeq + 1
              /\ \A u \in Stream : \A i \in NumberedIn(out'[u]) : out'[u][i].id # due'[t][1].id
              /\ \A u \in Stream : u # t /\ due'[u] # <<>> => due'[u][1].id # due'[t][1].id
      BY <1>1, <1>4, <1>6
    <2> QED
      BY <1>5, <2>1, <2>2, <2>3 DEF IdsFrom
  <1>7. ASSUME due[s] # <<>>, out'[s][l].id = due[s][1].id PROVE IdsFrom(out', due', chunkSeq)
    <2>1. /\ out'[s][l].id \in Nat /\ out'[s][l].id <= chunkSeq
          /\ \A t \in Stream : \A i \in NumberedIn(out[t]) : out[t][i].id # out'[s][l].id
          /\ \A u \in Stream : u # s /\ due[u] # <<>> => due[u][1].id # out'[s][l].id
      BY <1>7 DEF IdsFrom
    <2>2. \A t \in Stream : \A i \in NumberedIn(out'[t]) :
            out'[t][i].id \in Nat /\ out'[t][i].id <= chunkSeq
      BY <1>1, <1>3, <2>1
    <2>3. \A t \in Stream : due'[t] # <<>> =>
              /\ due'[t][1].id \in Nat /\ due'[t][1].id <= chunkSeq
              /\ \A u \in Stream : \A i \in NumberedIn(out'[u]) : out'[u][i].id # due'[t][1].id
              /\ \A u \in Stream : u # t /\ due'[u] # <<>> => due'[u][1].id # due'[t][1].id
      BY <1>1, <1>4, <2>1
    <2> QED
      BY <1>5, <2>1, <2>2, <2>3 DEF IdsFrom
  <1> QED
    BY <1>6, <1>7

-----------------------------------------------------------------------------
(* One stream                                                                *)

OneStreamInv(s) == DueInv(s) /\ OrderInv(s) /\ ContentInv(s) /\ EndInv(s)

\* A step of one stream leaves the others alone.
LEMMA OtherStream ==
    ASSUME NEW s \in Stream, OneStreamInv(s),
           mode'[s] = mode[s], fed'[s] = fed[s], taken'[s] = taken[s], prompt'[s] = prompt[s],
           reason'[s] = reason[s], phase'[s] = phase[s], due'[s] = due[s], out'[s] = out[s]
    PROVE  OneStreamInv(s)'
  <1> USE DEF OneStreamInv, WantsNative, WantsOpenAI, HasChunk
  <1>1. DueInv(s)'
    BY DEF DueInv
  <1>2. OrderInv(s)'
    BY DEF OrderInv
  <1>3. ContentInv(s)'
    BY DEF ContentInv, GivenAs
  <1>4. EndInv(s)'
    BY DEF EndInv
  <1> QED
    BY <1>1, <1>2, <1>3, <1>4

\* The sequence with one envelope more.
LEMMA OneMore ==
    ASSUME NEW q \in Seq(Envelope), NEW e \in Envelope, NEW r, r = Append(q, e)
    PROVE  /\ Len(r) \in DOMAIN r /\ r[Len(r)] = e /\ r # <<>>
           /\ \A i \in DOMAIN r : \/ i \in DOMAIN q /\ r[i] = q[i] /\ i < Len(r)
                                  \/ i = Len(r) /\ r[i] = e
           /\ \A i \in DOMAIN q : i \in DOMAIN r /\ r[i] = q[i] /\ i < Len(r) /\ i \in Nat
  BY Appending

\* An envelope that belongs after all that were given.
LEMMA ShowNext ==
    ASSUME NEW q \in Seq(Envelope), NEW e \in Envelope, NEW r, r = Append(q, e),
           \A i, j \in DOMAIN q :
               i < j /\ Shows(q[i]) /\ Shows(q[j]) => Precedes(q[i], q[j]),
           \A i \in DOMAIN q : Shows(q[i]) /\ Shows(e) => Precedes(q[i], e)
    PROVE  \A i, j \in DOMAIN r :
               i < j /\ Shows(r[i]) /\ Shows(r[j]) => Precedes(r[i], r[j])
  <1>1. TAKE i, j \in DOMAIN r
  <1>2. HAVE i < j /\ Shows(r[i]) /\ Shows(r[j])
  <1>3. Len(r) \in Nat /\ i \in DOMAIN q /\ r[i] = q[i]
    BY <1>2, Appending
  <1>4. CASE j \in DOMAIN q
    BY <1>2, <1>3, <1>4, OneMore
  <1>5. CASE j \notin DOMAIN q
    <2>1. j = Len(r) /\ r[j] = e
      BY <1>5, OneMore
    <2> QED
      BY <1>2, <1>3, <2>1
  <1> QED
    BY <1>4, <1>5

\* The loop that reads has nothing due, and has given no finish chunk.
LEMMA ReadingStream ==
    ASSUME NEW s \in Stream, OneStreamInv(s), phase[s] \in {"reading", "yielded"}
    PROVE  /\ phase[s] = "reading" => due[s] = <<>>
           /\ \A i \in DOMAIN out[s] : Shows(out[s][i])
  <1>1. phase[s] = "reading" => due[s] = <<>>
    BY DEF OneStreamInv, DueInv
  <1>2. \A i \in DOMAIN out[s] : Shows(out[s][i])
    BY DEF OneStreamInv, EndInv, Shows
  <1> QED
    BY <1>1, <1>2

\* It reads an update and gives its first envelope.
LEMMA FirstEnvelope ==
    ASSUME EnvelopesTypeOK, NEW s \in Stream, OneStreamInv(s), phase[s] = "reading",
           NEW n, n = taken[s] + 1,
           mode'[s] = mode[s], fed'[s] = fed[s], taken'[s] = n, prompt'[s] = prompt[s],
           reason'[s] = reason[s], phase'[s] = "yielded",
           NEW e \in Envelope, e.of = n, out'[s] = Append(out[s], e),
           NEW w, due'[s] = w,
           \/ /\ e.kind = "native" /\ WantsNative(s)
              /\ IF HasChunk(s, n) THEN w = <<Chunk(n, w[1].id)>> /\ w[1].id \in Nat
                 ELSE w = <<>>
           \/ e.kind = "chunk" /\ ~WantsNative(s) /\ HasChunk(s, n) /\ w = <<>>
    PROVE  OneStreamInv(s)'
  <1> DEFINE q == out[s]  r == out'[s]
  <1>1. /\ q \in Seq(Envelope) /\ taken[s] \in Nat /\ n \in Nat /\ n > 0 /\ taken[s] < n
    BY DEF EnvelopesTypeOK
  <1>2. /\ \A i \in DOMAIN q : Shows(q[i]) /\ q[i].of \in 1..taken[s]
        /\ due[s] = <<>>
    BY ReadingStream DEF OneStreamInv, OrderInv
  <1>3. /\ Len(r) \in DOMAIN r /\ r[Len(r)] = e
        /\ \A i \in DOMAIN r : \/ i \in DOMAIN q /\ r[i] = q[i]
                               \/ i = Len(r) /\ r[i] = e
        /\ \A i \in DOMAIN q : i \in DOMAIN r /\ r[i] = q[i]
    BY <1>1, OneMore
  <1>4. Shows(e) /\ \A i \in DOMAIN q : Precedes(q[i], e)
    BY <1>1, <1>2 DEF Shows, Precedes
  <1>5. WantsNative(s)' = WantsNative(s) /\ \A m : HasChunk(s, m)' = HasChunk(s, m)
    BY DEF WantsNative, HasChunk, WantsOpenAI
  <1>6. \A i, j \in DOMAIN r : i < j /\ Shows(r[i]) /\ Shows(r[j]) => Precedes(r[i], r[j])
    <2>1. \A i, j \in DOMAIN q : i < j /\ Shows(q[i]) /\ Shows(q[j]) => Precedes(q[i], q[j])
      BY DEF OneStreamInv, OrderInv
    <2> QED
      BY <1>1, <1>4, <2>1, ShowNext
  <1>7. DueInv(s)'
    <2>1. ASSUME w # <<>>
          PROVE  /\ WantsNative(s) /\ HasChunk(s, n)
                 /\ w = <<Chunk(n, w[1].id)>> /\ w[1].id \in Nat /\ e.kind = "native"
      BY <2>1
    <2>2. \A i \in DOMAIN r : r[i].kind = "chunk" => r[i].of < n \/ e.kind = "chunk"
      BY <1>1, <1>2, <1>3
    <2>3. HasChunk(s, n) => mode'[s] \in {"openai", "both"} /\ fed'[s][n] = "text"
      BY DEF HasChunk, WantsOpenAI
    <2>4. WantsNative(s) => mode'[s] \in {"native", "both"}
      BY DEF WantsNative
    <2> QED
      BY <1>1, <2>1, <2>2, <2>3, <2>4 DEF DueInv, HasChunk, WantsOpenAI, WantsNative
  <1>8. OrderInv(s)'
    <2>1. \A i \in DOMAIN r : Shows(r[i]) => r[i].of \in 1..n
      BY <1>1, <1>2, <1>3
    <2>2. \A i \in DOMAIN r : r[i].kind = "native" => WantsNative(s)
      BY <1>3 DEF OneStreamInv, OrderInv
    <2>3. \A i \in DOMAIN r : r[i].kind = "chunk" => HasChunk(s, r[i].of)
      BY <1>3 DEF OneStreamInv, OrderInv
    <2> QED
      BY <1>6, <2>1, <2>2, <2>3 DEF OrderInv, HasChunk, WantsOpenAI, WantsNative
  <1>9. ContentInv(s)'
    <2>1. ASSUME NEW m \in 1..n
          PROVE  /\ WantsNative(s) => \E i \in DOMAIN r : r[i].kind = "native" /\ r[i].of = m
                 /\ HasChunk(s, m) =>
                        \/ \E i \in DOMAIN r : r[i].kind = "chunk" /\ r[i].of = m
                        \/ m = n /\ w # <<>>
      <3>1. CASE m = n
        BY <1>3, <3>1
      <3>2. CASE m # n
        <4>1. m \in 1..taken[s]
          BY <1>1, <3>2
        <4>2. /\ WantsNative(s) => GivenAs(s, m, "native")
              /\ HasChunk(s, m) => GivenAs(s, m, "chunk")
          BY <1>2, <4>1 DEF OneStreamInv, ContentInv
        <4> QED
          BY <1>3, <4>2 DEF GivenAs
      <3> QED
        BY <3>1, <3>2
    <2> QED
      BY <2>1 DEF ContentInv, GivenAs, HasChunk, WantsOpenAI, WantsNative
  <1>10. EndInv(s)'
    BY <1>2, <1>3, <1>4 DEF EndInv, Shows
  <1> QED
    BY <1>7, <1>8, <1>9, <1>10 DEF OneStreamInv

\* It reads an update that has no envelope.
LEMMA NoEnvelope ==
    ASSUME EnvelopesTypeOK, NEW s \in Stream, OneStreamInv(s), phase[s] = "reading",
           NEW n, n = taken[s] + 1, ~WantsNative(s), ~HasChunk(s, n),
           mode'[s] = mode[s], fed'[s] = fed[s], taken'[s] = n, prompt'[s] = prompt[s],
           reason'[s] = reason[s], phase'[s] = "reading", due'[s] = due[s], out'[s] = out[s]
    PROVE  OneStreamInv(s)'
  <1>1. taken[s] \in Nat /\ n \in Nat /\ 1..taken[s] \subseteq 1..n
        /\ \A m \in 1..n : m \in 1..taken[s] \/ m = n
    BY DEF EnvelopesTypeOK
  <1>2. /\ \A i \in DOMAIN out[s] : Shows(out[s][i])
        /\ due[s] = <<>>
    BY ReadingStream
  <1>3. DueInv(s)'
    BY <1>2 DEF DueInv
  <1>4. OrderInv(s)'
    BY <1>1 DEF OneStreamInv, OrderInv, HasChunk, WantsOpenAI, WantsNative
  <1>5. ContentInv(s)'
    BY <1>1, <1>2 DEF OneStreamInv, ContentInv, GivenAs, HasChunk, WantsOpenAI, WantsNative
  <1>6. EndInv(s)'
    BY <1>2 DEF EndInv, Shows
  <1> QED
    BY <1>3, <1>4, <1>5, <1>6 DEF OneStreamInv

\* It gives the chunk that was due.
LEMMA DueEnvelope ==
    ASSUME EnvelopesTypeOK, NEW s \in Stream, OneStreamInv(s), phase[s] = "yielded",
           due[s] # <<>>,
           mode'[s] = mode[s], fed'[s] = fed[s], taken'[s] = taken[s], prompt'[s] = prompt[s],
           reason'[s] = reason[s], phase'[s] = "yielded",
           out'[s] = Append(out[s], due[s][1]), due'[s] = <<>>
    PROVE  OneStreamInv(s)'
  <1> DEFINE q == out[s]  r == out'[s]  n == taken[s]  e == Chunk(n, due[s][1].id)
  <1>1. q \in Seq(Envelope) /\ n \in Nat
    BY DEF EnvelopesTypeOK
  <1>2. /\ WantsNative(s) /\ HasChunk(s, n) /\ n > 0
        /\ due[s] = <<e>> /\ due[s][1].id \in Nat
        /\ \A i \in DOMAIN q : q[i].kind = "chunk" => q[i].of < n
    BY DEF OneStreamInv, DueInv
  <1>3. e \in Envelope /\ e.kind = "chunk" /\ e.of = n
    BY <1>1, <1>2, EnvelopeKinds
  <1> HIDE DEF e
  <1>4. due[s][1] = e
    BY <1>2
  <1>5. /\ Len(r) \in DOMAIN r /\ r[Len(r)] = e
        /\ \A i \in DOMAIN r : \/ i \in DOMAIN q /\ r[i] = q[i]
                               \/ i = Len(r) /\ r[i] = e
        /\ \A i \in DOMAIN q : i \in DOMAIN r /\ r[i] = q[i]
    BY <1>1, <1>3, <1>4, OneMore
  <1>6. \A i \in DOMAIN q : Shows(q[i]) /\ q[i].of \in 1..n
    BY ReadingStream DEF OneStreamInv, OrderInv
  <1>7. \A i \in DOMAIN q : Precedes(q[i], e)
    <2>1. ASSUME NEW i \in DOMAIN q PROVE Precedes(q[i], e)
      <3>1. q[i].kind \in {"native", "chunk"} /\ q[i].of \in 1..n
        BY <1>6, TypedEnvelopes, EnvelopeFields DEF Shows
      <3> QED
        BY <1>1, <1>2, <1>3, <3>1 DEF Precedes
    <2> QED
      BY <2>1
  <1>8. \A i, j \in DOMAIN r : i < j /\ Shows(r[i]) /\ Shows(r[j]) => Precedes(r[i], r[j])
    <2>1. \A i, j \in DOMAIN q : i < j /\ Shows(q[i]) /\ Shows(q[j]) => Precedes(q[i], q[j])
      BY DEF OneStreamInv, OrderInv
    <2> QED
      BY <1>1, <1>3, <1>4, <1>7, <2>1, ShowNext
  <1>9. DueInv(s)'
    BY DEF DueInv
  <1>10. OrderInv(s)'
    <2>1. \A i \in DOMAIN r : Shows(r[i]) => r[i].of \in 1..n
      BY <1>1, <1>2, <1>3, <1>5, <1>6
    <2>2. \A i \in DOMAIN r : r[i].kind = "native" => WantsNative(s)
      BY <1>2
    <2>3. \A i \in DOMAIN r : r[i].kind = "chunk" => HasChunk(s, r[i].of)
      BY <1>2, <1>3, <1>5 DEF OneStreamInv, OrderInv
    <2> QED
      BY <1>8, <2>1, <2>2, <2>3 DEF OrderInv, HasChunk, WantsOpenAI, WantsNative
  <1>11. ContentInv(s)'
    <2>1. ASSUME NEW m \in 1..n
          PROVE  /\ WantsNative(s) => \E i \in DOMAIN r : r[i].kind = "native" /\ r[i].of = m
                 /\ HasChunk(s, m) => \E i \in DOMAIN r : r[i].kind = "chunk" /\ r[i].of = m
      <3>1. /\ WantsNative(s) => GivenAs(s, m, "native")
            /\ HasChunk(s, m) => GivenAs(s, m, "chunk") \/ m = n
        BY DEF OneStreamInv, ContentInv
      <3> QED
        BY <1>3, <1>5, <3>1 DEF GivenAs
    <2> QED
      BY <2>1 DEF ContentInv, GivenAs, HasChunk, WantsOpenAI, WantsNative
  <1>12. EndInv(s)'
    BY <1>3, <1>5, <1>6 DEF EndInv, Shows
  <1> QED
    BY <1>9, <1>10, <1>11, <1>12 DEF OneStreamInv

\* The finish chunk is the last envelope: everything was read and given.
LEMMA LastEnvelope ==
    ASSUME EnvelopesTypeOK, NEW s \in Stream, OneStreamInv(s), phase[s] = "reading",
           WantsOpenAI(s), prompt[s] = "resolved", taken[s] = Len(fed[s]),
           NEW id \in Nat, NEW e, e = Final(ToFinishReason(reason[s]), id),
           mode'[s] = mode[s], fed'[s] = fed[s], taken'[s] = taken[s], prompt'[s] = prompt[s],
           reason'[s] = reason[s], phase'[s] = "told", due'[s] = due[s],
           out'[s] = Append(out[s], e)
    PROVE  OneStreamInv(s)'
  <1> DEFINE q == out[s]  r == out'[s]
  <1>1. q \in Seq(Envelope)
    BY DEF EnvelopesTypeOK
  <1>2. /\ e \in Envelope /\ e.kind = "finish" /\ ~Shows(e)
        /\ e.reason = ToFinishReason(reason[s])
    BY EnvelopeKinds DEF Shows
  <1>3. /\ Len(r) \in DOMAIN r /\ r[Len(r)] = e
        /\ \A i \in DOMAIN r : \/ i \in DOMAIN q /\ r[i] = q[i]
                               \/ i = Len(r) /\ r[i] = e
        /\ \A i \in DOMAIN q : i \in DOMAIN r /\ r[i] = q[i]
    BY <1>1, <1>2, OneMore
  <1>4. due[s] = <<>> /\ \A i \in DOMAIN q : Shows(q[i])
    BY ReadingStream
  <1>5. \A i, j \in DOMAIN r : i < j /\ Shows(r[i]) /\ Shows(r[j]) => Precedes(r[i], r[j])
    <2>1. \A i, j \in DOMAIN q : i < j /\ Shows(q[i]) /\ Shows(q[j]) => Precedes(q[i], q[j])
      BY DEF OneStreamInv, OrderInv
    <2> QED
      BY <1>1, <1>2, <2>1, ShowNext
  <1>6. \A i \in DOMAIN r : Shows(r[i]) \/ r[i].kind # "finish" => i \in DOMAIN q /\ r[i] = q[i]
    BY <1>2, <1>3
  <1>7. DueInv(s)'
    BY <1>4 DEF DueInv
  <1>8. OrderInv(s)'
    <2>1. \A i \in DOMAIN r : Shows(r[i]) => r[i].of \in 1..taken[s]
      BY <1>6 DEF OneStreamInv, OrderInv
    <2>2. \A i \in DOMAIN r : r[i].kind = "native" => WantsNative(s)
      BY <1>6 DEF OneStreamInv, OrderInv
    <2>3. \A i \in DOMAIN r : r[i].kind = "chunk" => HasChunk(s, r[i].of)
      BY <1>6 DEF OneStreamInv, OrderInv
    <2> QED
      BY <1>5, <2>1, <2>2, <2>3 DEF OrderInv, HasChunk, WantsOpenAI, WantsNative
  <1>9. ContentInv(s)'
    <2>1. ASSUME NEW m \in 1..taken[s]
          PROVE  /\ WantsNative(s) => \E i \in DOMAIN r : r[i].kind = "native" /\ r[i].of = m
                 /\ HasChunk(s, m) => \E i \in DOMAIN r : r[i].kind = "chunk" /\ r[i].of = m
      <3>1. /\ WantsNative(s) => GivenAs(s, m, "native")
            /\ HasChunk(s, m) => GivenAs(s, m, "chunk")
        BY <1>4 DEF OneStreamInv, ContentInv
      <3> QED
        BY <1>3, <3>1 DEF GivenAs
    <2> QED
      BY <2>1 DEF ContentInv, GivenAs, HasChunk, WantsOpenAI, WantsNative
  <1>10. EndInv(s)'
    <2>1. \A i \in DOMAIN r : r[i].kind = "finish" => i = Len(r) /\ r[i] = e
      BY <1>3, <1>4 DEF Shows
    <2> QED
      BY <1>2, <1>3, <2>1 DEF EndInv, WantsOpenAI
  <1> QED
    BY <1>7, <1>8, <1>9, <1>10 DEF OneStreamInv

\* The loop goes on to the next update, or ends with nothing more to give.
LEMMA MovesOn ==
    ASSUME EnvelopesTypeOK, NEW s \in Stream, OneStreamInv(s),
           mode'[s] = mode[s], fed'[s] = fed[s], taken'[s] = taken[s], prompt'[s] = prompt[s],
           reason'[s] = reason[s], due'[s] = due[s], out'[s] = out[s],
           \/ phase[s] = "yielded" /\ due[s] = <<>> /\ phase'[s] = "reading"
           \/ phase[s] = "yielded" /\ phase'[s] = "abandoned"
           \/ phase[s] = "told" /\ phase'[s] = "finished"
           \/ /\ phase[s] = "reading" /\ prompt[s] # "pending" /\ taken[s] = Len(fed[s])
              /\ \/ phase'[s] = "failed"
                 \/ ~WantsOpenAI(s) /\ phase'[s] = "finished"
    PROVE  OneStreamInv(s)'
  <1>1. DueInv(s)'
    BY DEF OneStreamInv, DueInv, HasChunk, WantsOpenAI, WantsNative
  <1>2. OrderInv(s)'
    BY DEF OneStreamInv, OrderInv, HasChunk, WantsOpenAI, WantsNative
  <1>3. ContentInv(s)'
    BY DEF OneStreamInv, ContentInv, GivenAs, HasChunk, WantsOpenAI, WantsNative
  <1>4. EndInv(s)'
    BY DEF OneStreamInv, EndInv, WantsOpenAI
  <1> QED
    BY <1>1, <1>2, <1>3, <1>4 DEF OneStreamInv

\* The agent adds an update, or ends the prompt, while the loop goes on.
LEMMA AgentMoves ==
    ASSUME EnvelopesTypeOK, NEW s \in Stream, OneStreamInv(s), prompt[s] = "pending",
           mode'[s] = mode[s], taken'[s] = taken[s], phase'[s] = phase[s],
           due'[s] = due[s], out'[s] = out[s],
           \A n \in 1..taken[s] : fed'[s][n] = fed[s][n]
    PROVE  OneStreamInv(s)'
  <1>1. /\ phase[s] \notin {"told", "finished", "failed"}
        /\ \A i \in DOMAIN out[s] : Shows(out[s][i])
    BY DEF OneStreamInv, EndInv, Shows
  <1>2. DueInv(s)'
    <2>1. taken[s] \in Nat
      BY DEF EnvelopesTypeOK
    <2>2. taken[s] > 0 => taken[s] \in 1..taken[s]
      BY <2>1
    <2> QED
      BY <2>2 DEF OneStreamInv, DueInv, HasChunk, WantsOpenAI, WantsNative
  <1>3. OrderInv(s)'
    BY <1>1 DEF OneStreamInv, OrderInv, HasChunk, WantsOpenAI, WantsNative
  <1>4. ContentInv(s)'
    BY DEF OneStreamInv, ContentInv, GivenAs, HasChunk, WantsOpenAI, WantsNative
  <1>5. EndInv(s)'
    BY <1>1 DEF EndInv, Shows
  <1> QED
    BY <1>2, <1>3, <1>4, <1>5 DEF OneStreamInv

-----------------------------------------------------------------------------
(* The steps of the envelopes                                                *)

LEMMA EnvelopesStart == EnvelopesInit => EnvelopesInv
  <1> SUFFICES ASSUME EnvelopesInit PROVE EnvelopesInv
    OBVIOUS
  <1> USE DEF EnvelopesInit
  <1>1. EnvelopesTypeOK
    BY DEF EnvelopesTypeOK
  <1>2. ASSUME NEW s \in Stream PROVE OneStreamInv(s)
    <2>1. taken[s] = 0 /\ out[s] = <<>> /\ due[s] = <<>> /\ phase[s] = "reading"
      OBVIOUS
    <2> QED
      BY <2>1 DEF OneStreamInv, DueInv, OrderInv, ContentInv, EndInv
  <1>3. IdsInv
    <2>1. \A s \in Stream : out[s] = <<>> /\ due[s] = <<>>
      OBVIOUS
    <2>2. NumberedIn(<<>>) = {}
      BY DEF NumberedIn
    <2>3. \A s \in Stream : NumberedIn(out[s]) = {} /\ due[s] = <<>>
      BY <2>1, <2>2
    <2> QED
      BY <2>3 DEF IdsInv, IdsFrom
  <1> QED
    BY <1>1, <1>2, <1>3 DEF EnvelopesInv, StreamInv, OneStreamInv

LEMMA FeedStep ==
    ASSUME EnvelopesInv, NEW s \in Stream, Feed(s)
    PROVE  EnvelopesInv'
  <1>1. EnvelopesTypeOK /\ IdsInv /\ \A t \in Stream : OneStreamInv(t)
    BY DEF EnvelopesInv, StreamInv, OneStreamInv
  <1>2. PICK k \in Kind : fed' = [fed EXCEPT ![s] = Append(fed[s], k)]
    BY DEF Feed
  <1>3. /\ prompt[s] = "pending"
        /\ UNCHANGED <<mode, taken, prompt, reason, phase, due, out, chunkSeq>>
    BY DEF Feed
  <1>4. /\ fed[s] \in Seq(Kind) /\ taken[s] \in Nat /\ taken[s] <= Len(fed[s])
        /\ fed'[s] = Append(fed[s], k) /\ \A t \in Stream : t # s => fed'[t] = fed[t]
        /\ fed' \in [Stream -> Seq(Kind)]
    <2>1. fed \in [Stream -> Seq(Kind)] /\ taken[s] \in Nat /\ taken[s] <= Len(fed[s])
      BY <1>1 DEF EnvelopesTypeOK
    <2>2. Append(fed[s], k) \in Seq(Kind)
      BY <2>1
    <2> QED
      BY <1>2, <2>1, <2>2
  <1>5. /\ Len(fed'[s]) = Len(fed[s]) + 1 /\ Len(fed[s]) \in Nat
        /\ \A n \in 1..Len(fed[s]) : fed'[s][n] = fed[s][n]
    BY <1>4, Appending
  <1>6. EnvelopesTypeOK'
    <2>1. \A t \in Stream : taken[t] <= Len(fed'[t])
      <3>1. ASSUME NEW t \in Stream, t # s PROVE taken[t] <= Len(fed'[t])
        BY <1>1, <1>4, <3>1 DEF EnvelopesTypeOK
      <3>2. taken[s] <= Len(fed'[s])
        BY <1>4, <1>5
      <3> QED
        BY <3>1, <3>2
    <2> QED
      BY <1>1, <1>3, <1>4, <2>1 DEF EnvelopesTypeOK
  <1>7. ASSUME NEW t \in Stream PROVE OneStreamInv(t)'
    <2>1. CASE t = s
      <3>1. \A n \in 1..taken[s] : fed'[s][n] = fed[s][n]
        BY <1>4, <1>5
      <3> QED
        BY <1>1, <1>3, <2>1, <3>1, AgentMoves
    <2>2. CASE t # s
      BY <1>1, <1>3, <1>4, <2>2, OtherStream
    <2> QED
      BY <2>1, <2>2
  <1>8. IdsInv'
    BY <1>1, <1>3 DEF IdsInv
  <1> QED
    BY <1>6, <1>7, <1>8 DEF EnvelopesInv, StreamInv, OneStreamInv

LEMMA SettleStep ==
    ASSUME EnvelopesInv, NEW s \in Stream, Settle(s)
    PROVE  EnvelopesInv'
  <1>1. EnvelopesTypeOK /\ IdsInv /\ \A t \in Stream : OneStreamInv(t)
    BY DEF EnvelopesInv, StreamInv, OneStreamInv
  <1>2. /\ prompt[s] = "pending"
        /\ UNCHANGED <<mode, fed, taken, phase, due, out, chunkSeq>>
    BY DEF Settle
  <1>3. /\ prompt' \in [Stream -> {"pending", "rejected", "resolved"}]
        /\ reason' \in [Stream -> StopReason \cup {None}]
        /\ \A t \in Stream : t # s => prompt'[t] = prompt[t] /\ reason'[t] = reason[t]
    BY <1>1 DEF Settle, EnvelopesTypeOK
  <1>4. EnvelopesTypeOK'
    BY <1>1, <1>2, <1>3 DEF EnvelopesTypeOK
  <1>5. ASSUME NEW t \in Stream PROVE OneStreamInv(t)'
    <2>1. CASE t = s
      BY <1>1, <1>2, <2>1, AgentMoves
    <2>2. CASE t # s
      BY <1>1, <1>2, <1>3, <2>2, OtherStream
    <2> QED
      BY <2>1, <2>2
  <1>6. IdsInv'
    BY <1>1, <1>2 DEF IdsInv
  <1> QED
    BY <1>4, <1>5, <1>6 DEF EnvelopesInv, StreamInv, OneStreamInv

LEMMA LeaveStep ==
    ASSUME EnvelopesInv, NEW s \in Stream, Leave(s)
    PROVE  EnvelopesInv'
  <1>1. EnvelopesTypeOK /\ IdsInv /\ \A t \in Stream : OneStreamInv(t)
    BY DEF EnvelopesInv, StreamInv, OneStreamInv
  <1>2. UNCHANGED <<mode, fed, taken, prompt, reason, due, out, chunkSeq>>
    BY DEF Leave
  <1>3. /\ phase' \in [Stream ->
              {"reading", "yielded", "told", "finished", "failed", "abandoned"}]
        /\ \A t \in Stream : t # s => phase'[t] = phase[t]
        /\ \/ phase[s] = "yielded" /\ phase'[s] = "abandoned"
           \/ phase[s] = "told" /\ phase'[s] = "finished"
    BY <1>1 DEF Leave, EnvelopesTypeOK
  <1>4. EnvelopesTypeOK'
    BY <1>1, <1>2, <1>3 DEF EnvelopesTypeOK
  <1>5. ASSUME NEW t \in Stream PROVE OneStreamInv(t)'
    <2>1. CASE t = s
      BY <1>1, <1>2, <1>3, <2>1, MovesOn
    <2>2. CASE t # s
      BY <1>1, <1>2, <1>3, <2>2, OtherStream
    <2> QED
      BY <2>1, <2>2
  <1>6. IdsInv'
    BY <1>1, <1>2 DEF IdsInv
  <1> QED
    BY <1>4, <1>5, <1>6 DEF EnvelopesInv, StreamInv, OneStreamInv

\* What reading an update gives, seen from its stream and from the ids.
LEMMA GiveStep ==
    ASSUME EnvelopesInv, NEW s \in Stream, phase[s] = "reading",
           NEW n, n = taken[s] + 1, n \in 1..Len(fed[s]),
           taken' = [taken EXCEPT ![s] = n], UNCHANGED <<mode, fed, prompt, reason>>,
           NEW e \in Envelope, e.of = n, NEW w \in Seq(Envelope), NEW seq \in Nat,
           Give(s, e, w, seq),
           \/ /\ e.kind = "native" /\ WantsNative(s)
              /\ IF HasChunk(s, n)
                 THEN /\ w = <<Chunk(n, chunkSeq + 1)>> /\ w[1].id = chunkSeq + 1
                      /\ w # <<>> /\ seq = chunkSeq + 1
                 ELSE w = <<>> /\ seq = chunkSeq
           \/ /\ e.kind = "chunk" /\ ~WantsNative(s) /\ HasChunk(s, n)
              /\ e.id = chunkSeq + 1 /\ w = <<>> /\ seq = chunkSeq + 1
    PROVE  EnvelopesInv'
  <1>1. EnvelopesTypeOK /\ IdsInv /\ \A t \in Stream : OneStreamInv(t)
    BY DEF EnvelopesInv, StreamInv, OneStreamInv
  <1>2. /\ phase' = [phase EXCEPT ![s] = "yielded"]
        /\ out' = [out EXCEPT ![s] = Append(out[s], e)]
        /\ due' = [due EXCEPT ![s] = w] /\ chunkSeq' = seq
    BY DEF Give
  <1>3. /\ chunkSeq \in Nat /\ out[s] \in Seq(Envelope) /\ taken[s] \in Nat
        /\ Append(out[s], e) \in Seq(Envelope)
    BY <1>1 DEF EnvelopesTypeOK
  <1>4. /\ phase'[s] = "yielded" /\ out'[s] = Append(out[s], e) /\ due'[s] = w
        /\ taken'[s] = n
        /\ \A t \in Stream : t # s =>
              /\ phase'[t] = phase[t] /\ out'[t] = out[t] /\ due'[t] = due[t]
              /\ taken'[t] = taken[t]
    BY <1>1, <1>2 DEF EnvelopesTypeOK
  <1>5. EnvelopesTypeOK'
    <2>1. taken' \in [Stream -> Nat] /\ \A t \in Stream : taken'[t] <= Len(fed[t])
      BY <1>1, <1>3, <1>4 DEF EnvelopesTypeOK
    <2>2. due' \in [Stream -> Seq(Envelope)] /\ out' \in [Stream -> Seq(Envelope)]
      BY <1>1, <1>2, <1>3 DEF EnvelopesTypeOK
    <2>3. phase' \in [Stream ->
              {"reading", "yielded", "told", "finished", "failed", "abandoned"}]
      BY <1>1, <1>2 DEF EnvelopesTypeOK
    <2> QED
      BY <1>1, <1>2, <2>1, <2>2, <2>3 DEF EnvelopesTypeOK
  <1>6. ASSUME NEW t \in Stream PROVE OneStreamInv(t)'
    <2>1. CASE t = s
      <3>1. OneStreamInv(s) /\ EnvelopesTypeOK
        BY <1>1
      <3>2. \/ /\ e.kind = "native" /\ WantsNative(s)
               /\ IF HasChunk(s, n) THEN w = <<Chunk(n, w[1].id)>> /\ w[1].id \in Nat
                  ELSE w = <<>>
            \/ e.kind = "chunk" /\ ~WantsNative(s) /\ HasChunk(s, n) /\ w = <<>>
        BY <1>3
      <3>3. OneStreamInv(s)'
        BY <1>4, <3>1, <3>2, FirstEnvelope
      <3> QED
        BY <2>1, <3>3
    <2>2. CASE t # s
      BY <1>1, <1>4, <2>2, OtherStream
    <2> QED
      BY <2>1, <2>2
  <1>7. IdsInv'
    <2> DEFINE l == Len(out[s]) + 1
    <2>1. /\ \A t \in Stream : t # s => out'[t] = out[t]
          /\ e.kind = "native" => NumberedIn(out'[s]) = NumberedIn(out[s])
          /\ e.kind # "native" => NumberedIn(out'[s]) = NumberedIn(out[s]) \cup {l}
          /\ \A i \in NumberedIn(out[s]) : out'[s][i] = out[s][i]
          /\ out'[s][l] = e
          /\ l \notin NumberedIn(out[s])
      BY <1>1, <1>2, NumberedOnes
    <2> HIDE DEF l
    <2>2. IdsFrom(out, due, chunkSeq)
      BY <1>1 DEF IdsInv
    <2>3. CASE e.kind = "native"
      <3>1. /\ \A t \in Stream : NumberedIn(out'[t]) = NumberedIn(out[t])
            /\ \A t \in Stream : \A i \in NumberedIn(out[t]) : out'[t][i] = out[t][i]
            /\ \A t \in Stream : t # s => due'[t] = due[t]
        BY <1>4, <2>1, <2>3
      <3>2. /\ due'[s] = <<>> => IdsFrom(out', due', chunkSeq)
            /\ due'[s] # <<>> /\ due'[s][1].id = chunkSeq + 1 =>
                   IdsFrom(out', due', chunkSeq + 1)
        BY <1>3, <2>2, <3>1, IdsKept
      <3>3. \/ due'[s] = <<>> /\ chunkSeq' = chunkSeq
            \/ due'[s] # <<>> /\ due'[s][1].id = chunkSeq + 1 /\ chunkSeq' = chunkSeq + 1
        BY <1>2, <1>4, <2>3
      <3> QED
        BY <3>2, <3>3 DEF IdsInv
    <2>4. CASE e.kind # "native"
      <3>1. e.id = chunkSeq + 1 /\ w = <<>> /\ seq = chunkSeq + 1
        BY <2>4
      <3>2. /\ out'[s][l].id = chunkSeq + 1 /\ due'[s] = <<>>
            /\ NumberedIn(out'[s]) = NumberedIn(out[s]) \cup {l} /\ l \notin NumberedIn(out[s])
            /\ \A i \in NumberedIn(out[s]) : out'[s][i] = out[s][i]
            /\ \A t \in Stream : t # s => out'[t] = out[t] /\ due'[t] = due[t]
        BY <1>4, <2>1, <2>4, <3>1
      <3>3. IdsFrom(out', due', chunkSeq + 1)
        BY <1>3, <2>2, <3>2, IdsTaken
      <3> QED
        BY <1>2, <3>1, <3>3 DEF IdsInv
    <2> QED
      BY <2>3, <2>4
  <1> QED
    BY <1>5, <1>6, <1>7 DEF EnvelopesInv, StreamInv, OneStreamInv

LEMMA TakeStep ==
    ASSUME EnvelopesInv, NEW s \in Stream, Take(s)
    PROVE  EnvelopesInv'
  <1> DEFINE n == taken[s] + 1
  <1>1. EnvelopesTypeOK /\ IdsInv /\ \A t \in Stream : OneStreamInv(t)
    BY DEF EnvelopesInv, StreamInv, OneStreamInv
  <1>2. /\ phase[s] = "reading" /\ n \in 1..Len(fed[s])
        /\ taken' = [taken EXCEPT ![s] = n] /\ UNCHANGED <<mode, fed, prompt, reason>>
        /\ \/ ~WantsNative(s) /\ ~HasChunk(s, n) /\ UNCHANGED <<phase, due, out, chunkSeq>>
           \/ /\ WantsNative(s) /\ HasChunk(s, n)
              /\ Give(s, Native(n), <<Chunk(n, chunkSeq + 1)>>, chunkSeq + 1)
           \/ WantsNative(s) /\ ~HasChunk(s, n) /\ Give(s, Native(n), <<>>, chunkSeq)
           \/ /\ ~WantsNative(s) /\ HasChunk(s, n)
              /\ Give(s, Chunk(n, chunkSeq + 1), <<>>, chunkSeq + 1)
    BY <1>1, TakeCases
  <1>3. chunkSeq \in Nat /\ chunkSeq + 1 \in Nat /\ n \in Nat /\ n = taken[s] + 1
    BY <1>1 DEF EnvelopesTypeOK
  <1> HIDE DEF n
  <1>4. /\ Native(n) \in Envelope /\ Native(n).kind = "native" /\ Native(n).of = n
        /\ Chunk(n, chunkSeq + 1) \in Envelope /\ Chunk(n, chunkSeq + 1).kind = "chunk"
        /\ Chunk(n, chunkSeq + 1).of = n /\ Chunk(n, chunkSeq + 1).id = chunkSeq + 1
    BY <1>3, EnvelopeKinds
  <1>5. <<>> \in Seq(Envelope)
    OBVIOUS
  <1>6. CASE ~WantsNative(s) /\ ~HasChunk(s, n) /\ UNCHANGED <<phase, due, out, chunkSeq>>
    <2>1. /\ taken'[s] = n /\ taken' \in [Stream -> Nat]
          /\ \A t \in Stream : t # s => taken'[t] = taken[t]
      BY <1>1, <1>2, <1>3 DEF EnvelopesTypeOK
    <2>2. EnvelopesTypeOK'
      BY <1>1, <1>2, <1>6, <2>1 DEF EnvelopesTypeOK
    <2>3. ASSUME NEW t \in Stream PROVE OneStreamInv(t)'
      <3>1. CASE t = s
        BY <1>1, <1>2, <1>3, <1>6, <2>1, <3>1, NoEnvelope
      <3>2. CASE t # s
        BY <1>1, <1>2, <1>6, <2>1, <3>2, OtherStream
      <3> QED
        BY <3>1, <3>2
    <2>4. IdsInv'
      BY <1>1, <1>6 DEF IdsInv
    <2> QED
      BY <2>2, <2>3, <2>4 DEF EnvelopesInv, StreamInv, OneStreamInv
  <1>7. CASE /\ WantsNative(s) /\ HasChunk(s, n)
             /\ Give(s, Native(n), <<Chunk(n, chunkSeq + 1)>>, chunkSeq + 1)
    <2> DEFINE w == <<Chunk(n, chunkSeq + 1)>>
    <2>1. w \in Seq(Envelope) /\ w # <<>> /\ w[1].id = chunkSeq + 1
      BY <1>4
    <2> QED
      BY <1>2, <1>3, <1>4, <1>7, <2>1, GiveStep
  <1>8. CASE WantsNative(s) /\ ~HasChunk(s, n) /\ Give(s, Native(n), <<>>, chunkSeq)
    BY <1>2, <1>3, <1>4, <1>8, <1>5, GiveStep
  <1>9. CASE /\ ~WantsNative(s) /\ HasChunk(s, n)
             /\ Give(s, Chunk(n, chunkSeq + 1), <<>>, chunkSeq + 1)
    BY <1>2, <1>3, <1>4, <1>9, <1>5, GiveStep
  <1> QED
    BY <1>2, <1>6, <1>7, <1>8, <1>9

LEMMA PullStep ==
    ASSUME EnvelopesInv, NEW s \in Stream, Pull(s)
    PROVE  EnvelopesInv'
  <1>1. EnvelopesTypeOK /\ IdsInv /\ \A t \in Stream : OneStreamInv(t)
    BY DEF EnvelopesInv, StreamInv, OneStreamInv
  <1>2. phase[s] = "yielded" /\ UNCHANGED <<mode, fed, taken, prompt, reason, chunkSeq>>
    BY DEF Pull
  <1>3. CASE due[s] = <<>>
    <2>1. phase' = [phase EXCEPT ![s] = "reading"] /\ UNCHANGED <<due, out>>
      BY <1>3 DEF Pull
    <2>2. /\ phase'[s] = "reading" /\ \A t \in Stream : t # s => phase'[t] = phase[t]
          /\ phase' \in [Stream ->
                {"reading", "yielded", "told", "finished", "failed", "abandoned"}]
      BY <1>1, <2>1 DEF EnvelopesTypeOK
    <2>3. EnvelopesTypeOK'
      BY <1>1, <1>2, <2>1, <2>2 DEF EnvelopesTypeOK
    <2>4. ASSUME NEW t \in Stream PROVE OneStreamInv(t)'
      <3>1. CASE t = s
        BY <1>1, <1>2, <1>3, <2>1, <2>2, <3>1, MovesOn
      <3>2. CASE t # s
        BY <1>1, <1>2, <2>1, <2>2, <3>2, OtherStream
      <3> QED
        BY <3>1, <3>2
    <2>5. IdsInv'
      BY <1>1, <1>2, <2>1 DEF IdsInv
    <2> QED
      BY <2>3, <2>4, <2>5 DEF EnvelopesInv, StreamInv, OneStreamInv
  <1>4. CASE due[s] # <<>>
    <2> DEFINE c == Chunk(taken[s], due[s][1].id)
    <2>1. due[s] = <<c>> /\ due[s][1].id \in Nat /\ taken[s] \in Nat
      BY <1>1, <1>4 DEF OneStreamInv, DueInv, EnvelopesTypeOK
    <2>2. c \in Envelope /\ c.kind = "chunk" /\ c.id = due[s][1].id
      BY <2>1, EnvelopeKinds
    <2> HIDE DEF c
    <2>3. Head(due[s]) = c /\ Tail(due[s]) = <<>> /\ due[s][1] = c
      BY <2>1
    <2>4. /\ out' = [out EXCEPT ![s] = Append(out[s], c)]
          /\ due' = [due EXCEPT ![s] = <<>>] /\ UNCHANGED phase
      BY <1>4, <2>3 DEF Pull
    <2>5. /\ out'[s] = Append(out[s], c) /\ due'[s] = <<>>
          /\ \A t \in Stream : t # s => out'[t] = out[t] /\ due'[t] = due[t]
      BY <1>1, <2>4 DEF EnvelopesTypeOK
    <2>6. EnvelopesTypeOK'
      <3>1. Append(out[s], c) \in Seq(Envelope)
        BY <1>1, <2>2 DEF EnvelopesTypeOK
      <3>2. out' \in [Stream -> Seq(Envelope)] /\ due' \in [Stream -> Seq(Envelope)]
        BY <1>1, <2>4, <3>1 DEF EnvelopesTypeOK
      <3> QED
        BY <1>1, <1>2, <2>4, <3>2 DEF EnvelopesTypeOK
    <2>7. ASSUME NEW t \in Stream PROVE OneStreamInv(t)'
      <3>1. CASE t = s
        BY <1>1, <1>2, <1>4, <2>3, <2>4, <2>5, <3>1, DueEnvelope
      <3>2. CASE t # s
        BY <1>1, <1>2, <2>4, <2>5, <3>2, OtherStream
      <3> QED
        BY <3>1, <3>2
    <2>8. IdsInv'
      <3> DEFINE l == Len(out[s]) + 1
      <3>1. /\ NumberedIn(out'[s]) = NumberedIn(out[s]) \cup {l}
            /\ \A i \in NumberedIn(out[s]) : out'[s][i] = out[s][i]
            /\ out'[s][l] = c /\ l \notin NumberedIn(out[s])
        BY <1>1, <2>2, <2>4, NumberedOnes
      <3> HIDE DEF l
      <3>2. IdsFrom(out, due, chunkSeq) /\ chunkSeq \in Nat
        BY <1>1 DEF IdsInv, EnvelopesTypeOK
      <3>3. IdsFrom(out', due', chunkSeq)
        BY <1>4, <2>2, <2>5, <3>1, <3>2, IdsTaken
      <3> QED
        BY <1>2, <3>3 DEF IdsInv
    <2> QED
      BY <2>6, <2>7, <2>8 DEF EnvelopesInv, StreamInv, OneStreamInv
  <1> QED
    BY <1>3, <1>4

LEMMA EndStep ==
    ASSUME EnvelopesInv, NEW s \in Stream, End(s)
    PROVE  EnvelopesInv'
  <1>1. EnvelopesTypeOK /\ IdsInv /\ \A t \in Stream : OneStreamInv(t)
    BY DEF EnvelopesInv, StreamInv, OneStreamInv
  <1>2. /\ phase[s] = "reading" /\ prompt[s] # "pending" /\ taken[s] = Len(fed[s])
        /\ UNCHANGED <<mode, fed, taken, prompt, reason, due>>
    BY DEF End, QueueOver
  <1>3. CASE \/ /\ prompt[s] = "rejected"
                /\ phase' = [phase EXCEPT ![s] = "failed"] /\ UNCHANGED <<out, chunkSeq>>
             \/ /\ ~WantsOpenAI(s)
                /\ phase' = [phase EXCEPT ![s] = "finished"] /\ UNCHANGED <<out, chunkSeq>>
    <2>1. /\ phase'[s] = "failed" \/ (~WantsOpenAI(s) /\ phase'[s] = "finished")
          /\ \A t \in Stream : t # s => phase'[t] = phase[t]
          /\ phase' \in [Stream ->
                {"reading", "yielded", "told", "finished", "failed", "abandoned"}]
      BY <1>1, <1>3 DEF EnvelopesTypeOK
    <2>2. EnvelopesTypeOK'
      BY <1>1, <1>2, <1>3, <2>1 DEF EnvelopesTypeOK
    <2>3. ASSUME NEW t \in Stream PROVE OneStreamInv(t)'
      <3>1. CASE t = s
        BY <1>1, <1>2, <1>3, <2>1, <3>1, MovesOn
      <3>2. CASE t # s
        BY <1>1, <1>2, <1>3, <2>1, <3>2, OtherStream
      <3> QED
        BY <3>1, <3>2
    <2>4. IdsInv'
      BY <1>1, <1>2, <1>3 DEF IdsInv
    <2> QED
      BY <2>2, <2>3, <2>4 DEF EnvelopesInv, StreamInv, OneStreamInv
  <1>4. CASE prompt[s] # "rejected" /\ WantsOpenAI(s)
    <2> DEFINE e == Final(ToFinishReason(reason[s]), chunkSeq + 1)
    <2>1. /\ phase' = [phase EXCEPT ![s] = "told"] /\ chunkSeq' = chunkSeq + 1
          /\ out' = [out EXCEPT ![s] = Append(out[s], e)]
      BY <1>4 DEF End, NextId
    <2>2. chunkSeq \in Nat /\ chunkSeq + 1 \in Nat /\ prompt[s] = "resolved"
      BY <1>1, <1>2, <1>4 DEF EnvelopesTypeOK
    <2>3. e \in Envelope /\ e.kind = "finish" /\ e.id = chunkSeq + 1
      BY <2>2, EnvelopeKinds
    <2> HIDE DEF e
    <2>4. /\ phase'[s] = "told" /\ out'[s] = Append(out[s], e)
          /\ \A t \in Stream : t # s => phase'[t] = phase[t] /\ out'[t] = out[t]
      BY <1>1, <2>1 DEF EnvelopesTypeOK
    <2>5. EnvelopesTypeOK'
      <3>1. Append(out[s], e) \in Seq(Envelope)
        BY <1>1, <2>3 DEF EnvelopesTypeOK
      <3>2. out' \in [Stream -> Seq(Envelope)]
        BY <1>1, <2>1, <3>1 DEF EnvelopesTypeOK
      <3>3. phase' \in [Stream ->
                {"reading", "yielded", "told", "finished", "failed", "abandoned"}]
        BY <1>1, <2>1 DEF EnvelopesTypeOK
      <3> QED
        BY <1>1, <1>2, <2>1, <2>2, <3>2, <3>3 DEF EnvelopesTypeOK
    <2>6. ASSUME NEW t \in Stream PROVE OneStreamInv(t)'
      <3>1. CASE t = s
        <4>1. e = Final(ToFinishReason(reason[s]), chunkSeq + 1)
          BY DEF e
        <4>2. OneStreamInv(s) /\ EnvelopesTypeOK
          BY <1>1
        <4>3. OneStreamInv(s)'
          BY <1>2, <1>4, <2>2, <2>4, <4>1, <4>2, LastEnvelope
        <4> QED
          BY <3>1, <4>3
      <3>2. CASE t # s
        BY <1>1, <1>2, <2>4, <3>2, OtherStream
      <3> QED
        BY <3>1, <3>2
    <2>7. IdsInv'
      <3> DEFINE l == Len(out[s]) + 1
      <3>1. /\ NumberedIn(out'[s]) = NumberedIn(out[s]) \cup {l}
            /\ \A i \in NumberedIn(out[s]) : out'[s][i] = out[s][i]
            /\ out'[s][l] = e /\ l \notin NumberedIn(out[s])
        BY <1>1, <2>1, <2>3, NumberedOnes
      <3> HIDE DEF l
      <3>2. due'[s] = <<>> /\ \A t \in Stream : due'[t] = due[t]
        BY <1>1, <1>2, ReadingStream
      <3>3. IdsFrom(out, due, chunkSeq)
        BY <1>1 DEF IdsInv
      <3>4. /\ out'[s][l].id = chunkSeq + 1
            /\ \A t \in Stream : t # s => out'[t] = out[t] /\ due'[t] = due[t]
        BY <2>3, <2>4, <3>1, <3>2
      <3>5. IdsFrom(out', due', chunkSeq + 1)
        BY <2>2, <3>1, <3>2, <3>3, <3>4, IdsTaken
      <3> QED
        BY <2>1, <3>5 DEF IdsInv
    <2> QED
      BY <2>5, <2>6, <2>7 DEF EnvelopesInv, StreamInv, OneStreamInv
  <1> QED
    BY <1>3, <1>4 DEF End

LEMMA EnvelopesStep == EnvelopesInv /\ [EnvelopesNext]_envelopeVars => EnvelopesInv'
  <1> SUFFICES ASSUME EnvelopesInv, [EnvelopesNext]_envelopeVars
               PROVE  EnvelopesInv'
    OBVIOUS
  <1>1. ASSUME NEW s \in Stream, Feed(s) PROVE EnvelopesInv'
    BY <1>1, FeedStep
  <1>2. ASSUME NEW s \in Stream, Settle(s) PROVE EnvelopesInv'
    BY <1>2, SettleStep
  <1>3. ASSUME NEW s \in Stream, Take(s) PROVE EnvelopesInv'
    BY <1>3, TakeStep
  <1>4. ASSUME NEW s \in Stream, Pull(s) PROVE EnvelopesInv'
    BY <1>4, PullStep
  <1>5. ASSUME NEW s \in Stream, End(s) PROVE EnvelopesInv'
    BY <1>5, EndStep
  <1>6. ASSUME NEW s \in Stream, Leave(s) PROVE EnvelopesInv'
    BY <1>6, LeaveStep
  <1>7. CASE UNCHANGED envelopeVars
    <2>1. UNCHANGED <<mode, fed, taken, prompt, reason, phase, due, out, chunkSeq>>
      BY <1>7 DEF envelopeVars
    <2>2. EnvelopesTypeOK /\ IdsInv /\ \A t \in Stream : OneStreamInv(t)
      BY DEF EnvelopesInv, StreamInv, OneStreamInv
    <2>3. EnvelopesTypeOK'
      BY <2>1, <2>2 DEF EnvelopesTypeOK
    <2>4. IdsInv'
      BY <2>1, <2>2 DEF IdsInv
    <2>5. \A t \in Stream : OneStreamInv(t)'
      BY <2>1, <2>2, OtherStream
    <2> QED
      BY <2>3, <2>4, <2>5 DEF EnvelopesInv, StreamInv, OneStreamInv
  <1> QED
    BY <1>1, <1>2, <1>3, <1>4, <1>5, <1>6, <1>7 DEF EnvelopesNext

-----------------------------------------------------------------------------
(* What the consumers can rely on                                            *)

\* Every variable of the streams keeps its type, and a loop has read no more than was fed.
THEOREM EnvelopesTyped == EnvelopesSpec => []EnvelopesTypeOK
  <1>1. EnvelopesInv => EnvelopesTypeOK
    BY DEF EnvelopesInv
  <1> QED
    BY EnvelopesStart, EnvelopesStep, <1>1, PTL DEF EnvelopesSpec

\* Two chunks of a port never carry the same id: the counter that streamPrompt takes ids
\* from belongs to the port, however many streams overlap and take turns.
THEOREM IdsAreUnique == EnvelopesSpec => []ChunkIdsUnique
  <1>1. EnvelopesInv => ChunkIdsUnique
    <2>1. \A s \in Stream : Numbered(s) = NumberedIn(out[s])
      BY DEF Numbered, NumberedIn
    <2> QED
      BY <2>1 DEF EnvelopesInv, IdsInv, IdsFrom, ChunkIdsUnique
  <1> QED
    BY EnvelopesStart, EnvelopesStep, <1>1, PTL DEF EnvelopesSpec

\* Given(s) is what was given, and the chunk that is due to a consumer that stays.
LEMMA GivenOnes ==
    ASSUME EnvelopesInv, NEW s \in Stream, NEW g, g = Given(s)
    PROVE  /\ \A i, j \in DOMAIN g :
                  i < j /\ Shows(g[i]) /\ Shows(g[j]) => Precedes(g[i], g[j])
           /\ \A i \in DOMAIN g : Shows(g[i]) => g[i].of \in 1..taken[s]
           /\ \A i \in DOMAIN g : g[i].kind = "native" => WantsNative(s)
           /\ \A i \in DOMAIN g : g[i].kind = "chunk" => HasChunk(s, g[i].of)
           /\ \A n \in 1..taken[s] :
                 /\ WantsNative(s) => \E i \in DOMAIN g : g[i].kind = "native" /\ g[i].of = n
                 /\ HasChunk(s, n) =>
                        \/ \E i \in DOMAIN g : g[i].kind = "chunk" /\ g[i].of = n
                        \/ n = taken[s] /\ phase[s] = "abandoned"
  <1> DEFINE q == out[s]
  <1>1. EnvelopesTypeOK /\ OneStreamInv(s)
    BY DEF EnvelopesInv, StreamInv, OneStreamInv
  <1>2. /\ q \in Seq(Envelope) /\ taken[s] \in Nat
        /\ g = q \o IF phase[s] = "abandoned" THEN <<>> ELSE due[s]
    BY <1>1 DEF EnvelopesTypeOK, Given
  <1>3. /\ \A i, j \in DOMAIN q :
               i < j /\ Shows(q[i]) /\ Shows(q[j]) => Precedes(q[i], q[j])
        /\ \A i \in DOMAIN q : Shows(q[i]) => q[i].of \in 1..taken[s]
        /\ \A i \in DOMAIN q : q[i].kind = "native" => WantsNative(s)
        /\ \A i \in DOMAIN q : q[i].kind = "chunk" => HasChunk(s, q[i].of)
        /\ \A n \in 1..taken[s] :
              /\ WantsNative(s) => \E i \in DOMAIN q : q[i].kind = "native" /\ q[i].of = n
              /\ HasChunk(s, n) =>
                     \/ \E i \in DOMAIN q : q[i].kind = "chunk" /\ q[i].of = n
                     \/ n = taken[s] /\ due[s] # <<>>
    BY <1>1 DEF OneStreamInv, OrderInv, ContentInv, GivenAs
  <1>4. CASE phase[s] = "abandoned" \/ due[s] = <<>>
    <2>1. g = q
      BY <1>2, <1>4, ConcatEmptySeq
    <2> QED
      BY <1>3, <1>4, <2>1
  <1>5. CASE phase[s] # "abandoned" /\ due[s] # <<>>
    <2> DEFINE e == Chunk(taken[s], due[s][1].id)
    <2>1. /\ due[s] = <<e>> /\ due[s][1].id \in Nat /\ taken[s] > 0
          /\ WantsNative(s) /\ HasChunk(s, taken[s]) /\ phase[s] = "yielded"
          /\ \A i \in DOMAIN q : q[i].kind = "chunk" => q[i].of < taken[s]
      BY <1>1, <1>5 DEF OneStreamInv, DueInv
    <2>2. e \in Envelope /\ e.kind = "chunk" /\ e.of = taken[s] /\ Shows(e)
      BY <1>2, <2>1, EnvelopeKinds DEF Shows
    <2> HIDE DEF e
    <2>3. g = Append(q, e)
      <3>1. g = q \o <<e>>
        BY <1>2, <1>5, <2>1
      <3> QED
        BY <1>2, <2>2, <3>1, AppendIsConcat
    <2>4. /\ Len(g) \in DOMAIN g /\ g[Len(g)] = e
          /\ \A i \in DOMAIN g : \/ i \in DOMAIN q /\ g[i] = q[i]
                                 \/ i = Len(g) /\ g[i] = e
          /\ \A i \in DOMAIN q : i \in DOMAIN g /\ g[i] = q[i]
      <3>1. q \in Seq(Envelope) /\ e \in Envelope /\ g = Append(q, e)
        BY <1>2, <2>2, <2>3
      <3> HIDE DEF q
      <3> QED
        BY <3>1, OneMore
    <2>5. \A i \in DOMAIN q : Precedes(q[i], e)
      <3>1. ASSUME NEW i \in DOMAIN q PROVE Precedes(q[i], e)
        <4>1. Shows(q[i]) /\ q[i].kind \in {"native", "chunk"}
          BY <1>1, <2>1, ReadingStream, TypedEnvelopes, EnvelopeFields DEF Shows
        <4>2. q[i].of \in 1..taken[s]
          BY <1>3, <4>1
        <4> QED
          BY <1>2, <2>1, <2>2, <4>1, <4>2 DEF Precedes
      <3> QED
        BY <3>1
    <2>6. \A i, j \in DOMAIN g :
              i < j /\ Shows(g[i]) /\ Shows(g[j]) => Precedes(g[i], g[j])
      BY <1>2, <1>3, <2>2, <2>3, <2>5, ShowNext
    <2>7. /\ \A i \in DOMAIN g : Shows(g[i]) => g[i].of \in 1..taken[s]
          /\ \A i \in DOMAIN g : g[i].kind = "native" => WantsNative(s)
          /\ \A i \in DOMAIN g : g[i].kind = "chunk" => HasChunk(s, g[i].of)
      <3>1. taken[s] \in 1..taken[s]
        BY <1>2, <2>1
      <3> QED
        BY <1>3, <2>1, <2>2, <2>4, <3>1
    <2>8. ASSUME NEW n \in 1..taken[s]
          PROVE  /\ WantsNative(s) => \E i \in DOMAIN g : g[i].kind = "native" /\ g[i].of = n
                 /\ HasChunk(s, n) => \E i \in DOMAIN g : g[i].kind = "chunk" /\ g[i].of = n
      <3>1. CASE n = taken[s]
        BY <1>3, <2>2, <2>4, <3>1
      <3>2. CASE n # taken[s]
        BY <1>3, <2>4, <3>2
      <3> QED
        BY <3>1, <3>2
    <2> QED
      BY <2>6, <2>7, <2>8
  <1> QED
    BY <1>4, <1>5

\* Every mode gives its consumers all the updates it is for, once each and in order, up to
\* where an abandoned consumer stopped, and streamPrompt ends when it has given them all.
THEOREM UpdatesAreMirrored == EnvelopesSpec => []EnvelopesMirrorUpdates
  <1>1. EnvelopesInv => EnvelopesMirrorUpdates
    <2> SUFFICES ASSUME EnvelopesInv, NEW s \in Stream
                 PROVE  /\ \A i, j \in Of(s, {"native", "chunk"}) :
                               i < j => Precedes(Given(s)[i], Given(s)[j])
                        /\ \A kind \in {"native", "chunk"} :
                              /\ Shown(s, kind) \subseteq ToShow(s, kind)
                              /\ \A n \in ToShow(s, kind) \ Shown(s, kind) :
                                     phase[s] = "abandoned" /\ n = taken[s]
                        /\ phase[s] \in {"told", "finished", "failed"} =>
                               taken[s] = Len(fed[s])
      BY DEF EnvelopesMirrorUpdates
    <2> DEFINE g == Given(s)
    <2>1. /\ \A i, j \in DOMAIN g :
                 i < j /\ Shows(g[i]) /\ Shows(g[j]) => Precedes(g[i], g[j])
          /\ \A i \in DOMAIN g : Shows(g[i]) => g[i].of \in 1..taken[s]
          /\ \A i \in DOMAIN g : g[i].kind = "native" => WantsNative(s)
          /\ \A i \in DOMAIN g : g[i].kind = "chunk" => HasChunk(s, g[i].of)
          /\ \A n \in 1..taken[s] :
                /\ WantsNative(s) => \E i \in DOMAIN g : g[i].kind = "native" /\ g[i].of = n
                /\ HasChunk(s, n) =>
                       \/ \E i \in DOMAIN g : g[i].kind = "chunk" /\ g[i].of = n
                       \/ n = taken[s] /\ phase[s] = "abandoned"
      BY GivenOnes
    <2>2. \A kinds : Of(s, kinds) = {i \in DOMAIN g : g[i].kind \in kinds}
      BY DEF Of
    <2>3. \A kind : Shown(s, kind) = {g[i].of : i \in {j \in DOMAIN g : g[j].kind = kind}}
      BY DEF Shown, Of
    <2> HIDE DEF g
    <2>4. \A i, j \in Of(s, {"native", "chunk"}) : i < j => Precedes(g[i], g[j])
      BY <2>1, <2>2 DEF Shows
    <2>5. /\ Shown(s, "native") \subseteq ToShow(s, "native")
          /\ ToShow(s, "native") \subseteq Shown(s, "native")
      BY <2>1, <2>3 DEF ToShow, Shows
    <2>6. /\ Shown(s, "chunk") \subseteq ToShow(s, "chunk")
          /\ \A n \in ToShow(s, "chunk") \ Shown(s, "chunk") :
                 phase[s] = "abandoned" /\ n = taken[s]
      BY <2>1, <2>3 DEF ToShow, Shows
    <2>7. phase[s] \in {"told", "finished", "failed"} => taken[s] = Len(fed[s])
      BY DEF EnvelopesInv, StreamInv, EndInv
    <2> QED
      BY <2>4, <2>5, <2>6, <2>7 DEF g
  <1> QED
    BY EnvelopesStart, EnvelopesStep, <1>1, PTL DEF EnvelopesSpec

\* A consumer of chunks is told the end once, last, and as toFinishReason has it, whatever
\* stopReason the agent reports.
THEOREM FinishIsTold == EnvelopesSpec => []FinishTellsWhy
  <1>1. EnvelopesInv => FinishTellsWhy
    <2> SUFFICES ASSUME EnvelopesInv, NEW s \in Stream
                 PROVE  LET ends == {i \in DOMAIN out[s] : out[s][i].kind = "finish"} IN
                        /\ ends # {} <=> WantsOpenAI(s) /\ phase[s] \in {"told", "finished"}
                        /\ \A i \in ends :
                            /\ i = Len(out[s]) /\ prompt[s] = "resolved"
                            /\ out[s][i].reason \in
                                   {"stop", "length", "content_filter", "tool_calls"}
                            /\ out[s][i].reason = "length" <=>
                                   reason[s] \in {"max_tokens", "max_turn_requests"}
                            /\ out[s][i].reason = "content_filter" <=> reason[s] = "refusal"
      BY DEF FinishTellsWhy
    <2>1. EndInv(s)
      BY DEF EnvelopesInv, StreamInv
    <2>2. /\ ToFinishReason(reason[s]) \in {"stop", "length", "content_filter"}
          /\ ToFinishReason(reason[s]) = "length" <=>
                 reason[s] \in {"max_tokens", "max_turn_requests"}
          /\ ToFinishReason(reason[s]) = "content_filter" <=> reason[s] = "refusal"
      BY DEF ToFinishReason, FinishReasonOf
    <2> QED
      BY <2>1, <2>2 DEF EndInv
  <1> QED
    BY EnvelopesStart, EnvelopesStep, <1>1, PTL DEF EnvelopesSpec

=============================================================================
