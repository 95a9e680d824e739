--------------------------- MODULE StreamPromptQueue ---------------------------
(* The queue of one streamPrompt (runtime/stream.prompt.queue.ts): an array   *)
(* with a read index, a wake callback for a consumer that found it empty, and *)
(* one terminal state.  Every method is synchronous, hence one step; the      *)
(* consumer is the for-await loop of streamPrompt, which calls next() again   *)
(* only when the promise of the previous call has been settled.               *)
EXTENDS Naturals, Sequences

CONSTANTS
    Update,     \* the payloads
    CompactAt,  \* the read prefix up to which the array is never compacted (64)
    MaxSent     \* bounds the updates accepted

ASSUME CompactAtAssumption == CompactAt \in Nat
ASSUME MaxSentAssumption == MaxSent \in Nat

VARIABLES
    queue,      \* the array, with the prefix already read
    readIndex,  \* how much of it has been read
    wake,       \* is a next() waiting?
    done,       \* "open", "end" or "error"
    sent,       \* history: the updates accepted
    got,        \* history: the updates next() was answered with
    outcome     \* how the consumer's loop ended: "none", "end" or "error"

vars == <<queue, readIndex, wake, done, sent, got, outcome>>

Init ==
    /\ queue = <<>>
    /\ readIndex = 0
    /\ wake = FALSE
    /\ done = "open"
    /\ sent = <<>>
    /\ got = <<>>
    /\ outcome = "none"

-----------------------------------------------------------------------------
\* The read prefix is cut off when it is past the threshold and longer than
\* what remains.
Compacts(r, q) == r > CompactAt /\ r * 2 > Len(q)

\* Mutant: the index is not reset with the array.
CutOnly(r, q) == queue' = SubSeq(q, r + 1, Len(q)) /\ readIndex' = r
Cut(r, q)     == queue' = SubSeq(q, r + 1, Len(q)) /\ readIndex' = 0

\* A dequeue from array q, which has something unread.
Dequeue(q) ==
    LET r == readIndex + 1
    IN  /\ got' = Append(got, q[r])
        /\ IF Compacts(r, q)
           THEN Cut(r, q)
           ELSE queue' = q /\ readIndex' = r

\* Mutant: the terminal state is consulted before the buffer.
AnswerDoneFirst(q, d) ==
    IF d = "open"
    THEN Dequeue(q) /\ UNCHANGED outcome
    ELSE outcome' = d /\ queue' = q /\ UNCHANGED <<readIndex, got>>

\* A next() is answered from array q and terminal state d: drain first.
Answer(q, d) ==
    IF readIndex < Len(q)
    THEN Dequeue(q) /\ UNCHANGED outcome
    ELSE /\ outcome' = d
         /\ queue' = q
         /\ UNCHANGED <<readIndex, got>>

\* The producer has changed the array to q and the terminal state to d, and
\* wakes a waiting next().
Produce(q, d) ==
    /\ done' = d
    /\ wake' = FALSE
    /\ IF wake THEN Answer(q, d)
       ELSE queue' = q /\ UNCHANGED <<readIndex, got, outcome>>

\* Mutant: an update does not wake the consumer.
PushSilently(u) ==
    /\ done = "open"
    /\ Len(sent) < MaxSent
    /\ sent' = Append(sent, u)
    /\ queue' = Append(queue, u)
    /\ UNCHANGED <<readIndex, wake, done, got, outcome>>

Push(u) ==
    /\ done = "open"
    /\ Len(sent) < MaxSent
    /\ sent' = Append(sent, u)
    /\ Produce(Append(queue, u), "open")

PushError ==
    /\ done = "open"
    /\ Produce(queue, "error")
    /\ UNCHANGED sent

\* Mutant: the end does not wake the consumer.
CloseSilently ==
    /\ done = "open"
    /\ done' = "end"
    /\ UNCHANGED <<queue, readIndex, wake, sent, got, outcome>>

Close ==
    /\ done = "open"
    /\ Produce(queue, "end")
    /\ UNCHANGED sent

\* next(): answered at once, or left waiting for the producer.
NextPromise ==
    /\ ~wake
    /\ outcome = "none"
    /\ IF readIndex < Len(queue) \/ done # "open"
       THEN Answer(queue, done) /\ UNCHANGED wake
       ELSE wake' = TRUE /\ UNCHANGED <<queue, readIndex, got, outcome>>
    /\ UNCHANGED <<done, sent>>

Next == (\E u \in Update : Push(u)) \/ PushError \/ Close \/ NextPromise

Spec == Init /\ [][Next]_vars

\* The for-await loop asks for the next update as long as there is one.
FairSpec == Spec /\ WF_vars(NextPromise)

-----------------------------------------------------------------------------
(* Properties                                                                *)

TypeOK ==
    /\ queue \in Seq(Update)
    /\ readIndex \in 0..Len(queue)
    /\ wake \in BOOLEAN
    /\ done \in {"open", "end", "error"}
    /\ sent \in Seq(Update)
    /\ got \in Seq(Update)
    /\ outcome \in {"none", "end", "error"}

\* The consumer sleeps only when there is nothing for it to see: a wake-up is
\* never lost between its look at the array and the installation of wake.
NoLostWakeUp == wake => readIndex = Len(queue) /\ done = "open" /\ outcome = "none"

\* The array keeps at most CompactAt read entries, or as many as it has unread
\* ones: a long stream does not retain what was consumed.
ReadPrefixBounded == readIndex <= CompactAt \/ readIndex * 2 <= Len(queue)

\* The array, read through the index, is the channel's buffer: updates arrive
\* once and in order across compactions, and the end is seen after the last.
Channel == INSTANCE UpdateChannel
           WITH Update <- Update, sent <- sent, got <- got, done <- done, outcome <- outcome

ImplementsChannel == Channel!Spec

\* A consumer that keeps reading receives every update and then the end.
ServesConsumer == Channel!Fairness
=============================================================================
