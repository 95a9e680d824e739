---------------------------- MODULE StreamEnvelopes ----------------------------
(* What the consumers of one port's streams are given: the loop of            *)
(* streamPrompt (runtime/acp.agent.port.stream.ts), which turns every update  *)
(* into envelopes (runtime/envelope.mapper.ts) and the end of the prompt into *)
(* a finish chunk (domain/stop.reason.ts).  Chunk ids come from one counter   *)
(* of the port; streams overlap once disconnect() has released the lock.      *)
EXTENDS Naturals, Sequences, FiniteSets

CONSTANTS
    Stream,         \* the calls of streamPrompt()
    StopReason,     \* what the agent may report: nothing validates it
    None,           \* undefined
    MaxUpdates      \* bounds the updates of a stream

ASSUME NoneAssumption == None \notin StopReason

VARIABLES
    mode,       \* the envelope mode of each stream
    fed,        \* history: the updates its queue accepted, by what they carry
    taken,      \* how many of them its loop has read
    prompt,     \* "pending", "rejected" or "resolved"
    reason,     \* the stopReason of the response
    phase,      \* where its loop stands
    due,        \* the envelopes of the current update that are not yielded yet
    out,        \* the envelopes its consumer was given
    chunkSeq    \* the port's counter

envelopeVars == <<mode, fed, taken, prompt, reason, phase, due, out, chunkSeq>>

Mode == {"openai", "native", "both"}
Kind == {"text", "other"}   \* extractChunkText finds a text in it, or not

Native(n)    == [kind |-> "native", of |-> n]
Chunk(n, id) == [kind |-> "chunk", of |-> n, id |-> id]
Final(r, id) == [kind |-> "finish", reason |-> r, id |-> id]

EnvelopesInit ==
    /\ mode \in [Stream -> Mode]
    /\ fed = [s \in Stream |-> <<>>]
    /\ taken = [s \in Stream |-> 0]
    /\ prompt = [s \in Stream |-> "pending"]
    /\ reason = [s \in Stream |-> None]
    /\ phase = [s \in Stream |-> "reading"]
    /\ due = [s \in Stream |-> <<>>]
    /\ out = [s \in Stream |-> <<>>]
    /\ chunkSeq = 0

-----------------------------------------------------------------------------
(* The agent                                                                 *)

\* An update reaches the queue as long as the prompt goes on and its consumer stays.
Feed(s) ==
    /\ prompt[s] = "pending" /\ phase[s] # "abandoned"
    /\ Len(fed[s]) < MaxUpdates
    /\ \E k \in Kind : fed' = [fed EXCEPT ![s] = Append(@, k)]
    /\ UNCHANGED <<mode, taken, prompt, reason, phase, due, out, chunkSeq>>

Settle(s) ==
    /\ prompt[s] = "pending"
    /\ \/ prompt' = [prompt EXCEPT ![s] = "rejected"] /\ UNCHANGED reason
       \/ /\ prompt' = [prompt EXCEPT ![s] = "resolved"]
          /\ \E r \in StopReason \cup {None} : reason' = [reason EXCEPT ![s] = r]
    /\ UNCHANGED <<mode, fed, taken, phase, due, out, chunkSeq>>

-----------------------------------------------------------------------------
(* Envelopes                                                                 *)

WantsNative(s) == mode[s] \in {"native", "both"}
WantsOpenAI(s) == mode[s] \in {"openai", "both"}

\* Mutant: ids are counted per stream.
OwnId(s)  == Cardinality({i \in DOMAIN out[s] : out[s][i].kind # "native"}) + 1
NextId(s) == chunkSeq + 1

HasChunk(s, n) == WantsOpenAI(s) /\ fed[s][n] = "text"

\* sessionUpdateToEnvelopes.  Mutant: a text is given as a chunk or as it is, not both.
EitherEnvelope(s, n) ==
    IF HasChunk(s, n) THEN <<Chunk(n, NextId(s))>>
    ELSE IF WantsNative(s) THEN <<Native(n)>> ELSE <<>>
Envelopes(s, n) ==
    (IF WantsNative(s) THEN <<Native(n)>> ELSE <<>>)
        \o (IF HasChunk(s, n) THEN <<Chunk(n, NextId(s))>> ELSE <<>>)

\* STOP_REASON_TO_FINISH_REASON, whose own keys are the protocol's stop reasons; the object
\* inherits more.
FinishReasonOf ==
    [r \in {"end_turn", "max_tokens", "max_turn_requests", "refusal", "cancelled"} |->
        IF r \in {"max_tokens", "max_turn_requests"} THEN "length"
        ELSE IF r = "refusal" THEN "content_filter" ELSE "stop"]
Inherited == {"constructor", "toString", "__proto__"}

\* toFinishReason: a reason that is no key of the table's own ends in "stop".  Mutants: the
\* response is not looked at; the table is indexed with whatever it says, and "stop" serves
\* where that finds nothing.
AlwaysStop(r)     == "stop"
Indexed(r)        ==
    IF r \in DOMAIN FinishReasonOf THEN FinishReasonOf[r]
    ELSE IF r \in Inherited THEN "function" ELSE "stop"
ToFinishReason(r) == IF r \in DOMAIN FinishReasonOf THEN FinishReasonOf[r] ELSE "stop"

-----------------------------------------------------------------------------
(* The loop of the generator                                                 *)

\* It reads an update, and yields the first of its envelopes if there is one.
Take(s) ==
    /\ phase[s] = "reading"
    /\ taken[s] < Len(fed[s])
    /\ taken' = [taken EXCEPT ![s] = @ + 1]
    /\ chunkSeq' = IF HasChunk(s, taken'[s]) THEN chunkSeq + 1 ELSE chunkSeq
    /\ LET es == Envelopes(s, taken'[s]) IN
        IF es = <<>> THEN UNCHANGED <<phase, due, out>>
        ELSE /\ phase' = [phase EXCEPT ![s] = "yielded"]
             /\ out' = [out EXCEPT ![s] = Append(@, Head(es))]
             /\ due' = [due EXCEPT ![s] = Tail(es)]
    /\ UNCHANGED <<mode, fed, prompt, reason>>

\* The consumer pulls again: the next envelope of the update, or the next update.
Pull(s) ==
    /\ phase[s] = "yielded"
    /\ IF due[s] = <<>> THEN phase' = [phase EXCEPT ![s] = "reading"] /\ UNCHANGED <<due, out>>
       ELSE /\ out' = [out EXCEPT ![s] = Append(@, Head(due[s]))]
            /\ due' = [due EXCEPT ![s] = Tail(@)]
            /\ UNCHANGED phase
    /\ UNCHANGED <<mode, fed, taken, prompt, reason, chunkSeq>>

\* Mutant: the loop ends with the prompt.
PromptOver(s) == prompt[s] # "pending"
\* The queue is closed by the prompt's end and has been read.
QueueOver(s)  == prompt[s] # "pending" /\ taken[s] = Len(fed[s])

\* The response ends the stream, with a chunk for those who read chunks.
End(s) ==
    /\ phase[s] = "reading"
    /\ QueueOver(s)
    /\ IF prompt[s] = "rejected" THEN
            phase' = [phase EXCEPT ![s] = "failed"] /\ UNCHANGED <<out, chunkSeq>>
       ELSE IF WantsOpenAI(s) THEN
            /\ phase' = [phase EXCEPT ![s] = "told"]
            /\ chunkSeq' = chunkSeq + 1
            /\ out' = [out EXCEPT ![s] = Append(@, Final(ToFinishReason(reason[s]), NextId(s)))]
       ELSE phase' = [phase EXCEPT ![s] = "finished"] /\ UNCHANGED <<out, chunkSeq>>
    /\ UNCHANGED <<mode, fed, taken, prompt, reason, due>>

\* The consumer leaves, or pulls after the finish chunk.
Leave(s) ==
    /\ \/ phase[s] = "yielded" /\ phase' = [phase EXCEPT ![s] = "abandoned"]
       \/ phase[s] = "told" /\ phase' = [phase EXCEPT ![s] = "finished"]
    /\ UNCHANGED <<mode, fed, taken, prompt, reason, due, out, chunkSeq>>

EnvelopesNext ==
    \E s \in Stream : Feed(s) \/ Settle(s) \/ Take(s) \/ Pull(s) \/ End(s) \/ Leave(s)

EnvelopesSpec == EnvelopesInit /\ [][EnvelopesNext]_envelopeVars

-----------------------------------------------------------------------------
(* Properties                                                                *)

Envelope ==
    [kind : {"native"}, of : Nat] \cup [kind : {"chunk"}, of : Nat, id : Nat]
        \cup [kind : {"finish"}, reason : {"stop", "length", "content_filter"}, id : Nat]

EnvelopesTypeOK ==
    /\ mode \in [Stream -> Mode]
    /\ fed \in [Stream -> Seq(Kind)]
    /\ taken \in [Stream -> Nat] /\ \A s \in Stream : taken[s] <= Len(fed[s])
    /\ prompt \in [Stream -> {"pending", "rejected", "resolved"}]
    /\ reason \in [Stream -> StopReason \cup {None}]
    /\ phase \in [Stream -> {"reading", "yielded", "told", "finished", "failed", "abandoned"}]
    /\ due \in [Stream -> Seq(Envelope)] /\ out \in [Stream -> Seq(Envelope)]
    /\ chunkSeq \in Nat

\* Two chunks of a port never carry the same id, in whatever order its streams take turns.
Numbered(s) == {i \in DOMAIN out[s] : out[s][i].kind # "native"}

ChunkIdsUnique ==
    \A s, t \in Stream : \A i \in Numbered(s), j \in Numbered(t) :
        out[s][i].id = out[t][j].id => s = t /\ i = j

\* What a consumer was or will be given, the updates behind the envelopes of one kind in
\* it, and the updates read so far that have such an envelope.
Given(s)        == out[s] \o IF phase[s] = "abandoned" THEN <<>> ELSE due[s]
Of(s, kinds)    == {i \in DOMAIN Given(s) : Given(s)[i].kind \in kinds}
Shown(s, kind)  == {Given(s)[i].of : i \in Of(s, {kind})}
ToShow(s, kind) == {n \in 1..taken[s] : IF kind = "native" THEN WantsNative(s) ELSE HasChunk(s, n)}

\* Envelope e belongs before f: it is of an earlier update, or the native one of the same.
Precedes(e, f) ==
    \/ e.of < f.of
    \/ e.of = f.of /\ e.kind = "native" /\ f.kind = "chunk"

\* Every mode gives its consumers all the updates it is for, once each and in order, up to
\* where an abandoned consumer stopped; and one that is told the end has them all.
EnvelopesMirrorUpdates ==
    \A s \in Stream :
        /\ \A i, j \in Of(s, {"native", "chunk"}) : i < j => Precedes(Given(s)[i], Given(s)[j])
        /\ \A kind \in {"native", "chunk"} :
              /\ Shown(s, kind) \subseteq ToShow(s, kind)
              /\ \A n \in ToShow(s, kind) \ Shown(s, kind) : phase[s] = "abandoned" /\ n = taken[s]
        /\ phase[s] \in {"told", "finished", "failed"} => taken[s] = Len(fed[s])

\* A consumer of chunks learns the end from one finish chunk, after everything else and only
\* from a response.  The chunk has a reason OpenAI's vocabulary knows, whatever string the
\* agent reports, and it is "length" or "content_filter" exactly when the turn was cut short
\* or refused.
FinishTellsWhy ==
    \A s \in Stream :
        LET ends == {i \in DOMAIN out[s] : out[s][i].kind = "finish"} IN
        /\ ends # {} <=> WantsOpenAI(s) /\ phase[s] \in {"told", "finished"}
        /\ \A i \in ends :
            /\ i = Len(out[s]) /\ prompt[s] = "resolved"
            /\ out[s][i].reason \in {"stop", "length", "content_filter", "tool_calls"}
            /\ out[s][i].reason = "length" <=> reason[s] \in {"max_tokens", "max_turn_requests"}
            /\ out[s][i].reason = "content_filter" <=> reason[s] = "refusal"
=============================================================================
