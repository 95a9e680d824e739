---------------------------- MODULE StreamAgentPort ----------------------------
(* streamPrompt over an agent port (runtime/acp.agent.port.stream.ts): the    *)
(* lock that keeps one stream at a time, the update handler each stream       *)
(* installs, its queue, and the prompt whose settling ends it all.  The queue *)
(* is the channel that StreamPromptQueue implements.  The generator runs from *)
(* one await or yield to the next in one step; the consumer pulls it, or      *)
(* abandons it where it is suspended in a yield.                              *)
EXTENDS Naturals, Sequences, FiniteSets
LOCAL INSTANCE FiniteSetsExt

CONSTANTS
    Stream,         \* the calls of streamPrompt()
    Session,        \* session ids
    None,           \* undefined
    MaxUpdates      \* bounds the updates all prompts produce together

ASSUME NoneAssumption == None \notin Stream \cup Session
ASSUME MaxUpdatesAssumption == MaxUpdates \in Nat

VARIABLES
    activeStream,   \* the stream that holds the lock
    phase,          \* where the generator of each stream stands
    session,        \* params.sessionId of each stream
    prompt,         \* the promise of inner.prompt()
    handlers,       \* the streams whose update handler is installed
    buffer,         \* the unread updates of each queue
    closed,         \* the queues that were closed
    emitted,        \* how many updates the agent has sent for each prompt
    got,            \* the updates each consumer has received
    reset           \* history: the streams in flight when the port disconnected

vars == <<activeStream, phase, session, prompt, handlers, buffer, closed,
          emitted, got, reset>>
agentVars == <<prompt, emitted, reset>>

\* "reading" and "settling" await the queue and the prompt, "yielded" is in a
\* yield; the rest are the ways not to have begun or to have ended.
Running == {"reading", "yielded", "settling"}
Ended   == {"finished", "failed", "refused", "abandoned"}

\* The n-th update of a prompt, tagged with a session id or with none.
UpdateOf(s, n, id) == [stream |-> s, n |-> n, session |-> id]
Update == [stream : Stream, n : Nat, session : Session \cup {None}]

Init ==
    /\ activeStream = None
    /\ phase = [s \in Stream |-> "new"]
    /\ session = [s \in Stream |-> None]
    /\ prompt = [s \in Stream |-> "none"]
    /\ handlers = {}
    /\ buffer = [s \in Stream |-> <<>>]
    /\ closed = {}
    /\ emitted = [s \in Stream |-> 0]
    /\ got = [s \in Stream |-> <<>>]
    /\ reset = {}

-----------------------------------------------------------------------------
(* The port                                                                  *)

\* Only the stream that took the lock may release it.
\* Mutant: any stream may.
ReleaseAny(s)  == activeStream' = None
Release(s) == activeStream' = IF activeStream = s THEN None ELSE activeStream

\* The first pull of the generator: refused while another stream is active;
\* otherwise up to the first read of the queue.
Refuse(s) ==
    /\ phase[s] = "new"
    /\ activeStream # None
    /\ phase' = [phase EXCEPT ![s] = "refused"]
    /\ UNCHANGED <<activeStream, session, handlers, buffer, closed, got, agentVars>>

Begin(s) ==
    /\ phase[s] = "new"
    /\ activeStream = None
    /\ activeStream' = s
    /\ \E id \in Session \cup {None} : session' = [session EXCEPT ![s] = id]
    /\ handlers' = handlers \cup {s}
    /\ prompt' = [prompt EXCEPT ![s] = "pending"]
    /\ phase' = [phase EXCEPT ![s] = "reading"]
    /\ UNCHANGED <<buffer, closed, emitted, got, reset>>

\* The lock is given back when inner.prompt() throws.  Mutant: it is kept.
TakeLock(s)    == activeStream' = s
TakeAndGive(s) == activeStream' = None

\* The same when inner.prompt() throws: everything taken is given back.
BeginThrows(s) ==
    /\ phase[s] = "new"
    /\ activeStream = None
    /\ TakeAndGive(s)
    /\ closed' = closed \cup {s}
    /\ phase' = [phase EXCEPT ![s] = "failed"]
    /\ UNCHANGED <<session, handlers, buffer, got, agentVars>>

\* disconnect() frees the lock at once; the prompts stay as they are, and end
\* when, or if, the inner port ends them.
Disconnect ==
    /\ activeStream' = None
    /\ reset' = reset \cup handlers
    /\ UNCHANGED <<phase, session, prompt, handlers, buffer, closed, emitted, got>>

\* The reaction to the settled prompt.
Cleanup(s) ==
    /\ s \in handlers
    /\ prompt[s] # "pending"
    /\ handlers' = handlers \ {s}
    /\ closed' = closed \cup {s}
    /\ Release(s)
    /\ UNCHANGED <<phase, session, buffer, got, agentVars>>

-----------------------------------------------------------------------------
(* The agent                                                                 *)

\* A handler keeps an update unless both sides name a session and differ.
\* Mutant: it keeps every update.
AcceptsAll(t, u) == TRUE
Accepts(t, u) == session[t] = None \/ u.session = None \/ u.session = session[t]

\* The agent sends an update for a prompt it is working on, tagged with the
\* prompt's session if that has one; every installed handler sees it.
AgentUpdate(s) ==
    /\ prompt[s] = "pending"
    /\ MapThenSumSet(LAMBDA t : emitted[t], Stream) < MaxUpdates
    /\ emitted' = [emitted EXCEPT ![s] = @ + 1]
    /\ \E id \in {session[s], None} :
         LET u == UpdateOf(s, emitted[s] + 1, id)
         IN  buffer' = [t \in Stream |->
                          IF t \in handlers \ closed /\ Accepts(t, u)
                          THEN Append(buffer[t], u) ELSE buffer[t]]
    /\ UNCHANGED <<activeStream, phase, session, prompt, handlers, closed, got, reset>>

Settle(s) ==
    /\ prompt[s] = "pending"
    /\ \E how \in {"ok", "error"} : prompt' = [prompt EXCEPT ![s] = how]
    /\ UNCHANGED <<activeStream, phase, session, handlers, buffer, closed,
                   emitted, got, reset>>

-----------------------------------------------------------------------------
(* The generator                                                             *)

\* The queue hands over an update.  It maps to envelopes, each one a yield,
\* or to none in this envelope mode, and then the next one is read.
Take(s) ==
    /\ phase[s] = "reading"
    /\ buffer[s] # <<>>
    /\ got' = [got EXCEPT ![s] = Append(@, Head(buffer[s]))]
    /\ buffer' = [buffer EXCEPT ![s] = Tail(@)]
    /\ \E next \in {"yielded", "reading"} : phase' = [phase EXCEPT ![s] = next]
    /\ UNCHANGED <<activeStream, session, handlers, closed, agentVars>>

\* The consumer pulls again after a yield.
Pull(s) ==
    /\ phase[s] = "yielded"
    /\ phase' = [phase EXCEPT ![s] = "reading"]
    /\ UNCHANGED <<activeStream, session, handlers, buffer, closed, got, agentVars>>

\* Mutant: leaving does not close the queue.
AbandonOpen(s) ==
    /\ phase[s] = "yielded"
    /\ phase' = [phase EXCEPT ![s] = "abandoned"]
    /\ UNCHANGED <<activeStream, session, handlers, buffer, closed, got, agentVars>>

\* The consumer leaves its loop: the queue is closed, and nothing else.
Abandon(s) ==
    /\ phase[s] = "yielded"
    /\ phase' = [phase EXCEPT ![s] = "abandoned"]
    /\ closed' = closed \cup {s}
    /\ UNCHANGED <<activeStream, session, handlers, buffer, got, agentVars>>

\* A closed queue ends the loop once it is drained.  Mutant: at once.
EndsWhenClosed(s) == s \in closed
Ends(s)           == s \in closed /\ buffer[s] = <<>>

\* The loop ends, the prompt is awaited.
Drained(s) ==
    /\ phase[s] = "reading"
    /\ Ends(s)
    /\ phase' = [phase EXCEPT ![s] = "settling"]
    /\ UNCHANGED <<activeStream, session, handlers, buffer, closed, got, agentVars>>

Outcome(s) == IF prompt[s] = "ok" THEN "finished" ELSE "failed"

\* The outcome of the prompt is passed on.
Finish(s) ==
    /\ phase[s] = "settling"
    /\ prompt[s] # "pending"
    /\ phase' = [phase EXCEPT ![s] = Outcome(s)]
    /\ closed' = closed \cup {s}
    /\ UNCHANGED <<activeStream, session, handlers, buffer, got, agentVars>>

-----------------------------------------------------------------------------
Reader(s) == Take(s) \/ Pull(s) \/ Drained(s) \/ Finish(s)

Next ==
    \/ Disconnect
    \/ \E s \in Stream : \/ Refuse(s) \/ Begin(s) \/ BeginThrows(s)
                         \/ AgentUpdate(s) \/ Settle(s) \/ Cleanup(s)
                         \/ Reader(s) \/ Abandon(s)

Spec == Init /\ [][Next]_vars

\* The reaction to a settled promise runs; a consumer keeps pulling.  Nothing
\* makes an agent answer.
Fairness == \A s \in Stream : WF_vars(Cleanup(s)) /\ WF_vars(Reader(s))
FairSpec == Spec /\ Fairness

-----------------------------------------------------------------------------
(* Properties                                                                *)

TypeOK ==
    /\ activeStream \in Stream \cup {None}
    /\ phase \in [Stream -> {"new"} \cup Running \cup Ended]
    /\ session \in [Stream -> Session \cup {None}]
    /\ prompt \in [Stream -> {"none", "pending", "ok", "error"}]
    /\ handlers \subseteq Stream
    /\ buffer \in [Stream -> Seq(Update)]
    /\ closed \subseteq Stream
    /\ emitted \in [Stream -> Nat]
    /\ got \in [Stream -> Seq(Update)]
    /\ reset \subseteq Stream

\* A prompt in flight keeps the port busy, however its consumer behaves: only
\* disconnect() takes the lock away from it, and not the late end of a prompt
\* from before a disconnect() when a newer stream has begun since.
InFlightHoldsLock == handlers \subseteq reset \cup {activeStream}

\* q holds the first n updates of the prompt of s, once each and in order, and
\* none of another session than id.
Complete(q, s, n, id) ==
    /\ \A m \in 1..n : \E i \in DOMAIN q : q[i].stream = s /\ q[i].n = m
    /\ \A i \in DOMAIN q : q[i].stream = s => q[i].n \in 1..n
    /\ \A i, j \in DOMAIN q : i < j /\ q[i].stream = s /\ q[j].stream = s => q[i].n < q[j].n
    /\ id # None => \A i \in DOMAIN q : q[i].session \in {id, None}

\* A consumer that is told how the prompt ended has received every update of
\* that prompt before, once each and in order, and none of another session.
NothingLostAtTheEnd ==
    \A s \in Stream : phase[s] \in {"finished", "failed"} =>
        Complete(got[s], s, emitted[s], session[s])

\* An abandoned stream stops buffering, long as its prompt may go on.
AbandonedStopsBuffering ==
    [][\A s \in Stream : phase[s] \in Ended => Len(buffer'[s]) <= Len(buffer[s])]_vars

\* A prompt that settles, or never begins, gives the port back, and its consumer sees
\* the end.
SettledEnds ==
    \A s \in Stream :
        /\ activeStream = s /\ prompt[s] # "pending" ~> activeStream # s
        /\ phase[s] = "reading" /\ prompt[s] # "pending" ~> phase[s] \in Ended
=============================================================================
