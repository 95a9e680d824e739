----------------------------- MODULE UpdateChannel -----------------------------
(* What streamPrompt needs of the queue between its update handler and its    *)
(* consumer: every accepted update is received once and in order, and the end *)
(* of the stream, or its error, is learnt only after the last of them.        *)
EXTENDS Naturals, Sequences

CONSTANT Update

VARIABLES
    sent,      \* the updates accepted so far
    got,       \* the updates received so far
    done,      \* "open", or how the producer ended the stream
    outcome    \* "none", or how the consumer saw it end

vars == <<sent, got, done, outcome>>

Ending == {"end", "error"}

Init ==
    /\ sent = <<>>
    /\ got = <<>>
    /\ done = "open"
    /\ outcome = "none"

Unread == Len(got) < Len(sent)

\* An update that finds the consumer waiting is received in the same step.
Receive(all) == got' = Append(got, all[Len(got) + 1])

Send(u) ==
    /\ done = "open"
    /\ sent' = Append(sent, u)
    /\ got' = got \/ Receive(sent')
    /\ UNCHANGED <<done, outcome>>

Finish ==
    /\ done = "open"
    /\ done' \in Ending
    /\ outcome' = outcome \/ (~Unread /\ outcome' = done')
    /\ UNCHANGED <<sent, got>>

Take ==
    /\ Unread
    /\ Receive(sent)
    /\ UNCHANGED <<sent, done, outcome>>

Conclude ==
    /\ ~Unread
    /\ done # "open"
    /\ outcome = "none"
    /\ outcome' = done
    /\ UNCHANGED <<sent, got, done>>

Next == (\E u \in Update : Send(u)) \/ Finish \/ Take \/ Conclude

Spec == Init /\ [][Next]_vars

\* A consumer that keeps asking is served.
Fairness == WF_vars(Take) /\ WF_vars(Conclude)
FairSpec == Spec /\ Fairness
=============================================================================
