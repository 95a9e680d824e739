------------------------------- MODULE AcpClient -------------------------------
(* The agent port over a StdioConnection (runtime/acp.client.ts).  The client *)
(* holds an RPC link to the stream of the current child.  Its listeners run   *)
(* inside the transport's emissions, so each transport step is composed with  *)
(* what the client does on the events of that step; a stream is named by the  *)
(* child it belongs to.                                                       *)
EXTENDS StdioConnection

CONSTANT MaxAttaching       \* bounds the connect() calls waiting to resume

ASSUME MaxAttachingAssumption == MaxAttaching \in Nat \ {0}

VARIABLES
    attached,   \* the child whose stream the RPC link was built on
    readers,    \* per child: the reader loops started on its stream
    attaching,  \* connect() calls suspended after the transport's connect()
    written,    \* the child the request of the last step was written to
    overlapped  \* history: a call was made before an earlier one had returned

clientVars == <<attached, readers, attaching, written, overlapped>>
allVars == <<vars, clientVars>>

ClientInit ==
    /\ Init
    /\ attached = None
    /\ readers = [c \in Child |-> 0]
    /\ attaching = 0
    /\ written = None
    /\ overlapped = FALSE

-----------------------------------------------------------------------------
(* The listeners the constructor installs                                    *)

\* The states that drop the link.  Mutant: only an error does.
DroppingOnError == {"error"}
Dropping        == {"disconnected", "error"}

\* "state"
OnState(new) == attached' = IF new \in Dropping THEN None ELSE attached

\* "exit": the link survives when getStream() still returns its stream.
\* Mutant: every exit drops it.
OnAnyExit == attached' = None

OnExit ==
    attached' = IF attached # None /\ current' = attached THEN attached ELSE None

NoRequest == written' = None

\* A caller runs: busy tells that an earlier call has not returned.
Calls(busy) == NoRequest /\ overlapped' = (overlapped \/ busy \/ frames # <<>>)
Turns       == NoRequest /\ UNCHANGED overlapped

Announced == OnState(status') /\ UNCHANGED <<readers, attaching>> /\ Turns
Ignored   == UNCHANGED <<attached, readers, attaching>> /\ Turns

-----------------------------------------------------------------------------
(* connect(), disconnect()                                                   *)

\* Calls the transport, which returns at once when it is connect(ing/ed).
ClientConnect ==
    /\ attaching < MaxAttaching
    /\ \/ ConnectBegin
       \/ /\ Callable
          /\ Overlap \/ Pending = {}
          /\ status \in {"connecting", "connected"}
          /\ UNCHANGED vars
    /\ attaching' = attaching + 1
    /\ Calls(Pending # {})
    /\ UNCHANGED <<attached, readers>>

\* connect() resumes: it fails without a stream, keeps the link it has to this
\* stream, or starts a reader on it.
Resuming == frames = <<>> /\ attaching > 0 /\ attaching' = attaching - 1

AttachFails ==
    /\ Resuming
    /\ DisconnectIdle
    /\ attached' = None
    /\ Turns
    /\ UNCHANGED readers

\* A reader loop starts, unless the link is to this stream already.
\* Mutant: it always does.
ReadAgain == readers' = [readers EXCEPT ![current] = @ + 1]
ReadOnce  == IF attached = current THEN UNCHANGED readers ELSE ReadAgain

Attach ==
    /\ Resuming
    /\ current # None
    /\ attached' = current
    /\ ReadOnce
    /\ Turns
    /\ UNCHANGED vars

\* Detaches before it asks the transport.
ClientDisconnect ==
    /\ Overlap \/ attaching = 0
    /\ DisconnectIdle \/ \E k \in Call : DisconnectBegin(k)
    /\ attached' = None
    /\ Calls(attaching > 0)
    /\ UNCHANGED <<readers, attaching>>

\* initialize(), newSession(), prompt(), ...: refused without a link, else
\* written to the stream the link was built on.
Request ==
    /\ Callable
    /\ attached # None
    /\ written' = attached
    /\ UNCHANGED <<vars, attached, readers, attaching, overlapped>>

-----------------------------------------------------------------------------
(* The transport's own steps.  Continuations run before the next event.      *)

TransportFinish == (ConnectFinish \/ \E k \in Call : DisconnectResume(k)) /\ Announced

TransportClosed ==
    /\ CloseFinish
    /\ IF Top.mine THEN Announced ELSE Ignored

ChildEvent ==
    /\ attaching = 0
    /\ \/ \E c \in Child : ChildError(c) /\ Announced
       \/ \E c \in Child : CloseBegin(c) /\ OnExit /\ UNCHANGED <<readers, attaching>> /\ Turns
       \/ \E c \in Child : CloseUnbound(c) /\ Ignored
       \/ \E k \in Call : ForceKill(k) /\ Ignored

ClientNext ==
    \/ ClientConnect \/ AttachFails \/ Attach \/ ClientDisconnect \/ Request
    \/ TransportFinish \/ TransportClosed \/ ChildEvent

ClientSpec == ClientInit /\ [][ClientNext]_allVars

-----------------------------------------------------------------------------
(* Properties                                                                *)

\* A request never goes to a process that has closed, whatever callers and
\* listeners did before; and unless a connect() has yet to resume, only to the
\* one the transport holds, never to one that was replaced.
RequestsReachALiveChild ==
    written # None =>
        /\ proc[written] = "running"
        /\ attaching = 0 => written = current

\* Between two turns of the event loop.
Settled == Quiet /\ attaching = 0

\* While no two calls overlapped: the status tells whether there is a child,
\* and with no disconnect() pending "connected" means requests are accepted.
ConnectedIsUsable ==
    Settled /\ ~overlapped =>
        /\ StatusMatchesCurrent
        /\ Pending = {} /\ status = "connected" => attached # None

\* Two reader loops never compete for one pipe.
OneReader == \A c \in Child : readers[c] <= 1

\* As long as no two calls overlapped.
OneReaderInSequence == ~overlapped => OneReader
=============================================================================
