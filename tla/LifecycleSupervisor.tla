-------------------------- MODULE LifecycleSupervisor --------------------------
(***************************************************************************)
(* LifecycleAgentPort (src/runtime/lifecycle.supervisor.ts) over an agent  *)
(* port and the in-memory session store (session.persistence.memory.ts).   *)
(* A method runs up to its next await in one step; the store writes when   *)
(* it is called.  The agent creates a session before its caller hears of   *)
(* it and may notify of any session it has.                                *)
(***************************************************************************)
EXTENDS RestartWithBackoff

CONSTANTS
    NewSessions,        \* the calls of newSession()
    Notes,              \* the notification objects
    Sessions, Cwds,
    Workspace,          \* the configured workspace, a member of Cwds
    ResumeOnRestart,
    None                \* undefined
ASSUME LifecycleAssumption ==
    /\ Workspace \in Cwds
    /\ ResumeOnRestart \in BOOLEAN
    /\ None \notin Sessions \cup Cwds

VARIABLES
    lastSessionCwd,
    store,          \* the record under the configured key, or None
    persisted,      \* persistedNotifications
    stage, loaded,  \* of each restart: how far it is, and sessionToResume
    asked,          \* of each newSession: its stage, directory and session
    note,           \* of each notification: its way, and its vendor session id
    live,           \* the sessions of the running agent
    createdIn,      \* history: the directory each session was created in
    current,        \* history: the session lastSessionCwd was set for
    stray,          \* history: a record was written for a session other than current
    writes          \* history: the records each notification caused
vars == <<restartVars, lastSessionCwd, store, persisted, stage, loaded, asked, note, live,
          createdIn, current, stray, writes>>
lifeVars == <<lastSessionCwd, store, persisted, stage, loaded, asked, note, createdIn,
              current, stray, writes>>

Record(s, cwd) == [session |-> s, cwd |-> cwd]
Records == [session : Sessions, cwd : Cwds \cup {None}]

\* The store may hold a record of an earlier process, with or without its directory.
Init ==
    /\ RestartInit
    /\ lastSessionCwd = None /\ current = None
    /\ \/ store = None /\ createdIn = [s \in Sessions |-> None] /\ stray = FALSE
       \/ \E s \in Sessions, d \in Cwds : \E cwd \in {d, None} :
            /\ store = Record(s, cwd)
            /\ createdIn = [t \in Sessions |-> IF t = s THEN d ELSE None]
            /\ stray = (cwd = None)
    /\ persisted = {} /\ live = {}
    /\ stage = [r \in Restarts |-> "idle"] /\ loaded = [r \in Restarts |-> None]
    /\ asked = [n \in NewSessions |-> [stage |-> "new", cwd |-> None, session |-> None]]
    /\ note = [m \in Notes |-> [stage |-> "new", session |-> None]]
    /\ writes = [m \in Notes |-> 0]

------------------------------------------------------------------------------
(* newSession *)

NewSession(n) ==
    /\ asked[n].stage = "new"
    /\ \E cwd \in Cwds :
        asked' = [asked EXCEPT ![n] = [stage |-> "asked", cwd |-> cwd, session |-> None]]
    /\ UNCHANGED <<restartVars, lastSessionCwd, store, persisted, stage, loaded, note, live,
                   createdIn, current, stray, writes>>

\* The agent makes the session, or answers without one.
AgentCreates(n) ==
    /\ asked[n].stage = "asked"
    /\ link = "ready"
    /\ \E s \in {t \in Sessions : createdIn[t] = None} \cup {None} :
        /\ asked' = [asked EXCEPT ![n].stage = "made", ![n].session = s]
        /\ live' = live \cup ({s} \ {None})
        /\ createdIn' = [t \in Sessions |-> IF t = s THEN asked[n].cwd ELSE createdIn[t]]
    /\ UNCHANGED <<restartVars, lastSessionCwd, store, persisted, stage, loaded, note,
                   current, stray, writes>>

\* An empty id is not saved.  Mutant: the record takes the directory of the session before.
SavedStale(s, cwd) == IF s = None THEN store ELSE Record(s, lastSessionCwd)
Saved(s, cwd) == IF s = None THEN store ELSE Record(s, cwd)

NewSessionReturns(n) ==
    /\ asked[n].stage = "made"
    /\ asked' = [asked EXCEPT ![n].stage = "done"]
    /\ lastSessionCwd' = asked[n].cwd
    /\ current' = asked[n].session
    /\ store' = Saved(asked[n].session, asked[n].cwd)
    /\ UNCHANGED <<restartVars, persisted, stage, loaded, note, live, createdIn, stray, writes>>

NewSessionFails(n) ==
    /\ asked[n].stage \in {"asked", "made"}
    /\ asked' = [asked EXCEPT ![n].stage = "failed"]
    /\ UNCHANGED <<restartVars, lastSessionCwd, store, persisted, stage, loaded, note, live,
                   createdIn, current, stray, writes>>

------------------------------------------------------------------------------
(* Notifications *)

\* Mutant: what was persisted is forgotten.
ForgetNote(m) == persisted
RememberNote(m) == persisted \cup {m}

MaybePersistFromNotification(m, s) ==
    IF m \in persisted \/ s = None
    THEN UNCHANGED <<persisted, store, writes, stray>>
    ELSE /\ persisted' = RememberNote(m)
         /\ store' = Record(s, lastSessionCwd)
         /\ writes' = [writes EXCEPT ![m] = @ + 1]
         /\ stray' = (stray \/ s # current)

\* The agent notifies, with a vendor session id or without: the listener of the inner port.
AgentNotifies(m) ==
    /\ note[m].stage = "new"
    /\ link # "down"
    /\ \E s \in live \cup {None} :
        /\ note' = [note EXCEPT ![m] = [stage |-> "seen", session |-> s]]
        /\ MaybePersistFromNotification(m, s)
    /\ UNCHANGED <<restartVars, lastSessionCwd, stage, loaded, asked, live, createdIn, current>>

\* The client passes a notification of its own or one it was given to sessionUpdate().
SessionUpdate(m) ==
    /\ note[m].stage \in {"new", "seen"}
    /\ \E s \in IF note[m].stage = "seen" THEN {note[m].session} ELSE live \cup {None} :
        /\ note' = [note EXCEPT ![m] = [stage |-> "passing", session |-> s]]
        /\ MaybePersistFromNotification(m, s)
    /\ UNCHANGED <<restartVars, lastSessionCwd, stage, loaded, asked, live, createdIn, current>>

\* The inner sessionUpdate() emits it again, to the same listener.
ReEmit(m) ==
    /\ note[m].stage = "passing"
    /\ note' = [note EXCEPT ![m].stage = "passed"]
    /\ MaybePersistFromNotification(m, note[m].session)
    /\ UNCHANGED <<restartVars, lastSessionCwd, stage, loaded, asked, live, createdIn, current>>

------------------------------------------------------------------------------
(* restart *)

Restart(r) ==
    /\ stage[r] = "idle"
    /\ stage' = [stage EXCEPT ![r] = "loading"]
    /\ loaded' = [loaded EXCEPT ![r] = IF ResumeOnRestart THEN store ELSE None]
    /\ UNCHANGED <<restartVars, lastSessionCwd, store, persisted, asked, note, live,
                   createdIn, current, stray, writes>>

Loaded(r) ==
    /\ stage[r] = "loading"
    /\ stage' = [stage EXCEPT ![r] = "restarting"]
    /\ StartRestart(r)
    /\ UNCHANGED <<lastSessionCwd, store, persisted, loaded, asked, note, live, createdIn,
                   current, stray, writes>>

\* The sessions of an agent end with its connection.
Attempts(r) ==
    /\ stage[r] = "restarting"
    /\ RestartStep(r)
    /\ live' = IF link' = "down" THEN {} ELSE live
    /\ UNCHANGED lifeVars

\* After the loop: it has thrown, or the loaded session is asked for, or there is none.
Restarted(r) ==
    /\ stage[r] = "restarting"
    /\ at[r] \in {"restarted", "gaveUp"}
    /\ stage' = [stage EXCEPT ![r] =
            IF at[r] = "gaveUp" THEN "failed" ELSE IF loaded[r] = None THEN "done" ELSE "resuming"]
    /\ UNCHANGED <<restartVars, lastSessionCwd, store, persisted, loaded, asked, note, live,
                   createdIn, current, stray, writes>>

ResumeCwd(r) == IF loaded[r].cwd = None THEN Workspace ELSE loaded[r].cwd

AgentResumes(r) ==
    /\ stage[r] = "resuming"
    /\ link = "ready"
    /\ stage' = [stage EXCEPT ![r] = "resumed"]
    /\ live' = live \cup {loaded[r].session}
    /\ UNCHANGED <<restartVars, lastSessionCwd, store, persisted, loaded, asked, note,
                   createdIn, current, stray, writes>>

\* Mutant: the directory is restored in the record only.
CwdKept(r) == lastSessionCwd
CwdRestored(r) == ResumeCwd(r)

ResumeReturns(r) ==
    /\ stage[r] = "resumed"
    /\ stage' = [stage EXCEPT ![r] = "done"]
    /\ lastSessionCwd' = CwdRestored(r)
    /\ current' = loaded[r].session
    /\ store' = Record(loaded[r].session, ResumeCwd(r))
    /\ UNCHANGED <<restartVars, persisted, loaded, asked, note, live, createdIn, stray, writes>>

ResumeFails(r) ==
    /\ stage[r] \in {"resuming", "resumed"}
    /\ stage' = [stage EXCEPT ![r] = "failed"]
    /\ UNCHANGED <<restartVars, lastSessionCwd, store, persisted, loaded, asked, note, live,
                   createdIn, current, stray, writes>>

------------------------------------------------------------------------------
\* open(), connect() and initialize() by the client itself, which restart() repeats.
Connect ==
    /\ link = "down"
    /\ link' \in {"connected", "ready"}
    /\ UNCHANGED <<at, attempt, delay, lifeVars, live>>

\* close() and disconnect(), or an agent that exits.
Disconnect ==
    /\ link # "down"
    /\ link' = "down" /\ live' = {}
    /\ UNCHANGED <<at, attempt, delay, lifeVars>>

RestartProgress(r) ==
    Loaded(r) \/ Attempts(r) \/ Restarted(r) \/ AgentResumes(r) \/ ResumeReturns(r) \/ ResumeFails(r)

Next ==
    \/ \E n \in NewSessions :
            NewSession(n) \/ AgentCreates(n) \/ NewSessionReturns(n) \/ NewSessionFails(n)
    \/ \E m \in Notes : AgentNotifies(m) \/ SessionUpdate(m) \/ ReEmit(m)
    \/ \E r \in Restarts : Restart(r) \/ RestartProgress(r)
    \/ Connect \/ Disconnect

Spec == Init /\ [][Next]_vars
------------------------------------------------------------------------------
TypeOK ==
    /\ link \in {"down", "connected", "ready"}
    /\ at \in [Restarts -> {"idle", "disconnect", "connect", "initialize", "delay",
                            "restarted", "gaveUp"}]
    /\ attempt \in [Restarts -> Nat] /\ delay \in [Restarts -> Nat]
    /\ lastSessionCwd \in Cwds \cup {None}
    /\ store \in Records \cup {None}
    /\ persisted \subseteq Notes
    /\ stage \in [Restarts -> {"idle", "loading", "restarting", "resuming", "resumed",
                               "done", "failed"}]
    /\ loaded \in [Restarts -> Records \cup {None}]
    /\ asked \in [NewSessions -> [stage : {"new", "asked", "made", "done", "failed"},
                                  cwd : Cwds \cup {None}, session : Sessions \cup {None}]]
    /\ note \in [Notes -> [stage : {"new", "seen", "passing", "passed"},
                           session : Sessions \cup {None}]]
    /\ live \subseteq Sessions
    /\ createdIn \in [Sessions -> Cwds \cup {None}]
    /\ current \in Sessions \cup {None}
    /\ stray \in BOOLEAN
    /\ writes \in [Notes -> Nat]

\* A notification is written once, whichever of its two triggers comes first.
OneWritePerNotification == \A m \in Notes : writes[m] <= 1

\* As long as only the session last created or resumed has been written by notifications,
\* the record carries the directory its session was created in, whatever order calls,
\* responses and restarts come in.
RecordFitsItsSession ==
    ~stray /\ store # None => store.cwd = createdIn[store.session]

\* A restart gives up after MaxRetries attempts, no earlier and no later.
AllAttemptsMade ==
    \A r \in Restarts : /\ attempt[r] <= MaxRetries
                        /\ at[r] = "gaveUp" => attempt[r] = MaxRetries

\* Every attempt but the first follows an awaited delay, not shorter than the one before
\* and within the cap.
AttemptsAreSpaced ==
    [][\A r \in Restarts : attempt'[r] > attempt[r] /\ attempt[r] > 0
            => delay[r] = Backoff(attempt[r]) /\ Backoff(attempt[r] - 1) <= delay[r]
               /\ delay[r] <= BackoffCap]_vars

SessionKnown == \/ \E r \in Restarts : stage[r] = "done" /\ loaded[r] # None
                \/ \E n \in NewSessions : asked[n].stage = "done"

\* Once a session was created or resumed through this supervisor, no write takes the
\* directory out of the record.
CwdIsNotWiped ==
    [][SessionKnown /\ store # None /\ store.cwd # None => store'.cwd # None]_vars
==============================================================================
