----------------------- MODULE LifecycleSupervisorProofs -----------------------
(***************************************************************************)
(* What the lifecycle supervisor keeps for any number of sessions, calls,  *)
(* notifications and attempts: a notification is written once, the         *)
(* persisted directory is the one its session was created in and is not    *)
(* lost again, and every attempt follows its delay.                        *)
(***************************************************************************)
EXTENDS LifecycleSupervisor, FiniteSetTheorems, WellFoundedInduction, TLAPS

\* The types of the variables the two invariants are about; those of the restart
\* loop play no part in them.
SupervisorTypes ==
    /\ lastSessionCwd \in Cwds \cup {None}
    /\ store \in Records \cup {None}
    /\ persisted \subseteq Notes
    /\ loaded \in [Restarts -> Records \cup {None}]
    /\ asked \in [NewSessions -> [stage : {"new", "asked", "made", "done", "failed"},
                                  cwd : Cwds \cup {None}, session : Sessions \cup {None}]]
    /\ note \in [Notes -> [stage : {"new", "seen", "passing", "passed"},
                           session : Sessions \cup {None}]]
    /\ live \subseteq Sessions
    /\ createdIn \in [Sessions -> Cwds \cup {None}]
    /\ current \in Sessions \cup {None}
    /\ stray \in BOOLEAN
    /\ writes \in [Notes -> Nat]
    /\ stage \in [Restarts -> {"idle", "loading", "restarting", "resuming", "resumed",
                               "done", "failed"}]
    /\ \A r \in Restarts : stage[r] \in {"resuming", "resumed"} => loaded[r] # None
    /\ \A n \in NewSessions : asked[n].stage # "new" => asked[n].cwd \in Cwds

\* Why a notification is written once: what is not remembered was not written.
WrittenIsRemembered ==
    \A m \in Notes : writes[m] = IF m \in persisted THEN 1 ELSE 0

Fits(x) == x.cwd # None /\ x.cwd = createdIn[x.session]

\* Why the record fits: so does every record a restart holds, and the directory a
\* notification would be written with is that of the current session.
RecordInv ==
    /\ \A n \in NewSessions : asked[n].stage = "made" /\ asked[n].session # None
            => createdIn[asked[n].session] = asked[n].cwd
    /\ ~stray =>
        /\ store # None => Fits(store)
        /\ \A r \in Restarts : loaded[r] # None => Fits(loaded[r])
        /\ current # None => lastSessionCwd # None /\ lastSessionCwd = createdIn[current]

\* One write path: what a notification does to the store, and to the memory of it.
LEMMA PersistTypes ==
    ASSUME SupervisorTypes, NEW m \in Notes, NEW s \in Sessions \cup {None},
           MaybePersistFromNotification(m, s)
    PROVE  /\ store' \in Records \cup {None} /\ persisted' \subseteq Notes
           /\ stray' \in BOOLEAN /\ writes' \in [Notes -> Nat]
  <1>1. CASE m \in persisted \/ s = None
    BY <1>1 DEF MaybePersistFromNotification, SupervisorTypes
  <1>2. CASE ~(m \in persisted \/ s = None)
    <2>1. store' = Record(s, lastSessionCwd) /\ s \in Sessions
      BY <1>2 DEF MaybePersistFromNotification
    <2>2. store' \in Records
      BY <2>1 DEF SupervisorTypes, Records, Record
    <2>3. writes' \in [Notes -> Nat] /\ persisted' \subseteq Notes
      BY <1>2 DEF MaybePersistFromNotification, RememberNote, SupervisorTypes
    <2>4. stray' \in BOOLEAN
      BY <1>2 DEF MaybePersistFromNotification, SupervisorTypes
    <2> QED
      BY <2>2, <2>3, <2>4
  <1> QED
    BY <1>1, <1>2

\* Unless it strays, the record a notification leaves fits the session it names.
LEMMA PersistFits ==
    ASSUME SupervisorTypes, RecordInv, NEW m \in Notes, NEW s \in Sessions \cup {None},
           MaybePersistFromNotification(m, s), ~stray'
    PROVE  ~stray /\ (store' # None => store'.cwd # None
                                     /\ store'.cwd = createdIn[store'.session])
  <1>1. CASE m \in persisted \/ s = None
    BY <1>1 DEF MaybePersistFromNotification, RecordInv, Fits
  <1>2. CASE ~(m \in persisted \/ s = None)
    <2>1. store' = [session |-> s, cwd |-> lastSessionCwd] /\ s = current /\ s # None /\ ~stray
      BY <1>2 DEF MaybePersistFromNotification, Record, SupervisorTypes
    <2>2. store'.session = current /\ store'.cwd = lastSessionCwd
      BY <2>1
    <2> QED
      BY <2>1, <2>2 DEF RecordInv
  <1> QED
    BY <1>1, <1>2

\* Every step keeps the types.
LEMMA TypesStep ==
    ASSUME SupervisorTypes, [Next]_vars
    PROVE  SupervisorTypes'
  <1>1. ASSUME NEW n \in NewSessions, NewSession(n) PROVE SupervisorTypes'
    BY <1>1 DEF NewSession, SupervisorTypes, Records, Record
  <1>2. ASSUME NEW n \in NewSessions, AgentCreates(n) PROVE SupervisorTypes'
    <2>1. PICK s \in {t \in Sessions : createdIn[t] = None} \cup {None} :
                /\ asked' = [asked EXCEPT ![n].stage = "made", ![n].session = s]
                /\ live' = live \cup ({s} \ {None})
                /\ createdIn' = [t \in Sessions |->
                                    IF t = s THEN asked[n].cwd ELSE createdIn[t]]
      BY <1>2 DEF AgentCreates
    <2>2. asked[n].stage = "asked" /\ asked[n].cwd \in Cwds
      BY <1>2 DEF AgentCreates, SupervisorTypes
    <2>3. /\ asked' \in [NewSessions -> [stage : {"new", "asked", "made", "done", "failed"},
                                        cwd : Cwds \cup {None}, session : Sessions \cup {None}]]
          /\ \A k \in NewSessions : asked'[k].cwd = asked[k].cwd
          /\ \A k \in NewSessions : k # n => asked'[k] = asked[k]
      BY <2>1, <2>2 DEF SupervisorTypes
    <2>4. live' \subseteq Sessions /\ createdIn' \in [Sessions -> Cwds \cup {None}]
      BY <2>1, <2>2 DEF SupervisorTypes
    <2>5. \A k \in NewSessions : asked'[k].stage # "new" => asked'[k].cwd \in Cwds
      BY <2>2, <2>3 DEF SupervisorTypes
    <2>6. UNCHANGED <<lastSessionCwd, store, persisted, stage, loaded, note, current, stray,
                      writes>>
      BY <1>2 DEF AgentCreates
    <2> QED
      BY <2>3, <2>4, <2>5, <2>6 DEF SupervisorTypes
  <1>3. ASSUME NEW n \in NewSessions, NewSessionReturns(n) PROVE SupervisorTypes'
    BY <1>3 DEF NewSessionReturns, Saved, SupervisorTypes, Records, Record
  <1>4. ASSUME NEW n \in NewSessions, NewSessionFails(n) PROVE SupervisorTypes'
    BY <1>4 DEF NewSessionFails, SupervisorTypes, Records, Record
  <1>5. ASSUME NEW m \in Notes, AgentNotifies(m) PROVE SupervisorTypes'
    <2>1. PICK s \in Sessions \cup {None} :
                /\ note' = [note EXCEPT ![m] = [stage |-> "seen", session |-> s]]
                /\ MaybePersistFromNotification(m, s)
      BY <1>5 DEF AgentNotifies, SupervisorTypes
    <2>2. note' \in [Notes -> [stage : {"new", "seen", "passing", "passed"},
                               session : Sessions \cup {None}]]
      BY <2>1 DEF SupervisorTypes
    <2>3. UNCHANGED <<lastSessionCwd, stage, loaded, asked, live, createdIn, current>>
      BY <1>5 DEF AgentNotifies
    <2> QED
      BY <2>1, <2>2, <2>3, PersistTypes DEF SupervisorTypes
  <1>6. ASSUME NEW m \in Notes, SessionUpdate(m) PROVE SupervisorTypes'
    <2>1. PICK s \in Sessions \cup {None} :
                /\ note' = [note EXCEPT ![m] = [stage |-> "passing", session |-> s]]
                /\ MaybePersistFromNotification(m, s)
      BY <1>6 DEF SessionUpdate, SupervisorTypes
    <2>2. note' \in [Notes -> [stage : {"new", "seen", "passing", "passed"},
                               session : Sessions \cup {None}]]
      BY <2>1 DEF SupervisorTypes
    <2>3. UNCHANGED <<lastSessionCwd, stage, loaded, asked, live, createdIn, current>>
      BY <1>6 DEF SessionUpdate
    <2> QED
      BY <2>1, <2>2, <2>3, PersistTypes DEF SupervisorTypes
  <1>7. ASSUME NEW m \in Notes, ReEmit(m) PROVE SupervisorTypes'
    <2>1. /\ note' = [note EXCEPT ![m].stage = "passed"]
          /\ note[m].session \in Sessions \cup {None}
          /\ MaybePersistFromNotification(m, note[m].session)
      BY <1>7 DEF ReEmit, SupervisorTypes
    <2>2. note' \in [Notes -> [stage : {"new", "seen", "passing", "passed"},
                               session : Sessions \cup {None}]]
      BY <2>1 DEF SupervisorTypes
    <2>3. UNCHANGED <<lastSessionCwd, stage, loaded, asked, live, createdIn, current>>
      BY <1>7 DEF ReEmit
    <2> QED
      BY <2>1, <2>2, <2>3, PersistTypes DEF SupervisorTypes
  <1>8. ASSUME NEW r \in Restarts, Restart(r) PROVE SupervisorTypes'
    BY <1>8 DEF Restart, SupervisorTypes, Records, Record
  <1>9. ASSUME NEW r \in Restarts, Loaded(r) PROVE SupervisorTypes'
    BY <1>9 DEF Loaded, SupervisorTypes, Records, Record
  <1>10. ASSUME NEW r \in Restarts, Attempts(r) PROVE SupervisorTypes'
    BY <1>10 DEF Attempts, lifeVars, SupervisorTypes, Records, Record
  <1>11. ASSUME NEW r \in Restarts, Restarted(r) PROVE SupervisorTypes'
    BY <1>11 DEF Restarted, SupervisorTypes, Records, Record
  <1>12. ASSUME NEW r \in Restarts, AgentResumes(r) PROVE SupervisorTypes'
    BY <1>12 DEF AgentResumes, SupervisorTypes, Records, Record
  <1>13. ASSUME NEW r \in Restarts, ResumeReturns(r) PROVE SupervisorTypes'
    BY <1>13, LifecycleAssumption DEF ResumeReturns, CwdRestored, ResumeCwd,
       SupervisorTypes, Records, Record
  <1>14. ASSUME NEW r \in Restarts, ResumeFails(r) PROVE SupervisorTypes'
    BY <1>14 DEF ResumeFails, SupervisorTypes, Records, Record
  <1>15. CASE Connect
    BY <1>15 DEF Connect, lifeVars, SupervisorTypes, Records, Record
  <1>16. CASE Disconnect
    BY <1>16 DEF Disconnect, lifeVars, SupervisorTypes, Records, Record
  <1>17. CASE UNCHANGED vars
    BY <1>17 DEF vars, SupervisorTypes, Records, Record
  <1> QED
    BY <1>1, <1>2, <1>3, <1>4, <1>5, <1>6, <1>7, <1>8, <1>9, <1>10, <1>11, <1>12, <1>13,
       <1>14, <1>15, <1>16, <1>17 DEF Next, RestartProgress

\* Both triggers of a notification go through the memory of what was persisted.
LEMMA WrittenStep ==
    ASSUME SupervisorTypes, WrittenIsRemembered, [Next]_vars
    PROVE  WrittenIsRemembered'
  <1>1. ASSUME NEW n \in NewSessions, NewSession(n) PROVE WrittenIsRemembered'
    BY <1>1 DEF NewSession, SupervisorTypes, WrittenIsRemembered
  <1>2. ASSUME NEW n \in NewSessions, AgentCreates(n) PROVE WrittenIsRemembered'
    BY <1>2, LifecycleAssumption DEF AgentCreates, SupervisorTypes, WrittenIsRemembered
  <1>3. ASSUME NEW n \in NewSessions, NewSessionReturns(n) PROVE WrittenIsRemembered'
    BY <1>3 DEF NewSessionReturns, Saved, SupervisorTypes, WrittenIsRemembered
  <1>4. ASSUME NEW n \in NewSessions, NewSessionFails(n) PROVE WrittenIsRemembered'
    BY <1>4 DEF NewSessionFails, SupervisorTypes, WrittenIsRemembered
  <1>5. ASSUME NEW m \in Notes, AgentNotifies(m) PROVE WrittenIsRemembered'
    BY <1>5 DEF AgentNotifies, MaybePersistFromNotification, RememberNote, SupervisorTypes,
       WrittenIsRemembered
  <1>6. ASSUME NEW m \in Notes, SessionUpdate(m) PROVE WrittenIsRemembered'
    BY <1>6 DEF SessionUpdate, MaybePersistFromNotification, RememberNote, SupervisorTypes,
       WrittenIsRemembered
  <1>7. ASSUME NEW m \in Notes, ReEmit(m) PROVE WrittenIsRemembered'
    BY <1>7 DEF ReEmit, MaybePersistFromNotification, RememberNote, SupervisorTypes,
       WrittenIsRemembered
  <1>8. ASSUME NEW r \in Restarts, Restart(r) PROVE WrittenIsRemembered'
    BY <1>8 DEF Restart, SupervisorTypes, WrittenIsRemembered
  <1>9. ASSUME NEW r \in Restarts, Loaded(r) PROVE WrittenIsRemembered'
    BY <1>9 DEF Loaded, SupervisorTypes, WrittenIsRemembered
  <1>10. ASSUME NEW r \in Restarts, Attempts(r) PROVE WrittenIsRemembered'
    BY <1>10 DEF Attempts, lifeVars, SupervisorTypes, WrittenIsRemembered
  <1>11. ASSUME NEW r \in Restarts, Restarted(r) PROVE WrittenIsRemembered'
    BY <1>11 DEF Restarted, SupervisorTypes, WrittenIsRemembered
  <1>12. ASSUME NEW r \in Restarts, AgentResumes(r) PROVE WrittenIsRemembered'
    BY <1>12 DEF AgentResumes, SupervisorTypes, WrittenIsRemembered
  <1>13. ASSUME NEW r \in Restarts, ResumeReturns(r) PROVE WrittenIsRemembered'
    BY <1>13, LifecycleAssumption DEF ResumeReturns, CwdRestored, ResumeCwd,
       SupervisorTypes, WrittenIsRemembered
  <1>14. ASSUME NEW r \in Restarts, ResumeFails(r) PROVE WrittenIsRemembered'
    BY <1>14 DEF ResumeFails, SupervisorTypes, WrittenIsRemembered
  <1>15. CASE Connect
    BY <1>15 DEF Connect, lifeVars, SupervisorTypes, WrittenIsRemembered
  <1>16. CASE Disconnect
    BY <1>16 DEF Disconnect, lifeVars, SupervisorTypes, WrittenIsRemembered
  <1>17. CASE UNCHANGED vars
    BY <1>17 DEF vars, SupervisorTypes, WrittenIsRemembered
  <1> QED
    BY <1>1, <1>2, <1>3, <1>4, <1>5, <1>6, <1>7, <1>8, <1>9, <1>10, <1>11, <1>12, <1>13,
       <1>14, <1>15, <1>16, <1>17 DEF Next, RestartProgress

\* Whoever writes the record, its directory belongs to its session.
LEMMA RecordStep ==
    ASSUME SupervisorTypes, RecordInv, [Next]_vars
    PROVE  RecordInv'
  <1>1. ASSUME NEW n \in NewSessions, NewSession(n) PROVE RecordInv'
    BY <1>1 DEF NewSession, SupervisorTypes, RecordInv, Fits, Records, Record
  <1>2. ASSUME NEW n \in NewSessions, AgentCreates(n) PROVE RecordInv'
    BY <1>2, LifecycleAssumption DEF AgentCreates, SupervisorTypes, RecordInv, Fits,
       Records, Record
  <1>3. ASSUME NEW n \in NewSessions, NewSessionReturns(n) PROVE RecordInv'
    <2>1. /\ lastSessionCwd' = asked[n].cwd /\ current' = asked[n].session
          /\ store' = Saved(asked[n].session, asked[n].cwd)
          /\ UNCHANGED <<loaded, createdIn, stray>>
      BY <1>3 DEF NewSessionReturns
    <2>2. asked[n].cwd \in Cwds /\ asked[n].cwd # None
      BY <1>3, LifecycleAssumption DEF NewSessionReturns, SupervisorTypes
    <2>3. asked[n].session # None => createdIn[asked[n].session] = asked[n].cwd
      BY <1>3 DEF NewSessionReturns, RecordInv
    <2>4. asked[n].session # None => Fits(store)'
      BY <2>1, <2>2, <2>3 DEF Saved, Record, Fits
    <2>5. asked[n].session = None => store' = store
      BY <2>1 DEF Saved
    <2>6. ~stray' => /\ store' # None => Fits(store)'
                     /\ \A r \in Restarts : loaded'[r] # None => Fits(loaded[r])'
                     /\ current' # None => lastSessionCwd' # None
                                          /\ lastSessionCwd' = createdIn'[current']
      BY <2>1, <2>2, <2>3, <2>4, <2>5 DEF RecordInv, Fits
    <2>7. \A k \in NewSessions : asked'[k].stage = "made"
                => asked[k].stage = "made" /\ asked'[k] = asked[k]
      BY <1>3 DEF NewSessionReturns, SupervisorTypes
    <2> QED
      BY <2>1, <2>6, <2>7 DEF RecordInv
  <1>4. ASSUME NEW n \in NewSessions, NewSessionFails(n) PROVE RecordInv'
    BY <1>4 DEF NewSessionFails, SupervisorTypes, RecordInv, Fits, Records, Record
  <1>5. ASSUME NEW m \in Notes, AgentNotifies(m) PROVE RecordInv'
    <2>1. PICK s \in Sessions \cup {None} : MaybePersistFromNotification(m, s)
      BY <1>5 DEF AgentNotifies, SupervisorTypes
    <2>2. UNCHANGED <<lastSessionCwd, loaded, asked, createdIn, current>>
      BY <1>5 DEF AgentNotifies
    <2>3. ~stray' => ~stray /\ (store' # None => Fits(store)')
      BY <2>1, <2>2, PersistFits DEF Fits
    <2> QED
      BY <2>2, <2>3 DEF RecordInv, Fits
  <1>6. ASSUME NEW m \in Notes, SessionUpdate(m) PROVE RecordInv'
    <2>1. PICK s \in Sessions \cup {None} : MaybePersistFromNotification(m, s)
      BY <1>6 DEF SessionUpdate, SupervisorTypes
    <2>2. UNCHANGED <<lastSessionCwd, loaded, asked, createdIn, current>>
      BY <1>6 DEF SessionUpdate
    <2>3. ~stray' => ~stray /\ (store' # None => Fits(store)')
      BY <2>1, <2>2, PersistFits DEF Fits
    <2> QED
      BY <2>2, <2>3 DEF RecordInv, Fits
  <1>7. ASSUME NEW m \in Notes, ReEmit(m) PROVE RecordInv'
    <2>1. PICK s \in Sessions \cup {None} : MaybePersistFromNotification(m, s)
      BY <1>7 DEF ReEmit, SupervisorTypes
    <2>2. UNCHANGED <<lastSessionCwd, loaded, asked, createdIn, current>>
      BY <1>7 DEF ReEmit
    <2>3. ~stray' => ~stray /\ (store' # None => Fits(store)')
      BY <2>1, <2>2, PersistFits DEF Fits
    <2> QED
      BY <2>2, <2>3 DEF RecordInv, Fits
  <1>8. ASSUME NEW r \in Restarts, Restart(r) PROVE RecordInv'
    BY <1>8 DEF Restart, SupervisorTypes, RecordInv, Fits, Records, Record
  <1>9. ASSUME NEW r \in Restarts, Loaded(r) PROVE RecordInv'
    BY <1>9 DEF Loaded, SupervisorTypes, RecordInv, Fits, Records, Record
  <1>10. ASSUME NEW r \in Restarts, Attempts(r) PROVE RecordInv'
    BY <1>10 DEF Attempts, lifeVars, SupervisorTypes, RecordInv, Fits, Records, Record
  <1>11. ASSUME NEW r \in Restarts, Restarted(r) PROVE RecordInv'
    BY <1>11 DEF Restarted, SupervisorTypes, RecordInv, Fits, Records, Record
  <1>12. ASSUME NEW r \in Restarts, AgentResumes(r) PROVE RecordInv'
    BY <1>12 DEF AgentResumes, SupervisorTypes, RecordInv, Fits, Records, Record
  <1>13. ASSUME NEW r \in Restarts, ResumeReturns(r) PROVE RecordInv'
    BY <1>13, LifecycleAssumption DEF ResumeReturns, CwdRestored, ResumeCwd,
       SupervisorTypes, RecordInv, Fits, Records, Record
  <1>14. ASSUME NEW r \in Restarts, ResumeFails(r) PROVE RecordInv'
    BY <1>14 DEF ResumeFails, SupervisorTypes, RecordInv, Fits, Records, Record
  <1>15. CASE Connect
    BY <1>15 DEF Connect, lifeVars, SupervisorTypes, RecordInv, Fits, Records, Record
  <1>16. CASE Disconnect
    BY <1>16 DEF Disconnect, lifeVars, SupervisorTypes, RecordInv, Fits, Records, Record
  <1>17. CASE UNCHANGED vars
    BY <1>17 DEF vars, SupervisorTypes, RecordInv, Fits, Records, Record
  <1> QED
    BY <1>1, <1>2, <1>3, <1>4, <1>5, <1>6, <1>7, <1>8, <1>9, <1>10, <1>11, <1>12, <1>13,
       <1>14, <1>15, <1>16, <1>17 DEF Next, RestartProgress

LEMMA InvInit == Init => SupervisorTypes /\ WrittenIsRemembered /\ RecordInv
  <1> SUFFICES ASSUME Init PROVE SupervisorTypes /\ WrittenIsRemembered /\ RecordInv
    OBVIOUS
  <1>1. \/ store = None /\ createdIn = [s \in Sessions |-> None] /\ stray = FALSE
        \/ \E s \in Sessions, d \in Cwds : \E cwd \in {d, None} :
            /\ store = Record(s, cwd)
            /\ createdIn = [t \in Sessions |-> IF t = s THEN d ELSE None]
            /\ stray = (cwd = None)
    BY DEF Init
  <1>2. /\ store \in Records \cup {None} /\ stray \in BOOLEAN
        /\ createdIn \in [Sessions -> Cwds \cup {None}]
        /\ ~stray /\ store # None => Fits(store)
    <2>1. CASE store = None /\ createdIn = [s \in Sessions |-> None] /\ stray = FALSE
      BY <2>1
    <2>2. CASE store # None
      <3>1. PICK s \in Sessions, d \in Cwds, cwd \in Cwds \cup {None} :
                /\ cwd \in {d, None}
                /\ store = [session |-> s, cwd |-> cwd]
                /\ createdIn = [t \in Sessions |-> IF t = s THEN d ELSE None]
                /\ stray = (cwd = None)
        BY <1>1, <2>2 DEF Record
      <3>2. store \in Records /\ createdIn \in [Sessions -> Cwds \cup {None}]
        BY <3>1 DEF Records
      <3>3. stray \in BOOLEAN /\ (~stray => cwd # None)
        BY <3>1
      <3>4. store.session = s /\ store.cwd = cwd /\ createdIn[s] = d
        BY <3>1
      <3>5. cwd # None => Fits(store)
        BY <3>1, <3>4 DEF Fits
      <3> QED
        BY <3>2, <3>3, <3>5
    <2> QED
      BY <1>1, <2>1, <2>2
  <1>4. SupervisorTypes
    BY <1>2 DEF Init, SupervisorTypes
  <1>5. WrittenIsRemembered
    BY DEF Init, WrittenIsRemembered
  <1>6. RecordInv
    BY <1>2 DEF Init, RecordInv
  <1> QED
    BY <1>4, <1>5, <1>6

\* The three together are inductive.
LEMMA InvAlways == Spec => [](SupervisorTypes /\ WrittenIsRemembered /\ RecordInv)
  <1>1. SupervisorTypes /\ WrittenIsRemembered /\ RecordInv /\ [Next]_vars
            => (SupervisorTypes /\ WrittenIsRemembered /\ RecordInv)'
    BY TypesStep, WrittenStep, RecordStep
  <1> QED
    BY <1>1, InvInit, PTL DEF Spec

\* A notification is persisted once, though sessionUpdate() and the listener of the
\* inner port both try (the comment of maybePersistFromNotification).
THEOREM WrittenOnce == Spec => []OneWritePerNotification
  <1>1. WrittenIsRemembered => OneWritePerNotification
    BY DEF WrittenIsRemembered, OneWritePerNotification
  <1> QED
    BY <1>1, InvAlways, PTL

\* The persisted directory is the one its session was created in, as long as no
\* notification of another session was written under it.
THEOREM DirectoryFits == Spec => []RecordFitsItsSession
  <1>1. RecordInv => RecordFitsItsSession
    BY DEF RecordInv, RecordFitsItsSession, Fits
  <1> QED
    BY <1>1, InvAlways, PTL

------------------------------------------------------------------------------
(* The restart loop *)

\* The counter never passes the bound, a delay precedes an allowed attempt, and the loop
\* gives up at the bound only.
LoopInv ==
    /\ attempt \in [Restarts -> Nat]
    /\ at \in [Restarts -> {"idle", "disconnect", "connect", "initialize", "delay",
                            "restarted", "gaveUp"}]
    /\ \A r \in Restarts : /\ attempt[r] <= MaxRetries
                           /\ at[r] = "delay" => attempt[r] < MaxRetries
                           /\ at[r] = "gaveUp" => attempt[r] = MaxRetries

LEMMA LoopStep ==
    ASSUME LoopInv, [Next]_vars
    PROVE  LoopInv'
  <1>1. ASSUME NEW r \in Restarts, StartRestart(r) PROVE LoopInv'
    BY <1>1, BackoffAssumption DEF StartRestart, LoopInv
  <1>2. ASSUME NEW r \in Restarts, RestartStep(r) PROVE LoopInv'
    <2>1. CASE Disconnects(r)
      BY <2>1 DEF Disconnects, LoopInv
    <2>2. CASE Connects(r)
      BY <2>2 DEF Connects, LoopInv
    <2>3. CASE Initializes(r)
      BY <2>3 DEF Initializes, LoopInv
    <2>4. CASE AttemptFails(r)
      BY <2>4, BackoffAssumption DEF AttemptFails, AfterFailure, MayRetry, LoopInv
    <2>5. CASE DelayOver(r)
      BY <2>5, BackoffAssumption DEF DelayOver, NextAttempt, LoopInv
    <2> QED
      BY <1>2, <2>1, <2>2, <2>3, <2>4, <2>5 DEF RestartStep
  <1>3. ASSUME UNCHANGED <<at, attempt>> PROVE LoopInv'
    BY <1>3 DEF LoopInv
  <1>4. ASSUME NEW n \in NewSessions,
               NewSession(n) \/ AgentCreates(n) \/ NewSessionReturns(n) \/ NewSessionFails(n)
        PROVE  UNCHANGED <<at, attempt>>
    BY <1>4 DEF NewSession, AgentCreates, NewSessionReturns, NewSessionFails, restartVars
  <1>5. ASSUME NEW m \in Notes, AgentNotifies(m) \/ SessionUpdate(m) \/ ReEmit(m)
        PROVE  UNCHANGED <<at, attempt>>
    BY <1>5 DEF AgentNotifies, SessionUpdate, ReEmit, restartVars
  <1>6. ASSUME NEW r \in Restarts, Restart(r) \/ RestartProgress(r)
        PROVE  StartRestart(r) \/ RestartStep(r) \/ UNCHANGED <<at, attempt>>
    BY <1>6 DEF Restart, RestartProgress, Loaded, Attempts, Restarted, AgentResumes,
                ResumeReturns, ResumeFails, restartVars
  <1>7. ASSUME Connect \/ Disconnect \/ UNCHANGED vars PROVE UNCHANGED <<at, attempt>>
    BY <1>7 DEF Connect, Disconnect, vars, restartVars
  <1> QED
    BY <1>1, <1>2, <1>3, <1>4, <1>5, <1>6, <1>7 DEF Next

\* restartWithBackoff makes MaxRetries attempts and then throws, never fewer or more, also
\* when several restarts of a port overlap.
THEOREM GivesUpAtTheBound == Spec => []AllAttemptsMade
  <1>1. Init => LoopInv
    BY BackoffAssumption DEF Init, RestartInit, LoopInv
  <1>2. LoopInv => AllAttemptsMade
    BY DEF LoopInv, AllAttemptsMade
  <1> QED
    BY <1>1, <1>2, LoopStep, PTL DEF Spec

------------------------------------------------------------------------------
(* The directory, once known *)

\* Why no write loses the directory: what a notification is written with is known as soon
\* as a session is.
KnownInv == SessionKnown => lastSessionCwd # None

LEMMA KnownStep ==
    ASSUME SupervisorTypes, KnownInv, [Next]_vars
    PROVE  KnownInv'
  <1>1. ASSUME NEW n \in NewSessions, NewSessionReturns(n) PROVE lastSessionCwd' # None
    BY <1>1, LifecycleAssumption DEF NewSessionReturns, SupervisorTypes
  <1>2. ASSUME NEW r \in Restarts, ResumeReturns(r) PROVE lastSessionCwd' # None
    <2>1. loaded[r] \in Records
      BY <1>2 DEF ResumeReturns, SupervisorTypes
    <2>2. ResumeCwd(r) # None
      BY <2>1, LifecycleAssumption DEF ResumeCwd
    <2> QED
      BY <1>2, <2>2 DEF ResumeReturns, CwdRestored
  <1>3. ASSUME lastSessionCwd' = lastSessionCwd, SessionKnown' => SessionKnown
        PROVE  KnownInv'
    BY <1>3 DEF KnownInv
  <1>4. ASSUME NEW n \in NewSessions, NewSession(n) \/ AgentCreates(n) \/ NewSessionFails(n)
        PROVE  lastSessionCwd' = lastSessionCwd /\ (SessionKnown' => SessionKnown)
    <2>1. UNCHANGED <<lastSessionCwd, stage, loaded>>
      BY <1>4 DEF NewSession, AgentCreates, NewSessionFails
    <2>2. \A k \in NewSessions : asked'[k].stage = "done" => asked[k].stage = "done"
      <3>1. ASSUME NewSession(n) PROVE \A k \in NewSessions : asked'[k].stage = "done"
                                                => asked[k].stage = "done"
        BY <3>1 DEF NewSession, SupervisorTypes
      <3>2. ASSUME AgentCreates(n) PROVE \A k \in NewSessions : asked'[k].stage = "done"
                                                => asked[k].stage = "done"
        <4>1. PICK s : asked' = [asked EXCEPT ![n].stage = "made", ![n].session = s]
          BY <3>2 DEF AgentCreates
        <4>2. asked'[n].stage = "made"
          BY <4>1 DEF SupervisorTypes
        <4>3. \A k \in NewSessions : k # n => asked'[k] = asked[k]
          BY <4>1 DEF SupervisorTypes
        <4> QED
          BY <4>2, <4>3
      <3>3. ASSUME NewSessionFails(n) PROVE \A k \in NewSessions : asked'[k].stage = "done"
                                                => asked[k].stage = "done"
        BY <3>3 DEF NewSessionFails, SupervisorTypes
      <3> QED
        BY <1>4, <3>1, <3>2, <3>3
    <2> QED
      BY <2>1, <2>2 DEF SessionKnown
  <1>5. ASSUME NEW m \in Notes, AgentNotifies(m) \/ SessionUpdate(m) \/ ReEmit(m)
        PROVE  lastSessionCwd' = lastSessionCwd /\ (SessionKnown' => SessionKnown)
    BY <1>5 DEF AgentNotifies, SessionUpdate, ReEmit, SessionKnown
  <1>6. ASSUME NEW r \in Restarts, \/ Restart(r) \/ Loaded(r) \/ Restarted(r)
                                  \/ AgentResumes(r) \/ ResumeFails(r)
        PROVE  lastSessionCwd' = lastSessionCwd /\ (SessionKnown' => SessionKnown)
    <2>1. UNCHANGED <<lastSessionCwd, asked>>
      BY <1>6 DEF Restart, Loaded, Restarted, AgentResumes, ResumeFails
    <2>2. \A q \in Restarts : stage'[q] = "done" /\ loaded'[q] # None
                => stage[q] = "done" /\ loaded[q] # None
      BY <1>6 DEF Restart, Loaded, Restarted, AgentResumes, ResumeFails, SupervisorTypes
    <2> QED
      BY <2>1, <2>2 DEF SessionKnown
  <1>7. ASSUME \/ \E r \in Restarts : Attempts(r)
               \/ Connect \/ Disconnect \/ UNCHANGED vars
        PROVE  lastSessionCwd' = lastSessionCwd /\ (SessionKnown' => SessionKnown)
    BY <1>7 DEF Attempts, Connect, Disconnect, vars, lifeVars, SessionKnown
  <1> QED
    BY <1>1, <1>2, <1>3, <1>4, <1>5, <1>6, <1>7 DEF Next, RestartProgress, KnownInv

\* Once a session was created or resumed through the supervisor, every record it writes
\* names a directory: newSession's own, the resumed one, or with a notification the last.
THEOREM TheDirectoryStays == Spec => CwdIsNotWiped
  <1>1. Init => KnownInv
    BY DEF Init, KnownInv, SessionKnown
  <1>2. ASSUME SupervisorTypes, KnownInv, Next, SessionKnown, store # None, store.cwd # None
        PROVE  store'.cwd # None
    <2>1. lastSessionCwd # None
      BY <1>2 DEF KnownInv
    <2>2. ASSUME NEW m \in Notes, NEW s, MaybePersistFromNotification(m, s)
          PROVE  store'.cwd # None
      BY <1>2, <2>1, <2>2 DEF MaybePersistFromNotification, Record
    <2>3. ASSUME NEW n \in NewSessions, NewSessionReturns(n) PROVE store'.cwd # None
      BY <1>2, <2>3, LifecycleAssumption DEF NewSessionReturns, Saved, Record, SupervisorTypes
    <2>4. ASSUME NEW r \in Restarts, ResumeReturns(r) PROVE store'.cwd # None
      <3>1. loaded[r] \in Records
        BY <1>2, <2>4 DEF ResumeReturns, SupervisorTypes
      <3>2. ResumeCwd(r) # None
        BY <3>1, LifecycleAssumption DEF ResumeCwd
      <3> QED
        BY <2>4, <3>2 DEF ResumeReturns, Record
    <2>5. ASSUME NEW n \in NewSessions, NewSession(n) \/ AgentCreates(n) \/ NewSessionFails(n)
          PROVE  store' = store
      BY <2>5 DEF NewSession, AgentCreates, NewSessionFails
    <2>6. ASSUME NEW m \in Notes, AgentNotifies(m) \/ SessionUpdate(m) \/ ReEmit(m)
          PROVE  \E s : MaybePersistFromNotification(m, s)
      BY <2>6 DEF AgentNotifies, SessionUpdate, ReEmit
    <2>7. ASSUME NEW r \in Restarts, \/ Restart(r) \/ Loaded(r) \/ Attempts(r) \/ Restarted(r)
                                    \/ AgentResumes(r) \/ ResumeFails(r)
          PROVE  store' = store
      BY <2>7 DEF Restart, Loaded, Attempts, Restarted, AgentResumes, ResumeFails, lifeVars
    <2>8. ASSUME Connect \/ Disconnect PROVE store' = store
      BY <2>8 DEF Connect, Disconnect, lifeVars
    <2> QED
      BY <1>2, <2>2, <2>3, <2>4, <2>5, <2>6, <2>7, <2>8 DEF Next, RestartProgress
  <1>3. SupervisorTypes /\ KnownInv /\ [Next]_vars
            => [SessionKnown /\ store # None /\ store.cwd # None => store'.cwd # None]_vars
    BY <1>2
  <1> QED
    BY <1>1, <1>3, KnownStep, InvAlways, PTL DEF Spec, CwdIsNotWiped

------------------------------------------------------------------------------
(* Induction over the natural numbers, for a set, and the powers it defines *)

LEMMA Least ==
    ASSUME NEW S \in SUBSET Nat, S # {}
    PROVE  \E n \in S : \A m \in S : n <= m
  <1> DEFINE T == {0..n : n \in S}
  <1>1. T \subseteq FiniteSubsetsOf(Nat)
    <2>1. \A n \in S : IsFiniteSet(0..n) /\ 0..n \subseteq Nat
      BY FS_Interval
    <2> QED
      BY <2>1 DEF FiniteSubsetsOf
  <1>2. PICK x \in T : \A y \in T : ~ (<<y, x>> \in StrictSubsetOrdering(Nat))
    <2>1. IsWellFoundedOn(StrictSubsetOrdering(Nat), FiniteSubsetsOf(Nat))
      BY FS_StrictSubsetOrderingWellFounded
    <2>2. T # {}
      OBVIOUS
    <2> HIDE DEF T
    <2> QED
      BY <1>1, <2>1, <2>2, WFMin
  <1>3. PICK n \in S : x = 0..n
    OBVIOUS
  <1>4. ASSUME NEW m \in S, m < n PROVE FALSE
    <2>1. 0..m \in T /\ 0..m \subseteq Nat /\ x \subseteq Nat
      BY <1>3
    <2>2. 0..m \subseteq x /\ n \in x /\ n \notin 0..m
      BY <1>3, <1>4
    <2> QED
      BY <1>2, <2>1, <2>2 DEF StrictSubsetOrdering
  <1> QED
    BY <1>4

LEMMA Induction ==
    ASSUME NEW S, 0 \in S, \A n \in Nat : n \in S => n + 1 \in S
    PROVE  Nat \subseteq S
  <1> SUFFICES ASSUME Nat \ S # {} PROVE FALSE
    OBVIOUS
  <1>1. PICK n \in Nat \ S : \A m \in Nat \ S : n <= m
    BY Least
  <1>2. n # 0 /\ n - 1 \in Nat
    BY <1>1
  <1> QED
    BY <1>1, <1>2

\* The powers up to n, and those of every n.
PowersUpTo(f, n) == f = [a \in 0..n |-> IF a = 0 THEN 1 ELSE 2 * f[a - 1]]
Powers(f)        == f = [a \in Nat |-> IF a = 0 THEN 1 ELSE 2 * f[a - 1]]

LEMMA PowersStep ==
    ASSUME NEW n \in Nat, NEW f, PowersUpTo(f, n)
    PROVE  f[0] = 1 /\ \A a \in 1..n : f[a] = 2 * f[a - 1]
  <1> DEFINE h == [a \in 0..n |-> IF a = 0 THEN 1 ELSE 2 * f[a - 1]]
  <1>1. f = h
    BY DEF PowersUpTo
  <1>2. h[0] = 1 /\ \A a \in 1..n : h[a] = 2 * f[a - 1]
    OBVIOUS
  <1> HIDE DEF h
  <1> QED
    BY <1>1, <1>2

\* Two tables of powers agree where both are defined.
LEMMA PowersAgree ==
    ASSUME NEW m \in Nat, NEW n \in Nat, NEW f, NEW g, PowersUpTo(f, m), PowersUpTo(g, n)
    PROVE  \A a \in Nat : a <= m /\ a <= n => f[a] = g[a]
  <1> DEFINE S == {a \in Nat : a <= m /\ a <= n => f[a] = g[a]}
  <1>1. /\ f[0] = 1 /\ \A a \in 1..m : f[a] = 2 * f[a - 1]
        /\ g[0] = 1 /\ \A a \in 1..n : g[a] = 2 * g[a - 1]
    BY PowersStep
  <1>2. 0 \in S
    BY <1>1
  <1>3. ASSUME NEW a \in Nat, a \in S PROVE a + 1 \in S
    <2>1. CASE a + 1 <= m /\ a + 1 <= n
      <3>1. f[a + 1] = 2 * f[a] /\ g[a + 1] = 2 * g[a]
        <4>1. a + 1 \in 1..m /\ a + 1 \in 1..n /\ (a + 1) - 1 = a
          BY <2>1
        <4> QED
          BY <1>1, <4>1
      <3>2. f[a] = g[a]
        BY <1>3, <2>1
      <3> QED
        BY <3>1, <3>2
    <2>2. CASE ~(a + 1 <= m /\ a + 1 <= n)
      BY <2>2
    <2> QED
      BY <2>1, <2>2
  <1>4. Nat \subseteq S
    <2> HIDE DEF S
    <2> QED
      BY <1>2, <1>3, Induction
  <1> QED
    BY <1>4

\* There is a table up to every n.
LEMMA PowersExist ==
    ASSUME NEW n \in Nat
    PROVE  \E f : PowersUpTo(f, n)
  <1> DEFINE D == {k \in Nat : \E f : PowersUpTo(f, k)}
  <1>1. 0 \in D
    <2>1. PowersUpTo([a \in 0..0 |-> 1], 0)
      BY DEF PowersUpTo
    <2> QED
      BY <2>1
  <1>2. ASSUME NEW k \in Nat, k \in D PROVE k + 1 \in D
    <2>1. PICK f : PowersUpTo(f, k)
      BY <1>2
    <2> DEFINE g == [a \in 0..(k + 1) |-> IF a <= k THEN f[a] ELSE 2 * f[k]]
               h == [a \in 0..(k + 1) |-> IF a = 0 THEN 1 ELSE 2 * g[a - 1]]
    <2>2. ASSUME NEW a \in 0..(k + 1) PROVE g[a] = h[a]
      <3>1. CASE a = k + 1
        <4>1. g[k + 1] = 2 * f[k] /\ g[k] = f[k]
          OBVIOUS
        <4>2. h[k + 1] = 2 * g[k]
          OBVIOUS
        <4> QED
          BY <3>1, <4>1, <4>2
      <3>2. CASE a = 0
        <4>1. g[0] = f[0] /\ h[0] = 1
          OBVIOUS
        <4> QED
          BY <2>1, <3>2, <4>1, PowersStep
      <3>3. CASE a \in 1..k
        <4>1. f[a] = 2 * f[a - 1]
          BY <2>1, <3>3, PowersStep
        <4>2. g[a] = f[a] /\ g[a - 1] = f[a - 1] /\ h[a] = 2 * g[a - 1]
          BY <3>3
        <4> QED
          BY <4>1, <4>2
      <3> QED
        BY <3>1, <3>2, <3>3
    <2>3. g = h
      BY <2>2
    <2>4. PowersUpTo(g, k + 1)
      BY <2>3 DEF PowersUpTo
    <2> HIDE DEF g
    <2> QED
      BY <2>4
  <1> HIDE DEF D
  <1>3. n \in D
    BY <1>1, <1>2, Induction
  <1> QED
    BY <1>3 DEF D

\* The powers of two are what their definition says.
LEMMA PowersAreDefined == Powers(PowerOfTwo)
  <1> DEFINE T(n) == CHOOSE f : PowersUpTo(f, n)
             g    == [a \in Nat |-> T(a)[a]]
             h    == [a \in Nat |-> IF a = 0 THEN 1 ELSE 2 * g[a - 1]]
  <1>1. ASSUME NEW n \in Nat PROVE PowersUpTo(T(n), n)
    BY PowersExist
  <1> HIDE DEF T
  <1>2. ASSUME NEW a \in Nat PROVE g[a] = h[a]
    <2>1. CASE a = 0
      <3>1. T(0)[0] = 1
        BY <1>1, PowersStep
      <3> QED
        BY <2>1, <3>1
    <2>2. CASE a # 0
      <3>1. a - 1 \in Nat /\ a \in 1..a
        BY <2>2
      <3>2. T(a)[a] = 2 * T(a)[a - 1]
        BY <1>1, <3>1, PowersStep
      <3>3. T(a)[a - 1] = T(a - 1)[a - 1]
        BY <1>1, <3>1, PowersAgree
      <3>4. g[a] = T(a)[a] /\ g[a - 1] = T(a - 1)[a - 1] /\ h[a] = 2 * g[a - 1]
        BY <2>2, <3>1
      <3> QED
        BY <3>2, <3>3, <3>4
    <2> QED
      BY <2>1, <2>2
  <1>3. g = h
    BY <1>2
  <1>4. Powers(g)
    BY <1>3 DEF Powers
  <1> HIDE DEF g
  <1>5. PowerOfTwo = CHOOSE f : Powers(f)
    BY DEF PowerOfTwo, Powers
  <1> QED
    BY <1>4, <1>5

LEMMA PowersDouble ==
    ASSUME NEW a \in Nat
    PROVE  PowerOfTwo[a] \in Nat /\ PowerOfTwo[a + 1] = 2 * PowerOfTwo[a]
  <1> DEFINE h == [b \in Nat |-> IF b = 0 THEN 1 ELSE 2 * PowerOfTwo[b - 1]]
             S == {b \in Nat : PowerOfTwo[b] \in Nat}
  <1>1. PowerOfTwo = h
    BY PowersAreDefined DEF Powers
  <1>2. h[0] = 1 /\ \A b \in Nat : h[b + 1] = 2 * PowerOfTwo[b]
    <2>1. ASSUME NEW b \in Nat PROVE h[b + 1] = 2 * PowerOfTwo[b]
      <3>1. b + 1 \in Nat /\ b + 1 # 0 /\ (b + 1) - 1 = b
        OBVIOUS
      <3> QED
        BY <3>1
    <2> QED
      BY <2>1
  <1> HIDE DEF h
  <1>3. PowerOfTwo[0] = 1 /\ \A b \in Nat : PowerOfTwo[b + 1] = 2 * PowerOfTwo[b]
    BY <1>1, <1>2
  <1>4. 0 \in S /\ \A b \in Nat : b \in S => b + 1 \in S
    BY <1>3
  <1> HIDE DEF S
  <1>5. a \in S
    BY <1>4, Induction
  <1> QED
    BY <1>3, <1>5 DEF S

\* The delays grow up to the cap.
LEMMA BackoffGrows ==
    ASSUME NEW a \in Nat, a > 0
    PROVE  Backoff(a - 1) <= Backoff(a) /\ Backoff(a) <= BackoffCap
  <1>1. /\ a - 1 \in Nat /\ PowerOfTwo[a - 1] \in Nat
        /\ PowerOfTwo[a] = 2 * PowerOfTwo[a - 1]
    <2>1. a - 1 \in Nat /\ (a - 1) + 1 = a
      OBVIOUS
    <2> QED
      BY <2>1, PowersDouble
  <1> DEFINE p == PowerOfTwo[a - 1]  x == BackoffBase * p
  <1>2. p \in Nat /\ BackoffBase \in Nat /\ BackoffCap \in Nat
    BY <1>1, BackoffAssumption
  <1>3. BackoffBase * PowerOfTwo[a] = 2 * x /\ x \in Nat
    BY <1>1, <1>2
  <1> HIDE DEF x
  <1>4. Backoff(a - 1) = IF x < BackoffCap THEN x ELSE BackoffCap
    BY DEF Backoff, x
  <1>5. Backoff(a) = IF 2 * x < BackoffCap THEN 2 * x ELSE BackoffCap
    BY <1>3 DEF Backoff
  <1> QED
    BY <1>2, <1>3, <1>4, <1>5

\* A loop that waits has set the delay of its attempt.
DelayInv ==
    /\ delay \in [Restarts -> Int]
    /\ \A r \in Restarts : at[r] = "delay" => delay[r] = Backoff(attempt[r])

LEMMA LoopSteps ==
    ASSUME [Next]_vars
    PROVE  \/ \E r \in Restarts : (StartRestart(r) /\ stage[r] = "loading") \/ RestartStep(r)
           \/ UNCHANGED <<at, attempt, delay>>
  <1>1. ASSUME NEW n \in NewSessions,
               NewSession(n) \/ AgentCreates(n) \/ NewSessionReturns(n) \/ NewSessionFails(n)
        PROVE  UNCHANGED <<at, attempt, delay>>
    BY <1>1 DEF NewSession, AgentCreates, NewSessionReturns, NewSessionFails, restartVars
  <1>2. ASSUME NEW m \in Notes, AgentNotifies(m) \/ SessionUpdate(m) \/ ReEmit(m)
        PROVE  UNCHANGED <<at, attempt, delay>>
    BY <1>2 DEF AgentNotifies, SessionUpdate, ReEmit, restartVars
  <1>3. ASSUME NEW r \in Restarts, Restart(r) \/ RestartProgress(r)
        PROVE  \/ StartRestart(r) /\ stage[r] = "loading"
               \/ RestartStep(r) \/ UNCHANGED <<at, attempt, delay>>
    BY <1>3 DEF Restart, RestartProgress, Loaded, Attempts, Restarted, AgentResumes,
                ResumeReturns, ResumeFails, restartVars
  <1>4. ASSUME Connect \/ Disconnect \/ UNCHANGED vars PROVE UNCHANGED <<at, attempt, delay>>
    BY <1>4 DEF Connect, Disconnect, vars, restartVars
  <1> QED
    BY <1>1, <1>2, <1>3, <1>4 DEF Next

LEMMA BackoffType ==
    ASSUME NEW a \in Nat
    PROVE  Backoff(a) \in Int
  <1>1. BackoffBase * PowerOfTwo[a] \in Int /\ BackoffCap \in Int
    BY PowersDouble, BackoffAssumption
  <1> QED
    BY <1>1 DEF Backoff

LEMMA DelayStep ==
    ASSUME LoopInv, DelayInv, [Next]_vars
    PROVE  DelayInv'
  <1>1. ASSUME NEW r \in Restarts, StartRestart(r) PROVE DelayInv'
    BY <1>1 DEF StartRestart, LoopInv, DelayInv
  <1>2. ASSUME NEW r \in Restarts, RestartStep(r) PROVE DelayInv'
    <2>1. CASE Disconnects(r) \/ Connects(r) \/ Initializes(r)
      BY <2>1 DEF Disconnects, Connects, Initializes, LoopInv, DelayInv
    <2>2. CASE AttemptFails(r)
      BY <2>2, BackoffType DEF AttemptFails, AfterFailure, LoopInv, DelayInv
    <2>3. CASE DelayOver(r)
      BY <2>3 DEF DelayOver, LoopInv, DelayInv
    <2> QED
      BY <1>2, <2>1, <2>2, <2>3 DEF RestartStep
  <1>3. ASSUME UNCHANGED <<at, attempt, delay>> PROVE DelayInv'
    BY <1>3 DEF DelayInv
  <1> QED
    BY <1>1, <1>2, <1>3, LoopSteps

\* Every attempt but the first follows an awaited delay within the cap and not shorter
\* than the one before, also when restarts of one port overlap (restartWithBackoff).
THEOREM EveryAttemptWaited == Spec => AttemptsAreSpaced
  <1>1. Init => LoopInv /\ DelayInv
    BY BackoffAssumption DEF Init, RestartInit, LoopInv, DelayInv
  <1>2. ASSUME LoopInv, DelayInv, [Next]_vars, NEW r \in Restarts,
               attempt'[r] > attempt[r], attempt[r] > 0
        PROVE  /\ delay[r] = Backoff(attempt[r]) /\ Backoff(attempt[r] - 1) <= delay[r]
               /\ delay[r] <= BackoffCap
    <2>1. attempt \in [Restarts -> Nat]
      BY <1>2 DEF LoopInv
    <2>2. ASSUME NEW q \in Restarts, StartRestart(q) PROVE FALSE
      BY <1>2, <2>1, <2>2 DEF StartRestart
    <2>3. ASSUME NEW q \in Restarts, RestartStep(q) PROVE at[r] = "delay"
      BY <1>2, <2>1, <2>3 DEF RestartStep, Disconnects, Connects, Initializes, AttemptFails,
                              AfterFailure, DelayOver, NextAttempt
    <2>4. at[r] = "delay"
      BY <1>2, <2>1, <2>2, <2>3, LoopSteps
    <2>5. delay[r] = Backoff(attempt[r])
      BY <1>2, <2>4 DEF DelayInv
    <2> QED
      BY <1>2, <2>1, <2>5, BackoffGrows
  <1>3. LoopInv /\ DelayInv /\ [Next]_vars
            => [\A r \in Restarts : attempt'[r] > attempt[r] /\ attempt[r] > 0
                  => delay[r] = Backoff(attempt[r]) /\ Backoff(attempt[r] - 1) <= delay[r]
                     /\ delay[r] <= BackoffCap]_vars
    BY <1>2
  <1> QED
    BY <1>1, <1>3, LoopStep, DelayStep, PTL DEF Spec, AttemptsAreSpaced
================================================================================
