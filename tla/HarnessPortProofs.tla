--------------------------- MODULE HarnessPortProofs ---------------------------
(* What the factories promise holds for any providers, environments, configs  *)
(* and options, and what a port does with its settings for any of them.       *)
EXTENDS HarnessPort, TLAPS

-----------------------------------------------------------------------------
(* One call                                                                  *)

LEMMA NamesGiven ==
    ASSUME NEW id \in Ids
    PROVE  id # None /\ id # "" /\ Given(id)
  BY IdsAreDistinct DEF Ids, Provider, Given

\* What a config and the ones made of it have in common.
Alike(c, d) ==
    /\ d.command = c.command /\ d.model = c.model /\ d.mode = c.mode
    /\ d.trust = c.trust /\ d.debug = c.debug
    /\ Given(c.args) => d.args = c.args

LEMMA ConfigExcept ==
    ASSUME NEW c \in Configuration, NEW a \in Setting, Given(c.args) => a = c.args
    PROVE  /\ [c EXCEPT !.args = a] \in Configuration
           /\ [c EXCEPT !.args = a].args = a
           /\ Alike(c, [c EXCEPT !.args = a])
  <1>1. [c EXCEPT !.args = a] = [command |-> c.command, args |-> a, model |-> c.model,
                                 mode |-> c.mode, trust |-> c.trust, debug |-> c.debug]
    BY DEF Configuration
  <1>2. /\ c.command \in Setting /\ c.model \in Setting /\ c.mode \in Setting
        /\ c.trust \in Setting /\ c.debug \in Setting
    BY DEF Configuration
  <1> QED
    BY <1>1, <1>2 DEF Configuration, Alike

LEMMA ConfigTypes ==
    ASSUME NEW c \in Configs, Accepts(c)
    PROVE  /\ c \in Configuration /\ Given(c.command)
           /\ Parse(c) \in Configuration
           /\ Alike(c, Parse(c))
  <1>1. c \in Configuration /\ Given(c.command)
    BY InputsAreTyped DEF Accepts
  <1>2. CASE c.args = None
    <2>1. Parse(c) = [c EXCEPT !.args = ""]
      BY <1>2 DEF Parse
    <2>2. "" \in Setting /\ ~Given(c.args)
      BY <1>2, NoneIsNoWord DEF Setting, Given
    <2> QED
      BY <1>1, <2>1, <2>2, ConfigExcept
  <1>3. CASE c.args # None
    BY <1>1, <1>3 DEF Parse, Alike
  <1> QED
    BY <1>1, <1>2, <1>3

LEMMA ResolvedTypes ==
    ASSUME NEW id \in Ids, NEW c \in Configs, Accepts(c), shell \in Shells
    PROVE  Resolved(id, c) \in Configuration /\ Alike(c, Resolved(id, c))
  <1> DEFINE p == Parse(c)  a == ResolveArgs(p, shell)
  <1>1. /\ p \in Configuration /\ Given(c.command)
        /\ Alike(c, p)
    BY ConfigTypes
  <1>2. CASE id \in OwnIds
    <2>1. Resolved(id, c) = p
      BY <1>2 DEF Resolved
    <2> QED
      BY <1>1, <2>1
  <1>3. CASE id \notin OwnIds
    <2>1. /\ shell.args \in Setting /\ p.args \in Setting /\ "default" \in Setting
      <3>1. "default" \in Setting
        BY NoneIsNoWord DEF Setting
      <3>2. shell.args \in Setting
        BY InputsAreTyped
      <3>3. p.args \in Setting
        BY <1>1 DEF Configuration
      <3> QED
        BY <3>1, <3>2, <3>3
    <2>2. a \in Setting /\ (Given(p.args) => a = p.args)
      BY <2>1 DEF ResolveArgs
    <2>3. p.command # None
      BY <1>1 DEF Alike, Given
    <2>4. Resolved(id, c) = ResolveBaseConfig(p, shell)
      BY <1>3 DEF Resolved
    <2> HIDE DEF p, a
    <2>5. ResolveBaseConfig(p, shell) = [p EXCEPT !.command = p.command, !.args = a]
      BY <2>3 DEF ResolveBaseConfig, a
    <2>6. [p EXCEPT !.command = p.command, !.args = a] = [p EXCEPT !.args = a]
      BY <1>1 DEF Configuration
    <2>7. [p EXCEPT !.args = a] \in Configuration /\ Alike(p, [p EXCEPT !.args = a])
      BY <1>1, <2>2, ConfigExcept
    <2>8. Alike(c, [p EXCEPT !.args = a])
      BY <1>1, <2>7 DEF Alike
    <2> QED
      BY <2>4, <2>5, <2>6, <2>7, <2>8
  <1> QED
    BY <1>2, <1>3

LEMMA OptionTypes ==
    ASSUME NEW o \in Options
    PROVE  o.given \subseteq OptionNames /\ o.providerId \in Setting \cup Ids
  BY InputsAreTyped

\* Every option has a place in the ACP runtime; two of them need a session store for it.
LEMMA RoutedOptions ==
    ASSUME NEW given \in SUBSET OptionNames
    PROVE  /\ Routed(given) \subseteq given
           /\ "permissionHandler" \in Routed(given) <=> "permissionHandler" \in given
           /\ "toolHost" \in Routed(given) <=> "toolHost" \in given
           /\ "sessionPersistence" \in given => Routed(given) = given
           /\ "sessionPersistence" \notin given
                 => Routed(given) = given \ {"workspace", "resumeOnRestart"}
  <1>1. \A n \in ClientOptions \cup StreamOptions \cup LifecycleOptions :
            n \in Routed(given) <=> n \in given
    BY DEF Routed, Persistence, ClientOptions, StreamOptions, LifecycleOptions, StoreOptions
  <1>2. "permissionHandler" \in ClientOptions /\ "toolHost" \in ClientOptions
    BY DEF ClientOptions, OptionNames
  <1>3. \A n \in OptionNames : n \in ClientOptions \cup StreamOptions \cup LifecycleOptions
                                  \/ n \in StoreOptions
    BY DEF ClientOptions, StreamOptions, LifecycleOptions, StoreOptions
  <1>4. CASE "sessionPersistence" \in given
    <2>1. \A n \in StoreOptions : n \in Routed(given) <=> n \in given
      BY <1>4 DEF Routed, Persistence, ClientOptions, StreamOptions, LifecycleOptions,
                  StoreOptions
    <2>2. Routed(given) \subseteq given
      BY DEF Routed, Persistence
    <2>3. given \subseteq Routed(given)
      BY <1>1, <1>3, <2>1
    <2> QED
      BY <1>4, <2>2, <2>3
  <1>5. CASE "sessionPersistence" \notin given
    <2>1. Routed(given) = given \cap (StreamOptions \cup LifecycleOptions \cup ClientOptions)
      BY <1>5 DEF Routed, Persistence
    <2>2. \A n \in OptionNames : n \in StoreOptions
              => n \notin ClientOptions \cup StreamOptions \cup LifecycleOptions
      BY DEF ClientOptions, StreamOptions, LifecycleOptions, StoreOptions
    <2>3. \A n : n \in StoreOptions
              <=> n = "sessionPersistence" \/ n \in {"workspace", "resumeOnRestart"}
      BY DEF StoreOptions
    <2>4. \A n : n \in Routed(given) <=> n \in given \ {"workspace", "resumeOnRestart"}
      BY <1>3, <1>5, <2>1, <2>2, <2>3
    <2> QED
      BY <1>1, <1>2, <1>5, <2>1, <2>4
  <1> QED
    BY <1>1, <1>2, <1>4, <1>5

LEMMA PortTypes ==
    ASSUME NEW id \in Ids, NEW c \in Configs, Accepts(c), NEW o \in Options, shell \in Shells
    PROVE  /\ PortFor(id, c, o) \in Port
           /\ PortFor(id, c, o).id = id
           /\ PortFor(id, c, o).config = Resolved(id, c)
           /\ PortFor(id, c, o).debug = GetEnvBoolean(c.debug, shell.debug)
  <1>1. /\ Resolved(id, c) \in Configuration
        /\ GetEnvBoolean(c.debug, shell.debug) \in BOOLEAN
        /\ o.given \subseteq OptionNames /\ KeyOf(id, o) \in Setting \cup Ids
        /\ Routed(o.given) \subseteq OptionNames
        /\ None \in Setting /\ "option" \in Setting /\ "acp-agent" \in Setting
    <2>1. GetEnvBoolean(c.debug, shell.debug) \in BOOLEAN
      BY DEF GetEnvBoolean, Truthy
    <2>2. o.given \subseteq OptionNames /\ KeyOf(id, o) \in Setting \cup Ids
      BY OptionTypes DEF KeyOf, DefaultId
    <2>3. None \in Setting /\ "option" \in Setting /\ "acp-agent" \in Setting
      BY NoneIsNoWord DEF Setting
    <2>4. Routed(o.given) \subseteq OptionNames
      BY <2>2, RoutedOptions
    <2> QED
      BY <2>1, <2>2, <2>3, <2>4, ResolvedTypes
  <1>2. CASE id = CursorId
    <2>1. CursorPort(c, o) \in Port
      BY <1>1, <1>2 DEF CursorPort, Port
    <2> QED
      BY <1>2, <2>1 DEF PortFor, CursorPort
  <1>3. CASE id # CursorId
    <2>1. c.model \in Setting
      BY ConfigTypes DEF Configuration
    <2>2. Label(id, Resolved(id, c), o) \in Setting
      BY <1>1, <2>1, ResolvedTypes DEF Label, Alike
    <2>3. Advertised(o) \in {"stated", "all", "none"}
      BY DEF Advertised
    <2>4. AcpPort(id, c, o) \in Port
      BY <1>1, <2>2, <2>3 DEF AcpPort, Port
    <2> QED
      BY <1>3, <2>4 DEF PortFor, AcpPort
  <1> QED
    BY <1>2, <1>3
-----------------------------------------------------------------------------
(* The inductive invariant: the port is the one the last call makes, the      *)
(* settings of a session are those wished for, and a reply answers the        *)
(* port and the settings of now                                              *)

CallInv ==
    /\ calls \in Nat
    /\ calls = 0 => last = None
    /\ last = None => port = None
    /\ last # None =>
          /\ last.outcome = Outcome(last.path, last.id, last.config, last.options)
          /\ port = IF last.outcome = "port" THEN PortFor(last.id, last.config, last.options)
                    ELSE None

Modes == {"agent", "ask", "plan", None}
SettingInv ==
    /\ settings \in [Session -> [mode : Modes, model : Models \cup {None}]]
    /\ wished \in [Session -> [mode : ModeIds \cup {None}, model : Models \cup {None}]]
    /\ \A s \in Session : /\ settings[s].mode = ResolveMode(wished[s].mode)
                          /\ settings[s].model = wished[s].model

ReplyInv ==
    /\ IsReply("prompt") =>
          IsCursor /\ reply.session \in Session /\ reply.args = PromptArgs(reply.session)
    /\ IsReply("options") =>
          IsCursor /\ reply.session \in Session /\ reply.model = PromptModel(reply.session)
    /\ AgentsAreAnswered

HarnessInv == FactoryTypeOK /\ CallInv /\ MetricsTellTheCalls /\ SettingInv /\ ReplyInv

LEMMA HarnessInit == Init => HarnessInv
  <1> SUFFICES ASSUME Init PROVE HarnessInv
    OBVIOUS
  <1> USE DEF Init, FactoryInit
  <1>1. FactoryTypeOK
    BY DEF FactoryTypeOK
  <1>2. CallInv
    BY DEF CallInv
  <1>3. MetricsTellTheCalls
    BY DEF MetricsTellTheCalls
  <1>4. SettingInv
    BY NoneIsNoWord DEF SettingInv, Unset, ResolveMode, Modes
  <1>5. ReplyInv
    BY DEF ReplyInv, IsReply, AgentsAreAnswered
  <1> QED
    BY <1>1, <1>2, <1>3, <1>4, <1>5 DEF HarnessInv

\* A new port has no settings and no reply.
LEMMA FreshSettings ==
    ASSUME Fresh
    PROVE  SettingInv' /\ ReplyInv'
  <1>1. SettingInv'
    BY NoneIsNoWord DEF Fresh, SettingInv, Unset, ResolveMode, Modes
  <1>2. ReplyInv'
    BY DEF Fresh, ReplyInv, IsReply, AgentsAreAnswered
  <1> QED
    BY <1>1, <1>2

LEMMA PopulateStep ==
    ASSUME HarnessInv, Populate
    PROVE  HarnessInv'
  <1>1. /\ calls = 0 /\ calls' = calls /\ Fresh
        /\ UNCHANGED <<shell, metrics, last, port, tally>>
        /\ registry' \subseteq Ids
    BY DEF HarnessInv, FactoryTypeOK, Populate, UseDefaults, Register, Ids
  <1>2. FactoryTypeOK'
    BY <1>1 DEF HarnessInv, FactoryTypeOK
  <1>3. CallInv'
    BY <1>1 DEF HarnessInv, CallInv
  <1>4. MetricsTellTheCalls'
    BY <1>1 DEF HarnessInv, MetricsTellTheCalls, Measured
  <1> QED
    BY <1>1, <1>2, <1>3, <1>4, FreshSettings DEF HarnessInv

\* A call that is measured is recorded at one place, as what it comes to.
LEMMA RecordedOnce ==
    ASSUME NEW path \in Paths, NEW id \in Ids, NEW c \in Configs, NEW o \in Options,
           Measured(path, Outcome(path, id, c, o))
    PROVE  Recorded(id, c, o) =
              IF Outcome(path, id, c, o) = "port" THEN RecordSuccess(Metrics(id))
                                                 ELSE RecordFailure(Metrics(id))
  <1>1. Accepts(c) => c # None
    BY DEF Accepts
  <1>2. Outcome(path, id, c, o) = IF ~Accepts(c) THEN "bad config"
                                  ELSE IF LacksKey(id, o) THEN "no key" ELSE "port"
    BY DEF Outcome, Measured
  <1>3. Recorded(id, c, o) =
            IF ~Accepts(c) THEN RecordFailure(Metrics(id))
            ELSE IF LacksKey(id, o) THEN RecordFailure(Metrics(id))
            ELSE RecordSuccess(Metrics(id))
    BY <1>1 DEF Recorded, Harnessed, Parsed, Required
  <1> QED
    BY <1>2, <1>3

\* A call fills the collector of its id, or leaves all of them alone.
LEMMA CallTypes ==
    ASSUME HarnessInv, NEW path \in Paths, NEW id \in Ids, NEW c \in Configs, NEW o \in Options,
           Calls(path, id, c, o)
    PROVE  /\ FactoryTypeOK'
           /\ last' = [path |-> path, id |-> id, config |-> c, options |-> o,
                       outcome |-> Outcome(path, id, c, o)]
           /\ last' # None
           /\ port' = IF Outcome(path, id, c, o) = "port" THEN PortFor(id, c, o) ELSE None
           /\ port' = None <=> Outcome(path, id, c, o) # "port"
  <1> DEFINE outcome == Outcome(path, id, c, o)
  <1>1. /\ outcome \in Outcomes
        /\ outcome = "port" => Accepts(c)
    BY DEF Outcome, Outcomes
  <1>2. /\ last' = [path |-> path, id |-> id, config |-> c, options |-> o, outcome |-> outcome]
        /\ port' = IF outcome = "port" THEN PortFor(id, c, o) ELSE None
        /\ shell' = shell /\ registry' = registry
        /\ IF Measured(path, outcome)
           THEN /\ metrics' = [metrics EXCEPT ![id] =
                       IF outcome = "port" THEN RecordSuccess(Metrics(id))
                                           ELSE RecordFailure(Metrics(id))]
                /\ tally' = [tally EXCEPT ![id] = tally[id] + 1]
           ELSE metrics' = metrics /\ tally' = tally
    BY RecordedOnce DEF Calls
  <1>3. shell \in Shells /\ registry \subseteq Ids /\ tally \in [Ids -> Nat]
    BY DEF HarnessInv, FactoryTypeOK
  <1>4. metrics \in [Ids -> Collector \cup {None}]
    BY DEF HarnessInv, FactoryTypeOK
  <1>5. outcome = "port" => PortFor(id, c, o) \in Port
    BY <1>1, <1>3, PortTypes
  <1>6. /\ RecordSuccess(Metrics(id)) \in Collector
        /\ RecordFailure(Metrics(id)) \in Collector
    <2>1. Metrics(id) \in Collector
      BY <1>4 DEF Metrics, NoMetrics, Collector
    <2>2. Metrics(id).invocations + 1 \in Nat
      BY <2>1 DEF Collector
    <2> QED
      BY <2>2 DEF RecordSuccess, RecordFailure, Collector
  <1> HIDE DEF outcome
  <1>7. last' \in Call
    BY <1>1, <1>2 DEF Call
  <1>8. tally' \in [Ids -> Nat]
    BY <1>2, <1>3
  <1>9. metrics' \in [Ids -> Collector \cup {None}]
    BY <1>2, <1>4, <1>6
  <1>10. port' \in Port \cup {None}
    BY <1>2, <1>5
  <1>11. FactoryTypeOK'
    BY <1>2, <1>3, <1>7, <1>8, <1>9, <1>10 DEF FactoryTypeOK
  <1>12. last' # None /\ (outcome = "port" => PortFor(id, c, o) # None)
    BY <1>5, <1>7, NoneIsNoRecord
  <1> QED
    BY <1>2, <1>11, <1>12 DEF outcome

\* What the collectors tell stays true across a call.
LEMMA CallMetrics ==
    ASSUME HarnessInv, NEW path \in Paths, NEW id \in Ids, NEW c \in Configs, NEW o \in Options,
           Calls(path, id, c, o)
    PROVE  MetricsTellTheCalls'
  <1> DEFINE outcome == Outcome(path, id, c, o)
             new     == IF outcome = "port" THEN RecordSuccess(Metrics(id))
                        ELSE RecordFailure(Metrics(id))
  <1>1. /\ last'.path = path /\ last'.id = id /\ last'.outcome = outcome
        /\ port' = None <=> outcome # "port"
    BY CallTypes
  <1>2. IF Measured(path, outcome)
        THEN /\ metrics' = [metrics EXCEPT ![id] = new]
             /\ tally' = [tally EXCEPT ![id] = tally[id] + 1]
        ELSE metrics' = metrics /\ tally' = tally
    BY RecordedOnce DEF Calls
  <1>3. /\ metrics \in [Ids -> Collector \cup {None}] /\ tally \in [Ids -> Nat]
        /\ MetricsTellTheCalls
    BY DEF HarnessInv, FactoryTypeOK
  <1>4. /\ new \in Collector /\ new.invocations = tally[id] + 1
        /\ new.failed # new.timed /\ (new.failed <=> outcome # "port")
    <2>1. /\ Metrics(id) \in Collector
          /\ Metrics(id).invocations = tally[id]
      BY <1>3 DEF Metrics, NoMetrics, Collector, MetricsTellTheCalls
    <2>2. tally[id] + 1 \in Nat
      BY <1>3
    <2>3. CASE outcome = "port"
      <3>1. new = [invocations |-> tally[id] + 1, failed |-> FALSE, timed |-> TRUE]
        BY <2>1, <2>3 DEF RecordSuccess
      <3>2. [invocations |-> tally[id] + 1, failed |-> FALSE, timed |-> TRUE] \in Collector
        BY <2>2 DEF Collector
      <3> HIDE DEF outcome, new
      <3>3. new \in Collector /\ new.invocations = tally[id] + 1
        BY <3>1, <3>2
      <3>4. new.failed = FALSE /\ new.timed = TRUE
        BY <3>1
      <3> QED
        BY <2>3, <3>3, <3>4
    <2>4. CASE outcome # "port"
      <3>1. new = [invocations |-> tally[id] + 1, failed |-> TRUE, timed |-> FALSE]
        BY <2>1, <2>4 DEF RecordFailure
      <3>2. [invocations |-> tally[id] + 1, failed |-> TRUE, timed |-> FALSE] \in Collector
        BY <2>2 DEF Collector
      <3> HIDE DEF outcome, new
      <3>3. new \in Collector /\ new.invocations = tally[id] + 1
        BY <3>1, <3>2
      <3>4. new.failed = TRUE /\ new.timed = FALSE
        BY <3>1
      <3> QED
        BY <2>4, <3>3, <3>4
    <2> QED
      BY <2>3, <2>4
  <1> HIDE DEF outcome, new
  <1> SUFFICES ASSUME NEW i \in Ids
               PROVE  /\ metrics'[i] = None <=> tally'[i] = 0
                      /\ metrics'[i] # None =>
                            /\ metrics'[i].invocations = tally'[i]
                            /\ metrics'[i].failed # metrics'[i].timed
                            /\ id = i /\ Measured(path, outcome) =>
                                  (metrics'[i].failed <=> port' = None)
    BY <1>1 DEF MetricsTellTheCalls, Measured
  <1>5. CASE Measured(path, outcome) /\ i = id
    <2>1. metrics'[i] = new /\ tally'[i] = tally[id] + 1 /\ tally[id] \in Nat
      BY <1>2, <1>3, <1>5
    <2>2. new # None
      BY <1>4, NoneIsNoRecord
    <2> QED
      BY <1>1, <1>4, <2>1, <2>2
  <1>6. CASE ~(Measured(path, outcome) /\ i = id)
    <2>1. metrics'[i] = metrics[i] /\ tally'[i] = tally[i]
      BY <1>2, <1>3, <1>6
    <2> QED
      BY <1>3, <1>6, <2>1 DEF MetricsTellTheCalls
  <1> QED
    BY <1>5, <1>6

LEMMA MakeStep ==
    ASSUME HarnessInv, Make
    PROVE  HarnessInv'
  <1>1. PICK path \in Paths, id \in Ids, c \in Configs, o \in Options : Calls(path, id, c, o)
    BY DEF Make
  <1>2. calls \in Nat /\ calls' = calls + 1 /\ Fresh
    BY DEF Make, HarnessInv, CallInv
  <1>3. CallInv'
    <2>1. /\ last' # None /\ last'.path = path /\ last'.id = id /\ last'.config = c
          /\ last'.options = o /\ last'.outcome = Outcome(path, id, c, o)
          /\ port' = IF last'.outcome = "port" THEN PortFor(id, c, o) ELSE None
      BY <1>1, CallTypes
    <2>2. registry' = registry /\ shell' = shell
      BY <1>1 DEF Calls
    <2>3. last'.outcome = Outcome(last.path, last.id, last.config, last.options)'
      BY <2>1, <2>2 DEF Outcome
    <2>4. PortFor(last.id, last.config, last.options)' = PortFor(id, c, o)
      BY <2>1, <2>2 DEF PortFor, CursorPort, AcpPort, Resolved
    <2>5. calls' # 0 /\ calls' \in Nat
      BY <1>2
    <2> QED
      BY <2>1, <2>3, <2>4, <2>5 DEF CallInv
  <1> QED
    BY <1>1, <1>2, <1>3, CallTypes, CallMetrics, FreshSettings DEF HarnessInv

\* A step that uses the port leaves what the factory keeps as it was.
LEMMA PortStep ==
    ASSUME HarnessInv, UNCHANGED <<factoryVars, calls>>
    PROVE  FactoryTypeOK' /\ CallInv' /\ MetricsTellTheCalls'
  <1> USE DEF factoryVars
  <1>1. FactoryTypeOK'
    BY DEF HarnessInv, FactoryTypeOK
  <1>2. CallInv'
    BY DEF HarnessInv, CallInv, Outcome, PortFor, CursorPort, AcpPort, Resolved
  <1>3. MetricsTellTheCalls'
    BY DEF HarnessInv, MetricsTellTheCalls
  <1> QED
    BY <1>1, <1>2, <1>3

LEMMA ConfigureStep ==
    ASSUME HarnessInv, Configure
    PROVE  HarnessInv'
  <1>1. UNCHANGED <<factoryVars, calls>> /\ port' = port /\ IsCursor /\ IsCursor'
    BY DEF Configure, factoryVars, IsCursor
  <1>2. /\ settings \in [Session -> [mode : Modes, model : Models \cup {None}]]
        /\ wished \in [Session -> [mode : ModeIds \cup {None}, model : Models \cup {None}]]
        /\ \A s \in Session : /\ settings[s].mode = ResolveMode(wished[s].mode)
                              /\ settings[s].model = wished[s].model
    BY DEF HarnessInv, SettingInv
  <1>3. PICK s \in Session :
            (\E m \in ModeIds : SetMode(s, m)) \/ (\E v \in Models : SetModel(s, v))
    BY DEF Configure
  <1>4. ASSUME NEW m \in ModeIds, SetMode(s, m)
        PROVE  SettingInv' /\ ReplyInv'
    <2>1. /\ settings' = [t \in Session |->
                IF t = s THEN [settings[t] EXCEPT !.mode = ResolveMode(m)] ELSE settings[t]]
          /\ wished' = [wished EXCEPT ![s] = [wished[s] EXCEPT !.mode = m]]
          /\ reply' = None
      BY <1>4 DEF SetMode, Set, Entries
    <2>2. ResolveMode(m) \in Modes
      BY DEF ResolveMode, Modes
    <2> HIDE DEF Modes
    <2>3. /\ [settings[s] EXCEPT !.mode = ResolveMode(m)]
                = [mode |-> ResolveMode(m), model |-> settings[s].model]
          /\ [wished[s] EXCEPT !.mode = m] = [mode |-> m, model |-> wished[s].model]
      BY <1>2
    <2>4. /\ settings' \in [Session -> [mode : Modes, model : Models \cup {None}]]
          /\ wished' \in [Session -> [mode : ModeIds \cup {None}, model : Models \cup {None}]]
      BY <1>2, <2>1, <2>2, <2>3
    <2>5. ASSUME NEW t \in Session
          PROVE  settings'[t].mode = ResolveMode(wished'[t].mode)
                 /\ settings'[t].model = wished'[t].model
      BY <1>2, <2>1, <2>3
    <2> QED
      BY <2>1, <2>4, <2>5 DEF SettingInv, ReplyInv, IsReply, AgentsAreAnswered
  <1>5. ASSUME NEW v \in Models, SetModel(s, v)
        PROVE  SettingInv' /\ ReplyInv'
    <2>1. /\ settings' = [t \in Session |->
                IF t = s THEN [settings[t] EXCEPT !.model = v] ELSE settings[t]]
          /\ wished' = [wished EXCEPT ![s] = [wished[s] EXCEPT !.model = v]]
          /\ reply' = [kind |-> "options", session |-> s, model |-> ModelOf(s)']
      BY <1>5 DEF SetModel, Set, Entries
    <2> HIDE DEF Modes
    <2>2. /\ [settings[s] EXCEPT !.model = v] = [mode |-> settings[s].mode, model |-> v]
          /\ [wished[s] EXCEPT !.model = v] = [mode |-> wished[s].mode, model |-> v]
      BY <1>2
    <2>3. /\ settings' \in [Session -> [mode : Modes, model : Models \cup {None}]]
          /\ wished' \in [Session -> [mode : ModeIds \cup {None}, model : Models \cup {None}]]
      BY <1>2, <2>1, <2>2
    <2>4. ASSUME NEW t \in Session
          PROVE  settings'[t].mode = ResolveMode(wished'[t].mode)
                 /\ settings'[t].model = wished'[t].model
      BY <1>2, <2>1, <2>2
    <2>5. ReplyInv'
      <3>1. reply'.kind = "options" /\ reply'.session = s /\ reply'.model = PromptModel(s)'
        BY <2>1 DEF ModelOf, PromptModel
      <3> QED
        BY <1>1, <3>1 DEF ReplyInv, IsReply, AgentsAreAnswered, PromptModel
    <2> QED
      BY <2>3, <2>4, <2>5 DEF SettingInv
  <1> QED
    BY <1>1, <1>3, <1>4, <1>5, PortStep DEF HarnessInv

LEMMA PromptStep ==
    ASSUME HarnessInv, Prompt
    PROVE  HarnessInv'
  <1>1. /\ UNCHANGED <<factoryVars, calls>> /\ port' = port /\ IsCursor /\ IsCursor'
        /\ settings' = settings /\ wished' = wished
    BY DEF Prompt, factoryVars, IsCursor
  <1>2. SettingInv'
    BY <1>1 DEF HarnessInv, SettingInv
  <1>3. PICK s \in Session : reply' = [kind |-> "prompt", session |-> s, args |-> PromptArgs(s)]
    BY DEF Prompt
  <1>4. PromptArgs(s)' = PromptArgs(s)
    BY <1>1 DEF PromptArgs, PromptMode, PromptModel
  <1>5. /\ reply'.kind = "prompt" /\ reply'.session = s /\ reply'.args = PromptArgs(s)'
    BY <1>3, <1>4
  <1>6. ReplyInv'
    BY <1>1, <1>5 DEF ReplyInv, IsReply, AgentsAreAnswered, PromptArgs, PromptMode, PromptModel
  <1> QED
    BY <1>1, <1>2, <1>6, PortStep DEF HarnessInv

\* The port of a call, by what the call was given.
LEMMA PortFacts ==
    ASSUME HarnessInv, port # None
    PROVE  /\ last # None /\ last.outcome = "port" /\ Accepts(last.config)
           /\ last.id \in Ids /\ last.config \in Configs /\ last.options \in Options
           /\ port = PortFor(last.id, last.config, last.options)
           /\ port.id = last.id
  <1>1. /\ last # None /\ last.outcome = "port"
        /\ last.outcome = Outcome(last.path, last.id, last.config, last.options)
        /\ port = PortFor(last.id, last.config, last.options)
    BY DEF HarnessInv, CallInv
  <1>2. last.id \in Ids /\ last.config \in Configs /\ last.options \in Options
    BY <1>1 DEF HarnessInv, FactoryTypeOK, Call
  <1>3. Accepts(last.config)
    BY <1>1 DEF Outcome
  <1> QED
    BY <1>1, <1>2, <1>3, PortTypes DEF HarnessInv, FactoryTypeOK

LEMMA AgentStep ==
    ASSUME HarnessInv, AgentAsks
    PROVE  HarnessInv'
  <1>1. /\ UNCHANGED <<factoryVars, calls>> /\ port' = port /\ last' = last
        /\ port # None /\ port.id # CursorId
        /\ settings' = settings /\ wished' = wished
    BY DEF AgentAsks, factoryVars
  <1>2. SettingInv'
    BY <1>1 DEF HarnessInv, SettingInv
  <1>3. /\ "permissionHandler" \in port.honours
              <=> "permissionHandler" \in last.options.given
        /\ "toolHost" \in port.honours <=> "toolHost" \in last.options.given
        /\ port.tools = Advertised(last.options)
    <2>1. port.honours = Routed(last.options.given) /\ port.tools = Advertised(last.options)
      BY <1>1, PortFacts DEF PortFor, AcpPort
    <2>2. last.options.given \in SUBSET OptionNames
      BY <1>1, PortFacts, OptionTypes
    <2> QED
      BY <2>1, <2>2, RoutedOptions
  <1>4. \/ /\ reply'.kind = "permission"
           /\ reply'.answer = IF "permissionHandler" \in port.honours THEN "asked" ELSE "cancelled"
        \/ /\ reply'.kind = "tool" /\ port.tools # "none"
           /\ reply'.answer = IF "toolHost" \in port.honours THEN "served" ELSE "refused"
    BY DEF AgentAsks, Cancel
  <1>5. ReplyInv'
    BY <1>1, <1>3, <1>4 DEF ReplyInv, IsReply, AgentsAreAnswered, Advertised
  <1> QED
    BY <1>1, <1>2, <1>5, PortStep DEF HarnessInv

LEMMA HarnessStep == HarnessInv /\ [Next]_allVars => HarnessInv'
  <1> SUFFICES ASSUME HarnessInv, [Next]_allVars PROVE HarnessInv'
    OBVIOUS
  <1>1. CASE Next
    BY <1>1, PopulateStep, MakeStep, ConfigureStep, PromptStep, AgentStep DEF Next
  <1>2. CASE UNCHANGED allVars
    <2>1. /\ UNCHANGED <<factoryVars, calls>> /\ port' = port /\ last' = last
          /\ settings' = settings /\ wished' = wished /\ reply' = reply
      BY <1>2 DEF allVars, factoryVars, portVars
    <2>2. SettingInv'
      BY <2>1 DEF HarnessInv, SettingInv
    <2>3. ReplyInv'
      BY <2>1 DEF HarnessInv, ReplyInv, IsReply, IsCursor, AgentsAreAnswered, PromptArgs,
                  PromptMode, PromptModel
    <2> QED
      BY <2>1, <2>2, <2>3, PortStep DEF HarnessInv
  <1> QED
    BY <1>1, <1>2

LEMMA HarnessInvariant == Spec => []HarnessInv
  BY HarnessInit, HarnessStep, PTL DEF Spec

-----------------------------------------------------------------------------
(* What the factories promise                                                *)

\* Whatever is registered, called and set, the variables keep their types: a
\* port is made of the options, the config and the environment alone.
THEOREM HarnessTypes == Spec => []FactoryTypeOK
  <1>1. HarnessInv => FactoryTypeOK
    BY DEF HarnessInv
  <1> QED
    BY <1>1, HarnessInvariant, PTL

\* For any calls through any path, the collector of an id counts the measured
\* ones, and tells of the last whether it failed or how long it took
\* (runtime/metrics.ts, provider.factory.ts).
THEOREM CollectorsTellTheCalls == Spec => []MetricsTellTheCalls
  <1>1. HarnessInv => MetricsTellTheCalls
    BY DEF HarnessInv
  <1> QED
    BY <1>1, HarnessInvariant, PTL

\* Whatever the bundled providers, configs, options and environments: a listed
\* id with an acceptable config gets its port, and a port without an id of the
\* caller's keeps its sessions under its own (registry.ts, acp.runtime.ts).
THEOREM ListedIsServed == Spec => []DocumentedCallsAreServed
  <1>1. ASSUME HarnessInv, last # None, Accepts(last.config), last.options.providerId # ""
        PROVE  /\ last.id \in Listed(last.path) => port # None
               /\ port # None /\ last.options.providerId = None => port.key \in {None, port.id}
    <2>1. /\ last.id \in Ids /\ last.config \in Configs /\ last.options \in Options
          /\ shell \in Shells
          /\ last.outcome = Outcome(last.path, last.id, last.config, last.options)
          /\ port = IF last.outcome = "port" THEN PortFor(last.id, last.config, last.options)
                    ELSE None
      BY <1>1 DEF HarnessInv, FactoryTypeOK, CallInv, Call
    <2>2. ~LacksKey(last.id, last.options)
      BY <1>1, <2>1, NamesGiven DEF LacksKey, KeyOf, DefaultId, Given
    <2>3. PortFor(last.id, last.config, last.options) # None
      BY <1>1, <2>1, PortTypes, NoneIsNoRecord
    <2>4. ASSUME last.id \in Listed(last.path)
          PROVE  port # None
      BY <1>1, <2>1, <2>2, <2>3, <2>4 DEF Listed, ListProviders, Outcome
    <2>5. ASSUME port # None, last.options.providerId = None
          PROVE  port.key \in {None, port.id}
      BY <2>1, <2>5 DEF PortFor, AcpPort, CursorPort, KeyOf, DefaultId
    <2> QED
      BY <2>4, <2>5
  <1>2. HarnessInv => DocumentedCallsAreServed
    BY <1>1 DEF DocumentedCallsAreServed
  <1> QED
    BY <1>2, HarnessInvariant, PTL

\* Whatever the environment holds, a port runs with what its caller configured; each of the
\* caller's options has its place in the runtime or is warned about, but for the two that are
\* silently ignored without a session store (config.resolve.ts, env.reader.ts, acp.runtime.ts,
\* the adapters).
THEOREM CallersAreHonoured == Spec => []ConfigIsHonoured
  <1>1. ASSUME HarnessInv, port # None
        PROVE  ConfigIsHonoured
    <2> DEFINE id == last.id  c == last.config  o == last.options
    <2>1. /\ id \in Ids /\ c \in Configs /\ o \in Options /\ shell \in Shells
          /\ Accepts(c) /\ port = PortFor(id, c, o) /\ port.id = id
      BY <1>1, PortFacts DEF HarnessInv, FactoryTypeOK
    <2> HIDE DEF id, c, o
    <2>2. /\ port.config = Resolved(id, c)
          /\ port.debug = GetEnvBoolean(c.debug, shell.debug)
      BY <2>1, PortTypes
    <2>3. Alike(c, Resolved(id, c))
      BY <2>1, ResolvedTypes
    <2>4. /\ port.config.command = c.command
          /\ Given(c.args) => port.config.args = c.args
          /\ c.debug # None => (port.debug <=> Truthy(c.debug))
      BY <2>2, <2>3 DEF Alike, GetEnvBoolean
    <2>5. /\ o.given \ Unheard(o.given) = port.honours \cup port.warned
          /\ "toolHost" \in port.honours => port.tools # "none"
          /\ port.id \in AcpIds /\ Given(c.model) => port.label \in {c.model, "option"}
      <3>1. CASE id = CursorId
        <4>1. /\ port.honours = {} /\ port.warned = o.given \cap Ignored
          BY <2>1, <3>1 DEF PortFor, CursorPort
        <4>2. o.given \subseteq OptionNames /\ OptionNames \subseteq Ignored
          BY <2>1, OptionTypes DEF OptionNames, Ignored, IgnoredOfOld
        <4>3. port.id \notin AcpIds
          BY <2>1, <3>1, IdsAreDistinct
        <4>4. Unheard(o.given) = {}
          BY <2>1, <3>1 DEF Unheard
        <4> QED
          BY <4>1, <4>2, <4>3, <4>4
      <3>2. CASE id # CursorId
        <4>1. /\ port.honours = Routed(o.given) /\ port.warned = {}
              /\ port.tools = Advertised(o) /\ port.label = Label(id, Resolved(id, c), o)
          BY <2>1, <3>2 DEF PortFor, AcpPort
        <4>2. o.given \in SUBSET OptionNames
          BY <2>1, OptionTypes
        <4>3. Unheard(o.given) = IF "sessionPersistence" \in o.given THEN {}
                                 ELSE {"workspace", "resumeOnRestart"}
          BY <2>1, <3>2 DEF Unheard
        <4>4. o.given \ Unheard(o.given) = port.honours \cup port.warned
          BY <4>1, <4>2, <4>3, RoutedOptions
        <4>5. "toolHost" \in port.honours => port.tools # "none"
          BY <4>1, <4>2, RoutedOptions DEF Advertised
        <4> QED
          BY <2>1, <2>3, <4>1, <4>4, <4>5 DEF Label, Alike, Given
      <3> QED
        BY <3>1, <3>2
    <2> QED
      BY <1>1, <2>4, <2>5 DEF ConfigIsHonoured, c, o
  <1>2. HarnessInv => ConfigIsHonoured
    BY <1>1 DEF ConfigIsHonoured
  <1> QED
    BY <1>2, HarnessInvariant, PTL

-----------------------------------------------------------------------------
(* What a port makes of its settings                                         *)

\* A flag is given once, with the setting of that name, or not at all.
LEMMA FlagOperands ==
    ASSUME NEW r, NEW base, NEW flag \in DOMAIN r
    PROVE  Operands([base |-> base, flags |-> Flags(r)], flag) = Only(r[flag])
  <1> DEFINE fs == Flags(r)  args == [base |-> base, flags |-> fs]
  <1>1. args.flags = fs
    OBVIOUS
  <1>2. \A x : x \in {f[2] : f \in {g \in fs : g[1] = flag}} <=> Given(r[flag]) /\ x = r[flag]
    <2>1. ASSUME NEW g \in fs, g[1] = flag
          PROVE  Given(r[flag]) /\ g[2] = r[flag]
      BY <2>1 DEF Flags
    <2>2. ASSUME Given(r[flag])
          PROVE  /\ <<flag, r[flag]>> \in fs
                 /\ <<flag, r[flag]>>[1] = flag /\ <<flag, r[flag]>>[2] = r[flag]
      BY <2>2 DEF Flags
    <2> HIDE DEF fs
    <2> QED
      BY <2>1, <2>2
  <1> HIDE DEF fs
  <1>3. Operands(args, flag) = {f[2] : f \in {g \in fs : g[1] = flag}}
    BY <1>1 DEF Operands
  <1>4. {f[2] : f \in {g \in fs : g[1] = flag}} = Only(r[flag])
    BY <1>2 DEF Only
  <1> QED
    BY <1>3, <1>4 DEF fs

LEMMA PromptOperands ==
    ASSUME NEW s
    PROVE  /\ Operands(PromptArgs(s), "mode") = Only(PromptMode(s))
           /\ Operands(PromptArgs(s), "model") = Only(PromptModel(s))
           /\ Operands(PromptArgs(s), "trust") = Only(port.config.trust)
  <1> DEFINE r == [mode |-> PromptMode(s), model |-> PromptModel(s), trust |-> port.config.trust]
  <1>1. PromptArgs(s) = [base |-> port.config.args, flags |-> Flags(r)]
    BY DEF PromptArgs
  <1>2. /\ "mode" \in DOMAIN r /\ "model" \in DOMAIN r /\ "trust" \in DOMAIN r
        /\ r["mode"] = PromptMode(s) /\ r["model"] = PromptModel(s)
        /\ r["trust"] = port.config.trust
    OBVIOUS
  <1> HIDE DEF r
  <1> QED
    BY <1>1, <1>2, FlagOperands

LEMMA BuiltOperands ==
    ASSUME NEW c \in Configuration
    PROVE  /\ Operands(BuildArgs(CursorId, c), "mode") = Only(c.mode)
           /\ Operands(BuildArgs(CursorId, c), "model") = Only(c.model)
           /\ Operands(BuildArgs(CursorId, c), "trust") = Only(c.trust)
  <1> DEFINE D == DOMAIN c \cap (CursorFlags \cup {"mode"})
             r == [f \in D |-> c[f]]
  <1>1. BuildArgs(CursorId, c) = [base |-> BaseArgs(c), flags |-> Flags(r)]
    BY DEF BuildArgs
  <1>2. "mode" \in D /\ "model" \in D /\ "trust" \in D
    BY DEF Configuration, CursorFlags
  <1>3. DOMAIN r = D /\ \A f \in D : r[f] = c[f]
    OBVIOUS
  <1> HIDE DEF r, D
  <1> QED
    BY <1>1, <1>2, <1>3, FlagOperands

\* For any sessions, modes and models, in any order: a prompt's command line has
\* the mode and the model last asked for in its session, those of the config
\* where none was, and what setting a model reports is what the next prompt
\* uses (cursor.agent.port.ts).
THEOREM PromptsUseTheirSettings == Spec => []SettingsReachThePrompt
  <1>1. ASSUME HarnessInv, IsReply("prompt")
        PROVE  OwnSettingsOnly /\ PromptAgreesWithBuildArgs
    <2> DEFINE s == reply.session
    <2>1. /\ IsCursor /\ s \in Session /\ reply.args = PromptArgs(s)
          /\ settings[s].mode = ResolveMode(wished[s].mode)
          /\ settings[s].model = wished[s].model
      BY <1>1 DEF HarnessInv, ReplyInv, SettingInv
    <2>2. port.config \in Configuration /\ port.id = CursorId
      <3>1. port \in Port /\ port.id = CursorId
        BY <1>1, <2>1 DEF IsCursor, HarnessInv, FactoryTypeOK
      <3> QED
        BY <3>1 DEF Port
    <2> HIDE DEF s
    <2>3. /\ Operands(reply.args, "mode") = Only(PromptMode(s))
          /\ Operands(reply.args, "model") = Only(PromptModel(s))
          /\ Operands(reply.args, "trust") = Only(port.config.trust)
      BY <2>1, PromptOperands
    <2>4. OwnSettingsOnly
      BY <2>1, <2>3 DEF OwnSettingsOnly, PromptMode, PromptModel, s
    <2>5. ASSUME wished[s] = [mode |-> None, model |-> None],
                 NEW flag \in {"model", "mode", "trust"}
          PROVE  Operands(reply.args, flag) = Operands(BuildArgs(port.id, port.config), flag)
      <3>1. wished[s].mode = None /\ wished[s].model = None
        BY <2>5
      <3>2. settings[s].mode = None /\ settings[s].model = None
        BY <2>1, <3>1, NoneIsNoWord DEF ResolveMode
      <3>3. PromptMode(s) = port.config.mode /\ PromptModel(s) = port.config.model
        BY <3>2 DEF PromptMode, PromptModel
      <3> QED
        BY <2>2, <2>3, <3>3, BuiltOperands
    <2> QED
      BY <2>4, <2>5 DEF PromptAgreesWithBuildArgs, s
  <1>2. ASSUME HarnessInv, IsReply("options")
        PROVE  ReportedIsUsed
    BY <1>2, PromptOperands DEF HarnessInv, ReplyInv, ReportedIsUsed
  <1>3. HarnessInv => SettingsReachThePrompt
    BY <1>1, <1>2 DEF SettingsReachThePrompt, OwnSettingsOnly, ReportedIsUsed,
                      PromptAgreesWithBuildArgs
  <1> QED
    BY <1>3, HarnessInvariant, PTL

\* Whatever the options: no permission is granted but by the caller's handler,
\* and a tool offered on the client's own account is served (acp.client.ts).
THEOREM NoAnswerOfItsOwn == Spec => []AgentsAreAnswered
  <1>1. HarnessInv => AgentsAreAnswered
    BY DEF HarnessInv, ReplyInv
  <1> QED
    BY <1>1, HarnessInvariant, PTL
=============================================================================
