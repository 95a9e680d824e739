---------------------------- MODULE ProviderFactory ----------------------------
(* The registry, the factories over it and the port one call makes            *)
(* (runtime/registry.ts, provider.factory.ts, provider.client.factory.ts,     *)
(* acp.runtime.ts, the adapters and bootstrap.ts).  Every call runs to its    *)
(* end in one step; what carries over from one to the next are the registry   *)
(* and the metrics.  The environment of the process is chosen at the start.   *)
EXTENDS ProviderConfig

CONSTANTS
    Shells,     \* the environments: [command, args, debug]
    Configs,    \* what callers pass as a config, None among them
    Options,    \* the runtime options: the names of those given, and the providerId
    MaxCalls    \* bounds the calls

\* The options that every provider's createHarness accepts beside the providerId.
OptionNames == {"clientCapabilities", "permissionHandler", "toolHost", "envelopeMode", "modelId",
                "sessionPersistence", "workspace", "restartOptions", "resumeOnRestart"}

ASSUME InputsAreTyped ==
    /\ Shells \subseteq [command : Setting, args : Setting, debug : Setting]
    /\ Configs \subseteq Configuration \cup {None}
    /\ Options \subseteq [given : SUBSET OptionNames, providerId : Setting \cup Ids]

Paths     == {"createRuntime", "getClient", "createHarness"}
Outcomes  == {"unknown id", "bad config", "no key", "port"}
Collector == [invocations : Nat, failed : BOOLEAN, timed : BOOLEAN]
Call      == [path : Paths, id : Ids, config : Configs, options : Options, outcome : Outcomes]
Port      == [id : Ids, config : Configuration, debug : BOOLEAN, honours : SUBSET OptionNames,
              warned : SUBSET OptionNames, key : Setting \cup Ids,
              tools : {"stated", "all", "none"}, label : Setting]

ASSUME NoneIsNoRecord == None \notin Collector \cup Call \cup Port

VARIABLES
    shell,      \* the ambient environment
    registry,   \* the ids registered
    metrics,    \* the collector of each id, None without one
    last,       \* the last call and what it came to
    port,       \* the port it returned, or None
    tally       \* history: the calls for each registered id

factoryVars == <<shell, registry, metrics, last, port, tally>>

FactoryInit ==
    /\ shell \in Shells
    /\ registry = {}
    /\ metrics = [id \in Ids |-> None]
    /\ last = None
    /\ port = None
    /\ tally = [id \in Ids |-> 0]

-----------------------------------------------------------------------------
(* The registry                                                              *)

Register(id) ==
    /\ registry' = registry \cup {id}
    /\ UNCHANGED <<shell, metrics, last, port, tally>>

\* getDefaultRegistry() makes its registry on the first call.
UseDefaults ==
    /\ registry = {}
    /\ registry' = Provider
    /\ UNCHANGED <<shell, metrics, last, port, tally>>

\* Mutant: the ids of the enum, registered or not.
ListEnum      == Provider
ListProviders == Provider \cap registry

-----------------------------------------------------------------------------
(* Making a port                                                             *)

\* Without an id of the caller's the provider's own serves.  Mutant: only for
\* the bundled providers.
DefaultIfBundled(id) == IF id \in Provider THEN id ELSE None
DefaultId(id)        == id

KeyOf(id, o) == IF o.providerId = None THEN DefaultId(id) ELSE o.providerId

\* A session store needs a key; Cursor has no use for either.
LacksKey(id, o) ==
    id # CursorId /\ "sessionPersistence" \in o.given /\ ~Given(KeyOf(id, o))

\* The options the Cursor adapter warns about.  Mutant: the list predates the
\* tool host.
IgnoredOfOld == {"sessionPersistence", "workspace", "resumeOnRestart", "restartOptions",
                 "envelopeMode", "modelId", "clientCapabilities", "permissionHandler"}
Ignored == IgnoredOfOld \cup {"toolHost"}

\* A tool host is advertised unless the caller states the capabilities.
\* Mutant: the default is no capability.
NothingByDefault(o) == IF "clientCapabilities" \in o.given THEN "stated" ELSE "none"
Advertised(o) ==
    IF "clientCapabilities" \in o.given THEN "stated"
    ELSE IF "toolHost" \in o.given THEN "all" ELSE "none"

\* The bundled adapters resolve the config; one of the application's own hands
\* it to createAcpCliHarnessRuntime as it was parsed.
Resolved(id, c) ==
    IF id \in OwnIds THEN Parse(c) ELSE ResolveBaseConfig(Parse(c), shell)

\* The model name on the envelopes of a stream.
Label(id, c, o) ==
    IF "modelId" \in o.given THEN "option"
    ELSE IF id \in AcpIds /\ c.model # None THEN c.model ELSE "acp-agent"

CursorPort(c, o) ==
    [id |-> CursorId, config |-> Resolved(CursorId, c), debug |-> GetEnvBoolean(c.debug, shell.debug),
     honours |-> {}, warned |-> o.given \cap Ignored, key |-> None, tools |-> "none", label |-> None]

\* Where the ACP runtime hands an option on.  The stream layer gets two, the lifecycle
\* layer the restart options and, with a session store, what belongs to the store; the
\* client gets the rest.  Mutant: the envelope mode is taken out of the rest and goes nowhere.
LabelOnly        == {"modelId"}
StreamOptions    == {"envelopeMode", "modelId"}
StoreOptions     == {"sessionPersistence", "workspace", "resumeOnRestart"}
LifecycleOptions == {"restartOptions"}
ClientOptions    ==
    OptionNames \ {"envelopeMode", "modelId", "sessionPersistence", "workspace",
                   "restartOptions", "resumeOnRestart"}

\* Mutant: the store is handed on, and what belongs to it is not.
StoreAlone(given)  == given \cap {"sessionPersistence"}
Persistence(given) == IF "sessionPersistence" \in given THEN given \cap StoreOptions ELSE {}

Routed(given) ==
    (given \cap (StreamOptions \cup LifecycleOptions \cup ClientOptions)) \cup Persistence(given)

AcpPort(id, c, o) ==
    [id |-> id, config |-> Resolved(id, c), debug |-> GetEnvBoolean(c.debug, shell.debug),
     honours |-> Routed(o.given), warned |-> {},
     key |-> IF "sessionPersistence" \in o.given THEN KeyOf(id, o) ELSE None,
     tools |-> Advertised(o), label |-> Label(id, Resolved(id, c), o)]

PortFor(id, c, o) == IF id = CursorId THEN CursorPort(c, o) ELSE AcpPort(id, c, o)

\* What a call comes to.  getClient() also refuses an id the enum lacks.
Outcome(path, id, c, o) ==
    IF id \notin registry \/ (path = "getClient" /\ id \notin Provider) THEN "unknown id"
    ELSE IF ~Accepts(c) THEN "bad config"
    ELSE IF LacksKey(id, o) THEN "no key" ELSE "port"

NoMetrics == [invocations |-> 0, failed |-> FALSE, timed |-> FALSE]
Metrics(id) == IF metrics[id] = None THEN NoMetrics ELSE metrics[id]

\* The last error is of the last call.  Mutant: a success leaves it.
KeepError(m)     == [invocations |-> m.invocations + 1, failed |-> m.failed, timed |-> TRUE]
RecordSuccess(m) == [invocations |-> m.invocations + 1, failed |-> FALSE, timed |-> TRUE]
RecordFailure(m) == [invocations |-> m.invocations + 1, failed |-> TRUE, timed |-> FALSE]

\* The places at which createRuntime() records a call: the config is missing, it does not
\* parse, the harness is made or is not.  Mutant: the parsing is inside the try, whose catch
\* records its failure again.
Required(c, m) == IF c = None THEN RecordFailure(m) ELSE m
ParsedInTry(c, m) ==
    IF c # None /\ ~Accepts(c) THEN RecordFailure(RecordFailure(m)) ELSE m
Parsed(c, m) == IF c # None /\ ~Accepts(c) THEN RecordFailure(m) ELSE m
Harnessed(id, c, o, m) ==
    IF ~Accepts(c) THEN m ELSE IF LacksKey(id, o) THEN RecordFailure(m) ELSE RecordSuccess(m)
Recorded(id, c, o) == Harnessed(id, c, o, Parsed(c, Required(c, Metrics(id))))

\* Only the calls through a ProviderFactory are measured, once its registry
\* knows the id.
Measured(path, outcome) == path \in {"createRuntime", "getClient"} /\ outcome # "unknown id"

Calls(path, id, c, o) ==
    LET outcome == Outcome(path, id, c, o)
    IN  /\ last' = [path |-> path, id |-> id, config |-> c, options |-> o, outcome |-> outcome]
        /\ port' = IF outcome = "port" THEN PortFor(id, c, o) ELSE None
        /\ IF Measured(path, outcome)
           THEN /\ metrics' = [metrics EXCEPT ![id] = Recorded(id, c, o)]
                /\ tally' = [tally EXCEPT ![id] = @ + 1]
           ELSE UNCHANGED <<metrics, tally>>
        /\ UNCHANGED <<shell, registry>>

-----------------------------------------------------------------------------
(* Properties                                                                *)

\* What the factories keep and return: collectors, the last call and its port.
FactoryTypeOK ==
    /\ shell \in Shells
    /\ registry \subseteq Ids
    /\ metrics \in [Ids -> Collector \cup {None}]
    /\ last \in Call \cup {None}
    /\ port \in Port \cup {None}
    /\ tally \in [Ids -> Nat]

\* The metrics of an id tell the history of its calls: how many there were,
\* and of the last measured one either that it failed or how long it took.
MetricsTellTheCalls ==
    \A id \in Ids :
        /\ metrics[id] = None <=> tally[id] = 0
        /\ metrics[id] # None =>
              /\ metrics[id].invocations = tally[id]
              /\ metrics[id].failed # metrics[id].timed
              /\ last.id = id /\ Measured(last.path, last.outcome) =>
                    (metrics[id].failed <=> port = None)

\* A documented path serves what it lists: with a config the schema accepts a
\* registered id gets a port, a session store included, unless the caller
\* passes an empty id; its sessions are then kept under the provider's own.
Listed(path) == IF path = "getClient" THEN ListProviders ELSE registry

DocumentedCallsAreServed ==
    last # None /\ Accepts(last.config) /\ last.options.providerId # "" =>
        /\ last.id \in Listed(last.path) => port # None
        /\ port # None /\ last.options.providerId = None => port.key \in {None, port.id}

\* What the caller configured is what the port runs with, whatever the environment holds.
\* Each option reaches the layer it is for or is warned about, but for two: without a session
\* store an ACP port ignores a workspace and a resumeOnRestart, and says nothing.  A tool host
\* is never left unreachable, and a model names the envelopes unless another name is given.
Unheard(given) ==
    IF port.id = CursorId \/ "sessionPersistence" \in given THEN {}
    ELSE {"workspace", "resumeOnRestart"}

ConfigIsHonoured ==
    port # None =>
        /\ port.config.command = last.config.command
        /\ Given(last.config.args) => port.config.args = last.config.args
        /\ last.config.debug # None => (port.debug <=> Truthy(last.config.debug))
        /\ last.options.given \ Unheard(last.options.given) = port.honours \cup port.warned
        /\ "toolHost" \in port.honours => port.tools # "none"
        /\ port.id \in AcpIds /\ Given(last.config.model) =>
              port.label \in {last.config.model, "option"}
=============================================================================
