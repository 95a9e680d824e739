------------------------------ MODULE HarnessPort ------------------------------
(* What the port of a factory does with the settings it was given: the Cursor *)
(* port's session settings and the command line of its prompts                *)
(* (providers/cursor/cursor.agent.port.ts), and the ACP client's answers to   *)
(* the requests of its agent (runtime/acp.client.ts).                         *)
EXTENDS ProviderFactory

CONSTANTS
    Session,        \* the sessions of a Cursor port
    ModeIds,        \* the modes a caller may ask for
    Models,         \* the models a caller may select
    MaxSettings     \* bounds the settings made

VARIABLES
    calls,      \* the calls made so far
    settings,   \* per session: the mode and the model set
    wished,     \* history: per session, the last mode and model asked for
    steps,      \* the settings made so far
    reply       \* what the last step came to

portVars == <<settings, wished, steps, reply>>
allVars  == <<factoryVars, calls, portVars>>

Unset == [s \in Session |-> [mode |-> None, model |-> None]]

Init ==
    /\ FactoryInit
    /\ calls = 0
    /\ settings = Unset /\ wished = Unset /\ steps = 0 /\ reply = None

-----------------------------------------------------------------------------
(* The factory's operations; a new port starts without sessions              *)

Fresh == settings' = Unset /\ wished' = Unset /\ steps' = 0 /\ reply' = None

Populate ==
    /\ calls = 0
    /\ UseDefaults \/ \E id \in Ids \ registry : Register(id)
    /\ UNCHANGED calls
    /\ Fresh

\* Bounds: the calls, all made before their last port is used, whose sessions
\* no other call can reach.
Make ==
    /\ calls < MaxCalls
    /\ steps = 0 /\ reply = None
    /\ calls' = calls + 1
    /\ \E path \in Paths, id \in Ids, c \in Configs, o \in Options : Calls(path, id, c, o)
    /\ Fresh

-----------------------------------------------------------------------------
(* The Cursor port                                                           *)

IsCursor == port # None /\ port.id = CursorId

\* setSessionMode(): an unknown mode unsets the session's.
ResolveMode(m) ==
    CASE m \in {"auto", "full_access"}    -> "agent"
      [] m = "read_only"                  -> "ask"
      [] m \in {"agent", "plan", "ask"}   -> m
      [] OTHER                            -> None

\* The entries a setting of s goes to.  Mutant: the port has but one.
AnySession(s) == Session
Entries(s)    == {s}

Set(s, field, value) ==
    settings' = [t \in Session |->
        IF t \in Entries(s) THEN [settings[t] EXCEPT ![field] = value] ELSE settings[t]]

\* The model a session reports, and the one its prompts use.  Mutant: the
\* prompt takes a model that was set to nothing for one that was not set.
ModelOf(s)      == IF settings[s].model # None THEN settings[s].model ELSE port.config.model
ModelIfGiven(s) == IF Given(settings[s].model) THEN settings[s].model ELSE port.config.model
PromptModel(s)  == IF settings[s].model # None THEN settings[s].model ELSE port.config.model
PromptMode(s)   == IF settings[s].mode # None THEN settings[s].mode ELSE port.config.mode

SetMode(s, m) ==
    /\ Set(s, "mode", ResolveMode(m))
    /\ wished' = [wished EXCEPT ![s].mode = m]
    /\ reply' = None

SetModel(s, v) ==
    /\ Set(s, "model", v)
    /\ wished' = [wished EXCEPT ![s].model = v]
    /\ reply' = [kind |-> "options", session |-> s, model |-> ModelOf(s)']

Configure ==
    /\ IsCursor
    /\ steps < MaxSettings
    /\ steps' = steps + 1
    /\ \E s \in Session : (\E m \in ModeIds : SetMode(s, m)) \/ (\E v \in Models : SetModel(s, v))
    /\ UNCHANGED <<factoryVars, calls>>

\* The command line of a prompt of session s.
PromptArgs(s) ==
    [base |-> port.config.args,
     flags |-> Flags([mode |-> PromptMode(s), model |-> PromptModel(s), trust |-> port.config.trust])]

Prompt ==
    /\ IsCursor
    /\ \E s \in Session : reply' = [kind |-> "prompt", session |-> s, args |-> PromptArgs(s)]
    /\ UNCHANGED <<factoryVars, calls, settings, wished, steps>>

-----------------------------------------------------------------------------
(* The ACP client: the agent asks for a permission, or for a tool that the    *)
(* client has said it supports                                               *)

\* Mutant: without a handler the first option is taken.
Allow  == "allowed"
Cancel == "cancelled"

AgentAsks ==
    /\ port # None /\ port.id # CursorId
    /\ reply' \in
        {[kind |-> "permission",
          answer |-> IF "permissionHandler" \in port.honours THEN "asked" ELSE Cancel]}
        \cup IF port.tools = "none" THEN {}
             ELSE {[kind |-> "tool",
                    answer |-> IF "toolHost" \in port.honours THEN "served" ELSE "refused"]}
    /\ UNCHANGED <<factoryVars, calls, settings, wished, steps>>

Next == Populate \/ Make \/ Configure \/ Prompt \/ AgentAsks

Spec == Init /\ [][Next]_allVars

-----------------------------------------------------------------------------
(* Properties                                                                *)

IsReply(kind) == reply # None /\ reply.kind = kind

\* The operands of a flag in a command line: none or one.
Operands(args, flag) == {f[2] : f \in {g \in args.flags : g[1] = flag}}
Only(value) == IF Given(value) THEN {value} ELSE {}

\* A prompt runs under the settings last asked for in its own session and, for
\* what was never set there, under those of the config.
OwnSettingsOnly ==
    IsReply("prompt") =>
        LET w == wished[reply.session]
        IN  /\ Operands(reply.args, "mode") =
                  Only(IF ResolveMode(w.mode) = None THEN port.config.mode ELSE ResolveMode(w.mode))
            /\ Operands(reply.args, "model") =
                  Only(IF w.model = None THEN port.config.model ELSE w.model)

\* The model the port reports is the one the next prompt of the session uses.
ReportedIsUsed ==
    IsReply("options") =>
        Operands(PromptArgs(reply.session), "model") = Only(reply.model)

\* In a session without settings the prompt gives model, mode and trust as the
\* provider's CLI spec does for the same config.
PromptAgreesWithBuildArgs ==
    IsReply("prompt") /\ wished[reply.session] = [mode |-> None, model |-> None] =>
        \A flag \in {"model", "mode", "trust"} :
            Operands(reply.args, flag) = Operands(BuildArgs(port.id, port.config), flag)

\* Settings reach the command line of the prompts they were made for.
SettingsReachThePrompt == OwnSettingsOnly /\ ReportedIsUsed /\ PromptAgreesWithBuildArgs

\* No permission is granted unless the caller's own handler was asked, and a
\* tool the client advertises on its own account is served.
AgentsAreAnswered ==
    /\ IsReply("permission") =>
          reply.answer = IF "permissionHandler" \in last.options.given THEN "asked" ELSE "cancelled"
    /\ IsReply("tool") => reply.answer = "served" \/ port.tools = "stated"
=============================================================================
