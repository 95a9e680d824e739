----------------------------- MODULE ProviderConfig -----------------------------
(* What becomes of a provider's configuration on its way to a command line:   *)
(* the schemas (runtime/config.ts, the providers' schema.ts), the environment *)
(* reader (runtime/env.reader.ts), the precedence rule (config.resolve.ts)    *)
(* and the arguments the CLI specs build (cli/arg.builder.ts).                *)
(*                                                                            *)
(* A setting is None when it is undefined, "" when it is empty and else a     *)
(* word, "on" for a switch; where words differ only by who chose them they    *)
(* are "config", "shell" and "default".                                       *)
EXTENDS Naturals

CONSTANTS
    None,       \* undefined
    AcpIds,     \* the bundled providers that speak ACP
    CursorId,   \* the bundled provider that does not
    OwnIds,     \* providers of the application's own, unknown to the enum
    Word        \* the words a setting may be, those the code itself names among them

ASSUME IdsAreDistinct ==
    /\ CursorId \notin AcpIds \cup OwnIds
    /\ AcpIds \cap OwnIds = {}
    /\ {None, ""} \cap (AcpIds \cup OwnIds \cup {CursorId}) = {}

ASSUME NoneIsNoWord ==
    /\ None \notin Word
    /\ {"", "default", "option", "acp-agent"} \subseteq Word
    /\ {"agent", "ask", "plan", "auto", "full_access", "read_only"} \subseteq Word

Provider == AcpIds \cup {CursorId}
Ids      == Provider \cup OwnIds

Setting       == Word \cup {None}
Configuration == [command : Setting, args : Setting, model : Setting, mode : Setting,
                  trust : Setting, debug : Setting]

-----------------------------------------------------------------------------
(* The environment reader                                                    *)

Given(x)  == x \notin {None, ""}
Truthy(x) == x = "yes"

GetEnvString(ambient, default) == IF Given(ambient) THEN ambient ELSE default

\* A given override is authoritative, even an empty one.  Mutant: the empty
\* one falls through to the ambient environment, as it does for strings.
GetBooleanIfGiven(override, ambient) ==
    IF Given(override) THEN Truthy(override) ELSE Truthy(ambient)
GetEnvBoolean(override, ambient) ==
    IF override # None THEN Truthy(override) ELSE Truthy(ambient)

-----------------------------------------------------------------------------
(* Schemas and precedence                                                    *)

\* A config names its command; its arguments default to an empty list.
Accepts(c) == c # None /\ Given(c.command)
Parse(c)   == IF c.args = None THEN [c EXCEPT !.args = ""] ELSE c

\* Arguments of the config unless there are none, else those of the shell
\* unless they are blank, else the defaults.  Mutant: the shell comes first.
ShellArgsFirst(c, shell) == GetEnvString(shell.args, IF Given(c.args) THEN c.args ELSE "default")
ResolveArgs(c, shell) ==
    IF Given(c.args) THEN c.args
    ELSE IF shell.args \in {None, "", " "} THEN "default" ELSE shell.args

ResolveBaseConfig(c, shell) ==
    [c EXCEPT !.command = IF c.command = None THEN GetEnvString(shell.command, "default") ELSE @,
              !.args = ResolveArgs(c, shell)]

-----------------------------------------------------------------------------
(* Command lines, as the set of the flags given with their operands          *)

\* buildGenericArgs passes on what is set and not empty.
Flags(settings) ==
    {<<f, settings[f]>> : f \in {g \in DOMAIN settings : Given(settings[g])}}

\* The options mapped to flags: those that the maps of all ACP providers share, and Cursor's.
\* Claude's map and Codex's have more, of which a Configuration has none.
AcpFlags    == {"model", "verbose", "print"}
CursorFlags == {"model", "outputFormat", "trust", "sandbox", "workspace", "resume", "print"}

BaseArgs(c) == IF c.args = None THEN "default" ELSE c.args

\* Only Cursor has a mode, which its own builder adds.
BuildArgs(id, c) ==
    LET mapped == IF id = CursorId THEN CursorFlags \cup {"mode"} ELSE AcpFlags
    IN  [base |-> BaseArgs(c), flags |-> Flags([f \in DOMAIN c \cap mapped |-> c[f]])]
=============================================================================
