----------------------------- MODULE MCHarnessPort -----------------------------
(* HarnessPort for TLC: one ACP provider, Cursor and one of the application's *)
(* own, with the configs and options that the properties tell apart.          *)
EXTENDS HarnessPort, TLC

Symmetry == Permutations(Session)

SmallWords ==
    {"", " ", "default", "option", "acp-agent", "agent", "ask", "plan", "auto", "full_access",
     "read_only", "config", "shell", "m1", "m2", "on", "yes", "no", "other"}

SmallShells ==
    [command : {None}, args : {"", " ", "shell"}, debug : {"", "yes"}]

Config(command, args, model, mode, trust, debug) ==
    [command |-> command, args |-> args, model |-> model, mode |-> mode, trust |-> trust,
     debug |-> debug]

SmallConfigs ==
    {None, Config("", None, None, None, None, None),
     Config("config", None, None, None, None, None),
     Config("config", "", "m1", "plan", "on", ""),
     Config("config", "config", "m1", None, "", "no"),
     Config("config", "config", "", "ask", None, "yes")}

SmallOptions ==
    {[given |-> {}, providerId |-> None],
     [given |-> {"sessionPersistence"}, providerId |-> None],
     [given |-> {"sessionPersistence", "workspace"}, providerId |-> ""],
     [given |-> {"sessionPersistence", "resumeOnRestart", "restartOptions"}, providerId |-> "other"],
     [given |-> {"workspace", "resumeOnRestart", "restartOptions"}, providerId |-> None],
     [given |-> {"toolHost", "modelId"}, providerId |-> None],
     [given |-> {"toolHost", "clientCapabilities", "permissionHandler"}, providerId |-> "other"],
     [given |-> {"clientCapabilities", "envelopeMode"}, providerId |-> None]}
=============================================================================
