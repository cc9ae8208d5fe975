----------------------------- MODULE AcpProtocol -----------------------------
(***************************************************************************)
(* The method table of protocol.hpp: the wire name of every method, who    *)
(* may call it and the types of its params and result (their members are   *)
(* in AcpSchema and AcpMethods).  And what the capability structs of       *)
(* caps.hpp stand for: which of these a peer has to have advertised before *)
(* it is sent one.                                                         *)
(***************************************************************************)

Row(name, params, result) == [name |-> name, params |-> params, result |-> result]

\* namespace to_agent: the client calls these on the agent.
ToAgentMethods == {
    Row("initialize", "InitializeParams", "InitializeResult"),
    Row("authenticate", "AuthenticateParams", "Unit"),
    Row("logout", "Unit", "Unit"),
    Row("session/new", "NewSessionParams", "NewSessionResult"),
    Row("session/load", "LoadSessionParams", "ResumeSessionResult"),
    Row("session/resume", "LoadSessionParams", "ResumeSessionResult"),
    Row("session/fork", "LoadSessionParams", "NewSessionResult"),
    Row("session/close", "CloseSessionParams", "Unit"),
    Row("session/delete", "DeleteSessionParams", "Unit"),
    Row("session/list", "ListSessionsParams", "ListSessionsResult"),
    Row("session/prompt", "PromptParams", "PromptResult"),
    Row("session/set_mode", "SetModeParams", "Unit"),
    Row("session/set_config_option", "SetConfigOptionParams", "SetConfigOptionResult")}

\* namespace to_client: the agent calls these on the client.
ToClientMethods == {
    Row("session/request_permission", "RequestPermissionParams", "RequestPermissionResult"),
    Row("fs/read_text_file", "ReadTextFileParams", "ReadTextFileResult"),
    Row("fs/write_text_file", "WriteTextFileParams", "Unit"),
    Row("terminal/create", "CreateTerminalParams", "CreateTerminalResult"),
    Row("terminal/output", "TerminalRef", "TerminalOutputResult"),
    Row("terminal/wait_for_exit", "TerminalRef", "TerminalExitStatus"),
    Row("terminal/kill", "TerminalRef", "Unit"),
    Row("terminal/release", "TerminalRef", "Unit"),
    Row("elicitation/create", "Json", "Json")}

NamesOf(rows) == {r.name : r \in rows}

\* The requests p may make, and the notifications it may send.
Callable(p) == NamesOf(IF p = "client" THEN ToAgentMethods ELSE ToClientMethods)

Sendable(p) ==
    {IF p = "client" THEN "session/cancel" ELSE "session/update", "$/cancel_request"}

-----------------------------------------------------------------------------
(***************************************************************************)
(* Capabilities.  A feature is a member of ClientCapabilities or of        *)
(* AgentCapabilities that is false, or absent, by default.                 *)
(***************************************************************************)
ClientFeature ==
    {"fs.readTextFile", "fs.writeTextFile", "terminal", "session.compaction",
     "session.notices", "session.configOptions.boolean", "auth.terminal",
     "elicitation.form", "elicitation.url"}

AgentFeature ==
    {"loadSession", "promptCapabilities.image", "promptCapabilities.audio",
     "promptCapabilities.embeddedContext", "mcpCapabilities.http", "mcpCapabilities.sse",
     "auth.logout", "sessionCapabilities.delete", "sessionCapabilities.resume",
     "sessionCapabilities.close", "sessionCapabilities.list",
     "sessionCapabilities.additionalDirectories", "sessionCapabilities.fork"}

\* What each method, and each arm of session/update, needs the receiver to
\* have advertised; one that is not listed may always be sent.
Gates == {
    <<"session/load", "loadSession">>, <<"logout", "auth.logout">>,
    <<"session/resume", "sessionCapabilities.resume">>,
    <<"session/fork", "sessionCapabilities.fork">>,
    <<"session/close", "sessionCapabilities.close">>,
    <<"session/delete", "sessionCapabilities.delete">>,
    <<"session/list", "sessionCapabilities.list">>,
    <<"fs/read_text_file", "fs.readTextFile">>,
    <<"fs/write_text_file", "fs.writeTextFile">>,
    <<"terminal/create", "terminal">>, <<"terminal/output", "terminal">>,
    <<"terminal/wait_for_exit", "terminal">>, <<"terminal/kill", "terminal">>,
    <<"terminal/release", "terminal">>, <<"elicitation/create", "elicitation.form">>,
    <<"SU_Notice", "session.notices">>, <<"SU_Compaction", "session.compaction">>,
    <<"SU_CompactionSummaryChunk", "session.compaction">>}

Needs(m) == {g[2] : g \in {x \in Gates : x[1] = m}}
=============================================================================
