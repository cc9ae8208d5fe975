------------------------------ MODULE AcpMethods ------------------------------
(***************************************************************************)
(* The arms of session/update and the params and results of every method   *)
(* (updates.hpp, methods.hpp), and all the types together.                 *)
(***************************************************************************)
EXTENDS AcpSchema, TLC

-----------------------------------------------------------------------------
(* updates.hpp *)

ChunkTypes ==
    LET Chunk == Record(<<Req("content", Ref("ContentBlock")), Opt("messageId", Str)>>)
    IN  [SU_UserMessageChunk |-> Chunk, SU_AgentMessageChunk |-> Chunk,
         SU_AgentThoughtChunk |-> Chunk]

UpdateTypes == [
    SU_Plan |-> Record(<<Req("entries", List(Ref("PlanEntry"))), Meta>>),
    SU_ToolCall |-> Alias(Ref("ToolCall")),
    SU_ToolCallUpdate |-> Alias(Ref("ToolCallUpdate")),
    SU_AvailableCommands |-> Record(<<
        Req("availableCommands", List(Ref("AvailableCommand"))), Meta>>),
    SU_CurrentMode |-> Record(<<Req("currentModeId", Str), Meta>>),
    SU_ConfigOptions |-> Record(<<Req("configOptions", List(Ref("ConfigOption"))), Meta>>),
    SU_SessionInfo |-> Record(<<Opt("title", Str), Opt("updatedAt", Str), Meta>>),
    SU_Usage |-> Record(<<Req("used", Num), Req("size", Num), Opt("cost", Ref("Cost"))>>),
    SU_Notice |-> Record(<<Req("severity", Open(<<"info", "warning", "error", "_custom">>)),
        Req("title", Str), Opt("description", Str), Meta>>),
    SU_Compaction |-> Record(<<Req("compactionId", Str),
        Req("status", Open(<<"in_progress", "completed", "failed", "cancelled">>)),
        Opt("summary", List(Ref("ContentBlock"))), Opt("error", Str), Meta>>),
    SU_CompactionSummaryChunk |-> Record(<<Req("compactionId", Str),
        Req("content", Ref("ContentBlock")), Meta>>)]

SessionUpdateType == [
    SessionUpdate |-> Tagged("sessionUpdate", <<
        Arm("SU_UserMessageChunk", "user_message_chunk"),
        Arm("SU_AgentMessageChunk", "agent_message_chunk"),
        Arm("SU_AgentThoughtChunk", "agent_thought_chunk"),
        Arm("SU_Plan", "plan"),
        Arm("SU_ToolCall", "tool_call"),
        Arm("SU_ToolCallUpdate", "tool_call_update"),
        Arm("SU_AvailableCommands", "available_commands_update"),
        Arm("SU_CurrentMode", "current_mode_update"),
        Arm("SU_ConfigOptions", "config_option_update"),
        Arm("SU_SessionInfo", "session_info_update"),
        Arm("SU_Usage", "usage_update"),
        Arm("SU_Notice", "notice"),
        Arm("SU_Compaction", "compaction_update"),
        Arm("SU_CompactionSummaryChunk", "compaction_summary_chunk")>>)]

-----------------------------------------------------------------------------
(* methods.hpp *)

kProtocolVersion == 1

InitializeTypes == [
    CancelRequestParams |-> Record(<<Req("id", Json), Meta>>),
    InitializeParams |-> Record(<<Def("protocolVersion", Num, kProtocolVersion),
        Def("clientCapabilities", Ref("ClientCapabilities"), ClientDefaults),
        Opt("clientInfo", Ref("ImplementationInfo")), Meta>>),
    InitializeResult |-> Record(<<Def("protocolVersion", Num, kProtocolVersion),
        Def("agentCapabilities", Ref("AgentCapabilities"), AgentDefaults),
        Opt("agentInfo", Ref("ImplementationInfo")),
        Def("authMethods", List(Ref("AuthMethod")), << >>), Meta>>),
    AuthenticateParams |-> Record(<<Req("methodId", Str), Meta>>)]

SessionTypes == [
    NewSessionParams |-> Record(<<Req("cwd", Str),
        Def("mcpServers", List(Ref("McpServer")), << >>),
        Opt("additionalDirectories", List(Str)), Meta>>),
    NewSessionResult |-> Record(<<Req("sessionId", Str),
        Opt("modes", Ref("SessionModeState")),
        Opt("configOptions", List(Ref("ConfigOption"))), Meta>>),
    LoadSessionParams |-> Record(<<Req("sessionId", Str), Req("cwd", Str),
        Def("mcpServers", List(Ref("McpServer")), << >>),
        Opt("additionalDirectories", List(Str)), Meta>>),
    ResumeSessionResult |-> Record(<<Opt("modes", Ref("SessionModeState")),
        Opt("configOptions", List(Ref("ConfigOption"))), Meta>>),
    CloseSessionParams |-> Record(<<Req("sessionId", Str), Meta>>),
    DeleteSessionParams |-> Record(<<Req("sessionId", Str), Meta>>),
    ListSessionsParams |-> Record(<<Opt("cwd", Str), Opt("cursor", Str), Meta>>),
    ListSessionsResult |-> Record(<<Def("sessions", List(Ref("SessionInfo")), << >>),
        Opt("nextCursor", Str), Meta>>)]

TurnTypes == [
    StopReason |-> Enum(<<"end_turn", "max_tokens", "max_turn_requests",
        "refusal", "cancelled">>),
    PromptParams |-> Record(<<Req("sessionId", Str),
        Req("prompt", List(Ref("ContentBlock"))), Meta>>),
    PromptResult |-> Record(<<Req("stopReason", Ref("StopReason")), Meta>>),
    CancelParams |-> Record(<<Req("sessionId", Str), Meta>>),
    SetModeParams |-> Record(<<Req("sessionId", Str), Req("modeId", Str), Meta>>),
    SetConfigOptionParams |-> Record(<<Req("sessionId", Str), Req("configId", Str),
        Req("value", Json), Meta>>),
    SetConfigOptionResult |-> Record(<<Req("configOptions", List(Ref("ConfigOption"))), Meta>>),
    SessionUpdateMsg |-> Record(<<Req("sessionId", Str),
        Req("update", Ref("SessionUpdate")), Meta>>)]

ClientSideTypes == [
    RequestPermissionParams |-> Record(<<Req("sessionId", Str),
        Req("toolCall", Ref("ToolCallUpdate")),
        Req("options", List(Ref("PermissionOption"))), Meta>>),
    RequestPermissionResult |-> Record(<<Req("outcome", Ref("RequestPermissionOutcome")), Meta>>),
    ReadTextFileParams |-> Record(<<Req("sessionId", Str), Req("path", Str),
        Opt("line", Num), Opt("limit", Num), Meta>>),
    ReadTextFileResult |-> Record(<<Req("content", Str), Meta>>),
    WriteTextFileParams |-> Record(<<Req("sessionId", Str), Req("path", Str),
        Req("content", Str), Meta>>)]

TerminalTypes == [
    CreateTerminalParams |-> Record(<<Req("sessionId", Str), Req("command", Str),
        Def("args", List(Str), << >>), Def("env", List(Ref("KeyValue")), << >>),
        Opt("cwd", Str), Opt("outputByteLimit", Num), Meta>>),
    CreateTerminalResult |-> Record(<<Req("terminalId", Str), Meta>>),
    TerminalRef |-> Record(<<Req("sessionId", Str), Req("terminalId", Str), Meta>>),
    TerminalExitStatus |-> Record(<<Opt("exitCode", Num), Opt("signal", Str), Meta>>),
    TerminalOutputResult |-> Record(<<Req("output", Str), Def("truncated", Bool, FALSE),
        Opt("exitStatus", Ref("TerminalExitStatus")), Meta>>)]

\* The schema: every type of the protocol.
AcpTypes ==
    AnnotationTypes @@ ResourceTypes @@ ContentTypes
    @@ ToolContentTypes @@ ToolCallTypes @@ PlanTypes @@ PermissionTypes
    @@ McpTypes @@ ModeTypes @@ ConfigTypes @@ CommandTypes @@ SessionInfoTypes
    @@ ClientCapTypes @@ AgentCapTypes @@ AuthTypes
    @@ ChunkTypes @@ UpdateTypes @@ SessionUpdateType
    @@ InitializeTypes @@ SessionTypes @@ TurnTypes @@ ClientSideTypes @@ TerminalTypes
=============================================================================
