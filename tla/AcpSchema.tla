------------------------------ MODULE AcpSchema ------------------------------
(***************************************************************************)
(* Every ACP type as its codec declares it: one table per section of the   *)
(* headers, one row per type.  A row names the wire key of each member in  *)
(* the order of the record<T>(...) call, how it is handled, and its type;  *)
(* the id newtypes of ids.hpp are strings on the wire.  Types whose codec  *)
(* is written by hand are Choice or Own here and their encode and decode   *)
(* functions are in AcpHandCodec.                                              *)
(***************************************************************************)
EXTENDS JsonCodec

-----------------------------------------------------------------------------
(* content.hpp *)

AnnotationTypes == [
    Role |-> Enum(<<"assistant", "user">>),
    Annotations |-> Record(<<Opt("audience", List(Ref("Role"))),
        Opt("lastModified", Str), Opt("priority", Num), Meta>>)]

ResourceTypes == [
    TextResource |-> Record(<<Req("uri", Str), Req("text", Str),
        Opt("mimeType", Str), Meta>>),
    BlobResource |-> Record(<<Req("uri", Str), Req("blob", Str),
        Opt("mimeType", Str), Meta>>),
    EmbeddedResource |-> Choice(<<"TextResource", "BlobResource">>)]

ContentTypes == [
    TextContent |-> Record(<<Req("text", Str),
        Opt("annotations", Ref("Annotations")), Meta>>),
    ImageContent |-> Record(<<Req("data", Str), Req("mimeType", Str),
        Opt("uri", Str), Opt("annotations", Ref("Annotations")), Meta>>),
    AudioContent |-> Record(<<Req("data", Str), Req("mimeType", Str),
        Opt("annotations", Ref("Annotations")), Meta>>),
    ResourceLinkContent |-> Record(<<Req("uri", Str), Req("name", Str),
        Opt("mimeType", Str), Opt("title", Str), Opt("description", Str),
        Opt("size", Num), Opt("annotations", Ref("Annotations")), Meta>>),
    ResourceContent |-> Record(<<Req("resource", Ref("EmbeddedResource")),
        Opt("annotations", Ref("Annotations")), Meta>>),
    ContentBlock |-> Tagged("type", <<Arm("TextContent", "text"),
        Arm("ImageContent", "image"), Arm("AudioContent", "audio"),
        Arm("ResourceLinkContent", "resource_link"),
        Arm("ResourceContent", "resource")>>)]

-----------------------------------------------------------------------------
(* tools.hpp *)

ToolContentTypes == [
    ToolKind |-> Enum(<<"read", "edit", "delete", "move", "search", "execute",
        "think", "fetch", "switch_mode", "other">>),
    ToolCallStatus |-> Enum(<<"pending", "in_progress", "completed", "failed">>),
    TCC_Content |-> Record(<<Req("content", Ref("ContentBlock")), Meta>>),
    TCC_Diff |-> Record(<<Req("path", Str), Opt("oldText", Str),
        Req("newText", Str), Meta>>),
    TCC_Terminal |-> Record(<<Req("terminalId", Str), Meta>>),
    ToolCallContent |-> Tagged("type", <<Arm("TCC_Content", "content"),
        Arm("TCC_Diff", "diff"), Arm("TCC_Terminal", "terminal")>>),
    ToolCallLocation |-> Record(<<Req("path", Str), Opt("line", Num), Meta>>)]

ToolCallTypes == [
    ToolCall |-> Record(<<Req("toolCallId", Str), Req("title", Str),
        Opt("name", Str), Def("kind", Ref("ToolKind"), "other"),
        Def("status", Ref("ToolCallStatus"), "pending"),
        Def("content", List(Ref("ToolCallContent")), << >>),
        Def("locations", List(Ref("ToolCallLocation")), << >>),
        Opt("rawInput", Json), Opt("rawOutput", Json), Meta>>),
    ToolCallUpdate |-> Record(<<Req("toolCallId", Str), Opt("title", Str),
        Opt("name", Str), Opt("kind", Ref("ToolKind")),
        Opt("status", Ref("ToolCallStatus")),
        Opt("content", List(Ref("ToolCallContent"))),
        Opt("locations", List(Ref("ToolCallLocation"))),
        Opt("rawInput", Json), Opt("rawOutput", Json), Meta>>)]

PlanTypes == [
    PlanEntryPriority |-> Enum(<<"high", "medium", "low">>),
    PlanEntryStatus |-> Enum(<<"pending", "in_progress", "completed">>),
    PlanEntry |-> Record(<<Req("content", Str),
        Def("priority", Ref("PlanEntryPriority"), "medium"),
        Def("status", Ref("PlanEntryStatus"), "pending"), Meta>>)]

PermissionTypes == [
    PermissionOptionKind |-> Enum(<<"allow_once", "allow_always",
        "reject_once", "reject_always">>),
    PermissionOption |-> Record(<<Req("optionId", Str), Req("name", Str),
        Def("kind", Ref("PermissionOptionKind"), "allow_once"), Meta>>),
    PO_Cancelled |-> Own(<< >>),
    PO_Selected |-> Record(<<Req("optionId", Str), Meta>>),
    RequestPermissionOutcome |-> Tagged("outcome",
        <<Arm("PO_Cancelled", "cancelled"), Arm("PO_Selected", "selected")>>)]

-----------------------------------------------------------------------------
(* session_types.hpp *)

McpTypes == [
    KeyValue |-> Record(<<Req("name", Str), Req("value", Str)>>),
    StdioMcpServer |-> Record(<<Req("name", Str), Req("command", Str),
        Def("args", List(Str), << >>), Def("env", List(Ref("KeyValue")), << >>)>>),
    HttpMcpServer |-> Record(<<Req("name", Str), Req("url", Str),
        Def("headers", List(Ref("KeyValue")), << >>)>>),
    SseMcpServer |-> Record(<<Req("name", Str), Req("url", Str),
        Def("headers", List(Ref("KeyValue")), << >>)>>),
    McpServer |-> Choice(<<"StdioMcpServer", "HttpMcpServer", "SseMcpServer">>)]

ModeTypes == [
    SessionMode |-> Record(<<Req("id", Str), Req("name", Str),
        Opt("description", Str), Meta>>),
    SessionModeState |-> Record(<<Req("currentModeId", Str),
        Req("availableModes", List(Ref("SessionMode")))>>)]

\* ConfigOption's currentBool has no wire key of its own: it is written under
\* "currentValue", as is currentValue.
ConfigTypes == [
    ConfigSelectOption |-> Record(<<Req("value", Str), Req("name", Str),
        Opt("description", Str), Meta>>),
    ConfigSelectGroup |-> Record(<<Req("group", Str), Req("name", Str),
        Req("options", List(Ref("ConfigSelectOption"))), Meta>>),
    CSO_Ungrouped |-> Alias(List(Ref("ConfigSelectOption"))),
    CSO_Grouped |-> Alias(List(Ref("ConfigSelectGroup"))),
    ConfigSelectOptions |-> Choice(<<"CSO_Ungrouped", "CSO_Grouped">>),
    ConfigOption |-> Own(<<Req("id", Str), Req("name", Str),
        Opt("description", Str), Opt("category", Str),
        Def("type", Open(<<"select", "boolean", "_custom">>), "select"),
        Req("currentValue", Str), Field("member", "currentBool", Bool, FALSE),
        Field("member", "options", Ref("ConfigSelectOptions"), <<"CSO_Ungrouped", << >>>>),
        Meta>>)]

CommandTypes == [
    UnstructuredCommandInput |-> Record(<<Req("hint", Str), Meta>>),
    AvailableCommandInput |-> Choice(<<"UnstructuredCommandInput">>),
    AvailableCommand |-> Record(<<Req("name", Str), Req("description", Str),
        Opt("input", Ref("AvailableCommandInput")), Meta>>)]

SessionInfoTypes == [
    Cost |-> Record(<<Req("amount", Num), Req("currency", Str)>>),
    SessionInfo |-> Record(<<Req("sessionId", Str), Req("cwd", Str),
        Opt("additionalDirectories", List(Str)), Opt("title", Str),
        Opt("updatedAt", Str), Meta>>)]

-----------------------------------------------------------------------------
(* caps.hpp *)

NoFs == [readTextFile |-> FALSE, writeTextFile |-> FALSE]

NoSession == [compaction |-> FALSE, notices |-> FALSE, booleanConfig |-> FALSE,
              _meta |-> EmptyObj]

\* The members that are set by the presence of an object, and the three that
\* ClientCapabilities adds to its record, have no wire key of their own.
ClientCapTypes == [
    FsCapabilities |-> Record(<<Def("readTextFile", Bool, FALSE),
        Def("writeTextFile", Bool, FALSE)>>),
    ClientSessionCapabilities |-> Own(<<Field("member", "compaction", Bool, FALSE),
        Field("member", "notices", Bool, FALSE),
        Field("member", "booleanConfig", Bool, FALSE), Meta>>),
    ClientCapabilities |-> Own(<<Def("fs", Ref("FsCapabilities"), NoFs),
        Def("terminal", Bool, FALSE),
        Def("session", Ref("ClientSessionCapabilities"), NoSession), Meta,
        Field("member", "authTerminal", Bool, FALSE),
        Field("member", "elicitForm", Bool, FALSE),
        Field("member", "elicitUrl", Bool, FALSE)>>)]

ClientDefaults == [fs |-> NoFs, terminal |-> FALSE, session |-> NoSession,
    _meta |-> EmptyObj, authTerminal |-> FALSE, elicitForm |-> FALSE,
    elicitUrl |-> FALSE]

NoPrompt == [image |-> FALSE, audio |-> FALSE, embeddedContext |-> FALSE]

NoMcp == [http |-> FALSE, sse |-> FALSE]

NoAuth == [logout |-> Nothing]

NoSessionFeatures == [delete |-> Nothing, resume |-> Nothing, close |-> Nothing,
    list |-> Nothing, additionalDirectories |-> Nothing, fork |-> Nothing]

AgentCapTypes == [
    PromptCapabilities |-> Record(<<Def("image", Bool, FALSE),
        Def("audio", Bool, FALSE), Def("embeddedContext", Bool, FALSE)>>),
    McpCapabilities |-> Record(<<Def("http", Bool, FALSE), Def("sse", Bool, FALSE)>>),
    AuthCapabilities |-> Record(<<Opt("logout", UnitType)>>),
    SessionCapabilities |-> Record(<<Opt("delete", UnitType),
        Opt("resume", UnitType), Opt("close", UnitType), Opt("list", UnitType),
        Opt("additionalDirectories", UnitType), Opt("fork", UnitType)>>),
    AgentCapabilities |-> Record(<<Def("loadSession", Bool, FALSE),
        Def("promptCapabilities", Ref("PromptCapabilities"), NoPrompt),
        Def("mcpCapabilities", Ref("McpCapabilities"), NoMcp),
        Def("auth", Ref("AuthCapabilities"), NoAuth),
        Def("sessionCapabilities", Ref("SessionCapabilities"), NoSessionFeatures),
        Meta>>)]

AgentDefaults == [loadSession |-> FALSE, promptCapabilities |-> NoPrompt,
    mcpCapabilities |-> NoMcp, auth |-> NoAuth,
    sessionCapabilities |-> NoSessionFeatures, _meta |-> EmptyObj]

\* `env` is a map from names to strings, an object on the wire.
AuthTypes == [
    AuthMethod |-> Own(<<Req("id", Str), Req("name", Str), Opt("description", Str),
        Def("type", Open(<<"agent", "terminal", "_custom">>), "agent"),
        Field("member", "args", List(Str), << >>),
        Field("member", "env", <<"map">>, << >>), Meta>>),
    ImplementationInfo |-> Record(<<Req("name", Str), Opt("title", Str),
        Opt("version", Str)>>)]
=============================================================================
