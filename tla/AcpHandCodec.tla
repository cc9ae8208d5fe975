----------------------------- MODULE AcpHandCodec -----------------------------
(***************************************************************************)
(* The codecs that acp-cpp writes by hand, where record<T> and sum_tagged  *)
(* do not fit the wire form: sums that are told apart by their members,    *)
(* and structs whose fields are not one to one the members of an object.   *)
(* A decode function is partial: its value is {} where the code throws and *)
(* {v} where it returns v.  A member of another type is encoded and        *)
(* decoded by the caller.                                                  *)
(***************************************************************************)
EXTENDS JsonCodec

-----------------------------------------------------------------------------
(***************************************************************************)
(* nlohmann's accessors.                                                   *)
(***************************************************************************)
\* A fault, like those below: j.at(k) where j.value(k, d) is meant.
StringNeeded(j, k, d) == IF Holds(j, k, "str") THEN Just(At(j, k)[2]) ELSE {}

\* j.value(k, d) for a string: d if k is absent, a throw if it is not a string.
StringOr(j, k, d) ==
    IF ~Has(j, k) THEN Just(d)
    ELSE IF Holds(j, k, "str") THEN Just(At(j, k)[2]) ELSE {}

\* The Maybe<std::string> that the hand-written decoders read.
LenientString(j, k) == IF Holds(j, k, "str") THEN Just(At(j, k)[2]) ELSE Nothing

AllStrings(f) == \A x \in DOMAIN f : f[x][1] = "str"

Strings(f) == [x \in DOMAIN f |-> f[x][2]]

-----------------------------------------------------------------------------
(***************************************************************************)
(* Faulty variants of single operations, one for each way the properties   *)
(* could fail.  No specification uses them; each shows that a property     *)
(* notices the fault it is there for.                                      *)
(***************************************************************************)
\* The two remote transports are labelled as each other.
MarkOtherTransport(arm, j) ==
    CASE arm = "StdioMcpServer" -> j
      [] arm = "HttpMcpServer"  -> With(j, "type", JStr("sse"))
      [] arm = "SseMcpServer"   -> With(j, "type", JStr("http"))

\* A resource is text only if it has no member that a text resource has not.
PickClosedResource(j) ==
    IF DOMAIN j[2] \subseteq {"uri", "text", "mimeType", "_meta"} THEN {"TextResource"}
    ELSE IF Has(j, "blob") THEN {"BlobResource"} ELSE {}

\* A login without a name gets an empty one.
DecodeNameless(j) ==
    IF /\ Holds(j, "id", "str")
       /\ StringOr(j, "type", "agent") # {}
    THEN {[id |-> At(j, "id")[2], name |-> IF Holds(j, "name", "str") THEN At(j, "name")[2] ELSE "",
           description |-> LenientString(j, "description"),
           type |-> The(StringOr(j, "type", "agent")), args |-> << >>, env |-> << >>,
           _meta |-> LenientMeta(j)]}
    ELSE {}

\* The metadata of the session capabilities is not written.
EncodeWithoutMeta(c) ==
    ObjOf(When(c.compaction, "compaction", EmptyObj)
          \cup When(c.notices, "notices", EmptyObj)
          \cup When(c.booleanConfig, "configOptions", ObjOf({<<"boolean", EmptyObj>>})))

\* Support for compactions is taken for support for notices.
DecodeOneFlag(j) ==
    {[compaction |-> Holds(j, "compaction", "obj"),
      notices |-> Holds(j, "compaction", "obj"), booleanConfig |-> FALSE,
      _meta |-> LenientMeta(j)]}

\* One mode of elicitation hides the other.
AddOneElicitation(c, j) ==
    JObj(Over(j[2], ObjOf(
        When(c.authTerminal, "auth", ObjOf({<<"terminal", JBool(TRUE)>>}))
        \cup When(c.elicitForm, "elicitation", ObjOf({<<"form", EmptyObj>>}))
        \cup When(c.elicitUrl /\ ~c.elicitForm, "elicitation",
                  ObjOf({<<"url", EmptyObj>>})))[2]))

-----------------------------------------------------------------------------
(***************************************************************************)
(* Sums without a tag of their own: what their encoder adds to the arm's   *)
(* object, and which arm their decoder picks.                              *)
(***************************************************************************)
MarkMcpServer(arm, j) ==
    CASE arm = "StdioMcpServer" -> j
      [] arm = "HttpMcpServer"  -> With(j, "type", JStr("http"))
      [] arm = "SseMcpServer"   -> With(j, "type", JStr("sse"))

\* Any other string, like no type at all, is taken for stdio.
PickMcpServer(j) ==
    IF ~IsObj(j) THEN {}
    ELSE {CASE type = "http" -> "HttpMcpServer"
            [] type = "sse"  -> "SseMcpServer"
            [] OTHER         -> "StdioMcpServer" : type \in StringOr(j, "type", "stdio")}

PickEmbeddedResource(j) ==
    IF Has(j, "text") THEN {"TextResource"}
    ELSE IF Has(j, "blob") THEN {"BlobResource"} ELSE {}

\* Grouped iff the first element has a "group" key.
PickConfigSelectOptions(j) ==
    IF j[1] # "arr" THEN {}
    ELSE IF j[2] # << >> /\ Has(j[2][1], "group") THEN {"CSO_Grouped"}
    ELSE {"CSO_Ungrouped"}

PickAvailableCommandInput(j) ==
    IF IsObj(j) /\ StringOr(j, "type", "unstructured") = {"unstructured"}
    THEN {"UnstructuredCommandInput"} ELSE {}

Mark(name, arm, j) == IF name = "McpServer" THEN MarkMcpServer(arm, j) ELSE j

Pick(name, j) ==
    CASE name = "McpServer"             -> PickMcpServer(j)
      [] name = "EmbeddedResource"      -> PickEmbeddedResource(j)
      [] name = "ConfigSelectOptions"   -> PickConfigSelectOptions(j)
      [] name = "AvailableCommandInput" -> PickAvailableCommandInput(j)

-----------------------------------------------------------------------------
(***************************************************************************)
(* Structs whose codec is written by hand.                                 *)
(***************************************************************************)
IsAuthMethod(m) ==
    /\ m = [id |-> m.id, name |-> m.name, description |-> m.description, type |-> m.type,
            args |-> m.args, env |-> m.env, _meta |-> m._meta]
    /\ IsMaybe(m.description)
    /\ m.args = [x \in DOMAIN m.args |-> m.args[x]]
    /\ m.env = [x \in DOMAIN m.env |-> m.env[x]]
    /\ IsObj(m._meta)

EncodeAuthMethod(m) ==
    ObjOf({<<"id", JStr(m.id)>>, <<"name", JStr(m.name)>>}
          \cup When(m.description # Nothing, "description", JStr(The(m.description)))
          \cup When(m.type # "agent", "type", JStr(m.type))
          \cup When(m.type = "terminal" /\ m.args # << >>, "args",
                    JArr([i \in DOMAIN m.args |-> JStr(m.args[i])]))
          \cup When(m.type = "terminal" /\ m.env # << >>, "env",
                    JObj([x \in DOMAIN m.env |-> JStr(m.env[x])]))
          \cup When(m._meta # EmptyObj, "_meta", m._meta))

DecodeAuthMethod(j) ==
    IF /\ Holds(j, "id", "str")
       /\ Holds(j, "name", "str")
       /\ StringOr(j, "type", "agent") # {}
       /\ Holds(j, "args", "arr") => AllStrings(At(j, "args")[2])
       /\ Holds(j, "env", "obj") => AllStrings(At(j, "env")[2])
    THEN {[id |-> At(j, "id")[2], name |-> At(j, "name")[2],
           description |-> LenientString(j, "description"),
           type |-> The(StringOr(j, "type", "agent")),
           args |-> IF Holds(j, "args", "arr") THEN Strings(At(j, "args")[2]) ELSE << >>,
           env |-> IF Holds(j, "env", "obj") THEN Strings(At(j, "env")[2]) ELSE << >>,
           _meta |-> LenientMeta(j)]}
    ELSE {}

IsClientSessionCapabilities(c) ==
    /\ c = [compaction |-> c.compaction, notices |-> c.notices,
            booleanConfig |-> c.booleanConfig, _meta |-> c._meta]
    /\ {c.compaction, c.notices, c.booleanConfig} \subseteq BOOLEAN
    /\ IsObj(c._meta)

EncodeClientSessionCapabilities(c) ==
    ObjOf(When(c.compaction, "compaction", EmptyObj)
          \cup When(c.notices, "notices", EmptyObj)
          \cup When(c.booleanConfig, "configOptions",
                    ObjOf({<<"boolean", EmptyObj>>}))
          \cup When(c._meta # EmptyObj, "_meta", c._meta))

\* Never throws: whatever is not an object is not supported.
DecodeClientSessionCapabilities(j) ==
    {[compaction |-> Holds(j, "compaction", "obj"),
      notices |-> Holds(j, "notices", "obj"),
      booleanConfig |-> Holds(j, "configOptions", "obj")
                        /\ Holds(At(j, "configOptions"), "boolean", "obj"),
      _meta |-> LenientMeta(j)]}

\* What ClientCapabilities adds to the object of its record<T>.
AddClientMembers(c, j) ==
    JObj(Over(j[2], ObjOf(
        When(c.authTerminal, "auth", ObjOf({<<"terminal", JBool(TRUE)>>}))
        \cup When(c.elicitForm \/ c.elicitUrl, "elicitation",
                  ObjOf(When(c.elicitForm, "form", EmptyObj)
                        \cup When(c.elicitUrl, "url", EmptyObj))))[2]))

ReadClientMembers(j) ==
    [authTerminal |-> Holds(j, "auth", "obj")
                      /\ Holds(At(j, "auth"), "terminal", "bool")
                      /\ At(At(j, "auth"), "terminal")[2],
     elicitForm |-> Holds(j, "elicitation", "obj") /\ Holds(At(j, "elicitation"), "form", "obj"),
     elicitUrl |-> Holds(j, "elicitation", "obj") /\ Holds(At(j, "elicitation"), "url", "obj")]

IsBoolean(o) == o.type = "boolean"

IsConfigOption(o) ==
    /\ o = [id |-> o.id, name |-> o.name, description |-> o.description,
            category |-> o.category, type |-> o.type, currentValue |-> o.currentValue,
            currentBool |-> o.currentBool, options |-> o.options, _meta |-> o._meta]
    /\ IsMaybe(o.description)
    /\ IsMaybe(o.category)
    /\ IsObj(o._meta)

\* `options` is the encoded o.options, written for a select only.
EncodeConfigOption(o, options) ==
    ObjOf({<<"id", JStr(o.id)>>, <<"name", JStr(o.name)>>, <<"type", JStr(o.type)>>,
           <<"currentValue", IF IsBoolean(o) THEN JBool(o.currentBool)
                             ELSE JStr(o.currentValue)>>}
          \cup When(o.description # Nothing, "description", JStr(The(o.description)))
          \cup When(o.category # Nothing, "category", JStr(The(o.category)))
          \cup When(~IsBoolean(o), "options", options)
          \cup When(o._meta # EmptyObj, "_meta", o._meta))

\* `options` is the decoded j.at("options"); a boolean option does not read it.
DecodeConfigOption(j, options) ==
    LET type == The(StringOr(j, "type", "select"))
        Result(value, bool, opts) ==
            [id |-> At(j, "id")[2], name |-> At(j, "name")[2],
             description |-> LenientString(j, "description"),
             category |-> LenientString(j, "category"), type |-> type,
             currentValue |-> value, currentBool |-> bool, options |-> opts,
             _meta |-> LenientMeta(j)]
    IN  IF ~(Holds(j, "id", "str") /\ Holds(j, "name", "str")
             /\ StringOr(j, "type", "select") # {})
        THEN {}
        ELSE IF type = "boolean"
        THEN IF Holds(j, "currentValue", "bool")
             THEN {Result("", At(j, "currentValue")[2], <<"CSO_Ungrouped", << >>>>)}
             ELSE {}
        ELSE IF Holds(j, "currentValue", "str")
        THEN {Result(At(j, "currentValue")[2], FALSE, opts) : opts \in options}
        ELSE {}

=============================================================================
