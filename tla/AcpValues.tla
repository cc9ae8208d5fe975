------------------------------- MODULE AcpValues -------------------------------
(***************************************************************************)
(* The values of each ACP type that its wire form can say, and what the    *)
(* codecs rely on in the declarations of the types.                        *)
(***************************************************************************)
EXTENDS AcpCodec

CONSTANTS
    IsValue(_, _),  \* IsValue(t, v): v is such a value of type t, HasType again
    Types,          \* every type that is declared, and those of its members
    Depth(_)        \* Depth(t): how deeply the types that t is made of are nested

-----------------------------------------------------------------------------
(***************************************************************************)
(* The values of a type that the wire form can say, given those of its     *)
(* members.  It says nothing of fields that another field makes            *)
(* meaningless, takes a grouped select without groups for an ungrouped one *)
(* and null in a Maybe<Json> for nothing.                                  *)
(***************************************************************************)
KeysOfFields(fields) == {fields[i].key : i \in DOMAIN fields}

IsRaw(t) == t[1] = "json"

IsField(f, x) ==
    CASE f.how = "optional" ->
             \/ x = Nothing
             \/ /\ x = Just(The(x))
                /\ IsValue(f.type, The(x))
                /\ IsRaw(f.type) => The(x) # JNull
      [] f.how = "meta" -> IsObj(x)
      [] OTHER -> IsValue(f.type, x)

IsStruct(fields, v) ==
    /\ v = [k \in KeysOfFields(fields) |-> v[k]]
    /\ \A i \in DOMAIN fields : IsField(fields[i], v[fields[i].key])

IsOwn(name, fields, v) ==
    CASE name = "PO_Cancelled" -> v = << >>
      [] name = "AuthMethod" ->
             IsAuthMethod(v) /\ (v.type # "terminal" => v.args = << >> /\ v.env = << >>)
      [] name = "ClientSessionCapabilities" -> IsClientSessionCapabilities(v)
      [] name = "ClientCapabilities" -> IsStruct(fields, v)
      [] name = "ConfigOption" ->
             /\ IsConfigOption(v)
             /\ IF IsBoolean(v)
                THEN v.currentValue = "" /\ v.options = <<"CSO_Ungrouped", << >>>>
                ELSE v.currentBool = FALSE /\ IsValue(Ref("ConfigSelectOptions"), v.options)

IsArm(names, v) == v[1] \in names /\ v = <<v[1], v[2]>> /\ IsValue(Ref(v[1]), v[2])

IsNamed(name, body, v) ==
    CASE body[1] = "record" -> IsStruct(body[2], v)
      [] body[1] = "own"    -> IsOwn(name, body[2], v)
      [] body[1] = "tagged" -> IsArm({body[3][i].type : i \in DOMAIN body[3]}, v)
      [] body[1] = "choice" ->
             /\ IsArm({body[2][i] : i \in DOMAIN body[2]}, v)
             /\ v[1] = "CSO_Grouped" => v[2] # << >>
      [] body[1] = "alias"  -> IsValue(body[2], v)
      [] OTHER              -> IsValue(body, v)

HasType(t, v) ==
    CASE t[1] \in {"str", "open"} -> v \in STRING
      [] t[1] = "enum" -> v \in {t[2][i] : i \in DOMAIN t[2]}
      [] t[1] = "num"  -> v \in Int
      [] t[1] = "bool" -> v \in BOOLEAN
      [] t[1] = "json" -> TRUE
      [] t[1] = "unit" -> v = << >>
      [] t[1] = "list" ->
             /\ Len(v) \in Nat
             /\ v = [i \in 1 .. Len(v) |-> v[i]]
             /\ \A i \in 1 .. Len(v) : IsValue(t[2], v[i])
      [] t[1] = "ref"  -> t[2] \in DOMAIN Schema /\ IsNamed(t[2], Schema[t[2]], v)
      [] OTHER -> FALSE

\* The keys that the declaration of a type names.
KnownKeys(body) ==
    CASE body[1] \in {"record", "own"} -> KeysOfFields(body[2])
      [] body[1] = "tagged" -> {body[2]}
      [] OTHER -> {}

-----------------------------------------------------------------------------
(***************************************************************************)
(* v as a value of type T without what its wire form does not say.         *)
(***************************************************************************)
\* The fields of a struct, or of the one that an alias is around.
StructFields(body) ==
    LET inner == IF body[1] = "alias" /\ body[2][1] = "ref" THEN Schema[body[2][2]] ELSE body
    IN  IF inner[1] \in {"record", "own"} THEN inner[2] ELSE << >>

IsSum(T) == Schema[T][1] \in {"tagged", "choice"}

\* The members that are a Maybe<Json>.
RawMaybes(fields) == {fields[i].key : i \in {k \in How(fields, "optional") : IsRaw(fields[k].type)}}

NoNull(fields, v) ==
    LET raw == RawMaybes(fields)
    IN  IF raw = {} THEN v
        ELSE [k \in DOMAIN v |-> IF k \in raw /\ v[k] = Just(JNull) THEN Nothing ELSE v[k]]

NoneUngrouped(options) ==
    IF options = <<"CSO_Grouped", << >>>> THEN <<"CSO_Ungrouped", << >>>> ELSE options

Canonical(T, v) ==
    CASE T = "ConfigSelectOptions" -> NoneUngrouped(v)
      [] T = "AuthMethod" /\ v.type # "terminal" -> [v EXCEPT !.args = << >>, !.env = << >>]
      [] T = "ConfigOption" ->
             IF IsBoolean(v)
             THEN [v EXCEPT !.currentValue = "", !.options = <<"CSO_Ungrouped", << >>>>]
             ELSE [v EXCEPT !.currentBool = FALSE, !.options = NoneUngrouped(@)]
      [] OTHER ->
             IF IsSum(T) THEN <<v[1], NoNull(StructFields(Schema[v[1]]), v[2])>>
             ELSE NoNull(StructFields(Schema[T]), v)

-----------------------------------------------------------------------------
(***************************************************************************)
(* What the codecs rely on in the declarations they are given.             *)
(***************************************************************************)
\* The types that the codec of type t uses.
PartsOfNamed(body) ==
    CASE body[1] \in {"record", "own"} -> {body[2][i].type : i \in DOMAIN body[2]}
      [] body[1] = "tagged" -> {Ref(body[3][i].type) : i \in DOMAIN body[3]}
      [] body[1] = "choice" -> {Ref(body[2][i]) : i \in DOMAIN body[2]}
      [] body[1] = "alias"  -> {body[2]}
      [] OTHER              -> {body}

Parts(t) ==
    CASE t[1] = "list" -> {t[2]}
      [] t[1] = "ref"  -> PartsOfNamed(Schema[t[2]])
      [] OTHER         -> {}

\* Types whose decoder takes any JSON, wrong or not.
IsLax(t) ==
    \/ t[1] = "unit"
    \/ t[1] = "ref" /\ t[2] \in {"PO_Cancelled", "ClientSessionCapabilities"}

IsFieldRow(f, hows) ==
    /\ f.how \in hows
    /\ f.how = "optional" => f.or = Nothing
    /\ f.how = "required" => ~IsLax(f.type)
    /\ f.how = "defaulted" => IsValue(f.type, f.or)
    /\ f.how = "meta" => IsRaw(f.type)
    /\ f.how = "meta" <=> f.key = "_meta"

IsFields(fields, hows) ==
    /\ \A i, k \in DOMAIN fields : fields[i].key = fields[k].key => i = k
    /\ \A i \in DOMAIN fields : IsFieldRow(fields[i], hows)

RecordHows == {"required", "optional", "defaulted", "meta"}

IsRecord(T) ==
    T \in DOMAIN Schema /\ Schema[T][1] = "record" /\ IsFields(Schema[T][2], RecordHows)

\* A record without member k, and one that cannot be without.
Lacks(T, k) == IsRecord(T) /\ k \notin KeysOfFields(Schema[T][2])

Demands(T, k) == IsRecord(T) /\ k \in Keys(Schema[T][2], "required")

\* An arm of a sum with a tag at `key`, which is no member of its own.
Taggable(T, key) ==
    /\ T \in DOMAIN Schema
    /\ \/ Lacks(T, key)
       \/ T = "PO_Cancelled" /\ Schema[T][1] = "own"
       \/ \E U \in DOMAIN Schema : Schema[T] = Alias(Ref(U)) /\ Lacks(U, key)

IsTagged(key, arms) ==
    /\ key # "_meta"
    /\ \A i, k \in DOMAIN arms : arms[i].type = arms[k].type => i = k
    /\ \A i, k \in DOMAIN arms : arms[i].label = arms[k].label => i = k
    /\ \A i \in DOMAIN arms : Taggable(arms[i].type, key)

\* How the hand-written decoders tell the arms apart.
IsChoice(T, arms) ==
    CASE T = "McpServer" ->
             /\ arms = <<"StdioMcpServer", "HttpMcpServer", "SseMcpServer">>
             /\ \A i \in DOMAIN arms : Lacks(arms[i], "type")
      [] T = "EmbeddedResource" ->
             /\ arms = <<"TextResource", "BlobResource">>
             /\ Demands("TextResource", "text") /\ Lacks("TextResource", "blob")
             /\ Demands("BlobResource", "blob") /\ Lacks("BlobResource", "text")
      [] T = "ConfigSelectOptions" ->
             /\ arms = <<"CSO_Ungrouped", "CSO_Grouped">>
             /\ {"CSO_Ungrouped", "CSO_Grouped"} \subseteq DOMAIN Schema
             /\ Schema["CSO_Ungrouped"] = Alias(List(Ref("ConfigSelectOption")))
             /\ Schema["CSO_Grouped"] = Alias(List(Ref("ConfigSelectGroup")))
             /\ Lacks("ConfigSelectOption", "group")
             /\ Demands("ConfigSelectGroup", "group")
      [] T = "AvailableCommandInput" ->
             /\ arms = <<"UnstructuredCommandInput">>
             /\ Lacks("UnstructuredCommandInput", "type")
      [] OTHER -> FALSE

HandSums == {"McpServer", "EmbeddedResource", "ConfigSelectOptions", "AvailableCommandInput"}

HandStructs ==
    {"PO_Cancelled", "AuthMethod", "ClientSessionCapabilities", "ClientCapabilities",
     "ConfigOption"}

Added == {"authTerminal", "elicitForm", "elicitUrl"}

\* The keys of the members that are handled one way, and what a member is that
\* is left out.
Declares(fields, how, or) ==
    /\ Keys(fields, how) = DOMAIN or
    /\ \A i \in How(fields, how) : fields[i].or = or[fields[i].key]

\* The members that the hand-written decoders require, and their defaults.
IsOwnRow(T, fields) ==
    /\ IsFields(fields, RecordHows \cup {"member"})
    /\ RawMaybes(fields) = {}
    /\ CASE T = "PO_Cancelled" -> fields = << >>
         [] T = "AuthMethod" ->
                /\ Keys(fields, "required") = {"id", "name"}
                /\ Keys(fields, "optional") = {"description"}
                /\ Declares(fields, "defaulted", [type |-> "agent"])
         [] T = "ClientSessionCapabilities" ->
                \A i \in DOMAIN fields : fields[i].how \in {"member", "meta"}
         [] T = "ClientCapabilities" ->
                /\ Keys(fields, "member") = Added
                /\ \A i \in How(fields, "member") : fields[i].type = Bool
                /\ KeysOfFields(fields) \cap {"auth", "elicitation"} = {}
         [] T = "ConfigOption" ->
                /\ Keys(fields, "required") = {"id", "name", "currentValue"}
                /\ Keys(fields, "optional") = {"description", "category"}
                /\ Declares(fields, "defaulted", [type |-> "select"])
                /\ "ConfigSelectOptions" \in DOMAIN Schema
                /\ \E i \in DOMAIN fields : fields[i].type = Ref("ConfigSelectOptions")

\* An alias is of a list or a record.
IsAlias(body) ==
    /\ body = Alias(body[2])
    /\ \/ body[2][1] = "list"
       \/ \E U \in DOMAIN Schema : body[2] = Ref(U) /\ IsRecord(U)

IsRow(T, body) ==
    /\ T \in HandSums => body[1] = "choice" /\ IsChoice(T, body[2])
    /\ T \in HandStructs => body[1] = "own" /\ IsOwnRow(T, body[2])
    /\ T \notin HandSums \cup HandStructs =>
           \/ IsRecord(T)
           \/ body[1] = "tagged" /\ IsTagged(body[2], body[3])
           \/ body[1] = "alias" /\ IsAlias(body)
           \/ body[1] = "enum"

ASSUME SchemaAssumption == \A T \in DOMAIN Schema : IsRow(T, Schema[T])

\* No type is a part of itself.
ASSUME DepthAssumption ==
    /\ \A T \in DOMAIN Schema : Ref(T) \in Types
    /\ \A t \in Types :
           /\ Depth(t) \in Nat
           /\ \A s \in Parts(t) : s \in Types /\ Depth(s) < Depth(t)

\* The overloads of every type together.
Codecs ==
    \A t \in Types : \A x :
        /\ ToJson(t, x) = Encode(t, x)
        /\ FromJson(t, x) = Decode(t, x)
        /\ IsValue(t, x) <=> HasType(t, x)
=============================================================================
