------------------------------- MODULE AcpCodec -------------------------------
(***************************************************************************)
(* to_json and from_json of every ACP type: the kind of the type decides   *)
(* which codec, and its members are left to ToJson and FromJson.  The C++  *)
(* overloads call each other: ToJson is Encode again and FromJson is       *)
(* Decode, which the MC modules say by giving these constants their        *)
(* values, and Codecs of AcpValues states for the proofs.                  *)
(***************************************************************************)
EXTENDS AcpHandCodec, AcpRecord

CONSTANT
    Schema  \* Schema[T]: how type T is declared (AcpTypes of AcpMethods)

\* The record part of a hand-written struct: the members its record<T> names.
BaseFields(fields) ==
    [i \in {k \in DOMAIN fields : fields[k].how # "member"} |-> fields[i]]

-----------------------------------------------------------------------------
EncodeOwn(name, fields, v) ==
    CASE name = "PO_Cancelled" -> EmptyObj
      [] name = "AuthMethod" -> EncodeAuthMethod(v)
      [] name = "ClientSessionCapabilities" -> EncodeClientSessionCapabilities(v)
      [] name = "ClientCapabilities" ->
             AddClientMembers(v, EncodeRecord(BaseFields(fields), v))
      [] name = "ConfigOption" ->
             EncodeConfigOption(v, ToJson(Ref("ConfigSelectOptions"), v.options))

EncodeNamed(name, body, v) ==
    CASE body[1] = "record" -> EncodeRecord(body[2], v)
      [] body[1] = "own"    -> EncodeOwn(name, body[2], v)
      [] body[1] = "tagged" -> EncodeTagged(body[2], body[3], v)
      [] body[1] = "choice" -> Mark(name, v[1], ToJson(Ref(v[1]), v[2]))
      [] body[1] = "alias"  -> ToJson(body[2], v)
      [] OTHER              -> ToJson(body, v)

Encode(t, v) ==
    CASE t[1] \in {"str", "open", "enum"} -> JStr(v)
      [] t[1] = "num"  -> JNum(v)
      [] t[1] = "bool" -> JBool(v)
      [] t[1] = "json" -> v
      [] t[1] = "unit" -> EmptyObj
      [] t[1] = "list" -> EncodeList(t[2], v)
      [] t[1] = "ref"  -> EncodeNamed(t[2], Schema[t[2]], v)

-----------------------------------------------------------------------------
DecodeOwn(name, fields, j) ==
    CASE name = "PO_Cancelled" -> {<< >>}
      [] name = "AuthMethod" -> DecodeAuthMethod(j)
      [] name = "ClientSessionCapabilities" -> DecodeClientSessionCapabilities(j)
      [] name = "ClientCapabilities" ->
             {Over(base, ReadClientMembers(j)) :
                base \in DecodeRecord(BaseFields(fields), j)}
      [] name = "ConfigOption" ->
             DecodeConfigOption(j, IF Has(j, "options")
                 THEN FromJson(Ref("ConfigSelectOptions"), At(j, "options")) ELSE {})

DecodeNamed(name, body, j) ==
    CASE body[1] = "record" -> DecodeRecord(body[2], j)
      [] body[1] = "own"    -> DecodeOwn(name, body[2], j)
      [] body[1] = "tagged" -> DecodeTagged(body[2], body[3], j)
      [] body[1] = "choice" ->
             UNION {{<<arm, x>> : x \in FromJson(Ref(arm), j)} : arm \in Pick(name, j)}
      [] body[1] = "alias"  -> FromJson(body[2], j)
      [] OTHER              -> FromJson(body, j)

Decode(t, j) ==
    CASE t[1] \in {"str", "open"} -> IF j[1] = "str" THEN {j[2]} ELSE {}
      [] t[1] = "enum" ->
             {t[2][i] : i \in {k \in DOMAIN t[2] : j = JStr(t[2][k])}}
      [] t[1] = "num"  -> IF j[1] = "num" THEN {j[2]} ELSE {}
      [] t[1] = "bool" -> IF j[1] = "bool" THEN {j[2]} ELSE {}
      [] t[1] = "json" -> {j}
      [] t[1] = "unit" -> {<< >>}
      [] t[1] = "list" -> DecodeList(t[2], j)
      [] t[1] = "ref"  -> DecodeNamed(t[2], Schema[t[2]], j)
=============================================================================
