------------------------------- MODULE AcpRecord -------------------------------
(***************************************************************************)
(* What record<T>, list_codec and sum_tagged<T> make of the codecs of      *)
(* their members, which are ToJson and FromJson: one level of to_json and  *)
(* from_json.                                                              *)
(***************************************************************************)
EXTENDS JsonCodec

CONSTANT
    OmitsDefaults  \* whether record<T> leaves out a defaulted() member that
                   \* holds its default; nothing here depends on it

ASSUME CodecAssumption == OmitsDefaults \in BOOLEAN

\* Of the pairs in S, one for each position or key in K that decoded: the
\* whole if none is missing.
Assembled(S, K) == IF {m[1] : m \in S} = K THEN {FunctionOf(S)} ELSE {}

-----------------------------------------------------------------------------
\* record<T> writes field f of v.
Written(f, v) ==
    CASE f.how = "required"  -> TRUE
      [] f.how = "optional"  -> v[f.key] # Nothing
      [] f.how = "defaulted" -> ~OmitsDefaults \/ v[f.key] # f.or
      [] f.how = "meta"      -> v[f.key] # EmptyObj

EncodeField(f, v) ==
    ToJson(f.type, IF f.how = "optional" THEN The(v[f.key]) ELSE v[f.key])

EncodeRecord(fields, v) ==
    ObjOf({<<fields[i].key, EncodeField(fields[i], v)>> :
             i \in {k \in DOMAIN fields : Written(fields[k], v)}})

DecodeField(f, j) ==
    CASE f.how = "required" ->
             IF Has(j, f.key) THEN FromJson(f.type, At(j, f.key)) ELSE {}
      [] f.how = "optional" ->
             IF ~Has(j, f.key) \/ At(j, f.key) = JNull THEN {Nothing}
             ELSE {Just(x) : x \in FromJson(f.type, At(j, f.key))}
      [] f.how = "defaulted" ->
             IF Has(j, f.key) THEN FromJson(f.type, At(j, f.key)) ELSE {f.or}
      [] f.how = "meta" -> {LenientMeta(j)}

\* Each member must decode; other members of j are not looked at.
DecodeRecord(fields, j) ==
    IF IsObj(j)
    THEN Assembled(UNION {{<<fields[i].key, x>> : x \in DecodeField(fields[i], j)} :
                          i \in DOMAIN fields},
                   {fields[i].key : i \in DOMAIN fields})
    ELSE {}

-----------------------------------------------------------------------------
EncodeList(t, q) == JArr([i \in DOMAIN q |-> ToJson(t, q[i])])

\* Each element must decode.
DecodeList(t, j) ==
    IF j[1] = "arr"
    THEN Assembled(UNION {{<<i, x>> : x \in FromJson(t, j[2][i])} : i \in DOMAIN j[2]},
                   DOMAIN j[2])
    ELSE {}

-----------------------------------------------------------------------------
Label(arms, name) == (CHOOSE a \in {arms[i] : i \in DOMAIN arms} : a.type = name).label

\* The object of the arm, and the tag.
EncodeTagged(key, arms, v) ==
    With(ToJson(Ref(v[1]), v[2]), key, JStr(Label(arms, v[1])))

\* The arm with the tag that j has.
DecodeTagged(key, arms, j) ==
    UNION {{<<arms[i].type, x>> : x \in FromJson(Ref(arms[i].type), j)} :
           i \in {k \in DOMAIN arms : Has(j, key) /\ At(j, key) = JStr(arms[k].label)}}
=============================================================================
