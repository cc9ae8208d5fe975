------------------------------- MODULE MCRelay -------------------------------
(***************************************************************************)
(* Sample values of every type.  Of a record: the least one, the full one, *)
(* and each that differs from the least in one member; of a sum, those of  *)
(* each arm; of a struct with a hand-written codec, every combination of   *)
(* least and full members.                                                 *)
(***************************************************************************)
EXTENDS AcpRelay, AcpMethods, SequencesExt

Of(fields, k) == fields[CHOOSE i \in DOMAIN fields : fields[i].key = k]

KeysOf(fields) == {fields[i].key : i \in DOMAIN fields}

RECURSIVE Least(_), Full(_)
Least(t) ==
    CASE t[1] = "str" -> ""
      [] t[1] \in {"enum", "open"} -> t[2][1]
      [] t[1] = "num" -> 0
      [] t[1] = "bool" -> FALSE
      [] t[1] = "json" -> JNull
      [] t[1] \in {"unit", "list", "map"} -> << >>
      [] t[1] = "alias" -> Least(t[2])
      [] t[1] = "tagged" -> <<t[3][1].type, Least(Ref(t[3][1].type))>>
      [] t[1] = "choice" -> <<t[2][1], Least(Ref(t[2][1]))>>
      [] t[1] = "ref" -> Least(Schema[t[2]])
      [] OTHER -> [k \in KeysOf(t[2]) |->
                     IF Of(t[2], k).how = "required" THEN Least(Of(t[2], k).type)
                     ELSE Of(t[2], k).or]

Full(t) ==
    CASE t[1] = "str" -> "s"
      [] t[1] \in {"enum", "open"} -> t[2][Len(t[2])]
      [] t[1] = "num" -> 7
      [] t[1] = "bool" -> TRUE
      [] t[1] = "json" -> JObj([x |-> JNum(1)])
      [] t[1] = "unit" -> << >>
      [] t[1] = "map" -> [NAME |-> "v"]
      [] t[1] = "list" -> <<Full(t[2]), Least(t[2])>>
      [] t[1] = "alias" -> Full(t[2])
      [] t[1] = "tagged" -> LET a == t[3][Len(t[3])] IN <<a.type, Full(Ref(a.type))>>
      [] t[1] = "choice" -> LET a == t[2][Len(t[2])] IN <<a, Full(Ref(a))>>
      [] t = Ref("ConfigOption") -> [Full(Schema[t[2]]) EXCEPT !.currentBool = FALSE]
      [] t = Ref("AuthMethod") -> [Full(Schema[t[2]]) EXCEPT !.type = "terminal"]
      [] t[1] = "ref" -> Full(Schema[t[2]])
      [] OTHER -> [k \in KeysOf(t[2]) |->
                     IF Of(t[2], k).how = "optional" THEN Just(Full(Of(t[2], k).type))
                     ELSE Full(Of(t[2], k).type)]

\* The values a member takes in the samples of its struct.
Some(f) ==
    LET t == IF f.type[1] = "ref" THEN Schema[f.type[2]] ELSE f.type
        plain == CASE t[1] \in {"enum", "open"} -> {t[2][i] : i \in DOMAIN t[2]}
                   [] t[1] = "choice" ->
                          {<<t[2][i], Least(Ref(t[2][i]))>> : i \in DOMAIN t[2]}
                          \cup {<<t[2][i], Full(Ref(t[2][i]))>> : i \in DOMAIN t[2]}
                   [] OTHER -> {Least(t), Full(t)}
    IN  IF f.how = "optional" THEN {Nothing} \cup {Just(x) : x \in plain} ELSE plain

RecordSamples(fields) ==
    {Least(Record(fields)), Full(Record(fields))}
    \cup UNION {{[Least(Record(fields)) EXCEPT ![fields[i].key] = x] :
                    x \in IF fields[i].how = "meta" THEN {EmptyObj, Full(Json)}
                          ELSE Some(fields[i])} :
                i \in DOMAIN fields}

OwnSamples(fields) ==
    FoldLeft(LAMBDA S, f : {v @@ (f.key :> x) : v \in S,
                 x \in CASE f.how = "meta" -> {EmptyObj, Full(Json)}
                        [] f.how = "optional" -> {Nothing, Just(Full(f.type))}
                        [] f.key \in {"id", "name"} -> {Full(f.type)}
                        [] OTHER -> Some(f)},
             {<< >>}, fields)

\* The samples of a type that is not a sum.
Structs(name) ==
    LET own == Schema[name]
        body == IF own[1] = "alias" /\ own[2][1] = "ref" THEN Schema[own[2][2]] ELSE own
    IN  CASE body[1] = "record" -> RecordSamples(body[2])
          [] body[1] = "own" -> OwnSamples(body[2])
          [] body[1] = "enum" -> {body[2][i] : i \in DOMAIN body[2]}
          [] OTHER -> {Least(body), Full(body)}

\* The arms of a sum, and any other type itself.
Arms(name) ==
    LET body == Schema[name]
    IN  CASE body[1] = "tagged" -> {body[3][i].type : i \in DOMAIN body[3]}
          [] body[1] = "choice" -> {body[2][i] : i \in DOMAIN body[2]}
          [] OTHER -> {name}

MCSamples ==
    [name \in DOMAIN Schema |->
        UNION {{IF arm = name THEN v ELSE <<arm, v>> : v \in Structs(arm)} :
               arm \in Arms(name)}]

\* The codecs again, for their members.  (The LET keeps TLC's statistics from
\* unfolding the cycle.)
MCToJson(t, v) == LET j == Encode(t, v) IN j
MCFromJson(t, j) == LET v == Decode(t, j) IN v
MCIsValue(t, v) == LET is == HasType(t, v) IN is

RECURSIVE MCDepth(_)
MCDepth(t) == IF Parts(t) = {} THEN 0 ELSE 1 + Max({MCDepth(s) : s \in Parts(t)})

MCTypes ==
    LET named == {Ref(T) : T \in DOMAIN Schema}
        inner == UNION {Parts(t) : t \in named}
    IN  named \cup inner \cup UNION {Parts(t) : t \in inner}
=============================================================================
