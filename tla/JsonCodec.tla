------------------------------ MODULE JsonCodec ------------------------------
(***************************************************************************)
(* JSON values and the vocabulary of codec descriptions that acp-cpp       *)
(* re-exports from jsonrpc-cpp (codec.hpp:26-42): what record, required,   *)
(* optional, defaulted, meta, sum_tagged and enum_codec are given.  What   *)
(* they do with it is modelled from how this repository's codecs and tests *)
(* use them, in AcpRecord.                                                 *)
(*                                                                         *)
(* JSON is <<"null">>, <<"bool", b>>, <<"num", n>>, <<"str", s>>,          *)
(* <<"arr", q>> with q a sequence, or <<"obj", f>> with f a function from  *)
(* keys.  A C++ value is what it holds: Maybe<A> is {} or {a}, List<A> a   *)
(* sequence, a struct a function from its fields' wire keys, a Sum the     *)
(* pair of an arm's type name and its value, an enumerator its spelling.   *)
(***************************************************************************)
EXTENDS Sequences, Integers

CONSTANTS
    ToJson(_, _),   \* ToJson(t, v): to_json, the JSON of value v of type t
    FromJson(_, _)  \* FromJson(t, j): from_json, {v}, or {} where it throws

JNull == <<"null">>
JBool(b) == <<"bool", b>>
JNum(n) == <<"num", n>>
JStr(s) == <<"str", s>>
JArr(q) == <<"arr", q>>
JObj(f) == <<"obj", f>>

EmptyObj == JObj(<< >>)

IsObj(j) == j[1] = "obj"

\* j.contains(k), with j.is_object() and without.
Has(j, k) == IsObj(j) /\ k \in DOMAIN j[2]

At(j, k) == j[2][k]

\* The function with the pairs of f, and those of g where f has none.
Over(f, g) ==
    [x \in DOMAIN f \cup DOMAIN g |-> IF x \in DOMAIN f THEN f[x] ELSE g[x]]

\* f with v at k, which may be new.
Put(f, k, v) == [x \in DOMAIN f \cup {k} |-> IF x = k THEN v ELSE f[x]]

\* j[k] = v
With(j, k, v) == JObj(Put(j[2], k, v))

\* j without key k.
Without(j, k) == JObj([x \in DOMAIN j[2] \ {k} |-> j[2][x]])

\* The members of a Maybe, and the content of one that holds something.
Nothing == {}
Just(x) == {x}
The(m) == CHOOSE x \in m : TRUE

IsMaybe(m) == m = Nothing \/ m = Just(The(m))

\* j.contains(k) && j[k].is_<kind>()
Holds(j, k, kind) == Has(j, k) /\ At(j, k)[1] = kind

LenientMeta(j) == IF Holds(j, "_meta", "obj") THEN At(j, "_meta") ELSE EmptyObj

\* The function that a set of pairs is the graph of, and the object with such
\* members.
FunctionOf(S) == [k \in {m[1] : m \in S} |-> (CHOOSE m \in S : m[1] = k)[2]]

ObjOf(S) == JObj(FunctionOf(S))

When(cond, k, j) == IF cond THEN {<<k, j>>} ELSE {}

-----------------------------------------------------------------------------
(***************************************************************************)
(* Types.                                                                  *)
(***************************************************************************)
Str == <<"str">>
Num == <<"num">>
Bool == <<"bool">>
Json == <<"json">>
UnitType == <<"unit">>
List(t) == <<"list", t>>
Ref(name) == <<"ref", name>>           \* the type called `name`
Enum(labels) == <<"enum", labels>>     \* enum_codec: exactly these spellings
Open(labels) == <<"open", labels>>     \* a string with some known spellings
Record(fields) == <<"record", fields>> \* record<T>(fields...)
Tagged(key, arms) == <<"tagged", key, arms>>  \* sum_tagged<T>(key, arms...)
Alias(t) == <<"alias", t>>             \* a struct around one value, no keys of its own
Choice(arms) == <<"choice", arms>>     \* a Sum with a codec written by hand
Own(fields) == <<"own", fields>>       \* a struct with a codec written by hand

Arm(name, label) == [type |-> name, label |-> label]

Field(how, key, type, or) == [how |-> how, key |-> key, type |-> type, or |-> or]

Req(key, type) == Field("required", key, type, Nothing)
Opt(key, type) == Field("optional", key, type, Nothing)
Def(key, type, or) == Field("defaulted", key, type, or)
Meta == Field("meta", "_meta", Json, EmptyObj)

\* The positions of the fields that are handled one way, and their keys.
How(fields, how) == {i \in DOMAIN fields : fields[i].how = how}

Keys(fields, how) == {fields[i].key : i \in How(fields, how)}
=============================================================================
