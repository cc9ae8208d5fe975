------------------------------- MODULE AcpRelay -------------------------------
(***************************************************************************)
(* A value on its way between two implementations of ACP: this library     *)
(* encodes it, the wire form is changed the way a peer of another version  *)
(* may legally or wrongly write it, and this library decodes it and passes *)
(* it on.  The codecs are AcpCodec's; the peer is not this code, so each   *)
(* of its changes is an action that may or may not happen.                 *)
(***************************************************************************)
EXTENDS AcpValues, FiniteSets

CONSTANTS
    Samples,   \* Samples[T]: values of type T, canonical or not
    MaxEdits   \* bound on the peer's changes to one wire form

\* A member that this version of the library knows nothing of, and a string
\* that is no tag of any sum.
Unheard == "x_unknown"
Garbage == "x_wrong"

ASSUME RelayAssumption ==
    /\ DOMAIN Samples \subseteq DOMAIN Schema
    /\ \A T \in DOMAIN Samples : \A v \in Samples[T] : IsValue(Ref(T), Canonical(T, v))
    /\ \A T \in DOMAIN Schema :
           /\ Unheard \notin KnownKeys(Schema[T])
           /\ Schema[T][1] = "tagged" =>
                  \A i \in DOMAIN Schema[T][3] : Schema[T][3][i].label # Garbage
    /\ MaxEdits \in Nat

VARIABLES
    phase,    \* "idle", "wire", "got", "refused" or "forwarded"
    type,     \* the name of the value's type
    value,    \* the value that was encoded
    members,  \* how the members of the object it is written as are declared
    wire,     \* its JSON
    edits,    \* what the peer changed: pairs of an operation and a key
    got       \* what was decoded: {} or {v}

relayVars == <<phase, type, value, members, wire, edits, got>>

RelayInit ==
    /\ phase = "idle"
    /\ type = "" /\ value = << >> /\ members = {} /\ wire = JNull
    /\ edits = {} /\ got = {}

-----------------------------------------------------------------------------
(***************************************************************************)
(* The members of the object that a value v of type T is written as: those *)
(* of its struct, those of the struct inside it, or those of an arm and    *)
(* the tag.                                                                *)
(***************************************************************************)
MembersOf(T, v) ==
    LET fields == StructFields(Schema[IF IsSum(T) THEN v[1] ELSE T])
    IN  {fields[i] : i \in DOMAIN fields}
        \cup (IF Schema[T][1] = "tagged" THEN {Field("tag", Schema[T][2], Str, Nothing)} ELSE {})

KeysThat(how) == {m.key : m \in {x \in members : x.how = how}}

\* A Json member accepts any JSON, so its shape cannot be wrong.
RawKeys == {m.key : m \in {x \in members : IsRaw(x.type)}}

\* What the type of a config option makes required of it.
ToggleKeys ==
    IF type # "ConfigOption" THEN {}
    ELSE IF IsBoolean(value) THEN {"type"} ELSE {"options"}

RequiredKeys == KeysThat("required") \cup KeysThat("tag") \cup ToggleKeys

BreakableKeys == (KeysThat("required") \ RawKeys) \cup KeysThat("tag")

\* v with its Maybe and defaulted members in K as if they had been left out.
LeftOut(v, K) ==
    LET Absent(k) == (CHOOSE m \in members : m.key = k).or
        Reset(x) == [k \in DOMAIN x |-> IF k \in K THEN Absent(k) ELSE x[k]]
    IN  IF K = {} THEN v
        ELSE IF IsSum(type) THEN <<v[1], Reset(v[2])>> ELSE Reset(v)

-----------------------------------------------------------------------------
Send(T, v) ==
    /\ phase = "idle"
    /\ phase' = "wire"
    /\ type' = T
    /\ value' = v
    /\ members' = MembersOf(T, v)
    /\ wire' = ToJson(Ref(T), v)
    /\ UNCHANGED <<edits, got>>

\* The peer's wire form differs from ours in one more key.
Edit(op, k, j) ==
    /\ phase = "wire"
    /\ IsObj(wire)
    /\ Cardinality(edits) < MaxEdits
    /\ \A e \in edits : e[2] # k
    /\ edits' = edits \cup {<<op, k>>}
    /\ wire' = j
    /\ UNCHANGED <<phase, type, value, members, got>>

\* A member this version has not heard of.
AddUnknown == Edit("add", Unheard, With(wire, Unheard, JStr("x")))

Vendor == JObj([vendor |-> JStr("x")])

\* Custom metadata.
AddMeta == Edit("meta", "_meta", With(wire, "_meta", Vendor))

\* A Maybe or a defaulted member left out, or a required one or the tag lost.
Drop(k) == Has(wire, k) /\ Edit("drop", k, Without(wire, k))

\* A Maybe written as null.
Null(k) == Edit("null", k, With(wire, k, JNull))

\* A required member of the wrong JSON type, or a tag nobody knows.
Wrong(j, k) ==
    IF At(j, k)[1] = "str" /\ k \notin KeysThat("tag") THEN JNum(0) ELSE JStr(Garbage)

Break(k) == Has(wire, k) /\ Edit("break", k, With(wire, k, Wrong(wire, k)))

\* from_json<T>(j)
Receive ==
    /\ phase = "wire"
    /\ got' = FromJson(Ref(type), wire)
    /\ phase' = IF got' = {} THEN "refused" ELSE "got"
    /\ UNCHANGED <<type, value, members, wire, edits>>

\* to_json of what was decoded.
Forward ==
    /\ phase = "got"
    /\ phase' = "forwarded"
    /\ wire' = ToJson(Ref(type), The(got))
    /\ UNCHANGED <<type, value, members, edits, got>>

RelayNext ==
    \/ phase = "idle" /\ \E T \in DOMAIN Samples : \E v \in Samples[T] : Send(T, v)
    \/ phase = "wire" /\ \/ AddUnknown
                         \/ AddMeta
                         \/ \E k \in RequiredKeys : Drop(k)
                         \/ \E k \in KeysThat("optional") : Drop(k) \/ Null(k)
                         \/ \E k \in KeysThat("defaulted") : Drop(k)
                         \/ \E k \in BreakableKeys : Break(k)
    \/ Receive
    \/ Forward

RelaySpec == RelayInit /\ [][RelayNext]_relayVars

-----------------------------------------------------------------------------
(***************************************************************************)
(* Properties.                                                             *)
(***************************************************************************)
Decoded == phase \in {"got", "refused"}

Edited(op) == {e[2] : e \in {x \in edits : x[1] = op}}

\* What is decoded from our own wire form is the value that was encoded, for
\* every type, every arm and every member (README.md:192-196, "Every data field
\* of all 135 schema definitions").
RoundTrip ==
    Decoded /\ edits = {} => got = {Canonical(type, value)}

\* A member this version does not know never changes what is decoded, in
\* particular not the arm of a sum that has no tag.
UnknownMembersIgnored ==
    Decoded /\ edits # {} /\ Edited("add") = {e[2] : e \in edits} =>
        got = {Canonical(type, value)}

\* Leaving out a Maybe and writing it as null mean the same, and a defaulted
\* member that is left out has its default (tools.hpp:143-146).
AbsenceMeansDefault ==
    Decoded /\ {e[1] : e \in edits} \subseteq {"add", "drop", "null"}
    /\ (Edited("drop") \cup Edited("null")) \cap RequiredKeys = {} =>
        got = {LeftOut(Canonical(type, value), Edited("drop") \cup Edited("null"))}

\* A wire form without a required member or a known tag, or with one of the
\* wrong type, is refused whatever else it holds: it never decodes to a value
\* with a made-up member (tests/schema_conformance.cpp:56-62).
RequiredEnforced ==
    Decoded /\ (Edited("drop") \cup Edited("break")) \cap RequiredKeys # {} =>
        phase = "refused"

\* Whatever a peer wrote, one hop through this library makes it canonical:
\* further hops change neither the value nor its wire form.  (The round_trip
\* of tests/spec_round_trip.cpp:11-21, from any wire form that decodes.)
StableAfterOneHop ==
    phase = "forwarded" =>
        /\ FromJson(Ref(type), wire) = {Canonical(type, The(got))}
        /\ ToJson(Ref(type), Canonical(type, The(got))) = wire

\* Custom metadata survives the hop on each type that defines it, and an empty
\* _meta is never written (README.md:194-196).
MetaForwarded ==
    phase = "forwarded" =>
        /\ <<"meta", "_meta">> \in edits /\ KeysThat("meta") # {} =>
               Has(wire, "_meta") /\ At(wire, "_meta") = Vendor
        /\ Has(wire, "_meta") => At(wire, "_meta") # EmptyObj

\* README.md:190 says "`_meta` on every type": metadata a peer put on any object
\* would survive the hop.
MetaOnEveryType ==
    phase = "forwarded" /\ <<"meta", "_meta">> \in edits => Has(wire, "_meta")
=============================================================================
