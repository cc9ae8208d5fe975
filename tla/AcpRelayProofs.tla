---------------------------- MODULE AcpRelayProofs ----------------------------
(***************************************************************************)
(* Theorems about the codecs of all types together, by induction over the  *)
(* nesting of the types, and about values on their way between two peers.  *)
(***************************************************************************)
EXTENDS AcpRelay, AcpCodecProofs, WellFoundedInduction

-----------------------------------------------------------------------------
(***************************************************************************)
(* What Codecs says of a type that is declared.                            *)
(***************************************************************************)
LEMMA NamedCodecs ==
    ASSUME Codecs, NEW T \in DOMAIN Schema, NEW x
    PROVE  /\ ToJson(Ref(T), x) = EncodeNamed(T, Schema[T], x)
           /\ FromJson(Ref(T), x) = DecodeNamed(T, Schema[T], x)
           /\ IsValue(Ref(T), x) <=> IsNamed(T, Schema[T], x)
<1>1. PICK t : t = Ref(T)
  OBVIOUS
<1>2. t[1] = "ref" /\ t[2] = T
  BY <1>1 DEF Ref
<1>3. t \in Types
  BY <1>1, DepthAssumption
<1>4. ToJson(t, x) = EncodeNamed(T, Schema[T], x)
  BY <1>2, <1>3 DEF Codecs, Encode
<1>5. FromJson(t, x) = DecodeNamed(T, Schema[T], x)
  BY <1>2, <1>3 DEF Codecs, Decode
<1>6. IsValue(t, x) <=> IsNamed(T, Schema[T], x)
  BY <1>2, <1>3 DEF Codecs, HasType
<1> QED
  BY <1>1, <1>4, <1>5, <1>6

LEMMA RecordCodecs ==
    ASSUME Codecs, NEW T, IsRecord(T), NEW x
    PROVE  /\ ToJson(Ref(T), x) = EncodeRecord(Schema[T][2], x)
           /\ FromJson(Ref(T), x) = DecodeRecord(Schema[T][2], x)
           /\ IsValue(Ref(T), x) <=> IsStruct(Schema[T][2], x)
<1>1. T \in DOMAIN Schema /\ Schema[T][1] = "record"
  BY DEF IsRecord
<1>2. /\ EncodeNamed(T, Schema[T], x) = EncodeRecord(Schema[T][2], x)
      /\ DecodeNamed(T, Schema[T], x) = DecodeRecord(Schema[T][2], x)
      /\ IsNamed(T, Schema[T], x) <=> IsStruct(Schema[T][2], x)
  BY <1>1 DEF EncodeNamed, DecodeNamed, IsNamed
<1> QED
  BY <1>1, <1>2, NamedCodecs

LEMMA ListCodecs ==
    ASSUME Codecs, NEW t \in Types, t[1] = "list", NEW x
    PROVE  /\ ToJson(t, x) = EncodeList(t[2], x)
           /\ FromJson(t, x) = DecodeList(t[2], x)
           /\ IsValue(t, x) => /\ x = [i \in 1 .. Len(x) |-> x[i]] /\ Len(x) \in Nat
                               /\ \A i \in 1 .. Len(x) : IsValue(t[2], x[i])
<1>1. ToJson(t, x) = EncodeList(t[2], x)
  BY DEF Codecs, Encode
<1>2. FromJson(t, x) = DecodeList(t[2], x)
  BY DEF Codecs, Decode
<1>3. IsValue(t, x) => HasType(t, x)
  BY DEF Codecs
<1>4. HasType(t, x) => /\ x = [i \in 1 .. Len(x) |-> x[i]] /\ Len(x) \in Nat
                       /\ \A i \in 1 .. Len(x) : IsValue(t[2], x[i])
  BY DEF HasType
<1> QED
  BY <1>1, <1>2, <1>3, <1>4

LEMMA AliasCodecs ==
    ASSUME Codecs, NEW T \in DOMAIN Schema, NEW t, Schema[T] = Alias(t), NEW x
    PROVE  /\ ToJson(Ref(T), x) = ToJson(t, x)
           /\ FromJson(Ref(T), x) = FromJson(t, x)
           /\ IsValue(Ref(T), x) <=> IsValue(t, x)
<1>1. Schema[T][1] = "alias" /\ Schema[T][2] = t
  BY DEF Alias
<1>2. /\ EncodeNamed(T, Schema[T], x) = ToJson(t, x)
      /\ DecodeNamed(T, Schema[T], x) = FromJson(t, x)
      /\ IsNamed(T, Schema[T], x) <=> IsValue(t, x)
  BY <1>1 DEF EncodeNamed, DecodeNamed, IsNamed
<1> QED
  BY <1>2, NamedCodecs

LEMMA OwnCodecs ==
    ASSUME Codecs, NEW T \in DOMAIN Schema, Schema[T][1] = "own", NEW x
    PROVE  /\ ToJson(Ref(T), x) = EncodeOwn(T, Schema[T][2], x)
           /\ FromJson(Ref(T), x) = DecodeOwn(T, Schema[T][2], x)
           /\ IsValue(Ref(T), x) <=> IsOwn(T, Schema[T][2], x)
<1>1. /\ EncodeNamed(T, Schema[T], x) = EncodeOwn(T, Schema[T][2], x)
      /\ DecodeNamed(T, Schema[T], x) = DecodeOwn(T, Schema[T][2], x)
      /\ IsNamed(T, Schema[T], x) <=> IsOwn(T, Schema[T][2], x)
  BY DEF EncodeNamed, DecodeNamed, IsNamed
<1> QED
  BY <1>1, NamedCodecs

\* The types of the members of a struct, and those of the arms of a sum, are
\* types too, less deep.
LEMMA PartsOfRef ==
    ASSUME NEW T
    PROVE  Parts(Ref(T)) = PartsOfNamed(Schema[T])
<1>1. PICK t : t = Ref(T)
  OBVIOUS
<1>2. t[1] = "ref" /\ t[2] = T
  BY <1>1 DEF Ref
<1>3. Parts(t) = PartsOfNamed(Schema[T])
  BY <1>2 DEF Parts
<1> QED
  BY <1>1, <1>3

LEMMA FieldTypes ==
    ASSUME NEW T \in DOMAIN Schema, Schema[T][1] \in {"record", "own"},
           NEW i \in DOMAIN Schema[T][2]
    PROVE  Schema[T][2][i].type \in Parts(Ref(T)) /\ Schema[T][2][i].type \in Types
<1>1. Schema[T][2][i].type \in PartsOfNamed(Schema[T])
  BY DEF PartsOfNamed
<1>2. Schema[T][2][i].type \in Parts(Ref(T))
  BY <1>1, PartsOfRef
<1>3. Ref(T) \in Types
  BY DepthAssumption
<1> QED
  BY <1>2, <1>3, DepthAssumption

LEMMA ArmIsType ==
    ASSUME NEW T \in DOMAIN Schema, NEW A,
           \/ Schema[T][1] = "tagged" /\ \E i \in DOMAIN Schema[T][3] : A = Schema[T][3][i].type
           \/ Schema[T][1] = "choice" /\ \E i \in DOMAIN Schema[T][2] : A = Schema[T][2][i]
    PROVE  Ref(A) \in Parts(Ref(T)) /\ Ref(A) \in Types
<1>1. Ref(A) \in PartsOfNamed(Schema[T])
  BY DEF PartsOfNamed
<1>2. Ref(A) \in Parts(Ref(T))
  BY <1>1, PartsOfRef
<1>3. Ref(T) \in Types
  BY DepthAssumption
<1> QED
  BY <1>2, <1>3, DepthAssumption

-----------------------------------------------------------------------------
(***************************************************************************)
(* A type whose values come back as they were, and are not written as the  *)
(* null that a Maybe of them would be read as nothing for.                 *)
(***************************************************************************)
Good(t) ==
    \A v : IsValue(t, v) =>
        /\ FromJson(t, ToJson(t, v)) = {v}
        /\ IsRaw(t) \/ ToJson(t, v) # JNull

LEMMA RawCodecs ==
    ASSUME Codecs, NEW t \in Types, IsRaw(t), NEW x
    PROVE  ToJson(t, x) = x /\ FromJson(t, x) = {x}
<1>1. ToJson(t, x) = x
  BY DEF Codecs, Encode, IsRaw
<1>2. FromJson(t, x) = {x}
  BY DEF Codecs, Decode, IsRaw
<1> QED
  BY <1>1, <1>2

\* What IsFields says of each member.
LEMMA FieldRows ==
    ASSUME NEW fields, NEW hows, IsFields(fields, hows)
    PROVE  /\ \A i, k \in DOMAIN fields : fields[i].key = fields[k].key => i = k
           /\ \A i \in DOMAIN fields :
                  /\ fields[i].how \in hows
                  /\ fields[i].how = "optional" => fields[i].or = Nothing
                  /\ fields[i].how = "required" => ~IsLax(fields[i].type)
                  /\ fields[i].how = "meta" => IsRaw(fields[i].type)
                  /\ fields[i].how = "meta" <=> fields[i].key = "_meta"
<1>1. \A i \in DOMAIN fields : IsFieldRow(fields[i], hows)
  BY DEF IsFields
<1> QED
  BY <1>1 DEF IsFields, IsFieldRow

\* Each such member is read as it was, but for a Maybe<Json> that holds null ...
LEMMA StructFieldsRead ==
    ASSUME Codecs, NEW fields, IsFields(fields, RecordHows),
           \A i \in DOMAIN fields : fields[i].type \in Types /\ Good(fields[i].type),
           NEW v, NEW w, w = NoNull(fields, v), IsStruct(fields, w)
    PROVE  ReadTo(fields, EncodeRecord(fields, v), w)
<1>1. PICK raw : raw = RawMaybes(fields)
  OBVIOUS
<1>2. /\ \A i, k \in DOMAIN fields : fields[i].key = fields[k].key => i = k
      /\ \A i \in DOMAIN fields : fields[i].how \in {"required", "optional", "defaulted", "meta"}
      /\ \A i \in DOMAIN fields :
             fields[i].how = "meta" => fields[i].key = "_meta" /\ IsRaw(fields[i].type)
  BY FieldRows DEF RecordHows
<1>3. ASSUME NEW i \in DOMAIN fields
      PROVE  fields[i].key \in raw <=> fields[i].how = "optional" /\ IsRaw(fields[i].type)
  BY <1>1, <1>2 DEF RawMaybes, How
<1>4. /\ w = [k \in {fields[i].key : i \in DOMAIN fields} |-> w[k]]
      /\ \A i \in DOMAIN fields : IsField(fields[i], w[fields[i].key])
  BY DEF IsStruct, KeysOfFields
<1>5. ASSUME NEW i \in DOMAIN fields
      PROVE  w[fields[i].key] = IF fields[i].key \in raw /\ v[fields[i].key] = Just(JNull)
                                THEN Nothing ELSE v[fields[i].key]
  <2>1. CASE raw = {}
    BY <1>1, <2>1 DEF NoNull
  <2>2. CASE raw # {}
    <3>1. w = [k \in DOMAIN v |-> IF k \in raw /\ v[k] = Just(JNull) THEN Nothing ELSE v[k]]
      BY <1>1, <2>2 DEF NoNull
    <3>2. fields[i].key \in DOMAIN w
      BY <1>4
    <3> QED
      BY <3>1, <3>2
  <2> QED
    BY <2>1, <2>2
<1>6. ASSUME NEW i \in DOMAIN fields
      PROVE  ReadsAs(fields[i], v[fields[i].key], w[fields[i].key])
  <2> DEFINE f == fields[i]
             x == v[fields[i].key]
             y == w[fields[i].key]
  <2>1. IsField(f, y) /\ f.type \in Types /\ Good(f.type)
    BY <1>4
  <2>2. y = IF f.key \in raw /\ x = Just(JNull) THEN Nothing ELSE x
    BY <1>5
  <2>3. f.key \in raw <=> f.how = "optional" /\ IsRaw(f.type)
    BY <1>3
  <2>4. /\ f.how \in {"required", "optional", "defaulted", "meta"}
        /\ f.how = "meta" => f.key = "_meta" /\ IsRaw(f.type)
    BY <1>2
  <2> HIDE DEF f, x, y
  <2>5. CASE f.how \in {"required", "defaulted"}
    <3>1. y = x
      BY <2>2, <2>3, <2>5
    <3>2. IsValue(f.type, x)
      BY <2>1, <2>5, <3>1 DEF IsField
    <3>3. FromJson(f.type, ToJson(f.type, x)) = {x}
      BY <2>1, <3>2 DEF Good
    <3> QED
      BY <2>5, <3>1, <3>3 DEF ReadsAs, f, x, y
  <2>6. CASE f.how = "optional"
    <3>1. CASE IsRaw(f.type) /\ x = Just(JNull)
      <4>1. y = Nothing
        BY <2>2, <2>3, <2>6, <3>1
      <4>2. ToJson(f.type, JNull) = JNull
        BY <2>1, <3>1, RawCodecs
      <4> QED
        BY <2>6, <3>1, <4>1, <4>2 DEF ReadsAs, f, x, y
    <3>2. CASE ~(IsRaw(f.type) /\ x = Just(JNull))
      <4>1. y = x
        BY <2>2, <2>3, <3>2
      <4>2. CASE x = Nothing
        BY <2>6, <4>1, <4>2 DEF ReadsAs, f, x, y
      <4>3. CASE x # Nothing
        <5>1. PICK z : z = The(x)
          OBVIOUS
        <5>2. x = Just(z) /\ IsValue(f.type, z) /\ (IsRaw(f.type) => z # JNull)
          BY <2>1, <2>6, <4>1, <4>3, <5>1 DEF IsField
        <5>3. FromJson(f.type, ToJson(f.type, z)) = {z}
          BY <2>1, <5>2 DEF Good
        <5>4. ToJson(f.type, z) # JNull
          BY <2>1, <5>2, RawCodecs DEF Good
        <5> QED
          BY <2>6, <4>1, <5>2, <5>3, <5>4 DEF ReadsAs, f, x, y
      <4> QED
        BY <4>2, <4>3
    <3> QED
      BY <3>1, <3>2
  <2>7. CASE f.how = "meta"
    <3>1. y = x
      BY <2>2, <2>3, <2>7
    <3>2. IsObj(x)
      BY <2>1, <2>7, <3>1 DEF IsField
    <3>3. ToJson(f.type, x) = x
      BY <2>1, <2>4, <2>7, RawCodecs
    <3> QED
      BY <2>4, <2>7, <3>1, <3>2, <3>3 DEF ReadsAs, f, x, y
  <2> QED
    BY <2>4, <2>5, <2>6, <2>7
<1>7. \A i \in DOMAIN fields :
          DecodeField(fields[i], EncodeRecord(fields, v)) = {w[fields[i].key]}
  BY <1>2, <1>6, FieldsReadBack
<1>8. IsObj(EncodeRecord(fields, v))
  BY ObjOfHas DEF EncodeRecord
<1> QED
  BY <1>4, <1>7, <1>8 DEF ReadTo

\* ... and a struct of such members comes back so.
LEMMA StructReads ==
    ASSUME Codecs, NEW fields, IsFields(fields, RecordHows),
           \A i \in DOMAIN fields : fields[i].type \in Types /\ Good(fields[i].type),
           NEW v, NEW w, w = NoNull(fields, v), IsStruct(fields, w)
    PROVE  DecodeRecord(fields, EncodeRecord(fields, v)) = {w}
BY StructFieldsRead, RecordOfFields

\* What a struct is written as has the members that it must have, and no
\* others.
LEMMA RecordMembers ==
    ASSUME NEW fields, NEW v
    PROVE  /\ IsObj(EncodeRecord(fields, v))
           /\ \A k : k \notin KeysOfFields(fields) => ~Has(EncodeRecord(fields, v), k)
           /\ \A k \in Keys(fields, "required") : Has(EncodeRecord(fields, v), k)
<1>1. PICK S : S = {<<fields[i].key, EncodeField(fields[i], v)>> :
                      i \in {k \in DOMAIN fields : Written(fields[k], v)}}
  OBVIOUS
<1>2. EncodeRecord(fields, v) = ObjOf(S)
  BY <1>1 DEF EncodeRecord
<1>3. \A k : Has(ObjOf(S), k) <=> \E m \in S : m[1] = k
  BY ObjOfHas
<1>4. ASSUME NEW k, Has(ObjOf(S), k)
      PROVE  k \in KeysOfFields(fields)
  BY <1>1, <1>3, <1>4 DEF KeysOfFields
<1>5. ASSUME NEW k \in Keys(fields, "required")
      PROVE  Has(ObjOf(S), k)
  <2>1. PICK i \in DOMAIN fields : fields[i].how = "required" /\ k = fields[i].key
    BY DEF Keys, How
  <2>2. Written(fields[i], v)
    BY <2>1 DEF Written
  <2>3. <<fields[i].key, EncodeField(fields[i], v)>> \in S
    BY <1>1, <2>2
  <2> QED
    BY <1>3, <2>1, <2>3
<1> QED
  BY <1>2, <1>4, <1>5, ObjOfHas

LEMMA RecordIsWritten ==
    ASSUME Codecs, NEW T, IsRecord(T), NEW v
    PROVE  /\ IsObj(ToJson(Ref(T), v))
           /\ \A k : k \notin KeysOfFields(Schema[T][2]) => ~Has(ToJson(Ref(T), v), k)
           /\ \A k \in Keys(Schema[T][2], "required") : Has(ToJson(Ref(T), v), k)
BY RecordCodecs, RecordMembers

LEMMA RecordReads ==
    ASSUME Codecs, NEW T, IsRecord(T), \A s \in Parts(Ref(T)) : Good(s),
           NEW v, NEW w, w = NoNull(Schema[T][2], v), IsValue(Ref(T), w)
    PROVE  FromJson(Ref(T), ToJson(Ref(T), v)) = {w}
<1>1. PICK fields : fields = Schema[T][2]
  OBVIOUS
<1>2. IsFields(fields, RecordHows) /\ T \in DOMAIN Schema /\ Schema[T][1] = "record"
  BY <1>1 DEF IsRecord
<1>3. \A i \in DOMAIN fields : fields[i].type \in Types /\ Good(fields[i].type)
  BY <1>1, <1>2, FieldTypes
<1>4. IsStruct(fields, w)
  BY <1>1, RecordCodecs
<1>5. DecodeRecord(fields, EncodeRecord(fields, v)) = {w}
  BY <1>1, <1>2, <1>3, <1>4, StructReads
<1>6. ToJson(Ref(T), v) = EncodeRecord(fields, v)
  BY <1>1, RecordCodecs
<1>7. \A j : FromJson(Ref(T), j) = DecodeRecord(fields, j)
  BY <1>1, RecordCodecs
<1> QED
  BY <1>5, <1>6, <1>7

-----------------------------------------------------------------------------
(***************************************************************************)
(* Members that the codec of an arm does not look at, such as the tag of   *)
(* the sum.                                                                *)
(***************************************************************************)
LEMMA RecordIgnores ==
    ASSUME Codecs, NEW T, NEW k, Lacks(T, k), NEW j, IsObj(j), NEW x
    PROVE  FromJson(Ref(T), With(j, k, x)) = FromJson(Ref(T), j)
<1>1. PICK fields : fields = Schema[T][2]
  OBVIOUS
<1>2. IsRecord(T) /\ IsFields(fields, RecordHows) /\ k \notin KeysOfFields(fields)
  BY <1>1 DEF Lacks, IsRecord
<1>3. /\ \A i \in DOMAIN fields : fields[i].key # k
      /\ \A i \in DOMAIN fields : fields[i].how = "meta" => fields[i].key = "_meta"
      /\ \A i \in DOMAIN fields :
             fields[i].how \in {"required", "optional", "defaulted", "meta"}
  BY <1>2, FieldRows DEF RecordHows, KeysOfFields
<1>4. DecodeRecord(fields, With(j, k, x)) = DecodeRecord(fields, j)
  BY <1>3, UnknownMembersAreIgnored
<1>5. \A i : FromJson(Ref(T), i) = DecodeRecord(fields, i)
  BY <1>1, <1>2, RecordCodecs
<1> QED
  BY <1>4, <1>5

LEMMA CancelledCodecs ==
    ASSUME Codecs, "PO_Cancelled" \in DOMAIN Schema, Schema["PO_Cancelled"][1] = "own", NEW x
    PROVE  /\ ToJson(Ref("PO_Cancelled"), x) = EmptyObj
           /\ FromJson(Ref("PO_Cancelled"), x) = {<< >>}
           /\ IsValue(Ref("PO_Cancelled"), x) <=> x = << >>
<1>1. PICK T : T = "PO_Cancelled"
  OBVIOUS
<1>2. /\ EncodeOwn(T, Schema[T][2], x) = EmptyObj
      /\ DecodeOwn(T, Schema[T][2], x) = {<< >>}
      /\ IsOwn(T, Schema[T][2], x) <=> x = << >>
  BY <1>1 DEF EncodeOwn, DecodeOwn, IsOwn
<1> QED
  BY <1>1, <1>2, OwnCodecs

LEMMA TagIsIgnored ==
    ASSUME Codecs, NEW T, NEW k, Taggable(T, k), NEW j, IsObj(j), NEW x
    PROVE  FromJson(Ref(T), With(j, k, x)) = FromJson(Ref(T), j)
<1>1. CASE Lacks(T, k)
  BY <1>1, RecordIgnores
<1>2. CASE T = "PO_Cancelled" /\ Schema[T][1] = "own"
  BY <1>2, CancelledCodecs DEF Taggable
<1>3. CASE \E U \in DOMAIN Schema : Schema[T] = Alias(Ref(U)) /\ Lacks(U, k)
  <2>1. PICK U \in DOMAIN Schema : Schema[T] = Alias(Ref(U)) /\ Lacks(U, k)
    BY <1>3
  <2>2. \A i : FromJson(Ref(T), i) = FromJson(Ref(U), i)
    BY <2>1, AliasCodecs DEF Taggable
  <2> QED
    BY <2>1, <2>2, RecordIgnores
<1> QED
  BY <1>1, <1>2, <1>3 DEF Taggable

LEMMA ArmIsWritten ==
    ASSUME Codecs, NEW T, NEW k, Taggable(T, k), NEW v
    PROVE  IsObj(ToJson(Ref(T), v))
<1>1. CASE Lacks(T, k)
  BY <1>1, RecordIsWritten DEF Lacks
<1>2. CASE T = "PO_Cancelled" /\ Schema[T][1] = "own"
  <2>1. ToJson(Ref(T), v) = EmptyObj
    BY <1>2, CancelledCodecs DEF Taggable
  <2> QED
    BY <2>1 DEF EmptyObj, JObj, IsObj
<1>3. CASE \E U \in DOMAIN Schema : Schema[T] = Alias(Ref(U)) /\ Lacks(U, k)
  <2>1. PICK U \in DOMAIN Schema : Schema[T] = Alias(Ref(U)) /\ Lacks(U, k)
    BY <1>3
  <2>2. ToJson(Ref(T), v) = ToJson(Ref(U), v)
    BY <2>1, AliasCodecs DEF Taggable
  <2> QED
    BY <2>1, <2>2, RecordIsWritten DEF Lacks
<1> QED
  BY <1>1, <1>2, <1>3 DEF Taggable

-----------------------------------------------------------------------------
(***************************************************************************)
(* Sums: an arm that comes back as y makes a sum that comes back with it.  *)
(***************************************************************************)
LEMMA TaggedReads ==
    ASSUME Codecs, NEW T \in DOMAIN Schema, Schema[T][1] = "tagged",
           IsTagged(Schema[T][2], Schema[T][3]),
           NEW v, v[1] \in {Schema[T][3][i].type : i \in DOMAIN Schema[T][3]}, NEW y,
           FromJson(Ref(v[1]), ToJson(Ref(v[1]), v[2])) = {y}
    PROVE  FromJson(Ref(T), ToJson(Ref(T), v)) = {<<v[1], y>>} /\ IsObj(ToJson(Ref(T), v))
<1>1. PICK key, arms : key = Schema[T][2] /\ arms = Schema[T][3]
  OBVIOUS
<1>2. PICK n \in DOMAIN arms : v[1] = arms[n].type
  BY <1>1
<1>3. PICK j : j = ToJson(Ref(v[1]), v[2])
  OBVIOUS
<1>4. Taggable(v[1], key)
  BY <1>1, <1>2 DEF IsTagged
<1>5. IsObj(j)
  BY <1>3, <1>4, ArmIsWritten
<1>6. FromJson(Ref(v[1]), With(j, key, JStr(arms[n].label))) = {y}
  BY <1>3, <1>4, <1>5, TagIsIgnored
<1>7. /\ \A i, k \in DOMAIN arms : arms[i].type = arms[k].type => i = k
      /\ \A i, k \in DOMAIN arms : arms[i].label = arms[k].label => i = k
  BY <1>1 DEF IsTagged
<1>8. DecodeTagged(key, arms, EncodeTagged(key, arms, v)) = {<<v[1], y>>}
  BY <1>2, <1>3, <1>6, <1>7, TaggedRoundTrip
<1>9. /\ ToJson(Ref(T), v) = EncodeTagged(key, arms, v)
      /\ \A i : FromJson(Ref(T), i) = DecodeTagged(key, arms, i)
  <2>1. EncodeNamed(T, Schema[T], v) = EncodeTagged(key, arms, v)
    BY <1>1 DEF EncodeNamed
  <2>2. \A i : DecodeNamed(T, Schema[T], i) = DecodeTagged(key, arms, i)
    BY <1>1 DEF DecodeNamed
  <2> QED
    BY <2>1, <2>2, NamedCodecs
<1>10. IsObj(EncodeTagged(key, arms, v))
  BY DEF EncodeTagged, With, IsObj, JObj
<1> QED
  BY <1>8, <1>9, <1>10

LEMMA ChoiceCodecs ==
    ASSUME Codecs, NEW T \in DOMAIN Schema, Schema[T][1] = "choice", NEW x
    PROVE  /\ ToJson(Ref(T), x) = Mark(T, x[1], ToJson(Ref(x[1]), x[2]))
           /\ FromJson(Ref(T), x)
              = UNION {{<<arm, y>> : y \in FromJson(Ref(arm), x)} : arm \in Pick(T, x)}
           /\ IsValue(Ref(T), x) <=>
                  /\ IsArm({Schema[T][2][i] : i \in DOMAIN Schema[T][2]}, x)
                  /\ x[1] = "CSO_Grouped" => x[2] # << >>
<1>1. EncodeNamed(T, Schema[T], x) = Mark(T, x[1], ToJson(Ref(x[1]), x[2]))
  BY DEF EncodeNamed
<1>2. DecodeNamed(T, Schema[T], x)
      = UNION {{<<arm, y>> : y \in FromJson(Ref(arm), x)} : arm \in Pick(T, x)}
  BY DEF DecodeNamed
<1>3. IsNamed(T, Schema[T], x) <=>
          /\ IsArm({Schema[T][2][i] : i \in DOMAIN Schema[T][2]}, x)
          /\ x[1] = "CSO_Grouped" => x[2] # << >>
  BY DEF IsNamed
<1> QED
  BY <1>1, <1>2, <1>3, NamedCodecs

\* One arm that is picked and decodes.
LEMMA PickedArm ==
    ASSUME Codecs, NEW T \in DOMAIN Schema, Schema[T][1] = "choice", NEW j, NEW arm, NEW y,
           Pick(T, j) = {arm}, FromJson(Ref(arm), j) = {y}
    PROVE  FromJson(Ref(T), j) = {<<arm, y>>}
<1>1. FromJson(Ref(T), j) = UNION {{<<a, z>> : z \in FromJson(Ref(a), j)} : a \in {arm}}
  BY ChoiceCodecs
<1>2. UNION {{<<a, z>> : z \in FromJson(Ref(a), j)} : a \in {arm}} = {<<arm, z>> : z \in {y}}
  OBVIOUS
<1> QED
  BY <1>1, <1>2

LEMMA HandSumRow ==
    ASSUME NEW T \in DOMAIN Schema, T \in HandSums
    PROVE  Schema[T][1] = "choice" /\ IsChoice(T, Schema[T][2])
<1>1. PICK body : body = Schema[T]
  OBVIOUS
<1>2. IsRow(T, body)
  BY <1>1, SchemaAssumption
<1>3. body[1] = "choice" /\ IsChoice(T, body[2])
  BY <1>2 DEF IsRow
<1> QED
  BY <1>1, <1>3

LEMMA MarkedArm ==
    ASSUME Codecs, NEW T \in DOMAIN Schema, Schema[T][1] = "choice", NEW arm, NEW x
    PROVE  ToJson(Ref(T), <<arm, x>>) = Mark(T, arm, ToJson(Ref(arm), x))
<1>1. PICK v : v = <<arm, x>>
  OBVIOUS
<1>2. v[1] = arm /\ v[2] = x
  BY <1>1
<1>3. ToJson(Ref(T), v) = Mark(T, v[1], ToJson(Ref(v[1]), v[2]))
  BY ChoiceCodecs
<1> QED
  BY <1>1, <1>2, <1>3

\* Which arm is told from the "type" that is added (session_types.hpp:90-118).
LEMMA McpServerReads ==
    ASSUME Codecs, "McpServer" \in DOMAIN Schema,
           NEW arm \in {"StdioMcpServer", "HttpMcpServer", "SseMcpServer"}, NEW x, NEW y,
           FromJson(Ref(arm), ToJson(Ref(arm), x)) = {y}
    PROVE  /\ FromJson(Ref("McpServer"), ToJson(Ref("McpServer"), <<arm, x>>)) = {<<arm, y>>}
           /\ IsObj(ToJson(Ref("McpServer"), <<arm, x>>))
<1>1. PICK T : T = "McpServer"
  OBVIOUS
<1>2. Schema[T][1] = "choice" /\ IsChoice(T, Schema[T][2])
  BY <1>1, HandSumRow DEF HandSums
<1>3. Lacks(arm, "type")
  <2>1. PICK arms : arms = Schema[T][2]
    OBVIOUS
  <2>2. /\ arms = <<"StdioMcpServer", "HttpMcpServer", "SseMcpServer">>
        /\ \A i \in DOMAIN arms : Lacks(arms[i], "type")
    BY <1>1, <1>2, <2>1 DEF IsChoice
  <2>3. /\ arms[1] = "StdioMcpServer" /\ arms[2] = "HttpMcpServer" /\ arms[3] = "SseMcpServer"
        /\ 1 \in DOMAIN arms /\ 2 \in DOMAIN arms /\ 3 \in DOMAIN arms
    BY <2>2
  <2> QED
    BY <2>2, <2>3
<1>4. PICK j : j = ToJson(Ref(arm), x)
  OBVIOUS
<1>5. IsObj(j) /\ ~Has(j, "type")
  BY <1>3, <1>4, RecordIsWritten DEF Lacks
<1>6. PICK m : m = MarkMcpServer(arm, j)
  OBVIOUS
<1>7. ToJson(Ref(T), <<arm, x>>) = m
  <2>1. ToJson(Ref(T), <<arm, x>>) = Mark(T, arm, j)
    BY <1>1, <1>2, <1>4, MarkedArm
  <2> QED
    BY <1>1, <1>6, <2>1 DEF Mark
<1>8. Pick(T, m) = {arm}
  <2>1. PickMcpServer(m) = {arm}
    BY <1>5, <1>6, McpServerRoundTrip
  <2> QED
    BY <1>1, <2>1 DEF Pick
<1>9. m = j \/ \E s : m = With(j, "type", s)
  BY <1>6 DEF MarkMcpServer
<1>10. FromJson(Ref(arm), m) = {y}
  BY <1>3, <1>4, <1>5, <1>9, RecordIgnores
<1>11. IsObj(m)
  BY <1>5, <1>9 DEF With, IsObj, JObj
<1>12. FromJson(Ref(T), m) = {<<arm, y>>}
  BY <1>1, <1>2, <1>8, <1>10, PickedArm
<1> QED
  BY <1>1, <1>7, <1>11, <1>12

\* A text resource has a "text", and a blob has none (content.hpp:136-155).
LEMMA EmbeddedResourceReads ==
    ASSUME Codecs, "EmbeddedResource" \in DOMAIN Schema,
           NEW arm \in {"TextResource", "BlobResource"}, NEW x, NEW y,
           FromJson(Ref(arm), ToJson(Ref(arm), x)) = {y}
    PROVE  /\ FromJson(Ref("EmbeddedResource"), ToJson(Ref("EmbeddedResource"), <<arm, x>>))
                  = {<<arm, y>>}
           /\ IsObj(ToJson(Ref("EmbeddedResource"), <<arm, x>>))
<1>1. PICK T : T = "EmbeddedResource"
  OBVIOUS
<1>2. Schema[T][1] = "choice" /\ IsChoice(T, Schema[T][2])
  BY <1>1, HandSumRow DEF HandSums
<1>3. /\ Demands("TextResource", "text")
      /\ Demands("BlobResource", "blob") /\ Lacks("BlobResource", "text")
  BY <1>1, <1>2 DEF IsChoice
<1>4. PICK j : j = ToJson(Ref(arm), x)
  OBVIOUS
<1>5. ToJson(Ref(T), <<arm, x>>) = j
  <2>1. ToJson(Ref(T), <<arm, x>>) = Mark(T, arm, j)
    BY <1>1, <1>2, <1>4, MarkedArm
  <2> QED
    BY <1>1, <2>1 DEF Mark
<1>6. Pick(T, j) = {arm} /\ IsObj(j)
  <2>1. CASE arm = "TextResource"
    <3>1. Has(j, "text") /\ IsObj(j)
      BY <1>3, <1>4, <2>1, RecordIsWritten DEF Demands
    <3> QED
      BY <1>1, <2>1, <3>1 DEF Pick, PickEmbeddedResource
  <2>2. CASE arm = "BlobResource"
    <3>1. Has(j, "blob") /\ ~Has(j, "text") /\ IsObj(j)
      BY <1>3, <1>4, <2>2, RecordIsWritten DEF Demands, Lacks
    <3> QED
      BY <1>1, <2>2, <3>1 DEF Pick, PickEmbeddedResource
  <2> QED
    BY <2>1, <2>2
<1>7. FromJson(Ref(T), j) = {<<arm, y>>}
  BY <1>1, <1>2, <1>4, <1>6, PickedArm
<1> QED
  BY <1>1, <1>5, <1>6, <1>7

\* The one kind of input has no "type" (session_types.hpp:298-316).
LEMMA CommandInputReads ==
    ASSUME Codecs, "AvailableCommandInput" \in DOMAIN Schema,
           NEW arm \in {"UnstructuredCommandInput"}, NEW x, NEW y,
           FromJson(Ref(arm), ToJson(Ref(arm), x)) = {y}
    PROVE  /\ FromJson(Ref("AvailableCommandInput"),
                       ToJson(Ref("AvailableCommandInput"), <<arm, x>>)) = {<<arm, y>>}
           /\ IsObj(ToJson(Ref("AvailableCommandInput"), <<arm, x>>))
<1>1. PICK T : T = "AvailableCommandInput"
  OBVIOUS
<1>2. Schema[T][1] = "choice" /\ IsChoice(T, Schema[T][2])
  BY <1>1, HandSumRow DEF HandSums
<1>3. Lacks(arm, "type")
  BY <1>1, <1>2 DEF IsChoice
<1>4. PICK j : j = ToJson(Ref(arm), x)
  OBVIOUS
<1>5. ToJson(Ref(T), <<arm, x>>) = j
  <2>1. ToJson(Ref(T), <<arm, x>>) = Mark(T, arm, j)
    BY <1>1, <1>2, <1>4, MarkedArm
  <2> QED
    BY <1>1, <2>1 DEF Mark
<1>6. IsObj(j) /\ ~Has(j, "type")
  BY <1>3, <1>4, RecordIsWritten DEF Lacks
<1>7. Pick(T, j) = {arm}
  <2>1. StringOr(j, "type", "unstructured") = {"unstructured"}
    BY <1>6 DEF StringOr, Just
  <2> QED
    BY <1>1, <1>6, <2>1 DEF Pick, PickAvailableCommandInput
<1>8. FromJson(Ref(T), j) = {<<arm, y>>}
  BY <1>1, <1>2, <1>4, <1>7, PickedArm
<1> QED
  BY <1>1, <1>5, <1>6, <1>8

LEMMA AliasedList ==
    ASSUME Codecs, NEW T \in DOMAIN Schema, NEW t, Schema[T] = Alias(List(t)), NEW x
    PROVE  /\ ToJson(Ref(T), x) = EncodeList(t, x)
           /\ FromJson(Ref(T), x) = DecodeList(t, x)
           /\ IsValue(Ref(T), x) => /\ x = [i \in 1 .. Len(x) |-> x[i]] /\ Len(x) \in Nat
                                    /\ \A i \in 1 .. Len(x) : IsValue(t, x[i])
<1>1. PICK l : l = List(t)
  OBVIOUS
<1>2. l[1] = "list" /\ l[2] = t
  BY <1>1 DEF List
<1>3. l \in Types
  <2>1. Schema[T][1] = "alias" /\ Schema[T][2] = l
    BY <1>1 DEF Alias
  <2>2. l \in PartsOfNamed(Schema[T])
    BY <2>1 DEF PartsOfNamed
  <2>3. l \in Parts(Ref(T)) /\ Ref(T) \in Types
    BY <2>2, PartsOfRef, DepthAssumption
  <2> QED
    BY <2>3, DepthAssumption
<1>4. ToJson(Ref(T), x) = ToJson(l, x) /\ FromJson(Ref(T), x) = FromJson(l, x)
      /\ (IsValue(Ref(T), x) <=> IsValue(l, x))
  BY <1>1, AliasCodecs
<1> QED
  BY <1>2, <1>3, <1>4, ListCodecs

\* Options are grouped if the first one has a "group", so groups that are empty
\* are taken for no options (session_types.hpp:198-216).
LEMMA SelectOptionsRow ==
    ASSUME "ConfigSelectOptions" \in DOMAIN Schema
    PROVE  /\ Schema["ConfigSelectOptions"][1] = "choice"
           /\ Schema["ConfigSelectOptions"][2] = <<"CSO_Ungrouped", "CSO_Grouped">>
           /\ "CSO_Ungrouped" \in DOMAIN Schema /\ "CSO_Grouped" \in DOMAIN Schema
           /\ Schema["CSO_Ungrouped"] = Alias(List(Ref("ConfigSelectOption")))
           /\ Schema["CSO_Grouped"] = Alias(List(Ref("ConfigSelectGroup")))
           /\ Lacks("ConfigSelectOption", "group")
           /\ Demands("ConfigSelectGroup", "group")
<1>1. PICK T : T = "ConfigSelectOptions"
  OBVIOUS
<1>2. Schema[T][1] = "choice" /\ IsChoice(T, Schema[T][2])
  BY <1>1, HandSumRow DEF HandSums
<1> QED
  BY <1>1, <1>2 DEF IsChoice

LEMMA SelectOptionsRead ==
    ASSUME Codecs, "ConfigSelectOptions" \in DOMAIN Schema,
           NEW arm \in {"CSO_Ungrouped", "CSO_Grouped"}, NEW q, IsValue(Ref(arm), q),
           arm = "CSO_Grouped" => q # << >>,
           FromJson(Ref(arm), ToJson(Ref(arm), q)) = {q}
    PROVE  /\ FromJson(Ref("ConfigSelectOptions"),
                       ToJson(Ref("ConfigSelectOptions"), <<arm, q>>)) = {<<arm, q>>}
           /\ ToJson(Ref("ConfigSelectOptions"), <<arm, q>>) # JNull
<1>1. PICK T : T = "ConfigSelectOptions"
  OBVIOUS
<1>2. Schema[T][1] = "choice"
  BY <1>1, SelectOptionsRow
<1>3. PICK j : j = ToJson(Ref(arm), q)
  OBVIOUS
<1>4. ToJson(Ref(T), <<arm, q>>) = j
  <2>1. ToJson(Ref(T), <<arm, q>>) = Mark(T, arm, j)
    BY <1>1, <1>2, <1>3, MarkedArm
  <2> QED
    BY <1>1, <2>1 DEF Mark
<1>5. j[1] = "arr" /\ Pick(T, j) = {arm}
  <2>1. CASE arm = "CSO_Ungrouped"
    <3>1. j = EncodeList(Ref("ConfigSelectOption"), q) /\ q = [i \in 1 .. Len(q) |-> q[i]]
      BY <1>3, <2>1, AliasedList, SelectOptionsRow
    <3>2. j[1] = "arr" /\ j[2] = [i \in DOMAIN q |-> ToJson(Ref("ConfigSelectOption"), q[i])]
      BY <3>1 DEF EncodeList, JArr
    <3>3. ~(j[2] # << >> /\ Has(j[2][1], "group"))
      <4>1. CASE 1 \in DOMAIN q
        <5>1. j[2][1] = ToJson(Ref("ConfigSelectOption"), q[1])
          BY <3>2, <4>1
        <5> QED
          BY <5>1, RecordIsWritten, SelectOptionsRow DEF Lacks
      <4>2. CASE 1 \notin DOMAIN q
        <5>1. q = << >>
          BY <1>3, <2>1, <3>1, <4>2, AliasedList, SelectOptionsRow
        <5>2. j[2] = << >>
          BY <3>2, <5>1
        <5> QED
          BY <5>2
      <4> QED
        BY <4>1, <4>2
    <3> QED
      BY <1>1, <2>1, <3>2, <3>3 DEF Pick, PickConfigSelectOptions
  <2>2. CASE arm = "CSO_Grouped"
    <3>1. /\ j = EncodeList(Ref("ConfigSelectGroup"), q)
          /\ q = [i \in 1 .. Len(q) |-> q[i]] /\ Len(q) \in Nat
      BY <1>3, <2>2, AliasedList, SelectOptionsRow
    <3>2. j[1] = "arr" /\ j[2] = [i \in DOMAIN q |-> ToJson(Ref("ConfigSelectGroup"), q[i])]
      BY <3>1 DEF EncodeList, JArr
    <3>3. 1 \in DOMAIN q
      <4>1. Len(q) # 0
        BY <2>2, <3>1
      <4> QED
        BY <3>1, <4>1
    <3>4. j[2][1] = ToJson(Ref("ConfigSelectGroup"), q[1]) /\ 1 \in DOMAIN j[2]
      BY <3>2, <3>3
    <3>5. j[2] # << >> /\ Has(j[2][1], "group")
      BY <3>4, RecordIsWritten, SelectOptionsRow DEF Demands
    <3> QED
      BY <1>1, <2>2, <3>2, <3>5 DEF Pick, PickConfigSelectOptions
  <2> QED
    BY <2>1, <2>2
<1>6. FromJson(Ref(T), j) = {<<arm, q>>}
  BY <1>1, <1>2, <1>3, <1>5, PickedArm
<1> QED
  BY <1>1, <1>4, <1>5, <1>6 DEF JNull

LEMMA NoGroupsAreNoOptions ==
    ASSUME Codecs, "ConfigSelectOptions" \in DOMAIN Schema, NEW v
    PROVE  ToJson(Ref("ConfigSelectOptions"), NoneUngrouped(v))
           = ToJson(Ref("ConfigSelectOptions"), v)
<1>1. CASE v # <<"CSO_Grouped", << >>>>
  BY <1>1 DEF NoneUngrouped
<1>2. CASE v = <<"CSO_Grouped", << >>>>
  <2>1. PICK T : T = "ConfigSelectOptions"
    OBVIOUS
  <2>2. Schema[T][1] = "choice"
    BY <2>1, SelectOptionsRow
  <2>3. \A arm, q : ToJson(Ref(T), <<arm, q>>) = ToJson(Ref(arm), q)
    BY <2>1, <2>2, MarkedArm DEF Mark
  <2>4. \A t : EncodeList(t, << >>) = JArr(<< >>)
    BY DEF EncodeList
  <2>5. /\ ToJson(Ref("CSO_Grouped"), << >>) = JArr(<< >>)
        /\ ToJson(Ref("CSO_Ungrouped"), << >>) = JArr(<< >>)
    BY <2>4, AliasedList, SelectOptionsRow
  <2>6. NoneUngrouped(v) = <<"CSO_Ungrouped", << >>>>
    BY <1>2 DEF NoneUngrouped
  <2> QED
    BY <1>2, <2>1, <2>3, <2>5, <2>6
<1> QED
  BY <1>1, <1>2

-----------------------------------------------------------------------------
(***************************************************************************)
(* Structs with a codec written by hand.                                   *)
(***************************************************************************)
LEMMA OwnRow ==
    ASSUME NEW T \in DOMAIN Schema, T \in HandStructs
    PROVE  /\ Schema[T][1] = "own" /\ IsOwnRow(T, Schema[T][2])
           /\ StructFields(Schema[T]) = Schema[T][2]
           /\ \A v : NoNull(StructFields(Schema[T]), v) = v
<1>1. PICK body : body = Schema[T]
  OBVIOUS
<1>2. IsRow(T, body)
  BY <1>1, SchemaAssumption
<1>3. body[1] = "own" /\ IsOwnRow(T, body[2])
  BY <1>2 DEF IsRow
<1>4. StructFields(body) = body[2]
  BY <1>3 DEF StructFields
<1>5. \A v : NoNull(body[2], v) = v
  BY <1>3 DEF IsOwnRow, NoNull
<1> QED
  BY <1>1, <1>3, <1>4, <1>5

LEMMA AuthMethodReads ==
    ASSUME Codecs, "AuthMethod" \in DOMAIN Schema,
           NEW v, NEW w, w = Canonical("AuthMethod", v), IsValue(Ref("AuthMethod"), w)
    PROVE  /\ FromJson(Ref("AuthMethod"), ToJson(Ref("AuthMethod"), v)) = {w}
           /\ ToJson(Ref("AuthMethod"), v) # JNull
<1>1. PICK T : T = "AuthMethod"
  OBVIOUS
<1>2. Schema[T][1] = "own" /\ NoNull(StructFields(Schema[T]), v) = v
  BY <1>1, OwnRow DEF HandStructs
<1>3. ~IsSum(T)
  BY <1>2 DEF IsSum
<1>4. w = IF v.type # "terminal" THEN [v EXCEPT !.args = << >>, !.env = << >>] ELSE v
  BY <1>1, <1>2, <1>3 DEF Canonical
<1>5. IsAuthMethod(w) /\ (w.type # "terminal" => w.args = << >> /\ w.env = << >>)
  <2>1. IsOwn(T, Schema[T][2], w)
    BY <1>1, <1>2, OwnCodecs
  <2> QED
    BY <1>1, <2>1 DEF IsOwn
<1>6. /\ w.id = v.id /\ w.name = v.name /\ w.description = v.description
      /\ w.type = v.type /\ w._meta = v._meta
      /\ w.type = "terminal" => w.args = v.args /\ w.env = v.env
  BY <1>4, <1>5 DEF IsAuthMethod
<1>7. EncodeAuthMethod(v) = EncodeAuthMethod(w)
  <2>1. CASE w.type = "terminal"
    BY <1>4, <1>6, <2>1
  <2>2. CASE w.type # "terminal"
    BY <1>6, <2>2 DEF EncodeAuthMethod, When
  <2> QED
    BY <2>1, <2>2
<1>8. DecodeAuthMethod(EncodeAuthMethod(w)) = {w}
  <2>1. DecodeAuthMethod(EncodeAuthMethod(w)) =
            {[id |-> w.id, name |-> w.name, description |-> w.description, type |-> w.type,
              args |-> IF w.type = "terminal" THEN w.args ELSE << >>,
              env |-> IF w.type = "terminal" THEN w.env ELSE << >>, _meta |-> w._meta]}
    BY <1>5, AuthMethodRoundTrip
  <2> QED
    BY <1>5, <2>1 DEF IsAuthMethod
<1>9. /\ ToJson(Ref(T), v) = EncodeAuthMethod(v)
      /\ \A j : FromJson(Ref(T), j) = DecodeAuthMethod(j)
  <2>1. /\ EncodeOwn(T, Schema[T][2], v) = EncodeAuthMethod(v)
        /\ \A j : DecodeOwn(T, Schema[T][2], j) = DecodeAuthMethod(j)
    BY <1>1 DEF EncodeOwn, DecodeOwn
  <2> QED
    BY <1>1, <1>2, <2>1, OwnCodecs
<1>10. EncodeAuthMethod(v) # JNull
  BY DEF EncodeAuthMethod, ObjOf, JObj, JNull
<1> QED
  BY <1>1, <1>7, <1>8, <1>9, <1>10

LEMMA SessionCapabilitiesRead ==
    ASSUME Codecs, "ClientSessionCapabilities" \in DOMAIN Schema,
           NEW v, IsValue(Ref("ClientSessionCapabilities"), v)
    PROVE  /\ FromJson(Ref("ClientSessionCapabilities"),
                       ToJson(Ref("ClientSessionCapabilities"), v)) = {v}
           /\ ToJson(Ref("ClientSessionCapabilities"), v) # JNull
<1>1. PICK T : T = "ClientSessionCapabilities"
  OBVIOUS
<1>2. Schema[T][1] = "own"
  BY <1>1, OwnRow DEF HandStructs
<1>3. IsClientSessionCapabilities(v)
  <2>1. IsOwn(T, Schema[T][2], v)
    BY <1>1, <1>2, OwnCodecs
  <2> QED
    BY <1>1, <2>1 DEF IsOwn
<1>4. DecodeClientSessionCapabilities(EncodeClientSessionCapabilities(v)) = {v}
  BY <1>3, SessionCapabilitiesRoundTrip
<1>5. /\ ToJson(Ref(T), v) = EncodeClientSessionCapabilities(v)
      /\ \A j : FromJson(Ref(T), j) = DecodeClientSessionCapabilities(j)
  <2>1. /\ EncodeOwn(T, Schema[T][2], v) = EncodeClientSessionCapabilities(v)
        /\ \A j : DecodeOwn(T, Schema[T][2], j) = DecodeClientSessionCapabilities(j)
    BY <1>1 DEF EncodeOwn, DecodeOwn
  <2> QED
    BY <1>1, <1>2, <2>1, OwnCodecs
<1>6. EncodeClientSessionCapabilities(v) # JNull
  BY DEF EncodeClientSessionCapabilities, ObjOf, JObj, JNull
<1> QED
  BY <1>1, <1>4, <1>5, <1>6

LEMMA ConfigOptionReads ==
    ASSUME Codecs, "ConfigOption" \in DOMAIN Schema, Good(Ref("ConfigSelectOptions")),
           "ConfigSelectOptions" \in DOMAIN Schema,
           NEW v, NEW w, w = Canonical("ConfigOption", v), IsValue(Ref("ConfigOption"), w)
    PROVE  /\ FromJson(Ref("ConfigOption"), ToJson(Ref("ConfigOption"), v)) = {w}
           /\ ToJson(Ref("ConfigOption"), v) # JNull
<1>1. PICK T : T = "ConfigOption"
  OBVIOUS
<1>2. Schema[T][1] = "own"
  BY <1>1, OwnRow DEF HandStructs
<1>3. w = IF IsBoolean(v)
          THEN [v EXCEPT !.currentValue = "", !.options = <<"CSO_Ungrouped", << >>>>]
          ELSE [v EXCEPT !.currentBool = FALSE, !.options = NoneUngrouped(@)]
  BY DEF Canonical
<1>4. /\ IsConfigOption(w)
      /\ IF IsBoolean(w)
         THEN w.currentValue = "" /\ w.options = <<"CSO_Ungrouped", << >>>>
         ELSE w.currentBool = FALSE /\ IsValue(Ref("ConfigSelectOptions"), w.options)
  <2>1. IsOwn(T, Schema[T][2], w)
    BY <1>1, <1>2, OwnCodecs
  <2> QED
    BY <1>1, <2>1 DEF IsOwn
<1>5. /\ w.id = v.id /\ w.name = v.name /\ w.description = v.description
      /\ w.category = v.category /\ w.type = v.type /\ w._meta = v._meta
      /\ IF IsBoolean(v) THEN w.currentBool = v.currentBool
         ELSE w.currentValue = v.currentValue /\ w.options = NoneUngrouped(v.options)
      /\ IsBoolean(w) <=> IsBoolean(v)
  BY <1>3, <1>4 DEF IsConfigOption, IsBoolean
<1>6. PICK x : x = ToJson(Ref("ConfigSelectOptions"), v.options)
  OBVIOUS
<1>7. PICK j : j = EncodeConfigOption(w, x)
  OBVIOUS
<1>8. EncodeConfigOption(v, x) = j
  <2>1. CASE IsBoolean(v)
    BY <1>5, <1>7, <2>1 DEF EncodeConfigOption, When
  <2>2. CASE ~IsBoolean(v)
    BY <1>5, <1>7, <2>2 DEF EncodeConfigOption, When
  <2> QED
    BY <2>1, <2>2
<1>9. /\ ToJson(Ref(T), v) = j
      /\ \A i : FromJson(Ref(T), i) =
             DecodeConfigOption(i, IF Has(i, "options")
                 THEN FromJson(Ref("ConfigSelectOptions"), At(i, "options")) ELSE {})
  <2>1. EncodeOwn(T, Schema[T][2], v) = EncodeConfigOption(v, x)
    BY <1>1, <1>6 DEF EncodeOwn
  <2>2. \A i : DecodeOwn(T, Schema[T][2], i) =
            DecodeConfigOption(i, IF Has(i, "options")
                THEN FromJson(Ref("ConfigSelectOptions"), At(i, "options")) ELSE {})
    BY <1>1 DEF DecodeOwn
  <2> QED
    BY <1>1, <1>2, <1>8, <2>1, <2>2, OwnCodecs
<1>10. j # JNull
  BY <1>7 DEF EncodeConfigOption, ObjOf, JObj, JNull
<1>11. CASE IsBoolean(w)
  <2>1. /\ ~Has(j, "options")
        /\ DecodeConfigOption(j, {}) =
               {[id |-> w.id, name |-> w.name, description |-> w.description,
                 category |-> w.category, type |-> w.type,
                 currentValue |-> "", currentBool |-> w.currentBool,
                 options |-> <<"CSO_Ungrouped", << >>>>, _meta |-> w._meta]}
    BY <1>4, <1>7, <1>11, ConfigOptionRoundTrip
  <2>2. DecodeConfigOption(j, {}) = {w}
    BY <1>4, <1>11, <2>1 DEF IsConfigOption
  <2>3. FromJson(Ref(T), j) = DecodeConfigOption(j, {})
    BY <1>9, <2>1
  <2> QED
    BY <1>1, <1>9, <1>10, <2>2, <2>3
<1>12. CASE ~IsBoolean(w)
  <2>1. x = ToJson(Ref("ConfigSelectOptions"), w.options)
    BY <1>5, <1>6, <1>12, NoGroupsAreNoOptions
  <2>2. FromJson(Ref("ConfigSelectOptions"), x) = {w.options}
    BY <1>4, <1>12, <2>1 DEF Good
  <2>3. PICK y : y = w.options
    OBVIOUS
  <2>4. /\ Has(EncodeConfigOption(w, x), "options")
        /\ At(EncodeConfigOption(w, x), "options") = x
        /\ DecodeConfigOption(EncodeConfigOption(w, x), {y}) =
               {[id |-> w.id, name |-> w.name, description |-> w.description,
                 category |-> w.category, type |-> w.type,
                 currentValue |-> w.currentValue, currentBool |-> FALSE,
                 options |-> y, _meta |-> w._meta]}
    <3>1. IsConfigOption(w)
      BY <1>4
    <3> QED
      BY <1>12, <3>1, ConfigOptionRoundTrip
  <2>5. DecodeConfigOption(j, {y}) = {w}
    BY <1>4, <1>7, <1>12, <2>3, <2>4 DEF IsConfigOption
  <2>6. FromJson(Ref(T), j) = DecodeConfigOption(j, {y})
    BY <1>7, <1>9, <2>2, <2>3, <2>4
  <2> QED
    BY <1>1, <1>9, <1>10, <2>5, <2>6
<1> QED
  BY <1>11, <1>12

-----------------------------------------------------------------------------
(***************************************************************************)
(* Wire forms that lack some members: w is j, but for members outside K,   *)
(* which are the same, and those in K, which are left out or null.         *)
(***************************************************************************)
SameAt(j, w, k) ==
    /\ Has(w, k) <=> Has(j, k)
    /\ Has(j, k) => At(w, k) = At(j, k)

Absent(f, w) ==
    \/ f.how \in {"optional", "defaulted"} /\ ~Has(w, f.key)
    \/ f.how = "optional" /\ Has(w, f.key) /\ At(w, f.key) = JNull

Spared(fields, j, w, K) ==
    /\ IsObj(w)
    /\ \A i \in DOMAIN fields :
           /\ fields[i].key \in K => Absent(fields[i], w)
           /\ fields[i].key \notin K => SameAt(j, w, fields[i].key)

\* d is c with the defaults of the members in K.
IsReset(fields, K, c, d) ==
    IF K = {} THEN d = c
    ELSE /\ d = [k \in DOMAIN c |-> d[k]]
         /\ \A k \in DOMAIN c \ K : d[k] = c[k]
         /\ \A i \in DOMAIN fields :
                fields[i].key \in K \cap DOMAIN c => d[fields[i].key] = fields[i].or

Trimmed(fields, j, w, K, c, d) ==
    /\ K \subseteq KeysOfFields(fields)
    /\ Spared(fields, j, w, K)
    /\ IsReset(fields, K, c, d)

\* What a member that is the same is read as, and one that is left out.
LEMMA FieldLeftOut ==
    ASSUME NEW f, f.how \in RecordHows, f.how = "optional" => f.or = Nothing,
           f.how = "meta" <=> f.key = "_meta", NEW j, NEW w
    PROVE  /\ SameAt(j, w, f.key) => DecodeField(f, w) = DecodeField(f, j)
           /\ Absent(f, w) => DecodeField(f, w) = {f.or}
<1>1. ASSUME SameAt(j, w, f.key)
      PROVE  DecodeField(f, w) = DecodeField(f, j)
  <2>1. CASE f.how \in {"required", "optional", "defaulted"}
    BY <1>1, <2>1 DEF DecodeField, SameAt
  <2>2. CASE f.how = "meta"
    <3>1. LenientMeta(w) = LenientMeta(j)
      BY <1>1, <2>2 DEF LenientMeta, Holds, SameAt
    <3> QED
      BY <2>2, <3>1 DEF DecodeField
  <2> QED
    BY <2>1, <2>2 DEF RecordHows
<1>2. Absent(f, w) => DecodeField(f, w) = {f.or}
  BY DEF Absent, DecodeField
<1> QED
  BY <1>1, <1>2

LEMMA RecordLeftOut ==
    ASSUME NEW fields, IsFields(fields, RecordHows), NEW j, NEW c, ReadTo(fields, j, c),
           NEW w, NEW K, NEW d, Trimmed(fields, j, w, K, c, d)
    PROVE  ReadTo(fields, w, d)
<1>0. Spared(fields, j, w, K) /\ IsReset(fields, K, c, d)
  BY DEF Trimmed
<1>1. /\ c = [x \in {fields[i].key : i \in DOMAIN fields} |-> c[x]]
      /\ \A i \in DOMAIN fields : DecodeField(fields[i], j) = {c[fields[i].key]}
  BY DEF ReadTo
<1>2. d = [x \in {fields[i].key : i \in DOMAIN fields} |-> d[x]]
  <2>1. CASE K = {}
    BY <1>0, <1>1, <2>1 DEF IsReset
  <2>2. CASE K # {}
    <3>1. d = [x \in DOMAIN c |-> d[x]]
      BY <1>0, <2>2 DEF IsReset
    <3>2. DOMAIN c = {fields[i].key : i \in DOMAIN fields}
      BY <1>1
    <3> QED
      BY <3>1, <3>2
  <2> QED
    BY <2>1, <2>2
<1>3. ASSUME NEW i \in DOMAIN fields
      PROVE  DecodeField(fields[i], w) = {d[fields[i].key]}
  <2>1. PICK f : f = fields[i]
    OBVIOUS
  <2>2. /\ f.how \in RecordHows /\ (f.how = "optional" => f.or = Nothing)
        /\ (f.how = "meta" <=> f.key = "_meta")
    BY <2>1, FieldRows
  <2>3. DecodeField(f, j) = {c[f.key]} /\ f.key \in DOMAIN c
    BY <1>1, <2>1
  <2>4. CASE f.key \in K
    <3>1. Absent(f, w) /\ d[f.key] = f.or
      BY <1>0, <2>1, <2>3, <2>4 DEF Spared, IsReset
    <3> QED
      BY <2>1, <2>2, <3>1, FieldLeftOut
  <2>5. CASE f.key \notin K
    <3>1. SameAt(j, w, f.key)
      BY <1>0, <2>1, <2>5 DEF Spared
    <3>2. d[f.key] = c[f.key]
      BY <1>0, <2>3, <2>5 DEF IsReset
    <3>3. DecodeField(f, w) = DecodeField(f, j)
      BY <2>2, <3>1, FieldLeftOut
    <3> QED
      BY <2>1, <2>3, <3>2, <3>3
  <2> QED
    BY <2>4, <2>5
<1>4. IsObj(w)
  BY <1>0 DEF Spared
<1> QED
  BY <1>2, <1>3, <1>4 DEF ReadTo

-----------------------------------------------------------------------------
(***************************************************************************)
(* ClientCapabilities: a record and the members added to its object.       *)
(***************************************************************************)
LEMMA FieldsAreWritten ==
    ASSUME NEW fields, NEW v, NEW u,
           \A i \in DOMAIN fields : u[fields[i].key] = v[fields[i].key]
    PROVE  EncodeRecord(fields, u) = EncodeRecord(fields, v)
<1>1. PICK e : e = [i \in DOMAIN fields |-> <<fields[i].key, EncodeField(fields[i], v)>>]
  OBVIOUS
<1>2. PICK W : W = {k \in DOMAIN fields : Written(fields[k], v)}
  OBVIOUS
<1>3. \A i \in DOMAIN fields : EncodeField(fields[i], u) = EncodeField(fields[i], v)
  BY DEF EncodeField
<1>4. \A i \in DOMAIN fields : Written(fields[i], u) <=> Written(fields[i], v)
  BY DEF Written
<1>5. {k \in DOMAIN fields : Written(fields[k], u)} = W
  BY <1>2, <1>4
<1>6. {<<fields[i].key, EncodeField(fields[i], u)>> : i \in W} = {e[i] : i \in W}
  BY <1>1, <1>2, <1>3
<1>7. {<<fields[i].key, EncodeField(fields[i], v)>> : i \in W} = {e[i] : i \in W}
  BY <1>1, <1>2
<1>8. EncodeRecord(fields, u) = ObjOf({e[i] : i \in W})
  BY <1>5, <1>6 DEF EncodeRecord
<1>9. EncodeRecord(fields, v) = ObjOf({e[i] : i \in W})
  BY <1>2, <1>7 DEF EncodeRecord
<1> QED
  BY <1>8, <1>9

\* The members of ClientCapabilities that its record<T> names, and the three
\* that are added to them (caps.hpp:129-158).
LEMMA ClientMembersRead ==
    ASSUME Codecs, "ClientCapabilities" \in DOMAIN Schema,
           \A s \in Parts(Ref("ClientCapabilities")) : Good(s),
           NEW v, IsValue(Ref("ClientCapabilities"), v),
           NEW base, base = BaseFields(Schema["ClientCapabilities"][2]),
           NEW w, w = ToJson(Ref("ClientCapabilities"), v)
    PROVE  /\ IsFields(base, RecordHows)
           /\ \E u : ReadTo(base, w, u) /\ Over(u, ReadClientMembers(w)) = v
           /\ \A i : FromJson(Ref("ClientCapabilities"), i)
                     = {Over(b, ReadClientMembers(i)) : b \in DecodeRecord(base, i)}
<1>1. PICK T, fields : T = "ClientCapabilities" /\ fields = Schema[T][2]
  OBVIOUS
<1>2. Schema[T][1] = "own" /\ IsOwnRow(T, fields)
  BY <1>1, OwnRow DEF HandStructs
<1>3. /\ RawMaybes(fields) = {}
      /\ IsFields(fields, RecordHows \cup {"member"})
      /\ Keys(fields, "member") = Added
      /\ \A i \in DOMAIN fields : fields[i].how = "member" => fields[i].type = Bool
      /\ KeysOfFields(fields) \cap {"auth", "elicitation"} = {}
  BY <1>1, <1>2 DEF IsOwnRow, How
<1>4. base = BaseFields(fields)
  BY <1>1
<1>5. /\ DOMAIN base = {i \in DOMAIN fields : fields[i].how # "member"}
      /\ \A i \in DOMAIN base : base[i] = fields[i]
  BY <1>4 DEF BaseFields
<1>6. IsFields(base, RecordHows)
  <2>1. \A i \in DOMAIN base : fields[i].how # "member" /\ i \in DOMAIN fields
    BY <1>5
  <2>2. \A i \in DOMAIN base : IsFieldRow(fields[i], RecordHows)
    BY <1>3, <2>1 DEF IsFields, IsFieldRow
  <2>3. \A i \in DOMAIN base : IsFieldRow(base[i], RecordHows)
    BY <1>5, <2>2
  <2>4. \A i, k \in DOMAIN base : base[i].key = base[k].key => i = k
    BY <1>3, <1>5, <2>1, FieldRows
  <2> QED
    BY <2>3, <2>4 DEF IsFields
<1>7. \A i \in DOMAIN base :
          base[i].how \in RecordHows /\ (base[i].how = "meta" => base[i].key = "_meta")
  BY <1>6, FieldRows
<1>8. IsStruct(fields, v)
  <2>1. IsOwn(T, fields, v)
    BY <1>1, <1>2, OwnCodecs
  <2> QED
    BY <1>1, <2>1 DEF IsOwn
<1>9. PICK K : K = KeysOfFields(base)
  OBVIOUS
<1>10. PICK u : u = [k \in K |-> v[k]]
  OBVIOUS
<1>11. \A i \in DOMAIN base : base[i].key \in K /\ u[base[i].key] = v[base[i].key]
  BY <1>9, <1>10 DEF KeysOfFields
<1>12. IsStruct(base, u)
  <2>1. \A i \in DOMAIN base : IsField(base[i], u[base[i].key])
    BY <1>5, <1>8, <1>11 DEF IsStruct
  <2> QED
    BY <1>9, <1>10, <2>1 DEF IsStruct
<1>13. u = NoNull(base, u)
  <2>1. RawMaybes(base) = {}
    BY <1>3, <1>5 DEF RawMaybes, How
  <2> QED
    BY <2>1 DEF NoNull
<1>14. PICK j : j = EncodeRecord(base, v)
  OBVIOUS
<1>15. ReadTo(base, j, u)
  <2>1. \A i \in DOMAIN base : base[i].type \in Types /\ Good(base[i].type)
    <3>1. ASSUME NEW i \in DOMAIN fields
          PROVE  fields[i].type \in Types /\ Good(fields[i].type)
      BY <1>1, <1>2, FieldTypes
    <3> QED
      BY <1>5, <3>1
  <2>2. ReadTo(base, EncodeRecord(base, u), u)
    BY <1>6, <1>12, <1>13, <2>1, StructFieldsRead
  <2>3. EncodeRecord(base, u) = j
    BY <1>11, <1>14, FieldsAreWritten
  <2> QED
    BY <2>2, <2>3
<1>16. /\ IsObj(j) /\ ~Has(j, "auth") /\ ~Has(j, "elicitation")
       /\ \A i \in DOMAIN base : base[i].key \notin {"auth", "elicitation"}
  <2>1. \A i \in DOMAIN base : base[i].key \in KeysOfFields(fields)
    BY <1>5 DEF KeysOfFields
  <2>2. \A i \in DOMAIN base : base[i].key \notin {"auth", "elicitation"}
    BY <1>3, <2>1
  <2>3. "auth" \notin K /\ "elicitation" \notin K
    BY <1>9, <2>2 DEF KeysOfFields
  <2> QED
    BY <1>9, <1>14, <2>2, <2>3, RecordMembers
<1>17. /\ v.authTerminal \in BOOLEAN /\ v.elicitForm \in BOOLEAN /\ v.elicitUrl \in BOOLEAN
  <2>1. ASSUME NEW k \in Added
        PROVE  v[k] \in BOOLEAN
    <3>1. PICK i \in DOMAIN fields : fields[i].how = "member" /\ fields[i].key = k
      BY <1>3 DEF Keys, How
    <3>2. IsField(fields[i], v[k]) /\ fields[i].type = Bool
      BY <1>3, <1>8, <3>1 DEF IsStruct
    <3>3. IsValue(Bool, v[k])
      BY <3>1, <3>2 DEF IsField
    <3>4. Bool \in Types
      BY <1>1, <1>2, <3>2, FieldTypes
    <3>5. HasType(Bool, v[k])
      BY <3>3, <3>4 DEF Codecs
    <3> QED
      BY <3>5 DEF HasType, Bool
  <2> QED
    BY <2>1 DEF Added
<1>18. w = AddClientMembers(v, j)
  <2>1. EncodeOwn(T, fields, v) = AddClientMembers(v, j)
    BY <1>1, <1>4, <1>14 DEF EncodeOwn
  <2> QED
    BY <1>1, <1>2, <2>1, OwnCodecs
<1>19. PICK R : R = [authTerminal |-> v.authTerminal, elicitForm |-> v.elicitForm,
                     elicitUrl |-> v.elicitUrl]
  OBVIOUS
<1>20. /\ ReadClientMembers(w) = R
       /\ \A k : k \notin {"auth", "elicitation"} =>
              (Has(w, k) <=> Has(j, k)) /\ (Has(j, k) => At(w, k) = At(j, k))
  BY <1>16, <1>17, <1>18, <1>19, ClientMembersRoundTrip
<1>21. IsObj(w)
  BY <1>18 DEF AddClientMembers, IsObj, JObj
<1>22. ReadTo(base, w, u)
  <2>1. \A i \in DOMAIN base : base[i].key \notin {} /\ SameAt(j, w, base[i].key)
    BY <1>16, <1>20 DEF SameAt
  <2>2. Spared(base, j, w, {})
    BY <1>21, <2>1 DEF Spared
  <2>3. Trimmed(base, j, w, {}, u, u)
    BY <2>2 DEF Trimmed, IsReset
  <2> QED
    BY <1>6, <1>15, <2>3, RecordLeftOut
<1>23. Over(u, R) = v
  <2>1. DOMAIN u = K /\ DOMAIN R = Added
    BY <1>10, <1>19 DEF Added
  <2>2. KeysOfFields(fields) = K \cup Added
    <3>1. ASSUME NEW k \in KeysOfFields(fields)
          PROVE  k \in K \cup Added
      <4>1. PICK i \in DOMAIN fields : fields[i].key = k
        BY DEF KeysOfFields
      <4>2. CASE fields[i].how = "member"
        BY <1>3, <4>1, <4>2 DEF Keys, How
      <4>3. CASE fields[i].how # "member"
        BY <1>5, <1>11, <4>1, <4>3
      <4> QED
        BY <4>2, <4>3
    <3>2. K \subseteq KeysOfFields(fields)
      BY <1>5, <1>9 DEF KeysOfFields
    <3>3. Added \subseteq KeysOfFields(fields)
      BY <1>3 DEF Keys, How, KeysOfFields
    <3> QED
      BY <3>1, <3>2, <3>3
  <2>3. v = [k \in K \cup Added |-> v[k]]
    BY <1>8, <2>2 DEF IsStruct
  <2>4. \A k \in K : u[k] = v[k]
    BY <1>10
  <2>5. \A k \in Added : R[k] = v[k]
    BY <1>19 DEF Added
  <2>6. Over(u, R) = [k \in K \cup Added |-> IF k \in K THEN u[k] ELSE R[k]]
    BY <2>1 DEF Over
  <2>7. Over(u, R) = [k \in K \cup Added |-> v[k]]
    BY <2>4, <2>5, <2>6
  <2> QED
    BY <2>3, <2>7
<1>24. ASSUME NEW i
       PROVE  FromJson(Ref(T), i) = {Over(b, ReadClientMembers(i)) : b \in DecodeRecord(base, i)}
  <2>1. DecodeOwn(T, fields, i)
        = {Over(b, ReadClientMembers(i)) : b \in DecodeRecord(base, i)}
    BY <1>1, <1>4 DEF DecodeOwn
  <2> QED
    BY <1>1, <1>2, <2>1, OwnCodecs
<1> QED
  BY <1>1, <1>6, <1>20, <1>22, <1>23, <1>24

LEMMA ClientCapabilitiesRead ==
    ASSUME Codecs, "ClientCapabilities" \in DOMAIN Schema,
           \A s \in Parts(Ref("ClientCapabilities")) : Good(s),
           NEW v, IsValue(Ref("ClientCapabilities"), v)
    PROVE  /\ FromJson(Ref("ClientCapabilities"), ToJson(Ref("ClientCapabilities"), v)) = {v}
           /\ ToJson(Ref("ClientCapabilities"), v) # JNull
<1>1. PICK base, w : /\ base = BaseFields(Schema["ClientCapabilities"][2])
                     /\ w = ToJson(Ref("ClientCapabilities"), v)
  OBVIOUS
<1>2. /\ \E u : ReadTo(base, w, u) /\ Over(u, ReadClientMembers(w)) = v
      /\ FromJson(Ref("ClientCapabilities"), w)
         = {Over(b, ReadClientMembers(w)) : b \in DecodeRecord(base, w)}
  BY <1>1, ClientMembersRead
<1>3. PICK u : ReadTo(base, w, u) /\ Over(u, ReadClientMembers(w)) = v
  BY <1>2
<1>4. DecodeRecord(base, w) = {u}
  BY <1>3, RecordOfFields
<1>5. FromJson(Ref("ClientCapabilities"), w) = {v}
  BY <1>2, <1>3, <1>4
<1>6. w # JNull
  BY <1>3 DEF ReadTo, IsObj, JNull
<1> QED
  BY <1>1, <1>5, <1>6

-----------------------------------------------------------------------------
(***************************************************************************)
(* The values of a type that the wire form can say.                        *)
(***************************************************************************)
LEMMA StructIsCanonical ==
    ASSUME NEW fields, NEW v, IsStruct(fields, v)
    PROVE  NoNull(fields, v) = v
<1>1. PICK raw : raw = RawMaybes(fields)
  OBVIOUS
<1>2. PICK K : K = KeysOfFields(fields)
  OBVIOUS
<1>3. /\ v = [k \in K |-> v[k]]
      /\ \A i \in DOMAIN fields : IsField(fields[i], v[fields[i].key])
  BY <1>2 DEF IsStruct
<1>4. ASSUME NEW k \in raw
      PROVE  v[k] # Just(JNull)
  <2>1. PICK i \in DOMAIN fields :
            fields[i].how = "optional" /\ IsRaw(fields[i].type) /\ k = fields[i].key
    BY <1>1 DEF RawMaybes, How
  <2>2. PICK x : x = v[k]
    OBVIOUS
  <2>3. x = Nothing \/ (x = Just(The(x)) /\ The(x) # JNull)
    BY <1>3, <2>1, <2>2 DEF IsField
  <2> QED
    BY <2>2, <2>3 DEF Just, Nothing
<1>5. CASE raw = {}
  BY <1>1, <1>5 DEF NoNull
<1>6. CASE raw # {}
  <2>1. NoNull(fields, v)
        = [k \in DOMAIN v |-> IF k \in raw /\ v[k] = Just(JNull) THEN Nothing ELSE v[k]]
    BY <1>1, <1>6 DEF NoNull
  <2>2. NoNull(fields, v) = [k \in DOMAIN v |-> v[k]]
    BY <1>4, <2>1
  <2> QED
    BY <1>3, <2>2
<1> QED
  BY <1>5, <1>6

LEMMA RecordIsGood ==
    ASSUME Codecs, NEW T, IsRecord(T), \A s \in Parts(Ref(T)) : Good(s)
    PROVE  Good(Ref(T))
<1>1. SUFFICES ASSUME NEW v, IsValue(Ref(T), v)
               PROVE  /\ FromJson(Ref(T), ToJson(Ref(T), v)) = {v}
                      /\ ToJson(Ref(T), v) # JNull
  BY DEF Good
<1>2. NoNull(Schema[T][2], v) = v
  BY <1>1, RecordCodecs, StructIsCanonical
<1>3. FromJson(Ref(T), ToJson(Ref(T), v)) = {v}
  BY <1>1, <1>2, RecordReads
<1>4. IsObj(ToJson(Ref(T), v))
  BY RecordIsWritten
<1> QED
  BY <1>3, <1>4 DEF IsObj, JNull

LEMMA TaggedIsGood ==
    ASSUME Codecs, NEW T \in DOMAIN Schema, Schema[T][1] = "tagged",
           IsTagged(Schema[T][2], Schema[T][3]), \A s \in Parts(Ref(T)) : Good(s)
    PROVE  Good(Ref(T))
<1>1. SUFFICES ASSUME NEW v, IsValue(Ref(T), v)
               PROVE  /\ FromJson(Ref(T), ToJson(Ref(T), v)) = {v}
                      /\ ToJson(Ref(T), v) # JNull
  BY DEF Good
<1>2. IsArm({Schema[T][3][i].type : i \in DOMAIN Schema[T][3]}, v)
  <2>1. IsNamed(T, Schema[T], v)
    BY <1>1, NamedCodecs
  <2> QED
    BY <2>1 DEF IsNamed
<1>3. PICK arm, y : arm = v[1] /\ y = v[2]
  OBVIOUS
<1>4. /\ arm \in {Schema[T][3][i].type : i \in DOMAIN Schema[T][3]}
      /\ v = <<arm, y>> /\ IsValue(Ref(arm), y)
  BY <1>2, <1>3 DEF IsArm
<1>5. Good(Ref(arm))
  BY <1>4, ArmIsType
<1>6. FromJson(Ref(arm), ToJson(Ref(arm), y)) = {y}
  BY <1>4, <1>5 DEF Good
<1>7. FromJson(Ref(T), ToJson(Ref(T), v)) = {<<v[1], y>>} /\ IsObj(ToJson(Ref(T), v))
  BY <1>3, <1>4, <1>6, TaggedReads
<1> QED
  BY <1>3, <1>4, <1>7 DEF IsObj, JNull

LEMMA ChoiceIsGood ==
    ASSUME Codecs, NEW T \in DOMAIN Schema, T \in HandSums, \A s \in Parts(Ref(T)) : Good(s)
    PROVE  Good(Ref(T))
<1>1. SUFFICES ASSUME NEW v, IsValue(Ref(T), v)
               PROVE  /\ FromJson(Ref(T), ToJson(Ref(T), v)) = {v}
                      /\ ToJson(Ref(T), v) # JNull
  BY DEF Good
<1>2. Schema[T][1] = "choice" /\ IsChoice(T, Schema[T][2])
  BY HandSumRow
<1>3. PICK arms : arms = Schema[T][2]
  OBVIOUS
<1>4. /\ IsArm({arms[i] : i \in DOMAIN arms}, v)
      /\ v[1] = "CSO_Grouped" => v[2] # << >>
  BY <1>1, <1>2, <1>3, ChoiceCodecs
<1>5. PICK arm, y : arm = v[1] /\ y = v[2]
  OBVIOUS
<1>6. /\ \E i \in DOMAIN arms : arm = arms[i]
      /\ v = <<arm, y>> /\ IsValue(Ref(arm), y)
      /\ arm = "CSO_Grouped" => y # << >>
  BY <1>4, <1>5 DEF IsArm
<1>7. Good(Ref(arm))
  BY <1>2, <1>3, <1>6, ArmIsType
<1>8. FromJson(Ref(arm), ToJson(Ref(arm), y)) = {y}
  BY <1>6, <1>7 DEF Good
<1>9. CASE T = "McpServer"
  <2>1. arms = <<"StdioMcpServer", "HttpMcpServer", "SseMcpServer">>
    BY <1>2, <1>3, <1>9 DEF IsChoice
  <2>2. arm \in {"StdioMcpServer", "HttpMcpServer", "SseMcpServer"}
    BY <1>6, <2>1
  <2>3. /\ FromJson(Ref("McpServer"), ToJson(Ref("McpServer"), <<arm, y>>)) = {<<arm, y>>}
        /\ IsObj(ToJson(Ref("McpServer"), <<arm, y>>))
    BY <1>8, <1>9, <2>2, McpServerReads
  <2> QED
    BY <1>6, <1>9, <2>3 DEF IsObj, JNull
<1>10. CASE T = "EmbeddedResource"
  <2>1. arms = <<"TextResource", "BlobResource">>
    BY <1>2, <1>3, <1>10 DEF IsChoice
  <2>2. arm \in {"TextResource", "BlobResource"}
    BY <1>6, <2>1
  <2>3. /\ FromJson(Ref("EmbeddedResource"), ToJson(Ref("EmbeddedResource"), <<arm, y>>))
               = {<<arm, y>>}
        /\ IsObj(ToJson(Ref("EmbeddedResource"), <<arm, y>>))
    BY <1>8, <1>10, <2>2, EmbeddedResourceReads
  <2> QED
    BY <1>6, <1>10, <2>3 DEF IsObj, JNull
<1>11. CASE T = "ConfigSelectOptions"
  <2>1. arms = <<"CSO_Ungrouped", "CSO_Grouped">>
    BY <1>2, <1>3, <1>11 DEF IsChoice
  <2>2. arm \in {"CSO_Ungrouped", "CSO_Grouped"}
    BY <1>6, <2>1
  <2>3. /\ FromJson(Ref("ConfigSelectOptions"), ToJson(Ref("ConfigSelectOptions"), <<arm, y>>))
               = {<<arm, y>>}
        /\ ToJson(Ref("ConfigSelectOptions"), <<arm, y>>) # JNull
    BY <1>6, <1>8, <1>11, <2>2, SelectOptionsRead
  <2> QED
    BY <1>6, <1>11, <2>3
<1>12. CASE T = "AvailableCommandInput"
  <2>1. arms = <<"UnstructuredCommandInput">>
    BY <1>2, <1>3, <1>12 DEF IsChoice
  <2>2. arm \in {"UnstructuredCommandInput"}
    BY <1>6, <2>1
  <2>3. /\ FromJson(Ref("AvailableCommandInput"),
                    ToJson(Ref("AvailableCommandInput"), <<arm, y>>)) = {<<arm, y>>}
        /\ IsObj(ToJson(Ref("AvailableCommandInput"), <<arm, y>>))
    BY <1>8, <1>12, <2>2, CommandInputReads
  <2> QED
    BY <1>6, <1>12, <2>3 DEF IsObj, JNull
<1> QED
  BY <1>9, <1>10, <1>11, <1>12 DEF HandSums

LEMMA OwnIsGood ==
    ASSUME Codecs, NEW T \in DOMAIN Schema, T \in HandStructs,
           \A s \in Parts(Ref(T)) : Good(s)
    PROVE  Good(Ref(T))
<1>1. SUFFICES ASSUME NEW v, IsValue(Ref(T), v)
               PROVE  /\ FromJson(Ref(T), ToJson(Ref(T), v)) = {v}
                      /\ ToJson(Ref(T), v) # JNull
  BY DEF Good
<1>2. PICK fields : fields = Schema[T][2]
  OBVIOUS
<1>3. /\ Schema[T][1] = "own" /\ IsOwnRow(T, fields)
      /\ NoNull(StructFields(Schema[T]), v) = v /\ ~IsSum(T)
  BY <1>2, OwnRow DEF IsSum
<1>4. IsOwn(T, fields, v)
  BY <1>1, <1>2, <1>3, OwnCodecs
<1>5. CASE T = "PO_Cancelled"
  <2>1. v = << >>
    BY <1>4, <1>5 DEF IsOwn
  <2>2. /\ ToJson(Ref("PO_Cancelled"), v) = EmptyObj
        /\ FromJson(Ref("PO_Cancelled"), EmptyObj) = {<< >>}
    BY <1>3, <1>5, CancelledCodecs
  <2> QED
    BY <1>5, <2>1, <2>2 DEF EmptyObj, JObj, JNull
<1>6. CASE T = "AuthMethod"
  <2>1. IsAuthMethod(v) /\ (v.type # "terminal" => v.args = << >> /\ v.env = << >>)
    BY <1>4, <1>6 DEF IsOwn
  <2>2. CASE v.type = "terminal"
    <3>1. Canonical("AuthMethod", v) = v
      BY <1>3, <1>6, <2>2 DEF Canonical
    <3> QED
      BY <1>1, <1>6, <3>1, AuthMethodReads
  <2>3. CASE v.type # "terminal"
    <3>1. Canonical("AuthMethod", v) = [v EXCEPT !.args = << >>, !.env = << >>]
      BY <2>3 DEF Canonical
    <3>2. [v EXCEPT !.args = << >>, !.env = << >>] = v
      BY <2>1, <2>3 DEF IsAuthMethod
    <3> QED
      BY <1>1, <1>6, <3>1, <3>2, AuthMethodReads
  <2> QED
    BY <2>2, <2>3
<1>7. CASE T = "ClientSessionCapabilities"
  BY <1>1, <1>7, SessionCapabilitiesRead
<1>8. CASE T = "ClientCapabilities"
  BY <1>1, <1>8, ClientCapabilitiesRead
<1>9. CASE T = "ConfigOption"
  <2>1. /\ IsConfigOption(v)
        /\ IF IsBoolean(v)
           THEN v.currentValue = "" /\ v.options = <<"CSO_Ungrouped", << >>>>
           ELSE v.currentBool = FALSE /\ IsValue(Ref("ConfigSelectOptions"), v.options)
    BY <1>4, <1>9 DEF IsOwn
  <2>2. /\ "ConfigSelectOptions" \in DOMAIN Schema
        /\ \E i \in DOMAIN fields : fields[i].type = Ref("ConfigSelectOptions")
    BY <1>3, <1>9 DEF IsOwnRow
  <2>3. Good(Ref("ConfigSelectOptions"))
    BY <1>2, <1>3, <2>2, FieldTypes
  <2>4. Canonical("ConfigOption", v) = v
    <3>1. CASE IsBoolean(v)
      <4>1. Canonical("ConfigOption", v)
            = [v EXCEPT !.currentValue = "", !.options = <<"CSO_Ungrouped", << >>>>]
        BY <3>1 DEF Canonical
      <4> QED
        BY <2>1, <3>1, <4>1 DEF IsConfigOption
    <3>2. CASE ~IsBoolean(v)
      <4>1. Canonical("ConfigOption", v)
            = [v EXCEPT !.currentBool = FALSE, !.options = NoneUngrouped(@)]
        BY <3>2 DEF Canonical
      <4>2. NoneUngrouped(v.options) = v.options
        <5>1. v.options[1] = "CSO_Grouped" => v.options[2] # << >>
          BY <2>1, <2>2, <3>2, ChoiceCodecs, SelectOptionsRow
        <5>2. v.options # <<"CSO_Grouped", << >>>>
          BY <5>1
        <5> QED
          BY <5>2 DEF NoneUngrouped
      <4> QED
        BY <2>1, <3>2, <4>1, <4>2 DEF IsConfigOption
    <3> QED
      BY <3>1, <3>2
  <2> QED
    BY <1>1, <1>9, <2>2, <2>3, <2>4, ConfigOptionReads
<1> QED
  BY <1>5, <1>6, <1>7, <1>8, <1>9 DEF HandStructs

LEMMA AliasIsGood ==
    ASSUME Codecs, NEW T \in DOMAIN Schema, NEW t, Schema[T] = Alias(t), ~IsRaw(t),
           \A s \in Parts(Ref(T)) : Good(s)
    PROVE  Good(Ref(T))
<1>1. t \in Parts(Ref(T))
  <2>1. Schema[T][1] = "alias" /\ Schema[T][2] = t
    BY DEF Alias
  <2>2. t \in PartsOfNamed(Schema[T])
    BY <2>1 DEF PartsOfNamed
  <2> QED
    BY <2>2, PartsOfRef
<1>2. Good(t)
  BY <1>1
<1>3. SUFFICES ASSUME NEW v, IsValue(Ref(T), v)
               PROVE  /\ FromJson(Ref(T), ToJson(Ref(T), v)) = {v}
                      /\ ToJson(Ref(T), v) # JNull
  BY DEF Good
<1>4. FromJson(t, ToJson(t, v)) = {v} /\ ToJson(t, v) # JNull
  BY <1>2, <1>3, AliasCodecs DEF Good
<1> QED
  BY <1>4, AliasCodecs

LEMMA EnumIsGood ==
    ASSUME Codecs, NEW T \in DOMAIN Schema, Schema[T][1] = "enum",
           \A s \in Parts(Ref(T)) : Good(s)
    PROVE  Good(Ref(T))
<1>1. PICK body : body = Schema[T]
  OBVIOUS
<1>2. body \in Parts(Ref(T))
  BY <1>1, PartsOfRef DEF PartsOfNamed
<1>3. Good(body) /\ ~IsRaw(body)
  BY <1>1, <1>2 DEF IsRaw
<1>4. ASSUME NEW v
      PROVE  /\ ToJson(Ref(T), v) = ToJson(body, v)
             /\ FromJson(Ref(T), v) = FromJson(body, v)
             /\ IsValue(Ref(T), v) <=> IsValue(body, v)
  <2>1. EncodeNamed(T, body, v) = ToJson(body, v)
    BY <1>1 DEF EncodeNamed
  <2>2. DecodeNamed(T, body, v) = FromJson(body, v)
    BY <1>1 DEF DecodeNamed
  <2>3. IsNamed(T, body, v) <=> IsValue(body, v)
    BY <1>1 DEF IsNamed
  <2> QED
    BY <1>1, <2>1, <2>2, <2>3, NamedCodecs
<1> QED
  BY <1>3, <1>4 DEF Good

LEMMA NamedIsGood ==
    ASSUME Codecs, NEW T \in DOMAIN Schema, \A s \in Parts(Ref(T)) : Good(s)
    PROVE  Good(Ref(T))
<1>1. PICK body : body = Schema[T]
  OBVIOUS
<1>2. IsRow(T, body)
  BY <1>1, SchemaAssumption
<1>3. CASE T \in HandSums
  BY <1>3, ChoiceIsGood
<1>4. CASE T \in HandStructs
  BY <1>4, OwnIsGood
<1>5. CASE T \notin HandSums \cup HandStructs
  <2>1. \/ IsRecord(T)
        \/ body[1] = "tagged" /\ IsTagged(body[2], body[3])
        \/ body[1] = "alias" /\ IsAlias(body)
        \/ body[1] = "enum"
    BY <1>2, <1>5 DEF IsRow
  <2>2. CASE IsRecord(T)
    BY <2>2, RecordIsGood
  <2>3. CASE body[1] = "tagged" /\ IsTagged(body[2], body[3])
    BY <1>1, <2>3, TaggedIsGood
  <2>4. CASE body[1] = "alias" /\ IsAlias(body)
    <3>1. PICK t : t = body[2]
      OBVIOUS
    <3>2. body = Alias(t) /\ (t[1] = "list" \/ \E U : t = Ref(U))
      BY <2>4, <3>1 DEF IsAlias
    <3>3. ~IsRaw(t)
      BY <3>2 DEF IsRaw, Ref
    <3> QED
      BY <1>1, <3>2, <3>3, AliasIsGood
  <2>5. CASE body[1] = "enum"
    BY <1>1, <2>5, EnumIsGood
  <2> QED
    BY <2>1, <2>2, <2>3, <2>4, <2>5
<1> QED
  BY <1>3, <1>4, <1>5

-----------------------------------------------------------------------------
(***************************************************************************)
(* Types without a name.                                                   *)
(***************************************************************************)
LEMMA PlainIsGood ==
    ASSUME Codecs, NEW t \in Types, t[1] \notin {"list", "ref"}
    PROVE  Good(t)
<1>1. SUFFICES ASSUME NEW v, IsValue(t, v)
               PROVE  /\ FromJson(t, ToJson(t, v)) = {v}
                      /\ IsRaw(t) \/ ToJson(t, v) # JNull
  BY DEF Good
<1>2. HasType(t, v) /\ ToJson(t, v) = Encode(t, v) /\ \A j : FromJson(t, j) = Decode(t, j)
  BY <1>1 DEF Codecs
<1>3. PICK k, labels : k = t[1] /\ labels = t[2]
  OBVIOUS
<1>4. CASE k \in {"str", "open"}
  BY <1>2, <1>3, <1>4 DEF Encode, Decode, JStr, JNull
<1>5. CASE k = "enum"
  <2>1. PICK i \in DOMAIN labels : v = labels[i]
    BY <1>2, <1>3, <1>5 DEF HasType
  <2>2. ToJson(t, v) = JStr(v)
    BY <1>2, <1>3, <1>5 DEF Encode
  <2>3. FromJson(t, JStr(v)) = {labels[n] : n \in {m \in DOMAIN labels : JStr(v) = JStr(labels[m])}}
    BY <1>2, <1>3, <1>5 DEF Decode
  <2>4. {labels[n] : n \in {m \in DOMAIN labels : JStr(v) = JStr(labels[m])}} = {v}
    BY <2>1 DEF JStr
  <2> QED
    BY <2>2, <2>3, <2>4 DEF JStr, JNull
<1>6. CASE k = "num"
  BY <1>2, <1>3, <1>6 DEF Encode, Decode, JNum, JNull
<1>7. CASE k = "bool"
  BY <1>2, <1>3, <1>7 DEF Encode, Decode, JBool, JNull
<1>8. CASE k = "json"
  BY <1>3, <1>8, RawCodecs DEF IsRaw
<1>9. CASE k = "unit"
  BY <1>2, <1>3, <1>9 DEF Encode, Decode, HasType, EmptyObj, JObj, JNull
<1>10. k \in {"str", "open", "enum", "num", "bool", "json", "unit"}
  BY <1>2, <1>3 DEF HasType
<1> QED
  BY <1>4, <1>5, <1>6, <1>7, <1>8, <1>9, <1>10

LEMMA ListIsGood ==
    ASSUME Codecs, NEW t \in Types, t[1] = "list", \A s \in Parts(t) : Good(s)
    PROVE  Good(t)
<1>1. SUFFICES ASSUME NEW v, IsValue(t, v)
               PROVE  /\ FromJson(t, ToJson(t, v)) = {v}
                      /\ ToJson(t, v) # JNull
  BY DEF Good
<1>2. Good(t[2])
  BY DEF Parts
<1>3. v = [i \in 1 .. Len(v) |-> v[i]] /\ \A i \in 1 .. Len(v) : IsValue(t[2], v[i])
  BY <1>1, ListCodecs
<1>4. v = [i \in DOMAIN v |-> v[i]] /\ \A i \in DOMAIN v : IsValue(t[2], v[i])
  BY <1>3
<1>5. \A i \in DOMAIN v : FromJson(t[2], ToJson(t[2], v[i])) = {v[i]}
  BY <1>2, <1>4 DEF Good
<1>6. DecodeList(t[2], EncodeList(t[2], v)) = {v}
  BY <1>4, <1>5, ListRoundTrip
<1>7. EncodeList(t[2], v) # JNull
  BY DEF EncodeList, JArr, JNull
<1> QED
  BY <1>6, <1>7, ListCodecs

-----------------------------------------------------------------------------
(***************************************************************************)
(* Every type, by induction over the nesting of the types.                 *)
(***************************************************************************)
LEMMA TypeIsGood ==
    ASSUME Codecs, NEW t \in Types, \A s \in Parts(t) : Good(s)
    PROVE  Good(t)
<1>1. CASE t[1] = "list"
  BY <1>1, ListIsGood
<1>2. CASE t[1] = "ref"
  <2>1. ASSUME NEW v, IsValue(t, v)
        PROVE  /\ FromJson(t, ToJson(t, v)) = {v}
               /\ ToJson(t, v) # JNull
    <3>1. PICK T : T = t[2]
      OBVIOUS
    <3>2. HasType(t, v)
      BY <2>1 DEF Codecs
    <3>3. T \in DOMAIN Schema /\ IsNamed(T, Schema[T], v)
      BY <1>2, <3>1, <3>2 DEF HasType
    <3>4. Parts(t) = Parts(Ref(T))
      BY <1>2, <3>1, PartsOfRef DEF Parts
    <3>5. Good(Ref(T))
      BY <3>3, <3>4, NamedIsGood
    <3>6. PICK r : r = Ref(T)
      OBVIOUS
    <3>7. r[1] = "ref" /\ r[2] = T /\ r \in Types
      BY <3>3, <3>6, DepthAssumption DEF Ref
    <3>8. ASSUME NEW x
          PROVE  /\ ToJson(t, x) = ToJson(r, x)
                 /\ FromJson(t, x) = FromJson(r, x)
      <4>1. Encode(t, x) = Encode(r, x) /\ Decode(t, x) = Decode(r, x)
        BY <1>2, <3>1, <3>7 DEF Encode, Decode
      <4> QED
        BY <3>7, <4>1 DEF Codecs
    <3>9. IsValue(r, v)
      BY <3>3, <3>6, NamedCodecs
    <3>10. FromJson(r, ToJson(r, v)) = {v} /\ (IsRaw(r) \/ ToJson(r, v) # JNull)
      BY <3>5, <3>6, <3>9 DEF Good
    <3>11. ~IsRaw(r)
      BY <3>7 DEF IsRaw
    <3> QED
      BY <3>8, <3>10, <3>11
  <2> QED
    BY <2>1 DEF Good
<1>3. CASE t[1] \notin {"list", "ref"}
  BY <1>3, PlainIsGood
<1> QED
  BY <1>1, <1>2, <1>3

LEMMA EveryTypeIsGood ==
    ASSUME Codecs
    PROVE  \A t \in Types : Good(t)
<1>1. PICK Bad : Bad = {t \in Types : ~Good(t)}
  OBVIOUS
<1>2. PICK D : D = {Depth(t) : t \in Bad}
  OBVIOUS
<1>3. D \subseteq Nat
  BY <1>1, <1>2, DepthAssumption
<1>4. ASSUME D # {}
      PROVE  FALSE
  <2>1. PICK less : less = OpToRel(<, Nat)
    OBVIOUS
  <2>2. IsWellFoundedOn(less, Nat)
    BY <2>1, NatLessThanWellFounded
  <2>3. less = {ss \in Nat \X Nat : ss[1] < ss[2]}
    BY <2>1 DEF OpToRel
  <2>4. PICK n \in D : \A m \in D : ~(<<m, n>> \in less)
    BY <1>3, <1>4, <2>2, WFMin
  <2>5. \A m \in D : ~(m < n)
    BY <1>3, <2>3, <2>4
  <2>6. PICK t \in Bad : n = Depth(t)
    BY <1>2
  <2>7. \A s \in Parts(t) : s \in Types /\ Depth(s) < Depth(t)
    BY <1>1, <2>6, DepthAssumption
  <2>8. \A s \in Parts(t) : Good(s)
    BY <1>1, <1>2, <2>5, <2>6, <2>7
  <2>9. Good(t)
    BY <1>1, <2>6, <2>8, TypeIsGood
  <2> QED
    BY <1>1, <2>6, <2>9
<1> QED
  BY <1>1, <1>2, <1>4

\* What from_json reads from what to_json wrote is the value that was written,
\* for each type of the schema and of any of their members, however they are
\* nested, and each value of it that the wire form can say (README.md:192-196,
\* "Every data field of all 135 schema definitions").
THEOREM EveryValueRoundTrips ==
    ASSUME Codecs
    PROVE  \A t \in Types : \A v : IsValue(t, v) => FromJson(t, ToJson(t, v)) = {v}
BY EveryTypeIsGood DEF Good

-----------------------------------------------------------------------------
(***************************************************************************)
(* Values that hold what their wire form does not say.                     *)
(***************************************************************************)
LEMMA NoRawMaybes ==
    ASSUME NEW v
    PROVE  NoNull(<< >>, v) = v
<1>1. PICK fields : fields = << >>
  OBVIOUS
<1>2. RawMaybes(fields) = {}
  BY <1>1 DEF RawMaybes, How
<1> QED
  BY <1>1, <1>2 DEF NoNull

\* A struct, or an alias that is around one.
LEMMA ArmReads ==
    ASSUME Codecs, NEW T, NEW k, Taggable(T, k),
           NEW v, NEW w, w = NoNull(StructFields(Schema[T]), v), IsValue(Ref(T), w)
    PROVE  FromJson(Ref(T), ToJson(Ref(T), v)) = {w}
<1>1. CASE Lacks(T, k)
  <2>1. IsRecord(T) /\ Schema[T][1] = "record"
    BY <1>1 DEF Lacks, IsRecord
  <2>2. StructFields(Schema[T]) = Schema[T][2]
    BY <2>1 DEF StructFields
  <2>3. \A s \in Parts(Ref(T)) : Good(s)
    BY DepthAssumption, EveryTypeIsGood DEF Taggable
  <2> QED
    BY <2>1, <2>2, <2>3, RecordReads
<1>2. CASE T = "PO_Cancelled" /\ Schema[T][1] = "own"
  <2>1. /\ FromJson(Ref("PO_Cancelled"), ToJson(Ref("PO_Cancelled"), v)) = {<< >>}
        /\ w = << >>
    BY <1>2, CancelledCodecs DEF Taggable
  <2> QED
    BY <1>2, <2>1
<1>3. CASE \E U \in DOMAIN Schema : Schema[T] = Alias(Ref(U)) /\ Lacks(U, k)
  <2>1. PICK U \in DOMAIN Schema : Schema[T] = Alias(Ref(U)) /\ Lacks(U, k)
    BY <1>3
  <2>2. IsRecord(U) /\ Schema[U][1] = "record"
    BY <2>1 DEF Lacks, IsRecord
  <2>3. StructFields(Schema[T]) = Schema[U][2]
    <3>1. /\ Schema[T][1] = "alias" /\ Schema[T][2][1] = "ref" /\ Schema[T][2][2] = U
      BY <2>1 DEF Alias, Ref
    <3> QED
      BY <2>2, <3>1 DEF StructFields
  <2>4. T \in DOMAIN Schema
    BY DEF Taggable
  <2>5. IsValue(Ref(U), w)
    BY <2>1, <2>4, AliasCodecs
  <2>6. \A s \in Parts(Ref(U)) : Good(s)
    BY DepthAssumption, EveryTypeIsGood
  <2>7. FromJson(Ref(U), ToJson(Ref(U), v)) = {w}
    BY <2>2, <2>3, <2>5, <2>6, RecordReads
  <2> QED
    BY <2>1, <2>4, <2>7, AliasCodecs
<1> QED
  BY <1>1, <1>2, <1>3 DEF Taggable

LEMMA RecordArmReads ==
    ASSUME Codecs, NEW T, IsRecord(T),
           NEW v, NEW w, w = NoNull(StructFields(Schema[T]), v), IsValue(Ref(T), w)
    PROVE  FromJson(Ref(T), ToJson(Ref(T), v)) = {w}
<1>1. T \in DOMAIN Schema /\ Schema[T][1] = "record"
  BY DEF IsRecord
<1>2. StructFields(Schema[T]) = Schema[T][2]
  BY <1>1 DEF StructFields
<1>3. \A s \in Parts(Ref(T)) : Good(s)
  BY <1>1, DepthAssumption, EveryTypeIsGood
<1> QED
  BY <1>2, <1>3, RecordReads

LEMMA CanonicalTagged ==
    ASSUME Codecs, NEW T \in DOMAIN Schema, T \notin HandSums \cup HandStructs,
           Schema[T][1] = "tagged", IsTagged(Schema[T][2], Schema[T][3]),
           NEW v, NEW w, w = Canonical(T, v), IsValue(Ref(T), w)
    PROVE  FromJson(Ref(T), ToJson(Ref(T), v)) = {w}
<1>1. PICK arm, y : arm = v[1] /\ y = NoNull(StructFields(Schema[v[1]]), v[2])
  OBVIOUS
<1>2. IsSum(T)
  BY DEF IsSum
<1>3. w = <<arm, y>>
  BY <1>1, <1>2 DEF Canonical, HandSums, HandStructs
<1>4. IsArm({Schema[T][3][i].type : i \in DOMAIN Schema[T][3]}, w)
  <2>1. IsNamed(T, Schema[T], w)
    BY NamedCodecs
  <2> QED
    BY <2>1 DEF IsNamed
<1>5. w[1] = arm /\ w[2] = y
  BY <1>3
<1>6. arm \in {Schema[T][3][i].type : i \in DOMAIN Schema[T][3]} /\ IsValue(Ref(arm), y)
  BY <1>4, <1>5 DEF IsArm
<1>7. Taggable(arm, Schema[T][2])
  BY <1>6 DEF IsTagged
<1>8. FromJson(Ref(arm), ToJson(Ref(arm), v[2])) = {y}
  BY <1>1, <1>6, <1>7, ArmReads
<1> QED
  BY <1>1, <1>3, <1>6, <1>8, TaggedReads

LEMMA CanonicalChoice ==
    ASSUME Codecs, NEW T \in DOMAIN Schema, T \in HandSums,
           NEW v, NEW w, w = Canonical(T, v), IsValue(Ref(T), w)
    PROVE  FromJson(Ref(T), ToJson(Ref(T), v)) = {w}
<1>1. Schema[T][1] = "choice" /\ IsChoice(T, Schema[T][2])
  BY HandSumRow
<1>2. CASE T = "ConfigSelectOptions"
  <2>1. w = NoneUngrouped(v)
    BY <1>2 DEF Canonical
  <2>2. Good(Ref(T))
    BY DepthAssumption, EveryTypeIsGood
  <2>3. FromJson(Ref(T), ToJson(Ref(T), w)) = {w}
    BY <2>2 DEF Good
  <2> QED
    BY <1>2, <2>1, <2>3, NoGroupsAreNoOptions
<1>3. CASE T # "ConfigSelectOptions"
  <2>1. PICK arm, x, y : arm = v[1] /\ x = v[2] /\ y = NoNull(StructFields(Schema[v[1]]), v[2])
    OBVIOUS
  <2>2. IsSum(T)
    BY <1>1 DEF IsSum
  <2>3. T \notin {"AuthMethod", "ConfigOption"}
    BY DEF HandSums
  <2>4. w = <<arm, y>>
    BY <1>3, <2>1, <2>2, <2>3 DEF Canonical
  <2>5. PICK arms : arms = Schema[T][2]
    OBVIOUS
  <2>6. w[1] = arm /\ w[2] = y
    BY <2>4
  <2>7. (\E i \in DOMAIN arms : arm = arms[i]) /\ IsValue(Ref(arm), y)
    <3>1. IsArm({arms[i] : i \in DOMAIN arms}, w)
      BY <1>1, <2>5, ChoiceCodecs
    <3> QED
      BY <2>6, <3>1 DEF IsArm
  <2>8. ToJson(Ref(T), v) = ToJson(Ref(T), <<arm, x>>)
    <3>1. ToJson(Ref(T), v) = Mark(T, arm, ToJson(Ref(arm), x))
      BY <1>1, <2>1, ChoiceCodecs
    <3> QED
      BY <1>1, <3>1, MarkedArm
  <2>9. IsRecord(arm) => FromJson(Ref(arm), ToJson(Ref(arm), x)) = {y}
    BY <2>1, <2>7, RecordArmReads
  <2>10. CASE T = "McpServer"
    <3>1. /\ arms = <<"StdioMcpServer", "HttpMcpServer", "SseMcpServer">>
          /\ \A i \in DOMAIN arms : Lacks(arms[i], "type")
      BY <1>1, <2>5, <2>10 DEF IsChoice
    <3>2. arm \in {"StdioMcpServer", "HttpMcpServer", "SseMcpServer"} /\ IsRecord(arm)
      <4>1. IsRecord(arm)
        BY <2>7, <3>1 DEF Lacks
      <4> QED
        BY <2>7, <3>1, <4>1
    <3>3. FromJson(Ref("McpServer"), ToJson(Ref("McpServer"), <<arm, x>>)) = {<<arm, y>>}
      BY <2>9, <2>10, <3>2, McpServerReads
    <3> QED
      BY <2>4, <2>8, <2>10, <3>3
  <2>11. CASE T = "EmbeddedResource"
    <3>1. /\ arms = <<"TextResource", "BlobResource">>
          /\ Demands("TextResource", "text") /\ Demands("BlobResource", "blob")
      BY <1>1, <2>5, <2>11 DEF IsChoice
    <3>2. arm \in {"TextResource", "BlobResource"}
      BY <2>7, <3>1
    <3>3. IsRecord(arm)
      BY <3>1, <3>2 DEF Demands
    <3>4. FromJson(Ref("EmbeddedResource"), ToJson(Ref("EmbeddedResource"), <<arm, x>>))
              = {<<arm, y>>}
      BY <2>9, <2>11, <3>2, <3>3, EmbeddedResourceReads
    <3> QED
      BY <2>4, <2>8, <2>11, <3>4
  <2>12. CASE T = "AvailableCommandInput"
    <3>1. /\ arms = <<"UnstructuredCommandInput">>
          /\ Lacks("UnstructuredCommandInput", "type")
      BY <1>1, <2>5, <2>12 DEF IsChoice
    <3>2. arm \in {"UnstructuredCommandInput"}
      BY <2>7, <3>1
    <3>3. IsRecord(arm)
      BY <3>1, <3>2 DEF Lacks
    <3>4. FromJson(Ref("AvailableCommandInput"),
                   ToJson(Ref("AvailableCommandInput"), <<arm, x>>)) = {<<arm, y>>}
      BY <2>9, <2>12, <3>2, <3>3, CommandInputReads
    <3> QED
      BY <2>4, <2>8, <2>12, <3>4
  <2> QED
    BY <1>3, <2>10, <2>11, <2>12 DEF HandSums
<1> QED
  BY <1>2, <1>3

LEMMA CanonicalOwn ==
    ASSUME Codecs, NEW T \in DOMAIN Schema, T \in HandStructs,
           NEW v, NEW w, w = Canonical(T, v), IsValue(Ref(T), w)
    PROVE  FromJson(Ref(T), ToJson(Ref(T), v)) = {w}
<1>1. PICK fields : fields = Schema[T][2]
  OBVIOUS
<1>2. /\ Schema[T][1] = "own" /\ IsOwnRow(T, fields)
      /\ NoNull(StructFields(Schema[T]), v) = v /\ ~IsSum(T)
  BY <1>1, OwnRow DEF IsSum
<1>3. CASE T = "AuthMethod"
  BY <1>3, AuthMethodReads
<1>4. CASE T = "ConfigOption"
  <2>1. /\ "ConfigSelectOptions" \in DOMAIN Schema
        /\ \E i \in DOMAIN fields : fields[i].type = Ref("ConfigSelectOptions")
    BY <1>2, <1>4 DEF IsOwnRow
  <2>2. Good(Ref("ConfigSelectOptions"))
    BY <2>1, DepthAssumption, EveryTypeIsGood
  <2> QED
    BY <1>4, <2>1, <2>2, ConfigOptionReads
<1>5. CASE T \notin {"AuthMethod", "ConfigOption"}
  <2>1. T # "ConfigSelectOptions"
    BY DEF HandStructs
  <2>2. w = v
    BY <1>2, <1>5, <2>1 DEF Canonical
  <2>3. Good(Ref(T))
    BY DepthAssumption, EveryTypeIsGood
  <2> QED
    BY <2>2, <2>3 DEF Good
<1> QED
  BY <1>3, <1>4, <1>5

LEMMA CanonicalAlias ==
    ASSUME Codecs, NEW T \in DOMAIN Schema, Schema[T][1] = "alias", IsAlias(Schema[T]),
           NEW v, NEW w, w = NoNull(StructFields(Schema[T]), v), IsValue(Ref(T), w)
    PROVE  FromJson(Ref(T), ToJson(Ref(T), v)) = {w}
<1>1. PICK body, t : body = Schema[T] /\ t = body[2]
  OBVIOUS
<1>2. /\ body = Alias(t)
      /\ t[1] = "list" \/ \E U \in DOMAIN Schema : t = Ref(U) /\ IsRecord(U)
  BY <1>1 DEF IsAlias
<1>3. CASE t[1] = "list"
  <2>1. StructFields(body) = << >>
    BY <1>1, <1>3 DEF StructFields
  <2>2. w = v
    BY <1>1, <2>1, NoRawMaybes
  <2>3. Good(Ref(T))
    BY DepthAssumption, EveryTypeIsGood
  <2> QED
    BY <2>2, <2>3 DEF Good
<1>4. CASE \E U \in DOMAIN Schema : t = Ref(U) /\ IsRecord(U)
  <2>1. PICK U \in DOMAIN Schema : t = Ref(U) /\ IsRecord(U)
    BY <1>4
  <2>2. t[1] = "ref" /\ t[2] = U
    BY <2>1 DEF Ref
  <2>3. StructFields(body) = Schema[U][2] /\ StructFields(Schema[U]) = Schema[U][2]
    <3>1. Schema[U][1] = "record"
      BY <2>1 DEF IsRecord
    <3> QED
      BY <1>1, <2>2, <3>1 DEF StructFields
  <2>4. IsValue(Ref(U), w)
    BY <1>1, <1>2, <2>1, AliasCodecs
  <2>5. FromJson(Ref(U), ToJson(Ref(U), v)) = {w}
    BY <1>1, <2>1, <2>3, <2>4, RecordArmReads
  <2>6. Schema[T] = Alias(Ref(U))
    BY <1>1, <1>2, <2>1
  <2>7. /\ ToJson(Ref(T), v) = ToJson(Ref(U), v)
        /\ \A j : FromJson(Ref(T), j) = FromJson(Ref(U), j)
    BY <2>6, AliasCodecs
  <2> QED
    BY <2>5, <2>7
<1> QED
  BY <1>2, <1>3, <1>4

\* A value that holds what its wire form does not say - fields that its type
\* makes meaningless, null in a Maybe<Json>, a grouped select without groups -
\* is read back without it, and whole otherwise (session_types.hpp:198-255,
\* caps.hpp:231-265).
THEOREM CanonicalReads ==
    ASSUME Codecs, NEW T \in DOMAIN Schema, NEW v, IsValue(Ref(T), Canonical(T, v))
    PROVE  FromJson(Ref(T), ToJson(Ref(T), v)) = {Canonical(T, v)}
<1>1. PICK body, w : body = Schema[T] /\ w = Canonical(T, v)
  OBVIOUS
<1>2. IsRow(T, body)
  BY <1>1, SchemaAssumption
<1>3. CASE T \in HandSums
  BY <1>3, CanonicalChoice
<1>4. CASE T \in HandStructs
  BY <1>4, CanonicalOwn
<1>5. CASE T \notin HandSums \cup HandStructs
  <2>1. \/ IsRecord(T)
        \/ body[1] = "tagged" /\ IsTagged(body[2], body[3])
        \/ body[1] = "alias" /\ IsAlias(body)
        \/ body[1] = "enum"
    BY <1>2, <1>5 DEF IsRow
  <2>2. CASE body[1] = "tagged" /\ IsTagged(body[2], body[3])
    BY <1>1, <1>5, <2>2, CanonicalTagged
  <2>3. ASSUME body[1] \in {"record", "alias", "enum"}
        PROVE  w = NoNull(StructFields(body), v)
    <3>1. ~IsSum(T)
      BY <1>1, <2>3 DEF IsSum
    <3>2. T \notin {"ConfigSelectOptions", "AuthMethod", "ConfigOption"}
      BY <1>5 DEF HandSums, HandStructs
    <3> QED
      BY <1>1, <3>1, <3>2 DEF Canonical
  <2>4. CASE IsRecord(T)
    <3>1. body[1] = "record"
      BY <1>1, <2>4 DEF IsRecord
    <3> QED
      BY <1>1, <2>3, <2>4, <3>1, RecordArmReads
  <2>5. CASE body[1] = "alias" /\ IsAlias(body)
    BY <1>1, <2>3, <2>5, CanonicalAlias
  <2>6. CASE body[1] = "enum"
    <3>1. StructFields(body) = << >>
      BY <2>6 DEF StructFields
    <3>2. w = v
      BY <2>3, <2>6, <3>1, NoRawMaybes
    <3>3. Good(Ref(T))
      BY DepthAssumption, EveryTypeIsGood
    <3> QED
      BY <1>1, <3>2, <3>3 DEF Good
  <2> QED
    BY <2>1, <2>2, <2>4, <2>5, <2>6
<1> QED
  BY <1>3, <1>4, <1>5

-----------------------------------------------------------------------------
(***************************************************************************)
(* What is decoded from a wire form that lacks members, for each form that *)
(* is an object.                                                           *)
(***************************************************************************)
\* A struct that is written as own ...
LEMMA StructLeftOut ==
    ASSUME Codecs, NEW T, IsRecord(T), NEW v, IsValue(Ref(T), NoNull(Schema[T][2], v)),
           NEW w, NEW K, NEW d,
           Trimmed(Schema[T][2], ToJson(Ref(T), v), w, K, NoNull(Schema[T][2], v), d)
    PROVE  FromJson(Ref(T), w) = {d}
<1>0. PICK fields, own, c :
          fields = Schema[T][2] /\ own = ToJson(Ref(T), v) /\ c = NoNull(fields, v)
  OBVIOUS
<1>1. IsFields(fields, RecordHows) /\ T \in DOMAIN Schema /\ Schema[T][1] = "record"
  BY <1>0 DEF IsRecord
<1>2. \A i \in DOMAIN fields : fields[i].type \in Types /\ Good(fields[i].type)
  BY <1>0, <1>1, FieldTypes, EveryTypeIsGood
<1>3. own = EncodeRecord(fields, v) /\ IsStruct(fields, c)
  BY <1>0, RecordCodecs
<1>4. ReadTo(fields, own, c)
  BY <1>0, <1>1, <1>2, <1>3, StructFieldsRead
<1>5. ReadTo(fields, w, d)
  <2>1. Trimmed(fields, own, w, K, c, d)
    BY <1>0
  <2> QED
    BY <1>1, <1>4, <2>1, RecordLeftOut
<1>6. DecodeRecord(fields, w) = {d}
  BY <1>5, RecordOfFields
<1> QED
  BY <1>0, <1>6, RecordCodecs

\* ... and the arm of a sum that is one or is around one.
LEMMA ArmLeftOut ==
    ASSUME Codecs, NEW T, NEW key, Taggable(T, key),
           NEW v, IsValue(Ref(T), NoNull(StructFields(Schema[T]), v)), NEW w, NEW K, NEW d,
           Trimmed(StructFields(Schema[T]), ToJson(Ref(T), v), w, K,
                   NoNull(StructFields(Schema[T]), v), d)
    PROVE  FromJson(Ref(T), w) = {d}
<1>0. PICK fields, c, own : /\ fields = StructFields(Schema[T]) /\ c = NoNull(fields, v)
                            /\ own = ToJson(Ref(T), v)
  OBVIOUS
<1>10. Trimmed(fields, own, w, K, c, d) /\ IsValue(Ref(T), c)
  BY <1>0
<1>1. CASE Lacks(T, key)
  <2>1. IsRecord(T) /\ Schema[T][1] = "record"
    BY <1>1 DEF Lacks, IsRecord
  <2>2. fields = Schema[T][2]
    BY <1>0, <2>1 DEF StructFields
  <2>3. /\ Trimmed(Schema[T][2], ToJson(Ref(T), v), w, K, NoNull(Schema[T][2], v), d)
        /\ IsValue(Ref(T), NoNull(Schema[T][2], v))
    BY <1>0, <1>10, <2>2
  <2> QED
    BY <2>1, <2>3, StructLeftOut
<1>2. CASE T = "PO_Cancelled" /\ Schema[T][1] = "own"
  <2>1. T \in DOMAIN Schema
    BY DEF Taggable
  <2>2. fields = << >>
    <3>1. IsOwnRow(T, Schema[T][2]) /\ fields = Schema[T][2]
      BY <1>0, <1>2, <2>1, OwnRow DEF HandStructs
    <3> QED
      BY <1>2, <3>1 DEF IsOwnRow
  <2>3. K = {}
    BY <1>10, <2>2 DEF Trimmed, KeysOfFields
  <2>4. d = c
    BY <1>10, <2>3 DEF Trimmed, IsReset
  <2>5. FromJson(Ref(T), w) = {<< >>} /\ c = << >>
    BY <1>10, <1>2, <2>1, CancelledCodecs
  <2> QED
    BY <2>4, <2>5
<1>3. CASE \E U \in DOMAIN Schema : Schema[T] = Alias(Ref(U)) /\ Lacks(U, key)
  <2>1. PICK U \in DOMAIN Schema : Schema[T] = Alias(Ref(U)) /\ Lacks(U, key)
    BY <1>3
  <2>2. IsRecord(U) /\ Schema[U][1] = "record"
    BY <2>1 DEF Lacks, IsRecord
  <2>3. fields = Schema[U][2]
    <3>1. /\ Schema[T][1] = "alias" /\ Schema[T][2][1] = "ref" /\ Schema[T][2][2] = U
      BY <2>1 DEF Alias, Ref
    <3> QED
      BY <1>0, <2>2, <3>1 DEF StructFields
  <2>4. T \in DOMAIN Schema
    BY DEF Taggable
  <2>5. /\ \A x : ToJson(Ref(T), x) = ToJson(Ref(U), x)
        /\ \A x : FromJson(Ref(T), x) = FromJson(Ref(U), x)
        /\ \A x : IsValue(Ref(T), x) <=> IsValue(Ref(U), x)
    BY <2>1, <2>4, AliasCodecs
  <2>6. /\ Trimmed(Schema[U][2], ToJson(Ref(U), v), w, K, NoNull(Schema[U][2], v), d)
        /\ IsValue(Ref(U), NoNull(Schema[U][2], v))
    BY <1>0, <1>10, <2>3, <2>5
  <2>7. FromJson(Ref(U), w) = {d}
    BY <2>2, <2>6, StructLeftOut
  <2> QED
    BY <2>5, <2>7
<1> QED
  BY <1>1, <1>2, <1>3 DEF Taggable


-----------------------------------------------------------------------------
(***************************************************************************)
(* w has the members of j, but for some in K and one that is unheard of.   *)
(***************************************************************************)
Kept(j, w, K) == IsObj(w) /\ \A k : k \notin K \cup {Unheard} => SameAt(j, w, k)

LEMMA SameMember ==
    ASSUME NEW j, NEW w, NEW k, SameAt(j, w, k)
    PROVE  /\ Has(w, k) <=> Has(j, k)
           /\ Has(j, k) => At(w, k) = At(j, k)
           /\ \A kind : Holds(w, k, kind) = Holds(j, k, kind)
           /\ \A d : StringOr(w, k, d) = StringOr(j, k, d)
           /\ LenientString(w, k) = LenientString(j, k)
<1>1. (Has(w, k) <=> Has(j, k)) /\ (Has(j, k) => At(w, k) = At(j, k))
  BY DEF SameAt
<1>2. \A kind : Holds(w, k, kind) = Holds(j, k, kind)
  <2>1. ASSUME NEW kind
        PROVE  /\ Holds(w, k, kind) \in BOOLEAN /\ Holds(j, k, kind) \in BOOLEAN
               /\ Holds(w, k, kind) <=> Holds(j, k, kind)
    BY <1>1 DEF Holds, Has
  <2> QED
    BY <2>1
<1>3. /\ \A d : StringOr(w, k, d) = StringOr(j, k, d)
      /\ LenientString(w, k) = LenientString(j, k)
  BY <1>1, <1>2 DEF StringOr, LenientString, Holds
<1> QED
  BY <1>1, <1>2, <1>3

\* The tag of a sum is no member of its arms.
LEMMA TagIsNoField ==
    ASSUME NEW arm, NEW key, Taggable(arm, key)
    PROVE  key \notin KeysOfFields(StructFields(Schema[arm]))
<1>0. PICK fields : fields = StructFields(Schema[arm])
  OBVIOUS
<1>1. CASE Lacks(arm, key)
  BY <1>0, <1>1 DEF Lacks, IsRecord, StructFields
<1>2. CASE arm = "PO_Cancelled" /\ Schema[arm][1] = "own"
  <2>1. arm \in DOMAIN Schema
    BY DEF Taggable
  <2>2. IsOwnRow(arm, Schema[arm][2]) /\ fields = Schema[arm][2]
    BY <1>0, <1>2, <2>1, OwnRow DEF HandStructs
  <2>3. fields = << >>
    BY <1>2, <2>2 DEF IsOwnRow
  <2> QED
    BY <1>0, <2>3 DEF KeysOfFields
<1>3. CASE \E U \in DOMAIN Schema : Schema[arm] = Alias(Ref(U)) /\ Lacks(U, key)
  <2>1. PICK U \in DOMAIN Schema : Schema[arm] = Alias(Ref(U)) /\ Lacks(U, key)
    BY <1>3
  <2>2. Schema[U][1] = "record" /\ key \notin KeysOfFields(Schema[U][2])
    BY <2>1 DEF Lacks, IsRecord
  <2>3. Schema[arm][1] = "alias" /\ Schema[arm][2][1] = "ref" /\ Schema[arm][2][2] = U
    BY <2>1 DEF Alias, Ref
  <2> QED
    BY <1>0, <2>2, <2>3 DEF StructFields
<1> QED
  BY <1>1, <1>2, <1>3 DEF Taggable

\* An arm that its sum put a member into, or none.
LEMMA ArmOfSum ==
    ASSUME Codecs, NEW arm, NEW key, Taggable(arm, key), NEW x,
           IsValue(Ref(arm), NoNull(StructFields(Schema[arm]), x)), NEW own,
           own = ToJson(Ref(arm), x) \/ \E s : own = With(ToJson(Ref(arm), x), key, s),
           NEW w, NEW K, NEW y,
           Trimmed(StructFields(Schema[arm]), own, w, K,
                   NoNull(StructFields(Schema[arm]), x), y)
    PROVE  FromJson(Ref(arm), w) = {y} /\ key \notin K
<1>1. PICK fields, j, c : /\ fields = StructFields(Schema[arm]) /\ j = ToJson(Ref(arm), x)
                          /\ c = NoNull(fields, x)
  OBVIOUS
<1>2. Trimmed(fields, own, w, K, c, y) /\ IsValue(Ref(arm), c)
  BY <1>1
<1>3. key \notin KeysOfFields(fields)
  BY <1>1, TagIsNoField
<1>4. key \notin K
  BY <1>2, <1>3 DEF Trimmed
<1>5. IsObj(j)
  BY <1>1, ArmIsWritten
<1>6. \A k : k # key => SameAt(j, own, k)
  <2>1. CASE own = j
    BY <2>1 DEF SameAt
  <2>2. CASE \E s : own = With(j, key, s)
    <3>1. PICK s : own = With(j, key, s)
      BY <2>2
    <3> QED
      BY <1>5, <3>1, OtherMember DEF SameAt
  <2> QED
    BY <1>1, <2>1, <2>2
<1>7. \A i \in DOMAIN fields : fields[i].key # key
  BY <1>3 DEF KeysOfFields
<1>8. Spared(fields, j, w, K)
  <2>1. Spared(fields, own, w, K)
    BY <1>2 DEF Trimmed
  <2> QED
    BY <1>6, <1>7, <2>1 DEF Spared, SameAt
<1>9. Trimmed(fields, j, w, K, c, y)
  BY <1>2, <1>8 DEF Trimmed
<1>10. FromJson(Ref(arm), w) = {y}
  <2>1. /\ Trimmed(StructFields(Schema[arm]), ToJson(Ref(arm), x), w, K,
                   NoNull(StructFields(Schema[arm]), x), y)
        /\ IsValue(Ref(arm), NoNull(StructFields(Schema[arm]), x))
    BY <1>1, <1>9
  <2> QED
    BY <2>1, ArmLeftOut
<1> QED
  BY <1>4, <1>10

\* What a tagged sum is written as: its arm, and the tag of that arm.
LEMMA TaggedIsWritten ==
    ASSUME Codecs, NEW T \in DOMAIN Schema, Schema[T][1] = "tagged",
           IsTagged(Schema[T][2], Schema[T][3]),
           NEW v, NEW n \in DOMAIN Schema[T][3], v[1] = Schema[T][3][n].type
    PROVE  ToJson(Ref(T), v)
           = With(ToJson(Ref(v[1]), v[2]), Schema[T][2], JStr(Schema[T][3][n].label))
<1>1. PICK key, arms : key = Schema[T][2] /\ arms = Schema[T][3]
  OBVIOUS
<1>2. \A i, k \in DOMAIN arms : arms[i].type = arms[k].type => i = k
  BY <1>1 DEF IsTagged
<1>3. Label(arms, v[1]) = arms[n].label
  <2>1. PICK A : A = {arms[i] : i \in DOMAIN arms}
    OBVIOUS
  <2>2. arms[n] \in A /\ \A a \in A : a.type = v[1] => a = arms[n]
    BY <1>1, <1>2, <2>1
  <2>3. PICK b : b = CHOOSE a \in A : a.type = v[1]
    OBVIOUS
  <2>4. b = arms[n]
    BY <1>1, <2>2, <2>3
  <2> QED
    BY <2>1, <2>3, <2>4 DEF Label
<1>4. ToJson(Ref(T), v) = EncodeTagged(key, arms, v)
  <2>1. EncodeNamed(T, Schema[T], v) = EncodeTagged(key, arms, v)
    BY <1>1 DEF EncodeNamed
  <2> QED
    BY <2>1, NamedCodecs
<1> QED
  BY <1>1, <1>3, <1>4 DEF EncodeTagged

\* A wire form of an arm v[2] and its sum that lacks members, which y says
\* nothing of.
ArmAbridged(T, v, w, K, y) ==
    /\ IsValue(Ref(v[1]), NoNull(StructFields(Schema[v[1]]), v[2]))
    /\ Kept(ToJson(Ref(T), v), w, K)
    /\ Trimmed(StructFields(Schema[v[1]]), ToJson(Ref(T), v), w, K,
               NoNull(StructFields(Schema[v[1]]), v[2]), y)

LEMMA TaggedLeftOut ==
    ASSUME Codecs, NEW T \in DOMAIN Schema, Schema[T][1] = "tagged",
           IsTagged(Schema[T][2], Schema[T][3]),
           NEW v, \E i \in DOMAIN Schema[T][3] : v[1] = Schema[T][3][i].type,
           NEW w, NEW K, NEW y, ArmAbridged(T, v, w, K, y)
    PROVE  FromJson(Ref(T), w) = {<<v[1], y>>}
<1>0. /\ IsValue(Ref(v[1]), NoNull(StructFields(Schema[v[1]]), v[2]))
      /\ Kept(ToJson(Ref(T), v), w, K)
      /\ Trimmed(StructFields(Schema[v[1]]), ToJson(Ref(T), v), w, K,
                 NoNull(StructFields(Schema[v[1]]), v[2]), y)
  BY DEF ArmAbridged
<1>1. PICK key, arms, own, arm, x :
          /\ key = Schema[T][2] /\ arms = Schema[T][3] /\ own = ToJson(Ref(T), v)
          /\ arm = v[1] /\ x = v[2]
  OBVIOUS
<1>2. PICK n \in DOMAIN arms : arm = arms[n].type
  BY <1>1
<1>3. own = With(ToJson(Ref(arm), x), key, JStr(arms[n].label))
  BY <1>1, <1>2, TaggedIsWritten
<1>4. Taggable(arm, key)
  BY <1>1, <1>2 DEF IsTagged
<1>5. FromJson(Ref(arm), w) = {y} /\ key \notin K
  <2>1. /\ IsValue(Ref(arm), NoNull(StructFields(Schema[arm]), x))
        /\ Trimmed(StructFields(Schema[arm]), own, w, K,
                   NoNull(StructFields(Schema[arm]), x), y)
    BY <1>0, <1>1
  <2>2. \E s : own = With(ToJson(Ref(arm), x), key, s)
    BY <1>3
  <2> QED
    BY <1>4, <2>1, <2>2, ArmOfSum
<1>6. key # Unheard
  <2>1. Unheard \notin KnownKeys(Schema[T])
    BY RelayAssumption
  <2> QED
    BY <1>1, <2>1 DEF KnownKeys
<1>7. Has(own, key) /\ At(own, key) = JStr(arms[n].label)
  BY <1>3 DEF With, Has, At, IsObj, JObj, Put
<1>8. Has(w, key) /\ At(w, key) = JStr(arms[n].label)
  BY <1>0, <1>1, <1>5, <1>6, <1>7 DEF Kept, SameAt
<1>9. \A i, k \in DOMAIN arms : arms[i].label = arms[k].label => i = k
  BY <1>1 DEF IsTagged
<1>10. DecodeTagged(key, arms, w) = {<<arms[n].type, y>>}
  <2>1. {i \in DOMAIN arms : Has(w, key) /\ At(w, key) = JStr(arms[i].label)} = {n}
    BY <1>2, <1>8, <1>9 DEF JStr
  <2>2. DecodeTagged(key, arms, w)
        = UNION {{<<arms[i].type, z>> : z \in FromJson(Ref(arms[i].type), w)} : i \in {n}}
    BY <2>1 DEF DecodeTagged
  <2>3. FromJson(Ref(arms[n].type), w) = {y}
    BY <1>2, <1>5
  <2>4. UNION {{<<arms[i].type, z>> : z \in FromJson(Ref(arms[i].type), w)} : i \in {n}}
        = {<<arms[n].type, z>> : z \in {y}}
    BY <2>3
  <2>5. {<<arms[n].type, z>> : z \in {y}} = {<<arms[n].type, y>>}
    OBVIOUS
  <2> QED
    BY <2>2, <2>4, <2>5
<1>11. FromJson(Ref(T), w) = DecodeTagged(key, arms, w)
  <2>1. DecodeNamed(T, Schema[T], w) = DecodeTagged(key, arms, w)
    BY <1>1 DEF DecodeNamed
  <2> QED
    BY <2>1, NamedCodecs
<1> QED
  BY <1>1, <1>2, <1>10, <1>11

\* The sums without a tag: what their decoders look at is the same.
LEMMA ChoiceLeftOut ==
    ASSUME Codecs, NEW T \in DOMAIN Schema, T \in HandSums, T # "ConfigSelectOptions",
           NEW v, \E i \in DOMAIN Schema[T][2] : v[1] = Schema[T][2][i],
           NEW w, NEW K, NEW y, ArmAbridged(T, v, w, K, y)
    PROVE  FromJson(Ref(T), w) = {<<v[1], y>>}
<1>0. /\ IsValue(Ref(v[1]), NoNull(StructFields(Schema[v[1]]), v[2]))
      /\ Kept(ToJson(Ref(T), v), w, K)
      /\ Trimmed(StructFields(Schema[v[1]]), ToJson(Ref(T), v), w, K,
                 NoNull(StructFields(Schema[v[1]]), v[2]), y)
  BY DEF ArmAbridged
<1>1. PICK arms, own, arm, x :
          arms = Schema[T][2] /\ own = ToJson(Ref(T), v) /\ arm = v[1] /\ x = v[2]
  OBVIOUS
<1>2. PICK n \in DOMAIN arms : arm = arms[n]
  BY <1>1
<1>3. Schema[T][1] = "choice" /\ IsChoice(T, arms)
  BY <1>1, HandSumRow
<1>4. PICK j : j = ToJson(Ref(arm), x)
  OBVIOUS
<1>5. own = Mark(T, arm, j)
  BY <1>1, <1>3, <1>4, ChoiceCodecs
<1>6. /\ IsObj(w)
      /\ \A k : k \notin K \cup {Unheard} => SameAt(own, w, k)
  BY <1>0, <1>1 DEF Kept
<1>7. ASSUME NEW key, Taggable(arm, key), own = j \/ \E s : own = With(j, key, s)
      PROVE  FromJson(Ref(arm), w) = {y} /\ key \notin K
  <2>1. /\ IsValue(Ref(arm), NoNull(StructFields(Schema[arm]), x))
        /\ Trimmed(StructFields(Schema[arm]), own, w, K,
                   NoNull(StructFields(Schema[arm]), x), y)
    BY <1>0, <1>1
  <2> QED
    BY <1>4, <1>7, <2>1, ArmOfSum
<1>8. ASSUME Pick(T, w) = {arm}, FromJson(Ref(arm), w) = {y}
      PROVE  FromJson(Ref(T), w) = {<<v[1], y>>}
  BY <1>1, <1>3, <1>8, PickedArm
<1>9. CASE T = "McpServer"
  <2>1. /\ arms = <<"StdioMcpServer", "HttpMcpServer", "SseMcpServer">>
        /\ \A i \in DOMAIN arms : Lacks(arms[i], "type")
    BY <1>3, <1>9 DEF IsChoice
  <2>2. /\ arm \in {"StdioMcpServer", "HttpMcpServer", "SseMcpServer"}
        /\ Lacks(arm, "type") /\ Taggable(arm, "type")
    <3>1. Lacks(arm, "type")
      BY <1>2, <2>1
    <3>2. Taggable(arm, "type")
      BY <3>1 DEF Taggable, Lacks, IsRecord
    <3>3. arm \in {"StdioMcpServer", "HttpMcpServer", "SseMcpServer"}
      BY <1>2, <2>1
    <3> QED
      BY <3>1, <3>2, <3>3
  <2>3. IsObj(j) /\ ~Has(j, "type")
    BY <1>4, <2>2, RecordIsWritten DEF Lacks
  <2>4. own = MarkMcpServer(arm, j)
    BY <1>5, <1>9 DEF Mark
  <2>5. own = j \/ \E s : own = With(j, "type", s)
    BY <2>2, <2>4 DEF MarkMcpServer
  <2>6. FromJson(Ref(arm), w) = {y} /\ "type" \notin K
    BY <1>7, <2>2, <2>5
  <2>7. SameAt(own, w, "type")
    BY <1>6, <2>6 DEF Unheard
  <2>8. StringOr(w, "type", "stdio") = StringOr(own, "type", "stdio")
    BY <2>7, SameMember
  <2>9. IsObj(own)
    BY <2>3, <2>5 DEF With, IsObj, JObj
  <2>10. PickMcpServer(own) = {arm}
    BY <2>2, <2>3, <2>4, McpServerRoundTrip
  <2>11. PickMcpServer(w) = PickMcpServer(own)
    BY <1>6, <2>8, <2>9 DEF PickMcpServer
  <2>12. Pick(T, w) = {arm}
    BY <1>9, <2>10, <2>11 DEF Pick
  <2> QED
    BY <1>8, <2>6, <2>12
<1>10. CASE T = "EmbeddedResource"
  <2>1. /\ arms = <<"TextResource", "BlobResource">>
        /\ Demands("TextResource", "text") /\ Lacks("TextResource", "blob")
        /\ Demands("BlobResource", "blob") /\ Lacks("BlobResource", "text")
    BY <1>3, <1>10 DEF IsChoice
  <2>2. own = j
    BY <1>5, <1>10 DEF Mark
  <2>3. ASSUME NEW k, Demands(arm, k)
        PROVE  Has(own, k) /\ k \notin K
    <3>1. PICK fields : fields = Schema[arm][2]
      OBVIOUS
    <3>2. /\ IsRecord(arm) /\ IsFields(fields, RecordHows) /\ StructFields(Schema[arm]) = fields
          /\ k \in Keys(fields, "required")
      BY <2>3, <3>1 DEF Demands, IsRecord, StructFields
    <3>3. Has(own, k)
      BY <1>4, <2>2, <3>1, <3>2, RecordIsWritten
    <3>4. PICK i \in DOMAIN fields : fields[i].how = "required" /\ fields[i].key = k
      BY <3>2 DEF Keys, How
    <3>5. Spared(fields, own, w, K)
      BY <1>0, <1>1, <3>2 DEF Trimmed
    <3>6. k \notin K
      BY <3>4, <3>5 DEF Spared, Absent
    <3> QED
      BY <3>3, <3>6
  <2>4. CASE arm = "TextResource"
    <3>1. Has(own, "text") /\ "text" \notin K
      BY <2>1, <2>3, <2>4
    <3>2. Has(w, "text")
      BY <1>6, <3>1 DEF SameAt, Unheard
    <3>3. Pick(T, w) = {arm}
      BY <1>10, <2>4, <3>2 DEF Pick, PickEmbeddedResource
    <3>4. Taggable(arm, "blob")
      BY <2>1, <2>4 DEF Taggable, Lacks, IsRecord
    <3> QED
      BY <1>7, <1>8, <2>2, <3>3, <3>4
  <2>5. CASE arm = "BlobResource"
    <3>1. Has(own, "blob") /\ "blob" \notin K
      BY <2>1, <2>3, <2>5
    <3>2. Has(w, "blob")
      BY <1>6, <3>1 DEF SameAt, Unheard
    <3>3. Taggable(arm, "text")
      BY <2>1, <2>5 DEF Taggable, Lacks, IsRecord
    <3>4. FromJson(Ref(arm), w) = {y} /\ "text" \notin K
      BY <1>7, <2>2, <3>3
    <3>5. ~Has(own, "text")
      BY <1>4, <2>1, <2>2, <2>5, RecordIsWritten DEF Lacks
    <3>6. ~Has(w, "text")
      BY <1>6, <3>4, <3>5 DEF SameAt, Unheard
    <3>7. Pick(T, w) = {arm}
      BY <1>10, <2>5, <3>2, <3>6 DEF Pick, PickEmbeddedResource
    <3> QED
      BY <1>8, <3>4, <3>7
  <2> QED
    BY <1>2, <2>1, <2>4, <2>5
<1>11. CASE T = "AvailableCommandInput"
  <2>1. arms = <<"UnstructuredCommandInput">> /\ Lacks("UnstructuredCommandInput", "type")
    BY <1>3, <1>11 DEF IsChoice
  <2>2. arm = "UnstructuredCommandInput"
    BY <1>2, <2>1
  <2>3. own = j
    BY <1>5, <1>11 DEF Mark
  <2>4. Taggable(arm, "type") /\ ~Has(own, "type")
    BY <1>4, <2>1, <2>2, <2>3, RecordIsWritten DEF Taggable, Lacks, IsRecord
  <2>5. FromJson(Ref(arm), w) = {y} /\ "type" \notin K
    BY <1>7, <2>3, <2>4
  <2>6. ~Has(w, "type")
    BY <1>6, <2>4, <2>5 DEF SameAt, Unheard
  <2>7. StringOr(w, "type", "unstructured") = {"unstructured"}
    BY <2>6 DEF StringOr, Just
  <2>8. Pick(T, w) = {arm}
    BY <1>6, <1>11, <2>2, <2>7 DEF Pick, PickAvailableCommandInput
  <2> QED
    BY <1>8, <2>5, <2>8
<1> QED
  BY <1>9, <1>10, <1>11 DEF HandSums

\* The structs with a codec written by hand.
LEMMA AuthMethodLeftOut ==
    ASSUME Codecs, "AuthMethod" \in DOMAIN Schema, NEW v,
           IsValue(Ref("AuthMethod"), Canonical("AuthMethod", v)),
           NEW w, NEW K, Kept(ToJson(Ref("AuthMethod"), v), w, K), NEW d,
           Trimmed(Schema["AuthMethod"][2], ToJson(Ref("AuthMethod"), v), w, K,
                   Canonical("AuthMethod", v), d)
    PROVE  FromJson(Ref("AuthMethod"), w) = {d}
<1>1. PICK T, fields, own, c :
          /\ T = "AuthMethod" /\ fields = Schema[T][2] /\ own = ToJson(Ref(T), v)
          /\ c = Canonical(T, v)
  OBVIOUS
<1>2. /\ Kept(own, w, K) /\ Trimmed(fields, own, w, K, c, d) /\ IsValue(Ref(T), c)
      /\ T \in DOMAIN Schema
  BY <1>1
<1>3. /\ Schema[T][1] = "own" /\ IsOwnRow(T, fields)
  BY <1>1, OwnRow DEF HandStructs
<1>4. /\ Keys(fields, "optional") = {"description"}
      /\ Declares(fields, "defaulted", [type |-> "agent"])
      /\ IsFields(fields, RecordHows \cup {"member"})
  BY <1>1, <1>3 DEF IsOwnRow
<1>5. IsAuthMethod(c)
  <2>1. IsOwn(T, fields, c)
    BY <1>1, <1>2, <1>3, OwnCodecs
  <2> QED
    BY <1>1, <2>1 DEF IsOwn
<1>6. \A j : FromJson(Ref(T), j) = DecodeAuthMethod(j)
  <2>1. \A j : DecodeOwn(T, fields, j) = DecodeAuthMethod(j)
    BY <1>1 DEF DecodeOwn
  <2> QED
    BY <1>1, <1>3, <2>1, OwnCodecs
<1>7. DecodeAuthMethod(own) = {c}
  BY <1>1, <1>2, <1>6, AuthMethodReads
<1>8. /\ \A k \in K : k \in {"description", "type"}
      /\ "description" \in K => ~Has(w, "description") \/ At(w, "description") = JNull
      /\ "type" \in K => ~Has(w, "type")
      /\ K # {} => /\ "description" \in K => d["description"] = Nothing
                   /\ "type" \in K => d["type"] = "agent"
  <2>1. ASSUME NEW k \in K
        PROVE  /\ k \in {"description", "type"}
               /\ k = "description" => ~Has(w, k) \/ At(w, k) = JNull
               /\ k = "type" => ~Has(w, k)
               /\ k = "description" => d[k] = Nothing
               /\ k = "type" => d[k] = "agent"
    <3>1. PICK i \in DOMAIN fields : fields[i].key = k
      BY <1>2 DEF Trimmed, KeysOfFields
    <3>2. Absent(fields[i], w) /\ (k \in DOMAIN c => d[k] = fields[i].or)
      BY <1>2, <3>1 DEF Trimmed, Spared, IsReset
    <3>3. \/ fields[i].how = "optional" /\ k = "description" /\ fields[i].or = Nothing
          \/ fields[i].how = "defaulted" /\ k = "type" /\ fields[i].or = "agent"
      <4>1. CASE fields[i].how = "optional"
        <5>1. k \in Keys(fields, "optional")
          BY <3>1, <4>1 DEF Keys, How
        <5>2. fields[i].or = Nothing
          BY <1>4, <4>1, FieldRows
        <5> QED
          BY <1>4, <4>1, <5>1, <5>2
      <4>2. CASE fields[i].how = "defaulted"
        <5>1. k \in Keys(fields, "defaulted") /\ i \in How(fields, "defaulted")
          BY <3>1, <4>2 DEF Keys, How
        <5> QED
          BY <1>4, <3>1, <4>2, <5>1 DEF Declares
      <4> QED
        BY <3>2, <4>1, <4>2 DEF Absent
    <3>4. {"description", "type"} \subseteq DOMAIN c
      BY <1>5 DEF IsAuthMethod
    <3> QED
      BY <3>1, <3>2, <3>3, <3>4 DEF Absent
  <2> QED
    BY <2>1
<1>9. \A k : k \notin K \cup {Unheard} => SameAt(own, w, k)
  BY <1>2 DEF Kept
<1>10. \A k \in {"id", "name", "args", "env", "_meta"} :
           /\ Has(own, k) => At(w, k) = At(own, k)
           /\ \A kind : Holds(w, k, kind) = Holds(own, k, kind)
  <2>1. ASSUME NEW k \in {"id", "name", "args", "env", "_meta"}
        PROVE  SameAt(own, w, k)
    BY <1>8, <1>9 DEF Unheard
  <2> QED
    BY <2>1, SameMember
<1>11. /\ Holds(w, "id", "str") = Holds(own, "id", "str")
       /\ Holds(w, "name", "str") = Holds(own, "name", "str")
       /\ Holds(w, "args", "arr") = Holds(own, "args", "arr")
       /\ Holds(w, "env", "obj") = Holds(own, "env", "obj")
       /\ Holds(own, "id", "str") => At(w, "id") = At(own, "id")
       /\ Holds(own, "name", "str") => At(w, "name") = At(own, "name")
       /\ Holds(own, "args", "arr") => At(w, "args") = At(own, "args")
       /\ Holds(own, "env", "obj") => At(w, "env") = At(own, "env")
  <2>1. \A i, kind : Holds(own, i, kind) => Has(own, i)
    BY DEF Holds
  <2> QED
    BY <1>10, <2>1
<1>12. LenientMeta(w) = LenientMeta(own)
  BY <1>10 DEF LenientMeta, Holds
<1>13. /\ "description" \notin K => LenientString(w, "description") = LenientString(own, "description")
       /\ "description" \in K => LenientString(w, "description") = Nothing
       /\ "type" \notin K => StringOr(w, "type", "agent") = StringOr(own, "type", "agent")
       /\ "type" \in K => StringOr(w, "type", "agent") = Just("agent")
  <2>1. "description" \notin K => LenientString(w, "description") = LenientString(own, "description")
    BY <1>9, SameMember DEF Unheard
  <2>2. "type" \notin K => StringOr(w, "type", "agent") = StringOr(own, "type", "agent")
    BY <1>9, SameMember DEF Unheard
  <2>3. "description" \in K => LenientString(w, "description") = Nothing
    BY <1>8 DEF LenientString, Holds, JNull
  <2>4. "type" \in K => StringOr(w, "type", "agent") = Just("agent")
    BY <1>8 DEF StringOr
  <2> QED
    BY <2>1, <2>2, <2>3, <2>4
<1>14. /\ Holds(own, "id", "str") /\ Holds(own, "name", "str")
       /\ StringOr(own, "type", "agent") # {}
       /\ Holds(own, "args", "arr") => AllStrings(At(own, "args")[2])
       /\ Holds(own, "env", "obj") => AllStrings(At(own, "env")[2])
       /\ c = [id |-> At(own, "id")[2], name |-> At(own, "name")[2],
               description |-> LenientString(own, "description"),
               type |-> The(StringOr(own, "type", "agent")),
               args |-> IF Holds(own, "args", "arr") THEN Strings(At(own, "args")[2]) ELSE << >>,
               env |-> IF Holds(own, "env", "obj") THEN Strings(At(own, "env")[2]) ELSE << >>,
               _meta |-> LenientMeta(own)]
  BY <1>7 DEF DecodeAuthMethod
<1>15. StringOr(w, "type", "agent") # {}
  BY <1>13, <1>14 DEF Just
<1>16. DecodeAuthMethod(w)
       = {[id |-> c.id, name |-> c.name, description |-> LenientString(w, "description"),
           type |-> The(StringOr(w, "type", "agent")), args |-> c.args, env |-> c.env,
           _meta |-> c._meta]}
  BY <1>11, <1>12, <1>14, <1>15 DEF DecodeAuthMethod
<1>17. /\ d.id = c.id /\ d.name = c.name /\ d.args = c.args /\ d.env = c.env
       /\ d._meta = c._meta
       /\ d.description = LenientString(w, "description")
       /\ d.type = The(StringOr(w, "type", "agent"))
       /\ d = [id |-> d.id, name |-> d.name, description |-> d.description, type |-> d.type,
               args |-> d.args, env |-> d.env, _meta |-> d._meta]
  <2>1. IsReset(fields, K, c, d)
    BY <1>2 DEF Trimmed
  <2>2. CASE K = {}
    <3>1. d = c
      BY <2>1, <2>2 DEF IsReset
    <3> QED
      BY <1>5, <1>13, <1>14, <2>2, <3>1 DEF IsAuthMethod
  <2>3. CASE K # {}
    <3>1. /\ d = [k \in DOMAIN c |-> d[k]]
          /\ \A k \in DOMAIN c \ K : d[k] = c[k]
      BY <2>1, <2>3 DEF IsReset
    <3>2. DOMAIN c = {"id", "name", "description", "type", "args", "env", "_meta"}
      BY <1>14
    <3>3. /\ d.id = c.id /\ d.name = c.name /\ d.args = c.args /\ d.env = c.env
          /\ d._meta = c._meta
      BY <1>8, <3>1, <3>2
    <3>4. d.description = LenientString(w, "description")
      <4>1. CASE "description" \in K
        BY <1>8, <1>13, <4>1
      <4>2. CASE "description" \notin K
        BY <1>13, <1>14, <3>1, <3>2, <4>2
      <4> QED
        BY <4>1, <4>2
    <3>5. d.type = The(StringOr(w, "type", "agent"))
      <4>1. CASE "type" \in K
        <5>1. The(Just("agent")) = "agent"
          BY DEF The, Just
        <5> QED
          BY <1>8, <1>13, <4>1, <5>1
      <4>2. CASE "type" \notin K
        BY <1>13, <1>14, <3>1, <3>2, <4>2
      <4> QED
        BY <4>1, <4>2
    <3>6. d = [id |-> d.id, name |-> d.name, description |-> d.description, type |-> d.type,
               args |-> d.args, env |-> d.env, _meta |-> d._meta]
      BY <3>1, <3>2
    <3> QED
      BY <3>3, <3>4, <3>5, <3>6
  <2> QED
    BY <2>2, <2>3
<1>18. DecodeAuthMethod(w) = {d}
  BY <1>16, <1>17
<1> QED
  BY <1>1, <1>6, <1>18

\* What a config option is decoded to, by what its type says.
LEMMA ConfigOptionDecoded ==
    ASSUME NEW j, NEW options, NEW a, a = StringOr(j, "type", "select"), NEW t, t = The(a)
    PROVE  /\ Holds(j, "id", "str") /\ Holds(j, "name", "str") /\ a # {}
              /\ t = "boolean" /\ Holds(j, "currentValue", "bool") =>
                  DecodeConfigOption(j, options)
                  = {[id |-> At(j, "id")[2], name |-> At(j, "name")[2],
                      description |-> LenientString(j, "description"),
                      category |-> LenientString(j, "category"), type |-> t,
                      currentValue |-> "", currentBool |-> At(j, "currentValue")[2],
                      options |-> <<"CSO_Ungrouped", << >>>>, _meta |-> LenientMeta(j)]}
           /\ DecodeConfigOption(j, options) # {} =>
                  /\ Holds(j, "id", "str") /\ Holds(j, "name", "str") /\ a # {}
                  /\ t = "boolean" => Holds(j, "currentValue", "bool")
                  /\ t # "boolean" => Holds(j, "currentValue", "str")
<1>1. CASE t = "boolean"
  BY <1>1 DEF DecodeConfigOption
<1>2. CASE t # "boolean"
  BY <1>2 DEF DecodeConfigOption
<1> QED
  BY <1>1, <1>2

LEMMA ConfigOptionLeftOut ==
    ASSUME Codecs, "ConfigOption" \in DOMAIN Schema, NEW v,
           IsValue(Ref("ConfigOption"), Canonical("ConfigOption", v)),
           NEW w, NEW K, Kept(ToJson(Ref("ConfigOption"), v), w, K),
           IsBoolean(v) => "type" \notin K, NEW d,
           Trimmed(Schema["ConfigOption"][2], ToJson(Ref("ConfigOption"), v), w, K,
                   Canonical("ConfigOption", v), d)
    PROVE  FromJson(Ref("ConfigOption"), w) = {d}
<1>1. PICK T, fields, own, c, S :
          /\ T = "ConfigOption" /\ fields = Schema[T][2] /\ own = ToJson(Ref(T), v)
          /\ c = Canonical(T, v) /\ S = Ref("ConfigSelectOptions")
  OBVIOUS
<1>2. /\ Kept(own, w, K) /\ Trimmed(fields, own, w, K, c, d) /\ IsValue(Ref(T), c)
      /\ T \in DOMAIN Schema
  BY <1>1
<1>3. /\ Schema[T][1] = "own" /\ IsOwnRow(T, fields)
  BY <1>1, OwnRow DEF HandStructs
<1>4. /\ Keys(fields, "optional") = {"description", "category"}
      /\ Declares(fields, "defaulted", [type |-> "select"])
      /\ IsFields(fields, RecordHows \cup {"member"})
      /\ "ConfigSelectOptions" \in DOMAIN Schema
      /\ \E i \in DOMAIN fields : fields[i].type = S
  BY <1>1, <1>3 DEF IsOwnRow
<1>5. IsConfigOption(c)
  <2>1. IsOwn(T, fields, c)
    BY <1>1, <1>2, <1>3, OwnCodecs
  <2> QED
    BY <1>1, <2>1 DEF IsOwn
<1>6. PICK q, r : /\ q = IF Has(own, "options") THEN FromJson(S, At(own, "options")) ELSE {}
                  /\ r = IF Has(w, "options") THEN FromJson(S, At(w, "options")) ELSE {}
  OBVIOUS
<1>7. FromJson(Ref(T), own) = DecodeConfigOption(own, q) /\ FromJson(Ref(T), w) = DecodeConfigOption(w, r)
  <2>1. DecodeOwn(T, fields, own) = DecodeConfigOption(own, q)
        /\ DecodeOwn(T, fields, w) = DecodeConfigOption(w, r)
    BY <1>1, <1>6 DEF DecodeOwn
  <2> QED
    BY <1>1, <1>3, <2>1, OwnCodecs
<1>8. DecodeConfigOption(own, q) = {c}
  <2>1. Good(S)
    BY <1>1, <1>4, DepthAssumption, EveryTypeIsGood
  <2>2. FromJson(Ref(T), own) = {c}
    BY <1>1, <1>2, <1>4, <2>1, ConfigOptionReads
  <2> QED
    BY <1>7, <2>2
<1>9. /\ \A k \in K : k \in {"description", "category", "type"}
      /\ \A k \in {"description", "category"} :
             k \in K => (~Has(w, k) \/ At(w, k) = JNull) /\ d[k] = Nothing
      /\ "type" \in K => ~Has(w, "type") /\ d["type"] = "select"
  <2>1. ASSUME NEW k \in K
        PROVE  /\ k \in {"description", "category", "type"}
               /\ k \in {"description", "category"} =>
                      (~Has(w, k) \/ At(w, k) = JNull) /\ d[k] = Nothing
               /\ k = "type" => ~Has(w, k) /\ d[k] = "select"
    <3>1. PICK i \in DOMAIN fields : fields[i].key = k
      BY <1>2 DEF Trimmed, KeysOfFields
    <3>2. Absent(fields[i], w) /\ (k \in DOMAIN c => d[k] = fields[i].or)
      BY <1>2, <3>1 DEF Trimmed, Spared, IsReset
    <3>3. \/ /\ fields[i].how = "optional" /\ k \in {"description", "category"}
             /\ fields[i].or = Nothing
          \/ fields[i].how = "defaulted" /\ k = "type" /\ fields[i].or = "select"
      <4>1. CASE fields[i].how = "optional"
        <5>1. k \in Keys(fields, "optional")
          BY <3>1, <4>1 DEF Keys, How
        <5>2. fields[i].or = Nothing
          BY <1>4, <4>1, FieldRows
        <5> QED
          BY <1>4, <4>1, <5>1, <5>2
      <4>2. CASE fields[i].how = "defaulted"
        <5>1. k \in Keys(fields, "defaulted") /\ i \in How(fields, "defaulted")
          BY <3>1, <4>2 DEF Keys, How
        <5> QED
          BY <1>4, <3>1, <4>2, <5>1 DEF Declares
      <4> QED
        BY <3>2, <4>1, <4>2 DEF Absent
    <3>4. {"description", "category", "type"} \subseteq DOMAIN c
      BY <1>5 DEF IsConfigOption
    <3> QED
      BY <3>1, <3>2, <3>3, <3>4 DEF Absent
  <2> QED
    BY <2>1
<1>10. \A k : k \notin K \cup {Unheard} => SameAt(own, w, k)
  BY <1>2 DEF Kept
<1>11. \A k \in {"id", "name", "currentValue", "options", "_meta"} :
           /\ Has(w, k) <=> Has(own, k)
           /\ Has(own, k) => At(w, k) = At(own, k)
           /\ \A kind : Holds(w, k, kind) = Holds(own, k, kind)
  <2>1. ASSUME NEW k \in {"id", "name", "currentValue", "options", "_meta"}
        PROVE  SameAt(own, w, k)
    BY <1>9, <1>10 DEF Unheard
  <2> QED
    BY <2>1, SameMember
<1>12. r = q
  BY <1>6, <1>11
<1>13. /\ Holds(w, "id", "str") = Holds(own, "id", "str")
       /\ Holds(w, "name", "str") = Holds(own, "name", "str")
       /\ Holds(w, "currentValue", "bool") = Holds(own, "currentValue", "bool")
       /\ Holds(w, "currentValue", "str") = Holds(own, "currentValue", "str")
       /\ Holds(own, "id", "str") => At(w, "id") = At(own, "id")
       /\ Holds(own, "name", "str") => At(w, "name") = At(own, "name")
       /\ Holds(own, "currentValue", "bool") => At(w, "currentValue") = At(own, "currentValue")
       /\ Holds(own, "currentValue", "str") => At(w, "currentValue") = At(own, "currentValue")
  <2>1. \A i, kind : Holds(own, i, kind) => Has(own, i)
    BY DEF Holds
  <2> QED
    BY <1>11, <2>1
<1>14. LenientMeta(w) = LenientMeta(own)
  BY <1>11 DEF LenientMeta, Holds
<1>15. /\ \A k \in {"description", "category"} :
              LenientString(w, k) = IF k \in K THEN Nothing ELSE LenientString(own, k)
       /\ StringOr(w, "type", "select")
          = IF "type" \in K THEN Just("select") ELSE StringOr(own, "type", "select")
  <2>1. ASSUME NEW k \in {"description", "category"}
        PROVE  LenientString(w, k) = IF k \in K THEN Nothing ELSE LenientString(own, k)
    <3>1. CASE k \in K
      BY <1>9, <3>1 DEF LenientString, Holds, JNull
    <3>2. CASE k \notin K
      BY <1>10, <3>2, SameMember DEF Unheard
    <3> QED
      BY <3>1, <3>2
  <2>2. CASE "type" \in K
    BY <1>9, <2>1, <2>2 DEF StringOr
  <2>3. CASE "type" \notin K
    BY <1>10, <2>1, <2>3, SameMember DEF Unheard
  <2> QED
    BY <2>1, <2>2, <2>3
<1>16. PICK a, b : a = StringOr(own, "type", "select") /\ b = StringOr(w, "type", "select")
  OBVIOUS
<1>17. /\ Holds(own, "id", "str") /\ Holds(own, "name", "str") /\ a # {}
       /\ The(a) = "boolean" => Holds(own, "currentValue", "bool")
       /\ The(a) # "boolean" => Holds(own, "currentValue", "str")
  BY <1>8, <1>16, ConfigOptionDecoded
<1>18. /\ c.id = At(own, "id")[2] /\ c.name = At(own, "name")[2]
       /\ c._meta = LenientMeta(own) /\ c.description = LenientString(own, "description")
       /\ c.category = LenientString(own, "category") /\ c.type = The(a)
       /\ The(a) = "boolean" => /\ c.currentValue = ""
                                /\ c.currentBool = At(own, "currentValue")[2]
                                /\ c.options = <<"CSO_Ungrouped", << >>>>
       /\ The(a) # "boolean" => /\ c.currentValue = At(own, "currentValue")[2]
                                /\ c.currentBool = FALSE /\ q = {c.options}
  <2>1. CASE The(a) = "boolean"
    <3>1. DecodeConfigOption(own, q)
          = {[id |-> At(own, "id")[2], name |-> At(own, "name")[2],
              description |-> LenientString(own, "description"),
              category |-> LenientString(own, "category"), type |-> The(a),
              currentValue |-> "", currentBool |-> At(own, "currentValue")[2],
              options |-> <<"CSO_Ungrouped", << >>>>, _meta |-> LenientMeta(own)]}
      BY <1>16, <1>17, <2>1, ConfigOptionDecoded
    <3>2. c = [id |-> At(own, "id")[2], name |-> At(own, "name")[2],
               description |-> LenientString(own, "description"),
               category |-> LenientString(own, "category"), type |-> The(a),
               currentValue |-> "", currentBool |-> At(own, "currentValue")[2],
               options |-> <<"CSO_Ungrouped", << >>>>, _meta |-> LenientMeta(own)]
      BY <1>8, <3>1
    <3> QED
      BY <2>1, <3>2
  <2>2. CASE The(a) # "boolean"
    <3>1. PICK e : e = [o \in q |->
              [id |-> At(own, "id")[2], name |-> At(own, "name")[2],
               description |-> LenientString(own, "description"),
               category |-> LenientString(own, "category"), type |-> The(a),
               currentValue |-> At(own, "currentValue")[2], currentBool |-> FALSE,
               options |-> o, _meta |-> LenientMeta(own)]]
      OBVIOUS
    <3>2. DecodeConfigOption(own, q)
          = {[id |-> At(own, "id")[2], name |-> At(own, "name")[2],
              description |-> LenientString(own, "description"),
              category |-> LenientString(own, "category"), type |-> The(a),
              currentValue |-> At(own, "currentValue")[2], currentBool |-> FALSE,
              options |-> o, _meta |-> LenientMeta(own)] : o \in q}
      BY <1>16, <1>17, <2>2 DEF DecodeConfigOption
    <3>3. {c} = {e[o] : o \in q}
      BY <1>8, <3>1, <3>2
    <3>4. \A o \in q : e[o].options = o
      BY <3>1
    <3>5. PICK o \in q : e[o] = c
      BY <3>3
    <3>6. \A p \in q : e[p] = c
      BY <3>3
    <3>7. q = {c.options}
      BY <3>4, <3>5, <3>6
    <3> QED
      BY <2>2, <3>1, <3>5, <3>7
  <2> QED
    BY <2>1, <2>2
<1>19. /\ b # {} /\ d.type = The(b) /\ (The(b) = "boolean" <=> The(a) = "boolean")
       /\ d.description = LenientString(w, "description")
       /\ d.category = LenientString(w, "category")
       /\ c.id = At(own, "id")[2] /\ c.name = At(own, "name")[2]
       /\ c._meta = LenientMeta(own)
       /\ d.id = c.id /\ d.name = c.name /\ d._meta = c._meta /\ d.options = c.options
       /\ d.currentValue = c.currentValue /\ d.currentBool = c.currentBool
       /\ d = [id |-> d.id, name |-> d.name, description |-> d.description,
               category |-> d.category, type |-> d.type, currentValue |-> d.currentValue,
               currentBool |-> d.currentBool, options |-> d.options, _meta |-> d._meta]
  <2>1. IsReset(fields, K, c, d)
    BY <1>2 DEF Trimmed
  <2>2. /\ c.id = At(own, "id")[2] /\ c.name = At(own, "name")[2]
        /\ c._meta = LenientMeta(own) /\ c.description = LenientString(own, "description")
        /\ c.category = LenientString(own, "category") /\ c.type = The(a)
    BY <1>18
  <2>3. DOMAIN c = {"id", "name", "description", "category", "type", "currentValue",
                    "currentBool", "options", "_meta"}
    BY <1>5 DEF IsConfigOption
  <2>4. /\ DOMAIN d = DOMAIN c /\ d = [k \in DOMAIN d |-> d[k]]
        /\ \A k \in DOMAIN c \ K : d[k] = c[k]
    <3>1. CASE K = {}
      BY <1>5, <2>1, <3>1 DEF IsReset, IsConfigOption
    <3>2. CASE K # {}
      BY <2>1, <3>2 DEF IsReset
    <3> QED
      BY <3>1, <3>2
  <2>5. /\ d.id = c.id /\ d.name = c.name /\ d._meta = c._meta /\ d.options = c.options
        /\ d.currentValue = c.currentValue /\ d.currentBool = c.currentBool
    BY <1>9, <2>3, <2>4
  <2>6. /\ d.description = LenientString(w, "description")
        /\ d.category = LenientString(w, "category")
    BY <1>9, <1>15, <2>2, <2>3, <2>4
  <2>7. b # {} /\ d.type = The(b) /\ (The(b) = "boolean" <=> The(a) = "boolean")
    <3>1. CASE "type" \in K
      <4>1. The(Just("select")) = "select" /\ Just("select") # {}
        BY DEF The, Just
      <4>2. d.type = "select" /\ b = Just("select")
        BY <1>9, <1>15, <1>16, <3>1
      <4>3. ~IsBoolean(v)
        BY <3>1
      <4>4. c.type # "boolean"
        <5>1. c = [v EXCEPT !.currentBool = FALSE, !.options = NoneUngrouped(@)]
          BY <1>1, <4>3 DEF Canonical
        <5>2. c.type = v.type
          BY <2>3, <5>1
        <5> QED
          BY <4>3, <5>2 DEF IsBoolean
      <4> QED
        BY <2>2, <4>1, <4>2, <4>4
    <3>2. CASE "type" \notin K
      BY <1>15, <1>16, <1>17, <2>2, <2>3, <2>4, <3>2
    <3> QED
      BY <3>1, <3>2
  <2>8. d = [id |-> d.id, name |-> d.name, description |-> d.description,
             category |-> d.category, type |-> d.type, currentValue |-> d.currentValue,
             currentBool |-> d.currentBool, options |-> d.options, _meta |-> d._meta]
    BY <2>3, <2>4
  <2> QED
    BY <2>2, <2>5, <2>6, <2>7, <2>8
<1>20. CASE The(a) = "boolean"
  <2>1. DecodeConfigOption(w, r)
        = {[id |-> At(w, "id")[2], name |-> At(w, "name")[2],
            description |-> LenientString(w, "description"),
            category |-> LenientString(w, "category"), type |-> The(b),
            currentValue |-> "", currentBool |-> At(w, "currentValue")[2],
            options |-> <<"CSO_Ungrouped", << >>>>, _meta |-> LenientMeta(w)]}
    BY <1>13, <1>16, <1>17, <1>19, <1>20, ConfigOptionDecoded
  <2>2. /\ At(w, "id")[2] = d.id /\ At(w, "name")[2] = d.name
        /\ "" = d.currentValue /\ At(w, "currentValue")[2] = d.currentBool
        /\ <<"CSO_Ungrouped", << >>>> = d.options /\ LenientMeta(w) = d._meta
    BY <1>13, <1>14, <1>17, <1>18, <1>19, <1>20
  <2>3. DecodeConfigOption(w, r) = {d}
    BY <1>19, <2>1, <2>2
  <2> QED
    BY <1>1, <1>7, <2>3
<1>21. CASE The(a) # "boolean"
  <2>1. DecodeConfigOption(w, r)
        = {[id |-> At(w, "id")[2], name |-> At(w, "name")[2],
            description |-> LenientString(w, "description"),
            category |-> LenientString(w, "category"), type |-> The(b),
            currentValue |-> At(w, "currentValue")[2], currentBool |-> FALSE,
            options |-> o, _meta |-> LenientMeta(w)] : o \in r}
    BY <1>13, <1>16, <1>17, <1>19, <1>21 DEF DecodeConfigOption
  <2>2. /\ At(w, "id")[2] = d.id /\ At(w, "name")[2] = d.name
        /\ At(w, "currentValue")[2] = d.currentValue /\ d.currentBool = FALSE
        /\ LenientMeta(w) = d._meta /\ r = {d.options}
    BY <1>12, <1>13, <1>14, <1>17, <1>18, <1>19, <1>21
  <2>3. DecodeConfigOption(w, r)
        = {[id |-> d.id, name |-> d.name, description |-> d.description,
            category |-> d.category, type |-> d.type, currentValue |-> d.currentValue,
            currentBool |-> d.currentBool, options |-> o, _meta |-> d._meta] : o \in {d.options}}
    BY <1>19, <2>1, <2>2
  <2>4. DecodeConfigOption(w, r) = {d}
    BY <1>19, <2>3
  <2> QED
    BY <1>1, <1>7, <2>4
<1> QED
  BY <1>20, <1>21

LEMMA SessionCapabilitiesLeftOut ==
    ASSUME Codecs, "ClientSessionCapabilities" \in DOMAIN Schema, NEW v,
           IsValue(Ref("ClientSessionCapabilities"), v),
           NEW w, NEW K, Kept(ToJson(Ref("ClientSessionCapabilities"), v), w, K), NEW d,
           Trimmed(Schema["ClientSessionCapabilities"][2],
                   ToJson(Ref("ClientSessionCapabilities"), v), w, K, v, d)
    PROVE  FromJson(Ref("ClientSessionCapabilities"), w) = {d}
<1>1. PICK T, fields, own :
          T = "ClientSessionCapabilities" /\ fields = Schema[T][2] /\ own = ToJson(Ref(T), v)
  OBVIOUS
<1>2. Kept(own, w, K) /\ Trimmed(fields, own, w, K, v, d) /\ T \in DOMAIN Schema
  BY <1>1
<1>3. Schema[T][1] = "own" /\ IsOwnRow(T, fields)
  BY <1>1, OwnRow DEF HandStructs
<1>4. K = {}
  <2>1. \A i \in DOMAIN fields : fields[i].how \in {"member", "meta"}
    BY <1>1, <1>3 DEF IsOwnRow
  <2>2. ASSUME NEW k \in K
        PROVE  FALSE
    <3>1. PICK i \in DOMAIN fields : fields[i].key = k
      BY <1>2 DEF Trimmed, KeysOfFields
    <3>2. Absent(fields[i], w)
      BY <1>2, <3>1 DEF Trimmed, Spared
    <3> QED
      BY <2>1, <3>2 DEF Absent
  <2> QED
    BY <2>2
<1>5. d = v
  BY <1>2, <1>4 DEF Trimmed, IsReset
<1>6. \A j : FromJson(Ref(T), j) = DecodeClientSessionCapabilities(j)
  <2>1. \A j : DecodeOwn(T, fields, j) = DecodeClientSessionCapabilities(j)
    BY <1>1 DEF DecodeOwn
  <2> QED
    BY <1>1, <1>3, <2>1, OwnCodecs
<1>7. DecodeClientSessionCapabilities(own) = {v}
  BY <1>1, <1>6, SessionCapabilitiesRead
<1>8. \A k \in {"compaction", "notices", "configOptions", "_meta"} :
          /\ Has(own, k) => At(w, k) = At(own, k)
          /\ \A kind : Holds(w, k, kind) = Holds(own, k, kind)
  <2>1. ASSUME NEW k \in {"compaction", "notices", "configOptions", "_meta"}
        PROVE  SameAt(own, w, k)
    BY <1>2, <1>4 DEF Kept, Unheard
  <2> QED
    BY <2>1, SameMember
<1>9. /\ Holds(w, "compaction", "obj") = Holds(own, "compaction", "obj")
      /\ Holds(w, "notices", "obj") = Holds(own, "notices", "obj")
      /\ Holds(w, "configOptions", "obj") = Holds(own, "configOptions", "obj")
      /\ Holds(own, "configOptions", "obj") => At(w, "configOptions") = At(own, "configOptions")
      /\ LenientMeta(w) = LenientMeta(own)
  <2>1. \A i, kind : Holds(own, i, kind) => Has(own, i)
    BY DEF Holds
  <2> QED
    BY <1>8, <2>1 DEF LenientMeta
<1>10. PICK f, g : /\ f = (/\ Holds(own, "configOptions", "obj")
                           /\ Holds(At(own, "configOptions"), "boolean", "obj"))
                   /\ g = (/\ Holds(w, "configOptions", "obj")
                           /\ Holds(At(w, "configOptions"), "boolean", "obj"))
  OBVIOUS
<1>11. f = g
  <2>1. CASE Holds(own, "configOptions", "obj")
    BY <1>9, <1>10, <2>1
  <2>2. CASE ~Holds(own, "configOptions", "obj")
    BY <1>9, <1>10, <2>2
  <2> QED
    BY <2>1, <2>2
<1>12. DecodeClientSessionCapabilities(w) = DecodeClientSessionCapabilities(own)
  BY <1>9, <1>10, <1>11 DEF DecodeClientSessionCapabilities
<1> QED
  BY <1>1, <1>5, <1>6, <1>7, <1>12

LEMMA ClientCapabilitiesLeftOut ==
    ASSUME Codecs, "ClientCapabilities" \in DOMAIN Schema, NEW v,
           IsValue(Ref("ClientCapabilities"), v),
           NEW w, NEW K, Kept(ToJson(Ref("ClientCapabilities"), v), w, K), NEW d,
           Trimmed(Schema["ClientCapabilities"][2],
                   ToJson(Ref("ClientCapabilities"), v), w, K, v, d)
    PROVE  FromJson(Ref("ClientCapabilities"), w) = {d}
<1>1. PICK T, fields, own, base :
          /\ T = "ClientCapabilities" /\ fields = Schema[T][2] /\ own = ToJson(Ref(T), v)
          /\ base = BaseFields(fields)
  OBVIOUS
<1>2. /\ Kept(own, w, K) /\ Trimmed(fields, own, w, K, v, d) /\ T \in DOMAIN Schema
      /\ IsValue(Ref(T), v)
  BY <1>1
<1>3. Schema[T][1] = "own" /\ IsOwnRow(T, fields)
  BY <1>1, OwnRow DEF HandStructs
<1>4. /\ Keys(fields, "member") = Added /\ KeysOfFields(fields) \cap {"auth", "elicitation"} = {}
      /\ IsFields(fields, RecordHows \cup {"member"})
  BY <1>1, <1>3 DEF IsOwnRow
<1>5. /\ DOMAIN base = {i \in DOMAIN fields : fields[i].how # "member"}
      /\ \A i \in DOMAIN base : base[i] = fields[i]
  BY <1>1 DEF BaseFields
<1>6. IsStruct(fields, v)
  <2>1. IsOwn(T, fields, v)
    BY <1>1, <1>2, <1>3, OwnCodecs
  <2> QED
    BY <1>1, <2>1 DEF IsOwn
<1>7. /\ IsFields(base, RecordHows)
      /\ \E u : ReadTo(base, own, u) /\ Over(u, ReadClientMembers(own)) = v
      /\ \A i : FromJson(Ref(T), i)
                = {Over(b, ReadClientMembers(i)) : b \in DecodeRecord(base, i)}
  <2>1. \A s \in Parts(Ref("ClientCapabilities")) : Good(s)
    BY DepthAssumption, EveryTypeIsGood
  <2> QED
    BY <1>1, <1>2, <2>1, ClientMembersRead
<1>8. PICK u : ReadTo(base, own, u) /\ Over(u, ReadClientMembers(own)) = v
  BY <1>7
<1>9. PICK R : R = ReadClientMembers(own)
  OBVIOUS
<1>10. ReadClientMembers(w) = R
  <2>1. ASSUME NEW k \in {"auth", "elicitation"}
        PROVE  SameAt(own, w, k)
    <3>1. k \notin K
      BY <1>2, <1>4 DEF Trimmed
    <3> QED
      BY <1>2, <3>1 DEF Kept, Unheard
  <2>2. ASSUME NEW k \in {"auth", "elicitation"}
        PROVE  /\ Holds(w, k, "obj") = Holds(own, k, "obj")
               /\ Holds(own, k, "obj") => At(w, k) = At(own, k)
    <3>1. Holds(own, k, "obj") => Has(own, k)
      BY DEF Holds
    <3> QED
      BY <2>1, <3>1, SameMember
  <2>3. /\ Holds(w, "auth", "obj") = Holds(own, "auth", "obj")
        /\ Holds(own, "auth", "obj") => At(w, "auth") = At(own, "auth")
        /\ Holds(w, "elicitation", "obj") = Holds(own, "elicitation", "obj")
        /\ Holds(own, "elicitation", "obj") => At(w, "elicitation") = At(own, "elicitation")
    BY <2>2
  <2>4. CASE Holds(own, "auth", "obj")
    <3>1. At(w, "auth") = At(own, "auth") /\ Holds(w, "auth", "obj") = Holds(own, "auth", "obj")
      BY <2>3, <2>4
    <3>2. CASE Holds(own, "elicitation", "obj")
      BY <1>9, <2>3, <3>1, <3>2 DEF ReadClientMembers
    <3>3. CASE ~Holds(own, "elicitation", "obj")
      BY <1>9, <2>3, <3>1, <3>3 DEF ReadClientMembers
    <3> QED
      BY <3>2, <3>3
  <2>5. CASE ~Holds(own, "auth", "obj")
    <3>1. ~Holds(w, "auth", "obj")
      BY <2>3, <2>5
    <3>2. CASE Holds(own, "elicitation", "obj")
      BY <1>9, <2>3, <2>5, <3>1, <3>2 DEF ReadClientMembers
    <3>3. CASE ~Holds(own, "elicitation", "obj")
      BY <1>9, <2>3, <2>5, <3>1, <3>3 DEF ReadClientMembers
    <3> QED
      BY <3>2, <3>3
  <2> QED
    BY <2>4, <2>5
<1>11. PICK L : L = {fields[i].key : i \in DOMAIN base}
  OBVIOUS
<1>12. DOMAIN u = L /\ u = [k \in L |-> u[k]] /\ DOMAIN R = Added
  <2>1. u = [k \in {base[i].key : i \in DOMAIN base} |-> u[k]]
    BY <1>8 DEF ReadTo
  <2>2. {base[i].key : i \in DOMAIN base} = L
    BY <1>5, <1>11
  <2>3. DOMAIN R = Added
    BY <1>9 DEF ReadClientMembers, Added
  <2> QED
    BY <2>1, <2>2, <2>3
<1>13. K \subseteq L
  <2>1. ASSUME NEW k \in K
        PROVE  k \in L
    <3>1. PICK i \in DOMAIN fields : fields[i].key = k
      BY <1>2 DEF Trimmed, KeysOfFields
    <3>2. Absent(fields[i], w)
      BY <1>2, <3>1 DEF Trimmed, Spared
    <3>3. i \in DOMAIN base
      BY <1>5, <3>2 DEF Absent
    <3> QED
      BY <1>11, <3>1, <3>3
  <2> QED
    BY <2>1
<1>14. L \cap Added = {}
  <2>1. ASSUME NEW k \in L, k \in Added
        PROVE  FALSE
    <3>1. PICK i \in DOMAIN base : fields[i].key = k
      BY <1>11, <2>1
    <3>2. PICK n \in DOMAIN fields : fields[n].how = "member" /\ fields[n].key = k
      BY <1>4, <2>1 DEF Keys, How
    <3>3. i = n
      BY <1>4, <1>5, <3>1, <3>2, FieldRows
    <3> QED
      BY <1>5, <3>1, <3>2, <3>3
  <2> QED
    BY <2>1
<1>15. PICK e : e = [k \in L |-> d[k]]
  OBVIOUS
<1>16. /\ DOMAIN v = L \cup Added /\ v = [k \in L \cup Added |-> v[k]]
       /\ \A k \in L : v[k] = u[k]
       /\ \A k \in Added : v[k] = R[k]
  <2>1. v = [k \in L \cup Added |-> IF k \in L THEN u[k] ELSE R[k]]
    BY <1>8, <1>9, <1>12 DEF Over
  <2> QED
    BY <1>14, <2>1
<1>17. /\ d = [k \in L \cup Added |-> d[k]]
       /\ \A k \in (L \cup Added) \ K : d[k] = v[k]
       /\ \A i \in DOMAIN fields : fields[i].key \in K => d[fields[i].key] = fields[i].or
  <2>0. K \subseteq DOMAIN v
    BY <1>13, <1>16
  <2>1. IsReset(fields, K, v, d)
    BY <1>2 DEF Trimmed
  <2>2. CASE K = {}
    BY <1>16, <2>1, <2>2 DEF IsReset
  <2>3. CASE K # {}
    BY <1>16, <2>0, <2>1, <2>3 DEF IsReset
  <2> QED
    BY <2>2, <2>3
<1>18. ReadTo(base, w, e)
  <2>1. IsReset(base, K, u, e)
    <3>1. /\ e = [k \in DOMAIN u |-> e[k]]
          /\ \A k \in DOMAIN u \ K : e[k] = u[k]
      BY <1>12, <1>15, <1>16, <1>17
    <3>2. \A i \in DOMAIN base : base[i].key \in K => e[base[i].key] = base[i].or
      BY <1>5, <1>13, <1>15, <1>17
    <3>3. K = {} => e = u
      BY <1>12, <3>1
    <3> QED
      BY <3>1, <3>2, <3>3 DEF IsReset
  <2>2. Spared(base, own, w, K)
    <3>1. Spared(fields, own, w, K)
      BY <1>2 DEF Trimmed
    <3> QED
      BY <1>5, <3>1 DEF Spared
  <2>3. K \subseteq KeysOfFields(base)
    BY <1>5, <1>11, <1>13 DEF KeysOfFields
  <2>4. Trimmed(base, own, w, K, u, e)
    BY <2>1, <2>2, <2>3 DEF Trimmed
  <2> QED
    BY <1>7, <1>8, <2>4, RecordLeftOut
<1>19. Over(e, R) = d
  <2>1. DOMAIN e = L
    BY <1>15
  <2>2. Over(e, R) = [k \in L \cup Added |-> IF k \in L THEN e[k] ELSE R[k]]
    BY <1>12, <2>1 DEF Over
  <2>3. \A k \in Added : k \notin K /\ d[k] = R[k]
    BY <1>13, <1>14, <1>16, <1>17
  <2>4. Over(e, R) = [k \in L \cup Added |-> d[k]]
    BY <1>15, <2>2, <2>3
  <2> QED
    BY <1>17, <2>4
<1>20. DecodeRecord(base, w) = {e}
  BY <1>18, RecordOfFields
<1>21. FromJson(Ref(T), w) = {Over(b, ReadClientMembers(w)) : b \in {e}}
  BY <1>7, <1>20
<1> QED
  BY <1>1, <1>10, <1>19, <1>21

\* The members of the object that a value is written as, but for the tag.
FieldsOf(T, v) == StructFields(Schema[IF IsSum(T) THEN v[1] ELSE T])

\* What those members are decoded to, and the value with other ones.
ContentOf(T, c) == IF IsSum(T) THEN c[2] ELSE c

WithContent(T, c, d) == IF IsSum(T) THEN <<c[1], d>> ELSE d

\* A wire form that lacks members of v, which d says nothing of.
Abridged(T, v, w, K, d) ==
    /\ IsObj(ToJson(Ref(T), v))
    /\ Kept(ToJson(Ref(T), v), w, K)
    /\ T = "ConfigOption" /\ IsBoolean(v) => "type" \notin K
    /\ Trimmed(FieldsOf(T, v), ToJson(Ref(T), v), w, K, ContentOf(T, Canonical(T, v)), d)

\* The options of a select are written as a list.
LEMMA OptionsAreNoObject ==
    ASSUME Codecs, NEW T, T = "ConfigSelectOptions", T \in DOMAIN Schema,
           NEW v, IsValue(Ref(T), Canonical(T, v))
    PROVE  ~IsObj(ToJson(Ref(T), v))
<1>0. PICK own, c : own = ToJson(Ref(T), v) /\ c = Canonical(T, v)
  OBVIOUS
<1>1. PICK o : o = NoneUngrouped(v)
  OBVIOUS
<1>2. c = o
  BY <1>0, <1>1 DEF Canonical
<1>3. IsArm({"CSO_Ungrouped", "CSO_Grouped"}, o) /\ own = ToJson(Ref(T), o)
  <2>1. IsArm({Schema[T][2][i] : i \in DOMAIN Schema[T][2]}, o)
    BY <1>0, <1>2, ChoiceCodecs, SelectOptionsRow
  <2>2. \A s \in {Schema[T][2][i] : i \in DOMAIN Schema[T][2]} :
            s \in {"CSO_Ungrouped", "CSO_Grouped"}
    BY SelectOptionsRow
  <2>3. own = ToJson(Ref(T), o)
    BY <1>0, <1>1, NoGroupsAreNoOptions
  <2> QED
    BY <2>1, <2>2, <2>3 DEF IsArm
<1>4. o = <<o[1], o[2]>> /\ o[1] \in {"CSO_Ungrouped", "CSO_Grouped"}
  BY <1>3 DEF IsArm
<1>5. own = Mark(T, o[1], ToJson(Ref(o[1]), o[2]))
  BY <1>3, ChoiceCodecs, SelectOptionsRow
<1>6. own = ToJson(Ref(o[1]), o[2])
  BY <1>5 DEF Mark
<1>7. own[1] = "arr"
  <2>1. \A t, x : EncodeList(t, x)[1] = "arr"
    BY DEF EncodeList, JArr
  <2>2. CASE o[1] = "CSO_Ungrouped"
    BY <1>6, <2>1, <2>2, AliasedList, SelectOptionsRow
  <2>3. CASE o[1] = "CSO_Grouped"
    BY <1>6, <2>1, <2>3, AliasedList, SelectOptionsRow
  <2> QED
    BY <1>4, <2>2, <2>3
<1> QED
  BY <1>0, <1>7 DEF IsObj

LEMMA SumLeftOut ==
    ASSUME Codecs, NEW T \in DOMAIN Schema, IsSum(T),
           NEW v, IsValue(Ref(T), Canonical(T, v)), NEW w, NEW K, NEW d, Abridged(T, v, w, K, d)
    PROVE  FromJson(Ref(T), w) = {WithContent(T, Canonical(T, v), d)}
<1>1. PICK own, c, arm, fields :
          /\ own = ToJson(Ref(T), v) /\ c = Canonical(T, v) /\ arm = v[1]
          /\ fields = StructFields(Schema[arm])
  OBVIOUS
<1>2. /\ IsObj(own) /\ Kept(own, w, K) /\ Trimmed(fields, own, w, K, c[2], d)
  BY <1>1 DEF Abridged, FieldsOf, ContentOf
<1>3. PICK body : body = Schema[T]
  OBVIOUS
<1>4. IsRow(T, body) /\ body[1] \in {"tagged", "choice"}
  <2>1. IsRow(T, body)
    BY <1>3, SchemaAssumption
  <2> QED
    BY <1>3, <2>1 DEF IsSum
<1>5. T # "ConfigSelectOptions"
  BY <1>1, <1>2, OptionsAreNoObject
<1>6. T \notin HandStructs
  BY <1>4 DEF IsRow
<1>7. c = <<arm, NoNull(fields, v[2])>> /\ c[1] = arm /\ c[2] = NoNull(fields, v[2])
  <2>1. c = <<arm, NoNull(fields, v[2])>>
    BY <1>1, <1>5, <1>6 DEF Canonical, HandStructs
  <2> QED
    BY <2>1
<1>8. IsValue(Ref(v[1]), NoNull(StructFields(Schema[v[1]]), v[2])) => ArmAbridged(T, v, w, K, d)
  BY <1>1, <1>2, <1>7 DEF ArmAbridged
<1>9. WithContent(T, Canonical(T, v), d) = <<v[1], d>>
  BY <1>1, <1>7 DEF WithContent
<1>10. CASE T \in HandSums
  <2>1. body[1] = "choice"
    BY <1>4, <1>10 DEF IsRow
  <2>2. IsArm({Schema[T][2][i] : i \in DOMAIN Schema[T][2]}, c)
    BY <1>1, <1>3, <2>1, ChoiceCodecs
  <2>3. /\ \E i \in DOMAIN Schema[T][2] : v[1] = Schema[T][2][i]
        /\ IsValue(Ref(v[1]), NoNull(StructFields(Schema[v[1]]), v[2]))
    BY <1>1, <1>7, <2>2 DEF IsArm
  <2>4. FromJson(Ref(T), w) = {<<v[1], d>>}
    BY <1>5, <1>8, <1>10, <2>3, ChoiceLeftOut
  <2> QED
    BY <1>9, <2>4
<1>11. CASE T \notin HandSums
  <2>1. body[1] = "tagged" /\ IsTagged(body[2], body[3])
    <3>1. \/ IsRecord(T)
          \/ body[1] = "tagged" /\ IsTagged(body[2], body[3])
          \/ body[1] = "alias" /\ IsAlias(body)
          \/ body[1] = "enum"
      BY <1>4, <1>6, <1>11 DEF IsRow
    <3> QED
      BY <1>3, <1>4, <3>1 DEF IsRecord
  <2>2. IsArm({Schema[T][3][i].type : i \in DOMAIN Schema[T][3]}, c)
    <3>1. IsNamed(T, Schema[T], c)
      BY <1>1, NamedCodecs
    <3> QED
      BY <1>3, <2>1, <3>1 DEF IsNamed
  <2>3. /\ \E i \in DOMAIN Schema[T][3] : v[1] = Schema[T][3][i].type
        /\ IsValue(Ref(v[1]), NoNull(StructFields(Schema[v[1]]), v[2]))
    BY <1>1, <1>7, <2>2 DEF IsArm
  <2>4. Schema[T][1] = "tagged" /\ IsTagged(Schema[T][2], Schema[T][3])
    BY <1>3, <2>1
  <2>5. FromJson(Ref(T), w) = {<<v[1], d>>}
    BY <1>8, <2>3, <2>4, TaggedLeftOut
  <2> QED
    BY <1>9, <2>5
<1> QED
  BY <1>10, <1>11

LEMMA TypeLeftOut ==
    ASSUME Codecs, NEW T \in DOMAIN Schema,
           NEW v, IsValue(Ref(T), Canonical(T, v)), NEW w, NEW K, NEW d, Abridged(T, v, w, K, d)
    PROVE  FromJson(Ref(T), w) = {WithContent(T, Canonical(T, v), d)}
<1>1. CASE IsSum(T)
  BY <1>1, SumLeftOut
<1>2. CASE ~IsSum(T)
  <2>1. PICK own, c, fields, body :
            /\ own = ToJson(Ref(T), v) /\ c = Canonical(T, v) /\ body = Schema[T]
            /\ fields = StructFields(body)
    OBVIOUS
  <2>2. /\ IsObj(own) /\ Kept(own, w, K) /\ Trimmed(fields, own, w, K, c, d)
        /\ T = "ConfigOption" /\ IsBoolean(v) => "type" \notin K
    BY <1>2, <2>1 DEF Abridged, FieldsOf, ContentOf
  <2>3. WithContent(T, c, d) = d
    BY <1>2 DEF WithContent
  <2>4. IsRow(T, body) /\ body[1] \notin {"tagged", "choice"}
    <3>1. IsRow(T, body)
      BY <2>1, SchemaAssumption
    <3> QED
      BY <1>2, <2>1, <3>1 DEF IsSum
  <2>5. T \notin HandSums
    BY <2>4 DEF IsRow
  <2>6. T \notin {"AuthMethod", "ConfigOption"} => c = NoNull(fields, v)
    BY <1>2, <2>1, <2>5 DEF Canonical, HandSums
  <2>7. CASE T \in HandStructs
    <3>1. body[1] = "own" /\ IsOwnRow(T, body[2]) /\ fields = body[2] /\ NoNull(fields, v) = v
      BY <2>1, <2>7, OwnRow
    <3>2. /\ Trimmed(Schema[T][2], ToJson(Ref(T), v), w, K, c, d)
          /\ Kept(ToJson(Ref(T), v), w, K) /\ IsValue(Ref(T), c)
      BY <2>1, <2>2, <3>1
    <3>3. CASE T = "AuthMethod"
      BY <2>1, <2>3, <3>2, <3>3, AuthMethodLeftOut
    <3>4. CASE T = "ConfigOption"
      BY <2>1, <2>2, <2>3, <3>2, <3>4, ConfigOptionLeftOut
    <3>5. CASE T = "PO_Cancelled"
      <4>1. fields = << >>
        BY <3>1, <3>5 DEF IsOwnRow
      <4>2. K = {}
        BY <2>2, <4>1 DEF Trimmed, KeysOfFields
      <4>3. d = c
        BY <2>2, <4>2 DEF Trimmed, IsReset
      <4>4. FromJson(Ref(T), w) = {<< >>} /\ c = << >>
        BY <2>1, <3>1, <3>2, <3>5, CancelledCodecs
      <4> QED
        BY <2>1, <2>3, <4>3, <4>4
    <3>6. c = v \/ T \in {"AuthMethod", "ConfigOption"}
      BY <2>6, <3>1
    <3>7. CASE T = "ClientSessionCapabilities"
      BY <2>1, <2>3, <3>2, <3>6, <3>7, SessionCapabilitiesLeftOut
    <3>8. CASE T = "ClientCapabilities"
      BY <2>1, <2>3, <3>2, <3>6, <3>8, ClientCapabilitiesLeftOut
    <3> QED
      BY <2>7, <3>3, <3>4, <3>5, <3>7, <3>8 DEF HandStructs
  <2>8. CASE T \notin HandStructs
    <3>1. \/ IsRecord(T)
          \/ body[1] = "alias" /\ IsAlias(body)
          \/ body[1] = "enum"
      BY <2>4, <2>5, <2>8 DEF IsRow
    <3>2. c = NoNull(fields, v)
      BY <2>6, <2>8 DEF HandStructs
    <3>3. ASSUME NEW U, IsRecord(U), StructFields(body) = Schema[U][2],
                 ToJson(Ref(U), v) = own, IsValue(Ref(U), c)
          PROVE  FromJson(Ref(U), w) = {d}
      <4>1. /\ Trimmed(Schema[U][2], ToJson(Ref(U), v), w, K, NoNull(Schema[U][2], v), d)
            /\ IsValue(Ref(U), NoNull(Schema[U][2], v))
        BY <2>1, <2>2, <3>2, <3>3
      <4> QED
        BY <3>3, <4>1, StructLeftOut
    <3>4. CASE IsRecord(T)
      <4>1. StructFields(body) = Schema[T][2]
        BY <2>1, <3>4 DEF IsRecord, StructFields
      <4> QED
        BY <2>1, <2>3, <3>3, <3>4, <4>1
    <3>5. CASE body[1] = "alias" /\ IsAlias(body)
      <4>1. PICK t : t = body[2]
        OBVIOUS
      <4>2. /\ body = Alias(t)
            /\ t[1] = "list" \/ \E U \in DOMAIN Schema : t = Ref(U) /\ IsRecord(U)
        BY <3>5, <4>1 DEF IsAlias
      <4>3. own = ToJson(t, v) /\ (\A j : FromJson(Ref(T), j) = FromJson(t, j))
            /\ (\A x : IsValue(Ref(T), x) <=> IsValue(t, x))
        BY <2>1, <4>2, AliasCodecs
      <4>4. CASE t[1] = "list"
        <5>1. t \in Types
          <6>1. t \in PartsOfNamed(Schema[T])
            BY <2>1, <3>5, <4>1 DEF PartsOfNamed
          <6> QED
            BY <6>1, PartsOfRef, DepthAssumption
        <5>2. own[1] = "arr"
          BY <4>3, <4>4, <5>1, ListCodecs DEF EncodeList, JArr
        <5> QED
          BY <2>2, <5>2 DEF IsObj
      <4>5. CASE \E U \in DOMAIN Schema : t = Ref(U) /\ IsRecord(U)
        <5>1. PICK U \in DOMAIN Schema : t = Ref(U) /\ IsRecord(U)
          BY <4>5
        <5>2. StructFields(body) = Schema[U][2]
          <6>1. body[1] = "alias" /\ body[2][1] = "ref" /\ body[2][2] = U
            BY <4>1, <4>2, <5>1 DEF Alias, Ref
          <6>2. Schema[U][1] = "record"
            BY <5>1 DEF IsRecord
          <6> QED
            BY <6>1, <6>2 DEF StructFields
        <5>3. ToJson(Ref(U), v) = own /\ IsValue(Ref(U), c)
          BY <2>1, <4>3, <5>1
        <5>4. FromJson(Ref(U), w) = {d}
          BY <3>3, <5>1, <5>2, <5>3
        <5> QED
          BY <2>1, <2>3, <4>3, <5>1, <5>4
      <4> QED
        BY <4>2, <4>4, <4>5
    <3>6. CASE body[1] = "enum"
      <4>1. own = ToJson(body, v)
        <5>1. EncodeNamed(T, body, v) = ToJson(body, v)
          BY <3>6 DEF EncodeNamed
        <5> QED
          BY <2>1, <5>1, NamedCodecs
      <4>2. body \in Types
        <5>1. body \in PartsOfNamed(Schema[T])
          BY <2>1, <3>6 DEF PartsOfNamed
        <5> QED
          BY <5>1, PartsOfRef, DepthAssumption
      <4>3. own = JStr(v)
        BY <3>6, <4>1, <4>2 DEF Codecs, Encode
      <4> QED
        BY <2>2, <4>3 DEF IsObj, JStr
    <3> QED
      BY <3>1, <3>4, <3>5, <3>6
  <2> QED
    BY <2>7, <2>8
<1> QED
  BY <1>1, <1>2
-----------------------------------------------------------------------------
(***************************************************************************)
(* Metadata: what a struct is written as has the metadata that it was      *)
(* decoded with, and no metadata that says nothing.                        *)
(***************************************************************************)
MetaAgain(fields, w, o) ==
    /\ Has(o, "_meta") => At(o, "_meta") # EmptyObj
    /\ "_meta" \in KeysOfFields(fields) /\ LenientMeta(w) # EmptyObj =>
           Has(o, "_meta") /\ At(o, "_meta") = LenientMeta(w)

LEMMA MetaIsWritten ==
    ASSUME NEW S, NEW x,
           \A m \in S : m[1] = "_meta" => m[2] = x /\ x # EmptyObj,
           x # EmptyObj => <<"_meta", x>> \in S
    PROVE  /\ Has(ObjOf(S), "_meta") <=> x # EmptyObj
           /\ Has(ObjOf(S), "_meta") => At(ObjOf(S), "_meta") = x
<1>1. PICK o : o = ObjOf(S)
  OBVIOUS
<1>2. Has(o, "_meta") <=> \E m \in S : m[1] = "_meta"
  BY <1>1, ObjOfHas
<1>3. Has(o, "_meta") <=> x # EmptyObj
  <2>1. ASSUME x # EmptyObj
        PROVE  \E m \in S : m[1] = "_meta"
    <3>1. PICK m \in S : m = <<"_meta", x>>
      BY <2>1
    <3> QED
      BY <3>1
  <2> QED
    BY <1>2, <2>1
<1>4. ASSUME Has(o, "_meta")
      PROVE  At(o, "_meta") = x
  <2>1. PICK p : p = CHOOSE m \in S : m[1] = "_meta"
    OBVIOUS
  <2>2. p \in S /\ p[1] = "_meta"
    BY <1>2, <1>4, <2>1
  <2>3. "_meta" \in {m[1] : m \in S}
    BY <2>2
  <2>4. At(o, "_meta") = p[2]
    BY <1>1, <2>1, <2>3 DEF At, ObjOf, JObj, FunctionOf
  <2> QED
    BY <2>2, <2>4
<1> QED
  BY <1>1, <1>3, <1>4

\* An object without metadata, of a struct that has none.
LEMMA NoMeta ==
    ASSUME NEW fields, NEW w, NEW o, "_meta" \notin KeysOfFields(fields), ~Has(o, "_meta")
    PROVE  MetaAgain(fields, w, o)
BY DEF MetaAgain

LEMMA FieldsMeta ==
    ASSUME Codecs, NEW fields, IsFields(fields, RecordHows),
           \A i \in DOMAIN fields : fields[i].type \in Types,
           NEW w, NEW v, "_meta" \in KeysOfFields(fields) => v["_meta"] = LenientMeta(w)
    PROVE  MetaAgain(fields, w, EncodeRecord(fields, v))
<1>1. PICK S : S = {<<fields[i].key, EncodeField(fields[i], v)>> :
                      i \in {k \in DOMAIN fields : Written(fields[k], v)}}
  OBVIOUS
<1>2. EncodeRecord(fields, v) = ObjOf(S)
  BY <1>1 DEF EncodeRecord
<1>3. CASE "_meta" \notin KeysOfFields(fields)
  BY <1>3, RecordMembers, NoMeta
<1>4. CASE "_meta" \in KeysOfFields(fields)
  <2>1. PICK x : x = LenientMeta(w)
    OBVIOUS
  <2>2. ASSUME NEW i \in DOMAIN fields, fields[i].key = "_meta"
        PROVE  /\ Written(fields[i], v) <=> x # EmptyObj
               /\ EncodeField(fields[i], v) = x
    <3>1. fields[i].how = "meta" /\ IsRaw(fields[i].type) /\ fields[i].type \in Types
      BY <2>2, FieldRows
    <3>2. v[fields[i].key] = x
      BY <1>4, <2>1, <2>2
    <3>3. EncodeField(fields[i], v) = ToJson(fields[i].type, x)
      BY <3>1, <3>2 DEF EncodeField
    <3> QED
      BY <3>1, <3>2, <3>3, RawCodecs DEF Written
  <2>3. ASSUME NEW m \in S, m[1] = "_meta"
        PROVE  m[2] = x /\ x # EmptyObj
    <3>1. PICK i \in DOMAIN fields : /\ Written(fields[i], v)
                                     /\ m = <<fields[i].key, EncodeField(fields[i], v)>>
      BY <1>1
    <3>2. fields[i].key = "_meta" /\ m[2] = EncodeField(fields[i], v)
      BY <2>3, <3>1
    <3> QED
      BY <2>2, <3>1, <3>2
  <2>4. ASSUME x # EmptyObj
        PROVE  <<"_meta", x>> \in S
    <3>1. PICK i \in DOMAIN fields : fields[i].key = "_meta"
      BY <1>4 DEF KeysOfFields
    <3> QED
      BY <1>1, <2>2, <2>4, <3>1
  <2> QED
    BY <1>2, <2>1, <2>3, <2>4, MetaIsWritten DEF MetaAgain
<1> QED
  BY <1>3, <1>4

\* A record<T> that was decoded from w.
LEMMA RecordMeta ==
    ASSUME Codecs, NEW fields, IsFields(fields, RecordHows),
           \A i \in DOMAIN fields : fields[i].type \in Types,
           NEW w, NEW v \in DecodeRecord(fields, w)
    PROVE  MetaAgain(fields, w, EncodeRecord(fields, v))
<1>1. PICK d : d = [i \in DOMAIN fields |-> DecodeField(fields[i], w)]
  OBVIOUS
<1>2. \A i, k \in DOMAIN fields : fields[i].key = fields[k].key => i = k
  BY FieldRows
<1>3. \A i \in DOMAIN fields : v[fields[i].key] \in d[i]
  BY <1>1, <1>2, DecodedFields
<1>4. ASSUME "_meta" \in KeysOfFields(fields)
      PROVE  v["_meta"] = LenientMeta(w)
  <2>1. PICK i \in DOMAIN fields : fields[i].key = "_meta"
    BY <1>4 DEF KeysOfFields
  <2>2. fields[i].how = "meta"
    BY <2>1, FieldRows
  <2>3. DecodeField(fields[i], w) = {LenientMeta(w)}
    BY <2>2 DEF DecodeField
  <2> QED
    BY <1>1, <1>3, <2>1, <2>3
<1> QED
  BY <1>4, FieldsMeta

LEMMA RecordTypeMeta ==
    ASSUME Codecs, NEW T, IsRecord(T), NEW w, NEW v \in FromJson(Ref(T), w)
    PROVE  MetaAgain(Schema[T][2], w, ToJson(Ref(T), v))
<1>1. PICK fields : fields = Schema[T][2]
  OBVIOUS
<1>2. IsFields(fields, RecordHows) /\ T \in DOMAIN Schema /\ Schema[T][1] = "record"
  BY <1>1 DEF IsRecord
<1>3. \A i \in DOMAIN fields : fields[i].type \in Types
  BY <1>1, <1>2, FieldTypes
<1>4. v \in DecodeRecord(fields, w) /\ ToJson(Ref(T), v) = EncodeRecord(fields, v)
  BY <1>1, RecordCodecs
<1>5. MetaAgain(fields, w, EncodeRecord(fields, v))
  BY <1>2, <1>3, <1>4, RecordMeta
<1> QED
  BY <1>1, <1>4, <1>5

\* The record part of ClientCapabilities ...
LEMMA BaseRow ==
    ASSUME NEW fields, "ClientCapabilities" \in DOMAIN Schema,
           fields = Schema["ClientCapabilities"][2],
           NEW base, base = BaseFields(fields)
    PROVE  /\ IsFields(base, RecordHows) /\ \A i \in DOMAIN base : base[i].type \in Types
           /\ "_meta" \in KeysOfFields(fields) <=> "_meta" \in KeysOfFields(base)
<1>1. PICK T : T = "ClientCapabilities"
  OBVIOUS
<1>2. Schema[T][1] = "own" /\ IsOwnRow(T, fields)
  BY <1>1, OwnRow DEF HandStructs
<1>3. IsFields(fields, RecordHows \cup {"member"})
  BY <1>2 DEF IsOwnRow
<1>4. /\ DOMAIN base = {i \in DOMAIN fields : fields[i].how # "member"}
      /\ \A i \in DOMAIN base : base[i] = fields[i]
  BY DEF BaseFields
<1>5. IsFields(base, RecordHows)
  <2>1. \A i \in DOMAIN base : fields[i].how # "member" /\ i \in DOMAIN fields
    BY <1>4
  <2>2. \A i \in DOMAIN base : IsFieldRow(fields[i], RecordHows)
    BY <1>3, <2>1 DEF IsFields, IsFieldRow
  <2>3. \A i \in DOMAIN base : IsFieldRow(base[i], RecordHows)
    BY <1>4, <2>2
  <2>4. \A i, k \in DOMAIN base : base[i].key = base[k].key => i = k
    BY <1>3, <1>4, <2>1, FieldRows
  <2> QED
    BY <2>3, <2>4 DEF IsFields
<1>6. \A i \in DOMAIN fields : fields[i].type \in Types
  BY <1>1, <1>2, FieldTypes
<1>7. \A i \in DOMAIN base : base[i].type \in Types
  BY <1>4, <1>6
<1>8. "_meta" \in KeysOfFields(fields) <=> "_meta" \in KeysOfFields(base)
  <2>1. ASSUME "_meta" \in KeysOfFields(fields)
        PROVE  "_meta" \in KeysOfFields(base)
    <3>1. PICK i \in DOMAIN fields : fields[i].key = "_meta"
      BY <2>1 DEF KeysOfFields
    <3>2. fields[i].how = "meta"
      BY <1>3, <3>1, FieldRows
    <3>3. i \in DOMAIN base /\ base[i].key = "_meta"
      BY <1>4, <3>1, <3>2
    <3> QED
      BY <3>3 DEF KeysOfFields
  <2>2. ASSUME "_meta" \in KeysOfFields(base)
        PROVE  "_meta" \in KeysOfFields(fields)
    BY <1>4, <2>2 DEF KeysOfFields
  <2> QED
    BY <2>1, <2>2
<1> QED
  BY <1>5, <1>7, <1>8

\* ... and its object, which gets members beside those it has.
LEMMA AddedMembers ==
    ASSUME NEW c, NEW j, IsObj(j)
    PROVE  \A k : k \notin {"auth", "elicitation"} =>
               /\ Has(AddClientMembers(c, j), k) <=> Has(j, k)
               /\ Has(j, k) => At(AddClientMembers(c, j), k) = At(j, k)
<1>1. PICK S : S = When(c.authTerminal, "auth", ObjOf({<<"terminal", JBool(TRUE)>>}))
                   \cup When(c.elicitForm \/ c.elicitUrl, "elicitation",
                             ObjOf(When(c.elicitForm, "form", EmptyObj)
                                   \cup When(c.elicitUrl, "url", EmptyObj)))
  OBVIOUS
<1>2. AddClientMembers(c, j) = JObj(Over(j[2], ObjOf(S)[2]))
  BY <1>1 DEF AddClientMembers
<1>3. \A m \in S : m[1] \in {"auth", "elicitation"}
  BY <1>1 DEF When
<1>4. \A k : k \notin {"auth", "elicitation"} => ~Has(ObjOf(S), k)
  BY <1>3, ObjOfAbsent
<1> QED
  BY <1>2, <1>4, OverObj

\* The structs with a codec written by hand.
LEMMA OwnMeta ==
    ASSUME Codecs, NEW T \in DOMAIN Schema, T \in HandStructs,
           NEW w, NEW v \in FromJson(Ref(T), w)
    PROVE  MetaAgain(Schema[T][2], w, ToJson(Ref(T), v))
<1>1. PICK fields, x, o :
          fields = Schema[T][2] /\ x = LenientMeta(w) /\ o = ToJson(Ref(T), v)
  OBVIOUS
<1>2. Schema[T][1] = "own" /\ IsOwnRow(T, fields)
  BY <1>1, OwnRow
<1>3. v \in DecodeOwn(T, fields, w) /\ o = EncodeOwn(T, fields, v)
  BY <1>1, <1>2, OwnCodecs
<1>4. ASSUME Has(o, "_meta") <=> x # EmptyObj,
             Has(o, "_meta") => At(o, "_meta") = x
      PROVE  MetaAgain(fields, w, o)
  BY <1>1, <1>4 DEF MetaAgain
<1>5. CASE T = "PO_Cancelled"
  <2>1. fields = << >>
    BY <1>2, <1>5 DEF IsOwnRow
  <2>2. o = EmptyObj
    BY <1>3, <1>5 DEF EncodeOwn
  <2>3. ~Has(o, "_meta")
    BY <2>2 DEF Has, EmptyObj, JObj
  <2>4. "_meta" \notin KeysOfFields(fields)
    BY <2>1 DEF KeysOfFields
  <2> QED
    BY <1>1, <2>3, <2>4, NoMeta
<1>6. CASE T = "AuthMethod"
  <2>1. v \in DecodeAuthMethod(w)
    BY <1>3, <1>6 DEF DecodeOwn
  <2>2. v._meta = x
    BY <1>1, <2>1 DEF DecodeAuthMethod
  <2>3. PICK S : S = {<<"id", JStr(v.id)>>, <<"name", JStr(v.name)>>}
                     \cup When(v.description # Nothing, "description", JStr(The(v.description)))
                     \cup When(v.type # "agent", "type", JStr(v.type))
                     \cup When(v.type = "terminal" /\ v.args # << >>, "args",
                               JArr([i \in DOMAIN v.args |-> JStr(v.args[i])]))
                     \cup When(v.type = "terminal" /\ v.env # << >>, "env",
                               JObj([i \in DOMAIN v.env |-> JStr(v.env[i])]))
                     \cup When(v._meta # EmptyObj, "_meta", v._meta)
    OBVIOUS
  <2>4. o = ObjOf(S)
    <3>1. o = EncodeAuthMethod(v)
      BY <1>3, <1>6 DEF EncodeOwn
    <3> QED
      BY <2>3, <3>1 DEF EncodeAuthMethod
  <2>5. \A m \in S : m[1] = "_meta" => m[2] = x /\ x # EmptyObj
    BY <2>2, <2>3 DEF When
  <2>6. x # EmptyObj => <<"_meta", x>> \in S
    BY <2>2, <2>3 DEF When
  <2> QED
    BY <1>1, <1>4, <2>4, <2>5, <2>6, MetaIsWritten
<1>7. CASE T = "ClientSessionCapabilities"
  <2>1. v \in DecodeClientSessionCapabilities(w)
    BY <1>3, <1>7 DEF DecodeOwn
  <2>2. v._meta = x
    BY <1>1, <2>1 DEF DecodeClientSessionCapabilities
  <2>3. PICK S : S = When(v.compaction, "compaction", EmptyObj)
                     \cup When(v.notices, "notices", EmptyObj)
                     \cup When(v.booleanConfig, "configOptions", ObjOf({<<"boolean", EmptyObj>>}))
                     \cup When(v._meta # EmptyObj, "_meta", v._meta)
    OBVIOUS
  <2>4. o = ObjOf(S)
    <3>1. o = EncodeClientSessionCapabilities(v)
      BY <1>3, <1>7 DEF EncodeOwn
    <3> QED
      BY <2>3, <3>1 DEF EncodeClientSessionCapabilities
  <2>5. \A m \in S : m[1] = "_meta" => m[2] = x /\ x # EmptyObj
    BY <2>2, <2>3 DEF When
  <2>6. x # EmptyObj => <<"_meta", x>> \in S
    BY <2>2, <2>3 DEF When
  <2> QED
    BY <1>1, <1>4, <2>4, <2>5, <2>6, MetaIsWritten
<1>8. CASE T = "ConfigOption"
  <2>1. PICK options : v \in DecodeConfigOption(w, options)
    BY <1>3, <1>8 DEF DecodeOwn
  <2>2. v._meta = x
    <3>1. PICK t : t = The(StringOr(w, "type", "select"))
      OBVIOUS
    <3>2. CASE t = "boolean"
      <4>1. PICK a : a = StringOr(w, "type", "select")
        OBVIOUS
      <4>2. /\ Holds(w, "id", "str") /\ Holds(w, "name", "str") /\ a # {}
            /\ Holds(w, "currentValue", "bool")
        BY <2>1, <3>1, <3>2, <4>1, ConfigOptionDecoded
      <4>3. DecodeConfigOption(w, options)
            = {[id |-> At(w, "id")[2], name |-> At(w, "name")[2],
                description |-> LenientString(w, "description"),
                category |-> LenientString(w, "category"), type |-> t,
                currentValue |-> "", currentBool |-> At(w, "currentValue")[2],
                options |-> <<"CSO_Ungrouped", << >>>>, _meta |-> LenientMeta(w)]}
        BY <3>1, <3>2, <4>1, <4>2, ConfigOptionDecoded
      <4>4. PICK r : r = [id |-> At(w, "id")[2], name |-> At(w, "name")[2],
                description |-> LenientString(w, "description"),
                category |-> LenientString(w, "category"), type |-> t,
                currentValue |-> "", currentBool |-> At(w, "currentValue")[2],
                options |-> <<"CSO_Ungrouped", << >>>>, _meta |-> LenientMeta(w)]
        OBVIOUS
      <4>5. v = r
        BY <2>1, <4>3, <4>4
      <4>6. r._meta = LenientMeta(w)
        BY <4>4
      <4> QED
        BY <1>1, <4>5, <4>6
    <3>3. CASE t # "boolean"
      BY <1>1, <2>1, <3>1, <3>3 DEF DecodeConfigOption
    <3> QED
      BY <3>2, <3>3
  <2>3. PICK p : p = ToJson(Ref("ConfigSelectOptions"), v.options)
    OBVIOUS
  <2>4. PICK S : S = {<<"id", JStr(v.id)>>, <<"name", JStr(v.name)>>, <<"type", JStr(v.type)>>,
                      <<"currentValue", IF IsBoolean(v) THEN JBool(v.currentBool)
                                        ELSE JStr(v.currentValue)>>}
                     \cup When(v.description # Nothing, "description", JStr(The(v.description)))
                     \cup When(v.category # Nothing, "category", JStr(The(v.category)))
                     \cup When(~IsBoolean(v), "options", p)
                     \cup When(v._meta # EmptyObj, "_meta", v._meta)
    OBVIOUS
  <2>5. o = ObjOf(S)
    <3>1. o = EncodeConfigOption(v, p)
      BY <1>3, <1>8, <2>3 DEF EncodeOwn
    <3> QED
      BY <2>4, <3>1 DEF EncodeConfigOption
  <2>6. \A m \in S : m[1] = "_meta" => m[2] = x /\ x # EmptyObj
    BY <2>2, <2>4 DEF When
  <2>7. x # EmptyObj => <<"_meta", x>> \in S
    BY <2>2, <2>4 DEF When
  <2> QED
    BY <1>1, <1>4, <2>5, <2>6, <2>7, MetaIsWritten
<1>9. CASE T = "ClientCapabilities"
  <2>1. PICK base : base = BaseFields(fields)
    OBVIOUS
  <2>2. PICK b \in DecodeRecord(base, w) : v = Over(b, ReadClientMembers(w))
    BY <1>3, <1>9, <2>1 DEF DecodeOwn
  <2>3. PICK j : j = EncodeRecord(base, v)
    OBVIOUS
  <2>4. o = AddClientMembers(v, j)
    BY <1>3, <1>9, <2>1, <2>3 DEF EncodeOwn
  <2>5. /\ IsFields(base, RecordHows) /\ \A i \in DOMAIN base : base[i].type \in Types
        /\ "_meta" \in KeysOfFields(fields) <=> "_meta" \in KeysOfFields(base)
    BY <1>1, <1>2, <1>9, <2>1, BaseRow
  <2>6. ASSUME "_meta" \in KeysOfFields(base)
        PROVE  v["_meta"] = x
    <3>1. PICK i \in DOMAIN base : base[i].key = "_meta"
      BY <2>6 DEF KeysOfFields
    <3>2. PICK d : d = [k \in DOMAIN base |-> DecodeField(base[k], w)]
      OBVIOUS
    <3>3. \A k, n \in DOMAIN base : base[k].key = base[n].key => k = n
      BY <2>5, FieldRows
    <3>4. \A k \in DOMAIN base : b[base[k].key] \in d[k]
      BY <3>2, <3>3, DecodedFields
    <3>5. base[i].how = "meta"
      BY <2>5, <3>1, FieldRows
    <3>6. DecodeField(base[i], w) = {x}
      BY <1>1, <3>5 DEF DecodeField
    <3>7. b["_meta"] = x
      BY <3>1, <3>2, <3>4, <3>6
    <3>8. "_meta" \in DOMAIN b
      <4>1. PICK U : b = FunctionOf(U) /\ {m[1] : m \in U} = {base[k].key : k \in DOMAIN base}
        BY <2>2 DEF DecodeRecord, Assembled
      <4>2. DOMAIN b = {base[k].key : k \in DOMAIN base}
        BY <4>1 DEF FunctionOf
      <4> QED
        BY <3>1, <4>2
    <3> QED
      BY <2>2, <3>7, <3>8 DEF Over
  <2>7. MetaAgain(base, w, j)
    BY <1>1, <2>3, <2>5, <2>6, FieldsMeta
  <2>8. (Has(o, "_meta") <=> Has(j, "_meta")) /\ (Has(j, "_meta") => At(o, "_meta") = At(j, "_meta"))
    BY <2>3, <2>4, RecordMembers, AddedMembers
  <2> QED
    BY <1>1, <2>5, <2>7, <2>8 DEF MetaAgain
<1> QED
  BY <1>1, <1>5, <1>6, <1>7, <1>8, <1>9 DEF HandStructs
\* ... and each type that is not a sum.
LEMMA TypeMeta ==
    ASSUME Codecs, NEW T \in DOMAIN Schema, ~IsSum(T), NEW w, NEW v \in FromJson(Ref(T), w)
    PROVE  MetaAgain(StructFields(Schema[T]), w, ToJson(Ref(T), v))
<1>1. PICK body, fields, o :
          body = Schema[T] /\ fields = StructFields(body) /\ o = ToJson(Ref(T), v)
  OBVIOUS
<1>2. IsRow(T, body) /\ body[1] \notin {"tagged", "choice"}
  <2>1. IsRow(T, body)
    BY <1>1, SchemaAssumption
  <2> QED
    BY <1>1, <2>1 DEF IsSum
<1>3. T \notin HandSums
  BY <1>2 DEF IsRow
<1>4. ASSUME fields = << >>, o[1] # "obj"
      PROVE  MetaAgain(fields, w, o)
  <2>1. "_meta" \notin KeysOfFields(fields)
    BY <1>4 DEF KeysOfFields
  <2>2. ~Has(o, "_meta")
    BY <1>4 DEF Has, IsObj
  <2> QED
    BY <2>1, <2>2, NoMeta
<1>5. CASE T \in HandStructs
  <2>1. fields = Schema[T][2]
    BY <1>1, <1>5, OwnRow
  <2> QED
    BY <1>1, <1>5, <2>1, OwnMeta
<1>6. CASE IsRecord(T)
  <2>1. fields = Schema[T][2]
    BY <1>1, <1>6 DEF IsRecord, StructFields
  <2> QED
    BY <1>1, <1>6, <2>1, RecordTypeMeta
<1>7. CASE body[1] = "alias" /\ IsAlias(body)
  <2>1. PICK t : t = body[2]
    OBVIOUS
  <2>2. /\ body = Alias(t)
        /\ t[1] = "list" \/ \E U \in DOMAIN Schema : t = Ref(U) /\ IsRecord(U)
    BY <1>7, <2>1 DEF IsAlias
  <2>3. o = ToJson(t, v) /\ v \in FromJson(t, w)
    BY <1>1, <2>2, AliasCodecs
  <2>4. CASE t[1] = "list"
    <3>1. t \in Types
      <4>1. t \in PartsOfNamed(Schema[T])
        BY <1>1, <1>7, <2>1 DEF PartsOfNamed
      <4> QED
        BY <4>1, PartsOfRef, DepthAssumption
    <3>2. o[1] = "arr"
      BY <2>3, <2>4, <3>1, ListCodecs DEF EncodeList, JArr
    <3>3. fields = << >>
      BY <1>1, <1>7, <2>1, <2>4 DEF StructFields
    <3> QED
      BY <1>1, <1>4, <3>2, <3>3
  <2>5. CASE \E U \in DOMAIN Schema : t = Ref(U) /\ IsRecord(U)
    <3>1. PICK U \in DOMAIN Schema : t = Ref(U) /\ IsRecord(U)
      BY <2>5
    <3>2. fields = Schema[U][2]
      <4>1. body[1] = "alias" /\ body[2][1] = "ref" /\ body[2][2] = U
        BY <1>7, <2>1, <3>1 DEF Ref
      <4>2. Schema[U][1] = "record"
        BY <3>1 DEF IsRecord
      <4> QED
        BY <1>1, <4>1, <4>2 DEF StructFields
    <3>3. MetaAgain(Schema[U][2], w, ToJson(Ref(U), v))
      BY <2>3, <3>1, RecordTypeMeta
    <3> QED
      BY <1>1, <2>3, <3>1, <3>2, <3>3
  <2> QED
    BY <2>2, <2>4, <2>5
<1>8. CASE body[1] = "enum"
  <2>1. o = ToJson(body, v)
    <3>1. EncodeNamed(T, body, v) = ToJson(body, v)
      BY <1>8 DEF EncodeNamed
    <3> QED
      BY <1>1, <3>1, NamedCodecs
  <2>2. body \in Types
    <3>1. body \in PartsOfNamed(Schema[T])
      BY <1>1, <1>8 DEF PartsOfNamed
    <3> QED
      BY <3>1, PartsOfRef, DepthAssumption
  <2>3. o[1] = "str"
    BY <1>8, <2>1, <2>2 DEF Codecs, Encode, JStr
  <2>4. fields = << >>
    BY <1>1, <1>8 DEF StructFields
  <2> QED
    BY <1>1, <1>4, <2>3, <2>4
<1> QED
  BY <1>1, <1>2, <1>3, <1>5, <1>6, <1>7, <1>8 DEF IsRow

-----------------------------------------------------------------------------
(***************************************************************************)
(* The arm of a sum that w is decoded to, whatever w is.                   *)
(***************************************************************************)
LEMMA TaggableIsStruct ==
    ASSUME NEW A, NEW key, Taggable(A, key)
    PROVE  A \in DOMAIN Schema /\ ~IsSum(A)
<1>1. A \in DOMAIN Schema
  BY DEF Taggable
<1>2. Schema[A][1] \in {"record", "own", "alias"}
  BY DEF Taggable, Lacks, IsRecord, Alias
<1> QED
  BY <1>1, <1>2 DEF IsSum

LEMMA TaggedArm ==
    ASSUME Codecs, NEW T \in DOMAIN Schema, Schema[T][1] = "tagged",
           IsTagged(Schema[T][2], Schema[T][3]), NEW w, NEW v \in FromJson(Ref(T), w)
    PROVE  \E i \in DOMAIN Schema[T][3] :
               /\ v[1] = Schema[T][3][i].type /\ v = <<v[1], v[2]>>
               /\ Has(w, Schema[T][2]) /\ At(w, Schema[T][2]) = JStr(Schema[T][3][i].label)
               /\ v[2] \in FromJson(Ref(v[1]), w)
               /\ Taggable(v[1], Schema[T][2])
<1>1. PICK key, arms : key = Schema[T][2] /\ arms = Schema[T][3]
  OBVIOUS
<1>2. v \in DecodeTagged(key, arms, w)
  <2>1. DecodeNamed(T, Schema[T], w) = DecodeTagged(key, arms, w)
    BY <1>1 DEF DecodeNamed
  <2> QED
    BY <2>1, NamedCodecs
<1>3. PICK D : D = [i \in DOMAIN arms |-> FromJson(Ref(arms[i].type), w)]
  OBVIOUS
<1>4. PICK i \in DOMAIN arms :
          /\ Has(w, key) /\ At(w, key) = JStr(arms[i].label)
          /\ v \in {<<arms[i].type, x>> : x \in D[i]}
  <2>1. PICK I : I = {k \in DOMAIN arms : Has(w, key) /\ At(w, key) = JStr(arms[k].label)}
    OBVIOUS
  <2>2. DecodeTagged(key, arms, w) = UNION {{<<arms[i].type, x>> : x \in D[i]} : i \in I}
    BY <1>3, <2>1 DEF DecodeTagged
  <2> QED
    BY <1>2, <2>1, <2>2
<1>5. PICK x \in D[i] : v = <<arms[i].type, x>>
  BY <1>4
<1>6. v[1] = arms[i].type /\ v[2] = x /\ v = <<v[1], v[2]>>
  BY <1>5
<1>7. x \in FromJson(Ref(v[1]), w)
  BY <1>3, <1>5, <1>6
<1>8. Taggable(v[1], key)
  BY <1>1, <1>6 DEF IsTagged
<1> QED
  BY <1>1, <1>4, <1>6, <1>7, <1>8

LEMMA ChoiceArm ==
    ASSUME Codecs, NEW T \in DOMAIN Schema, T \in HandSums, NEW w, NEW v \in FromJson(Ref(T), w)
    PROVE  /\ v[1] \in Pick(T, w) /\ v = <<v[1], v[2]>>
           /\ v[2] \in FromJson(Ref(v[1]), w)
           /\ v[1] \in DOMAIN Schema /\ ~IsSum(v[1])
<1>1. Schema[T][1] = "choice" /\ IsChoice(T, Schema[T][2])
  BY HandSumRow
<1>2. PICK D : D = [a \in Pick(T, w) |-> FromJson(Ref(a), w)]
  OBVIOUS
<1>3. PICK a \in Pick(T, w) : v \in {<<a, x>> : x \in D[a]}
  <2>1. DecodeNamed(T, Schema[T], w) = UNION {{<<a, x>> : x \in D[a]} : a \in Pick(T, w)}
    BY <1>1, <1>2 DEF DecodeNamed
  <2>2. v \in DecodeNamed(T, Schema[T], w)
    BY NamedCodecs
  <2> QED
    BY <2>1, <2>2
<1>4. PICK x \in D[a] : v = <<a, x>>
  BY <1>3
<1>5. v[1] = a /\ v[2] = x /\ v = <<v[1], v[2]>>
  BY <1>4
<1>6. x \in FromJson(Ref(a), w)
  BY <1>2, <1>4
<1>7. PICK arms : arms = Schema[T][2]
  OBVIOUS
<1>8. ASSUME IsRecord(a)
      PROVE  a \in DOMAIN Schema /\ ~IsSum(a)
  BY <1>8 DEF IsRecord, IsSum
<1>9. a \in DOMAIN Schema /\ ~IsSum(a)
  <2>1. CASE T = "McpServer"
    <3>1. /\ arms = <<"StdioMcpServer", "HttpMcpServer", "SseMcpServer">>
          /\ \A i \in DOMAIN arms : Lacks(arms[i], "type")
      BY <1>1, <1>7, <2>1 DEF IsChoice
    <3>2. a \in {"StdioMcpServer", "HttpMcpServer", "SseMcpServer"}
      BY <1>3, <2>1 DEF Pick, PickMcpServer
    <3>3. \E i \in DOMAIN arms : a = arms[i]
      <4>1. DOMAIN arms = 1 .. 3
        BY <3>1
      <4>2. arms[1] = "StdioMcpServer" /\ arms[2] = "HttpMcpServer" /\ arms[3] = "SseMcpServer"
        BY <3>1
      <4>3. 1 \in DOMAIN arms /\ 2 \in DOMAIN arms /\ 3 \in DOMAIN arms
        BY <4>1
      <4> QED
        BY <3>2, <4>2, <4>3
    <3> QED
      BY <1>8, <3>1, <3>3 DEF Lacks
  <2>2. CASE T = "EmbeddedResource"
    <3>1. a \in {"TextResource", "BlobResource"}
      BY <1>3, <2>2 DEF Pick, PickEmbeddedResource
    <3> QED
      BY <1>1, <1>8, <2>2, <3>1 DEF IsChoice, Lacks
  <2>3. CASE T = "ConfigSelectOptions"
    <3>1. a \in {"CSO_Ungrouped", "CSO_Grouped"}
      BY <1>3, <2>3 DEF Pick, PickConfigSelectOptions
    <3>2. a \in DOMAIN Schema /\ Schema[a][1] = "alias"
      BY <1>1, <2>3, <3>1 DEF IsChoice, Alias
    <3> QED
      BY <3>2 DEF IsSum
  <2>4. CASE T = "AvailableCommandInput"
    <3>1. a \in {"UnstructuredCommandInput"}
      BY <1>3, <2>4 DEF Pick, PickAvailableCommandInput
    <3> QED
      BY <1>1, <1>8, <2>4, <3>1 DEF IsChoice, Lacks
  <2> QED
    BY <2>1, <2>2, <2>3, <2>4 DEF HandSums
<1> QED
  BY <1>3, <1>5, <1>6, <1>9

\* The sums are those two kinds.
LEMMA SumRow ==
    ASSUME NEW T \in DOMAIN Schema, IsSum(T)
    PROVE  \/ T \in HandSums
           \/ Schema[T][1] = "tagged" /\ IsTagged(Schema[T][2], Schema[T][3])
<1>1. PICK body : body = Schema[T]
  OBVIOUS
<1>2. IsRow(T, body) /\ body[1] \in {"tagged", "choice"}
  <2>1. IsRow(T, body)
    BY <1>1, SchemaAssumption
  <2> QED
    BY <1>1, <2>1 DEF IsSum
<1>3. CASE T \notin HandSums
  <2>1. T \notin HandStructs
    BY <1>2 DEF IsRow
  <2>2. \/ IsRecord(T)
        \/ body[1] = "tagged" /\ IsTagged(body[2], body[3])
        \/ body[1] = "alias" /\ IsAlias(body)
        \/ body[1] = "enum"
    BY <1>2, <1>3, <2>1 DEF IsRow
  <2> QED
    BY <1>1, <1>2, <2>2 DEF IsRecord
<1> QED
  BY <1>3

\* A sum is written with the metadata of its arm.
LEMMA SumMeta ==
    ASSUME Codecs, NEW T \in DOMAIN Schema, IsSum(T), NEW w, NEW v \in FromJson(Ref(T), w)
    PROVE  MetaAgain(StructFields(Schema[v[1]]), w, ToJson(Ref(T), v))
<1>1. PICK o, j : o = ToJson(Ref(T), v) /\ j = ToJson(Ref(v[1]), v[2])
  OBVIOUS
<1>2. ASSUME v[1] \in DOMAIN Schema, ~IsSum(v[1]), v[2] \in FromJson(Ref(v[1]), w),
             Has(o, "_meta") <=> Has(j, "_meta"),
             Has(j, "_meta") => At(o, "_meta") = At(j, "_meta")
      PROVE  MetaAgain(StructFields(Schema[v[1]]), w, o)
  <2>1. MetaAgain(StructFields(Schema[v[1]]), w, j)
    BY <1>1, <1>2, TypeMeta
  <2> QED
    BY <1>2, <2>1 DEF MetaAgain
<1>3. CASE T \in HandSums
  <2>1. /\ v[1] \in Pick(T, w) /\ v[2] \in FromJson(Ref(v[1]), w)
        /\ v[1] \in DOMAIN Schema /\ ~IsSum(v[1])
    BY <1>3, ChoiceArm
  <2>2. o = Mark(T, v[1], j)
    BY <1>1, <1>3, HandSumRow, ChoiceCodecs
  <2>3. (Has(o, "_meta") <=> Has(j, "_meta")) /\ (Has(j, "_meta") => At(o, "_meta") = At(j, "_meta"))
    <3>1. CASE T = "McpServer"
      <4>1. v[1] \in {"StdioMcpServer", "HttpMcpServer", "SseMcpServer"}
        BY <2>1, <3>1 DEF Pick, PickMcpServer
      <4>2. o = j \/ \E x : o = With(j, "type", x)
        BY <2>2, <3>1, <4>1 DEF Mark, MarkMcpServer
      <4>3. IsObj(j)
        <5>1. IsChoice(T, Schema[T][2])
          BY <1>3, HandSumRow
        <5>2. PICK arms : arms = Schema[T][2]
          OBVIOUS
        <5>3. /\ arms = <<"StdioMcpServer", "HttpMcpServer", "SseMcpServer">>
              /\ \A i \in DOMAIN arms : Lacks(arms[i], "type")
          BY <3>1, <5>1, <5>2 DEF IsChoice
        <5>4. 1 \in DOMAIN arms /\ 2 \in DOMAIN arms /\ 3 \in DOMAIN arms
          BY <5>3
        <5>5. Lacks("StdioMcpServer", "type") /\ Lacks("HttpMcpServer", "type")
              /\ Lacks("SseMcpServer", "type")
          BY <5>3, <5>4
        <5>6. IsRecord(v[1])
          BY <4>1, <5>5 DEF Lacks
        <5> QED
          BY <1>1, <5>6, RecordIsWritten
      <4> QED
        BY <4>2, <4>3, OtherMember
    <3>2. CASE T # "McpServer"
      BY <2>2, <3>2 DEF Mark
    <3> QED
      BY <3>1, <3>2
  <2> QED
    BY <1>1, <1>2, <2>1, <2>3
<1>4. CASE T \notin HandSums
  <2>1. Schema[T][1] = "tagged" /\ IsTagged(Schema[T][2], Schema[T][3])
    BY <1>4, SumRow
  <2>2. PICK key, arms : key = Schema[T][2] /\ arms = Schema[T][3]
    OBVIOUS
  <2>3. PICK i \in DOMAIN arms :
            /\ v[1] = arms[i].type /\ v[2] \in FromJson(Ref(v[1]), w) /\ Taggable(v[1], key)
    BY <2>1, <2>2, TaggedArm
  <2>4. v[1] \in DOMAIN Schema /\ ~IsSum(v[1])
    BY <2>3, TaggableIsStruct
  <2>5. o = With(j, key, JStr(arms[i].label))
    BY <1>1, <2>1, <2>2, <2>3, TaggedIsWritten
  <2>6. IsObj(j)
    BY <1>1, <2>3, ArmIsWritten
  <2>7. key # "_meta"
    BY <2>1, <2>2 DEF IsTagged
  <2>8. (Has(o, "_meta") <=> Has(j, "_meta")) /\ (Has(j, "_meta") => At(o, "_meta") = At(j, "_meta"))
    BY <2>5, <2>6, <2>7, OtherMember
  <2> QED
    BY <1>1, <1>2, <2>3, <2>4, <2>8
<1> QED
  BY <1>3, <1>4
-----------------------------------------------------------------------------
(***************************************************************************)
(* JSON of another kind than a type is written as, and what a struct makes *)
(* of such a member.                                                       *)
(***************************************************************************)
\* What a peer writes that takes j for something else.
Misshapen(j) == IF j[1] = "str" THEN JNum(0) ELSE JStr(Garbage)

LEMMA MisshapenIsPlain ==
    ASSUME NEW j
    PROVE  /\ ~IsObj(Misshapen(j)) /\ Misshapen(j)[1] # "arr"
           /\ Misshapen(j)[1] = "str" <=> j[1] # "str"
           /\ Misshapen(j)[1] \in {"str", "num"}
BY DEF Misshapen, IsObj, JNum, JStr

\* Types without a name refuse it ...
LEMMA PlainRefuses ==
    ASSUME Codecs, NEW t \in Types, t[1] \notin {"ref", "unit", "json"}, NEW x, IsValue(t, x)
    PROVE  FromJson(t, Misshapen(ToJson(t, x))) = {}
<1>1. PICK j, y : j = ToJson(t, x) /\ y = Misshapen(j)
  OBVIOUS
<1>2. HasType(t, x) /\ j = Encode(t, x) /\ FromJson(t, y) = Decode(t, y)
  BY <1>1 DEF Codecs
<1>3. PICK k, labels : k = t[1] /\ labels = t[2]
  OBVIOUS
<1>4. /\ y[1] # "arr" /\ (y[1] = "str" <=> j[1] # "str") /\ y[1] \in {"str", "num"}
  BY <1>1, MisshapenIsPlain
<1>5. CASE k \in {"str", "open"}
  <2>1. j[1] = "str"
    BY <1>2, <1>3, <1>5 DEF Encode, JStr
  <2>2. Decode(t, y) = IF y[1] = "str" THEN {y[2]} ELSE {}
    BY <1>3, <1>5 DEF Decode
  <2> QED
    BY <1>1, <1>2, <1>4, <2>1, <2>2
<1>6. CASE k = "enum"
  <2>1. j[1] = "str"
    BY <1>2, <1>3, <1>6 DEF Encode, JStr
  <2>2. Decode(t, y) = {labels[i] : i \in {n \in DOMAIN labels : y = JStr(labels[n])}}
    BY <1>3, <1>6 DEF Decode
  <2>3. \A n \in DOMAIN labels : y # JStr(labels[n])
    BY <1>4, <2>1 DEF JStr
  <2>4. Decode(t, y) = {}
    BY <2>2, <2>3
  <2> QED
    BY <1>1, <1>2, <2>4
<1>7. CASE k = "num"
  <2>1. j[1] # "str"
    BY <1>2, <1>3, <1>7 DEF Encode, JNum
  <2>2. Decode(t, y) = IF y[1] = "num" THEN {y[2]} ELSE {}
    BY <1>3, <1>7 DEF Decode
  <2> QED
    BY <1>1, <1>2, <1>4, <2>1, <2>2
<1>8. CASE k = "bool"
  <2>1. Decode(t, y) = IF y[1] = "bool" THEN {y[2]} ELSE {}
    BY <1>3, <1>8 DEF Decode
  <2>2. y[1] # "bool"
    BY <1>4
  <2> QED
    BY <1>1, <1>2, <2>1, <2>2
<1>9. CASE k = "list"
  <2>1. Decode(t, y) = DecodeList(t[2], y)
    BY <1>3, <1>9 DEF Decode
  <2> QED
    BY <1>1, <1>2, <1>4, <2>1 DEF DecodeList
<1>10. k \in {"str", "open", "enum", "num", "bool", "list"}
  BY <1>2, <1>3 DEF HasType
<1> QED
  BY <1>5, <1>6, <1>7, <1>8, <1>9, <1>10

\* ... as do those that are written as objects or lists.
LEMMA HandRefuses ==
    ASSUME Codecs, NEW T \in DOMAIN Schema, T \in HandSums \cup HandStructs,
           T \notin {"PO_Cancelled", "ClientSessionCapabilities"},
           NEW y, ~IsObj(y), y[1] # "arr"
    PROVE  FromJson(Ref(T), y) = {}
<1>1. \A k, kind : ~Has(y, k) /\ ~Holds(y, k, kind)
  BY DEF Has, Holds
<1>2. CASE T \in HandSums
  <2>1. Schema[T][1] = "choice"
    BY <1>2, HandSumRow
  <2>2. Pick(T, y) = {}
    BY <1>1, <1>2 DEF Pick, HandSums, PickMcpServer, PickEmbeddedResource,
                      PickConfigSelectOptions, PickAvailableCommandInput
  <2>3. FromJson(Ref(T), y) = DecodeNamed(T, Schema[T], y)
    BY NamedCodecs
  <2> QED
    BY <2>1, <2>2, <2>3 DEF DecodeNamed
<1>3. CASE T \in HandStructs
  <2>1. Schema[T][1] = "own"
    BY <1>3, OwnRow
  <2>2. PICK fields : fields = Schema[T][2]
    OBVIOUS
  <2>3. FromJson(Ref(T), y) = DecodeOwn(T, fields, y)
    BY <2>1, <2>2, OwnCodecs
  <2>4. CASE T = "AuthMethod"
    <3>1. DecodeOwn(T, fields, y) = DecodeAuthMethod(y)
      BY <2>4 DEF DecodeOwn
    <3> QED
      BY <1>1, <2>3, <3>1 DEF DecodeAuthMethod
  <2>5. CASE T = "ClientCapabilities"
    <3>1. PICK base : base = BaseFields(fields)
      OBVIOUS
    <3>2. DecodeRecord(base, y) = {}
      BY DEF DecodeRecord
    <3>3. DecodeOwn(T, fields, y)
          = {Over(b, ReadClientMembers(y)) : b \in DecodeRecord(base, y)}
      BY <2>5, <3>1 DEF DecodeOwn
    <3> QED
      BY <2>3, <3>2, <3>3
  <2>6. CASE T = "ConfigOption"
    <3>1. PICK options : DecodeOwn(T, fields, y) = DecodeConfigOption(y, options)
      BY <2>6 DEF DecodeOwn
    <3>2. DecodeConfigOption(y, options) = {}
      BY <1>1, ConfigOptionDecoded
    <3> QED
      BY <2>3, <3>1, <3>2
  <2> QED
    BY <1>3, <2>4, <2>5, <2>6 DEF HandStructs
<1> QED
  BY <1>2, <1>3

LEMMA NamedRefuses ==
    ASSUME Codecs, NEW T \in DOMAIN Schema, Schema[T][1] # "enum",
           T \notin {"PO_Cancelled", "ClientSessionCapabilities"},
           NEW y, ~IsObj(y), y[1] # "arr"
    PROVE  FromJson(Ref(T), y) = {}
<1>1. PICK body : body = Schema[T]
  OBVIOUS
<1>2. IsRow(T, body)
  BY <1>1, SchemaAssumption
<1>3. \A U : IsRecord(U) => FromJson(Ref(U), y) = {}
  BY RecordCodecs DEF DecodeRecord
<1>4. CASE T \in HandSums \cup HandStructs
  BY <1>4, HandRefuses
<1>5. CASE T \notin HandSums \cup HandStructs
  <2>1. \/ IsRecord(T)
        \/ body[1] = "tagged"
        \/ body[1] = "alias" /\ IsAlias(body)
    BY <1>1, <1>2, <1>5 DEF IsRow
  <2>2. CASE IsRecord(T)
    BY <1>3, <2>2
  <2>3. CASE body[1] = "tagged"
    <3>1. FromJson(Ref(T), y) = DecodeNamed(T, body, y)
      BY <1>1, NamedCodecs
    <3>2. DecodeNamed(T, body, y) = DecodeTagged(body[2], body[3], y)
      BY <2>3 DEF DecodeNamed
    <3>3. ~Has(y, body[2])
      BY DEF Has
    <3>4. DecodeTagged(body[2], body[3], y) = {}
      BY <3>3 DEF DecodeTagged
    <3> QED
      BY <3>1, <3>2, <3>4
  <2>4. CASE body[1] = "alias" /\ IsAlias(body)
    <3>1. PICK t : t = body[2]
      OBVIOUS
    <3>2. /\ body = Alias(t)
          /\ t[1] = "list" \/ \E U \in DOMAIN Schema : t = Ref(U) /\ IsRecord(U)
      BY <2>4, <3>1 DEF IsAlias
    <3>3. FromJson(Ref(T), y) = FromJson(t, y)
      BY <1>1, <3>2, AliasCodecs
    <3>4. CASE t[1] = "list"
      <4>1. t \in Types
        <5>1. t \in PartsOfNamed(Schema[T])
          BY <1>1, <2>4, <3>1 DEF PartsOfNamed
        <5> QED
          BY <5>1, PartsOfRef, DepthAssumption
      <4>2. FromJson(t, y) = DecodeList(t[2], y)
        BY <3>4, <4>1, ListCodecs
      <4> QED
        BY <3>3, <4>2 DEF DecodeList
    <3>5. CASE \E U \in DOMAIN Schema : t = Ref(U) /\ IsRecord(U)
      BY <1>3, <3>3, <3>5
    <3> QED
      BY <3>2, <3>4, <3>5
  <2> QED
    BY <2>1, <2>2, <2>3, <2>4
<1> QED
  BY <1>4, <1>5

LEMMA MisshapenIsRefused ==
    ASSUME Codecs, NEW t \in Types, ~IsLax(t), ~IsRaw(t), NEW x, IsValue(t, x)
    PROVE  FromJson(t, Misshapen(ToJson(t, x))) = {}
<1>1. CASE t[1] # "ref"
  BY <1>1, PlainRefuses DEF IsLax, IsRaw
<1>2. CASE t[1] = "ref"
  <2>1. PICK T, y : T = t[2] /\ y = Misshapen(ToJson(t, x))
    OBVIOUS
  <2>2. HasType(t, x)
    BY DEF Codecs
  <2>3. T \in DOMAIN Schema
    BY <1>2, <2>1, <2>2 DEF HasType
  <2>4. PICK r : r = Ref(T)
    OBVIOUS
  <2>5. r[1] = "ref" /\ r[2] = T /\ r \in Types
    BY <2>3, <2>4, DepthAssumption DEF Ref
  <2>6. \A j : FromJson(t, j) = FromJson(r, j) /\ ToJson(t, j) = ToJson(r, j)
    <3>1. \A j : Encode(t, j) = Encode(r, j) /\ Decode(t, j) = Decode(r, j)
      BY <1>2, <2>1, <2>5 DEF Encode, Decode
    <3> QED
      BY <2>5, <3>1 DEF Codecs
  <2>7. CASE Schema[T][1] = "enum"
    <3>1. PICK body : body = Schema[T]
      OBVIOUS
    <3>2. body \in Types
      <4>1. body \in PartsOfNamed(Schema[T])
        BY <2>7, <3>1 DEF PartsOfNamed
      <4> QED
        BY <2>3, <4>1, PartsOfRef, DepthAssumption
    <3>3. \A j : ToJson(r, j) = ToJson(body, j) /\ FromJson(r, j) = FromJson(body, j)
      BY <2>3, <2>4, <2>7, <3>1, NamedCodecs DEF EncodeNamed, DecodeNamed
    <3>4. IsValue(body, x)
      <4>1. IsNamed(T, body, x)
        BY <1>2, <2>1, <2>2, <3>1 DEF HasType
      <4> QED
        BY <2>7, <3>1, <4>1 DEF IsNamed
    <3>5. FromJson(body, Misshapen(ToJson(body, x))) = {}
      BY <2>7, <3>1, <3>2, <3>4, PlainRefuses
    <3> QED
      BY <2>6, <3>3, <3>5
  <2>8. CASE Schema[T][1] # "enum"
    <3>1. ~IsObj(y) /\ y[1] # "arr"
      BY <2>1, MisshapenIsPlain
    <3>2. T \notin {"PO_Cancelled", "ClientSessionCapabilities"}
      BY <1>2, <2>1 DEF IsLax
    <3>3. FromJson(r, y) = {}
      BY <2>3, <2>4, <2>8, <3>1, <3>2, NamedRefuses
    <3> QED
      BY <2>1, <2>6, <3>3
  <2> QED
    BY <2>7, <2>8
<1> QED
  BY <1>1, <1>2

\* A wire form without a member that is required, or with a wrong one.
Short(fields, own, w) ==
    \E i \in How(fields, "required") :
        \/ ~Has(w, fields[i].key)
        \/ /\ ~IsRaw(fields[i].type)
           /\ Has(own, fields[i].key) /\ Has(w, fields[i].key)
           /\ At(w, fields[i].key) = Misshapen(At(own, fields[i].key))

\* A record writes each member that is required, as it is.
LEMMA RequiredIsWritten ==
    ASSUME NEW fields, \A i, k \in DOMAIN fields : fields[i].key = fields[k].key => i = k,
           NEW v, NEW i \in DOMAIN fields, fields[i].how = "required"
    PROVE  At(EncodeRecord(fields, v), fields[i].key)
           = ToJson(fields[i].type, v[fields[i].key])
<1>1. PICK S : S = {<<fields[n].key, EncodeField(fields[n], v)>> :
                      n \in {k \in DOMAIN fields : Written(fields[k], v)}}
  OBVIOUS
<1>2. EncodeRecord(fields, v) = ObjOf(S)
  BY <1>1 DEF EncodeRecord
<1>3. \A m, n \in S : m[1] = n[1] => m = n
  BY <1>1
<1>4. <<fields[i].key, EncodeField(fields[i], v)>> \in S
  BY <1>1 DEF Written
<1>5. At(ObjOf(S), fields[i].key) = EncodeField(fields[i], v)
  BY <1>3, <1>4, ObjOfMember
<1> QED
  BY <1>2, <1>5 DEF EncodeField

LEMMA FieldsDemand ==
    ASSUME Codecs, NEW fields, NEW hows, IsFields(fields, hows),
           \A i \in DOMAIN fields : fields[i].type \in Types,
           NEW v, \A i \in How(fields, "required") : IsValue(fields[i].type, v[fields[i].key]),
           NEW own, \A k \in Keys(fields, "required") :
                        Has(own, k) => At(own, k) = At(EncodeRecord(fields, v), k),
           NEW w, Short(fields, own, w)
    PROVE  DecodeRecord(fields, w) = {}
<1>1. PICK i \in How(fields, "required") :
          \/ ~Has(w, fields[i].key)
          \/ /\ ~IsRaw(fields[i].type)
             /\ Has(own, fields[i].key) /\ Has(w, fields[i].key)
             /\ At(w, fields[i].key) = Misshapen(At(own, fields[i].key))
  BY DEF Short
<1>2. i \in DOMAIN fields /\ fields[i].how = "required"
  BY DEF How
<1>3. (\A n, k \in DOMAIN fields : fields[n].key = fields[k].key => n = k)
      /\ ~IsLax(fields[i].type)
  BY <1>2, FieldRows
<1>4. CASE ~Has(w, fields[i].key)
  BY <1>2, <1>3, <1>4, RequiredIsNeeded
<1>5. CASE /\ ~IsRaw(fields[i].type) /\ Has(own, fields[i].key)
           /\ At(w, fields[i].key) = Misshapen(At(own, fields[i].key))
  <2>1. At(own, fields[i].key) = ToJson(fields[i].type, v[fields[i].key])
    <3>1. fields[i].key \in Keys(fields, "required")
      BY DEF Keys
    <3> QED
      BY <1>2, <1>3, <1>5, <3>1, RequiredIsWritten
  <2>2. FromJson(fields[i].type, At(w, fields[i].key)) = {}
    BY <1>2, <1>3, <1>5, <2>1, MisshapenIsRefused
  <2> QED
    BY <1>2, <1>3, <2>2, RequiredIsNeeded
<1> QED
  BY <1>1, <1>4, <1>5

\* Among the members of a value, those that are required are values.
LEMMA RequiredAreValues ==
    ASSUME NEW fields, NEW hows, IsFields(fields, hows), NEW v, IsStruct(fields, NoNull(fields, v))
    PROVE  \A i \in How(fields, "required") : IsValue(fields[i].type, v[fields[i].key])
<1>1. PICK c, raw : c = NoNull(fields, v) /\ raw = RawMaybes(fields)
  OBVIOUS
<1>2. SUFFICES ASSUME NEW i \in How(fields, "required")
               PROVE  IsValue(fields[i].type, v[fields[i].key])
  OBVIOUS
<1>3. i \in DOMAIN fields /\ fields[i].how = "required"
  BY DEF How
<1>4. IsValue(fields[i].type, c[fields[i].key])
  BY <1>1, <1>3 DEF IsStruct, IsField
<1>5. fields[i].key \notin raw
  <2>1. ASSUME NEW n \in How(fields, "optional"), fields[n].key = fields[i].key
        PROVE  FALSE
    <3>1. n \in DOMAIN fields /\ fields[n].how = "optional"
      BY DEF How
    <3>2. n = i
      BY <1>3, <2>1, <3>1, FieldRows
    <3> QED
      BY <1>3, <3>1, <3>2
  <2> QED
    BY <1>1, <2>1 DEF RawMaybes
<1>6. c[fields[i].key] = v[fields[i].key]
  <2>1. CASE raw = {}
    BY <1>1, <2>1 DEF NoNull
  <2>2. CASE raw # {}
    <3>1. c = [k \in DOMAIN v |-> IF k \in raw /\ v[k] = Just(JNull) THEN Nothing ELSE v[k]]
      BY <1>1, <2>2 DEF NoNull
    <3>2. fields[i].key \in DOMAIN c
      <4>1. c = [k \in KeysOfFields(fields) |-> c[k]]
        BY <1>1 DEF IsStruct
      <4>2. fields[i].key \in KeysOfFields(fields)
        BY <1>3 DEF KeysOfFields
      <4> QED
        BY <4>1, <4>2
    <3>3. fields[i].key \in DOMAIN v
      BY <3>1, <3>2
    <3> QED
      BY <1>5, <3>1, <3>3
  <2> QED
    BY <2>1, <2>2
<1> QED
  BY <1>4, <1>6

\* A struct with a required member missing or wrong is refused: records, and
\* what is around one ...
LEMMA StructDemands ==
    ASSUME Codecs, NEW A \in DOMAIN Schema, ~IsSum(A), A \notin HandStructs \ {"PO_Cancelled"},
           NEW fields, fields = StructFields(Schema[A]),
           NEW v, IsValue(Ref(A), NoNull(fields, v)),
           NEW own, \A k \in Keys(fields, "required") :
                        Has(own, k) => At(own, k) = At(ToJson(Ref(A), v), k),
           NEW w, Short(fields, own, w)
    PROVE  FromJson(Ref(A), w) = {}
<1>1. PICK body : body = Schema[A]
  OBVIOUS
<1>2. IsRow(A, body) /\ body[1] \notin {"tagged", "choice"}
  <2>1. IsRow(A, body)
    BY <1>1, SchemaAssumption
  <2> QED
    BY <1>1, <2>1 DEF IsSum
<1>3. A \notin HandSums
  BY <1>2 DEF IsRow
<1>4. DOMAIN fields # {}
  BY DEF Short, How
<1>5. DOMAIN << >> = {}
  OBVIOUS
<1>6. ASSUME NEW U, IsRecord(U), fields = Schema[U][2],
             ToJson(Ref(U), v) = ToJson(Ref(A), v), IsValue(Ref(U), NoNull(fields, v))
      PROVE  FromJson(Ref(U), w) = {}
  <2>1. IsFields(fields, RecordHows)
    BY <1>6 DEF IsRecord
  <2>2. \A i \in DOMAIN fields : fields[i].type \in Types
    BY <1>6, FieldTypes DEF IsRecord
  <2>3. IsStruct(fields, NoNull(fields, v)) /\ ToJson(Ref(U), v) = EncodeRecord(fields, v)
        /\ FromJson(Ref(U), w) = DecodeRecord(fields, w)
    BY <1>6, RecordCodecs
  <2>4. \A i \in How(fields, "required") : IsValue(fields[i].type, v[fields[i].key])
    BY <2>1, <2>3, RequiredAreValues
  <2>5. \A k \in Keys(fields, "required") :
            Has(own, k) => At(own, k) = At(EncodeRecord(fields, v), k)
    BY <1>6, <2>3
  <2>6. DecodeRecord(fields, w) = {}
    BY <2>1, <2>2, <2>4, <2>5, FieldsDemand
  <2> QED
    BY <2>3, <2>6
<1>7. CASE A \in HandStructs
  <2>1. A = "PO_Cancelled"
    BY <1>7
  <2>2. IsOwnRow(A, body[2]) /\ fields = body[2]
    BY <1>1, <1>7, OwnRow
  <2>3. fields = << >>
    BY <2>1, <2>2 DEF IsOwnRow
  <2> QED
    BY <1>4, <1>5, <2>3
<1>8. CASE A \notin HandStructs
  <2>1. \/ IsRecord(A)
        \/ body[1] = "alias" /\ IsAlias(body)
        \/ body[1] = "enum"
    BY <1>2, <1>3, <1>8 DEF IsRow
  <2>2. CASE IsRecord(A)
    <3>1. fields = Schema[A][2]
      BY <2>2 DEF IsRecord, StructFields
    <3> QED
      BY <1>6, <2>2, <3>1
  <2>3. CASE body[1] = "alias" /\ IsAlias(body)
    <3>1. PICK t : t = body[2]
      OBVIOUS
    <3>2. /\ body = Alias(t)
          /\ t[1] = "list" \/ \E U \in DOMAIN Schema : t = Ref(U) /\ IsRecord(U)
      BY <2>3, <3>1 DEF IsAlias
    <3>3. /\ ToJson(Ref(A), v) = ToJson(t, v) /\ FromJson(Ref(A), w) = FromJson(t, w)
          /\ \A x : IsValue(Ref(A), x) <=> IsValue(t, x)
      BY <1>1, <3>2, AliasCodecs
    <3>4. CASE t[1] = "list"
      <4>1. fields = << >>
        BY <1>1, <2>3, <3>1, <3>4 DEF StructFields
      <4> QED
        BY <1>4, <1>5, <4>1
    <3>5. CASE \E U \in DOMAIN Schema : t = Ref(U) /\ IsRecord(U)
      <4>1. PICK U \in DOMAIN Schema : t = Ref(U) /\ IsRecord(U)
        BY <3>5
      <4>2. fields = Schema[U][2]
        <5>1. body[1] = "alias" /\ body[2][1] = "ref" /\ body[2][2] = U
          BY <3>1, <3>2, <4>1 DEF Alias, Ref
        <5>2. Schema[U][1] = "record"
          BY <4>1 DEF IsRecord
        <5> QED
          BY <1>1, <5>1, <5>2 DEF StructFields
      <4>3. ToJson(Ref(U), v) = ToJson(Ref(A), v) /\ IsValue(Ref(U), NoNull(fields, v))
        BY <3>3, <4>1
      <4>4. FromJson(Ref(U), w) = {}
        BY <1>6, <4>1, <4>2, <4>3
      <4> QED
        BY <3>3, <4>1, <4>4
    <3> QED
      BY <3>2, <3>4, <3>5
  <2>4. CASE body[1] = "enum"
    <3>1. fields = << >>
      BY <1>1, <2>4 DEF StructFields
    <3> QED
      BY <1>4, <1>5, <3>1
  <2> QED
    BY <2>1, <2>2, <2>3, <2>4
<1> QED
  BY <1>7, <1>8

\* ... and those with a codec written by hand.
LEMMA AuthMethodDemands ==
    ASSUME Codecs, "AuthMethod" \in DOMAIN Schema, NEW v, NEW w,
           Short(Schema["AuthMethod"][2], ToJson(Ref("AuthMethod"), v), w)
    PROVE  FromJson(Ref("AuthMethod"), w) = {}
<1>1. PICK T, fields, own :
          T = "AuthMethod" /\ fields = Schema[T][2] /\ own = ToJson(Ref(T), v)
  OBVIOUS
<1>2. Schema[T][1] = "own" /\ IsOwnRow(T, fields)
  BY <1>1, OwnRow DEF HandStructs
<1>3. Keys(fields, "required") = {"id", "name"}
  BY <1>1, <1>2 DEF IsOwnRow
<1>4. own = EncodeAuthMethod(v) /\ FromJson(Ref(T), w) = DecodeAuthMethod(w)
  <2>1. own = EncodeOwn(T, fields, v) /\ FromJson(Ref(T), w) = DecodeOwn(T, fields, w)
    BY <1>1, <1>2, OwnCodecs
  <2> QED
    BY <1>1, <2>1 DEF EncodeOwn, DecodeOwn
<1>5. PICK S : S = {<<"id", JStr(v.id)>>, <<"name", JStr(v.name)>>}
                   \cup When(v.description # Nothing, "description", JStr(The(v.description)))
                   \cup When(v.type # "agent", "type", JStr(v.type))
                   \cup When(v.type = "terminal" /\ v.args # << >>, "args",
                             JArr([i \in DOMAIN v.args |-> JStr(v.args[i])]))
                   \cup When(v.type = "terminal" /\ v.env # << >>, "env",
                             JObj([x \in DOMAIN v.env |-> JStr(v.env[x])]))
                   \cup When(v._meta # EmptyObj, "_meta", v._meta)
  OBVIOUS
<1>6. own = ObjOf(S)
  BY <1>4, <1>5 DEF EncodeAuthMethod
<1>7. \A m, n \in S : m[1] = n[1] => m = n
  BY <1>5 DEF When
<1>8. <<"id", JStr(v.id)>> \in S /\ <<"name", JStr(v.name)>> \in S
  BY <1>5
<1>9. At(own, "id") = JStr(v.id) /\ At(own, "name") = JStr(v.name)
  BY <1>6, <1>7, <1>8, ObjOfMember
<1>10. PICK i \in How(fields, "required") :
           \/ ~Has(w, fields[i].key)
           \/ At(w, fields[i].key) = Misshapen(At(own, fields[i].key))
  BY <1>1 DEF Short
<1>11. fields[i].key \in {"id", "name"}
  BY <1>3 DEF Keys
<1>12. At(own, fields[i].key)[1] = "str"
  BY <1>9, <1>11 DEF JStr
<1>13. ~Holds(w, fields[i].key, "str")
  BY <1>10, <1>12, MisshapenIsPlain DEF Holds
<1> QED
  BY <1>1, <1>4, <1>11, <1>13 DEF DecodeAuthMethod

LEMMA ClientCapabilitiesDemand ==
    ASSUME Codecs, "ClientCapabilities" \in DOMAIN Schema,
           NEW v, IsValue(Ref("ClientCapabilities"), v), NEW w,
           Short(Schema["ClientCapabilities"][2], ToJson(Ref("ClientCapabilities"), v), w)
    PROVE  FromJson(Ref("ClientCapabilities"), w) = {}
<1>1. PICK T, fields, own, base :
          /\ T = "ClientCapabilities" /\ fields = Schema[T][2] /\ own = ToJson(Ref(T), v)
          /\ base = BaseFields(fields)
  OBVIOUS
<1>2. Schema[T][1] = "own" /\ IsOwnRow(T, fields)
  BY <1>1, OwnRow DEF HandStructs
<1>3. KeysOfFields(fields) \cap {"auth", "elicitation"} = {}
  BY <1>1, <1>2 DEF IsOwnRow
<1>4. IsFields(base, RecordHows) /\ \A i \in DOMAIN base : base[i].type \in Types
  BY <1>1, BaseRow
<1>5. /\ DOMAIN base = {i \in DOMAIN fields : fields[i].how # "member"}
      /\ \A i \in DOMAIN base : base[i] = fields[i]
  BY <1>1 DEF BaseFields
<1>6. \A i : i \in How(fields, "required") <=> i \in How(base, "required")
  BY <1>5 DEF How
<1>7. PICK j : j = EncodeRecord(base, v)
  OBVIOUS
<1>8. own = AddClientMembers(v, j)
      /\ FromJson(Ref(T), w) = {Over(b, ReadClientMembers(w)) : b \in DecodeRecord(base, w)}
  <2>1. own = EncodeOwn(T, fields, v) /\ FromJson(Ref(T), w) = DecodeOwn(T, fields, w)
    BY <1>1, <1>2, OwnCodecs
  <2> QED
    BY <1>1, <1>7, <2>1 DEF EncodeOwn, DecodeOwn
<1>9. \A i \in How(base, "required") : IsValue(base[i].type, v[base[i].key])
  <2>1. SUFFICES ASSUME NEW i \in How(base, "required")
                 PROVE  IsValue(base[i].type, v[base[i].key])
    OBVIOUS
  <2>2. i \in DOMAIN fields /\ base[i] = fields[i] /\ fields[i].how = "required"
    BY <1>5 DEF How
  <2>3. IsOwn(T, fields, v)
    BY <1>1, <1>2, OwnCodecs
  <2>4. IsStruct(fields, v)
    BY <1>1, <2>3 DEF IsOwn
  <2>5. IsField(fields[i], v[fields[i].key])
    BY <2>2, <2>4 DEF IsStruct
  <2> QED
    BY <2>2, <2>5 DEF IsField
<1>10. \A k \in Keys(base, "required") : At(own, k) = At(EncodeRecord(base, v), k)
  <2>1. SUFFICES ASSUME NEW k \in Keys(base, "required")
                 PROVE  At(own, k) = At(j, k)
    BY <1>7
  <2>2. Has(j, k) /\ IsObj(j)
    BY <1>7, RecordMembers
  <2>3. k \in KeysOfFields(fields)
    BY <1>5 DEF Keys, How, KeysOfFields
  <2>4. k \notin {"auth", "elicitation"}
    BY <1>3, <2>3
  <2> QED
    BY <1>8, <2>2, <2>4, AddedMembers
<1>11. Short(base, own, w)
  <2>1. PICK i \in How(fields, "required") :
            \/ ~Has(w, fields[i].key)
            \/ /\ ~IsRaw(fields[i].type)
               /\ Has(own, fields[i].key) /\ Has(w, fields[i].key)
               /\ At(w, fields[i].key) = Misshapen(At(own, fields[i].key))
    BY <1>1 DEF Short
  <2>2. i \in How(base, "required") /\ base[i] = fields[i]
    BY <1>5, <1>6 DEF How
  <2> QED
    BY <2>1, <2>2 DEF Short
<1>12. DecodeRecord(base, w) = {}
  BY <1>4, <1>9, <1>10, <1>11, FieldsDemand
<1> QED
  BY <1>1, <1>8, <1>12

\* A config option must be complete, as a boolean or as a select.
LEMMA ConfigOptionDemands ==
    ASSUME Codecs, "ConfigOption" \in DOMAIN Schema, NEW v,
           NEW own, own = ToJson(Ref("ConfigOption"), v), NEW w, IsObj(w),
           \A k \in {"type", "options"} : SameAt(own, w, k) \/ ~Has(w, k),
           \/ Short(Schema["ConfigOption"][2], own, w)
           \/ IsBoolean(v) /\ ~Has(w, "type")
           \/ ~IsBoolean(v) /\ ~Has(w, "options")
    PROVE  FromJson(Ref("ConfigOption"), w) = {}
<1>1. PICK T, fields, p :
          /\ T = "ConfigOption" /\ fields = Schema[T][2]
          /\ p = ToJson(Ref("ConfigSelectOptions"), v.options)
  OBVIOUS
<1>2. Schema[T][1] = "own" /\ IsOwnRow(T, fields)
  BY <1>1, OwnRow DEF HandStructs
<1>3. Keys(fields, "required") = {"id", "name", "currentValue"}
  BY <1>1, <1>2 DEF IsOwnRow
<1>4. PICK options : options = IF Has(w, "options")
                               THEN FromJson(Ref("ConfigSelectOptions"), At(w, "options")) ELSE {}
  OBVIOUS
<1>5. own = EncodeConfigOption(v, p) /\ FromJson(Ref(T), w) = DecodeConfigOption(w, options)
  <2>1. own = EncodeOwn(T, fields, v) /\ FromJson(Ref(T), w) = DecodeOwn(T, fields, w)
    BY <1>1, <1>2, OwnCodecs
  <2>2. EncodeOwn(T, fields, v) = EncodeConfigOption(v, p)
    BY <1>1 DEF EncodeOwn
  <2>3. DecodeOwn(T, fields, w) = DecodeConfigOption(w, options)
    BY <1>1, <1>4 DEF DecodeOwn
  <2> QED
    BY <2>1, <2>2, <2>3
<1>6. PICK y : y = IF IsBoolean(v) THEN JBool(v.currentBool) ELSE JStr(v.currentValue)
  OBVIOUS
<1>7. PICK S : S = {<<"id", JStr(v.id)>>, <<"name", JStr(v.name)>>, <<"type", JStr(v.type)>>,
                    <<"currentValue", y>>}
                   \cup When(v.description # Nothing, "description", JStr(The(v.description)))
                   \cup When(v.category # Nothing, "category", JStr(The(v.category)))
                   \cup When(~IsBoolean(v), "options", p)
                   \cup When(v._meta # EmptyObj, "_meta", v._meta)
  OBVIOUS
<1>8. own = ObjOf(S)
  BY <1>5, <1>6, <1>7 DEF EncodeConfigOption
<1>9. \A m, n \in S : m[1] = n[1] => m = n
  BY <1>7 DEF When
<1>10. /\ <<"id", JStr(v.id)>> \in S /\ <<"name", JStr(v.name)>> \in S
       /\ <<"type", JStr(v.type)>> \in S /\ <<"currentValue", y>> \in S
  BY <1>7
<1>11. /\ At(own, "id") = JStr(v.id) /\ At(own, "name") = JStr(v.name)
       /\ At(own, "currentValue") = y
       /\ Has(own, "type") /\ At(own, "type") = JStr(v.type)
  BY <1>8, <1>9, <1>10, ObjOfMember
<1>12. IsBoolean(v) => ~Has(w, "options")
  <2>1. SUFFICES ASSUME IsBoolean(v) PROVE ~Has(w, "options")
    OBVIOUS
  <2>2. \A m \in S : m[1] # "options"
    BY <1>7, <2>1 DEF When
  <2>3. ~Has(own, "options")
    BY <1>8, <2>2, ObjOfAbsent
  <2> QED
    BY <2>3 DEF SameAt
<1>13. PICK a, t : a = StringOr(w, "type", "select") /\ t = The(a)
  OBVIOUS
<1>14. t = IF Has(w, "type") THEN v.type ELSE "select"
  <2>1. \A s : The(Just(s)) = s
    BY DEF The, Just
  <2>2. CASE Has(w, "type")
    <3>1. At(w, "type") = JStr(v.type)
      BY <1>11, <2>2 DEF SameAt
    <3>2. At(w, "type")[1] = "str" /\ At(w, "type")[2] = v.type
      BY <3>1 DEF JStr
    <3>3. a = Just(v.type)
      BY <1>13, <2>2, <3>2 DEF StringOr, Holds
    <3> QED
      BY <1>13, <2>1, <2>2, <3>3
  <2>3. CASE ~Has(w, "type")
    <3>1. a = Just("select")
      BY <1>13, <2>3 DEF StringOr
    <3> QED
      BY <1>13, <2>1, <2>3, <3>1
  <2> QED
    BY <2>2, <2>3
<1>15. t = "boolean" <=> Has(w, "type") /\ IsBoolean(v)
  BY <1>14 DEF IsBoolean
<1>16. SUFFICES ASSUME DecodeConfigOption(w, options) # {} PROVE FALSE
  BY <1>1, <1>5
<1>17. /\ Holds(w, "id", "str") /\ Holds(w, "name", "str")
       /\ t = "boolean" => Holds(w, "currentValue", "bool")
       /\ t # "boolean" => Holds(w, "currentValue", "str")
  BY <1>13, <1>16, ConfigOptionDecoded
<1>18. t # "boolean" => options # {}
  <2>1. SUFFICES ASSUME t # "boolean", options = {}
                 PROVE  DecodeConfigOption(w, options) = {}
    BY <1>16
  <2> QED
    BY <1>13, <2>1 DEF DecodeConfigOption
<1>19. t # "boolean" => Has(w, "options")
  BY <1>4, <1>18
<1>20. t = "boolean" <=> IsBoolean(v)
  BY <1>15, <1>19, <1>12
<1>21. Short(fields, own, w)
  BY <1>1, <1>15, <1>19, <1>20
<1>22. PICK i \in How(fields, "required") :
           \/ ~Has(w, fields[i].key)
           \/ At(w, fields[i].key) = Misshapen(At(own, fields[i].key))
  BY <1>21 DEF Short
<1>23. PICK k : k = fields[i].key
  OBVIOUS
<1>24. k \in {"id", "name", "currentValue"}
  BY <1>3, <1>23 DEF Keys
<1>25. CASE k \in {"id", "name"}
  <2>1. Holds(w, k, "str") /\ At(own, k)[1] = "str"
    BY <1>11, <1>17, <1>25 DEF JStr
  <2>2. Has(w, k) /\ At(w, k)[1] = "str"
    BY <2>1 DEF Holds
  <2> QED
    BY <1>22, <1>23, <2>1, <2>2, MisshapenIsPlain
<1>26. CASE k = "currentValue"
  <2>1. y[1] = IF IsBoolean(v) THEN "bool" ELSE "str"
    BY <1>6 DEF JBool, JStr
  <2>2. Has(w, k) /\ At(w, k)[1] = y[1]
    BY <1>17, <1>20, <1>26, <2>1 DEF Holds
  <2>3. At(w, k) = Misshapen(y)
    BY <1>11, <1>22, <1>23, <1>26, <2>2
  <2> QED
    BY <2>1, <2>2, <2>3, MisshapenIsPlain
<1> QED
  BY <1>24, <1>25, <1>26

LEMMA TypeDemands ==
    ASSUME Codecs, NEW T \in DOMAIN Schema, ~IsSum(T), T # "ConfigOption",
           NEW v, IsValue(Ref(T), Canonical(T, v)), NEW w,
           Short(StructFields(Schema[T]), ToJson(Ref(T), v), w)
    PROVE  FromJson(Ref(T), w) = {}
<1>1. PICK fields : fields = StructFields(Schema[T])
  OBVIOUS
<1>2. T # "AuthMethod" => Canonical(T, v) = NoNull(fields, v)
  <2>1. T # "ConfigSelectOptions"
    BY SelectOptionsRow DEF IsSum
  <2> QED
    BY <1>1, <2>1 DEF Canonical
<1>3. CASE T \in HandStructs \ {"PO_Cancelled"}
  <2>1. /\ Schema[T][1] = "own" /\ IsOwnRow(T, fields) /\ fields = Schema[T][2]
        /\ NoNull(fields, v) = v
    BY <1>1, <1>3, OwnRow
  <2>2. CASE T = "AuthMethod"
    BY <1>1, <2>1, <2>2, AuthMethodDemands
  <2>3. CASE T = "ClientCapabilities"
    BY <1>1, <1>2, <2>1, <2>3, ClientCapabilitiesDemand
  <2>4. CASE T = "ClientSessionCapabilities"
    <3>1. \A i \in DOMAIN fields : fields[i].how \in {"member", "meta"}
      BY <2>1, <2>4 DEF IsOwnRow
    <3>2. ~Short(fields, ToJson(Ref(T), v), w)
      BY <3>1 DEF Short, How
    <3> QED
      BY <1>1, <3>2
  <2> QED
    BY <1>3, <2>2, <2>3, <2>4 DEF HandStructs
<1>4. CASE T \notin HandStructs \ {"PO_Cancelled"}
  <2>1. IsValue(Ref(T), NoNull(fields, v))
    BY <1>2, <1>4 DEF HandStructs
  <2> QED
    BY <1>1, <1>4, <2>1, StructDemands
<1> QED
  BY <1>3, <1>4
-----------------------------------------------------------------------------
(***************************************************************************)
(* The relay.  The inductive invariant says what the wire form is until it *)
(* is decoded: that of `value`, but for the keys the peer changed, each of *)
(* which it could change so and changed once.                              *)
(***************************************************************************)
OwnForm == ToJson(Ref(type), value)

EditedKeys == {e[2] : e \in edits}

IsEdit(op, k) ==
    \/ op = "add" /\ k = Unheard
    \/ op = "meta" /\ k = "_meta"
    \/ op = "drop" /\ k \in RequiredKeys \cup KeysThat("optional") \cup KeysThat("defaulted")
    \/ op = "null" /\ k \in KeysThat("optional")
    \/ op = "break" /\ k \in BreakableKeys

Shows(w, op, k) ==
    /\ op = "meta"  => Has(w, k) /\ At(w, k) = Vendor
    /\ op = "drop"  => ~Has(w, k) /\ Has(OwnForm, k)
    /\ op = "null"  => Has(w, k) /\ At(w, k) = JNull
    /\ op = "break" => Has(w, k) /\ Has(OwnForm, k) /\ At(w, k) = Wrong(OwnForm, k)

SameBut(j, w, K) ==
    \A k \in (DOMAIN j[2] \cup DOMAIN w[2]) \ K :
        /\ k \in DOMAIN j[2] /\ k \in DOMAIN w[2]
        /\ At(w, k) = At(j, k)

IsEdited(w) ==
    IF edits = {} THEN w = OwnForm
    ELSE /\ IsObj(w) /\ IsObj(OwnForm)
         /\ SameBut(OwnForm, w, EditedKeys)
         /\ \A e \in edits : Shows(w, e[1], e[2])

EditsInv ==
    /\ \A e \in edits : e = <<e[1], e[2]>> /\ IsEdit(e[1], e[2])
    /\ \A d, e \in edits : d[2] = e[2] => d = e

GotInv ==
    /\ phase = "wire" => IsEdited(wire)
    /\ phase \in {"got", "refused"} =>
           /\ IsEdited(wire)
           /\ got = FromJson(Ref(type), wire)
           /\ phase = "refused" <=> got = {}
    /\ phase = "forwarded" =>
           /\ got # {} /\ wire = ToJson(Ref(type), The(got))
           /\ \E w : IsEdited(w) /\ got = FromJson(Ref(type), w)

RelayInv ==
    /\ phase \in {"idle", "wire", "got", "refused", "forwarded"}
    /\ phase = "idle" => edits = {}
    /\ phase # "idle" =>
           /\ type \in DOMAIN Samples /\ value \in Samples[type]
           /\ members = MembersOf(type, value)
           /\ EditsInv
           /\ GotInv

LEMMA WithChanges ==
    ASSUME NEW j, IsObj(j), NEW k, NEW x
    PROVE  /\ IsObj(With(j, k, x))
           /\ Has(With(j, k, x), k) /\ At(With(j, k, x), k) = x
           /\ \A i : i # k => /\ i \in DOMAIN With(j, k, x)[2] <=> i \in DOMAIN j[2]
                              /\ i \in DOMAIN j[2] => At(With(j, k, x), i) = At(j, i)
<1>1. PICK w : w = With(j, k, x)
  OBVIOUS
<1>2. w[1] = "obj" /\ w[2] = Put(j[2], k, x)
  BY <1>1 DEF With, JObj
<1>3. /\ DOMAIN w[2] = DOMAIN j[2] \cup {k}
      /\ \A i \in DOMAIN w[2] : w[2][i] = IF i = k THEN x ELSE j[2][i]
  BY <1>2 DEF Put
<1>4. IsObj(w) /\ Has(w, k) /\ At(w, k) = x
  BY <1>2, <1>3 DEF IsObj, Has, At
<1>5. \A i : i # k => /\ i \in DOMAIN w[2] <=> i \in DOMAIN j[2]
                      /\ i \in DOMAIN j[2] => At(w, i) = At(j, i)
  BY <1>3 DEF At
<1> QED
  BY <1>1, <1>4, <1>5

LEMMA WithoutChanges ==
    ASSUME NEW j, IsObj(j), NEW k
    PROVE  /\ IsObj(Without(j, k))
           /\ ~Has(Without(j, k), k)
           /\ \A i : i # k => /\ i \in DOMAIN Without(j, k)[2] <=> i \in DOMAIN j[2]
                              /\ i \in DOMAIN j[2] => At(Without(j, k), i) = At(j, i)
<1>1. PICK w : w = Without(j, k)
  OBVIOUS
<1>2. w[1] = "obj" /\ w[2] = [i \in DOMAIN j[2] \ {k} |-> j[2][i]]
  BY <1>1 DEF Without, JObj
<1>3. /\ DOMAIN w[2] = DOMAIN j[2] \ {k}
      /\ \A i \in DOMAIN w[2] : w[2][i] = j[2][i]
  BY <1>2
<1>4. IsObj(w) /\ ~Has(w, k)
  BY <1>2, <1>3 DEF IsObj, Has
<1>5. \A i : i # k => /\ i \in DOMAIN w[2] <=> i \in DOMAIN j[2]
                      /\ i \in DOMAIN j[2] => At(w, i) = At(j, i)
  BY <1>3 DEF At
<1> QED
  BY <1>1, <1>4, <1>5

\* The form that was changed before stays as changed where the new change is
\* not.
LEMMA EditedFurther ==
    ASSUME EditsInv, IsEdited(wire), IsObj(wire),
           NEW op, NEW k, IsEdit(op, k), \A e \in edits : e[2] # k,
           NEW w, IsObj(w),
           \A i : i # k => /\ i \in DOMAIN w[2] <=> i \in DOMAIN wire[2]
                           /\ i \in DOMAIN wire[2] => At(w, i) = At(wire, i),
           Shows(w, op, k),
           edits' = edits \cup {<<op, k>>},
           UNCHANGED <<type, value, members>>
    PROVE  EditsInv' /\ IsEdited(w)'
<1>1. PICK own : own = OwnForm
  OBVIOUS
<1>2. OwnForm' = own
  BY <1>1 DEF OwnForm
<1>3. \A o, i : IsEdit(o, i)' <=> IsEdit(o, i)
  BY DEF IsEdit, RequiredKeys, KeysThat, ToggleKeys, BreakableKeys, RawKeys
<1>4. \A i, o, m : Shows(i, o, m)' <=> Shows(i, o, m)
  BY <1>1, <1>2 DEF Shows, Wrong, KeysThat
<1>5. PICK new : new = <<op, k>>
  OBVIOUS
<1>6. new[1] = op /\ new[2] = k /\ edits' = edits \cup {new}
  BY <1>5
<1>7. EditsInv'
  <2>1. \A e \in edits' : e = <<e[1], e[2]>> /\ IsEdit(e[1], e[2])
    BY <1>5, <1>6 DEF EditsInv
  <2>2. \A e \in edits' : (e = <<e[1], e[2]>> /\ IsEdit(e[1], e[2]))'
    BY <1>3, <2>1
  <2>3. \A d, e \in edits' : d[2] = e[2] => d = e
    BY <1>6 DEF EditsInv
  <2> QED
    BY <2>2, <2>3 DEF EditsInv
<1>8. PICK K : K = EditedKeys
  OBVIOUS
<1>9. EditedKeys' = K \cup {k}
  BY <1>6, <1>8 DEF EditedKeys
<1>10. IsObj(own) /\ SameBut(own, wire, K) /\ \A e \in edits : Shows(wire, e[1], e[2])
  <2>1. CASE edits = {}
    <3>1. wire = own /\ K = {}
      BY <1>1, <1>8, <2>1 DEF IsEdited, EditedKeys
    <3> QED
      BY <2>1, <3>1 DEF SameBut
  <2>2. CASE edits # {}
    BY <1>1, <1>8, <2>2 DEF IsEdited
  <2> QED
    BY <2>1, <2>2
<1>11. SameBut(own, w, K \cup {k})
  <2>1. ASSUME NEW i \in (DOMAIN own[2] \cup DOMAIN w[2]) \ (K \cup {k})
        PROVE  i \in DOMAIN own[2] /\ i \in DOMAIN w[2] /\ At(w, i) = At(own, i)
    <3>1. i # k /\ i \in (DOMAIN own[2] \cup DOMAIN wire[2]) \ K
      OBVIOUS
    <3>2. i \in DOMAIN own[2] /\ i \in DOMAIN wire[2] /\ At(wire, i) = At(own, i)
      BY <1>10, <3>1 DEF SameBut
    <3> QED
      BY <3>1, <3>2
  <2> QED
    BY <2>1 DEF SameBut
<1>12. ASSUME NEW e \in edits'
       PROVE  Shows(w, e[1], e[2])
  <2>1. CASE e = new
    BY <1>6, <2>1
  <2>2. CASE e \in edits
    <3>1. PICK o, i : o = e[1] /\ i = e[2]
      OBVIOUS
    <3>2. i # k /\ Shows(wire, o, i)
      BY <1>10, <2>2, <3>1
    <3>3. /\ Has(w, i) <=> Has(wire, i)
          /\ Has(wire, i) => At(w, i) = At(wire, i)
      BY <3>2 DEF Has
    <3>4. Shows(w, o, i)
      BY <3>2, <3>3 DEF Shows
    <3> QED
      BY <3>1, <3>4
  <2> QED
    BY <1>6, <2>1, <2>2
<1>13. edits' # {}
  BY <1>6
<1>14. IsEdited(w)'
  <2>1. SameBut(own, w, EditedKeys')
    BY <1>9, <1>11
  <2>2. \A e \in edits' : Shows(w, e[1], e[2])'
    BY <1>4, <1>12
  <2> QED
    BY <1>2, <1>10, <1>13, <2>1, <2>2 DEF IsEdited, SameBut
<1> QED
  BY <1>7, <1>14

\* The value that is sent, and any other, is written as an object that the peer
\* may have changed.
LEMMA EditKeepsInv ==
    ASSUME RelayInv, NEW op, NEW k, IsEdit(op, k), NEW w, Edit(op, k, w), IsObj(w),
           \A i : i # k => /\ i \in DOMAIN w[2] <=> i \in DOMAIN wire[2]
                           /\ i \in DOMAIN wire[2] => At(w, i) = At(wire, i),
           Shows(w, op, k)
    PROVE  RelayInv'
<1>1. /\ phase = "wire" /\ IsObj(wire) /\ \A e \in edits : e[2] # k
      /\ edits' = edits \cup {<<op, k>>} /\ wire' = w
      /\ UNCHANGED <<phase, type, value, members, got>>
  BY DEF Edit
<1>2. /\ type \in DOMAIN Samples /\ value \in Samples[type] /\ members = MembersOf(type, value)
      /\ EditsInv /\ IsEdited(wire)
  BY <1>1 DEF RelayInv, GotInv
<1>3. UNCHANGED <<type, value, members>>
  BY <1>1
<1>4. EditsInv' /\ IsEdited(w)'
  BY <1>1, <1>2, <1>3, EditedFurther
<1>5. IsEdited(wire)'
  BY <1>1, <1>4 DEF IsEdited, SameBut, Shows
<1>6. GotInv'
  BY <1>1, <1>5 DEF GotInv
<1>7. /\ (type \in DOMAIN Samples /\ value \in Samples[type])'
      /\ (members = MembersOf(type, value))'
  BY <1>1, <1>2 DEF MembersOf
<1> QED
  BY <1>1, <1>4, <1>6, <1>7 DEF RelayInv

\* Before the first change of a member, it is what it was written as.
LEMMA Unchanged ==
    ASSUME IsEdited(wire), IsObj(wire), NEW k, Has(wire, k), \A e \in edits : e[2] # k
    PROVE  Has(OwnForm, k) /\ At(wire, k) = At(OwnForm, k)
<1>1. CASE edits = {}
  BY <1>1 DEF IsEdited
<1>2. CASE edits # {}
  <2>1. IsObj(OwnForm) /\ SameBut(OwnForm, wire, EditedKeys)
    BY <1>2 DEF IsEdited
  <2>2. k \in DOMAIN wire[2] /\ k \notin EditedKeys
    BY DEF Has, EditedKeys
  <2> QED
    BY <2>1, <2>2 DEF SameBut, Has
<1> QED
  BY <1>1, <1>2

LEMMA RelayInvInductive ==
    /\ RelayInit => RelayInv
    /\ RelayInv /\ [RelayNext]_relayVars => RelayInv'
<1>1. RelayInit => RelayInv
  BY DEF RelayInit, RelayInv
<1>2. ASSUME RelayInv, [RelayNext]_relayVars
      PROVE  RelayInv'
  <2>1. CASE UNCHANGED relayVars
    <3>1. /\ UNCHANGED <<phase, type, value, members, wire, edits, got>>
      BY <2>1 DEF relayVars
    <3>2. OwnForm' = OwnForm
      BY <3>1 DEF OwnForm
    <3>3. \A w : IsEdited(w)' <=> IsEdited(w)
      BY <3>1, <3>2 DEF IsEdited, EditedKeys, Shows, Wrong, KeysThat, SameBut
    <3>4. EditsInv' <=> EditsInv
      BY <3>1 DEF EditsInv, IsEdit, RequiredKeys, KeysThat, ToggleKeys, BreakableKeys, RawKeys
    <3>5. IsEdited(wire)' <=> IsEdited(wire)
      BY <3>1, <3>2 DEF IsEdited, EditedKeys, Shows, Wrong, KeysThat, SameBut
    <3>6. GotInv' <=> GotInv
      BY <3>1, <3>3, <3>5 DEF GotInv
    <3>7. (members = MembersOf(type, value))' <=> members = MembersOf(type, value)
      BY <3>1 DEF MembersOf
    <3> QED
      BY <1>2, <3>1, <3>4, <3>6, <3>7 DEF RelayInv
  <2>2. CASE phase = "idle" /\ \E T \in DOMAIN Samples : \E v \in Samples[T] : Send(T, v)
    <3>0. PICK T \in DOMAIN Samples : \E v \in Samples[T] : Send(T, v)
      BY <2>2
    <3>1. PICK v \in Samples[T] : Send(T, v)
      BY <3>0
    <3>2. /\ phase' = "wire" /\ type' = T /\ value' = v /\ members' = MembersOf(T, v)
          /\ wire' = ToJson(Ref(T), v) /\ edits' = {}
      BY <1>2, <2>2, <3>1 DEF Send, RelayInv
    <3>3. IsEdited(wire)'
      BY <3>2 DEF IsEdited, OwnForm
    <3>4. EditsInv'
      BY <3>2 DEF EditsInv
    <3>5. (members = MembersOf(type, value))'
      BY <3>2 DEF MembersOf
    <3> QED
      BY <3>2, <3>3, <3>4, <3>5 DEF RelayInv, GotInv
  <2>3. CASE AddUnknown
    <3>1. PICK w : w = With(wire, Unheard, JStr("x"))
      OBVIOUS
    <3>2. Edit("add", Unheard, w) /\ IsObj(wire)
      BY <2>3, <3>1 DEF AddUnknown, Edit
    <3>3. IsEdit("add", Unheard) /\ Shows(w, "add", Unheard)
      BY DEF IsEdit, Shows
    <3> QED
      BY <1>2, <3>1, <3>2, <3>3, WithChanges, EditKeepsInv
  <2>4. CASE AddMeta
    <3>1. PICK w : w = With(wire, "_meta", Vendor)
      OBVIOUS
    <3>2. Edit("meta", "_meta", w) /\ IsObj(wire)
      BY <2>4, <3>1 DEF AddMeta, Edit
    <3>3. IsEdit("meta", "_meta") /\ Shows(w, "meta", "_meta")
      BY <3>1, <3>2, WithChanges DEF IsEdit, Shows
    <3> QED
      BY <1>2, <3>1, <3>2, <3>3, WithChanges, EditKeepsInv
  <2>5. ASSUME NEW k \in RequiredKeys \cup KeysThat("optional") \cup KeysThat("defaulted"), Drop(k)
        PROVE  RelayInv'
    <3>1. PICK w : w = Without(wire, k)
      OBVIOUS
    <3>2. Edit("drop", k, w) /\ IsObj(wire) /\ Has(wire, k)
      BY <2>5, <3>1 DEF Drop, Edit
    <3>3. IsEdited(wire) /\ \A e \in edits : e[2] # k
      BY <1>2, <3>2 DEF Edit, RelayInv, GotInv
    <3>4. Has(OwnForm, k)
      BY <3>2, <3>3, Unchanged
    <3>5. IsEdit("drop", k) /\ Shows(w, "drop", k)
      BY <2>5, <3>1, <3>2, <3>4, WithoutChanges DEF IsEdit, Shows
    <3> QED
      BY <1>2, <3>1, <3>2, <3>5, WithoutChanges, EditKeepsInv
  <2>6. ASSUME NEW k \in KeysThat("optional"), Null(k)
        PROVE  RelayInv'
    <3>1. PICK w : w = With(wire, k, JNull)
      OBVIOUS
    <3>2. Edit("null", k, w) /\ IsObj(wire)
      BY <2>6, <3>1 DEF Null, Edit
    <3>3. IsEdit("null", k) /\ Shows(w, "null", k)
      BY <2>6, <3>1, <3>2, WithChanges DEF IsEdit, Shows
    <3> QED
      BY <1>2, <3>1, <3>2, <3>3, WithChanges, EditKeepsInv
  <2>7. ASSUME NEW k \in BreakableKeys, Break(k)
        PROVE  RelayInv'
    <3>1. PICK w : w = With(wire, k, Wrong(wire, k))
      OBVIOUS
    <3>2. Edit("break", k, w) /\ IsObj(wire) /\ Has(wire, k)
      BY <2>7, <3>1 DEF Break, Edit
    <3>3. IsEdited(wire) /\ \A e \in edits : e[2] # k
      BY <1>2, <3>2 DEF Edit, RelayInv, GotInv
    <3>4. Has(OwnForm, k) /\ At(wire, k) = At(OwnForm, k)
      BY <3>2, <3>3, Unchanged
    <3>5. Wrong(wire, k) = Wrong(OwnForm, k)
      BY <3>4 DEF Wrong
    <3>6. IsEdit("break", k) /\ Shows(w, "break", k)
      BY <2>7, <3>1, <3>2, <3>4, <3>5, WithChanges DEF IsEdit, Shows
    <3> QED
      BY <1>2, <3>1, <3>2, <3>6, WithChanges, EditKeepsInv
  <2>8. ASSUME Receive \/ Forward
        PROVE  RelayInv'
    <3>1. UNCHANGED <<type, value, members, edits>> /\ phase # "idle"
      BY <2>8 DEF Receive, Forward
    <3>2. OwnForm' = OwnForm
      BY <3>1 DEF OwnForm
    <3>3. \A w : IsEdited(w)' <=> IsEdited(w)
      BY <3>1, <3>2 DEF IsEdited, EditedKeys, Shows, Wrong, KeysThat, SameBut
    <3>4. EditsInv'
      BY <1>2, <3>1 DEF RelayInv, EditsInv, IsEdit, RequiredKeys, KeysThat, ToggleKeys,
                        BreakableKeys, RawKeys
    <3>5. (members = MembersOf(type, value))'
      BY <1>2, <3>1 DEF RelayInv, MembersOf
    <3>6. GotInv' /\ phase' \in {"got", "refused", "forwarded"}
      <4>1. CASE Receive
        <5>1. /\ phase = "wire" /\ got' = FromJson(Ref(type), wire) /\ wire' = wire
              /\ phase' = IF got' = {} THEN "refused" ELSE "got"
          BY <4>1 DEF Receive
        <5>2. IsEdited(wire)
          BY <1>2, <5>1 DEF RelayInv, GotInv
        <5>3. IsEdited(wire)'
          BY <3>1, <3>2, <5>1, <5>2 DEF IsEdited, EditedKeys, Shows, Wrong, KeysThat, SameBut
        <5> QED
          BY <3>1, <5>1, <5>3 DEF GotInv
      <4>2. CASE Forward
        <5>1. /\ phase = "got" /\ phase' = "forwarded" /\ got' = got
              /\ wire' = ToJson(Ref(type), The(got))
          BY <4>2 DEF Forward
        <5>2. IsEdited(wire) /\ got = FromJson(Ref(type), wire) /\ got # {}
          BY <1>2, <5>1 DEF RelayInv, GotInv
        <5>3. \E w : IsEdited(w)' /\ got = FromJson(Ref(type), w)
          BY <3>3, <5>2
        <5> QED
          BY <3>1, <5>1, <5>2, <5>3 DEF GotInv
      <4> QED
        BY <2>8, <4>1, <4>2
    <3> QED
      BY <1>2, <3>1, <3>4, <3>5, <3>6 DEF RelayInv
  <2> QED
    BY <1>2, <2>1, <2>2, <2>3, <2>4, <2>5, <2>6, <2>7, <2>8 DEF RelayNext
<1> QED
  BY <1>1, <1>2

\* What is decoded from the library's own wire form is the value that was
\* encoded, as far as the form can say it (README.md:192-196).
THEOREM RelayRoundTrip ==
    ASSUME Codecs
    PROVE  RelaySpec => []RoundTrip
<1>1. RelayInv => RoundTrip
  <2>1. SUFFICES ASSUME RelayInv, phase \in {"got", "refused"}, edits = {}
                 PROVE  got = {Canonical(type, value)}
    BY DEF RoundTrip, Decoded
  <2>2. /\ type \in DOMAIN Samples /\ value \in Samples[type]
        /\ IsEdited(wire) /\ got = FromJson(Ref(type), wire)
    BY <2>1 DEF RelayInv, GotInv
  <2>3. wire = ToJson(Ref(type), value)
    BY <2>1, <2>2 DEF IsEdited, OwnForm
  <2>4. type \in DOMAIN Schema /\ IsValue(Ref(type), Canonical(type, value))
    BY <2>2, RelayAssumption
  <2> QED
    BY <2>2, <2>3, <2>4, CanonicalReads
<1> QED
  BY <1>1, RelayInvInductive, PTL DEF RelaySpec

-----------------------------------------------------------------------------
(***************************************************************************)
(* What the peer left out or wrote as null is left out of what is decoded. *)
(***************************************************************************)
LEMMA StructFieldsRow ==
    ASSUME NEW A \in DOMAIN Schema
    PROVE  /\ IsFields(StructFields(Schema[A]), RecordHows \cup {"member"})
           /\ Unheard \notin KeysOfFields(StructFields(Schema[A]))
<1>1. PICK body, fields : body = Schema[A] /\ fields = StructFields(body)
  OBVIOUS
<1>2. IsRow(A, body)
  BY <1>1, SchemaAssumption
<1>3. ASSUME fields = << >>
      PROVE  IsFields(fields, RecordHows \cup {"member"}) /\ Unheard \notin KeysOfFields(fields)
  BY <1>3 DEF IsFields, KeysOfFields
<1>4. ASSUME NEW U, IsRecord(U), fields = Schema[U][2]
      PROVE  IsFields(fields, RecordHows \cup {"member"}) /\ Unheard \notin KeysOfFields(fields)
  <2>1. U \in DOMAIN Schema /\ Schema[U][1] = "record" /\ IsFields(fields, RecordHows)
    BY <1>4 DEF IsRecord
  <2>2. Unheard \notin KnownKeys(Schema[U])
    BY <2>1, RelayAssumption
  <2>3. Unheard \notin KeysOfFields(fields)
    BY <1>4, <2>1, <2>2 DEF KnownKeys
  <2>4. IsFields(fields, RecordHows \cup {"member"})
    BY <2>1 DEF IsFields, IsFieldRow
  <2> QED
    BY <2>3, <2>4
<1>5. CASE A \in HandStructs
  <2>1. body[1] = "own" /\ IsOwnRow(A, body[2])
    BY <1>2, <1>5 DEF IsRow
  <2>2. fields = body[2]
    BY <1>1, <2>1 DEF StructFields
  <2>3. Unheard \notin KnownKeys(body)
    BY <1>1, RelayAssumption
  <2> QED
    BY <1>1, <2>1, <2>2, <2>3 DEF KnownKeys, IsOwnRow
<1>6. CASE A \in HandSums
  <2>1. body[1] = "choice"
    BY <1>2, <1>6 DEF IsRow
  <2>2. fields = << >>
    BY <1>1, <2>1 DEF StructFields
  <2> QED
    BY <1>1, <1>3, <2>2
<1>7. CASE A \notin HandSums \cup HandStructs
  <2>1. \/ IsRecord(A)
        \/ body[1] = "tagged"
        \/ body[1] = "alias" /\ IsAlias(body)
        \/ body[1] = "enum"
    BY <1>2, <1>7 DEF IsRow
  <2>2. CASE IsRecord(A)
    <3>1. fields = Schema[A][2]
      BY <1>1, <2>2 DEF IsRecord, StructFields
    <3> QED
      BY <1>1, <1>4, <2>2, <3>1
  <2>3. CASE body[1] \in {"tagged", "enum"}
    <3>1. fields = << >>
      BY <1>1, <2>3 DEF StructFields
    <3> QED
      BY <1>1, <1>3, <3>1
  <2>4. CASE body[1] = "alias" /\ IsAlias(body)
    <3>1. CASE body[2][1] = "list"
      <4>1. fields = << >>
        BY <1>1, <2>4, <3>1 DEF StructFields
      <4> QED
        BY <1>1, <1>3, <4>1
    <3>2. CASE \E U \in DOMAIN Schema : body[2] = Ref(U) /\ IsRecord(U)
      <4>1. PICK U \in DOMAIN Schema : body[2] = Ref(U) /\ IsRecord(U)
        BY <3>2
      <4>2. body[2][1] = "ref" /\ body[2][2] = U /\ Schema[U][1] = "record"
        BY <4>1 DEF Ref, IsRecord
      <4>3. fields = Schema[U][2]
        BY <1>1, <2>4, <4>2 DEF StructFields
      <4> QED
        BY <1>1, <1>4, <4>1, <4>3
    <3> QED
      BY <2>4, <3>1, <3>2 DEF IsAlias
  <2> QED
    BY <2>1, <2>2, <2>3, <2>4
<1> QED
  BY <1>5, <1>6, <1>7

\* The canonical form of a sum is an arm of it, the one that the value is of.
LEMMA SumIsArm ==
    ASSUME Codecs, NEW T \in DOMAIN Schema, IsSum(T),
           NEW v, NEW c, c = Canonical(T, v), IsValue(Ref(T), c)
    PROVE  c = <<c[1], c[2]>> /\ v[1] \in DOMAIN Schema
<1>1. PICK body : body = Schema[T]
  OBVIOUS
<1>2. IsRow(T, body) /\ body[1] \in {"tagged", "choice"}
  <2>1. IsRow(T, body)
    BY <1>1, SchemaAssumption
  <2> QED
    BY <1>1, <2>1 DEF IsSum
<1>3. T \notin HandStructs
  BY <1>2 DEF IsRow
<1>4. c = <<c[1], c[2]>> /\ IsValue(Ref(c[1]), c[2]) /\ Ref(c[1]) \in Types
  <2>1. CASE body[1] = "tagged"
    <3>1. IsArm({body[3][i].type : i \in DOMAIN body[3]}, c)
      <4>1. IsNamed(T, body, c)
        BY <1>1, NamedCodecs
      <4> QED
        BY <2>1, <4>1 DEF IsNamed
    <3>2. \E i \in DOMAIN body[3] : c[1] = body[3][i].type
      BY <3>1 DEF IsArm
    <3>3. Ref(c[1]) \in Types
      BY <1>1, <2>1, <3>2, ArmIsType
    <3> QED
      BY <3>1, <3>3 DEF IsArm
  <2>2. CASE body[1] = "choice"
    <3>1. IsArm({body[2][i] : i \in DOMAIN body[2]}, c)
      <4>1. IsNamed(T, body, c)
        BY <1>1, NamedCodecs
      <4> QED
        BY <2>2, <4>1 DEF IsNamed
    <3>2. \E i \in DOMAIN body[2] : c[1] = body[2][i]
      BY <3>1 DEF IsArm
    <3>3. Ref(c[1]) \in Types
      BY <1>1, <2>2, <3>2, ArmIsType
    <3> QED
      BY <3>1, <3>3 DEF IsArm
  <2> QED
    BY <1>2, <2>1, <2>2
<1>5. c[1] \in DOMAIN Schema
  <2>1. PICK t : t = Ref(c[1])
    OBVIOUS
  <2>2. t[1] = "ref" /\ t[2] = c[1] /\ t \in Types /\ IsValue(t, c[2])
    BY <1>4, <2>1 DEF Ref
  <2>3. HasType(t, c[2])
    BY <2>2 DEF Codecs
  <2> QED
    BY <2>2, <2>3 DEF HasType
<1>6. CASE T = "ConfigSelectOptions"
  <2>1. c = NoneUngrouped(v)
    BY <1>6 DEF Canonical
  <2>2. CASE v = <<"CSO_Grouped", << >>>>
    <3>1. v[1] = "CSO_Grouped"
      BY <2>2
    <3> QED
      BY <1>4, <1>6, <3>1, SelectOptionsRow
  <2>3. CASE v # <<"CSO_Grouped", << >>>>
    <3>1. c = v
      BY <2>1, <2>3 DEF NoneUngrouped
    <3> QED
      BY <1>4, <1>5, <3>1
  <2> QED
    BY <2>2, <2>3
<1>7. CASE T # "ConfigSelectOptions"
  <2>1. c = <<v[1], NoNull(StructFields(Schema[v[1]]), v[2])>>
    BY <1>3, <1>7 DEF Canonical, HandStructs
  <2>2. c[1] = v[1]
    BY <2>1
  <2> QED
    BY <1>4, <1>5, <2>2
<1> QED
  BY <1>6, <1>7

LEMMA FieldsOfRow ==
    ASSUME Codecs, NEW T \in DOMAIN Schema, NEW v, IsValue(Ref(T), Canonical(T, v))
    PROVE  /\ IsFields(FieldsOf(T, v), RecordHows \cup {"member"})
           /\ Unheard \notin KeysOfFields(FieldsOf(T, v))
<1>1. PICK A : A = IF IsSum(T) THEN v[1] ELSE T
  OBVIOUS
<1>2. A \in DOMAIN Schema
  BY <1>1, SumIsArm
<1> QED
  BY <1>1, <1>2, StructFieldsRow DEF FieldsOf

\* What RelayInv says of a value that was decoded.
LEMMA DecodedState ==
    ASSUME RelayInv, Decoded
    PROVE  /\ type \in DOMAIN Schema /\ IsValue(Ref(type), Canonical(type, value))
           /\ members = MembersOf(type, value)
           /\ EditsInv /\ IsEdited(wire) /\ got = FromJson(Ref(type), wire)
           /\ phase = "refused" <=> got = {}
<1>1. /\ type \in DOMAIN Samples /\ value \in Samples[type]
      /\ members = MembersOf(type, value)
      /\ EditsInv /\ IsEdited(wire) /\ got = FromJson(Ref(type), wire)
      /\ phase = "refused" <=> got = {}
  BY DEF RelayInv, GotInv, Decoded
<1> QED
  BY <1>1, RelayAssumption

\* The members of the object that was written, but for the tag.
LEMMA MembersAreFields ==
    ASSUME Codecs, RelayInv, Decoded
    PROVE  \A m \in members :
               \/ \E i \in DOMAIN FieldsOf(type, value) : m = FieldsOf(type, value)[i]
               \/ m.how = "tag" /\ m.key \in RequiredKeys
<1>1. members = MembersOf(type, value)
  BY DecodedState
<1>2. ASSUME NEW m \in members
      PROVE  \/ \E i \in DOMAIN FieldsOf(type, value) : m = FieldsOf(type, value)[i]
             \/ m.how = "tag" /\ m.key \in RequiredKeys
  <2>1. \/ \E i \in DOMAIN FieldsOf(type, value) : m = FieldsOf(type, value)[i]
        \/ m = Field("tag", Schema[type][2], Str, Nothing)
    BY <1>1, <1>2 DEF MembersOf, FieldsOf
  <2>2. m = Field("tag", Schema[type][2], Str, Nothing) => m.how = "tag"
    BY DEF Field
  <2>3. m.how = "tag" => m.key \in RequiredKeys
    BY <1>2 DEF RequiredKeys, KeysThat
  <2> QED
    BY <2>1, <2>2, <2>3
<1> QED
  BY <1>2

\* Each member that may be left out and is, is one of the fields.
LEMMA LeftOutFields ==
    ASSUME Codecs, RelayInv, Decoded, edits # {},
           {e[1] : e \in edits} \subseteq {"add", "drop", "null"},
           NEW K, K = Edited("drop") \cup Edited("null"), K \cap RequiredKeys = {},
           NEW k \in K
    PROVE  \E i \in DOMAIN FieldsOf(type, value) :
               FieldsOf(type, value)[i].key = k /\ Absent(FieldsOf(type, value)[i], wire)
<1>1. PICK fields : fields = FieldsOf(type, value)
  OBVIOUS
<1>2. EditsInv /\ \A e \in edits : Shows(wire, e[1], e[2])
  BY DecodedState DEF IsEdited
<1>3. ASSUME NEW how \in {"optional", "defaulted"}, k \in KeysThat(how)
      PROVE  \E i \in DOMAIN fields : fields[i].key = k /\ fields[i].how = how
  <2>1. PICK m \in members : m.key = k /\ m.how = how
    BY <1>3 DEF KeysThat
  <2>2. \/ \E i \in DOMAIN fields : m = fields[i]
        \/ m.how = "tag"
    BY <1>1, MembersAreFields
  <2> QED
    BY <2>1, <2>2
<1>4. CASE k \in Edited("drop")
  <2>1. PICK e \in edits : e[1] = "drop" /\ e[2] = k
    BY <1>4 DEF Edited
  <2>2. IsEdit("drop", k) /\ Shows(wire, "drop", k)
    BY <1>2, <2>1 DEF EditsInv
  <2>3. k \in KeysThat("optional") \cup KeysThat("defaulted")
    BY <2>2 DEF IsEdit
  <2>4. PICK i \in DOMAIN fields : fields[i].key = k /\ fields[i].how \in {"optional", "defaulted"}
    BY <1>3, <2>3
  <2>5. ~Has(wire, k)
    BY <2>2 DEF Shows
  <2>6. Absent(fields[i], wire)
    BY <2>4, <2>5 DEF Absent
  <2> QED
    BY <1>1, <2>4, <2>6
<1>5. CASE k \in Edited("null")
  <2>1. PICK e \in edits : e[1] = "null" /\ e[2] = k
    BY <1>5 DEF Edited
  <2>2. IsEdit("null", k) /\ Shows(wire, "null", k)
    BY <1>2, <2>1 DEF EditsInv
  <2>3. k \in KeysThat("optional")
    BY <2>2 DEF IsEdit
  <2>4. PICK i \in DOMAIN fields : fields[i].key = k /\ fields[i].how = "optional"
    BY <1>3, <2>3
  <2>5. Has(wire, k) /\ At(wire, k) = JNull
    BY <2>2 DEF Shows
  <2>6. Absent(fields[i], wire)
    BY <2>4, <2>5 DEF Absent
  <2> QED
    BY <1>1, <2>4, <2>6
<1> QED
  BY <1>4, <1>5

\* What the peer leaves out is the field's Nothing or default.
LEMMA EditsAbridge ==
    ASSUME Codecs, RelayInv, Decoded, edits # {},
           {e[1] : e \in edits} \subseteq {"add", "drop", "null"},
           NEW K, K = Edited("drop") \cup Edited("null"), K \cap RequiredKeys = {}
    PROVE  \E d : /\ Abridged(type, value, wire, K, d)
                  /\ WithContent(type, Canonical(type, value), d)
                     = LeftOut(Canonical(type, value), K)
<1>1. PICK T, fields, own, c, x :
          /\ T = type /\ fields = FieldsOf(type, value) /\ own = ToJson(Ref(type), value)
          /\ c = Canonical(type, value) /\ x = ContentOf(type, c)
  OBVIOUS
<1>2. /\ T \in DOMAIN Schema /\ IsValue(Ref(T), c)
      /\ members = MembersOf(type, value) /\ EditsInv
      /\ IsObj(wire) /\ IsObj(own) /\ SameBut(own, wire, EditedKeys)
  BY <1>1, DecodedState DEF IsEdited, OwnForm
<1>3. /\ \A i, k \in DOMAIN fields : fields[i].key = fields[k].key => i = k
      /\ Unheard \notin KeysOfFields(fields)
  BY <1>1, <1>2, FieldsOfRow DEF IsFields
<1>4. ASSUME NEW k \in K
      PROVE  \E i \in DOMAIN fields : fields[i].key = k /\ Absent(fields[i], wire)
  BY <1>1, <1>4, LeftOutFields
<1>5. EditedKeys \subseteq K \cup {Unheard}
  <2>1. ASSUME NEW e \in edits
        PROVE  e[2] \in K \cup {Unheard}
    <3>1. e[1] \in {"add", "drop", "null"} /\ IsEdit(e[1], e[2])
      BY <1>2 DEF EditsInv
    <3>2. CASE e[1] = "add"
      BY <3>1, <3>2 DEF IsEdit
    <3>3. CASE e[1] = "drop"
      BY <3>3 DEF Edited
    <3>4. CASE e[1] = "null"
      BY <3>4 DEF Edited
    <3> QED
      BY <3>1, <3>2, <3>3, <3>4
  <2> QED
    BY <2>1 DEF EditedKeys
<1>6. \A k : k \notin K \cup {Unheard} => SameAt(own, wire, k)
  BY <1>2, <1>5 DEF SameBut, SameAt, Has
<1>7. Spared(fields, own, wire, K)
  <2>1. ASSUME NEW i \in DOMAIN fields
        PROVE  /\ fields[i].key \in K => Absent(fields[i], wire)
               /\ fields[i].key \notin K => SameAt(own, wire, fields[i].key)
    <3>1. fields[i].key \in K => Absent(fields[i], wire)
      BY <1>3, <1>4
    <3>2. fields[i].key # Unheard
      BY <1>3 DEF KeysOfFields
    <3> QED
      BY <1>6, <3>1, <3>2
  <2> QED
    BY <1>2, <2>1 DEF Spared
<1>8. K \subseteq KeysOfFields(fields)
  BY <1>4 DEF KeysOfFields
<1>9. PICK g : g = [k \in K |-> (CHOOSE m \in members : m.key = k).or]
  OBVIOUS
<1>10. ASSUME NEW i \in DOMAIN fields, fields[i].key \in K
       PROVE  g[fields[i].key] = fields[i].or
  <2>1. PICK k : k = fields[i].key
    OBVIOUS
  <2>2. fields[i] \in members
    BY <1>1, <1>2 DEF MembersOf, FieldsOf
  <2>3. \A m \in members : m.key = k => m = fields[i]
    <3>1. k \notin RequiredKeys
      BY <1>10, <2>1
    <3> QED
      BY <1>1, <1>3, <2>1, <3>1, MembersAreFields
  <2>4. PICK b : b = CHOOSE m \in members : m.key = k
    OBVIOUS
  <2>5. b = fields[i]
    BY <2>1, <2>2, <2>3, <2>4
  <2> QED
    BY <1>9, <1>10, <2>1, <2>4, <2>5
<1>11. PICK d : d = IF K = {} THEN x ELSE [k \in DOMAIN x |-> IF k \in K THEN g[k] ELSE x[k]]
  OBVIOUS
<1>12. IsReset(fields, K, x, d)
  <2>1. CASE K = {}
    BY <1>11, <2>1 DEF IsReset
  <2>2. CASE K # {}
    <3>1. d = [k \in DOMAIN x |-> IF k \in K THEN g[k] ELSE x[k]]
      BY <1>11, <2>2
    <3>2. d = [k \in DOMAIN x |-> d[k]] /\ \A k \in DOMAIN x \ K : d[k] = x[k]
      BY <3>1
    <3>3. \A i \in DOMAIN fields :
              fields[i].key \in K \cap DOMAIN x => d[fields[i].key] = fields[i].or
      BY <1>10, <3>1
    <3> QED
      BY <2>2, <3>2, <3>3 DEF IsReset
  <2> QED
    BY <2>1, <2>2
<1>13. Abridged(type, value, wire, K, d)
  <2>1. Trimmed(fields, own, wire, K, x, d)
    BY <1>7, <1>8, <1>12 DEF Trimmed
  <2>2. Kept(own, wire, K)
    BY <1>2, <1>6 DEF Kept
  <2>3. type = "ConfigOption" /\ IsBoolean(value) => "type" \notin K
    BY DEF RequiredKeys, ToggleKeys
  <2> QED
    BY <1>1, <1>2, <2>1, <2>2, <2>3 DEF Abridged
<1>14. WithContent(type, c, d) = LeftOut(c, K)
  <2>1. CASE K = {}
    <3>1. d = x /\ LeftOut(c, K) = c
      BY <1>11, <2>1 DEF LeftOut
    <3>2. CASE IsSum(T)
      <4>1. c = <<c[1], c[2]>>
        BY <1>1, <1>2, <3>2, SumIsArm
      <4> QED
        BY <1>1, <3>1, <3>2, <4>1 DEF WithContent, ContentOf
    <3>3. CASE ~IsSum(T)
      BY <1>1, <3>1, <3>3 DEF WithContent, ContentOf
    <3> QED
      BY <3>2, <3>3
  <2>2. CASE K # {}
    <3>1. d = [k \in DOMAIN x |->
                  IF k \in K THEN (CHOOSE m \in members : m.key = k).or ELSE x[k]]
      <4>1. \A k \in K : g[k] = (CHOOSE m \in members : m.key = k).or
        BY <1>9, Zenon
      <4>2. d = [k \in DOMAIN x |-> IF k \in K THEN g[k] ELSE x[k]]
        BY <1>11, <2>2
      <4>3. ASSUME NEW k \in DOMAIN x
            PROVE  (IF k \in K THEN g[k] ELSE x[k])
                   = (IF k \in K THEN (CHOOSE m \in members : m.key = k).or ELSE x[k])
        <5>1. CASE k \in K
          BY <4>1, <5>1, Zenon
        <5>2. CASE k \notin K
          BY <5>2, Zenon
        <5> QED
          BY <5>1, <5>2
      <4> QED
        BY <4>2, <4>3, Zenon
    <3>2. CASE IsSum(T)
      <4>1. x = c[2] /\ WithContent(type, c, d) = <<c[1], d>>
        BY <1>1, <3>2 DEF WithContent, ContentOf
      <4>2. LeftOut(c, K)
            = <<c[1], [k \in DOMAIN c[2] |->
                  IF k \in K THEN (CHOOSE m \in members : m.key = k).or ELSE c[2][k]]>>
        BY <1>1, <2>2, <3>2 DEF LeftOut
      <4> QED
        BY <3>1, <4>1, <4>2
    <3>3. CASE ~IsSum(T)
      <4>1. x = c /\ WithContent(type, c, d) = d
        BY <1>1, <3>3 DEF WithContent, ContentOf
      <4>2. LeftOut(c, K)
            = [k \in DOMAIN c |->
                  IF k \in K THEN (CHOOSE m \in members : m.key = k).or ELSE c[k]]
        BY <1>1, <2>2, <3>3 DEF LeftOut
      <4> QED
        BY <3>1, <4>1, <4>2
    <3> QED
      BY <3>2, <3>3
  <2> QED
    BY <2>1, <2>2
<1> QED
  BY <1>1, <1>13, <1>14

\* Leaving out a Maybe and writing it as null mean the same, and a defaulted
\* member that is left out has its default, in every type, beside members that
\* are not known (tools.hpp:143-146).
THEOREM RelayAbsence ==
    ASSUME Codecs
    PROVE  RelaySpec => []AbsenceMeansDefault
<1>1. RelayInv => AbsenceMeansDefault
  <2>1. PICK K : K = Edited("drop") \cup Edited("null")
    OBVIOUS
  <2>2. SUFFICES ASSUME RelayInv, Decoded,
                        {e[1] : e \in edits} \subseteq {"add", "drop", "null"},
                        K \cap RequiredKeys = {}
                 PROVE  got = {LeftOut(Canonical(type, value), K)}
    BY <2>1 DEF AbsenceMeansDefault
  <2>3. /\ type \in DOMAIN Schema /\ IsValue(Ref(type), Canonical(type, value))
        /\ IsEdited(wire) /\ got = FromJson(Ref(type), wire)
    BY <2>2, DecodedState
  <2>4. CASE edits = {}
    <3>1. wire = ToJson(Ref(type), value)
      BY <2>3, <2>4 DEF IsEdited, OwnForm
    <3>2. K = {}
      BY <2>1, <2>4 DEF Edited
    <3>3. LeftOut(Canonical(type, value), K) = Canonical(type, value)
      BY <3>2 DEF LeftOut
    <3> QED
      BY <2>3, <3>1, <3>3, CanonicalReads
  <2>5. CASE edits # {}
    <3>1. PICK d : /\ Abridged(type, value, wire, K, d)
                   /\ WithContent(type, Canonical(type, value), d)
                      = LeftOut(Canonical(type, value), K)
      BY <2>1, <2>2, <2>5, EditsAbridge
    <3>2. FromJson(Ref(type), wire) = {WithContent(type, Canonical(type, value), d)}
      BY <2>3, <3>1, TypeLeftOut
    <3> QED
      BY <2>3, <3>1, <3>2
  <2> QED
    BY <2>4, <2>5
<1> QED
  BY <1>1, RelayInvInductive, PTL DEF RelaySpec

\* A member that this version does not know never changes what is decoded, in
\* particular not the arm of a sum that has no tag (content.hpp:136-155,
\* session_types.hpp:90-118).
THEOREM RelayIgnoresUnknown ==
    ASSUME Codecs
    PROVE  RelaySpec => []UnknownMembersIgnored
<1>1. RelayInv => UnknownMembersIgnored
  <2>1. SUFFICES ASSUME RelayInv, Decoded, edits # {},
                        Edited("add") = {e[2] : e \in edits}
                 PROVE  got = {Canonical(type, value)}
    BY DEF UnknownMembersIgnored
  <2>2. /\ type \in DOMAIN Schema /\ IsValue(Ref(type), Canonical(type, value))
        /\ EditsInv /\ got = FromJson(Ref(type), wire)
    BY <2>1, DecodedState
  <2>3. ASSUME NEW e \in edits
        PROVE  e[1] = "add"
    <3>1. e[2] \in Edited("add")
      BY <2>1
    <3>2. PICK f \in edits : f[1] = "add" /\ f[2] = e[2]
      BY <3>1 DEF Edited
    <3> QED
      BY <2>2, <3>2 DEF EditsInv
  <2>4. PICK K : K = Edited("drop") \cup Edited("null")
    OBVIOUS
  <2>5. K = {}
    BY <2>3, <2>4 DEF Edited
  <2>6. PICK d : /\ Abridged(type, value, wire, K, d)
                 /\ WithContent(type, Canonical(type, value), d)
                    = LeftOut(Canonical(type, value), K)
    <3>1. {e[1] : e \in edits} \subseteq {"add", "drop", "null"} /\ K \cap RequiredKeys = {}
      BY <2>3, <2>5
    <3> QED
      BY <2>1, <2>4, <3>1, EditsAbridge
  <2>7. FromJson(Ref(type), wire) = {WithContent(type, Canonical(type, value), d)}
    BY <2>2, <2>6, TypeLeftOut
  <2>8. LeftOut(Canonical(type, value), K) = Canonical(type, value)
    BY <2>5 DEF LeftOut
  <2> QED
    BY <2>2, <2>6, <2>7, <2>8
<1> QED
  BY <1>1, RelayInvInductive, PTL DEF RelaySpec
-----------------------------------------------------------------------------
(***************************************************************************)
(* Wire forms that a peer changed at the members of the object and at its  *)
(* tag, in any way: the arm they are decoded to, if any, stays the same.   *)
(***************************************************************************)
Tampered(T, v, w) ==
    /\ IsObj(ToJson(Ref(T), v)) /\ IsObj(w)
    /\ \A k : k \notin KeysOfFields(FieldsOf(T, v)) \cup {Unheard, "_meta"} =>
           \/ SameAt(ToJson(Ref(T), v), w, k)
           \/ /\ Schema[T][1] = "tagged" /\ k = Schema[T][2]
              /\ ~Has(w, k) \/ At(w, k) = JStr(Garbage)

LEMMA ValueArm ==
    ASSUME Codecs, NEW T \in DOMAIN Schema, IsSum(T), NEW v, IsValue(Ref(T), Canonical(T, v)),
           T # "ConfigSelectOptions"
    PROVE  /\ Schema[T][1] = "tagged" =>
                  \E i \in DOMAIN Schema[T][3] : v[1] = Schema[T][3][i].type
           /\ Schema[T][1] = "choice" =>
                  \E i \in DOMAIN Schema[T][2] : v[1] = Schema[T][2][i]
<1>1. PICK c : c = Canonical(T, v)
  OBVIOUS
<1>2. c[1] = v[1]
  <2>1. T \notin HandStructs
    BY OwnRow DEF IsSum
  <2>2. c = <<v[1], NoNull(StructFields(Schema[v[1]]), v[2])>>
    BY <1>1, <2>1 DEF Canonical, HandStructs
  <2> QED
    BY <2>2
<1>3. IsNamed(T, Schema[T], c)
  BY <1>1, NamedCodecs
<1>4. CASE Schema[T][1] = "tagged"
  BY <1>2, <1>3, <1>4 DEF IsNamed, IsArm
<1>5. CASE Schema[T][1] = "choice"
  BY <1>2, <1>3, <1>5 DEF IsNamed, IsArm
<1> QED
  BY <1>4, <1>5

LEMMA ChoiceStays ==
    ASSUME Codecs, NEW T \in DOMAIN Schema, T \in HandSums,
           NEW v, IsValue(Ref(T), Canonical(T, v)), NEW w, Tampered(T, v, w)
    PROVE  Pick(T, w) \subseteq {v[1]}
<1>1. PICK arms, own, arm, x, j :
          /\ arms = Schema[T][2] /\ own = ToJson(Ref(T), v) /\ arm = v[1] /\ x = v[2]
          /\ j = ToJson(Ref(arm), x)
  OBVIOUS
<1>2. Schema[T][1] = "choice" /\ IsChoice(T, arms) /\ IsSum(T)
  BY <1>1, HandSumRow DEF IsSum
<1>3. /\ IsObj(own) /\ IsObj(w)
      /\ \A k : k \notin KeysOfFields(StructFields(Schema[arm])) \cup {Unheard, "_meta"} =>
             SameAt(own, w, k)
  BY <1>1, <1>2 DEF Tampered, FieldsOf
<1>4. T # "ConfigSelectOptions"
  BY <1>1, <1>3, OptionsAreNoObject
<1>5. PICK n \in DOMAIN arms : arm = arms[n]
  BY <1>1, <1>2, <1>4, ValueArm
<1>6. own = Mark(T, arm, j)
  BY <1>1, <1>2, ChoiceCodecs
<1>7. ASSUME NEW k \in {"type", "text", "blob"}, Lacks(arm, k)
      PROVE  SameAt(own, w, k) /\ ~Has(j, k) /\ IsObj(j)
  <2>1. IsRecord(arm) /\ k \notin KeysOfFields(Schema[arm][2])
    BY <1>7 DEF Lacks
  <2>2. k \notin KeysOfFields(StructFields(Schema[arm])) \cup {Unheard, "_meta"}
    BY <2>1 DEF IsRecord, StructFields, Unheard
  <2> QED
    BY <1>1, <1>3, <2>1, <2>2, RecordIsWritten
<1>8. CASE T = "McpServer"
  <2>1. /\ arms = <<"StdioMcpServer", "HttpMcpServer", "SseMcpServer">>
        /\ \A i \in DOMAIN arms : Lacks(arms[i], "type")
    BY <1>2, <1>8 DEF IsChoice
  <2>2. arm \in {"StdioMcpServer", "HttpMcpServer", "SseMcpServer"} /\ Lacks(arm, "type")
    BY <1>5, <2>1
  <2>3. SameAt(own, w, "type") /\ ~Has(j, "type") /\ IsObj(j)
    BY <1>7, <2>2
  <2>4. own = MarkMcpServer(arm, j)
    BY <1>6, <1>8 DEF Mark
  <2>5. StringOr(w, "type", "stdio") = StringOr(own, "type", "stdio")
    BY <2>3, SameMember
  <2>6. PickMcpServer(own) = {arm}
    BY <2>2, <2>3, <2>4, McpServerRoundTrip
  <2>7. PickMcpServer(w) = PickMcpServer(own)
    BY <1>3, <2>5 DEF PickMcpServer
  <2> QED
    BY <1>1, <1>8, <2>6, <2>7 DEF Pick
<1>9. CASE T = "EmbeddedResource"
  <2>1. /\ arms = <<"TextResource", "BlobResource">>
        /\ Lacks("TextResource", "blob") /\ Lacks("BlobResource", "text")
    BY <1>2, <1>9 DEF IsChoice
  <2>2. own = j
    BY <1>6, <1>9 DEF Mark
  <2>3. Pick(T, w) = PickEmbeddedResource(w)
    BY <1>9 DEF Pick
  <2>4. CASE arm = "TextResource"
    <3>1. ~Has(w, "blob")
      BY <1>7, <2>1, <2>2, <2>4 DEF SameAt
    <3> QED
      BY <1>1, <2>3, <2>4, <3>1 DEF PickEmbeddedResource
  <2>5. CASE arm = "BlobResource"
    <3>1. ~Has(w, "text")
      BY <1>7, <2>1, <2>2, <2>5 DEF SameAt
    <3> QED
      BY <1>1, <2>3, <2>5, <3>1 DEF PickEmbeddedResource
  <2> QED
    BY <1>5, <2>1, <2>4, <2>5
<1>10. CASE T = "AvailableCommandInput"
  <2>1. arms = <<"UnstructuredCommandInput">>
    BY <1>2, <1>10 DEF IsChoice
  <2>2. arm = "UnstructuredCommandInput"
    BY <1>5, <2>1
  <2> QED
    BY <1>1, <1>10, <2>2 DEF Pick, PickAvailableCommandInput
<1> QED
  BY <1>4, <1>8, <1>9, <1>10 DEF HandSums

LEMMA ArmStays ==
    ASSUME Codecs, NEW T \in DOMAIN Schema, IsSum(T),
           NEW v, IsValue(Ref(T), Canonical(T, v)), NEW w, Tampered(T, v, w),
           NEW x \in FromJson(Ref(T), w)
    PROVE  /\ x[1] = v[1] /\ x[2] \in FromJson(Ref(v[1]), w)
           /\ Schema[T][1] = "tagged" => SameAt(ToJson(Ref(T), v), w, Schema[T][2])
<1>1. CASE T \in HandSums
  <2>1. Schema[T][1] = "choice"
    BY <1>1, HandSumRow
  <2>2. Pick(T, w) \subseteq {v[1]}
    BY <1>1, ChoiceStays
  <2>3. x[1] \in Pick(T, w) /\ x[2] \in FromJson(Ref(x[1]), w)
    BY <1>1, ChoiceArm
  <2>4. x[1] = v[1]
    BY <2>2, <2>3
  <2> QED
    BY <2>1, <2>3, <2>4
<1>2. CASE T \notin HandSums
  <2>1. Schema[T][1] = "tagged" /\ IsTagged(Schema[T][2], Schema[T][3])
    BY <1>2, SumRow
  <2>2. PICK key, arms, own, arm :
            /\ key = Schema[T][2] /\ arms = Schema[T][3] /\ own = ToJson(Ref(T), v) /\ arm = v[1]
    OBVIOUS
  <2>3. PICK i \in DOMAIN arms :
            /\ x[1] = arms[i].type /\ x[2] \in FromJson(Ref(x[1]), w)
            /\ Has(w, key) /\ At(w, key) = JStr(arms[i].label)
    BY <2>1, <2>2, TaggedArm
  <2>4. T # "ConfigSelectOptions"
    BY <1>2 DEF HandSums
  <2>5. PICK n \in DOMAIN arms : arm = arms[n].type
    BY <2>1, <2>2, <2>4, ValueArm
  <2>6. Taggable(arm, key) /\ key # "_meta"
    BY <2>1, <2>2, <2>5 DEF IsTagged
  <2>7. key # Unheard
    <3>1. Unheard \notin KnownKeys(Schema[T])
      BY RelayAssumption
    <3> QED
      BY <2>1, <2>2, <3>1 DEF KnownKeys
  <2>8. key \notin KeysOfFields(StructFields(Schema[arm])) \cup {Unheard, "_meta"}
    BY <2>6, <2>7, TagIsNoField
  <2>9. arms[i].label # Garbage
    BY <2>1, <2>2, RelayAssumption
  <2>10. At(w, key) # JStr(Garbage)
    BY <2>3, <2>9 DEF JStr
  <2>11. SameAt(own, w, key)
    BY <2>2, <2>3, <2>8, <2>10 DEF Tampered, FieldsOf
  <2>12. own = With(ToJson(Ref(arm), v[2]), key, JStr(arms[n].label))
    BY <2>1, <2>2, <2>5, TaggedIsWritten
  <2>13. Has(own, key) /\ At(own, key) = JStr(arms[n].label)
    BY <2>12 DEF With, Has, At, IsObj, JObj, Put
  <2>14. arms[i].label = arms[n].label
    BY <2>3, <2>11, <2>13 DEF SameAt, JStr
  <2>15. i = n
    BY <2>1, <2>2, <2>14 DEF IsTagged
  <2> QED
    BY <2>2, <2>3, <2>5, <2>11, <2>15
<1> QED
  BY <1>1, <1>2
-----------------------------------------------------------------------------
(***************************************************************************)
(* Whatever a peer changed, the metadata it put on an object is passed on. *)
(***************************************************************************)
LEMMA MemberIsField ==
    ASSUME NEW m \in MembersOf(type, value)
    PROVE  \/ \E i \in DOMAIN FieldsOf(type, value) : m = FieldsOf(type, value)[i]
           \/ Schema[type][1] = "tagged" /\ m.how = "tag" /\ m.key = Schema[type][2]
<1>1. PICK fields : fields = FieldsOf(type, value)
  OBVIOUS
<1>2. \/ \E i \in DOMAIN fields : m = fields[i]
      \/ Schema[type][1] = "tagged" /\ m = Field("tag", Schema[type][2], Str, Nothing)
  BY <1>1 DEF MembersOf, FieldsOf
<1> QED
  BY <1>1, <1>2 DEF Field

LEMMA EditedIsTampered ==
    ASSUME Codecs, type \in DOMAIN Schema, IsSum(type), members = MembersOf(type, value),
           IsValue(Ref(type), Canonical(type, value)), EditsInv,
           NEW w, IsEdited(w), edits # {}
    PROVE  Tampered(type, value, w)
<1>1. PICK fields, own : fields = FieldsOf(type, value) /\ own = OwnForm
  OBVIOUS
<1>2. /\ IsObj(w) /\ IsObj(own) /\ SameBut(own, w, EditedKeys)
      /\ \A e \in edits : Shows(w, e[1], e[2])
  BY <1>1 DEF IsEdited
<1>3. type # "ConfigOption"
  BY OwnRow DEF IsSum, HandStructs
<1>4. ASSUME NEW k, k \notin KeysOfFields(fields) \cup {Unheard, "_meta"}
      PROVE  \/ SameAt(own, w, k)
             \/ /\ Schema[type][1] = "tagged" /\ k = Schema[type][2]
                /\ ~Has(w, k) \/ At(w, k) = JStr(Garbage)
  <2>1. CASE k \notin EditedKeys
    BY <1>2, <2>1 DEF SameBut, SameAt, Has
  <2>2. CASE k \in EditedKeys
    <3>1. PICK e \in edits : e[2] = k
      BY <2>2 DEF EditedKeys
    <3>2. PICK op : op = e[1]
      OBVIOUS
    <3>3. IsEdit(op, k) /\ Shows(w, op, k)
      BY <1>2, <3>1, <3>2 DEF EditsInv
    <3>4. ASSUME NEW how, k \in KeysThat(how)
          PROVE  how = "tag" /\ Schema[type][1] = "tagged" /\ k = Schema[type][2]
      <4>1. PICK m \in members : m.how = how /\ m.key = k
        BY <3>4 DEF KeysThat
      <4>2. ~ \E i \in DOMAIN fields : m = fields[i]
        BY <1>4, <4>1 DEF KeysOfFields
      <4> QED
        BY <1>1, <4>1, <4>2, MemberIsField
    <3>5. ToggleKeys = {}
      BY <1>3 DEF ToggleKeys
    <3>6. /\ op \in {"drop", "break"} /\ k \in KeysThat("tag")
          /\ Schema[type][1] = "tagged" /\ k = Schema[type][2]
      BY <1>4, <3>3, <3>4, <3>5 DEF IsEdit, RequiredKeys, BreakableKeys
    <3>7. op = "break" => At(w, k) = JStr(Garbage)
      BY <3>3, <3>6 DEF Shows, Wrong
    <3>8. op = "drop" => ~Has(w, k)
      BY <3>3 DEF Shows
    <3> QED
      BY <3>6, <3>7, <3>8
  <2> QED
    BY <2>1, <2>2
<1> QED
  BY <1>1, <1>2, <1>4 DEF Tampered, OwnForm

\* Custom metadata survives the hop on each type that defines it, whatever else
\* the peer changed, and an empty _meta is never written (README.md:194-196).
THEOREM RelayMeta ==
    ASSUME Codecs
    PROVE  RelaySpec => []MetaForwarded
<1>1. RelayInv => MetaForwarded
  <2>1. SUFFICES ASSUME RelayInv, phase = "forwarded"
                 PROVE  /\ <<"meta", "_meta">> \in edits /\ KeysThat("meta") # {} =>
                               Has(wire, "_meta") /\ At(wire, "_meta") = Vendor
                        /\ Has(wire, "_meta") => At(wire, "_meta") # EmptyObj
    BY DEF MetaForwarded
  <2>2. /\ type \in DOMAIN Samples /\ value \in Samples[type]
        /\ members = MembersOf(type, value) /\ EditsInv
        /\ got # {} /\ wire = ToJson(Ref(type), The(got))
        /\ \E w : IsEdited(w) /\ got = FromJson(Ref(type), w)
    BY <2>1 DEF RelayInv, GotInv
  <2>3. type \in DOMAIN Schema /\ IsValue(Ref(type), Canonical(type, value))
    BY <2>2, RelayAssumption
  <2>4. PICK w : IsEdited(w) /\ got = FromJson(Ref(type), w)
    BY <2>2
  <2>5. PICK v : v = The(got)
    OBVIOUS
  <2>6. v \in FromJson(Ref(type), w) /\ wire = ToJson(Ref(type), v)
    BY <2>2, <2>4, <2>5 DEF The
  <2>7. PICK A : A = IF IsSum(type) THEN v[1] ELSE type
    OBVIOUS
  <2>8. MetaAgain(StructFields(Schema[A]), w, wire)
    BY <2>3, <2>6, <2>7, SumMeta, TypeMeta
  <2>9. ASSUME <<"meta", "_meta">> \in edits, KeysThat("meta") # {}
        PROVE  Has(wire, "_meta") /\ At(wire, "_meta") = Vendor
    <3>1. PICK e \in edits : e = <<"meta", "_meta">>
      BY <2>9
    <3>2. Shows(w, "meta", "_meta")
      <4>1. \A f \in edits : Shows(w, f[1], f[2])
        BY <2>4, <3>1 DEF IsEdited
      <4>2. e[1] = "meta" /\ e[2] = "_meta"
        BY <3>1
      <4> QED
        BY <4>1, <4>2
    <3>3. Vendor[1] = "obj" /\ Vendor # EmptyObj
      <4>1. PICK r : r = [vendor |-> JStr("x")]
        OBVIOUS
      <4>2. r # << >>
        <5>1. "vendor" \in DOMAIN r
          BY <4>1
        <5>2. DOMAIN << >> = {}
          OBVIOUS
        <5> QED
          BY <5>1, <5>2
      <4> QED
        BY <4>1, <4>2 DEF Vendor, EmptyObj, JObj
    <3>4. LenientMeta(w) = Vendor
      BY <3>2, <3>3 DEF Shows, LenientMeta, Holds
    <3>5. PICK fields : fields = FieldsOf(type, value)
      OBVIOUS
    <3>6. "_meta" \in KeysOfFields(fields)
      <4>1. PICK m \in members : m.how = "meta"
        BY <2>9 DEF KeysThat
      <4>2. PICK i \in DOMAIN fields : m = fields[i]
        BY <2>2, <3>5, <4>1, MemberIsField
      <4>3. fields[i].key = "_meta"
        BY <2>3, <3>5, <4>1, <4>2, FieldsOfRow, FieldRows
      <4> QED
        BY <4>3 DEF KeysOfFields
    <3>7. fields = StructFields(Schema[A])
      <4>1. CASE IsSum(type)
        <5>1. Tampered(type, value, w)
          BY <2>2, <2>3, <2>4, <3>1, <4>1, EditedIsTampered
        <5>2. v[1] = value[1]
          BY <2>3, <2>6, <4>1, <5>1, ArmStays
        <5> QED
          BY <2>7, <3>5, <4>1, <5>2 DEF FieldsOf
      <4>2. CASE ~IsSum(type)
        BY <2>7, <3>5, <4>2 DEF FieldsOf
      <4> QED
        BY <4>1, <4>2
    <3> QED
      BY <2>8, <3>3, <3>4, <3>6, <3>7 DEF MetaAgain
  <2>10. Has(wire, "_meta") => At(wire, "_meta") # EmptyObj
    BY <2>8 DEF MetaAgain
  <2> QED
    BY <2>9, <2>10
<1> QED
  BY <1>1, RelayInvInductive, PTL DEF RelaySpec

-----------------------------------------------------------------------------
(***************************************************************************)
(* Whatever else a peer changed, a value is refused if it lacks a required *)
(* member or tag, or has one of the wrong type.                            *)
(***************************************************************************)
\* An arm is a struct whose members its sum writes as they are.
LEMMA ArmIsStruct ==
    ASSUME Codecs, NEW T \in DOMAIN Schema, IsSum(T), NEW v, IsValue(Ref(T), Canonical(T, v)),
           IsObj(ToJson(Ref(T), v)), NEW A, A = v[1], NEW fields, fields = StructFields(Schema[A])
    PROVE  /\ A \in DOMAIN Schema /\ ~IsSum(A) /\ A \notin HandStructs \ {"PO_Cancelled"}
           /\ IsValue(Ref(A), NoNull(fields, v[2])) /\ IsObj(ToJson(Ref(A), v[2]))
           /\ \A k \in KeysOfFields(fields) : SameAt(ToJson(Ref(A), v[2]), ToJson(Ref(T), v), k)
<1>1. PICK own, j, c, x :
          /\ own = ToJson(Ref(T), v) /\ j = ToJson(Ref(A), v[2]) /\ c = Canonical(T, v)
          /\ x = NoNull(fields, v[2])
  OBVIOUS
<1>2. T # "ConfigSelectOptions"
  BY OptionsAreNoObject
<1>3. T \notin HandStructs
  BY OwnRow DEF IsSum
<1>4. c = <<A, x>> /\ c[1] = A /\ c[2] = x
  <2>1. c = <<A, x>>
    BY <1>1, <1>2, <1>3 DEF Canonical, HandStructs
  <2> QED
    BY <2>1
<1>5. ASSUME NEW key, Taggable(A, key), \E s : own = With(j, key, s)
      PROVE  IsObj(j) /\ \A k \in KeysOfFields(fields) : SameAt(j, own, k)
  <2>1. IsObj(j)
    BY <1>1, <1>5, ArmIsWritten
  <2>2. key \notin KeysOfFields(fields)
    BY <1>5, TagIsNoField
  <2> QED
    BY <1>5, <2>1, <2>2, OtherMember DEF SameAt
<1>6. CASE T \in HandSums
  <2>1. Schema[T][1] = "choice" /\ IsChoice(T, Schema[T][2])
    BY <1>6, HandSumRow
  <2>2. IsArm({Schema[T][2][i] : i \in DOMAIN Schema[T][2]}, c)
    BY <1>1, <2>1, ChoiceCodecs
  <2>3. (\E i \in DOMAIN Schema[T][2] : A = Schema[T][2][i]) /\ IsValue(Ref(A), x)
    BY <1>4, <2>2 DEF IsArm
  <2>4. own = Mark(T, A, j)
    BY <1>1, <2>1, ChoiceCodecs
  <2>5. IsRecord(A) /\ (T = "McpServer" => Lacks(A, "type"))
    <3>1. CASE T = "McpServer"
      BY <2>1, <2>3, <3>1 DEF IsChoice, Lacks
    <3>2. CASE T = "EmbeddedResource"
      BY <2>1, <2>3, <3>2 DEF IsChoice, Lacks
    <3>3. CASE T = "AvailableCommandInput"
      BY <2>1, <2>3, <3>3 DEF IsChoice, Lacks
    <3> QED
      BY <1>2, <1>6, <3>1, <3>2, <3>3 DEF HandSums
  <2>6. A \in DOMAIN Schema /\ Schema[A][1] = "record"
    BY <2>5 DEF IsRecord
  <2>7. ~IsSum(A) /\ A \notin HandStructs
    BY <2>6, OwnRow DEF IsSum
  <2>8. IsObj(j) /\ \A k \in KeysOfFields(fields) : SameAt(j, own, k)
    <3>0. IsObj(j)
      BY <1>1, <2>5, RecordIsWritten
    <3>1. CASE T # "McpServer"
      BY <2>4, <3>0, <3>1 DEF Mark, SameAt
    <3>2. CASE T = "McpServer"
      <4>1. Taggable(A, "type")
        BY <2>5, <3>2 DEF Taggable, Lacks, IsRecord
      <4>2. A \in {"StdioMcpServer", "HttpMcpServer", "SseMcpServer"}
        BY <2>1, <2>3, <3>2 DEF IsChoice
      <4>3. own = j \/ \E s : own = With(j, "type", s)
        BY <2>4, <3>2, <4>2 DEF Mark, MarkMcpServer
      <4>4. CASE own = j
        BY <3>0, <4>4 DEF SameAt
      <4> QED
        BY <1>5, <3>0, <4>1, <4>3, <4>4
    <3> QED
      BY <3>0, <3>1, <3>2
  <2> QED
    BY <1>1, <2>3, <2>6, <2>7, <2>8
<1>7. CASE T \notin HandSums
  <2>1. Schema[T][1] = "tagged" /\ IsTagged(Schema[T][2], Schema[T][3])
    BY <1>7, SumRow
  <2>2. PICK key, arms : key = Schema[T][2] /\ arms = Schema[T][3]
    OBVIOUS
  <2>3. IsValue(Ref(A), x)
    <3>1. IsNamed(T, Schema[T], c)
      BY <1>1, NamedCodecs
    <3>2. IsArm({Schema[T][3][i].type : i \in DOMAIN Schema[T][3]}, c)
      BY <2>1, <3>1 DEF IsNamed
    <3> QED
      BY <1>4, <3>2 DEF IsArm
  <2>4. PICK n \in DOMAIN arms : A = arms[n].type
    BY <1>2, <2>1, <2>2, ValueArm
  <2>5. Taggable(A, key)
    BY <2>1, <2>2, <2>4 DEF IsTagged
  <2>6. own = With(j, key, JStr(arms[n].label))
    BY <1>1, <2>1, <2>2, <2>4, TaggedIsWritten
  <2>7. A \in DOMAIN Schema /\ ~IsSum(A)
    BY <2>5, TaggableIsStruct
  <2>8. A \notin HandStructs \ {"PO_Cancelled"}
    <3>1. A = "PO_Cancelled" \/ Schema[A][1] \in {"record", "alias"}
      BY <2>5 DEF Taggable, Lacks, IsRecord, Alias
    <3> QED
      BY <2>7, <3>1, OwnRow
  <2>9. IsObj(j) /\ \A k \in KeysOfFields(fields) : SameAt(j, own, k)
    BY <1>5, <2>5, <2>6
  <2> QED
    BY <1>1, <2>3, <2>7, <2>8, <2>9
<1> QED
  BY <1>6, <1>7

LEMMA SumDemands ==
    ASSUME Codecs, NEW T \in DOMAIN Schema, IsSum(T), NEW v, IsValue(Ref(T), Canonical(T, v)),
           NEW w, Tampered(T, v, w), Short(FieldsOf(T, v), ToJson(Ref(T), v), w)
    PROVE  FromJson(Ref(T), w) = {}
<1>1. PICK own, A, fields :
          own = ToJson(Ref(T), v) /\ A = v[1] /\ fields = StructFields(Schema[A])
  OBVIOUS
<1>2. IsObj(own) /\ Short(fields, own, w)
  BY <1>1 DEF Tampered, FieldsOf
<1>3. /\ A \in DOMAIN Schema /\ ~IsSum(A) /\ A \notin HandStructs \ {"PO_Cancelled"}
      /\ IsValue(Ref(A), NoNull(fields, v[2]))
      /\ \A k \in KeysOfFields(fields) : SameAt(ToJson(Ref(A), v[2]), own, k)
  BY <1>1, <1>2, ArmIsStruct
<1>4. \A k \in Keys(fields, "required") : Has(own, k) => At(own, k) = At(ToJson(Ref(A), v[2]), k)
  BY <1>3 DEF Keys, How, KeysOfFields, SameAt
<1>5. FromJson(Ref(A), w) = {}
  BY <1>1, <1>2, <1>3, <1>4, StructDemands
<1>6. ASSUME NEW x \in FromJson(Ref(T), w)
      PROVE  FALSE
  <2>1. x[2] \in FromJson(Ref(A), w)
    BY <1>1, ArmStays
  <2> QED
    BY <1>5, <2>1
<1> QED
  BY <1>6

\* A tag is missing or unknown.
LEMMA TagDemanded ==
    ASSUME Codecs, NEW T \in DOMAIN Schema, Schema[T][1] = "tagged", NEW w,
           ~Has(w, Schema[T][2]) \/ At(w, Schema[T][2]) = JStr(Garbage)
    PROVE  FromJson(Ref(T), w) = {}
<1>1. PICK arms : arms = Schema[T][3]
  OBVIOUS
<1>2. IsTagged(Schema[T][2], arms)
  <2>1. IsSum(T)
    BY DEF IsSum
  <2> QED
    BY <1>1, <2>1, HandSumRow, SumRow
<1>3. \A i \in DOMAIN arms : arms[i].label # Garbage
  BY <1>1, RelayAssumption
<1>4. ASSUME NEW x \in FromJson(Ref(T), w)
      PROVE  FALSE
  <2>1. PICK i \in DOMAIN arms : Has(w, Schema[T][2]) /\ At(w, Schema[T][2]) = JStr(arms[i].label)
    BY <1>1, <1>2, TaggedArm
  <2> QED
    BY <1>3, <2>1 DEF JStr
<1> QED
  BY <1>4

\* What a peer may do to the type and the options of a config option.
LEMMA ConfigOptionEdited ==
    ASSUME type \in DOMAIN Schema, type = "ConfigOption", members = MembersOf(type, value),
           EditsInv, NEW w, IsEdited(w), edits # {}
    PROVE  /\ IsObj(w)
           /\ \A k \in {"type", "options"} : SameAt(OwnForm, w, k) \/ ~Has(w, k)
           /\ KeysThat("required") = {"id", "name", "currentValue"} /\ KeysThat("tag") = {}
<1>1. PICK fields : fields = Schema[type][2]
  OBVIOUS
<1>2. Schema[type][1] = "own" /\ IsOwnRow(type, fields) /\ StructFields(Schema[type]) = fields
  BY <1>1, OwnRow DEF HandStructs
<1>3. members = {fields[i] : i \in DOMAIN fields}
  BY <1>2 DEF MembersOf, IsSum
<1>4. /\ Keys(fields, "required") = {"id", "name", "currentValue"}
      /\ Keys(fields, "optional") = {"description", "category"}
      /\ IsFields(fields, RecordHows \cup {"member"})
  BY <1>2 DEF IsOwnRow
<1>5. \A how : KeysThat(how) = Keys(fields, how)
  BY <1>3 DEF KeysThat, Keys, How
<1>6. Keys(fields, "tag") = {}
  <2>1. \A i \in DOMAIN fields : fields[i].how \in RecordHows \cup {"member"}
    BY <1>4, FieldRows
  <2> QED
    BY <2>1 DEF Keys, How, RecordHows
<1>7. /\ IsObj(w) /\ SameBut(OwnForm, w, EditedKeys)
      /\ \A e \in edits : Shows(w, e[1], e[2])
  BY DEF IsEdited
<1>8. ASSUME NEW k \in {"type", "options"}
      PROVE  SameAt(OwnForm, w, k) \/ ~Has(w, k)
  <2>1. CASE k \notin EditedKeys
    <3>1. IsObj(OwnForm)
      BY DEF IsEdited
    <3> QED
      BY <1>7, <2>1, <3>1 DEF SameBut, SameAt, Has
  <2>2. CASE k \in EditedKeys
    <3>1. PICK e \in edits : e[2] = k
      BY <2>2 DEF EditedKeys
    <3>2. PICK op : op = e[1]
      OBVIOUS
    <3>3. IsEdit(op, k) /\ Shows(w, op, k)
      BY <1>7, <3>1, <3>2 DEF EditsInv
    <3>4. k \notin KeysThat("optional") /\ k \notin BreakableKeys /\ k # Unheard /\ k # "_meta"
      BY <1>4, <1>5, <1>6 DEF BreakableKeys, Unheard
    <3>5. op = "drop"
      BY <3>3, <3>4 DEF IsEdit
    <3> QED
      BY <3>3, <3>5 DEF Shows
  <2> QED
    BY <2>1, <2>2
<1> QED
  BY <1>4, <1>5, <1>6, <1>7, <1>8

\* A required member that was lost or spoilt makes the form a short one.
LEMMA EditIsShort ==
    ASSUME Codecs, type \in DOMAIN Schema, members = MembersOf(type, value),
           IsValue(Ref(type), Canonical(type, value)),
           NEW w, NEW op \in {"drop", "break"}, NEW k \in KeysThat("required"),
           IsEdit(op, k), Shows(w, op, k)
    PROVE  Short(FieldsOf(type, value), OwnForm, w)
<1>1. PICK fields : fields = FieldsOf(type, value)
  OBVIOUS
<1>2. PICK m \in members : m.how = "required" /\ m.key = k
  BY DEF KeysThat
<1>3. PICK i \in DOMAIN fields : m = fields[i]
  BY <1>1, <1>2, MemberIsField
<1>4. i \in How(fields, "required") /\ fields[i].key = k
  BY <1>2, <1>3 DEF How
<1>5. CASE op = "drop"
  <2>1. ~Has(w, k)
    BY <1>5 DEF Shows
  <2> QED
    BY <1>1, <1>4, <2>1 DEF Short
<1>6. CASE op = "break"
  <2>1. Has(w, k) /\ Has(OwnForm, k) /\ At(w, k) = Wrong(OwnForm, k) /\ k \in BreakableKeys
    BY <1>6 DEF Shows, IsEdit
  <2>2. k \notin KeysThat("tag")
    <3>1. SUFFICES ASSUME NEW t \in members, t.how = "tag", t.key = k PROVE FALSE
      BY DEF KeysThat
    <3>2. \A n \in DOMAIN fields : fields[n].how # "tag"
      BY <1>1, FieldsOfRow, FieldRows DEF RecordHows
    <3>3. Schema[type][1] = "tagged" /\ k = Schema[type][2]
      BY <1>1, <3>1, <3>2, MemberIsField
    <3>4. PICK key, arms, arm : key = Schema[type][2] /\ arms = Schema[type][3] /\ arm = value[1]
      OBVIOUS
    <3>5. IsSum(type) /\ type \notin HandSums
      BY <3>3, HandSumRow DEF IsSum
    <3>6. IsTagged(key, arms) /\ type # "ConfigSelectOptions"
      BY <3>3, <3>4, <3>5, SumRow DEF HandSums
    <3>7. PICK n \in DOMAIN arms : arm = arms[n].type
      BY <3>3, <3>4, <3>5, <3>6, ValueArm
    <3>8. Taggable(arm, key)
      BY <3>6, <3>7 DEF IsTagged
    <3>9. k \notin KeysOfFields(fields)
      BY <1>1, <3>3, <3>4, <3>5, <3>8, TagIsNoField DEF FieldsOf
    <3> QED
      BY <1>4, <3>9 DEF How, KeysOfFields
  <2>3. ~IsRaw(fields[i].type)
    <3>1. k \notin RawKeys
      BY <2>1, <2>2 DEF BreakableKeys
    <3> QED
      BY <1>2, <1>3, <3>1 DEF RawKeys
  <2>4. At(w, k) = Misshapen(At(OwnForm, k))
    BY <2>1, <2>2 DEF Wrong, Misshapen
  <2> QED
    BY <1>1, <1>4, <2>1, <2>3, <2>4 DEF Short
<1> QED
  BY <1>5, <1>6

\* Such a form is refused.
LEMMA EditRefused ==
    ASSUME Codecs, type \in DOMAIN Schema, members = MembersOf(type, value),
           IsValue(Ref(type), Canonical(type, value)), EditsInv,
           NEW w, IsEdited(w), NEW e \in edits, e[1] \in {"drop", "break"}, e[2] \in RequiredKeys
    PROVE  FromJson(Ref(type), w) = {}
<1>1. PICK op, k : op = e[1] /\ k = e[2]
  OBVIOUS
<1>2. /\ edits # {} /\ IsEdit(op, k) /\ Shows(w, op, k) /\ op \in {"drop", "break"}
      /\ k \in RequiredKeys
  BY <1>1 DEF EditsInv, IsEdited
<1>3. PICK fields : fields = FieldsOf(type, value)
  OBVIOUS
<1>4. k \in KeysThat("required") => Short(fields, OwnForm, w)
  BY <1>2, <1>3, EditIsShort
<1>5. CASE type = "ConfigOption"
  <2>1. /\ IsObj(w)
        /\ \A n \in {"type", "options"} : SameAt(OwnForm, w, n) \/ ~Has(w, n)
        /\ KeysThat("required") = {"id", "name", "currentValue"} /\ KeysThat("tag") = {}
    BY <1>2, <1>3, <1>5, ConfigOptionEdited
  <2>2. fields = Schema[type][2]
    BY <1>3, <1>5, OwnRow DEF FieldsOf, IsSum, HandStructs
  <2>3. \/ k \in KeysThat("required")
        \/ k = (IF IsBoolean(value) THEN "type" ELSE "options")
    BY <1>2, <1>5, <2>1 DEF RequiredKeys, ToggleKeys
  <2>4. k \notin KeysThat("required") => ~Has(w, k)
    BY <1>2, <1>3, <2>1 DEF IsEdit, BreakableKeys, Shows
  <2>5. PICK v, own : v = value /\ own = OwnForm
    OBVIOUS
  <2>6. \/ Short(fields, own, w)
        \/ IsBoolean(v) /\ ~Has(w, "type")
        \/ ~IsBoolean(v) /\ ~Has(w, "options")
    BY <1>4, <2>3, <2>4, <2>5
  <2>7. own = ToJson(Ref(type), v)
    BY <2>5 DEF OwnForm
  <2> QED
    BY <1>5, <2>1, <2>2, <2>5, <2>6, <2>7, ConfigOptionDemands
<1>6. CASE type # "ConfigOption"
  <2>1. k \in KeysThat("required") \/ k \in KeysThat("tag")
    BY <1>2, <1>6 DEF RequiredKeys, ToggleKeys
  <2>2. CASE k \in KeysThat("required")
    <3>1. Short(fields, ToJson(Ref(type), value), w)
      BY <1>4, <2>2 DEF OwnForm
    <3>2. CASE IsSum(type)
      <4>1. Tampered(type, value, w)
        BY <1>2, <1>3, <3>2, EditedIsTampered
      <4> QED
        BY <1>3, <3>1, <3>2, <4>1, SumDemands
    <3>3. CASE ~IsSum(type)
      <4>1. fields = StructFields(Schema[type])
        BY <1>3, <3>3 DEF FieldsOf
      <4> QED
        BY <1>6, <3>1, <3>3, <4>1, TypeDemands
    <3> QED
      BY <3>2, <3>3
  <2>3. CASE k \in KeysThat("tag")
    <3>1. PICK m \in members : m.how = "tag" /\ m.key = k
      BY <2>3 DEF KeysThat
    <3>2. \A n \in DOMAIN fields : fields[n].how # "tag"
      BY <1>3, FieldsOfRow, FieldRows DEF RecordHows
    <3>3. Schema[type][1] = "tagged" /\ k = Schema[type][2]
      BY <1>3, <3>1, <3>2, MemberIsField
    <3>4. ~Has(w, k) \/ At(w, k) = JStr(Garbage)
      BY <1>2, <1>3, <2>3 DEF Shows, Wrong
    <3> QED
      BY <3>3, <3>4, TagDemanded
  <2> QED
    BY <2>1, <2>2, <2>3
<1> QED
  BY <1>5, <1>6

\* A wire form without a required member or a known tag, or with one of the
\* wrong type, is refused, whatever else the peer changed
\* (tests/schema_conformance.cpp:56-62).
THEOREM RelayRequired ==
    ASSUME Codecs
    PROVE  RelaySpec => []RequiredEnforced
<1>1. RelayInv => RequiredEnforced
  <2>1. SUFFICES ASSUME RelayInv, Decoded,
                        NEW k \in (Edited("drop") \cup Edited("break")) \cap RequiredKeys
                 PROVE  phase = "refused"
    BY DEF RequiredEnforced
  <2>2. /\ type \in DOMAIN Schema /\ IsValue(Ref(type), Canonical(type, value))
        /\ members = MembersOf(type, value)
        /\ EditsInv /\ IsEdited(wire) /\ got = FromJson(Ref(type), wire)
        /\ phase = "refused" <=> got = {}
    BY <2>1, DecodedState
  <2>3. PICK e \in edits : e[2] = k /\ e[1] \in {"drop", "break"}
    BY <2>1 DEF Edited
  <2>4. e[1] \in {"drop", "break"} /\ e[2] \in RequiredKeys
    BY <2>1, <2>3
  <2>5. FromJson(Ref(type), wire) = {}
    BY <2>2, <2>3, <2>4, EditRefused
  <2> QED
    BY <2>2, <2>5
<1> QED
  BY <1>1, RelayInvInductive, PTL DEF RelaySpec

-----------------------------------------------------------------------------
(***************************************************************************)
(* One hop makes a value canonical: what is decoded from any form that a   *)
(* peer may have changed is a value again, so that what it is encoded as   *)
(* is read as it was.                                                      *)
(***************************************************************************)
LEMMA DefaultsAreValues ==
    ASSUME NEW fields, NEW hows, IsFields(fields, hows),
           NEW i \in DOMAIN fields, fields[i].how = "defaulted"
    PROVE  IsValue(fields[i].type, fields[i].or)
BY DEF IsFields, IsFieldRow

\* A struct that was decoded has a value in each member, and nothing else.
LEMMA DecodedShape ==
    ASSUME NEW fields, NEW j, NEW v \in DecodeRecord(fields, j)
    PROVE  v = [k \in KeysOfFields(fields) |-> v[k]]
<1>1. PICK K : K = KeysOfFields(fields)
  OBVIOUS
<1>2. PICK U : U = UNION {{<<fields[i].key, x>> : x \in DecodeField(fields[i], j)} :
                          i \in DOMAIN fields}
  OBVIOUS
<1>3. v \in Assembled(U, K)
  BY <1>1, <1>2 DEF DecodeRecord, KeysOfFields
<1>4. {m[1] : m \in U} = K /\ v = FunctionOf(U)
  BY <1>3 DEF Assembled
<1>5. v = [k \in K |-> (CHOOSE m \in U : m[1] = k)[2]]
  BY <1>4 DEF FunctionOf
<1> QED
  BY <1>1, <1>5

\* What a form may change of the members without being refused.
Tolerated(fields, own, w) ==
    \A i \in DOMAIN fields :
        \/ SameAt(own, w, fields[i].key)
        \/ Absent(fields[i], w)
        \/ fields[i].how = "meta"

LEMMA FieldsStay ==
    ASSUME Codecs, NEW fields, IsFields(fields, RecordHows),
           NEW own, NEW c, ReadTo(fields, own, c), IsStruct(fields, c),
           NEW w, Tolerated(fields, own, w), NEW v \in DecodeRecord(fields, w)
    PROVE  IsStruct(fields, v)
<1>1. PICK d : d = [i \in DOMAIN fields |-> DecodeField(fields[i], w)]
  OBVIOUS
<1>2. \A i, k \in DOMAIN fields : fields[i].key = fields[k].key => i = k
  BY FieldRows
<1>3. \A i \in DOMAIN fields : v[fields[i].key] \in DecodeField(fields[i], w)
  BY <1>1, <1>2, DecodedFields
<1>4. ASSUME NEW i \in DOMAIN fields
      PROVE  IsField(fields[i], v[fields[i].key])
  <2>1. PICK f, x : f = fields[i] /\ x = v[f.key]
    OBVIOUS
  <2>2. /\ f.how \in RecordHows /\ (f.how = "optional" => f.or = Nothing)
        /\ (f.how = "meta" <=> f.key = "_meta")
    BY <2>1, FieldRows
  <2>3. x \in DecodeField(f, w)
    BY <1>3, <2>1
  <2>4. CASE SameAt(own, w, f.key)
    <3>1. DecodeField(f, own) = {c[f.key]} /\ IsField(f, c[f.key])
      BY <2>1 DEF ReadTo, IsStruct
    <3>2. DecodeField(f, w) = DecodeField(f, own)
      BY <2>2, <2>4, FieldLeftOut
    <3> QED
      BY <2>1, <2>3, <3>1, <3>2
  <2>5. CASE Absent(f, w)
    <3>1. x = f.or
      BY <2>2, <2>3, <2>5, FieldLeftOut
    <3>2. f.how \in {"optional", "defaulted"}
      BY <2>5 DEF Absent
    <3>3. f.how = "defaulted" => IsValue(f.type, f.or)
      BY <2>1, DefaultsAreValues
    <3>4. IsField(f, x)
      BY <2>2, <3>1, <3>2, <3>3 DEF IsField
    <3> QED
      BY <2>1, <3>4
  <2>6. CASE f.how = "meta"
    <3>1. x = LenientMeta(w)
      BY <2>3, <2>6 DEF DecodeField
    <3>2. IsObj(x)
      BY <3>1 DEF LenientMeta, Holds, IsObj, EmptyObj, JObj
    <3>3. IsField(f, x)
      BY <2>6, <3>2 DEF IsField
    <3> QED
      BY <2>1, <3>3
  <2> QED
    BY <2>1, <2>4, <2>5, <2>6 DEF Tolerated
<1> QED
  BY <1>4, DecodedShape DEF IsStruct

LEMMA RecordStays ==
    ASSUME Codecs, NEW U, IsRecord(U), NEW fields, fields = Schema[U][2],
           NEW v, IsValue(Ref(U), NoNull(fields, v)),
           NEW w, Tolerated(fields, ToJson(Ref(U), v), w), NEW x \in FromJson(Ref(U), w)
    PROVE  IsValue(Ref(U), x)
<1>1. IsFields(fields, RecordHows) /\ U \in DOMAIN Schema /\ Schema[U][1] = "record"
  BY DEF IsRecord
<1>2. \A i \in DOMAIN fields : fields[i].type \in Types /\ Good(fields[i].type)
  BY <1>1, FieldTypes, EveryTypeIsGood
<1>3. PICK own, c : own = ToJson(Ref(U), v) /\ c = NoNull(fields, v)
  OBVIOUS
<1>4. /\ own = EncodeRecord(fields, v) /\ IsStruct(fields, c)
      /\ x \in DecodeRecord(fields, w)
  BY <1>3, RecordCodecs
<1>5. ReadTo(fields, own, c)
  BY <1>1, <1>2, <1>3, <1>4, StructFieldsRead
<1>6. IsStruct(fields, x)
  BY <1>1, <1>3, <1>4, <1>5, FieldsStay
<1> QED
  BY <1>6, RecordCodecs

\* Types without a name are written as no object.
LEMMA ListIsNoObject ==
    ASSUME Codecs, NEW t \in Types, t[1] = "list", NEW v
    PROVE  ~IsObj(ToJson(t, v))
<1>1. ToJson(t, v) = EncodeList(t[2], v)
  BY ListCodecs
<1> QED
  BY <1>1 DEF EncodeList, JArr, IsObj

LEMMA EnumIsNoObject ==
    ASSUME Codecs, NEW T \in DOMAIN Schema, Schema[T][1] = "enum", NEW v
    PROVE  ~IsObj(ToJson(Ref(T), v))
<1>1. PICK t : t = Schema[T]
  OBVIOUS
<1>2. t \in Types
  <2>1. t \in PartsOfNamed(t)
    BY <1>1 DEF PartsOfNamed
  <2> QED
    BY <1>1, <2>1, PartsOfRef, DepthAssumption
<1>3. ToJson(Ref(T), v) = ToJson(t, v)
  <2>1. EncodeNamed(T, t, v) = ToJson(t, v)
    BY <1>1 DEF EncodeNamed
  <2> QED
    BY <1>1, <2>1, NamedCodecs
<1>4. ToJson(t, v) = JStr(v)
  <2>1. Encode(t, v) = JStr(v)
    BY <1>1 DEF Encode
  <2> QED
    BY <1>2, <2>1 DEF Codecs
<1> QED
  BY <1>3, <1>4 DEF JStr, IsObj

\* What is decoded as a struct is a value: records, and what is around one ...
LEMMA StructStays ==
    ASSUME Codecs, NEW A \in DOMAIN Schema, ~IsSum(A), A \notin HandStructs \ {"PO_Cancelled"},
           NEW fields, fields = StructFields(Schema[A]),
           NEW v, IsValue(Ref(A), NoNull(fields, v)), IsObj(ToJson(Ref(A), v)),
           NEW w, Tolerated(fields, ToJson(Ref(A), v), w), NEW x \in FromJson(Ref(A), w)
    PROVE  IsValue(Ref(A), x)
<1>1. PICK body : body = Schema[A]
  OBVIOUS
<1>2. IsRow(A, body) /\ body[1] \notin {"tagged", "choice"}
  <2>1. IsRow(A, body)
    BY <1>1, SchemaAssumption
  <2> QED
    BY <1>1, <2>1 DEF IsSum
<1>3. A \notin HandSums
  BY <1>2 DEF IsRow
<1>4. CASE A \in HandStructs
  <2>1. A = "PO_Cancelled" /\ Schema[A][1] = "own"
    BY <1>4, OwnRow
  <2>2. x = << >>
    BY <2>1, CancelledCodecs
  <2> QED
    BY <2>1, <2>2, CancelledCodecs
<1>5. CASE A \notin HandStructs
  <2>1. \/ IsRecord(A)
        \/ body[1] = "alias" /\ IsAlias(body)
        \/ body[1] = "enum"
    BY <1>2, <1>3, <1>5 DEF IsRow
  <2>2. CASE IsRecord(A)
    <3>1. fields = Schema[A][2]
      BY <2>2 DEF IsRecord, StructFields
    <3> QED
      BY <2>2, <3>1, RecordStays
  <2>3. CASE body[1] = "alias" /\ IsAlias(body)
    <3>1. PICK t : t = body[2]
      OBVIOUS
    <3>2. /\ body = Alias(t)
          /\ t[1] = "list" \/ \E U \in DOMAIN Schema : t = Ref(U) /\ IsRecord(U)
      BY <2>3, <3>1 DEF IsAlias
    <3>3. /\ ToJson(Ref(A), v) = ToJson(t, v) /\ FromJson(Ref(A), w) = FromJson(t, w)
          /\ \A y : IsValue(Ref(A), y) <=> IsValue(t, y)
      BY <1>1, <3>2, AliasCodecs
    <3>4. CASE t[1] = "list"
      <4>1. t \in Types
        <5>1. t \in PartsOfNamed(Schema[A])
          BY <1>1, <2>3, <3>1 DEF PartsOfNamed
        <5> QED
          BY <5>1, PartsOfRef, DepthAssumption
      <4> QED
        BY <3>3, <3>4, <4>1, ListIsNoObject
    <3>5. CASE \E U \in DOMAIN Schema : t = Ref(U) /\ IsRecord(U)
      <4>1. PICK U \in DOMAIN Schema : t = Ref(U) /\ IsRecord(U)
        BY <3>5
      <4>2. fields = Schema[U][2]
        <5>1. body[1] = "alias" /\ body[2][1] = "ref" /\ body[2][2] = U
          BY <3>1, <3>2, <4>1 DEF Alias, Ref
        <5>2. Schema[U][1] = "record"
          BY <4>1 DEF IsRecord
        <5> QED
          BY <1>1, <5>1, <5>2 DEF StructFields
      <4>3. /\ Tolerated(fields, ToJson(Ref(U), v), w) /\ IsValue(Ref(U), NoNull(fields, v))
            /\ x \in FromJson(Ref(U), w)
        BY <3>3, <4>1
      <4>4. IsValue(Ref(U), x)
        BY <4>1, <4>2, <4>3, RecordStays
      <4> QED
        BY <3>3, <4>1, <4>4
    <3> QED
      BY <3>2, <3>4, <3>5
  <2>4. CASE body[1] = "enum"
    BY <1>1, <2>4, EnumIsNoObject
  <2> QED
    BY <2>1, <2>2, <2>3, <2>4
<1> QED
  BY <1>4, <1>5

\* ... and those with a codec written by hand, of which a login may hold what
\* its type makes meaningless.
LEMMA AuthMethodStays ==
    ASSUME Codecs, NEW T, T = "AuthMethod", T \in DOMAIN Schema,
           NEW w, NEW x \in FromJson(Ref(T), w)
    PROVE  /\ IsValue(Ref(T), Canonical(T, x))
           /\ ToJson(Ref(T), Canonical(T, x)) = ToJson(Ref(T), x)
<1>1. PICK c, r : c = Canonical(T, x) /\ r = x
  OBVIOUS
<1>2. Schema[T][1] = "own" /\ NoNull(StructFields(Schema[T]), r) = r
  BY OwnRow DEF HandStructs
<1>3. ~IsSum(T)
  BY <1>2 DEF IsSum
<1>4. c = IF r.type # "terminal" THEN [r EXCEPT !.args = << >>, !.env = << >>] ELSE r
  BY <1>1, <1>2, <1>3 DEF Canonical
<1>5. /\ FromJson(Ref(T), w) = DecodeAuthMethod(w)
      /\ \A y : ToJson(Ref(T), y) = EncodeAuthMethod(y)
      /\ IsValue(Ref(T), c) <=>
             IsAuthMethod(c) /\ (c.type # "terminal" => c.args = << >> /\ c.env = << >>)
  <2>1. DecodeOwn(T, Schema[T][2], w) = DecodeAuthMethod(w)
    BY DEF DecodeOwn
  <2>2. \A y : EncodeOwn(T, Schema[T][2], y) = EncodeAuthMethod(y)
    BY DEF EncodeOwn
  <2>3. IsOwn(T, Schema[T][2], c) <=>
            IsAuthMethod(c) /\ (c.type # "terminal" => c.args = << >> /\ c.env = << >>)
    BY DEF IsOwn
  <2> QED
    BY <1>2, <2>1, <2>2, <2>3, OwnCodecs
<1>6. PICK id, name, desc, type_, args, env, meta :
          /\ id = At(w, "id")[2] /\ name = At(w, "name")[2]
          /\ desc = LenientString(w, "description")
          /\ type_ = The(StringOr(w, "type", "agent"))
          /\ args = IF Holds(w, "args", "arr") THEN Strings(At(w, "args")[2]) ELSE << >>
          /\ env = IF Holds(w, "env", "obj") THEN Strings(At(w, "env")[2]) ELSE << >>
          /\ meta = LenientMeta(w)
  OBVIOUS
<1>7. r = [id |-> id, name |-> name, description |-> desc, type |-> type_,
           args |-> args, env |-> env, _meta |-> meta]
  BY <1>1, <1>5, <1>6 DEF DecodeAuthMethod
<1>8. /\ args = [n \in DOMAIN args |-> args[n]]
      /\ env = [n \in DOMAIN env |-> env[n]]
  <2>1. << >> = [n \in DOMAIN << >> |-> << >>[n]]
    OBVIOUS
  <2>2. \A f : Strings(f) = [n \in DOMAIN Strings(f) |-> Strings(f)[n]]
    BY DEF Strings
  <2>3. args = << >> \/ \E f : args = Strings(f)
    BY <1>6
  <2>4. env = << >> \/ \E f : env = Strings(f)
    BY <1>6
  <2> QED
    BY <2>1, <2>2, <2>3, <2>4
<1>9. IsMaybe(desc) /\ IsObj(meta)
  <2>1. IsMaybe(LenientString(w, "description"))
    BY DEF LenientString, IsMaybe, Just, Nothing, The
  <2>2. IsObj(LenientMeta(w))
    BY DEF LenientMeta, Holds, IsObj, EmptyObj, JObj
  <2> QED
    BY <1>6, <2>1, <2>2
<1>10. CASE type_ = "terminal"
  <2>1. c = r
    BY <1>4, <1>7, <1>10
  <2>2. IsAuthMethod(c) /\ c.type = "terminal"
    BY <1>7, <1>8, <1>9, <1>10, <2>1 DEF IsAuthMethod
  <2> QED
    BY <1>1, <1>5, <2>1, <2>2
<1>11. CASE type_ # "terminal"
  <2>1. c = [id |-> id, name |-> name, description |-> desc, type |-> type_,
             args |-> << >>, env |-> << >>, _meta |-> meta]
    BY <1>4, <1>7, <1>11
  <2>2. << >> = [n \in DOMAIN << >> |-> << >>[n]]
    OBVIOUS
  <2>3. IsAuthMethod(c) /\ c.args = << >> /\ c.env = << >>
    BY <1>8, <1>9, <2>1, <2>2 DEF IsAuthMethod
  <2>4. EncodeAuthMethod(c) = EncodeAuthMethod(r)
    BY <1>7, <1>11, <2>1 DEF EncodeAuthMethod, When
  <2> QED
    BY <1>1, <1>5, <2>3, <2>4
<1> QED
  BY <1>10, <1>11

LEMMA SessionCapabilitiesStay ==
    ASSUME Codecs, NEW T, T = "ClientSessionCapabilities", T \in DOMAIN Schema,
           NEW w, NEW x \in FromJson(Ref(T), w)
    PROVE  IsValue(Ref(T), x)
<1>1. Schema[T][1] = "own"
  BY OwnRow DEF HandStructs
<1>2. /\ FromJson(Ref(T), w) = DecodeClientSessionCapabilities(w)
      /\ IsValue(Ref(T), x) <=> IsClientSessionCapabilities(x)
  <2>1. DecodeOwn(T, Schema[T][2], w) = DecodeClientSessionCapabilities(w)
    BY DEF DecodeOwn
  <2>2. IsOwn(T, Schema[T][2], x) <=> IsClientSessionCapabilities(x)
    BY DEF IsOwn
  <2> QED
    BY <1>1, <2>1, <2>2, OwnCodecs
<1>3. PICK a, b, d, meta :
          /\ x = [compaction |-> a, notices |-> b, booleanConfig |-> d, _meta |-> meta]
          /\ {a, b, d} \subseteq BOOLEAN /\ meta = LenientMeta(w)
  <2>1. PICK a, b, d : /\ a = Holds(w, "compaction", "obj") /\ b = Holds(w, "notices", "obj")
                       /\ d = (Holds(w, "configOptions", "obj")
                               /\ Holds(At(w, "configOptions"), "boolean", "obj"))
    OBVIOUS
  <2>2. x = [compaction |-> a, notices |-> b, booleanConfig |-> d, _meta |-> LenientMeta(w)]
    BY <1>2, <2>1 DEF DecodeClientSessionCapabilities
  <2>3. {a, b, d} \subseteq BOOLEAN
    BY <2>1 DEF Holds
  <2> QED
    BY <2>2, <2>3
<1>4. IsObj(meta)
  BY <1>3 DEF LenientMeta, Holds, IsObj, EmptyObj, JObj
<1>5. IsClientSessionCapabilities(x)
  BY <1>3, <1>4 DEF IsClientSessionCapabilities
<1> QED
  BY <1>2, <1>5

LEMMA ClientCapabilitiesStay ==
    ASSUME Codecs, NEW T, T = "ClientCapabilities", T \in DOMAIN Schema,
           NEW v, IsValue(Ref(T), v),
           NEW w, Tolerated(Schema[T][2], ToJson(Ref(T), v), w), NEW x \in FromJson(Ref(T), w)
    PROVE  IsValue(Ref(T), x)
<1>1. PICK fields, own, base :
          /\ fields = Schema[T][2] /\ own = ToJson(Ref(T), v) /\ base = BaseFields(fields)
  OBVIOUS
<1>2. Schema[T][1] = "own" /\ IsOwnRow(T, fields)
  BY <1>1, OwnRow DEF HandStructs
<1>3. /\ Keys(fields, "member") = Added
      /\ \A i \in How(fields, "member") : fields[i].type = Bool
      /\ IsFields(fields, RecordHows \cup {"member"})
  BY <1>1, <1>2 DEF IsOwnRow
<1>4. /\ DOMAIN base = {i \in DOMAIN fields : fields[i].how # "member"}
      /\ \A i \in DOMAIN base : base[i] = fields[i]
  BY <1>1 DEF BaseFields
<1>5. IsStruct(fields, v) /\ (IsValue(Ref(T), x) <=> IsStruct(fields, x))
  <2>1. \A y : IsOwn(T, fields, y) <=> IsStruct(fields, y)
    BY DEF IsOwn
  <2> QED
    BY <1>1, <1>2, <2>1, OwnCodecs
<1>6. /\ IsFields(base, RecordHows)
      /\ \E u : ReadTo(base, own, u) /\ Over(u, ReadClientMembers(own)) = v
      /\ \A i : FromJson(Ref(T), i)
                = {Over(b, ReadClientMembers(i)) : b \in DecodeRecord(base, i)}
  <2>1. \A s \in Parts(Ref("ClientCapabilities")) : Good(s)
    BY DepthAssumption, EveryTypeIsGood
  <2> QED
    BY <1>1, <2>1, ClientMembersRead
<1>7. PICK u : ReadTo(base, own, u) /\ Over(u, ReadClientMembers(own)) = v
  BY <1>6
<1>8. PICK b \in DecodeRecord(base, w) : x = Over(b, ReadClientMembers(w))
  BY <1>6
<1>9. PICK L, R : L = KeysOfFields(base) /\ R = ReadClientMembers(w)
  OBVIOUS
<1>10. DOMAIN u = L /\ u = [k \in L |-> u[k]]
  <2>1. L = {base[i].key : i \in DOMAIN base}
    BY <1>9 DEF KeysOfFields
  <2> QED
    BY <1>7, <2>1 DEF ReadTo
<1>11. \A i \in DOMAIN base : v[base[i].key] = u[base[i].key]
  <2>1. \A i \in DOMAIN base : base[i].key \in L
    BY <1>9 DEF KeysOfFields
  <2> QED
    BY <1>7, <1>10, <2>1 DEF Over
<1>12. IsStruct(base, u)
  <2>1. \A i \in DOMAIN base : IsField(base[i], v[base[i].key])
    BY <1>4, <1>5 DEF IsStruct
  <2> QED
    BY <1>9, <1>10, <1>11, <2>1 DEF IsStruct
<1>13. Tolerated(base, own, w)
  BY <1>1, <1>4 DEF Tolerated
<1>14. IsStruct(base, b)
  BY <1>6, <1>7, <1>8, <1>12, <1>13, FieldsStay
<1>15. DOMAIN b = L /\ DOMAIN R = Added
  <2>1. b = [k \in L |-> b[k]]
    BY <1>9, <1>14 DEF IsStruct
  <2>2. DOMAIN R = Added
    BY <1>9 DEF ReadClientMembers, Added
  <2> QED
    BY <2>1, <2>2
<1>16. \A k \in Added : R[k] \in BOOLEAN
  <2>1. PICK a, f, g :
            /\ a = (/\ Holds(w, "auth", "obj")
                    /\ Holds(At(w, "auth"), "terminal", "bool")
                    /\ At(At(w, "auth"), "terminal")[2])
            /\ f = (Holds(w, "elicitation", "obj") /\ Holds(At(w, "elicitation"), "form", "obj"))
            /\ g = (Holds(w, "elicitation", "obj") /\ Holds(At(w, "elicitation"), "url", "obj"))
    OBVIOUS
  <2>2. R = [authTerminal |-> a, elicitForm |-> f, elicitUrl |-> g]
    BY <1>9, <2>1 DEF ReadClientMembers
  <2>3. a \in BOOLEAN
    BY <2>1
  <2>4. f \in BOOLEAN /\ g \in BOOLEAN
    BY <2>1 DEF Holds
  <2> QED
    BY <2>2, <2>3, <2>4 DEF Added
<1>17. PICK d : d = [k \in L \cup Added |-> IF k \in L THEN b[k] ELSE R[k]]
  OBVIOUS
<1>18. x = d
  BY <1>8, <1>9, <1>15, <1>17 DEF Over
<1>19. KeysOfFields(fields) = L \cup Added
  <2>1. ASSUME NEW k \in KeysOfFields(fields)
        PROVE  k \in L \cup Added
    <3>1. PICK i \in DOMAIN fields : fields[i].key = k
      BY DEF KeysOfFields
    <3>2. CASE fields[i].how = "member"
      BY <1>3, <3>1, <3>2 DEF Keys, How
    <3>3. CASE fields[i].how # "member"
      BY <1>4, <1>9, <3>1, <3>3 DEF KeysOfFields
    <3> QED
      BY <3>2, <3>3
  <2>2. L \subseteq KeysOfFields(fields)
    BY <1>4, <1>9 DEF KeysOfFields
  <2>3. Added \subseteq KeysOfFields(fields)
    BY <1>3 DEF Keys, How, KeysOfFields
  <2> QED
    BY <2>1, <2>2, <2>3
<1>20. ASSUME NEW i \in DOMAIN fields
       PROVE  IsField(fields[i], d[fields[i].key])
  <2>1. PICK k : k = fields[i].key
    OBVIOUS
  <2>2. CASE fields[i].how = "member"
    <3>1. i \in How(fields, "member") /\ k \in Added
      BY <1>3, <2>1, <2>2 DEF Keys, How
    <3>2. k \notin L
      <4>1. SUFFICES ASSUME NEW n \in DOMAIN base, base[n].key = k
                     PROVE  FALSE
        BY <1>9 DEF KeysOfFields
      <4>2. n \in DOMAIN fields /\ fields[n].key = fields[i].key /\ fields[n].how # "member"
        BY <1>4, <2>1, <4>1
      <4>3. n = i
        BY <1>3, <4>2, FieldRows
      <4> QED
        BY <2>2, <4>2, <4>3
    <3>3. d[k] \in BOOLEAN
      BY <1>16, <1>17, <3>1, <3>2
    <3>4. fields[i].type = Bool /\ Bool \in Types
      BY <1>1, <1>2, <1>3, <3>1, FieldTypes
    <3>5. HasType(Bool, d[k])
      BY <3>3 DEF HasType, Bool
    <3>6. IsValue(Bool, d[k])
      BY <3>4, <3>5 DEF Codecs
    <3> QED
      BY <2>1, <2>2, <3>4, <3>6 DEF IsField
  <2>3. CASE fields[i].how # "member"
    <3>1. i \in DOMAIN base /\ base[i] = fields[i] /\ k \in L
      BY <1>4, <1>9, <2>1, <2>3 DEF KeysOfFields
    <3>2. IsField(base[i], b[base[i].key])
      BY <1>14, <3>1 DEF IsStruct
    <3> QED
      BY <1>17, <2>1, <3>1, <3>2
  <2> QED
    BY <2>2, <2>3
<1>21. d = [k \in KeysOfFields(fields) |-> d[k]]
  BY <1>17, <1>19
<1> QED
  BY <1>5, <1>18, <1>20, <1>21 DEF IsStruct

LEMMA ConfigOptionStays ==
    ASSUME Codecs, NEW T, T = "ConfigOption", T \in DOMAIN Schema,
           NEW v, IsValue(Ref(T), Canonical(T, v)),
           NEW w, SameAt(ToJson(Ref(T), v), w, "options") \/ ~Has(w, "options"),
           NEW x \in FromJson(Ref(T), w)
    PROVE  IsValue(Ref(T), x)
<1>1. PICK fields, own, S, p, c, r :
          /\ fields = Schema[T][2] /\ own = ToJson(Ref(T), v) /\ c = Canonical(T, v)
          /\ S = Ref("ConfigSelectOptions") /\ p = ToJson(S, v.options) /\ r = x
  OBVIOUS
<1>2. /\ Schema[T][1] = "own" /\ IsOwnRow(T, fields)
      /\ "ConfigSelectOptions" \in DOMAIN Schema
  <2>1. Schema[T][1] = "own" /\ IsOwnRow(T, fields)
    BY <1>1, OwnRow DEF HandStructs
  <2> QED
    BY <2>1 DEF IsOwnRow
<1>3. PICK options :
          options = IF Has(w, "options") THEN FromJson(S, At(w, "options")) ELSE {}
  OBVIOUS
<1>4. /\ own = EncodeConfigOption(v, p) /\ r \in DecodeConfigOption(w, options)
      /\ \A y : IsValue(Ref(T), y) <=>
             /\ IsConfigOption(y)
             /\ IF IsBoolean(y)
                THEN y.currentValue = "" /\ y.options = <<"CSO_Ungrouped", << >>>>
                ELSE y.currentBool = FALSE /\ IsValue(S, y.options)
  <2>1. EncodeOwn(T, fields, v) = EncodeConfigOption(v, p)
    BY <1>1 DEF EncodeOwn
  <2>2. DecodeOwn(T, fields, w) = DecodeConfigOption(w, options)
    BY <1>1, <1>3 DEF DecodeOwn
  <2>3. \A y : IsOwn(T, fields, y) <=>
             /\ IsConfigOption(y)
             /\ IF IsBoolean(y)
                THEN y.currentValue = "" /\ y.options = <<"CSO_Ungrouped", << >>>>
                ELSE y.currentBool = FALSE /\ IsValue(S, y.options)
    BY <1>1 DEF IsOwn
  <2> QED
    BY <1>1, <1>2, <2>1, <2>2, <2>3, OwnCodecs
<1>5. PICK t : t = The(StringOr(w, "type", "select"))
  OBVIOUS
<1>6. PICK id, name, desc, cat, cur, bool, opts, meta :
          /\ r = [id |-> id, name |-> name, description |-> desc, category |-> cat, type |-> t,
                  currentValue |-> cur, currentBool |-> bool, options |-> opts,
                  _meta |-> meta]
          /\ desc = LenientString(w, "description") /\ cat = LenientString(w, "category")
          /\ meta = LenientMeta(w)
          /\ t = "boolean" => cur = "" /\ opts = <<"CSO_Ungrouped", << >>>>
          /\ t # "boolean" => bool = FALSE /\ opts \in options
  <2>1. CASE t = "boolean"
    BY <1>4, <1>5, <2>1 DEF DecodeConfigOption
  <2>2. CASE t # "boolean"
    BY <1>4, <1>5, <2>2 DEF DecodeConfigOption
  <2> QED
    BY <2>1, <2>2
<1>7. IsMaybe(desc) /\ IsMaybe(cat) /\ IsObj(meta)
  <2>1. \A k : IsMaybe(LenientString(w, k))
    BY DEF LenientString, IsMaybe, Just, Nothing, The
  <2>2. IsObj(LenientMeta(w))
    BY DEF LenientMeta, Holds, IsObj, EmptyObj, JObj
  <2> QED
    BY <1>6, <2>1, <2>2
<1>8. IsConfigOption(r)
  BY <1>6, <1>7 DEF IsConfigOption
<1>9. CASE t = "boolean"
  <2>1. IsBoolean(r) /\ r.currentValue = "" /\ r.options = <<"CSO_Ungrouped", << >>>>
    BY <1>6, <1>9 DEF IsBoolean
  <2> QED
    BY <1>1, <1>4, <1>8, <2>1
<1>10. CASE t # "boolean"
  <2>1. Has(w, "options") /\ opts \in FromJson(S, At(w, "options"))
    BY <1>3, <1>6, <1>10
  <2>2. Has(own, "options") /\ At(w, "options") = At(own, "options")
    BY <1>1, <2>1 DEF SameAt
  <2>3. ~IsBoolean(v) /\ At(own, "options") = p
    <3>1. PICK y : y = IF IsBoolean(v) THEN JBool(v.currentBool) ELSE JStr(v.currentValue)
      OBVIOUS
    <3>2. PICK M : M = {<<"id", JStr(v.id)>>, <<"name", JStr(v.name)>>,
                        <<"type", JStr(v.type)>>, <<"currentValue", y>>}
                       \cup When(v.description # Nothing, "description", JStr(The(v.description)))
                       \cup When(v.category # Nothing, "category", JStr(The(v.category)))
                       \cup When(~IsBoolean(v), "options", p)
                       \cup When(v._meta # EmptyObj, "_meta", v._meta)
      OBVIOUS
    <3>3. own = ObjOf(M)
      BY <1>4, <3>1, <3>2 DEF EncodeConfigOption
    <3>4. \A m, n \in M : m[1] = n[1] => m = n
      BY <3>2 DEF When
    <3>5. ~IsBoolean(v)
      <4>1. SUFFICES ASSUME IsBoolean(v) PROVE FALSE
        OBVIOUS
      <4>2. \A m \in M : m[1] # "options"
        BY <3>2, <4>1 DEF When
      <4> QED
        BY <2>2, <3>3, <4>2, ObjOfAbsent
    <3>6. <<"options", p>> \in M
      BY <3>2, <3>5 DEF When
    <3> QED
      BY <3>3, <3>4, <3>5, <3>6, ObjOfMember
  <2>4. PICK q : q = NoneUngrouped(v.options)
    OBVIOUS
  <2>5. IsValue(S, q)
    <3>1. c = [v EXCEPT !.currentBool = FALSE, !.options = q]
      BY <1>1, <2>3, <2>4 DEF Canonical
    <3>2. IsConfigOption(c)
      BY <1>1, <1>4
    <3>3. DOMAIN c = {"id", "name", "description", "category", "type", "currentValue",
                      "currentBool", "options", "_meta"}
      BY <3>2 DEF IsConfigOption
    <3>4. c.type = v.type /\ c.options = q
      BY <3>1, <3>3
    <3>5. ~IsBoolean(c) /\ c.options = q
      BY <2>3, <3>4 DEF IsBoolean
    <3> QED
      BY <1>1, <1>4, <3>5
  <2>6. FromJson(S, ToJson(S, q)) = {q} /\ ToJson(S, q) = p
    <3>1. Good(S)
      BY <1>1, <1>2, DepthAssumption, EveryTypeIsGood
    <3>2. ToJson(S, q) = p
      BY <1>1, <1>2, <2>4, NoGroupsAreNoOptions
    <3> QED
      BY <2>5, <3>1, <3>2 DEF Good
  <2>7. opts = q
    BY <2>1, <2>2, <2>3, <2>6
  <2>8. ~IsBoolean(r) /\ r.currentBool = FALSE /\ r.options = opts
    BY <1>6, <1>10 DEF IsBoolean
  <2> QED
    BY <1>1, <1>4, <1>8, <2>5, <2>7, <2>8
<1> QED
  BY <1>9, <1>10

\* A value is its own canonical form.
LEMMA StructCanonical ==
    ASSUME Codecs, NEW A \in DOMAIN Schema, ~IsSum(A), NEW y, IsValue(Ref(A), y)
    PROVE  NoNull(StructFields(Schema[A]), y) = y
<1>1. PICK body, fields : body = Schema[A] /\ fields = StructFields(body)
  OBVIOUS
<1>2. IsRow(A, body) /\ body[1] \notin {"tagged", "choice"}
  <2>1. IsRow(A, body)
    BY <1>1, SchemaAssumption
  <2> QED
    BY <1>1, <2>1 DEF IsSum
<1>3. CASE A \in HandStructs
  BY <1>3, OwnRow
<1>4. CASE fields = << >>
  BY <1>1, <1>4, NoRawMaybes
<1>5. ASSUME NEW U, IsRecord(U), fields = Schema[U][2], IsValue(Ref(U), y)
      PROVE  NoNull(fields, y) = y
  BY <1>5, RecordCodecs, StructIsCanonical
<1>6. CASE A \notin HandStructs
  <2>1. \/ IsRecord(A)
        \/ body[1] = "alias" /\ IsAlias(body)
        \/ body[1] = "enum"
    BY <1>2, <1>6 DEF IsRow
  <2>2. CASE IsRecord(A)
    <3>1. fields = Schema[A][2]
      BY <1>1, <2>2 DEF IsRecord, StructFields
    <3> QED
      BY <1>1, <1>5, <2>2, <3>1
  <2>3. CASE body[1] = "alias" /\ IsAlias(body)
    <3>1. PICK t : t = body[2]
      OBVIOUS
    <3>2. /\ body = Alias(t)
          /\ t[1] = "list" \/ \E U \in DOMAIN Schema : t = Ref(U) /\ IsRecord(U)
      BY <2>3, <3>1 DEF IsAlias
    <3>3. CASE t[1] = "list"
      <4>1. fields = << >>
        BY <1>1, <2>3, <3>1, <3>3 DEF StructFields
      <4> QED
        BY <1>4, <4>1
    <3>4. CASE \E U \in DOMAIN Schema : t = Ref(U) /\ IsRecord(U)
      <4>1. PICK U \in DOMAIN Schema : t = Ref(U) /\ IsRecord(U)
        BY <3>4
      <4>2. body[2][1] = "ref" /\ body[2][2] = U /\ Schema[U][1] = "record"
        BY <3>1, <4>1 DEF Ref, IsRecord
      <4>3. fields = Schema[U][2]
        BY <1>1, <2>3, <4>2 DEF StructFields
      <4>4. IsValue(Ref(U), y)
        BY <1>1, <3>2, <4>1, AliasCodecs
      <4> QED
        BY <1>1, <1>5, <4>1, <4>3, <4>4
    <3> QED
      BY <3>2, <3>3, <3>4
  <2>4. CASE body[1] = "enum"
    <3>1. fields = << >>
      BY <1>1, <2>4 DEF StructFields
    <3> QED
      BY <1>4, <3>1
  <2> QED
    BY <2>1, <2>2, <2>3, <2>4
<1> QED
  BY <1>3, <1>6

\* A value of a sum is one of an arm, which is a struct.
LEMMA ValueOfSum ==
    ASSUME Codecs, NEW T \in DOMAIN Schema, IsSum(T), T # "ConfigSelectOptions",
           NEW c, IsValue(Ref(T), c)
    PROVE  /\ c = <<c[1], c[2]>> /\ IsValue(Ref(c[1]), c[2])
           /\ c[1] \in DOMAIN Schema /\ ~IsSum(c[1])
<1>1. IsNamed(T, Schema[T], c)
  BY NamedCodecs
<1>2. CASE T \in HandSums
  <2>1. PICK arms : arms = Schema[T][2]
    OBVIOUS
  <2>2. Schema[T][1] = "choice" /\ IsChoice(T, arms)
    BY <1>2, <2>1, HandSumRow
  <2>3. IsArm({arms[i] : i \in DOMAIN arms}, c)
    BY <1>1, <2>1, <2>2 DEF IsNamed
  <2>4. PICK n \in DOMAIN arms : c[1] = arms[n]
    BY <2>3 DEF IsArm
  <2>5. IsRecord(c[1])
    <3>1. CASE T = "McpServer"
      BY <2>2, <2>4, <3>1 DEF IsChoice, Lacks
    <3>2. CASE T = "EmbeddedResource"
      BY <2>2, <2>4, <3>2 DEF IsChoice, Lacks
    <3>3. CASE T = "AvailableCommandInput"
      BY <2>2, <2>4, <3>3 DEF IsChoice, Lacks
    <3> QED
      BY <1>2, <3>1, <3>2, <3>3 DEF HandSums
  <2> QED
    BY <2>3, <2>5 DEF IsArm, IsRecord, IsSum
<1>3. CASE T \notin HandSums
  <2>1. PICK key, arms : key = Schema[T][2] /\ arms = Schema[T][3]
    OBVIOUS
  <2>2. Schema[T][1] = "tagged" /\ IsTagged(key, arms)
    BY <1>3, <2>1, SumRow
  <2>3. IsArm({arms[i].type : i \in DOMAIN arms}, c)
    BY <1>1, <2>1, <2>2 DEF IsNamed
  <2>4. PICK n \in DOMAIN arms : c[1] = arms[n].type
    BY <2>3 DEF IsArm
  <2>5. Taggable(c[1], key)
    BY <2>2, <2>4 DEF IsTagged
  <2>6. c[1] \in DOMAIN Schema /\ ~IsSum(c[1])
    BY <2>5, TaggableIsStruct
  <2> QED
    BY <2>3, <2>6 DEF IsArm
<1> QED
  BY <1>2, <1>3

LEMMA CanonicalOfValue ==
    ASSUME Codecs, NEW T \in DOMAIN Schema, NEW c, IsValue(Ref(T), c)
    PROVE  Canonical(T, c) = c
<1>1. CASE T = "ConfigSelectOptions"
  <2>1. Schema[T][1] = "choice"
    BY <1>1, SelectOptionsRow
  <2>2. c[1] = "CSO_Grouped" => c[2] # << >>
    BY <2>1, ChoiceCodecs
  <2>3. c # <<"CSO_Grouped", << >>>>
    BY <2>2
  <2> QED
    BY <1>1, <2>3 DEF Canonical, NoneUngrouped
<1>2. CASE T = "AuthMethod"
  <2>1. Schema[T][1] = "own" /\ NoNull(StructFields(Schema[T]), c) = c
    BY <1>2, OwnRow DEF HandStructs
  <2>2. ~IsSum(T)
    BY <2>1 DEF IsSum
  <2>3. IsAuthMethod(c) /\ (c.type # "terminal" => c.args = << >> /\ c.env = << >>)
    BY <1>2, <2>1, OwnCodecs DEF IsOwn
  <2>4. PICK id, name, desc, type_, args, env, meta :
            c = [id |-> id, name |-> name, description |-> desc, type |-> type_,
                 args |-> args, env |-> env, _meta |-> meta]
    BY <2>3 DEF IsAuthMethod
  <2>5. CASE c.type # "terminal"
    <3>1. args = << >> /\ env = << >>
      BY <2>3, <2>4, <2>5
    <3>2. [c EXCEPT !.args = << >>, !.env = << >>] = c
      <4>1. PICK none, d : none = << >> /\ d = [c EXCEPT !.args = none, !.env = none]
        OBVIOUS
      <4>2. d = [id |-> id, name |-> name, description |-> desc, type |-> type_,
                 args |-> none, env |-> none, _meta |-> meta]
        BY <2>4, <4>1
      <4> QED
        BY <2>4, <3>1, <4>1, <4>2
    <3> QED
      BY <1>2, <2>5, <3>2 DEF Canonical
  <2>6. CASE c.type = "terminal"
    BY <1>2, <2>1, <2>2, <2>6 DEF Canonical
  <2> QED
    BY <2>5, <2>6
<1>3. CASE T = "ConfigOption"
  <2>1. Schema[T][1] = "own" /\ IsOwnRow(T, Schema[T][2])
    BY <1>3, OwnRow DEF HandStructs
  <2>2. /\ IsConfigOption(c)
        /\ IF IsBoolean(c)
           THEN c.currentValue = "" /\ c.options = <<"CSO_Ungrouped", << >>>>
           ELSE c.currentBool = FALSE /\ IsValue(Ref("ConfigSelectOptions"), c.options)
    BY <1>3, <2>1, OwnCodecs DEF IsOwn
  <2>3. PICK id, name, desc, cat, type_, cur, bool, opts, meta :
            c = [id |-> id, name |-> name, description |-> desc, category |-> cat,
                 type |-> type_, currentValue |-> cur, currentBool |-> bool,
                 options |-> opts, _meta |-> meta]
    BY <2>2 DEF IsConfigOption
  <2>4. CASE IsBoolean(c)
    <3>1. cur = "" /\ opts = <<"CSO_Ungrouped", << >>>>
      BY <2>2, <2>3, <2>4
    <3>2. [c EXCEPT !.currentValue = "", !.options = <<"CSO_Ungrouped", << >>>>] = c
      <4>1. PICK none, d : /\ none = <<"CSO_Ungrouped", << >>>>
                           /\ d = [c EXCEPT !.currentValue = "", !.options = none]
        OBVIOUS
      <4>2. d = [id |-> id, name |-> name, description |-> desc, category |-> cat,
                 type |-> type_, currentValue |-> "", currentBool |-> bool,
                 options |-> none, _meta |-> meta]
        BY <2>3, <4>1
      <4> QED
        BY <2>3, <3>1, <4>1, <4>2
    <3> QED
      BY <1>3, <2>4, <3>2 DEF Canonical
  <2>5. CASE ~IsBoolean(c)
    <3>1. bool = FALSE /\ IsValue(Ref("ConfigSelectOptions"), opts)
      BY <2>2, <2>3, <2>5
    <3>2. NoneUngrouped(opts) = opts
      <4>1. PICK S : S = "ConfigSelectOptions"
        OBVIOUS
      <4>2. S \in DOMAIN Schema
        BY <1>3, <2>1, <4>1 DEF IsOwnRow
      <4>3. Schema[S][1] = "choice"
        BY <4>1, <4>2, SelectOptionsRow
      <4>4. opts[1] = "CSO_Grouped" => opts[2] # << >>
        BY <3>1, <4>1, <4>2, <4>3, ChoiceCodecs
      <4>5. opts # <<"CSO_Grouped", << >>>>
        BY <4>4
      <4> QED
        BY <4>5 DEF NoneUngrouped
    <3>3. [c EXCEPT !.currentBool = FALSE, !.options = NoneUngrouped(@)] = c
      <4>1. PICK d : d = [c EXCEPT !.currentBool = FALSE, !.options = opts]
        OBVIOUS
      <4>2. d = [id |-> id, name |-> name, description |-> desc, category |-> cat,
                 type |-> type_, currentValue |-> cur, currentBool |-> FALSE,
                 options |-> opts, _meta |-> meta]
        BY <2>3, <4>1
      <4>3. c.options = opts
        BY <2>3
      <4>4. d = [c EXCEPT !.currentBool = FALSE, !.options = NoneUngrouped(@)]
        BY <3>2, <4>1, <4>3
      <4> QED
        BY <2>3, <3>1, <4>2, <4>4
    <3> QED
      BY <1>3, <2>5, <3>3 DEF Canonical
  <2> QED
    BY <2>4, <2>5
<1>4. CASE T \notin {"ConfigSelectOptions", "AuthMethod", "ConfigOption"} /\ ~IsSum(T)
  <2>1. Canonical(T, c) = NoNull(StructFields(Schema[T]), c)
    BY <1>4 DEF Canonical
  <2> QED
    BY <1>4, <2>1, StructCanonical
<1>5. CASE T \notin {"ConfigSelectOptions", "AuthMethod", "ConfigOption"} /\ IsSum(T)
  <2>1. Canonical(T, c) = <<c[1], NoNull(StructFields(Schema[c[1]]), c[2])>>
    BY <1>5 DEF Canonical
  <2>2. c = <<c[1], c[2]>> /\ IsValue(Ref(c[1]), c[2]) /\ c[1] \in DOMAIN Schema /\ ~IsSum(c[1])
    BY <1>5, ValueOfSum
  <2> QED
    BY <2>1, <2>2, StructCanonical
<1> QED
  BY <1>1, <1>2, <1>3, <1>4, <1>5

\* What a wire form decodes to of which nothing was refused is a value, but for
\* what the type of a login makes meaningless in it.
LEMMA TypeStays ==
    ASSUME Codecs, NEW T \in DOMAIN Schema, ~IsSum(T),
           NEW v, IsValue(Ref(T), Canonical(T, v)), IsObj(ToJson(Ref(T), v)),
           NEW w, Tolerated(StructFields(Schema[T]), ToJson(Ref(T), v), w),
           T = "ConfigOption" => SameAt(ToJson(Ref(T), v), w, "options") \/ ~Has(w, "options"),
           NEW x \in FromJson(Ref(T), w)
    PROVE  /\ IsValue(Ref(T), Canonical(T, x))
           /\ ToJson(Ref(T), Canonical(T, x)) = ToJson(Ref(T), x)
<1>1. PICK fields : fields = StructFields(Schema[T])
  OBVIOUS
<1>2. ASSUME IsValue(Ref(T), x)
      PROVE  /\ IsValue(Ref(T), Canonical(T, x))
             /\ ToJson(Ref(T), Canonical(T, x)) = ToJson(Ref(T), x)
  <2>1. Canonical(T, x) = x
    BY <1>2, CanonicalOfValue
  <2> QED
    BY <1>2, <2>1
<1>3. T \notin {"AuthMethod", "ConfigOption"} => Canonical(T, v) = NoNull(fields, v)
  <2>1. T # "ConfigSelectOptions"
    BY SelectOptionsRow DEF IsSum
  <2> QED
    BY <1>1, <2>1 DEF Canonical
<1>4. CASE T \in HandStructs \ {"PO_Cancelled"}
  <2>1. fields = Schema[T][2] /\ NoNull(fields, v) = v
    BY <1>1, <1>4, OwnRow
  <2>2. CASE T = "AuthMethod"
    BY <2>2, AuthMethodStays
  <2>3. CASE T = "ClientSessionCapabilities"
    BY <1>2, <2>3, SessionCapabilitiesStay
  <2>4. CASE T = "ClientCapabilities"
    <3>1. IsValue(Ref(T), v) /\ Tolerated(Schema[T][2], ToJson(Ref(T), v), w)
      BY <1>1, <1>3, <2>1, <2>4
    <3> QED
      BY <1>2, <2>4, <3>1, ClientCapabilitiesStay
  <2>5. CASE T = "ConfigOption"
    BY <1>2, <2>5, ConfigOptionStays
  <2> QED
    BY <1>4, <2>2, <2>3, <2>4, <2>5 DEF HandStructs
<1>5. CASE T \notin HandStructs \ {"PO_Cancelled"}
  <2>1. IsValue(Ref(T), NoNull(fields, v))
    BY <1>3, <1>5 DEF HandStructs
  <2>2. IsValue(Ref(T), x)
    BY <1>1, <1>5, <2>1, StructStays
  <2> QED
    BY <1>2, <2>2
<1> QED
  BY <1>4, <1>5

LEMMA SumStays ==
    ASSUME Codecs, NEW T \in DOMAIN Schema, IsSum(T), NEW v, IsValue(Ref(T), Canonical(T, v)),
           NEW w, Tampered(T, v, w), Tolerated(FieldsOf(T, v), ToJson(Ref(T), v), w),
           NEW x \in FromJson(Ref(T), w)
    PROVE  IsValue(Ref(T), x)
<1>1. PICK own, A, fields, j :
          /\ own = ToJson(Ref(T), v) /\ A = v[1] /\ fields = StructFields(Schema[A])
          /\ j = ToJson(Ref(A), v[2])
  OBVIOUS
<1>2. IsObj(own) /\ Tolerated(fields, own, w)
  BY <1>1 DEF Tampered, FieldsOf
<1>3. /\ A \in DOMAIN Schema /\ ~IsSum(A) /\ A \notin HandStructs \ {"PO_Cancelled"}
      /\ IsValue(Ref(A), NoNull(fields, v[2])) /\ IsObj(j)
      /\ \A k \in KeysOfFields(fields) : SameAt(j, own, k)
  BY <1>1, <1>2, ArmIsStruct
<1>4. Tolerated(fields, j, w)
  <2>1. ASSUME NEW i \in DOMAIN fields, SameAt(own, w, fields[i].key)
        PROVE  SameAt(j, w, fields[i].key)
    <3>1. SameAt(j, own, fields[i].key)
      BY <1>3 DEF KeysOfFields
    <3> QED
      BY <2>1, <3>1 DEF SameAt
  <2> QED
    BY <1>2, <2>1 DEF Tolerated
<1>5. x[1] = A /\ x[2] \in FromJson(Ref(A), w)
  BY <1>1, ArmStays
<1>6. IsValue(Ref(A), x[2])
  <2>1. PICK y, u : y = x[2] /\ u = v[2]
    OBVIOUS
  <2>2. /\ IsValue(Ref(A), NoNull(fields, u)) /\ IsObj(ToJson(Ref(A), u))
        /\ Tolerated(fields, ToJson(Ref(A), u), w) /\ y \in FromJson(Ref(A), w)
    BY <1>1, <1>3, <1>4, <1>5, <2>1
  <2>3. IsValue(Ref(A), y)
    BY <1>1, <1>3, <2>2, StructStays
  <2> QED
    BY <2>1, <2>3
<1>7. T # "ConfigSelectOptions"
  BY <1>1, <1>2, OptionsAreNoObject
<1>8. CASE T \in HandSums
  <2>1. PICK arms : arms = Schema[T][2]
    OBVIOUS
  <2>2. Schema[T][1] = "choice" /\ IsChoice(T, arms)
    BY <1>8, <2>1, HandSumRow
  <2>3. PICK n \in DOMAIN arms : A = arms[n]
    BY <1>1, <1>7, <2>1, <2>2, ValueArm
  <2>4. x = <<x[1], x[2]>>
    BY <1>8, ChoiceArm
  <2>5. IsArm({arms[i] : i \in DOMAIN arms}, x)
    BY <1>5, <1>6, <2>3, <2>4 DEF IsArm
  <2>6. A # "CSO_Grouped"
    <3>1. CASE T = "McpServer"
      BY <2>2, <2>3, <3>1 DEF IsChoice
    <3>2. CASE T = "EmbeddedResource"
      BY <2>2, <2>3, <3>2 DEF IsChoice
    <3>3. CASE T = "AvailableCommandInput"
      BY <2>2, <2>3, <3>3 DEF IsChoice
    <3> QED
      BY <1>7, <1>8, <3>1, <3>2, <3>3 DEF HandSums
  <2> QED
    BY <1>5, <2>1, <2>2, <2>5, <2>6, ChoiceCodecs
<1>9. CASE T \notin HandSums
  <2>1. PICK arms : arms = Schema[T][3]
    OBVIOUS
  <2>2. Schema[T][1] = "tagged" /\ IsTagged(Schema[T][2], arms)
    BY <1>9, <2>1, SumRow
  <2>3. PICK n \in DOMAIN arms : A = arms[n].type
    BY <1>1, <1>7, <2>1, <2>2, ValueArm
  <2>4. x = <<x[1], x[2]>>
    BY <2>1, <2>2, TaggedArm
  <2>5. IsArm({arms[i].type : i \in DOMAIN arms}, x)
    BY <1>5, <1>6, <2>3, <2>4 DEF IsArm
  <2>6. IsNamed(T, Schema[T], x)
    BY <2>1, <2>2, <2>5 DEF IsNamed
  <2> QED
    BY <2>6, NamedCodecs
<1> QED
  BY <1>8, <1>9

\* The changes of a peer that were not refused are such.
LEMMA EditsTolerated ==
    ASSUME Codecs, type \in DOMAIN Schema, members = MembersOf(type, value),
           IsValue(Ref(type), Canonical(type, value)), EditsInv,
           NEW w, IsEdited(w), edits # {}, FromJson(Ref(type), w) # {}
    PROVE  Tolerated(FieldsOf(type, value), OwnForm, w)
<1>1. PICK fields, own : fields = FieldsOf(type, value) /\ own = OwnForm
  OBVIOUS
<1>2. /\ IsObj(w) /\ IsObj(own) /\ SameBut(own, w, EditedKeys)
      /\ \A e \in edits : Shows(w, e[1], e[2])
  BY <1>1 DEF IsEdited
<1>3. /\ IsFields(fields, RecordHows \cup {"member"})
      /\ Unheard \notin KeysOfFields(fields)
  BY <1>1, FieldsOfRow
<1>4. /\ \A i, k \in DOMAIN fields : fields[i].key = fields[k].key => i = k
      /\ \A i \in DOMAIN fields :
             /\ fields[i].how \in RecordHows \cup {"member"}
             /\ fields[i].how = "meta" <=> fields[i].key = "_meta"
  BY <1>3, FieldRows
<1>5. ASSUME NEW i \in DOMAIN fields
      PROVE  \/ SameAt(own, w, fields[i].key)
             \/ Absent(fields[i], w)
             \/ fields[i].how = "meta"
  <2>1. PICK f, k : f = fields[i] /\ k = f.key
    OBVIOUS
  <2>2. CASE k \notin EditedKeys
    <3>1. SameAt(own, w, k)
      BY <1>2, <2>2 DEF SameBut, SameAt, Has
    <3> QED
      BY <2>1, <3>1
  <2>3. CASE k \in EditedKeys
    <3>1. PICK e \in edits : e[2] = k
      BY <2>3 DEF EditedKeys
    <3>2. PICK op : op = e[1]
      OBVIOUS
    <3>3. IsEdit(op, k) /\ Shows(w, op, k)
      BY <1>2, <3>1, <3>2 DEF EditsInv
    <3>4. ~ (op \in {"drop", "break"} /\ k \in RequiredKeys)
      <4>1. SUFFICES ASSUME e[1] \in {"drop", "break"}, e[2] \in RequiredKeys PROVE FALSE
        BY <3>1, <3>2
      <4> QED
        BY <4>1, EditRefused
    <3>5. k # Unheard
      BY <1>3, <2>1 DEF KeysOfFields
    <3>6. ASSUME NEW how \in {"optional", "defaulted"}, k \in KeysThat(how)
          PROVE  f.how = how
      <4>1. PICK m \in members : m.how = how /\ m.key = k
        BY <3>6 DEF KeysThat
      <4>2. PICK n \in DOMAIN fields : m = fields[n]
        BY <1>1, <3>6, <4>1, MemberIsField
      <4> QED
        BY <1>4, <2>1, <4>1, <4>2
    <3>7. CASE op = "meta"
      <4>1. k = "_meta"
        BY <3>3, <3>7 DEF IsEdit
      <4> QED
        BY <1>4, <2>1, <4>1
    <3>8. CASE op = "drop"
      <4>1. f.how \in {"optional", "defaulted"}
        BY <3>3, <3>4, <3>6, <3>8 DEF IsEdit
      <4>2. ~Has(w, k)
        BY <3>3, <3>8 DEF Shows
      <4> QED
        BY <2>1, <4>1, <4>2 DEF Absent
    <3>9. CASE op = "null"
      <4>1. f.how = "optional"
        BY <3>3, <3>6, <3>9 DEF IsEdit
      <4>2. Has(w, k) /\ At(w, k) = JNull
        BY <3>3, <3>9 DEF Shows
      <4> QED
        BY <2>1, <4>1, <4>2 DEF Absent
    <3>10. op # "break"
      <4>1. BreakableKeys \subseteq RequiredKeys
        BY DEF BreakableKeys, RequiredKeys
      <4> QED
        BY <3>3, <3>4, <4>1 DEF IsEdit
    <3> QED
      BY <3>3, <3>5, <3>7, <3>8, <3>9, <3>10 DEF IsEdit
  <2> QED
    BY <2>2, <2>3
<1> QED
  BY <1>1, <1>5 DEF Tolerated

\* Whatever a peer changed, what was decoded is a value again but for what the
\* hop drops: its wire form reads as the value, and is written as it is from
\* then on (tests/spec_round_trip.cpp:11-21).
THEOREM RelayStable ==
    ASSUME Codecs
    PROVE  RelaySpec => []StableAfterOneHop
<1>1. RelayInv => StableAfterOneHop
  <2>1. SUFFICES ASSUME RelayInv, phase = "forwarded"
                 PROVE  /\ FromJson(Ref(type), wire) = {Canonical(type, The(got))}
                        /\ ToJson(Ref(type), Canonical(type, The(got))) = wire
    BY DEF StableAfterOneHop
  <2>2. /\ type \in DOMAIN Samples /\ value \in Samples[type]
        /\ members = MembersOf(type, value) /\ EditsInv
        /\ got # {} /\ wire = ToJson(Ref(type), The(got))
        /\ \E w : IsEdited(w) /\ got = FromJson(Ref(type), w)
    BY <2>1 DEF RelayInv, GotInv
  <2>3. type \in DOMAIN Schema /\ IsValue(Ref(type), Canonical(type, value))
    BY <2>2, RelayAssumption
  <2>4. PICK w : IsEdited(w) /\ got = FromJson(Ref(type), w)
    BY <2>2
  <2>5. PICK x : x = The(got)
    OBVIOUS
  <2>6. x \in FromJson(Ref(type), w) /\ wire = ToJson(Ref(type), x)
    BY <2>2, <2>4, <2>5 DEF The
  <2>7. /\ IsValue(Ref(type), Canonical(type, x))
        /\ ToJson(Ref(type), Canonical(type, x)) = ToJson(Ref(type), x)
    <3>1. ASSUME IsValue(Ref(type), x)
          PROVE  /\ IsValue(Ref(type), Canonical(type, x))
                 /\ ToJson(Ref(type), Canonical(type, x)) = ToJson(Ref(type), x)
      <4>1. Canonical(type, x) = x
        BY <2>3, <3>1, CanonicalOfValue
      <4> QED
        BY <3>1, <4>1
    <3>2. CASE edits = {}
      <4>1. w = ToJson(Ref(type), value)
        BY <2>4, <3>2 DEF IsEdited, OwnForm
      <4>2. x = Canonical(type, value)
        BY <2>3, <2>6, <4>1, CanonicalReads
      <4> QED
        BY <2>3, <3>1, <4>2
    <3>3. CASE edits # {}
      <4>1. Tolerated(FieldsOf(type, value), OwnForm, w)
        BY <2>2, <2>3, <2>4, <2>6, <3>3, EditsTolerated
      <4>2. CASE IsSum(type)
        <5>1. Tampered(type, value, w)
          BY <2>2, <2>3, <2>4, <3>3, <4>2, EditedIsTampered
        <5>2. Tolerated(FieldsOf(type, value), ToJson(Ref(type), value), w)
          BY <4>1 DEF OwnForm
        <5>3. IsValue(Ref(type), x)
          BY <2>3, <2>6, <4>2, <5>1, <5>2, SumStays
        <5> QED
          BY <3>1, <5>3
      <4>3. CASE ~IsSum(type)
        <5>1. /\ Tolerated(StructFields(Schema[type]), ToJson(Ref(type), value), w)
              /\ IsObj(ToJson(Ref(type), value))
          BY <2>4, <3>3, <4>1, <4>3 DEF FieldsOf, OwnForm, IsEdited
        <5>2. type = "ConfigOption" =>
                  SameAt(ToJson(Ref(type), value), w, "options") \/ ~Has(w, "options")
          BY <2>2, <2>3, <2>4, <3>3, ConfigOptionEdited DEF OwnForm
        <5> QED
          BY <2>3, <2>6, <4>3, <5>1, <5>2, TypeStays
      <4> QED
        BY <4>2, <4>3
    <3> QED
      BY <3>2, <3>3
  <2>8. FromJson(Ref(type), wire) = {Canonical(type, x)}
    BY <2>3, <2>6, <2>7, CanonicalReads
  <2> QED
    BY <2>5, <2>6, <2>7, <2>8
<1> QED
  BY <1>1, RelayInvInductive, PTL DEF RelaySpec
=============================================================================
