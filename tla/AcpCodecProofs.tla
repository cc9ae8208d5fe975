---------------------------- MODULE AcpCodecProofs ----------------------------
(***************************************************************************)
(* Theorems about one level of the codecs: those written by hand, for      *)
(* every value and every JSON they are given, and those that are described *)
(* by fields or arms, for any description.                                 *)
(***************************************************************************)
EXTENDS AcpHandCodec, AcpRecord, TLAPS

-----------------------------------------------------------------------------
(***************************************************************************)
(* Objects.                                                                *)
(***************************************************************************)
\* An object built from members has their keys ...
LEMMA ObjOfHas ==
    ASSUME NEW S, NEW k
    PROVE  /\ IsObj(ObjOf(S))
           /\ Has(ObjOf(S), k) <=> \E m \in S : m[1] = k
BY DEF IsObj, Has, ObjOf, JObj, FunctionOf

\* ... and, if no key has two members, their values.
LEMMA ObjOfAt ==
    ASSUME NEW S, \A m, n \in S : m[1] = n[1] => m = n,
           NEW m \in S
    PROVE  At(ObjOf(S), m[1]) = m[2]
<1>1. (CHOOSE n \in S : n[1] = m[1]) = m
  OBVIOUS
<1> QED
  BY <1>1 DEF At, ObjOf, JObj, FunctionOf

\* What j.contains(k) && j[k].is_<kind>() says of it.
LEMMA ObjOfHolds ==
    ASSUME NEW S, \A m, n \in S : m[1] = n[1] => m = n,
           NEW k, NEW kind
    PROVE  Holds(ObjOf(S), k, kind) <=> \E m \in S : m[1] = k /\ m[2][1] = kind
BY ObjOfHas, ObjOfAt DEF Holds

-----------------------------------------------------------------------------
(***************************************************************************)
(* ClientSessionCapabilities.                                              *)
(***************************************************************************)
\* The session capabilities a client offers are the ones the agent decodes,
\* whichever of them and whatever metadata (caps.hpp:80-112).
THEOREM SessionCapabilitiesRoundTrip ==
    ASSUME NEW c, IsClientSessionCapabilities(c)
    PROVE  DecodeClientSessionCapabilities(EncodeClientSessionCapabilities(c)) = {c}
<1> DEFINE B == ObjOf({<<"boolean", EmptyObj>>})
           S == When(c.compaction, "compaction", EmptyObj)
                \cup When(c.notices, "notices", EmptyObj)
                \cup When(c.booleanConfig, "configOptions", B)
                \cup When(c._meta # EmptyObj, "_meta", c._meta)
           j == ObjOf(S)
<1>0. EncodeClientSessionCapabilities(c) = j
  BY DEF EncodeClientSessionCapabilities
<1>a. /\ c.compaction \in BOOLEAN /\ c.notices \in BOOLEAN /\ c.booleanConfig \in BOOLEAN
      /\ c._meta[1] = "obj" /\ EmptyObj[1] = "obj" /\ B[1] = "obj"
  BY DEF IsClientSessionCapabilities, IsObj, EmptyObj, ObjOf, JObj
<1>b. Holds(B, "boolean", "obj")
  BY <1>a, ObjOfHolds, ObjOfHas
<1> HIDE DEF B
<1>1. \A m, n \in S : m[1] = n[1] => m = n
  BY DEF When
<1>2. \A m : m \in S <=> \/ c.compaction /\ m = <<"compaction", EmptyObj>>
                         \/ c.notices /\ m = <<"notices", EmptyObj>>
                         \/ c.booleanConfig /\ m = <<"configOptions", B>>
                         \/ c._meta # EmptyObj /\ m = <<"_meta", c._meta>>
  BY <1>a DEF When
<1> HIDE DEF S
<1>3. /\ c.compaction => <<"compaction", EmptyObj>> \in S
      /\ c.notices => <<"notices", EmptyObj>> \in S
      /\ c.booleanConfig => <<"configOptions", B>> \in S
      /\ c._meta # EmptyObj => <<"_meta", c._meta>> \in S
  BY <1>2
<1>4. /\ (\E m \in S : m[1] = "compaction" /\ m[2][1] = "obj") <=> c.compaction
      /\ (\E m \in S : m[1] = "notices" /\ m[2][1] = "obj") <=> c.notices
      /\ (\E m \in S : m[1] = "configOptions" /\ m[2][1] = "obj") <=> c.booleanConfig
      /\ (\E m \in S : m[1] = "_meta" /\ m[2][1] = "obj") <=> c._meta # EmptyObj
  BY <1>a, <1>2, <1>3
<1>5. /\ Holds(j, "compaction", "obj") <=> c.compaction
      /\ Holds(j, "notices", "obj") <=> c.notices
      /\ Holds(j, "configOptions", "obj") <=> c.booleanConfig
      /\ Holds(j, "_meta", "obj") <=> c._meta # EmptyObj
  BY <1>1, <1>4, ObjOfHolds
<1>6. c.booleanConfig => At(j, "configOptions") = B
  BY <1>1, <1>3, ObjOfAt
<1>7. c._meta # EmptyObj => At(j, "_meta") = c._meta
  BY <1>1, <1>3, ObjOfAt
<1>8. LenientMeta(j) = c._meta
  BY <1>5, <1>7 DEF LenientMeta
<1> HIDE DEF j
<1>c. Holds(j, "compaction", "obj") \in BOOLEAN /\ Holds(j, "notices", "obj") \in BOOLEAN
      /\ Holds(j, "configOptions", "obj") \in BOOLEAN
      /\ Holds(At(j, "configOptions"), "boolean", "obj") \in BOOLEAN
  BY DEF Holds, Has, IsObj
<1>9. /\ Holds(j, "compaction", "obj") = c.compaction
      /\ Holds(j, "notices", "obj") = c.notices
      /\ (Holds(j, "configOptions", "obj") /\ Holds(At(j, "configOptions"), "boolean", "obj"))
         = c.booleanConfig
  BY <1>a, <1>b, <1>c, <1>5, <1>6
<1>10. DecodeClientSessionCapabilities(j)
       = {[compaction |-> c.compaction, notices |-> c.notices,
           booleanConfig |-> c.booleanConfig, _meta |-> c._meta]}
  BY <1>8, <1>9 DEF DecodeClientSessionCapabilities
<1> QED
  BY <1>0, <1>10 DEF IsClientSessionCapabilities

-----------------------------------------------------------------------------
(***************************************************************************)
(* The members that ClientCapabilities writes beside its record<T>.        *)
(***************************************************************************)
\* An object built from members, key by key.
LEMMA ObjOfMember ==
    ASSUME NEW S, \A m, n \in S : m[1] = n[1] => m = n,
           NEW k, NEW x, <<k, x>> \in S
    PROVE  Has(ObjOf(S), k) /\ At(ObjOf(S), k) = x
<1>1. PICK m \in S : m = <<k, x>>
  OBVIOUS
<1>2. At(ObjOf(S), m[1]) = m[2]
  BY ObjOfAt
<1>3. m[1] = k /\ m[2] = x
  BY <1>1
<1> QED
  BY <1>2, <1>3, ObjOfHas

LEMMA ObjOfAbsent ==
    ASSUME NEW S, NEW k, \A m \in S : m[1] # k
    PROVE  ~Has(ObjOf(S), k)
BY ObjOfHas

\* An object over which that of S is laid.
LEMMA OverObj ==
    ASSUME NEW j, IsObj(j), NEW S, NEW k
    PROVE  /\ Has(JObj(Over(j[2], ObjOf(S)[2])), k) <=> Has(j, k) \/ Has(ObjOf(S), k)
           /\ Has(j, k) => At(JObj(Over(j[2], ObjOf(S)[2])), k) = At(j, k)
           /\ ~Has(j, k) /\ Has(ObjOf(S), k) =>
                  At(JObj(Over(j[2], ObjOf(S)[2])), k) = At(ObjOf(S), k)
<1>1. PICK f : f = ObjOf(S)[2]
  OBVIOUS
<1>2. IsObj(ObjOf(S))
  BY ObjOfHas
<1>3. PICK g : g = Over(j[2], f)
  OBVIOUS
<1>4. /\ DOMAIN g = DOMAIN j[2] \cup DOMAIN f
      /\ \A x \in DOMAIN g : g[x] = IF x \in DOMAIN j[2] THEN j[2][x] ELSE f[x]
  BY <1>3 DEF Over
<1>5. IsObj(JObj(g)) /\ JObj(g)[2] = g
  BY DEF IsObj, JObj
<1>6. /\ Has(JObj(g), k) <=> Has(j, k) \/ Has(ObjOf(S), k)
      /\ Has(j, k) => At(JObj(g), k) = At(j, k)
      /\ ~Has(j, k) /\ Has(ObjOf(S), k) => At(JObj(g), k) = At(ObjOf(S), k)
  BY <1>1, <1>2, <1>4, <1>5 DEF Has, At
<1> QED
  BY <1>1, <1>3, <1>6

\* Logging in on a terminal and the two modes of elicitation are decoded as
\* they were written, next to whatever the record<T> has, which stays as it was
\* (caps.hpp:129-158).
THEOREM ClientMembersRoundTrip ==
    ASSUME NEW c, c.authTerminal \in BOOLEAN, c.elicitForm \in BOOLEAN, c.elicitUrl \in BOOLEAN,
           NEW j, IsObj(j), ~Has(j, "auth"), ~Has(j, "elicitation")
    PROVE  /\ ReadClientMembers(AddClientMembers(c, j)) =
                  [authTerminal |-> c.authTerminal, elicitForm |-> c.elicitForm,
                   elicitUrl |-> c.elicitUrl]
           /\ \A k : k \notin {"auth", "elicitation"} =>
                  /\ Has(AddClientMembers(c, j), k) <=> Has(j, k)
                  /\ Has(j, k) => At(AddClientMembers(c, j), k) = At(j, k)
<1>1. PICK A : A = ObjOf({<<"terminal", JBool(TRUE)>>})
  OBVIOUS
<1>2. A[1] = "obj" /\ Has(A, "terminal") /\ At(A, "terminal") = JBool(TRUE)
  <2>1. PICK x : x = JBool(TRUE)
    OBVIOUS
  <2>2. PICK T : T = {<<"terminal", x>>}
    OBVIOUS
  <2>3. A = ObjOf(T)
    BY <1>1, <2>1, <2>2
  <2>4. <<"terminal", x>> \in T /\ \A m, n \in T : m[1] = n[1] => m = n
    BY <2>2
  <2>5. Has(A, "terminal") /\ At(A, "terminal") = JBool(TRUE)
    BY <2>1, <2>3, <2>4, ObjOfMember
  <2>6. IsObj(A)
    BY <1>1, ObjOfHas
  <2> QED
    BY <2>5, <2>6 DEF IsObj
<1>3. PICK T : T = When(c.elicitForm, "form", EmptyObj) \cup When(c.elicitUrl, "url", EmptyObj)
  OBVIOUS
<1>4. PICK B : B = ObjOf(T)
  OBVIOUS
<1>5. B[1] = "obj" /\ (Holds(B, "form", "obj") <=> c.elicitForm)
      /\ (Holds(B, "url", "obj") <=> c.elicitUrl)
  <2>1. \A m : m \in T <=> \/ c.elicitForm /\ m = <<"form", EmptyObj>>
                           \/ c.elicitUrl /\ m = <<"url", EmptyObj>>
    BY <1>3 DEF When
  <2>2. \A m, n \in T : m[1] = n[1] => m = n
    BY <2>1
  <2>3. EmptyObj[1] = "obj"
    BY DEF EmptyObj, JObj
  <2>4. /\ (\E m \in T : m[1] = "form" /\ m[2][1] = "obj") <=> c.elicitForm
        /\ (\E m \in T : m[1] = "url" /\ m[2][1] = "obj") <=> c.elicitUrl
    <3>1. /\ c.elicitForm => <<"form", EmptyObj>> \in T
          /\ c.elicitUrl => <<"url", EmptyObj>> \in T
      BY <2>1
    <3> QED
      BY <2>1, <2>3, <3>1
  <2>5. IsObj(B)
    BY <1>4, ObjOfHas
  <2>6. /\ Holds(B, "form", "obj") <=> c.elicitForm
        /\ Holds(B, "url", "obj") <=> c.elicitUrl
    BY <1>4, <2>2, <2>4, ObjOfHolds
  <2> QED
    BY <2>5, <2>6 DEF IsObj
<1>6. PICK S : S = When(c.authTerminal, "auth", A)
                   \cup When(c.elicitForm \/ c.elicitUrl, "elicitation", B)
  OBVIOUS
<1>7. PICK w : w = AddClientMembers(c, j)
  OBVIOUS
<1>8. w = JObj(Over(j[2], ObjOf(S)[2]))
  BY <1>1, <1>3, <1>4, <1>6, <1>7 DEF AddClientMembers
<1>9. \A m : m \in S <=> \/ c.authTerminal /\ m = <<"auth", A>>
                         \/ (c.elicitForm \/ c.elicitUrl) /\ m = <<"elicitation", B>>
  BY <1>6 DEF When
<1>10. \A m, n \in S : m[1] = n[1] => m = n
  BY <1>9
<1>11. /\ Has(ObjOf(S), "auth") <=> c.authTerminal
       /\ c.authTerminal => At(ObjOf(S), "auth") = A
       /\ Has(ObjOf(S), "elicitation") <=> c.elicitForm \/ c.elicitUrl
       /\ c.elicitForm \/ c.elicitUrl => At(ObjOf(S), "elicitation") = B
  <2>1. c.authTerminal => <<"auth", A>> \in S
    BY <1>9
  <2>2. c.elicitForm \/ c.elicitUrl => <<"elicitation", B>> \in S
    BY <1>9
  <2>3. ~c.authTerminal => \A m \in S : m[1] # "auth"
    BY <1>9
  <2>4. ~(c.elicitForm \/ c.elicitUrl) => \A m \in S : m[1] # "elicitation"
    BY <1>9
  <2> QED
    BY <1>10, <2>1, <2>2, <2>3, <2>4, ObjOfMember, ObjOfAbsent
<1>12. \A k : k \notin {"auth", "elicitation"} => ~Has(ObjOf(S), k)
  <2>1. ASSUME NEW k, k \notin {"auth", "elicitation"}
        PROVE  \A m \in S : m[1] # k
    BY <1>9, <2>1
  <2> QED
    BY <2>1, ObjOfAbsent
<1>13. /\ Has(w, "auth") <=> c.authTerminal
       /\ c.authTerminal => At(w, "auth") = A
       /\ Has(w, "elicitation") <=> c.elicitForm \/ c.elicitUrl
       /\ c.elicitForm \/ c.elicitUrl => At(w, "elicitation") = B
  BY <1>8, <1>11, OverObj
<1>14. \A k : k \notin {"auth", "elicitation"} =>
           (Has(w, k) <=> Has(j, k)) /\ (Has(j, k) => At(w, k) = At(j, k))
  BY <1>8, <1>12, OverObj
<1>15. JBool(TRUE)[1] = "bool" /\ JBool(TRUE)[2] = TRUE
  BY DEF JBool
<1>16. (Holds(w, "auth", "obj") /\ Holds(At(w, "auth"), "terminal", "bool")
        /\ At(At(w, "auth"), "terminal")[2]) = c.authTerminal
  <2>1. CASE c.authTerminal = TRUE
    BY <1>2, <1>13, <1>15, <2>1 DEF Holds
  <2>2. CASE c.authTerminal = FALSE
    BY <1>13, <2>2 DEF Holds
  <2> QED
    BY <2>1, <2>2
<1>17. (Holds(w, "elicitation", "obj") /\ Holds(At(w, "elicitation"), "form", "obj"))
       = c.elicitForm
  <2>1. CASE c.elicitForm = TRUE
    <3>1. Holds(w, "elicitation", "obj") /\ Holds(At(w, "elicitation"), "form", "obj")
      BY <1>5, <1>13, <2>1 DEF Holds
    <3> QED
      BY <2>1, <3>1
  <2>2. CASE c.elicitForm = FALSE
    <3>1. ~(Holds(w, "elicitation", "obj") /\ Holds(At(w, "elicitation"), "form", "obj"))
      BY <1>5, <1>13, <2>2 DEF Holds
    <3> QED
      BY <2>2, <3>1
  <2> QED
    BY <2>1, <2>2
<1>18. (Holds(w, "elicitation", "obj") /\ Holds(At(w, "elicitation"), "url", "obj"))
       = c.elicitUrl
  <2>1. CASE c.elicitUrl = TRUE
    <3>1. Holds(w, "elicitation", "obj") /\ Holds(At(w, "elicitation"), "url", "obj")
      BY <1>5, <1>13, <2>1 DEF Holds
    <3> QED
      BY <2>1, <3>1
  <2>2. CASE c.elicitUrl = FALSE
    <3>1. ~(Holds(w, "elicitation", "obj") /\ Holds(At(w, "elicitation"), "url", "obj"))
      BY <1>5, <1>13, <2>2 DEF Holds
    <3> QED
      BY <2>2, <3>1
  <2> QED
    BY <2>1, <2>2
<1>19. ReadClientMembers(w) = [authTerminal |-> c.authTerminal, elicitForm |-> c.elicitForm,
                               elicitUrl |-> c.elicitUrl]
  BY <1>16, <1>17, <1>18 DEF ReadClientMembers
<1> QED
  BY <1>7, <1>14, <1>19

-----------------------------------------------------------------------------
(***************************************************************************)
(* What the accessors make of an object built from members.                *)
(***************************************************************************)
LEMMA ReadsMember ==
    ASSUME NEW S, \A m, n \in S : m[1] = n[1] => m = n,
           NEW k, NEW x, <<k, x>> \in S, NEW kind
    PROVE  Holds(ObjOf(S), k, kind) <=> x[1] = kind
BY ObjOfMember DEF Holds

LEMMA ReadsString ==
    ASSUME NEW S, \A m, n \in S : m[1] = n[1] => m = n,
           NEW k, NEW s, <<k, JStr(s)>> \in S, NEW d
    PROVE  /\ Holds(ObjOf(S), k, "str")
           /\ At(ObjOf(S), k)[2] = s
           /\ StringOr(ObjOf(S), k, d) = Just(s)
           /\ LenientString(ObjOf(S), k) = Just(s)
<1>1. PICK x : x = JStr(s)
  OBVIOUS
<1>2. x[1] = "str" /\ x[2] = s
  BY <1>1 DEF JStr
<1>3. Has(ObjOf(S), k) /\ At(ObjOf(S), k) = x
  BY <1>1, ObjOfMember
<1>4. Holds(ObjOf(S), k, "str")
  BY <1>2, <1>3 DEF Holds
<1> QED
  BY <1>2, <1>3, <1>4 DEF StringOr, LenientString

LEMMA ReadsNothing ==
    ASSUME NEW S, NEW k, \A m \in S : m[1] # k
    PROVE  /\ ~Has(ObjOf(S), k)
           /\ \A kind : ~Holds(ObjOf(S), k, kind)
           /\ \A d : StringOr(ObjOf(S), k, d) = Just(d)
           /\ LenientString(ObjOf(S), k) = Nothing
BY ObjOfAbsent DEF Holds, StringOr, LenientString

LEMMA MaybeRead ==
    ASSUME NEW S, \A p, q \in S : p[1] = q[1] => p = q,
           NEW k, NEW m, IsMaybe(m),
           m # Nothing => <<k, JStr(The(m))>> \in S,
           m = Nothing => \A p \in S : p[1] # k
    PROVE  LenientString(ObjOf(S), k) = m
<1>1. CASE m = Nothing
  BY <1>1, ReadsNothing
<1>2. CASE m # Nothing
  <2>1. m = Just(The(m))
    BY <1>2 DEF IsMaybe
  <2>2. LenientString(ObjOf(S), k) = Just(The(m))
    BY <1>2, ReadsString
  <2> QED
    BY <2>1, <2>2
<1> QED
  BY <1>1, <1>2

LEMMA ReadsMeta ==
    ASSUME NEW S, \A m, n \in S : m[1] = n[1] => m = n,
           NEW x, IsObj(x), \A m \in S : m[1] = "_meta" => m[2] = x,
           x # EmptyObj => <<"_meta", x>> \in S
    PROVE  LenientMeta(ObjOf(S)) = x
<1>1. CASE \E m \in S : m[1] = "_meta"
  <2>1. PICK m \in S : m[1] = "_meta" /\ m[2] = x
    BY <1>1
  <2>2. At(ObjOf(S), "_meta") = x
    BY <2>1, ObjOfAt
  <2>3. Holds(ObjOf(S), "_meta", "obj")
    BY <2>1, ObjOfHolds DEF IsObj
  <2> QED
    BY <2>2, <2>3 DEF LenientMeta
<1>2. CASE \A m \in S : m[1] # "_meta"
  BY <1>2, ReadsNothing DEF LenientMeta
<1> QED
  BY <1>1, <1>2

-----------------------------------------------------------------------------
(***************************************************************************)
(* McpServer.                                                              *)
(***************************************************************************)
\* The arm of a server is told from its "type", which the object of the stdio
\* arm has not, and its other members stay as they were
\* (session_types.hpp:90-118).
THEOREM McpServerRoundTrip ==
    ASSUME NEW arm \in {"StdioMcpServer", "HttpMcpServer", "SseMcpServer"},
           NEW j, IsObj(j), ~Has(j, "type")
    PROVE  /\ PickMcpServer(MarkMcpServer(arm, j)) = {arm}
           /\ \A k : k # "type" =>
                  /\ Has(MarkMcpServer(arm, j), k) <=> Has(j, k)
                  /\ Has(j, k) => At(MarkMcpServer(arm, j), k) = At(j, k)
<1>1. ASSUME NEW s
      PROVE  /\ IsObj(With(j, "type", JStr(s)))
             /\ StringOr(With(j, "type", JStr(s)), "type", "stdio") = {s}
             /\ \A k : k # "type" =>
                    /\ Has(With(j, "type", JStr(s)), k) <=> Has(j, k)
                    /\ Has(j, k) => At(With(j, "type", JStr(s)), k) = At(j, k)
  <2>1. PICK f : f = Put(j[2], "type", JStr(s))
    OBVIOUS
  <2>2. /\ DOMAIN f = DOMAIN j[2] \cup {"type"} /\ f["type"] = JStr(s)
        /\ \A k \in DOMAIN j[2] : k # "type" => f[k] = j[2][k]
    BY <2>1 DEF Put
  <2>3. PICK w : w = With(j, "type", JStr(s))
    OBVIOUS
  <2>4. IsObj(w) /\ w[2] = f
    BY <2>1, <2>3 DEF With, JObj, IsObj
  <2>5. Has(w, "type") /\ At(w, "type") = JStr(s)
    BY <2>2, <2>4 DEF Has, At
  <2>6. StringOr(w, "type", "stdio") = {s}
    BY <2>5 DEF StringOr, Holds, JStr, Just
  <2>7. \A k : k # "type" => (Has(w, k) <=> Has(j, k)) /\ (Has(j, k) => At(w, k) = At(j, k))
    BY <2>2, <2>4 DEF Has, At
  <2> QED
    BY <2>3, <2>4, <2>6, <2>7
<1>2. CASE arm = "StdioMcpServer"
  <2>1. MarkMcpServer(arm, j) = j
    BY <1>2 DEF MarkMcpServer
  <2>2. StringOr(j, "type", "stdio") = {"stdio"}
    BY DEF StringOr, Just
  <2>3. PickMcpServer(j) = {"StdioMcpServer"}
    BY <2>2 DEF PickMcpServer
  <2> QED
    BY <1>2, <2>1, <2>3
<1>3. CASE arm = "HttpMcpServer"
  <2>1. PICK w : w = With(j, "type", JStr("http"))
    OBVIOUS
  <2>2. MarkMcpServer(arm, j) = w
    BY <1>3, <2>1 DEF MarkMcpServer
  <2>3. IsObj(w) /\ StringOr(w, "type", "stdio") = {"http"}
    BY <1>1, <2>1
  <2>4. PickMcpServer(w) = {"HttpMcpServer"}
    BY <2>3 DEF PickMcpServer
  <2> QED
    BY <1>1, <1>3, <2>1, <2>2, <2>4
<1>4. CASE arm = "SseMcpServer"
  <2>1. PICK w : w = With(j, "type", JStr("sse"))
    OBVIOUS
  <2>2. MarkMcpServer(arm, j) = w
    BY <1>4, <2>1 DEF MarkMcpServer
  <2>3. IsObj(w) /\ StringOr(w, "type", "stdio") = {"sse"}
    BY <1>1, <2>1
  <2>4. PickMcpServer(w) = {"SseMcpServer"}
    BY <2>3 DEF PickMcpServer
  <2> QED
    BY <1>1, <1>4, <2>1, <2>2, <2>4
<1> QED
  BY <1>2, <1>3, <1>4

-----------------------------------------------------------------------------
(***************************************************************************)
(* AuthMethod.                                                             *)
(***************************************************************************)
\* Strings in a JSON array or object are read as they were written.
LEMMA StringsRead ==
    ASSUME NEW f, f = [x \in DOMAIN f |-> f[x]]
    PROVE  /\ AllStrings([x \in DOMAIN f |-> JStr(f[x])])
           /\ Strings([x \in DOMAIN f |-> JStr(f[x])]) = f
BY DEF AllStrings, Strings, JStr

\* A login is decoded as it was encoded, but for the arguments and environment
\* of one that is not done on a terminal, which are not written
\* (caps.hpp:248-289).
THEOREM AuthMethodRoundTrip ==
    ASSUME NEW m, IsAuthMethod(m)
    PROVE  DecodeAuthMethod(EncodeAuthMethod(m)) =
               {[id |-> m.id, name |-> m.name, description |-> m.description,
                 type |-> m.type,
                 args |-> IF m.type = "terminal" THEN m.args ELSE << >>,
                 env |-> IF m.type = "terminal" THEN m.env ELSE << >>,
                 _meta |-> m._meta]}
<1>1. PICK A : A = [i \in DOMAIN m.args |-> JStr(m.args[i])]
  OBVIOUS
<1>2. PICK E : E = [x \in DOMAIN m.env |-> JStr(m.env[x])]
  OBVIOUS
<1>3. AllStrings(A) /\ Strings(A) = m.args /\ AllStrings(E) /\ Strings(E) = m.env
  BY <1>1, <1>2, StringsRead DEF IsAuthMethod
<1>4. PICK S : S = {<<"id", JStr(m.id)>>, <<"name", JStr(m.name)>>}
          \cup When(m.description # Nothing, "description", JStr(The(m.description)))
          \cup When(m.type # "agent", "type", JStr(m.type))
          \cup When(m.type = "terminal" /\ m.args # << >>, "args", JArr(A))
          \cup When(m.type = "terminal" /\ m.env # << >>, "env", JObj(E))
          \cup When(m._meta # EmptyObj, "_meta", m._meta)
  OBVIOUS
<1>5. PICK j : j = ObjOf(S)
  OBVIOUS
<1>6. EncodeAuthMethod(m) = j
  BY <1>1, <1>2, <1>4, <1>5 DEF EncodeAuthMethod
<1>7. \A p : p \in S <=>
          \/ p = <<"id", JStr(m.id)>>
          \/ p = <<"name", JStr(m.name)>>
          \/ m.description # Nothing /\ p = <<"description", JStr(The(m.description))>>
          \/ m.type # "agent" /\ p = <<"type", JStr(m.type)>>
          \/ (m.type = "terminal" /\ m.args # << >>) /\ p = <<"args", JArr(A)>>
          \/ (m.type = "terminal" /\ m.env # << >>) /\ p = <<"env", JObj(E)>>
          \/ m._meta # EmptyObj /\ p = <<"_meta", m._meta>>
  BY <1>4 DEF When
<1>8. \A p, q \in S : p[1] = q[1] => p = q
  BY <1>7
<1>9. /\ <<"id", JStr(m.id)>> \in S
      /\ <<"name", JStr(m.name)>> \in S
      /\ m.description # Nothing => <<"description", JStr(The(m.description))>> \in S
      /\ m.type # "agent" => <<"type", JStr(m.type)>> \in S
      /\ m.type = "terminal" /\ m.args # << >> => <<"args", JArr(A)>> \in S
      /\ m.type = "terminal" /\ m.env # << >> => <<"env", JObj(E)>> \in S
      /\ m._meta # EmptyObj => <<"_meta", m._meta>> \in S
  BY <1>7
<1>10. /\ m.description = Nothing => \A p \in S : p[1] # "description"
       /\ m.type = "agent" => \A p \in S : p[1] # "type"
       /\ ~(m.type = "terminal" /\ m.args # << >>) => \A p \in S : p[1] # "args"
       /\ ~(m.type = "terminal" /\ m.env # << >>) => \A p \in S : p[1] # "env"
       /\ \A p \in S : p[1] = "_meta" => p[2] = m._meta
  BY <1>7
<1>11. /\ Holds(j, "id", "str") /\ At(j, "id")[2] = m.id
       /\ Holds(j, "name", "str") /\ At(j, "name")[2] = m.name
  BY <1>5, <1>8, <1>9, ReadsString
<1>12. LenientString(j, "description") = m.description
  BY <1>5, <1>7, <1>8, <1>9, <1>10, MaybeRead DEF IsAuthMethod
<1>13. StringOr(j, "type", "agent") = Just(m.type)
  <2>1. CASE m.type = "agent"
    BY <1>5, <1>10, <2>1, ReadsNothing
  <2>2. CASE m.type # "agent"
    BY <1>5, <1>8, <1>9, <2>2, ReadsString
  <2> QED
    BY <2>1, <2>2
<1>14. LenientMeta(j) = m._meta
  BY <1>5, <1>8, <1>9, <1>10, ReadsMeta DEF IsAuthMethod
<1>15. /\ Holds(j, "args", "arr") => AllStrings(At(j, "args")[2])
       /\ (IF Holds(j, "args", "arr") THEN Strings(At(j, "args")[2]) ELSE << >>)
          = IF m.type = "terminal" THEN m.args ELSE << >>
  <2>1. CASE m.type = "terminal" /\ m.args # << >>
    <3>1. At(j, "args") = JArr(A)
      BY <1>5, <1>8, <1>9, <2>1, ObjOfMember
    <3>2. JArr(A)[1] = "arr" /\ JArr(A)[2] = A
      BY DEF JArr
    <3>3. Holds(j, "args", "arr")
      BY <1>5, <1>8, <1>9, <2>1, <3>2, ReadsMember
    <3> QED
      BY <1>3, <2>1, <3>1, <3>2, <3>3
  <2>2. CASE ~(m.type = "terminal" /\ m.args # << >>)
    <3>1. ~Holds(j, "args", "arr")
      BY <1>5, <1>10, <2>2, ReadsNothing
    <3> QED
      BY <2>2, <3>1
  <2> QED
    BY <2>1, <2>2
<1>16. /\ Holds(j, "env", "obj") => AllStrings(At(j, "env")[2])
       /\ (IF Holds(j, "env", "obj") THEN Strings(At(j, "env")[2]) ELSE << >>)
          = IF m.type = "terminal" THEN m.env ELSE << >>
  <2>1. CASE m.type = "terminal" /\ m.env # << >>
    <3>1. At(j, "env") = JObj(E)
      BY <1>5, <1>8, <1>9, <2>1, ObjOfMember
    <3>2. JObj(E)[1] = "obj" /\ JObj(E)[2] = E
      BY DEF JObj
    <3>3. Holds(j, "env", "obj")
      BY <1>5, <1>8, <1>9, <2>1, <3>2, ReadsMember
    <3> QED
      BY <1>3, <2>1, <3>1, <3>2, <3>3
  <2>2. CASE ~(m.type = "terminal" /\ m.env # << >>)
    <3>1. ~Holds(j, "env", "obj")
      BY <1>5, <1>10, <2>2, ReadsNothing
    <3> QED
      BY <2>2, <3>1
  <2> QED
    BY <2>1, <2>2
<1>17. The(Just(m.type)) = m.type /\ Just(m.type) # {}
  BY DEF The, Just
<1>18. DecodeAuthMethod(j) =
           {[id |-> m.id, name |-> m.name, description |-> m.description,
             type |-> m.type,
             args |-> IF m.type = "terminal" THEN m.args ELSE << >>,
             env |-> IF m.type = "terminal" THEN m.env ELSE << >>,
             _meta |-> m._meta]}
  BY <1>11, <1>12, <1>13, <1>14, <1>15, <1>16, <1>17 DEF DecodeAuthMethod
<1> QED
  BY <1>6, <1>18

-----------------------------------------------------------------------------
(***************************************************************************)
(* ConfigOption.                                                           *)
(***************************************************************************)
\* An option of either kind is decoded with the value that goes with its type,
\* the other value and, for a boolean, the options as in a new one; `x` is what
\* to_json makes of the options of a select and y what from_json makes of x
\* (session_types.hpp:217-273).
THEOREM ConfigOptionRoundTrip ==
    ASSUME NEW o, IsConfigOption(o), NEW x, NEW y
    PROVE  /\ ~IsBoolean(o) =>
                  /\ Has(EncodeConfigOption(o, x), "options")
                  /\ At(EncodeConfigOption(o, x), "options") = x
                  /\ DecodeConfigOption(EncodeConfigOption(o, x), {y}) =
                         {[id |-> o.id, name |-> o.name, description |-> o.description,
                           category |-> o.category, type |-> o.type,
                           currentValue |-> o.currentValue, currentBool |-> FALSE,
                           options |-> y, _meta |-> o._meta]}
           /\ IsBoolean(o) =>
                  /\ ~Has(EncodeConfigOption(o, x), "options")
                  /\ DecodeConfigOption(EncodeConfigOption(o, x), {}) =
                         {[id |-> o.id, name |-> o.name, description |-> o.description,
                           category |-> o.category, type |-> o.type,
                           currentValue |-> "", currentBool |-> o.currentBool,
                           options |-> <<"CSO_Ungrouped", << >>>>, _meta |-> o._meta]}
<1>1. PICK cv : cv = IF IsBoolean(o) THEN JBool(o.currentBool) ELSE JStr(o.currentValue)
  OBVIOUS
<1>2. PICK S : S = {<<"id", JStr(o.id)>>, <<"name", JStr(o.name)>>, <<"type", JStr(o.type)>>,
                    <<"currentValue", cv>>}
          \cup When(o.description # Nothing, "description", JStr(The(o.description)))
          \cup When(o.category # Nothing, "category", JStr(The(o.category)))
          \cup When(~IsBoolean(o), "options", x)
          \cup When(o._meta # EmptyObj, "_meta", o._meta)
  OBVIOUS
<1>3. PICK j : j = ObjOf(S)
  OBVIOUS
<1>4. EncodeConfigOption(o, x) = j
  BY <1>1, <1>2, <1>3 DEF EncodeConfigOption
<1>5. \A p : p \in S <=>
          \/ p = <<"id", JStr(o.id)>>
          \/ p = <<"name", JStr(o.name)>>
          \/ p = <<"type", JStr(o.type)>>
          \/ p = <<"currentValue", cv>>
          \/ o.description # Nothing /\ p = <<"description", JStr(The(o.description))>>
          \/ o.category # Nothing /\ p = <<"category", JStr(The(o.category))>>
          \/ ~IsBoolean(o) /\ p = <<"options", x>>
          \/ o._meta # EmptyObj /\ p = <<"_meta", o._meta>>
  BY <1>2 DEF When
<1>6. \A p, q \in S : p[1] = q[1] => p = q
  BY <1>5
<1>7. /\ <<"id", JStr(o.id)>> \in S
      /\ <<"name", JStr(o.name)>> \in S
      /\ <<"type", JStr(o.type)>> \in S
      /\ <<"currentValue", cv>> \in S
      /\ o.description # Nothing => <<"description", JStr(The(o.description))>> \in S
      /\ o.category # Nothing => <<"category", JStr(The(o.category))>> \in S
      /\ ~IsBoolean(o) => <<"options", x>> \in S
      /\ o._meta # EmptyObj => <<"_meta", o._meta>> \in S
  BY <1>5
<1>8. /\ o.description = Nothing => \A p \in S : p[1] # "description"
      /\ o.category = Nothing => \A p \in S : p[1] # "category"
      /\ IsBoolean(o) => \A p \in S : p[1] # "options"
      /\ \A p \in S : p[1] = "_meta" => p[2] = o._meta
  BY <1>5
<1>9. /\ Holds(j, "id", "str") /\ At(j, "id")[2] = o.id
      /\ Holds(j, "name", "str") /\ At(j, "name")[2] = o.name
      /\ StringOr(j, "type", "select") = Just(o.type)
  BY <1>3, <1>6, <1>7, ReadsString
<1>10. LenientString(j, "description") = o.description
       /\ LenientString(j, "category") = o.category
  BY <1>3, <1>6, <1>7, <1>8, MaybeRead DEF IsConfigOption
<1>11. LenientMeta(j) = o._meta
  BY <1>3, <1>6, <1>7, <1>8, ReadsMeta DEF IsConfigOption
<1>12. At(j, "currentValue") = cv /\ \A kind : Holds(j, "currentValue", kind) <=> cv[1] = kind
  BY <1>3, <1>6, <1>7, ObjOfMember, ReadsMember
<1>13. The(Just(o.type)) = o.type /\ Just(o.type) # {}
  BY DEF The, Just
<1>14. CASE ~IsBoolean(o)
  <2>1. cv[1] = "str" /\ cv[2] = o.currentValue
    BY <1>1, <1>14 DEF JStr
  <2>2. Has(j, "options") /\ At(j, "options") = x
    BY <1>3, <1>6, <1>7, <1>14, ObjOfMember
  <2>3. DecodeConfigOption(j, {y}) =
            {[id |-> o.id, name |-> o.name, description |-> o.description,
              category |-> o.category, type |-> o.type,
              currentValue |-> o.currentValue, currentBool |-> FALSE,
              options |-> y, _meta |-> o._meta]}
    BY <1>9, <1>10, <1>11, <1>12, <1>13, <1>14, <2>1 DEF DecodeConfigOption, IsBoolean
  <2> QED
    BY <1>4, <1>14, <2>2, <2>3
<1>15. CASE IsBoolean(o)
  <2>1. cv[1] = "bool" /\ cv[2] = o.currentBool
    BY <1>1, <1>15 DEF JBool
  <2>2. ~Has(j, "options")
    BY <1>3, <1>8, <1>15, ReadsNothing
  <2>3. DecodeConfigOption(j, {}) =
            {[id |-> o.id, name |-> o.name, description |-> o.description,
              category |-> o.category, type |-> o.type,
              currentValue |-> "", currentBool |-> o.currentBool,
              options |-> <<"CSO_Ungrouped", << >>>>, _meta |-> o._meta]}
    BY <1>9, <1>10, <1>11, <1>12, <1>13, <1>15, <2>1 DEF DecodeConfigOption, IsBoolean
  <2> QED
    BY <1>4, <1>15, <2>2, <2>3
<1> QED
  BY <1>14, <1>15

-----------------------------------------------------------------------------
(***************************************************************************)
(* Members that no decoder asks for.                                       *)
(***************************************************************************)
LEMMA OtherMember ==
    ASSUME NEW j, IsObj(j), NEW k, NEW x, NEW i, i # k
    PROVE  /\ Has(With(j, k, x), i) <=> Has(j, i)
           /\ Has(j, i) => At(With(j, k, x), i) = At(j, i)
           /\ \A kind : Holds(With(j, k, x), i, kind) = Holds(j, i, kind)
           /\ \A d : StringOr(With(j, k, x), i, d) = StringOr(j, i, d)
           /\ LenientString(With(j, k, x), i) = LenientString(j, i)
<1>1. PICK f : f = Put(j[2], k, x)
  OBVIOUS
<1>2. /\ DOMAIN f = DOMAIN j[2] \cup {k}
      /\ \A y \in DOMAIN j[2] : y # k => f[y] = j[2][y]
  BY <1>1 DEF Put
<1>3. PICK w : w = With(j, k, x)
  OBVIOUS
<1>4. IsObj(w) /\ w[2] = f
  BY <1>1, <1>3 DEF With, JObj, IsObj
<1>5. Has(w, i) <=> Has(j, i)
  BY <1>2, <1>4 DEF Has
<1>6. Has(j, i) => At(w, i) = At(j, i)
  BY <1>2, <1>4 DEF Has, At
<1>7. \A kind : Holds(w, i, kind) = Holds(j, i, kind)
  <2>1. ASSUME NEW kind
        PROVE  /\ Holds(w, i, kind) \in BOOLEAN /\ Holds(j, i, kind) \in BOOLEAN
               /\ Holds(w, i, kind) <=> Holds(j, i, kind)
    BY <1>5, <1>6 DEF Holds
  <2> QED
    BY <2>1
<1>8. /\ \A d : StringOr(w, i, d) = StringOr(j, i, d)
      /\ LenientString(w, i) = LenientString(j, i)
  BY <1>5, <1>6, <1>7 DEF StringOr, LenientString, Holds
<1> QED
  BY <1>3, <1>5, <1>6, <1>7, <1>8

LEMMA OtherMembers ==
    ASSUME NEW j, IsObj(j), NEW k, NEW x
    PROVE  \A i : i # k =>
               /\ Has(j, i) => At(With(j, k, x), i) = At(j, i)
               /\ \A kind : Holds(With(j, k, x), i, kind) = Holds(j, i, kind)
               /\ \A d : StringOr(With(j, k, x), i, d) = StringOr(j, i, d)
               /\ LenientString(With(j, k, x), i) = LenientString(j, i)
BY OtherMember

LEMMA OtherMeta ==
    ASSUME NEW j, IsObj(j), NEW k, NEW x, k # "_meta"
    PROVE  LenientMeta(With(j, k, x)) = LenientMeta(j)
<1>0. PICK w : w = With(j, k, x)
  OBVIOUS
<1>1. \A i : i # k =>
          /\ Has(j, i) => At(w, i) = At(j, i)
          /\ \A kind : Holds(w, i, kind) = Holds(j, i, kind)
  BY <1>0, OtherMembers
<1>2. /\ Has(j, "_meta") => At(w, "_meta") = At(j, "_meta")
      /\ Holds(w, "_meta", "obj") = Holds(j, "_meta", "obj")
  BY <1>1
<1>3. Holds(j, "_meta", "obj") => Has(j, "_meta")
  BY DEF Holds
<1> QED
  BY <1>0, <1>2, <1>3 DEF LenientMeta

\* A login reads no member but its own: one with members that a later version
\* added decodes as without them (caps.hpp:273-289).
THEOREM AuthMethodIgnoresUnknown ==
    ASSUME NEW j, IsObj(j), NEW x,
           NEW k, k \notin {"id", "name", "description", "type", "args", "env", "_meta"}
    PROVE  DecodeAuthMethod(With(j, k, x)) = DecodeAuthMethod(j)
<1>1. PICK w : w = With(j, k, x)
  OBVIOUS
<1>2. \A i : i # k =>
          /\ Has(j, i) => At(w, i) = At(j, i)
          /\ \A kind : Holds(w, i, kind) = Holds(j, i, kind)
          /\ \A d : StringOr(w, i, d) = StringOr(j, i, d)
          /\ LenientString(w, i) = LenientString(j, i)
  BY <1>1, OtherMembers
<1>3. LenientMeta(w) = LenientMeta(j)
  BY <1>1, OtherMeta
<1>4. \A i, kind : Holds(j, i, kind) => Has(j, i)
  BY DEF Holds
<1>5. /\ Holds(w, "id", "str") = Holds(j, "id", "str")
      /\ Holds(w, "name", "str") = Holds(j, "name", "str")
      /\ Holds(w, "args", "arr") = Holds(j, "args", "arr")
      /\ Holds(w, "env", "obj") = Holds(j, "env", "obj")
      /\ StringOr(w, "type", "agent") = StringOr(j, "type", "agent")
      /\ LenientString(w, "description") = LenientString(j, "description")
  BY <1>2
<1>6. /\ Holds(j, "id", "str") => At(w, "id") = At(j, "id")
      /\ Holds(j, "name", "str") => At(w, "name") = At(j, "name")
      /\ Holds(j, "args", "arr") => At(w, "args") = At(j, "args")
      /\ Holds(j, "env", "obj") => At(w, "env") = At(j, "env")
  BY <1>2, <1>4
<1>7. DecodeAuthMethod(w) = DecodeAuthMethod(j)
  BY <1>3, <1>5, <1>6 DEF DecodeAuthMethod
<1> QED
  BY <1>1, <1>7

\* Nor do the session capabilities of a client (caps.hpp:103-111).
THEOREM SessionCapabilitiesIgnoreUnknown ==
    ASSUME NEW j, IsObj(j), NEW x,
           NEW k, k \notin {"compaction", "notices", "configOptions", "_meta"}
    PROVE  DecodeClientSessionCapabilities(With(j, k, x)) = DecodeClientSessionCapabilities(j)
<1>1. PICK w : w = With(j, k, x)
  OBVIOUS
<1>2. /\ Holds(w, "compaction", "obj") = Holds(j, "compaction", "obj")
      /\ Holds(w, "notices", "obj") = Holds(j, "notices", "obj")
      /\ Holds(w, "configOptions", "obj") = Holds(j, "configOptions", "obj")
      /\ Has(j, "configOptions") => At(w, "configOptions") = At(j, "configOptions")
  <2>1. \A i : i # k =>
            /\ Has(j, i) => At(w, i) = At(j, i)
            /\ \A kind : Holds(w, i, kind) = Holds(j, i, kind)
    BY <1>1, OtherMembers
  <2> QED
    BY <2>1
<1>3. LenientMeta(w) = LenientMeta(j)
  BY <1>1, OtherMeta
<1>4. (Holds(w, "configOptions", "obj") /\ Holds(At(w, "configOptions"), "boolean", "obj"))
      = (Holds(j, "configOptions", "obj") /\ Holds(At(j, "configOptions"), "boolean", "obj"))
  <2>1. CASE Has(j, "configOptions")
    BY <1>2, <2>1
  <2>2. CASE ~Has(j, "configOptions")
    BY <1>2, <2>2 DEF Holds
  <2> QED
    BY <2>1, <2>2
<1>5. DecodeClientSessionCapabilities(w) = DecodeClientSessionCapabilities(j)
  BY <1>2, <1>3, <1>4 DEF DecodeClientSessionCapabilities
<1> QED
  BY <1>1, <1>5

-----------------------------------------------------------------------------
(***************************************************************************)
(* Objects put together from what was decoded.                             *)
(***************************************************************************)
LEMMA FunctionOfPairs ==
    ASSUME NEW S, NEW f, f = [k \in DOMAIN f |-> f[k]],
           \A p : p \in S <=> \E k \in DOMAIN f : p = <<k, f[k]>>
    PROVE  Assembled(S, DOMAIN f) = {f}
<1> DEFINE K == DOMAIN f
<1> HIDE DEF K
<1>0. f = [k \in K |-> f[k]] /\ \A p : p \in S <=> \E k \in K : p = <<k, f[k]>>
  BY DEF K
<1>1. \A k \in K : <<k, f[k]>> \in S
  BY <1>0
<1>2. \A p \in S : p[1] \in K /\ p[2] = f[p[1]]
  BY <1>0
<1>3. {p[1] : p \in S} = K
  <2>1. \A k \in K : k \in {p[1] : p \in S}
    <3>1. ASSUME NEW k \in K
          PROVE  \E p \in S : p[1] = k
      <4>1. PICK p \in S : p = <<k, f[k]>>
        BY <1>1
      <4> QED
        BY <4>1
    <3> QED
      BY <3>1
  <2> QED
    BY <1>2, <2>1
<1>4. ASSUME NEW k \in K
      PROVE  (CHOOSE p \in S : p[1] = k)[2] = f[k]
  <2>1. PICK p \in S : p[1] = k
    BY <1>3
  <2>2. PICK q : q = CHOOSE r \in S : r[1] = k
    OBVIOUS
  <2>3. q \in S /\ q[1] = k
    BY <2>1, <2>2
  <2>4. q[2] = f[k]
    BY <1>2, <2>3
  <2> QED
    BY <2>2, <2>4
<1>5. FunctionOf(S) = [k \in K |-> f[k]]
  BY <1>3, <1>4 DEF FunctionOf
<1> QED
  BY <1>0, <1>3, <1>5 DEF Assembled, K

-----------------------------------------------------------------------------
(***************************************************************************)
(* record<T>.                                                              *)
(***************************************************************************)
\* Member x of a struct, written as field f says, is read as y: x itself, but
\* for an optional member that encodes to null.
ReadsAs(f, x, y) ==
    \/ /\ f.how \in {"required", "defaulted"}
       /\ y = x
       /\ FromJson(f.type, ToJson(f.type, x)) = {x}
    \/ /\ f.how = "optional"
       /\ \/ x = Nothing /\ y = Nothing
          \/ \E z : /\ x = Just(z)
                    /\ IF ToJson(f.type, z) = JNull THEN y = Nothing
                       ELSE y = x /\ FromJson(f.type, ToJson(f.type, z)) = {z}
    \/ /\ f.how = "meta" /\ f.key = "_meta"
       /\ y = x
       /\ IsObj(x) /\ ToJson(f.type, x) = x

\* Each member is read as it was written ...
LEMMA FieldsReadBack ==
    ASSUME NEW fields, NEW v, NEW w,
           \A i, k \in DOMAIN fields : fields[i].key = fields[k].key => i = k,
           \A i \in DOMAIN fields : ReadsAs(fields[i], v[fields[i].key], w[fields[i].key])
    PROVE  \A i \in DOMAIN fields :
               DecodeField(fields[i], EncodeRecord(fields, v)) = {w[fields[i].key]}
<1>0. /\ \A i \in DOMAIN fields : fields[i].how \in {"required", "defaulted"} =>
             /\ w[fields[i].key] = v[fields[i].key]
             /\ FromJson(fields[i].type, ToJson(fields[i].type, v[fields[i].key]))
                    = {v[fields[i].key]}
      /\ \A i \in DOMAIN fields : fields[i].how = "optional" =>
             \/ v[fields[i].key] = Nothing /\ w[fields[i].key] = Nothing
             \/ \E x : /\ v[fields[i].key] = Just(x)
                       /\ \/ /\ w[fields[i].key] = Just(x)
                             /\ ToJson(fields[i].type, x) # JNull
                             /\ FromJson(fields[i].type, ToJson(fields[i].type, x)) = {x}
                          \/ /\ w[fields[i].key] = Nothing
                             /\ ToJson(fields[i].type, x) = JNull
      /\ \A i \in DOMAIN fields : fields[i].how = "meta" =>
             /\ fields[i].key = "_meta"
             /\ IsObj(v["_meta"]) /\ w["_meta"] = v["_meta"]
             /\ ToJson(fields[i].type, v["_meta"]) = v["_meta"]
      /\ \A i \in DOMAIN fields :
             fields[i].how \in {"required", "optional", "defaulted", "meta"}
  <2>1. ASSUME NEW i \in DOMAIN fields, fields[i].how \in {"required", "defaulted"}
        PROVE  /\ w[fields[i].key] = v[fields[i].key]
               /\ FromJson(fields[i].type, ToJson(fields[i].type, v[fields[i].key]))
                      = {v[fields[i].key]}
    BY <2>1 DEF ReadsAs
  <2>2. ASSUME NEW i \in DOMAIN fields, fields[i].how = "optional"
        PROVE  \/ v[fields[i].key] = Nothing /\ w[fields[i].key] = Nothing
               \/ \E x : /\ v[fields[i].key] = Just(x)
                         /\ \/ /\ w[fields[i].key] = Just(x)
                               /\ ToJson(fields[i].type, x) # JNull
                               /\ FromJson(fields[i].type, ToJson(fields[i].type, x)) = {x}
                            \/ /\ w[fields[i].key] = Nothing
                               /\ ToJson(fields[i].type, x) = JNull
    BY <2>2 DEF ReadsAs
  <2>3. ASSUME NEW i \in DOMAIN fields, fields[i].how = "meta"
        PROVE  /\ fields[i].key = "_meta"
               /\ IsObj(v["_meta"]) /\ w["_meta"] = v["_meta"]
               /\ ToJson(fields[i].type, v["_meta"]) = v["_meta"]
    BY <2>3 DEF ReadsAs
  <2>4. ASSUME NEW i \in DOMAIN fields
        PROVE  fields[i].how \in {"required", "optional", "defaulted", "meta"}
    BY DEF ReadsAs
  <2> QED
    BY <2>1, <2>2, <2>3, <2>4
<1>1. PICK e : e = [i \in DOMAIN fields |-> EncodeField(fields[i], v)]
  OBVIOUS
<1>2. PICK S : S = {<<fields[i].key, e[i]>> : i \in {k \in DOMAIN fields : Written(fields[k], v)}}
  OBVIOUS
<1>3. PICK j : j = ObjOf(S)
  OBVIOUS
<1>4. EncodeRecord(fields, v) = j
  <2>1. {<<fields[i].key, EncodeField(fields[i], v)>> :
            i \in {k \in DOMAIN fields : Written(fields[k], v)}} = S
    BY <1>1, <1>2 DEF EncodeField
  <2> QED
    BY <1>3, <2>1 DEF EncodeRecord
<1>5. \A i \in DOMAIN fields :
          e[i] = ToJson(fields[i].type, IF fields[i].how = "optional" THEN The(v[fields[i].key])
                                     ELSE v[fields[i].key])
  BY <1>1 DEF EncodeField
<1>6. \A p, q \in S : p[1] = q[1] => p = q
  <2>1. ASSUME NEW p \in S, NEW q \in S, p[1] = q[1]
        PROVE  p = q
    <3>1. PICK i \in DOMAIN fields : p = <<fields[i].key, e[i]>>
      BY <1>2
    <3>2. PICK k \in DOMAIN fields : q = <<fields[k].key, e[k]>>
      BY <1>2
    <3>3. i = k
      BY <2>1, <3>1, <3>2
    <3> QED
      BY <3>1, <3>2, <3>3
  <2> QED
    BY <2>1
<1>7. ASSUME NEW i \in DOMAIN fields, Written(fields[i], v)
      PROVE  Has(j, fields[i].key) /\ At(j, fields[i].key) = e[i]
  <2>1. <<fields[i].key, e[i]>> \in S
    BY <1>2, <1>7
  <2> QED
    BY <1>3, <1>6, <2>1, ObjOfMember
<1>8. ASSUME NEW i \in DOMAIN fields, ~Written(fields[i], v)
      PROVE  ~Has(j, fields[i].key)
  <2>1. \A p \in S : p[1] # fields[i].key
    BY <1>2, <1>8
  <2> QED
    BY <1>3, <2>1, ObjOfAbsent
<1>9. PICK d : d = [i \in DOMAIN fields |-> DecodeField(fields[i], j)]
  OBVIOUS
<1>10. ASSUME NEW i \in DOMAIN fields
       PROVE  d[i] = {w[fields[i].key]}
  <2>0. d[i] = DecodeField(fields[i], j)
    BY <1>9
  <2>1. CASE fields[i].how = "required"
    <3>1. Written(fields[i], v)
      BY <2>1 DEF Written
    <3>2. Has(j, fields[i].key)
          /\ At(j, fields[i].key) = ToJson(fields[i].type, v[fields[i].key])
      BY <1>5, <1>7, <2>1, <3>1
    <3> QED
      BY <1>0, <2>0, <2>1, <3>2 DEF DecodeField
  <2>2. CASE fields[i].how = "defaulted"
    <3>1. CASE Written(fields[i], v)
      <4>1. Has(j, fields[i].key)
            /\ At(j, fields[i].key) = ToJson(fields[i].type, v[fields[i].key])
        BY <1>5, <1>7, <2>2, <3>1
      <4> QED
        BY <1>0, <2>0, <2>2, <4>1 DEF DecodeField
    <3>2. CASE ~Written(fields[i], v)
      <4>1. v[fields[i].key] = fields[i].or
        BY <2>2, <3>2 DEF Written
      <4>2. ~Has(j, fields[i].key)
        BY <1>8, <3>2
      <4> QED
        BY <1>0, <2>0, <2>2, <4>1, <4>2 DEF DecodeField
    <3> QED
      BY <3>1, <3>2
  <2>3. CASE fields[i].how = "optional"
    <3>1. CASE v[fields[i].key] = Nothing
      <4>1. ~Written(fields[i], v)
        BY <2>3, <3>1 DEF Written
      <4>2. ~Has(j, fields[i].key)
        BY <1>8, <4>1
      <4> QED
        BY <1>0, <2>0, <2>3, <3>1, <4>2 DEF DecodeField
    <3>2. CASE v[fields[i].key] # Nothing
      <4>1. PICK x : /\ v[fields[i].key] = Just(x)
                     /\ \/ /\ w[fields[i].key] = Just(x)
                           /\ ToJson(fields[i].type, x) # JNull
                           /\ FromJson(fields[i].type, ToJson(fields[i].type, x)) = {x}
                        \/ /\ w[fields[i].key] = Nothing
                           /\ ToJson(fields[i].type, x) = JNull
        BY <1>0, <2>3, <3>2
      <4>2. Written(fields[i], v)
        BY <2>3, <3>2 DEF Written
      <4>3. The(v[fields[i].key]) = x
        BY <4>1 DEF The, Just
      <4>4. Has(j, fields[i].key) /\ At(j, fields[i].key) = ToJson(fields[i].type, x)
        BY <1>5, <1>7, <2>3, <4>2, <4>3
      <4>5. CASE ToJson(fields[i].type, x) = JNull
        <5>1. w[fields[i].key] = Nothing
          BY <4>1, <4>5
        <5> QED
          BY <2>0, <2>3, <4>4, <4>5, <5>1 DEF DecodeField
      <4>6. CASE ToJson(fields[i].type, x) # JNull
        <5>1. DecodeField(fields[i], j)
              = {Just(y) : y \in FromJson(fields[i].type, At(j, fields[i].key))}
          BY <2>3, <4>4, <4>6 DEF DecodeField
        <5>2. d[i] = {Just(y) : y \in {x}}
          BY <2>0, <4>1, <4>4, <4>6, <5>1
        <5>3. d[i] = {Just(x)}
          BY <5>2
        <5> QED
          BY <4>1, <4>6, <5>3
      <4> QED
        BY <4>5, <4>6
    <3> QED
      BY <3>1, <3>2
  <2>4. CASE fields[i].how = "meta"
    <3>1. fields[i].key = "_meta" /\ v["_meta"][1] = "obj" /\ w["_meta"] = v["_meta"]
      BY <1>0, <2>4 DEF IsObj
    <3>2. e[i] = v["_meta"]
      BY <1>0, <1>5, <2>4, <3>1
    <3>3. d[i] = {LenientMeta(j)}
      BY <2>0, <2>4 DEF DecodeField
    <3>4. CASE Written(fields[i], v)
      <4>1. Has(j, "_meta") /\ At(j, "_meta") = v["_meta"]
        BY <1>7, <3>1, <3>2, <3>4
      <4> QED
        BY <3>1, <3>3, <4>1 DEF LenientMeta, Holds
    <3>5. CASE ~Written(fields[i], v)
      <4>1. v["_meta"] = EmptyObj
        BY <1>0, <2>4, <3>1, <3>5 DEF Written
      <4>2. ~Has(j, "_meta")
        BY <1>8, <3>1, <3>5
      <4> QED
        BY <3>1, <3>3, <4>1, <4>2 DEF LenientMeta, Holds
    <3> QED
      BY <3>4, <3>5
  <2> QED
    BY <1>0, <2>1, <2>2, <2>3, <2>4
<1> QED
  BY <1>4, <1>9, <1>10

\* ... and a struct is what its members are.
ReadTo(fields, j, w) ==
    /\ IsObj(j)
    /\ w = [x \in {fields[i].key : i \in DOMAIN fields} |-> w[x]]
    /\ \A i \in DOMAIN fields : DecodeField(fields[i], j) = {w[fields[i].key]}

LEMMA RecordOfFields ==
    ASSUME NEW fields, NEW j, NEW w, ReadTo(fields, j, w)
    PROVE  DecodeRecord(fields, j) = {w}
<1>0. PICK K : K = {fields[i].key : i \in DOMAIN fields}
  OBVIOUS
<1>1. PICK d : d = [i \in DOMAIN fields |-> DecodeField(fields[i], j)]
  OBVIOUS
<1>2. \A i \in DOMAIN fields : d[i] = {w[fields[i].key]}
  BY <1>1 DEF ReadTo
<1>3. K = {fields[i].key : i \in DOMAIN fields} /\ IsObj(j) /\ w = [x \in K |-> w[x]]
  BY <1>0 DEF ReadTo
<1>4. PICK U : U = UNION {{<<fields[i].key, x>> : x \in d[i]} : i \in DOMAIN fields}
  OBVIOUS
<1>5. DOMAIN w = K /\ w = [k \in DOMAIN w |-> w[k]]
  BY <1>3
<1>6. Assembled(U, K) = {w}
  <2>1. \A p : p \in U <=> \E i \in DOMAIN fields : \E x \in d[i] : p = <<fields[i].key, x>>
    BY <1>4
  <2>2. ASSUME NEW p
        PROVE  p \in U <=> \E k \in DOMAIN w : p = <<k, w[k]>>
    <3>1. ASSUME p \in U
          PROVE  \E k \in DOMAIN w : p = <<k, w[k]>>
      <4>0. PICK i \in DOMAIN fields : \E x \in d[i] : p = <<fields[i].key, x>>
        BY <2>1, <3>1
      <4>1. p = <<fields[i].key, w[fields[i].key]>>
        BY <1>2, <4>0
      <4>2. fields[i].key \in DOMAIN w
        BY <1>3, <1>5
      <4> QED
        BY <4>1, <4>2
    <3>2. ASSUME NEW k \in DOMAIN w, p = <<k, w[k]>>
          PROVE  p \in U
      <4>1. PICK i \in DOMAIN fields : k = fields[i].key
        BY <1>3, <1>5
      <4>2. w[k] \in d[i]
        BY <1>2, <4>1
      <4> QED
        BY <2>1, <3>2, <4>1, <4>2
    <3> QED
      BY <3>1, <3>2
  <2> QED
    BY <1>5, <2>2, FunctionOfPairs
<1>7. DecodeRecord(fields, j) = Assembled(U, K)
  <2>1. UNION {{<<fields[i].key, x>> : x \in DecodeField(fields[i], j)} :
               i \in DOMAIN fields} = U
    BY <1>1, <1>4
  <2> QED
    BY <1>3, <2>1 DEF DecodeRecord
<1> QED
  BY <1>6, <1>7

\* A struct comes back with each member as it is read: each member that is
\* written decodes to what it was, each that is left out to Nothing, to its
\* default or to empty metadata, whether or not members that hold their default
\* are written (codec.hpp:26-42, tests/spec_round_trip.cpp:11-21).
THEOREM RecordRoundTrip ==
    ASSUME NEW fields, NEW v, NEW w,
           \A i, k \in DOMAIN fields : fields[i].key = fields[k].key => i = k,
           w = [x \in {fields[i].key : i \in DOMAIN fields} |-> w[x]],
           \A i \in DOMAIN fields : ReadsAs(fields[i], v[fields[i].key], w[fields[i].key])
    PROVE  DecodeRecord(fields, EncodeRecord(fields, v)) = {w}
<1>1. \A i \in DOMAIN fields :
          DecodeField(fields[i], EncodeRecord(fields, v)) = {w[fields[i].key]}
  BY FieldsReadBack
<1>2. IsObj(EncodeRecord(fields, v))
  BY ObjOfHas DEF EncodeRecord
<1>3. ReadTo(fields, EncodeRecord(fields, v), w)
  BY <1>1, <1>2 DEF ReadTo
<1> QED
  BY <1>3, RecordOfFields

\* The fields of a struct that was decoded are what each member decodes to.
LEMMA DecodedFields ==
    ASSUME NEW fields, NEW j, NEW d,
           d = [i \in DOMAIN fields |-> DecodeField(fields[i], j)],
           \A i, k \in DOMAIN fields : fields[i].key = fields[k].key => i = k,
           NEW v \in DecodeRecord(fields, j)
    PROVE  \A i \in DOMAIN fields : v[fields[i].key] \in d[i]
<1>1. PICK K : K = {fields[i].key : i \in DOMAIN fields}
  OBVIOUS
<1>2. PICK U : U = UNION {{<<fields[i].key, x>> : x \in d[i]} : i \in DOMAIN fields}
  OBVIOUS
<1>3. v \in Assembled(U, K)
  <2>1. UNION {{<<fields[i].key, x>> : x \in DecodeField(fields[i], j)} :
               i \in DOMAIN fields} = U
    BY <1>2
  <2> QED
    BY <1>1, <2>1 DEF DecodeRecord
<1>4. {m[1] : m \in U} = K /\ v = FunctionOf(U)
  BY <1>3 DEF Assembled
<1>5. ASSUME NEW i \in DOMAIN fields
      PROVE  v[fields[i].key] \in d[i]
  <2>1. PICK p : p = CHOOSE m \in U : m[1] = fields[i].key
    OBVIOUS
  <2>2. fields[i].key \in {m[1] : m \in U}
    BY <1>1, <1>4
  <2>3. p \in U /\ p[1] = fields[i].key
    <3>1. PICK m \in U : m[1] = fields[i].key
      BY <2>2
    <3> QED
      BY <2>1, <3>1
  <2>4. v[fields[i].key] = p[2]
    BY <1>4, <2>1, <2>2 DEF FunctionOf
  <2>5. PICK k \in DOMAIN fields : \E x \in d[k] : p = <<fields[k].key, x>>
    BY <1>2, <2>3
  <2>6. k = i
    BY <2>3, <2>5
  <2> QED
    BY <2>4, <2>5, <2>6
<1> QED
  BY <1>5

\* A member that is left out, and an optional one that is null, is Nothing or
\* the default (codec.hpp:26-42, tests/spec_round_trip.cpp:11-21).
THEOREM AbsenceIsDefault ==
    ASSUME NEW fields, NEW j,
           \A i, k \in DOMAIN fields : fields[i].key = fields[k].key => i = k,
           NEW v \in DecodeRecord(fields, j), NEW i \in DOMAIN fields
    PROVE  /\ fields[i].how = "defaulted" /\ ~Has(j, fields[i].key) =>
                  v[fields[i].key] = fields[i].or
           /\ fields[i].how = "optional"
              /\ (~Has(j, fields[i].key) \/ At(j, fields[i].key) = JNull) =>
                  v[fields[i].key] = Nothing
<1>1. PICK d : d = [k \in DOMAIN fields |-> DecodeField(fields[k], j)]
  OBVIOUS
<1>2. v[fields[i].key] \in d[i]
  BY <1>1, DecodedFields
<1>3. v[fields[i].key] \in DecodeField(fields[i], j)
  BY <1>1, <1>2
<1> QED
  BY <1>3 DEF DecodeField

\* Without a required member, or with one that does not decode, there is no
\* struct (codec.hpp:26-42).
THEOREM RequiredIsNeeded ==
    ASSUME NEW fields, NEW j,
           \A i, k \in DOMAIN fields : fields[i].key = fields[k].key => i = k,
           NEW i \in DOMAIN fields, fields[i].how = "required",
           ~Has(j, fields[i].key) \/ FromJson(fields[i].type, At(j, fields[i].key)) = {}
    PROVE  DecodeRecord(fields, j) = {}
<1>1. PICK d : d = [k \in DOMAIN fields |-> DecodeField(fields[k], j)]
  OBVIOUS
<1>2. DecodeField(fields[i], j) = {}
  BY DEF DecodeField
<1>3. d[i] = {}
  BY <1>1, <1>2
<1>4. ASSUME NEW v \in DecodeRecord(fields, j)
      PROVE  FALSE
  BY <1>1, <1>3, <1>4, DecodedFields
<1> QED
  BY <1>4

\* A struct is decoded from the members that record<T> was given.
LEMMA OnlyMembersAreRead ==
    ASSUME NEW fields, NEW j, IsObj(j), NEW w, IsObj(w),
           \A i \in DOMAIN fields :
               /\ Has(w, fields[i].key) <=> Has(j, fields[i].key)
               /\ Has(j, fields[i].key) => At(w, fields[i].key) = At(j, fields[i].key),
           \A i \in DOMAIN fields : fields[i].how = "meta" => fields[i].key = "_meta",
           \A i \in DOMAIN fields :
               fields[i].how \in {"required", "optional", "defaulted", "meta"}
    PROVE  DecodeRecord(fields, w) = DecodeRecord(fields, j)
<1>1. ASSUME NEW i \in DOMAIN fields
      PROVE  DecodeField(fields[i], w) = DecodeField(fields[i], j)
  <2>1. fields[i].how = "meta" => LenientMeta(w) = LenientMeta(j)
    BY DEF LenientMeta, Holds
  <2>2. CASE fields[i].how = "required"
    BY <2>2 DEF DecodeField
  <2>3. CASE fields[i].how = "defaulted"
    BY <2>3 DEF DecodeField
  <2>4. CASE fields[i].how = "optional"
    BY <2>4 DEF DecodeField
  <2>5. CASE fields[i].how = "meta"
    BY <2>1, <2>5 DEF DecodeField
  <2> QED
    BY <2>2, <2>3, <2>4, <2>5
<1>2. PICK d : d = [i \in DOMAIN fields |-> DecodeField(fields[i], j)]
  OBVIOUS
<1>3. UNION {{<<fields[i].key, y>> : y \in DecodeField(fields[i], w)} : i \in DOMAIN fields}
      = UNION {{<<fields[i].key, y>> : y \in d[i]} : i \in DOMAIN fields}
  <2>1. \A i \in DOMAIN fields : DecodeField(fields[i], w) = d[i]
    BY <1>1, <1>2
  <2> QED
    BY <2>1
<1>4. UNION {{<<fields[i].key, y>> : y \in DecodeField(fields[i], j)} : i \in DOMAIN fields}
      = UNION {{<<fields[i].key, y>> : y \in d[i]} : i \in DOMAIN fields}
  BY <1>2
<1> QED
  BY <1>3, <1>4 DEF DecodeRecord

\* Members that record<T> was not given are not looked at, so a struct of a
\* later version decodes as without them (codec.hpp:26-42).
THEOREM UnknownMembersAreIgnored ==
    ASSUME NEW fields, NEW j, IsObj(j), NEW k, NEW x,
           \A i \in DOMAIN fields : fields[i].key # k,
           \A i \in DOMAIN fields : fields[i].how = "meta" => fields[i].key = "_meta",
           \A i \in DOMAIN fields :
               fields[i].how \in {"required", "optional", "defaulted", "meta"}
    PROVE  DecodeRecord(fields, With(j, k, x)) = DecodeRecord(fields, j)
<1>1. PICK w : w = With(j, k, x)
  OBVIOUS
<1>2. IsObj(w)
  BY <1>1 DEF With, IsObj, JObj
<1>3. \A i \in DOMAIN fields :
          /\ Has(w, fields[i].key) <=> Has(j, fields[i].key)
          /\ Has(j, fields[i].key) => At(w, fields[i].key) = At(j, fields[i].key)
  BY <1>1, OtherMember
<1>4. DecodeRecord(fields, w) = DecodeRecord(fields, j)
  BY <1>2, <1>3, OnlyMembersAreRead
<1> QED
  BY <1>1, <1>4

-----------------------------------------------------------------------------
(***************************************************************************)
(* List<T> and sum_tagged<T>.                                              *)
(***************************************************************************)
\* A list comes back with its elements in their order.
THEOREM ListRoundTrip ==
    ASSUME NEW t, NEW q, q = [i \in DOMAIN q |-> q[i]],
           \A i \in DOMAIN q : FromJson(t, ToJson(t, q[i])) = {q[i]}
    PROVE  DecodeList(t, EncodeList(t, q)) = {q}
<1>1. PICK e : e = [i \in DOMAIN q |-> ToJson(t, q[i])]
  OBVIOUS
<1>2. PICK j : j = JArr(e)
  OBVIOUS
<1>3. EncodeList(t, q) = j /\ j[1] = "arr" /\ j[2] = e /\ DOMAIN e = DOMAIN q
  BY <1>1, <1>2 DEF EncodeList, JArr
<1>4. PICK U : U = UNION {{<<i, x>> : x \in FromJson(t, j[2][i])} : i \in DOMAIN j[2]}
  OBVIOUS
<1>5. \A i \in DOMAIN q : FromJson(t, j[2][i]) = {q[i]}
  BY <1>1, <1>3
<1>6. ASSUME NEW p
      PROVE  p \in U <=> \E i \in DOMAIN q : p = <<i, q[i]>>
  <2>1. p \in U <=> \E i \in DOMAIN q : \E x \in FromJson(t, j[2][i]) : p = <<i, x>>
    BY <1>3, <1>4
  <2>2. ASSUME p \in U
        PROVE  \E i \in DOMAIN q : p = <<i, q[i]>>
    BY <1>5, <2>1, <2>2
  <2>3. ASSUME NEW i \in DOMAIN q, p = <<i, q[i]>>
        PROVE  p \in U
    <3>1. q[i] \in FromJson(t, j[2][i])
      BY <1>5
    <3> QED
      BY <2>1, <2>3, <3>1
  <2> QED
    BY <2>2, <2>3
<1>7. Assembled(U, DOMAIN q) = {q}
  BY <1>6, FunctionOfPairs
<1>8. DecodeList(t, j) = Assembled(U, DOMAIN j[2])
  BY <1>3, <1>4 DEF DecodeList
<1> QED
  BY <1>3, <1>7, <1>8

\* A sum comes back as the arm it was: the tag, written into the arm's object,
\* picks that arm and no other, if the codec of an arm does not look at the tag
\* (content.hpp:205-214, tools.hpp:108-115, updates.hpp:219-237).
THEOREM TaggedRoundTrip ==
    ASSUME NEW key, NEW arms, NEW v, NEW n \in DOMAIN arms, v[1] = arms[n].type, NEW y,
           \A i, k \in DOMAIN arms : arms[i].type = arms[k].type => i = k,
           \A i, k \in DOMAIN arms : arms[i].label = arms[k].label => i = k,
           FromJson(Ref(v[1]), With(ToJson(Ref(v[1]), v[2]), key, JStr(arms[n].label))) = {y}
    PROVE  DecodeTagged(key, arms, EncodeTagged(key, arms, v)) = {<<v[1], y>>}
<1>1. PICK o : o = ToJson(Ref(v[1]), v[2])
  OBVIOUS
<1>2. PICK j : j = With(o, key, JStr(arms[n].label))
  OBVIOUS
<1>3. v[1] = arms[n].type
  OBVIOUS
<1>4. Label(arms, v[1]) = arms[n].label
  <2>1. PICK A : A = {arms[i] : i \in DOMAIN arms}
    OBVIOUS
  <2>2. arms[n] \in A /\ \A a \in A : a.type = v[1] => a = arms[n]
    BY <1>3, <2>1
  <2>3. PICK b : b = CHOOSE a \in A : a.type = v[1]
    OBVIOUS
  <2>4. b = arms[n]
    BY <1>3, <2>2, <2>3
  <2> QED
    BY <2>1, <2>3, <2>4 DEF Label
<1>5. EncodeTagged(key, arms, v) = j
  BY <1>1, <1>2, <1>4 DEF EncodeTagged
<1>6. Has(j, key) /\ At(j, key) = JStr(arms[n].label)
  BY <1>2 DEF With, Has, At, IsObj, JObj, Put
<1>7. FromJson(Ref(arms[n].type), j) = {y}
  BY <1>1, <1>2, <1>3
<1>8. {i \in DOMAIN arms : Has(j, key) /\ At(j, key) = JStr(arms[i].label)} = {n}
  BY <1>6 DEF JStr
<1>9. DecodeTagged(key, arms, j)
      = UNION {{<<arms[i].type, x>> : x \in FromJson(Ref(arms[i].type), j)} : i \in {n}}
  BY <1>8 DEF DecodeTagged
<1>10. UNION {{<<arms[i].type, x>> : x \in FromJson(Ref(arms[i].type), j)} : i \in {n}}
       = {<<arms[n].type, x>> : x \in {y}}
  BY <1>7
<1>11. {<<arms[n].type, x>> : x \in {y}} = {<<v[1], y>>}
  BY <1>3
<1> QED
  BY <1>5, <1>9, <1>10, <1>11
=============================================================================
