-------------------------- MODULE AcpHandshakeProofs --------------------------
(***************************************************************************)
(* The initialize exchange, for any offers, any deadlines and any number   *)
(* of retries: it keeps to the connection, and the version each side goes  *)
(* by is the best common one and the same.                                 *)
(***************************************************************************)
EXTENDS AcpHandshake, AcpConnectionProofs

LEMMA PeerFacts ==
    /\ "client" \in Peer /\ "agent" \in Peer
    /\ Other("client") = "agent" /\ Other("agent") = "client"
    /\ \A p \in Peer : p = "client" \/ p = "agent"
BY DEF Peer, Other

-----------------------------------------------------------------------------
(***************************************************************************)
(* The rule.                                                               *)
(***************************************************************************)
LEMMA OursType == Ours \in {1, 2}
BY HandshakeAssumption DEF Ours, kMaxProtocolVersion, kProtocolVersion

\* What a client asks for is an integer, also when it leaves the version out.
LEMMA AskedType ==
    ASSUME HandshakeTypeOK, NEW i \in DOMAIN offered
    PROVE  Asked(offered[i]) \in Int
<1>1. CASE offered[i] = {}
  BY <1>1 DEF Asked, kProtocolVersion
<1>2. ASSUME NEW v \in Offers, offered[i] = {v}
      PROVE  Asked(offered[i]) \in Int
  <2>1. v \in Int
    BY HandshakeAssumption
  <2>2. (CHOOSE x \in {v} : TRUE) \in {v}
    OBVIOUS
  <2>3. {v} # {}
    OBVIOUS
  <2> QED
    BY <1>2, <2>1, <2>2, <2>3 DEF Asked
<1> QED
  BY <1>1, <1>2 DEF HandshakeTypeOK

\* negotiate_version gives the best version both sides speak, and none
\* exactly when there is none.
LEMMA NegotiateIsBest ==
    ASSUME NEW v \in Int
    PROVE  /\ negotiate_version(Ours, v) = {} <=> Common(v) = {}
           /\ \A n \in negotiate_version(Ours, v) :
                  /\ negotiate_version(Ours, v) = {n}
                  /\ n \in Common(v)
                  /\ \A m \in Common(v) : m <= n
<1>1. CASE v < 1
  BY <1>1, OursType DEF negotiate_version, Common
<1>2. CASE v >= 1
  <2>1. 1 \in Common(v)
    BY <1>2, OursType DEF Common
  <2>2. \E n \in Int : negotiate_version(Ours, v) = {n}
    BY <1>2, OursType DEF negotiate_version
  <2>3. \A n \in negotiate_version(Ours, v) :
            n \in Common(v) /\ \A m \in Common(v) : m <= n
    BY <1>2, OursType DEF negotiate_version, Common
  <2> QED
    BY <2>1, <2>2, <2>3
<1> QED
  BY <1>1, <1>2

-----------------------------------------------------------------------------
(***************************************************************************)
(* Every step is a step of the connection.                                 *)
(***************************************************************************)
LEMMA HandshakeStepIsStep == [HandshakeNext]_handshakeVars => [Next]_vars
<1> SUFFICES ASSUME [HandshakeNext]_handshakeVars
             PROVE  [Next]_vars
  OBVIOUS
<1>1. CASE UNCHANGED handshakeVars
  BY <1>1 DEF handshakeVars, vars
<1>2. ASSUME NEW o, NEW timed \in BOOLEAN, Initialize(o, timed)
      PROVE  Next
  BY <1>2, PeerFacts, HandshakeAssumption DEF Initialize, Next
<1>3. ASSUME NEW p \in Peer, NEW m \in Callable(p) \cap Method, CallPeer(p, m)
      PROVE  Next
  BY <1>3 DEF CallPeer, Next
<1>4. ASSUME NEW p \in Peer, Take(p)
      PROVE  Next
  BY <1>4 DEF Take, GrantVersion, RefuseVersion, ReadInitialize, ReceiveOther, Reply,
     Receive, Next
<1>5. ASSUME NEW p \in Peer, Late(p)
      PROVE  Next
  BY <1>5 DEF Late, Next
<1> QED
  BY <1>1, <1>2, <1>3, <1>4, <1>5 DEF HandshakeNext

\* The exchange keeps to the connection: everything that holds of its
\* behaviours holds of initialize and of the calls after it.
THEOREM HandshakeIsConnection == HandshakeSpec => Spec
<1>1. HandshakeInit => Init
  BY DEF HandshakeInit
<1>2. [HandshakeNext]_handshakeVars => [Next]_vars
  BY HandshakeStepIsStep
<1> QED
  BY <1>1, <1>2, PTL DEF HandshakeSpec, Spec

-----------------------------------------------------------------------------
(***************************************************************************)
(* Ascending streams.                                                      *)
(***************************************************************************)
LEMMA AscendingSame ==
    ASSUME NEW s, NEW kind, NEW S, NEW T \in SUBSET S, Ascending(s, kind, S)
    PROVE  Ascending(s, kind, T)
BY DEF Ascending

LEMMA AscendingAppend ==
    ASSUME NEW s \in Seq(Frame), NEW g \in Frame, NEW kind, NEW S, NEW T \in SUBSET S,
           Ascending(s, kind, S),
           OfInitialize(g, kind) =>
               /\ \A i \in S : i < g.id
               /\ \A k \in DOMAIN s : OfInitialize(s[k], kind) => s[k].id < g.id
    PROVE  Ascending(Append(s, g), kind, T)
<1>1. /\ DOMAIN s = 1 .. Len(s) /\ Len(s) \in Nat
      /\ DOMAIN Append(s, g) = 1 .. Len(s) + 1
      /\ \A k \in 1 .. Len(s) : Append(s, g)[k] = s[k]
      /\ Append(s, g)[Len(s) + 1] = g
  BY AppendProperties, LenProperties
<1> SUFFICES ASSUME NEW k \in 1 .. Len(s) + 1, OfInitialize(Append(s, g)[k], kind)
             PROVE  /\ \A i \in S : i < Append(s, g)[k].id
                    /\ \A j \in 1 .. Len(s) + 1 : j < k /\ OfInitialize(Append(s, g)[j], kind) =>
                           Append(s, g)[j].id < Append(s, g)[k].id
  BY <1>1 DEF Ascending
<1>2. CASE k = Len(s) + 1
  BY <1>1, <1>2
<1>3. CASE k \in 1 .. Len(s)
  BY <1>1, <1>3 DEF Ascending
<1> QED
  BY <1>1, <1>2, <1>3

\* The first frame's id may join the bound when the frame is taken.
LEMMA AscendingDrop ==
    ASSUME NEW s \in Seq(Frame), s # << >>, NEW kind, NEW S, NEW T, Ascending(s, kind, S),
           \A i \in T : i \in S \/ (OfInitialize(s[1], kind) /\ i = s[1].id)
    PROVE  Ascending(Tail(s), kind, T)
<1>1. /\ DOMAIN s = 1 .. Len(s) /\ Len(s) \in Nat /\ Len(s) # 0
      /\ DOMAIN Tail(s) = 1 .. Len(s) - 1
      /\ \A k \in 1 .. Len(s) - 1 : Tail(s)[k] = s[k + 1]
  BY HeadTailProperties, LenProperties, EmptySeq
<1> SUFFICES ASSUME NEW k \in 1 .. Len(s) - 1, OfInitialize(s[k + 1], kind)
             PROVE  /\ \A i \in T : i < s[k + 1].id
                    /\ \A j \in 1 .. Len(s) - 1 : j < k /\ OfInitialize(s[j + 1], kind) =>
                           s[j + 1].id < s[k + 1].id
  BY <1>1 DEF Ascending
<1>2. k + 1 \in DOMAIN s /\ 1 \in DOMAIN s /\ 1 < k + 1
  BY <1>1
<1>3. \A j \in 1 .. Len(s) - 1 : j < k => j + 1 \in DOMAIN s /\ j + 1 < k + 1
  BY <1>1
<1> QED
  BY <1>2, <1>3 DEF Ascending

-----------------------------------------------------------------------------
(***************************************************************************)
(* Steps that decide no offer and read no grant.                           *)
(***************************************************************************)
\* On its way to p, g is not about initialize or says no to one that had to
\* be refused.
Harmless(p, g) ==
    /\ ~OfInitialize(g, "call")
    /\ ~OfInitialize(g, "result")
    /\ p = "client" /\ OfInitialize(g, "error") => Refused(g.id)

QuietStream(p) ==
    \/ wire'[p] = wire[p]
    \/ wire[p] # << >> /\ wire'[p] = Tail(wire[p])
    \/ \E g \in Frame : Harmless(p, g) /\ wire'[p] = Append(wire[p], g)

LEMMA InvTypes ==
    ASSUME HandshakeInv
    PROVE  /\ HandshakeTypeOK /\ AskedInv /\ GrantsInv /\ OrderInv /\ TypeOK
           /\ \A p \in Peer : wire[p] \in Seq(Frame) /\ next[p] \in Nat /\ said[p] \in Nat
BY DEF HandshakeInv, HandshakeTypeOK, TypeOK

LEMMA QuietFrames ==
    ASSUME TypeOK, NEW p \in Peer, QuietStream(p), NEW k \in DOMAIN wire'[p]
    PROVE  Harmless(p, wire'[p][k]) \/ \E j \in DOMAIN wire[p] : wire'[p][k] = wire[p][j]
<1>1. wire[p] \in Seq(Frame)
  BY DEF TypeOK
<1>2. CASE wire'[p] = wire[p]
  BY <1>2
<1>3. CASE wire[p] # << >> /\ wire'[p] = Tail(wire[p])
  BY <1>1, <1>3, DroppedLemma DEF Dropped
<1>4. ASSUME NEW g \in Frame, Harmless(p, g), wire'[p] = Append(wire[p], g)
      PROVE  Harmless(p, wire'[p][k]) \/ \E j \in DOMAIN wire[p] : wire'[p][k] = wire[p][j]
  BY <1>1, <1>4, AppendedLemma DEF Appended
<1> QED
  BY <1>2, <1>3, <1>4 DEF QuietStream

LEMMA QuietAscending ==
    ASSUME TypeOK, NEW p \in Peer, QuietStream(p), NEW kind \in {"call", "result"}, NEW S,
           Ascending(wire[p], kind, S)
    PROVE  Ascending(wire'[p], kind, S)
<1>1. wire[p] \in Seq(Frame)
  BY DEF TypeOK
<1>2. CASE wire'[p] = wire[p]
  BY <1>2
<1>3. CASE wire[p] # << >> /\ wire'[p] = Tail(wire[p])
  BY <1>1, <1>3, AscendingDrop
<1>4. ASSUME NEW g \in Frame, Harmless(p, g), wire'[p] = Append(wire[p], g)
      PROVE  Ascending(wire'[p], kind, S)
  <2>1. ~OfInitialize(g, kind)
    BY <1>4 DEF Harmless
  <2> QED
    BY <1>1, <1>4, <2>1, AscendingAppend
<1> QED
  BY <1>2, <1>3, <1>4 DEF QuietStream

LEMMA StepQuiet ==
    ASSUME HandshakeInv, TypeOK', UNCHANGED handVars, \A p \in Peer : QuietStream(p),
           next["client"] <= next'["client"],
           Issued("client") \subseteq Issued("client")',
           \A r \in Issued("client")' : r \in Issued("client") \/ r.method # "initialize",
           done["client"] \subseteq done'["client"],
           \A d \in done'["client"] : \/ d \in done["client"]
                                      \/ d.req.method # "initialize"
                                      \/ d.outcome \notin Reply
    PROVE  HandshakeInv'
<1>1. offered' = offered /\ granted' = granted /\ version' = version
  BY DEF handVars
<1>2. HandshakeTypeOK'
  <2>1. next["client"] \in Nat /\ next'["client"] \in Nat
    BY PeerFacts DEF TypeOK, HandshakeInv, HandshakeTypeOK
  <2> QED
    BY <1>1, <2>1 DEF HandshakeInv, HandshakeTypeOK
<1>3. AskedInv'
  BY <1>1, InvTypes DEF AskedInv
<1>4. GrantsInv'
  <2>1. \A i \in DOMAIN granted : negotiate_version(Ours, Asked(offered[i])) = {granted[i]}
    BY InvTypes DEF GrantsInv
  <2>2. ASSUME NEW k \in DOMAIN wire'["client"], NEW f, f = wire'["client"][k]
        PROVE  /\ OfInitialize(f, "result") => Granted(f.id)
               /\ OfInitialize(f, "error") => Refused(f.id)
    <3>1. CASE Harmless("client", f)
      BY <3>1 DEF Harmless
    <3>2. CASE \E j \in DOMAIN wire["client"] : f = wire["client"][j]
      BY <3>2, InvTypes DEF GrantsInv
    <3> QED
      BY <2>2, <3>1, <3>2, PeerFacts, InvTypes, QuietFrames
  <2>3. ASSUME NEW d \in done'["client"], d.req.method = "initialize"
        PROVE  /\ d.outcome = "result" => Granted(d.req.id)
               /\ d.outcome = "error" => Refused(d.req.id)
    BY <2>3, InvTypes DEF GrantsInv, Reply
  <2> QED
    BY <1>1, <2>1, <2>2, <2>3 DEF GrantsInv, Granted, Refused
<1>5. ReadGrants' = ReadGrants
  BY DEF ReadGrants, Reply
<1>6. OrderInv'
  BY <1>1, <1>5, PeerFacts, InvTypes, QuietAscending DEF OrderInv
<1> QED
  BY <1>2, <1>3, <1>4, <1>6 DEF HandshakeInv

-----------------------------------------------------------------------------
(***************************************************************************)
(* What the connection's invariant says of the ids in the streams.         *)
(***************************************************************************)
LEMMA IdFacts ==
    ASSUME IInv
    PROVE  /\ {r.id : r \in Issued("client")} = 1 .. next["client"]
           /\ \A k \in DOMAIN wire["agent"] : wire["agent"][k].kind = "call" =>
                  Names("client", wire["agent"][k].id, wire["agent"][k].method)
           /\ \A k \in DOMAIN wire["client"] : wire["client"][k].kind \in Reply =>
                  Names("client", wire["client"][k].id, wire["client"][k].method)
<1>1. IdsInv("client") /\ NamesInv("client")
  BY PeerFacts DEF IInv
<1> QED
  BY <1>1, PeerFacts DEF IdsInv, NamesInv

\* An id that names an initialize has a row in the table of offers.
LEMMA NamedOffer ==
    ASSUME HandshakeInv, IInv, NEW i, Names("client", i, "initialize")
    PROVE  i \in DOMAIN offered
<1>1. i \in {r.id : r \in Issued("client")}
  BY IdFacts DEF Names
<1>2. PICK r \in Issued("client") : r.id = i
  BY <1>1
<1> QED
  BY <1>2, InvTypes DEF Names, AskedInv

LEMMA OneFrame ==
    ASSUME TypeOK, NEW p \in Peer, NEW f, Takes(p, f)
    PROVE  /\ f \in Frame /\ f.id \in Nat /\ f.method \in Method \cup Notice
           /\ wire[p] \in Seq(Frame) /\ wire[p] # << >>
           /\ 1 \in DOMAIN wire[p] /\ f = wire[p][1]
<1>1. f \in Frame /\ wire[p] \in Seq(Frame) /\ wire[p] # << >> /\ f = wire[p][1]
  BY TakenType
<1> QED
  BY <1>1, DroppedLemma DEF Dropped, Frame

-----------------------------------------------------------------------------
(***************************************************************************)
(* One lemma per operation.                                                *)
(***************************************************************************)
LEMMA StepInitialize ==
    ASSUME HandshakeInv, IInv, TypeOK', NEW o \in {{}} \cup {{v} : v \in Offers},
           NEW timed \in BOOLEAN, Initialize(o, timed)
    PROVE  HandshakeInv'
<1> DEFINE i == next["client"] + 1
           r == [id |-> i, method |-> "initialize", timed |-> timed]
           g == FrameOf("call", i, "initialize", said["client"])
<1>1. /\ next' = [next EXCEPT !["client"] = @ + 1]
      /\ pending' = [pending EXCEPT !["client"] = @ \cup {r}]
      /\ Write("client", g)
      /\ offered' = With(offered, next'["client"], o)
      /\ UNCHANGED <<done, said, granted, version>>
  BY DEF Initialize, SendRequest
<1>2. /\ g \in Frame /\ g.kind = "call" /\ g.id = i
      /\ next'["client"] = i /\ next["client"] \in Nat
      /\ pending'["client"] = pending["client"] \cup {r}
  <2>1. i \in Nat /\ said["client"] \in Nat /\ "initialize" \in Method
    BY InvTypes, PeerFacts, HandshakeAssumption
  <2>2. g \in Frame /\ g.kind = "call" /\ g.id = i
    BY <2>1, FrameOfType
  <2>3. next'["client"] = i /\ pending'["client"] = pending["client"] \cup {r}
    BY <1>1, InvTypes, PeerFacts DEF TypeOK
  <2> QED
    BY <2>2, <2>3, InvTypes, PeerFacts
<1>3. r.id = i /\ r.method = "initialize"
  OBVIOUS
<1> HIDE DEF g, r
<1>4. wire'["agent"] = Append(wire["agent"], g) /\ wire'["client"] = wire["client"]
  BY <1>1, <1>2, InvTypes, PeerFacts, WriteEffect
<1>5. Issued("client")' = Issued("client") \cup {r}
  BY <1>1, <1>2 DEF Issued
<1>6. /\ DOMAIN offered' = DOMAIN offered \cup {i}
      /\ offered'[i] = o
      /\ \A j \in DOMAIN offered : j < i /\ offered'[j] = offered[j]
  BY <1>1, <1>2, InvTypes DEF With, HandshakeTypeOK
<1>7. HandshakeTypeOK'
  <2>1. DOMAIN offered' \subseteq 1 .. next'["client"]
    BY <1>2, <1>6, InvTypes DEF HandshakeTypeOK
  <2>2. \A j \in DOMAIN offered' : offered'[j] = {} \/ \E v \in Offers : offered'[j] = {v}
    BY <1>6, InvTypes DEF HandshakeTypeOK
  <2> QED
    BY <1>1, <1>6, <2>1, <2>2, InvTypes DEF HandshakeTypeOK
<1>8. AskedInv'
  BY <1>3, <1>5, <1>6, InvTypes DEF AskedInv
<1>9. GrantsInv'
  <2>1. \A j \in 1 .. next["client"] : j # i
    BY <1>2
  <2>2. \A j \in DOMAIN granted : negotiate_version(Ours, Asked(offered'[j])) = {granted[j]}
    BY <1>6, InvTypes DEF GrantsInv, HandshakeTypeOK
  <2>3. ASSUME NEW k \in DOMAIN wire["client"], NEW f, f = wire["client"][k]
        PROVE  /\ OfInitialize(f, "result") => Granted(f.id)
               /\ OfInitialize(f, "error") =>
                      negotiate_version(Ours, Asked(offered'[f.id])) = {}
    <3>1. OfInitialize(f, "error") => f.id \in DOMAIN offered
      BY <2>3, IdFacts, NamedOffer DEF OfInitialize, Reply
    <3> QED
      BY <1>6, <2>3, <3>1, InvTypes DEF GrantsInv, Refused
  <2>4. ASSUME NEW d \in done["client"], d.req.method = "initialize"
        PROVE  /\ d.outcome = "result" => Granted(d.req.id)
               /\ d.outcome = "error" =>
                      negotiate_version(Ours, Asked(offered'[d.req.id])) = {}
    <3>1. d.req.id \in DOMAIN offered
      BY <2>4, InvTypes DEF AskedInv, Issued
    <3> QED
      BY <1>6, <2>4, <3>1, InvTypes DEF GrantsInv, Refused
  <2> QED
    BY <1>1, <1>4, <2>2, <2>3, <2>4 DEF GrantsInv, Granted, Refused
<1>10. OrderInv'
  <2>1. \A j \in DOMAIN granted : j < i
    BY <1>6, InvTypes DEF HandshakeTypeOK
  <2>2. \A k \in DOMAIN wire["agent"] : OfInitialize(wire["agent"][k], "call") =>
            wire["agent"][k].id < i
    BY <1>2, IdFacts DEF OfInitialize, Names
  <2>3. Ascending(wire'["agent"], "call", DOMAIN granted)
    <3>1. Ascending(wire["agent"], "call", DOMAIN granted) /\ wire["agent"] \in Seq(Frame)
      BY PeerFacts, InvTypes DEF OrderInv
    <3> QED
      BY <1>2, <1>4, <2>1, <2>2, <3>1, AscendingAppend
  <2>4. ReadGrants' = ReadGrants
    BY <1>1 DEF ReadGrants
  <2> QED
    BY <1>1, <1>4, <2>3, <2>4, InvTypes DEF OrderInv
<1> QED
  BY <1>7, <1>8, <1>9, <1>10 DEF HandshakeInv

LEMMA StepGrant ==
    ASSUME HandshakeInv, IInv, TypeOK', NEW f, GrantVersion(f)
    PROVE  HandshakeInv'
<1> DEFINE i == f.id
           s == wire["agent"]
           agreed == negotiate_version(Ours, Asked(offered[i]))
           g == FrameOf("result", i, f.method, said["agent"])
<1>1. /\ Takes("agent", f) /\ OfInitialize(f, "call")
      /\ TakeAndWrite("agent", g)
      /\ \E v \in agreed : granted' = With(granted, i, v)
      /\ version' = [version EXCEPT !["agent"] = agreed]
      /\ UNCHANGED <<next, pending, done, offered>>
  BY DEF GrantVersion, ReceiveHandled, OfInitialize
<1>2. /\ i \in Nat /\ f.method = "initialize" /\ s \in Seq(Frame) /\ s # << >>
      /\ 1 \in DOMAIN s /\ f = s[1]
  BY <1>1, OneFrame, InvTypes, PeerFacts DEF OfInitialize
<1>3. g \in Frame /\ OfInitialize(g, "result") /\ g.id = i
  BY <1>2, InvTypes, PeerFacts, FrameOfType, HandshakeAssumption DEF OfInitialize
<1> HIDE DEF g
<1>4. wire'["agent"] = Tail(s) /\ wire'["client"] = Append(wire["client"], g)
  BY <1>1, <1>3, InvTypes, PeerFacts, TakeAndWriteEffect
<1>5. i \in DOMAIN offered
  BY <1>1, <1>2, IdFacts, NamedOffer DEF OfInitialize
<1>6. \A j \in DOMAIN granted : j < i
  BY <1>1, <1>2, InvTypes DEF OrderInv, Ascending
<1>7. PICK v \in agreed : granted' = With(granted, i, v)
  BY <1>1
<1>8. agreed = {v} /\ v \in 1 .. Ours
  <2>1. Asked(offered[i]) \in Int
    BY <1>5, AskedType, InvTypes
  <2> QED
    BY <2>1, <1>7, NegotiateIsBest DEF Common
<1> HIDE DEF agreed
<1>9. /\ DOMAIN granted' = DOMAIN granted \cup {i}
      /\ granted'[i] = v
      /\ \A j \in DOMAIN granted : j # i /\ granted'[j] = granted[j]
  BY <1>2, <1>6, <1>7, InvTypes DEF With, HandshakeTypeOK
<1>10. version'["agent"] = {v} /\ version'["client"] = version["client"]
  BY <1>1, <1>8, PeerFacts, InvTypes DEF HandshakeTypeOK
<1>11. HandshakeTypeOK'
  <2>1. version' \in [Peer -> {{}} \cup {{n} : n \in 1 .. Ours}]
    BY <1>1, <1>8, PeerFacts, InvTypes DEF HandshakeTypeOK
  <2>2. \A j \in DOMAIN granted' : granted'[j] \in 1 .. Ours
    BY <1>8, <1>9, InvTypes DEF HandshakeTypeOK
  <2> QED
    BY <1>1, <1>5, <1>9, <2>1, <2>2, InvTypes DEF HandshakeTypeOK
<1>12. AskedInv'
  BY <1>1, InvTypes DEF AskedInv, Issued
<1>13. GrantsInv'
  <2>1. \A j \in DOMAIN granted' :
            negotiate_version(Ours, Asked(offered[j])) = {granted'[j]}
    BY <1>8, <1>9, InvTypes DEF GrantsInv, agreed
  <2>2. ASSUME NEW k \in DOMAIN wire'["client"], NEW h, h = wire'["client"][k]
        PROVE  /\ OfInitialize(h, "result") => h.id \in DOMAIN granted'
               /\ OfInitialize(h, "error") => Refused(h.id)
    <3>1. h = g \/ \E j \in DOMAIN wire["client"] : h = wire["client"][j]
      BY <1>3, <1>4, <2>2, PeerFacts, InvTypes, AppendedLemma DEF Appended
    <3>2. CASE h = g
      BY <1>3, <1>9, <3>2 DEF OfInitialize
    <3>3. CASE \E j \in DOMAIN wire["client"] : h = wire["client"][j]
      BY <1>9, <3>3, InvTypes DEF GrantsInv, Granted
    <3> QED
      BY <3>1, <3>2, <3>3
  <2>3. ASSUME NEW d \in done["client"], d.req.method = "initialize"
        PROVE  /\ d.outcome = "result" => d.req.id \in DOMAIN granted'
               /\ d.outcome = "error" => Refused(d.req.id)
    BY <1>9, <2>3, InvTypes DEF GrantsInv, Granted
  <2> QED
    BY <1>1, <2>1, <2>2, <2>3 DEF GrantsInv, Granted, Refused
<1>14. ReadGrants' = ReadGrants /\ ReadGrants \subseteq DOMAIN granted
  BY <1>1, InvTypes DEF ReadGrants, GrantsInv, Granted
<1>15. OrderInv'
  <2>1. Ascending(wire'["agent"], "call", DOMAIN granted')
    BY <1>1, <1>2, <1>4, <1>9, InvTypes, AscendingDrop DEF OrderInv
  <2>2. \A k \in DOMAIN wire["client"] : OfInitialize(wire["client"][k], "result") =>
            wire["client"][k].id < i
    BY <1>6, InvTypes DEF GrantsInv, Granted
  <2>3. Ascending(wire'["client"], "result", ReadGrants)
    <3>1. Ascending(wire["client"], "result", ReadGrants) /\ wire["client"] \in Seq(Frame)
      BY PeerFacts, InvTypes DEF OrderInv
    <3>2. \A n \in ReadGrants : n < i
      BY <1>6, <1>14
    <3> QED
      BY <1>3, <1>4, <2>2, <3>1, <3>2, AscendingAppend
  <2>4. ASSUME NEW j \in DOMAIN granted', \A n \in DOMAIN granted' : n <= j
        PROVE  version'["agent"] = {granted'[j]}
    <3>1. j = i
      <4>1. i <= j /\ j \in Nat /\ (j \in DOMAIN granted \/ j = i)
        BY <1>2, <1>9, <2>4, InvTypes DEF HandshakeTypeOK
      <4> QED
        BY <1>2, <1>6, <4>1
    <3> QED
      BY <1>9, <1>10, <3>1
  <2>5. ASSUME NEW j \in ReadGrants, \A n \in ReadGrants : n <= j
        PROVE  version'["client"] = {granted'[j]}
    BY <1>9, <1>10, <1>14, <2>5, InvTypes DEF OrderInv
  <2> QED
    BY <1>14, <2>1, <2>3, <2>4, <2>5 DEF OrderInv
<1> QED
  BY <1>11, <1>12, <1>13, <1>15 DEF HandshakeInv

\* A completion that moves requests from pending to done issues nothing.
LEMMA SameIssued ==
    ASSUME NEW S \in SUBSET pending["client"], NEW D,
           {d.req : d \in D} = S,
           pending'["client"] = pending["client"] \ S,
           done'["client"] = done["client"] \cup D
    PROVE  Issued("client")' = Issued("client")
<1>1. {c.req : c \in done["client"] \cup D} = {c.req : c \in done["client"]} \cup S
  OBVIOUS
<1> QED
  BY <1>1 DEF Issued

LEMMA StepRead ==
    ASSUME HandshakeInv, IInv, TypeOK', NEW f, NEW r \in pending["client"],
           ReadInitialize(f, r)
    PROVE  HandshakeInv'
<1> DEFINE i == f.id
           s == wire["client"]
           d == Answered(r, f, heard["client"])
<1>1. /\ Takes("client", f) /\ f.kind \in Reply
      /\ r.method = "initialize" /\ r.id = i
      /\ pending' = [pending EXCEPT !["client"] = @ \ {r}]
      /\ done' = [done EXCEPT !["client"] = @ \cup {d}]
      /\ wire' = [wire EXCEPT !["client"] = Tail(@)]
      /\ version' = IF f.kind = "result"
                    THEN [version EXCEPT !["client"] = {granted[i]}]
                    ELSE version
      /\ UNCHANGED <<next, offered, granted>>
  BY DEF ReadInitialize, ReceiveReply
<1>2. /\ i \in Nat /\ s \in Seq(Frame) /\ s # << >> /\ 1 \in DOMAIN s /\ f = s[1]
  BY <1>1, OneFrame, InvTypes, PeerFacts
<1>3. d.req = r /\ d.outcome = f.kind
  BY DEF Answered
<1> HIDE DEF d
<1>4. wire'["client"] = Tail(s) /\ wire'["agent"] = wire["agent"]
  BY <1>1, InvTypes, PeerFacts, TakeEffect
<1>5. /\ pending'["client"] = pending["client"] \ {r}
      /\ done'["client"] = done["client"] \cup {d}
  BY <1>1, InvTypes, PeerFacts DEF TypeOK
<1>6. Issued("client")' = Issued("client")
  <2>1. {x.req : x \in {d}} = {r} /\ {r} \in SUBSET pending["client"]
    BY <1>3
  <2> QED
    BY <1>5, <2>1, SameIssued
<1>7. OfInitialize(f, f.kind)
  <2>1. Names("client", i, f.method)
    BY <1>1, <1>2, IdFacts
  <2> QED
    BY <1>1, <2>1 DEF Names, Issued, OfInitialize
<1>8. /\ f.kind = "result" => Granted(i)
      /\ f.kind = "error" => Refused(i)
  BY <1>2, <1>7, InvTypes DEF GrantsInv
<1>9. HandshakeTypeOK'
  <2>1. f.kind = "result" => granted[i] \in 1 .. Ours
    BY <1>8, InvTypes DEF Granted, HandshakeTypeOK
  <2>2. version' \in [Peer -> {{}} \cup {{n} : n \in 1 .. Ours}]
    BY <1>1, <2>1, PeerFacts, InvTypes DEF HandshakeTypeOK
  <2> QED
    BY <1>1, <2>2, InvTypes DEF HandshakeTypeOK
<1>10. AskedInv'
  BY <1>1, <1>6, InvTypes DEF AskedInv
<1>11. GrantsInv'
  <2>1. \A j \in DOMAIN granted : negotiate_version(Ours, Asked(offered[j])) = {granted[j]}
    BY InvTypes DEF GrantsInv
  <2>2. ASSUME NEW k \in DOMAIN wire'["client"], NEW h, h = wire'["client"][k]
        PROVE  /\ OfInitialize(h, "result") => Granted(h.id)
               /\ OfInitialize(h, "error") => Refused(h.id)
    <3>1. \E j \in DOMAIN s : h = s[j]
      BY <1>2, <1>4, <2>2, DroppedLemma DEF Dropped
    <3> QED
      BY <3>1, InvTypes DEF GrantsInv
  <2>3. ASSUME NEW e \in done'["client"], e.req.method = "initialize"
        PROVE  /\ e.outcome = "result" => Granted(e.req.id)
               /\ e.outcome = "error" => Refused(e.req.id)
    BY <1>1, <1>3, <1>5, <1>8, <2>3, InvTypes DEF GrantsInv
  <2> QED
    BY <1>1, <2>1, <2>2, <2>3 DEF GrantsInv, Granted, Refused
<1>12. CASE f.kind = "error"
  <2>1. ReadGrants' = ReadGrants
    BY <1>3, <1>5, <1>12 DEF ReadGrants
  <2>2. Ascending(Tail(s), "result", ReadGrants)
    BY <1>2, InvTypes, AscendingDrop DEF OrderInv
  <2>3. OrderInv'
    BY <1>1, <1>4, <1>12, <2>1, <2>2, InvTypes DEF OrderInv
  <2> QED
    BY <1>9, <1>10, <1>11, <2>3 DEF HandshakeInv
<1>13. CASE f.kind = "result"
  <2>1. ReadGrants' = ReadGrants \cup {i}
    BY <1>1, <1>3, <1>5, <1>13 DEF ReadGrants
  <2>2. \A j \in ReadGrants : j < i
    BY <1>2, <1>7, <1>13, InvTypes DEF OrderInv, Ascending
  <2>3. Ascending(Tail(s), "result", ReadGrants \cup {i})
    <3>1. Ascending(s, "result", ReadGrants) /\ OfInitialize(s[1], "result")
      BY <1>2, <1>7, <1>13, InvTypes DEF OrderInv
    <3> QED
      BY <1>2, <3>1, AscendingDrop
  <2>4. version'["client"] = {granted[i]} /\ version'["agent"] = version["agent"]
    BY <1>1, <1>13, PeerFacts, InvTypes DEF HandshakeTypeOK
  <2>5. ASSUME NEW j \in ReadGrants \cup {i}, \A n \in ReadGrants \cup {i} : n <= j
        PROVE  version'["client"] = {granted[j]}
    <3>1. ReadGrants \subseteq Nat
      BY InvTypes DEF ReadGrants, GrantsInv, Granted, HandshakeTypeOK
    <3>2. i <= j /\ j \in Nat /\ (j \in ReadGrants \/ j = i)
      BY <1>2, <2>5, <3>1
    <3>3. j = i
      BY <1>2, <2>2, <3>2
    <3> QED
      BY <2>4, <3>3
  <2>6. \A j \in DOMAIN granted :
            (\A n \in DOMAIN granted : n <= j) => version'["agent"] = {granted[j]}
    BY <2>4, InvTypes DEF OrderInv
  <2>7. Ascending(wire["agent"], "call", DOMAIN granted)
    BY InvTypes DEF OrderInv
  <2>8. OrderInv'
    BY <1>1, <1>4, <2>1, <2>3, <2>5, <2>6, <2>7 DEF OrderInv
  <2> QED
    BY <1>9, <1>10, <1>11, <2>8 DEF HandshakeInv
<1> QED
  BY <1>1, <1>12, <1>13 DEF Reply

LEMMA StepCallPeer ==
    ASSUME HandshakeInv, IInv, TypeOK', NEW p \in Peer, NEW m \in Method, CallPeer(p, m)
    PROVE  HandshakeInv'
<1> DEFINE r == [id |-> next[p] + 1, method |-> m, timed |-> FALSE]
           g == FrameOf("call", next[p] + 1, m, said[p])
<1>1. /\ m # "initialize"
      /\ next' = [next EXCEPT ![p] = @ + 1]
      /\ pending' = [pending EXCEPT ![p] = @ \cup {r}]
      /\ Write(p, g)
      /\ done' = done
      /\ UNCHANGED handVars
  BY DEF CallPeer, SendRequest
<1>2. /\ next[p] + 1 \in Nat /\ said[p] \in Nat
      /\ next["client"] <= next'["client"]
  <2>1. next \in [Peer -> Nat]
    BY InvTypes DEF TypeOK
  <2> QED
    BY <1>1, <2>1, InvTypes, PeerFacts
<1>3. g \in Frame /\ Harmless(Other(p), g)
  BY <1>1, <1>2, FrameOfType DEF Harmless, OfInitialize
<1> HIDE DEF g
<1>4. \A y \in Peer : QuietStream(y)
  <2>1. wire'[Other(p)] = Append(wire[Other(p)], g) /\ wire'[p] = wire[p]
    BY <1>1, <1>3, InvTypes, WriteEffect
  <2>2. QuietStream(p) /\ QuietStream(Other(p))
    BY <1>3, <2>1 DEF QuietStream
  <2> QED
    BY <2>2, OtherPeer
<1>5. /\ r.method # "initialize"
      /\ pending'["client"] = pending["client"] \/ pending'["client"] = pending["client"] \cup {r}
  BY <1>1, InvTypes, PeerFacts DEF TypeOK
<1> HIDE DEF r
<1>6. /\ Issued("client") \subseteq Issued("client")'
      /\ \A x \in Issued("client")' : x \in Issued("client") \/ x.method # "initialize"
  BY <1>1, <1>5 DEF Issued
<1> QED
  BY <1>1, <1>2, <1>4, <1>6, StepQuiet

\* A frame is taken and, unless it is a reply, answered harmlessly.
LEMMA StepAnswered ==
    ASSUME HandshakeInv, IInv, TypeOK', NEW p \in Peer, NEW f, Takes(p, f),
           NEW g \in Frame, Harmless(Other(p), g), TakeAndWrite(p, g),
           UNCHANGED <<next, pending, done>>, UNCHANGED handVars
    PROVE  HandshakeInv'
<1>1. wire'[p] = Tail(wire[p]) /\ wire'[Other(p)] = Append(wire[Other(p)], g)
  BY InvTypes, TakeAndWriteEffect
<1>2. \A y \in Peer : QuietStream(y)
  BY <1>1, OtherPeer DEF Takes, QuietStream
<1>3. Issued("client")' = Issued("client") /\ next["client"] <= next'["client"]
  BY InvTypes, PeerFacts DEF Issued
<1> QED
  BY <1>2, <1>3, StepQuiet

LEMMA StepRefuse ==
    ASSUME HandshakeInv, IInv, TypeOK', NEW f, RefuseVersion(f)
    PROVE  HandshakeInv'
<1> DEFINE g == FrameOf("error", f.id, f.method, said["agent"])
<1>1. /\ Takes("agent", f) /\ TakeAndWrite("agent", g) /\ Refused(f.id)
      /\ UNCHANGED <<next, pending, done>> /\ UNCHANGED handVars
  BY DEF RefuseVersion, ReceiveHandled, Refused
<1>2. g \in Frame /\ g.kind = "error" /\ g.id = f.id
  BY <1>1, OneFrame, InvTypes, PeerFacts, FrameOfType
<1> HIDE DEF g
<1>3. Harmless("client", g)
  BY <1>1, <1>2 DEF Harmless, OfInitialize
<1> QED
  BY <1>1, <1>2, <1>3, PeerFacts, StepAnswered

LEMMA StepReceiveOther ==
    ASSUME HandshakeInv, IInv, TypeOK', NEW p \in Peer, NEW f, ReceiveOther(p, f)
    PROVE  HandshakeInv'
<1>1. UNCHANGED handVars
  BY DEF ReceiveOther
<1>2. CASE f.method # "initialize" /\ ReceiveHandled(p, f, "result")
  <2> DEFINE g == FrameOf("result", f.id, f.method, said[p])
  <2>1. /\ Takes(p, f) /\ TakeAndWrite(p, g) /\ UNCHANGED <<next, pending, done>>
    BY <1>2 DEF ReceiveHandled
  <2>2. g \in Frame /\ g.kind = "result" /\ g.method = f.method
    BY <2>1, OneFrame, InvTypes, FrameOfType
  <2> HIDE DEF g
  <2>3. Harmless(Other(p), g)
    BY <1>2, <2>2 DEF Harmless, OfInitialize
  <2> QED
    BY <1>1, <2>1, <2>2, <2>3, StepAnswered
<1>3. CASE ReceiveUnknown(p, f)
  <2> DEFINE g == FrameOf("error", f.id, f.method, said[p])
  <2>1. /\ Takes(p, f) /\ TakeAndWrite(p, g) /\ UNCHANGED <<next, pending, done>>
        /\ f.kind = "call" /\ f.method \notin On[p]
    BY <1>3 DEF ReceiveUnknown
  <2>2. g \in Frame /\ g.kind = "error" /\ g.method = f.method
    <3>1. f.method \in Method \cup Notice /\ f.id \in Nat /\ said[p] \in Nat
      BY <2>1, OneFrame, InvTypes
    <3> QED
      BY <3>1, FrameOfType
  <2> HIDE DEF g
  <2>3. f.method = "initialize" => Other(p) # "client"
    BY <2>1, PeerFacts, HandshakeAssumption
  <2>4. Harmless(Other(p), g)
    BY <2>2, <2>3 DEF Harmless, OfInitialize
  <2> QED
    BY <1>1, <2>1, <2>2, <2>4, StepAnswered
<1>4. ASSUME NEW r \in pending[p], r.method # "initialize", ReceiveReply(p, f, r)
      PROVE  HandshakeInv'
  <2> DEFINE d == Answered(r, f, heard[p])
  <2>1. /\ Takes(p, f) /\ wire' = [wire EXCEPT ![p] = Tail(@)]
        /\ pending' = [pending EXCEPT ![p] = @ \ {r}]
        /\ done' = [done EXCEPT ![p] = @ \cup {d}]
        /\ next' = next
    BY <1>4 DEF ReceiveReply
  <2>2. \A y \in Peer : QuietStream(y)
    BY <2>1, InvTypes, OtherPeer, TakeEffect DEF Takes, QuietStream
  <2>3. d.req = r
    BY DEF Answered
  <2> HIDE DEF d
  <2>4. /\ next["client"] <= next'["client"]
        /\ p # "client" => /\ pending'["client"] = pending["client"]
                           /\ done'["client"] = done["client"]
        /\ p = "client" => /\ pending'["client"] = pending["client"] \ {r}
                           /\ done'["client"] = done["client"] \cup {d}
    BY <2>1, InvTypes, PeerFacts DEF TypeOK
  <2>5. Issued("client")' = Issued("client")
    <3>1. CASE p = "client"
      <4>1. {x.req : x \in {d}} = {r} /\ {r} \in SUBSET pending["client"]
        BY <2>3, <3>1
      <4> QED
        BY <2>4, <3>1, <4>1, SameIssued
    <3>2. CASE p # "client"
      BY <2>4, <3>2 DEF Issued
    <3> QED
      BY <3>1, <3>2
  <2>6. /\ done["client"] \subseteq done'["client"]
        /\ \A e \in done'["client"] : e \in done["client"] \/ e.req.method # "initialize"
    BY <1>4, <2>3, <2>4
  <2> QED
    BY <1>1, <2>2, <2>4, <2>5, <2>6, StepQuiet
<1>5. CASE ReceiveLate(p, f)
  <2>1. /\ Takes(p, f) /\ wire' = [wire EXCEPT ![p] = Tail(@)]
        /\ UNCHANGED <<next, pending, done>>
    BY <1>5 DEF ReceiveLate
  <2>2. \A y \in Peer : QuietStream(y)
    BY <2>1, InvTypes, OtherPeer, TakeEffect DEF Takes, QuietStream
  <2>3. Issued("client")' = Issued("client") /\ next["client"] <= next'["client"]
    BY <2>1, InvTypes, PeerFacts DEF Issued
  <2> QED
    BY <1>1, <2>1, <2>2, <2>3, StepQuiet
<1> QED
  BY <1>2, <1>3, <1>4, <1>5 DEF ReceiveOther

LEMMA StepLate ==
    ASSUME HandshakeInv, IInv, TypeOK', NEW p \in Peer, Late(p)
    PROVE  HandshakeInv'
<1>1. PICK S \in SUBSET pending[p] : Expire(p, S)
  BY DEF Late
<1> DEFINE D == {Failed(r, "timeout", heard[p]) : r \in S}
<1>2. /\ pending' = [pending EXCEPT ![p] = @ \ S]
      /\ done' = [done EXCEPT ![p] = @ \cup D]
      /\ next' = next /\ wire' = wire
      /\ UNCHANGED handVars
  BY <1>1 DEF Expire, Late
<1>3. {d.req : d \in D} = S /\ \A d \in D : d.outcome \notin Reply
  <2>1. \A r \in S : /\ Failed(r, "timeout", heard[p]).req = r
                     /\ Failed(r, "timeout", heard[p]).outcome = "timeout"
    BY DEF Failed
  <2>2. "timeout" \notin Reply
    BY DEF Reply
  <2> QED
    BY <2>1, <2>2
<1> HIDE DEF D
<1>4. /\ next["client"] <= next'["client"]
      /\ \A y \in Peer : QuietStream(y)
  BY <1>2, InvTypes, PeerFacts DEF QuietStream
<1>5. /\ p # "client" => /\ pending'["client"] = pending["client"]
                         /\ done'["client"] = done["client"]
      /\ p = "client" => /\ pending'["client"] = pending["client"] \ S
                         /\ done'["client"] = done["client"] \cup D
  BY <1>2, InvTypes, PeerFacts DEF TypeOK
<1>6. Issued("client")' = Issued("client")
  <2>1. CASE p = "client"
    BY <1>3, <1>5, <2>1, SameIssued
  <2>2. CASE p # "client"
    BY <1>5, <2>2 DEF Issued
  <2> QED
    BY <2>1, <2>2
<1>7. /\ done["client"] \subseteq done'["client"]
      /\ \A e \in done'["client"] : e \in done["client"] \/ e.outcome \notin Reply
  BY <1>3, <1>5
<1> QED
  BY <1>2, <1>4, <1>6, <1>7, StepQuiet

-----------------------------------------------------------------------------
(***************************************************************************)
(* The invariant.                                                          *)
(***************************************************************************)
LEMMA HandshakeInvInit == HandshakeInit => HandshakeInv
<1> SUFFICES ASSUME HandshakeInit
             PROVE  HandshakeInv
  OBVIOUS
<1>1. TypeOK
  BY TypeInit DEF HandshakeInit
<1>2. /\ \A p \in Peer : /\ next[p] = 0 /\ pending[p] = {} /\ done[p] = {}
                         /\ wire[p] = << >>
      /\ offered = << >> /\ granted = << >>
      /\ version = [p \in Peer |-> {}]
  BY DEF HandshakeInit, Init
<1>3. DOMAIN << >> = {}
  BY EmptySeq
<1>4. Issued("client") = {} /\ ReadGrants = {}
  BY <1>2, PeerFacts DEF Issued, ReadGrants
<1>5. HandshakeTypeOK
  BY <1>1, <1>2, <1>3 DEF HandshakeTypeOK
<1> QED
  BY <1>2, <1>3, <1>4, <1>5, PeerFacts
     DEF HandshakeInv, AskedInv, GrantsInv, OrderInv, Ascending

LEMMA HandshakeInvNext ==
    HandshakeInv /\ IInv /\ TypeOK' /\ [HandshakeNext]_handshakeVars => HandshakeInv'
<1> SUFFICES ASSUME HandshakeInv, IInv, TypeOK', [HandshakeNext]_handshakeVars
             PROVE  HandshakeInv'
  OBVIOUS
<1>1. CASE UNCHANGED handshakeVars
  BY <1>1 DEF handshakeVars, handVars, vars, HandshakeInv, HandshakeTypeOK, TypeOK, AskedInv,
     Issued, GrantsInv, Granted, Refused, OrderInv, ReadGrants
<1>2. ASSUME NEW o \in {{}} \cup {{v} : v \in Offers}, NEW timed \in BOOLEAN,
             Initialize(o, timed)
      PROVE  HandshakeInv'
  BY <1>2, StepInitialize
<1>3. ASSUME NEW p \in Peer, NEW m \in Callable(p) \cap Method, CallPeer(p, m)
      PROVE  HandshakeInv'
  BY <1>3, StepCallPeer
<1>4. ASSUME NEW p \in Peer, Take(p)
      PROVE  HandshakeInv'
  BY <1>4, StepGrant, StepRefuse, StepRead, StepReceiveOther DEF Take
<1>5. ASSUME NEW p \in Peer, Late(p)
      PROVE  HandshakeInv'
  BY <1>5, StepLate
<1> QED
  BY <1>1, <1>2, <1>3, <1>4, <1>5 DEF HandshakeNext

\* Offers are decided by the rule and in the order they were made, and results
\* are read in that order, whichever of them come too late.
THEOREM HandshakeInvariant == HandshakeSpec => []HandshakeInv
<1>1. HandshakeInit => HandshakeInv
  BY HandshakeInvInit
<1>2. HandshakeInv /\ IInv /\ TypeOK' /\ [HandshakeNext]_handshakeVars => HandshakeInv'
  BY HandshakeInvNext
<1>3. HandshakeSpec => []IInv
  BY HandshakeIsConnection, Invariant
<1>4. IInv => TypeOK
  BY DEF IInv
<1> QED
  BY <1>1, <1>2, <1>3, <1>4, PTL DEF HandshakeSpec

\* Only versions between 1 and the agent's are ever granted or gone by.
THEOREM HandshakeTypeCorrect == HandshakeSpec => []HandshakeTypeOK
<1>1. HandshakeInv => HandshakeTypeOK
  BY DEF HandshakeInv
<1> QED
  BY <1>1, HandshakeInvariant, PTL

\* The version of an answered initialize is the highest that both sides speak
\* (caps.hpp:56-63), for any integer a client may write.
THEOREM BestVersionIsGranted == HandshakeSpec => []BestCommonVersion
<1>1. HandshakeInv => BestCommonVersion
  <2> SUFFICES ASSUME HandshakeInv, NEW d \in done["client"],
                      d.req.method = "initialize", d.outcome \in Reply
               PROVE  LET i == d.req.id
                          common == Common(Asked(offered[i]))
                      IN  /\ d.outcome = "error" <=> common = {}
                          /\ d.outcome = "result" =>
                                 /\ i \in DOMAIN granted
                                 /\ granted[i] \in common
                                 /\ \A n \in common : n <= granted[i]
    BY DEF BestCommonVersion
  <2> DEFINE i == d.req.id
  <2>1. i \in DOMAIN offered
    BY InvTypes DEF AskedInv, Issued
  <2>2. Asked(offered[i]) \in Int
    BY <2>1, InvTypes, AskedType
  <2>3. CASE d.outcome = "error"
    BY <2>2, <2>3, InvTypes, NegotiateIsBest DEF GrantsInv, Refused
  <2>4. CASE d.outcome = "result"
    <3>1. /\ i \in DOMAIN granted
          /\ negotiate_version(Ours, Asked(offered[i])) = {granted[i]}
      BY <2>4, InvTypes DEF GrantsInv, Granted
    <3> QED
      BY <2>2, <2>4, <3>1, NegotiateIsBest
  <2> QED
    BY <2>3, <2>4 DEF Reply
<1> QED
  BY <1>1, HandshakeInvariant, PTL

\* Retries, deadlines and late grants do not take the two sides apart.
THEOREM VersionsAgree == HandshakeSpec => []SameVersion
<1>1. HandshakeInv => SameVersion
  <2> SUFFICES ASSUME HandshakeInv, NEW d \in done["client"],
                      LastInitialize(d), d.outcome = "result"
               PROVE  version["client"] = version["agent"] /\ version["client"] # {}
    BY DEF SameVersion
  <2>1. d.req.id \in DOMAIN granted /\ d.req.id \in ReadGrants
    BY InvTypes DEF LastInitialize, GrantsInv, Granted, ReadGrants
  <2>2. \A j \in DOMAIN granted : j <= d.req.id
    BY InvTypes DEF LastInitialize, AskedInv, HandshakeTypeOK
  <2>3. \A j \in ReadGrants : j <= d.req.id
    BY <2>2, InvTypes DEF ReadGrants, GrantsInv, Granted
  <2> QED
    BY <2>1, <2>2, <2>3, InvTypes DEF OrderInv
<1> QED
  BY <1>1, HandshakeInvariant, PTL
=============================================================================
