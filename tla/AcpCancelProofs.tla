---------------------------- MODULE AcpCancelProofs ----------------------------
(***************************************************************************)
(* Cancelling, for every set of sessions and every bound: a connection     *)
(* whose hosts cancel is still a connection, so all that is proved of      *)
(* those holds; a cancel stops nothing but what it was meant for, and none *)
(* of what it was meant for escapes it.                                    *)
(***************************************************************************)
EXTENDS AcpCancel, AcpConnectionProofs

-----------------------------------------------------------------------------
(***************************************************************************)
(* Every step is a step of the connection.                                 *)
(***************************************************************************)
LEMMA CancelStepIsStep == TypeOK /\ [CancelNext]_cancelVars => [Next]_vars
<1> SUFFICES ASSUME TypeOK, [CancelNext]_cancelVars
             PROVE  [Next]_vars
  OBVIOUS
<1>1. CASE UNCHANGED cancelVars
  BY <1>1 DEF cancelVars, vars
<1>2. /\ "session/prompt" \in Method /\ "session/request_permission" \in Method
      /\ "session/cancel" \in Notice /\ "$/cancel_request" \in Notice
      /\ "client" \in Peer /\ "agent" \in Peer
  BY CancelAssumption DEF Peer
<1>3. ASSUME NEW s \in Session, NEW timed \in BOOLEAN, Prompt(s, timed)
      PROVE  Next
  BY <1>2, <1>3 DEF Prompt, Next
<1>4. ASSUME NEW timed \in BOOLEAN, AskPermission(timed)
      PROVE  Next
  BY <1>2, <1>4 DEF AskPermission, Next
<1>5. ASSUME NEW p \in Peer, NEW r \in Issued(p), CancelRequest(p, r)
      PROVE  Next
  BY <1>2, <1>5 DEF CancelRequest, Cancel, Next
<1>6. ASSUME NEW s \in Session, CancelTurn(s)
      PROVE  Next
  BY <1>2, <1>6 DEF CancelTurn, Cancel, Next
<1>7. ASSUME NEW p \in Peer, NEW c \in owed[p], AnswerCall(p, c)
      PROVE  Next
  BY <1>7 DEF AnswerCall, Next
<1>8. ASSUME NEW p \in Peer, Take(p)
      PROVE  Next
  BY <1>8 DEF Take, TakeCancelRequest, TakeCancelTurn, TakeCancel, Receive, Next
<1>9. ASSUME NEW p \in Peer, NEW S \in SUBSET pending[p], Expire(p, S)
      PROVE  Next
  BY <1>9 DEF Next
<1> QED
  BY <1>1, <1>3, <1>4, <1>5, <1>6, <1>7, <1>8, <1>9 DEF CancelNext

\* Hosts that cancel keep to the connection: everything that holds of its
\* behaviours holds of theirs (protocol.hpp:65-68: a notification, no engine
\* takes part).
THEOREM CancelIsConnection == CancelSpec => Spec
<1>1. CancelInit => Init
  BY DEF CancelInit
<1>2. TypeOK /\ [CancelNext]_cancelVars => [Next]_vars
  BY CancelStepIsStep
<1>3. CancelInit => TypeOK
  BY TypeInit DEF CancelInit
<1>4. TypeOK /\ [CancelNext]_cancelVars => TypeOK'
  BY CancelStepIsStep, TypeNext
<1> QED
  BY <1>1, <1>2, <1>3, <1>4, PTL DEF CancelSpec, Spec

-----------------------------------------------------------------------------
(***************************************************************************)
(* What each part of the invariant needs of a step.                        *)
(***************************************************************************)
\* p has asked to cancel its request i.
AskedFor(p, i) == \E k \in DOMAIN covers[p] : i \in covers[p][k]

\* No call i is on its way to p, and the call i that p owes is marked.
Stopped(p, i) ==
    /\ \A j \in DOMAIN wire[p] : ~(wire[p][j].kind = "call" /\ wire[p][j].id = i)
    /\ \A c \in owed[p] : c.id = i => c \in marked[p]

\* The two safety properties, one host at a time.
HitsInv(p) == \A c \in marked[p] : AskedFor(Other(p), c.id)

StopsInv(p) == \A k \in 1 .. heard[p] : \A i \in covers[Other(p)][k] : Stopped(p, i)

Parts(p) == NamedInv(p) /\ BehindInv(p) /\ HitsInv(p) /\ StopsInv(p)

LEMMA CancelParts == CancelInv => TablesInv /\ TurnsInv /\ \A p \in Peer : Parts(p)
<1>1. CancelHitsItsTarget <=> \A p \in Peer : HitsInv(p)
  BY DEF CancelHitsItsTarget, HitsInv, AskedFor
<1>2. ASSUME NEW p \in Peer
      PROVE  \A i : CallsAt(Other(p), i) = {} <=>
                 \A j \in DOMAIN wire[p] : ~(wire[p][j].kind = "call" /\ wire[p][j].id = i)
  BY OtherPeer DEF CallsAt
<1>3. CancelMissesNothing <=> \A p \in Peer : StopsInv(p)
  BY <1>2 DEF CancelMissesNothing, StopsInv, Stopped
<1> QED
  BY <1>1, <1>3 DEF CancelInv, Parts

LEMMA PartsCancel ==
    ASSUME TablesInv', TurnsInv', \A p \in Peer : Parts(p)'
    PROVE  CancelInv'
<1>1. CancelHitsItsTarget'
  BY DEF CancelHitsItsTarget, Parts, HitsInv, AskedFor
<1>2. ASSUME NEW p \in Peer
      PROVE  \A i : CallsAt(Other(p), i)' = {} <=>
                 \A j \in DOMAIN wire'[p] : ~(wire'[p][j].kind = "call" /\ wire'[p][j].id = i)
  BY OtherPeer DEF CallsAt
<1>3. CancelMissesNothing'
  BY <1>2 DEF CancelMissesNothing, Parts, StopsInv, Stopped
<1> QED
  BY <1>1, <1>3 DEF CancelInv, Parts

\* The notifications p has sent keep their rows.
RowsKept(p) ==
    /\ said[p] <= said'[p]
    /\ \A n \in 1 .. said[p] : named'[p][n] = named[p][n] /\ covers'[p][n] = covers[p][n]

\* Every frame of t that is of kind K is one of s.
NoNew(s, t, K) ==
    \A k \in DOMAIN t : t[k].kind \in K => \E j \in DOMAIN s : t[k] = s[j]

LEMMA RowsOf ==
    ASSUME TablesInv, NEW p \in Peer
    PROVE  /\ DOMAIN named[p] = 1 .. said[p]
           /\ DOMAIN covers[p] = 1 .. said[p]
           /\ said[p] \in Nat
           /\ heard[p] \in Nat
           /\ heard[p] <= said[Other(p)]
BY DEF TablesInv, CancelTypeOK, TypeOK

\* Turns are only added.
PromptsKept == \A i \in DOMAIN prompts : i \in DOMAIN prompts' /\ prompts'[i] = prompts[i]

LEMMA KeepRows ==
    ASSUME TablesInv, NEW p \in Peer, said'[p] = said[p],
           named'[p] = named[p], covers'[p] = covers[p]
    PROVE  RowsKept(p)
BY RowsOf DEF RowsKept

LEMMA KeepAsked ==
    ASSUME TablesInv, TablesInv', NEW p \in Peer, RowsKept(p), NEW i, AskedFor(p, i)
    PROVE  AskedFor(p, i)'
<1>1. /\ DOMAIN covers[p] = 1 .. said[p] /\ said[p] \in Nat
      /\ DOMAIN covers'[p] = 1 .. said'[p] /\ said'[p] \in Nat
  BY DEF TablesInv, CancelTypeOK, TypeOK
<1> QED
  BY <1>1 DEF AskedFor, RowsKept

LEMMA KeepNamed ==
    ASSUME TablesInv, TablesInv', NEW p \in Peer, NamedInv(p), RowsKept(Other(p)), PromptsKept,
           NoNew(wire[p], wire'[p], {"note"})
    PROVE  NamedInv(p)'
<1>1. said[Other(p)] \in Nat /\ said'[Other(p)] \in Nat
  BY OtherPeer DEF TablesInv, CancelTypeOK, TypeOK
<1> SUFFICES ASSUME NEW k \in DOMAIN wire'[p], wire'[p][k].kind = "note"
             PROVE  /\ wire'[p][k].sent \in 1 .. said'[Other(p)]
                    /\ wire'[p][k].method = "$/cancel_request" =>
                           covers'[Other(p)][wire'[p][k].sent]
                               = {named'[Other(p)][wire'[p][k].sent]}
                    /\ wire'[p][k].method = "session/cancel" =>
                           \A i \in covers'[Other(p)][wire'[p][k].sent] :
                               /\ i \in DOMAIN prompts'
                               /\ prompts'[i] = named'[Other(p)][wire'[p][k].sent]
  BY DEF NamedInv
<1>2. PICK j \in DOMAIN wire[p] : wire'[p][k] = wire[p][j]
  BY DEF NoNew
<1>3. wire[p][j].sent \in 1 .. said[Other(p)]
  BY <1>2 DEF NamedInv
<1> QED
  BY <1>1, <1>2, <1>3 DEF NamedInv, RowsKept, PromptsKept

LEMMA KeepHits ==
    ASSUME TablesInv, TablesInv', NEW p \in Peer, HitsInv(p), RowsKept(Other(p)),
           marked'[p] \subseteq marked[p]
    PROVE  HitsInv(p)'
BY KeepAsked, OtherPeer DEF HitsInv

\* No notification sent so far is meant for request i of p.
Uncovered(p, i) == \A n \in 1 .. said[p] : i \notin covers[p][n]

\* BehindInv, when a stream stays or loses its first frame, ...
LEMMA KeepBehind ==
    ASSUME TablesInv, NEW p \in Peer, NamedInv(p), BehindInv(p), RowsKept(Other(p)),
           wire'[p] = wire[p] \/ (wire[p] # << >> /\ wire'[p] = Tail(wire[p]))
    PROVE  BehindInv(p)'
<1>1. wire[p] \in Seq(Frame)
  BY DEF TablesInv, CancelTypeOK, TypeOK
<1>2. \A k \in DOMAIN wire[p] : wire[p][k].kind = "note" =>
          covers'[Other(p)][wire[p][k].sent] = covers[Other(p)][wire[p][k].sent]
  BY DEF NamedInv, RowsKept
<1>3. CASE wire'[p] = wire[p]
  BY <1>2, <1>3 DEF BehindInv
<1>4. CASE wire[p] # << >> /\ wire'[p] = Tail(wire[p])
  <2>1. /\ DOMAIN wire[p] = 1 .. Len(wire[p]) /\ Len(wire[p]) \in Nat
        /\ DOMAIN wire'[p] = 1 .. Len(wire[p]) - 1
        /\ \A k \in 1 .. Len(wire[p]) - 1 : wire'[p][k] = wire[p][k + 1]
    BY <1>1, <1>4, HeadTailProperties, LenProperties, EmptySeq
  <2> SUFFICES ASSUME NEW j \in DOMAIN wire'[p], NEW k \in DOMAIN wire'[p],
                      wire'[p][k].kind = "note", wire'[p][j].kind = "call",
                      wire'[p][j].id \in covers'[Other(p)][wire'[p][k].sent]
               PROVE  j < k
    BY DEF BehindInv
  <2>2. /\ j \in 1 .. Len(wire[p]) - 1 /\ k \in 1 .. Len(wire[p]) - 1
        /\ j + 1 \in DOMAIN wire[p] /\ k + 1 \in DOMAIN wire[p]
    BY <2>1
  <2>3. wire'[p][k] = wire[p][k + 1] /\ wire'[p][j] = wire[p][j + 1]
    BY <2>1, <2>2
  <2>4. j + 1 < k + 1
    BY <1>2, <2>2, <2>3 DEF BehindInv
  <2> QED
    BY <2>2, <2>4
<1> QED
  BY <1>3, <1>4

\* ... and when a frame is added that is not a call some cancel is meant for.
LEMMA AppendBehind ==
    ASSUME TablesInv, NEW p \in Peer, NamedInv(p), BehindInv(p), RowsKept(Other(p)),
           NEW g \in Frame, wire'[p] = Append(wire[p], g),
           g.kind = "call" => Uncovered(Other(p), g.id)
    PROVE  BehindInv(p)'
<1> DEFINE s == wire[p]
           z == Len(s) + 1
<1>1. s \in Seq(Frame)
  BY DEF TablesInv, CancelTypeOK, TypeOK
<1>2. Appended(s, wire'[p], g, z)
  BY <1>1, AppendedLemma
<1>3. DOMAIN s = 1 .. Len(s) /\ Len(s) \in Nat
  BY <1>1, LenProperties
<1>4. \A k \in DOMAIN s : s[k].kind = "note" =>
          /\ s[k].sent \in 1 .. said[Other(p)]
          /\ covers'[Other(p)][s[k].sent] = covers[Other(p)][s[k].sent]
  BY DEF NamedInv, RowsKept
<1> SUFFICES ASSUME NEW j \in DOMAIN wire'[p], NEW k \in DOMAIN wire'[p],
                    wire'[p][k].kind = "note", wire'[p][j].kind = "call",
                    wire'[p][j].id \in covers'[Other(p)][wire'[p][k].sent]
             PROVE  j < k
  BY DEF BehindInv
<1>5. CASE j \in DOMAIN s /\ k \in DOMAIN s
  BY <1>2, <1>4, <1>5 DEF Appended, BehindInv
<1>6. CASE k = z
  <2>1. wire'[p][k] = g /\ g.kind # "call"
    BY <1>2, <1>6 DEF Appended
  <2>2. j \in DOMAIN s
    BY <1>2, <1>6, <2>1 DEF Appended
  <2> QED
    BY <1>3, <1>6, <2>2
<1>7. CASE j = z /\ k \in DOMAIN s
  <2>1. wire'[p][j] = g /\ wire'[p][k] = s[k]
    BY <1>2, <1>7 DEF Appended
  <2> QED
    BY <1>4, <1>7, <2>1 DEF Uncovered
<1> QED
  BY <1>2, <1>5, <1>6, <1>7 DEF Appended

\* StopsInv, when p hears nothing new: a call that appears is not covered, a
\* debt that appears was a call, and no mark goes while its debt stays.
LEMMA KeepStops ==
    ASSUME TablesInv, NEW p \in Peer, StopsInv(p), RowsKept(Other(p)), heard'[p] = heard[p],
           \A j \in DOMAIN wire'[p] : wire'[p][j].kind = "call" =>
               \/ \E m \in DOMAIN wire[p] : wire'[p][j] = wire[p][m]
               \/ Uncovered(Other(p), wire'[p][j].id),
           \A c \in owed'[p] :
               \/ c \in owed[p] /\ (c \in marked[p] => c \in marked'[p])
               \/ \E m \in DOMAIN wire[p] : wire[p][m].kind = "call" /\ wire[p][m].id = c.id
    PROVE  StopsInv(p)'
<1>1. /\ heard[p] \in Nat /\ said[Other(p)] \in Nat /\ heard[p] <= said[Other(p)]
  BY RowsOf, OtherPeer
<1> SUFFICES ASSUME NEW k \in 1 .. heard[p], NEW i \in covers'[Other(p)][k]
             PROVE  Stopped(p, i)'
  BY DEF StopsInv
<1>2. k \in 1 .. said[Other(p)]
  BY <1>1
<1>3. i \in covers[Other(p)][k]
  BY <1>2 DEF RowsKept
<1>4. Stopped(p, i)
  BY <1>3 DEF StopsInv
<1>5. ASSUME NEW j \in DOMAIN wire'[p], wire'[p][j].kind = "call", wire'[p][j].id = i
      PROVE  FALSE
  BY <1>2, <1>3, <1>4, <1>5 DEF Stopped, Uncovered
<1>6. ASSUME NEW c \in owed'[p], c.id = i
      PROVE  c \in marked'[p]
  BY <1>4, <1>6 DEF Stopped
<1> QED
  BY <1>5, <1>6 DEF Stopped

\* The streams, kind by kind.
LEMMA SameFrames ==
    ASSUME NEW s, NEW K
    PROVE  NoNew(s, s, K)
BY DEF NoNew

LEMMA AppendedFrames ==
    ASSUME NEW s \in Seq(Frame), NEW g \in Frame, NEW K, g.kind \notin K
    PROVE  NoNew(s, Append(s, g), K)
BY AppendedLemma DEF Appended, NoNew

LEMMA DroppedFrames ==
    ASSUME NEW s \in Seq(Frame), s # << >>, NEW K
    PROVE  NoNew(s, Tail(s), K)
BY DroppedLemma DEF Dropped, NoNew

\* TurnsInv, when the agent's stream stays ...
LEMMA TurnsStay ==
    ASSUME TablesInv, TablesInv', TurnsInv, NamedInv("agent"), RowsKept("client"),
           wire'["agent"] = wire["agent"], prompts' = prompts,
           owed'["agent"] \subseteq owed["agent"]
    PROVE  TurnsInv'
<1>1. \A k \in DOMAIN wire["agent"] : wire["agent"][k].kind = "note" =>
          wire["agent"][k].sent \in 1 .. said["client"]
  BY DEF NamedInv, Other
<1>2. \A i, k : KnownBefore(i, k)' => KnownBefore(i, k)
  BY DEF KnownBefore
<1> QED
  BY <1>1, <1>2 DEF TurnsInv, RowsKept

\* ... when the client adds a frame, which names no session the agent will
\* know a turn of without it being meant ...
LEMMA TurnsAppend ==
    ASSUME TablesInv, TablesInv', TurnsInv, NamedInv("agent"), RowsKept("client"),
           NEW g \in Frame, wire'["agent"] = Append(wire["agent"], g),
           DOMAIN prompts \subseteq DOMAIN prompts',
           \A i \in DOMAIN prompts : prompts'[i] = prompts[i],
           \A i : (\E k \in Nat : KnownBefore(i, k)) => i \in DOMAIN prompts,
           owed'["agent"] \subseteq owed["agent"],
           g.kind = "note" /\ g.method = "session/cancel" =>
               \A i \in DOMAIN prompts' : prompts'[i] = named'["client"][g.sent] =>
                   i \in covers'["client"][g.sent]
    PROVE  TurnsInv'
<1> DEFINE s == wire["agent"]
           z == Len(s) + 1
<1>1. s \in Seq(Frame)
  BY DEF TablesInv, CancelTypeOK, TypeOK, Peer
<1>2. Appended(s, wire'["agent"], g, z)
  BY <1>1, AppendedLemma
<1>3. DOMAIN s = 1 .. Len(s) /\ Len(s) \in Nat
  BY <1>1, LenProperties
<1>4. \A k \in DOMAIN s : s[k].kind = "note" => s[k].sent \in 1 .. said["client"]
  BY DEF NamedInv, Other
<1> SUFFICES ASSUME NEW k \in DOMAIN wire'["agent"], wire'["agent"][k].kind = "note",
                    wire'["agent"][k].method = "session/cancel",
                    NEW i \in DOMAIN prompts',
                    prompts'[i] = named'["client"][wire'["agent"][k].sent],
                    KnownBefore(i, k)'
             PROVE  i \in covers'["client"][wire'["agent"][k].sent]
  BY DEF TurnsInv
<1>5. CASE k = z
  BY <1>2, <1>5 DEF Appended
<1>6. CASE k \in DOMAIN s
  <2>1. wire'["agent"][k] = s[k]
    BY <1>2, <1>6 DEF Appended
  <2>2. \A j \in DOMAIN wire'["agent"] : j < k => j \in DOMAIN s /\ wire'["agent"][j] = s[j]
    BY <1>2, <1>3, <1>6 DEF Appended
  <2>3. KnownBefore(i, k)
    BY <2>2 DEF KnownBefore
  <2>4. i \in DOMAIN prompts /\ prompts'[i] = prompts[i]
    BY <1>3, <1>6, <2>3
  <2>5. /\ named'["client"][s[k].sent] = named["client"][s[k].sent]
        /\ covers'["client"][s[k].sent] = covers["client"][s[k].sent]
    BY <1>4, <1>6, <2>1 DEF RowsKept
  <2> QED
    BY <1>6, <2>1, <2>3, <2>4, <2>5 DEF TurnsInv
<1> QED
  BY <1>2, <1>5, <1>6 DEF Appended

\* ... and when the agent takes a frame; a call it takes becomes a debt.
LEMMA TurnsDrop ==
    ASSUME TablesInv, TablesInv', TurnsInv, NamedInv("agent"), RowsKept("client"),
           wire["agent"] # << >>, wire'["agent"] = Tail(wire["agent"]), prompts' = prompts,
           \A c \in owed'["agent"] : \/ c \in owed["agent"]
                                     \/ /\ wire["agent"][1].kind = "call"
                                        /\ wire["agent"][1].id = c.id
    PROVE  TurnsInv'
<1> DEFINE s == wire["agent"]
<1>1. s \in Seq(Frame)
  BY DEF TablesInv, CancelTypeOK, TypeOK, Peer
<1>2. /\ DOMAIN s = 1 .. Len(s) /\ Len(s) \in Nat /\ 1 \in DOMAIN s
      /\ DOMAIN Tail(s) = 1 .. Len(s) - 1
      /\ \A k \in 1 .. Len(s) - 1 : Tail(s)[k] = s[k + 1]
  BY <1>1, HeadTailProperties, LenProperties, EmptySeq
<1>3. \A k \in DOMAIN s : s[k].kind = "note" => s[k].sent \in 1 .. said["client"]
  BY DEF NamedInv, Other
<1> SUFFICES ASSUME NEW k \in DOMAIN Tail(s), s[k + 1].kind = "note",
                    s[k + 1].method = "session/cancel",
                    NEW i \in DOMAIN prompts,
                    prompts[i] = named'["client"][s[k + 1].sent],
                    KnownBefore(i, k)'
             PROVE  i \in covers'["client"][s[k + 1].sent]
  BY <1>2 DEF TurnsInv
<1>4. k + 1 \in DOMAIN s /\ k \in 1 .. Len(s) - 1
  BY <1>2
<1>5. KnownBefore(i, k + 1)
  <2>1. CASE \E c \in owed'["agent"] : c.id = i
    BY <1>2, <1>4, <2>1 DEF KnownBefore
  <2>2. CASE \E j \in DOMAIN Tail(s) : j < k /\ Tail(s)[j].kind = "call" /\ Tail(s)[j].id = i
    <3>1. PICK j \in 1 .. Len(s) - 1 : j < k /\ s[j + 1].kind = "call" /\ s[j + 1].id = i
      BY <1>2, <2>2
    <3>2. j + 1 \in DOMAIN s /\ j + 1 < k + 1
      BY <1>2, <1>4, <3>1
    <3> QED
      BY <3>1, <3>2 DEF KnownBefore
  <2> QED
    BY <2>1, <2>2 DEF KnownBefore
<1>6. /\ named'["client"][s[k + 1].sent] = named["client"][s[k + 1].sent]
      /\ covers'["client"][s[k + 1].sent] = covers["client"][s[k + 1].sent]
  BY <1>3, <1>4 DEF RowsKept
<1> QED
  BY <1>4, <1>5, <1>6 DEF TurnsInv

-----------------------------------------------------------------------------
(***************************************************************************)
(* One lemma per operation.                                                *)
(***************************************************************************)
LEMMA Peers ==
    /\ "client" \in Peer /\ "agent" \in Peer
    /\ Other("client") = "agent" /\ Other("agent") = "client"
    /\ \A p \in Peer : p = "client" \/ p = "agent"
BY DEF Peer, Other

LEMMA CancelTypes ==
    ASSUME CancelInv
    PROVE  /\ TypeOK /\ TablesInv /\ TurnsInv
           /\ \A p \in Peer : wire[p] \in Seq(Frame) /\ said[p] \in Nat /\ next[p] \in Nat
           /\ \A p \in Peer : NamedInv(p) /\ BehindInv(p) /\ HitsInv(p) /\ StopsInv(p)
<1>1. TablesInv /\ TurnsInv /\ \A p \in Peer : Parts(p)
  BY CancelParts
<1> QED
  BY <1>1 DEF TablesInv, CancelTypeOK, TypeOK, Parts

\* A turn the agent knows, or will, is one the client made.
LEMMA KnownTurn ==
    ASSUME CancelInv, IInv, NEW i, NEW k \in Nat, KnownBefore(i, k)
    PROVE  i \in DOMAIN prompts
<1>1. DOMAIN prompts = 1 .. next["client"]
  BY DEF CancelInv, TablesInv, CancelTypeOK
<1>2. NamesInv("client")
  BY Peers DEF IInv
<1> QED
  BY <1>1, <1>2, Peers DEF NamesInv, Names, KnownBefore

\* A request p's engine has just numbered is meant by no cancel.
LEMMA NewRequest ==
    ASSUME TablesInv, NEW p \in Peer
    PROVE  Uncovered(p, next[p] + 1)
<1>1. next[p] \in Nat
  BY DEF TablesInv, CancelTypeOK, TypeOK
<1>2. \A n \in 1 .. said[p] : covers[p][n] \subseteq 1 .. next[p]
  BY RowsOf DEF TablesInv
<1> QED
  BY <1>1, <1>2 DEF Uncovered

\* What a request leaves as it is, whoever makes it.
LEMMA StepRequest ==
    ASSUME CancelInv, TypeOK', TablesInv', TurnsInv', NEW p \in Peer, NEW m \in Method,
           NEW timed \in BOOLEAN, SendRequest(p, m, timed), PromptsKept,
           UNCHANGED <<named, covers, marked>>
    PROVE  CancelInv'
<1> DEFINE q == Other(p)
           g == FrameOf("call", next[p] + 1, m, said[p])
<1>1. /\ Write(p, g) /\ UNCHANGED <<owed, said, heard>>
  BY DEF SendRequest
<1>2. g \in Frame /\ g.kind = "call" /\ g.id = next[p] + 1
  <2>1. next[p] + 1 \in Nat /\ said[p] \in Nat
    BY CancelTypes
  <2> QED
    BY <2>1, FrameOfType
<1> HIDE DEF g
<1>3. /\ wire'[q] = Append(wire[q], g) /\ wire'[p] = wire[p]
      /\ q \in Peer /\ q # p /\ Other(q) = p /\ Other(p) = q
      /\ \A y \in Peer : y = p \/ y = q
  BY <1>1, <1>2, CancelTypes, WriteEffect, OtherPeer
<1> HIDE DEF q
<1>4. \A y \in Peer : RowsKept(y)
  BY <1>1, CancelTypes, KeepRows
<1>5. \A y \in Peer : NoNew(wire[y], wire'[y], {"note"})
  BY <1>2, <1>3, CancelTypes, SameFrames, AppendedFrames
<1>6. Uncovered(p, g.id)
  BY <1>2, CancelTypes, NewRequest
<1>7. \A y \in Peer : NamedInv(y)'
  BY <1>4, <1>5, OtherPeer, CancelTypes, KeepNamed
<1>8. BehindInv(p)' /\ BehindInv(q)'
  BY <1>2, <1>3, <1>4, <1>6, CancelTypes, KeepBehind, AppendBehind
<1>9. \A y \in Peer : HitsInv(y)'
  BY <1>4, OtherPeer, CancelTypes, KeepHits
<1>10. StopsInv(p)'
  BY <1>1, <1>3, <1>4, CancelTypes, KeepStops
<1>11. StopsInv(q)'
  <2>1. Appended(wire[q], wire'[q], g, Len(wire[q]) + 1)
    BY <1>2, <1>3, CancelTypes, AppendedLemma
  <2>2. \A j \in DOMAIN wire'[q] : wire'[q][j].kind = "call" =>
            \/ \E k \in DOMAIN wire[q] : wire'[q][j] = wire[q][k]
            \/ Uncovered(p, wire'[q][j].id)
    BY <1>6, <2>1 DEF Appended
  <2> QED
    BY <1>1, <1>3, <1>4, <2>2, CancelTypes, KeepStops
<1> QED
  BY <1>3, <1>7, <1>8, <1>9, <1>10, <1>11, PartsCancel DEF Parts

LEMMA StepPrompt ==
    ASSUME CancelInv, IInv, TypeOK', NEW t \in Session, NEW timed \in BOOLEAN,
           Prompt(t, timed)
    PROVE  CancelInv'
<1> DEFINE g == FrameOf("call", next["client"] + 1, "session/prompt", said["client"])
<1>1. /\ SendRequest("client", "session/prompt", timed)
      /\ next' = [next EXCEPT !["client"] = @ + 1]
      /\ Write("client", g)
      /\ prompts' = Append(prompts, t)
      /\ UNCHANGED <<owed, said, heard, named, covers, marked>>
  BY DEF Prompt, SendRequest
<1>2. /\ g \in Frame /\ g.kind = "call" /\ "session/prompt" \in Method
  <2>1. /\ next["client"] + 1 \in Nat /\ said["client"] \in Nat /\ "session/prompt" \in Method
    BY CancelTypes, Peers, CancelAssumption
  <2> QED
    BY <2>1, FrameOfType
<1> HIDE DEF g
<1>3. wire'["agent"] = Append(wire["agent"], g) /\ wire'["client"] = wire["client"]
  BY <1>1, <1>2, CancelTypes, Peers, WriteEffect
<1>4. /\ prompts \in Seq(Session) /\ prompts' \in Seq(Session) /\ Len(prompts') = Len(prompts) + 1
      /\ DOMAIN prompts \subseteq DOMAIN prompts'
      /\ \A i \in DOMAIN prompts : prompts'[i] = prompts[i]
  BY <1>1, AppendProperties, LenProperties DEF CancelInv, TablesInv, CancelTypeOK
<1>5. next'["client"] = next["client"] + 1 /\ next'["agent"] = next["agent"]
  BY <1>1, CancelTypes, Peers DEF TypeOK
<1>6. TablesInv'
  <2>1. CancelTypeOK'
    BY <1>1, <1>4 DEF CancelInv, TablesInv, CancelTypeOK
  <2>2. \A p \in Peer : \A k \in DOMAIN covers'[p] : covers'[p][k] \subseteq 1 .. next'[p]
    <3>1. \A p \in Peer : next[p] \in Nat /\ next[p] <= next'[p] /\ next'[p] \in Nat
      BY <1>5, CancelTypes, Peers
    <3>2. \A p \in Peer : 1 .. next[p] \subseteq 1 .. next'[p]
      BY <3>1
    <3> QED
      BY <1>1, <3>2 DEF CancelInv, TablesInv
  <2> QED
    BY <1>1, <1>4, <1>5, <2>1, <2>2 DEF CancelInv, TablesInv
<1>7. \A p \in Peer : RowsKept(p)
  BY <1>1, CancelTypes, KeepRows
<1>8. TurnsInv'
  BY <1>1, <1>2, <1>3, <1>4, <1>6, <1>7, Peers, CancelTypes, KnownTurn, TurnsAppend
<1> QED
  BY <1>1, <1>2, <1>4, <1>6, <1>8, Peers, StepRequest DEF PromptsKept

LEMMA StepAskPermission ==
    ASSUME CancelInv, IInv, TypeOK', NEW timed \in BOOLEAN, AskPermission(timed)
    PROVE  CancelInv'
<1> DEFINE g == FrameOf("call", next["agent"] + 1, "session/request_permission", said["agent"])
<1>1. /\ SendRequest("agent", "session/request_permission", timed)
      /\ next' = [next EXCEPT !["agent"] = @ + 1]
      /\ Write("agent", g)
      /\ UNCHANGED <<owed, said, heard, prompts, named, covers, marked>>
  BY DEF AskPermission, SendRequest, cancelData
<1>2. g \in Frame /\ "session/request_permission" \in Method
  <2>1. /\ next["agent"] + 1 \in Nat /\ said["agent"] \in Nat
        /\ "session/request_permission" \in Method
    BY CancelTypes, Peers, CancelAssumption
  <2> QED
    BY <2>1, FrameOfType
<1> HIDE DEF g
<1>3. wire'["agent"] = wire["agent"]
  BY <1>1, <1>2, CancelTypes, Peers, WriteEffect
<1>4. next'["agent"] = next["agent"] + 1 /\ next'["client"] = next["client"]
  BY <1>1, CancelTypes, Peers DEF TypeOK
<1>5. TablesInv'
  <2>1. CancelTypeOK'
    BY <1>1 DEF CancelInv, TablesInv, CancelTypeOK
  <2>2. \A p \in Peer : \A k \in DOMAIN covers'[p] : covers'[p][k] \subseteq 1 .. next'[p]
    <3>1. \A p \in Peer : next[p] \in Nat /\ next[p] <= next'[p] /\ next'[p] \in Nat
      BY <1>4, CancelTypes, Peers
    <3>2. \A p \in Peer : 1 .. next[p] \subseteq 1 .. next'[p]
      BY <3>1
    <3> QED
      BY <1>1, <3>2 DEF CancelInv, TablesInv
  <2> QED
    BY <1>1, <1>4, <2>1, <2>2 DEF CancelInv, TablesInv
<1>6. \A p \in Peer : RowsKept(p)
  BY <1>1, CancelTypes, KeepRows
<1>7. TurnsInv'
  BY <1>1, <1>3, <1>5, <1>6, Peers, CancelTypes, TurnsStay
<1> QED
  BY <1>1, <1>2, <1>5, <1>7, Peers, StepRequest DEF PromptsKept

\* A cancel is meant for the request it names, or for the turns there are of
\* the session it names.
LEMMA StepCancel ==
    ASSUME CancelInv, IInv, TypeOK', NEW p \in Peer, NEW n \in Notice,
           NEW x \in Nat \cup Session, NEW S \in SUBSET (1 .. next[p]), Cancel(p, n, x, S),
           n = "$/cancel_request" => S = {x},
           n = "session/cancel" =>
               p = "client" /\ S = {i \in DOMAIN prompts : prompts[i] = x}
    PROVE  CancelInv'
<1> DEFINE q == Other(p)
           g == FrameOf("note", 0, n, said[p] + 1)
<1>1. /\ said' = [said EXCEPT ![p] = @ + 1]
      /\ Write(p, g)
      /\ named' = [named EXCEPT ![p] = Append(@, x)]
      /\ covers' = [covers EXCEPT ![p] = Append(@, S)]
      /\ UNCHANGED <<next, owed, heard, prompts, marked>>
  BY DEF Cancel, SendNotice
<1>2. g \in Frame /\ g.kind = "note" /\ g.method = n /\ g.sent = said[p] + 1
  BY CancelTypes, FrameOfType
<1> HIDE DEF g
<1>3. /\ wire'[q] = Append(wire[q], g) /\ wire'[p] = wire[p]
      /\ q \in Peer /\ q # p /\ Other(q) = p /\ Other(p) = q
      /\ \A y \in Peer : y = p \/ y = q
  BY <1>1, <1>2, CancelTypes, WriteEffect, OtherPeer
<1> HIDE DEF q
<1>4. /\ named[p] \in Seq(Nat \cup Session) /\ Len(named[p]) = said[p]
      /\ covers[p] \in Seq(SUBSET Nat) /\ Len(covers[p]) = said[p] /\ said[p] \in Nat
      /\ named'[p] = Append(named[p], x) /\ covers'[p] = Append(covers[p], S)
      /\ named'[q] = named[q] /\ covers'[q] = covers[q]
      /\ said'[p] = said[p] + 1 /\ said'[q] = said[q]
      /\ S \in SUBSET Nat
  <2>1. /\ named \in [Peer -> Seq(Nat \cup Session)] /\ said \in [Peer -> Nat]
        /\ covers \in [Peer -> Seq(SUBSET Nat)]
        /\ Len(named[p]) = said[p] /\ Len(covers[p]) = said[p]
    BY DEF CancelInv, TablesInv, CancelTypeOK, TypeOK
  <2>2. /\ named[p] \in Seq(Nat \cup Session) /\ covers[p] \in Seq(SUBSET Nat)
        /\ said[p] \in Nat
    BY <2>1
  <2>3. /\ named'[p] = Append(named[p], x) /\ covers'[p] = Append(covers[p], S)
        /\ said'[p] = said[p] + 1
    BY <1>1, <2>1
  <2>4. named'[q] = named[q] /\ covers'[q] = covers[q] /\ said'[q] = said[q]
    BY <1>1, <1>3, <2>1
  <2>5. S \in SUBSET Nat
    BY CancelTypes
  <2> QED
    BY <2>1, <2>2, <2>3, <2>4, <2>5
<1>5. /\ named'[p] \in Seq(Nat \cup Session) /\ Len(named'[p]) = said[p] + 1
      /\ covers'[p] \in Seq(SUBSET Nat) /\ Len(covers'[p]) = said[p] + 1
      /\ \A m \in 1 .. said[p] : named'[p][m] = named[p][m] /\ covers'[p][m] = covers[p][m]
      /\ named'[p][said[p] + 1] = x /\ covers'[p][said[p] + 1] = S
  BY <1>4, AppendProperties
<1>6. TablesInv'
  <2>1. /\ named' \in [Peer -> Seq(Nat \cup Session)]
        /\ covers' \in [Peer -> Seq(SUBSET Nat)]
    BY <1>1, <1>4, <1>5 DEF CancelInv, TablesInv, CancelTypeOK
  <2>2. \A y \in Peer : Len(named'[y]) = said'[y] /\ Len(covers'[y]) = said'[y]
    <3>1. Len(named[q]) = said[q] /\ Len(covers[q]) = said[q]
      BY <1>3 DEF CancelInv, TablesInv, CancelTypeOK
    <3> QED
      BY <1>3, <1>4, <1>5, <3>1
  <2>3. \A k \in DOMAIN covers'[p] : covers'[p][k] \subseteq 1 .. next[p]
    <3>1. DOMAIN covers'[p] = 1 .. said[p] + 1 /\ DOMAIN covers[p] = 1 .. said[p]
      BY <1>4, <1>5, LenProperties
    <3>2. \A k \in 1 .. said[p] : covers[p][k] \subseteq 1 .. next[p]
      BY <3>1 DEF CancelInv, TablesInv
    <3>3. ASSUME NEW k \in DOMAIN covers'[p]
          PROVE  covers'[p][k] \subseteq 1 .. next[p]
      <4>1. k = said[p] + 1 \/ k \in 1 .. said[p]
        BY <1>4, <3>1
      <4>2. CASE k = said[p] + 1
        BY <1>5, <4>2
      <4>3. CASE k \in 1 .. said[p]
        BY <1>5, <3>2, <4>3
      <4> QED
        BY <4>1, <4>2, <4>3
    <3> QED
      BY <3>3
  <2>4. \A k \in DOMAIN covers'[q] : covers'[q][k] \subseteq 1 .. next[q]
    BY <1>3, <1>4 DEF CancelInv, TablesInv
  <2>5. heard[p] <= said'[q] /\ heard[q] <= said'[p]
    <3>1. heard[p] <= said[q] /\ heard[q] <= said[p] /\ heard[q] \in Nat
      BY <1>3, CancelTypes, RowsOf DEF CancelInv, TablesInv
    <3> QED
      BY <1>4, <3>1
  <2>6. CancelTypeOK'
    BY <1>1, <2>1, <2>2 DEF CancelInv, TablesInv, CancelTypeOK
  <2>7. \A y \in Peer : /\ \A k \in DOMAIN covers'[y] : covers'[y][k] \subseteq 1 .. next'[y]
                       /\ heard'[y] <= said'[Other(y)]
    BY <1>1, <1>3, <2>3, <2>4, <2>5
  <2>8. Len(prompts') = next'["client"]
    BY <1>1 DEF CancelInv, TablesInv
  <2> QED
    BY <2>2, <2>6, <2>7, <2>8 DEF TablesInv
<1>7. \A y \in Peer : RowsKept(y)
  <2>1. RowsKept(p)
    BY <1>4, <1>5 DEF RowsKept
  <2>2. RowsKept(q)
    BY <1>3, <1>4, CancelTypes, KeepRows
  <2> QED
    BY <1>3, <2>1, <2>2
<1>8. PromptsKept
  BY <1>1 DEF PromptsKept
<1>9. NamedInv(p)'
  BY <1>3, <1>6, <1>7, <1>8, CancelTypes, KeepNamed, SameFrames
<1>10. NamedInv(q)'
  <2>1. Appended(wire[q], wire'[q], g, Len(wire[q]) + 1)
    BY <1>2, <1>3, CancelTypes, AppendedLemma
  <2> SUFFICES ASSUME NEW k \in DOMAIN wire'[q], wire'[q][k].kind = "note"
               PROVE  /\ wire'[q][k].sent \in 1 .. said'[p]
                      /\ wire'[q][k].method = "$/cancel_request" =>
                             covers'[p][wire'[q][k].sent] = {named'[p][wire'[q][k].sent]}
                      /\ wire'[q][k].method = "session/cancel" =>
                             \A i \in covers'[p][wire'[q][k].sent] :
                                 /\ i \in DOMAIN prompts'
                                 /\ prompts'[i] = named'[p][wire'[q][k].sent]
    BY <1>3 DEF NamedInv
  <2>2. CASE wire'[q][k] = g
    BY <1>1, <1>2, <1>4, <1>5, <2>2
  <2>3. CASE k \in DOMAIN wire[q] /\ wire'[q][k] = wire[q][k]
    <3>1. NamedInv(q)
      BY <1>3, CancelTypes
    <3>2. /\ wire[q][k].sent \in 1 .. said[p]
          /\ wire[q][k].method = "$/cancel_request" =>
                 covers[p][wire[q][k].sent] = {named[p][wire[q][k].sent]}
          /\ wire[q][k].method = "session/cancel" =>
                 \A i \in covers[p][wire[q][k].sent] :
                     i \in DOMAIN prompts /\ prompts[i] = named[p][wire[q][k].sent]
      BY <1>3, <2>3, <3>1 DEF NamedInv
    <3> QED
      BY <1>1, <1>4, <1>5, <2>3, <3>2
  <2> QED
    BY <2>1, <2>2, <2>3 DEF Appended
<1>11. TurnsInv'
  <2>1. CASE p = "agent"
    BY <1>1, <1>3, <1>6, <1>7, <2>1, Peers, CancelTypes, TurnsStay
  <2>2. CASE p = "client"
    <3>1. wire'["agent"] = Append(wire["agent"], g)
      BY <1>3, <2>2, Peers DEF q
    <3>2. g.method = "session/cancel" =>
            \A i \in DOMAIN prompts' : prompts'[i] = named'["client"][g.sent] =>
                i \in covers'["client"][g.sent]
      BY <1>1, <1>2, <1>5, <2>2
    <3> QED
      BY <1>1, <1>2, <1>6, <1>7, <3>1, <3>2, Peers, CancelTypes, KnownTurn, TurnsAppend
  <2> QED
    BY <2>1, <2>2, Peers
<1>12. BehindInv(p)' /\ BehindInv(q)'
  <2>1. g.kind # "call"
    BY <1>2
  <2> QED
    BY <1>2, <1>3, <1>7, <2>1, CancelTypes, KeepBehind, AppendBehind
<1>13. \A y \in Peer : HitsInv(y)'
  BY <1>1, <1>6, <1>7, OtherPeer, CancelTypes, KeepHits
<1>14. StopsInv(p)'
  BY <1>1, <1>3, <1>7, CancelTypes, KeepStops
<1>15. StopsInv(q)'
  <2>1. Appended(wire[q], wire'[q], g, Len(wire[q]) + 1)
    BY <1>2, <1>3, CancelTypes, AppendedLemma
  <2>2. \A j \in DOMAIN wire'[q] : wire'[q][j].kind = "call" =>
            \E k \in DOMAIN wire[q] : wire'[q][j] = wire[q][k]
    BY <1>2, <2>1 DEF Appended
  <2> QED
    BY <1>1, <1>3, <1>7, <2>2, CancelTypes, KeepStops
<1> QED
  BY <1>3, <1>6, <1>9, <1>10, <1>11, <1>12, <1>13, <1>14, <1>15, PartsCancel DEF Parts

\* A host reads a cancel and marks S: what it owes of what the cancel is for.
LEMMA StepTakeCancel ==
    ASSUME CancelInv, IInv, TypeOK', NEW p \in Peer, NEW f, NEW S, TakeCancel(p, f, S),
           S = {c \in owed[p] : c.id \in covers[Other(p)][f.sent]}
    PROVE  CancelInv'
<1> DEFINE q == Other(p)
<1>1. /\ Takes(p, f) /\ f.kind = "note"
      /\ wire' = [wire EXCEPT ![p] = Tail(@)]
      /\ heard' = [heard EXCEPT ![p] = @ + 1]
      /\ marked' = [marked EXCEPT ![p] = @ \cup S]
      /\ UNCHANGED <<next, owed, said, prompts, named, covers>>
  BY DEF TakeCancel, ReceiveNotice
<1>2. /\ wire'[p] = Tail(wire[p]) /\ wire'[q] = wire[q]
      /\ wire[p] \in Seq(Frame) /\ wire[p] # << >> /\ f = wire[p][1] /\ 1 \in DOMAIN wire[p]
      /\ Dropped(wire[p], Tail(wire[p]), [k \in DOMAIN Tail(wire[p]) |-> k + 1])
      /\ q \in Peer /\ q # p /\ \A y \in Peer : y = p \/ y = q
  <2>1. wire[p] \in Seq(Frame) /\ wire[p] # << >> /\ f = wire[p][1]
    BY <1>1, CancelTypes, TakenType
  <2>2. 1 \in DOMAIN wire[p]
    BY <2>1, LenProperties, EmptySeq
  <2> QED
    BY <1>1, <2>1, <2>2, CancelTypes, TakeEffect, DroppedLemma, OtherPeer
<1>3. f.sent = heard[p] + 1 /\ f.sent \in 1 .. said[q] /\ heard[p] \in Nat
  <2>1. StampInv(p)
    BY DEF IInv
  <2>2. Stamp(p, 1) = Stamp(p, 1 - 1) + 1
    BY <1>1, <1>2, <2>1 DEF StampInv
  <2>3. Stamp(p, 1) = f.sent /\ Stamp(p, 1 - 1) = heard[p]
    BY <1>2 DEF Stamp
  <2> QED
    BY <1>1, <1>2, <2>2, <2>3, CancelTypes, RowsOf DEF NamedInv
<1>4. /\ heard'[p] = heard[p] + 1 /\ heard'[q] = heard[q]
      /\ marked'[p] = marked[p] \cup S /\ marked'[q] = marked[q] /\ DOMAIN marked' = Peer
  BY <1>1, <1>2 DEF CancelInv, TablesInv, CancelTypeOK, TypeOK
<1>5. TablesInv'
  <2>1. CancelTypeOK'
    BY <1>1, <1>2, <1>4 DEF CancelInv, TablesInv, CancelTypeOK
  <2> QED
    BY <1>1, <1>2, <1>3, <1>4, <2>1 DEF CancelInv, TablesInv
<1>6. \A y \in Peer : RowsKept(y)
  BY <1>1, CancelTypes, KeepRows
<1>7. \A y \in Peer : NamedInv(y)'
  <2>1. \A y \in Peer : NoNew(wire[y], wire'[y], {"note"})
    BY <1>2, SameFrames, DroppedFrames
  <2> QED
    BY <1>1, <1>5, <1>6, <2>1, OtherPeer, CancelTypes, KeepNamed DEF PromptsKept
<1>8. TurnsInv'
  <2>1. CASE p = "agent"
    BY <1>1, <1>2, <1>5, <1>6, <2>1, Peers, CancelTypes, TurnsDrop
  <2>2. CASE p = "client"
    BY <1>1, <1>2, <1>5, <1>6, <2>2, Peers, CancelTypes, TurnsStay
  <2> QED
    BY <2>1, <2>2, Peers
<1>9. BehindInv(p)' /\ BehindInv(q)'
  BY <1>2, <1>6, OtherPeer, CancelTypes, KeepBehind
<1>10. HitsInv(p)'
  <2>1. DOMAIN covers[q] = 1 .. said[q]
    BY <1>2, CancelTypes, RowsOf
  <2>2. \A c \in S : AskedFor(q, c.id)
    BY <1>3, <2>1 DEF AskedFor
  <2>3. \A c \in marked'[p] : AskedFor(q, c.id)
    BY <1>4, <2>2, CancelTypes DEF HitsInv
  <2> QED
    BY <1>2, <1>5, <1>6, <2>3, CancelTypes, KeepAsked DEF HitsInv
<1>11. HitsInv(q)'
  BY <1>2, <1>4, <1>5, <1>6, OtherPeer, CancelTypes, KeepHits
<1>12. StopsInv(q)'
  BY <1>1, <1>2, <1>4, <1>6, OtherPeer, CancelTypes, KeepStops
<1>13. StopsInv(p)'
  <2> SUFFICES ASSUME NEW k \in 1 .. heard[p] + 1, NEW i \in covers[q][k]
               PROVE  Stopped(p, i)'
    BY <1>1, <1>4 DEF StopsInv
  <2>1. CASE k = heard[p] + 1
    <3>1. i \in covers[q][f.sent]
      BY <1>3, <2>1
    <3>2. \A c \in owed'[p] : c.id = i => c \in marked'[p]
      BY <1>1, <1>4, <3>1
    <3>3. ASSUME NEW j \in DOMAIN wire'[p], wire'[p][j].kind = "call", wire'[p][j].id = i
          PROVE  FALSE
      <4>1. /\ DOMAIN wire[p] = 1 .. Len(wire[p]) /\ Len(wire[p]) \in Nat
            /\ DOMAIN wire'[p] = 1 .. Len(wire[p]) - 1
            /\ \A m \in 1 .. Len(wire[p]) - 1 : wire'[p][m] = wire[p][m + 1]
        BY <1>2, HeadTailProperties, LenProperties, EmptySeq
      <4>2. j + 1 \in DOMAIN wire[p] /\ wire'[p][j] = wire[p][j + 1] /\ j \in Nat /\ j >= 1
        BY <4>1
      <4>3. j + 1 < 1
        BY <1>1, <1>2, <3>1, <3>3, <4>2, CancelTypes DEF BehindInv
      <4> QED
        BY <4>2, <4>3
    <3> QED
      BY <3>2, <3>3 DEF Stopped
  <2>2. CASE k \in 1 .. heard[p]
    <3>1. Stopped(p, i)
      BY <2>2, CancelTypes DEF StopsInv
    <3>2. NoNew(wire[p], wire'[p], {"call"})
      BY <1>2, DroppedFrames
    <3>3. \A j \in DOMAIN wire'[p] : ~(wire'[p][j].kind = "call" /\ wire'[p][j].id = i)
      BY <3>1, <3>2 DEF Stopped, NoNew
    <3> QED
      BY <1>1, <1>4, <3>1, <3>3 DEF Stopped
  <2> QED
    BY <1>3, <2>1, <2>2
<1> QED
  BY <1>2, <1>5, <1>7, <1>8, <1>9, <1>10, <1>11, <1>12, <1>13, PartsCancel DEF Parts

LEMMA StepAnswerCall ==
    ASSUME CancelInv, IInv, TypeOK', NEW p \in Peer, NEW c \in owed[p], AnswerCall(p, c)
    PROVE  CancelInv'
<1> DEFINE q == Other(p)
           g == FrameOf("result", c.id, c.method, said[p])
<1>1. /\ Write(p, g)
      /\ owed' = [owed EXCEPT ![p] = @ \ {c}]
      /\ marked' = [marked EXCEPT ![p] = @ \ {c}]
      /\ UNCHANGED <<next, said, heard, prompts, named, covers>>
  BY DEF AnswerCall, Answer
<1>2. g \in Frame /\ g.kind = "result"
  <2>1. c.id \in Nat /\ c.method \in Method /\ said[p] \in Nat
    BY CancelTypes DEF TypeOK, Call
  <2> QED
    BY <2>1, FrameOfType
<1> HIDE DEF g
<1>3. /\ wire'[q] = Append(wire[q], g) /\ wire'[p] = wire[p]
      /\ q \in Peer /\ q # p /\ Other(q) = p /\ Other(p) = q
      /\ \A y \in Peer : y = p \/ y = q
  BY <1>1, <1>2, CancelTypes, WriteEffect, OtherPeer
<1> HIDE DEF q
<1>4. /\ owed'[p] = owed[p] \ {c} /\ owed'[q] = owed[q]
      /\ marked'[p] = marked[p] \ {c} /\ marked'[q] = marked[q] /\ DOMAIN marked' = Peer
  BY <1>1, <1>3 DEF CancelInv, TablesInv, CancelTypeOK, TypeOK
<1>5. TablesInv'
  BY <1>1, <1>3, <1>4 DEF CancelInv, TablesInv, CancelTypeOK
<1>6. \A y \in Peer : RowsKept(y)
  BY <1>1, CancelTypes, KeepRows
<1>7. \A y \in Peer : NamedInv(y)'
  <2>1. \A y \in Peer : NoNew(wire[y], wire'[y], {"note"})
    BY <1>2, <1>3, CancelTypes, SameFrames, AppendedFrames
  <2> QED
    BY <1>1, <1>5, <1>6, <2>1, OtherPeer, CancelTypes, KeepNamed DEF PromptsKept
<1>8. TurnsInv'
  <2>1. CASE p = "agent"
    BY <1>1, <1>3, <1>4, <1>5, <1>6, <2>1, Peers, CancelTypes, TurnsStay
  <2>2. CASE p = "client"
    <3>1. wire'["agent"] = Append(wire["agent"], g) /\ owed'["agent"] = owed["agent"]
      BY <1>3, <1>4, <2>2, Peers DEF q
    <3>2. g.kind # "note"
      BY <1>2
    <3> QED
      BY <1>1, <1>2, <1>5, <1>6, <3>1, <3>2, Peers, CancelTypes, KnownTurn, TurnsAppend
  <2> QED
    BY <2>1, <2>2, Peers
<1>9. BehindInv(p)' /\ BehindInv(q)'
  <2>1. g.kind # "call"
    BY <1>2
  <2> QED
    BY <1>2, <1>3, <1>6, <2>1, CancelTypes, KeepBehind, AppendBehind
<1>10. \A y \in Peer : HitsInv(y)'
  BY <1>3, <1>4, <1>5, <1>6, CancelTypes, KeepHits
<1>11. StopsInv(p)'
  BY <1>1, <1>3, <1>4, <1>6, CancelTypes, KeepStops
<1>12. StopsInv(q)'
  <2>1. Appended(wire[q], wire'[q], g, Len(wire[q]) + 1)
    BY <1>2, <1>3, CancelTypes, AppendedLemma
  <2>2. \A j \in DOMAIN wire'[q] : wire'[q][j].kind = "call" =>
            \E k \in DOMAIN wire[q] : wire'[q][j] = wire[q][k]
    BY <1>2, <2>1 DEF Appended
  <2> QED
    BY <1>1, <1>3, <1>4, <1>6, <2>2, CancelTypes, KeepStops
<1> QED
  BY <1>3, <1>5, <1>7, <1>8, <1>9, <1>10, <1>11, <1>12, PartsCancel DEF Parts

\* A host takes a frame that is no cancel: a call it defers, or a reply.
LEMMA StepTakeFrame ==
    ASSUME CancelInv, IInv, TypeOK', NEW p \in Peer, NEW f, Takes(p, f),
           wire' = [wire EXCEPT ![p] = Tail(@)], owed' \in [Peer -> SUBSET Call],
           \A y \in Peer : owed[y] \subseteq owed'[y],
           owed'[Other(p)] = owed[Other(p)],
           \A c \in owed'[p] : c \in owed[p] \/ (f.kind = "call" /\ f.id = c.id),
           UNCHANGED <<next, said, heard>>, UNCHANGED cancelData
    PROVE  CancelInv'
<1> DEFINE q == Other(p)
<1>1. UNCHANGED <<prompts, named, covers, marked>>
  BY DEF cancelData
<1>2. /\ wire'[p] = Tail(wire[p]) /\ wire'[q] = wire[q]
      /\ wire[p] \in Seq(Frame) /\ wire[p] # << >> /\ f = wire[p][1]
      /\ q \in Peer /\ q # p /\ \A y \in Peer : y = p \/ y = q
  BY CancelTypes, TakeEffect, TakenType, OtherPeer
<1>3. 1 \in DOMAIN wire[p]
  BY <1>2, LenProperties, EmptySeq
<1>4. TablesInv'
  BY <1>1 DEF CancelInv, TablesInv, CancelTypeOK
<1>5. \A y \in Peer : RowsKept(y)
  BY <1>1, CancelTypes, KeepRows
<1>6. \A y \in Peer : NamedInv(y)'
  <2>1. \A y \in Peer : NoNew(wire[y], wire'[y], {"note"})
    BY <1>2, SameFrames, DroppedFrames
  <2> QED
    BY <1>1, <1>4, <1>5, <2>1, OtherPeer, CancelTypes, KeepNamed DEF PromptsKept
<1>7. TurnsInv'
  <2>1. CASE p = "agent"
    BY <1>1, <1>2, <1>4, <1>5, <2>1, Peers, CancelTypes, TurnsDrop
  <2>2. CASE p = "client"
    BY <1>1, <1>2, <1>4, <1>5, <2>2, Peers, CancelTypes, TurnsStay
  <2> QED
    BY <2>1, <2>2, Peers
<1>8. BehindInv(p)' /\ BehindInv(q)'
  BY <1>2, <1>5, OtherPeer, CancelTypes, KeepBehind
<1>9. \A y \in Peer : HitsInv(y)'
  BY <1>1, <1>4, <1>5, OtherPeer, CancelTypes, KeepHits
<1>10. StopsInv(q)'
  BY <1>1, <1>2, <1>5, OtherPeer, CancelTypes, KeepStops
<1>11. StopsInv(p)'
  <2>1. \A j \in DOMAIN wire'[p] : wire'[p][j].kind = "call" =>
            \E k \in DOMAIN wire[p] : wire'[p][j] = wire[p][k]
    BY <1>2, DroppedFrames DEF NoNew
  <2>2. \A c \in owed'[p] :
            \/ c \in owed[p] /\ (c \in marked[p] => c \in marked'[p])
            \/ \E k \in DOMAIN wire[p] : wire[p][k].kind = "call" /\ wire[p][k].id = c.id
    BY <1>1, <1>2, <1>3
  <2> QED
    BY <1>2, <1>5, <2>1, <2>2, OtherPeer, CancelTypes, KeepStops
<1> QED
  BY <1>2, <1>4, <1>6, <1>7, <1>8, <1>9, <1>10, <1>11, PartsCancel DEF Parts

-----------------------------------------------------------------------------
(***************************************************************************)
(* The invariant.                                                          *)
(***************************************************************************)
LEMMA CancelInvInit == CancelInit => CancelInv
<1> SUFFICES ASSUME CancelInit
             PROVE  CancelInv
  OBVIOUS
<1>1. TypeOK
  BY TypeInit DEF CancelInit
<1>2. /\ \A p \in Peer : /\ next[p] = 0 /\ said[p] = 0 /\ heard[p] = 0 /\ owed[p] = {}
                         /\ wire[p] = << >>
      /\ prompts = << >>
      /\ named = [p \in Peer |-> << >>] /\ covers = [p \in Peer |-> << >>]
      /\ marked = [p \in Peer |-> {}]
  BY DEF CancelInit, Init
<1>3. Len(<< >>) = 0 /\ \A k : k \notin DOMAIN << >>
  BY EmptySeq
<1>4. TablesInv
  <2>1. CancelTypeOK
    BY <1>1, <1>2, <1>3, EmptySeq DEF CancelTypeOK
  <2>2. \A p \in Peer : covers[p] = << >> /\ heard[p] <= said[Other(p)]
    BY <1>2, OtherPeer
  <2> QED
    BY <1>2, <1>3, <2>1, <2>2, Peers DEF TablesInv
<1>5. \A p \in Peer : NamedInv(p) /\ BehindInv(p)
  BY <1>2, <1>3 DEF NamedInv, BehindInv
<1>6. \A k \in 1 .. 0 : FALSE
  OBVIOUS
<1>7. CancelHitsItsTarget /\ CancelMissesNothing
  BY <1>2, <1>6 DEF CancelHitsItsTarget, CancelMissesNothing
<1>8. TurnsInv
  BY <1>2, <1>3, Peers DEF TurnsInv
<1> QED
  BY <1>4, <1>5, <1>7, <1>8 DEF CancelInv

LEMMA TakeKeeps ==
    ASSUME CancelInv, IInv, TypeOK', NEW p \in Peer, Take(p)
    PROVE  CancelInv'
<1> DEFINE f == Head(wire[p])
<1>1. CASE TakeCancelRequest(p, f)
  <2> DEFINE S == {c \in owed[p] : c.id = named[Other(p)][f.sent]}
  <2>1. f.method = "$/cancel_request" /\ TakeCancel(p, f, S)
    BY <1>1 DEF TakeCancelRequest
  <2>2. Takes(p, f) /\ f.kind = "note"
    BY <2>1 DEF TakeCancel, ReceiveNotice
  <2>3. f = wire[p][1] /\ 1 \in DOMAIN wire[p]
    BY <2>2, CancelTypes, TakenType, LenProperties, EmptySeq
  <2>4. covers[Other(p)][f.sent] = {named[Other(p)][f.sent]}
    BY <2>1, <2>2, <2>3, CancelTypes DEF NamedInv
  <2>5. S = {c \in owed[p] : c.id \in covers[Other(p)][f.sent]}
    BY <2>4
  <2> QED
    BY <2>1, <2>5, StepTakeCancel
<1>2. CASE p = "agent" /\ TakeCancelTurn(f)
  <2> DEFINE S == {c \in owed["agent"] : prompts[c.id] = named["client"][f.sent]}
  <2>1. f.method = "session/cancel" /\ TakeCancel("agent", f, S)
    BY <1>2 DEF TakeCancelTurn
  <2>2. Takes("agent", f) /\ f.kind = "note"
    BY <2>1 DEF TakeCancel, ReceiveNotice
  <2>3. f = wire["agent"][1] /\ 1 \in DOMAIN wire["agent"]
    BY <2>2, CancelTypes, Peers, TakenType, LenProperties, EmptySeq
  <2>4. ASSUME NEW c \in owed["agent"], prompts[c.id] = named["client"][f.sent]
        PROVE  c.id \in covers["client"][f.sent]
    <3>1. KnownBefore(c.id, 1)
      BY DEF KnownBefore
    <3>2. c.id \in DOMAIN prompts
      BY <3>1, KnownTurn
    <3> QED
      BY <2>1, <2>2, <2>3, <2>4, <3>1, <3>2, CancelTypes DEF TurnsInv
  <2>5. \A i \in covers["client"][f.sent] : prompts[i] = named["client"][f.sent]
    <3>1. NamedInv("agent")
      BY Peers, CancelTypes
    <3> QED
      BY <2>1, <2>2, <2>3, <3>1, Peers DEF NamedInv
  <2>6. S = {c \in owed["agent"] : c.id \in covers[Other("agent")][f.sent]}
    BY <2>4, <2>5, Peers
  <2> QED
    BY <2>1, <2>6, Peers, StepTakeCancel
<1>3. CASE ReceiveDeferred(p, f) /\ UNCHANGED cancelData
  <2> DEFINE call == [id |-> f.id, method |-> f.method]
  <2>1. /\ Takes(p, f) /\ f.kind = "call"
        /\ wire' = [wire EXCEPT ![p] = Tail(@)]
        /\ owed' = [owed EXCEPT ![p] = @ \cup {call}]
        /\ UNCHANGED <<next, said, heard>>
    BY <1>3 DEF ReceiveDeferred
  <2>2. /\ owed'[p] = owed[p] \cup {call} /\ call.id = f.id
        /\ owed'[Other(p)] = owed[Other(p)] /\ owed' \in [Peer -> SUBSET Call]
        /\ \A y \in Peer : owed[y] \subseteq owed'[y]
    BY <2>1, CancelTypes, OtherPeer DEF TypeOK
  <2> HIDE DEF call
  <2> QED
    BY <1>3, <2>1, <2>2, StepTakeFrame
<1>4. CASE (\E r \in pending[p] : ReceiveReply(p, f, r)) /\ UNCHANGED cancelData
  <2>1. /\ Takes(p, f)
        /\ wire' = [wire EXCEPT ![p] = Tail(@)]
        /\ UNCHANGED <<next, owed, said, heard>>
    BY <1>4 DEF ReceiveReply
  <2>2. owed' \in [Peer -> SUBSET Call]
    BY DEF TypeOK
  <2> QED
    BY <1>4, <2>1, <2>2, StepTakeFrame
<1>5. CASE ReceiveLate(p, f) /\ UNCHANGED cancelData
  <2>1. /\ Takes(p, f)
        /\ wire' = [wire EXCEPT ![p] = Tail(@)]
        /\ UNCHANGED <<next, owed, said, heard>>
    BY <1>5 DEF ReceiveLate
  <2>2. owed' \in [Peer -> SUBSET Call]
    BY DEF TypeOK
  <2> QED
    BY <1>5, <2>1, <2>2, StepTakeFrame
<1> QED
  BY <1>1, <1>2, <1>3, <1>4, <1>5 DEF Take

\* The streams, the debts and the tables are all the invariant is about.
LEMMA StayPut ==
    ASSUME CancelInv, TypeOK', UNCHANGED <<next, owed, wire, said, heard>>, UNCHANGED cancelData
    PROVE  CancelInv'
<1>1. UNCHANGED <<prompts, named, covers, marked>>
  BY DEF cancelData
<1>2. TablesInv' /\ TurnsInv'
  BY <1>1 DEF CancelInv, TablesInv, CancelTypeOK, TurnsInv, KnownBefore
<1>3. \A p \in Peer : NamedInv(p)' /\ BehindInv(p)'
  BY <1>1 DEF CancelInv, NamedInv, BehindInv
<1>4. CancelHitsItsTarget' /\ CancelMissesNothing'
  BY <1>1 DEF CancelInv, CancelHitsItsTarget, CancelMissesNothing, CallsAt
<1> QED
  BY <1>2, <1>3, <1>4 DEF CancelInv

LEMMA CancelInvNext == CancelInv /\ IInv /\ TypeOK' /\ [CancelNext]_cancelVars => CancelInv'
<1> SUFFICES ASSUME CancelInv, IInv, TypeOK', [CancelNext]_cancelVars
             PROVE  CancelInv'
  OBVIOUS
<1>1. CASE UNCHANGED cancelVars
  BY <1>1, StayPut DEF cancelVars, vars
<1>2. ASSUME NEW t \in Session, NEW timed \in BOOLEAN, Prompt(t, timed)
      PROVE  CancelInv'
  BY <1>2, StepPrompt
<1>3. ASSUME NEW timed \in BOOLEAN, AskPermission(timed)
      PROVE  CancelInv'
  BY <1>3, StepAskPermission
<1>4. /\ "$/cancel_request" \in Notice /\ "session/cancel" \in Notice
      /\ "$/cancel_request" # "session/cancel"
  BY CancelAssumption
<1>5. ASSUME NEW p \in Peer, NEW r \in Issued(p), CancelRequest(p, r)
      PROVE  CancelInv'
  <2>1. {r.id} \in SUBSET (1 .. next[p]) /\ r.id \in Nat \cup Session
    <3>1. r.id \in 1 .. next[p] /\ next[p] \in Nat
      BY CancelTypes DEF IInv, IdsInv
    <3> QED
      BY <3>1
  <2>2. Cancel(p, "$/cancel_request", r.id, {r.id})
    BY <1>5 DEF CancelRequest
  <2> QED
    BY <1>4, <2>1, <2>2, StepCancel
<1>6. ASSUME NEW t \in Session, CancelTurn(t)
      PROVE  CancelInv'
  <2> DEFINE S == {i \in DOMAIN prompts : prompts[i] = t}
  <2>1. DOMAIN prompts = 1 .. next["client"]
    BY DEF CancelInv, TablesInv, CancelTypeOK
  <2>2. Cancel("client", "session/cancel", t, S) /\ S \in SUBSET (1 .. next["client"])
    BY <1>6, <2>1 DEF CancelTurn
  <2> QED
    BY <1>4, <2>2, Peers, StepCancel
<1>7. ASSUME NEW p \in Peer, NEW c \in owed[p], AnswerCall(p, c)
      PROVE  CancelInv'
  BY <1>7, StepAnswerCall
<1>8. ASSUME NEW p \in Peer, Take(p)
      PROVE  CancelInv'
  BY <1>8, TakeKeeps
<1>9. ASSUME NEW p \in Peer, NEW S \in SUBSET pending[p], Expire(p, S), UNCHANGED cancelData
      PROVE  CancelInv'
  BY <1>9, StayPut DEF Expire
<1> QED
  BY <1>1, <1>2, <1>3, <1>5, <1>6, <1>7, <1>8, <1>9 DEF CancelNext

\* The inductive invariant holds of hosts that cancel: every notification is
\* behind the requests it is meant for, and means no other, wherever it is now
\* (protocol.hpp:65-68, methods.hpp:72-76).
THEOREM CancelInvariant == CancelSpec => []CancelInv
<1>1. CancelInit => CancelInv
  BY CancelInvInit
<1>2. CancelInv /\ IInv /\ TypeOK' /\ [CancelNext]_cancelVars => CancelInv'
  BY CancelInvNext
<1>3. CancelSpec => []IInv
  BY CancelIsConnection, Invariant
<1>4. IInv => TypeOK
  BY DEF IInv
<1> QED
  BY <1>1, <1>2, <1>3, <1>4, PTL DEF CancelSpec

\* A host marks only calls it owes (protocol.hpp:65-68).
THEOREM CancelTypeCorrect == CancelSpec => []CancelTypeOK
<1>1. CancelInv => CancelTypeOK
  BY DEF CancelInv, TablesInv
<1> QED
  BY <1>1, CancelInvariant, PTL

\* No cancel, by id or by session, stops a request it was not meant for
\* (protocol.hpp:65-68, methods.hpp:72-76).
THEOREM CancelsHitTheirTarget == CancelSpec => []CancelHitsItsTarget
<1>1. CancelInv => CancelHitsItsTarget
  BY DEF CancelInv
<1> QED
  BY <1>1, CancelInvariant, PTL

\* No request escapes a cancel that was meant for it and has been read: it is
\* marked, or was answered before (protocol.hpp:65-68, methods.hpp:72-76).
THEOREM CancelsMissNothing == CancelSpec => []CancelMissesNothing
<1>1. CancelInv => CancelMissesNothing
  BY DEF CancelInv
<1> QED
  BY <1>1, CancelInvariant, PTL
=============================================================================
