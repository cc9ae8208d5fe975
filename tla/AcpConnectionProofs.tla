------------------------- MODULE AcpConnectionProofs -------------------------
(***************************************************************************)
(* Theorems about AcpConnection, for any methods, any registrations and    *)
(* any bounds.  TypeOK is inductive by itself; the safety properties       *)
(* follow from IInv, proved part by part.                                  *)
(***************************************************************************)
EXTENDS AcpConnectionInv, SequenceTheorems, TLAPS

LEMMA OtherPeer ==
    ASSUME NEW p \in Peer
    PROVE  /\ Other(p) \in Peer
           /\ Other(p) # p
           /\ Other(Other(p)) = p
           /\ \A x \in Peer : x = p \/ x = Other(p)
BY DEF Peer, Other

-----------------------------------------------------------------------------
(***************************************************************************)
(* The frames, requests and completions the steps build are well-typed.    *)
(***************************************************************************)
LEMMA FrameOfType ==
    ASSUME NEW kind \in {"call", "note", "result", "error"}, NEW i \in Nat,
           NEW m \in Method \cup Notice, NEW n \in Nat
    PROVE  /\ FrameOf(kind, i, m, n) \in Frame
           /\ FrameOf(kind, i, m, n).kind = kind
           /\ FrameOf(kind, i, m, n).id = i
           /\ FrameOf(kind, i, m, n).method = m
           /\ FrameOf(kind, i, m, n).sent = n
BY DEF FrameOf, Frame

LEMMA AnsweredType ==
    ASSUME NEW r \in Request, NEW f \in Frame, f.kind \in Reply, NEW h \in Nat
    PROVE  /\ Answered(r, f, h) \in Completion
           /\ Answered(r, f, h).req = r
           /\ Answered(r, f, h).outcome = f.kind
           /\ Answered(r, f, h).shape = f.method
           /\ Answered(r, f, h).sent = f.sent
           /\ Answered(r, f, h).heard = h
BY DEF Answered, Completion, Reply, Frame

LEMMA FailedType ==
    ASSUME NEW r \in Request, NEW why \in {"timeout", "closed"}, NEW h \in Nat
    PROVE  /\ Failed(r, why, h) \in Completion
           /\ Failed(r, why, h).req = r
           /\ Failed(r, why, h).outcome = why
           /\ Failed(r, why, h).shape = r.method
BY DEF Failed, Completion, Request

\* What a host takes off its stream is a frame.
LEMMA TakenType ==
    ASSUME TypeOK, NEW p \in Peer, NEW f, Takes(p, f)
    PROVE  /\ f \in Frame
           /\ wire[p] \in Seq(Frame)
           /\ wire[p] # << >>
           /\ f = wire[p][1]
           /\ Tail(wire[p]) \in Seq(Frame)
BY HeadTailProperties DEF TypeOK, Takes

(***************************************************************************)
(* The three things a step does to the streams, peer by peer.              *)
(***************************************************************************)
LEMMA WriteEffect ==
    ASSUME TypeOK, NEW p \in Peer, NEW g \in Frame, Write(p, g)
    PROVE  /\ wire' \in [Peer -> Seq(Frame)]
           /\ wire'[Other(p)] = Append(wire[Other(p)], g)
           /\ wire'[p] = wire[p]
<1>1. Append(wire[Other(p)], g) \in Seq(Frame)
  BY OtherPeer, AppendProperties DEF TypeOK
<1> QED
  BY <1>1, OtherPeer DEF TypeOK, Write

LEMMA TakeEffect ==
    ASSUME TypeOK, NEW p \in Peer, NEW f, Takes(p, f),
           wire' = [wire EXCEPT ![p] = Tail(@)]
    PROVE  /\ wire' \in [Peer -> Seq(Frame)]
           /\ wire'[p] = Tail(wire[p])
           /\ wire'[Other(p)] = wire[Other(p)]
<1>1. Tail(wire[p]) \in Seq(Frame)
  BY TakenType
<1> QED
  BY <1>1, OtherPeer DEF TypeOK

LEMMA TakeAndWriteEffect ==
    ASSUME TypeOK, NEW p \in Peer, NEW f, Takes(p, f), NEW g \in Frame,
           TakeAndWrite(p, g)
    PROVE  /\ wire' \in [Peer -> Seq(Frame)]
           /\ wire'[p] = Tail(wire[p])
           /\ wire'[Other(p)] = Append(wire[Other(p)], g)
<1>1. Tail(wire[p]) \in Seq(Frame)
  BY TakenType
<1>2. Append(wire[Other(p)], g) \in Seq(Frame)
  BY OtherPeer, AppendProperties DEF TypeOK
<1>3. wire' = [[wire EXCEPT ![p] = Tail(wire[p])]
                  EXCEPT ![Other(p)] = Append(wire[Other(p)], g)]
  BY OtherPeer DEF TypeOK, TakeAndWrite
<1> QED
  BY <1>1, <1>2, <1>3, OtherPeer DEF TypeOK

-----------------------------------------------------------------------------
(***************************************************************************)
(* Type correctness.                                                       *)
(***************************************************************************)
LEMMA TypeInit == Init => TypeOK
BY ConnectionAssumption DEF Init, TypeOK

LEMMA TypeNext == TypeOK /\ [Next]_vars => TypeOK'
<1> SUFFICES ASSUME TypeOK, [Next]_vars PROVE TypeOK'
  OBVIOUS
<1> USE DEF TypeOK
<1>1. CASE UNCHANGED vars
  BY <1>1 DEF vars
<1>2. ASSUME NEW p \in Peer, NEW m \in Method, NEW timed \in BOOLEAN,
             SendRequest(p, m, timed)
      PROVE  TypeOK'
  <2>1. FrameOf("call", next[p] + 1, m, said[p]) \in Frame
    BY FrameOfType
  <2>2. wire' \in [Peer -> Seq(Frame)]
    BY <1>2, <2>1, WriteEffect DEF SendRequest
  <2>3. [id |-> next[p] + 1, method |-> m, timed |-> timed] \in Request
    BY DEF Request
  <2>4. next' \in [Peer -> Nat] /\ pending' \in [Peer -> SUBSET Request]
    BY <1>2, <2>3 DEF SendRequest
  <2> QED
    BY <1>2, <2>2, <2>4 DEF SendRequest
<1>3. ASSUME NEW p \in Peer, NEW n \in Notice, SendNotice(p, n)
      PROVE  TypeOK'
  <2>1. FrameOf("note", 0, n, said[p] + 1) \in Frame
    BY FrameOfType
  <2>2. wire' \in [Peer -> Seq(Frame)]
    BY <1>3, <2>1, WriteEffect DEF SendNotice
  <2>3. said' \in [Peer -> Nat]
    BY <1>3 DEF SendNotice
  <2> QED
    BY <1>3, <2>2, <2>3 DEF SendNotice
<1>4. ASSUME NEW p \in Peer, NEW c \in owed[p], Answer(p, c)
      PROVE  TypeOK'
  <2>1. c.id \in Nat /\ c.method \in Method
    BY DEF Call
  <2>2. FrameOf("result", c.id, c.method, said[p]) \in Frame
    BY <2>1, FrameOfType
  <2>3. wire' \in [Peer -> Seq(Frame)]
    BY <1>4, <2>2, WriteEffect DEF Answer
  <2> QED
    BY <1>4, <2>3 DEF Answer
<1>5. ASSUME NEW p \in Peer, Receive(p)
      PROVE  TypeOK'
  <2> DEFINE f == Head(wire[p])
  <2> HIDE DEF f
  <2>0. f \in Frame => f.id \in Nat /\ f.method \in Method \cup Notice
    BY DEF Frame
  <2>1. ASSUME NEW kind \in Reply, ReceiveHandled(p, f, kind)
        PROVE  TypeOK'
    <3>1. f \in Frame /\ Takes(p, f)
      BY <2>1, TakenType DEF ReceiveHandled
    <3>2. kind \in {"call", "note", "result", "error"}
      BY DEF Reply
    <3>3. FrameOf(kind, f.id, f.method, said[p]) \in Frame
      BY <2>0, <3>1, <3>2, FrameOfType
    <3>4. wire' \in [Peer -> Seq(Frame)]
      BY <2>1, <3>1, <3>3, TakeAndWriteEffect DEF ReceiveHandled
    <3> QED
      BY <2>1, <3>4 DEF ReceiveHandled
  <2>2. ASSUME ReceiveDeferred(p, f)
        PROVE  TypeOK'
    <3>1. f \in Frame /\ wire' \in [Peer -> Seq(Frame)]
      BY <2>2, TakenType, TakeEffect DEF ReceiveDeferred
    <3>2. [id |-> f.id, method |-> f.method] \in Call
      BY <2>0, <2>2, <3>1, ConnectionAssumption DEF ReceiveDeferred, Call
    <3> QED
      BY <2>2, <3>1, <3>2 DEF ReceiveDeferred
  <2>3. ASSUME ReceiveUnknown(p, f)
        PROVE  TypeOK'
    <3>1. f \in Frame /\ Takes(p, f)
      BY <2>3, TakenType DEF ReceiveUnknown
    <3>2. FrameOf("error", f.id, f.method, said[p]) \in Frame
      BY <2>0, <3>1, FrameOfType
    <3>3. wire' \in [Peer -> Seq(Frame)]
      BY <2>3, <3>1, <3>2, TakeAndWriteEffect DEF ReceiveUnknown
    <3> QED
      BY <2>3, <3>3 DEF ReceiveUnknown
  <2>4. ASSUME ReceiveNotice(p, f)
        PROVE  TypeOK'
    <3>1. wire' \in [Peer -> Seq(Frame)]
      BY <2>4, TakeEffect DEF ReceiveNotice
    <3> QED
      BY <2>4, <3>1 DEF ReceiveNotice
  <2>5. ASSUME NEW r \in pending[p], ReceiveReply(p, f, r)
        PROVE  TypeOK'
    <3>1. f \in Frame /\ wire' \in [Peer -> Seq(Frame)]
      BY <2>5, TakenType, TakeEffect DEF ReceiveReply
    <3>2. Answered(r, f, heard[p]) \in Completion
      BY <2>5, <3>1, AnsweredType DEF ReceiveReply
    <3> QED
      BY <2>5, <3>1, <3>2 DEF ReceiveReply
  <2>6. ASSUME ReceiveLate(p, f)
        PROVE  TypeOK'
    <3>1. wire' \in [Peer -> Seq(Frame)]
      BY <2>6, TakeEffect DEF ReceiveLate
    <3> QED
      BY <2>6, <3>1 DEF ReceiveLate
  <2> QED
    BY <1>5, <2>1, <2>2, <2>3, <2>4, <2>5, <2>6 DEF Receive, f
<1>6. ASSUME NEW p \in Peer, NEW S \in SUBSET pending[p], Expire(p, S)
      PROVE  TypeOK'
  <2>1. {Failed(r, "timeout", heard[p]) : r \in S} \in SUBSET Completion
    BY FailedType
  <2> QED
    BY <1>6, <2>1 DEF Expire
<1>7. ASSUME NEW p \in Peer, Hangup(p)
      PROVE  TypeOK'
  BY <1>7 DEF Hangup
<1>8. ASSUME NEW p \in Peer, StreamEnd(p)
      PROVE  TypeOK'
  <2>1. {Failed(r, "closed", heard[p]) : r \in pending[p]} \in SUBSET Completion
    BY FailedType
  <2> QED
    BY <1>8, <2>1 DEF StreamEnd
<1> QED
  BY <1>1, <1>2, <1>3, <1>4, <1>5, <1>6, <1>7, <1>8 DEF Next

\* TypeOK is an invariant of every connection (README.md:108-135).
THEOREM TypeCorrect == Spec => []TypeOK
<1>1. Init => TypeOK
  BY TypeInit
<1>2. TypeOK /\ [Next]_vars => TypeOK'
  BY TypeNext
<1> QED
  BY <1>1, <1>2, PTL DEF Spec

-----------------------------------------------------------------------------
(***************************************************************************)
(* IdsInv: what may happen to the ids of one peer.                         *)
(***************************************************************************)
\* Requests leave pending by completions that report exactly them.
LEMMA SettleIds ==
    ASSUME TypeOK, TypeOK', NEW p \in Peer, IdsInv(p),
           pending'[p] \subseteq pending[p],
           done[p] \subseteq done'[p],
           \A c \in done'[p] \ done[p] : c.req \in pending[p] \ pending'[p],
           \A r \in pending[p] \ pending'[p] : \E c \in done'[p] : c.req = r,
           \A c, d \in done'[p] \ done[p] : c.req = d.req => c = d,
           next'[p] = next[p],
           closed'[p] => pending'[p] = {}
    PROVE  IdsInv(p)' /\ Issued(p)' = Issued(p)
<1>1. Issued(p)' = Issued(p)
  BY DEF Issued
<1>2. \A c, d \in done'[p] : c.req = d.req => c = d
  BY DEF IdsInv
<1>3. \A c \in done'[p] : c.req \notin pending'[p]
  BY DEF IdsInv
<1> QED
  BY <1>1, <1>2, <1>3 DEF IdsInv

\* A new request takes the next id.
LEMMA IssueIds ==
    ASSUME TypeOK, TypeOK', NEW p \in Peer, IdsInv(p), ~closed'[p],
           NEW r \in Request, r.id = next[p] + 1,
           pending'[p] = pending[p] \cup {r},
           done'[p] = done[p],
           next'[p] = next[p] + 1
    PROVE  IdsInv(p)' /\ Issued(p)' = Issued(p) \cup {r}
<1>1. next[p] \in Nat
  BY DEF TypeOK
<1>2. Issued(p)' = Issued(p) \cup {r}
  BY DEF Issued
<1>3. {x.id : x \in Issued(p)} = 1 .. next[p]
  BY DEF IdsInv
<1>4. {x.id : x \in Issued(p)'} = {x.id : x \in Issued(p)} \cup {r.id}
  BY <1>2
<1>5. (1 .. next[p]) \cup {next[p] + 1} = 1 .. next[p] + 1
  BY <1>1
<1>6. {x.id : x \in Issued(p)'} = 1 .. next'[p]
  BY <1>3, <1>4, <1>5
<1>7. \A x \in Issued(p) : x.id # r.id
  BY <1>1, <1>3
<1>8. \A x, y \in Issued(p)' : x.id = y.id => x = y
  BY <1>2, <1>7 DEF IdsInv
<1>9. \A c \in done'[p] : c.req \notin pending'[p]
  BY <1>7 DEF IdsInv, Issued
<1> QED
  BY <1>2, <1>6, <1>8, <1>9 DEF IdsInv

\* Nothing an engine remembers changes.
LEMMA KeepIds ==
    ASSUME NEW p \in Peer, IdsInv(p),
           pending'[p] = pending[p], done'[p] = done[p],
           next'[p] = next[p], closed'[p] = closed[p]
    PROVE  IdsInv(p)' /\ Issued(p)' = Issued(p)
BY DEF IdsInv, Issued

-----------------------------------------------------------------------------
(***************************************************************************)
(* Streams, position by position.                                          *)
(***************************************************************************)
\* t is s with one more frame g, at z.
Appended(s, t, g, z) ==
    /\ z \notin DOMAIN s
    /\ DOMAIN t = DOMAIN s \cup {z}
    /\ \A k \in DOMAIN s : t[k] = s[k]
    /\ t[z] = g

\* t is s without its first frame: what is at k was at at[k].
Dropped(s, t, at) ==
    /\ 1 \in DOMAIN s
    /\ \A k \in DOMAIN t : at[k] \in DOMAIN s /\ at[k] # 1 /\ t[k] = s[at[k]]
    /\ \A j, k \in DOMAIN t : at[j] = at[k] => j = k
    /\ \A k \in DOMAIN s : k # 1 => \E j \in DOMAIN t : at[j] = k

\* The frames of t of the kinds K are those of s, d places further on.
Moved(s, t, d, K) ==
    /\ \A k \in DOMAIN t : t[k].kind \in K => k + d \in DOMAIN s /\ t[k] = s[k + d]
    /\ \A k \in DOMAIN s : s[k].kind \in K => k - d \in DOMAIN t /\ t[k - d] = s[k]

LEMMA AppendedLemma ==
    ASSUME NEW s \in Seq(Frame), NEW g \in Frame
    PROVE  Appended(s, Append(s, g), g, Len(s) + 1)
BY AppendProperties, LenProperties DEF Appended

LEMMA DroppedLemma ==
    ASSUME NEW s \in Seq(Frame), s # << >>
    PROVE  Dropped(s, Tail(s), [k \in DOMAIN Tail(s) |-> k + 1])
<1>1. /\ Len(s) \in Nat /\ Len(s) # 0 /\ DOMAIN s = 1 .. Len(s)
      /\ DOMAIN Tail(s) = 1 .. Len(s) - 1
      /\ \A k \in 1 .. Len(s) - 1 : Tail(s)[k] = s[k + 1]
  BY HeadTailProperties, LenProperties, EmptySeq
<1>2. \A k \in DOMAIN s : k # 1 => k - 1 \in DOMAIN Tail(s) /\ (k - 1) + 1 = k
  BY <1>1
<1> QED
  BY <1>1, <1>2 DEF Dropped

LEMMA MovedSame ==
    ASSUME NEW s \in Seq(Frame), NEW K
    PROVE  Moved(s, s, 0, K)
BY LenProperties DEF Moved

LEMMA MovedAppended ==
    ASSUME NEW s \in Seq(Frame), NEW g \in Frame, NEW K, g.kind \notin K,
           NEW t, NEW z, Appended(s, t, g, z), z \in Nat
    PROVE  Moved(s, t, 0, K)
BY LenProperties DEF Moved, Appended

LEMMA MovedDropped ==
    ASSUME NEW s \in Seq(Frame), s # << >>, NEW K, s[1].kind \notin K
    PROVE  Moved(s, Tail(s), 1, K)
<1>1. /\ Len(s) \in Nat /\ Len(s) # 0 /\ DOMAIN s = 1 .. Len(s)
      /\ DOMAIN Tail(s) = 1 .. Len(s) - 1
      /\ \A k \in 1 .. Len(s) - 1 : Tail(s)[k] = s[k + 1]
  BY HeadTailProperties, LenProperties, EmptySeq
<1>2. \A k \in DOMAIN s : k # 1 => k - 1 \in DOMAIN Tail(s) /\ (k - 1) + 1 = k
  BY <1>1
<1> QED
  BY <1>1, <1>2 DEF Moved

-----------------------------------------------------------------------------
(***************************************************************************)
(* The parts of the invariant that follow the requests of one peer through *)
(* the streams, and the ways in which a step can disturb them.             *)
(***************************************************************************)
Traces(p) == NamesInv(p) /\ UniqueInv(p) /\ ApartInv(p) /\ SpentInv(p) /\ FoundInv(p)

\* The step leaves p's traces where they were; requests may fail without one.
LEMMA KeepTraces ==
    ASSUME TypeOK, TypeOK', NEW p \in Peer, NEW q, q = Other(p), Traces(p),
           NEW d \in Int, Moved(wire[q], wire'[q], d, {"call"}),
           NEW e \in Int, Moved(wire[p], wire'[p], e, Reply),
           owed'[q] = owed[q],
           pending'[p] \subseteq pending[p],
           \A c \in done'[p] : c \in done[p]
                               \/ (c.outcome \notin Reply /\ c.shape = c.req.method),
           Issued(p)' = Issued(p), next'[p] = next[p],
           Running(p)' => Running(p), Running(q)' => Running(q)
    PROVE  Traces(p)'
<1>0. /\ DOMAIN wire[q] \subseteq Int /\ DOMAIN wire'[q] \subseteq Int
      /\ DOMAIN wire[p] \subseteq Int /\ DOMAIN wire'[p] \subseteq Int
  <2>1. /\ wire[q] \in Seq(Frame) /\ wire'[q] \in Seq(Frame)
        /\ wire[p] \in Seq(Frame) /\ wire'[p] \in Seq(Frame)
    BY OtherPeer DEF TypeOK
  <2> QED
    BY <2>1, LenProperties
<1>1. \A i, m : Names(p, i, m) => Names(p, i, m)'
  BY DEF Names
<1>3. NamesInv(p)'
  BY <1>1 DEF NamesInv, Traces, Moved
<1>4. UniqueInv(p)'
  <2>1. \A j, k \in DOMAIN wire'[q] :
            wire'[q][j].kind = "call" /\ IsCall(wire'[q][k], wire'[q][j].id) => j = k
    BY <1>0 DEF UniqueInv, Traces, IsCall, Moved
  <2>2. \A j, k \in DOMAIN wire'[p] :
            wire'[p][j].kind \in Reply /\ IsReply(wire'[p][k], wire'[p][j].id) => j = k
    BY <1>0 DEF UniqueInv, Traces, IsReply, Moved
  <2> QED
    BY <2>1, <2>2 DEF UniqueInv, Traces
<1>5. ApartInv(p)'
  BY DEF ApartInv, Traces, IsCall, IsReply, Moved
<1>6. SpentInv(p)'
  BY DEF SpentInv, Traces, IsCall, IsReply, Moved
<1>7. FoundInv(p)'
  BY DEF FoundInv, Traces, IsCall, IsReply, Moved
<1> QED
  BY <1>3, <1>4, <1>5, <1>6, <1>7 DEF Traces

\* p issues a request: its call goes to the other side.
LEMMA IssueTraces ==
    ASSUME TypeOK, NEW p \in Peer, NEW q, q = Other(p), IdsInv(p), Traces(p),
           NEW r \in Request, r.id = next[p] + 1,
           NEW g \in Frame, g.kind = "call", g.id = r.id, g.method = r.method,
           NEW z, Appended(wire[q], wire'[q], g, z), wire'[p] = wire[p],
           owed'[q] = owed[q],
           pending'[p] = pending[p] \cup {r}, done'[p] = done[p],
           Issued(p)' = Issued(p) \cup {r}, next'[p] = next[p] + 1,
           alive' = alive, closed' = closed
    PROVE  Traces(p)'
<1>0. next[p] \in Nat
  BY DEF TypeOK
<1> USE DEF Appended
<1>1. \A i, m : Names(p, i, m) => i # r.id /\ Names(p, i, m)'
  BY <1>0 DEF Names
<1>2. Names(p, g.id, g.method)'
  BY <1>0, <1>1 DEF Names, IdsInv
<1>a. \A k \in DOMAIN wire[q] : ~IsCall(wire[q][k], r.id)
  BY <1>0, <1>1 DEF NamesInv, Traces, IsCall
<1>b. \A c \in owed[q] : c.id # r.id
  BY <1>1 DEF NamesInv, Traces
<1>c. \A k \in DOMAIN wire[p] : ~IsReply(wire[p][k], r.id)
  BY <1>1 DEF NamesInv, Traces, IsReply
<1>d. \A c \in done[p] : c.req.id # r.id
  <2>1. \A x \in Issued(p) : x.id \in 1 .. next[p]
    BY DEF IdsInv
  <2> QED
    BY <1>0, <2>1 DEF Issued
<1>3. NamesInv(p)'
  BY <1>0, <1>1, <1>2 DEF NamesInv, Traces
<1>4. UniqueInv(p)'
  BY <1>0, <1>1 DEF UniqueInv, NamesInv, Traces, IsCall, IsReply
<1>5. ApartInv(p)'
  BY <1>0, <1>b, <1>c DEF ApartInv, Traces, IsCall, IsReply
<1>6. SpentInv(p)'
  BY <1>0, <1>d DEF SpentInv, Traces, IsCall, IsReply
<1>7. FoundInv(p)'
  BY <1>0 DEF FoundInv, Traces, IsCall, IsReply, Running
<1> QED
  BY <1>3, <1>4, <1>5, <1>6, <1>7 DEF Traces

\* The other side takes p's call f and owes its answer.
LEMMA DeferTraces ==
    ASSUME TypeOK, TypeOK', NEW p \in Peer, NEW q, q = Other(p), Traces(p),
           NEW f, f = wire[q][1], wire[q] # << >>, f.kind = "call",
           NEW at, Dropped(wire[q], wire'[q], at), wire'[p] = wire[p],
           NEW c, c.id = f.id, c.method = f.method,
           owed'[q] = owed[q] \cup {c},
           pending'[p] = pending[p], done'[p] = done[p], next'[p] = next[p],
           alive' = alive, closed' = closed
    PROVE  Traces(p)'
<1> USE DEF Dropped, Appended
<1>1. Issued(p)' = Issued(p)
  BY DEF Issued
<1>2. \A i, m : Names(p, i, m) => Names(p, i, m)'
  BY <1>1 DEF Names
<1>3. Names(p, f.id, f.method)'
  BY <1>2 DEF NamesInv, Traces
<1>4. \A k \in DOMAIN wire'[q] : ~IsCall(wire'[q][k], c.id)
  BY DEF UniqueInv, Traces, IsCall
<1>5. \A k \in DOMAIN wire[p] : ~IsReply(wire[p][k], c.id)
  BY DEF ApartInv, Traces, IsCall, IsReply
<1>6. \A x \in owed[q] : x.id # c.id
  BY DEF ApartInv, Traces, IsCall
<1>7. NamesInv(p)'
  BY <1>2, <1>3 DEF NamesInv, Traces
<1>8. UniqueInv(p)'
  BY <1>6 DEF UniqueInv, Traces, IsCall, IsReply
<1>9. ApartInv(p)'
  BY <1>4, <1>5 DEF ApartInv, Traces, IsCall, IsReply
<1>10. SpentInv(p)'
  BY DEF SpentInv, Traces, IsCall, IsReply
<1>11. FoundInv(p)'
  BY DEF FoundInv, Traces, IsCall, IsReply, Running
<1> QED
  BY <1>7, <1>8, <1>9, <1>10, <1>11 DEF Traces

\* The other side takes p's call f and answers it at once with g.
LEMMA HandleTraces ==
    ASSUME TypeOK, TypeOK', NEW p \in Peer, NEW q, q = Other(p), Traces(p),
           NEW f, f = wire[q][1], wire[q] # << >>, f.kind = "call",
           NEW g \in Frame, g.kind \in Reply, g.id = f.id, g.method = f.method,
           NEW at, Dropped(wire[q], wire'[q], at), NEW z, Appended(wire[p], wire'[p], g, z),
           owed'[q] = owed[q],
           pending'[p] = pending[p], done'[p] = done[p], next'[p] = next[p],
           alive' = alive, closed' = closed
    PROVE  Traces(p)'
<1> USE DEF Dropped, Appended
<1>1. Issued(p)' = Issued(p)
  BY DEF Issued
<1>2. \A i, m : Names(p, i, m) => Names(p, i, m)'
  BY <1>1 DEF Names
<1>3. Names(p, g.id, g.method)'
  BY <1>2 DEF NamesInv, Traces
<1>4. \A k \in DOMAIN wire'[q] : ~IsCall(wire'[q][k], g.id)
  BY DEF UniqueInv, Traces, IsCall
<1>5. \A k \in DOMAIN wire[p] : ~IsReply(wire[p][k], g.id)
  BY DEF ApartInv, Traces, IsCall, IsReply
<1>6. \A x \in owed[q] : x.id # g.id
  BY DEF ApartInv, Traces, IsCall
<1>7. NamesInv(p)'
  BY <1>2, <1>3 DEF NamesInv, Traces
<1>8. UniqueInv(p)'
  BY <1>5 DEF UniqueInv, Traces, IsCall, IsReply
<1>9. ApartInv(p)'
  BY <1>4, <1>6 DEF ApartInv, Traces, IsCall, IsReply
<1>10. SpentInv(p)'
  BY DEF SpentInv, Traces, IsCall, IsReply
<1>11. FoundInv(p)'
  BY DEF FoundInv, Traces, IsCall, IsReply, Running
<1> QED
  BY <1>7, <1>8, <1>9, <1>10, <1>11 DEF Traces

\* The other side answers p's call c, which it owed, with g.
LEMMA AnswerTraces ==
    ASSUME TypeOK, TypeOK', NEW p \in Peer, NEW q, q = Other(p), Traces(p),
           NEW c \in owed[q],
           NEW g \in Frame, g.kind \in Reply, g.id = c.id, g.method = c.method,
           wire'[q] = wire[q], NEW z, Appended(wire[p], wire'[p], g, z),
           owed'[q] = owed[q] \ {c},
           pending'[p] = pending[p], done'[p] = done[p], next'[p] = next[p],
           alive' = alive, closed' = closed
    PROVE  Traces(p)'
<1> USE DEF Appended
<1>1. Issued(p)' = Issued(p)
  BY DEF Issued
<1>2. \A i, m : Names(p, i, m) => Names(p, i, m)'
  BY <1>1 DEF Names
<1>3. Names(p, g.id, g.method)'
  BY <1>2 DEF NamesInv, Traces
<1>4. \A k \in DOMAIN wire[q] : ~IsCall(wire[q][k], g.id)
  BY DEF ApartInv, Traces, IsCall
<1>5. \A k \in DOMAIN wire[p] : ~IsReply(wire[p][k], g.id)
  BY DEF ApartInv, Traces, IsReply
<1>6. \A x \in owed'[q] : x.id # g.id
  BY DEF UniqueInv, Traces
<1>7. NamesInv(p)'
  BY <1>2, <1>3 DEF NamesInv, Traces
<1>8. UniqueInv(p)'
  BY <1>5 DEF UniqueInv, Traces, IsCall, IsReply
<1>9. ApartInv(p)'
  BY <1>4, <1>6 DEF ApartInv, Traces, IsCall, IsReply
<1>10. SpentInv(p)'
  BY DEF SpentInv, Traces, IsCall, IsReply
<1>11. FoundInv(p)'
  BY DEF FoundInv, Traces, IsCall, IsReply, Running
<1> QED
  BY <1>7, <1>8, <1>9, <1>10, <1>11 DEF Traces

\* p takes a reply f, which completes a request or comes too late.
LEMMA ConsumeTraces ==
    ASSUME TypeOK, TypeOK', NEW p \in Peer, NEW q, q = Other(p), Traces(p),
           NEW f, f = wire[p][1], wire[p] # << >>, f.kind \in Reply,
           NEW at, Dropped(wire[p], wire'[p], at), wire'[q] = wire[q], owed'[q] = owed[q],
           pending'[p] \subseteq pending[p],
           \A r \in pending'[p] : r.id # f.id,
           \A d \in done'[p] : d \in done[p]
                               \/ (d.req.id = f.id /\ d.shape = d.req.method),
           Issued(p)' = Issued(p), next'[p] = next[p],
           alive' = alive, closed' = closed
    PROVE  Traces(p)'
<1> USE DEF Dropped, Appended
<1>2. \A i, m : Names(p, i, m) => Names(p, i, m)'
  BY DEF Names
<1>4. \A k \in DOMAIN wire'[p] : ~IsReply(wire'[p][k], f.id)
  BY DEF UniqueInv, Traces, IsReply
<1>5. \A k \in DOMAIN wire[q] : ~IsCall(wire[q][k], f.id)
  BY DEF ApartInv, Traces, IsCall, IsReply
<1>6. \A c \in owed[q] : c.id # f.id
  BY DEF ApartInv, Traces, IsReply
<1>7. NamesInv(p)'
  BY <1>2 DEF NamesInv, Traces
<1>8. UniqueInv(p)'
  BY DEF UniqueInv, Traces, IsCall, IsReply
<1>9. ApartInv(p)'
  BY DEF ApartInv, Traces, IsCall, IsReply
<1>10. SpentInv(p)'
  BY <1>4, <1>5, <1>6 DEF SpentInv, Traces, IsCall, IsReply
<1>11. FoundInv(p)'
  BY DEF FoundInv, Traces, IsCall, IsReply, Running
<1> QED
  BY <1>7, <1>8, <1>9, <1>10, <1>11 DEF Traces

-----------------------------------------------------------------------------
(***************************************************************************)
(* StampInv: the order of one stream.                                      *)
(***************************************************************************)
LEMMA KeepStamp ==
    ASSUME NEW p \in Peer, StampInv(p), wire'[p] = wire[p],
           heard'[p] = heard[p], said'[Other(p)] = said[Other(p)],
           \A d \in done'[p] : d \in done[p] \/ d.outcome \notin Reply
    PROVE  StampInv(p)'
BY DEF StampInv, Stamp

LEMMA AppendStamp ==
    ASSUME TypeOK, NEW p \in Peer, NEW q, q = Other(p), StampInv(p),
           NEW g \in Frame, wire'[p] = Append(wire[p], g),
           g.sent = said'[q],
           said'[q] = said[q] + (IF g.kind = "note" THEN 1 ELSE 0),
           heard'[p] = heard[p], done'[p] = done[p]
    PROVE  StampInv(p)'
<1> SUFFICES ASSUME NEW n \in Nat, n = Len(wire[p])
             PROVE  StampInv(p)'
  BY LenProperties DEF TypeOK
<1>1. /\ n \in Nat /\ DOMAIN wire[p] = 1 .. n
      /\ Len(wire'[p]) = n + 1 /\ DOMAIN wire'[p] = 1 .. n + 1
      /\ \A k \in 1 .. n : wire'[p][k] = wire[p][k]
      /\ wire'[p][n + 1] = g
  BY AppendProperties, LenProperties DEF TypeOK
<1>2. \A k \in 0 .. n : Stamp(p, k)' = Stamp(p, k)
  BY <1>1 DEF Stamp
<1>3. Stamp(p, n + 1)' = said'[q]
  BY <1>1 DEF Stamp
<1>4. Stamp(p, n) = said[q]
  BY DEF StampInv
<1>5. ASSUME NEW k \in DOMAIN wire'[p]
      PROVE  Stamp(p, k)' = Stamp(p, k - 1)'
                              + (IF wire'[p][k].kind = "note" THEN 1 ELSE 0)
  <2>1. CASE k = n + 1
    BY <1>1, <1>2, <1>3, <1>4, <2>1
  <2>2. CASE k \in 1 .. n
    BY <1>1, <1>2, <2>2 DEF StampInv
  <2> QED
    BY <1>1, <2>1, <2>2
<1> QED
  BY <1>1, <1>3, <1>5 DEF StampInv

LEMMA DropStamp ==
    ASSUME TypeOK, NEW p \in Peer, NEW q, q = Other(p), StampInv(p),
           NEW f, f = wire[p][1], wire[p] # << >>, wire'[p] = Tail(wire[p]),
           heard'[p] = heard[p] + (IF f.kind = "note" THEN 1 ELSE 0),
           said'[q] = said[q],
           \A d \in done'[p] : \/ d \in done[p]
                               \/ d.sent = f.sent /\ d.heard = heard'[p]
    PROVE  StampInv(p)'
<1> SUFFICES ASSUME NEW n \in Nat, n = Len(wire[p])
             PROVE  StampInv(p)'
  BY LenProperties DEF TypeOK
<1>1. /\ n \in Nat /\ n # 0 /\ DOMAIN wire[p] = 1 .. n
      /\ Len(wire'[p]) = n - 1 /\ DOMAIN wire'[p] = 1 .. n - 1
      /\ \A k \in 1 .. n - 1 : wire'[p][k] = wire[p][k + 1]
  BY HeadTailProperties, LenProperties, EmptySeq DEF TypeOK
<1>2. f.sent = heard'[p]
  BY <1>1 DEF StampInv, Stamp
<1>3. \A k \in 0 .. n - 1 : Stamp(p, k)' = Stamp(p, k + 1)
  BY <1>1, <1>2 DEF Stamp
<1>4. Stamp(p, n - 1)' = said'[q]
  BY <1>1, <1>3 DEF StampInv
<1>5. ASSUME NEW k \in DOMAIN wire'[p]
      PROVE  Stamp(p, k)' = Stamp(p, k - 1)'
                              + (IF wire'[p][k].kind = "note" THEN 1 ELSE 0)
  BY <1>1, <1>3 DEF StampInv
<1> QED
  BY <1>1, <1>2, <1>4, <1>5 DEF StampInv

-----------------------------------------------------------------------------
(***************************************************************************)
(* The inductive invariant, seen from one peer, and the steps it survives. *)
(***************************************************************************)
Good(p) == IdsInv(p) /\ Traces(p) /\ StampInv(p)

LEMMA GoodIsIInv == IInv <=> TypeOK /\ \A p \in Peer : Good(p)
BY DEF IInv, Good, Traces

LEMMA BothGood ==
    ASSUME NEW p \in Peer, Good(p)', Good(Other(p))'
    PROVE  \A x \in Peer : Good(x)'
BY OtherPeer

\* p writes a frame that is not a reply and takes none: what q follows stays.
LEMMA WrittenTo ==
    ASSUME TypeOK, TypeOK', NEW p \in Peer, NEW q, q = Other(p), Good(q),
           NEW g \in Frame, g.kind \notin Reply, wire'[q] = Append(wire[q], g),
           wire'[p] = wire[p],
           g.sent = said'[p],
           said'[p] = said[p] + (IF g.kind = "note" THEN 1 ELSE 0),
           heard'[q] = heard[q], owed'[p] = owed[p],
           pending'[q] = pending[q], done'[q] = done[q], next'[q] = next[q],
           alive' = alive, closed' = closed
    PROVE  Good(q)'
<1>1. q \in Peer /\ Other(q) = p
  BY OtherPeer
<1>2. wire[q] \in Seq(Frame) /\ wire[p] \in Seq(Frame) /\ Len(wire[q]) \in Nat
  BY <1>1, LenProperties DEF TypeOK
<1>3. IdsInv(q)' /\ Issued(q)' = Issued(q)
  BY <1>1, KeepIds DEF Good
<1>4. Moved(wire[p], wire'[p], 0, {"call"})
  BY <1>2, MovedSame
<1>5. Appended(wire[q], wire'[q], g, Len(wire[q]) + 1)
  BY <1>2, AppendedLemma
<1>6. Moved(wire[q], wire'[q], 0, Reply)
  BY <1>2, <1>5, MovedAppended
<1>7. Traces(q)'
  <2>1. (Running(p)' => Running(p)) /\ (Running(q)' => Running(q))
    BY DEF Running
  <2>2. 0 \in Int /\ Traces(q)
    BY DEF Good
  <2> QED
    BY <1>1, <1>3, <1>4, <1>6, <2>1, <2>2, KeepTraces
<1>8. StampInv(q)'
  BY <1>1, AppendStamp DEF Good
<1> QED
  BY <1>3, <1>7, <1>8 DEF Good

\* p writes a frame that is not a call: what p itself follows stays.
LEMMA WrittenBy ==
    ASSUME TypeOK, TypeOK', NEW p \in Peer, NEW q, q = Other(p), Good(p),
           NEW g \in Frame, g.kind # "call", wire'[q] = Append(wire[q], g),
           wire'[p] = wire[p], said'[q] = said[q],
           heard'[p] = heard[p], owed'[q] = owed[q],
           pending'[p] = pending[p], done'[p] = done[p], next'[p] = next[p],
           alive' = alive, closed' = closed
    PROVE  Good(p)'
<1>1. q \in Peer
  BY OtherPeer
<1>2. wire[q] \in Seq(Frame) /\ wire[p] \in Seq(Frame) /\ Len(wire[q]) \in Nat
  BY <1>1, LenProperties DEF TypeOK
<1>3. IdsInv(p)' /\ Issued(p)' = Issued(p)
  BY KeepIds DEF Good
<1>4. Moved(wire[p], wire'[p], 0, Reply)
  BY <1>2, MovedSame
<1>5. Appended(wire[q], wire'[q], g, Len(wire[q]) + 1)
  BY <1>2, AppendedLemma
<1>6. Moved(wire[q], wire'[q], 0, {"call"})
  <2>1. g.kind \notin {"call"} /\ Len(wire[q]) + 1 \in Nat
    BY <1>2
  <2> QED
    BY <1>2, <1>5, <2>1, MovedAppended
<1>7. Traces(p)'
  <2>1. (Running(p)' => Running(p)) /\ (Running(q)' => Running(q))
    BY DEF Running
  <2>2. 0 \in Int /\ Traces(p)
    BY DEF Good
  <2> QED
    BY <1>1, <1>3, <1>4, <1>6, <2>1, <2>2, KeepTraces
<1>8. StampInv(p)'
  BY KeepStamp DEF Good
<1> QED
  BY <1>3, <1>7, <1>8 DEF Good

\* p takes a frame that is not a call and writes none: what q follows stays.
LEMMA TakenFrom ==
    ASSUME TypeOK, TypeOK', NEW p \in Peer, NEW q, q = Other(p), Good(q),
           NEW f, Takes(p, f), f.kind # "call", wire'[p] = Tail(wire[p]),
           wire'[q] = wire[q], said'[p] = said[p],
           heard'[q] = heard[q], owed'[p] = owed[p],
           pending'[q] = pending[q], done'[q] = done[q], next'[q] = next[q],
           alive' = alive, closed' = closed
    PROVE  Good(q)'
<1>1. q \in Peer /\ Other(q) = p
  BY OtherPeer
<1>2. /\ wire[q] \in Seq(Frame) /\ wire[p] \in Seq(Frame)
      /\ wire[p] # << >> /\ f = wire[p][1]
  BY <1>1, TakenType DEF TypeOK
<1>3. IdsInv(q)' /\ Issued(q)' = Issued(q)
  BY <1>1, KeepIds DEF Good
<1>4. Moved(wire[p], wire'[p], 1, {"call"})
  BY <1>2, MovedDropped
<1>6. Moved(wire[q], wire'[q], 0, Reply)
  BY <1>2, MovedSame
<1>7. Traces(q)'
  BY <1>1, <1>3, <1>4, <1>6, KeepTraces DEF Good, Running
<1>8. StampInv(q)'
  BY <1>1, KeepStamp DEF Good
<1> QED
  BY <1>3, <1>7, <1>8 DEF Good

\* p takes a frame that is not a reply and may write one that is not a call:
\* what p itself follows stays.
LEMMA TakenBy ==
    ASSUME TypeOK, TypeOK', NEW p \in Peer, NEW q, q = Other(p), Good(p),
           NEW f, Takes(p, f), f.kind \notin Reply, wire'[p] = Tail(wire[p]),
           \/ wire'[q] = wire[q]
           \/ \E g \in Frame : g.kind # "call" /\ wire'[q] = Append(wire[q], g),
           heard'[p] = heard[p] + (IF f.kind = "note" THEN 1 ELSE 0),
           said'[q] = said[q], owed'[q] = owed[q],
           pending'[p] = pending[p], done'[p] = done[p], next'[p] = next[p],
           alive' = alive, closed' = closed
    PROVE  Good(p)'
<1>1. q \in Peer
  BY OtherPeer
<1>2. /\ wire[q] \in Seq(Frame) /\ wire[p] \in Seq(Frame) /\ Len(wire[q]) \in Nat
      /\ wire[p] # << >> /\ f = wire[p][1]
  BY <1>1, TakenType, LenProperties DEF TypeOK
<1>3. IdsInv(p)' /\ Issued(p)' = Issued(p)
  BY KeepIds DEF Good
<1>4. Moved(wire[p], wire'[p], 1, Reply)
  BY <1>2, MovedDropped
<1>5. ASSUME NEW g \in Frame, g.kind # "call", wire'[q] = Append(wire[q], g)
      PROVE  Moved(wire[q], wire'[q], 0, {"call"})
  <2>1. Appended(wire[q], wire'[q], g, Len(wire[q]) + 1)
    BY <1>2, <1>5, AppendedLemma
  <2>2. g.kind \notin {"call"} /\ Len(wire[q]) + 1 \in Nat
    BY <1>2, <1>5
  <2> QED
    BY <1>2, <2>1, <2>2, MovedAppended
<1>6. Moved(wire[q], wire'[q], 0, {"call"})
  BY <1>2, <1>5, MovedSame
<1>7. Traces(p)'
  BY <1>3, <1>4, <1>6, KeepTraces DEF Good, Running
<1>8. StampInv(p)'
  BY <1>2, DropStamp DEF Good
<1> QED
  BY <1>3, <1>7, <1>8 DEF Good

\* Requests of p fail without a frame, or p hangs up.
LEMMA Settled ==
    ASSUME TypeOK, TypeOK', NEW p \in Peer, Good(p), wire' = wire,
           owed' = owed, said' = said, heard' = heard,
           \A x \in Peer : Running(x)' => Running(x),
           NEW S \in SUBSET pending[p], NEW why \in {"timeout", "closed"},
           pending'[p] = pending[p] \ S,
           done'[p] = done[p] \cup {Failed(r, why, heard[p]) : r \in S},
           next'[p] = next[p],
           closed[p]' => closed[p] \/ pending'[p] = {}
    PROVE  Good(p)'
<1> DEFINE F == {Failed(r, why, heard[p]) : r \in S}
<1>1. \A c \in F : /\ c.req \in S
                   /\ c.outcome \notin Reply
                   /\ c.shape = c.req.method
                   /\ c = Failed(c.req, why, heard[p])
  BY FailedType DEF TypeOK, Reply
<1>2. \A r \in S : \E c \in F : c.req = r
  BY FailedType DEF TypeOK
<1> HIDE DEF F
<1>3. done'[p] = done[p] \cup F
  BY DEF F
<1>4. IdsInv(p)' /\ Issued(p)' = Issued(p)
  <2>1. IdsInv(p) /\ (closed'[p] => pending'[p] = {})
    BY DEF Good, IdsInv
  <2>2. /\ pending'[p] \subseteq pending[p]
        /\ done[p] \subseteq done'[p]
    BY <1>3
  <2>3. \A c \in done'[p] \ done[p] : c.req \in pending[p] \ pending'[p]
    BY <1>1, <1>3
  <2>4. \A r \in pending[p] \ pending'[p] : \E c \in done'[p] : c.req = r
    BY <1>2, <1>3
  <2>5. \A c, d \in done'[p] \ done[p] : c.req = d.req => c = d
    BY <1>1, <1>3
  <2> QED
    BY <2>1, <2>2, <2>3, <2>4, <2>5, SettleIds
<1>5. /\ Moved(wire[p], wire'[p], 0, Reply)
      /\ Moved(wire[Other(p)], wire'[Other(p)], 0, {"call"})
  BY OtherPeer, MovedSame DEF TypeOK
<1>6. Traces(p)'
  BY <1>1, <1>3, <1>4, <1>5, OtherPeer, KeepTraces DEF Good
<1>7. StampInv(p)'
  BY <1>1, <1>3, KeepStamp DEF Good
<1> QED
  BY <1>4, <1>6, <1>7 DEF Good

\* Nothing of p's changes, except that somebody may have stopped.
LEMMA Unmoved ==
    ASSUME TypeOK, TypeOK', NEW p \in Peer, Good(p), wire' = wire,
           owed' = owed, said' = said, heard' = heard,
           \A x \in Peer : Running(x)' => Running(x),
           pending'[p] = pending[p], done'[p] = done[p], next'[p] = next[p],
           closed'[p] = closed[p]
    PROVE  Good(p)'
<1>1. IdsInv(p)' /\ Issued(p)' = Issued(p)
  BY KeepIds DEF Good
<1>2. /\ Moved(wire[p], wire'[p], 0, Reply)
      /\ Moved(wire[Other(p)], wire'[Other(p)], 0, {"call"})
  BY OtherPeer, MovedSame DEF TypeOK
<1>3. Traces(p)'
  BY <1>1, <1>2, OtherPeer, KeepTraces DEF Good
<1>4. StampInv(p)'
  BY KeepStamp DEF Good
<1> QED
  BY <1>1, <1>3, <1>4 DEF Good

-----------------------------------------------------------------------------
(***************************************************************************)
(* One lemma per action.                                                   *)
(***************************************************************************)
LEMMA StepSendRequest ==
    ASSUME TypeOK, TypeOK', NEW p \in Peer, Good(p), Good(Other(p)),
           NEW m \in Method, NEW timed \in BOOLEAN, SendRequest(p, m, timed)
    PROVE  \A x \in Peer : Good(x)'
<1> DEFINE q == Other(p)
           r == [id |-> next[p] + 1, method |-> m, timed |-> timed]
           g == FrameOf("call", r.id, m, said[p])
<1>1. q \in Peer /\ q # p /\ Other(q) = p
  BY OtherPeer
<1>2. r \in Request /\ r.id = next[p] + 1 /\ r.method = m
  BY DEF TypeOK, Request
<1>3. /\ g \in Frame /\ g.kind = "call" /\ g.id = r.id /\ g.method = r.method
      /\ g.sent = said[p]
  <2>1. r.id \in Nat /\ said[p] \in Nat /\ m \in Method \cup Notice
    BY <1>2 DEF TypeOK
  <2> QED
    BY <1>2, <2>1, FrameOfType
<1>4. /\ Write(p, g)
      /\ Running(p)
      /\ pending'[p] = pending[p] \cup {r} /\ next'[p] = next[p] + 1
      /\ pending'[q] = pending[q] /\ next'[q] = next[q]
      /\ UNCHANGED <<done, owed, said, heard, alive, closed>>
  BY <1>1 DEF SendRequest, TypeOK
<1> HIDE DEF q, r, g
<1>5. wire'[q] = Append(wire[q], g) /\ wire'[p] = wire[p]
  BY <1>3, <1>4, WriteEffect DEF q
<1>6. Good(q)'
  <2>1. g.kind \notin Reply /\ g.kind # "note" /\ said[p] \in Nat
    BY <1>3 DEF Reply, TypeOK
  <2>2. said'[p] = said[p] + (IF g.kind = "note" THEN 1 ELSE 0)
    BY <1>4, <2>1
  <2> QED
    BY <1>1, <1>3, <1>4, <1>5, <2>1, <2>2, WrittenTo DEF q
<1>7. IdsInv(p)' /\ Issued(p)' = Issued(p) \cup {r}
  <2>1. ~closed'[p]
    BY <1>4 DEF Running
  <2> QED
    BY <1>2, <1>4, <2>1, IssueIds DEF Good
<1>8. Traces(p)'
  <2>1. Appended(wire[q], wire'[q], g, Len(wire[q]) + 1)
    BY <1>1, <1>3, <1>5, AppendedLemma DEF TypeOK
  <2>2. IdsInv(p) /\ Traces(p)
    BY DEF Good
  <2> QED
    BY <1>2, <1>3, <1>4, <1>5, <1>7, <2>1, <2>2, IssueTraces DEF q
<1>9. StampInv(p)'
  BY <1>4, <1>5, KeepStamp DEF Good
<1> QED
  BY <1>6, <1>7, <1>8, <1>9, BothGood DEF Good, q

LEMMA StepSendNotice ==
    ASSUME TypeOK, TypeOK', NEW p \in Peer, Good(p), Good(Other(p)),
           NEW n \in Notice, SendNotice(p, n)
    PROVE  \A x \in Peer : Good(x)'
<1> DEFINE q == Other(p)
           g == FrameOf("note", 0, n, said[p] + 1)
<1>1. q \in Peer /\ q # p /\ Other(q) = p
  BY OtherPeer
<1>2. g \in Frame /\ g.kind = "note" /\ g.sent = said[p] + 1
  <2>1. 0 \in Nat /\ said[p] + 1 \in Nat /\ n \in Method \cup Notice
    BY DEF TypeOK
  <2> QED
    BY <2>1, FrameOfType
<1>3. /\ Write(p, g)
      /\ said'[p] = said[p] + 1 /\ said'[q] = said[q]
      /\ UNCHANGED <<next, pending, done, owed, heard, alive, closed>>
  BY <1>1 DEF SendNotice, TypeOK
<1> HIDE DEF q, g
<1>4. wire'[q] = Append(wire[q], g) /\ wire'[p] = wire[p]
  BY <1>2, <1>3, WriteEffect DEF q
<1>5. g.kind \notin Reply /\ g.kind # "call"
  BY <1>2 DEF Reply
<1>6. Good(q)'
  BY <1>1, <1>2, <1>3, <1>4, <1>5, WrittenTo DEF q
<1>7. Good(p)'
  BY <1>1, <1>2, <1>3, <1>4, <1>5, WrittenBy DEF q
<1> QED
  BY <1>6, <1>7, BothGood DEF q

LEMMA StepAnswer ==
    ASSUME TypeOK, TypeOK', NEW p \in Peer, Good(p), Good(Other(p)),
           NEW c \in owed[p], Answer(p, c)
    PROVE  \A x \in Peer : Good(x)'
<1> DEFINE q == Other(p)
           g == FrameOf("result", c.id, c.method, said[p])
<1>1. q \in Peer /\ q # p /\ Other(q) = p
  BY OtherPeer
<1>2. /\ g \in Frame /\ g.kind = "result" /\ g.id = c.id /\ g.method = c.method
      /\ g.sent = said[p]
  <2>1. c.id \in Nat /\ c.method \in Method \cup Notice /\ said[p] \in Nat
    BY DEF TypeOK, Call
  <2> QED
    BY <2>1, FrameOfType
<1>3. /\ Write(p, g)
      /\ owed'[p] = owed[p] \ {c} /\ owed'[q] = owed[q]
      /\ UNCHANGED <<next, pending, done, said, heard, alive, closed>>
  BY <1>1 DEF Answer, TypeOK
<1> HIDE DEF q, g
<1>4. wire'[q] = Append(wire[q], g) /\ wire'[p] = wire[p]
  BY <1>2, <1>3, WriteEffect DEF q
<1>5. g.kind \in Reply /\ g.kind # "call" /\ g.kind # "note"
  BY <1>2 DEF Reply
<1>6. Good(p)'
  BY <1>1, <1>2, <1>3, <1>4, <1>5, WrittenBy DEF q
<1>7. IdsInv(q)'
  BY <1>1, <1>3, KeepIds DEF Good, q
<1>8. Traces(q)'
  <2>1. Appended(wire[q], wire'[q], g, Len(wire[q]) + 1)
    BY <1>1, <1>2, <1>4, AppendedLemma DEF TypeOK
  <2>2. Traces(q)
    BY DEF Good, q
  <2> QED
    BY <1>1, <1>2, <1>3, <1>4, <1>5, <2>1, <2>2, AnswerTraces
<1>9. StampInv(q)'
  <2>1. StampInv(q) /\ said[p] \in Nat
    BY DEF Good, q, TypeOK
  <2>2. said'[p] = said[p] + (IF g.kind = "note" THEN 1 ELSE 0)
    BY <1>3, <1>5, <2>1
  <2> QED
    BY <1>1, <1>2, <1>3, <1>4, <2>1, <2>2, AppendStamp
<1> QED
  BY <1>6, <1>7, <1>8, <1>9, BothGood DEF Good, q

\* A call answered in the same step, by a handler or with MethodNotFound.
LEMMA StepReplyAtOnce ==
    ASSUME TypeOK, TypeOK', NEW p \in Peer, Good(p), Good(Other(p)),
           NEW f, Takes(p, f), f.kind = "call", NEW kind \in Reply,
           TakeAndWrite(p, FrameOf(kind, f.id, f.method, said[p])),
           UNCHANGED <<next, pending, done, owed, said, heard, alive, closed>>
    PROVE  \A x \in Peer : Good(x)'
<1> DEFINE q == Other(p)
           g == FrameOf(kind, f.id, f.method, said[p])
<1>1. q \in Peer /\ q # p /\ Other(q) = p
  BY OtherPeer
<1>2. f \in Frame /\ f = wire[p][1] /\ wire[p] # << >>
  BY TakenType
<1>3. /\ g \in Frame /\ g.kind = kind /\ g.id = f.id /\ g.method = f.method
      /\ g.sent = said[p]
  <2>1. /\ f.id \in Nat /\ f.method \in Method \cup Notice /\ said[p] \in Nat
        /\ kind \in {"call", "note", "result", "error"}
    BY <1>2 DEF TypeOK, Frame, Reply
  <2> QED
    BY <2>1, FrameOfType
<1> HIDE DEF q, g
<1>4. wire'[p] = Tail(wire[p]) /\ wire'[q] = Append(wire[q], g)
  BY <1>3, TakeAndWriteEffect DEF q, g
<1>5. g.kind \in Reply /\ g.kind # "call" /\ g.kind # "note" /\ f.kind \notin Reply
  BY <1>3 DEF Reply
<1>6. Good(p)'
  <2>1. heard'[p] = heard[p] + (IF f.kind = "note" THEN 1 ELSE 0)
    BY DEF TypeOK
  <2>2. \E h \in Frame : h.kind # "call" /\ wire'[q] = Append(wire[q], h)
    BY <1>3, <1>4, <1>5
  <2> QED
    BY <1>4, <1>5, <2>1, <2>2, TakenBy DEF q
<1>7. IdsInv(q)'
  BY <1>1, KeepIds DEF Good, q
<1>8. Traces(q)'
  <2>1. Appended(wire[q], wire'[q], g, Len(wire[q]) + 1)
    BY <1>1, <1>3, <1>4, AppendedLemma DEF TypeOK
  <2>2. Dropped(wire[p], wire'[p], [k \in DOMAIN Tail(wire[p]) |-> k + 1])
    BY <1>2, <1>4, DroppedLemma DEF TypeOK
  <2>3. Traces(q)
    BY DEF Good, q
  <2> QED
    BY <1>1, <1>2, <1>3, <1>5, <2>1, <2>2, <2>3, HandleTraces
<1>9. StampInv(q)'
  <2>1. StampInv(q) /\ said[p] \in Nat
    BY DEF Good, q, TypeOK
  <2>2. said'[p] = said[p] + (IF g.kind = "note" THEN 1 ELSE 0)
    BY <1>5, <2>1
  <2> QED
    BY <1>1, <1>3, <1>4, <2>1, <2>2, AppendStamp
<1> QED
  BY <1>6, <1>7, <1>8, <1>9, BothGood DEF Good, q

LEMMA StepReceiveDeferred ==
    ASSUME TypeOK, TypeOK', NEW p \in Peer, Good(p), Good(Other(p)),
           NEW f, ReceiveDeferred(p, f)
    PROVE  \A x \in Peer : Good(x)'
<1> DEFINE q == Other(p)
           c == [id |-> f.id, method |-> f.method]
<1>1. q \in Peer /\ q # p /\ Other(q) = p
  BY OtherPeer
<1>2. f \in Frame /\ f = wire[p][1] /\ wire[p] # << >> /\ Takes(p, f) /\ f.kind = "call"
  BY TakenType DEF ReceiveDeferred
<1>3. /\ owed'[p] = owed[p] \cup {c} /\ owed'[q] = owed[q]
      /\ UNCHANGED <<next, pending, done, said, heard, alive, closed>>
      /\ c.id = f.id /\ c.method = f.method
  BY <1>1 DEF ReceiveDeferred, TypeOK
<1>4. wire'[p] = Tail(wire[p]) /\ wire'[q] = wire[q]
  BY TakeEffect DEF ReceiveDeferred
<1> HIDE DEF q, c
<1>5. Good(p)'
  <2>1. heard'[p] = heard[p] + (IF f.kind = "note" THEN 1 ELSE 0)
    BY <1>2, <1>3 DEF TypeOK
  <2>2. f.kind \notin Reply
    BY <1>2 DEF Reply
  <2> QED
    BY <1>1, <1>2, <1>3, <1>4, <2>1, <2>2, TakenBy DEF q
<1>6. IdsInv(q)'
  BY <1>1, <1>3, KeepIds DEF Good, q
<1>7. Traces(q)'
  <2>1. Dropped(wire[p], wire'[p], [k \in DOMAIN Tail(wire[p]) |-> k + 1])
    BY <1>2, <1>4, DroppedLemma DEF TypeOK
  <2>2. Traces(q)
    BY DEF Good, q
  <2> QED
    BY <1>1, <1>2, <1>3, <1>4, <2>1, <2>2, DeferTraces
<1>8. StampInv(q)'
  BY <1>1, <1>3, <1>4, KeepStamp DEF Good, q
<1> QED
  BY <1>5, <1>6, <1>7, <1>8, BothGood DEF Good, q

LEMMA StepReceiveNotice ==
    ASSUME TypeOK, TypeOK', NEW p \in Peer, Good(p), Good(Other(p)),
           NEW f, ReceiveNotice(p, f)
    PROVE  \A x \in Peer : Good(x)'
<1> DEFINE q == Other(p)
<1>1. q \in Peer /\ q # p /\ Other(q) = p
  BY OtherPeer
<1>2. /\ Takes(p, f) /\ f.kind = "note"
      /\ heard'[p] = heard[p] + 1 /\ heard'[q] = heard[q]
      /\ UNCHANGED <<next, pending, done, owed, said, alive, closed>>
  BY <1>1 DEF ReceiveNotice, TypeOK
<1>3. wire'[p] = Tail(wire[p]) /\ wire'[q] = wire[q]
  BY TakeEffect DEF ReceiveNotice
<1>4. f.kind \notin Reply /\ f.kind # "call"
  BY <1>2 DEF Reply
<1> HIDE DEF q
<1>5. Good(p)'
  BY <1>1, <1>2, <1>3, <1>4, TakenBy DEF q
<1>6. Good(q)'
  BY <1>1, <1>2, <1>3, <1>4, TakenFrom DEF q
<1> QED
  BY <1>5, <1>6, BothGood DEF q

LEMMA StepReceiveReply ==
    ASSUME TypeOK, TypeOK', NEW p \in Peer, Good(p), Good(Other(p)),
           NEW f, NEW r \in pending[p], ReceiveReply(p, f, r)
    PROVE  \A x \in Peer : Good(x)'
<1> DEFINE q == Other(p)
           d == Answered(r, f, heard[p])
<1>1. q \in Peer /\ q # p /\ Other(q) = p
  BY OtherPeer
<1>2. /\ Takes(p, f) /\ f.kind \in Reply /\ r.id = f.id
      /\ pending'[p] = pending[p] \ {r} /\ pending'[q] = pending[q]
      /\ done'[p] = done[p] \cup {d} /\ done'[q] = done[q]
      /\ UNCHANGED <<next, owed, said, heard, alive, closed>>
  BY <1>1 DEF ReceiveReply, TypeOK
<1>3. f \in Frame /\ f = wire[p][1] /\ wire[p] # << >>
  BY <1>2, TakenType
<1>4. wire'[p] = Tail(wire[p]) /\ wire'[q] = wire[q]
  BY TakeEffect DEF ReceiveReply
<1>5. /\ d.req = r /\ d.outcome = f.kind /\ d.shape = f.method
      /\ d.sent = f.sent /\ d.heard = heard[p]
  BY <1>2, <1>3, AnsweredType DEF TypeOK
<1>6. f.kind # "call" /\ f.kind # "note"
  BY <1>2 DEF Reply
<1> HIDE DEF q, d
<1>7. Good(q)'
  BY <1>1, <1>2, <1>4, <1>6, TakenFrom DEF q
<1>8. IdsInv(p)' /\ Issued(p)' = Issued(p)
  <2>1. IdsInv(p) /\ (closed'[p] => pending'[p] = {})
    BY <1>2 DEF Good, IdsInv
  <2>2. d \notin done[p]
    BY <1>5, <2>1 DEF IdsInv
  <2> QED
    BY <1>2, <1>5, <2>1, <2>2, SettleIds
<1>9. Traces(p)'
  <2>1. Dropped(wire[p], wire'[p], [k \in DOMAIN Tail(wire[p]) |-> k + 1])
    BY <1>3, <1>4, DroppedLemma DEF TypeOK
  <2>2. Traces(p) /\ IdsInv(p)
    BY DEF Good
  <2>3. \A x \in pending'[p] : x.id # f.id
    BY <1>2, <2>2 DEF IdsInv, Issued
  <2>4. f.method = r.method
    <3>1. 1 \in DOMAIN wire[p]
      BY <2>1 DEF Dropped
    <3>2. Names(p, f.id, f.method)
      BY <1>2, <1>3, <2>2, <3>1 DEF Traces, NamesInv
    <3> QED
      BY <1>2, <3>2 DEF Names, Issued
  <2>5. \A x \in done'[p] : x \in done[p] \/ (x.req.id = f.id /\ x.shape = x.req.method)
    BY <1>2, <1>5, <2>4
  <2>6. pending'[p] \subseteq pending[p]
    BY <1>2
  <2> QED
    BY <1>1, <1>2, <1>3, <1>4, <1>8, <2>1, <2>2, <2>3, <2>5, <2>6, ConsumeTraces DEF q
<1>10. StampInv(p)'
  <2>1. heard'[p] = heard[p] + (IF f.kind = "note" THEN 1 ELSE 0)
    BY <1>2, <1>6 DEF TypeOK
  <2>2. \A x \in done'[p] : x \in done[p] \/ (x.sent = f.sent /\ x.heard = heard'[p])
    BY <1>2, <1>5
  <2> QED
    BY <1>1, <1>2, <1>3, <1>4, <2>1, <2>2, DropStamp DEF Good
<1> QED
  BY <1>7, <1>8, <1>9, <1>10, BothGood DEF Good, q

LEMMA StepReceiveLate ==
    ASSUME TypeOK, TypeOK', NEW p \in Peer, Good(p), Good(Other(p)),
           NEW f, ReceiveLate(p, f)
    PROVE  \A x \in Peer : Good(x)'
<1> DEFINE q == Other(p)
<1>1. q \in Peer /\ q # p /\ Other(q) = p
  BY OtherPeer
<1>2. /\ Takes(p, f) /\ f.kind \in Reply
      /\ \A r \in pending[p] : r.id # f.id
      /\ UNCHANGED <<next, pending, done, owed, said, heard, alive, closed>>
  BY DEF ReceiveLate
<1>3. f = wire[p][1] /\ wire[p] # << >>
  BY <1>2, TakenType
<1>4. wire'[p] = Tail(wire[p]) /\ wire'[q] = wire[q]
  BY TakeEffect DEF ReceiveLate
<1>5. f.kind # "call" /\ f.kind # "note"
  BY <1>2 DEF Reply
<1> HIDE DEF q
<1>6. Good(q)'
  BY <1>1, <1>2, <1>4, <1>5, TakenFrom DEF q
<1>7. IdsInv(p)' /\ Issued(p)' = Issued(p)
  BY <1>2, KeepIds DEF Good
<1>8. Traces(p)'
  <2>1. Dropped(wire[p], wire'[p], [k \in DOMAIN Tail(wire[p]) |-> k + 1])
    BY <1>3, <1>4, DroppedLemma DEF TypeOK
  <2>2. Traces(p)
    BY DEF Good
  <2> QED
    BY <1>1, <1>2, <1>3, <1>4, <1>7, <2>1, <2>2, ConsumeTraces DEF q
<1>9. StampInv(p)'
  <2>1. heard'[p] = heard[p] + (IF f.kind = "note" THEN 1 ELSE 0)
    BY <1>2, <1>5 DEF TypeOK
  <2> QED
    BY <1>1, <1>2, <1>3, <1>4, <2>1, DropStamp DEF Good
<1> QED
  BY <1>6, <1>7, <1>8, <1>9, BothGood DEF Good, q

LEMMA StepExpire ==
    ASSUME TypeOK, TypeOK', NEW p \in Peer, Good(p), Good(Other(p)),
           NEW S \in SUBSET pending[p], Expire(p, S)
    PROVE  \A x \in Peer : Good(x)'
<1> DEFINE q == Other(p)
<1>1. q \in Peer /\ q # p /\ Other(q) = p
  BY OtherPeer
<1>2. /\ pending'[p] = pending[p] \ S /\ pending'[q] = pending[q]
      /\ done'[p] = done[p] \cup {Failed(r, "timeout", heard[p]) : r \in S}
      /\ done'[q] = done[q]
      /\ UNCHANGED <<next, owed, wire, said, heard, alive, closed>>
  BY <1>1 DEF Expire, TypeOK
<1>3. \A x \in Peer : Running(x)' => Running(x)
  BY <1>2 DEF Running
<1> HIDE DEF q
<1>4. Good(p)'
  <2>1. closed[p]' => closed[p] \/ pending'[p] = {}
    BY <1>2
  <2> QED
    BY <1>2, <1>3, <2>1, Settled
<1>5. Good(q)'
  BY <1>1, <1>2, <1>3, Unmoved DEF q
<1> QED
  BY <1>4, <1>5, BothGood DEF q

LEMMA StepHangup ==
    ASSUME TypeOK, TypeOK', NEW p \in Peer, Good(p), Good(Other(p)), Hangup(p)
    PROVE  \A x \in Peer : Good(x)'
<1>1. /\ alive' = [alive EXCEPT ![p] = FALSE]
      /\ UNCHANGED <<next, pending, done, owed, wire, said, heard, closed>>
  BY DEF Hangup
<1>2. \A x \in Peer : Running(x)' => Running(x)
  BY <1>1 DEF Running, TypeOK
<1>3. ASSUME NEW x \in Peer, Good(x)
      PROVE  Good(x)'
  BY <1>1, <1>2, <1>3, Unmoved
<1> QED
  BY <1>3, OtherPeer

LEMMA StepStreamEnd ==
    ASSUME TypeOK, TypeOK', NEW p \in Peer, Good(p), Good(Other(p)), StreamEnd(p)
    PROVE  \A x \in Peer : Good(x)'
<1> DEFINE q == Other(p)
<1>1. q \in Peer /\ q # p /\ Other(q) = p
  BY OtherPeer
<1>2. /\ pending'[p] = {} /\ pending'[q] = pending[q]
      /\ done'[p] = done[p] \cup {Failed(r, "closed", heard[p]) : r \in pending[p]}
      /\ done'[q] = done[q]
      /\ closed' = [closed EXCEPT ![p] = TRUE] /\ closed'[q] = closed[q]
      /\ UNCHANGED <<next, owed, wire, said, heard, alive>>
  BY <1>1 DEF StreamEnd, TypeOK
<1>3. \A x \in Peer : Running(x)' => Running(x)
  BY <1>2 DEF Running, TypeOK
<1> HIDE DEF q
<1>4. Good(p)'
  <2>1. pending'[p] = pending[p] \ pending[p]
    BY <1>2
  <2>2. closed[p]' => closed[p] \/ pending'[p] = {}
    BY <1>2
  <2>3. pending[p] \in SUBSET pending[p] /\ "closed" \in {"timeout", "closed"}
    OBVIOUS
  <2>4. next'[p] = next[p]
    BY <1>2
  <2> QED
    BY <1>2, <1>3, <2>1, <2>2, <2>3, <2>4, Settled
<1>5. Good(q)'
  BY <1>1, <1>2, <1>3, Unmoved DEF q
<1> QED
  BY <1>4, <1>5, BothGood DEF q

-----------------------------------------------------------------------------
(***************************************************************************)
(* The invariant.                                                          *)
(***************************************************************************)
LEMMA InvInit == Init => IInv
<1> SUFFICES ASSUME Init
             PROVE  TypeOK /\ \A p \in Peer : Good(p)
  BY GoodIsIInv
<1>1. TypeOK
  BY TypeInit
<1>2. ASSUME NEW p \in Peer
      PROVE  Good(p)
  <2>1. /\ Other(p) \in Peer /\ next[p] = 0 /\ pending[p] = {} /\ done[p] = {}
        /\ owed[Other(p)] = {} /\ wire[p] = << >> /\ wire[Other(p)] = << >>
        /\ said[Other(p)] = 0 /\ heard[p] = 0
    BY OtherPeer DEF Init
  <2>2. DOMAIN wire[p] = {} /\ DOMAIN wire[Other(p)] = {} /\ Len(wire[p]) = 0
    BY <2>1
  <2>3. IdsInv(p)
    BY <2>1 DEF IdsInv, Issued
  <2>4. Traces(p)
    BY <2>1, <2>2
       DEF Traces, NamesInv, UniqueInv, ApartInv, SpentInv, FoundInv
  <2>5. StampInv(p)
    BY <2>1, <2>2 DEF StampInv, Stamp
  <2> QED
    BY <2>3, <2>4, <2>5 DEF Good
<1> QED
  BY <1>1, <1>2

LEMMA InvNext == IInv /\ [Next]_vars => IInv'
<1> SUFFICES ASSUME TypeOK, \A p \in Peer : Good(p), [Next]_vars
             PROVE  TypeOK' /\ \A p \in Peer : Good(p)'
  BY DEF IInv, Good, Traces
<1>0. TypeOK'
  BY TypeNext
<1>a. \A p \in Peer : Good(p) /\ Good(Other(p))
  BY OtherPeer
<1>1. CASE UNCHANGED vars
  BY <1>0, <1>1, Unmoved DEF vars, Running
<1>2. ASSUME NEW p \in Peer, NEW m \in Method, NEW timed \in BOOLEAN,
             SendRequest(p, m, timed)
      PROVE  \A x \in Peer : Good(x)'
  BY <1>0, <1>a, <1>2, StepSendRequest
<1>3. ASSUME NEW p \in Peer, NEW n \in Notice, SendNotice(p, n)
      PROVE  \A x \in Peer : Good(x)'
  BY <1>0, <1>a, <1>3, StepSendNotice
<1>4. ASSUME NEW p \in Peer, NEW c \in owed[p], Answer(p, c)
      PROVE  \A x \in Peer : Good(x)'
  BY <1>0, <1>a, <1>4, StepAnswer
<1>5. ASSUME NEW p \in Peer, Receive(p)
      PROVE  \A x \in Peer : Good(x)'
  <2> DEFINE f == Head(wire[p])
  <2> HIDE DEF f
  <2>1. ASSUME NEW kind \in Reply, ReceiveHandled(p, f, kind)
        PROVE  \A x \in Peer : Good(x)'
    BY <1>0, <1>a, <2>1, StepReplyAtOnce DEF ReceiveHandled
  <2>2. ASSUME ReceiveDeferred(p, f)
        PROVE  \A x \in Peer : Good(x)'
    BY <1>0, <1>a, <2>2, StepReceiveDeferred
  <2>3. ASSUME ReceiveUnknown(p, f)
        PROVE  \A x \in Peer : Good(x)'
    <3>1. "error" \in Reply
      BY DEF Reply
    <3> QED
      BY <1>0, <1>a, <2>3, <3>1, StepReplyAtOnce DEF ReceiveUnknown
  <2>4. ASSUME ReceiveNotice(p, f)
        PROVE  \A x \in Peer : Good(x)'
    BY <1>0, <1>a, <2>4, StepReceiveNotice
  <2>5. ASSUME NEW r \in pending[p], ReceiveReply(p, f, r)
        PROVE  \A x \in Peer : Good(x)'
    BY <1>0, <1>a, <2>5, StepReceiveReply
  <2>6. ASSUME ReceiveLate(p, f)
        PROVE  \A x \in Peer : Good(x)'
    BY <1>0, <1>a, <2>6, StepReceiveLate
  <2> QED
    BY <1>5, <2>1, <2>2, <2>3, <2>4, <2>5, <2>6 DEF Receive, f
<1>6. ASSUME NEW p \in Peer, NEW S \in SUBSET pending[p], Expire(p, S)
      PROVE  \A x \in Peer : Good(x)'
  BY <1>0, <1>a, <1>6, StepExpire
<1>7. ASSUME NEW p \in Peer, Hangup(p)
      PROVE  \A x \in Peer : Good(x)'
  BY <1>0, <1>a, <1>7, StepHangup
<1>8. ASSUME NEW p \in Peer, StreamEnd(p)
      PROVE  \A x \in Peer : Good(x)'
  BY <1>0, <1>a, <1>8, StepStreamEnd
<1> QED
  BY <1>0, <1>1, <1>2, <1>3, <1>4, <1>5, <1>6, <1>7, <1>8 DEF Next

\* IInv holds in every state of every connection.
THEOREM Invariant == Spec => []IInv
<1>1. Init => IInv
  BY InvInit
<1>2. IInv /\ [Next]_vars => IInv'
  BY InvNext
<1> QED
  BY <1>1, <1>2, PTL DEF Spec

-----------------------------------------------------------------------------
(***************************************************************************)
(* The properties.                                                         *)
(***************************************************************************)
\* No reply, deadline or end of stream completes a request twice, and none is
\* forgotten (README.md:125-134).
THEOREM CompletionsAreUnique == Spec => []CompletedOnce
<1>1. IInv => CompletedOnce
  BY DEF IInv, IdsInv, CompletedOnce
<1> QED
  BY <1>1, Invariant, PTL

\* result<M> meets what reply<M> encoded (protocol.hpp:5-8).
THEOREM RepliesAreTyped == Spec => []ReplyTyping
<1>1. IInv => ReplyTyping
  BY DEF IInv, NamesInv, ReplyTyping
<1> QED
  BY <1>1, Invariant, PTL

\* No request is answered twice.
THEOREM AnswersAreUnique == Spec => []AnsweredOnce
<1>1. ASSUME IInv, NEW p \in Peer, NEW i \in 1 .. next[p]
      PROVE  /\ \A j, k \in CallsAt(p, i) : j = k
             /\ \A c, d \in OwedAt(p, i) : c = d
             /\ \A j, k \in RepliesAt(p, i) : j = k
             /\ CallsAt(p, i) = {} \/ OwedAt(p, i) = {}
             /\ CallsAt(p, i) = {} \/ RepliesAt(p, i) = {}
             /\ OwedAt(p, i) = {} \/ RepliesAt(p, i) = {}
             /\ \A c \in done[p] : c.req.id = i /\ c.outcome \in Reply =>
                    CallsAt(p, i) = {} /\ OwedAt(p, i) = {} /\ RepliesAt(p, i) = {}
  <2>1. UniqueInv(p) /\ ApartInv(p) /\ SpentInv(p)
    BY <1>1 DEF IInv
  <2>2. /\ \A j, k \in CallsAt(p, i) : j = k
        /\ \A c, d \in OwedAt(p, i) : c = d
        /\ \A j, k \in RepliesAt(p, i) : j = k
    BY <2>1 DEF UniqueInv, IsCall, IsReply, CallsAt, OwedAt, RepliesAt
  <2>3. CallsAt(p, i) = {} \/ OwedAt(p, i) = {}
    BY <2>1 DEF ApartInv, IsCall, CallsAt, OwedAt
  <2>4. CallsAt(p, i) = {} \/ RepliesAt(p, i) = {}
    BY <2>1 DEF ApartInv, IsCall, CallsAt, RepliesAt
  <2>5. OwedAt(p, i) = {} \/ RepliesAt(p, i) = {}
    BY <2>1 DEF ApartInv, IsReply, OwedAt, RepliesAt
  <2>6. \A c \in done[p] : c.req.id = i /\ c.outcome \in Reply =>
            CallsAt(p, i) = {} /\ OwedAt(p, i) = {} /\ RepliesAt(p, i) = {}
    BY <2>1 DEF SpentInv, IsCall, IsReply, CallsAt, OwedAt, RepliesAt
  <2> QED
    BY <2>2, <2>3, <2>4, <2>5, <2>6
<1>2. IInv => AnsweredOnce
  BY <1>1 DEF AnsweredOnce
<1> QED
  BY <1>2, Invariant, PTL

\* No request is dropped between two running hosts.
THEOREM RequestsAreFound == Spec => []NoLostRequest
<1>1. ASSUME IInv, \A p \in Peer : Running(p), NEW p \in Peer, NEW r \in pending[p]
      PROVE  CallsAt(p, r.id) \cup OwedAt(p, r.id) \cup RepliesAt(p, r.id) # {}
  <2>1. FoundInv(p) /\ Running(p) /\ Running(Other(p))
    BY <1>1, OtherPeer DEF IInv
  <2> QED
    BY <2>1 DEF FoundInv, IsCall, IsReply, CallsAt, OwedAt, RepliesAt
<1>2. IInv => NoLostRequest
  BY <1>1 DEF NoLostRequest
<1> QED
  BY <1>2, Invariant, PTL

\* No notification overtakes a reply or is overtaken by one
\* (tests/protocol_loopback.cpp:127-157).
THEOREM RepliesKeepTheirPlace == Spec => []StreamOrder
<1>1. IInv => StreamOrder
  BY DEF IInv, StampInv, StreamOrder
<1> QED
  BY <1>1, Invariant, PTL
=============================================================================
