----------------------- MODULE AcpConnectionRefinement -----------------------
(***************************************************************************)
(* Theorems about the end of a stream, and the proof that AcpConnection    *)
(* implements RpcContract, for every value of the constants.               *)
(***************************************************************************)
EXTENDS AcpConnectionProofs

(***************************************************************************)
(* The end of a stream.                                                    *)
(***************************************************************************)
\* Once p has seen the end of its stream the other side is gone, and all that
\* can still happen is that p goes too.
LEMMA ClosedIsFinal ==
    ASSUME TypeOK, Ended, NEW p \in Peer, closed[p], [Next]_vars
    PROVE  UNCHANGED vars \/ Hangup(p)
<1>1. ~Running(p) /\ wire[p] = << >> /\ ~alive[Other(p)] /\ pending[p] = {}
  BY DEF Ended, Running
<1>2. \A x \in Peer : ~Running(x) /\ ~(alive[x] /\ wire[x] # << >>)
  BY <1>1, OtherPeer DEF Running
<1>3. \A x \in Peer : alive[x] => x = p
  BY <1>1, OtherPeer
<1>4. ASSUME NEW x \in Peer
      PROVE  /\ \A m \in Method, timed \in BOOLEAN : ~SendRequest(x, m, timed)
             /\ \A n \in Notice : ~SendNotice(x, n)
             /\ \A c \in owed[x] : ~Answer(x, c)
             /\ ~Receive(x)
             /\ \A S \in SUBSET pending[x] : ~Expire(x, S)
             /\ Hangup(x) => x = p
             /\ ~StreamEnd(x)
  <2>1. ~Receive(x)
    BY <1>2 DEF Receive, Takes, ReceiveHandled, ReceiveDeferred, ReceiveUnknown,
                ReceiveNotice, ReceiveReply, ReceiveLate
  <2>2. \A S \in SUBSET pending[x] : ~Expire(x, S)
    BY <1>1, <1>3 DEF Expire
  <2>3. Hangup(x) => x = p
    BY <1>3 DEF Hangup
  <2> QED
    BY <1>2, <2>1, <2>2, <2>3 DEF SendRequest, SendNotice, Answer, StreamEnd
<1> QED
  BY <1>4 DEF Next

LEMMA EndedNext == TypeOK /\ Ended /\ [Next]_vars => Ended'
<1> SUFFICES ASSUME TypeOK, Ended, [Next]_vars, NEW p \in Peer, closed[p]'
             PROVE  (~alive[Other(p)] /\ wire[p] = << >> /\ pending[p] = {})'
  BY DEF Ended
<1>1. CASE closed[p]
  <2>1. UNCHANGED vars \/ Hangup(p)
    BY <1>1, ClosedIsFinal
  <2>2. CASE UNCHANGED vars
    BY <1>1, <2>2 DEF Ended, vars
  <2>3. CASE Hangup(p)
    BY <1>1, <2>3, OtherPeer DEF Ended, Hangup, TypeOK
  <2> QED
    BY <2>1, <2>2, <2>3
<1>2. CASE ~closed[p]
  <2>1. PICK x \in Peer : StreamEnd(x)
    BY <1>2 DEF Next, vars, SendRequest, SendNotice, Answer, Receive,
                ReceiveHandled, ReceiveDeferred, ReceiveUnknown, ReceiveNotice,
                ReceiveReply, ReceiveLate, Expire, Hangup
  <2>2. x = p
    BY <1>2, <2>1 DEF StreamEnd, TypeOK
  <2> QED
    BY <2>1, <2>2 DEF StreamEnd, TypeOK
<1> QED
  BY <1>1, <1>2

\* A host is told the end of its stream when nothing can follow it.
THEOREM EndIsReached == Spec => []Ended
<1>1. Init => Ended
  BY DEF Init, Ended
<1>2. TypeOK /\ Ended /\ [Next]_vars => Ended'
  BY EndedNext
<1> QED
  BY <1>1, <1>2, TypeCorrect, PTL DEF Spec

\* Closed{} fails everything pending and is the engine's last event
\* (README.md:134).
THEOREM CloseIsFinal == Spec => SilentAfterClose
<1>1. TypeOK /\ Ended /\ [Next]_vars
          => \A p \in Peer : closed[p] =>
                 pending[p] = {} /\ done'[p] = done[p] /\ pending'[p] = {} /\ closed'[p]
  <2> SUFFICES ASSUME TypeOK, Ended, [Next]_vars, NEW p \in Peer, closed[p]
               PROVE  pending[p] = {} /\ done'[p] = done[p] /\ pending'[p] = {} /\ closed'[p]
    OBVIOUS
  <2>1. UNCHANGED <<pending, done, closed>>
    BY ClosedIsFinal DEF Hangup, vars
  <2> QED
    BY <2>1 DEF Ended
<1> QED
  BY <1>1, TypeCorrect, EndIsReached, PTL DEF Spec, SilentAfterClose

-----------------------------------------------------------------------------
(***************************************************************************)
(* Refinement.                                                             *)
(***************************************************************************)
OpenIn == [p \in Peer |-> {OpenOf(r) : r \in pending[p]}]

SettledIn == [p \in Peer |-> {SettledOf(c) : c \in done[p]}]

\* A step that leaves the requests, the processes and the ends of stream alone
\* is a stutter of the contract.
LEMMA StutterStep ==
    ASSUME UNCHANGED <<pending, done, alive, closed>>
    PROVE  UNCHANGED Contract!contractVars
BY DEF Contract!contractVars, OpenOf, SettledOf

\* The ids in use, seen through the mapping.
LEMMA UsedIdsLemma ==
    ASSUME NEW p \in Peer, IdsInv(p)
    PROVE  Contract!UsedIds(p) = 1 .. next[p]
<1>1. Contract!UsedIds(p) = {x.id : x \in OpenIn[p]} \cup {x.id : x \in SettledIn[p]}
  BY DEF Contract!UsedIds, OpenIn, SettledIn
<1>2. {x.id : x \in OpenIn[p]} = {r.id : r \in pending[p]}
  <2>1. OpenIn[p] = {OpenOf(r) : r \in pending[p]}
    BY DEF OpenIn
  <2>2. \A r : OpenOf(r).id = r.id
    BY DEF OpenOf
  <2> QED
    BY <2>1, <2>2
<1>3. {x.id : x \in SettledIn[p]} = {c.req.id : c \in done[p]}
  <2>1. SettledIn[p] = {SettledOf(c) : c \in done[p]}
    BY DEF SettledIn
  <2>2. \A c : SettledOf(c).id = c.req.id
    BY DEF SettledOf
  <2> QED
    BY <2>1, <2>2
<1>4. {r.id : r \in Issued(p)} = {r.id : r \in pending[p]} \cup {c.req.id : c \in done[p]}
  BY DEF Issued
<1> QED
  BY <1>1, <1>2, <1>3, <1>4 DEF IdsInv

LEMMA IssueStep ==
    ASSUME IInv, NEW p \in Peer, NEW m \in Method, NEW timed \in BOOLEAN,
           SendRequest(p, m, timed)
    PROVE  Contract!ContractNext
<1> DEFINE r == [id |-> next[p] + 1, method |-> m, timed |-> timed]
           o == [id |-> next[p] + 1, method |-> m]
<1>1. TypeOK /\ IdsInv(p)
  BY DEF IInv
<1>2. next[p] \in Nat /\ next[p] + 1 \in RequestId
  <2>1. MaxRequests["client"] \in Nat /\ MaxRequests["agent"] \in Nat
    BY ConnectionAssumption DEF Peer
  <2>2. next[p] \in Nat /\ next[p] < MaxRequests[p]
    BY <1>1 DEF SendRequest, TypeOK
  <2>3. p = "client" \/ p = "agent"
    BY DEF Peer
  <2> QED
    BY <2>1, <2>2, <2>3 DEF RequestId
<1>3. OpenOf(r) = o
  BY DEF OpenOf
<1>4. /\ pending' = [pending EXCEPT ![p] = @ \cup {r}]
      /\ Running(p)
      /\ UNCHANGED <<done, alive, closed>>
  BY DEF SendRequest
<1>5. OpenIn' = [OpenIn EXCEPT ![p] = @ \cup {o}]
  <2>1. \A x \in Peer : OpenIn'[x] = IF x = p THEN OpenIn[p] \cup {o} ELSE OpenIn[x]
    BY <1>1, <1>3, <1>4 DEF OpenIn, TypeOK
  <2> QED
    BY <2>1 DEF OpenIn
<1>6. o.id \notin Contract!UsedIds(p)
  BY <1>1, <1>2, UsedIdsLemma
<1>7. ASSUME NEW i \in RequestId, i = next[p] + 1
      PROVE  Contract!Issue(p, [id |-> i, method |-> m])
  BY <1>4, <1>5, <1>6, <1>7 DEF Contract!Issue, OpenIn, SettledOf, Running
<1>8. \E i \in RequestId, n \in Method : Contract!Issue(p, [id |-> i, method |-> n])
  BY <1>2, <1>7
<1> QED
  BY <1>8 DEF Contract!ContractNext

\* Requests that leave pending, seen through the mapping.
LEMMA OpenWithout ==
    ASSUME TypeOK, NEW p \in Peer, IdsInv(p), NEW S \in SUBSET pending[p],
           pending' = [pending EXCEPT ![p] = @ \ S]
    PROVE  OpenIn' = [OpenIn EXCEPT ![p] = @ \ {OpenOf(r) : r \in S}]
<1>1. \A r \in pending[p], s \in S : OpenOf(r) = OpenOf(s) => r = s
  <2>1. \A r \in pending[p], s \in S : OpenOf(r) = OpenOf(s) => r.id = s.id
    BY DEF OpenOf
  <2> QED
    BY <2>1 DEF IdsInv, Issued
<1>2. OpenIn'[p] = OpenIn[p] \ {OpenOf(r) : r \in S}
  <2>1. pending'[p] = pending[p] \ S
    BY DEF TypeOK
  <2>2. OpenIn'[p] = {OpenOf(r) : r \in pending[p] \ S}
    BY <2>1 DEF OpenIn
  <2>3. OpenIn[p] = {OpenOf(r) : r \in pending[p]}
    BY DEF OpenIn
  <2> HIDE DEF OpenIn, OpenOf
  <2> QED
    BY <1>1, <2>2, <2>3
<1>3. \A x \in Peer : x # p => OpenIn'[x] = OpenIn[x]
  BY DEF OpenIn, TypeOK
<1> QED
  BY <1>2, <1>3 DEF OpenIn

\* Completions that are added, seen through the mapping.
LEMMA SettledWith ==
    ASSUME TypeOK, NEW p \in Peer, NEW F, done' = [done EXCEPT ![p] = @ \cup F]
    PROVE  SettledIn' = [SettledIn EXCEPT ![p] = @ \cup {SettledOf(c) : c \in F}]
<1>1. \A x \in Peer : SettledIn'[x] = IF x = p THEN SettledIn[p] \cup {SettledOf(c) : c \in F}
                                      ELSE SettledIn[x]
  BY DEF SettledIn, TypeOK
<1> QED
  BY <1>1 DEF SettledIn

LEMMA ReplyStep ==
    ASSUME IInv, Ended, NEW p \in Peer, NEW f, NEW r \in pending[p],
           ReceiveReply(p, f, r)
    PROVE  Contract!ContractNext
<1> DEFINE d == Answered(r, f, heard[p])
           o == OpenOf(r)
<1>1. TypeOK /\ IdsInv(p) /\ NamesInv(p)
  BY DEF IInv
<1>2. /\ Takes(p, f) /\ f.kind \in {"result", "error"} /\ r.id = f.id
      /\ pending' = [pending EXCEPT ![p] = @ \ {r}]
      /\ done' = [done EXCEPT ![p] = @ \cup {d}]
      /\ UNCHANGED <<alive, closed>>
  BY DEF ReceiveReply, Reply
<1>3. alive[p] /\ ~closed[p]
  BY <1>2 DEF Takes, Ended
<1>4. f.method = r.method
  <2>1. f = wire[p][1] /\ 1 \in DOMAIN wire[p]
    <3>1. /\ wire[p] \in Seq(Frame) /\ wire[p] # << >> /\ f = wire[p][1]
      BY <1>1, <1>2, TakenType
    <3> QED
      BY <3>1, DroppedLemma DEF Dropped
  <2>2. Names(p, f.id, f.method)
    BY <1>1, <1>2, <2>1 DEF NamesInv, Reply
  <2> QED
    BY <1>2, <2>2 DEF Names, Issued
<1>5. SettledOf(d) = Contract!Settle(o, f.kind)
  BY <1>4 DEF SettledOf, Answered, OpenOf, Contract!Settle
<1>6. OpenIn' = [OpenIn EXCEPT ![p] = @ \ {o}]
  <2>1. {OpenOf(x) : x \in {r}} = {o}
    OBVIOUS
  <2> QED
    BY <1>1, <1>2, <2>1, OpenWithout
<1>7. SettledIn' = [SettledIn EXCEPT ![p] = @ \cup {Contract!Settle(o, f.kind)}]
  <2>1. {SettledOf(c) : c \in {d}} = {Contract!Settle(o, f.kind)}
    BY <1>5
  <2> QED
    BY <1>1, <1>2, <2>1, SettledWith
<1>8. o \in OpenIn[p]
  BY DEF OpenIn
<1> HIDE DEF d, o
<1>9. Contract!Reply(p, o, f.kind)
  BY <1>2, <1>3, <1>6, <1>7, <1>8 DEF Contract!Reply, OpenIn, SettledIn
<1>10. \E x \in OpenIn[p], k \in {"result", "error"} : Contract!Reply(p, x, k)
  BY <1>2, <1>8, <1>9
<1> QED
  BY <1>10 DEF Contract!ContractNext, OpenIn

\* The completions of requests an engine fails by itself, as the contract has
\* them.
LEMMA FailedSettles ==
    ASSUME TypeOK, NEW p \in Peer, NEW S \in SUBSET pending[p],
           NEW why \in {"timeout", "closed"}
    PROVE  {SettledOf(c) : c \in {Failed(r, why, heard[p]) : r \in S}}
             = {Contract!Settle(o, why) : o \in {OpenOf(r) : r \in S}}
<1>1. \A r \in S : SettledOf(Failed(r, why, heard[p])) = Contract!Settle(OpenOf(r), why)
  BY DEF SettledOf, Failed, OpenOf, Contract!Settle
<1> QED
  BY <1>1

LEMMA TimeOutStep ==
    ASSUME IInv, NEW p \in Peer, NEW S \in SUBSET pending[p], Expire(p, S)
    PROVE  Contract!ContractNext
<1> DEFINE T == {OpenOf(r) : r \in S}
           F == {Failed(r, "timeout", heard[p]) : r \in S}
<1>1. TypeOK /\ IdsInv(p)
  BY DEF IInv
<1>2. /\ Running(p) /\ S # {}
      /\ pending' = [pending EXCEPT ![p] = @ \ S]
      /\ done' = [done EXCEPT ![p] = @ \cup F]
      /\ UNCHANGED <<alive, closed>>
  <2>1. closed[p] => pending[p] = {}
    BY <1>1 DEF IdsInv
  <2> QED
    BY <2>1 DEF Expire, Running
<1>3. OpenIn' = [OpenIn EXCEPT ![p] = @ \ T]
  BY <1>1, <1>2, OpenWithout
<1>4. SettledIn' = [SettledIn EXCEPT ![p] = @ \cup {Contract!Settle(o, "timeout") : o \in T}]
  <2>1. {SettledOf(c) : c \in F} = {Contract!Settle(o, "timeout") : o \in T}
    BY <1>1, FailedSettles
  <2> QED
    BY <1>1, <1>2, <2>1, SettledWith
<1>5. T # {} /\ T \subseteq OpenIn[p]
  BY <1>2 DEF OpenIn
<1> HIDE DEF T, F
<1>6. Contract!TimeOut(p, T)
  BY <1>2, <1>3, <1>4, <1>5 DEF Contract!TimeOut, OpenIn, SettledIn, Running
<1>7. \E U \in SUBSET OpenIn[p] : Contract!TimeOut(p, U)
  BY <1>5, <1>6
<1> QED
  BY <1>7 DEF Contract!ContractNext, OpenIn

LEMMA EndStep ==
    ASSUME IInv, NEW p \in Peer, StreamEnd(p)
    PROVE  Contract!ContractNext
<1> DEFINE F == {Failed(r, "closed", heard[p]) : r \in pending[p]}
<1>1. TypeOK /\ IdsInv(p)
  BY DEF IInv
<1>2. /\ Running(p) /\ ~alive[Other(p)]
      /\ pending' = [pending EXCEPT ![p] = {}]
      /\ done' = [done EXCEPT ![p] = @ \cup F]
      /\ closed' = [closed EXCEPT ![p] = TRUE]
      /\ UNCHANGED alive
  BY DEF StreamEnd
<1>3. OpenIn' = [OpenIn EXCEPT ![p] = {}]
  <2>1. \A x \in Peer : OpenIn'[x] = IF x = p THEN {} ELSE OpenIn[x]
    BY <1>1, <1>2 DEF OpenIn, TypeOK
  <2> QED
    BY <2>1 DEF OpenIn
<1>4. SettledIn' = [SettledIn EXCEPT ![p] =
                      @ \cup {Contract!Settle(o, "closed") : o \in OpenIn[p]}]
  <2>1. {SettledOf(c) : c \in F} = {Contract!Settle(o, "closed") : o \in OpenIn[p]}
    BY <1>1, FailedSettles DEF OpenIn
  <2> QED
    BY <1>1, <1>2, <2>1, SettledWith
<1> HIDE DEF F
<1>5. \E q \in Peer \ {p} : ~alive[q]
  BY <1>2, OtherPeer
<1>6. Contract!End(p)
  BY <1>2, <1>3, <1>4, <1>5 DEF Contract!End, OpenIn, SettledIn, Running
<1> QED
  BY <1>6 DEF Contract!ContractNext

\* Two hosts over two streams keep the promise RpcContract states: every step
\* of a connection is a step of the contract or invisible to it.
THEOREM ConnectionKeepsContract == Spec => KeepsContract
<1>1. Init => Contract!ContractInit
  BY DEF Init, Contract!ContractInit, OpenOf, SettledOf
<1>2. IInv /\ Ended /\ [Next]_vars => [Contract!ContractNext]_Contract!contractVars
  <2> SUFFICES ASSUME IInv, Ended, [Next]_vars
               PROVE  Contract!ContractNext \/ UNCHANGED Contract!contractVars
    OBVIOUS
  <2>1. CASE UNCHANGED vars
    BY <2>1, StutterStep DEF vars
  <2>2. ASSUME NEW p \in Peer, NEW m \in Method, NEW timed \in BOOLEAN,
               SendRequest(p, m, timed)
        PROVE  Contract!ContractNext
    BY <2>2, IssueStep
  <2>3. ASSUME NEW p \in Peer, NEW n \in Notice, SendNotice(p, n)
        PROVE  UNCHANGED Contract!contractVars
    BY <2>3, StutterStep DEF SendNotice
  <2>4. ASSUME NEW p \in Peer, NEW c \in owed[p], Answer(p, c)
        PROVE  UNCHANGED Contract!contractVars
    BY <2>4, StutterStep DEF Answer
  <2>5. ASSUME NEW p \in Peer, Receive(p)
        PROVE  Contract!ContractNext \/ UNCHANGED Contract!contractVars
    <3>1. \/ UNCHANGED <<pending, done, alive, closed>>
          \/ \E r \in pending[p] : ReceiveReply(p, Head(wire[p]), r)
      BY <2>5 DEF Receive, ReceiveHandled, ReceiveDeferred, ReceiveUnknown,
                  ReceiveNotice, ReceiveLate
    <3> QED
      BY <3>1, StutterStep, ReplyStep
  <2>6. ASSUME NEW p \in Peer, NEW S \in SUBSET pending[p], Expire(p, S)
        PROVE  Contract!ContractNext
    BY <2>6, TimeOutStep
  <2>7. ASSUME NEW p \in Peer, Hangup(p)
        PROVE  Contract!ContractNext
    <3>1. Contract!Leave(p)
      BY <2>7 DEF Hangup, Running, Contract!Leave, OpenOf, SettledOf
    <3> QED
      BY <3>1 DEF Contract!ContractNext
  <2>8. ASSUME NEW p \in Peer, StreamEnd(p)
        PROVE  Contract!ContractNext
    BY <2>8, EndStep
  <2> QED
    BY <2>1, <2>2, <2>3, <2>4, <2>5, <2>6, <2>7, <2>8 DEF Next
<1> QED
  BY <1>1, <1>2, Invariant, EndIsReached, PTL
     DEF Spec, KeepsContract, Contract!ContractSpec
=============================================================================
