--------------------------- MODULE AcpConnectionInv ---------------------------
(***************************************************************************)
(* The inductive invariant behind the safety properties of AcpConnection.  *)
(* Its parts say where the exchange of each request can be, in terms of    *)
(* the positions of the two streams, so that a step which takes a frame    *)
(* off one stream and puts one on the other can be followed frame by       *)
(* frame.                                                                  *)
(***************************************************************************)
EXTENDS AcpConnection

\* f is a call, or a reply, about request i of the peer in question.
IsCall(f, i) == f.kind = "call" /\ f.id = i

IsReply(f, i) == f.kind \in Reply /\ f.id = i

\* i is an id p's engine handed out, and m the method it was handed out for.
Names(p, i, m) ==
    /\ i \in 1 .. next[p]
    /\ \A r \in Issued(p) : r.id = i => r.method = m

\* Ids are handed out in order; each belongs to one request, pending or done.
IdsInv(p) ==
    /\ {r.id : r \in Issued(p)} = 1 .. next[p]
    /\ \A r, s \in Issued(p) : r.id = s.id => r = s
    /\ \A c, d \in done[p] : c.req = d.req => c = d
    /\ \A c \in done[p] : c.req \notin pending[p]
    /\ closed[p] => pending[p] = {}

\* Every trace of an exchange names a request p made, with its method.
NamesInv(p) ==
    /\ \A k \in DOMAIN wire[Other(p)] : wire[Other(p)][k].kind = "call" =>
           Names(p, wire[Other(p)][k].id, wire[Other(p)][k].method)
    /\ \A c \in owed[Other(p)] : Names(p, c.id, c.method)
    /\ \A k \in DOMAIN wire[p] : wire[p][k].kind \in Reply =>
           Names(p, wire[p][k].id, wire[p][k].method)
    /\ \A c \in done[p] : c.shape = c.req.method

\* No id has two traces of one sort ...
UniqueInv(p) ==
    /\ \A j, k \in DOMAIN wire[Other(p)] :
           /\ wire[Other(p)][j].kind = "call"
           /\ IsCall(wire[Other(p)][k], wire[Other(p)][j].id)
           => j = k
    /\ \A c, d \in owed[Other(p)] : c.id = d.id => c = d
    /\ \A j, k \in DOMAIN wire[p] :
           /\ wire[p][j].kind \in Reply
           /\ IsReply(wire[p][k], wire[p][j].id)
           => j = k

\* ... nor two of different sorts ...
ApartInv(p) ==
    /\ \A k \in DOMAIN wire[Other(p)] : \A c \in owed[Other(p)] :
           ~IsCall(wire[Other(p)][k], c.id)
    /\ \A j \in DOMAIN wire[p] : \A c \in owed[Other(p)] :
           ~IsReply(wire[p][j], c.id)
    /\ \A j \in DOMAIN wire[p], k \in DOMAIN wire[Other(p)] :
           wire[p][j].kind \in Reply => ~IsCall(wire[Other(p)][k], wire[p][j].id)

\* ... nor any once its reply has been consumed.
SpentInv(p) ==
    \A d \in done[p] : d.outcome \in Reply =>
        /\ \A k \in DOMAIN wire[Other(p)] : ~IsCall(wire[Other(p)][k], d.req.id)
        /\ \A c \in owed[Other(p)] : c.id # d.req.id
        /\ \A k \in DOMAIN wire[p] : ~IsReply(wire[p][k], d.req.id)

\* The trace of a pending request, while both sides run.
FoundInv(p) ==
    (Running(p) /\ Running(Other(p))) =>
        \A r \in pending[p] :
            \/ \E k \in DOMAIN wire[Other(p)] : IsCall(wire[Other(p)][k], r.id)
            \/ \E c \in owed[Other(p)] : c.id = r.id
            \/ \E k \in DOMAIN wire[p] : IsReply(wire[p][k], r.id)

\* How many notifications the writer to p had sent when frame k was written;
\* before the first frame, as many as p has heard.
Stamp(p, k) == IF k = 0 THEN heard[p] ELSE wire[p][k].sent

StampInv(p) ==
    /\ \A k \in DOMAIN wire[p] :
           Stamp(p, k) = Stamp(p, k - 1) + (IF wire[p][k].kind = "note" THEN 1 ELSE 0)
    /\ Stamp(p, Len(wire[p])) = said[Other(p)]
    /\ \A c \in done[p] : c.outcome \in Reply => c.sent = c.heard

\* The inductive invariant: TypeOK and every part, for both peers.
IInv ==
    /\ TypeOK
    /\ \A p \in Peer : IdsInv(p) /\ NamesInv(p) /\ UniqueInv(p) /\ ApartInv(p)
                       /\ SpentInv(p) /\ FoundInv(p) /\ StampInv(p)

\* A host whose stream has ended hears nothing more: the other side is gone
\* and nothing of what it sent is left.
Ended ==
    \A p \in Peer : closed[p] =>
        ~alive[Other(p)] /\ wire[p] = << >> /\ pending[p] = {}

-----------------------------------------------------------------------------
(***************************************************************************)
(* What the engine promises its host, with the streams forgotten.          *)
(***************************************************************************)
RequestId == 1 .. MaxRequests["client"] + MaxRequests["agent"]

\* What the host knows of a request it made, and of one that completed.
OpenOf(r) == [id |-> r.id, method |-> r.method]

SettledOf(c) == [id |-> c.req.id, method |-> c.req.method, type |-> c.shape,
                 outcome |-> c.outcome]

Contract == INSTANCE RpcContract WITH
    Side <- Peer,
    Id <- RequestId,
    open <- [p \in Peer |-> {OpenOf(r) : r \in pending[p]}],
    settled <- [p \in Peer |-> {SettledOf(c) : c \in done[p]}],
    ended <- closed,
    up <- alive

\* Two hosts over two streams keep the contract: replies are matched, typed
\* and counted as if each call were settled on the spot.
KeepsContract == Contract!ContractSpec
=============================================================================
