---------------------------- MODULE AcpConnection ----------------------------
(***************************************************************************)
(* One ACP connection: an editor ("client") and an agent, each the host of *)
(* one jsonrpc engine and one router, exchanging frames over two ordered   *)
(* byte streams.  acp-cpp has no runtime of its own: it names the methods  *)
(* and leaves the driving to the host.  The host modelled here is the one  *)
(* the repository shows, README.md's read loop and the deliver() function  *)
(* of tests/protocol_loopback.cpp, with the two streams made asynchronous: *)
(* each side takes one frame at a time and the other side may act between. *)
(*                                                                         *)
(* The engine and the router are jsonrpc-cpp's; their operations are       *)
(* modelled from how this repository uses them.  Time is abstract: a       *)
(* deadline may pass at any moment.  The payload of a frame is abstracted  *)
(* to its method, which fixes the C++ type it was encoded from; the codecs *)
(* themselves are the AcpCodec modules.                                    *)
(***************************************************************************)
EXTENDS Naturals, Sequences

CONSTANTS
    Method,       \* request methods either side may send
    Notice,       \* notification methods either side may send
    On,           \* On[p]: methods p's router answers at once (Router::on)
    Defer,        \* Defer[p]: methods p's router leaves to the host (Router::defer)
    MaxRequests,  \* bound: MaxRequests[p] requests of p
    MaxNotices    \* bound: MaxNotices[p] notifications of p

Peer == {"client", "agent"}

Other(p) == IF p = "client" THEN "agent" ELSE "client"

ASSUME ConnectionAssumption ==
    /\ Method \cap Notice = {}
    /\ On \in [Peer -> SUBSET Method]
    /\ Defer \in [Peer -> SUBSET Method]
    /\ \A p \in Peer : On[p] \cap Defer[p] = {}
    /\ MaxRequests \in [Peer -> Nat]
    /\ MaxNotices \in [Peer -> Nat]

VARIABLES
    next,     \* next[p]: the last request id p's engine handed out
    pending,  \* pending[p]: requests p's engine waits on
    done,     \* done[p]: every Completed p's engine ever reported (history)
    owed,     \* owed[p]: deferred calls p's host has still to answer
    wire,     \* wire[p]: frames on their way to p, oldest first
    said,     \* said[p]: notifications p has sent
    heard,    \* heard[p]: notifications p has taken off its wire
    alive,    \* alive[p]: p's process runs and its write side is open
    closed    \* closed[p]: p's engine was told the stream has ended

vars == <<next, pending, done, owed, wire, said, heard, alive, closed>>

(***************************************************************************)
(* A request as its sender's engine remembers it, a call as its receiver's *)
(* host does, and a frame.  A reply frame carries no method on the wire:   *)
(* there `method` names the type the payload was encoded from, which       *)
(* reply<M> fixed.  `sent` is a history field: how many notifications the  *)
(* sender had sent when it sent this frame, itself included.               *)
(***************************************************************************)
Request == [id : Nat, method : Method, timed : BOOLEAN]

Call == [id : Nat, method : Method]

Frame == [kind : {"call", "note", "result", "error"}, id : Nat,
          method : Method \cup Notice, sent : Nat]

Reply == {"result", "error"}

\* What Effects.completed reports of one request.
Completion == [req : Request, outcome : {"result", "error", "timeout", "closed"},
               shape : Method \cup Notice, sent : Nat, heard : Nat]

TypeOK ==
    /\ next \in [Peer -> Nat]
    /\ pending \in [Peer -> SUBSET Request]
    /\ done \in [Peer -> SUBSET Completion]
    /\ owed \in [Peer -> SUBSET Call]
    /\ wire \in [Peer -> Seq(Frame)]
    /\ said \in [Peer -> Nat]
    /\ heard \in [Peer -> Nat]
    /\ alive \in [Peer -> BOOLEAN]
    /\ closed \in [Peer -> BOOLEAN]

Init ==
    /\ next = [p \in Peer |-> 0]
    /\ pending = [p \in Peer |-> {}]
    /\ done = [p \in Peer |-> {}]
    /\ owed = [p \in Peer |-> {}]
    /\ wire = [p \in Peer |-> << >>]
    /\ said = [p \in Peer |-> 0]
    /\ heard = [p \in Peer |-> 0]
    /\ alive = [p \in Peer |-> TRUE]
    /\ closed = [p \in Peer |-> FALSE]

-----------------------------------------------------------------------------
(***************************************************************************)
(* Frames and completions.                                                 *)
(***************************************************************************)
FrameOf(kind, id, method, sent) ==
    [kind |-> kind, id |-> id, method |-> method, sent |-> sent]

\* The completion of r by the reply frame f, at a peer that has heard h notices.
Answered(r, f, h) ==
    [req |-> r, outcome |-> f.kind, shape |-> f.method,
     sent |-> f.sent, heard |-> h]

\* The completion of r by the engine itself, with nothing from the peer.
Failed(r, why, h) ==
    [req |-> r, outcome |-> why, shape |-> r.method,
     sent |-> h, heard |-> h]

\* p's host is running its loop and has not seen the stream end.
Running(p) == alive[p] /\ ~closed[p]

\* p's loop takes frame f off its stream.
Takes(p, f) == alive[p] /\ wire[p] # << >> /\ f = Head(wire[p])

\* p puts frame f on the stream to the other side.
Write(p, f) == wire' = [wire EXCEPT ![Other(p)] = Append(@, f)]

\* p takes the frame at the head of its stream and puts f on the other one.
TakeAndWrite(p, f) ==
    wire' = [wire EXCEPT ![p] = Tail(@), ![Other(p)] = Append(@, f)]

-----------------------------------------------------------------------------
(***************************************************************************)
(* Faulty variants of single operations, one for each way the properties   *)
(* could fail.  No specification uses them; each shows that a property     *)
(* notices the fault it is there for.                                      *)
(***************************************************************************)
\* The engine hands out ids from -1 on.
SendRequestLowId(p, m, timed) ==
    LET r == [id |-> next[p] - 1, method |-> m, timed |-> timed]
    IN  /\ Running(p)
        /\ next[p] < MaxRequests[p]
        /\ next' = [next EXCEPT ![p] = @ + 1]
        /\ pending' = [pending EXCEPT ![p] = @ \cup {r}]
        /\ Write(p, FrameOf("call", r.id, m, said[p]))
        /\ UNCHANGED <<done, owed, said, heard, alive, closed>>

\* Notifications go out ahead of frames that are already queued.
SendNoticeFirst(p, n) ==
    /\ Running(p)
    /\ said[p] < MaxNotices[p]
    /\ said' = [said EXCEPT ![p] = @ + 1]
    /\ wire' = [wire EXCEPT ![Other(p)] = <<FrameOf("note", 0, n, said[p] + 1)>> \o @]
    /\ UNCHANGED <<next, pending, done, owed, heard, alive, closed>>

\* The host does not note that it has answered.
AnswerKeepsDebt(p, c) ==
    /\ Running(p)
    /\ c \in owed[p]
    /\ Write(p, FrameOf("result", c.id, c.method, said[p]))
    /\ UNCHANGED <<next, pending, done, owed, said, heard, alive, closed>>

\* The host replies with the type of another method.
AnswerAnyType(p, c) ==
    /\ Running(p)
    /\ c \in owed[p]
    /\ owed' = [owed EXCEPT ![p] = @ \ {c}]
    /\ \E m \in Method : Write(p, FrameOf("result", c.id, m, said[p]))
    /\ UNCHANGED <<next, pending, done, said, heard, alive, closed>>

\* The host has one slot for deferred calls, like Agent.prompt_call.
DeferInOneSlot(p, f) ==
    /\ Takes(p, f)
    /\ f.kind = "call"
    /\ f.method \in Defer[p]
    /\ owed' = [owed EXCEPT ![p] = {[id |-> f.id, method |-> f.method]}]
    /\ wire' = [wire EXCEPT ![p] = Tail(@)]
    /\ UNCHANGED <<next, pending, done, said, heard, alive, closed>>

\* An expired request is reported but stays pending.
ExpireKeepsPending(p, S) ==
    /\ alive[p]
    /\ S # {}
    /\ S \subseteq {r \in pending[p] : r.timed}
    /\ done' = [done EXCEPT ![p] = @ \cup {Failed(r, "timeout", heard[p]) : r \in S}]
    /\ UNCHANGED <<next, pending, owed, wire, said, heard, alive, closed>>

\* An expired request is forgotten and not reported.
ExpireSilently(p, S) ==
    /\ alive[p]
    /\ S # {}
    /\ S \subseteq {r \in pending[p] : r.timed}
    /\ pending' = [pending EXCEPT ![p] = @ \ S]
    /\ UNCHANGED <<next, done, owed, wire, said, heard, alive, closed>>

\* The end of the stream is noted and nothing that is pending fails.
StreamEndKeepsPending(p) ==
    /\ Running(p)
    /\ ~alive[Other(p)]
    /\ wire[p] = << >>
    /\ closed' = [closed EXCEPT ![p] = TRUE]
    /\ UNCHANGED <<next, pending, done, owed, wire, said, heard, alive>>

\* The host reports the end while frames are still unread.
StreamEndEarly(p) ==
    /\ Running(p)
    /\ ~alive[Other(p)]
    /\ pending' = [pending EXCEPT ![p] = {}]
    /\ done' = [done EXCEPT ![p] =
                  @ \cup {Failed(r, "closed", heard[p]) : r \in pending[p]}]
    /\ closed' = [closed EXCEPT ![p] = TRUE]
    /\ UNCHANGED <<next, owed, wire, said, heard, alive>>

-----------------------------------------------------------------------------
(***************************************************************************)
(* Sending.                                                                *)
(***************************************************************************)
\* auto [id, fx] = request<M>(engine, params [, deadline]); write(fx.send)
SendRequest(p, m, timed) ==
    LET r == [id |-> next[p] + 1, method |-> m, timed |-> timed]
    IN  /\ Running(p)
        /\ next[p] < MaxRequests[p]
        /\ next' = [next EXCEPT ![p] = @ + 1]
        /\ pending' = [pending EXCEPT ![p] = @ \cup {r}]
        /\ Write(p, FrameOf("call", r.id, m, said[p]))
        /\ UNCHANGED <<done, owed, said, heard, alive, closed>>

\* write(notify<N>(params)): no engine is involved.
SendNotice(p, n) ==
    /\ Running(p)
    /\ said[p] < MaxNotices[p]
    /\ said' = [said EXCEPT ![p] = @ + 1]
    /\ Write(p, FrameOf("note", 0, n, said[p] + 1))
    /\ UNCHANGED <<next, pending, done, owed, heard, alive, closed>>

\* write(reply<M>(call.id, result)) for a call that was deferred.
Answer(p, c) ==
    /\ Running(p)
    /\ c \in owed[p]
    /\ owed' = [owed EXCEPT ![p] = @ \ {c}]
    /\ Write(p, FrameOf("result", c.id, c.method, said[p]))
    /\ UNCHANGED <<next, pending, done, said, heard, alive, closed>>

-----------------------------------------------------------------------------
(***************************************************************************)
(* Receiving: fx = step(engine, Received{line}) and the host's loop over   *)
(* what it returns.  One frame is one step.                                *)
(***************************************************************************)
\* A call with an on<M> handler: the handler's result, or the error the
\* router makes of params that do not decode or of a handler that throws.
ReceiveHandled(p, f, kind) ==
    /\ Takes(p, f)
    /\ f.kind = "call"
    /\ f.method \in On[p]
    /\ kind \in Reply
    /\ TakeAndWrite(p, FrameOf(kind, f.id, f.method, said[p]))
    /\ UNCHANGED <<next, pending, done, owed, said, heard, alive, closed>>

\* A call with defer<M>: handle() returns no frame, the host keeps the id.
ReceiveDeferred(p, f) ==
    /\ Takes(p, f)
    /\ f.kind = "call"
    /\ f.method \in Defer[p]
    /\ owed' = [owed EXCEPT ![p] = @ \cup {[id |-> f.id, method |-> f.method]}]
    /\ wire' = [wire EXCEPT ![p] = Tail(@)]
    /\ UNCHANGED <<next, pending, done, said, heard, alive, closed>>

\* A call nobody registered: MethodNotFound.
ReceiveUnknown(p, f) ==
    /\ Takes(p, f)
    /\ f.kind = "call"
    /\ f.method \notin On[p] \cup Defer[p]
    /\ TakeAndWrite(p, FrameOf("error", f.id, f.method, said[p]))
    /\ UNCHANGED <<next, pending, done, owed, said, heard, alive, closed>>

\* A notification: router.handle(host, note).
ReceiveNotice(p, f) ==
    /\ Takes(p, f)
    /\ f.kind = "note"
    /\ heard' = [heard EXCEPT ![p] = @ + 1]
    /\ wire' = [wire EXCEPT ![p] = Tail(@)]
    /\ UNCHANGED <<next, pending, done, owed, said, alive, closed>>

\* A reply to a request the engine waits on: it completes.
ReceiveReply(p, f, r) ==
    /\ Takes(p, f)
    /\ f.kind \in Reply
    /\ r \in pending[p]
    /\ r.id = f.id
    /\ pending' = [pending EXCEPT ![p] = @ \ {r}]
    /\ done' = [done EXCEPT ![p] = @ \cup {Answered(r, f, heard[p])}]
    /\ wire' = [wire EXCEPT ![p] = Tail(@)]
    /\ UNCHANGED <<next, owed, said, heard, alive, closed>>

\* A reply to a request the engine no longer waits on: dropped.
ReceiveLate(p, f) ==
    /\ Takes(p, f)
    /\ f.kind \in Reply
    /\ \A r \in pending[p] : r.id # f.id
    /\ wire' = [wire EXCEPT ![p] = Tail(@)]
    /\ UNCHANGED <<next, pending, done, owed, said, heard, alive, closed>>

-----------------------------------------------------------------------------
(***************************************************************************)
(* Deadlines and the end of the stream.                                    *)
(***************************************************************************)
\* step(engine, Tick{now}): S is every request whose deadline is behind now.
\* A timer may fire after the end of the stream, too.
Expire(p, S) ==
    /\ alive[p]
    /\ S # {}
    /\ S \subseteq {r \in pending[p] : r.timed}
    /\ pending' = [pending EXCEPT ![p] = @ \ S]
    /\ done' = [done EXCEPT ![p] = @ \cup {Failed(r, "timeout", heard[p]) : r \in S}]
    /\ UNCHANGED <<next, owed, wire, said, heard, alive, closed>>

\* p's process ends.  What it had written stays readable; what was on its way
\* to it is never read.
Hangup(p) ==
    /\ alive[p]
    /\ alive' = [alive EXCEPT ![p] = FALSE]
    /\ UNCHANGED <<next, pending, done, owed, wire, said, heard, closed>>

\* step(engine, Closed{}) at the end of the stream: everything pending fails.
StreamEnd(p) ==
    /\ Running(p)
    /\ ~alive[Other(p)]
    /\ wire[p] = << >>
    /\ pending' = [pending EXCEPT ![p] = {}]
    /\ done' = [done EXCEPT ![p] =
                  @ \cup {Failed(r, "closed", heard[p]) : r \in pending[p]}]
    /\ closed' = [closed EXCEPT ![p] = TRUE]
    /\ UNCHANGED <<next, owed, wire, said, heard, alive>>

-----------------------------------------------------------------------------
Receive(p) ==
    /\ wire[p] # << >>
    /\ LET f == Head(wire[p])
       IN  \/ \E kind \in Reply : ReceiveHandled(p, f, kind)
           \/ ReceiveDeferred(p, f)
           \/ ReceiveUnknown(p, f)
           \/ ReceiveNotice(p, f)
           \/ \E r \in pending[p] : ReceiveReply(p, f, r)
           \/ ReceiveLate(p, f)

Next ==
    \E p \in Peer :
        \/ \E m \in Method, timed \in BOOLEAN : SendRequest(p, m, timed)
        \/ \E n \in Notice : SendNotice(p, n)
        \/ \E c \in owed[p] : Answer(p, c)
        \/ Receive(p)
        \/ \E S \in SUBSET pending[p] : Expire(p, S)
        \/ Hangup(p)
        \/ StreamEnd(p)

Spec == Init /\ [][Next]_vars

(***************************************************************************)
(* What a host owes its peer: to keep reading, to answer what it deferred, *)
(* and to report the end of the stream.  Nobody owes a request, a notice,  *)
(* a deadline or a hangup.                                                 *)
(***************************************************************************)
Fairness ==
    \A p \in Peer :
        /\ WF_vars(Receive(p))
        /\ WF_vars(\E c \in owed[p] : Answer(p, c))
        /\ WF_vars(StreamEnd(p))

FairSpec == Spec /\ Fairness

\* A host that reads and keeps its clock, facing one that may never answer.
ClockFairness ==
    \A p \in Peer :
        /\ WF_vars(Receive(p))
        /\ WF_vars(StreamEnd(p))
        /\ WF_vars(Expire(p, {r \in pending[p] : r.timed}))

ClockSpec == Spec /\ ClockFairness

-----------------------------------------------------------------------------
(***************************************************************************)
(* Where the exchange of request i of peer p may be: its call on the way   *)
(* to the other side, owed there, or its reply on the way back.            *)
(***************************************************************************)
CallsAt(p, i) ==
    {k \in DOMAIN wire[Other(p)] :
        wire[Other(p)][k].kind = "call" /\ wire[Other(p)][k].id = i}

OwedAt(p, i) == {c \in owed[Other(p)] : c.id = i}

RepliesAt(p, i) ==
    {k \in DOMAIN wire[p] : wire[p][k].kind \in Reply /\ wire[p][k].id = i}

\* Every request p ever issued, finished or not.
Issued(p) == pending[p] \cup {c.req : c \in done[p]}

(***************************************************************************)
(* Properties.                                                             *)
(***************************************************************************)
\* Every id an engine handed out belongs to one request, which is pending or
\* has completed once, never both: whatever the order in which its reply, its
\* deadline and the end of the stream arrive.  (README.md:125-134, the loop
\* over fx.completed, Tick and Closed.)
CompletedOnce ==
    \A p \in Peer :
        /\ {r.id : r \in Issued(p)} = 1 .. next[p]
        /\ \A r, s \in Issued(p) : r.id = s.id => r = s
        /\ \A c, d \in done[p] : c.req = d.req => c = d
        /\ \A c \in done[p] : c.req \notin pending[p]

\* A completion is decoded as the result of the method the request named,
\* although a reply carries only an id and both sides hand out the same ids:
\* result<M> at the requester meets what reply<M> or on<M> encoded.
ReplyTyping ==
    \A p \in Peer : \A c \in done[p] : c.shape = c.req.method

\* A request is answered at most once: its call, the debt for it and its
\* reply never exist together, and never after the reply was consumed.
AnsweredOnce ==
    \A p \in Peer : \A i \in 1 .. next[p] :
        /\ \A j, k \in CallsAt(p, i) : j = k
        /\ \A c, d \in OwedAt(p, i) : c = d
        /\ \A j, k \in RepliesAt(p, i) : j = k
        /\ CallsAt(p, i) = {} \/ OwedAt(p, i) = {}
        /\ CallsAt(p, i) = {} \/ RepliesAt(p, i) = {}
        /\ OwedAt(p, i) = {} \/ RepliesAt(p, i) = {}
        /\ \A c \in done[p] : c.req.id = i /\ c.outcome \in Reply =>
               CallsAt(p, i) = {} /\ OwedAt(p, i) = {} /\ RepliesAt(p, i) = {}

\* While both sides run, a pending request is always somewhere: on its way,
\* owed by the other host, or answered and on its way back.
NoLostRequest ==
    (\A p \in Peer : Running(p)) =>
        \A p \in Peer : \A r \in pending[p] :
            CallsAt(p, r.id) \cup OwedAt(p, r.id) \cup RepliesAt(p, r.id) # {}

\* When a reply completes a request, the requester has been handed exactly
\* the notifications the answerer sent before that reply: a prompt's result
\* never overtakes the updates of its turn, and no later update precedes it
\* (tests/protocol_loopback.cpp:140-157).
StreamOrder ==
    \A p \in Peer : \A c \in done[p] : c.outcome \in Reply => c.sent = c.heard

\* After the end of the stream an engine has nothing pending and never
\* reports or accepts anything again (README.md:134, "fails everything still
\* pending").
SilentAfterClose ==
    [][\A p \in Peer : closed[p] =>
          pending[p] = {} /\ done'[p] = done[p] /\ pending'[p] = {} /\ closed'[p]]_vars

\* A request issued by a host that stays up completes: by its reply, its
\* deadline or the end of the stream.
EveryRequestCompletes ==
    \A p \in Peer : \A i \in 1 .. MaxRequests[p] :
        (\E r \in pending[p] : r.id = i)
            ~> (~alive[p] \/ \E c \in done[p] : c.req.id = i)

\* The same for a request with a deadline when the other host may never
\* answer it (README.md:133, step(engine, Tick{now})).
TimedRequestCompletes ==
    \A p \in Peer : \A i \in 1 .. MaxRequests[p] :
        (\E r \in pending[p] : r.id = i /\ r.timed)
            ~> (~alive[p] \/ \E c \in done[p] : c.req.id = i)
=============================================================================
