------------------------------ MODULE AcpCancel ------------------------------
(***************************************************************************)
(* Cancelling, over an AcpConnection.  A client may stop its turns by      *)
(* their session (session/cancel), either side may stop a request it made  *)
(* by its id ($/cancel_request); both are notifications, so they race the  *)
(* reply they want to prevent, and the ids in them are those of the        *)
(* SENDER's engine.  Both kinds of request that last are deferred: the     *)
(* agent's turns and the client's permission dialogs.                      *)
(*                                                                         *)
(* acp-cpp names the messages and says what they ask for (protocol.hpp:    *)
(* 65-68, methods.hpp:72-76); the handlers are the host's.  The handler    *)
(* assumed here does no more than find the calls that are meant and mark   *)
(* them.  What a host answers, when it does so, and whether a mark makes   *)
(* it stop, is left open: any call that is owed may be answered at any     *)
(* moment, marked or not.                                                  *)
(***************************************************************************)
EXTENDS AcpConnection

CONSTANT Session

ASSUME CancelAssumption ==
    /\ Method = {"session/prompt", "session/request_permission"}
    /\ Notice = {"session/cancel", "$/cancel_request"}
    /\ "session/prompt" \in Defer["agent"]
    /\ "session/request_permission" \in Defer["client"]

VARIABLES
    prompts,  \* prompts[i]: the session of session/prompt i
    named,    \* named[p][k]: what notification k of p names, an id or a session
    covers,   \* covers[p][k]: p's requests it was meant for (history)
    marked    \* marked[p]: the calls p owes and was told to cancel

cancelData == <<prompts, named, covers, marked>>

cancelVars == <<vars, cancelData>>

\* A call is marked only while it is owed: a cancel that comes too late leaves
\* nothing behind.
CancelTypeOK ==
    /\ TypeOK
    /\ prompts \in Seq(Session)
    /\ named \in [Peer -> Seq(Nat \cup Session)]
    /\ covers \in [Peer -> Seq(SUBSET Nat)]
    /\ DOMAIN marked = Peer
    /\ \A p \in Peer : /\ Len(named[p]) = said[p]
                       /\ marked[p] \subseteq owed[p]

CancelInit ==
    /\ Init
    /\ prompts = << >>
    /\ named = [p \in Peer |-> << >>]
    /\ covers = [p \in Peer |-> << >>]
    /\ marked = [p \in Peer |-> {}]

\* Notification n of p, which names x and is meant for the requests with ids S.
Cancel(p, n, x, S) ==
    /\ SendNotice(p, n)
    /\ named' = [named EXCEPT ![p] = Append(@, x)]
    /\ covers' = [covers EXCEPT ![p] = Append(@, S)]
    /\ UNCHANGED <<prompts, marked>>

\* p takes a notification and marks the calls in S.
TakeCancel(p, f, S) ==
    /\ ReceiveNotice(p, f)
    /\ marked' = [marked EXCEPT ![p] = @ \cup S]
    /\ UNCHANGED <<prompts, named, covers>>

-----------------------------------------------------------------------------
(***************************************************************************)
(* Faulty variants of single operations, one for each way the properties   *)
(* could fail.  No specification uses them; each shows that a property     *)
(* notices the fault it is there for.                                      *)
(***************************************************************************)
\* The receiver stops whatever it has deferred, without a look at the id.
TakeCancelRequestBlind(p, f) ==
    /\ f.method = "$/cancel_request"
    /\ TakeCancel(p, f, owed[p])

\* The receiver keeps the id, whether it owes that call or not.
TakeCancelRequestUnowed(p, f) ==
    /\ f.method = "$/cancel_request"
    /\ TakeCancel(p, f, {[id |-> named[Other(p)][f.sent], method |-> m] : m \in Defer[p]})

\* The agent takes session/cancel for all its turns.
TakeCancelTurnAll(f) ==
    /\ f.method = "session/cancel"
    /\ TakeCancel("agent", f, owed["agent"])

\* The agent stops one turn of the session, like a host with one slot.
TakeCancelTurnOne(f) ==
    /\ f.method = "session/cancel"
    /\ LET S == {c \in owed["agent"] : prompts[c.id] = named["client"][f.sent]}
       IN  IF S = {} THEN TakeCancel("agent", f, {})
           ELSE \E c \in S : TakeCancel("agent", f, {c})

-----------------------------------------------------------------------------
(***************************************************************************)
(* Requests.                                                               *)
(***************************************************************************)
\* request<SessionPrompt>: nothing in the repository keeps a client from
\* having two turns of a session open.
Prompt(s, timed) ==
    /\ SendRequest("client", "session/prompt", timed)
    /\ prompts' = Append(prompts, s)
    /\ UNCHANGED <<named, covers, marked>>

\* request<RequestPermission>
AskPermission(timed) ==
    /\ SendRequest("agent", "session/request_permission", timed)
    /\ UNCHANGED cancelData

\* reply<M>(call, result), whatever the result says and whoever asked for it.
AnswerCall(p, c) ==
    /\ Answer(p, c)
    /\ marked' = [marked EXCEPT ![p] = @ \ {c}]
    /\ UNCHANGED <<prompts, named, covers>>

-----------------------------------------------------------------------------
(***************************************************************************)
(* Cancelling.                                                             *)
(***************************************************************************)
\* write(notify<CancelRequest>({id})), also for a request that timed out or
\* whose reply has been read.
CancelRequest(p, r) ==
    /\ r \in Issued(p)
    /\ Cancel(p, "$/cancel_request", r.id, {r.id})

\* write(notify<SessionCancel>({session}))
CancelTurn(s) ==
    /\ \E i \in DOMAIN prompts : prompts[i] = s
    /\ Cancel("client", "session/cancel", s, {i \in DOMAIN prompts : prompts[i] = s})

\* The id is one of the peer's requests, that is of a call owed here, or of
\* one already answered.
TakeCancelRequest(p, f) ==
    /\ f.method = "$/cancel_request"
    /\ TakeCancel(p, f, {c \in owed[p] : c.id = named[Other(p)][f.sent]})

TakeCancelTurn(f) ==
    /\ f.method = "session/cancel"
    /\ TakeCancel("agent", f, {c \in owed["agent"] : prompts[c.id] = named["client"][f.sent]})

-----------------------------------------------------------------------------
Take(p) ==
    /\ wire[p] # << >>
    /\ LET f == Head(wire[p])
       IN  \/ TakeCancelRequest(p, f)
           \/ p = "agent" /\ TakeCancelTurn(f)
           \/ /\ \/ ReceiveDeferred(p, f)
                 \/ \E r \in pending[p] : ReceiveReply(p, f, r)
                 \/ ReceiveLate(p, f)
              /\ UNCHANGED cancelData

CancelNext ==
    \/ \E s \in Session, timed \in BOOLEAN : Prompt(s, timed)
    \/ \E timed \in BOOLEAN : AskPermission(timed)
    \/ \E s \in Session : CancelTurn(s)
    \/ \E p \in Peer :
           \/ \E r \in Issued(p) : CancelRequest(p, r)
           \/ \E c \in owed[p] : AnswerCall(p, c)
           \/ Take(p)
           \/ \E S \in SUBSET pending[p] : Expire(p, S) /\ UNCHANGED cancelData

CancelSpec == CancelInit /\ [][CancelNext]_cancelVars

-----------------------------------------------------------------------------
(***************************************************************************)
(* Properties.                                                             *)
(***************************************************************************)
\* A cancel stops only what it was meant for: not another turn that is open,
\* not the turn of the same session that was begun after it was sent, and not
\* the request that has the same id at the other engine (protocol.hpp:65-68,
\* methods.hpp:72-76).
CancelHitsItsTarget ==
    \A p \in Peer : \A c \in marked[p] :
        \E k \in DOMAIN covers[Other(p)] : c.id \in covers[Other(p)][k]

\* A cancel that has been read was neither too early nor lost: no request it
\* was meant for is still on its way behind it, and each of them that is not
\* answered yet is marked.  session/cancel stops EVERY turn of its session
\* (methods.hpp:72-76).
CancelMissesNothing ==
    \A p \in Peer : \A k \in 1 .. heard[p] : \A i \in covers[Other(p)][k] :
        /\ CallsAt(Other(p), i) = {}
        /\ \A c \in owed[p] : c.id = i => c \in marked[p]

-----------------------------------------------------------------------------
(***************************************************************************)
(* The inductive invariant behind both.                                    *)
(***************************************************************************)
\* The tables have a row for every notification and every turn, and no cancel
\* is meant for a request that did not exist when it was sent.
TablesInv ==
    /\ CancelTypeOK
    /\ Len(prompts) = next["client"]
    /\ \A p \in Peer : /\ Len(covers[p]) = said[p]
                       /\ \A k \in DOMAIN covers[p] : covers[p][k] \subseteq 1 .. next[p]
                       /\ heard[p] <= said[Other(p)]

\* What a notification names tells what it is meant for: a request, or turns
\* of a session.
NamedInv(p) ==
    \A k \in DOMAIN wire[p] : wire[p][k].kind = "note" =>
        LET n == wire[p][k].sent
            C == covers[Other(p)][n]
        IN  /\ n \in 1 .. said[Other(p)]
            /\ wire[p][k].method = "$/cancel_request" => C = {named[Other(p)][n]}
            /\ wire[p][k].method = "session/cancel" =>
                   \A i \in C : i \in DOMAIN prompts /\ prompts[i] = named[Other(p)][n]

\* A cancel on its way to p is behind every call it is meant for.
BehindInv(p) ==
    \A j, k \in DOMAIN wire[p] :
        wire[p][k].kind = "note" /\ wire[p][j].kind = "call"
            /\ wire[p][j].id \in covers[Other(p)][wire[p][k].sent] => j < k

\* The agent will know turn i when it gets to frame k.
KnownBefore(i, k) ==
    \/ \E c \in owed["agent"] : c.id = i
    \/ \E j \in DOMAIN wire["agent"] :
           j < k /\ wire["agent"][j].kind = "call" /\ wire["agent"][j].id = i

\* If it names a session it is meant for every turn of that session the agent
\* will know when it gets there.
TurnsInv ==
    \A k \in DOMAIN wire["agent"] :
        LET f == wire["agent"][k]
        IN  f.kind = "note" /\ f.method = "session/cancel" =>
                \A i \in DOMAIN prompts :
                    prompts[i] = named["client"][f.sent] /\ KnownBefore(i, k) =>
                        i \in covers["client"][f.sent]

CancelInv ==
    /\ TablesInv
    /\ TurnsInv
    /\ \A p \in Peer : NamedInv(p) /\ BehindInv(p)
    /\ CancelHitsItsTarget
    /\ CancelMissesNothing
=============================================================================
