----------------------------- MODULE AcpLoopback -----------------------------
(***************************************************************************)
(* The two hosts of tests/protocol_loopback.cpp over an AcpConnection: the *)
(* fields of struct Agent and struct Client, their handlers, and the       *)
(* script of the test case with its session/new and session/prompt parts   *)
(* repeated.  The test moves every frame of a stream at once; here the     *)
(* sides take one frame at a time and the streams are never drained for    *)
(* them, so the script's CHECKs become properties of every interleaving.   *)
(*                                                                         *)
(* A payload is what the script reads of it: a sessionId is the number in  *)
(* "s" + to_string(++a.sessions), and a turn is the id of its              *)
(* session/prompt request.                                                 *)
(***************************************************************************)
EXTENDS AcpConnection, FiniteSets

ASSUME LoopAssumption ==
    /\ Method = {"initialize", "session/new", "session/prompt", "session/request_permission"}
    /\ Notice = {"session/update"}
    /\ On = [p \in Peer |-> IF p = "agent" THEN {"initialize", "session/new"}
                           ELSE {"session/request_permission"}]
    /\ Defer = [p \in Peer |-> IF p = "agent" THEN {"session/prompt"} ELSE {}]

VARIABLES
    sessions,           \* Agent.sessions
    prompt_call,        \* Agent.prompt_call: {} is Nothing, {i} is Single(i)
    updates,            \* Client.updates
    permissions_asked,  \* Client.permissions_asked
    created,            \* created[i]: the sessionId replied to session/new i
    prompts,            \* prompts[i]: the sessionId in session/prompt i
    asks,               \* asks[i]: session and turn of request_permission i
    told                \* told[k]: session and turn of the k-th update sent

hostVars == <<sessions, prompt_call, updates, permissions_asked,
              created, prompts, asks, told>>

loopVars == <<vars, hostVars>>

\* What an update or a permission request is about.
Subject == [session : Nat, turn : Nat]

Domains ==  \* the ids each payload table holds
    /\ DOMAIN created \subseteq 1 .. next["client"]
    /\ DOMAIN prompts \subseteq 1 .. next["client"]
    /\ DOMAIN asks = 1 .. next["agent"]

LoopTypeOK ==
    /\ TypeOK
    /\ sessions \in Nat
    /\ prompt_call \in SUBSET Nat
    /\ updates \in Seq(Subject)
    /\ permissions_asked \in Nat
    /\ Domains
    /\ \A i \in DOMAIN created : created[i] \in Nat
    /\ \A i \in DOMAIN prompts : prompts[i] \in Nat
    /\ \A i \in DOMAIN asks : asks[i] \in Subject
    /\ told \in Seq(Subject)

\* Agent and Client are default constructed; both streams are empty deques.
LoopInit ==
    /\ Init
    /\ sessions = 0
    /\ prompt_call = {}
    /\ updates = << >>
    /\ permissions_asked = 0
    /\ created = << >>
    /\ prompts = << >>
    /\ asks = << >>
    /\ told = << >>

\* Table t with entry i added.
With(t, i, v) == [j \in DOMAIN t \cup {i} |-> IF j = i THEN v ELSE t[j]]

\* p's requests of method m that completed with a result.
Finished(p, m) ==
    {d.req.id : d \in {c \in done[p] : c.req.method = m /\ c.outcome = "result"}}

\* The sessionIds the client has read out of completed session/new requests.
Known == {created[i] : i \in Finished("client", "session/new")}

-----------------------------------------------------------------------------
(***************************************************************************)
(* The client's script: one request at a time.                             *)
(***************************************************************************)
\* The script goes on when what it waited for has completed.
ClientIdle == pending["client"] = {}

Initialize ==
    /\ next["client"] = 0
    /\ SendRequest("client", "initialize", FALSE)
    /\ UNCHANGED hostVars

NewSession ==
    /\ ClientIdle
    /\ Finished("client", "initialize") # {}
    /\ SendRequest("client", "session/new", FALSE)
    /\ UNCHANGED hostVars

\* pp.sessionId = sess->sessionId
Prompt(s) ==
    /\ ClientIdle
    /\ s \in Known
    /\ SendRequest("client", "session/prompt", FALSE)
    /\ prompts' = With(prompts, next'["client"], s)
    /\ UNCHANGED <<sessions, prompt_call, updates, permissions_asked,
                   created, asks, told>>

-----------------------------------------------------------------------------
(***************************************************************************)
(* Faulty variants of single operations, one for each way the properties   *)
(* could fail.  No specification uses them; each shows that a property     *)
(* notices the fault it is there for.                                      *)
(***************************************************************************)
\* The agent forgets to count its sessions.
AnswerSessionAgain(f) ==
    /\ f.method = "session/new"
    /\ ReceiveHandled("agent", f, "result")
    /\ created' = With(created, f.id, sessions)
    /\ UNCHANGED <<sessions, prompt_call, updates, permissions_asked, prompts, asks, told>>

\* The slot is filled by the first prompt only.
DeferIntoEmptySlot(f) ==
    /\ ReceiveDeferred("agent", f)
    /\ prompt_call' = IF prompt_call = {} THEN {f.id} ELSE prompt_call
    /\ UNCHANGED <<sessions, updates, permissions_asked, created, prompts, asks, told>>

\* Permission is asked for once, not once for each turn.
AskOnce(i) ==
    /\ i \in prompt_call /\ owed["agent"] # {} /\ pending["agent"] = {}
    /\ asks = << >>
    /\ SendRequest("agent", "session/request_permission", FALSE)
    /\ asks' = With(asks, next'["agent"], [session |-> prompts[i], turn |-> i])
    /\ UNCHANGED <<sessions, prompt_call, updates, permissions_asked,
                   created, prompts, told>>

\* The request is filed under the id before its own.
AskUnderLastId(i) ==
    /\ i \in prompt_call /\ owed["agent"] # {} /\ pending["agent"] = {}
    /\ \A k \in DOMAIN asks : asks[k].turn # i
    /\ SendRequest("agent", "session/request_permission", FALSE)
    /\ asks' = With(asks, next["agent"], [session |-> prompts[i], turn |-> i])
    /\ UNCHANGED <<sessions, prompt_call, updates, permissions_asked,
                   created, prompts, told>>

\* The agent answers without asking.
AnswerUnasked(i) ==
    /\ i \in prompt_call /\ pending["agent"] = {}
    /\ Answer("agent", [id |-> i, method |-> "session/prompt"])
    /\ UNCHANGED hostVars

\* The agent answers while the permission it asked for is still open.
AnswerOverPermission(i) ==
    /\ i \in prompt_call /\ \E k \in DOMAIN asks : asks[k].turn = i
    /\ Answer("agent", [id |-> i, method |-> "session/prompt"])
    /\ UNCHANGED hostVars

\* The client keeps the latest update only.
KeepLatestUpdate(f) ==
    /\ ReceiveNotice("client", f)
    /\ updates' = <<told[f.sent]>>
    /\ UNCHANGED <<sessions, prompt_call, permissions_asked,
                   created, prompts, asks, told>>

-----------------------------------------------------------------------------
(***************************************************************************)
(* The agent's handlers and its side of a turn.                            *)
(***************************************************************************)
\* on<Initialize>: the result says back the version it was asked for.
AnswerInitialize(f) ==
    /\ f.method = "initialize"
    /\ ReceiveHandled("agent", f, "result")
    /\ UNCHANGED hostVars

\* on<SessionNew>: "s" + to_string(++a.sessions).
AnswerSessionNew(f) ==
    /\ f.method = "session/new"
    /\ ReceiveHandled("agent", f, "result")
    /\ sessions' = sessions + 1
    /\ created' = With(created, f.id, sessions')
    /\ UNCHANGED <<prompt_call, updates, permissions_asked, prompts, asks, told>>

\* defer<SessionPrompt>; then agent.prompt_call = agent_fx.calls[0].id
DeferPrompt(f) ==
    /\ ReceiveDeferred("agent", f)
    /\ prompt_call' = {f.id}
    /\ UNCHANGED <<sessions, updates, permissions_asked,
                   created, prompts, asks, told>>

\* The agent is between taking a prompt and answering it, and waits for nothing.
InTurn(i) == i \in prompt_call /\ owed["agent"] # {} /\ pending["agent"] = {}

\* The permission request of turn i has been made.
Asked(i) == \E k \in DOMAIN asks : asks[k].turn = i

\* notify<SessionUpdate>(up), up.sessionId from the prompt
Update(i) ==
    /\ InTurn(i)
    /\ SendNotice("agent", "session/update")
    /\ told' = Append(told, [session |-> prompts[i], turn |-> i])
    /\ UNCHANGED <<sessions, prompt_call, updates, permissions_asked,
                   created, prompts, asks>>

\* request<RequestPermission>(agent.engine, rp)
AskPermission(i) ==
    /\ InTurn(i)
    /\ ~Asked(i)
    /\ SendRequest("agent", "session/request_permission", FALSE)
    /\ asks' = With(asks, next'["agent"], [session |-> prompts[i], turn |-> i])
    /\ UNCHANGED <<sessions, prompt_call, updates, permissions_asked,
                   created, prompts, told>>

\* reply<SessionPrompt>(*agent.prompt_call, pr); the slot keeps its id.
AnswerPrompt(i) ==
    /\ InTurn(i)
    /\ Asked(i)
    /\ Answer("agent", [id |-> i, method |-> "session/prompt"])
    /\ UNCHANGED hostVars

-----------------------------------------------------------------------------
(***************************************************************************)
(* The client's handlers, and the completions of both sides.               *)
(***************************************************************************)
\* on<RequestPermission>: ++c.permissions_asked, the first option is selected.
GrantPermission(f) ==
    /\ ReceiveHandled("client", f, "result")
    /\ permissions_asked' = permissions_asked + 1
    /\ UNCHANGED <<sessions, prompt_call, updates, created, prompts, asks, told>>

\* on<SessionUpdate>: c.updates.push_back(m).
CollectUpdate(f) ==
    /\ ReceiveNotice("client", f)
    /\ updates' = Append(updates, told[f.sent])
    /\ UNCHANGED <<sessions, prompt_call, permissions_asked,
                   created, prompts, asks, told>>

\* all += fx: the script finds the completion in what deliver() returns.
Complete(p, f) ==
    /\ \E r \in pending[p] : ReceiveReply(p, f, r)
    /\ UNCHANGED hostVars

-----------------------------------------------------------------------------
ClientStep ==
    \/ Initialize
    \/ NewSession
    \/ \E s \in Known : Prompt(s)

AgentStep ==
    \E i \in prompt_call : Update(i) \/ AskPermission(i) \/ AnswerPrompt(i)

Deliver(p) ==
    /\ wire[p] # << >>
    /\ LET f == Head(wire[p])
       IN  \/ p = "agent" /\ (AnswerInitialize(f) \/ AnswerSessionNew(f) \/ DeferPrompt(f))
           \/ p = "client" /\ (GrantPermission(f) \/ CollectUpdate(f))
           \/ Complete(p, f)

LoopNext == ClientStep \/ AgentStep \/ \E p \in Peer : Deliver(p)

LoopSpec == LoopInit /\ [][LoopNext]_loopVars

\* The test calls deliver() after every send and never stops inside a turn.
LoopFairness ==
    /\ \A p \in Peer : WF_loopVars(Deliver(p))
    /\ WF_loopVars(\E i \in prompt_call : AskPermission(i))
    /\ WF_loopVars(\E i \in prompt_call : AnswerPrompt(i))

FairLoopSpec == LoopSpec /\ LoopFairness

-----------------------------------------------------------------------------
(***************************************************************************)
(* Properties.                                                             *)
(***************************************************************************)
\* A turn is seen whole and in order: when the client's session/prompt
\* completes, its updates are exactly those the agent sent up to the end of
\* that turn, each filed under the session and the turn it was sent for
\* (tests/protocol_loopback.cpp:140-157).
TurnIsWhole ==
    /\ updates = SubSeq(told, 1, heard["client"])
    /\ \A i \in Finished("client", "session/prompt") :
           \A k \in DOMAIN told : told[k].turn = i => k <= Len(updates)
    /\ \A k \in DOMAIN updates :
           \A i \in Finished("client", "session/prompt") :
               i > updates[k].turn => updates[k].turn \in Finished("client", "session/prompt")
    /\ \A k \in DOMAIN updates : updates[k].session \in Known

\* A prompt is never answered over an open permission request: by the time the
\* client sees the turn end it has been asked once for that turn, and the agent
\* has the decision (lines 142-151).
PermissionBeforeAnswer ==
    \A i \in Finished("client", "session/prompt") :
        /\ \E k \in Finished("agent", "session/request_permission") : asks[k].turn = i
        /\ permissions_asked >= Cardinality(Finished("client", "session/prompt"))

\* The slot the deferred call is kept in always names the call that is owed,
\* although it is one slot for all turns and is never cleared (lines 125, 151).
SlotNamesDebt ==
    \A c \in owed["agent"] : prompt_call = {c.id} /\ c.method = "session/prompt"

\* Sessions are the agent's count of session/new calls, and no two requests
\* were given the same one (line 35).
SessionsDistinct ==
    /\ \A i, j \in DOMAIN created : created[i] = created[j] => i = j
    /\ {created[i] : i \in DOMAIN created} = 1 .. sessions

\* When the client's script may go on, nothing is left of the request before:
\* both engines have nothing pending, no call is owed and both streams are
\* empty (lines 158-159).
QuiescentBetweenRequests ==
    ClientIdle => /\ pending["agent"] = {}
                  /\ owed["agent"] = {}
                  /\ \A p \in Peer : wire[p] = << >>

\* Every turn ends: a prompt the client sent completes with a result.
TurnEnds ==
    \A i \in 1 .. MaxRequests["client"] :
        i \in DOMAIN prompts ~> i \in Finished("client", "session/prompt")
=============================================================================
