---------------------------- MODULE AcpLoopbackInv ----------------------------
(***************************************************************************)
(* The inductive invariant behind the safety properties of AcpLoopback.    *)
(* The two hosts take turns: the one request the client waits on is in one *)
(* of five phases, each of which says where every frame is.                *)
(***************************************************************************)
EXTENDS AcpLoopback

Idle ==
    /\ pending["client"] = {} /\ pending["agent"] = {} /\ owed["agent"] = {}
    /\ \A p \in Peer : wire[p] = << >>
    /\ permissions_asked = next["agent"]

\* Stream s is a single frame, about request i.
Single(s, kind, i) == Len(s) = 1 /\ s[1].kind = kind /\ s[1].id = i

\* Stream s is updates and one last frame, about request i.
Last(s, kind, i) ==
    /\ s # << >>
    /\ s[Len(s)].kind = kind /\ s[Len(s)].id = i
    /\ \A k \in 1 .. Len(s) - 1 : s[k].kind = "note"

\* Request r is on its way to the agent.
Calling(r) ==
    /\ Single(wire["agent"], "call", r.id) /\ wire["client"] = << >>
    /\ pending["agent"] = {} /\ owed["agent"] = {}
    /\ permissions_asked = next["agent"]

\* The agent owes the answer of r, under the id in its slot.
Open(r) ==
    /\ r.method = "session/prompt"
    /\ owed["agent"] = {[id |-> r.id, method |-> r.method]}
    /\ prompt_call = {r.id}

\* The agent works on turn r.
Working(r) ==
    /\ Open(r) /\ wire["agent"] = << >> /\ pending["agent"] = {}
    /\ \A k \in DOMAIN wire["client"] : wire["client"][k].kind = "note"
    /\ permissions_asked = next["agent"]

\* ... and waits for a permission.
Waits == \E q \in pending["agent"] : pending["agent"] = {q} /\ q.id = next["agent"]

\* Its permission request is on the way to the client, behind the updates.
Asking(r) ==
    /\ Open(r) /\ wire["agent"] = << >>
    /\ Waits
    /\ Last(wire["client"], "call", next["agent"])
    /\ permissions_asked = next["agent"] - 1

\* The decision is on the way back.
Granting(r) ==
    /\ Open(r) /\ wire["client"] = << >>
    /\ Waits
    /\ Single(wire["agent"], "result", next["agent"])
    /\ permissions_asked = next["agent"]

\* The agent has the decision on turn i.
Decided(i) ==
    \E k \in Finished("agent", "session/request_permission") : asks[k].turn = i

\* The result of r is on the way to the client, behind the updates.
Answering(r) ==
    /\ Last(wire["client"], "result", r.id) /\ wire["agent"] = << >>
    /\ pending["agent"] = {} /\ owed["agent"] = {}
    /\ permissions_asked = next["agent"]
    /\ r.method = "session/prompt" => Decided(r.id)
    /\ r.method = "session/new" => r.id \in DOMAIN created

Phase(r) == Calling(r) \/ Working(r) \/ Asking(r) \/ Granting(r) \/ Answering(r)

PhaseInv ==
    \/ Idle
    \/ \E r \in pending["client"] :
           pending["client"] = {r} /\ r.id = next["client"] /\ Phase(r)

\* Nothing fails, the agent asks for permissions only, and a turn that has
\* finished was decided.
ResultsInv ==
    /\ \A p \in Peer : \A d \in done[p] : d.outcome = "result"
    /\ \A r \in Issued("agent") : r.method = "session/request_permission"
    /\ \A i \in Finished("client", "session/prompt") : Decided(i)

\* Request i of the client is of method m.
IsMade(i, m) == \E r \in Issued("client") : r.id = i /\ r.method = m

PromptsInv ==
    /\ \A r \in Issued("client") : r.method = "session/prompt" => r.id \in DOMAIN prompts
    /\ \A i \in DOMAIN prompts : IsMade(i, "session/prompt") /\ prompts[i] \in Known

\* A session is created when its request is answered.
CreatedInv ==
    /\ SessionsDistinct
    /\ \A i \in DOMAIN created :
           /\ IsMade(i, "session/new")
           /\ \A k \in DOMAIN wire["agent"] :
                  wire["agent"][k].kind = "call" => wire["agent"][k].id # i
    /\ Finished("client", "session/new") \subseteq DOMAIN created

\* Updates that are not yet collected are of the turn the client waits for.
ToldInv ==
    /\ Len(told) = said["agent"]
    /\ heard["client"] <= Len(told)
    /\ Len(updates) = heard["client"]
    /\ \A k \in DOMAIN updates : updates[k] = told[k]
    /\ \A k \in DOMAIN wire["client"] :
           wire["client"][k].kind = "note" => wire["client"][k].sent \in DOMAIN told
    /\ \A k \in DOMAIN told :
           /\ told[k].turn \in DOMAIN prompts
           /\ told[k].session \in Known
           /\ k > heard["client"] => told[k].turn = next["client"]
                                     /\ pending["client"] # {}

\* The inductive invariant: what the request the client waits on is doing, and
\* what each table holds meanwhile.
LoopInv == LoopTypeOK /\ PhaseInv /\ ResultsInv /\ PromptsInv /\ CreatedInv /\ ToldInv
=============================================================================
