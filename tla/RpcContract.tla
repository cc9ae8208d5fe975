----------------------------- MODULE RpcContract -----------------------------
(***************************************************************************)
(* What a host may rely on when it calls request<M> on its engine, with no *)
(* streams, frames or debts: every request gets an id of its own, is open  *)
(* until it is settled, and is settled once, by an outcome whose result    *)
(* has the type of the method it named; the end of the stream settles      *)
(* everything that is open and nothing happens after it.                   *)
(***************************************************************************)
CONSTANTS
    Side,    \* the hosts
    Method,  \* request methods
    Id       \* request ids

VARIABLES
    open,     \* open[p]: requests p waits on
    settled,  \* settled[p]: requests p has an outcome for
    ended,    \* ended[p]: p's stream has ended
    up        \* up[p]: p's process runs

contractVars == <<open, settled, ended, up>>

Open == [id : Id, method : Method]

\* `type` is the method whose result type the outcome carries.
Settled == [id : Id, method : Method, type : Method,
            outcome : {"result", "error", "timeout", "closed"}]

\* The outcome of request r, decoded as r's own method.
Settle(r, outcome) ==
    [id |-> r.id, method |-> r.method, type |-> r.method, outcome |-> outcome]

UsedIds(p) == {r.id : r \in open[p]} \cup {r.id : r \in settled[p]}

ContractInit ==
    /\ open = [p \in Side |-> {}]
    /\ settled = [p \in Side |-> {}]
    /\ ended = [p \in Side |-> FALSE]
    /\ up = [p \in Side |-> TRUE]

\* A new request, under an id never used before.
Issue(p, r) ==
    /\ up[p] /\ ~ended[p]
    /\ r.id \notin UsedIds(p)
    /\ open' = [open EXCEPT ![p] = @ \cup {r}]
    /\ UNCHANGED <<settled, ended, up>>

\* The answer to one open request.
Reply(p, r, outcome) ==
    /\ up[p] /\ ~ended[p]
    /\ r \in open[p]
    /\ outcome \in {"result", "error"}
    /\ open' = [open EXCEPT ![p] = @ \ {r}]
    /\ settled' = [settled EXCEPT ![p] = @ \cup {Settle(r, outcome)}]
    /\ UNCHANGED <<ended, up>>

\* The deadline of some open requests.
TimeOut(p, S) ==
    /\ up[p] /\ ~ended[p]
    /\ S # {} /\ S \subseteq open[p]
    /\ open' = [open EXCEPT ![p] = @ \ S]
    /\ settled' = [settled EXCEPT ![p] = @ \cup {Settle(r, "timeout") : r \in S}]
    /\ UNCHANGED <<ended, up>>

\* The end of p's stream, once the other side is gone.
End(p) ==
    /\ up[p] /\ ~ended[p]
    /\ \E q \in Side \ {p} : ~up[q]
    /\ open' = [open EXCEPT ![p] = {}]
    /\ settled' = [settled EXCEPT ![p] = @ \cup {Settle(r, "closed") : r \in open[p]}]
    /\ ended' = [ended EXCEPT ![p] = TRUE]
    /\ UNCHANGED up

Leave(p) ==
    /\ up[p]
    /\ up' = [up EXCEPT ![p] = FALSE]
    /\ UNCHANGED <<open, settled, ended>>

ContractNext ==
    \E p \in Side :
        \/ \E i \in Id, m \in Method : Issue(p, [id |-> i, method |-> m])
        \/ \E r \in open[p], outcome \in {"result", "error"} : Reply(p, r, outcome)
        \/ \E S \in SUBSET open[p] : TimeOut(p, S)
        \/ End(p)
        \/ Leave(p)

ContractSpec == ContractInit /\ [][ContractNext]_contractVars
=============================================================================
