---------------------------- MODULE MCConnection ----------------------------
(***************************************************************************)
(* A small connection: the methods of tests/protocol_loopback.cpp, one     *)
(* answered at once, one deferred, one asked by the agent, and one that    *)
(* each side may send although the other side registered nothing for it.   *)
(***************************************************************************)
EXTENDS AcpConnectionInv

MCMethod == {"session/new", "session/prompt", "session/request_permission"}

MCNotice == {"session/update"}

MCOn == [p \in Peer |-> IF p = "agent" THEN {"session/new"}
                        ELSE {"session/request_permission"}]

MCDefer == [p \in Peer |-> IF p = "agent" THEN {"session/prompt"} ELSE {}]

\* Two requests of the client, one of the agent, crossing.
Requests == [p \in Peer |-> IF p = "client" THEN 2 ELSE 1]

OneRequest == [p \in Peer |-> 1]

Updates == [p \in Peer |-> IF p = "client" THEN 0 ELSE 1]

NoNotices == [p \in Peer |-> 0]
=============================================================================
