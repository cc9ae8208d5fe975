----------------------------- MODULE MCLoopback -----------------------------
(***************************************************************************)
(* The hosts of tests/protocol_loopback.cpp with room for several sessions *)
(* and turns.                                                              *)
(***************************************************************************)
EXTENDS AcpLoopbackInv

MCMethod == {"initialize", "session/new", "session/prompt",
             "session/request_permission"}

MCNotice == {"session/update"}

MCOn == [p \in Peer |-> IF p = "agent" THEN {"initialize", "session/new"}
                        ELSE {"session/request_permission"}]

MCDefer == [p \in Peer |-> IF p = "agent" THEN {"session/prompt"} ELSE {}]

\* initialize and five more: one session and four turns, or two and three, and
\* so on, each turn with its permission request.
Requests == [p \in Peer |-> IF p = "client" THEN 6 ELSE 4]

Updates == [p \in Peer |-> IF p = "client" THEN 0 ELSE 4]
=============================================================================
