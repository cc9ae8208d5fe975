----------------------------- MODULE MCHandshake -----------------------------
(***************************************************************************)
(* An agent built with the draft ceiling of 2, a client that may ask for   *)
(* any version around it, and deadlines that let it ask three times.       *)
(***************************************************************************)
EXTENDS AcpHandshake

MCMethod == {"initialize", "session/load", "session/prompt", "terminal/create"}

MCNotice == {}

MCOn == [p \in Peer |-> IF p = "agent" THEN {"initialize", "session/prompt"}
                        ELSE {"terminal/create"}]

NothingDeferred == [p \in Peer |-> {}]

Requests == [p \in Peer |-> IF p = "client" THEN 3 ELSE 1]

Updates == [p \in Peer |-> 0]

AroundCeiling == -1 .. 3

\* The agent cannot load sessions; the client has terminals and no more.
MCAdvertised == [p \in Peer |-> IF p = "client" THEN {"terminal"} ELSE {}]
=============================================================================
