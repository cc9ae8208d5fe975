------------------------------- MODULE MCCancel -------------------------------
(***************************************************************************)
(* Two sessions, turns and permission requests whose ids coincide.         *)
(***************************************************************************)
EXTENDS AcpCancel, TLC

MCMethod == {"session/prompt", "session/request_permission"}

MCNotice == {"session/cancel", "$/cancel_request"}

NothingOn == [p \in Peer |-> {}]

MCDefer == [p \in Peer |-> IF p = "agent" THEN {"session/prompt"}
                           ELSE {"session/request_permission"}]

Requests == [p \in Peer |-> IF p = "client" THEN 2 ELSE 1]

Cancels == [p \in Peer |-> IF p = "client" THEN 2 ELSE 1]

\* The sessions are interchangeable, and the run has no liveness property.
Symmetry == Permutations(Session)

=============================================================================
