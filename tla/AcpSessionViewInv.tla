-------------------------- MODULE AcpSessionViewInv --------------------------
(***************************************************************************)
(* The inductive invariant behind the properties of AcpSessionView: which  *)
(* state of the session goes with each frame that is still on its way, and *)
(* what its payload makes of the state before.                             *)
(***************************************************************************)
EXTENDS AcpSessionView

\* Each payload is in its table, and each state in the trail.
TablesInv ==
    /\ Len(told) = said["agent"]
    /\ Len(wanted) = next["client"]
    /\ Len(trail) = 1 + Len(wire["client"]) + taken
    /\ own = trail[Len(trail)]

\* With these payloads of updates and set_mode requests, frame f takes the
\* session from s to t.
Leads(notes, modes, f, s, t) ==
    /\ f.kind = "note" =>
           /\ f.sent \in DOMAIN notes
           /\ \A p \in notes[f.sent] :
                  Follows(Apply(s, p.update), t) /\ Apply(s, p.update).mode = t.mode
    /\ f.kind = "result" =>
           f.id \in DOMAIN modes /\ t = [s EXCEPT !.mode = modes[f.id]]
    /\ f.kind \in {"call", "error"} => t = s

FramesInv ==
    \A k \in DOMAIN wire["client"] :
        Leads(told, wanted, wire["client"][k], trail[taken + k], trail[taken + k + 1])

\* What is streamed of a summary are its first chunks, in order.
StreamInv ==
    \A c \in own.compaction : c.status = "in_progress" =>
        \E n \in 0 .. MaxNotices["agent"] : n < said["agent"] /\ c.summary = Streamed(n)

\* The inductive invariant, next to that of the connection.
ViewInv ==
    /\ ViewTypeOK
    /\ TablesInv
    /\ FramesInv
    /\ StreamInv
    /\ OnlyRendered
    /\ ViewInStep
=============================================================================
