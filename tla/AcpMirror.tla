------------------------------- MODULE AcpMirror -------------------------------
(***************************************************************************)
(* What the streaming channel promises: a session has a history of states  *)
(* and a viewer, who is shown each of them in turn, none twice, none left  *)
(* out and nothing that never was one, and who in the end has seen all.    *)
(***************************************************************************)
EXTENDS Naturals, Sequences

VARIABLES
    history,  \* every state the session has been announced in, first to last
    seen,     \* how many of them the viewer has been shown
    shown     \* what the viewer is shown now

mirrorVars == <<history, seen, shown>>

MirrorInit ==
    /\ Len(history) = 1
    /\ seen = 1
    /\ shown = history[1]

\* The session moves on.
Publish ==
    /\ Len(history') = Len(history) + 1
    /\ SubSeq(history', 1, Len(history)) = history
    /\ UNCHANGED <<seen, shown>>

\* The viewer is shown the next state.
Show ==
    /\ seen < Len(history)
    /\ seen' = seen + 1
    /\ shown' = history[seen']
    /\ UNCHANGED history

MirrorNext == Publish \/ Show

MirrorSpec == MirrorInit /\ [][MirrorNext]_mirrorVars /\ WF_mirrorVars(Show)
=============================================================================
