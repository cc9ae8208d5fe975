---------------------------- MODULE AcpSessionView ----------------------------
(***************************************************************************)
(* What a client knows of a session, over an AcpConnection.  The agent     *)
(* keeps the session: its tool calls, its mode and its compactions.  The   *)
(* client sees it through session/update notifications and the result of   *)
(* its own session/set_mode; permission requests come in between, and the  *)
(* client decides on what it has been shown until then.  acp-cpp gives the *)
(* types and what a reader is to make of them ("a delta: every field       *)
(* except toolCallId is optional, meaning leave unchanged", "summary, when *)
(* present, replaces whatever summary was streamed so far"); the two       *)
(* states and their bookkeeping are the hosts'.  Payloads of updates go    *)
(* through to_json and from_json, which are parameters here, and are kept  *)
(* by the number of their notification, as what their reader will decode.  *)
(***************************************************************************)
EXTENDS AcpConnection, AcpHandCodec

CONSTANTS
    Caps,            \* clientCapabilities.session values a client may offer
    Calls,           \* the states of a tool call
    NewCall,         \* the one the agent announces it in
    Changes(_),      \* states a tool call may go to from the one it is in
    Modes,           \* mode ids; the session starts in FirstMode
    FirstMode,
    Final,           \* summaries a finished compaction may carry, a set of Maybe
    Block(_)         \* the content of the n-th summary chunk

VARIABLES
    caps,    \* the client's session capabilities
    known,   \* what the agent made of them at initialize
    own,     \* the session as the agent has it
    view,    \* the session as the client has it
    told,    \* told[k]: what decodes of the params of session/update number k
    wanted,  \* wanted[i]: the mode session/set_mode i asks for
    trail,   \* `own` at the start and with each frame for the client (history)
    taken,   \* how many of those frames the client has taken (history)
    stale    \* the last frame about the mode was a reply too late (history)

viewVars == <<caps, known, own, view, told, wanted, trail, taken, stale>>

sessionVars == <<vars, viewVars>>

Arms == {"SU_ToolCall", "SU_ToolCallUpdate", "SU_CurrentMode", "SU_Notice",
         "SU_Compaction", "SU_CompactionSummaryChunk"}

ArmOf(params) == The(params).update[1]

\* The members of ToolCallUpdate that may be left out.
Mutable == {"title", "name", "kind", "status", "content", "locations",
            "rawInput", "rawOutput"}

\* Those that are a Maybe in ToolCall, too.
Nullable == {"name", "rawInput", "rawOutput"}

CallMembers == Mutable \cup {"toolCallId", "_meta"}

-----------------------------------------------------------------------------
(***************************************************************************)
(* Deltas.                                                                 *)
(***************************************************************************)
\* The update that takes a tool call from `before` to `after`.
DeltaOf(before, after) ==
    [k \in DOMAIN before |->
       IF k \notin Mutable THEN before[k]
       ELSE IF after[k] = before[k] THEN Nothing
       ELSE IF k \in Nullable THEN after[k] ELSE Just(after[k])]

\* Session s with a tool call announced.
FileCall(s, c) == [s EXCEPT !.calls = Put(@, c.toolCallId, c)]

\* A fault: members that are left out go back to their defaults.
ApplyResetting(call, d) ==
    [k \in DOMAIN call |->
       IF k \notin Mutable \/ k = "title" THEN call[k]
       ELSE IF k \in Nullable THEN d[k]
       ELSE IF d[k] # Nothing THEN The(d[k])
       ELSE CASE k = "kind" -> "other" [] k = "status" -> "pending" [] OTHER -> << >>]

\* Nothing means "leave unchanged".
ApplyDelta(call, d) ==
    [k \in DOMAIN call |->
       IF k \notin Mutable \/ d[k] = Nothing THEN call[k]
       ELSE IF k \in Nullable THEN d[k] ELSE The(d[k])]

\* Session s after a delta; one for a call nobody announced has no effect.
Changed(s, d) ==
    IF d.toolCallId \in DOMAIN s.calls
    THEN [s EXCEPT !.calls[d.toolCallId] = ApplyDelta(@, d)]
    ELSE s

\* A fault: a final summary is added to the streamed one.
ApplyCompactionAdding(s, c) ==
    LET streamed == IF s.compaction = Nothing THEN << >> ELSE The(s.compaction).summary
    IN  [s EXCEPT !.compaction =
           Just([status |-> c.status,
                 summary |-> IF c.summary = Nothing THEN streamed
                             ELSE streamed \o The(c.summary)])]

\* A summary, when present, replaces whatever was streamed so far.
ApplyCompaction(s, c) ==
    LET streamed == IF s.compaction = Nothing THEN << >> ELSE The(s.compaction).summary
    IN  [s EXCEPT !.compaction =
           Just([status |-> c.status,
                 summary |-> IF c.summary = Nothing THEN streamed ELSE The(c.summary)])]

\* A fault: a chunk stands for the whole summary.
ApplyChunkInstead(s, c) ==
    IF s.compaction = Nothing THEN s
    ELSE [s EXCEPT !.compaction =
            Just([status |-> The(s.compaction).status, summary |-> <<c.content>>])]

ApplyChunk(s, c) ==
    IF s.compaction = Nothing THEN s
    ELSE LET streamed == The(s.compaction)
         IN  [s EXCEPT !.compaction =
                Just([status |-> streamed.status,
                      summary |-> Append(streamed.summary, c.content)])]

\* Session s after update u, a pair of an arm and its value.
Apply(s, u) ==
    CASE u[1] = "SU_ToolCall" -> FileCall(s, u[2])
      [] u[1] = "SU_ToolCallUpdate" -> Changed(s, u[2])
      [] u[1] = "SU_CurrentMode" -> [s EXCEPT !.mode = u[2].currentModeId]
      [] u[1] = "SU_Notice" -> [s EXCEPT !.notices = @ + 1]
      [] u[1] = "SU_Compaction" -> ApplyCompaction(s, u[2])
      [] u[1] = "SU_CompactionSummaryChunk" -> ApplyChunk(s, u[2])

-----------------------------------------------------------------------------
(***************************************************************************)
(* What the agent writes.                                                  *)
(***************************************************************************)
ToldChange(before, after) == <<"SU_ToolCallUpdate", DeltaOf(before, after)>>

ToldMode(m) == <<"SU_CurrentMode", [currentModeId |-> m, _meta |-> EmptyObj]>>

ToldNotice ==
    <<"SU_Notice", [severity |-> "info", title |-> "t", description |-> Nothing,
                    _meta |-> EmptyObj]>>

ToldCompaction(status, summary) ==
    <<"SU_Compaction", [compactionId |-> "c-1", status |-> status, summary |-> summary,
                        error |-> Nothing, _meta |-> EmptyObj]>>

ToldChunk(b) ==
    <<"SU_CompactionSummaryChunk", [compactionId |-> "c-1", content |-> b,
                                    _meta |-> EmptyObj]>>

UpdateMsg(u) == [sessionId |-> "sess-1", update |-> u, _meta |-> EmptyObj]

WrittenDeltas == UNION {{DeltaOf(c, after) : after \in Changes(c)} : c \in Calls}

WrittenUpdates ==
    {<<"SU_ToolCall", NewCall>>, ToldNotice, ToldCompaction("in_progress", Nothing)}
    \cup {<<"SU_ToolCallUpdate", d>> : d \in WrittenDeltas}
    \cup {ToldMode(m) : m \in Modes}
    \cup {ToldCompaction("completed", final) : final \in Final}
    \cup {ToldChunk(Block(n)) : n \in 1 .. MaxNotices["agent"]}

\* A value of type T is read as it was written.
Survives(T, v) == FromJson(Ref(T), ToJson(Ref(T), v)) = {v}

ASSUME ViewAssumption ==
    /\ {"session/set_mode", "session/request_permission"} \subseteq Method
    /\ "session/update" \in Notice
    /\ FirstMode \in Modes
    /\ NewCall \in Calls
    /\ \A c \in Caps : IsClientSessionCapabilities(c)

\* A tool call keeps its id and its metadata, and what has the members of one
\* state and some of another is a state of it, too.
ASSUME CallAssumption ==
    \A c \in Calls :
        /\ c = [k \in CallMembers |-> c[k]]
        /\ \A after \in Changes(c) :
               /\ after \in Calls
               /\ \A k \in CallMembers \ Mutable : after[k] = c[k]
        /\ \A d \in Calls : \A K \in SUBSET Mutable :
               d.toolCallId = c.toolCallId =>
                   [k \in CallMembers |-> IF k \in K THEN d[k] ELSE c[k]] \in Calls

\* The codecs return what was written (tests/spec_round_trip.cpp:11-21).
ASSUME PayloadAssumption ==
    \A u \in WrittenUpdates : Survives("SessionUpdateMsg", UpdateMsg(u))

-----------------------------------------------------------------------------
(***************************************************************************)
(* The session, as either side has it.                                     *)
(***************************************************************************)
\* The first n chunks of a summary.
Streamed(n) == [i \in 1 .. n |-> Block(i)]

Summaries == {Streamed(n) : n \in 0 .. MaxNotices["agent"]}

Compactions ==
    {Nothing}
    \cup {Just([status |-> "in_progress", summary |-> x]) : x \in Summaries}
    \cup {Just([status |-> "completed", summary |-> x]) : x \in Summaries \cup UNION Final}

\* Tool calls are kept by their id.
CallTables ==
    {f \in UNION {[D -> Calls] : D \in SUBSET {c.toolCallId : c \in Calls}} :
        \A x \in DOMAIN f : f[x].toolCallId = x}

Session ==
    [calls : CallTables, mode : Modes, compaction : Compactions, notices : Nat]

WrittenNotes == {{UpdateMsg(u)} : u \in WrittenUpdates}

ViewTypeOK ==
    /\ TypeOK
    /\ caps \in Caps
    /\ known = The(DecodeClientSessionCapabilities(EncodeClientSessionCapabilities(caps)))
    /\ own \in Session
    /\ view \in Session
    /\ told \in Seq(WrittenNotes)
    /\ wanted \in Seq(Modes)
    /\ trail \in Seq(Session)
    /\ taken \in Nat
    /\ stale \in BOOLEAN

ViewInit ==
    /\ Init
    /\ caps \in Caps
    /\ known = The(DecodeClientSessionCapabilities(EncodeClientSessionCapabilities(caps)))
    /\ own = [calls |-> << >>, mode |-> FirstMode, compaction |-> Nothing, notices |-> 0]
    /\ view = own
    /\ told = << >>
    /\ wanted = << >>
    /\ trail = <<own>>
    /\ taken = 0
    /\ stale = FALSE

-----------------------------------------------------------------------------
(***************************************************************************)
(* The agent.                                                              *)
(***************************************************************************)
\* What is read of a session/update.
NoteOf(u) ==
    FromJson(Ref("SessionUpdateMsg"), ToJson(Ref("SessionUpdateMsg"), UpdateMsg(u)))

\* write(notify<SessionUpdateNote>({session, u})) when the session becomes s.
Tell(u, s) ==
    /\ SendNotice("agent", "session/update")
    /\ told' = Append(told, NoteOf(u))
    /\ own' = s
    /\ trail' = Append(trail, s)
    /\ UNCHANGED <<caps, known, view, wanted, taken, stale>>

Announce ==
    /\ NewCall.toolCallId \notin DOMAIN own.calls
    /\ Tell(<<"SU_ToolCall", NewCall>>,
            [own EXCEPT !.calls = Put(@, NewCall.toolCallId, NewCall)])

\* Tool call x goes to `after`; the update has what changed and no more.
Progress(x, after) ==
    Tell(ToldChange(own.calls[x], after), [own EXCEPT !.calls[x] = after])

\* write(request<RequestPermission>(engine, params).send).  Its toolCall says
\* which call it is about and nothing new of it.
AskPermission ==
    /\ SendRequest("agent", "session/request_permission", FALSE)
    /\ trail' = Append(trail, own)
    /\ UNCHANGED <<caps, known, own, view, told, wanted, taken, stale>>

\* The agent changes the mode by itself.
Switch(m) ==
    /\ m # own.mode
    /\ Tell(ToldMode(m), [own EXCEPT !.mode = m])

Notify ==
    /\ known.notices
    /\ Tell(ToldNotice, [own EXCEPT !.notices = @ + 1])

\* The agent tells of compaction "c-1" that it now has `status`.
TellCompaction(status, summary, c) ==
    /\ known.compaction
    /\ Tell(ToldCompaction(status, summary), [own EXCEPT !.compaction = Just(c)])

StartCompaction ==
    /\ own.compaction = Nothing
    /\ TellCompaction("in_progress", Nothing, [status |-> "in_progress", summary |-> << >>])

StreamSummary ==
    /\ known.compaction
    /\ \E c \in own.compaction :
           /\ c.status = "in_progress"
           /\ Tell(ToldChunk(Block(Len(c.summary) + 1)),
                   [own EXCEPT !.compaction =
                      Just([status |-> c.status,
                            summary |-> Append(c.summary, Block(Len(c.summary) + 1))])])

\* The summary it ends with is the streamed one, or another as a whole.
FinishCompaction(final) ==
    \E c \in own.compaction :
        /\ c.status = "in_progress"
        /\ TellCompaction("completed", final,
               [status |-> "completed",
                summary |-> IF final = Nothing THEN c.summary ELSE The(final)])

\* on<SetMode>: the agent changes the mode, or the handler throws.
AnswerSetMode(f, kind) ==
    LET s == IF kind = "result" THEN [own EXCEPT !.mode = wanted[f.id]] ELSE own
    IN  /\ f.method = "session/set_mode"
        /\ ReceiveHandled("agent", f, kind)
        /\ own' = s
        /\ trail' = Append(trail, s)
        /\ UNCHANGED <<caps, known, view, told, wanted, taken, stale>>

-----------------------------------------------------------------------------
(***************************************************************************)
(* The client.                                                             *)
(***************************************************************************)
\* request<SetMode>(engine, {session, m} [, deadline])
SetMode(m, timed) ==
    /\ SendRequest("client", "session/set_mode", timed)
    /\ wanted' = Append(wanted, m)
    /\ UNCHANGED <<caps, known, own, view, told, trail, taken, stale>>

\* on<SessionUpdateNote>: params that do not decode are dropped.
ShowUpdate(f) ==
    /\ ReceiveNotice("client", f)
    /\ LET params == told[f.sent]
       IN  /\ view' = IF params = {} THEN view ELSE Apply(view, The(params).update)
           /\ stale' = (stale /\ ArmOf(told[f.sent]) # "SU_CurrentMode")
    /\ taken' = taken + 1
    /\ UNCHANGED <<caps, known, own, told, wanted, trail>>

\* on<RequestPermission>: the client decides on what it shows already.
GrantPermission(f) ==
    /\ f.method = "session/request_permission"
    /\ ReceiveHandled("client", f, "result")
    /\ taken' = taken + 1
    /\ UNCHANGED <<caps, known, own, view, told, wanted, trail, stale>>

\* The client's session/set_mode completes.
ModeSet(f, r) ==
    /\ ReceiveReply("client", f, r)
    /\ view' = IF f.kind = "result" THEN [view EXCEPT !.mode = wanted[f.id]] ELSE view
    /\ taken' = taken + 1
    /\ stale' = (stale /\ f.kind = "error")
    /\ UNCHANGED <<caps, known, own, told, wanted, trail>>

\* A reply after the deadline: the engine drops it and the host sees nothing.
ModeSetLate(f) ==
    /\ ReceiveLate("client", f)
    /\ taken' = taken + 1
    /\ stale' = (stale \/ f.kind = "result")
    /\ UNCHANGED <<caps, known, own, view, told, wanted, trail>>

-----------------------------------------------------------------------------
AgentStep ==
    \/ Announce
    \/ \E x \in DOMAIN own.calls : \E after \in Changes(own.calls[x]) :
           Progress(x, after)
    \/ AskPermission
    \/ \E m \in Modes : Switch(m)
    \/ Notify
    \/ StartCompaction
    \/ StreamSummary
    \/ \E final \in Final : FinishCompaction(final)

ClientStep ==
    \/ \E m \in Modes, timed \in BOOLEAN : SetMode(m, timed)
    \/ \E S \in SUBSET pending["client"] : Expire("client", S) /\ UNCHANGED viewVars

ClientTakes ==
    /\ wire["client"] # << >>
    /\ LET f == Head(wire["client"])
       IN  \/ ShowUpdate(f)
           \/ GrantPermission(f)
           \/ \E r \in pending["client"] : ModeSet(f, r)
           \/ ModeSetLate(f)

AgentTakes ==
    /\ wire["agent"] # << >>
    /\ LET f == Head(wire["agent"])
       IN  \/ \E kind \in Reply : AnswerSetMode(f, kind)
           \/ \E r \in pending["agent"] : ReceiveReply("agent", f, r) /\ UNCHANGED viewVars

ViewNext == AgentStep \/ ClientStep \/ ClientTakes \/ AgentTakes

ViewSpec == ViewInit /\ [][ViewNext]_sessionVars

\* The client keeps reading its stream.
FairViewSpec == ViewSpec /\ WF_sessionVars(ClientTakes)

-----------------------------------------------------------------------------
(***************************************************************************)
(* Properties.                                                             *)
(***************************************************************************)
\* The session as the agent had it when it wrote the last frame taken.
AsSent == trail[taken + 1]

\* Tool call c shows everything of `sent`.  Of a name or a raw value that the
\* agent has no more it may show an older one: Nothing in a delta means leave
\* unchanged, and optional() writes nothing else for it.
Shows(c, sent) ==
    \A k \in DOMAIN sent : c[k] = sent[k] \/ (k \in Nullable /\ sent[k] = Nothing)

\* Session v is session s, but for the mode and what no update can take back.
Follows(v, s) ==
    /\ v.compaction = s.compaction
    /\ v.notices = s.notices
    /\ DOMAIN v.calls = DOMAIN s.calls
    /\ \A x \in DOMAIN s.calls : Shows(v.calls[x], s.calls[x])

\* After every frame the client has the session as the agent had it when it
\* wrote that frame, whatever deltas, replacements and mode changes of either
\* side came before: what it shows when it decides on a permission is what the
\* agent had when it asked.  The mode may be an older one, but only while the
\* last word on it was a set_mode reply that came after its deadline
\* (tools.hpp:172-175, updates.hpp:71-73, README.md:125-134).
ViewInStep ==
    /\ Follows(view, AsSent)
    /\ ~stale => view.mode = AsSent.mode

\* No notice and no compaction update is on its way to a client that did not
\* ask for them (caps.hpp:80-82).
OnlyRendered ==
    \A k \in DOMAIN told :
        /\ ArmOf(told[k]) = "SU_Notice" => caps.notices
        /\ ArmOf(told[k]) \in {"SU_Compaction", "SU_CompactionSummaryChunk"} =>
               caps.compaction

\* The client's view, without what the agent has taken back since, and with the
\* mode as the agent had it where the reply that told of it came too late.
Shown ==
    [view EXCEPT
       !.calls = [x \in DOMAIN @ |->
                    [k \in DOMAIN @[x] |->
                       IF k \in Nullable /\ AsSent.calls[x][k] = Nothing
                       THEN Nothing ELSE @[x][k]]],
       !.mode = IF stale THEN AsSent.mode ELSE @]

\* The client mirrors the session: it goes through every state the agent has
\* announced, one by one, and reaches the last.
M == INSTANCE AcpMirror WITH history <- trail, seen <- taken + 1, shown <- Shown

Mirrors == M!MirrorSpec
=============================================================================
