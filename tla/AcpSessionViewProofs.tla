------------------------- MODULE AcpSessionViewProofs -------------------------
(***************************************************************************)
(* Theorems about AcpSessionView, for any tool calls, modes, summaries and *)
(* capabilities, and any codecs that return what was written.              *)
(***************************************************************************)
EXTENDS AcpSessionViewInv, AcpConnectionProofs, AcpCodecProofs

-----------------------------------------------------------------------------
(***************************************************************************)
(* The session runs on a connection.                                       *)
(***************************************************************************)
LEMMA TellStep ==
    ASSUME NEW u, NEW s, Tell(u, s)
    PROVE  SendNotice("agent", "session/update")
BY DEF Tell

LEMMA AgentActs ==
    ASSUME AgentStep
    PROVE  \/ SendNotice("agent", "session/update")
           \/ SendRequest("agent", "session/request_permission", FALSE)
<1>1. ASSUME Announce \/ Notify \/ StartCompaction \/ StreamSummary
             \/ (\E m \in Modes : Switch(m)) \/ (\E final \in Final : FinishCompaction(final))
      PROVE  SendNotice("agent", "session/update")
  BY <1>1, TellStep DEF Announce, Switch, Notify, StartCompaction, StreamSummary,
     FinishCompaction, TellCompaction
<1>2. ASSUME NEW x, NEW after, Progress(x, after)
      PROVE  SendNotice("agent", "session/update")
  BY <1>2, TellStep DEF Progress
<1>3. AskPermission => SendRequest("agent", "session/request_permission", FALSE)
  BY DEF AskPermission
<1> QED
  BY <1>1, <1>2, <1>3 DEF AgentStep

LEMMA ViewActs == [ViewNext]_sessionVars => [Next]_vars
<1> SUFFICES ASSUME [ViewNext]_sessionVars PROVE [Next]_vars
  OBVIOUS
<1>0. "agent" \in Peer /\ "client" \in Peer
  BY DEF Peer
<1>1. CASE UNCHANGED sessionVars
  BY <1>1 DEF sessionVars
<1>2. CASE AgentStep
  <2>1. CASE SendNotice("agent", "session/update")
    BY <1>0, <2>1, ViewAssumption DEF Next
  <2>2. CASE SendRequest("agent", "session/request_permission", FALSE)
    BY <1>0, <2>2, ViewAssumption DEF Next
  <2> QED
    BY <1>2, <2>1, <2>2, AgentActs
<1>3. CASE ClientStep
  <2>1. ASSUME NEW m \in Modes, NEW timed \in BOOLEAN, SetMode(m, timed)
        PROVE  Next
    <3>1. SendRequest("client", "session/set_mode", timed)
      BY <2>1 DEF SetMode
    <3> QED
      BY <1>0, <3>1, ViewAssumption DEF Next
  <2>2. ASSUME NEW S \in SUBSET pending["client"], Expire("client", S)
        PROVE  Next
    BY <1>0, <2>2 DEF Next
  <2> QED
    BY <1>3, <2>1, <2>2 DEF ClientStep
<1>4. CASE ClientTakes
  <2> DEFINE f == Head(wire["client"])
  <2>1. ReceiveNotice("client", f) => Receive("client")
    BY <1>4 DEF ClientTakes, Receive
  <2>2. ReceiveHandled("client", f, "result") => Receive("client")
    BY <1>4 DEF ClientTakes, Receive, Reply
  <2>3. ASSUME NEW r \in pending["client"], ReceiveReply("client", f, r)
        PROVE  Receive("client")
    BY <1>4, <2>3 DEF ClientTakes, Receive
  <2>4. ReceiveLate("client", f) => Receive("client")
    BY <1>4 DEF ClientTakes, Receive
  <2>5. Receive("client")
    BY <1>4, <2>1, <2>2, <2>3, <2>4 DEF ClientTakes, ShowUpdate, GrantPermission,
       ModeSet, ModeSetLate
  <2> QED
    BY <1>0, <2>5 DEF Next
<1>5. CASE AgentTakes
  <2> DEFINE f == Head(wire["agent"])
  <2>1. ASSUME NEW kind \in Reply, ReceiveHandled("agent", f, kind)
        PROVE  Receive("agent")
    BY <1>5, <2>1 DEF AgentTakes, Receive
  <2>2. ASSUME NEW r \in pending["agent"], ReceiveReply("agent", f, r)
        PROVE  Receive("agent")
    BY <1>5, <2>2 DEF AgentTakes, Receive
  <2>3. Receive("agent")
    BY <1>5, <2>1, <2>2 DEF AgentTakes, AnswerSetMode
  <2> QED
    BY <1>0, <2>3 DEF Next
<1> QED
  BY <1>1, <1>2, <1>3, <1>4, <1>5 DEF ViewNext

\* A session is kept over an AcpConnection: whatever holds of every connection
\* holds of it (README.md:108-135).
THEOREM SessionIsConnection == ViewSpec => Spec
<1>1. ViewInit => Init
  BY DEF ViewInit
<1> QED
  BY <1>1, ViewActs, PTL DEF ViewSpec, Spec

-----------------------------------------------------------------------------
(***************************************************************************)
(* Tool calls and their deltas.                                            *)
(***************************************************************************)
LEMMA CallShape ==
    ASSUME NEW c \in Calls
    PROVE  c = [k \in CallMembers |-> c[k]] /\ DOMAIN c = CallMembers
<1>1. c = [k \in CallMembers |-> c[k]]
  BY CallAssumption
<1>2. DOMAIN [k \in CallMembers |-> c[k]] = CallMembers
  OBVIOUS
<1> QED
  BY <1>1, <1>2

LEMMA ChangeKeeps ==
    ASSUME NEW c \in Calls, NEW after \in Changes(c)
    PROVE  /\ after \in Calls
           /\ after.toolCallId = c.toolCallId
           /\ \A k \in CallMembers \ Mutable : after[k] = c[k]
<1>1. "toolCallId" \in CallMembers \ Mutable
  BY DEF CallMembers, Mutable
<1> QED
  BY <1>1, CallAssumption

\* The members of a delta, and whose it is.
LEMMA DeltaParts ==
    ASSUME NEW c \in Calls, NEW after \in Changes(c)
    PROVE  /\ \A k \in Mutable :
                  DeltaOf(c, after)[k] = IF after[k] = c[k] THEN Nothing
                                         ELSE IF k \in Nullable THEN after[k]
                                         ELSE Just(after[k])
           /\ DeltaOf(c, after).toolCallId = c.toolCallId
<1>1. DOMAIN c = CallMembers
  BY CallShape
<1>2. Mutable \subseteq CallMembers /\ "toolCallId" \in CallMembers \ Mutable
  BY DEF CallMembers, Mutable
<1> QED
  BY <1>1, <1>2 DEF DeltaOf

LEMMA DeltaMembers ==
    ASSUME NEW c \in Calls, NEW d
    PROVE  /\ ApplyDelta(c, d) = [k \in CallMembers |->
                  IF k \notin Mutable \/ d[k] = Nothing THEN c[k]
                  ELSE IF k \in Nullable THEN d[k] ELSE The(d[k])]
           /\ DOMAIN ApplyDelta(c, d) = CallMembers
           /\ \A k \in CallMembers :
                  ApplyDelta(c, d)[k] = IF k \notin Mutable \/ d[k] = Nothing THEN c[k]
                                        ELSE IF k \in Nullable THEN d[k] ELSE The(d[k])
           /\ ApplyDelta(c, d).toolCallId = c.toolCallId
<1>1. DOMAIN c = CallMembers
  BY CallShape
<1>2. ApplyDelta(c, d) = [k \in CallMembers |->
          IF k \notin Mutable \/ d[k] = Nothing THEN c[k]
          ELSE IF k \in Nullable THEN d[k] ELSE The(d[k])]
  BY <1>1 DEF ApplyDelta
<1>3. "toolCallId" \in CallMembers \ Mutable
  BY DEF CallMembers, Mutable
<1> QED
  BY <1>2, <1>3

\* What a delta makes of the state it was written against shows the new one.
LEMMA DeltaApplies ==
    ASSUME NEW c \in Calls, NEW after \in Changes(c)
    PROVE  Shows(ApplyDelta(c, DeltaOf(c, after)), after)
<1>1. PICK d : d = DeltaOf(c, after)
  OBVIOUS
<1>2. PICK a : a = ApplyDelta(c, d)
  OBVIOUS
<1>3. \A x : Just(x) # Nothing /\ The(Just(x)) = x
  BY DEF Just, Nothing, The
<1>4. DOMAIN after = CallMembers
  BY ChangeKeeps, CallShape
<1>5. ASSUME NEW k \in CallMembers
      PROVE  a[k] = after[k] \/ (k \in Nullable /\ after[k] = Nothing)
  <2>1. a[k] = IF k \notin Mutable \/ d[k] = Nothing THEN c[k]
               ELSE IF k \in Nullable THEN d[k] ELSE The(d[k])
    BY <1>2, DeltaMembers
  <2>2. CASE k \notin Mutable
    BY <2>1, <2>2, ChangeKeeps
  <2>3. CASE k \in Mutable
    <3>1. d[k] = IF after[k] = c[k] THEN Nothing
                 ELSE IF k \in Nullable THEN after[k] ELSE Just(after[k])
      BY <1>1, <2>3, DeltaParts
    <3> QED
      BY <1>3, <2>1, <2>3, <3>1
  <2> QED
    BY <2>2, <2>3
<1> QED
  BY <1>1, <1>2, <1>4, <1>5 DEF Shows

\* Whatever state it is applied to, the result is a state of a tool call.
LEMMA DeltaKeepsCall ==
    ASSUME NEW c \in Calls, NEW d \in WrittenDeltas, d.toolCallId = c.toolCallId
    PROVE  ApplyDelta(c, d) \in Calls
<1>0. PICK b \in Calls : \E e \in Changes(b) : d = DeltaOf(b, e)
  BY DEF WrittenDeltas
<1>1. PICK after \in Changes(b) : d = DeltaOf(b, after)
  BY <1>0
<1>2. after \in Calls /\ after.toolCallId = c.toolCallId
  BY <1>1, ChangeKeeps, DeltaParts
<1> DEFINE K == {k \in Mutable : d[k] # Nothing}
<1>3. PICK a : a = [k \in CallMembers |-> IF k \in K THEN after[k] ELSE c[k]]
  OBVIOUS
<1>4. a \in Calls
  <2>1. K \in SUBSET Mutable
    OBVIOUS
  <2> HIDE DEF K
  <2> QED
    BY <1>2, <1>3, <2>1, CallAssumption
<1>5. \A x : The(Just(x)) = x
  BY DEF Just, The
<1>6. ASSUME NEW k \in CallMembers
      PROVE  (IF k \notin Mutable \/ d[k] = Nothing THEN c[k]
              ELSE IF k \in Nullable THEN d[k] ELSE The(d[k])) = a[k]
  <2>1. a[k] = IF k \in Mutable /\ d[k] # Nothing THEN after[k] ELSE c[k]
    BY <1>3
  <2>2. CASE k \in Mutable /\ d[k] # Nothing
    <3>1. d[k] = IF k \in Nullable THEN after[k] ELSE Just(after[k])
      BY <1>1, <2>2, DeltaParts
    <3> QED
      BY <1>5, <2>1, <2>2, <3>1
  <2>3. CASE ~(k \in Mutable /\ d[k] # Nothing)
    BY <2>1, <2>3
  <2> QED
    BY <2>2, <2>3
<1>7. ApplyDelta(c, d) = [k \in CallMembers |-> a[k]]
  BY <1>6, DeltaMembers
<1>8. a = [k \in CallMembers |-> a[k]]
  BY <1>4, CallShape
<1> QED
  BY <1>4, <1>7, <1>8

\* A state that shows more shows more after the same delta, too.
LEMMA DeltaFollows ==
    ASSUME NEW c \in Calls, NEW b \in Calls, NEW d, Shows(c, b)
    PROVE  Shows(ApplyDelta(c, d), ApplyDelta(b, d))
<1>1. PICK x : x = ApplyDelta(c, d)
  OBVIOUS
<1>2. PICK y : y = ApplyDelta(b, d)
  OBVIOUS
<1>3. DOMAIN b = CallMembers /\ DOMAIN y = CallMembers
  BY <1>2, CallShape, DeltaMembers
<1>4. \A k \in CallMembers : c[k] = b[k] \/ (k \in Nullable /\ b[k] = Nothing)
  BY <1>3 DEF Shows
<1>5. \A k \in CallMembers :
          /\ x[k] = IF k \notin Mutable \/ d[k] = Nothing THEN c[k]
                    ELSE IF k \in Nullable THEN d[k] ELSE The(d[k])
          /\ y[k] = IF k \notin Mutable \/ d[k] = Nothing THEN b[k]
                    ELSE IF k \in Nullable THEN d[k] ELSE The(d[k])
  BY <1>1, <1>2, DeltaMembers
<1> QED
  BY <1>1, <1>2, <1>3, <1>4, <1>5 DEF Shows

\* A table of tool calls.
LEMMA CallTable ==
    ASSUME NEW f
    PROVE  f \in CallTables <=> /\ f = [x \in DOMAIN f |-> f[x]]
                                /\ \A x \in DOMAIN f : f[x] \in Calls /\ f[x].toolCallId = x
<1>1. ASSUME f \in CallTables
      PROVE  /\ f = [x \in DOMAIN f |-> f[x]]
             /\ \A x \in DOMAIN f : f[x] \in Calls /\ f[x].toolCallId = x
  BY <1>1 DEF CallTables
<1>2. ASSUME f = [x \in DOMAIN f |-> f[x]],
             \A x \in DOMAIN f : f[x] \in Calls /\ f[x].toolCallId = x
      PROVE  f \in CallTables
  <2>1. DOMAIN f \in SUBSET {c.toolCallId : c \in Calls}
    BY <1>2
  <2>2. f \in [DOMAIN f -> Calls]
    BY <1>2
  <2> QED
    BY <1>2, <2>1, <2>2 DEF CallTables
<1> QED
  BY <1>1, <1>2

LEMMA NoCalls == << >> \in CallTables
<1>1. << >> \in Seq(Calls) /\ Len(<< >>) = 0
  BY EmptySeq
<1>2. << >> \in [1 .. 0 -> Calls]
  BY <1>1, LenProperties
<1>3. 1 .. 0 = {}
  OBVIOUS
<1> QED
  BY <1>2, <1>3, CallTable

\* A new call, or a new state of one.
LEMMA PutCall ==
    ASSUME NEW f \in CallTables, NEW c \in Calls
    PROVE  Put(f, c.toolCallId, c) \in CallTables
<1> DEFINE g == Put(f, c.toolCallId, c)
<1>1. /\ DOMAIN g = DOMAIN f \cup {c.toolCallId}
      /\ \A x \in DOMAIN g : g[x] = IF x = c.toolCallId THEN c ELSE f[x]
      /\ g = [x \in DOMAIN g |-> g[x]]
  BY DEF Put
<1> HIDE DEF g
<1>2. \A x \in DOMAIN g : g[x] \in Calls /\ g[x].toolCallId = x
  BY <1>1, CallTable
<1> QED
  BY <1>1, <1>2, CallTable DEF g

LEMMA ChangeCall ==
    ASSUME NEW f \in CallTables, NEW c \in Calls, c.toolCallId \in DOMAIN f
    PROVE  [f EXCEPT ![c.toolCallId] = c] \in CallTables
<1> DEFINE g == [f EXCEPT ![c.toolCallId] = c]
<1>1. /\ DOMAIN g = DOMAIN f
      /\ \A x \in DOMAIN g : g[x] = IF x = c.toolCallId THEN c ELSE f[x]
      /\ g = [x \in DOMAIN g |-> g[x]]
  OBVIOUS
<1> HIDE DEF g
<1>2. \A x \in DOMAIN g : g[x] \in Calls /\ g[x].toolCallId = x
  BY <1>1, CallTable
<1> QED
  BY <1>1, <1>2, CallTable DEF g

-----------------------------------------------------------------------------
(***************************************************************************)
(* Sessions.                                                               *)
(***************************************************************************)
\* A session by its parts, and with one of them replaced.
LEMMA Parts ==
    ASSUME NEW s \in Session
    PROVE  /\ s = [calls |-> s.calls, mode |-> s.mode,
                   compaction |-> s.compaction, notices |-> s.notices]
           /\ s.calls \in CallTables /\ s.mode \in Modes
           /\ s.compaction \in Compactions /\ s.notices \in Nat
           /\ \A x : [s EXCEPT !.calls = x] =
                         [calls |-> x, mode |-> s.mode,
                          compaction |-> s.compaction, notices |-> s.notices]
           /\ \A x : [s EXCEPT !.mode = x] =
                         [calls |-> s.calls, mode |-> x,
                          compaction |-> s.compaction, notices |-> s.notices]
           /\ \A x : [s EXCEPT !.compaction = x] =
                         [calls |-> s.calls, mode |-> s.mode,
                          compaction |-> x, notices |-> s.notices]
           /\ \A x : [s EXCEPT !.notices = x] =
                         [calls |-> s.calls, mode |-> s.mode,
                          compaction |-> s.compaction, notices |-> x]
BY DEF Session

LEMMA PartsType ==
    ASSUME NEW c \in CallTables, NEW m \in Modes, NEW x \in Compactions, NEW n \in Nat
    PROVE  [calls |-> c, mode |-> m, compaction |-> x, notices |-> n] \in Session
BY DEF Session

LEMMA WithCompaction ==
    ASSUME NEW s \in Session, NEW x \in Compactions
    PROVE  /\ [s EXCEPT !.compaction = x] \in Session
           /\ [s EXCEPT !.compaction = x].compaction = x
<1>1. [s EXCEPT !.compaction = x] = [calls |-> s.calls, mode |-> s.mode,
                                    compaction |-> x, notices |-> s.notices]
  BY Parts
<1>2. s.calls \in CallTables /\ s.mode \in Modes /\ s.notices \in Nat
  BY Parts
<1> QED
  BY <1>1, <1>2, PartsType

\* What is the same follows, and what follows what follows.
LEMMA FollowsSame == ASSUME NEW s PROVE Follows(s, s)
BY DEF Follows, Shows

LEMMA FollowsOn ==
    ASSUME NEW r \in Session, NEW s \in Session, NEW t \in Session,
           Follows(r, s), Follows(s, t)
    PROVE  Follows(r, t)
<1>1. /\ r.compaction = t.compaction /\ r.notices = t.notices
      /\ DOMAIN r.calls = DOMAIN t.calls /\ DOMAIN s.calls = DOMAIN t.calls
  BY DEF Follows
<1>2. ASSUME NEW x \in DOMAIN t.calls
      PROVE  Shows(r.calls[x], t.calls[x])
  <2>1. s.calls[x] \in Calls /\ t.calls[x] \in Calls
    <3>1. s.calls \in CallTables /\ t.calls \in CallTables
      BY Parts
    <3> QED
      BY <1>1, <1>2, <3>1, CallTable
  <2>2. DOMAIN s.calls[x] = CallMembers /\ DOMAIN t.calls[x] = CallMembers
    BY <2>1, CallShape
  <2>3. Shows(r.calls[x], s.calls[x]) /\ Shows(s.calls[x], t.calls[x])
    BY <1>1, <1>2 DEF Follows
  <2> QED
    BY <2>2, <2>3 DEF Shows
<1> QED
  BY <1>1, <1>2 DEF Follows

-----------------------------------------------------------------------------
(***************************************************************************)
(* What an update makes of each part of a session.                         *)
(***************************************************************************)
CallsBy(f, u) ==
    IF u[1] = "SU_ToolCall" THEN Put(f, u[2].toolCallId, u[2])
    ELSE IF u[1] = "SU_ToolCallUpdate" /\ u[2].toolCallId \in DOMAIN f
    THEN [f EXCEPT ![u[2].toolCallId] = ApplyDelta(@, u[2])]
    ELSE f

ModeBy(m, u) == IF u[1] = "SU_CurrentMode" THEN u[2].currentModeId ELSE m

CompactionBy(x, u) ==
    IF u[1] = "SU_Compaction"
    THEN Just([status |-> u[2].status,
               summary |-> IF u[2].summary = Nothing
                           THEN IF x = Nothing THEN << >> ELSE The(x).summary
                           ELSE The(u[2].summary)])
    ELSE IF u[1] = "SU_CompactionSummaryChunk" /\ x # Nothing
    THEN Just([status |-> The(x).status, summary |-> Append(The(x).summary, u[2].content)])
    ELSE x

NoticesBy(n, u) == IF u[1] = "SU_Notice" THEN n + 1 ELSE n

LEMMA ChangedParts ==
    ASSUME NEW s, NEW c, NEW m, NEW x, NEW n, NEW d,
           s = [calls |-> c, mode |-> m, compaction |-> x, notices |-> n]
    PROVE  Changed(s, d) =
             IF d.toolCallId \in DOMAIN c
             THEN [calls |-> [c EXCEPT ![d.toolCallId] = ApplyDelta(@, d)], mode |-> m,
                   compaction |-> x, notices |-> n]
             ELSE s
BY DEF Changed

LEMMA ChunkParts ==
    ASSUME NEW s, NEW f, NEW m, NEW x, NEW n, NEW c,
           s = [calls |-> f, mode |-> m, compaction |-> x, notices |-> n]
    PROVE  ApplyChunk(s, c) =
             IF x = Nothing THEN s
             ELSE [calls |-> f, mode |-> m,
                   compaction |-> Just([status |-> The(x).status,
                                       summary |-> Append(The(x).summary, c.content)]),
                   notices |-> n]
BY DEF ApplyChunk

\* The arms one by one.
LEMMA ApplyArm ==
    ASSUME NEW s, NEW u
    PROVE  /\ u[1] = "SU_ToolCall" => Apply(s, u) = FileCall(s, u[2])
           /\ u[1] = "SU_ToolCallUpdate" => Apply(s, u) = Changed(s, u[2])
           /\ u[1] = "SU_CurrentMode" => Apply(s, u) = [s EXCEPT !.mode = u[2].currentModeId]
           /\ u[1] = "SU_Notice" => Apply(s, u) = [s EXCEPT !.notices = @ + 1]
           /\ u[1] = "SU_Compaction" => Apply(s, u) = ApplyCompaction(s, u[2])
           /\ u[1] = "SU_CompactionSummaryChunk" => Apply(s, u) = ApplyChunk(s, u[2])
BY DEF Apply

LEMMA ApplyParts ==
    ASSUME NEW s \in Session, NEW u, u[1] \in Arms
    PROVE  Apply(s, u) = [calls |-> CallsBy(s.calls, u), mode |-> ModeBy(s.mode, u),
                          compaction |-> CompactionBy(s.compaction, u),
                          notices |-> NoticesBy(s.notices, u)]
<1>1. PICK f, m, x, n : f = s.calls /\ m = s.mode /\ x = s.compaction /\ n = s.notices
  OBVIOUS
<1>2. s = [calls |-> f, mode |-> m, compaction |-> x, notices |-> n]
  BY <1>1, Parts
<1>3. PICK t : t = [calls |-> CallsBy(f, u), mode |-> ModeBy(m, u),
                    compaction |-> CompactionBy(x, u), notices |-> NoticesBy(n, u)]
  OBVIOUS
<1>4. CASE u[1] = "SU_ToolCall"
  <2>1. t = [calls |-> Put(f, u[2].toolCallId, u[2]), mode |-> m, compaction |-> x,
             notices |-> n]
    BY <1>3, <1>4 DEF CallsBy, ModeBy, CompactionBy, NoticesBy
  <2>2. FileCall(s, u[2]) = t
    BY <1>2, <2>1 DEF FileCall
  <2> QED
    BY <1>1, <1>3, <1>4, <2>2, ApplyArm
<1>5. CASE u[1] = "SU_ToolCallUpdate"
  <2>1. t = [calls |-> CallsBy(f, u), mode |-> m, compaction |-> x, notices |-> n]
    BY <1>3, <1>5 DEF ModeBy, CompactionBy, NoticesBy
  <2>2. CallsBy(f, u) = IF u[2].toolCallId \in DOMAIN f
                        THEN [f EXCEPT ![u[2].toolCallId] = ApplyDelta(@, u[2])] ELSE f
    BY <1>5 DEF CallsBy
  <2>3. Changed(s, u[2]) =
          IF u[2].toolCallId \in DOMAIN f
          THEN [calls |-> [f EXCEPT ![u[2].toolCallId] = ApplyDelta(@, u[2])], mode |-> m,
                compaction |-> x, notices |-> n]
          ELSE s
    BY <1>2, ChangedParts
  <2>4. CASE u[2].toolCallId \in DOMAIN f
    BY <1>1, <1>3, <1>5, <2>1, <2>2, <2>3, <2>4, ApplyArm
  <2>5. CASE u[2].toolCallId \notin DOMAIN f
    BY <1>1, <1>2, <1>3, <1>5, <2>1, <2>2, <2>3, <2>5, ApplyArm
  <2> QED
    BY <2>4, <2>5
<1>6. CASE u[1] = "SU_CurrentMode"
  <2>1. t = [calls |-> f, mode |-> u[2].currentModeId, compaction |-> x, notices |-> n]
    BY <1>3, <1>6 DEF CallsBy, ModeBy, CompactionBy, NoticesBy
  <2>2. [s EXCEPT !.mode = u[2].currentModeId] = t
    BY <1>2, <2>1
  <2> QED
    BY <1>1, <1>3, <1>6, <2>2, ApplyArm
<1>7. CASE u[1] = "SU_Notice"
  <2>1. t = [calls |-> f, mode |-> m, compaction |-> x, notices |-> n + 1]
    BY <1>3, <1>7 DEF CallsBy, ModeBy, CompactionBy, NoticesBy
  <2>2. [s EXCEPT !.notices = @ + 1] = t
    BY <1>2, <2>1
  <2> QED
    BY <1>1, <1>3, <1>7, <2>2, ApplyArm
<1>8. CASE u[1] = "SU_Compaction"
  <2>1. PICK y : y = Just([status |-> u[2].status,
                           summary |-> IF u[2].summary = Nothing
                                       THEN IF x = Nothing THEN << >> ELSE The(x).summary
                                       ELSE The(u[2].summary)])
    OBVIOUS
  <2>2. t = [calls |-> f, mode |-> m, compaction |-> y, notices |-> n]
    BY <1>3, <1>8, <2>1 DEF CallsBy, ModeBy, CompactionBy, NoticesBy
  <2>3. ApplyCompaction(s, u[2]) = [s EXCEPT !.compaction = y]
    BY <1>1, <2>1 DEF ApplyCompaction
  <2>4. [s EXCEPT !.compaction = y] = t
    BY <1>2, <2>2
  <2> QED
    BY <1>1, <1>3, <1>8, <2>3, <2>4, ApplyArm
<1>9. CASE u[1] = "SU_CompactionSummaryChunk"
  <2>1. t = [calls |-> f, mode |-> m, compaction |-> CompactionBy(x, u), notices |-> n]
    BY <1>3, <1>9 DEF CallsBy, ModeBy, NoticesBy
  <2>2. PICK y : y = Just([status |-> The(x).status,
                           summary |-> Append(The(x).summary, u[2].content)])
    OBVIOUS
  <2>3. CompactionBy(x, u) = IF x = Nothing THEN x ELSE y
    BY <1>9, <2>2 DEF CompactionBy
  <2>4. ApplyChunk(s, u[2]) = IF x = Nothing THEN s
                              ELSE [calls |-> f, mode |-> m, compaction |-> y, notices |-> n]
    BY <1>2, <2>2, ChunkParts
  <2>5. ApplyChunk(s, u[2]) = t
    BY <1>2, <2>1, <2>3, <2>4
  <2> QED
    BY <1>1, <1>3, <1>9, <2>5, ApplyArm
<1> QED
  BY <1>4, <1>5, <1>6, <1>7, <1>8, <1>9 DEF Arms

\* Tables with the same calls, each of which shows the other's, stay such.
LEMMA CallsFollow ==
    ASSUME NEW f \in CallTables, NEW g \in CallTables, NEW u, DOMAIN f = DOMAIN g,
           \A x \in DOMAIN g : Shows(f[x], g[x])
    PROVE  /\ DOMAIN CallsBy(f, u) = DOMAIN CallsBy(g, u)
           /\ \A x \in DOMAIN CallsBy(g, u) : Shows(CallsBy(f, u)[x], CallsBy(g, u)[x])
<1>1. PICK i : i = u[2].toolCallId
  OBVIOUS
<1>2. CASE u[1] = "SU_ToolCall"
  <2>1. CallsBy(f, u) = Put(f, i, u[2]) /\ CallsBy(g, u) = Put(g, i, u[2])
    BY <1>1, <1>2 DEF CallsBy
  <2>2. Shows(u[2], u[2])
    BY DEF Shows
  <2> QED
    BY <2>1, <2>2 DEF Put
<1>3. CASE u[1] = "SU_ToolCallUpdate" /\ i \in DOMAIN f
  <2>1. PICK a : a = ApplyDelta(f[i], u[2])
    OBVIOUS
  <2>2. PICK b : b = ApplyDelta(g[i], u[2])
    OBVIOUS
  <2>3. CallsBy(f, u) = [f EXCEPT ![i] = a] /\ CallsBy(g, u) = [g EXCEPT ![i] = b]
    BY <1>1, <1>3, <2>1, <2>2 DEF CallsBy
  <2>4. Shows(a, b)
    <3>1. f[i] \in Calls /\ g[i] \in Calls
      BY <1>3, CallTable
    <3> QED
      BY <1>3, <2>1, <2>2, <3>1, DeltaFollows
  <2> QED
    BY <1>3, <2>3, <2>4
<1>4. CASE u[1] # "SU_ToolCall" /\ ~(u[1] = "SU_ToolCallUpdate" /\ i \in DOMAIN f)
  <2>1. CallsBy(f, u) = f /\ CallsBy(g, u) = g
    BY <1>1, <1>4 DEF CallsBy
  <2> QED
    BY <2>1
<1> QED
  BY <1>2, <1>3, <1>4

\* An update that was written leaves a table of tool calls.
LEMMA CallsKept ==
    ASSUME NEW f \in CallTables, NEW u \in WrittenUpdates
    PROVE  CallsBy(f, u) \in CallTables
<1>1. CASE u[1] = "SU_ToolCall"
  <2>1. u[2] = NewCall
    BY <1>1 DEF WrittenUpdates, ToldMode, ToldNotice, ToldCompaction, ToldChunk
  <2> QED
    BY <1>1, <2>1, PutCall, ViewAssumption DEF CallsBy
<1>2. CASE u[1] = "SU_ToolCallUpdate" /\ u[2].toolCallId \in DOMAIN f
  <2>1. u[2] \in WrittenDeltas
    BY <1>2 DEF WrittenUpdates, ToldMode, ToldNotice, ToldCompaction, ToldChunk
  <2>2. PICK i : i = u[2].toolCallId
    OBVIOUS
  <2>3. i \in DOMAIN f /\ f[i] \in Calls /\ f[i].toolCallId = i
    BY <1>2, <2>2, CallTable
  <2>4. PICK a : a = ApplyDelta(f[i], u[2])
    OBVIOUS
  <2>5. a \in Calls /\ a.toolCallId = i
    BY <2>1, <2>2, <2>3, <2>4, DeltaKeepsCall, DeltaMembers
  <2>6. CallsBy(f, u) = [f EXCEPT ![i] = a]
    BY <1>2, <2>2, <2>4 DEF CallsBy
  <2> QED
    BY <2>3, <2>5, <2>6, ChangeCall
<1>3. CASE u[1] # "SU_ToolCall" /\ ~(u[1] = "SU_ToolCallUpdate" /\ u[2].toolCallId \in DOMAIN f)
  BY <1>3 DEF CallsBy
<1> QED
  BY <1>1, <1>2, <1>3

\* Session v follows s, and t follows what an update makes of s: then what it
\* makes of v follows t.
LEMMA ApplyFollows ==
    ASSUME NEW s \in Session, NEW t \in Session, NEW v \in Session, NEW u \in WrittenUpdates,
           u[1] \in Arms, Follows(v, s), Follows(Apply(s, u), t), Apply(s, u).mode = t.mode
    PROVE  /\ Apply(v, u) \in Session
           /\ Follows(Apply(v, u), t)
           /\ u[1] = "SU_CurrentMode" \/ v.mode = s.mode => Apply(v, u).mode = t.mode
<1>1. PICK a : a = Apply(s, u)
  OBVIOUS
<1>2. PICK w : w = Apply(v, u)
  OBVIOUS
<1>3. a = [calls |-> CallsBy(s.calls, u), mode |-> ModeBy(s.mode, u),
           compaction |-> CompactionBy(s.compaction, u), notices |-> NoticesBy(s.notices, u)]
  BY <1>1, ApplyParts
<1>4. w = [calls |-> CallsBy(v.calls, u), mode |-> ModeBy(v.mode, u),
           compaction |-> CompactionBy(v.compaction, u), notices |-> NoticesBy(v.notices, u)]
  BY <1>2, ApplyParts
<1>5. /\ v.calls \in CallTables /\ s.calls \in CallTables /\ t.calls \in CallTables
      /\ v.mode \in Modes /\ t.mode \in Modes
      /\ t.compaction \in Compactions /\ t.notices \in Nat
  BY Parts
<1>6. /\ v.compaction = s.compaction /\ v.notices = s.notices
      /\ DOMAIN v.calls = DOMAIN s.calls
      /\ \A x \in DOMAIN s.calls : Shows(v.calls[x], s.calls[x])
  BY DEF Follows
<1>7. /\ a.compaction = t.compaction /\ a.notices = t.notices /\ a.mode = t.mode
  BY <1>1 DEF Follows
<1>8. w.compaction = t.compaction /\ w.notices = t.notices
  BY <1>3, <1>4, <1>6, <1>7
<1>9. w.mode = IF u[1] = "SU_CurrentMode" \/ v.mode = s.mode THEN t.mode ELSE v.mode
  BY <1>3, <1>4, <1>7 DEF ModeBy
<1>10. w.calls \in CallTables /\ a.calls \in CallTables
  BY <1>3, <1>4, <1>5, CallsKept
<1>11. w = [calls |-> w.calls, mode |-> w.mode, compaction |-> w.compaction,
            notices |-> w.notices]
  BY <1>4
<1>12. a = [calls |-> a.calls, mode |-> a.mode, compaction |-> a.compaction,
            notices |-> a.notices]
  BY <1>3
<1>13. w \in Session
  <2>1. w.mode \in Modes /\ w.compaction \in Compactions /\ w.notices \in Nat
    BY <1>5, <1>8, <1>9
  <2> QED
    BY <1>10, <1>11, <2>1, PartsType
<1>14. a \in Session
  <2>1. a.mode \in Modes /\ a.compaction \in Compactions /\ a.notices \in Nat
    BY <1>5, <1>7
  <2> QED
    BY <1>10, <1>12, <2>1, PartsType
<1>15. Follows(w, a)
  <2>1. DOMAIN w.calls = DOMAIN a.calls
        /\ \A x \in DOMAIN a.calls : Shows(w.calls[x], a.calls[x])
    <3>1. w.calls = CallsBy(v.calls, u) /\ a.calls = CallsBy(s.calls, u)
      BY <1>3, <1>4
    <3> QED
      BY <1>5, <1>6, <3>1, CallsFollow
  <2> QED
    BY <1>7, <1>8, <2>1 DEF Follows
<1>16. Follows(w, t)
  BY <1>1, <1>13, <1>14, <1>15, FollowsOn
<1> QED
  BY <1>2, <1>9, <1>13, <1>16

-----------------------------------------------------------------------------
(***************************************************************************)
(* Payloads.                                                               *)
(***************************************************************************)
LEMMA WrittenArms ==
    ASSUME NEW u \in WrittenUpdates
    PROVE  u[1] \in Arms
BY DEF WrittenUpdates, Arms, ToldMode, ToldNotice, ToldCompaction, ToldChunk

\* What is written is read as it was written (PayloadAssumption).
LEMMA NoteWritten ==
    ASSUME NEW u \in WrittenUpdates
    PROVE  NoteOf(u) = {UpdateMsg(u)} /\ NoteOf(u) \in WrittenNotes
<1>1. Survives("SessionUpdateMsg", UpdateMsg(u))
  BY PayloadAssumption
<1> QED
  BY <1>1 DEF NoteOf, Survives, WrittenNotes

LEMMA NoteRead ==
    ASSUME NEW note \in WrittenNotes
    PROVE  \E u \in WrittenUpdates :
               /\ note = {UpdateMsg(u)}
               /\ The(note).update = u
               /\ ArmOf(note) = u[1]
               /\ u[1] \in Arms
<1>1. PICK u \in WrittenUpdates : note = {UpdateMsg(u)}
  BY DEF WrittenNotes
<1>2. The(note) = UpdateMsg(u)
  BY <1>1 DEF The
<1>3. The(note).update = u
  BY <1>2 DEF UpdateMsg
<1> QED
  BY <1>1, <1>3, WrittenArms DEF ArmOf

LEMMA KnownCaps ==
    ASSUME ViewTypeOK
    PROVE  /\ known = caps
           /\ caps.compaction \in BOOLEAN /\ caps.notices \in BOOLEAN
<1>1. IsClientSessionCapabilities(caps)
  BY ViewAssumption DEF ViewTypeOK
<1>2. DecodeClientSessionCapabilities(EncodeClientSessionCapabilities(caps)) = {caps}
  BY <1>1, SessionCapabilitiesRoundTrip
<1> QED
  BY <1>1, <1>2 DEF ViewTypeOK, The, IsClientSessionCapabilities

-----------------------------------------------------------------------------
(***************************************************************************)
(* Compactions.                                                            *)
(***************************************************************************)
LEMMA Streaming ==
    ASSUME NEW n \in Nat
    PROVE  /\ Len(Streamed(n)) = n
           /\ Append(Streamed(n), Block(n + 1)) = Streamed(n + 1)
<1> DEFINE B == {Block(i) : i \in 1 .. (n + 1)}
<1>1. Streamed(n) \in [1 .. n -> B] /\ Streamed(n + 1) \in [1 .. (n + 1) -> B]
  BY DEF Streamed
<1>2. Streamed(n) \in Seq(B) /\ Streamed(n + 1) \in Seq(B)
  <2>1. \A S : \A k \in Nat : \A q \in [1 .. k -> S] : q \in Seq(S)
    BY SeqDef
  <2>2. n + 1 \in Nat
    OBVIOUS
  <2> HIDE DEF B
  <2> QED
    BY <1>1, <2>1, <2>2
<1>3. Len(Streamed(n)) = n /\ Len(Streamed(n + 1)) = n + 1
  BY <1>1, <1>2, LenProperties
<1>4. Block(n + 1) \in B
  OBVIOUS
<1>5. /\ Append(Streamed(n), Block(n + 1)) \in Seq(B)
      /\ Len(Append(Streamed(n), Block(n + 1))) = n + 1
      /\ \A i \in 1 .. n : Append(Streamed(n), Block(n + 1))[i] = Streamed(n)[i]
      /\ Append(Streamed(n), Block(n + 1))[n + 1] = Block(n + 1)
  BY <1>2, <1>3, <1>4, AppendProperties
<1>6. \A i \in 1 .. (n + 1) : Append(Streamed(n), Block(n + 1))[i] = Streamed(n + 1)[i]
  BY <1>5 DEF Streamed
<1> QED
  BY <1>2, <1>3, <1>5, <1>6, SeqEqual

LEMMA NothingStreamed == Streamed(0) = << >>
<1>1. Streamed(0) \in [1 .. 0 -> {}] /\ << >> \in Seq({}) /\ Len(<< >>) = 0
  BY EmptySeq DEF Streamed
<1>2. << >> \in [1 .. 0 -> {}]
  BY <1>1, LenProperties
<1> QED
  BY <1>1, <1>2

LEMMA CompactionShape ==
    ASSUME NEW x \in Compactions, NEW c \in x
    PROVE  /\ x = Just(c) /\ x # Nothing /\ The(x) = c
           /\ c = [status |-> c.status, summary |-> c.summary]
           /\ c.status \in {"in_progress", "completed"}
           /\ c.status = "in_progress" => c.summary \in Summaries
           /\ c.summary \in Summaries \cup UNION Final
BY DEF Compactions, Just, Nothing, The

-----------------------------------------------------------------------------
(***************************************************************************)
(* The initial states.                                                     *)
(***************************************************************************)
LEMMA ViewInvInit == ViewInit => ViewInv
<1> SUFFICES ASSUME ViewInit PROVE ViewInv
  OBVIOUS
<1>0. "client" \in Peer /\ "agent" \in Peer
  BY DEF Peer
<1>1. TypeOK /\ wire["client"] = << >> /\ said["agent"] = 0 /\ next["agent"] = 0
      /\ next["client"] = 0
  BY <1>0, TypeInit DEF ViewInit, Init
<1>2. own \in Session /\ view = own
  <2>1. Nothing \in Compactions
    BY DEF Compactions
  <2> QED
    BY <2>1, NoCalls, PartsType, ViewAssumption DEF ViewInit
<1>3. trail \in Seq(Session) /\ Len(trail) = 1 /\ trail[1] = own
  BY <1>2 DEF ViewInit
<1>4. ViewTypeOK
  BY <1>1, <1>2, <1>3, EmptySeq DEF ViewInit, ViewTypeOK
<1>5. Len(<< >>) = 0 /\ \A k : k \notin DOMAIN << >>
  BY EmptySeq
<1>6. TablesInv
  BY <1>1, <1>3, <1>5 DEF ViewInit, TablesInv
<1>7. FramesInv /\ OnlyRendered
  BY <1>1, <1>5 DEF ViewInit, FramesInv, OnlyRendered
<1>8. StreamInv
  BY DEF ViewInit, StreamInv, Nothing
<1>9. ViewInStep
  <2>1. AsSent = own
    BY <1>3 DEF AsSent, ViewInit
  <2> QED
    BY <1>2, <2>1, FollowsSame DEF ViewInStep
<1> QED
  BY <1>4, <1>6, <1>7, <1>8, <1>9 DEF ViewInv


-----------------------------------------------------------------------------
(***************************************************************************)
(* The frames on their way to the client, as the tables grow, as one more  *)
(* is written, and as one is taken.                                        *)
(***************************************************************************)
Extends(q, r) == DOMAIN q \subseteq DOMAIN r /\ \A i \in DOMAIN q : r[i] = q[i]

LEMMA ExtendsSame == ASSUME NEW q PROVE Extends(q, q)
BY DEF Extends

LEMMA ExtendsAppend ==
    ASSUME NEW S, NEW q \in Seq(S), NEW x \in S
    PROVE  /\ Append(q, x) \in Seq(S)
           /\ Len(Append(q, x)) = Len(q) + 1
           /\ Extends(q, Append(q, x))
           /\ Append(q, x)[Len(q) + 1] = x
           /\ Len(q) + 1 \in DOMAIN Append(q, x)
           /\ \A i \in DOMAIN Append(q, x) :
                  Append(q, x)[i] = x \/ (i \in DOMAIN q /\ Append(q, x)[i] = q[i])
<1>1. /\ Append(q, x) \in Seq(S)
      /\ Len(Append(q, x)) = Len(q) + 1
      /\ \A i \in 1 .. Len(q) : Append(q, x)[i] = q[i]
      /\ Append(q, x)[Len(q) + 1] = x
  BY AppendProperties
<1>2. Len(q) \in Nat /\ DOMAIN q = 1 .. Len(q) /\ DOMAIN Append(q, x) = 1 .. Len(q) + 1
  BY <1>1, LenProperties
<1> QED
  BY <1>1, <1>2 DEF Extends

LEMMA LeadsKept ==
    ASSUME NEW n, NEW m, NEW n2, NEW m2, NEW f, NEW s, NEW t,
           Leads(n, m, f, s, t), Extends(n, n2), Extends(m, m2)
    PROVE  Leads(n2, m2, f, s, t)
BY DEF Leads, Extends

\* Where the streams and the history end.
LEMMA Ends ==
    ASSUME ViewInv
    PROVE  /\ wire["client"] \in Seq(Frame) /\ Len(wire["client"]) \in Nat
           /\ DOMAIN wire["client"] = 1 .. Len(wire["client"])
           /\ trail \in Seq(Session) /\ DOMAIN trail = 1 .. Len(trail)
           /\ Len(trail) = 1 + Len(wire["client"]) + taken
           /\ taken \in Nat
           /\ own = trail[1 + Len(wire["client"]) + taken]
           /\ own \in Session /\ view \in Session /\ AsSent \in Session
<1>1. wire["client"] \in Seq(Frame) /\ trail \in Seq(Session) /\ taken \in Nat
  BY DEF ViewInv, ViewTypeOK, TypeOK, Peer
<1>2. Len(wire["client"]) \in Nat /\ DOMAIN wire["client"] = 1 .. Len(wire["client"])
  BY <1>1, LenProperties
<1>3. DOMAIN trail = 1 .. Len(trail) /\ \A i \in 1 .. Len(trail) : trail[i] \in Session
  BY <1>1, LenProperties
<1>4. Len(trail) = 1 + Len(wire["client"]) + taken /\ own = trail[Len(trail)]
  BY DEF ViewInv, TablesInv
<1>5. own \in Session /\ view \in Session
  BY DEF ViewInv, ViewTypeOK
<1>6. AsSent \in Session
  BY <1>1, <1>2, <1>3, <1>4 DEF AsSent
<1> QED
  BY <1>1, <1>2, <1>3, <1>4, <1>5, <1>6

\* A frame for the client is written, and the session becomes s.
LEMMA Published ==
    ASSUME ViewInv, NEW g \in Frame, NEW s \in Session,
           wire'["client"] = Append(wire["client"], g),
           trail' = Append(trail, s), own' = s, taken' = taken,
           Extends(told, told'), Extends(wanted, wanted'),
           Leads(told', wanted', g, own, s)
    PROVE  /\ FramesInv'
           /\ trail' \in Seq(Session)
           /\ Len(trail') = 1 + Len(wire'["client"]) + taken'
           /\ own' = trail'[Len(trail')]
           /\ AsSent' = AsSent
<1> DEFINE w == wire["client"]
           L == Len(w)
<1>1. /\ w \in Seq(Frame) /\ L \in Nat /\ DOMAIN w = 1 .. L
      /\ trail \in Seq(Session) /\ Len(trail) = 1 + L + taken /\ taken \in Nat
      /\ DOMAIN trail = 1 .. Len(trail)
      /\ own = trail[1 + L + taken]
  BY Ends
<1>2. /\ Append(w, g) \in Seq(Frame) /\ Len(Append(w, g)) = L + 1
      /\ \A k \in 1 .. L : Append(w, g)[k] = w[k]
      /\ Append(w, g)[L + 1] = g
      /\ DOMAIN Append(w, g) = 1 .. (L + 1)
  BY <1>1, AppendProperties, LenProperties
<1>3. /\ trail' \in Seq(Session) /\ Len(trail') = Len(trail) + 1
      /\ \A k \in 1 .. Len(trail) : trail'[k] = trail[k]
      /\ trail'[Len(trail) + 1] = s
  BY <1>1, AppendProperties
<1>4. Len(trail') = 1 + Len(wire'["client"]) + taken' /\ own' = trail'[Len(trail')]
  BY <1>1, <1>2, <1>3
<1>5. AsSent' = AsSent
  BY <1>1, <1>3 DEF AsSent
<1>6. ASSUME NEW k \in 1 .. L
      PROVE  Leads(told', wanted', wire'["client"][k],
                   trail'[taken' + k], trail'[taken' + k + 1])
  <2>1. Leads(told, wanted, w[k], trail[taken + k], trail[taken + k + 1])
    BY <1>1 DEF ViewInv, FramesInv
  <2>2. Leads(told', wanted', w[k], trail[taken + k], trail[taken + k + 1])
    BY <2>1, LeadsKept
  <2>3. taken + k \in 1 .. Len(trail) /\ taken + k + 1 \in 1 .. Len(trail)
    BY <1>1
  <2>4. /\ wire'["client"][k] = w[k] /\ trail'[taken' + k] = trail[taken + k]
        /\ trail'[taken' + k + 1] = trail[taken + k + 1]
    BY <1>2, <1>3, <2>3
  <2> QED
    BY <2>2, <2>4
<1>7. ASSUME NEW k, k = L + 1
      PROVE  Leads(told', wanted', wire'["client"][k],
                   trail'[taken' + k], trail'[taken' + k + 1])
  <2>1. taken' + k = 1 + L + taken /\ taken' + k + 1 = Len(trail) + 1
    BY <1>1, <1>7
  <2>2. 1 + L + taken \in 1 .. Len(trail)
    BY <1>1
  <2>3. /\ wire'["client"][k] = g /\ trail'[taken' + k] = own
        /\ trail'[taken' + k + 1] = s
    BY <1>1, <1>2, <1>3, <1>7, <2>1, <2>2
  <2> QED
    BY <2>3
<1>8. FramesInv'
  <2>1. ASSUME NEW k \in DOMAIN wire'["client"]
        PROVE  Leads(told', wanted', wire'["client"][k],
                     trail'[taken' + k], trail'[taken' + k + 1])
    <3>1. k \in 1 .. L \/ k = L + 1
      BY <1>1, <1>2, <2>1
    <3> QED
      BY <1>6, <1>7, <3>1
  <2> QED
    BY <2>1 DEF FramesInv
<1> QED
  BY <1>3, <1>4, <1>5, <1>8

\* The client takes a frame.
LEMMA Consumed ==
    ASSUME ViewInv, wire["client"] # << >>, wire'["client"] = Tail(wire["client"]),
           taken' = taken + 1, UNCHANGED <<own, told, wanted, trail>>
    PROVE  /\ FramesInv'
           /\ Len(trail') = 1 + Len(wire'["client"]) + taken'
           /\ own' = trail'[Len(trail')]
           /\ AsSent' \in Session
           /\ Leads(told, wanted, Head(wire["client"]), AsSent, AsSent')
<1> DEFINE w == wire["client"]
           L == Len(w)
<1>1. /\ w \in Seq(Frame) /\ L \in Nat /\ DOMAIN w = 1 .. L
      /\ trail \in Seq(Session) /\ Len(trail) = 1 + L + taken /\ taken \in Nat
      /\ DOMAIN trail = 1 .. Len(trail)
      /\ own = trail[1 + L + taken]
  BY Ends
<1>2. /\ Tail(w) \in Seq(Frame) /\ Len(Tail(w)) = L - 1 /\ L >= 1
      /\ \A k \in 1 .. Len(Tail(w)) : Tail(w)[k] = w[k + 1]
      /\ DOMAIN Tail(w) = 1 .. (L - 1)
      /\ Head(w) = w[1]
  <2>1. L # 0
    BY <1>1, EmptySeq
  <2>2. Tail(w) \in Seq(Frame) /\ Len(Tail(w)) = L - 1
        /\ (\A k \in 1 .. Len(Tail(w)) : Tail(w)[k] = w[k + 1]) /\ Head(w) = w[1]
    BY <1>1, HeadTailProperties
  <2> QED
    BY <1>1, <2>1, <2>2, LenProperties
<1>3. \A k \in 1 .. L :
          Leads(told, wanted, w[k], trail[taken + k], trail[taken + k + 1])
  BY <1>1 DEF ViewInv, FramesInv
<1>4. Leads(told, wanted, Head(w), AsSent, AsSent')
  <2>1. Leads(told, wanted, w[1], trail[taken + 1], trail[taken + 1 + 1])
    BY <1>2, <1>3
  <2> QED
    BY <1>2, <2>1 DEF AsSent
<1>5. AsSent' \in Session
  <2>1. taken + 1 + 1 \in 1 .. Len(trail)
    BY <1>1, <1>2
  <2> QED
    BY <1>1, <2>1, LenProperties DEF AsSent
<1>6. FramesInv'
  <2>1. ASSUME NEW k \in DOMAIN wire'["client"]
        PROVE  Leads(told', wanted', wire'["client"][k],
                     trail'[taken' + k], trail'[taken' + k + 1])
    <3>1. k \in 1 .. (L - 1) /\ k + 1 \in 1 .. L
      BY <1>1, <1>2, <2>1
    <3>2. wire'["client"][k] = w[k + 1]
      BY <1>2, <3>1
    <3>3. Leads(told, wanted, w[k + 1], trail[taken + (k + 1)],
                trail[taken + (k + 1) + 1])
      BY <1>3, <3>1
    <3>4. taken' + k = taken + (k + 1) /\ taken' + k + 1 = taken + (k + 1) + 1
      <4>1. taken \in Nat /\ k \in Nat /\ taken' = taken + 1
        BY <1>1, <3>1
      <4> QED
        BY ONLY <4>1
    <3> QED
      BY <3>2, <3>3, <3>4
  <2> QED
    BY <2>1 DEF FramesInv
<1>7. Len(trail') = 1 + Len(wire'["client"]) + taken' /\ own' = trail'[Len(trail')]
  <2>1. /\ Len(wire'["client"]) = L - 1 /\ taken' = taken + 1
        /\ trail' = trail /\ own' = own
    BY <1>2
  <2>2. Len(trail') = 1 + L + taken
    BY <1>1, <2>1
  <2>3. \A m, n \in Nat : 1 + (m - 1) + (n + 1) = 1 + m + n
    OBVIOUS
  <2> QED
    BY <1>1, <2>1, <2>2, <2>3
<1> QED
  BY <1>4, <1>5, <1>6, <1>7

\* Nothing is written to the client, nor taken by it.
LEMMA Untouched ==
    ASSUME ViewInv, wire'["client"] = wire["client"], UNCHANGED <<own, trail, taken>>,
           Extends(told, told'), Extends(wanted, wanted')
    PROVE  /\ FramesInv'
           /\ Len(trail') = 1 + Len(wire'["client"]) + taken'
           /\ own' = trail'[Len(trail')]
           /\ AsSent' = AsSent
<1>1. ASSUME NEW k \in DOMAIN wire["client"]
      PROVE  Leads(told', wanted', wire["client"][k], trail[taken + k],
                   trail[taken + k + 1])
  <2>1. Leads(told, wanted, wire["client"][k], trail[taken + k],
              trail[taken + k + 1])
    BY DEF ViewInv, FramesInv
  <2> QED
    BY <2>1, LeadsKept
<1>2. FramesInv'
  BY <1>1 DEF FramesInv
<1> QED
  BY <1>2, Ends DEF AsSent

-----------------------------------------------------------------------------
(***************************************************************************)
(* The agent writes to the client.                                         *)
(***************************************************************************)
LEMMA WrittenView ==
    ASSUME ViewInv, TypeOK', NEW g \in Frame, NEW s \in Session,
           wire'["client"] = Append(wire["client"], g),
           trail' = Append(trail, s), own' = s,
           UNCHANGED <<caps, known, view, wanted, taken, stale>>,
           told' \in Seq(WrittenNotes), Len(told') = said'["agent"],
           next'["client"] = next["client"],
           Extends(told, told'), Leads(told', wanted', g, own, s),
           OnlyRendered', StreamInv'
    PROVE  ViewInv'
<1>1. Extends(wanted, wanted')
  BY ExtendsSame
<1>2. /\ FramesInv'
      /\ trail' \in Seq(Session)
      /\ Len(trail') = 1 + Len(wire'["client"]) + taken'
      /\ own' = trail'[Len(trail')]
      /\ AsSent' = AsSent
  <2>1. taken' = taken
    OBVIOUS
  <2> QED
    BY <1>1, <2>1, Published
<1>3. ViewTypeOK'
  BY <1>2 DEF ViewInv, ViewTypeOK
<1>4. TablesInv'
  <2>1. Len(wanted) = next["client"]
    BY DEF ViewInv, TablesInv
  <2> QED
    BY <1>2, <2>1 DEF TablesInv
<1>5. ViewInStep'
  <2>1. view' = view /\ stale' = stale /\ ViewInStep
    BY DEF ViewInv
  <2> QED
    BY <1>2, <2>1 DEF ViewInStep
<1> QED
  BY <1>2, <1>3, <1>4, <1>5 DEF ViewInv

\* What the agent may have streamed of a summary stays so.
LEMMA StreamKept ==
    ASSUME ViewInv, NEW c \in own.compaction, c.status = "in_progress"
    PROVE  \E n \in 0 .. MaxNotices["agent"] :
               n < said["agent"] + 1 /\ c.summary = Streamed(n)
<1>1. PICK n \in 0 .. MaxNotices["agent"] : n < said["agent"] /\ c.summary = Streamed(n)
  BY DEF ViewInv, StreamInv
<1>2. said["agent"] \in Nat /\ MaxNotices["agent"] \in Nat
  BY ConnectionAssumption DEF ViewInv, ViewTypeOK, TypeOK, Peer
<1>3. n < said["agent"] + 1
  BY <1>1, <1>2
<1> QED
  BY <1>1, <1>3

\* write(notify<SessionUpdateNote>(...)) of what the session went through.
LEMMA TellKeeps ==
    ASSUME ViewInv, TypeOK', NEW u \in WrittenUpdates, NEW s \in Session,
           Tell(u, s), Follows(Apply(own, u), s), Apply(own, u).mode = s.mode,
           u[1] = "SU_Notice" => caps.notices,
           u[1] \in {"SU_Compaction", "SU_CompactionSummaryChunk"} => caps.compaction,
           \A c \in s.compaction : c.status = "in_progress" =>
               \E n \in 0 .. MaxNotices["agent"] :
                   n < said["agent"] + 1 /\ c.summary = Streamed(n)
    PROVE  ViewInv'
<1>1. PICK note : note = NoteOf(u)
  OBVIOUS
<1>2. note \in WrittenNotes /\ note = {UpdateMsg(u)} /\ ArmOf(note) = u[1]
  <2>1. note = {UpdateMsg(u)} /\ note \in WrittenNotes
    BY <1>1, NoteWritten
  <2>2. The({UpdateMsg(u)}) = UpdateMsg(u) /\ UpdateMsg(u).update = u
    BY DEF The, UpdateMsg
  <2> QED
    BY <2>1, <2>2 DEF ArmOf
<1>3. PICK g : g = FrameOf("note", 0, "session/update", said["agent"] + 1)
  OBVIOUS
<1>4. /\ "agent" \in Peer /\ Other("agent") = "client"
      /\ said["agent"] \in Nat /\ TypeOK
      /\ told \in Seq(WrittenNotes) /\ Len(told) = said["agent"]
  BY DEF Peer, Other, ViewInv, ViewTypeOK, TypeOK, TablesInv
<1>5. g \in Frame /\ g.kind = "note" /\ g.sent = said["agent"] + 1
  BY <1>3, <1>4, FrameOfType, ViewAssumption
<1>6. wire'["client"] = Append(wire["client"], g)
  <2>1. Write("agent", g)
    BY <1>3 DEF Tell, SendNotice
  <2> QED
    BY <1>4, <1>5, <2>1, WriteEffect
<1>7. /\ said'["agent"] = said["agent"] + 1 /\ next' = next
      /\ told' = Append(told, note) /\ own' = s /\ trail' = Append(trail, s)
      /\ UNCHANGED <<caps, known, view, wanted, taken, stale>>
  BY <1>1, <1>4 DEF Tell, SendNotice, TypeOK
<1>8. /\ told' \in Seq(WrittenNotes)
      /\ Len(told') = Len(told) + 1
      /\ Extends(told, told')
      /\ told'[Len(told) + 1] = note
      /\ Len(told) + 1 \in DOMAIN told'
      /\ \A i \in DOMAIN told' : told'[i] = note \/ (i \in DOMAIN told /\ told'[i] = told[i])
  BY <1>2, <1>4, <1>7, ExtendsAppend
<1>9. Leads(told', wanted', g, own, s)
  <2>1. \A p \in {UpdateMsg(u)} : p.update = u
    BY DEF UpdateMsg
  <2> QED
    BY <1>2, <1>4, <1>5, <1>8, <2>1 DEF Leads
<1>10. OnlyRendered'
  <2>1. ASSUME NEW k \in DOMAIN told'
        PROVE  /\ ArmOf(told'[k]) = "SU_Notice" => caps.notices
               /\ ArmOf(told'[k]) \in {"SU_Compaction", "SU_CompactionSummaryChunk"} =>
                      caps.compaction
    <3>1. CASE told'[k] = note
      BY <1>2, <3>1
    <3>2. CASE k \in DOMAIN told /\ told'[k] = told[k]
      BY <3>2 DEF ViewInv, OnlyRendered
    <3> QED
      BY <1>8, <2>1, <3>1, <3>2
  <2>2. caps' = caps
    BY <1>7
  <2> QED
    BY <2>1, <2>2 DEF OnlyRendered
<1>11. StreamInv'
  BY <1>7 DEF StreamInv
<1>12. next'["client"] = next["client"] /\ Len(told') = said'["agent"]
  BY <1>4, <1>7, <1>8
<1> QED
  BY <1>5, <1>6, <1>7, <1>8, <1>9, <1>10, <1>11, <1>12, WrittenView

LEMMA AnnounceKeeps ==
    ASSUME ViewInv, TypeOK', Announce
    PROVE  ViewInv'
<1>1. PICK u : u = <<"SU_ToolCall", NewCall>>
  OBVIOUS
<1>2. PICK s : s = [own EXCEPT !.calls = Put(own.calls, NewCall.toolCallId, NewCall)]
  OBVIOUS
<1>3. Tell(u, s)
  BY <1>1, <1>2 DEF Announce
<1>4. u[1] = "SU_ToolCall" /\ u[2] = NewCall /\ u \in WrittenUpdates
  BY <1>1 DEF WrittenUpdates
<1>5. s = Apply(own, u)
  BY <1>2, <1>4, ApplyArm DEF FileCall
<1>6. s \in Session /\ s.compaction = own.compaction
  <2>1. own \in Session
    BY Ends
  <2>2. NewCall \in Calls
    BY ViewAssumption
  <2>3. Put(own.calls, NewCall.toolCallId, NewCall) \in CallTables
    BY <2>1, <2>2, Parts, PutCall
  <2> QED
    BY <1>2, <2>1, <2>3, Parts, PartsType
<1> QED
  BY <1>3, <1>4, <1>5, <1>6, StreamKept, FollowsSame, TellKeeps

\* A tool call goes to another state: what a reader makes of the delta follows.
LEMMA ProgressKeeps ==
    ASSUME ViewInv, TypeOK', NEW x \in DOMAIN own.calls,
           NEW after \in Changes(own.calls[x]), Progress(x, after)
    PROVE  ViewInv'
<1>1. PICK u : u = ToldChange(own.calls[x], after)
  OBVIOUS
<1>2. PICK s : s = [own EXCEPT !.calls[x] = after]
  OBVIOUS
<1>3. Tell(u, s)
  BY <1>1, <1>2 DEF Progress
<1>4. /\ u \in WrittenUpdates /\ u[1] = "SU_ToolCallUpdate"
      /\ Follows(Apply(own, u), s) /\ Apply(own, u).mode = s.mode
      /\ s \in Session /\ s.compaction = own.compaction
  <2>1. own \in Session
    BY Ends
  <2>2. PICK f : f = own.calls
    OBVIOUS
  <2>3. f \in CallTables
    BY <2>1, <2>2, Parts
  <2>4. PICK c : c = f[x]
    OBVIOUS
  <2>5. x \in DOMAIN f /\ c \in Calls /\ c.toolCallId = x
    BY <2>2, <2>3, <2>4, CallTable
  <2>6. after \in Changes(c)
    BY <2>2, <2>4
  <2>7. PICK d : d = DeltaOf(c, after)
    OBVIOUS
  <2>8. PICK a : a = ApplyDelta(c, d)
    OBVIOUS
  <2>9. Shows(a, after) /\ d.toolCallId = x
    BY <2>5, <2>6, <2>7, <2>8, DeltaApplies, DeltaParts
  <2>10. d \in WrittenDeltas
    <3>1. d \in {DeltaOf(c, b) : b \in Changes(c)}
      BY <2>6, <2>7
    <3> QED
      BY <2>5, <3>1 DEF WrittenDeltas
  <2>11. u[1] = "SU_ToolCallUpdate" /\ u[2] = d /\ u \in WrittenUpdates
    <3>1. u = <<"SU_ToolCallUpdate", d>>
      BY <1>1, <2>2, <2>4, <2>7 DEF ToldChange
    <3> QED
      BY <2>10, <3>1 DEF WrittenUpdates
  <2>12. PICK h : h = [f EXCEPT ![x] = after]
    OBVIOUS
  <2>13. PICK g : g = [f EXCEPT ![x] = a]
    OBVIOUS
  <2>14. h \in CallTables
    <3>1. after \in Calls /\ after.toolCallId = x
      BY <2>5, <2>6, ChangeKeeps
    <3> QED
      BY <2>3, <2>5, <2>12, <3>1, ChangeCall
  <2>15. own = [calls |-> f, mode |-> own.mode, compaction |-> own.compaction,
                notices |-> own.notices]
    BY <2>1, <2>2, Parts
  <2>16. s = [calls |-> h, mode |-> own.mode, compaction |-> own.compaction,
              notices |-> own.notices]
    BY <1>2, <2>12, <2>15
  <2>17. Apply(own, u) = [calls |-> g, mode |-> own.mode,
                compaction |-> own.compaction, notices |-> own.notices]
    <3>1. Apply(own, u) = Changed(own, d)
      BY <2>11, ApplyArm
    <3>2. [f EXCEPT ![d.toolCallId] = ApplyDelta(@, d)] = g
      BY <2>4, <2>8, <2>9, <2>13
    <3> QED
      BY <2>5, <2>9, <2>15, <3>1, <3>2, ChangedParts
  <2>18. s \in Session
    BY <2>1, <2>14, <2>16, Parts, PartsType
  <2>19. DOMAIN g = DOMAIN h /\ \A y \in DOMAIN h : Shows(g[y], h[y])
    <3>1. \A y \in DOMAIN h : g[y] = IF y = x THEN a ELSE f[y]
      BY <2>12, <2>13
    <3>2. \A y \in DOMAIN h : h[y] = IF y = x THEN after ELSE f[y]
      BY <2>12
    <3>3. \A y : Shows(f[y], f[y])
      BY DEF Shows
    <3>4. DOMAIN g = DOMAIN h
      BY <2>12, <2>13
    <3> QED
      BY <2>9, <3>1, <3>2, <3>3, <3>4
  <2>20. Follows(Apply(own, u), s) /\ Apply(own, u).mode = s.mode
    BY <2>16, <2>17, <2>19 DEF Follows
  <2>21. s.compaction = own.compaction
    BY <2>16
  <2> QED
    BY <2>11, <2>18, <2>20, <2>21
<1>5. \A c \in s.compaction : c.status = "in_progress" =>
          \E n \in 0 .. MaxNotices["agent"] :
              n < said["agent"] + 1 /\ c.summary = Streamed(n)
  BY <1>4, StreamKept
<1> QED
  BY <1>3, <1>4, <1>5, TellKeeps

LEMMA SwitchKeeps ==
    ASSUME ViewInv, TypeOK', NEW m \in Modes, Switch(m)
    PROVE  ViewInv'
<1>1. PICK u : u = ToldMode(m)
  OBVIOUS
<1>2. PICK s : s = [own EXCEPT !.mode = m]
  OBVIOUS
<1>3. Tell(u, s)
  BY <1>1, <1>2 DEF Switch
<1>4. u[1] = "SU_CurrentMode" /\ u[2].currentModeId = m /\ u \in WrittenUpdates
  BY <1>1 DEF WrittenUpdates, ToldMode
<1>5. s = Apply(own, u)
  BY <1>2, <1>4, ApplyArm
<1>6. s \in Session /\ s.compaction = own.compaction
  BY <1>2, Ends, Parts, PartsType
<1> QED
  BY <1>3, <1>4, <1>5, <1>6, StreamKept, FollowsSame, TellKeeps

LEMMA NotifyKeeps ==
    ASSUME ViewInv, TypeOK', Notify
    PROVE  ViewInv'
<1>1. PICK u : u = ToldNotice
  OBVIOUS
<1>2. PICK s : s = [own EXCEPT !.notices = own.notices + 1]
  OBVIOUS
<1>3. Tell(u, s) /\ known.notices
  BY <1>1, <1>2 DEF Notify
<1>4. u[1] = "SU_Notice" /\ u \in WrittenUpdates
  BY <1>1 DEF WrittenUpdates, ToldNotice
<1>5. s = Apply(own, u)
  BY <1>2, <1>4, ApplyArm
<1>6. s \in Session /\ s.compaction = own.compaction
  <2>1. own \in Session
    BY Ends
  <2>2. s = [calls |-> own.calls, mode |-> own.mode, compaction |-> own.compaction,
             notices |-> own.notices + 1]
    BY <1>2, <2>1, Parts
  <2> QED
    BY <2>1, <2>2, Parts, PartsType
<1>7. caps.notices
  BY <1>3, KnownCaps DEF ViewInv
<1> QED
  BY <1>3, <1>4, <1>5, <1>6, <1>7, StreamKept, FollowsSame, TellKeeps

LEMMA StartKeeps ==
    ASSUME ViewInv, TypeOK', StartCompaction
    PROVE  ViewInv'
<1>1. PICK u : u = ToldCompaction("in_progress", Nothing)
  OBVIOUS
<1>2. PICK c : c = [status |-> "in_progress", summary |-> << >>]
  OBVIOUS
<1>3. PICK s : s = [own EXCEPT !.compaction = Just(c)]
  OBVIOUS
<1>4. Tell(u, s) /\ known.compaction /\ own.compaction = Nothing
  BY <1>1, <1>2, <1>3 DEF StartCompaction, TellCompaction
<1>5. u[1] = "SU_Compaction" /\ u[2].status = "in_progress" /\ u[2].summary = Nothing
      /\ u \in WrittenUpdates
  BY <1>1 DEF WrittenUpdates, ToldCompaction
<1>6. s = Apply(own, u)
  <2>1. Apply(own, u) = ApplyCompaction(own, u[2])
    BY <1>5, ApplyArm
  <2> QED
    BY <1>2, <1>3, <1>4, <1>5, <2>1 DEF ApplyCompaction
<1>7. MaxNotices["agent"] \in Nat /\ said["agent"] \in Nat
  BY ConnectionAssumption DEF ViewInv, ViewTypeOK, TypeOK, Peer
<1>8. c.summary = Streamed(0) /\ 0 \in 0 .. MaxNotices["agent"]
  BY <1>2, <1>7, NothingStreamed
<1>9. s \in Session /\ s.compaction = Just(c)
  <2>1. Just(c) \in Compactions
    <3>1. c.summary \in Summaries
      BY <1>8 DEF Summaries
    <3> QED
      BY <1>2, <3>1 DEF Compactions
  <2> QED
    BY <1>3, <2>1, Ends, WithCompaction
<1>10. \A x \in s.compaction : x.status = "in_progress" =>
           \E n \in 0 .. MaxNotices["agent"] :
               n < said["agent"] + 1 /\ x.summary = Streamed(n)
  BY <1>7, <1>8, <1>9 DEF Just
<1>11. caps.compaction
  BY <1>4, KnownCaps DEF ViewInv
<1> QED
  BY <1>4, <1>5, <1>6, <1>9, <1>10, <1>11, FollowsSame, TellKeeps

LEMMA StreamKeeps ==
    ASSUME ViewInv, TypeOK', StreamSummary
    PROVE  ViewInv'
<1>0. own \in Session /\ own.compaction \in Compactions
  BY Ends, Parts
<1>1. PICK c \in own.compaction :
          /\ c.status = "in_progress"
          /\ Tell(ToldChunk(Block(Len(c.summary) + 1)),
                  [own EXCEPT !.compaction =
                     Just([status |-> c.status,
                           summary |-> Append(c.summary, Block(Len(c.summary) + 1))])])
  BY DEF StreamSummary
<1>2. own.compaction # Nothing /\ The(own.compaction) = c
  BY <1>0, CompactionShape
<1>3. PICK n \in 0 .. MaxNotices["agent"] : n < said["agent"] /\ c.summary = Streamed(n)
  BY <1>1 DEF ViewInv, StreamInv
<1>4. n \in Nat /\ Len(c.summary) = n /\ Append(c.summary, Block(n + 1)) = Streamed(n + 1)
  <2>1. n \in Nat
    BY <1>3
  <2>2. Len(Streamed(n)) = n /\ Append(Streamed(n), Block(n + 1)) = Streamed(n + 1)
    BY <2>1, Streaming
  <2> QED
    BY <1>3, <2>1, <2>2
<1>5. PICK u : u = ToldChunk(Block(n + 1))
  OBVIOUS
<1>6. PICK y : y = [status |-> "in_progress", summary |-> Streamed(n + 1)]
  OBVIOUS
<1>7. PICK s : s = [own EXCEPT !.compaction = Just(y)]
  OBVIOUS
<1>8. Tell(u, s)
  BY <1>1, <1>4, <1>5, <1>6, <1>7
<1>9. n + 1 \in 1 .. MaxNotices["agent"] /\ n + 1 \in 0 .. MaxNotices["agent"]
      /\ n + 1 < said["agent"] + 1
  <2>1. said["agent"] < MaxNotices["agent"]
    BY <1>8 DEF Tell, SendNotice
  <2>2. said["agent"] \in Nat /\ MaxNotices["agent"] \in Nat
    BY ConnectionAssumption DEF ViewInv, ViewTypeOK, TypeOK, Peer
  <2> QED
    BY <1>3, <1>4, <2>1, <2>2
<1>10. u[1] = "SU_CompactionSummaryChunk" /\ u[2].content = Block(n + 1)
  BY <1>5 DEF ToldChunk
<1>11. u \in WrittenUpdates
  BY <1>5, <1>9 DEF WrittenUpdates
<1>12. s = Apply(own, u)
  <2>1. Apply(own, u) = ApplyChunk(own, u[2])
    BY <1>10, ApplyArm
  <2>2. own = [calls |-> own.calls, mode |-> own.mode,
               compaction |-> own.compaction, notices |-> own.notices]
    BY <1>0, Parts
  <2>3. ApplyChunk(own, u[2]) =
          [calls |-> own.calls, mode |-> own.mode,
           compaction |-> Just([status |-> c.status,
                                summary |-> Append(c.summary, u[2].content)]),
           notices |-> own.notices]
    BY <1>2, <2>2, ChunkParts
  <2>4. s = [calls |-> own.calls, mode |-> own.mode, compaction |-> Just(y),
             notices |-> own.notices]
    BY <1>0, <1>7, Parts
  <2>5. [status |-> c.status, summary |-> Append(c.summary, u[2].content)] = y
    BY <1>1, <1>4, <1>6, <1>10
  <2> QED
    BY <2>1, <2>3, <2>4, <2>5
<1>13. s \in Session /\ s.compaction = Just(y)
  <2>1. Just(y) \in Compactions
    <3>1. Streamed(n + 1) \in Summaries
      BY <1>9 DEF Summaries
    <3> QED
      BY <1>6, <3>1 DEF Compactions
  <2> QED
    BY <1>0, <1>7, <2>1, WithCompaction
<1>14. \A x \in s.compaction : x.status = "in_progress" =>
           \E i \in 0 .. MaxNotices["agent"] :
               i < said["agent"] + 1 /\ x.summary = Streamed(i)
  <2>1. \A x \in s.compaction : x.summary = Streamed(n + 1)
    BY <1>6, <1>13 DEF Just
  <2> QED
    BY <1>9, <2>1
<1>15. caps.compaction
  <2>1. known.compaction
    BY DEF StreamSummary
  <2> QED
    BY <2>1, KnownCaps DEF ViewInv
<1> QED
  BY <1>8, <1>10, <1>11, <1>12, <1>13, <1>14, <1>15, FollowsSame, TellKeeps

LEMMA FinishKeeps ==
    ASSUME ViewInv, TypeOK', NEW final \in Final, FinishCompaction(final)
    PROVE  ViewInv'
<1>0. own \in Session /\ own.compaction \in Compactions
  BY Ends, Parts
<1>1. PICK c \in own.compaction :
          TellCompaction("completed", final,
              [status |-> "completed",
               summary |-> IF final = Nothing THEN c.summary ELSE The(final)])
  BY DEF FinishCompaction
<1>2. own.compaction # Nothing /\ The(own.compaction) = c
      /\ c.summary \in Summaries \cup UNION Final
  BY <1>0, CompactionShape
<1>3. PICK y : y = [status |-> "completed",
                    summary |-> IF final = Nothing THEN c.summary ELSE The(final)]
  OBVIOUS
<1>4. PICK u : u = ToldCompaction("completed", final)
  OBVIOUS
<1>5. PICK s : s = [own EXCEPT !.compaction = Just(y)]
  OBVIOUS
<1>6. Tell(u, s) /\ known.compaction
  BY <1>1, <1>3, <1>4, <1>5 DEF TellCompaction
<1>7. u[1] = "SU_Compaction" /\ u[2].status = "completed" /\ u[2].summary = final
      /\ u \in WrittenUpdates
  BY <1>4 DEF WrittenUpdates, ToldCompaction
<1>8. s = Apply(own, u)
  <2>1. Apply(own, u) = ApplyCompaction(own, u[2])
    BY <1>7, ApplyArm
  <2> QED
    BY <1>2, <1>3, <1>5, <1>7, <2>1 DEF ApplyCompaction
<1>9. s \in Session /\ s.compaction = Just(y)
  <2>1. y.summary \in Summaries \cup UNION Final
    <3>1. CASE final = Nothing
      BY <1>2, <1>3, <3>1
    <3>2. CASE final # Nothing
      <4>1. The(final) \in final
        BY <3>2 DEF The, Nothing
      <4> QED
        BY <1>3, <3>2, <4>1
    <3> QED
      BY <3>1, <3>2
  <2>2. Just(y) \in Compactions
    BY <1>3, <2>1 DEF Compactions
  <2> QED
    BY <1>0, <1>5, <2>2, WithCompaction
<1>10. \A x \in s.compaction : x.status # "in_progress"
  BY <1>3, <1>9 DEF Just
<1>11. caps.compaction
  BY <1>6, KnownCaps DEF ViewInv
<1> QED
  BY <1>6, <1>7, <1>8, <1>9, <1>10, <1>11, FollowsSame, TellKeeps

LEMMA AskKeeps ==
    ASSUME ViewInv, TypeOK', AskPermission
    PROVE  ViewInv'
<1>1. /\ SendRequest("agent", "session/request_permission", FALSE)
      /\ trail' = Append(trail, own)
      /\ UNCHANGED <<caps, known, own, view, told, wanted, taken, stale>>
  BY DEF AskPermission
<1>2. /\ "agent" \in Peer /\ "client" \in Peer /\ "client" # "agent"
      /\ Other("agent") = "client"
      /\ next \in [Peer -> Nat] /\ said["agent"] \in Nat /\ TypeOK
  BY DEF Peer, Other, ViewInv, ViewTypeOK, TypeOK
<1>3. PICK g : g = FrameOf("call", next["agent"] + 1, "session/request_permission",
                           said["agent"])
  OBVIOUS
<1>4. g \in Frame /\ g.kind = "call"
  <2>1. next["agent"] + 1 \in Nat /\ said["agent"] \in Nat
    BY <1>2
  <2>2. "session/request_permission" \in Method \cup Notice
    BY ViewAssumption
  <2> QED
    BY <1>3, <2>1, <2>2, FrameOfType
<1>5. wire'["client"] = Append(wire["client"], g)
  <2>1. Write("agent", g)
    BY <1>1, <1>3 DEF SendRequest
  <2> QED
    BY <1>2, <1>4, <2>1, WriteEffect
<1>6. next'["client"] = next["client"] /\ said' = said
  BY <1>1, <1>2 DEF SendRequest
<1>7. own \in Session
  BY Ends
<1>8. Leads(told', wanted', g, own, own)
  BY <1>4 DEF Leads
<1>9. OnlyRendered'
  BY <1>1 DEF ViewInv, OnlyRendered
<1>10. StreamInv'
  BY <1>1, <1>6 DEF ViewInv, StreamInv
<1>11. Extends(told, told') /\ told' \in Seq(WrittenNotes) /\ Len(told') = said'["agent"]
  BY <1>1, <1>6, ExtendsSame DEF ViewInv, ViewTypeOK, TablesInv
<1> QED
  BY <1>1, <1>4, <1>5, <1>6, <1>7, <1>8, <1>9, <1>10, <1>11, WrittenView

\* The agent's answer to session/set_mode.
LEMMA AnswerKeeps ==
    ASSUME ViewInv, TypeOK', IInv, wire["agent"] # << >>, NEW kind \in Reply,
           AnswerSetMode(Head(wire["agent"]), kind)
    PROVE  ViewInv'
<1>1. PICK f : f = Head(wire["agent"])
  OBVIOUS
<1>2. PICK s : s = IF kind = "result" THEN [own EXCEPT !.mode = wanted[f.id]] ELSE own
  OBVIOUS
<1>3. /\ ReceiveHandled("agent", f, kind)
      /\ own' = s /\ trail' = Append(trail, s)
      /\ UNCHANGED <<caps, known, view, told, wanted, taken, stale>>
  BY <1>1, <1>2 DEF AnswerSetMode
<1>4. /\ "agent" \in Peer /\ "client" \in Peer
      /\ Other("agent") = "client" /\ Other("client") = "agent"
      /\ TypeOK /\ said["agent"] \in Nat /\ next["client"] \in Nat
      /\ wanted \in Seq(Modes) /\ Len(wanted) = next["client"]
  BY DEF Peer, Other, ViewInv, ViewTypeOK, TypeOK, TablesInv
<1>5. Takes("agent", f) /\ f.kind = "call" /\ f.method \in On["agent"]
  BY <1>3 DEF ReceiveHandled
<1>6. f \in Frame /\ f = wire["agent"][1] /\ 1 \in DOMAIN wire["agent"]
  <2>1. f \in Frame /\ f = wire["agent"][1] /\ wire["agent"] \in Seq(Frame)
    BY <1>4, <1>5, TakenType
  <2>2. Len(wire["agent"]) # 0 /\ Len(wire["agent"]) \in Nat
    BY <2>1, EmptySeq, LenProperties
  <2> QED
    BY <2>1, <2>2, LenProperties
<1>7. f.id \in 1 .. next["client"]
  <2>1. NamesInv("client")
    BY <1>4 DEF IInv
  <2> QED
    BY <1>4, <1>5, <1>6, <2>1 DEF NamesInv, Names
<1>8. f.id \in DOMAIN wanted /\ wanted[f.id] \in Modes /\ f.id \in Nat
  BY <1>4, <1>7, LenProperties
<1>9. f.method \in Method
  BY <1>4, <1>5, ConnectionAssumption
<1>10. PICK g : g = FrameOf(kind, f.id, f.method, said["agent"])
  OBVIOUS
<1>11. g \in Frame /\ g.kind = kind /\ g.id = f.id
  BY <1>4, <1>8, <1>9, <1>10, FrameOfType DEF Reply
<1>12. wire'["client"] = Append(wire["client"], g)
  <2>1. TakeAndWrite("agent", g)
    BY <1>3, <1>10 DEF ReceiveHandled
  <2> QED
    BY <1>4, <1>5, <1>11, <2>1, TakeAndWriteEffect
<1>13. own \in Session
  BY Ends
<1>14. s \in Session /\ s.compaction = own.compaction
  BY <1>2, <1>8, <1>13, Parts, PartsType
<1>15. Leads(told', wanted', g, own, s)
  <2>1. wanted' = wanted
    BY <1>3
  <2> QED
    BY <1>2, <1>8, <1>11, <2>1 DEF Leads, Reply
<1>16. said' = said /\ next' = next
  BY <1>3 DEF ReceiveHandled
<1>17. OnlyRendered'
  BY <1>3 DEF ViewInv, OnlyRendered
<1>18. StreamInv'
  <2>1. own'.compaction = own.compaction
    BY <1>3, <1>14
  <2> QED
    BY <1>16, <2>1 DEF ViewInv, StreamInv
<1>19. /\ Extends(told, told') /\ told' \in Seq(WrittenNotes) /\ Len(told') = said'["agent"]
       /\ next'["client"] = next["client"]
  BY <1>3, <1>16, ExtendsSame DEF ViewInv, ViewTypeOK, TablesInv
<1> QED
  BY <1>3, <1>11, <1>12, <1>14, <1>15, <1>17, <1>18, <1>19, WrittenView

-----------------------------------------------------------------------------
(***************************************************************************)
(* The client writes, waits and reads.                                     *)
(***************************************************************************)
LEMMA Stays ==
    ASSUME ViewInv, TypeOK', wire'["client"] = wire["client"],
           UNCHANGED <<caps, known, own, view, told, trail, taken, stale, said>>,
           wanted' \in Seq(Modes), Len(wanted') = next'["client"], Extends(wanted, wanted')
    PROVE  ViewInv'
<1>1. Extends(told, told')
  BY ExtendsSame
<1>2. /\ FramesInv'
      /\ Len(trail') = 1 + Len(wire'["client"]) + taken'
      /\ own' = trail'[Len(trail')]
      /\ AsSent' = AsSent
  BY <1>1, Untouched
<1>3. ViewTypeOK'
  BY DEF ViewInv, ViewTypeOK
<1>4. TablesInv'
  BY <1>2 DEF ViewInv, TablesInv
<1>5. StreamInv' /\ OnlyRendered'
  BY DEF ViewInv, StreamInv, OnlyRendered
<1>6. ViewInStep'
  <2>1. view' = view /\ stale' = stale /\ ViewInStep
    BY DEF ViewInv
  <2> QED
    BY <1>2, <2>1 DEF ViewInStep
<1> QED
  BY <1>2, <1>3, <1>4, <1>5, <1>6 DEF ViewInv

LEMMA SetModeKeeps ==
    ASSUME ViewInv, TypeOK', NEW m \in Modes, NEW timed \in BOOLEAN, SetMode(m, timed)
    PROVE  ViewInv'
<1>1. /\ "agent" \in Peer /\ "client" \in Peer /\ "client" # "agent"
      /\ next \in [Peer -> Nat] /\ said["client"] \in Nat /\ TypeOK
      /\ wanted \in Seq(Modes) /\ Len(wanted) = next["client"]
  BY DEF Peer, ViewInv, ViewTypeOK, TypeOK, TablesInv
<1>2. /\ SendRequest("client", "session/set_mode", timed)
      /\ wanted' = Append(wanted, m)
      /\ UNCHANGED <<caps, known, own, view, told, trail, taken, stale>>
  BY DEF SetMode
<1>3. PICK g : g = FrameOf("call", next["client"] + 1, "session/set_mode", said["client"])
  OBVIOUS
<1>4. g \in Frame
  <2>1. next["client"] + 1 \in Nat
    BY <1>1
  <2> QED
    BY <1>1, <1>3, <2>1, FrameOfType, ViewAssumption
<1>5. wire'["client"] = wire["client"]
  <2>1. Write("client", g)
    BY <1>2, <1>3 DEF SendRequest
  <2> QED
    BY <1>1, <1>4, <2>1, WriteEffect
<1>6. next'["client"] = next["client"] + 1 /\ said' = said
  BY <1>1, <1>2 DEF SendRequest
<1>7. wanted' \in Seq(Modes) /\ Len(wanted') = Len(wanted) + 1 /\ Extends(wanted, wanted')
  BY <1>1, <1>2, ExtendsAppend
<1>8. Len(wanted') = next'["client"]
  BY <1>1, <1>6, <1>7
<1> QED
  BY <1>2, <1>5, <1>6, <1>7, <1>8, Stays

\* No frame for the client, and no request of either side.
LEMMA IdleKeeps ==
    ASSUME ViewInv, TypeOK', wire'["client"] = wire["client"], next' = next, said' = said,
           UNCHANGED viewVars
    PROVE  ViewInv'
<1>1. wanted \in Seq(Modes) /\ Len(wanted) = next["client"]
  BY DEF ViewInv, ViewTypeOK, TablesInv
<1> QED
  BY <1>1, ExtendsSame, Stays DEF viewVars

LEMMA TakenView ==
    ASSUME ViewInv, TypeOK', wire["client"] # << >>, wire'["client"] = Tail(wire["client"]),
           taken' = taken + 1, stale' \in BOOLEAN,
           UNCHANGED <<caps, known, own, told, wanted, trail, said, next>>,
           NEW s \in Session, NEW v \in Session, AsSent' = s, view' = v,
           Follows(v, s), ~stale' => v.mode = s.mode
    PROVE  ViewInv'
<1>1. /\ FramesInv'
      /\ Len(trail') = 1 + Len(wire'["client"]) + taken'
      /\ own' = trail'[Len(trail')]
  BY Consumed
<1>2. ViewTypeOK'
  BY DEF ViewInv, ViewTypeOK
<1>3. TablesInv'
  BY <1>1 DEF ViewInv, TablesInv
<1>4. StreamInv' /\ OnlyRendered'
  BY DEF ViewInv, StreamInv, OnlyRendered
<1>5. ViewInStep'
  BY DEF ViewInStep
<1> QED
  BY <1>1, <1>2, <1>3, <1>4, <1>5 DEF ViewInv

\* Before the client takes a frame, and after.
LEMMA Taking ==
    ASSUME ViewInv, wire["client"] # << >>, wire'["client"] = Tail(wire["client"]),
           taken' = taken + 1, UNCHANGED <<own, told, wanted, trail>>
    PROVE  \E s, t \in Session :
               /\ AsSent = s /\ AsSent' = t
               /\ Follows(view, s) /\ (~stale => view.mode = s.mode)
               /\ Leads(told, wanted, Head(wire["client"]), s, t)
<1>1. PICK s \in Session : AsSent = s
  BY Ends
<1>2. PICK t \in Session : AsSent' = t /\ Leads(told, wanted, Head(wire["client"]), s, t)
  BY <1>1, Consumed
<1>3. Follows(view, s) /\ (~stale => view.mode = s.mode)
  BY <1>1 DEF ViewInv, ViewInStep
<1> QED
  BY <1>1, <1>2, <1>3

LEMMA ShowKeeps ==
    ASSUME ViewInv, TypeOK', wire["client"] # << >>, ShowUpdate(Head(wire["client"]))
    PROVE  ViewInv'
<1>1. PICK f : f = Head(wire["client"])
  OBVIOUS
<1>2. ReceiveNotice("client", f) /\ "client" \in Peer /\ TypeOK
  BY <1>1 DEF ShowUpdate, Peer, ViewInv, ViewTypeOK
<1>3. wire'["client"] = Tail(wire["client"]) /\ f.kind = "note"
  <2>1. Takes("client", f) /\ wire' = [wire EXCEPT !["client"] = Tail(@)]
    BY <1>2 DEF ReceiveNotice
  <2> QED
    BY <1>2, <2>1, TakeEffect DEF ReceiveNotice
<1>4. /\ taken' = taken + 1 /\ said' = said /\ next' = next
      /\ UNCHANGED <<caps, known, own, told, wanted, trail>>
  BY <1>2 DEF ShowUpdate, ReceiveNotice
<1>5. PICK s \in Session, t \in Session :
          /\ AsSent = s /\ AsSent' = t
          /\ Follows(view, s) /\ (~stale => view.mode = s.mode)
          /\ Leads(told, wanted, f, s, t)
  BY <1>1, <1>3, <1>4, Taking
<1>6. PICK v \in Session : v = view
  BY Ends
<1>7. /\ f.sent \in DOMAIN told
      /\ \A p \in told[f.sent] :
             Follows(Apply(s, p.update), t) /\ Apply(s, p.update).mode = t.mode
  BY <1>3, <1>5 DEF Leads
<1>8. PICK note : note = told[f.sent]
  OBVIOUS
<1>9. note \in WrittenNotes
  <2>1. told \in Seq(WrittenNotes)
    BY DEF ViewInv, ViewTypeOK
  <2> QED
    BY <1>7, <1>8, <2>1, LenProperties
<1>10. PICK u \in WrittenUpdates :
           /\ note = {UpdateMsg(u)} /\ The(note).update = u
           /\ ArmOf(note) = u[1] /\ u[1] \in Arms
  BY <1>9, NoteRead
<1>11. Follows(Apply(s, u), t) /\ Apply(s, u).mode = t.mode
  <2>1. UpdateMsg(u) \in note /\ UpdateMsg(u).update = u
    BY <1>10 DEF UpdateMsg
  <2> QED
    BY <1>7, <1>8, <2>1
<1>12. PICK w : w = Apply(v, u)
  OBVIOUS
<1>13. view' = w /\ stale' = (stale /\ u[1] # "SU_CurrentMode")
  <2>1. /\ view' = IF note = {} THEN view ELSE Apply(view, The(note).update)
        /\ stale' = (stale /\ ArmOf(note) # "SU_CurrentMode")
    BY <1>1, <1>8 DEF ShowUpdate
  <2>2. note # {}
    BY <1>10
  <2>3. view' = w
    BY <1>6, <1>10, <1>12, <2>1, <2>2
  <2>4. stale' = (stale /\ u[1] # "SU_CurrentMode")
    BY <1>10, <2>1
  <2> QED
    BY <2>3, <2>4
<1>14. Follows(v, s) /\ (~stale => v.mode = s.mode)
  BY <1>5, <1>6
<1>15. /\ w \in Session /\ Follows(w, t)
       /\ u[1] = "SU_CurrentMode" \/ v.mode = s.mode => w.mode = t.mode
  BY <1>10, <1>11, <1>12, <1>14, ApplyFollows
<1>16. stale' \in BOOLEAN /\ (~stale' => w.mode = t.mode)
  <2>1. stale \in BOOLEAN
    BY DEF ViewInv, ViewTypeOK
  <2> QED
    BY <1>13, <1>14, <1>15, <2>1
<1> QED
  BY <1>3, <1>4, <1>5, <1>13, <1>15, <1>16, TakenView

LEMMA GrantKeeps ==
    ASSUME ViewInv, TypeOK', wire["client"] # << >>, GrantPermission(Head(wire["client"]))
    PROVE  ViewInv'
<1>1. PICK f : f = Head(wire["client"])
  OBVIOUS
<1>2. /\ ReceiveHandled("client", f, "result")
      /\ "client" \in Peer /\ TypeOK /\ said["client"] \in Nat
  BY <1>1 DEF GrantPermission, Peer, ViewInv, ViewTypeOK, TypeOK
<1>3. Takes("client", f) /\ f.kind = "call" /\ f \in Frame
  BY <1>2, TakenType DEF ReceiveHandled
<1>4. wire'["client"] = Tail(wire["client"])
  <2>1. PICK g : g = FrameOf("result", f.id, f.method, said["client"])
    OBVIOUS
  <2>2. TakeAndWrite("client", g)
    BY <1>2, <2>1 DEF ReceiveHandled
  <2>3. g \in Frame
    <3>1. f.id \in Nat /\ f.method \in Method \cup Notice
      BY <1>3 DEF Frame
    <3> QED
      BY <1>2, <2>1, <3>1, FrameOfType
  <2> QED
    BY <1>2, <1>3, <2>2, <2>3, TakeAndWriteEffect
<1>5. /\ taken' = taken + 1 /\ said' = said /\ next' = next
      /\ UNCHANGED <<caps, known, own, view, told, wanted, trail, stale>>
  BY <1>2 DEF GrantPermission, ReceiveHandled
<1>6. PICK s \in Session, t \in Session :
          /\ AsSent = s /\ AsSent' = t
          /\ Follows(view, s) /\ (~stale => view.mode = s.mode)
          /\ Leads(told, wanted, f, s, t)
  BY <1>1, <1>4, <1>5, Taking
<1>7. PICK v \in Session : v = view
  BY Ends
<1>8. t = s
  BY <1>3, <1>6 DEF Leads
<1>9. view' = v /\ Follows(v, t) /\ (~stale' => v.mode = t.mode)
  BY <1>5, <1>6, <1>7, <1>8
<1>10. stale' \in BOOLEAN
  BY <1>5 DEF ViewInv, ViewTypeOK
<1> QED
  BY <1>4, <1>5, <1>6, <1>9, <1>10, TakenView

LEMMA ModeSetKeeps ==
    ASSUME ViewInv, TypeOK', wire["client"] # << >>, NEW r \in pending["client"],
           ModeSet(Head(wire["client"]), r)
    PROVE  ViewInv'
<1>1. PICK f : f = Head(wire["client"])
  OBVIOUS
<1>2. ReceiveReply("client", f, r) /\ "client" \in Peer /\ TypeOK
  BY <1>1 DEF ModeSet, Peer, ViewInv, ViewTypeOK
<1>3. wire'["client"] = Tail(wire["client"]) /\ f.kind \in Reply
  <2>1. Takes("client", f) /\ wire' = [wire EXCEPT !["client"] = Tail(@)]
    BY <1>2 DEF ReceiveReply
  <2> QED
    BY <1>2, <2>1, TakeEffect DEF ReceiveReply
<1>4. /\ taken' = taken + 1 /\ said' = said /\ next' = next
      /\ UNCHANGED <<caps, known, own, told, wanted, trail>>
  BY <1>2 DEF ModeSet, ReceiveReply
<1>5. PICK s \in Session, t \in Session :
          /\ AsSent = s /\ AsSent' = t
          /\ Follows(view, s) /\ (~stale => view.mode = s.mode)
          /\ Leads(told, wanted, f, s, t)
  BY <1>1, <1>3, <1>4, Taking
<1>6. PICK v \in Session : v = view
  BY Ends
<1>7. Follows(v, s) /\ (~stale => v.mode = s.mode)
  BY <1>5, <1>6
<1>8. stale \in BOOLEAN
  BY DEF ViewInv, ViewTypeOK
<1>9. stale' = (stale /\ f.kind = "error")
  BY <1>1 DEF ModeSet
<1>10. CASE f.kind = "result"
  <2>1. t = [s EXCEPT !.mode = wanted[f.id]]
    BY <1>5, <1>10 DEF Leads
  <2>2. view' = [v EXCEPT !.mode = wanted[f.id]]
    BY <1>1, <1>6, <1>10 DEF ModeSet
  <2>3. PICK w : w = [v EXCEPT !.mode = wanted[f.id]]
    OBVIOUS
  <2>4. w.mode = t.mode /\ Follows(w, t)
    BY <1>7, <2>1, <2>3, Parts DEF Follows
  <2>5. w \in Session
    <3>1. t.mode \in Modes /\ t.mode = wanted[f.id]
      BY <2>1, Parts
    <3> QED
      BY <2>3, <3>1, Parts, PartsType
  <2>6. stale' \in BOOLEAN
    BY <1>9
  <2> QED
    BY <1>3, <1>4, <1>5, <2>2, <2>3, <2>4, <2>5, <2>6, TakenView
<1>11. CASE f.kind = "error"
  <2>1. t = s
    BY <1>5, <1>11 DEF Leads
  <2>2. view' = v
    BY <1>1, <1>6, <1>11 DEF ModeSet
  <2>3. stale' = stale
    BY <1>8, <1>9, <1>11
  <2> QED
    BY <1>3, <1>4, <1>5, <1>7, <1>8, <2>1, <2>2, <2>3, TakenView
<1> QED
  BY <1>3, <1>10, <1>11 DEF Reply

LEMMA LateKeeps ==
    ASSUME ViewInv, TypeOK', wire["client"] # << >>, ModeSetLate(Head(wire["client"]))
    PROVE  ViewInv'
<1>1. PICK f : f = Head(wire["client"])
  OBVIOUS
<1>2. ReceiveLate("client", f) /\ "client" \in Peer /\ TypeOK
  BY <1>1 DEF ModeSetLate, Peer, ViewInv, ViewTypeOK
<1>3. wire'["client"] = Tail(wire["client"]) /\ f.kind \in Reply
  <2>1. Takes("client", f) /\ wire' = [wire EXCEPT !["client"] = Tail(@)]
    BY <1>2 DEF ReceiveLate
  <2> QED
    BY <1>2, <2>1, TakeEffect DEF ReceiveLate
<1>4. /\ taken' = taken + 1 /\ said' = said /\ next' = next
      /\ UNCHANGED <<caps, known, own, view, told, wanted, trail>>
  BY <1>2 DEF ModeSetLate, ReceiveLate
<1>5. PICK s \in Session, t \in Session :
          /\ AsSent = s /\ AsSent' = t
          /\ Follows(view, s) /\ (~stale => view.mode = s.mode)
          /\ Leads(told, wanted, f, s, t)
  BY <1>1, <1>3, <1>4, Taking
<1>6. PICK v \in Session : v = view
  BY Ends
<1>7. Follows(v, s) /\ (~stale => v.mode = s.mode) /\ view' = v
  BY <1>4, <1>5, <1>6
<1>8. stale \in BOOLEAN
  BY DEF ViewInv, ViewTypeOK
<1>9. stale' = (stale \/ f.kind = "result")
  BY <1>1 DEF ModeSetLate
<1>10. CASE f.kind = "result"
  <2>1. t = [s EXCEPT !.mode = wanted[f.id]]
    BY <1>5, <1>10 DEF Leads
  <2>2. Follows(v, t)
    BY <1>7, <2>1, Parts DEF Follows
  <2>3. stale' = TRUE
    BY <1>9, <1>10
  <2> QED
    BY <1>3, <1>4, <1>5, <1>7, <2>2, <2>3, TakenView
<1>11. CASE f.kind = "error"
  <2>1. t = s
    BY <1>5, <1>11 DEF Leads
  <2>2. stale' = stale
    BY <1>8, <1>9, <1>11
  <2> QED
    BY <1>3, <1>4, <1>5, <1>7, <1>8, <2>1, <2>2, TakenView
<1> QED
  BY <1>3, <1>10, <1>11 DEF Reply

-----------------------------------------------------------------------------
(***************************************************************************)
(* The invariant.                                                          *)
(***************************************************************************)
LEMMA ViewInvNext == ViewInv /\ IInv /\ [ViewNext]_sessionVars => ViewInv'
<1> SUFFICES ASSUME ViewInv, IInv, [ViewNext]_sessionVars
             PROVE  ViewInv'
  OBVIOUS
<1>0. TypeOK'
  <2>1. TypeOK
    BY DEF ViewInv, ViewTypeOK
  <2> QED
    BY <2>1, ViewActs, TypeNext
<1>1. CASE UNCHANGED sessionVars
  BY <1>0, <1>1, IdleKeeps DEF sessionVars, vars
<1>2. CASE AgentStep
  BY <1>0, <1>2, AnnounceKeeps, ProgressKeeps, AskKeeps, SwitchKeeps, NotifyKeeps,
     StartKeeps, StreamKeeps, FinishKeeps DEF AgentStep
<1>3. CASE ClientStep
  <2>1. ASSUME NEW m \in Modes, NEW timed \in BOOLEAN, SetMode(m, timed)
        PROVE  ViewInv'
    BY <1>0, <2>1, SetModeKeeps
  <2>2. ASSUME NEW S \in SUBSET pending["client"], Expire("client", S), UNCHANGED viewVars
        PROVE  ViewInv'
    BY <1>0, <2>2, IdleKeeps DEF Expire
  <2> QED
    BY <1>3, <2>1, <2>2 DEF ClientStep
<1>4. CASE ClientTakes
  BY <1>0, <1>4, ShowKeeps, GrantKeeps, ModeSetKeeps, LateKeeps DEF ClientTakes
<1>5. CASE AgentTakes
  <2>1. ASSUME NEW kind \in Reply, wire["agent"] # << >>,
               AnswerSetMode(Head(wire["agent"]), kind)
        PROVE  ViewInv'
    BY <1>0, <2>1, AnswerKeeps
  <2>2. ASSUME NEW r \in pending["agent"], UNCHANGED viewVars,
               ReceiveReply("agent", Head(wire["agent"]), r)
        PROVE  ViewInv'
    <3>1. TypeOK /\ "agent" \in Peer /\ Other("agent") = "client"
      BY DEF ViewInv, ViewTypeOK, Peer, Other
    <3>2. Takes("agent", Head(wire["agent"]))
          /\ wire' = [wire EXCEPT !["agent"] = Tail(@)] /\ said' = said /\ next' = next
      BY <2>2 DEF ReceiveReply
    <3>3. wire'["client"] = wire["client"]
      BY <3>1, <3>2, TakeEffect
    <3> QED
      BY <1>0, <2>2, <3>2, <3>3, IdleKeeps
  <2> QED
    BY <1>5, <2>1, <2>2 DEF AgentTakes
<1> QED
  BY <1>1, <1>2, <1>3, <1>4, <1>5 DEF ViewNext

\* Whatever deltas, mode changes of either side, streamed and final summaries
\* and late replies a session goes through: each payload on its way takes the
\* session from one state the agent had to the next, but for what a delta cannot
\* take back, and the client is where the payloads it has read have brought it
\* (tools.hpp:172-191, updates.hpp:64-102).
THEOREM ViewInvariant == ViewSpec => []ViewInv
<1>1. ViewInit => ViewInv
  BY ViewInvInit
<1>2. ViewInv /\ IInv /\ [ViewNext]_sessionVars => ViewInv'
  BY ViewInvNext
<1>3. ViewSpec => []IInv
  BY SessionIsConnection, Invariant, PTL
<1> QED
  BY <1>1, <1>2, <1>3, PTL DEF ViewSpec

-----------------------------------------------------------------------------
(***************************************************************************)
(* The properties.                                                         *)
(***************************************************************************)
\* Both hosts keep a session whose tool calls are filed under their own ids
\* (tools.hpp:121-148).
THEOREM ViewTypeCorrect == ViewSpec => []ViewTypeOK
<1>1. ViewInv => ViewTypeOK
  BY DEF ViewInv
<1> QED
  BY <1>1, ViewInvariant, PTL

\* After every frame, and so when it decides on a permission, the client has the
\* session the agent had when it wrote that frame, up to a mode whose reply came
\* too late and the members an update cannot take back (tools.hpp:172-175,
\* updates.hpp:71-73, README.md:125-134).
THEOREM ViewKeepsStep == ViewSpec => []ViewInStep
<1>1. ViewInv => ViewInStep
  BY DEF ViewInv
<1> QED
  BY <1>1, ViewInvariant, PTL

\* A client is told of nothing it did not say it can render (caps.hpp:80-82).
THEOREM OnlyRenderedIsTold == ViewSpec => []OnlyRendered
<1>1. ViewInv => OnlyRendered
  BY DEF ViewInv
<1> QED
  BY <1>1, ViewInvariant, PTL

-----------------------------------------------------------------------------
(***************************************************************************)
(* The client mirrors the session.                                         *)
(***************************************************************************)
LEMMA ShownIsAsSent ==
    ASSUME NEW s \in Session, NEW v \in Session, NEW late \in BOOLEAN,
           Follows(v, s), ~late => v.mode = s.mode
    PROVE  [v EXCEPT
              !.calls = [x \in DOMAIN v.calls |->
                           [k \in DOMAIN v.calls[x] |->
                              IF k \in Nullable /\ s.calls[x][k] = Nothing
                              THEN Nothing ELSE v.calls[x][k]]],
              !.mode = IF late THEN s.mode ELSE v.mode] = s
<1>1. PICK f : f = [x \in DOMAIN v.calls |->
                      [k \in DOMAIN v.calls[x] |->
                         IF k \in Nullable /\ s.calls[x][k] = Nothing
                         THEN Nothing ELSE v.calls[x][k]]]
  OBVIOUS
<1>2. f = s.calls
  <2>1. v.calls \in CallTables /\ s.calls \in CallTables
    BY Parts
  <2>2. DOMAIN v.calls = DOMAIN s.calls
    BY DEF Follows
  <2>3. ASSUME NEW x \in DOMAIN s.calls
        PROVE  f[x] = s.calls[x]
    <3>1. PICK c : c = v.calls[x]
      OBVIOUS
    <3>2. PICK b : b = s.calls[x]
      OBVIOUS
    <3>3. c \in Calls /\ b \in Calls
      BY <2>1, <2>2, <3>1, <3>2, CallTable
    <3>4. DOMAIN c = CallMembers /\ DOMAIN b = CallMembers /\ b = [k \in CallMembers |-> b[k]]
      BY <3>3, CallShape
    <3>5. Shows(c, b)
      BY <3>1, <3>2 DEF Follows
    <3>6. f[x] = [k \in CallMembers |-> IF k \in Nullable /\ b[k] = Nothing
                                        THEN Nothing ELSE c[k]]
      BY <1>1, <2>2, <3>1, <3>2, <3>4
    <3>7. \A k \in CallMembers :
              (IF k \in Nullable /\ b[k] = Nothing THEN Nothing ELSE c[k]) = b[k]
      BY <3>4, <3>5 DEF Shows
    <3>8. f[x] = [k \in CallMembers |-> b[k]]
      BY <3>6, <3>7
    <3> QED
      BY <3>2, <3>4, <3>8
  <2>4. s.calls = [x \in DOMAIN s.calls |-> s.calls[x]]
    BY <2>1, CallTable
  <2>5. f = [x \in DOMAIN s.calls |-> f[x]]
    BY <1>1, <2>2
  <2> QED
    BY <2>3, <2>4, <2>5
<1>3. PICK m : m = IF late THEN s.mode ELSE v.mode
  OBVIOUS
<1>4. m = s.mode
  BY <1>3
<1>5. v = [calls |-> v.calls, mode |-> v.mode, compaction |-> v.compaction,
           notices |-> v.notices]
  BY Parts
<1>6. [v EXCEPT !.calls = f, !.mode = m] =
          [calls |-> f, mode |-> m, compaction |-> v.compaction, notices |-> v.notices]
  <2>1. PICK c, o, x, n : c = v.calls /\ o = v.mode /\ x = v.compaction /\ n = v.notices
    OBVIOUS
  <2>2. v = [calls |-> c, mode |-> o, compaction |-> x, notices |-> n]
    BY <1>5, <2>1
  <2>3. PICK w : w = [v EXCEPT !.calls = f]
    OBVIOUS
  <2>4. w = [calls |-> f, mode |-> o, compaction |-> x, notices |-> n]
    BY <2>2, <2>3
  <2>5. [w EXCEPT !.mode = m] = [calls |-> f, mode |-> m, compaction |-> x, notices |-> n]
    BY <2>4
  <2>6. [v EXCEPT !.calls = f, !.mode = m] = [w EXCEPT !.mode = m]
    BY <2>3
  <2> QED
    BY <2>1, <2>5, <2>6
<1>7. v.compaction = s.compaction /\ v.notices = s.notices
  BY DEF Follows
<1>8. s = [calls |-> s.calls, mode |-> s.mode, compaction |-> s.compaction,
           notices |-> s.notices]
  BY Parts
<1> QED
  BY <1>1, <1>2, <1>3, <1>4, <1>6, <1>7, <1>8

LEMMA AppendStarts ==
    ASSUME NEW S, NEW q \in Seq(S), NEW x
    PROVE  Len(Append(q, x)) = Len(q) + 1 /\ SubSeq(Append(q, x), 1, Len(q)) = q
<1> DEFINE T == S \cup {x}
           r == Append(q, x)
<1>1. q \in Seq(T) /\ x \in T /\ Len(q) \in Nat
  BY LenProperties
<1>2. /\ r \in Seq(T) /\ Len(r) = Len(q) + 1
      /\ \A i \in 1 .. Len(q) : r[i] = q[i]
  BY <1>1, AppendProperties
<1>3. \A i \in 1 .. Len(q) : r[i] \in T
  BY <1>1, <1>2, LenProperties
<1>4. /\ SubSeq(r, 1, Len(q)) \in Seq(T) /\ Len(SubSeq(r, 1, Len(q))) = Len(q)
      /\ \A i \in 1 .. Len(q) : SubSeq(r, 1, Len(q))[i] = r[i]
  <2>1. \A i \in 1 .. Len(q) : r[1 + i - 1] = r[i]
    BY <1>1
  <2> HIDE DEF r, T
  <2> QED
    BY <1>1, <1>2, <1>3, <2>1, SubSeqProperties
<1>5. SubSeq(r, 1, Len(q)) = q
  BY <1>1, <1>2, <1>4, SeqEqual
<1> QED
  BY <1>2, <1>5

\* What a step is to the history.
LEMMA HistoryActs ==
    ASSUME [ViewNext]_sessionVars
    PROVE  \/ (\E s : trail' = Append(trail, s)) /\ UNCHANGED <<view, taken, stale>>
           \/ trail' = trail /\ taken' = taken + 1 /\ wire["client"] # << >>
           \/ UNCHANGED <<trail, view, taken, stale>>
<1>1. CASE UNCHANGED sessionVars
  BY <1>1 DEF sessionVars, viewVars
<1>2. CASE AgentStep
  <2>1. ASSUME NEW u, NEW s, Tell(u, s)
        PROVE  (\E t : trail' = Append(trail, t)) /\ UNCHANGED <<view, taken, stale>>
    BY <2>1 DEF Tell
  <2>2. ASSUME Announce \/ Notify \/ StartCompaction \/ StreamSummary
               \/ (\E m \in Modes : Switch(m)) \/ (\E final \in Final : FinishCompaction(final))
        PROVE  (\E t : trail' = Append(trail, t)) /\ UNCHANGED <<view, taken, stale>>
    BY <2>1, <2>2 DEF Announce, Switch, Notify, StartCompaction, StreamSummary,
       FinishCompaction, TellCompaction
  <2>3. ASSUME NEW x, NEW after, Progress(x, after)
        PROVE  (\E t : trail' = Append(trail, t)) /\ UNCHANGED <<view, taken, stale>>
    BY <2>1, <2>3 DEF Progress
  <2>4. ASSUME AskPermission
        PROVE  (\E t : trail' = Append(trail, t)) /\ UNCHANGED <<view, taken, stale>>
    BY <2>4 DEF AskPermission
  <2> QED
    BY <1>2, <2>2, <2>3, <2>4 DEF AgentStep
<1>3. CASE ClientStep
  <2>1. ASSUME NEW m, NEW timed, SetMode(m, timed)
        PROVE  UNCHANGED <<trail, view, taken, stale>>
    BY <2>1 DEF SetMode
  <2> QED
    BY <1>3, <2>1 DEF ClientStep, viewVars
<1>4. CASE ClientTakes
  BY <1>4 DEF ClientTakes, ShowUpdate, GrantPermission, ModeSet, ModeSetLate
<1>5. CASE AgentTakes
  <2>1. ASSUME NEW f, NEW kind, AnswerSetMode(f, kind)
        PROVE  (\E t : trail' = Append(trail, t)) /\ UNCHANGED <<view, taken, stale>>
    BY <2>1 DEF AnswerSetMode
  <2> QED
    BY <1>5, <2>1 DEF AgentTakes, viewVars
<1> QED
  BY <1>1, <1>2, <1>3, <1>4, <1>5 DEF ViewNext

LEMMA MirrorStart == ViewInit => M!MirrorInit
<1> SUFFICES ASSUME ViewInit PROVE M!MirrorInit
  OBVIOUS
<1>1. Len(trail) = 1 /\ trail[1] = own /\ taken = 0
  <2>1. own \in {own} /\ trail = <<own>>
    BY DEF ViewInit
  <2> QED
    BY <2>1 DEF ViewInit
<1>2. ViewInv
  BY ViewInvInit
<1>3. AsSent = own
  BY <1>1 DEF AsSent
<1>4. AsSent \in Session /\ view \in Session /\ stale \in BOOLEAN
  BY <1>2, <1>3 DEF ViewInv, ViewTypeOK
<1>5. Follows(view, AsSent) /\ (~stale => view.mode = AsSent.mode)
  BY <1>2 DEF ViewInv, ViewInStep
<1>6. Shown = AsSent
  BY <1>4, <1>5, ShownIsAsSent DEF Shown
<1> QED
  BY <1>1, <1>3, <1>6 DEF M!MirrorInit

LEMMA MirrorSteps ==
    ViewInv /\ ViewInv' /\ [ViewNext]_sessionVars => [M!MirrorNext]_(M!mirrorVars)
<1> SUFFICES ASSUME ViewInv, ViewInv', [ViewNext]_sessionVars
             PROVE  [M!MirrorNext]_(M!mirrorVars)
  OBVIOUS
<1>1. /\ trail \in Seq(Session) /\ Len(trail) \in Nat /\ taken \in Nat
      /\ Len(trail) = 1 + Len(wire["client"]) + taken /\ Len(wire["client"]) \in Nat
      /\ wire["client"] \in Seq(Frame)
  BY Ends, LenProperties
<1>2. CASE (\E s : trail' = Append(trail, s)) /\ UNCHANGED <<view, taken, stale>>
  <2>1. PICK s : trail' = Append(trail, s)
    BY <1>2
  <2>2. Len(trail') = Len(trail) + 1 /\ SubSeq(trail', 1, Len(trail)) = trail
    BY <1>1, <2>1, AppendStarts
  <2>3. AsSent' = AsSent
    <3>1. taken + 1 \in 1 .. Len(trail)
      BY <1>1
    <3>2. \A i \in 1 .. Len(trail) : trail'[i] = trail[i]
      <4>1. trail \in Seq(Session \cup {s}) /\ s \in Session \cup {s}
        BY <1>1, LenProperties
      <4> QED
        BY <2>1, <4>1, AppendProperties
    <3> QED
      BY <1>2, <3>1, <3>2 DEF AsSent
  <2>4. M!Publish
    BY <1>2, <2>2, <2>3 DEF M!Publish, Shown
  <2> QED
    BY <2>4 DEF M!MirrorNext
<1>3. CASE trail' = trail /\ taken' = taken + 1 /\ wire["client"] # << >>
  <2>1. taken + 1 < Len(trail)
    <3>1. Len(wire["client"]) # 0
      BY <1>1, <1>3, EmptySeq
    <3> QED
      BY <1>1, <3>1
  <2>2. AsSent' = trail[taken' + 1]
    BY <1>3 DEF AsSent
  <2>3. AsSent' \in Session /\ view' \in Session /\ stale' \in BOOLEAN
    <3>1. taken' + 1 \in 1 .. Len(trail)
      BY <1>1, <1>3, <2>1
    <3> QED
      BY <1>1, <2>2, <3>1, LenProperties DEF ViewInv, ViewTypeOK
  <2>4. Follows(view', AsSent') /\ (~stale' => view'.mode = AsSent'.mode)
    BY DEF ViewInv, ViewInStep
  <2>5. Shown' = AsSent'
    BY <2>3, <2>4, ShownIsAsSent DEF Shown
  <2>6. M!Show
    BY <1>1, <1>3, <2>1, <2>2, <2>5 DEF M!Show
  <2> QED
    BY <2>6 DEF M!MirrorNext
<1>4. CASE UNCHANGED <<trail, view, taken, stale>>
  BY <1>4 DEF M!mirrorVars, AsSent, Shown
<1> QED
  BY <1>2, <1>3, <1>4, HistoryActs

\* The client goes through every state the agent has announced, one by one, and
\* through no other (the safety part of Mirrors; tools.hpp:172-175,
\* updates.hpp:71-73).
THEOREM ClientMirrorsSession == ViewSpec => M!MirrorInit /\ [][M!MirrorNext]_(M!mirrorVars)
<1>1. ViewInit => M!MirrorInit
  BY MirrorStart
<1>2. ViewInv /\ ViewInv' /\ [ViewNext]_sessionVars => [M!MirrorNext]_(M!mirrorVars)
  BY MirrorSteps
<1> QED
  BY <1>1, <1>2, ViewInvariant, PTL DEF ViewSpec
=============================================================================
