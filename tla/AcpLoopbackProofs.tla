--------------------------- MODULE AcpLoopbackProofs ---------------------------
(***************************************************************************)
(* The two hosts of tests/protocol_loopback.cpp, for any number of         *)
(* sessions, turns, updates and permission requests: what the test checks  *)
(* once holds in every interleaving of every such script.                  *)
(***************************************************************************)
EXTENDS AcpLoopbackInv, AcpConnectionProofs, FiniteSetTheorems

LEMMA Sides ==
    /\ "client" \in Peer /\ "agent" \in Peer
    /\ Other("client") = "agent" /\ Other("agent") = "client"
    /\ \A p \in Peer : p = "client" \/ p = "agent"
BY DEF Peer, Other

LEMMA Routes ==
    /\ {"initialize", "session/new", "session/prompt", "session/request_permission"} = Method
    /\ Notice = {"session/update"}
    /\ On["agent"] = {"initialize", "session/new"} /\ Defer["agent"] = {"session/prompt"}
    /\ On["client"] = {"session/request_permission"}
BY LoopAssumption, Sides

-----------------------------------------------------------------------------
(***************************************************************************)
(* Every step is a step of the connection.                                 *)
(***************************************************************************)
LEMMA LoopStepIsStep == [LoopNext]_loopVars => [Next]_vars
<1> SUFFICES ASSUME [LoopNext]_loopVars
             PROVE  [Next]_vars
  OBVIOUS
<1>1. CASE UNCHANGED loopVars
  BY <1>1 DEF loopVars, vars
<1>2. CASE Initialize
  BY <1>2, Routes, Sides DEF Initialize, Next
<1>3. CASE NewSession
  BY <1>3, Routes, Sides DEF NewSession, Next
<1>4. ASSUME NEW s \in Known, Prompt(s)
      PROVE  Next
  BY <1>4, Routes, Sides DEF Prompt, Next
<1>5. ASSUME NEW i \in prompt_call, Update(i)
      PROVE  Next
  BY <1>5, Routes, Sides DEF Update, Next
<1>6. ASSUME NEW i \in prompt_call, AskPermission(i)
      PROVE  Next
  BY <1>6, Routes, Sides DEF AskPermission, Next
<1>7. ASSUME NEW i \in prompt_call, AnswerPrompt(i)
      PROVE  Next
  <2>1. Answer("agent", [id |-> i, method |-> "session/prompt"])
    BY <1>7 DEF AnswerPrompt
  <2>2. [id |-> i, method |-> "session/prompt"] \in owed["agent"]
    BY <2>1 DEF Answer
  <2> QED
    BY <2>1, <2>2, Sides DEF Next
<1>8. ASSUME NEW p \in Peer, Deliver(p)
      PROVE  Next
  <2> DEFINE f == Head(wire[p])
  <2>1. wire[p] # << >>
    BY <1>8 DEF Deliver
  <2>2. CASE p = "agent" /\ (AnswerInitialize(f) \/ AnswerSessionNew(f))
    <3>1. ReceiveHandled(p, f, "result")
      BY <2>2 DEF AnswerInitialize, AnswerSessionNew
    <3> QED
      BY <2>1, <3>1 DEF Receive, Next, Reply
  <2>3. CASE p = "agent" /\ DeferPrompt(f)
    BY <2>1, <2>3 DEF DeferPrompt, Receive, Next
  <2>4. CASE p = "client" /\ GrantPermission(f)
    BY <2>1, <2>4 DEF GrantPermission, Receive, Next, Reply
  <2>5. CASE p = "client" /\ CollectUpdate(f)
    BY <2>1, <2>5 DEF CollectUpdate, Receive, Next
  <2>6. CASE Complete(p, f)
    BY <2>1, <2>6 DEF Complete, Receive, Next
  <2> QED
    BY <1>8, <2>2, <2>3, <2>4, <2>5, <2>6 DEF Deliver
<1> QED
  BY <1>1, <1>2, <1>3, <1>4, <1>5, <1>6, <1>7, <1>8 DEF LoopNext, ClientStep, AgentStep

\* The script and its two hosts keep to the connection: all that is proved of
\* connections holds of them (protocol_loopback.cpp:64-77).
THEOREM LoopIsConnection == LoopSpec => Spec
<1>1. LoopInit => Init
  BY DEF LoopInit
<1>2. [LoopNext]_loopVars => [Next]_vars
  BY LoopStepIsStep
<1> QED
  BY <1>1, <1>2, PTL DEF LoopSpec, Spec

-----------------------------------------------------------------------------
(***************************************************************************)
(* Streams that hold updates and at most one other frame, the last.        *)
(***************************************************************************)
LEMMA FirstFrame ==
    ASSUME NEW g \in Frame
    PROVE  /\ Append(<< >>, g) \in Seq(Frame)
           /\ Len(Append(<< >>, g)) = 1 /\ Append(<< >>, g)[1] = g
           /\ DOMAIN Append(<< >>, g) = {1}
<1>1. << >> \in Seq(Frame) /\ Len(<< >>) = 0
  BY EmptySeq
<1>2. /\ Append(<< >>, g) \in Seq(Frame)
      /\ Len(Append(<< >>, g)) = 1 /\ Append(<< >>, g)[1] = g
  BY <1>1, AppendProperties
<1>3. DOMAIN Append(<< >>, g) = 1 .. 1
  BY <1>2, LenProperties
<1> QED
  BY <1>2, <1>3

LEMMA OneFrame ==
    ASSUME NEW s \in Seq(Frame), Len(s) = 1
    PROVE  /\ s # << >> /\ Tail(s) = << >>
           /\ DOMAIN s = {1} /\ Head(s) = s[1]
<1>1. s # << >>
  BY EmptySeq
<1>2. Tail(s) \in Seq(Frame) /\ Len(Tail(s)) = 0 /\ Head(s) = s[1]
  BY <1>1, HeadTailProperties
<1>3. Tail(s) = << >>
  BY <1>2, EmptySeq
<1>4. DOMAIN s = 1 .. 1
  BY LenProperties
<1> QED
  BY <1>1, <1>2, <1>3, <1>4

LEMMA LastAppended ==
    ASSUME NEW s \in Seq(Frame), NEW g \in Frame, \A k \in DOMAIN s : s[k].kind = "note"
    PROVE  Last(Append(s, g), g.kind, g.id)
<1>1. /\ Len(Append(s, g)) = Len(s) + 1 /\ Len(s) \in Nat /\ DOMAIN s = 1 .. Len(s)
      /\ Append(s, g) \in Seq(Frame) /\ Append(s, g) # << >>
      /\ \A k \in 1 .. Len(s) : Append(s, g)[k] = s[k]
      /\ Append(s, g)[Len(s) + 1] = g
  BY AppendProperties, LenProperties
<1>2. (Len(s) + 1) - 1 = Len(s)
  BY <1>1
<1> QED
  BY <1>1, <1>2 DEF Last

LEMMA LastTail ==
    ASSUME NEW s \in Seq(Frame), NEW kind, NEW i, Last(s, kind, i), kind # "note",
           s[1].kind = "note"
    PROVE  Last(Tail(s), kind, i)
<1>1. /\ Len(s) \in Nat /\ DOMAIN s = 1 .. Len(s) /\ Len(s) # 0
      /\ Tail(s) \in Seq(Frame) /\ Len(Tail(s)) = Len(s) - 1
      /\ \A k \in 1 .. Len(s) - 1 : Tail(s)[k] = s[k + 1]
  BY HeadTailProperties, LenProperties, EmptySeq DEF Last
<1>2. Len(s) # 1
  BY DEF Last
<1>3. Tail(s) # << >>
  <2>1. Len(Tail(s)) # 0
    BY <1>1, <1>2
  <2> QED
    BY <2>1, EmptySeq
<1>4. Len(s) - 1 \in 1 .. Len(s) - 1 /\ (Len(s) - 1) + 1 = Len(s)
  BY <1>1, <1>2
<1>5. Tail(s)[Len(Tail(s))] = s[Len(s)]
  BY <1>1, <1>4
<1>6. \A k \in 1 .. (Len(s) - 1) - 1 : Tail(s)[k] = s[k + 1] /\ k + 1 \in 1 .. Len(s) - 1
  BY <1>1
<1> QED
  BY <1>1, <1>3, <1>5, <1>6 DEF Last

LEMMA LastAlone ==
    ASSUME NEW s \in Seq(Frame), NEW kind, NEW i, Last(s, kind, i), s[1].kind # "note"
    PROVE  Single(s, kind, i)
<1>1. Len(s) \in Nat /\ Len(s) # 0
  BY LenProperties, EmptySeq DEF Last
<1>2. Len(s) = 1
  <2> SUFFICES ASSUME Len(s) # 1
               PROVE  FALSE
    OBVIOUS
  <2>1. 1 \in 1 .. Len(s) - 1
    BY <1>1
  <2> QED
    BY <2>1 DEF Last
<1> QED
  BY <1>2 DEF Last, Single

\* Every frame of t that is of that kind is one of s.
NoNew(s, t, kind) ==
    \A k \in DOMAIN t : t[k].kind = kind => \E j \in DOMAIN s : t[k] = s[j]

LEMMA SameFrames ==
    ASSUME NEW s, NEW kind
    PROVE  NoNew(s, s, kind)
BY DEF NoNew

LEMMA AppendedFrames ==
    ASSUME NEW s \in Seq(Frame), NEW g \in Frame, NEW kind, g.kind # kind
    PROVE  NoNew(s, Append(s, g), kind)
BY AppendedLemma DEF Appended, NoNew

LEMMA DroppedFrames ==
    ASSUME NEW s \in Seq(Frame), s # << >>, NEW kind
    PROVE  NoNew(s, Tail(s), kind)
BY DroppedLemma DEF Dropped, NoNew

-----------------------------------------------------------------------------
(***************************************************************************)
(* What each part of the invariant needs of a step.                        *)
(***************************************************************************)
LEMMA LoopFacts ==
    ASSUME LoopInv
    PROVE  /\ TypeOK /\ LoopTypeOK /\ PhaseInv /\ ResultsInv /\ PromptsInv
           /\ CreatedInv /\ ToldInv
           /\ \A p \in Peer : /\ wire[p] \in Seq(Frame) /\ said[p] \in Nat /\ heard[p] \in Nat
                              /\ next[p] \in Nat
BY DEF LoopInv, LoopTypeOK, TypeOK

\* Nothing unread means nothing to hear.
LEMMA AllHeard ==
    ASSUME IInv, wire["client"] = << >>
    PROVE  heard["client"] = said["agent"]
<1>1. Stamp("client", Len(wire["client"])) = said["agent"]
  BY Sides DEF IInv, StampInv
<1>2. Len(wire["client"]) = 0
  BY EmptySeq
<1> QED
  BY <1>1, <1>2 DEF Stamp

\* An update at the head of the stream is the next one to hear.
LEMMA NextHeard ==
    ASSUME IInv, wire["client"] # << >>, wire["client"][1].kind = "note"
    PROVE  wire["client"][1].sent = heard["client"] + 1
<1>1. wire["client"] \in Seq(Frame)
  BY Sides DEF IInv, TypeOK
<1>2. 1 \in DOMAIN wire["client"]
  BY <1>1, DroppedLemma DEF Dropped
<1>3. Stamp("client", 1) = Stamp("client", 1 - 1) + 1
  BY <1>2, Sides DEF IInv, StampInv
<1> QED
  BY <1>3 DEF Stamp

\* Completing r makes no request and finishes r.
LEMMA CompletionKeeps ==
    ASSUME NEW p \in Peer, NEW r \in pending[p], NEW f, NEW h,
           done' = [done EXCEPT ![p] = @ \cup {Answered(r, f, h)}],
           pending' = [pending EXCEPT ![p] = @ \ {r}],
           TypeOK
    PROVE  /\ \A q \in Peer : Issued(q)' = Issued(q)
           /\ \A m : Finished(Other(p), m)' = Finished(Other(p), m)
           /\ \A m : Finished(p, m)' = Finished(p, m) \cup
                        (IF r.method = m /\ f.kind = "result" THEN {r.id} ELSE {})
           /\ done'[p] = done[p] \cup {Answered(r, f, h)}
           /\ done'[Other(p)] = done[Other(p)]
           /\ pending'[p] = pending[p] \ {r}
           /\ pending'[Other(p)] = pending[Other(p)]
<1>1. /\ done'[p] = done[p] \cup {Answered(r, f, h)} /\ pending'[p] = pending[p] \ {r}
      /\ done'[Other(p)] = done[Other(p)] /\ pending'[Other(p)] = pending[Other(p)]
  BY OtherPeer DEF TypeOK
<1>2. Answered(r, f, h).req = r /\ Answered(r, f, h).outcome = f.kind
  BY DEF Answered
<1>3. Issued(p)' = Issued(p)
  <2>1. {c.req : c \in done'[p]} = {c.req : c \in done[p]} \cup {r}
    BY <1>1, <1>2
  <2> QED
    BY <1>1, <2>1 DEF Issued
<1>4. Issued(Other(p))' = Issued(Other(p))
  BY <1>1 DEF Issued
<1>5. ASSUME NEW m
      PROVE  Finished(p, m)' = Finished(p, m) \cup
                 (IF r.method = m /\ f.kind = "result" THEN {r.id} ELSE {})
  BY <1>1, <1>2 DEF Finished
<1>6. \A m : Finished(Other(p), m)' = Finished(Other(p), m)
  BY <1>1 DEF Finished
<1> QED
  BY <1>1, <1>3, <1>4, <1>5, <1>6, OtherPeer

LEMMA KeepPrompts ==
    ASSUME PromptsInv, Issued("client")' = Issued("client"), prompts' = prompts,
           Known \subseteq Known'
    PROVE  PromptsInv'
BY DEF PromptsInv, IsMade

LEMMA KeepCreated ==
    ASSUME CreatedInv, Issued("client") \subseteq Issued("client")',
           created' = created, sessions' = sessions,
           \A k \in DOMAIN wire'["agent"] :
               wire'["agent"][k].kind = "call" => wire'["agent"][k].id \notin DOMAIN created,
           Finished("client", "session/new")' \subseteq DOMAIN created
    PROVE  CreatedInv'
BY DEF CreatedInv, IsMade, SessionsDistinct

\* The agent's stream has no new call in it.
LEMMA NoNewCall ==
    ASSUME CreatedInv, NoNew(wire["agent"], wire'["agent"], "call")
    PROVE  \A k \in DOMAIN wire'["agent"] :
               wire'["agent"][k].kind = "call" => wire'["agent"][k].id \notin DOMAIN created
BY DEF CreatedInv, NoNew

LEMMA KeepTold ==
    ASSUME ToldInv, UNCHANGED <<told, said, heard, updates>>,
           DOMAIN prompts \subseteq DOMAIN prompts', Known \subseteq Known',
           NoNew(wire["client"], wire'["client"], "note"),
           \/ heard["client"] = Len(told)
           \/ next'["client"] = next["client"] /\ pending'["client"] # {},
           told \in Seq(Subject)
    PROVE  ToldInv'
<1>1. DOMAIN told = 1 .. Len(told) /\ Len(told) \in Nat
  BY LenProperties
<1> QED
  BY <1>1 DEF ToldInv, NoNew

LEMMA KeepResults ==
    ASSUME ResultsInv, UNCHANGED done, \A k \in DOMAIN asks : asks'[k] = asks[k],
           \A r \in Issued("agent")' : r.method = "session/request_permission",
           DOMAIN asks = 1 .. next["agent"], IdsInv("agent")
    PROVE  ResultsInv'
<1>1. \A p, m : Finished(p, m)' = Finished(p, m)
  BY DEF Finished
<1>2. Finished("agent", "session/request_permission") \subseteq DOMAIN asks
  BY DEF Finished, IdsInv, Issued
<1>3. \A i : Decided(i) => Decided(i)'
  BY <1>1, <1>2 DEF Decided
<1> QED
  BY <1>1, <1>3 DEF ResultsInv

\* The phase of the request the client waits for.
LEMMA PhaseOf ==
    ASSUME LoopInv, ~Idle
    PROVE  \E r \in pending["client"] :
               /\ pending["client"] = {r} /\ r.id = next["client"] /\ Phase(r)
               /\ r \in Request
BY Sides DEF LoopInv, LoopTypeOK, TypeOK, PhaseInv

-----------------------------------------------------------------------------
(***************************************************************************)
(* The client's script.                                                    *)
(***************************************************************************)
LEMMA StepClientSends ==
    ASSUME LoopInv, IInv, IInv', NEW m \in Method, pending["client"] = {},
           SendRequest("client", m, FALSE),
           UNCHANGED <<sessions, prompt_call, updates, permissions_asked, created, asks, told>>,
           IF m = "session/prompt"
           THEN \E s \in Known : prompts' = With(prompts, next'["client"], s)
           ELSE prompts' = prompts
    PROVE  LoopInv'
<1>0. PICK r : r = [id |-> next["client"] + 1, method |-> m, timed |-> FALSE]
  OBVIOUS
<1> DEFINE g == FrameOf("call", r.id, m, said["client"])
<1>1. /\ next' = [next EXCEPT !["client"] = @ + 1]
      /\ pending' = [pending EXCEPT !["client"] = @ \cup {r}]
      /\ Write("client", g)
      /\ UNCHANGED <<done, owed, said, heard>>
  BY <1>0 DEF SendRequest
<1>2. g \in Frame /\ g.kind = "call" /\ g.id = r.id
  <2>1. r.id \in Nat /\ said["client"] \in Nat
    BY <1>0, LoopFacts, Sides
  <2> QED
    BY <2>1, FrameOfType
<1> HIDE DEF g
<1>3. Idle
  BY LoopFacts DEF PhaseInv
<1>4. wire'["agent"] = Append(<< >>, g) /\ wire'["client"] = << >>
  BY <1>1, <1>2, <1>3, LoopFacts, Sides, WriteEffect DEF Idle
<1>5. /\ next'["client"] = r.id /\ next'["agent"] = next["agent"]
      /\ pending'["client"] = {r} /\ pending'["agent"] = {} /\ owed'["agent"] = {}
      /\ r.id = next["client"] + 1 /\ r.method = m /\ next["client"] \in Nat
  BY <1>0, <1>1, <1>3, LoopFacts, Sides DEF TypeOK, Idle
<1>15. IF m = "session/prompt"
      THEN \E s \in Known : prompts' = With(prompts, r.id, s)
      ELSE prompts' = prompts
  BY <1>5
<1>6. PhaseInv'
  <2>1. Single(wire'["agent"], "call", r.id)
    BY <1>2, <1>4, FirstFrame DEF Single
  <2>2. Calling(r)'
    BY <1>3, <1>4, <1>5, <2>1 DEF Calling, Idle
  <2> QED
    BY <1>5, <2>2 DEF PhaseInv, Phase
<1>7. /\ Issued("client")' = Issued("client") \cup {r}
      /\ Issued("agent")' = Issued("agent")
      /\ \A p, n : Finished(p, n)' = Finished(p, n)
  BY <1>1, <1>3, <1>5 DEF Issued, Finished, Idle
<1>8. Known' = Known
  BY <1>7 DEF Known
<1>9. r.id \notin DOMAIN prompts /\ r.id \notin DOMAIN created
  BY <1>5, LoopFacts DEF LoopTypeOK, Domains
<1>10. LoopTypeOK'
  <2>1. DOMAIN prompts' \subseteq 1 .. next'["client"] /\ \A i \in DOMAIN prompts' : prompts'[i] \in Nat
    <3>1. DOMAIN prompts \subseteq 1 .. next["client"] /\ \A i \in DOMAIN prompts : prompts[i] \in Nat
      BY LoopFacts DEF LoopTypeOK, Domains
    <3>2. CASE m = "session/prompt"
      <4>1. PICK s \in Known : prompts' = With(prompts, r.id, s)
        BY <1>15, <3>2
      <4>2. s \in Nat
        BY LoopFacts DEF Known, CreatedInv, LoopTypeOK
      <4>3. /\ DOMAIN prompts' = DOMAIN prompts \cup {r.id} /\ prompts'[r.id] = s
            /\ \A i \in DOMAIN prompts : i # r.id => prompts'[i] = prompts[i]
        BY <4>1 DEF With
      <4> QED
        BY <1>5, <3>1, <4>2, <4>3
    <3>3. CASE m # "session/prompt"
      BY <1>5, <1>15, <3>1, <3>3
    <3> QED
      BY <3>2, <3>3
  <2>2. DOMAIN created' \subseteq 1 .. next'["client"]
    BY <1>5, LoopFacts DEF LoopTypeOK, Domains
  <2> QED
    BY <1>5, <2>1, <2>2, LoopFacts DEF LoopTypeOK, Domains, IInv
<1>11. PromptsInv'
  <2>1. CASE m = "session/prompt"
    <3>1. PICK s \in Known : prompts' = With(prompts, r.id, s)
      BY <1>15, <2>1
    <3>2. /\ DOMAIN prompts' = DOMAIN prompts \cup {r.id} /\ prompts'[r.id] = s
          /\ \A i \in DOMAIN prompts : i # r.id => prompts'[i] = prompts[i]
      BY <3>1 DEF With
    <3>3. \A i \in DOMAIN prompts : prompts'[i] = prompts[i]
      BY <1>9, <3>2
    <3> QED
      BY <1>5, <1>7, <1>8, <2>1, <3>1, <3>2, <3>3, LoopFacts DEF PromptsInv, IsMade
  <2>2. CASE m # "session/prompt"
    BY <1>5, <1>7, <1>8, <1>15, <2>2, LoopFacts DEF PromptsInv, IsMade
  <2> QED
    BY <2>1, <2>2
<1>12. CreatedInv'
  <2>1. \A k \in DOMAIN wire'["agent"] : wire'["agent"][k].id = r.id
    BY <1>2, <1>4, FirstFrame
  <2> QED
    BY <1>7, <1>9, <2>1, LoopFacts, KeepCreated DEF CreatedInv
<1>13. ToldInv'
  <2>1. heard["client"] = Len(told)
    BY <1>3, AllHeard, LoopFacts, Sides DEF Idle, ToldInv
  <2>2. DOMAIN prompts \subseteq DOMAIN prompts'
    <3>1. CASE m = "session/prompt"
      <4>1. PICK s \in Known : prompts' = With(prompts, r.id, s)
        BY <1>15, <3>1
      <4> QED
        BY <4>1 DEF With
    <3>2. CASE m # "session/prompt"
      BY <1>15, <3>2
    <3> QED
      BY <3>1, <3>2
  <2>3. NoNew(wire["client"], wire'["client"], "note")
    BY <1>3, <1>4, Sides, SameFrames DEF Idle
  <2> QED
    BY <1>1, <1>8, <2>1, <2>2, <2>3, LoopFacts, KeepTold DEF LoopTypeOK
<1>14. ResultsInv'
  <2>1. DOMAIN asks = 1 .. next["agent"] /\ IdsInv("agent")
    BY LoopFacts, Sides DEF LoopTypeOK, Domains, IInv
  <2> QED
    BY <1>1, <1>7, <2>1, LoopFacts, KeepResults DEF ResultsInv
<1> QED
  BY <1>6, <1>10, <1>11, <1>12, <1>13, <1>14 DEF LoopInv


-----------------------------------------------------------------------------
(***************************************************************************)
(* The one frame a host can find at the head of its stream.                *)
(***************************************************************************)
LEMMA HeadAtAgent ==
    ASSUME LoopInv, NEW f, Takes("agent", f)
    PROVE  /\ f \in Frame
           /\ Tail(wire["agent"]) = << >> /\ wire["client"] = << >>
           /\ \E r \in pending["client"] :
                  /\ pending["client"] = {r} /\ r.id = next["client"] /\ r \in Request
                  /\ \/ f.kind = "call" /\ f.id = r.id /\ Calling(r)
                     \/ f.kind = "result" /\ f.id = next["agent"] /\ Granting(r)
                  /\ 1 \in DOMAIN wire["agent"] /\ wire["agent"][1] = f
<1>1. /\ f \in Frame /\ wire["agent"] \in Seq(Frame) /\ wire["agent"] # << >>
      /\ f = wire["agent"][1]
  BY LoopFacts, TakenType, Sides
<1>2. PICK r \in pending["client"] :
          pending["client"] = {r} /\ r.id = next["client"] /\ Phase(r) /\ r \in Request
  <2>1. ~Idle
    BY <1>1, Sides DEF Idle
  <2> QED
    BY <2>1, PhaseOf
<1>3. \/ f.kind = "call" /\ f.id = r.id /\ Calling(r)
      \/ f.kind = "result" /\ f.id = next["agent"] /\ Granting(r)
  BY <1>1, <1>2 DEF Phase, Calling, Working, Asking, Granting, Answering, Single
<1>4. Len(wire["agent"]) = 1 /\ wire["client"] = << >>
  BY <1>3 DEF Calling, Granting, Single
<1>5. Tail(wire["agent"]) = << >> /\ DOMAIN wire["agent"] = {1}
  BY <1>1, <1>4, OneFrame
<1> QED
  BY <1>1, <1>2, <1>3, <1>4, <1>5

LEMMA HeadAtClient ==
    ASSUME LoopInv, NEW f, Takes("client", f)
    PROVE  /\ f \in Frame /\ wire["agent"] = << >>
           /\ wire["client"] \in Seq(Frame) /\ wire["client"] # << >>
           /\ wire["client"][1] = f /\ 1 \in DOMAIN wire["client"]
           /\ \E r \in pending["client"] :
                  /\ pending["client"] = {r} /\ r.id = next["client"] /\ r \in Request
                  /\ \/ Working(r) /\ f.kind = "note"
                     \/ Asking(r)
                     \/ Answering(r)
<1>1. /\ f \in Frame /\ wire["client"] \in Seq(Frame) /\ wire["client"] # << >>
      /\ f = wire["client"][1]
  BY LoopFacts, TakenType, Sides
<1>2. 1 \in DOMAIN wire["client"]
  BY <1>1, DroppedLemma DEF Dropped
<1>3. PICK r \in pending["client"] :
          pending["client"] = {r} /\ r.id = next["client"] /\ Phase(r) /\ r \in Request
  <2>1. ~Idle
    BY <1>1, Sides DEF Idle
  <2> QED
    BY <2>1, PhaseOf
<1>4. /\ wire["agent"] = << >>
      /\ (Working(r) /\ f.kind = "note") \/ Asking(r) \/ Answering(r)
  BY <1>1, <1>2, <1>3 DEF Phase, Calling, Working, Asking, Granting, Answering
<1> QED
  BY <1>1, <1>2, <1>3, <1>4

\* A step that leaves the engines alone leaves what they have done.
LEMMA SameEngines ==
    ASSUME UNCHANGED <<done, pending>>
    PROVE  /\ \A p : Issued(p)' = Issued(p)
           /\ \A p, m : Finished(p, m)' = Finished(p, m)
BY DEF Issued, Finished

-----------------------------------------------------------------------------
(***************************************************************************)
(* The agent's handlers.                                                   *)
(***************************************************************************)
LEMMA StepAnswerAtOnce ==
    ASSUME LoopInv, IInv, IInv', NEW f, ReceiveHandled("agent", f, "result"),
           UNCHANGED <<prompt_call, updates, permissions_asked, prompts, asks, told>>,
           IF f.method = "session/new"
           THEN sessions' = sessions + 1 /\ created' = With(created, f.id, sessions')
           ELSE UNCHANGED <<sessions, created>>
    PROVE  LoopInv'
<1> DEFINE g == FrameOf("result", f.id, f.method, said["agent"])
<1>1. /\ Takes("agent", f) /\ f.kind = "call" /\ f.method \in {"initialize", "session/new"}
      /\ TakeAndWrite("agent", g)
      /\ UNCHANGED <<next, pending, done, owed, said, heard>>
  BY Routes DEF ReceiveHandled
<1>2. PICK r \in pending["client"] :
          /\ pending["client"] = {r} /\ r.id = next["client"] /\ r \in Request
          /\ f.id = r.id /\ Calling(r)
          /\ 1 \in DOMAIN wire["agent"] /\ wire["agent"][1] = f
  BY <1>1, HeadAtAgent
<1>3. f \in Frame /\ Tail(wire["agent"]) = << >> /\ wire["client"] = << >>
  BY <1>1, HeadAtAgent
<1>4. g \in Frame /\ g.kind = "result" /\ g.id = r.id
  <2>1. f.id \in Nat /\ f.method \in Method \cup Notice /\ said["agent"] \in Nat
    BY <1>3, LoopFacts, Sides DEF Frame
  <2> QED
    BY <1>2, <2>1, FrameOfType
<1> HIDE DEF g
<1>5. wire'["agent"] = << >> /\ wire'["client"] = Append(<< >>, g)
  <2>1. wire'["agent"] = Tail(wire["agent"])
        /\ wire'[Other("agent")] = Append(wire[Other("agent")], g)
    BY <1>1, <1>4, LoopFacts, Sides, TakeAndWriteEffect
  <2> QED
    BY <1>3, <2>1, Sides
<1>6. r.method = f.method
  <2>1. Names("client", f.id, f.method)
    BY <1>1, <1>2, Sides DEF IInv, NamesInv
  <2>2. r \in Issued("client")
    BY <1>2 DEF Issued
  <2> QED
    BY <1>2, <2>1, <2>2 DEF Names
<1>7. f.id \notin DOMAIN created
  BY <1>1, <1>2, LoopFacts DEF CreatedInv
<1>8. IF f.method = "session/new"
      THEN /\ sessions' = sessions + 1
           /\ DOMAIN created' = DOMAIN created \cup {r.id} /\ created'[r.id] = sessions + 1
           /\ \A i \in DOMAIN created : created'[i] = created[i]
      ELSE sessions' = sessions /\ created' = created
  BY <1>2, <1>7 DEF With
<1>9. (\A p : Issued(p)' = Issued(p)) /\ (\A p, m : Finished(p, m)' = Finished(p, m))
  BY <1>1, SameEngines
<1>10. Finished("client", "session/new") \subseteq DOMAIN created
  BY LoopFacts DEF CreatedInv
<1>11. Known' = Known
  BY <1>8, <1>9, <1>10 DEF Known
<1>12. LoopTypeOK'
  <2>1. sessions \in Nat /\ r.id \in 1 .. next["client"]
    <3>1. sessions \in Nat /\ IdsInv("client") /\ r \in Issued("client")
      BY <1>2, LoopFacts, Sides DEF LoopTypeOK, IInv, Issued
    <3> QED
      BY <3>1 DEF IdsInv
  <2>2. DOMAIN created \subseteq 1 .. next["client"] /\ \A i \in DOMAIN created : created[i] \in Nat
    BY LoopFacts DEF LoopTypeOK, Domains
  <2>3. DOMAIN created' \subseteq 1 .. next["client"] /\ \A i \in DOMAIN created' : created'[i] \in Nat
    BY <1>8, <2>1, <2>2
  <2> QED
    BY <1>1, <1>8, <2>1, <2>3, LoopFacts DEF LoopTypeOK, Domains, IInv
<1>13. PhaseInv'
  <2>1. Last(wire'["client"], "result", r.id)
    <3>1. << >> \in Seq(Frame) /\ DOMAIN << >> = {}
      BY EmptySeq
    <3> QED
      BY <1>4, <1>5, <3>1, LastAppended
  <2>2. Answering(r)'
    BY <1>1, <1>2, <1>5, <1>6, <1>8, <2>1 DEF Answering, Calling
  <2> QED
    BY <1>1, <1>2, <2>2 DEF PhaseInv, Phase
<1>14. ResultsInv'
  <2>1. DOMAIN asks = 1 .. next["agent"] /\ IdsInv("agent")
    BY LoopFacts, Sides DEF LoopTypeOK, Domains, IInv
  <2> QED
    BY <1>1, <1>9, <2>1, LoopFacts, KeepResults DEF ResultsInv
<1>15. PromptsInv'
  BY <1>9, <1>11, LoopFacts, KeepPrompts
<1>16. CreatedInv'
  <2>1. \A k \in DOMAIN wire'["agent"] : FALSE
    BY <1>5, EmptySeq
  <2>2. CASE f.method = "session/new"
    <3>1. sessions \in Nat /\ SessionsDistinct
      BY LoopFacts DEF LoopTypeOK, CreatedInv
    <3>2. SessionsDistinct'
      <4>1. \A i \in DOMAIN created : created[i] \in 1 .. sessions
        BY <3>1 DEF SessionsDistinct
      <4>2. \A i, j \in DOMAIN created' : created'[i] = created'[j] => i = j
        BY <1>8, <2>2, <3>1, <4>1 DEF SessionsDistinct
      <4>3. {created'[i] : i \in DOMAIN created'}
                = {created[i] : i \in DOMAIN created} \cup {sessions + 1}
        BY <1>8, <2>2
      <4>4. 1 .. sessions + 1 = (1 .. sessions) \cup {sessions + 1}
        BY <3>1
      <4> QED
        BY <1>8, <2>2, <3>1, <4>2, <4>3, <4>4 DEF SessionsDistinct
    <3>3. IsMade(r.id, "session/new")
      BY <1>2, <1>6, <2>2 DEF IsMade, Issued
    <3>4. \A i \in DOMAIN created' : IsMade(i, "session/new")
      BY <1>8, <2>2, <3>3, LoopFacts DEF CreatedInv
    <3> QED
      BY <1>8, <1>9, <1>10, <2>1, <2>2, <3>2, <3>4 DEF CreatedInv, IsMade
  <2>3. CASE f.method # "session/new"
    BY <1>8, <1>9, <1>10, <2>1, <2>3, LoopFacts, KeepCreated
  <2> QED
    BY <2>2, <2>3
<1>17. ToldInv'
  <2>1. heard["client"] = Len(told)
    BY <1>3, AllHeard, LoopFacts DEF ToldInv
  <2>2. NoNew(wire["client"], wire'["client"], "note")
    <3>1. << >> \in Seq(Frame)
      BY EmptySeq
    <3> QED
      BY <1>3, <1>4, <1>5, <3>1, AppendedFrames
  <2> QED
    BY <1>1, <1>11, <2>1, <2>2, LoopFacts, KeepTold DEF LoopTypeOK
<1> QED
  BY <1>12, <1>13, <1>14, <1>15, <1>16, <1>17 DEF LoopInv

LEMMA StepDeferPrompt ==
    ASSUME LoopInv, IInv, IInv', NEW f, DeferPrompt(f)
    PROVE  LoopInv'
<1> DEFINE c == [id |-> f.id, method |-> f.method]
<1>1. /\ Takes("agent", f) /\ f.kind = "call" /\ f.method = "session/prompt"
      /\ owed' = [owed EXCEPT !["agent"] = @ \cup {c}]
      /\ wire' = [wire EXCEPT !["agent"] = Tail(@)]
      /\ prompt_call' = {f.id}
      /\ UNCHANGED <<next, pending, done, said, heard, sessions, updates,
                     permissions_asked, created, prompts, asks, told>>
  BY Routes DEF DeferPrompt, ReceiveDeferred
<1>2. PICK r \in pending["client"] :
          /\ pending["client"] = {r} /\ r.id = next["client"] /\ r \in Request
          /\ f.id = r.id /\ Calling(r)
          /\ 1 \in DOMAIN wire["agent"] /\ wire["agent"][1] = f
  BY <1>1, HeadAtAgent
<1>3. Tail(wire["agent"]) = << >> /\ wire["client"] = << >>
  BY <1>1, HeadAtAgent
<1>4. wire'["agent"] = << >> /\ wire'["client"] = << >>
  <2>1. wire'["agent"] = Tail(wire["agent"]) /\ wire'[Other("agent")] = wire[Other("agent")]
    BY <1>1, LoopFacts, Sides, TakeEffect
  <2> QED
    BY <1>3, <2>1, Sides
<1>5. r.method = f.method
  <2>1. Names("client", f.id, f.method)
    BY <1>1, <1>2, Sides DEF IInv, NamesInv
  <2>2. r \in Issued("client")
    BY <1>2 DEF Issued
  <2> QED
    BY <1>2, <2>1, <2>2 DEF Names
<1>6. owed'["agent"] = {[id |-> r.id, method |-> r.method]}
  <2>1. owed'["agent"] = owed["agent"] \cup {c}
    BY <1>1, LoopFacts, Sides DEF TypeOK
  <2>2. owed["agent"] = {}
    BY <1>2 DEF Calling
  <2> QED
    BY <1>2, <1>5, <2>1, <2>2
<1>7. (\A p : Issued(p)' = Issued(p)) /\ (\A p, m : Finished(p, m)' = Finished(p, m))
  BY <1>1, SameEngines
<1>8. Known' = Known
  BY <1>1, <1>7 DEF Known
<1>9. LoopTypeOK'
  <2>1. prompt_call' \in SUBSET Nat
    BY <1>1, <1>2 DEF Request
  <2> QED
    BY <1>1, <2>1, LoopFacts DEF LoopTypeOK, Domains, IInv
<1>10. PhaseInv'
  <2>1. \A k \in DOMAIN wire'["client"] : FALSE
    BY <1>4, EmptySeq
  <2>2. Open(r)'
    BY <1>1, <1>2, <1>5, <1>6 DEF Open
  <2>3. Working(r)'
    BY <1>1, <1>2, <1>4, <2>1, <2>2 DEF Working, Calling
  <2> QED
    BY <1>1, <1>2, <2>3 DEF PhaseInv, Phase
<1>11. ResultsInv'
  <2>1. DOMAIN asks = 1 .. next["agent"] /\ IdsInv("agent")
    BY LoopFacts, Sides DEF LoopTypeOK, Domains, IInv
  <2> QED
    BY <1>1, <1>7, <2>1, LoopFacts, KeepResults DEF ResultsInv
<1>12. PromptsInv'
  BY <1>1, <1>7, <1>8, LoopFacts, KeepPrompts
<1>13. CreatedInv'
  <2>1. \A k \in DOMAIN wire'["agent"] : FALSE
    BY <1>4, EmptySeq
  <2>2. Finished("client", "session/new") \subseteq DOMAIN created
    BY LoopFacts DEF CreatedInv
  <2> QED
    BY <1>1, <1>7, <2>1, <2>2, LoopFacts, KeepCreated
<1>14. ToldInv'
  <2>1. heard["client"] = Len(told)
    BY <1>3, AllHeard, LoopFacts DEF ToldInv
  <2> QED
    BY <1>1, <1>3, <1>4, <1>8, <2>1, LoopFacts, KeepTold, SameFrames DEF LoopTypeOK
<1> QED
  BY <1>9, <1>10, <1>11, <1>12, <1>13, <1>14 DEF LoopInv

-----------------------------------------------------------------------------
(***************************************************************************)
(* The agent's side of a turn.                                             *)
(***************************************************************************)
\* Only the turn the client waits for can be worked on.
LEMMA TurnOpen ==
    ASSUME LoopInv, NEW i, InTurn(i)
    PROVE  /\ \E r \in pending["client"] :
                  /\ pending["client"] = {r} /\ r.id = next["client"] /\ r \in Request
                  /\ Working(r) /\ i = r.id
           /\ i \in DOMAIN prompts /\ prompts[i] \in Known /\ prompts[i] \in Nat
           /\ i \in Nat
<1>1. PICK r \in pending["client"] :
          pending["client"] = {r} /\ r.id = next["client"] /\ Phase(r) /\ r \in Request
  <2>1. ~Idle
    BY DEF Idle, InTurn
  <2> QED
    BY <2>1, PhaseOf
<1>2. Working(r)
  BY <1>1 DEF InTurn, Phase, Calling, Asking, Granting, Answering, Waits
<1>3. i = r.id /\ r.method = "session/prompt"
  BY <1>2 DEF InTurn, Working, Open
<1>4. r.id \in DOMAIN prompts
  BY <1>1, <1>3, LoopFacts DEF PromptsInv, Issued
<1>5. prompts[i] \in Known /\ prompts[i] \in Nat
  BY <1>3, <1>4, LoopFacts DEF PromptsInv, LoopTypeOK
<1> QED
  BY <1>1, <1>2, <1>3, <1>4, <1>5 DEF Request

\* Nothing is on its way to the agent, so no session/new is.
LEMMA NothingCreated ==
    ASSUME CreatedInv, wire'["agent"] = << >>, Issued("client")' = Issued("client"),
           created' = created, sessions' = sessions,
           Finished("client", "session/new")' \subseteq DOMAIN created
    PROVE  CreatedInv'
<1>1. \A k \in DOMAIN wire'["agent"] : FALSE
  BY EmptySeq
<1> QED
  BY <1>1, KeepCreated

LEMMA StepUpdate ==
    ASSUME LoopInv, IInv, IInv', NEW i, Update(i)
    PROVE  LoopInv'
<1> DEFINE g == FrameOf("note", 0, "session/update", said["agent"] + 1)
           u == [session |-> prompts[i], turn |-> i]
<1>1. /\ InTurn(i) /\ Write("agent", g) /\ said' = [said EXCEPT !["agent"] = @ + 1]
      /\ told' = Append(told, u)
      /\ UNCHANGED <<next, pending, done, owed, heard, sessions, prompt_call, updates,
                     permissions_asked, created, prompts, asks>>
  BY DEF Update, SendNotice
<1>2. PICK r \in pending["client"] :
          /\ pending["client"] = {r} /\ r.id = next["client"] /\ r \in Request
          /\ Working(r) /\ i = r.id
  BY <1>1, TurnOpen
<1>3. i \in DOMAIN prompts /\ prompts[i] \in Known /\ prompts[i] \in Nat /\ i \in Nat
  BY <1>1, TurnOpen
<1>4. u \in Subject /\ u.session \in Known /\ u.turn = i
  BY <1>3 DEF Subject
<1> HIDE DEF u
<1>5. g \in Frame /\ g.kind = "note" /\ g.sent = said["agent"] + 1
  <2>1. "session/update" \in Method \cup Notice /\ said["agent"] \in Nat /\ 0 \in Nat
        /\ said["agent"] + 1 \in Nat
    BY LoopFacts, Sides, Routes
  <2> QED
    BY <2>1, FrameOfType
<1> HIDE DEF g
<1>6. wire'["agent"] = wire["agent"] /\ wire'["client"] = Append(wire["client"], g)
  BY <1>1, <1>5, LoopFacts, Sides, WriteEffect
<1>7. (\A p : Issued(p)' = Issued(p)) /\ (\A p, m : Finished(p, m)' = Finished(p, m))
  BY <1>1, SameEngines
<1>8. Known' = Known
  BY <1>1, <1>7 DEF Known
<1>9. Appended(wire["client"], wire'["client"], g, Len(wire["client"]) + 1)
  BY <1>5, <1>6, LoopFacts, Sides, AppendedLemma
<1>10. /\ told' \in Seq(Subject) /\ Len(told') = Len(told) + 1 /\ Len(told) \in Nat
       /\ DOMAIN told' = 1 .. Len(told) + 1 /\ DOMAIN told = 1 .. Len(told)
       /\ told'[Len(told) + 1] = u /\ \A k \in 1 .. Len(told) : told'[k] = told[k]
  <2>1. told \in Seq(Subject)
    BY LoopFacts DEF LoopTypeOK
  <2> QED
    BY <1>1, <1>4, <2>1, AppendProperties, LenProperties
<1>11. LoopTypeOK'
  BY <1>1, <1>10, LoopFacts DEF LoopTypeOK, Domains, IInv
<1>12. PhaseInv'
  <2>1. \A k \in DOMAIN wire'["client"] : wire'["client"][k].kind = "note"
    BY <1>2, <1>5, <1>9 DEF Appended, Working
  <2>2. Open(r)'
    BY <1>1, <1>2 DEF Open, Working
  <2>3. Working(r)'
    BY <1>1, <1>2, <1>6, <2>1, <2>2 DEF Working
  <2> QED
    BY <1>1, <1>2, <2>3 DEF PhaseInv, Phase
<1>13. ResultsInv'
  <2>1. DOMAIN asks = 1 .. next["agent"] /\ IdsInv("agent")
    BY LoopFacts, Sides DEF LoopTypeOK, Domains, IInv
  <2> QED
    BY <1>1, <1>7, <2>1, LoopFacts, KeepResults DEF ResultsInv
<1>14. PromptsInv'
  BY <1>1, <1>7, <1>8, LoopFacts, KeepPrompts
<1>15. CreatedInv'
  <2>1. wire'["agent"] = << >>
    BY <1>2, <1>6 DEF Working
  <2>2. Finished("client", "session/new") \subseteq DOMAIN created
    BY LoopFacts DEF CreatedInv
  <2> QED
    BY <1>1, <1>7, <2>1, <2>2, LoopFacts, NothingCreated
<1>16. ToldInv'
  <2>1. /\ Len(told) = said["agent"] /\ heard["client"] <= Len(told)
        /\ Len(updates) = heard["client"] /\ heard["client"] \in Nat
        /\ said'["agent"] = said["agent"] + 1 /\ heard' = heard
        /\ updates \in Seq(Subject)
    BY <1>1, LoopFacts, Sides DEF ToldInv, TypeOK, LoopTypeOK
  <2>2. Len(told') = said'["agent"] /\ heard'["client"] <= Len(told')
        /\ Len(updates') = heard'["client"]
    BY <1>1, <1>10, <2>1
  <2>3. \A k \in DOMAIN updates' : updates'[k] = told'[k]
    <3>1. DOMAIN updates = 1 .. heard["client"]
      BY <2>1, LenProperties
    <3> QED
      BY <1>1, <1>10, <2>1, <3>1, LoopFacts DEF ToldInv
  <2>4. \A k \in DOMAIN wire'["client"] :
            wire'["client"][k].kind = "note" => wire'["client"][k].sent \in DOMAIN told'
    <3>1. g.sent \in DOMAIN told'
      BY <1>5, <1>10, <2>1
    <3>2. \A k \in DOMAIN wire["client"] :
              wire["client"][k].kind = "note" => wire["client"][k].sent \in DOMAIN told'
      BY <1>10, LoopFacts DEF ToldInv
    <3> QED
      BY <1>9, <3>1, <3>2 DEF Appended
  <2>5. ASSUME NEW k \in DOMAIN told'
        PROVE  /\ told'[k].turn \in DOMAIN prompts
               /\ told'[k].session \in Known
               /\ k > heard["client"] => told'[k].turn = next["client"]
    BY <1>2, <1>3, <1>4, <1>10, LoopFacts DEF ToldInv
  <2> QED
    BY <1>1, <1>2, <1>8, <2>2, <2>3, <2>4, <2>5 DEF ToldInv
<1> QED
  BY <1>11, <1>12, <1>13, <1>14, <1>15, <1>16 DEF LoopInv

LEMMA StepAskPermission ==
    ASSUME LoopInv, IInv, IInv', NEW i, AskPermission(i)
    PROVE  LoopInv'
<1> DEFINE m == "session/request_permission"
           u == [session |-> prompts[i], turn |-> i]
<1>0. PICK q : q = [id |-> next["agent"] + 1, method |-> m, timed |-> FALSE]
  OBVIOUS
<1> DEFINE g == FrameOf("call", q.id, m, said["agent"])
<1>1. /\ InTurn(i) /\ Write("agent", g)
      /\ next' = [next EXCEPT !["agent"] = @ + 1]
      /\ pending' = [pending EXCEPT !["agent"] = @ \cup {q}]
      /\ asks' = With(asks, next'["agent"], u)
      /\ UNCHANGED <<done, owed, said, heard, sessions, prompt_call, updates,
                     permissions_asked, created, prompts, told>>
  BY <1>0 DEF AskPermission, SendRequest
<1>2. PICK r \in pending["client"] :
          /\ pending["client"] = {r} /\ r.id = next["client"] /\ r \in Request
          /\ Working(r) /\ i = r.id
  BY <1>1, TurnOpen
<1>3. prompts[i] \in Nat /\ i \in Nat
  BY <1>1, TurnOpen
<1>4. u \in Subject
  BY <1>3 DEF Subject
<1> HIDE DEF u
<1>5. /\ next'["agent"] = q.id /\ next'["client"] = next["client"]
      /\ pending["agent"] = {} /\ pending'["agent"] = {q} /\ pending'["client"] = pending["client"]
      /\ q.id = next["agent"] + 1 /\ q.method = m /\ next["agent"] \in Nat
  BY <1>0, <1>1, LoopFacts, Sides DEF TypeOK, InTurn
<1>6. g \in Frame /\ g.kind = "call" /\ g.id = q.id
  <2>1. m \in Method \cup Notice /\ said["agent"] \in Nat /\ q.id \in Nat
    BY <1>5, LoopFacts, Sides, Routes
  <2> QED
    BY <2>1, FrameOfType
<1> HIDE DEF g
<1>7. wire'["agent"] = wire["agent"] /\ wire'["client"] = Append(wire["client"], g)
  BY <1>1, <1>6, LoopFacts, Sides, WriteEffect
<1>8. /\ Issued("client")' = Issued("client") /\ Issued("agent")' = Issued("agent") \cup {q}
      /\ \A p, n : Finished(p, n)' = Finished(p, n)
  BY <1>1, <1>5 DEF Issued, Finished
<1>9. Known' = Known
  BY <1>1, <1>8 DEF Known
<1>10. DOMAIN asks = 1 .. next["agent"] /\ \A k \in DOMAIN asks : asks[k] \in Subject
  BY LoopFacts DEF LoopTypeOK, Domains
<1>11. /\ DOMAIN asks' = 1 .. next'["agent"] /\ asks'[q.id] = u
       /\ \A k \in DOMAIN asks : asks'[k] = asks[k]
  <2>1. asks' = With(asks, q.id, u)
    BY <1>1, <1>5
  <2>2. /\ DOMAIN asks' = DOMAIN asks \cup {q.id} /\ asks'[q.id] = u
        /\ \A k \in DOMAIN asks : k # q.id => asks'[k] = asks[k]
    BY <2>1 DEF With
  <2> QED
    BY <1>5, <1>10, <2>2
<1>12. LoopTypeOK'
  <2>1. \A k \in DOMAIN asks' : asks'[k] \in Subject
    BY <1>4, <1>5, <1>10, <1>11
  <2> QED
    BY <1>1, <1>5, <1>11, <2>1, LoopFacts DEF LoopTypeOK, Domains, IInv
<1>13. PhaseInv'
  <2>1. Last(wire'["client"], "call", next'["agent"])
    <3>1. Last(Append(wire["client"], g), g.kind, g.id)
      BY <1>2, <1>6, LoopFacts, Sides, LastAppended DEF Working
    <3> QED
      BY <1>5, <1>6, <1>7, <3>1
  <2>2. Open(r)'
    BY <1>1, <1>2 DEF Open, Working
  <2>3. Waits'
    BY <1>5 DEF Waits
  <2>4. permissions_asked' = next'["agent"] - 1
    BY <1>1, <1>2, <1>5 DEF Working
  <2>5. Asking(r)'
    BY <1>2, <1>7, <2>1, <2>2, <2>3, <2>4 DEF Asking, Working
  <2> QED
    BY <1>2, <1>5, <2>5 DEF PhaseInv, Phase
<1>14. ResultsInv'
  <2>1. IdsInv("agent")
    BY Sides DEF IInv
  <2>2. \A c \in Issued("agent")' : c.method = m
    BY <1>5, <1>8, LoopFacts DEF ResultsInv
  <2> QED
    BY <1>1, <1>10, <1>11, <2>1, <2>2, LoopFacts, KeepResults
<1>15. PromptsInv'
  BY <1>1, <1>8, <1>9, LoopFacts, KeepPrompts
<1>16. CreatedInv'
  <2>1. wire'["agent"] = << >>
    BY <1>2, <1>7 DEF Working
  <2>2. Finished("client", "session/new") \subseteq DOMAIN created
    BY LoopFacts DEF CreatedInv
  <2> QED
    BY <1>1, <1>8, <2>1, <2>2, LoopFacts, NothingCreated
<1>17. ToldInv'
  <2>1. NoNew(wire["client"], wire'["client"], "note")
    BY <1>6, <1>7, LoopFacts, Sides, AppendedFrames
  <2> QED
    BY <1>1, <1>2, <1>5, <1>9, <2>1, LoopFacts, KeepTold DEF LoopTypeOK
<1> QED
  BY <1>12, <1>13, <1>14, <1>15, <1>16, <1>17 DEF LoopInv

\* A request that is not pending any more has finished with a result.
LEMMA AskedIsDecided ==
    ASSUME LoopInv, IInv, NEW i, Asked(i), pending["agent"] = {}
    PROVE  Decided(i)
<1>1. PICK k \in DOMAIN asks : asks[k].turn = i
  BY DEF Asked
<1>2. k \in 1 .. next["agent"] /\ IdsInv("agent") /\ ResultsInv
  BY LoopFacts, Sides DEF LoopTypeOK, Domains, IInv
<1>3. PICK q \in Issued("agent") : q.id = k
  BY <1>2 DEF IdsInv
<1>4. PICK c \in done["agent"] : c.req = q
  BY <1>3 DEF Issued
<1>5. c.outcome = "result" /\ q.method = "session/request_permission"
  BY <1>2, <1>3, Sides DEF ResultsInv
<1>6. k \in Finished("agent", "session/request_permission")
  BY <1>3, <1>4, <1>5 DEF Finished
<1> QED
  BY <1>1, <1>6 DEF Decided

LEMMA StepAnswerPrompt ==
    ASSUME LoopInv, IInv, IInv', NEW i, AnswerPrompt(i)
    PROVE  LoopInv'
<1> DEFINE c == [id |-> i, method |-> "session/prompt"]
           g == FrameOf("result", i, "session/prompt", said["agent"])
<1>1. /\ InTurn(i) /\ Asked(i) /\ Write("agent", g)
      /\ owed' = [owed EXCEPT !["agent"] = @ \ {c}]
      /\ UNCHANGED <<next, pending, done, said, heard, sessions, prompt_call, updates,
                     permissions_asked, created, prompts, asks, told>>
  BY DEF AnswerPrompt, Answer, hostVars
<1>2. PICK r \in pending["client"] :
          /\ pending["client"] = {r} /\ r.id = next["client"] /\ r \in Request
          /\ Working(r) /\ i = r.id
  BY <1>1, TurnOpen
<1>3. g \in Frame /\ g.kind = "result" /\ g.id = r.id
  <2>1. "session/prompt" \in Method \cup Notice /\ said["agent"] \in Nat /\ i \in Nat
    BY <1>1, LoopFacts, Sides, Routes, TurnOpen
  <2> QED
    BY <1>2, <2>1, FrameOfType
<1> HIDE DEF g
<1>4. wire'["agent"] = wire["agent"] /\ wire'["client"] = Append(wire["client"], g)
  BY <1>1, <1>3, LoopFacts, Sides, WriteEffect
<1>5. owed'["agent"] = {}
  <2>1. owed'["agent"] = owed["agent"] \ {c}
    BY <1>1, LoopFacts, Sides DEF TypeOK
  <2> QED
    BY <1>2, <2>1 DEF Working, Open
<1>6. (\A p : Issued(p)' = Issued(p)) /\ (\A p, m : Finished(p, m)' = Finished(p, m))
  BY <1>1, SameEngines
<1>7. Known' = Known
  BY <1>1, <1>6 DEF Known
<1>8. LoopTypeOK'
  BY <1>1, LoopFacts DEF LoopTypeOK, Domains, IInv
<1>9. PhaseInv'
  <2>1. Last(wire'["client"], "result", r.id)
    BY <1>2, <1>3, <1>4, LoopFacts, Sides, LastAppended DEF Working
  <2>2. Decided(r.id)
    BY <1>1, <1>2, AskedIsDecided DEF InTurn
  <2>3. Decided(r.id)'
    BY <1>1, <1>6, <2>2 DEF Decided
  <2>4. r.method = "session/prompt"
    BY <1>2 DEF Working, Open
  <2>5. Answering(r)'
    BY <1>1, <1>2, <1>4, <1>5, <2>1, <2>3, <2>4 DEF Answering, Working
  <2> QED
    BY <1>1, <1>2, <2>5 DEF PhaseInv, Phase
<1>10. ResultsInv'
  <2>1. DOMAIN asks = 1 .. next["agent"] /\ IdsInv("agent")
    BY LoopFacts, Sides DEF LoopTypeOK, Domains, IInv
  <2> QED
    BY <1>1, <1>6, <2>1, LoopFacts, KeepResults DEF ResultsInv
<1>11. PromptsInv'
  BY <1>1, <1>6, <1>7, LoopFacts, KeepPrompts
<1>12. CreatedInv'
  <2>1. wire'["agent"] = << >>
    BY <1>2, <1>4 DEF Working
  <2>2. Finished("client", "session/new") \subseteq DOMAIN created
    BY LoopFacts DEF CreatedInv
  <2> QED
    BY <1>1, <1>6, <2>1, <2>2, LoopFacts, NothingCreated
<1>13. ToldInv'
  <2>1. NoNew(wire["client"], wire'["client"], "note")
    BY <1>3, <1>4, LoopFacts, Sides, AppendedFrames
  <2> QED
    BY <1>1, <1>2, <1>7, <2>1, LoopFacts, KeepTold DEF LoopTypeOK
<1> QED
  BY <1>8, <1>9, <1>10, <1>11, <1>12, <1>13 DEF LoopInv

-----------------------------------------------------------------------------
(***************************************************************************)
(* The client's handlers.                                                  *)
(***************************************************************************)
LEMMA StepGrantPermission ==
    ASSUME LoopInv, IInv, IInv', NEW f, GrantPermission(f)
    PROVE  LoopInv'
<1> DEFINE g == FrameOf("result", f.id, f.method, said["client"])
<1>1. /\ Takes("client", f) /\ f.kind = "call" /\ f.method \in Method
      /\ TakeAndWrite("client", g)
      /\ permissions_asked' = permissions_asked + 1
      /\ UNCHANGED <<next, pending, done, owed, said, heard, sessions, prompt_call,
                     updates, created, prompts, asks, told>>
  BY Routes DEF GrantPermission, ReceiveHandled
<1>2. PICK r \in pending["client"] :
          /\ pending["client"] = {r} /\ r.id = next["client"] /\ r \in Request
          /\ Asking(r)
  BY <1>1, HeadAtClient DEF Answering, Last
<1>3. /\ f \in Frame /\ wire["agent"] = << >>
      /\ wire["client"] \in Seq(Frame) /\ wire["client"] # << >> /\ wire["client"][1] = f
  BY <1>1, HeadAtClient
<1>4. Single(wire["client"], "call", next["agent"])
  BY <1>1, <1>2, <1>3, LastAlone DEF Asking
<1>5. f.id = next["agent"] /\ Tail(wire["client"]) = << >>
  BY <1>3, <1>4, OneFrame DEF Single
<1>6. g \in Frame /\ g.kind = "result" /\ g.id = next["agent"]
  <2>1. f.id \in Nat /\ f.method \in Method \cup Notice /\ said["client"] \in Nat
    BY <1>1, <1>3, LoopFacts, Sides DEF Frame
  <2> QED
    BY <1>5, <2>1, FrameOfType
<1> HIDE DEF g
<1>7. wire'["client"] = << >> /\ wire'["agent"] = Append(<< >>, g)
  <2>1. wire'["client"] = Tail(wire["client"])
        /\ wire'[Other("client")] = Append(wire[Other("client")], g)
    BY <1>1, <1>6, LoopFacts, Sides, TakeAndWriteEffect
  <2> QED
    BY <1>3, <1>5, <2>1, Sides
<1>8. (\A p : Issued(p)' = Issued(p)) /\ (\A p, m : Finished(p, m)' = Finished(p, m))
  BY <1>1, SameEngines
<1>9. Known' = Known
  BY <1>1, <1>8 DEF Known
<1>10. permissions_asked' = next["agent"] /\ next["agent"] \in Nat
  BY <1>1, <1>2, LoopFacts, Sides DEF Asking
<1>11. LoopTypeOK'
  BY <1>1, <1>10, LoopFacts DEF LoopTypeOK, Domains, IInv
<1>12. PhaseInv'
  <2>1. Single(wire'["agent"], "result", next["agent"])
    BY <1>6, <1>7, FirstFrame DEF Single
  <2>2. Open(r)' /\ Waits'
    BY <1>1, <1>2 DEF Open, Waits, Asking
  <2>3. Granting(r)'
    BY <1>1, <1>7, <1>10, <2>1, <2>2 DEF Granting
  <2> QED
    BY <1>1, <1>2, <2>3 DEF PhaseInv, Phase
<1>13. ResultsInv'
  <2>1. DOMAIN asks = 1 .. next["agent"] /\ IdsInv("agent")
    BY LoopFacts, Sides DEF LoopTypeOK, Domains, IInv
  <2> QED
    BY <1>1, <1>8, <2>1, LoopFacts, KeepResults DEF ResultsInv
<1>14. PromptsInv'
  BY <1>1, <1>8, <1>9, LoopFacts, KeepPrompts
<1>15. CreatedInv'
  <2>1. \A k \in DOMAIN wire'["agent"] : wire'["agent"][k].kind # "call"
    BY <1>6, <1>7, FirstFrame
  <2>2. Finished("client", "session/new") \subseteq DOMAIN created
    BY LoopFacts DEF CreatedInv
  <2> QED
    BY <1>1, <1>8, <2>1, <2>2, LoopFacts, KeepCreated
<1>16. ToldInv'
  <2>1. \A k \in DOMAIN wire'["client"] : FALSE
    BY <1>7, EmptySeq
  <2>2. NoNew(wire["client"], wire'["client"], "note")
    BY <2>1 DEF NoNew
  <2> QED
    BY <1>1, <1>2, <1>9, <2>2, LoopFacts, KeepTold DEF LoopTypeOK
<1> QED
  BY <1>11, <1>12, <1>13, <1>14, <1>15, <1>16 DEF LoopInv

\* The next update is the next one the agent sent.
LEMMA StepCollectUpdate ==
    ASSUME LoopInv, IInv, IInv', NEW f, CollectUpdate(f)
    PROVE  LoopInv'
<1>1. /\ Takes("client", f) /\ f.kind = "note"
      /\ heard' = [heard EXCEPT !["client"] = @ + 1]
      /\ wire' = [wire EXCEPT !["client"] = Tail(@)]
      /\ updates' = Append(updates, told[f.sent])
      /\ UNCHANGED <<next, pending, done, owed, said, sessions, prompt_call,
                     permissions_asked, created, prompts, asks, told>>
  BY DEF CollectUpdate, ReceiveNotice
<1>2. PICK r \in pending["client"] :
          /\ pending["client"] = {r} /\ r.id = next["client"] /\ r \in Request
          /\ Working(r) \/ Asking(r) \/ Answering(r)
  BY <1>1, HeadAtClient
<1>3. /\ f \in Frame /\ wire["agent"] = << >> /\ 1 \in DOMAIN wire["client"]
      /\ wire["client"] \in Seq(Frame) /\ wire["client"] # << >> /\ wire["client"][1] = f
  BY <1>1, HeadAtClient
<1>4. wire'["client"] = Tail(wire["client"]) /\ wire'["agent"] = << >>
  <2>1. wire'["client"] = Tail(wire["client"]) /\ wire'[Other("client")] = wire[Other("client")]
    BY <1>1, LoopFacts, Sides, TakeEffect
  <2> QED
    BY <1>3, <2>1, Sides
<1>5. (\A p : Issued(p)' = Issued(p)) /\ (\A p, m : Finished(p, m)' = Finished(p, m))
  BY <1>1, SameEngines
<1>6. Known' = Known
  BY <1>1, <1>5 DEF Known
<1>7. /\ told \in Seq(Subject) /\ updates \in Seq(Subject) /\ Len(told) \in Nat
      /\ DOMAIN told = 1 .. Len(told)
      /\ heard["client"] \in Nat /\ heard'["client"] = heard["client"] + 1
      /\ Len(updates) = heard["client"] /\ DOMAIN updates = 1 .. heard["client"]
      /\ Len(told) = said["agent"]
  <2>1. told \in Seq(Subject) /\ updates \in Seq(Subject) /\ Len(updates) = heard["client"]
        /\ Len(told) = said["agent"]
    BY LoopFacts DEF LoopTypeOK, ToldInv
  <2>2. heard["client"] \in Nat /\ heard'["client"] = heard["client"] + 1
    BY <1>1, LoopFacts, Sides DEF TypeOK
  <2> QED
    BY <2>1, <2>2, LenProperties
<1>8. f.sent = heard["client"] + 1 /\ f.sent \in 1 .. Len(told)
  <2>1. f.sent \in DOMAIN told
    BY <1>1, <1>3, LoopFacts DEF ToldInv
  <2> QED
    BY <1>1, <1>3, <1>7, <2>1, NextHeard
<1>9. told[f.sent] \in Subject
  BY <1>7, <1>8
<1>10. /\ updates' \in Seq(Subject) /\ Len(updates') = heard'["client"]
       /\ DOMAIN updates' = 1 .. heard["client"] + 1
       /\ updates'[heard["client"] + 1] = told[f.sent]
       /\ \A k \in 1 .. heard["client"] : updates'[k] = updates[k]
  BY <1>1, <1>7, <1>9, AppendProperties, LenProperties
<1>11. LoopTypeOK'
  BY <1>1, <1>10, LoopFacts DEF LoopTypeOK, Domains, IInv
<1>12. PhaseInv'
  <2>1. CASE Working(r)
    <3>1. \A k \in DOMAIN wire'["client"] : wire'["client"][k].kind = "note"
      BY <1>3, <1>4, <2>1, DroppedLemma DEF Dropped, Working
    <3>2. Working(r)'
      BY <1>1, <1>4, <2>1, <3>1 DEF Working, Open
    <3> QED
      BY <1>1, <1>2, <3>2 DEF PhaseInv, Phase
  <2>2. CASE Asking(r)
    <3>1. Last(wire'["client"], "call", next["agent"])
      BY <1>1, <1>3, <1>4, <2>2, LastTail DEF Asking
    <3>2. Asking(r)'
      BY <1>1, <1>4, <2>2, <3>1 DEF Asking, Open, Waits
    <3> QED
      BY <1>1, <1>2, <3>2 DEF PhaseInv, Phase
  <2>3. CASE Answering(r)
    <3>1. Last(wire'["client"], "result", r.id)
      BY <1>1, <1>3, <1>4, <2>3, LastTail DEF Answering
    <3>2. Decided(r.id) => Decided(r.id)'
      BY <1>1, <1>5 DEF Decided
    <3>3. Answering(r)'
      BY <1>1, <1>4, <2>3, <3>1, <3>2 DEF Answering
    <3> QED
      BY <1>1, <1>2, <3>3 DEF PhaseInv, Phase
  <2> QED
    BY <1>2, <2>1, <2>2, <2>3
<1>13. ResultsInv'
  <2>1. DOMAIN asks = 1 .. next["agent"] /\ IdsInv("agent")
    BY LoopFacts, Sides DEF LoopTypeOK, Domains, IInv
  <2> QED
    BY <1>1, <1>5, <2>1, LoopFacts, KeepResults DEF ResultsInv
<1>14. PromptsInv'
  BY <1>1, <1>5, <1>6, LoopFacts, KeepPrompts
<1>15. CreatedInv'
  <2>1. Finished("client", "session/new") \subseteq DOMAIN created
    BY LoopFacts DEF CreatedInv
  <2> QED
    BY <1>1, <1>4, <1>5, <2>1, LoopFacts, NothingCreated
<1>16. ToldInv'
  <2>1. /\ Len(told') = said'["agent"] /\ heard'["client"] <= Len(told')
        /\ Len(updates') = heard'["client"]
    BY <1>1, <1>7, <1>8, <1>10
  <2>2. \A k \in DOMAIN updates' : updates'[k] = told'[k]
    BY <1>1, <1>7, <1>8, <1>10, LoopFacts DEF ToldInv
  <2>3. \A k \in DOMAIN wire'["client"] :
            wire'["client"][k].kind = "note" => wire'["client"][k].sent \in DOMAIN told'
    BY <1>1, <1>3, <1>4, LoopFacts, DroppedFrames DEF ToldInv, NoNew
  <2>4. ASSUME NEW k \in DOMAIN told'
        PROVE  /\ told'[k].turn \in DOMAIN prompts
               /\ told'[k].session \in Known
               /\ k > heard'["client"] => told'[k].turn = next["client"] /\ pending["client"] # {}
    BY <1>1, <1>7, LoopFacts DEF ToldInv
  <2> QED
    BY <1>1, <1>6, <2>1, <2>2, <2>3, <2>4 DEF ToldInv
<1> QED
  BY <1>11, <1>12, <1>13, <1>14, <1>15, <1>16 DEF LoopInv

-----------------------------------------------------------------------------
(***************************************************************************)
(* The completions.                                                        *)
(***************************************************************************)
\* The agent has the decision and goes on with the turn.
LEMMA StepDecision ==
    ASSUME LoopInv, IInv, IInv', NEW f, Complete("agent", f)
    PROVE  LoopInv'
<1>1. PICK q \in pending["agent"] : ReceiveReply("agent", f, q)
  BY DEF Complete
<1>2. /\ Takes("agent", f) /\ f.kind \in Reply
      /\ pending' = [pending EXCEPT !["agent"] = @ \ {q}]
      /\ done' = [done EXCEPT !["agent"] = @ \cup {Answered(q, f, heard["agent"])}]
      /\ wire' = [wire EXCEPT !["agent"] = Tail(@)]
      /\ UNCHANGED <<next, owed, said, heard>>
      /\ UNCHANGED <<sessions, prompt_call, updates, permissions_asked,
                     created, prompts, asks, told>>
  BY <1>1 DEF ReceiveReply, Complete, hostVars
<1>3. PICK r \in pending["client"] :
          /\ pending["client"] = {r} /\ r.id = next["client"] /\ r \in Request
          /\ f.kind = "result" /\ Granting(r)
  BY <1>2, HeadAtAgent DEF Reply
<1>4. Tail(wire["agent"]) = << >> /\ wire["client"] = << >>
  BY <1>2, HeadAtAgent
<1>5. wire'["agent"] = << >> /\ wire'["client"] = << >>
  <2>1. wire'["agent"] = Tail(wire["agent"]) /\ wire'[Other("agent")] = wire[Other("agent")]
    BY <1>2, LoopFacts, Sides, TakeEffect
  <2> QED
    BY <1>4, <2>1, Sides
<1>6. /\ \A p \in Peer : Issued(p)' = Issued(p)
      /\ \A m : Finished("client", m)' = Finished("client", m)
      /\ \A m : Finished("agent", m) \subseteq Finished("agent", m)'
      /\ done'["agent"] = done["agent"] \cup {Answered(q, f, heard["agent"])}
      /\ done'["client"] = done["client"]
      /\ pending'["agent"] = pending["agent"] \ {q} /\ pending'["client"] = pending["client"]
  <2>1. TypeOK /\ "agent" \in Peer /\ Other("agent") = "client" /\ q \in pending["agent"]
    BY <1>1, LoopFacts, Sides
  <2>2. /\ \A x \in Peer : Issued(x)' = Issued(x)
        /\ \A m : Finished(Other("agent"), m)' = Finished(Other("agent"), m)
        /\ \A m : Finished("agent", m)' = Finished("agent", m) \cup
                      (IF q.method = m /\ f.kind = "result" THEN {q.id} ELSE {})
        /\ done'["agent"] = done["agent"] \cup {Answered(q, f, heard["agent"])}
        /\ done'[Other("agent")] = done[Other("agent")]
        /\ pending'["agent"] = pending["agent"] \ {q}
        /\ pending'[Other("agent")] = pending[Other("agent")]
    <3>1. /\ done' = [done EXCEPT !["agent"] = @ \cup {Answered(q, f, heard["agent"])}]
          /\ pending' = [pending EXCEPT !["agent"] = @ \ {q}]
      BY <1>2
    <3> QED
      BY <2>1, <3>1, CompletionKeeps
  <2> QED
    BY <2>1, <2>2
<1>7. pending'["agent"] = {}
  BY <1>1, <1>3, <1>6 DEF Granting, Waits
<1>8. Known' = Known
  BY <1>2, <1>6 DEF Known
<1>9. \A i : Decided(i) => Decided(i)'
  BY <1>2, <1>6 DEF Decided
<1>10. LoopTypeOK'
  BY <1>2, LoopFacts DEF LoopTypeOK, Domains, IInv
<1>11. PhaseInv'
  <2>1. \A k \in DOMAIN wire'["client"] : FALSE
    BY <1>5, EmptySeq
  <2>2. Working(r)'
    BY <1>2, <1>3, <1>5, <1>7, <2>1 DEF Working, Granting, Open
  <2> QED
    BY <1>2, <1>3, <1>6, <2>2 DEF PhaseInv, Phase
<1>12. ResultsInv'
  <2>1. Answered(q, f, heard["agent"]).outcome = "result"
    BY <1>3 DEF Answered
  <2>2. \A p \in Peer : \A d \in done'[p] : d.outcome = "result"
    BY <1>6, <2>1, LoopFacts, Sides DEF ResultsInv
  <2> QED
    BY <1>6, <1>9, <2>2, LoopFacts, Sides DEF ResultsInv
<1>13. PromptsInv'
  BY <1>2, <1>6, <1>8, LoopFacts, Sides, KeepPrompts
<1>14. CreatedInv'
  <2>1. Finished("client", "session/new") \subseteq DOMAIN created
    BY LoopFacts DEF CreatedInv
  <2> QED
    BY <1>2, <1>5, <1>6, <2>1, LoopFacts, Sides, NothingCreated
<1>15. ToldInv'
  BY <1>2, <1>3, <1>4, <1>5, <1>6, <1>8, LoopFacts, KeepTold, SameFrames DEF LoopTypeOK
<1> QED
  BY <1>10, <1>11, <1>12, <1>13, <1>14, <1>15 DEF LoopInv

\* What the client waited for completes, and everything is quiet.
LEMMA StepCompletion ==
    ASSUME LoopInv, IInv, IInv', NEW f, Complete("client", f)
    PROVE  LoopInv'
<1>1. PICK q \in pending["client"] : ReceiveReply("client", f, q)
  BY DEF Complete
<1>2. /\ Takes("client", f) /\ f.kind \in Reply
      /\ pending' = [pending EXCEPT !["client"] = @ \ {q}]
      /\ done' = [done EXCEPT !["client"] = @ \cup {Answered(q, f, heard["client"])}]
      /\ wire' = [wire EXCEPT !["client"] = Tail(@)]
      /\ UNCHANGED <<next, owed, said, heard>>
      /\ UNCHANGED <<sessions, prompt_call, updates, permissions_asked,
                     created, prompts, asks, told>>
  BY <1>1 DEF ReceiveReply, Complete, hostVars
<1>3. /\ f \in Frame /\ wire["agent"] = << >>
      /\ wire["client"] \in Seq(Frame) /\ wire["client"] # << >> /\ wire["client"][1] = f
      /\ f.kind # "note" /\ f.kind # "call"
  BY <1>2, HeadAtClient DEF Reply
<1>4. PICK r \in pending["client"] :
          /\ pending["client"] = {r} /\ r.id = next["client"] /\ r \in Request
          /\ Asking(r) \/ Answering(r)
  BY <1>2, <1>3, HeadAtClient
<1>5. Answering(r)
  <2>1. Asking(r) => Single(wire["client"], "call", next["agent"])
    BY <1>3, LastAlone DEF Asking
  <2> QED
    BY <1>3, <1>4, <2>1 DEF Single
<1>6. f.kind = "result" /\ Len(wire["client"]) = 1 /\ Tail(wire["client"]) = << >> /\ q = r
  <2>1. Single(wire["client"], "result", r.id)
    BY <1>3, <1>5, LastAlone DEF Answering
  <2> QED
    BY <1>1, <1>3, <1>4, <2>1, OneFrame DEF Single
<1>7. wire'["client"] = << >> /\ wire'["agent"] = << >>
  <2>1. wire'["client"] = Tail(wire["client"]) /\ wire'[Other("client")] = wire[Other("client")]
    BY <1>2, LoopFacts, Sides, TakeEffect
  <2> QED
    BY <1>3, <1>6, <2>1, Sides
<1>8. /\ \A p \in Peer : Issued(p)' = Issued(p)
      /\ \A m : Finished("agent", m)' = Finished("agent", m)
      /\ \A m : Finished("client", m)' = Finished("client", m) \cup
                    (IF r.method = m /\ f.kind = "result" THEN {r.id} ELSE {})
      /\ done'["client"] = done["client"] \cup {Answered(r, f, heard["client"])}
      /\ done'["agent"] = done["agent"]
      /\ pending'["client"] = pending["client"] \ {r} /\ pending'["agent"] = pending["agent"]
  <2>1. TypeOK /\ "client" \in Peer /\ Other("client") = "agent" /\ r \in pending["client"]
    BY <1>1, LoopFacts, Sides, <1>4
  <2>2. /\ \A x \in Peer : Issued(x)' = Issued(x)
        /\ \A m : Finished(Other("client"), m)' = Finished(Other("client"), m)
        /\ \A m : Finished("client", m)' = Finished("client", m) \cup
                      (IF r.method = m /\ f.kind = "result" THEN {r.id} ELSE {})
        /\ done'["client"] = done["client"] \cup {Answered(r, f, heard["client"])}
        /\ done'[Other("client")] = done[Other("client")]
        /\ pending'["client"] = pending["client"] \ {r}
        /\ pending'[Other("client")] = pending[Other("client")]
    <3>1. /\ done' = [done EXCEPT !["client"] = @ \cup {Answered(r, f, heard["client"])}]
          /\ pending' = [pending EXCEPT !["client"] = @ \ {r}]
      BY <1>2, <1>6
    <3> QED
      BY <2>1, <3>1, CompletionKeeps
  <2> QED
    BY <2>1, <2>2
<1>9. pending'["client"] = {}
  BY <1>4, <1>8
<1>10. Known \subseteq Known'
  BY <1>2, <1>8 DEF Known
<1>11. \A i : Decided(i)' <=> Decided(i)
  BY <1>2, <1>8 DEF Decided
<1>12. LoopTypeOK'
  BY <1>2, LoopFacts DEF LoopTypeOK, Domains, IInv
<1>13. PhaseInv'
  BY <1>2, <1>5, <1>7, <1>8, <1>9, Sides DEF PhaseInv, Idle, Answering
<1>14. ResultsInv'
  <2>1. Answered(r, f, heard["client"]).outcome = "result"
    BY <1>6 DEF Answered
  <2>2. \A p \in Peer : \A d \in done'[p] : d.outcome = "result"
    BY <1>8, <2>1, LoopFacts, Sides DEF ResultsInv
  <2>3. \A i \in Finished("client", "session/prompt")' : Decided(i)
    BY <1>5, <1>8, LoopFacts DEF ResultsInv, Answering
  <2> QED
    BY <1>8, <1>11, <2>2, <2>3, LoopFacts, Sides DEF ResultsInv
<1>15. PromptsInv'
  BY <1>2, <1>8, <1>10, LoopFacts, Sides, KeepPrompts
<1>16. CreatedInv'
  <2>1. Finished("client", "session/new")' \subseteq DOMAIN created
    BY <1>5, <1>8, LoopFacts DEF CreatedInv, Answering
  <2> QED
    BY <1>2, <1>7, <1>8, <2>1, LoopFacts, Sides, NothingCreated
<1>17. ToldInv'
  <2>1. heard["client"] = Len(told)
    <3>1. 1 \in DOMAIN wire["client"]
      BY <1>3, DroppedLemma DEF Dropped
    <3>2. /\ Stamp("client", 1) = Stamp("client", 1 - 1) + 0
          /\ Stamp("client", 1) = said["agent"]
      BY <1>3, <1>6, <3>1, Sides DEF IInv, StampInv
    <3>3. Stamp("client", 1 - 1) = heard["client"] /\ heard["client"] \in Nat
      BY LoopFacts, Sides DEF Stamp
    <3> QED
      BY <3>2, <3>3, LoopFacts DEF ToldInv
  <2>2. NoNew(wire["client"], wire'["client"], "note")
    BY <1>7, EmptySeq DEF NoNew
  <2> QED
    BY <1>2, <1>10, <2>1, <2>2, LoopFacts, KeepTold DEF LoopTypeOK
<1> QED
  BY <1>12, <1>13, <1>14, <1>15, <1>16, <1>17 DEF LoopInv

-----------------------------------------------------------------------------
(***************************************************************************)
(* The invariant, and what follows from it.                                *)
(***************************************************************************)
LEMMA LoopInvInit == LoopInit => LoopInv
<1> SUFFICES ASSUME LoopInit
             PROVE  LoopInv
  OBVIOUS
<1>1. /\ \A p \in Peer : next[p] = 0 /\ pending[p] = {} /\ done[p] = {} /\ owed[p] = {}
                         /\ wire[p] = << >> /\ said[p] = 0 /\ heard[p] = 0
      /\ sessions = 0 /\ prompt_call = {} /\ updates = << >> /\ permissions_asked = 0
      /\ created = << >> /\ prompts = << >> /\ asks = << >> /\ told = << >>
  BY DEF LoopInit, Init
<1>2. DOMAIN << >> = {} /\ Len(<< >>) = 0 /\ << >> \in Seq(Subject) /\ 1 .. 0 = {}
  BY EmptySeq
<1>3. \A p \in Peer : Issued(p) = {} /\ \A m : Finished(p, m) = {}
  BY <1>1 DEF Issued, Finished
<1>4. LoopTypeOK
  <2>1. TypeOK
    BY TypeInit DEF LoopInit
  <2> QED
    BY <1>1, <1>2, <2>1, Sides DEF LoopTypeOK, Domains
<1>5. PhaseInv
  BY <1>1, Sides DEF PhaseInv, Idle
<1>6. ResultsInv
  BY <1>1, <1>3, Sides DEF ResultsInv
<1>7. PromptsInv
  BY <1>1, <1>2, <1>3, Sides DEF PromptsInv
<1>8. CreatedInv
  <2>1. SessionsDistinct
    BY <1>1, <1>2 DEF SessionsDistinct
  <2> QED
    BY <1>1, <1>2, <1>3, <2>1, Sides DEF CreatedInv
<1>9. ToldInv
  BY <1>1, <1>2, Sides DEF ToldInv
<1> QED
  BY <1>4, <1>5, <1>6, <1>7, <1>8, <1>9 DEF LoopInv

LEMMA StepUnchanged ==
    ASSUME LoopInv, IInv', UNCHANGED loopVars
    PROVE  LoopInv'
<1>1. /\ UNCHANGED <<next, pending, done, owed, wire, said, heard>>
      /\ UNCHANGED <<sessions, prompt_call, updates, permissions_asked,
                     created, prompts, asks, told>>
  BY DEF loopVars, vars, hostVars
<1>2. (\A p : Issued(p)' = Issued(p)) /\ (\A p, m : Finished(p, m)' = Finished(p, m))
  BY <1>1, SameEngines
<1>3. Known' = Known /\ \A i : Decided(i)' <=> Decided(i)
  BY <1>1, <1>2 DEF Known, Decided
<1>4. LoopTypeOK'
  BY <1>1, LoopFacts DEF LoopTypeOK, Domains, IInv
<1>5. PhaseInv'
  <2>1. Idle' <=> Idle
    BY <1>1 DEF Idle
  <2>2. \A r : Phase(r)' <=> Phase(r)
    BY <1>1, <1>3 DEF Phase, Calling, Working, Asking, Granting, Answering, Open, Waits
  <2> QED
    BY <1>1, <2>1, <2>2, LoopFacts DEF PhaseInv
<1>6. ResultsInv'
  BY <1>1, <1>2, <1>3, LoopFacts DEF ResultsInv
<1>7. PromptsInv'
  BY <1>1, <1>2, <1>3, LoopFacts, KeepPrompts
<1>8. CreatedInv'
  BY <1>1, <1>2, LoopFacts DEF CreatedInv, SessionsDistinct, IsMade
<1>9. ToldInv'
  BY <1>1, <1>3, LoopFacts DEF ToldInv
<1> QED
  BY <1>4, <1>5, <1>6, <1>7, <1>8, <1>9 DEF LoopInv

LEMMA LoopInvNext == LoopInv /\ IInv /\ IInv' /\ [LoopNext]_loopVars => LoopInv'
<1> SUFFICES ASSUME LoopInv, IInv, IInv', [LoopNext]_loopVars
             PROVE  LoopInv'
  OBVIOUS
<1>1. CASE UNCHANGED loopVars
  BY <1>1, StepUnchanged
<1>2. CASE Initialize
  <2>1. /\ SendRequest("client", "initialize", FALSE) /\ next["client"] = 0
        /\ UNCHANGED <<sessions, prompt_call, updates, permissions_asked, created, asks, told>>
        /\ prompts' = prompts
    BY <1>2 DEF Initialize, hostVars
  <2>2. pending["client"] = {}
    <3>1. {r.id : r \in Issued("client")} = 1 .. 0
      BY <2>1, Sides DEF IInv, IdsInv
    <3>2. \A r \in Issued("client") : r.id \in 1 .. 0
      BY <3>1
    <3>3. Issued("client") = {}
      BY <3>2
    <3> QED
      BY <3>3 DEF Issued
  <2> QED
    BY <2>1, <2>2, Routes, StepClientSends
<1>3. CASE NewSession
  <2>1. /\ SendRequest("client", "session/new", FALSE) /\ pending["client"] = {}
        /\ UNCHANGED <<sessions, prompt_call, updates, permissions_asked, created, asks, told>>
        /\ prompts' = prompts
    BY <1>3 DEF NewSession, ClientIdle, hostVars
  <2> QED
    BY <2>1, Routes, StepClientSends
<1>4. ASSUME NEW s \in Known, Prompt(s)
      PROVE  LoopInv'
  BY <1>4, Routes, StepClientSends DEF Prompt, ClientIdle
<1>5. ASSUME NEW i \in prompt_call, Update(i) \/ AskPermission(i) \/ AnswerPrompt(i)
      PROVE  LoopInv'
  BY <1>5, StepUpdate, StepAskPermission, StepAnswerPrompt
<1>6. ASSUME NEW p \in Peer, Deliver(p)
      PROVE  LoopInv'
  <2> DEFINE f == Head(wire[p])
  <2>1. CASE p = "agent" /\ (AnswerInitialize(f) \/ AnswerSessionNew(f))
    BY <2>1, StepAnswerAtOnce DEF AnswerInitialize, AnswerSessionNew, hostVars
  <2>2. CASE p = "agent" /\ DeferPrompt(f)
    BY <2>2, StepDeferPrompt
  <2>3. CASE p = "client" /\ GrantPermission(f)
    BY <2>3, StepGrantPermission
  <2>4. CASE p = "client" /\ CollectUpdate(f)
    BY <2>4, StepCollectUpdate
  <2>5. CASE Complete(p, f)
    BY <2>5, Sides, StepDecision, StepCompletion
  <2> QED
    BY <1>6, <2>1, <2>2, <2>3, <2>4, <2>5 DEF Deliver
<1> QED
  BY <1>1, <1>2, <1>3, <1>4, <1>5, <1>6 DEF LoopNext, ClientStep, AgentStep

\* The invariant of the two hosts: the client waits for one request, and every
\* frame there is belongs to it (protocol_loopback.cpp:64-77, deliver()).
THEOREM LoopInvariant == LoopSpec => []LoopInv
<1>1. LoopInit => LoopInv
  BY LoopInvInit
<1>2. LoopInv /\ IInv /\ IInv' /\ [LoopNext]_loopVars => LoopInv'
  BY LoopInvNext
<1>3. LoopSpec => []IInv
  BY LoopIsConnection, Invariant
<1> QED
  BY <1>1, <1>2, <1>3, PTL DEF LoopSpec

\* The fields of both hosts keep their types, and the tables of payloads hold
\* ids that were handed out (protocol_loopback.cpp:20-31).
THEOREM LoopTypeCorrect == LoopSpec => []LoopTypeOK
<1>1. LoopInv => LoopTypeOK
  BY DEF LoopInv
<1> QED
  BY <1>1, LoopInvariant, PTL

\* The slot of the deferred call names the call that is owed, in every turn
\* (protocol_loopback.cpp:125, 151).
THEOREM SlotNamesTheDebt == LoopSpec => []SlotNamesDebt
<1>1. LoopInv => SlotNamesDebt
  <2> SUFFICES ASSUME LoopInv, NEW c \in owed["agent"]
               PROVE  prompt_call = {c.id} /\ c.method = "session/prompt"
    BY DEF SlotNamesDebt
  <2>1. PICK r \in pending["client"] : Phase(r)
    BY LoopFacts DEF PhaseInv, Idle
  <2>2. Open(r)
    BY <2>1 DEF Phase, Calling, Working, Asking, Granting, Answering
  <2> QED
    BY <2>2 DEF Open
<1> QED
  BY <1>1, LoopInvariant, PTL

\* No two session/new requests are given the same session
\* (protocol_loopback.cpp:35).
THEOREM SessionsAreDistinct == LoopSpec => []SessionsDistinct
<1>1. LoopInv => SessionsDistinct
  BY DEF LoopInv, CreatedInv
<1> QED
  BY <1>1, LoopInvariant, PTL

\* When the script goes on, both engines and both streams are empty
\* (protocol_loopback.cpp:158-159).
THEOREM QuietBetweenRequests == LoopSpec => []QuiescentBetweenRequests
<1>1. LoopInv => QuiescentBetweenRequests
  BY DEF LoopInv, PhaseInv, Idle, QuiescentBetweenRequests, ClientIdle
<1> QED
  BY <1>1, LoopInvariant, PTL

\* A request of the client that is not the last one has finished.
LEMMA EarlierFinished ==
    ASSUME LoopInv, IInv, NEW i, NEW m, IsMade(i, m),
           pending["client"] = {} \/ i # next["client"]
    PROVE  i \in Finished("client", m)
<1>1. PICK q \in Issued("client") : q.id = i /\ q.method = m
  BY DEF IsMade
<1>2. q \notin pending["client"]
  BY <1>1, LoopFacts DEF PhaseInv, Idle
<1>3. PICK c \in done["client"] : c.req = q
  BY <1>1, <1>2 DEF Issued
<1>4. c.outcome = "result"
  BY <1>3, LoopFacts, Sides DEF ResultsInv
<1> QED
  BY <1>1, <1>3, <1>4 DEF Finished

\* The request the client waits for has not finished.
LEMMA WaitedForIsOpen ==
    ASSUME LoopInv, IInv, NEW m, next["client"] \in Finished("client", m)
    PROVE  pending["client"] = {}
<1> SUFFICES ASSUME pending["client"] # {}
             PROVE  FALSE
  OBVIOUS
<1>1. PICK r \in pending["client"] : r.id = next["client"]
  BY LoopFacts DEF PhaseInv, Idle
<1>2. PICK c \in done["client"] : c.req.id = next["client"]
  BY DEF Finished
<1>3. IdsInv("client") /\ r \in Issued("client") /\ c.req \in Issued("client")
  BY <1>1, <1>2, Sides DEF IInv, Issued
<1>4. c.req = r
  BY <1>1, <1>2, <1>3 DEF IdsInv
<1> QED
  BY <1>1, <1>2, <1>3, <1>4 DEF IdsInv

\* A turn is seen whole and in order, each update under the session and the
\* turn it was sent for (protocol_loopback.cpp:140-157).
THEOREM TurnsAreWhole == LoopSpec => []TurnIsWhole
<1>1. LoopInv /\ IInv => TurnIsWhole
  <2> SUFFICES ASSUME LoopInv, IInv
               PROVE  TurnIsWhole
    OBVIOUS
  <2>1. /\ told \in Seq(Subject) /\ updates \in Seq(Subject)
        /\ heard["client"] \in Nat /\ heard["client"] <= Len(told)
        /\ Len(updates) = heard["client"]
        /\ \A k \in DOMAIN updates : updates[k] = told[k]
    BY LoopFacts, Sides DEF LoopTypeOK, ToldInv
  <2>2. /\ Len(told) \in Nat /\ DOMAIN told = 1 .. Len(told)
        /\ DOMAIN updates = 1 .. heard["client"]
    BY <2>1, LenProperties
  <2>3. \A k \in DOMAIN updates : k \in DOMAIN told
    BY <2>1, <2>2
  <2>4. updates = SubSeq(told, 1, heard["client"])
    <3>1. \A k \in 1 .. heard["client"] : told[k] \in Subject
      BY <2>1, <2>2
    <3>2. 1 \in Int /\ heard["client"] \in Int
      BY <2>1
    <3>3. /\ SubSeq(told, 1, heard["client"]) \in Seq(Subject)
          /\ Len(SubSeq(told, 1, heard["client"]))
                 = IF 1 <= heard["client"] THEN heard["client"] - 1 + 1 ELSE 0
          /\ \A k \in 1 .. heard["client"] - 1 + 1 :
                 SubSeq(told, 1, heard["client"])[k] = told[1 + k - 1]
      BY <3>1, <3>2, SubSeqProperties
    <3>4. Len(SubSeq(told, 1, heard["client"])) = Len(updates)
      BY <2>1, <3>3
    <3>5. \A k \in 1 .. Len(updates) : updates[k] = SubSeq(told, 1, heard["client"])[k]
      <4> TAKE k \in 1 .. Len(updates)
      <4>1. k \in 1 .. heard["client"] - 1 + 1 /\ 1 + k - 1 = k
        BY <2>1
      <4> QED
        BY <2>1, <2>2, <3>3, <4>1
    <3> QED
      BY <2>1, <3>3, <3>4, <3>5, SeqEqual
  <2>5. ASSUME NEW i \in Finished("client", "session/prompt"),
               NEW k \in DOMAIN told, told[k].turn = i
        PROVE  k <= Len(updates)
    <3> SUFFICES ASSUME k > heard["client"]
                 PROVE  FALSE
      BY <2>1, <2>2
    <3>1. i = next["client"] /\ pending["client"] # {}
      BY <2>5, LoopFacts DEF ToldInv
    <3> QED
      BY <3>1, WaitedForIsOpen
  <2>6. ASSUME NEW k \in DOMAIN updates, NEW i \in Finished("client", "session/prompt"),
               i > updates[k].turn
        PROVE  updates[k].turn \in Finished("client", "session/prompt")
    <3>1. IsMade(updates[k].turn, "session/prompt")
      BY <2>1, <2>3, LoopFacts DEF ToldInv, PromptsInv
    <3>2. i \in 1 .. next["client"] /\ next["client"] \in Nat
      <4>1. PICK c \in done["client"] : c.req.id = i
        BY DEF Finished
      <4>2. c.req \in Issued("client") /\ IdsInv("client")
        BY <4>1, Sides DEF Issued, IInv
      <4> QED
        BY <4>1, <4>2, LoopFacts, Sides DEF IdsInv
    <3>3. updates[k].turn # next["client"]
      BY <2>6, <3>2
    <3> QED
      BY <3>1, <3>3, EarlierFinished
  <2>7. \A k \in DOMAIN updates : updates[k].session \in Known
    BY <2>1, <2>3, LoopFacts DEF ToldInv
  <2> QED
    BY <2>4, <2>5, <2>6, <2>7 DEF TurnIsWhole
<1>2. LoopSpec => []IInv
  BY LoopIsConnection, Invariant
<1> QED
  BY <1>1, <1>2, LoopInvariant, PTL

\* A permission request whose decision the agent has is one the client counted.
LEMMA DecisionsAreCounted ==
    ASSUME LoopInv, IInv, NEW k \in Finished("agent", "session/request_permission")
    PROVE  k \in 1 .. permissions_asked
<1>1. PICK c \in done["agent"] : c.req.id = k
  BY DEF Finished
<1>2. IdsInv("agent") /\ c.req \in Issued("agent") /\ next["agent"] \in Nat
  BY <1>1, LoopFacts, Sides DEF IInv, Issued
<1>3. k \in 1 .. next["agent"]
  BY <1>1, <1>2 DEF IdsInv
<1>4. \A q \in pending["agent"] : q.id # k
  BY <1>1, <1>2 DEF IdsInv, Issued
<1>5. \/ permissions_asked = next["agent"]
      \/ permissions_asked = next["agent"] - 1 /\ Waits
  <2>1. CASE Idle
    BY <2>1 DEF Idle
  <2>2. ASSUME NEW r, Phase(r)
        PROVE  \/ permissions_asked = next["agent"]
               \/ permissions_asked = next["agent"] - 1 /\ Waits
    BY <2>2 DEF Phase, Calling, Working, Asking, Granting, Answering
  <2> QED
    BY <2>1, <2>2, LoopFacts DEF PhaseInv
<1>6. CASE permissions_asked = next["agent"]
  BY <1>3, <1>6
<1>7. CASE permissions_asked = next["agent"] - 1 /\ Waits
  <2>1. k # next["agent"]
    BY <1>4, <1>7 DEF Waits
  <2> QED
    BY <1>2, <1>3, <1>7, <2>1
<1> QED
  BY <1>5, <1>6, <1>7

\* A prompt is never answered over an open permission request, and each
\* finished turn was asked about (protocol_loopback.cpp:142-151).
THEOREM PermissionsComeFirst == LoopSpec => []PermissionBeforeAnswer
<1>1. LoopInv /\ IInv => PermissionBeforeAnswer
  <2> SUFFICES ASSUME LoopInv, IInv
               PROVE  PermissionBeforeAnswer
    OBVIOUS
  <2> DEFINE S == Finished("client", "session/prompt")
             D == Finished("agent", "session/request_permission")
             by == [i \in S |-> CHOOSE k \in D : asks[k].turn = i]
  <2>1. \A i \in S : \E k \in D : asks[k].turn = i
    BY LoopFacts DEF ResultsInv, Decided
  <2>2. \A i \in S : by[i] \in D /\ asks[by[i]].turn = i
    BY <2>1
  <2>3. \A i \in S : by[i] \in 1 .. permissions_asked
    BY <2>2, DecisionsAreCounted
  <2>4. by \in [S -> 1 .. permissions_asked]
    BY <2>3
  <2>5. \A i, j \in S : by[i] = by[j] => i = j
    BY <2>2
  <2> HIDE DEF by, S, D
  <2>6. by \in Injection(S, 1 .. permissions_asked)
    BY <2>4, <2>5 DEF Injection, IsInjective
  <2>7. permissions_asked \in Nat /\ permissions_asked \in Int /\ 1 \in Int
    BY LoopFacts DEF LoopTypeOK
  <2>8. /\ IsFiniteSet(1 .. permissions_asked)
        /\ Cardinality(1 .. permissions_asked)
               = IF 1 > permissions_asked THEN 0 ELSE permissions_asked - 1 + 1
    BY <2>7, FS_Interval
  <2>9. Cardinality(1 .. permissions_asked) = permissions_asked
    BY <2>7, <2>8
  <2>10. Cardinality(S) <= permissions_asked
    BY <2>6, <2>8, <2>9, FS_Injection
  <2>11. IsFiniteSet(S)
    BY <2>6, <2>8, FS_Injection
  <2>12. Cardinality(S) \in Nat
    BY <2>11, FS_CardinalityType
  <2>13. permissions_asked >= Cardinality(S)
    BY <2>7, <2>10, <2>12
  <2> QED
    BY <2>1, <2>13 DEF PermissionBeforeAnswer, S, D
<1>2. LoopSpec => []IInv
  BY LoopIsConnection, Invariant
<1> QED
  BY <1>1, <1>2, LoopInvariant, PTL
=============================================================================
