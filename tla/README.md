# A verification of acp-cpp

TLA+ models of acp-cpp, the Agent Client Protocol as C++ types on jsonrpc-cpp,
with TLC runs on small instances and TLAPS proofs for all of them.

acp-cpp is a passive header-only library: no threads, transports or clocks. It
has two halves, and so has this project.

* **The exchange.** A host drives one `Engine` per connection and dispatches
  with a `Router` (README.md:106-138, `tests/protocol_loopback.cpp`). What can
  go wrong is the order of things: replies, deferred calls, deadlines, updates
  and the end of the stream, of two sides that share a pair of streams.
* **The wire forms.** About a hundred C++ types with codecs, most declared as
  tables, some written by hand. What can go wrong is that two values share a
  wire form, or that a peer of another version writes one this code misreads.

## Inventory

| Component | State | Operations | Interacts with |
|---|---|---|---|
| Host, engine, router (`protocol.hpp` re-exports; `deliver`, the README loop) | ids handed out, pending requests with deadlines, deferred calls, the two streams | `request<M>`, `notify<N>`, `reply<M>`, `step(Received / Tick / Closed / Cancel)`, `Router::handle` | the other side, by frames |
| Loopback hosts (`tests/protocol_loopback.cpp`) | `sessions`, `prompt_call`, `updates`, `permissions_asked` | handlers of initialize, session/new, session/prompt, session/request_permission, session/update | the engine, by `Effects` |
| Codec algebra (`core.hpp`, `codec.hpp`, `ids.hpp`) | none | `record`, `sum_tagged`, `enum_codec`, fields | every type below |
| Content, tools, session types, updates, capabilities, method payloads | none | `to_json`, `from_json` of each type | each other, by nesting |
| Version negotiation and capabilities (`caps.hpp:29-63`) | none of its own; both sides go by the last result | `negotiate_version` in the handler of initialize | initialize, and every call after it |
| Method table (`protocol.hpp:33-76`) | none | names, directions and payload types | engine and router |
| Cancelling (`protocol.hpp:49, 65-68`, `methods.hpp:72-96, 309-319`) | the calls a host owes, and which of them it was told to stop | `session/cancel`, `$/cancel_request` | deferred calls, deadlines, replies |
| The view of a session (`tools.hpp`, `updates.hpp`, `methods.hpp:322-336, 375-387`) | tool calls, mode and compaction, once at the agent and once at the client | announcements, deltas, replacements, `session/set_mode` | updates, permission requests, the codecs |
| Build, version header, CI | none | | |

What is hard here:

* a deferred `session/prompt` is open while the agent streams updates and asks
  the client for permission, so requests run in both directions at once, under
  ids that both sides number from the same start;
* a reply carries only an id, its type is what the requester believes it to be;
* a deadline races the reply, and the end of the stream races both;
* the streams are the only thing that orders updates and results;
* an initialize that timed out may still be granted, and both sides go by the
  result;
* a cancel is a notification that names an id of the *sender's* engine, or a
  session and not a turn, and races the reply it wants to prevent;
* an update is a delta on what its reader has, and updates and replies carry
  parts of one state through different handlers, with permission requests, which
  are decided on what has been shown by then, in between;
* sums without a tag, fields whose key depends on another field, absence, null
  and default, and `_meta`, which each struct handles for itself.

What makes each component correct:

* connection: every request completes once, with a result of its own method, in
  its place among the notifications; nothing is lost while both sides run,
  nothing is said after the end;
* loopback: a turn is seen whole, permission is settled before the turn ends,
  the deferred call that is answered is the one that is owed;
* handshake: an answered initialize got the best version both sides speak or a
  refusal, and both sides end on the same version;
* cancelling: a cancel finds what it was meant for, all of it and nothing else;
* session view: after each frame the client has the session as the agent had it
  when it wrote that frame;
* codecs: encode then decode is the identity up to what the wire form leaves
  out; unknown members change nothing; required ones are required; one hop
  makes any accepted form canonical; metadata survives.

## Modules

| Module | Models | Notes |
|---|---|---|
| `AcpConnection` | both hosts with their engines, routers and streams | one action per call the host makes and per kind of frame it takes; the properties of the exchange |
| `RpcContract` | nothing of the code: what an engine promises its host | the abstract specification, no streams or frames |
| `AcpConnectionInv` | | the inductive invariant, and the refinement mapping to `RpcContract` |
| `AcpConnectionProofs`, `AcpConnectionRefinement` | | the theorems |
| `AcpLoopback` | the two hosts of `protocol_loopback.cpp` | extends `AcpConnection`: each action is one of its actions with the handler's own effect |
| `AcpLoopbackInv`, `AcpLoopbackProofs` | | the inductive invariant of the loopback, and its theorems |
| `AcpProtocol` | the method table, and the features of the capability structs | constant operators only |
| `AcpHandshake`, `AcpHandshakeProofs` | initialize and the version, then any call of the table | extends `AcpConnection` and `AcpProtocol` |
| `AcpCancel`, `AcpCancelProofs` | `session/cancel` and `$/cancel_request` around turns and permission requests | extends `AcpConnection` |
| `AcpSessionView` | the agent's session and the client's view of it | composes `AcpConnection` with the codecs, `ToJson` and `FromJson`: every payload is encoded and decoded on its way |
| `AcpSessionViewInv`, `AcpSessionViewProofs` | | the inductive invariant of the session view, and its theorems |
| `AcpMirror` | nothing of the code: what a streaming channel promises its viewer | the abstract specification of `AcpSessionView` |
| `JsonCodec` | JSON values and the vocabulary of codec declarations | external: jsonrpc-cpp and nlohmann/json |
| `AcpRecord` | one level of `record<T>`, `list_codec` and `sum_tagged<T>`, given the codecs of the members | external: jsonrpc-cpp, from its use here |
| `AcpHandCodec` | the codecs written by hand | a decode is a set, {} where the code throws |
| `AcpSchema`, `AcpMethods` | every type's codec declaration | one table per section of a header, one row per type |
| `AcpCodec` | `to_json` and `from_json` of every type | the row of the schema decides; members are left to `ToJson` and `FromJson` |
| `AcpValues` | the values of a type that its wire form can say, and what the codecs rely on in the declarations | |
| `AcpCodecProofs` | | theorems about one level of the codecs |
| `AcpRelay` | a value encoded here, changed by a peer, decoded and passed on | the properties of the codecs |
| `AcpRelayProofs` | | theorems about all types together, and about the relay |
| `MCConnection`, `MCLoopback`, `MCHandshake`, `MCCancel`, `MCSessionView`, `MCRelay` | | constants for TLC |

### How state and actions correspond to the code

In `AcpConnection`, `next` and `pending` are the engine's, `owed` is what a host
keeps of a deferred call (`agent.prompt_call`), `wire` the two deques, `done`
every `Completed` ever returned. `said`, `heard` and a frame's `sent` are
history: they count notifications, so that a completion can be placed among
them. `SendRequest`, `SendNotice` and `Answer` are the host's calls of
`request<M>`, `notify<N>` and `reply<M>` with the write that follows. The
`Receive...` actions are one turn of the loop in `deliver`: `step(Received)`,
`router.handle` and the writes, in one step, as that loop runs them; the test
empties a stream before the other side moves, here the sides interleave frame by
frame. `Expire` and `StreamEnd` are `step(Tick)` and `step(Closed)`. Which
methods a side answers at once, defers, or does not know are constants. A
payload is its method, which is what fixes the C++ type on both ends.

Engine and router are jsonrpc-cpp's and not in this repository. They are
modelled as `protocol.hpp`, the README and the tests use them: ids in order, a
reply matched by id among pending requests, a reply that matches nothing
dropped, MethodNotFound for a call nobody registered.

`AcpLoopback` keeps the fields of `struct Agent` and `struct Client` by name.
`created`, `prompts`, `asks` and `told` are the payloads that the script reads:
which session a request named, and for which turn an update was sent. A
`sessionId` is the number in `"s" + to_string(++sessions)`.

`AcpHandshake` keeps the payloads of initialize by request id: `offered`, {}
where the client leaves `protocolVersion` out, and `granted`. The agent's handler
is README.md:117-121, a refusal is the exception that `negotiate_version` throws
and the router turns into an error. `Draft` is `ACP_ENABLE_V2_DRAFT` and
`UsesCeiling` says which of the two constants the handler passes. `version` is
not a field of the code: it is what caps.hpp:46-48 has version-dependent code go
by, the last result granted and the last one read. What the other side advertised
restricts no action, because nothing in `request<M>` looks at it.

`AcpCancel` keeps what each notification names (`named`), an id or a session, and
which calls of its own a host was told to stop (`marked`). `covers` is history:
the requests the sender meant. The repository has the two messages and says what
they ask for (protocol.hpp:65-68, methods.hpp:72-76); the handlers are a host's
and external here. They are assumed to find the calls they owe that are meant,
and to mark them, no more. Whether a mark makes a host stop, what it answers, and
whether an agent withdraws what a cancelled turn had asked for, is in nobody's
code here: any owed call may be answered at any moment, marked or not. A client
may have several turns of a session open, since nothing in the repository keeps
it from that.

In `AcpSessionView`, `own` is the session as the agent has it and `view` as the
client has it; the payloads of updates lie in a table as what their reader will
decode, that is, after both codecs of their type. `Apply` has one case for each
arm that changes something for its reader, and is the comments of
tools.hpp:172-175 and updates.hpp:71-73 on the decoded members. The handler of a
permission request is the test's (protocol_loopback.cpp:50-55): it reads the
options and never `toolCall`, and the agent's request says nothing new of the
call, so the view stays as it is. The agent's handler of `session/set_mode` is a
host's and external. The codecs are the constants
`ToJson` and `FromJson`; the runs give them `Encode` and `Decode` of `AcpCodec`.
`known` is the client's capabilities as the agent read them. `trail`, `taken` and
`stale` are history: the states the agent announced, and how far the client has
got.

The C++ overloads of `to_json` and `from_json` call each other. `ToJson` and
`FromJson` are constants for that reason: `Encode` and `Decode` of `AcpCodec` are
one overload set each and leave members to them, and what ties the knot,
`ToJson` is `Encode` again, is a recursive definition in the MC modules and the
hypothesis `Codecs` of the proofs.

In the codec modules, `Schema["T"]` is the declaration of `CodecOf<T>` row by
row; `Own` and `Choice` rows have their functions in `AcpHandCodec`, statement for
statement, without the texts of the exceptions. `OmitsDefaults` stands for the
one thing this repository does not fix about the kernel: whether a defaulted
member that has its default is written. Both readings are checked.

Each module that a fault could be in has faulty variants of single operations
beside it. No specification uses them; they are the operators that the entries
under "mutants" in PROJECT.json swap in to show that a property notices.

## Runs

| Run | Configuration | States | Shows |
|---|---|---|---|
| `connection` | two client requests and one of the agent, any method and deadline; one update; either side may leave | 1.2 M | `TypeOK`, `CompletedOnce`, `ReplyTyping`, `AnsweredOnce`, `NoLostRequest`, `StreamOrder`, `SilentAfterClose`, and `IInv`, the invariant of the proofs |
| `connection_live` | the same without updates | 238 k | the streams implement `RpcContract`; `Ended`; with hosts that read and answer, every request completes |
| `connection_clock` | one request of each side | | with a deadline it completes even if nobody answers |
| `loopback` | six client requests, four permissions, four updates | 11,873 | the test's checks, for every interleaving, over several sessions and turns; `LoopInv`; every turn ends |
| `handshake` | three initialize requests with offers from -1 to 3 or none, a draft build; one call of the agent | 234,711 | `BestCommonVersion`, `SameVersion`, and `HandshakeInv` |
| `handshake_gates` | the same | | fails, as it should: see below |
| `cancel` | two turns, one permission request, two cancels of the client and one of the agent, two sessions | 1.2 M | `CancelHitsItsTarget`, `CancelMissesNothing`, and `CancelInv` |
| `session_view` | three updates, a permission request and a set_mode; clients with every pair of capabilities | 704,482 | `ViewInStep`, `OnlyRendered`, and `ViewInv`; the client implements `AcpMirror` |
| `relay` | samples of every type, one edit by the peer | 37 k | round trip, unknown members, absence and null, required members, canonical form, metadata |
| `relay_terse` | the same, defaults left out of the wire | 35 k | round trip and canonical form under the other reading of `defaulted` |
| `relay_meta` | the same | | fails, as it should: see below |

Deadlock is not checked: a connection whose hosts have nothing to do, or have
gone, really stops, as does a relayed value.

**Bounds.** `MaxRequests` and `MaxNotices` cap how often a host begins
something; nothing else is bounded. Two client requests and one of the agent are
the least with two calls deferred at once, with a reply crossing a request of
the other side under the same id, and with a late reply to one request while
another is pending. One update suffices for its order against replies; the
proofs remove the bound. In the loopback, six requests allow one session with
four turns or two sessions with three, so a slot and a session are reused. In
the handshake, three offers are the least with a late grant before and a late
grant after the one that counts, and -1 .. 3 lies on both sides of 1 and of the
draft ceiling 2. In `cancel`, the one permission request has the id of the first
turn; two sessions with one turn each, and one session with two turns, in a row
or at once, all occur. The two sessions are interchangeable, and the run has no
liveness property, so it uses their symmetry. In the session view, three updates
are the least for a compaction that starts, is streamed and is replaced; a tool
call has two changes, which can be made in either order and with the permission
request before, between or after them; the second takes its name away. In the relay, a record is sampled by its least and full values and those that differ
from the least in one member, sums by every arm, hand-written structs by every
combination; one edit suffices because each member is decoded on its own, except
in the hand-written codecs, whose combinations are all samples.

**Fairness.** `FairSpec` assumes of each host that it goes on reading, answers
what it deferred and reports the end of the stream, which is the README's loop
and the meaning of `defer`. Nothing makes a host send, expire or leave.
`ClockSpec` drops the answering and adds README.md:133, the clock. `FairLoopSpec`
assumes that the script's `deliver` calls are made and that the agent does not
stop inside a turn; updates are never owed. `FairViewSpec` assumes only that the
client keeps reading. Of cancelling no liveness is stated: nothing in the
repository says that a host which is told to stop a call answers it.

**What the runs found.** README.md:190 lists "`_meta` on every type". The three
message chunks, usage updates, MCP servers, capability structs and a few more
have no `_meta` member, so a peer's metadata on them is dropped on decode;
`relay_meta` shows it on a chunk. README.md:194 makes the weaker claim, on each
type that defines it, and `MetaForwarded` shows that this one holds.

caps.hpp:25-27 says that CapabilityError is "thrown locally when a caller invokes
a method whose capability the peer did not advertise". The only place that throws
it is `negotiate_version`; `request<M>` takes no capabilities, so such a call goes
out on the stream. `handshake_gates` shows one.

`Agent::prompt_call` (protocol_loopback.cpp:25, 125) is one slot, filled by each
prompt and never cleared. The host of `AcpConnection` keeps a set of what it owes,
and `NoLostRequest` is about that host; with the test's slot in its place
(`DeferInOneSlot`, the mutant) two open prompts lose the first. The test's own
script never has two open, and `SlotNamesDebt` shows that then the slot is right.

An update cannot take back the name or a raw value of a tool call: Nothing means
unchanged (tools.hpp:172-173) and is not written, so the client goes on showing
the old one. `ViewInStep` allows for this, and for nothing else (`Shows`).

A client that gives its `session/set_mode` a deadline may go on showing the old
mode: the late reply is dropped, and no update need follow. `ViewInStep` allows
for this, too (`stale`).

Three facts about the codecs that the properties state as they are, in `Same`:
a grouped select without groups is written as an empty list and read as an
ungrouped one; a `Maybe<Json>` that holds null is read as nothing; `args` and
`env` of a login that is not a terminal login are read but never written.

## Proofs

For any methods, registrations and bounds that satisfy `ConnectionAssumption`
(methods and notifications are disjoint, no method is both answered at once and
deferred):

| Theorem | Property |
|---|---|
| `TypeCorrect` | `TypeOK` |
| `Invariant` | `IInv` |
| `CompletionsAreUnique` | `CompletedOnce` |
| `RepliesAreTyped` | `ReplyTyping` |
| `AnswersAreUnique` | `AnsweredOnce` |
| `RequestsAreFound` | `NoLostRequest` |
| `RepliesKeepTheirPlace` | `StreamOrder` |
| `EndIsReached`, `CloseIsFinal` | `Ended`, `SilentAfterClose` |
| `ConnectionKeepsContract` | `KeepsContract` |
| `HandshakeInvariant`, `HandshakeTypeCorrect` | `HandshakeInv`, `HandshakeTypeOK` |
| `BestVersionIsGranted`, `VersionsAgree` | `BestCommonVersion`, `SameVersion` |
| `CancelInvariant`, `CancelTypeCorrect` | `CancelInv`, `CancelTypeOK` |
| `CancelsHitTheirTarget`, `CancelsMissNothing` | `CancelHitsItsTarget`, `CancelMissesNothing` |
| `LoopInvariant`, `LoopTypeCorrect` | `LoopInv`, `LoopTypeOK` |
| `TurnsAreWhole`, `PermissionsComeFirst` | `TurnIsWhole`, `PermissionBeforeAnswer` |
| `SlotNamesTheDebt`, `SessionsAreDistinct`, `QuietBetweenRequests` | `SlotNamesDebt`, `SessionsDistinct`, `QuiescentBetweenRequests` |
| `ViewInvariant`, `ViewTypeCorrect` | `ViewInv`, `ViewTypeOK` |
| `ViewKeepsStep`, `OnlyRenderedIsTold` | `ViewInStep`, `OnlyRendered` |
| `ClientMirrorsSession` | `Mirrors`, its initial states and its steps |

The modules above the connection add assumptions of their own, each named in its
module: `HandshakeAssumption` (the agent's router knows initialize),
`CancelAssumption` and `LoopAssumption` (which methods and routers there are; the
number of requests, sessions, turns and updates stays free), and the three of
`AcpSessionView` described below.

None of the safety properties is inductive. That a reply is decoded as its
request's type needs the type of everything that may still become that reply: a
call on the way, a debt, a frame on the way back (`NamesInv`). That these never
coexist needs that no id has two traces, of one sort (`UniqueInv`) or two
(`ApartInv`), nor any after its reply was read (`SpentInv`). That none is lost
is `FoundInv`. The order against notifications is an account: along a stream the
stamps of the frames count the notifications before them, from what the reader
has heard to what the writer has said (`StampInv`); a reply at the head of the
stream then has the reader's own count.

The proof has one lemma per action. Each uses one of a few lemmas on what a step
does to the traces of one peer's requests: one is issued, moved from the stream
to the debts, answered, consumed, or none changes (`IssueTraces`,
`DeferTraces`, `HandleTraces`, `AnswerTraces`, `ConsumeTraces`, `KeepTraces`),
and of two on streams (`AppendStamp`, `DropStamp`), which rest on what `Append`
and `Tail` do to positions. `SilentAfterClose` and the refinement rest on
`Ended`, which is inductive with `TypeOK`: at the end of its stream a host is
alone, its timers find nothing pending, and all it can do is leave. In the refinement, sending is
`Issue`, a matched reply `Reply`, `Expire` `TimeOut`, `StreamEnd` `End`, and all
the rest stutters; that a reply settles with the right type is `NamesInv` again,
that an id is new is `IdsInv`.

**What extends the connection.** Handshake, cancelling, loopback and session view
each start by showing that every step of theirs is a step of the connection
(`HandshakeIsConnection`, `CancelIsConnection`, `LoopIsConnection`,
`SessionIsConnection`). So `IInv`
holds of them for nothing, and their own invariants speak of payloads only.

*Handshake.* That both sides end on one version is a matter of order: `AskedInv`
ties the table of offers to the requests, `GrantsInv` says that every result and
every refusal, read or on its way, is what the rule gives for its offer, and
`OrderInv` that calls arrive, and results are read, in the order of their ids, so
that each side goes by the last one. When the last initialize is answered, its
grant is the last of both.

*Cancelling.* A cancel may name an id the other engine uses, too, or a session
whose turns have changed since. Where a cancel stands in its stream decides both
properties. `NamedInv` says that a cancel on its way names what it was meant for,
and `TurnsInv` that a session/cancel was meant for every turn of its session the
agent will know when it gets there: so it hits nothing else. `BehindInv` says
that it is behind every call it is meant for: so when it is read each of these is
owed or was answered, and it misses none. The proof has one lemma per action, and
`KeepStops`, `KeepBehind` and `AppendBehind` say what a step may do to the
streams and debts without harm.

*Loopback.* The two hosts take turns. `PhaseInv` says that the one request the
client waits on is on its way, worked on, waiting for a permission, waiting for
the decision, or answered, and for each of the five where every frame is: at most
one frame besides updates exists, and it is the last of its stream. `PromptsInv`,
`CreatedInv` and `ToldInv` tie the tables to it; in `ToldInv`, an update that is
not yet collected is of the turn the client waits for. That everything was heard
when nothing is left unread is the account of `StampInv` again.

*Session view.* The view must be the agent's session as it was at a frame the
client has just read, and what comes next is a delta. `FramesInv` says of every
frame on its way to the client, with the payload in its table, that it takes the
session from one state of the trail to the next (`Leads`); so the state the client
has read up to can be followed to the one the agent is in. `TablesInv` ties the
length of the trail to the stream, `StreamInv` says that what was streamed of a
summary is its first chunks. What a frame leads to is known up to `Follows` only,
since a delta cannot take back a `Maybe`. The lemmas that make this inductive are
`DeltaFollows`, that a delta brings the old state to one that follows the new one,
`ApplyFollows`, that an update brings a view that follows a state to one that
follows the next, and `FollowsOn`, that this adds up; that a late reply may leave
the mode behind (`stale`) decides nothing else. `CallAssumption` says that a tool
call keeps its id and metadata, and that a mixture of two of its states is one,
which is what a client shows that kept a name the agent has dropped. `Shown`, the
mirror's view of it, is the client's view without what was taken back.
`OnlyRendered` rests on the round trip of the hand-written codec that carries
what the client offers. The codecs of the updates are constants; what is assumed
of them, that the updates the agent writes come back as they were, is
`PayloadAssumption`, which TLC evaluates with the real ones.

**Codecs, one level.** About one level of a type, whatever its members and
their codecs (`AcpCodecProofs`):

| Theorem | Says |
|---|---|
| `RecordRoundTrip` | `record<T>` returns what it was given, defaults written or not; a member that is optional must not encode to null |
| `AbsenceIsDefault`, `RequiredIsNeeded` | what a member that is left out, null, or does not decode makes of the struct |
| `UnknownMembersAreIgnored` | a member it was not told of changes nothing |
| `ListRoundTrip`, `TaggedRoundTrip` | lists and sums with a tag return what they were given |
| `SessionCapabilitiesRoundTrip`, `ClientMembersRoundTrip`, `McpServerRoundTrip`, `AuthMethodRoundTrip`, `ConfigOptionRoundTrip` | the hand-written codecs, for every value they have |
| `AuthMethodIgnoresUnknown`, `SessionCapabilitiesIgnoreUnknown` | the hand-written codecs and unknown members, for every JSON |

**Codecs, all types together.** For every table of types that is declared as
ACP's is (`AcpRelayProofs`):

| Theorem | Property |
|---|---|
| `EveryValueRoundTrips` | decoding what was encoded gives the value back, at any depth of nesting |
| `CanonicalReads` | the same of a value that its wire form cannot say in full: it comes back canonical |
| `RelayRoundTrip` | `RoundTrip` |
| `RelayIgnoresUnknown` | `UnknownMembersIgnored` |
| `RelayAbsence` | `AbsenceMeansDefault` |
| `RelayMeta` | `MetaForwarded` |
| `RelayRequired` | `RequiredEnforced` |
| `RelayStable` | `StableAfterOneHop` |

The hypothesis of all of them is `Codecs`: for every declared type, `ToJson` is
`Encode`, `FromJson` is `Decode` and `IsValue` is `HasType`. No type is a part of
itself, so the three equations define these functions by recursion on the
nesting; the relay runs give the constants exactly the functions so defined, and
`AcpValues` names the rest. `SchemaAssumption` says how rows may look, among
others that keys of a struct are distinct, that a tag is no member of its arm,
that the members which tell the arms of a hand-written sum apart are required
in one and absent in the other, that a required member has no type whose decoder
takes any JSON, and that a default is a value of its member's type. `DepthAssumption` gives each type a number above those
of its parts. `RelayAssumption` says that the samples are values. TLC evaluates
all three on the real table. The proofs never look at the table: adding a type
or a member to ACP changes none of them as long as the rows keep to the rules,
and a row that does not is found by TLC.

The round trip goes by well-founded induction over `Depth`: one case per kind of
type, each of which is a theorem on one level with the induction hypothesis for
its members. What is left of a value is `Canonical`. What the theorems leave out
of the round trip is what the code leaves out: the arguments of a login without a
terminal (caps.hpp:264-271), the value of a config option that its type does not
have (session_types.hpp:235-250).

The invariant of the relay is `RelayInv`. The properties speak of what was
decoded, and the peer's changes come one at a time, so it says of the wire form
at each moment that it is the library's own except at the edited keys, and what
it shows at each of those (`IsEdited`); and of what was decoded, that it is what
some such form decodes to (`GotInv`), since after `Forward` the form itself is
gone.

*Absence and unknown members.* Changes that only add unknown members, or leave
out or null what may be, make a form an abridged one (`EditsAbridge`): each
member is kept as it was or trimmed. A struct reads an abridged form as its value
with the trimmed members reset (`IsReset`), level by level; a sum picks the same
arm, because what its decoder looks at is a tag or a required member, which is
never trimmed. `TypeLeftOut` puts both together.

*Metadata.* Of each kind of type, what is decoded from any object has the
object's `_meta`, if the type has that member, and encodes it again unless it is
empty (`TypeMeta`, `SumMeta`). That the decoded value is of the arm that was
encoded, whatever else was changed, is `ArmStays`: a form with one required
member wrong may be refused, but is not taken for another arm.

*Required members.* JSON of another kind than a type is written as is refused by
that type's decoder (`MisshapenIsRefused`), which is why a required member may
not have a lax type (`IsLax`). So a form that is `Short` of a member, one that
is gone or is misshapen, is refused by every struct (`TypeDemands`,
`ConfigOptionDemands`); by a sum because the arm stays (`SumDemands`); and so is
a form without a known tag (`TagDemanded`).

*One hop.* A form that is not refused is, member by member, as the library wrote
it, without the member, or with other metadata (`Tolerated`, `EditsTolerated`).
Records, sums and hand-written structs decode such a form to a value again
(`StructStays`, `SumStays`, `TypeStays`), where a member that is gone has its
default. A value is its own canonical form (`CanonicalOfValue`), so `CanonicalReads`
says that the next hop changes nothing. The exception is a login: its decoder
keeps arguments that its type makes meaningless, and its encoder drops them
(`AuthMethodStays`).

Only model-checked:

* liveness: `EveryRequestCompletes`, `TimedRequestCompletes`, `TurnEnds`,
  and the fairness part of `Mirrors`, whose steps are
  `ClientMirrorsSession`. Liveness under fairness is not in the prover's reach.
* what the runs with an expected violation refute.

## Not modelled

* The engine's `Cancel` event: protocol.hpp re-exports it, and nothing in this
  repository says what it does or uses it. What a host sends to cancel is
  modelled in `AcpCancel`.
* What a host does when it is told to cancel, and the answers "cancelled"
  (tools.hpp:278, methods.hpp:274-284) beyond their wire forms: both are a host's.
* What a client makes of `RequestPermissionParams.toolCall`, beyond its wire form:
  the one handler in the repository does not read it.
* Raw requests and notifications: the same exchange under any other name.
* Boolean config options for clients that offered them: the code has no operation
  the rule (caps.hpp:80-82) would restrict. The wire forms are modelled.
* What a host does with terminals, files and elicitations: the repository has
  their payloads and names only, which are modelled.
* Exception texts, the umbrella header, the build and CI: no behaviour.
