----------------------------- MODULE AcpHandshake -----------------------------
(***************************************************************************)
(* The initialize exchange over an AcpConnection, and what the two sides   *)
(* may ask of each other after it.  The agent's handler is README.md's: it *)
(* negotiates with the version the client asked for, and a refusal is the  *)
(* exception negotiate_version throws, which the router makes an error     *)
(* reply.  The client may give a deadline to its initialize and may ask    *)
(* again at any time, for the same version or another.  Payloads are kept  *)
(* in tables, keyed by the id of the request that carries them.            *)
(*                                                                         *)
(* The code has no state for the outcome; `version` is what the comment    *)
(* above kMaxProtocolVersion has version-dependent code go by, "so v2 code *)
(* paths can key off the result": the last result granted, and the last    *)
(* one read.                                                               *)
(***************************************************************************)
EXTENDS Integers, AcpConnection, AcpProtocol

CONSTANTS
    Draft,       \* built with -DACP_ENABLE_V2_DRAFT=ON
    UsesCeiling, \* the agent offers kMaxProtocolVersion, not kProtocolVersion
    Offers,      \* the versions a client may write
    Advertised   \* Advertised[p]: the features in p's half of the exchange

kProtocolVersion == 1

kMaxProtocolVersion == IF Draft THEN 2 ELSE kProtocolVersion

\* What the agent's handler passes as `ours`.
Ours == IF UsesCeiling THEN kMaxProtocolVersion ELSE kProtocolVersion

ASSUME HandshakeAssumption ==
    /\ Draft \in BOOLEAN
    /\ UsesCeiling \in BOOLEAN
    /\ Offers \subseteq Int
    /\ Advertised \in [Peer -> SUBSET (ClientFeature \cup AgentFeature)]
    /\ "initialize" \in Method \cap On["agent"]

VARIABLES
    offered,   \* offered[i]: protocolVersion in initialize i, {} if left out
    granted,   \* granted[i]: protocolVersion in the result of initialize i
    version    \* version[p]: what p's code goes by, {} before there is a result

handVars == <<offered, granted, version>>

handshakeVars == <<vars, handVars>>

\* The version a written offer is decoded to: defaulted("protocolVersion").
Asked(o) == IF o = {} THEN kProtocolVersion ELSE CHOOSE v \in o : TRUE

HandshakeTypeOK ==
    /\ TypeOK
    /\ DOMAIN offered \subseteq 1 .. next["client"]
    /\ \A i \in DOMAIN offered : offered[i] = {} \/ \E v \in Offers : offered[i] = {v}
    /\ DOMAIN granted \subseteq DOMAIN offered
    /\ \A i \in DOMAIN granted : granted[i] \in 1 .. Ours
    /\ version \in [Peer -> {{}} \cup {{v} : v \in 1 .. Ours}]

HandshakeInit ==
    /\ Init
    /\ offered = << >>
    /\ granted = << >>
    /\ version = [p \in Peer |-> {}]

\* Table t with entry i added.
With(t, i, v) == [j \in DOMAIN t \cup {i} |-> IF j = i THEN v ELSE t[j]]

-----------------------------------------------------------------------------
(***************************************************************************)
(* Faulty variants of single operations, one for each way the properties   *)
(* could fail.  No specification uses them; each shows that a property     *)
(* notices the fault it is there for.                                      *)
(***************************************************************************)
\* Version 0 is accepted.
negotiate_from_zero(ours, theirs) ==
    LET agreed == IF ours < theirs THEN ours ELSE theirs
    IN  IF agreed < 0 THEN {} ELSE {agreed}

\* The agent insists on its own version.
negotiate_ours(ours, theirs) == IF theirs < 1 THEN {} ELSE {ours}

\* The client takes the version it asked for as agreed.
ReadOwnOffer(f, r) ==
    /\ r.method = "initialize"
    /\ ReceiveReply("client", f, r)
    /\ version' = IF f.kind = "result"
                  THEN [version EXCEPT !["client"] = {Asked(offered[f.id])}]
                  ELSE version
    /\ UNCHANGED <<offered, granted>>

-----------------------------------------------------------------------------
(***************************************************************************)
(* The exchange.                                                           *)
(***************************************************************************)
\* The version two peers agree on, {} for the exception.
negotiate_version(ours, theirs) ==
    LET agreed == IF ours < theirs THEN ours ELSE theirs
    IN  IF agreed < 1 THEN {} ELSE {agreed}

\* request<Initialize>(engine, p [, deadline])
Initialize(o, timed) ==
    /\ SendRequest("client", "initialize", timed)
    /\ offered' = With(offered, next'["client"], o)
    /\ UNCHANGED <<granted, version>>

\* on<Initialize>: r.protocolVersion = negotiate_version(ours, p.protocolVersion)
GrantVersion(f) ==
    LET agreed == negotiate_version(Ours, Asked(offered[f.id]))
    IN  /\ f.method = "initialize"
        /\ agreed # {}
        /\ ReceiveHandled("agent", f, "result")
        /\ \E v \in agreed : granted' = With(granted, f.id, v)
        /\ version' = [version EXCEPT !["agent"] = agreed]
        /\ UNCHANGED offered

\* The handler throws CapabilityError.
RefuseVersion(f) ==
    /\ f.method = "initialize"
    /\ negotiate_version(Ours, Asked(offered[f.id])) = {}
    /\ ReceiveHandled("agent", f, "error")
    /\ UNCHANGED handVars

\* The client's initialize completes: result<Initialize>, or an error.
ReadInitialize(f, r) ==
    /\ r.method = "initialize"
    /\ ReceiveReply("client", f, r)
    /\ version' = IF f.kind = "result"
                  THEN [version EXCEPT !["client"] = {granted[f.id]}]
                  ELSE version
    /\ UNCHANGED <<offered, granted>>

-----------------------------------------------------------------------------
(***************************************************************************)
(* After it: p calls what its namespace of the table has, and nothing in   *)
(* request<M> looks at what the other side advertised.                     *)
(***************************************************************************)
CallPeer(p, m) ==
    /\ version[p] # {}
    /\ m # "initialize"
    /\ SendRequest(p, m, FALSE)
    /\ UNCHANGED handVars

\* Every other frame, every deadline.
ReceiveOther(p, f) ==
    /\ \/ f.method # "initialize" /\ ReceiveHandled(p, f, "result")
       \/ ReceiveUnknown(p, f)
       \/ \E r \in pending[p] : r.method # "initialize" /\ ReceiveReply(p, f, r)
       \/ ReceiveLate(p, f)
    /\ UNCHANGED handVars

Late(p) ==
    /\ \E S \in SUBSET pending[p] : Expire(p, S)
    /\ UNCHANGED handVars

Take(p) ==
    /\ wire[p] # << >>
    /\ LET f == Head(wire[p])
       IN  \/ p = "agent" /\ (GrantVersion(f) \/ RefuseVersion(f))
           \/ p = "client" /\ \E r \in pending[p] : ReadInitialize(f, r)
           \/ ReceiveOther(p, f)

HandshakeNext ==
    \/ \E o \in {{}} \cup {{v} : v \in Offers}, timed \in BOOLEAN : Initialize(o, timed)
    \/ \E p \in Peer : \E m \in Callable(p) \cap Method : CallPeer(p, m)
    \/ \E p \in Peer : Take(p) \/ Late(p)

HandshakeSpec == HandshakeInit /\ [][HandshakeNext]_handshakeVars

-----------------------------------------------------------------------------
(***************************************************************************)
(* Properties.                                                             *)
(***************************************************************************)
\* The versions both the agent and a client that asked for v can speak.
Common(v) == {n \in 1 .. Ours : n <= v}

\* An initialize that was answered got the highest version both sides speak,
\* or a refusal if there is none; a client that leaves the version out lands
\* on version 1 whatever the agent's ceiling is (caps.hpp:34-48,
\* tests/version_smoke.cpp:41-47).
BestCommonVersion ==
    \A d \in done["client"] : d.req.method = "initialize" /\ d.outcome \in Reply =>
        LET i == d.req.id
            common == Common(Asked(offered[i]))
        IN  /\ d.outcome = "error" <=> common = {}
            /\ d.outcome = "result" =>
                   /\ i \in DOMAIN granted
                   /\ granted[i] \in common
                   /\ \A n \in common : n <= granted[i]

\* d is the answer to the last initialize the client made.
LastInitialize(d) ==
    /\ d.req.method = "initialize"
    /\ \A r \in Issued("client") : r.method = "initialize" => r.id <= d.req.id

\* When the client's last initialize was answered with a version, both sides
\* go by the same one, although earlier offers may have timed out, been
\* granted all the same and been answered too late (caps.hpp:46-48).
SameVersion ==
    \A d \in done["client"] : LastInitialize(d) /\ d.outcome = "result" =>
        version["client"] = version["agent"] /\ version["client"] # {}

\* caps.hpp:25-27 says that CapabilityError is "thrown locally when a caller
\* invokes a method whose capability the peer did not advertise at initialize":
\* no call that needs such a capability is ever on its way to the peer.
OnlyAdvertised ==
    \A p \in Peer : \A k \in DOMAIN wire[p] :
        wire[p][k].kind = "call" => Needs(wire[p][k].method) \subseteq Advertised[p]

-----------------------------------------------------------------------------
(***************************************************************************)
(* The inductive invariant behind BestCommonVersion and SameVersion.       *)
(***************************************************************************)
\* f is a frame of the given kind about initialize.
OfInitialize(f, kind) == f.kind = kind /\ f.method = "initialize"

\* The table of offers has a row for each initialize, pending or not.
AskedInv ==
    /\ \A r \in Issued("client") : r.method = "initialize" => r.id \in DOMAIN offered
    /\ \A i \in DOMAIN offered :
           \E r \in Issued("client") : r.id = i /\ r.method = "initialize"

\* i was granted what the rule says, or was refused by it.
Granted(i) == i \in DOMAIN granted

Refused(i) == negotiate_version(Ours, Asked(offered[i])) = {}

GrantsInv ==
    /\ \A i \in DOMAIN granted :
           negotiate_version(Ours, Asked(offered[i])) = {granted[i]}
    /\ \A k \in DOMAIN wire["client"] :
           LET f == wire["client"][k]
           IN  /\ OfInitialize(f, "result") => Granted(f.id)
               /\ OfInitialize(f, "error") => Refused(f.id)
    /\ \A d \in done["client"] : d.req.method = "initialize" =>
           /\ d.outcome = "result" => Granted(d.req.id)
           /\ d.outcome = "error" => Refused(d.req.id)

\* The frames of that kind in stream s carry ascending ids, all above those
\* in S.
Ascending(s, kind, S) ==
    \A k \in DOMAIN s : OfInitialize(s[k], kind) =>
        /\ \A i \in S : i < s[k].id
        /\ \A j \in DOMAIN s : j < k /\ OfInitialize(s[j], kind) => s[j].id < s[k].id

\* The initialize requests whose result the client has read.
ReadGrants ==
    {d.req.id : d \in {e \in done["client"] :
                          e.req.method = "initialize" /\ e.outcome = "result"}}

\* Offers are decided, and results read, in the order they were made; each
\* side goes by the last.
OrderInv ==
    /\ Ascending(wire["agent"], "call", DOMAIN granted)
    /\ Ascending(wire["client"], "result", ReadGrants)
    /\ \A i \in DOMAIN granted :
           (\A j \in DOMAIN granted : j <= i) => version["agent"] = {granted[i]}
    /\ \A i \in ReadGrants :
           (\A j \in ReadGrants : j <= i) => version["client"] = {granted[i]}

HandshakeInv == HandshakeTypeOK /\ AskedInv /\ GrantsInv /\ OrderInv
=============================================================================
