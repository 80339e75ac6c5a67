-------------------------- MODULE DiscoveryProofs --------------------------
(***************************************************************************)
(* Proofs about Discovery, for any machines, servers, tools and datagrams  *)
(* of other programs.                                                      *)
(***************************************************************************)
EXTENDS Discovery, TLAPS

-----------------------------------------------------------------------------
(* Type correctness.                                                       *)

Command == [pc : {"ready", "listening", "resolved", "done", "raised"},
            host : Address \cup {None}, port : Port \cup {None},
            from : Server \cup {None}, reached : Server \cup {None}]

LEMMA FreshTyped == Fresh \in Command
BY DEF Fresh, Command

\* The endpoint a tool settles for.
HostOf(host) == IF host # None THEN host ELSE Loopback

PortOf(t, port) == IF t.port # None THEN t.port ELSE IF port # None THEN port ELSE DefaultPort

Settled(t, host, port, from) ==
    [pc |-> "resolved", host |-> HostOf(host), port |-> PortOf(t, port), from |-> from,
     reached |-> None]

LEMMA ResolveSettles ==
    ASSUME NEW t \in Tool, NEW host \in Address \cup {None}, NEW port \in Port \cup {None},
           NEW from \in Server \cup {None}
    PROVE  /\ Settled(t, host, port, from) \in Command
           /\ HostOf(host) \in Address /\ PortOf(t, port) \in Port
           /\ Resolve(t, host, port, from) <=>
                tool' = [tool EXCEPT ![t] = Settled(t, host, port, from)]
PROOF
<1>1. HostOf(host) \in Address
  BY DEF HostOf, Address
<1>2. PortOf(t, port) \in Port
  BY DiscoveryAssumption DEF PortOf
<1>3. Settled(t, host, port, from) \in Command
  BY <1>1, <1>2 DEF Settled, Command
<1>4. Resolve(t, host, port, from) <=>
        tool' = [tool EXCEPT ![t] = Settled(t, host, port, from)]
  BY DEF Resolve, Settled, HostOf, PortOf
<1> QED
  BY <1>1, <1>2, <1>3, <1>4

LEMMA AdvertisedKnown ==
    ASSUME NEW s \in Server
    PROVE  AdvertisedHosts(s) \subseteq Address /\ s.port \in Port
BY DiscoveryAssumption DEF AdvertisedHosts, Address

\* The shape of a tool's steps: one tool becomes new.
Becomes(t, new) == tool' = [tool EXCEPT ![t] = new]

LEMMA BecomesTyped ==
    ASSUME TypeOK, NEW t \in Tool, NEW new \in Command, Becomes(t, new),
           new.pc \in {"resolved", "done"} => new.host \in Address /\ new.port \in Port
    PROVE  /\ tool' \in [Tool -> Command] /\ tool'[t] = new
           /\ \A u \in Tool : u # t => tool'[u] = tool[u]
           /\ \A u \in Tool : tool'[u].pc \in {"resolved", "done"} =>
                                tool'[u].host \in Address /\ tool'[u].port \in Port
PROOF
<1>1. tool \in [Tool -> Command]
  BY DEF TypeOK, Command
<1>2. \A u \in Tool : tool[u].pc \in {"resolved", "done"} =>
                        tool[u].host \in Address /\ tool[u].port \in Port
  BY DEF TypeOK
<1> HIDE DEF Command, TypeOK
<1>3. tool' \in [Tool -> Command] /\ tool'[t] = new
      /\ \A u \in Tool : u # t => tool'[u] = tool[u]
  BY <1>1 DEF Becomes
<1> QED
  BY <1>2, <1>3

-----------------------------------------------------------------------------
(* The inductive invariant: an endpoint travels unchanged from the server  *)
(* that answers to the tool that settles for it, and no two servers that   *)
(* serve have bound the same port.                                         *)

AnswersTold ==
    \A d \in replies : d.kind = "endpoint" =>
        d.from \in Server /\ d.host \in AdvertisedHosts(d.from) /\ d.port = d.from.port

\* A tool that was answered and was given no port has the endpoint of its answer; it
\* has no connection yet unless it is done.
Follows(t, r) ==
    /\ r.from # None =>
          /\ r.pc \in {"resolved", "done"}
          /\ t.port = None => r.host \in AdvertisedHosts(r.from) /\ r.port = r.from.port
    /\ r.pc # "done" => r.reached = None

ToolsFollow == \A t \in Tool : Follows(t, tool[t])

PortsExclusive ==
    \A s, u \in Server : s # u /\ up[s] = "serving" /\ up[u] = "serving" => ~Clash(s, u)

IInv == TypeOK /\ AnswersTold /\ ToolsFollow /\ PortsExclusive

LEMMA BoundKnown == MaxForeign \in Nat
BY DiscoveryAssumption

LEMMA InitIInv == Init => IInv
PROOF
<1> SUFFICES ASSUME Init PROVE IInv
  OBVIOUS
<1>1. tool \in [Tool -> Command] /\ \A t \in Tool : tool[t] = Fresh
  BY FreshTyped DEF Init
<1>2. TypeOK
  <2>1. \A t \in Tool : tool[t].pc \notin {"resolved", "done"}
    BY <1>1 DEF Fresh
  <2>2. foreign \in 0..MaxForeign
    BY BoundKnown DEF Init
  <2> QED
    BY <1>1, <2>1, <2>2 DEF Init, TypeOK, Command
<1>3. AnswersTold /\ ToolsFollow /\ PortsExclusive
  BY <1>1 DEF Init, AnswersTold, ToolsFollow, Follows, Fresh, PortsExclusive
<1> QED
  BY <1>2, <1>3 DEF IInv

\* A step of one tool, which takes datagrams away and may ask.
LEMMA ToolStepKeeps ==
    ASSUME IInv, NEW t \in Tool, NEW new \in Command, Becomes(t, new),
           new.pc \in {"resolved", "done"} => new.host \in Address /\ new.port \in Port,
           Follows(t, new),
           replies' \subseteq replies, requests' \subseteq Tool \X Server,
           UNCHANGED <<up, foreign>>
    PROVE  IInv'
PROOF
<1>1. /\ tool' \in [Tool -> Command] /\ tool'[t] = new
      /\ \A u \in Tool : u # t => tool'[u] = tool[u]
      /\ \A u \in Tool : tool'[u].pc \in {"resolved", "done"} =>
                           tool'[u].host \in Address /\ tool'[u].port \in Port
  BY BecomesTyped DEF IInv
<1>2. TypeOK'
  BY <1>1 DEF IInv, TypeOK, Command
<1>3. AnswersTold'
  BY DEF IInv, AnswersTold
<1>4. ToolsFollow'
  <2> SUFFICES ASSUME NEW u \in Tool PROVE Follows(u, tool'[u])
    BY DEF ToolsFollow
  <2>1. CASE u = t
    BY <1>1, <2>1
  <2>2. CASE u # t
    <3>1. Follows(u, tool[u])
      BY DEF IInv, ToolsFollow
    <3> QED
      BY <1>1, <2>2, <3>1
  <2> QED
    BY <2>1, <2>2
<1>5. PortsExclusive'
  BY DEF IInv, PortsExclusive
<1> QED
  BY <1>2, <1>3, <1>4, <1>5 DEF IInv

\* A step of a server or of the network.
LEMMA OtherStepKeeps ==
    ASSUME IInv, UNCHANGED tool,
           up' \in [Server -> {"down", "starting", "serving"}], foreign' \in 0..MaxForeign,
           requests' \subseteq Tool \X Server,
           replies' \subseteq [to : Tool, kind : ForeignKind \cup {"endpoint"},
                              from : Server \cup {None}, host : Address \cup {None},
                              port : Port \cup {None}],
           AnswersTold', PortsExclusive'
    PROVE  IInv'
PROOF
<1>1. TypeOK'
  BY DEF IInv, TypeOK
<1>2. ToolsFollow'
  BY DEF IInv, ToolsFollow
<1> QED
  BY <1>1, <1>2 DEF IInv

LEMMA ServerKeeps ==
    ASSUME IInv, NEW s \in Server, StartResponder(s) \/ Serve(s) \/ Stop(s)
    PROVE  IInv'
PROOF
<1>1. up' \in [Server -> {"down", "starting", "serving"}]
  BY DEF IInv, TypeOK, StartResponder, Serve, Stop
<1>2. UNCHANGED <<requests, replies, tool, foreign>>
  BY DEF StartResponder, Serve, Stop
<1>3. AnswersTold'
  BY <1>2 DEF IInv, AnswersTold
<1>4. PortsExclusive'
  <2>1. CASE Serve(s)
    <3>1. \A u \in Server : up[u] = "serving" => ~Clash(s, u) /\ ~Clash(u, s)
      BY <2>1 DEF Serve, Clash
    <3>2. up' = [up EXCEPT ![s] = "serving"]
      BY <2>1 DEF Serve
    <3> QED
      BY <3>1, <3>2 DEF IInv, TypeOK, PortsExclusive
  <2>2. CASE StartResponder(s) \/ Stop(s)
    <3>1. \A u \in Server : up'[u] = "serving" => up[u] = "serving"
      BY <2>2 DEF StartResponder, Stop, IInv, TypeOK
    <3> QED
      BY <3>1 DEF IInv, PortsExclusive
  <2> QED
    BY <2>1, <2>2
<1> QED
  BY <1>1, <1>2, <1>3, <1>4, OtherStepKeeps DEF IInv, TypeOK

LEMMA NetworkKeeps ==
    ASSUME IInv,
           \/ \E t \in Tool, s \in Server : LoseRequest(t, s)
           \/ \E d \in replies : LoseReply(d)
    PROVE  IInv'
PROOF
<1>1. UNCHANGED <<up, tool, foreign>> /\ requests' \subseteq requests /\ replies' \subseteq replies
  BY DEF LoseRequest, LoseReply
<1>2. AnswersTold' /\ PortsExclusive'
  BY <1>1 DEF IInv, AnswersTold, PortsExclusive
<1> QED
  BY <1>1, <1>2, OtherStepKeeps DEF IInv, TypeOK

LEMMA RespondKeeps ==
    ASSUME IInv, NEW t \in Tool, NEW s \in Server, Respond(t, s)
    PROVE  IInv'
PROOF
<1>1. PICK host \in AdvertisedHosts(s) :
        replies' = replies \cup {[to |-> t, kind |-> "endpoint", from |-> s,
                                  host |-> host, port |-> s.port]}
  BY DEF Respond
<1> DEFINE new == [to |-> t, kind |-> "endpoint", from |-> s, host |-> host, port |-> s.port]
<1>2. UNCHANGED <<up, tool, foreign>> /\ requests' \subseteq requests
  BY DEF Respond
<1>3. new \in [to : Tool, kind : ForeignKind \cup {"endpoint"}, from : Server \cup {None},
              host : Address \cup {None}, port : Port \cup {None}]
  BY AdvertisedKnown
<1>4. AnswersTold' /\ PortsExclusive'
  BY <1>1, <1>2 DEF IInv, AnswersTold, PortsExclusive
<1> QED
  BY <1>1, <1>2, <1>3, <1>4, OtherStepKeeps DEF IInv, TypeOK

LEMMA ForeignKeeps ==
    ASSUME IInv, NEW t \in Tool, NEW kind \in ForeignKind, ForeignReply(t, kind)
    PROVE  IInv'
PROOF
<1> DEFINE new == [to |-> t, kind |-> kind, from |-> None, host |-> None, port |-> None]
<1>1. UNCHANGED <<up, tool, requests>> /\ replies' = replies \cup {new}
  BY DEF ForeignReply
<1>2. foreign' \in 0..MaxForeign
  <2>1. foreign \in 0..MaxForeign /\ foreign < MaxForeign /\ foreign' = foreign + 1
    BY DEF ForeignReply, IInv, TypeOK
  <2> QED
    BY <2>1, BoundKnown
<1>3. new.kind # "endpoint"
  BY DiscoveryAssumption
<1>4. AnswersTold' /\ PortsExclusive'
  BY <1>1, <1>3 DEF IInv, AnswersTold, PortsExclusive
<1> QED
  BY <1>1, <1>2, <1>4, OtherStepKeeps DEF IInv, TypeOK

\* A tool that settles without an answer, or for the endpoint in a datagram.
LEMMA ResolveKeeps ==
    ASSUME IInv, NEW t \in Tool,
           \/ \E host \in Address \cup {None} : Resolve(t, host, None, None)
           \/ \E d \in replies : d.kind = "endpoint" /\ Resolve(t, d.host, d.port, d.from),
           replies' \subseteq replies, requests' \subseteq requests,
           UNCHANGED <<up, foreign>>
    PROVE  IInv'
PROOF
<1>1. requests' \subseteq Tool \X Server
  BY DEF IInv, TypeOK
<1>2. ASSUME NEW host \in Address \cup {None}, Resolve(t, host, None, None) PROVE IInv'
  <2>1. Settled(t, host, None, None) \in Command /\ Becomes(t, Settled(t, host, None, None))
        /\ HostOf(host) \in Address /\ PortOf(t, None) \in Port
    BY <1>2, ResolveSettles DEF Becomes
  <2>2. Follows(t, Settled(t, host, None, None))
    BY DEF Follows, Settled
  <2>3. /\ Settled(t, host, None, None).host = HostOf(host)
        /\ Settled(t, host, None, None).port = PortOf(t, None)
    BY DEF Settled
  <2> QED
    BY <1>1, <2>1, <2>2, <2>3, ToolStepKeeps
<1>3. ASSUME NEW d \in replies, d.kind = "endpoint", NEW host, NEW port, NEW from,
             host = d.host, port = d.port, from = d.from, Resolve(t, host, port, from)
      PROVE  IInv'
  <2> DEFINE new == Settled(t, host, port, from)
  <2>1. /\ from \in Server /\ host \in Address /\ port \in Port
        /\ host \in AdvertisedHosts(from) /\ port = from.port
    BY <1>3, AdvertisedKnown DEF IInv, AnswersTold
  <2>2. new \in Command /\ Becomes(t, new) /\ HostOf(host) \in Address /\ PortOf(t, port) \in Port
    BY <1>3, <2>1, ResolveSettles DEF Becomes
  <2>3. HostOf(host) = host /\ (t.port = None => PortOf(t, port) = port)
    BY <2>1, DiscoveryAssumption DEF HostOf, PortOf
  <2>4. /\ new.host = HostOf(host) /\ new.port = PortOf(t, port) /\ new.pc = "resolved"
        /\ new.from = from /\ new.reached = None
    BY DEF Settled
  <2> HIDE DEF new
  <2>5. Follows(t, new)
    BY <2>1, <2>3, <2>4 DEF Follows
  <2> QED
    BY <1>1, <2>2, <2>4, <2>5, ToolStepKeeps
<1> QED
  BY <1>2, <1>3

LEMMA BeginKeeps ==
    ASSUME IInv, NEW t \in Tool, Begin(t)
    PROVE  IInv'
PROOF
<1>1. UNCHANGED <<up, replies, foreign>> /\ tool[t].pc = "ready"
  BY DEF Begin
<1>2. CASE Resolve(t, t.host, None, None) /\ UNCHANGED requests
  <2>1. t.host \in Address \cup {None}
    BY DiscoveryAssumption
  <2> QED
    BY <1>1, <1>2, <2>1, ResolveKeeps
<1>3. CASE requests' = requests \cup ({t} \X Server) /\ tool' = [tool EXCEPT ![t].pc = "listening"]
  <2> DEFINE new == [tool[t] EXCEPT !.pc = "listening"]
  <2>1. tool[t] \in Command
    BY DEF IInv, TypeOK, Command
  <2>2. new \in Command /\ new.pc = "listening" /\ new.from = tool[t].from
        /\ new.reached = tool[t].reached
    BY <2>1 DEF Command
  <2>3. Becomes(t, new)
    BY <1>3 DEF Becomes
  <2>4. Follows(t, new)
    BY <1>1, <2>2 DEF IInv, ToolsFollow, Follows
  <2>5. requests' \subseteq Tool \X Server
    BY <1>3 DEF IInv, TypeOK
  <2> HIDE DEF new
  <2> QED
    BY <1>1, <2>2, <2>3, <2>4, <2>5, ToolStepKeeps
<1> QED
  BY <1>2, <1>3 DEF Begin

LEMMA ReceiveKeeps ==
    ASSUME IInv, NEW t \in Tool, NEW d \in replies, Receive(t, d)
    PROVE  IInv'
PROOF
<1>1. /\ UNCHANGED <<up, foreign>> /\ replies' \subseteq replies /\ requests' \subseteq requests
      /\ tool[t].pc = "listening" /\ requests' \subseteq Tool \X Server
  BY DEF Receive, CloseSocket, IInv, TypeOK
<1>2. CASE d.kind = "endpoint" /\ Resolve(t, d.host, d.port, d.from)
  BY <1>1, <1>2, ResolveKeeps
<1>3. CASE Resolve(t, None, None, None)
  BY <1>1, <1>3, ResolveKeeps
<1>4. CASE UNCHANGED tool
  <2>1. AnswersTold' /\ PortsExclusive'
    BY <1>1 DEF IInv, AnswersTold, PortsExclusive
  <2> QED
    BY <1>1, <1>4, <2>1, OtherStepKeeps DEF IInv, TypeOK
<1>5. CASE tool' = [tool EXCEPT ![t].pc = "raised"]
  <2> DEFINE new == [tool[t] EXCEPT !.pc = "raised"]
  <2>1. tool[t] \in Command
    BY DEF IInv, TypeOK, Command
  <2>2. new \in Command /\ new.pc = "raised" /\ new.from = tool[t].from
        /\ new.reached = tool[t].reached
    BY <2>1 DEF Command
  <2>3. Becomes(t, new)
    BY <1>5 DEF Becomes
  <2>4. Follows(t, new)
    BY <1>1, <2>2 DEF IInv, ToolsFollow, Follows
  <2> HIDE DEF new
  <2> QED
    BY <1>1, <2>2, <2>3, <2>4, ToolStepKeeps
<1> QED
  BY <1>2, <1>3, <1>4, <1>5 DEF Receive

LEMMA ConnectKeeps ==
    ASSUME IInv, NEW t \in Tool, Connect(t)
    PROVE  IInv'
PROOF
<1>1. /\ UNCHANGED <<up, requests, replies, foreign>> /\ requests' \subseteq Tool \X Server
      /\ tool[t].pc = "resolved"
  BY DEF Connect, IInv, TypeOK
<1>2. tool[t] \in Command /\ tool[t].host \in Address /\ tool[t].port \in Port
  BY <1>1 DEF IInv, TypeOK, Command
<1>3. Follows(t, tool[t])
  BY DEF IInv, ToolsFollow
<1>4. ASSUME NEW s \in Listening(t.machine, tool[t].host, tool[t].port),
             tool' = [tool EXCEPT ![t] = [@ EXCEPT !.pc = "done", !.reached = s]]
      PROVE  IInv'
  <2> DEFINE new == [tool[t] EXCEPT !.pc = "done", !.reached = s]
  <2>1. s \in Server
    BY DEF Listening
  <2>2. /\ new \in Command /\ new.pc = "done" /\ new.reached = s
        /\ new.host = tool[t].host /\ new.port = tool[t].port /\ new.from = tool[t].from
    BY <1>2, <2>1 DEF Command
  <2>3. Becomes(t, new)
    BY <1>4 DEF Becomes
  <2> HIDE DEF new
  <2>4. Follows(t, new)
    BY <1>3, <2>2 DEF Follows
  <2> QED
    BY <1>1, <1>2, <2>2, <2>3, <2>4, ToolStepKeeps
<1>5. CASE tool' = [tool EXCEPT ![t].pc = "done"]
  <2> DEFINE new == [tool[t] EXCEPT !.pc = "done"]
  <2>1. /\ new \in Command /\ new.pc = "done" /\ new.reached = tool[t].reached
        /\ new.host = tool[t].host /\ new.port = tool[t].port /\ new.from = tool[t].from
    BY <1>2 DEF Command
  <2>2. Becomes(t, new)
    BY <1>5 DEF Becomes
  <2> HIDE DEF new
  <2>3. Follows(t, new)
    BY <1>3, <2>1 DEF Follows
  <2> QED
    BY <1>1, <1>2, <2>1, <2>2, <2>3, ToolStepKeeps
<1> QED
  BY <1>4, <1>5 DEF Connect

LEMMA AgainKeeps ==
    ASSUME IInv, NEW t \in Tool, Again(t)
    PROVE  IInv'
PROOF
<1>1. /\ UNCHANGED <<up, foreign>> /\ requests' \subseteq Tool \X Server
      /\ replies' \subseteq replies /\ Becomes(t, Fresh)
  BY DEF Again, IInv, TypeOK, Becomes
<1>2. Follows(t, Fresh) /\ Fresh.pc = "ready"
  BY DEF Follows, Fresh
<1> QED
  BY <1>1, <1>2, FreshTyped, ToolStepKeeps

LEMMA NextIInv == IInv /\ [Next]_vars => IInv'
PROOF
<1> SUFFICES ASSUME IInv, [Next]_vars PROVE IInv'
  OBVIOUS
<1>1. ASSUME NEW t \in Tool, Timeout(t) PROVE IInv'
  BY <1>1, ResolveKeeps DEF Timeout, CloseSocket
<1>2. CASE UNCHANGED vars
  BY <1>2 DEF IInv, TypeOK, AnswersTold, ToolsFollow, PortsExclusive, vars
<1> QED
  BY <1>1, <1>2, ServerKeeps, NetworkKeeps, RespondKeeps, ForeignKeeps, BeginKeeps,
     ReceiveKeeps, ConnectKeeps, AgainKeeps DEF Next, Listen

LEMMA InvariantHolds == Spec => []IInv
BY InitIInv, NextIInv, PTL DEF Spec

-----------------------------------------------------------------------------
(* Where an advertised endpoint leads.                                     *)

\* Of two servers at an endpoint one has not bound its port.
LEMMA OneListens ==
    ASSUME PortsExclusive, NEW m, NEW host, NEW port,
           NEW s \in Listening(m, host, port), NEW u \in Listening(m, host, port)
    PROVE  s = u
PROOF
<1>1. s \in Server /\ u \in Server /\ up[s] = "serving" /\ up[u] = "serving"
  BY DEF Listening
<1>2. Clash(s, u)
  <2>1. CASE host \in Machine
    BY <2>1 DEF Listening, Clash
  <2>2. CASE host \notin Machine
    BY <2>2 DEF Listening, Clash
  <2> QED
    BY <2>1, <2>2
<1> QED
  BY <1>1, <1>2 DEF PortsExclusive

\* What a server that tools of m can find advertises, they take to its machine.
LEMMA EndpointOfFindable ==
    ASSUME NEW s \in Server, NEW m, Findable(s, m), NEW host \in AdvertisedHosts(s)
    PROVE  \/ host = s.home /\ host \in Machine /\ s.bind \in {AnyAddress, host}
           \/ host \notin Machine /\ s.home = m /\ s.bind \in {AnyAddress, Loopback}
PROOF
<1>1. /\ s.home \in Machine /\ Loopback \notin Machine /\ AnyAddress \notin Machine
      /\ None \notin Machine /\ None # Loopback /\ AnyAddress # Loopback
  BY DiscoveryAssumption DEF Address, Loopback, AnyAddress
<1>2. CASE /\ s.bind \in {AnyAddress, s.home}
           /\ \/ s.advertise = s.home
              \/ s.advertise = None /\ (s.bind = s.home \/ s.lan = {s.home})
  <2>1. host = s.home
    BY <1>1, <1>2 DEF AdvertisedHosts
  <2> QED
    BY <1>1, <1>2, <2>1
<1>3. CASE /\ m = s.home /\ s.bind \in {AnyAddress, Loopback}
           /\ \/ s.advertise = Loopback
              \/ s.advertise = None /\ (s.bind = Loopback \/ s.lan \subseteq {s.home, Loopback})
  <2>1. host = Loopback \/ (host = s.home /\ s.bind = AnyAddress)
    BY <1>1, <1>3 DEF AdvertisedHosts
  <2> QED
    BY <1>1, <1>3, <2>1
<1> QED
  BY <1>2, <1>3 DEF Findable

\* While such a server serves, its endpoint leads to it alone.
LEMMA LeadsHome ==
    ASSUME PortsExclusive, NEW s \in Server, NEW m, Findable(s, m),
           NEW host \in AdvertisedHosts(s), up[s] = "serving"
    PROVE  Listening(m, host, s.port) = {s}
PROOF
<1>1. s \in Listening(m, host, s.port)
  BY EndpointOfFindable DEF Listening
<1> QED
  BY <1>1, OneListens

\* Whoever is at its endpoint is on its machine and has its port.
LEMMA LeadsToMachine ==
    ASSUME NEW s \in Server, NEW m, Findable(s, m), NEW host \in AdvertisedHosts(s),
           NEW u \in Listening(m, host, s.port)
    PROVE  u.home = s.home /\ u.port = s.port
BY EndpointOfFindable DEF Listening

-----------------------------------------------------------------------------
(* The theorems.                                                           *)

\* Every variable keeps its type; a tool that has settled has an address and a port.
THEOREM TypeCorrect == Spec => []TypeOK
PROOF
<1>1. IInv => TypeOK
  BY DEF IInv
<1> QED
  BY <1>1, InvariantHolds, PTL

\* An answered tool is led to the server that answered, while it serves.
THEOREM AnswerLeadsThere == Spec => []AnsweredIsReachable
PROOF
<1>1. IInv => AnsweredIsReachable
  <2> SUFFICES ASSUME IInv, NEW t \in Tool, tool[t].pc = "resolved", Answered(t),
                      up[tool[t].from] = "serving"
               PROVE  Listening(t.machine, tool[t].host, tool[t].port) = {tool[t].from}
    BY DEF AnsweredIsReachable
  <2> DEFINE s == tool[t].from
  <2>1. s \in Server /\ t.port = None /\ Findable(s, t.machine)
    BY DEF IInv, TypeOK, Answered
  <2>2. tool[t].host \in AdvertisedHosts(s) /\ tool[t].port = s.port
    BY <2>1 DEF IInv, ToolsFollow, Follows, Answered
  <2> QED
    BY <2>1, <2>2, LeadsHome DEF IInv
<1> QED
  BY <1>1, InvariantHolds, PTL

\* Only its own connection makes a tool done.
LEMMA OnlyConnect ==
    ASSUME IInv, Next, NEW t \in Tool, tool[t].pc = "resolved", tool'[t].pc = "done"
    PROVE  Connect(t)
PROOF
<1>1. tool' # tool
  BY DEF IInv
<1>2. ASSUME NEW u \in Tool, u # t, Begin(u) \/ Listen(u) \/ Connect(u) \/ Again(u)
      PROVE  tool'[t] = tool[t]
  BY <1>2 DEF IInv, TypeOK, Begin, Listen, Timeout, Receive, Resolve, Connect, Again
<1>3. ~Begin(t) /\ ~Listen(t) /\ ~Again(t)
  BY DEF Begin, Listen, Timeout, Receive, Again
<1> QED
  BY <1>1, <1>2, <1>3 DEF Next, StartResponder, Serve, Stop, Respond, LoseRequest, LoseReply,
     ForeignReply

\* A connection leads to the server that answered, or to whoever has its port when
\* it does not serve.
LEMMA ConnectStep == IInv /\ Next => ConnectedAsAnswered
PROOF
<1> SUFFICES ASSUME IInv, Next, NEW t \in Tool, tool[t].pc = "resolved",
                    tool'[t].pc = "done", Answered(t),
                    tool'[t].reached # None, tool'[t].reached # tool[t].from
             PROVE  /\ up[tool[t].from] # "serving"
                    /\ tool'[t].reached.home = tool[t].from.home
                    /\ tool'[t].reached.port = tool[t].from.port
  BY DEF ConnectedAsAnswered
<1> DEFINE s == tool[t].from
<1>1. s \in Server /\ t.port = None /\ Findable(s, t.machine)
  BY DEF IInv, TypeOK, Answered
<1>2. tool[t].host \in AdvertisedHosts(s) /\ tool[t].port = s.port /\ tool[t].reached = None
  BY <1>1 DEF IInv, ToolsFollow, Follows, Answered
<1>3. tool'[t].reached \in Listening(t.machine, tool[t].host, tool[t].port)
  <2>1. Connect(t)
    BY OnlyConnect
  <2>2. CASE tool' = [tool EXCEPT ![t].pc = "done"]
    BY <1>2, <2>2 DEF IInv, TypeOK
  <2>3. ASSUME NEW u \in Listening(t.machine, tool[t].host, tool[t].port),
               tool' = [tool EXCEPT ![t] = [@ EXCEPT !.pc = "done", !.reached = u]]
        PROVE  tool'[t].reached = u
    BY <2>3 DEF IInv, TypeOK
  <2> QED
    BY <2>1, <2>2, <2>3 DEF Connect
<1>4. up[s] # "serving"
  <2> SUFFICES ASSUME up[s] = "serving" PROVE FALSE
    OBVIOUS
  <2>1. Listening(t.machine, tool[t].host, s.port) = {s}
    BY <1>1, <1>2, LeadsHome DEF IInv
  <2> QED
    BY <1>2, <1>3, <2>1
<1>5. tool'[t].reached.home = s.home /\ tool'[t].reached.port = s.port
  BY <1>1, <1>2, <1>3, LeadsToMachine
<1> QED
  BY <1>4, <1>5

\* An answered tool is connected to the server that answered or to none, unless that
\* one does not serve: then at most to the server that has its port.
THEOREM NoOtherServer == Spec => NeverAnother
PROOF
<1>1. IInv /\ [Next]_vars => [ConnectedAsAnswered]_vars
  BY ConnectStep
<1> QED
  BY <1>1, InvariantHolds, PTL DEF Spec, NeverAnother
=============================================================================
