----------------------------- MODULE Discovery -----------------------------
(***************************************************************************)
(* How a tool finds its server: server/discovery.py on the server's side,  *)
(* discover() and the choice of an endpoint in cli/rm_cli.py and, for the  *)
(* C++ tool, in ResourceManagerClient::discover and cli/main.cpp.          *)
(*                                                                         *)
(* A tool without a host broadcasts one datagram, takes the first reply it *)
(* can use and connects to the address in it.  Datagrams are lost and      *)
(* overtake each other; other programs answer on the same port.  A server  *)
(* answers broadcasts before its HTTP port is bound, and when it cannot    *)
(* be, because another server of the machine holds it.                     *)
(***************************************************************************)
EXTENDS Integers

CONSTANTS
    Machine,        \* machines, by their address in the network
    Server,         \* records home, bind, port, advertise, lan of the servers; lan
                    \* is what _primary_lan_ip may return there: the machine's
                    \* address, loopback while it has no route, the address of
                    \* another interface
    Tool,           \* records name, machine, lang, host, port, discover of the tools
    Port,           \* HTTP ports
    ForeignKind,    \* what datagrams of other programs hold
    MaxForeign,     \* bound: such datagrams altogether
    None

Loopback == "127.0.0.1"
AnyAddress == "0.0.0.0"
DefaultPort == 8080

Address == Machine \cup {Loopback, AnyAddress}

ASSUME DiscoveryAssumption ==
    /\ None \notin Address /\ None \notin Port
    /\ Loopback \notin Machine /\ AnyAddress \notin Machine
    /\ DefaultPort \in Port /\ MaxForeign \in Nat
    /\ \A s \in Server : /\ s.home \in Machine /\ s.bind \in Address
                         /\ s.port \in Port /\ s.advertise \in Address \cup {None}
                         /\ s.lan \in (SUBSET Address) \ {{}}
    /\ \A t \in Tool : /\ t.machine \in Machine /\ t.lang \in {"python", "c++"}
                       /\ t.host \in Address \cup {None} /\ t.port \in Port \cup {None}
                       /\ t.discover \in BOOLEAN
    /\ ForeignKind \subseteq {"text", "no object", "other service", "nothing"}

VARIABLES
    up,             \* the servers
    requests,       \* broadcasts on their way to a server
    replies,        \* datagrams on their way to a tool
    tool,           \* the tools
    foreign         \* datagrams other programs have sent

vars == <<up, requests, replies, tool, foreign>>

Fresh == [pc |-> "ready", host |-> None, port |-> None, from |-> None, reached |-> None]

TypeOK ==
    /\ up \in [Server -> {"down", "starting", "serving"}]
    /\ requests \subseteq Tool \X Server
    /\ replies \subseteq [to : Tool, kind : ForeignKind \cup {"endpoint"}, from : Server \cup {None},
                         host : Address \cup {None}, port : Port \cup {None}]
    /\ tool \in [Tool -> [pc : {"ready", "listening", "resolved", "done", "raised"},
                          host : Address \cup {None}, port : Port \cup {None},
                          from : Server \cup {None}, reached : Server \cup {None}]]
    /\ \A t \in Tool : tool[t].pc \in {"resolved", "done"} =>
                            tool[t].host \in Address /\ tool[t].port \in Port
    /\ foreign \in 0..MaxForeign

Init ==
    /\ up = [s \in Server |-> "down"]
    /\ requests = {}
    /\ replies = {}
    /\ tool = [t \in Tool |-> Fresh]
    /\ foreign = 0

-----------------------------------------------------------------------------
(* The servers.                                                            *)

\* The responder thread is started before uvicorn binds the HTTP port.
StartResponder(s) ==
    /\ up[s] = "down"
    /\ up' = [up EXCEPT ![s] = "starting"]
    /\ UNCHANGED <<requests, replies, tool, foreign>>

\* Two servers that cannot both have bound their HTTP ports.
Clash(s, u) ==
    /\ s.home = u.home /\ s.port = u.port
    /\ s.bind = u.bind \/ AnyAddress \in {s.bind, u.bind}

\* Slip: the port is shared with whoever has it.
ServeAnyway(s) ==
    /\ up[s] = "starting"
    /\ s.bind \in {AnyAddress, Loopback, s.home}
    /\ up' = [up EXCEPT ![s] = "serving"]
    /\ UNCHANGED <<requests, replies, tool, foreign>>

\* uvicorn binds the port; a server that cannot bind it can only stop.
Serve(s) ==
    /\ up[s] = "starting"
    /\ s.bind \in {AnyAddress, Loopback, s.home}
    /\ \A u \in Server : up[u] = "serving" => ~Clash(s, u)
    /\ up' = [up EXCEPT ![s] = "serving"]
    /\ UNCHANGED <<requests, replies, tool, foreign>>

\* Both threads end with the process.
Stop(s) ==
    /\ up[s] # "down"
    /\ up' = [up EXCEPT ![s] = "down"]
    /\ UNCHANGED <<requests, replies, tool, foreign>>

\* Slip: the bind host is advertised as it is.
AdvertisedBind(s) == {IF s.advertise # None THEN s.advertise ELSE s.bind}

\* resolve_advertise_host: explicit, else a bind host that is an address, else
\* whatever the machine finds to be its own at the moment.
AdvertisedHosts(s) ==
    IF s.advertise # None THEN {s.advertise}
    ELSE IF s.bind # AnyAddress THEN {s.bind}
    ELSE s.lan

Respond(t, s) ==
    /\ <<t, s>> \in requests /\ up[s] # "down"
    /\ requests' = requests \ {<<t, s>>}
    /\ \E host \in AdvertisedHosts(s) :
          replies' = replies \cup {[to |-> t, kind |-> "endpoint", from |-> s,
                                    host |-> host, port |-> s.port]}
    /\ UNCHANGED <<up, tool, foreign>>

-----------------------------------------------------------------------------
(* The network.                                                            *)

LoseRequest(t, s) ==
    /\ <<t, s>> \in requests
    /\ requests' = requests \ {<<t, s>>}
    /\ UNCHANGED <<up, replies, tool, foreign>>

LoseReply(d) ==
    /\ replies' = replies \ {d}
    /\ UNCHANGED <<up, requests, tool, foreign>>

\* Another program answers the broadcast.
ForeignReply(t, kind) ==
    /\ foreign < MaxForeign
    /\ tool[t].pc = "listening"
    /\ foreign' = foreign + 1
    /\ replies' = replies \cup {[to |-> t, kind |-> kind, from |-> None,
                                 host |-> None, port |-> None]}
    /\ UNCHANGED <<up, requests, tool>>

-----------------------------------------------------------------------------
(* The tools.                                                              *)

\* Slip: without a port there is no default.
ResolveNoDefault(t, host, port, from) ==
    tool' = [tool EXCEPT ![t] =
                [pc |-> "resolved", from |-> from, reached |-> None,
                 host |-> IF host # None THEN host ELSE Loopback,
                 port |-> IF t.port # None THEN t.port ELSE port]]

\* An explicit port wins over the discovered one, localhost:8080 is the default.
Resolve(t, host, port, from) ==
    tool' = [tool EXCEPT ![t] =
                [pc |-> "resolved", from |-> from, reached |-> None,
                 host |-> IF host # None THEN host ELSE Loopback,
                 port |-> IF t.port # None THEN t.port
                          ELSE IF port # None THEN port ELSE DefaultPort]]

\* discover() closes its socket: what is on its way to it, or for it, leads nowhere.
CloseSocket(t) ==
    /\ requests' = {q \in requests : q[1] # t}
    /\ replies' = {d \in replies : d.to # t}

Begin(t) ==
    /\ tool[t].pc = "ready"
    /\ \/ /\ t.host = None /\ t.discover
          /\ requests' = requests \cup ({t} \X Server)
          /\ tool' = [tool EXCEPT ![t].pc = "listening"]
       \/ /\ t.host # None \/ ~t.discover
          /\ Resolve(t, t.host, None, None)
          /\ UNCHANGED requests
    /\ UNCHANGED <<up, replies, foreign>>

\* recvfrom returns d, of this server or of any program.  JSON that is no object
\* has no get: Python raises, outside the inner try, and C++ skips it; in C++ an
\* empty datagram is taken for the timeout.
Receive(t, d) ==
    /\ tool[t].pc = "listening" /\ d.to = t
    /\ \/ /\ \/ d.kind = "endpoint" /\ Resolve(t, d.host, d.port, d.from)
             \/ d.kind = "nothing" /\ t.lang = "c++" /\ Resolve(t, None, None, None)
             \/ /\ d.kind = "no object" /\ t.lang = "python"
                /\ tool' = [tool EXCEPT ![t].pc = "raised"]
          /\ CloseSocket(t)
       \/ /\ \/ d.kind \in {"text", "other service"}
             \/ d.kind = "nothing" /\ t.lang = "python"
             \/ d.kind = "no object" /\ t.lang = "c++"
          /\ replies' = replies \ {d}
          /\ UNCHANGED <<requests, tool>>
    /\ UNCHANGED <<up, foreign>>

\* Two seconds without a datagram.
Timeout(t) ==
    /\ tool[t].pc = "listening"
    /\ Resolve(t, None, None, None)
    /\ CloseSocket(t)
    /\ UNCHANGED <<up, foreign>>

\* The servers a connection from m to host and port gets through to.
Listening(m, host, port) ==
    {s \in Server : /\ up[s] = "serving" /\ s.port = port
                    /\ \/ host \in Machine /\ s.home = host /\ s.bind \in {AnyAddress, host}
                       \/ host \notin Machine /\ s.home = m /\ s.bind \in {AnyAddress, Loopback}}

Connect(t) ==
    /\ tool[t].pc = "resolved"
    /\ LET there == Listening(t.machine, tool[t].host, tool[t].port) IN
          \/ /\ there # {}
             /\ \E s \in there : tool' = [tool EXCEPT ![t] = [@ EXCEPT !.pc = "done", !.reached = s]]
          \/ there = {} /\ tool' = [tool EXCEPT ![t].pc = "done"]
    /\ UNCHANGED <<up, requests, replies, foreign>>

\* The next command starts from nothing.
Again(t) ==
    /\ tool[t].pc \in {"done", "raised"}
    /\ tool' = [tool EXCEPT ![t] = Fresh]
    /\ UNCHANGED <<up, requests, replies, foreign>>

Listen(t) == Timeout(t) \/ \E d \in replies : Receive(t, d)

Next == \/ \E s \in Server : StartResponder(s) \/ Serve(s) \/ Stop(s)
        \/ \E t \in Tool, s \in Server : Respond(t, s) \/ LoseRequest(t, s)
        \/ \E d \in replies : LoseReply(d)
        \/ \E t \in Tool : \/ \E kind \in ForeignKind : ForeignReply(t, kind)
                           \/ Begin(t) \/ Listen(t) \/ Connect(t) \/ Again(t)

Spec == Init /\ [][Next]_vars

-----------------------------------------------------------------------------
(* Properties.                                                             *)

\* The servers tools of machine m can find: bound to all interfaces or to the
\* address of their machine, and advertised under it, by --advertise-host or
\* because _primary_lan_ip finds nothing else; and for tools of the server's own
\* machine those on loopback, as the default bind host makes them, or advertised
\* under it.  Another machine does not find a server bound to loopback, nor one on
\* all interfaces while its machine has no route.  (discovery.py:29-46)
Findable(s, m) ==
    \/ /\ s.bind \in {AnyAddress, s.home}
       /\ \/ s.advertise = s.home
          \/ s.advertise = None /\ (s.bind = s.home \/ s.lan = {s.home})
    \/ /\ m = s.home /\ s.bind \in {AnyAddress, Loopback}
       /\ \/ s.advertise = Loopback
          \/ s.advertise = None /\ (s.bind = Loopback \/ s.lan \subseteq {s.home, Loopback})

\* t was answered by a server it can find, and given no port of its own.
Answered(t) ==
    /\ tool[t].from # None /\ t.port = None
    /\ Findable(tool[t].from, t.machine)

\* While the server that answered serves, the endpoint made from its answer leads
\* to it and to no other, whoever else wants its port.  (README: "the server replies
\* with the host and port of its HTTP API, and the client routes its requests there")
AnsweredIsReachable ==
    \A t \in Tool :
        tool[t].pc = "resolved" /\ Answered(t) /\ up[tool[t].from] = "serving"
        => Listening(t.machine, tool[t].host, tool[t].port) = {tool[t].from}

\* A tool that was answered is connected to the server that answered or to none,
\* unless that one does not serve, because it is gone or its port was taken: then it
\* may get the server of the same machine that has the port.
\* (mu2e-resource-manager.py:226-251: the responder is started before the port is bound)
ConnectedAsAnswered ==
    \A t \in Tool :
        tool[t].pc = "resolved" /\ tool'[t].pc = "done" /\ Answered(t) =>
            LET from == tool[t].from
                reached == tool'[t].reached IN
            \/ reached \in {None, from}
            \/ up[from] # "serving" /\ reached.home = from.home /\ reached.port = from.port

NeverAnother == [][ConnectedAsAnswered]_vars
=============================================================================
