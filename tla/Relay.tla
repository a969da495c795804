-------------------------------- MODULE Relay --------------------------------
(***************************************************************************)
(* The path of a packet through the accelerator, end to end:               *)
(*                                                                         *)
(*   game --> client --> gateway --> forward --> server                    *)
(*   game <-- client <-- gateway <-- forward <-- server                    *)
(*                                                                         *)
(* together with the control messages (pings and loss queries) by which a  *)
(* client learns which gateway and which forward to use.  One action       *)
(* models one iteration of a service loop of the code, from the read of a  *)
(* datagram to the writes it causes.                                       *)
(*                                                                         *)
(* The nodes talk over UDP.  A network variable is the set of datagrams    *)
(* ever sent on one leg; a receiver reads any member of it at any time and *)
(* does not remove it.  A datagram that is never read was lost, one read   *)
(* twice was duplicated, and nothing orders the reads.                     *)
(*                                                                         *)
(* Payload bytes are abstracted to a tag, the flow whose process or server *)
(* produced them: the tag is never read by a node and only serves to say   *)
(* where a payload ended up.  Sequence ids and loss statistics ride along  *)
(* without influencing any branch below and are left out.                  *)
(***************************************************************************)
EXTENDS Naturals, FiniteSets

CONSTANTS
    Client,      \* addresses of client sockets, as a gateway reads them
    Gateway,     \* gateways, by the address clients write to
    Forward,     \* forwards, by their public address (Forward.faddr)
    Server,      \* server IP addresses
    Proto,       \* transport protocols
    ProcPort,    \* source ports of game processes
    SrvPort,     \* ports of servers
    LocalPort,   \* ports a forward's kernel can hand to a link
    MsgId,       \* message ids (rand.Uint32, assumed not to repeat)
    NoAddr,      \* 0.0.0.0:0
    Flow,        \* the flows the games open
    PlayFlow,    \* those that Capture classifies as play data
    FixRoute,    \* the clients' Config.FixRoute
    MaxReplies   \* bound on the distinct segments servers send

(***************************************************************************)
(* links.Endpoint, the key of a forward's link table.  A flow of a game    *)
(* process is the same tuple.                                              *)
(***************************************************************************)
Endpoint == [client: Client, proto: Proto, processPort: ProcPort,
             server: Server, serverPort: SrvPort]

ASSUME RelayAssumption ==
    /\ Flow \subseteq Endpoint
    /\ PlayFlow \subseteq Flow
    /\ FixRoute \in BOOLEAN
    /\ MaxReplies \in Nat
    /\ NoAddr \notin Client \cup Forward
    /\ NoAddr \notin Gateway \X (Forward \cup {NoAddr})

\* The message kinds of bvvd.Kind beside Data.
Ping     == {"PingGateway", "PingForward", "PingServer"}
PackLoss == {"PackLossClientUplink", "PackLossGatewayUplink",
             "PackLossGatewayDownlink"}

\* The kinds NetworkStats asks for, in one burst with one message id.
StatsKind == {"PingGateway", "PingForward"} \cup PackLoss

\* The Forward field of a header, and what a client may learn from one.
AnyForward == Forward \cup {NoAddr}
Route      == Gateway \X Forward
AnyRoute   == (Gateway \X AnyForward) \cup {NoAddr}

\* A bvvd header in front of a TCP or UDP segment ...
DataPkt(From, Src, Dst) ==
    [kind: {"Data"}, proto: Proto, client: From, forward: AnyForward,
     server: Server, src: Src, dst: Dst, tag: Endpoint]

\* ... and in front of a message id (msg.Message).
MsgPkt(From) ==
    [kind: Ping \cup PackLoss, client: From, forward: AnyForward,
     server: Server \cup {NoAddr}, id: MsgId]

\* As a client sends them, as a gateway does, and on the way back.
ClientPkt == DataPkt({NoAddr}, ProcPort, SrvPort) \cup MsgPkt({NoAddr})
UpPkt     == DataPkt(Client, ProcPort, SrvPort) \cup MsgPkt(Client)
DownPkt   == DataPkt(Client, SrvPort, ProcPort) \cup MsgPkt(Client)

\* A segment on the Internet between a link of a forward and a server.
Segment == [forward: Forward, localPort: LocalPort, proto: Proto,
            server: Server, serverPort: SrvPort, tag: Endpoint]

\* A request a client waits for: the default route, the route to a server, or
\* the quality of a route.  Field left counts the answers still to be popped.
Ask == [what: {"start", "probe", "stats"}, id: MsgId,
        about: Server \cup AnyRoute, left: 1..5]

VARIABLES
    toGateway,    \* client -> gateway
    toForward,    \* gateway (sender socket) -> forward
    fromForward,  \* forward -> gateway (sender socket)
    toClient,     \* gateway -> client
    toServer,     \* link -> server
    fromServer,   \* server -> link
    started,      \* clients whose start() has returned: games are captured
    asks,         \* per client, the requests waiting in PopDeadline
    usedIds,      \* per client, the message ids drawn so far
    msgbuff,      \* per client, the messages downlinkServic has queued
    default,      \* per client, the default route
    routes,       \* per client and server, the probed route
    injected,     \* segments injected into client hosts (history)
    answers,      \* replies accepted for a request (history)
    fs,           \* per gateway, the forwards added to it
    links,        \* the open links of all forwards
    down,         \* forwards that have closed
    pinging       \* per forward, pings waiting for a server's echo

netVars    == <<toGateway, toForward, fromForward, toClient, toServer, fromServer>>
clientVars == <<started, asks, usedIds, msgbuff, default, routes, injected, answers>>
forwardVars == <<links, down, pinging>>
vars       == <<netVars, clientVars, fs, forwardVars>>

Link == [forward: Forward, ep: Endpoint, gaddr: Gateway, localPort: LocalPort]

TypeOK ==
    /\ toGateway   \subseteq [client: Client, gateway: Gateway, pkt: ClientPkt]
    /\ toForward   \subseteq [gateway: Gateway, forward: AnyForward, pkt: UpPkt]
    /\ fromForward \subseteq [forward: Forward, gateway: Gateway, pkt: DownPkt]
    /\ toClient    \subseteq [gateway: Gateway, client: Client, pkt: DownPkt]
    /\ toServer    \subseteq Segment
    /\ fromServer  \subseteq Segment
    /\ started     \subseteq Client
    /\ asks        \in [Client -> SUBSET Ask]
    /\ usedIds     \in [Client -> SUBSET MsgId]
    /\ msgbuff     \in [Client -> SUBSET [gaddr: Gateway, pkt: MsgPkt(Client)]]
    /\ default     \in [Client -> AnyRoute]
    /\ routes      \in [Client -> [Server -> AnyRoute]]
    /\ injected    \subseteq [ep: Endpoint, tag: Endpoint]
    /\ answers     \subseteq [client: Client, ask: Ask, gaddr: Gateway, pkt: MsgPkt(Client)]
    /\ fs          \in [Gateway -> SUBSET Forward]
    /\ links       \subseteq Link
    /\ down        \subseteq Forward
    /\ pinging     \in [Forward -> SUBSET [gaddr: Gateway, pkt: MsgPkt(Client)]]

Init ==
    /\ toGateway = {} /\ toForward = {} /\ fromForward = {} /\ toClient = {}
    /\ toServer = {} /\ fromServer = {}
    /\ started  = {}
    /\ asks     = [c \in Client |-> {}]
    /\ usedIds  = [c \in Client |-> {}]
    /\ msgbuff  = [c \in Client |-> {}]
    /\ default  = [c \in Client |-> NoAddr]
    /\ routes   = [c \in Client |-> [s \in Server |-> NoAddr]]
    /\ injected = {}
    /\ answers  = {}
    /\ fs       = [g \in Gateway |-> {}]
    /\ links    = {}
    /\ down     = {}
    /\ pinging  = [f \in Forward |-> {}]

-----------------------------------------------------------------------------
(***************************************************************************)
(* Client: requests.  Each writes the same message to one or all gateways  *)
(* and then waits in PopDeadline for a message that carries its id.        *)
(***************************************************************************)
Request(c, gateways, kinds, id, forward, server) ==
    toGateway' = toGateway \cup
        {[client |-> c, gateway |-> g,
          pkt |-> [kind |-> k, client |-> NoAddr, forward |-> forward,
                   server |-> server, id |-> id]] : g \in gateways, k \in kinds}

Await(c, what, id, about, left) ==
    /\ id \in MsgId \ usedIds[c]
    /\ usedIds' = [usedIds EXCEPT ![c] = @ \cup {id}]
    /\ asks' = [asks EXCEPT ![c] = @ \cup
                   {[what |-> what, id |-> id, about |-> about, left |-> left]}]

Waiting(c, what) == {a \in asks[c] : a.what = what}

\* start -> boardcastPingForward: ask all gateways to ping all their forwards.
Start(c, id) ==
    /\ usedIds[c] = {}
    /\ Request(c, Gateway, {"PingForward"}, id, NoAddr, NoAddr)
    /\ Await(c, "start", id, NoAddr, 1)
    /\ UNCHANGED <<toForward, fromForward, toClient, toServer, fromServer, started,
                   msgbuff, default, routes, injected, answers, fs, forwardVars>>

\* NetworkStats asks the gateway of the trunk route, the default or a probed
\* route, for everything that is known of the path.
NetworkStats(c, r, id) ==
    /\ c \in started
    /\ r \in ({default[c]} \cup {routes[c][s] : s \in Server}) \ {NoAddr}
    /\ Request(c, {r[1]}, StatsKind, id, r[2], NoAddr)
    /\ Await(c, "stats", id, r, 5)
    /\ UNCHANGED <<toForward, fromForward, toClient, toServer, fromServer, started,
                   msgbuff, default, routes, injected, answers, fs, forwardVars>>

\* The predicate given to PopDeadline.  (Mutated form: take any message.)
IsReplyAnyId(a, m) == TRUE
IsReply(a, m) == m.pkt.id = a.id

\* A request pops a message of its id.  The first answer names the route.
Answer(c, a, m) ==
    /\ a \in asks[c]
    /\ m \in msgbuff[c]
    /\ IsReply(a, m)
    /\ msgbuff' = [msgbuff EXCEPT ![c] = @ \ {m}]
    /\ asks' = [asks EXCEPT ![c] = (@ \ {a}) \cup
                   {[b EXCEPT !.left = @ - 1] : b \in {x \in {a} : x.left > 1}}]
    /\ answers' = answers \cup {[client |-> c, ask |-> [a EXCEPT !.left = 1],
                                 gaddr |-> m.gaddr, pkt |-> m.pkt]}
    /\ LET route == <<m.gaddr, m.pkt.forward>> IN
       \/ /\ a.what = "start"
          /\ default' = [default EXCEPT ![c] = route]
          /\ started' = started \cup {c}
          /\ UNCHANGED routes
       \/ /\ a.what = "probe"
          /\ routes' = [routes EXCEPT ![c][a.about] = route]
          /\ UNCHANGED <<default, started>>
       \/ /\ a.what = "stats"
          /\ UNCHANGED <<default, started, routes>>
    /\ UNCHANGED <<netVars, usedIds, injected, fs, forwardVars>>

\* The deadline of a request passes.  A client whose start fails is not used.
Timeout(c, a) ==
    /\ a \in asks[c]
    /\ asks' = [asks EXCEPT ![c] = @ \ {a}]
    /\ UNCHANGED <<netVars, started, usedIds, msgbuff, default, routes, injected,
                   answers, fs, forwardVars>>

-----------------------------------------------------------------------------
(***************************************************************************)
(* Client: the two service loops.                                          *)
(***************************************************************************)

\* route.Match for a flow.  ClientUplink.tla has its steps.
Match(c, fl) ==
    IF fl \in PlayFlow /\ ~FixRoute THEN routes[c][fl.server] ELSE default[c]

\* uplinkService: a captured segment is sent along its route.  (Mutated form: on
\* the default route as long as there is no other.)
CaptureMeanwhile(c, fl) ==
    /\ c \in started /\ fl \in Flow /\ fl.client = c
    /\ LET r == IF Match(c, fl) = NoAddr THEN default[c] ELSE Match(c, fl) IN
       toGateway' = toGateway \cup
         {[client |-> c, gateway |-> r[1],
           pkt |-> [kind |-> "Data", proto |-> fl.proto, client |-> NoAddr,
                    forward |-> r[2], server |-> fl.server,
                    src |-> fl.processPort, dst |-> fl.serverPort, tag |-> fl]]}
    /\ UNCHANGED <<toForward, fromForward, toClient, toServer, fromServer,
                   clientVars, fs, forwardVars>>
Capture(c, fl) ==
    /\ c \in started /\ fl \in Flow /\ fl.client = c
    /\ Match(c, fl) # NoAddr
    /\ toGateway' = toGateway \cup
         {[client |-> c, gateway |-> Match(c, fl)[1],
           pkt |-> [kind |-> "Data", proto |-> fl.proto, client |-> NoAddr,
                    forward |-> Match(c, fl)[2], server |-> fl.server,
                    src |-> fl.processPort, dst |-> fl.serverPort, tag |-> fl]]}
    /\ UNCHANGED <<toForward, fromForward, toClient, toServer, fromServer,
                   clientVars, fs, forwardVars>>

\* uplinkService: no route yet.  The segment is dropped, and unless a probe is
\* under way one starts (RouteProbe -> boardcastPingServer).
CaptureProbe(c, fl, id) ==
    /\ c \in started /\ fl \in Flow /\ fl.client = c
    /\ Match(c, fl) = NoAddr
    /\ \A a \in Waiting(c, "probe") : a.about # fl.server
    /\ Request(c, Gateway, {"PingServer"}, id, NoAddr, fl.server)
    /\ Await(c, "probe", id, fl.server, 1)
    /\ UNCHANGED <<toForward, fromForward, toClient, toServer, fromServer, started,
                   msgbuff, default, routes, injected, answers, fs, forwardVars>>

\* downlinkServic: messages are queued, segments are injected.
ClientDownlink(d) ==
    /\ d \in toClient
    /\ IF d.pkt.kind = "Data"
       THEN /\ injected' = injected \cup
                 {[ep |-> [client |-> d.client, proto |-> d.pkt.proto,
                           processPort |-> d.pkt.dst, server |-> d.pkt.server,
                           serverPort |-> d.pkt.src],
                   tag |-> d.pkt.tag]}
            /\ UNCHANGED msgbuff
       ELSE /\ msgbuff' = [msgbuff EXCEPT ![d.client] = @ \cup
                              {[gaddr |-> d.gateway, pkt |-> d.pkt]}]
            /\ UNCHANGED injected
    /\ UNCHANGED <<netVars, started, asks, usedIds, default, routes, answers, fs,
                   forwardVars>>

-----------------------------------------------------------------------------
(***************************************************************************)
(* Gateway.                                                                *)
(***************************************************************************)
AddForward(g, f) ==
    /\ f \notin fs[g]
    /\ fs' = [fs EXCEPT ![g] = @ \cup {f}]
    /\ UNCHANGED <<netVars, clientVars, forwardVars>>

\* The forwards a ping goes to: all of the gateway's if the client names none.
\* (Mutated form: all there are, registered with this gateway or not.)
PingTargetsAll(g, p) == IF p.forward = NoAddr THEN Forward ELSE {p.forward}
PingTargets(g, p) == IF p.forward = NoAddr THEN fs[g] ELSE {p.forward}

\* The forward a segment may be sent to.
Registered(g, p) == {f \in fs[g] : f = p.forward}

\* hdr.SetClient(caddr): whatever the client wrote there is overwritten.
\* (Mutated form: trust the client's own idea of its address.)
KeepClient(d) == d.pkt
SetClient(d) == [d.pkt EXCEPT !.client = d.client]

\* uplinkService, a datagram from a client.
GatewayUplink(d) ==
    /\ d \in toGateway
    /\ LET p == SetClient(d)
           Relay(forwards) ==
              /\ toForward' = toForward \cup
                   {[gateway |-> d.gateway, forward |-> f,
                     pkt |-> [p EXCEPT !.forward = f]] : f \in forwards}
              /\ UNCHANGED toClient
           Reply ==
              /\ toClient' = toClient \cup
                   {[gateway |-> d.gateway, client |-> d.client, pkt |-> p]}
              /\ UNCHANGED toForward
       IN \/ p.kind = "PingGateway" /\ Reply
          \/ p.kind \in {"PingForward", "PingServer"} /\ Relay(PingTargets(d.gateway, p))
          \/ p.kind = "PackLossClientUplink" /\ Reply
          \/ p.kind = "PackLossGatewayUplink" /\ Relay({p.forward})
          \/ /\ p.kind = "PackLossGatewayDownlink"
             /\ Registered(d.gateway, p) # {} /\ Reply
          \/ p.kind = "Data" /\ Relay(Registered(d.gateway, p))
    /\ UNCHANGED <<toGateway, fromForward, toServer, fromServer, clientVars, fs,
                   forwardVars>>

\* donwlinkService, a datagram from a forward.
GatewayDownlink(d) ==
    /\ d \in fromForward
    /\ \/ d.pkt.kind = "Data" /\ Registered(d.gateway, d.pkt) # {}
       \/ d.pkt.kind \in {"PackLossGatewayUplink", "PingForward", "PingServer"}
    /\ toClient' = toClient \cup
         {[gateway |-> d.gateway, client |-> d.pkt.client, pkt |-> d.pkt]}
    /\ UNCHANGED <<toGateway, toForward, fromForward, toServer, fromServer,
                   clientVars, fs, forwardVars>>

-----------------------------------------------------------------------------
(***************************************************************************)
(* Forward.                                                                *)
(***************************************************************************)

\* A datagram to an address where no forward runs, or runs no more, is lost.
Delivered(d) == d \in toForward /\ d.forward \in Forward \ down

\* uplinkService, a ping of the forward or a loss query: echoed to the gateway.
ForwardEcho(d) ==
    /\ Delivered(d)
    /\ d.pkt.kind \in {"PingForward", "PackLossGatewayUplink"}
    /\ fromForward' = fromForward \cup
         {[forward |-> d.forward, gateway |-> d.gateway,
           pkt |-> [d.pkt EXCEPT !.forward = d.forward]]}
    /\ UNCHANGED <<toGateway, toForward, toClient, toServer, fromServer, clientVars,
                   fs, forwardVars>>

\* uplinkService, a ping of a server: handed to the pinger.
ForwardPing(d) ==
    /\ Delivered(d)
    /\ d.pkt.kind = "PingServer"
    /\ pinging' = [pinging EXCEPT ![d.forward] = @ \cup
         {[gaddr |-> d.gateway, pkt |-> [d.pkt EXCEPT !.forward = d.forward]]}]
    /\ UNCHANGED <<netVars, clientVars, fs, links, down>>

\* The server echoes; recvService hands every ping that waits for it to
\* pingService, which answers the gateways.
Pong(f, s) ==
    /\ f \notin down
    /\ LET echoed == {i \in pinging[f] : i.pkt.server = s} IN
       /\ echoed # {}
       /\ pinging' = [pinging EXCEPT ![f] = @ \ echoed]
       /\ fromForward' = fromForward \cup
            {[forward |-> f, gateway |-> i.gaddr, pkt |-> i.pkt] : i \in echoed}
    /\ UNCHANGED <<toGateway, toForward, toClient, toServer, fromServer, clientVars,
                   fs, links, down>>

\* links.NewEP.  (Mutated forms: an endpoint that forgets the client, or the
\* server.)
NewEPNoClient(p) ==
    [client |-> CHOOSE c \in Client : TRUE, proto |-> p.proto, processPort |-> p.src,
     server |-> p.server, serverPort |-> p.dst]
NewEPNoServer(p) ==
    [client |-> p.client, proto |-> p.proto, processPort |-> p.src,
     server |-> CHOOSE s \in Server : TRUE, serverPort |-> p.dst]
NewEP(p) ==
    [client |-> p.client, proto |-> p.proto, processPort |-> p.src,
     server |-> p.server, serverPort |-> p.dst]

LinkOf(f, ep) == {l \in links : l.forward = f /\ l.ep = ep}

\* Ports the kernel may bind a new listener to: those no open link occupies.
FreePort(f, proto) ==
    {n \in LocalPort : \A l \in links :
        l.forward = f /\ l.ep.proto = proto => l.localPort # n}

NewLink(f, ep, gaddr, n) ==
    [forward |-> f, ep |-> ep, gaddr |-> gaddr, localPort |-> n]

\* Link.Send: the segment leaves from the link's local port to the link's
\* server address.  The destination port is the one in the segment.
Send(l, p) ==
    [forward |-> l.forward, localPort |-> l.localPort, proto |-> l.ep.proto,
     server |-> l.ep.server, serverPort |-> p.dst, tag |-> p.tag]

\* uplinkService, a segment of an endpoint that has a link ...
ForwardData(d) ==
    /\ Delivered(d)
    /\ d.pkt.kind = "Data"
    /\ \E l \in LinkOf(d.forward, NewEP(d.pkt)) :
          toServer' = toServer \cup {Send(l, d.pkt)}
    /\ UNCHANGED <<toGateway, toForward, fromForward, toClient, fromServer,
                   clientVars, fs, forwardVars>>

\* ... and of one that gets a new link.
ForwardNewLink(d) ==
    /\ Delivered(d)
    /\ d.pkt.kind = "Data"
    /\ LET ep == NewEP(d.pkt) IN
       /\ LinkOf(d.forward, ep) = {}
       /\ \E n \in FreePort(d.forward, ep.proto) :
             LET l == NewLink(d.forward, ep, d.gateway, n) IN
             /\ links' = links \cup {l}
             /\ toServer' = toServer \cup {Send(l, d.pkt)}
    /\ UNCHANGED <<toGateway, toForward, fromForward, toClient, fromServer,
                   clientVars, fs, down, pinging>>

\* The packets the raw socket of a link delivers: from the address it is
\* connected to, past the filter on both ports.  (Mutated form: no
\* bpfFilterPort.)
AcceptsFromServer(l, w) ==
    w.forward = l.forward /\ w.proto = l.ep.proto /\ w.server = l.ep.server
Accepts(l, w) ==
    /\ w.forward = l.forward /\ w.localPort = l.localPort /\ w.proto = l.ep.proto
    /\ w.server = l.ep.server /\ w.serverPort = l.ep.serverPort

\* Link.Recv and downlinkService: the segment is readdressed to the process's
\* port, gets the header prepared in newLink and goes to the link's gateway.
LinkRecv(l, w) ==
    /\ l \in links /\ w \in fromServer /\ Accepts(l, w)
    /\ fromForward' = fromForward \cup
         {[forward |-> l.forward, gateway |-> l.gaddr,
           pkt |-> [kind |-> "Data", proto |-> l.ep.proto, client |-> l.ep.client,
                    forward |-> l.forward, server |-> l.ep.server,
                    src |-> w.serverPort, dst |-> l.ep.processPort,
                    tag |-> w.tag]]}
    /\ UNCHANGED <<toGateway, toForward, toClient, toServer, fromServer, clientVars,
                   fs, forwardVars>>

\* A link closes, which frees its local port: keepalive has found no traffic, although
\* there may be some again by the time it closes the link, or Recv has met with an
\* error that is Temporary.  ForwardLinks.tla has the counter and the steps.
LinkCloses(l) ==
    /\ l \in links
    /\ links' = links \ {l}
    /\ UNCHANGED <<netVars, clientVars, fs, down, pinging>>

\* newLink, Send or f.conn fails, or Recv with an error that is not Temporary, or the
\* link of a segment is closed before the segment is written; and the forward is no
\* more.  Any of them may happen at any time.
ForwardCloses(f) ==
    /\ f \in Forward \ down
    /\ down' = down \cup {f}
    /\ links' = {l \in links : l.forward # f}
    /\ UNCHANGED <<netVars, clientVars, fs, pinging>>

\* A server answers a segment it received, to the address it came from.
ServerReply(w) ==
    /\ w \in toServer
    /\ Cardinality(fromServer) < MaxReplies
    /\ fromServer' = fromServer \cup {w}
    /\ UNCHANGED <<toGateway, toForward, fromForward, toClient, toServer, clientVars,
                   fs, forwardVars>>

-----------------------------------------------------------------------------
Next ==
    \/ \E c \in Client, id \in MsgId :
          \/ Start(c, id)
          \/ \E r \in Route : NetworkStats(c, r, id)
          \/ \E fl \in Flow : CaptureProbe(c, fl, id)
    \/ \E c \in Client : \E a \in asks[c] :
          \/ \E m \in msgbuff[c] : Answer(c, a, m)
          \/ Timeout(c, a)
    \/ \E c \in Client, fl \in Flow : Capture(c, fl)
    \/ \E d \in toClient : ClientDownlink(d)
    \/ \E g \in Gateway, f \in Forward : AddForward(g, f)
    \/ \E d \in toGateway : GatewayUplink(d)
    \/ \E d \in fromForward : GatewayDownlink(d)
    \/ \E d \in toForward :
          ForwardEcho(d) \/ ForwardPing(d) \/ ForwardData(d) \/ ForwardNewLink(d)
    \/ \E f \in Forward, s \in Server : Pong(f, s)
    \/ \E f \in Forward : ForwardCloses(f)
    \/ \E l \in links : LinkCloses(l) \/ \E w \in fromServer : LinkRecv(l, w)
    \/ \E w \in toServer : ServerReply(w)

Spec == Init /\ [][Next]_vars

-----------------------------------------------------------------------------
(***************************************************************************)
(* Properties.                                                             *)
(***************************************************************************)

\* The flows whose client has sent a segment.
Opened == {d.pkt.tag : d \in {x \in toGateway : x.pkt.kind = "Data"}}

\* Whatever is injected into a client's host looks like an answer to a flow
\* that a process of that very host has opened: the right client, process
\* port, server, server port and protocol, although five rewrites by three
\* nodes happen on the way (SetClient, NewEP, Link.Send, Link.Recv, the
\* client's IP header) and local ports are given out again.
FlowIsolation == \A i \in injected : i.ep \in Opened

\* A payload produced for one flow reaches another only through a local port
\* that the same forward gave to both, one after the other, towards the same
\* server socket: a late answer to a closed link.
CrossTalkNeedsPortReuse ==
    \A i \in injected : i.tag # i.ep =>
        \E x, y \in toServer :
            /\ x.tag = i.tag /\ y.tag = i.ep
            /\ x.forward = y.forward /\ x.localPort = y.localPort
            /\ x.proto = y.proto
            /\ x.server = y.server /\ x.serverPort = y.serverPort

\* A forward sends a server only what some game process addressed to that
\* very server, port and protocol.
ServerGetsItsOwn ==
    \A w \in toServer :
        /\ w.tag \in Opened
        /\ w.proto = w.tag.proto
        /\ w.server = w.tag.server /\ w.serverPort = w.tag.serverPort

\* A route a client has learned works: the gateway has the forward registered
\* and will not drop the client's segments ("not forward record").
RouteUsable ==
    \A c \in Client :
        \A r \in ({default[c]} \cup {routes[c][s] : s \in Server}) \ {NoAddr} :
            r \in Route /\ r[2] \in fs[r[1]]

\* An accepted answer is an answer: of the kind asked for, to this client, and
\* about the server or the route it asked about, although answers to several
\* requests, some timed out long ago, share one queue.
AnswerFits ==
    \A x \in answers :
        /\ x.pkt.client = x.client
        /\ CASE x.ask.what = "start" -> x.pkt.kind = "PingForward"
             [] x.ask.what = "probe" -> x.pkt.kind = "PingServer" /\ x.pkt.server = x.ask.about
             [] x.ask.what = "stats" -> /\ x.pkt.kind \in StatsKind
                                        /\ <<x.gaddr, x.pkt.forward>> = x.ask.about

\* A link answers through the gateway its flow's client sends to.  A link
\* keeps the gateway it was created for, so this rests on a client never
\* sending the same flow along two routes: play data is dropped, not sent
\* along the default route, until its own route is known.
ReturnPath ==
    \A l \in links : <<l.gaddr, l.forward>> = Match(l.ep.client, l.ep)
=============================================================================
