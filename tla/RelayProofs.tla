----------------------------- MODULE RelayProofs -----------------------------
(***************************************************************************)
(* Proofs about Relay: type correctness and the isolation of flows; then,  *)
(* of control messages and links, that a route a client has learned works, *)
(* that an accepted answer is one, and that a link answers through the     *)
(* gateway of its flow.                                                    *)
(***************************************************************************)
EXTENDS Relay, TLAPS

(***************************************************************************)
(* Type correctness.                                                       *)
(***************************************************************************)
LEMMA RequestType ==
  ASSUME TypeOK, NEW c \in Client, NEW gateways \in SUBSET Gateway,
         NEW kinds \in SUBSET (Ping \cup PackLoss), NEW id \in MsgId,
         NEW forward \in AnyForward, NEW server \in Server \cup {NoAddr},
         Request(c, gateways, kinds, id, forward, server)
  PROVE  toGateway' \subseteq [client: Client, gateway: Gateway, pkt: ClientPkt]
<1> SUFFICES ASSUME NEW d \in toGateway', d \notin toGateway
             PROVE  d \in [client: Client, gateway: Gateway, pkt: ClientPkt]
  BY DEF TypeOK
<1>1. PICK g \in gateways, k \in kinds :
        d = [client |-> c, gateway |-> g,
             pkt |-> [kind |-> k, client |-> NoAddr, forward |-> forward,
                      server |-> server, id |-> id]]
  BY DEF Request
<1>2. [kind |-> k, client |-> NoAddr, forward |-> forward, server |-> server,
       id |-> id] \in ClientPkt
  BY DEF ClientPkt, MsgPkt
<1> QED BY <1>1, <1>2

LEMMA AwaitType ==
  ASSUME TypeOK, NEW c \in Client, NEW what \in {"start", "probe", "stats"},
         NEW id \in MsgId, NEW about \in Server \cup AnyRoute, NEW left \in 1..5,
         Await(c, what, id, about, left)
  PROVE  asks' \in [Client -> SUBSET Ask] /\ usedIds' \in [Client -> SUBSET MsgId]
<1>1. [what |-> what, id |-> id, about |-> about, left |-> left] \in Ask
  BY DEF Ask
<1> QED BY <1>1 DEF Await, TypeOK

LEMMA SetClientType ==
  ASSUME TypeOK, NEW d \in toGateway
  PROVE  /\ SetClient(d) \in UpPkt
         /\ d.pkt.kind # "Data" => SetClient(d) \in MsgPkt(Client)
<1>1. d.client \in Client /\ d.pkt \in ClientPkt
  BY DEF TypeOK
<1>2. CASE d.pkt \in MsgPkt({NoAddr})
  <2>1. SetClient(d) \in MsgPkt(Client)
    BY <1>1, <1>2 DEF SetClient, MsgPkt
  <2> QED BY <2>1 DEF UpPkt
<1>3. CASE d.pkt \in DataPkt({NoAddr}, ProcPort, SrvPort)
  <2>1. SetClient(d) \in DataPkt(Client, ProcPort, SrvPort) /\ d.pkt.kind = "Data"
    BY <1>1, <1>3 DEF SetClient, DataPkt
  <2> QED BY <2>1 DEF UpPkt
<1> QED BY <1>1, <1>2, <1>3 DEF ClientPkt

LEMMA SetForwardType ==
  ASSUME NEW p \in UpPkt, NEW f \in AnyForward
  PROVE  [p EXCEPT !.forward = f] \in UpPkt
<1>1. CASE p \in MsgPkt(Client)
  BY <1>1 DEF UpPkt, MsgPkt
<1>2. CASE p \in DataPkt(Client, ProcPort, SrvPort)
  BY <1>2 DEF UpPkt, DataPkt
<1> QED BY <1>1, <1>2 DEF UpPkt

LEMMA GatewayUplinkType ==
  ASSUME TypeOK, NEW d \in toGateway, GatewayUplink(d)
  PROVE  /\ toForward' \subseteq [gateway: Gateway, forward: AnyForward, pkt: UpPkt]
         /\ toClient'  \subseteq [gateway: Gateway, client: Client, pkt: DownPkt]
<1> DEFINE p == SetClient(d)
           Relay(forwards) ==
              toForward \cup {[gateway |-> d.gateway, forward |-> f,
                               pkt |-> [p EXCEPT !.forward = f]] : f \in forwards}
           Reply == toClient \cup {[gateway |-> d.gateway, client |-> d.client, pkt |-> p]}
<1>1. d.gateway \in Gateway /\ d.client \in Client /\ p \in UpPkt
  BY SetClientType DEF TypeOK
<1>2. \A forwards \in SUBSET AnyForward :
        Relay(forwards) \subseteq [gateway: Gateway, forward: AnyForward, pkt: UpPkt]
  BY <1>1, SetForwardType DEF TypeOK
<1>3. p.kind = d.pkt.kind /\ p.forward \in AnyForward
  BY <1>1 DEF SetClient, UpPkt, DataPkt, MsgPkt, TypeOK, ClientPkt
<1>4. d.pkt.kind # "Data" =>
        Reply \subseteq [gateway: Gateway, client: Client, pkt: DownPkt]
  BY <1>1, SetClientType DEF TypeOK, DownPkt
<1>5. /\ PingTargets(d.gateway, p) \in SUBSET AnyForward
      /\ Registered(d.gateway, p) \in SUBSET AnyForward
      /\ {p.forward} \in SUBSET AnyForward
  BY <1>1, <1>3 DEF PingTargets, Registered, AnyForward, TypeOK
<1>6. \/ toForward' = toForward /\ toClient' = Reply /\ d.pkt.kind # "Data"
      \/ /\ toClient' = toClient
         /\ \E forwards \in SUBSET AnyForward : toForward' = Relay(forwards)
  BY <1>3, <1>5 DEF GatewayUplink
<1> QED BY <1>2, <1>4, <1>6 DEF TypeOK

LEMMA ForwardMsgType ==
  ASSUME TypeOK, NEW d \in toForward, Delivered(d), d.pkt.kind # "Data"
  PROVE  [d.pkt EXCEPT !.forward = d.forward] \in MsgPkt(Client)
<1>1. d.pkt \in MsgPkt(Client)
  BY DEF TypeOK, UpPkt, DataPkt
<1> QED BY <1>1 DEF Delivered, MsgPkt, AnyForward

LEMMA DataPktType ==
  ASSUME TypeOK, NEW d \in toForward, d.pkt.kind = "Data"
  PROVE  d.pkt \in DataPkt(Client, ProcPort, SrvPort)
BY DEF TypeOK, UpPkt, MsgPkt, Ping, PackLoss

LEMMA NewEPType ==
  ASSUME TypeOK, NEW d \in toForward, d.pkt.kind = "Data"
  PROVE  NewEP(d.pkt) \in Endpoint
BY DataPktType DEF DataPkt, NewEP, Endpoint

LEMMA SendType ==
  ASSUME TypeOK, NEW d \in toForward, d.pkt.kind = "Data", NEW l \in Link
  PROVE  Send(l, d.pkt) \in Segment
BY DataPktType DEF DataPkt, Send, Segment, Link, Endpoint

LEMMA TypeInit == Init => TypeOK
BY DEF Init, TypeOK, AnyRoute

LEMMA TypeStep == TypeOK /\ [Next]_vars => TypeOK'
<1> SUFFICES ASSUME TypeOK, [Next]_vars PROVE TypeOK'
  OBVIOUS
<1> USE DEF forwardVars, clientVars, netVars
<1>1. ASSUME NEW c \in Client, NEW id \in MsgId, Start(c, id)
      PROVE  TypeOK'
  <2>1. toGateway' \subseteq [client: Client, gateway: Gateway, pkt: ClientPkt]
    BY <1>1, RequestType DEF Start, Ping, AnyForward
  <2>2. asks' \in [Client -> SUBSET Ask] /\ usedIds' \in [Client -> SUBSET MsgId]
    BY <1>1, AwaitType DEF Start, AnyRoute
  <2> QED BY <1>1, <2>1, <2>2 DEF Start, TypeOK
<1>2. ASSUME NEW c \in Client, NEW id \in MsgId, NEW r \in Route,
             NetworkStats(c, r, id)
      PROVE  TypeOK'
  <2>1. r \in AnyRoute /\ r[1] \in Gateway /\ r[2] \in AnyForward
    BY DEF Route, AnyRoute, AnyForward
  <2>2. toGateway' \subseteq [client: Client, gateway: Gateway, pkt: ClientPkt]
    BY <1>2, <2>1, RequestType DEF NetworkStats, StatsKind, Ping
  <2>3. asks' \in [Client -> SUBSET Ask] /\ usedIds' \in [Client -> SUBSET MsgId]
    BY <1>2, <2>1, AwaitType DEF NetworkStats
  <2> QED BY <1>2, <2>2, <2>3 DEF NetworkStats, TypeOK
<1>3. ASSUME NEW c \in Client, NEW id \in MsgId, NEW fl \in Flow,
             CaptureProbe(c, fl, id)
      PROVE  TypeOK'
  <2>1. fl.server \in Server
    BY RelayAssumption DEF Endpoint
  <2>2. toGateway' \subseteq [client: Client, gateway: Gateway, pkt: ClientPkt]
    BY <1>3, <2>1, RequestType DEF CaptureProbe, AnyForward, Ping
  <2>3. asks' \in [Client -> SUBSET Ask] /\ usedIds' \in [Client -> SUBSET MsgId]
    BY <1>3, <2>1, AwaitType DEF CaptureProbe
  <2> QED BY <1>3, <2>2, <2>3 DEF CaptureProbe, TypeOK
<1>4. ASSUME NEW c \in Client, NEW a \in asks[c], NEW m \in msgbuff[c],
             Answer(c, a, m)
      PROVE  TypeOK'
  <2>1. a \in Ask /\ m \in [gaddr: Gateway, pkt: MsgPkt(Client)]
    BY DEF TypeOK
  <2>2. <<m.gaddr, m.pkt.forward>> \in AnyRoute
    BY <2>1 DEF AnyRoute, MsgPkt
  <2>3. default' \in [Client -> AnyRoute] /\ started' \subseteq Client
    BY <1>4, <2>2 DEF Answer, TypeOK
  <2>4. routes' \in [Client -> [Server -> AnyRoute]]
    <3> DEFINE row == [routes[c] EXCEPT ![a.about] = <<m.gaddr, m.pkt.forward>>]
    <3>1. row \in [Server -> AnyRoute]
      BY <2>2 DEF TypeOK
    <3>2. routes' = routes \/ routes' = [routes EXCEPT ![c] = row]
      BY <1>4 DEF Answer
    <3> HIDE DEF row
    <3> QED BY <3>1, <3>2 DEF TypeOK
  <2>5. msgbuff' \in [Client -> SUBSET [gaddr: Gateway, pkt: MsgPkt(Client)]]
    BY <1>4 DEF Answer, TypeOK
  <2>6. asks' \in [Client -> SUBSET Ask]
    <3>1. \A b \in {x \in {a} : x.left > 1} : [b EXCEPT !.left = @ - 1] \in Ask
      BY <2>1 DEF Ask
    <3> QED BY <1>4, <3>1 DEF Answer, TypeOK
  <2>7. answers' \subseteq [client: Client, ask: Ask, gaddr: Gateway, pkt: MsgPkt(Client)]
    <3> DEFINE x == [a EXCEPT !.left = 1]
    <3>1. x \in Ask
      BY <2>1 DEF Ask
    <3>2. answers' = answers \cup
            {[client |-> c, ask |-> x, gaddr |-> m.gaddr, pkt |-> m.pkt]}
      BY <1>4 DEF Answer
    <3> HIDE DEF x
    <3> QED BY <2>1, <3>1, <3>2 DEF TypeOK
  <2> QED BY <1>4, <2>3, <2>4, <2>5, <2>6, <2>7 DEF Answer, TypeOK
<1>5. ASSUME NEW c \in Client, NEW a \in asks[c], Timeout(c, a)
      PROVE  TypeOK'
  BY <1>5 DEF Timeout, TypeOK
<1>6. ASSUME NEW c \in Client, NEW fl \in Flow, Capture(c, fl)
      PROVE  TypeOK'
  <2>1. fl \in Endpoint
    BY RelayAssumption
  <2>2. Match(c, fl)[1] \in Gateway /\ Match(c, fl)[2] \in AnyForward
    BY <1>6, <2>1 DEF Capture, Match, TypeOK, AnyRoute, Endpoint
  <2>3. [kind |-> "Data", proto |-> fl.proto, client |-> NoAddr,
         forward |-> Match(c, fl)[2], server |-> fl.server,
         src |-> fl.processPort, dst |-> fl.serverPort, tag |-> fl] \in ClientPkt
    BY <2>1, <2>2 DEF ClientPkt, DataPkt, Endpoint
  <2>4. toGateway' \subseteq [client: Client, gateway: Gateway, pkt: ClientPkt]
    BY <1>6, <2>2, <2>3 DEF Capture, TypeOK
  <2> QED BY <1>6, <2>4 DEF Capture, TypeOK
<1>7. ASSUME NEW d \in toClient, ClientDownlink(d)
      PROVE  TypeOK'
  <2>1. d \in [gateway: Gateway, client: Client, pkt: DownPkt]
    BY DEF TypeOK
  <2>2. CASE d.pkt.kind = "Data"
    <3>1. d.pkt \in DataPkt(Client, SrvPort, ProcPort)
      BY <2>1, <2>2 DEF DownPkt, MsgPkt, Ping, PackLoss
    <3>2. injected' \subseteq [ep: Endpoint, tag: Endpoint]
      BY <1>7, <2>1, <2>2, <3>1 DEF ClientDownlink, TypeOK, DataPkt, Endpoint
    <3> QED BY <1>7, <2>2, <3>2 DEF ClientDownlink, TypeOK
  <2>3. CASE d.pkt.kind # "Data"
    <3>1. d.pkt \in MsgPkt(Client)
      BY <2>1, <2>3 DEF DownPkt, DataPkt
    <3>2. msgbuff' \in [Client -> SUBSET [gaddr: Gateway, pkt: MsgPkt(Client)]]
      BY <1>7, <2>1, <2>3, <3>1 DEF ClientDownlink, TypeOK
    <3> QED BY <1>7, <2>3, <3>2 DEF ClientDownlink, TypeOK
  <2> QED BY <2>2, <2>3
<1>8. ASSUME NEW g \in Gateway, NEW f \in Forward, AddForward(g, f)
      PROVE  TypeOK'
  BY <1>8 DEF AddForward, TypeOK
<1>9. ASSUME NEW d \in toGateway, GatewayUplink(d)
      PROVE  TypeOK'
  BY <1>9, GatewayUplinkType DEF GatewayUplink, TypeOK
<1>10. ASSUME NEW d \in fromForward, GatewayDownlink(d)
       PROVE  TypeOK'
  <2>1. d.gateway \in Gateway /\ d.pkt \in DownPkt
    BY DEF TypeOK
  <2>2. d.pkt.client \in Client
    BY <2>1 DEF DownPkt, DataPkt, MsgPkt
  <2> QED BY <1>10, <2>1, <2>2 DEF GatewayDownlink, TypeOK
<1>11. ASSUME NEW d \in toForward, ForwardEcho(d)
       PROVE  TypeOK'
  <2>1. [d.pkt EXCEPT !.forward = d.forward] \in MsgPkt(Client)
    BY <1>11, ForwardMsgType DEF ForwardEcho
  <2>2. d.forward \in Forward /\ d.gateway \in Gateway
    BY <1>11 DEF ForwardEcho, Delivered, TypeOK
  <2> DEFINE q == [d.pkt EXCEPT !.forward = d.forward]
  <2>3. fromForward' = fromForward \cup
          {[forward |-> d.forward, gateway |-> d.gateway, pkt |-> q]}
    BY <1>11 DEF ForwardEcho
  <2>4. q \in DownPkt
    BY <2>1 DEF DownPkt
  <2> HIDE DEF q
  <2>5. fromForward' \subseteq [forward: Forward, gateway: Gateway, pkt: DownPkt]
    BY <2>2, <2>3, <2>4 DEF TypeOK
  <2> QED BY <1>11, <2>5 DEF ForwardEcho, TypeOK
<1>12. ASSUME NEW d \in toForward, ForwardPing(d)
       PROVE  TypeOK'
  <2>1. [d.pkt EXCEPT !.forward = d.forward] \in MsgPkt(Client)
    BY <1>12, ForwardMsgType DEF ForwardPing
  <2>2. d.forward \in Forward /\ d.gateway \in Gateway
    BY <1>12 DEF ForwardPing, Delivered, TypeOK
  <2> DEFINE q == [d.pkt EXCEPT !.forward = d.forward]
  <2>3. pinging' = [pinging EXCEPT ![d.forward] = @ \cup
          {[gaddr |-> d.gateway, pkt |-> q]}]
    BY <1>12 DEF ForwardPing
  <2>4. q \in MsgPkt(Client)
    BY <2>1
  <2> HIDE DEF q
  <2>5. pinging' \in [Forward -> SUBSET [gaddr: Gateway, pkt: MsgPkt(Client)]]
    BY <2>2, <2>3, <2>4 DEF TypeOK
  <2> QED BY <1>12, <2>5 DEF ForwardPing, TypeOK
<1>13. ASSUME NEW f \in Forward, NEW s \in Server, Pong(f, s)
       PROVE  TypeOK'
  <2>1. pinging' \in [Forward -> SUBSET [gaddr: Gateway, pkt: MsgPkt(Client)]]
    BY <1>13 DEF Pong, TypeOK
  <2>2. fromForward' \subseteq [forward: Forward, gateway: Gateway, pkt: DownPkt]
    BY <1>13 DEF Pong, TypeOK, DownPkt
  <2> QED BY <1>13, <2>1, <2>2 DEF Pong, TypeOK
<1>14. ASSUME NEW d \in toForward, ForwardData(d)
       PROVE  TypeOK'
  <2>1. PICK l \in LinkOf(d.forward, NewEP(d.pkt)) : toServer' = toServer \cup {Send(l, d.pkt)}
    BY <1>14 DEF ForwardData
  <2>2. l \in Link
    BY DEF LinkOf, TypeOK
  <2>3. Send(l, d.pkt) \in Segment
    BY <1>14, <2>2, SendType DEF ForwardData
  <2> QED BY <1>14, <2>1, <2>3 DEF ForwardData, TypeOK
<1>15. ASSUME NEW d \in toForward, ForwardNewLink(d)
       PROVE  TypeOK'
  <2>1. PICK n \in FreePort(d.forward, NewEP(d.pkt).proto) :
           LET l == NewLink(d.forward, NewEP(d.pkt), d.gateway, n) IN
           /\ links' = links \cup {l}
           /\ toServer' = toServer \cup {Send(l, d.pkt)}
    BY <1>15 DEF ForwardNewLink
  <2> DEFINE l == NewLink(d.forward, NewEP(d.pkt), d.gateway, n)
  <2>2. NewEP(d.pkt) \in Endpoint
    BY <1>15, NewEPType DEF ForwardNewLink
  <2>3. l \in Link
    BY <1>15, <2>2 DEF NewLink, Link, FreePort, ForwardNewLink, Delivered, TypeOK
  <2>4. Send(l, d.pkt) \in Segment
    BY <1>15, <2>3, SendType DEF ForwardNewLink
  <2>5. links' \subseteq Link /\ toServer' \subseteq Segment
    BY <2>1, <2>3, <2>4 DEF TypeOK
  <2> QED BY <1>15, <2>5 DEF ForwardNewLink, TypeOK
<1>16. ASSUME NEW f \in Forward, ForwardCloses(f)
       PROVE  TypeOK'
  BY <1>16 DEF ForwardCloses, TypeOK
<1>17. ASSUME NEW l \in links, LinkCloses(l)
       PROVE  TypeOK'
  BY <1>17 DEF LinkCloses, TypeOK
<1>18. ASSUME NEW l \in links, NEW w \in fromServer, LinkRecv(l, w)
       PROVE  TypeOK'
  <2>1. l \in Link /\ w \in Segment
    BY DEF TypeOK
  <2>3. [kind |-> "Data", proto |-> l.ep.proto, client |-> l.ep.client,
         forward |-> l.forward, server |-> l.ep.server, src |-> w.serverPort,
         dst |-> l.ep.processPort, tag |-> w.tag] \in DownPkt
    BY <2>1 DEF DownPkt, DataPkt, Link, Segment, Endpoint, AnyForward
  <2>4. l.forward \in Forward /\ l.gaddr \in Gateway
    BY <2>1 DEF Link
  <2>6. fromForward' \subseteq [forward: Forward, gateway: Gateway, pkt: DownPkt]
    BY <1>18, <2>3, <2>4 DEF LinkRecv, TypeOK
  <2> QED BY <1>18, <2>6 DEF LinkRecv, TypeOK
<1>19. ASSUME NEW w \in toServer, ServerReply(w)
       PROVE  TypeOK'
  BY <1>19 DEF ServerReply, TypeOK
<1>20. CASE UNCHANGED vars
  BY <1>20 DEF vars, TypeOK
<1> QED
  BY <1>1, <1>2, <1>3, <1>4, <1>5, <1>6, <1>7, <1>8, <1>9, <1>10, <1>11, <1>12,
     <1>13, <1>14, <1>15, <1>16, <1>17, <1>18, <1>19, <1>20 DEF Next

\* Every variable keeps its type: in particular every datagram a node reads has
\* the header fields that node relies on, and a client's Client field is a real
\* address from the gateway on.
THEOREM TypeCorrect == Spec => []TypeOK
BY TypeInit, TypeStep, PTL DEF Spec

(***************************************************************************)
(* Isolation of flows.  A payload is followed over the eight places it can *)
(* be in; what is claimed of it at each place is what the next rewrite     *)
(* relies on.                                                              *)
(***************************************************************************)
\* The flow that a segment on its way to a client is readdressed to.
DownEP(p) ==
    [client |-> p.client, proto |-> p.proto, processPort |-> p.dst,
     server |-> p.server, serverPort |-> p.src]

\* One forward has sent payloads of both flows from one port to one socket.
SharedPort(tag, ep) ==
    \E x, y \in toServer :
        /\ x.tag = tag /\ y.tag = ep
        /\ x.forward = y.forward /\ x.localPort = y.localPort
        /\ x.proto = y.proto
        /\ x.server = y.server /\ x.serverPort = y.serverPort

Answers(tag, ep) == ep \in Opened /\ SharedPort(tag, ep)

ClientSends ==
    \A d \in toGateway : d.pkt.kind = "Data" =>
        d.pkt.tag = NewEP([d.pkt EXCEPT !.client = d.client])
GatewaySends ==
    \A d \in toForward : d.pkt.kind = "Data" =>
        d.pkt.tag = NewEP(d.pkt) /\ d.pkt.tag \in Opened
LinksInUse ==
    \A l \in links :
        /\ l.ep \in Opened
        /\ \E y \in toServer : /\ y.tag = l.ep /\ y.forward = l.forward
                               /\ y.localPort = l.localPort
ForwardReturns ==
    \A d \in fromForward : d.pkt.kind = "Data" => Answers(d.pkt.tag, DownEP(d.pkt))
GatewayReturns ==
    \A d \in toClient : d.pkt.kind = "Data" =>
        d.client = d.pkt.client /\ Answers(d.pkt.tag, DownEP(d.pkt))
Injects == \A i \in injected : Answers(i.tag, i.ep)

DataInv ==
    /\ TypeOK
    /\ ClientSends /\ GatewaySends /\ ServerGetsItsOwn
    /\ fromServer \subseteq toServer
    /\ LinksInUse /\ ForwardReturns /\ GatewayReturns /\ Injects

\* No network forgets what was written to it.
LEMMA Monotone ==
  ASSUME [Next]_vars
  PROVE  toGateway \subseteq toGateway' /\ toServer \subseteq toServer'
<1> USE DEF netVars, clientVars, forwardVars
<1>1. ASSUME NEW c \in Client, NEW id \in MsgId,
             \/ Start(c, id)
             \/ \E r \in Route : NetworkStats(c, r, id)
             \/ \E fl \in Flow : CaptureProbe(c, fl, id)
      PROVE  toGateway \subseteq toGateway' /\ toServer \subseteq toServer'
  BY <1>1 DEF Start, NetworkStats, CaptureProbe, Request
<1>2. ASSUME NEW c \in Client, NEW a \in asks[c],
             (\E m \in msgbuff[c] : Answer(c, a, m)) \/ Timeout(c, a)
      PROVE  toGateway \subseteq toGateway' /\ toServer \subseteq toServer'
  BY <1>2 DEF Answer, Timeout
<1>3. ASSUME NEW c \in Client, NEW fl \in Flow, Capture(c, fl)
      PROVE  toGateway \subseteq toGateway' /\ toServer \subseteq toServer'
  BY <1>3 DEF Capture
<1>4. ASSUME NEW d, \/ ClientDownlink(d) \/ GatewayUplink(d) \/ GatewayDownlink(d)
      PROVE  toGateway \subseteq toGateway' /\ toServer \subseteq toServer'
  BY <1>4 DEF ClientDownlink, GatewayUplink, GatewayDownlink
<1>5. ASSUME NEW g, NEW f, AddForward(g, f)
      PROVE  toGateway \subseteq toGateway' /\ toServer \subseteq toServer'
  BY <1>5 DEF AddForward
<1>6. ASSUME NEW d, \/ ForwardEcho(d) \/ ForwardPing(d) \/ ForwardData(d)
                    \/ ForwardNewLink(d) \/ ForwardCloses(d)
      PROVE  toGateway \subseteq toGateway' /\ toServer \subseteq toServer'
  BY <1>6 DEF ForwardEcho, ForwardPing, ForwardData, ForwardNewLink, ForwardCloses
<1>7. ASSUME NEW f, NEW s, Pong(f, s)
      PROVE  toGateway \subseteq toGateway' /\ toServer \subseteq toServer'
  BY <1>7 DEF Pong
<1>8. ASSUME NEW l, LinkCloses(l) \/ \E w \in fromServer : LinkRecv(l, w)
      PROVE  toGateway \subseteq toGateway' /\ toServer \subseteq toServer'
  BY <1>8 DEF LinkCloses, LinkRecv
<1>9. ASSUME NEW w, ServerReply(w)
      PROVE  toGateway \subseteq toGateway' /\ toServer \subseteq toServer'
  BY <1>9 DEF ServerReply
<1>10. CASE UNCHANGED vars
  BY <1>10 DEF vars
<1> QED
  BY <1>1, <1>2, <1>3, <1>4, <1>5, <1>6, <1>7, <1>8, <1>9, <1>10 DEF Next

\* What a step leaves alone stays true of the networks that only grow.
LEMMA Frame ==
  ASSUME DataInv, toGateway \subseteq toGateway', toServer \subseteq toServer'
  PROVE  /\ \A ep : ep \in Opened => ep \in Opened'
         /\ \A tag, ep : Answers(tag, ep) => Answers(tag, ep)'
         /\ toGateway' = toGateway => ClientSends'
         /\ toForward' = toForward => GatewaySends'
         /\ toServer' = toServer => ServerGetsItsOwn'
         /\ fromServer' = fromServer => fromServer' \subseteq toServer'
         /\ (\A l \in links' : \E k \in links : k.ep = l.ep /\ k.forward = l.forward
                                    /\ k.localPort = l.localPort) => LinksInUse'
         /\ fromForward' = fromForward => ForwardReturns'
         /\ toClient' = toClient => GatewayReturns'
         /\ injected' = injected => Injects'
<1>1. \A ep : ep \in Opened => ep \in Opened'
  BY DEF Opened
<1>2. \A tag, ep : SharedPort(tag, ep) => SharedPort(tag, ep)'
  BY DEF SharedPort
<1>3. \A tag, ep : Answers(tag, ep) => Answers(tag, ep)'
  BY <1>1, <1>2 DEF Answers
<1>4. toGateway' = toGateway => ClientSends'
  BY DEF DataInv, ClientSends, NewEP
<1>5. toForward' = toForward => GatewaySends'
  BY <1>1 DEF DataInv, GatewaySends
<1>6. toServer' = toServer => ServerGetsItsOwn'
  BY <1>1 DEF DataInv, ServerGetsItsOwn
<1>7. fromServer' = fromServer => fromServer' \subseteq toServer'
  BY DEF DataInv
<1>8. (\A l \in links' : \E k \in links : k.ep = l.ep /\ k.forward = l.forward
                              /\ k.localPort = l.localPort) => LinksInUse'
  BY <1>1 DEF DataInv, LinksInUse
<1>9. fromForward' = fromForward => ForwardReturns'
  BY <1>3 DEF DataInv, ForwardReturns, DownEP
<1>10. toClient' = toClient => GatewayReturns'
  BY <1>3 DEF DataInv, GatewayReturns, DownEP
<1>11. injected' = injected => Injects'
  BY <1>3 DEF DataInv, Injects
<1> QED
  BY <1>1, <1>3, <1>4, <1>5, <1>6, <1>7, <1>8, <1>9, <1>10, <1>11

LEMMA RequestSends ==
  ASSUME DataInv, NEW c, NEW gateways, NEW kinds \in SUBSET (Ping \cup PackLoss),
         NEW id, NEW forward, NEW server,
         Request(c, gateways, kinds, id, forward, server)
  PROVE  ClientSends'
<1> SUFFICES ASSUME NEW d \in toGateway', d.pkt.kind = "Data"
             PROVE  d.pkt.tag = NewEP([d.pkt EXCEPT !.client = d.client])
  BY DEF ClientSends, NewEP
<1>1. "Data" \notin Ping \cup PackLoss
  BY DEF Ping, PackLoss
<1>2. d \in toGateway
  BY <1>1 DEF Request
<1> QED BY <1>2 DEF DataInv, ClientSends

LEMMA CaptureSends ==
  ASSUME DataInv, NEW c \in Client, NEW fl \in Flow, Capture(c, fl)
  PROVE  ClientSends'
<1> DEFINE p == [kind |-> "Data", proto |-> fl.proto, client |-> NoAddr,
                 forward |-> Match(c, fl)[2], server |-> fl.server,
                 src |-> fl.processPort, dst |-> fl.serverPort, tag |-> fl]
           m == [client |-> c, gateway |-> Match(c, fl)[1], pkt |-> p]
<1>1. toGateway' = toGateway \cup {m}
  BY DEF Capture
<1>2. fl \in Endpoint /\ fl.client = c
  BY RelayAssumption DEF Capture
<1>3. NewEP([p EXCEPT !.client = c])
        = [client |-> c, proto |-> fl.proto, processPort |-> fl.processPort,
           server |-> fl.server, serverPort |-> fl.serverPort]
  BY DEF NewEP
<1>4. p.tag = NewEP([p EXCEPT !.client = c])
  BY <1>2, <1>3 DEF Endpoint
<1>5. m.pkt = p /\ m.client = c
  OBVIOUS
<1> HIDE DEF p, m
<1> QED BY <1>1, <1>4, <1>5 DEF DataInv, ClientSends, NewEP

LEMMA GatewayUplinkSends ==
  ASSUME DataInv, NEW d \in toGateway, GatewayUplink(d),
         toGateway \subseteq toGateway', toServer \subseteq toServer'
  PROVE  GatewaySends' /\ GatewayReturns'
<1> DEFINE p == SetClient(d)
           q(f) == [p EXCEPT !.forward = f]
<1>1. d.pkt \in ClientPkt /\ d.client \in Client
  BY DEF DataInv, TypeOK
<1>2. p.kind = d.pkt.kind
  BY <1>1 DEF SetClient, ClientPkt, DataPkt, MsgPkt
<1>3. \A f : q(f).kind = p.kind
  BY <1>1 DEF SetClient, ClientPkt, DataPkt, MsgPkt
<1>4. ASSUME d.pkt.kind = "Data", NEW f
      PROVE  q(f).tag = NewEP(q(f)) /\ q(f).tag \in Opened
  <2>1. d.pkt \in DataPkt({NoAddr}, ProcPort, SrvPort)
    BY <1>1, <1>4 DEF ClientPkt, MsgPkt, Ping, PackLoss
  <2>2. q(f).tag = d.pkt.tag /\ NewEP(q(f)) = NewEP(p)
    BY <2>1 DEF SetClient, DataPkt, NewEP
  <2>3. d.pkt.tag = NewEP(p)
    BY <1>4 DEF DataInv, ClientSends, SetClient
  <2>4. d.pkt.tag \in Opened
    BY <1>4 DEF Opened
  <2> QED BY <2>2, <2>3, <2>4
<1>5. \/ /\ toForward' = toForward
         /\ p.kind # "Data"
         /\ toClient' = toClient \cup
              {[gateway |-> d.gateway, client |-> d.client, pkt |-> p]}
      \/ /\ toClient' = toClient
         /\ \E forwards : toForward' = toForward \cup
              {[gateway |-> d.gateway, forward |-> f, pkt |-> q(f)] : f \in forwards}
  BY DEF GatewayUplink
<1>6. GatewaySends'
  <2> HIDE DEF p, q
  <2>1. ASSUME NEW x \in toForward', x.pkt.kind = "Data", x \notin toForward
        PROVE  x.pkt.tag = NewEP(x.pkt) /\ x.pkt.tag \in Opened'
    <3>1. PICK f : x = [gateway |-> d.gateway, forward |-> f, pkt |-> q(f)]
      BY <1>5, <2>1
    <3> QED BY <1>2, <1>3, <1>4, <2>1, <3>1, Frame
  <2> QED BY <2>1, Frame DEF DataInv, GatewaySends
<1>7. GatewayReturns'
  <2> HIDE DEF p, q
  <2>1. \A x \in toClient' : x.pkt.kind = "Data" => x \in toClient
    BY <1>5
  <2> QED BY <2>1, Frame DEF DataInv, GatewayReturns, DownEP
<1> QED BY <1>6, <1>7

\* A segment that a forward sends out of a link for which it was looked up or
\* created keeps the claims about servers and links.
LEMMA SegmentSent ==
  ASSUME DataInv, NEW d \in toForward, d.pkt.kind = "Data",
         NEW l \in Link, l.ep = NewEP(d.pkt), l.forward = d.forward,
         toServer' = toServer \cup {Send(l, d.pkt)}, toGateway' = toGateway,
         \A k \in links' : \/ k.ep = l.ep /\ k.forward = l.forward
                                /\ k.localPort = l.localPort
                           \/ k \in links
  PROVE  ServerGetsItsOwn' /\ LinksInUse'
<1>1. d.pkt.tag = l.ep /\ d.pkt.tag \in Opened
  BY DEF DataInv, GatewaySends
<1>2. d.pkt \in DataPkt(Client, ProcPort, SrvPort)
  BY DataPktType DEF DataInv
<1>3. /\ Send(l, d.pkt).tag = l.ep /\ Send(l, d.pkt).proto = l.ep.proto
      /\ Send(l, d.pkt).server = l.ep.server
      /\ Send(l, d.pkt).serverPort = l.ep.serverPort
      /\ Send(l, d.pkt).forward = l.forward /\ Send(l, d.pkt).localPort = l.localPort
  BY <1>1, <1>2 DEF Send, NewEP, DataPkt
<1>4. ServerGetsItsOwn'
  BY <1>1, <1>3 DEF DataInv, ServerGetsItsOwn, Opened
<1>5. LinksInUse'
  BY <1>1, <1>3 DEF DataInv, LinksInUse, Opened
<1> QED BY <1>4, <1>5

\* What a link receives answers the flow the link was opened for.
LEMMA SegmentReceived ==
  ASSUME DataInv, NEW l \in links, NEW w \in fromServer, Accepts(l, w)
  PROVE  Answers(w.tag, l.ep)
<1>1. w \in toServer
  BY DEF DataInv
<1>2. PICK y \in toServer : y.tag = l.ep /\ y.forward = l.forward
                             /\ y.localPort = l.localPort
  BY DEF DataInv, LinksInUse
<1>3. /\ y.proto = l.ep.proto /\ y.server = l.ep.server
      /\ y.serverPort = l.ep.serverPort
  BY <1>2 DEF DataInv, ServerGetsItsOwn
<1>4. SharedPort(w.tag, l.ep)
  BY <1>1, <1>2, <1>3 DEF SharedPort, Accepts
<1> QED BY <1>4 DEF Answers, DataInv, LinksInUse

LEMMA LinkRecvReturns ==
  ASSUME DataInv, NEW l \in links, NEW w \in fromServer, LinkRecv(l, w),
         toServer \subseteq toServer', toGateway \subseteq toGateway'
  PROVE  ForwardReturns'
<1> DEFINE p == [kind |-> "Data", proto |-> l.ep.proto, client |-> l.ep.client,
                 forward |-> l.forward, server |-> l.ep.server,
                 src |-> w.serverPort, dst |-> l.ep.processPort, tag |-> w.tag]
<1>1. l.ep \in Endpoint
  BY DEF DataInv, TypeOK, Link
<1>2. w.serverPort = l.ep.serverPort
  BY DEF LinkRecv, Accepts
<1>3. DownEP(p) = l.ep /\ p.tag = w.tag
  BY <1>1, <1>2 DEF DownEP, Endpoint
<1>4. Answers(p.tag, DownEP(p))
  BY <1>3, SegmentReceived DEF LinkRecv
<1>5. fromForward' = fromForward \cup
        {[forward |-> l.forward, gateway |-> l.gaddr, pkt |-> p]}
  BY DEF LinkRecv
<1> HIDE DEF p
<1> QED BY <1>4, <1>5, Frame DEF DataInv, ForwardReturns, DownEP

\* A message is no segment, whatever is done to its fields.
LEMMA MessagesReturn ==
  ASSUME DataInv, toServer \subseteq toServer', toGateway \subseteq toGateway',
         \A d \in fromForward' \ fromForward : d.pkt \in MsgPkt(Client)
  PROVE  ForwardReturns'
<1>1. \A d \in fromForward' \ fromForward : d.pkt.kind # "Data"
  BY DEF MsgPkt, Ping, PackLoss
<1> QED BY <1>1, Frame DEF DataInv, ForwardReturns, DownEP

LEMMA DataInvStep == DataInv /\ [Next]_vars => DataInv'
<1> SUFFICES ASSUME DataInv, [Next]_vars PROVE DataInv'
  OBVIOUS
<1> USE DEF netVars, clientVars, forwardVars
<1>t. TypeOK'
  BY TypeStep DEF DataInv
<1>m. toGateway \subseteq toGateway' /\ toServer \subseteq toServer'
  BY Monotone
<1>1. ASSUME NEW c \in Client, NEW id \in MsgId, Start(c, id)
      PROVE  DataInv'
  <2>1. ClientSends'
    BY <1>1, RequestSends DEF Start, Ping
  <2> QED BY <1>1, <1>t, <1>m, <2>1, Frame DEF Start, DataInv
<1>2. ASSUME NEW c \in Client, NEW id \in MsgId, NEW r \in Route,
             NetworkStats(c, r, id)
      PROVE  DataInv'
  <2>1. ClientSends'
    BY <1>2, RequestSends DEF NetworkStats, StatsKind, Ping
  <2> QED BY <1>2, <1>t, <1>m, <2>1, Frame DEF NetworkStats, DataInv
<1>3. ASSUME NEW c \in Client, NEW id \in MsgId, NEW fl \in Flow,
             CaptureProbe(c, fl, id)
      PROVE  DataInv'
  <2>1. ClientSends'
    BY <1>3, RequestSends DEF CaptureProbe, Ping
  <2> QED BY <1>3, <1>t, <1>m, <2>1, Frame DEF CaptureProbe, DataInv
<1>4. ASSUME NEW c \in Client, NEW a \in asks[c], NEW m \in msgbuff[c],
             Answer(c, a, m)
      PROVE  DataInv'
  BY <1>4, <1>t, <1>m, Frame DEF Answer, DataInv
<1>5. ASSUME NEW c \in Client, NEW a \in asks[c], Timeout(c, a)
      PROVE  DataInv'
  BY <1>5, <1>t, <1>m, Frame DEF Timeout, DataInv
<1>6. ASSUME NEW c \in Client, NEW fl \in Flow, Capture(c, fl)
      PROVE  DataInv'
  <2>1. ClientSends'
    BY <1>6, CaptureSends
  <2> QED BY <1>6, <1>t, <1>m, <2>1, Frame DEF Capture, DataInv
<1>7. ASSUME NEW d \in toClient, ClientDownlink(d)
      PROVE  DataInv'
  <2>1. Injects'
    <3>1. CASE d.pkt.kind = "Data"
      <4>1. Answers(d.pkt.tag, DownEP(d.pkt)) /\ d.client = d.pkt.client
        BY <3>1 DEF DataInv, GatewayReturns
      <4>2. injected' = injected \cup {[ep |-> DownEP(d.pkt), tag |-> d.pkt.tag]}
        BY <1>7, <3>1, <4>1 DEF ClientDownlink, DownEP
      <4> QED BY <1>m, <4>1, <4>2, Frame DEF DataInv, Injects
    <3>2. CASE d.pkt.kind # "Data"
      BY <1>7, <1>m, <3>2, Frame DEF ClientDownlink
    <3> QED BY <3>1, <3>2
  <2> QED BY <1>7, <1>t, <1>m, <2>1, Frame DEF ClientDownlink, DataInv
<1>8. ASSUME NEW g \in Gateway, NEW f \in Forward, AddForward(g, f)
      PROVE  DataInv'
  BY <1>8, <1>t, <1>m, Frame DEF AddForward, DataInv
<1>9. ASSUME NEW d \in toGateway, GatewayUplink(d)
      PROVE  DataInv'
  <2>1. GatewaySends' /\ GatewayReturns'
    BY <1>9, <1>m, GatewayUplinkSends
  <2> QED BY <1>9, <1>t, <1>m, <2>1, Frame DEF GatewayUplink, DataInv
<1>10. ASSUME NEW d \in fromForward, GatewayDownlink(d)
       PROVE  DataInv'
  <2>1. GatewayReturns'
    <3>1. d.pkt.kind = "Data" => Answers(d.pkt.tag, DownEP(d.pkt))
      BY DEF DataInv, ForwardReturns
    <3> QED BY <1>10, <1>m, <3>1, Frame
            DEF GatewayDownlink, DataInv, GatewayReturns, DownEP
  <2> QED BY <1>10, <1>t, <1>m, <2>1, Frame DEF GatewayDownlink, DataInv
<1>11. ASSUME NEW d \in toForward, ForwardEcho(d)
       PROVE  DataInv'
  <2>1. [d.pkt EXCEPT !.forward = d.forward] \in MsgPkt(Client)
    BY <1>11, ForwardMsgType DEF ForwardEcho, DataInv
  <2>2. \A x \in fromForward' \ fromForward : x.pkt \in MsgPkt(Client)
    BY <1>11, <2>1 DEF ForwardEcho
  <2>3. ForwardReturns'
    BY <1>m, <2>2, MessagesReturn
  <2> QED BY <1>11, <1>t, <1>m, <2>3, Frame DEF ForwardEcho, DataInv
<1>12. ASSUME NEW d \in toForward, ForwardPing(d)
       PROVE  DataInv'
  BY <1>12, <1>t, <1>m, Frame DEF ForwardPing, DataInv
<1>13. ASSUME NEW f \in Forward, NEW s \in Server, Pong(f, s)
       PROVE  DataInv'
  <2>1. \A x \in fromForward' \ fromForward : x.pkt \in MsgPkt(Client)
    BY <1>13 DEF Pong, DataInv, TypeOK
  <2>2. ForwardReturns'
    BY <1>m, <2>1, MessagesReturn
  <2> QED BY <1>13, <1>t, <1>m, <2>2, Frame DEF Pong, DataInv
<1>14. ASSUME NEW d \in toForward, ForwardData(d)
       PROVE  DataInv'
  <2>1. PICK l \in LinkOf(d.forward, NewEP(d.pkt)) : toServer' = toServer \cup {Send(l, d.pkt)}
    BY <1>14 DEF ForwardData
  <2>2. l \in Link /\ l.ep = NewEP(d.pkt) /\ l.forward = d.forward
    BY DEF LinkOf, DataInv, TypeOK
  <2>3. ServerGetsItsOwn' /\ LinksInUse'
    BY <1>14, <2>1, <2>2, SegmentSent DEF ForwardData
  <2> QED BY <1>14, <1>t, <1>m, <2>3, Frame DEF ForwardData, DataInv
<1>15. ASSUME NEW d \in toForward, ForwardNewLink(d)
       PROVE  DataInv'
  <2>1. PICK n \in FreePort(d.forward, NewEP(d.pkt).proto) :
           LET l == NewLink(d.forward, NewEP(d.pkt), d.gateway, n) IN
           /\ links' = links \cup {l}
           /\ toServer' = toServer \cup {Send(l, d.pkt)}
    BY <1>15 DEF ForwardNewLink
  <2> DEFINE l == NewLink(d.forward, NewEP(d.pkt), d.gateway, n)
  <2>2. l.ep = NewEP(d.pkt) /\ l.forward = d.forward
    BY DEF NewLink
  <2>3. l \in Link
    BY <1>t, <2>1 DEF TypeOK
  <2> HIDE DEF l
  <2>4. ServerGetsItsOwn' /\ LinksInUse'
    BY <1>15, <2>1, <2>2, <2>3, SegmentSent DEF ForwardNewLink, l
  <2> QED BY <1>15, <1>t, <1>m, <2>4, Frame DEF ForwardNewLink, DataInv
<1>16. ASSUME NEW f \in Forward, ForwardCloses(f)
       PROVE  DataInv'
  BY <1>16, <1>t, <1>m, Frame DEF ForwardCloses, DataInv
<1>17. ASSUME NEW l \in links, LinkCloses(l)
       PROVE  DataInv'
  BY <1>17, <1>t, <1>m, Frame DEF LinkCloses, DataInv
<1>18. ASSUME NEW l \in links, NEW w \in fromServer, LinkRecv(l, w)
       PROVE  DataInv'
  <2>1. ForwardReturns'
    BY <1>18, <1>m, LinkRecvReturns
  <2> QED BY <1>18, <1>t, <1>m, <2>1, Frame DEF LinkRecv, DataInv
<1>19. ASSUME NEW w \in toServer, ServerReply(w)
       PROVE  DataInv'
  <2>1. fromServer' \subseteq toServer'
    BY <1>19 DEF ServerReply, DataInv
  <2> QED BY <1>19, <1>t, <1>m, <2>1, Frame DEF ServerReply, DataInv
<1>20. CASE UNCHANGED vars
  BY <1>20, <1>t, <1>m, Frame DEF vars, DataInv
<1> QED
  BY <1>1, <1>2, <1>3, <1>4, <1>5, <1>6, <1>7, <1>8, <1>9, <1>10, <1>11, <1>12,
     <1>13, <1>14, <1>15, <1>16, <1>17, <1>18, <1>19, <1>20 DEF Next

LEMMA DataInvCorrect == Spec => []DataInv
<1>1. Init => DataInv
  BY TypeInit DEF Init, DataInv, ClientSends, GatewaySends, ServerGetsItsOwn,
     LinksInUse, ForwardReturns, GatewayReturns, Injects
<1> QED BY <1>1, DataInvStep, PTL DEF Spec

\* Nothing is ever injected into a client's host but what looks like an answer
\* to a flow of that host, for any number of nodes, flows, ports and replies,
\* and whatever the networks lose, repeat or reorder.
THEOREM FlowIsolationCorrect == Spec => []FlowIsolation
<1>1. DataInv => FlowIsolation
  BY DEF DataInv, Injects, Answers, FlowIsolation
<1> QED BY <1>1, DataInvCorrect, PTL

\* A payload of another flow can only have come through a local port that both
\* flows had in turn.
THEOREM CrossTalkCorrect == Spec => []CrossTalkNeedsPortReuse
<1>1. DataInv => CrossTalkNeedsPortReuse
  BY DEF DataInv, Injects, Answers, SharedPort, CrossTalkNeedsPortReuse
<1> QED BY <1>1, DataInvCorrect, PTL

\* A forward only sends a server what was addressed to it.
THEOREM ServerGetsItsOwnCorrect == Spec => []ServerGetsItsOwn
<1>1. DataInv => ServerGetsItsOwn
  BY DEF DataInv
<1> QED BY <1>1, DataInvCorrect, PTL

-----------------------------------------------------------------------------
(***************************************************************************)
(* A request is under way only while what it would learn is not known: the *)
(* one of start is alone and comes before anything else, and a probe is    *)
(* the only one of its server.                                             *)
(***************************************************************************)
AskSound(c, a) ==
  /\ a.id \in usedIds[c]
  /\ a.what = "start" => c \notin started /\ a.left = 1 /\ asks[c] = {a}
  /\ a.what = "probe" => /\ c \in started /\ a.left = 1 /\ a.about \in Server
                         /\ routes[c][a.about] = NoAddr
                         /\ \A b \in asks[c] : b.what = "probe" /\ b.about = a.about => b = a
  /\ a.what = "stats" => c \in started /\ a.about \in Route

AsksSound == \A c \in Client : \A a \in asks[c] : AskSound(c, a)

RoutesOfStarted ==
  \A c \in Client : IF c \in started
                    THEN default[c] # NoAddr /\ usedIds[c] # {}
                    ELSE default[c] = NoAddr /\ \A s \in Server : routes[c][s] = NoAddr

(***************************************************************************)
(* A message is followed over the six places it can be in.  It carries an  *)
(* id its client has drawn, and answers the request of that id, if the     *)
(* client still waits; no request gets the id of an earlier one.           *)
(***************************************************************************)
Fits(a, g, p) ==
  /\ a.what = "start" => p.kind = "PingForward"
  /\ a.what = "probe" => p.kind = "PingServer" /\ p.server = a.about
  /\ a.what = "stats" => p.kind \in StatsKind /\ <<g, p.forward>> = a.about

Tracked(c, g, p) ==
  p.kind # "Data" => /\ p.id \in usedIds[c]
                     /\ \A a \in asks[c] : a.id = p.id => Fits(a, g, p)

\* From the gateway on, a message names a forward that is registered there.
Relayed(c, g, p) == Tracked(c, g, p) /\ (p.kind # "Data" => p.forward \in fs[g])

Asked ==
  \A d \in toGateway :
    /\ Tracked(d.client, d.gateway, d.pkt)
    /\ d.pkt.kind # "Data" =>
         \/ d.pkt.forward \in fs[d.gateway]
         \/ d.pkt.forward = NoAddr /\ d.pkt.kind \in {"PingForward", "PingServer"}
Passed == \A d \in toForward : /\ Relayed(d.pkt.client, d.gateway, d.pkt)
                               /\ d.pkt.forward = d.forward
Waits  == \A f \in Forward : \A i \in pinging[f] : Relayed(i.pkt.client, i.gaddr, i.pkt)
Echoed == \A d \in fromForward : Relayed(d.pkt.client, d.gateway, d.pkt)
Told   == \A d \in toClient : Relayed(d.client, d.gateway, d.pkt) /\ d.pkt.client = d.client
Queued == \A c \in Client : \A m \in msgbuff[c] :
             Relayed(c, m.gaddr, m.pkt) /\ m.pkt.client = c

Messages == Asked /\ Passed /\ Waits /\ Echoed /\ Told /\ Queued

ControlInv ==
  /\ TypeOK
  /\ AsksSound /\ RoutesOfStarted /\ Messages
  /\ RouteUsable /\ AnswerFits

(***************************************************************************)
(* A segment is on the route of its flow, which never changes once known.  *)
(***************************************************************************)
OnRoute ==
  /\ \A d \in toGateway : d.pkt.kind = "Data" =>
       <<d.gateway, d.pkt.forward>> = Match(d.client, d.pkt.tag)
  /\ \A d \in toForward : d.pkt.kind = "Data" =>
       <<d.gateway, d.forward>> = Match(d.pkt.client, d.pkt.tag)

PathInv == DataInv /\ ControlInv /\ OnRoute /\ ReturnPath

-----------------------------------------------------------------------------
(* Packets *)

LEMMA PktFields ==
  ASSUME TypeOK
  PROVE  /\ \A d \in toGateway : d.client \in Client /\ d.gateway \in Gateway
         /\ \A d \in toForward : d.pkt.client \in Client /\ d.gateway \in Gateway
         /\ \A d \in fromForward : /\ d.pkt.client \in Client /\ d.gateway \in Gateway
                                   /\ d.pkt.kind # "Data" => d.pkt \in MsgPkt(Client)
         /\ \A d \in toClient : /\ d.client \in Client /\ d.gateway \in Gateway
                                /\ d.pkt.kind # "Data" => d.pkt \in MsgPkt(Client)
         /\ \A f \in Forward : \A i \in pinging[f] :
              i.pkt.client \in Client /\ i.gaddr \in Gateway /\ i.pkt \in MsgPkt(Client)
         /\ \A c \in Client : \A m \in msgbuff[c] :
              m.gaddr \in Gateway /\ m.pkt \in MsgPkt(Client)
<1>1. \A p \in UpPkt \cup DownPkt : p.client \in Client /\ (p.kind # "Data" => p \in MsgPkt(Client))
  BY DEF UpPkt, DownPkt, DataPkt, MsgPkt
<1>2. \A p \in MsgPkt(Client) : p.client \in Client
  BY DEF MsgPkt
<1>3. QED
  BY <1>1, <1>2 DEF TypeOK

LEMMA MessageKind == \A p \in MsgPkt(Client) : p.kind # "Data"
BY DEF MsgPkt, Ping, PackLoss

\* What a gateway or a forward that readdresses a packet leaves of it.
LEMMA Readdressed ==
  ASSUME NEW p \in UpPkt, NEW f
  PROVE  LET q == [p EXCEPT !.forward = f] IN
         /\ q.kind = p.kind /\ q.client = p.client /\ q.forward = f
         /\ p.kind # "Data" => q.id = p.id /\ q.server = p.server
         /\ p.kind = "Data" => q.tag = p.tag
<1>1. CASE p \in MsgPkt(Client)
  BY <1>1, MessageKind DEF MsgPkt
<1>2. CASE p \in DataPkt(Client, ProcPort, SrvPort)
  BY <1>2 DEF DataPkt
<1>3. QED
  BY <1>1, <1>2 DEF UpPkt

LEMMA ClientSet ==
  ASSUME TypeOK, NEW d \in toGateway
  PROVE  /\ SetClient(d) \in UpPkt
         /\ SetClient(d).kind = d.pkt.kind /\ SetClient(d).client = d.client
         /\ SetClient(d).forward = d.pkt.forward
         /\ d.pkt.kind # "Data" => /\ SetClient(d).id = d.pkt.id
                                   /\ SetClient(d).server = d.pkt.server
         /\ d.pkt.kind = "Data" => SetClient(d).tag = d.pkt.tag
<1>1. d.pkt \in ClientPkt /\ SetClient(d) \in UpPkt
  BY SetClientType DEF TypeOK
<1>2. CASE d.pkt \in MsgPkt({NoAddr})
  <2>1. d.pkt.kind # "Data"
    BY <1>2 DEF MsgPkt, Ping, PackLoss
  <2>2. QED
    BY <1>1, <1>2, <2>1 DEF MsgPkt, SetClient
<1>3. CASE d.pkt \in DataPkt({NoAddr}, ProcPort, SrvPort)
  BY <1>1, <1>3 DEF DataPkt, SetClient
<1>4. QED
  BY <1>1, <1>2, <1>3 DEF ClientPkt

-----------------------------------------------------------------------------
(* Requests and registrations *)

\* A request is either new, with an id that nobody has used, or one that was there.
AsksAge ==
  \A c \in Client :
    /\ usedIds[c] \subseteq usedIds'[c]
    /\ \A a \in asks'[c] :
         \/ a.id \notin usedIds[c]
         \/ \E b \in asks[c] : b.id = a.id /\ b.what = a.what /\ b.about = a.about

FsGrows == \A g \in Gateway : fs[g] \subseteq fs'[g]

LEMMA AwaitAges ==
  ASSUME TypeOK, NEW c \in Client, NEW what, NEW id, NEW about, NEW left,
         Await(c, what, id, about, left)
  PROVE  AsksAge
<1> DEFINE n == [what |-> what, id |-> id, about |-> about, left |-> left]
<1>1. n.id = id /\ id \notin usedIds[c]
  BY DEF Await
<1>2. asks' = [asks EXCEPT ![c] = @ \cup {n}] /\ usedIds' = [usedIds EXCEPT ![c] = @ \cup {id}]
  BY DEF Await
<1> HIDE DEF n
<1>3. QED
  BY <1>1, <1>2 DEF AsksAge, TypeOK

LEMMA Ages ==
  ASSUME TypeOK, [Next]_vars
  PROVE  AsksAge /\ FsGrows
<1> USE DEF netVars, clientVars, forwardVars
<1>1. ASSUME UNCHANGED <<asks, usedIds>> PROVE AsksAge
  BY <1>1 DEF AsksAge
<1>2. ASSUME UNCHANGED fs PROVE FsGrows
  BY <1>2 DEF FsGrows
<1>3. ASSUME NEW c \in Client, NEW id \in MsgId,
             \/ Start(c, id) \/ (\E r \in Route : NetworkStats(c, r, id))
             \/ (\E fl \in Flow : CaptureProbe(c, fl, id))
      PROVE  AsksAge /\ FsGrows
  <2>1. UNCHANGED fs
    BY <1>3 DEF Start, NetworkStats, CaptureProbe
  <2>2. AsksAge
    BY <1>3, AwaitAges DEF Start, NetworkStats, CaptureProbe
  <2>3. QED
    BY <1>2, <2>1, <2>2
<1>4. ASSUME NEW c \in Client, NEW a \in asks[c], NEW m, Answer(c, a, m)
      PROVE  AsksAge /\ FsGrows
  <2>1. UNCHANGED <<usedIds, fs>>
    BY <1>4 DEF Answer
  <2>2. a \in Ask
    BY DEF TypeOK
  <2> DEFINE n == [a EXCEPT !.left = @ - 1]
  <2>3. n.id = a.id /\ n.what = a.what /\ n.about = a.about
    BY <2>2 DEF Ask
  <2>4. asks' = [asks EXCEPT ![c] = (@ \ {a}) \cup {[b EXCEPT !.left = @ - 1] :
                                                       b \in {x \in {a} : x.left > 1}}]
    BY <1>4 DEF Answer
  <2>5. \A b \in asks'[c] : b \in asks[c] \/ b = n
    BY <2>4 DEF TypeOK
  <2>6. \A e \in Client \ {c} : asks'[e] = asks[e]
    BY <2>4 DEF TypeOK
  <2> HIDE DEF n
  <2>7. AsksAge
    BY <2>1, <2>3, <2>5, <2>6 DEF AsksAge
  <2>8. QED
    BY <1>2, <2>1, <2>7
<1>5. ASSUME NEW c \in Client, NEW a \in asks[c], Timeout(c, a)
      PROVE  AsksAge /\ FsGrows
  BY <1>2, <1>5 DEF Timeout, AsksAge, TypeOK
<1>6. ASSUME NEW g \in Gateway, NEW f \in Forward, AddForward(g, f)
      PROVE  AsksAge /\ FsGrows
  BY <1>1, <1>6 DEF AddForward, FsGrows, TypeOK
<1>7. ASSUME UNCHANGED <<asks, usedIds, fs>> PROVE AsksAge /\ FsGrows
  BY <1>1, <1>2, <1>7
<1>8. ASSUME NEW d, \/ ClientDownlink(d) \/ GatewayUplink(d) \/ GatewayDownlink(d)
                    \/ ForwardEcho(d) \/ ForwardPing(d) \/ ForwardData(d)
                    \/ ForwardNewLink(d) \/ ForwardCloses(d) \/ ServerReply(d) \/ LinkCloses(d)
      PROVE  UNCHANGED <<asks, usedIds, fs>>
  BY <1>8 DEF ClientDownlink, GatewayUplink, GatewayDownlink, ForwardEcho, ForwardPing,
     ForwardData, ForwardNewLink, ForwardCloses, ServerReply, LinkCloses
<1>9. ASSUME NEW d, NEW e, Capture(d, e) \/ Pong(d, e) \/ LinkRecv(d, e)
      PROVE  UNCHANGED <<asks, usedIds, fs>>
  BY <1>9 DEF Capture, Pong, LinkRecv
<1>10. CASE UNCHANGED vars
  BY <1>7, <1>10 DEF vars
<1>11. QED
  BY <1>3, <1>4, <1>5, <1>6, <1>7, <1>8, <1>9, <1>10 DEF Next

-----------------------------------------------------------------------------
(* Messages *)

LEMMA RelayedKept ==
  ASSUME AsksAge, FsGrows, NEW c \in Client, NEW g \in Gateway, NEW p
  PROVE  /\ Tracked(c, g, p) => Tracked(c, g, p)'
         /\ Relayed(c, g, p) => Relayed(c, g, p)'
<1>1. Tracked(c, g, p) => Tracked(c, g, p)'
  BY DEF Tracked, AsksAge, Fits
<1>2. QED
  BY <1>1 DEF Relayed, FsGrows

\* A packet that goes on with the same id, to a forward that is registered with its
\* gateway, answers what it answered.
LEMMA RelayedOn ==
  ASSUME AsksSound, NEW c \in Client, NEW g \in Gateway, NEW p, NEW q, Tracked(c, g, p),
         q.kind = p.kind, p.kind # "Data" => q.id = p.id /\ q.server = p.server,
         p.kind # "Data" => q.forward \in fs[g] /\ p.forward \in {q.forward, NoAddr}
  PROVE  Relayed(c, g, q)
<1>1. ASSUME p.kind # "Data", NEW a \in asks[c], a.id = q.id PROVE Fits(a, g, q)
  <2>1. Fits(a, g, p) /\ AskSound(c, a)
    BY <1>1 DEF Tracked, AsksSound
  <2>2. a.what = "stats" => p.forward \in Forward
    BY <2>1 DEF Fits, AskSound, Route
  <2>3. a.what = "stats" => p.forward = q.forward
    BY <1>1, <2>2, RelayAssumption
  <2>4. QED
    BY <1>1, <2>1, <2>3 DEF Fits
<1>2. QED
  BY <1>1 DEF Relayed, Tracked

LEMMA MessagesFrame ==
  ASSUME TypeOK, Messages, AsksAge, FsGrows
  PROVE  /\ toGateway' = toGateway => Asked'
         /\ toForward' = toForward => Passed'
         /\ (\A f \in Forward : pinging'[f] \subseteq pinging[f]) => Waits'
         /\ fromForward' = fromForward => Echoed'
         /\ toClient' = toClient => Told'
         /\ (\A c \in Client : msgbuff'[c] \subseteq msgbuff[c]) => Queued'
<1>1. toGateway' = toGateway => Asked'
  BY PktFields, RelayedKept DEF Messages, Asked, FsGrows
<1>2. toForward' = toForward => Passed'
  BY PktFields, RelayedKept DEF Messages, Passed
<1>3. (\A f \in Forward : pinging'[f] \subseteq pinging[f]) => Waits'
  BY PktFields, RelayedKept DEF Messages, Waits
<1>4. fromForward' = fromForward => Echoed'
  BY PktFields, RelayedKept DEF Messages, Echoed
<1>5. toClient' = toClient => Told'
  BY PktFields, RelayedKept DEF Messages, Told
<1>6. (\A c \in Client : msgbuff'[c] \subseteq msgbuff[c]) => Queued'
  BY PktFields, RelayedKept DEF Messages, Queued
<1>7. QED
  BY <1>1, <1>2, <1>3, <1>4, <1>5, <1>6

LEMMA RequestAsked ==
  ASSUME TypeOK, AsksSound, Messages, AsksAge, FsGrows, NEW c \in Client,
         NEW gateways \in SUBSET Gateway, NEW kinds, NEW id, NEW forward, NEW server,
         NEW what, NEW about, NEW left,
         Request(c, gateways, kinds, id, forward, server), Await(c, what, id, about, left),
         \A g \in gateways, k \in kinds :
            /\ what = "start" => k = "PingForward"
            /\ what = "probe" => k = "PingServer" /\ server = about
            /\ what = "stats" => k \in StatsKind /\ <<g, forward>> = about
            /\ \/ forward \in fs[g]
               \/ forward = NoAddr /\ k \in {"PingForward", "PingServer"}
  PROVE  Asked'
<1> DEFINE n == [what |-> what, id |-> id, about |-> about, left |-> left]
<1>1. n.id = id /\ n.what = what /\ n.about = about
  OBVIOUS
<1>2. /\ asks' = [asks EXCEPT ![c] = @ \cup {n}] /\ usedIds' = [usedIds EXCEPT ![c] = @ \cup {id}]
      /\ id \notin usedIds[c]
  BY DEF Await
<1> HIDE DEF n
<1>3. id \in usedIds'[c] /\ \A a \in asks'[c] : a.id = id => a = n
  BY <1>2 DEF TypeOK, AsksSound, AskSound
<1>4. ASSUME NEW d \in toGateway', d \notin toGateway
      PROVE  /\ Tracked(d.client, d.gateway, d.pkt)'
             /\ \/ d.pkt.forward \in fs'[d.gateway]
                \/ d.pkt.forward = NoAddr /\ d.pkt.kind \in {"PingForward", "PingServer"}
  <2>1. PICK g \in gateways, k \in kinds :
          d = [client |-> c, gateway |-> g,
               pkt |-> [kind |-> k, client |-> NoAddr, forward |-> forward,
                        server |-> server, id |-> id]]
    BY <1>4 DEF Request
  <2>2. /\ d.client = c /\ d.gateway = g /\ d.pkt.kind = k /\ d.pkt.forward = forward
        /\ d.pkt.server = server /\ d.pkt.id = id
    BY <2>1
  <2>3. Fits(n, g, d.pkt)
    BY <1>1, <2>2 DEF Fits
  <2>4. QED
    BY <1>3, <2>2, <2>3 DEF Tracked, FsGrows
<1>5. ASSUME NEW d \in toGateway
      PROVE  /\ Tracked(d.client, d.gateway, d.pkt)'
             /\ d.pkt.kind # "Data" =>
                  \/ d.pkt.forward \in fs'[d.gateway]
                  \/ d.pkt.forward = NoAddr /\ d.pkt.kind \in {"PingForward", "PingServer"}
  BY PktFields, RelayedKept DEF Messages, Asked, FsGrows
<1>6. QED
  BY <1>4, <1>5 DEF Asked

LEMMA GatewayUplinkTells ==
  ASSUME TypeOK, AsksSound, Messages, AsksAge, FsGrows, NEW d \in toGateway, GatewayUplink(d)
  PROVE  Passed' /\ Told'
<1> DEFINE p == SetClient(d)
           q(f) == [p EXCEPT !.forward = f]
           T(forwards) == {[gateway |-> d.gateway, forward |-> f, pkt |-> q(f)] : f \in forwards}
           R == [gateway |-> d.gateway, client |-> d.client, pkt |-> p]
<1>1. /\ d.client \in Client /\ d.gateway \in Gateway /\ p \in UpPkt
      /\ p.kind = d.pkt.kind /\ p.client = d.client /\ p.forward = d.pkt.forward
      /\ d.pkt.kind # "Data" => p.id = d.pkt.id /\ p.server = d.pkt.server
  BY PktFields, ClientSet
<1>2. /\ Tracked(d.client, d.gateway, d.pkt)
      /\ d.pkt.kind # "Data" =>
           \/ d.pkt.forward \in fs[d.gateway]
           \/ d.pkt.forward = NoAddr /\ d.pkt.kind \in {"PingForward", "PingServer"}
  BY DEF Messages, Asked
<1>3. ASSUME NEW f \in fs[d.gateway], p.kind # "Data" => p.forward \in {f, NoAddr}
      PROVE  Relayed(d.client, d.gateway, q(f))' /\ q(f).forward = f /\ q(f).client = d.client
  <2>1. /\ q(f).kind = p.kind /\ q(f).client = p.client /\ q(f).forward = f
        /\ p.kind # "Data" => q(f).id = p.id /\ q(f).server = p.server
    BY <1>1, Readdressed
  <2> HIDE DEF p, q
  <2>2. PICK r : r = q(f)
    OBVIOUS
  <2>3. Relayed(d.client, d.gateway, r)
    BY <1>1, <1>2, <1>3, <2>1, <2>2, RelayedOn
  <2>4. Relayed(d.client, d.gateway, r)'
    BY <1>1, <2>3, RelayedKept
  <2>5. QED
    BY <1>1, <2>1, <2>2, <2>4
<1>4. \/ /\ toForward' = toForward /\ toClient' = toClient \cup {R}
         /\ p.kind \in {"PingGateway", "PackLossClientUplink", "PackLossGatewayDownlink"}
      \/ /\ toClient' = toClient
         /\ \E forwards : /\ toForward' = toForward \cup T(forwards)
                          /\ \/ /\ p.kind \in {"PingForward", "PingServer"}
                                /\ forwards = PingTargets(d.gateway, p)
                             \/ /\ p.kind = "PackLossGatewayUplink" /\ forwards = {p.forward}
                             \/ /\ p.kind = "Data" /\ forwards = Registered(d.gateway, p)
  BY DEF GatewayUplink
<1>5. \A f \in PingTargets(d.gateway, p) : p.kind # "Data" =>
        f \in fs[d.gateway] /\ p.forward \in {f, NoAddr}
  BY <1>1, <1>2 DEF PingTargets
<1>6. \A f \in Registered(d.gateway, p) : f \in fs[d.gateway] /\ p.forward = f
  BY DEF Registered
<1>7. p.kind = "PackLossGatewayUplink" => p.forward \in fs[d.gateway]
  BY <1>1, <1>2
<1>8. CASE /\ toForward' = toForward /\ toClient' = toClient \cup {R}
           /\ p.kind \in {"PingGateway", "PackLossClientUplink", "PackLossGatewayDownlink"}
  <2>1. R.client = d.client /\ R.gateway = d.gateway /\ R.pkt = p
    OBVIOUS
  <2>2. PICK r : r = p
    OBVIOUS
  <2> HIDE DEF p, R
  <2>3. Relayed(d.client, d.gateway, r)
    BY <1>1, <1>2, <1>8, <2>2, RelayedOn
  <2>4. Relayed(d.client, d.gateway, r)'
    BY <1>1, <2>3, RelayedKept
  <2>5. PICK s : s = R
    OBVIOUS
  <2>6. Relayed(s.client, s.gateway, s.pkt)' /\ s.pkt.client = s.client
    BY <1>1, <2>1, <2>2, <2>4, <2>5
  <2>7. \A x \in toClient : Relayed(x.client, x.gateway, x.pkt)' /\ x.pkt.client = x.client
    BY PktFields, RelayedKept DEF Messages, Told
  <2>8. QED
    BY <1>8, <2>5, <2>6, <2>7, MessagesFrame DEF Told
<1>9. ASSUME toClient' = toClient, NEW forwards, toForward' = toForward \cup T(forwards),
             \A f \in forwards : f \in fs[d.gateway] /\ (p.kind # "Data" => p.forward \in {f, NoAddr})
      PROVE  Passed' /\ Told'
  <2> HIDE DEF p, q
  <2>1. ASSUME NEW x \in toForward', x \notin toForward
        PROVE  Relayed(x.pkt.client, x.gateway, x.pkt)' /\ x.pkt.forward = x.forward
    <3>1. PICK f \in forwards : x = [gateway |-> d.gateway, forward |-> f, pkt |-> q(f)]
      BY <1>9, <2>1
    <3>2. x.gateway = d.gateway /\ x.forward = f /\ x.pkt = q(f)
      BY <3>1
    <3>3. Relayed(d.client, d.gateway, q(f))' /\ q(f).forward = f /\ q(f).client = d.client
      BY <1>3, <1>9
    <3>4. QED
      BY <3>2, <3>3 DEF q
  <2>2. \A x \in toForward : Relayed(x.pkt.client, x.gateway, x.pkt)' /\ x.pkt.forward = x.forward
    BY PktFields, RelayedKept DEF Messages, Passed
  <2>3. QED
    BY <1>9, <2>1, <2>2, MessagesFrame DEF Passed
<1> HIDE DEF p, q, T, R
<1>10. QED
  BY <1>1, <1>4, <1>5, <1>6, <1>7, <1>8, <1>9

LEMMA EchoTells ==
  ASSUME TypeOK, AsksSound, Messages, AsksAge, FsGrows, NEW d \in toForward, Delivered(d),
         d.pkt.kind # "Data", NEW q, q = [d.pkt EXCEPT !.forward = d.forward]
  PROVE  /\ Relayed(q.client, d.gateway, q)'
         /\ q.client \in Client /\ d.gateway \in Gateway /\ d.forward \in Forward
<1>1. d.pkt \in UpPkt /\ d.pkt.client \in Client /\ d.gateway \in Gateway /\ d.forward \in Forward
  BY PktFields DEF TypeOK, Delivered
<1>2. /\ Tracked(d.pkt.client, d.gateway, d.pkt) /\ d.pkt.forward \in fs[d.gateway]
      /\ d.pkt.forward = d.forward
  BY DEF Messages, Passed, Relayed
<1>3. /\ q.kind = d.pkt.kind /\ q.client = d.pkt.client /\ q.forward = d.forward
      /\ q.id = d.pkt.id /\ q.server = d.pkt.server
  BY <1>1, Readdressed
<1>4. Relayed(q.client, d.gateway, q)
  BY <1>1, <1>2, <1>3, RelayedOn
<1>5. QED
  BY <1>1, <1>3, <1>4, RelayedKept

LEMMA MessagesStep ==
  ASSUME TypeOK, TypeOK', AsksSound, RoutesOfStarted, RouteUsable, Messages, [Next]_vars
  PROVE  Messages'
<1> USE DEF netVars, clientVars, forwardVars
<1>0. AsksAge /\ FsGrows
  BY Ages
<1>f. /\ toGateway' = toGateway => Asked'
      /\ toForward' = toForward => Passed'
      /\ (\A f \in Forward : pinging'[f] \subseteq pinging[f]) => Waits'
      /\ fromForward' = fromForward => Echoed'
      /\ toClient' = toClient => Told'
      /\ (\A c \in Client : msgbuff'[c] \subseteq msgbuff[c]) => Queued'
  BY <1>0, MessagesFrame
<1>1. ASSUME NEW c \in Client, NEW id \in MsgId, Start(c, id)
      PROVE  Messages'
  <2>1. /\ Request(c, Gateway, {"PingForward"}, id, NoAddr, NoAddr)
        /\ Await(c, "start", id, NoAddr, 1)
    BY <1>1 DEF Start
  <2>2. Gateway \in SUBSET Gateway
    OBVIOUS
  <2>3. Asked'
    BY <1>0, <2>1, <2>2, RequestAsked
  <2>4. QED
    BY <1>1, <1>f, <2>3 DEF Start, Messages
<1>2. ASSUME NEW c \in Client, NEW id \in MsgId, NEW r \in Route, NetworkStats(c, r, id)
      PROVE  Messages'
  <2>1. r = <<r[1], r[2]>> /\ r[1] \in Gateway /\ r[2] \in fs[r[1]]
    BY <1>2 DEF Route, NetworkStats, RouteUsable
  <2>2. Request(c, {r[1]}, StatsKind, id, r[2], NoAddr) /\ Await(c, "stats", id, r, 5)
    BY <1>2 DEF NetworkStats
  <2>3. Asked'
    BY <1>0, <2>1, <2>2, RequestAsked
  <2>4. QED
    BY <1>2, <1>f, <2>3 DEF NetworkStats, Messages
<1>3. ASSUME NEW c \in Client, NEW id \in MsgId, NEW fl \in Flow, CaptureProbe(c, fl, id)
      PROVE  Messages'
  <2>1. Asked'
    BY <1>0, <1>3, RequestAsked DEF CaptureProbe
  <2>2. QED
    BY <1>3, <1>f, <2>1 DEF CaptureProbe, Messages
<1>4. ASSUME NEW c \in Client, NEW a \in asks[c], NEW m \in msgbuff[c], Answer(c, a, m)
      PROVE  Messages'
  <2>1. \A e \in Client : msgbuff'[e] \subseteq msgbuff[e]
    BY <1>4 DEF Answer, TypeOK
  <2>2. QED
    BY <1>4, <1>f, <2>1 DEF Answer, Messages
<1>5. ASSUME NEW c \in Client, NEW a \in asks[c], Timeout(c, a)
      PROVE  Messages'
  BY <1>5, <1>f DEF Timeout, Messages
<1>6. ASSUME NEW c \in Client, NEW fl \in Flow, Capture(c, fl)
      PROVE  Messages'
  <2> DEFINE s == [client |-> c, gateway |-> Match(c, fl)[1],
                   pkt |-> [kind |-> "Data", proto |-> fl.proto, client |-> NoAddr,
                            forward |-> Match(c, fl)[2], server |-> fl.server,
                            src |-> fl.processPort, dst |-> fl.serverPort, tag |-> fl]]
  <2>0. toGateway' = toGateway \cup {s} /\ s.pkt.kind = "Data"
    BY <1>6 DEF Capture
  <2> HIDE DEF s
  <2>1. PICK x : toGateway' = toGateway \cup {x} /\ x.pkt.kind = "Data"
    BY <2>0
  <2>2. Tracked(x.client, x.gateway, x.pkt)'
    BY <2>1 DEF Tracked
  <2>3. UNCHANGED <<toForward, fromForward, toClient, msgbuff, pinging, fs>>
    BY <1>6 DEF Capture
  <2>4. \A d \in toGateway : Tracked(d.client, d.gateway, d.pkt)'
    BY <1>0, PktFields, RelayedKept DEF Messages, Asked
  <2>5. Asked'
    BY <2>1, <2>2, <2>3, <2>4 DEF Messages, Asked
  <2>6. QED
    BY <1>f, <2>3, <2>5 DEF Messages
<1>7. ASSUME NEW d \in toClient, ClientDownlink(d)
      PROVE  Messages'
  <2>1. /\ d.client \in Client /\ d.gateway \in Gateway
        /\ Relayed(d.client, d.gateway, d.pkt)' /\ d.pkt.client = d.client
    BY <1>0, PktFields, RelayedKept DEF Messages, Told
  <2>2. CASE msgbuff' = msgbuff
    BY <1>7, <1>f, <2>2 DEF ClientDownlink, Messages
  <2>3. CASE msgbuff' = [msgbuff EXCEPT ![d.client] = @ \cup {[gaddr |-> d.gateway, pkt |-> d.pkt]}]
    <3>1. \A c \in Client : \A m \in msgbuff'[c] :
            \/ m \in msgbuff[c]
            \/ c = d.client /\ m = [gaddr |-> d.gateway, pkt |-> d.pkt]
      BY <2>1, <2>3 DEF TypeOK
    <3>2. \A c \in Client : \A m \in msgbuff[c] : Relayed(c, m.gaddr, m.pkt)' /\ m.pkt.client = c
      BY <1>0, PktFields, RelayedKept DEF Messages, Queued
    <3>3. Queued'
      BY <2>1, <3>1, <3>2 DEF Queued
    <3>4. QED
      BY <1>7, <1>f, <3>3 DEF ClientDownlink, Messages
  <2>4. QED
    BY <1>7, <2>2, <2>3 DEF ClientDownlink
<1>8. ASSUME NEW d \in toGateway, GatewayUplink(d)
      PROVE  Messages'
  <2>1. Passed' /\ Told'
    BY <1>0, <1>8, GatewayUplinkTells
  <2>2. QED
    BY <1>8, <1>f, <2>1 DEF GatewayUplink, Messages
<1>9. ASSUME NEW d \in fromForward, GatewayDownlink(d)
      PROVE  Messages'
  <2>1. /\ d.pkt.client \in Client /\ d.gateway \in Gateway
        /\ Relayed(d.pkt.client, d.gateway, d.pkt)'
    BY <1>0, PktFields, RelayedKept DEF Messages, Echoed
  <2>2. toClient' = toClient \cup
          {[gateway |-> d.gateway, client |-> d.pkt.client, pkt |-> d.pkt]}
    BY <1>9 DEF GatewayDownlink
  <2>3. \A x \in toClient : Relayed(x.client, x.gateway, x.pkt)' /\ x.pkt.client = x.client
    BY <1>0, PktFields, RelayedKept DEF Messages, Told
  <2>4. Told'
    BY <2>1, <2>2, <2>3 DEF Told
  <2>5. QED
    BY <1>9, <1>f, <2>4 DEF GatewayDownlink, Messages
<1>10. ASSUME NEW d \in toForward, ForwardEcho(d)
       PROVE  Messages'
  <2>1. PICK q : q = [d.pkt EXCEPT !.forward = d.forward]
    OBVIOUS
  <2>2. Relayed(q.client, d.gateway, q)'
    BY <1>0, <1>10, <2>1, EchoTells DEF ForwardEcho
  <2>3. fromForward' = fromForward \cup
          {[forward |-> d.forward, gateway |-> d.gateway, pkt |-> q]}
    BY <1>10, <2>1 DEF ForwardEcho
  <2>4. \A x \in fromForward : Relayed(x.pkt.client, x.gateway, x.pkt)'
    BY <1>0, PktFields, RelayedKept DEF Messages, Echoed
  <2>5. Echoed'
    BY <2>2, <2>3, <2>4 DEF Echoed
  <2>6. QED
    BY <1>10, <1>f, <2>5 DEF ForwardEcho, Messages
<1>11. ASSUME NEW d \in toForward, ForwardPing(d)
       PROVE  Messages'
  <2>1. PICK q : q = [d.pkt EXCEPT !.forward = d.forward]
    OBVIOUS
  <2>2. Relayed(q.client, d.gateway, q)' /\ d.forward \in Forward
    BY <1>0, <1>11, <2>1, EchoTells DEF ForwardPing
  <2>3. pinging' = [pinging EXCEPT ![d.forward] = @ \cup {[gaddr |-> d.gateway, pkt |-> q]}]
    BY <1>11, <2>1 DEF ForwardPing
  <2>4. \A f \in Forward : \A i \in pinging'[f] :
          i \in pinging[f] \/ i = [gaddr |-> d.gateway, pkt |-> q]
    BY <2>2, <2>3 DEF TypeOK
  <2>5. \A f \in Forward : \A i \in pinging[f] : Relayed(i.pkt.client, i.gaddr, i.pkt)'
    BY <1>0, PktFields, RelayedKept DEF Messages, Waits
  <2>6. Waits'
    BY <2>2, <2>4, <2>5 DEF Waits
  <2>7. QED
    BY <1>11, <1>f, <2>6 DEF ForwardPing, Messages
<1>12. ASSUME NEW f \in Forward, NEW s \in Server, Pong(f, s)
       PROVE  Messages'
  <2>1. \A i \in pinging[f] : Relayed(i.pkt.client, i.gaddr, i.pkt)'
    BY <1>0, PktFields, RelayedKept DEF Messages, Waits
  <2>2. \A x \in fromForward' : x \in fromForward \/ \E i \in pinging[f] :
          x.gateway = i.gaddr /\ x.pkt = i.pkt
    BY <1>12 DEF Pong
  <2>3. \A x \in fromForward : Relayed(x.pkt.client, x.gateway, x.pkt)'
    BY <1>0, PktFields, RelayedKept DEF Messages, Echoed
  <2>4. Echoed'
    BY <2>1, <2>2, <2>3 DEF Echoed
  <2>5. \A e \in Forward : pinging'[e] \subseteq pinging[e]
    BY <1>12 DEF Pong, TypeOK
  <2>6. QED
    BY <1>12, <1>f, <2>4, <2>5 DEF Pong, Messages
<1>13. ASSUME NEW l \in links, NEW w \in fromServer, LinkRecv(l, w)
       PROVE  Messages'
  <2> DEFINE s == [forward |-> l.forward, gateway |-> l.gaddr,
                   pkt |-> [kind |-> "Data", proto |-> l.ep.proto, client |-> l.ep.client,
                            forward |-> l.forward, server |-> l.ep.server,
                            src |-> w.serverPort, dst |-> l.ep.processPort, tag |-> w.tag]]
  <2>0. fromForward' = fromForward \cup {s} /\ s.pkt.kind = "Data"
    BY <1>13 DEF LinkRecv
  <2> HIDE DEF s
  <2>1. PICK x : fromForward' = fromForward \cup {x} /\ x.pkt.kind = "Data"
    BY <2>0
  <2>2. Relayed(x.pkt.client, x.gateway, x.pkt)'
    BY <2>1 DEF Relayed, Tracked
  <2>3. \A y \in fromForward : Relayed(y.pkt.client, y.gateway, y.pkt)'
    BY <1>0, PktFields, RelayedKept DEF Messages, Echoed
  <2>4. Echoed'
    BY <2>1, <2>2, <2>3 DEF Echoed
  <2>5. QED
    BY <1>13, <1>f, <2>4 DEF LinkRecv, Messages
<1>14. ASSUME NEW d, \/ ForwardData(d) \/ ForwardNewLink(d) \/ ForwardCloses(d)
                     \/ LinkCloses(d) \/ ServerReply(d)
       PROVE  Messages'
  BY <1>14, <1>f DEF ForwardData, ForwardNewLink, ForwardCloses, LinkCloses, ServerReply, Messages
<1>15. ASSUME NEW g \in Gateway, NEW f \in Forward, AddForward(g, f)
       PROVE  Messages'
  BY <1>15, <1>f DEF AddForward, Messages
<1>16. CASE UNCHANGED vars
  BY <1>16, <1>f DEF vars, Messages
<1>17. QED
  BY <1>1, <1>2, <1>3, <1>4, <1>5, <1>6, <1>7, <1>8, <1>9, <1>10, <1>11, <1>12,
     <1>13, <1>14, <1>15, <1>16 DEF Next

-----------------------------------------------------------------------------
(* Requests *)

\* Which actions have to do with a client's requests and routes.
LEMMA RequestActions ==
  ASSUME [Next]_vars
  PROVE  \/ UNCHANGED <<started, asks, usedIds, default, routes, answers>>
         \/ \E c \in Client, id \in MsgId :
              \/ Start(c, id)
              \/ \E r \in Route : NetworkStats(c, r, id)
              \/ \E fl \in Flow : CaptureProbe(c, fl, id)
         \/ \E c \in Client : \E a \in asks[c] :
              (\E m \in msgbuff[c] : Answer(c, a, m)) \/ Timeout(c, a)
<1> USE DEF netVars, clientVars, forwardVars
<1>1. ASSUME NEW d, \/ ClientDownlink(d) \/ GatewayUplink(d) \/ GatewayDownlink(d)
                    \/ ForwardEcho(d) \/ ForwardPing(d) \/ ForwardData(d)
                    \/ ForwardNewLink(d) \/ ForwardCloses(d) \/ ServerReply(d) \/ LinkCloses(d)
      PROVE  UNCHANGED <<started, asks, usedIds, default, routes, answers>>
  BY <1>1 DEF ClientDownlink, GatewayUplink, GatewayDownlink, ForwardEcho, ForwardPing,
     ForwardData, ForwardNewLink, ForwardCloses, ServerReply, LinkCloses
<1>2. ASSUME NEW d, NEW e, Capture(d, e) \/ Pong(d, e) \/ LinkRecv(d, e) \/ AddForward(d, e)
      PROVE  UNCHANGED <<started, asks, usedIds, default, routes, answers>>
  BY <1>2 DEF Capture, Pong, LinkRecv, AddForward
<1>3. CASE UNCHANGED vars
  BY <1>3 DEF vars
<1>4. QED
  BY <1>1, <1>2, <1>3 DEF Next

LEMMA Awaited ==
  ASSUME TypeOK, NEW c \in Client, NEW what, NEW id, NEW about, NEW left,
         Await(c, what, id, about, left)
  PROVE  \E n : /\ n.what = what /\ n.id = id /\ n.about = about /\ n.left = left
                /\ id \notin usedIds[c] /\ usedIds'[c] = usedIds[c] \cup {id}
                /\ asks'[c] = asks[c] \cup {n}
                /\ \A e \in Client \ {c} : asks'[e] = asks[e] /\ usedIds'[e] = usedIds[e]
<1> DEFINE n == [what |-> what, id |-> id, about |-> about, left |-> left]
<1>1. n.what = what /\ n.id = id /\ n.about = about /\ n.left = left
  OBVIOUS
<1>2. /\ asks' = [asks EXCEPT ![c] = @ \cup {n}] /\ usedIds' = [usedIds EXCEPT ![c] = @ \cup {id}]
      /\ id \notin usedIds[c]
  BY DEF Await
<1> HIDE DEF n
<1>3. QED
  BY <1>1, <1>2 DEF TypeOK

\* What an answer makes of a request.
LEMMA Answered ==
  ASSUME TypeOK, AsksSound, NEW c \in Client, NEW a \in asks[c], NEW m \in msgbuff[c],
         Answer(c, a, m)
  PROVE  /\ a \in Ask /\ m.gaddr \in Gateway /\ m.pkt.id = a.id
         /\ \A e \in Client \ {c} : asks'[e] = asks[e]
         /\ a.what \in {"start", "probe"} => asks'[c] = asks[c] \ {a}
         /\ \A b \in asks'[c] : \/ b \in asks[c] /\ b # a
                                \/ b.what = a.what /\ b.id = a.id /\ b.about = a.about
         /\ UNCHANGED usedIds
<1>1. a \in Ask /\ m.gaddr \in Gateway
  BY PktFields DEF TypeOK
<1>2. asks' = [asks EXCEPT ![c] = (@ \ {a}) \cup {[b EXCEPT !.left = @ - 1] :
                                                     b \in {x \in {a} : x.left > 1}}]
  BY DEF Answer
<1>3. m.pkt.id = a.id /\ UNCHANGED usedIds
  BY DEF Answer, IsReply
<1>4. \A e \in Client \ {c} : asks'[e] = asks[e]
  BY <1>2 DEF TypeOK
<1> DEFINE n == [a EXCEPT !.left = @ - 1]
<1>5. n.what = a.what /\ n.id = a.id /\ n.about = a.about
  BY <1>1 DEF Ask
<1>6. asks'[c] = (asks[c] \ {a}) \cup {[b EXCEPT !.left = @ - 1] : b \in {x \in {a} : x.left > 1}}
  BY <1>2 DEF TypeOK
<1>7. \A b \in asks'[c] : (b \in asks[c] /\ b # a) \/ b = n
  BY <1>6
<1>8. a.what \in {"start", "probe"} => ~(a.left > 1)
  BY <1>1 DEF AsksSound, AskSound
<1>9. a.what \in {"start", "probe"} => asks'[c] = asks[c] \ {a}
  BY <1>6, <1>8
<1> HIDE DEF n
<1>10. QED
  BY <1>1, <1>3, <1>4, <1>5, <1>7, <1>9

\* What it teaches the client.
LEMMA Learned ==
  ASSUME TypeOK, NEW c \in Client, NEW a \in asks[c], NEW m \in msgbuff[c], Answer(c, a, m)
  PROVE  LET r == <<m.gaddr, m.pkt.forward>> IN
         \/ /\ a.what = "start" /\ UNCHANGED routes /\ default' = [default EXCEPT ![c] = r]
            /\ started' = started \cup {c}
         \/ /\ a.what = "probe" /\ UNCHANGED <<default, started>>
            /\ routes' = [routes EXCEPT ![c][a.about] = r]
         \/ a.what = "stats" /\ UNCHANGED <<default, started, routes>>
BY DEF Answer

LEMMA AsksStep ==
  ASSUME TypeOK, AsksSound, RoutesOfStarted, [Next]_vars
  PROVE  AsksSound'
<1>1. ASSUME NEW c \in Client, NEW id \in MsgId, Start(c, id) PROVE AsksSound'
  <2>1. PICK n : /\ n.what = "start" /\ n.id = id /\ n.left = 1
                 /\ usedIds'[c] = usedIds[c] \cup {id} /\ asks'[c] = asks[c] \cup {n}
                 /\ \A e \in Client \ {c} : asks'[e] = asks[e] /\ usedIds'[e] = usedIds[e]
    BY <1>1, Awaited DEF Start
  <2>2. usedIds[c] = {} /\ UNCHANGED <<started, routes>>
    BY <1>1 DEF Start
  <2>3. asks[c] = {} /\ c \notin started
    BY <2>2 DEF AsksSound, AskSound, RoutesOfStarted
  <2>4. asks'[c] = {n}
    BY <2>1, <2>3
  <2>5. \A a \in asks'[c] : AskSound(c, a)'
    BY <2>1, <2>2, <2>3, <2>4 DEF AskSound
  <2>6. \A e \in Client \ {c} : \A a \in asks'[e] : AskSound(e, a)'
    BY <2>1, <2>2 DEF AsksSound, AskSound
  <2>7. QED
    BY <2>5, <2>6 DEF AsksSound
<1>2. ASSUME NEW c \in Client, c \in started, NEW n, NEW id,
             n.id = id, id \notin usedIds[c],
             \/ n.what = "stats" /\ n.about \in Route
             \/ /\ n.what = "probe" /\ n.left = 1 /\ n.about \in Server
                /\ routes[c][n.about] = NoAddr
                /\ \A a \in asks[c] : a.what = "probe" => a.about # n.about,
             usedIds'[c] = usedIds[c] \cup {id}, asks'[c] = asks[c] \cup {n},
             \A e \in Client \ {c} : asks'[e] = asks[e] /\ usedIds'[e] = usedIds[e],
             UNCHANGED <<started, routes>>
      PROVE  AsksSound'
  <2>1. ASSUME NEW a \in asks[c] PROVE AskSound(c, a)'
    <3>1. AskSound(c, a) /\ a.what # "start"
      BY <1>2 DEF AsksSound, AskSound
    <3>2. QED
      BY <1>2, <3>1 DEF AskSound
  <2>2. AskSound(c, n)'
    BY <1>2 DEF AskSound
  <2>3. \A e \in Client \ {c} : \A a \in asks'[e] : AskSound(e, a)'
    BY <1>2 DEF AsksSound, AskSound
  <2>4. QED
    BY <1>2, <2>1, <2>2, <2>3 DEF AsksSound
<1>3. ASSUME NEW c \in Client, NEW id \in MsgId, NEW r \in Route, NetworkStats(c, r, id)
      PROVE  AsksSound'
  <2>1. c \in started /\ UNCHANGED <<started, routes>> /\ Await(c, "stats", id, r, 5)
    BY <1>3 DEF NetworkStats
  <2>2. QED
    BY <1>2, <2>1, Awaited
<1>4. ASSUME NEW c \in Client, NEW id \in MsgId, NEW fl \in Flow, CaptureProbe(c, fl, id)
      PROVE  AsksSound'
  <2>1. /\ c \in started /\ UNCHANGED <<started, routes>> /\ Await(c, "probe", id, fl.server, 1)
        /\ Match(c, fl) = NoAddr
        /\ \A a \in asks[c] : a.what = "probe" => a.about # fl.server
    BY <1>4 DEF CaptureProbe, Waiting
  <2>2. fl.server \in Server
    BY RelayAssumption DEF Endpoint
  <2>3. routes[c][fl.server] = NoAddr
    BY <2>1 DEF Match, RoutesOfStarted
  <2>4. QED
    BY <1>2, <2>1, <2>2, <2>3, Awaited
<1>5. ASSUME NEW c \in Client, NEW a \in asks[c], NEW m \in msgbuff[c], Answer(c, a, m)
      PROVE  AsksSound'
  <2> DEFINE r == <<m.gaddr, m.pkt.forward>>
  <2>1. /\ \A e \in Client \ {c} : asks'[e] = asks[e]
        /\ a.what \in {"start", "probe"} => asks'[c] = asks[c] \ {a}
        /\ \A b \in asks'[c] : \/ b \in asks[c] /\ b # a
                               \/ b.what = a.what /\ b.id = a.id /\ b.about = a.about
        /\ UNCHANGED usedIds
    BY <1>5, Answered
  <2>2. AskSound(c, a) /\ \A e \in Client : \A b \in asks[e] : AskSound(e, b)
    BY DEF AsksSound
  <2>3. CASE a.what = "start"
    <3>1. asks'[c] = {}
      BY <2>1, <2>2, <2>3 DEF AskSound
    <3>2. started' = started \cup {c} /\ UNCHANGED routes
      BY <1>5, <2>3, Learned
    <3>3. \A e \in Client \ {c} : \A b \in asks'[e] : AskSound(e, b)'
      BY <2>1, <2>2, <3>2 DEF AskSound
    <3>4. QED
      BY <3>1, <3>3 DEF AsksSound
  <2>4. CASE a.what = "probe"
    <3>1. UNCHANGED started /\ routes' = [routes EXCEPT ![c][a.about] = r]
      BY <1>5, <2>4, Learned
    <3>2. a.about \in Server /\ c \in started
      BY <2>2, <2>4 DEF AskSound
    <3>3. /\ \A e \in Client \ {c} : routes'[e] = routes[e]
          /\ \A s \in Server \ {a.about} : routes'[c][s] = routes[c][s]
      BY <3>1, <3>2 DEF TypeOK
    <3>4. \A e \in Client \ {c} : \A b \in asks'[e] : AskSound(e, b)'
      BY <2>1, <2>2, <3>1, <3>3 DEF AskSound
    <3>5. ASSUME NEW b \in asks'[c] PROVE AskSound(c, b)'
      <4>1. b \in asks[c] /\ b # a /\ AskSound(c, b)
        BY <2>1, <2>2, <2>4, <3>5
      <4>2. b.what = "probe" => b.about # a.about
        BY <2>2, <2>4, <4>1 DEF AskSound
      <4>3. QED
        BY <2>1, <2>4, <3>1, <3>2, <3>3, <4>1, <4>2 DEF AskSound
    <3>6. QED
      BY <3>4, <3>5 DEF AsksSound
  <2>5. CASE a.what = "stats"
    <3>1. UNCHANGED <<started, routes>>
      BY <1>5, <2>5, Learned
    <3>2. c \in started /\ a.about \in Route
      BY <2>2, <2>5 DEF AskSound
    <3>3. \A e \in Client \ {c} : \A b \in asks'[e] : AskSound(e, b)'
      BY <2>1, <2>2, <3>1 DEF AskSound
    <3>4. ASSUME NEW b \in asks'[c] PROVE AskSound(c, b)'
      BY <2>1, <2>2, <2>5, <3>1, <3>2 DEF AskSound
    <3>5. QED
      BY <3>3, <3>4 DEF AsksSound
  <2>6. QED
    BY <1>5, <2>3, <2>4, <2>5, Learned
<1>6. ASSUME NEW c \in Client, NEW a \in asks[c], Timeout(c, a) PROVE AsksSound'
  <2>1. /\ UNCHANGED <<started, usedIds, routes>> /\ \A e \in Client \ {c} : asks'[e] = asks[e]
        /\ asks'[c] = asks[c] \ {a}
    BY <1>6 DEF Timeout, TypeOK
  <2>2. ASSUME NEW b \in asks'[c] PROVE AskSound(c, b)'
    <3>1. b \in asks[c] /\ b # a /\ AskSound(c, b) /\ AskSound(c, a)
      BY <2>1 DEF AsksSound
    <3>2. QED
      BY <2>1, <3>1 DEF AskSound
  <2>3. \A e \in Client \ {c} : \A b \in asks'[e] : AskSound(e, b)'
    BY <2>1 DEF AsksSound, AskSound
  <2>4. QED
    BY <2>2, <2>3 DEF AsksSound
<1>7. CASE UNCHANGED <<started, asks, usedIds, default, routes, answers>>
  BY <1>7 DEF AsksSound, AskSound
<1>8. QED
  BY <1>1, <1>3, <1>4, <1>5, <1>6, <1>7, RequestActions

-----------------------------------------------------------------------------
(* What a client learns *)

LEMMA NewRoute ==
  ASSUME TypeOK, Messages, NEW c \in Client, NEW m \in msgbuff[c]
  PROVE  /\ <<m.gaddr, m.pkt.forward>> \in Route /\ m.pkt.forward \in fs[m.gaddr]
         /\ <<m.gaddr, m.pkt.forward>> # NoAddr
<1>1. m.gaddr \in Gateway /\ m.pkt.forward \in fs[m.gaddr] /\ fs[m.gaddr] \subseteq Forward
  BY PktFields, MessageKind DEF Messages, Queued, Relayed, TypeOK
<1>2. QED
  BY <1>1, RelayAssumption DEF Route

LEMMA RoutesStep ==
  ASSUME TypeOK, AsksSound, RoutesOfStarted, Messages, [Next]_vars
  PROVE  RoutesOfStarted'
<1>1. ASSUME NEW c \in Client, NEW a \in asks[c], NEW m \in msgbuff[c], Answer(c, a, m)
      PROVE  RoutesOfStarted'
  <2> DEFINE r == <<m.gaddr, m.pkt.forward>>
  <2>1. r # NoAddr /\ a.id \in usedIds[c] /\ UNCHANGED usedIds
    BY <1>1, NewRoute, Answered DEF AsksSound, AskSound
  <2> HIDE DEF r
  <2>2. CASE a.what = "start"
    <3>1. /\ UNCHANGED routes /\ default' = [default EXCEPT ![c] = r]
          /\ started' = started \cup {c}
      BY <1>1, <2>2, Learned DEF r
    <3>2. QED
      BY <2>1, <3>1 DEF RoutesOfStarted, TypeOK
  <2>3. CASE a.what = "probe"
    <3>1. UNCHANGED <<default, started>> /\ routes' = [routes EXCEPT ![c][a.about] = r]
      BY <1>1, <2>3, Learned DEF r
    <3>2. c \in started /\ \A e \in Client \ {c} : routes'[e] = routes[e]
      BY <2>3, <3>1 DEF AsksSound, AskSound, TypeOK
    <3>3. QED
      BY <2>1, <3>1, <3>2 DEF RoutesOfStarted
  <2>4. CASE a.what = "stats"
    BY <1>1, <2>1, <2>4, Learned DEF RoutesOfStarted
  <2>5. QED
    BY <1>1, <2>2, <2>3, <2>4, Learned
<1>2. ASSUME UNCHANGED <<started, default, routes>>,
             \A c \in Client : usedIds[c] \subseteq usedIds'[c]
      PROVE  RoutesOfStarted'
  BY <1>2 DEF RoutesOfStarted
<1>3. \A c \in Client : usedIds[c] \subseteq usedIds'[c]
  BY Ages DEF AsksAge
<1>4. QED
  BY <1>1, <1>2, <1>3, RequestActions DEF Start, NetworkStats, CaptureProbe, Timeout

LEMMA UsableStep ==
  ASSUME TypeOK, Messages, RouteUsable, [Next]_vars
  PROVE  RouteUsable'
<1>1. \A g \in Gateway : fs[g] \subseteq fs'[g]
  BY Ages DEF FsGrows
<1>2. \A r \in Route : r[1] \in Gateway
  BY DEF Route
<1> DEFINE Works(r) == r # NoAddr => r \in Route /\ r[2] \in fs[r[1]]
           Known(c, r) == r = default[c] \/ \E s \in Server : r = routes[c][s]
<1>3. \A c \in Client : \A r : Known(c, r) => Works(r)
  BY DEF RouteUsable
<1>4. \A r : Works(r) => Works(r)'
  BY <1>1, <1>2
<1>5. (\A c \in Client : \A r : Known(c, r)' => Works(r)') => RouteUsable'
  BY DEF RouteUsable
<1> HIDE DEF Works
<1>6. ASSUME NEW c \in Client, NEW a \in asks[c], NEW m \in msgbuff[c], Answer(c, a, m)
      PROVE  RouteUsable'
  <2>1. PICK r : r = <<m.gaddr, m.pkt.forward>>
    OBVIOUS
  <2>2. Works(r)'
    <3>1. Works(r)
      BY <2>1, NewRoute DEF Works
    <3>2. QED
      BY <1>4, <3>1
  <2>3. \A e \in Client : default'[e] \in {default[e], r}
    BY <1>6, <2>1, Learned DEF TypeOK
  <2>4. \A e \in Client, s \in Server : routes'[e][s] \in {routes[e][s], r}
    <3>1. UNCHANGED routes \/ routes' = [routes EXCEPT ![c][a.about] = r]
      BY <1>6, <2>1, Learned
    <3>2. QED
      BY <3>1 DEF TypeOK
  <2>5. \A e \in Client : \A x : Known(e, x)' => Known(e, x) \/ x = r
    BY <2>3, <2>4
  <2> HIDE DEF Known
  <2>6. QED
    BY <1>3, <1>4, <1>5, <2>2, <2>5
<1>7. CASE UNCHANGED <<default, routes>>
  <2>1. \A e \in Client : \A x : Known(e, x)' => Known(e, x)
    BY <1>7
  <2> HIDE DEF Known
  <2>2. QED
    BY <1>3, <1>4, <1>5, <2>1
<1>8. QED
  BY <1>6, <1>7, RequestActions DEF Start, NetworkStats, CaptureProbe, Timeout

LEMMA AnswerStep ==
  ASSUME TypeOK, AsksSound, Messages, AnswerFits, [Next]_vars
  PROVE  AnswerFits'
<1>1. ASSUME NEW c \in Client, NEW a \in asks[c], NEW m \in msgbuff[c], Answer(c, a, m)
      PROVE  AnswerFits'
  <2>1. a \in Ask /\ m.pkt.id = a.id
    BY <1>1, Answered
  <2>2. Fits(a, m.gaddr, m.pkt) /\ m.pkt.client = c
    BY <2>1, PktFields, MessageKind DEF Messages, Queued, Relayed, Tracked
  <2> DEFINE n == [a EXCEPT !.left = 1]
             x == [client |-> c, ask |-> n, gaddr |-> m.gaddr, pkt |-> m.pkt]
  <2>3. n.what = a.what /\ n.about = a.about /\ n.what \in {"start", "probe", "stats"}
    BY <2>1 DEF Ask
  <2>4. answers' = answers \cup {x}
    BY <1>1 DEF Answer
  <2>5. x.client = c /\ x.ask = n /\ x.gaddr = m.gaddr /\ x.pkt = m.pkt
    OBVIOUS
  <2> HIDE DEF n, x
  <2>6. QED
    BY <2>2, <2>3, <2>4, <2>5 DEF AnswerFits, Fits
<1>2. CASE UNCHANGED answers
  BY <1>2 DEF AnswerFits
<1>3. QED
  BY <1>1, <1>2, RequestActions DEF Start, NetworkStats, CaptureProbe, Timeout

LEMMA ControlInit == Init => ControlInv
BY TypeInit DEF Init, ControlInv, AsksSound, RoutesOfStarted, Messages, Asked, Passed, Waits,
   Echoed, Told, Queued, RouteUsable, AnswerFits

LEMMA ControlStep == ControlInv /\ [Next]_vars => ControlInv'
BY TypeStep, AsksStep, RoutesStep, MessagesStep, UsableStep, AnswerStep DEF ControlInv

LEMMA ControlAlways == Spec => []ControlInv
<1>1. Init => ControlInv
  BY ControlInit
<1>2. ControlInv /\ [Next]_vars => ControlInv'
  BY ControlStep
<1>3. QED
  BY <1>1, <1>2, PTL DEF Spec

-----------------------------------------------------------------------------
(* The route of a flow *)

LEMMA MatchKept ==
  ASSUME TypeOK, AsksSound, RoutesOfStarted, [Next]_vars,
         NEW c \in Client, NEW fl \in Endpoint, Match(c, fl) # NoAddr
  PROVE  Match(c, fl)' = Match(c, fl)
<1>1. fl.server \in Server
  BY DEF Endpoint
<1>2. ASSUME NEW e \in Client, NEW a \in asks[e], NEW m \in msgbuff[e], Answer(e, a, m)
      PROVE  Match(c, fl)' = Match(c, fl)
  <2>1. AskSound(e, a)
    BY DEF AsksSound
  <2>2. default[c] # NoAddr => default'[c] = default[c]
    BY <1>2, <2>1, Learned DEF AskSound, RoutesOfStarted, TypeOK
  <2>3. routes[c][fl.server] # NoAddr => routes'[c][fl.server] = routes[c][fl.server]
    <3>1. \/ UNCHANGED routes
          \/ /\ routes' = [routes EXCEPT ![e][a.about] = <<m.gaddr, m.pkt.forward>>]
             /\ a.about \in Server /\ routes[e][a.about] = NoAddr
      BY <1>2, <2>1, Learned DEF AskSound
    <3>2. QED
      BY <1>1, <3>1 DEF TypeOK
  <2>4. QED
    BY <2>2, <2>3 DEF Match
<1>3. CASE UNCHANGED <<default, routes>>
  BY <1>3 DEF Match
<1>4. QED
  BY <1>2, <1>3, RequestActions DEF Start, NetworkStats, CaptureProbe, Timeout

LEMMA RouteOfSegment ==
  ASSUME TypeOK
  PROVE  /\ \A d \in toGateway : d.pkt.kind = "Data" =>
              /\ d.client \in Client /\ d.pkt.tag \in Endpoint
              /\ <<d.gateway, d.pkt.forward>> # NoAddr
         /\ \A d \in toForward : d.pkt.kind = "Data" =>
              /\ d.pkt.client \in Client /\ d.pkt.tag \in Endpoint
              /\ <<d.gateway, d.forward>> # NoAddr
         /\ \A l \in links : /\ l.ep \in Endpoint /\ l.ep.client \in Client
                             /\ <<l.gaddr, l.forward>> # NoAddr
<1>1. \A g \in Gateway, f \in AnyForward : <<g, f>> # NoAddr
  BY RelayAssumption DEF AnyForward
<1>2. ASSUME NEW d \in toGateway, d.pkt.kind = "Data"
      PROVE  /\ d.client \in Client /\ d.pkt.tag \in Endpoint
             /\ <<d.gateway, d.pkt.forward>> # NoAddr
  <2>1. d.pkt \in DataPkt({NoAddr}, ProcPort, SrvPort) /\ d.gateway \in Gateway /\ d.client \in Client
    BY <1>2 DEF TypeOK, ClientPkt, MsgPkt, Ping, PackLoss
  <2>2. QED
    BY <1>1, <2>1 DEF DataPkt
<1>3. ASSUME NEW d \in toForward, d.pkt.kind = "Data"
      PROVE  /\ d.pkt.client \in Client /\ d.pkt.tag \in Endpoint
             /\ <<d.gateway, d.forward>> # NoAddr
  <2>1. d.pkt \in DataPkt(Client, ProcPort, SrvPort)
    BY <1>3, DataPktType
  <2>2. d.gateway \in Gateway /\ d.forward \in AnyForward
    BY DEF TypeOK
  <2>3. QED
    BY <1>1, <2>1, <2>2 DEF DataPkt
<1>4. ASSUME NEW l \in links
      PROVE  /\ l.ep \in Endpoint /\ l.ep.client \in Client
             /\ <<l.gaddr, l.forward>> # NoAddr
  <2>1. l \in Link
    BY DEF TypeOK
  <2>2. l.ep \in Endpoint /\ l.gaddr \in Gateway /\ l.forward \in AnyForward
    BY <2>1 DEF Link, AnyForward
  <2>3. QED
    BY <1>1, <2>2 DEF Endpoint
<1>5. QED
  BY <1>2, <1>3, <1>4

\* The segments that are on the way to a forward come from clients, and from those
\* that were on the way to a gateway.
LEMMA SegmentsFrom ==
  ASSUME TypeOK, [Next]_vars
  PROVE  /\ \A d \in toGateway' : d.pkt.kind = "Data" =>
              \/ d \in toGateway
              \/ /\ d.client \in Client /\ d.pkt.tag \in Flow
                 /\ Match(d.client, d.pkt.tag) # NoAddr /\ UNCHANGED <<default, routes>>
                 /\ d.gateway = Match(d.client, d.pkt.tag)[1]
                 /\ d.pkt.forward = Match(d.client, d.pkt.tag)[2]
         /\ \A d \in toForward' : d.pkt.kind = "Data" =>
              \/ d \in toForward
              \/ \E x \in toGateway : /\ x.pkt.kind = "Data" /\ x.gateway = d.gateway
                                      /\ x.client = d.pkt.client /\ x.pkt.tag = d.pkt.tag
                                      /\ x.pkt.forward = d.forward
                                      /\ UNCHANGED <<default, routes>>
<1> USE DEF netVars, clientVars, forwardVars
<1> DEFINE G == \A d \in toGateway' : d.pkt.kind = "Data" =>
              \/ d \in toGateway
              \/ /\ d.client \in Client /\ d.pkt.tag \in Flow
                 /\ Match(d.client, d.pkt.tag) # NoAddr /\ UNCHANGED <<default, routes>>
                 /\ d.gateway = Match(d.client, d.pkt.tag)[1]
                 /\ d.pkt.forward = Match(d.client, d.pkt.tag)[2]
           F == \A d \in toForward' : d.pkt.kind = "Data" =>
              \/ d \in toForward
              \/ \E x \in toGateway : /\ x.pkt.kind = "Data" /\ x.gateway = d.gateway
                                      /\ x.client = d.pkt.client /\ x.pkt.tag = d.pkt.tag
                                      /\ x.pkt.forward = d.forward
                                      /\ UNCHANGED <<default, routes>>
<1> DEFINE Quiet == UNCHANGED <<toGateway, toForward>>
<1>1. UNCHANGED toGateway => G
  OBVIOUS
<1>2. UNCHANGED toForward => F
  OBVIOUS
<1>3. ASSUME NEW c, NEW gateways, NEW kinds, NEW id, NEW forward, NEW server,
             Request(c, gateways, kinds, id, forward, server), "Data" \notin kinds
      PROVE  G
  BY <1>3 DEF Request
<1>4. ASSUME NEW c \in Client, NEW id \in MsgId,
             \/ Start(c, id)
             \/ \E r \in Route : NetworkStats(c, r, id)
             \/ \E fl \in Flow : CaptureProbe(c, fl, id)
      PROVE  G /\ UNCHANGED toForward
  <2>1. UNCHANGED toForward
    BY <1>4 DEF Start, NetworkStats, CaptureProbe
  <2>2. "Data" \notin StatsKind
    BY DEF StatsKind, PackLoss
  <2>3. G
    BY <1>3, <1>4, <2>2 DEF Start, NetworkStats, CaptureProbe
  <2>4. QED
    BY <2>1, <2>3
<1>5. ASSUME NEW c \in Client, NEW fl \in Flow, Capture(c, fl) PROVE G /\ UNCHANGED toForward
  <2> DEFINE s == [client |-> c, gateway |-> Match(c, fl)[1],
                   pkt |-> [kind |-> "Data", proto |-> fl.proto, client |-> NoAddr,
                            forward |-> Match(c, fl)[2], server |-> fl.server,
                            src |-> fl.processPort, dst |-> fl.serverPort, tag |-> fl]]
  <2>1. /\ toGateway' = toGateway \cup {s} /\ UNCHANGED <<toForward, default, routes>>
        /\ Match(c, fl) # NoAddr
    BY <1>5 DEF Capture
  <2>2. /\ s.client = c /\ s.pkt.tag = fl /\ s.gateway = Match(c, fl)[1]
        /\ s.pkt.forward = Match(c, fl)[2]
    OBVIOUS
  <2> HIDE DEF s
  <2>3. QED
    BY <2>1, <2>2
<1>6. ASSUME NEW d \in toGateway, GatewayUplink(d) PROVE F /\ UNCHANGED toGateway
  <2> DEFINE p == SetClient(d)
  <2>1. /\ p \in UpPkt /\ p.kind = d.pkt.kind /\ p.client = d.client /\ p.forward = d.pkt.forward
        /\ d.pkt.kind = "Data" => p.tag = d.pkt.tag
    BY ClientSet
  <2>2. UNCHANGED <<toGateway, default, routes>>
    BY <1>6 DEF GatewayUplink
  <2>3. ASSUME NEW x \in toForward', x \notin toForward, x.pkt.kind = "Data"
        PROVE  /\ d.pkt.kind = "Data" /\ x.gateway = d.gateway /\ x.pkt.client = d.client
               /\ x.pkt.tag = d.pkt.tag /\ x.forward = d.pkt.forward
    <3>1. PICK f : /\ x = [gateway |-> d.gateway, forward |-> f, pkt |-> [p EXCEPT !.forward = f]]
                   /\ p.kind = "Data" => f \in Registered(d.gateway, p)
      BY <1>6, <2>3 DEF GatewayUplink
    <3>2. x.gateway = d.gateway /\ x.forward = f /\ x.pkt = [p EXCEPT !.forward = f]
      BY <3>1
    <3> HIDE DEF p
    <3>3. /\ x.pkt.kind = p.kind /\ x.pkt.client = p.client
          /\ p.kind = "Data" => x.pkt.tag = p.tag
      BY <2>1, <3>2, Readdressed
    <3>4. QED
      BY <2>1, <2>3, <3>1, <3>2, <3>3 DEF Registered
  <2>4. QED
    BY <2>2, <2>3
<1>7. ASSUME NEW d, \/ ClientDownlink(d) \/ GatewayDownlink(d) \/ ForwardEcho(d) \/ ForwardPing(d)
                    \/ ForwardData(d) \/ ForwardNewLink(d) \/ ForwardCloses(d) \/ ServerReply(d)
                    \/ LinkCloses(d)
      PROVE  Quiet
  BY <1>7 DEF ClientDownlink, GatewayDownlink, ForwardEcho, ForwardPing,
     ForwardData, ForwardNewLink, ForwardCloses, ServerReply, LinkCloses
<1>8. ASSUME NEW d, NEW e, Pong(d, e) \/ LinkRecv(d, e) \/ AddForward(d, e) \/ Timeout(d, e)
      PROVE  Quiet
  BY <1>8 DEF Pong, LinkRecv, AddForward, Timeout
<1>9. ASSUME NEW c, NEW a, NEW m, Answer(c, a, m) PROVE Quiet
  BY <1>9 DEF Answer
<1>10. UNCHANGED vars => Quiet
  BY DEF vars
<1>q. Quiet => UNCHANGED toGateway /\ UNCHANGED toForward
  OBVIOUS
<1> HIDE DEF G, F, Quiet
<1>11. \/ Quiet
       \/ \E c \in Client, id \in MsgId :
            \/ Start(c, id)
            \/ \E r \in Route : NetworkStats(c, r, id)
            \/ \E fl \in Flow : CaptureProbe(c, fl, id)
       \/ \E c \in Client, fl \in Flow : Capture(c, fl)
       \/ \E d \in toGateway : GatewayUplink(d)
  BY <1>7, <1>8, <1>9, <1>10 DEF Next
<1>12. G /\ F
  BY <1>q, <1>1, <1>2, <1>4, <1>5, <1>6, <1>11
<1>13. QED
  BY <1>12 DEF G, F

LEMMA OnRouteStep ==
  ASSUME TypeOK, AsksSound, RoutesOfStarted, OnRoute, [Next]_vars
  PROVE  OnRoute'
<1>1. ASSUME NEW c \in Client, NEW fl \in Endpoint, NEW r, r # NoAddr, r = Match(c, fl)
      PROVE  r = Match(c, fl)'
  BY <1>1, MatchKept
<1>2. ASSUME NEW d \in toGateway, d.pkt.kind = "Data"
      PROVE  <<d.gateway, d.pkt.forward>> = Match(d.client, d.pkt.tag)'
  BY <1>1, <1>2, RouteOfSegment DEF OnRoute
<1>3. ASSUME NEW d \in toForward, d.pkt.kind = "Data"
      PROVE  <<d.gateway, d.forward>> = Match(d.pkt.client, d.pkt.tag)'
  BY <1>1, <1>3, RouteOfSegment DEF OnRoute
<1>4. ASSUME NEW d \in toGateway', d.pkt.kind = "Data"
      PROVE  <<d.gateway, d.pkt.forward>> = Match(d.client, d.pkt.tag)'
  <2>1. ASSUME d.client \in Client, d.pkt.tag \in Flow, Match(d.client, d.pkt.tag) # NoAddr,
               UNCHANGED <<default, routes>>,
               d.gateway = Match(d.client, d.pkt.tag)[1],
               d.pkt.forward = Match(d.client, d.pkt.tag)[2]
        PROVE  <<d.gateway, d.pkt.forward>> = Match(d.client, d.pkt.tag)'
    <3>1. d.pkt.tag.server \in Server
      BY <2>1, RelayAssumption DEF Endpoint
    <3>2. Match(d.client, d.pkt.tag) \in AnyRoute
      BY <2>1, <3>1 DEF Match, TypeOK
    <3>3. Match(d.client, d.pkt.tag) = <<d.gateway, d.pkt.forward>>
      BY <2>1, <3>2 DEF AnyRoute
    <3>4. Match(d.client, d.pkt.tag)' = Match(d.client, d.pkt.tag)
      BY <2>1 DEF Match
    <3>5. QED
      BY <3>3, <3>4
  <2>2. QED
    BY <1>2, <1>4, <2>1, SegmentsFrom
<1>5. ASSUME NEW d \in toForward', d.pkt.kind = "Data"
      PROVE  <<d.gateway, d.forward>> = Match(d.pkt.client, d.pkt.tag)'
  <2>1. d \in toForward \/ \E x \in toGateway :
          /\ x.pkt.kind = "Data" /\ x.gateway = d.gateway /\ x.client = d.pkt.client
          /\ x.pkt.tag = d.pkt.tag /\ x.pkt.forward = d.forward
    BY <1>5, SegmentsFrom
  <2>2. QED
    BY <1>2, <1>3, <1>5, <2>1
<1>6. QED
  BY <1>4, <1>5 DEF OnRoute

-----------------------------------------------------------------------------
(* Links *)

\* A link is opened for a segment on its way to the link's forward.
LEMMA LinksFrom ==
  ASSUME TypeOK, [Next]_vars
  PROVE  \A l \in links' :
            \/ l \in links
            \/ \E d \in toForward : /\ d.pkt.kind = "Data" /\ l.ep = NewEP(d.pkt)
                                    /\ l.gaddr = d.gateway /\ l.forward = d.forward
<1> USE DEF netVars, clientVars, forwardVars
<1> DEFINE From(l) ==
            \/ l \in links
            \/ \E d \in toForward : /\ d.pkt.kind = "Data" /\ l.ep = NewEP(d.pkt)
                                    /\ l.gaddr = d.gateway /\ l.forward = d.forward
<1>1. \A l \in links : From(l)
  OBVIOUS
<1>2. ASSUME NEW d \in toForward, ForwardNewLink(d) PROVE \A l \in links' : From(l)
  <2>1. PICK n : links' = links \cup {NewLink(d.forward, NewEP(d.pkt), d.gateway, n)}
    BY <1>2 DEF ForwardNewLink
  <2>2. d.pkt.kind = "Data"
    BY <1>2 DEF ForwardNewLink
  <2>3. From(NewLink(d.forward, NewEP(d.pkt), d.gateway, n))
    BY <2>2 DEF NewLink
  <2>4. QED
    BY <1>1, <2>1, <2>3
<1> HIDE DEF From
<1>3. ASSUME NEW f, ForwardCloses(f) \/ LinkCloses(f)
      PROVE  \A l \in links' : From(l)
  BY <1>1, <1>3 DEF ForwardCloses, LinkCloses
<1>4. ASSUME UNCHANGED links PROVE \A l \in links' : From(l)
  BY <1>1, <1>4
<1>5. ASSUME NEW d, \/ ClientDownlink(d) \/ GatewayUplink(d) \/ GatewayDownlink(d)
                    \/ ForwardEcho(d) \/ ForwardPing(d) \/ ForwardData(d)
                    \/ ServerReply(d)
      PROVE  UNCHANGED links
  BY <1>5 DEF ClientDownlink, GatewayUplink, GatewayDownlink, ForwardEcho, ForwardPing,
     ForwardData, ServerReply
<1>6. ASSUME NEW c, NEW e, \/ Start(c, e) \/ (\E r \in Route : NetworkStats(c, r, e))
                           \/ (\E fl \in Flow : CaptureProbe(c, fl, e)) \/ Capture(c, e)
                           \/ Pong(c, e) \/ AddForward(c, e) \/ Timeout(c, e)
                           \/ LinkRecv(c, e)
                           \/ \E m \in msgbuff[c] : Answer(c, e, m)
      PROVE  UNCHANGED links
  BY <1>6 DEF Start, NetworkStats, CaptureProbe, Capture, Pong, AddForward, Timeout,
     Answer, LinkRecv
<1>7. UNCHANGED vars => UNCHANGED links
  BY DEF vars
<1>8. \/ UNCHANGED links
      \/ \E d \in toForward : ForwardNewLink(d)
      \/ \E f \in Forward : ForwardCloses(f)
      \/ \E l \in links : LinkCloses(l)
  BY <1>5, <1>6, <1>7 DEF Next
<1>9. \A l \in links' : From(l)
  BY <1>2, <1>3, <1>4, <1>8
<1>10. QED
  BY <1>9 DEF From

LEMMA ReturnStep ==
  ASSUME DataInv, AsksSound, RoutesOfStarted, OnRoute, ReturnPath, [Next]_vars
  PROVE  ReturnPath'
<1>1. TypeOK /\ GatewaySends
  BY DEF DataInv
<1>2. ASSUME NEW c \in Client, NEW fl \in Endpoint, NEW r, r # NoAddr, r = Match(c, fl)
      PROVE  r = Match(c, fl)'
  BY <1>1, <1>2, MatchKept
<1>3. ASSUME NEW l \in links
      PROVE  <<l.gaddr, l.forward>> = Match(l.ep.client, l.ep)'
  <2>1. /\ l.ep \in Endpoint /\ l.ep.client \in Client /\ <<l.gaddr, l.forward>> # NoAddr
        /\ <<l.gaddr, l.forward>> = Match(l.ep.client, l.ep)
    BY <1>1, RouteOfSegment DEF ReturnPath
  <2>2. QED
    BY <1>2, <2>1
<1>4. ASSUME NEW l \in links', NEW d \in toForward, d.pkt.kind = "Data", l.ep = NewEP(d.pkt),
             l.gaddr = d.gateway, l.forward = d.forward
      PROVE  <<l.gaddr, l.forward>> = Match(l.ep.client, l.ep)'
  <2>1. /\ d.pkt.client \in Client /\ d.pkt.tag \in Endpoint /\ <<d.gateway, d.forward>> # NoAddr
        /\ <<d.gateway, d.forward>> = Match(d.pkt.client, d.pkt.tag)
        /\ d.pkt.tag = NewEP(d.pkt)
    BY <1>1, <1>4, RouteOfSegment DEF OnRoute, GatewaySends
  <2>2. <<d.gateway, d.forward>> = Match(d.pkt.client, d.pkt.tag)'
    BY <1>2, <2>1
  <2>3. l.ep.client = d.pkt.client /\ l.ep = d.pkt.tag
    BY <1>4, <2>1 DEF NewEP
  <2>4. QED
    BY <1>4, <2>2, <2>3
<1>5. QED
  BY <1>1, <1>3, <1>4, LinksFrom DEF ReturnPath

LEMMA PathAlways == Spec => []PathInv
<1>1. Init => OnRoute /\ ReturnPath
  BY DEF Init, OnRoute, ReturnPath
<1>2. OnRoute /\ ReturnPath /\ DataInv /\ ControlInv /\ [Next]_vars => (OnRoute /\ ReturnPath)'
  BY OnRouteStep, ReturnStep DEF ControlInv
<1>3. PathInv <=> DataInv /\ ControlInv /\ (OnRoute /\ ReturnPath)
  BY DEF PathInv
<1>4. QED
  BY <1>1, <1>2, <1>3, DataInvCorrect, ControlAlways, PTL DEF Spec

-----------------------------------------------------------------------------
(***************************************************************************)
(* The theorems.                                                           *)
(***************************************************************************)
\* Whatever a client has learned, from answers that may be late, repeated or out of
\* order, a gateway has the forward of each of its routes registered and passes its
\* segments on (gateway.go:226).
THEOREM RouteUsableCorrect == Spec => []RouteUsable
<1>1. ControlInv => RouteUsable
  BY DEF ControlInv
<1>2. QED
  BY <1>1, ControlAlways, PTL

\* The queue of messages that all requests share gives each only what answers it, also
\* when the answers to a request come after its deadline (client.go:256).
THEOREM AnswerFitsCorrect == Spec => []AnswerFits
<1>1. ControlInv => AnswerFits
  BY DEF ControlInv
<1>2. QED
  BY <1>1, ControlAlways, PTL

\* A link answers through the gateway its flow's client sends to: a client never sends
\* a flow along two routes (link.go:47, client.go:327).
THEOREM ReturnPathCorrect == Spec => []ReturnPath
<1>1. PathInv => ReturnPath
  BY DEF PathInv
<1>2. QED
  BY <1>1, PathAlways, PTL
=============================================================================
