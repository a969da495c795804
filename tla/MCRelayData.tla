----------------------------- MODULE MCRelayData -----------------------------
(***************************************************************************)
(* Two clients and two servers.  Both clients have a flow from the same    *)
(* process port to the same server, and one of them another flow from that *)
(* port, so no header field but the combination tells the three apart; a   *)
(* forward has two local ports for them.  The run starts where both        *)
(* clients have started, with their pings answered and nothing in flight.  *)
(***************************************************************************)
EXTENDS Relay
CONSTANTS c1, c2, g1, f1, s1, s2, udp, p1, q1

MCEp(c, s) == [client |-> c, proto |-> udp, processPort |-> p1, server |-> s,
               serverPort |-> q1]
MCFlow     == {MCEp(c1, s1), MCEp(c2, s1), MCEp(c1, s2)}
MCPlayFlow == {}

MCInit ==
    /\ toGateway = {} /\ toForward = {} /\ fromForward = {} /\ toClient = {}
    /\ toServer = {} /\ fromServer = {}
    /\ started  = Client
    /\ asks     = [c \in Client |-> {}]
    /\ usedIds  = [c \in Client |-> MsgId]
    /\ msgbuff  = [c \in Client |-> {}]
    /\ default  = [c \in Client |-> <<g1, f1>>]
    /\ routes   = [c \in Client |-> [s \in Server |-> NoAddr]]
    /\ injected = {} /\ answers = {}
    /\ fs       = [g \in Gateway |-> {f1}]
    /\ links = {} /\ down = {}
    /\ pinging  = [f \in Forward |-> {}]

MCSpec == MCInit /\ [][Next]_vars
==============================================================================
