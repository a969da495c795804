------------------------------ MODULE PseudoTCP ------------------------------
(***************************************************************************)
(* The connections of conn/tcp between a client and a gateway: datagrams   *)
(* in the guise of TCP.  Each end has a table with the other end's         *)
(* PseudoTCP, which is made by whoever first writes to it or reads from    *)
(* it; a handshake that nothing repeats but the next write; and a timer    *)
(* that takes a silent connection out of the table.  A step is a locked    *)
(* section, or the timer's comparison, which takes no lock and is over     *)
(* before it asks for the table's.                                         *)
(*                                                                         *)
(* An initial sequence number is random and not 0; here it is the number   *)
(* of the PseudoTCP it belongs to.  Of later sequence numbers only this    *)
(* matters: whether sndNxt &^ rcvNxt differs from the last tick's.          *)
(***************************************************************************)
EXTENDS Naturals, FiniteSets

CONSTANTS ClientWriter,   \* goroutines that write at the client,
          GatewayWriter,  \* and at the gateway
          MaxConn         \* bound on the PseudoTCPs ever made

ASSUME ConnAssumption ==
    MaxConn \in Nat /\ ClientWriter \cap GatewayWriter = {}

End == {"client", "gateway"}
Peer(e) == IF e = "client" THEN "gateway" ELSE "client"
Writer == ClientWriter \cup GatewayWriter
At(w) == IF w \in ClientWriter THEN "client" ELSE "gateway"
ConnId == 1..MaxConn
Nil == 0

VARIABLES
    eps,       \* per end, its entry for the other end
    made,      \* PseudoTCPs made so far
    conn,      \* the PseudoTCPs
    net,       \* packets that may yet be read
    wpc, wp,   \* per writer: where it is, and the PseudoTCP it holds
    rpc, rp,   \* per end, the same of the goroutine that reads,
    pkt,       \* and its packet
    nilSend,   \* ends that have sent a nil packet, which is a panic
    raced      \* ends whose entry has been overwritten

writerVars == <<wpc, wp>>
readerVars == <<rpc, rp, pkt>>
history    == <<nilSend, raced>>
vars == <<eps, made, conn, net, writerVars, readerVars, history>>

\* moved: sndNxt &^ rcvNxt differs from magic.  timer: the next keepalive is due, or
\* one has found that nothing moved and has yet to delete the entry.
Conn == [host : End, dial : BOOLEAN, established : BOOLEAN, ian : ConnId \cup {Nil},
         cached : BOOLEAN, moved : BOOLEAN, timer : {"none", "armed", "delete"}]
NoConn == [host |-> "client", dial |-> FALSE, established |-> FALSE, ian |-> Nil,
           cached |-> FALSE, moved |-> FALSE, timer |-> "none"]

\* seq and ack name the PseudoTCPs whose initial sequence numbers they are next to;
\* where the reader looks at neither they are Nil.
Packet == {q \in [to : End, flags : {"SYN", "SYN|ACK", "ACK", "PSH|ACK"},
                  seq : ConnId \cup {Nil}, ack : ConnId \cup {Nil}] :
             /\ q.seq # Nil <=> q.flags \in {"SYN", "SYN|ACK"}
             /\ q.ack # Nil <=> q.flags \in {"ACK", "SYN|ACK"}}
Pkt(to, flags, seq, ack) == [to |-> to, flags |-> flags, seq |-> seq, ack |-> ack]
NoPkt == Pkt("client", "PSH|ACK", Nil, Nil)

TypeOK ==
    /\ eps \in [End -> ConnId \cup {Nil}] /\ made \in 0..MaxConn
    /\ conn \in [ConnId -> Conn]
    /\ net \subseteq Packet
    /\ wpc \in [Writer -> {"idle", "set", "check", "lock"}]
    /\ wp \in [Writer -> ConnId \cup {Nil}]
    /\ rpc \in [End -> {"read", "set", "recv"}]
    /\ rp \in [End -> ConnId \cup {Nil}] /\ pkt \in [End -> Packet]
    /\ nilSend \subseteq End /\ raced \subseteq End

Init ==
    /\ eps = [e \in End |-> Nil] /\ made = 0
    /\ conn = [p \in ConnId |-> NoConn]
    /\ net = {}
    /\ wpc = [w \in Writer |-> "idle"] /\ wp = [w \in Writer |-> Nil]
    /\ rpc = [e \in End |-> "read"] /\ rp = [e \in End |-> Nil]
    /\ pkt = [e \in End |-> NoPkt]
    /\ nilSend = {} /\ raced = {}

Up == nilSend = {}

\* What sending or receiving may make of moved: two numbers that both grow may give
\* the same sndNxt &^ rcvNxt again.  A timer that is to delete, or has, no longer
\* looks.
Moves(c) == IF c.timer = "armed" THEN BOOLEAN ELSE {c.moved}

\* NewPseudoTCP and eps.set, whatever has been entered since eps.get.
Make(e, dials) ==
    /\ made < MaxConn /\ made' = made + 1
    /\ conn' = [conn EXCEPT ![made + 1] =
                  [NoConn EXCEPT !.host = e, !.dial = dials, !.moved = TRUE,
                          !.timer = "armed"]]
    /\ eps' = [eps EXCEPT ![e] = made + 1]
    /\ raced' = IF eps[e] = Nil THEN raced ELSE raced \cup {e}

-----------------------------------------------------------------------------
(***************************************************************************)
(* TCPConn.WriteToAddrPort.                                                *)
(***************************************************************************)
WriteGet(w) ==
    /\ wpc[w] = "idle" /\ Up
    /\ wp' = [wp EXCEPT ![w] = eps[At(w)]]
    /\ wpc' = [wpc EXCEPT ![w] = IF eps[At(w)] = Nil THEN "set" ELSE "check"]
    /\ UNCHANGED <<eps, made, conn, net, readerVars, history>>

WriteSet(w) ==
    /\ wpc[w] = "set" /\ Up
    /\ Make(At(w), TRUE)
    /\ wp' = [wp EXCEPT ![w] = made'] /\ wpc' = [wpc EXCEPT ![w] = "check"]
    /\ UNCHANGED <<net, readerVars, nilSend>>

\* PseudoTCP.Send: an established connection sends the data, and need not take the
\* lock for it ...
WriteCheck(w) ==
    /\ wpc[w] = "check" /\ Up
    /\ LET p == wp[w] IN
       IF conn[p].established
       THEN /\ net' = net \cup {Pkt(Peer(At(w)), "PSH|ACK", Nil, Nil)}
            /\ \E m \in Moves(conn[p]) : conn' = [conn EXCEPT ![p].moved = m]
            /\ wpc' = [wpc EXCEPT ![w] = "idle"] /\ wp' = [wp EXCEPT ![w] = Nil]
       ELSE wpc' = [wpc EXCEPT ![w] = "lock"] /\ UNCHANGED <<net, conn, wp>>
    /\ UNCHANGED <<eps, made, readerVars, history>>

\* ... another one keeps the first packet and goes on with the handshake.  (Mutated
\* form: the accepting end does so before it has seen a SYN.)
GreetingEarly(p) ==
    LET c == conn[p] IN
    CASE c.dial /\ c.ian = Nil -> {Pkt(Peer(c.host), "SYN", p, Nil)}
      [] c.dial /\ c.ian # Nil -> {Pkt(Peer(c.host), "ACK", Nil, c.ian)}
      [] OTHER                 -> {Pkt(Peer(c.host), "SYN|ACK", p, c.ian)}
Greeting(p) ==
    LET c == conn[p] IN
    CASE c.dial /\ c.ian = Nil  -> {Pkt(Peer(c.host), "SYN", p, Nil)}
      [] c.dial /\ c.ian # Nil  -> {Pkt(Peer(c.host), "ACK", Nil, c.ian)}
      [] ~c.dial /\ c.ian # Nil -> {Pkt(Peer(c.host), "SYN|ACK", p, c.ian)}
      [] OTHER                  -> {}

\* Only a dialing end that is yet to be established will ever send what it keeps.
\* (Mutated form: the packet is kept only by the second write.)
Sends(p) == conn[p].dial /\ ~conn[p].established
KeepsSecond(p) == Sends(p) /\ \E q \in net : q.flags = "SYN" /\ q.seq = p
Keeps(p) == Sends(p)

WriteLocked(w) ==
    /\ wpc[w] = "lock" /\ Up
    /\ conn' = [conn EXCEPT ![wp[w]].cached = @ \/ Keeps(wp[w])]
    /\ net' = net \cup Greeting(wp[w])
    /\ wpc' = [wpc EXCEPT ![w] = "idle"] /\ wp' = [wp EXCEPT ![w] = Nil]
    /\ UNCHANGED <<eps, made, readerVars, history>>

-----------------------------------------------------------------------------
(***************************************************************************)
(* TCPConn.ReadFromAddrPort.                                               *)
(***************************************************************************)
ReadGet(e) ==
    /\ rpc[e] = "read" /\ Up
    /\ \E q \in net : q.to = e /\ pkt' = [pkt EXCEPT ![e] = q]
    /\ rp' = [rp EXCEPT ![e] = eps[e]]
    /\ rpc' = [rpc EXCEPT ![e] = IF eps[e] = Nil THEN "set" ELSE "recv"]
    /\ UNCHANGED <<eps, made, conn, net, writerVars, history>>

ReadSet(e) ==
    /\ rpc[e] = "set" /\ Up
    /\ Make(e, FALSE)
    /\ rp' = [rp EXCEPT ![e] = made'] /\ rpc' = [rpc EXCEPT ![e] = "recv"]
    /\ UNCHANGED <<net, writerVars, pkt, nilSend>>

\* PseudoTCP.Recv is done with the packet, and leaves the PseudoTCP as it is, but
\* for its sequence numbers, which changed may say have moved.
Reads(e, sends, changed) ==
    /\ net' = net \cup sends
    /\ conn' = [conn EXCEPT ![rp[e]] = changed]
    /\ rpc' = [rpc EXCEPT ![e] = "read"] /\ rp' = [rp EXCEPT ![e] = Nil]
    /\ pkt' = [pkt EXCEPT ![e] = NoPkt]
    /\ UNCHANGED <<eps, made, writerVars, raced>>

\* An established connection takes any packet for data.  (Mutated form: it answers
\* the second half of the handshake once more.)
RepliesAgain(e) == IF pkt[e].flags = "SYN|ACK"
                   THEN {Pkt(Peer(e), "ACK", Nil, conn[rp[e]].ian)} ELSE {}
Replies(e) == {}

RecvData(e) ==
    /\ rpc[e] = "recv" /\ Up /\ conn[rp[e]].established
    /\ \E m \in Moves(conn[rp[e]]) :
          Reads(e, Replies(e), [conn[rp[e]] EXCEPT !.moved = m])
    /\ UNCHANGED nilSend

\* The dialing end is established by any SYN|ACK, and sends the packet it has
\* kept.
RecvDial(e) ==
    /\ rpc[e] = "recv" /\ Up
    /\ LET c == conn[rp[e]]
           ian == IF c.ian = Nil THEN pkt[e].seq ELSE c.ian IN
       /\ c.dial /\ ~c.established
       /\ IF pkt[e].flags = "SYN|ACK"
          THEN /\ \E m \in Moves(c) :
                     Reads(e, {Pkt(Peer(e), "ACK", Nil, ian)}
                              \cup (IF c.cached THEN {Pkt(Peer(e), "PSH|ACK", Nil, Nil)} ELSE {}),
                           [c EXCEPT !.ian = ian, !.established = TRUE, !.cached = FALSE,
                                     !.moved = m])
               /\ nilSend' = IF c.cached THEN nilSend ELSE nilSend \cup {e}
          ELSE Reads(e, {}, c) /\ UNCHANGED nilSend

\* (Mutated form: by any ACK.)
AcksAny(e) == pkt[e].flags = "ACK"
Acks(e) == pkt[e].flags = "ACK" /\ pkt[e].ack = rp[e]

\* The accepting end answers every SYN and is established by the ACK of its own
\* sequence number.
RecvAccept(e) ==
    /\ rpc[e] = "recv" /\ Up
    /\ LET c == conn[rp[e]]
           ian == IF c.ian = Nil THEN pkt[e].seq ELSE c.ian IN
       /\ ~c.dial /\ ~c.established
       /\ CASE pkt[e].flags = "SYN" ->
                 \E m \in Moves(c) :
                    Reads(e, {Pkt(Peer(e), "SYN|ACK", rp[e], ian)},
                          [c EXCEPT !.ian = ian, !.moved = m])
            [] Acks(e) -> Reads(e, {}, [c EXCEPT !.established = TRUE])
            [] OTHER -> Reads(e, {}, c)
    /\ UNCHANGED nilSend

-----------------------------------------------------------------------------
\* PseudoTCP.keepalive compares the sequence numbers with those of its last tick, and
\* goes on to delete when they look the same ...
Tick(p) ==
    /\ conn[p].timer = "armed" /\ Up
    /\ conn' = [conn EXCEPT ![p].moved = FALSE,
                             ![p].timer = IF conn[p].moved THEN "armed" ELSE "delete"]
    /\ UNCHANGED <<eps, made, net, writerVars, readerVars, history>>

\* ... the entry of its peer, whosever it is, and whatever has been sent since.
\* (Mutated form: the timer goes on.)
DeleteOn(p) ==
    /\ conn[p].timer = "delete" /\ Up
    /\ conn' = [conn EXCEPT ![p].timer = "armed"]
    /\ eps' = [eps EXCEPT ![conn[p].host] = Nil]
    /\ UNCHANGED <<made, net, writerVars, readerVars, history>>
Delete(p) ==
    /\ conn[p].timer = "delete" /\ Up
    /\ conn' = [conn EXCEPT ![p].timer = "none"]
    /\ eps' = [eps EXCEPT ![conn[p].host] = Nil]
    /\ UNCHANGED <<made, net, writerVars, readerVars, history>>

\* A packet that is never read again is lost.  That the ACK is lost for good is a
\* step, because LostAckIsFatal speaks of it.
Lose(q) ==
    /\ q \in net /\ q.flags = "ACK" /\ Up
    /\ net' = net \ {q}
    /\ UNCHANGED <<eps, made, conn, writerVars, readerVars, history>>

-----------------------------------------------------------------------------
Next ==
    \/ \E w \in Writer : WriteGet(w) \/ WriteSet(w) \/ WriteCheck(w) \/ WriteLocked(w)
    \/ \E e \in End : \/ ReadGet(e) \/ ReadSet(e)
                      \/ RecvData(e) \/ RecvDial(e) \/ RecvAccept(e)
    \/ \E p \in ConnId : Tick(p) \/ Delete(p)
    \/ \E q \in net : Lose(q)

Spec == Init /\ [][Next]_vars

-----------------------------------------------------------------------------
(***************************************************************************)
(* Properties.                                                             *)
(***************************************************************************)
\* An accepting end is established only by its own counterpart: some connection
\* of the dialing end has taken its sequence number and is established, whatever
\* packets of earlier connections come again (stack.go:157).
AcceptedByPeer ==
    \A p \in ConnId : conn[p].established /\ ~conn[p].dial =>
        \E q \in ConnId : /\ conn[q].host # conn[p].host /\ conn[q].dial
                          /\ conn[q].established /\ conn[q].ian = p

\* The end of a handshake finds a packet to send, unless the same end has dialed
\* twice: a connection that is made after another may get the other's SYN|ACK
\* before its first packet is kept (stack.go:155).
NilSendNeedsTwo ==
    \A e \in nilSend :
        Cardinality({p \in 1..made : conn[p].host = e /\ conn[p].dial}) >= 2

\* A connection leaves the table only by its own timer, after a comparison that found
\* it silent: timers of connections that came before it do not delete its entry, except
\* where two goroutines have made connections to the same peer at once.  What is sent
\* between the comparison and the deletion does not save it (stack.go:202).
SilentLosesEntry ==
    [][\A e \in End : eps[e] # Nil /\ eps'[e] # eps[e] =>
          e \in raced' \/ conn[eps[e]].timer = "delete"]_vars

\* Nothing makes up for a lost ACK, but for a write that is under way when the
\* handshake ends: while the client keeps its connection, which it
\* takes for established, the gateway drops whatever is sent on it, and the timer
\* lets go of it only when the client falls silent (stack.go:164).
Deaf ==
    LET p == eps["client"] IN
    /\ p # Nil /\ conn[p].dial /\ conn[p].established
    /\ \A q \in 1..made : conn[q].host = "gateway" => ~conn[q].established
    /\ \A q \in net : q.to = "gateway" => q.flags \in {"SYN", "PSH|ACK"}
    /\ rpc["gateway"] # "read" => pkt["gateway"].flags \in {"SYN", "PSH|ACK"}
    /\ rpc["client"] = "recv" => rp["client"] = p
    /\ \A w \in ClientWriter : wpc[w] # "lock" /\ wp[w] \in {Nil, p}
LostAckIsFatal == [][Deaf /\ eps'["client"] = eps["client"] => Deaf']_vars
==============================================================================
