----------------------------- MODULE PeerTablesProofs -----------------------------
(***************************************************************************)
(* Theorems about PseudoTCP for any number of writers at either end and    *)
(* any number of connections, and about the three tables of MCPeerTables   *)
(* side by side, for any size and bound of the registries; RegistryProofs  *)
(* has those about Registry for any loops.                                 *)
(***************************************************************************)
EXTENDS MCPeerTables, FiniteSetTheorems, TLAPS

(***************************************************************************)
(* A table has a connection of its own end, and so has a goroutine that is *)
(* in Send or Recv; a PseudoTCP not made yet is blank.                     *)
(***************************************************************************)
HoldsOwn ==
  /\ \A p \in ConnId : p > made => conn[p] = NoConn
  /\ \A e \in End : eps[e] # Nil => eps[e] <= made /\ conn[eps[e]].host = e
  /\ \A w \in Writer :
       /\ wpc[w] \in {"check", "lock"} => wp[w] # Nil
       /\ wp[w] # Nil => wp[w] <= made /\ conn[wp[w]].host = At(w)
  /\ \A e \in End :
       /\ rpc[e] = "recv" => rp[e] # Nil
       /\ rp[e] # Nil => rp[e] <= made /\ conn[rp[e]].host = e
       /\ rpc[e] # "read" => pkt[e].to = e

(***************************************************************************)
(* A dialing end is established when it knows the other's number, and a    *)
(* packet under way was sent by somebody who had reason to: an ACK by an   *)
(* established dialing end; a SYN, and an answer to one, after a dialing   *)
(* end had kept its first packet.                                          *)
(***************************************************************************)
Seen == net \cup {pkt[e] : e \in End}

Established(e, p) ==
  \E q \in ConnId : conn[q].host = e /\ conn[q].dial /\ conn[q].established /\ conn[q].ian = p

Introduced(e) ==
  \E q \in ConnId : conn[q].host = e /\ conn[q].dial /\ (conn[q].cached \/ conn[q].established)

PacketJustified(q) ==
  /\ q.flags = "ACK" => Established(Peer(q.to), q.ack)
  /\ q.flags = "SYN" => Introduced(Peer(q.to))
  /\ q.flags = "SYN|ACK" => Introduced(q.to)

ConnJustified(p) ==
  /\ conn[p].dial => (conn[p].established <=> conn[p].ian # Nil)
  /\ ~conn[p].dial /\ conn[p].ian # Nil => Introduced(Peer(conn[p].host))
  /\ ~conn[p].dial /\ conn[p].established => Established(Peer(conn[p].host), p)

Justified ==
  /\ \A q \in Seen : PacketJustified(q)
  /\ \A p \in ConnId : ConnJustified(p)

(***************************************************************************)
(* The connection whose timer runs, or is about to delete, is the one in   *)
(* the table, unless an entry has been overwritten.                        *)
(***************************************************************************)
TimerIsEntry ==
  \A p \in ConnId : conn[p].timer # "none" => eps[conn[p].host] = p \/ conn[p].host \in raced

ConnInv == TypeOK /\ HoldsOwn /\ Justified /\ TimerIsEntry /\ NilSendNeedsTwo

-----------------------------------------------------------------------------
(* Packets and connections *)

LEMMA PeerOfPeer == \A e \in End : Peer(e) \in End /\ Peer(e) # e /\ Peer(Peer(e)) = e
BY DEF End, Peer

LEMMA AtEnd == \A w \in Writer : At(w) \in End
BY DEF At, End

LEMMA PktFields ==
  ASSUME NEW to \in End, NEW flags \in {"SYN", "SYN|ACK", "ACK", "PSH|ACK"},
         NEW seq \in ConnId \cup {Nil}, NEW ack \in ConnId \cup {Nil},
         seq # Nil <=> flags \in {"SYN", "SYN|ACK"}, ack # Nil <=> flags \in {"ACK", "SYN|ACK"}
  PROVE  /\ Pkt(to, flags, seq, ack) \in Packet
         /\ Pkt(to, flags, seq, ack).to = to /\ Pkt(to, flags, seq, ack).flags = flags
         /\ Pkt(to, flags, seq, ack).seq = seq /\ Pkt(to, flags, seq, ack).ack = ack
BY DEF Pkt, Packet

LEMMA PacketFields ==
  ASSUME NEW q \in Packet
  PROVE  /\ q.to \in End /\ q.flags \in {"SYN", "SYN|ACK", "ACK", "PSH|ACK"}
         /\ q.seq \in ConnId \cup {Nil} /\ q.ack \in ConnId \cup {Nil}
         /\ q.seq # Nil <=> q.flags \in {"SYN", "SYN|ACK"}
         /\ q.ack # Nil <=> q.flags \in {"ACK", "SYN|ACK"}
BY DEF Packet

LEMMA NoPktFields == NoPkt \in Packet /\ NoPkt.flags = "PSH|ACK" /\ NoPkt.to = "client"
BY DEF NoPkt, Pkt, Packet, End, ConnId, Nil

LEMMA ConnFields ==
  ASSUME NEW c \in Conn
  PROVE  /\ c.host \in End /\ c.dial \in BOOLEAN /\ c.established \in BOOLEAN
         /\ c.ian \in ConnId \cup {Nil} /\ c.cached \in BOOLEAN /\ c.moved \in BOOLEAN
         /\ c.timer \in {"none", "armed", "delete"}
BY DEF Conn

LEMMA NoConnFields ==
  /\ NoConn \in Conn /\ ~NoConn.dial /\ ~NoConn.established /\ NoConn.ian = Nil
  /\ ~NoConn.cached /\ NoConn.timer = "none"
BY DEF NoConn, Conn, End

LEMMA MovesType == ASSUME NEW c \in Conn, NEW m \in Moves(c) PROVE m \in BOOLEAN
BY DEF Moves, Conn

\* What an update of one PseudoTCP leaves of the others.
LEMMA OneConn ==
  ASSUME conn \in [ConnId -> Conn], NEW p \in ConnId, NEW c \in Conn,
         conn' = [conn EXCEPT ![p] = c]
  PROVE  /\ conn' \in [ConnId -> Conn] /\ conn'[p] = c
         /\ \A q \in ConnId \ {p} : conn'[q] = conn[q]
  OBVIOUS

Fresh(e, dials) == [NoConn EXCEPT !.host = e, !.dial = dials, !.moved = TRUE, !.timer = "armed"]

LEMMA FreshFields ==
  ASSUME NEW e \in End, NEW dials \in BOOLEAN
  PROVE  /\ Fresh(e, dials) \in Conn /\ Fresh(e, dials).host = e
         /\ Fresh(e, dials).dial = dials /\ ~Fresh(e, dials).established
         /\ Fresh(e, dials).ian = Nil /\ ~Fresh(e, dials).cached
         /\ Fresh(e, dials).timer = "armed"
BY DEF Fresh, NoConn, Conn, End

LEMMA Made ==
  ASSUME TypeOK, NEW e \in End, NEW dials \in BOOLEAN, Make(e, dials)
  PROVE  /\ made + 1 \in ConnId /\ made' = made + 1 /\ made' \in 0..MaxConn /\ made' # Nil
         /\ conn' \in [ConnId -> Conn]
         /\ conn'[made + 1] = Fresh(e, dials)
         /\ \A q \in ConnId \ {made + 1} : conn'[q] = conn[q]
         /\ eps' = [eps EXCEPT ![e] = made + 1] /\ eps' \in [End -> ConnId \cup {Nil}]
         /\ raced' = IF eps[e] = Nil THEN raced ELSE raced \cup {e}
         /\ raced' \subseteq End
<1> USE ConnAssumption
<1>1. /\ made + 1 \in ConnId /\ made' = made + 1 /\ made' \in 0..MaxConn /\ made' # Nil
  BY DEF TypeOK, Make, ConnId, Nil
<1>2. Fresh(e, dials) \in Conn
  BY FreshFields
<1>3. conn' = [conn EXCEPT ![made + 1] = Fresh(e, dials)]
  BY DEF Make, Fresh
<1>4. conn \in [ConnId -> Conn] /\ raced \subseteq End /\ eps \in [End -> ConnId \cup {Nil}]
  BY DEF TypeOK
<1>5. /\ eps' = [eps EXCEPT ![e] = made + 1]
      /\ raced' = IF eps[e] = Nil THEN raced ELSE raced \cup {e}
  BY DEF Make
<1>6. QED
  BY <1>1, <1>2, <1>3, <1>4, <1>5, OneConn

-----------------------------------------------------------------------------
(* What the actions make of the PseudoTCP in hand *)

SameButMoved(c, d) ==
  /\ d.host = c.host /\ d.dial = c.dial /\ d.established = c.established
  /\ d.ian = c.ian /\ d.cached = c.cached /\ d.timer = c.timer

LEMMA InHand ==
  ASSUME TypeOK, HoldsOwn
  PROVE  /\ \A w \in Writer : wpc[w] \in {"check", "lock"} =>
              wp[w] \in ConnId /\ wp[w] <= made /\ conn[wp[w]] \in Conn /\ conn[wp[w]].host = At(w)
         /\ \A e \in End : rpc[e] = "recv" =>
              /\ rp[e] \in ConnId /\ rp[e] <= made /\ conn[rp[e]] \in Conn
              /\ conn[rp[e]].host = e /\ pkt[e] \in Packet /\ pkt[e].to = e
<1>1. /\ wp \in [Writer -> ConnId \cup {Nil}] /\ rp \in [End -> ConnId \cup {Nil}]
      /\ conn \in [ConnId -> Conn] /\ pkt \in [End -> Packet]
  BY DEF TypeOK
<1>2. QED
  BY <1>1 DEF HoldsOwn

LEMMA WriteCheckDoes ==
  ASSUME TypeOK, HoldsOwn, NEW w \in Writer, WriteCheck(w)
  PROVE  /\ conn' \in [ConnId -> Conn]
         /\ \A q \in ConnId : SameButMoved(conn[q], conn'[q])
         /\ \A q \in ConnId \ {wp[w]} : conn'[q] = conn[q]
         /\ net \subseteq net' /\ net' \subseteq Packet
         /\ \A q \in net' \ net : q.flags = "PSH|ACK"
<1> DEFINE p == wp[w]
           sent == Pkt(Peer(At(w)), "PSH|ACK", Nil, Nil)
<1>1. p \in ConnId /\ conn[p] \in Conn
  BY InHand DEF WriteCheck
<1>2. sent \in Packet /\ sent.flags = "PSH|ACK"
  BY AtEnd, PeerOfPeer, PktFields
<1>3. conn \in [ConnId -> Conn] /\ net \subseteq Packet
  BY DEF TypeOK
<1>4. CASE UNCHANGED <<net, conn>>
  BY <1>3, <1>4 DEF SameButMoved
<1>5. ASSUME NEW m \in Moves(conn[p]), conn' = [conn EXCEPT ![p].moved = m],
             net' = net \cup {sent}
      PROVE  /\ conn' \in [ConnId -> Conn]
             /\ \A q \in ConnId : SameButMoved(conn[q], conn'[q])
             /\ \A q \in ConnId \ {p} : conn'[q] = conn[q]
  <2> DEFINE c == [conn[p] EXCEPT !.moved = m]
  <2>1. m \in BOOLEAN
    BY <1>1, <1>5, MovesType
  <2>2. c \in Conn /\ SameButMoved(conn[p], c)
    BY <1>1, <2>1 DEF Conn, SameButMoved
  <2>3. conn' = [conn EXCEPT ![p] = c]
    BY <1>5
  <2> HIDE DEF c
  <2>4. QED
    BY <1>1, <1>3, <2>2, <2>3, OneConn DEF SameButMoved
<1> HIDE DEF sent
<1>6. QED
  BY <1>2, <1>3, <1>4, <1>5 DEF WriteCheck, sent

LEMMA WriteLockedDoes ==
  ASSUME TypeOK, HoldsOwn, NEW w \in Writer, WriteLocked(w)
  PROVE  LET p == wp[w]
             c == conn[p] IN
         /\ p \in ConnId /\ p <= made /\ c \in Conn /\ c.host = At(w)
         /\ conn' \in [ConnId -> Conn]
         /\ conn'[p].host = c.host /\ conn'[p].dial = c.dial /\ conn'[p].timer = c.timer
         /\ conn'[p].established = c.established /\ conn'[p].ian = c.ian
         /\ conn'[p].cached <=> c.cached \/ (c.dial /\ ~c.established)
         /\ \A q \in ConnId \ {p} : conn'[q] = conn[q]
         /\ net \subseteq net' /\ net' \subseteq Packet
         /\ \A q \in net' \ net :
              /\ q.to = Peer(c.host)
              /\ q.flags = "SYN" => c.dial /\ c.ian = Nil
              /\ q.flags = "ACK" => c.dial /\ c.ian # Nil /\ q.ack = c.ian
              /\ q.flags = "SYN|ACK" => ~c.dial /\ c.ian # Nil
<1> DEFINE p == wp[w]
           c == conn[p]
           d == [c EXCEPT !.cached = @ \/ Keeps(p)]
<1>1. p \in ConnId /\ p <= made /\ c \in Conn /\ c.host = At(w)
  BY InHand DEF WriteLocked
<1>2. /\ d \in Conn
      /\ d.host = c.host /\ d.dial = c.dial /\ d.timer = c.timer
      /\ d.established = c.established /\ d.ian = c.ian
      /\ d.cached <=> c.cached \/ (c.dial /\ ~c.established)
  BY <1>1 DEF Keeps, Sends, Conn
<1>3. conn' = [conn EXCEPT ![p] = d] /\ conn \in [ConnId -> Conn]
  BY DEF WriteLocked, TypeOK
<1>4. net' = net \cup Greeting(p) /\ net \subseteq Packet
  BY DEF WriteLocked, TypeOK
<1>5. Peer(c.host) \in End /\ c.ian \in ConnId \cup {Nil} /\ p # Nil
  BY <1>1, PeerOfPeer, ConnFields DEF ConnId, Nil
<1>6. ASSUME NEW q \in Greeting(p)
      PROVE  /\ q \in Packet /\ q.to = Peer(c.host)
             /\ q.flags = "SYN" => c.dial /\ c.ian = Nil
             /\ q.flags = "ACK" => c.dial /\ c.ian # Nil /\ q.ack = c.ian
             /\ q.flags = "SYN|ACK" => ~c.dial /\ c.ian # Nil
  <2> HIDE DEF c, p
  <2>1. CASE c.dial /\ c.ian = Nil
    <3>1. q = Pkt(Peer(c.host), "SYN", p, Nil)
      BY <1>6, <2>1 DEF Greeting, c
    <3>2. QED
      BY <1>1, <1>5, <2>1, <3>1, PktFields
  <2>2. CASE c.dial /\ c.ian # Nil
    <3>1. q = Pkt(Peer(c.host), "ACK", Nil, c.ian)
      BY <1>6, <2>2 DEF Greeting, c
    <3>2. QED
      BY <1>1, <1>5, <2>2, <3>1, PktFields
  <2>3. CASE ~c.dial /\ c.ian # Nil
    <3>1. q = Pkt(Peer(c.host), "SYN|ACK", p, c.ian)
      BY <1>6, <2>3 DEF Greeting, c
    <3>2. QED
      BY <1>1, <1>5, <2>3, <3>1, PktFields
  <2>4. CASE ~c.dial /\ c.ian = Nil
    BY <1>6, <2>4 DEF Greeting, c
  <2>5. QED
    BY <2>1, <2>2, <2>3, <2>4
<1> HIDE DEF d
<1>7. QED
  BY <1>1, <1>2, <1>3, <1>4, <1>6, OneConn

LEMMA ReadsDoes ==
  ASSUME TypeOK, HoldsOwn, NEW e \in End, rpc[e] = "recv",
         NEW sends, sends \subseteq Packet, NEW c \in Conn, Reads(e, sends, c)
  PROVE  /\ conn' \in [ConnId -> Conn] /\ conn'[rp[e]] = c
         /\ \A q \in ConnId \ {rp[e]} : conn'[q] = conn[q]
         /\ net' = net \cup sends /\ net' \subseteq Packet
         /\ rpc' = [rpc EXCEPT ![e] = "read"] /\ rp' = [rp EXCEPT ![e] = Nil]
         /\ pkt' = [pkt EXCEPT ![e] = NoPkt]
         /\ UNCHANGED <<eps, made, wpc, wp, raced>>
<1>1. rp[e] \in ConnId /\ conn \in [ConnId -> Conn] /\ net \subseteq Packet
  BY InHand DEF TypeOK
<1>2. QED
  BY <1>1, OneConn DEF Reads, writerVars

LEMMA RecvDataDoes ==
  ASSUME TypeOK, HoldsOwn, NEW e \in End, RecvData(e)
  PROVE  \E c \in Conn : /\ Reads(e, {}, c) /\ SameButMoved(conn[rp[e]], c)
                         /\ UNCHANGED nilSend
<1>1. conn[rp[e]] \in Conn
  BY InHand DEF RecvData
<1>2. PICK m \in Moves(conn[rp[e]]) : Reads(e, {}, [conn[rp[e]] EXCEPT !.moved = m])
  BY DEF RecvData, Replies
<1>3. m \in BOOLEAN
  BY <1>1, MovesType
<1> DEFINE c == [conn[rp[e]] EXCEPT !.moved = m]
<1>4. c \in Conn /\ SameButMoved(conn[rp[e]], c)
  BY <1>1, <1>3 DEF Conn, SameButMoved
<1>5. Reads(e, {}, c)
  BY <1>2
<1> HIDE DEF c
<1>6. QED
  BY <1>4, <1>5 DEF RecvData

LEMMA RecvDialDoes ==
  ASSUME TypeOK, HoldsOwn, NEW e \in End, RecvDial(e)
  PROVE  LET c == conn[rp[e]] IN
         /\ c.dial /\ ~c.established
         /\ \/ /\ pkt[e].flags = "SYN|ACK"
               /\ \E d \in Conn : \E sends \in SUBSET Packet :
                    /\ Reads(e, sends, d)
                    /\ d.host = c.host /\ d.dial = c.dial /\ d.timer = c.timer
                    /\ d.established /\ d.ian # Nil
                    /\ \A q \in sends : /\ q.to = Peer(e) /\ q.flags \in {"ACK", "PSH|ACK"}
                                        /\ q.flags = "ACK" => q.ack = d.ian
               /\ nilSend' = IF c.cached THEN nilSend ELSE nilSend \cup {e}
            \/ Reads(e, {}, c) /\ UNCHANGED nilSend
<1> DEFINE c == conn[rp[e]]
           ian == IF c.ian = Nil THEN pkt[e].seq ELSE c.ian
           sends == {Pkt(Peer(e), "ACK", Nil, ian)}
                      \cup (IF c.cached THEN {Pkt(Peer(e), "PSH|ACK", Nil, Nil)} ELSE {})
<1>1. c \in Conn /\ pkt[e] \in Packet
  BY InHand DEF RecvDial
<1>2. c.dial /\ ~c.established
  BY DEF RecvDial
<1>3. CASE pkt[e].flags = "SYN|ACK"
  <2>1. ian \in ConnId /\ ian # Nil
    BY <1>1, <1>3, PacketFields, ConnFields DEF ConnId, Nil
  <2>2. PICK m \in Moves(c) :
          Reads(e, sends, [c EXCEPT !.ian = ian, !.established = TRUE, !.cached = FALSE,
                                    !.moved = m])
    BY <1>3 DEF RecvDial
  <2> DEFINE d == [c EXCEPT !.ian = ian, !.established = TRUE, !.cached = FALSE, !.moved = m]
  <2>3. m \in BOOLEAN
    BY <1>1, MovesType
  <2> HIDE DEF ian
  <2>4. /\ d \in Conn /\ d.host = c.host /\ d.dial = c.dial /\ d.timer = c.timer
        /\ d.established /\ d.ian = ian
    <3> HIDE DEF c
    <3>1. QED
      BY <1>1, <2>1, <2>3 DEF Conn
  <2>5. \A q \in sends : /\ q \in Packet /\ q.to = Peer(e) /\ q.flags \in {"ACK", "PSH|ACK"}
                         /\ q.flags = "ACK" => q.ack = ian
    BY <2>1, PeerOfPeer, PktFields
  <2>6. Reads(e, sends, d)
    BY <2>2
  <2>7. nilSend' = IF c.cached THEN nilSend ELSE nilSend \cup {e}
    BY <1>3 DEF RecvDial
  <2> HIDE DEF d, sends
  <2>8. QED
    BY <1>2, <1>3, <2>1, <2>4, <2>5, <2>6, <2>7
<1>4. CASE pkt[e].flags # "SYN|ACK"
  <2>1. Reads(e, {}, c) /\ UNCHANGED nilSend
    BY <1>4 DEF RecvDial
  <2>2. QED
    BY <1>2, <2>1
<1>5. QED
  BY <1>3, <1>4

LEMMA RecvAcceptDoes ==
  ASSUME TypeOK, HoldsOwn, NEW e \in End, RecvAccept(e)
  PROVE  LET c == conn[rp[e]] IN
         /\ ~c.dial /\ ~c.established
         /\ \/ /\ pkt[e].flags = "SYN"
               /\ \E d \in Conn : \E sends \in SUBSET Packet :
                    /\ Reads(e, sends, d)
                    /\ d.host = c.host /\ d.dial = c.dial /\ d.timer = c.timer
                    /\ ~d.established /\ d.ian # Nil
                    /\ \A q \in sends : q.to = Peer(e) /\ q.flags = "SYN|ACK"
            \/ /\ Acks(e)
               /\ \E d \in Conn :
                    /\ Reads(e, {}, d)
                    /\ d.host = c.host /\ d.dial = c.dial /\ d.timer = c.timer
                    /\ d.established /\ d.ian = c.ian
            \/ Reads(e, {}, c)
         /\ UNCHANGED nilSend
<1> DEFINE c == conn[rp[e]]
           ian == IF c.ian = Nil THEN pkt[e].seq ELSE c.ian
<1>1. c \in Conn /\ pkt[e] \in Packet /\ rp[e] \in ConnId
  BY InHand DEF RecvAccept
<1>2. ~c.dial /\ ~c.established /\ UNCHANGED nilSend
  BY DEF RecvAccept
<1>3. CASE pkt[e].flags = "SYN"
  <2> DEFINE sends == {Pkt(Peer(e), "SYN|ACK", rp[e], ian)}
  <2>1. ian \in ConnId /\ ian # Nil
    BY <1>1, <1>3, PacketFields, ConnFields DEF ConnId, Nil
  <2>2. PICK m \in Moves(c) : Reads(e, sends, [c EXCEPT !.ian = ian, !.moved = m])
    BY <1>3 DEF RecvAccept, Acks
  <2> DEFINE d == [c EXCEPT !.ian = ian, !.moved = m]
  <2>3. m \in BOOLEAN
    BY <1>1, MovesType
  <2> HIDE DEF ian
  <2>4. /\ d \in Conn /\ d.host = c.host /\ d.dial = c.dial /\ d.timer = c.timer
        /\ d.established = c.established /\ d.ian = ian
    <3> HIDE DEF c
    <3>1. QED
      BY <1>1, <2>1, <2>3 DEF Conn
  <2>5. \A q \in sends : q \in Packet /\ q.to = Peer(e) /\ q.flags = "SYN|ACK"
    BY <1>1, <2>1, PeerOfPeer, PktFields DEF ConnId, Nil
  <2>6. Reads(e, sends, d)
    BY <2>2
  <2> HIDE DEF d, sends
  <2>7. QED
    BY <1>2, <1>3, <2>1, <2>4, <2>5, <2>6
<1>4. CASE Acks(e)
  <2> DEFINE d == [c EXCEPT !.established = TRUE]
  <2>1. Reads(e, {}, d)
    BY <1>4 DEF RecvAccept, Acks
  <2>2. /\ d \in Conn /\ d.host = c.host /\ d.dial = c.dial /\ d.timer = c.timer
        /\ d.established /\ d.ian = c.ian
    <3> HIDE DEF c
    <3>1. QED
      BY <1>1 DEF Conn
  <2> HIDE DEF d
  <2>3. QED
    BY <1>2, <1>4, <2>1, <2>2
<1>5. CASE pkt[e].flags # "SYN" /\ ~Acks(e)
  <2>1. Reads(e, {}, c)
    BY <1>5 DEF RecvAccept
  <2>2. QED
    BY <1>2, <2>1
<1>6. QED
  BY <1>3, <1>4, <1>5

LEMMA TimerDoes ==
  ASSUME TypeOK, NEW p \in ConnId, Tick(p) \/ Delete(p)
  PROVE  /\ conn[p].timer # "none" /\ conn[p] \in Conn /\ conn[p].host \in End
         /\ \E d \in Conn :
              /\ d.host = conn[p].host /\ d.dial = conn[p].dial
              /\ d.established = conn[p].established /\ d.ian = conn[p].ian
              /\ d.cached = conn[p].cached
              /\ conn' = [conn EXCEPT ![p] = d]
              /\ \/ d.timer # "none" /\ UNCHANGED eps
                 \/ d.timer = "none" /\ eps' = [eps EXCEPT ![conn[p].host] = Nil]
         /\ UNCHANGED <<made, net, wpc, wp, rpc, rp, pkt, nilSend, raced>>
<1>1. conn[p] \in Conn /\ conn[p].host \in End
  BY ConnFields DEF TypeOK
<1>2. /\ conn[p].timer # "none"
      /\ UNCHANGED <<made, net, wpc, wp, rpc, rp, pkt, nilSend, raced>>
  BY DEF Tick, Delete, writerVars, readerVars, history
<1>3. CASE Tick(p)
  <2> DEFINE d == [conn[p] EXCEPT !.moved = FALSE,
                                  !.timer = IF conn[p].moved THEN "armed" ELSE "delete"]
  <2>1. conn' = [conn EXCEPT ![p] = d] /\ UNCHANGED eps
    BY <1>3 DEF Tick
  <2>2. /\ d \in Conn /\ d.host = conn[p].host /\ d.dial = conn[p].dial
        /\ d.established = conn[p].established /\ d.ian = conn[p].ian
        /\ d.cached = conn[p].cached /\ d.timer # "none"
    BY <1>1 DEF Conn
  <2> HIDE DEF d
  <2>3. QED
    BY <1>1, <1>2, <2>1, <2>2
<1>4. CASE Delete(p)
  <2> DEFINE d == [conn[p] EXCEPT !.timer = "none"]
  <2>1. conn' = [conn EXCEPT ![p] = d] /\ eps' = [eps EXCEPT ![conn[p].host] = Nil]
    BY <1>4 DEF Delete
  <2>2. /\ d \in Conn /\ d.host = conn[p].host /\ d.dial = conn[p].dial
        /\ d.established = conn[p].established /\ d.ian = conn[p].ian
        /\ d.cached = conn[p].cached /\ d.timer = "none"
    BY <1>1 DEF Conn
  <2> HIDE DEF d
  <2>3. QED
    BY <1>1, <1>2, <2>1, <2>2
<1>5. QED
  BY <1>3, <1>4

-----------------------------------------------------------------------------
(* Types *)

LEMMA TypeInit == Init => TypeOK
<1>1. NoPkt \in Packet /\ NoConn \in Conn
  BY NoPktFields, NoConnFields
<1>2. QED
  BY <1>1, ConnAssumption DEF Init, TypeOK, Nil

LEMMA TypeStep ==
  ASSUME TypeOK, HoldsOwn, [Next]_vars
  PROVE  TypeOK'
<1> USE DEF TypeOK, writerVars, readerVars, history
<1>1. ASSUME NEW w \in Writer, WriteGet(w) PROVE TypeOK'
  BY <1>1, AtEnd DEF WriteGet
<1>2. ASSUME NEW w \in Writer, WriteSet(w) PROVE TypeOK'
  BY <1>2, AtEnd, Made DEF WriteSet
<1>3. ASSUME NEW w \in Writer, WriteCheck(w) PROVE TypeOK'
  <2>1. conn' \in [ConnId -> Conn] /\ net' \subseteq Packet
    BY <1>3, WriteCheckDoes
  <2>2. QED
    BY <1>3, <2>1 DEF WriteCheck, Nil
<1>4. ASSUME NEW w \in Writer, WriteLocked(w) PROVE TypeOK'
  <2>1. conn' \in [ConnId -> Conn] /\ net' \subseteq Packet
    BY <1>4, WriteLockedDoes
  <2>2. QED
    BY <1>4, <2>1 DEF WriteLocked, Nil
<1>5. ASSUME NEW e \in End, ReadGet(e) PROVE TypeOK'
  BY <1>5 DEF ReadGet
<1>6. ASSUME NEW e \in End, ReadSet(e) PROVE TypeOK'
  BY <1>6, Made DEF ReadSet
<1>7. ASSUME NEW e \in End, NEW sends \in SUBSET Packet, NEW c \in Conn,
             rpc[e] = "recv", Reads(e, sends, c), nilSend' \subseteq End
      PROVE  TypeOK'
  BY <1>7, ReadsDoes, NoPktFields
<1>8. ASSUME NEW e \in End, RecvData(e) PROVE TypeOK'
  BY <1>7, <1>8, RecvDataDoes DEF RecvData
<1>9. ASSUME NEW e \in End, RecvDial(e) PROVE TypeOK'
  <2>1. nilSend' \subseteq End /\ rpc[e] = "recv"
    BY <1>9, RecvDialDoes DEF RecvDial
  <2>2. conn[rp[e]] \in Conn
    BY <2>1, InHand
  <2>3. QED
    BY <1>7, <1>9, <2>1, <2>2, RecvDialDoes
<1>10. ASSUME NEW e \in End, RecvAccept(e) PROVE TypeOK'
  <2>1. nilSend' \subseteq End /\ rpc[e] = "recv"
    BY <1>10 DEF RecvAccept
  <2>2. conn[rp[e]] \in Conn
    BY <2>1, InHand
  <2>3. QED
    BY <1>7, <1>10, <2>1, <2>2, RecvAcceptDoes
<1>11. ASSUME NEW p \in ConnId, Tick(p) \/ Delete(p) PROVE TypeOK'
  BY <1>11, TimerDoes DEF Nil
<1>12. CASE (\E q \in net : Lose(q)) \/ UNCHANGED vars
  BY <1>12 DEF Lose, vars
<1>13. QED
  BY <1>1, <1>2, <1>3, <1>4, <1>5, <1>6, <1>8, <1>9, <1>10, <1>11, <1>12
     DEF Next, TypeOK

-----------------------------------------------------------------------------
(* Who holds what *)

\* Nothing is made, and who lets go holds nothing.
LEMMA HoldsKept ==
  ASSUME TypeOK, HoldsOwn, UNCHANGED made, \A e \in End : eps'[e] \in {eps[e], Nil},
         NEW p \in ConnId, p <= made, conn'[p].host = conn[p].host,
         \A q \in ConnId \ {p} : conn'[q] = conn[q],
         \A w \in Writer : \/ /\ wp'[w] = wp[w]
                              /\ wpc'[w] \in {"check", "lock"} => wpc[w] \in {"check", "lock"}
                           \/ wp'[w] = Nil /\ wpc'[w] = "idle",
         \A e \in End : \/ rp'[e] = rp[e] /\ rpc'[e] = rpc[e] /\ pkt'[e] = pkt[e]
                        \/ rp'[e] = Nil /\ rpc'[e] = "read"
  PROVE  HoldsOwn'
<1>1. /\ eps \in [End -> ConnId \cup {Nil}] /\ made \in 0..MaxConn
      /\ wp \in [Writer -> ConnId \cup {Nil}] /\ rp \in [End -> ConnId \cup {Nil}]
  BY DEF TypeOK
<1>2. \A q \in ConnId : /\ conn'[q].host = conn[q].host
                        /\ q > made => conn'[q] = conn[q]
  BY <1>1, ConnAssumption DEF ConnId
<1>3. /\ \A k \in ConnId : k > made' => conn'[k] = NoConn
      /\ \A e \in End : eps'[e] # Nil => eps'[e] <= made' /\ conn'[eps'[e]].host = e
  BY <1>1, <1>2 DEF HoldsOwn
<1>4. \A w \in Writer :
        /\ wpc'[w] \in {"check", "lock"} => wp'[w] # Nil
        /\ wp'[w] # Nil => wp'[w] <= made' /\ conn'[wp'[w]].host = At(w)
  BY <1>1, <1>2 DEF HoldsOwn
<1>5. \A e \in End :
        /\ rpc'[e] = "recv" => rp'[e] # Nil
        /\ rp'[e] # Nil => rp'[e] <= made' /\ conn'[rp'[e]].host = e
        /\ rpc'[e] # "read" => pkt'[e].to = e
  BY <1>1, <1>2 DEF HoldsOwn
<1>6. QED
  BY <1>3, <1>4, <1>5 DEF HoldsOwn

\* One is made for an end, by somebody at that end.
LEMMA HoldsMade ==
  ASSUME TypeOK, HoldsOwn, NEW e \in End, NEW dials \in BOOLEAN, Make(e, dials),
         \A w \in Writer : \/ wp'[w] = wp[w] /\ wpc'[w] = wpc[w]
                           \/ wp'[w] = made + 1 /\ At(w) = e,
         \A f \in End : \/ rp'[f] = rp[f] /\ rpc'[f] = rpc[f] /\ pkt'[f] = pkt[f]
                        \/ rp'[f] = made + 1 /\ f = e /\ pkt'[f].to = f
  PROVE  HoldsOwn'
<1>1. /\ eps \in [End -> ConnId \cup {Nil}] /\ made \in 0..MaxConn
      /\ wp \in [Writer -> ConnId \cup {Nil}] /\ rp \in [End -> ConnId \cup {Nil}]
  BY DEF TypeOK
<1>2. /\ made + 1 \in ConnId /\ made' = made + 1 /\ conn'[made + 1].host = e
      /\ \A q \in ConnId \ {made + 1} : conn'[q] = conn[q]
      /\ eps' = [eps EXCEPT ![e] = made + 1]
  BY Made, FreshFields
<1>3. \A q \in ConnId : q <= made => conn'[q] = conn[q] /\ q <= made'
  BY <1>1, <1>2, ConnAssumption DEF ConnId
<1>4. /\ \A k \in ConnId : k > made' => conn'[k] = NoConn
      /\ \A f \in End : eps'[f] # Nil => eps'[f] <= made' /\ conn'[eps'[f]].host = f
  BY <1>1, <1>2, <1>3, ConnAssumption DEF HoldsOwn, ConnId
<1>5. made + 1 # Nil /\ made + 1 <= made'
  BY <1>1, <1>2, ConnAssumption DEF Nil
<1>6. \A w \in Writer :
        /\ wpc'[w] \in {"check", "lock"} => wp'[w] # Nil
        /\ wp'[w] # Nil => wp'[w] <= made' /\ conn'[wp'[w]].host = At(w)
  BY <1>1, <1>2, <1>3, <1>5 DEF HoldsOwn
<1>7. \A f \in End :
        /\ rpc'[f] = "recv" => rp'[f] # Nil
        /\ rp'[f] # Nil => rp'[f] <= made' /\ conn'[rp'[f]].host = f
        /\ rpc'[f] # "read" => pkt'[f].to = f
  BY <1>1, <1>2, <1>3, <1>5 DEF HoldsOwn
<1>8. QED
  BY <1>4, <1>6, <1>7 DEF HoldsOwn

LEMMA HoldsStep ==
  ASSUME TypeOK, HoldsOwn, [Next]_vars
  PROVE  HoldsOwn'
<1> USE AtEnd DEF writerVars, readerVars, history
<1>0. /\ eps \in [End -> ConnId \cup {Nil}]
      /\ wpc \in [Writer -> {"idle", "set", "check", "lock"}]
      /\ wp \in [Writer -> ConnId \cup {Nil}]
      /\ rpc \in [End -> {"read", "set", "recv"}]
      /\ rp \in [End -> ConnId \cup {Nil}] /\ pkt \in [End -> Packet]
  BY DEF TypeOK
<1> USE <1>0
<1>1. ASSUME NEW w \in Writer, WriteGet(w) PROVE HoldsOwn'
  BY <1>1 DEF WriteGet, HoldsOwn
<1>2. ASSUME NEW w \in Writer, WriteSet(w) PROVE HoldsOwn'
  <2>1. Make(At(w), TRUE) /\ made' = made + 1
    BY <1>2, Made DEF WriteSet
  <2>2. /\ wp' = [wp EXCEPT ![w] = made + 1] /\ wpc' = [wpc EXCEPT ![w] = "check"]
        /\ UNCHANGED <<rpc, rp, pkt>>
    BY <1>2, <2>1 DEF WriteSet
  <2>3. QED
    BY <2>1, <2>2, HoldsMade
<1>3. ASSUME NEW w \in Writer, WriteCheck(w) PROVE HoldsOwn'
  <2>1. /\ \A q \in ConnId : conn'[q].host = conn[q].host
        /\ \A q \in ConnId \ {wp[w]} : conn'[q] = conn[q]
    BY <1>3, WriteCheckDoes DEF SameButMoved
  <2>2. wp[w] \in ConnId /\ wp[w] <= made
    BY <1>3, InHand DEF WriteCheck
  <2>3. /\ \/ UNCHANGED wp /\ wpc' = [wpc EXCEPT ![w] = "lock"]
           \/ wp' = [wp EXCEPT ![w] = Nil] /\ wpc' = [wpc EXCEPT ![w] = "idle"]
        /\ wpc[w] = "check" /\ UNCHANGED <<eps, made, rpc, rp, pkt>>
    BY <1>3 DEF WriteCheck
  <2>4. QED
    BY <2>1, <2>2, <2>3, HoldsKept
<1>4. ASSUME NEW w \in Writer, WriteLocked(w) PROVE HoldsOwn'
  <2>1. /\ wp[w] \in ConnId /\ wp[w] <= made
        /\ conn'[wp[w]].host = conn[wp[w]].host
        /\ \A q \in ConnId \ {wp[w]} : conn'[q] = conn[q]
    BY <1>4, WriteLockedDoes
  <2>2. /\ wp' = [wp EXCEPT ![w] = Nil] /\ wpc' = [wpc EXCEPT ![w] = "idle"]
        /\ UNCHANGED <<eps, made, rpc, rp, pkt>>
    BY <1>4 DEF WriteLocked
  <2>3. QED
    BY <2>1, <2>2, HoldsKept
<1>5. ASSUME NEW e \in End, ReadGet(e) PROVE HoldsOwn'
  BY <1>5 DEF ReadGet, HoldsOwn
<1>6. ASSUME NEW e \in End, ReadSet(e) PROVE HoldsOwn'
  <2>1. Make(e, FALSE) /\ made' = made + 1
    BY <1>6, Made DEF ReadSet
  <2>2. /\ rp' = [rp EXCEPT ![e] = made + 1] /\ rpc' = [rpc EXCEPT ![e] = "recv"]
        /\ rpc[e] = "set" /\ UNCHANGED <<wpc, wp, pkt>>
    BY <1>6, <2>1 DEF ReadSet
  <2>3. pkt[e].to = e
    BY <2>2 DEF HoldsOwn
  <2>4. QED
    BY <2>1, <2>2, <2>3, HoldsMade
<1>7. ASSUME NEW e \in End, NEW sends \in SUBSET Packet, NEW c \in Conn,
             rpc[e] = "recv", Reads(e, sends, c), c.host = conn[rp[e]].host
      PROVE  HoldsOwn'
  <2>1. rp[e] \in ConnId /\ rp[e] <= made
    BY <1>7, InHand
  <2>2. /\ conn'[rp[e]] = c
        /\ \A q \in ConnId \ {rp[e]} : conn'[q] = conn[q]
        /\ rpc' = [rpc EXCEPT ![e] = "read"] /\ rp' = [rp EXCEPT ![e] = Nil]
        /\ pkt' = [pkt EXCEPT ![e] = NoPkt]
        /\ UNCHANGED <<eps, made, wpc, wp>>
    BY <1>7, ReadsDoes
  <2>3. QED
    BY <1>7, <2>1, <2>2, HoldsKept
<1>8. ASSUME NEW e \in End, RecvData(e) PROVE HoldsOwn'
  <2>1. rpc[e] = "recv"
    BY <1>8 DEF RecvData
  <2>2. PICK c \in Conn : Reads(e, {}, c) /\ SameButMoved(conn[rp[e]], c)
    BY <1>8, RecvDataDoes
  <2>3. QED
    BY <1>7, <2>1, <2>2 DEF SameButMoved
<1>9. ASSUME NEW e \in End, RecvDial(e) PROVE HoldsOwn'
  <2>1. rpc[e] = "recv"
    BY <1>9 DEF RecvDial
  <2>2. conn[rp[e]] \in Conn
    BY <2>1, InHand
  <2>3. QED
    BY <1>7, <1>9, <2>1, <2>2, RecvDialDoes
<1>10. ASSUME NEW e \in End, RecvAccept(e) PROVE HoldsOwn'
  <2>1. rpc[e] = "recv"
    BY <1>10 DEF RecvAccept
  <2>2. conn[rp[e]] \in Conn
    BY <2>1, InHand
  <2>3. QED
    BY <1>7, <1>10, <2>1, <2>2, RecvAcceptDoes
<1>11. ASSUME NEW p \in ConnId, Tick(p) \/ Delete(p) PROVE HoldsOwn'
  <2>1. conn[p].timer # "none"
    BY <1>11, TimerDoes
  <2>2. ~(p > made)
    BY <2>1, NoConnFields DEF HoldsOwn
  <2>3. p <= made
    BY <2>2, ConnAssumption DEF TypeOK, ConnId
  <2>4. PICK d \in Conn : /\ d.host = conn[p].host /\ conn' = [conn EXCEPT ![p] = d]
                          /\ UNCHANGED eps \/ eps' = [eps EXCEPT ![conn[p].host] = Nil]
    BY <1>11, TimerDoes
  <2>5. UNCHANGED <<made, wpc, wp, rpc, rp, pkt>>
    BY <1>11, TimerDoes
  <2>6. \A q \in ConnId \ {p} : conn'[q] = conn[q]
    BY <2>4 DEF TypeOK
  <2>7. conn'[p].host = conn[p].host
    BY <2>4 DEF TypeOK
  <2>8. QED
    BY <2>3, <2>4, <2>5, <2>6, <2>7, HoldsKept
<1>12. CASE (\E q \in net : Lose(q)) \/ UNCHANGED vars
  BY <1>12 DEF Lose, vars, HoldsOwn
<1>13. QED
  BY <1>1, <1>2, <1>3, <1>4, <1>5, <1>6, <1>8, <1>9, <1>10, <1>11, <1>12
     DEF Next

-----------------------------------------------------------------------------
(* Why a packet was sent *)

Grown(c, d) ==
  c.dial => /\ d.dial /\ d.host = c.host
            /\ c.established => d.established /\ d.ian = c.ian
            /\ c.cached \/ c.established => d.cached \/ d.established

SameSide(c, d) ==
  d.host = c.host /\ d.dial = c.dial /\ d.established = c.established /\ d.ian = c.ian

\* What has been established stays so, whatever dialing ends go on to do.
LEMMA Grows ==
  ASSUME \A p \in ConnId : Grown(conn[p], conn'[p])
  PROVE  /\ \A e, p : Established(e, p) => Established(e, p)'
         /\ \A e : Introduced(e) => Introduced(e)'
BY DEF Grown, Established, Introduced

LEMMA JustifiedKept ==
  ASSUME Justified, \A p \in ConnId : Grown(conn[p], conn'[p]),
         \A q \in Seen' : q \in Seen \/ PacketJustified(q)',
         \A p \in ConnId : SameSide(conn[p], conn'[p]) \/ ConnJustified(p)'
  PROVE  Justified'
<1>1. ASSUME NEW q \in Seen, PacketJustified(q) PROVE PacketJustified(q)'
  BY <1>1, Grows DEF PacketJustified
<1>2. ASSUME NEW p \in ConnId, ConnJustified(p), SameSide(conn[p], conn'[p])
      PROVE  ConnJustified(p)'
  BY <1>2, Grows DEF ConnJustified, SameSide
<1>3. QED
  BY <1>1, <1>2 DEF Justified

LEMMA SeenByRead ==
  ASSUME TypeOK, HoldsOwn, NEW e \in End, rpc[e] = "recv",
         NEW sends \in SUBSET Packet, NEW c \in Conn, Reads(e, sends, c)
  PROVE  \A q \in Seen' : q \in Seen \/ q \in sends \/ q = NoPkt
<1>1. net' = net \cup sends /\ pkt' = [pkt EXCEPT ![e] = NoPkt]
  BY ReadsDoes
<1>2. QED
  BY <1>1 DEF Seen, TypeOK

LEMMA JustifiedMade ==
  ASSUME TypeOK, HoldsOwn, Justified, NEW e \in End, NEW dials \in BOOLEAN, Make(e, dials),
         UNCHANGED <<net, pkt>>
  PROVE  Justified'
<1>1. /\ made + 1 \in ConnId /\ conn'[made + 1] = Fresh(e, dials)
      /\ \A q \in ConnId \ {made + 1} : conn'[q] = conn[q]
  BY Made
<1>2. made + 1 > made
  BY ConnAssumption DEF TypeOK
<1>3. conn[made + 1] = NoConn
  BY <1>1, <1>2 DEF HoldsOwn
<1>4. \A p \in ConnId : Grown(conn[p], conn'[p])
  BY <1>1, <1>3, NoConnFields DEF Grown
<1>5. ASSUME NEW p \in ConnId, p = made + 1 PROVE ConnJustified(p)'
  <2>1. ~conn'[p].established /\ conn'[p].ian = Nil
    BY <1>1, <1>5, FreshFields
  <2>2. QED
    BY <2>1 DEF ConnJustified
<1>6. QED
  BY <1>1, <1>4, <1>5, JustifiedKept DEF SameSide, Seen

LEMMA JustifiedStep ==
  ASSUME TypeOK, HoldsOwn, Justified, [Next]_vars
  PROVE  Justified'
<1> USE DEF writerVars, readerVars, history
<1>1. ASSUME UNCHANGED conn, Seen' \subseteq Seen PROVE Justified'
  BY <1>1, JustifiedKept DEF Grown, SameSide
<1>2. ASSUME NEW w \in Writer, WriteGet(w) PROVE Justified'
  BY <1>1, <1>2 DEF WriteGet, Seen
<1>3. ASSUME NEW w \in Writer, WriteSet(w) PROVE Justified'
  BY <1>3, AtEnd, JustifiedMade DEF WriteSet
<1>4. ASSUME NEW w \in Writer, WriteCheck(w) PROVE Justified'
  <2>1. \A q \in ConnId : SameButMoved(conn[q], conn'[q])
    BY <1>4, WriteCheckDoes
  <2>2. \A q \in net' \ net : q.flags = "PSH|ACK"
    BY <1>4, WriteCheckDoes
  <2>3. UNCHANGED pkt
    BY <1>4 DEF WriteCheck
  <2>4. \A q \in Seen' : q \in Seen \/ PacketJustified(q)'
    BY <2>2, <2>3 DEF Seen, PacketJustified
  <2>5. \A q \in ConnId : Grown(conn[q], conn'[q]) /\ SameSide(conn[q], conn'[q])
    BY <2>1 DEF SameButMoved, Grown, SameSide
  <2>6. QED
    BY <2>4, <2>5, JustifiedKept
<1>5. ASSUME NEW w \in Writer, WriteLocked(w) PROVE Justified'
  <2> DEFINE p == wp[w]
             c == conn[p]
  <2>1. /\ p \in ConnId /\ c \in Conn /\ c.host \in End
        /\ SameSide(c, conn'[p])
        /\ conn'[p].cached <=> c.cached \/ (c.dial /\ ~c.established)
        /\ \A q \in ConnId \ {p} : conn'[q] = conn[q]
    BY <1>5, WriteLockedDoes, ConnFields DEF SameSide
  <2>2. \A q \in net' \ net :
          /\ q.to = Peer(c.host)
          /\ q.flags = "SYN" => c.dial /\ c.ian = Nil
          /\ q.flags = "ACK" => c.dial /\ c.ian # Nil /\ q.ack = c.ian
          /\ q.flags = "SYN|ACK" => ~c.dial /\ c.ian # Nil
    BY <1>5, WriteLockedDoes
  <2>3. ConnJustified(p)
    BY <2>1 DEF Justified
  <2>4. \A q \in ConnId : Grown(conn[q], conn'[q]) /\ SameSide(conn[q], conn'[q])
    BY <2>1 DEF Grown, SameSide
  <2>5. ASSUME NEW q \in net' \ net PROVE PacketJustified(q)'
    <3>1. q.to = Peer(c.host) /\ Peer(q.to) = c.host
      BY <2>1, <2>2, PeerOfPeer
    <3>2. q.flags = "SYN" => Introduced(Peer(q.to))'
      <4>1. ASSUME q.flags = "SYN"
            PROVE  conn'[p].dial /\ conn'[p].cached /\ conn'[p].host = c.host
        BY <4>1, <2>1, <2>2, <2>3 DEF ConnJustified, SameSide
      <4>2. QED
        BY <2>1, <3>1, <4>1 DEF Introduced
    <3>3. q.flags = "ACK" => Established(Peer(q.to), q.ack)'
      <4>1. ASSUME q.flags = "ACK"
            PROVE  /\ conn'[p].dial /\ conn'[p].established
                   /\ conn'[p].host = c.host /\ conn'[p].ian = q.ack
        BY <4>1, <2>1, <2>2, <2>3 DEF ConnJustified, SameSide
      <4>2. QED
        BY <2>1, <3>1, <4>1 DEF Established
    <3>4. q.flags = "SYN|ACK" => Introduced(q.to)'
      <4>1. q.flags = "SYN|ACK" => Introduced(q.to)
        BY <2>2, <2>3, <3>1 DEF ConnJustified
      <4>2. QED
        BY <2>4, <4>1, Grows
    <3>5. QED
      BY <3>2, <3>3, <3>4 DEF PacketJustified
  <2>6. UNCHANGED pkt
    BY <1>5 DEF WriteLocked
  <2>7. \A q \in Seen' : q \in Seen \/ PacketJustified(q)'
    BY <2>5, <2>6 DEF Seen
  <2>8. QED
    BY <2>4, <2>7, JustifiedKept
<1>6. ASSUME NEW e \in End, ReadGet(e) PROVE Justified'
  <2>1. Seen' \subseteq Seen
    BY <1>6 DEF ReadGet, Seen, TypeOK
  <2>2. QED
    BY <1>1, <1>6, <2>1 DEF ReadGet
<1>7. ASSUME NEW e \in End, ReadSet(e) PROVE Justified'
  BY <1>7, JustifiedMade DEF ReadSet
<1>8. ASSUME NEW e \in End, NEW sends \in SUBSET Packet, NEW d \in Conn,
             NEW p \in ConnId, p = rp[e],
             rpc[e] = "recv", Reads(e, sends, d), Grown(conn[p], d),
             \A q \in sends : PacketJustified(q)',
             SameSide(conn[p], d) \/ ConnJustified(p)'
      PROVE  Justified'
  <2>1. /\ conn'[p] = d
        /\ \A q \in ConnId \ {p} : conn'[q] = conn[q]
    BY <1>8, ReadsDoes
  <2>2. \A q \in ConnId : Grown(conn[q], conn'[q])
    BY <1>8, <2>1 DEF Grown
  <2>3. \A q \in Seen' : q \in Seen \/ q \in sends \/ q = NoPkt
    BY <1>8, SeenByRead
  <2>4. ASSUME NEW q, q = NoPkt PROVE PacketJustified(q)'
    BY <2>4, NoPktFields DEF PacketJustified
  <2>5. \A q \in ConnId : SameSide(conn[q], conn'[q]) \/ ConnJustified(q)'
    BY <1>8, <2>1 DEF SameSide
  <2>6. \A q \in Seen' : q \in Seen \/ PacketJustified(q)'
    BY <1>8, <2>3, <2>4
  <2>7. QED
    BY <2>2, <2>5, <2>6, JustifiedKept
<1>9. ASSUME NEW e \in End, RecvData(e) PROVE Justified'
  <2>1. rpc[e] = "recv" /\ rp[e] \in ConnId
    BY <1>9, InHand DEF RecvData
  <2>2. PICK d \in Conn : Reads(e, {}, d) /\ SameButMoved(conn[rp[e]], d)
    BY <1>9, RecvDataDoes
  <2>3. Grown(conn[rp[e]], d) /\ SameSide(conn[rp[e]], d)
    BY <2>2 DEF SameButMoved, Grown, SameSide
  <2>4. QED
    BY <1>8, <2>1, <2>2, <2>3
<1>10. ASSUME NEW e \in End, RecvDial(e) PROVE Justified'
  <2>1. /\ rpc[e] = "recv" /\ rp[e] \in ConnId
        /\ conn[rp[e]] \in Conn /\ conn[rp[e]].host = e
    BY <1>10, InHand DEF RecvDial
  <2>2. PICK p \in ConnId : p = rp[e]
    BY <2>1
  <2>3. conn[p].dial /\ ~conn[p].established /\ conn[p].host = e
    BY <1>10, <2>1, <2>2, RecvDialDoes
  <2>4. CASE Reads(e, {}, conn[p])
    BY <1>8, <2>1, <2>2, <2>4 DEF Grown, SameSide
  <2>5. ASSUME NEW d \in Conn, NEW sends \in SUBSET Packet, Reads(e, sends, d),
               d.host = e, d.dial, d.established, d.ian # Nil,
               \A q \in sends : /\ q.to = Peer(e) /\ q.flags \in {"ACK", "PSH|ACK"}
                                /\ q.flags = "ACK" => q.ack = d.ian
        PROVE  Justified'
    <3>1. conn'[p] = d
      <4>1. sends \subseteq Packet /\ d \in Conn /\ Reads(e, sends, d)
        BY <2>5
      <4>2. conn'[rp[e]] = d
        BY <2>1, <4>1, ReadsDoes
      <4>3. QED
        BY <2>2, <4>2
    <3>2. ConnJustified(p)'
      BY <2>5, <3>1 DEF ConnJustified
    <3>3. Grown(conn[p], d)
      BY <2>3, <2>5 DEF Grown
    <3>4. ASSUME NEW q \in sends PROVE PacketJustified(q)'
      <4>1. Peer(q.to) = e /\ q.flags \in {"ACK", "PSH|ACK"}
        BY <2>5, PeerOfPeer
      <4>2. q.flags = "ACK" => Established(Peer(q.to), q.ack)'
        BY <2>5, <3>1, <4>1 DEF Established
      <4>3. QED
        BY <4>1, <4>2 DEF PacketJustified
    <3>5. QED
      BY <1>8, <2>1, <2>2, <2>5, <3>2, <3>3, <3>4
  <2>6. QED
    BY <1>10, <2>1, <2>2, <2>3, <2>4, <2>5, RecvDialDoes
<1>11. ASSUME NEW e \in End, RecvAccept(e) PROVE Justified'
  <2>1. /\ rpc[e] = "recv" /\ rp[e] \in ConnId
        /\ conn[rp[e]] \in Conn /\ conn[rp[e]].host = e
        /\ pkt[e].to = e
    BY <1>11, InHand DEF RecvAccept
  <2>2. PICK p \in ConnId : p = rp[e]
    BY <2>1
  <2>3. ~conn[p].dial /\ ~conn[p].established /\ conn[p].host = e
    BY <1>11, <2>1, <2>2, RecvAcceptDoes
  <2>4. PacketJustified(pkt[e]) /\ ConnJustified(p)
    BY DEF Justified, Seen
  <2>5. CASE Reads(e, {}, conn[p])
    BY <1>8, <2>1, <2>2, <2>5 DEF Grown, SameSide
  <2>6. ASSUME pkt[e].flags = "SYN",
               NEW d \in Conn, NEW sends \in SUBSET Packet, Reads(e, sends, d),
               d.host = e, ~d.dial, ~d.established, d.ian # Nil,
               \A q \in sends : q.to = Peer(e) /\ q.flags = "SYN|ACK"
        PROVE  Justified'
    <3>1. conn'[p] = d /\ \A q \in ConnId \ {p} : conn'[q] = conn[q]
      BY <2>1, <2>2, <2>6, ReadsDoes
    <3>2. Grown(conn[p], d) /\ \A q \in ConnId : Grown(conn[q], conn'[q])
      BY <2>3, <3>1 DEF Grown
    <3>3. Introduced(Peer(e))'
      <4>1. Introduced(Peer(e))
        BY <2>1, <2>4, <2>6 DEF PacketJustified
      <4>2. QED
        BY <3>2, <4>1, Grows
    <3>4. ConnJustified(p)'
      BY <2>6, <3>1, <3>3 DEF ConnJustified
    <3>5. ASSUME NEW q \in sends PROVE PacketJustified(q)'
      BY <2>6, <3>3 DEF PacketJustified
    <3>6. QED
      BY <1>8, <2>1, <2>2, <2>6, <3>2, <3>4, <3>5
  <2>7. ASSUME Acks(e), NEW d \in Conn, Reads(e, {}, d),
               d.host = e, ~d.dial, d.established, d.ian = conn[p].ian
        PROVE  Justified'
    <3>1. conn'[p] = d /\ \A q \in ConnId \ {p} : conn'[q] = conn[q]
      BY <2>1, <2>2, <2>7, ReadsDoes
    <3>2. Grown(conn[p], d) /\ \A q \in ConnId : Grown(conn[q], conn'[q])
      BY <2>3, <3>1 DEF Grown
    <3>3. Established(Peer(e), p)'
      <4>1. Established(Peer(e), p)
        BY <2>1, <2>2, <2>4, <2>7 DEF PacketJustified, Acks
      <4>2. QED
        BY <3>2, <4>1, Grows
    <3>4. d.ian # Nil => Introduced(Peer(e))'
      <4>1. d.ian # Nil => Introduced(Peer(e))
        BY <2>3, <2>4, <2>7 DEF ConnJustified
      <4>2. QED
        BY <3>2, <4>1, Grows
    <3>5. ConnJustified(p)'
      BY <2>7, <3>1, <3>3, <3>4 DEF ConnJustified
    <3>6. QED
      BY <1>8, <2>1, <2>2, <2>7, <3>2, <3>5
  <2>8. QED
    BY <1>11, <2>1, <2>2, <2>3, <2>5, <2>6, <2>7, RecvAcceptDoes
<1>12. ASSUME NEW p \in ConnId, Tick(p) \/ Delete(p) PROVE Justified'
  <2>1. PICK d \in Conn :
          /\ SameSide(conn[p], d) /\ d.cached = conn[p].cached
          /\ conn' = [conn EXCEPT ![p] = d] /\ UNCHANGED <<net, pkt>>
    BY <1>12, TimerDoes DEF SameSide
  <2>2. \A q \in ConnId : Grown(conn[q], conn'[q]) /\ SameSide(conn[q], conn'[q])
    BY <2>1 DEF TypeOK, Grown, SameSide
  <2>3. QED
    BY <2>1, <2>2, JustifiedKept DEF Seen
<1>13. CASE (\E q \in net : Lose(q)) \/ UNCHANGED vars
  <2>1. Seen' \subseteq Seen /\ UNCHANGED conn
    BY <1>13 DEF Lose, vars, Seen
  <2>2. QED
    BY <1>1, <2>1
<1>14. QED
  BY <1>2, <1>3, <1>4, <1>5, <1>6, <1>7, <1>9, <1>10, <1>11, <1>12, <1>13 DEF Next

-----------------------------------------------------------------------------
(* Timers *)

LEMMA TimerMade ==
  ASSUME TypeOK, HoldsOwn, TimerIsEntry, NEW e \in End, NEW dials \in BOOLEAN, Make(e, dials)
  PROVE  TimerIsEntry'
<1>1. /\ made + 1 \in ConnId /\ conn'[made + 1].host = e
      /\ \A q \in ConnId \ {made + 1} : conn'[q] = conn[q]
      /\ eps' = [eps EXCEPT ![e] = made + 1]
      /\ raced' = IF eps[e] = Nil THEN raced ELSE raced \cup {e}
  BY Made, FreshFields
<1>2. \A p \in ConnId : p # Nil
  BY ConnAssumption DEF ConnId, Nil
<1>3. eps \in [End -> ConnId \cup {Nil}] /\ \A p \in ConnId : conn[p].host \in End
  BY ConnFields DEF TypeOK
<1>4. QED
  BY <1>1, <1>2, <1>3 DEF TimerIsEntry

LEMMA TimerStep ==
  ASSUME TypeOK, HoldsOwn, TimerIsEntry, [Next]_vars
  PROVE  TimerIsEntry'
<1> USE DEF writerVars, readerVars, history
<1>1. ASSUME UNCHANGED <<eps, raced>>,
             \A q \in ConnId : conn'[q].host = conn[q].host /\ conn'[q].timer = conn[q].timer
      PROVE  TimerIsEntry'
  BY <1>1 DEF TimerIsEntry
<1>2. ASSUME NEW w \in Writer, WriteGet(w) PROVE TimerIsEntry'
  BY <1>1, <1>2 DEF WriteGet
<1>3. ASSUME NEW w \in Writer, WriteSet(w) PROVE TimerIsEntry'
  BY <1>3, AtEnd, TimerMade DEF WriteSet
<1>4. ASSUME NEW w \in Writer, WriteCheck(w) PROVE TimerIsEntry'
  <2>1. \A q \in ConnId : SameButMoved(conn[q], conn'[q])
    BY <1>4, WriteCheckDoes
  <2>2. QED
    BY <1>1, <1>4, <2>1 DEF SameButMoved, WriteCheck
<1>5. ASSUME NEW w \in Writer, WriteLocked(w) PROVE TimerIsEntry'
  <2>1. /\ conn'[wp[w]].host = conn[wp[w]].host /\ conn'[wp[w]].timer = conn[wp[w]].timer
        /\ \A q \in ConnId \ {wp[w]} : conn'[q] = conn[q]
    BY <1>5, WriteLockedDoes
  <2>2. QED
    BY <1>1, <1>5, <2>1 DEF WriteLocked
<1>6. ASSUME NEW e \in End, ReadGet(e) PROVE TimerIsEntry'
  BY <1>1, <1>6 DEF ReadGet
<1>7. ASSUME NEW e \in End, ReadSet(e) PROVE TimerIsEntry'
  BY <1>7, TimerMade DEF ReadSet
<1>8. ASSUME NEW e \in End, NEW sends \in SUBSET Packet, NEW c \in Conn,
             rpc[e] = "recv", Reads(e, sends, c),
             c.host = conn[rp[e]].host, c.timer = conn[rp[e]].timer
      PROVE  TimerIsEntry'
  <2>1. /\ conn'[rp[e]] = c /\ \A q \in ConnId \ {rp[e]} : conn'[q] = conn[q]
        /\ UNCHANGED <<eps, raced>>
    BY <1>8, ReadsDoes
  <2>2. QED
    BY <1>1, <1>8, <2>1
<1>9. ASSUME NEW e \in End, RecvData(e) PROVE TimerIsEntry'
  <2>1. PICK c \in Conn : Reads(e, {}, c) /\ SameButMoved(conn[rp[e]], c)
    BY <1>9, RecvDataDoes
  <2>2. QED
    BY <1>8, <1>9, <2>1 DEF SameButMoved, RecvData
<1>10. ASSUME NEW e \in End, RecvDial(e) PROVE TimerIsEntry'
  <2>1. rpc[e] = "recv"
    BY <1>10 DEF RecvDial
  <2>2. conn[rp[e]] \in Conn
    BY <2>1, InHand
  <2>3. QED
    BY <1>8, <1>10, <2>1, <2>2, RecvDialDoes
<1>11. ASSUME NEW e \in End, RecvAccept(e) PROVE TimerIsEntry'
  <2>1. rpc[e] = "recv"
    BY <1>11 DEF RecvAccept
  <2>2. conn[rp[e]] \in Conn
    BY <2>1, InHand
  <2>3. QED
    BY <1>8, <1>11, <2>1, <2>2, RecvAcceptDoes
<1>12. ASSUME NEW p \in ConnId, Tick(p) \/ Delete(p) PROVE TimerIsEntry'
  <2> DEFINE h == conn[p].host
  <2>1. /\ conn[p].timer # "none" /\ h \in End /\ UNCHANGED raced
        /\ \A q \in ConnId : conn[q].host \in End
    BY <1>12, TimerDoes, ConnFields DEF TypeOK
  <2>2. PICK d \in Conn :
          /\ d.host = h /\ conn' = [conn EXCEPT ![p] = d]
          /\ \/ d.timer # "none" /\ UNCHANGED eps
             \/ d.timer = "none" /\ eps' = [eps EXCEPT ![h] = Nil]
    BY <1>12, TimerDoes
  <2>3. /\ conn'[p] = d /\ \A q \in ConnId \ {p} : conn'[q] = conn[q]
        /\ eps \in [End -> ConnId \cup {Nil}]
    BY <2>2 DEF TypeOK
  <2>4. CASE d.timer # "none" /\ UNCHANGED eps
    BY <2>1, <2>2, <2>3, <2>4 DEF TimerIsEntry
  <2>5. CASE d.timer = "none" /\ eps' = [eps EXCEPT ![h] = Nil]
    BY <2>1, <2>3, <2>5 DEF TimerIsEntry
  <2>6. QED
    BY <2>2, <2>4, <2>5
<1>13. CASE (\E q \in net : Lose(q)) \/ UNCHANGED vars
  BY <1>1, <1>13 DEF Lose, vars
<1>14. QED
  BY <1>2, <1>3, <1>4, <1>5, <1>6, <1>7, <1>9, <1>10, <1>11, <1>12, <1>13 DEF Next

-----------------------------------------------------------------------------
(* Nil packets *)

LEMMA TwoElements ==
  ASSUME NEW S, IsFiniteSet(S), NEW a \in S, NEW b \in S, a # b
  PROVE  Cardinality(S) >= 2
<1>1. IsFiniteSet({a}) /\ Cardinality({a}) = 1
  BY FS_Singleton
<1>2. IsFiniteSet({a} \cup {b}) /\ Cardinality({a} \cup {b}) = 2
  <2>1. b \notin {a} /\ 1 + 1 = 2
    OBVIOUS
  <2>2. Cardinality({a} \cup {b}) = Cardinality({a}) + 1
    BY <1>1, <2>1, FS_AddElement
  <2>3. IsFiniteSet({a} \cup {b})
    BY <1>1, FS_AddElement
  <2>4. QED
    BY <1>1, <2>1, <2>2, <2>3
<1>3. /\ Cardinality({a} \cup {b}) <= Cardinality(S)
      /\ Cardinality(S) \in Nat
  BY FS_Subset, FS_CardinalityType
<1>4. QED
  BY <1>2, <1>3

\* The connections with which an end has dialed.
Dialed(e) == {p \in 1..made : conn[p].host = e /\ conn[p].dial}

LEMMA NilSendStep ==
  ASSUME TypeOK, HoldsOwn, Justified, NilSendNeedsTwo, [Next]_vars
  PROVE  NilSendNeedsTwo'
<1> USE DEF writerVars, readerVars, history
<1>1. CASE UNCHANGED vars
  BY <1>1 DEF vars, NilSendNeedsTwo
<1>2. ASSUME nilSend' = {} PROVE NilSendNeedsTwo'
  BY <1>2 DEF NilSendNeedsTwo
<1>3. ASSUME NEW e \in End, RecvDial(e), nilSend' # {} PROVE NilSendNeedsTwo'
  <2>1. /\ rpc[e] = "recv" /\ nilSend = {} /\ rp[e] \in ConnId /\ rp[e] <= made
        /\ conn[rp[e]].host = e /\ pkt[e].to = e
    BY <1>3, InHand DEF RecvDial, Up
  <2>2. PICK p \in ConnId : p = rp[e]
    BY <2>1
  <2>3. /\ conn[p].dial /\ ~conn[p].established /\ ~conn[p].cached
        /\ pkt[e].flags = "SYN|ACK" /\ nilSend' = {e}
    BY <1>3, <2>1, <2>2, RecvDialDoes
  <2>4. PICK d \in Conn : \E sends \in SUBSET Packet :
          Reads(e, sends, d) /\ d.host = e /\ d.dial
    BY <1>3, <2>1, <2>2, <2>3, RecvDialDoes
  <2>5. conn'[p] = d /\ (\A q \in ConnId \ {p} : conn'[q] = conn[q]) /\ UNCHANGED made
    BY <2>1, <2>2, <2>4, ReadsDoes
  <2>6. Introduced(e)
    BY <2>1, <2>3 DEF Justified, PacketJustified, Seen
  <2>7. PICK q \in ConnId : /\ conn[q].host = e /\ conn[q].dial
                            /\ conn[q].cached \/ conn[q].established
    BY <2>6 DEF Introduced
  <2>8. ~(q > made) /\ q # p
    BY <2>3, <2>7, NoConnFields DEF HoldsOwn
  <2>9. p \in 1..made /\ q \in 1..made
    BY <2>1, <2>2, <2>8, ConnAssumption DEF TypeOK, ConnId
  <2>10. p \in Dialed(e)' /\ q \in Dialed(e)'
    BY <2>4, <2>5, <2>7, <2>8, <2>9 DEF Dialed
  <2>11. IsFiniteSet(Dialed(e)')
    <3>1. made' \in Int
      BY <2>5, ConnAssumption DEF TypeOK
    <3>2. IsFiniteSet(1..made')
      BY <3>1, FS_Interval
    <3>3. Dialed(e)' \subseteq 1..made'
      BY DEF Dialed
    <3>4. QED
      BY <3>2, <3>3, FS_Subset
  <2>12. Cardinality(Dialed(e)') >= 2
    BY <2>8, <2>10, <2>11, TwoElements
  <2>13. QED
    BY <2>3, <2>12 DEF NilSendNeedsTwo, Dialed
<1>4. ASSUME Next PROVE nilSend' = {} \/ \E e \in End : RecvDial(e)
  BY <1>4 DEF Next, WriteGet, WriteSet, WriteCheck, WriteLocked, ReadGet, ReadSet, RecvData,
     RecvAccept, Tick, Delete, Lose, Up
<1>5. QED
  BY <1>1, <1>2, <1>3, <1>4

-----------------------------------------------------------------------------
(* The invariant *)

LEMMA InvInit == Init => ConnInv
<1> SUFFICES ASSUME Init PROVE ConnInv
  OBVIOUS
<1>1. /\ eps = [e \in End |-> Nil] /\ made = 0 /\ conn = [p \in ConnId |-> NoConn]
      /\ wpc = [w \in Writer |-> "idle"] /\ wp = [w \in Writer |-> Nil]
      /\ rpc = [e \in End |-> "read"] /\ rp = [e \in End |-> Nil]
      /\ net = {} /\ pkt = [e \in End |-> NoPkt] /\ nilSend = {}
  BY DEF Init
<1>2. HoldsOwn
  BY <1>1 DEF HoldsOwn
<1>3. \A q \in Seen : q = NoPkt
  BY <1>1 DEF Seen
<1>4. \A p \in ConnId : ~conn[p].dial /\ ~conn[p].established /\ conn[p].ian = Nil
                         /\ conn[p].timer = "none"
  BY <1>1, NoConnFields
<1>5. Justified
  BY <1>3, <1>4, NoPktFields DEF Justified, PacketJustified, ConnJustified
<1>6. TimerIsEntry /\ NilSendNeedsTwo
  BY <1>1, <1>4 DEF TimerIsEntry, NilSendNeedsTwo
<1>7. QED
  BY <1>2, <1>5, <1>6, TypeInit DEF ConnInv

LEMMA InvStep == ConnInv /\ [Next]_vars => ConnInv'
BY TypeStep, HoldsStep, JustifiedStep, TimerStep, NilSendStep DEF ConnInv

LEMMA ConnAlways == Spec => []ConnInv
<1>1. Init => ConnInv
  BY InvInit
<1>2. ConnInv /\ [Next]_vars => ConnInv'
  BY InvStep
<1>3. QED
  BY <1>1, <1>2, PTL DEF Spec

-----------------------------------------------------------------------------
(***************************************************************************)
(* The theorems.                                                           *)
(***************************************************************************)
\* Tables, goroutines and packets hold what their types say: among other things, an
\* ACK always has a number to acknowledge, and what Recv and Send send is a packet
\* that the other end can take (stack.go:131).
THEOREM ConnTypeCorrect == Spec => []TypeOK
<1>1. ConnInv => TypeOK
  BY DEF ConnInv
<1>2. QED
  BY <1>1, ConnAlways, PTL

\* An accepting end is established only by its own counterpart, however many
\* connections were made before and whichever of their packets come again
\* (stack.go:157).
THEOREM AcceptedByPeerCorrect == Spec => []AcceptedByPeer
<1>1. ASSUME ConnInv PROVE AcceptedByPeer
  <2>1. SUFFICES ASSUME NEW p \in ConnId, conn[p].established, ~conn[p].dial
                 PROVE  \E q \in ConnId : /\ conn[q].host # conn[p].host /\ conn[q].dial
                                          /\ conn[q].established /\ conn[q].ian = p
    BY DEF AcceptedByPeer
  <2>2. Established(Peer(conn[p].host), p)
    BY <1>1, <2>1 DEF ConnInv, Justified, ConnJustified
  <2>3. conn[p].host \in End
    BY <1>1, ConnFields DEF ConnInv, TypeOK
  <2>4. Peer(conn[p].host) # conn[p].host
    BY <2>3, PeerOfPeer
  <2>5. QED
    BY <2>2, <2>4 DEF Established
<1>2. QED
  BY <1>1, ConnAlways, PTL

\* The end of a handshake finds the packet it has to send, for as long as its end has
\* dialed once; a nil packet, which is a panic, takes two connections (stack.go:155).
THEOREM NilSendNeedsTwoCorrect == Spec => []NilSendNeedsTwo
<1>1. ConnInv => NilSendNeedsTwo
  BY DEF ConnInv
<1>2. QED
  BY <1>1, ConnAlways, PTL

-----------------------------------------------------------------------------
\* The table changes where a PseudoTCP is made, and where a timer deletes.
LEMMA EntryChanges ==
  ASSUME TypeOK, NEW e \in End, eps'[e] # eps[e], [Next]_vars
  PROVE  \/ \E dials \in BOOLEAN : Make(e, dials)
         \/ \E p \in ConnId : /\ conn[p].timer = "delete" /\ conn[p].host = e
                              /\ UNCHANGED raced
<1> USE DEF writerVars, readerVars, history
<1>1. ASSUME NEW f \in End, NEW dials \in BOOLEAN, Make(f, dials) PROVE Make(e, dials)
  <2>1. eps' = [eps EXCEPT ![f] = made + 1] /\ eps \in [End -> ConnId \cup {Nil}]
    BY <1>1 DEF Make, TypeOK
  <2>2. f = e
    BY <2>1
  <2>3. QED
    BY <1>1, <2>2
<1>2. ASSUME NEW w \in Writer, WriteSet(w) PROVE Make(e, TRUE)
  <2>1. Make(At(w), TRUE)
    BY <1>2 DEF WriteSet
  <2>2. QED
    BY <1>1, <2>1, AtEnd
<1>3. ASSUME NEW f \in End, ReadSet(f) PROVE Make(e, FALSE)
  BY <1>1, <1>3 DEF ReadSet
<1>4. ASSUME NEW p \in ConnId, Delete(p)
      PROVE  conn[p].timer = "delete" /\ conn[p].host = e /\ UNCHANGED raced
  <2>1. eps \in [End -> ConnId \cup {Nil}]
    BY DEF TypeOK
  <2>2. conn[p].timer = "delete" /\ eps' = [eps EXCEPT ![conn[p].host] = Nil] /\ UNCHANGED raced
    BY <1>4 DEF Delete
  <2>3. QED
    BY <2>1, <2>2
<1>5. ~UNCHANGED eps
  OBVIOUS
<1>6. \/ \E w \in Writer : WriteSet(w)
      \/ \E f \in End : ReadSet(f)
      \/ \E p \in ConnId : Delete(p)
  BY <1>5 DEF Next, vars, WriteGet, WriteCheck, WriteLocked, ReadGet, RecvData, RecvDial,
     RecvAccept, Reads, Tick, Lose
<1>7. QED
  BY <1>2, <1>3, <1>4, <1>6

\* A connection leaves the table only by its own timer, after a comparison that found
\* it silent: timers of connections that came before it leave its entry alone, unless
\* the entry was overwritten (stack.go:202).
THEOREM SilentLosesEntryCorrect == Spec => SilentLosesEntry
<1>1. ASSUME ConnInv, [Next]_vars, NEW e \in End, eps[e] # Nil, eps'[e] # eps[e]
      PROVE  e \in raced' \/ conn[eps[e]].timer = "delete"
  <2>1. TypeOK /\ TimerIsEntry
    BY <1>1 DEF ConnInv
  <2>2. ASSUME NEW dials \in BOOLEAN, Make(e, dials) PROVE e \in raced'
    BY <1>1, <2>2 DEF Make
  <2>3. ASSUME NEW p \in ConnId, conn[p].timer = "delete", conn[p].host = e, UNCHANGED raced
        PROVE  e \in raced' \/ conn[eps[e]].timer = "delete"
    BY <1>1, <2>1, <2>3 DEF TimerIsEntry
  <2>4. QED
    BY <1>1, <2>1, <2>2, <2>3, EntryChanges
<1>2. ConnInv /\ [Next]_vars =>
        [\A e \in End : eps[e] # Nil /\ eps'[e] # eps[e] =>
           e \in raced' \/ conn[eps[e]].timer = "delete"]_vars
  BY <1>1
<1>3. QED
  BY <1>2, ConnAlways, PTL DEF Spec, SilentLosesEntry

-----------------------------------------------------------------------------
(* A gateway that nothing establishes any more *)

LEMMA AtSides ==
  /\ \A w \in ClientWriter : w \in Writer /\ At(w) = "client"
  /\ \A w \in Writer : At(w) # "client" => At(w) = "gateway" /\ w \notin ClientWriter
BY DEF At, Writer

LEMMA DeafKept ==
  ASSUME TypeOK, HoldsOwn, Deaf, eps'["client"] = eps["client"], made' \in 0..MaxConn,
         \A q \in ConnId : \/ /\ conn'[q].host = conn[q].host /\ conn'[q].dial = conn[q].dial
                              /\ conn'[q].established = conn[q].established
                           \/ q > made /\ ~conn'[q].established,
         \A q \in net' : q.to = "gateway" => q \in net \/ q.flags \in {"SYN", "PSH|ACK"},
         rpc'["gateway"] # "read" =>
            \/ rpc["gateway"] # "read" /\ pkt'["gateway"] = pkt["gateway"]
            \/ pkt'["gateway"] \in net /\ pkt'["gateway"].to = "gateway",
         rpc'["client"] = "recv" =>
            \/ rpc["client"] = "recv" /\ rp'["client"] = rp["client"]
            \/ rp'["client"] = eps["client"],
         \A w \in ClientWriter : \/ wpc'[w] = wpc[w] /\ wp'[w] = wp[w]
                                 \/ wpc'[w] # "lock" /\ wp'[w] \in {Nil, eps["client"]}
  PROVE  Deaf'
<1> DEFINE p == eps["client"]
<1>1. /\ p \in ConnId /\ p <= made /\ conn[p].dial /\ conn[p].established
      /\ made \in Nat /\ made' \in Nat
  BY ConnAssumption DEF Deaf, TypeOK, HoldsOwn, End
<1>2. ~(p > made)
  BY <1>1, ConnAssumption DEF ConnId
<1>3. conn'[p].dial /\ conn'[p].established
  BY <1>1, <1>2
<1>4. ASSUME NEW q \in 1..made', conn'[q].host = "gateway" PROVE ~conn'[q].established
  <2>1. q \in ConnId
    BY ConnAssumption DEF ConnId
  <2>2. CASE q > made
    BY <2>1, <2>2, NoConnFields DEF HoldsOwn
  <2>3. CASE ~(q > made)
    <3>1. q \in 1..made
      BY <1>1, <2>1, <2>3, ConnAssumption DEF ConnId
    <3>2. QED
      BY <1>4, <2>1, <2>3, <3>1 DEF Deaf
  <2>4. QED
    BY <2>2, <2>3
<1>5. /\ \A q \in net' : q.to = "gateway" => q.flags \in {"SYN", "PSH|ACK"}
      /\ rpc'["gateway"] # "read" => pkt'["gateway"].flags \in {"SYN", "PSH|ACK"}
      /\ rpc'["client"] = "recv" => rp'["client"] = p
      /\ \A w \in ClientWriter : wpc'[w] # "lock" /\ wp'[w] \in {Nil, p}
  BY DEF Deaf
<1>6. p # Nil
  BY DEF Deaf
<1>7. QED
  BY <1>3, <1>4, <1>5, <1>6 DEF Deaf

LEMMA DeafMade ==
  ASSUME TypeOK, HoldsOwn, Deaf, eps'["client"] = eps["client"],
         NEW e \in End, NEW dials \in BOOLEAN, Make(e, dials)
  PROVE  /\ e = "gateway" /\ made' \in 0..MaxConn
         /\ \A q \in ConnId : \/ /\ conn'[q].host = conn[q].host /\ conn'[q].dial = conn[q].dial
                                 /\ conn'[q].established = conn[q].established
                              \/ q > made /\ ~conn'[q].established
<1>1. /\ made + 1 \in ConnId /\ made' \in 0..MaxConn /\ eps' = [eps EXCEPT ![e] = made + 1]
      /\ ~conn'[made + 1].established
      /\ \A q \in ConnId \ {made + 1} : conn'[q] = conn[q]
  BY Made, FreshFields
<1>2. eps["client"] # made + 1 /\ made + 1 > made
  BY ConnAssumption DEF HoldsOwn, TypeOK, Deaf, End, ConnId
<1>3. e # "client"
  BY <1>1, <1>2 DEF TypeOK
<1>4. e = "gateway"
  BY <1>3 DEF End
<1>5. QED
  BY <1>1, <1>2, <1>4

LEMMA DeafWrites ==
  ASSUME TypeOK, HoldsOwn, Deaf, eps'["client"] = eps["client"], NEW w \in Writer,
         WriteGet(w) \/ WriteSet(w) \/ WriteCheck(w) \/ WriteLocked(w)
  PROVE  Deaf'
<1> USE DEF readerVars, history
<1>1. /\ eps["client"] # Nil /\ eps["client"] \in ConnId
      /\ \A v \in ClientWriter : wpc[v] # "lock" /\ wp[v] \in {Nil, eps["client"]}
  BY DEF Deaf, TypeOK, End
<1>2. /\ wp \in [Writer -> ConnId \cup {Nil}] /\ made \in 0..MaxConn
      /\ wpc \in [Writer -> {"idle", "set", "check", "lock"}]
  BY DEF TypeOK
<1>3. CASE WriteGet(w)
  BY <1>1, <1>2, <1>3, AtSides, DeafKept DEF WriteGet
<1>4. CASE WriteSet(w)
  <2>1. Make(At(w), TRUE) /\ At(w) \in End
    BY <1>4, AtEnd DEF WriteSet
  <2>2. At(w) = "gateway"
    BY <2>1, DeafMade
  <2>3. /\ made' \in 0..MaxConn
        /\ \A q \in ConnId : \/ /\ conn'[q].host = conn[q].host /\ conn'[q].dial = conn[q].dial
                                /\ conn'[q].established = conn[q].established
                             \/ q > made /\ ~conn'[q].established
    BY <2>1, DeafMade
  <2>4. w \notin ClientWriter
    BY <2>2, AtSides
  <2>5. /\ UNCHANGED <<net, rpc, rp, pkt>>
        /\ \A v \in ClientWriter : wpc'[v] = wpc[v] /\ wp'[v] = wp[v]
    BY <1>2, <1>4, <2>4, AtSides DEF WriteSet
  <2>6. QED
    BY <2>3, <2>5, DeafKept
<1>5. CASE WriteCheck(w)
  <2>1. /\ \A q \in ConnId : SameButMoved(conn[q], conn'[q])
        /\ \A q \in net' \ net : q.flags = "PSH|ACK"
        /\ UNCHANGED <<made, rpc, rp, pkt>>
    BY <1>5, WriteCheckDoes DEF WriteCheck
  <2>2. w \in ClientWriter => conn[wp[w]].established
    BY <1>1, <1>5 DEF Deaf, HoldsOwn, WriteCheck
  <2>3. \A v \in ClientWriter : \/ wpc'[v] = wpc[v] /\ wp'[v] = wp[v]
                                \/ wpc'[v] = "idle" /\ wp'[v] = Nil
    BY <1>2, <1>5, <2>2, AtSides DEF WriteCheck
  <2>4. QED
    BY <1>2, <2>1, <2>3, DeafKept DEF SameButMoved
<1>6. CASE WriteLocked(w)
  <2>1. w \notin ClientWriter
    BY <1>1, <1>6 DEF WriteLocked
  <2>2. At(w) = "gateway"
    BY <2>1 DEF At
  <2>3. /\ \A q \in ConnId : /\ conn'[q].host = conn[q].host /\ conn'[q].dial = conn[q].dial
                             /\ conn'[q].established = conn[q].established
        /\ \A q \in net' \ net : q.to = Peer(At(w))
    BY <1>6, WriteLockedDoes
  <2>4. /\ UNCHANGED <<made, rpc, rp, pkt>>
        /\ \A v \in ClientWriter : wpc'[v] = wpc[v] /\ wp'[v] = wp[v]
    BY <1>2, <1>6, <2>1, AtSides DEF WriteLocked
  <2>5. \A q \in net' \ net : q.to # "gateway"
    BY <2>2, <2>3 DEF Peer
  <2>6. QED
    BY <1>2, <2>3, <2>4, <2>5, DeafKept
<1>7. QED
  BY <1>3, <1>4, <1>5, <1>6

\* What a goroutine that reads may do to a deaf gateway.
LEMMA DeafReads ==
  ASSUME TypeOK, HoldsOwn, Deaf, eps'["client"] = eps["client"], NEW e \in End,
         rpc[e] = "recv", NEW p \in ConnId, p = rp[e],
         NEW sends \in SUBSET Packet, NEW d \in Conn, Reads(e, sends, d),
         d.host = conn[p].host, d.dial = conn[p].dial, d.established = conn[p].established,
         \A q \in sends : q.to = "client"
  PROVE  Deaf'
<1>1. /\ sends \subseteq Packet
      /\ rpc \in [End -> {"read", "set", "recv"}] /\ rp \in [End -> ConnId \cup {Nil}]
      /\ pkt \in [End -> Packet] /\ made \in 0..MaxConn
  BY DEF TypeOK
<1>2. /\ conn'[p] = d /\ \A q \in ConnId \ {p} : conn'[q] = conn[q]
      /\ net' = net \cup sends
      /\ rpc' = [rpc EXCEPT ![e] = "read"] /\ rp' = [rp EXCEPT ![e] = Nil]
      /\ pkt' = [pkt EXCEPT ![e] = NoPkt]
      /\ UNCHANGED <<made, wpc, wp>>
  BY <1>1, ReadsDoes
<1>3. \A q \in ConnId : /\ conn'[q].host = conn[q].host /\ conn'[q].dial = conn[q].dial
                        /\ conn'[q].established = conn[q].established
  BY <1>2
<1>4. rpc'["gateway"] # "read" => rpc["gateway"] # "read" /\ pkt'["gateway"] = pkt["gateway"]
  BY <1>1, <1>2 DEF End
<1>5. rpc'["client"] = "recv" => rpc["client"] = "recv" /\ rp'["client"] = rp["client"]
  BY <1>1, <1>2 DEF End
<1>6. \A q \in net' : q.to = "gateway" => q \in net
  BY <1>2
<1>7. QED
  BY <1>1, <1>2, <1>3, <1>4, <1>5, <1>6, DeafKept

LEMMA DeafRecv ==
  ASSUME TypeOK, HoldsOwn, Deaf, eps'["client"] = eps["client"], NEW e \in End,
         RecvData(e) \/ RecvDial(e) \/ RecvAccept(e)
  PROVE  Deaf'
<1>1. /\ rpc[e] = "recv" /\ rp[e] \in ConnId /\ conn[rp[e]] \in Conn
  BY InHand DEF RecvData, RecvDial, RecvAccept
<1>2. PICK p \in ConnId : p = rp[e]
  BY <1>1
<1>3. e = "client" => conn[p].dial /\ conn[p].established
  BY <1>1, <1>2 DEF Deaf
<1>4. e = "gateway" => pkt[e].flags \in {"SYN", "PSH|ACK"}
  BY <1>1 DEF Deaf
<1>5. e \in {"client", "gateway"} /\ conn[p] \in Conn
  BY <1>1, <1>2 DEF End
<1>6. CASE RecvData(e)
  <2>1. PICK d \in Conn : Reads(e, {}, d) /\ SameButMoved(conn[p], d)
    BY <1>2, <1>6, RecvDataDoes
  <2>2. d.host = conn[p].host /\ d.dial = conn[p].dial /\ d.established = conn[p].established
    BY <2>1 DEF SameButMoved
  <2>3. QED
    BY <1>1, <1>2, <2>1, <2>2, DeafReads
<1>7. ASSUME Reads(e, {}, conn[p]) PROVE Deaf'
  BY <1>1, <1>2, <1>5, <1>7, DeafReads
<1>8. CASE RecvDial(e)
  <2>1. e = "gateway"
    BY <1>2, <1>3, <1>5, <1>8 DEF RecvDial
  <2>2. Reads(e, {}, conn[p])
    BY <1>2, <1>4, <1>8, <2>1 DEF RecvDial
  <2>3. QED
    BY <1>7, <2>2
<1>9. CASE RecvAccept(e)
  <2>1. ~conn[p].dial /\ ~conn[p].established /\ e = "gateway" /\ ~Acks(e)
    BY <1>2, <1>3, <1>4, <1>5, <1>9 DEF RecvAccept, Acks
  <2>2. ASSUME NEW d \in Conn, NEW sends \in SUBSET Packet, Reads(e, sends, d),
               d.host = conn[p].host, d.dial = conn[p].dial, ~d.established,
               \A q \in sends : q.to = Peer(e)
        PROVE  Deaf'
    <3>1. \A q \in sends : q.to = "client"
      BY <2>1, <2>2 DEF Peer
    <3>2. d.established = conn[p].established
      BY <1>5, <2>1, <2>2, ConnFields
    <3>3. QED
      BY <1>1, <1>2, <2>2, <3>1, <3>2, DeafReads
  <2>3. QED
    BY <1>2, <1>7, <1>9, <2>1, <2>2, RecvAcceptDoes
<1>10. QED
  BY <1>6, <1>8, <1>9

LEMMA DeafStep ==
  ASSUME TypeOK, HoldsOwn, Deaf, eps'["client"] = eps["client"], [Next]_vars
  PROVE  Deaf'
<1> USE DEF writerVars, readerVars, history
<1>0. /\ rpc \in [End -> {"read", "set", "recv"}] /\ rp \in [End -> ConnId \cup {Nil}]
      /\ pkt \in [End -> Packet] /\ made \in 0..MaxConn
  BY DEF TypeOK
<1>1. ASSUME NEW w \in Writer, WriteGet(w) \/ WriteSet(w) \/ WriteCheck(w) \/ WriteLocked(w)
      PROVE  Deaf'
  BY <1>1, DeafWrites
<1>2. ASSUME NEW e \in End, ReadGet(e) PROVE Deaf'
  <2>1. /\ pkt' = [pkt EXCEPT ![e] = pkt'[e]] /\ pkt'[e] \in net /\ pkt'[e].to = e
        /\ rp' = [rp EXCEPT ![e] = eps[e]]
        /\ \E at \in {"set", "recv"} : rpc' = [rpc EXCEPT ![e] = at]
        /\ UNCHANGED <<made, conn, net, wpc, wp>>
    BY <1>0, <1>2 DEF ReadGet
  <2>2. /\ rpc'["gateway"] # "read" =>
             \/ rpc["gateway"] # "read" /\ pkt'["gateway"] = pkt["gateway"]
             \/ pkt'["gateway"] \in net /\ pkt'["gateway"].to = "gateway"
        /\ rpc'["client"] = "recv" =>
             \/ rpc["client"] = "recv" /\ rp'["client"] = rp["client"]
             \/ rp'["client"] = eps["client"]
    BY <1>0, <2>1 DEF End
  <2>3. QED
    BY <1>0, <2>1, <2>2, DeafKept
<1>3. ASSUME NEW e \in End, ReadSet(e) PROVE Deaf'
  <2>1. Make(e, FALSE) /\ rpc[e] = "set" /\ UNCHANGED <<net, wpc, wp, pkt>>
    BY <1>3 DEF ReadSet
  <2>2. e = "gateway"
    BY <2>1, DeafMade
  <2>3. /\ made' \in 0..MaxConn
        /\ \A q \in ConnId : \/ /\ conn'[q].host = conn[q].host /\ conn'[q].dial = conn[q].dial
                                /\ conn'[q].established = conn[q].established
                             \/ q > made /\ ~conn'[q].established
    BY <2>1, DeafMade
  <2>4. /\ rpc["gateway"] # "read"
        /\ rpc'["client"] = rpc["client"] /\ rp'["client"] = rp["client"]
    BY <1>0, <1>3, <2>1, <2>2 DEF ReadSet, End
  <2>5. QED
    BY <2>1, <2>3, <2>4, DeafKept
<1>4. ASSUME NEW e \in End, RecvData(e) \/ RecvDial(e) \/ RecvAccept(e) PROVE Deaf'
  BY <1>4, DeafRecv
<1>5. ASSUME NEW p \in ConnId, Tick(p) \/ Delete(p) PROVE Deaf'
  <2>1. PICK d \in Conn :
          /\ d.host = conn[p].host /\ d.dial = conn[p].dial
          /\ d.established = conn[p].established
          /\ conn' = [conn EXCEPT ![p] = d] /\ UNCHANGED <<made, net, wpc, wp, rpc, rp, pkt>>
    BY <1>5, TimerDoes
  <2>2. \A q \in ConnId : /\ conn'[q].host = conn[q].host /\ conn'[q].dial = conn[q].dial
                          /\ conn'[q].established = conn[q].established
    BY <2>1 DEF TypeOK
  <2>3. QED
    BY <1>0, <2>1, <2>2, DeafKept
<1>6. CASE (\E q \in net : Lose(q)) \/ UNCHANGED vars
  <2>1. net' \subseteq net /\ UNCHANGED <<made, conn, wpc, wp, rpc, rp, pkt>>
    BY <1>6 DEF Lose, vars
  <2>2. QED
    BY <1>0, <2>1, DeafKept
<1>7. QED
  BY <1>1, <1>2, <1>3, <1>4, <1>5, <1>6 DEF Next

\* Once the ACK of a handshake is gone, nothing makes up for it: for as long as the
\* client keeps its connection the gateway hears nothing of what is sent on it, in
\* whatever order the goroutines of both ends go on and however often packets come
\* again (stack.go:164).
THEOREM LostAckIsFatalCorrect == Spec => LostAckIsFatal
<1>1. ConnInv /\ [Next]_vars => [Deaf /\ eps'["client"] = eps["client"] => Deaf']_vars
  BY DeafStep DEF ConnInv
<1>2. QED
  BY <1>1, ConnAlways, PTL DEF Spec, LostAckIsFatal

-----------------------------------------------------------------------------
(***************************************************************************)
(* The tables side by side.  A registry's loops are those of MCPeerTables, *)
(* which are finitely many, and one of them writes to a client.            *)
(***************************************************************************)
OfClients == INSTANCE RegistryProofs
    WITH Uplink <- {up}, Downlink <- {down1}, Forgets <- TRUE,
         Modulus <- Numbers, MaxRecord <- Records
OfGateways == INSTANCE RegistryProofs
    WITH Uplink <- {up}, Downlink <- {down1, down2}, Forgets <- FALSE,
         Modulus <- Numbers, MaxRecord <- Records

LEMMA SameClients ==
  /\ Clients!Init <=> OfClients!Init
  /\ Clients!Next <=> OfClients!Next
BY DEF Clients!Init, OfClients!Init, Clients!Next, OfClients!Next,
  Clients!Look, OfClients!Look, Clients!Enter, OfClients!Enter,
  Clients!Touch, OfClients!Touch, Clients!Use, OfClients!Use,
  Clients!Tick, OfClients!Tick, Clients!Found, OfClients!Found, Clients!Loop, OfClients!Loop,
  Clients!Record, OfClients!Record, Clients!Nil, OfClients!Nil, Clients!Entered, OfClients!Entered,
  Clients!Draw, OfClients!Draw, Clients!historyVars, OfClients!historyVars

LEMMA SameGateways ==
  /\ Gateways!Init <=> OfGateways!Init
  /\ Gateways!Next <=> OfGateways!Next
BY DEF Gateways!Init, OfGateways!Init, Gateways!Next, OfGateways!Next,
  Gateways!Look, OfGateways!Look, Gateways!Enter, OfGateways!Enter,
  Gateways!Touch, OfGateways!Touch, Gateways!Use, OfGateways!Use,
  Gateways!Tick, OfGateways!Tick, Gateways!Found, OfGateways!Found,
  Gateways!Loop, OfGateways!Loop, Gateways!Record, OfGateways!Record,
  Gateways!Nil, OfGateways!Nil, Gateways!Entered, OfGateways!Entered,
  Gateways!Draw, OfGateways!Draw, Gateways!historyVars, OfGateways!historyVars

\* (Each instance of RegistryProofs has an IsFiniteSet of its own, and the library's
\* theorems about it.)
LEMMA TableSizes == OfClients!Sizes /\ OfClients!OneDrawer /\ OfGateways!Sizes
<1>1. TRUE \in BOOLEAN /\ FALSE \in BOOLEAN
  OBVIOUS
<1>2. OfClients!Sizes
  <2>1. OfClients!IsFiniteSet({up}) /\ OfClients!IsFiniteSet({down1})
    BY OfClients!FS_Singleton
  <2>2. OfClients!IsFiniteSet({up} \cup {down1})
    BY <2>1, OfClients!FS_Union
  <2>3. QED
    BY <1>1, <2>2, TablesAssumption DEF OfClients!Sizes, OfClients!Loop
<1>3. OfGateways!Sizes
  <2>1. /\ OfGateways!IsFiniteSet({up}) /\ OfGateways!IsFiniteSet({down1})
        /\ OfGateways!IsFiniteSet({down2})
    BY OfGateways!FS_Singleton
  <2>2. OfGateways!IsFiniteSet({down1} \cup {down2})
    BY <2>1, OfGateways!FS_Union
  <2>3. OfGateways!IsFiniteSet({up} \cup ({down1} \cup {down2}))
    BY <2>1, <2>2, OfGateways!FS_Union
  <2>4. {down1, down2} = {down1} \cup {down2}
    OBVIOUS
  <2>5. QED
    BY <1>1, <2>3, <2>4, TablesAssumption DEF OfGateways!Sizes, OfGateways!Loop
<1>4. OfClients!OneDrawer
  BY DEF OfClients!OneDrawer
<1>5. QED
  BY <1>2, <1>3, <1>4

TablesInv ==
  /\ table \in {"eps", "clients", "gateways"}
  /\ ConnInv
  /\ table = "gateways" => OfGateways!RegistryInv
  /\ table # "gateways" => OfClients!RegistryInv /\ OfClients!DrawnInOrder

LEMMA SameVars ==
  /\ UNCHANGED OfClients!vars <=> UNCHANGED registryVars
  /\ UNCHANGED OfGateways!vars <=> UNCHANGED registryVars
BY DEF OfClients!vars, OfGateways!vars, OfClients!historyVars, OfGateways!historyVars, registryVars

LEMMA ClientsStep ==
  ASSUME OfClients!RegistryInv, OfClients!DrawnInOrder, Clients!Next \/ UNCHANGED registryVars
  PROVE  /\ OfClients!RegistryInv' /\ OfClients!DrawnInOrder'
         /\ OfClients!RunsOn \/ UNCHANGED registryVars
<1>1. [OfClients!Next]_OfClients!vars
  BY SameClients, SameVars
<1>2. OfClients!TypeOK /\ OfClients!EnteredOnce /\ OfClients!MarkedWhileUsed
  BY DEF OfClients!RegistryInv
<1>3. OfClients!TypeOK'
  BY <1>1, <1>2, TableSizes, OfClients!TypeStep
<1>4. OfClients!EnteredOnce'
  BY <1>1, <1>2, TableSizes, OfClients!EnteredOnceStep
<1>5. OfClients!MarkedWhileUsed'
  BY <1>1, <1>2, TableSizes, OfClients!MarkedStep
<1>6. OfClients!DrawnInOrder' /\ [OfClients!RunsOn]_OfClients!vars
  BY <1>1, <1>2, TableSizes, OfClients!DrawnStep
<1>7. QED
  BY <1>3, <1>4, <1>5, <1>6, SameVars DEF OfClients!RegistryInv

LEMMA GatewaysStep ==
  ASSUME OfGateways!RegistryInv, Gateways!Next \/ UNCHANGED registryVars
  PROVE  OfGateways!RegistryInv'
<1>1. [OfGateways!Next]_OfGateways!vars
  BY SameGateways, SameVars
<1>2. OfGateways!TypeOK /\ OfGateways!EnteredOnce /\ OfGateways!MarkedWhileUsed
  BY DEF OfGateways!RegistryInv
<1>3. OfGateways!TypeOK'
  BY <1>1, <1>2, TableSizes, OfGateways!TypeStep
<1>4. OfGateways!EnteredOnce'
  BY <1>1, <1>2, TableSizes, OfGateways!EnteredOnceStep
<1>5. OfGateways!MarkedWhileUsed'
  BY <1>1, <1>2, TableSizes, OfGateways!MarkedStep
<1>6. QED
  BY <1>3, <1>4, <1>5 DEF OfGateways!RegistryInv

LEMMA TablesInit == MCInit => TablesInv
<1> SUFFICES ASSUME MCInit PROVE TablesInv
  OBVIOUS
<1>1. table \in {"eps", "clients", "gateways"} /\ ConnInv
  BY InvInit DEF MCInit
<1>2. CASE table = "gateways"
  <2>1. OfGateways!Init
    BY <1>2, SameGateways DEF MCInit
  <2>2. OfGateways!RegistryInv
    BY <2>1, TableSizes, OfGateways!RegistryInvInit
  <2>3. QED
    BY <1>1, <1>2, <2>2 DEF TablesInv
<1>3. CASE table # "gateways"
  <2>1. OfClients!Init
    BY <1>3, SameClients DEF MCInit
  <2>2. OfClients!RegistryInv
    BY <2>1, TableSizes, OfClients!RegistryInvInit
  <2>3. OfClients!DrawnInOrder
    BY <2>1 DEF OfClients!Init, OfClients!DrawnInOrder, OfClients!Loop, OfClients!Nil, OfClients!Record
  <2>4. QED
    BY <1>1, <1>3, <2>2, <2>3 DEF TablesInv
<1>4. QED
  BY <1>2, <1>3

\* A step of the three tables is one of each of them, or leaves it alone.
LEMMA TablesStep ==
  ASSUME TablesInv, [MCNext]_<<table, vars, registryVars>>
  PROVE  /\ TablesInv' /\ UNCHANGED table
         /\ table = "clients" => [OfClients!RunsOn]_registryVars
<1>1. /\ UNCHANGED table /\ [Next]_vars
      /\ table = "gateways" => Gateways!Next \/ UNCHANGED registryVars
      /\ table # "gateways" => Clients!Next \/ UNCHANGED registryVars
  BY DEF TablesInv, MCNext, StepEps, StepClients, StepGateways
<1>2. ConnInv'
  BY <1>1, InvStep DEF TablesInv
<1>3. table = "gateways" => OfGateways!RegistryInv'
  BY <1>1, GatewaysStep DEF TablesInv
<1>4. table # "gateways" =>
        /\ OfClients!RegistryInv' /\ OfClients!DrawnInOrder'
        /\ OfClients!RunsOn \/ UNCHANGED registryVars
  BY <1>1, ClientsStep DEF TablesInv
<1>5. QED
  BY <1>1, <1>2, <1>3, <1>4 DEF TablesInv

LEMMA TablesAlways == MCSpec => []TablesInv
<1>1. MCInit => TablesInv
  BY TablesInit
<1>2. TablesInv /\ [MCNext]_<<table, vars, registryVars>> => TablesInv'
  BY TablesStep
<1>3. QED
  BY <1>1, <1>2, PTL DEF MCSpec

\* The tables of connections, clients and gateways hold values of their types.
THEOREM TablesTypeCorrect == MCSpec => []TablesTypeOK
<1>1. ASSUME TablesInv PROVE TablesTypeOK
  <2>1. TypeOK
    BY <1>1 DEF TablesInv, ConnInv
  <2>2. CASE table = "gateways"
    <3>1. OfGateways!TypeOK
      BY <1>1, <2>2 DEF TablesInv, OfGateways!RegistryInv
    <3>2. Gateways!TypeOK
      BY <3>1 DEF OfGateways!TypeOK, Gateways!TypeOK, OfGateways!Loop, Gateways!Loop,
         OfGateways!Record, Gateways!Record, OfGateways!Nil, Gateways!Nil
    <3>3. QED
      BY <2>1, <2>2, <3>2 DEF TablesTypeOK
  <2>3. CASE table # "gateways"
    <3>1. OfClients!TypeOK
      BY <1>1, <2>3 DEF TablesInv, OfClients!RegistryInv
    <3>2. Clients!TypeOK
      BY <3>1 DEF OfClients!TypeOK, Clients!TypeOK, OfClients!Loop, Clients!Loop,
         OfClients!Record, Clients!Record, OfClients!Nil, Clients!Nil
    <3>3. QED
      BY <2>1, <2>3, <3>2 DEF TablesTypeOK
  <2>4. QED
    BY <2>2, <2>3
<1>2. QED
  BY <1>1, TablesAlways, PTL

\* In no table do more loops put a record over another's than there are loops, until
\* the peer is forgotten (cs.go:26, gs.go:25).
THEOREM TablesOneRecordCorrect == MCSpec => []OneRecordPerLoop
<1>1. ASSUME OfGateways!RegistryInv PROVE Gateways!OneRecordPerLoop
  BY <1>1, OfGateways!OneRecordFollows, TableSizes
     DEF Gateways!OneRecordPerLoop, OfGateways!OneRecordPerLoop, Gateways!Loop, OfGateways!Loop,
         Gateways!Cardinality, OfGateways!Cardinality
<1>2. ASSUME OfClients!RegistryInv PROVE Clients!OneRecordPerLoop
  BY <1>2, OfClients!OneRecordFollows, TableSizes
     DEF Clients!OneRecordPerLoop, OfClients!OneRecordPerLoop, Clients!Loop, OfClients!Loop,
         Clients!Cardinality, OfClients!Cardinality
<1>3. TablesInv => OneRecordPerLoop
  BY <1>1, <1>2 DEF TablesInv, OneRecordPerLoop
<1>4. QED
  BY <1>3, TablesAlways, PTL

\* The gateway forgets a client that was asked for from beginning to end since its
\* last tick only between another loop's entering a record and marking it; in the
\* other tables there is nothing to forget (cs.go:45).
THEOREM TablesKeptCorrect == MCSpec => KeptWhileUsed
<1>1. ASSUME TablesInv, [MCNext]_<<table, vars, registryVars>>,
             entry # Clients!Nil, entry' = Clients!Nil, served
      PROVE  \E l \in Clients!Loop : pc[l] = "touch" /\ hold[l] = entry
  <2>1. \/ table = "gateways" /\ Gateways!Next
        \/ table # "gateways" /\ Clients!Next
    BY <1>1 DEF TablesInv, MCNext, StepEps, StepClients, StepGateways, registryVars
  <2>2. CASE table = "gateways" /\ Gateways!Next
    <3>1. OfGateways!RegistryInv /\ OfGateways!Next
      BY <1>1, <2>2, SameGateways DEF TablesInv
    <3>2. entry # OfGateways!Nil /\ entry' = OfGateways!Nil
      BY <1>1 DEF Clients!Nil, OfGateways!Nil
    <3>3. QED
      BY <3>1, <3>2, TableSizes, OfGateways!ForgottenByTick
  <2>3. CASE table # "gateways" /\ Clients!Next
    <3>1. OfClients!RegistryInv /\ OfClients!Next
      BY <1>1, <2>3, SameClients DEF TablesInv
    <3>2. entry # OfClients!Nil /\ entry' = OfClients!Nil
      BY <1>1 DEF Clients!Nil, OfClients!Nil
    <3>3. \E l \in OfClients!Loop : pc[l] = "touch" /\ hold[l] = entry
      BY <1>1, <3>1, <3>2, TableSizes, OfClients!KeptStep
    <3>4. QED
      BY <3>3 DEF Clients!Loop, OfClients!Loop
  <2>4. QED
    BY <2>1, <2>2, <2>3
<1>2. TablesInv /\ [MCNext]_<<table, vars, registryVars>> =>
        [entry # Clients!Nil /\ entry' = Clients!Nil =>
           ~served \/ \E l \in Clients!Loop : pc[l] = "touch" /\ hold[l] = entry]_Clients!vars
  BY <1>1
<1>3. QED
  BY <1>2, TablesAlways, PTL DEF MCSpec, KeptWhileUsed, Clients!KeptWhileUsed

\* The one loop that writes to a client numbers its datagrams without a gap, or from
\* 0 with a later record (cs.go:70).
THEOREM TablesNumbersCorrect == MCSpec => NumbersRunOn
<1>1. TablesInv /\ [MCNext]_<<table, vars, registryVars>> =>
        [table = "clients" => Clients!RunsOn]_registryVars
  BY TablesStep DEF Clients!RunsOn, OfClients!RunsOn
<1>2. QED
  BY <1>1, TablesAlways, PTL DEF MCSpec, NumbersRunOn
===================================================================================
