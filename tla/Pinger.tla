-------------------------------- MODULE Pinger --------------------------------
(***************************************************************************)
(* The pinger of a forward (nodes/forward/pinger) and the goroutines about *)
(* it: uplinkService, which calls Ping; recvService, which reads ICMP;     *)
(* pingService, which sends the answers off; and Forward.close.  A step is *)
(* a locked section, a system call or an operation on the channel.         *)
(*                                                                         *)
(* A Ping that finds no request in flight to its server writes an echo of  *)
(* its own: the echo and its key carry the number of that Ping.  The code  *)
(* looks into a cache first, which nothing ever fills.                     *)
(***************************************************************************)
EXTENDS Naturals, FiniteSets

CONSTANTS Addr,     \* servers
          Cap,      \* capacity of Forward.pingCh
          Period,   \* recvService sweeps on every Period-th message
          MaxPings  \* bound on the PingServer datagrams received

ASSUME PingerAssumption ==
    Addr # {} /\ Cap \in Nat /\ Period \in Nat \ {0} /\ MaxPings \in Nat

Ping == 1..MaxPings
None == 0

VARIABLES
    pinged,    \* Pings called so far; the last one is in the hands of
    up,        \* uplinkService
    addr,      \* per Ping, its server
    inflight,  \* Pinger.inflight: per server its key, if any;
    infos,     \* per key, the Pings that wait on it,
    old,       \* keys that started more than three seconds ago
    replies,   \* echoes written whose reply may still come
    recv,      \* recvService: where it is,
    key,       \* the key it has found,
    todo,      \* the rest of that key's Pings,
    turn,      \* and its count of messages
    buff,      \* Forward.pingCh (its order plays no part),
    open,      \* and whether it is open
    ps,        \* pingService: where it is,
    sending,   \* and the Ping in its hands
    pclosed,   \* whether Pinger.closeErr is taken
    icmp,      \* whether Pinger.conn is open
    fclose,    \* Forward.close: how far its first call is
    proc,      \* the process: "up", "exited" or "panicked"
    ended,     \* Pings answered or given up
    excused,   \* servers that sent a message that was no reply, or lost a key to
               \* a sweep
    crossed    \* whether the reply to another echo has answered a key of a server
               \* that was not excused

pingVars == <<pinged, addr>>
keyVars  == <<inflight, infos, old>>
recvVars == <<recv, key, todo, turn>>
chanVars == <<buff, open>>
psVars   == <<ps, sending>>
endVars  == <<pclosed, icmp, fclose, proc>>
history  == <<ended, excused, crossed>>
vars == <<pingVars, up, keyVars, replies, recvVars, chanVars, psVars, endVars, history>>

TypeOK ==
    /\ pinged \in 0..MaxPings /\ addr \in [Ping -> Addr]
    /\ up \in {"read", "ping", "echo", "register", "close", "closing"}
    /\ inflight \in [Addr -> Ping \cup {None}] /\ infos \in [Ping -> SUBSET Ping]
    /\ old \subseteq Ping /\ replies \subseteq Ping
    /\ recv \in {"read", "found", "fan", "turn", "close", "done"}
    /\ key \in Ping \cup {None} /\ todo \subseteq Ping /\ turn \in 0..(Period - 1)
    /\ buff \subseteq Ping /\ Cardinality(buff) <= Cap /\ open \in BOOLEAN
    /\ ps \in {"range", "write", "close", "closing", "done"} /\ sending \in Ping \cup {None}
    /\ pclosed \in BOOLEAN /\ icmp \in BOOLEAN
    /\ fclose \in {"no", "chan", "links", "end"} /\ proc \in {"up", "exited", "panicked"}
    /\ ended \subseteq Ping /\ excused \subseteq Addr /\ crossed \in BOOLEAN

\* The server of a Ping yet to come.
AnyAddr == CHOOSE a \in Addr : TRUE

Init ==
    /\ pinged = 0 /\ addr = [i \in Ping |-> AnyAddr] /\ up = "read"
    /\ inflight = [a \in Addr |-> None] /\ infos = [i \in Ping |-> {}] /\ old = {}
    /\ replies = {}
    /\ recv = "read" /\ key = None /\ todo = {} /\ turn = 0
    /\ buff = {} /\ open = TRUE /\ ps = "range" /\ sending = None
    /\ pclosed = FALSE /\ icmp = TRUE /\ fclose = "no" /\ proc = "up"
    /\ ended = {} /\ excused = {} /\ crossed = FALSE

-----------------------------------------------------------------------------
(***************************************************************************)
(* uplinkService.                                                          *)
(***************************************************************************)
Receive(a) ==
    /\ up = "read" /\ proc = "up" /\ pinged < MaxPings
    /\ pinged' = pinged + 1 /\ addr' = [addr EXCEPT ![pinged + 1] = a]
    /\ up' = "ping"
    /\ UNCHANGED <<keyVars, replies, recvVars, chanVars, psVars, endVars, history>>

\* The connection to the gateways fails.
ReceiveFails ==
    /\ up = "read" /\ proc = "up"
    /\ up' = "close"
    /\ UNCHANGED <<pingVars, keyVars, replies, recvVars, chanVars, psVars, endVars,
                   history>>

\* Pinger.Ping joins a request in flight to the same server, or goes on to send.
\* (Mutated form: it always sends.)
JoinNever ==
    /\ up = "ping" /\ proc = "up"
    /\ up' = "echo"
    /\ UNCHANGED <<pingVars, keyVars, replies, recvVars, chanVars, psVars, endVars,
                   history>>
Join ==
    /\ up = "ping" /\ proc = "up"
    /\ LET k == inflight[addr[pinged]] IN
       IF k = None
       THEN up' = "echo" /\ UNCHANGED infos
       ELSE up' = "read" /\ infos' = [infos EXCEPT ![k] = @ \cup {pinged}]
    /\ UNCHANGED <<pingVars, inflight, old, replies, recvVars, chanVars, psVars,
                   endVars, history>>

\* Pinger.send writes the echo ...
Echo ==
    /\ up = "echo" /\ proc = "up" /\ icmp
    /\ replies' = replies \cup {pinged}
    /\ up' = "register"
    /\ UNCHANGED <<pingVars, keyVars, recvVars, chanVars, psVars, endVars, history>>

\* (it fails when the socket is closed, or for a reason of the network, and the
\* error of Ping closes the forward)
EchoFails ==
    /\ up = "echo" /\ proc = "up"
    /\ ended' = ended \cup {pinged}
    /\ up' = "close"
    /\ UNCHANGED <<pingVars, keyVars, replies, recvVars, chanVars, psVars, endVars,
                   excused, crossed>>

\* ... and enters its key, though the reply may have come.
Register ==
    /\ up = "register" /\ proc = "up"
    /\ inflight' = [inflight EXCEPT ![addr[pinged]] = pinged]
    /\ infos' = [infos EXCEPT ![pinged] = {pinged}]
    /\ up' = "read"
    /\ UNCHANGED <<pingVars, old, replies, recvVars, chanVars, psVars, endVars,
                   history>>

\* Three seconds pass.
Age(k) ==
    /\ proc = "up" /\ k \notin old /\ \E a \in Addr : inflight[a] = k
    /\ old' = old \cup {k}
    /\ UNCHANGED <<pingVars, up, inflight, infos, replies, recvVars, chanVars,
                   psVars, endVars, history>>

-----------------------------------------------------------------------------
(***************************************************************************)
(* recvService.                                                            *)
(***************************************************************************)
\* A message is looked up by its sender, whatever it is; echo names the echo it
\* replies to, None when it is another message.
Message(a, echo) ==
    /\ recv = "read" /\ proc = "up" /\ icmp
    /\ echo # None => echo \in replies /\ addr[echo] = a
    /\ replies' = replies \ {echo}
    /\ key' = inflight[a]
    /\ recv' = IF inflight[a] = None THEN "turn" ELSE "found"
    /\ excused' = IF echo = None THEN excused \cup {a} ELSE excused
    /\ crossed' = (crossed \/ (inflight[a] \notin {None, echo} /\ a \notin excused'))
    /\ UNCHANGED <<pingVars, up, keyVars, todo, turn, chanVars, psVars, endVars, ended>>
Stray(a) == Message(a, None)
Reply(a) == \E echo \in replies : Message(a, echo)

\* The key's Pings are read after the key has left the table.  (Mutated form:
\* only those it was made for.)
DeleteEarly ==
    /\ recv = "found" /\ proc = "up"
    /\ inflight' = [inflight EXCEPT ![addr[key]] = None]
    /\ todo' = {key} /\ recv' = "fan"
    /\ infos' = [infos EXCEPT ![key] = {}] /\ key' = None /\ old' = old \ {key}
    /\ UNCHANGED <<pingVars, up, replies, turn, chanVars, psVars, endVars, history>>
Delete ==
    /\ recv = "found" /\ proc = "up"
    /\ inflight' = [inflight EXCEPT ![addr[key]] = None]
    /\ todo' = infos[key] /\ recv' = "fan"
    /\ infos' = [infos EXCEPT ![key] = {}] /\ key' = None /\ old' = old \ {key}
    /\ UNCHANGED <<pingVars, up, replies, turn, chanVars, psVars, endVars, history>>

\* One after the other goes to the channel, or is dropped when that is full;
\* sending on a closed channel would be a panic.  (Mutated form: room for one
\* more than there is.)
RoomBeyond == Cardinality(buff) <= Cap
Room == Cardinality(buff) < Cap

Offer(i) ==
    /\ recv = "fan" /\ proc = "up" /\ i \in todo /\ open
    /\ todo' = todo \ {i}
    /\ recv' = IF todo = {i} THEN "turn" ELSE "fan"
    /\ IF Room THEN buff' = buff \cup {i} /\ UNCHANGED ended
               ELSE ended' = ended \cup {i} /\ UNCHANGED buff
    /\ UNCHANGED <<pingVars, up, keyVars, replies, key, turn, open, psVars, endVars,
                   excused, crossed>>

\* (Mutated form: one message too late.)
SweepsNever == turn = Period
Sweeps == turn = Period - 1

Stale == {a \in Addr : inflight[a] \in old}
Turn ==
    /\ recv = "turn" /\ proc = "up"
    /\ turn' = (turn + 1) % Period
    /\ IF Sweeps
       THEN /\ inflight' = [a \in Addr |-> IF a \in Stale THEN None ELSE inflight[a]]
            /\ infos' = [k \in Ping |-> IF k \in {inflight[a] : a \in Stale} THEN {} ELSE infos[k]]
            /\ ended' = ended \cup UNION {infos[inflight[a]] : a \in Stale}
            /\ excused' = excused \cup Stale
            /\ old' = {}
       ELSE UNCHANGED <<inflight, infos, old, ended, excused>>
    /\ recv' = "read"
    /\ UNCHANGED <<pingVars, up, key, replies, todo, chanVars, psVars, endVars,
                   crossed>>

\* The ICMP socket fails: recvService closes the pinger and is over.
MessageFails ==
    /\ recv = "read" /\ proc = "up" /\ ~pclosed
    /\ pclosed' = TRUE /\ recv' = "close"
    /\ UNCHANGED <<pingVars, up, keyVars, replies, key, todo, turn, chanVars, psVars,
                   icmp, fclose, proc, history>>

CloseIcmp ==
    /\ recv = "close" /\ proc = "up"
    /\ icmp' = FALSE /\ recv' = "done"
    /\ UNCHANGED <<pingVars, up, keyVars, replies, key, todo, turn, chanVars, psVars,
                   pclosed, fclose, proc, history>>

-----------------------------------------------------------------------------
(***************************************************************************)
(* pingService.                                                            *)
(***************************************************************************)
Take(i) ==
    /\ ps = "range" /\ proc = "up" /\ i \in buff
    /\ buff' = buff \ {i} /\ sending' = i /\ ps' = "write"
    /\ UNCHANGED <<pingVars, up, keyVars, replies, recvVars, open, endVars, history>>

Write ==
    /\ ps = "write" /\ proc = "up"
    /\ ended' = ended \cup {sending}
    /\ sending' = None /\ ps' = "range"
    /\ UNCHANGED <<pingVars, up, keyVars, replies, recvVars, chanVars, endVars,
                   excused, crossed>>

WriteFails ==
    /\ ps = "write" /\ proc = "up"
    /\ ended' = ended \cup {sending}
    /\ sending' = None /\ ps' = "close"
    /\ UNCHANGED <<pingVars, up, keyVars, replies, recvVars, chanVars, endVars,
                   excused, crossed>>

RangeEnds ==
    /\ ps = "range" /\ proc = "up" /\ ~open /\ buff = {}
    /\ ps' = "done"
    /\ UNCHANGED <<pingVars, up, keyVars, replies, recvVars, chanVars, sending,
                   endVars, history>>

-----------------------------------------------------------------------------
(***************************************************************************)
(* Forward.close.                                                          *)
(***************************************************************************)
\* Its first call calls Pinger.Close with a nil cause: a nil dereference, unless
\* the pinger is closed already.  (Mutated form: with the cause checked the way
\* it is meant.)
PingerCloseQuiet ==
    /\ fclose' = "chan" /\ pclosed' = TRUE /\ icmp' = FALSE
    /\ UNCHANGED proc
PingerClose ==
    IF pclosed THEN fclose' = "chan" /\ UNCHANGED <<pclosed, icmp, proc>>
               ELSE proc' = "panicked" /\ UNCHANGED <<fclose, pclosed, icmp>>

\* A downlinkService may be the caller, too.  The model has that only once the
\* pinger is closed: before, it is the panic that the others reach.
CloseFirst ==
    /\ proc = "up" /\ fclose = "no"
    /\ \/ up = "close" /\ up' = "closing" /\ UNCHANGED ps
       \/ ps = "close" /\ ps' = "closing" /\ UNCHANGED up
       \/ pclosed /\ UNCHANGED <<up, ps>>
    /\ PingerClose
    /\ UNCHANGED <<pingVars, keyVars, replies, recvVars, chanVars, sending, history>>

CloseChan ==
    /\ proc = "up" /\ fclose = "chan"
    /\ open' = FALSE /\ fclose' = "links"
    /\ UNCHANGED <<pingVars, up, keyVars, replies, recvVars, buff, psVars, pclosed,
                   icmp, proc, history>>

\* Links.Close returns if there are no links (ForwardLinks), and the caller's
\* service with it.
CloseLinks ==
    /\ proc = "up" /\ fclose = "links"
    /\ fclose' = "end"
    /\ proc' = IF up = "closing" THEN "exited" ELSE proc
    /\ ps' = IF ps = "closing" THEN "done" ELSE ps
    /\ UNCHANGED <<pingVars, up, keyVars, replies, recvVars, chanVars, sending,
                   pclosed, icmp, history>>

\* A later call returns at once.
CloseAgain ==
    /\ proc = "up" /\ fclose # "no"
    /\ \/ up = "close" /\ proc' = "exited" /\ UNCHANGED ps
       \/ ps = "close" /\ ps' = "done" /\ UNCHANGED proc
    /\ UNCHANGED <<pingVars, up, keyVars, replies, recvVars, chanVars, sending,
                   pclosed, icmp, fclose, history>>

-----------------------------------------------------------------------------
Uplink == Join \/ Echo \/ EchoFails \/ Register
RecvStep == Delete \/ (\E i \in Ping : Offer(i)) \/ Turn \/ CloseIcmp
PingService == (\E i \in Ping : Take(i)) \/ Write \/ RangeEnds

Next ==
    \/ \E a \in Addr : Receive(a) \/ Stray(a) \/ Reply(a)
    \/ \E k \in Ping : Age(k)
    \/ Uplink \/ RecvStep \/ PingService
    \/ ReceiveFails \/ MessageFails \/ WriteFails
    \/ CloseFirst \/ CloseChan \/ CloseLinks \/ CloseAgain

Spec == Init /\ [][Next]_vars

\* Goroutines run on, time passes, and somebody keeps sending ICMP messages to the
\* host (of any kind: the socket gets them all).  No echo has to be answered, no
\* datagram has to arrive and nothing has to fail.
Fairness ==
    /\ WF_vars(Uplink) /\ WF_vars(RecvStep) /\ WF_vars(PingService)
    /\ \A k \in Ping : WF_vars(Age(k))
    /\ WF_vars(\E a \in Addr : Stray(a))

FairSpec == Spec /\ Fairness

-----------------------------------------------------------------------------
(***************************************************************************)
(* Properties.                                                             *)
(***************************************************************************)
InHand == IF up \in {"ping", "echo", "register"} THEN {pinged} ELSE {}
Waiting == UNION {infos[inflight[a]] : a \in {b \in Addr : inflight[b] # None}}
Places == <<InHand, Waiting, todo, buff, {sending} \ {None}, ended>>

\* No Ping is lost or answered twice: between its call and its end it is in
\* exactly one place, though uplinkService may join it to a key that recvService
\* has found and is about to delete (pinger.go:108, 156).
NoneForgotten ==
    /\ UNION {Places[n] : n \in DOMAIN Places} = 1..pinged
    /\ \A m, n \in DOMAIN Places : m # n => Places[m] \cap Places[n] = {}

\* A round trip is measured with the reply to another echo than the key's own only
\* at a server that has sent some other message or has let an echo go unanswered
\* until the sweep: the code compares neither identifier nor sequence number
\* (pinger.go:153), and the one request per server has to make up for it.
OwnEcho == ~crossed

\* Nobody sends on the closed channel: recvService is done when Forward.close gets
\* to close(pingCh) (forward.go:95).  What sees to that is the panic before it.
NoSendOnClosed == recv = "fan" /\ todo # {} => open

\* No Ping waits for ever behind an echo that is never answered, or whose reply came
\* before its key was entered: if messages of any kind go on coming, the key goes
\* in the end, by the sweep if nothing else (pinger.go:176).
KeySettles ==
    \A a \in Addr : inflight[a] # None ~> (inflight[a] = None \/ pclosed \/ proc # "up")
===============================================================================
