# Verification of anton-planet-accelerator

TLA+ models of the accelerator in `src/`, the TLC runs that check them on small
instances, and TLAPS proofs of what matters most for every instance.
`PROJECT.json` names every component, run, theorem, hazard and finding, and for
every definition the source lines it stands for.

1. [The system](#1-the-system)
2. [Modules](#2-modules)
3. [Runs: questions, bounds, results](#3-runs)
4. [Proofs](#4-proofs)
5. [What the code does that its texts do not say](#5-findings)
6. [What is not modelled](#6-not-modelled)
7. [Plan](#7-plan)

## 1. The system

A game's packets take a detour that is faster than the direct way:

    game -> client -> gateway -> forward -> game server
    game <- client <- gateway <- forward <- game server

The **client** captures packets of the game process on the player's machine and
wraps them in an 18-byte header (`bvvd`); a **gateway** writes the client's
address into the header and passes it on; a **forward** unwraps the packet, and
sends it from a local port of its own. Both legs between nodes are UDP
(`nodes/nodes.go`). Beside data, the header carries seven kinds of message, by
which a client finds its gateway and forward and measures the path.

| Component | State it keeps | Operations | Speaks with | What is hard | What makes it correct |
|---|---|---|---|---|---|
| client, packet loops (`client.go`) | sockets, started game, close flag | `start`, `uplinkService`, `downlinkServic`, `NetworkStats`, `RouteProbe`, `close` | gateways by datagram; queue, routes, recorder by call | the loops run before `start` is done; close at any time; answers late, twice, out of order | nothing sent without a route; injected packets belong to the host's flows |
| client, routes (`route.go`) | default route, table server -> route, probes in flight | `Init`, `Match`, `probe`, `probeRoute` | uplink loop, one goroutine per probe | two mutexes, each taken several times in a call | one probe per server; a server keeps its route |
| client, trunk recorder (`message.go`) | initial and last path, two flags, a time | `Trunk`, `Update` | uplink loop, statistics | time-outs between updates and questions | every change is reported; an answer is one path |
| message queue (`internal/heap`) | ring, mutex, condition variable | `Put`, `MustPut`, `PopTail`, `Pop`, `PopDeadline` | downlink loop, requests | waiters with different predicates; timers outside the mutex; wrap-around | a bounded FIFO queue; no waiter sleeps beside its message; deadlines hold |
| gateway, loops (`gateway.go`) | sockets | `uplinkService`, `donwlinkService`, `AddForward` | clients, forwards | broadcast and named pings, a registry that grows | a learned route is one it will relay on |
| registries of peers (`gateway/cs.go`, `gateway/fs.go`, `forward/gs.go`) | counters and loss statistics per client, forward and gateway | `Client`, `keepalive`, `Gateway`, `Get`, `Forwards`, `Add` | both loops of a node | get-or-create under two locks, keepalive against pointers in use | a sequence starts over seldom, and only for a known reason; a peer in use is not forgotten |
| forward, loops (`forward.go`) | sockets, close flag | `uplinkService`, `downlinkService`, `pingService`, `close`, `Serve` | gateways, links, pinger | one goroutine per link; failure of one flow | a failing or expiring flow does not end the others |
| forward, links (`links/`) | table endpoint -> link; per link raw socket, local port, traffic counter | `Link`, `Send`, `Recv`, `keepalive`, `del`, `Close` | kernel, both loops, timers | look up, create and enter in three steps; ports recycled; closing from four sides | one link per flow; one port per link; no payload to another's flow |
| forward, pinger (`pinger/`) | requests in flight per server, channel | `Ping`, `send`, `recvService` | ICMP, `pingService` | the echo may overtake its registration; full channel | no request is lost or waits for ever; a reply answers the echo it is a reply to |
| statistics (`internal/stats`) | unfolded sequence, window | `Expand`, `ID`, `PL`, `reset` | all loops and all who ask | one-byte ids; disorder; windows shared by askers | the reported loss is the loss |
| pseudo-TCP connections (`conn/tcp`) | table peer -> connection; per connection handshake state, first packet, sequence numbers | `WriteToAddrPort`, `ReadFromAddrPort`, `Send`, `Recv`, `keepalive` | nodes above, raw sockets below | lost and old packets in the handshake; entries overwritten or deleted under a goroutine that holds them | an end is established only by its counterpart; a timer deletes only its own |
| wire format, checksums, UDP connections (`bvvd`, `internal/msg`, `internal/checksum`, `conn/udp`) | — | encode, decode, send, receive | all | — | fields survive |

The hazards found at particular lines are listed in `PROJECT.json` under
"hazards", each with the properties that would catch it going wrong.

## 2. Modules

| Module | Models | Grain |
|---|---|---|
| `Relay` | client, gateway, forward and servers together: data and messages from end to end | one action per iteration of a service loop, from the read of a datagram to its last write |
| `ClientUplink` | how the client chooses the path of a packet: start, the route table, probes, the recorder | one action per locked section |
| `TrunkRoute` | the trunk recorder, a part of `ClientUplink` (`T == INSTANCE TrunkRoute`) | one action per call (a mutex covers it) |
| `MsgHeap` | the message queue | one action per locked section; `PopDeadline` and its timer in single steps |
| `MsgQueue` | what the queue promises: a bounded FIFO queue with removal of the first wanted element | one action per operation |
| `ForwardLinks` | the forward's links and its close | one action per lock, system call or atomic of a goroutine |
| `LossStats` | ids, their unfolding, and the loss window | one action per call (a mutex covers it) |
| `Pinger` | the forward's pinger, `pingService` and the part of `Forward.close` that concerns them | one action per locked section, system call or channel operation |
| `PseudoTCP` | the pseudo-TCP connections between a client and a gateway, both ends | one action per locked section; the timer's comparison by itself |
| `Registry` | the record a node keeps of a peer: `Clients` of the gateway, `Gateways` of the forward | one action per locked section or atomic |
| `RelayProofs`, `MsgHeapProofs`, `ClientUplinkProofs`, `ForwardLinksProofs`, `PingerProofs`, `LossStatsProofs`, `RegistryProofs` | theorems about the module in the name | |
| `PeerTablesProofs` | theorems about `PseudoTCP`, and about the tables of `MCPeerTables` side by side | |
| `MC...` | the instances that TLC checks | |

**Relay.** A network variable holds the datagrams ever sent on a leg; reading one
leaves it there. So a datagram may be lost (never read), duplicated (read again)
or overtaken, which is what UDP allows and no more. `GatewayUplink` and
`GatewayDownlink` are the two loops of `gateway.go`, one disjunct per message
kind; `ForwardEcho`, `ForwardPing`, `ForwardData` and `ForwardNewLink`
split the loop of `forward.go` by kind; `LinkRecv` is
`downlinkService` with `Link.Recv`. Whatever closes a link (`LinkCloses`: keepalive, an
error of `Recv`) or the whole forward (`ForwardCloses`: any other error) may do so at any
moment, traffic or not, since in the code an error, or a close decided on before the
traffic came, spares no link. `Capture`, `CaptureProbe` and `ClientDownlink`
are the client's loops; `Start`, `NetworkStats`, `Answer` and `Timeout` its
requests, with the predicates that pop their answers from the queue. A payload is
a tag that names the flow it was produced for. No action reads it; properties
compare it with the flow it was delivered to. Message ids are drawn fresh (they
are 32-bit random numbers in the code). Links and client paths are atomic here
because `ForwardLinks` and `ClientUplink` have their steps.

**ClientUplink.** `start` has a step for each assignment that another goroutine
can see: the recorder, `inited`, the default route, and the switch that lets
`Capture` return packets. `Match` and `probe` are cut where they release a lock
(`match`, `probe`, `claim` or `clear`, `fetch`), `probeRoute` where it has stored
the route but not yet marked the probe done. Closing may happen between any two.

**MsgHeap.** `Put`, `MustPut`, `PopTail` hold the mutex throughout. A Popper goes
through `lock`, `check`, `sleep`, `asleep` and `flag`, because the timer of
`PopDeadline` sets its flag and broadcasts without the mutex; `LateBroadcast` is
the broadcast of a timer whose call has already returned. `Deleted` is `del` with
its copies, as the code has them.

**ForwardLinks.** `stage` says how far `Link.close` has come: raw socket,
listener (the local port), table entry. The first of keepalive, failed `Send`,
failed `Recv` and `Links.Close` does the work (`Win`). `up` and `dl` are where the
goroutines of `uplinkService` and `downlinkService` are. `keepalive` is `Tick`, the swap of
the counter, and `Expire`, the close it decides on; a segment sent or received between the
two does not save the link. `CreateFails` is any error of `newLink`. The process can be ended
by `Serve` returning and by the pinger's panic in `Forward.close`.

**LossStats.** `last` and `idx` are `LoopIds`, `maxIdx`, `minIdx` and `count` its
window; `lastNumber`, `got` and `repeats` record what really arrived.

**Pinger.** A Ping is named by a number; an echo and its key have the number of the
Ping that wrote it. `up`, `recv` and `ps` are where `uplinkService`, `recvService` and
`pingService` are. `Message` looks a key up by its sender, as the code does, be it
the `Reply` to an echo or a `Stray` message (the raw socket gets all ICMP, errors
and foreign echoes included); only the history variables know which. `Delete` reads the
key's Pings after the key has left the table, `Offer` gives them to the channel one
by one, `Turn` counts messages and sweeps. The cache that `Ping` looks into first is
never filled, so that branch, which could block on the channel, is dead.
`PingerClose` is the nil dereference of `Pinger.close(nil)`, which spares only a pinger
that `recvService` has closed before.

**PseudoTCP.** `keepalive` is `Tick`, the comparison, which takes no lock, and `Delete`, the
locked deletion it decides on. (Its two atomic loads, of `sndNxt` and `rcvNxt`, are one
step: a packet that moves one of them in between gives no result that `Moves` does not
allow, and one that moves both can only put the deletion off by one more tick.) `eps` is the table of each end, `conn` the connections ever made, so that
a goroutine may hold one that has left the table. Initial sequence numbers, 32-bit
random numbers in the code, are the connections' own numbers, which never collide. Of
later numbers `keepalive` only looks at whether `sndNxt &^ rcvNxt` is what it was at
the last tick; sending and receiving may change that or change it back (`Moves`). A
packet once sent may be read at any time, again, or never; that an ACK is gone for
good is a step (`Lose`), because a property speaks of it. What the accepting end
keeps of its first packet is left out, since it never sends it.

**Registry.** One peer's entry, the records made for it, and the loops that hold
one. With `Forgets` it is the gateway's `Clients`, without it the forward's
`Gateways`, which have no keepalive. The loss statistics in a record are
`LossStats`; the module has its downlink number.

## 3. Runs

| Run | Instance | Distinct states | Question and answer |
|---|---|---|---|
| `relay_data` | 2 clients, 1 gateway, 1 forward, 2 servers, 3 flows, 2 local ports, 2 server segments | 219 000 | Do payloads reach their flow? `FlowIsolation`, `CrossTalkNeedsPortReuse`, `ServerGetsItsOwn` hold. |
| `relay_control` | 1 client, 2 gateways, 1 forward that joins either at any time, 1 play flow, 2 requests | 576 000 | Are learned routes usable, and accepted answers answers? `RouteUsable`, `AnswerFits`, `ReturnPath` hold. |
| `heap` | ring of 3, one goroutine for each operation, two predicates, one timer | 457 000 | Is the heap a queue? Yes except for deletions from a wrapped ring (`QueueButForDel`); `NoEmptySlot`, `WaiterSound`, `OkMeansMatch` hold. Does room wake a blocked `Put`? Unless a `Pop` makes it (`RoomWakesPutter`). |
| `heap_order` | the same | violation | Is it a FIFO queue? No (section 5). |
| `heap_deadline` | ring of 2, one producer, one `PopDeadline` | violation | Does a deadline end the call? No (section 5). |
| `forward_links` | 2 endpoints, 2 local ports, 2 links ever | 923 000 | Is the link table right under all interleavings? `OneLinkPerEndpoint`, `OwnLocalPort`, `DeletesOwnEntry`, `IdleCloses` hold; `CloseHangs`, too. |
| `forward_serve` | 1 link ever | violation | Does the service survive an expiring link? No (section 5). |
| `client_uplink` | 2 servers, 2 probe goroutines, 2 paths without a common node | 541 000 | Is the path of a packet always right? `NeverToNowhere`, `OneProbePerServer`, `PathIsKept`, `MeasuresUsedPath`, `ChangesAreReported` hold. |
| `loss` | ids 0..11 (near: less than 3), 21 datagrams, disorder of 2, 1 repeat | 925 000 | Is the reported loss exact? `LossExact` holds. |
| `loss_burst` | the same ids, in order, gaps of up to 5 | violation | Are indexes counted twice only for repeated ids? No (section 5). |
| `pinger` | 2 servers, 3 Pings, a channel of 1, a sweep on every second message | 1 288 000 | Is a Ping ever lost, answered twice, or stuck? No (`NoneForgotten`, `KeySettles`). `OwnEcho` says when a round trip may be wrong, `NoSendOnClosed` that the channel is closed only when nobody sends. |
| `peer_tables` | 1 writer and 1 reader at each end, 3 connections; 2 and 3 loops, 4 records, numbers 0..2 | 1 742 000 | What do overwritten and expired entries of a peer's table do? `AcceptedByPeer`, `NilSendNeedsTwo`, `SilentLosesEntry`, `LostAckIsFatal`, `OneRecordPerLoop`, `KeptWhileUsed`, `NumbersRunOn` hold. |

Why the bounds are enough for what they are to show:

- `relay_data`: three flows pairwise differ in one header field (client or server)
  and compete for two ports, so every rewrite that drops a field, and every reuse
  of a port, shows. Two distinct server segments allow a late answer beside a
  current one. The run starts when both clients have started, as the other run
  covers starting. `Flow`s are not play data, so the default route serves them.
- `relay_control`: two message ids let a second request (probe or statistics) run
  among answers to the first (a third does not fit; that a request repeated under yet
  another id gets no old answer is the theorem `AnswerFitsCorrect`); two gateways let answers come from the wrong one;
  the forward registered with one gateway only is the case `RouteUsable` is about.
  Gateways and ids are interchangeable, hence the symmetry.
- `heap`: with three slots there are wrapped rings with start in the first,
  middle and last slot, and elements on both sides of a deletion; two Poppers
  wait for different values.
- `forward_links`: two links ever are a link and its successor, for the same
  endpoint or for the same port; two endpoints are a flow and another that takes its
  port. `CreateFails` needs no lack of ports. `MaxLinks`
  stops the run, not the system: a second successor meets the same table.
- `client_uplink`: two servers for two probes at once, two goroutines for two
  probes of one server. The table, the flags and `inflight` take all their values.
- `loss`: twelve ids keep the proportions of 256 (near is a third), 21 numbers
  wrap almost twice, and the reset may fall anywhere.
- `pinger`: two Pings are one that writes an echo and one that joins its key, and
  with a third a new key meets a late reply or the loser of a full channel. Real
  values are 64 for the channel and 256 for the sweep; what counts is that the
  channel can be full and that messages come that do not sweep.
- `peer_tables`: three connections are a connection and its successor at one end, and
  the other end's, or two of one end at once (a reader and a writer both find no
  entry). Four records are one more than there are loops, so `OneRecordPerLoop` can
  fail. The three tables share no state; a behaviour is about one of them, chosen in
  the initial state, so that their states add up and do not multiply.

Deadlock is checked in the runs of `Relay` and `MsgHeap`, where some action is
always possible (a datagram may be read again; an operation of the queue may be
called again). The other models can stop rightly, and their configurations say
so: bounded inputs, connections or records are used up, and a process that is closed
or has panicked does nothing more.
That nobody waits for ever beside what it waits for is stated as `WaiterSound`
and by the liveness properties.

Fairness is assumed in three runs. `MsgHeap!Fairness`: a goroutine that can go on
again and again does (strong fairness, because `sync.Mutex` hands the lock to a
starving waiter), timers run (weak fairness), and no caller need ever come back.
`ForwardLinks!Fairness`: goroutines and timers go on (weak fairness), also from the
timer's look at the counter to its close; no datagram need arrive and nothing need fail. `IdleCloses` is thus about links without traffic,
and excuses itself when the forward closes, since that hangs. `Pinger!Fairness`:
goroutines go on and time passes (weak fairness), and somebody sends ICMP messages to
the host again and again, since the sweep is driven by nothing else. Without that
last assumption a key may stay for ever: on a host that gets no ICMP at all, a
server whose one echo was lost is never pinged again. No echo need be answered.

`CloseHangs` and `LostAckIsFatal` are unusual properties: they state a weakness of the
code as a fact. The first states a deadlock of the code as a fact
(`Links.Close` waits for its own mutex through `Link.close`), so that the models
which rely on "closing a forward never ends" keep in step with the code. Its
mutant is the correction. The second says that when the one ACK of a handshake is
lost, nothing short of the client's silence brings the flow back; its mutant is again
the correction, an established end that answers the second half of the handshake once
more.

`NoSendOnClosed` holds for a reason nobody intended: before `Forward.close` gets to
`close(pingCh)`, it calls `Pinger.Close`, which panics unless `recvService` is over.
Its mutant is the obvious repair of that panic, which makes the send on the closed
channel possible.

Every property of a passing run has a mutant: a plausible slip in the code, beside
the definition it replaces, under which TLC finds the property violated.

## 4. Proofs

The theorems hold for all values of the constants, under the `ASSUME`s of the
module they are about; these say no more than that model values are distinct,
bounds are numbers, and there is an address to send to and a port to send from.
Every property that a passing run checks is the conclusion of a theorem, liveness
excepted. Hardly any of the invariants is inductive: each module of proofs first states what must be added to it, as
named conjuncts with a sentence each, and then proves one lemma for each conjunct, with a step
for each action.

**`RelayProofs`.** `TypeOK`, `FlowIsolation`, `CrossTalkNeedsPortReuse` and
`ServerGetsItsOwn`, for any number of nodes, flows and ports. None of them is
inductive: that an injected segment answers a flow of the host follows from what
each leg may carry. The strengthening (`DataInv`) says so leg by leg: a data packet on the
way up has the header of its tag's flow (`toGateway`, with the sender as client
from the gateway on), a link's endpoint was opened, a segment to a server left
from a link of its flow, a segment from a server answers one to it, and a packet
on the way down has the header of an opened flow and a tag that reached the same
server socket from the same local port. Each step of `Next` preserves each part;
those which change only messages leave data legs alone.

The other half of the module is about messages. `RouteUsable`, that the gateway of a
learned route knows its forward, is inductive only with what a message under way shows of
the nodes it came through: a ping on its way back through a gateway names a forward which
that gateway has heard of, and so does an answer in the client's queue (`Told`,
`Queued`). `AnswerFits` needs that every message with a request's id, on any leg, in any
copy, is of the kind asked for and about the server, or the gateway and forward, asked about
(`Asked`, `Passed`, `Waits`, `Echoed`).
Together they are `ControlInv`. `ReturnPath` combines
both halves (`PathInv`): a link answers through the gateway of the segment that made it,
and that segment was on its flow's route, which does not change once it is
known (`OnRoute`).

**`MsgHeapProofs`.** `TypeOK`, `NoEmptySlot` and `WaiterSound`, for every capacity
and every set of goroutines. The invariant (`HeapInv`) adds who holds the mutex at
each step of a Popper (`LockHeld`) and that a Popper about to sleep has seen every
element and wants none (`SeenAll`); `WaiterSound` follows, since no element can
enter before the mutex is released. `NoEmptySlot` survives the faulty `del`
because every live slot after it holds what some live slot held before, if not
always the right one (lemma `DeletedLive`). `OkMeansMatch` follows from what the
value of a Popper is between `del` and the look at the timer's flag (`FlagMeans`).
`RoomWakesPutter`, an action property, needs only the types.

`QueueButForDelCorrect` is the refinement: under the mapping `queue = Contents`, the
live slots read around the ring, every step of `MsgHeap` is a step of `MsgQueue` or leaves the
queue alone, except `del` from a ring that wraps around and does not start in its last slot.
Its lemmas say what each change of the ring is as a change of a sequence: storing appends
(`StoreAppends`), popping or dropping the oldest takes the head (`DropsOldest`), and `del`, where it is right, removes one element and is that of the first
wanted one (`DeletedRightly`, `DeleteTakesFirst`).

**`ClientUplinkProofs`.** All of `TypeOK`, `NeverToNowhere`, `OneProbePerServer`,
`PathIsKept`, `MeasuresUsedPath` and `ChangesAreReported`. The invariant
(`UplinkInv`) ties the four goroutines together: how far `start` is determines what
is set (`StartSound`); a packet past `match` has a path from the table or the
default (`UplinkSound`); a probe that runs is marked in `inflight`, alone for its
server, and its server has no route until it stores one (`ProbeSound`); the flags
and the last path of the recorder agree with what was told (`FlagsSound`,
`TrunkSound`). `PathIsKept`, an action property, follows from `ProbeSound`: the only
step that writes the table writes where there was nothing. TLC checks `UplinkInv`
on the instance of `client_uplink`.

**`ForwardLinksProofs`.** `TypeOK`, `OneLinkPerEndpoint`, `OwnLocalPort`,
`DeletesOwnEntry` and `CloseHangs`, for any number of links, endpoints and ports. The
invariant (`LinksInv`) has the reason why get-or-create in three steps is safe here:
`uplinkService` alone fills entries it has found empty, and until the forward closes, a
link that is not quite closed is its endpoint's entry or on its way there (`Reachable`).
That in turn needs that `uplinkService` waits for a link that its own failed `Send` closes
(`SendWaits`). A port belongs to a listener, which outlives the raw socket
(`PortsApart`). `CloseHangs` holds since the mutex that `Links.Close` holds is the one that
the link it closes waits for (`HeldWhileClosing`).

**`PingerProofs`.** `TypeOK`, `NoneForgotten`, `OwnEcho` and `NoSendOnClosed`, for any
number of servers and Pings, capacity and period of the sweep. `PingerInv` says that each
Ping so far is in exactly one of six places (`OnePlace`), that only the key in the table has
Pings waiting on it, so that one joined to a key between recvService's look-up and its
deletion goes with the others (`KeySound`), that a server that answers once and sends nothing
else has one reply to come (`OneEcho`), and in which order pinger, loop and
channel are closed (`ClosedInOrder`).

**`LossStatsProofs`.** `TypeOK` and `LossExact`, for any number of ids, datagrams and
repeats, under a hypothesis, `SmallDisorder`: of two datagrams received one after the other,
neither was sent a third of the ids or more before the other. This is the "small scale
disorder" that the comment at `stats.go:28` asks for, the instance of `loss` satisfies
it, and `loss_burst` shows that it cannot be dropped. The invariant is that of unfolding: an
index is its datagram's number moved by an offset that only the first datagram and the first
after a reset change (`Unfolded`), and the ends of the window are the indexes of the first and
last number counted (`Window`). What one-byte arithmetic does is in lemmas (`Division`,
`OneRemainder`, `IdOfStep`).

**`PeerTablesProofs`.** First `PseudoTCP`: `TypeOK`, `AcceptedByPeer`, `NilSendNeedsTwo`,
`SilentLosesEntry` and `LostAckIsFatal`, for any number of goroutines and
connections. In `ConnInv`, a goroutine holds a connection of its own end (`HoldsOwn`);
a packet, sent or read, late or repeated, was sent by somebody who had reason to, and what an
end knows of the other it knows from such a packet (`Justified`); and a
connection with a timer is its table's entry, unless that was overwritten (`TimerIsEntry`).
`LostAckIsFatal` is proved with one lemma for each thing a goroutine may do to a gateway
that hears nothing (`DeafKept` and those that follow).

Then the three tables of the run `peer_tables` side by side: `TablesTypeOK`,
`OneRecordPerLoop`, `KeptWhileUsed` and `NumbersRunOn`, for any size and bound of the
registries, from the theorems of the next module, instantiated for the gateway's clients and
for the forward's gateways.

**`RegistryProofs`.** The same of `Registry` alone, for any sets of loops. `EnteredOnce`
counts the records entered together with the loops that are about to enter one; `MarkedWhileUsed`
says that once a loop holds a record which it has asked for since the last tick,
the entry is marked or about to be; `DrawnInOrder`, that the loop that draws numbers meets
records in the order of their making. The module is not the root of a run, so what it needs
of its constants is a hypothesis of each theorem: that there are finitely many loops
(`Sizes`), and, for `NumbersRunOn`, that one of them draws (`OneDrawer`), as in the gateway.
`PeerTablesProofs` discharges both.

Only model-checked: liveness (`IdleCloses`, `KeySettles`, and the violated
`DeadlineReturns`), which is out of the prover's reach and stays with TLC. The violated
properties of section 5 are counterexamples and need no proof. That a probe ends is not
claimed at all: it rests on a deadline that can be missed (section 5).

## 5. Findings

- **The heap loses messages** (`heap_order`; `heap.go:125-134`). A `Pop` from a ring
  that wraps around shifts slots it should leave alone: one message disappears,
  another is delivered twice. `QueueButForDel` says that nothing else breaks the
  queue.
- **A deadline can be missed** (`heap_deadline`; `heap.go:101-104`, `163-168`). The
  timer raises its flag and wakes the waiters without the mutex. Between the
  waiter's look at the flag and its `Wait`, the wake-up is lost, and the call
  returns only when some later message wakes it.
- **An expiring link ends the forward** (`forward_serve`; `forward.go:182-185`). The
  comment at `forward.go:172` wants the error of a closed link ignored; the code
  returns from `uplinkService` and with it from `Serve` and `main`. In the run's shortest
  trace a segment finds no link and makes one, keepalive looks at the counter before the
  segment is counted, and closes the link before it is written. For a link found in the
  table after an idle interval the steps are the same.
- **A burst of loss is reported as none** (`loss_burst`; `stats.go:73`). A gap of 85
  ids or more sends the index backwards by as much; indexes are then counted
  again, and `PL` takes the window for one with repeated ids.

## 6. Not modelled

Capture and injection drivers, process look-up, locations and their HTTP queries,
pcap and logs, byte layout of headers, the user interface and the unfinished
administer: I/O and formatting without state of their own. `MatchForward`,
`PLStats2`, `Range`, `RangeDeadline` and `Size` are not called outside tests; the
checksum functions are pure arithmetic on bytes without a state, used in debug
checks and for rewritten packets. `Speed` is a counter for display. Debug builds drop
packets on purpose; to the models that is loss.

Of `conn/tcp`, the raw sockets (`ipconn_*.go`) are a network to the model, and an
error of theirs, which ends the node's service, is left out. `nodes.go` selects UDP
for both legs, so `PseudoTCP` is about code that `conn.Bind` offers and the nodes do
not use at this commit; `Relay` has UDP's network. With a second writer at the
client TLC finds no violation either, but takes longer than a run should.

## 7. Plan

Done in the order of importance: `Relay` first (what the system is for), then the
places where its atomic steps hide concurrency (`MsgHeap`, `ForwardLinks`,
`ClientUplink`, `Pinger`, `Registry`), then `LossStats` and `PseudoTCP`. To come:

1. Proofs: `Relay` over the steps of `ForwardLinks` instead of its atomic links.
2. `MsgHeap`: the message that is deleted by a call that reports a time-out
   (`heap.go:108`).
3. `Registry` composed with `LossStats`: the loss a client reports when its gateway's
   numbers start over.
4. `Checksum` over small words: the forward's incremental update against
   recomputation, and the zero of UDP.
