------------------------------ MODULE ClientUplink ------------------------------
(***************************************************************************)
(* How the client chooses the path of a packet (nodes/client).  Four kinds *)
(* of goroutine share the route table and the trunk recorder:              *)
(*                                                                         *)
(*   start           start() of client.go: finds the default path, then    *)
(*                   makes the recorder, initialises the route and lets    *)
(*                   the game's packets in, in that order;                 *)
(*   uplinkService   captures a packet, matches its server to a path and   *)
(*                   sends it; started BEFORE the default path is known;   *)
(*   probeRoute      one per server being probed, started by Match;        *)
(*   NetworkStats    asks the recorder which path to measure.              *)
(*                                                                         *)
(* Match and probe take their two mutexes several times in one call, so    *)
(* each locked section is a step of its own (`up.at').  What a probe over  *)
(* the network answers is any path, a timeout, or the error of a closed    *)
(* client; Relay models the exchange itself.                               *)
(***************************************************************************)
EXTENDS Naturals

CONSTANTS Server,    \* game servers
          Gateway, Forward,
          Path,      \* <<gateway, forward>> pairs that answer probes
          NoAddr,    \* the zero netip.AddrPort
          Prober     \* probeRoute goroutines (a bound)

NoPath == <<NoAddr, NoAddr>>

ASSUME PathAssumption == Path \subseteq Gateway \X Forward
ASSUME NoAddrAssumption == NoAddr \notin Gateway

VARIABLES fix,       \* config.FixRoute
          start,     \* where start() is
          home,      \* its local gaddr, faddr
          inited,    \* route.inited
          default,   \* route.defaultGateway, route.defaultForward
          started,   \* game.started
          routes,    \* route.routes; NoPath: no entry
          inflight,  \* route.inflight; "none": no entry
          up,        \* uplinkService and its locals
          prober,    \* the probeRoute goroutines
          closed     \* closeErr

\* The recorder of TrunkRoute, c.trunk.
VARIABLES initial, lastWasInit, fresh, updated, gaddr, faddr, told, heard

T == INSTANCE TrunkRoute

trunkVars == <<initial, lastWasInit, fresh, updated, gaddr, faddr, told, heard>>
startVars == <<start, home, inited, default, started>>
routeVars == <<routes, inflight>>
vars == <<fix, startVars, routeVars, up, prober, closed, trunkVars>>

-----------------------------------------------------------------------------
Result == {"found", "timeout", "closed"}

UpAt == {"capture", "match", "probe", "claim", "clear", "fetch",
         "update", "write", "end"}

Uplink == [at : UpAt, server : Server, play : BOOLEAN, to : Path \cup {NoPath}]

\* Only an answer is stored.
Probing == {p \in [at : {"idle", "asking", "store", "finish"}, server : Server,
                   got : Path \cup {NoPath}, result : Result] :
              p.at = "store" => p.got # NoPath}

TypeOK ==
  /\ fix \in BOOLEAN /\ inited \in BOOLEAN
  /\ started \in BOOLEAN /\ closed \in BOOLEAN
  /\ start \in {"ping", "trunk", "swap", "assign", "game", "done", "failed"}
  /\ home \in Path \cup {NoPath}
  /\ default \in Path \cup {NoPath}
  /\ routes \in [Server -> Path \cup {NoPath}]
  /\ inflight \in [Server -> {"none", "running"} \cup Result]
  /\ up \in Uplink
  /\ prober \in [Prober -> Probing]
  /\ T!TypeOK

Init ==
  /\ fix \in BOOLEAN
  /\ start = "ping" /\ home = NoPath
  /\ inited = FALSE /\ default = NoPath /\ started = FALSE
  /\ routes = [s \in Server |-> NoPath]
  /\ inflight = [s \in Server |-> "none"]
  /\ up \in {u \in Uplink : u.at = "capture" /\ ~u.play /\ u.to = NoPath}
  /\ prober \in [Prober -> {p \in Probing : /\ p.at = "idle"
                                            /\ p.got = NoPath
                                            /\ p.result = "timeout"}]
  /\ closed = FALSE
  /\ T!Init

-----------------------------------------------------------------------------
(* start() *)

StartGoes(from, to) == start = from /\ start' = to

\* boardcastPingForward answers, or it times out or finds the client closed and
\* start returns the error.
StartPing ==
  /\ \/ StartGoes("ping", "trunk") /\ home' \in Path
     \/ StartGoes("ping", "failed") /\ UNCHANGED home
  /\ UNCHANGED <<fix, inited, default, started, routeVars, up, prober, closed, trunkVars>>

StartTrunk ==
  /\ StartGoes("trunk", "swap")
  /\ T!Make(home)
  /\ UNCHANGED <<fix, home, inited, default, started, routeVars, up, prober, closed>>

\* route.Init swaps `inited' first, and assigns the default after.
StartSwap ==
  /\ StartGoes("swap", "assign")
  /\ inited' = TRUE
  /\ UNCHANGED <<fix, home, default, started, routeVars, up, prober, closed, trunkVars>>

StartAssign ==
  /\ StartGoes("assign", "game")
  /\ default' = home
  /\ UNCHANGED <<fix, home, inited, started, routeVars, up, prober, closed, trunkVars>>

StartGame ==
  /\ StartGoes("game", "done")
  /\ started' = TRUE
  /\ UNCHANGED <<fix, home, inited, default, routeVars, up, prober, closed, trunkVars>>

-----------------------------------------------------------------------------
(* uplinkService *)

Goto(at) == up' = [up EXCEPT !.at = at]

\* The path is chosen; a play packet goes by the recorder first.
Matched(path) ==
  up' = [up EXCEPT !.to = path, !.at = IF up.play THEN "update" ELSE "write"]

\* Mutant: packets are captured from the moment the services run.
CaptureEarly ==
  /\ up.at = "capture"
  /\ ~closed
  /\ \E s \in Server, play \in BOOLEAN :
       up' = [at |-> "match", server |-> s, play |-> play, to |-> NoPath]
  /\ UNCHANGED <<fix, startVars, routeVars, prober, closed, trunkVars>>

\* Packets that arrive before game.Start are passed on to the system.
Capture ==
  /\ up.at = "capture"
  /\ started /\ ~closed
  /\ \E s \in Server, play \in BOOLEAN :
       up' = [at |-> "match", server |-> s, play |-> play, to |-> NoPath]
  /\ UNCHANGED <<fix, startVars, routeVars, prober, closed, trunkVars>>

CaptureFails ==
  /\ up.at = "capture" /\ closed
  /\ Goto("end")
  /\ UNCHANGED <<fix, startVars, routeVars, prober, closed, trunkVars>>

\* Match: a route that is not initialised is an error, which closes the client.
\* Only play packets are routed by server; the others take the default.
Match ==
  /\ up.at = "match"
  /\ closed' = (closed \/ ~inited)
  /\ CASE ~inited                      -> Goto("end")
       [] inited /\ (~up.play \/ fix)   -> Matched(default)
       [] inited /\ up.play /\ ~fix     ->
            IF routes[up.server] # NoPath
              THEN Matched(routes[up.server])
              ELSE Goto("probe")
  /\ UNCHANGED <<fix, startVars, routeVars, prober, trunkVars>>

\* Mutant: a server whose probe runs is probed again.
LookInflightAgain ==
  /\ up.at = "probe"
  /\ CASE inflight[up.server] \in {"none", "running"} -> Goto("claim")
       [] OTHER                                       -> Goto("clear")
  /\ UNCHANGED <<fix, startVars, routeVars, prober, closed, trunkVars>>

\* probe reads the entry under the read lock and decides on it afterwards; a
\* packet whose server is being probed is dropped.
LookInflight ==
  /\ up.at = "probe"
  /\ CASE inflight[up.server] = "none"    -> Goto("claim")
       [] inflight[up.server] = "running" -> Goto("capture")
       [] OTHER                           -> Goto("clear")
  /\ UNCHANGED <<fix, startVars, routeVars, prober, closed, trunkVars>>

Claim ==
  /\ up.at = "claim"
  /\ inflight' = [inflight EXCEPT ![up.server] = "running"]
  /\ \E p \in Prober :
       /\ prober[p].at = "idle"
       /\ prober' = [prober EXCEPT ![p] = [at |-> "asking", server |-> up.server,
                                           got |-> NoPath, result |-> "timeout"]]
  /\ Goto("capture")
  /\ UNCHANGED <<fix, startVars, routes, closed, trunkVars>>

\* The finished entry is deleted; a timeout is temporary and the packet dropped,
\* any other error closes the client.
Clear ==
  /\ up.at = "clear"
  /\ inflight' = [inflight EXCEPT ![up.server] = "none"]
  /\ CASE inflight[up.server] = "found"   -> Goto("fetch") /\ UNCHANGED closed
       [] inflight[up.server] = "timeout" -> Goto("capture") /\ UNCHANGED closed
       [] OTHER                           -> Goto("end") /\ closed' = TRUE
  /\ UNCHANGED <<fix, startVars, routes, prober, trunkVars>>

Fetch ==
  /\ up.at = "fetch"
  /\ Matched(routes[up.server])
  /\ UNCHANGED <<fix, startVars, routeVars, prober, closed, trunkVars>>

UpdateTrunk ==
  /\ up.at = "update"
  /\ T!Update(up.to)
  /\ Goto("write")
  /\ UNCHANGED <<fix, startVars, routeVars, prober, closed>>

Write ==
  /\ up.at = "write"
  /\ Goto(IF closed THEN "end" ELSE "capture")
  /\ UNCHANGED <<fix, startVars, routeVars, prober, closed, trunkVars>>

-----------------------------------------------------------------------------
(* probeRoute, one goroutine per probe *)

ProbeEnds(p, got, result, at) ==
  /\ prober[p].at = "asking"
  /\ prober' = [prober EXCEPT ![p].got = got, ![p].result = result, ![p].at = at]
  /\ UNCHANGED <<fix, startVars, routeVars, up, closed, trunkVars>>

\* Mutant: the answer is announced before it is stored.
ProbeFoundLate(p) ==
  /\ prober[p].at = "asking"
  /\ inflight' = [inflight EXCEPT ![prober[p].server] = "found"]
  /\ \E path \in Path :
       prober' = [prober EXCEPT ![p].got = path, ![p].result = "found",
                                ![p].at = "store"]
  /\ UNCHANGED <<fix, startVars, routes, up, closed, trunkVars>>

ProbeFound(p) == \E path \in Path : ProbeEnds(p, path, "found", "store")

\* Mutant: the error of the probe is not looked at.
ProbeTimeoutStores(p) == ProbeEnds(p, NoPath, "timeout", "store")

ProbeTimeout(p) == ProbeEnds(p, NoPath, "timeout", "finish")

\* A write that fails closes the client and is no temporary error.
ProbeClosed(p) == closed /\ ProbeEnds(p, NoPath, "closed", "finish")

\* The answer goes to the table first ...
StoreRoute(p) ==
  /\ prober[p].at = "store"
  /\ routes' = [routes EXCEPT ![prober[p].server] = prober[p].got]
  /\ prober' = [prober EXCEPT ![p].at = "finish"]
  /\ UNCHANGED <<fix, startVars, inflight, up, closed, trunkVars>>

\* Mutant: a finished probe leaves no entry.
FinishProbeDeletes(p) ==
  /\ prober[p].at = "finish"
  /\ inflight' = [inflight EXCEPT ![prober[p].server] = "none"]
  /\ prober' = [prober EXCEPT ![p].at = "idle"]
  /\ UNCHANGED <<fix, startVars, routes, up, closed, trunkVars>>

\* ... and only then is the probe marked done.
FinishProbe(p) ==
  /\ prober[p].at = "finish"
  /\ inflight' = [inflight EXCEPT ![prober[p].server] = prober[p].result]
  /\ prober' = [prober EXCEPT ![p].at = "idle"]
  /\ UNCHANGED <<fix, startVars, routes, up, closed, trunkVars>>

-----------------------------------------------------------------------------
(* The rest of the program *)

\* NetworkStats is called once New has returned.
NetworkStats ==
  /\ start = "done" /\ T!Trunk
  /\ UNCHANGED <<fix, startVars, routeVars, up, prober, closed>>

TimePasses ==
  /\ T!Expire
  /\ UNCHANGED <<fix, startVars, routeVars, up, prober, closed>>

\* Any other goroutine, or the application, closes the client.
Close ==
  /\ ~closed
  /\ closed' = TRUE
  /\ UNCHANGED <<fix, startVars, routeVars, up, prober, trunkVars>>

Next ==
  \/ StartPing \/ StartTrunk \/ StartSwap \/ StartAssign \/ StartGame
  \/ Capture \/ CaptureFails
  \/ Match \/ LookInflight \/ Claim \/ Clear \/ Fetch \/ UpdateTrunk \/ Write
  \/ \E p \in Prober : \/ ProbeFound(p) \/ ProbeTimeout(p) \/ ProbeClosed(p)
                       \/ StoreRoute(p) \/ FinishProbe(p)
  \/ NetworkStats \/ TimePasses \/ Close

Spec == Init /\ [][Next]_vars

-----------------------------------------------------------------------------
(* Properties *)

(***************************************************************************)
(* No packet leaves, and no path is recorded, before the client has one:   *)
(* uplinkService runs from the start and route.Init sets `inited' before   *)
(* the default path; probe reads from the table what the entry of another  *)
(* mutex promises (client.go:120-136, route.go:47-54, 85-96, 110-123).     *)
(* A Match before that closes the client, and so does the write to a zero  *)
(* gateway.                                                                *)
(***************************************************************************)
NeverToNowhere ==
  /\ up.at = "match" => inited
  /\ up.at \in {"update", "write"} => up.to \in Path
  /\ up.at = "update" => T!Made

(***************************************************************************)
(* One server is probed by at most one goroutine at a time, although       *)
(* probe looks for the entry and makes it in two locked sections           *)
(* (route.go:74-82) and deletes it in a third (route.go:85-87).            *)
(***************************************************************************)
OneProbePerServer ==
  \A p, q \in Prober :
    /\ prober[p].at # "idle" /\ prober[q].at # "idle"
    /\ prober[p].server = prober[q].server
    => p = q

(***************************************************************************)
(* A server keeps its path for as long as the client runs: a second probe  *)
(* of it never replaces the entry, so the packets of a game never move to  *)
(* another forward, from whose address the game server would see a         *)
(* stranger (route.go:64-70, 110-123).                                     *)
(***************************************************************************)
PathIsKept ==
  [][\A s \in Server : routes[s] # NoPath => routes'[s] = routes[s]]_vars

(***************************************************************************)
(* The statistics are measured on a path packets are sent on: the default  *)
(* one or that of a probed server, never the gateway of one and the        *)
(* forward of another (message.go:90-116, client.go:235, 337).             *)
(***************************************************************************)
UsedPath == {default} \cup {routes[s] : s \in Server}

MeasuresUsedPath == told = NoPath \/ told \in UsedPath

\* The caller of Trunk hears of every change of the path.
ChangesAreReported == T!ChangesAreReported
=================================================================================
