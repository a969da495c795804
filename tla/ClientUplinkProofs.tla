--------------------------- MODULE ClientUplinkProofs ---------------------------
(***************************************************************************)
(* Theorems about ClientUplink for any number of game servers, paths and   *)
(* probing goroutines.                                                     *)
(***************************************************************************)
EXTENDS ClientUplink, TLAPS

(***************************************************************************)
(* What start() has set up by the time it goes on.                         *)
(***************************************************************************)
StartSound ==
  /\ start \in {"trunk", "swap", "assign", "game", "done"} => home \in Path
  /\ start \in {"swap", "assign", "game", "done"} => initial = home
  /\ start \in {"assign", "game", "done"} => inited
  /\ start \in {"game", "done"} => default = home
  /\ started => start = "done"
  /\ start \in {"ping", "trunk", "failed"} => ~lastWasInit

(***************************************************************************)
(* What uplinkService relies on between two locked sections of Match.      *)
(***************************************************************************)
UplinkSound ==
  /\ up.at \notin {"capture", "end"} => started
  /\ up.at \in {"update", "write"} => up.to \in Path
  /\ up.at = "probe" /\ inflight[up.server] = "none" => routes[up.server] = NoPath
  /\ up.at = "claim" => /\ inflight[up.server] = "none"
                        /\ routes[up.server] = NoPath
  /\ up.at = "clear" => inflight[up.server] \in Result
  /\ up.at = "fetch" => routes[up.server] # NoPath

(***************************************************************************)
(* An entry that is not done belongs to exactly one goroutine, and one     *)
(* that is done without an error comes with a route.                       *)
(***************************************************************************)
ProbeSound ==
  /\ \A p \in Prober : prober[p].at # "idle" =>
       inflight[prober[p].server] = "running"
  /\ \A p \in Prober : prober[p].at \in {"asking", "store"} =>
       routes[prober[p].server] = NoPath
  /\ \A p \in Prober : prober[p].at = "finish" /\ prober[p].result = "found" =>
       routes[prober[p].server] # NoPath
  /\ \A s \in Server : inflight[s] = "found" => routes[s] # NoPath
  /\ OneProbePerServer

(***************************************************************************)
(* The two flags of the recorder say how its next answer relates to the    *)
(* last one.                                                               *)
(***************************************************************************)
FlagsSound ==
  /\ heard = told
  /\ lastWasInit => heard = initial
  /\ ~lastWasInit /\ ~updated => heard = <<gaddr, faddr>>

(***************************************************************************)
(* What the recorder holds is, or was handed to it as, a path in use.      *)
(***************************************************************************)
TrunkSound ==
  /\ up.at = "update" => up.to \in UsedPath
  /\ fresh => <<gaddr, faddr>> \in UsedPath \ {NoPath}
  /\ start # "done" => told = NoPath /\ ~fresh
  /\ MeasuresUsedPath

UplinkInv ==
  /\ TypeOK /\ StartSound /\ UplinkSound /\ ProbeSound /\ FlagsSound /\ TrunkSound

-----------------------------------------------------------------------------
(* Types *)

LEMMA NoPathIsNone == NoPath \notin Path /\ NoPath = T!NoPath
  BY PathAssumption, NoAddrAssumption DEF NoPath, T!NoPath

LEMMA PathIsPair ==
  ASSUME NEW path \in Path
  PROVE  path = <<path[1], path[2]>> /\ path \in T!Addrs
  BY PathAssumption DEF T!Addrs

LEMMA TypeInit == Init => TypeOK
<1> SUFFICES ASSUME Init PROVE TypeOK
  OBVIOUS
<1>1. up \in Uplink
  BY DEF Init
<1>2. prober \in [Prober -> Probing]
  BY DEF Init
<1>3. T!TypeOK
  BY DEF Init, T!Init, T!TypeOK, T!NoPath, T!Addrs
<1>4. QED
  BY <1>1, <1>2, <1>3 DEF Init, TypeOK, Result

\* The record of uplinkService keeps its type as it moves on.
LEMMA GotoType ==
  ASSUME up \in Uplink, NEW at \in UpAt, Goto(at)
  PROVE  /\ up' \in Uplink
         /\ up'.at = at /\ up'.server = up.server
         /\ up'.play = up.play /\ up'.to = up.to
  BY DEF Uplink, Goto

LEMMA MatchedType ==
  ASSUME up \in Uplink, NEW path \in Path \cup {NoPath}, Matched(path)
  PROVE  /\ up' \in Uplink
         /\ up'.at = IF up.play THEN "update" ELSE "write"
         /\ up'.server = up.server /\ up'.play = up.play /\ up'.to = path
  BY DEF Uplink, Matched, UpAt

\* One goroutine's record is replaced by a well-formed one.
LEMMA ProberType ==
  ASSUME prober \in [Prober -> Probing], NEW p \in Prober, NEW r \in Probing,
         prober' = [prober EXCEPT ![p] = r]
  PROVE  /\ prober' \in [Prober -> Probing]
         /\ prober'[p] = r
         /\ \A q \in Prober \ {p} : prober'[q] = prober[q]
  OBVIOUS

\* The record of a goroutine that moves on, and that of one whose probe ends.
LEMMA MovesType ==
  ASSUME prober \in [Prober -> Probing], NEW p \in Prober,
         NEW at \in {"finish", "idle"}, prober' = [prober EXCEPT ![p].at = at]
  PROVE  /\ prober' \in [Prober -> Probing]
         /\ prober'[p].at = at /\ prober'[p].server = prober[p].server
         /\ prober'[p].got = prober[p].got /\ prober'[p].result = prober[p].result
         /\ \A q \in Prober \ {p} : prober'[q] = prober[q]
<1> DEFINE r == [prober[p] EXCEPT !.at = at]
<1>1. prober[p] \in Probing
  OBVIOUS
<1>2. /\ r \in Probing
      /\ r.at = at /\ r.server = prober[p].server
      /\ r.got = prober[p].got /\ r.result = prober[p].result
  BY <1>1 DEF Probing
<1>3. prober' = [prober EXCEPT ![p] = r]
  OBVIOUS
<1> HIDE DEF r
<1>4. QED
  BY <1>2, <1>3, ProberType

LEMMA EndsType ==
  ASSUME prober \in [Prober -> Probing], NEW p \in Prober,
         NEW got \in Path \cup {NoPath}, NEW result \in Result,
         NEW at \in {"store", "finish"}, at = "store" => got # NoPath,
         ProbeEnds(p, got, result, at)
  PROVE  /\ prober' \in [Prober -> Probing]
         /\ prober'[p].at = at /\ prober'[p].server = prober[p].server
         /\ prober'[p].got = got /\ prober'[p].result = result
         /\ \A q \in Prober \ {p} : prober'[q] = prober[q]
<1> DEFINE r == [prober[p] EXCEPT !.got = got, !.result = result, !.at = at]
<1>1. prober[p] \in Probing
  OBVIOUS
<1>2. /\ r \in Probing
      /\ r.at = at /\ r.server = prober[p].server
      /\ r.got = got /\ r.result = result
  BY <1>1 DEF Probing
<1>3. prober' = [prober EXCEPT ![p] = r]
  BY DEF ProbeEnds
<1> HIDE DEF r
<1>4. QED
  BY <1>2, <1>3, ProberType

\* Which goroutine a probe is given to, and with which record.
LEMMA ClaimType ==
  ASSUME up \in Uplink, prober \in [Prober -> Probing], Claim
  PROVE  \E p \in Prober :
           /\ prober[p].at = "idle"
           /\ prober' \in [Prober -> Probing]
           /\ prober'[p].at = "asking" /\ prober'[p].server = up.server
           /\ \A q \in Prober \ {p} : prober'[q] = prober[q]
<1> DEFINE r == [at |-> "asking", server |-> up.server,
                 got |-> NoPath, result |-> "timeout"]
<1>1. r \in Probing /\ r.at = "asking" /\ r.server = up.server
  BY DEF Uplink, Probing, Result
<1>2. PICK p \in Prober : /\ prober[p].at = "idle"
                          /\ prober' = [prober EXCEPT ![p] = r]
  BY DEF Claim
<1> HIDE DEF r
<1>3. QED
  BY <1>1, <1>2, ProberType

-----------------------------------------------------------------------------
(* The steps of the recorder *)

LEMMA TrunkTypes ==
  ASSUME T!TypeOK, home \in Path \cup {NoPath}, up \in Uplink,
         up.at = "update" => up.to \in Path,
         start = "trunk" => home \in Path,
         \/ T!Make(home) \/ T!Trunk \/ T!Expire
         \/ up.at = "update" /\ T!Update(up.to)
         \/ UNCHANGED trunkVars
  PROVE  T!TypeOK'
<1>1. CASE T!Make(home)
  BY <1>1, NoPathIsNone DEF T!Make, T!TypeOK
<1>2. CASE T!Trunk
  <2>1. CASE T!TrunkFresh
    BY <2>1 DEF T!TrunkFresh, T!Told, T!TypeOK
  <2>2. CASE T!TrunkStale
    <3>1. initial \in T!Addrs
      BY PathAssumption DEF T!TypeOK, T!Addrs, T!NoPath
    <3>2. QED
      BY <2>2, <3>1 DEF T!TrunkStale, T!Told, T!TypeOK
  <2>3. QED
    BY <1>2, <2>1, <2>2 DEF T!Trunk
<1>3. CASE T!Expire
  BY <1>3 DEF T!Expire, T!TypeOK
<1>4. CASE up.at = "update" /\ T!Update(up.to)
  BY <1>4, PathIsPair DEF T!Update, T!TypeOK
<1>5. CASE UNCHANGED trunkVars
  BY <1>5 DEF trunkVars, T!TypeOK
<1>6. QED
  BY <1>1, <1>2, <1>3, <1>4, <1>5

-----------------------------------------------------------------------------
LEMMA UplinkTypes ==
  ASSUME TypeOK, UplinkSound, StartSound, Next
  PROVE  up' \in Uplink
<1> USE DEF TypeOK
<1>0. up.server \in Server /\ routes[up.server] \in Path \cup {NoPath}
  BY DEF Uplink
<1>1. CASE Capture
  BY <1>1 DEF Capture, Uplink, UpAt
<1>2. CASE CaptureFails
  BY <1>2, GotoType DEF CaptureFails, UpAt
<1>3. CASE Match
  BY <1>0, <1>3, GotoType, MatchedType DEF Match, UpAt
<1>4. CASE LookInflight
  BY <1>4, GotoType DEF LookInflight, UpAt
<1>5. CASE Claim
  BY <1>5, GotoType DEF Claim, UpAt
<1>6. CASE Clear
  BY <1>6, GotoType DEF Clear, UpAt
<1>7. CASE Fetch
  BY <1>0, <1>7, MatchedType DEF Fetch
<1>8. CASE UpdateTrunk
  BY <1>8, GotoType DEF UpdateTrunk, UpAt
<1>9. CASE Write
  BY <1>9, GotoType DEF Write, UpAt
<1>10. CASE UNCHANGED up
  BY <1>10
<1>11. QED
  BY <1>1, <1>2, <1>3, <1>4, <1>5, <1>6, <1>7, <1>8, <1>9, <1>10
  DEF Next, StartPing, StartTrunk, StartSwap, StartAssign, StartGame, ProbeFound,
      ProbeTimeout, ProbeClosed, ProbeEnds, StoreRoute, FinishProbe, NetworkStats,
      TimePasses, Close

LEMMA ProberTypes ==
  ASSUME TypeOK, Next
  PROVE  prober' \in [Prober -> Probing]
<1> USE DEF TypeOK
<1>1. CASE Claim
  BY <1>1, ClaimType
<1>2. ASSUME NEW p \in Prober, ProbeFound(p)
      PROVE  prober' \in [Prober -> Probing]
  BY <1>2, EndsType, NoPathIsNone DEF ProbeFound, Result
<1>3. ASSUME NEW p \in Prober, ProbeTimeout(p) \/ ProbeClosed(p)
      PROVE  prober' \in [Prober -> Probing]
  BY <1>3, EndsType DEF ProbeTimeout, ProbeClosed, Result
<1>4. ASSUME NEW p \in Prober, StoreRoute(p) \/ FinishProbe(p)
      PROVE  prober' \in [Prober -> Probing]
  BY <1>4, MovesType DEF StoreRoute, FinishProbe
<1>5. CASE UNCHANGED prober
  BY <1>5
<1>6. QED
  BY <1>1, <1>2, <1>3, <1>4, <1>5
  DEF Next, StartPing, StartTrunk, StartSwap, StartAssign, StartGame, Capture,
      CaptureFails, Match, LookInflight, Clear, Fetch, UpdateTrunk, Write,
      NetworkStats, TimePasses, Close

LEMMA RecorderTypes ==
  ASSUME TypeOK, StartSound, UplinkSound, Next
  PROVE  T!TypeOK'
<1> USE DEF TypeOK
<1>1. \/ T!Make(home) \/ T!Trunk \/ T!Expire
      \/ up.at = "update" /\ T!Update(up.to)
      \/ UNCHANGED trunkVars
  BY DEF Next, StartPing, StartTrunk, StartSwap, StartAssign, StartGame, Capture,
         CaptureFails, Match, LookInflight, Claim, Clear, Fetch, UpdateTrunk, Write,
         ProbeFound, ProbeTimeout, ProbeClosed, ProbeEnds, StoreRoute, FinishProbe,
         NetworkStats, TimePasses, Close
<1>2. QED
  BY <1>1, TrunkTypes DEF StartSound, UplinkSound

LEMMA TypeStep ==
  ASSUME TypeOK, StartSound, UplinkSound, Next
  PROVE  TypeOK'
<1>1. /\ up' \in Uplink
      /\ prober' \in [Prober -> Probing]
      /\ T!TypeOK'
  BY UplinkTypes, ProberTypes, RecorderTypes
<1>2. /\ fix' \in BOOLEAN /\ inited' \in BOOLEAN
      /\ started' \in BOOLEAN /\ closed' \in BOOLEAN
      /\ start' \in {"ping", "trunk", "swap", "assign", "game", "done", "failed"}
      /\ home' \in Path \cup {NoPath}
      /\ default' \in Path \cup {NoPath}
  <2>1. CASE StartPing \/ StartTrunk \/ StartSwap \/ StartAssign \/ StartGame
    BY <2>1 DEF TypeOK, StartGoes, StartPing, StartTrunk, StartSwap, StartAssign,
                StartGame
  <2>2. CASE UNCHANGED startVars /\ UNCHANGED fix /\ closed' \in BOOLEAN
    BY <2>2 DEF TypeOK, startVars
  <2>3. closed' \in BOOLEAN \/ UNCHANGED closed
    BY DEF TypeOK, Next, StartPing, StartTrunk, StartSwap, StartAssign, StartGame,
           Capture, CaptureFails, Match, LookInflight, Claim, Clear, Fetch,
           UpdateTrunk, Write, ProbeFound, ProbeTimeout, ProbeClosed, ProbeEnds,
           StoreRoute, FinishProbe, NetworkStats, TimePasses, Close
  <2>4. closed' \in BOOLEAN
    BY <2>3 DEF TypeOK
  <2>5. QED
    BY <2>1, <2>2, <2>4
    DEF Next, Capture, CaptureFails, Match, LookInflight, Claim, Clear, Fetch,
        UpdateTrunk, Write, ProbeFound, ProbeTimeout, ProbeClosed, ProbeEnds,
        StoreRoute, FinishProbe, NetworkStats, TimePasses, Close
<1>3. routes' \in [Server -> Path \cup {NoPath}]
  <2>1. ASSUME NEW p \in Prober, StoreRoute(p)
        PROVE  routes' \in [Server -> Path \cup {NoPath}]
    <3>1. prober[p].got \in Path \cup {NoPath}
      BY DEF TypeOK, Probing
    <3>2. QED
      BY <2>1, <3>1 DEF StoreRoute, TypeOK
  <2>2. CASE UNCHANGED routes
    BY <2>2 DEF TypeOK
  <2>3. QED
    BY <2>1, <2>2
    DEF Next, StartPing, StartTrunk, StartSwap, StartAssign, StartGame, routeVars,
        Capture, CaptureFails, Match, LookInflight, Claim, Clear, Fetch,
        UpdateTrunk, Write, ProbeFound, ProbeTimeout, ProbeClosed, ProbeEnds,
        FinishProbe, NetworkStats, TimePasses, Close
<1>4. inflight' \in [Server -> {"none", "running"} \cup Result]
  <2>1. ASSUME NEW p \in Prober, FinishProbe(p)
        PROVE  inflight' \in [Server -> {"none", "running"} \cup Result]
    <3>1. prober[p].result \in Result
      BY DEF TypeOK, Probing
    <3>2. QED
      BY <2>1, <3>1 DEF FinishProbe, TypeOK
  <2>2. CASE Claim \/ Clear
    BY <2>2 DEF Claim, Clear, TypeOK
  <2>3. CASE UNCHANGED inflight
    BY <2>3 DEF TypeOK
  <2>4. QED
    BY <2>1, <2>2, <2>3
    DEF Next, StartPing, StartTrunk, StartSwap, StartAssign, StartGame, routeVars,
        Capture, CaptureFails, Match, LookInflight, Fetch, UpdateTrunk, Write,
        ProbeFound, ProbeTimeout, ProbeClosed, ProbeEnds, StoreRoute, NetworkStats,
        TimePasses, Close
<1>5. QED
  BY <1>1, <1>2, <1>3, <1>4 DEF TypeOK

-----------------------------------------------------------------------------
(* The steps, by goroutine *)

StartStep == StartPing \/ StartTrunk \/ StartSwap \/ StartAssign \/ StartGame

\* The steps of uplinkService that leave the two tables alone.
UplinkMove == \/ Capture \/ CaptureFails \/ Match \/ LookInflight
              \/ Fetch \/ UpdateTrunk \/ Write

AnswerStep(p) == ProbeFound(p) \/ ProbeTimeout(p) \/ ProbeClosed(p)

OtherStep == NetworkStats \/ TimePasses \/ Close

LEMMA Steps ==
  ASSUME Next
  PROVE  \/ StartStep \/ UplinkMove \/ Claim \/ Clear \/ OtherStep
         \/ \E p \in Prober : AnswerStep(p) \/ StoreRoute(p) \/ FinishProbe(p)
  BY DEF Next, StartStep, UplinkMove, AnswerStep, OtherStep

LEMMA StartSoundStep ==
  ASSUME TypeOK, StartSound, Next
  PROVE  StartSound'
<1>1. CASE StartStep
  BY <1>1 DEF StartStep, StartGoes, StartPing, StartTrunk, StartSwap, StartAssign,
              StartGame, StartSound, T!Make, trunkVars
<1>2. CASE /\ UNCHANGED startVars /\ UNCHANGED initial
           /\ lastWasInit' # lastWasInit => start = "done"
  BY <1>2 DEF StartSound, startVars
<1>3. QED
  BY <1>1, <1>2
  DEF Next, StartStep, Capture, CaptureFails, Match, LookInflight, Claim, Clear,
      Fetch, UpdateTrunk, Write, ProbeFound, ProbeTimeout, ProbeClosed, ProbeEnds,
      StoreRoute, FinishProbe, NetworkStats, TimePasses, Close, trunkVars,
      T!Update, T!Expire, T!Trunk, T!TrunkFresh, T!TrunkStale, T!Told

\* What an answer and the end of a probe do to the record of the goroutine.
LEMMA AnswerEffect ==
  ASSUME TypeOK, NEW p \in Prober, AnswerStep(p)
  PROVE  /\ prober[p].at = "asking"
         /\ prober'[p].at \in {"store", "finish"}
         /\ prober'[p].at = "finish" => prober'[p].result # "found"
         /\ prober'[p].at = "store" => prober'[p].got # NoPath
         /\ prober'[p].server = prober[p].server
         /\ \A q \in Prober \ {p} : prober'[q] = prober[q]
         /\ UNCHANGED <<routes, inflight, up, startVars, trunkVars>>
<1>1. CASE ProbeFound(p)
  <2>1. PICK path \in Path : ProbeEnds(p, path, "found", "store")
    BY <1>1 DEF ProbeFound
  <2>2. QED
    BY <2>1, EndsType, NoPathIsNone DEF ProbeEnds, TypeOK, Result, routeVars
<1>2. CASE ProbeTimeout(p)
  BY <1>2, EndsType DEF ProbeTimeout, ProbeEnds, TypeOK, Result, routeVars
<1>3. CASE ProbeClosed(p)
  BY <1>3, EndsType DEF ProbeClosed, ProbeEnds, TypeOK, Result, routeVars
<1>4. QED
  BY <1>1, <1>2, <1>3 DEF AnswerStep

LEMMA StoreEffect ==
  ASSUME TypeOK, NEW p \in Prober, StoreRoute(p)
  PROVE  /\ prober[p].at = "store" /\ prober[p].got \in Path
         /\ prober'[p].at = "finish"
         /\ prober'[p].server = prober[p].server
         /\ \A q \in Prober \ {p} : prober'[q] = prober[q]
         /\ routes'[prober[p].server] = prober[p].got
         /\ \A s \in Server \ {prober[p].server} : routes'[s] = routes[s]
         /\ UNCHANGED <<inflight, up, startVars, trunkVars>>
<1>1. prober[p] \in Probing
  BY DEF TypeOK
<1>2. prober[p].at = "store" /\ prober[p].got \in Path /\ prober[p].server \in Server
  BY <1>1 DEF StoreRoute, Probing
<1>3. QED
  BY <1>2, MovesType DEF StoreRoute, TypeOK

LEMMA FinishEffect ==
  ASSUME TypeOK, NEW p \in Prober, FinishProbe(p)
  PROVE  /\ prober[p].at = "finish" /\ prober[p].result \in Result
         /\ prober'[p].at = "idle"
         /\ \A q \in Prober \ {p} : prober'[q] = prober[q]
         /\ inflight'[prober[p].server] = prober[p].result
         /\ \A s \in Server \ {prober[p].server} : inflight'[s] = inflight[s]
         /\ UNCHANGED <<routes, up, startVars, trunkVars>>
<1>1. prober[p] \in Probing
  BY DEF TypeOK
<1>2. prober[p].result \in Result /\ prober[p].server \in Server
  BY <1>1 DEF Probing
<1>3. QED
  BY <1>2, MovesType DEF FinishProbe, TypeOK

-----------------------------------------------------------------------------
LEMMA UplinkSoundStep ==
  ASSUME TypeOK, TypeOK', StartSound, StartSound', UplinkSound, ProbeSound, Next
  PROVE  UplinkSound'
<1>1. up \in Uplink /\ up.server \in Server /\ up' \in Uplink /\ up'.server \in Server
  BY DEF TypeOK, Uplink
<1>2. CASE StartStep
  <2>1. /\ UNCHANGED <<up, routes, inflight>>
        /\ started => started'
    BY <1>2 DEF StartStep, StartPing, StartTrunk, StartSwap, StartAssign, StartGame,
                routeVars
  <2>2. QED
    BY <2>1 DEF UplinkSound
<1>3. CASE UplinkMove
  <2>1. UNCHANGED <<routes, inflight, started>>
    BY <1>3 DEF UplinkMove, Capture, CaptureFails, Match, LookInflight, Fetch,
                UpdateTrunk, Write, routeVars, startVars
  <2>2. CASE Capture
    BY <2>1, <2>2 DEF Capture, UplinkSound
  <2>3. CASE CaptureFails
    BY <2>1, <2>3, <1>1, GotoType DEF CaptureFails, UplinkSound, UpAt
  <2>4. CASE Match
    <3>1. started /\ default \in Path
      BY <2>4 DEF Match, UplinkSound, StartSound
    <3>2. routes[up.server] \in Path \cup {NoPath}
      BY <1>1 DEF TypeOK
    <3>3. CASE Goto("end") \/ (Goto("probe") /\ routes[up.server] = NoPath)
      BY <3>1, <3>3, <2>1, <1>1, GotoType DEF UplinkSound, UpAt
    <3>4. ASSUME NEW path \in Path, Matched(path) PROVE UplinkSound'
      BY <3>1, <3>4, <2>1, <1>1, MatchedType DEF UplinkSound
    <3>5. QED
      BY <3>1, <3>2, <3>3, <3>4, <2>4 DEF Match
  <2>5. CASE LookInflight
    <3>1. started /\ inflight[up.server] \in {"none", "running"} \cup Result
      BY <2>5, <1>1 DEF LookInflight, UplinkSound, TypeOK
    <3>2. QED
      BY <3>1, <2>1, <2>5, <1>1, GotoType DEF LookInflight, UplinkSound, UpAt
  <2>6. CASE Fetch
    <3>1. started /\ routes[up.server] \in Path
      BY <2>6, <1>1 DEF Fetch, UplinkSound, TypeOK
    <3>2. QED
      BY <3>1, <2>1, <2>6, <1>1, MatchedType DEF Fetch, UplinkSound
  <2>7. CASE UpdateTrunk \/ Write
    BY <2>1, <2>7, <1>1, GotoType DEF UpdateTrunk, Write, UplinkSound, UpAt
  <2>8. QED
    BY <1>3, <2>2, <2>3, <2>4, <2>5, <2>6, <2>7 DEF UplinkMove
<1>4. CASE Claim
  BY <1>4, <1>1, GotoType DEF Claim, UplinkSound, UpAt, startVars
<1>5. CASE Clear
  <2>1. CASE inflight[up.server] = "found"
    <3>1. routes[up.server] # NoPath
      BY <2>1, <1>1 DEF ProbeSound
    <3>2. QED
      BY <1>5, <2>1, <3>1, <1>1, GotoType DEF Clear, UplinkSound, UpAt, startVars
  <2>2. CASE inflight[up.server] # "found"
    BY <1>5, <2>2, <1>1, GotoType DEF Clear, UplinkSound, UpAt, startVars
  <2>3. QED
    BY <2>1, <2>2
<1>6. CASE OtherStep
  BY <1>6 DEF OtherStep, NetworkStats, TimePasses, Close, UplinkSound, startVars,
              routeVars
<1>7. ASSUME NEW p \in Prober, AnswerStep(p) PROVE UplinkSound'
  BY <1>7, AnswerEffect DEF UplinkSound, startVars
\* The entry of a running probe is not the one uplinkService has read.
<1>8. ASSUME NEW p \in Prober, StoreRoute(p) PROVE UplinkSound'
  <2>1. inflight[prober[p].server] = "running"
    BY <1>8, StoreEffect DEF ProbeSound
  <2>2. prober[p].got # NoPath
    BY <1>8, StoreEffect, NoPathIsNone
  <2>3. QED
    BY <1>8, <1>1, <2>1, <2>2, StoreEffect DEF UplinkSound, startVars
<1>9. ASSUME NEW p \in Prober, FinishProbe(p) PROVE UplinkSound'
  <2>1. inflight[prober[p].server] = "running" /\ prober[p].result \in Result
    BY <1>9, FinishEffect DEF ProbeSound
  <2>2. "none" \notin Result /\ "running" \notin Result
    BY DEF Result
  <2>3. QED
    BY <1>9, <1>1, <2>1, <2>2, FinishEffect DEF UplinkSound, startVars
<1>10. QED
  BY Steps, <1>2, <1>3, <1>4, <1>5, <1>6, <1>7, <1>8, <1>9

LEMMA ProbeSoundStep ==
  ASSUME TypeOK, UplinkSound, ProbeSound, Next
  PROVE  ProbeSound'
<1>1. up.server \in Server
  BY DEF TypeOK, Uplink
<1>2. \A p \in Prober : prober[p].server \in Server
  BY DEF TypeOK, Probing
<1>3. CASE UNCHANGED <<routes, inflight, prober>>
  BY <1>3 DEF ProbeSound, OneProbePerServer
<1>4. CASE Claim
  <2>1. PICK p \in Prober :
           /\ prober[p].at = "idle"
           /\ prober'[p].at = "asking" /\ prober'[p].server = up.server
           /\ \A q \in Prober \ {p} : prober'[q] = prober[q]
    BY <1>4, ClaimType DEF TypeOK
  <2>2. /\ inflight'[up.server] = "running"
        /\ \A s \in Server \ {up.server} : inflight'[s] = inflight[s]
        /\ routes' = routes /\ routes[up.server] = NoPath
        /\ inflight[up.server] = "none"
    BY <1>4, <1>1 DEF Claim, TypeOK, UplinkSound
  <2>3. \A q \in Prober : prober[q].at # "idle" => prober[q].server # up.server
    BY <2>2 DEF ProbeSound
  <2>4. QED
    BY <2>1, <2>2, <2>3, <1>2 DEF ProbeSound, OneProbePerServer
<1>5. CASE Clear
  <2>1. /\ inflight'[up.server] = "none"
        /\ \A s \in Server \ {up.server} : inflight'[s] = inflight[s]
        /\ UNCHANGED <<routes, prober>>
    BY <1>5, <1>1 DEF Clear, TypeOK
  <2>2. inflight[up.server] # "running"
    BY <1>5 DEF Clear, UplinkSound, Result
  <2>3. QED
    BY <2>1, <2>2, <1>2 DEF ProbeSound, OneProbePerServer
<1>6. ASSUME NEW p \in Prober, AnswerStep(p) PROVE ProbeSound'
  BY <1>6, <1>2, AnswerEffect DEF ProbeSound, OneProbePerServer
<1>7. ASSUME NEW p \in Prober, StoreRoute(p) PROVE ProbeSound'
  <2>1. prober[p].got # NoPath
    BY <1>7, StoreEffect, NoPathIsNone
  <2>2. \A q \in Prober \ {p} :
          prober[q].at # "idle" => prober[q].server # prober[p].server
    BY <1>7, StoreEffect DEF ProbeSound, OneProbePerServer
  <2>3. QED
    BY <1>7, <1>2, <2>1, <2>2, StoreEffect DEF ProbeSound, OneProbePerServer
<1>8. ASSUME NEW p \in Prober, FinishProbe(p) PROVE ProbeSound'
  <2>1. \A q \in Prober \ {p} :
          prober[q].at # "idle" => prober[q].server # prober[p].server
    BY <1>8, FinishEffect DEF ProbeSound, OneProbePerServer
  <2>2. prober[p].result = "found" => routes[prober[p].server] # NoPath
    BY <1>8, FinishEffect DEF ProbeSound
  <2>3. QED
    BY <1>8, <1>2, <2>1, <2>2, FinishEffect DEF ProbeSound, OneProbePerServer
<1>9. QED
  BY Steps, <1>3, <1>4, <1>5, <1>6, <1>7, <1>8
  DEF StartStep, StartPing, StartTrunk, StartSwap, StartAssign, StartGame,
      UplinkMove, Capture, CaptureFails, Match, LookInflight, Fetch, UpdateTrunk,
      Write, OtherStep, NetworkStats, TimePasses, Close, routeVars

\* An entry of the route table is never replaced.
LEMMA PathStep ==
  ASSUME TypeOK, ProbeSound, Next
  PROVE  \A s \in Server : routes[s] # NoPath => routes'[s] = routes[s]
<1>1. ASSUME NEW p \in Prober, StoreRoute(p)
      PROVE  \A s \in Server : routes[s] # NoPath => routes'[s] = routes[s]
  BY <1>1, StoreEffect DEF ProbeSound
<1>2. CASE UNCHANGED routes
  BY <1>2
<1>3. QED
  BY Steps, <1>1, <1>2, AnswerEffect, FinishEffect
  DEF StartStep, StartPing, StartTrunk, StartSwap, StartAssign, StartGame,
      UplinkMove, Capture, CaptureFails, Match, LookInflight, Fetch, UpdateTrunk,
      Write, Claim, Clear, OtherStep, NetworkStats, TimePasses, Close, routeVars

-----------------------------------------------------------------------------
(* The recorder *)

LEMMA RecorderSteps ==
  ASSUME Next
  PROVE  \/ StartTrunk \/ UpdateTrunk
         \/ start = "done" /\ (T!TrunkFresh \/ T!TrunkStale)
         \/ T!Expire
         \/ UNCHANGED trunkVars
  BY DEF Next, StartPing, StartSwap, StartAssign, StartGame, Capture, CaptureFails,
         Match, LookInflight, Claim, Clear, Fetch, Write, ProbeFound, ProbeTimeout,
         ProbeClosed, ProbeEnds, StoreRoute, FinishProbe, NetworkStats, TimePasses,
         Close, T!Trunk

LEMMA FlagsSoundStep ==
  ASSUME TypeOK, UplinkSound, StartSound, FlagsSound, TrunkSound, Next
  PROVE  FlagsSound'
<1>1. CASE StartTrunk
  <2>1. ~lastWasInit
    BY <1>1 DEF StartTrunk, StartGoes, StartSound
  <2>2. QED
    BY <1>1, <2>1 DEF StartTrunk, T!Make, FlagsSound
<1>2. CASE UpdateTrunk
  <2>1. up.to = <<up.to[1], up.to[2]>>
    BY <1>2, PathIsPair DEF UpdateTrunk, UplinkSound
  <2>2. QED
    BY <1>2, <2>1 DEF UpdateTrunk, T!Update, FlagsSound
<1>3. CASE T!TrunkFresh
  BY <1>3 DEF T!TrunkFresh, T!Told, FlagsSound
<1>4. CASE T!TrunkStale
  BY <1>4 DEF T!TrunkStale, T!Told, FlagsSound
<1>5. CASE T!Expire
  BY <1>5 DEF T!Expire, FlagsSound
<1>6. CASE UNCHANGED trunkVars
  BY <1>6 DEF trunkVars, FlagsSound
<1>7. QED
  BY RecorderSteps, <1>1, <1>2, <1>3, <1>4, <1>5, <1>6

\* Paths in use stay in use: the default is set once, before it is used, and
\* entries of the table are kept.
LEMMA UsedPathGrows ==
  ASSUME TypeOK, StartSound, ProbeSound, Next, start = "done"
  PROVE  /\ start' = "done"
         /\ UsedPath \ {NoPath} \subseteq UsedPath'
<1>1. start' = "done" /\ default' = default
  BY Steps, AnswerEffect, StoreEffect, FinishEffect
  DEF StartStep, StartGoes, StartPing, StartTrunk, StartSwap, StartAssign, StartGame,
      UplinkMove, Capture, CaptureFails, Match, LookInflight, Fetch, UpdateTrunk,
      Write, Claim, Clear, OtherStep, NetworkStats, TimePasses, Close, startVars
<1>2. QED
  BY <1>1, PathStep DEF UsedPath

\* The paths uplinkService hands to the recorder are in use.
LEMMA UplinkUses ==
  ASSUME TypeOK, StartSound, UplinkSound, TrunkSound, Next, up'.at = "update"
  PROVE  \/ up.at = "update" /\ up'.to = up.to
         \/ /\ up'.to \in UsedPath
            /\ UNCHANGED <<routes, default>>
<1>1. up \in Uplink /\ up.server \in Server
  BY DEF TypeOK, Uplink
<1>2. CASE Match
  <2>1. CASE Matched(default)
    BY <1>1, <1>2, <2>1, MatchedType DEF Match, UsedPath, TypeOK, startVars, routeVars
  <2>2. CASE Matched(routes[up.server])
    BY <1>1, <1>2, <2>2, MatchedType DEF Match, UsedPath, TypeOK, startVars, routeVars
  <2>3. CASE Goto("end") \/ Goto("probe")
    BY <1>1, <2>3, GotoType DEF UpAt
  <2>4. QED
    BY <1>2, <2>1, <2>2, <2>3 DEF Match
<1>3. CASE Fetch
  <2>1. Matched(routes[up.server])
    BY <1>3 DEF Fetch
  <2>2. QED
    BY <1>1, <1>3, <2>1, MatchedType DEF Fetch, UsedPath, TypeOK, startVars, routeVars
<1>4. CASE Capture
  BY <1>4 DEF Capture
<1>5. CASE \/ CaptureFails \/ LookInflight \/ Claim \/ Clear
           \/ UpdateTrunk \/ Write
  BY <1>1, <1>5, GotoType
  DEF CaptureFails, LookInflight, Claim, Clear, UpdateTrunk, Write, UpAt
<1>6. CASE UNCHANGED up
  BY <1>6
<1>7. QED
  BY Steps, <1>2, <1>3, <1>4, <1>5, <1>6, AnswerEffect, StoreEffect, FinishEffect
  DEF StartStep, StartPing, StartTrunk, StartSwap, StartAssign, StartGame,
      UplinkMove, OtherStep, NetworkStats, TimePasses, Close

\* An answer of the recorder is a path in use.
LEMMA TellsUsedPath ==
  ASSUME TypeOK, StartSound, TrunkSound, start = "done",
         T!TrunkFresh \/ T!TrunkStale
  PROVE  /\ told' \in UsedPath
         /\ UNCHANGED <<gaddr, faddr, fresh>>
<1>1. initial = default
  BY DEF StartSound
<1>2. QED
  BY <1>1 DEF T!TrunkFresh, T!TrunkStale, T!Told, TrunkSound, UsedPath

LEMMA TrunkSoundStep ==
  ASSUME TypeOK, StartSound, UplinkSound, ProbeSound, TrunkSound, Next
  PROVE  TrunkSound'
<1>1. CASE start # "done"
  <2>1. ~started /\ up.at \in {"capture", "end"}
    BY <1>1 DEF StartSound, UplinkSound, TypeOK, Uplink
  <2>2. told = NoPath /\ ~fresh
    BY <1>1 DEF TrunkSound
  <2>3. told' = told /\ fresh' = fresh
    BY RecorderSteps, <1>1, <2>1, <2>2
    DEF StartTrunk, T!Make, UpdateTrunk, T!Expire, trunkVars
  <2>4. up'.at # "update"
    <3>1. CASE CaptureFails
      BY <3>1, GotoType DEF CaptureFails, TypeOK, UpAt
    <3>2. CASE UNCHANGED up
      BY <2>1, <3>2
    <3>3. QED
      BY Steps, <2>1, <3>1, <3>2, AnswerEffect, StoreEffect, FinishEffect
      DEF StartStep, StartPing, StartTrunk, StartSwap, StartAssign, StartGame,
          UplinkMove, Capture, Match, LookInflight, Claim, Clear, Fetch,
          UpdateTrunk, Write, OtherStep, NetworkStats, TimePasses, Close
  <2>5. QED
    BY <2>2, <2>3, <2>4 DEF TrunkSound, MeasuresUsedPath
<1>2. CASE start = "done"
  <2>1. start' = "done" /\ UsedPath \ {NoPath} \subseteq UsedPath'
    BY <1>2, UsedPathGrows
  <2>2. up'.at = "update" => up'.to \in UsedPath'
    <3>1. ASSUME up'.at = "update" PROVE up'.to \in UsedPath'
      <4>1. CASE up.at = "update" /\ up'.to = up.to
        BY <2>1, <4>1, NoPathIsNone DEF TrunkSound, UplinkSound
      <4>2. CASE up'.to \in UsedPath /\ UNCHANGED <<routes, default>>
        BY <4>2 DEF UsedPath
      <4>3. QED
        BY <3>1, <4>1, <4>2, UplinkUses
    <3>2. QED
      BY <3>1
  <2>3. fresh' => <<gaddr, faddr>>' \in UsedPath' \ {NoPath}
    <3>1. CASE UpdateTrunk
      <4>1. up.to \in Path /\ up.to \in UsedPath
        BY <3>1 DEF UpdateTrunk, UplinkSound, TrunkSound
      <4>2. <<gaddr, faddr>>' = up.to
        BY <3>1, <4>1, PathIsPair DEF UpdateTrunk, T!Update
      <4>3. QED
        BY <2>1, <4>1, <4>2, NoPathIsNone
    <3>2. CASE ~UpdateTrunk
      <4>1. UNCHANGED <<gaddr, faddr>> /\ (fresh' => fresh)
        <5>1. ~StartTrunk
          BY <1>2 DEF StartTrunk, StartGoes
        <5>2. CASE T!TrunkFresh \/ T!TrunkStale
          BY <5>2 DEF T!TrunkFresh, T!TrunkStale
        <5>3. CASE T!Expire \/ UNCHANGED trunkVars
          BY <5>3 DEF T!Expire, trunkVars
        <5>4. QED
          BY RecorderSteps, <3>2, <5>1, <5>2, <5>3
      <4>2. QED
        BY <2>1, <4>1 DEF TrunkSound
    <3>3. QED
      BY <3>1, <3>2
  <2>4. MeasuresUsedPath'
    <3>1. CASE T!TrunkFresh \/ T!TrunkStale
      BY <1>2, <2>1, <3>1, TellsUsedPath DEF MeasuresUsedPath
    <3>2. CASE told' = told
      BY <2>1, <3>2 DEF MeasuresUsedPath, TrunkSound
    <3>3. QED
      BY RecorderSteps, <3>1, <3>2
      DEF StartTrunk, T!Make, UpdateTrunk, T!Update, T!Expire, trunkVars
  <2>5. QED
    BY <2>1, <2>2, <2>3, <2>4 DEF TrunkSound
<1>3. QED
  BY <1>1, <1>2

-----------------------------------------------------------------------------
LEMMA UplinkInvInit == Init => UplinkInv
<1> SUFFICES ASSUME Init PROVE UplinkInv
  OBVIOUS
<1>1. TypeOK
  BY TypeInit
<1>2. up.at = "capture" /\ \A p \in Prober : prober[p].at = "idle"
  BY DEF Init
<1>3. QED
  BY <1>1, <1>2 DEF Init, T!Init, T!NoPath, NoPath, UplinkInv, StartSound,
       UplinkSound, ProbeSound, OneProbePerServer, FlagsSound, TrunkSound,
       MeasuresUsedPath

LEMMA UplinkInvStep == UplinkInv /\ [Next]_vars => UplinkInv'
<1> SUFFICES ASSUME UplinkInv, [Next]_vars PROVE UplinkInv'
  OBVIOUS
<1> USE DEF UplinkInv
<1>1. CASE Next
  <2>1. TypeOK' /\ StartSound'
    BY <1>1, TypeStep, StartSoundStep
  <2>2. QED
    BY <1>1, <2>1, UplinkSoundStep, ProbeSoundStep, FlagsSoundStep, TrunkSoundStep
<1>2. CASE UNCHANGED vars
  BY <1>2 DEF vars, startVars, routeVars, trunkVars, TypeOK, T!TypeOK, StartSound,
              UplinkSound, ProbeSound, OneProbePerServer, FlagsSound, TrunkSound,
              MeasuresUsedPath, UsedPath
<1>3. QED
  BY <1>1, <1>2

LEMMA UplinkInvCorrect == Spec => []UplinkInv
  BY UplinkInvInit, UplinkInvStep, PTL DEF Spec

\* Every variable of the client's path choice keeps its type.
THEOREM UplinkTypeCorrect == Spec => []TypeOK
<1>1. UplinkInv => TypeOK
  BY DEF UplinkInv
<1>2. QED
  BY <1>1, UplinkInvCorrect, PTL

\* Nothing is matched before the route is initialised, and nothing is sent or
\* recorded without a path, although uplinkService runs from the start.
THEOREM NeverToNowhereCorrect == Spec => []NeverToNowhere
<1>1. UplinkInv => NeverToNowhere
  BY NoPathIsNone DEF UplinkInv, UplinkSound, StartSound, NeverToNowhere, T!Made
<1>2. QED
  BY <1>1, UplinkInvCorrect, PTL

\* Match never starts a second probe of a server while one runs.
THEOREM OneProbePerServerCorrect == Spec => []OneProbePerServer
<1>1. UplinkInv => OneProbePerServer
  BY DEF UplinkInv, ProbeSound
<1>2. QED
  BY <1>1, UplinkInvCorrect, PTL

\* A server's entry of the route table is never replaced.
THEOREM PathIsKeptCorrect == Spec => PathIsKept
<1>1. UplinkInv /\ [Next]_vars =>
        [\A s \in Server : routes[s] # NoPath => routes'[s] = routes[s]]_vars
  BY PathStep DEF UplinkInv
<1>2. QED
  BY <1>1, UplinkInvCorrect, PTL DEF Spec, PathIsKept

\* Trunk answers a path that packets are sent on.
THEOREM MeasuresUsedPathCorrect == Spec => []MeasuresUsedPath
<1>1. UplinkInv => MeasuresUsedPath
  BY DEF UplinkInv, TrunkSound
<1>2. QED
  BY <1>1, UplinkInvCorrect, PTL

\* Trunk reports every change of its answer.
THEOREM ChangesAreReportedCorrect == Spec => []ChangesAreReported
<1>1. UplinkInv => ChangesAreReported
  BY DEF UplinkInv, FlagsSound, ChangesAreReported, T!ChangesAreReported
<1>2. QED
  BY <1>1, UplinkInvCorrect, PTL
=================================================================================
