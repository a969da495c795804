------------------------------- MODULE TrunkRoute -------------------------------
(***************************************************************************)
(* trunkRouteRecorder (nodes/client/message.go): which gateway and forward *)
(* the statistics of the client are measured on.  uplinkService records    *)
(* the path of every play packet with Update; Trunk answers the last one,  *)
(* or, when none was recorded for `scale', the path found at start, and    *)
(* says whether that differs from its previous answer.                     *)
(*                                                                         *)
(* Both methods hold the recorder's mutex, so each is one action.  The     *)
(* clock is the Boolean `fresh': an update younger than `scale'.           *)
(***************************************************************************)
EXTENDS Naturals

CONSTANTS Gateway, Forward,
          Path,      \* the <<gateway, forward>> pairs that answer probes
          NoAddr     \* the zero netip.AddrPort

NoPath == <<NoAddr, NoAddr>>

VARIABLES initial,       \* initPaddr, initFaddr
          lastWasInit,
          fresh,
          updated,
          gaddr, faddr,
          told,          \* the last answer of Trunk, NoPath before the first
          heard          \* what a caller knows that looks only when told to

vars == <<initial, lastWasInit, fresh, updated, gaddr, faddr, told, heard>>

\* A recorder that exists has an initial path.
Made == initial # NoPath

Init ==
  /\ initial = NoPath
  /\ lastWasInit = FALSE
  /\ fresh = FALSE
  /\ updated = FALSE
  /\ gaddr = NoAddr /\ faddr = NoAddr
  /\ told = NoPath /\ heard = NoPath

Make(path) ==
  /\ initial' = path
  /\ UNCHANGED <<lastWasInit, fresh, updated, gaddr, faddr, told, heard>>

Told(path, changed) ==
  /\ told' = path
  /\ heard' = IF changed THEN path ELSE heard

TrunkFresh ==
  /\ Made /\ fresh
  /\ Told(<<gaddr, faddr>>, updated \/ lastWasInit)
  /\ updated' = FALSE
  /\ lastWasInit' = FALSE
  /\ UNCHANGED <<initial, fresh, gaddr, faddr>>

\* Mutant: the answer from before the time limit is not remembered as such.
TrunkStaleForgets ==
  /\ Made /\ ~fresh
  /\ Told(initial, ~lastWasInit)
  /\ UNCHANGED <<initial, lastWasInit, fresh, updated, gaddr, faddr>>

TrunkStale ==
  /\ Made /\ ~fresh
  /\ Told(initial, ~lastWasInit)
  /\ lastWasInit' = TRUE
  /\ UNCHANGED <<initial, fresh, updated, gaddr, faddr>>

Trunk == TrunkFresh \/ TrunkStale

\* Mutant: only the gateway of the path is recorded.
UpdateGateway(path) ==
  /\ gaddr' = path[1]
  /\ faddr' = IF faddr = NoAddr THEN path[2] ELSE faddr
  /\ updated' = (updated \/ path # <<gaddr, faddr>>)
  /\ fresh' = TRUE
  /\ UNCHANGED <<initial, lastWasInit, told, heard>>

Update(path) ==
  /\ gaddr' = path[1]
  /\ faddr' = path[2]
  /\ updated' = (updated \/ path # <<gaddr, faddr>>)
  /\ fresh' = TRUE
  /\ UNCHANGED <<initial, lastWasInit, told, heard>>

\* `scale' passes without an Update.
Expire ==
  /\ fresh
  /\ fresh' = FALSE
  /\ UNCHANGED <<initial, lastWasInit, updated, gaddr, faddr, told, heard>>

Addrs == (Gateway \cup {NoAddr}) \X (Forward \cup {NoAddr})

TypeOK ==
  /\ initial \in Path \cup {NoPath}
  /\ lastWasInit \in BOOLEAN /\ fresh \in BOOLEAN /\ updated \in BOOLEAN
  /\ <<gaddr, faddr>> \in Addrs
  /\ told \in Addrs /\ heard \in Addrs

(***************************************************************************)
(* A caller of Trunk that reads the path only when `updata' is set always  *)
(* holds the path of the last answer: no change goes unreported, whichever *)
(* way updates, time-outs of them and calls follow one another             *)
(* (message.go:90-116).                                                    *)
(***************************************************************************)
ChangesAreReported == heard = told
=================================================================================
