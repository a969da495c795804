------------------------------ MODULE PingerProofs ------------------------------
(***************************************************************************)
(* Theorems about Pinger for any number of servers and requests, any       *)
(* capacity of the channel and any period of the sweep.                    *)
(***************************************************************************)
EXTENDS Pinger, FiniteSetTheorems, TLAPS

(***************************************************************************)
(* A key in the table is the last of its server; only keys in the table    *)
(* have Pings that wait on them; a server whose echo uplinkService is      *)
(* about to send has no key; and recvService has found a key that is still *)
(* in the table.                                                           *)
(***************************************************************************)
KeySound ==
  /\ \A a \in Addr : inflight[a] # None =>
       inflight[a] <= pinged /\ addr[inflight[a]] = a
  /\ \A k \in Ping : infos[k] # {} => k <= pinged /\ inflight[addr[k]] = k
  /\ up \in {"ping", "echo", "register"} => pinged # 0
  /\ up \in {"echo", "register"} => inflight[addr[pinged]] = None
  /\ recv = "found" => key # None /\ key <= pinged /\ inflight[addr[key]] = key
  /\ recv # "fan" => todo = {}
  /\ ps = "write" <=> sending # None

(***************************************************************************)
(* Each Ping so far is in one place, and waits on one key at most.         *)
(***************************************************************************)
WaitsOn(i, k) == k \in Ping /\ i \in infos[k]
Waits(i) == \E k \in Ping : WaitsOn(i, k)

OnePlace ==
  /\ \A i, k, l \in Ping : WaitsOn(i, k) /\ WaitsOn(i, l) => k = l
  /\ \A i \in Ping :
       /\ i <= pinged <=> \/ i \in InHand \/ Waits(i) \/ i \in todo \/ i \in buff
                         \/ i = sending \/ i \in ended
       /\ i \in InHand => ~(Waits(i) \/ i \in todo \/ i \in buff \/ i = sending \/ i \in ended)
       /\ Waits(i) => ~(i \in todo \/ i \in buff \/ i = sending \/ i \in ended)
       /\ i \in todo => ~(i \in buff \/ i = sending \/ i \in ended)
       /\ i \in buff => ~(i = sending \/ i \in ended)
       /\ i = sending => i \notin ended

(***************************************************************************)
(* As long as a server is not excused, the only reply that may still come  *)
(* from it is to the key in the table that recvService has not found, or   *)
(* to the echo about to be entered there.                                  *)
(***************************************************************************)
OneEcho ==
  /\ \A e \in replies : e <= pinged
  /\ \A e \in replies : addr[e] \notin excused =>
       \/ inflight[addr[e]] = e /\ ~(recv = "found" /\ key = e)
       \/ up = "register" /\ pinged = e
  /\ ~crossed

(***************************************************************************)
(* The channel is closed only after the pinger, and the pinger, short of a *)
(* panic, only by recvService on its way out.                              *)
(***************************************************************************)
ClosedInOrder ==
  /\ pclosed => recv \in {"close", "done"}
  /\ fclose # "no" => pclosed
  /\ ~open => fclose \in {"links", "end"}

PingerInv == TypeOK /\ KeySound /\ OnePlace /\ OneEcho /\ ClosedInOrder

-----------------------------------------------------------------------------
(* Types *)

LEMMA TypeInit == Init => TypeOK
<1> SUFFICES ASSUME Init PROVE TypeOK
  OBVIOUS
<1>1. AnyAddr \in Addr
  BY PingerAssumption DEF AnyAddr
<1>2. addr \in [Ping -> Addr] /\ inflight \in [Addr -> Ping \cup {None}]
  BY <1>1 DEF Init
<1>3. infos \in [Ping -> SUBSET Ping]
  BY DEF Init
<1>4. pinged \in 0..MaxPings /\ turn \in 0..(Period - 1)
  BY PingerAssumption DEF Init
<1>5. Cardinality(buff) <= Cap
  BY PingerAssumption, FS_EmptySet DEF Init
<1>6. QED
  BY <1>2, <1>3, <1>4, <1>5 DEF Init, TypeOK

LEMMA BuffFinite == ASSUME TypeOK PROVE IsFiniteSet(buff) /\ Cardinality(buff) \in Nat
<1>1. IsFiniteSet(Ping)
  BY PingerAssumption, FS_Interval DEF Ping
<1>2. buff \subseteq Ping
  BY DEF TypeOK
<1>3. QED
  BY <1>1, <1>2, FS_Subset, FS_CardinalityType

LEMMA TypeStep ==
  ASSUME TypeOK, KeySound, [Next]_vars
  PROVE  TypeOK'
<1>0. /\ up \in {"ping", "echo", "register"} => pinged \in Ping
      /\ recv = "found" => key \in Ping
      /\ ps = "write" => sending \in Ping
  BY PingerAssumption DEF TypeOK, KeySound, Ping, None
<1> USE PingerAssumption, <1>0 DEF TypeOK, None
<1>1. ASSUME NEW a \in Addr, Receive(a) PROVE TypeOK'
  BY <1>1 DEF Receive, pingVars, keyVars, recvVars, chanVars, psVars, endVars, history, Ping
<1>2. ASSUME NEW a \in Addr, NEW e \in Ping \cup {None}, Message(a, e) PROVE TypeOK'
  BY <1>2 DEF Message, pingVars, keyVars, recvVars, chanVars, psVars, endVars, history
<1>3. ASSUME NEW k \in Ping, Age(k) PROVE TypeOK'
  BY <1>3 DEF Age, pingVars, keyVars, recvVars, chanVars, psVars, endVars, history
<1>4. CASE Join
  BY <1>4 DEF Join, pingVars, keyVars, recvVars, chanVars, psVars, endVars, history, Ping
<1>5. CASE Echo
  BY <1>5 DEF Echo, pingVars, keyVars, recvVars, chanVars, psVars, endVars, history, Ping
<1>6. CASE EchoFails
  BY <1>6 DEF EchoFails, pingVars, keyVars, recvVars, chanVars, psVars, endVars, history, Ping
<1>7. CASE Register
  BY <1>7 DEF Register, pingVars, keyVars, recvVars, chanVars, psVars, endVars, history, Ping
<1>8. CASE Delete
  BY <1>8 DEF Delete, pingVars, keyVars, recvVars, chanVars, psVars, endVars, history
<1>9. ASSUME NEW i \in Ping, Offer(i) PROVE TypeOK'
  <2>1. CASE Room /\ buff' = buff \cup {i} /\ UNCHANGED ended
    <3>1. /\ Cardinality(buff) < Cap
          /\ Cardinality(buff') = Cardinality(buff) \/ Cardinality(buff') = Cardinality(buff) + 1
      BY <2>1, BuffFinite, FS_AddElement DEF Room
    <3>2. Cardinality(buff') <= Cap
      BY <3>1, BuffFinite
    <3>3. QED
      BY <1>9, <2>1, <3>2 DEF Offer, pingVars, keyVars, psVars, endVars
  <2>2. CASE ended' = ended \cup {i} /\ UNCHANGED buff
    BY <1>9, <2>2 DEF Offer, pingVars, keyVars, psVars, endVars
  <2>3. QED
    BY <1>9, <2>1, <2>2 DEF Offer
<1>10. CASE Turn
  <2>1. turn' \in 0..(Period - 1)
    BY <1>10 DEF Turn
  <2>2. inflight' \in [Addr -> Ping \cup {None}] /\ infos' \in [Ping -> SUBSET Ping]
    BY <1>10 DEF Turn
  <2>3. UNION {infos[inflight[a]] : a \in Stale} \subseteq Ping /\ Stale \subseteq Addr
    BY DEF Stale
  <2>4. ended' \subseteq Ping /\ excused' \subseteq Addr /\ old' \subseteq Ping
    BY <1>10, <2>3 DEF Turn
  <2>5. QED
    BY <1>10, <2>1, <2>2, <2>4 DEF Turn, pingVars, chanVars, psVars, endVars
<1>11. CASE CloseIcmp
  BY <1>11 DEF CloseIcmp, pingVars, keyVars, recvVars, chanVars, psVars, endVars, history
<1>12. ASSUME NEW i \in Ping, Take(i) PROVE TypeOK'
  <2>1. IsFiniteSet(buff) /\ Cardinality(buff) \in Nat /\ Cardinality(buff') \in Nat
        /\ Cardinality(buff') <= Cardinality(buff)
    BY <1>12, BuffFinite, FS_Subset, FS_CardinalityType DEF Take
  <2>2. Cardinality(buff') <= Cap
    BY <2>1
  <2>3. QED
    BY <1>12, <2>2 DEF Take, pingVars, keyVars, recvVars, endVars, history
<1>13. CASE Write
  BY <1>13 DEF Write, pingVars, keyVars, recvVars, chanVars, psVars, endVars, history
<1>14. CASE RangeEnds
  BY <1>14 DEF RangeEnds, pingVars, keyVars, recvVars, chanVars, psVars, endVars, history
<1>15. CASE ReceiveFails
  BY <1>15 DEF ReceiveFails, pingVars, keyVars, recvVars, chanVars, psVars, endVars, history
<1>16. CASE MessageFails
  BY <1>16 DEF MessageFails, pingVars, keyVars, recvVars, chanVars, psVars, endVars, history
<1>17. CASE WriteFails
  BY <1>17 DEF WriteFails, pingVars, keyVars, recvVars, chanVars, psVars, endVars, history
<1>18. CASE CloseFirst
  BY <1>18 DEF CloseFirst, pingVars, keyVars, recvVars, chanVars, psVars, endVars, history, PingerClose
<1>19. CASE CloseChan
  BY <1>19 DEF CloseChan, pingVars, keyVars, recvVars, chanVars, psVars, endVars, history
<1>20. CASE CloseLinks
  BY <1>20 DEF CloseLinks, pingVars, keyVars, recvVars, chanVars, psVars, endVars, history
<1>21. CASE CloseAgain
  BY <1>21 DEF CloseAgain, pingVars, keyVars, recvVars, chanVars, psVars, endVars, history
<1>22. CASE UNCHANGED vars
  BY <1>22 DEF vars, pingVars, keyVars, recvVars, chanVars, psVars, endVars, history
<1>23. QED
  BY <1>1, <1>2, <1>3, <1>4, <1>5, <1>6, <1>7, <1>8, <1>9, <1>10, <1>11, <1>12, <1>13,
     <1>14, <1>15, <1>16, <1>17, <1>18, <1>19, <1>20, <1>21, <1>22 DEF Next, Uplink, RecvStep, PingService, Stray, Reply

-----------------------------------------------------------------------------
(* Keys *)

LEMMA KeyStep ==
  ASSUME TypeOK, KeySound, [Next]_vars
  PROVE  KeySound'
<1> USE PingerAssumption DEF TypeOK, KeySound, None, Ping
<1>1. ASSUME NEW a \in Addr, Receive(a) PROVE KeySound'
  BY <1>1 DEF Receive, pingVars, keyVars, recvVars, chanVars, psVars, endVars, history
<1>2. ASSUME NEW a \in Addr, NEW e \in Ping \cup {None}, Message(a, e) PROVE KeySound'
  BY <1>2 DEF Message, pingVars, keyVars, recvVars, chanVars, psVars, endVars, history
<1>3. ASSUME NEW k \in Ping, Age(k) PROVE KeySound'
  BY <1>3 DEF Age, pingVars, keyVars, recvVars, chanVars, psVars, endVars, history
<1>4. CASE Join
  BY <1>4 DEF Join, pingVars, keyVars, recvVars, chanVars, psVars, endVars, history
<1>5. CASE Echo
  BY <1>5 DEF Echo, pingVars, keyVars, recvVars, chanVars, psVars, endVars, history
<1>6. CASE EchoFails
  BY <1>6 DEF EchoFails, pingVars, keyVars, recvVars, chanVars, psVars, endVars, history
<1>7. CASE Register
  BY <1>7 DEF Register, pingVars, keyVars, recvVars, chanVars, psVars, endVars, history
<1>8. CASE Delete
  BY <1>8 DEF Delete, pingVars, keyVars, recvVars, chanVars, psVars, endVars, history
<1>9. ASSUME NEW i \in Ping, Offer(i) PROVE KeySound'
  BY <1>9 DEF Offer, pingVars, keyVars, recvVars, chanVars, psVars, endVars, history
<1>10. CASE Turn
  <2> DEFINE Gone == {inflight[a] : a \in Stale}
  <2>1. CASE ~Sweeps
    BY <1>10, <2>1 DEF Turn, pingVars, chanVars, psVars, endVars
  <2>2. CASE Sweeps
    <3>1. \A a \in Addr : inflight'[a] = IF a \in Stale THEN None ELSE inflight[a]
      BY <1>10, <2>2 DEF Turn
    <3>2. infos' = [k \in Ping |-> IF k \in Gone THEN {} ELSE infos[k]]
      BY <1>10, <2>2 DEF Turn
    <3>3. ASSUME NEW k \in Ping, infos'[k] # {} PROVE k <= pinged /\ inflight'[addr[k]] = k
      <4>1. infos[k] # {} /\ k \notin Gone
        BY <3>2, <3>3
      <4>2. k <= pinged /\ inflight[addr[k]] = k /\ addr[k] \notin Stale
        BY <4>1
      <4>3. QED
        BY <3>1, <4>2
    <3>4. QED
      BY <1>10, <3>1, <3>3 DEF Turn, pingVars, psVars
  <2>3. QED
    BY <2>1, <2>2
<1>11. CASE CloseIcmp
  BY <1>11 DEF CloseIcmp, pingVars, keyVars, recvVars, chanVars, psVars, endVars, history
<1>12. ASSUME NEW i \in Ping, Take(i) PROVE KeySound'
  BY <1>12 DEF Take, pingVars, keyVars, recvVars, chanVars, psVars, endVars, history
<1>13. CASE Write
  BY <1>13 DEF Write, pingVars, keyVars, recvVars, chanVars, psVars, endVars, history
<1>14. CASE RangeEnds
  BY <1>14 DEF RangeEnds, pingVars, keyVars, recvVars, chanVars, psVars, endVars, history
<1>15. CASE ReceiveFails
  BY <1>15 DEF ReceiveFails, pingVars, keyVars, recvVars, chanVars, psVars, endVars, history
<1>16. CASE MessageFails
  BY <1>16 DEF MessageFails, pingVars, keyVars, recvVars, chanVars, psVars, endVars, history
<1>17. CASE WriteFails
  BY <1>17 DEF WriteFails, pingVars, keyVars, recvVars, chanVars, psVars, endVars, history
<1>18. CASE CloseFirst
  BY <1>18 DEF CloseFirst, pingVars, keyVars, recvVars, chanVars, psVars, endVars, history, PingerClose
<1>19. CASE CloseChan
  BY <1>19 DEF CloseChan, pingVars, keyVars, recvVars, chanVars, psVars, endVars, history
<1>20. CASE CloseLinks
  BY <1>20 DEF CloseLinks, pingVars, keyVars, recvVars, chanVars, psVars, endVars, history
<1>21. CASE CloseAgain
  BY <1>21 DEF CloseAgain, pingVars, keyVars, recvVars, chanVars, psVars, endVars, history
<1>22. CASE UNCHANGED vars
  BY <1>22 DEF vars, pingVars, keyVars, recvVars, chanVars, psVars, endVars, history
<1>23. QED
  BY <1>1, <1>2, <1>3, <1>4, <1>5, <1>6, <1>7, <1>8, <1>9, <1>10, <1>11, <1>12, <1>13,
     <1>14, <1>15, <1>16, <1>17, <1>18, <1>19, <1>20, <1>21, <1>22 DEF Next, Uplink, RecvStep, PingService, Stray, Reply

-----------------------------------------------------------------------------
(* Places *)

LEMMA PlaceStep ==
  ASSUME TypeOK, KeySound, OnePlace, [Next]_vars
  PROVE  OnePlace'
<1> USE PingerAssumption DEF TypeOK, KeySound, None, Ping, OnePlace, InHand, Waits, WaitsOn
<1>1. ASSUME NEW a \in Addr, Receive(a) PROVE OnePlace'
  BY <1>1 DEF Receive, pingVars, keyVars, recvVars, chanVars, psVars, endVars, history
<1>2. ASSUME NEW a \in Addr, NEW e \in Ping \cup {None}, Message(a, e) PROVE OnePlace'
  BY <1>2 DEF Message, pingVars, keyVars, recvVars, chanVars, psVars, endVars, history
<1>3. ASSUME NEW k \in Ping, Age(k) PROVE OnePlace'
  BY <1>3 DEF Age, pingVars, keyVars, recvVars, chanVars, psVars, endVars, history
<1>4. CASE Join
  <2>1. UNCHANGED <<pinged, todo, buff, sending, ended>>
    BY <1>4 DEF Join, pingVars, recvVars, chanVars, psVars, history
  <2>2. CASE up' = "echo" /\ UNCHANGED infos
    BY <1>4, <2>1, <2>2 DEF Join
  <2>3. ASSUME NEW k \in Ping, up' = "read", infos' = [infos EXCEPT ![k] = @ \cup {pinged}]
        PROVE  OnePlace'
    <3>1. pinged \in InHand /\ pinged \in Ping
      BY <1>4 DEF Join
    <3>2. ~Waits(pinged)
      BY <3>1
    <3>3. \A i, l \in Ping : (i \in infos'[l]) <=> (i \in infos[l] \/ (i = pinged /\ l = k))
      BY <2>3
    <3>4. InHand' = {} /\ InHand = {pinged}
      BY <1>4, <2>3 DEF Join
    <3>5. \A i \in Ping : Waits(i)' <=> Waits(i) \/ i = pinged
      BY <3>3
    <3>6. \A i, l, m \in Ping : WaitsOn(i, l)' /\ WaitsOn(i, m)' => l = m
      BY <3>2, <3>3
    <3> HIDE DEF InHand, Waits, WaitsOn
    <3>7. QED
      BY <2>1, <3>1, <3>2, <3>4, <3>5, <3>6
  <2>4. QED
    BY <1>4, <2>2, <2>3 DEF Join
<1>5. CASE Echo
  BY <1>5 DEF Echo, pingVars, keyVars, recvVars, chanVars, psVars, endVars, history
<1>6. CASE EchoFails
  BY <1>6 DEF EchoFails, pingVars, keyVars, recvVars, chanVars, psVars, endVars, history
<1>7. CASE Register
  BY <1>7 DEF Register, pingVars, keyVars, recvVars, chanVars, psVars, endVars, history
<1>8. CASE Delete
  BY <1>8 DEF Delete, pingVars, keyVars, recvVars, chanVars, psVars, endVars, history
<1>9. ASSUME NEW i \in Ping, Offer(i) PROVE OnePlace'
  BY <1>9 DEF Offer, pingVars, keyVars, recvVars, chanVars, psVars, endVars, history
<1>10. CASE Turn
  <2> DEFINE Gone == {inflight[a] : a \in Stale}
  <2>1. CASE ~Sweeps
    BY <1>10, <2>1 DEF Turn, pingVars, chanVars, psVars
  <2>2. CASE Sweeps
    <3>1. infos' = [k \in Ping |-> IF k \in Gone THEN {} ELSE infos[k]]
      BY <1>10, <2>2 DEF Turn
    <3>2. \A i \in Ping : i \in ended' <=> i \in ended \/ \E k \in Gone : i \in infos[k]
      BY <1>10, <2>2 DEF Turn
    <3>3. Gone \subseteq Ping
      BY DEF Stale
    <3>4. UNCHANGED <<pinged, up, todo, buff, sending>>
      BY <1>10 DEF Turn, pingVars, chanVars, psVars
    <3> HIDE DEF Gone
    <3>5. QED
      BY <3>1, <3>2, <3>3, <3>4
  <2>3. QED
    BY <2>1, <2>2
<1>11. CASE CloseIcmp
  BY <1>11 DEF CloseIcmp, pingVars, keyVars, recvVars, chanVars, psVars, endVars, history
<1>12. ASSUME NEW i \in Ping, Take(i) PROVE OnePlace'
  BY <1>12 DEF Take, pingVars, keyVars, recvVars, chanVars, psVars, endVars, history
<1>13. CASE Write
  BY <1>13 DEF Write, pingVars, keyVars, recvVars, chanVars, psVars, endVars, history
<1>14. CASE RangeEnds
  BY <1>14 DEF RangeEnds, pingVars, keyVars, recvVars, chanVars, psVars, endVars, history
<1>15. CASE ReceiveFails
  BY <1>15 DEF ReceiveFails, pingVars, keyVars, recvVars, chanVars, psVars, endVars, history
<1>16. CASE MessageFails
  BY <1>16 DEF MessageFails, pingVars, keyVars, recvVars, chanVars, psVars, endVars, history
<1>17. CASE WriteFails
  BY <1>17 DEF WriteFails, pingVars, keyVars, recvVars, chanVars, psVars, endVars, history
<1>18. CASE CloseFirst
  BY <1>18 DEF CloseFirst, pingVars, keyVars, recvVars, chanVars, psVars, endVars, history, PingerClose
<1>19. CASE CloseChan
  BY <1>19 DEF CloseChan, pingVars, keyVars, recvVars, chanVars, psVars, endVars, history
<1>20. CASE CloseLinks
  BY <1>20 DEF CloseLinks, pingVars, keyVars, recvVars, chanVars, psVars, endVars, history
<1>21. CASE CloseAgain
  BY <1>21 DEF CloseAgain, pingVars, keyVars, recvVars, chanVars, psVars, endVars, history
<1>22. CASE UNCHANGED vars
  BY <1>22 DEF vars, pingVars, keyVars, recvVars, chanVars, psVars, endVars, history
<1>23. QED
  BY <1>1, <1>2, <1>3, <1>4, <1>5, <1>6, <1>7, <1>8, <1>9, <1>10, <1>11, <1>12, <1>13,
     <1>14, <1>15, <1>16, <1>17, <1>18, <1>19, <1>20, <1>21, <1>22 DEF Next, Uplink, RecvStep, PingService, Stray, Reply

-----------------------------------------------------------------------------
(* Echoes *)

LEMMA EchoStep ==
  ASSUME TypeOK, KeySound, OneEcho, [Next]_vars
  PROVE  OneEcho'
<1> USE PingerAssumption DEF TypeOK, KeySound, None, Ping, OneEcho
<1>1. ASSUME NEW a \in Addr, Receive(a) PROVE OneEcho'
  BY <1>1 DEF Receive, pingVars, keyVars, recvVars, chanVars, psVars, endVars, history
<1>2. ASSUME NEW a \in Addr, NEW e \in Ping \cup {None}, Message(a, e) PROVE OneEcho'
  BY <1>2 DEF Message, pingVars, keyVars, recvVars, chanVars, psVars, endVars, history
<1>3. ASSUME NEW k \in Ping, Age(k) PROVE OneEcho'
  BY <1>3 DEF Age, pingVars, keyVars, recvVars, chanVars, psVars, endVars, history
<1>4. CASE Join
  BY <1>4 DEF Join, pingVars, keyVars, recvVars, chanVars, psVars, endVars, history
<1>5. CASE Echo
  BY <1>5 DEF Echo, pingVars, keyVars, recvVars, chanVars, psVars, endVars, history
<1>6. CASE EchoFails
  BY <1>6 DEF EchoFails, pingVars, keyVars, recvVars, chanVars, psVars, endVars, history
<1>7. CASE Register
  BY <1>7 DEF Register, pingVars, keyVars, recvVars, chanVars, psVars, endVars, history
<1>8. CASE Delete
  BY <1>8 DEF Delete, pingVars, keyVars, recvVars, chanVars, psVars, endVars, history
<1>9. ASSUME NEW i \in Ping, Offer(i) PROVE OneEcho'
  BY <1>9 DEF Offer, pingVars, keyVars, recvVars, chanVars, psVars, endVars, history
<1>10. CASE Turn
  BY <1>10 DEF Turn, pingVars, keyVars, recvVars, chanVars, psVars, endVars, history
<1>11. CASE CloseIcmp
  BY <1>11 DEF CloseIcmp, pingVars, keyVars, recvVars, chanVars, psVars, endVars, history
<1>12. ASSUME NEW i \in Ping, Take(i) PROVE OneEcho'
  BY <1>12 DEF Take, pingVars, keyVars, recvVars, chanVars, psVars, endVars, history
<1>13. CASE Write
  BY <1>13 DEF Write, pingVars, keyVars, recvVars, chanVars, psVars, endVars, history
<1>14. CASE RangeEnds
  BY <1>14 DEF RangeEnds, pingVars, keyVars, recvVars, chanVars, psVars, endVars, history
<1>15. CASE ReceiveFails
  BY <1>15 DEF ReceiveFails, pingVars, keyVars, recvVars, chanVars, psVars, endVars, history
<1>16. CASE MessageFails
  BY <1>16 DEF MessageFails, pingVars, keyVars, recvVars, chanVars, psVars, endVars, history
<1>17. CASE WriteFails
  BY <1>17 DEF WriteFails, pingVars, keyVars, recvVars, chanVars, psVars, endVars, history
<1>18. CASE CloseFirst
  BY <1>18 DEF CloseFirst, pingVars, keyVars, recvVars, chanVars, psVars, endVars, history, PingerClose
<1>19. CASE CloseChan
  BY <1>19 DEF CloseChan, pingVars, keyVars, recvVars, chanVars, psVars, endVars, history
<1>20. CASE CloseLinks
  BY <1>20 DEF CloseLinks, pingVars, keyVars, recvVars, chanVars, psVars, endVars, history
<1>21. CASE CloseAgain
  BY <1>21 DEF CloseAgain, pingVars, keyVars, recvVars, chanVars, psVars, endVars, history
<1>22. CASE UNCHANGED vars
  BY <1>22 DEF vars, pingVars, keyVars, recvVars, chanVars, psVars, endVars, history
<1>23. QED
  BY <1>1, <1>2, <1>3, <1>4, <1>5, <1>6, <1>7, <1>8, <1>9, <1>10, <1>11, <1>12, <1>13,
     <1>14, <1>15, <1>16, <1>17, <1>18, <1>19, <1>20, <1>21, <1>22 DEF Next, Uplink, RecvStep, PingService, Stray, Reply

-----------------------------------------------------------------------------
(* Closing *)

LEMMA ClosedStep ==
  ASSUME TypeOK, KeySound, ClosedInOrder, [Next]_vars
  PROVE  ClosedInOrder'
<1>1. ASSUME NEW a \in Addr, Receive(a) PROVE ClosedInOrder'
  BY <1>1 DEF Receive, pingVars, keyVars, recvVars, chanVars, psVars, endVars, history, ClosedInOrder
<1>2. ASSUME NEW a \in Addr, NEW e \in Ping \cup {None}, Message(a, e) PROVE ClosedInOrder'
  BY <1>2 DEF Message, pingVars, keyVars, recvVars, chanVars, psVars, endVars, history, ClosedInOrder
<1>3. ASSUME NEW k \in Ping, Age(k) PROVE ClosedInOrder'
  BY <1>3 DEF Age, pingVars, keyVars, recvVars, chanVars, psVars, endVars, history, ClosedInOrder
<1>4. CASE Join
  BY <1>4 DEF Join, pingVars, keyVars, recvVars, chanVars, psVars, endVars, history, ClosedInOrder
<1>5. CASE Echo
  BY <1>5 DEF Echo, pingVars, keyVars, recvVars, chanVars, psVars, endVars, history, ClosedInOrder
<1>6. CASE EchoFails
  BY <1>6 DEF EchoFails, pingVars, keyVars, recvVars, chanVars, psVars, endVars, history, ClosedInOrder
<1>7. CASE Register
  BY <1>7 DEF Register, pingVars, keyVars, recvVars, chanVars, psVars, endVars, history, ClosedInOrder
<1>8. CASE Delete
  BY <1>8 DEF Delete, pingVars, keyVars, recvVars, chanVars, psVars, endVars, history, ClosedInOrder
<1>9. ASSUME NEW i \in Ping, Offer(i) PROVE ClosedInOrder'
  BY <1>9 DEF Offer, pingVars, keyVars, recvVars, chanVars, psVars, endVars, history, ClosedInOrder
<1>10. CASE Turn
  BY <1>10 DEF Turn, pingVars, keyVars, recvVars, chanVars, psVars, endVars, history, ClosedInOrder
<1>11. CASE CloseIcmp
  BY <1>11 DEF CloseIcmp, pingVars, keyVars, recvVars, chanVars, psVars, endVars, history, ClosedInOrder
<1>12. ASSUME NEW i \in Ping, Take(i) PROVE ClosedInOrder'
  BY <1>12 DEF Take, pingVars, keyVars, recvVars, chanVars, psVars, endVars, history, ClosedInOrder
<1>13. CASE Write
  BY <1>13 DEF Write, pingVars, keyVars, recvVars, chanVars, psVars, endVars, history, ClosedInOrder
<1>14. CASE RangeEnds
  BY <1>14 DEF RangeEnds, pingVars, keyVars, recvVars, chanVars, psVars, endVars, history, ClosedInOrder
<1>15. CASE ReceiveFails
  BY <1>15 DEF ReceiveFails, pingVars, keyVars, recvVars, chanVars, psVars, endVars, history, ClosedInOrder
<1>16. CASE MessageFails
  BY <1>16 DEF MessageFails, pingVars, keyVars, recvVars, chanVars, psVars, endVars, history, ClosedInOrder
<1>17. CASE WriteFails
  BY <1>17 DEF WriteFails, pingVars, keyVars, recvVars, chanVars, psVars, endVars, history, ClosedInOrder
<1>18. CASE CloseFirst
  BY <1>18 DEF CloseFirst, pingVars, keyVars, recvVars, chanVars, psVars, endVars, history, PingerClose, ClosedInOrder
<1>19. CASE CloseChan
  BY <1>19 DEF CloseChan, pingVars, keyVars, recvVars, chanVars, psVars, endVars, history, ClosedInOrder
<1>20. CASE CloseLinks
  BY <1>20 DEF CloseLinks, pingVars, keyVars, recvVars, chanVars, psVars, endVars, history, ClosedInOrder
<1>21. CASE CloseAgain
  BY <1>21 DEF CloseAgain, pingVars, keyVars, recvVars, chanVars, psVars, endVars, history, ClosedInOrder
<1>22. CASE UNCHANGED vars
  BY <1>22 DEF vars, ClosedInOrder, pingVars, keyVars, recvVars, chanVars, psVars, endVars, history
<1>23. QED
  BY <1>1, <1>2, <1>3, <1>4, <1>5, <1>6, <1>7, <1>8, <1>9, <1>10, <1>11, <1>12, <1>13,
     <1>14, <1>15, <1>16, <1>17, <1>18, <1>19, <1>20, <1>21, <1>22 DEF Next, Uplink, RecvStep, PingService, Stray, Reply, TypeOK

-----------------------------------------------------------------------------
(* The inductive invariant *)

LEMMA InvInit == Init => PingerInv
<1> SUFFICES ASSUME Init PROVE PingerInv
  OBVIOUS
<1>1. TypeOK
  BY TypeInit
<1>2. KeySound
  BY DEF Init, KeySound, Ping, None
<1>3. OnePlace
  BY PingerAssumption DEF Init, OnePlace, InHand, Waits, WaitsOn, Ping, None
<1>4. OneEcho /\ ClosedInOrder
  BY DEF Init, OneEcho, ClosedInOrder
<1>5. QED
  BY <1>1, <1>2, <1>3, <1>4 DEF PingerInv

LEMMA PingerAlways == Spec => []PingerInv
<1>1. Init => PingerInv
  BY InvInit
<1>2. PingerInv /\ [Next]_vars => PingerInv'
  BY TypeStep, KeyStep, PlaceStep, EchoStep, ClosedStep DEF PingerInv
<1>3. QED
  BY <1>1, <1>2, PTL DEF Spec

\* The Pings that wait are those of the keys in the table.
LEMMA WaitingIs ==
  ASSUME TypeOK, KeySound
  PROVE  Waiting = {i \in Ping : Waits(i)}
<1> USE DEF TypeOK, KeySound
<1>1. ASSUME NEW i \in Waiting PROVE i \in Ping /\ Waits(i)
  BY <1>1 DEF Waiting, Waits, WaitsOn, None
<1>2. ASSUME NEW i \in Ping, Waits(i) PROVE i \in Waiting
  <2>1. PICK k \in Ping : i \in infos[k]
    BY <1>2 DEF Waits, WaitsOn
  <2>2. inflight[addr[k]] = k /\ addr[k] \in Addr /\ k # None
    BY <2>1 DEF Ping, None
  <2>3. QED
    BY <2>1, <2>2 DEF Waiting
<1>3. QED
  BY <1>1, <1>2

-----------------------------------------------------------------------------
(* The theorems *)

\* The pinger, its channel and the goroutines about it hold values of their types;
\* the channel never holds more than its capacity.
THEOREM PingerTypeCorrect == Spec => []TypeOK
<1>1. PingerInv => TypeOK
  BY DEF PingerInv
<1>2. QED
  BY <1>1, PingerAlways, PTL

\* No PingServer is lost or answered twice, however joining a key and finding,
\* deleting and sweeping it interleave (pinger.go:108, 156, 176).
THEOREM NoneForgottenCorrect == Spec => []NoneForgotten
<1>1. ASSUME PingerInv PROVE NoneForgotten
  <2> USE PingerAssumption, <1>1 DEF PingerInv
  <2> DEFINE Sent == {sending} \ {None}
  <2>1. InHand \subseteq Ping /\ Sent \subseteq Ping /\ 1..pinged \subseteq Ping
    BY DEF InHand, TypeOK, KeySound, Ping, None
  <2>2. \A i \in Ping : i = sending <=> i \in Sent
    BY DEF Ping, None
  <2>3. \A i \in Ping : i <= pinged <=> i \in 1..pinged
    BY DEF TypeOK, Ping
  <2>4. todo \subseteq Ping /\ buff \subseteq Ping /\ ended \subseteq Ping
    BY DEF TypeOK
  <2>5. Waiting = {i \in Ping : Waits(i)}
    BY WaitingIs
  <2>6. DOMAIN Places = 1..6
    BY DEF Places
  <2>7. /\ Places[1] = InHand /\ Places[2] = Waiting /\ Places[3] = todo
        /\ Places[4] = buff /\ Places[5] = Sent /\ Places[6] = ended
    BY DEF Places
  <2> HIDE DEF Sent
  <2>8. \A i \in Ping : i \in 1..pinged <=> \E n \in 1..6 : i \in Places[n]
    BY <2>2, <2>3, <2>5, <2>7 DEF OnePlace
  <2>9. \A n \in 1..6 : Places[n] \subseteq Ping
    BY <2>1, <2>4, <2>5, <2>7
  <2>10. \A i \in Ping : \A m, n \in 1..6 : i \in Places[m] /\ i \in Places[n] => m = n
    BY <2>2, <2>5, <2>7 DEF OnePlace
  <2> HIDE DEF Places
  <2>11. UNION {Places[n] : n \in 1..6} = 1..pinged
    BY <2>1, <2>8, <2>9
  <2>12. \A m, n \in 1..6 : m # n => Places[m] \cap Places[n] = {}
    BY <2>9, <2>10
  <2>13. QED
    BY <2>6, <2>11, <2>12 DEF NoneForgotten
<1>2. QED
  BY <1>1, PingerAlways, PTL

\* Where a server answers every echo, and sends nothing else, each round trip is
\* measured with the echo it was started for, though the code compares neither
\* identifier nor sequence number (pinger.go:153).
THEOREM OwnEchoCorrect == Spec => []OwnEcho
<1>1. PingerInv => OwnEcho
  BY DEF PingerInv, OneEcho, OwnEcho
<1>2. QED
  BY <1>1, PingerAlways, PTL

\* recvService is done with the channel before Forward.close closes it
\* (forward.go:95).
THEOREM NoSendOnClosedCorrect == Spec => []NoSendOnClosed
<1>1. PingerInv => NoSendOnClosed
  BY DEF PingerInv, ClosedInOrder, NoSendOnClosed
<1>2. QED
  BY <1>1, PingerAlways, PTL
=================================================================================
