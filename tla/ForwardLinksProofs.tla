--------------------------- MODULE ForwardLinksProofs ---------------------------
(***************************************************************************)
(* Theorems about ForwardLinks for any number of endpoints, local ports    *)
(* and links.                                                              *)
(***************************************************************************)
EXTENDS ForwardLinks, TLAPS

(***************************************************************************)
(* Links are made in the order of their numbers, and never unmade.         *)
(***************************************************************************)
MadeInOrder == \A l \in LinkId : stage[l] = "none" <=> l > made

(***************************************************************************)
(* Who finds a link under an endpoint finds one that was made for it,      *)
(* perhaps one closed before it was entered.                               *)
(***************************************************************************)
OwnEntries ==
  /\ \A e \in Endpoint : table[e] # Nil => ep[table[e]] = e /\ table[e] <= made
  /\ up = "insert" => held # Nil /\ held <= made /\ ep[held] = cur

(***************************************************************************)
(* Until the forward closes, uplinkService is alone in filling an entry it *)
(* has found empty, and a link that is not quite closed is the one of its  *)
(* endpoint's entry, or on its way there.                                  *)
(***************************************************************************)
Reachable ==
  fclose = "nobody" =>
    /\ up \in {"create", "insert"} => table[cur] = Nil
    /\ \A l \in LinkId : stage[l] \notin {"none", "closed"} =>
         table[ep[l]] = l \/ (up = "insert" /\ held = l)

(***************************************************************************)
(* The link that a failed Send closes is the one in hand, and              *)
(* uplinkService stays until it is closed.                                 *)
(***************************************************************************)
SendWaits ==
  \A l \in LinkId : closer[l] = "send" /\ stage[l] # "closed" => up = "closing" /\ held = l

(***************************************************************************)
(* A local port belongs to one listener, which outlives the raw socket.    *)
(***************************************************************************)
PortsApart ==
  \A k, l \in LinkId : LisOpen(k) /\ LisOpen(l) /\ lport[k] = lport[l] => k = l

(***************************************************************************)
(* The mutex that Links.Close holds is the one that the link it closes     *)
(* waits for.                                                              *)
(***************************************************************************)
HeldWhileClosing ==
  /\ mu => fclose # "nobody"
  /\ \A l \in LinkId : closer[l] = "all" => mu /\ stage[l] \in {"won", "raw", "lis"}

LinksInv ==
  /\ TypeOK /\ MadeInOrder /\ OwnEntries /\ Reachable
  /\ SendWaits /\ PortsApart /\ HeldWhileClosing

-----------------------------------------------------------------------------
(* Types *)

LEMMA TypeInit == Init => TypeOK
<1>1. AnyEndpoint \in Endpoint
  BY LinksAssumption DEF AnyEndpoint
<1>2. AnyPort \in LocalPort
  BY LinksAssumption DEF AnyPort
<1>3. ASSUME Init PROVE ep \in [LinkId -> Endpoint] /\ lport \in [LinkId -> LocalPort]
  BY <1>1, <1>2, <1>3 DEF Init
<1>4. ASSUME Init PROVE table \in [Endpoint -> LinkId \cup {Nil}] /\ held \in LinkId \cup {Nil}
  BY <1>4 DEF Init
<1>5. ASSUME Init PROVE made \in 0..MaxLinks
  BY <1>5, LinksAssumption DEF Init
<1>6. ASSUME Init PROVE stage \in [LinkId -> Stage]
  BY <1>6 DEF Init, Stage
<1>7. ASSUME Init PROVE
  /\ alive \in [LinkId -> BOOLEAN] /\ timer \in [LinkId -> {"off", "armed", "expired"}]
  /\ closer \in [LinkId -> {"nobody", "keepalive", "send", "recv", "all"}]
  /\ dl \in [LinkId -> {"none", "recv", "closing", "close", "done"}]
  BY <1>7 DEF Init
<1>8. QED
  BY <1>1, <1>3, <1>4, <1>5, <1>6, <1>7 DEF Init, TypeOK

LEMMA TypeStep ==
  ASSUME TypeOK, [Next]_vars
  PROVE  TypeOK'
<1> USE LinksAssumption DEF TypeOK, Stage, LinkId, Nil
<1>1. ASSUME NEW e \in Endpoint, Receive(e) PROVE TypeOK'
  BY <1>1 DEF Receive, linkVars, fwdVars
<1>2. CASE ReceiveFails
  BY <1>2 DEF ReceiveFails, linkVars, upVars, fwdVars
<1>3. CASE SendFails
  BY <1>3 DEF SendFails, linkVars, upVars, fwdVars, Win
<1>4. CASE Lookup
  BY <1>4 DEF Lookup, linkVars, upVars, fwdVars
<1>5. CASE Create
  BY <1>5 DEF Create, linkVars, upVars, fwdVars, FreePort
<1>6. CASE CreateFails
  BY <1>6 DEF CreateFails, linkVars, upVars, fwdVars
<1>7. CASE Insert
  BY <1>7 DEF Insert, linkVars, upVars, fwdVars
<1>8. CASE SendBump
  BY <1>8 DEF SendBump, linkVars, upVars, fwdVars
<1>9. CASE SendWrite
  BY <1>9 DEF SendWrite, linkVars, upVars, fwdVars, AnyEndpoint
<1>10. CASE SendClosed
  BY <1>10 DEF SendClosed, linkVars, upVars, fwdVars
<1>11. ASSUME NEW l \in LinkId, CloseRaw(l) PROVE TypeOK'
  BY <1>11 DEF CloseRaw, linkVars, upVars, fwdVars
<1>12. ASSUME NEW l \in LinkId, CloseLis(l) PROVE TypeOK'
  BY <1>12 DEF CloseLis, linkVars, upVars, fwdVars
<1>13. ASSUME NEW l \in LinkId, Del(l) PROVE TypeOK'
  BY <1>13 DEF Del, linkVars, upVars, fwdVars
<1>14. ASSUME NEW l \in LinkId, CloseOne(l) PROVE TypeOK'
  BY <1>14 DEF CloseOne, linkVars, upVars, fwdVars, Win
<1>15. ASSUME NEW l \in LinkId, Tick(l) PROVE TypeOK'
  BY <1>15 DEF Tick, upVars, fwdVars
<1>23. ASSUME NEW l \in LinkId, Expire(l) PROVE TypeOK'
  BY <1>23 DEF Expire, upVars, fwdVars, Win
<1>16. ASSUME NEW l \in LinkId, Recv(l) PROVE TypeOK'
  BY <1>16 DEF Recv, linkVars, upVars, fwdVars
<1>17. ASSUME NEW l \in LinkId, RecvFails(l) PROVE TypeOK'
  BY <1>17 DEF RecvFails, linkVars, upVars, fwdVars, Win
<1>18. ASSUME NEW l \in LinkId, RecvClosed(l) PROVE TypeOK'
  BY <1>18 DEF RecvClosed, linkVars, upVars, fwdVars
<1>19. CASE CloseForward
  BY <1>19 DEF CloseForward, linkVars, upVars, fwdVars
<1>20. CASE CloseAgain
  BY <1>20 DEF CloseAgain, linkVars, upVars, fwdVars
<1>21. CASE CloseDone
  BY <1>21 DEF CloseDone, linkVars, upVars, fwdVars
<1>22. CASE UNCHANGED vars
  BY <1>22 DEF vars, linkVars, upVars, fwdVars
<1>24. QED
  BY <1>1, <1>2, <1>3, <1>4, <1>5, <1>6, <1>7, <1>8, <1>9, <1>10, <1>11, <1>12, <1>13, <1>14, <1>15, <1>16, <1>17, <1>18, <1>19, <1>20, <1>21, <1>22, <1>23 DEF Next, Uplink, Closing

-----------------------------------------------------------------------------
(* The inductive invariant *)

LEMMA InvInit == Init => LinksInv
<1> SUFFICES ASSUME Init PROVE LinksInv
  OBVIOUS
<1>1. TypeOK
  BY TypeInit
<1>2. MadeInOrder /\ OwnEntries /\ Reachable /\ SendWaits
      /\ PortsApart /\ HeldWhileClosing
  BY LinksAssumption DEF Init, MadeInOrder, OwnEntries, Reachable, SendWaits,
     PortsApart, HeldWhileClosing, LisOpen, LinkId, Nil
<1>3. QED
  BY <1>1, <1>2 DEF LinksInv

LEMMA InvStep ==
  ASSUME LinksInv, [Next]_vars
  PROVE  LinksInv'
<1>1. TypeOK'
  BY TypeStep DEF LinksInv
<1> USE LinksAssumption, <1>1
    DEF LinksInv, MadeInOrder, OwnEntries, Reachable, SendWaits,
        PortsApart, HeldWhileClosing
<1> USE DEF TypeOK, Stage, LinkId, Nil, LisOpen
<1>2. ASSUME NEW e \in Endpoint, Receive(e) PROVE LinksInv'
  BY <1>2 DEF Receive, linkVars, upVars, fwdVars
<1>3. CASE ReceiveFails
  BY <1>3 DEF ReceiveFails, linkVars, upVars, fwdVars
<1>4. CASE SendFails
  BY <1>4 DEF SendFails, linkVars, upVars, fwdVars, Win
<1>5. CASE Lookup
  BY <1>5 DEF Lookup, linkVars, upVars, fwdVars
<1>6. CASE Create
  BY <1>6 DEF Create, linkVars, upVars, fwdVars, FreePort
<1>7. CASE CreateFails
  BY <1>7 DEF CreateFails, linkVars, upVars, fwdVars
<1>8. CASE Insert
  BY <1>8 DEF Insert, linkVars, upVars, fwdVars
<1>9. CASE SendBump
  BY <1>9 DEF SendBump, linkVars, upVars, fwdVars
<1>10. CASE SendWrite
  BY <1>10 DEF SendWrite, linkVars, upVars, fwdVars
<1>11. CASE SendClosed
  BY <1>11 DEF SendClosed, linkVars, upVars, fwdVars
<1>12. ASSUME NEW l \in LinkId, CloseRaw(l) PROVE LinksInv'
  BY <1>12 DEF CloseRaw, linkVars, upVars, fwdVars
<1>13. ASSUME NEW l \in LinkId, CloseLis(l) PROVE LinksInv'
  BY <1>13 DEF CloseLis, linkVars, upVars, fwdVars
<1>14. ASSUME NEW l \in LinkId, Del(l) PROVE LinksInv'
  BY <1>14 DEF Del, linkVars, upVars, fwdVars
<1>15. ASSUME NEW l \in LinkId, CloseOne(l) PROVE LinksInv'
  BY <1>15 DEF CloseOne, linkVars, upVars, fwdVars, Win
<1>16. ASSUME NEW l \in LinkId, Tick(l) PROVE LinksInv'
  BY <1>16 DEF Tick, upVars, fwdVars
<1>24. ASSUME NEW l \in LinkId, Expire(l) PROVE LinksInv'
  <2>1. UNCHANGED <<stage, closer>> \/ Win(l, "keepalive")
    BY <1>24 DEF Expire
  <2>2. UNCHANGED <<table, mu, made, ep, lport, up, cur, held, fclose>>
    BY <1>24 DEF Expire, upVars, fwdVars
  <2>3. CASE UNCHANGED <<stage, closer>>
    BY <2>2, <2>3
  <2>4. CASE Win(l, "keepalive")
    BY <2>2, <2>4 DEF Win
  <2>5. QED
    BY <2>1, <2>3, <2>4
<1>17. ASSUME NEW l \in LinkId, Recv(l) PROVE LinksInv'
  BY <1>17 DEF Recv, linkVars, upVars, fwdVars
<1>18. ASSUME NEW l \in LinkId, RecvFails(l) PROVE LinksInv'
  BY <1>18 DEF RecvFails, linkVars, upVars, fwdVars, Win
<1>19. ASSUME NEW l \in LinkId, RecvClosed(l) PROVE LinksInv'
  BY <1>19 DEF RecvClosed, linkVars, upVars, fwdVars
<1>20. CASE CloseForward
  BY <1>20 DEF CloseForward, linkVars, upVars, fwdVars
<1>21. CASE CloseAgain
  BY <1>21 DEF CloseAgain, linkVars, upVars, fwdVars
<1>22. CASE CloseDone
  <2>1. fclose' # "nobody"
    BY <1>22 DEF CloseDone, fwdVars
  <2>2. \A l \in LinkId : closer'[l] # "all"
    BY <1>22 DEF CloseDone, linkVars
  <2>3. QED
    BY <1>22, <2>1, <2>2 DEF CloseDone, linkVars, upVars, fwdVars
<1>23. CASE UNCHANGED vars
  BY <1>23 DEF vars, linkVars, upVars, fwdVars
<1>25. QED
  BY <1>2, <1>3, <1>4, <1>5, <1>6, <1>7, <1>8, <1>9, <1>10, <1>11, <1>12, <1>13, <1>14, <1>15, <1>16, <1>17, <1>18, <1>19, <1>20, <1>21, <1>22, <1>23, <1>24 DEF Next, Uplink, Closing

-----------------------------------------------------------------------------
(* Who writes the table, and who the mutex *)

LEMMA TableSteps ==
  Next => \/ UNCHANGED table \/ Insert \/ CreateFails \/ CloseDone
          \/ \E l \in LinkId : Del(l)
BY DEF Next, Uplink, Closing, Receive, ReceiveFails, SendFails, Lookup, Create,
   SendBump, SendWrite, SendClosed, CloseRaw, CloseLis, CloseOne, Tick, Expire, Recv,
   RecvFails, RecvClosed, CloseForward, CloseAgain

LEMMA MutexSteps == Next => UNCHANGED mu \/ CloseForward \/ CloseDone
BY DEF Next, Uplink, Closing, Receive, ReceiveFails, SendFails, Lookup, Create, CreateFails,
   Insert, SendBump, SendWrite, SendClosed, CloseRaw, CloseLis, Del, CloseOne, Tick, Expire,
   Recv, RecvFails, RecvClosed, CloseAgain

-----------------------------------------------------------------------------
(* The theorems *)

\* Every state a forward's links can reach satisfies the inductive invariant.
THEOREM LinksAlways == Spec => []LinksInv
<1>1. Init => LinksInv
  BY InvInit
<1>2. LinksInv /\ [Next]_vars => LinksInv'
  BY InvStep
<1>3. QED
  BY <1>1, <1>2, PTL DEF Spec

\* The link table, the links and the goroutines around them hold values of their
\* types.
THEOREM TypeCorrect == Spec => []TypeOK
<1>1. LinksInv => TypeOK
  BY DEF LinksInv
<1>2. QED
  BY <1>1, LinksAlways, PTL

\* Links.Link, which looks up, makes and enters a link in three locked steps, never
\* leaves two links of one endpoint receiving, though keepalive and the downlink
\* goroutines delete entries between those steps (links.go:25).
THEOREM OneLinkCorrect == Spec => []OneLinkPerEndpoint
<1>1. ASSUME LinksInv, fclose = "nobody", NEW k \in LinkId, NEW l \in LinkId,
             RawOpen(k), RawOpen(l), ep[k] = ep[l]
      PROVE  k = l
  <2>1. /\ table[ep[k]] = k \/ (up = "insert" /\ held = k)
        /\ table[ep[l]] = l \/ (up = "insert" /\ held = l)
    BY <1>1 DEF LinksInv, Reachable, RawOpen
  <2>2. up = "insert" => ep[held] = cur /\ table[cur] = Nil
    BY <1>1 DEF LinksInv, OwnEntries, Reachable
  <2>3. k # Nil /\ l # Nil
    BY DEF LinkId, Nil
  <2>4. QED
    BY <1>1, <2>1, <2>2, <2>3
<1>2. LinksInv => OneLinkPerEndpoint
  BY <1>1 DEF OneLinkPerEndpoint
<1>3. QED
  BY <1>2, LinksAlways, PTL

\* Two links whose raw sockets are open hold different local ports, since the
\* listener that occupies the port is closed after the socket (link.go:96).
THEOREM OwnLocalPortCorrect == Spec => []OwnLocalPort
<1>1. LinksInv => OwnLocalPort
  BY DEF LinksInv, PortsApart, OwnLocalPort, RawOpen, LisOpen
<1>2. QED
  BY <1>1, LinksAlways, PTL

\* A step that empties an entry of the table is the last one of closing the very
\* link the entry held, although Links.del goes by the endpoint alone (links.go:43).
THEOREM DeletesOwnEntryCorrect == Spec => DeletesOwnEntry
<1>1. ASSUME LinksInv, Next, NEW e \in Endpoint, table[e] # Nil, table'[e] = Nil
      PROVE  fclose # "nobody" \/ stage'[table[e]] = "closed"
  <2> USE <1>1
  <2>1. CASE UNCHANGED table
    BY <2>1
  <2>2. CASE Insert
    BY <2>2 DEF Insert, LinksInv, TypeOK, OwnEntries
  <2>3. ASSUME NEW l \in LinkId, Del(l) PROVE fclose # "nobody" \/ stage'[table[e]] = "closed"
    BY <2>3 DEF Del, LinksInv, TypeOK, Reachable, OwnEntries, LinkId
  <2>4. CASE CloseDone
    BY <2>4 DEF CloseDone, LinksInv, HeldWhileClosing
  <2>5. CASE CreateFails
    BY <2>5 DEF CreateFails, LinksInv, TypeOK, Reachable
  <2>6. \/ UNCHANGED table \/ Insert \/ CreateFails \/ CloseDone
        \/ \E l \in LinkId : Del(l)
    BY TableSteps
  <2>7. QED
    BY <2>1, <2>2, <2>3, <2>4, <2>5, <2>6
<1>2. LinksInv /\ [Next]_vars =>
        [\A e \in Endpoint : table[e] # Nil /\ table'[e] = Nil =>
           fclose # "nobody" \/ stage'[table[e]] = "closed"]_vars
  BY <1>1
<1>3. QED
  BY <1>2, LinksAlways, PTL DEF Spec, DeletesOwnEntry

\* While Links.Close has a link to close, its mutex is neither taken nor given up:
\* the link's own Close waits for it for ever (links.go:49, link.go:91).
THEOREM CloseHangsCorrect == Spec => CloseHangs
<1>1. ASSUME LinksInv, Next, NEW l \in LinkId, closer[l] = "all"
      PROVE  mu' = mu
  <2> USE <1>1 DEF LinksInv, HeldWhileClosing
  <2>1. mu /\ stage[l] # "closed" /\ fclose # "nobody"
    OBVIOUS
  <2>2. ~CloseForward /\ ~CloseDone
    BY <2>1 DEF CloseForward, CloseDone
  <2>3. QED
    BY <2>2, MutexSteps
<1>2. LinksInv /\ [Next]_vars => [(\E l \in LinkId : closer[l] = "all") => mu' = mu]_vars
  BY <1>1
<1>3. QED
  BY <1>2, LinksAlways, PTL DEF Spec, CloseHangs
=================================================================================
