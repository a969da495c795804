---------------------------- MODULE ForwardLinks ----------------------------
(***************************************************************************)
(* The link table of a forward at the granularity of its locks and system  *)
(* calls: the goroutine of uplinkService, which looks links up, creates    *)
(* and uses them; per link a goroutine of downlinkService and a keepalive  *)
(* timer; and Forward.close.  Relay.tla takes what happens here in one     *)
(* step each.                                                              *)
(*                                                                         *)
(* errorx.CloseErr (a library) runs the function of the first Close and    *)
(* gives every later one net.ErrClosed.                                    *)
(***************************************************************************)
EXTENDS Naturals, FiniteSets

CONSTANTS
    Endpoint,   \* links.Endpoint, of one transport protocol
    LocalPort,  \* ports the kernel has to give away
    MaxLinks    \* bound on the links ever created

ASSUME LinksAssumption == MaxLinks \in Nat /\ Endpoint # {} /\ LocalPort # {}

\* Links are numbered in the order of their creation; 0 is a nil *Link.
LinkId == 1..MaxLinks
Nil == 0

VARIABLES
    table,    \* Links.links
    mu,       \* TRUE while Links.Close holds Links.mu; others hold it for a step
    made,     \* links created so far
    ep,       \* per link, its endpoint,
    lport,    \* its local port,
    alive,    \* whether traffic has been counted since the last tick,
    timer,    \* its keepalive: to come, come with no traffic to be seen, or over,
    stage,    \* how far closing it has come,
    closer,   \* and who closes it
    up,       \* uplinkService: where it is,
    cur,      \* the endpoint of the segment in hand
    held,     \* and the link it is for
    dl,       \* per link, downlinkService
    fclose,   \* who was the first to call Forward.close
    proc      \* the process: "up", "exited" (Serve returned) or "panicked"

linkVars == <<made, ep, lport, alive, timer, stage, closer>>
upVars   == <<up, cur, held>>
fwdVars  == <<fclose, proc>>
vars     == <<table, mu, linkVars, upVars, dl, fwdVars>>

Stage == {"none", "open", "won", "raw", "lis", "closed"}

TypeOK ==
    /\ table \in [Endpoint -> LinkId \cup {Nil}]
    /\ mu \in BOOLEAN /\ made \in 0..MaxLinks
    /\ ep \in [LinkId -> Endpoint] /\ lport \in [LinkId -> LocalPort]
    /\ alive \in [LinkId -> BOOLEAN] /\ timer \in [LinkId -> {"off", "armed", "expired"}]
    /\ stage \in [LinkId -> Stage]
    /\ closer \in [LinkId -> {"nobody", "keepalive", "send", "recv", "all"}]
    /\ up \in {"read", "lookup", "create", "insert", "bump", "write", "closing",
               "close", "done"}
    /\ cur \in Endpoint /\ held \in LinkId \cup {Nil}
    /\ dl \in [LinkId -> {"none", "recv", "closing", "close", "done"}]
    /\ fclose \in {"nobody", "uplink", "downlink"}
    /\ proc \in {"up", "exited", "panicked"}

\* The value of a variable that holds no endpoint, or no port, at the moment.
AnyEndpoint == CHOOSE e \in Endpoint : TRUE
AnyPort == CHOOSE n \in LocalPort : TRUE

Init ==
    /\ table = [e \in Endpoint |-> Nil]
    /\ mu = FALSE /\ made = 0
    /\ ep = [l \in LinkId |-> AnyEndpoint]
    /\ lport = [l \in LinkId |-> AnyPort]
    /\ alive = [l \in LinkId |-> FALSE]
    /\ timer = [l \in LinkId |-> "off"]
    /\ stage = [l \in LinkId |-> "none"]
    /\ closer = [l \in LinkId |-> "nobody"]
    /\ up = "read" /\ cur = AnyEndpoint /\ held = Nil
    /\ dl = [l \in LinkId |-> "none"]
    /\ fclose = "nobody" /\ proc = "up"

\* What is open in each stage of closing: Link.close closes the raw socket, then
\* the listener that occupies the local port, then deletes the table's entry.
\* (Mutated forms: the listener first; the raw socket last.)
RawOpenToEnd(l) == stage[l] \in {"open", "won", "raw", "lis", "closed"}
RawOpen(l) == stage[l] \in {"open", "won"}
LisFirst(l) == stage[l] = "open"
LisOpen(l) == stage[l] \in {"open", "won", "raw"}

\* (Mutated form: the port of the listener that could not be made.)
FreePortAny == LocalPort \cup {0}
FreePort == {n \in LocalPort : \A l \in LinkId : LisOpen(l) => lport[l] # n}

-----------------------------------------------------------------------------
(***************************************************************************)
(* Link.close, by anyone: the first caller wins and does the work.         *)
(***************************************************************************)
Win(l, who) ==
    /\ stage[l] = "open"
    /\ stage' = [stage EXCEPT ![l] = "won"]
    /\ closer' = [closer EXCEPT ![l] = who]

CloseRaw(l) ==
    /\ stage[l] = "won" /\ proc = "up"
    /\ stage' = [stage EXCEPT ![l] = "raw"]
    /\ UNCHANGED <<table, mu, made, ep, lport, alive, timer, closer, upVars, dl, fwdVars>>

CloseLis(l) ==
    /\ stage[l] = "raw" /\ proc = "up"
    /\ stage' = [stage EXCEPT ![l] = "lis"]
    /\ UNCHANGED <<table, mu, made, ep, lport, alive, timer, closer, upVars, dl, fwdVars>>

\* Links.del needs the mutex.  A closer whose call is over returns to its loop:
\* a failed Send and a failed Recv go on to Forward.close, except that Recv is
\* retried after an error that is Temporary.  (Mutated form: del without the
\* mutex.)
DelUnlocked(l) ==
    /\ stage[l] = "lis" /\ proc = "up"
    /\ stage' = [stage EXCEPT ![l] = "closed"]
    /\ table' = [table EXCEPT ![ep[l]] = Nil]
    /\ up' = IF closer[l] = "send" THEN "close" ELSE up
    /\ \E next \in {"recv", "close"} :
          dl' = IF closer[l] = "recv" THEN [dl EXCEPT ![l] = next] ELSE dl
    /\ UNCHANGED <<mu, made, ep, lport, alive, timer, closer, cur, held, fwdVars>>
Del(l) ==
    /\ stage[l] = "lis" /\ proc = "up" /\ ~mu
    /\ stage' = [stage EXCEPT ![l] = "closed"]
    /\ table' = [table EXCEPT ![ep[l]] = Nil]
    /\ up' = IF closer[l] = "send" THEN "close" ELSE up
    /\ \E next \in {"recv", "close"} :
          dl' = IF closer[l] = "recv" THEN [dl EXCEPT ![l] = next] ELSE dl
    /\ UNCHANGED <<mu, made, ep, lport, alive, timer, closer, cur, held, fwdVars>>

-----------------------------------------------------------------------------
(***************************************************************************)
(* uplinkService.                                                          *)
(***************************************************************************)
Receive(e) ==
    /\ up = "read" /\ proc = "up"
    /\ up' = "lookup" /\ cur' = e
    /\ UNCHANGED <<table, mu, linkVars, held, dl, fwdVars>>

\* f.conn fails.
ReceiveFails ==
    /\ up = "read" /\ proc = "up"
    /\ up' = "close"
    /\ UNCHANGED <<table, mu, linkVars, cur, held, dl, fwdVars>>

\* Links.Link reads the table and gives up the mutex ...  (Mutated form: only a
\* link with traffic since the last tick is found.)
LookupAlive ==
    /\ up = "lookup" /\ proc = "up" /\ ~mu
    /\ LET found == table[cur] # Nil /\ alive[table[cur]] IN
       /\ held' = IF found THEN table[cur] ELSE Nil
       /\ up' = IF found THEN "bump" ELSE "create"
    /\ UNCHANGED <<table, mu, linkVars, cur, dl, fwdVars>>
Lookup ==
    /\ up = "lookup" /\ proc = "up" /\ ~mu
    /\ held' = table[cur]
    /\ up' = IF table[cur] = Nil THEN "create" ELSE "bump"
    /\ UNCHANGED <<table, mu, linkVars, cur, dl, fwdVars>>

\* ... newLink takes a local port and starts the keepalive timer ...
Create ==
    /\ up = "create" /\ proc = "up" /\ made < MaxLinks
    /\ LET l == made + 1 IN
       /\ made' = l /\ held' = l
       /\ ep' = [ep EXCEPT ![l] = cur]
       /\ \E n \in FreePort : lport' = [lport EXCEPT ![l] = n]
       /\ stage' = [stage EXCEPT ![l] = "open"]
       /\ timer' = [timer EXCEPT ![l] = "armed"]
    /\ up' = "insert"
    /\ UNCHANGED <<table, mu, alive, closer, cur, dl, fwdVars>>

\* ... or fails, as it must without a port, and closes what there is of the link, which
\* deletes the entry of the endpoint.
CreateFails ==
    /\ up = "create" /\ proc = "up" /\ ~mu
    /\ up' = "close"
    /\ table' = [table EXCEPT ![cur] = Nil]
    /\ UNCHANGED <<mu, linkVars, cur, held, dl, fwdVars>>

\* ... and the link is entered, whatever has become of it or of the table, and
\* gets its downlinkService.
Insert ==
    /\ up = "insert" /\ proc = "up" /\ ~mu
    /\ table' = [table EXCEPT ![cur] = held]
    /\ dl' = [dl EXCEPT ![held] = "recv"]
    /\ up' = "bump"
    /\ UNCHANGED <<mu, linkVars, cur, held, fwdVars>>

\* Link.Send counts the segment before it writes it.
SendBump ==
    /\ up = "bump" /\ proc = "up"
    /\ alive' = [alive EXCEPT ![held] = TRUE]
    /\ up' = "write"
    /\ UNCHANGED <<table, mu, made, ep, lport, timer, stage, closer, cur, held, dl, fwdVars>>

SendWrite ==
    /\ up = "write" /\ proc = "up" /\ RawOpen(held)
    /\ up' = "read" /\ cur' = AnyEndpoint /\ held' = Nil
    /\ UNCHANGED <<table, mu, linkVars, dl, fwdVars>>

\* The write fails for a reason of the network, and the link is closed ...
SendFails ==
    /\ up = "write" /\ proc = "up" /\ RawOpen(held)
    /\ Win(held, "send")
    /\ up' = "closing"
    /\ UNCHANGED <<table, mu, made, ep, lport, alive, timer, cur, held, dl, fwdVars>>

\* ... or because somebody else has closed the link: Send gives net.ErrClosed,
\* uplinkService returns nil, so does Serve, and main returns.
SendClosed ==
    /\ up = "write" /\ proc = "up" /\ ~RawOpen(held)
    /\ up' = "done" /\ proc' = "exited"
    /\ UNCHANGED <<table, mu, linkVars, cur, held, dl, fclose>>

-----------------------------------------------------------------------------
(***************************************************************************)
(* downlinkService and keepalive of a link.                                *)
(***************************************************************************)
Recv(l) ==
    /\ dl[l] = "recv" /\ proc = "up" /\ RawOpen(l)
    /\ alive' = [alive EXCEPT ![l] = TRUE]
    /\ UNCHANGED <<table, mu, made, ep, lport, timer, stage, closer, upVars, dl, fwdVars>>

RecvFails(l) ==
    /\ dl[l] = "recv" /\ proc = "up"
    /\ Win(l, "recv")
    /\ dl' = [dl EXCEPT ![l] = "closing"]
    /\ UNCHANGED <<table, mu, made, ep, lport, alive, timer, upVars, fwdVars>>

RecvClosed(l) ==
    /\ dl[l] = "recv" /\ proc = "up" /\ ~RawOpen(l)
    /\ dl' = [dl EXCEPT ![l] = "done"]
    /\ UNCHANGED <<table, mu, linkVars, upVars, fwdVars>>

\* keepalive takes the counter: a link with traffic since the last tick waits for the
\* next ...  (Mutated form: the timer is not armed again.)
TickOnce(l) ==
    /\ timer[l] = "armed" /\ proc = "up"
    /\ alive' = [alive EXCEPT ![l] = FALSE]
    /\ timer' = [timer EXCEPT ![l] = IF alive[l] THEN "off" ELSE "expired"]
    /\ UNCHANGED <<table, mu, made, ep, lport, stage, closer, upVars, dl, fwdVars>>
Tick(l) ==
    /\ timer[l] = "armed" /\ proc = "up"
    /\ alive' = [alive EXCEPT ![l] = FALSE]
    /\ timer' = [timer EXCEPT ![l] = IF alive[l] THEN "armed" ELSE "expired"]
    /\ UNCHANGED <<table, mu, made, ep, lport, stage, closer, upVars, dl, fwdVars>>

\* ... and one without is closed, whatever it has sent or received since, unless it is
\* being closed already.
Expire(l) ==
    /\ timer[l] = "expired" /\ proc = "up"
    /\ timer' = [timer EXCEPT ![l] = "off"]
    /\ Win(l, "keepalive") \/ (stage[l] # "open" /\ UNCHANGED <<stage, closer>>)
    /\ UNCHANGED <<table, mu, made, ep, lport, alive, upVars, dl, fwdVars>>

-----------------------------------------------------------------------------
(***************************************************************************)
(* Forward.close.                                                          *)
(***************************************************************************)
\* The first close closes the pinger, which panics over a nil cause, unless the
\* ICMP socket has failed and the pinger closed itself, and then takes the mutex
\* of the links.  A later one returns, which ends the process if uplinkService is
\* the caller.
CloseForward ==
    /\ proc = "up" /\ fclose = "nobody"
    /\ \/ up = "close" /\ fclose' = "uplink"
       \/ (\E l \in LinkId : dl[l] = "close") /\ fclose' = "downlink"
    /\ \/ proc' = "panicked" /\ UNCHANGED mu
       \/ mu' = TRUE /\ UNCHANGED proc
    /\ UNCHANGED <<table, linkVars, upVars, dl>>

CloseAgain ==
    /\ up = "close" /\ proc = "up"
    /\ fclose = "downlink" \/ (fclose = "uplink" /\ ~mu)
    /\ proc' = "exited"
    /\ UNCHANGED <<table, mu, linkVars, upVars, dl, fclose>>

\* Links.Close closes the links one by one, with the mutex that Link.close will
\* ask for ...
CloseOne(l) ==
    /\ mu /\ proc = "up"
    /\ \E e \in Endpoint : table[e] = l
    /\ \A k \in LinkId : closer[k] # "all"
    /\ Win(l, "all")
    /\ UNCHANGED <<table, mu, made, ep, lport, alive, timer, upVars, dl, fwdVars>>

\* ... and clears the table when all of them are closed.
CloseDone ==
    /\ mu /\ proc = "up"
    /\ \A e \in Endpoint : table[e] # Nil => stage[table[e]] # "open"
    /\ \A k \in LinkId : closer[k] = "all" => stage[k] = "closed"
    /\ table' = [e \in Endpoint |-> Nil]
    /\ mu' = FALSE
    /\ UNCHANGED <<linkVars, upVars, dl, fwdVars>>

-----------------------------------------------------------------------------
Uplink == Lookup \/ Create \/ Insert \/ SendBump \/ SendWrite \/ SendClosed
Closing(l) == CloseRaw(l) \/ CloseLis(l) \/ Del(l)

Next ==
    \/ \E e \in Endpoint : Receive(e)
    \/ ReceiveFails \/ CreateFails \/ SendFails \/ Uplink
    \/ \E l \in LinkId : \/ Closing(l) \/ CloseOne(l) \/ Tick(l) \/ Expire(l)
                         \/ Recv(l) \/ RecvFails(l) \/ RecvClosed(l)
    \/ CloseForward \/ CloseAgain \/ CloseDone

Spec == Init /\ [][Next]_vars

\* Goroutines run on and timers go off; no datagram has to arrive, and nothing
\* has to fail.
Fairness ==
    /\ WF_vars(Uplink) /\ WF_vars(CloseForward \/ CloseAgain \/ CloseDone)
    /\ \A l \in LinkId : /\ WF_vars(Closing(l)) /\ WF_vars(Tick(l)) /\ WF_vars(Expire(l))
                         /\ WF_vars(RecvClosed(l)) /\ WF_vars(CloseOne(l))

FairSpec == Spec /\ Fairness

-----------------------------------------------------------------------------
(***************************************************************************)
(* Properties.                                                             *)
(***************************************************************************)
\* At no moment do two links of one endpoint receive: the segments of a flow
\* never come from two local ports at once, though a link is looked up, made
\* and entered in three steps and deleted by another goroutine.  (Not so while
\* the forward closes: Links.Close clears entries of links not yet closed.)
OneLinkPerEndpoint ==
    fclose # "nobody" \/ \A k, l \in LinkId :
                           RawOpen(k) /\ RawOpen(l) /\ ep[k] = ep[l] => k = l

\* Two links that receive have different local ports: one link's filter never
\* lets the other's packets pass, also while one closes and its port goes back
\* to the kernel.
OwnLocalPort ==
    \A k, l \in LinkId : RawOpen(k) /\ RawOpen(l) /\ lport[k] = lport[l] => k = l

\* Deleting by endpoint deletes the closing link's own entry, never that of a
\* successor.
DeletesOwnEntry ==
    [][\A e \in Endpoint : table[e] # Nil /\ table'[e] = Nil =>
          fclose # "nobody" \/ stage'[table[e]] = "closed"]_vars

\* A link without traffic is closed in the end and its local port freed, unless
\* the whole forward goes down or hangs in close.
IdleCloses ==
    \A l \in LinkId : []<>(~LisOpen(l) \/ alive[l] \/ fclose # "nobody" \/ proc # "up")

\* Once Links.Close has begun to close a link, its own mutex keeps it from ever
\* finishing: Forward.close never gets to close f.conn.
CloseHangs == [][(\E l \in LinkId : closer[l] = "all") => mu' = mu]_vars

\* forward.go:172 says of a link closed by keepalive, found in the table or just made,
\* that the error of Send should be ignored: the forward serves on.
UplinkServes ==
    up = "done" /\ held # Nil /\ closer[held] = "keepalive" => fclose # "nobody"
=============================================================================
