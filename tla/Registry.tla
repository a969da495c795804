------------------------------- MODULE Registry -------------------------------
(***************************************************************************)
(* What a node keeps of one peer: the gateway of a client (gateway/cs.go)  *)
(* and the forward of a gateway (forward/gs.go).  A service loop asks for  *)
(* the record of the peer with every datagram, looks it up under one lock  *)
(* and, if there is none, enters a new one under another.  The record has  *)
(* the number of the next datagram to the peer and the statistics of those *)
(* from it (LossStats), so a new record starts both anew.                  *)
(*                                                                         *)
(* The gateway forgets a client that no loop has asked for since the last  *)
(* tick; the forward forgets nobody.                                       *)
(***************************************************************************)
EXTENDS Naturals, FiniteSets

CONSTANTS Uplink,    \* loops that read from the peer,
          Downlink,  \* and that write to it
          Forgets,   \* whether there is a keepalive
          Modulus,   \* numbers are 0..Modulus-1: a byte
          MaxRecord  \* bound on the records ever made

Loop == Uplink \cup Downlink
Record == 1..MaxRecord
Nil == 0

VARIABLES
    entry,     \* the peer's record in the table
    records,   \* records made so far
    alive,     \* per record, whether its counter is above 0,
    number,    \* and the number of the next datagram to the peer
    pc, hold,  \* per loop, where it is and the record it holds
    drawn,     \* the last number drawn, and its record
    since,     \* records entered since the peer was last forgotten
    began,     \* loops whose call has begun since the last tick
    served     \* whether such a call has also ended

historyVars == <<drawn, since, began, served>>
vars == <<entry, records, alive, number, pc, hold, historyVars>>

TypeOK ==
    /\ entry \in 0..records /\ records \in 0..MaxRecord
    /\ alive \in [Record -> BOOLEAN] /\ number \in [Record -> 0..(Modulus - 1)]
    /\ pc \in [Loop -> {"idle", "create", "touch", "use"}]
    /\ hold \in [Loop -> 0..records]
    /\ \A l \in Loop : hold[l] # Nil <=> pc[l] \in {"touch", "use"}
    /\ drawn \in (0..records) \X (0..(Modulus - 1))
    /\ since \subseteq 1..records /\ began \subseteq Loop /\ served \in BOOLEAN

Init ==
    /\ entry = Nil /\ records = 0
    /\ alive = [r \in Record |-> FALSE] /\ number = [r \in Record |-> 0]
    /\ pc = [l \in Loop |-> "idle"] /\ hold = [l \in Loop |-> Nil]
    /\ drawn = <<Nil, 0>> /\ since = {} /\ began = {} /\ served = FALSE

-----------------------------------------------------------------------------
Found == IF Forgets THEN "touch" ELSE "use"

\* Client and Gateway: under the read lock, ...
Look(l) ==
    /\ pc[l] = "idle"
    /\ hold' = [hold EXCEPT ![l] = entry]
    /\ pc' = [pc EXCEPT ![l] = IF entry = Nil THEN "create" ELSE Found]
    /\ began' = began \cup {l}
    /\ UNCHANGED <<entry, records, alive, number, drawn, since, served>>

\* ... under the write lock, whatever was entered meanwhile.  (Mutated form: the new
\* record is used, but not entered.)
EnteredNot(l) == UNCHANGED entry
Entered(l) == entry' = records + 1
Enter(l) ==
    /\ pc[l] = "create" /\ records < MaxRecord
    /\ records' = records + 1
    /\ Entered(l)
    /\ hold' = [hold EXCEPT ![l] = records + 1]
    /\ pc' = [pc EXCEPT ![l] = Found]
    /\ since' = since \cup {records + 1}
    /\ UNCHANGED <<alive, number, drawn, began, served>>

\* alive.Add(1) at the end of Client.  (Mutated form: left to UplinkID.)
TouchNot(l) ==
    /\ pc[l] = "touch"
    /\ pc' = [pc EXCEPT ![l] = "use"]
    /\ UNCHANGED <<entry, records, alive, number, hold, historyVars>>
Touch(l) ==
    /\ pc[l] = "touch"
    /\ alive' = [alive EXCEPT ![hold[l]] = TRUE]
    /\ pc' = [pc EXCEPT ![l] = "use"]
    /\ UNCHANGED <<entry, records, number, hold, historyVars>>

\* DownlinkID.  (Mutated form: the number after the addition.)
DrawNext(r) == (number[r] + 1) % Modulus
Draw(r) == number[r]

\* UplinkID, which counts a datagram and keeps the record alive once more, or
\* UplinkPL; DownlinkID.
Use(l) ==
    /\ pc[l] = "use"
    /\ \/ /\ l \in Uplink
          /\ \/ UNCHANGED alive
             \/ Forgets /\ alive' = [alive EXCEPT ![hold[l]] = TRUE]
          /\ UNCHANGED <<number, drawn>>
       \/ /\ l \in Downlink
          /\ number' = [number EXCEPT ![hold[l]] = (@ + 1) % Modulus]
          /\ drawn' = <<hold[l], Draw(hold[l])>>
          /\ UNCHANGED alive
    /\ pc' = [pc EXCEPT ![l] = "idle"] /\ hold' = [hold EXCEPT ![l] = Nil]
    /\ served' = (served \/ l \in began)
    /\ UNCHANGED <<entry, records, since, began>>

\* Clients.keepalive
Tick ==
    /\ Forgets
    /\ IF entry = Nil \/ alive[entry]
       THEN alive' = [r \in Record |-> alive[r] /\ r # entry] /\ UNCHANGED <<entry, since>>
       ELSE entry' = Nil /\ since' = {} /\ UNCHANGED alive
    /\ began' = {} /\ served' = FALSE
    /\ UNCHANGED <<records, number, pc, hold, drawn>>

Next ==
    \/ \E l \in Loop : Look(l) \/ Enter(l) \/ Touch(l) \/ Use(l)
    \/ Tick

Spec == Init /\ [][Next]_vars

-----------------------------------------------------------------------------
(***************************************************************************)
(* Properties.                                                             *)
(***************************************************************************)
\* Until a peer is forgotten, its numbers and statistics start anew at most once
\* for each loop: a loop that looked the record up too early may put its own over
\* one in use, but does so only once (cs.go:31, gs.go:30).
OneRecordPerLoop == Cardinality(since) <= Cardinality(Loop)

\* A peer that was asked for from beginning to end since the last tick is not
\* forgotten, unless another loop has just put a record of its own over the one
\* that was used, and not yet marked it (cs.go:45).
KeptWhileUsed ==
    [][entry # Nil /\ entry' = Nil =>
          ~served \/ \E l \in Loop : pc[l] = "touch" /\ hold[l] = entry]_vars

\* Where one loop draws the numbers, as in the gateway, they run on, or start at 0
\* with a record that comes after: nobody goes back to a record that has left the
\* table (cs.go:70).
RunsOn ==
    drawn' # drawn => /\ drawn'[1] >= drawn[1]
                      /\ drawn'[2] = IF drawn'[1] = drawn[1]
                                     THEN (drawn[2] + 1) % Modulus ELSE 0
NumbersRunOn == [][RunsOn]_vars
===============================================================================
