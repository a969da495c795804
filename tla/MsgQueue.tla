------------------------------ MODULE MsgQueue ------------------------------
(***************************************************************************)
(* What nodes/internal/heap promises its callers: a bounded FIFO queue     *)
(* from which the first element with some quality can be taken as well as  *)
(* the oldest, and which can make room by forgetting the oldest.           *)
(***************************************************************************)
EXTENDS Naturals, Sequences, SequencesExt

CONSTANTS Val, Cap,
          Wants   \* the predicates elements are asked for with, as sets of Val

VARIABLE q

Init == q = <<>>

Put == Len(q) < Cap /\ \E v \in Val : q' = Append(q, v)

MustPut ==
    \E v \in Val :
        q' = Append(IF Len(q) = Cap THEN Tail(q) ELSE q, v)

PopTail == q # <<>> /\ q' = Tail(q)

Pop == \E want \in Wants, i \in 1..Len(q) :
          /\ q[i] \in want
          /\ \A j \in 1..(i - 1) : q[j] \notin want
          /\ q' = RemoveAt(q, i)

Next == Put \/ MustPut \/ PopTail \/ Pop

Spec == Init /\ [][Next]_q
=============================================================================
