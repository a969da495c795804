-------------------------------- MODULE LossStats --------------------------------
(***************************************************************************)
(* How the loss of datagrams on one leg is measured (nodes/internal/stats, *)
(* LoopIds and PLStats).  A sender gives its datagrams one-byte ids that   *)
(* wrap around; the receiver unfolds each id into an index, counts the     *)
(* indexes it has seen in a window, and reports, on request, how many      *)
(* between the smallest and the largest are missing.                       *)
(*                                                                         *)
(* The model also knows what the code cannot: the NUMBER of a datagram,    *)
(* counted by its sender without wrapping.                                 *)
(***************************************************************************)
EXTENDS Integers, FiniteSets, FiniteSetsExt

CONSTANTS MaxId,     \* ids are 0..MaxId (bvvd.MaxID)
          MaxInt,    \* math.MaxInt
          Limit,     \* nodes.PLScale, the least size of a window to report on
          MinStep,   \* least and greatest distance, in the order of sending,
          MaxStep,   \* between two datagrams received one after the other
          MaxNumber, \* bound: datagrams sent
          MaxRepeat  \* bound: datagrams received a second time in one window

ASSUME LossAssumption ==
  /\ MaxId \in Nat /\ MaxId >= 3
  /\ Limit \in Nat /\ MinStep \in Int /\ MaxStep \in Int
  /\ MaxNumber \in Nat /\ MaxRepeat \in Nat
  /\ MaxInt \in Nat /\ MaxInt > MaxNumber + 2 * MaxId

VARIABLES last, idx,            \* LoopIds; last = -1 before the first id
          maxIdx, minIdx, count, \* stats: maxId, minId, count
          lastNumber,           \* number of the datagram received last
          got,                  \* numbers counted in this window,
          repeats               \* and how often one was counted again

loopVars    == <<last, idx>>
windowVars  == <<maxIdx, minIdx, count>>
historyVars == <<lastNumber, got, repeats>>
vars == <<loopVars, windowVars, historyVars>>

TypeOK ==
  /\ last \in -1..MaxId /\ idx \in Int
  /\ maxIdx \in 0..MaxInt /\ minIdx \in 0..MaxInt /\ count \in Nat
  /\ lastNumber \in Nat /\ got \subseteq Nat /\ repeats \in 0..count

Init ==
  /\ last = -1 /\ idx = 0
  /\ maxIdx = 0 /\ minIdx = MaxInt /\ count = 0
  /\ lastNumber = 0 /\ got = {} /\ repeats = 0

-----------------------------------------------------------------------------
\* uint8(uplinkID.Add(1) - 1)
Modulus == MaxId + 1
Id(number) == number % Modulus

dimension == MaxId \div 3

Gap(a1, a2) == IF a1 > a2 THEN a1 - a2 ELSE a2 - a1
Smaller(x, y) == IF x < y THEN x ELSE y

\* LoopIds.delta: how far it is from a1 to a2, straight or around the end, if
\* that is near; of ids that are not, the second result knows no sign.
\* (Mutated form: one too few around the end.)
Nearby(a1, a2) == Gap(a1, a2) < dimension \/ Modulus - Gap(a1, a2) < dimension
DeltaShortTurn(a1, a2) ==
  CASE Gap(a1, a2) < dimension            -> a2 - a1
    [] Modulus - Gap(a1, a2) < dimension  -> IF a1 > a2 THEN MaxId - Gap(a1, a2)
                                                        ELSE Gap(a1, a2) - MaxId
    [] OTHER                              -> Smaller(a1 - a2, MaxId - (a1 - a2))
Delta(a1, a2) ==
  CASE Gap(a1, a2) < dimension            -> a2 - a1
    [] Modulus - Gap(a1, a2) < dimension  -> IF a1 > a2 THEN Modulus - Gap(a1, a2)
                                                        ELSE Gap(a1, a2) - Modulus
    [] OTHER                              -> Smaller(a1 - a2, MaxId - (a1 - a2))

\* LoopIds.Expand as the new idx, and whether that is also the result.
Expanded(id) == IF last < 0 THEN id ELSE idx + Delta(last, id)
\* (Mutated form: an index is counted whatever it is.)
CountsAny(id) == last < 0 \/ Nearby(last, id)
Counts(id) == CountsAny(id) /\ Expanded(id) >= 0

\* stats.Index, with the numbers it stands for.
Index(i, number) ==
  /\ maxIdx' = IF i > maxIdx THEN i ELSE maxIdx
  /\ minIdx' = IF i < minIdx THEN i ELSE minIdx
  /\ count' = count + 1
  /\ got' = got \cup {number}
  /\ repeats' = IF number \in got THEN repeats + 1 ELSE repeats

\* PLStats.ID, for a datagram that the network delivers.
Receive(number) ==
  /\ last >= 0 => number - lastNumber \in MinStep..MaxStep
  /\ number \in got => repeats < MaxRepeat
  /\ last' = Id(number)
  /\ idx' = Expanded(Id(number))
  /\ lastNumber' = number
  /\ IF Counts(Id(number))
     THEN Index(Expanded(Id(number)), number)
     ELSE UNCHANGED <<windowVars, got, repeats>>

\* stats.init
Clear ==
  /\ maxIdx' = 0 /\ minIdx' = MaxInt /\ count' = 0
  /\ got' = {} /\ repeats' = 0

\* PLStats.PL of a window that is large enough to report on.
Query ==
  /\ count >= Limit /\ count >= 2
  /\ Clear
  /\ UNCHANGED <<loopVars, lastNumber>>

\* PLStats.reset, every four hours.
Reset ==
  /\ last' = 0 /\ idx' = 0
  /\ Clear
  /\ UNCHANGED lastNumber

Next == (\E number \in 0..MaxNumber : Receive(number)) \/ Query \/ Reset

Spec == Init /\ [][Next]_vars

-----------------------------------------------------------------------------
(***************************************************************************)
(* Properties.                                                             *)
(***************************************************************************)
Missing == (Min(got)..Max(got)) \ got
Lost == maxIdx - minIdx + 1 - count

\* What a window reports as lost is the number of datagrams between the first
\* and the last of it that did not come, less those that came twice: whatever
\* wraps, comes out of order, starts the sequence over or is asked for in
\* between, as long as the disorder is small (stats.go:28).
LossExact == got # {} => Lost = Cardinality(Missing) - repeats

\* stats.go:238 takes it for the sign of a repeated id when more indexes were
\* counted than lie between the smallest and the largest.
RepeatMeansRepeat == Lost < 0 /\ count > 0 => repeats > 0
==================================================================================
