----------------------------- MODULE RegistryProofs -----------------------------
(***************************************************************************)
(* Theorems about Registry for any loops, modulus and number of records.   *)
(* No run extends Registry, so what the proofs need of its constants is a  *)
(* hypothesis of the theorems.                                             *)
(***************************************************************************)
EXTENDS Registry, FiniteSetTheorems, TLAPS

\* A node has finitely many loops; a number is a byte.
Sizes ==
  /\ IsFiniteSet(Loop) /\ Forgets \in BOOLEAN
  /\ Modulus \in Nat \ {0} /\ MaxRecord \in Nat

(***************************************************************************)
(* A loop that has found the table empty will enter a record, and no other *)
(* loop will join those while there is an entry.                           *)
(***************************************************************************)
Creating == {l \in Loop : pc[l] = "create"}

EnteredOnce ==
  /\ entry = Nil => since = {}
  /\ IsFiniteSet(since)
  /\ Cardinality(since) + Cardinality(Creating) <= Cardinality(Loop)

(***************************************************************************)
(* Once a loop that has begun since the last tick holds a record, the      *)
(* entry is marked, or will be by the loop that put it there.              *)
(***************************************************************************)
Marked == alive[entry] \/ \E l \in Loop : pc[l] = "touch" /\ hold[l] = entry

MarkedWhileUsed ==
  Forgets /\ (served \/ \E l \in began : pc[l] \in {"touch", "use"}) =>
    entry # Nil /\ Marked

(***************************************************************************)
(* Records are made, entered and used by the loop that draws in the order  *)
(* of their numbers.                                                       *)
(***************************************************************************)
DrawnInOrder ==
  /\ entry # Nil => entry >= drawn[1] /\ \A l \in Loop : entry >= hold[l]
  /\ \A l \in Downlink : hold[l] # Nil => hold[l] >= drawn[1]
  /\ drawn[1] # Nil => number[drawn[1]] = (drawn[2] + 1) % Modulus
  /\ \A r \in Record : r > drawn[1] => number[r] = 0

OneDrawer == \A k, l \in Downlink : k = l

-----------------------------------------------------------------------------
(* Types *)

LEMMA TypeInit == ASSUME Sizes, Init PROVE TypeOK
<1> USE DEF Sizes, Init, Record, Nil
<1>1. 0 \in 0..(Modulus - 1) /\ 0 \in 0..MaxRecord
  OBVIOUS
<1>2. alive \in [Record -> BOOLEAN] /\ number \in [Record -> 0..(Modulus - 1)]
  BY <1>1
<1>3. /\ pc \in [Loop -> {"idle", "create", "touch", "use"}] /\ hold \in [Loop -> 0..records]
      /\ \A l \in Loop : hold[l] # Nil <=> pc[l] \in {"touch", "use"}
  OBVIOUS
<1>4. drawn \in (0..records) \X (0..(Modulus - 1))
  BY <1>1
<1>5. QED
  BY <1>1, <1>2, <1>3, <1>4 DEF TypeOK

LEMMA NextNumber ==
  ASSUME Sizes, NEW n \in 0..(Modulus - 1)
  PROVE  (n + 1) % Modulus \in 0..(Modulus - 1)
BY DEF Sizes

LEMMA TypeStep ==
  ASSUME Sizes, TypeOK, [Next]_vars
  PROVE  TypeOK'
<1> USE DEF Sizes, TypeOK, Record, Nil, Found
<1>1. ASSUME NEW l \in Loop, Look(l) PROVE TypeOK'
  BY <1>1 DEF Look
<1>2. ASSUME NEW l \in Loop, Enter(l) PROVE TypeOK'
  BY <1>2 DEF Enter, Entered
<1>3. ASSUME NEW l \in Loop, Touch(l) PROVE TypeOK'
  BY <1>3 DEF Touch, historyVars
<1>4. ASSUME NEW l \in Loop, Use(l) PROVE TypeOK'
  <2>1. hold[l] \in Record /\ hold[l] \in 0..records
    BY <1>4 DEF Use
  <2>2. (number[hold[l]] + 1) % Modulus \in 0..(Modulus - 1)
    BY <2>1, NextNumber
  <2>3. number' \in [Record -> 0..(Modulus - 1)]
    BY <1>4, <2>2 DEF Use
  <2>4. drawn' \in (0..records) \X (0..(Modulus - 1))
    BY <1>4, <2>1 DEF Use, Draw
  <2>5. alive' \in [Record -> BOOLEAN]
    BY <1>4 DEF Use
  <2>6. /\ pc' = [pc EXCEPT ![l] = "idle"] /\ hold' = [hold EXCEPT ![l] = Nil]
        /\ UNCHANGED <<entry, records, since, began>>
        /\ served' \in BOOLEAN
    BY <1>4 DEF Use
  <2>7. /\ pc' \in [Loop -> {"idle", "create", "touch", "use"}] /\ hold' \in [Loop -> 0..records']
        /\ \A k \in Loop : hold'[k] # Nil <=> pc'[k] \in {"touch", "use"}
    BY <2>6
  <2>8. QED
    BY <2>3, <2>4, <2>5, <2>6, <2>7
<1>5. CASE Tick
  <2>1. [r \in Record |-> alive[r] /\ r # entry] \in [Record -> BOOLEAN]
    BY Zenon
  <2>2. alive' \in [Record -> BOOLEAN]
    BY <1>5, <2>1, Zenon DEF Tick
  <2>3. /\ entry' \in {entry, Nil} /\ since' \in {since, {}}
        /\ began' = {} /\ served' = FALSE
        /\ UNCHANGED <<records, number, pc, hold, drawn>>
    BY <1>5 DEF Tick
  <2>4. entry' \in 0..records /\ since' \subseteq 1..records
    BY <2>3
  <2>5. QED
    BY <2>2, <2>3, <2>4
<1>6. CASE UNCHANGED vars
  BY <1>6 DEF vars, historyVars
<1>7. QED
  BY <1>1, <1>2, <1>3, <1>4, <1>5, <1>6 DEF Next

-----------------------------------------------------------------------------
(* The number of records entered *)

LEMMA EnteredOnceStep ==
  ASSUME Sizes, TypeOK, EnteredOnce, [Next]_vars
  PROVE  EnteredOnce'
<1> USE DEF Sizes, TypeOK, EnteredOnce, Nil
<1>1. IsFiniteSet(Creating) /\ Cardinality(Creating) \in Nat /\ Cardinality(Loop) \in Nat
  BY FS_Subset, FS_CardinalityType DEF Creating
<1>2. Cardinality(since) \in Nat
  BY FS_CardinalityType
<1>3. ASSUME NEW l \in Loop, Look(l) PROVE EnteredOnce'
  <2>1. CASE entry = Nil
    <3>1. since' = {} /\ Creating' \subseteq Loop
      BY <1>3, <2>1 DEF Look, Creating
    <3>2. /\ IsFiniteSet(since') /\ Cardinality(since') = 0
          /\ Cardinality(Creating') \in Nat /\ Cardinality(Creating') <= Cardinality(Loop)
      BY <3>1, FS_Subset, FS_EmptySet, FS_CardinalityType
    <3>3. QED
      BY <1>1, <1>3, <2>1, <3>1, <3>2, FS_EmptySet, FS_CardinalityType, FS_Subset DEF Look
  <2>2. CASE entry # Nil
    <3>1. Creating' = Creating
      BY <1>3, <2>2 DEF Look, Creating, Found
    <3>2. QED
      BY <1>3, <2>2, <3>1 DEF Look
  <2>3. QED
    BY <2>1, <2>2
<1>4. ASSUME NEW l \in Loop, Enter(l) PROVE EnteredOnce'
  <2>1. Creating' = Creating \ {l} /\ l \in Creating
    BY <1>4 DEF Enter, Creating, Found
  <2>2. Cardinality(Creating') = Cardinality(Creating) - 1
    BY <1>1, <2>1, FS_RemoveElement
  <2>3. since' = since \cup {records + 1} /\ records + 1 \notin since
    BY <1>4 DEF Enter
  <2>4. IsFiniteSet(since') /\ Cardinality(since') = Cardinality(since) + 1
    BY <2>3, FS_AddElement
  <2>5. entry' # Nil
    BY <1>4 DEF Enter, Entered
  <2>6. QED
    BY <1>1, <1>2, <2>2, <2>4, <2>5
<1>5. ASSUME NEW l \in Loop, Touch(l) \/ Use(l) PROVE EnteredOnce'
  <2>1. Creating' = Creating
    BY <1>5 DEF Touch, Use, Creating
  <2>2. QED
    BY <1>5, <2>1 DEF Touch, Use, historyVars
<1>6. CASE Tick
  <2>1. Creating' = Creating
    BY <1>6 DEF Tick, Creating
  <2>2. CASE UNCHANGED <<entry, since>>
    BY <2>1, <2>2
  <2>3. CASE since' = {}
    BY <1>1, <1>2, <2>1, <2>3, FS_EmptySet
  <2>4. QED
    BY <1>6, <2>2, <2>3 DEF Tick
<1>7. CASE UNCHANGED vars
  BY <1>7 DEF vars, historyVars, Creating
<1>8. QED
  BY <1>3, <1>4, <1>5, <1>6, <1>7 DEF Next

-----------------------------------------------------------------------------
(* The mark of a peer in use *)

LEMMA MarkedStep ==
  ASSUME Sizes, TypeOK, MarkedWhileUsed, [Next]_vars
  PROVE  MarkedWhileUsed'
<1> USE DEF Sizes, TypeOK, MarkedWhileUsed, Nil
<1>1. ASSUME NEW l \in Loop, Look(l) PROVE MarkedWhileUsed'
  BY <1>1 DEF Look, Found, Marked
<1>2. ASSUME NEW l \in Loop, Enter(l) PROVE MarkedWhileUsed'
  BY <1>2 DEF Enter, Entered, Found, Marked
<1>3. ASSUME NEW l \in Loop, Touch(l) PROVE MarkedWhileUsed'
  <2>1. /\ hold[l] \in Record /\ alive' = [alive EXCEPT ![hold[l]] = TRUE]
        /\ pc[l] = "touch" /\ pc' = [pc EXCEPT ![l] = "use"]
        /\ UNCHANGED <<entry, hold, began, served>>
    BY <1>3 DEF Touch, Record, historyVars
  <2>2. Marked => Marked'
    <3>1. CASE hold[l] = entry
      BY <2>1, <3>1 DEF Marked
    <3>2. CASE hold[l] # entry
      BY <2>1, <3>2 DEF Marked
    <3>3. QED
      BY <3>1, <3>2
  <2>3. QED
    BY <2>1, <2>2
<1>4. ASSUME NEW l \in Loop, Use(l) PROVE MarkedWhileUsed'
  <2>1. /\ alive' = alive \/ alive' = [alive EXCEPT ![hold[l]] = TRUE]
        /\ pc[l] = "use" /\ pc' = [pc EXCEPT ![l] = "idle"]
        /\ hold' = [hold EXCEPT ![l] = Nil] /\ served' = (served \/ l \in began)
        /\ UNCHANGED <<entry, began>>
    BY <1>4 DEF Use
  <2>2. ASSUME alive[entry], entry # Nil PROVE alive'[entry]
    <3>1. entry \in Record
      BY <2>2 DEF Record
    <3>2. CASE alive' = alive
      BY <2>2, <3>2
    <3>3. CASE alive' = [alive EXCEPT ![hold[l]] = TRUE]
      BY <2>2, <3>1, <3>3
    <3>4. QED
      BY <2>1, <3>2, <3>3
  <2>3. ASSUME NEW k \in Loop, pc[k] = "touch", hold[k] = entry
        PROVE  pc'[k] = "touch" /\ hold'[k] = entry'
    BY <2>1, <2>3
  <2>4. entry # Nil /\ Marked => Marked'
    BY <2>1, <2>2, <2>3 DEF Marked
  <2>5. QED
    BY <2>1, <2>4
<1>5. CASE Tick
  BY <1>5 DEF Tick
<1>6. CASE UNCHANGED vars
  BY <1>6 DEF vars, historyVars, Marked
<1>7. QED
  BY <1>1, <1>2, <1>3, <1>4, <1>5, <1>6 DEF Next

-----------------------------------------------------------------------------
(* The order of the numbers *)

LEMMA DrawnStep ==
  ASSUME Sizes, OneDrawer, TypeOK, DrawnInOrder, [Next]_vars
  PROVE  DrawnInOrder' /\ [RunsOn]_vars
<1> USE DEF Sizes, OneDrawer, TypeOK, DrawnInOrder, RunsOn, Nil, Record, Loop
<1>1. ASSUME NEW l \in Loop, Look(l) PROVE DrawnInOrder' /\ RunsOn
  BY <1>1 DEF Look
<1>2. ASSUME NEW l \in Loop, Enter(l) PROVE DrawnInOrder' /\ RunsOn
  BY <1>2 DEF Enter, Entered
<1>3. ASSUME NEW l \in Loop, Touch(l) PROVE DrawnInOrder' /\ RunsOn
  BY <1>3 DEF Touch, historyVars
<1>4. ASSUME NEW l \in Loop, Use(l) PROVE DrawnInOrder' /\ RunsOn
  <2>1. /\ hold[l] \in Record /\ hold' = [hold EXCEPT ![l] = Nil]
        /\ UNCHANGED <<entry, records>>
    BY <1>4 DEF Use
  <2>2. CASE UNCHANGED <<number, drawn>>
    BY <2>1, <2>2
  <2>3. CASE /\ l \in Downlink
             /\ number' = [number EXCEPT ![hold[l]] = (@ + 1) % Modulus]
             /\ drawn' = <<hold[l], number[hold[l]]>>
    <3>1. /\ drawn'[1] = hold[l] /\ drawn'[2] = number[hold[l]]
          /\ hold[l] >= drawn[1]
      BY <2>1, <2>3
    <3>2. RunsOn
      BY <2>1, <3>1
    <3>3. number'[drawn'[1]] = (drawn'[2] + 1) % Modulus
      BY <2>1, <2>3, <3>1
    <3>4. \A r \in Record : r > drawn'[1] => number'[r] = 0
      BY <2>1, <2>3, <3>1
    <3>5. entry' # Nil => entry' >= drawn'[1] /\ \A k \in Loop : entry' >= hold'[k]
      BY <2>1, <3>1
    <3>6. \A k \in Downlink : hold'[k] # Nil => hold'[k] >= drawn'[1]
      BY <2>1, <2>3
    <3>7. QED
      BY <3>2, <3>3, <3>4, <3>5, <3>6
  <2>4. QED
    BY <1>4, <2>2, <2>3 DEF Use, Draw
<1>5. CASE Tick
  BY <1>5 DEF Tick
<1>6. CASE UNCHANGED vars
  BY <1>6 DEF vars, historyVars
<1>7. QED
  BY <1>1, <1>2, <1>3, <1>4, <1>5, <1>6 DEF Next

-----------------------------------------------------------------------------
(* The theorems *)

RegistryInv == TypeOK /\ EnteredOnce /\ MarkedWhileUsed

LEMMA RegistryInvInit == ASSUME Sizes, Init PROVE RegistryInv
<1>1. TypeOK
  BY TypeInit
<1>2. EnteredOnce
  <2>1. Creating = {} /\ since = {}
    BY DEF Init, Creating
  <2>2. QED
    BY <2>1, FS_EmptySet, FS_CardinalityType DEF EnteredOnce, Sizes
<1>3. MarkedWhileUsed
  BY DEF Init, MarkedWhileUsed
<1>4. QED
  BY <1>1, <1>2, <1>3 DEF RegistryInv

LEMMA RegistryAlways == ASSUME Sizes PROVE Spec => []RegistryInv
<1>1. Init => RegistryInv
  BY RegistryInvInit
<1>2. RegistryInv /\ [Next]_vars => RegistryInv'
  BY TypeStep, EnteredOnceStep, MarkedStep DEF RegistryInv
<1>3. QED
  BY <1>1, <1>2, PTL DEF Spec

LEMMA OneRecordFollows == ASSUME Sizes, RegistryInv PROVE OneRecordPerLoop
<1>1. IsFiniteSet(Creating)
  BY FS_Subset DEF Sizes, Creating
<1>2. /\ Cardinality(since) \in Nat /\ Cardinality(Creating) \in Nat
      /\ Cardinality(Loop) \in Nat
  BY <1>1, FS_CardinalityType DEF Sizes, RegistryInv, EnteredOnce
<1>3. QED
  BY <1>2 DEF RegistryInv, EnteredOnce, OneRecordPerLoop

LEMMA ForgottenByTick ==
  ASSUME Sizes, RegistryInv, Next, entry # Nil, entry' = Nil
  PROVE  Tick /\ Forgets
<1>1. ASSUME NEW l \in Loop PROVE ~Enter(l)
  <2>1. records + 1 # Nil
    BY DEF RegistryInv, TypeOK, Sizes, Nil
  <2>2. QED
    BY <2>1 DEF Enter, Entered
<1>2. ASSUME NEW l \in Loop PROVE ~Look(l) /\ ~Touch(l) /\ ~Use(l)
  BY DEF Look, Touch, Use, Nil
<1>3. QED
  BY <1>1, <1>2 DEF Next, Tick

LEMMA KeptStep ==
  ASSUME Sizes, RegistryInv, Next, entry # Nil, entry' = Nil, served
  PROVE  \E l \in Loop : pc[l] = "touch" /\ hold[l] = entry
<1>1. Forgets /\ ~alive[entry]
  BY ForgottenByTick DEF Tick
<1>2. QED
  BY <1>1 DEF RegistryInv, MarkedWhileUsed, Marked

\* A registry's record of a peer, its counters and its loops hold values of their
\* types.
THEOREM RegistryTypeCorrect == ASSUME Sizes PROVE Spec => []TypeOK
<1>1. RegistryInv => TypeOK
  BY DEF RegistryInv
<1>2. QED
  BY <1>1, RegistryAlways, PTL

\* However many loops look for a peer at once, not more of them enter a record over
\* another's than there are loops, until the peer is forgotten (cs.go:26, gs.go:25).
THEOREM OneRecordPerLoopCorrect == ASSUME Sizes PROVE Spec => []OneRecordPerLoop
<1>1. RegistryInv => OneRecordPerLoop
  BY OneRecordFollows
<1>2. QED
  BY <1>1, RegistryAlways, PTL

\* keepalive forgets a client that was asked for from beginning to end since its
\* last tick only between another loop's entering a record and marking it (cs.go:45).
THEOREM KeptWhileUsedCorrect == ASSUME Sizes PROVE Spec => KeptWhileUsed
<1>1. RegistryInv /\ [Next]_vars =>
        [entry # Nil /\ entry' = Nil =>
           ~served \/ \E l \in Loop : pc[l] = "touch" /\ hold[l] = entry]_vars
  BY KeptStep
<1>2. QED
  BY <1>1, RegistryAlways, PTL DEF Spec, KeptWhileUsed

\* The one loop that writes to a client numbers its datagrams without a gap, or from
\* 0 with a later record, also while another loop and keepalive exchange the record
\* (cs.go:70).
THEOREM NumbersRunOnCorrect == ASSUME Sizes, OneDrawer PROVE Spec => NumbersRunOn
<1>1. Init => DrawnInOrder
  BY DEF Init, DrawnInOrder, Loop, Nil
<1>2. RegistryInv /\ DrawnInOrder /\ [Next]_vars => DrawnInOrder' /\ [RunsOn]_vars
  BY DrawnStep DEF RegistryInv
<1>3. QED
  BY <1>1, <1>2, RegistryAlways, PTL DEF Spec, NumbersRunOn
=================================================================================
