---------------------------- MODULE MsgHeapProofs ----------------------------
(***************************************************************************)
(* Proofs about MsgHeap: types, the ring's window, that no goroutine       *)
(* sleeps through an element it waits for, what makes room without waking  *)
(* a Put, that a call which reports success has what it asked for, and     *)
(* that the ring is the queue of MsgQueue, step by step, but for the       *)
(* faulty del.                                                             *)
(***************************************************************************)
EXTENDS MsgHeap, SequenceTheorems, TLAPS

\* Under the mutex between two steps is only its holder.
LockHeld == \A p \in Popper : pc[p] \in {"check", "sleep", "flag"} => lock = p

\* A Popper about to sleep has seen the ring as it still is.
SeenAll == \A p \in Popper : pc[p] = "sleep" => Hits(p) = {}

HeapInv == TypeOK /\ NoEmptySlot /\ LockHeld /\ SeenAll /\ WaiterSound

LEMMA WrapType ==
  ASSUME NEW i \in Slots, NEW k \in Slots
  PROVE  Wrap(i, k) \in Slots
BY HeapAssumption DEF Wrap, Slots

LEMMA SlotFacts ==
  ASSUME TypeOK
  PROVE  /\ \A k \in 0..(size - 1) : Slot(k) \in Slots
         /\ size < Cap => Wrap(start, size) \in Slots
         /\ Wrap(start, 1) \in Slots
BY HeapAssumption DEF TypeOK, Slot, Wrap, Slots

\* The window as an interval that may wrap around.
LEMMA LiveInterval ==
  ASSUME TypeOK
  PROVE  \A i \in Slots : i \in Live <=>
            \/ start <= i /\ i < start + size
            \/ i < start + size - Cap
<1> SUFFICES ASSUME NEW i \in Slots
             PROVE  i \in Live <=> \/ start <= i /\ i < start + size
                                   \/ i < start + size - Cap
  OBVIOUS
<1>1. ASSUME start <= i, i < start + size PROVE i \in Live
  <2>1. i - start \in 0..(size - 1) /\ Slot(i - start) = i
    BY <1>1, HeapAssumption DEF TypeOK, Slot, Slots
  <2> QED BY <2>1 DEF Live
<1>2. ASSUME i < start + size - Cap PROVE i \in Live
  <2>1. i + Cap - start \in 0..(size - 1) /\ Slot(i + Cap - start) = i
    BY <1>2, HeapAssumption DEF TypeOK, Slot, Slots
  <2> QED BY <2>1 DEF Live
<1>3. ASSUME i \in Live PROVE \/ start <= i /\ i < start + size
                              \/ i < start + size - Cap
  BY <1>3, HeapAssumption DEF Live, TypeOK, Slot, Slots
<1> QED BY <1>1, <1>2, <1>3

LEMMA LiveSlots == TypeOK => Live \subseteq Slots
BY SlotFacts DEF Live

\* A Popper finds nothing just if no live slot holds what it wants.
LEMMA NoHit ==
  ASSUME TypeOK, NEW p \in Popper
  PROVE  Hits(p) = {} <=> \A i \in Live : s[i] \notin Want[p]
BY DEF Hits, Live

\* The array after del, slot by slot: what a live slot of the ring holds then, a
\* live slot held before.  (Not always the right one.)
LEMMA DeletedLive ==
  ASSUME TypeOK, NEW i \in Live, NEW j \in Slots,
         \/ start <= j /\ j < start + (size - 1)
         \/ j < start + (size - 1) - Cap
  PROVE  \E k \in Live : Deleted(i)[j] = s[k]
<1> DEFINE a == ShiftFrom(s, i)
           b == [a EXCEPT ![Cap - 1] = a[0]]
<1>a. /\ Cap \in Nat /\ Cap > 0 /\ start \in Slots /\ size \in 0..Cap
      /\ i \in Slots
      /\ \A x \in Slots : x \in Int /\ 0 <= x /\ x <= Cap - 1
      /\ \A x \in Int : 0 <= x /\ x <= Cap - 1 => x \in Slots
  BY HeapAssumption, LiveSlots DEF TypeOK, Slots
<1>b. /\ size > 0
      /\ \/ start <= i /\ i < start + size
         \/ i < start + size - Cap
  BY <1>a, LiveInterval
<1>0. /\ Cap \in Nat /\ Cap > 0 /\ start \in Slots /\ size \in 0..Cap
      /\ i \in Slots /\ size > 0
      /\ \/ start <= i /\ i < start + size
         \/ i < start + size - Cap
      /\ \A x \in Slots : x \in Int /\ 0 <= x /\ x <= Cap - 1
      /\ \A x \in Int : 0 <= x /\ x <= Cap - 1 => x \in Slots
  BY <1>a, <1>b
<1>1. \A k \in Slots : a[k] = IF k >= i /\ k < Cap - 1 THEN s[k + 1] ELSE s[k]
  BY DEF ShiftFrom
<1>2. a \in [Slots -> Val \cup {NoVal}]
  BY <1>0 DEF ShiftFrom, TypeOK, Slots
<1>3. CASE ~(Wrapped /\ i >= start)
  <2>1. Deleted(i) = a
    BY <1>3 DEF Deleted
  <2>2. CASE j >= i /\ j < Cap - 1
    <3>1. a[j] = s[j + 1]
      BY <1>1, <2>2
    <3>2. j + 1 \in Live
      BY <1>0, <1>3, <2>2, LiveInterval DEF Wrapped
    <3> QED BY <2>1, <3>1, <3>2
  <2>3. CASE ~(j >= i /\ j < Cap - 1)
    <3>1. a[j] = s[j]
      BY <1>1, <2>3
    <3>2. j \in Live
      BY <1>0, LiveInterval
    <3> QED BY <2>1, <3>1, <3>2
  <2> QED BY <2>2, <2>3
<1>4. CASE Wrapped /\ i >= start
  <2>1. Deleted(i) = ShiftFrom(b, 0)
    BY <1>4 DEF Deleted
  <2>2. Cap # 1 /\ 0 \in Slots /\ Cap - 1 \in Slots /\ i > 0 /\ start > 0
    BY <1>0, <1>4 DEF Wrapped
  <2>4. a[0] = s[0] /\ 0 \in Live
    BY <1>0, <1>1, <1>4, <2>2, LiveInterval DEF Wrapped
  <2>5. \A k \in Slots : b[k] = IF k = Cap - 1 THEN s[0] ELSE a[k]
    BY <1>2, <2>2, <2>4
  <2>6. \A k \in Slots : ShiftFrom(b, 0)[k] = IF k < Cap - 1 THEN b[k + 1] ELSE b[k]
    BY <1>0 DEF ShiftFrom
  <2> HIDE DEF a, b
  <2>7. CASE j >= Cap - 2
    <3>1. ShiftFrom(b, 0)[j] = s[0]
      BY <1>0, <2>2, <2>5, <2>6, <2>7
    <3> QED BY <2>1, <2>4, <3>1
  <2>8. CASE j < Cap - 2
    <3>1. j + 1 \in Slots /\ j + 2 \in Slots
      BY <1>0, <2>8
    <3>2. ShiftFrom(b, 0)[j] = a[j + 1]
      BY <1>0, <2>5, <2>6, <2>8, <3>1
    <3>3. CASE j + 1 >= i
      <4>1. a[j + 1] = s[j + 2]
        BY <1>0, <1>1, <2>8, <3>1, <3>3
      <4>2. j + 2 \in Live
        BY <1>0, <1>4, <2>8, <3>1, <3>3, LiveInterval DEF Wrapped
      <4> QED BY <2>1, <3>2, <4>1, <4>2
    <3>4. CASE j + 1 < i
      <4>1. a[j + 1] = s[j + 1]
        BY <1>0, <1>1, <3>1, <3>4
      <4>2. j + 1 \in Live
        BY <1>0, <1>4, <3>1, <3>4, LiveInterval DEF Wrapped
      <4> QED BY <2>1, <3>2, <4>1, <4>2
    <3> QED BY <1>0, <3>3, <3>4
  <2> QED BY <1>0, <2>7, <2>8
<1> QED BY <1>3, <1>4

-----------------------------------------------------------------------------
LEMMA HeapInit == Init => HeapInv
<1> SUFFICES ASSUME Init PROVE HeapInv
  OBVIOUS
<1>1. TypeOK
  <2>1. 0 \in Slots /\ 0 \in 0..Cap
    BY HeapAssumption DEF Slots
  <2> QED BY <2>1 DEF Init, TypeOK
<1>2. Live = {}
  BY DEF Init, Live
<1> QED
  BY <1>1, <1>2 DEF HeapInv, Init, NoEmptySlot, LockHeld, SeenAll, WaiterSound, Thread

LEMMA WokenType ==
  ASSUME TypeOK, NEW t \in Thread,
         NEW l \in {"idle", "lock", "asleep", "check", "sleep", "flag"}
  PROVE  /\ Woken(pc) \in [Thread -> {"idle", "lock", "asleep", "check", "sleep", "flag"}]
         /\ Goto(t, l) \in [Thread -> {"idle", "lock", "asleep", "check", "sleep", "flag"}]
         /\ Woken(Goto(t, l)) \in [Thread -> {"idle", "lock", "asleep", "check", "sleep", "flag"}]
         /\ \A x \in Thread : Woken(pc)[x] = IF pc[x] = "asleep" THEN "lock" ELSE pc[x]
         /\ \A x \in Thread : Goto(t, l)[x] = IF x = t THEN l ELSE pc[x]
         /\ \A x \in Thread : l # "asleep" =>
               Woken(Goto(t, l))[x] = IF x = t THEN l
                                      ELSE IF pc[x] = "asleep" THEN "lock" ELSE pc[x]
BY DEF TypeOK, Woken, Goto

LEMMA DeletedType ==
  ASSUME TypeOK, NEW i \in Slots
  PROVE  Deleted(i) \in [Slots -> Val \cup {NoVal}]
<1>1. ASSUME NEW a \in [Slots -> Val \cup {NoVal}], NEW k
      PROVE  ShiftFrom(a, k) \in [Slots -> Val \cup {NoVal}]
  BY HeapAssumption DEF ShiftFrom, Slots
<1> DEFINE a == ShiftFrom(s, i)
           b == [a EXCEPT ![Cap - 1] = a[0]]
<1>2. a \in [Slots -> Val \cup {NoVal}]
  BY <1>1 DEF TypeOK
<1>3. 0 \in Slots
  BY HeapAssumption DEF Slots
<1>4. b \in [Slots -> Val \cup {NoVal}]
  BY <1>2, <1>3
<1>5. Deleted(i) = a \/ Deleted(i) = ShiftFrom(b, 0)
  BY DEF Deleted
<1> HIDE DEF a, b
<1> QED BY <1>1, <1>2, <1>4, <1>5

LEMMA HitFound ==
  ASSUME TypeOK, NEW p \in Popper, NEW i \in {Slot(k) : k \in FirstHit(p)}
  PROVE  i \in Live /\ s[i] \in Want[p] /\ size > 0
BY DEF FirstHit, Hits, Live, TypeOK

\* After a step that keeps every element a live slot holds among those that were
\* live before, a Popper that found nothing still would find nothing.
LEMMA NoNewHit ==
  ASSUME TypeOK, TypeOK', NEW p \in Popper,
         \A j \in Live' : \E k \in Live : s'[j] = s[k],
         Hits(p) = {}
  PROVE  Hits(p)' = {}
<1>1. \A i \in Live : s[i] \notin Want[p]
  BY NoHit
<1>2. \A i \in Live' : s'[i] \notin Want[p]
  BY <1>1
<1> QED BY <1>2 DEF Hits, Live

LEMMA StoreFacts ==
  ASSUME TypeOK, NoEmptySlot, size < Cap, NEW v \in Val, Store(v)
  PROVE  /\ s' \in [Slots -> Val \cup {NoVal}] /\ start' \in Slots /\ size' \in 0..Cap
         /\ NoEmptySlot'
<1>1. Wrap(start, size) \in Slots
  BY SlotFacts
<1>2. /\ s' = [s EXCEPT ![Wrap(start, size)] = v]
      /\ size' = size + 1 /\ start' = start
  BY DEF Store
<1>3. s' \in [Slots -> Val \cup {NoVal}] /\ start' \in Slots /\ size' \in 0..Cap
  BY <1>1, <1>2, HeapAssumption DEF TypeOK
<1>4. ASSUME NEW k \in 0..(size' - 1) PROVE s'[Slot(k)'] \in Val
  <2>1. Slot(k)' = Slot(k)
    BY <1>2 DEF Slot
  <2>2. CASE k = size
    <3>1. Slot(k) = Wrap(start, size)
      BY <2>2 DEF Slot, Wrap
    <3> QED BY <1>1, <1>2, <2>1, <3>1 DEF TypeOK
  <2>3. CASE k # size
    <3>1. k \in 0..(size - 1)
      BY <1>2, <1>4, <2>3 DEF TypeOK
    <3>2. Slot(k) \in Slots /\ Slot(k) \in Live
      BY <3>1, SlotFacts DEF Live
    <3> QED BY <1>1, <1>2, <2>1, <3>2 DEF TypeOK, NoEmptySlot
  <2> QED BY <2>2, <2>3
<1> QED BY <1>3, <1>4 DEF NoEmptySlot, Live

\* A step of a thread that holds or gets the mutex leaves the others where they
\* were, or wakes them.
LEMMA HeapInvStep == HeapInv /\ [Next]_vars => HeapInv'
<1> SUFFICES ASSUME HeapInv, [Next]_vars PROVE HeapInv'
  OBVIOUS
<1> USE DEF ring, calls, timers
<1>t. TypeOK /\ NoEmptySlot /\ LockHeld /\ SeenAll /\ WaiterSound
  BY DEF HeapInv
<1>1. ASSUME NEW t \in Thread, Call(t)
      PROVE  HeapInv'
  <2>1. TypeOK'
    <3>1. pc' \in [Thread -> {"idle", "lock", "asleep", "check", "sleep", "flag"}]
      BY <1>1, <1>t, WokenType DEF Call
    <3>2. val' \in [Popper -> Val \cup {NoVal}]
      BY <1>1, <1>t DEF Call, TypeOK
    <3>3. dead' \in [Timed -> BOOLEAN]
      BY <1>1, <1>t DEF Call, TypeOK
    <3>4. timer' \in [Timed -> {"off", "armed", "stored"}]
      BY <1>1, <1>t DEF Call, TypeOK
    <3> QED BY <1>1, <1>t, <3>1, <3>2, <3>3, <3>4 DEF Call, TypeOK
  <2>2. \A x \in Thread : pc'[x] = IF x = t THEN "lock" ELSE pc[x]
    BY <1>1, <1>t, WokenType DEF Call
  <2>3. UNCHANGED <<s, start, size, lock>>
    BY <1>1 DEF Call
  <2>4. NoEmptySlot' /\ \A p \in Popper : Hits(p)' = Hits(p)
    BY <1>t, <2>3 DEF NoEmptySlot, Live, Slot, Hits
  <2> QED BY <1>t, <2>1, <2>2, <2>3, <2>4
          DEF HeapInv, LockHeld, SeenAll, WaiterSound, Thread
<1>2. ASSUME NEW t \in Thread, Put(t) \/ MustPut(t), size < Cap
      PROVE  HeapInv'
  <2>1. PICK v \in Val : Store(v)
    BY <1>2, <1>t DEF Put, MustPut, TypeOK
  <2>2. pc' = Woken(Goto(t, "idle")) /\ UNCHANGED <<lock, val, ok, timers>> /\ lock = Free
    BY <1>2, <1>t DEF Put, MustPut, TypeOK
  <2>3. TypeOK' /\ NoEmptySlot'
    BY <1>t, <1>2, <2>1, <2>2, StoreFacts, WokenType DEF TypeOK
  <2>4. \A x \in Thread : pc'[x] = IF x = t THEN "idle"
                                   ELSE IF pc[x] = "asleep" THEN "lock" ELSE pc[x]
    BY <1>t, <2>2, WokenType
  <2> QED BY <1>t, <2>2, <2>3, <2>4, HeapAssumption
          DEF HeapInv, LockHeld, SeenAll, WaiterSound, Thread
<1>3. ASSUME NEW t \in Thread, Put(t), size = Cap
      PROVE  HeapInv'
  <2>1. /\ pc' = Goto(t, "asleep") /\ lock = Free
        /\ UNCHANGED <<s, start, size, lock, val, ok, timers>>
    BY <1>3 DEF Put
  <2>2. TypeOK'
    BY <1>t, <2>1, WokenType DEF TypeOK
  <2>3. \A x \in Thread : pc'[x] = IF x = t THEN "asleep" ELSE pc[x]
    BY <1>t, <2>1, WokenType
  <2>4. NoEmptySlot' /\ \A p \in Popper : Hits(p)' = Hits(p)
    BY <1>t, <2>1 DEF NoEmptySlot, Live, Slot, Hits
  <2>5. t \notin Popper \cup Tailer
    BY <1>3, HeapAssumption DEF Put
  <2> QED BY <1>t, <2>1, <2>2, <2>3, <2>4, <2>5
          DEF HeapInv, LockHeld, SeenAll, WaiterSound, Thread
<1>4. ASSUME NEW t \in Thread, MustPut(t), size = Cap
      PROVE  HeapInv'
  <2>1. PICK v \in Val : s' = [s EXCEPT ![start] = v]
    BY <1>4 DEF MustPut
  <2>2. /\ start' = Wrap(start, 1) /\ pc' = Woken(Goto(t, "idle")) /\ lock = Free
        /\ UNCHANGED <<size, lock, val, ok, timers>>
    BY <1>4 DEF MustPut
  <2>3. TypeOK'
    BY <1>t, <2>1, <2>2, SlotFacts, WokenType DEF TypeOK
  <2>4. NoEmptySlot'
    <3>1. ASSUME NEW i \in Slots PROVE i \in Live
      BY <1>t, <1>4, <3>1, LiveInterval, HeapAssumption DEF Slots, TypeOK
    <3>2. \A i \in Slots : s'[i] \in Val
      BY <1>t, <2>1, <3>1 DEF TypeOK, NoEmptySlot
    <3>3. ASSUME NEW k \in 0..(Cap - 1) PROVE Slot(k)' \in Slots
      <4>1. start' \in Slots /\ k \in Slots
        BY <2>3 DEF TypeOK, Slots
      <4>2. Slot(k)' = Wrap(start', k)
        BY DEF Slot, Wrap
      <4> QED BY <4>1, <4>2, WrapType
    <3>4. size' = Cap
      BY <1>4, <2>2
    <3> QED BY <3>2, <3>3, <3>4 DEF NoEmptySlot, Live
  <2>5. \A x \in Thread : pc'[x] = IF x = t THEN "idle"
                                   ELSE IF pc[x] = "asleep" THEN "lock" ELSE pc[x]
    BY <1>t, <2>2, WokenType
  <2> QED BY <1>t, <2>2, <2>3, <2>4, <2>5, HeapAssumption
          DEF HeapInv, LockHeld, SeenAll, WaiterSound, Thread
<1>5. ASSUME NEW t \in Thread, PopTail(t)
      PROVE  HeapInv'
  <2>1. CASE size = 0
    <3>1. /\ pc' = Goto(t, "asleep") /\ lock = Free /\ t \in Tailer
          /\ UNCHANGED <<s, start, size, lock, val, ok, timers>>
      BY <1>5, <2>1 DEF PopTail
    <3>2. TypeOK'
      BY <1>t, <3>1, WokenType DEF TypeOK
    <3>3. \A x \in Thread : pc'[x] = IF x = t THEN "asleep" ELSE pc[x]
      BY <1>t, <3>1, WokenType
    <3>4. NoEmptySlot' /\ \A p \in Popper : Hits(p)' = Hits(p)
      BY <1>t, <3>1 DEF NoEmptySlot, Live, Slot, Hits
    <3> QED BY <1>t, <2>1, <3>1, <3>2, <3>3, <3>4, HeapAssumption
            DEF HeapInv, LockHeld, SeenAll, WaiterSound, Thread
  <2>2. CASE size # 0
    <3>1. /\ pc' = Woken(Goto(t, "idle")) /\ lock = Free /\ start' = Wrap(start, 1)
          /\ size' = size - 1 /\ UNCHANGED <<s, lock, val, ok, timers>>
      BY <1>5, <2>2 DEF PopTail
    <3>2. size' \in 0..Cap /\ start' \in Slots
      BY <1>t, <2>2, <3>1, SlotFacts, HeapAssumption DEF TypeOK
    <3>3. TypeOK'
      BY <1>t, <3>1, <3>2, WokenType DEF TypeOK
    <3>4. NoEmptySlot'
      <4>1. ASSUME NEW k \in 0..(size' - 1)
            PROVE  k + 1 \in 0..(size - 1) /\ Slot(k)' = Slot(k + 1)
        BY <1>t, <2>2, <3>1, HeapAssumption DEF TypeOK, Slot, Wrap, Slots
      <4> QED BY <1>t, <3>1, <4>1 DEF NoEmptySlot, Live
    <3>5. \A x \in Thread : pc'[x] = IF x = t THEN "idle"
                                     ELSE IF pc[x] = "asleep" THEN "lock" ELSE pc[x]
      BY <1>t, <3>1, WokenType
    <3> QED BY <1>t, <3>1, <3>3, <3>4, <3>5, HeapAssumption
            DEF HeapInv, LockHeld, SeenAll, WaiterSound, Thread
  <2> QED BY <2>1, <2>2
<1>6. ASSUME NEW p \in Popper, Acquire(p) \/ GiveUp(p) \/ Sleep(p) \/ Miss(p)
      PROVE  HeapInv'
  <2>1. UNCHANGED <<s, start, size, val, ok, timers>>
    BY <1>6 DEF Acquire, GiveUp, Sleep, Miss
  <2>2. NoEmptySlot' /\ \A x \in Popper : Hits(x)' = Hits(x)
    BY <1>t, <2>1 DEF NoEmptySlot, Live, Slot, Hits
  <2>3. p \in Thread /\ p \notin Tailer
    BY HeapAssumption DEF Thread
  <2>4. CASE Acquire(p)
    <3>1. pc' = Goto(p, "check") /\ lock = Free /\ lock' = p
      BY <2>4 DEF Acquire
    <3>2. \A x \in Thread : pc'[x] = IF x = p THEN "check" ELSE pc[x]
      BY <1>t, <2>3, <3>1, WokenType
    <3>3. TypeOK'
      BY <1>t, <2>1, <2>3, <3>1, WokenType DEF TypeOK
    <3> QED BY <1>t, <2>1, <2>2, <2>3, <3>1, <3>2, <3>3, HeapAssumption
            DEF HeapInv, LockHeld, SeenAll, WaiterSound, Thread
  <2>5. CASE GiveUp(p)
    <3>1. pc' = Goto(p, "flag") /\ lock' = lock /\ pc[p] = "check"
      BY <2>5 DEF GiveUp
    <3>2. \A x \in Thread : pc'[x] = IF x = p THEN "flag" ELSE pc[x]
      BY <1>t, <2>3, <3>1, WokenType
    <3>3. TypeOK'
      BY <1>t, <2>1, <2>3, <3>1, WokenType DEF TypeOK
    <3> QED BY <1>t, <2>1, <2>2, <2>3, <3>1, <3>2, <3>3, HeapAssumption
            DEF HeapInv, LockHeld, SeenAll, WaiterSound, Thread
  <2>6. CASE Sleep(p)
    <3>1. pc' = Goto(p, "asleep") /\ lock' = Free /\ pc[p] = "sleep"
      BY <2>6 DEF Sleep
    <3>2. \A x \in Thread : pc'[x] = IF x = p THEN "asleep" ELSE pc[x]
      BY <1>t, <2>3, <3>1, WokenType
    <3>3. TypeOK'
      BY <1>t, <2>1, <2>3, <3>1, WokenType DEF TypeOK
    <3>4. \A x \in Popper : pc'[x] \notin {"check", "sleep", "flag"}
      BY <1>t, <3>1, <3>2 DEF LockHeld, Thread
    <3> QED BY <1>t, <2>1, <2>2, <2>3, <3>1, <3>2, <3>3, <3>4
            DEF HeapInv, LockHeld, SeenAll, WaiterSound, Thread
  <2>7. CASE Miss(p)
    <3>1. pc' = Goto(p, "sleep") /\ lock' = lock /\ pc[p] = "check" /\ Hits(p) = {}
      BY <2>7 DEF Miss
    <3>2. \A x \in Thread : pc'[x] = IF x = p THEN "sleep" ELSE pc[x]
      BY <1>t, <2>3, <3>1, WokenType
    <3>3. TypeOK'
      BY <1>t, <2>1, <2>3, <3>1, WokenType DEF TypeOK
    <3> QED BY <1>t, <2>1, <2>2, <2>3, <3>1, <3>2, <3>3, HeapAssumption
            DEF HeapInv, LockHeld, SeenAll, WaiterSound, Thread
  <2> QED BY <1>6, <2>4, <2>5, <2>6, <2>7
<1>7. ASSUME NEW p \in Popper, Delete(p)
      PROVE  HeapInv'
  <2>1. PICK i \in {Slot(k) : k \in FirstHit(p)} :
           val' = [val EXCEPT ![p] = s[i]] /\ s' = Deleted(i)
    BY <1>7 DEF Delete
  <2>2. /\ size' = size - 1 /\ pc' = Goto(p, "flag") /\ pc[p] = "check"
        /\ UNCHANGED <<start, lock, ok, timers>>
    BY <1>7 DEF Delete
  <2>3. i \in Live /\ i \in Slots /\ size > 0
    BY <1>t, HitFound, LiveSlots
  <2>4. p \in Thread /\ p \notin Tailer
    BY HeapAssumption DEF Thread
  <2>5. TypeOK'
    <3>1. s' \in [Slots -> Val \cup {NoVal}]
      BY <1>t, <2>1, <2>3, DeletedType
    <3>2. size' \in 0..Cap /\ start' \in Slots
      BY <1>t, <2>2, <2>3, HeapAssumption DEF TypeOK
    <3>3. val' \in [Popper -> Val \cup {NoVal}]
      BY <1>t, <2>1, <2>3 DEF TypeOK
    <3>4. pc' \in [Thread -> {"idle", "lock", "asleep", "check", "sleep", "flag"}]
      BY <1>t, <2>2, <2>4, WokenType
    <3> QED BY <1>t, <2>2, <3>1, <3>2, <3>3, <3>4 DEF TypeOK
  <2>6. \A j \in Live' : \E k \in Live : s'[j] = s[k]
    <3> SUFFICES ASSUME NEW n \in 0..(size' - 1)
                 PROVE  \E k \in Live : s'[Slot(n)'] = s[k]
      BY DEF Live
    <3>1. /\ Slot(n)' \in Slots
          /\ \/ start <= Slot(n)' /\ Slot(n)' < start + (size - 1)
             \/ Slot(n)' < start + (size - 1) - Cap
      BY <1>t, <2>2, <2>3, HeapAssumption DEF TypeOK, Slot, Slots
    <3> QED BY <1>t, <2>1, <2>3, <3>1, DeletedLive
  <2>7. NoEmptySlot'
    BY <1>t, <2>6 DEF NoEmptySlot
  <2>8. \A x \in Popper : Hits(x) = {} => Hits(x)' = {}
    BY <1>t, <2>5, <2>6, NoNewHit
  <2>9. \A x \in Thread : pc'[x] = IF x = p THEN "flag" ELSE pc[x]
    BY <1>t, <2>2, <2>4, WokenType
  <2>10. \A t \in Tailer : pc'[t] # "asleep"
    BY <1>t, <2>3, <2>4, <2>9 DEF WaiterSound, Thread
  <2> QED BY <1>t, <2>2, <2>4, <2>5, <2>7, <2>8, <2>9, <2>10
          DEF HeapInv, LockHeld, SeenAll, WaiterSound, Thread
<1>8. ASSUME NEW p \in Popper, Return(p)
      PROVE  HeapInv'
  <2>1. pc' = Goto(p, "idle") /\ pc[p] = "flag" /\ lock' = Free
        /\ UNCHANGED <<s, start, size, val, dead>>
    BY <1>8 DEF Return
  <2>2. p \in Thread
    BY DEF Thread
  <2>3. TypeOK'
    <3>1. ok' \in [Popper -> BOOLEAN]
      BY <1>8, <1>t DEF Return, TypeOK, Dead
    <3>2. timer' \in [Timed -> {"off", "armed", "stored"}]
      BY <1>8, <1>t DEF Return, TypeOK
    <3>3. late' \in BOOLEAN
      BY <1>8, <1>t DEF Return, TypeOK
    <3>4. pc' \in [Thread -> {"idle", "lock", "asleep", "check", "sleep", "flag"}]
      BY <1>t, <2>1, <2>2, WokenType
    <3> QED BY <1>t, <2>1, <3>1, <3>2, <3>3, <3>4 DEF TypeOK
  <2>4. NoEmptySlot' /\ \A x \in Popper : Hits(x)' = Hits(x)
    BY <1>t, <2>1 DEF NoEmptySlot, Live, Slot, Hits
  <2>5. \A x \in Thread : pc'[x] = IF x = p THEN "idle" ELSE pc[x]
    BY <1>t, <2>1, <2>2, WokenType
  <2>6. \A x \in Popper : pc'[x] \notin {"check", "sleep", "flag"}
    BY <1>t, <2>1, <2>5 DEF LockHeld, Thread
  <2> QED BY <1>t, <2>1, <2>3, <2>4, <2>5, <2>6
          DEF HeapInv, LockHeld, SeenAll, WaiterSound, Thread
<1>9. ASSUME NEW p \in Timed, TimerStore(p)
      PROVE  HeapInv'
  <2>1. UNCHANGED <<s, start, size, lock, pc, val, ok>>
    BY <1>9 DEF TimerStore
  <2>2. TypeOK'
    BY <1>9, <1>t DEF TimerStore, TypeOK
  <2> QED BY <1>t, <2>1, <2>2
          DEF HeapInv, NoEmptySlot, Live, Slot, Hits, LockHeld, SeenAll, WaiterSound
<1>10. ASSUME (\E p \in Timed : TimerBroadcast(p)) \/ LateBroadcast
       PROVE  HeapInv'
  <2>1. pc' = Woken(pc) /\ UNCHANGED <<s, start, size, lock, val, ok, dead>>
    BY <1>10 DEF TimerBroadcast, LateBroadcast
  <2>2. /\ Woken(pc) \in [Thread -> {"idle", "lock", "asleep", "check", "sleep", "flag"}]
        /\ \A x \in Thread : Woken(pc)[x] = IF pc[x] = "asleep" THEN "lock" ELSE pc[x]
    BY <1>t DEF TypeOK, Woken
  <2>3. timer' \in [Timed -> {"off", "armed", "stored"}] /\ late' \in BOOLEAN
    BY <1>10, <1>t DEF TimerBroadcast, LateBroadcast, TypeOK
  <2>4. TypeOK'
    BY <1>t, <2>1, <2>2, <2>3 DEF TypeOK
  <2>5. NoEmptySlot' /\ \A x \in Popper : Hits(x)' = Hits(x)
    BY <1>t, <2>1 DEF NoEmptySlot, Live, Slot, Hits
  <2> QED BY <1>t, <2>1, <2>2, <2>4, <2>5
          DEF HeapInv, LockHeld, SeenAll, WaiterSound, Thread
<1>11. CASE UNCHANGED vars
  BY <1>11, <1>t DEF vars, HeapInv, TypeOK, NoEmptySlot, Live, Slot, Hits, LockHeld,
                     SeenAll, WaiterSound
<1>12. ASSUME NEW t \in Thread, Put(t) \/ MustPut(t) PROVE HeapInv'
  <2>1. size < Cap \/ size = Cap
    BY <1>t, HeapAssumption DEF TypeOK
  <2> QED BY <1>2, <1>3, <1>4, <1>12, <2>1
<1>13. ASSUME NEW t \in Thread, PopStep(t) PROVE HeapInv'
  <2>1. t \in Popper
    BY <1>13 DEF PopStep, Acquire, GiveUp, Delete, Miss, Sleep, Return
  <2> QED BY <1>6, <1>7, <1>8, <1>13, <2>1 DEF PopStep
<1> QED BY <1>1, <1>5, <1>9, <1>10, <1>11, <1>12, <1>13 DEF Next, Step

LEMMA HeapInvCorrect == Spec => []HeapInv
BY HeapInit, HeapInvStep, PTL DEF Spec

\* The ring's counters stay in range and every thread where it can be.
THEOREM HeapTypeCorrect == Spec => []TypeOK
<1>1. HeapInv => TypeOK
  BY DEF HeapInv
<1> QED BY <1>1, HeapInvCorrect, PTL

\* For any capacity and any goroutines: no element is made up, del included.
THEOREM NoEmptySlotCorrect == Spec => []NoEmptySlot
<1>1. HeapInv => NoEmptySlot
  BY DEF HeapInv
<1> QED BY <1>1, HeapInvCorrect, PTL

\* For any capacity and any goroutines: nobody who waits for an element sleeps
\* while it is there.
THEOREM WaiterSoundCorrect == Spec => []WaiterSound
<1>1. HeapInv => WaiterSound
  BY DEF HeapInv
<1> QED BY <1>1, HeapInvCorrect, PTL

\* For any capacity and any goroutines: whatever makes room in a full ring wakes
\* the Puts that wait for it, except a Pop (heap.go:132).
THEOREM RoomWakesPutterCorrect == Spec => RoomWakesPutter
<1>1. ASSUME TypeOK, [Next]_vars, NEW t \in Putter,
             pc[t] = "asleep", pc'[t] = "asleep", size = Cap
      PROVE  size' = Cap \/ \E p \in Popper : Delete(p)
  <2> USE DEF ring, calls, timers
  <2>1. ASSUME NEW x \in Thread, PopTail(x) PROVE FALSE
    <3>1. x \in Tailer /\ pc' = Woken(Goto(x, "idle"))
      BY <1>1, <2>1, HeapAssumption DEF PopTail
    <3>2. t \in Thread /\ t # x
      BY <3>1, HeapAssumption DEF Thread
    <3>3. pc'[t] = "lock"
      BY <1>1, <3>1, <3>2, WokenType
    <3> QED BY <1>1, <3>3
  <2>2. ASSUME NEW x \in Thread, Call(x) \/ Put(x) \/ MustPut(x) PROVE size' = size
    BY <1>1, <2>2 DEF Call, Put, MustPut
  <2>3. ASSUME NEW x \in Thread, PopStep(x)
        PROVE  size' = size \/ \E p \in Popper : Delete(p)
    <3>1. CASE Delete(x)
      BY <3>1 DEF Delete
    <3>2. CASE ~Delete(x)
      BY <2>3, <3>2 DEF PopStep, Acquire, GiveUp, Miss, Sleep, Return
    <3> QED BY <3>1, <3>2
  <2>4. ASSUME \/ \E p \in Timed : TimerStore(p) \/ TimerBroadcast(p)
               \/ LateBroadcast
               \/ UNCHANGED vars
        PROVE  size' = size
    BY <2>4 DEF TimerStore, TimerBroadcast, LateBroadcast, vars
  <2> QED BY <1>1, <2>1, <2>2, <2>3, <2>4 DEF Next, Step
<1>2. TypeOK /\ [Next]_vars =>
         [\A t \in Putter : pc[t] = "asleep" /\ pc'[t] = "asleep" /\ size = Cap =>
             size' = Cap \/ \E p \in Popper : Delete(p)]_vars
  BY <1>1
<1>3. HeapInv => TypeOK
  BY DEF HeapInv
<1> QED BY <1>2, <1>3, HeapInvCorrect, PTL DEF Spec, RoomWakesPutter

-----------------------------------------------------------------------------
(***************************************************************************)
(* Results.  Between its look through the ring and its second look at the  *)
(* flag a Popper either has an element it wants, or its flag is up and     *)
(* stays up.                                                               *)
(***************************************************************************)
FlagMeans == \A p \in Popper : pc[p] = "flag" => Dead(p) \/ val[p] \in Want[p]

ResultInv == HeapInv /\ FlagMeans /\ OkMeansMatch

LEMMA ResultStep == ResultInv /\ [Next]_vars => FlagMeans' /\ OkMeansMatch'
<1> SUFFICES ASSUME ResultInv, [Next]_vars PROVE FlagMeans' /\ OkMeansMatch'
  OBVIOUS
<1> USE DEF ring, calls, timers
<1>t. TypeOK /\ FlagMeans /\ OkMeansMatch
  BY DEF ResultInv, HeapInv
<1>1. ASSUME UNCHANGED <<val, ok>>,
             \A p \in Popper : pc'[p] \in {"idle", "flag"} => pc'[p] = pc[p],
             \A p \in Popper : Dead(p) /\ pc[p] = "flag" => Dead(p)'
      PROVE  FlagMeans' /\ OkMeansMatch'
  BY <1>t, <1>1 DEF FlagMeans, OkMeansMatch
<1>2. ASSUME NEW t \in Thread, Call(t) PROVE FlagMeans' /\ OkMeansMatch'
  <2>1. \A x \in Thread : pc'[x] = IF x = t THEN "lock" ELSE pc[x]
    BY <1>2, <1>t, WokenType DEF Call
  <2>2. \A p \in Popper : p # t => val'[p] = val[p] /\ (Dead(p) => Dead(p)')
    BY <1>2, <1>t DEF Call, Dead, TypeOK
  <2>3. ok' = ok
    BY <1>2 DEF Call
  <2> QED
    BY <1>t, <2>1, <2>2, <2>3 DEF FlagMeans, OkMeansMatch, Thread
<1>3. ASSUME NEW t \in Thread, Put(t) \/ MustPut(t) \/ PopTail(t)
      PROVE  FlagMeans' /\ OkMeansMatch'
  <2>1. UNCHANGED <<val, ok, dead>>
    BY <1>3 DEF Put, MustPut, PopTail
  <2>2. t \notin Popper
    BY <1>3, HeapAssumption DEF Put, MustPut, PopTail
  <2>3. pc' \in {Goto(t, "asleep"), Woken(Goto(t, "idle"))}
    BY <1>3 DEF Put, MustPut, PopTail
  <2>4. \A p \in Popper : pc'[p] \in {pc[p], "lock"}
    BY <1>t, <2>2, <2>3, WokenType DEF Thread
  <2> QED
    BY <1>1, <2>1, <2>4 DEF Dead
<1>4. ASSUME NEW p \in Popper, Acquire(p) \/ Miss(p) \/ Sleep(p)
      PROVE  FlagMeans' /\ OkMeansMatch'
  <2>1. UNCHANGED <<val, ok, dead>>
    BY <1>4 DEF Acquire, Miss, Sleep
  <2>2. pc' \in {Goto(p, "check"), Goto(p, "sleep"), Goto(p, "asleep")}
    BY <1>4 DEF Acquire, Miss, Sleep
  <2>3. \A x \in Popper : pc'[x] \in {pc[x], "check", "sleep", "asleep"}
    BY <1>t, <2>2, WokenType DEF Thread
  <2> QED
    BY <1>1, <2>1, <2>3 DEF Dead
<1>5. ASSUME NEW p \in Popper, GiveUp(p) \/ Delete(p)
      PROVE  FlagMeans' /\ OkMeansMatch'
  <2>1. pc' = Goto(p, "flag") /\ UNCHANGED <<ok, dead>>
    BY <1>5 DEF GiveUp, Delete
  <2>2. \A x \in Popper : pc'[x] = IF x = p THEN "flag" ELSE pc[x]
    BY <1>t, <2>1, WokenType DEF Thread
  <2>3. \A x \in Popper : x # p => val'[x] = val[x]
    BY <1>5, <1>t DEF GiveUp, Delete, TypeOK
  <2>4. Dead(p) \/ val'[p] \in Want[p]
    BY <1>5, <1>t, HitFound DEF GiveUp, Delete, TypeOK
  <2> QED
    BY <1>t, <2>1, <2>2, <2>3, <2>4 DEF FlagMeans, OkMeansMatch, Dead
<1>6. ASSUME NEW p \in Popper, Return(p) PROVE FlagMeans' /\ OkMeansMatch'
  <2>1. /\ pc' = Goto(p, "idle") /\ pc[p] = "flag" /\ UNCHANGED <<val, dead>>
        /\ ok' = [ok EXCEPT ![p] = ~Dead(p)]
    BY <1>6 DEF Return
  <2>2. \A x \in Popper : pc'[x] = IF x = p THEN "idle" ELSE pc[x]
    BY <1>t, <2>1, WokenType DEF Thread
  <2>3. ok'[p] = ~Dead(p) /\ \A x \in Popper : x # p => ok'[x] = ok[x]
    BY <1>t, <2>1 DEF TypeOK
  <2> QED
    BY <1>t, <2>1, <2>2, <2>3 DEF FlagMeans, OkMeansMatch, Dead
<1>7. ASSUME NEW p \in Timed, TimerStore(p) PROVE FlagMeans' /\ OkMeansMatch'
  BY <1>1, <1>7, <1>t DEF TimerStore, Dead, TypeOK
<1>8. ASSUME (\E p \in Timed : TimerBroadcast(p)) \/ LateBroadcast
      PROVE  FlagMeans' /\ OkMeansMatch'
  <2>1. pc' = Woken(pc) /\ UNCHANGED <<val, ok, dead>>
    BY <1>8 DEF TimerBroadcast, LateBroadcast
  <2>2. \A p \in Popper : pc'[p] \in {pc[p], "lock"}
    BY <1>t, <2>1 DEF Woken, TypeOK, Thread
  <2> QED
    BY <1>1, <2>1, <2>2 DEF Dead
<1>9. CASE UNCHANGED vars
  BY <1>1, <1>9 DEF vars, Dead
<1>10. ASSUME NEW t \in Thread, PopStep(t) PROVE FlagMeans' /\ OkMeansMatch'
  <2>1. t \in Popper
    BY <1>10 DEF PopStep, Acquire, GiveUp, Delete, Miss, Sleep, Return
  <2> QED
    BY <1>4, <1>5, <1>6, <1>10, <2>1 DEF PopStep
<1> QED
  BY <1>2, <1>3, <1>7, <1>8, <1>9, <1>10 DEF Next, Step

\* A Pop that reports success returns an element its predicate accepts, although the
\* timer may raise the flag between the deletion and the second look at it
\* (heap.go:108).
THEOREM OkMeansMatchCorrect == Spec => []OkMeansMatch
<1>1. Init => ResultInv
  BY HeapInit DEF ResultInv, FlagMeans, OkMeansMatch, Init, Thread
<1>2. ResultInv /\ [Next]_vars => ResultInv'
  BY HeapInvStep, ResultStep DEF ResultInv
<1>3. ResultInv => OkMeansMatch
  BY DEF ResultInv
<1> QED
  BY <1>1, <1>2, <1>3, PTL DEF Spec

-----------------------------------------------------------------------------
(***************************************************************************)
(* The ring implements the queue.  First what Append, Tail and RemoveAt    *)
(* are, element by element.                                                *)
(***************************************************************************)
LEMMA IsAppend ==
  ASSUME NEW T, NEW c \in Seq(T), NEW d \in Seq(T), NEW v \in T,
         Len(d) = Len(c) + 1, d[Len(c) + 1] = v,
         \A k \in 1..Len(c) : d[k] = c[k]
  PROVE  d = Append(c, v)
<1>1. /\ Append(c, v) \in Seq(T) /\ Len(Append(c, v)) = Len(c) + 1
      /\ \A k \in 1..Len(c) : Append(c, v)[k] = c[k]
      /\ Append(c, v)[Len(c) + 1] = v
  OBVIOUS
<1>2. \A k \in 1..Len(d) : d[k] = Append(c, v)[k]
  <2> SUFFICES ASSUME NEW k \in 1..(Len(c) + 1) PROVE d[k] = Append(c, v)[k]
    OBVIOUS
  <2>1. Len(c) \in Nat
    OBVIOUS
  <2>2. k = Len(c) + 1 \/ k \in 1..Len(c)
    BY <2>1
  <2> QED BY <1>1, <2>2
<1> QED BY <1>1, <1>2, SeqEqual

LEMMA IsTail ==
  ASSUME NEW T, NEW c \in Seq(T), NEW d \in Seq(T), c # <<>>,
         Len(d) = Len(c) - 1, \A k \in 1..Len(d) : d[k] = c[k + 1]
  PROVE  d = Tail(c)
BY HeadTailProperties, SeqEqual

LEMMA IsRemoveAt ==
  ASSUME NEW T, NEW c \in Seq(T), NEW d \in Seq(T), NEW i \in 1..Len(c),
         Len(d) = Len(c) - 1,
         \A k \in 1..Len(d) : d[k] = IF k < i THEN c[k] ELSE c[k + 1]
  PROVE  d = Queue!RemoveAt(c, i)
<1> DEFINE a == SubSeq(c, 1, i - 1)
           b == SubSeq(c, i + 1, Len(c))
<1>0. Len(c) \in Nat /\ i \in Nat /\ 1 <= i /\ i <= Len(c)
      /\ \A k \in 1..Len(c) : c[k] \in T
  BY ElementOfSeq, LenProperties
<1>1. /\ a \in Seq(T) /\ Len(a) = i - 1
      /\ \A k \in 1..(i - 1) : a[k] = c[k]
  <2>1. \A k \in 1..(i - 1) : c[k] \in T
    BY <1>0
  <2>2. /\ a \in Seq(T) /\ Len(a) = IF 1 <= i - 1 THEN (i - 1) - 1 + 1 ELSE 0
        /\ \A k \in 1..((i - 1) - 1 + 1) : a[k] = c[1 + k - 1]
    BY <1>0, <2>1, SubSeqProperties
  <2> HIDE DEF a
  <2> QED BY <1>0, <2>2
<1>2. /\ b \in Seq(T) /\ Len(b) = Len(c) - i
      /\ \A k \in 1..(Len(c) - i) : b[k] = c[i + k]
  <2>1. \A k \in (i + 1)..Len(c) : c[k] \in T
    BY <1>0
  <2>2. /\ b \in Seq(T) /\ Len(b) = IF i + 1 <= Len(c) THEN Len(c) - (i + 1) + 1 ELSE 0
        /\ \A k \in 1..(Len(c) - (i + 1) + 1) : b[k] = c[(i + 1) + k - 1]
    BY <1>0, <2>1, SubSeqProperties
  <2> HIDE DEF b
  <2> QED BY <1>0, <2>2
<1>3. Queue!RemoveAt(c, i) = a \o b
  BY DEF Queue!RemoveAt
<1> HIDE DEF a, b
<1>4. /\ a \o b \in Seq(T) /\ Len(a \o b) = Len(a) + Len(b)
      /\ \A k \in 1..(Len(a) + Len(b)) : (a \o b)[k] = IF k <= Len(a) THEN a[k] ELSE b[k - Len(a)]
  BY <1>1, <1>2, ConcatProperties
<1>5. ASSUME NEW k \in 1..(Len(c) - 1) PROVE (a \o b)[k] = IF k < i THEN c[k] ELSE c[k + 1]
  <2>1. (a \o b)[k] = IF k <= i - 1 THEN a[k] ELSE b[k - (i - 1)]
    BY <1>0, <1>1, <1>2, <1>4
  <2>2. CASE k < i
    BY <1>0, <1>1, <2>1, <2>2
  <2>3. CASE ~(k < i)
    <3>1. k - (i - 1) \in 1..(Len(c) - i) /\ i + (k - (i - 1)) = k + 1
      BY <1>0, <2>3
    <3> QED BY <1>0, <1>2, <2>1, <2>3, <3>1
  <2> QED BY <2>2, <2>3
<1>6. Len(a \o b) = Len(d) /\ \A k \in 1..Len(d) : d[k] = (a \o b)[k]
  BY <1>0, <1>1, <1>2, <1>4, <1>5
<1> QED BY <1>3, <1>4, <1>6, SeqEqual

\* What the queue is in a state of the ring, and in the next.
LEMMA ContentsSeq ==
  ASSUME TypeOK
  PROVE  /\ Contents \in Seq(Val \cup {NoVal}) /\ Len(Contents) = size
         /\ \A k \in 1..size : Contents[k] = s[Slot(k - 1)]
<1>1. \A k \in 1..size : s[Slot(k - 1)] \in Val \cup {NoVal}
  BY SlotFacts DEF TypeOK
<1> QED BY <1>1 DEF Contents, TypeOK

LEMMA ContentsNext ==
  ASSUME TypeOK'
  PROVE  /\ Contents' \in Seq(Val \cup {NoVal}) /\ Len(Contents') = size'
         /\ \A k \in 1..size' : Contents'[k] = s'[Wrap(start', k - 1)]
<1>1. /\ size' \in 0..Cap /\ Cap \in Nat /\ start' \in Slots
      /\ s' \in [Slots -> Val \cup {NoVal}]
  BY HeapAssumption DEF TypeOK
<1>2. \A k \in 1..size' : k - 1 \in Slots
  BY <1>1 DEF Slots
<1>3. \A k \in 1..size' : s'[Wrap(start', k - 1)] \in Val \cup {NoVal}
  BY <1>1, <1>2, WrapType
<1>4. Contents' = [k \in 1..size' |-> s'[Wrap(start', k - 1)]]
  BY DEF Contents, Slot, Wrap
<1> QED BY <1>1, <1>3, <1>4

LEMMA StoreAppends ==
  ASSUME TypeOK, TypeOK', size < Cap, NEW v \in Val, Store(v)
  PROVE  Contents' = Append(Contents, v)
<1>1. /\ s' = [s EXCEPT ![Wrap(start, size)] = v]
      /\ size' = size + 1 /\ start' = start
  BY DEF Store
<1>2. size \in Nat /\ Cap \in Nat /\ start \in Slots /\ Wrap(start, size) \in Slots
  BY HeapAssumption, SlotFacts DEF TypeOK
<1>3. Contents'[size + 1] = v
  <2>1. Contents'[size + 1] = s'[Wrap(start, size)]
    BY <1>1, <1>2, ContentsNext
  <2> QED BY <1>1, <1>2, <2>1 DEF TypeOK
<1>4. ASSUME NEW k \in 1..size PROVE Contents'[k] = Contents[k]
  <2>1. Contents'[k] = s'[Wrap(start, k - 1)] /\ Contents[k] = s[Slot(k - 1)]
    BY <1>1, <1>2, ContentsSeq, ContentsNext
  <2>2. Wrap(start, k - 1) = Slot(k - 1) /\ Slot(k - 1) \in Slots
        /\ Wrap(start, k - 1) # Wrap(start, size)
    BY <1>2, SlotFacts DEF Wrap, Slot, Slots
  <2> QED BY <1>1, <2>1, <2>2 DEF TypeOK
<1> QED
  BY <1>1, <1>2, <1>3, <1>4, ContentsSeq, ContentsNext, IsAppend

LEMMA DropsOldest ==
  ASSUME TypeOK, TypeOK', size > 0, start' = Wrap(start, 1), size' = size - 1, s' = s
  PROVE  Contents # <<>> /\ Contents' = Tail(Contents)
<1>1. size \in Nat /\ Cap \in Nat /\ start \in Slots /\ size <= Cap
  BY HeapAssumption DEF TypeOK
<1>2. Contents # <<>>
  BY <1>1, ContentsSeq, EmptySeq
<1>3. ASSUME NEW k \in 1..size' PROVE Contents'[k] = Contents[k + 1]
  <2>1. k + 1 \in 1..size /\ Wrap(start', k - 1) = Slot((k + 1) - 1)
    BY <1>1 DEF Wrap, Slot, Slots
  <2> QED BY <2>1, ContentsSeq, ContentsNext
<1> QED
  BY <1>1, <1>2, <1>3, ContentsSeq, ContentsNext, IsTail

\* A full ring writes over its oldest element, which becomes the newest.
LEMMA MustPutFull ==
  ASSUME TypeOK, TypeOK', size = Cap, size' = size, NEW v \in Val,
         start' = Wrap(start, 1), s' = [s EXCEPT ![start] = v]
  PROVE  Contents' = Append(Tail(Contents), v)
<1>1. size \in Nat /\ Cap \in Nat /\ Cap > 0 /\ start \in Slots
  BY HeapAssumption DEF TypeOK
<1>2. Contents \in Seq(Val \cup {NoVal}) /\ Contents # <<>> /\ Len(Contents) = size
  BY <1>1, ContentsSeq, EmptySeq
<1>3. /\ Tail(Contents) \in Seq(Val \cup {NoVal}) /\ Len(Tail(Contents)) = size - 1
      /\ \A k \in 1..(size - 1) : Tail(Contents)[k] = Contents[k + 1]
  BY <1>1, <1>2, HeadTailProperties
<1>4. Contents'[size] = v
  <2>1. Wrap(start', size - 1) = start /\ size \in 1..size
    BY <1>1 DEF Wrap, Slots
  <2> QED BY <1>1, <2>1, ContentsNext DEF TypeOK
<1>5. ASSUME NEW k \in 1..(size - 1) PROVE Contents'[k] = Contents[k + 1]
  <2>1. /\ Wrap(start', k - 1) = Slot((k + 1) - 1) /\ Slot((k + 1) - 1) # start
        /\ k + 1 \in 1..size /\ k \in 1..size' /\ (k + 1) - 1 \in 0..(size - 1)
    BY <1>1 DEF Wrap, Slot, Slots
  <2>2. Slot((k + 1) - 1) \in Slots
    BY <2>1, SlotFacts
  <2> QED BY <2>1, <2>2, ContentsSeq, ContentsNext DEF TypeOK
<1> QED
  BY <1>1, <1>3, <1>4, <1>5, ContentsNext, IsAppend

\* del(i), slot by slot, where it is right: in a ring that does not wrap around, or
\* that starts in its last slot.
LEMMA DeletedRightly ==
  ASSUME TypeOK, ~(Wrapped /\ start < Cap - 1), NEW f \in 0..(size - 1),
         NEW k \in 0..(size - 2)
  PROVE  Deleted(Slot(f))[Slot(k)] = IF k < f THEN s[Slot(k)] ELSE s[Slot(k + 1)]
<1>0. PICK i : i = Slot(f)
  OBVIOUS
<1> DEFINE a == ShiftFrom(s, i)
           b == [a EXCEPT ![Cap - 1] = a[0]]
<1>1. /\ size \in Nat /\ Cap \in Nat /\ Cap > 0 /\ size <= Cap /\ size >= 2
      /\ start \in Nat /\ start < Cap /\ f \in Nat /\ k \in Nat /\ f < size /\ k + 1 < size
      /\ \A x \in Int : 0 <= x /\ x < Cap => x \in Slots
  BY HeapAssumption DEF TypeOK, Slots
<1>2. /\ i \in Slots /\ Slot(k) \in Slots /\ Slot(k + 1) \in Slots /\ i \in Nat
  <2>1. k + 1 \in 0..(size - 1) /\ k \in 0..(size - 1)
    BY <1>1
  <2> QED BY <1>0, <2>1, SlotFacts DEF Slots
<1>3. \A x \in Slots : a[x] = IF x >= i /\ x < Cap - 1 THEN s[x + 1] ELSE s[x]
  BY DEF ShiftFrom
<1>4. CASE ~Wrapped
  <2>1. Slot(k) = start + k /\ Slot(k + 1) = start + k + 1 /\ i = start + f
    BY <1>0, <1>1, <1>4 DEF Slot, Wrapped
  <2>2. Deleted(i) = a
    BY <1>4 DEF Deleted
  <2>3. start + k < Cap - 1
    BY <1>1, <1>4 DEF Wrapped
  <2> HIDE DEF a
  <2>4. a[start + k] = IF k < f THEN s[start + k] ELSE s[start + k + 1]
    BY <1>1, <1>2, <1>3, <2>1, <2>3
  <2> QED
    BY <1>0, <2>1, <2>2, <2>4
<1>5. CASE Wrapped /\ f > 0
  <2>1. start = Cap - 1
    BY <1>1, <1>5
  <2>2. /\ i = f - 1 /\ i < start /\ Slot(k + 1) = k
        /\ Slot(k) = IF k = 0 THEN Cap - 1 ELSE k - 1
    BY <1>0, <1>1, <1>5, <2>1 DEF Slot, Wrapped
  <2>3. Deleted(i) = a
    BY <1>1, <1>2, <2>2 DEF Deleted
  <2> HIDE DEF a
  <2>4. CASE k = 0
    <3>1. a[Cap - 1] = s[Cap - 1]
      BY <1>1, <1>3
    <3> QED BY <1>0, <1>5, <2>2, <2>3, <2>4, <3>1
  <2>5. CASE k # 0
    <3>1. a[k - 1] = IF k - 1 >= f - 1 THEN s[(k - 1) + 1] ELSE s[k - 1]
      BY <1>1, <1>3, <2>2, <2>5
    <3>2. (k - 1) + 1 = k /\ (k - 1 >= f - 1 <=> ~(k < f))
      BY <1>1
    <3> QED BY <1>0, <2>2, <2>3, <2>5, <3>1, <3>2
  <2> QED
    BY <2>4, <2>5
<1>6. CASE Wrapped /\ f = 0
  <2>1. start = Cap - 1 /\ Cap >= 2
    BY <1>1, <1>6
  <2>2. /\ i = Cap - 1 /\ i = start /\ Slot(k + 1) = k
        /\ Slot(k) = IF k = 0 THEN Cap - 1 ELSE k - 1
    BY <1>0, <1>1, <1>6, <2>1 DEF Slot, Wrapped
  <2>3. Deleted(i) = ShiftFrom(b, 0)
    BY <1>1, <1>6, <2>2 DEF Deleted
  <2>4. 0 \in Slots /\ Cap - 1 \in Slots /\ k \in Slots
    BY <1>1, <2>1
  <2>5. a \in [Slots -> Val \cup {NoVal}] /\ \A x \in Slots : a[x] = s[x]
    <3>1. \A x \in Slots : x < Cap - 1 => x < i
      BY <2>2
    <3>2. a = s
      BY <1>1, <1>2, <3>1 DEF ShiftFrom, TypeOK, Slots
    <3> QED BY <3>2 DEF TypeOK
  <2>6. \A x \in Slots : b[x] = IF x = Cap - 1 THEN s[0] ELSE s[x]
    BY <2>4, <2>5
  <2>7. \A x \in Slots : ShiftFrom(b, 0)[x] = IF x < Cap - 1 THEN b[x + 1] ELSE b[x]
    BY <1>1 DEF ShiftFrom, Slots
  <2> HIDE DEF a, b
  <2>8. CASE k = 0
    <3>1. ShiftFrom(b, 0)[Cap - 1] = s[0]
      BY <1>1, <2>4, <2>6, <2>7
    <3> QED BY <1>0, <1>6, <2>2, <2>3, <2>8, <3>1
  <2>9. CASE k # 0
    <3>1. k - 1 \in Slots /\ k - 1 < Cap - 1 /\ (k - 1) + 1 = k /\ k # Cap - 1
      BY <1>1, <2>9
    <3>2. ShiftFrom(b, 0)[k - 1] = s[k]
      BY <2>4, <2>6, <2>7, <3>1
    <3> QED BY <1>0, <1>1, <1>6, <2>2, <2>3, <2>9, <3>2
  <2> QED
    BY <2>8, <2>9
<1> QED
  BY <1>1, <1>4, <1>5, <1>6

LEMMA DeleteTakesFirst ==
  ASSUME TypeOK, TypeOK', NEW p \in Popper, Delete(p), ~(Wrapped /\ start < Cap - 1)
  PROVE  Queue!Pop
<1>1. PICK f \in FirstHit(p) : s' = Deleted(Slot(f))
  BY DEF Delete
<1>2. size' = size - 1 /\ start' = start
  BY DEF Delete, ring
<1>3. /\ f \in 0..(size - 1) /\ s[Slot(f)] \in Want[p]
      /\ \A j \in 0..(size - 1) : s[Slot(j)] \in Want[p] => f <= j
  BY DEF FirstHit, Hits
<1>4. size \in Nat /\ f \in Nat /\ f + 1 \in 1..size
  BY <1>3, HeapAssumption DEF TypeOK
<1>5. Contents[f + 1] \in Want[p]
  BY <1>3, <1>4, ContentsSeq
<1>6. ASSUME NEW j \in 1..f PROVE Contents[j] \notin Want[p]
  <2>1. j \in 1..size /\ j - 1 \in 0..(size - 1) /\ ~(f <= j - 1)
    BY <1>4
  <2> QED BY <1>3, <2>1, ContentsSeq
<1>7. ASSUME NEW k \in 1..(size - 1)
      PROVE  Contents'[k] = IF k < f + 1 THEN Contents[k] ELSE Contents[k + 1]
  <2>1. k - 1 \in 0..(size - 2) /\ k \in 1..size /\ k + 1 \in 1..size /\ k \in 1..size'
    BY <1>2, <1>4
  <2>2. Contents'[k] = s'[Slot(k - 1)]
    BY <1>2, <2>1, ContentsNext DEF Slot, Wrap
  <2>3. Contents[k] = s[Slot(k - 1)] /\ Contents[k + 1] = s[Slot((k - 1) + 1)]
    BY <2>1, ContentsSeq
  <2>4. s'[Slot(k - 1)] = IF k - 1 < f THEN s[Slot(k - 1)] ELSE s[Slot((k - 1) + 1)]
    BY <1>1, <1>3, <2>1, DeletedRightly
  <2> QED BY <1>4, <2>2, <2>3, <2>4
<1>8. Contents' = Queue!RemoveAt(Contents, f + 1)
  <2>1. /\ Contents \in Seq(Val \cup {NoVal}) /\ Contents' \in Seq(Val \cup {NoVal})
        /\ Len(Contents) = size /\ Len(Contents') = size - 1
    BY <1>2, ContentsSeq, ContentsNext
  <2>2. /\ f + 1 \in 1..Len(Contents) /\ Len(Contents') = Len(Contents) - 1
        /\ \A k \in 1..Len(Contents') :
              Contents'[k] = IF k < f + 1 THEN Contents[k] ELSE Contents[k + 1]
    BY <1>4, <1>7, <2>1
  <2> QED BY <2>1, <2>2, IsRemoveAt
<1>9. /\ f + 1 \in 1..Len(Contents) /\ \A j \in 1..((f + 1) - 1) : Contents[j] \notin Want[p]
  BY <1>4, <1>6, ContentsSeq
<1> QED
  BY <1>5, <1>8, <1>9 DEF Queue!Pop

LEMMA QueueStep ==
  ASSUME TypeOK, TypeOK', [Next]_vars
  PROVE  Queue!Next \/ FaultyDelete \/ UNCHANGED Contents
<1> USE DEF ring, calls, timers
<1>1. /\ size \in Nat /\ Cap \in Nat /\ Cap > 0 /\ size <= Cap
      /\ Contents \in Seq(Val \cup {NoVal}) /\ Len(Contents) = size
  BY HeapAssumption, ContentsSeq DEF TypeOK
<1>2. ASSUME UNCHANGED ring PROVE UNCHANGED Contents
  BY <1>2 DEF Contents, Slot
<1>3. ASSUME NEW t \in Thread, Put(t) PROVE Queue!Put \/ UNCHANGED Contents
  <2>1. CASE size = Cap
    BY <1>2, <1>3, <2>1 DEF Put
  <2>2. CASE size # Cap
    <3>1. PICK v \in Val : Store(v)
      BY <1>3, <2>2 DEF Put
    <3>2. Contents' = Append(Contents, v) /\ Len(Contents) < Cap
      BY <1>1, <2>2, <3>1, StoreAppends
    <3> QED BY <3>2 DEF Queue!Put
  <2> QED BY <2>1, <2>2
<1>4. ASSUME NEW t \in Thread, MustPut(t) PROVE Queue!MustPut
  <2>1. CASE size = Cap
    <3>1. PICK v \in Val : s' = [s EXCEPT ![start] = v]
      BY <1>4, <2>1 DEF MustPut
    <3>2. Contents' = Append(Tail(Contents), v)
      BY <1>4, <2>1, <3>1, MustPutFull DEF MustPut
    <3> QED BY <1>1, <2>1, <3>2 DEF Queue!MustPut
  <2>2. CASE size # Cap
    <3>1. PICK v \in Val : Store(v)
      BY <1>4, <2>2 DEF MustPut
    <3>2. Contents' = Append(Contents, v)
      BY <1>1, <2>2, <3>1, StoreAppends
    <3> QED BY <1>1, <2>2, <3>2 DEF Queue!MustPut
  <2> QED BY <2>1, <2>2
<1>5. ASSUME NEW t \in Thread, PopTail(t) PROVE Queue!PopTail \/ UNCHANGED Contents
  <2>1. CASE size = 0
    BY <1>2, <1>5, <2>1 DEF PopTail
  <2>2. CASE size # 0
    BY <1>1, <1>5, <2>2, DropsOldest DEF PopTail, Queue!PopTail
  <2> QED BY <2>1, <2>2
<1>6. ASSUME NEW p \in Popper, Delete(p) PROVE Queue!Pop \/ FaultyDelete
  BY <1>6, DeleteTakesFirst DEF FaultyDelete
<1>7. ASSUME NEW t \in Thread, PopStep(t) PROVE Queue!Pop \/ FaultyDelete \/ UNCHANGED Contents
  <2>1. t \in Popper
    BY <1>7 DEF PopStep, Acquire, GiveUp, Delete, Miss, Sleep, Return
  <2>2. Delete(t) \/ UNCHANGED ring
    BY <1>7 DEF PopStep, Acquire, GiveUp, Miss, Sleep, Return
  <2> QED BY <1>2, <1>6, <2>1, <2>2
<1>8. ASSUME NEW t \in Thread, Call(t) PROVE UNCHANGED ring
  BY <1>8 DEF Call
<1>9. ASSUME \/ \E p \in Timed : TimerStore(p) \/ TimerBroadcast(p)
             \/ LateBroadcast
             \/ UNCHANGED vars
      PROVE  UNCHANGED ring
  BY <1>9 DEF TimerStore, TimerBroadcast, LateBroadcast, vars
<1> QED
  BY <1>2, <1>3, <1>4, <1>5, <1>7, <1>8, <1>9 DEF Next, Step, Queue!Next

\* For any capacity and any goroutines, what callers see of the ring is a bounded FIFO
\* queue with removal of the first wanted element; the only steps that are none are
\* deletions from a ring that wraps around and does not start in its last slot
\* (heap.go:125).
THEOREM QueueButForDelCorrect == Spec => QueueButForDel
<1>1. Init => Queue!Init
  BY DEF Init, Queue!Init, Contents
<1>2. HeapInv /\ HeapInv' /\ [Next]_vars => [Queue!Next \/ FaultyDelete]_Contents
  BY QueueStep DEF HeapInv
<1>3. QED
  BY <1>1, <1>2, HeapInvCorrect, PTL DEF Spec, QueueButForDel

==============================================================================
