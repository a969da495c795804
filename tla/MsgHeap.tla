------------------------------- MODULE MsgHeap -------------------------------
(***************************************************************************)
(* nodes/internal/heap: a ring buffer under one mutex and one condition    *)
(* variable, the queue of messages between a client's receive loop and the *)
(* requests that wait for an answer.                                       *)
(*                                                                         *)
(* Put, MustPut and PopTail hold the mutex from start to end and are one   *)
(* step.  Pop and PopDeadline are taken apart, because the timer of        *)
(* PopDeadline stores its flag and broadcasts without the mutex and so     *)
(* falls between any two of their steps.                                   *)
(***************************************************************************)
EXTENDS Integers, Sequences, FiniteSets

CONSTANTS
    Cap,          \* len(h.s)
    Val, NoVal,   \* messages, and the zero value of a slot
    Putter,       \* goroutines that call Put,
    MustPutter,   \* MustPut,
    Tailer,       \* PopTail,
    Popper,       \* Pop or PopDeadline
    Timed,        \* the Poppers that call PopDeadline
    Want          \* the predicate of each Popper, as the set where it is true

Thread == Putter \cup MustPutter \cup Tailer \cup Popper
Free == "free"

ASSUME HeapAssumption ==
    /\ Cap \in Nat \ {0}
    /\ NoVal \notin Val
    /\ Timed \subseteq Popper
    /\ Want \in [Popper -> SUBSET Val]
    /\ Free \notin Thread
    /\ Putter \cap MustPutter = {} /\ Tailer \cap (Putter \cup MustPutter) = {}
    /\ Popper \cap (Putter \cup MustPutter \cup Tailer) = {}

VARIABLES
    s, start, size,  \* the ring
    lock,            \* holder of h.mu between two steps, or Free
    pc,              \* per thread: "idle", "lock" (at h.mu.Lock or woken),
                     \* "asleep" (in h.rw.Wait), and for Poppers "check",
                     \* "sleep" and "flag"
    val, ok,         \* per Popper, the results of its last call
    dead,            \* per Timed Popper, the flag of its current call
    timer,           \* "off", "armed" or "stored" (flag stored, no broadcast yet)
    late             \* a timer of a call that has returned is about to broadcast

ring   == <<s, start, size>>
calls  == <<val, ok>>
timers == <<dead, timer, late>>
vars   == <<ring, lock, pc, calls, timers>>

Slots == 0..(Cap - 1)

TypeOK ==
    /\ s \in [Slots -> Val \cup {NoVal}]
    /\ start \in Slots /\ size \in 0..Cap
    /\ lock \in Popper \cup {Free}
    /\ pc \in [Thread -> {"idle", "lock", "asleep", "check", "sleep", "flag"}]
    /\ val \in [Popper -> Val \cup {NoVal}]
    /\ ok \in [Popper -> BOOLEAN]
    /\ dead \in [Timed -> BOOLEAN]
    /\ timer \in [Timed -> {"off", "armed", "stored"}]
    /\ late \in BOOLEAN

Init ==
    /\ s = [i \in Slots |-> NoVal] /\ start = 0 /\ size = 0
    /\ lock = Free
    /\ pc = [t \in Thread |-> "idle"]
    /\ val = [p \in Popper |-> NoVal]
    /\ ok = [p \in Popper |-> FALSE]
    /\ dead = [p \in Timed |-> FALSE]
    /\ timer = [p \in Timed |-> "off"]
    /\ late = FALSE

-----------------------------------------------------------------------------
(***************************************************************************)
(* The ring.                                                               *)
(***************************************************************************)
\* The slot k places after slot i.
Wrap(i, k) == IF i + k >= Cap THEN i + k - Cap ELSE i + k

\* The slots that hold elements, oldest first.
Slot(k) == IF start + k >= Cap THEN start + k - Cap ELSE start + k
Live == {Slot(k) : k \in 0..(size - 1)}

\* The order of rangeLocked: the first place whose element the Popper wants.
Hits(p) == {k \in 0..(size - 1) : s[Slot(k)] \in Want[p]}
FirstHit(p) == {k \in Hits(p) : \A j \in Hits(p) : k <= j}

\* copy(a[i:], a[i+1:])
ShiftFrom(a, i) ==
    [k \in Slots |-> IF k >= i /\ k < Cap - 1 THEN a[k + 1] ELSE a[k]]

Wrapped == start + size > Cap

\* The ring's array after del(i).
Deleted(i) ==
    LET a == ShiftFrom(s, i) IN
    IF Wrapped /\ i >= start THEN ShiftFrom([a EXCEPT ![Cap - 1] = a[0]], 0) ELSE a

-----------------------------------------------------------------------------
(***************************************************************************)
(* Threads.                                                                *)
(***************************************************************************)
\* h.rw.Broadcast() (Mutated form: nobody is told.)
WokenNone(p) == p
Woken(p) == [t \in DOMAIN p |-> IF p[t] = "asleep" THEN "lock" ELSE p[t]]

Goto(t, l) == [pc EXCEPT ![t] = l]

\* A goroutine calls an operation of the heap and comes to h.mu.Lock().
Call(t) ==
    /\ pc[t] = "idle"
    /\ pc' = Goto(t, "lock")
    /\ IF t \in Popper THEN val' = [val EXCEPT ![t] = NoVal] ELSE UNCHANGED val
    /\ IF t \in Timed
       THEN /\ dead' = [dead EXCEPT ![t] = FALSE]
            /\ timer' = [timer EXCEPT ![t] = "armed"]
       ELSE UNCHANGED <<dead, timer>>
    /\ UNCHANGED <<ring, lock, ok, late>>

\* putLocked, with room for v.  (Mutated form: one slot too far.)
StoreAhead(v) ==
    /\ s' = [s EXCEPT ![Wrap(start, size + 1)] = v]
    /\ size' = size + 1
    /\ UNCHANGED start
Store(v) ==
    /\ s' = [s EXCEPT ![Wrap(start, size)] = v]
    /\ size' = size + 1
    /\ UNCHANGED start

Put(t) ==
    /\ t \in Putter /\ pc[t] = "lock" /\ lock = Free
    /\ IF size = Cap
       THEN pc' = Goto(t, "asleep") /\ UNCHANGED ring
       ELSE pc' = Woken(Goto(t, "idle")) /\ \E v \in Val : Store(v)
    /\ UNCHANGED <<lock, calls, timers>>

\* A full ring drops its oldest element: the new one takes its slot.
\* (Mutated form: the newest is dropped.)
MustPutDropNewest(t) ==
    /\ t \in MustPutter /\ pc[t] = "lock" /\ lock = Free
    /\ \E v \in Val :
          IF size = Cap
          THEN /\ s' = [s EXCEPT ![Wrap(start, size - 1)] = v]
               /\ UNCHANGED <<start, size>>
          ELSE Store(v)
    /\ pc' = Woken(Goto(t, "idle"))
    /\ UNCHANGED <<lock, calls, timers>>
MustPut(t) ==
    /\ t \in MustPutter /\ pc[t] = "lock" /\ lock = Free
    /\ \E v \in Val :
          IF size = Cap
          THEN /\ s' = [s EXCEPT ![start] = v]
               /\ start' = Wrap(start, 1)
               /\ UNCHANGED size
          ELSE Store(v)
    /\ pc' = Woken(Goto(t, "idle"))
    /\ UNCHANGED <<lock, calls, timers>>

\* (Mutated forms: start is not reduced; nobody is told of the room.)
PopTailNoWrap(t) ==
    /\ t \in Tailer /\ pc[t] = "lock" /\ lock = Free
    /\ IF size = 0
       THEN pc' = Goto(t, "asleep") /\ UNCHANGED ring
       ELSE /\ pc' = Woken(Goto(t, "idle"))
            /\ start' = start + 1
            /\ size' = size - 1
            /\ UNCHANGED s
    /\ UNCHANGED <<lock, calls, timers>>
PopTailQuiet(t) ==
    /\ t \in Tailer /\ pc[t] = "lock" /\ lock = Free
    /\ IF size = 0
       THEN pc' = Goto(t, "asleep") /\ UNCHANGED ring
       ELSE /\ pc' = Goto(t, "idle")
            /\ start' = Wrap(start, 1)
            /\ size' = size - 1
            /\ UNCHANGED s
    /\ UNCHANGED <<lock, calls, timers>>
PopTail(t) ==
    /\ t \in Tailer /\ pc[t] = "lock" /\ lock = Free
    /\ IF size = 0
       THEN pc' = Goto(t, "asleep") /\ UNCHANGED ring
       ELSE /\ pc' = Woken(Goto(t, "idle"))
            /\ start' = Wrap(start, 1)
            /\ size' = size - 1
            /\ UNCHANGED s
    /\ UNCHANGED <<lock, calls, timers>>

\* Pop, PopDeadline: the mutex is taken, at first or after a wake-up.
Acquire(p) ==
    /\ p \in Popper /\ pc[p] = "lock" /\ lock = Free
    /\ lock' = p
    /\ pc' = Goto(p, "check")
    /\ UNCHANGED <<ring, calls, timers>>

\* syncRangeLocked: give up if the flag is up, else look through the ring; the
\* element found is deleted, which wakes nobody.
Dead(p) == p \in Timed /\ dead[p]

GiveUp(p) ==
    /\ p \in Popper /\ pc[p] = "check" /\ Dead(p)
    /\ pc' = Goto(p, "flag")
    /\ UNCHANGED <<ring, lock, calls, timers>>

Delete(p) ==
    /\ p \in Popper /\ pc[p] = "check" /\ ~Dead(p)
    /\ \E i \in {Slot(k) : k \in FirstHit(p)} :
          /\ val' = [val EXCEPT ![p] = s[i]]
          /\ s' = Deleted(i)
    /\ size' = size - 1
    /\ pc' = Goto(p, "flag")
    /\ UNCHANGED <<start, lock, ok, timers>>

Miss(p) ==
    /\ p \in Popper /\ pc[p] = "check" /\ ~Dead(p)
    /\ Hits(p) = {}
    /\ pc' = Goto(p, "sleep")
    /\ UNCHANGED <<ring, lock, calls, timers>>

\* h.rw.Wait() joins the waiters and releases the mutex.
Sleep(p) ==
    /\ p \in Popper /\ pc[p] = "sleep"
    /\ pc' = Goto(p, "asleep")
    /\ lock' = Free
    /\ UNCHANGED <<ring, calls, timers>>

\* PopDeadline reads the flag a second time for its result, after the deletion,
\* then unlocks and stops the timer, which may be too late to keep its
\* goroutine from broadcasting.  (Mutated form: the result is always true.)
ReturnTrue(p) ==
    /\ p \in Popper /\ pc[p] = "flag"
    /\ ok' = [ok EXCEPT ![p] = TRUE]
    /\ pc' = Goto(p, "idle")
    /\ lock' = Free
    /\ IF p \in Timed
       THEN timer' = [timer EXCEPT ![p] = "off"] /\ late' \in {late, TRUE}
       ELSE UNCHANGED <<timer, late>>
    /\ UNCHANGED <<ring, val, dead>>
Return(p) ==
    /\ p \in Popper /\ pc[p] = "flag"
    /\ ok' = [ok EXCEPT ![p] = ~Dead(p)]
    /\ pc' = Goto(p, "idle")
    /\ lock' = Free
    /\ IF p \in Timed
       THEN /\ timer' = [timer EXCEPT ![p] = "off"]
            /\ late' \in {late \/ timer[p] = "stored", late \/ timer[p] # "off"}
       ELSE UNCHANGED <<timer, late>>
    /\ UNCHANGED <<ring, val, dead>>

\* The goroutine of time.AfterFunc, while the call lasts and after it.
TimerStore(p) ==
    /\ p \in Timed /\ timer[p] = "armed"
    /\ dead' = [dead EXCEPT ![p] = TRUE]
    /\ timer' = [timer EXCEPT ![p] = "stored"]
    /\ UNCHANGED <<ring, lock, pc, calls, late>>

TimerBroadcast(p) ==
    /\ p \in Timed /\ timer[p] = "stored"
    /\ timer' = [timer EXCEPT ![p] = "off"]
    /\ pc' = Woken(pc)
    /\ UNCHANGED <<ring, lock, calls, dead, late>>

LateBroadcast ==
    /\ late
    /\ late' = FALSE
    /\ pc' = Woken(pc)
    /\ UNCHANGED <<ring, lock, calls, dead, timer>>

-----------------------------------------------------------------------------
PopStep(p) ==
    Acquire(p) \/ GiveUp(p) \/ Delete(p) \/ Miss(p) \/ Sleep(p) \/ Return(p)

Step(t) == Put(t) \/ MustPut(t) \/ PopTail(t) \/ PopStep(t)

Next ==
    \/ \E t \in Thread : Call(t) \/ Step(t)
    \/ \E p \in Timed : TimerStore(p) \/ TimerBroadcast(p)
    \/ LateBroadcast

Spec == Init /\ [][Next]_vars

\* The runtime schedules every goroutine, hands a mutex that is released again
\* and again to every waiter in turn (sync.Mutex has a starvation mode), and
\* runs every timer.  No caller has to come back.
Fairness ==
    /\ \A t \in Thread : SF_vars(Step(t))
    /\ \A p \in Timed : WF_vars(TimerStore(p)) /\ WF_vars(TimerBroadcast(p))
    /\ WF_vars(LateBroadcast)

FairSpec == Spec /\ Fairness

-----------------------------------------------------------------------------
(***************************************************************************)
(* Properties.                                                             *)
(***************************************************************************)

\* No slot that the ring takes for an element is one that was never written:
\* PopTail and Pop return only values that were put, whatever mixture of
\* operations has turned the ring, the faulty del included.
NoEmptySlot == \A i \in Live : s[i] \in Val

\* A goroutine sleeps in Wait only while there is nothing for it: a PopTail
\* while the ring is empty, a Pop while it holds no element Pop wants.
WaiterSound ==
    /\ \A t \in Tailer : pc[t] = "asleep" => size = 0
    /\ \A p \in Popper : pc[p] = "asleep" => Hits(p) = {}

\* A full ring makes room for the Puts that sleep in Wait without waking them only
\* where an element is deleted from its middle (heap.go:132): PopTail wakes them.
RoomWakesPutter ==
    [][\A t \in Putter : pc[t] = "asleep" /\ pc'[t] = "asleep" /\ size = Cap =>
          size' = Cap \/ \E p \in Popper : Delete(p)]_vars

\* A call that reports success returns an element its predicate accepts.  (The
\* converse fails: a message can be deleted and the flag go up before the
\* second look at it.)
OkMeansMatch == \A p \in Popper : pc[p] = "idle" /\ ok[p] => val[p] \in Want[p]

Contents == [k \in 1..size |-> s[Slot(k - 1)]]

Queue == INSTANCE MsgQueue
            WITH q <- Contents, Wants <- {Want[p] : p \in Popper}

\* The only step that is no step of a bounded FIFO queue is a deletion from a
\* ring that wraps around and does not start in its last slot.
FaultyDelete == Wrapped /\ start < Cap - 1 /\ \E p \in Popper : Delete(p)

QueueButForDel == Queue!Init /\ [][Queue!Next \/ FaultyDelete]_Contents

\* heap_test.go:121 expects the elements that are left after a Pop in the
\* order in which they were put.
FIFO == [][Queue!Next]_Contents

\* heap_test.go:242 expects a PopDeadline whose deadline passes to return at
\* once.
DeadlineReturns == \A p \in Timed : (timer[p] = "armed") ~> (pc[p] = "idle")
=============================================================================
