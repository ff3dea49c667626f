---------------------------- MODULE QLockProofs ----------------------------
(***************************************************************************)
(* Proofs about the queueing lock, for any finite set of threads.          *)
(***************************************************************************)
EXTENDS QLock, FiniteSetTheorems, TLAPS

(* The inductive invariant: the types, the place of each thread, the       *)
(* meaning of count and that no waiter is left behind.                     *)
IndInv == TypeOK /\ OnePlace /\ CountIsHolders /\ NoStrandedWaiter

(* Appending to the waiters deque adds exactly one parked thread. *)
LEMMA AppendParked ==
    ASSUME NEW q \in Seq(Threads), NEW t \in Threads
    PROVE  {Append(q, t)[i] : i \in DOMAIN Append(q, t)} =
               {q[i] : i \in DOMAIN q} \cup {t}
<1>1. /\ Append(q, t)[Len(q) + 1] = t
      /\ \A i \in 1 .. Len(q) : Append(q, t)[i] = q[i]
      /\ DOMAIN Append(q, t) = 1 .. (Len(q) + 1)
      /\ DOMAIN q = 1 .. Len(q)
      /\ Len(q) \in Nat
    OBVIOUS
<1>2. \A i \in 1 .. (Len(q) + 1) : i = Len(q) + 1 \/ i \in 1 .. Len(q)
    BY <1>1
<1>3. \A i \in 1 .. Len(q) : i \in 1 .. (Len(q) + 1)
    BY <1>1
<1>4. Len(q) + 1 \in 1 .. (Len(q) + 1)
    BY <1>1
<1>5. QED BY <1>1, <1>2, <1>3, <1>4, Zenon

(* popleft() removes exactly the head and keeps the rest in order. *)
LEMMA TailParked ==
    ASSUME NEW q \in Seq(Threads), q # <<>>,
           \A i, j \in DOMAIN q : q[i] = q[j] => i = j
    PROVE  /\ Head(q) \in Threads
           /\ Tail(q) \in Seq(Threads)
           /\ \A i, j \in DOMAIN Tail(q) : Tail(q)[i] = Tail(q)[j] => i = j
           /\ {Tail(q)[i] : i \in DOMAIN Tail(q)} =
                  {q[i] : i \in DOMAIN q} \ {Head(q)}
           /\ Head(q) \in {q[i] : i \in DOMAIN q}
<1>1. /\ DOMAIN q = 1 .. Len(q) /\ Len(q) \in Nat /\ Len(q) > 0
      /\ Head(q) = q[1] /\ Tail(q) \in Seq(Threads) /\ q[1] \in Threads
      /\ DOMAIN Tail(q) = 1 .. (Len(q) - 1)
      /\ \A i \in 1 .. (Len(q) - 1) : Tail(q)[i] = q[i + 1]
    OBVIOUS
<1>2. \A i \in 1 .. (Len(q) - 1) : i + 1 \in 1 .. Len(q) /\ i + 1 # 1
    BY <1>1
<1>3. \A j \in 1 .. Len(q) : j = 1 \/ j - 1 \in 1 .. (Len(q) - 1)
    BY <1>1
<1>4. 1 \in 1 .. Len(q)
    BY <1>1
<1>5. \A i, j \in DOMAIN Tail(q) : Tail(q)[i] = Tail(q)[j] => i = j
    BY <1>1, <1>2
<1>6. ASSUME NEW x
      PROVE  x \in {Tail(q)[i] : i \in DOMAIN Tail(q)}
                <=> x \in {q[i] : i \in DOMAIN q} \ {Head(q)}
  <2>1. ASSUME NEW i \in DOMAIN Tail(q), x = Tail(q)[i]
        PROVE  x \in {q[j] : j \in DOMAIN q} /\ x # Head(q)
    <3>1. x = q[i + 1] /\ i + 1 \in DOMAIN q /\ 1 \in DOMAIN q
        BY <1>1, <1>2, <1>4, <2>1
    <3>2. i + 1 # 1
        BY <1>1, <1>2
    <3>3. QED BY <1>1, <3>1, <3>2, Zenon
  <2>2. ASSUME NEW j \in DOMAIN q, x = q[j], x # Head(q)
        PROVE  x \in {Tail(q)[i] : i \in DOMAIN Tail(q)}
    <3>1. j # 1
        BY <1>1, <2>2
    <3>2. j - 1 \in DOMAIN Tail(q)
        BY <1>1, <1>3, <3>1
    <3>3. Tail(q)[j - 1] = q[j]
        BY <1>1, <3>2
    <3>4. QED BY <2>2, <3>2, <3>3, Zenon
  <2>3. QED BY <2>1, <2>2, Zenon
<1>7. Head(q) \in {q[i] : i \in DOMAIN q}
    BY <1>1, <1>4, Zenon
<1>8. {Tail(q)[i] : i \in DOMAIN Tail(q)} =
          {q[i] : i \in DOMAIN q} \ {Head(q)}
    BY <1>6, Zenon
<1>9. QED BY <1>1, <1>5, <1>7, <1>8, Zenon

----------------------------------------------------------------------------
(* Counting a thread in or out moves Cardinality(holders) by one. *)
LEMMA HoldersCount ==
    ASSUME TypeOK, NEW t \in Threads
    PROVE  /\ t \notin holders =>
                  Cardinality(holders \cup {t}) = Cardinality(holders) + 1
           /\ t \in holders =>
                  Cardinality(holders \ {t}) = Cardinality(holders) - 1
           /\ Cardinality(holders) \in Nat
<1>1. IsFiniteSet(holders)
    BY ThreadsAssumption, FS_Subset DEF TypeOK
<1>2. QED BY <1>1, FS_AddElement, FS_RemoveElement, FS_CardinalityType

(* No set of threads is larger than all of them. *)
LEMMA ThreadsBound ==
    ASSUME NEW S \in SUBSET Threads
    PROVE  Cardinality(S) \in 0 .. Cardinality(Threads)
<1>1. IsFiniteSet(S) /\ Cardinality(S) <= Cardinality(Threads)
    BY ThreadsAssumption, FS_Subset
<1>2. QED BY <1>1, ThreadsAssumption, FS_CardinalityType

(* Every step of acquire() and release() keeps the invariant. *)
LEMMA StepKeepsIndInv == IndInv /\ [Next]_vars => IndInv'
<1> SUFFICES ASSUME IndInv, [Next]_vars PROVE IndInv'
    OBVIOUS
<1> USE DEF IndInv
<1>1. ASSUME NEW t \in Threads, AcquireFree(t) PROVE IndInv'
  <2>1. t \notin Parked /\ t \notin woken /\ t \notin holders
      BY <1>1 DEF AcquireFree, Idle
  <2>2. OnePlace' /\ NoStrandedWaiter'
      BY <1>1, <2>1 DEF AcquireFree, TypeOK, OnePlace, Parked, NoStrandedWaiter
  <2>3. CountIsHolders'
      BY <1>1, <2>1, HoldersCount DEF AcquireFree, CountIsHolders
  <2>4. holders' \in SUBSET Threads
      BY <1>1 DEF AcquireFree, TypeOK
  <2>5. TypeOK'
      BY <1>1, <2>3, <2>4, ThreadsBound DEF AcquireFree, TypeOK, CountIsHolders
  <2>6. QED BY <2>2, <2>3, <2>5
<1>2. ASSUME NEW t \in Threads, AcquireBusy(t) PROVE IndInv'
  <2>1. t \notin Parked /\ t \notin woken /\ t \notin holders
      BY <1>2 DEF AcquireBusy, Idle
  <2>2. Parked' = Parked \cup {t}
      BY <1>2, AppendParked DEF AcquireBusy, Parked, TypeOK
  <2>3. \A i, j \in DOMAIN waiters' : waiters'[i] = waiters'[j] => i = j
    <3>1. t \notin {waiters[i] : i \in DOMAIN waiters}
        BY <2>1 DEF Parked
    <3>2. \A i \in DOMAIN waiters : waiters[i] # t
        BY <3>1
    <3>3. QED BY <1>2, <3>2 DEF AcquireBusy, OnePlace, TypeOK
  <2>4. TypeOK' /\ CountIsHolders'
      BY <1>2 DEF AcquireBusy, TypeOK, CountIsHolders
  <2>5. OnePlace'
      BY <1>2, <2>1, <2>2, <2>3 DEF AcquireBusy, OnePlace
  <2>6. holders # {}
      BY <1>2, FS_EmptySet DEF AcquireBusy, CountIsHolders
  <2>7. NoStrandedWaiter'
      BY <1>2, <2>6 DEF AcquireBusy, NoStrandedWaiter
  <2>8. QED BY <2>4, <2>5, <2>7
<1>3. ASSUME NEW t \in Threads, Enter(t) PROVE IndInv'
  <2>1. t \notin holders
      BY <1>3 DEF Enter, OnePlace
  <2>2. OnePlace' /\ NoStrandedWaiter'
      BY <1>3 DEF Enter, TypeOK, OnePlace, Parked, NoStrandedWaiter
  <2>3. CountIsHolders'
      BY <1>3, <2>1, HoldersCount DEF Enter, CountIsHolders
  <2>4. holders' \in SUBSET Threads
      BY <1>3 DEF Enter, TypeOK
  <2>5. TypeOK'
      BY <1>3, <2>3, <2>4, ThreadsBound DEF Enter, TypeOK, CountIsHolders
  <2>6. QED BY <2>2, <2>3, <2>5
<1>4. ASSUME NEW t \in Threads, Release(t) PROVE IndInv'
  <2>1. CountIsHolders'
      BY <1>4, HoldersCount DEF Release, CountIsHolders
  <2>a. holders' \in SUBSET Threads
      BY <1>4 DEF Release, TypeOK
  <2>b. count' \in 0 .. Cardinality(Threads)
      BY <2>1, <2>a, ThreadsBound DEF CountIsHolders
  <2>2. CASE waiters = <<>>
      BY <1>4, <2>1, <2>2, <2>a, <2>b DEF Release, TypeOK, OnePlace, Parked, NoStrandedWaiter
  <2>3. CASE waiters # <<>>
    <3>1. /\ waiters \in Seq(Threads)
          /\ \A i, j \in DOMAIN waiters : waiters[i] = waiters[j] => i = j
        BY DEF TypeOK, OnePlace
    <3>2. /\ Head(waiters) \in Threads
          /\ Tail(waiters) \in Seq(Threads)
          /\ \A i, j \in DOMAIN Tail(waiters) :
                 Tail(waiters)[i] = Tail(waiters)[j] => i = j
          /\ {Tail(waiters)[i] : i \in DOMAIN Tail(waiters)} =
                 Parked \ {Head(waiters)}
          /\ Head(waiters) \in Parked
        BY <2>3, <3>1, TailParked, Zenon DEF Parked
    <3>3. Parked' = Parked \ {Head(waiters)} /\ waiters' = Tail(waiters)
        BY <1>4, <2>3, <3>2, Zenon DEF Release, Parked
    <3>4. woken' = woken \cup {Head(waiters)} /\ holders' = holders \ {t}
        BY <1>4, <2>3 DEF Release
    <3>5. TypeOK'
        BY <1>4, <2>3, <2>a, <2>b, <3>2, <3>4 DEF Release, TypeOK
    <3>6. OnePlace'
        BY <3>2, <3>3, <3>4 DEF OnePlace
    <3>7. NoStrandedWaiter'
        BY <3>4 DEF NoStrandedWaiter
    <3>8. QED BY <2>1, <3>5, <3>6, <3>7
  <2>4. QED BY <2>2, <2>3
<1>5. CASE UNCHANGED vars
    BY <1>5 DEF vars, TypeOK, OnePlace, Parked, CountIsHolders, NoStrandedWaiter
<1>6. QED BY <1>1, <1>2, <1>3, <1>4, <1>5 DEF Next

(* The free lock satisfies the invariant. *)
LEMMA InitIndInv == Init => IndInv
<1>1. 0 \in 0 .. Cardinality(Threads)
    BY ThreadsAssumption, FS_CardinalityType
<1>2. QED BY <1>1, FS_EmptySet DEF Init, IndInv, TypeOK, OnePlace, Parked,
                                   CountIsHolders, NoStrandedWaiter

(* For every finite set of threads the lock's bookkeeping is right: count  *)
(* is the number of holders and no parked thread is forgotten.             *)
THEOREM QLockBookkeeping ==
    Spec => [](TypeOK /\ OnePlace /\ CountIsHolders /\ NoStrandedWaiter)
BY InitIndInv, StepKeepsIndInv, PTL DEF Spec, IndInv

(* release() by a thread that holds the lock never raises "lock not        *)
(* acquired": the guard of the ValueError branch is false for a holder.    *)
ReleaseNeverRaises == \A t \in holders : count > 0

THEOREM HolderMayRelease == Spec => []ReleaseNeverRaises
<1>1. IndInv => ReleaseNeverRaises
  <2> SUFFICES ASSUME IndInv, NEW t \in holders PROVE count > 0
      BY DEF ReleaseNeverRaises
  <2>1. IsFiniteSet(holders) /\ holders # {}
      BY ThreadsAssumption, FS_Subset DEF IndInv, TypeOK
  <2>2. QED BY <2>1, FS_EmptySet, FS_CardinalityType DEF IndInv, CountIsHolders
<1>2. Spec => []IndInv
    BY QLockBookkeeping, PTL DEF IndInv
<1>3. QED BY <1>1, <1>2, PTL

(* Threads are woken in the order in which they queued up. *)
THEOREM QueueOrder == Spec => FirstComeFirstWoken
<1>1. IndInv /\ [Next]_vars =>
          [\A t \in Parked : t \notin Parked' => t = Head(waiters)]_vars
  <2> SUFFICES ASSUME IndInv, [Next]_vars,
                      NEW t \in Parked, t \notin Parked'
               PROVE  t = Head(waiters)
      OBVIOUS
  <2>1. CASE waiters' = waiters
      BY <2>1 DEF Parked
  <2>2. ASSUME NEW u \in Threads, AcquireBusy(u) PROVE FALSE
    <3>1. Parked' = Parked \cup {u}
        BY <2>2, AppendParked DEF AcquireBusy, Parked, IndInv, TypeOK
    <3>2. QED BY <3>1
  <2>3. ASSUME NEW u \in Threads, Release(u), waiters # <<>>
        PROVE  t = Head(waiters)
    <3>1. {Tail(waiters)[i] : i \in DOMAIN Tail(waiters)} =
              {waiters[i] : i \in DOMAIN waiters} \ {Head(waiters)}
        BY <2>3, TailParked DEF IndInv, TypeOK, OnePlace
    <3>2. Parked' = Parked \ {Head(waiters)}
        BY <2>3, <3>1, Zenon DEF Release, Parked
    <3>3. QED BY <3>2
  <2>4. QED BY <2>1, <2>2, <2>3
            DEF Next, vars, AcquireFree, Enter, Release
<1>2. Spec => []IndInv
    BY QLockBookkeeping, PTL DEF IndInv
<1>3. QED BY <1>1, <1>2, PTL DEF Spec, FirstComeFirstWoken

(* For every finite set of threads the lock does what LockService promises:*)
(* each step of acquire() and release() is one of the service, or leaves   *)
(* it alone. (That everyone inside leaves in the end is model-checked.)    *)
THEOREM QLockRefines == Spec => Service!SafeSpec
<1>1. Init => Service!Init
    BY DEF Init, Service!Init
<1>2. IndInv /\ [Next]_vars => [Service!Next]_(Service!svars)
  <2> SUFFICES ASSUME IndInv, [Next]_vars PROVE [Service!Next]_(Service!svars)
      OBVIOUS
  <2> USE DEF Service!svars
  <2>1. ASSUME NEW t \in Threads, AcquireFree(t) PROVE Service!Next
    <3>1. Service!Walk(t)
        BY <2>1 DEF AcquireFree, Idle, Parked, Service!Walk, Service!InLine
    <3>2. QED BY <3>1 DEF Service!Next
  <2>2. ASSUME NEW t \in Threads, AcquireBusy(t) PROVE Service!Next
    <3>1. holders # {}
        BY <2>2, FS_EmptySet DEF AcquireBusy, IndInv, CountIsHolders
    <3>2. Service!Queue(t)
        BY <2>2, <3>1 DEF AcquireBusy, Idle, Parked, Service!Queue, Service!InLine
    <3>3. QED BY <3>2 DEF Service!Next
  <2>3. ASSUME NEW t \in Threads, Enter(t) PROVE UNCHANGED Service!svars
      BY <2>3 DEF Enter
  <2>4. ASSUME NEW t \in Threads, Release(t) PROVE Service!Next
    <3>1. t \notin woken
        BY <2>4 DEF Release, IndInv, OnePlace
    <3>2. Service!Leave(t)
        BY <2>4, <3>1 DEF Release, Service!Leave
    <3>3. QED BY <3>2 DEF Service!Next
  <2>5. QED BY <2>1, <2>2, <2>3, <2>4 DEF Next, vars
<1>3. Spec => []IndInv
    BY QLockBookkeeping, PTL DEF IndInv
<1>4. QED BY <1>1, <1>2, <1>3, PTL DEF Spec, Service!SafeSpec
=============================================================================
