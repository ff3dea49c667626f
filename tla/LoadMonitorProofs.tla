------------------------- MODULE LoadMonitorProofs -------------------------
(***************************************************************************)
(* Proofs about the load monitor, for any slots, transition time and       *)
(* bounds.  They rest on the invariant of the lock (QLockProofs): every    *)
(* step of the monitor is a step of the lock or leaves it alone.           *)
(***************************************************************************)
EXTENDS LoadMonitor, FiniteSetTheorems, TLAPS

Lock == INSTANCE QLockProofs

(* the assumption of the lock *)
LEMMA TwoThreads == Lock!ThreadsAssumption
<1>1. IsFiniteSet({"monitor"})
    BY FS_Singleton
<1>2. IsFiniteSet({"monitor"} \cup {"capacity"})
    BY <1>1, FS_AddElement
<1>3. Threads = {"monitor"} \cup {"capacity"}
    BY DEF Threads
<1>4. QED BY <1>2, <1>3 DEF Lock!ThreadsAssumption, IsFiniteSet, Lock!IsFiniteSet

(* both instances are the same lock *)
LEMMA SameLock ==
    /\ Mutex!Init = Lock!Init
    /\ \A t : /\ Mutex!AcquireFree(t) = Lock!AcquireFree(t)
              /\ Mutex!AcquireBusy(t) = Lock!AcquireBusy(t)
              /\ Mutex!Enter(t) = Lock!Enter(t)
              /\ Mutex!Release(t) = Lock!Release(t)
BY DEF Mutex!Init, Lock!Init, Mutex!AcquireFree, Lock!AcquireFree,
       Mutex!AcquireBusy, Lock!AcquireBusy, Mutex!Enter, Lock!Enter,
       Mutex!Release, Lock!Release, Mutex!Idle, Lock!Idle,
       Mutex!Parked, Lock!Parked

(* the monitor thread is queued, or woken and not yet inside *)
InLine == "monitor" \in Lock!Parked \cup woken

(* Where the steps of the lock leave the monitor thread. *)
LEMMA ReleaseByMonitor ==
    ASSUME Lock!IndInv, Lock!Release("monitor")
    PROVE  ~InLine' /\ "monitor" \notin holders'
<1>1. "monitor" \notin Lock!Parked /\ "monitor" \notin woken
    BY DEF Lock!Release, Lock!IndInv, Lock!OnePlace
<1>2. CASE waiters = <<>>
    BY <1>1, <1>2 DEF Lock!Release, Lock!Parked, InLine
<1>3. CASE waiters # <<>>
  <2>1. /\ waiters \in Seq(Threads)
        /\ \A i, j \in DOMAIN waiters : waiters[i] = waiters[j] => i = j
      BY DEF Lock!IndInv, Lock!TypeOK, Lock!OnePlace
  <2>2. /\ {Tail(waiters)[i] : i \in DOMAIN Tail(waiters)} =
               Lock!Parked \ {Head(waiters)}
        /\ Head(waiters) \in Lock!Parked
      BY <1>3, <2>1, TwoThreads, Lock!TailParked, Zenon DEF Lock!Parked, Lock!ThreadsAssumption
  <2>3. /\ waiters' = Tail(waiters) /\ woken' = woken \cup {Head(waiters)}
        /\ holders' = holders \ {"monitor"}
      BY <1>3 DEF Lock!Release
  <2>4. Lock!Parked' = Lock!Parked \ {Head(waiters)}
      BY <2>2, <2>3, Zenon DEF Lock!Parked
  <2>5. QED BY <1>1, <2>2, <2>3, <2>4 DEF InLine
<1>4. QED BY <1>2, <1>3

LEMMA StepOfCapacity ==
    ASSUME Lock!IndInv,
           \/ Lock!AcquireFree("capacity") \/ Lock!AcquireBusy("capacity")
           \/ Lock!Enter("capacity") \/ Lock!Release("capacity")
    PROVE  /\ InLine' => InLine
           /\ "monitor" \in holders' => "monitor" \in holders
<1>1. /\ waiters \in Seq(Threads) /\ "capacity" \in Threads
      /\ \A i, j \in DOMAIN waiters : waiters[i] = waiters[j] => i = j
    BY DEF Lock!IndInv, Lock!TypeOK, Lock!OnePlace, Threads
<1>2. CASE Lock!AcquireFree("capacity") \/ Lock!Enter("capacity")
    BY <1>2 DEF Lock!AcquireFree, Lock!Enter, InLine, Lock!Parked
<1>3. CASE Lock!AcquireBusy("capacity")
  <2>1. /\ waiters' = Append(waiters, "capacity")
        /\ woken' = woken /\ holders' = holders
      BY <1>3 DEF Lock!AcquireBusy
  <2>2. {Append(waiters, "capacity")[i] : i \in DOMAIN Append(waiters, "capacity")} =
            {waiters[i] : i \in DOMAIN waiters} \cup {"capacity"}
      BY <1>1, TwoThreads, Lock!AppendParked, Zenon DEF Lock!ThreadsAssumption
  <2>3. Lock!Parked' = Lock!Parked \cup {"capacity"}
      BY <2>1, <2>2, Zenon DEF Lock!Parked
  <2>4. QED BY <2>1, <2>3 DEF InLine
<1>4. CASE Lock!Release("capacity") /\ waiters = <<>>
    BY <1>4 DEF Lock!Release, InLine, Lock!Parked
<1>5. CASE Lock!Release("capacity") /\ waiters # <<>>
  <2>1. /\ {Tail(waiters)[i] : i \in DOMAIN Tail(waiters)} =
               Lock!Parked \ {Head(waiters)}
        /\ Head(waiters) \in Lock!Parked
      BY <1>1, <1>5, TwoThreads, Lock!TailParked, Zenon
         DEF Lock!Parked, Lock!ThreadsAssumption
  <2>2. /\ waiters' = Tail(waiters) /\ woken' = woken \cup {Head(waiters)}
        /\ holders' = holders \ {"capacity"}
      BY <1>5 DEF Lock!Release
  <2>3. Lock!Parked' = Lock!Parked \ {Head(waiters)}
      BY <2>1, <2>2, Zenon DEF Lock!Parked
  <2>4. QED BY <2>1, <2>2, <2>3 DEF InLine
<1>6. QED BY <1>2, <1>3, <1>4, <1>5

(* Every step of the load monitor is one of the lock, or leaves it alone. *)
LEMMA StepOfLock == [Next]_vars => [Lock!Next]_(Lock!vars)
<1> SUFFICES ASSUME [Next]_vars PROVE [Lock!Next]_(Lock!vars)
    OBVIOUS
<1> USE DEF Inside
<1>1. "monitor" \in Threads /\ "capacity" \in Threads
    BY DEF Threads
<1>2. CASE Start \/ ReadLoad \/ ReadFails \/ ExecutorShutdown \/ TimePasses
           \/ Disable \/ Enable \/ CapacityEnable \/ Over \/ UNCHANGED vars
    BY <1>2 DEF Start, ReadLoad, ReadFails, ExecutorShutdown, TimePasses, Disable,
                Enable, CapacityEnable, Over, vars, lock, Lock!vars
<1>3. CASE Acquire
    BY <1>1, <1>3, SameLock DEF Acquire, lock, Lock!Next, Lock!vars
<1>4. CASE Enter \/ ReconfigureEnter
    BY <1>1, <1>4, SameLock DEF Enter, ReconfigureEnter, Lock!Next
<1>5. CASE ReconfigureAcquire \/ Reconfigure
    BY <1>1, <1>5, SameLock DEF ReconfigureAcquire, Reconfigure, Lock!Next
<1>6. ASSUME NEW spent \in Spent, UpdateSlot(spent) PROVE Lock!Next
    BY <1>1, <1>6, SameLock DEF UpdateSlot, Lock!Next
<1>7. ASSUME NEW ok \in BOOLEAN, CheckLoad(ok) \/ CheckWithoutSlot(ok)
      PROVE  [Lock!Next]_(Lock!vars)
    BY <1>1, <1>7, SameLock DEF CheckLoad, CheckWithoutSlot, Lock!Next, lock, Lock!vars
<1>8. QED BY <1>2, <1>3, <1>4, <1>5, <1>6, <1>7 DEF Next

----------------------------------------------------------------------------
Sections == {"wait_first", "wait_update", "wait_check"}
Loop == {"read", "update", "wait_update", "check", "wait_check"}

Slots == [time : Nat \cup {-1}, left : Int, set : BOOLEAN]

Data ==
    /\ slots \in Seq(Nat \cup {-1}) /\ slot \in Slots
    /\ load_db \in Seq(Registers)
    /\ enabled \in BOOLEAN /\ handler \in BOOLEAN

(* the thread stands in line only where it waits for a section *)
Place == InLine => pc \in Sections

(* Before the slots are replaced the thread holds the lock only inside a   *)
(* section, and has a slot all through the loop unless it is to end.       *)
Orderly ==
    capacity \notin {"enable", "done"} =>
        /\ pc # "blocked"
        /\ "monitor" \in holders => pc \in Sections
        /\ pc \in Loop /\ ~slot.set => pc = "read" /\ ~running

InTime ==
    pc \in {"check", "wait_check"} /\ reached /\ slot.set /\ slot.time # -1 =>
        slot.left >= Transition

Alternates(db) ==
    \A i \in DOMAIN db :
        db[i].state # "NEW_SLOT" => i > 1 /\ db[i - 1].state # db[i].state

Judged == InTime /\ Alternates(load_db) /\ (slot.set => load_db # <<>>)

IndInv == Lock!IndInv /\ Data /\ Place /\ Orderly /\ Judged

(* shutdown() changes whether the last register counts and nothing else *)
LEMMA ShutdownKeeps ==
    ASSUME Data, NEW lately, Shutdown(lately)
    PROVE  /\ load_db' \in Seq(Registers)
           /\ Alternates(load_db) => Alternates(load_db')
           /\ load_db # <<>> => load_db' # <<>>
           /\ running' = FALSE /\ enabled' = FALSE
<1>1. running' = FALSE /\ enabled' = FALSE
    BY DEF Shutdown
<1>2. CASE load_db' = load_db
    BY <1>1, <1>2 DEF Data
<1>3. CASE load_db' = [load_db EXCEPT ![Len(load_db)].check = FALSE]
  <2>1. /\ load_db \in Seq(Registers) /\ DOMAIN load_db = 1 .. Len(load_db)
        /\ Len(load_db) \in Nat
      BY DEF Data
  <2>2. DOMAIN load_db' = DOMAIN load_db
      BY <1>3
  <2>3. \A i \in DOMAIN load_db : /\ load_db'[i] \in Registers
                                  /\ load_db'[i].state = load_db[i].state
    <3>1. TAKE i \in DOMAIN load_db
    <3>2. load_db[i] \in Registers
        BY <2>1
    <3>3. load_db'[i] = IF i = Len(load_db) THEN [load_db[i] EXCEPT !.check = FALSE]
                        ELSE load_db[i]
        BY <1>3
    <3>4. QED BY <3>2, <3>3 DEF Registers
  <2>4. load_db' \in Seq(Registers) /\ Len(load_db') = Len(load_db)
    <3>1. load_db' \in [1 .. Len(load_db) -> Registers]
        BY <1>3, <2>1, <2>2, <2>3
    <3>2. QED BY <2>1, <3>1
  <2>5. Alternates(load_db) => Alternates(load_db')
    <3> SUFFICES ASSUME Alternates(load_db), NEW i \in DOMAIN load_db',
                        load_db'[i].state # "NEW_SLOT"
                 PROVE  i > 1 /\ load_db'[i - 1].state # load_db'[i].state
        BY DEF Alternates
    <3>1. i > 1 /\ load_db[i - 1].state # load_db[i].state
        BY <2>2, <2>3 DEF Alternates
    <3>2. i - 1 \in DOMAIN load_db
        BY <2>1, <2>2, <3>1
    <3>3. QED BY <2>2, <2>3, <3>1, <3>2
  <2>6. load_db # <<>> => load_db' # <<>>
      BY <2>1, <2>4
  <2>7. QED BY <1>1, <2>4, <2>5, <2>6
<1>4. QED BY <1>2, <1>3 DEF Shutdown

(* a new register: NEW SLOT, or the other state after one *)
LEMMA RegisterKeeps ==
    ASSUME Data, Alternates(load_db), NEW s,
           s \in {"NEW_SLOT", "STABLE", "NOT_STABLE"},
           s = "NEW_SLOT" \/ (load_db # <<>> /\ Status # s)
    PROVE  /\ Registered(s) \in Seq(Registers) /\ Registered(s) # <<>>
           /\ Alternates(Registered(s))
<1> DEFINE r == [state |-> s, check |-> enabled, in_action |-> handler]
           n == Len(load_db)
<1>1. r \in Registers /\ r.state = s
    BY DEF Data, Registers
<1>2. load_db \in Seq(Registers) /\ n \in Nat /\ DOMAIN load_db = 1 .. n
    BY DEF Data
<1> HIDE DEF r
<1>3. /\ Append(load_db, r) \in Seq(Registers) /\ Append(load_db, r) # <<>>
      /\ DOMAIN Append(load_db, r) = 1 .. (n + 1)
      /\ Append(load_db, r)[n + 1] = r
      /\ \A i \in 1 .. n : Append(load_db, r)[i] = load_db[i]
    BY <1>1, <1>2
<1>4. Alternates(Append(load_db, r))
  <2> DEFINE a == Append(load_db, r)
  <2>1. SUFFICES ASSUME NEW i \in DOMAIN a, a[i].state # "NEW_SLOT"
                 PROVE  i > 1 /\ a[i - 1].state # a[i].state
      BY DEF Alternates
  <2>2. CASE i \in 1 .. n
    <3>1. a[i] = load_db[i] /\ i \in DOMAIN load_db /\ i \in Nat
        BY <1>2, <1>3, <2>2
    <3>2. i > 1 /\ load_db[i - 1].state # load_db[i].state
        BY <2>1, <3>1 DEF Alternates
    <3>3. i - 1 \in 1 .. n
        BY <1>2, <2>2, <3>2
    <3>4. QED BY <1>3, <3>1, <3>2, <3>3
  <2>3. CASE i = n + 1
    <3>1. a[i].state = s
        BY <1>1, <1>3, <2>3
    <3>2. load_db # <<>> /\ Status # s
        BY <2>1, <3>1
    <3>3. n > 0 /\ n \in 1 .. n /\ i - 1 = n
        BY <1>2, <2>3, <3>2
    <3>4. a[n].state = Status
        BY <1>3, <3>2, <3>3 DEF Status
    <3>5. QED BY <1>2, <2>3, <3>1, <3>2, <3>3, <3>4
  <2>4. QED BY <1>2, <1>3, <2>2, <2>3
<1>5. QED BY <1>3, <1>4 DEF Registered, r

----------------------------------------------------------------------------
(* One step of the load monitor keeps each part of the invariant. *)
LEMMA StepKeepsData ==
    ASSUME Data, [Next]_vars
    PROVE  Data'
<1>1. CASE Start \/ Acquire \/ Enter \/ ReadLoad \/ TimePasses \/ Disable \/ Enable
           \/ ReconfigureAcquire \/ ReconfigureEnter \/ CapacityEnable \/ Over
           \/ UNCHANGED vars
    BY <1>1 DEF Data, Start, Acquire, Enter, ReadLoad, TimePasses, Disable, Enable,
                ReconfigureAcquire, ReconfigureEnter, CapacityEnable, Over, vars,
                thread, others
<1>2. CASE Reconfigure
    BY <1>2, LoadMonitorAssumption DEF Data, Reconfigure, NoSlot, Slots
<1>3. CASE ExecutorShutdown
    BY <1>3, ShutdownKeeps DEF Data, ExecutorShutdown, thread
<1>4. CASE ReadFails
    BY <1>4, ShutdownKeeps DEF Data, ReadFails, Failed, others
<1>5. ASSUME NEW spent \in Spent, UpdateSlot(spent) PROVE Data'
  <2>1. CASE slot.set /\ (slot.time = -1 \/ slot.left - spent >= 0)
      BY <1>5, <2>1 DEF UpdateSlot, Data, Slots, Spent, others
  <2>2. CASE ~(slot.set /\ (slot.time = -1 \/ slot.left - spent >= 0))
             /\ slots # <<>>
    <3>1. Head(slots) \in Nat \cup {-1} /\ Tail(slots) \in Seq(Nat \cup {-1})
        BY <2>2 DEF Data
    <3>2. slots' \in Seq(Nat \cup {-1}) /\ slot' \in Slots
      <4>1. slots' = Tail(slots) /\ slot' = NewSlot(Head(slots))
          BY <1>5, <2>2 DEF UpdateSlot
      <4>2. \A t \in Nat \cup {-1} : NewSlot(t) \in Slots
          BY DEF NewSlot, Slots
      <4>3. QED BY <3>1, <4>1, <4>2
    <3>3. Registered("NEW_SLOT") \in Seq(Registers)
      <4>1. load_db \in Seq(Registers)
          BY DEF Data
      <4>2. [state |-> "NEW_SLOT", check |-> enabled, in_action |-> handler]
                \in Registers
          BY DEF Data, Registers
      <4>3. QED BY <4>1, <4>2 DEF Registered
    <3>4. QED BY <1>5, <2>2, <3>2, <3>3 DEF UpdateSlot, Data, others
  <2>3. CASE ~(slot.set /\ (slot.time = -1 \/ slot.left - spent >= 0))
             /\ slots = <<>>
      BY <1>5, <2>3, ShutdownKeeps DEF UpdateSlot, Data, others
  <2>4. QED BY <2>1, <2>2, <2>3
<1>6. ASSUME NEW ok \in BOOLEAN, CheckLoad(ok) PROVE Data'
  <2>1. \A s \in {"STABLE", "NOT_STABLE"} : Registered(s) \in Seq(Registers)
    <3>1. TAKE s \in {"STABLE", "NOT_STABLE"}
    <3>2. [state |-> s, check |-> enabled, in_action |-> handler] \in Registers
        BY DEF Data, Registers
    <3>3. load_db \in Seq(Registers)
        BY DEF Data
    <3>4. QED BY <3>2, <3>3 DEF Registered
  <2>2. QED BY <1>6, <2>1 DEF CheckLoad, Data, others
<1>7. ASSUME NEW ok \in BOOLEAN, CheckWithoutSlot(ok) PROVE Data'
    BY <1>7, ShutdownKeeps DEF CheckWithoutSlot, Failed, Data, others
<1>8. QED BY <1>1, <1>2, <1>3, <1>4, <1>5, <1>6, <1>7 DEF Next

LEMMA StepKeepsJudged ==
    ASSUME Data, Judged, [Next]_vars
    PROVE  Judged'
<1>1. CASE Start \/ Enter \/ ReadLoad \/ TimePasses \/ Disable \/ Enable
           \/ ReconfigureAcquire \/ ReconfigureEnter \/ CapacityEnable \/ Over
           \/ UNCHANGED vars
    BY <1>1 DEF Judged, InTime, Alternates, Start, Enter, ReadLoad, TimePasses,
                Disable, Enable, ReconfigureAcquire, ReconfigureEnter,
                CapacityEnable, Over, vars, thread, others
<1>2. CASE Acquire
    BY <1>2 DEF Judged, InTime, Alternates, Acquire, Waiting, thread
<1>3. CASE Reconfigure
    BY <1>3 DEF Judged, InTime, Alternates, Reconfigure, NoSlot
<1>4. CASE ExecutorShutdown
    BY <1>4, ShutdownKeeps DEF Judged, InTime, ExecutorShutdown, thread
<1>5. CASE ReadFails
    BY <1>5, ShutdownKeeps DEF Judged, InTime, Alternates, ReadFails, Failed
<1>6. ASSUME NEW spent \in Spent, UpdateSlot(spent) PROVE Judged'
  <2>1. CASE slot.set /\ (slot.time = -1 \/ slot.left - spent >= 0)
    <3>1. /\ slot'.set = slot.set /\ slot'.time = slot.time
          /\ reached' => slot.time = -1 \/ slot'.left >= Transition
          /\ load_db' = load_db
        BY <1>6, <2>1 DEF UpdateSlot, Data, Slots
    <3>2. QED BY <3>1 DEF Judged, InTime, Alternates
  <2>2. CASE ~(slot.set /\ (slot.time = -1 \/ slot.left - spent >= 0))
             /\ slots # <<>>
    <3>1. load_db' = Registered("NEW_SLOT") /\ ~reached'
        BY <1>6, <2>2 DEF UpdateSlot
    <3>2. load_db' # <<>> /\ Alternates(load_db')
        BY <3>1, RegisterKeeps DEF Judged
    <3>3. QED BY <3>1, <3>2 DEF Judged, InTime
  <2>3. CASE ~(slot.set /\ (slot.time = -1 \/ slot.left - spent >= 0))
             /\ slots = <<>>
    <3>1. Shutdown(recent) /\ ~reached' /\ slot' = slot
        BY <1>6, <2>3 DEF UpdateSlot
    <3>2. QED BY <3>1, ShutdownKeeps DEF Judged, InTime
  <2>4. QED BY <2>1, <2>2, <2>3
<1>7. ASSUME NEW ok \in BOOLEAN, CheckLoad(ok) PROVE Judged'
  <2> DEFINE state == IF ok THEN "STABLE" ELSE "NOT_STABLE"
  <2>1. slot.set /\ slot' = slot /\ pc' = "read"
      BY <1>7 DEF CheckLoad
  <2>2. CASE Status # state /\ load_db' = Registered(state)
    <3>1. load_db' # <<>> /\ Alternates(load_db')
        BY <2>1, <2>2, RegisterKeeps DEF Judged
    <3>2. QED BY <2>1, <3>1 DEF Judged, InTime
  <2>3. CASE load_db' = load_db
      BY <2>1, <2>3 DEF Judged, InTime, Alternates
  <2>4. QED BY <1>7, <2>2, <2>3 DEF CheckLoad
<1>8. ASSUME NEW ok \in BOOLEAN, CheckWithoutSlot(ok) PROVE Judged'
    BY <1>8, ShutdownKeeps
       DEF CheckWithoutSlot, Failed, Judged, InTime, Alternates
<1>9. QED BY <1>1, <1>2, <1>3, <1>4, <1>5, <1>6, <1>7, <1>8 DEF Next

LEMMA StepKeepsPlace ==
    ASSUME Lock!IndInv, Place, Orderly, [Next]_vars
    PROVE  Place'
<1> USE DEF Place, Sections
<1>0. "monitor" \in holders => ~InLine
    BY DEF Lock!IndInv, Lock!OnePlace, InLine
<1>1. CASE Start \/ ReadLoad \/ ReadFails \/ ExecutorShutdown \/ TimePasses
           \/ Disable \/ Enable \/ CapacityEnable \/ Over \/ UNCHANGED vars
    BY <1>1 DEF Start, ReadLoad, ReadFails, ExecutorShutdown, TimePasses, Disable,
                Enable, CapacityEnable, Over, vars, lock, InLine, Lock!Parked
<1>2. CASE Acquire
  <2>1. pc \in {"first", "update", "check"}
      BY <1>2 DEF Acquire, Waiting
  <2>2. CASE pc' = "blocked" /\ "monitor" \in holders /\ UNCHANGED lock
      BY <1>0, <2>2 DEF InLine, Lock!Parked, lock
  <2>3. CASE pc' = Waiting[pc]
      BY <2>1, <2>3 DEF Waiting
  <2>4. QED BY <1>2, <2>2, <2>3 DEF Acquire
<1>3. CASE Enter
  <2>1. "monitor" \in woken /\ pc' = pc
      BY <1>3 DEF Enter, Mutex!Enter
  <2>2. QED BY <2>1 DEF InLine
<1>4. CASE ReconfigureAcquire \/ ReconfigureEnter \/ Reconfigure
  <2>1. InLine' => InLine
      BY <1>4, SameLock, StepOfCapacity
         DEF ReconfigureAcquire, ReconfigureEnter, Reconfigure
  <2>2. QED BY <1>4, <2>1 DEF ReconfigureAcquire, ReconfigureEnter, Reconfigure
<1>5. CASE \E spent \in Spent : UpdateSlot(spent)
    BY <1>5, SameLock, ReleaseByMonitor DEF UpdateSlot, Inside
<1>6. CASE \E ok \in BOOLEAN : CheckLoad(ok)
    BY <1>6, SameLock, ReleaseByMonitor DEF CheckLoad, Inside
<1>7. CASE \E ok \in BOOLEAN : CheckWithoutSlot(ok)
  <2>1. CASE UNCHANGED lock
      BY <1>0, <1>7, <2>1 DEF CheckWithoutSlot, InLine, Lock!Parked, lock
  <2>2. CASE Mutex!Release("monitor")
      BY <2>2, SameLock, ReleaseByMonitor
  <2>3. QED BY <1>7, <2>1, <2>2 DEF CheckWithoutSlot
<1>8. QED BY <1>1, <1>2, <1>3, <1>4, <1>5, <1>6, <1>7 DEF Next

LEMMA StepKeepsOrderly ==
    ASSUME Lock!IndInv, Data, Place, Orderly, [Next]_vars
    PROVE  Orderly'
<1> USE DEF Orderly, Sections, Loop
<1>1. CASE Start \/ ReadLoad \/ TimePasses \/ Disable \/ Enable \/ CapacityEnable
           \/ Over \/ UNCHANGED vars
    BY <1>1 DEF Start, ReadLoad, TimePasses, Disable, Enable, CapacityEnable, Over,
                vars, lock, thread, others
<1>2. CASE ReadFails \/ ExecutorShutdown
    BY <1>2 DEF ReadFails, ExecutorShutdown, Failed, Shutdown, lock, thread, others
<1>3. CASE Acquire
  <2>1. pc \in {"first", "update", "check"}
      BY <1>3 DEF Acquire, Waiting
  <2>2. CASE pc' = "blocked" /\ "monitor" \in holders
      BY <1>3, <2>1, <2>2 DEF Acquire, others
  <2>3. CASE pc' = Waiting[pc]
    <3>1. /\ pc' \in Sections /\ slot' = slot /\ running' = running
          /\ capacity' = capacity
          /\ pc' \in Loop => pc \in Loop /\ pc # "read"
        BY <1>3, <2>1, <2>3 DEF Acquire, Waiting, thread, others
    <3>2. QED BY <3>1
  <2>4. QED BY <1>3, <2>2, <2>3 DEF Acquire
<1>4. CASE Enter
  <2>1. InLine
      BY <1>4 DEF Enter, Mutex!Enter, InLine
  <2>2. pc \in Sections
      BY <2>1 DEF Place
  <2>3. QED BY <1>4, <2>2 DEF Enter, others, thread
<1>5. CASE ReconfigureAcquire \/ ReconfigureEnter
  <2>1. "monitor" \in holders' => "monitor" \in holders
      BY <1>5, SameLock, StepOfCapacity DEF ReconfigureAcquire, ReconfigureEnter
  <2>2. QED BY <1>5, <2>1
            DEF ReconfigureAcquire, ReconfigureEnter, others, thread
<1>6. CASE Reconfigure
    BY <1>6 DEF Reconfigure
<1>7. ASSUME NEW spent \in Spent, UpdateSlot(spent) PROVE Orderly'
  <2>1. "monitor" \notin holders'
      BY <1>7, SameLock, ReleaseByMonitor DEF UpdateSlot, Inside
  <2>2. CASE pc = "wait_first"
    <3>1. pc' = "read" /\ (~slot'.set => ~running')
        BY <1>7, <2>2 DEF UpdateSlot, Data, Slots, NewSlot, Shutdown
    <3>2. QED BY <2>1, <3>1
  <2>3. CASE pc = "wait_update"
    <3>1. pc' = "check" /\ (slot.set => slot'.set) /\ capacity' = capacity
        BY <1>7, <2>3 DEF UpdateSlot, Data, Slots, NewSlot, others
    <3>2. QED BY <2>1, <2>3, <3>1
  <2>4. QED BY <1>7, <2>2, <2>3 DEF UpdateSlot, Inside
<1>8. ASSUME NEW ok \in BOOLEAN, CheckLoad(ok) PROVE Orderly'
  <2>1. "monitor" \notin holders'
      BY <1>8, SameLock, ReleaseByMonitor DEF CheckLoad, Inside
  <2>2. QED BY <1>8, <2>1 DEF CheckLoad
<1>9. ASSUME NEW ok \in BOOLEAN, CheckWithoutSlot(ok) PROVE Orderly'
    BY <1>9 DEF CheckWithoutSlot, others
<1>10. QED BY <1>1, <1>2, <1>3, <1>4, <1>5, <1>6, <1>7, <1>8, <1>9 DEF Next

----------------------------------------------------------------------------
LEMMA IndInvHolds == Spec => []IndInv
<1>1. Init => IndInv
  <2> SUFFICES ASSUME Init PROVE IndInv
      OBVIOUS
  <2>1. Lock!IndInv
      BY TwoThreads, SameLock, Lock!InitIndInv DEF Init
  <2>2. /\ waiters = <<>> /\ woken = {} /\ holders = {}
      BY DEF Init, Mutex!Init
  <2>3. Data
    <3>1. NoSlot \in Slots
        BY DEF NoSlot, Slots
    <3>2. SlotTimes \in Seq(Nat \cup {-1}) /\ <<>> \in Seq(Registers)
        BY LoadMonitorAssumption
    <3>3. QED BY <3>1, <3>2 DEF Init, Data
  <2>4. Place /\ Orderly /\ Judged
      BY <2>2 DEF Init, Place, InLine, Lock!Parked, Orderly, Judged, InTime,
                  Alternates, Loop, NoSlot
  <2>5. QED BY <2>1, <2>3, <2>4 DEF IndInv
<1>2. IndInv /\ [Next]_vars => IndInv'
  <2> SUFFICES ASSUME IndInv, [Next]_vars PROVE IndInv'
      OBVIOUS
  <2>1. Lock!IndInv'
      BY TwoThreads, StepOfLock, Lock!StepKeepsIndInv DEF IndInv
  <2>2. QED BY <2>1, StepKeepsData, StepKeepsPlace, StepKeepsOrderly,
               StepKeepsJudged DEF IndInv
<1>3. QED BY <1>1, <1>2, PTL DEF Spec

(* For any slots and any transition time: the load is judged by a slot, in *)
(* its time and after its target was reached, and registers alternate.     *)
THEOREM LoadIsJudgedInSlot == Spec => []JudgedInSlot
<1>1. IndInv => JudgedInSlot
    BY DEF IndInv, Judged, InTime, Alternates, JudgedInSlot
<1>2. QED BY <1>1, IndInvHolds, PTL

(* Before the capacity handler has replaced the slots the thread never     *)
(* waits for a lock it holds itself.                                       *)
THEOREM OnlyReconfigureHangs == Spec => []HangsOnlyReconfigured
<1>1. IndInv => HangsOnlyReconfigured
    BY DEF IndInv, Orderly, HangsOnlyReconfigured
<1>2. QED BY <1>1, IndInvHolds, PTL
=============================================================================
