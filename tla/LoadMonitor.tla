---------------------------- MODULE LoadMonitor ----------------------------
(***************************************************************************)
(* The load monitor of HSS_rtc (components/monitor.py, class LoadMonitor). *)
(*                                                                         *)
(* Its thread reads the load of the node in a loop, moves along the list   *)
(* of load slots and writes a register whenever the load becomes stable or *)
(* unstable.  Three others reach into it: the executor shuts it down, more *)
(* than once, the action handler switches the checking off and on again    *)
(* around an action, and the capacity handler replaces the slots.  Only    *)
(* the last one takes the lock.                                            *)
(***************************************************************************)
EXTENDS Integers, Sequences

CONSTANTS
    SlotTimes,          \* config slots: the time of every slot, -1: keep it
    NewSlotTimes,       \* the slots of the capacity handler
    Transition,         \* end of a slot in which the load is not judged
    MaxReadingErrors,   \* self.__max_reading_error (3)
    MaxRegisters,       \* bound on the registers
    Actions             \* bound on actions that disable the checking

ASSUME LoadMonitorAssumption ==
    /\ SlotTimes \in Seq(Nat \cup {-1}) /\ NewSlotTimes \in Seq(Nat \cup {-1})
    /\ Transition \in Nat /\ MaxReadingErrors \in Nat
    /\ MaxRegisters \in Nat /\ Actions \in Nat

VARIABLES
    pc,                     \* the monitor thread
    slots, slot,            \* the slots to come and the current one
    reached,                \* self.__target_load_reached
    load_db,                \* self.__load_db
    running, enabled,       \* self.__running, self.__enable_monitoring
    reading_error,          \* self.__reading_error
    recent,                 \* __last_not_stable_time is less than a transition ago
    handler, actions,       \* the action handler: in an action; actions left
    capacity,               \* the capacity handler's reconfigure()
    closed,                 \* the executor has called shutdown()
    count, waiters, woken, holders      \* self.__mutex

thread == <<slots, slot, reached, reading_error>>
lock == <<count, waiters, woken, holders>>
vars == <<pc, thread, load_db, running, enabled, recent, handler, actions,
          capacity, closed, lock>>

Threads == {"monitor", "capacity"}
Mutex == INSTANCE QLock

NoSlot == [time |-> 0, left |-> 0, set |-> FALSE]
NewSlot(t) == [time |-> t, left |-> t, set |-> TRUE]

Registers == [state : {"NEW_SLOT", "STABLE", "NOT_STABLE"}, check : BOOLEAN,
              in_action : BOOLEAN]

TypeOK ==
    /\ pc \in {"new", "first", "wait_first", "read", "update", "wait_update",
               "check", "wait_check", "blocked", "done"}
    /\ slots \in Seq(Int)
    /\ slot.left \in Int /\ slot.set \in BOOLEAN
    /\ reached \in BOOLEAN /\ running \in BOOLEAN /\ enabled \in BOOLEAN
    /\ load_db \in Seq(Registers)
    /\ reading_error \in 0 .. MaxReadingErrors + 1
    /\ recent \in BOOLEAN /\ handler \in BOOLEAN /\ closed \in BOOLEAN
    /\ actions \in 0 .. Actions
    /\ capacity \in {"search", "wait", "enable", "done"}
    /\ Mutex!TypeOK

Init ==
    /\ pc = "new"
    /\ slots = SlotTimes /\ slot = NoSlot
    /\ reached = FALSE /\ running = FALSE /\ enabled = TRUE
    /\ load_db = <<>>
    /\ reading_error = 0
    /\ recent = FALSE
    /\ handler = FALSE /\ actions = Actions
    /\ capacity = "search"
    /\ closed = FALSE
    /\ Mutex!Init

Status == IF load_db = <<>> THEN "UNDEFINED" ELSE load_db[Len(load_db)].state

(* failed_registers(), what the check_load_stability check reports *)
FailedRegisters ==
    {i \in DOMAIN load_db : load_db[i].state = "NOT_STABLE" /\ load_db[i].check}

(* a new register counts when the checking is on *)
Registered(state) ==
    Append(load_db, [state |-> state, check |-> enabled, in_action |-> handler])

(* shutdown(), no lock taken: forgive the last register when the load got  *)
(* out of its range only now                                               *)
Shutdown(lately) ==
    /\ load_db' = IF running /\ lately
                  THEN [load_db EXCEPT ![Len(load_db)].check = FALSE]
                  ELSE load_db
    /\ running' = FALSE /\ enabled' = FALSE

----------------------------------------------------------------------------
(*                           The monitor thread                            *)

others == <<handler, actions, capacity, closed>>

(* run(); a thread told to stop before it got here does not know it *)
Start ==
    /\ pc = "new"
    /\ pc' = "first" /\ running' = TRUE
    /\ UNCHANGED <<thread, load_db, enabled, recent, others, lock>>

Waiting == [first |-> "wait_first", update |-> "wait_update", check |-> "wait_check"]

(* acquire(), also by a thread that never released: it waits for itself *)
Acquire ==
    /\ pc \in DOMAIN Waiting
    /\ \/ Mutex!AcquireFree("monitor") /\ pc' = Waiting[pc]
       \/ Mutex!AcquireBusy("monitor") /\ pc' = Waiting[pc]
       \/ "monitor" \in holders /\ pc' = "blocked" /\ UNCHANGED lock
    /\ UNCHANGED <<thread, load_db, running, enabled, recent, others>>

Enter ==
    /\ Mutex!Enter("monitor")
    /\ UNCHANGED <<pc, thread, load_db, running, enabled, recent, others>>

Inside(where) == pc \in where /\ "monitor" \in holders /\ Mutex!Release("monitor")

(* mutant: the end of a slot is judged like the rest of it *)
MutantUpdateSlot(spent) ==
    /\ Inside({"wait_first", "wait_update"})
    /\ pc' = IF pc = "wait_first" THEN "read" ELSE "check"
    /\ IF slot.set /\ (slot.time = -1 \/ slot.left - spent >= 0)
       THEN /\ slot' = IF slot.time = -1 THEN slot
                       ELSE [slot EXCEPT !.left = @ - spent]
            /\ UNCHANGED <<slots, reached, load_db, running, enabled>>
       ELSE IF slots # <<>>
       THEN /\ slot' = NewSlot(Head(slots)) /\ slots' = Tail(slots)
            /\ UNCHANGED reached
            /\ load_db' = Registered("NEW_SLOT")
            /\ UNCHANGED <<running, enabled>>
       ELSE Shutdown(recent) /\ UNCHANGED <<slot, slots, reached>>
    /\ UNCHANGED <<reading_error, recent, others>>

(* update_slot() with set_new_slot(); a slot of time -1 stays, and running *)
(* out of slots is a shutdown()                                            *)
UpdateSlot(spent) ==
    /\ Inside({"wait_first", "wait_update"})
    /\ pc' = IF pc = "wait_first" THEN "read" ELSE "check"
    /\ IF slot.set /\ (slot.time = -1 \/ slot.left - spent >= 0)
       THEN /\ slot' = IF slot.time = -1 THEN slot
                       ELSE [slot EXCEPT !.left = @ - spent]
            /\ reached' = (reached /\ (slot.time = -1 \/ slot'.left >= Transition))
            /\ UNCHANGED <<slots, load_db, running, enabled>>
       ELSE IF slots # <<>>
       THEN /\ slot' = NewSlot(Head(slots)) /\ slots' = Tail(slots)
            /\ reached' = FALSE
            /\ load_db' = Registered("NEW_SLOT")
            /\ UNCHANGED <<running, enabled>>
       ELSE /\ Shutdown(recent)
            /\ reached' = FALSE
            /\ UNCHANGED <<slot, slots>>
    /\ UNCHANGED <<reading_error, recent, others>>

(* mutant: the loop skips its turn instead of ending when it is not wanted *)
MutantReadLoad ==
    /\ pc = "read"
    /\ running /\ Len(load_db) < MaxRegisters
    /\ pc' = "update"
    /\ UNCHANGED <<thread, load_db, running, enabled, recent, others, lock>>

(* The loop: the thread ends when it is told to, or goes on to read the    *)
(* load.  Nothing checks that it is still wanted once the answer is there. *)
ReadLoad ==
    /\ pc = "read"
    /\ running => Len(load_db) < MaxRegisters
    /\ pc' = IF running THEN "update" ELSE "done"
    /\ UNCHANGED <<thread, load_db, running, enabled, recent, others, lock>>

(* a failed reading: too many of them, ever, are a shutdown() *)
Failed(lately) ==
    /\ reading_error' = reading_error + 1
    /\ IF reading_error' > MaxReadingErrors THEN Shutdown(lately)
       ELSE UNCHANGED <<load_db, running, enabled>>

ReadFails ==
    /\ pc = "read" /\ running
    /\ Failed(recent)
    /\ UNCHANGED <<pc, slots, slot, reached, recent, others, lock>>

(* mutant: nothing new to register, and the lock is not released *)
MutantCheckKeepsLock(ok) ==
    /\ slot.set /\ pc = "wait_check" /\ "monitor" \in holders
    /\ pc' = "read"
    /\ reached' = (reached \/ ok)
    /\ LET state == IF ok THEN "STABLE" ELSE "NOT_STABLE"
       IN  IF reached /\ Status # state
           THEN /\ load_db' = Registered(state) /\ recent' = (recent \/ ~ok)
                /\ Mutex!Release("monitor")
           ELSE UNCHANGED <<load_db, recent, lock>>
    /\ UNCHANGED <<slots, slot, reading_error, running, enabled, others>>

(* check_load_stability(); `ok` is in range and of small variance *)
CheckLoad(ok) ==
    /\ slot.set
    /\ Inside({"wait_check"})
    /\ pc' = "read"
    /\ reached' = (reached \/ ok)
    /\ LET state == IF ok THEN "STABLE" ELSE "NOT_STABLE"
       IN  IF reached /\ Status # state
           THEN load_db' = Registered(state) /\ recent' = (recent \/ ~ok)
           ELSE UNCHANGED <<load_db, recent>>
    /\ UNCHANGED <<slots, slot, reading_error, running, enabled, others>>

(* The slots were replaced since update_slot(): there is no slot to judge  *)
(* the load by.  Unless nothing has to be looked up the KeyError leaves    *)
(* with the lock held and is counted as a failed reading; `ok` is in range *)
(* of no load at all, and otherwise the time was noted before.             *)
CheckWithoutSlot(ok) ==
    /\ pc = "wait_check" /\ "monitor" \in holders /\ ~slot.set
    /\ pc' = "read"
    /\ IF reached /\ (ok \/ Status # "NOT_STABLE")
       THEN /\ recent' = (recent \/ ~ok)
            /\ Failed(recent')
            /\ UNCHANGED <<reached, lock>>
       ELSE /\ Mutex!Release("monitor")
            /\ reached' = (reached \/ ok)
            /\ UNCHANGED <<recent, reading_error, load_db, running, enabled>>
    /\ UNCHANGED <<slots, slot, others>>

----------------------------------------------------------------------------
(*                               The others                                *)

(* the executor: at the end of loadgen and again when it cleans up *)
ExecutorShutdown ==
    /\ pc # "new"
    /\ Shutdown(recent)
    /\ closed' = TRUE
    /\ UNCHANGED <<pc, thread, recent, handler, actions, capacity, lock>>

(* a transition time passes since the load left its range *)
TimePasses ==
    /\ recent /\ ~closed
    /\ recent' = FALSE
    /\ UNCHANGED <<pc, thread, load_db, running, enabled, others, lock>>

(* the action handler disables the checking for an action, and enables it *)
Disable ==
    /\ ~handler /\ actions > 0 /\ pc # "new"
    /\ handler' = TRUE /\ actions' = actions - 1
    /\ enabled' = FALSE
    /\ UNCHANGED <<pc, thread, load_db, running, recent, capacity, closed, lock>>

Enable ==
    /\ handler
    /\ handler' = FALSE
    /\ enabled' = TRUE
    /\ UNCHANGED <<pc, thread, load_db, running, recent, actions, capacity,
                   closed, lock>>

(* reconfigure() by the capacity handler once it knows the capacity, then  *)
(* enable()                                                                *)
ReconfigureAcquire ==
    /\ capacity = "search" /\ NewSlotTimes # <<>> /\ pc # "new" /\ ~closed
    /\ capacity' = "wait"
    /\ Mutex!AcquireFree("capacity") \/ Mutex!AcquireBusy("capacity")
    /\ UNCHANGED <<pc, thread, load_db, running, enabled, recent, handler,
                   actions, closed>>

ReconfigureEnter ==
    /\ Mutex!Enter("capacity")
    /\ UNCHANGED <<pc, thread, load_db, running, enabled, recent, others>>

Reconfigure ==
    /\ capacity = "wait" /\ "capacity" \in holders
    /\ Mutex!Release("capacity")
    /\ slots' = NewSlotTimes /\ slot' = NoSlot
    /\ capacity' = "enable"
    /\ UNCHANGED <<pc, reached, reading_error, load_db, running, enabled, recent,
                   handler, actions, closed>>

CapacityEnable ==
    /\ capacity = "enable"
    /\ capacity' = "done" /\ enabled' = TRUE
    /\ UNCHANGED <<pc, thread, load_db, running, recent, handler, actions, closed,
                   lock>>

Spent == 1 .. 2
Over == pc \in {"done", "blocked"} /\ UNCHANGED vars

Next ==
    \/ Start \/ Acquire \/ Enter
    \/ \E spent \in Spent : UpdateSlot(spent)
    \/ ReadLoad
    \/ ReadFails
    \/ \E ok \in BOOLEAN : CheckLoad(ok) \/ CheckWithoutSlot(ok)
    \/ ExecutorShutdown \/ TimePasses
    \/ Disable \/ Enable
    \/ ReconfigureAcquire \/ ReconfigureEnter \/ Reconfigure \/ CapacityEnable
    \/ Over

(* Every thread keeps running; the load is read every sampling time. *)
Fairness ==
    /\ WF_vars(Acquire) /\ WF_vars(Enter) /\ WF_vars(ReadLoad)
    /\ WF_vars(\E spent \in Spent : UpdateSlot(spent))
    /\ WF_vars(\E ok \in BOOLEAN : CheckLoad(ok) \/ CheckWithoutSlot(ok))
    /\ WF_vars(ReconfigureEnter) /\ WF_vars(Reconfigure)

Spec == Init /\ [][Next]_vars /\ Fairness

----------------------------------------------------------------------------
(* Whatever the slots, the load is judged only while there is a slot, the  *)
(* target was reached and the slot is not about to end: every judgement    *)
(* follows a NEW SLOT and states alternate.                                *)
JudgedInSlot ==
    /\ pc \in {"check", "wait_check"} /\ reached /\ slot.set /\ slot.time # -1 =>
           slot.left >= Transition
    /\ \A i \in DOMAIN load_db :
           load_db[i].state # "NEW_SLOT" => i > 1 /\ load_db[i - 1].state # load_db[i].state

(* Told to stop, the thread ends; the one way to hang is a KeyError under  *)
(* the lock after the capacity handler replaced the slots.                 *)
ShutdownEnds == closed ~> (pc \in {"done", "blocked"})
HangsOnlyReconfigured == pc = "blocked" => capacity \in {"enable", "done"}
=============================================================================
