------------------------------- MODULE QLock -------------------------------
(***************************************************************************)
(* The queueing lock of hss_utils.st_command (class QLock), used as the    *)
(* "mutex" of the HSS_rtc load monitor and action handler.                 *)
(*                                                                         *)
(* Every field of the class is read and written under the inner            *)
(* threading.Lock, so each stretch of code between taking and dropping the *)
(* inner lock is one step here.  A thread that finds the lock busy parks   *)
(* itself on a private lock in `waiters`; release() wakes the oldest one.  *)
(* Waking and entering are different steps: the woken thread has to take   *)
(* the inner lock again before it counts itself in.                        *)
(***************************************************************************)
EXTENDS Naturals, Sequences, FiniteSets

CONSTANT Threads

ASSUME ThreadsAssumption == IsFiniteSet(Threads)

VARIABLES
    count,      \* self.count
    waiters,    \* self.waiters, the threads whose private locks are queued
    woken,      \* threads whose private lock was released, not yet counted in
    holders     \* threads that returned from acquire() and not yet released

vars == <<count, waiters, woken, holders>>

Parked == {waiters[i] : i \in DOMAIN waiters}
Idle == Threads \ (Parked \cup woken \cup holders)

TypeOK ==
    /\ count \in 0 .. Cardinality(Threads)
    /\ waiters \in Seq(Threads)
    /\ woken \in SUBSET Threads
    /\ holders \in SUBSET Threads

Init ==
    /\ count = 0
    /\ waiters = <<>>
    /\ woken = {}
    /\ holders = {}

----------------------------------------------------------------------------
(* acquire() on a free lock *)
AcquireFree(t) ==
    /\ t \in Idle
    /\ count = 0
    /\ count' = count + 1
    /\ holders' = holders \cup {t}
    /\ UNCHANGED <<waiters, woken>>

(* acquire() on a busy lock: queue a private lock and block on it *)
AcquireBusy(t) ==
    /\ t \in Idle
    /\ count > 0
    /\ waiters' = Append(waiters, t)
    /\ UNCHANGED <<count, woken, holders>>

(* mutant: the woken thread forgets to count itself in *)
MutantEnterUncounted(t) ==
    /\ t \in woken
    /\ woken' = woken \ {t}
    /\ holders' = holders \cup {t}
    /\ UNCHANGED <<count, waiters>>

(* the tail of acquire(): the private lock was released, count oneself in *)
Enter(t) ==
    /\ t \in woken
    /\ woken' = woken \ {t}
    /\ count' = count + 1
    /\ holders' = holders \cup {t}
    /\ UNCHANGED waiters

(* mutant: pop() instead of popleft() *)
MutantReleaseLast(t) ==
    /\ t \in holders
    /\ count > 0
    /\ count' = count - 1
    /\ holders' = holders \ {t}
    /\ IF waiters = <<>>
       THEN UNCHANGED <<waiters, woken>>
       ELSE /\ waiters' = SubSeq(waiters, 1, Len(waiters) - 1)
            /\ woken' = woken \cup {waiters[Len(waiters)]}

(* mutant: the last holder out wakes nobody *)
MutantReleaseIdle(t) ==
    /\ t \in holders
    /\ count > 0
    /\ count' = count - 1
    /\ holders' = holders \ {t}
    /\ IF waiters = <<>> \/ count = 1
       THEN UNCHANGED <<waiters, woken>>
       ELSE /\ waiters' = Tail(waiters)
            /\ woken' = woken \cup {Head(waiters)}

(* release(): raises "lock not acquired" on a zero count *)
Release(t) ==
    /\ t \in holders
    /\ count > 0
    /\ count' = count - 1
    /\ holders' = holders \ {t}
    /\ IF waiters = <<>>
       THEN UNCHANGED <<waiters, woken>>
       ELSE /\ waiters' = Tail(waiters)
            /\ woken' = woken \cup {Head(waiters)}

Next ==
    \/ \E t \in Threads : AcquireFree(t)
    \/ \E t \in Threads : AcquireBusy(t)
    \/ \E t \in Threads : Enter(t)
    \/ \E t \in Threads : Release(t)

(* A holder releases in the end and a runnable thread gets to run; whether *)
(* a thread asks for the lock at all is its own affair.                    *)
Fairness == \A t \in Threads : WF_vars(Enter(t)) /\ WF_vars(Release(t))

Spec == Init /\ [][Next]_vars /\ Fairness

----------------------------------------------------------------------------
(* A thread is in at most one place and is queued once. *)
OnePlace ==
    /\ \A i, j \in DOMAIN waiters : waiters[i] = waiters[j] => i = j
    /\ Parked \cap woken = {}
    /\ Parked \cap holders = {}
    /\ woken \cap holders = {}

(* self.count is the number of threads between acquire() and release(), so *)
(* release() by a holder never raises "lock not acquired" and locked()     *)
(* tells the truth.                                                        *)
CountIsHolders == count = Cardinality(holders)

(* A parked thread is never forgotten: someone who will wake it holds the  *)
(* lock, or is on the way in.                                              *)
NoStrandedWaiter == waiters # <<>> => holders \cup woken # {}

(* Threads leave the queue in the order in which they joined it. *)
FirstComeFirstWoken ==
    [][\A t \in Parked : t \notin Parked' => t = Head(waiters)]_vars

(* A thread that queued up gets the lock in the end. *)
QueuedGetsLock == \A t \in Threads : (t \in Parked) ~> (t \in holders)

(* acquire() and release() keep the promise of LockService; woken threads  *)
(* are let in already.                                                     *)
Service == INSTANCE LockService WITH line <- waiters, inside <- woken \cup holders

(* Every run of the lock is one of the service: each release lets in the   *)
(* first of the queue, and nobody queues up with no one there to wake it.  *)
ImplementsService == Service!Spec
=============================================================================
