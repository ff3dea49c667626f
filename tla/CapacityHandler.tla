-------------------------- MODULE CapacityHandler --------------------------
(***************************************************************************)
(* The schedulers of HSS_rtc (components/scheduler.py).  EC_Scheduler      *)
(* looks for the engineered (EC) or dimensioning (DC) capacity of a node:  *)
(* it raises the calls per second (cps) of every BAT step by step until a  *)
(* quality criterion breaks, comes down in smaller steps until it is met   *)
(* again, for DC validates 80% of that with the locked payload back in     *)
(* service, publishes the result as a traffic reference, and then runs the *)
(* configured traffic slots as the plain Scheduler does.                   *)
(*                                                                         *)
(* Two threads touch it.  The executor calls start_phase and refresh; each *)
(* call is one step here, with the outcome of its measurements and of the  *)
(* orders it sends to the BATs chosen freely.  The thread of the scheduler *)
(* itself only samples the cps (the reader): after too many failures it    *)
(* shuts the scheduler down under the executor's feet.                     *)
(***************************************************************************)
EXTENDS Integers, Sequences, FiniteSets

CONSTANTS
    Bats,           \* the BAT instances, all with a cps_scheduler
    Initial,        \* config loadgen/initial of a BAT
    DeltaUp,        \* config loadgen/delta_up
    DeltaDown,      \* config loadgen/delta_down
    TrafficSlots,   \* how many traffic slots run after the search
    MaxSteps,       \* bound: the node is saturated after so many steps up
    MaxReadErrors   \* failed cps readings in a row the reader survives (3)

ASSUME CapacityAssumption ==
    /\ IsFiniteSet(Bats) /\ Bats # {}
    /\ Initial \in [Bats -> Nat]
    /\ DeltaUp \in [Bats -> Nat \ {0}] /\ DeltaDown \in [Bats -> Nat \ {0}]
    /\ TrafficSlots \in Nat /\ MaxSteps \in Nat \ {0} /\ MaxReadErrors \in Nat

VARIABLES
    cfg,            \* what the json file asks for
    exec,           \* where the executor is
    fsm,            \* self.__fsm_status
    used,           \* data[bat]['used_target']
    steps,          \* self.__nof_steps
    period_load,    \* self.__period_load
    candidate,      \* self.__EC_candidate, counted from one
    pending,        \* self.__bat_instances_pending_to_start, by name
    slots,          \* slots left in data[bat]['loadgen'] after the search
    locked,         \* self.__PL_for_DC is not None
    reader,         \* the scheduler's own thread: [running, errors]
    register,       \* the error monitor has an open register
    stop,           \* the executor's stop_phase_pending, and who set it
    reference,      \* the published traffic reference, cps of every BAT
    bats_told,      \* the BATs were told to stop
    \* history
    passed,         \* cps vectors whose period met every criterion
    refused,        \* the last order to unlock the payload failed
    unwatched       \* the payload was locked while the reader did not run

searching == <<fsm, used, steps, period_load, candidate>>
ghosts == <<refused, unwatched>>
vars == <<cfg, exec, searching, pending, slots, locked, reader, register, stop,
          reference, bats_told, passed, ghosts>>

Configs == [dc : BOOLEAN, display : BOOLEAN, validation : BOOLEAN]
Loads == {"below", "at", "above"}      \* of max_load
(* what one period shows: error rates within bounds, load, load variance *)
Measures == [cps : BOOLEAN, tps : BOOLEAN, load : Loads, stable : BOOLEAN]
None == <<>>

TypeOK ==
    /\ cfg \in Configs
    /\ exec \in {"preexec", "start", "loadgen", "end", "interrupt", "release",
                 "done", "crashed"}
    /\ fsm \in {"initial", "search", "search_down", "validate", "finished"}
    /\ used \in [Bats -> Seq(Int)]
    /\ steps \in Nat /\ candidate \in Nat
    /\ period_load \in Seq(Loads)
    /\ pending \in SUBSET Bats
    /\ slots \in [Bats -> 0 .. TrafficSlots]
    /\ locked \in BOOLEAN /\ register \in BOOLEAN
    /\ stop \in {"no", "scheduler", "action handler"}
    /\ reader \in [running : BOOLEAN, errors : 0 .. MaxReadErrors + 1]
    /\ reference \in [Bats -> Int] \cup {None}
    /\ bats_told \in BOOLEAN /\ refused \in BOOLEAN /\ unwatched \in BOOLEAN

Init ==
    /\ cfg \in Configs
    /\ exec = "preexec"
    /\ fsm = "initial"
    /\ used = [b \in Bats |-> <<>>]
    /\ steps = 0 /\ candidate = 0
    /\ period_load = <<>>
    /\ pending = Bats
    /\ slots = [b \in Bats |-> 0]
    /\ locked = FALSE /\ register = FALSE /\ stop = "no"
    /\ reader = [running |-> FALSE, errors |-> 0]
    /\ reference = None
    /\ bats_told = FALSE
    /\ passed = {}
    /\ refused = FALSE /\ unwatched = FALSE

Last(s) == s[Len(s)]
Current == [b \in Bats |-> Last(used[b])]

(* lock_PL() by the executor *)
LockPL ==
    /\ locked' = TRUE
    /\ unwatched' = (unwatched \/ (~locked /\ ~reader.running))
    /\ UNCHANGED refused

(* unlock_PL(): what the cabinet raises is swallowed and the payload stays *)
(* to be unlocked                                                          *)
UnlockPL(works) ==
    /\ locked' = (locked /\ ~works)
    /\ refused' = (locked /\ ~works)
    /\ UNCHANGED unwatched

----------------------------------------------------------------------------
(*                            The reader thread                            *)

(* start_execution(): the thread runs only to display the cps *)
StartExecution ==
    /\ exec = "preexec"
    /\ exec' = "start"
    /\ register' = TRUE
    /\ reader' = [reader EXCEPT !.running = cfg.display]
    /\ UNCHANGED <<cfg, searching, pending, slots, locked, stop, reference,
                   bats_told, passed, ghosts>>

(* read_current_cps(): one failed reading too many is a shutdown(), which  *)
(* gives the payload back whatever the executor is doing; what shutdown()  *)
(* raises is swallowed here                                                *)
ReadCps(ok, works) ==
    /\ reader.running
    /\ LET over == ~ok /\ reader.errors + 1 > MaxReadErrors
       IN  /\ reader' = [running |-> ~over,
                         errors |-> IF ok THEN 0 ELSE reader.errors + 1]
           /\ IF over THEN UnlockPL(works) ELSE UNCHANGED <<locked, ghosts>>
    /\ UNCHANGED <<cfg, exec, searching, pending, slots, register, stop,
                   reference, bats_told, passed>>

----------------------------------------------------------------------------
(*              start_phase("loadgen", [bat]), once for every BAT          *)

(* refresh() with __last_time = 0: order the initial cps; `done` are the   *)
(* BATs reached before one of them failed                                  *)
FirstRefresh(done) ==
    /\ steps' = steps + 1
    /\ used' = [b \in Bats |-> IF b \in done THEN <<Initial[b]>> ELSE <<>>]
    /\ IF done = Bats
       THEN fsm' = "search" /\ UNCHANGED stop
       ELSE fsm' = "finished" /\ stop' = "scheduler"
    /\ UNCHANGED <<period_load, candidate>>

(* lock_PL() worked, or was not needed *)
StartBat(b) ==
    /\ exec = "start" /\ b \in pending
    /\ IF cfg.dc THEN LockPL ELSE UNCHANGED <<locked, ghosts>>
    /\ pending' = pending \ {b}
    /\ IF pending' = {}
       THEN /\ exec' = "loadgen"
            /\ \E done \in SUBSET Bats : FirstRefresh(done)
       ELSE UNCHANGED <<exec, searching, stop>>
    /\ UNCHANGED <<cfg, slots, reader, register, reference, bats_told, passed>>

(* lock_PL() found no payload, or gave up waiting after it had locked one: *)
(* ExecutionRunError, and the executor releases everything                 *)
LockFails(after) ==
    /\ exec = "start" /\ pending # {}
    /\ cfg.dc /\ ~locked
    /\ IF after THEN LockPL ELSE UNCHANGED <<locked, ghosts>>
    /\ exec' = "release"
    /\ UNCHANGED <<cfg, searching, pending, slots, reader, register, stop,
                   reference, bats_told, passed>>

----------------------------------------------------------------------------
(*              refresh() at the end of a period of the search             *)

LoadOK(m) == cfg.validation => m.stable /\ m.load \in {"below", "at"}
Limit(m) == \/ ~m.cps
            \/ cfg.validation /\ (m.load \in {"at", "above"} \/ ~m.stable)

Abort == fsm' = "finished" /\ stop' = "scheduler"
Order(done, value) ==
    used' = [b \in Bats |-> IF b \in done THEN Append(used[b], value[b])
                            ELSE used[b]]

(* mutant: nof_steps is not counted *)
MutantNextStep(reachable, value, status) ==
    \E done \in SUBSET reachable :
        /\ Order(done, value)
        /\ UNCHANGED steps
        /\ IF done = Bats
           THEN fsm' = status /\ register' = TRUE /\ UNCHANGED stop
           ELSE Abort /\ register' = FALSE

(* The next step of the search: every BAT gets its new value, or the       *)
(* search is over at the first one that cannot have it.                    *)
NextStep(reachable, value, status) ==
    \E done \in SUBSET reachable :
        /\ Order(done, value)
        /\ IF done = Bats
           THEN /\ fsm' = status /\ steps' = steps + 1 /\ register' = TRUE
                /\ UNCHANGED stop
           ELSE Abort /\ register' = FALSE /\ UNCHANGED steps

Down == [b \in Bats |-> Current[b] - DeltaDown[b]]
Up == [b \in Bats |-> Current[b] + DeltaUp[b]]

SearchUp(m) ==
    /\ fsm = "search" /\ ~Limit(m)
    /\ steps < MaxSteps
    /\ NextStep(Bats, Up, "search")
    /\ UNCHANGED <<candidate, reference, slots, locked, ghosts>>

(* a criterion broke: the step before is the candidate, if there is one *)
SearchTurn(m) ==
    /\ fsm = "search" /\ Limit(m)
    /\ LET before == Len(used[CHOOSE b \in Bats : TRUE]) - 1
       IN  IF before = 0
           THEN Abort /\ register' = FALSE /\ UNCHANGED <<used, steps, candidate>>
           ELSE /\ candidate' = before
                /\ NextStep(Bats, Down, "search_down")
    /\ UNCHANGED <<reference, slots, locked, ghosts>>

SearchDown(m) ==
    /\ fsm = "search_down" /\ ~(m.tps /\ LoadOK(m))
    /\ LET above == {b \in Bats : used[b][candidate] <= Down[b]}
       IN  NextStep(above, Down, "search_down")
    /\ UNCHANGED <<candidate, reference, slots, locked, ghosts>>

(* create_reference(), build_cps_table() and what follows them; the error  *)
(* register is opened again for EC only                                    *)
Publish(value) ==
    /\ fsm' = "finished"
    /\ reference' = value
    /\ slots' = [b \in Bats |-> TrafficSlots]
    /\ stop' = IF TrafficSlots = 0 THEN "scheduler" ELSE stop
    /\ register' = (TrafficSlots > 0 /\ ~cfg.dc)

(* mutant: publish what the search came down from *)
MutantFoundEC(m) ==
    /\ fsm = "search_down" /\ ~cfg.dc /\ m.tps /\ LoadOK(m)
    /\ Publish([b \in Bats |-> used[b][Len(used[b]) - 1]])
    /\ UNCHANGED <<used, steps, candidate, locked, ghosts>>

FoundEC(m) ==
    /\ fsm = "search_down" /\ ~cfg.dc /\ m.tps /\ LoadOK(m)
    /\ Publish(Current)
    /\ UNCHANGED <<used, steps, candidate, locked, ghosts>>

(* DC: give the payload back and validate 80% of the capacity found,       *)
(* whether it came back or not                                             *)
FoundDC(m) ==
    /\ fsm = "search_down" /\ cfg.dc /\ m.tps /\ LoadOK(m)
    /\ \E works \in BOOLEAN : UnlockPL(works)
    /\ \E done \in SUBSET Bats :
        /\ Order(done, [b \in Bats |-> (8 * Current[b]) \div 10])
        /\ IF done = Bats
           THEN /\ fsm' = "validate" /\ steps' = steps + 1 /\ register' = TRUE
                /\ candidate' = Len(used[CHOOSE b \in Bats : TRUE]) + 1
                /\ UNCHANGED stop
           ELSE Abort /\ register' = FALSE /\ UNCHANGED <<steps, candidate>>
    /\ UNCHANGED <<reference, slots>>

Validate(m) ==
    /\ fsm = "validate"
    /\ IF m.tps /\ (cfg.validation => m.stable)
       THEN Publish(Current)
       ELSE Abort /\ register' = FALSE /\ UNCHANGED <<reference, slots>>
    /\ UNCHANGED <<used, steps, candidate, locked, ghosts>>

(* what the criteria of the running step make of a measurement *)
Meets(m) == CASE fsm = "search" -> ~Limit(m)
              [] fsm = "validate" -> m.tps /\ (cfg.validation => m.stable)
              [] OTHER -> m.tps /\ LoadOK(m)

Period(m) ==
    /\ exec = "loadgen" /\ stop = "no" /\ fsm \in {"search", "search_down", "validate"}
    /\ cfg.validation
    /\ period_load' = Append(period_load, m.load)
    /\ \/ SearchUp(m) \/ SearchTurn(m) \/ SearchDown(m)
       \/ FoundEC(m) \/ FoundDC(m) \/ Validate(m)
    /\ passed' = IF Meets(m) THEN passed \cup {Current} ELSE passed
    /\ UNCHANGED <<cfg, exec, pending, reader, bats_told>>

(* Without load validation nothing ever fills period_load, and the log     *)
(* line of the first period reads its last element: IndexError, which      *)
(* nobody on the way up catches.                                           *)
PeriodWithoutLoad ==
    /\ exec = "loadgen" /\ stop = "no" /\ fsm \in {"search", "search_down", "validate"}
    /\ ~cfg.validation
    /\ register' = FALSE
    /\ exec' = "crashed"
    /\ UNCHANGED <<cfg, searching, pending, slots, locked, reader, stop,
                   reference, bats_told, passed, ghosts>>

----------------------------------------------------------------------------
(*          Scheduler_Base.refresh() on the traffic slots                  *)

(* mutant: the end of the last slot is not reported *)
MutantRefreshSilent(over) ==
    /\ exec = "loadgen" /\ stop = "no" /\ fsm = "finished"
    /\ slots' = [b \in Bats |-> IF b \in over /\ slots[b] > 0
                                THEN slots[b] - 1 ELSE slots[b]]
    /\ UNCHANGED <<cfg, exec, searching, pending, locked, reader, register, stop,
                   reference, bats_told, passed, ghosts>>

(* `over` are the BATs whose current slot has run its time *)
RefreshSlots(over) ==
    /\ exec = "loadgen" /\ stop = "no" /\ fsm = "finished"
    /\ slots' = [b \in Bats |-> IF b \in over /\ slots[b] > 0
                                THEN slots[b] - 1 ELSE slots[b]]
    /\ stop' = IF \A b \in Bats : slots'[b] = 0 THEN "scheduler" ELSE stop
    /\ UNCHANGED <<cfg, exec, searching, pending, locked, reader, register,
                   reference, bats_told, passed, ghosts>>

(* an order to a BAT fails: the scheduler is shut down, then the executor  *)
RefreshFails ==
    /\ exec = "loadgen" /\ stop = "no" /\ fsm = "finished"
    /\ \E b \in Bats : slots[b] > 0
    /\ exec' = "release"
    /\ UNCHANGED <<cfg, searching, pending, slots, locked, reader, register,
                   stop, reference, bats_told, passed, ghosts>>

----------------------------------------------------------------------------
(*                         The end of the execution                        *)

(* wait_phase_end() sees stop_phase_pending: loadgen is stopped, postexec  *)
(* runs and the BATs end by themselves                                     *)
StopPhase ==
    /\ exec = "loadgen" /\ stop # "no"
    /\ exec' = "end"
    /\ register' = FALSE
    /\ bats_told' = TRUE
    /\ UNCHANGED <<cfg, searching, pending, slots, locked, reader, stop,
                   reference, passed, ghosts>>

(* request_stop_phase() by the action handler, in the middle of a step *)
ActionHandlerStops ==
    /\ exec = "loadgen" /\ stop = "no"
    /\ stop' = "action handler"
    /\ UNCHANGED <<cfg, exec, searching, pending, slots, locked, reader,
                   register, reference, bats_told, passed, ghosts>>

(* Ctrl-C or an exit order while loadgen starts or runs *)
Interrupt ==
    /\ exec \in {"start", "loadgen"}
    /\ exec' = "interrupt"
    /\ UNCHANGED <<cfg, searching, pending, slots, locked, reader, register,
                   stop, reference, bats_told, passed, ghosts>>

(* mutant: shutdown() leaves the payload locked *)
MutantShutdown(works) ==
    /\ exec \in {"end", "interrupt", "release"}
    /\ exec' = "done"
    /\ reader' = [reader EXCEPT !.running = FALSE]
    /\ bats_told' = TRUE
    /\ UNCHANGED <<cfg, searching, pending, slots, locked, register, stop,
                   reference, passed, ghosts>>

(* shutdown() by the executor.  The payload is given back only by a        *)
(* scheduler whose thread runs; scheduling_info() then indexes period_load *)
(* by step, and what it raises leaves the rest of the executor's clean-up  *)
(* undone: the BATs are told to stop only after it.                        *)
Shutdown(works) ==
    /\ exec \in {"end", "interrupt", "release"}
    /\ exec' = "done"
    /\ reader' = [reader EXCEPT !.running = FALSE]
    /\ IF reader.running THEN UnlockPL(works) ELSE UNCHANGED <<locked, ghosts>>
    /\ LET fails == cfg.validation /\ steps > Len(period_load)
       IN  bats_told' = (bats_told \/ ~fails)
    /\ UNCHANGED <<cfg, searching, pending, slots, register, stop, reference,
                   passed>>

Over == exec \in {"done", "crashed"} /\ UNCHANGED vars

Next ==
    \/ StartExecution
    \/ \E ok, works \in BOOLEAN : ReadCps(ok, works)
    \/ \E b \in Bats : StartBat(b)
    \/ \E after \in BOOLEAN : LockFails(after)
    \/ \E m \in Measures : Period(m)
    \/ PeriodWithoutLoad
    \/ \E over \in SUBSET Bats : RefreshSlots(over)
    \/ RefreshFails
    \/ StopPhase
    \/ ActionHandlerStops
    \/ Interrupt
    \/ \E works \in BOOLEAN : Shutdown(works)
    \/ Over

(* The executor polls every five seconds, periods and slots run out, and   *)
(* its clean-up runs to the end.                                           *)
Fairness ==
    /\ WF_vars(StartExecution \/ \E b \in Bats : StartBat(b))
    /\ WF_vars(\E m \in Measures : Period(m))
    /\ WF_vars(PeriodWithoutLoad)
    /\ WF_vars(RefreshSlots(Bats))
    /\ WF_vars(StopPhase)
    /\ WF_vars(\E works \in BOOLEAN : Shutdown(works))

Spec == Init /\ [][Next]_vars /\ Fairness

----------------------------------------------------------------------------
(* Every BAT is at the same step of the search, and the load of every      *)
(* finished step is on record: scheduling_info() lists them without an     *)
(* IndexError, and the executor goes on to stop the traffic, unless a step *)
(* was under way or the first one could not be ordered.                    *)
StepsOnRecord ==
    /\ fsm \in {"search", "search_down", "validate"} =>
           \A b \in Bats : Len(used[b]) = steps
    /\ fsm \in {"search", "search_down", "validate"} /\ exec # "crashed" =>
           steps = Len(period_load) + 1
    /\ exec = "done" /\ ~bats_told =>
           fsm # "finished" \/ (steps = 1 /\ period_load = <<>>)

(* A traffic reference is the cps of a period that met every criterion, of *)
(* every BAT, and it was not changed since.                                *)
ReferenceWasMeasured ==
    reference # None => reference \in passed /\ reference = Current

(* The payload locked for DC is back in service when shutdown() is done    *)
(* (unlock_PL), whichever phase or failure led there, but for two cases:   *)
(* the cabinet refused the last order to unlock it (a refusal before the   *)
(* DC validation is tried again), or it was locked while no reader ran,    *)
(* the cps display being off or the reader having given up.                *)
PayloadBack == exec = "done" /\ locked => refused \/ unwatched

(* The search and its traffic slots come to an end. *)
SearchEnds == (exec = "loadgen") ~> (exec \in {"done", "crashed"})
=============================================================================
