----------------------------- MODULE Execution -----------------------------
(***************************************************************************)
(* The traffic of a test case (HSS_rtc_lib/components): the executor       *)
(* (execution.py) starts one BAT thread per traffic generator              *)
(* (bat_instance.py), each with a client of the generator's command line   *)
(* (bat_instance_with_telnet.py, ttcn_monitor.py), and takes all of them   *)
(* through preexec, loadgen and postexec.  The executor asks the clients   *)
(* one after the other and waits 10 s for an answer in ONE queue that they *)
(* all share.  The generator itself is external.                           *)
(***************************************************************************)
EXTENDS Naturals, Sequences

CONSTANTS
    Bats,           \* how many BAT instances
    MaxFaults       \* bound on the faults of a behaviour

ASSUME BatsAssumption == Bats \in Nat \ {0}
ASSUME FaultsAssumption == MaxFaults \in Nat

VARIABLES
    x,              \* the executor: see Points
    skip,           \* skip_postexec
    stop,           \* __stop_phase_pending
    ask,            \* the executor waits for an answer
    requests,       \* the queue of each client
    answers,        \* the queue of the answers
    state,          \* execution_state of each BAT
    thread,         \* its thread
    client,         \* its TTCN client
    force,          \* force_exit: the test case is over
    titan,          \* the phase the generator is in
    runs,           \* ... and whether it is idle in it, running or stopped
    proc,           \* the process of the generator
    faults,         \* bound
    \* history
    late,           \* an answer came after its time, or nobody waited for it
    hasty,          \* a Ctrl-C ended the wait for preexec
    lost            \* the BATs that overwrote or missed a stop()

executor == <<x, skip, stop, ask>>
queues == <<requests, answers>>
bat == <<state, thread, client, force>>
generator == <<titan, runs, proc>>
history == <<faults, late, hasty, lost>>
vars == <<executor, queues, bat, generator, history>>

Ids == 1 .. Bats
Phases == {"preexec", "loadgen", "postexec"}
Points == {"start", "ready", "phase", "go", "status", "where", "halt", "halted",
           "skip", "join", "shut", "stuck", "joining", "finish", "done"}
States == {"", "starting", "running", "pending_to_stop", "stopping", "stopped",
           "failed"}
Values == ({"None", "True", "False", "Running", "Stopped", "end"} \cup Phases) \X BOOLEAN
None == <<"None", FALSE>>
True == <<"True", FALSE>>
False == <<"False", FALSE>>

TypeOK ==
    /\ x \in [at : Points, i : Ids, phase : Phases, ready : BOOLEAN,
              patience : BOOLEAN, result : {"", "ok", "error", "user", "crash"}]
    /\ skip \in BOOLEAN /\ stop \in BOOLEAN /\ ask \in BOOLEAN
    /\ requests \in [Ids -> Seq({"phase", "start", "status", "stop"})]
    /\ answers \in Seq(Values)
    /\ state \in [Ids -> States]
    /\ thread \in [Ids -> {"new", "begin", "loop", "alias", "over"}]
    /\ client \in [Ids -> {"none", "connecting", "online", "closed"}]
    /\ force \in BOOLEAN
    /\ titan \in [Ids -> Phases \cup {"end"}]
    /\ runs \in [Ids -> {"idle", "running", "stopped"}]
    /\ proc \in [Ids -> {"none", "up", "told", "ended"}]
    /\ faults \in 0 .. MaxFaults
    /\ late \in BOOLEAN /\ hasty \in BOOLEAN /\ lost \subseteq Ids

Init ==
    /\ x = [at |-> "start", i |-> 1, phase |-> "preexec", ready |-> TRUE,
            patience |-> TRUE, result |-> ""]
    /\ skip \in BOOLEAN /\ stop = FALSE /\ ask = FALSE
    /\ requests = [b \in Ids |-> <<>>] /\ answers = <<>>
    /\ state = [b \in Ids |-> ""] /\ thread = [b \in Ids |-> "new"]
    /\ client = [b \in Ids |-> "none"] /\ force = FALSE
    /\ titan = [b \in Ids |-> "preexec"] /\ runs = [b \in Ids |-> "idle"]
    /\ proc = [b \in Ids |-> "none"]
    /\ faults = 0 /\ late = FALSE /\ hasty = FALSE /\ lost = {}

Fault == faults < MaxFaults /\ faults' = faults + 1
Next_(p) == IF p = "preexec" THEN "loadgen" ELSE IF p = "loadgen" THEN "postexec" ELSE "end"
Alive(b) == thread[b] \notin {"new", "over"}
Online(b) == client[b] = "online"

----------------------------------------------------------------------------
(*                              BAT instances                              *)

(* run(): the command is written and the state is 'starting' *)
BatStarts(b) ==
    /\ thread[b] = "begin"
    /\ thread' = [thread EXCEPT ![b] = "loop"]
    /\ state' = [state EXCEPT ![b] = "starting"]
    /\ proc' = [proc EXCEPT ![b] = "up"]
    /\ UNCHANGED <<executor, queues, client, force, titan, runs, history>>

(* 'Alias sent': the client is started first, the state is set after it *)
AliasSent(b) ==
    /\ thread[b] = "loop" /\ ~force /\ state[b] = "starting" /\ proc[b] = "up"
    /\ thread' = [thread EXCEPT ![b] = "alias"]
    /\ client' = [client EXCEPT ![b] = "connecting"]
    /\ UNCHANGED <<executor, queues, state, force, generator, history>>

Aliased(b) ==
    /\ thread[b] = "alias"
    /\ thread' = [thread EXCEPT ![b] = "loop"]
    /\ state' = [state EXCEPT ![b] = "running"]
    /\ lost' = IF state[b] = "starting" THEN lost ELSE lost \cup {b}
    /\ UNCHANGED <<executor, queues, client, force, generator, faults, late, hasty>>

(* stop_traffic(): the client is dropped and Ctrl-C is written *)
StopTraffic(b) ==
    /\ client' = [client EXCEPT ![b] = IF @ = "none" THEN @ ELSE "closed"]
    /\ proc' = [proc EXCEPT ![b] = IF @ = "up" THEN "told" ELSE @]

(* a line or a timeout: a BAT that is to stop stops *)
BatStops(b) ==
    /\ thread[b] = "loop" /\ ~force /\ state[b] = "pending_to_stop"
    /\ state' = [state EXCEPT ![b] = "stopping"]
    /\ StopTraffic(b)
    /\ UNCHANGED <<executor, queues, thread, force, titan, runs, history>>

(* max_time_for_start is over *)
StartExpires(b) ==
    /\ thread[b] = "loop" /\ ~force /\ state[b] = "starting" /\ Fault
    /\ state' = [state EXCEPT ![b] = "pending_to_stop"]
    /\ UNCHANGED <<executor, queues, thread, client, force, generator, late, hasty, lost>>

(* collect_and_clean() and release(), the end of run() *)
BatEnds(b) ==
    /\ thread' = [thread EXCEPT ![b] = "over"]
    /\ client' = [client EXCEPT ![b] = IF @ = "none" THEN @ ELSE "closed"]

(* the prompt is back, or the generator could not be started *)
BatPrompt(b) ==
    /\ thread[b] = "loop" /\ ~force /\ proc[b] = "ended"
    /\ state' = [state EXCEPT ![b] = IF @ = "starting" THEN "failed" ELSE "stopped"]
    /\ BatEnds(b)
    /\ UNCHANGED <<executor, queues, force, generator, history>>

(* max_time_for_shutdown is over: the thread ends, the state stays *)
StopExpires(b) ==
    /\ thread[b] = "loop" /\ ~force /\ state[b] = "stopping" /\ Fault
    /\ BatEnds(b)
    /\ UNCHANGED <<executor, queues, state, force, generator, late, hasty, lost>>

(* 'Traffic finished in Manual Mode', 'Main Test case terminated' *)
TrafficFinished(b) ==
    /\ thread[b] = "loop" /\ ~force /\ state[b] = "running" /\ titan[b] = "end"
    /\ \E s \in {"pending_to_stop", "stopping"} : state' = [state EXCEPT ![b] = s]
    /\ UNCHANGED <<executor, queues, thread, client, force, generator, history>>

(* EOF: the exception ends the thread, the state stays *)
EndOfFile(b) ==
    /\ thread[b] = "loop" /\ ~force /\ Fault
    /\ BatEnds(b)
    /\ UNCHANGED <<executor, queues, state, force, generator, late, hasty, lost>>

Forced(b) ==
    /\ thread[b] = "loop" /\ force
    /\ thread' = [thread EXCEPT ![b] = "over"]
    /\ UNCHANGED <<executor, queues, state, client, force, generator, history>>

----------------------------------------------------------------------------
(*                       The generators (external)                         *)

PhaseFinishes(b) ==
    /\ runs[b] = "running" /\ proc[b] = "up"
    /\ titan' = [titan EXCEPT ![b] = Next_(@)]
    /\ runs' = [runs EXCEPT ![b] = "idle"]
    /\ UNCHANGED <<executor, queues, bat, proc, history>>

(* the scenarios stop in the middle of a phase *)
ScenariosStop(b) ==
    /\ runs[b] = "running" /\ proc[b] = "up" /\ Fault
    /\ runs' = [runs EXCEPT ![b] = "stopped"]
    /\ UNCHANGED <<executor, queues, bat, titan, proc, late, hasty, lost>>

ProcessEnds(b) ==
    /\ proc[b] = "told" \/ (proc[b] = "up" /\ state[b] = "stopping")
    /\ proc' = [proc EXCEPT ![b] = "ended"]
    /\ runs' = [runs EXCEPT ![b] = "stopped"]
    /\ UNCHANGED <<executor, queues, bat, titan, history>>

ProcessDies(b) ==
    /\ proc[b] = "up" /\ Fault
    /\ proc' = [proc EXCEPT ![b] = "ended"]
    /\ runs' = [runs EXCEPT ![b] = "stopped"]
    /\ UNCHANGED <<executor, queues, bat, titan, late, hasty, lost>>

----------------------------------------------------------------------------
(*                            The TTCN clients                             *)

(* connect(), tried once *)
Connect(b) ==
    /\ client[b] = "connecting"
    /\ \/ proc[b] = "up" /\ client' = [client EXCEPT ![b] = "online"] /\ UNCHANGED faults
       \/ Fault /\ client' = [client EXCEPT ![b] = "closed"]
    /\ UNCHANGED <<executor, queues, state, thread, force, generator, late, hasty, lost>>

(* the loop of run() leaves when the BAT does not run (any more) *)
OwnerGone(b) ==
    /\ Online(b) /\ state[b] # "running"
    /\ client' = [client EXCEPT ![b] = "closed"]
    /\ UNCHANGED <<executor, queues, state, thread, force, generator, history>>

(* get_value() of ScGrpStatus and ScStatus; what set_value() returns *)
Answer(b, cmd) ==
    CASE cmd = "phase" -> <<titan[b], runs[b] = "idle">>
      [] cmd = "status" -> <<IF runs[b] = "stopped" THEN "Stopped" ELSE "Running", FALSE>>
      [] OTHER -> True

(* start_phase() and stop_phase() act on the generator *)
Does(b, cmd) ==
    /\ runs' = [runs EXCEPT ![b] = CASE cmd = "start" -> "running"
                                     [] cmd = "stop" -> "stopped"
                                     [] OTHER -> @]
    /\ titan' = [titan EXCEPT ![b] = IF cmd = "start" THEN x.phase ELSE @]

(* One request is served.  Each setting that start_phase() and             *)
(* stop_phase() make may be refused, or lose its prompt once it is made.   *)
Serve(b) ==
    /\ Online(b) /\ requests[b] # <<>> /\ proc[b] = "up"
    /\ LET cmd == Head(requests[b]) IN
       \/ Does(b, cmd) /\ answers' = Append(answers, Answer(b, cmd)) /\ UNCHANGED faults
       \/ /\ cmd \in {"start", "stop"} /\ Fault
          /\ answers' = Append(answers, False)
          /\ Does(b, cmd) \/ UNCHANGED <<runs, titan>>
    /\ requests' = [requests EXCEPT ![b] = Tail(@)]
    /\ UNCHANGED <<executor, bat, proc, late, hasty, lost>>

(* The connection fails: a value that was asked for is None; set_value()   *)
(* goes on with a result it does not have, and the thread dies silently.   *)
ServeFails(b) ==
    /\ Online(b) /\ requests[b] # <<>>
    /\ IF proc[b] = "up" THEN Fault ELSE UNCHANGED faults
    /\ client' = [client EXCEPT ![b] = "closed"]
    /\ requests' = [requests EXCEPT ![b] = Tail(@)]
    /\ answers' = IF Head(requests[b]) \in {"phase", "status"}
                  THEN Append(answers, None) ELSE answers
    /\ UNCHANGED <<executor, state, thread, force, generator, late, hasty, lost>>

----------------------------------------------------------------------------
(*                              The executor                               *)

Unchanged == UNCHANGED <<skip, thread, client, force, generator>>
Go(at) == x' = [x EXCEPT !.at = at, !.i = 1]

(* mutant: only a running BAT is stopped *)
MutantStop(b) == IF state[b] = "running" THEN "pending_to_stop" ELSE state[b]

(* BAT.stop() *)
Stop(b) == IF state[b] \in {"starting", "running"} THEN "pending_to_stop" ELSE state[b]

(* stop_BATs(); a BAT that has not set its first state yet misses it *)
StopBats(result) ==
    /\ x' = [x EXCEPT !.at = "joining", !.i = 1, !.result = result]
    /\ state' = [b \in Ids |-> Stop(b)]
    /\ lost' = lost \cup {b \in Ids : thread[b] = "begin"}
    /\ ask' = FALSE

(* release() and the handler of Ctrl-C: the external tools and the         *)
(* components are shut down before stop_BATs()                             *)
GiveUp(result) ==
    /\ x' = [x EXCEPT !.at = "shut", !.result = result]
    /\ ask' = FALSE
    /\ UNCHANGED <<state, lost>>

Release == GiveUp("error") /\ UNCHANGED <<stop, queues, faults, late, hasty>>

(* bat.monitor is None: the handler of the exception uses it too, and the  *)
(* AttributeError leaves run() without release()                           *)
Crash ==
    /\ x' = [x EXCEPT !.at = "finish", !.result = "crash"]
    /\ UNCHANGED <<stop, ask, queues, state, history>>

(* run_ttcn_cli_command(), the request *)
Request(cmd) ==
    LET gone == client[x.i] = "closed" /\ thread[x.i] = "over" IN
    \/ gone /\ Crash
    \/ /\ ~gone
       /\ ask' = TRUE
       /\ requests' = [requests EXCEPT ![x.i] = Append(@, cmd)]
       /\ UNCHANGED <<x, stop, answers, state, history>>

(* ... of a BAT that has to run *)
Ask(cmd) ==
    /\ ~ask
    /\ \/ state[x.i] # "running" /\ Release
       \/ state[x.i] = "running" /\ Request(cmd)
    /\ Unchanged

(* ... and its answer: the first of the queue, or None after 10 s.  An     *)
(* answer that comes later stays for the next request.                     *)
Got(v) ==
    /\ ask
    /\ \/ /\ answers # <<>> /\ v = Head(answers)
          /\ answers' = Tail(answers)
          /\ UNCHANGED <<requests, faults, late>>
       \/ /\ answers = <<>> /\ v = None /\ ~Online(x.i)
          /\ UNCHANGED <<queues, faults, late>>
       \/ /\ answers = <<>> /\ v = None /\ Online(x.i) /\ Fault
          /\ late' = TRUE
          /\ UNCHANGED queues
    /\ UNCHANGED hasty

Continue(to) == x' = to /\ ask' = FALSE /\ UNCHANGED <<state, lost>>
Fail == GiveUp("error")

(* the loops over the BATs: the next one, or what follows the last *)
Advance(first, ready, last) ==
    IF x.i < Bats THEN [x EXCEPT !.at = first, !.i = @ + 1, !.ready = ready] ELSE last

PhaseOver ==
    IF x.phase = "loadgen" /\ skip THEN [x EXCEPT !.at = "skip", !.i = 1]
    ELSE [x EXCEPT !.at = "phase", !.i = 1, !.phase = Next_(@)]

(* run(): the threads are started one after the other *)
StartBat ==
    /\ x.at = "start"
    /\ thread' = [thread EXCEPT ![x.i] = "begin"]
    /\ x' = Advance("start", TRUE, [x EXCEPT !.at = "ready", !.i = 1])
    /\ UNCHANGED <<skip, stop, ask, queues, state, client, force, generator, history>>


(* is_traffic_running() *)
Ready ==
    /\ x.at = "ready"
    /\ \/ (\E b \in Ids : state[b] \in {"failed", "stopped"}) /\ Release
       \/ /\ \A b \in Ids : state[b] \notin {"failed", "stopped"} /\ Online(b)
          /\ Go("phase") /\ UNCHANGED <<stop, ask, queues, state, history>>
    /\ Unchanged

(* start_phase(): a BAT that is in another phase, or did not answer, is    *)
(* passed over, except for postexec                                        *)
AskPhase == x.at \in {"phase", "where"} /\ Ask("phase")

Started ==
    Advance("phase", TRUE, IF x.phase = "postexec" THEN [x EXCEPT !.at = "join", !.i = 1]
        ELSE [x EXCEPT !.at = "status", !.i = 1, !.ready = TRUE, !.patience = TRUE])

GotPhase ==
    /\ x.at = "phase"
    /\ \E v \in Values :
         /\ Got(v)
         /\ Continue(IF v[1] = x.phase \/ x.phase = "postexec"
                     THEN [x EXCEPT !.at = "go"] ELSE Started)
    /\ UNCHANGED stop /\ Unchanged

(* what the BAT became meanwhile is not looked at again *)
AskStart == x.at = "go" /\ ~ask /\ Request("start") /\ Unchanged

GotStart ==
    /\ x.at = "go"
    /\ \E v \in Values : Got(v) /\ IF v = True THEN Continue(Started) ELSE Fail
    /\ UNCHANGED stop /\ Unchanged

(* wait_phase_end(), round by round: the first round stands for the 60 s   *)
(* in which a stopped generator is waited for                              *)
AskStatus == x.at \in {"status", "halted"} /\ Ask("status")

Round(ready) ==
    Advance("status", ready,
        IF x.phase = "loadgen" /\ stop THEN [x EXCEPT !.at = "halt", !.i = 1]
        ELSE IF ready THEN PhaseOver
        ELSE [x EXCEPT !.at = "status", !.i = 1, !.ready = TRUE, !.patience = FALSE])

GotStatus ==
    /\ x.at = "status"
    /\ \E v \in Values :
         /\ Got(v)
         /\ CASE v = None -> Fail
              [] v[1] = "Stopped" -> Continue(Round(x.ready /\ ~x.patience))
              [] OTHER -> Continue([x EXCEPT !.at = "where"])
    /\ UNCHANGED stop /\ Unchanged

(* mutant: the last BAT decides for all *)
MutantGotWhere ==
    /\ x.at = "where"
    /\ \E v \in Values : Got(v) /\ Continue(Round(v = <<Next_(x.phase), TRUE>>))
    /\ UNCHANGED stop /\ Unchanged

GotWhere ==
    /\ x.at = "where"
    /\ \E v \in Values :
         Got(v) /\ Continue(Round(x.ready /\ v = <<Next_(x.phase), TRUE>>))
    /\ UNCHANGED stop /\ Unchanged

(* stop_phase(): every BAT is told, then all are waited for *)
AskStop == x.at = "halt" /\ Ask("stop")

GotStop ==
    /\ x.at = "halt"
    /\ \E v \in Values :
         Got(v) /\ IF v = True
                   THEN Continue(Advance("halt", TRUE,
                                         [x EXCEPT !.at = "halted", !.i = 1, !.ready = TRUE]))
                   ELSE Fail
    /\ UNCHANGED stop /\ Unchanged

GotStopped ==
    /\ x.at = "halted"
    /\ \E v \in Values :
         LET ready == x.ready /\ v[1] = "Stopped" IN
         /\ Got(v)
         /\ IF v = None THEN Fail /\ UNCHANGED stop
            ELSE /\ Continue(Advance("halted", ready, IF ready THEN PhaseOver
                         ELSE [x EXCEPT !.i = 1, !.ready = TRUE]))
                 /\ stop' = (stop /\ ~(ready /\ x.i = Bats))
    /\ Unchanged

SkipPostexec ==
    /\ x.at = "skip" /\ StopBats("ok")
    /\ UNCHANGED <<stop, queues, faults, late, hasty>> /\ Unchanged

Shut ==
    /\ x.at = "shut" /\ StopBats(x.result)
    /\ UNCHANGED <<stop, queues, faults, late, hasty>> /\ Unchanged

(* External tools and components are also started and stopped between the  *)
(* phases.  What they raise leaves run() with no BAT told, if it is not an *)
(* ExecutionRunError; where one of them hangs, the executor does.          *)
BetweenPhases == x.at = "skip" \/ (x.at = "phase" /\ x.i = 1 /\ ~ask)

ShutFails ==
    /\ x.at = "shut" \/ BetweenPhases
    /\ Fault
    /\ \/ x' = [x EXCEPT !.at = "finish", !.result = "crash"]
       \/ x' = [x EXCEPT !.at = "stuck"]
       \/ BetweenPhases /\ x' = [x EXCEPT !.at = "shut", !.result = "error"]
    /\ UNCHANGED <<stop, ask, queues, state, late, hasty, lost>> /\ Unchanged

(* wait_BAT_thread_end(), without and with a limit: a BAT handles its stop *)
(* long before the 60 s are over                                           *)
Join ==
    /\ x.at \in {"join", "joining"}
    /\ ~Alive(x.i) \/ (/\ x.at = "joining" /\ thread[x.i] = "loop"
                       /\ state[x.i] # "pending_to_stop")
    /\ x' = Advance(x.at, TRUE,
                    [x EXCEPT !.at = "finish", !.result = IF @ = "" THEN "ok" ELSE @])
    /\ UNCHANGED <<stop, ask, queues, state, history>> /\ Unchanged

(* RTC_Data.finish(): what still runs is forced to end *)
Finish ==
    /\ x.at = "finish"
    /\ x' = [x EXCEPT !.at = "done"]
    /\ force' = TRUE
    /\ UNCHANGED <<skip, stop, ask, queues, state, thread, client, generator, history>>

(* request_stop_phase(), of the action or the capacity handler *)
RequestStop ==
    /\ x.phase = "loadgen" /\ ~stop /\ x.at \notin {"finish", "done"}
    /\ stop' = TRUE
    /\ UNCHANGED <<x, skip, ask, queues, bat, generator, history>>

(* Ctrl-C: the traffic is stopped *)
UserStops ==
    /\ x.at \notin {"stuck", "joining", "finish", "done"} /\ x.result # "user" /\ Fault
    /\ GiveUp("user")
    /\ UNCHANGED <<stop, queues, late, hasty>> /\ Unchanged

(* a second one, during the shutdown of the components, leaves run() *)
UserStopsAgain ==
    /\ x.at = "shut" /\ x.result = "user"
    /\ x' = [x EXCEPT !.at = "finish", !.result = "crash"]
    /\ UNCHANGED <<stop, ask, queues, state, history>> /\ Unchanged

(* Ctrl-C in wait_phase_end().  In loadgen the user may choose to go on    *)
(* with postexec, and the answer under way is left in the queue.           *)
Interrupted(phase) ==
    /\ x.at \in {"status", "where"} /\ x.phase = phase /\ Fault
    /\ ask' = FALSE
    /\ late' = (late \/ ask)
    /\ UNCHANGED <<stop, queues, state, lost>> /\ Unchanged

UserEndsLoadgen ==
    /\ Interrupted("loadgen")
    /\ x' = [x EXCEPT !.at = "halt", !.i = 1]
    /\ UNCHANGED hasty

(* In preexec, with no exit of the test case ordered, it is swallowed: the *)
(* round ends where it is, and preexec with it when every BAT that was     *)
(* asked so far was ready.  Only in the 5 s before a round is it harmless. *)
CtrlCSwallowed ==
    /\ Interrupted("preexec")
    /\ \/ x.ready /\ x' = PhaseOver /\ hasty' = TRUE
       \/ /\ ~x.ready \/ (x.at = "status" /\ x.i = 1 /\ ~ask)
          /\ x' = [x EXCEPT !.at = "status", !.i = 1, !.ready = TRUE]
          /\ UNCHANGED hasty

ExecutorStep ==
    \/ StartBat \/ Ready \/ AskPhase \/ GotPhase \/ AskStart \/ GotStart
    \/ AskStatus \/ GotStatus \/ GotWhere \/ AskStop \/ GotStop \/ GotStopped
    \/ SkipPostexec \/ Shut \/ Join \/ Finish

BatStep(b) ==
    \/ BatStarts(b) \/ AliasSent(b) \/ Aliased(b) \/ BatStops(b) \/ BatPrompt(b)
    \/ TrafficFinished(b) \/ Forced(b)

ClientStep(b) == Connect(b) \/ OwnerGone(b) \/ Serve(b) \/ ServeFails(b)

GeneratorStep(b) == PhaseFinishes(b) \/ ProcessEnds(b)

Disturbance(b) ==
    \/ StartExpires(b) \/ StopExpires(b) \/ EndOfFile(b) \/ ScenariosStop(b)
    \/ ProcessDies(b)

Next ==
    \/ ExecutorStep \/ ShutFails \/ RequestStop
    \/ UserStops \/ UserStopsAgain \/ UserEndsLoadgen \/ CtrlCSwallowed
    \/ \E b \in Ids : BatStep(b) \/ ClientStep(b) \/ GeneratorStep(b) \/ Disturbance(b)

(* The threads run; a phase of the generators ends, and so does a process  *)
(* that was told to.                                                       *)
Fairness ==
    /\ WF_vars(ExecutorStep)
    /\ \A b \in Ids : /\ WF_vars(BatStep(b))
                      /\ WF_vars(ClientStep(b))
                      /\ WF_vars(GeneratorStep(b))

Spec == Init /\ [][Next]_vars /\ Fairness

----------------------------------------------------------------------------
(* No generator is in loadgen while another one still runs preexec:        *)
(* wait_phase_end() keeps the instances in step, unless an answer was late *)
(* (or its wait interrupted), and every later one is taken for its         *)
(* predecessor's, or unless wait_phase_end() swallowed a Ctrl-C as the end *)
(* of preexec.                                                             *)
PhasesInStep ==
    ~late /\ ~hasty =>
        ~ \E b, c \in Ids : /\ titan[b] = "preexec" /\ runs[b] = "running"
                            /\ titan[c] # "preexec" /\ runs[c] = "running"

(* When run() has gone through stop_BATs(), after an error, a Ctrl-C or    *)
(* the last phase, no BAT is left with a generator nobody told to stop:    *)
(* only a BAT that missed its stop(), or that saw the end of the test case *)
(* in the log and believes it.  Nothing is said of an exception that       *)
(* leaves run() before stop_BATs() ("crash").                              *)
TrafficStopped ==
    x.at = "finish" /\ x.result # "crash" =>
        \A b \in Ids \ lost : proc[b] = "up" => ~Alive(b) \/ state[b] = "stopping"

(* Where the executor really waits for ever: a BAT that gave up starting,  *)
(* or whose client is gone, is never ready; one that a swallowed Ctrl-C    *)
(* left behind in preexec is never through loadgen; postexec has no time   *)
(* limit.                                                                  *)
Hung(b) ==
    \/ x.at = "ready" /\ state[b] \notin {"failed", "stopped"}
       /\ (thread[b] = "over" \/ client[b] = "closed")
    \/ hasty /\ x.at \in {"status", "where"} /\ x.phase = "loadgen"
       /\ titan[b] = "loadgen" /\ runs[b] = "idle"
    \/ x.at = "join" /\ thread[b] # "over" /\ (runs[b] = "stopped" \/ state[b] = "running")


=============================================================================
