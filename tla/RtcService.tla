----------------------------- MODULE RtcService -----------------------------
(***************************************************************************)
(* Continuous testing of HSS builds: the gateway, the build handler, the   *)
(* controller, its RTC_Handler threads and the HSS_rtc test tool, composed.*)
(*                                                                         *)
(*   gateway     one thread per TCP message, runs the configured actions   *)
(*               of the trigger one after the other (gw)                   *)
(*   build       answers one request at a time, so a request is one step   *)
(*   handler     on db (its requests are the operators of BuildDB)         *)
(*   bus         D-Bus signals, handled in order by the single Watcher     *)
(*               thread of the controller                                  *)
(*   controller  ctl; a handler that makes several requests, or waits, is  *)
(*               as many steps (ctl.pc)                                    *)
(*   runs        one record per RTC_Handler: its thread, the HSS_rtc tool  *)
(*               it launched and the tool's UDP inbox                      *)
(***************************************************************************)
EXTENDS BuildDB

CONSTANTS
    Triggers,           \* kinds of TCP messages
    TriggerTranslator,  \* the gateway's TRIGGER_TRANSLATOR
    ProjectPrefix,      \* builds whose name starts with a build's project
    ReleasePrefix,      \* builds whose name starts with a build's release
    Scenarios,          \* what the environment may do in one behaviour
    MaxRuns,            \* bound: tests started
    Mandatory,          \* mandatory test cases of a suite
    Optional,           \* optional ones, run after the mandatory ones
    OfferIsAtomic       \* nobody answers the tool's offer before it has paused

(* The TCP messages that come, the rtc_cli commands the operator may give  *)
(* and how many (a bound), how test cases may end, and what may break.     *)
Scenario ==
    [triggers : SUBSET Triggers,
     commands : SUBSET {"pause", "resume", "force_build"},
     cli : Nat,
     outcomes : SUBSET {"ok", "fail", "skip", "exit"},
     failures : SUBSET {"config", "start", "clean", "thread", "tool", "channel"}]

ASSUME ServiceAssumption ==
    /\ TriggerTranslator \in [Triggers -> Seq(STRING)]
    /\ ProjectPrefix \in [Builds -> SUBSET Builds]
    /\ ReleasePrefix \in [Builds -> SUBSET Builds]
    /\ Scenarios \subseteq Scenario
    /\ MaxRuns \in Nat /\ Mandatory \in Nat /\ Optional \in Nat
    /\ OfferIsAtomic \in BOOLEAN

VARIABLES
    env,    \* the scenario, with the commands left in its cli
    gw, bus, ctl, runs

serviceVars == <<env, db, gw, bus, ctl, runs>>

LastTest == Mandatory + Optional

Sig(name, b, flag) == [name |-> name, build |-> b, flag |-> flag]
Check == Sig("check_priority_list", None, FALSE)

Signals ==
    [name : {"check_priority_list", "set_test_to_faulty", "priority_increase",
             "test_tool_ready_for_new_build", "test_tool_shutdown",
             "pause", "resume", "force_build"},
     build : Builds \cup {None}, flag : BOOLEAN]

Controller ==
    [pc : {"idle", "get_build", "prepare", "wait", "faulty"},
     paused : BOOLEAN, build : Builds \cup {None}, high : BOOLEAN,
     stoppable : BOOLEAN, handler : Nat]

Run ==
    [build : Builds,
     thread : {"launch", "watch", "done"},
     ongoing : BOOLEAN, started : BOOLEAN, error : BOOLEAN,
     tool : {"off", "launched", "top", "picked", "testing", "ready", "closing",
             "gone"},
     printed : BOOLEAN, paused : BOOLEAN, exit : BOOLEAN,
     tests : 0 .. LastTest, ok : BOOLEAN,
     inbox : Seq({"quit", "resume"}),
     late : BOOLEAN]    \* history: see NewRun

ServiceTypeOK ==
    /\ DBType(db)
    /\ bus \in Seq(Signals)
    /\ ctl \in Controller
    /\ ctl.handler \in 0 .. Len(runs)
    /\ runs \in Seq(Run)
    /\ env \in Scenario

ServiceInit ==
    /\ db = EmptyDB
    /\ gw = [b \in Builds |->
                [t \in Triggers |->
                    [at |-> 1, was_pending |-> FALSE, dropped |-> {}]]]
    /\ bus = <<>>
    /\ ctl = [pc |-> "idle", paused |-> TRUE, build |-> None, high |-> FALSE,
              stoppable |-> FALSE, handler |-> 0]
    /\ runs = <<>>
    /\ env \in Scenarios

----------------------------------------------------------------------------
(*                               The gateway                               *)

(* The exceptions of the build handler end the list of actions. *)
Raises(a, b) ==
    CASE a = "build_info_add" -> b \in Known(db)
      [] a \in {"priority_add", "baseline_add"} -> b \notin Known(db)
      [] a = "build_info_update" ->
             b \notin Known(db) \/ db.build_info[b].test_info = EmptyInfo
      [] a = "priority_increase" -> ProjectOf[b] \notin DOMAIN db.priority
      [] OTHER -> FALSE

(* the test_info a message carries; its contents play no part here *)
TheInfo == [k \in InfoKeys |-> CHOOSE v \in Versions : TRUE]

AfterAction(a, b) ==
    CASE a = "build_info_add" -> build_info_add(db, b, TheInfo)
      [] a = "build_info_update" -> build_info_update(db, b, TheInfo)
      [] a = "priority_add" -> priority_add(db, b)
      [] a = "priority_del" -> priority_del(db, b, TRUE)
      [] a = "priority_increase" -> priority_increase(db, b)
      [] a = "baseline_add" -> baseline_add(db, b)
      [] a = "release_info_purge" -> clean_build(db, ReleasePrefix[b])
      [] a = "project_info_purge" -> clean_build(db, ProjectPrefix[b] \ {b})
      [] OTHER -> db

(* priority_increase is a request and then a signal that carries the       *)
(* answer of the request; the signal is an element of its own.             *)
Emitted(a, b, was_pending) ==
    CASE a = "check_priority_list" -> <<Check>>
      [] a = "set_test_to_faulty" -> <<Sig("set_test_to_faulty", b, FALSE)>>
      [] a = "emit_priority_increase" ->
             <<Sig("priority_increase", b, was_pending)>>
      [] OTHER -> <<>>

IsPending(b) ==
    /\ ProjectOf[b] \in DOMAIN db.priority
    /\ b \in Members(db.priority[ProjectOf[b]].pending)

(* What may lose its place in the queue, untested, and keep its record: the *)
(* builds a promotion of b leaves behind, which are those queued before it *)
(* and the one promoted before it, and the baselines a purge cleans.       *)
DroppedBy(a, b) ==
    LET e == db.priority[ProjectOf[b]]
    IN  CASE a = "priority_increase" /\ IsPending(b) ->
                 Members(Before(e.pending, b)) \cup {e.high_priority}
          [] a = "release_info_purge" -> ReleasePrefix[b] \cap Baselined(db)
          [] a = "project_info_purge" -> (ProjectPrefix[b] \ {b}) \cap Baselined(db)
          [] OTHER -> {}

(* The thread of a message does one action of the list; an exception skips *)
(* the rest of them.  A message arrives with its first action.  dropped is *)
(* history.                                                                *)
Handle(b, t) ==
    LET at == gw[b][t].at
        a == TriggerTranslator[t][at]
    IN  /\ at \in DOMAIN TriggerTranslator[t]
        /\ IF Raises(a, b)
           THEN /\ gw' = [gw EXCEPT ![b][t].at = Len(TriggerTranslator[t]) + 1]
                /\ UNCHANGED <<db, bus>>
           ELSE /\ gw' = [gw EXCEPT ![b][t] =
                      [at |-> at + 1,
                       was_pending |-> a = "priority_increase" /\ IsPending(b),
                       dropped |-> @.dropped \cup DroppedBy(a, b)]]
                /\ db' = AfterAction(a, b)
                /\ bus' = bus \o Emitted(a, b, gw[b][t].was_pending)
        /\ UNCHANGED <<ctl, runs, env>>

----------------------------------------------------------------------------
(*                              The operator                               *)

Command(c, b) ==
    /\ env.cli > 0
    /\ (b # None) = (c = "force_build")
    /\ env' = [env EXCEPT !.cli = @ - 1]
    /\ bus' = Append(bus, Sig(c, b, FALSE))
    /\ UNCHANGED <<db, gw, ctl, runs>>

----------------------------------------------------------------------------
(*                             The controller                              *)

ongoing_test == ctl.handler # 0 /\ runs[ctl.handler].ongoing

Alive(r) == runs[r].tool \notin {"off", "gone"}

(* The UDP port belongs to the tool between start_remote_control and       *)
(* stop_remote_control; a command nobody listens for is lost.              *)
Listens(r) == runs[r].tool \in {"top", "picked", "testing", "ready"}

(* send_rtc_command of handler h: nothing is sent once its thread is over. *)
(* "set test_execution_status DISCARDED", which HSS_rtc refuses, and "set  *)
(* high_priority", which it only reports, are left out.                    *)
Sent(h, cmd) ==
    [r \in DOMAIN runs |->
        IF runs[h].thread # "done" /\ Listens(r)
        THEN [runs[r] EXCEPT !.inbox = Append(@, cmd)] ELSE runs[r]]

(* The Watcher takes the next signal when its handler has returned. *)
Takes(name) == ctl.pc = "idle" /\ bus # <<>> /\ Head(bus).name = name

(* the signal is dropped with nothing done *)
Ignore == bus' = Tail(bus) /\ UNCHANGED <<db, gw, ctl, runs, env>>

(* mutant: the next test is started without waiting for the old one to end *)
Mutant_check_priority_list ==
    /\ Takes("check_priority_list")
    /\ IF \/ ctl.paused
          \/ ctl.high /\ ~ctl.stoppable
          \/ ~is_there_build_to_test(db)
          \/ ongoing_test /\ ~ctl.stoppable
       THEN Ignore
       ELSE /\ bus' = Tail(bus)
            /\ IF ongoing_test
               THEN /\ runs' = Sent(ctl.handler, "quit")
                    /\ ctl' = [ctl EXCEPT !.pc = "get_build"]
               ELSE ctl' = [ctl EXCEPT !.pc = "get_build"] /\ UNCHANGED runs
            /\ UNCHANGED <<db, gw, env>>

check_priority_list ==
    /\ Takes("check_priority_list")
    /\ IF \/ ctl.paused
          \/ ctl.high /\ ~ctl.stoppable
          \/ ~is_there_build_to_test(db)
          \/ ongoing_test /\ ~ctl.stoppable
       THEN Ignore
       ELSE /\ bus' = Tail(bus)
            /\ IF ongoing_test
               THEN runs' = Sent(ctl.handler, "quit") /\ UNCHANGED ctl
               ELSE ctl' = [ctl EXCEPT !.pc = "get_build"] /\ UNCHANGED runs
            /\ UNCHANGED <<db, gw, env>>

(* start_hss_rtc_execution: the request get_build.  Meanwhile the build    *)
(* that was there may have been withdrawn.  A build without record makes   *)
(* get_build raise after it left the queue.                                *)
get_build ==
    LET b == find_next_build(db)[1]
    IN  /\ ctl.pc = "get_build"
        /\ db' = IF b = None THEN db ELSE extract(db)
        /\ ctl' = IF b = None
                  THEN [ctl EXCEPT !.pc = "idle", !.build = None, !.high = FALSE]
                  ELSE IF b \notin Known(db) THEN [ctl EXCEPT !.pc = "idle"]
                  ELSE [ctl EXCEPT !.pc = "prepare", !.build = b,
                                   !.high = find_next_build(db)[2]]
        /\ UNCHANGED <<gw, bus, runs, env>>

ShutdownOnTheWay(b) ==
    \E i \in DOMAIN bus : bus[i] = Sig("test_tool_shutdown", b, FALSE)

(* late: the end of an earlier test of the build is still to be handled, or *)
(* to come, from a tool whose channel broke                                *)
NewRun(b) ==
    [build |-> b, thread |-> "launch", ongoing |-> FALSE, started |-> FALSE,
     error |-> FALSE, tool |-> "off", printed |-> FALSE, paused |-> FALSE,
     exit |-> FALSE, tests |-> 0, ok |-> TRUE, inbox |-> <<>>,
     late |-> \/ ShutdownOnTheWay(b)
              \/ \E r \in DOMAIN runs : Alive(r) /\ runs[r].build = b]

(* start_hss_rtc_execution: create the RTC_Handler, prepare the scenario   *)
(* and start the thread                                                    *)
prepare ==
    /\ ctl.pc = "prepare"
    /\ Len(runs) < MaxRuns
    /\ runs' = Append(runs, NewRun(ctl.build))
    /\ ctl' = [ctl EXCEPT !.pc = "wait", !.stoppable = FALSE,
                          !.handler = Len(runs) + 1]
    /\ UNCHANGED <<db, gw, bus, env>>

(* creating the handler or preparing the scenario fails *)
prepare_fails ==
    /\ "start" \in env.failures
    /\ ctl.pc = "prepare"
    /\ ctl' = [ctl EXCEPT !.pc = "faulty"]
    /\ UNCHANGED <<db, gw, bus, runs, env>>

(* update_build_status, for a test the service started by itself *)
StatusAfter(s) ==
    IF ~ctl.paused /\ ctl.build \in Known(db)
    THEN set_status(db, ctl.build, s) ELSE db

(* the start event is set: the tool runs, or it failed to start *)
wait_start ==
    /\ ctl.pc = "wait"
    /\ runs[ctl.handler].started
    /\ IF runs[ctl.handler].error
       THEN ctl' = [ctl EXCEPT !.pc = "faulty"] /\ UNCHANGED db
       ELSE ctl' = [ctl EXCEPT !.pc = "idle"] /\ db' = StatusAfter("TEST_ONGOING")
    /\ UNCHANGED <<gw, bus, runs, env>>

(* a failed start: TEST_FAULTY, then clean() *)
start_failed ==
    /\ ctl.pc = "faulty"
    /\ db' = StatusAfter("TEST_FAULTY")
    /\ ctl' = [ctl EXCEPT !.pc = "idle", !.handler = 0, !.stoppable = FALSE,
                          !.build = None, !.high = FALSE]
    /\ UNCHANGED <<gw, bus, runs, env>>

set_test_to_faulty ==
    /\ Takes("set_test_to_faulty")
    /\ IF ctl.paused \/ ctl.build # Head(bus).build \/ ctl.handler = 0
       THEN Ignore
       ELSE /\ bus' = Append(Tail(bus), Check)
            /\ db' = StatusAfter("CANCELLED")
            /\ ctl' = [ctl EXCEPT !.stoppable = TRUE]
            /\ UNCHANGED <<gw, runs, env>>

priority_increased ==
    /\ Takes("priority_increase")
    /\ IF ctl.paused THEN Ignore
       ELSE IF ongoing_test /\ ctl.build = Head(bus).build
       THEN /\ bus' = Tail(bus)
            /\ ctl' = [ctl EXCEPT !.high = TRUE]
            /\ UNCHANGED <<db, gw, runs, env>>
       ELSE IF ~ctl.high /\ Head(bus).flag
       THEN /\ bus' = Append(Tail(bus), Check)
            /\ ctl' = [ctl EXCEPT !.stoppable = TRUE]
            /\ UNCHANGED <<db, gw, runs, env>>
       ELSE Ignore

test_tool_ready_for_new_build ==
    /\ Takes("test_tool_ready_for_new_build")
    /\ bus' = IF ~ctl.paused /\ Head(bus).build = ctl.build
                 /\ is_there_build_to_test(db)
              THEN Append(Tail(bus), Check) ELSE Tail(bus)
    /\ ctl' = IF ~ctl.paused /\ Head(bus).build = ctl.build
              THEN [ctl EXCEPT !.stoppable = TRUE] ELSE ctl
    /\ runs' = IF /\ ctl.handler # 0
                  /\ \/ ctl.paused
                     \/ Head(bus).build = ctl.build
                        /\ ~is_there_build_to_test(db)
               THEN Sent(ctl.handler, "resume") ELSE runs
    /\ UNCHANGED <<db, gw, env>>

(* mutant: the queue is not looked at when a test has ended *)
Mutant_test_tool_shutdown ==
    LET b == Head(bus).build
    IN  /\ Takes("test_tool_shutdown")
        /\ db' = IF b \in Known(db)
                 THEN add_build_test_result(db, b, CHOOSE r \in Results : TRUE)
                 ELSE db
        /\ IF b # ctl.build
           THEN bus' = Tail(bus) /\ UNCHANGED ctl
           ELSE /\ bus' = Tail(bus)
                /\ ctl' = [ctl EXCEPT !.stoppable = FALSE, !.handler = 0,
                                      !.build = None, !.high = FALSE]
        /\ UNCHANGED <<gw, runs, env>>

(* the result is kept for any build that still has a record; the rest is   *)
(* for the build under test                                                *)
test_tool_shutdown ==
    LET b == Head(bus).build
    IN  /\ Takes("test_tool_shutdown")
        /\ db' = IF b \in Known(db)
                 THEN add_build_test_result(db, b, CHOOSE r \in Results : TRUE)
                 ELSE db
        /\ IF b # ctl.build
           THEN bus' = Tail(bus) /\ UNCHANGED ctl
           ELSE /\ bus' = Append(Tail(bus), Check)
                /\ ctl' = [ctl EXCEPT !.stoppable = FALSE, !.handler = 0,
                                      !.build = None, !.high = FALSE]
        /\ UNCHANGED <<gw, runs, env>>

pause ==
    /\ Takes("pause")
    /\ bus' = Tail(bus)
    /\ ctl' = [ctl EXCEPT !.paused = TRUE]
    /\ UNCHANGED <<db, gw, runs, env>>

(* The service that is not configured, or cannot read its configuration,   *)
(* stays as it is.  refresh_DBM_from_file puts the file in the place of    *)
(* memory.  Every request made here saved what it changed, except for the  *)
(* withdrawal of a build queued without record, and QueuedKnown says there *)
(* is none: the file is what memory is.                                    *)
resume ==
    /\ Takes("resume")
    /\ \/ "config" \in env.failures /\ Ignore
       \/ /\ bus' = Append(Tail(bus), Check)
          /\ ctl' = [ctl EXCEPT !.paused = FALSE]
          /\ UNCHANGED <<db, gw, runs, env>>

(* Only in paused state and with no ongoing test.  The test_info comes     *)
(* from the build handler or from a file the operator names (given); the   *)
(* operator also chooses the priority.                                     *)
force_build ==
    LET b == Head(bus).build
    IN  /\ Takes("force_build")
        /\ \E high, given \in BOOLEAN :
               IF ~ctl.paused \/ ongoing_test \/ ~(given \/ b \in Known(db))
               THEN Ignore
               ELSE /\ bus' = Tail(bus)
                    /\ db' = priority_del(db, b, FALSE)
                    /\ ctl' = [ctl EXCEPT !.pc = "prepare", !.build = b,
                                          !.high = high]
                    /\ UNCHANGED <<gw, runs, env>>

ControllerStep ==
    \/ check_priority_list \/ get_build \/ prepare \/ wait_start \/ start_failed
    \/ set_test_to_faulty \/ priority_increased
    \/ test_tool_ready_for_new_build \/ test_tool_shutdown
    \/ pause \/ resume \/ force_build

----------------------------------------------------------------------------
(*                          The RTC_Handler thread                         *)

(* what is left of a tool that is gone *)
Gone(run) == [run EXCEPT !.tool = "gone", !.paused = FALSE, !.exit = FALSE,
                         !.tests = 0, !.ok = TRUE, !.inbox = <<>>]

(* run_clean_test_environment kills every HSS_rtc still there (killed) or  *)
(* fails; thread r goes on as run.                                         *)
Cleans(r, killed, run) ==
    /\ runs[r].thread = "launch"
    /\ runs' = [q \in DOMAIN runs |->
           IF q = r THEN run
           ELSE IF killed /\ Alive(q) THEN Gone(runs[q]) ELSE runs[q]]
    /\ UNCHANGED <<db, gw, bus, ctl, env>>

(* A command that fails is ignored; the command line starts a new HSS_rtc. *)
launch(r) ==
    \E killed \in BOOLEAN :
        /\ killed \/ "clean" \in env.failures
        /\ Cleans(r, killed, [runs[r] EXCEPT !.thread = "watch", !.tool = "launched"])

(* Any other exception ends the thread with the start event not set: the   *)
(* controller waits for it and takes no signal any more.                   *)
launch_dies(r) ==
    /\ "thread" \in env.failures
    /\ \E killed \in BOOLEAN : Cleans(r, killed, [runs[r] EXCEPT !.thread = "done"])

(* 'RTC execution start' is read from the channel *)
sees_start(r) ==
    /\ runs[r].thread = "watch"
    /\ runs[r].printed /\ ~runs[r].started
    /\ runs' = [runs EXCEPT ![r].ongoing = TRUE, ![r].started = TRUE]
    /\ UNCHANGED <<db, gw, bus, ctl, env>>

(* the prompt is read: HSS_rtc has ended *)
sees_prompt(r) ==
    /\ runs[r].thread = "watch"
    /\ runs[r].tool = "gone"
    /\ runs[r].printed => runs[r].started
    /\ runs' = [runs EXCEPT ![r].ongoing = FALSE, ![r].thread = "done",
                            ![r].started = TRUE, ![r].error = @ \/ ~runs[r].started]
    /\ UNCHANGED <<db, gw, bus, ctl, env>>

(* The channel breaks: ongoing_test keeps its value, and the tool, whose   *)
(* terminal is gone, works on or dies (tool_dies).                         *)
sees_eof(r) ==
    /\ "channel" \in env.failures
    /\ runs[r].thread = "watch"
    /\ runs' = [runs EXCEPT ![r].thread = "done", ![r].started = TRUE,
                            ![r].error = TRUE]
    /\ UNCHANGED <<db, gw, bus, ctl, env>>

----------------------------------------------------------------------------
(*                         HSS_rtc, the test tool                          *)

(* start_remote_control: the port is bound and the start is logged; when   *)
(* another tool has the port the tool ends, with its shutdown signal.      *)
tool_opens(r) ==
    /\ runs[r].tool = "launched"
    /\ IF \E q \in DOMAIN runs : Listens(q)
       THEN /\ runs' = [runs EXCEPT ![r] = Gone(@)]
            /\ bus' = Append(bus, Sig("test_tool_shutdown", runs[r].build, FALSE))
       ELSE /\ runs' = [runs EXCEPT ![r].tool = "top", ![r].printed = TRUE]
            /\ UNCHANGED bus
    /\ UNCHANGED <<db, gw, ctl, env>>

(* top of the loop of RTC_controller.run: a test case left to execute *)
next_text_case(r) ==
    /\ runs[r].tool = "top"
    /\ ~runs[r].paused /\ ~runs[r].exit
    /\ runs[r].tests < LastTest
    /\ runs' = [runs EXCEPT ![r].tool = "picked", ![r].tests = @ + 1]
    /\ UNCHANGED <<db, gw, bus, ctl, env>>

(* RTC_Data.initialize resets the exit request, whoever made it meanwhile *)
initialize(r) ==
    /\ runs[r].tool = "picked"
    /\ runs' = [runs EXCEPT ![r].tool = "testing", ![r].exit = FALSE]
    /\ UNCHANGED <<db, gw, bus, ctl, env>>

(* A test case ends: passed, failed, skipped ("continue"), or failed with  *)
(* ExitRtc.  The tool offers itself for another build before an optional   *)
(* test case, and after any once the suite has failed.                     *)
test_case_ends(r, outcome) ==
    LET ok == runs[r].ok /\ outcome \in {"ok", "skip"}
        ready == /\ outcome # "skip"
                 /\ \/ runs[r].tests \in Mandatory .. LastTest - 1
                    \/ ~ok
    IN  /\ runs[r].tool = "testing"
        /\ runs' = [runs EXCEPT ![r].tool = IF ready /\ ~OfferIsAtomic
                                            THEN "ready" ELSE "top",
                                ![r].paused = ready /\ OfferIsAtomic,
                                ![r].ok = ok,
                                ![r].exit = @ \/ outcome = "exit"]
        /\ bus' = IF ready
                  THEN Append(bus, Sig("test_tool_ready_for_new_build",
                                       runs[r].build, FALSE))
                  ELSE bus
        /\ UNCHANGED <<db, gw, ctl, env>>

(* The signal is out; only now does the tool pause itself.  OfferIsAtomic  *)
(* is the assumption on timing under which that is early enough.           *)
pauses(r) ==
    /\ runs[r].tool = "ready"
    /\ runs' = [runs EXCEPT ![r].tool = "top", ![r].paused = TRUE]
    /\ UNCHANGED <<db, gw, bus, ctl, env>>

(* the loop ends: stop_remote_control closes the port *)
leaves_loop(r) ==
    /\ runs[r].tool = "top"
    /\ ~runs[r].paused
    /\ runs[r].exit \/ runs[r].tests = LastTest
    /\ runs' = [runs EXCEPT ![r].tool = "closing", ![r].inbox = <<>>]
    /\ UNCHANGED <<db, gw, bus, ctl, env>>

(* quit_program *)
quit_program(r) ==
    /\ runs[r].tool = "closing"
    /\ runs' = [runs EXCEPT ![r] = Gone(@)]
    /\ bus' = Append(bus, Sig("test_tool_shutdown", runs[r].build, FALSE))
    /\ UNCHANGED <<db, gw, ctl, env>>

(* the RemoteControl thread: quit and resume *)
read_udp_cmd(r) ==
    /\ Listens(r)
    /\ runs[r].inbox # <<>>
    /\ runs' = [runs EXCEPT
           ![r].inbox = Tail(@),
           ![r].paused = @ /\ Head(runs[r].inbox) \notin {"quit", "resume"},
           ![r].exit = @ \/ Head(runs[r].inbox) = "quit"]
    /\ UNCHANGED <<db, gw, bus, ctl, env>>

(* the tool dies without a word *)
tool_dies(r) ==
    /\ "tool" \in env.failures
    /\ Alive(r)
    /\ runs' = [runs EXCEPT ![r] = Gone(@)]
    /\ UNCHANGED <<db, gw, bus, ctl, env>>

RunStep(r) ==
    \/ launch(r) \/ sees_start(r) \/ sees_prompt(r)
    \/ tool_opens(r) \/ next_text_case(r) \/ initialize(r)
    \/ \E o \in env.outcomes : test_case_ends(r, o)
    \/ pauses(r) \/ leaves_loop(r) \/ quit_program(r)

ServiceNext ==
    \/ \E b \in Builds, t \in env.triggers : Handle(b, t)
    \/ \E c \in env.commands, b \in Builds \cup {None} : Command(c, b)
    \/ ControllerStep
    \/ prepare_fails
    \/ \E r \in DOMAIN runs : RunStep(r)
    \/ \E r \in DOMAIN runs : read_udp_cmd(r)
    \/ \E r \in DOMAIN runs : launch_dies(r)
    \/ \E r \in DOMAIN runs : sees_eof(r)
    \/ \E r \in DOMAIN runs : tool_dies(r)

(* Every thread gets to run; messages, commands and failures need not come *)
ServiceFairness ==
    /\ \A b \in Builds, t \in Triggers :
           WF_serviceVars(gw[b][t].at > 1 /\ Handle(b, t))
    /\ WF_serviceVars(ControllerStep)
    /\ \A r \in 1 .. MaxRuns :
           /\ WF_serviceVars(r \in DOMAIN runs /\ RunStep(r))
           /\ WF_serviceVars(r \in DOMAIN runs /\ read_udp_cmd(r))

ServiceSpec == ServiceInit /\ [][ServiceNext]_serviceVars /\ ServiceFairness

----------------------------------------------------------------------------
(* Starting a test never kills another one: when the environment is        *)
(* cleaned (kill -9 of every HSS_rtc) no other tool is still at work or    *)
(* about to send its result.  But for a tool whose channel broke, whose    *)
(* test may count as not started; and unless a build was tested again      *)
(* before the controller had handled the end of its last test: it takes    *)
(* that signal for the end of the new one and knows nothing of the tool    *)
(* any more.                                                               *)
NoTestKilled ==
    (\E r \in DOMAIN runs : runs[r].thread = "launch")
    /\ (\A r \in DOMAIN runs : ~runs[r].late)
        => \A q \in DOMAIN runs : Alive(q) => runs[q].error

(* TEST_ONGOING tells the truth: the controller has that build under test, *)
(* or the result is on its way.  A status that lies keeps clean_build away *)
(* from the build for ever.  A tool that dies silently makes it lie, so    *)
(* this is for behaviours without failures.                                *)
OngoingIsReal ==
    \A b \in Known(db) :
        db.build_info[b].status = "TEST_ONGOING" /\ env.failures = {} =>
            \/ ctl.build = b /\ ctl.handler # 0
            \/ ShutdownOnTheWay(b)

Queued(b) ==
    \E p \in DOMAIN db.priority : \/ b \in Members(db.priority[p].pending)
                                  \/ b = db.priority[p].high_priority

(* Whatever is promoted, withdrawn, forced or purged meanwhile, a queued    *)
(* build has a record, a promoted one too: get_build finds its test_info,  *)
(* and a refresh from the file brings back no build that was withdrawn.    *)
QueuedKnown == \A b \in Builds : Queued(b) => b \in Known(db)

(* A newer build of the project was promoted, or a purge cleaned b, which  *)
(* is a baseline and so keeps its record.                                  *)
Dropped(b) == \E c \in Builds, t \in Triggers : b \in gw[c][t].dropped

Announced(b) == b \in Known(db) /\ gw[b]["new_build"].at > 2

(* A build that was queued and has neither a result nor another status is  *)
(* still in the queue, or the controller has taken it, or the end of its   *)
(* test is on the way, unless the promotion of a newer build left it       *)
(* behind or a purge cleaned it as a baseline.  A promoted build, and one  *)
(* queued after it, is no exception.                                       *)
NotForgotten ==
    \A b \in Builds :
        Announced(b) =>
            \/ db.build_info[b].status # "NOT_TESTED"
            \/ db.build_info[b].test_result # <<>>
            \/ Queued(b) \/ ctl.build = b \/ Dropped(b)
            \/ ShutdownOnTheWay(b)

(* Unless the operator keeps the service paused, a queued build is tested  *)
(* or withdrawn in the end, whether the tests before it pass, fail, are    *)
(* skipped, stop on ExitRtc or are told to quit: each sends the signal     *)
(* that has the queue looked at.  This is for services where nothing       *)
(* breaks.  A test that fails to start, a tool that dies silently, a       *)
(* channel or a thread that breaks sends no such signal, and the queue     *)
(* then stands still until another message comes, or for good.             *)
AnnouncedIsTested ==
    <>[](~ctl.paused) =>
        \A b \in Builds :
            Announced(b) ~>
                \/ b \notin Known(db)
                \/ db.build_info[b].status \notin {"NOT_TESTED", "TEST_ONGOING"}

(* A build withdrawn while it was under test stays CANCELLED: neither the  *)
(* result its tool sends when it quits nor anything else makes it TESTED.  *)
(* This is for operators who force no build: one forced before its message *)
(* has queued it can be cancelled first, queued then and tested again.     *)
CancelledStays ==
    [][\A b \in Known(db) :
           /\ db.build_info[b].status = "CANCELLED"
           /\ b \in Known(db)'
           /\ "force_build" \notin env.commands
           => db'.build_info[b].status = "CANCELLED"]_serviceVars

----------------------------------------------------------------------------
(*               Trigger configurations and scenarios                      *)

(* A build's messages have it queued at one place of one list. *)
QueuesOnce ==
    \A t, u \in Triggers :
        \A i \in DOMAIN TriggerTranslator[t], j \in DOMAIN TriggerTranslator[u] :
            TriggerTranslator[t][i] = "priority_add" /\ TriggerTranslator[u][j] = "priority_add"
            => t = u /\ i = j

(* A new build's message records it and queues it before anything else,    *)
(* and nothing else does.                                                  *)
ListsInOrder ==
    /\ "new_build" \in Triggers /\ Len(TriggerTranslator["new_build"]) >= 2
    /\ \A t \in Triggers : \A i \in DOMAIN TriggerTranslator[t] :
           /\ TriggerTranslator[t][i] = "build_info_add" <=> t = "new_build" /\ i = 1
           /\ TriggerTranslator[t][i] = "priority_add" <=> t = "new_build" /\ i = 2

(* Where builds are forced nothing breaks: the status of a forced build is *)
(* not updated when its test fails to start.                               *)
ForcedUnbroken == \A s \in Scenarios : s.failures = {} \/ "force_build" \notin s.commands
=============================================================================
