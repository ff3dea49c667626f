------------------------------- MODULE TestRun -------------------------------
(***************************************************************************)
(* One execution of HSS_rtc: the main loop that takes the test cases of the *)
(* suite one by one (RTC_controller.run), the phases and steps of a test    *)
(* case, the verdicts kept by TestSuite and TestCase, and the remote        *)
(* control, whose thread orders quits, resumes and verdicts at any moment.  *)
(*                                                                         *)
(* The EXECUTION phase is one step here; module Execution opens it.         *)
(***************************************************************************)
EXTENDS Integers, Sequences, FiniteSets, SequencesExt

CONSTANTS
    Suite,      \* the configured test cases, in order: a sequence of records
                \* [mandatory, retries, phases], phases being a function from
                \* the enabled phases to the sequence of their enabled steps
    Phases,     \* user_config.phase
    Dbus,       \* user_config.dbus: the tool works for the controller
    MaxCmds,    \* bound: orders of the operator in one execution
    MaxFaults,  \* bound: failures of a step, a phase or a node
    SamePath    \* user_config.test_case_path is given

Flags == {"add_to_verdict", "stop_on_fail", "exit_rtc_on_fail",
          "skip_phase_on_fail", "report_not_valid", "repeat"}
Kinds == {"get", "background", "compare", "restarts", "traffic", "measure", "framework_check"}

\* The check functions are evaluated by CHECK.run; the other phases only run
\* commands.
CheckKinds == {"compare", "restarts", "traffic", "measure", "framework_check"}

IsSequence(s) == Len(s) \in Nat /\ DOMAIN s = 1 .. Len(s)

ASSUME SuiteAssumption ==
    /\ IsSequence(Suite) /\ IsSequence(Phases)
    /\ \A i \in DOMAIN Suite :
          /\ Suite[i].mandatory \in BOOLEAN /\ Suite[i].retries \in Nat
          /\ \A p \in DOMAIN Suite[i].phases :
                /\ IsSequence(Suite[i].phases[p])
                /\ \A k \in DOMAIN Suite[i].phases[p] :
                      /\ Suite[i].phases[p][k].kind \in Kinds
                      /\ Suite[i].phases[p][k].kind \in CheckKinds => p = "CHECK"
                      /\ Suite[i].phases[p][k].on \subseteq Flags

\* The OPTIONAL line of the cfg file: the cases behind it are optional.
ASSUME MandatoryFirst ==
    \A i, j \in DOMAIN Suite : i < j /\ Suite[j].mandatory => Suite[i].mandatory

VARIABLES
    tests,      \* TestSuite.__data['testCases']
    cur,        \* __current_text_case, counted from 1; 0 before the first
    pc,         \* where the main thread is
    ph, st,     \* the phase and the step it is at
    exit_rtc, exit_test_case, paused,
    sigint,     \* "none", or who sent the SIGINT that is still to be raised
    background, \* background commands of the test case are running
    node,       \* what the node reports to a get_ step (external)
    files,      \* the .data files of the test case, by phase; those of EXECUTION
                \* are the traffic results, 1 when an error rate is too high
    offers,     \* offers to the controller it has not answered yet
    cmds, faults,       \* spent budgets
    overtaken,  \* history: an answer came before the tool paused itself
    dropped,    \* history: the controller let an offer pass without an answer
    unseen,     \* history: the steps of the case a KeyError left out, as
                \* <<phase, step>>
    stop,       \* history: a stop was ordered and not taken back
    overruled,  \* history: the operator set the verdict of the suite
    killedBy    \* history: who ended the tool outside a test case

mainVars == <<pc, ph, st>>
flagVars == <<exit_rtc, exit_test_case, paused>>
caseVars == <<background, files, node>>
history  == <<overtaken, dropped, unseen, stop, overruled, killedBy>>
vars == <<tests, cur, mainVars, flagVars, sigint, caseVars, offers, cmds, faults, history>>

-----------------------------------------------------------------------------
(* TestCase *)

NewCase(i) ==
    [case |-> i, mandatory |-> Suite[i].mandatory, status |-> "not_executed",
     failed |-> FALSE, repeat |-> FALSE, report_not_valid |-> FALSE,
     retries |-> Suite[i].retries, reexecution |-> FALSE,
     invalid |-> FALSE]         \* history: a report_not_valid step failed

\* The clone is read again from its json file, with one retry less.
Clone(t) == [NewCase(t.case) EXCEPT !.retries = t.retries - 1, !.reexecution = TRUE]

ShallRepeat(t) == t.retries # 0 /\ t.repeat

\* update_status; a message makes the case fail, and only then repeat counts.
UpdateStatus(t, status, message, repeat) ==
    CASE status = "running" /\ t.status = "not_executed" -> [t EXCEPT !.status = status]
      [] status = "skipped" /\ t.status = "not_executed" -> [t EXCEPT !.status = status]
      [] status \in {"finished", "not_finished"} /\ t.status = "running" ->
            [t EXCEPT !.status = status, !.failed = @ \/ message,
                      !.repeat = @ \/ (message /\ repeat)]
      [] OTHER -> t

UpdateVerdict(t, repeat) == [t EXCEPT !.failed = TRUE, !.repeat = @ \/ repeat]

(* TestSuite *)

SuiteStatus(ts) ==
    IF \E i \in DOMAIN ts : ts[i].report_not_valid THEN "FAILED" ELSE "SUCCESS"

NextIsOptional(ts) == cur < Len(ts) /\ ~ts[cur + 1].mandatory

\* Mutant: the verdict of the repeated attempt stays.
RepeatKeepsVerdict(ts) == InsertAt(ts, cur + 1, Clone(ts[cur]))

RepeatTestCase(ts) ==
    InsertAt([ts EXCEPT ![cur].report_not_valid = FALSE], cur + 1, Clone(ts[cur]))

ForceStatus(ts, status) ==
    [i \in DOMAIN ts |->
        IF ts[i].status \in {"finished", "not_finished"}
        THEN [ts[i] EXCEPT !.report_not_valid = (status = "FAILED")]
        ELSE ts[i]]

-----------------------------------------------------------------------------
Init ==
    /\ tests = [i \in DOMAIN Suite |-> NewCase(i)]
    /\ cur = 0 /\ pc = "top" /\ ph = 0 /\ st = 0
    /\ exit_rtc = FALSE /\ exit_test_case = FALSE /\ paused = FALSE
    /\ sigint = "none" /\ background = FALSE /\ node = 0
    /\ files = <<>> /\ offers = 0 /\ cmds = 0 /\ faults = 0
    /\ overtaken = FALSE /\ dropped = FALSE /\ unseen = {} /\ stop = FALSE /\ overruled = FALSE /\ killedBy = "none"

Config == Suite[tests[cur].case].phases
Phase == Phases[ph]
Step == Config[Phase][st]

Fault == faults < MaxFaults /\ faults' = faults + 1

Goto(label, p, s) == pc' = label /\ ph' = p /\ st' = s
NextPhase == Goto("phases", ph + 1, 0)
SetCase(t) == tests' = [tests EXCEPT ![cur] = t]

(* The main loop, up to the test case *)

\* while self.__paused; the check of exit_rtc; next_text_case.
TakeTestCase ==
    /\ pc = "top" /\ ~paused
    /\ IF exit_rtc \/ cur = Len(tests)
       THEN Goto("report", 0, 0) /\ UNCHANGED cur
       ELSE Goto("initialize", 0, 0) /\ cur' = cur + 1
    /\ UNCHANGED <<tests, flagVars, sigint, caseVars, offers, cmds, faults, history>>

ResetFlags == exit_rtc' = FALSE /\ exit_test_case' = FALSE /\ UNCHANGED paused

\* Every attempt has a directory of its own; with --test_case_path all share one,
\* and the files of the case before remain.
Initialize ==
    /\ pc = "initialize"
    /\ ResetFlags
    /\ SetCase(UpdateStatus(tests[cur], "running", FALSE, FALSE))
    /\ files' = (IF SamePath THEN files ELSE <<>>) /\ unseen' = {}
    /\ Goto("phases", 1, 0)
    /\ UNCHANGED <<cur, sigint, background, node, offers, cmds, faults,
                   overtaken, dropped, stop, overruled, killedBy>>

\* check_reference raises ExecutionNotAllowed.
Skip ==
    /\ pc = "initialize" /\ Fault
    /\ ResetFlags
    /\ SetCase(UpdateStatus(tests[cur], "skipped", TRUE, FALSE))
    /\ Goto("top", 0, 0)
    /\ UNCHANGED <<cur, sigint, caseVars, offers, cmds, history>>

(* The phases of a test case *)

BeginPhase ==
    /\ pc = "phases" /\ ph <= Len(Phases)
    /\ IF exit_test_case
       THEN /\ SetCase(UpdateStatus(tests[cur], "not_finished", TRUE, FALSE))
            /\ Goto("wrap", 0, 0)
       ELSE /\ IF Phase \in DOMAIN Config THEN Goto("step", ph, 1) ELSE NextPhase
            /\ UNCHANGED tests
    /\ UNCHANGED <<cur, flagVars, sigint, caseVars, offers, cmds, faults, history>>

EndPhases ==
    /\ pc = "phases" /\ ph > Len(Phases)
    /\ SetCase(UpdateStatus(tests[cur], "finished", FALSE, FALSE))
    /\ Goto("wrap", 0, 0)
    /\ UNCHANGED <<cur, flagVars, sigint, caseVars, offers, cmds, faults, history>>

(* Exceptions: what the except clauses of the main loop make of the case t *)

\* Mutant: the exception decides alone about exit_rtc.
RaiseForgetsQuit(t, exception) ==
    /\ SetCase(UpdateStatus(t, "not_finished", TRUE, FALSE))
    /\ exit_rtc' = (exception = "ExitRtc" /\ ~ShallRepeat(t))
    /\ UNCHANGED <<exit_test_case, paused>>
    /\ Goto("wrap", 0, 0)

Raise(t, exception) ==
    /\ SetCase(CASE exception = "run_error" -> UpdateStatus(t, "not_finished", TRUE, FALSE)
                 [] exception = "BatError"  -> UpdateStatus(t, "not_finished", TRUE, TRUE)
                 [] OTHER                   -> UpdateStatus(t, "not_finished", FALSE, FALSE))
    /\ exit_rtc' = (exit_rtc \/ (exception = "ExitRtc" /\ ~ShallRepeat(t)))
    /\ UNCHANGED <<exit_test_case, paused>>
    /\ Goto("wrap", 0, 0)

(* The steps of a phase *)

LeavePhase ==
    /\ pc = "step"
    /\ st > Len(Config[Phase]) \/ (Phase # "EXECUTION" /\ exit_test_case)
    /\ NextPhase
    /\ UNCHANGED <<tests, cur, flagVars, sigint, caseVars, offers, cmds, faults, history>>

\* except KeyError: continue. A step whose own code lacks a key ends its phase, and
\* the case goes on as if the phase were done.
LackKey ==
    /\ pc = "step" /\ st <= Len(Config[Phase]) /\ Fault
    /\ NextPhase
    /\ unseen' = unseen \cup {<<ph, k>> : k \in st .. Len(Config[Phase])}
    /\ UNCHANGED <<tests, cur, flagVars, sigint, caseVars, offers, cmds,
                   overtaken, dropped, stop, overruled, killedBy>>

AtStep(kinds) ==
    /\ pc = "step" /\ st <= Len(Config[Phase]) /\ Phase # "EXECUTION" /\ ~exit_test_case
    /\ Step.kind \in kinds

StepDone == Goto("step", ph, st + 1) /\ UNCHANGED <<tests, flagVars>>

\* A failed step: the verdict first, then at most one exception.
FailedCase(t, on) ==
    LET counts == on \cap {"add_to_verdict", "stop_on_fail",
                           "exit_rtc_on_fail", "report_not_valid"} # {}
        judged == IF counts THEN UpdateVerdict(t, "repeat" \in on) ELSE t
    IN  IF "report_not_valid" \in on
        THEN [judged EXCEPT !.report_not_valid = TRUE, !.invalid = TRUE]
        ELSE judged

StepFailed(on) ==
    LET t == FailedCase(tests[cur], on) IN
    CASE "exit_rtc_on_fail" \in on -> Raise(t, "ExitRtc")
      [] "stop_on_fail" \in on /\ "exit_rtc_on_fail" \notin on ->
            Raise(t, "StopTestCaseOnFail")
      [] OTHER -> /\ SetCase(t) /\ UNCHANGED flagVars
                  /\ IF "skip_phase_on_fail" \in on THEN NextPhase
                     ELSE Goto("step", ph, st + 1)

StepUnchanged == UNCHANGED <<cur, sigint, offers, cmds, history>>

\* save_info_to_file: the .data file of a phase, written over the earlier one.
Saved(f, p, v) == [q \in DOMAIN f \cup {p} |-> IF q = p THEN v ELSE f[q]]

\* A command in the foreground; what it printed is saved whatever it returned, but
\* not an empty output.
RunCommand ==
    /\ AtStep({"get"})
    /\ \/ /\ files' = Saved(files, Phase, node)
          /\ StepDone /\ UNCHANGED faults
       \/ Fault /\ StepDone /\ UNCHANGED files
       \/ /\ Fault /\ StepFailed(Step.on)
          /\ files' \in {files, Saved(files, Phase, node)}
       \/ /\ Fault /\ Raise(tests[cur], "run_error")      \* save_info_to_file
          /\ UNCHANGED files
    /\ UNCHANGED <<background, node>> /\ StepUnchanged

RunBackground ==
    /\ AtStep({"background"})
    /\ \/ background' = TRUE /\ StepDone /\ UNCHANGED faults
       \/ Fault /\ StepFailed(Step.on) /\ UNCHANGED background
    /\ UNCHANGED <<files, node>> /\ StepUnchanged

\* Mutant: what was not recorded cannot differ.
CompareTrustsMissing(f) ==
    /\ "PRE" \in DOMAIN f /\ "POST" \in DOMAIN f
    /\ f["PRE"] # f["POST"]

\* compare_output_files: a missing file is a failure as well.
CompareFails(f) ==
    ~(/\ "PRE" \in DOMAIN f /\ "POST" \in DOMAIN f
      /\ f["PRE"] = f["POST"])

RunCompare ==
    /\ AtStep({"compare"})
    /\ IF CompareFails(files) THEN StepFailed(Step.on) ELSE StepDone
    /\ UNCHANGED <<caseVars, faults>> /\ StepUnchanged

\* check_pods_restarts and check_free_memory: a difference is reported, and the
\* result stays True; only data that cannot be read fails the step.
RunRestarts ==
    /\ AtStep({"restarts"})
    /\ IF {"PRE", "POST"} \subseteq DOMAIN files THEN StepDone ELSE StepFailed(Step.on)
    /\ UNCHANGED <<caseVars, faults>> /\ StepUnchanged

\* check_traffic_result: no statistics found is no failure.
RunTraffic ==
    /\ AtStep({"traffic"})
    /\ IF "EXECUTION" \in DOMAIN files /\ files["EXECUTION"] = 1
       THEN StepFailed(Step.on) ELSE StepDone
    /\ UNCHANGED <<caseVars, faults>> /\ StepUnchanged

\* check_epm, check_load_stability, check_scenario_error_rate: a verdict on other
\* measurements of the EXECUTION phase.
RunMeasure ==
    /\ AtStep({"measure"})
    /\ \/ StepDone /\ UNCHANGED faults
       \/ Fault /\ StepFailed(Step.on)
    /\ UNCHANGED caseVars /\ StepUnchanged

\* CHECK evaluates what run() returns, and run() returns nothing for a framework
\* step: once the command itself went well, eval raises.
RunFrameworkCheck ==
    /\ AtStep({"framework_check"})
    /\ \/ Raise(tests[cur], "Exception") /\ UNCHANGED faults
       \/ /\ Fault
          /\ IF Step.on \cap {"exit_rtc_on_fail", "stop_on_fail", "skip_phase_on_fail"} # {}
             THEN StepFailed(Step.on)
             ELSE Raise(FailedCase(tests[cur], Step.on), "Exception")
    /\ UNCHANGED caseVars /\ StepUnchanged

\* The EXECUTION phase: its threads may fail the verdict, the node may change.
RunExecution ==
    /\ pc = "step" /\ Phase = "EXECUTION" /\ st <= Len(Config[Phase])
    /\ \/ /\ files' \in {files, Saved(files, "EXECUTION", 0)}
          /\ StepDone /\ UNCHANGED <<node, faults>>
       \/ /\ Fault /\ files' = Saved(files, "EXECUTION", 1)
          /\ node' \in {node, 1 - node} /\ StepDone
       \/ /\ Fault /\ SetCase(UpdateVerdict(tests[cur], FALSE))
          /\ Goto("step", ph, st + 1) /\ UNCHANGED <<flagVars, node, files>>
       \/ Fault /\ Raise(tests[cur], "run_error") /\ UNCHANGED <<node, files>>
       \/ Fault /\ Raise(tests[cur], "BatError") /\ UNCHANGED <<node, files>>
    /\ UNCHANGED background /\ StepUnchanged

(* After a test case *)

\* RTC_Data.finish: a case still running has ended abnormally.
Finished(ts) ==
    IF cur > 0 /\ ts[cur].status = "running"
    THEN [ts EXCEPT ![cur] = UpdateStatus(ts[cur], "not_finished", TRUE, FALSE)]
    ELSE ts

\* finish, the repetition and the offer of the tool to the controller.
WrapUp ==
    /\ pc = "wrap"
    /\ background' = FALSE
    /\ tests' = LET ts == Finished(tests) IN
                IF ShallRepeat(ts[cur]) THEN RepeatTestCase(ts) ELSE ts
    /\ IF Dbus /\ (NextIsOptional(tests') \/ SuiteStatus(tests') # "SUCCESS")
       THEN Goto("offered", 0, 0) /\ offers' = offers + 1
       ELSE Goto("top", 0, 0) /\ UNCHANGED offers
    /\ UNCHANGED <<cur, flagVars, sigint, files, node, cmds, faults, history>>

Pause ==
    /\ pc = "offered"
    /\ paused' = TRUE
    /\ Goto("top", 0, 0)
    /\ UNCHANGED <<tests, cur, exit_rtc, exit_test_case, sigint, caseVars, offers,
                   cmds, faults, history>>

\* stop_remote_control, display_report and create_report.
Report ==
    /\ pc = "report"
    /\ Goto("done", 0, 0)
    /\ UNCHANGED <<tests, cur, flagVars, sigint, caseVars, offers, cmds, faults, history>>

(* SIGINT *)

InTestCase == pc \in {"phases", "step"}
Alive == pc \notin {"done", "killed"}

\* Inside the try of the main loop. With no order of the remote control the
\* operator is asked at the console: Enter goes on, a second Ctrl-C stops.
InterruptCase ==
    /\ sigint # "none" /\ InTestCase
    /\ sigint' = "none"
    /\ SetCase(UpdateStatus(tests[cur], "not_finished", TRUE, FALSE))
    /\ IF exit_rtc \/ exit_test_case
       THEN UNCHANGED <<exit_rtc, stop>>
       ELSE \E again \in BOOLEAN : exit_rtc' = again /\ stop' = (stop \/ again)
    /\ Goto("wrap", 0, 0)
    /\ UNCHANGED <<cur, exit_test_case, paused, caseVars, offers, cmds, faults,
                   overtaken, dropped, unseen, overruled, killedBy>>

\* The EXECUTION phase catches the KeyboardInterrupt, stops its traffic and goes on;
\* what exit_test_case then asks for is up to the phases.
InterruptTraffic ==
    /\ sigint # "none" /\ pc = "step" /\ Phase = "EXECUTION"
    /\ st <= Len(Config[Phase])
    /\ sigint' = "none"
    /\ UNCHANGED <<tests, cur, mainVars, flagVars, caseVars, offers, cmds, faults, history>>

\* Anywhere else the KeyboardInterrupt leaves the loop: main ends in
\* quit_program, which releases the tool (RTC.release calls finish).
InterruptTool ==
    /\ sigint # "none" /\ ~InTestCase /\ Alive
    /\ sigint' = "none"
    /\ killedBy' = sigint
    /\ tests' = Finished(tests) /\ background' = FALSE
    /\ Goto("killed", 0, 0)
    /\ UNCHANGED <<cur, flagVars, files, node, offers, cmds, faults,
                   overtaken, dropped, unseen, overruled, stop>>

(* The remote control thread *)

Listening == pc \notin {"done", "killed"}

Order == Listening /\ cmds < MaxCmds /\ cmds' = cmds + 1

OrderUnchanged == UNCHANGED <<tests, cur, mainVars, caseVars, offers, faults,
                              overtaken, dropped, unseen, overruled, killedBy>>

\* initialize takes the order back unseen when it falls between the check of
\* the loop and the reset of the flags; the history does not count that one.
Quit ==
    /\ Order
    /\ paused' = FALSE /\ exit_rtc' = TRUE /\ exit_test_case' = FALSE
    /\ stop' = (stop \/ pc # "initialize")
    /\ UNCHANGED sigint /\ OrderUnchanged

ContinueQuit ==
    /\ Order
    /\ paused' = FALSE /\ exit_rtc' = FALSE /\ exit_test_case' = TRUE
    /\ sigint' = (IF InTestCase THEN "continue_quit" ELSE "continue_quit_between")
    /\ stop' = FALSE
    /\ OrderUnchanged

ForceQuit ==
    /\ Order
    /\ paused' = FALSE /\ exit_rtc' = TRUE /\ exit_test_case' = TRUE
    /\ sigint' = "force_quit" /\ stop' = (stop \/ pc # "initialize")
    /\ OrderUnchanged

CtrlC ==
    /\ Order
    /\ sigint' = "operator" /\ UNCHANGED <<flagVars, stop>>
    /\ OrderUnchanged

SetStatus(status) ==
    /\ Order
    /\ tests' = ForceStatus(tests, status) /\ overruled' = TRUE
    /\ UNCHANGED <<cur, mainVars, flagVars, sigint, caseVars, offers, faults,
                   overtaken, dropped, unseen, stop, killedBy>>

\* Resuming by hand, whether or not the tool is paused.
Resume ==
    /\ Order
    /\ paused' = FALSE
    /\ UNCHANGED <<exit_rtc, exit_test_case, sigint, stop>> /\ OrderUnchanged

\* Mutant: a quit does not end the pause.
AnswerLeavesPaused ==
    /\ Listening /\ offers > 0
    /\ offers' = offers - 1
    /\ overtaken' = (overtaken \/ pc = "offered")
    /\ \/ paused' = FALSE /\ UNCHANGED <<exit_rtc, exit_test_case, stop>>
       \/ exit_rtc' = TRUE /\ exit_test_case' = FALSE /\ UNCHANGED paused
          /\ stop' = (stop \/ pc # "initialize")
    /\ UNCHANGED <<tests, cur, mainVars, sigint, caseVars, cmds, faults,
                   dropped, unseen, overruled, killedBy>>

\* The controller answers an offer: go on (resume) or make room (quit).
Answer ==
    /\ Listening /\ offers > 0
    /\ offers' = offers - 1
    /\ overtaken' = (overtaken \/ pc = "offered")
    /\ paused' = FALSE
    /\ \/ UNCHANGED <<exit_rtc, exit_test_case, stop>>
       \/ exit_rtc' = TRUE /\ exit_test_case' = FALSE /\ stop' = (stop \/ pc # "initialize")
    /\ UNCHANGED <<tests, cur, mainVars, sigint, caseVars, cmds, faults,
                   dropped, unseen, overruled, killedBy>>

\* Or it drops the offer: the check it sends itself finds the service paused meanwhile,
\* a build of high priority under test, or no build any more, and answers nobody.
Drop ==
    /\ offers > 0
    /\ offers' = offers - 1 /\ dropped' = TRUE
    /\ UNCHANGED <<tests, cur, mainVars, flagVars, sigint, caseVars, cmds, faults,
                   overtaken, unseen, stop, overruled, killedBy>>

Main == TakeTestCase \/ Initialize \/ Skip \/ BeginPhase \/ EndPhases \/ LeavePhase
        \/ LackKey \/ RunCommand \/ RunBackground \/ RunCompare \/ RunRestarts
        \/ RunTraffic \/ RunMeasure \/ RunFrameworkCheck \/ RunExecution \/ WrapUp \/ Pause \/ Report

Next ==
    \/ Main \/ InterruptCase \/ InterruptTraffic \/ InterruptTool
    \/ Quit \/ ContinueQuit \/ ForceQuit \/ CtrlC \/ Resume
    \/ \E status \in {"SUCCESS", "FAILED"} : SetStatus(status)
    \/ Answer \/ Drop

\* The main thread goes on, a raised signal is delivered, and the controller
\* handles every offer it gets: it answers quit or resume, or drops it.
Fairness == /\ WF_vars(Main)
            /\ WF_vars(InterruptCase \/ InterruptTraffic \/ InterruptTool)
            /\ WF_vars(Answer \/ Drop)

Spec == Init /\ [][Next]_vars /\ Fairness

-----------------------------------------------------------------------------
TypeOK ==
    /\ \A i \in DOMAIN tests :
          /\ tests[i].case \in DOMAIN Suite
          /\ tests[i].status \in {"not_executed", "running", "finished", "not_finished", "skipped"}
          /\ {tests[i].failed, tests[i].repeat, tests[i].report_not_valid} \subseteq BOOLEAN
          /\ tests[i].retries \in 0 .. Suite[tests[i].case].retries
    /\ cur \in 0 .. Len(tests)
    /\ pc \in {"top", "initialize", "phases", "step", "wrap", "offered", "report",
               "done", "killed"}
    /\ {exit_rtc, exit_test_case, paused, background, overtaken, dropped, stop,
        overruled} \subseteq BOOLEAN

\* A case that ends without a failure has the same node on record for PRE and for
\* POST, if a comparison is part of its verdict, and no error rate above the limit,
\* if the traffic check is (checks behind a step that may skip the phase aside): steps
\* that failed or printed nothing, phases that were skipped, traffic that was stopped
\* and orders that came meanwhile hide neither. A KeyError does: the checks it left out
\* are not promised. (With an interrupt still to be raised the case is being cut short.
\* The record is the case's own unless --test_case_path makes all cases share one.)
Judged(p, k, kind) ==
    /\ Config[p][k].kind = kind /\ "add_to_verdict" \in Config[p][k].on
    /\ \A j \in 1 .. k - 1 : "skip_phase_on_fail" \notin Config[p][j].on

SuccessIsReal ==
    pc = "wrap" /\ tests[cur].status = "finished" /\ ~tests[cur].failed /\ sigint = "none" =>
        \A n \in DOMAIN Phases : Phases[n] \in DOMAIN Config =>
            \A k \in DOMAIN Config[Phases[n]] :
                /\ Judged(Phases[n], k, "compare") /\ <<n, k>> \notin unseen =>
                      {"PRE", "POST"} \subseteq DOMAIN files /\ files["PRE"] = files["POST"]
                /\ /\ Judged(Phases[n], k, "traffic") /\ <<n, k>> \notin unseen
                   /\ "EXECUTION" \in DOMAIN files
                   => files["EXECUTION"] = 0

\* The phases in the order of the default list: nothing but checks behind the
\* checks (--phase may ask for any other order).
ChecksLast ==
    \A i, j \in DOMAIN Phases : i < j /\ Phases[i] = "CHECK" => Phases[j] = "CHECK"

\* Between test cases, and as long as no operator overrules it, the suite is
\* FAILED exactly when the last attempt at some case broke a report_not_valid
\* step: a repetition takes the failure of the earlier attempt back, and nothing else.
SuiteVerdict ==
    pc \in {"top", "report", "done"} /\ ~overruled =>
        (SuiteStatus(tests) = "FAILED" <=>
            \E i \in DOMAIN tests : /\ tests[i].invalid
                                    /\ \A j \in DOMAIN tests :
                                        j > i => tests[j].case # tests[i].case)

\* Once a stop is ordered and not taken back, no further test case is started,
\* whatever the running one does (exceptions, repetitions, pauses).
QuitObeyed ==
    [][\A i \in DOMAIN tests :
        tests[i].status = "not_executed" /\ tests'[i].status = "running" => ~stop]_vars

\* Every execution ends, unless the controller's answer overtook the pause it
\* answers, or the controller dropped an offer: either tool stays paused until
\* somebody resumes it.
EndsUnlessOvertaken == <>(~Alive \/ overtaken \/ dropped)

=============================================================================
